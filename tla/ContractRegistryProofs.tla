----------------------- MODULE ContractRegistryProofs -----------------------
(***************************************************************************)
(* Proofs about ContractRegistry, for any number of requests, endpoints,   *)
(* fingerprints and processes and for every assignment of lock numbers.    *)
(*                                                                         *)
(* The argument: a request inserts version n + 1 only after it read a      *)
(* committed version n as current, and the UNIQUE constraint lets it       *)
(* commit only if no committed row has number n + 1.  Since the committed  *)
(* numbers have no gap, n is then the newest version at the commit, it is  *)
(* the only current row, and the request demoted it.                       *)
(***************************************************************************)
EXTENDS ContractRegistry, Sequences, TLAPS

\* Statements after get_current_schema, with `current` in use.
HasCurrent == {"recheck", "demote", "demote_wait", "insert", "classify", "commit"}
\* Statements after ensure_endpoint.
HasEndpoint == {"fast_lookup", "lock", "found"} \cup Registering

-----------------------------------------------------------------------------
\* Committed rows belong to finished requests and are numbered from 1 ...
RowsDone == \A x \in committed : pc[x] = "done" /\ version[x] >= 1

\* ... without repetitions, which the UNIQUE constraints enforce ...
RowsDistinct ==
    \A x, y \in committed :
       x # y /\ ep(x) = ep(y) => version[x] # version[y] /\ fp(x) # fp(y)

\* ... and without gaps; ...
RowsDense ==
    \A x \in committed : \A n \in 1..version[x] :
       \E y \in committed : ep(y) = ep(x) /\ version[y] = n

\* ... each is linked to its predecessor and classified against it.
RowsLinked ==
    \A x \in committed :
       /\ previous[x] = None => version[x] = 1 /\ class[x] = Safe
       /\ previous[x] # None => /\ previous[x] \in committed
                                /\ ep(previous[x]) = ep(x)
                                /\ version[x] = version[previous[x]] + 1
                                /\ class[x] = Drift(previous[x], x)

RowsOK == RowsDone /\ RowsDistinct /\ RowsDense /\ RowsLinked

\* The current rows are the newest ones, and every row has one above it.
CurrentOK ==
    /\ \A x \in isCurrent, y \in committed :
          ep(y) = ep(x) => version[y] <= version[x]
    /\ \A y \in committed : \E x \in isCurrent : ep(x) = ep(y)

\* Endpoint rows: committed exactly when the endpoint has a version; an
\* uncommitted one belongs to the only request that got past ensure_endpoint.
EndpointsOK ==
    /\ EndpointHasCurrent
    /\ \A r \in newEndpoint : ep(r) \notin endpoints /\ pc[r] \in HasEndpoint
    /\ \A r, q \in newEndpoint : r # q => ep(r) # ep(q)
    /\ \A r \in Requests : pc[r] \in HasEndpoint =>
                              ep(r) \in endpoints \/ r \in newEndpoint

\* What a request in flight knows of the committed rows.
FlightOK ==
    \A r \in Requests :
       /\ matched[r] \subseteq committed
       /\ \A x \in matched[r] : ep(x) = ep(r)
       /\ pc[r] \in HasCurrent /\ current[r] # None =>
             current[r] \in committed /\ ep(current[r]) = ep(r)
       /\ pc[r] \in {"demote_wait"} \cup HoldsRows /\ current[r] # None =>
             current[r] \in matched[r]
       /\ pc[r] \in {"demote", "demote_wait"} => current[r] # None
       /\ pc[r] \in {"found", "done"} => FingerprintKnown(r)
       /\ pc[r] \notin {"commit"} \cup Ended => class[r] = Safe

\* An uncommitted row: it clashes with no committed and no uncommitted row.
InsertOK ==
    \A r \in Requests : pc[r] \in OpenInsert =>
       /\ previous[r] = current[r]
       /\ version[r] = NextVersion(r)
       /\ \A x \in Requests : /\ x # r
                              /\ ep(x) = ep(r)
                              /\ x \in committed \/ pc[x] \in OpenInsert
                              => version[x] # version[r] /\ fp(x) # fp(r)
       /\ pc[r] = "commit" =>
             /\ previous[r] = None => class[r] = Safe
             /\ previous[r] # None => class[r] = Drift(previous[r], r)

\* The inductive invariant.
IInv ==
    /\ TypeOK
    /\ RowsOK
    /\ CurrentOK
    /\ EndpointsOK
    /\ FlightOK
    /\ InsertOK

-----------------------------------------------------------------------------
\* A step is the step of one request, or changes nothing.
LEMMA StepCases ==
    ASSUME [Next]_vars
    PROVE  (\E r \in Requests : Step(r) \/ Fail(r)) \/ UNCHANGED vars
  BY DEF Next, AllAnswered

\* The empty registry has the types TypeOK states.
LEMMA InitType == ASSUME Init PROVE TypeOK
  BY ConstantsAssumption DEF Init, TypeOK, PCs

\* Every statement of a request keeps the types.
LEMMA StepType ==
    ASSUME TypeOK, NEW r \in Requests, Step(r) \/ Fail(r)
    PROVE  TypeOK'
<1> USE ConstantsAssumption DEF TypeOK, PCs, Goto, tables, Ended
<1>1. CASE Submit(r) BY <1>1 DEF Submit
<1>2. CASE SelectEndpoint(r) BY <1>2 DEF SelectEndpoint
<1>3. CASE InsertEndpoint(r) BY <1>3 DEF InsertEndpoint
<1>4. CASE FastLookup(r) BY <1>4 DEF FastLookup
<1>5. CASE AcquireLock(r) BY <1>5 DEF AcquireLock, MyLock, ep
<1>6. CASE ReadCurrent(r) BY <1>6 DEF ReadCurrent, RowsOf
<1>7. CASE Recheck(r) BY <1>7 DEF Recheck
<1>8. CASE BeginDemote(r) BY <1>8 DEF BeginDemote, RowsOf
<1>9. CASE EndDemote(r) BY <1>9 DEF EndDemote
<1>10. CASE InsertVersion(r)
  <2>1. NextVersion(r) \in Nat BY DEF NextVersion
  <2>2. CASE Clashes(r, NextVersion(r)) \cap committed = {}
    <3>1. /\ version' = [version EXCEPT ![r] = NextVersion(r)]
          /\ previous' = [previous EXCEPT ![r] = current[r]]
          /\ pc' = [pc EXCEPT ![r] = "classify"]
          /\ UNCHANGED <<args, newEndpoint, lockHolder, current, matched,
                         class, endpoints, committed, isCurrent>>
      BY <1>10, <2>2 DEF InsertVersion
    <3>2. version' \in [Requests -> Nat] BY <3>1, <2>1
    <3> QED BY <3>1, <3>2
  <2>3. CASE Clashes(r, NextVersion(r)) \cap committed # {}
    BY <1>10, <2>3 DEF InsertVersion
  <2> QED BY <2>2, <2>3
<1>11. CASE Classify(r)
  <2>1. previous[r] # None => Drift(previous[r], r) \in Classes
    BY DEF fp, Drift
  <2> QED BY <1>11, <2>1 DEF Classify
<1>12. CASE Commit(r)
  <2>1. CASE pc[r] = "commit" BY <1>12, <2>1 DEF Commit, ReleaseLocks, ep
  <2>2. CASE pc[r] # "commit" BY <1>12, <2>2 DEF Commit, ReleaseLocks, ep
  <2> QED BY <2>1, <2>2
<1>13. CASE IntegrityError(r) BY <1>13 DEF IntegrityError, Rollback, ReleaseLocks
<1>14. CASE Fail(r) BY <1>14 DEF Fail, Rollback, ReleaseLocks
<1> QED BY <1>1, <1>2, <1>3, <1>4, <1>5, <1>6, <1>7, <1>8, <1>9, <1>10,
           <1>11, <1>12, <1>13, <1>14 DEF Step

\* The variables of the registry always have their types.
THEOREM TypeCorrect == Spec => []TypeOK
<1>1. Init => TypeOK BY InitType
<1>2. TypeOK /\ [Next]_vars => TypeOK'
  <2> SUFFICES ASSUME TypeOK, [Next]_vars PROVE TypeOK'
    OBVIOUS
  <2>1. CASE UNCHANGED vars BY <2>1 DEF vars, TypeOK
  <2> QED BY <2>1, StepCases, StepType
<1> QED BY <1>1, <1>2, PTL DEF Spec

-----------------------------------------------------------------------------
\* The inductive invariant holds of the empty registry.
LEMMA InitIInv == ASSUME Init PROVE IInv
<1>1. TypeOK BY InitType
<1>2. RowsOK /\ CurrentOK
  BY DEF Init, RowsOK, RowsDone, RowsDistinct, RowsDense, RowsLinked, CurrentOK
<1>3. EndpointsOK
  BY DEF Init, EndpointsOK, EndpointHasCurrent, HasEndpoint, Registering
<1>4. FlightOK
  BY DEF Init, FlightOK, HasCurrent, HoldsRows
<1>5. InsertOK BY DEF Init, InsertOK, OpenInsert
<1> QED BY <1>1, <1>2, <1>3, <1>4, <1>5 DEF IInv

\* The table is untouched by a step that leaves the committed rows alone.
LEMMA TableKept ==
    ASSUME IInv, TypeOK', UNCHANGED <<args, committed, isCurrent>>,
           \A x \in committed : /\ version'[x] = version[x]
                                /\ previous'[x] = previous[x]
                                /\ class'[x] = class[x]
                                /\ pc'[x] = pc[x]
    PROVE  RowsOK' /\ CurrentOK'
<1> USE DEF IInv, TypeOK, RowsOK
<1>1. RowsDone' BY DEF RowsDone
<1>2. RowsDistinct' BY DEF RowsDistinct, ep, fp
<1>3. RowsDense' BY DEF RowsDense, ep
<1>4. RowsLinked' BY DEF RowsLinked, ep, fp, Drift
<1>5. CurrentOK' BY DEF CurrentOK, ep
<1> QED BY <1>1, <1>2, <1>3, <1>4, <1>5

\* Every statement of a request keeps the invariant.
LEMMA StepIInv ==
    ASSUME IInv, NEW r \in Requests, Step(r) \/ Fail(r)
    PROVE  IInv'
<1>t. TypeOK /\ TypeOK' BY StepType DEF IInv
<1> USE <1>t, ConstantsAssumption
<1>r. \A x \in committed : pc[x] = "done" BY DEF IInv, RowsOK, RowsDone
<1>1. CASE Submit(r)
  <2> USE <1>1 DEF Submit, Goto, tables
  <2>1. RowsOK' /\ CurrentOK'
    BY <1>r, TableKept DEF TypeOK, Ended
  <2>3. EndpointsOK'
    BY DEF IInv, TypeOK, EndpointsOK, EndpointHasCurrent, HasEndpoint, Registering, ep, Ended
  <2>4. FlightOK'
    BY DEF IInv, TypeOK, FlightOK, HasCurrent, HoldsRows, Ended, FingerprintKnown, RowsOf, ep, fp
  <2>5. InsertOK'
    BY DEF IInv, TypeOK, InsertOK, OpenInsert, NextVersion, ep, fp, Drift
  <2> QED BY <2>1, <2>3, <2>4, <2>5 DEF IInv
<1>2. CASE SelectEndpoint(r)
  <2> USE <1>2 DEF SelectEndpoint, Goto, tables
  <2>1. RowsOK' /\ CurrentOK'
    BY <1>r, TableKept DEF TypeOK, Ended
  <2>3. EndpointsOK'
    BY DEF IInv, TypeOK, EndpointsOK, EndpointHasCurrent, HasEndpoint, Registering, ep, Ended
  <2>4. FlightOK'
    BY DEF IInv, TypeOK, FlightOK, HasCurrent, HoldsRows, Ended, FingerprintKnown, RowsOf, ep, fp
  <2>5. InsertOK'
    BY DEF IInv, TypeOK, InsertOK, OpenInsert, NextVersion, ep, fp, Drift
  <2> QED BY <2>1, <2>3, <2>4, <2>5 DEF IInv
<1>3. CASE InsertEndpoint(r)
  <2> USE <1>3 DEF InsertEndpoint, Goto, tables
  <2>1. RowsOK' /\ CurrentOK'
    BY <1>r, TableKept DEF TypeOK, Ended
  <2>3. EndpointsOK'
    BY DEF IInv, TypeOK, EndpointsOK, EndpointHasCurrent, HasEndpoint, Registering, ep, Ended
  <2>4. FlightOK'
    BY DEF IInv, TypeOK, FlightOK, HasCurrent, HoldsRows, Ended, FingerprintKnown, RowsOf, ep, fp
  <2>5. InsertOK'
    BY DEF IInv, TypeOK, InsertOK, OpenInsert, NextVersion, ep, fp, Drift
  <2> QED BY <2>1, <2>3, <2>4, <2>5 DEF IInv
<1>4. CASE FastLookup(r)
  <2> USE <1>4 DEF FastLookup, Goto, tables
  <2>1. RowsOK' /\ CurrentOK'
    BY <1>r, TableKept DEF TypeOK, Ended
  <2>3. EndpointsOK'
    BY DEF IInv, TypeOK, EndpointsOK, EndpointHasCurrent, HasEndpoint, Registering, ep, Ended
  <2>4. FlightOK'
    BY DEF IInv, TypeOK, FlightOK, HasCurrent, HoldsRows, Ended, FingerprintKnown, RowsOf, ep, fp
  <2>5. InsertOK'
    BY DEF IInv, TypeOK, InsertOK, OpenInsert, NextVersion, ep, fp, Drift
  <2> QED BY <2>1, <2>3, <2>4, <2>5 DEF IInv
<1>5. CASE AcquireLock(r)
  <2> USE <1>5 DEF AcquireLock, Goto, tables
  <2>1. RowsOK' /\ CurrentOK'
    BY <1>r, TableKept DEF TypeOK, Ended
  <2>3. EndpointsOK'
    BY DEF IInv, TypeOK, EndpointsOK, EndpointHasCurrent, HasEndpoint, Registering, ep, Ended
  <2>4. FlightOK'
    BY DEF IInv, TypeOK, FlightOK, HasCurrent, HoldsRows, Ended, FingerprintKnown, RowsOf, ep, fp
  <2>5. InsertOK'
    BY DEF IInv, TypeOK, InsertOK, OpenInsert, NextVersion, ep, fp, Drift
  <2> QED BY <2>1, <2>3, <2>4, <2>5 DEF IInv
<1>6. CASE ReadCurrent(r)
  <2> USE <1>6 DEF ReadCurrent, Goto, tables
  <2>1. RowsOK' /\ CurrentOK'
    BY <1>r, TableKept DEF TypeOK, Ended
  <2>3. EndpointsOK'
    BY DEF IInv, TypeOK, EndpointsOK, EndpointHasCurrent, HasEndpoint, Registering, ep, Ended
  <2>4. FlightOK'
    BY DEF IInv, TypeOK, FlightOK, HasCurrent, HoldsRows, Ended, FingerprintKnown, RowsOf, ep, fp
  <2>5. InsertOK'
    BY DEF IInv, TypeOK, InsertOK, OpenInsert, NextVersion, ep, fp, Drift
  <2> QED BY <2>1, <2>3, <2>4, <2>5 DEF IInv
<1>7. CASE Recheck(r)
  <2> USE <1>7 DEF Recheck, Goto, tables
  <2>1. RowsOK' /\ CurrentOK'
    BY <1>r, TableKept DEF TypeOK, Ended
  <2>3. EndpointsOK'
    BY DEF IInv, TypeOK, EndpointsOK, EndpointHasCurrent, HasEndpoint, Registering, ep, Ended
  <2>4. FlightOK'
    BY DEF IInv, TypeOK, FlightOK, HasCurrent, HoldsRows, Ended, FingerprintKnown, RowsOf, ep, fp
  <2>5. InsertOK'
    BY DEF IInv, TypeOK, InsertOK, OpenInsert, NextVersion, ep, fp, Drift
  <2> QED BY <2>1, <2>3, <2>4, <2>5 DEF IInv
<1>8. CASE BeginDemote(r)
  <2> USE <1>8 DEF BeginDemote, Goto, tables
  <2>1. RowsOK' /\ CurrentOK'
    BY <1>r, TableKept DEF TypeOK, Ended
  <2>3. EndpointsOK'
    BY DEF IInv, TypeOK, EndpointsOK, EndpointHasCurrent, HasEndpoint, Registering, ep, Ended
  <2>4. FlightOK'
    BY DEF IInv, TypeOK, FlightOK, HasCurrent, HoldsRows, Ended, FingerprintKnown, RowsOf, ep, fp
  <2>5. InsertOK'
    BY DEF IInv, TypeOK, InsertOK, OpenInsert, NextVersion, ep, fp, Drift
  <2> QED BY <2>1, <2>3, <2>4, <2>5 DEF IInv
<1>9. CASE EndDemote(r)
  <2> USE <1>9 DEF EndDemote, Goto, tables
  <2>1. RowsOK' /\ CurrentOK'
    BY <1>r, TableKept DEF TypeOK, Ended
  <2>3. EndpointsOK'
    BY DEF IInv, TypeOK, EndpointsOK, EndpointHasCurrent, HasEndpoint, Registering, ep, Ended
  <2>4. FlightOK'
    BY DEF IInv, TypeOK, FlightOK, HasCurrent, HoldsRows, Ended, FingerprintKnown, RowsOf, ep, fp
  <2>5. InsertOK'
    BY DEF IInv, TypeOK, InsertOK, OpenInsert, NextVersion, ep, fp, Drift
  <2> QED BY <2>1, <2>3, <2>4, <2>5 DEF IInv
<1>10. CASE IntegrityError(r)
  <2> USE <1>10 DEF IntegrityError, Rollback, Goto, tables
  <2>1. RowsOK' /\ CurrentOK'
    BY <1>r, TableKept DEF TypeOK, Ended
  <2>3. EndpointsOK'
    BY DEF IInv, TypeOK, EndpointsOK, EndpointHasCurrent, HasEndpoint, Registering, ep, Ended
  <2>4. FlightOK'
    BY DEF IInv, TypeOK, FlightOK, HasCurrent, HoldsRows, Ended, FingerprintKnown, RowsOf, ep, fp
  <2>5. InsertOK'
    BY DEF IInv, TypeOK, InsertOK, OpenInsert, NextVersion, ep, fp, Drift
  <2> QED BY <2>1, <2>3, <2>4, <2>5 DEF IInv
<1>11. CASE Fail(r)
  <2> USE <1>11 DEF Fail, Rollback, Goto, tables
  <2>1. RowsOK' /\ CurrentOK'
    BY <1>r, TableKept DEF TypeOK, Ended
  <2>3. EndpointsOK'
    BY DEF IInv, TypeOK, EndpointsOK, EndpointHasCurrent, HasEndpoint, Registering, ep, Ended
  <2>4. FlightOK'
    BY DEF IInv, TypeOK, FlightOK, HasCurrent, HoldsRows, Ended, FingerprintKnown, RowsOf, ep, fp
  <2>5. InsertOK'
    BY DEF IInv, TypeOK, InsertOK, OpenInsert, NextVersion, ep, fp, Drift
  <2> QED BY <2>1, <2>3, <2>4, <2>5 DEF IInv
<1>12. CASE Classify(r)
  <2> USE <1>12 DEF Classify, Goto, tables
  <2>1. RowsOK' /\ CurrentOK'
    BY <1>r, TableKept DEF TypeOK, Ended
  <2>3. EndpointsOK'
    BY DEF IInv, TypeOK, EndpointsOK, EndpointHasCurrent, HasEndpoint, Registering, ep, Ended
  <2>4. FlightOK'
    BY DEF IInv, TypeOK, FlightOK, HasCurrent, HoldsRows, Ended, FingerprintKnown, RowsOf, ep, fp
  <2>5. InsertOK'
    <3>1. class[r] = Safe BY DEF IInv, FlightOK, Ended
    <3>2. /\ class' = [class EXCEPT ![r] = class'[r]]
          /\ previous[r] = None => class'[r] = Safe
          /\ previous[r] # None => class'[r] = Drift(previous[r], r)
      BY <3>1 DEF TypeOK
    <3>3. /\ pc[r] = "classify" /\ pc' = [pc EXCEPT ![r] = "commit"]
          /\ UNCHANGED <<args, version, previous, current, committed>>
      OBVIOUS
    <3> HIDE <1>12
    <3>4. \A q \in Requests : pc'[q] \in OpenInsert => pc[q] \in OpenInsert
      BY <3>3 DEF TypeOK, OpenInsert
    <3>5. \A q \in Requests : pc'[q] \in OpenInsert =>
             /\ previous[q] = current[q]
             /\ version[q] = NextVersion(q)
             /\ \A x \in Requests : /\ x # q
                                    /\ ep(x) = ep(q)
                                    /\ x \in committed \/ pc'[x] \in OpenInsert
                                    => version[x] # version[q] /\ fp(x) # fp(q)
      BY <3>4 DEF IInv, InsertOK
    <3>6. \A q \in Requests : pc'[q] = "commit" =>
             /\ previous[q] = None => class'[q] = Safe
             /\ previous[q] # None => class'[q] = Drift(previous[q], q)
      BY <3>2, <3>3 DEF IInv, TypeOK, InsertOK, OpenInsert
    <3> QED BY <3>3, <3>5, <3>6 DEF InsertOK, NextVersion, ep, fp, Drift
  <2> QED BY <2>1, <2>3, <2>4, <2>5 DEF IInv
<1>13. CASE InsertVersion(r) /\ Clashes(r, NextVersion(r)) \cap committed # {}
  <2>0. /\ pc[r] = "insert"
        /\ pc' = [pc EXCEPT ![r] = "conflict"]
        /\ UNCHANGED <<args, newEndpoint, lockHolder, current, matched,
                       version, previous, class, endpoints, committed, isCurrent>>
    BY <1>13 DEF InsertVersion, Goto, tables
  <2>1. RowsOK' /\ CurrentOK'
    BY <2>0, <1>r, TableKept DEF TypeOK
  <2>3. EndpointsOK'
    BY <2>0 DEF IInv, TypeOK, EndpointsOK, EndpointHasCurrent, HasEndpoint, Registering, ep
  <2>4. FlightOK'
    BY <2>0 DEF IInv, TypeOK, FlightOK, HasCurrent, HoldsRows, Ended, FingerprintKnown, RowsOf, ep, fp
  <2>5. InsertOK'
    BY <2>0 DEF IInv, TypeOK, InsertOK, OpenInsert, NextVersion, ep, fp, Drift
  <2> QED BY <2>1, <2>3, <2>4, <2>5 DEF IInv
<1>14. CASE InsertVersion(r) /\ Clashes(r, NextVersion(r)) \cap committed = {}
  <2>0. /\ pc[r] = "insert"
        /\ pc' = [pc EXCEPT ![r] = "classify"]
        /\ version' = [version EXCEPT ![r] = NextVersion(r)]
        /\ previous' = [previous EXCEPT ![r] = current[r]]
        /\ UNCHANGED <<args, newEndpoint, lockHolder, current, matched,
                       class, endpoints, committed, isCurrent>>
    BY <1>14 DEF InsertVersion, Goto, tables
  <2>r. r \notin committed BY <2>0, <1>r
  <2>1. RowsOK' /\ CurrentOK'
    BY <2>0, <2>r, <1>r, TableKept DEF TypeOK
  <2>3. EndpointsOK'
    BY <2>0 DEF IInv, TypeOK, EndpointsOK, EndpointHasCurrent, HasEndpoint, Registering, ep
  <2>4. FlightOK'
    BY <2>0 DEF IInv, TypeOK, FlightOK, HasCurrent, HoldsRows, Ended, FingerprintKnown, RowsOf, ep, fp
  <2>5. InsertOK'
    <3>1. NextVersion(r) \in Nat BY DEF TypeOK, NextVersion
    <3>2. \A x \in Requests : /\ x # r
                              /\ ep(x) = ep(r)
                              /\ x \in committed \/ pc[x] \in OpenInsert
                              => version[x] # NextVersion(r) /\ fp(x) # fp(r)
      BY <1>14 DEF InsertVersion, Clashes
    <3>3. \A q \in Requests : pc'[q] \in OpenInsert /\ current[q] # None
                              => current[q] \in committed
      BY <2>0 DEF IInv, TypeOK, FlightOK, HasCurrent, OpenInsert
    <3>4. \A q \in Requests : pc'[q] \in OpenInsert => NextVersion(q)' = NextVersion(q)
      BY <2>0, <2>r, <3>1, <3>3 DEF TypeOK, NextVersion
    <3> QED BY <2>0, <3>1, <3>2, <3>4 DEF IInv, TypeOK, InsertOK, OpenInsert, ep, fp, Drift
  <2> QED BY <2>1, <2>3, <2>4, <2>5 DEF IInv
<1>15. CASE Commit(r) /\ pc[r] = "found"
  <2>0. /\ pc' = [pc EXCEPT ![r] = "done"]
        /\ newEndpoint' = newEndpoint \ {r}
        /\ endpoints' = IF r \in newEndpoint THEN endpoints \cup {ep(r)} ELSE endpoints
        /\ UNCHANGED <<args, current, matched, version, previous, class,
                       committed, isCurrent>>
    BY <1>15 DEF Commit, Goto
  <2>1. RowsOK' /\ CurrentOK'
    BY <2>0, <1>15, <1>r, TableKept DEF TypeOK
  <2>2. r \notin newEndpoint
    <3>1. PICK x \in committed : ep(x) = ep(r)
      BY <1>15 DEF IInv, FlightOK, FingerprintKnown, RowsOf
    <3> QED BY <3>1 DEF IInv, CurrentOK, EndpointsOK, EndpointHasCurrent, TypeOK, ep
  <2>3. EndpointsOK'
    BY <2>0, <2>2, <1>15 DEF IInv, TypeOK, EndpointsOK, EndpointHasCurrent, HasEndpoint, Registering, ep
  <2>4. FlightOK'
    BY <2>0, <1>15 DEF IInv, TypeOK, FlightOK, HasCurrent, HoldsRows, Ended, FingerprintKnown, RowsOf, ep, fp
  <2>5. InsertOK'
    BY <2>0, <1>15 DEF IInv, TypeOK, InsertOK, OpenInsert, NextVersion, ep, fp, Drift
  <2> QED BY <2>1, <2>3, <2>4, <2>5 DEF IInv
<1>16. CASE Commit(r) /\ pc[r] = "commit"
  <2>0. /\ pc' = [pc EXCEPT ![r] = "done"]
        /\ newEndpoint' = newEndpoint \ {r}
        /\ endpoints' = IF r \in newEndpoint THEN endpoints \cup {ep(r)} ELSE endpoints
        /\ committed' = committed \cup {r}
        /\ isCurrent' = (isCurrent \ matched[r]) \cup {r}
        /\ UNCHANGED <<args, current, matched, version, previous, class>>
    BY <1>16 DEF Commit, Goto
  <2>i. /\ previous[r] = current[r]
        /\ version[r] = NextVersion(r)
        /\ \A x \in committed : x # r /\ ep(x) = ep(r)
                                => version[x] # version[r] /\ fp(x) # fp(r)
        /\ previous[r] = None => class[r] = Safe
        /\ previous[r] # None => class[r] = Drift(previous[r], r)
    BY <1>16 DEF IInv, InsertOK, OpenInsert, TypeOK
  <2>f. /\ current[r] # None => /\ current[r] \in committed
                                /\ ep(current[r]) = ep(r)
                                /\ current[r] \in matched[r]
                                /\ version[r] = version[current[r]] + 1
        /\ current[r] = None => version[r] = 1
        /\ \A x \in matched[r] : ep(x) = ep(r)
    BY <1>16, <2>i DEF IInv, FlightOK, HasCurrent, HoldsRows, NextVersion
  <2>r. r \notin committed BY <1>16, <1>r
  \* The new version is above every committed one ...
  <2>n. \A x \in committed : ep(x) = ep(r) => version[x] < version[r]
    <3> SUFFICES ASSUME NEW x \in committed, ep(x) = ep(r), version[x] >= version[r]
                 PROVE  FALSE
      BY DEF TypeOK
    <3>1. version[r] \in 1..version[x] BY <2>f DEF TypeOK
    <3>2. PICK y \in committed : ep(y) = ep(x) /\ version[y] = version[r]
      BY <3>1 DEF IInv, RowsOK, RowsDense
    <3> QED BY <3>2, <2>i, <2>r
  \* ... and the current row, if any, is the one it demoted.
  <2>c. \A x \in isCurrent : ep(x) = ep(r) => x \in matched[r]
    <3> SUFFICES ASSUME NEW x \in isCurrent, ep(x) = ep(r) PROVE x \in matched[r]
      OBVIOUS
    <3>1. x \in committed /\ version[x] < version[r] /\ version[x] >= 1
      BY <2>n DEF IInv, TypeOK, RowsOK, RowsDone
    <3>2. current[r] # None BY <3>1, <2>f DEF TypeOK
    <3>3. version[current[r]] <= version[x] BY <3>2, <2>f DEF IInv, CurrentOK
    <3>4. version[current[r]] = version[x]
      <4>1. version[current[r]] \in Nat /\ version[x] \in Nat BY <3>1, <3>2, <2>f DEF TypeOK
      <4>2. version[r] = version[current[r]] + 1 BY <3>2, <2>f
      <4> QED BY <3>1, <3>3, <4>1, <4>2
    <3>5. x = current[r] BY <3>1, <3>2, <3>4, <2>f DEF IInv, RowsOK, RowsDistinct
    <3> QED BY <3>2, <3>5, <2>f
  <2>1. RowsOK'
    <3>1. RowsDone' BY <2>0, <2>f DEF IInv, TypeOK, RowsOK, RowsDone
    <3>2. RowsDistinct' BY <2>0, <2>i, <2>r DEF IInv, TypeOK, RowsOK, RowsDistinct, ep, fp
    <3>3. RowsDense'
      <4>1. \A n \in 1..version[r] : \E y \in committed \cup {r} : ep(y) = ep(r) /\ version[y] = n
        <5> SUFFICES ASSUME NEW n \in 1..version[r], n # version[r]
                     PROVE  \E y \in committed : ep(y) = ep(r) /\ version[y] = n
          OBVIOUS
        <5>1. current[r] # None BY <2>f DEF TypeOK
        <5>2. version[current[r]] \in Nat BY <5>1, <2>f DEF TypeOK
        <5>3. version[r] = version[current[r]] + 1 BY <5>1, <2>f
        <5>4. n \in 1..version[current[r]] BY <5>2, <5>3
        <5> QED BY <5>1, <5>4, <2>f DEF IInv, RowsOK, RowsDense
      <4> QED BY <4>1, <2>0 DEF IInv, TypeOK, RowsOK, RowsDense, ep
    <3>4. RowsLinked' BY <2>0, <2>i, <2>f DEF IInv, TypeOK, RowsOK, RowsLinked, ep, fp, Drift
    <3> QED BY <3>1, <3>2, <3>3, <3>4 DEF RowsOK
  <2>2. CurrentOK'
    <3>1. ASSUME NEW x \in isCurrent', NEW y \in committed', ep(y) = ep(x)
          PROVE  version[y] <= version[x]
      <4>1. CASE x = r BY <4>1, <3>1, <2>0, <2>n DEF TypeOK
      <4>2. CASE x # r
        <5>1. x \in isCurrent /\ ep(x) # ep(r) BY <4>2, <2>0, <2>c
        <5> QED BY <5>1, <3>1, <2>0 DEF IInv, CurrentOK
      <4> QED BY <4>1, <4>2
    <3>2. ASSUME NEW y \in committed' PROVE \E x \in isCurrent' : ep(x) = ep(y)
      <4>1. CASE ep(y) = ep(r) BY <4>1, <2>0
      <4>2. CASE ep(y) # ep(r)
        <5>1. PICK x \in isCurrent : ep(x) = ep(y)
          BY <4>2, <2>0 DEF IInv, CurrentOK
        <5> QED BY <5>1, <4>2, <2>0, <2>f
      <4> QED BY <4>1, <4>2
    <3> QED BY <3>1, <3>2, <2>0 DEF CurrentOK, ep
  <2>3. EndpointsOK'
    <3>1. ep(r) \in endpoints' BY <2>0, <1>16 DEF IInv, EndpointsOK, HasEndpoint, Registering
    <3>2. EndpointHasCurrent'
      <4> SUFFICES ASSUME NEW e \in Endpoints
                   PROVE  e \in endpoints' <=> \E x \in isCurrent' : ep(x) = e
        BY <2>0 DEF EndpointHasCurrent, ep
      <4>1. CASE e = ep(r) BY <4>1, <3>1, <2>0
      <4>2. CASE e # ep(r)
        <5>1. e \in endpoints' <=> e \in endpoints BY <4>2, <2>0
        <5>2. \A x : ep(x) = e => (x \in isCurrent' <=> x \in isCurrent)
          BY <4>2, <2>0, <2>f
        <5> QED BY <5>1, <5>2 DEF IInv, EndpointsOK, EndpointHasCurrent
      <4> QED BY <4>1, <4>2
    <3>3. \A q \in newEndpoint' : ep(q) \notin endpoints' /\ pc'[q] \in HasEndpoint
      BY <2>0, <1>16 DEF IInv, TypeOK, EndpointsOK
    <3>4. \A q \in Requests : pc'[q] \in HasEndpoint =>
                                 ep(q) \in endpoints' \/ q \in newEndpoint'
      BY <2>0, <1>16 DEF IInv, TypeOK, EndpointsOK, HasEndpoint, Registering
    <3> QED BY <3>2, <3>3, <3>4, <2>0 DEF IInv, EndpointsOK, ep
  <2>4. FlightOK'
    BY <2>0, <1>16 DEF IInv, TypeOK, FlightOK, HasCurrent, HoldsRows, Ended, FingerprintKnown, RowsOf, ep, fp
  <2>5. InsertOK'
    BY <2>0, <1>16 DEF IInv, TypeOK, InsertOK, OpenInsert, NextVersion, ep, fp, Drift
  <2> QED BY <2>1, <2>2, <2>3, <2>4, <2>5 DEF IInv
<1> QED BY <1>1, <1>2, <1>3, <1>4, <1>5, <1>6, <1>7, <1>8, <1>9, <1>10, <1>11,
           <1>12, <1>13, <1>14, <1>15, <1>16 DEF Step, Commit

\* The inductive invariant holds in every reachable state.
THEOREM Invariance == Spec => []IInv
<1>1. Init => IInv BY InitIInv
<1>2. IInv /\ [Next]_vars => IInv'
  <2> SUFFICES ASSUME IInv, [Next]_vars PROVE IInv'
    OBVIOUS
  <2>1. CASE UNCHANGED vars
    <3> USE <2>1 DEF vars
    <3>1. TypeOK' BY DEF IInv, TypeOK
    <3>2. RowsOK' /\ CurrentOK' BY <3>1, TableKept
    <3>3. EndpointsOK' BY DEF IInv, EndpointsOK, EndpointHasCurrent, ep
    <3>4. FlightOK' BY DEF IInv, FlightOK, FingerprintKnown, RowsOf, ep, fp
    <3>5. InsertOK' BY DEF IInv, InsertOK, NextVersion, Drift, ep, fp
    <3> QED BY <3>1, <3>2, <3>3, <3>4, <3>5 DEF IInv
  <2> QED BY <2>1, StepCases, StepIInv
<1> QED BY <1>1, <1>2, PTL DEF Spec

-----------------------------------------------------------------------------
\* What the invariant says of a reader of the registry.
LEMMA IInvConsequences ==
    ASSUME IInv
    PROVE  /\ VersionChain
           /\ NewestIsCurrent
           /\ ClassifiedAgainstPredecessor
<1> USE DEF IInv, TypeOK, RowsOK
<1>1. ASSUME NEW x \in committed
      PROVE  /\ version[x] \in Nat /\ version[x] >= 1
             /\ previous[x] # None => /\ previous[x] \in committed
                                      /\ version[previous[x]] \in Nat
                                      /\ version[previous[x]] >= 1
  BY DEF RowsDone, RowsLinked
<1>2. VersionChain
  BY <1>1 DEF VersionChain, RowsDistinct, RowsLinked
<1>3. ASSUME NEW x \in committed,
             \A y \in committed : ep(y) = ep(x) => version[y] <= version[x]
      PROVE  x \in isCurrent
  <2>1. PICK z \in isCurrent : ep(z) = ep(x) BY DEF CurrentOK
  <2>2. version[z] <= version[x] /\ version[x] <= version[z]
    BY <1>3, <2>1 DEF CurrentOK
  <2>3. z \in committed OBVIOUS
  <2>4. version[z] \in Nat /\ version[x] \in Nat BY <1>1, <2>3
  <2>5. version[z] = version[x]
    <3> HIDE DEF IInv
    <3> QED BY <2>2, <2>4
  <2> QED BY <2>1, <2>3, <2>5 DEF RowsDistinct
<1>4. NewestIsCurrent BY <1>3 DEF NewestIsCurrent, CurrentOK
<1>5. ClassifiedAgainstPredecessor
  <2> SUFFICES ASSUME NEW x \in committed, previous[x] # None
               PROVE  \E y \in committed : /\ ep(y) = ep(x)
                                           /\ version[y] = version[x] - 1
                                           /\ class[x] = Drift(y, x)
    BY DEF ClassifiedAgainstPredecessor, RowsLinked
  <2>1. version[previous[x]] = version[x] - 1 BY <1>1 DEF RowsLinked
  <2> QED BY <2>1 DEF RowsLinked
<1> QED BY <1>2, <1>4, <1>5

\* Versions are numbered 1, 2, 3, ... and linked to their predecessors,
\* whatever locks the processes take (registry.py:122-235).
THEOREM VersionChainCorrect == Spec => []VersionChain
  BY Invariance, IInvConsequences, PTL

\* The current row of an endpoint is its newest version (registry.py:193-224).
THEOREM NewestIsCurrentCorrect == Spec => []NewestIsCurrent
  BY Invariance, IInvConsequences, PTL

\* A version is classified against its immediate predecessor (service.py:184-231).
THEOREM ClassificationCorrect == Spec => []ClassifiedAgainstPredecessor
  BY Invariance, IInvConsequences, PTL

\* Visible endpoints have a current version (registry.py:19-89, 201-224).
THEOREM EndpointsCorrect == Spec => []EndpointHasCurrent
<1>1. IInv => EndpointHasCurrent BY DEF IInv, EndpointsOK
<1> QED BY Invariance, <1>1, PTL

\* Answered requests have their schema in the registry (main.py:113).
THEOREM AnsweredCorrect == Spec => []AnsweredIsRecorded
<1>1. IInv => AnsweredIsRecorded BY DEF IInv, FlightOK, AnsweredIsRecorded
<1> QED BY Invariance, <1>1, PTL

-----------------------------------------------------------------------------
(***************************************************************************)
(* The advisory lock.  A registering request holds its lock number; where  *)
(* all submissions of an endpoint use the same number, what a registering  *)
(* request read is still true when it inserts.                             *)
(***************************************************************************)
LockHeld == \A r \in Requests : pc[r] \in Registering => lockHolder[MyLock(r)] = r

\* Statements between the lookups under the lock and the INSERT.
Reading == {"recheck", "demote", "demote_wait", "insert"}

\* Nobody else has changed the rows of r's endpoint since r read them.
Fresh(r) ==
    /\ pc[r] \in Reading =>
          IF current[r] = None THEN RowsOf(r) = {} ELSE current[r] \in isCurrent
    /\ pc[r] \in Reading \ {"recheck"} => ~FingerprintKnown(r)

LockInv ==
    /\ LockHeld
    /\ \A r \in Requests : LocksAgree(r) => Fresh(r) /\ pc[r] # "conflict"

\* The number a request locks is one of the lock numbers.
LEMMA MyLockType == ASSUME TypeOK, NEW r \in Requests PROVE MyLock(r) \in LockIds
  BY ConstantsAssumption DEF TypeOK, MyLock, ep

\* The lock excludes other registrations of the same endpoint.
LEMMA LockExcludes ==
    ASSUME LockHeld, NEW r \in Requests, NEW q \in Requests, LocksAgree(q),
           ep(r) = ep(q), pc[r] \in Registering, pc[q] \in Registering
    PROVE  r = q
<1>1. MyLock(r) = MyLock(q) BY DEF LocksAgree
<1> QED BY <1>1 DEF LockHeld

\* Between AcquireLock and its end a request is the holder of its lock number.
LEMMA StepLockHeld ==
    ASSUME TypeOK, LockHeld, NEW r \in Requests, Step(r) \/ Fail(r)
    PROVE  LockHeld'
<1> USE ConstantsAssumption DEF Goto, tables
<1>0. UNCHANGED args
  BY DEF Step, Fail, Submit, SelectEndpoint, InsertEndpoint, FastLookup, AcquireLock,
     ReadCurrent, Recheck, BeginDemote, EndDemote, InsertVersion, Classify, Commit,
     IntegrityError, Rollback
<1>m. \A q \in Requests : MyLock(q) \in LockIds /\ MyLock(q)' = MyLock(q)
  BY <1>0, MyLockType DEF MyLock, ep
<1>1. CASE UNCHANGED lockHolder /\ (pc'[r] \in Registering => pc[r] \in Registering)
           /\ \A q \in Requests \ {r} : pc'[q] = pc[q]
  BY <1>1, <1>m DEF LockHeld
<1>2. CASE AcquireLock(r)
  BY <1>2, <1>m DEF AcquireLock, LockHeld, TypeOK
<1>3. CASE Commit(r) \/ IntegrityError(r) \/ Fail(r)
  <2>1. /\ lockHolder' = [l \in LockIds |-> IF lockHolder[l] = r THEN None ELSE lockHolder[l]]
        /\ pc'[r] \notin Registering
        /\ \A q \in Requests \ {r} : pc'[q] = pc[q]
    BY <1>3 DEF Commit, IntegrityError, Fail, Rollback, ReleaseLocks, TypeOK, Registering
  <2> QED BY <2>1, <1>m DEF LockHeld
<1>4. CASE Submit(r) \/ SelectEndpoint(r) \/ InsertEndpoint(r) \/ FastLookup(r)
  BY <1>1, <1>4 DEF Submit, SelectEndpoint, InsertEndpoint, FastLookup, TypeOK, Registering
<1>5. CASE ReadCurrent(r) \/ Recheck(r) \/ BeginDemote(r) \/ EndDemote(r) \/ Classify(r)
  BY <1>1, <1>5 DEF ReadCurrent, Recheck, BeginDemote, EndDemote, Classify, TypeOK, Registering
<1>6. CASE InsertVersion(r)
  BY <1>1, <1>6 DEF InsertVersion, TypeOK, Registering
<1> QED BY <1>2, <1>3, <1>4, <1>5, <1>6 DEF Step

\* Every statement keeps LockInv: what was read under an agreed lock is still
\* true when the version is inserted.
LEMMA StepLockInv ==
    ASSUME IInv, IInv', LockInv, NEW r \in Requests, Step(r) \/ Fail(r)
    PROVE  LockInv'
<1> USE ConstantsAssumption DEF Goto, tables
<1>h. LockHeld' BY StepLockHeld DEF IInv, LockInv
<1>t. TypeOK /\ LockHeld /\ \A q \in Requests : LocksAgree(q) => Fresh(q) /\ pc[q] # "conflict"
  BY DEF IInv, LockInv
<1>a. UNCHANGED args
  BY DEF Step, Fail, Submit, SelectEndpoint, InsertEndpoint, FastLookup, AcquireLock,
     ReadCurrent, Recheck, BeginDemote, EndDemote, InsertVersion, Classify, Commit,
     IntegrityError, Rollback
<1>g. \A q \in Requests : LocksAgree(q)' <=> LocksAgree(q)
  BY <1>a DEF LocksAgree, MyLock, ep
<1>p. \A q \in Requests \ {r} : pc'[q] = pc[q]
  BY <1>t DEF Step, Fail, Submit, SelectEndpoint, InsertEndpoint, FastLookup, AcquireLock,
     ReadCurrent, Recheck, BeginDemote, EndDemote, InsertVersion, Classify, Commit,
     IntegrityError, Rollback, TypeOK
<1>1. CASE Submit(r) \/ SelectEndpoint(r) \/ InsertEndpoint(r) \/ FastLookup(r) \/ AcquireLock(r)
  <2>1. /\ pc'[r] \notin {"recheck", "demote", "demote_wait", "insert", "conflict"}
        /\ UNCHANGED <<current, committed, isCurrent>>
    BY <1>1, <1>t DEF Submit, SelectEndpoint, InsertEndpoint, FastLookup, AcquireLock, TypeOK
  <2> QED BY <2>1, <1>h, <1>t, <1>a, <1>g, <1>p
          DEF LockInv, Fresh, Reading, FingerprintKnown, RowsOf, ep, fp
<1>2. CASE ReadCurrent(r)
  <2>1. IF current'[r] = None THEN RowsOf(r) = {} ELSE current'[r] \in isCurrent
    <3>1. CASE RowsOf(r) \cap isCurrent = {}
      <4>1. RowsOf(r) = {}
        <5> SUFFICES ASSUME NEW y \in RowsOf(r) PROVE FALSE OBVIOUS
        <5>1. PICK x \in isCurrent : ep(x) = ep(y) BY DEF IInv, CurrentOK, RowsOf
        <5> QED BY <5>1, <3>1, <1>t DEF RowsOf, TypeOK
      <4>2. current'[r] = None BY <1>2, <3>1, <1>t DEF ReadCurrent, TypeOK
      <4> QED BY <4>1, <4>2
    <3>2. CASE RowsOf(r) \cap isCurrent # {}
      BY <1>2, <3>2, <1>t DEF ReadCurrent, TypeOK
    <3> QED BY <3>1, <3>2
  <2>2. /\ pc'[r] = "recheck"
        /\ \A q \in Requests \ {r} : current'[q] = current[q]
        /\ UNCHANGED <<committed, isCurrent>>
    BY <1>2, <1>t DEF ReadCurrent, TypeOK
  <2> QED BY <2>1, <2>2, <1>h, <1>t, <1>a, <1>g, <1>p
          DEF LockInv, Fresh, Reading, FingerprintKnown, RowsOf, ep, fp
<1>3. CASE Recheck(r)
  <2>1. /\ pc[r] = "recheck"
        /\ pc'[r] \in {"found", "insert", "demote"}
        /\ pc'[r] # "found" => ~FingerprintKnown(r)
        /\ UNCHANGED <<current, committed, isCurrent>>
    BY <1>3, <1>t DEF Recheck, TypeOK
  <2> QED BY <2>1, <1>h, <1>t, <1>a, <1>g, <1>p
          DEF LockInv, Fresh, Reading, FingerprintKnown, RowsOf, ep, fp
<1>4. CASE BeginDemote(r) \/ EndDemote(r) \/ Classify(r)
  <2>1. /\ pc'[r] \in {"demote_wait", "insert"} => pc[r] \in {"demote", "demote_wait"}
        /\ pc'[r] \in {"demote_wait", "insert", "commit"}
        /\ UNCHANGED <<current, committed, isCurrent>>
    BY <1>4, <1>t DEF BeginDemote, EndDemote, Classify, TypeOK
  <2> QED BY <2>1, <1>h, <1>t, <1>a, <1>g, <1>p
          DEF LockInv, Fresh, Reading, FingerprintKnown, RowsOf, ep, fp
<1>5. CASE InsertVersion(r)
  <2>1. LocksAgree(r) => Clashes(r, NextVersion(r)) \cap committed = {}
    <3> SUFFICES ASSUME LocksAgree(r), NEW x \in committed, ep(x) = ep(r),
                        version[x] = NextVersion(r) \/ fp(x) = fp(r)
                 PROVE  FALSE
      BY DEF Clashes
    <3>1. pc[r] = "insert" BY <1>5 DEF InsertVersion
    <3>2. x \in RowsOf(r) BY DEF RowsOf
    <3>3. fp(x) # fp(r) BY <3>1, <3>2, <1>t DEF Fresh, Reading, FingerprintKnown
    <3>4. current[r] \in isCurrent /\ current[r] # None
      BY <3>1, <3>2, <1>t DEF Fresh, Reading
    <3>5. ep(current[r]) = ep(r) BY <3>1, <3>4 DEF IInv, FlightOK, HasCurrent
    <3>6. version[x] <= version[current[r]] BY <3>4, <3>5 DEF IInv, CurrentOK
    <3>7. version[x] \in Nat /\ version[current[r]] \in Nat BY <3>4, <1>t DEF TypeOK
    <3>8. version[x] = version[current[r]] + 1 BY <3>3, <3>4 DEF NextVersion
    <3> QED BY <3>6, <3>7, <3>8
  <2>2. /\ pc'[r] \in {"classify", "conflict"}
        /\ LocksAgree(r) => pc'[r] = "classify"
        /\ UNCHANGED <<current, committed, isCurrent>>
    BY <1>5, <2>1, <1>t DEF InsertVersion, TypeOK
  <2> QED BY <2>2, <1>h, <1>t, <1>a, <1>g, <1>p
          DEF LockInv, Fresh, Reading, FingerprintKnown, RowsOf, ep, fp
<1>6. CASE IntegrityError(r) \/ Fail(r) \/ (Commit(r) /\ pc[r] = "found")
  <2>1. pc'[r] \in Ended /\ UNCHANGED <<current, committed, isCurrent>>
    BY <1>6, <1>t DEF IntegrityError, Fail, Rollback, Commit, TypeOK, Ended
  <2> QED BY <2>1, <1>h, <1>t, <1>a, <1>g, <1>p
          DEF LockInv, Fresh, Reading, FingerprintKnown, RowsOf, Ended, ep, fp
<1>7. CASE Commit(r) /\ pc[r] = "commit"
  <2>1. /\ pc'[r] = "done"
        /\ committed' = committed \cup {r}
        /\ isCurrent' = (isCurrent \ matched[r]) \cup {r}
        /\ UNCHANGED current
    BY <1>7, <1>t DEF Commit, TypeOK
  <2>2. \A x \in matched[r] : ep(x) = ep(r) BY DEF IInv, FlightOK
  <2>3. ASSUME NEW q \in Requests, LocksAgree(q), pc'[q] \in Reading
        PROVE  /\ RowsOf(q)' = RowsOf(q)
               /\ FingerprintKnown(q)' = FingerprintKnown(q)
               /\ current[q] # None /\ current[q] \in isCurrent => current[q] \in isCurrent'
               /\ pc'[q] = pc[q]
    <3>1. q # r /\ pc'[q] = pc[q] BY <2>1, <2>3, <1>p DEF Reading
    <3>2. ep(q) # ep(r) BY <3>1, <2>3, <1>7, <1>t, LockExcludes DEF Reading, Registering
    <3>3. RowsOf(q)' = RowsOf(q) BY <3>2, <2>1, <1>a DEF RowsOf, ep
    <3>4. FingerprintKnown(q)' = FingerprintKnown(q) BY <3>3, <1>a DEF FingerprintKnown, fp
    <3>5. current[q] # None => ep(current[q]) = ep(q)
      BY <3>1, <2>3 DEF IInv, FlightOK, HasCurrent, Reading
    <3> QED BY <3>1, <3>2, <3>3, <3>4, <3>5, <2>1, <2>2
  <2>4. ASSUME NEW q \in Requests, LocksAgree(q)
        PROVE  Fresh(q)' /\ pc'[q] # "conflict"
    BY <2>1, <2>3, <2>4, <1>t, <1>p DEF Fresh, Reading
  <2> QED BY <2>4, <1>h, <1>g DEF LockInv
<1> QED BY <1>1, <1>2, <1>3, <1>4, <1>5, <1>6, <1>7 DEF Step, Commit

\* Registering requests hold their lock, and where the numbers agree their
\* reads stay fresh (registry.py:162-188).
THEOREM LockCorrect == Spec => []LockInv
<1>1. Init => LockInv
  BY DEF Init, LockInv, LockHeld, Fresh, Reading, Registering
<1>2. IInv /\ IInv' /\ LockInv /\ [Next]_vars => LockInv'
  <2> SUFFICES ASSUME IInv, IInv', LockInv, [Next]_vars PROVE LockInv'
    OBVIOUS
  <2>1. CASE UNCHANGED vars
    BY <2>1 DEF vars, LockInv, LockHeld, LocksAgree, Fresh, FingerprintKnown, RowsOf,
                MyLock, ep, fp
  <2> QED BY <2>1, StepCases, StepLockInv
<1> QED BY Invariance, <1>1, <1>2, PTL DEF Spec

\* No registration fails with an IntegrityError where the submissions of its
\* endpoint lock the same number, in particular with one process.
THEOREM NoIntegrityErrorCorrect == Spec => []NoIntegrityError
<1>1. LockInv => NoIntegrityError BY DEF LockInv, NoIntegrityError
<1> QED BY LockCorrect, <1>1, PTL
-----------------------------------------------------------------------------
(***************************************************************************)
(* The refinement of SchemaHistory.  The rows of an endpoint and its       *)
(* history determine each other, before a step and after it; a commit adds *)
(* one row, which can only have the next number.                           *)
(***************************************************************************)
Histories == [e \in Endpoints |-> HistoryOf(e)]

\* The n-th element of a history is the fingerprint of the row with version n.
HistoryRows ==
    \A e \in Endpoints :
       /\ CurrentVersion(e) \in Nat
       /\ \A n \in 1..CurrentVersion(e) : \E x \in committed : ep(x) = e /\ version[x] = n
       /\ \A x \in committed : ep(x) = e =>
             version[x] \in 1..CurrentVersion(e) /\ HistoryOf(e)[version[x]] = fp(x)

LEMMA HistoryHasRows == IInv => HistoryRows
<1> SUFFICES ASSUME IInv, NEW e \in Endpoints
             PROVE  /\ CurrentVersion(e) \in Nat
                    /\ \A n \in 1..CurrentVersion(e) :
                          \E x \in committed : ep(x) = e /\ version[x] = n
                    /\ \A x \in committed : ep(x) = e =>
                          /\ version[x] \in 1..CurrentVersion(e)
                          /\ HistoryOf(e)[version[x]] = fp(x)
  BY DEF HistoryRows
<1> USE DEF IInv, TypeOK, RowsOK
<1>0. \A x \in committed : x \in Requests /\ version[x] \in Nat /\ version[x] >= 1
  BY DEF RowsDone
<1>1. CASE \A x \in committed : ep(x) # e
  <2>1. CurrentVersion(e) = 0 BY <1>1 DEF CurrentVersion
  <2> QED BY <1>1, <2>1
<1>2. CASE \E x \in committed : ep(x) = e
  <2> DEFINE z == CHOOSE x \in isCurrent : ep(x) = e
  <2>1. \E x \in isCurrent : ep(x) = e BY <1>2 DEF CurrentOK
  <2>2. z \in isCurrent /\ ep(z) = e /\ CurrentVersion(e) = version[z]
    BY <2>1 DEF CurrentVersion
  <2> HIDE DEF z
  <2>3. z \in committed BY <2>2
  <2>4. \A x \in committed : ep(x) = e => version[x] <= version[z] BY <2>2 DEF CurrentOK
  <2>5. \A x \in committed : ep(x) = e => version[x] \in 1..CurrentVersion(e)
    <3> HIDE DEF IInv
    <3> QED BY <1>0, <2>2, <2>3, <2>4
  <2>6. \A n \in 1..CurrentVersion(e) : \E x \in committed : ep(x) = e /\ version[x] = n
    BY <2>2, <2>3 DEF RowsDense
  <2>7. ASSUME NEW x \in committed, ep(x) = e PROVE HistoryOf(e)[version[x]] = fp(x)
    <3> DEFINE y == RowAt(e, version[x])
    <3>1. y \in committed /\ ep(y) = e /\ version[y] = version[x] BY <2>7 DEF RowAt
    <3> HIDE DEF y
    <3>2. y = x BY <2>7, <3>1 DEF RowsDistinct
    <3>3. HistoryOf(e)[version[x]] = fp(y) BY <2>5, <2>7 DEF HistoryOf, y
    <3> QED BY <3>2, <3>3
  <2> QED BY <1>0, <2>2, <2>3, <2>5, <2>6, <2>7
<1> QED BY <1>1, <1>2

LEMMA HistoryHasRowsNext == IInv' => HistoryRows'
  BY HistoryHasRows, PTL

\* A request commits its version and leaves the rows of the others alone, or it
\* changes nothing that a reader of the registry sees.
LEMMA OnlyCommitPublishes ==
    ASSUME IInv, [Next]_vars
    PROVE  /\ args' = args /\ \A x \in committed : version'[x] = version[x]
           /\ \/ committed' = committed
              \/ \E r \in Requests \ committed : /\ committed' = committed \cup {r}
                                                 /\ version' = version
<1>r. \A x \in committed : pc[x] = "done" BY DEF IInv, RowsOK, RowsDone
<1>t. version \in [Requests -> Nat] /\ committed \subseteq Requests BY DEF IInv, TypeOK
<1>1. CASE UNCHANGED vars BY <1>1 DEF vars
<1>2. ASSUME NEW r \in Requests, Commit(r)
      PROVE  /\ args' = args /\ version' = version
             /\ committed' = committed
                \/ (r \notin committed /\ committed' = committed \cup {r})
  BY <1>2, <1>r DEF Commit
<1>3. ASSUME NEW r \in Requests, InsertVersion(r)
      PROVE  /\ args' = args /\ committed' = committed
             /\ \A x \in committed : version'[x] = version[x]
  <2>1. r \notin committed BY <1>3, <1>r DEF InsertVersion
  <2> QED BY <1>3, <1>t, <2>1 DEF InsertVersion, tables
<1>4. ASSUME NEW r \in Requests, (Step(r) \/ Fail(r)) /\ ~Commit(r) /\ ~InsertVersion(r)
      PROVE  UNCHANGED <<args, committed, version>>
  BY <1>4 DEF Step, Fail, Submit, SelectEndpoint, InsertEndpoint, FastLookup, AcquireLock,
       ReadCurrent, Recheck, BeginDemote, EndDemote, Classify, IntegrityError, Rollback,
       tables
<1> QED BY <1>1, <1>2, <1>3, <1>4, StepCases

\* Rows that stay are a history that stays.
LEMMA HistoryKept ==
    ASSUME HistoryRows, HistoryRows', args' = args, NEW e \in Endpoints,
           \A x \in committed : version'[x] = version[x],
           \A x : x \in committed' /\ ep(x) = e <=> x \in committed /\ ep(x) = e
    PROVE  HistoryOf(e)' = HistoryOf(e)
<1> DEFINE n == CurrentVersion(e)
           m == CurrentVersion(e)'
<1>e. \A x : ep(x)' = ep(x) /\ fp(x)' = fp(x) BY DEF ep, fp
<1>1. /\ n \in Nat
      /\ \A k \in 1..n : \E x \in committed : ep(x) = e /\ version[x] = k
      /\ \A x \in committed : ep(x) = e => version[x] \in 1..n /\ HistoryOf(e)[version[x]] = fp(x)
  BY DEF HistoryRows
<1>2. /\ m \in Nat
      /\ \A k \in 1..m : \E x \in committed : ep(x) = e /\ version[x] = k
      /\ \A x \in committed : ep(x) = e => version[x] \in 1..m /\ HistoryOf(e)'[version[x]] = fp(x)
  BY <1>e DEF HistoryRows
<1>h. /\ HistoryOf(e) = [k \in 1..n |-> HistoryOf(e)[k]]
      /\ HistoryOf(e)' = [k \in 1..m |-> HistoryOf(e)'[k]]
  BY DEF HistoryOf
<1> HIDE DEF n, m
<1>3. n = m
  <2>1. n > 0 => n \in 1..m
    <3>1. n > 0 => n \in 1..n BY <1>1
    <3> QED BY <1>1, <1>2, <3>1
  <2>2. m > 0 => m \in 1..n
    <3>1. m > 0 => m \in 1..m BY <1>2
    <3> QED BY <1>1, <1>2, <3>1
  <2> QED BY <1>1, <1>2, <2>1, <2>2
<1>4. \A k \in 1..n : HistoryOf(e)'[k] = HistoryOf(e)[k] BY <1>1, <1>2
<1> QED BY <1>h, <1>3, <1>4
\* A commit appends the submitted fingerprint to the history of its endpoint.
LEMMA CommitPublishes ==
    ASSUME IInv, IInv', HistoryRows, HistoryRows', args' = args, version' = version,
           NEW r \in Requests, r \notin committed, committed' = committed \cup {r}
    PROVE  /\ \A n \in 1..Len(HistoryOf(ep(r))) : HistoryOf(ep(r))[n] # fp(r)
           /\ HistoryOf(ep(r))' = Append(HistoryOf(ep(r)), fp(r))
<1> DEFINE e == ep(r)
           n == CurrentVersion(e)
           m == CurrentVersion(e)'
           h == HistoryOf(e)
<1>e. /\ \A x : ep(x)' = ep(x) /\ fp(x)' = fp(x)
      /\ e \in Endpoints /\ fp(r) \in Fingerprints
  BY DEF ep, fp, IInv, TypeOK
<1>1. /\ n \in Nat
      /\ \A k \in 1..n : \E x \in committed : ep(x) = e /\ version[x] = k
      /\ \A x \in committed : ep(x) = e => version[x] \in 1..n /\ h[version[x]] = fp(x)
  BY <1>e DEF HistoryRows
<1>2. /\ m \in Nat
      /\ \A k \in 1..m : \E x \in committed \cup {r} : ep(x) = e /\ version[x] = k
      /\ \A x \in committed \cup {r} : ep(x) = e =>
            version[x] \in 1..m /\ h'[version[x]] = fp(x)
  BY <1>e DEF HistoryRows
<1>3. \A x \in committed : ep(x) = e => version[x] # version[r] /\ fp(x) # fp(r)
  <2>1. RowsDistinct' BY DEF IInv, RowsOK
  <2> QED BY <2>1, <1>e DEF RowsDistinct
<1>h. /\ h = [k \in 1..n |-> h[k]] /\ Len(h) = n
      /\ h' = [k \in 1..m |-> h'[k]]
  BY <1>1 DEF HistoryOf
<1>f. \A k \in 1..n : h[k] \in Fingerprints
  <2> SUFFICES ASSUME NEW k \in 1..n PROVE h[k] \in Fingerprints OBVIOUS
  <2>1. PICK x \in committed : ep(x) = e /\ version[x] = k BY <1>1
  <2>2. h[k] = fp(x) BY <1>1, <2>1
  <2> QED BY <2>2 DEF fp, IInv, TypeOK
<1>k. ep(r) = e OBVIOUS
<1> HIDE DEF e, n, m, h
<1>4. m = n + 1 /\ version[r] = m
  <2>1. version[r] \in 1..m BY <1>2, <1>k
  <2>2. version[r] \notin 1..n BY <1>1, <1>3
  <2>3. \A k \in 1..m : k \in 1..n \/ k = version[r] BY <1>1, <1>2
  <2>4. n + 1 \in 1..m BY <1>1, <1>2, <2>1, <2>2
  <2>5. n + 1 = version[r] BY <1>1, <2>3, <2>4
  <2>6. m \in 1..m BY <1>2, <2>4
  <2> QED BY <1>1, <1>2, <2>1, <2>2, <2>3, <2>5, <2>6
<1>5. \A k \in 1..n : h'[k] = h[k] /\ h[k] # fp(r)
  <2> SUFFICES ASSUME NEW k \in 1..n PROVE h'[k] = h[k] /\ h[k] # fp(r) OBVIOUS
  <2>1. PICK x \in committed : ep(x) = e /\ version[x] = k BY <1>1
  <2> QED BY <1>1, <1>2, <1>3, <2>1
<1>6. h'[n + 1] = fp(r) BY <1>2, <1>4, <1>k
<1>7. h \in Seq(Fingerprints)
  <2>1. h \in [1..n -> Fingerprints] BY <1>h, <1>f
  <2> QED BY <2>1, <1>1
<1>8. h' = Append(h, fp(r))
  <2>1. Append(h, fp(r)) = [k \in 1..(n + 1) |-> IF k = n + 1 THEN fp(r) ELSE h[k]]
    <3>1. /\ Append(h, fp(r)) \in Seq(Fingerprints) /\ Len(Append(h, fp(r))) = n + 1
          /\ \A k \in 1..n : Append(h, fp(r))[k] = h[k]
          /\ Append(h, fp(r))[n + 1] = fp(r)
      BY <1>7, <1>h, <1>1, <1>e
    <3>2. \A k \in 1..(n + 1) : k \in 1..n \/ k = n + 1 BY <1>1
    <3>3. \A k \in 1..n : k # n + 1 BY <1>1
    <3>4. Append(h, fp(r)) = [k \in 1..(n + 1) |-> Append(h, fp(r))[k]]
      <4>1. \A s \in Seq(Fingerprints) : s \in [1..Len(s) -> Fingerprints] OBVIOUS
      <4>2. Append(h, fp(r)) \in [1..(n + 1) -> Fingerprints]
        BY <3>1, <4>1, Zenon
      <4> QED BY <4>2
    <3> QED BY <3>1, <3>2, <3>3, <3>4
  <2>2. \A k \in 1..(n + 1) : h'[k] = IF k = n + 1 THEN fp(r) ELSE h[k]
    <3>1. \A k \in 1..(n + 1) : k \in 1..n \/ k = n + 1 BY <1>1
    <3>2. \A k \in 1..n : k # n + 1 BY <1>1
    <3> QED BY <1>5, <1>6, <3>1, <3>2
  <2> QED BY <2>1, <2>2, <1>h, <1>4
<1> QED BY <1>5, <1>8, <1>h DEF e, h

\* Every step of the registry is a publication or nothing to its readers.
LEMMA StepPublishes ==
    ASSUME IInv, IInv', HistoryRows, HistoryRows', [Next]_vars
    PROVE  [History!Next]_Histories
<1>1. /\ args' = args /\ \A x \in committed : version'[x] = version[x]
      /\ \/ committed' = committed
         \/ \E r \in Requests \ committed : /\ committed' = committed \cup {r}
                                            /\ version' = version
  BY OnlyCommitPublishes
<1>2. CASE committed' = committed
  <2>1. \A e \in Endpoints : HistoryOf(e)' = HistoryOf(e) BY <1>1, <1>2, HistoryKept
  <2> QED BY <2>1 DEF Histories
<1>3. ASSUME NEW r \in Requests \ committed, committed' = committed \cup {r}, version' = version
      PROVE  History!Next
  <2> DEFINE H == [d \in Endpoints |-> HistoryOf(d)]
  <2>0. ep(r) \in Endpoints /\ ep(r)' = ep(r) BY <1>1 DEF ep, IInv, TypeOK
  <2>e. PICK e \in Endpoints : e = ep(r) BY <2>0
  <2>1. e \in Endpoints /\ fp(r) \in Fingerprints BY DEF fp, IInv, TypeOK
  <2>2. /\ \A n \in 1..Len(HistoryOf(e)) : HistoryOf(e)[n] # fp(r)
        /\ HistoryOf(e)' = Append(HistoryOf(e), fp(r))
    <3>1. /\ \A n \in 1..Len(HistoryOf(ep(r))) : HistoryOf(ep(r))[n] # fp(r)
          /\ HistoryOf(ep(r))' = Append(HistoryOf(ep(r)), fp(r))
      BY <1>1, <1>3, CommitPublishes
    <3>2. \A d \in Endpoints : d = ep(r) /\ d = ep(r)' => HistoryOf(ep(r))' = HistoryOf(d)'
      OBVIOUS
    <3> QED BY <2>0, <2>e, <3>1, <3>2
  <2>3. \A d \in Endpoints : d # e => HistoryOf(d)' = HistoryOf(d)
    BY <1>1, <1>3, <2>e, HistoryKept
  <2>4. H' = [H EXCEPT ![e] = Append(@, fp(r))] BY <2>1, <2>2, <2>3
  <2>5. \A n \in 1..Len(H[e]) : H[e][n] # fp(r) BY <2>1, <2>2
  <2>6. History!Publish(e, fp(r)) BY <2>4, <2>5 DEF History!Publish
  <2> QED BY <2>1, <2>6 DEF History!Next
<1> QED BY <1>1, <1>2, <1>3

\* Whatever locks the processes take and whichever requests fail, a reader of
\* contract_schema_versions sees what SchemaHistory promises: versions appended
\* one at a time, each with a new schema, and none changed afterwards.
THEOREM RegistryRefinesHistory == Spec => RefinesHistory
<1>1. Init => History!Init
  <2> SUFFICES ASSUME Init, NEW e \in Endpoints PROVE HistoryOf(e) = <<>>
    BY DEF History!Init
  <2>1. CurrentVersion(e) = 0 BY DEF Init, CurrentVersion
  <2> QED BY <2>1 DEF HistoryOf
<1>2. IInv /\ IInv' /\ HistoryRows /\ HistoryRows' /\ [Next]_vars => [History!Next]_Histories
  BY StepPublishes
<1> QED BY <1>1, <1>2, Invariance, HistoryHasRows, PTL
        DEF Spec, RefinesHistory, History!Spec, Histories
=============================================================================
