------------------------ MODULE LegacyBaselineProofs ------------------------
(***************************************************************************)
(* Proofs about LegacyBaseline, for any number of requests, endpoints,     *)
(* routes and fingerprints, and any endpoints on one route.                *)
(*                                                                         *)
(* The argument: between SELECT and COMMIT a registration has the lock of  *)
(* its route, and two of one endpoint have the same route, so what it saw  *)
(* missing is missing still.  The baseline is moved without a lock, but a  *)
(* request demotes rows of its own endpoint only, promotes its own row of  *)
(* it in the same commit, and sets out to do so only when it sees none.    *)
(***************************************************************************)
EXTENDS LegacyBaseline, TLAPS

\* Statements from the one that saw no baseline to the promotion.
Movers == {"demote", "demote_wait", "promote"}
\* Statements after the commit of the registration.
Registered == {"baseline", "compare", "done", "failed"} \cup Movers

-----------------------------------------------------------------------------
\* A registration in its transaction has the lock of its route; ...
LockOK == \A r \in Requests : pc[r] \in Locked => lockHolder[route(r)] = r

\* ... what it did not find is not there, so that it inserts it; ...
MissingOK ==
    \A r \in Requests :
       /\ pc[r] # "conflict"
       /\ pc[r] = "endpoint_insert" => ep(r) \notin endpoints
       /\ pc[r] = "snapshot_insert" => args[r] \notin snapshots
       /\ r \in newEndpoint => pc[r] \in Locked

\* ... and what it inserted is there once it has committed.
InsertedOK ==
    \A r \in inserted : /\ pc[r] \in {"register_commit"} \cup Registered
                        /\ pc[r] \in Registered => args[r] \in snapshots

\* The request that moves the baseline inserted its snapshot, and demotes rows
\* of its endpoint.
MoveOK ==
    \A r \in Requests :
       /\ pc[r] \in Movers => r \in inserted
       /\ \A x \in matched[r] : x[1] = ep(r)
       /\ pc[r] = "compare" => baseline[r] \in Fingerprints

\* The inductive invariant.
IInv == TypeOK /\ LockOK /\ MissingOK /\ InsertedOK /\ MoveOK /\ BaselineWasChosen
-----------------------------------------------------------------------------
\* Two registrations of one endpoint are not in their transactions together.
LEMMA LockExcludes ==
    ASSUME LockOK, NEW r \in Requests, NEW q \in Requests, r # q,
           pc[r] \in Locked, pc[q] \in Locked
    PROVE  ep(r) # ep(q)
  BY DEF LockOK, route

\* Releasing the locks of one request leaves those of the others.
LEMMA ReleaseKeeps ==
    ASSUME TypeOK, NEW r \in Requests, ReleaseLock(r)
    PROVE  /\ lockHolder' \in [Routes -> Requests \cup {None}]
           /\ \A q \in Requests : q # r /\ lockHolder[route(q)] = q
                                  => lockHolder'[route(q)] = q
<1>1. \A q \in Requests : route(q) \in Routes
  BY DEF TypeOK, Snapshots, Routes, route, ep
<1>2. \A p \in Routes : lockHolder'[p] = IF lockHolder[p] = r THEN None ELSE lockHolder[p]
  BY DEF ReleaseLock
<1>3. lockHolder' \in [Routes -> Requests \cup {None}] BY DEF ReleaseLock, TypeOK
<1> QED BY <1>1, <1>2, <1>3

\* Every statement of a request keeps the invariant.
LEMMA StepIInv ==
    ASSUME IInv, NEW r \in Requests, Step(r) \/ Fail(r)
    PROVE  IInv'
<1>t. TypeOK BY DEF IInv
<1>a. /\ args[r] \in Snapshots /\ ep(r) \in Endpoints /\ fp(r) \in Fingerprints
      /\ route(r) \in Routes
  BY <1>t DEF TypeOK, Snapshots, ep, fp, route, Routes
<1>i. inserted \subseteq Requests BY <1>t DEF TypeOK
<1> USE LegacyAssumption DEF Goto, tables
<1>1. CASE Begin(r) \/ SelectEndpoint(r) \/ SelectSnapshot(r)
  <2>1. /\ UNCHANGED <<args, lockHolder, newEndpoint, inserted, baseline, matched,
                       endpoints, snapshots, active, compared>>
        /\ \/ pc[r] = "idle" /\ pc' = [pc EXCEPT ![r] = "lock"]
           \/ /\ pc[r] = "endpoint_select" /\ ep(r) \in endpoints
              /\ pc' = [pc EXCEPT ![r] = "snapshot_select"]
           \/ /\ pc[r] = "endpoint_select" /\ ep(r) \notin endpoints
              /\ pc' = [pc EXCEPT ![r] = "endpoint_insert"]
           \/ /\ pc[r] = "snapshot_select" /\ args[r] \in snapshots
              /\ pc' = [pc EXCEPT ![r] = "register_commit"]
           \/ /\ pc[r] = "snapshot_select" /\ args[r] \notin snapshots
              /\ pc' = [pc EXCEPT ![r] = "snapshot_insert"]
    BY <1>1 DEF Begin, SelectEndpoint, SelectSnapshot
  <2>2. \A q \in Requests : q # r => pc'[q] = pc[q] BY <2>1, <1>t DEF TypeOK
  <2>3. /\ pc[r] \in Locked \cup {"idle"} /\ pc'[r] \notin Registered
        /\ pc'[r] \in Locked => pc[r] \in Locked
        /\ pc[r] \in Locked => pc'[r] \in Locked
        /\ pc'[r] # "conflict" /\ pc[r] \notin Registered
        /\ pc[r] # "register_commit"
    BY <2>1, <1>t DEF TypeOK, Locked, Registered, Movers
  <2>4. TypeOK'
    <3>1. pc' \in [Requests -> PCs] BY <2>1, <1>t DEF TypeOK, PCs
    <3> QED BY <2>1, <3>1, <1>t DEF TypeOK
  <2>5. LockOK' BY <2>1, <2>2, <2>3 DEF IInv, LockOK, route, ep
  <2>6. MissingOK' BY <2>1, <2>2, <2>3, <1>t DEF IInv, MissingOK, TypeOK, ep, Locked
  <2>7. InsertedOK' BY <1>i, <2>1, <2>2, <2>3 DEF IInv, InsertedOK
  <2>8. MoveOK' BY <2>1, <2>2, <2>3 DEF IInv, MoveOK, Registered, Movers, ep
  <2>9. BaselineWasChosen'
    <3>1. r \notin inserted BY <2>3 DEF IInv, InsertedOK
    <3> QED BY <1>i, <3>1, <2>1, <2>2 DEF IInv, BaselineWasChosen, OfEndpoint, ep
  <2> QED BY <2>4, <2>5, <2>6, <2>7, <2>8, <2>9 DEF IInv
<1>2. CASE AcquireRouteLock(r)
  <2>1. /\ UNCHANGED <<args, newEndpoint, inserted, baseline, matched,
                       endpoints, snapshots, active, compared>>
        /\ pc[r] = "lock" /\ pc' = [pc EXCEPT ![r] = "endpoint_select"]
        /\ lockHolder[route(r)] = None
        /\ lockHolder' = [lockHolder EXCEPT ![route(r)] = r]
    BY <1>2 DEF AcquireRouteLock
  <2>2. /\ \A q \in Requests : q # r => pc'[q] = pc[q]
        /\ pc'[r] = "endpoint_select" /\ lockHolder'[route(r)] = r
    BY <2>1, <1>a, <1>t DEF TypeOK
  <2>4. TypeOK' BY <2>1, <1>t DEF TypeOK, PCs
  <2>5. LockOK'
    <3>1. \A q \in Requests : route(q)' = route(q) BY <2>1 DEF route, ep
    <3>2. \A q \in Requests : lockHolder[route(q)] = q => lockHolder'[route(q)] = q
      BY <2>1, <1>t DEF TypeOK
    <3> QED BY <2>2, <3>1, <3>2 DEF IInv, LockOK
  <2>6. MissingOK' BY <2>1, <2>2 DEF IInv, MissingOK, ep, Locked
  <2>7. InsertedOK' BY <2>1, <2>2 DEF IInv, InsertedOK, Registered, Movers
  <2>8. MoveOK' BY <2>1, <2>2 DEF IInv, MoveOK, Movers, ep
  <2>9. BaselineWasChosen' BY <2>1, <2>2 DEF IInv, BaselineWasChosen, OfEndpoint, ep
  <2> QED BY <2>4, <2>5, <2>6, <2>7, <2>8, <2>9 DEF IInv
<1>3. CASE InsertEndpoint(r)
  <2>1. /\ UNCHANGED <<args, lockHolder, inserted, baseline, matched,
                       endpoints, snapshots, active, compared>>
        /\ pc[r] = "endpoint_insert" /\ pc' = [pc EXCEPT ![r] = "snapshot_select"]
        /\ newEndpoint' = newEndpoint \cup {r}
    BY <1>3 DEF InsertEndpoint, IInv, MissingOK
  <2>2. /\ \A q \in Requests : q # r => pc'[q] = pc[q]
        /\ pc'[r] = "snapshot_select"
    BY <2>1, <1>t DEF TypeOK
  <2>4. TypeOK' BY <2>1, <1>t DEF TypeOK, PCs
  <2>5. LockOK' BY <2>1, <2>2 DEF IInv, LockOK, route, ep, Locked
  <2>6. MissingOK' BY <2>1, <2>2 DEF IInv, MissingOK, ep, Locked
  <2>7. InsertedOK' BY <2>1, <2>2 DEF IInv, InsertedOK, Registered, Movers
  <2>8. MoveOK' BY <2>1, <2>2 DEF IInv, MoveOK, Movers, ep
  <2>9. BaselineWasChosen' BY <2>1, <2>2 DEF IInv, BaselineWasChosen, OfEndpoint, ep
  <2> QED BY <2>4, <2>5, <2>6, <2>7, <2>8, <2>9 DEF IInv
<1>4. CASE InsertSnapshot(r)
  <2>1. /\ UNCHANGED <<args, lockHolder, newEndpoint, baseline, matched,
                       endpoints, snapshots, active, compared>>
        /\ pc[r] = "snapshot_insert" /\ pc' = [pc EXCEPT ![r] = "register_commit"]
        /\ inserted' = inserted \cup {r}
    BY <1>4 DEF InsertSnapshot, IInv, MissingOK
  <2>2. /\ \A q \in Requests : q # r => pc'[q] = pc[q]
        /\ pc'[r] = "register_commit"
    BY <2>1, <1>t DEF TypeOK
  <2>4. TypeOK' BY <2>1, <1>t DEF TypeOK, PCs
  <2>5. LockOK' BY <2>1, <2>2 DEF IInv, LockOK, route, ep, Locked
  <2>6. MissingOK' BY <2>1, <2>2 DEF IInv, MissingOK, ep, Locked
  <2>7. InsertedOK'
    <3>1. \A q \in inserted' : q = r \/ (q \in inserted /\ q \in Requests) BY <2>1, <1>t DEF TypeOK
    <3> QED BY <2>1, <2>2, <3>1 DEF IInv, InsertedOK, Registered, Movers
  <2>8. MoveOK' BY <2>1, <2>2 DEF IInv, MoveOK, Movers, ep
  <2>9. BaselineWasChosen'
    <3>1. \A q \in inserted' : q = r \/ (q \in inserted /\ q \in Requests) BY <2>1, <1>t DEF TypeOK
    <3> QED BY <2>1, <2>2, <3>1 DEF IInv, BaselineWasChosen, OfEndpoint, ep
  <2> QED BY <2>4, <2>5, <2>6, <2>7, <2>8, <2>9 DEF IInv
<1>5. CASE CommitRegistration(r)
  <2>1. /\ UNCHANGED <<args, inserted, baseline, matched, active, compared>>
        /\ pc[r] = "register_commit" /\ pc' = [pc EXCEPT ![r] = "baseline"]
        /\ endpoints' = endpoints \cup {ep(q) : q \in newEndpoint \cap {r}}
        /\ newEndpoint' = newEndpoint \ {r}
        /\ snapshots' = snapshots \cup {args[q] : q \in inserted \cap {r}}
        /\ ReleaseLock(r)
    BY <1>5 DEF CommitRegistration
  <2>2. /\ \A q \in Requests : q # r => pc'[q] = pc[q]
        /\ pc'[r] = "baseline"
        /\ pc[r] \in Locked
    BY <2>1, <1>t DEF TypeOK, Locked
  <2>3. /\ endpoints \subseteq endpoints' /\ endpoints' \subseteq endpoints \cup {ep(r)}
        /\ snapshots \subseteq snapshots' /\ snapshots' \subseteq snapshots \cup {args[r]}
        /\ r \in inserted => args[r] \in snapshots'
    BY <2>1
  <2>4. TypeOK'
    <3>1. lockHolder' \in [Routes -> Requests \cup {None}] BY <2>1, <1>t, ReleaseKeeps
    <3>2. endpoints' \subseteq Endpoints /\ snapshots' \subseteq Snapshots
      BY <2>3, <1>a, <1>t DEF TypeOK
    <3>3. pc' \in [Requests -> PCs] BY <2>1, <1>t DEF TypeOK, PCs
    <3> QED BY <2>1, <2>3, <3>1, <3>2, <3>3, <1>t DEF TypeOK
  <2>5. LockOK'
    <3>1. \A q \in Requests : q # r /\ lockHolder[route(q)] = q => lockHolder'[route(q)] = q
      BY <2>1, <1>t, ReleaseKeeps
    <3>2. \A q \in Requests : route(q)' = route(q) BY <2>1 DEF route, ep
    <3>3. pc'[r] \notin Locked BY <2>2 DEF Locked
    <3> QED BY <2>2, <3>1, <3>2, <3>3 DEF IInv, LockOK
  <2>6. MissingOK'
    <3>1. ASSUME NEW q \in Requests, pc'[q] \in Locked
          PROVE  q # r /\ ep(q) # ep(r) /\ args[q] # args[r]
      <4>1. q # r /\ pc[q] = pc'[q] BY <2>2, <3>1 DEF Locked
      <4>2. ep(q) # ep(r) BY <4>1, <2>2, <3>1, LockExcludes DEF IInv
      <4> QED BY <4>1, <4>2 DEF ep
    <3>2. /\ \A q \in Requests : pc'[q] = "endpoint_insert" => ep(q) \notin endpoints'
          /\ \A q \in Requests : pc'[q] = "snapshot_insert" => args[q] \notin snapshots'
      BY <3>1, <2>2, <2>3 DEF IInv, MissingOK, Locked
    <3> QED BY <3>2, <2>1, <2>2 DEF IInv, MissingOK, ep
  <2>7. InsertedOK' BY <2>1, <2>2, <2>3, <1>i DEF IInv, InsertedOK, Registered, Movers
  <2>8. MoveOK' BY <2>1, <2>2 DEF IInv, MoveOK, Movers, ep
  <2>9. BaselineWasChosen' BY <2>1, <2>2, <1>i DEF IInv, BaselineWasChosen, OfEndpoint, ep
  <2> QED BY <2>4, <2>5, <2>6, <2>7, <2>8, <2>9 DEF IInv
<1>6. CASE ReadBaseline(r)
  <2>1. /\ UNCHANGED <<args, lockHolder, newEndpoint, inserted, matched,
                       endpoints, snapshots, active, compared>>
        /\ pc[r] = "baseline"
    BY <1>6 DEF ReadBaseline
  <2>2. \/ /\ OfEndpoint(active, ep(r)) = {} /\ baseline' = baseline
           /\ \/ r \in inserted /\ pc' = [pc EXCEPT ![r] = "demote"]
              \/ r \notin inserted /\ pc' = [pc EXCEPT ![r] = "done"]
        \/ /\ OfEndpoint(active, ep(r)) # {}
           /\ \E f \in Fingerprints : baseline' = [baseline EXCEPT ![r] = f]
           /\ \E label \in {"compare", "done"} : pc' = [pc EXCEPT ![r] = label]
    <3>1. \A b \in OfEndpoint(active, ep(r)) : b[2] \in Fingerprints
      BY <1>t DEF TypeOK, OfEndpoint, Snapshots
    <3> QED BY <1>6, <3>1 DEF ReadBaseline
  <2>3. /\ \A q \in Requests : q # r => pc'[q] = pc[q] /\ baseline'[q] = baseline[q]
        /\ pc'[r] \in {"demote", "done", "compare"}
        /\ pc'[r] = "demote" => r \in inserted
        /\ pc'[r] = "compare" => baseline'[r] \in Fingerprints
        /\ pc'[r] \in {"done", "compare"} /\ r \in inserted => OfEndpoint(active, ep(r)) # {}
    BY <2>2, <1>t DEF TypeOK
  <2>4. TypeOK'
    <3>1. pc' \in [Requests -> PCs] BY <2>2, <1>t DEF TypeOK, PCs
    <3>2. baseline' \in [Requests -> Fingerprints \cup {None}] BY <2>2, <1>t DEF TypeOK
    <3> QED BY <2>1, <3>1, <3>2, <1>t DEF TypeOK
  <2>5. LockOK' BY <2>1, <2>3 DEF IInv, LockOK, route, ep, Locked
  <2>6. MissingOK' BY <2>1, <2>3 DEF IInv, MissingOK, ep, Locked
  <2>7. InsertedOK' BY <2>1, <2>3, <1>i DEF IInv, InsertedOK, Registered, Movers
  <2>8. MoveOK' BY <2>1, <2>3 DEF IInv, MoveOK, Movers, ep
  <2>9. BaselineWasChosen' BY <2>1, <2>3, <1>i DEF IInv, BaselineWasChosen, OfEndpoint, ep
  <2> QED BY <2>4, <2>5, <2>6, <2>7, <2>8, <2>9 DEF IInv
<1>7. CASE BeginDemote(r) \/ EndDemote(r)
  <2>1. /\ UNCHANGED <<args, lockHolder, newEndpoint, inserted, baseline,
                       endpoints, snapshots, active, compared>>
        /\ pc[r] \in Movers
        /\ \E label \in Movers : pc' = [pc EXCEPT ![r] = label]
        /\ matched' \in {matched, [matched EXCEPT ![r] = OfEndpoint(snapshots, ep(r))]}
    BY <1>7 DEF BeginDemote, EndDemote, Movers
  <2>2. /\ \A q \in Requests : q # r => pc'[q] = pc[q] /\ matched'[q] = matched[q]
        /\ pc'[r] \in Movers
        /\ \A x \in matched'[r] : x[1] = ep(r)
    BY <2>1, <1>t DEF TypeOK, OfEndpoint, IInv, MoveOK
  <2>4. TypeOK'
    <3>1. pc' \in [Requests -> PCs] BY <2>1, <1>t DEF TypeOK, PCs, Movers
    <3>2. matched' \in [Requests -> SUBSET Snapshots] BY <2>1, <1>t DEF TypeOK, OfEndpoint
    <3> QED BY <2>1, <3>1, <3>2, <1>t DEF TypeOK
  <2>5. LockOK' BY <2>1, <2>2 DEF IInv, LockOK, route, ep, Locked, Movers
  <2>6. MissingOK' BY <2>1, <2>2 DEF IInv, MissingOK, ep, Locked, Movers
  <2>7. InsertedOK' BY <2>1, <2>2, <1>i DEF IInv, InsertedOK, Registered
  <2>8. MoveOK' BY <2>1, <2>2 DEF IInv, MoveOK, Movers, ep
  <2>9. BaselineWasChosen'
    BY <2>1, <2>2, <1>i DEF IInv, BaselineWasChosen, OfEndpoint, ep, Movers
  <2> QED BY <2>4, <2>5, <2>6, <2>7, <2>8, <2>9 DEF IInv
<1>8. CASE Promote(r)
  <2>1. /\ UNCHANGED <<args, lockHolder, newEndpoint, inserted, matched,
                       endpoints, snapshots, compared>>
        /\ pc[r] = "promote" /\ pc' = [pc EXCEPT ![r] = "done"]
        /\ active' = (active \ matched[r]) \cup ({args[r]} \cap snapshots)
        /\ baseline' = [baseline EXCEPT ![r] = fp(r)]
    BY <1>8 DEF Promote
  <2>2. /\ \A q \in Requests : q # r => pc'[q] = pc[q] /\ baseline'[q] = baseline[q]
        /\ pc'[r] = "done"
    BY <2>1, <1>t DEF TypeOK
  <2>3. args[r] \in active'
    BY <2>1 DEF IInv, MoveOK, InsertedOK, Movers, Registered
  <2>4. TypeOK' BY <2>1, <1>a, <1>t DEF TypeOK, PCs
  <2>5. LockOK' BY <2>1, <2>2 DEF IInv, LockOK, route, ep, Locked
  <2>6. MissingOK' BY <2>1, <2>2 DEF IInv, MissingOK, ep, Locked
  <2>7. InsertedOK' BY <2>1, <2>2, <1>i DEF IInv, InsertedOK, Registered, Movers
  <2>8. MoveOK' BY <2>1, <2>2 DEF IInv, MoveOK, Movers, ep
  <2>9. BaselineWasChosen'
    <3> SUFFICES ASSUME NEW q \in inserted, pc'[q] \in {"compare", "done"}
                 PROVE  OfEndpoint(active', ep(q)) # {}
      BY <2>1 DEF BaselineWasChosen, ep
    <3>1. CASE ep(q) = ep(r) BY <3>1, <2>3 DEF OfEndpoint, ep
    <3>2. CASE ep(q) # ep(r)
      <4>1. pc[q] \in {"compare", "done"} BY <3>2, <2>2, <1>i
      <4>2. PICK x \in active : x[1] = ep(q)
        BY <4>1 DEF IInv, BaselineWasChosen, OfEndpoint
      <4>3. x \notin matched[r] BY <4>2, <3>2 DEF IInv, MoveOK
      <4> QED BY <4>2, <4>3, <2>1 DEF OfEndpoint
    <3> QED BY <3>1, <3>2
  <2> QED BY <2>4, <2>5, <2>6, <2>7, <2>8, <2>9 DEF IInv
<1>9. CASE Compare(r)
  <2>1. /\ UNCHANGED <<args, lockHolder, newEndpoint, inserted, baseline, matched,
                       endpoints, snapshots, active>>
        /\ pc[r] = "compare" /\ pc' = [pc EXCEPT ![r] = "done"]
        /\ compared' = compared \cup {<<r, baseline[r]>>}
    BY <1>9 DEF Compare
  <2>2. /\ \A q \in Requests : q # r => pc'[q] = pc[q]
        /\ pc'[r] = "done" /\ baseline[r] \in Fingerprints
    BY <2>1, <1>t DEF TypeOK, IInv, MoveOK
  <2>4. TypeOK' BY <2>1, <2>2, <1>t DEF TypeOK, PCs
  <2>5. LockOK' BY <2>1, <2>2 DEF IInv, LockOK, route, ep, Locked
  <2>6. MissingOK' BY <2>1, <2>2 DEF IInv, MissingOK, ep, Locked
  <2>7. InsertedOK' BY <2>1, <2>2, <1>i DEF IInv, InsertedOK, Registered, Movers
  <2>8. MoveOK' BY <2>1, <2>2 DEF IInv, MoveOK, Movers, ep
  <2>9. BaselineWasChosen' BY <2>1, <2>2, <1>i DEF IInv, BaselineWasChosen, OfEndpoint, ep
  <2> QED BY <2>4, <2>5, <2>6, <2>7, <2>8, <2>9 DEF IInv
<1>10. CASE Fail(r)
  <2>1. /\ UNCHANGED <<args, baseline, matched, endpoints, snapshots, active, compared>>
        /\ pc[r] \notin {"idle", "done", "failed"} /\ pc' = [pc EXCEPT ![r] = "failed"]
        /\ newEndpoint' = newEndpoint \ {r}
        /\ inserted' = IF pc[r] \in Locked THEN inserted \ {r} ELSE inserted
        /\ ReleaseLock(r)
    BY <1>10 DEF Fail, Rollback, Ended
  <2>2. /\ \A q \in Requests : q # r => pc'[q] = pc[q]
        /\ pc'[r] = "failed" /\ inserted' \subseteq inserted
        /\ r \in inserted' => pc[r] \notin Locked
    BY <2>1, <1>t DEF TypeOK
  <2>4. TypeOK'
    <3>1. lockHolder' \in [Routes -> Requests \cup {None}] BY <2>1, <1>t, ReleaseKeeps
    <3>2. pc' \in [Requests -> PCs] BY <2>1, <1>t DEF TypeOK, PCs
    <3> QED BY <2>1, <2>2, <3>1, <3>2, <1>t DEF TypeOK
  <2>5. LockOK'
    <3>1. \A q \in Requests : q # r /\ lockHolder[route(q)] = q => lockHolder'[route(q)] = q
      BY <2>1, <1>t, ReleaseKeeps
    <3>2. \A q \in Requests : route(q)' = route(q) BY <2>1 DEF route, ep
    <3>3. pc'[r] \notin Locked BY <2>2 DEF Locked
    <3> QED BY <2>2, <3>1, <3>2, <3>3 DEF IInv, LockOK
  <2>6. MissingOK' BY <2>1, <2>2 DEF IInv, MissingOK, ep, Locked
  <2>7. InsertedOK' BY <2>1, <2>2, <1>i DEF IInv, InsertedOK, Registered, Movers, Locked
  <2>8. MoveOK'
    <3>1. \A q \in Requests : q # r /\ q \in inserted => q \in inserted' BY <2>1
    <3> QED BY <2>1, <2>2, <3>1 DEF IInv, MoveOK, Movers, ep
  <2>9. BaselineWasChosen' BY <2>1, <2>2, <1>i DEF IInv, BaselineWasChosen, OfEndpoint, ep
  <2> QED BY <2>4, <2>5, <2>6, <2>7, <2>8, <2>9 DEF IInv
<1> QED BY <1>1, <1>2, <1>3, <1>4, <1>5, <1>6, <1>7, <1>8, <1>9, <1>10 DEF Step
-----------------------------------------------------------------------------
\* The inductive invariant.
THEOREM Invariance == Spec => []IInv
<1>1. Init => IInv
  <2> SUFFICES ASSUME Init PROVE IInv
    OBVIOUS
  <2> USE LegacyAssumption DEF Init
  <2>1. TypeOK BY DEF TypeOK, PCs
  <2>2. LockOK /\ MissingOK BY DEF LockOK, MissingOK, Locked
  <2>3. InsertedOK /\ MoveOK /\ BaselineWasChosen
    BY DEF InsertedOK, MoveOK, Movers, BaselineWasChosen
  <2> QED BY <2>1, <2>2, <2>3 DEF IInv
<1>2. IInv /\ [Next]_vars => IInv'
  <2> SUFFICES ASSUME IInv, [Next]_vars PROVE IInv'
    OBVIOUS
  <2>1. CASE UNCHANGED vars
    <3> USE <2>1 DEF vars, IInv
    <3>1. TypeOK' BY DEF TypeOK
    <3>2. LockOK' /\ MissingOK' BY DEF LockOK, MissingOK, route, ep
    <3>3. InsertedOK' /\ MoveOK' /\ BaselineWasChosen'
      BY DEF InsertedOK, MoveOK, BaselineWasChosen, OfEndpoint, ep
    <3> QED BY <3>1, <3>2, <3>3
  <2> QED BY <2>1, StepIInv DEF Next, AllAnswered
<1> QED BY <1>1, <1>2, PTL DEF Spec

\* The variables always have their types, and an active baseline is a
\* committed snapshot.
THEOREM TypeCorrect == Spec => []TypeOK
<1>1. IInv => TypeOK BY DEF IInv
<1> QED BY <1>1, Invariance, PTL

\* The lock of the route makes SELECT-then-INSERT of endpoint and snapshot
\* atomic (engine.py:121-138), whatever endpoints share it.
THEOREM NoRegistrationConflictCorrect == Spec => []NoRegistrationConflict
<1>1. IInv => NoRegistrationConflict BY DEF IInv, MissingOK, NoRegistrationConflict
<1> QED BY <1>1, Invariance, PTL

\* An endpoint whose snapshots are through has a baseline (main.py:122-157): no
\* interleaving lets every request leave the promotion to another one.
THEOREM BaselineWasChosenCorrect == Spec => []BaselineWasChosen
<1>1. IInv => BaselineWasChosen BY DEF IInv
<1> QED BY <1>1, Invariance, PTL

\* A baseline that nobody is on the way to replace stays as it is: requests
\* that see it do not set out, and those of other endpoints demote none of its
\* rows (main.py:136-157).
THEOREM BaselineIsStableCorrect == Spec => BaselineIsStable
<1> DEFINE Stable ==
      \A e \in Endpoints :
         OfEndpoint(active, e) # {} /\ Promoting(e) = {} =>
            /\ OfEndpoint(active', e) = OfEndpoint(active, e)
            /\ Promoting(e)' = {}
<1>1. IInv /\ [Next]_vars => [Stable]_vars
  <2> SUFFICES ASSUME IInv, NEW r \in Requests, Step(r) \/ Fail(r),
                      NEW e \in Endpoints,
                      OfEndpoint(active, e) # {}, Promoting(e) = {}
               PROVE  /\ OfEndpoint(active', e) = OfEndpoint(active, e)
                      /\ Promoting(e)' = {}
    BY DEF Next, AllAnswered
  <2>t. /\ TypeOK /\ args' = args
        /\ \A q \in Requests : ep(q) = e => pc[q] \notin Movers
    BY DEF IInv, Promoting, Movers, Step, Fail, Rollback, Begin, AcquireRouteLock,
           SelectEndpoint, InsertEndpoint, SelectSnapshot, InsertSnapshot,
           CommitRegistration, ReadBaseline, BeginDemote, EndDemote, Promote, Compare
  <2>1. CASE Promote(r)
    <3>1. /\ active' = (active \ matched[r]) \cup ({args[r]} \cap snapshots)
          /\ pc[r] \in Movers /\ pc' = [pc EXCEPT ![r] = "done"]
      BY <2>1 DEF Promote, Goto, Movers
    <3>2. ep(r) # e BY <3>1, <2>t
    <3>3. \A x \in matched[r] \cup {args[r]} : x[1] # e
      BY <3>2 DEF IInv, MoveOK, ep
    <3>4. OfEndpoint(active', e) = OfEndpoint(active, e) BY <3>1, <3>3 DEF OfEndpoint
    <3>5. Promoting(e)' = {} BY <3>1, <2>t DEF Promoting, Movers, ep, TypeOK
    <3> QED BY <3>4, <3>5
  <2>2. CASE ~Promote(r)
    <3>1. active' = active
      BY <2>2 DEF tables, Step, Fail, Rollback, Begin, AcquireRouteLock,
           SelectEndpoint, InsertEndpoint, SelectSnapshot, InsertSnapshot,
           CommitRegistration, ReadBaseline, BeginDemote, EndDemote, Compare
    <3>2. pc' = [pc EXCEPT ![r] = pc'[r]]
      BY <2>t DEF Goto, Step, Fail, Rollback, Begin, AcquireRouteLock,
           SelectEndpoint, InsertEndpoint, SelectSnapshot, InsertSnapshot,
           CommitRegistration, ReadBaseline, BeginDemote, EndDemote, Promote, Compare, TypeOK
    <3>3. ep(r) = e => pc'[r] \notin Movers
      <4> SUFFICES ASSUME ep(r) = e PROVE pc'[r] \notin Movers
        OBVIOUS
      <4>1. CASE ReadBaseline(r)
        <5>1. \E label \in {"compare", "done"} : pc' = [pc EXCEPT ![r] = label]
          BY <4>1 DEF ReadBaseline, Goto
        <5> QED BY <5>1, <2>t DEF TypeOK, Movers
      <4>2. CASE BeginDemote(r) \/ EndDemote(r)
        BY <4>2, <2>t DEF BeginDemote, EndDemote, Movers
      <4> QED BY <2>2, <2>t, <4>1, <4>2
          DEF Goto, Step, Fail, Rollback, Begin, AcquireRouteLock,
           SelectEndpoint, InsertEndpoint, SelectSnapshot, InsertSnapshot,
           CommitRegistration, Compare, TypeOK, Movers
    <3>4. \A q \in Requests : ep(q) = e => pc'[q] \notin Movers
      BY <3>2, <3>3, <2>t DEF TypeOK
    <3>5. Promoting(e)' = {} BY <3>4, <2>t DEF Promoting, Movers, ep
    <3> QED BY <3>1, <3>5
  <2> QED BY <2>1, <2>2
<1> QED BY <1>1, Invariance, PTL DEF Spec, BaselineIsStable
=============================================================================
