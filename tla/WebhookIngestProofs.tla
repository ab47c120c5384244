------------------------ MODULE WebhookIngestProofs -------------------------
(***************************************************************************)
(* Proofs about WebhookIngest, the gateway and the runtime behind it, for  *)
(* any number of requests, keys, fingerprints, restarts and faults.        *)
(*                                                                         *)
(* Each half is proved on its own from an invariant of its own, GatewayInv *)
(* and TrackInv, after WebhookIngest is shown to implement both; what      *)
(* holds across the two processes follows from what links them: a request  *)
(* that the runtime has taken is an answered one.                          *)
(***************************************************************************)
EXTENDS WebhookIngest, TLAPS

-----------------------------------------------------------------------------
\* The gateway.  A key in the store is that of an accepted delivery; ...
StoreOK ==
    /\ \A k \in store : \E q \in taken : key(q) = k /\ state[q] = "202"
    /\ \A r \in Requests : state[r] = "202" => r \in taken
    /\ DuplicateWasAccepted

\* ... the deliveries accepted in the present incarnation are all in it, ...
IncarnationOK ==
    \A r \in Requests :
       /\ state[r] \in {"forwarding", "202"} => key(r) # NoKey
       /\ startedIn[r] <= incarnation
       /\ state[r] = "forwarding" => startedIn[r] = incarnation
       /\ state[r] = "202" /\ startedIn[r] = incarnation => key(r) \in store

\* ... and two of one key and one incarnation, accepted or still under way,
\* have been in flight together.
OverlapOK ==
    \A r, q \in Requests :
       /\ r # q
       /\ state[r] \in {"forwarding", "202"} /\ state[q] \in {"forwarding", "202"}
       /\ key(r) = key(q)
       /\ startedIn[r] = startedIn[q]
       => <<r, q>> \in overlaps

\* The inductive invariant of the gateway.
GatewayInv == TypeOK /\ StoreOK /\ IncarnationOK /\ OverlapOK

-----------------------------------------------------------------------------
\* The runtime.  The committed versions are pairwise different, and the
\* uncommitted one, of which there is one at most, is a new next one.
Inserted == {"diff_doc", "enqueue", "event", "commit"}

VersionsOK ==
    /\ \A i, j \in DOMAIN versions : i # j => versions[i] # versions[j]
    /\ open # None => /\ tpc[open] \in Inserted
                      /\ number[open] = Len(versions) + 1
                      /\ ~Track!Known(print[open])

\* A request that has inserted a version and has not failed has it still
\* uncommitted or finds it under its number, which is nobody else's.
NumberOK ==
    /\ \A r \in Requests :
          /\ tpc[r] \in {"idle", "register"} => number[r] = 0
          /\ tpc[r] \in {"diff_doc", "enqueue"} => open = r
          /\ tpc[r] \in {"diff_doc", "enqueue", "event"} => number[r] > 1
          /\ tpc[r] # "failed" /\ number[r] > 0 => open = r \/ Track!IsVersion(r)
          /\ tpc[r] = "commit" /\ number[r] = 0 => Track!Known(print[r])
          /\ tpc[r] \in {"legacy", "done"} => Track!Known(print[r]) /\ open # r
    /\ \A r, q \in Requests :
          /\ r # q /\ tpc[r] # "failed" /\ tpc[q] # "failed"
          /\ number[r] > 0
          => number[r] # number[q]

\* The traces of a version: made between its insertion and its commit.
TracesOK ==
    \A r \in Requests :
       /\ Track!schema_diff(r) \in docs \cup missed =>
             number[r] > 0 /\ tpc[r] \notin {"idle", "register", "diff_doc"}
       /\ task[r] # "none" =>
             number[r] > 0 /\ tpc[r] \in {"commit", "legacy", "done", "failed"}
       /\ number[r] > 1 /\ tpc[r] \in {"enqueue", "event", "commit", "legacy", "done"} =>
             Track!schema_diff(r) \in docs \cup missed
       /\ number[r] > 1 /\ tpc[r] \in {"commit", "legacy", "done"} => task[r] # "none"

\* Attempts to publish: a task under way has one left, and each one gives the
\* broker a copy at most.
AttemptsOK ==
    \A r \in Requests :
       /\ task[r] = "none" => tries[r] = 0
       /\ task[r] = "running" => tries[r] < Retries
       /\ received[r] <= tries[r]
       /\ task[r] = "sent" => received[r] > 0

\* The inductive invariant of the runtime.
TrackInv == Track!TypeOK /\ VersionsOK /\ NumberOK /\ TracesOK /\ AttemptsOK

-----------------------------------------------------------------------------
\* Across both: what the runtime has taken is answered, and deliveries of one
\* key carry one body.
LinkOK ==
    /\ \A r \in taken : tpc[r] = "done"
    /\ \A r, q \in Requests : key(r) = key(q) => print[r] = print[q]

IngestInv == GatewayInv /\ TrackInv /\ LinkOK
-----------------------------------------------------------------------------
\* The outcomes of the handler's checks, with what each one implies.
LEMMA VerdictCases ==
    ASSUME TypeOK, NEW r \in Requests
    PROVE  /\ Verdict(r) \in {"400", "401", "403", "409", "forwarding"}
           /\ Verdict(r) = "409" => key(r) \in store
           /\ Verdict(r) = "forwarding" => key(r) \notin store \cup {NoKey}
<1> DEFINE s == input[r].sig
           b == input[r].body
<1>1. s \in Signatures /\ b \in Bodies /\ key(r) \in Keys \cup {NoKey}
  BY DEF TypeOK, key
<1>2. NoKey \notin store BY GatewayAssumption DEF TypeOK
<1>3. CASE s = "missing"
  <2>1. Verdict(r) = "401" BY <1>3 DEF Verdict
  <2> QED BY <2>1
<1>4. CASE s # "missing" /\ key(r) = NoKey
  <2>1. Verdict(r) = "400" BY <1>2, <1>4 DEF Verdict
  <2> QED BY <2>1
<1>5. CASE s # "missing" /\ key(r) \in store
  <2>1. Verdict(r) = "409" BY <1>2, <1>5 DEF Verdict
  <2> QED BY <2>1, <1>5
<1>6. CASE s = "invalid" /\ key(r) \notin store \cup {NoKey}
  <2>1. Verdict(r) = "403" BY <1>6 DEF Verdict
  <2> QED BY <2>1
<1>7. CASE s = "valid" /\ key(r) \notin store \cup {NoKey}
  <2>1. Verdict(r) = IF b = "malformed" THEN "400" ELSE "forwarding"
    BY <1>7 DEF Verdict
  <2> QED BY <2>1, <1>7
<1> QED BY <1>1, <1>3, <1>4, <1>5, <1>6, <1>7 DEF Signatures

\* Every step of a delivery keeps the invariant of the gateway.
LEMMA GatewayStep ==
    ASSUME GatewayInv, NEW r \in Requests,
           Receive(r) \/ RuntimeTakes(r) \/ ForwardResolves(r) \/ ForwardRejects(r)
    PROVE  GatewayInv'
<1>t. TypeOK BY DEF GatewayInv
<1> USE GatewayAssumption DEF GatewayInv
<1>1. CASE Receive(r)
  <2>1. /\ state[r] = "new"
        /\ state' = [state EXCEPT ![r] = Verdict(r)]
        /\ startedIn' = [startedIn EXCEPT ![r] = incarnation]
        /\ UNCHANGED <<input, store, taken, incarnation>>
        /\ overlaps' = IF Verdict(r) = "forwarding"
                       THEN overlaps \cup (InFlight \X {r}) \cup ({r} \X InFlight)
                       ELSE overlaps
    BY <1>1 DEF Receive
  <2>2. InFlight \subseteq Requests BY DEF InFlight
  <2>3. TypeOK' BY <2>1, <2>2, VerdictCases DEF TypeOK, Answers
  <2>4. StoreOK'
    BY <2>1, <1>t, VerdictCases DEF StoreOK, DuplicateWasAccepted, TypeOK, key
  <2>5. IncarnationOK'
    BY <2>1, <1>t, VerdictCases DEF IncarnationOK, TypeOK, key
  <2>6. OverlapOK'
    <3>1. ASSUME NEW q \in Requests, q # r, Verdict(r) = "forwarding",
                 state[q] \in {"forwarding", "202"}, key(r) = key(q),
                 startedIn[q] = incarnation
          PROVE  <<r, q>> \in overlaps' /\ <<q, r>> \in overlaps'
      <4>1. state[q] # "202" BY <3>1, VerdictCases DEF IncarnationOK
      <4>2. q \in InFlight BY <3>1, <4>1 DEF InFlight
      <4> QED BY <4>2, <3>1, <2>1
    <3>2. overlaps \subseteq overlaps' BY <2>1
    <3> QED BY <2>1, <3>1, <3>2, <1>t, VerdictCases DEF OverlapOK, TypeOK, key
  <2> QED BY <2>3, <2>4, <2>5, <2>6
<1>2. CASE RuntimeTakes(r)
  <2> USE <1>2 DEF RuntimeTakes
  <2>1. TypeOK' BY DEF TypeOK
  <2>2. StoreOK' BY <1>t DEF StoreOK, DuplicateWasAccepted, key
  <2>3. IncarnationOK' BY DEF IncarnationOK, key
  <2>4. OverlapOK' BY DEF OverlapOK, key
  <2> QED BY <2>1, <2>2, <2>3, <2>4
<1>3. CASE ForwardResolves(r)
  <2> USE <1>3 DEF ForwardResolves
  <2>1. key(r) \in Keys BY <1>t DEF IncarnationOK, TypeOK, key
  <2>2. TypeOK' BY <2>1 DEF TypeOK, Answers
  <2>3. StoreOK' BY <1>t DEF StoreOK, DuplicateWasAccepted, TypeOK, key
  <2>4. IncarnationOK' BY <1>t DEF IncarnationOK, TypeOK, key
  <2>5. OverlapOK' BY <1>t DEF OverlapOK, TypeOK, key
  <2> QED BY <2>2, <2>3, <2>4, <2>5
<1>4. CASE ForwardRejects(r)
  <2> USE <1>4 DEF ForwardRejects
  <2>1. TypeOK' BY DEF TypeOK, Answers
  <2>2. StoreOK' BY <1>t DEF StoreOK, DuplicateWasAccepted, TypeOK, key
  <2>3. IncarnationOK' BY <1>t DEF IncarnationOK, TypeOK, key
  <2>4. OverlapOK' BY <1>t DEF OverlapOK, TypeOK, key
  <2> QED BY <2>1, <2>2, <2>3, <2>4
<1> QED BY <1>1, <1>2, <1>3, <1>4

\* The gateway keeps its invariant: a restart empties the store, and every
\* delivery of the incarnation before it is over.
THEOREM GatewayInvariance == Spec => []GatewayInv
<1>1. Init => GatewayInv
  <2> SUFFICES ASSUME Init PROVE GatewayInv
    OBVIOUS
  <2> USE GatewayAssumption DEF Init
  <2>1. TypeOK BY DEF TypeOK, Answers
  <2>2. StoreOK /\ IncarnationOK /\ OverlapOK
    BY DEF StoreOK, DuplicateWasAccepted, IncarnationOK, OverlapOK
  <2> QED BY <2>1, <2>2 DEF GatewayInv
<1>2. GatewayInv /\ [Next]_vars => GatewayInv'
  <2> SUFFICES ASSUME GatewayInv, [Next]_vars PROVE GatewayInv'
    OBVIOUS
  <2>1. CASE Restart
    <3> USE <2>1, GatewayAssumption DEF Restart, GatewayInv
    <3>1. TypeOK'
      <4>1. /\ incarnation' \in 0..MaxRestarts /\ store' \subseteq Keys
            /\ state' \in [Requests -> Answers \cup {"new", "forwarding", "dropped"}]
        BY DEF TypeOK
      <4> QED BY <4>1 DEF TypeOK
    <3>s. \A r \in Requests : state'[r] = IF state[r] = "forwarding" THEN "dropped"
                                                                   ELSE state[r]
      BY DEF InFlight
    <3>2. StoreOK'
      <4>1. \A r \in taken : r \in Requests BY DEF TypeOK
      <4> QED BY <3>s, <4>1 DEF StoreOK, DuplicateWasAccepted, key
    <3>3. IncarnationOK'
      <4>1. \A r \in Requests : startedIn[r] <= incarnation' /\ startedIn[r] # incarnation'
        BY DEF IncarnationOK, TypeOK
      <4> QED BY <3>s, <4>1 DEF IncarnationOK, key
    <3>4. OverlapOK' BY DEF OverlapOK, InFlight, key
    <3> QED BY <3>1, <3>2, <3>3, <3>4
  <2>2. CASE UNCHANGED vars
    BY <2>2 DEF vars, GatewayInv, TypeOK, StoreOK, DuplicateWasAccepted, IncarnationOK,
                OverlapOK, key
  <2> QED BY <2>1, <2>2, GatewayStep DEF Next
<1> QED BY <1>1, <1>2, PTL DEF Spec
-----------------------------------------------------------------------------
\* Storing a document changes the documents only, and names only itself.
LEMMA PersistKeeps ==
    ASSUME Track!TypeOK, NEW r \in Requests,
           NEW kind \in {"payload_snapshot", "schema_diff"},
           Track!Persist(<<r, kind>>)
    PROVE  /\ docs' \cup missed' = docs \cup missed \cup {<<r, kind>>}
           /\ docs' \cup missed' \subseteq Requests \X {"payload_snapshot", "schema_diff"}
           /\ faults' \in 0..MaxFaults
<1> USE IngestAssumption DEF Track!TypeOK
<1>1. docs' \cup missed' = docs \cup missed \cup {<<r, kind>>}
  BY DEF Track!Persist, Track!insert_one
<1>2. faults' \in 0..MaxFaults BY DEF Track!Persist
<1> QED BY <1>1, <1>2

\* A version that has been committed keeps its place and its number.
LEMMA VersionsKept ==
    ASSUME Track!TypeOK, NEW f \in Fingerprints, versions' = Append(versions, f)
    PROVE  /\ versions' \in Seq(Fingerprints)
           /\ DOMAIN versions' = DOMAIN versions \cup {Len(versions) + 1}
           /\ Len(versions) + 1 \notin DOMAIN versions
           /\ \A i \in DOMAIN versions : versions'[i] = versions[i]
           /\ versions'[Len(versions) + 1] = f
<1>1. versions \in Seq(Fingerprints) /\ DOMAIN versions = 1..Len(versions)
  BY DEF Track!TypeOK
<1> QED BY <1>1

\* A request that inserts a version takes the next number, which no living
\* request has.
LEMMA NextIsFree ==
    ASSUME TrackInv, open = None, NEW r \in Requests, tpc[r] # "failed"
    PROVE  number[r] # Len(versions) + 1
<1>1. versions \in Seq(Fingerprints) /\ DOMAIN versions = 1..Len(versions)
  BY DEF TrackInv, Track!TypeOK
<1>2. CASE number[r] = 0 BY <1>1, <1>2
<1>3. CASE number[r] > 0
  <2>1. number[r] \in DOMAIN versions
    BY <1>3, IngestAssumption DEF TrackInv, NumberOK, Track!IsVersion
  <2> QED BY <1>1, <2>1
<1> QED BY <1>2, <1>3 DEF TrackInv, Track!TypeOK
\* Every step of a request, of its event and of its documents keeps the
\* invariant of the runtime.
LEMMA TrackStep ==
    ASSUME TrackInv, NEW r \in Requests,
           Track!Arrive(r) \/ Track!Handle(r) \/ Track!Answer(r) \/ Track!Publish(r)
    PROVE  TrackInv'
<1>t. Track!TypeOK BY DEF TrackInv
<1>v. /\ versions \in Seq(Fingerprints) /\ DOMAIN versions = 1..Len(versions)
      /\ Len(versions) \in Nat
  BY <1>t DEF Track!TypeOK
<1> USE IngestAssumption DEF Track!Step
<1>1. CASE Track!Arrive(r)
  <2>1. /\ tpc[r] = "idle" /\ tpc' = [tpc EXCEPT ![r] = "register"]
        /\ Track!Persist(<<r, "payload_snapshot">>)
        /\ UNCHANGED <<print, number, versions, open, task, tries, received>>
    BY <1>1 DEF Track!Arrive, Track!payload_snapshot
  <2>2. /\ docs' \cup missed' = docs \cup missed \cup {<<r, "payload_snapshot">>}
        /\ docs' \cup missed' \subseteq Requests \X {"payload_snapshot", "schema_diff"}
        /\ faults' \in 0..MaxFaults
    BY <2>1, <1>t, PersistKeeps
  <2>3. \A q \in Requests : Track!schema_diff(q) \in docs' \cup missed' <=>
                            Track!schema_diff(q) \in docs \cup missed
    BY <2>2 DEF Track!schema_diff
  <2>4. Track!TypeOK' BY <2>1, <2>2 DEF TrackInv, Track!TypeOK, Track!Steps
  <2>5. VersionsOK' BY <2>1, <1>t DEF TrackInv, VersionsOK, Track!TypeOK, Inserted, Track!Known
  <2>6. NumberOK'
    BY <2>1, <1>t DEF TrackInv, NumberOK, Track!TypeOK, Track!Known, Track!IsVersion
  <2>7. TracesOK' BY <2>1, <2>3, <1>t DEF TrackInv, TracesOK, Track!TypeOK
  <2>8. AttemptsOK' BY <2>1 DEF TrackInv, AttemptsOK
  <2> QED BY <2>4, <2>5, <2>6, <2>7, <2>8 DEF TrackInv
<1>2. CASE Track!Register(r)
  <2>1. /\ tpc[r] = "register"
        /\ UNCHANGED <<print, versions, docs, missed, task, tries, received, faults>>
    BY <1>2 DEF Track!Register
  <2>2. CASE Track!Known(print[r]) /\ tpc' = [tpc EXCEPT ![r] = "commit"]
             /\ UNCHANGED <<number, open>>
    <3>1. Track!TypeOK' BY <2>1, <2>2, <1>t DEF Track!TypeOK, Track!Steps
    <3>2. VersionsOK'
      BY <2>1, <2>2, <1>t DEF TrackInv, VersionsOK, Track!TypeOK, Inserted, Track!Known
    <3>3. NumberOK'
      BY <2>1, <2>2, <1>t DEF TrackInv, NumberOK, Track!TypeOK, Track!Known, Track!IsVersion
    <3>4. TracesOK'
      <4>1. /\ Track!schema_diff(r) \notin docs \cup missed /\ task[r] = "none"
            /\ number[r] = 0 /\ ~(0 > 1)
        BY <2>1, <1>t DEF TrackInv, TracesOK, NumberOK
      <4>2. \A q \in Requests : q # r => tpc'[q] = tpc[q] BY <2>2, <1>t DEF Track!TypeOK
      <4> QED BY <2>1, <2>2, <4>1, <4>2 DEF TrackInv, TracesOK
    <3>5. AttemptsOK' BY <2>1 DEF TrackInv, AttemptsOK
    <3> QED BY <3>1, <3>2, <3>3, <3>4, <3>5 DEF TrackInv
  <2>3. CASE /\ ~Track!Known(print[r]) /\ open = None /\ open' = r
             /\ number' = [number EXCEPT ![r] = Len(versions) + 1]
             /\ tpc' = [tpc EXCEPT ![r] = IF versions = <<>> THEN "commit" ELSE "diff_doc"]
    <3>0. /\ tpc'[r] \in {"commit", "diff_doc"} /\ number'[r] = Len(versions) + 1
          /\ tpc'[r] = "diff_doc" => number'[r] > 1
          /\ \A q \in Requests : q # r => tpc'[q] = tpc[q] /\ number'[q] = number[q]
      BY <2>3, <1>t, <1>v DEF Track!TypeOK
    <3>n. \A q \in Requests : tpc[q] # "failed" => number[q] # Len(versions) + 1
      BY <2>3, NextIsFree
    <3>1. Track!TypeOK' BY <2>1, <2>3, <1>t, <1>v DEF Track!TypeOK, Track!Steps
    <3>2. VersionsOK'
      BY <2>1, <2>3, <3>0, <1>t DEF TrackInv, VersionsOK, Inserted, Track!Known
    <3>3. NumberOK'
      BY <2>1, <2>3, <3>0, <3>n, <1>t, <1>v
      DEF TrackInv, NumberOK, Track!TypeOK, Track!Known, Track!IsVersion
    <3>4. TracesOK'
      <4>1. Track!schema_diff(r) \notin docs \cup missed /\ task[r] = "none"
        BY <2>1, <1>t DEF TrackInv, TracesOK, NumberOK
      <4>2. versions = <<>> => number'[r] = 1 BY <3>0
      <4>3. tpc'[r] = "commit" => number'[r] = 1 BY <2>3, <4>2, <1>t DEF Track!TypeOK
      <4>4. ~(1 > 1) OBVIOUS
      <4> QED BY <2>1, <3>0, <4>1, <4>3, <4>4 DEF TrackInv, TracesOK
    <3>5. AttemptsOK' BY <2>1 DEF TrackInv, AttemptsOK
    <3> QED BY <3>1, <3>2, <3>3, <3>4, <3>5 DEF TrackInv
  <2> QED BY <1>2, <2>2, <2>3 DEF Track!Register
<1>3. CASE Track!StoreDiff(r)
  <2>1. /\ tpc[r] = "diff_doc" /\ tpc' = [tpc EXCEPT ![r] = "enqueue"]
        /\ Track!Persist(<<r, "schema_diff">>)
        /\ UNCHANGED <<print, number, versions, open, task, tries, received>>
    BY <1>3 DEF Track!StoreDiff, Track!schema_diff
  <2>2. /\ docs' \cup missed' = docs \cup missed \cup {<<r, "schema_diff">>}
        /\ docs' \cup missed' \subseteq Requests \X {"payload_snapshot", "schema_diff"}
        /\ faults' \in 0..MaxFaults
    BY <2>1, <1>t, PersistKeeps
  <2>3. \A q \in Requests : Track!schema_diff(q) \in docs' \cup missed' <=>
                            Track!schema_diff(q) \in docs \cup missed \/ q = r
    BY <2>2 DEF Track!schema_diff
  <2>4. Track!TypeOK' BY <2>1, <2>2 DEF TrackInv, Track!TypeOK, Track!Steps
  <2>5. VersionsOK' BY <2>1, <1>t DEF TrackInv, VersionsOK, Track!TypeOK, Inserted, Track!Known
  <2>6. NumberOK'
    BY <2>1, <1>t DEF TrackInv, NumberOK, Track!TypeOK, Track!Known, Track!IsVersion
  <2>7. TracesOK'
    <3>1. number[r] > 1 /\ number[r] \in Nat
      BY <2>1, <1>t DEF TrackInv, NumberOK, Track!TypeOK
    <3>2. number[r] > 0 BY <3>1
    <3> QED BY <2>1, <2>3, <3>2, <1>t DEF TrackInv, TracesOK, Track!TypeOK
  <2>8. AttemptsOK' BY <2>1 DEF TrackInv, AttemptsOK
  <2> QED BY <2>4, <2>5, <2>6, <2>7, <2>8 DEF TrackInv
<1>4. CASE Track!EmitEvent(r)
  <2>1. /\ tpc[r] = "event" /\ tpc' = [tpc EXCEPT ![r] = "commit"]
        /\ task' = [task EXCEPT ![r] = "running"] /\ task[r] = "none" /\ number[r] > 1
        /\ UNCHANGED <<print, number, versions, open, docs, missed, tries, received, faults>>
    BY <1>4, <1>t DEF Track!EmitEvent, TrackInv, TracesOK, NumberOK
  <2>2. Track!TypeOK' BY <2>1, <1>t DEF Track!TypeOK, Track!Steps, Track!Tasks
  <2>3. VersionsOK' BY <2>1, <1>t DEF TrackInv, VersionsOK, Track!TypeOK, Inserted, Track!Known
  <2>4. NumberOK'
    <3>1. number[r] # 0 BY <2>1
    <3> QED BY <2>1, <3>1, <1>t
            DEF TrackInv, NumberOK, Track!TypeOK, Track!Known, Track!IsVersion
  <2>5. TracesOK'
    <3>1. number[r] > 0 BY <2>1, <1>t DEF Track!TypeOK
    <3>2. Track!schema_diff(r) \in docs \cup missed BY <2>1 DEF TrackInv, TracesOK
    <3>3. \A q \in Requests : q # r => tpc'[q] = tpc[q] /\ task'[q] = task[q]
      BY <2>1, <1>t DEF Track!TypeOK
    <3>4. tpc'[r] = "commit" /\ task'[r] = "running" BY <2>1, <1>t DEF Track!TypeOK
    <3> QED BY <2>1, <3>1, <3>2, <3>3, <3>4 DEF TrackInv, TracesOK
  <2>6. AttemptsOK'
    <3>1. tries[r] < Retries BY <2>1 DEF TrackInv, AttemptsOK
    <3> QED BY <2>1, <3>1, <1>t DEF TrackInv, AttemptsOK, Track!TypeOK
  <2> QED BY <2>2, <2>3, <2>4, <2>5, <2>6 DEF TrackInv
<1>5. CASE Track!Enqueue(r) \/ Track!Commit(r)
  <2>1. /\ \/ tpc[r] = "enqueue" /\ tpc' = [tpc EXCEPT ![r] = "event"]
           \/ tpc[r] = "commit" /\ tpc' = [tpc EXCEPT ![r] = "legacy"]
        /\ \/ UNCHANGED <<versions, open>> /\ (tpc[r] = "commit" => open # r)
           \/ open = r /\ versions' = Append(versions, print[r]) /\ open' = None
        /\ UNCHANGED <<print, number, docs, missed, task, tries, received, faults>>
    BY <1>5 DEF Track!Enqueue, Track!Commit, Track!CommitVersion
  <2>2. \A q \in Requests : q # r => tpc'[q] = tpc[q] BY <2>1, <1>t DEF Track!TypeOK
  <2>3. tpc'[r] \in {"event", "legacy"} /\ (tpc'[r] = "legacy" <=> tpc[r] = "commit")
    BY <2>1, <1>t DEF Track!TypeOK
  <2>4. TracesOK' BY <2>1, <2>2, <2>3 DEF TrackInv, TracesOK
  <2>5. AttemptsOK' BY <2>1 DEF TrackInv, AttemptsOK
  <2>6. CASE UNCHANGED <<versions, open>> /\ (tpc[r] = "commit" => open # r)
    <3>1. Track!TypeOK' BY <2>1, <2>6, <1>t DEF Track!TypeOK, Track!Steps
    <3>2. VersionsOK'
      BY <2>1, <2>6, <1>t DEF TrackInv, VersionsOK, Track!TypeOK, Inserted, Track!Known
    <3>k. tpc[r] = "commit" => Track!Known(print[r])
      <4> SUFFICES ASSUME tpc[r] = "commit", number[r] # 0 PROVE Track!Known(print[r])
        BY DEF TrackInv, NumberOK
      <4>1. number[r] > 0 BY <1>t DEF Track!TypeOK
      <4>2. Track!IsVersion(r) BY <4>1, <2>6 DEF TrackInv, NumberOK
      <4> QED BY <4>2 DEF Track!IsVersion, Track!Known
    <3>3. NumberOK'
      BY <2>1, <2>2, <2>3, <2>6, <3>k
      DEF TrackInv, NumberOK, Track!Known, Track!IsVersion
    <3> QED BY <3>1, <3>2, <3>3, <2>4, <2>5 DEF TrackInv
  <2>7. CASE open = r /\ versions' = Append(versions, print[r]) /\ open' = None
    <3>0. print[r] \in Fingerprints BY <1>t DEF Track!TypeOK
    <3>1. /\ versions' \in Seq(Fingerprints)
          /\ DOMAIN versions' = DOMAIN versions \cup {Len(versions) + 1}
          /\ Len(versions) + 1 \notin DOMAIN versions
          /\ \A i \in DOMAIN versions : versions'[i] = versions[i]
          /\ versions'[Len(versions) + 1] = print[r]
      BY <2>7, <3>0, <1>t, VersionsKept
    <3>2. Track!TypeOK' BY <2>1, <2>7, <3>1, <1>t DEF Track!TypeOK, Track!Steps
    <3>3. number[r] = Len(versions) + 1 /\ ~Track!Known(print[r])
      BY <2>7 DEF TrackInv, VersionsOK
    <3>4. VersionsOK' BY <3>1, <3>3, <2>7 DEF TrackInv, VersionsOK, Track!Known
    <3>5. \A q \in Requests : Track!Known(print[q]) => Track!Known(print[q])'
      BY <3>1, <2>1 DEF Track!Known
    <3>6. Track!Known(print[r])' BY <3>1, <2>1 DEF Track!Known
    <3>7. Track!IsVersion(r)' BY <3>1, <3>3, <2>1 DEF Track!IsVersion
    <3>8. \A q \in Requests : Track!IsVersion(q) => Track!IsVersion(q)'
      BY <3>1, <2>1 DEF Track!IsVersion
    <3>9. NumberOK'
      BY <2>1, <2>2, <2>3, <2>7, <3>5, <3>6, <3>7, <3>8 DEF TrackInv, NumberOK
    <3> QED BY <3>2, <3>4, <3>9, <2>4, <2>5 DEF TrackInv
  <2> QED BY <2>1, <2>6, <2>7
<1>6. CASE Track!Answer(r)
  <2>1. /\ tpc[r] = "legacy" /\ tpc' = [tpc EXCEPT ![r] = "done"]
        /\ UNCHANGED <<print, number, versions, open, docs, missed, task, tries, received,
                       faults>>
    BY <1>6 DEF Track!Answer
  <2>2. Track!TypeOK' BY <2>1, <1>t DEF Track!TypeOK, Track!Steps
  <2>3. VersionsOK' BY <2>1, <1>t DEF TrackInv, VersionsOK, Track!TypeOK, Inserted, Track!Known
  <2>4. NumberOK'
    BY <2>1, <1>t DEF TrackInv, NumberOK, Track!TypeOK, Track!Known, Track!IsVersion
  <2>5. TracesOK' BY <2>1, <1>t DEF TrackInv, TracesOK, Track!TypeOK
  <2>6. AttemptsOK' BY <2>1 DEF TrackInv, AttemptsOK
  <2> QED BY <2>2, <2>3, <2>4, <2>5, <2>6 DEF TrackInv
<1>7. CASE Track!FailTrack(r)
  <2>1. /\ tpc[r] \notin {"idle", "done", "failed"} /\ tpc' = [tpc EXCEPT ![r] = "failed"]
        /\ open' = IF open = r THEN None ELSE open
        /\ faults < MaxFaults /\ faults' = faults + 1
        /\ UNCHANGED <<print, number, versions, docs, missed, task, tries, received>>
    BY <1>7 DEF Track!FailTrack, Track!InTrack, Track!Ended, Track!Rollback
  <2>2. Track!TypeOK' BY <2>1, <1>t DEF Track!TypeOK, Track!Steps
  <2>3. VersionsOK' BY <2>1, <1>t DEF TrackInv, VersionsOK, Track!TypeOK, Inserted, Track!Known
  <2>4. NumberOK'
    BY <2>1, <1>t DEF TrackInv, NumberOK, Track!TypeOK, Track!Known, Track!IsVersion
  <2>5. TracesOK'
    <3>1. task[r] # "none" => number[r] > 0 BY DEF TrackInv, TracesOK
    <3> QED BY <2>1, <3>1, <1>t DEF TrackInv, TracesOK, Track!TypeOK
  <2>6. AttemptsOK' BY <2>1 DEF TrackInv, AttemptsOK
  <2> QED BY <2>2, <2>3, <2>4, <2>5, <2>6 DEF TrackInv
<1>8. CASE Track!Publish(r)
  <2>1. /\ task[r] = "running" /\ tries' = [tries EXCEPT ![r] = @ + 1]
        /\ \/ /\ task' = [task EXCEPT ![r] = "sent"]
              /\ received' = [received EXCEPT ![r] = @ + 1]
              /\ UNCHANGED faults
           \/ /\ faults < MaxFaults /\ faults' = faults + 1
              /\ task' = [task EXCEPT ![r] = IF tries'[r] = Retries THEN "counted" ELSE @]
              /\ received' \in {received, [received EXCEPT ![r] = @ + 1]}
        /\ UNCHANGED <<tpc, print, number, versions, open, docs, missed>>
    BY <1>8 DEF Track!Publish
  <2>2. /\ tries[r] \in 0..Retries /\ received[r] \in 0..Retries
        /\ tries[r] < Retries /\ received[r] <= tries[r]
        /\ tries'[r] = tries[r] + 1
    BY <2>1, <1>t DEF TrackInv, AttemptsOK, Track!TypeOK
  <2>t. /\ task \in [Requests -> Track!Tasks] /\ tries \in [Requests -> 0..Retries]
        /\ received \in [Requests -> 0..Retries] /\ faults \in 0..MaxFaults
    BY <1>t DEF Track!TypeOK
  <2>3. /\ task'[r] \in {"sent", "counted", "running"}
        /\ task'[r] = "running" => tries'[r] < Retries
        /\ received'[r] \in {received[r], received[r] + 1}
        /\ task'[r] = "sent" => received'[r] = received[r] + 1
        /\ faults' \in 0..MaxFaults
        /\ task' \in [Requests -> Track!Tasks]
        /\ \A q \in Requests : q # r => /\ task'[q] = task[q] /\ tries'[q] = tries[q]
                                        /\ received'[q] = received[q]
    <3>1. CASE /\ task' = [task EXCEPT ![r] = "sent"]
               /\ received' = [received EXCEPT ![r] = @ + 1]
               /\ UNCHANGED faults
      BY <3>1, <2>1, <2>2, <2>t DEF Track!Tasks
    <3>2. CASE /\ faults < MaxFaults /\ faults' = faults + 1
               /\ task' = [task EXCEPT ![r] = IF tries'[r] = Retries THEN "counted" ELSE @]
               /\ received' \in {received, [received EXCEPT ![r] = @ + 1]}
      <4>1. /\ task'[r] = (IF tries'[r] = Retries THEN "counted" ELSE "running")
            /\ task' \in [Requests -> Track!Tasks]
            /\ \A q \in Requests : q # r => task'[q] = task[q]
        BY <3>2, <2>1, <2>t DEF Track!Tasks
      <4>2. faults' \in 0..MaxFaults BY <3>2, <2>t
      <4>3. /\ received'[r] \in {received[r], received[r] + 1}
            /\ \A q \in Requests : q # r => received'[q] = received[q]
        BY <3>2, <2>t
      <4>4. \A q \in Requests : q # r => tries'[q] = tries[q] BY <2>1, <2>t
      <4>5. tries'[r] # Retries => tries'[r] < Retries BY <2>2
      <4> QED BY <4>1, <4>2, <4>3, <4>4, <4>5
    <3> QED BY <2>1, <3>1, <3>2
  <2>4. tries' \in [Requests -> 0..Retries] /\ received' \in [Requests -> 0..Retries]
    BY <2>1, <2>2, <1>t DEF Track!TypeOK
  <2>5. Track!TypeOK' BY <2>1, <2>3, <2>4, <1>t DEF Track!TypeOK
  <2>6. VersionsOK' BY <2>1 DEF TrackInv, VersionsOK, Track!Known
  <2>7. NumberOK' BY <2>1 DEF TrackInv, NumberOK, Track!Known, Track!IsVersion
  <2>8. TracesOK' BY <2>1, <2>3 DEF TrackInv, TracesOK
  <2>9. AttemptsOK' BY <2>2, <2>3 DEF TrackInv, AttemptsOK
  <2> QED BY <2>5, <2>6, <2>7, <2>8, <2>9 DEF TrackInv
<1> QED BY <1>1, <1>2, <1>3, <1>4, <1>5, <1>6, <1>7, <1>8 DEF Track!Handle
\* The runtime keeps its invariant: a restart rolls the uncommitted version
\* back and leaves what its request did outside the transaction.
THEOREM TrackInvariance == Track!Spec => []TrackInv
<1> USE IngestAssumption
<1>1. Track!Init => TrackInv
  <2> SUFFICES ASSUME Track!Init PROVE TrackInv
    OBVIOUS
  <2>v. versions \in Seq(Fingerprints) /\ Len(versions) <= 1
        /\ DOMAIN versions = 1..Len(versions)
    <3>1. CASE versions = <<>> BY <3>1
    <3>2. CASE \E f \in Fingerprints : versions = <<f>> BY <3>2
    <3> QED BY <3>1, <3>2 DEF Track!Init
  <2>1. Track!TypeOK BY <2>v DEF Track!Init, Track!TypeOK, Track!Steps, Track!Tasks
  <2>2. VersionsOK
    <3>1. \A i, j \in DOMAIN versions : i = j BY <2>v
    <3> QED BY <3>1 DEF Track!Init, VersionsOK
  <2>3. NumberOK BY DEF Track!Init, NumberOK
  <2>4. TracesOK BY DEF Track!Init, TracesOK
  <2>5. AttemptsOK
    <3>1. \A r \in Requests : task[r] = "none" /\ tries[r] = 0 /\ received[r] = 0
      BY DEF Track!Init
    <3>2. 0 <= 0 OBVIOUS
    <3> QED BY <3>1, <3>2, Zenon DEF AttemptsOK
  <2> QED BY <2>1, <2>2, <2>3, <2>4, <2>5 DEF TrackInv
<1>2. TrackInv /\ [Track!Next]_(Track!trackVars) => TrackInv'
  <2> SUFFICES ASSUME TrackInv, [Track!Next]_(Track!trackVars) PROVE TrackInv'
    OBVIOUS
  <2>t. Track!TypeOK BY DEF TrackInv
  <2>1. CASE Track!RestartRuntime
    <3>1. /\ faults < MaxFaults /\ faults' = faults + 1
          /\ open' = None
          /\ UNCHANGED <<print, number, versions, docs, missed, tries, received>>
      BY <2>1 DEF Track!RestartRuntime
    <3>2. /\ tpc' \in [Requests -> Track!Steps]
          /\ \A r \in Requests :
                tpc'[r] = IF tpc[r] \in {"idle", "done", "failed"} THEN tpc[r] ELSE "failed"
      BY <2>1, <2>t
      DEF Track!RestartRuntime, Track!InTrack, Track!Ended, Track!TypeOK, Track!Steps
    <3>3. /\ task' \in [Requests -> Track!Tasks]
          /\ \A r \in Requests :
                task'[r] = IF task[r] = "running" THEN "dropped" ELSE task[r]
      BY <2>1, <2>t DEF Track!RestartRuntime, Track!TypeOK, Track!Tasks
    <3>4. Track!TypeOK' BY <3>1, <3>2, <3>3, <2>t DEF Track!TypeOK
    <3>5. VersionsOK' BY <3>1 DEF TrackInv, VersionsOK
    <3>6. NumberOK'
      <4>1. \A r \in Requests : tpc[r] \in {"idle", "done"} /\ number[r] > 0
                                   => Track!IsVersion(r)
        <5>1. \A r \in Requests : tpc[r] = "idle" => ~(number[r] > 0)
          BY DEF TrackInv, NumberOK
        <5>2. \A r \in Requests : tpc[r] = "done" => open # r
          BY DEF TrackInv, NumberOK
        <5> QED BY <5>1, <5>2 DEF TrackInv, NumberOK
      <4> QED BY <3>1, <3>2, <4>1 DEF TrackInv, NumberOK, Track!Known, Track!IsVersion
    <3>7. TracesOK' BY <3>1, <3>2, <3>3 DEF TrackInv, TracesOK
    <3>8. AttemptsOK' BY <3>1, <3>3 DEF TrackInv, AttemptsOK
    <3> QED BY <3>4, <3>5, <3>6, <3>7, <3>8 DEF TrackInv
  <2>2. CASE UNCHANGED Track!trackVars
    <3> USE <2>2 DEF Track!trackVars
    <3>1. Track!TypeOK' BY <2>t DEF Track!TypeOK
    <3>2. VersionsOK' BY DEF TrackInv, VersionsOK, Track!Known
    <3>3. NumberOK' BY DEF TrackInv, NumberOK, Track!Known, Track!IsVersion
    <3>4. TracesOK' BY DEF TrackInv, TracesOK
    <3>5. AttemptsOK' BY DEF TrackInv, AttemptsOK
    <3> QED BY <3>1, <3>2, <3>3, <3>4, <3>5 DEF TrackInv
  <2> QED BY <2>1, <2>2, TrackStep DEF Track!Next
<1> QED BY <1>1, <1>2, PTL DEF Track!Spec

-----------------------------------------------------------------------------
\* Gateway and runtime together implement the gateway, whose forward resolves
\* when the runtime has answered (forward.ts), ...
THEOREM ImplementsGateway == IngestSpec => Spec
<1>1. IngestInit => Init BY DEF IngestInit
<1>2. [IngestNext]_<<vars, trackVars>> => [Next]_vars
  BY DEF IngestNext, Next, Forward, Taken
<1> QED BY <1>1, <1>2, PTL DEF IngestSpec, Spec

\* ... and the runtime's side of POST /track, of the requests forwarded.
THEOREM ImplementsTrack == IngestSpec => Track!Spec
<1>1. IngestInit => Track!Init BY DEF IngestInit
<1>2. [IngestNext]_<<vars, trackVars>> => [Track!Next]_(Track!trackVars)
  BY DEF IngestNext, Forward, Taken, Track!Next, trackVars, Track!trackVars
<1> QED BY <1>1, <1>2, PTL DEF IngestSpec, Track!Spec

\* The invariant of both processes, with what links them.
THEOREM IngestInvariance == IngestSpec => []IngestInv
<1>1. IngestInit => LinkOK BY DEF IngestInit, Init, LinkOK
<1>2. GatewayInv /\ TrackInv /\ LinkOK /\ [IngestNext]_<<vars, trackVars>> => LinkOK'
  <2> SUFFICES ASSUME GatewayInv, TrackInv, LinkOK, [IngestNext]_<<vars, trackVars>>
               PROVE  LinkOK'
    OBVIOUS
  <2>t. taken \subseteq Requests BY DEF GatewayInv, TypeOK
  <2>1. UNCHANGED <<input, print>>
    BY DEF IngestNext, Forward, Taken, vars, trackVars, Receive, RuntimeTakes,
           ForwardResolves, ForwardRejects, Restart, Track!Arrive, Track!Answer,
           Track!Handle, Track!Register, Track!StoreDiff, Track!Enqueue, Track!EmitEvent,
           Track!Commit, Track!FailTrack, Track!Publish, Track!RestartRuntime
  <2>2. \A r \in Requests : tpc[r] = "done" => tpc'[r] = "done"
    BY DEF TrackInv, Track!TypeOK, IngestNext, Forward, Taken, trackVars,
           Track!Step, Track!Arrive, Track!Answer,
           Track!Handle, Track!Register, Track!StoreDiff, Track!Enqueue, Track!EmitEvent,
           Track!Commit, Track!FailTrack, Track!InTrack, Track!Ended, Track!Publish,
           Track!RestartRuntime
  <2>3. \A r \in taken' : r \in taken \/ (r \in Requests /\ tpc'[r] = "done")
    BY DEF IngestNext, Forward, Taken, vars, Receive, RuntimeTakes, ForwardResolves,
           ForwardRejects, Restart, Track!Answer, Track!Step, TrackInv, Track!TypeOK
  <2>4. \A r \in taken' : tpc'[r] = "done" BY <2>t, <2>2, <2>3 DEF LinkOK
  <2> QED BY <2>1, <2>4 DEF LinkOK, key
<1> QED BY <1>1, <1>2, GatewayInvariance, TrackInvariance, ImplementsGateway,
           ImplementsTrack, PTL DEF IngestSpec, IngestInv
-----------------------------------------------------------------------------
\* The variables of both processes always have their types.
THEOREM IngestTypeCorrect == IngestSpec => []IngestTypeOK
<1>1. IngestInv => IngestTypeOK BY DEF IngestInv, GatewayInv, TrackInv, IngestTypeOK
<1> QED BY <1>1, IngestInvariance, PTL

\* Two deliveries of one key are both accepted only if they were in flight
\* together or the gateway restarted between them (server.ts:99, 126-128).
THEOREM AcceptedTwiceCorrect == IngestSpec => []AcceptedTwiceOnlyInOverlap
<1>1. GatewayInv => AcceptedTwiceOnlyInOverlap
  BY DEF GatewayInv, OverlapOK, AcceptedTwiceOnlyInOverlap
<1> QED BY <1>1, ImplementsGateway, GatewayInvariance, PTL

\* A duplicate that is refused is one of an accepted delivery, and whatever is
\* answered 202 or refused with 409 has its payload registered at the runtime
\* (server.ts:99-104, 126-128; main.py:113).
THEOREM AnsweredIsRegisteredCorrect == IngestSpec => []AnsweredIsRegistered
<1>1. IngestInv => AnsweredIsRegistered
  <2> SUFFICES ASSUME IngestInv PROVE AnsweredIsRegistered
    OBVIOUS
  <2>1. DuplicateWasAccepted BY DEF IngestInv, GatewayInv, StoreOK
  <2>2. \A q \in taken : q \in Requests /\ Track!Known(print[q])
    BY DEF IngestInv, GatewayInv, TypeOK, LinkOK, TrackInv, NumberOK
  <2>3. \A r \in Requests : state[r] = "202" => Track!Known(print[r])
    BY <2>2 DEF IngestInv, GatewayInv, StoreOK
  <2>4. \A r \in Requests : state[r] = "409" => Track!Known(print[r])
    <3> SUFFICES ASSUME NEW r \in Requests, state[r] = "409" PROVE Track!Known(print[r])
      OBVIOUS
    <3>1. PICK q \in taken : key(q) = key(r) BY <2>1 DEF DuplicateWasAccepted
    <3>2. print[q] = print[r] BY <3>1, <2>2 DEF IngestInv, LinkOK
    <3> QED BY <3>2, <2>2
  <2> QED BY <2>1, <2>3, <2>4 DEF AnsweredIsRegistered
<1> QED BY <1>1, IngestInvariance, PTL

\* A drift event or diff document whose request is answered names a version
\* that exists, with its fingerprint (service.py:202-261, main.py:113).
THEOREM TracesCorrect == IngestSpec => []TracesNameVersions
<1>1. TrackInv => TracesNameVersions
  <2> SUFFICES ASSUME TrackInv, NEW r \in Requests,
                      task[r] # "none" \/ Track!schema_diff(r) \in docs,
                      ~Track!IsVersion(r)
               PROVE  tpc[r] \in {"enqueue", "event", "commit", "failed"}
    BY DEF TracesNameVersions, Track!TracesNameVersions
  <2>1. number[r] > 0 /\ tpc[r] \notin {"idle", "register", "diff_doc"}
    BY DEF TrackInv, TracesOK
  <2>2. tpc[r] \notin {"legacy", "done"} BY <2>1 DEF TrackInv, NumberOK
  <2>3. tpc[r] \in Track!Steps BY DEF TrackInv, Track!TypeOK
  <2> QED BY <2>1, <2>2, <2>3 DEF Track!Steps
<1> QED BY <1>1, ImplementsTrack, TrackInvariance, PTL

\* Two requests announce the same change only if one of them failed: numbers
\* of living requests differ, and so do the schemas of different numbers
\* (service.py:236-261).
THEOREM AnnouncedOnceCorrect == IngestSpec => []AnnouncedOnce
<1>1. TrackInv => AnnouncedOnce
  <2> SUFFICES ASSUME TrackInv, NEW r \in Requests, NEW q \in Requests, r # q,
                      print[r] = print[q], task[r] # "none", task[q] # "none",
                      tpc[r] # "failed", tpc[q] # "failed"
               PROVE  FALSE
    BY DEF AnnouncedOnce, Track!AnnouncedOnce
  <2>1. number[r] > 0 /\ number[q] > 0 BY DEF TrackInv, TracesOK
  <2>2. number[r] # number[q] BY <2>1 DEF TrackInv, NumberOK
  <2>3. /\ open = r \/ Track!IsVersion(r)
        /\ open = q \/ Track!IsVersion(q)
    BY <2>1 DEF TrackInv, NumberOK
  <2>4. \A x \in Requests : open = x => ~Track!Known(print[x])
    BY IngestAssumption DEF TrackInv, VersionsOK
  <2>5. \A x \in Requests : Track!IsVersion(x) => Track!Known(print[x])
    BY DEF Track!IsVersion, Track!Known
  <2>6. Track!IsVersion(r) /\ Track!IsVersion(q) BY <2>3, <2>4, <2>5
  <2> QED BY <2>2, <2>6 DEF Track!IsVersion, TrackInv, VersionsOK
<1> QED BY <1>1, ImplementsTrack, TrackInvariance, PTL

\* An answered drift has its diff document or a logged error, and an event that
\* reached the broker, is under way, was counted, or was cut off by a restart
\* (document_store.py, events.py:21-44).
THEOREM AnsweredIsTracedCorrect == IngestSpec => []AnsweredIsTraced
<1>1. TrackInv => AnsweredIsTraced
  <2> SUFFICES ASSUME TrackInv, NEW r \in Requests, tpc[r] = "done", number[r] > 1
               PROVE  /\ Track!schema_diff(r) \in docs \cup missed
                      /\ \/ received[r] > 0
                         \/ task[r] \in {"running", "counted", "dropped"}
    BY DEF AnsweredIsTraced, Track!AnsweredIsTraced
  <2>1. Track!schema_diff(r) \in docs \cup missed /\ task[r] # "none"
    BY DEF TrackInv, TracesOK
  <2>2. task[r] \in Track!Tasks BY DEF TrackInv, Track!TypeOK
  <2>3. task[r] = "sent" => received[r] > 0 BY DEF TrackInv, AttemptsOK
  <2> QED BY <2>1, <2>2, <2>3 DEF Track!Tasks
<1> QED BY <1>1, ImplementsTrack, TrackInvariance, PTL
=============================================================================
