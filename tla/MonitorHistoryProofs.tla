------------------------ MODULE MonitorHistoryProofs ------------------------
(***************************************************************************)
(* Proofs about MonitorHistory, for any number of endpoints, schemas and   *)
(* runs and any retention.                                                 *)
(*                                                                         *)
(* The argument: while a run is under way nothing is committed, so the     *)
(* newest row that a task compared its snapshot with is still the newest   *)
(* one when the commit of the run puts the snapshot after it.              *)
(***************************************************************************)
EXTENDS MonitorHistory, WellFoundedInduction, TLAPS

RowType == [hash: Hashes, raw: BOOLEAN, base: 0..MaxRuns,
            status: {"success", "partial_failure"}]

\* A run adds at most one snapshot to each endpoint.
LengthOK ==
    \A e \in Endpoints : /\ Len(history[e]) <= runs
                         /\ running => Len(history[e]) < runs

\* What a task has added stays in the session, whether its flush raised or not,
\* until the commit writes it.
SessionOK ==
    \A e \in Endpoints : pc[e] \notin {"off", "fetch"} => Snapshot(e) \in added \cup flushed

\* Between runs no task is anywhere.
IdleOK == ~running => \A e \in Endpoints : pc[e] = "off"

\* A task that is through has looked at its drift.
DriftOK ==
    \A e \in Endpoints :
       /\ pc[e] \in {"last_flush", "done"}
       /\ hash[e] \in Schemas
       /\ Len(history[e]) > 0
       /\ history[e][Len(history[e])].hash \in Schemas \ {hash[e]}
       => base[e] = Len(history[e])

\* The inductive invariant.
IInv ==
    /\ TypeOK /\ LengthOK /\ IdleOK /\ SessionOK /\ DriftOK
    /\ SuccessReportsDrift /\ RawSamplesBounded
-----------------------------------------------------------------------------
\* The state of the tables is empty, and no task runs.
LEMMA InitIInv == ASSUME Init PROVE IInv
<1> USE HistoryAssumption DEF Init
<1>h. \A e \in Endpoints : history[e] = <<>> /\ Len(history[e]) = 0 OBVIOUS
<1>1. TypeOK
  <2>1. \A e \in Endpoints : history[e] \in Seq([hash: Hashes, raw: BOOLEAN, base: 0..MaxRuns,
                                                status: {"success", "partial_failure"}])
    <3>1. \A S : <<>> \in Seq(S) OBVIOUS
    <3> QED BY <1>h, <3>1, Zenon
  <2>2. /\ runs \in 0..MaxRuns /\ base \in [Endpoints -> 0..MaxRuns]
    OBVIOUS
  <2>4. running \in BOOLEAN OBVIOUS
  <2>3. /\ pc \in [Endpoints -> PCs] /\ hash \in [Endpoints -> Hashes]
        /\ added \cup flushed \subseteq Endpoints \X {"snapshot", "diffs"}
        /\ batch \subseteq added /\ flushing \in Endpoints \cup {None}
        /\ \A e \in Endpoints : flushing = e <=> pc[e] \in {"flush", "last_flush"}
    BY DEF PCs, Hashes, NoSchema
  <2> QED BY <2>1, <2>2, <2>3, <2>4 DEF TypeOK
<1>2. LengthOK
  <2>1. runs = 0 /\ ~running OBVIOUS
  <2>z. 0 <= 0 OBVIOUS
  <2>2. \A e \in Endpoints : Len(history[e]) <= runs BY <1>h, <2>1, <2>z, Zenon
  <2> QED BY <2>1, <2>2, Zenon DEF LengthOK
<1>3. SessionOK /\ DriftOK /\ IdleOK BY DEF SessionOK, DriftOK, IdleOK
<1>4. SuccessReportsDrift /\ RawSamplesBounded
  BY DEF SuccessReportsDrift, RawSamplesBounded, Rows
<1> QED BY <1>1, <1>2, <1>3, <1>4 DEF IInv

\* What is said of committed rows depends on nothing else.
LEMMA HistoryKept ==
    ASSUME IInv, history' = history
    PROVE  SuccessReportsDrift' /\ RawSamplesBounded'
<1>1. SuccessReportsDrift' BY DEF IInv, SuccessReportsDrift, Rows
<1>2. RawSamplesBounded' BY DEF IInv, RawSamplesBounded, Rows
<1> QED BY <1>1, <1>2

\* The end of a run, by its commit or by an exception, closes the session.
LEMMA RunEnds ==
    ASSUME EndRun
    PROVE  SessionOK' /\ DriftOK' /\ IdleOK'
  BY DEF EndRun, SessionOK, DriftOK, IdleOK

\* The types after that, but for the committed rows.
LEMMA EndRunTypes ==
    ASSUME TypeOK, EndRun, UNCHANGED runs,
           \A e \in Endpoints : history'[e] \in Seq(RowType)
    PROVE  TypeOK'
<1>1. /\ base' \in [Endpoints -> 0..MaxRuns] /\ runs' \in 0..MaxRuns
  BY HistoryAssumption DEF EndRun, TypeOK
<1>2. /\ pc' \in [Endpoints -> PCs] /\ hash' \in [Endpoints -> Hashes]
      /\ added' \cup flushed' \subseteq Endpoints \X {"snapshot", "diffs"}
      /\ batch' \subseteq added' /\ flushing' \in Endpoints \cup {None}
      /\ \A e \in Endpoints : flushing' = e <=> pc'[e] \in {"flush", "last_flush"}
  BY HistoryAssumption DEF EndRun, PCs, Hashes, NoSchema
<1>3. running' \in BOOLEAN BY DEF EndRun
<1> QED BY <1>1, <1>2, <1>3 DEF TypeOK, RowType

\* The flush of one task moves that task on, or makes it raise.
LEMMA FlushEffect ==
    ASSUME TypeOK, NEW e \in Endpoints, NEW during \in {"flush", "last_flush"},
           NEW after \in PCs \ {"flush", "last_flush"},
           pc[e] \in {"fetch", "lookup"}, added \subseteq added',
           Flush(e, during, after)
    PROVE  /\ pc' \in [Endpoints -> PCs]
           /\ \A d \in Endpoints : d # e => pc'[d] = pc[d]
           /\ pc'[e] \in {"raised", after, during}
           /\ batch' \subseteq added' /\ flushing' \in Endpoints \cup {None}
           /\ \A d \in Endpoints : flushing' = d <=> pc'[d] \in {"flush", "last_flush"}
<1> USE HistoryAssumption
<1>1. pc \in [Endpoints -> PCs] /\ batch \subseteq added
      /\ flushing \in Endpoints \cup {None}
      /\ \A d \in Endpoints : flushing = d <=> pc[d] \in {"flush", "last_flush"}
  BY DEF TypeOK
<1>2. flushing # e BY <1>1
<1>3. CASE flushing # None /\ pc' = [pc EXCEPT ![e] = "raised"] /\ UNCHANGED <<flushing, batch>>
  BY <1>1, <1>2, <1>3 DEF PCs
<1>4. CASE flushing = None /\ pc' = [pc EXCEPT ![e] = after] /\ UNCHANGED <<flushing, batch>>
  BY <1>1, <1>2, <1>4
<1>5. CASE /\ flushing = None /\ pc' = [pc EXCEPT ![e] = during]
           /\ flushing' = e /\ batch' = added'
  BY <1>1, <1>2, <1>5 DEF PCs
<1> QED BY <1>3, <1>4, <1>5 DEF Flush
\* Every step but the commit keeps the invariant: the committed rows stay.
LEMMA TaskStepKeeps ==
    ASSUME IInv,
           \/ StartRun \/ RunFails
           \/ \E e \in Endpoints : Fetched(e) \/ FlushEnds(e) \/ Lookup(e)
    PROVE  IInv'
<1> USE HistoryAssumption
<1>t. TypeOK BY DEF IInv
<1>h. /\ history' = history
      /\ SuccessReportsDrift' /\ RawSamplesBounded'
  BY HistoryKept DEF StartRun, RunFails, Fetched, FlushEnds, Lookup
<1>r. runs \in 0..MaxRuns BY <1>t DEF TypeOK
<1>l. \A e \in Endpoints : Len(history[e]) \in Nat /\ Len(history[e]) <= MaxRuns
  <2> SUFFICES ASSUME NEW e \in Endpoints
               PROVE  Len(history[e]) \in Nat /\ Len(history[e]) <= MaxRuns
    OBVIOUS
  <2>1. history[e] \in Seq(RowType) BY <1>t DEF TypeOK, RowType
  <2>2. Len(history[e]) \in Nat BY <2>1
  <2>3. Len(history[e]) <= runs BY DEF IInv, LengthOK
  <2> QED BY <2>2, <2>3, <1>r
<1>1. CASE StartRun
  <2>1. /\ ~running /\ runs < MaxRuns /\ runs' = runs + 1 /\ running' = TRUE
        /\ pc' \in [Endpoints -> {"fetch", "off"}]
        /\ UNCHANGED <<history, hash, base, added, flushed, flushing, batch>>
    BY <1>1 DEF StartRun
  <2>2. \A e \in Endpoints : pc'[e] \in {"fetch", "off"} BY <2>1
  <2>3. TypeOK'
    <3>1. runs' \in 0..MaxRuns BY <2>1, <1>r
    <3>2. pc' \in [Endpoints -> PCs] BY <2>1 DEF PCs
    <3>3. \A e \in Endpoints : flushing' = e <=> pc'[e] \in {"flush", "last_flush"}
      <4>1. flushing \notin Endpoints
        <5>1. \A e \in Endpoints : pc[e] = "off" BY <2>1 DEF IInv, IdleOK
        <5> QED BY <5>1, <1>t DEF TypeOK
      <4> QED BY <2>1, <2>2, <4>1
    <3> QED BY <1>t, <2>1, <3>1, <3>2, <3>3 DEF TypeOK
  <2>4. LengthOK' BY <1>l, <1>r, <2>1 DEF IInv, LengthOK
  <2>5. SessionOK' /\ DriftOK' BY <2>2 DEF SessionOK, DriftOK
  <2>6. IdleOK' BY <2>1 DEF IdleOK
  <2> QED BY <1>h, <2>3, <2>4, <2>5, <2>6 DEF IInv
<1>2. CASE RunFails
  <2>1. EndRun /\ UNCHANGED <<history, runs>> BY <1>2 DEF RunFails
  <2>2. TypeOK' BY <1>t, <2>1, EndRunTypes DEF TypeOK, RowType
  <2>3. LengthOK' BY <2>1 DEF IInv, LengthOK, EndRun
  <2> QED BY <1>h, <2>1, <2>2, <2>3, RunEnds DEF IInv
<1>3. ASSUME NEW e \in Endpoints, Fetched(e) PROVE IInv'
  <2>1. PICK h \in Hashes : hash' = [hash EXCEPT ![e] = h] BY <1>3 DEF Fetched
  <2>2. /\ pc[e] = "fetch" /\ added' = added \cup {Snapshot(e)}
        /\ Flush(e, "flush", "lookup")
        /\ UNCHANGED <<history, runs, running, base, flushed>>
    BY <1>3 DEF Fetched
  <2>3. /\ pc' \in [Endpoints -> PCs]
        /\ \A d \in Endpoints : d # e => pc'[d] = pc[d]
        /\ pc'[e] \in {"raised", "lookup", "flush"}
        /\ batch' \subseteq added' /\ flushing' \in Endpoints \cup {None}
        /\ \A d \in Endpoints : flushing' = d <=> pc'[d] \in {"flush", "last_flush"}
    BY <1>t, <2>2, FlushEffect DEF PCs
  <2>4. \A d \in Endpoints : d # e => hash'[d] = hash[d] BY <2>1, <1>t DEF TypeOK
  <2>5. TypeOK'
    <3>1. hash' \in [Endpoints -> Hashes] BY <2>1, <1>t DEF TypeOK
    <3>2. added' \cup flushed' \subseteq Endpoints \X {"snapshot", "diffs"}
      BY <2>2, <1>t DEF TypeOK, Snapshot
    <3> QED BY <1>t, <2>2, <2>3, <3>1, <3>2 DEF TypeOK
  <2>6. LengthOK' BY <2>2 DEF IInv, LengthOK
  <2>7. IdleOK' BY <2>2 DEF IInv, IdleOK
  <2>8. SessionOK' BY <2>2, <2>3 DEF IInv, SessionOK
  <2>9. DriftOK' BY <2>2, <2>3, <2>4 DEF IInv, DriftOK
  <2> QED BY <1>h, <2>5, <2>6, <2>7, <2>8, <2>9 DEF IInv
<1>4. ASSUME NEW e \in Endpoints, FlushEnds(e) PROVE IInv'
  <2>1. /\ flushing = e /\ flushing' = None /\ added' = added \ batch
        /\ flushed' = flushed \cup batch /\ batch' = {}
        /\ UNCHANGED <<history, runs, running, hash, base>>
        /\ pc' = [pc EXCEPT ![e] = IF @ = "flush" /\ hash[e] \in Schemas
                                   THEN "lookup" ELSE "done"]
    BY <1>4 DEF FlushEnds
  <2>2. /\ \A d \in Endpoints : d # e => pc'[d] = pc[d] /\ pc[d] \notin {"flush", "last_flush"}
        /\ \/ pc[e] = "flush" /\ pc'[e] = "lookup"
           \/ pc[e] = "flush" /\ pc'[e] = "done" /\ hash[e] \notin Schemas
           \/ pc[e] = "last_flush" /\ pc'[e] = "done"
    BY <2>1, <1>t DEF TypeOK
  <2>3. TypeOK'
    <3>1. pc' \in [Endpoints -> PCs] BY <2>1, <1>t DEF TypeOK, PCs
    <3>2. \A d \in Endpoints : flushing' = d <=> pc'[d] \in {"flush", "last_flush"}
      BY <2>1, <2>2
    <3>3. /\ added' \cup flushed' \subseteq Endpoints \X {"snapshot", "diffs"}
          /\ batch' \subseteq added'
      BY <2>1, <1>t DEF TypeOK
    <3> QED BY <1>t, <2>1, <3>1, <3>2, <3>3 DEF TypeOK
  <2>4. LengthOK' BY <2>1 DEF IInv, LengthOK
  <2>5. IdleOK' BY <2>1, <2>2 DEF IInv, IdleOK
  <2>6. SessionOK' BY <2>1, <2>2 DEF IInv, SessionOK
  <2>7. DriftOK' BY <2>1, <2>2 DEF IInv, DriftOK
  <2> QED BY <1>h, <2>3, <2>4, <2>5, <2>6, <2>7 DEF IInv
<1>5. ASSUME NEW e \in Endpoints, Lookup(e) PROVE IInv'
  <2> DEFINE p == Len(history[e])
             drift == p > 0 /\ history[e][p].hash \in Schemas \ {hash[e]}
  <2>1. /\ pc[e] = "lookup" /\ base' = [base EXCEPT ![e] = IF drift THEN p ELSE 0]
        /\ added' \in {added, added \cup {Diffs(e)}}
        /\ Flush(e, "last_flush", "done")
        /\ UNCHANGED <<history, runs, running, hash, flushed>>
    BY <1>5 DEF Lookup, Prior
  <2>2. p \in 0..MaxRuns BY <1>l
  <2>3. /\ \A d \in Endpoints : d # e => base'[d] = base[d]
        /\ drift => base'[e] = p
        /\ ~drift => base'[e] = 0
    BY <2>1, <1>t DEF TypeOK
  <2>4. /\ pc' \in [Endpoints -> PCs]
        /\ \A d \in Endpoints : d # e => pc'[d] = pc[d]
        /\ pc'[e] \in {"raised", "done", "last_flush"}
        /\ batch' \subseteq added' /\ flushing' \in Endpoints \cup {None}
        /\ \A d \in Endpoints : flushing' = d <=> pc'[d] \in {"flush", "last_flush"}
    BY <1>t, <2>1, FlushEffect DEF PCs
  <2>5. TypeOK'
    <3>1. base' \in [Endpoints -> 0..MaxRuns] BY <2>1, <2>2, <1>t DEF TypeOK
    <3>2. added' \cup flushed' \subseteq Endpoints \X {"snapshot", "diffs"}
      BY <2>1, <1>t DEF TypeOK, Diffs
    <3> QED BY <1>t, <2>1, <2>4, <3>1, <3>2 DEF TypeOK
  <2>6. LengthOK' BY <2>1 DEF IInv, LengthOK
  <2>7. IdleOK' BY <2>1 DEF IInv, IdleOK
  <2>8. SessionOK' BY <2>1, <2>4 DEF IInv, SessionOK
  <2>9. DriftOK' BY <2>1, <2>3, <2>4 DEF IInv, DriftOK
  <2> QED BY <1>h, <2>5, <2>6, <2>7, <2>8, <2>9 DEF IInv
<1> QED BY <1>1, <1>2, <1>3, <1>4, <1>5
-----------------------------------------------------------------------------
\* _retention_sweep takes away raw samples beyond the Keep newest rows that the
\* transaction sees, and changes nothing else of a row.
LEMMA SweptEffect ==
    ASSUME TypeOK, NEW e \in Endpoints
    PROVE  /\ Swept(e) \in Seq(RowType)
           /\ Len(Swept(e)) = Len(history[e])
           /\ \A i \in Rows(e) : /\ Swept(e)[i].hash = history[e][i].hash
                                 /\ Swept(e)[i].base = history[e][i].base
                                 /\ Swept(e)[i].status = history[e][i].status
                                 /\ Swept(e)[i].raw => i + Keep > Len(history[e])
<1> USE HistoryAssumption
<1> DEFINE n == Len(history[e])
           seen == n + (IF Snapshot(e) \in flushed THEN 1 ELSE 0)
           row(i) == [history[e][i] EXCEPT !.raw = @ /\ i + Keep > seen]
<1>1. history[e] \in Seq(RowType) BY DEF TypeOK, RowType
<1>2. n \in Nat BY <1>1
<1>3. seen \in Nat /\ seen >= n
  <2> HIDE DEF n
  <2>1. CASE Snapshot(e) \in flushed
    <3>1. seen = n + 1 BY <2>1
    <3> QED BY <3>1, <1>2
  <2>2. CASE Snapshot(e) \notin flushed
    <3>1. seen = n + 0 BY <2>2
    <3> QED BY <3>1, <1>2
  <2> QED BY <2>1, <2>2
<1>4. \A i \in 1..n : history[e][i] \in RowType BY <1>1
<1>5. Swept(e) = [i \in 1..n |-> row(i)] BY DEF Swept
<1>6. ASSUME NEW i \in 1..n
      PROVE  /\ row(i) \in RowType /\ row(i).hash = history[e][i].hash
             /\ row(i).base = history[e][i].base /\ row(i).status = history[e][i].status
             /\ row(i).raw => i + Keep > seen
  <2>1. history[e][i] \in RowType BY <1>4
  <2> HIDE DEF seen
  <2>2. (history[e][i].raw /\ i + Keep > seen) \in BOOLEAN OBVIOUS
  <2> QED BY <2>1, <2>2 DEF RowType
<1> HIDE DEF row
<1>7. Swept(e) \in Seq(RowType) /\ Len(Swept(e)) = n
  <2> HIDE DEF n
  <2>1. \A i \in 1..n : row(i) \in RowType BY <1>6
  <2>2. Swept(e) \in [1..n -> RowType] BY <2>1, <1>5
  <2> QED BY <2>2, <1>2
<1>8. \A i \in 1..n : Swept(e)[i] = row(i) BY <1>5
<1>9. ASSUME NEW i \in 1..n, row(i).raw PROVE i + Keep > n
  <2>1. i + Keep > seen BY <1>6, <1>9
  <2> HIDE DEF seen, n
  <2> QED BY <2>1, <1>2, <1>3
<1> QED BY <1>6, <1>7, <1>8, <1>9 DEF Rows

\* The commit of a run: the rows of an endpoint are swept, and the snapshot of
\* its task, if it had one, comes after them.
LEMMA CommitEffect ==
    ASSUME IInv, FinishRun, NEW e \in Endpoints
    PROVE  LET n == Len(history[e]) IN
           /\ history'[e] \in Seq(RowType) /\ n \in Nat
           /\ \A i \in 1..n : /\ history'[e][i].hash = history[e][i].hash
                              /\ history'[e][i].base = history[e][i].base
                              /\ history'[e][i].status = history[e][i].status
                              /\ history'[e][i].raw => i + Keep > n
           /\ \/ Len(history'[e]) = n
              \/ /\ Len(history'[e]) = n + 1 /\ pc[e] \in {"done", "raised"}
                 /\ history'[e][n + 1] = NewRow(e)
<1> DEFINE n == Len(history[e])
<1>t. TypeOK BY DEF IInv
<1>1. /\ Swept(e) \in Seq(RowType) /\ Len(Swept(e)) = n
      /\ \A i \in 1..n : /\ Swept(e)[i].hash = history[e][i].hash
                         /\ Swept(e)[i].base = history[e][i].base
                         /\ Swept(e)[i].status = history[e][i].status
                         /\ Swept(e)[i].raw => i + Keep > n
  BY <1>t, SweptEffect DEF Rows
<1>2. n \in Nat BY <1>1
<1>3. history'[e] = IF pc[e] = "off" THEN Swept(e) ELSE Append(Swept(e), NewRow(e))
  BY DEF FinishRun
<1>4. pc[e] \in {"off", "done", "raised"} BY DEF FinishRun, Gathered
<1>5. NewRow(e) \in RowType
  <2>1. Status \in {"success", "partial_failure"} BY DEF Status
  <2>2. hash[e] \in Hashes /\ base[e] \in 0..MaxRuns BY <1>t DEF TypeOK
  <2>3. (hash[e] \in Schemas) \in BOOLEAN OBVIOUS
  <2> QED BY <2>1, <2>2, <2>3 DEF NewRow, RowType
<1> HIDE DEF n
<1>6. CASE pc[e] = "off" BY <1>1, <1>2, <1>3, <1>6 DEF n
<1>7. CASE pc[e] # "off"
  <2>1. history'[e] = Append(Swept(e), NewRow(e)) BY <1>3, <1>7
  <2>2. /\ history'[e] \in Seq(RowType) /\ Len(history'[e]) = n + 1
        /\ \A i \in 1..n : history'[e][i] = Swept(e)[i]
        /\ history'[e][n + 1] = NewRow(e)
    BY <2>1, <1>1, <1>2, <1>5
  <2> QED BY <2>2, <1>1, <1>2, <1>4, <1>7 DEF n
<1> QED BY <1>6, <1>7

\* The commit keeps the invariant.
LEMMA FinishRunKeeps == ASSUME IInv, FinishRun PROVE IInv'
<1> USE HistoryAssumption
<1>t. TypeOK BY DEF IInv
<1>1. EndRun /\ UNCHANGED runs /\ running BY DEF FinishRun
<1>2. TypeOK'
  <2>1. \A e \in Endpoints : history'[e] \in Seq(RowType) BY CommitEffect
  <2> QED BY <1>t, <1>1, <2>1, EndRunTypes
<1>3. LengthOK'
  <2> SUFFICES ASSUME NEW e \in Endpoints PROVE Len(history'[e]) <= runs
    BY <1>1 DEF LengthOK, EndRun
  <2>1. runs \in Nat BY <1>t DEF TypeOK
  <2>2. Len(history[e]) < runs BY <1>1 DEF IInv, LengthOK
  <2>3. /\ Len(history[e]) \in Nat
        /\ Len(history'[e]) \in {Len(history[e]), Len(history[e]) + 1}
    BY CommitEffect
  <2> QED BY <2>1, <2>2, <2>3
<1>4. SessionOK' /\ DriftOK' /\ IdleOK' BY <1>1, RunEnds
<1>5. SuccessReportsDrift'
  <2> SUFFICES ASSUME NEW e \in Endpoints, NEW i \in 1..Len(history'[e]),
                      history'[e][i].status = "success"
               PROVE  /\ history'[e][i].hash # "FETCH_ERROR:error"
                      /\ /\ i > 1
                         /\ history'[e][i].hash \in Schemas
                         /\ history'[e][i - 1].hash \in Schemas \ {history'[e][i].hash}
                         => history'[e][i].base = i - 1
    BY DEF SuccessReportsDrift, Rows
  <2> DEFINE n == Len(history[e])
  <2>1. /\ n \in Nat
        /\ \A j \in 1..n : /\ history'[e][j].hash = history[e][j].hash
                           /\ history'[e][j].base = history[e][j].base
                           /\ history'[e][j].status = history[e][j].status
        /\ \/ Len(history'[e]) = n
           \/ /\ Len(history'[e]) = n + 1 /\ pc[e] \in {"done", "raised"}
              /\ history'[e][n + 1] = NewRow(e)
    BY CommitEffect
  <2>2. CASE i \in 1..n
    <3>1. history[e][i].status = "success" BY <2>1, <2>2
    <3>2. /\ history[e][i].hash # "FETCH_ERROR:error"
          /\ /\ i > 1
             /\ history[e][i].hash \in Schemas
             /\ history[e][i - 1].hash \in Schemas \ {history[e][i].hash}
             => history[e][i].base = i - 1
      BY <2>2, <3>1 DEF IInv, SuccessReportsDrift, Rows
    <3>3. i > 1 => i - 1 \in 1..n BY <2>1, <2>2
    <3> QED BY <2>1, <2>2, <3>2, <3>3
  <2>3. CASE i = n + 1 /\ pc[e] \in {"done", "raised"} /\ history'[e][n + 1] = NewRow(e)
    <3>1. /\ history'[e][i].hash = hash[e] /\ history'[e][i].base = base[e]
          /\ Status = "success"
      BY <2>3 DEF NewRow
    <3>2. pc[e] = "done" /\ hash[e] # "FETCH_ERROR:error" BY <2>3, <3>1 DEF Status
    <3>3. i > 1 => i - 1 = n /\ n \in 1..n /\ n > 0 BY <2>1, <2>3
    <3> QED BY <2>1, <3>1, <3>2, <3>3 DEF IInv, DriftOK
  <2> QED BY <2>1, <2>2, <2>3
<1>6. RawSamplesBounded'
  <2> SUFFICES ASSUME NEW e \in Endpoints, NEW i \in 1..Len(history'[e]),
                      history'[e][i].raw
               PROVE  i + Keep >= Len(history'[e])
    BY DEF RawSamplesBounded, Rows
  <2> DEFINE n == Len(history[e])
  <2>1. /\ n \in Nat
        /\ \A j \in 1..n : history'[e][j].raw => j + Keep > n
        /\ Len(history'[e]) \in {n, n + 1}
    BY CommitEffect
  <2>2. CASE i \in 1..n
    <3>1. i + Keep > n BY <2>1, <2>2
    <3> QED BY <2>1, <2>2, <3>1
  <2>3. CASE i = Len(history'[e]) BY <2>1, <2>3
  <2> QED BY <2>1, <2>2, <2>3
<1> QED BY <1>2, <1>3, <1>4, <1>5, <1>6 DEF IInv
-----------------------------------------------------------------------------
\* The session and the committed snapshots fit together at every await of the
\* tasks of run_monitor, whatever apis.yaml holds and whichever flushes collide.
THEOREM Invariance == Spec => []IInv
<1>1. Init => IInv BY InitIInv
<1>2. IInv /\ [Next]_vars => IInv'
  <2> SUFFICES ASSUME IInv, [Next]_vars PROVE IInv' OBVIOUS
  <2>1. CASE FinishRun BY <2>1, FinishRunKeeps
  <2>2. CASE \/ StartRun \/ RunFails
             \/ \E e \in Endpoints : Fetched(e) \/ FlushEnds(e) \/ Lookup(e)
    BY <2>2, TaskStepKeeps
  <2>3. CASE UNCHANGED vars
    <3> USE <2>3 DEF vars, taskVars
    <3>1. SuccessReportsDrift' /\ RawSamplesBounded'
      BY HistoryKept
    <3>2. TypeOK' BY DEF IInv, TypeOK
    <3>3. LengthOK' /\ IdleOK' BY DEF IInv, LengthOK, IdleOK
    <3>4. SessionOK' BY DEF IInv, SessionOK
    <3>5. DriftOK' BY DEF IInv, DriftOK
    <3> QED BY <3>1, <3>2, <3>3, <3>4, <3>5 DEF IInv
  <2> QED BY <2>1, <2>2, <2>3 DEF Next
<1> QED BY <1>1, <1>2, PTL DEF Spec

\* The tables and the session hold values of their types, and one flush is
\* under way at a time, that of the task that waits for it.
THEOREM TypeCorrect == Spec => []TypeOK
<1>1. IInv => TypeOK BY DEF IInv
<1> QED BY <1>1, Invariance, PTL

\* A snapshot that a task of run_monitor added is in the session when the run
\* commits, also that of a task whose flush() raised: an endpoint that was
\* fetched gets its row.
THEOREM SnapshotsReachTheCommit == Spec => []SessionOK
<1>1. IInv => SessionOK BY DEF IInv
<1> QED BY <1>1, Invariance, PTL

\* A run of status "success" (monitor_runner.py) holds no failed fetch with an
\* error, and compared every snapshot that differs from the one before it.
THEOREM SuccessReportsDriftCorrect == Spec => []SuccessReportsDrift
<1>1. IInv => SuccessReportsDrift BY DEF IInv
<1> QED BY <1>1, Invariance, PTL

\* The least number of a set, for the first of some runs.
LEMMA LeastNumber ==
    ASSUME NEW T, T \subseteq Nat, T # {}
    PROVE  \E n \in T : \A m \in T : n <= m
<1>1. PICK n \in T : \A m \in T : ~(<<m, n>> \in OpToRel(<, Nat))
  BY NatLessThanWellFounded, WFMin
<1>2. \A m \in T : ~(m < n)
  BY <1>1 DEF OpToRel
<1>3. \A m \in T : n <= m
  BY ONLY <1>2, n \in T, T \subseteq Nat
<1> QED BY ONLY <1>3, n \in T

\* As long as runs succeed, compare nothing and see no null body, the schema
\* of an endpoint stays: the first snapshot that differs would have been
\* compared with the one before it.
LEMMA QuietRunsKeepTheSchema ==
    ASSUME TypeOK, SuccessReportsDrift, NEW e \in Endpoints,
           NEW i \in Rows(e), NEW j \in Rows(e), i < j, history[e][i].hash \in Schemas,
           \A k \in (i + 1)..j : /\ history[e][k].base = 0
                                 /\ history[e][k].status # "partial_failure"
                                 /\ history[e][k].hash # "FETCH_ERROR:None"
    PROVE  history[e][j].hash = history[e][i].hash
<1> DEFINE h(k) == history[e][k].hash
           Changed == {k \in (i + 1)..j : h(k) # h(i)}
<1>1. history[e] \in Seq(RowType)
  BY DEF TypeOK, RowType
<1>2. i \in Nat \ {0} /\ j \in Nat /\ j <= Len(history[e]) /\ Len(history[e]) \in Nat
  BY <1>1 DEF Rows
<1>3. Changed \subseteq Nat
  BY <1>2
<1>4. SUFFICES ASSUME Changed # {} PROVE FALSE
  <2>1. j \in (i + 1)..j
    BY <1>2
  <2>2. j \in Changed <=> h(j) # h(i)
    BY <2>1
  <2> QED BY <2>2
<1>5. PICK n \in Changed : \A m \in Changed : n <= m
  <2> HIDE DEF Changed
  <2> QED BY <1>3, <1>4, LeastNumber
<1>6. /\ n \in (i + 1)..j /\ h(n) # h(i) /\ n \in Nat /\ n > 1
      /\ n \in 1..Len(history[e]) /\ n - 1 # 0
  BY <1>2, <1>5
<1>7. h(n - 1) = h(i)
  <2>1. CASE n = i + 1
    <3>1. n - 1 = i
      BY <2>1, <1>2
    <3> QED BY <3>1
  <2>2. CASE n # i + 1
    <3>1. n - 1 \in (i + 1)..j /\ ~(n <= n - 1)
      BY <2>2, <1>2, <1>6
    <3> QED BY <3>1, <1>5
  <2> QED BY <2>1, <2>2
<1>8. /\ history[e][n].base = 0 /\ history[e][n].status # "partial_failure"
      /\ history[e][n].hash # "FETCH_ERROR:None"
  BY <1>6
<1>9. history[e][n] \in RowType
  BY <1>1, <1>6
<1>10. history[e][n].status = "success"
  BY <1>8, <1>9 DEF RowType
<1>11. /\ history[e][n].hash # "FETCH_ERROR:error"
       /\ /\ history[e][n].hash \in Schemas
          /\ history[e][n - 1].hash \in Schemas \ {history[e][n].hash}
          => history[e][n].base = n - 1
  BY <1>6, <1>10 DEF SuccessReportsDrift, Rows
<1>12. history[e][n].hash \in Schemas
  BY <1>8, <1>9, <1>11 DEF RowType, Hashes, NoSchema
<1> QED BY <1>6, <1>7, <1>8, <1>11, <1>12

\* Over any number of runs, a schema of an endpoint is another one than before
\* only where a run compared two snapshots, reported partial_failure or saw a
\* body that was JSON null: the outages that _process_endpoint
\* (monitor_runner.py:115-195) compares nothing across are all on record.
THEOREM SilentDriftIsMarkedCorrect == Spec => []SilentDriftIsMarked
<1>1. TypeOK /\ SuccessReportsDrift => SilentDriftIsMarked
  BY QuietRunsKeepTheSchema DEF SilentDriftIsMarked
<1> QED BY <1>1, TypeCorrect, SuccessReportsDriftCorrect, PTL

\* _retention_sweep leaves at most one raw sample beyond the Keep newest
\* snapshots of an endpoint.
THEOREM RawSamplesBoundedCorrect == Spec => []RawSamplesBounded
<1>1. IInv => RawSamplesBounded BY DEF IInv
<1> QED BY <1>1, Invariance, PTL
=============================================================================
