--------------------------- MODULE MonitorHistory ---------------------------
(***************************************************************************)
(* What run_monitor (backend/app/workers/monitor_runner.py) does while it  *)
(* has the lock of MonitorLock: one task per active endpoint fetches,      *)
(* stores a snapshot and the diffs from the one before, then the retention *)
(* sweep and the commit.                                                   *)
(*                                                                         *)
(* The tasks of asyncio.gather share one AsyncSession.  A flush of one     *)
(* task lasts while its INSERTs are awaited; a task that calls flush() in  *)
(* that time gets InvalidRequestError ("Session is already flushing"),     *)
(* which gather returns as a result, but what it has added stays in the    *)
(* session and is written by the next flush or by the commit               *)
(* (autoflush=False, database.py:20-25).                                   *)
(***************************************************************************)
EXTENDS Naturals, Sequences

CONSTANTS
    Endpoints,
    Schemas,        \* schema hashes
    Keep,           \* settings.raw_retention_per_endpoint (10 in the code)
    None,
    MaxRuns         \* bound: runs of the monitor

ASSUME HistoryAssumption ==
    /\ Keep \in Nat \ {0}
    /\ MaxRuns \in Nat
    /\ None \notin Endpoints
    /\ Schemas \cap {"FETCH_ERROR:error", "FETCH_ERROR:None"} = {}

\* schema_hash of a snapshot without a schema; a body that is JSON null is no
\* FetchResult.ok, but comes without an error.
NoSchema == {"FETCH_ERROR:error", "FETCH_ERROR:None"}
Hashes == Schemas \cup NoSchema

VARIABLES
    history,        \* committed snapshots of each endpoint, oldest first
    runs,           \* runs so far
    running,        \* a run is under way
    pc,             \* task of each endpoint
    hash,           \* schema_hash of the task's snapshot
    base,           \* number of the snapshot it was compared with, or 0
    added,          \* objects in the session that are not flushed
    flushed,        \* objects that are flushed, uncommitted
    flushing,       \* task whose flush is under way
    batch           \* objects that this flush writes

taskVars == <<pc, hash, base, added, flushed, flushing, batch>>
vars == <<history, runs, running, taskVars>>

\* What a task adds to the session.
Snapshot(e) == <<e, "snapshot">>
Diffs(e) == <<e, "diffs">>

PCs == {"off", "fetch", "flush", "lookup", "last_flush", "done", "raised"}

Init ==
    /\ history = [e \in Endpoints |-> <<>>]
    /\ runs = 0
    /\ running = FALSE
    /\ pc = [e \in Endpoints |-> "off"]
    /\ hash = [e \in Endpoints |-> "FETCH_ERROR:None"]
    /\ base = [e \in Endpoints |-> 0]
    /\ added = {}
    /\ flushed = {}
    /\ flushing = None
    /\ batch = {}

-----------------------------------------------------------------------------
\* upsert_endpoints: apis.yaml, edited at will between runs, says which
\* endpoints are active.
StartRun ==
    /\ ~running
    /\ runs < MaxRuns
    /\ runs' = runs + 1
    /\ running' = TRUE
    /\ \E active \in SUBSET Endpoints :
          pc' = [e \in Endpoints |-> IF e \in active THEN "fetch" ELSE "off"]
    /\ UNCHANGED <<history, hash, base, added, flushed, flushing, batch>>

\* await session.flush(): an error at once while another task flushes, no
\* await when there is nothing to write, else pc stays `during` until the end.
Flush(e, during, after) ==
    \/ /\ flushing # None
       /\ pc' = [pc EXCEPT ![e] = "raised"]
       /\ UNCHANGED <<flushing, batch>>
    \/ /\ flushing = None /\ added' = {}
       /\ pc' = [pc EXCEPT ![e] = after]
       /\ UNCHANGED <<flushing, batch>>
    \/ /\ flushing = None /\ added' # {}
       /\ pc' = [pc EXCEPT ![e] = during]
       /\ flushing' = e
       /\ batch' = added'

\* fetch_endpoint answers with a body or an error; the snapshot is added and
\* a flush begun without an await in between.
Fetched(e) ==
    /\ pc[e] = "fetch"
    /\ \E h \in Hashes : hash' = [hash EXCEPT ![e] = h]
    /\ added' = added \cup {Snapshot(e)}
    /\ Flush(e, "flush", "lookup")
    /\ UNCHANGED <<history, runs, running, base, flushed>>

\* The flush of a task is through; a failed fetch ends there.
FlushEnds(e) ==
    /\ flushing = e
    /\ flushing' = None
    /\ added' = added \ batch
    /\ flushed' = flushed \cup batch
    /\ batch' = {}
    /\ pc' = [pc EXCEPT ![e] = IF @ = "flush" /\ hash[e] \in Schemas
                               THEN "lookup" ELSE "done"]
    /\ UNCHANGED <<history, runs, running, hash, base>>

\* Mutant: order_by(created_at) without desc().
PriorOldest(e) == IF history[e] = <<>> THEN 0 ELSE 1

\* _get_prior_snapshot.  A FETCH_ERROR snapshot has JSON null in
\* normalized_schema_json, which IS NOT NULL, so the prior snapshot is the
\* newest one whatever it is.
Prior(e) == Len(history[e])

\* The comparison with the prior snapshot, which may find no diffs for a
\* difference that diff_schemas ignores, and the last flush of the task.
Lookup(e) ==
    /\ pc[e] = "lookup"
    /\ LET p == Prior(e)
           drift == p > 0 /\ history[e][p].hash \in Schemas \ {hash[e]}
       IN  /\ base' = [base EXCEPT ![e] = IF drift THEN p ELSE 0]
           /\ \/ added' = added
              \/ drift /\ added' = added \cup {Diffs(e)}
    /\ Flush(e, "last_flush", "done")
    /\ UNCHANGED <<history, runs, running, hash, flushed>>

Gathered == \A e \in Endpoints : pc[e] \in {"off", "done", "raised"}

\* Mutant: the exceptions that gather returned are not looked at.
StatusOfResults ==
    IF \E e \in Endpoints : pc[e] = "done" /\ hash[e] = "FETCH_ERROR:error"
    THEN "partial_failure" ELSE "success"

Status ==
    IF \E e \in Endpoints :
          pc[e] = "raised" \/ (pc[e] = "done" /\ hash[e] = "FETCH_ERROR:error")
    THEN "partial_failure" ELSE "success"

\* Mutant: off by one.
SweptOneLess(e) ==
    LET seen == Len(history[e]) + (IF Snapshot(e) \in flushed THEN 1 ELSE 0)
    IN  [i \in 1..Len(history[e]) |->
           [history[e][i] EXCEPT !.raw = @ /\ i + Keep >= seen]]

\* _retention_sweep on the committed rows of an endpoint: the newest Keep of
\* the rows that the transaction sees keep their raw sample.
Swept(e) ==
    LET seen == Len(history[e]) + (IF Snapshot(e) \in flushed THEN 1 ELSE 0)
    IN  [i \in 1..Len(history[e]) |->
           [history[e][i] EXCEPT !.raw = @ /\ i + Keep > seen]]

\* The row of a task in the run's transaction.
NewRow(e) == [hash |-> hash[e], raw |-> hash[e] \in Schemas, base |-> base[e],
              status |-> Status]

\* The session is closed.
EndRun ==
    /\ running' = FALSE
    /\ pc' = [e \in Endpoints |-> "off"]
    /\ hash' = [e \in Endpoints |-> "FETCH_ERROR:None"]
    /\ base' = [e \in Endpoints |-> 0]
    /\ added' = {} /\ flushed' = {}
    /\ flushing' = None /\ batch' = {}

\* The rest of run_monitor: sweep, UPDATE monitor_runs, and the commit, which
\* flushes what is left in the session.
FinishRun ==
    /\ running /\ Gathered
    /\ history' = [e \in Endpoints |->
                     IF pc[e] = "off" THEN Swept(e) ELSE Append(Swept(e), NewRow(e))]
    /\ EndRun
    /\ UNCHANGED runs

\* An exception outside gather, or a restart: the transaction is rolled back.
RunFails ==
    /\ running
    /\ EndRun
    /\ UNCHANGED <<history, runs>>

Next ==
    \/ StartRun \/ FinishRun \/ RunFails
    \/ \E e \in Endpoints : Fetched(e) \/ FlushEnds(e) \/ Lookup(e)

Spec == Init /\ [][Next]_vars

-----------------------------------------------------------------------------
Rows(e) == 1..Len(history[e])

\* Types; a flush is that of a task that waits for it, and writes what was in
\* the session when it began.
TypeOK ==
    /\ \A e \in Endpoints :
          history[e] \in Seq([hash: Hashes, raw: BOOLEAN, base: 0..MaxRuns,
                              status: {"success", "partial_failure"}])
    /\ runs \in 0..MaxRuns
    /\ running \in BOOLEAN
    /\ pc \in [Endpoints -> PCs]
    /\ hash \in [Endpoints -> Hashes]
    /\ base \in [Endpoints -> 0..MaxRuns]
    /\ added \cup flushed \subseteq Endpoints \X {"snapshot", "diffs"}
    /\ batch \subseteq added
    /\ flushing \in Endpoints \cup {None}
    /\ \A e \in Endpoints : flushing = e <=> pc[e] \in {"flush", "last_flush"}

\* A run that reports success has fetched every endpoint and looked at its
\* drift, although tasks break off each other's work on the shared session: it
\* has no snapshot of a failed fetch (other than that of a body that is JSON
\* null, fetcher.py:23), and where the schema of a snapshot differs from that of
\* the snapshot before, the two have been compared (monitor_runner.py:159-182).
SuccessReportsDrift ==
    \A e \in Endpoints : \A i \in Rows(e) : history[e][i].status = "success" =>
       /\ history[e][i].hash # "FETCH_ERROR:error"
       /\ /\ i > 1
          /\ history[e][i].hash \in Schemas
          /\ history[e][i - 1].hash \in Schemas \ {history[e][i].hash}
          => history[e][i].base = i - 1

\* Drift that no run has reported leaves a mark.  A snapshot of a failed fetch
\* has no schema to compare with, so what changed during an outage is never
\* diffed (monitor_runner.py:160); but between two snapshots of an endpoint
\* with different schemas, however far apart, a snapshot was compared with the
\* one before it, or belongs to a run that reports partial_failure, or is that
\* of a body that was JSON null.
SilentDriftIsMarked ==
    \A e \in Endpoints : \A i, j \in Rows(e) :
       /\ i < j
       /\ {history[e][i].hash, history[e][j].hash} \subseteq Schemas
       /\ history[e][i].hash # history[e][j].hash
       => \E k \in (i + 1)..j : \/ history[e][k].base # 0
                                \/ history[e][k].status = "partial_failure"
                                \/ history[e][k].hash = "FETCH_ERROR:None"

\* _retention_sweep (monitor_runner.py:214-238) overlooks at most the newest
\* snapshot of an endpoint, when that is not flushed yet: there is never more
\* than one raw sample beyond the Keep newest snapshots.
RawSamplesBounded ==
    \A e \in Endpoints : \A i \in Rows(e) :
       history[e][i].raw => i + Keep >= Len(history[e])
=============================================================================
