---------------------------- MODULE MonitorLock ----------------------------
(***************************************************************************)
(* POST /api/monitor/run-once of the scheduled monitor: run_monitor        *)
(* (backend/app/workers/monitor_runner.py) under advisory_lock             *)
(* (backend/app/core/locking.py), on the connection pool of                *)
(* backend/app/database.py.                                                *)
(*                                                                         *)
(* pg_try_advisory_lock belongs to a PostgreSQL connection, and a session  *)
(* gives its connection back to the pool at every commit and rollback and  *)
(* takes another one for its next statement.  The pool is a FIFO queue of  *)
(* PoolSize idle connections; connections beyond that are closed when they *)
(* come back.  The server may lose a connection, and its locks with it, at *)
(* any time; the session learns of it from its next statement.             *)
(***************************************************************************)
EXTENDS Naturals, Sequences, FiniteSets

CONSTANTS
    Runs,           \* calls of run_monitor
    Readers,        \* other requests of the service, each one transaction
    Conns,          \* connections (pool_size + max_overflow of them)
    PoolSize,       \* pool_size
    Faults,         \* whether connections may be lost, or fail to be made
    None

ASSUME MonitorAssumption ==
    /\ PoolSize \in Nat
    /\ Faults \in BOOLEAN
    /\ None \notin Conns
    /\ Runs \cap Readers = {}

Sessions == Runs \cup Readers

VARIABLES
    pc,             \* where each request is
    conn,           \* connection checked out by each session
    pool,           \* idle connections, oldest first
    open,           \* established connections
    dead,           \* those that are lost, which nobody may have noticed yet
    holder,         \* connection holding the advisory lock
    depth,          \* how many times it holds it
    row,            \* committed status of the monitor_runs row of a run
    raised,         \* runs that leave the block of the lock by an exception
    answer          \* HTTP answer

vars == <<pc, conn, pool, open, dead, holder, depth, row, raised, answer>>

PCs == {"idle", "conflict", "body", "committed", "record", "recording", "unlock",
        "closing", "reading", "done"}

Init ==
    /\ pc = [s \in Sessions |-> "idle"]
    /\ conn = [s \in Sessions |-> None]
    /\ pool = <<>>
    /\ open = {}
    /\ dead = {}
    /\ holder = None
    /\ depth = 0
    /\ row = [t \in Runs |-> "none"]
    /\ raised = {}
    /\ answer = [t \in Runs |-> "none"]

Goto(s, label) == pc' = [pc EXCEPT ![s] = label]
Answer(t, status) == answer' = [answer EXCEPT ![t] = status]
Live(s) == conn[s] \notin dead

\* The session's first statement of a transaction takes the oldest idle
\* connection, made anew if it is lost (pool_pre_ping), or opens one; it waits
\* while all are in use.
Checkout(s, c) ==
    /\ IF pool = <<>>
       THEN c \in Conns \ open /\ open' = open \cup {c} /\ UNCHANGED pool
       ELSE c = Head(pool) /\ pool' = Tail(pool) /\ UNCHANGED open
    /\ conn' = [conn EXCEPT ![s] = c]
    /\ dead' = dead \ {c}

\* The end of a transaction.  Closing a connection frees its locks; putting
\* it back into the pool does not.
Checkin(s) ==
    /\ conn' = [conn EXCEPT ![s] = None]
    /\ IF Len(pool) < PoolSize
       THEN /\ pool' = Append(pool, conn[s])
            /\ UNCHANGED <<open, dead, holder, depth>>
       ELSE /\ open' = open \ {conn[s]}
            /\ dead' = dead \ {conn[s]}
            /\ holder' = IF holder = conn[s] THEN None ELSE holder
            /\ depth' = IF holder = conn[s] THEN 0 ELSE depth
            /\ UNCHANGED pool
-----------------------------------------------------------------------------
\* SELECT pg_try_advisory_lock: the connection that has the lock gets it once
\* more.  A new run inserts its row (visible to nobody before the commit).
TryLock(t) ==
    /\ pc[t] = "idle"
    /\ \E c \in Conns :
          /\ Checkout(t, c)
          /\ IF holder \in {None, c}
             THEN holder' = c /\ depth' = depth + 1 /\ Goto(t, "body")
             ELSE Goto(t, "conflict") /\ UNCHANGED <<holder, depth>>
    /\ UNCHANGED <<row, raised, answer>>

Running == {u \in Runs : row[u] = "running"}

\* The lock is taken: look for the run in flight, answer 409, end the session.
Conflict(t) ==
    /\ pc[t] = "conflict"
    /\ Checkin(t)
    /\ Answer(t, CASE ~Live(t) -> "500"
                   [] Live(t) /\ Running = {} -> "409"
                   [] Live(t) /\ Running # {} -> "409 with id")
    /\ Goto(t, "done")
    /\ UNCHANGED <<row, raised>>

\* The INSERT of the row fails, outside the try block: the unlock, in a
\* transaction that must be rolled back first, raises as well.
InsertFails(t) ==
    /\ pc[t] = "body" /\ ~Live(t)
    /\ Checkin(t)
    /\ Answer(t, "500")
    /\ Goto(t, "done")
    /\ UNCHANGED <<row, raised>>

\* The run completes: its status is set and everything committed; ...
Commit(t) ==
    /\ pc[t] = "body" /\ Live(t)
    /\ \E status \in {"success", "partial_failure"} :
          row' = [row EXCEPT ![t] = status]
    /\ Goto(t, "committed")
    /\ UNCHANGED <<conn, pool, open, dead, holder, depth, raised, answer>>

\* ... and session.commit() returns, or raises if the connection was lost before
\* the server's answer.
Committed(t) ==
    /\ pc[t] = "committed"
    /\ Checkin(t)
    /\ Goto(t, IF Live(t) THEN "unlock" ELSE "record")
    /\ UNCHANGED <<row, raised, answer>>

\* An exception: rollback, which also removes the row of the run.
Raise(t) ==
    /\ pc[t] = "body"
    /\ Checkin(t)
    /\ Goto(t, "record")
    /\ UNCHANGED <<row, raised, answer>>

\* async with session.begin(): UPDATE ... status = 'failed', and its commit.  The
\* row is not there any more, unless the commit had gone through.
BeginRecord(t) ==
    /\ pc[t] = "record"
    /\ \E c \in Conns : Checkout(t, c)
    /\ Goto(t, "recording")
    /\ UNCHANGED <<holder, depth, row, raised, answer>>

Mark(t) == row' = [row EXCEPT ![t] = IF @ = "none" \/ ~Live(t) THEN @ ELSE "failed"]

\* Mutant: the exception is not raised again.
EndRecordSwallowed(t) ==
    /\ pc[t] = "recording"
    /\ Checkin(t)
    /\ Mark(t)
    /\ Goto(t, "unlock")
    /\ UNCHANGED <<raised, answer>>

\* The exception goes on, or that of the UPDATE.
EndRecord(t) ==
    /\ pc[t] = "recording"
    /\ Checkin(t)
    /\ Mark(t)
    /\ raised' = raised \cup {t}
    /\ Goto(t, "unlock")
    /\ UNCHANGED answer

\* Mutant: unlocking frees the lock, whoever holds it.
UnlockForced(t) ==
    /\ pc[t] = "unlock"
    /\ \E c \in Conns : Checkout(t, c)
    /\ holder' = None
    /\ depth' = 0
    /\ Goto(t, "closing")
    /\ UNCHANGED <<row, raised, answer>>

\* SELECT pg_advisory_unlock, on the connection the session gets now: a
\* warning and no effect if that connection does not hold the lock.
Unlock(t) ==
    /\ pc[t] = "unlock"
    /\ \E c \in Conns :
          /\ Checkout(t, c)
          /\ depth' = IF holder = c THEN depth - 1 ELSE depth
          /\ holder' = IF holder = c /\ depth = 1 THEN None ELSE holder
    /\ Goto(t, "closing")
    /\ UNCHANGED <<row, raised, answer>>

\* The answer, and get_session closes the session.  A connection lost by now may
\* have been lost before the server's answer to the unlock.
Close(t) ==
    /\ pc[t] = "closing"
    /\ Checkin(t)
    /\ \/ t \notin raised /\ Answer(t, "200")
       \/ (t \in raised \/ ~Live(t)) /\ Answer(t, "500")
    /\ raised' = raised \ {t}
    /\ Goto(t, "done")
    /\ UNCHANGED row

\* Any other request: one transaction on a pooled connection.
BeginRead(q) ==
    /\ pc[q] = "idle"
    /\ \E c \in Conns : Checkout(q, c)
    /\ Goto(q, "reading")
    /\ UNCHANGED <<holder, depth, row, raised, answer>>

EndRead(q) ==
    /\ pc[q] = "reading"
    /\ Checkin(q)
    /\ Goto(q, "done")
    /\ UNCHANGED <<row, raised, answer>>

\* A statement gets no connection and raises: all are in use until the pool's
\* timeout, or the database is out of reach (a lost connection that cannot be
\* made anew goes to the end of the queue).
NoConnection ==
    \/ pool = <<>> /\ (open = Conns \/ Faults) /\ UNCHANGED pool
    \/ pool # <<>> /\ Faults /\ Head(pool) \in dead /\ pool' = Append(Tail(pool), Head(pool))

\* Of a run, the exception of its first statement or its unlock is a 500; the
\* UPDATE's replaces the one that it was to record.
CheckoutFails(s) ==
    /\ pc[s] \in {"idle", "record", "unlock"}
    /\ NoConnection
    /\ Goto(s, IF pc[s] = "record" THEN "unlock" ELSE "done")
    /\ raised' = IF pc[s] = "record" THEN raised \cup {s} ELSE raised \ {s}
    /\ IF s \in Runs /\ pc[s] # "record" THEN Answer(s, "500") ELSE UNCHANGED answer
    /\ UNCHANGED <<conn, open, dead, holder, depth, row>>

\* The server loses a connection, in use or idle: its locks are free.
Disconnect(c) ==
    /\ Faults
    /\ c \in open \ dead
    /\ dead' = dead \cup {c}
    /\ holder' = IF holder = c THEN None ELSE holder
    /\ depth' = IF holder = c THEN 0 ELSE depth
    /\ UNCHANGED <<pc, conn, pool, open, row, raised, answer>>

\* The service is restarted: its connections close, its requests are gone.
Restart ==
    /\ \E s \in Sessions : pc[s] \notin {"idle", "done"}
    /\ pc' = [s \in Sessions |-> IF pc[s] = "idle" THEN "idle" ELSE "done"]
    /\ conn' = [s \in Sessions |-> None]
    /\ pool' = <<>>
    /\ open' = {}
    /\ dead' = {}
    /\ holder' = None
    /\ depth' = 0
    /\ raised' = {}
    /\ UNCHANGED <<row, answer>>

Next ==
    \/ \E t \in Runs : \/ TryLock(t) \/ Conflict(t) \/ InsertFails(t)
                       \/ Commit(t) \/ Committed(t) \/ Raise(t)
                       \/ BeginRecord(t) \/ EndRecord(t)
                       \/ Unlock(t) \/ Close(t)
    \/ \E q \in Readers : BeginRead(q) \/ EndRead(q)
    \/ \E s \in Sessions : CheckoutFails(s)
    \/ \E c \in Conns : Disconnect(c)
    \/ Restart

Spec == Init /\ [][Next]_vars
-----------------------------------------------------------------------------
\* Types of the variables.
TypeOK ==
    /\ pc \in [Sessions -> PCs]
    /\ conn \in [Sessions -> Conns \cup {None}]
    /\ pool \in Seq(Conns)
    /\ dead \subseteq open /\ open \subseteq Conns
    /\ holder \in Conns \cup {None}
    /\ depth \in Nat
    /\ row \in [Runs -> {"none", "running", "success", "partial_failure", "failed"}]
    /\ raised \subseteq Runs
    /\ answer \in [Runs -> {"none", "200", "409", "409 with id", "500"}]

\* Two monitor runs are never between the lock and their commit together
\* (monitor_runner.py:43-94), and the lock stays with the connection of the one
\* at work, although it is re-entrant, connections pass from hand to hand with
\* the lock on them, and a late unlock of one run (locking.py:34-37) may meet a
\* connection that another run has locked.  A run whose connection is lost has
\* lost the lock: it may go on fetching beside the next run, but not commit.
OneRunAtATime ==
    \A t \in Runs : pc[t] = "body" /\ Live(t) =>
       /\ holder = conn[t] /\ depth > 0
       /\ \A u \in Runs : pc[u] = "body" /\ Live(u) => u = t

\* The run history shows runs after their commit only, and no caller was told of
\* a success that it does not show: a run that raised has lost its row before it
\* is marked failed (monitor_runner.py:99-107), one whose commit was not
\* acknowledged is marked failed and answered 500, and no 409 can name the run in
\* flight, whose row is not committed while it has the lock
\* (monitor_runner.py:46-58).  A 500 says nothing of the history: the unlock after
\* the commit may fail (locking.py:34-37).
HistoryShowsFinishedRuns ==
    \A t \in Runs :
       /\ row[t] # "none" => pc[t] \notin {"idle", "conflict", "body"}
       /\ answer[t] = "200" => row[t] \in {"success", "partial_failure"}
       /\ row[t] = "failed" => answer[t] \in {"none", "500"}
       /\ answer[t] = "409" => row[t] = "none"
       /\ answer[t] # "409 with id"

\* backend/app/core/locking.py:24, "Always releases on exit if acquired.":
\* when every call of run_monitor has returned nobody holds the lock.
AlwaysReleased ==
    (\A t \in Runs : pc[t] \in {"idle", "done"}) => holder = None
=============================================================================
