---------------------------- MODULE WebhookOutbox ----------------------------
(***************************************************************************)
(* From a detected drift to its webhooks: _enqueue_webhook_outbox          *)
(* (app/runtime/service.py), deliver_with_retry, upsert_dlq and replay     *)
(* (app/runtime/webhook.py), the outbox workers                            *)
(* (app/workers/outbox_worker.py, one per uvicorn process) and             *)
(* subscription updates (app/runtime/subscriptions.py), on one endpoint.   *)
(*                                                                         *)
(* An action is a database transaction or an HTTP exchange; a session's    *)
(* uncommitted writes are kept apart from the tables and vanish when the   *)
(* session dies.  The outbox row of event v and subscription s is <<v, s>>.*)
(***************************************************************************)
EXTENDS Integers, FiniteSets

CONSTANTS
    Events,         \* drift events, one per request that added a version
    Subs,           \* subscriptions of the endpoint, numbered by created_at
    Consumers,      \* consumer_id values
    Workers,        \* outbox workers
    ConsumerOf,     \* column consumer_id
    Threshold,      \* column severity_threshold
    SinceVersion,   \* column schema_version, 0 for NULL
    Severity,       \* classification of each event
    NewVersion,     \* schema version that each event announces
    MaxAttempts,    \* column max_attempts (5 in the code)
    BatchSize,      \* batch_size of _poll_once (50 in the code)
    Inline,         \* INLINE_WEBHOOK_DELIVERY
    MaxPatches,     \* bound: PATCHes of a subscription's active flag
    MaxFailures     \* bound: sessions that die or raise

Classifications == {"SAFE", "BACKWARD_COMPATIBLE", "FORWARD_COMPATIBLE", "RISKY",
                    "BREAKING"}

ASSUME OutboxAssumption ==
    /\ Subs \subseteq Nat
    /\ ConsumerOf \in [Subs -> Consumers]
    /\ SinceVersion \in [Subs -> Nat]
    /\ Severity \in [Events -> Classifications]
    /\ NewVersion \in [Events -> Nat]
    /\ MaxAttempts \in Nat \ {0}
    /\ BatchSize \in Nat \ {0}
    /\ Inline \in BOOLEAN
    /\ MaxPatches \in Nat
    /\ MaxFailures \in Nat

Rows == Events \X Subs
Key(o) == <<o[1], ConsumerOf[o[2]]>>        \* the unique key of the DLQ

VARIABLES
    \* requests that detected drift
    pc,             \* where each request is
    affected,       \* the subscriptions it selected
    todo,           \* those of them still to be handled by the loop
    sub,            \* the subscription being delivered to inline
    inserted,       \* subscriptions whose outbox row is inserted, uncommitted
    mark,           \* uncommitted UPDATE of an outbox row: <<s, status>>, or <<>>
    delivered,      \* result of the inline delivery
    \* outbox workers
    wpc,            \* "poll", "claim", "lookup", "post", "settle"
    batch,          \* polled items still to be handled: <<row, attempts read>>
    item,           \* the item being handled
    locking,        \* workers whose SELECT ... FOR UPDATE is still open
    ok,             \* result of the delivery
    \* tables
    status,         \* webhook_outbox.status, "NONE" while there is no row
    attempts,       \* webhook_outbox.attempts
    due,            \* rows with next_retry_at <= NOW()
    dlq,            \* webhook_delivery_dlq.attempt_count, 0 while there is no row
    active,         \* subscriptions with active = TRUE
    published,      \* events whose schema version is committed
    \* the outside
    emitted,        \* events handed to the event publisher
    posts,          \* POSTs made for a row by requests and workers
    acked,          \* rows whose POST some 2xx answer acknowledged
    patches, failures

requestVars == <<pc, affected, todo, sub, inserted, mark, delivered>>
workerVars == <<wpc, batch, item, locking, ok>>
outboxVars == <<status, attempts, due>>
wireVars == <<posts, acked>>
boundVars == <<patches, failures>>
vars == <<requestVars, workerVars, outboxVars, dlq, active, published, emitted,
          wireVars, boundVars>>

Max2(a, b) == IF a > b THEN a ELSE b

Init ==
    /\ pc = [v \in Events |-> "idle"]
    /\ affected = [v \in Events |-> {}]
    /\ todo = [v \in Events |-> {}]
    /\ sub = [v \in Events |-> 0]
    /\ inserted = [v \in Events |-> {}]
    /\ mark = [v \in Events |-> <<>>]
    /\ delivered = [v \in Events |-> FALSE]
    /\ wpc = [w \in Workers |-> "poll"]
    /\ batch = [w \in Workers |-> {}]
    /\ item = [w \in Workers |-> <<>>]
    /\ locking = {}
    /\ ok = [w \in Workers |-> FALSE]
    /\ status = [o \in Rows |-> "NONE"]
    /\ attempts = [o \in Rows |-> 0]
    /\ due = {}
    /\ dlq = [k \in Events \X Consumers |-> 0]
    /\ active \in SUBSET Subs
    /\ published = {}
    /\ emitted = {}
    /\ posts = [o \in Rows |-> 0]
    /\ acked = {}
    /\ patches = 0
    /\ failures = 0

-----------------------------------------------------------------------------
severity_rank(c) ==
    CASE c = "BACKWARD_COMPATIBLE" -> 1
      [] c = "FORWARD_COMPATIBLE" -> 2
      [] c = "RISKY" -> 3
      [] c = "BREAKING" -> 4
      [] OTHER -> 0          \* SAFE, and any string that is no class

\* select_affected_subscriptions.
Affected(v) ==
    {s \in active : /\ SinceVersion[s] <= NewVersion[v]
                    /\ severity_rank(Severity[v]) >= severity_rank(Threshold[s])}

\* One POST of row o.  "ok": a 2xx answer.  "lost": the consumer took it, but
\* the answer or the bookkeeping after it failed.  "refused": it did not.
Outcomes == {"ok", "lost", "refused"}
Posted(o, outcome) ==
    /\ posts' = [posts EXCEPT ![o] = @ + 1]
    /\ acked' = IF outcome = "ok" THEN acked \cup {o} ELSE acked

\* Mutant: the dead letter is not written.
upsert_dlq_lost(o, count) == dlq

\* INSERT ... ON CONFLICT (event_id, consumer_id) DO UPDATE ... GREATEST.
upsert_dlq(o, count) == [dlq EXCEPT ![Key(o)] = Max2(@, count)]

\* Rows locked by an open transaction other than that of worker w.
LockedByOthers(w) ==
    UNION {{i[1] : i \in batch[x]} : x \in locking \ {w}}
      \cup {<<v, mark[v][1]>> : v \in {u \in Events : mark[u] # <<>>}}

\* A commit in the request's session: its inserted rows become visible as
\* PENDING and due, and its UPDATE of an earlier row takes effect.
CommitRequest(v) ==
    LET new == {<<v, s>> : s \in inserted[v]}
        marked == IF mark[v] = <<>> THEN {} ELSE {<<v, mark[v][1]>>}
    IN  /\ status' = [o \in Rows |-> CASE o \in marked -> mark[v][2]
                                       [] o \in new -> "PENDING"
                                       [] OTHER -> status[o]]
        /\ attempts' = [o \in Rows |-> IF o \in marked THEN attempts[o] + 1
                                                       ELSE attempts[o]]
        /\ due' = due \cup new
        /\ published' = published \cup {v}
        /\ inserted' = [inserted EXCEPT ![v] = {}]

-----------------------------------------------------------------------------
(***************************************************************************)
(* The request, after upsert_schema_version inserted a version that has a  *)
(* predecessor (not yet committed).                                        *)
(***************************************************************************)
SelectAffected(v) ==
    /\ pc[v] = "idle"
    /\ pc' = [pc EXCEPT ![v] = "loop"]
    /\ affected' = [affected EXCEPT ![v] = Affected(v)]
    /\ todo' = [todo EXCEPT ![v] = Affected(v)]
    /\ UNCHANGED <<sub, inserted, mark, delivered, workerVars, outboxVars, dlq,
                   active, published, emitted, wireVars, boundVars>>

\* INSERT INTO webhook_outbox; subscriptions come in no particular order.
InsertOutbox(v) ==
    /\ pc[v] = "loop"
    /\ \E s \in todo[v] :
          /\ todo' = [todo EXCEPT ![v] = @ \ {s}]
          /\ inserted' = [inserted EXCEPT ![v] = @ \cup {s}]
          /\ sub' = [sub EXCEPT ![v] = s]
    /\ pc' = [pc EXCEPT ![v] = IF Inline THEN "post" ELSE "loop"]
    /\ UNCHANGED <<affected, mark, delivered, workerVars, outboxVars, dlq, active,
                   published, emitted, wireVars, boundVars>>

\* deliver_with_retry(max_attempts=1, persist_dlq=True) on the subscription
\* as it was selected: the POST goes out first.
InlinePost(v) ==
    /\ pc[v] = "post"
    /\ \E outcome \in Outcomes :
          /\ Posted(<<v, sub[v]>>, outcome)
          /\ delivered' = [delivered EXCEPT ![v] = (outcome = "ok")]
    /\ pc' = [pc EXCEPT ![v] = "record"]
    /\ UNCHANGED <<affected, todo, sub, inserted, mark, workerVars, outboxVars, dlq,
                   active, published, emitted, boundVars>>

RecordedDlq(v) == IF delivered[v] THEN dlq ELSE upsert_dlq(<<v, sub[v]>>, 1)

\* Mutant: only a failed attempt is committed.
InlineRecordFailures(v) ==
    /\ pc[v] = "record"
    /\ dlq' = RecordedDlq(v)
    /\ IF delivered[v]
       THEN UNCHANGED <<outboxVars, published, inserted, mark>>
       ELSE CommitRequest(v) /\ mark' = [mark EXCEPT ![v] = <<>>]
    /\ pc' = [pc EXCEPT ![v] = "mark"]
    /\ UNCHANGED <<affected, todo, sub, delivered, workerVars, active, emitted, wireVars,
                   boundVars>>

\* The attempt, the dead letter of a failed one, and the commit, which
\* publishes all that the session wrote.
InlineRecord(v) ==
    /\ pc[v] = "record"
    /\ dlq' = RecordedDlq(v)
    /\ CommitRequest(v)
    /\ mark' = [mark EXCEPT ![v] = <<>>]
    /\ pc' = [pc EXCEPT ![v] = "mark"]
    /\ UNCHANGED <<affected, todo, sub, delivered, workerVars, active, emitted, wireVars,
                   boundVars>>

\* UPDATE webhook_outbox SET status, attempts + 1: takes the row lock and
\* stays uncommitted until the session's next commit.
MarkOutbox(v) ==
    /\ pc[v] = "mark"
    /\ \A w \in locking : \A i \in batch[w] : i[1] # <<v, sub[v]>>
    /\ mark' = [mark EXCEPT ![v] =
                  <<sub[v], IF delivered[v] THEN "DELIVERED" ELSE "FAILED">>]
    /\ pc' = [pc EXCEPT ![v] = "loop"]
    /\ UNCHANGED <<affected, todo, sub, inserted, delivered, workerVars, outboxVars, dlq,
                   active, published, emitted, wireVars, boundVars>>

\* Mutant: the loop ends before all subscriptions are enqueued.
EmitEventEarly(v) ==
    /\ pc[v] = "loop"
    /\ emitted' = emitted \cup {v}
    /\ pc' = [pc EXCEPT ![v] = "commit"]
    /\ UNCHANGED <<affected, todo, sub, inserted, mark, delivered, workerVars, outboxVars,
                   dlq, active, published, wireVars, boundVars>>

\* publish_fire_and_forget, before the commit of track_payload.
EmitEvent(v) ==
    /\ pc[v] = "loop"
    /\ todo[v] = {}
    /\ emitted' = emitted \cup {v}
    /\ pc' = [pc EXCEPT ![v] = "commit"]
    /\ UNCHANGED <<affected, todo, sub, inserted, mark, delivered, workerVars, outboxVars,
                   dlq, active, published, wireVars, boundVars>>

\* db.commit() in track_payload.
FinishRequest(v) ==
    /\ pc[v] = "commit"
    /\ CommitRequest(v)
    /\ mark' = [mark EXCEPT ![v] = <<>>]
    /\ pc' = [pc EXCEPT ![v] = "done"]
    /\ UNCHANGED <<affected, todo, sub, delivered, workerVars, dlq, active, emitted,
                   wireVars, boundVars>>

\* The request raises or its process dies: the open transaction is lost.
RequestFails(v) ==
    /\ pc[v] \notin {"idle", "done", "failed"}
    /\ failures < MaxFailures
    /\ failures' = failures + 1
    /\ pc' = [pc EXCEPT ![v] = "failed"]
    /\ inserted' = [inserted EXCEPT ![v] = {}]
    /\ mark' = [mark EXCEPT ![v] = <<>>]
    /\ UNCHANGED <<affected, todo, sub, delivered, workerVars, outboxVars, dlq, active,
                   published, emitted, wireVars, patches>>

-----------------------------------------------------------------------------
(***************************************************************************)
(* The outbox worker.                                                      *)
(***************************************************************************)
\* Mutants: FAILED rows are polled again; rows tried before are not.
ReadyFailedToo(w) == {o \in due : status[o] \in {"PENDING", "FAILED"}} \ LockedByOthers(w)
ReadyUntried(w) == {o \in due : status[o] = "PENDING" /\ attempts[o] = 0} \ LockedByOthers(w)

\* WHERE status = 'PENDING' AND next_retry_at <= NOW() ... SKIP LOCKED.
Ready(w) == {o \in due : status[o] = "PENDING"} \ LockedByOthers(w)

\* SELECT ... FOR UPDATE SKIP LOCKED LIMIT batch_size.  The rows of a request
\* share created_at (the start of its transaction), so any may come first.
Poll(w) ==
    /\ wpc[w] = "poll"
    /\ Ready(w) # {}
    /\ \E picked \in SUBSET Ready(w) :
          /\ Cardinality(picked) = BatchSize \/ picked = Ready(w)
          /\ Cardinality(picked) <= BatchSize
          /\ batch' = [batch EXCEPT ![w] = {<<o, attempts[o]>> : o \in picked}]
    /\ locking' = locking \cup {w}
    /\ wpc' = [wpc EXCEPT ![w] = "claim"]
    /\ UNCHANGED <<requestVars, item, ok, outboxVars, dlq, active, published,
                   emitted, wireVars, boundVars>>

\* UPDATE ... SET status = 'DELIVERING' WHERE id, and a commit, which also
\* gives up the locks on the rest of the batch.
Claim(w) ==
    /\ wpc[w] = "claim"
    /\ \E i \in batch[w] :
          /\ i[1] \notin LockedByOthers(w)
          /\ status' = [status EXCEPT ![i[1]] = "DELIVERING"]
          /\ batch' = [batch EXCEPT ![w] = @ \ {i}]
          /\ item' = [item EXCEPT ![w] = i]
    /\ locking' = locking \ {w}
    /\ wpc' = [wpc EXCEPT ![w] = "lookup"]
    /\ UNCHANGED <<requestVars, ok, attempts, due, dlq, active, published,
                   emitted, wireVars, boundVars>>

\* Mutant: an inactive subscription is skipped without settling its row.
LookupSkips(w) ==
    /\ wpc[w] = "lookup"
    /\ wpc' = [wpc EXCEPT ![w] = CASE item[w][1][2] \in active -> "post"
                                   [] batch[w] = {} -> "poll"
                                   [] OTHER -> "claim"]
    /\ ok' = [ok EXCEPT ![w] = FALSE]
    /\ UNCHANGED <<requestVars, batch, item, locking, outboxVars, dlq, active,
                   published, emitted, wireVars, boundVars>>

\* SELECT the subscription (the foreign key keeps it there) and the test of
\* its active flag: an inactive one counts as a failed delivery.
Lookup(w) ==
    /\ wpc[w] = "lookup"
    /\ wpc' = [wpc EXCEPT ![w] = IF item[w][1][2] \in active THEN "post" ELSE "settle"]
    /\ ok' = [ok EXCEPT ![w] = FALSE]
    /\ UNCHANGED <<requestVars, batch, item, locking, outboxVars, dlq, active,
                   published, emitted, wireVars, boundVars>>

\* deliver_with_retry(max_attempts=1, persist_dlq=False).
Deliver(w) ==
    /\ wpc[w] = "post"
    /\ \E outcome \in Outcomes :
          /\ Posted(item[w][1], outcome)
          /\ ok' = [ok EXCEPT ![w] = (outcome = "ok")]
    /\ wpc' = [wpc EXCEPT ![w] = "settle"]
    /\ UNCHANGED <<requestVars, batch, item, locking, outboxVars, dlq, active,
                   published, emitted, boundVars>>

\* Mutant: off by one.
ExhaustedLate(n) == n > MaxAttempts

Exhausted(n) == n >= MaxAttempts

\* What the worker writes back; next_attempt comes from the polled value.
Settled(w) ==
    LET o == item[w][1]
        next == item[w][2] + 1
    IN  \/ /\ ok[w]
           /\ status' = [status EXCEPT ![o] = "DELIVERED"]
           /\ attempts' = [attempts EXCEPT ![o] = @ + 1]
           /\ UNCHANGED <<due, dlq>>
        \/ /\ ~ok[w] /\ Exhausted(next)
           /\ status' = [status EXCEPT ![o] = "FAILED"]
           /\ attempts' = [attempts EXCEPT ![o] = next]
           /\ dlq' = upsert_dlq(o, next)
           /\ UNCHANGED due
        \/ /\ ~ok[w] /\ ~Exhausted(next)
           /\ status' = [status EXCEPT ![o] = "PENDING"]
           /\ attempts' = [attempts EXCEPT ![o] = next]
           /\ due' = due \ {o}
           /\ UNCHANGED dlq

\* The UPDATE and its commit; the loop goes on with the next item.
Settle(w) ==
    /\ wpc[w] = "settle"
    /\ item[w][1] \notin LockedByOthers(w)
    /\ Settled(w)
    /\ wpc' = [wpc EXCEPT ![w] = IF batch[w] = {} THEN "poll" ELSE "claim"]
    /\ UNCHANGED <<requestVars, batch, item, locking, ok, active, published,
                   emitted, wireVars, boundVars>>

\* The worker's process dies, is shut down, or an exception ends _poll_once:
\* the session is closed and run_outbox_worker polls again.
WorkerFails(w) ==
    /\ wpc[w] # "poll"
    /\ failures < MaxFailures
    /\ failures' = failures + 1
    /\ wpc' = [wpc EXCEPT ![w] = "poll"]
    /\ batch' = [batch EXCEPT ![w] = {}]
    /\ locking' = locking \ {w}
    /\ UNCHANGED <<requestVars, item, ok, outboxVars, dlq, active, published,
                   emitted, wireVars, patches>>

-----------------------------------------------------------------------------
\* next_retry_at passes.
BackoffElapses(o) ==
    /\ status[o] = "PENDING"
    /\ o \notin due
    /\ due' = due \cup {o}
    /\ UNCHANGED <<requestVars, workerVars, status, attempts, dlq, active,
                   published, emitted, wireVars, boundVars>>

\* PATCH /api/v1/subscriptions/{id} with active.
PatchActive(s) ==
    /\ patches < MaxPatches
    /\ patches' = patches + 1
    /\ active' = IF s \in active THEN active \ {s} ELSE active \cup {s}
    /\ UNCHANGED <<requestVars, workerVars, outboxVars, dlq, published, emitted,
                   wireVars, failures>>

\* POST /api/v1/webhook-dlq/{id}/replay: one attempt to the newest
\* subscription of the consumer; the DLQ row and the outbox stay as they are.
\* The replay artifact in the document store is left out.
Replay(v, c) ==
    LET targets == {s \in Subs : ConsumerOf[s] = c}
        s == CHOOSE x \in targets : \A y \in targets : y <= x
    IN  /\ dlq[<<v, c>>] > 0
        /\ s \in active
        /\ acked' = acked \cup {<<v, s>>}
        /\ UNCHANGED <<requestVars, workerVars, outboxVars, dlq, active,
                       published, emitted, posts, boundVars>>

RequestStep(v) ==
    SelectAffected(v) \/ InsertOutbox(v) \/ InlinePost(v) \/ InlineRecord(v)
      \/ MarkOutbox(v) \/ EmitEvent(v) \/ FinishRequest(v)

WorkerStep(w) == Poll(w) \/ Claim(w) \/ Lookup(w) \/ Deliver(w) \/ Settle(w)

Next ==
    \/ \E v \in Events : RequestStep(v) \/ RequestFails(v)
    \/ \E w \in Workers : WorkerStep(w) \/ WorkerFails(w)
    \/ \E o \in Rows : BackoffElapses(o)
    \/ \E s \in Subs : PatchActive(s)
    \/ \E v \in Events, c \in Consumers : Replay(v, c)

Spec == Init /\ [][Next]_vars

(***************************************************************************)
(* A worker's loop never ends and every await in it returns (httpx has a   *)
(* timeout of 5 s), requests run to their end, and time passes.  Failures, *)
(* PATCHes and replays need not happen.                                    *)
(***************************************************************************)
FairSpec ==
    /\ Spec
    /\ \A w \in Workers : WF_vars(WorkerStep(w))
    /\ \A v \in Events : WF_vars(RequestStep(v))
    /\ \A o \in Rows : WF_vars(BackoffElapses(o))

-----------------------------------------------------------------------------
\* Types of the variables.
TypeOK ==
    /\ pc \in [Events -> {"idle", "loop", "post", "record", "mark", "commit", "done",
                          "failed"}]
    /\ affected \in [Events -> SUBSET Subs]
    /\ todo \in [Events -> SUBSET Subs]
    /\ sub \in [Events -> Subs \cup {0}]
    /\ inserted \in [Events -> SUBSET Subs]
    /\ mark \in [Events -> {<<>>} \cup (Subs \X {"DELIVERED", "FAILED"})]
    /\ delivered \in [Events -> BOOLEAN]
    /\ wpc \in [Workers -> {"poll", "claim", "lookup", "post", "settle"}]
    /\ batch \in [Workers -> SUBSET (Rows \X (0..MaxAttempts))]
    /\ item \in [Workers -> {<<>>} \cup (Rows \X (0..MaxAttempts))]
    /\ locking \subseteq Workers
    /\ ok \in [Workers -> BOOLEAN]
    /\ status \in [Rows -> {"NONE", "PENDING", "DELIVERING", "DELIVERED", "FAILED"}]
    /\ attempts \in [Rows -> Nat]
    /\ due \subseteq Rows
    /\ dlq \in [Events \X Consumers -> 0..MaxAttempts]
    /\ active \subseteq Subs
    /\ published \subseteq Events
    /\ emitted \subseteq Events
    /\ posts \in [Rows -> Nat]
    /\ acked \subseteq Rows
    /\ patches \in 0..MaxPatches
    /\ failures \in 0..MaxFailures

\* However requests and workers overlap on a row, a row that claims an
\* outcome has it: DELIVERED rows were acknowledged with a 2xx answer, FAILED
\* rows are in the dead letter queue of their consumer.
NoSilentLoss ==
    \A o \in Rows : /\ status[o] = "DELIVERED" => o \in acked
                    /\ status[o] = "FAILED" => dlq[Key(o)] > 0

\* With inline delivery the first commit publishes the version with some of its
\* outbox rows (service.py:90-107).  The others are missing for good only if
\* the request failed, and then no event was emitted either.
AnnouncedIsEnqueued ==
    \A v \in published : \A s \in affected[v] :
       status[<<v, s>>] = "NONE" => v \notin emitted /\ pc[v] \notin {"commit", "done"}

\* A consumer hears of a version that is not committed only from the inline
\* delivery that is about to commit it (webhook.py:82-99), and of one that will
\* never be only if that request failed.
HeardIsPublished ==
    \A o \in Rows : posts[o] > 0 /\ o[1] \notin published =>
       pc[o[1]] \in {"record", "failed"}

\* DELIVERING rows that no worker is handling.
Stranded ==
    {o \in Rows : /\ status[o] = "DELIVERING"
                  /\ \A w \in Workers :
                        wpc[w] \in {"lookup", "post", "settle"} => item[w][1] # o}

\* Nothing polls DELIVERING rows (outbox_worker.py:31), so one that its worker
\* leaves behind stays for ever.  A worker leaves one only by dying, and never
\* more than one at a time, however large its batch.
StrandedByFailure == Cardinality(Stranded) <= failures

\* With one worker and no inline delivery a row is POSTed at most
\* max_attempts times, also when the worker dies and restarts.
RetriesBounded == \A o \in Rows : posts[o] <= MaxAttempts

\* With one worker and no inline delivery an outcome is final: a DELIVERED or
\* FAILED row is never taken up again.
OutcomeIsFinal ==
    [][\A o \in Rows : status[o] \in {"DELIVERED", "FAILED"} =>
                          status'[o] = status[o]]_vars

\* docs/FAILURE_MODES.md:41, "Inactive subscriptions (...) are skipped entirely
\* - no delivery attempt, no DLQ entry": a dead letter has been attempted.
DeadLetterWasAttempted ==
    \A v \in Events, c \in Consumers :
       dlq[<<v, c>>] > 0 => \E s \in Subs : ConsumerOf[s] = c /\ posts[<<v, s>>] > 0

\* As long as no session dies every notification reaches an outcome for good:
\* no row is left PENDING or DELIVERING for ever, and requests and workers
\* that share rows do not keep each other from finishing.
EverythingSettles ==
    [](failures = 0) => <>[](\A o \in Rows : status[o] \in {"NONE", "DELIVERED", "FAILED"})
=============================================================================
