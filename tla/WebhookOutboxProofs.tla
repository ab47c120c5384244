------------------------ MODULE WebhookOutboxProofs -------------------------
(***************************************************************************)
(* Proofs about WebhookOutbox, for any number of events, subscriptions,    *)
(* consumers and workers, any batch size and any limit of attempts, with   *)
(* and without inline delivery.                                            *)
(*                                                                         *)
(* The argument: whoever writes an outcome into a row has the evidence in  *)
(* its hands, an acknowledged POST or a dead letter that no later write    *)
(* takes back, and a request accounts at every statement for each of the   *)
(* subscriptions it selected.  What needs a worker of its own, the bound   *)
(* of the retries, is proved for one worker without inline delivery.       *)
(***************************************************************************)
EXTENDS WebhookOutbox, FiniteSetTheorems, TLAPS

\* Statements of a worker that has claimed its item, and of an inline delivery.
Handling == {"lookup", "post", "settle"}
Delivering == {"post", "record", "mark"}
Ended == {"done", "failed"}

-----------------------------------------------------------------------------
\* A row is there only when its version is committed, and a PENDING row has
\* attempts left; ...
RowsOK ==
    \A o \in Rows : /\ status[o] = "PENDING" => attempts[o] < MaxAttempts
                    /\ status[o] = "NONE" => attempts[o] = 0
                    /\ status[o] # "NONE" => o[1] \in published

\* ... workers have such rows, as they read them, in their hands.
WorkersOK ==
    \A w \in Workers :
       /\ \A i \in batch[w] : i[2] < MaxAttempts /\ status[i[1]] # "NONE"
       /\ wpc[w] \in Handling =>
             /\ item[w] \in Rows \X (0..MaxAttempts)
             /\ item[w][2] < MaxAttempts /\ status[item[w][1]] # "NONE"

\* A request has each subscription it selected in one place: still to be
\* handled, inserted but uncommitted, or in a committed row.
RequestsOK ==
    \A v \in Events :
       /\ pc[v] = "idle" => todo[v] = {} /\ inserted[v] = {} /\ mark[v] = <<>>
                            /\ affected[v] = {} /\ v \notin published
       /\ pc[v] \in {"commit", "done"} => todo[v] = {}
       /\ pc[v] \in Ended => inserted[v] = {} /\ mark[v] = <<>>
       /\ v \in emitted => pc[v] \in {"commit"} \cup Ended
       /\ todo[v] \cap inserted[v] = {}
       /\ \A s \in todo[v] \cup inserted[v] : status[<<v, s>>] = "NONE"
       /\ pc[v] # "failed" =>
             \A s \in affected[v] \ (todo[v] \cup inserted[v]) : status[<<v, s>>] # "NONE"

\* With inline delivery at most the subscription being delivered to is
\* uncommitted; without it nothing is committed before the end.
InlineOf(v) ==
    /\ pc[v] \in Delivering => Inline /\ sub[v] \in Subs
    /\ pc[v] \in {"post", "record"} => sub[v] \in inserted[v]
    /\ pc[v] = "mark" => status[<<v, sub[v]>>] # "NONE"
    /\ Inline /\ pc[v] \notin {"post", "record"} => inserted[v] = {}
    /\ ~Inline => mark[v] = <<>> /\ (v \in published => pc[v] = "done")
    /\ mark[v] # <<>> => /\ mark[v] \in Subs \X {"DELIVERED", "FAILED"}
                         /\ status[<<v, mark[v][1]>>] # "NONE"

InlineOK == \A v \in Events : InlineOf(v)

\* The evidence of an outcome that is about to be written.
EvidenceOK ==
    /\ \A w \in Workers : wpc[w] = "settle" /\ ok[w] => item[w][1] \in acked
    /\ \A v \in Events :
          /\ pc[v] \in {"record", "mark"} /\ delivered[v] => <<v, sub[v]>> \in acked
          /\ pc[v] = "mark" /\ ~delivered[v] => dlq[Key(<<v, sub[v]>>)] > 0
          /\ mark[v] # <<>> /\ mark[v][2] = "DELIVERED" => <<v, mark[v][1]>> \in acked
          /\ mark[v] # <<>> /\ mark[v][2] = "FAILED" => dlq[Key(<<v, mark[v][1]>>)] > 0

\* The inductive invariant.
IInv ==
    /\ TypeOK /\ RowsOK /\ WorkersOK /\ RequestsOK /\ InlineOK /\ EvidenceOK
    /\ NoSilentLoss /\ AnnouncedIsEnqueued /\ HeardIsPublished

\* One worker and no inline delivery.
Alone == ~Inline /\ \A w, x \in Workers : w = x

\* The worker has its rows to itself: a POST of a row is counted before the row
\* is polled again.
AloneInv ==
    /\ RetriesBounded
    /\ \A o \in Rows : status[o] \in {"NONE", "PENDING"} => posts[o] <= attempts[o]
    /\ \A w \in Workers :
          /\ \A i \in batch[w] : status[i[1]] = "PENDING" /\ i[2] = attempts[i[1]]
          /\ wpc[w] \in Handling => status[item[w][1]] = "DELIVERING"
          /\ wpc[w] \in {"lookup", "post"} => posts[item[w][1]] <= item[w][2]
          /\ wpc[w] = "settle" => posts[item[w][1]] <= item[w][2] + 1
-----------------------------------------------------------------------------
\* A dead letter only counts upwards.
LEMMA UpsertGrows ==
    ASSUME TypeOK, NEW o \in Rows, NEW n \in 1..MaxAttempts
    PROVE  /\ upsert_dlq(o, n) \in [Events \X Consumers -> 0..MaxAttempts]
           /\ upsert_dlq(o, n)[Key(o)] > 0
           /\ \A k \in Events \X Consumers : dlq[k] > 0 => upsert_dlq(o, n)[k] > 0
<1> USE OutboxAssumption DEF TypeOK
<1>1. Key(o) \in Events \X Consumers BY DEF Key, Rows
<1>2. dlq \in [Events \X Consumers -> 0..MaxAttempts] OBVIOUS
<1>3. Max2(dlq[Key(o)], n) \in 1..MaxAttempts BY <1>1, <1>2 DEF Max2
<1>4. upsert_dlq(o, n) = [dlq EXCEPT ![Key(o)] = Max2(dlq[Key(o)], n)] BY DEF upsert_dlq
<1> QED BY <1>1, <1>2, <1>3, <1>4

\* The key of a row's dead letter.
LEMMA KeyType ==
    ASSUME NEW o \in Rows
    PROVE  Key(o) \in Events \X Consumers
  BY OutboxAssumption DEF Key, Rows

\* The initial state.
LEMMA InitIInv == ASSUME Init PROVE IInv
<1> USE OutboxAssumption DEF Init
<1>1. TypeOK
  <2>1. /\ affected \in [Events -> SUBSET Subs] /\ todo \in [Events -> SUBSET Subs]
        /\ inserted \in [Events -> SUBSET Subs] /\ sub \in [Events -> Subs \cup {0}]
        /\ mark \in [Events -> {<<>>} \cup (Subs \X {"DELIVERED", "FAILED"})]
    OBVIOUS
  <2>2. /\ batch \in [Workers -> SUBSET (Rows \X (0..MaxAttempts))]
        /\ item \in [Workers -> {<<>>} \cup (Rows \X (0..MaxAttempts))]
    OBVIOUS
  <2>3. /\ attempts \in [Rows -> Nat] /\ posts \in [Rows -> Nat]
        /\ dlq \in [Events \X Consumers -> 0..MaxAttempts]
        /\ patches \in 0..MaxPatches /\ failures \in 0..MaxFailures
    OBVIOUS
  <2> QED BY <2>1, <2>2, <2>3 DEF TypeOK
<1>2. RowsOK BY DEF RowsOK
<1>3. WorkersOK BY DEF WorkersOK, Handling
<1>4. RequestsOK BY DEF RequestsOK, Ended
<1>5. InlineOK BY DEF InlineOK, InlineOf, Delivering
<1>6. EvidenceOK BY DEF EvidenceOK
<1>7. NoSilentLoss BY DEF NoSilentLoss
<1>8. AnnouncedIsEnqueued BY DEF AnnouncedIsEnqueued
<1>9. HeardIsPublished BY DEF HeardIsPublished
<1> QED BY <1>1, <1>2, <1>3, <1>4, <1>5, <1>6, <1>7, <1>8, <1>9 DEF IInv

-----------------------------------------------------------------------------
\* Time, PATCHes and replays keep the invariant: they leave the rows' statuses
\* alone, and a replay can only add an acknowledgement.
LEMMA OutsideStep ==
    ASSUME IInv,
           \/ \E o \in Rows : BackoffElapses(o)
           \/ \E s \in Subs : PatchActive(s)
           \/ \E v \in Events, c \in Consumers : Replay(v, c)
    PROVE  IInv'
<1> USE OutboxAssumption DEF IInv, requestVars, workerVars, outboxVars, wireVars, boundVars
<1>1. /\ UNCHANGED <<requestVars, workerVars, status, attempts, dlq, published, emitted,
                     posts, failures>>
      /\ due' \subseteq Rows /\ active' \subseteq Subs /\ acked' \subseteq Rows
      /\ acked \subseteq acked' /\ patches' \in 0..MaxPatches
  <2>1. CASE \E o \in Rows : BackoffElapses(o) BY <2>1 DEF BackoffElapses, TypeOK
  <2>2. CASE \E s \in Subs : PatchActive(s) BY <2>2 DEF PatchActive, TypeOK
  <2>3. ASSUME NEW v \in Events, NEW c \in Consumers, Replay(v, c)
        PROVE  /\ acked' \subseteq Rows /\ acked \subseteq acked'
               /\ UNCHANGED <<requestVars, workerVars, outboxVars, dlq, active, published,
                              emitted, posts, boundVars>>
    <3> DEFINE s == CHOOSE x \in {y \in Subs : ConsumerOf[y] = c} :
                       \A y \in {z \in Subs : ConsumerOf[z] = c} : y <= x
    <3>1. s \in active /\ acked' = acked \cup {<<v, s>>} BY <2>3 DEF Replay
    <3>2. <<v, s>> \in Rows BY <3>1 DEF TypeOK, Rows
    <3> QED BY <2>3, <3>1, <3>2 DEF Replay, TypeOK
  <2> QED BY <2>1, <2>2, <2>3 DEF TypeOK
<1>2. TypeOK' BY <1>1 DEF TypeOK
<1>3. RowsOK' BY <1>1 DEF RowsOK
<1>4. WorkersOK' BY <1>1 DEF WorkersOK
<1>5. RequestsOK' BY <1>1 DEF RequestsOK
<1>6. InlineOK' BY <1>1 DEF InlineOK, InlineOf
<1>7. EvidenceOK' BY <1>1 DEF EvidenceOK
<1>8. NoSilentLoss' BY <1>1 DEF NoSilentLoss
<1>9. AnnouncedIsEnqueued' BY <1>1 DEF AnnouncedIsEnqueued
<1>10. HeardIsPublished' BY <1>1 DEF HeardIsPublished
<1> QED BY <1>2, <1>3, <1>4, <1>5, <1>6, <1>7, <1>8, <1>9, <1>10
\* A step that creates no row and leaves the requests alone keeps what is said
\* of them.
LEMMA RequestsKept ==
    ASSUME IInv, UNCHANGED <<requestVars, published, emitted>>,
           \A o \in Rows : status'[o] = "NONE" <=> status[o] = "NONE"
    PROVE  RequestsOK' /\ InlineOK' /\ AnnouncedIsEnqueued'
<1> USE DEF requestVars
<1>1. \A v \in Events, s \in Subs : status'[<<v, s>>] = "NONE" <=> status[<<v, s>>] = "NONE"
  BY DEF Rows
<1>t. TypeOK BY DEF IInv
<1>2. ASSUME NEW v \in Events
      PROVE  /\ todo[v] \subseteq Subs /\ inserted[v] \subseteq Subs /\ affected[v] \subseteq Subs
             /\ published \subseteq Events
  BY <1>t DEF TypeOK
<1>3. RequestsOK'
  <2> SUFFICES ASSUME NEW v \in Events
               PROVE  /\ \A s \in todo[v] \cup inserted[v] : status'[<<v, s>>] = "NONE"
                      /\ pc[v] # "failed" =>
                           \A s \in affected[v] \ (todo[v] \cup inserted[v]) :
                              status'[<<v, s>>] # "NONE"
    BY DEF IInv, RequestsOK
  <2> QED BY <1>1, <1>2 DEF IInv, RequestsOK
<1>4. InlineOK'
  <2> SUFFICES ASSUME NEW v \in Events
               PROVE  /\ pc[v] = "mark" => status'[<<v, sub[v]>>] # "NONE"
                      /\ mark[v] # <<>> => status'[<<v, mark[v][1]>>] # "NONE"
    BY DEF IInv, InlineOK, InlineOf
  <2>1. pc[v] = "mark" => sub[v] \in Subs BY DEF IInv, InlineOK, InlineOf, Delivering
  <2>2. mark[v] # <<>> => mark[v][1] \in Subs BY DEF IInv, InlineOK, InlineOf
  <2> QED BY <1>1, <2>1, <2>2 DEF IInv, InlineOK, InlineOf
<1>5. AnnouncedIsEnqueued'
  <2> SUFFICES ASSUME NEW v \in published, NEW s \in affected[v], status'[<<v, s>>] = "NONE"
               PROVE  v \notin emitted /\ pc[v] \notin {"commit", "done"}
    BY DEF AnnouncedIsEnqueued
  <2>1. v \in Events /\ s \in Subs BY <1>t DEF TypeOK
  <2> QED BY <1>1, <2>1 DEF IInv, AnnouncedIsEnqueued
<1> QED BY <1>3, <1>4, <1>5

\* Every step of a worker keeps the invariant: it handles rows as it polled
\* them, and settles one with the answer it got or with a dead letter.
LEMMA WorkerStepKeeps ==
    ASSUME IInv, NEW w \in Workers, WorkerStep(w) \/ WorkerFails(w)
    PROVE  IInv'
<1>t. TypeOK BY DEF IInv
<1> USE OutboxAssumption DEF requestVars, outboxVars, wireVars, boundVars
<1>1. CASE Poll(w)
  <2>1. PICK picked \in SUBSET Ready(w) :
           batch' = [batch EXCEPT ![w] = {<<o, attempts[o]>> : o \in picked}]
    BY <1>1 DEF Poll
  <2>2. /\ locking' = locking \cup {w} /\ wpc' = [wpc EXCEPT ![w] = "claim"]
        /\ UNCHANGED <<requestVars, item, ok, outboxVars, dlq, active, published,
                       emitted, wireVars, boundVars>>
    BY <1>1 DEF Poll
  <2>3. \A o \in picked : o \in Rows /\ status[o] = "PENDING" /\ attempts[o] < MaxAttempts
                          /\ attempts[o] \in 0..MaxAttempts
    BY <1>t DEF IInv, Ready, RowsOK, TypeOK
  <2>4. \A i \in batch'[w] : /\ i \in Rows \X (0..MaxAttempts)
                             /\ i[2] < MaxAttempts /\ status[i[1]] # "NONE"
    BY <2>1, <2>3, <1>t DEF TypeOK
  <2>5. /\ \A x \in Workers : x # w => batch'[x] = batch[x] /\ wpc'[x] = wpc[x]
        /\ wpc'[w] = "claim"
    BY <2>1, <2>2, <1>t DEF TypeOK
  <2>6. TypeOK'
    <3>1. batch' \in [Workers -> SUBSET (Rows \X (0..MaxAttempts))]
      <4>1. {<<o, attempts[o]>> : o \in picked} \subseteq Rows \X (0..MaxAttempts)
        BY <2>3
      <4> QED BY <4>1, <2>1, <1>t DEF TypeOK
    <3> QED BY <2>2, <3>1, <1>t DEF TypeOK
  <2>7. RowsOK' BY <2>2 DEF IInv, RowsOK
  <2>8. WorkersOK' BY <2>2, <2>4, <2>5 DEF IInv, WorkersOK, Handling
  <2>9. RequestsOK' /\ InlineOK' /\ AnnouncedIsEnqueued' BY <2>2, RequestsKept
  <2>10. EvidenceOK' BY <2>2, <2>5 DEF IInv, EvidenceOK
  <2>11. NoSilentLoss' /\ HeardIsPublished'
    BY <2>2 DEF IInv, NoSilentLoss, HeardIsPublished
  <2> QED BY <2>6, <2>7, <2>8, <2>9, <2>10, <2>11 DEF IInv
<1>2. CASE Claim(w)
  <2>1. PICK i \in batch[w] :
           /\ status' = [status EXCEPT ![i[1]] = "DELIVERING"]
           /\ batch' = [batch EXCEPT ![w] = @ \ {i}]
           /\ item' = [item EXCEPT ![w] = i]
    BY <1>2 DEF Claim
  <2>2. /\ locking' = locking \ {w} /\ wpc' = [wpc EXCEPT ![w] = "lookup"]
        /\ UNCHANGED <<requestVars, ok, attempts, due, dlq, active, published,
                       emitted, wireVars, boundVars>>
    BY <1>2 DEF Claim
  <2>3. i \in Rows \X (0..MaxAttempts) /\ i[1] \in Rows BY <1>t DEF TypeOK
  <2>4. i[2] < MaxAttempts /\ status[i[1]] # "NONE" BY DEF IInv, WorkersOK
  <2>5. /\ \A x \in Workers : x # w => /\ batch'[x] = batch[x] /\ wpc'[x] = wpc[x]
                                       /\ item'[x] = item[x]
        /\ wpc'[w] = "lookup" /\ item'[w] = i /\ batch'[w] \subseteq batch[w]
        /\ \A o \in Rows : /\ status'[o] # status[o] => o = i[1]
                           /\ status'[o] = "NONE" <=> status[o] = "NONE"
                           /\ status'[o] \in {status[o], "DELIVERING"}
    BY <2>1, <2>2, <2>3, <2>4, <1>t DEF TypeOK
  <2>6. TypeOK' BY <2>1, <2>2, <2>3, <1>t DEF TypeOK
  <2>7. RowsOK' BY <2>2, <2>5 DEF IInv, RowsOK
  <2>8. WorkersOK'
    <3>1. \A x \in Workers : \A j \in batch[x] : j[1] \in Rows BY <1>t DEF TypeOK
    <3> QED BY <2>2, <2>3, <2>4, <2>5, <3>1, <1>t DEF IInv, WorkersOK, Handling
  <2>9. RequestsOK' /\ InlineOK' /\ AnnouncedIsEnqueued' BY <2>2, <2>5, RequestsKept
  <2>10. EvidenceOK' BY <2>2, <2>5 DEF IInv, EvidenceOK
  <2>11. NoSilentLoss' BY <2>2, <2>5 DEF IInv, NoSilentLoss
  <2>12. HeardIsPublished' BY <2>2 DEF IInv, HeardIsPublished
  <2> QED BY <2>6, <2>7, <2>8, <2>9, <2>10, <2>11, <2>12 DEF IInv
<1>3. CASE Lookup(w)
  <2>1. /\ \E label \in {"post", "settle"} : wpc' = [wpc EXCEPT ![w] = label]
        /\ ok' = [ok EXCEPT ![w] = FALSE] /\ wpc[w] = "lookup"
        /\ UNCHANGED <<requestVars, batch, item, locking, outboxVars, dlq, active,
                       published, emitted, wireVars, boundVars>>
    BY <1>3 DEF Lookup
  <2>2. /\ \A x \in Workers : x # w => wpc'[x] = wpc[x] /\ ok'[x] = ok[x]
        /\ wpc'[w] \in {"post", "settle"} /\ ok'[w] = FALSE
    BY <2>1, <1>t DEF TypeOK
  <2>3. TypeOK' BY <2>1, <1>t DEF TypeOK
  <2>4. RowsOK' BY <2>1 DEF IInv, RowsOK
  <2>5. WorkersOK' BY <2>1, <2>2 DEF IInv, WorkersOK, Handling
  <2>6. RequestsOK' /\ InlineOK' /\ AnnouncedIsEnqueued' BY <2>1, RequestsKept
  <2>7. EvidenceOK' BY <2>1, <2>2 DEF IInv, EvidenceOK
  <2>8. NoSilentLoss' /\ HeardIsPublished' BY <2>1 DEF IInv, NoSilentLoss, HeardIsPublished
  <2> QED BY <2>3, <2>4, <2>5, <2>6, <2>7, <2>8 DEF IInv
<1>4. CASE Deliver(w)
  <2>0. item[w][1] \in Rows /\ status[item[w][1]] # "NONE" /\ wpc[w] = "post"
    BY <1>4 DEF Deliver, IInv, WorkersOK, Handling
  <2>1. /\ wpc' = [wpc EXCEPT ![w] = "settle"]
        /\ posts' = [posts EXCEPT ![item[w][1]] = @ + 1]
        /\ acked \subseteq acked' /\ acked' \subseteq acked \cup {item[w][1]}
        /\ \E b \in BOOLEAN : ok' = [ok EXCEPT ![w] = b] /\ (b => item[w][1] \in acked')
        /\ UNCHANGED <<requestVars, batch, item, locking, outboxVars, dlq, active,
                       published, emitted, boundVars>>
    BY <1>4 DEF Deliver, Posted
  <2>2. /\ \A x \in Workers : x # w => wpc'[x] = wpc[x] /\ ok'[x] = ok[x]
        /\ wpc'[w] = "settle" /\ (ok'[w] => item[w][1] \in acked')
        /\ \A o \in Rows : posts'[o] # posts[o] => o[1] \in published
    BY <2>0, <2>1, <1>t DEF TypeOK, IInv, RowsOK
  <2>3. TypeOK'
    <3>1. posts' \in [Rows -> Nat] /\ ok' \in [Workers -> BOOLEAN] BY <2>0, <2>1, <1>t DEF TypeOK
    <3>2. wpc' \in [Workers -> {"poll", "claim", "lookup", "post", "settle"}]
      BY <2>1, <1>t DEF TypeOK
    <3> QED BY <2>0, <2>1, <3>1, <3>2, <1>t DEF TypeOK
  <2>4. RowsOK' BY <2>1 DEF IInv, RowsOK
  <2>5. WorkersOK' BY <2>0, <2>1, <2>2 DEF IInv, WorkersOK, Handling
  <2>6. RequestsOK' /\ InlineOK' /\ AnnouncedIsEnqueued' BY <2>1, RequestsKept
  <2>7. EvidenceOK' BY <2>1, <2>2 DEF IInv, EvidenceOK
  <2>8. NoSilentLoss' BY <2>1 DEF IInv, NoSilentLoss
  <2>9. HeardIsPublished' BY <2>1, <2>2 DEF IInv, HeardIsPublished
  <2> QED BY <2>3, <2>4, <2>5, <2>6, <2>7, <2>8, <2>9 DEF IInv
<1>5. CASE Settle(w)
  <2> DEFINE o == item[w][1]
             next == item[w][2] + 1
  <2>0. /\ o \in Rows /\ status[o] # "NONE" /\ wpc[w] = "settle"
        /\ next \in 1..MaxAttempts
    <3>1. wpc[w] = "settle" BY <1>5 DEF Settle
    <3>2. item[w] \in Rows \X (0..MaxAttempts) /\ item[w][2] < MaxAttempts
          /\ status[o] # "NONE"
      BY <3>1 DEF IInv, WorkersOK, Handling
    <3> QED BY <3>1, <3>2
  <2>1. /\ wpc' = [wpc EXCEPT ![w] = IF batch[w] = {} THEN "poll" ELSE "claim"]
        /\ UNCHANGED <<requestVars, batch, item, locking, ok, active, published,
                       emitted, wireVars, boundVars>>
    BY <1>5 DEF Settle
  <2>2. \/ /\ ok[w] /\ status' = [status EXCEPT ![o] = "DELIVERED"]
           /\ attempts' = [attempts EXCEPT ![o] = @ + 1] /\ UNCHANGED <<due, dlq>>
        \/ /\ status' = [status EXCEPT ![o] = "FAILED"]
           /\ attempts' = [attempts EXCEPT ![o] = next]
           /\ dlq' = upsert_dlq(o, next) /\ UNCHANGED due
        \/ /\ next < MaxAttempts /\ status' = [status EXCEPT ![o] = "PENDING"]
           /\ attempts' = [attempts EXCEPT ![o] = next]
           /\ due' = due \ {o} /\ UNCHANGED dlq
    <3>1. ~Exhausted(next) => next < MaxAttempts BY <2>0 DEF Exhausted
    <3> QED BY <1>5, <3>1 DEF Settle, Settled
  <2>3. /\ dlq' \in [Events \X Consumers -> 0..MaxAttempts]
        /\ \A k \in Events \X Consumers : dlq[k] > 0 => dlq'[k] > 0
        /\ status'[o] = "FAILED" => dlq'[Key(o)] > 0
    <3>1. CASE dlq' = upsert_dlq(o, next) BY <3>1, <2>0, <1>t, UpsertGrows
    <3>2. CASE dlq' = dlq /\ status'[o] # "FAILED" BY <3>2, <1>t DEF TypeOK
    <3>3. status[o] \in {"PENDING", "DELIVERING", "DELIVERED", "FAILED"}
      BY <2>0, <1>t DEF TypeOK
    <3> QED BY <2>2, <3>1, <3>2, <2>0, <1>t DEF TypeOK
  <2>4. /\ \A x \in Rows : x # o => status'[x] = status[x] /\ attempts'[x] = attempts[x]
        /\ status'[o] \in {"DELIVERED", "FAILED", "PENDING"}
        /\ attempts'[o] \in Nat /\ (status'[o] = "PENDING" => attempts'[o] < MaxAttempts)
        /\ status'[o] = "DELIVERED" => ok[w]
        /\ due' \subseteq due
    BY <2>0, <2>2, <1>t DEF TypeOK
  <2>5. \A x \in Rows : status'[x] = "NONE" <=> status[x] = "NONE" BY <2>0, <2>4
  <2>6. TypeOK'
    <3>1. status' \in [Rows -> {"NONE", "PENDING", "DELIVERING", "DELIVERED", "FAILED"}]
      BY <2>2, <1>t DEF TypeOK
    <3>2. attempts' \in [Rows -> Nat]
      <4>1. attempts \in [Rows -> Nat] /\ next \in Nat BY <2>0, <1>t DEF TypeOK
      <4>2. CASE attempts' = [attempts EXCEPT ![o] = @ + 1]
        <5>1. attempts[o] + 1 \in Nat BY <2>0, <4>1
        <5> QED BY <4>1, <4>2, <5>1
      <4>3. CASE attempts' = [attempts EXCEPT ![o] = next] BY <4>1, <4>3
      <4> QED BY <2>2, <4>2, <4>3
    <3>3. wpc' \in [Workers -> {"poll", "claim", "lookup", "post", "settle"}]
      BY <2>1, <1>t DEF TypeOK
    <3> QED BY <2>1, <2>3, <2>4, <3>1, <3>2, <3>3, <1>t DEF TypeOK
  <2>7. RowsOK' BY <2>0, <2>1, <2>4 DEF IInv, RowsOK
  <2>8. WorkersOK'
    <3>1. \A x \in Workers : x # w => wpc'[x] = wpc[x] BY <2>1, <1>t DEF TypeOK
    <3>2. wpc'[w] \notin Handling BY <2>1, <1>t DEF TypeOK, Handling
    <3>3. \A x \in Workers : \A i \in batch[x] : i[1] \in Rows BY <1>t DEF TypeOK
    <3> QED BY <2>1, <2>5, <3>1, <3>2, <3>3 DEF IInv, WorkersOK
  <2>9. RequestsOK' /\ InlineOK' /\ AnnouncedIsEnqueued' BY <2>1, <2>5, RequestsKept
  <2>10. EvidenceOK'
    <3>1. \A x \in Workers : wpc'[x] = "settle" => wpc[x] = "settle"
      BY <2>1, <1>t DEF TypeOK
    <3>2. \A v \in Events, s \in Subs : dlq[Key(<<v, s>>)] > 0 => dlq'[Key(<<v, s>>)] > 0
      BY <2>3, KeyType DEF Rows
    <3>3. \A v \in Events : /\ pc[v] = "mark" => sub[v] \in Subs
                            /\ mark[v] # <<>> => mark[v][1] \in Subs
      BY DEF IInv, InlineOK, InlineOf, Delivering
    <3> QED BY <2>1, <3>1, <3>2, <3>3 DEF IInv, EvidenceOK
  <2>11. NoSilentLoss'
    <3>1. \A x \in Rows : dlq[Key(x)] > 0 => dlq'[Key(x)] > 0 BY <2>3, KeyType
    <3>2. status'[o] = "DELIVERED" => o \in acked BY <2>0, <2>4 DEF IInv, EvidenceOK
    <3> QED BY <2>1, <2>3, <2>4, <3>1, <3>2 DEF IInv, NoSilentLoss
  <2>12. HeardIsPublished' BY <2>1 DEF IInv, HeardIsPublished
  <2> QED BY <2>6, <2>7, <2>8, <2>9, <2>10, <2>11, <2>12 DEF IInv
<1>6. CASE WorkerFails(w)
  <2>1. /\ wpc' = [wpc EXCEPT ![w] = "poll"] /\ batch' = [batch EXCEPT ![w] = {}]
        /\ failures' = failures + 1 /\ failures < MaxFailures /\ locking' = locking \ {w}
        /\ UNCHANGED <<requestVars, item, ok, outboxVars, dlq, active, published,
                       emitted, wireVars, patches>>
    BY <1>6 DEF WorkerFails
  <2>2. /\ \A x \in Workers : x # w => wpc'[x] = wpc[x] /\ batch'[x] = batch[x]
        /\ wpc'[w] = "poll" /\ batch'[w] = {}
    BY <2>1, <1>t DEF TypeOK
  <2>3. TypeOK' BY <2>1, <1>t DEF TypeOK
  <2>4. RowsOK' BY <2>1 DEF IInv, RowsOK
  <2>5. WorkersOK' BY <2>1, <2>2 DEF IInv, WorkersOK, Handling
  <2>6. RequestsOK' /\ InlineOK' /\ AnnouncedIsEnqueued' BY <2>1, RequestsKept
  <2>7. EvidenceOK' BY <2>1, <2>2 DEF IInv, EvidenceOK
  <2>8. NoSilentLoss' /\ HeardIsPublished' BY <2>1 DEF IInv, NoSilentLoss, HeardIsPublished
  <2> QED BY <2>3, <2>4, <2>5, <2>6, <2>7, <2>8 DEF IInv
<1> QED BY <1>1, <1>2, <1>3, <1>4, <1>5, <1>6 DEF WorkerStep
-----------------------------------------------------------------------------
\* What a commit of a request's session does to the tables: its inserted rows
\* appear, its UPDATE takes effect, every other row stays as it is.
LEMMA CommitEffect ==
    ASSUME IInv, NEW v \in Events, CommitRequest(v)
    PROVE  /\ status' \in [Rows -> {"NONE", "PENDING", "DELIVERING", "DELIVERED", "FAILED"}]
           /\ attempts' \in [Rows -> Nat] /\ due' \subseteq Rows
           /\ \A o \in Rows : \/ status'[o] = status[o] /\ attempts'[o] = attempts[o]
                              \/ /\ o[1] = v /\ o[2] \in inserted[v] /\ status[o] = "NONE"
                                 /\ status'[o] = "PENDING" /\ attempts'[o] = attempts[o]
                              \/ /\ o[1] = v /\ mark[v] # <<>> /\ o[2] = mark[v][1]
                                 /\ status'[o] = mark[v][2]
           /\ \A s \in inserted[v] : status'[<<v, s>>] = "PENDING"
<1> DEFINE new == {<<v, s>> : s \in inserted[v]}
           marked == IF mark[v] = <<>> THEN {} ELSE {<<v, mark[v][1]>>}
<1>t. TypeOK BY DEF IInv
<1>1. inserted[v] \subseteq Subs /\ status \in [Rows -> {"NONE", "PENDING", "DELIVERING", "DELIVERED", "FAILED"}]
      /\ attempts \in [Rows -> Nat] /\ due \subseteq Rows
  BY <1>t DEF TypeOK
<1>2. mark[v] # <<>> => /\ mark[v][1] \in Subs /\ mark[v][2] \in {"DELIVERED", "FAILED"}
                        /\ status[<<v, mark[v][1]>>] # "NONE"
  BY DEF IInv, InlineOK, InlineOf
<1>3. new \subseteq Rows /\ marked \subseteq Rows BY <1>1, <1>2 DEF Rows
<1>4. /\ status' = [o \in Rows |-> CASE o \in marked -> mark[v][2]
                                     [] o \in new -> "PENDING"
                                     [] OTHER -> status[o]]
      /\ attempts' = [o \in Rows |-> IF o \in marked THEN attempts[o] + 1
                                                     ELSE attempts[o]]
      /\ due' = due \cup new
  BY DEF CommitRequest
<1>5. \A o \in marked : o[1] = v /\ mark[v] # <<>> /\ o[2] = mark[v][1] /\ status[o] # "NONE"
                        /\ mark[v][2] \in {"DELIVERED", "FAILED"}
  BY <1>2
<1>6. \A s \in inserted[v] : <<v, s>> \in new /\ status[<<v, s>>] = "NONE"
  BY DEF IInv, RequestsOK
<1>7. \A o \in new : o \notin marked /\ o[1] = v /\ o[2] \in inserted[v] /\ status[o] = "NONE"
  BY <1>5, <1>6
<1>8. \A o \in Rows : /\ o \in marked => status'[o] = mark[v][2]
                      /\ o \in new => status'[o] = "PENDING" /\ attempts'[o] = attempts[o]
                      /\ o \notin marked \cup new => status'[o] = status[o] /\ attempts'[o] = attempts[o]
  <2> SUFFICES ASSUME NEW o \in Rows
               PROVE  /\ o \in marked => status'[o] = mark[v][2]
                      /\ o \in new => status'[o] = "PENDING" /\ attempts'[o] = attempts[o]
                      /\ o \notin marked \cup new => status'[o] = status[o] /\ attempts'[o] = attempts[o]
    OBVIOUS
  <2>1. o \notin marked => attempts'[o] = attempts[o] BY <1>4
  <2>a. status'[o] = CASE o \in marked -> mark[v][2]
                       [] o \in new -> "PENDING"
                       [] OTHER -> status[o]
    BY <1>4
  <2>b. ~(o \in marked /\ o \in new) BY <1>7
  <2> HIDE DEF new, marked
  <2>2. /\ o \in marked => status'[o] = mark[v][2]
        /\ o \notin marked /\ o \in new => status'[o] = "PENDING"
        /\ o \notin marked /\ o \notin new => status'[o] = status[o]
    BY <2>a, <2>b
  <2> QED BY <2>1, <2>2, <1>7
<1>9. attempts' \in [Rows -> Nat]
  <2>1. \A o \in Rows : (IF o \in marked THEN attempts[o] + 1 ELSE attempts[o]) \in Nat BY <1>1
  <2> QED BY <2>1, <1>4
<1>10. status' \in [Rows -> {"NONE", "PENDING", "DELIVERING", "DELIVERED", "FAILED"}]
  <2>1. \A o \in Rows : (CASE o \in marked -> mark[v][2] [] o \in new -> "PENDING" [] OTHER -> status[o])
                        \in {"NONE", "PENDING", "DELIVERING", "DELIVERED", "FAILED"}
    BY <1>1, <1>5
  <2> QED BY <2>1, <1>4
<1>11. due' \subseteq Rows BY <1>1, <1>3, <1>4
<1> HIDE DEF new, marked
<1>12. \A o \in Rows : \/ status'[o] = status[o] /\ attempts'[o] = attempts[o]
                       \/ /\ o[1] = v /\ o[2] \in inserted[v] /\ status[o] = "NONE"
                          /\ status'[o] = "PENDING" /\ attempts'[o] = attempts[o]
                       \/ /\ o[1] = v /\ mark[v] # <<>> /\ o[2] = mark[v][1]
                          /\ status'[o] = mark[v][2]
  BY <1>5, <1>7, <1>8
<1>13. \A s \in inserted[v] : status'[<<v, s>>] = "PENDING" BY <1>3, <1>6, <1>8
<1> QED BY <1>9, <1>10, <1>11, <1>12, <1>13
\* The two commits of a request, after an inline attempt and at its end, keep
\* the invariant.
LEMMA CommitKeeps ==
    ASSUME IInv, NEW v \in Events, InlineRecord(v) \/ FinishRequest(v)
    PROVE  IInv'
<1>t. TypeOK BY DEF IInv
<1> USE OutboxAssumption DEF requestVars, workerVars, outboxVars, wireVars, boundVars
<1>1. /\ CommitRequest(v) /\ mark' = [mark EXCEPT ![v] = <<>>]
      /\ UNCHANGED <<affected, todo, sub, delivered, workerVars, active, emitted, wireVars,
                     boundVars>>
      /\ \/ pc[v] = "record" /\ pc' = [pc EXCEPT ![v] = "mark"] /\ dlq' = RecordedDlq(v)
         \/ pc[v] = "commit" /\ pc' = [pc EXCEPT ![v] = "done"] /\ dlq' = dlq
  BY DEF InlineRecord, FinishRequest
<1>2. /\ published' = published \cup {v} /\ inserted' = [inserted EXCEPT ![v] = {}]
  BY <1>1 DEF CommitRequest
<1>3. /\ \A u \in Events : u # v => /\ pc'[u] = pc[u] /\ mark'[u] = mark[u]
                                    /\ inserted'[u] = inserted[u]
      /\ mark'[v] = <<>> /\ inserted'[v] = {}
      /\ \/ pc[v] = "record" /\ pc'[v] = "mark"
         \/ pc[v] = "commit" /\ pc'[v] = "done"
  BY <1>1, <1>2, <1>t DEF TypeOK
<1>4. \A u \in Events : /\ todo[u] \subseteq Subs /\ inserted[u] \subseteq Subs
                        /\ affected[u] \subseteq Subs
  BY <1>t DEF TypeOK
<1>5. mark[v] # <<>> => /\ mark[v][1] \in Subs /\ mark[v][2] \in {"DELIVERED", "FAILED"}
                        /\ status[<<v, mark[v][1]>>] # "NONE"
  BY DEF IInv, InlineOK, InlineOf
<1>6. \A o \in Rows : \/ status'[o] = status[o] /\ attempts'[o] = attempts[o]
                      \/ /\ o[1] = v /\ o[2] \in inserted[v] /\ status[o] = "NONE"
                         /\ status'[o] = "PENDING" /\ attempts'[o] = attempts[o]
                      \/ /\ o[1] = v /\ mark[v] # <<>> /\ o[2] = mark[v][1]
                         /\ status'[o] = mark[v][2] /\ status[o] # "NONE"
  <2> SUFFICES ASSUME NEW o \in Rows
               PROVE  o[1] = v /\ mark[v] # <<>> /\ o[2] = mark[v][1] => status[o] # "NONE"
    BY <1>1, CommitEffect
  <2>1. o = <<o[1], o[2]>> BY DEF Rows
  <2> QED BY <2>1, <1>5
<1>7. \A s \in inserted[v] : status'[<<v, s>>] = "PENDING" BY <1>1, CommitEffect
<1>8. \A o \in Rows : status[o] # "NONE" => status'[o] # "NONE" BY <1>5, <1>6
<1>9. \A u \in Events, s \in Subs :
         /\ <<u, s>> \in Rows
         /\ status[<<u, s>>] # "NONE" => status'[<<u, s>>] # "NONE"
         /\ u # v \/ s \notin inserted[v] => (status'[<<u, s>>] = "NONE" <=> status[<<u, s>>] = "NONE")
  BY <1>6, <1>8 DEF Rows
<1>10. /\ dlq' \in [Events \X Consumers -> 0..MaxAttempts]
       /\ \A k \in Events \X Consumers : dlq[k] > 0 => dlq'[k] > 0
       /\ pc'[v] = "mark" /\ ~delivered[v] => dlq'[Key(<<v, sub[v]>>)] > 0
  <2>1. CASE pc[v] = "record" /\ dlq' = RecordedDlq(v)
    <3>1. <<v, sub[v]>> \in Rows BY <2>1 DEF IInv, InlineOK, InlineOf, Delivering, Rows
    <3>2. CASE delivered[v] BY <2>1, <3>2, <1>t DEF RecordedDlq, TypeOK
    <3>3. CASE ~delivered[v]
      <4>1. dlq' = upsert_dlq(<<v, sub[v]>>, 1) BY <2>1, <3>3 DEF RecordedDlq
      <4>2. 1 \in 1..MaxAttempts OBVIOUS
      <4> QED BY <4>1, <4>2, <3>1, <1>t, UpsertGrows
    <3> QED BY <3>2, <3>3
  <2>2. CASE pc'[v] = "done" /\ dlq' = dlq BY <2>2, <1>t DEF TypeOK
  <2> QED BY <1>1, <1>3, <2>1, <2>2
<1>11. TypeOK'
  <2>1. /\ pc' \in [Events -> {"idle", "loop", "post", "record", "mark", "commit", "done",
                               "failed"}]
        /\ mark' \in [Events -> {<<>>} \cup (Subs \X {"DELIVERED", "FAILED"})]
        /\ inserted' \in [Events -> SUBSET Subs] /\ published' \subseteq Events
    BY <1>1, <1>2, <1>t DEF TypeOK
  <2>2. /\ status' \in [Rows -> {"NONE", "PENDING", "DELIVERING", "DELIVERED", "FAILED"}]
        /\ attempts' \in [Rows -> Nat] /\ due' \subseteq Rows
    BY <1>1, CommitEffect
  <2> QED BY <1>1, <1>10, <2>1, <2>2, <1>t DEF TypeOK
<1>12. RowsOK'
  <2> SUFFICES ASSUME NEW o \in Rows
               PROVE  /\ status'[o] = "PENDING" => attempts'[o] < MaxAttempts
                      /\ status'[o] = "NONE" => attempts'[o] = 0
                      /\ status'[o] # "NONE" => o[1] \in published'
    BY DEF RowsOK
  <2>1. /\ status[o] = "PENDING" => attempts[o] < MaxAttempts
        /\ status[o] = "NONE" => attempts[o] = 0
        /\ status[o] # "NONE" => o[1] \in published
    BY DEF IInv, RowsOK
  <2>2. MaxAttempts > 0 OBVIOUS
  <2> QED BY <1>2, <1>5, <1>6, <2>1, <2>2
<1>13. WorkersOK'
  <2>1. \A x \in Workers : \A i \in batch[x] : i[1] \in Rows BY <1>t DEF TypeOK
  <2> QED BY <1>1, <1>8, <2>1 DEF IInv, WorkersOK
<1>14. RequestsOK'
  <2> SUFFICES ASSUME NEW u \in Events PROVE
       /\ pc'[u] = "idle" => todo[u] = {} /\ inserted'[u] = {} /\ mark'[u] = <<>>
                             /\ affected[u] = {} /\ u \notin published'
       /\ pc'[u] \in {"commit", "done"} => todo[u] = {}
       /\ pc'[u] \in Ended => inserted'[u] = {} /\ mark'[u] = <<>>
       /\ u \in emitted => pc'[u] \in {"commit"} \cup Ended
       /\ todo[u] \cap inserted'[u] = {}
       /\ \A s \in todo[u] \cup inserted'[u] : status'[<<u, s>>] = "NONE"
       /\ pc'[u] # "failed" =>
             \A s \in affected[u] \ (todo[u] \cup inserted'[u]) : status'[<<u, s>>] # "NONE"
    BY <1>1 DEF RequestsOK
  <2>1. CASE u # v BY <2>1, <1>2, <1>3, <1>4, <1>9 DEF IInv, RequestsOK
  <2>2. CASE u = v
    <3>1. todo[v] \cap inserted[v] = {} /\ \A s \in todo[v] : status[<<v, s>>] = "NONE"
      BY DEF IInv, RequestsOK
    <3>2. \A s \in todo[v] : status'[<<v, s>>] = "NONE" BY <3>1, <1>4, <1>9
    <3>3. \A s \in affected[v] \ todo[v] : status'[<<v, s>>] # "NONE"
      BY <1>3, <1>4, <1>7, <1>9 DEF IInv, RequestsOK
    <3>4. /\ pc'[v] = "done" => todo[v] = {}
          /\ v \in emitted => pc'[v] = "done"
      BY <1>3 DEF IInv, RequestsOK, Ended
    <3> QED BY <2>2, <3>1, <3>2, <3>3, <3>4, <1>3 DEF Ended
  <2> QED BY <2>1, <2>2
<1>15. InlineOK'
  <2> SUFFICES ASSUME NEW u \in Events PROVE
       /\ pc'[u] \in Delivering => Inline /\ sub[u] \in Subs
       /\ pc'[u] \in {"post", "record"} => sub[u] \in inserted'[u]
       /\ pc'[u] = "mark" => status'[<<u, sub[u]>>] # "NONE"
       /\ Inline /\ pc'[u] \notin {"post", "record"} => inserted'[u] = {}
       /\ ~Inline => mark'[u] = <<>> /\ (u \in published' => pc'[u] = "done")
       /\ mark'[u] # <<>> => /\ mark'[u] \in Subs \X {"DELIVERED", "FAILED"}
                             /\ status'[<<u, mark'[u][1]>>] # "NONE"
    BY <1>1 DEF InlineOK, InlineOf
  <2>1. CASE u # v
    <3>1. mark[u] # <<>> => mark[u][1] \in Subs BY DEF IInv, InlineOK, InlineOf
    <3>2. pc[u] = "mark" => sub[u] \in Subs BY DEF IInv, InlineOK, InlineOf, Delivering
    <3>3. /\ pc'[u] = pc[u] /\ mark'[u] = mark[u] /\ inserted'[u] = inserted[u]
          /\ u \in published' => u \in published
      BY <2>1, <1>2, <1>3
    <3>4. /\ pc[u] = "mark" => status'[<<u, sub[u]>>] # "NONE"
          /\ mark[u] # <<>> => status'[<<u, mark[u][1]>>] # "NONE"
      BY <3>1, <3>2, <1>9 DEF IInv, InlineOK, InlineOf
    <3> QED BY <3>3, <3>4 DEF IInv, InlineOK, InlineOf
  <2>2. CASE u = v
    <3>1. pc[v] = "record" => Inline /\ sub[v] \in Subs /\ sub[v] \in inserted[v]
      BY DEF IInv, InlineOK, InlineOf, Delivering
    <3>2. pc'[v] = "mark" => status'[<<v, sub[v]>>] # "NONE" BY <3>1, <1>3, <1>7
    <3> QED BY <2>2, <3>1, <3>2, <1>3 DEF Delivering
  <2> QED BY <2>1, <2>2
<1>16. EvidenceOK'
  <2>1. \A u \in Events : /\ pc[u] = "mark" => sub[u] \in Subs
                          /\ mark[u] # <<>> => mark[u][1] \in Subs
    BY DEF IInv, InlineOK, InlineOf, Delivering
  <2>2. \A u \in Events, s \in Subs : dlq[Key(<<u, s>>)] > 0 => dlq'[Key(<<u, s>>)] > 0
    BY <1>10, KeyType DEF Rows
  <2>3. \A w \in Workers : wpc[w] = "settle" /\ ok[w] => item[w][1] \in acked
    BY DEF IInv, EvidenceOK
  <2>4. ASSUME NEW u \in Events PROVE
          /\ pc'[u] \in {"record", "mark"} /\ delivered[u] => <<u, sub[u]>> \in acked
          /\ pc'[u] = "mark" /\ ~delivered[u] => dlq'[Key(<<u, sub[u]>>)] > 0
          /\ mark'[u] # <<>> /\ mark'[u][2] = "DELIVERED" => <<u, mark'[u][1]>> \in acked
          /\ mark'[u] # <<>> /\ mark'[u][2] = "FAILED" => dlq'[Key(<<u, mark'[u][1]>>)] > 0
    <3>1. CASE u # v BY <3>1, <2>1, <2>2, <1>3 DEF IInv, EvidenceOK
    <3>2. CASE u = v BY <3>2, <1>3, <1>10 DEF IInv, EvidenceOK
    <3> QED BY <3>1, <3>2
  <2> QED BY <2>3, <2>4, <1>1 DEF EvidenceOK
<1>17. NoSilentLoss'
  <2> SUFFICES ASSUME NEW o \in Rows
               PROVE  /\ status'[o] = "DELIVERED" => o \in acked
                      /\ status'[o] = "FAILED" => dlq'[Key(o)] > 0
    BY <1>1 DEF NoSilentLoss
  <2>1. dlq[Key(o)] > 0 => dlq'[Key(o)] > 0 BY <1>10, KeyType
  <2>2. o = <<o[1], o[2]>> BY DEF Rows
  <2>3. o[1] = v /\ mark[v] # <<>> /\ o[2] = mark[v][1] =>
           /\ mark[v][2] = "DELIVERED" => o \in acked
           /\ mark[v][2] = "FAILED" => dlq[Key(o)] > 0
    BY <2>2 DEF IInv, EvidenceOK
  <2>4. /\ status[o] = "DELIVERED" => o \in acked
        /\ status[o] = "FAILED" => dlq[Key(o)] > 0
    BY DEF IInv, NoSilentLoss
  <2> QED BY <2>1, <2>3, <2>4, <1>6
<1>18. AnnouncedIsEnqueued'
  <2> SUFFICES ASSUME NEW u \in published', NEW s \in affected[u], status'[<<u, s>>] = "NONE"
               PROVE  u \notin emitted /\ pc'[u] \notin {"commit", "done"}
    BY <1>1 DEF AnnouncedIsEnqueued
  <2>1. u \in Events /\ s \in Subs BY <1>2, <1>4, <1>t DEF TypeOK
  <2>2. CASE u # v
    <3>1. u \in published /\ status[<<u, s>>] = "NONE" /\ pc'[u] = pc[u]
      BY <2>1, <2>2, <1>2, <1>3, <1>9
    <3> QED BY <3>1 DEF IInv, AnnouncedIsEnqueued
  <2>3. CASE u = v
    <3>1. s \in todo[v] \cup inserted[v] BY <2>1, <2>3, <1>3, <1>9 DEF IInv, RequestsOK
    <3>2. s \in todo[v] BY <2>3, <3>1, <1>7
    <3>3. pc[v] = "record" /\ pc'[v] = "mark" BY <3>2, <1>3 DEF IInv, RequestsOK
    <3> QED BY <2>3, <3>3 DEF IInv, RequestsOK, Ended
  <2> QED BY <2>2, <2>3
<1>19. HeardIsPublished'
  <2>1. \A o \in Rows : o[1] \in Events BY DEF Rows
  <2> QED BY <2>1, <1>1, <1>2, <1>3 DEF IInv, HeardIsPublished
<1> QED BY <1>11, <1>12, <1>13, <1>14, <1>15, <1>16, <1>17, <1>18, <1>19 DEF IInv
\* The other statements of a request leave the committed rows alone; a request
\* that fails loses what it had not committed.
LEMMA RequestStepKeeps ==
    ASSUME IInv, NEW v \in Events, RequestStep(v) \/ RequestFails(v)
    PROVE  IInv'
<1>t. TypeOK BY DEF IInv
<1> USE OutboxAssumption DEF requestVars, workerVars, outboxVars, wireVars, boundVars
<1>r. /\ pc[v] = "idle" => todo[v] = {} /\ inserted[v] = {} /\ mark[v] = <<>>
                           /\ affected[v] = {} /\ v \notin published
      /\ todo[v] \cap inserted[v] = {}
      /\ \A s \in todo[v] \cup inserted[v] : status[<<v, s>>] = "NONE"
      /\ pc[v] # "failed" =>
            \A s \in affected[v] \ (todo[v] \cup inserted[v]) : status[<<v, s>>] # "NONE"
      /\ todo[v] \subseteq Subs /\ inserted[v] \subseteq Subs /\ affected[v] \subseteq Subs
  BY <1>t DEF IInv, RequestsOK, TypeOK
<1>s. v \notin published => \A s \in Subs : status[<<v, s>>] = "NONE"
  <2>1. \A s \in Subs : <<v, s>> \in Rows /\ <<v, s>>[1] = v BY DEF Rows
  <2> QED BY <2>1 DEF IInv, RowsOK
<1>1. CASE SelectAffected(v)
  <2>1. /\ pc[v] = "idle" /\ pc' = [pc EXCEPT ![v] = "loop"]
        /\ \E S \in SUBSET Subs : /\ affected' = [affected EXCEPT ![v] = S]
                                  /\ todo' = [todo EXCEPT ![v] = S]
        /\ UNCHANGED <<sub, inserted, mark, delivered, workerVars, outboxVars, dlq,
                       active, published, emitted, wireVars, boundVars>>
    <3>1. Affected(v) \in SUBSET Subs BY <1>t DEF Affected, TypeOK
    <3> QED BY <1>1, <3>1 DEF SelectAffected
  <2>2. /\ \A u \in Events : u # v => /\ pc'[u] = pc[u] /\ affected'[u] = affected[u]
                                      /\ todo'[u] = todo[u]
        /\ pc'[v] = "loop" /\ affected'[v] = todo'[v] /\ todo'[v] \subseteq Subs
    BY <2>1, <1>t DEF TypeOK
  <2>3. TypeOK' BY <2>1, <1>t DEF TypeOK
  <2>4. RowsOK' /\ WorkersOK' BY <2>1 DEF IInv, RowsOK, WorkersOK
  <2>5. RequestsOK'
    <3>1. \A s \in todo'[v] : status[<<v, s>>] = "NONE" BY <2>2, <2>1, <1>r, <1>s
    <3>2. v \notin emitted /\ inserted[v] = {} /\ mark[v] = <<>> /\ v \notin published
      BY <2>1, <1>r DEF IInv, RequestsOK, Ended
    <3> QED BY <2>1, <2>2, <3>1, <3>2 DEF IInv, RequestsOK, Ended
  <2>6. InlineOK'
    <3> SUFFICES ASSUME NEW u \in Events PROVE InlineOf(u)' BY DEF InlineOK
    <3>1. InlineOf(u) BY DEF IInv, InlineOK
    <3>2. CASE u # v BY <3>1, <3>2, <2>1, <2>2, <1>r DEF InlineOf
    <3>3. CASE u = v BY <3>1, <3>3, <2>1, <2>2, <1>r DEF InlineOf, Delivering
    <3> QED BY <3>2, <3>3
  <2>7. EvidenceOK' BY <2>1, <2>2 DEF IInv, EvidenceOK
  <2>8. NoSilentLoss' BY <2>1 DEF IInv, NoSilentLoss
  <2>9. AnnouncedIsEnqueued'
    <3>1. published \subseteq Events BY <1>t DEF TypeOK
    <3> QED BY <2>1, <2>2, <3>1, <1>r DEF IInv, AnnouncedIsEnqueued
  <2>10. HeardIsPublished'
    <3>1. \A o \in Rows : o[1] \in Events BY DEF Rows
    <3> QED BY <2>1, <2>2, <3>1 DEF IInv, HeardIsPublished
  <2> QED BY <2>3, <2>4, <2>5, <2>6, <2>7, <2>8, <2>9, <2>10 DEF IInv
<1>2. CASE InsertOutbox(v)
  <2>1. PICK s \in todo[v] :
           /\ todo' = [todo EXCEPT ![v] = @ \ {s}]
           /\ inserted' = [inserted EXCEPT ![v] = @ \cup {s}]
           /\ sub' = [sub EXCEPT ![v] = s]
    BY <1>2 DEF InsertOutbox
  <2>2. /\ pc[v] = "loop" /\ pc' = [pc EXCEPT ![v] = IF Inline THEN "post" ELSE "loop"]
        /\ UNCHANGED <<affected, mark, delivered, workerVars, outboxVars, dlq, active,
                       published, emitted, wireVars, boundVars>>
    BY <1>2 DEF InsertOutbox
  <2>3. /\ \A u \in Events : u # v => /\ pc'[u] = pc[u] /\ inserted'[u] = inserted[u]
                                      /\ todo'[u] = todo[u] /\ sub'[u] = sub[u]
        /\ pc'[v] = IF Inline THEN "post" ELSE "loop"
        /\ todo'[v] = todo[v] \ {s} /\ inserted'[v] = inserted[v] \cup {s} /\ sub'[v] = s
        /\ s \in Subs
    BY <2>1, <2>2, <1>r, <1>t DEF TypeOK
  <2>4. TypeOK'
    <3>1. /\ todo' \in [Events -> SUBSET Subs] /\ inserted' \in [Events -> SUBSET Subs]
          /\ sub' \in [Events -> Subs \cup {0}]
      BY <2>1, <2>3, <1>t DEF TypeOK
    <3> QED BY <2>2, <3>1, <1>t DEF TypeOK
  <2>5. RowsOK' /\ WorkersOK' BY <2>2 DEF IInv, RowsOK, WorkersOK
  <2>6. RequestsOK'
    <3> QED BY <2>2, <2>3, <1>r DEF IInv, RequestsOK, Ended
  <2>7. InlineOK'
    <3> SUFFICES ASSUME NEW u \in Events PROVE InlineOf(u)' BY DEF InlineOK
    <3>1. InlineOf(u) BY DEF IInv, InlineOK
    <3>2. CASE u # v BY <3>1, <3>2, <2>2, <2>3, <1>r DEF InlineOf
    <3>3. CASE u = v BY <3>1, <3>3, <2>2, <2>3, <1>r DEF InlineOf, Delivering
    <3> QED BY <3>2, <3>3
  <2>8. EvidenceOK'
    <3>1. pc'[v] \in {"post", "loop"} BY <2>3
    <3> QED BY <2>2, <2>3, <3>1 DEF IInv, EvidenceOK
  <2>9. NoSilentLoss' BY <2>2 DEF IInv, NoSilentLoss
  <2>10. AnnouncedIsEnqueued'
    <3>1. published \subseteq Events BY <1>t DEF TypeOK
    <3> QED BY <2>2, <2>3, <3>1 DEF IInv, AnnouncedIsEnqueued
  <2>11. HeardIsPublished'
    <3>1. \A o \in Rows : o[1] \in Events BY DEF Rows
    <3> QED BY <2>2, <2>3, <3>1 DEF IInv, HeardIsPublished
  <2> QED BY <2>4, <2>5, <2>6, <2>7, <2>8, <2>9, <2>10, <2>11 DEF IInv
<1>3. CASE InlinePost(v)
  <2>0. /\ pc[v] = "post" /\ sub[v] \in Subs /\ <<v, sub[v]>> \in Rows
        /\ Inline /\ sub[v] \in inserted[v]
    BY <1>3 DEF InlinePost, IInv, InlineOK, InlineOf, Delivering, Rows
  <2>1. /\ pc' = [pc EXCEPT ![v] = "record"]
        /\ posts' = [posts EXCEPT ![<<v, sub[v]>>] = @ + 1]
        /\ acked \subseteq acked' /\ acked' \subseteq acked \cup {<<v, sub[v]>>}
        /\ \E b \in BOOLEAN : /\ delivered' = [delivered EXCEPT ![v] = b]
                              /\ b => <<v, sub[v]>> \in acked'
        /\ UNCHANGED <<affected, todo, sub, inserted, mark, workerVars, outboxVars, dlq,
                       active, published, emitted, boundVars>>
    BY <1>3 DEF InlinePost, Posted
  <2>2. /\ \A u \in Events : u # v => pc'[u] = pc[u] /\ delivered'[u] = delivered[u]
        /\ pc'[v] = "record" /\ (delivered'[v] => <<v, sub[v]>> \in acked')
        /\ \A o \in Rows : o[1] # v => posts'[o] = posts[o]
    BY <2>0, <2>1, <1>t DEF TypeOK
  <2>3. TypeOK'
    <3>1. posts' \in [Rows -> Nat] /\ delivered' \in [Events -> BOOLEAN]
      BY <2>0, <2>1, <1>t DEF TypeOK
    <3>2. pc' \in [Events -> {"idle", "loop", "post", "record", "mark", "commit", "done",
                              "failed"}]
      BY <2>1, <1>t DEF TypeOK
    <3> QED BY <2>0, <2>1, <3>1, <3>2, <1>t DEF TypeOK
  <2>4. RowsOK' /\ WorkersOK' BY <2>1 DEF IInv, RowsOK, WorkersOK
  <2>5. RequestsOK' BY <2>0, <2>1, <2>2, <1>r DEF IInv, RequestsOK, Ended
  <2>6. InlineOK'
    <3> SUFFICES ASSUME NEW u \in Events PROVE InlineOf(u)' BY DEF InlineOK
    <3>1. InlineOf(u) BY DEF IInv, InlineOK
    <3>2. CASE u # v BY <3>1, <3>2, <2>0, <2>1, <2>2 DEF InlineOf
    <3>3. CASE u = v BY <3>1, <3>3, <2>0, <2>1, <2>2 DEF InlineOf, Delivering
    <3> QED BY <3>2, <3>3
  <2>7. EvidenceOK' BY <2>1, <2>2 DEF IInv, EvidenceOK
  <2>8. NoSilentLoss' BY <2>1 DEF IInv, NoSilentLoss
  <2>9. AnnouncedIsEnqueued'
    <3>1. published \subseteq Events BY <1>t DEF TypeOK
    <3> QED BY <2>0, <2>1, <2>2, <3>1 DEF IInv, AnnouncedIsEnqueued
  <2>10. HeardIsPublished'
    <3>1. \A o \in Rows : o[1] \in Events BY DEF Rows
    <3> QED BY <2>1, <2>2, <3>1 DEF IInv, HeardIsPublished
  <2> QED BY <2>3, <2>4, <2>5, <2>6, <2>7, <2>8, <2>9, <2>10 DEF IInv
<1>4. CASE MarkOutbox(v)
  <2>0. pc[v] = "mark" /\ Inline /\ sub[v] \in Subs /\ status[<<v, sub[v]>>] # "NONE"
    BY <1>4 DEF MarkOutbox, IInv, InlineOK, InlineOf, Delivering
  <2>1. /\ \E l \in {"DELIVERED", "FAILED"} : /\ mark' = [mark EXCEPT ![v] = <<sub[v], l>>]
                                              /\ l = "DELIVERED" <=> delivered[v]
        /\ pc' = [pc EXCEPT ![v] = "loop"]
        /\ UNCHANGED <<affected, todo, sub, inserted, delivered, workerVars, outboxVars,
                       dlq, active, published, emitted, wireVars, boundVars>>
    BY <1>4 DEF MarkOutbox
  <2>2. /\ \A u \in Events : u # v => pc'[u] = pc[u] /\ mark'[u] = mark[u]
        /\ pc'[v] = "loop" /\ mark'[v] \in Subs \X {"DELIVERED", "FAILED"}
        /\ mark'[v][1] = sub[v] /\ (mark'[v][2] = "DELIVERED" <=> delivered[v])
    BY <2>0, <2>1, <1>t DEF TypeOK
  <2>3. TypeOK'
    <3>1. mark' \in [Events -> {<<>>} \cup (Subs \X {"DELIVERED", "FAILED"})]
      BY <2>0, <2>1, <1>t DEF TypeOK
    <3> QED BY <2>1, <3>1, <1>t DEF TypeOK
  <2>4. RowsOK' /\ WorkersOK' BY <2>1 DEF IInv, RowsOK, WorkersOK
  <2>5. RequestsOK' BY <2>0, <2>1, <2>2, <1>r DEF IInv, RequestsOK, Ended
  <2>6. InlineOK'
    <3> SUFFICES ASSUME NEW u \in Events PROVE InlineOf(u)' BY DEF InlineOK
    <3>1. InlineOf(u) BY DEF IInv, InlineOK
    <3>2. CASE u # v BY <3>1, <3>2, <2>0, <2>1, <2>2 DEF InlineOf
    <3>3. CASE u = v BY <3>1, <3>3, <2>0, <2>1, <2>2 DEF InlineOf, Delivering
    <3> QED BY <3>2, <3>3
  <2>7. EvidenceOK'
    <3> SUFFICES ASSUME NEW u \in Events PROVE
          /\ pc'[u] \in {"record", "mark"} /\ delivered[u] => <<u, sub[u]>> \in acked
          /\ pc'[u] = "mark" /\ ~delivered[u] => dlq[Key(<<u, sub[u]>>)] > 0
          /\ mark'[u] # <<>> /\ mark'[u][2] = "DELIVERED" => <<u, mark'[u][1]>> \in acked
          /\ mark'[u] # <<>> /\ mark'[u][2] = "FAILED" => dlq[Key(<<u, mark'[u][1]>>)] > 0
      BY <2>1 DEF IInv, EvidenceOK
    <3> QED BY <2>0, <2>2 DEF IInv, EvidenceOK
  <2>8. NoSilentLoss' BY <2>1 DEF IInv, NoSilentLoss
  <2>9. AnnouncedIsEnqueued'
    <3>1. published \subseteq Events BY <1>t DEF TypeOK
    <3> QED BY <2>0, <2>1, <2>2, <3>1 DEF IInv, AnnouncedIsEnqueued
  <2>10. HeardIsPublished'
    <3>1. \A o \in Rows : o[1] \in Events BY DEF Rows
    <3> QED BY <2>0, <2>1, <2>2, <3>1 DEF IInv, HeardIsPublished
  <2> QED BY <2>3, <2>4, <2>5, <2>6, <2>7, <2>8, <2>9, <2>10 DEF IInv
<1>5. CASE EmitEvent(v)
  <2>1. /\ pc[v] = "loop" /\ todo[v] = {} /\ emitted' = emitted \cup {v}
        /\ pc' = [pc EXCEPT ![v] = "commit"]
        /\ UNCHANGED <<affected, todo, sub, inserted, mark, delivered, workerVars,
                       outboxVars, dlq, active, published, wireVars, boundVars>>
    BY <1>5 DEF EmitEvent
  <2>2. /\ \A u \in Events : u # v => pc'[u] = pc[u] /\ (u \in emitted' <=> u \in emitted)
        /\ pc'[v] = "commit"
    BY <2>1, <1>t DEF TypeOK
  <2>3. TypeOK' BY <2>1, <1>t DEF TypeOK
  <2>4. RowsOK' /\ WorkersOK' BY <2>1 DEF IInv, RowsOK, WorkersOK
  <2>5. RequestsOK' BY <2>1, <2>2, <1>r DEF IInv, RequestsOK, Ended
  <2>6. InlineOK'
    <3> SUFFICES ASSUME NEW u \in Events PROVE InlineOf(u)' BY DEF InlineOK
    <3>1. InlineOf(u) BY DEF IInv, InlineOK
    <3>2. CASE u # v BY <3>1, <3>2, <2>1, <2>2 DEF InlineOf
    <3>3. CASE u = v BY <3>1, <3>3, <2>1, <2>2 DEF InlineOf, Delivering
    <3> QED BY <3>2, <3>3
  <2>7. EvidenceOK' BY <2>1, <2>2 DEF IInv, EvidenceOK
  <2>8. NoSilentLoss' BY <2>1 DEF IInv, NoSilentLoss
  <2>9. AnnouncedIsEnqueued'
    <3> SUFFICES ASSUME NEW u \in published, NEW s \in affected[u], status[<<u, s>>] = "NONE"
                 PROVE  u \notin emitted' /\ pc'[u] \notin {"commit", "done"}
      BY <2>1 DEF AnnouncedIsEnqueued
    <3>1. u \in Events BY <1>t DEF TypeOK
    <3>2. CASE u # v BY <3>1, <3>2, <2>2 DEF IInv, AnnouncedIsEnqueued
    <3>3. CASE u = v
      <4>1. s \in inserted[v] BY <3>3, <2>1, <1>r
      <4>2. Inline BY <3>3, <2>1 DEF IInv, InlineOK, InlineOf
      <4> QED BY <4>1, <4>2, <2>1 DEF IInv, InlineOK, InlineOf
    <3> QED BY <3>2, <3>3
  <2>10. HeardIsPublished'
    <3>1. \A o \in Rows : o[1] \in Events BY DEF Rows
    <3> QED BY <2>1, <2>2, <3>1 DEF IInv, HeardIsPublished
  <2> QED BY <2>3, <2>4, <2>5, <2>6, <2>7, <2>8, <2>9, <2>10 DEF IInv
<1>6. CASE RequestFails(v)
  <2>1. /\ pc[v] \notin {"idle", "done", "failed"} /\ pc' = [pc EXCEPT ![v] = "failed"]
        /\ failures < MaxFailures /\ failures' = failures + 1
        /\ inserted' = [inserted EXCEPT ![v] = {}] /\ mark' = [mark EXCEPT ![v] = <<>>]
        /\ UNCHANGED <<affected, todo, sub, delivered, workerVars, outboxVars, dlq, active,
                       published, emitted, wireVars, patches>>
    BY <1>6 DEF RequestFails
  <2>2. /\ \A u \in Events : u # v => /\ pc'[u] = pc[u] /\ inserted'[u] = inserted[u]
                                      /\ mark'[u] = mark[u]
        /\ pc'[v] = "failed" /\ inserted'[v] = {} /\ mark'[v] = <<>>
    BY <2>1, <1>t DEF TypeOK
  <2>3. TypeOK' BY <2>1, <1>t DEF TypeOK
  <2>4. RowsOK' /\ WorkersOK' BY <2>1 DEF IInv, RowsOK, WorkersOK
  <2>5. RequestsOK' BY <2>1, <2>2, <1>r DEF IInv, RequestsOK, Ended
  <2>6. InlineOK'
    <3> SUFFICES ASSUME NEW u \in Events PROVE InlineOf(u)' BY DEF InlineOK
    <3>1. InlineOf(u) BY DEF IInv, InlineOK
    <3>2. CASE u # v BY <3>1, <3>2, <2>1, <2>2 DEF InlineOf
    <3>3. CASE u = v BY <3>1, <3>3, <2>1, <2>2 DEF InlineOf, Delivering
    <3> QED BY <3>2, <3>3
  <2>7. EvidenceOK' BY <2>1, <2>2 DEF IInv, EvidenceOK
  <2>8. NoSilentLoss' BY <2>1 DEF IInv, NoSilentLoss
  <2>9. AnnouncedIsEnqueued'
    <3> SUFFICES ASSUME NEW u \in published, NEW s \in affected[u], status[<<u, s>>] = "NONE"
                 PROVE  u \notin emitted /\ pc'[u] \notin {"commit", "done"}
      BY <2>1 DEF AnnouncedIsEnqueued
    <3>1. u \in Events BY <1>t DEF TypeOK
    <3> QED BY <3>1, <2>2 DEF IInv, AnnouncedIsEnqueued
  <2>10. HeardIsPublished'
    <3>1. \A o \in Rows : o[1] \in Events BY DEF Rows
    <3> QED BY <2>1, <2>2, <3>1 DEF IInv, HeardIsPublished
  <2> QED BY <2>3, <2>4, <2>5, <2>6, <2>7, <2>8, <2>9, <2>10 DEF IInv
<1>7. CASE InlineRecord(v) \/ FinishRequest(v) BY <1>7, CommitKeeps
<1> QED BY <1>1, <1>2, <1>3, <1>4, <1>5, <1>6, <1>7 DEF RequestStep
-----------------------------------------------------------------------------
\* A step that changes nothing.
LEMMA Stutter == ASSUME IInv, UNCHANGED vars PROVE IInv'
<1> USE DEF vars, requestVars, workerVars, outboxVars, wireVars, boundVars
<1>1. TypeOK' BY DEF IInv, TypeOK
<1>2. RowsOK' BY DEF IInv, RowsOK
<1>3. WorkersOK' BY DEF IInv, WorkersOK
<1>4. RequestsOK' /\ InlineOK' /\ AnnouncedIsEnqueued' BY RequestsKept DEF IInv
<1>5. EvidenceOK' BY DEF IInv, EvidenceOK
<1>6. NoSilentLoss' /\ HeardIsPublished' BY DEF IInv, NoSilentLoss, HeardIsPublished
<1> QED BY <1>1, <1>2, <1>3, <1>4, <1>5, <1>6 DEF IInv

\* The rows, the requests, the workers and the dead letter queue fit together
\* after any interleaving of requests, workers, PATCHes, replays and failures
\* of _enqueue_webhook_outbox and _poll_once.
THEOREM Invariance == Spec => []IInv
<1>1. Init => IInv BY InitIInv
<1>2. IInv /\ [Next]_vars => IInv'
  <2> SUFFICES ASSUME IInv, [Next]_vars PROVE IInv' OBVIOUS
  <2>1. ASSUME NEW v \in Events, RequestStep(v) \/ RequestFails(v) PROVE IInv'
    BY <2>1, RequestStepKeeps
  <2>2. ASSUME NEW w \in Workers, WorkerStep(w) \/ WorkerFails(w) PROVE IInv'
    BY <2>2, WorkerStepKeeps
  <2>3. CASE \/ \E o \in Rows : BackoffElapses(o)
             \/ \E s \in Subs : PatchActive(s)
             \/ \E v \in Events, c \in Consumers : Replay(v, c)
    BY <2>3, OutsideStep
  <2>4. CASE UNCHANGED vars BY <2>4, Stutter
  <2> QED BY <2>1, <2>2, <2>3, <2>4 DEF Next
<1> QED BY <1>1, <1>2, PTL DEF Spec

\* The tables, the sessions and the workers hold values of their types; in
\* particular attempt_count of a dead letter (upsert_dlq) never exceeds
\* max_attempts.
THEOREM TypeCorrect == Spec => []TypeOK
<1>1. IInv => TypeOK BY DEF IInv
<1> QED BY <1>1, Invariance, PTL

\* A DELIVERED row was acknowledged by its consumer and a FAILED row is in the
\* dead letter queue, however requests that mark rows and workers that settle
\* them overlap.
THEOREM NoSilentLossCorrect == Spec => []NoSilentLoss
<1>1. IInv => NoSilentLoss BY DEF IInv
<1> QED BY <1>1, Invariance, PTL

\* Inline delivery publishes a version with some of its outbox rows
\* (_enqueue_webhook_outbox); the others follow unless the request fails, and
\* then the event is not announced.
THEOREM AnnouncedIsEnqueuedCorrect == Spec => []AnnouncedIsEnqueued
<1>1. IInv => AnnouncedIsEnqueued BY DEF IInv
<1> QED BY <1>1, Invariance, PTL

\* A consumer hears of an uncommitted version only from the inline delivery
\* that is about to commit it (deliver_with_retry), or from a request that
\* failed.
THEOREM HeardIsPublishedCorrect == Spec => []HeardIsPublished
<1>1. IInv => HeardIsPublished BY DEF IInv
<1> QED BY <1>1, Invariance, PTL

-----------------------------------------------------------------------------
\* A row that is left DELIVERING was left by the failure of its worker: the
\* others claim, handle and settle a row without letting go of it.
LEMMA StrandedStep ==
    ASSUME IInv, [Next]_vars
    PROVE  \/ Stranded' \subseteq Stranded /\ failures' \in {failures, failures + 1}
           \/ /\ failures' = failures + 1
              /\ \E w \in Workers : Stranded' \subseteq Stranded \cup {item[w][1]}
<1>t. TypeOK BY DEF IInv
<1> USE OutboxAssumption DEF requestVars, workerVars, outboxVars, wireVars, boundVars
<1>k. ASSUME UNCHANGED <<wpc, item>>,
             \A o \in Rows : status'[o] = "DELIVERING" => status[o] = "DELIVERING"
      PROVE  Stranded' \subseteq Stranded
  BY <1>k DEF Stranded
<1>1. ASSUME NEW v \in Events, InlineRecord(v) \/ FinishRequest(v)
      PROVE  Stranded' \subseteq Stranded /\ failures' = failures
  <2>1. CommitRequest(v) /\ UNCHANGED <<wpc, item, failures>>
    BY <1>1 DEF InlineRecord, FinishRequest
  <2>2. \A o \in Rows : status'[o] = "DELIVERING" => status[o] = "DELIVERING"
    <3>1. mark[v] # <<>> => mark[v][2] \in {"DELIVERED", "FAILED"} BY DEF IInv, InlineOK, InlineOf
    <3> QED BY <2>1, <3>1, CommitEffect
  <2> QED BY <2>1, <2>2, <1>k
<1>2. ASSUME NEW v \in Events,
             SelectAffected(v) \/ InsertOutbox(v) \/ InlinePost(v) \/ MarkOutbox(v)
               \/ EmitEvent(v) \/ RequestFails(v)
      PROVE  Stranded' \subseteq Stranded /\ failures' \in {failures, failures + 1}
  <2>1. UNCHANGED <<wpc, item, status>> /\ failures' \in {failures, failures + 1}
    BY <1>2 DEF SelectAffected, InsertOutbox, InlinePost, MarkOutbox, EmitEvent, RequestFails
  <2> QED BY <2>1, <1>k
<1>3. ASSUME NEW w \in Workers, WorkerStep(w)
      PROVE  Stranded' \subseteq Stranded /\ failures' = failures
  <2>1. CASE Poll(w)
    <3>1. /\ wpc[w] = "poll" /\ wpc' = [wpc EXCEPT ![w] = "claim"]
          /\ UNCHANGED <<item, status, failures>>
      BY <2>1 DEF Poll
    <3> QED BY <3>1, <1>t DEF Stranded, TypeOK
  <2>2. CASE Claim(w)
    <3>1. PICK i \in batch[w] : /\ status' = [status EXCEPT ![i[1]] = "DELIVERING"]
                                /\ item' = [item EXCEPT ![w] = i]
      BY <2>2 DEF Claim
    <3>2. /\ wpc[w] = "claim" /\ wpc' = [wpc EXCEPT ![w] = "lookup"] /\ UNCHANGED failures
      BY <2>2 DEF Claim
    <3>3. /\ item'[w] = i /\ wpc'[w] = "lookup"
          /\ \A x \in Workers : x # w => item'[x] = item[x] /\ wpc'[x] = wpc[x]
          /\ \A o \in Rows : o # i[1] => status'[o] = status[o]
      BY <3>1, <3>2, <1>t DEF TypeOK
    <3> QED BY <3>2, <3>3 DEF Stranded
  <2>3. CASE Lookup(w) \/ Deliver(w)
    <3>1. /\ wpc[w] \in {"lookup", "post"} /\ UNCHANGED <<item, status, failures>>
          /\ \E l \in {"post", "settle"} : wpc' = [wpc EXCEPT ![w] = l]
      BY <2>3 DEF Lookup, Deliver
    <3>2. /\ \A x \in Workers : x # w => wpc'[x] = wpc[x]
          /\ wpc'[w] \in {"post", "settle"}
      BY <3>1, <1>t DEF TypeOK
    <3> QED BY <3>1, <3>2 DEF Stranded
  <2>4. CASE Settle(w)
    <3>1. /\ wpc[w] = "settle" /\ wpc' = [wpc EXCEPT ![w] = IF batch[w] = {} THEN "poll" ELSE "claim"]
          /\ UNCHANGED <<item, failures>>
          /\ \E l \in {"DELIVERED", "FAILED", "PENDING"} :
                status' = [status EXCEPT ![item[w][1]] = l]
      BY <2>4 DEF Settle, Settled
    <3>2. item[w][1] \in Rows BY <3>1 DEF IInv, WorkersOK, Handling
    <3>3. /\ \A x \in Workers : x # w => wpc'[x] = wpc[x]
          /\ \A o \in Rows : o # item[w][1] => status'[o] = status[o]
          /\ status'[item[w][1]] # "DELIVERING"
      BY <3>1, <3>2, <1>t DEF TypeOK
    <3> QED BY <3>1, <3>3 DEF Stranded
  <2> QED BY <1>3, <2>1, <2>2, <2>3, <2>4 DEF WorkerStep
<1>4. ASSUME NEW w \in Workers, WorkerFails(w)
      PROVE  /\ failures' = failures + 1
             /\ Stranded' \subseteq Stranded \cup {item[w][1]}
  <2>1. /\ wpc' = [wpc EXCEPT ![w] = "poll"] /\ UNCHANGED <<item, status>>
        /\ failures' = failures + 1
    BY <1>4 DEF WorkerFails
  <2>2. \A x \in Workers : x # w => wpc'[x] = wpc[x] BY <2>1, <1>t DEF TypeOK
  <2> QED BY <2>1, <2>2 DEF Stranded
<1>5. CASE \/ \E o \in Rows : BackoffElapses(o)
           \/ \E s \in Subs : PatchActive(s)
           \/ \E v \in Events, c \in Consumers : Replay(v, c)
           \/ UNCHANGED vars
  <2>1. UNCHANGED <<wpc, item, status, failures>>
    BY <1>5 DEF BackoffElapses, PatchActive, Replay, vars
  <2> QED BY <2>1, <1>k
<1> QED BY <1>1, <1>2, <1>3, <1>4, <1>5 DEF Next, RequestStep

\* Nothing polls DELIVERING rows (outbox_worker.py), so a row left DELIVERING
\* stays so; a worker leaves at most one behind, and only by failing, whatever
\* the size of its batch.
THEOREM StrandedByFailureCorrect == Spec => []StrandedByFailure
<1> DEFINE SInv == IsFiniteSet(Stranded) /\ StrandedByFailure
<1> USE OutboxAssumption
<1>1. Init => SInv
  <2> SUFFICES ASSUME Init PROVE SInv OBVIOUS
  <2>1. Stranded = {} /\ failures = 0 BY DEF Init, Stranded
  <2> QED BY <2>1, FS_EmptySet DEF StrandedByFailure
<1>2. IInv /\ SInv /\ [Next]_vars => SInv'
  <2> SUFFICES ASSUME IInv, SInv, [Next]_vars PROVE SInv' OBVIOUS
  <2>1. failures \in Nat /\ Cardinality(Stranded) \in Nat /\ Cardinality(Stranded) <= failures
    BY FS_CardinalityType DEF IInv, TypeOK, StrandedByFailure
  <2>2. CASE Stranded' \subseteq Stranded /\ failures' \in {failures, failures + 1}
    <3>1. IsFiniteSet(Stranded') /\ Cardinality(Stranded') <= Cardinality(Stranded)
      BY <2>2, FS_Subset
    <3>2. Cardinality(Stranded') \in Nat BY <3>1, FS_CardinalityType
    <3> QED BY <2>1, <2>2, <3>1, <3>2 DEF StrandedByFailure
  <2>3. ASSUME failures' = failures + 1, NEW w \in Workers,
               Stranded' \subseteq Stranded \cup {item[w][1]}
        PROVE  SInv'
    <3> DEFINE More == Stranded \cup {item[w][1]}
    <3>1. IsFiniteSet(More) /\ Cardinality(More) <= Cardinality(Stranded) + 1
      <4>1. /\ IsFiniteSet(Stranded)
            /\ IsFiniteSet(More)
            /\ \/ Cardinality(More) = Cardinality(Stranded)
               \/ Cardinality(More) = Cardinality(Stranded) + 1
        BY FS_AddElement, Zenon
      <4> HIDE DEF More
      <4> QED BY <4>1, <2>1
    <3>2. IsFiniteSet(Stranded') /\ Cardinality(Stranded') <= Cardinality(More)
      BY <2>3, <3>1, FS_Subset
    <3>3. Cardinality(Stranded') \in Nat /\ Cardinality(More) \in Nat
      BY <3>1, <3>2, FS_CardinalityType
    <3> QED BY <2>1, <2>3, <3>1, <3>2, <3>3 DEF StrandedByFailure
  <2> QED BY <2>2, <2>3, StrandedStep
<1>3. SInv => StrandedByFailure OBVIOUS
<1> QED BY <1>1, <1>2, <1>3, Invariance, PTL DEF Spec
-----------------------------------------------------------------------------
\* Without inline delivery a request touches a row only by creating it, and no
\* request POSTs.
LEMMA RequestsOnlyInsert ==
    ASSUME IInv, Alone, NEW v \in Events, RequestStep(v) \/ RequestFails(v)
    PROVE  /\ UNCHANGED <<workerVars, posts>>
           /\ \A o \in Rows : \/ status'[o] = status[o] /\ attempts'[o] = attempts[o]
                              \/ /\ status[o] = "NONE" /\ status'[o] = "PENDING"
                                 /\ attempts'[o] = attempts[o]
<1> USE DEF requestVars, workerVars, outboxVars, wireVars, boundVars
<1>1. pc[v] \notin Delivering /\ mark[v] = <<>> BY DEF IInv, InlineOK, InlineOf, Alone
<1>2. CASE FinishRequest(v)
  <2>1. CommitRequest(v) /\ UNCHANGED <<workerVars, posts>> BY <1>2 DEF FinishRequest
  <2> QED BY <2>1, <1>1, CommitEffect
<1>3. CASE SelectAffected(v) \/ InsertOutbox(v) \/ EmitEvent(v) \/ RequestFails(v)
  BY <1>3 DEF SelectAffected, InsertOutbox, EmitEvent, RequestFails
<1> QED BY <1>1, <1>2, <1>3 DEF RequestStep, InlinePost, InlineRecord, MarkOutbox, Delivering

\* Every step of the only worker keeps AloneInv: it counts its POST before it
\* polls again, and the rows of its batch wait for it.
LEMMA AloneWorkerStep ==
    ASSUME IInv, Alone, AloneInv, NEW w \in Workers, WorkerStep(w) \/ WorkerFails(w)
    PROVE  /\ AloneInv'
           /\ \A o \in Rows : status[o] \in {"DELIVERED", "FAILED"} => status'[o] = status[o]
<1>t. TypeOK BY DEF IInv
<1> USE OutboxAssumption DEF requestVars, outboxVars, wireVars, boundVars
<1>1. \A x \in Workers : x = w BY DEF Alone
<1>2. \A o \in Rows : posts[o] \in Nat /\ attempts[o] \in Nat /\ posts[o] <= MaxAttempts
  BY <1>t DEF TypeOK, AloneInv, RetriesBounded
<1>3. \A o \in Rows : status[o] \in {"NONE", "PENDING"} => posts[o] <= attempts[o]
  BY DEF AloneInv
<1>4. \A i \in batch[w] : /\ i \in Rows \X (0..MaxAttempts)
                          /\ status[i[1]] = "PENDING" /\ i[2] = attempts[i[1]]
  BY <1>t DEF AloneInv, TypeOK
<1>5. wpc[w] \in Handling => /\ item[w] \in Rows \X (0..MaxAttempts)
                             /\ item[w][2] < MaxAttempts /\ status[item[w][1]] = "DELIVERING"
  BY DEF IInv, WorkersOK, AloneInv
<1>6. /\ wpc[w] \in {"lookup", "post"} => posts[item[w][1]] <= item[w][2]
      /\ wpc[w] = "settle" => posts[item[w][1]] <= item[w][2] + 1
  BY DEF AloneInv
<1>7. ASSUME \A o \in Rows : posts'[o] <= MaxAttempts,
             \A o \in Rows : status'[o] \in {"NONE", "PENDING"} => posts'[o] <= attempts'[o],
             \A i \in batch'[w] : status'[i[1]] = "PENDING" /\ i[2] = attempts'[i[1]],
             wpc'[w] \in Handling => status'[item'[w][1]] = "DELIVERING",
             wpc'[w] \in {"lookup", "post"} => posts'[item'[w][1]] <= item'[w][2],
             wpc'[w] = "settle" => posts'[item'[w][1]] <= item'[w][2] + 1
      PROVE  AloneInv'
  BY <1>1, <1>7 DEF AloneInv, RetriesBounded
<1>8. CASE Poll(w)
  <2>1. PICK picked \in SUBSET Ready(w) :
           batch' = [batch EXCEPT ![w] = {<<o, attempts[o]>> : o \in picked}]
    BY <1>8 DEF Poll
  <2>2. /\ wpc' = [wpc EXCEPT ![w] = "claim"]
        /\ UNCHANGED <<item, outboxVars, wireVars>>
    BY <1>8 DEF Poll
  <2>3. \A o \in picked : status[o] = "PENDING" BY DEF Ready
  <2>4. batch'[w] = {<<o, attempts[o]>> : o \in picked} /\ wpc'[w] = "claim"
    BY <2>1, <2>2, <1>t DEF TypeOK
  <2> QED BY <2>2, <2>3, <2>4, <1>2, <1>3, <1>7 DEF Handling
<1>9. CASE Claim(w)
  <2>1. PICK i \in batch[w] :
           /\ status' = [status EXCEPT ![i[1]] = "DELIVERING"]
           /\ batch' = [batch EXCEPT ![w] = @ \ {i}]
           /\ item' = [item EXCEPT ![w] = i]
    BY <1>9 DEF Claim
  <2>2. /\ wpc' = [wpc EXCEPT ![w] = "lookup"] /\ UNCHANGED <<attempts, posts>>
    BY <1>9 DEF Claim
  <2>3. /\ i \in Rows \X (0..MaxAttempts) /\ i[1] \in Rows /\ i[2] = attempts[i[1]]
        /\ status[i[1]] = "PENDING"
    BY <1>4
  <2>4. /\ batch'[w] = batch[w] \ {i} /\ item'[w] = i /\ wpc'[w] = "lookup"
        /\ status'[i[1]] = "DELIVERING"
        /\ \A o \in Rows : o # i[1] => status'[o] = status[o]
    BY <2>1, <2>2, <2>3, <1>t DEF TypeOK
  <2>5. \A j \in batch'[w] : j[1] # i[1]
    <3>1. \A j \in batch[w] : j = <<j[1], j[2]>> /\ j[2] = attempts[j[1]] BY <1>4
    <3> QED BY <2>4, <3>1
  <2>6. \A j \in batch'[w] : status'[j[1]] = "PENDING" /\ j[2] = attempts'[j[1]]
    BY <2>2, <2>4, <2>5, <1>4
  <2>7. posts'[i[1]] <= i[2] BY <2>2, <2>3, <1>3
  <2>8. \A o \in Rows : status'[o] \in {"NONE", "PENDING"} => posts'[o] <= attempts'[o]
    BY <2>2, <2>4, <1>3
  <2> QED BY <2>2, <2>3, <2>4, <2>6, <2>7, <2>8, <1>2, <1>7
<1>10. CASE Lookup(w)
  <2>1. /\ wpc[w] = "lookup" /\ wpc'[w] \in {"post", "settle"}
        /\ UNCHANGED <<batch, item, status, attempts, posts>>
    BY <1>10, <1>t DEF Lookup, TypeOK
  <2>2. posts[item[w][1]] <= item[w][2] + 1
    <3>1. item[w][2] \in Nat /\ posts[item[w][1]] \in Nat BY <2>1, <1>2, <1>5 DEF Handling
    <3> QED BY <2>1, <3>1, <1>6
  <2> QED BY <2>1, <2>2, <1>2, <1>3, <1>4, <1>5, <1>6, <1>7 DEF Handling
<1>11. CASE Deliver(w)
  <2> DEFINE o == item[w][1]
  <2>1. /\ wpc[w] = "post" /\ wpc' = [wpc EXCEPT ![w] = "settle"]
        /\ posts' = [posts EXCEPT ![o] = @ + 1]
        /\ UNCHANGED <<batch, item, status, attempts>>
    BY <1>11 DEF Deliver, Posted
  <2>2. /\ o \in Rows /\ item[w][2] \in Nat /\ item[w][2] < MaxAttempts
        /\ status[o] = "DELIVERING" /\ posts[o] <= item[w][2] /\ posts[o] \in Nat
    BY <2>1, <1>2, <1>5, <1>6 DEF Handling
  <2>3. /\ wpc'[w] = "settle" /\ posts'[o] = posts[o] + 1
        /\ \A x \in Rows : x # o => posts'[x] = posts[x]
    BY <2>1, <2>2, <1>t DEF TypeOK
  <2>4. posts'[o] <= item[w][2] + 1 /\ posts'[o] <= MaxAttempts BY <2>2, <2>3
  <2>5. \A x \in Rows : posts'[x] <= MaxAttempts BY <2>3, <2>4, <1>2
  <2>6. \A x \in Rows : status[x] \in {"NONE", "PENDING"} => posts'[x] <= attempts[x]
    BY <2>2, <2>3, <1>3
  <2> QED BY <2>1, <2>2, <2>3, <2>4, <2>5, <2>6, <1>4, <1>7
<1>12. CASE Settle(w)
  <2> DEFINE o == item[w][1]
             next == item[w][2] + 1
  <2>0. wpc[w] = "settle" BY <1>12 DEF Settle
  <2>1. /\ o \in Rows /\ status[o] = "DELIVERING" /\ next \in Nat /\ posts[o] <= next
        /\ posts[o] \in Nat /\ attempts[o] \in Nat
    BY <2>0, <1>2, <1>5, <1>6 DEF Handling
  <2>2. /\ UNCHANGED <<batch, item, posts>>
        /\ wpc' = [wpc EXCEPT ![w] = IF batch[w] = {} THEN "poll" ELSE "claim"]
        /\ \E l \in {"DELIVERED", "FAILED", "PENDING"}, n \in {attempts[o] + 1, next} :
              /\ status' = [status EXCEPT ![o] = l]
              /\ attempts' = [attempts EXCEPT ![o] = n]
              /\ l = "PENDING" => n = next
    BY <1>12 DEF Settle, Settled
  <2>3. /\ wpc'[w] \notin Handling
        /\ \A x \in Rows : x # o => status'[x] = status[x] /\ attempts'[x] = attempts[x]
        /\ status'[o] = "PENDING" => attempts'[o] = next
        /\ status'[o] \in {"DELIVERED", "FAILED", "PENDING"}
    BY <2>1, <2>2, <1>t DEF TypeOK, Handling
  <2>4. \A i \in batch[w] : i[1] # o /\ i[1] \in Rows BY <2>1, <1>4
  <2>5. \A x \in Rows : status'[x] \in {"NONE", "PENDING"} => posts[x] <= attempts'[x]
    BY <2>1, <2>3, <1>3
  <2>6. \A i \in batch[w] : status'[i[1]] = "PENDING" /\ i[2] = attempts'[i[1]]
    BY <2>3, <2>4, <1>4
  <2>7. AloneInv' BY <2>2, <2>3, <2>5, <2>6, <1>2, <1>7 DEF Handling
  <2> QED BY <2>1, <2>3, <2>7
<1>13. CASE WorkerFails(w)
  <2>1. /\ wpc'[w] = "poll" /\ batch'[w] = {} /\ UNCHANGED <<item, status, attempts, posts>>
    BY <1>13, <1>t DEF WorkerFails, TypeOK
  <2> QED BY <2>1, <1>2, <1>3, <1>7 DEF Handling
<1> QED BY <1>8, <1>9, <1>10, <1>11, <1>12, <1>13 DEF WorkerStep

\* Together: every step of a system with one worker and no inline delivery.
LEMMA AloneStep ==
    ASSUME IInv, Alone, AloneInv, [Next]_vars
    PROVE  /\ AloneInv'
           /\ \A o \in Rows : status[o] \in {"DELIVERED", "FAILED"} => status'[o] = status[o]
<1>t. TypeOK BY DEF IInv
<1> USE OutboxAssumption DEF requestVars, workerVars, outboxVars, wireVars, boundVars
<1>1. ASSUME UNCHANGED <<wpc, batch, item, posts>>,
             \A o \in Rows : \/ status'[o] = status[o] /\ attempts'[o] = attempts[o]
                             \/ /\ status[o] = "NONE" /\ status'[o] = "PENDING"
                                /\ attempts'[o] = attempts[o]
      PROVE  /\ AloneInv'
             /\ \A o \in Rows : status[o] \in {"DELIVERED", "FAILED"} => status'[o] = status[o]
  <2>1. \A w \in Workers : /\ \A i \in batch[w] : i[1] \in Rows
                           /\ wpc[w] \in Handling => item[w][1] \in Rows
    BY <1>t DEF TypeOK, IInv, WorkersOK
  <2>2. \A o \in Rows : /\ status[o] # "NONE" => status'[o] = status[o]
                        /\ attempts'[o] = attempts[o]
                        /\ status'[o] \in {"NONE", "PENDING"} => status[o] \in {"NONE", "PENDING"}
    BY <1>1
  <2>3. \A w \in Workers :
          /\ \A i \in batch[w] : status'[i[1]] = "PENDING" /\ i[2] = attempts'[i[1]]
          /\ wpc[w] \in Handling => status'[item[w][1]] = "DELIVERING"
    BY <2>1, <2>2 DEF AloneInv
  <2>4. \A o \in Rows : status'[o] \in {"NONE", "PENDING"} => posts[o] <= attempts'[o]
    BY <2>2 DEF AloneInv
  <2> QED BY <1>1, <2>2, <2>3, <2>4 DEF AloneInv, RetriesBounded
<1>2. ASSUME NEW v \in Events, RequestStep(v) \/ RequestFails(v)
      PROVE  /\ AloneInv'
             /\ \A o \in Rows : status[o] \in {"DELIVERED", "FAILED"} => status'[o] = status[o]
  BY <1>1, <1>2, RequestsOnlyInsert
<1>3. CASE \/ \E o \in Rows : BackoffElapses(o)
           \/ \E s \in Subs : PatchActive(s)
           \/ \E v \in Events, c \in Consumers : Replay(v, c)
           \/ UNCHANGED vars
  <2>1. UNCHANGED <<wpc, batch, item, posts, status, attempts>>
    BY <1>3 DEF BackoffElapses, PatchActive, Replay, vars
  <2> QED BY <2>1, <1>1
<1> QED BY <1>2, <1>3, AloneWorkerStep DEF Next

\* With one worker and INLINE_WEBHOOK_DELIVERY=false a row is POSTed at most
\* max_attempts times, whenever the worker dies and polls again: _poll_once
\* counts every POST into attempts before the row can be polled again.
THEOREM RetriesBoundedCorrect ==
    ASSUME Alone
    PROVE  Spec => []RetriesBounded
<1>1. Init => AloneInv
  BY OutboxAssumption DEF Init, AloneInv, RetriesBounded, Handling
<1>2. IInv /\ AloneInv /\ [Next]_vars => AloneInv' BY AloneStep
<1>3. AloneInv => RetriesBounded BY DEF AloneInv
<1> QED BY <1>1, <1>2, <1>3, Invariance, PTL DEF Spec

\* Then an outcome is final as well: _poll_once takes up PENDING rows only, and
\* the one worker holds no older reading of a row that it settled.
THEOREM OutcomeIsFinalCorrect ==
    ASSUME Alone
    PROVE  Spec => OutcomeIsFinal
<1> DEFINE Final == \A o \in Rows : status[o] \in {"DELIVERED", "FAILED"} =>
                                       status'[o] = status[o]
<1>1. Init => AloneInv
  BY OutboxAssumption DEF Init, AloneInv, RetriesBounded, Handling
<1>2. IInv /\ AloneInv /\ [Next]_vars => AloneInv' BY AloneStep
<1>3. IInv /\ AloneInv /\ [Next]_vars => [Final]_vars BY AloneStep
<1> QED BY <1>1, <1>2, <1>3, Invariance, PTL DEF Spec, OutcomeIsFinal
=============================================================================
