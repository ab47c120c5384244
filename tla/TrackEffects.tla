---------------------------- MODULE TrackEffects ----------------------------
(***************************************************************************)
(* What POST /track (app/main.py, track_contract of app/runtime/service.py)*)
(* leaves outside its database transaction: documents in the document      *)
(* store (app/runtime/document_store.py) and drift events at the broker    *)
(* (app/runtime/events.py), on one endpoint.  Events are modelled with a   *)
(* producer, as publish_with_retry is written for; main.py:102 passes none,*)
(* so that POST /track as it stands reaches the no-op backend only, whose  *)
(* behaviours are those without a fault of the broker.                     *)
(*                                                                         *)
(* The registry is taken as ContractRegistry shows it: a fingerprint has   *)
(* one version, versions are numbered in the order of their commits, and a *)
(* second uncommitted version waits for the first.  The webhooks are those *)
(* of WebhookOutbox; only the commit of an inline delivery is kept.        *)
(***************************************************************************)
EXTENDS Naturals, Sequences

CONSTANTS
    Requests,
    Fingerprints,
    Retries,        \* retries of publish_with_retry (3 in the code)
    MaxFaults,      \* bound: errors of store and broker, failures, restarts
    None

VARIABLES
    tpc,            \* where each request is
    print,          \* its fingerprint
    number,         \* the version number that it inserted, 0 for none
    versions,       \* committed versions: their fingerprints in order
    open,           \* request with an uncommitted version
    docs,           \* documents in the store: <<request, kind>>
    missed,         \* documents whose write raised, logged and swallowed
    task,           \* background task of its event: "none", "running", "sent",
                    \* "counted" or "dropped"
    tries,          \* attempts to publish so far
    received,       \* copies of its event at the broker
    faults

trackVars == <<tpc, print, number, versions, open, docs, missed, task, tries, received, faults>>

Steps == {"idle", "register", "diff_doc", "enqueue", "event", "commit",
          "legacy", "done", "failed"}
Ended == {"done", "failed"}
InTrack(r) == tpc[r] \notin {"idle"} \cup Ended
Tasks == {"none", "running", "sent", "counted", "dropped"}

Step(r, label) == tpc' = [tpc EXCEPT ![r] = label]
Known(f) == \E i \in DOMAIN versions : versions[i] = f
IsVersion(r) == number[r] \in DOMAIN versions /\ versions[number[r]] = print[r]

Init ==
    /\ tpc = [r \in Requests |-> "idle"]
    /\ print \in [Requests -> Fingerprints]
    /\ number = [r \in Requests |-> 0]
    /\ versions \in {<<>>} \cup {<<f>> : f \in Fingerprints}
    /\ open = None
    /\ docs = {}
    /\ missed = {}
    /\ task = [r \in Requests |-> "none"]
    /\ tries = [r \in Requests |-> 0]
    /\ received = [r \in Requests |-> 0]
    /\ faults = 0

-----------------------------------------------------------------------------
\* The documents of a request.
payload_snapshot(r) == <<r, "payload_snapshot">>
schema_diff(r) == <<r, "schema_diff">>

insert_one(doc) == docs' = docs \cup {doc}

\* _persist_document: the document is stored, or the call raises, before or
\* after it was stored, which is logged and forgotten.
Persist(doc) ==
    \/ insert_one(doc) /\ UNCHANGED <<missed, faults>>
    \/ /\ faults < MaxFaults
       /\ faults' = faults + 1
       /\ insert_one(doc) \/ UNCHANGED docs
       /\ missed' = missed \cup {doc}

\* The request arrives; its payload snapshot is stored before anything is known
\* of the payload.
Arrive(r) ==
    /\ tpc[r] = "idle"
    /\ Persist(payload_snapshot(r))
    /\ Step(r, "register")
    /\ UNCHANGED <<print, number, versions, open, task, tries, received>>

\* Mutant: another uncommitted version is no reason to wait.
RegisterUnlocked(r) ==
    /\ tpc[r] = "register"
    /\ ~Known(print[r])
    /\ open' = r
    /\ number' = [number EXCEPT ![r] = Len(versions) + 1]
    /\ Step(r, IF versions = <<>> THEN "commit" ELSE "diff_doc")
    /\ UNCHANGED <<print, versions, docs, missed, task, tries, received, faults>>

\* Mutant: the fingerprint is not looked up again once the other is through.
RegisterBlindly(r) ==
    /\ tpc[r] = "register"
    /\ open = None
    /\ open' = r
    /\ number' = [number EXCEPT ![r] = Len(versions) + 1]
    /\ Step(r, IF versions = <<>> THEN "commit" ELSE "diff_doc")
    /\ UNCHANGED <<print, versions, docs, missed, task, tries, received, faults>>

\* upsert_schema_version: a known fingerprint adds nothing; a first version has
\* nothing to be compared with, and announces nothing.
Register(r) ==
    /\ tpc[r] = "register"
    /\ \/ /\ Known(print[r])
          /\ Step(r, "commit")
          /\ UNCHANGED <<number, open>>
       \/ /\ ~Known(print[r])
          /\ open = None
          /\ open' = r
          /\ number' = [number EXCEPT ![r] = Len(versions) + 1]
          /\ Step(r, IF versions = <<>> THEN "commit" ELSE "diff_doc")
    /\ UNCHANGED <<print, versions, docs, missed, task, tries, received, faults>>

\* The schema diff, which names the version number, before the version exists.
StoreDiff(r) ==
    /\ tpc[r] = "diff_doc"
    /\ Persist(schema_diff(r))
    /\ Step(r, "enqueue")
    /\ UNCHANGED <<print, number, versions, open, task, tries, received>>

\* A commit in the session of r.
CommitVersion(r) ==
    IF open = r
    THEN versions' = Append(versions, print[r]) /\ open' = None
    ELSE UNCHANGED <<versions, open>>

\* _enqueue_webhook_outbox: an inline delivery commits the session.
Enqueue(r) ==
    /\ tpc[r] = "enqueue"
    /\ CommitVersion(r) \/ UNCHANGED <<versions, open>>
    /\ Step(r, "event")
    /\ UNCHANGED <<print, number, docs, missed, task, tries, received, faults>>

\* Mutant: the event is handed over only by the request that still has its
\* version uncommitted.
EmitUncommitted(r) ==
    /\ tpc[r] = "event"
    /\ task' = IF open = r THEN [task EXCEPT ![r] = "running"] ELSE task
    /\ Step(r, "commit")
    /\ UNCHANGED <<print, number, versions, open, docs, missed, tries, received, faults>>

\* publish_fire_and_forget: a task of its own, started before the commit.
EmitEvent(r) ==
    /\ tpc[r] = "event"
    /\ task' = [task EXCEPT ![r] = "running"]
    /\ Step(r, "commit")
    /\ UNCHANGED <<print, number, versions, open, docs, missed, tries, received, faults>>

\* db.commit() of track_payload.
Commit(r) ==
    /\ tpc[r] = "commit"
    /\ CommitVersion(r)
    /\ Step(r, "legacy")
    /\ UNCHANGED <<print, number, docs, missed, task, tries, received, faults>>

\* The legacy half (LegacyBaseline) is through, and the request answered.
Answer(r) ==
    /\ tpc[r] = "legacy"
    /\ Step(r, "done")
    /\ UNCHANGED <<print, number, versions, open, docs, missed, task, tries, received, faults>>

Rollback(r) == open' = IF open = r THEN None ELSE open

\* The request raises (an IntegrityError of the registry, the database is
\* gone, the legacy half fails): its transaction is rolled back, its task,
\* documents and earlier commits stay.
FailTrack(r) ==
    /\ InTrack(r)
    /\ faults < MaxFaults
    /\ faults' = faults + 1
    /\ Rollback(r)
    /\ Step(r, "failed")
    /\ UNCHANGED <<print, number, versions, docs, missed, task, tries, received>>

-----------------------------------------------------------------------------
\* Mutant: the last attempt is not counted as one.
PublishOnceMore(r) ==
    /\ task[r] = "running"
    /\ tries' = [tries EXCEPT ![r] = @ + 1]
    /\ \/ /\ task' = [task EXCEPT ![r] = "sent"]
          /\ received' = [received EXCEPT ![r] = @ + 1]
          /\ UNCHANGED faults
       \/ /\ faults < MaxFaults
          /\ faults' = faults + 1
          /\ task' = [task EXCEPT ![r] = IF tries[r] = Retries THEN "counted" ELSE @]
          /\ received' \in {received, [received EXCEPT ![r] = @ + 1]}
    /\ UNCHANGED <<tpc, print, number, versions, open, docs, missed>>

\* One attempt of publish_with_retry: it succeeds, it fails before the broker
\* has the event, or the broker has it and the acknowledgement fails.  The
\* failure of the last attempt is counted.
Publish(r) ==
    /\ task[r] = "running"
    /\ tries' = [tries EXCEPT ![r] = @ + 1]
    /\ \/ /\ task' = [task EXCEPT ![r] = "sent"]
          /\ received' = [received EXCEPT ![r] = @ + 1]
          /\ UNCHANGED faults
       \/ /\ faults < MaxFaults
          /\ faults' = faults + 1
          /\ task' = [task EXCEPT ![r] = IF tries'[r] = Retries THEN "counted" ELSE @]
          /\ received' \in {received, [received EXCEPT ![r] = @ + 1]}
    /\ UNCHANGED <<tpc, print, number, versions, open, docs, missed>>

\* The process restarts: requests and tasks are gone.
RestartRuntime ==
    /\ faults < MaxFaults
    /\ \E r \in Requests : InTrack(r) \/ task[r] = "running"
    /\ faults' = faults + 1
    /\ tpc' = [r \in Requests |-> IF InTrack(r) THEN "failed" ELSE tpc[r]]
    /\ task' = [r \in Requests |-> IF task[r] = "running" THEN "dropped" ELSE task[r]]
    /\ open' = None
    /\ UNCHANGED <<print, number, versions, docs, missed, tries, received>>

\* Everything a request does between its arrival and its answer.
Handle(r) ==
    \/ Register(r) \/ StoreDiff(r) \/ Enqueue(r)
    \/ EmitEvent(r) \/ Commit(r) \/ FailTrack(r)

Next ==
    \/ \E r \in Requests : Arrive(r) \/ Handle(r) \/ Answer(r) \/ Publish(r)
    \/ RestartRuntime

Spec == Init /\ [][Next]_trackVars

-----------------------------------------------------------------------------
\* Types of the variables.
TypeOK ==
    /\ tpc \in [Requests -> Steps]
    /\ print \in [Requests -> Fingerprints]
    /\ number \in [Requests -> Nat]
    /\ versions \in Seq(Fingerprints)
    /\ open \in Requests \cup {None}
    /\ docs \cup missed \subseteq Requests \X {"payload_snapshot", "schema_diff"}
    /\ task \in [Requests -> Tasks]
    /\ tries \in [Requests -> 0..Retries]
    /\ received \in [Requests -> 0..Retries]
    /\ faults \in 0..MaxFaults

\* A drift event or a schema diff document names a version that exists, with
\* the fingerprint it says, unless its request is not committed yet or has
\* failed (service.py:202-261 come before main.py:113): no interleaving gives
\* the number to another version.
TracesNameVersions ==
    \A r \in Requests :
       (task[r] # "none" \/ schema_diff(r) \in docs) /\ ~IsVersion(r) =>
          tpc[r] \in {"enqueue", "event", "commit", "failed"}

\* One drift, one event: two requests announce the same change only if one of
\* them failed and its version was rolled back, so that the other one had to
\* add it again (events have fresh ids, consumers cannot tell).
AnnouncedOnce ==
    \A r, q \in Requests :
       /\ r # q /\ print[r] = print[q]
       /\ task[r] # "none" /\ task[q] # "none"
       => \E x \in {r, q} : tpc[x] = "failed"

\* Nothing is lost in silence: a version with a predecessor, whose request was
\* answered, has its diff document or an error in the log, and its event is at
\* the broker, under way, counted as a failure, or was cut off by a restart.
AnsweredIsTraced ==
    \A r \in Requests :
       tpc[r] = "done" /\ number[r] > 1 =>
          /\ schema_diff(r) \in docs \cup missed
          /\ \/ received[r] > 0
             \/ task[r] \in {"running", "counted", "dropped"}
=============================================================================
