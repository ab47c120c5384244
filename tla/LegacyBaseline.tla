--------------------------- MODULE LegacyBaseline ---------------------------
(***************************************************************************)
(* The second half of POST /track (app/main.py) on the legacy tables of    *)
(* migrations/001 and 002: register_payload_snapshot of app/core/engine.py *)
(* under the advisory lock of the route, then, without the lock, the       *)
(* choice of the endpoint's baseline and the comparison with it.           *)
(*                                                                         *)
(* Each action is one SQL statement at READ COMMITTED with the commit that *)
(* follows it at once; an UPDATE that may wait for row locks is split.     *)
(* A snapshot is named by its unique key <<endpoint, fingerprint>>.        *)
(***************************************************************************)
EXTENDS FiniteSets

CONSTANTS
    Requests,
    Endpoints,      \* (service_name, http_method, route_path)
    RouteOf,        \* column route_path
    Fingerprints,   \* structural fingerprints
    None

Routes == {RouteOf[e] : e \in Endpoints}
Snapshots == Endpoints \X Fingerprints

ASSUME LegacyAssumption ==
    /\ DOMAIN RouteOf = Endpoints
    /\ None \notin Fingerprints
    /\ None \notin Requests

VARIABLES
    pc,
    args,           \* the snapshot that a request carries
    lockHolder,     \* transaction holding the advisory lock of a route
    endpoints,      \* committed rows of api_endpoints
    newEndpoint,    \* requests with an uncommitted endpoint row
    snapshots,      \* committed rows of schema_snapshots
    inserted,       \* result `inserted` of register_payload_snapshot
    baseline,       \* `baseline_fingerprint` as the request knows it
    matched,        \* rows matched by the demoting UPDATE
    active,         \* committed rows with is_active_baseline
    compared        \* <<request, fingerprint>> it was compared with, committed

vars == <<pc, args, lockHolder, endpoints, newEndpoint, snapshots, inserted,
          baseline, matched, active, compared>>
tables == <<endpoints, snapshots, active, compared>>

PCs == {"idle", "lock", "endpoint_select", "endpoint_insert", "snapshot_select",
        "snapshot_insert", "register_commit", "baseline", "demote", "demote_wait",
        "promote", "compare", "conflict", "done", "failed"}
Ended == {"done", "failed"}
\* Statements between pg_advisory_xact_lock and the end of db.begin().
Locked == {"endpoint_select", "endpoint_insert", "snapshot_select",
           "snapshot_insert", "register_commit", "conflict"}

ep(r) == args[r][1]
fp(r) == args[r][2]
route(r) == RouteOf[ep(r)]
OfEndpoint(set, e) == {x \in set : x[1] = e}

Init ==
    /\ pc = [r \in Requests |-> "idle"]
    /\ args \in [Requests -> Snapshots]
    /\ lockHolder = [p \in Routes |-> None]
    /\ endpoints = {}
    /\ newEndpoint = {}
    /\ snapshots = {}
    /\ inserted = {}
    /\ baseline = [r \in Requests |-> None]
    /\ matched = [r \in Requests |-> {}]
    /\ active = {}
    /\ compared = {}

Goto(r, label) == pc' = [pc EXCEPT ![r] = label]

\* track_contract has committed; its outcome is the registry's business.
Begin(r) ==
    /\ pc[r] = "idle"
    /\ Goto(r, "lock")
    /\ UNCHANGED <<args, lockHolder, newEndpoint, inserted, baseline, matched, tables>>
-----------------------------------------------------------------------------
\* Mutant: the lock is tried and its result ignored.
AcquireRouteLockIgnored(r) ==
    /\ pc[r] = "lock"
    /\ lockHolder' = [lockHolder EXCEPT ![route(r)] = IF @ = None THEN r ELSE @]
    /\ Goto(r, "endpoint_select")
    /\ UNCHANGED <<args, newEndpoint, inserted, baseline, matched, tables>>

\* pg_advisory_xact_lock(route_lock_id): SHA-256, the same in all processes.
AcquireRouteLock(r) ==
    /\ pc[r] = "lock"
    /\ lockHolder[route(r)] = None
    /\ lockHolder' = [lockHolder EXCEPT ![route(r)] = r]
    /\ Goto(r, "endpoint_select")
    /\ UNCHANGED <<args, newEndpoint, inserted, baseline, matched, tables>>

SelectEndpoint(r) ==
    /\ pc[r] = "endpoint_select"
    /\ Goto(r, IF ep(r) \in endpoints THEN "snapshot_select" ELSE "endpoint_insert")
    /\ UNCHANGED <<args, lockHolder, newEndpoint, inserted, baseline, matched, tables>>

\* A plain INSERT: it waits for an uncommitted row with the same key and
\* raises if the row is there.
InsertEndpoint(r) ==
    /\ pc[r] = "endpoint_insert"
    /\ \A q \in newEndpoint : ep(q) # ep(r)
    /\ IF ep(r) \in endpoints
       THEN Goto(r, "conflict") /\ UNCHANGED newEndpoint
       ELSE Goto(r, "snapshot_select") /\ newEndpoint' = newEndpoint \cup {r}
    /\ UNCHANGED <<args, lockHolder, inserted, baseline, matched, tables>>

SelectSnapshot(r) ==
    /\ pc[r] = "snapshot_select"
    /\ Goto(r, IF args[r] \in snapshots THEN "register_commit" ELSE "snapshot_insert")
    /\ UNCHANGED <<args, lockHolder, newEndpoint, inserted, baseline, matched, tables>>

\* INSERT under UNIQUE (endpoint_id, fingerprint).
InsertSnapshot(r) ==
    /\ pc[r] = "snapshot_insert"
    /\ \A q \in inserted : pc[q] = "register_commit" => args[q] # args[r]
    /\ IF args[r] \in snapshots
       THEN Goto(r, "conflict") /\ UNCHANGED inserted
       ELSE Goto(r, "register_commit") /\ inserted' = inserted \cup {r}
    /\ UNCHANGED <<args, lockHolder, newEndpoint, baseline, matched, tables>>

ReleaseLock(r) ==
    lockHolder' = [p \in Routes |-> IF lockHolder[p] = r THEN None ELSE lockHolder[p]]

\* The end of `async with db.begin()`.
CommitRegistration(r) ==
    /\ pc[r] = "register_commit"
    /\ endpoints' = endpoints \cup {ep(q) : q \in newEndpoint \cap {r}}
    /\ newEndpoint' = newEndpoint \ {r}
    /\ snapshots' = snapshots \cup {args[q] : q \in inserted \cap {r}}
    /\ ReleaseLock(r)
    /\ Goto(r, "baseline")
    /\ UNCHANGED <<args, inserted, baseline, matched, active, compared>>
-----------------------------------------------------------------------------
\* Mutant: every new snapshot is promoted, baseline or not.
ReadBaselinePromotes(r) ==
    /\ pc[r] = "baseline"
    /\ Goto(r, IF r \in inserted THEN "demote" ELSE "done")
    /\ UNCHANGED <<args, lockHolder, newEndpoint, inserted, baseline, matched, tables>>

\* get_active_baseline_snapshot, and the two conditions after it.  created_at
\* is the start of the registering transaction, which says nothing of the
\* order of the commits: of several active rows any one may be the newest.
ReadBaseline(r) ==
    LET found == OfEndpoint(active, ep(r)) IN
    /\ pc[r] = "baseline"
    /\ \/ /\ found = {}
          /\ UNCHANGED baseline
          /\ Goto(r, IF r \in inserted THEN "demote" ELSE "done")
       \/ \E b \in found :
            /\ baseline' = [baseline EXCEPT ![r] = b[2]]
            /\ Goto(r, IF b[2] # fp(r) THEN "compare" ELSE "done")
    /\ UNCHANGED <<args, lockHolder, newEndpoint, inserted, matched, tables>>

\* UPDATE ... SET is_active_baseline = FALSE: its snapshot of the rows ...
BeginDemote(r) ==
    /\ pc[r] = "demote"
    /\ matched' = [matched EXCEPT ![r] = OfEndpoint(snapshots, ep(r))]
    /\ Goto(r, "demote_wait")
    /\ UNCHANGED <<args, lockHolder, newEndpoint, inserted, baseline, tables>>

\* ... and their locks, which it keeps until the commit.
EndDemote(r) ==
    /\ pc[r] = "demote_wait"
    /\ \A q \in Requests \ {r} :
          pc[q] = "promote" => matched[q] \cap matched[r] = {}
    /\ Goto(r, "promote")
    /\ UNCHANGED <<args, lockHolder, newEndpoint, inserted, baseline, matched, tables>>

\* Mutant: the two UPDATEs in the wrong order.
PromoteThenDemote(r) ==
    /\ pc[r] = "promote"
    /\ active' = (active \cup {args[r]}) \ matched[r]
    /\ baseline' = [baseline EXCEPT ![r] = fp(r)]
    /\ Goto(r, "done")
    /\ UNCHANGED <<args, lockHolder, newEndpoint, inserted, matched, endpoints,
                   snapshots, compared>>

\* UPDATE ... SET is_active_baseline = TRUE of the own row, commit.  The
\* request is its own baseline and is compared with nothing.
Promote(r) ==
    /\ pc[r] = "promote"
    /\ active' = (active \ matched[r]) \cup ({args[r]} \cap snapshots)
    /\ baseline' = [baseline EXCEPT ![r] = fp(r)]
    /\ Goto(r, "done")
    /\ UNCHANGED <<args, lockHolder, newEndpoint, inserted, matched, endpoints,
                   snapshots, compared>>

\* structural_diff, classify_contract_drift, log_drift_violations, commit.
Compare(r) ==
    /\ pc[r] = "compare"
    /\ compared' = compared \cup {<<r, baseline[r]>>}
    /\ Goto(r, "done")
    /\ UNCHANGED <<args, lockHolder, newEndpoint, inserted, baseline, matched,
                   endpoints, snapshots, active>>

Rollback(r) ==
    /\ newEndpoint' = newEndpoint \ {r}
    /\ inserted' = IF pc[r] \in Locked THEN inserted \ {r} ELSE inserted
    /\ ReleaseLock(r)
    /\ Goto(r, "failed")
    /\ UNCHANGED <<args, baseline, matched, tables>>

\* The session dies, or an IntegrityError leaves the handler: the open
\* transaction is lost, earlier commits stay.
Fail(r) == pc[r] \notin {"idle"} \cup Ended /\ Rollback(r)

Step(r) ==
    \/ Begin(r) \/ AcquireRouteLock(r) \/ SelectEndpoint(r) \/ InsertEndpoint(r)
    \/ SelectSnapshot(r) \/ InsertSnapshot(r) \/ CommitRegistration(r)
    \/ ReadBaseline(r) \/ BeginDemote(r) \/ EndDemote(r) \/ Promote(r)
    \/ Compare(r)

AllAnswered ==
    /\ \A r \in Requests : pc[r] \in Ended
    /\ UNCHANGED vars

Next ==
    \/ \E r \in Requests : Step(r) \/ Fail(r)
    \/ AllAnswered

Spec == Init /\ [][Next]_vars
-----------------------------------------------------------------------------
\* Types of the variables.
TypeOK ==
    /\ pc \in [Requests -> PCs]
    /\ args \in [Requests -> Snapshots]
    /\ lockHolder \in [Routes -> Requests \cup {None}]
    /\ endpoints \subseteq Endpoints
    /\ newEndpoint \subseteq Requests
    /\ snapshots \subseteq Snapshots
    /\ inserted \subseteq Requests
    /\ baseline \in [Requests -> Fingerprints \cup {None}]
    /\ matched \in [Requests -> SUBSET Snapshots]
    /\ active \subseteq snapshots
    /\ compared \subseteq Requests \X Fingerprints

\* tests/test_runtime_track.py:177, "test_concurrent_submissions_keep_single_baseline":
\* an endpoint has at most one active baseline.  Demoting and promoting happen
\* outside the advisory lock (main.py:136-157).
SingleBaseline ==
    \A x, y \in active : x[1] = y[1] => x = y

\* The route lock makes SELECT-then-INSERT of endpoint and snapshot atomic
\* (engine.py:121-138): no request fails on a unique constraint.
NoRegistrationConflict == \A r \in Requests : pc[r] # "conflict"

Promoting(e) == {r \in Requests : /\ ep(r) = e
                                  /\ pc[r] \in {"demote", "demote_wait", "promote"}}

\* Once an endpoint has a baseline and no request that saw none is still on
\* its way to promote its own, the baseline never changes again: later drift
\* is always measured from the same snapshot.
BaselineIsStable ==
    [][\A e \in Endpoints :
          OfEndpoint(active, e) # {} /\ Promoting(e) = {} =>
             /\ OfEndpoint(active', e) = OfEndpoint(active, e)
             /\ Promoting(e)' = {}]_vars

\* A new snapshot is never left without a baseline to measure from, unless its
\* request fails between registration and promotion (main.py:122-157): an
\* endpoint has snapshots and no baseline only while every request that added
\* one of them is on its way or has failed.  No interleaving makes each
\* request leave the promotion to another one.
BaselineWasChosen ==
    \A r \in inserted :
       pc[r] \in {"compare", "done"} => OfEndpoint(active, ep(r)) # {}
=============================================================================
