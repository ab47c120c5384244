-------------------------- MODULE ContractRegistry --------------------------
(***************************************************************************)
(* The versioned contract registry behind POST /track                      *)
(* (app/runtime/registry.py, the registry half of app/runtime/service.py   *)
(* and migrations/003_runtime_contract_registry.sql).                      *)
(*                                                                         *)
(* Every request runs in one uvicorn process, on its own PostgreSQL        *)
(* session at READ COMMITTED.  One action is one SQL statement (or one     *)
(* half of an UPDATE that may wait between its snapshot and its row        *)
(* locks), so that statements of concurrent requests interleave freely.    *)
(*                                                                         *)
(* A request inserts at most one row into contract_schema_versions, so     *)
(* the request also serves as the UUID of that row.  A row is uncommitted  *)
(* while its request is in OpenInsert, and then in `committed` or gone.    *)
(***************************************************************************)
EXTENDS Integers, FiniteSets

CONSTANTS
    Requests,       \* POST /track requests, each submitted at most once
    Endpoints,      \* (namespace, service, method, route) keys
    Fingerprints,   \* fingerprints of canonical schemas
    Processes,      \* uvicorn worker processes
    LockIds,        \* advisory lock numbers
    LockId,         \* LockId[<<p, e>>]: what _lock_id computes in process p for e
    Classes,        \* compatibility classifications
    Safe,           \* the classification "SAFE"
    Compat,         \* Compat[<<f, g>>]: the classification of the change from f to g
    None            \* SQL NULL / Python None

(***************************************************************************)
(* _lock_id uses Python's hash() of a string, which is randomised per      *)
(* process, taken modulo 2^31-1: nothing relates the values of two         *)
(* processes or of two endpoints, so LockId is an arbitrary function.      *)
(***************************************************************************)
ASSUME ConstantsAssumption ==
    /\ LockId \in [Processes \X Endpoints -> LockIds]
    /\ Compat \in [Fingerprints \X Fingerprints -> Classes]
    /\ Safe \in Classes
    /\ None \notin Requests

VARIABLES
    pc,             \* the next statement of each request
    args,           \* what was submitted, and the process that serves it
    endpoints,      \* committed rows of contract_registry_endpoints
    newEndpoint,    \* requests whose transaction inserted its endpoint row
    lockHolder,     \* the transaction holding each advisory lock
    current,        \* the local variable `current`: a row id or None
    matched,        \* rows the demoting UPDATE matched in its snapshot
    version,        \* column version of the row inserted by a request
    previous,       \* column previous_version_id
    class,          \* column compatibility_classification
    committed,      \* ids of the committed rows
    isCurrent       \* ids of the committed rows with is_current = TRUE

vars == <<pc, args, endpoints, newEndpoint, lockHolder, current, matched,
          version, previous, class, committed, isCurrent>>

tables == <<endpoints, committed, isCurrent>>

PCs == {"idle", "endpoint_select", "endpoint_insert", "fast_lookup", "lock",
        "read_current", "recheck", "demote", "demote_wait", "insert",
        "classify", "commit", "found", "conflict", "done", "failed"}

\* Statements issued with an open, uncommitted row of one's own.
OpenInsert == {"classify", "commit"}
\* Statements issued while holding the locks of the demoted rows.
HoldsRows == {"insert", "classify", "commit"}
\* Statements issued between pg_advisory_xact_lock and the end of the
\* transaction.  ("found" is also reached without the lock.)
Registering == {"read_current", "recheck", "demote", "demote_wait", "insert",
                "classify", "commit", "conflict"}
Ended == {"done", "failed"}

ep(r) == args[r].ep
fp(r) == args[r].fp
MyLock(r) == LockId[<<args[r].proc, ep(r)>>]

\* diff_and_classify and summarize_classification between two rows.
Drift(x, y) == Compat[<<fp(x), fp(y)>>]

\* Ids of the committed rows of the endpoint of r.
RowsOf(r) == {x \in committed : ep(x) = ep(r)}

\* SELECT ... WHERE endpoint_id = ... AND fingerprint = ...
FingerprintKnown(r) == \E x \in RowsOf(r) : fp(x) = fp(r)

-----------------------------------------------------------------------------
Init ==
    /\ pc = [r \in Requests |-> "idle"]
    /\ args \in [Requests -> [ep: Endpoints, fp: Fingerprints, proc: Processes]]
    /\ endpoints = {}
    /\ newEndpoint = {}
    /\ lockHolder = [l \in LockIds |-> None]
    /\ current = [r \in Requests |-> None]
    /\ matched = [r \in Requests |-> {}]
    /\ version = [r \in Requests |-> 0]
    /\ previous = [r \in Requests |-> None]
    /\ class = [r \in Requests |-> Safe]
    /\ committed = {}
    /\ isCurrent = {}

Goto(r, label) == pc' = [pc EXCEPT ![r] = label]

\* A request reaches track_contract; canonicalize and fingerprint are pure.
Submit(r) ==
    /\ pc[r] = "idle"
    /\ Goto(r, "endpoint_select")
    /\ UNCHANGED <<args, newEndpoint, lockHolder, current, matched, version,
                   previous, class, tables>>

\* ensure_endpoint, the first SELECT.
SelectEndpoint(r) ==
    /\ pc[r] = "endpoint_select"
    /\ Goto(r, IF ep(r) \in endpoints THEN "fast_lookup" ELSE "endpoint_insert")
    /\ UNCHANGED <<args, newEndpoint, lockHolder, current, matched, version,
                   previous, class, tables>>

\* Mutant: the endpoint row is committed at once.
InsertEndpointCommitted(r) ==
    /\ pc[r] = "endpoint_insert"
    /\ endpoints' = endpoints \cup {ep(r)}
    /\ Goto(r, "fast_lookup")
    /\ UNCHANGED <<args, newEndpoint, lockHolder, current, matched, version,
                   previous, class, committed, isCurrent>>

\* ensure_endpoint, INSERT ... ON CONFLICT DO NOTHING, which waits for an
\* uncommitted insert of the same key, and the SELECT after it, which finds
\* the committed or the own row (endpoint rows are never deleted).
InsertEndpoint(r) ==
    /\ pc[r] = "endpoint_insert"
    /\ \A q \in newEndpoint : ep(q) # ep(r)
    /\ newEndpoint' = IF ep(r) \in endpoints THEN newEndpoint
                                             ELSE newEndpoint \cup {r}
    /\ Goto(r, "fast_lookup")
    /\ UNCHANGED <<args, lockHolder, current, matched, version, previous,
                   class, tables>>

\* Mutant: the lookup before the lock forgets to compare fingerprints.
FastLookupAny(r) ==
    /\ pc[r] = "fast_lookup"
    /\ Goto(r, IF RowsOf(r) # {} THEN "found" ELSE "lock")
    /\ UNCHANGED <<args, newEndpoint, lockHolder, current, matched, version,
                   previous, class, tables>>

\* The fingerprint lookup before the lock.
FastLookup(r) ==
    /\ pc[r] = "fast_lookup"
    /\ Goto(r, IF FingerprintKnown(r) THEN "found" ELSE "lock")
    /\ UNCHANGED <<args, newEndpoint, lockHolder, current, matched, version,
                   previous, class, tables>>

\* SELECT pg_advisory_xact_lock(_lock_id(...)).
AcquireLock(r) ==
    /\ pc[r] = "lock"
    /\ lockHolder[MyLock(r)] = None
    /\ lockHolder' = [lockHolder EXCEPT ![MyLock(r)] = r]
    /\ Goto(r, "read_current")
    /\ UNCHANGED <<args, newEndpoint, current, matched, version, previous,
                   class, tables>>

\* get_current_schema: WHERE is_current ORDER BY version DESC LIMIT 1.
ReadCurrent(r) ==
    /\ pc[r] = "read_current"
    /\ LET candidates == RowsOf(r) \cap isCurrent
       IN  \/ /\ candidates = {}
              /\ current' = [current EXCEPT ![r] = None]
           \/ \E x \in candidates :
                /\ \A y \in candidates : version[y] <= version[x]
                /\ current' = [current EXCEPT ![r] = x]
    /\ Goto(r, "recheck")
    /\ UNCHANGED <<args, newEndpoint, lockHolder, matched, version, previous,
                   class, tables>>

\* Mutant: no second lookup under the lock.
RecheckSkipped(r) ==
    /\ pc[r] = "recheck"
    /\ Goto(r, IF current[r] = None THEN "insert" ELSE "demote")
    /\ UNCHANGED <<args, newEndpoint, lockHolder, current, matched, version,
                   previous, class, tables>>

\* The fingerprint lookup under the lock.
Recheck(r) ==
    /\ pc[r] = "recheck"
    /\ Goto(r, CASE FingerprintKnown(r) -> "found"
                 [] ~FingerprintKnown(r) /\ current[r] = None -> "insert"
                 [] OTHER -> "demote")
    /\ UNCHANGED <<args, newEndpoint, lockHolder, current, matched, version,
                   previous, class, tables>>

\* Mutant: the UPDATE demotes only what is older than the current row.
BeginDemoteOlder(r) ==
    /\ pc[r] = "demote"
    /\ matched' = [matched EXCEPT ![r] =
                     {x \in RowsOf(r) : version[x] < version[current[r]]}]
    /\ Goto(r, "demote_wait")
    /\ UNCHANGED <<args, newEndpoint, lockHolder, current, version, previous,
                   class, tables>>

\* UPDATE ... SET is_current = FALSE, first half: the statement's snapshot.
BeginDemote(r) ==
    /\ pc[r] = "demote"
    /\ matched' = [matched EXCEPT ![r] = RowsOf(r)]
    /\ Goto(r, "demote_wait")
    /\ UNCHANGED <<args, newEndpoint, lockHolder, current, version, previous,
                   class, tables>>

\* Mutant: a commit right after the UPDATE.
EndDemoteCommits(r) ==
    /\ pc[r] = "demote_wait"
    /\ isCurrent' = isCurrent \ matched[r]
    /\ Goto(r, "insert")
    /\ UNCHANGED <<args, newEndpoint, lockHolder, current, matched, version,
                   previous, class, endpoints, committed>>

\* Second half: wait for the row locks, then update the matched rows (the
\* WHERE clause is still true of their newest versions).  Rows committed
\* since the snapshot are not touched.
EndDemote(r) ==
    /\ pc[r] = "demote_wait"
    /\ \A q \in Requests \ {r} :
          pc[q] \in HoldsRows => matched[q] \cap matched[r] = {}
    /\ Goto(r, "insert")
    /\ UNCHANGED <<args, newEndpoint, lockHolder, current, matched, version,
                   previous, class, tables>>

NextVersion(r) == IF current[r] = None THEN 1 ELSE version[current[r]] + 1

\* Mutant: no UNIQUE (endpoint_id, version).
ClashesByFingerprint(r, v) == {x \in Requests \ {r} : ep(x) = ep(r) /\ fp(x) = fp(r)}

\* Rows of the same endpoint that one of the two UNIQUE constraints sets
\* against a row <<version v, fingerprint of r>>.
Clashes(r, v) == {x \in Requests \ {r} : /\ ep(x) = ep(r)
                                         /\ version[x] = v \/ fp(x) = fp(r)}

\* INSERT INTO contract_schema_versions, with UNIQUE (endpoint_id, version)
\* and UNIQUE (endpoint_id, fingerprint): the insert waits for the outcome of
\* a clashing uncommitted row; a clashing committed row is an IntegrityError.
InsertVersion(r) ==
    LET v == NextVersion(r) IN
    /\ pc[r] = "insert"
    /\ \A x \in Clashes(r, v) : pc[x] \notin OpenInsert
    /\ IF Clashes(r, v) \cap committed = {}
       THEN /\ version' = [version EXCEPT ![r] = v]
            /\ previous' = [previous EXCEPT ![r] = current[r]]
            /\ Goto(r, "classify")
       ELSE /\ Goto(r, "conflict")
            /\ UNCHANGED <<version, previous>>
    /\ UNCHANGED <<args, newEndpoint, lockHolder, current, matched, class,
                   tables>>

\* Mutants: the arguments of diff_and_classify swapped; or the new row is
\* current for everybody before it is committed.
ClassifySwapped(r) ==
    /\ pc[r] = "classify"
    /\ class' = [class EXCEPT ![r] =
                   IF previous[r] = None THEN @
                   ELSE Drift(r, previous[r])]
    /\ Goto(r, "commit")
    /\ UNCHANGED <<args, newEndpoint, lockHolder, current, matched, version,
                   previous, tables>>

ClassifyUncommitted(r) ==
    /\ pc[r] = "classify"
    /\ isCurrent' = isCurrent \cup {r}
    /\ Goto(r, "commit")
    /\ UNCHANGED <<args, newEndpoint, lockHolder, current, matched, version,
                   previous, class, endpoints, committed>>

\* track_contract with inserted = True: read the prior version, classify the
\* difference and UPDATE the new row.  A first version stays SAFE.
Classify(r) ==
    /\ pc[r] = "classify"
    /\ class' = [class EXCEPT ![r] =
                   IF previous[r] = None THEN @
                   ELSE Drift(previous[r], r)]
    /\ Goto(r, "commit")
    /\ UNCHANGED <<args, newEndpoint, lockHolder, current, matched, version,
                   previous, tables>>

\* Mutant: a session-level lock, which outlives the transaction.
ReleaseLocksNever(r) == UNCHANGED lockHolder

\* The end of a transaction frees its advisory lock.
ReleaseLocks(r) ==
    lockHolder' = [l \in LockIds |->
                     IF lockHolder[l] = r THEN None ELSE lockHolder[l]]

\* The first commit after the writes: db.commit() in track_payload, or the
\* one inside deliver_with_retry when a webhook is delivered inline.
Commit(r) ==
    /\ pc[r] \in {"commit", "found"}
    /\ IF pc[r] = "commit"
       THEN /\ committed' = committed \cup {r}
            /\ isCurrent' = (isCurrent \ matched[r]) \cup {r}
       ELSE UNCHANGED <<committed, isCurrent>>
    /\ endpoints' = IF r \in newEndpoint THEN endpoints \cup {ep(r)}
                                         ELSE endpoints
    /\ newEndpoint' = newEndpoint \ {r}
    /\ ReleaseLocks(r)
    /\ Goto(r, "done")
    /\ UNCHANGED <<args, current, matched, version, previous, class>>

\* PostgreSQL rolls back a transaction that ends without a commit.
Rollback(r) ==
    /\ newEndpoint' = newEndpoint \ {r}
    /\ ReleaseLocks(r)
    /\ Goto(r, "failed")
    /\ UNCHANGED <<args, current, matched, version, previous, class, tables>>

\* The IntegrityError of the INSERT leaves the handler: HTTP 500.
IntegrityError(r) == pc[r] = "conflict" /\ Rollback(r)

\* The session closes early: another exception, a cancelled request, a lost
\* connection, a killed process.
Fail(r) == pc[r] \notin {"idle", "conflict"} \cup Ended /\ Rollback(r)

Step(r) ==
    \/ Submit(r)
    \/ SelectEndpoint(r)
    \/ InsertEndpoint(r)
    \/ FastLookup(r)
    \/ AcquireLock(r)
    \/ ReadCurrent(r)
    \/ Recheck(r)
    \/ BeginDemote(r)
    \/ EndDemote(r)
    \/ InsertVersion(r)
    \/ Classify(r)
    \/ Commit(r)
    \/ IntegrityError(r)

\* Every request is answered: the only state in which nothing happens.
AllAnswered ==
    /\ \A r \in Requests : pc[r] \in Ended
    /\ UNCHANGED vars

Next ==
    \/ \E r \in Requests : Step(r) \/ Fail(r)
    \/ AllAnswered

Spec == Init /\ [][Next]_vars

(***************************************************************************)
(* asyncio runs every ready handler and PostgreSQL grants a free lock to a *)
(* waiter, so a request whose next statement can run eventually runs it.   *)
(* Nobody has to submit a request, and nothing has to fail.                *)
(***************************************************************************)
Progress(r) == Step(r) /\ ~Submit(r)

FairSpec == Spec /\ \A r \in Requests : WF_vars(Progress(r))

-----------------------------------------------------------------------------
\* Types of the variables; a row that readers see as current is a committed one,
\* although the INSERT that makes it current (registry.py:201-224) is followed
\* by more statements before the commit.
TypeOK ==
    /\ pc \in [Requests -> PCs]
    /\ args \in [Requests -> [ep: Endpoints, fp: Fingerprints, proc: Processes]]
    /\ endpoints \subseteq Endpoints
    /\ newEndpoint \subseteq Requests
    /\ lockHolder \in [LockIds -> Requests \cup {None}]
    /\ current \in [Requests -> Requests \cup {None}]
    /\ matched \in [Requests -> SUBSET Requests]
    /\ version \in [Requests -> Nat]
    /\ previous \in [Requests -> Requests \cup {None}]
    /\ class \in [Requests -> Classes]
    /\ committed \subseteq Requests
    /\ isCurrent \subseteq committed

\* Whatever locks the processes use, no two committed versions of an endpoint
\* share a number or a fingerprint, and the numbers have no gap: the writer
\* of version n + 1 read version n as current (registry.py:190-191), the
\* version it names in previous_version_id.
VersionChain ==
    \A x \in committed :
       /\ version[x] >= 1
       /\ \A y \in committed \ {x} :
             ep(x) = ep(y) => version[x] # version[y] /\ fp(x) # fp(y)
       /\ IF version[x] = 1
          THEN previous[x] = None
          ELSE /\ previous[x] \in committed
               /\ ep(previous[x]) = ep(x)
               /\ version[previous[x]] = version[x] - 1

\* The demoting UPDATE and the INSERT of concurrent requests leave every
\* endpoint that has versions with exactly one current row, its newest: what
\* get_current_schema (registry.py:92-119) returns is the last version.
NewestIsCurrent ==
    \A x \in committed :
       x \in isCurrent <=> \A y \in committed :
                               ep(y) = ep(x) => version[y] <= version[x]

\* A committed version carries the classification of its difference from the
\* version just before it, not from one that was overtaken (service.py:184-231).
ClassifiedAgainstPredecessor ==
    \A x \in committed :
       \/ version[x] = 1 /\ class[x] = Safe
       \/ \E y \in committed : /\ ep(y) = ep(x)
                               /\ version[y] = version[x] - 1
                               /\ class[x] = Drift(y, x)

\* An endpoint row is never visible without a version of its own: an endpoint
\* found by ensure_endpoint has a current schema to compare with.
EndpointHasCurrent ==
    \A e \in Endpoints : e \in endpoints <=> \E x \in isCurrent : ep(x) = e

\* A request answered with success has its fingerprint in the registry,
\* whether it inserted the row or found the row of another request.
AnsweredIsRecorded == \A r \in Requests : pc[r] = "done" => FingerprintKnown(r)

\* The submissions of r's endpoint lock the same number, as they do when one
\* process serves them.
LocksAgree(r) == \A q \in Requests : ep(q) = ep(r) => MyLock(q) = MyLock(r)

\* Where the processes agree on the lock of an endpoint, the lock and the
\* recheck under it make the UNIQUE constraints unnecessary: no registration
\* ends with an IntegrityError (HTTP 500), whatever the other endpoints do.
NoIntegrityError == \A r \in Requests : LocksAgree(r) => pc[r] # "conflict"

\* Endpoint insert, advisory lock, row locks and unique index waits never
\* form a cycle: every submitted request is answered.
EveryRequestAnswered ==
    \A r \in Requests : pc[r] # "idle" ~> pc[r] \in Ended

(***************************************************************************)
(* Refinement of SchemaHistory.  The history of an endpoint is as long as  *)
(* the version of its current row (get_current_schema), and its n-th       *)
(* element is the fingerprint of the row with version n.                   *)
(***************************************************************************)
CurrentVersion(e) ==
    IF \E x \in isCurrent : ep(x) = e
    THEN version[CHOOSE x \in isCurrent : ep(x) = e]
    ELSE 0

RowAt(e, n) == CHOOSE x \in committed : ep(x) = e /\ version[x] = n

HistoryOf(e) == [n \in 1..CurrentVersion(e) |-> fp(RowAt(e, n))]

History == INSTANCE SchemaHistory WITH
              history <- [e \in Endpoints |-> HistoryOf(e)]

\* Every interleaving of the SQL statements of concurrent requests, with any
\* locks and any failures, looks to a reader of the registry like versions
\* appended one at a time and never changed afterwards.
RefinesHistory == History!Spec
=============================================================================
