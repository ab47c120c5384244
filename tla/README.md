# TLA+ specifications of SchemaPilot

SchemaPilot watches JSON APIs for contract drift. A client posts a payload to
`POST /track`; the service fingerprints its shape, registers a new schema version
when the shape is new, classifies the difference from the previous version and
notifies the consumers that subscribed to the endpoint. A second service polls
public endpoints on a schedule and keeps its own history. This directory holds the
TLA+ models of the parts where concurrency, failure or case analysis decide whether
the data is right, the TLC configurations that check them, and the TLAPS proofs.

Paths below are relative to the repository (`src/` in `PROJECT.json`).

## 1. Inventory

| Part | Code | State | Operations | What makes it correct |
|---|---|---|---|---|
| Contract registry | `app/runtime/registry.py`, `service.py`, `migrations/003` | rows of `contract_registry_endpoints` and `contract_schema_versions`; advisory locks | `track_contract`, `upsert_schema_version` | gapless version chain per endpoint, exactly the newest version current, each version classified against its predecessor |
| Webhook outbox and delivery | `service.py`, `webhook.py`, `workers/outbox_worker.py`, `migrations/005` | `webhook_outbox`, `webhook_delivery_dlq` | enqueue, inline delivery, poll, deliver, dead-letter, replay | no notification is dropped silently, retries are bounded, outcomes are final |
| Consumer subscriptions | `app/runtime/subscriptions.py`, `app/api/subscriptions.py` | `consumer_subscriptions` | create, list, patch | only affected, active subscriptions are notified |
| Webhook gateway | `gateway/src/*.ts` | in-memory idempotency store | receive, verify, forward | a duplicate is refused, a retry of a failed delivery is not |
| Monitor lock, run lifecycle | `backend/app/core/locking.py`, `workers/monitor_runner.py` | session-level advisory lock, connection pool, `monitor_runs` | `run_monitor` | one run at a time, the lock is released, the history agrees with the answers |
| Monitor snapshots and diffs | `monitor_runner.py`, `registry_loader.py`, `fetcher.py` | snapshots, diffs | fetch, diff with the prior snapshot, retention sweep | a run that reports success has missed no drift from the snapshot before, drift that was not compared is marked by a failed run, raw samples are bounded |
| Legacy contract guard | `app/main.py`, `app/core/engine.py`, `migrations/001` | `api_endpoints`, `schema_snapshots`, `is_active_baseline` | register, choose baseline, compare | one stable baseline per endpoint |
| Compatibility classifier | `app/runtime/classifier.py`, `canonical.py` | none (pure) | `diff_and_classify` | a change that breaks readers is never SAFE |
| Legacy parser and classifier | `app/core/parser.py`, `engine.py` | none (pure) | `structural_diff` | as above, for the legacy tables |
| Schema inference, diff, severity | `backend/app/core/schema_*.py` | none (pure) | infer, merge, diff | drift that breaks readers is not reported as safe, the order of items is no drift |
| Changelog | `backend/app/core/changelog.py`, `backend/app/api/changelog.py` | `changelogs`, one row per snapshot and set of diffs | look up, generate, flush | concurrent requests do not collide, and do not starve the pool |
| Event publishing | `app/runtime/events.py`, `event_backends.py` | background tasks | publish with backoff | an event names a version that exists, one drift is one event, nothing is lost in silence |
| Document store | `app/runtime/document_store.py` | payload snapshots, schema diffs, validation errors, replay artifacts | best-effort writes | a document names a version that exists, a failed write is logged and stops nothing |
| Reliability and monitor REST APIs, metrics, dashboard | `app/api`, `backend/app/api`, `frontend` | none of their own | read; replay | |
| Contract review | `scripts/openapi_diff.py`, `scripts/contract_review_agent.py` | none (pure) | diff two API documents, CI decision | a change of types or required fields that breaks senders never passes, the two checks agree |
| Migrations, simulator, load tests | `migrations`, `simulator`, `scripts/simulate_drift.py`, `k6` | | developer tools | |

How they interact. `POST /track` (`app/main.py`) first runs `track_contract`: registry
statements, drift event, outbox rows and optional inline delivery share one database
session and its transaction; then, in transactions of its own, it updates the legacy
tables. Outbox workers run in every uvicorn process and share `webhook_outbox` with
the requests. Documents and drift events leave the transaction at once: a document is
stored in the middle of it, an event is handed to a background task before it commits. The
gateway is a Node process that turns signed webhooks into `POST /track` requests. The
monitor is a separate service with a separate database schema; its runs and its other
requests share a connection pool.

The hard behaviours are the ones listed as `hazards` in `PROJECT.json`:

- statements of concurrent requests interleave at READ COMMITTED, with locks whose
  numbers depend on the process (`_lock_id` uses Python's randomised `hash`);
- an `UPDATE` takes its snapshot, then waits for row locks, and may miss rows
  committed meanwhile;
- `deliver_with_retry` commits in the middle of the transaction it is called in, which
  publishes half of the request's work and drops the row locks of a worker's batch;
- a session-level lock stays on a pooled connection that the session has given back, and the
  unlock after the commit needs a connection again, which may be lost or not to be had;
- the monitor's endpoint tasks share one session, and a flush that falls into another
  task's flush raises;
- the gateway checks its store before an `await` and writes it after, and gives up on a
  runtime that goes on;
- events and documents name a version that is not committed yet, and may never be;
- changelog requests wait for each other's uncommitted rows, each with a connection of the
  pool in its hands, while monitor runs wait for connections;
- fields are compared by the texts of their paths, which need not tell them apart;
- a process dies between two commits.

## 2. Modules

| Module | Models |
|---|---|
| `ContractRegistry` | the registry, one action per SQL statement |
| `SchemaHistory` | abstract specification of the registry: per-endpoint histories that only grow |
| `WebhookOutbox` | drift event to webhook, workers, dead letters, replay |
| `WebhookGateway` | the gateway's handler and idempotency store |
| `TrackEffects` | what `POST /track` leaves outside its transaction: documents and drift events |
| `WebhookIngest` | `WebhookGateway` in front of `TrackEffects` |
| `MonitorLock` | `run_monitor` under `advisory_lock` on a connection pool |
| `MonitorService` | `MonitorLock` and the changelog requests on the same pool |
| `MonitorHistory` | what `run_monitor` does under the lock: tasks on one session, snapshots, diffs, retention |
| `LegacyBaseline` | legacy half of `POST /track` |
| `JsonPayload` | JSON values by path, for the three modules that follow |
| `CompatibilityClassifier` | `diff_and_classify` with everything it calls |
| `LegacyClassifier` | `parser.py` and the structural diff of the legacy tables |
| `SchemaDiffing` | the monitor's `normalize`, `infer_schema`, `stable_schema_hash`, `diff_schemas` |
| `OpenApiReview` | the two document diffs and the CI decision |
| `MCComparisons` | the four pure modules in one instance |
| `MC...` | values of the constants for TLC |
| `ContractRegistryProofs`, `WebhookOutboxProofs`, `WebhookIngestProofs`, `MonitorServiceProofs`, `MonitorHistoryProofs`, `LegacyBaselineProofs`, `ComparisonProofs`, `SchemaDiffingProofs` | TLAPS proofs, section 4 |

Each definition that models code has its lines in `PROJECT.json` under `map`.
Operators introduced by a comment "Mutant" (`...Ignored`, `...Unguarded`,
`ClassifySwapped` and so on) are deliberate bugs. No specification uses them; each is
put in the place of the definition that follows it to see a property fail.

### ContractRegistry

A request is one call of `track_contract`; a row of `contract_schema_versions` is named
by the request that inserted it, so the table is `committed`, a set of requests, with the
columns `version`, `previous` and `class` as functions. `endpoints` is the committed
part of `contract_registry_endpoints`; `newEndpoint` holds uncommitted endpoint rows. A payload is its
fingerprint; `Compat` gives the classification of every ordered pair.

| Action | Code |
|---|---|
| `Submit` | arrival of the request; endpoint, fingerprint and serving process are chosen |
| `SelectEndpoint`, `InsertEndpoint` | `ensure_endpoint`; the insert waits for an uncommitted row of the same key, as the unique index does |
| `FastLookup` | the fingerprint lookup before the lock; a hit answers at once |
| `AcquireLock` | `pg_advisory_xact_lock(_lock_id(...))`; the number is `LockId[process, endpoint]` |
| `ReadCurrent`, `Recheck` | the two reads under the lock |
| `BeginDemote`, `EndDemote` | `UPDATE ... SET is_current = FALSE`: the snapshot, then the row locks |
| `InsertVersion` | the INSERT with both unique constraints, which waits for uncommitted rows and may raise |
| `Classify` | `track_contract`'s classification against the previous version |
| `Commit`, `IntegrityError`, `Fail` | end of the transaction; `Fail` is an exception or a lost connection at any statement |

`SchemaHistory` says what a reader may rely on: an endpoint has a sequence of
fingerprints, and a step appends to one sequence a fingerprint it does not contain yet.
`RefinesHistory` maps the committed rows to those sequences.

### WebhookOutbox

An outbox row is `<<event, subscription>>`. Request side: `SelectAffected`,
`InsertOutbox`, `InlinePost` (the exchange with the consumer), `InlineRecord` (attempt or
dead letter, and the commit of `deliver_with_retry`), `MarkOutbox`, `EmitEvent`, `FinishRequest`, `RequestFails`. Worker side: `Poll`
(`FOR UPDATE SKIP LOCKED`), `Claim` (DELIVERING), `Lookup`, `Deliver`, `Settle`,
`WorkerFails`. Uncommitted writes of a session are kept in `inserted` and `mark` and are
dropped if it dies; `locking` is the set of workers whose batch is still locked, which
the first commit ends. A POST is acknowledged, taken with its answer lost, or refused.
`BackoffElapses`, `PatchActive` and `Replay` are the clock, the subscriptions API and the
reliability API. `posts` and `acked` are history variables of the consumer's side,
`affected` remembers the subscriptions selected for an event.

### WebhookGateway

`Verdict` gives the handler's answer by its checks in the code's order; `Receive` runs
them up to the `await`; `RuntimeTakes` is the runtime (external) processing the body,
possibly after the gateway has given up; `ForwardResolves` stores the key and answers
202, `ForwardRejects` answers 502, `Restart` empties the store.

### TrackEffects

One endpoint. The registry is what `ContractRegistry` shows of it: `versions` is the
committed sequence of fingerprints, `open` the request whose version is uncommitted, for
which others with a new fingerprint wait. `Arrive` stores the payload snapshot, `Register` is
`upsert_schema_version`, `StoreDiff`, `Enqueue`, `EmitEvent` and `Commit` follow in the order
of `track_contract` and `track_payload`; `Enqueue` may commit, as an inline delivery does.
`Persist` is `_persist_document`: the write succeeds, or raises with or without the document
stored, and the request goes on. `Publish` is one attempt of `publish_with_retry` in the
background task, of which the acknowledgement may be lost. The task has a producer, as
`publish_with_retry` is written for; `main.py:102` passes none, so that `POST /track` as it
stands reaches the no-op backend only, whose behaviours are those without a broker fault. `FailTrack` and `RestartRuntime`
end requests; a restart also drops the tasks.

### WebhookIngest

`Forward` is the gateway's POST reaching the runtime, possibly after the gateway has given
up; `Taken` joins the runtime's 200 to `RuntimeTakes`. Every other step belongs to one of
the two processes. A sender uses one key for one body.

### MonitorLock

`Checkout` and `Checkin` are SQLAlchemy's FIFO pool as `backend/app/database.py` uses it: with
`pool_pre_ping`, so that a lost connection is made anew when it is taken from the pool. `TryLock`,
`Conflict`, `InsertFails`, `Commit`, `Committed`, `Raise`, `BeginRecord`, `EndRecord`, `Unlock`
and `Close` are the statements of `run_monitor` and `advisory_lock` between which the session may
change its connection; the caller is answered by `Close`, after the unlock. `holder` and `depth`
are PostgreSQL's lock: re-entrant, owned by a connection. With `Faults`, `Disconnect` loses a
connection, in use or idle, with the locks on it: `Live` is a session that has not. Its next
statement raises, and a commit whose acknowledgement is lost raises although it happened
(`Commit`, `Committed`). `CheckoutFails` is a statement that gets no connection: the pool's
timeout when all are in use, or a database out of reach. `raised` are the runs that leave the
block by an exception. The fetching and diffing of a run is the single step from "body", which
`MonitorHistory` takes apart. The module leaves other requests (`Readers`) as one
transaction that holds a connection.

### MonitorService

A changelog request is such a reader with the steps `CacheLookup`, `Generate` (the language
model is awaited with the connection in use), `FlushChangelog` (the INSERT, which waits for
another one's uncommitted row of the same key) and `EndSession`. `get_session` does not
commit, so what was flushed is rolled back.

### MonitorHistory

One run at a time, as `MonitorLock` shows. `StartRun` is `upsert_endpoints`, which decides
the active endpoints; each of them has a task with the steps `Fetched` (snapshot added,
flush begun), `FlushEnds` and `Lookup` (prior snapshot, diffs, last flush). `Flush` is
SQLAlchemy's `AsyncSession.flush`: it raises while another flush of the session is under
way, and what the task has added stays in the session. `FinishRun` is the rest of
`run_monitor`: retention sweep on what is flushed, status from the gathered results, commit
of everything added. `RunFails` is the rollback. The committed snapshots of an endpoint are
the sequence `history`; `base` names the snapshot that one was compared with. The diffs
themselves are `SchemaDiffing`'s.

### LegacyBaseline

`AcquireRouteLock` to `CommitRegistration` is `register_payload_snapshot` under the
lock of the route; `ReadBaseline`, `BeginDemote`, `EndDemote`, `Promote` and `Compare`
follow without it. The structural comparison is one step.

### JsonPayload

A JSON value is the function from its paths to the kind of value found there; a path is the
sequence of keys and item numbers that lead to a place. The two classifiers of `POST /track`
flatten a payload to a dict before they compare, so that the recursion of the code over a
payload becomes a choice among its paths. The keys of that dict are texts, `PathText`, in which
keys are joined with dots and items are `[*0]`, `[*1]`; `Flat` makes the dict, in which the place
that is reached later stays where two have one text (`Overrides`, `Staying`). `Told` says that the
texts of two payloads tell their places apart. `SchemaDiffing` takes paths and kinds from here.
`IsJson` says which functions are JSON values. `Sightings` and `Readables`, an independent
definition of what a reader finds in a payload, are used only by the properties.

### CompatibilityClassifier

A canonical schema has the paths of its payload. `canonicalize`, `flatten`, `Changed`,
`diff_and_classify` and `summarize_classification` translate the functions of the same names
(and the branches of `_classify`). Both objects and leaves of a schema are dicts in the code,
and `_flatten` stops at any dict with a key `type`: `IsTypedDict` is a dict of the payload
that it takes for a leaf, `InTypedDict` what it does not look into, `Listed` the places that get
an entry and `NodeOf` the entry. `Track` compares two
neighbouring versions; `base` is a history variable, the payload since which every version
was SAFE.

### LegacyClassifier

The same payloads. `resolve` is one level of `extract_structural_type`, which gives the
fingerprint (order-free, with the number of structured array items) as a recursive function
over the paths; `flatten_schema` and `structural_diff` give the differences by path and index,
`classify_contract_drift` their severity, `Logged` the rows of `contract_drift_violations`.
`Submit` is a later request of an endpoint that has a baseline. `LegacyWarnsNoEarlier`
compares its rows with the classification of `CompatibilityClassifier`.

### OpenApiReview

A document has schemas by name or is a single JSON schema; a schema has the types of its
fields and the fields it requires. `openapi_diff` and `build_review` are the two scripts,
with the exceptions of the first. `Accepts` is an independent definition of validity, used
only by `PassKeepsSenders`.

### SchemaDiffing

The order of values matters to `infer_schema`, so a body is the sequence of the values in it,
in the order of the walk, each with path, kind and text (`IsDocument`). The code walks a body
once and updates the nodes of all paths; here each node has a walk of its own (`Walked`, whose
step is `Noted`) over the values that belong to it (`NodePath`), and `finalize` makes a
`SchemaNode` of it. `nodes` is the `normalized_schema_json` of the newest snapshot. `Observe`
is the part of `_process_endpoint` that compares a body with the one before. `KindsAt` is an
order-free reading of a body, used only by the properties; `Murky` names the paths at which
inference does depend on order.

## 3. Runs

| Run | Shows |
|---|---|
| `registry_two_processes` | three requests, two processes with different lock numbers, failures anywhere: `VersionChain`, `NewestIsCurrent`, `ClassifiedAgainstPredecessor`, `EndpointHasCurrent`, `AnsweredIsRecorded` and `RefinesHistory` hold without help from the lock; `NoIntegrityError` holds where the requests share a lock number; `EveryRequestAnswered`: no wait is for ever |
| `outbox_one_worker` | `RetriesBounded`, `StrandedByFailure`, `OutcomeIsFinal`: outbox-only delivery by one worker, with PATCHes and deaths |
| `outbox_inline_race` | `NoSilentLoss`, `AnnouncedIsEnqueued`, `HeardIsPublished`, `EverythingSettles` while inline delivery and two workers race on the same rows |
| `outbox_inactive` | *violated*: an inactive subscription gets a dead letter |
| `webhook_ingest` | gateway and runtime together, with faults of store and broker, failures and restarts of both: `AcceptedTwiceOnlyInOverlap`, `AnsweredIsRegistered` (with `DuplicateWasAccepted`); `TracesNameVersions`, `AnnouncedOnce`, `AnsweredIsTraced` |
| `monitor_exclusion` | `OneRunAtATime`, although locks leak; `HistoryShowsFinishedRuns`, although commits may go unacknowledged and the unlock before the answer may fail; `NobodyWaitsForAll` with changelog requests on the same pool |
| `monitor_lock_leak` | *violated*: the lock is not always released |
| `monitor_history` | `SuccessReportsDrift` (a successful run has no failed fetch but of a null body, and has compared each snapshot that differs from the one before), `SilentDriftIsMarked` (between snapshots of different schemas at any distance there was a comparison, a run that reports `partial_failure`, or a null body), `RawSamplesBounded`, although tasks break off each other's work |
| `legacy_baseline` | `NoRegistrationConflict`, `BaselineWasChosen` (a request that added a snapshot and went on has left its endpoint with a baseline), `BaselineIsStable` |
| `legacy_two_baselines` | *violated*: two active baselines |
| `comparisons` | `RemovalIsBreaking`, `SafeStepsCompose` on all triples reached from 77 payloads; `SafeDiffsKeepReaders`, `OrderIsNoDrift` on all pairs of 66 bodies; `UncomparedIsRearranged`, `UnloggedKeepsReaders`, `LegacyWarnsNoEarlier` on all pairs of 43 legacy payloads (the proofs of section 4 have no bound on either); `PassKeepsSenders`, `ChecksAgree` on all pairs of 70 documents |
| `classifier_type_field` | *violated*: removals next to a field named `type` are SAFE |

The registry's and the gateway-and-runtime run check the types as well (`TypeOK`,
`IngestTypeOK`); the `TypeOK` of the other modules states the ranges of their variables, as
the starting point of proofs. `EverythingSettles` is stated for
behaviours in which no session dies (`failures = 0`): after a death it does not hold, see
section 5.

Bounds, and why they are enough to reach the interesting cases:

- registry: three requests are an existing version and two racing writers, or a writer and
  a reader of its result; three fingerprints allow three versions as well as a re-submission
  of an old shape (A, B, A); the classes tell every ordered pair apart, so a wrong base shows.
  Failures are not bounded. Every request is served by either of two processes, so the lock
  numbers agree in some behaviours and disagree in others. The proofs of section 4 have no
  such bounds.
- outbox: two attempts distinguish "retry" from "exhausted"; two subscriptions share a
  consumer (one dead letter row) or not; batches of two make the early release of the
  batch's locks visible; `MaxPatches` and `MaxFailures` bound the PATCHes and deaths, at most
  one or two each. `Replay` writes no table, so it is not bounded.
- gateway and runtime: two deliveries, since every property there relates at most two: with
  one key they overlap or follow one another, with two keys they carry the same or different
  bodies, in a registry that is empty or has a version; two faults use up the two retries of
  an event, or fail a request and its store; one restart of the gateway.
- monitor: three connections of which two are kept, so a connection can be reused,
  handed to another session, or closed with the lock on it, and any of them can be lost at any
  time; two runs, as every property relates at most two, and two other requests that want the
  changelog of one snapshot, or none. `monitor_lock_leak` has no faults (`Faults = FALSE`), so
  that the lock it finds left behind is not that of a failure.
- legacy: four requests are two racing first submissions and two later ones.
- monitor history: two tasks are enough to break each other's flush; three runs and `Keep = 1`
  let a snapshot lose its raw sample and be followed by another one, and put a failed fetch
  between two snapshots that differ; two schemas and both
  kinds of failed fetch. Failed runs count, so `MaxRuns` bounds them too.
- classifier: two names, values of every kind of node, one nested level; fields whose names read
  like paths (`Dotted`), alone and next to the path of the same text.
- monitor's diff: objects, lists and rows of up to two items, rows whose field is a list, one field, `ENUM_THRESHOLD` 1
  instead of 10, one oversized body; two items are what an order needs.
- legacy payloads: one field of every kind, with lists and rows of up to two items, and a
  second field; the fields of `Dotted`.
- documents: one schema or none, two fields, each without or with one of two types and
  required or not, also when it is not declared; one of them has the words "no longer" in its
  name; a schema that is no object; four single JSON schemas.

Symmetry is used over requests, monitor sessions, connections, keys and (in the legacy
runs) fingerprints of the runs of `WebhookIngest`, `MonitorService` and `LegacyBaseline`, which no definition tells
apart, and never in a run with a liveness property. Runs of `WebhookOutbox`, `WebhookIngest`,
`MonitorService` and `MonitorHistory` do not check deadlock: requests and runs there are finitely
many and a state with all of them through is a legal end. The registry and the legacy
module state the legal end (`AllAnswered`) and do check deadlock; the comparisons never end.

### Fairness

`ContractRegistry!FairSpec` is weak fairness of each request's own statements once it has
been submitted: asyncio runs every ready handler, and PostgreSQL grants a free lock to a
waiter. Weak fairness is enough, because a request that waits is enabled again only
when the holder ended, and the finitely many others cannot overtake it for ever.
Submission and failure are not fair. `WebhookOutbox!FairSpec` is weak fairness of a
request's steps, of a worker's loop (`while True`, every exchange bounded by a 5 s timeout)
and of the clock. No answer of the consumer, no PATCH and no failure is forced.

## 4. Proofs

The theorems hold for every value of the constants: any number of requests, endpoints,
workers, connections or runs, and any bound on failures, restarts or patches. What is
assumed of the constants stands in an `ASSUME` of each module (`ConstantsAssumption`,
`OutboxAssumption`, `GatewayAssumption`, `IngestAssumption`, `MonitorAssumption`,
`HistoryAssumption`, `LegacyAssumption`): that they have their types, that limits are
positive, and that the null values are no elements of the sets beside them. In the
comparisons it is that payloads and bodies are JSON (`PayloadsAssumption`,
`SubmissionsAssumption`, `BodiesAssumption`), of any depth and size. TLC evaluates the
assumptions in every run.

| Theorem | States | Conditions |
|---|---|---|
| `ContractRegistryProofs` `TypeCorrect`, `VersionChainCorrect`, `NewestIsCurrentCorrect`, `ClassificationCorrect`, `EndpointsCorrect`, `AnsweredCorrect` | the invariants of `registry_two_processes` | *every* lock function |
| `NoIntegrityErrorCorrect` | `NoIntegrityError` | its premise `LocksAgree(r)`: the submissions of the endpoint of `r` lock one number; collisions with other endpoints are allowed |
| `RegistryRefinesHistory` | `Spec => RefinesHistory`: the registry implements `SchemaHistory` | every lock function |
| `WebhookOutboxProofs` `NoSilentLossCorrect`, `AnnouncedIsEnqueuedCorrect`, `HeardIsPublishedCorrect`, `StrandedByFailureCorrect` | the properties of their names | any number of workers, inline delivery on or off |
| `RetriesBoundedCorrect`, `OutcomeIsFinalCorrect` | the properties of their names | `Alone`: one worker, no inline delivery, as the properties say |
| `WebhookIngestProofs` `ImplementsGateway`, `ImplementsTrack` | the composition implements each of its halves | |
| `IngestTypeCorrect`, `AcceptedTwiceCorrect`, `AnsweredIsRegisteredCorrect`, `TracesCorrect`, `AnnouncedOnceCorrect`, `AnsweredIsTracedCorrect` | the properties of `webhook_ingest` | |
| `MonitorServiceProofs` `ServiceImplementsMonitor` | `MonitorService` implements `MonitorLock` | |
| `ServiceTypeCorrect`, `OneRunAtATimeCorrect`, `HistoryCorrect`, `NoConnectionLost`, `NobodyWaitsForAllCorrect` | types, exclusion, history, the pool, no deadlock | every pool size, also 0; connections lost or not (`Faults`) |
| `MonitorHistoryProofs` `TypeCorrect`, `SnapshotsReachTheCommit`, `SuccessReportsDriftCorrect`, `SilentDriftIsMarkedCorrect`, `RawSamplesBoundedCorrect` | the properties of `monitor_history`, and what they rest on | |
| `LegacyBaselineProofs` `TypeCorrect`, `NoRegistrationConflictCorrect`, `BaselineWasChosenCorrect`, `BaselineIsStableCorrect` | the properties of `legacy_baseline`; the last is an action property | |
| `ComparisonProofs` `RemovalSeenIsBreakingCorrect` | a removal at a path that `_flatten` lists is BREAKING | the texts of paths tell the fields of the two payloads apart (`Told`) |
| `RemovalIsBreakingCorrect`, `SafeStepsComposeCorrect`, `LegacyWarnsNoEarlierCorrect` | the properties of their names | no payload has a field named `type` (`TypeIsNoField`); otherwise `classifier_type_field`. What the first two say of readers has the premise `Told` |
| `UncomparedIsRearrangedCorrect`, `UnloggedKeepsReadersCorrect` | the properties of their names | any payloads; the second has the premise `Told` |
| `PassKeepsSendersCorrect`, `ChecksAgreeCorrect` | the two properties of the review, the first about types and required fields | any documents |
| `SchemaDiffingProofs` `SafeDiffsKeepReadersCorrect`, `OrderIsNoDriftCorrect` | the properties of their names | any bodies, any `ENUM_THRESHOLD`, any set of oversized bodies |

Each module proves first that its `IInv` is inductive (`Invariance`; in `WebhookIngestProofs`
`GatewayInvariance`, `TrackInvariance` and `IngestInvariance`; in the modules about
comparisons `ChainInvariant`, `LegacyInvariant`, `ReviewInvariant` and `MonitorInvariant`),
then that it implies the properties.

### Registry

The invariants are not inductive: nothing in the tables alone says that the request about
to insert version *n* + 1 read version *n*. `IInv` is the conjunction of

- `TypeOK`;
- `RowsOK`: committed rows have ended (`RowsDone`), no two share a number or a fingerprint
  (`RowsDistinct`), numbers have no gaps (`RowsDense`), and `previous` and `class` belong to
  the row numbered one less (`RowsLinked`);
- `CurrentOK`: the current rows are the newest ones;
- `EndpointsOK`: an endpoint row is committed exactly when the endpoint has a version, and an
  uncommitted one belongs to the only request that got past `ensure_endpoint`;
- `FlightOK`: what a request in flight knows of the committed rows: the row it read as current
  is committed, belongs to its endpoint and is among the rows it demotes;
- `InsertOK`: a request past its INSERT is alone with its number and fingerprint, and no
  committed row has its number. With density this makes the row it read the newest one,
  which is the reason the unique constraints suffice without the lock.

For `NoIntegrityErrorCorrect`, `LockInv` (theorem `LockCorrect`) adds that a request between
lock and commit is the holder (`LockHeld`) and that what it read under an agreed lock is
still so when it inserts (`Fresh`). `LockExcludes` is the step from the one to the other:
no second request of the endpoint can be committing at the same time.

For the refinement, `HistoryHasRows` shows that the mapped sequence of an endpoint has the
fingerprint of version *n* at place *n*; `OnlyCommitPublishes` shows that every step but
`Commit` leaves committed rows as they are (a stutter, `HistoryKept`), and `CommitPublishes`
that a commit appends one fingerprint that the history does not have.

### Outbox

The properties are about outcomes; what makes them true is what requests and workers have in
their hands. `RowsOK` and `WorkersOK` say that rows in anyone's hands exist and have attempts
left; `RequestsOK` that each subscription a request selected is in one place, still to do,
inserted but uncommitted, or in a committed row; `InlineOK` what is uncommitted at each statement
of an inline delivery; `EvidenceOK` that whoever is about to write DELIVERED saw the
acknowledgement, and whoever is about to write FAILED has written the dead letter, which
never goes away. A row may still be settled twice, by a worker and an inline delivery, with
different outcomes: the evidence for either stays.

`StrandedByFailure` follows from `StrandedStep`: a step strands nothing, or it is a death and
strands the one item of that worker. `AloneInv` (one worker, no inline delivery) says that
POSTs of a row in the table never exceed its `attempts`, and that the worker's batch and item
are as the table has them; with a second worker both are false, as rows of a batch are
unlocked by the first commit.

`RequestsOK` did not hold in an earlier version of the model, in which `SelectAffected` of one
event emptied the loops of the requests under way for other events. No property that TLC
checked was violated by that; the attempt to prove `AnnouncedIsEnqueued` found it.

### Gateway and runtime

Each half has its own inductive invariant, proved of its own specification, and holds of the
composition by `ImplementsGateway` and `ImplementsTrack`.

- `GatewayInv`: a stored key is that of an accepted delivery (`StoreOK`); deliveries accepted
  in the present incarnation are all in the store, deliveries in flight belong to it
  (`IncarnationOK`); two of one key and one incarnation, accepted *or in flight*, have
  overlapped (`OverlapOK`). The middle one is why the third is inductive: a delivery that
  starts to be forwarded has not found its key, so the accepted ones are of an older incarnation.
- `TrackInv`: versions are distinct and the uncommitted one is the next (`VersionsOK`); a
  request that has a number and has not failed has the uncommitted version or the committed one of
  that number, alone (`NumberOK`); documents and tasks exist only between insertion and end
  of their request (`TracesOK`); a running task has an attempt left, a sent one has reached
  the broker (`AttemptsOK`).
- `LinkOK`: what the gateway counts as taken, the runtime has answered, and one key
  carries one body. This connects 409 with the registry.

### Monitor

`ConnOK` and `PoolOK` say that a connection is in the hands of one session or in the pool
once, never both; `LockOK` that a run at work whose connection is not lost holds the lock on the
connection in its hands. The connection that another session takes, returns, closes, loses or
unlocks is then a different one, which is why runs exclude each other although the lock is
re-entrant and leaks. `RowOf` follows the row, the answer and `raised` of a run: once a run has
its row, the row is successful until the handler of an unacknowledged commit marks it, and then
the run has raised and cannot be answered 200. `EachItsOwn` keeps the statements of runs and of
other requests apart.

`NobodyWaitsForAll` is about `ENABLED`, which the proof system cannot expand.
`SomebodyCanGoOn` is the same property with the guards of the steps spelled out
(`RunCanGoOn`, `ReaderCanGoOn`); that these are the steps' enabling conditions was checked with
TLC on the instance of `monitor_exclusion`. The proof adds that no connection is
lost (`AllAccountedFor`): if no session has a connection, the pool has one or can open one;
if one has, it can go on, or it waits for a flushed changelog, whose request only has to answer.

In `MonitorHistoryProofs`, what a task added is in the session until the end (`SessionOK`), as the
task's program counter alone does not say, and a task that is through has looked at its drift
(`DriftOK`). Nothing is committed while a run is under way and a run adds one snapshot at most to
an endpoint (`LengthOK`), so what the task compared with is the neighbour of the row that
`FinishRun` writes. `SilentDriftIsMarked` follows from `SuccessReportsDrift` over any number of
rows (`QuietRunsKeepTheSchema`): while runs succeed, compare nothing and see no null body, the
first snapshot of another schema cannot be, as it would have been compared.

### Legacy baseline

`LockOK` (a registration has its route's lock) makes `MissingOK` inductive: what a request did
not find is still missing when it inserts. `InsertedOK` and `MoveOK` say that a request that
moves the baseline has registered its own snapshot and demotes rows of its own endpoint only; that
is what `BaselineWasChosen` needs when rows are demoted and `BaselineIsStable` when other
endpoints move theirs.

### Comparisons of payloads

The invariants of these modules (`ChainInv`, `LegacyInv`, `MonitorInv`) only say what is at
hand: the payloads, and what was computed from them. The work is in the lemmas about the
operators.

*Registry.* `ListedNodes` says which places `_flatten` lists: every one that is not an object, and
that is not in a dict with a key `type`. `Flattened` says what the dict has under the text of a
path: one of the listed places with that text, which is that path itself where texts tell places
apart (`FlattenedTold`). No text is looked into: the proofs use only which of them are equal. `ReportedClasses` and `SummaryIsHighest` turn the
summary into a statement about each text; `SafeMeans` is the result for SAFE: no text is gone,
and none has changed its type or nullability. That relation is transitive (`SafeIsTransitive`),
so `ChainInv` is inductive along a chain of any length, whatever keys the versions in between
have. To carry it from texts to readers, `Told` is needed of the first and the last payload,
and `NoTypedDict` needs that no field is called `type`. The hypothesis is needed: the run
`classifier_type_field` violates `RemovalIsBreaking` without it, and `RemovalSeenIsBreaking`
is what is left then.

*Legacy.* `RowMeans` and `ChangeSeen` match the rows with the registry's classes: every change
the legacy rules call RISKY or BREAKING is at a path where the registry reports at least
that. The fingerprint is a recursive function; `StructuresExist` and `StructureUnfolds` show
that it satisfies its equation, by induction on the depth below a path. `SameFingerprint` is
the induction on the length of a path: where two payloads have one structure, a step in one of
them has a step in the other, up to the item's number, with one structure again.

Both inductions are done by the least counterexample (`LeastNumber`, from the library's
theorem that `<` on the naturals is well-founded), since theorems with a predicate as a
parameter cannot be used.

*Monitor.* `WalkUnfolds` shows that the walk satisfies its equation; `WalkTells`, by induction
over the walk, that a node is determined by the *set* of kinds met (`NodeTells`), provided that
these are objects only, arrays only, or scalars only. This is where order disappears, and the
proviso is one half of `Murky`. `PlainPath` and `NodeMeans` show that away from murky
paths the values met for a node are those found at its path, so that types and nullability give
back the kinds (`TypeIsTold`, `SafeKeepsKinds`); objects in an array have no node and are
told by the `array_item_type` of the array. For `OrderIsNoDrift`, bodies with one `Gist` meet
the same kinds, texts and item types at every path (`MetAlike`) and so have one schema
(`AlikeSchemas`).

`SafeDiffsKeepReaders` was stated too strongly before: it excused murky paths, but not the
paths of objects inside a murky array. The proof did not go through there, and TLC shows why
once rows of lists are among the bodies: from `[{"a": [{}]}, {"a": []}]` to
`[{"a": []}, {"a": []}]` the objects are gone, and since the last array decides
`array_item_type`, both have one schema. The property now excuses `Parent(p)` too, and the
run has such bodies.

### Document review

`report` and `decision` are those of the two documents at hand (`ReviewInv`). `NoChanges` and
`SendersKept` carry a body from the old schema to the new one; `BreakIsChange` and
`ChangeIsBreak` compare the two scripts field by field.

### Only model-checked

- Liveness: `EveryRequestAnswered`, `EverythingSettles`. The proof system has no support for fairness.
- `NobodyWaitsForAll` as stated, with `ENABLED`; `NobodyWaitsForAllCorrect` proves it with the
  guards spelled out.
- The violations of section 5.

## 5. Findings

Four runs end with a violation; `PROJECT.json` quotes the lines of the documents, tests or
comments that the code disagrees with:

1. A subscription switched off after its notification was queued gets a dead letter
   without any delivery attempt; `docs/FAILURE_MODES.md` says it is skipped.
2. `advisory_lock` unlocks on another connection than it locked, because `run_monitor`
   commits inside the block; the lock stays on the pooled connection.
3. Two concurrent first submissions can leave two active legacy baselines.
4. A payload object with a field named `type` is taken for a schema leaf, and the removal
   of its other fields is SAFE.

The test that the third finding quotes submits one payload concurrently; the trace has two
payloads, whose fingerprints differ.

More disagreements show in the premises of properties that hold, or in the models:

- `_lock_id` hashes a string with Python's `hash`, which differs between processes, so the
  advisory lock does not serialise registration between processes, although
  `docs/ARCHITECTURE.md` says so. The unique constraints keep the tables right, and one
  request ends in an `IntegrityError`: hence the premise `LocksAgree` of `NoIntegrityError`.
- The gateway forwards overlapping deliveries of one idempotency key, although
  `docs/FAILURE_MODES.md` says duplicates are rejected: hence `AcceptedTwiceOnlyInOverlap`
  and not "accepted once".
- The 409 answer to a concurrent monitor run never has the id of the run in flight, whose
  row is uncommitted (`Running` is always empty in `MonitorLock`).
- Changelogs are never committed: `get_session` closes the session without a commit, so the
  "cache lookup" of `changelog.py` and `GET /api/changelogs` never find one.
  It also hides that of two concurrent requests for one changelog the second would end in an
  `IntegrityError` (`step = "conflict"`, which no behaviour of `MonitorService` reaches).
- `openapi_diff` says "Diff two OpenAPI/JSON schema payloads." A single JSON schema ends in
  an `AttributeError` (`report = "raised"`), and the review agent takes its keywords for
  schema names and sees no field: hence the premise about `components` of `PassKeepsSenders`.
- `docs/FAILURE_MODES.md` says that a broker backend without a producer raises at startup;
  `build_default_publisher` is called by every request, so it is the requests that fail.
  `TrackEffects` has a producer.

Behaviour that no document speaks about, each within what a property allows:

- keys are joined into texts, so `{"a.b": 1}` and `{"a": {"b": 1}}` are one schema to both
  classifiers: the step from one to the other is SAFE although the readable `a.b` is gone, and
  where a payload has both, the later one hides the other: hence the premise `Told` of
  `RemovalIsBreaking`, `SafeStepsCompose` and `UnloggedKeepsReaders`, without which TLC finds
  this step;
- rows left DELIVERING by a dead worker are never polled again (`StrandedByFailure`: at most
  one for each death);
- with inline delivery a crash after the first commit loses the notifications not yet
  enqueued (`AnnouncedIsEnqueued`), and one before it has told a consumer of a version that is
  rolled back (`HeardIsPublished`);
- events and diff documents of a failed request name a version that never was, or whose
  number belongs to another one (`TracesNameVersions`); the drift is announced again, under a
  fresh event id, when the payload is sent again (`AnnouncedOnce`);
- a failed monitor run leaves no row (`HistoryShowsFinishedRuns`), unless its commit went
  through unacknowledged: then the run that is complete in the tables is marked failed;
- a monitor run that is committed as successful can be answered 500, because the unlock after
  the commit needs a connection of the pool (`HistoryShowsFinishedRuns` says nothing of a 500);
- a monitor run whose connection is lost goes on fetching while the next run has the lock
  (`OneRunAtATime` is about runs with a live connection; only those can commit);
- a legacy change from or to `null` or an array has no severity and is not logged
  (`UnloggedKeepsReaders`);
- a field that becomes required is compatible for `openapi_diff` if its name contains "no
  longer" (`ChecksAgree`);
- the payload snapshot always says `SAFE`, whatever the payload turns out to be;
- a replay whose artifact cannot be stored ends with an error after it was delivered.

In the monitor:

- a drift across a failed fetch is never reported, since the prior snapshot is then the
  `FETCH_ERROR` row (its JSON `null` is not SQL NULL): the premise of `SuccessReportsDrift`
  is about neighbouring snapshots, and `SilentDriftIsMarked` says that the failed run is then
  all that tells of it;
- a task that breaks off on the shared session leaves its snapshot stored without a diff, and
  the next run compares with that snapshot: the drift is lost, though the run says
  `partial_failure`;
- the retention sweep may leave one raw sample more than it should, which the next run
  corrects;
- a JSON `null` body is stored as `FETCH_ERROR:None` and is no failure of the run, so a drift
  across one is not even marked (exempted in `SilentDriftIsMarked`);
- an object as a body has no node of its own: from `{}` to `[]` or a scalar there is only a safe
  `added_field` (`SafeDiffsKeepReaders` leaves the body itself out);
- `diff_schemas` ignores `required`, and an enumeration that grows beyond the threshold is no
  enumeration any more: both change the hash and are not reported;
- `array_item_type` is that of the last array met at a path, and an object or array next to
  another kind keeps the first one's type, so reordered items can be reported as breaking, and
  objects that disappear from the arrays of all rows are not reported if the last row's array
  was empty before (`SafeDiffsKeepReaders`, section 4);
- a body that is a list of scalars has one node, `[*]`, for the list and its items, of type
  `mixed`, and a change of its item type is not reported;
- every string field with few texts is an enumeration, so another text is an
  `enum_changed` drift.

## 6. Not modelled

- Logging, metrics and gauges; the texts of changelogs, reviews and messages.
- Validation errors and replay artifacts in the document store, and the store's queries: they
  are written and read on their own and change no other state.
- The read-only REST APIs and the dashboard; migrations (their constraints are in the modules
  that rely on them); the drift simulator and the load tests, which generate traffic and keep
  no state.
- Subscriptions are created before the run and only `active` changes: the other columns are
  read when a notification is enqueued or delivered, never compared with an earlier value.
- In the classifier, object fields named `nullable`, `enum` and `required` inside a dict with
  `type`. Path texts of both classifiers are modelled as they are; in the legacy classifier no
  key is empty, and no key has one of the characters `{ } [ ] : ; ,` with which the hashed
  structure is put together. The monitor's inference and diff identify a place by its keys
  (`SchemaDiffing`): no key there is empty or contains a dot or a bracket.
- In the review, enumerations and nested schemas of a document, which the scripts do not compare.
- In the monitor's pool, failures of the rollback itself: an exception always gives the
  connection back.
- Waits across endpoints with colliding lock numbers in `EveryRequestAnswered`, whose run has
  one endpoint; the safety theorems allow any collisions.
- Time: the outbox has a set of due rows, not a clock, and a timeout may happen at any moment.
- Broker backends without a producer, which fail every request before it starts.

## 7. Plan

Done, in order: registry, its refinement and proofs; outbox; gateway; monitor lock;
legacy baseline; classifier; monitor history; the monitor's schema inference and diff; legacy
classifier; document review; documents and drift events of `POST /track`, and their
composition with the gateway; changelog requests next to monitor runs; theorems about every
module: all invariants and action properties of the passing runs (`NobodyWaitsForAll` with its
guards spelled out), and the refinements `RegistryRefinesHistory`, `ServiceImplementsMonitor`,
`ImplementsGateway` and `ImplementsTrack`.

Open:

- `StrandedByFailure` and `NoSilentLoss` say what is safe with several workers; how often a row
  can be POSTed then (a bound by `MaxAttempts` and the number of workers and deaths) is open;
- deadlock freedom of `ContractRegistry` and `LegacyBaseline` as theorems, in the way of
  `NobodyWaitsForAllCorrect`: TLC checks it, the argument is that a row or lock is waited for
  by requests that hold none the holder needs;
- invariants of `SchemaHistory` (a history has no fingerprint twice), so that
  `RegistryRefinesHistory` gives `VersionChain` a second, shorter proof;
- a characterisation of `Murky` from the other side: that at every path it names, some
  rearrangement of the body does change the schema.
