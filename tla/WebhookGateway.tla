--------------------------- MODULE WebhookGateway ---------------------------
(***************************************************************************)
(* POST /webhooks/:source of the gateway (gateway/src/server.ts), with its *)
(* in-memory idempotency store and the forwarder to the runtime's /track.  *)
(*                                                                         *)
(* Node runs a handler without interruption up to its only await, the      *)
(* forward; other handlers run while it waits.  A restart of the gateway   *)
(* drops the handlers in flight and empties the store.                     *)
(***************************************************************************)
EXTENDS Naturals

CONSTANTS
    Requests,       \* deliveries and redeliveries by the senders
    Keys,           \* idempotency keys
    NoKey,          \* the header is missing
    MaxRestarts     \* bound: restarts of the gateway process

ASSUME GatewayAssumption == NoKey \notin Keys /\ MaxRestarts \in Nat

Signatures == {"missing", "invalid", "valid"}
Bodies == {"object", "malformed"}
Answers == {"202", "400", "401", "403", "409", "502"}

VARIABLES
    input,          \* what each request carries
    state,          \* "new", "forwarding", an answered status, or "dropped"
    store,          \* InMemoryIdempotencyStore.keys
    taken,          \* requests that the runtime processed
    incarnation,    \* restarts of the gateway so far
    startedIn,      \* incarnation that a request arrived in
    overlaps        \* pairs of requests that were in flight together

vars == <<input, state, store, taken, incarnation, startedIn, overlaps>>

key(r) == input[r].key

Init ==
    /\ input \in [Requests -> [key: Keys \cup {NoKey}, sig: Signatures, body: Bodies]]
    /\ state = [r \in Requests |-> "new"]
    /\ store = {}
    /\ taken = {}
    /\ incarnation = 0
    /\ startedIn = [r \in Requests |-> 0]
    /\ overlaps = {}

InFlight == {r \in Requests : state[r] = "forwarding"}

\* The checks of the handler in their order, and the outcome of the first
\* that fails; the duplicate test comes before the signature is verified.
Verdict(r) ==
    CASE input[r].sig = "missing" -> "401"
      [] input[r].sig # "missing" /\ key(r) = NoKey -> "400"
      [] input[r].sig # "missing" /\ key(r) \in store -> "409"
      [] input[r].sig = "invalid" /\ key(r) \notin store \cup {NoKey} -> "403"
      [] input[r].sig = "valid" /\ key(r) \notin store \cup {NoKey} ->
            IF input[r].body = "malformed" THEN "400" ELSE "forwarding"

\* Mutant: the key is stored before the forward.
ReceiveStoresFirst(r) ==
    /\ state[r] = "new"
    /\ state' = [state EXCEPT ![r] = Verdict(r)]
    /\ store' = IF Verdict(r) = "forwarding" THEN store \cup {key(r)} ELSE store
    /\ startedIn' = [startedIn EXCEPT ![r] = incarnation]
    /\ UNCHANGED <<input, taken, incarnation, overlaps>>

\* A request arrives: everything up to `await forwarder.forward`.
Receive(r) ==
    /\ state[r] = "new"
    /\ state' = [state EXCEPT ![r] = Verdict(r)]
    /\ startedIn' = [startedIn EXCEPT ![r] = incarnation]
    /\ overlaps' = IF Verdict(r) = "forwarding"
                   THEN overlaps \cup (InFlight \X {r}) \cup ({r} \X InFlight)
                   ELSE overlaps
    /\ UNCHANGED <<input, store, taken, incarnation>>

\* The runtime processes the forwarded request; its answer is still to come,
\* and may have nobody left to wait for it.
RuntimeTakes(r) ==
    /\ state[r] \in {"forwarding", "502", "dropped"}
    /\ r \notin taken
    /\ taken' = taken \cup {r}
    /\ UNCHANGED <<input, state, store, incarnation, startedIn, overlaps>>

\* Mutant: the key of an accepted request is never stored.
ForwardResolvesUnstored(r) ==
    /\ state[r] = "forwarding"
    /\ r \in taken
    /\ state' = [state EXCEPT ![r] = "202"]
    /\ UNCHANGED <<input, store, taken, incarnation, startedIn, overlaps>>

\* The forward resolves: the key is stored and the request accepted.
ForwardResolves(r) ==
    /\ state[r] = "forwarding"
    /\ r \in taken
    /\ store' = store \cup {key(r)}
    /\ state' = [state EXCEPT ![r] = "202"]
    /\ UNCHANGED <<input, taken, incarnation, startedIn, overlaps>>

\* The forward rejects: no connection, an error status, or a lost answer.
ForwardRejects(r) ==
    /\ state[r] = "forwarding"
    /\ state' = [state EXCEPT ![r] = "502"]
    /\ UNCHANGED <<input, store, taken, incarnation, startedIn, overlaps>>

\* The gateway process restarts.
Restart ==
    /\ incarnation < MaxRestarts
    /\ incarnation' = incarnation + 1
    /\ store' = {}
    /\ state' = [r \in Requests |-> IF r \in InFlight THEN "dropped" ELSE state[r]]
    /\ UNCHANGED <<input, taken, startedIn, overlaps>>

Next ==
    \/ \E r \in Requests : \/ Receive(r)
                           \/ RuntimeTakes(r)
                           \/ ForwardResolves(r)
                           \/ ForwardRejects(r)
    \/ Restart

Spec == Init /\ [][Next]_vars
-----------------------------------------------------------------------------
\* Types of the variables.
TypeOK ==
    /\ input \in [Requests -> [key: Keys \cup {NoKey}, sig: Signatures, body: Bodies]]
    /\ state \in [Requests -> Answers \cup {"new", "forwarding", "dropped"}]
    /\ store \subseteq Keys
    /\ taken \subseteq Requests
    /\ incarnation \in 0..MaxRestarts
    /\ startedIn \in [Requests -> 0..MaxRestarts]
    /\ overlaps \subseteq Requests \X Requests

\* A delivery is turned away as a duplicate (server.ts:99-104) only when
\* another one with its key reached the runtime: a sender that retries after
\* 502 or after a crash is never told 409 for a webhook that was lost.
DuplicateWasAccepted ==
    \A r \in Requests : state[r] = "409" =>
       \E q \in taken : key(q) = key(r) /\ state[q] = "202"

\* The idempotency guarantee that the code does give, weaker than the
\* "Duplicate idempotency key | Rejected" of docs/FAILURE_MODES.md:12: two
\* deliveries of one key are both accepted only if they were in flight at the same time or the
\* gateway restarted between them (server.ts:99, 126-128).
AcceptedTwiceOnlyInOverlap ==
    \A r, q \in Requests :
       /\ r # q
       /\ state[r] = "202" /\ state[q] = "202"
       /\ key(r) = key(q)
       /\ startedIn[r] = startedIn[q]
       => <<r, q>> \in overlaps
=============================================================================
