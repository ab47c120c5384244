--------------------------- MODULE WebhookIngest ---------------------------
(***************************************************************************)
(* The gateway in front of the runtime: what WebhookGateway forwards is a  *)
(* POST /track of TrackEffects (gateway/src/forward.ts).  The forward      *)
(* resolves only when the runtime has answered; it may be given up before, *)
(* and the runtime goes on.                                                *)
(***************************************************************************)
EXTENDS WebhookGateway, Sequences

CONSTANTS Fingerprints, Retries, MaxFaults, None

\* publish_with_retry makes at least one attempt (events.py: retries=3).
ASSUME IngestAssumption ==
    /\ Retries \in Nat \ {0}
    /\ MaxFaults \in Nat
    /\ None \notin Requests

VARIABLES tpc, print, number, versions, open, docs, missed, task, tries, received, faults

Track == INSTANCE TrackEffects

trackVars == <<tpc, print, number, versions, open, docs, missed, task, tries, received,
               faults>>

\* A sender uses a key for one body, and a delivery that cannot be forwarded
\* has no fingerprint of interest.
IngestInit ==
    /\ Init
    /\ Track!Init
    /\ \A r, q \in Requests : key(r) = key(q) => print[r] = print[q]
    /\ \A r \in Requests :
          key(r) = NoKey => print[r] = CHOOSE f \in Fingerprints : TRUE

\* The forwarded request reaches the runtime.
Forward(r) ==
    /\ state[r] \in {"forwarding", "502", "dropped"}
    /\ Track!Arrive(r)
    /\ UNCHANGED vars

\* The runtime has answered 200.
Taken(r) == Track!Answer(r) /\ RuntimeTakes(r)

IngestNext ==
    \/ \E r \in Requests :
          \/ /\ Receive(r) \/ ForwardResolves(r) \/ ForwardRejects(r)
             /\ UNCHANGED trackVars
          \/ Forward(r)
          \/ Taken(r)
          \/ Track!Handle(r) /\ UNCHANGED vars
          \/ Track!Publish(r) /\ UNCHANGED vars
    \/ Restart /\ UNCHANGED trackVars
    \/ Track!RestartRuntime /\ UNCHANGED vars

IngestSpec == IngestInit /\ [][IngestNext]_<<vars, trackVars>>

-----------------------------------------------------------------------------
\* The properties of TrackEffects, where it states them in full, of the POST
\* /track requests that the gateway forwards (forward.ts): events and documents
\* name versions that exist;
TracesNameVersions == Track!TracesNameVersions
\* one drift is announced once;
AnnouncedOnce == Track!AnnouncedOnce
\* and an answered drift left its traces.
AnsweredIsTraced == Track!AnsweredIsTraced

\* Types of the variables of both processes.
IngestTypeOK == TypeOK /\ Track!TypeOK

\* Across both processes a webhook that is answered 202, or refused with 409 as
\* a duplicate (server.ts:99-104), has its payload registered, and a duplicate
\* is one of an accepted delivery: whatever order of timeouts, redeliveries,
\* failures and restarts led there, a sender that stops sending has been heard.
AnsweredIsRegistered ==
    /\ DuplicateWasAccepted
    /\ \A r \in Requests : state[r] \in {"202", "409"} => Track!Known(print[r])
=============================================================================
