--------------------------- MODULE MonitorService ---------------------------
(***************************************************************************)
(* The monitor's service: run_monitor of MonitorLock next to POST          *)
(* /api/changelogs/generate (backend/app/api/changelog.py and              *)
(* generate_changelog of backend/app/core/changelog.py), on one pool.      *)
(*                                                                         *)
(* A changelog request is a reader of MonitorLock: one transaction, which  *)
(* lasts through the call of the language model.  get_session              *)
(* (backend/app/database.py) closes the session without a commit, so what  *)
(* it flushed is rolled back, after other requests have waited for it.     *)
(***************************************************************************)
EXTENDS MonitorLock

CONSTANTS Reports   \* snapshots with a schema and with diffs

VARIABLES
    asked,          \* snapshot that a reader wants a changelog of; None for
                    \* any other request, and for one that ends with 404 or 422
    step,           \* where in generate_changelog it is
    saved           \* committed rows of changelogs, by snapshot: the diffs of
                    \* a snapshot never change, and so their diff_set_hash

serviceVars == <<vars, asked, step, saved>>

Steps == {"off", "lookup", "generate", "flush", "cached", "flushed", "conflict"}

ServiceInit ==
    /\ Init
    /\ asked \in [Readers -> Reports \cup {None}]
    /\ step = [q \in Readers |-> "off"]
    /\ saved = {}

Advance(q, label) == step' = [step EXCEPT ![q] = label]

\* The request reads the snapshot and its diffs.
Ask(q) ==
    /\ BeginRead(q)
    /\ Advance(q, IF asked[q] = None THEN "off" ELSE "lookup")
    /\ UNCHANGED <<asked, saved>>

\* SELECT ... WHERE snapshot_id, diff_set_hash.
CacheLookup(q) ==
    /\ step[q] = "lookup" /\ Live(q)
    /\ Advance(q, IF asked[q] \in saved THEN "cached" ELSE "generate")
    /\ UNCHANGED <<vars, asked, saved>>

\* The text: that of _call_anthropic if it passes _validate_llm_output, else
\* _template_changelog.  The call is awaited with the connection in use.
Generate(q) ==
    /\ step[q] = "generate"
    /\ Advance(q, "flush")
    /\ UNCHANGED <<vars, asked, saved>>

\* Mutant: two requests at their INSERT wait for each other.
FlushChangelogBothWait(q) ==
    /\ step[q] = "flush" /\ Live(q)
    /\ \A u \in Readers \ {q} : step[u] \in {"flush", "flushed"} /\ Live(u) => asked[u] # asked[q]
    /\ Advance(q, IF asked[q] \in saved THEN "conflict" ELSE "flushed")
    /\ UNCHANGED <<vars, asked, saved>>

\* INSERT under uq_changelog_snapshot_diffset: it waits for an uncommitted row
\* with the same key and raises if there is a committed one.
FlushChangelog(q) ==
    /\ step[q] = "flush" /\ Live(q)
    /\ \A u \in Readers \ {q} : step[u] = "flushed" /\ Live(u) => asked[u] # asked[q]
    /\ Advance(q, IF asked[q] \in saved THEN "conflict" ELSE "flushed")
    /\ UNCHANGED <<vars, asked, saved>>

\* The answer, and the end of the session: what was flushed is gone.  On a lost
\* connection every statement raises.
EndSession(q) ==
    /\ EndRead(q)
    /\ step[q] \in {"off", "cached", "flushed", "conflict"} \/ ~Live(q)
    /\ Advance(q, IF step[q] = "conflict" THEN "conflict" ELSE "off")
    /\ UNCHANGED <<asked, saved>>

RestartService ==
    /\ Restart
    /\ step' = [q \in Readers |-> IF step[q] = "conflict" THEN "conflict" ELSE "off"]
    /\ UNCHANGED <<asked, saved>>

Monitoring(t) ==
    /\ \/ Conflict(t) \/ InsertFails(t) \/ Commit(t) \/ Committed(t) \/ Raise(t)
       \/ BeginRecord(t) \/ EndRecord(t) \/ Unlock(t) \/ Close(t)
    /\ UNCHANGED <<asked, step, saved>>

Reporting(q) ==
    CacheLookup(q) \/ Generate(q) \/ FlushChangelog(q) \/ EndSession(q)

ServiceNext ==
    \/ \E t \in Runs : \/ TryLock(t) /\ UNCHANGED <<asked, step, saved>>
                       \/ Monitoring(t)
    \/ \E q \in Readers : Ask(q) \/ Reporting(q)
    \/ /\ \/ \E s \in Sessions : CheckoutFails(s)
          \/ \E c \in Conns : Disconnect(c)
       /\ UNCHANGED <<asked, step, saved>>
    \/ RestartService

ServiceSpec == ServiceInit /\ [][ServiceNext]_serviceVars

-----------------------------------------------------------------------------
\* Types of the variables; a changelog is worked on only in an open session.
ServiceTypeOK ==
    /\ TypeOK
    /\ asked \in [Readers -> Reports \cup {None}]
    /\ step \in [Readers -> Steps]
    /\ saved \subseteq Reports
    /\ \A q \in Readers : step[q] \notin {"off", "conflict"} => pc[q] = "reading"

\* Sessions wait for a connection of the pool (database.py:13-19) and for each
\* other's uncommitted changelogs, with a connection in their hands: never does
\* everyone wait, some request under way can always go on without a timeout.
NobodyWaitsForAll ==
    (\E s \in Sessions : pc[s] \notin {"idle", "done"}) =>
       ENABLED (\/ \E t \in Runs : Monitoring(t)
                \/ \E q \in Readers : Reporting(q))
=============================================================================
