--------------------------- MODULE SchemaHistory ---------------------------
(***************************************************************************)
(* What the contract registry promises: per endpoint, one growing sequence *)
(* of pairwise different schemas.  Version n is the n-th element, once     *)
(* published it never changes, and the schema a reader gets as current is  *)
(* the last element.                                                       *)
(***************************************************************************)
EXTENDS Naturals, Sequences

CONSTANTS Endpoints, Fingerprints

VARIABLE history

Init == history = [e \in Endpoints |-> <<>>]

\* A schema that the endpoint never had becomes its newest version.
Publish(e, f) ==
    /\ \A n \in 1..Len(history[e]) : history[e][n] # f
    /\ history' = [history EXCEPT ![e] = Append(@, f)]

Next == \E e \in Endpoints, f \in Fingerprints : Publish(e, f)

Spec == Init /\ [][Next]_history
=============================================================================
