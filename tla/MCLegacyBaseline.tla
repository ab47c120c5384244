-------------------------- MODULE MCLegacyBaseline --------------------------
(***************************************************************************)
(* Four requests: two racing first submissions and two later ones, on two  *)
(* endpoints of one route, which share the lock.                           *)
(***************************************************************************)
EXTENDS LegacyBaseline, TLC

OneRoute == [e \in Endpoints |-> "/r"]

Symmetry == Permutations(Requests) \cup Permutations(Fingerprints)
=============================================================================
