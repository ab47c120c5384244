--------------------------- MODULE MCMonitorService -------------------------
(***************************************************************************)
(* Two runs, two other requests (for the changelog of one snapshot, or for *)
(* none) and three connections, two of which the pool keeps: a run can     *)
(* come back to another connection than the one it locked, a connection    *)
(* with the lock on it can be reused, closed or lost, and a request can    *)
(* find all of them in use.                                                *)
(***************************************************************************)
EXTENDS MonitorService, TLC

SessionSymmetry == Permutations(Runs) \cup Permutations(Readers)
Symmetry == SessionSymmetry \cup Permutations(Conns)
=============================================================================
