------------------------ MODULE MCContractRegistry ------------------------
(***************************************************************************)
(* Small instances of ContractRegistry.  Two processes that hash on their  *)
(* own; three fingerprints, so that an old schema can be submitted again;  *)
(* Compat tells every ordered pair of schemas apart, so that a version     *)
(* classified against the wrong base shows.                                *)
(***************************************************************************)
EXTENDS ContractRegistry

CONSTANTS r1, r2, r3, e1, f1, f2, f3, p1, p2

\* Each process hashes on its own.
RandomizedLocks == [pe \in Processes \X Endpoints |-> IF pe[1] = p1 THEN 1 ELSE 2]

\* A distinct classification for every ordered pair of fingerprints.
PairClasses == {Safe} \cup (Fingerprints \X Fingerprints)
PairCompat == [fg \in Fingerprints \X Fingerprints |-> fg]
=============================================================================
