----------------------------- MODULE MCUniCache -----------------------------
(* Instances of UniCache for TLC. *)
EXTENDS UniCache, TLC

CONSTANTS r1, r2, u, v

\* Readers and universities are interchangeable.
Symmetry == Permutations(Readers) \cup Permutations(Unis)
=============================================================================
