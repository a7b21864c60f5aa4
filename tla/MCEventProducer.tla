--------------------------- MODULE MCEventProducer ---------------------------
(* Instances of EventProducer for TLC. *)
EXTENDS EventProducer, TLC

CONSTANTS c1, c2

\* The callers are interchangeable.
Symmetry == Permutations(Callers)

Second == {2}
=============================================================================
