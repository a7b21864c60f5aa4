-------------------------- MODULE MCStreamConsumer --------------------------
(* Instances of StreamConsumer for TLC. *)
EXTENDS StreamConsumer, TLC

CONSTANTS c1, c2

\* The processes are interchangeable (used in runs without liveness only).
Symmetry == Permutations(Consumers)

None == {}
First == {1}
Second == {2}
=============================================================================
