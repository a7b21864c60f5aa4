--------------------------- MODULE MCTokenVerifier ---------------------------
(* Instances of TokenVerifier for TLC. *)
EXTENDS TokenVerifier

CONSTANTS r1, r2
=============================================================================
