--------------------------- MODULE MCServiceToken ---------------------------
(* Instances of ServiceToken for TLC. *)
EXTENDS ServiceToken

CONSTANTS c1, c2, c3
=============================================================================
