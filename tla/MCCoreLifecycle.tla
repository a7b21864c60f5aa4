--------------------------- MODULE MCCoreLifecycle ---------------------------
(* Instances of CoreLifecycle for TLC. *)
EXTENDS CoreLifecycle

CONSTANTS r1, r2
=============================================================================
