---------------------------- MODULE MCMouseGuard ----------------------------
(* Instances of MouseGuard for TLC. *)
EXTENDS MouseGuard, TLC

CONSTANTS first, second, left, right
=============================================================================
