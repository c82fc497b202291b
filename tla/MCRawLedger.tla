----------------------------- MODULE MCRawLedger -----------------------------
(* Instances of RawLedger for TLC. *)
EXTENDS RawLedger

CONSTANTS chaos, mirror, first, second

=============================================================================
