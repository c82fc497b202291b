------------------------------ MODULE MCUpdater ------------------------------
(* Instances of Updater for TLC. *)
EXTENDS Updater

CONSTANTS dll, exe, model, first, second

\* The manifest lists its files by path: the library before the program.
MCPlan == <<dll, exe, model>>
=============================================================================
