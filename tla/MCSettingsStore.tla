-------------------------- MODULE MCSettingsStore --------------------------
(* Instances of SettingsStore for TLC. *)
EXTENDS SettingsStore, TLC

CONSTANTS before, after, calibrated, retuned, factory

\* A version and its successor, whose schema is one higher.
MCSupports == before :> 1 @@ after :> 2
=============================================================================
