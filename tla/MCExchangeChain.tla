-------------------------- MODULE MCExchangeChain --------------------------
(* Instances of ExchangeChain for TLC. *)
EXTENDS ExchangeChain, TLC

CONSTANTS Allflame, poe1, poe2

\* The second game's files hold no league yet.
MCLeaguesOf == poe1 :> {Allflame} @@ poe2 :> {}
=============================================================================
