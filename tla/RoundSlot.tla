----------------------------- MODULE RoundSlot -----------------------------
(***************************************************************************)
(* What the sync chain promises to the exchange tables: rounds run one at  *)
(* a time.  ExchangeLedger is written on this promise.                     *)
(***************************************************************************)
CONSTANT Chains      \* who may run a round

VARIABLE fetching    \* the chains whose round is in flight

Init == fetching = {}

Start(c) == fetching = {} /\ fetching' = {c}

End(c) == fetching = {c} /\ fetching' = {}

Spec == Init /\ [][\E c \in Chains : Start(c) \/ End(c)]_fetching
=============================================================================
