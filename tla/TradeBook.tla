----------------------------- MODULE TradeBook -----------------------------
(***************************************************************************)
(* What the exchange history promises: the hours of trading it can show    *)
(* the volume of.  It learns hours one at a time and never forgets one,    *)
(* however the volume is kept (hour rows or day lines).                    *)
(***************************************************************************)
CONSTANT Traded    \* the hours in which the league has traded

VARIABLE known     \* the hours whose volume can be shown

Init == known = {}

Learn == \E h \in Traded \ known : known' = known \cup {h}

Spec == Init /\ [][Learn]_known
=============================================================================
