------------------------- MODULE MCExchangeLedger -------------------------
(***************************************************************************)
(* Instances of ExchangeLedger for TLC.  A day has two hours;              *)
(* windows are in days, as in the settings.                                *)
(***************************************************************************)
EXTENDS ExchangeLedger

With(backfill, retention, season) ==
    [backfill |-> backfill, retention |-> retention, season |-> season]

\* Detail kept as long as the window reaches back (the defaults are 14 and 14)
\* or longer, and a window back to the season's start, wider than the detail kept.
MCRounds == {With(1, 1, NoHour), With(1, 2, NoHour), With(4, 1, 4)}

\* A season that began at midnight, days before the detail that is kept.
MCOldSeason == {With(4, 1, 2)}
=============================================================================
