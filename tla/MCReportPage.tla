---------------------------- MODULE MCReportPage ----------------------------
(* Instances of ReportPage for TLC. *)
EXTENDS ReportPage, TLC

CONSTANTS poe1, poe2, standard, rise, dawn, toChaos, toExalted

\* Two games whose leagues have names of their own; the first has two.
OwnLeagues == poe1 :> {standard, rise} @@ poe2 :> {dawn}
\* Both games have a league of one name, the first also another.
SharedLeague == poe1 :> {standard, rise} @@ poe2 :> {standard}
\* A user at the rates of one game, one at the exchange page of both games, and one
\* at the probes.
Rates == [pages |-> {"Convert", "Settings"}, games |-> {poe1}, pairs |-> {toChaos, toExalted},
          pins |-> FALSE, events |-> 1, jobs |-> 1]
Exchanges == [pages |-> {"Exchange"}, games |-> {poe1, poe2}, pairs |-> {},
              pins |-> FALSE, events |-> 2, jobs |-> 1]
Probes == [pages |-> {"Monitor"}, games |-> {poe2}, pairs |-> {toChaos},
           pins |-> TRUE, events |-> 3, jobs |-> 0]
ThreeUsers == {Rates, Exchanges, Probes}
OnlyExchanges == {Exchanges}
=============================================================================
