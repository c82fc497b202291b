--------------------------- MODULE MCWatchSession ---------------------------
(* Instances of WatchSession for TLC. *)
EXTENDS WatchSession

CONSTANTS chaos, divine, few, many

Panel(need, have, tables) == [need |-> need, have |-> have, tables |-> tables]

\* Two books, and the order-entry state of one of them.
MCPanels == {Panel(chaos, divine, few), Panel(divine, chaos, many), Panel(chaos, divine, OrderEntry)}
=============================================================================
