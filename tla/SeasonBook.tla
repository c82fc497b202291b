----------------------------- MODULE SeasonBook -----------------------------
(***************************************************************************)
(* The season table of the market store (start_season, end_season and      *)
(* amend_season_start in ptt-storage/src/lib.rs) as functions on a set of  *)
(* seasons of one game, identified by their start as season_id is.         *)
(***************************************************************************)
EXTENDS Integers, FiniteSets

CONSTANT Open    \* the end of a season that has none

Newest(seasons) == CHOOSE s \in seasons : \A other \in seasons : other.start <= s.start
Earlier(seasons) == seasons \ {Newest(seasons)}

Closed(season, end) == [season EXCEPT !.end = end]
Swap(seasons, old, new) == (seasons \ {old}) \cup {new}

(* A new season must start after the newest one, whose end is recorded if  *)
(* it has none.  Update and insert are two statements, not a transaction.  *)
MayStart(seasons, start) == seasons # {} => start > Newest(seasons).start
StampPrevious(seasons, start) ==
    IF seasons = {} \/ Newest(seasons).end # Open THEN seasons
    ELSE Swap(seasons, Newest(seasons), Closed(Newest(seasons), start))
Insert(seasons, start) == seasons \cup {[start |-> start, end |-> Open]}

MayEnd(seasons, end) == seasons # {} /\ end > Newest(seasons).start
End(seasons, end) == Swap(seasons, Newest(seasons), Closed(Newest(seasons), end))

(* Correcting the start of the newest season.  An end that start_season    *)
(* stamped on the previous one moves along; any other end is a limit.      *)
AutoEnded(seasons) ==
    Earlier(seasons) # {} /\ Newest(Earlier(seasons)).end = Newest(seasons).start
PreviousEdge(seasons) ==
    LET previous == Newest(Earlier(seasons))
    IN  IF AutoEnded(seasons) \/ previous.end = Open THEN previous.start ELSE previous.end
MayAmend(seasons, start) ==
    /\ seasons # {}
    /\ Earlier(seasons) # {} => start > PreviousEdge(seasons)
    /\ Newest(seasons).end # Open => start < Newest(seasons).end
DragPrevious_Forgotten(seasons, start) == seasons
DragPrevious(seasons, start) ==
    IF ~AutoEnded(seasons) THEN seasons
    ELSE LET previous == Newest(Earlier(seasons)) IN Swap(seasons, previous, Closed(previous, start))
Restart(seasons, newest, start) == Swap(seasons, newest, [newest EXCEPT !.start = start])
=============================================================================
