--------------------------- MODULE MCRouteSearch ---------------------------
(***************************************************************************)
(* Four currencies: the pair asked about and two to go through.  The books *)
(* are the ones that make the arithmetic bite: a level too thin to pay one *)
(* unit, one whose stock ends between two units, a good thin level before  *)
(* a bad deep one, two levels at one rate, rates above and below one.      *)
(***************************************************************************)
EXTENDS RouteSearch

Level(num, den, stock, id) ==
    [num |-> num, den |-> den, stock |-> stock, trust |-> 1, id |-> id]

OneForTwo   == {Level(1, 2, 9, 1)}
OneForSeven == {Level(1, 7, 9, 1)}
Lumps       == {Level(3, 1, 2, 1)}                      \* pays threes, holds two
Uneven      == {Level(2, 3, 5, 1), Level(3, 2, 7, 2)}   \* ends between two units
ThinThenDeep == {Level(1, 1, 2, 1), Level(1, 5, 9, 2)}
TwoAlike    == {Level(1, 3, 1, 1), Level(2, 6, 2, 2)}

\* A pair with no level left is not in the index at all.
Indexed(book) == [p \in {q \in DOMAIN book : book[q] # {}} |-> book[p]]

MCMarkets ==
    {Indexed(<<"s", "t">> :> st @@ <<"s", "a">> :> sa @@ <<"s", "b">> :> sb @@
             <<"a", "t">> :> at @@ <<"b", "t">> :> bt @@ <<"a", "b">> :> ab @@
             <<"b", "a">> :> OneForTwo)
     : st \in {{}, OneForSeven, ThinThenDeep, Lumps},
       sa \in {{}, OneForTwo, Uneven},
       sb \in {{}, ThinThenDeep},
       at \in {{}, TwoAlike, ThinThenDeep},
       bt \in {{}, OneForTwo},
       ab \in {{}, Uneven}}

Ask(stake, allowed, hops, maxPaths, maxExpansions) ==
    [stake |-> stake, allowed |-> allowed, hops |-> hops, maxPaths |-> maxPaths,
     maxExpansions |-> maxExpansions]

MCRequests ==
    {Ask(n, {"a", "b"}, 3, 10, 20) : n \in {1, 4, 13}}
        \cup {Ask(4, {"b"}, 3, 10, 20), Ask(4, {"a", "b"}, 2, 10, 20),
              Ask(4, {"a", "b"}, 3, 2, 20), Ask(4, {"a", "b"}, 3, 10, 2)}

MCIdOrder == <<"a", "b", "s", "t">>
=============================================================================
