----------------------------- MODULE TakerDepth -----------------------------
(***************************************************************************)
(* One pair of the market as the trade engine sees it (depth.rs): the      *)
(* taker listings of a captured panel, and the walk that fills an order    *)
(* against them.  Everything is counted in whole units, as every caller of *)
(* the engine counts it, so a level's conversion scale is its rate.  The   *)
(* shipped policy verifies no fee, so a leg's output is its gross output.  *)
(*                                                                         *)
(* A level is a record: num units come out for den units that go in, stock *)
(* is what the lister can pay out, trust its confidence, id its edge.      *)
(***************************************************************************)
EXTENDS Integers, Sequences, SequencesExt

\* The listings there can be, and the books they make: every listing of a
\* book has an edge of its own (depth.rs 170-173).
Listings == [num : Nat \ {0}, den : Nat \ {0}, stock : Nat, trust : Int, id : Nat]

IsBook(levels) ==
    /\ IsFiniteSet(levels)
    /\ levels \subseteq Listings
    /\ \A l, m \in levels : l.id = m.id => l = m

\* What n units buy at this level's rate: whole units only.
FloorScaled(n, level) == (n * level.num) \div level.den

\* Mutant of Capacity: rounded to the unit above instead of below.
Capacity_RoundsUp(level) == (level.stock * level.den + level.num - 1) \div level.num

\* The most units a level takes before it would pay out more than it holds.
Capacity(level) == (level.stock * level.den) \div level.num

\* Mutant of Before: the deepest listing first, whatever it pays.
Before_DeepestFirst(l, m) ==
    \/ l.stock > m.stock
    \/ l.stock = m.stock /\ l.id < m.id

\* The order the exchange fills in: the better rate, and among equals the
\* level trusted more, the deeper one, the one captured under the lower id.
Before(l, m) ==
    LET rate(x, y) == x.num * y.den
    IN  \/ rate(l, m) > rate(m, l)
        \/ /\ rate(l, m) = rate(m, l)
           /\ \/ l.trust > m.trust
              \/ l.trust = m.trust /\ l.stock > m.stock
              \/ l.trust = m.trust /\ l.stock = m.stock /\ l.id < m.id

\* The levels of a book in that order.
Ordered(levels) ==
    CHOOSE s \in [1..Cardinality(levels) -> levels] :
        \A i, j \in DOMAIN s : i < j => Before(s[i], s[j])

Unfilled(n) == [asked |-> n, left |-> n, used |-> 0, out |-> 0, fills |-> <<>>]

\* One step of the walk.  A level that is asked for nothing, or that would
\* pay out less than one unit, is stepped over and takes nothing.
Take(walk, level) ==
    LET use == IF walk.left < Capacity(level) THEN walk.left ELSE Capacity(level)
        got == FloorScaled(use, level)
    IN  IF use = 0 \/ got = 0
        THEN walk
        ELSE [asked |-> walk.asked,
              left  |-> walk.left - use,
              used  |-> walk.used + use,
              out   |-> walk.out + got,
              fills |-> Append(walk.fills, [level |-> level, in |-> use, out |-> got])]

FillTaker(levels, n) == FoldLeft(Take, Unfilled(n), Ordered(levels))

(***************************************************************************)
(* The smallest order that buys one unit: double until something comes     *)
(* out, then bisect.  Top stands for the largest quantity the engine can   *)
(* count; 0 stands for "no size does".                                     *)
(***************************************************************************)
Yields(levels, n) == FillTaker(levels, n).out > 0

Bracket(levels, Top) ==
    LET from[h \in 1..Top] ==
            IF Yields(levels, h) THEN h
            ELSE IF 2 * h > Top THEN 0 ELSE from[2 * h]
    IN  from[1]

Bisect(levels, bottom, top) ==
    LET between[span \in (bottom..top) \X (bottom..top)] ==
            LET low == span[1]
                high == span[2]
                middle == low + (high - low) \div 2
            IN  IF high - low <= 1 THEN high
                ELSE between[IF Yields(levels, middle)
                             THEN <<low, middle>>
                             ELSE <<middle, high>>]
    IN  between[<<bottom, top>>]

MinimumInput(levels, Top) ==
    LET high == Bracket(levels, Top)
    IN  IF high = 0 THEN 0 ELSE Bisect(levels, high \div 2, high)
=============================================================================
