---------------------------- MODULE RouteSearch ----------------------------
(***************************************************************************)
(* The depth-first search for the best way to turn one currency into       *)
(* another (route.rs), and the radar's use of it for one pair of its scan  *)
(* (radar.rs, run_opportunity_radar): search at the stake; if nothing is   *)
(* found, ask the direct pair what the smallest order would be and search  *)
(* once more at that size; if there still is nothing, ask the graph        *)
(* whether the pair is merely untradable at that size or was never         *)
(* captured at all.                                                        *)
(*                                                                         *)
(* The search is bounded twice, by the states it may expand and the routes *)
(* it may collect, and it runs on a worker whose caller may cancel it      *)
(* between any two steps.  market maps each captured pair to its levels.   *)
(***************************************************************************)
EXTENDS TakerDepth

CONSTANTS IdOrder,     \* the currencies, in the order of their ids
          From, To,    \* the pair the radar asks about
          Markets,     \* the books it may find
          Requests,    \* stake, allowed, hops, maxPaths, maxExpansions
          Top          \* the largest quantity the engine can count

\* The ceilings that route.rs 219 and 221 put on the two budgets are left
\* open: what is said of a search holds for every budget.
ASSUME RouteAssumption ==
    /\ From # To
    /\ {From, To} \subseteq ToSet(IdOrder)
    /\ IdOrder \in Seq(ToSet(IdOrder))
    /\ IsInjective(IdOrder)
    /\ Top \in Nat
    /\ \A m \in Markets :
          /\ DOMAIN m \subseteq ToSet(IdOrder) \X ToSet(IdOrder)
          /\ \A pair \in DOMAIN m : IsBook(m[pair])
    /\ \A r \in Requests :
          /\ r.stake \in 1..Top
          /\ r.hops \in 1..4
          /\ r.maxPaths \in Nat \ {0}
          /\ r.maxExpansions \in Nat \ {0}

VARIABLES market, request,
          amount,       \* what the search at hand is asked to convert
          raised,       \* the stake was raised to the direct pair's minimum
          stack,        \* the calls of visit, the innermost last
          paths,        \* the routes collected, in the order they were found
          expanded, truncated,
          exhausted,    \* some search of this pair ran out of its budget
          cancelled,    \* the caller's flag
          verdict       \* what the radar says of the pair

vars == <<market, request, amount, raised, stack, paths, expanded, truncated,
          exhausted, cancelled, verdict>>

Neighbors(asset) == {b \in ToSet(IdOrder) : <<asset, b>> \in DOMAIN market}

IdOf(asset) == CHOOSE i \in DOMAIN IdOrder : IdOrder[i] = asset

\* The neighbours are met in the order of their ids.
FirstOf(assets) == CHOOSE a \in assets : \A b \in assets : IdOf(a) <= IdOf(b)

\* A call of visit; todo holds the neighbours its loop has not reached.
Call(route, carried, legs) ==
    [route |-> route, carried |-> carried, legs |-> legs, entered |-> FALSE, todo |-> {}]

Search(n) ==
    /\ amount' = n
    /\ stack' = <<Call(<<From>>, n, <<>>)>>
    /\ paths' = <<>>
    /\ expanded' = 0
    /\ truncated' = FALSE

Init ==
    /\ market \in Markets
    /\ request \in Requests
    /\ amount = request.stake
    /\ stack = <<Call(<<From>>, amount, <<>>)>>
    /\ paths = <<>>
    /\ expanded = 0
    /\ truncated = FALSE
    /\ raised = FALSE
    /\ exhausted = FALSE
    /\ cancelled = FALSE
    /\ verdict = "none"

-----------------------------------------------------------------------------
(* The search.                                                             *)

Here == Last(stack)

AtHere(call) == [stack EXCEPT ![Len(stack)] = call]

Searching == stack # <<>> /\ verdict = "none"

\* The caller gives up; the search notices at its next step.
Cancel ==
    /\ verdict = "none"
    /\ ~cancelled
    /\ cancelled' = TRUE
    /\ UNCHANGED <<market, request, amount, raised, stack, paths, expanded, truncated,
                   exhausted, verdict>>

\* Every entry and every turn of the loop begins with the caller's flag.
StopCancelled ==
    /\ Searching
    /\ cancelled
    /\ Here.entered => Here.todo # {}
    /\ stack' = <<>>
    /\ verdict' = "cancelled"
    /\ UNCHANGED <<market, request, amount, raised, paths, expanded, truncated, exhausted,
                   cancelled>>

OutOfBudget ==
    \/ expanded >= request.maxExpansions
    \/ Len(paths) >= request.maxPaths

EnterTooDeep ==
    /\ Searching /\ ~cancelled
    /\ ~Here.entered
    /\ Len(Here.legs) >= request.hops
    /\ stack' = Front(stack)
    /\ UNCHANGED <<market, request, amount, raised, paths, expanded, truncated, exhausted,
                   cancelled, verdict>>

EnterOutOfBudget ==
    /\ Searching /\ ~cancelled
    /\ ~Here.entered
    /\ Len(Here.legs) < request.hops
    /\ OutOfBudget
    /\ truncated' = TRUE
    /\ stack' = Front(stack)
    /\ UNCHANGED <<market, request, amount, raised, paths, expanded, exhausted, cancelled,
                   verdict>>

Enter ==
    /\ Searching /\ ~cancelled
    /\ ~Here.entered
    /\ Len(Here.legs) < request.hops
    /\ ~OutOfBudget
    /\ expanded' = expanded + 1
    /\ stack' = AtHere([Here EXCEPT !.entered = TRUE, !.todo = Neighbors(Last(Here.route))])
    /\ UNCHANGED <<market, request, amount, raised, paths, truncated, exhausted, cancelled,
                   verdict>>

\* Mutant of Skips: one set of visited currencies shared by all branches.
Skips_SharedVisited(call, neighbor) ==
    \/ truncated
    \/ neighbor # To /\ neighbor \notin request.allowed
    \/ neighbor \in ToSet(call.route)
    \/ neighbor # To /\ \E p \in ToSet(paths) : neighbor \in ToSet(p.route)

\* The neighbours the loop steps over without pricing them.
Skips(call, neighbor) ==
    \/ truncated
    \/ neighbor \in ToSet(call.route)
    \/ neighbor # To /\ neighbor \notin request.allowed

\* One turn of the loop.  A leg that buys nothing ends the route there; one
\* that reaches the target completes it; any other is followed.
Turn ==
    /\ Searching /\ ~cancelled
    /\ Here.entered
    /\ Here.todo # {}
    /\ LET neighbor == FirstOf(Here.todo)
           pair == <<Last(Here.route), neighbor>>
           leg  == FillTaker(market[pair], Here.carried)
           rest == [Here EXCEPT !.todo = @ \ {neighbor}]
       IN  \/ /\ Skips(Here, neighbor)
              /\ stack' = AtHere(rest)
              /\ UNCHANGED <<paths, truncated>>
           \/ /\ ~Skips(Here, neighbor)
              /\ leg.out = 0
              /\ stack' = AtHere(rest)
              /\ UNCHANGED <<paths, truncated>>
           \/ /\ ~Skips(Here, neighbor)
              /\ leg.out > 0
              /\ neighbor = To
              /\ paths' = Append(paths, [route |-> Append(Here.route, To),
                                         legs  |-> Append(Here.legs, leg)])
              /\ truncated' = (Len(paths) + 1 >= request.maxPaths)
              /\ stack' = AtHere(IF truncated' THEN [Here EXCEPT !.todo = {}] ELSE rest)
           \/ /\ ~Skips(Here, neighbor)
              /\ leg.out > 0
              /\ neighbor # To
              /\ stack' = Append(AtHere(rest),
                                 Call(Append(Here.route, neighbor), leg.out,
                                      Append(Here.legs, leg)))
              /\ UNCHANGED <<paths, truncated>>
    /\ UNCHANGED <<market, request, amount, raised, expanded, exhausted, cancelled, verdict>>

Return ==
    /\ Searching
    /\ Here.entered
    /\ Here.todo = {}
    /\ stack' = Front(stack)
    /\ UNCHANGED <<market, request, amount, raised, paths, expanded, truncated, exhausted,
                   cancelled, verdict>>

-----------------------------------------------------------------------------
(* Ranking what was found (compare_paths): first what got stuck in the     *)
(* middle, then the price actually paid.  No shipped policy allows         *)
(* execution, so that key is constant and left out.                        *)

\* Shares and prices are fractions, compared without dividing.
Less(x, y) == x.num * y.den < y.num * x.den

\* Mutant of WorstStranded: what the first leg leaves counts as stranded.
WorstStranded_FirstLegToo(path) ==
    FoldLeft(LAMBDA worst, leg :
                LET share == [num |-> leg.left, den |-> leg.asked]
                IN  IF Less(worst, share) THEN share ELSE worst,
             [num |-> 0, den |-> 1], path.legs)

\* The largest share of a leg the market refused, counted from the second
\* leg on: what the first leg leaves was never exchanged.
WorstStranded(path) ==
    FoldLeft(LAMBDA worst, leg :
                LET share == [num |-> leg.left, den |-> leg.asked]
                IN  IF Less(worst, share) THEN share ELSE worst,
             [num |-> 0, den |-> 1], Tail(path.legs))

\* What came out for what the first leg really spent.
RealizedPrice(path) == [num |-> Last(path.legs).out, den |-> Head(path.legs).used]

Residuals(path) == Cardinality({i \in DOMAIN path.legs : path.legs[i].left > 0})

\* Which of two different routes is named first.
FirstByName(p, q) ==
    LET differ == {i \in DOMAIN p.route \cap DOMAIN q.route : p.route[i] # q.route[i]}
        at == CHOOSE i \in differ : \A j \in differ : i <= j
    IN  IdOf(p.route[at]) < IdOf(q.route[at])

Outranks(p, q) ==
    LET stuck(x) == WorstStranded(x)
        price(x) == RealizedPrice(x)
    IN  \/ Less(stuck(p), stuck(q))
        \/ /\ ~Less(stuck(q), stuck(p))
           /\ \/ Less(price(q), price(p))
              \/ /\ ~Less(price(p), price(q))
                 /\ \/ Residuals(p) < Residuals(q)
                    \/ /\ Residuals(p) = Residuals(q)
                       /\ \/ Len(p.legs) < Len(q.legs)
                          \/ Len(p.legs) = Len(q.legs) /\ FirstByName(p, q)

\* The head of the ranking.
BestPath == CHOOSE p \in ToSet(paths) : \A q \in ToSet(paths) \ {p} : Outranks(p, q)

\* The routes of one leg are what the best one is compared with.
DirectPaths == {p \in ToSet(paths) : Len(p.legs) = 1}

-----------------------------------------------------------------------------
(* What the radar makes of it.                                             *)

\* A pair nobody captured has no smallest order.
MinimumOfThePair ==
    IF <<From, To>> \in DOMAIN market THEN MinimumInput(market[<<From, To>>], Top) ELSE 0

\* Where captured pairs lead in n steps through the currencies allowed.
Reached(n) ==
    LET within[k \in 0..n] ==
            IF k = 0 THEN {From}
            ELSE within[k - 1] \cup
                 {b \in request.allowed : \E a \in within[k - 1] : <<a, b>> \in DOMAIN market}
    IN  within[n]

\* Mutant of IsPricedRoute: one hop more than the search may take.
IsPricedRoute_OneHopMore == \E a \in Reached(request.hops) : <<a, To>> \in DOMAIN market

IsPricedRoute == \E a \in Reached(request.hops - 1) : <<a, To>> \in DOMAIN market

Searched == stack = <<>> /\ verdict = "none"

ScanFinds ==
    /\ Searched
    /\ paths # <<>>
    /\ verdict' = IF DirectPaths = {} THEN "no direct" ELSE "compared"
    /\ exhausted' = (exhausted \/ truncated)
    /\ UNCHANGED <<market, request, amount, raised, stack, paths, expanded, truncated,
                   cancelled>>

\* The stake buys nothing: ask again at the smallest order that would.
RaiseStake ==
    /\ Searched
    /\ paths = <<>>
    /\ ~raised
    /\ MinimumOfThePair > amount
    /\ Search(MinimumOfThePair)
    /\ raised' = TRUE
    /\ exhausted' = (exhausted \/ truncated)
    /\ UNCHANGED <<market, request, cancelled, verdict>>

GiveUp ==
    /\ Searched
    /\ paths = <<>>
    /\ ~raised => MinimumOfThePair <= amount
    /\ verdict' = IF IsPricedRoute THEN "unfillable" ELSE "missing"
    /\ exhausted' = (exhausted \/ truncated)
    /\ UNCHANGED <<market, request, amount, raised, stack, paths, expanded, truncated,
                   cancelled>>

Next ==
    \/ Cancel
    \/ StopCancelled
    \/ EnterTooDeep
    \/ EnterOutOfBudget
    \/ Enter
    \/ Turn
    \/ Return
    \/ ScanFinds
    \/ RaiseStake
    \/ GiveUp

Spec == Init /\ [][Next]_vars

-----------------------------------------------------------------------------
(* What must be true.  Routes and answers are counted here from the market *)
(* alone, by enumeration, not by the search.                               *)

\* Every simple chain of captured pairs from From to To that the request
\* allows.
Chains ==
    UNION {{r \in [1..n -> ToSet(IdOrder)] :
               /\ r[1] = From
               /\ r[n] = To
               /\ \A i \in 2..(n - 1) : r[i] \in request.allowed
               /\ \A i, j \in 1..n : i # j => r[i] # r[j]
               /\ \A i \in 1..(n - 1) : <<r[i], r[i + 1]>> \in DOMAIN market}
           : n \in 2..(request.hops + 1)}

\* What is left of n units at the end of a chain.
Delivered(chain, n) ==
    LET after[i \in 1..Len(chain)] ==
            IF i = 1 THEN n
            ELSE IF after[i - 1] = 0 THEN 0
                 ELSE FillTaker(market[<<chain[i - 1], chain[i]>>], after[i - 1]).out
    IN  after[Len(chain)]

\* A search that ends within its budget has found every route that buys
\* anything, whatever order the neighbours were visited in: two branches do
\* not block each other's currencies.
NoRouteIsMissed ==
    Searched /\ ~truncated =>
        {p.route : p \in ToSet(paths)} = {c \in Chains : Delivered(c, amount) > 0}

\* The bill of every route adds up: each leg is handed what the one before
\* it bought, what it spends and what it leaves is what it was handed, no
\* level pays out more than it holds or better than its rate, and none is
\* taken twice.
BillAddsUp ==
    \A p \in ToSet(paths) : \A i \in DOMAIN p.legs :
        LET leg == p.legs[i]
            level(k) == leg.fills[k].level
        IN  /\ leg.asked = IF i = 1 THEN amount ELSE p.legs[i - 1].out
            /\ leg.used + leg.left = leg.asked
            /\ leg.used = FoldLeft(LAMBDA sum, f : sum + f.in, 0, leg.fills)
            /\ leg.out = FoldLeft(LAMBDA sum, f : sum + f.out, 0, leg.fills)
            /\ \A k \in DOMAIN leg.fills :
                  /\ leg.fills[k].out <= level(k).stock
                  /\ leg.fills[k].out * level(k).den <= leg.fills[k].in * level(k).num
                  /\ \A j \in DOMAIN leg.fills : j # k => level(j) # level(k)

\* Nothing has been looked at yet: the market's own facts are checked once.
Fresh == ~cancelled /\ ~raised /\ expanded = 0 /\ Len(stack) = 1

\* An order that grows never buys less: the bisections for a route's capacity
\* and for the smallest order that buys a unit rest on it (depth.rs 395-398).
MoreInNeverLess ==
    Fresh => \A pair \in DOMAIN market : \A n \in 1..(Top - 1) :
                FillTaker(market[pair], n).out <= FillTaker(market[pair], n + 1).out

\* The verdict is true of the market, not only of the stake: a pair is sent
\* to the user to capture only when no chain of captured pairs leads there;
\* it is called untradable at this size only when the stake buys nothing on
\* any chain and the direct pair sells nothing at any size up to half the
\* largest, where the doubling of the size stops; and the stake is raised
\* only when it would have bought nothing, to no more than it takes.
VerdictTellsTheTruth ==
    LET buys(n) == \E c \in Chains : Delivered(c, n) > 0
        direct(n) == <<From, To>> \in Chains /\ Delivered(<<From, To>>, n) > 0
    IN  /\ verdict = "missing" => Chains = {}
        /\ verdict = "unfillable" =>
              /\ Chains # {}
              /\ ~exhausted =>
                    ~buys(request.stake) /\ \A n \in 1..((Top + 1) \div 2) : ~direct(n)
        /\ verdict \in {"compared", "no direct"} /\ ~exhausted =>
              IF raised
              THEN ~buys(request.stake) /\ direct(amount) /\ ~direct(amount - 1)
              ELSE amount = request.stake

\* The winner gets nothing stuck in a currency in the middle when some route
\* does not, and among those it pays the best price for what it really
\* spends; coming up short on the first leg costs it nothing.
BestTrapsNothingAndPaysMost ==
    Searched /\ paths # <<>> =>
        LET clean(p) == \A i \in 2..Len(p.legs) : p.legs[i].left = 0
            beats(p, q) == Last(p.legs).out * Head(q.legs).used
                               > Last(q.legs).out * Head(p.legs).used
        IN  \A p \in ToSet(paths) :
                clean(p) => clean(BestPath) /\ ~beats(p, BestPath)

\* "No direct route to compare" means that the direct pair would have sold
\* nothing for what the search was asked to convert.
NoDirectMeansNoDirectQuote ==
    verdict = "no direct" /\ <<From, To>> \in DOMAIN market =>
        Delivered(<<From, To>>, amount) = 0
=============================================================================
