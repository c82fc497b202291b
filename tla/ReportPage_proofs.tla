------------------------- MODULE ReportPage_proofs -------------------------
(***************************************************************************)
(* Proofs about ReportPage, for any games, pairs, leagues and sessions, and *)
(* any number of answers under way.                                         *)
(***************************************************************************)
EXTENDS ReportPage, WellFoundedInduction, TLAPS

-----------------------------------------------------------------------------
(* Types.                                                                  *)

Leagues == UNION {LeaguesOf[g] : g \in Games}
Hours == [newest : Nat, refilled : Nat]
Ledgers == [game : Games, league : Leagues, rows : Hours]
Pins == [pair : Pairs, sticky : BOOLEAN, at : Nat, game : Games]
Events == [game : Games, pair : Pairs, at : Nat]
Reads == [game : Games, books : [Pairs -> Nat]]

Words == [kind : {"empty", "waiting", "loading", "failed"}]
Queues == [kind : {"probes"}, read : Reads, missing : SUBSET Pairs]
Conversions == [kind : {"convert"}, read : Reads, pair : Pairs \cup {NoPair}]
Ledgerings == [kind : {"exchange"}, read : Reads, holds : SUBSET Ledgers, ledger : SUBSET Ledgers]
Answers == Words \cup Queues \cup Conversions \cup Ledgerings

Requests ==
    [purpose : {"page", "hud"}, nth : {1, 2}, current : BOOLEAN,
     page : Pages \ {"Settings"}, pair : Pairs \cup {NoPair},
     game : Games, league : Leagues, sticky : SUBSET Pins, at : Nat,
     cache : SUBSET Ledgers, answer : SUBSET Answers]

QuestionTyped ==
    /\ session \in Sessions
    /\ page \in Pages /\ game \in Games
    /\ leagues \in [Games -> Leagues] /\ \A g \in Games : leagues[g] \in LeaguesOf[g]
    /\ pair \in Pairs \cup {NoPair} /\ chosen \in BOOLEAN

StoreTyped ==
    /\ books \in [Games -> [Pairs -> Nat]]
    /\ hours \in [Games \X Leagues -> Hours]
    /\ heard \in [Games -> [Pairs -> Nat]]

ClockTyped ==
    /\ clock \in Nat
    /\ pins \subseteq Pins /\ \A pin \in pins : pin.at <= 2 * clock
    /\ inbox \subseteq Events /\ \A b \in inbox : b.at <= 2 * clock

AnswersTyped ==
    /\ stale \in BOOLEAN /\ report \in Answers
    /\ hud \in [shows : BOOLEAN, queue : SUBSET Answers]
    /\ ledgerCache \subseteq Ledgers

JobsTyped == jobs \subseteq Requests

Types == QuestionTyped /\ StoreTyped /\ ClockTyped /\ AnswersTyped /\ JobsTyped

LEMMA SessionFields ==
    ASSUME NEW s \in Sessions
    PROVE  /\ s.pages \subseteq Pages /\ s.games \subseteq Games /\ s.pairs \subseteq Pairs
           /\ s.pins \in BOOLEAN
<1>1. s \in [pages : SUBSET Pages, games : SUBSET Games, pairs : SUBSET Pairs,
             pins : BOOLEAN, events : Nat, jobs : Nat]
  BY ReportAssumption
<1> QED BY <1>1

LEMMA WordTypes ==
    ASSUME NEW w \in {"empty", "waiting", "loading", "failed"}
    PROVE  Plain(w) \in Answers /\ Plain(w).kind = w
<1>1. Plain(w) \in Words
  BY DEF Plain, Words
<1> QED BY <1>1 DEF Answers, Plain

\* Each kind of answer carries what its kind says.
LEMMA AnswerKinds ==
    ASSUME NEW a \in Answers
    PROVE  /\ a.kind \in {"empty", "waiting", "loading", "failed", "probes", "convert", "exchange"}
           /\ a.kind \in {"empty", "waiting", "loading", "failed"} => a = Plain(a.kind)
           /\ a.kind = "probes" => a \in Queues
           /\ a.kind = "convert" => a \in Conversions
           /\ a.kind = "exchange" => a \in Ledgerings
<1>1. CASE a \in Words
  <2>1. a.kind \in {"empty", "waiting", "loading", "failed"} /\ a = [kind |-> a.kind]
    BY <1>1 DEF Words
  <2> QED BY <2>1 DEF Plain
<1>2. CASE a \in Queues
  BY <1>2 DEF Queues
<1>3. CASE a \in Conversions
  BY <1>3 DEF Conversions
<1>4. CASE a \in Ledgerings
  BY <1>4 DEF Ledgerings
<1> QED BY <1>1, <1>2, <1>3, <1>4 DEF Answers

-----------------------------------------------------------------------------
(* The requests under way.                                                 *)

\* The same request, whatever generation is the latest.
Outdated(k, j) ==
    /\ k \in Requests /\ k.purpose = j.purpose /\ k.page = j.page /\ k.pair = j.pair
    /\ k.game = j.game /\ k.league = j.league /\ k.sticky = j.sticky /\ k.at = j.at
    /\ k.cache = j.cache /\ k.answer = j.answer
    /\ k.current => j.current

LEMMA Outdating ==
    ASSUME NEW j \in Requests
    PROVE  Outdated([j EXCEPT !.current = FALSE], j) /\ ~[j EXCEPT !.current = FALSE].current
<1> DEFINE k == [j EXCEPT !.current = FALSE]
<1>1. k \in Requests
  BY DEF Requests
<1>2. /\ k.purpose = j.purpose /\ k.page = j.page /\ k.pair = j.pair /\ k.game = j.game
      /\ k.league = j.league /\ k.sticky = j.sticky /\ k.at = j.at /\ k.cache = j.cache
      /\ k.answer = j.answer /\ k.current = FALSE
  BY DEF Requests
<1> HIDE DEF k
<1>3. Outdated(k, j) /\ ~k.current
  BY <1>1, <1>2 DEF Outdated
<1> QED BY <1>3 DEF k

LEMMA Staying == \A j \in Requests : Outdated(j, j)
BY DEF Outdated

\* What a fresh request carries: the state it is built from, and no answer.
Fresh(k, purpose) ==
    /\ k \in Requests /\ k.purpose = purpose /\ k.current = (purpose = "page")
    /\ k.game = game /\ k.league = leagues[game]
    /\ purpose = "page" => Asks /\ k.page = page /\ (NeedsAPair(page) => k.pair = pair)
    /\ k.sticky = {pin \in pins : pin.sticky} /\ k.at = RequestTime
    /\ k.cache = ledgerCache /\ k.answer = {}

LEMMA Asking ==
    ASSUME Types, NEW purpose \in {"page", "hud"}, NEW nth \in {1, 2},
           purpose = "page" => Asks
    PROVE  Fresh(PageRequest(purpose, nth), purpose)
<1> DEFINE q == PageRequest(purpose, nth)
           thePage == IF purpose = "page" THEN page ELSE "Monitor"
           thePair == IF purpose = "page" /\ NeedsAPair(page) THEN pair ELSE NoPair
           isPage == purpose = "page"
<1>1. thePage \in Pages \ {"Settings"} /\ thePair \in Pairs \cup {NoPair} /\ isPage \in BOOLEAN
  BY DEF Types, QuestionTyped, Asks, ReadsTheStore, Pages
<1>2. game \in Games /\ leagues[game] \in Leagues /\ RequestTime \in Nat
  BY DEF Types, QuestionTyped, ClockTyped, RequestTime
<1>3. {pin \in pins : pin.sticky} \subseteq Pins /\ ledgerCache \subseteq Ledgers
  BY DEF Types, ClockTyped, AnswersTyped
<1>4. q = [purpose |-> purpose, nth |-> nth, current |-> isPage, page |-> thePage,
           pair |-> thePair, game |-> game, league |-> leagues[game],
           sticky |-> {pin \in pins : pin.sticky}, at |-> RequestTime, cache |-> ledgerCache,
           answer |-> {}]
  BY DEF PageRequest
<1>5. purpose = "page" => thePage = page /\ (NeedsAPair(page) => thePair = pair)
  OBVIOUS
<1> HIDE DEF q, thePage, thePair, isPage
<1>6. q \in Requests
  BY <1>1, <1>2, <1>3, <1>4 DEF Requests
<1>7. /\ q.purpose = purpose /\ q.current = isPage /\ q.game = game /\ q.league = leagues[game]
      /\ q.page = thePage /\ q.pair = thePair /\ q.sticky = {pin \in pins : pin.sticky}
      /\ q.at = RequestTime /\ q.cache = ledgerCache /\ q.answer = {}
  BY <1>4
<1>8. isPage = (purpose = "page")
  BY DEF isPage
<1>9. Fresh(q, purpose)
  BY <1>5, <1>6, <1>7, <1>8 DEF Fresh
<1> QED BY <1>9 DEF q

\* The requests after a step that builds none: old ones, and fresh ones.
Comes(k) ==
    \/ \E j \in jobs : Outdated(k, j)
    \/ \E purpose \in {"page", "hud"} : Fresh(k, purpose)

\* refresh_report outdates what is under way, and asks if the page has a question.
LEMMA Refreshing ==
    ASSUME Types
    PROVE  \A k \in RefreshedJobs : Comes(k) /\ (k.current => Fresh(k, "page"))
<1>1. ASSUME NEW k \in Superseded
      PROVE  Comes(k) /\ ~k.current
  <2>1. PICK j \in jobs : k = [j EXCEPT !.current = FALSE]
    BY <1>1 DEF Superseded
  <2>2. j \in Requests
    BY DEF Types, JobsTyped
  <2> QED BY <2>1, <2>2, Outdating DEF Comes
<1>2. ASSUME Asks
      PROVE  Fresh(PageRequest("page", 1), "page")
  BY <1>2, Asking
<1> QED BY <1>1, <1>2 DEF RefreshedJobs, Comes

LEMMA Keeping ==
    ASSUME Types, jobs' \subseteq jobs
    PROVE  \A k \in jobs' : Comes(k)
BY Staying DEF Types, JobsTyped, Comes

LEMMA TickComes ==
    ASSUME Types, Tick
    PROVE  /\ \A k \in jobs' : Comes(k)
           /\ stale => \A k \in jobs' : k.current => Fresh(k, "page")
           /\ ~stale => \A k \in jobs' : k.current => k \in jobs
<1> DEFINE base == IF stale THEN RefreshedJobs ELSE jobs
<1>1. \A k \in base : /\ Comes(k)
                      /\ stale => (k.current => Fresh(k, "page"))
                      /\ ~stale => k \in jobs
  <2>1. CASE stale
    BY <2>1, Refreshing
  <2>2. CASE ~stale
    BY <2>2, Staying DEF Types, JobsTyped, Comes
  <2> QED BY <2>1, <2>2
<1>2. ASSUME NEW n \in {1, 2}
      PROVE  Comes(PageRequest("hud", n)) /\ ~PageRequest("hud", n).current
  <2>1. Fresh(PageRequest("hud", n), "hud")
    BY Asking
  <2> QED BY <2>1 DEF Comes, Fresh
<1>3. \A k \in jobs' : k \in base \/ \E n \in {1, 2} : k = PageRequest("hud", n)
  BY DEF Tick
<1> HIDE DEF base
<1> QED BY <1>1, <1>2, <1>3

\* Every step but a build takes its requests from those under way or asks.
LEMMA StepComes ==
    ASSUME Types, Next, ~\E j \in jobs : Build(j)
    PROVE  \A k \in jobs' : Comes(k)
<1>1. CASE Tick
  BY <1>1, TickComes
<1>2. CASE RefreshClicked
  BY <1>2, Refreshing DEF RefreshClicked
<1>3. CASE \E j \in jobs : \E a \in j.answer : Land(j, a)
  BY <1>3, Keeping DEF Land
<1>4. CASE ToggleHud \/ Minute
  BY <1>4, Keeping DEF ToggleHud, Minute
<1>5. CASE \E p \in Pages : ShowPage(p)
  BY <1>5, Keeping DEF ShowPage
<1>6. CASE \E g \in Games : SetProfile(g)
  BY <1>6, Keeping DEF SetProfile
<1>7. CASE \E p \in Pairs : ChoosePair(p) \/ UnpinProbe(p) \/ \E sticky \in BOOLEAN : PinProbe(p, sticky)
  BY <1>7, Keeping DEF ChoosePair, UnpinProbe, PinProbe
<1>8. CASE \E g \in Games, p \in Pairs : Capture(g, p)
  BY <1>8, Keeping DEF Capture
<1>9. CASE \E l \in LeaguesOf[game] : PickLeague(l) \/ RoundStored(game, l)
  BY <1>9, Keeping DEF PickLeague, RoundStored
<1> QED BY <1>1, <1>2, <1>3, <1>4, <1>5, <1>6, <1>7, <1>8, <1>9 DEF Next

-----------------------------------------------------------------------------
(* An answer is built.                                                     *)

LEMMA HoldsTypes ==
    ASSUME Types, NEW g \in Games, NEW l \in Leagues
    PROVE  /\ Holds(g, l) \subseteq Ledgers
           /\ \A h \in Holds(g, l) : h.game = g /\ h.league = l /\ h.rows = hours[<<g, l>>]
                                     /\ h.rows.newest > 0
           /\ hours[<<g, l>>].newest > 0 =>
                Holds(g, l) = {[game |-> g, league |-> l, rows |-> hours[<<g, l>>]]}
<1> DEFINE row == hours[<<g, l>>]
           h == [game |-> g, league |-> l, rows |-> row]
<1>1. row \in Hours
  BY DEF Types, StoreTyped
<1>2. Holds(g, l) = IF row.newest > 0 THEN {h} ELSE {}
  BY DEF Holds
<1> HIDE DEF row
<1>3. h \in Ledgers /\ h.game = g /\ h.league = l /\ h.rows = row
  BY <1>1 DEF Ledgers
<1> HIDE DEF h
<1>4. /\ Holds(g, l) \subseteq Ledgers
      /\ \A x \in Holds(g, l) : x.game = g /\ x.league = l /\ x.rows = row /\ x.rows.newest > 0
      /\ row.newest > 0 => Holds(g, l) = {h}
  BY <1>2, <1>3
<1> QED BY <1>4 DEF row, h

LEMMA AnswerTypes ==
    ASSUME Types, NEW j \in Requests
    PROVE  /\ Answer(j) \in Answers
           /\ Answer(j).kind = Kind[j.page]
           /\ Answer(j).read = [game |-> j.game, books |-> books[j.game]]
           /\ j.page = "Monitor" => Answer(j).missing = Unanswered(j)
           /\ j.page = "Convert" => Answer(j).pair = j.pair
           /\ j.page = "Exchange" => /\ Answer(j).holds = Holds(j.game, j.league)
                                     /\ Answer(j).ledger = Ledger(j)
<1> DEFINE read == [game |-> j.game, books |-> books[j.game]]
<1>1. /\ j.page \in Pages \ {"Settings"} /\ j.pair \in Pairs \cup {NoPair} /\ j.game \in Games
      /\ j.league \in Leagues /\ j.sticky \subseteq Pins /\ j.cache \subseteq Ledgers
  BY DEF Requests
<1>2. read \in Reads
  BY <1>1 DEF Types, StoreTyped, Reads
<1>3. Unanswered(j) \subseteq Pairs
  BY <1>1 DEF Unanswered, Pins
<1>4. Holds(j.game, j.league) \subseteq Ledgers /\ Ledger(j) \subseteq Ledgers
  BY <1>1, HoldsTypes DEF Ledger
<1>5. Kind["Monitor"] = "probes" /\ Kind["Convert"] = "convert" /\ Kind["Exchange"] = "exchange"
  BY DEF Kind, Pages
<1> HIDE DEF read
<1>6. CASE j.page = "Monitor"
  <2> DEFINE a == [kind |-> "probes", read |-> read, missing |-> Unanswered(j)]
  <2>1. Answer(j) = a
    BY <1>6 DEF Answer, read
  <2>2. a \in Queues
    BY <1>2, <1>3 DEF Queues
  <2> QED BY <1>5, <1>6, <2>1, <2>2 DEF Answers, read
<1>7. CASE j.page = "Convert"
  <2> DEFINE a == [kind |-> "convert", read |-> read, pair |-> j.pair]
  <2>1. Answer(j) = a
    BY <1>7 DEF Answer, read
  <2>2. a \in Conversions
    BY <1>1, <1>2 DEF Conversions
  <2> QED BY <1>5, <1>7, <2>1, <2>2 DEF Answers, read
<1>8. CASE j.page = "Exchange"
  <2> DEFINE a == [kind |-> "exchange", read |-> read, holds |-> Holds(j.game, j.league),
                   ledger |-> Ledger(j)]
  <2>1. Answer(j) = a
    BY <1>8 DEF Answer, read
  <2>2. a \in Ledgerings
    BY <1>2, <1>4 DEF Ledgerings
  <2> QED BY <1>5, <1>8, <2>1, <2>2 DEF Answers, read
<1> QED BY <1>1, <1>6, <1>7, <1>8 DEF Pages

\* The request that is answered is the same but for its answer.
Built(k, j, a) ==
    /\ k \in Requests /\ k.purpose = j.purpose /\ k.current = j.current /\ k.page = j.page
    /\ k.pair = j.pair /\ k.game = j.game /\ k.league = j.league /\ k.sticky = j.sticky
    /\ k.at = j.at /\ k.cache = j.cache /\ k.answer = {a}

LEMMA Building ==
    ASSUME Types, NEW j \in jobs, Build(j)
    PROVE  \E a \in {Answer(j), Plain("failed")}, k \in Requests :
             /\ Built(k, j, a) /\ a \in Answers
             /\ jobs' = (jobs \ {j}) \union {k}
<1>1. PICK a \in {Answer(j), Plain("failed")} :
         jobs' = (jobs \ {j}) \union {[j EXCEPT !.answer = {a}]}
  BY DEF Build
<1>2. j \in Requests
  BY DEF Types, JobsTyped
<1>3. a \in Answers
  BY <1>2, AnswerTypes, WordTypes
<1> DEFINE k == [j EXCEPT !.answer = {a}]
<1>4. /\ k.purpose = j.purpose /\ k.current = j.current /\ k.page = j.page
      /\ k.pair = j.pair /\ k.game = j.game /\ k.league = j.league /\ k.sticky = j.sticky
      /\ k.at = j.at /\ k.cache = j.cache /\ k.answer = {a}
  BY <1>2 DEF Requests
<1>5. k \in Requests
  BY <1>2, <1>3 DEF Requests
<1>6. jobs' = (jobs \ {j}) \union {k}
  BY <1>1
<1> HIDE DEF k
<1> QED BY <1>3, <1>4, <1>5, <1>6 DEF Built

-----------------------------------------------------------------------------
(* Every step keeps the types.                                             *)

LEMMA InitTypes == Init => Types
<1> SUFFICES ASSUME Init PROVE Types
  OBVIOUS
<1>1. QuestionTyped
  BY SessionFields DEF Init, QuestionTyped, Leagues
<1>2. StoreTyped
  <2>1. [newest |-> 0, refilled |-> 0] \in Hours
    BY DEF Hours
  <2> QED BY <2>1 DEF Init, StoreTyped, Leagues
<1>3. ClockTyped
  BY DEF Init, ClockTyped
<1>4. AnswersTyped /\ JobsTyped
  BY WordTypes DEF Init, AnswersTyped, JobsTyped
<1> QED BY <1>1, <1>2, <1>3, <1>4 DEF Types

LEMMA JobsStep ==
    ASSUME Types, Next
    PROVE  JobsTyped'
<1>1. CASE \E j \in jobs : Build(j)
  BY <1>1, Building DEF Types, JobsTyped
<1>2. CASE ~\E j \in jobs : Build(j)
  <2>1. \A k \in jobs' : Comes(k)
    BY <1>2, StepComes
  <2> QED BY <2>1 DEF JobsTyped, Comes, Outdated, Fresh
<1> QED BY <1>1, <1>2

\* The newest book of those whose event waits exists: they are finitely late.
LEMMA NewestBook ==
    ASSUME Types, inbox # {}
    PROVE  (CHOOSE b \in inbox : \A c \in inbox : c.at <= b.at) \in inbox
<1> DEFINE Ages == {2 * clock - b.at : b \in inbox}
<1>1. \A b \in inbox : b.at \in Nat /\ b.at <= 2 * clock /\ 2 * clock \in Nat
  BY DEF Types, ClockTyped, Events
<1>2. Ages \subseteq Nat /\ Ages # {}
  BY <1>1
<1> HIDE DEF Ages
<1>3. IsWellFoundedOn(OpToRel(<, Nat), Nat)
  BY NatLessThanWellFounded
<1>4. PICK n \in Ages : \A m \in Ages : ~(<<m, n>> \in OpToRel(<, Nat))
  BY <1>2, <1>3, WFMin
<1>5. PICK b \in inbox : n = 2 * clock - b.at
  BY <1>4 DEF Ages
<1>6. ASSUME NEW c \in inbox PROVE c.at <= b.at
  <2>1. 2 * clock - c.at \in Ages /\ 2 * clock - c.at \in Nat /\ n \in Nat
    BY <1>1, <1>2 DEF Ages
  <2>2. ~(2 * clock - c.at < n)
    BY <1>4, <2>1 DEF OpToRel
  <2> QED BY <1>1, <1>5, <2>2
<1> QED BY <1>6

LEMMA Refreshed ==
    /\ ~ReadsTheStore(page) => RefreshedReport = Plain("empty")
    /\ ReadsTheStore(page) /\ ~Asks => RefreshedReport = Plain("waiting")
    /\ Asks => RefreshedReport = IF IsContent THEN report ELSE Plain("loading")
<1>1. Asks => ReadsTheStore(page)
  BY DEF Asks
<1> QED BY <1>1 DEF RefreshedReport

LEMMA RefreshedTypes ==
    ASSUME Types
    PROVE  RefreshedReport \in Answers
<1>1. Asks => ReadsTheStore(page)
  BY DEF Asks
<1> QED BY <1>1, Refreshed, WordTypes DEF Types, AnswersTyped

LEMMA TickTypes ==
    ASSUME Types, Tick
    PROVE  QuestionTyped' /\ StoreTyped' /\ ClockTyped' /\ AnswersTyped'
<1>1. QuestionTyped'
  <2>1. pair' \in Pairs \cup {NoPair}
    <3>1. CASE inbox = {} \/ chosen
      BY <3>1 DEF Tick, Types, QuestionTyped
    <3>2. CASE ~(inbox = {} \/ chosen)
      BY <3>2, NewestBook DEF Tick, Types, ClockTyped, Events
    <3> QED BY <3>1, <3>2
  <2> QED BY <2>1 DEF Types, QuestionTyped, Tick
<1>2. StoreTyped'
  BY DEF Types, StoreTyped, Tick, store
<1>3. ClockTyped'
  BY DEF Types, ClockTyped, Tick
<1>4. AnswersTyped'
  <2>1. report' \in Answers
    BY RefreshedTypes DEF Types, AnswersTyped, Tick
  <2>2. stale' \in BOOLEAN
    BY DEF Tick
  <2> QED BY <2>1, <2>2 DEF Types, AnswersTyped, Tick
<1> QED BY <1>1, <1>2, <1>3, <1>4

LEMMA LandTypes ==
    ASSUME Types, NEW j \in jobs, NEW a \in j.answer, Land(j, a)
    PROVE  QuestionTyped' /\ StoreTyped' /\ ClockTyped' /\ AnswersTyped'
<1>1. a \in Answers
  BY DEF Types, JobsTyped, Requests
<1>2. QuestionTyped' /\ StoreTyped'
  BY DEF Types, QuestionTyped, StoreTyped, Land, asked, store
<1>3. pins' \subseteq pins
  BY DEF Land, Retained
<1>4. ClockTyped'
  BY <1>3 DEF Types, ClockTyped, Land
<1>5. AnswersTyped'
  <2>1. report' \in Answers /\ stale' \in BOOLEAN
    BY <1>1 DEF Types, AnswersTyped, Land
  <2>2. hud' \in [shows : BOOLEAN, queue : SUBSET Answers]
    <3>1. hud' = hud \/ hud' = [hud EXCEPT !.queue = {a}]
      BY DEF Land
    <3>2. [hud EXCEPT !.queue = {a}] \in [shows : BOOLEAN, queue : SUBSET Answers]
      BY <1>1 DEF Types, AnswersTyped
    <3> QED BY <3>1, <3>2 DEF Types, AnswersTyped
  <2>3. ledgerCache' \subseteq Ledgers
    BY <1>1, AnswerKinds DEF Types, AnswersTyped, Land, Ledgerings
  <2> QED BY <2>1, <2>2, <2>3 DEF AnswersTyped
<1> QED BY <1>2, <1>4, <1>5

LEMMA UserTypes ==
    ASSUME Types,
           \/ ToggleHud
           \/ \E p \in Pages : ShowPage(p)
           \/ \E g \in Games : SetProfile(g)
           \/ \E p \in Pairs : ChoosePair(p) \/ UnpinProbe(p) \/ \E sticky \in BOOLEAN : PinProbe(p, sticky)
           \/ \E l \in LeaguesOf[game] : PickLeague(l)
    PROVE  QuestionTyped' /\ StoreTyped' /\ ClockTyped' /\ AnswersTyped'
<1>1. CASE ToggleHud
  <2>1. [hud EXCEPT !.shows = ~@] \in [shows : BOOLEAN, queue : SUBSET Answers]
    BY DEF Types, AnswersTyped
  <2> QED BY <1>1, <2>1 DEF ToggleHud, Types, QuestionTyped, StoreTyped, ClockTyped, AnswersTyped, asked, store
<1>2. CASE \E p \in Pages : ShowPage(p)
  BY <1>2 DEF ShowPage, Types, QuestionTyped, StoreTyped, ClockTyped, AnswersTyped, store
<1>3. CASE \E g \in Games : SetProfile(g)
  BY <1>3 DEF SetProfile, Types, QuestionTyped, StoreTyped, ClockTyped, AnswersTyped, store
<1>4. ASSUME NEW p \in Pairs, ChoosePair(p)
      PROVE  QuestionTyped' /\ StoreTyped' /\ ClockTyped' /\ AnswersTyped'
  <2>1. stale' \in BOOLEAN
    BY <1>4 DEF ChoosePair
  <2> QED BY <1>4, <2>1 DEF ChoosePair, Types, QuestionTyped, StoreTyped, ClockTyped, AnswersTyped, store
<1>5. ASSUME NEW p \in Pairs, UnpinProbe(p)
      PROVE  QuestionTyped' /\ StoreTyped' /\ ClockTyped' /\ AnswersTyped'
  BY <1>5 DEF UnpinProbe, Types, QuestionTyped, StoreTyped, ClockTyped, AnswersTyped, asked, store
<1>6. ASSUME NEW p \in Pairs, NEW sticky \in BOOLEAN, PinProbe(p, sticky)
      PROVE  QuestionTyped' /\ StoreTyped' /\ ClockTyped' /\ AnswersTyped'
  <2> DEFINE new == [pair |-> p, sticky |-> sticky, at |-> EventTime, game |-> game]
  <2>1. new \in Pins /\ new.at = 2 * clock + 2 /\ clock \in Nat /\ clock' = clock + 1
    BY <1>6 DEF PinProbe, Event, EventTime, Pins, Types, ClockTyped, QuestionTyped
  <2>2. \A pin \in pins' : pin \in pins \/ pin = new
    BY <1>6 DEF PinProbe
  <2> HIDE DEF new
  <2>3. \A pin \in pins' : pin \in Pins /\ pin.at <= 2 * clock'
    <3>1. \A pin \in pins : pin \in Pins /\ pin.at \in Nat /\ pin.at <= 2 * clock
      BY DEF Types, ClockTyped, Pins
    <3> QED BY <2>1, <2>2, <3>1
  <2>4. ClockTyped'
    <3>1. \A b \in inbox : b.at \in Nat /\ b.at <= 2 * clock
      BY DEF Types, ClockTyped, Events
    <3>2. \A b \in inbox : b.at <= 2 * clock'
      BY <2>1, <3>1
    <3>3. clock' \in Nat /\ pins' \subseteq Pins /\ inbox' = inbox /\ inbox \subseteq Events
      BY <1>6, <2>1, <2>3 DEF PinProbe, Types, ClockTyped
    <3> QED BY <2>3, <3>2, <3>3 DEF ClockTyped
  <2> QED BY <1>6, <2>4 DEF PinProbe, Types, QuestionTyped, StoreTyped, AnswersTyped, asked, store
<1>7. CASE \E l \in LeaguesOf[game] : PickLeague(l)
  BY <1>7 DEF PickLeague, Types, QuestionTyped, StoreTyped, ClockTyped, AnswersTyped, store, Leagues
<1> QED BY <1>1, <1>2, <1>3, <1>4, <1>5, <1>6, <1>7

LEMMA WatchTypes ==
    ASSUME Types,
           \/ RefreshClicked \/ Minute
           \/ \E g \in Games, p \in Pairs : Capture(g, p)
           \/ \E l \in LeaguesOf[game] : RoundStored(game, l)
    PROVE  QuestionTyped' /\ StoreTyped' /\ ClockTyped' /\ AnswersTyped'
<1>1. CASE RefreshClicked
  BY <1>1, RefreshedTypes
     DEF RefreshClicked, Types, QuestionTyped, StoreTyped, ClockTyped, AnswersTyped, asked, store
<1>2. CASE Minute
  BY <1>2 DEF Minute, Types, QuestionTyped, StoreTyped, ClockTyped, AnswersTyped, asked, store
<1>3. ASSUME NEW g \in Games, NEW p \in Pairs, Capture(g, p)
      PROVE  QuestionTyped' /\ StoreTyped' /\ ClockTyped' /\ AnswersTyped'
  <2> DEFINE new == [game |-> g, pair |-> p, at |-> EventTime]
  <2>1. /\ new \in Events /\ new.at = 2 * clock + 2 /\ clock \in Nat /\ clock' = clock + 1
        /\ EventTime \in Nat
    BY <1>3 DEF Capture, Event, EventTime, Events, Types, ClockTyped
  <2>2. \A b \in inbox' : b \in inbox \/ b = new
    BY <1>3 DEF Capture
  <2> HIDE DEF new
  <2>3. \A b \in inbox' : b \in Events /\ b.at <= 2 * clock'
    <3>1. \A b \in inbox : b \in Events /\ b.at \in Nat /\ b.at <= 2 * clock
      BY DEF Types, ClockTyped, Events
    <3> QED BY <2>1, <2>2, <3>1
  <2>4. ClockTyped'
    <3>1. \A pin \in pins : pin.at \in Nat /\ pin.at <= 2 * clock
      BY DEF Types, ClockTyped, Pins
    <3>2. \A pin \in pins : pin.at <= 2 * clock'
      BY <2>1, <3>1
    <3>3. clock' \in Nat /\ inbox' \subseteq Events /\ pins' = pins /\ pins \subseteq Pins
      BY <1>3, <2>1, <2>3 DEF Capture, Types, ClockTyped
    <3> QED BY <2>3, <3>2, <3>3 DEF ClockTyped
  <2>5. StoreTyped'
    <3>1. books \in [Games -> [Pairs -> Nat]] /\ books' = [books EXCEPT ![g][p] = EventTime]
      BY <1>3 DEF Capture, Types, StoreTyped
    <3>2. [books[g] EXCEPT ![p] = EventTime] \in [Pairs -> Nat]
      BY <1>3, <2>1, <3>1
    <3>3. books' \in [Games -> [Pairs -> Nat]]
      BY <3>1, <3>2
    <3> QED BY <1>3, <3>3 DEF Capture, Types, StoreTyped
  <2> QED BY <1>3, <2>4, <2>5 DEF Capture, Types, QuestionTyped, AnswersTyped, asked
<1>4. ASSUME NEW l \in LeaguesOf[game], RoundStored(game, l)
      PROVE  QuestionTyped' /\ StoreTyped' /\ ClockTyped' /\ AnswersTyped'
  <2>1. PICK how \in {"newest", "refilled"} : hours' = [hours EXCEPT ![<<game, l>>][how] = @ + 1]
    BY <1>4 DEF RoundStored
  <2>2. <<game, l>> \in Games \X Leagues
    BY DEF Types, QuestionTyped, Leagues
  <2>3. hours[<<game, l>>] \in Hours
    BY <2>2 DEF Types, StoreTyped
  <2>4. [hours[<<game, l>>] EXCEPT ![how] = @ + 1] \in Hours
    BY <2>3 DEF Hours
  <2>5. StoreTyped'
    BY <1>4, <2>1, <2>2, <2>4 DEF RoundStored, Types, StoreTyped
  <2>6. clock \in Nat /\ clock' = clock + 1
    BY <1>4 DEF RoundStored, Event, Types, ClockTyped
  <2>7. ClockTyped'
    <3>1. \A pin \in pins : pin.at \in Nat /\ pin.at <= 2 * clock
      BY DEF Types, ClockTyped, Pins
    <3>2. \A b \in inbox : b.at \in Nat /\ b.at <= 2 * clock
      BY DEF Types, ClockTyped, Events
    <3>3. clock' \in Nat /\ \A n \in Nat : n <= 2 * clock => n <= 2 * clock'
      BY <2>6
    <3>4. pins' = pins /\ inbox' = inbox
      BY <1>4 DEF RoundStored
    <3> QED BY <3>1, <3>2, <3>3, <3>4 DEF Types, ClockTyped
  <2> QED BY <1>4, <2>5, <2>7 DEF RoundStored, Types, QuestionTyped, AnswersTyped, asked
<1> QED BY <1>1, <1>2, <1>3, <1>4

LEMMA BuildTypes ==
    ASSUME Types, NEW j \in jobs, Build(j)
    PROVE  QuestionTyped' /\ StoreTyped' /\ ClockTyped' /\ AnswersTyped'
BY DEF Build, Types, QuestionTyped, StoreTyped, ClockTyped, AnswersTyped, asked, store

LEMMA TypesStep ==
    ASSUME Types, [Next]_vars
    PROVE  Types'
<1>1. CASE UNCHANGED vars
  BY <1>1 DEF Types, QuestionTyped, StoreTyped, ClockTyped, AnswersTyped, JobsTyped,
              vars, asked, store
<1>2. CASE Next
  <2>1. JobsTyped'
    BY <1>2, JobsStep
  <2>2. QuestionTyped' /\ StoreTyped' /\ ClockTyped' /\ AnswersTyped'
    BY <1>2, TickTypes, LandTypes, UserTypes, WatchTypes, BuildTypes DEF Next
  <2> QED BY <2>1, <2>2 DEF Types
<1> QED BY <1>1, <1>2

-----------------------------------------------------------------------------
(* Pins: what an answer closes was captured.                               *)

\* Books are dated in the past, and an event is only ever late.
Dated == \A g \in Games, p \in Pairs : heard[g][p] <= books[g][p] /\ books[g][p] <= 2 * clock

\* A request knows the sticky pins that are older than it, and its queue leaves
\* out only those it found captured.
Remembers(j) ==
    /\ j.at <= RequestTime
    /\ \A pin \in pins : pin.sticky /\ pin.at < j.at => pin \in j.sticky
    /\ \A a \in j.answer : a.kind = "probes" =>
         \A pin \in j.sticky : pin.pair \notin a.missing => books[j.game][pin.pair] >= pin.at

Remembered == \A j \in jobs : Remembers(j)

LEMMA Numbers ==
    ASSUME Types
    PROVE  /\ clock \in Nat
           /\ \A g \in Games, p \in Pairs : books[g][p] \in Nat /\ heard[g][p] \in Nat
           /\ \A pin \in pins : pin \in Pins /\ pin.at \in Nat /\ pin.pair \in Pairs
                                /\ pin.sticky \in BOOLEAN
           /\ \A j \in jobs : /\ j \in Requests /\ j.at \in Nat /\ j.game \in Games
                              /\ j.answer \subseteq Answers
                              /\ \A pin \in j.sticky : pin.at \in Nat /\ pin.pair \in Pairs
BY DEF Types, ClockTyped, StoreTyped, JobsTyped, Requests, Pins

LEMMA BooksGrow ==
    ASSUME Types, Types', Dated, Next
    PROVE  /\ Dated' /\ clock <= clock'
           /\ \A g \in Games, p \in Pairs : books[g][p] <= books'[g][p]
<1>1. CASE books' = books /\ heard' = heard /\ clock' \in {clock, clock + 1}
  <2>1. clock' \in Nat /\ clock <= clock' /\ 2 * clock <= 2 * clock'
    BY <1>1, Numbers
  <2>2. Dated'
    <3>1. ASSUME NEW g \in Games, NEW p \in Pairs
          PROVE  heard'[g][p] <= books'[g][p] /\ books'[g][p] <= 2 * clock'
      <4>1. /\ heard[g][p] <= books[g][p] /\ books[g][p] <= 2 * clock
            /\ books[g][p] \in Nat /\ clock \in Nat
        BY Numbers DEF Dated
      <4> QED BY <1>1, <2>1, <4>1
    <3> QED BY <3>1 DEF Dated
  <2> QED BY <1>1, <2>1, <2>2, Numbers
<1>2. CASE Tick
  <2>1. books' = books /\ clock' = clock
    BY <1>2 DEF Tick, store
  <2>2. ASSUME NEW g \in Games, NEW p \in Pairs
        PROVE  heard'[g][p] = books[g][p] \/ heard'[g][p] = heard[g][p]
    BY <1>2 DEF Tick
  <2>3. Dated'
    <3>1. ASSUME NEW g \in Games, NEW p \in Pairs
          PROVE  heard'[g][p] <= books'[g][p] /\ books'[g][p] <= 2 * clock'
      <4>1. heard[g][p] <= books[g][p] /\ books[g][p] <= 2 * clock /\ books[g][p] \in Nat
        BY Numbers DEF Dated
      <4> QED BY <2>1, <2>2, <4>1
    <3> QED BY <3>1 DEF Dated
  <2> QED BY <2>1, <2>3, Numbers
<1>3. ASSUME NEW h \in Games, NEW q \in Pairs, Capture(h, q)
      PROVE  /\ Dated' /\ clock <= clock'
             /\ \A g \in Games, p \in Pairs : books[g][p] <= books'[g][p]
  <2>1. /\ books' = [books EXCEPT ![h][q] = EventTime] /\ heard' = heard
        /\ clock' = clock + 1 /\ EventTime = 2 * clock + 2 /\ clock \in Nat
    BY <1>3, Numbers DEF Capture, Event, EventTime
  <2>2. ASSUME NEW g \in Games, NEW p \in Pairs
        PROVE  /\ heard'[g][p] <= books'[g][p] /\ books'[g][p] <= 2 * clock'
               /\ books[g][p] <= books'[g][p]
    <3>1. /\ books[g][p] \in Nat /\ heard[g][p] \in Nat
          /\ heard[g][p] <= books[g][p] /\ books[g][p] <= 2 * clock
      BY Numbers DEF Dated
    <3>2. books'[g][p] = books[g][p] \/ books'[g][p] = EventTime
      BY <2>1 DEF Types, StoreTyped
    <3> QED BY <2>1, <3>1, <3>2
  <2>3. clock <= clock'
    BY <2>1
  <2> QED BY <2>2, <2>3 DEF Dated
<1>4. CASE \E j \in jobs : Build(j) \/ \E a \in j.answer : Land(j, a)
  BY <1>1, <1>4 DEF Build, Land, store
<1>5. CASE ToggleHud \/ Minute \/ RefreshClicked
  BY <1>1, <1>5 DEF ToggleHud, Minute, RefreshClicked, store
<1>6. CASE \E p \in Pages : ShowPage(p)
  BY <1>1, <1>6 DEF ShowPage, store
<1>7. CASE \E g \in Games : SetProfile(g)
  BY <1>1, <1>7 DEF SetProfile, store
<1>8. CASE \E p \in Pairs : ChoosePair(p) \/ UnpinProbe(p) \/ \E sticky \in BOOLEAN : PinProbe(p, sticky)
  BY <1>1, <1>8 DEF ChoosePair, UnpinProbe, PinProbe, Event, store
<1>9. CASE \E l \in LeaguesOf[game] : PickLeague(l) \/ RoundStored(game, l)
  BY <1>1, <1>9 DEF PickLeague, RoundStored, Event, store
<1> QED BY <1>2, <1>3, <1>4, <1>5, <1>6, <1>7, <1>8, <1>9 DEF Next

LEMMA PinsCome ==
    ASSUME Types, Next
    PROVE  \A pin \in pins' : pin \in pins \/ pin.at = 2 * clock + 2
<1>1. CASE \E j \in jobs : Build(j) \/ \E a \in j.answer : Land(j, a)
  BY <1>1 DEF Build, Land, Retained
<1>2. CASE ToggleHud \/ Minute \/ RefreshClicked \/ Tick
  BY <1>2 DEF ToggleHud, Minute, RefreshClicked, Tick
<1>3. CASE \E p \in Pages : ShowPage(p)
  BY <1>3 DEF ShowPage
<1>4. CASE \E g \in Games : SetProfile(g)
  BY <1>4 DEF SetProfile
<1>5. CASE \E p \in Pairs : ChoosePair(p) \/ UnpinProbe(p) \/ \E sticky \in BOOLEAN : PinProbe(p, sticky)
  BY <1>5 DEF ChoosePair, UnpinProbe, PinProbe, EventTime
<1>6. CASE \E g \in Games, p \in Pairs : Capture(g, p)
  BY <1>6 DEF Capture
<1>7. CASE \E l \in LeaguesOf[game] : PickLeague(l) \/ RoundStored(game, l)
  BY <1>7 DEF PickLeague, RoundStored
<1> QED BY <1>1, <1>2, <1>3, <1>4, <1>5, <1>6, <1>7 DEF Next

\* The queue of a request leaves out exactly the sticky pins captured since.
LEMMA UnansweredPins ==
    ASSUME Types, NEW j \in jobs, NEW a \in {Answer(j), Plain("failed")}, a.kind = "probes"
    PROVE  \A pin \in j.sticky : pin.pair \notin a.missing => books[j.game][pin.pair] >= pin.at
<1>1. j \in Requests /\ j.page \in Pages \ {"Settings"}
  BY Numbers DEF Requests
<1>2. a = Answer(j)
  BY WordTypes
<1>3. Kind[j.page] = "probes" => j.page = "Monitor"
  BY <1>1 DEF Kind, Pages
<1>4. a.missing = Unanswered(j)
  BY <1>1, <1>2, <1>3, AnswerTypes
<1>5. ASSUME NEW pin \in j.sticky, pin.pair \notin a.missing
      PROVE  books[j.game][pin.pair] >= pin.at
  <2>1. ~(books[j.game][pin.pair] < pin.at)
    BY <1>4, <1>5 DEF Unanswered
  <2>2. books[j.game][pin.pair] \in Nat /\ pin.at \in Nat
    BY Numbers
  <2> QED BY <2>1, <2>2
<1> QED BY <1>5

LEMMA RememberedStep ==
    ASSUME Types, Types', Dated, Remembered, Next
    PROVE  Remembered'
<1> SUFFICES ASSUME NEW k \in jobs' PROVE Remembers(k)'
  BY DEF Remembered
<1>1. /\ clock <= clock' /\ clock \in Nat /\ clock' \in Nat
      /\ RequestTime = 2 * clock + 1 /\ RequestTime' = 2 * clock' + 1
      /\ \A g \in Games, p \in Pairs : /\ books[g][p] <= books'[g][p]
                                       /\ books[g][p] \in Nat /\ books'[g][p] \in Nat
  BY BooksGrow, Numbers DEF RequestTime, Types, StoreTyped, ClockTyped
\* What is said of pins and answers is kept for a request that knows as much.
<1>2. ASSUME NEW j \in jobs, k.at = j.at, k.game = j.game, k.sticky = j.sticky
      PROVE  /\ k.at <= RequestTime'
             /\ \A pin \in pins' : pin.sticky /\ pin.at < k.at => pin \in k.sticky
             /\ \A a \in j.answer : a.kind = "probes" =>
                  \A pin \in k.sticky : pin.pair \notin a.missing =>
                    books'[k.game][pin.pair] >= pin.at
  <2>1. Remembers(j) /\ j.at \in Nat /\ j.game \in Games
    BY Numbers DEF Remembered
  <2>2. j.at <= RequestTime
    BY <2>1 DEF Remembers
  <2>3. k.at <= RequestTime'
    BY <1>1, <1>2, <2>1, <2>2
  <2>4. ASSUME NEW pin \in pins', pin.sticky, pin.at < k.at PROVE pin \in k.sticky
    <3>1. pin.at # 2 * clock + 2
      BY <1>1, <1>2, <2>1, <2>2, <2>4
    <3> QED BY <1>2, <2>1, <2>4, <3>1, PinsCome DEF Remembers
  <2>5. ASSUME NEW a \in j.answer, a.kind = "probes", NEW pin \in k.sticky, pin.pair \notin a.missing
        PROVE  books'[k.game][pin.pair] >= pin.at
    <3>1. books[j.game][pin.pair] >= pin.at
      BY <1>2, <2>1, <2>5 DEF Remembers
    <3>2. pin.at \in Nat /\ pin.pair \in Pairs
      BY <1>2, <2>5, Numbers
    <3>3. books[j.game][pin.pair] <= books'[j.game][pin.pair]
          /\ books[j.game][pin.pair] \in Nat /\ books'[j.game][pin.pair] \in Nat
      BY <1>1, <2>1, <3>2
    <3> QED BY <1>2, <3>1, <3>2, <3>3
  <2> QED BY <2>3, <2>4, <2>5
<1>3. CASE \E j \in jobs : Build(j)
  <2>1. PICK j \in jobs : Build(j)
    BY <1>3
  <2>2. PICK a \in {Answer(j), Plain("failed")}, b \in Requests :
           Built(b, j, a) /\ jobs' = (jobs \ {j}) \union {b}
    BY <2>1, Building
  <2>3. CASE k \in jobs
    BY <1>2, <2>3 DEF Remembers
  <2>4. CASE k = b
    <3>1. k.at = j.at /\ k.game = j.game /\ k.sticky = j.sticky /\ k.answer = {a}
      BY <2>2, <2>4 DEF Built
    <3>2. books' = books
      BY <2>1 DEF Build, store
    <3>3. a.kind = "probes" =>
            \A pin \in k.sticky : pin.pair \notin a.missing => books'[k.game][pin.pair] >= pin.at
      BY <3>1, <3>2, UnansweredPins
    <3> QED BY <1>2, <3>1, <3>3 DEF Remembers
  <2> QED BY <2>2, <2>3, <2>4
<1>4. CASE ~\E j \in jobs : Build(j)
  <2>1. Comes(k)
    BY <1>4, StepComes
  <2>2. ASSUME NEW j \in jobs, Outdated(k, j) PROVE Remembers(k)'
    BY <1>2, <2>2 DEF Outdated, Remembers
  <2>3. ASSUME NEW purpose \in {"page", "hud"}, Fresh(k, purpose) PROVE Remembers(k)'
    <3>1. k.at = RequestTime /\ k.sticky = {pin \in pins : pin.sticky} /\ k.answer = {}
      BY <2>3 DEF Fresh
    <3>2. k.at <= RequestTime'
      <4>1. \A c, d \in Nat : c <= d => 2 * c + 1 <= 2 * d + 1
        OBVIOUS
      <4>2. 2 * clock + 1 <= 2 * clock' + 1
        BY <1>1, <4>1
      <4>3. k.at = 2 * clock + 1 /\ RequestTime' = 2 * clock' + 1
        BY <1>1, <3>1
      <4> QED BY <4>2, <4>3
    <3>3. \A pin \in pins' : pin.sticky /\ pin.at < k.at => pin \in k.sticky
      BY <1>1, <3>1, PinsCome
    <3> QED BY <3>1, <3>2, <3>3 DEF Remembers
  <2> QED BY <2>1, <2>2, <2>3 DEF Comes
<1> QED BY <1>3, <1>4

LEMMA PinsStep ==
    ASSUME Types, Remembered, Next, jobs' # jobs,
           NEW pin \in pins \ pins', pin.sticky
    PROVE  \E g \in Games : books[g][pin.pair] >= pin.at
<1>1. ASSUME NEW j \in jobs, NEW a \in j.answer, Land(j, a)
      PROVE  \E g \in Games : books[g][pin.pair] >= pin.at
  <2>1. a.kind = "probes" /\ pin \notin Retained(a.missing, j.at)
    BY <1>1 DEF Land
  <2>2. pin.at < j.at /\ pin.pair \notin a.missing
    BY <2>1, Numbers DEF Retained
  <2>3. pin \in j.sticky
    BY <2>2 DEF Remembered, Remembers
  <2>4. books[j.game][pin.pair] >= pin.at
    BY <2>1, <2>2, <2>3 DEF Remembered, Remembers
  <2> QED BY <2>4, Numbers
<1>2. ~(Tick \/ RefreshClicked \/ ToggleHud \/ Minute)
  BY DEF Tick, RefreshClicked, ToggleHud, Minute
<1>3. ~\E j \in jobs : Build(j)
  BY DEF Build
<1>4. ~\E p \in Pages : ShowPage(p)
  BY DEF ShowPage
<1>5. ~\E g \in Games : SetProfile(g)
  BY DEF SetProfile
<1>6. ~\E p \in Pairs : ChoosePair(p) \/ UnpinProbe(p) \/ \E sticky \in BOOLEAN : PinProbe(p, sticky)
  BY DEF ChoosePair, UnpinProbe, PinProbe
<1>7. ~\E g \in Games, p \in Pairs : Capture(g, p)
  BY DEF Capture
<1>8. ~\E l \in LeaguesOf[game] : PickLeague(l) \/ RoundStored(game, l)
  BY DEF PickLeague, RoundStored
<1> QED BY <1>1, <1>2, <1>3, <1>4, <1>5, <1>6, <1>7, <1>8 DEF Next

-----------------------------------------------------------------------------
(* The page at rest answers the question.                                  *)

\* An answer that says something says it of this page, game and pair, and of every
\* book whose event was drained.
Suits(a) ==
    a.kind # "failed" =>
      /\ a.kind = Kind[page]
      /\ page = "Convert" => a.pair = pair
      /\ a.read.game = game
      /\ \A p \in Pairs : a.read.books[p] >= heard[game][p]

\* A request under way asks what the user asks now.
Facing(j) ==
    /\ Asks /\ j.page = page /\ j.game = game
    /\ page = "Convert" => j.pair = pair
    /\ \A a \in j.answer : Suits(a)

Answered ==
    /\ ~ReadsTheStore(page) => report.kind = "empty"
    /\ ReadsTheStore(page) /\ ~Asks => report.kind = "waiting"
    /\ Asks => Suits(report)

\* As long as the page is not stale, whatever is accepted answers its question, and
\* when nothing is awaited any more the page already does.
Current ==
    ~stale =>
      /\ \A j \in jobs : Accepted(j) => Facing(j)
      /\ ~Awaited => Answered

LEMMA CurrentSuffices ==
    ASSUME Current
    PROVE  SettledPageAnswersTheQuestion
<1>1. Asks => ReadsTheStore(page)
  BY DEF Asks
<1>2. Settled => Answered
  BY DEF Settled, Current
<1> QED BY <1>1, <1>2 DEF SettledPageAnswersTheQuestion, Answered, Suits

LEMMA Unmoved ==
    ASSUME Current, UNCHANGED <<stale, jobs, page, game, pair, report, heard>>
    PROVE  Current'
BY DEF Current, Accepted, Facing, Awaited, Answered, Suits, Asks, ReadsTheStore, NeedsAPair

LEMMA RefreshCurrent ==
    ASSUME Types, UNCHANGED <<page, game, pair>>,
           report' = RefreshedReport,
           \A k \in jobs' : k.current => Fresh(k, "page"),
           Asks => PageRequest("page", 1) \in jobs'
    PROVE  Current'
<1>1. ASSUME NEW k \in jobs', k.current PROVE Facing(k)'
  <2>1. /\ k.game = game /\ Asks /\ k.page = page /\ (NeedsAPair(page) => k.pair = pair)
        /\ k.answer = {}
    BY <1>1 DEF Fresh
  <2> QED BY <2>1 DEF Facing, Asks, ReadsTheStore, NeedsAPair
<1>2. Asks => \E k \in jobs' : k.purpose = "page" /\ k.current
  <2>1. ASSUME Asks PROVE PageRequest("page", 1).purpose = "page" /\ PageRequest("page", 1).current
    BY <2>1, Asking DEF Fresh
  <2> QED BY <2>1
<1>3. ~Asks => Answered'
  <2>1. Plain("empty").kind = "empty" /\ Plain("waiting").kind = "waiting"
    BY WordTypes
  <2> QED BY <2>1, Refreshed DEF Answered, Asks, ReadsTheStore, NeedsAPair
<1> QED BY <1>1, <1>2, <1>3 DEF Current, Accepted, Awaited

LEMMA BuildCurrent ==
    ASSUME Types, Dated, Current, NEW j \in jobs, Build(j)
    PROVE  Current'
<1> SUFFICES ASSUME ~stale PROVE Current'
  BY DEF Build, Current
<1>1. UNCHANGED <<stale, page, game, pair, report, heard>>
  BY DEF Build, asked
<1>2. PICK a \in {Answer(j), Plain("failed")}, b \in Requests :
         /\ Built(b, j, a) /\ a \in Answers
         /\ jobs' = (jobs \ {j}) \union {b}
  BY Building
<1>3. ASSUME NEW k \in jobs', Accepted(k) PROVE Facing(k)'
  <2>1. CASE k \in jobs
    BY <1>1, <1>3, <2>1 DEF Current, Facing, Suits, Asks, ReadsTheStore, NeedsAPair
  <2>2. CASE k = b
    <3>1. /\ k.page = j.page /\ k.game = j.game /\ k.pair = j.pair /\ k.answer = {a}
          /\ Accepted(j) /\ j \in Requests
      BY <1>2, <1>3, <2>2, Numbers DEF Built, Accepted
    <3>2. Facing(j)
      BY <3>1 DEF Current
    <3>3. Suits(a)
      <4>1. CASE a.kind = "failed"
        BY <4>1 DEF Suits
      <4>2. CASE a.kind # "failed"
        <5>1. a = Answer(j)
          BY <1>2, <4>2, WordTypes
        <5>2. /\ a.kind = Kind[page] /\ a.read = [game |-> game, books |-> books[game]]
              /\ page = "Convert" => a.pair = pair
          BY <3>1, <3>2, <5>1, AnswerTypes DEF Facing
        <5>3. \A p \in Pairs : books[game][p] >= heard[game][p]
          <6>1. \A p \in Pairs : /\ books[game][p] \in Nat /\ heard[game][p] \in Nat
                                 /\ heard[game][p] <= books[game][p]
            BY Numbers DEF Dated, Types, QuestionTyped
          <6> QED BY <6>1
        <5> QED BY <5>2, <5>3 DEF Suits
      <4> QED BY <4>1, <4>2
    <3> QED BY <1>1, <3>1, <3>2, <3>3 DEF Facing, Suits, Asks, ReadsTheStore, NeedsAPair
  <2> QED BY <1>2, <2>1, <2>2
<1>4. Awaited => Awaited'
  <2>1. ASSUME NEW i \in jobs, i.purpose = "page", i.current
        PROVE  \E k \in jobs' : k.purpose = "page" /\ k.current
    <3>1. CASE i = j
      BY <1>2, <2>1, <3>1 DEF Built
    <3>2. CASE i # j
      BY <1>2, <2>1, <3>2
    <3> QED BY <3>1, <3>2
  <2> QED BY <2>1 DEF Awaited
<1>5. ~Awaited => Answered'
  BY <1>1 DEF Current, Answered, Suits, Asks, ReadsTheStore, NeedsAPair
<1>6. ASSUME NEW k \in jobs' PROVE Accepted(k)' = Accepted(k)
  BY DEF Accepted
<1> QED BY <1>3, <1>4, <1>5, <1>6 DEF Current

LEMMA LandCurrent ==
    ASSUME Types, Current, NEW j \in jobs, NEW a \in j.answer, Land(j, a)
    PROVE  Current'
<1> SUFFICES ASSUME ~stale PROVE Current'
  BY DEF Land, Current
<1>1. UNCHANGED <<stale, page, game, pair, heard>> /\ jobs' = jobs \ {j}
  BY DEF Land, asked
<1>2. \A k \in jobs' : Accepted(k) => Facing(k)'
  BY <1>1 DEF Current, Facing, Suits, Asks, ReadsTheStore, NeedsAPair
<1>3. ASSUME ~Awaited' PROVE Answered'
  <2>1. CASE Accepted(j)
    <3>1. report' = a /\ Asks /\ Suits(a)
      BY <2>1 DEF Land, Current, Facing
    <3> QED BY <1>1, <3>1 DEF Answered, Suits, Asks, ReadsTheStore, NeedsAPair
  <2>2. CASE ~Accepted(j)
    <3>1. report' = report /\ ~Awaited
      BY <1>1, <1>3, <2>2 DEF Land, Awaited, Accepted
    <3> QED BY <1>1, <3>1 DEF Current, Answered, Suits, Asks, ReadsTheStore, NeedsAPair
  <2> QED BY <2>1, <2>2
<1> QED BY <1>2, <1>3 DEF Current, Accepted

LEMMA CurrentStep ==
    ASSUME Types, Dated, Current, Next
    PROVE  Current'
<1>1. CASE Tick
  <2>1. CASE stale'
    BY <2>1 DEF Current
  <2>2. CASE ~stale'
    <3>1. inbox = {} /\ stale
      BY <1>1, <2>2 DEF Tick
    <3>2. UNCHANGED <<page, game, pair>> /\ report' = RefreshedReport
      BY <1>1, <3>1 DEF Tick
    <3>3. Asks => PageRequest("page", 1) \in jobs'
      BY <1>1, <3>1 DEF Tick, RefreshedJobs
    <3> QED BY <1>1, <3>1, <3>2, <3>3, TickComes, RefreshCurrent
  <2> QED BY <2>1, <2>2
<1>2. CASE RefreshClicked
  <2>1. UNCHANGED <<page, game, pair>> /\ report' = RefreshedReport /\ jobs' = RefreshedJobs
    BY <1>2 DEF RefreshClicked, asked
  <2>2. Asks => PageRequest("page", 1) \in jobs'
    BY <2>1 DEF RefreshedJobs
  <2> QED BY <2>1, <2>2, Refreshing, RefreshCurrent
<1>3. CASE \E j \in jobs : Build(j) \/ \E a \in j.answer : Land(j, a)
  BY <1>3, BuildCurrent, LandCurrent
<1>4. CASE ToggleHud
  BY <1>4, Unmoved DEF ToggleHud, asked
<1>5. CASE Minute
  BY <1>5 DEF Minute, Current
<1>6. CASE \E p \in Pages : ShowPage(p)
  BY <1>6 DEF ShowPage, Current
<1>7. CASE \E g \in Games : SetProfile(g)
  BY <1>7 DEF SetProfile, Current
<1>8. ASSUME NEW p \in Pairs, ChoosePair(p)
      PROVE  Current'
  <2>1. CASE pair # p
    BY <1>8, <2>1 DEF ChoosePair, Current
  <2>2. CASE pair = p
    <3>1. stale' = stale
      BY <1>8, <2>2 DEF ChoosePair, Types, AnswersTyped
    <3> QED BY <1>8, <2>2, <3>1, Unmoved DEF ChoosePair
  <2> QED BY <2>1, <2>2
<1>9. CASE \E p \in Pairs : UnpinProbe(p) \/ \E sticky \in BOOLEAN : PinProbe(p, sticky)
  BY <1>9, Unmoved DEF UnpinProbe, PinProbe, asked
<1>10. CASE \E g \in Games, p \in Pairs : Capture(g, p)
  BY <1>10, Unmoved DEF Capture, asked
<1>11. CASE \E l \in LeaguesOf[game] : PickLeague(l)
  BY <1>11, Unmoved DEF PickLeague
<1>12. CASE \E l \in LeaguesOf[game] : RoundStored(game, l)
  BY <1>12 DEF RoundStored, Current
<1> QED BY <1>1, <1>2, <1>3, <1>4, <1>5, <1>6, <1>7, <1>8, <1>9, <1>10, <1>11, <1>12 DEF Next

-----------------------------------------------------------------------------
(* The ledger that is reused lacks at most what was refilled.              *)

\* A ledger as load_exchange_ledger makes them: of a league of its game, with an
\* hour, and never ahead of the store.
Own(l) ==
    /\ l \in Ledgers /\ l.rows.newest > 0 /\ l.league \in LeaguesOf[l.game]
    /\ l.rows.refilled <= hours[<<l.game, l.league>>].refilled

Matches(ledger, holds) ==
    /\ ledger = {} <=> holds = {}
    /\ \A l \in ledger, h \in holds :
           /\ l.league = h.league /\ l.league \in LeaguesOf[l.game]
           /\ l.rows.newest = h.rows.newest
           /\ l.game = h.game => l.rows.refilled <= h.rows.refilled

TrueLedger(a) ==
    a.kind = "exchange" => Matches(a.ledger, a.holds) /\ \A l \in a.ledger : Own(l)

Keyed(j) ==
    /\ j.league \in LeaguesOf[j.game]
    /\ \A l \in j.cache : Own(l)
    /\ \A a \in j.answer : TrueLedger(a)

AllKeyed ==
    /\ \A l \in ledgerCache : Own(l)
    /\ \A j \in jobs : Keyed(j)
    /\ ReusedLedgerMissesOnlyRefills

LEMMA RefilledGrows ==
    ASSUME Types, Next
    PROVE  \A gl \in Games \X Leagues :
             /\ hours[gl].refilled \in Nat /\ hours'[gl].refilled \in Nat
             /\ hours[gl].refilled <= hours'[gl].refilled
<1>0. \A gl \in Games \X Leagues : hours[gl] \in Hours /\ hours[gl].refilled \in Nat
  BY DEF Types, StoreTyped, Hours
<1>1. ASSUME NEW l \in LeaguesOf[game], RoundStored(game, l), NEW gl \in Games \X Leagues
      PROVE  hours'[gl].refilled \in Nat /\ hours[gl].refilled <= hours'[gl].refilled
  <2>1. \/ hours' = [hours EXCEPT ![<<game, l>>]["newest"] = @ + 1]
        \/ hours' = [hours EXCEPT ![<<game, l>>]["refilled"] = @ + 1]
    BY <1>1 DEF RoundStored
  <2>2. hours[gl] \in Hours /\ hours \in [Games \X Leagues -> Hours]
    BY DEF Types, StoreTyped
  <2>3. \/ hours'[gl] = hours[gl]
        \/ hours'[gl] = [hours[gl] EXCEPT !["newest"] = @ + 1]
        \/ hours'[gl] = [hours[gl] EXCEPT !["refilled"] = @ + 1]
    BY <2>1, <2>2
  <2>4. /\ [hours[gl] EXCEPT !["newest"] = @ + 1].refilled = hours[gl].refilled
        /\ [hours[gl] EXCEPT !["refilled"] = @ + 1].refilled = hours[gl].refilled + 1
        /\ hours[gl].refilled \in Nat
    BY <2>2 DEF Hours
  <2> QED BY <2>3, <2>4
<1>2. CASE hours' = hours
  BY <1>0, <1>2
<1>3. CASE \E j \in jobs : Build(j) \/ \E a \in j.answer : Land(j, a)
  BY <1>2, <1>3 DEF Build, Land, store
<1>4. CASE ToggleHud \/ Minute \/ RefreshClicked \/ Tick
  BY <1>2, <1>4 DEF ToggleHud, Minute, RefreshClicked, Tick, store
<1>5. CASE \E p \in Pages : ShowPage(p)
  BY <1>2, <1>5 DEF ShowPage, store
<1>6. CASE \E g \in Games : SetProfile(g)
  BY <1>2, <1>6 DEF SetProfile, store
<1>7. CASE \E p \in Pairs : ChoosePair(p) \/ UnpinProbe(p) \/ \E sticky \in BOOLEAN : PinProbe(p, sticky)
  BY <1>2, <1>7 DEF ChoosePair, UnpinProbe, PinProbe, store
<1>8. CASE \E g \in Games, p \in Pairs : Capture(g, p)
  BY <1>2, <1>8 DEF Capture
<1>9. CASE \E l \in LeaguesOf[game] : PickLeague(l)
  BY <1>2, <1>9 DEF PickLeague, store
<1> QED BY <1>0, <1>1, <1>3, <1>4, <1>5, <1>6, <1>7, <1>8, <1>9 DEF Next

LEMMA OwnKept ==
    ASSUME Types, Next, NEW l, Own(l)
    PROVE  Own(l)'
<1>1. <<l.game, l.league>> \in Games \X Leagues /\ l.rows.refilled \in Nat
  BY DEF Own, Ledgers, Hours
<1> QED BY <1>1, RefilledGrows DEF Own

LEMMA TrueLedgerKept ==
    ASSUME Types, Next, NEW a, TrueLedger(a)
    PROVE  TrueLedger(a)'
BY OwnKept DEF TrueLedger

\* A ledger that may be reused matches the one that would be loaded.
LEMMA ReusedLedger ==
    ASSUME Types, NEW j \in jobs, Keyed(j)
    PROVE  Matches(Ledger(j), Holds(j.game, j.league)) /\ \A l \in Ledger(j) : Own(l)
<1> DEFINE row == hours[<<j.game, j.league>>]
           held == [game |-> j.game, league |-> j.league, rows |-> row]
           again == {l \in j.cache : Reusable(j, l)}
<1>1. /\ j \in Requests /\ j.game \in Games /\ j.league \in Leagues /\ j.cache \subseteq Ledgers
      /\ j.league \in LeaguesOf[j.game]
  BY Numbers DEF Requests, Keyed
<1>2. row \in Hours /\ row.refilled \in Nat
  BY <1>1 DEF Types, StoreTyped, Hours
<1>3. ASSUME NEW l \in again
      PROVE  /\ Own(l) /\ l.league = j.league /\ l.rows.newest = row.newest /\ row.newest > 0
             /\ l.game = j.game => l.rows.refilled <= row.refilled
  BY DEF Reusable, Keyed, Own
<1>4. Holds(j.game, j.league) = IF row.newest > 0 THEN {held} ELSE {}
  BY DEF Holds
<1>5. /\ held.game = j.game /\ held.league = j.league /\ held.rows = row
      /\ row.newest > 0 => Own(held)
  BY <1>1, <1>2 DEF Own, Ledgers
<1>6. Ledger(j) = IF again # {} THEN again ELSE Holds(j.game, j.league)
  BY DEF Ledger
<1> HIDE DEF row, held, again
<1>7. CASE again # {}
  <2>1. Ledger(j) = again /\ Holds(j.game, j.league) = {held}
    BY <1>3, <1>4, <1>6, <1>7
  <2>2. ASSUME NEW l \in again
        PROVE  /\ l.league = held.league /\ l.league \in LeaguesOf[l.game]
               /\ l.rows.newest = held.rows.newest
               /\ l.game = held.game => l.rows.refilled <= held.rows.refilled
    BY <1>3, <1>5 DEF Own
  <2> QED BY <1>3, <1>7, <2>1, <2>2 DEF Matches
<1>8. CASE again = {} /\ row.newest > 0
  <2>1. Ledger(j) = {held} /\ Holds(j.game, j.league) = {held}
    BY <1>4, <1>6, <1>8
  <2>2. held.league \in LeaguesOf[held.game] /\ held.rows.refilled <= held.rows.refilled
    BY <1>1, <1>2, <1>5
  <2> QED BY <1>5, <1>8, <2>1, <2>2 DEF Matches
<1>9. CASE again = {} /\ ~(row.newest > 0)
  <2>1. Ledger(j) = {} /\ Holds(j.game, j.league) = {}
    BY <1>4, <1>6, <1>9
  <2> QED BY <2>1 DEF Matches
<1> QED BY <1>7, <1>8, <1>9

LEMMA KeyedStep ==
    ASSUME Types, AllKeyed, Next
    PROVE  AllKeyed'
<1>1. ASSUME NEW j \in jobs
      PROVE  (\A l \in j.cache : Own(l)') /\ \A a \in j.answer : TrueLedger(a)'
  BY OwnKept, TrueLedgerKept DEF AllKeyed, Keyed
<1>2. ASSUME NEW k \in jobs' PROVE Keyed(k)'
  <2>1. CASE \E j \in jobs : Build(j)
    <3>1. PICK j \in jobs : Build(j)
      BY <2>1
    <3>2. PICK a \in {Answer(j), Plain("failed")}, b \in Requests :
             Built(b, j, a) /\ jobs' = (jobs \ {j}) \union {b}
      BY <3>1, Building
    <3>3. j \in Requests /\ j.page \in Pages \ {"Settings"} /\ Keyed(j)
      BY Numbers DEF Requests, AllKeyed
    <3>4. TrueLedger(a)'
      <4>0. TrueLedger(a) => TrueLedger(a)'
        BY TrueLedgerKept
      <4>1. CASE a = Plain("failed")
        BY <4>0, <4>1, WordTypes DEF TrueLedger
      <4>2. CASE a = Answer(j) /\ a.kind = "exchange"
        <5>1. j.page = "Exchange"
          BY <3>3, <4>2, AnswerTypes DEF Kind, Pages
        <5>2. a.holds = Holds(j.game, j.league) /\ a.ledger = Ledger(j)
          BY <3>3, <4>2, <5>1, AnswerTypes
        <5> QED BY <3>3, <4>0, <5>2, ReusedLedger DEF TrueLedger
      <4> QED BY <3>2, <4>0, <4>1, <4>2 DEF TrueLedger
    <3>5. CASE k = b
      <4>1. /\ k.league = j.league /\ k.game = j.game /\ k.cache = j.cache /\ k.answer = {a}
        BY <3>2, <3>5 DEF Built
      <4>2. \A l \in k.cache : Own(l)'
        BY <1>1, <4>1
      <4>3. \A x \in k.answer : TrueLedger(x)'
        BY <3>4, <4>1
      <4> QED BY <3>3, <4>1, <4>2, <4>3 DEF Keyed
    <3>6. CASE k \in jobs
      BY <1>1, <3>6 DEF AllKeyed, Keyed
    <3> QED BY <3>2, <3>5, <3>6
  <2>2. CASE ~\E j \in jobs : Build(j)
    <3>1. Comes(k)
      BY <2>2, StepComes
    <3>2. ASSUME NEW j \in jobs, Outdated(k, j) PROVE Keyed(k)'
      BY <1>1, <3>2 DEF AllKeyed, Keyed, Outdated
    <3>3. ASSUME NEW purpose \in {"page", "hud"}, Fresh(k, purpose) PROVE Keyed(k)'
      BY <3>3, OwnKept DEF AllKeyed, Keyed, Fresh, Types, QuestionTyped
    <3> QED BY <3>1, <3>2, <3>3 DEF Comes
  <2> QED BY <2>1, <2>2
<1>3. (\A l \in ledgerCache' : Own(l)') /\ ReusedLedgerMissesOnlyRefills'
  <2>1. CASE ledgerCache' = ledgerCache /\ report' = report
    BY <2>1, OwnKept DEF AllKeyed, ReusedLedgerMissesOnlyRefills
  <2>2. ASSUME report' = RefreshedReport, ledgerCache' = ledgerCache
        PROVE  (\A l \in ledgerCache' : Own(l)') /\ ReusedLedgerMissesOnlyRefills'
    <3>1. RefreshedReport = report \/ RefreshedReport.kind # "exchange"
      <4>1. \A w \in {"empty", "waiting", "loading"} : Plain(w).kind # "exchange"
        BY WordTypes
      <4>2. \/ RefreshedReport = report
            \/ \E w \in {"empty", "waiting", "loading"} : RefreshedReport = Plain(w)
        BY Refreshed DEF Asks
      <4> QED BY <4>1, <4>2
    <3> QED BY <2>2, <3>1, OwnKept DEF AllKeyed, ReusedLedgerMissesOnlyRefills
  <2>3. CASE Tick
    BY <2>1, <2>2, <2>3 DEF Tick
  <2>4. CASE RefreshClicked
    BY <2>2, <2>4 DEF RefreshClicked
  <2>5. ASSUME NEW j \in jobs, NEW a \in j.answer, Land(j, a)
        PROVE  (\A l \in ledgerCache' : Own(l)') /\ ReusedLedgerMissesOnlyRefills'
    <3>1. TrueLedger(a) /\ TrueLedger(a)'
      BY <1>1 DEF AllKeyed, Keyed
    <3>2. report' = a \/ report' = report
      BY <2>5 DEF Land
    <3>3. ledgerCache' = ledgerCache \/ (a.kind = "exchange" /\ ledgerCache' = a.ledger)
      BY <2>5 DEF Land
    <3> QED BY <3>1, <3>2, <3>3, OwnKept DEF AllKeyed, TrueLedger, Matches, ReusedLedgerMissesOnlyRefills
  <2>6. CASE \E j \in jobs : Build(j)
    BY <2>1, <2>6 DEF Build
  <2>7. CASE ToggleHud \/ Minute
    BY <2>1, <2>7 DEF ToggleHud, Minute
  <2>8. CASE \E p \in Pages : ShowPage(p)
    BY <2>1, <2>8 DEF ShowPage
  <2>9. CASE \E g \in Games : SetProfile(g)
    BY <2>1, <2>9 DEF SetProfile
  <2>10. CASE \E p \in Pairs : ChoosePair(p) \/ UnpinProbe(p) \/ \E sticky \in BOOLEAN : PinProbe(p, sticky)
    BY <2>1, <2>10 DEF ChoosePair, UnpinProbe, PinProbe
  <2>11. CASE \E g \in Games, p \in Pairs : Capture(g, p)
    BY <2>1, <2>11 DEF Capture
  <2>12. CASE \E l \in LeaguesOf[game] : PickLeague(l) \/ RoundStored(game, l)
    BY <2>1, <2>12 DEF PickLeague, RoundStored
  <2> QED BY <2>3, <2>4, <2>5, <2>6, <2>7, <2>8, <2>9, <2>10, <2>11, <2>12 DEF Next
<1> QED BY <1>2, <1>3 DEF AllKeyed

-----------------------------------------------------------------------------
(* The theorems.                                                           *)

\* Books are dated, requests remember the pins, the page is current or stale.
Invariant == Types /\ Dated /\ Remembered /\ Current

LEMMA InvariantInit == Init => Invariant
<1> SUFFICES ASSUME Init PROVE Invariant
  OBVIOUS
<1>1. Dated /\ Remembered /\ Current
  BY DEF Init, Dated, Remembered, Current
<1> QED BY <1>1, InitTypes DEF Invariant

LEMMA InvariantStep ==
    ASSUME Invariant, [Next]_vars
    PROVE  Invariant'
<1>1. Types'
  BY TypesStep DEF Invariant
<1>2. CASE Next
  BY <1>1, <1>2, BooksGrow, RememberedStep, CurrentStep DEF Invariant
<1>3. CASE UNCHANGED vars
  <2>1. Dated'
    BY <1>3 DEF Invariant, Dated, vars, store
  <2>2. Remembered'
    BY <1>3 DEF Invariant, Remembered, Remembers, RequestTime, vars, store
  <2>3. Current'
    BY <1>3, Unmoved DEF Invariant, vars, asked
  <2> QED BY <1>1, <2>1, <2>2, <2>3 DEF Invariant
<1> QED BY <1>2, <1>3

LEMMA InvariantHolds == Spec => []Invariant
BY InvariantInit, InvariantStep, PTL DEF Spec

\* However answers overtake each other and whatever the user, the watch and the
\* rounds do meanwhile, a page that nothing will redraw answers the question that is
\* asked now (refresh_report's generation, shell/mod.rs).
THEOREM RestingPageAnswers == Spec => []SettledPageAnswersTheQuestion
<1>1. Invariant => SettledPageAnswersTheQuestion
  BY CurrentSuffices DEF Invariant
<1> QED BY <1>1, InvariantHolds, PTL

\* An answer that lands closes a sticky pin only if its pair was captured since the
\* pin was placed, though it was built for an earlier set of pins
\* (retain_missing, state.rs; sticky_probe_candidates, reports.rs).
THEOREM PinsAreKept == Spec => PinsCloseOnlyWhenAnswered
<1>1. ASSUME Invariant, [Next]_vars
      PROVE  [jobs' # jobs =>
                \A pin \in pins \ pins' :
                  pin.sticky => \E g \in Games : books[g][pin.pair] >= pin.at]_vars
  <2>1. CASE Next
    BY <1>1, <2>1, PinsStep DEF Invariant
  <2>2. CASE UNCHANGED vars
    BY <2>2
  <2> QED BY <1>1, <2>1, <2>2
<1> QED BY <1>1, InvariantHolds, PTL DEF Spec, PinsCloseOnlyWhenAnswered

\* Whatever the rounds store and however games name their leagues, a ledger that is
\* reused ends with the store's newest hour, is of a league of the name asked for,
\* and when it is of the page's game lacks only what was stored below that hour since
\* (load_exchange_ledger, shell/mod.rs).
THEOREM ReuseMissesOnlyRefills == Spec => []ReusedLedgerMissesOnlyRefills
<1>1. Init => AllKeyed
  BY WordTypes DEF Init, AllKeyed, ReusedLedgerMissesOnlyRefills
<1>2. ASSUME Invariant, AllKeyed, [Next]_vars PROVE AllKeyed'
  <2>1. CASE Next
    BY <1>2, <2>1, KeyedStep DEF Invariant
  <2>2. CASE UNCHANGED vars
    BY <1>2, <2>2 DEF AllKeyed, Keyed, TrueLedger, Own, ReusedLedgerMissesOnlyRefills, vars, store
  <2> QED BY <1>2, <2>1, <2>2
<1>3. AllKeyed => ReusedLedgerMissesOnlyRefills
  BY DEF AllKeyed
<1> QED BY <1>1, <1>2, <1>3, InvariantHolds, PTL DEF Spec
=============================================================================
