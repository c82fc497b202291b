----------------------------- MODULE ReportPage -----------------------------
(***************************************************************************)
(* The page the user looks at and the queue of probes over the game        *)
(* (ptt-app/src/shell/mod.rs): every answer is built by a background job   *)
(* from a snapshot of the interface, and lands on an interface that has    *)
(* moved on meanwhile.  Pinned probes are closed by the answers that land, *)
(* and the exchange page reuses the ledger of an earlier answer.           *)
(*                                                                         *)
(* Monitor, Convert, Exchange and Settings stand for all pages: the others *)
(* are answered as Convert or Monitor are, without a pair.  Coverage of the *)
(* pairs is left out: it is taken to find every pair complete, which       *)
(* closes the most pins.                                                   *)
(***************************************************************************)
EXTENDS Naturals, FiniteSets

CONSTANTS
    Games,
    Pairs,        \* currency pairs; both games name their currencies alike
    LeaguesOf,    \* game |-> the leagues the user may choose there
    Sessions,     \* bound: the pages, games, pairs and pins touched in a behaviour,
                  \* how many books, pins and hours it sees (events) and how many
                  \* answers may be under way when more is asked for (jobs)
    Refills,      \* whether rounds store hours older than the newest one
    NoPair

Pages == {"Monitor", "Convert", "Exchange", "Settings"}

ASSUME ReportAssumption ==
    /\ NoPair \notin Pairs
    /\ \A g \in Games : LeaguesOf[g] # {}
    /\ Sessions \subseteq [pages : SUBSET Pages, games : SUBSET Games, pairs : SUBSET Pairs,
                            pins : BOOLEAN, events : Nat, jobs : Nat]
    /\ Refills \in BOOLEAN

NeedsAPair(p) == p = "Convert"
ReadsTheStore(p) == p # "Settings"

VARIABLES
    page, game,      \* what the user looks at: page, active_profile
    leagues,         \* game |-> the league chosen there
    pair, chosen,    \* report_pair, pair_chosen_by_user
    session,         \* the one of Sessions that is played, fixed
    stale,           \* report_stale
    report,          \* what is drawn
    jobs,            \* the answers under way; current: of the latest generation
    hud,             \* whether the overlay shows, whether it has a queue, and which
    pins,            \* the pinned probes
    ledgerCache,     \* exchange_ledger_cache, a set of at most one ledger
    books,           \* store: game |-> pair |-> when it was last captured, 0 for never
    hours,           \* store: <<game, league>> |-> newest hour, and how often older ones changed
    inbox,           \* the books whose Accepted event is not drained
    heard,           \* history: game |-> pair |-> the last book whose event was drained
    clock            \* counts books, pins and hours

asked == <<session, page, game, leagues, pair, chosen>>
store == <<books, hours>>
vars == <<asked, stale, report, jobs, hud, pins, ledgerCache, store, inbox, heard, clock>>

\* Books and pins carry even times, requests fall between them.
Event == clock < session.events /\ clock' = clock + 1
EventTime == 2 * clock + 2
RequestTime == 2 * clock + 1

\* Bound: nobody asks for more while as many answers are under way.
Unhurried == Cardinality(jobs) <= session.jobs

Plain(kind) == [kind |-> kind]
IsContent == report.kind \in {"probes", "convert", "exchange"}

Init ==
    /\ session \in Sessions
    /\ page \in session.pages /\ game \in session.games
    /\ leagues \in [Games -> UNION {LeaguesOf[g] : g \in Games}]
    /\ \A g \in Games : leagues[g] \in LeaguesOf[g]
    /\ pair = NoPair /\ chosen = FALSE
    /\ stale = TRUE
    /\ report = Plain("empty")
    /\ jobs = {} /\ pins = {} /\ ledgerCache = {}
    /\ hud = [shows |-> FALSE, queue |-> {}]
    /\ books = [g \in Games |-> [p \in Pairs |-> 0]]
    /\ hours = [gl \in Games \X UNION {LeaguesOf[g] : g \in Games} |-> [newest |-> 0, refilled |-> 0]]
    /\ inbox = {} /\ heard = books
    /\ clock = 0

-----------------------------------------------------------------------------
(* Asking. *)

\* page_request: the snapshot an answer is built from.
PageRequest(purpose, nth) ==
    [purpose |-> purpose, nth |-> nth, current |-> purpose = "page",
     page |-> IF purpose = "page" THEN page ELSE "Monitor",
     pair |-> IF purpose = "page" /\ NeedsAPair(page) THEN pair ELSE NoPair,
     game |-> game, league |-> leagues[game],
     sticky |-> {pin \in pins : pin.sticky},
     at |-> RequestTime, cache |-> ledgerCache, answer |-> {}]

\* refresh_report takes a new generation: no answer under way is current any more.
Superseded == {[j EXCEPT !.current = FALSE] : j \in jobs}

Asks == ReadsTheStore(page) /\ (NeedsAPair(page) => pair # NoPair)

\* Whether the current question is still being answered.
Awaited == \E j \in jobs : j.purpose = "page" /\ j.current

RefreshedReport ==
    CASE ~ReadsTheStore(page) -> Plain("empty")
      [] ReadsTheStore(page) /\ ~Asks -> Plain("waiting")
      [] Asks -> IF IsContent THEN report ELSE Plain("loading")

\* Mutant: a page is not asked for again while an answer is under way.
RefreshedJobs_OneAtATime ==
    Superseded \union IF Asks /\ jobs = {} THEN {PageRequest("page", 1)} ELSE {}

RefreshedJobs == Superseded \union IF Asks THEN {PageRequest("page", 1)} ELSE {}

\* The button of the page: refresh_report.
RefreshClicked ==
    /\ Unhurried
    /\ stale' = FALSE
    /\ report' = RefreshedReport
    /\ jobs' = RefreshedJobs
    /\ UNCHANGED <<asked, hud, pins, ledgerCache, store, inbox, heard, clock>>

\* tick: the stale page is asked for again, an overlay without a queue asks for
\* one, and only then the events are drained; a book asks for the overlay's queue.
Tick ==
    /\ stale \/ inbox # {}
    /\ report' = IF stale THEN RefreshedReport ELSE report
    /\ jobs' = (IF stale THEN RefreshedJobs ELSE jobs)
               \union {PageRequest("hud", 1) : x \in {x \in {1} : stale /\ hud.shows /\ hud.queue = {}}}
               \union {PageRequest("hud", 2) : x \in {x \in {2} : inbox # {} /\ hud.shows}}
    /\ stale' = (inbox # {})
    /\ pair' = IF inbox = {} \/ chosen THEN pair
               ELSE (CHOOSE b \in inbox : \A c \in inbox : c.at <= b.at).pair
    /\ heard' = [g \in Games |-> [p \in Pairs |->
                   IF \E b \in inbox : b.game = g /\ b.pair = p
                   THEN books[g][p] ELSE heard[g][p]]]
    /\ inbox' = {}
    /\ UNCHANGED <<session, page, game, leagues, chosen, hud, pins, ledgerCache, store, clock>>

-----------------------------------------------------------------------------
(* Answering: the background job reads the store once, somewhere between    *)
(* being asked and landing.                                                 *)

\* The ledger of a league, none before its first hour is stored.
Holds(g, l) ==
    {[game |-> g, league |-> l, rows |-> rows] : rows \in {r \in {hours[<<g, l>>]} : r.newest > 0}}

\* Mutant: the ledger of another league is reused when its newest hour agrees.
Reusable_AnyLeague(j, ledger) == ledger.rows.newest = hours[<<j.game, j.league>>].newest

\* load_exchange_ledger: the ledger of an earlier answer is taken when league and
\* newest hour agree (anchor and retention are not varied).
Reusable(j, ledger) ==
    /\ ledger.league = j.league
    /\ ledger.rows.newest = hours[<<j.game, j.league>>].newest

Ledger(j) ==
    LET again == {l \in j.cache : Reusable(j, l)}
    IN IF again # {} THEN again ELSE Holds(j.game, j.league)

\* sticky_probe_candidates: the pins of the request not captured since.
Unanswered(j) == {pin.pair : pin \in {k \in j.sticky : books[j.game][k.pair] < k.at}}

\* load_probe_queue, load_convert, load_exchange.
Answer(j) ==
    LET read == [game |-> j.game, books |-> books[j.game]]
    IN CASE j.page = "Monitor" ->
              [kind |-> "probes", read |-> read, missing |-> Unanswered(j)]
         [] j.page = "Convert" -> [kind |-> "convert", read |-> read, pair |-> j.pair]
         [] j.page = "Exchange" ->
              [kind |-> "exchange", read |-> read, holds |-> Holds(j.game, j.league),
               ledger |-> Ledger(j)]

Build(j) ==
    /\ j.answer = {}
    /\ \E a \in {Answer(j), Plain("failed")} :
         jobs' = (jobs \ {j}) \union {[j EXCEPT !.answer = {a}]}
    /\ UNCHANGED <<asked, stale, report, hud, pins, ledgerCache, store, inbox, heard, clock>>

\* Mutant: the age of a pin is not compared with the question's.
Retained_AnyAge(missing, at) == {pin \in pins : pin.pair \in missing}

\* retain_missing: an answer closes the pins that it does not miss, unless they
\* were placed after it was asked for.
Retained(missing, at) == {pin \in pins : pin.at >= at \/ pin.pair \in missing}

\* Mutant: the answer that lands last is drawn, whatever was asked since.
Accepted_Anything(j) == j.purpose = "page"

\* Whether a landing answer is still the answer to the current question.
Accepted(j) == j.purpose = "page" /\ j.current

\* The landing of a page's answer (refresh_report) or of an overlay's queue
\* (refresh_hud_probes), which no generation guards.
Land(j, a) ==
    /\ a \in j.answer
    /\ jobs' = jobs \ {j}
    /\ report' = IF Accepted(j) THEN a ELSE report
    /\ LET queued == a.kind = "probes" /\ (j.purpose = "hud" \/ Accepted(j))
       IN /\ hud' = IF queued THEN [hud EXCEPT !.queue = {a}] ELSE hud
          /\ pins' = IF queued THEN Retained(a.missing, j.at) ELSE pins
    /\ ledgerCache' = IF a.kind = "exchange" /\ Accepted(j) /\ a.ledger # {}
                      THEN a.ledger ELSE ledgerCache
    /\ UNCHANGED <<asked, stale, store, inbox, heard, clock>>

-----------------------------------------------------------------------------
(* The user. *)

ShowPage(p) ==
    /\ Unhurried /\ page # p /\ p \in session.pages
    /\ page' = p /\ stale' = TRUE
    /\ UNCHANGED <<session, game, leagues, pair, chosen, report, jobs, hud, pins, ledgerCache, store, inbox, heard, clock>>

SetProfile(g) ==
    /\ Unhurried /\ game # g /\ g \in session.games
    /\ game' = g /\ stale' = TRUE
    /\ UNCHANGED <<session, page, leagues, pair, chosen, report, jobs, hud, pins, ledgerCache, store, inbox, heard, clock>>

\* choose_pair and swap_pair; choosing the pair that is shown only makes it stick.
ChoosePair(p) ==
    /\ Unhurried /\ page = "Convert" /\ p \in session.pairs
    /\ pair' = p /\ chosen' = TRUE
    /\ stale' = (stale \/ pair # p)
    /\ UNCHANGED <<session, page, game, leagues, report, jobs, hud, pins, ledgerCache, store, inbox, heard, clock>>

\* The league's picker; the page is not asked for again before a round ends.
PickLeague(l) ==
    /\ l \in LeaguesOf[game] /\ leagues[game] # l
    /\ leagues' = [leagues EXCEPT ![game] = l]
    /\ UNCHANGED <<session, page, game, pair, chosen, stale, report, jobs, hud, pins, ledgerCache, store, inbox, heard, clock>>

ToggleHud ==
    /\ Unhurried /\ session.pins
    /\ hud' = [hud EXCEPT !.shows = ~@]
    /\ UNCHANGED <<asked, stale, report, jobs, pins, ledgerCache, store, inbox, heard, clock>>

\* pin_probe replaces an earlier pin of the pair.
PinProbe(p, sticky) ==
    /\ session.pins /\ p \in session.pairs /\ Event
    /\ pins' = {pin \in pins : pin.pair # p}
               \union {[pair |-> p, sticky |-> sticky, at |-> EventTime, game |-> game]}
    /\ UNCHANGED <<asked, stale, report, jobs, hud, ledgerCache, store, inbox, heard>>

UnpinProbe(p) ==
    /\ p \in {pin.pair : pin \in pins}
    /\ pins' = {pin \in pins : pin.pair # p}
    /\ UNCHANGED <<asked, stale, report, jobs, hud, ledgerCache, store, inbox, heard, clock>>

-----------------------------------------------------------------------------
(* The watch, the exchange rounds and the page's own minute. *)

\* A running watch keeps the game it was started for, whatever the profile says now.
Capture(g, p) ==
    /\ Unhurried /\ Event /\ g \in session.games /\ p \in session.pairs
    /\ books' = [books EXCEPT ![g][p] = EventTime]
    /\ inbox' = inbox \union {[game |-> g, pair |-> p, at |-> EventTime]}
    /\ UNCHANGED <<asked, stale, report, jobs, hud, pins, ledgerCache, hours, heard>>

\* A round of the exchange ends having stored a newer hour, or older ones.
RoundStored(g, l) ==
    /\ Unhurried /\ Event /\ "Exchange" \in session.pages /\ l = leagues[g] /\ g = game
    /\ \E how \in {"newest"} \union {x \in {"refilled"} : Refills} :
         /\ how = "newest" \/ hours[<<g, l>>].newest > 0
         /\ hours' = [hours EXCEPT ![<<g, l>>][how] = @ + 1]
    /\ stale' = TRUE
    /\ UNCHANGED <<asked, report, jobs, hud, pins, ledgerCache, books, inbox, heard>>

\* The exchange page is asked for every minute; answers take less.
Minute ==
    /\ page = "Exchange" /\ ~stale /\ ~Awaited
    /\ stale' = TRUE
    /\ UNCHANGED <<asked, report, jobs, hud, pins, ledgerCache, store, inbox, heard, clock>>

Next ==
    \/ Tick \/ RefreshClicked \/ ToggleHud \/ Minute
    \/ \E j \in jobs : Build(j) \/ \E a \in j.answer : Land(j, a)
    \/ \E p \in Pages : ShowPage(p)
    \/ \E g \in Games : SetProfile(g)
    \/ \E p \in Pairs : ChoosePair(p) \/ UnpinProbe(p) \/ \E sticky \in BOOLEAN : PinProbe(p, sticky)
    \/ \E g \in Games, p \in Pairs : Capture(g, p)
    \/ \E l \in LeaguesOf[game] : PickLeague(l) \/ RoundStored(game, l)

\* The event loop ticks and the executor finishes what it was given.
Fairness ==
    /\ WF_vars(Tick)
    /\ WF_vars(\E j \in jobs : Build(j))
    /\ WF_vars(\E j \in jobs : \E a \in j.answer : Land(j, a))

Spec == Init /\ [][Next]_vars /\ Fairness

-----------------------------------------------------------------------------
(* Properties. *)

Settled == ~stale /\ ~Awaited

Kind == [p \in Pages \ {"Settings"} |->
           CASE p = "Monitor" -> "probes" [] p = "Convert" -> "convert" [] p = "Exchange" -> "exchange"]

\* A page that nothing will redraw answers the question the user asks now: this
\* page, this game, this pair, with every book whose event has been seen.  Only
\* the generation tells apart the answers that land in another order than they
\* were asked for (mod.rs 1262).
SettledPageAnswersTheQuestion ==
    Settled =>
      CASE ~ReadsTheStore(page) -> report.kind = "empty"
        [] ReadsTheStore(page) /\ ~Asks -> report.kind = "waiting"
        [] Asks -> report.kind # "failed" =>
             /\ report.kind = Kind[page]
             /\ page = "Convert" => report.pair = pair
             /\ report.read.game = game
             /\ \A p \in Pairs : report.read.books[p] >= heard[game][p]

\* The ledger on the exchange page is what the store holds for the page's game and
\* league, though it may have been built for an earlier answer (mod.rs 2233-2235:
\* the same league, newest hour, anchor and retention are the same ledger).
LedgerIsWhatTheStoreHolds ==
    report.kind = "exchange" => report.ledger = report.holds

\* What the reuse does promise: the ledger on the exchange page ends with the newest
\* hour of the store, is of a league of the name asked for, and when it is of the
\* page's game it lacks nothing but what was stored below that hour since it was
\* built (load_exchange_ledger).
ReusedLedgerMissesOnlyRefills ==
    report.kind = "exchange" =>
        /\ report.ledger = {} <=> report.holds = {}
        /\ \A l \in report.ledger, h \in report.holds :
               /\ l.league = h.league /\ l.league \in LeaguesOf[l.game]
               /\ l.rows.newest = h.rows.newest
               /\ l.game = h.game => l.rows.refilled <= h.rows.refilled

\* An answer that lands never takes away a pin of the exchange radar whose pair was
\* not captured since it was pinned: neither a pin it has not seen, nor one whose
\* pair was captured only before (state.rs 125-129, reports.rs 2721-2725).
PinsCloseOnlyWhenAnswered ==
    [][jobs' # jobs =>
         \A pin \in pins \ pins' :
           pin.sticky => \E g \in Games : books[g][pin.pair] >= pin.at]_vars

\* Once nothing new is asked and nothing happens any more, the page comes to rest,
\* and not on the word that it is loading.  (Questions that keep coming faster than
\* they are answered keep it loading: each takes the generation of the last.)
PageCatchesUp ==
    <>[][~RefreshClicked /\ UNCHANGED <<asked, clock>>]_vars
      => []<>(Settled /\ report.kind # "loading")

=============================================================================
