--------------------------- MODULE ExchangeLedger ---------------------------
(***************************************************************************)
(* The official exchange history of one league in one game: the hours      *)
(* fetched from the CDN, the day lines folded from them, and the sync      *)
(* rounds that fetch, re-check, fold and prune (run_sync_round in          *)
(* ptt-app/src/shell/exchange_sync.rs, exchange_rollup.rs in ptt-runtime,  *)
(* and the exchange tables of ptt-storage).                                *)
(*                                                                         *)
(* A round runs on a background thread while the clock ticks, files are    *)
(* published, the user edits the settings and the process may die.  Each   *)
(* store transaction is one step.  `running` admits one round at a time    *)
(* (see ExchangeChain), so a round shares the tables with nobody.          *)
(***************************************************************************)
EXTENDS ExchangePlan

CONSTANTS
    FirstHour,    \* the clock when the program is first started
    LastHour,     \* bound on the clock
    LeagueStart,  \* hours before it hold no row of the league
    Settings,     \* the settings the user may choose: [backfill, retention, season]
    DayBudget,    \* max_days_per_run of the fold, 32 in run_sync_round
    MaxFaults,    \* bound on failed requests
    MaxAborts,    \* bound on failed fold or prune transactions and deaths of the process
    MaxChanges    \* bound on edits of the settings

VARIABLES
    now,        \* the wall clock, in hours
    published,  \* the hours whose CDN file is not empty
    settings,   \* ExchangeTuning and the active season's start
    marks,      \* exchange_hours: hour |-> [rows, fetched]
    days,       \* exchange_day_marks: day |-> [hours, summed], the marks folded
                \* and, of them, the hours whose rows were summed
    phase,      \* where the round stands: idle, fetch, fold or prune
    plan,       \* what the round still has to fetch, and what it read at its start
    repaired,   \* repaired_days: in memory only
    queue,      \* the days the fold or the prune still has to visit
    dropped,    \* history: the rows found late and in no line, their repair
                \* forgotten with a round that died
    spent       \* faults, aborts and settings changes used up

vars == <<now, published, settings, marks, days, phase, plan, repaired, queue, dropped, spent>>
store == <<marks, days>>
user == <<settings, spent>>
round == <<phase, plan, repaired, queue>>

Hours == 1 .. LastHour
Days == 0 .. DayOf(LastHour)

ASSUME LedgerAssumption ==
    /\ FirstHour \in Nat \ {0} /\ LastHour \in Nat /\ FirstHour <= LastHour
    /\ LeagueStart \in Nat
    /\ Settings \subseteq [backfill : Nat, retention : Nat, season : Nat \cup {NoHour}]
    /\ Settings # {}
    /\ DayBudget \in Nat \ {0}
    /\ {MaxFaults, MaxAborts, MaxChanges} \subseteq Nat

NoPlan == [at |-> 0, retention |-> 0, forward |-> {}, backward |-> {}, recheck |-> {}]

Init ==
    /\ now = FirstHour
    /\ published \in {1 .. (FirstHour - 1), 1 .. (FirstHour - 2)}
    /\ settings \in Settings
    /\ marks = [h \in {} |-> {}]
    /\ days = [d \in {} |-> {}]
    /\ phase = "idle" /\ plan = NoPlan /\ repaired = {} /\ queue = {} /\ dropped = {}
    /\ spent = [faults |-> 0, aborts |-> 0, changes |-> 0]

-----------------------------------------------------------------------------
(* What the tables say.                                                    *)

MarksOf(d) == {h \in DOMAIN marks : DayOf(h) = d}
RowsOf(d) == {h \in MarksOf(d) : marks[h].rows}
MarkedDays == {DayOf(h) : h \in DOMAIN marks}

Watermark == IF DOMAIN marks = {} THEN NoHour ELSE Greatest(DOMAIN marks)
EarliestMark == IF DOMAIN marks = {} THEN NoHour ELSE Least(DOMAIN marks)

FoldedDays == {d \in DOMAIN days : Cardinality(days[d].hours) >= HoursPerDay}

HasRows(h) == h \in published /\ h >= LeagueStart

\* Marks hour by hour up to the day's last hour; a gap is allowed only at
\* the front, and only if the day holds the league's first mark.
CoverageComplete(d) ==
    \E h \in MarksOf(d) :
        /\ MarksOf(d) = h .. Greatest(HoursOf(d))
        /\ h = Least(HoursOf(d)) \/ h = EarliestMark

NeedsFold_Once(d) == d \notin DOMAIN days /\ CoverageComplete(d)

NeedsFold(d) ==
    /\ d \in repaired \/ d \notin DOMAIN days
       \/ Cardinality(days[d].hours) # Cardinality(MarksOf(d))
    /\ CoverageComplete(d)

-----------------------------------------------------------------------------
(* The world outside the round.                                            *)

Tick ==
    /\ now < LastHour
    /\ now' = now + 1
    /\ UNCHANGED <<published, user, store, round, dropped>>

\* The file of a complete hour appears, in time or late.
Publish ==
    /\ \E h \in 1 .. (now - 1) \ published : published' = published \cup {h}
    /\ UNCHANGED <<now, user, store, round, dropped>>

\* The exchange settings are saved, or the season's start is amended.  A
\* round in flight keeps what it read when it started.
ChangeSettings ==
    /\ spent.changes < MaxChanges
    /\ \E s \in Settings \ {settings} : settings' = s
    /\ spent' = [spent EXCEPT !.changes = @ + 1]
    /\ UNCHANGED <<now, published, store, round, dropped>>

-----------------------------------------------------------------------------
(* The round.                                                              *)

StartRound ==
    /\ phase = "idle"
    /\ LET floor == SeasonFloor(settings.season, now, settings.backfill)
           forward == PlanFetch(Watermark, now, floor, settings.backfill)
           backward == IF Cardinality(forward) < HourBudget
                       THEN PlanBackward(EarliestMark, now, floor, settings.backfill,
                                         HourBudget - Cardinality(forward), FoldedDays)
                       ELSE {}
       IN  plan' = [at |-> now, retention |-> settings.retention,
                    forward |-> forward, backward |-> backward,
                    recheck |-> PlanRecheck(marks, now)]
    /\ phase' = "fetch"
    /\ UNCHANGED <<now, published, user, store, repaired, queue, dropped>>

\* fetch_one found the file empty and too young to be final: no mark.
Deferred(h) == h \notin published /\ ~ConfirmedEmpty(h, plan.at)

\* replace_exchange_hour: the mark and its rows in one transaction.
StoreHour(h) ==
    marks' = [x \in DOMAIN marks \cup {h} |->
                 IF x = h THEN [rows |-> HasRows(h), fetched |-> plan.at] ELSE marks[x]]

FetchForward_NewestFirst ==
    /\ phase = "fetch" /\ plan.forward # {}
    /\ LET h == Greatest(plan.forward) IN
          \/ /\ ~Deferred(h)
             /\ StoreHour(h)
             /\ plan' = [plan EXCEPT !.forward = @ \ {h}]
          \/ /\ Deferred(h)
             /\ plan' = [plan EXCEPT !.forward = {}]
             /\ UNCHANGED marks
    /\ UNCHANGED <<now, published, user, days, phase, repaired, queue, dropped>>

FetchForward ==
    /\ phase = "fetch" /\ plan.forward # {}
    /\ LET h == Least(plan.forward) IN
          \/ /\ ~Deferred(h)
             /\ StoreHour(h)
             /\ plan' = [plan EXCEPT !.forward = @ \ {h}]
          \/ /\ Deferred(h)
             /\ plan' = [plan EXCEPT !.forward = {}]
             /\ UNCHANGED marks
    /\ UNCHANGED <<now, published, user, days, phase, repaired, queue, dropped>>

FetchBackward ==
    /\ phase = "fetch" /\ plan.forward = {} /\ plan.backward # {}
    /\ LET h == Greatest(plan.backward) IN
          \/ /\ ~Deferred(h)
             /\ StoreHour(h)
             /\ plan' = [plan EXCEPT !.backward = @ \ {h}]
          \/ /\ Deferred(h)
             /\ plan' = [plan EXCEPT !.backward = {}]
             /\ UNCHANGED marks
    /\ UNCHANGED <<now, published, user, days, phase, repaired, queue, dropped>>

\* run_recheck: only an hour that now has rows of this league is a repair.
FetchRecheck ==
    /\ phase = "fetch" /\ plan.forward = {} /\ plan.backward = {} /\ plan.recheck # {}
    /\ LET h == Greatest(plan.recheck) IN
          /\ plan' = [plan EXCEPT !.recheck = @ \ {h}]
          /\ IF Deferred(h) THEN UNCHANGED marks ELSE StoreHour(h)
          /\ repaired' = IF HasRows(h) THEN repaired \cup {DayOf(h)} ELSE repaired
    /\ UNCHANGED <<now, published, user, days, phase, queue, dropped>>

RecheckFails_ForgetsTheRepaired ==
    /\ phase = "fetch" /\ plan.forward = {} /\ plan.backward = {} /\ plan.recheck # {}
    /\ spent.faults < MaxFaults
    /\ plan' = [plan EXCEPT !.recheck = {}]
    /\ repaired' = {}
    /\ spent' = [spent EXCEPT !.faults = @ + 1]
    /\ UNCHANGED <<now, published, settings, store, phase, queue, dropped>>

\* A request or a write fails on a second look: only that segment stops.
RecheckFails ==
    /\ phase = "fetch" /\ plan.forward = {} /\ plan.backward = {} /\ plan.recheck # {}
    /\ spent.faults < MaxFaults
    /\ plan' = [plan EXCEPT !.recheck = {}]
    /\ spent' = [spent EXCEPT !.faults = @ + 1]
    /\ UNCHANGED <<now, published, settings, store, phase, repaired, queue, dropped>>

\* ensure_exchange_day_rollups: the past days that need it and can be folded,
\* oldest first, at most DayBudget of them.
BeginFold ==
    /\ phase = "fetch" /\ plan.forward = {} /\ plan.backward = {} /\ plan.recheck = {}
    /\ phase' = "fold"
    /\ queue' = Oldest({d \in MarkedDays : d < DayOf(plan.at) /\ NeedsFold(d)}, DayBudget)
    /\ UNCHANGED <<now, published, user, store, plan, repaired, dropped>>

\* replace_exchange_day: the day's rows and its mark in one transaction.
FoldDay ==
    /\ phase = "fold" /\ queue # {}
    /\ LET d == Least(queue) IN
          /\ days' = [x \in DOMAIN days \cup {d} |->
                         IF x = d THEN [hours |-> MarksOf(d), summed |-> RowsOf(d)]
                         ELSE days[x]]
          /\ queue' = queue \ {d}
          /\ dropped' = dropped \ RowsOf(d)
    /\ UNCHANGED <<now, published, user, marks, phase, plan, repaired>>

\* prune_exchange_hours: the days older than the retention that have a day mark.
BeginPrune_OneDayEarly ==
    /\ phase = "fold" /\ queue = {}
    /\ phase' = "prune"
    /\ queue' = IF plan.retention = 0 THEN {}
                ELSE {d \in MarkedDays \cap DOMAIN days :
                         d <= DayOf(plan.at - plan.retention * HoursPerDay)}
    /\ UNCHANGED <<now, published, user, store, plan, repaired, dropped>>

BeginPrune ==
    /\ phase = "fold" /\ queue = {}
    /\ phase' = "prune"
    /\ queue' = IF plan.retention = 0 THEN {}
                ELSE {d \in MarkedDays \cap DOMAIN days :
                         d < DayOf(plan.at - plan.retention * HoursPerDay)}
    /\ UNCHANGED <<now, published, user, store, plan, repaired, dropped>>

\* delete_exchange_hours_of_day: rows and marks of one day in one transaction.
PruneDay ==
    /\ phase = "prune" /\ queue # {}
    /\ LET d == Least(queue) IN
          /\ marks' = [h \in DOMAIN marks \ MarksOf(d) |-> marks[h]]
          /\ queue' = queue \ {d}
    /\ UNCHANGED <<now, published, user, days, phase, plan, repaired, dropped>>

RoundOver == phase' = "idle" /\ plan' = NoPlan /\ repaired' = {} /\ queue' = {}

EndRound ==
    /\ phase = "prune" /\ queue = {}
    /\ RoundOver
    /\ UNCHANGED <<now, published, user, store, dropped>>

\* A request of the forward or backward segment fails: `?` ends the round
\* before the fold; what is stored stays stored.
FetchFails ==
    /\ phase = "fetch" /\ plan.forward \cup plan.backward # {}
    /\ spent.faults < MaxFaults
    /\ RoundOver
    /\ spent' = [spent EXCEPT !.faults = @ + 1]
    /\ UNCHANGED <<now, published, settings, store, dropped>>

\* The rows a recheck found that the line of their day does not have yet.
Overlooked ==
    {h \in DOMAIN marks : /\ marks[h].rows
                          /\ DayOf(h) \in repaired \cap DOMAIN days
                          /\ h \notin days[DayOf(h)].summed}

\* A transaction of the fold or the prune fails and `?` ends the round, or
\* the process dies at any point of it: only the tables survive.
Abort ==
    /\ phase # "idle"
    /\ spent.aborts < MaxAborts
    /\ RoundOver
    /\ spent' = [spent EXCEPT !.aborts = @ + 1]
    /\ dropped' = dropped \cup Overlooked
    /\ UNCHANGED <<now, published, settings, store>>

RoundStep ==
    \/ StartRound \/ FetchForward \/ FetchBackward \/ FetchRecheck
    \/ BeginFold \/ FoldDay \/ BeginPrune \/ PruneDay \/ EndRound

Next ==
    \/ Tick \/ Publish \/ ChangeSettings
    \/ RoundStep \/ RecheckFails \/ FetchFails \/ Abort

Spec == Init /\ [][Next]_vars

\* The executor keeps running a round, the chain starts another when one
\* ends (ExchangeChain!TheChainNeverStops), and time passes.
Fairness == WF_vars(RoundStep) /\ WF_vars(Tick)
FairSpec == Spec /\ Fairness

-----------------------------------------------------------------------------
(* Properties.                                                             *)

HourSet == SUBSET Hours

TypeOK ==
    /\ now \in FirstHour .. LastHour
    /\ published \in HourSet
    /\ settings \in Settings
    /\ DOMAIN marks \in HourSet
    /\ \A h \in DOMAIN marks : marks[h] \in [rows : BOOLEAN, fetched : FirstHour .. LastHour]
    /\ DOMAIN days \in SUBSET Days
    /\ \A d \in DOMAIN days : days[d] \in [hours : HourSet, summed : HourSet]
    /\ phase \in {"idle", "fetch", "fold", "prune"}
    /\ plan \in [at : 0 .. LastHour, retention : Nat,
                 forward : HourSet, backward : HourSet, recheck : HourSet]
    /\ repaired \in SUBSET Days
    /\ queue \in SUBSET Days
    /\ dropped \in HourSet
    /\ spent \in [faults : 0 .. MaxFaults, aborts : 0 .. MaxAborts, changes : 0 .. MaxChanges]

\* The league has trades in the hour, and the CDN serves them.
Served(h) == h \in published /\ h >= LeagueStart

\* Between the earliest mark and the watermark every hour is marked or lies in
\* a day folded in full: plan_fetch only ever starts above the watermark and
\* plan_backward below the earliest mark, so a hole between them would never
\* be filled.  Interrupted segments, crashes and prunes must not leave one.
NoHoleBetweenMarks ==
    DOMAIN marks # {} =>
        \A h \in EarliestMark .. Watermark : h \in DOMAIN marks \/ DayOf(h) \in FoldedDays

\* The day line is the only copy of a day whose hours are gone: a refold may
\* add hours to it and never drops one (exchange_rollup.rs, rule R4).
LineNeverShrinks ==
    \A d \in DOMAIN days : d \in DOMAIN days' /\ days[d].summed \subseteq days'[d].summed
DayLinesNeverShrink == [][LineNeverShrinks]_vars

\* A day folded in full is never fetched again ("fetched, folded, pruned,
\* fetched again" is the loop plan_backward's already_folded closes).
NoRefetch ==
    \A h \in DOMAIN marks' \ DOMAIN marks : DayOf(h) \notin FoldedDays
FoldedDaysAreNotRefetched == [][NoRefetch]_vars

\* The traded hours the program can still show the volume of: those with
\* their rows, and those summed into a day line.
Known == {h \in DOMAIN marks : marks[h].rows} \cup UNION {days[d].summed : d \in DOMAIN days}

\* Hours are learnt one at a time and never forgotten, a death in the round
\* excused: repaired_days is in memory only, so a line that was to be folded
\* again is not, its day's marks still agree with it, and the prune then takes
\* the rows.  What the line had, and every hour no recheck was after, stays.
Book == INSTANCE TradeBook WITH known <- Known \cup dropped, Traded <- {h \in Hours : h >= LeagueStart}
BookSpec == Book!Spec

\* The hours a round that starts now may count on: inside the window, and no
\* older than every hour the CDN still owes within the grace.
DueHours ==
    LET floor == PlanFloor(SeasonFloor(settings.season, now, settings.backfill), now, settings.backfill)
    IN  {h \in AtLeastOne(floor) .. NewestComplete(now) :
            \A g \in 1 .. h : g \in published \/ ConfirmedEmpty(g, now)}

\* Every due hour ends up marked or in a full day line, and stays there, in
\* spite of failed requests, failed transactions and crashes: the backlog is
\* worked off from the watermark and the earliest mark alone.
EventuallyCovered ==
    <>[](\A h \in DueHours : h \in DOMAIN marks \/ DayOf(h) \in FoldedDays)

\* An hour confirmed empty whose file appears late is counted in the end:
\* when the clock has run into its bound, the only late hours still missing
\* are out of the recheck horizon or were looked at less than RecheckStale ago.
LateHoursAreCounted ==
    <>[](\A h \in DOMAIN marks :
            HasRows(h) /\ h \notin Known =>
                \/ now - h >= RecheckHorizon
                \/ now - marks[h].fetched < RecheckStale)
=============================================================================
