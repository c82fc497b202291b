---------------------------- MODULE ExchangePlan ----------------------------
(***************************************************************************)
(* The hour-grid arithmetic of the official exchange history               *)
(* (ptt-exchange-history/src/plan.rs): which hours a sync round fetches    *)
(* going forward, going back, and on a second look.                        *)
(*                                                                         *)
(* Time is counted in whole hours.  An hour is named by its index; `now`   *)
(* is an instant some minutes after the start of hour `now`, as it is in   *)
(* the code whenever it does not run exactly on the hour.  The code's      *)
(* vectors are ordered and duplicate-free, so a plan is a set of hours     *)
(* together with the end it is consumed from.                              *)
(***************************************************************************)
EXTENDS Integers, FiniteSets

CONSTANTS
    HoursPerDay,      \* 24 in the code
    EmptyGrace,       \* EMPTY_HOUR_GRACE_SECONDS, 3 hours
    RecheckStale,     \* RECHECK_STALE_SECONDS, one day
    RecheckHorizon,   \* RECHECK_HORIZON_SECONDS, seven days
    HourBudget,       \* max_hours_per_run, 48 in run_sync_round
    RecheckBudget,    \* max_hours of plan_recheck, 4 in run_sync_round
    NoHour            \* the Option::None of a watermark, an earliest mark or a season start

ASSUME PlanAssumption ==
    /\ {HoursPerDay, EmptyGrace, RecheckStale, RecheckHorizon,
        HourBudget, RecheckBudget} \subseteq Nat \ {0}
    /\ NoHour \notin Int

DayOf(hour) == hour \div HoursPerDay
HoursOf(day) == (day * HoursPerDay) .. (day * HoursPerDay + HoursPerDay - 1)

Least(S) == CHOOSE x \in S : \A y \in S : x <= y
Greatest(S) == CHOOSE x \in S : \A y \in S : x >= y

\* The n smallest and the n largest members of a finite set of integers.
Oldest(S, n) == {x \in S : Cardinality({y \in S : y < x}) < n}
Newest(S, n) == {x \in S : Cardinality({y \in S : y > x}) < n}

\* An empty file is final only once the publication delay cannot explain it.
ConfirmedEmpty(hour, now) == now - hour >= EmptyGrace

NewestComplete(now) == now - 1

\* The window floor of run_sync_round when a season is running: not before
\* the season's start and not before the window the user asked for.  The
\* window starts `backfill` days before an instant inside hour `now`, so its
\* first whole hour is the next one.
SeasonFloor(season, now, backfill) ==
    LET window == now - backfill * HoursPerDay + 1
    IN  IF season = NoHour THEN NoHour
        ELSE IF season > window THEN season ELSE window

\* The lower end both plans share: the season floor, or the default window.
PlanFloor(floor, now, backfill) ==
    IF floor = NoHour
    THEN NewestComplete(now) - backfill * HoursPerDay + 1
    ELSE floor

AtLeastOne(hour) == IF hour < 1 THEN 1 ELSE hour

\* plan_fetch: ascending from just above the watermark (from the floor on a
\* cold start) to the newest complete hour, at most HourBudget of them.
PlanFetch_SkipsOne(watermark, now, floor, backfill) ==
    LET start == IF watermark = NoHour
                 THEN AtLeastOne(PlanFloor(floor, now, backfill))
                 ELSE watermark + 2
    IN  IF NewestComplete(now) <= 0 THEN {}
        ELSE {h \in start .. NewestComplete(now) : h < start + HourBudget}

PlanFetch(watermark, now, floor, backfill) ==
    LET start == IF watermark = NoHour
                 THEN AtLeastOne(PlanFloor(floor, now, backfill))
                 ELSE watermark + 1
    IN  IF NewestComplete(now) <= 0 THEN {}
        ELSE {h \in start .. NewestComplete(now) : h < start + HourBudget}

\* plan_backward: descending from just below the earliest mark to the floor,
\* skipping the days already folded in full.
PlanBackward_IgnoresFolded(earliest, now, floor, backfill, budget, Folded) ==
    IF earliest = NoHour THEN {}
    ELSE Newest(AtLeastOne(PlanFloor(floor, now, backfill)) .. (earliest - 1), budget)

PlanBackward(earliest, now, floor, backfill, budget, Folded) ==
    IF earliest = NoHour THEN {}
    ELSE Newest({h \in AtLeastOne(PlanFloor(floor, now, backfill)) .. (earliest - 1) :
                     DayOf(h) \notin Folded},
                budget)

\* plan_recheck: the newest of the hours once confirmed empty that were not
\* looked at for RecheckStale and are still inside the horizon.  `marks` maps
\* a marked hour to [rows, fetched]: whether the league had rows in it, and
\* when the mark was last written.
PlanRecheck_SwappedLimits(marks, now) ==
    Newest({h \in DOMAIN marks :
                /\ ~marks[h].rows
                /\ now - marks[h].fetched >= RecheckHorizon
                /\ now - h < RecheckStale},
           RecheckBudget)

PlanRecheck(marks, now) ==
    Newest({h \in DOMAIN marks :
                /\ ~marks[h].rows
                /\ now - marks[h].fetched >= RecheckStale
                /\ now - h < RecheckHorizon},
           RecheckBudget)
=============================================================================
