------------------------------ MODULE RawLedger ------------------------------
(***************************************************************************)
(* The raw captures of one game and their daily summaries                  *)
(* (ptt-runtime/src/rollup.rs over ptt-storage).  The live pipeline stores *)
(* captures; whoever opens the Analytics page starts a background report   *)
(* that first rolls up the elapsed days and then prunes the raw days past  *)
(* the retention.  A refresh starts another report without waiting for the *)
(* last, and a watch rolls up before its first frame, so that several roll *)
(* up at once, one store call at a time.  The user meanwhile moves season  *)
(* boundaries and purges.                                                  *)
(*                                                                         *)
(* Time is counted in half-days.                                           *)
(***************************************************************************)
EXTENDS SeasonBook

CONSTANTS
    Pairs,           \* (need, have) pairs, over every stored context
    Unrollable,      \* pairs whose medians overflow a rollup row
    Reports,         \* the roll-ups that may run at once
    Watches,         \* those of a watch's thread; the others are of page reports
    Retention,       \* raw_retention_days, 0 is off
    MaxDaysPerRun,   \* MAX_ROLLUP_DAYS_PER_RUN
    Boundaries,      \* the times the user may type as a season boundary
    MaxClock, MaxCaptures, MaxEdits, MaxMishaps,   \* bounds of the instance
    MaxActs          \* bound on edits and captures together, a capture counting twice

Day(time) == time \div 2
Times == 0..MaxClock
Days == 0..Day(MaxClock)
Captures == [at : Times, pair : Pairs]

ASSUME RawAssumption ==
    /\ Unrollable \subseteq Pairs
    /\ Watches \subseteq Reports
    /\ {Retention, MaxClock, MaxCaptures, MaxEdits, MaxMishaps, MaxActs} \subseteq Nat
    /\ MaxDaysPerRun \in Nat \ {0}
    /\ Boundaries \subseteq Times /\ Open \notin Times

VARIABLES
    clock,
    pending,     \* taken by the watch, not yet stored
    raw,         \* market_snapshots with their quote_edges
    rolled,      \* pair_day_rollups: day |-> pair |-> the captures folded into the row
    marks,       \* rollup_marks: the days rolled up
    seasons,
    report,      \* each roll-up: where it is and what it has read
    stored, late, purged,    \* history: ever stored; after its day ended; deleted by the user
    overwritten,             \* history: the rows of days that a roll-up replaced although
                             \* they had been marked since it read the marks
    edits, mishaps

store == <<raw, rolled, marks>>
history == <<stored, late, purged, overwritten>>
vars == <<clock, pending, store, seasons, report, history, edits, mishaps>>

Idle == [at |-> "idle", today |-> 0, day |-> 0, count |-> 0, done |-> {}, edges |-> {}]

Init ==
    /\ clock = 0
    /\ pending = {} /\ raw = {} /\ marks = {} /\ seasons = {}
    /\ rolled = [d \in Days |-> [p \in Pairs |-> {}]]
    /\ report = [r \in Reports |-> Idle]
    /\ stored = {} /\ late = {} /\ purged = {} /\ overwritten = {}
    /\ edits = 0 /\ mishaps = 0

Mishap == mishaps < MaxMishaps /\ mishaps' = mishaps + 1
MayAct(cost) == 2 * Cardinality(stored \cup pending) + edits + cost <= MaxActs

OfDay(captures, day) == {c \in captures : Day(c.at) = day}
PairsOf(captures) == {c.pair : c \in captures}
Summarized(day) == {p \in Pairs : rolled[day][p] # {}}
EarliestDay(captures) == CHOOSE d \in Days : OfDay(captures, d) # {} /\ \A c \in captures : d <= Day(c.at)

-----------------------------------------------------------------------------
(* The live pipeline.  A capture carries the time it was taken and is      *)
(* stored, edges and all, in one transaction some seconds later, on the    *)
(* thread that rolls up before its first frame.                            *)

Take(pair) ==
    LET capture == [at |-> clock, pair |-> pair]
    IN  /\ pending = {} /\ capture \notin stored
        /\ \A w \in Watches : report[w].at = "idle"
        /\ Cardinality(stored) < MaxCaptures /\ MayAct(2)
        /\ pending' = {capture}
        /\ UNCHANGED <<clock, store, seasons, report, history, edits, mishaps>>

PersistCapture(c) ==
    /\ c \in pending
    /\ pending' = pending \ {c}
    /\ raw' = raw \cup {c}
    /\ stored' = stored \cup {c}
    /\ late' = IF Day(c.at) < Day(clock) THEN late \cup {c} ELSE late
    /\ UNCHANGED <<clock, rolled, marks, seasons, report, purged, overwritten, edits, mishaps>>

PersistFails ==
    /\ pending # {} /\ Mishap
    /\ pending' = {}
    /\ UNCHANGED <<clock, store, seasons, report, history, edits>>

\* Storing takes less than half a day, and so does one step of a report: the
\* clock waits for a capture taken a half-day ago, not for a report.
Tick ==
    /\ clock < MaxClock
    /\ \A c \in pending : c.at = clock
    /\ clock' = clock + 1
    /\ UNCHANGED <<pending, store, seasons, report, history, edits, mishaps>>

-----------------------------------------------------------------------------
(* A page report: load_analytics, which runs ensure_daily_rollups and then *)
(* prune_raw_days whatever came of the first.                              *)

Goes(r, state) == report' = [report EXCEPT ![r] = state]
Moves(r, at) == Goes(r, [report[r] EXCEPT !.at = at])
ReportOnly == UNCHANGED <<clock, pending, store, seasons, history, edits, mishaps>>

\* Refreshing the page spawns the report and forgets the one before it, which
\* goes on.
Begin(r) ==
    /\ r \notin Watches /\ report[r].at = "idle"
    /\ Goes(r, [Idle EXCEPT !.at = "earliest", !.today = Day(clock)])
    /\ ReportOnly

\* One watch at a time rolls up, before it watches; it does not prune.
BeginBaseline(r) ==
    /\ r \in Watches /\ \A w \in Watches : report[w].at = "idle"
    /\ pending = {}
    /\ Goes(r, [Idle EXCEPT !.at = "earliest", !.today = Day(clock)])
    /\ ReportOnly

FindEarliest(r) ==
    /\ report[r].at = "earliest"
    /\ IF raw = {} THEN Moves(r, "prune")
       ELSE Goes(r, [report[r] EXCEPT !.at = "marks", !.day = EarliestDay(raw)])
    /\ ReportOnly

\* The days already done are read once for the whole run.
ReadMarks(r) ==
    /\ report[r].at = "marks"
    /\ Goes(r, [report[r] EXCEPT !.at = "load", !.done = marks])
    /\ ReportOnly

\* Only elapsed days are rolled up.
Candidates_Again(state) == state.day..(state.today - 1)
Candidates(state) == {d \in state.day..(state.today - 1) : d \notin state.done}

\* A day with an overflowing row is skipped without a mark: a later build may
\* fold it.
Rollable(edges) == PairsOf(edges) \cap Unrollable = {}

LoadDay(r) ==
    LET state == report[r]
        day == CHOOSE d \in Candidates(state) : \A other \in Candidates(state) : d <= other
        edges == OfDay(raw, day)
    IN  /\ state.at = "load"
        /\ IF state.count = MaxDaysPerRun \/ Candidates(state) = {} THEN Moves(r, "prune")
           ELSE IF ~Rollable(edges) THEN Goes(r, [state EXCEPT !.day = day + 1])
           ELSE Goes(r, [state EXCEPT !.at = "replace", !.day = day, !.edges = edges])
        /\ ReportOnly

\* replace_day_rollups: rows and mark in one transaction.
Fold(edges) == [p \in Pairs |-> {c \in edges : c.pair = p}]

ReplaceDay(r) ==
    LET state == report[r] IN
    /\ state.at = "replace"
    /\ rolled' = [rolled EXCEPT ![state.day] = Fold(state.edges)]
    /\ marks' = marks \cup {state.day}
    /\ Goes(r, [state EXCEPT !.at = "load", !.day = @ + 1, !.count = @ + 1, !.edges = {}])
    /\ overwritten' = overwritten \cup
           (IF state.day \in marks \ state.done THEN {state.day} \X Summarized(state.day) ELSE {})
    /\ UNCHANGED <<clock, pending, raw, seasons, stored, late, purged, edits, mishaps>>

\* Any store call may fail; the page notes it and goes on with the pruning.
RollupFails(r) ==
    /\ report[r].at \in {"earliest", "marks", "load", "replace"}
    /\ Mishap
    /\ Goes(r, [report[r] EXCEPT !.at = "prune", !.edges = {}])
    /\ UNCHANGED <<clock, pending, store, seasons, history, edits>>

Prune(r) ==
    /\ report[r].at = "prune"
    /\ IF r \in Watches \/ Retention = 0 \/ raw = {} THEN Goes(r, Idle)
       ELSE Goes(r, [Idle EXCEPT !.at = "pairs", !.today = report[r].today, !.day = EarliestDay(raw)])
    /\ ReportOnly

Cutoff(state) == state.today - Retention

\* raw_pairs_on_day
ReadRawPairs(r) ==
    LET state == report[r] IN
    /\ state.at = "pairs"
    /\ IF state.day >= Cutoff(state) THEN Goes(r, Idle)
       ELSE IF OfDay(raw, state.day) = {} THEN Goes(r, [state EXCEPT !.day = @ + 1])
       ELSE Goes(r, [state EXCEPT !.at = "rolled", !.edges = OfDay(raw, state.day)])
    /\ ReportOnly

\* The rows are asked, not the marks: a pair without a row keeps its day.
MayDelete_TrustsMarks(state) == state.day \in marks
MayDelete(state) == PairsOf(state.edges) \subseteq Summarized(state.day)

CheckRollups(r) ==
    LET state == report[r] IN
    /\ state.at = "rolled"
    /\ IF MayDelete(state) THEN Goes(r, [state EXCEPT !.at = "delete", !.edges = {}])
       ELSE Goes(r, [state EXCEPT !.at = "pairs", !.day = @ + 1, !.edges = {}])
    /\ ReportOnly

DeleteRawDay(r) ==
    LET state == report[r] IN
    /\ state.at = "delete"
    /\ raw' = raw \ OfDay(raw, state.day)
    /\ Goes(r, [state EXCEPT !.at = "pairs", !.day = @ + 1])
    /\ UNCHANGED <<clock, pending, rolled, marks, seasons, history, edits, mishaps>>

PruneFails(r) ==
    /\ r \notin Watches /\ report[r].at \in {"prune", "pairs", "rolled", "delete"}
    /\ Mishap
    /\ Goes(r, Idle)
    /\ UNCHANGED <<clock, pending, store, seasons, history, edits>>

-----------------------------------------------------------------------------
(* The user.  The interface runs these to the end; a crash may come        *)
(* between the two statements of a season edit.                            *)

Edit == edits < MaxEdits /\ MayAct(1) /\ edits' = edits + 1

Crashed == pending' = {} /\ report' = [r \in Reports |-> Idle] /\ Mishap
Finished == UNCHANGED <<pending, report, mishaps>>

\* Two statements: half is the table after the first, whole after both.
TwoStatements(half, whole) ==
    \/ seasons' = whole /\ Finished
    \/ seasons' = half /\ Crashed

StartSeason(start) ==
    LET stamped == StampPrevious(seasons, start)
    IN  /\ Edit /\ MayStart(seasons, start)
        /\ TwoStatements(stamped, Insert(stamped, start))
        /\ UNCHANGED <<clock, store, history>>

EndSeason(end) ==
    /\ Edit /\ MayEnd(seasons, end)
    /\ seasons' = End(seasons, end)
    /\ UNCHANGED <<clock, pending, store, report, history, mishaps>>

AmendSeasonStart(start) ==
    LET dragged == DragPrevious(seasons, start)
    IN  /\ Edit /\ MayAmend(seasons, start)
        /\ TwoStatements(dragged, Restart(dragged, Newest(seasons), start))
        /\ UNCHANGED <<clock, store, history>>

\* purge_before_active_season, after the second click.
PurgeOldSeason ==
    LET old == {c \in raw : c.at < Newest(seasons).start}
    IN  /\ Edit /\ seasons # {}
        /\ raw' = raw \ old
        /\ purged' = purged \cup old
        /\ UNCHANGED <<clock, pending, rolled, marks, seasons, report, stored, late, overwritten, mishaps>>

Crash ==
    /\ \E r \in Reports : report[r].at # "idle"
    /\ Crashed
    /\ UNCHANGED <<clock, store, seasons, history, edits>>

-----------------------------------------------------------------------------

ReportStep(r) ==
    \/ Begin(r) \/ BeginBaseline(r) \/ FindEarliest(r) \/ ReadMarks(r) \/ LoadDay(r)
    \/ ReplaceDay(r) \/ RollupFails(r)
    \/ Prune(r) \/ ReadRawPairs(r) \/ CheckRollups(r) \/ DeleteRawDay(r) \/ PruneFails(r)

UserStep ==
    \/ \E t \in Boundaries : StartSeason(t) \/ EndSeason(t) \/ AmendSeasonStart(t)
    \/ PurgeOldSeason

Next ==
    \/ \E p \in Pairs : Take(p)
    \/ \E c \in pending : PersistCapture(c)
    \/ PersistFails \/ Tick \/ Crash
    \/ \E r \in Reports : ReportStep(r)
    \/ UserStep

Spec == Init /\ [][Next]_vars

-----------------------------------------------------------------------------

Stages == {"idle", "earliest", "marks", "load", "replace", "prune", "pairs", "rolled", "delete"}
ReportStates ==
    [at : Stages, today : Days, day : 0..(Day(MaxClock) + 1), count : 0..MaxDaysPerRun,
     done : SUBSET Days, edges : SUBSET Captures]

\* Every variable has its type; the folded captures are of the row's day and pair.
TypeOK ==
    /\ clock \in Times
    /\ pending \subseteq Captures /\ raw \subseteq Captures /\ marks \subseteq Days
    /\ rolled \in [Days -> [Pairs -> SUBSET Captures]]
    /\ \A d \in Days, p \in Pairs : \A c \in rolled[d][p] : Day(c.at) = d /\ c.pair = p
    /\ seasons \subseteq [start : Boundaries, end : Boundaries \cup {Open}]
    /\ report \in [Reports -> ReportStates]
    /\ stored \subseteq Captures /\ late \subseteq stored /\ purged \subseteq stored
    /\ overwritten \subseteq Days \X Pairs
    /\ edits \in 0..MaxEdits /\ mishaps \in 0..MaxMishaps

\* What can still be told of the market: the pairs that traded on a day, from
\* its raw captures, its summary, or because the user threw them away.
DayPairs(captures) == {<<Day(c.at), c.pair>> : c \in captures}
Told == DayPairs(raw \cup purged) \cup UNION {{d} \X Summarized(d) : d \in Days}

\* No pair's day is ever forgotten: rolling up, pruning and purging together
\* implement a book that only grows (rollup.rs, "never destroy un-summarized
\* data"), but for what was overwritten by a roll-up that had not seen the mark.
Book == INSTANCE TradeBook WITH Traded <- Days \X Pairs, known <- Told \cup overwritten
NothingIsForgotten == Book!Spec

\* Every capture the user has not purged is still there raw, or its pair has a
\* row on its day (rollup.rs: "the only barrier stopping a rebuild from
\* replacing real rollups with emptiness").
RawOrSummarized == DayPairs(stored) \subseteq Told

\* A summary once written never loses a capture (the marks are "the only
\* barrier stopping a rebuild from replacing real rollups with emptiness"), but
\* by a roll-up that read the marks before the day was marked.
SummariesSurvive ==
    [][\A d \in Days, p \in Pairs :
           rolled[d][p] \subseteq rolled'[d][p] \/ <<d, p>> \in overwritten']_vars

\* However boundaries are moved, and wherever a crash stops an edit, a season
\* ends after it starts and no two start together.
SeasonsHaveADuration ==
    /\ \A s \in seasons : s.end # Open => s.start < s.end
    /\ \A s, t \in seasons : s.start = t.start => s = t

\* start_season: the time line has no stretch in which two seasons run.
SeasonsNeverRunTogether ==
    \A s, t \in seasons : s.start < t.start => s.end # Open /\ s.end <= t.start

\* Two seasons come to run together only by a crash between the statements of
\* an edit, or because the newest one was given its end: ends that start_season
\* stamped follow the starts they were stamped for, also from a table that an
\* earlier crash left half edited.
SeasonsStayApart ==
    [][SeasonsNeverRunTogether =>
           \/ SeasonsNeverRunTogether'
           \/ mishaps' # mishaps
           \/ Newest(seasons).end # Open]_vars

\* amend_season_start: what was typed wrong can be corrected.  In particular an
\* amendment that a crash cut in two can be made again.
AmendCanBeRepeated ==
    [][\A t \in Boundaries : AmendSeasonStart(t) => MayAmend(seasons', t)]_vars
=============================================================================
