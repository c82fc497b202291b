-------------------------- MODULE RawLedger_proofs --------------------------
(***************************************************************************)
(* Proofs about RawLedger, for any pairs, retention, boundaries, reports,  *)
(* watches and bounds.                                                     *)
(***************************************************************************)
EXTENDS RawLedger, WellFoundedInduction, TLAPS

-----------------------------------------------------------------------------
(* Least and greatest.                                                     *)

LEMMA Least ==
    ASSUME NEW S, S \subseteq Nat, S # {}
    PROVE  \E n \in S : \A m \in S : n <= m
<1>1. IsWellFoundedOn(OpToRel(<, Nat), Nat)
  BY NatLessThanWellFounded
<1>2. PICK n \in S : \A m \in S : ~(<<m, n>> \in OpToRel(<, Nat))
  BY <1>1, WFMin
<1>3. ASSUME NEW m \in S PROVE n <= m
  <2>1. ~(m < n)
    BY <1>2 DEF OpToRel
  <2> QED BY <2>1
<1> QED BY <1>3

LEMMA DayTypes ==
    /\ MaxClock \in Nat /\ Days \subseteq Nat /\ Times \subseteq Nat
    /\ \A t \in Times : Day(t) \in Days
    /\ \A t, u \in Nat : t <= u => Day(t) <= Day(u)
    /\ \A t \in Nat : Day(t) \in Nat /\ Day(t + 1) <= Day(t) + 1
<1>1. MaxClock \in Nat
  BY RawAssumption
<1>2. \A t, u \in Nat : t <= u => t \div 2 <= u \div 2
  OBVIOUS
<1>3. \A t \in Nat : t \div 2 \in Nat /\ (t + 1) \div 2 <= (t \div 2) + 1
  OBVIOUS
<1> QED BY <1>1, <1>2, <1>3 DEF Days, Times, Day

LEMMA EarliestExists ==
    ASSUME NEW captures, captures \subseteq Captures, captures # {}
    PROVE  EarliestDay(captures) \in Days
<1> DEFINE D == {Day(c.at) : c \in captures}
<1>1. D \subseteq Days /\ D \subseteq Nat /\ D # {}
  BY DayTypes DEF Captures
<1> HIDE DEF D
<1>2. PICK n \in D : \A m \in D : n <= m
  BY <1>1, Least
<1>3. n \in Days /\ OfDay(captures, n) # {} /\ \A c \in captures : n <= Day(c.at)
  BY <1>1, <1>2 DEF D, OfDay
<1> QED BY <1>3 DEF EarliestDay

-----------------------------------------------------------------------------
(* Types.                                                                  *)

StoreTyped ==
    /\ clock \in Times
    /\ pending \subseteq Captures /\ raw \subseteq Captures /\ marks \subseteq Days
    /\ rolled \in [Days -> [Pairs -> SUBSET Captures]]
    /\ \A d \in Days, p \in Pairs : \A c \in rolled[d][p] : Day(c.at) = d /\ c.pair = p
    /\ stored \subseteq Captures /\ late \subseteq stored /\ purged \subseteq stored
    /\ raw \subseteq stored
    /\ overwritten \subseteq Days \X Pairs

SeasonsTyped == seasons \subseteq [start : Boundaries, end : Boundaries \cup {Open}]

CountsTyped == edits \in 0..MaxEdits /\ mishaps \in 0..MaxMishaps

\* A capture is stored within the half-day it was taken in, or the next.
Recent == \A c \in pending : clock <= c.at + 1 /\ c.at <= clock

\* Where a report has got to is a day it may be at.
Fits(state, now) ==
    /\ state.at \in {"replace", "rolled", "delete"} => state.day \in Days
    /\ state.at = "replace" =>
           state.count # MaxDaysPerRun /\ \A c \in state.edges : Day(c.at) = state.day
    /\ state.today <= Day(now)
    /\ state.at \in {"pairs", "rolled", "delete"} => Retention # 0
    /\ state.at \in {"rolled", "delete"} => state.day < state.today - Retention

ReportsTyped ==
    /\ report \in [Reports -> ReportStates]
    /\ \A r \in Reports : Fits(report[r], clock)

Types == StoreTyped /\ CountsTyped /\ Recent /\ ReportsTyped

LEMMA BoundTypes ==
    /\ Retention \in Nat /\ MaxEdits \in Nat /\ MaxMishaps \in Nat /\ MaxCaptures \in Nat
    /\ MaxDaysPerRun \in Nat \ {0} /\ Day(MaxClock) \in Nat
BY RawAssumption, DayTypes

LEMMA IdleTypes == \A now \in Times : Idle \in ReportStates /\ Fits(Idle, now)
<1>1. Idle \in ReportStates
  BY BoundTypes DEF Idle, ReportStates, Stages, Days
<1>2. \A now \in Times : Fits(Idle, now)
  BY DayTypes DEF Idle, Fits
<1> QED BY <1>1, <1>2

LEMMA ReportFields ==
    ASSUME NEW w \in ReportStates
    PROVE  /\ w.at \in Stages /\ w.today \in Days /\ w.day \in 0..(Day(MaxClock) + 1)
           /\ w.count \in 0..MaxDaysPerRun /\ w.done \subseteq Days /\ w.edges \subseteq Captures
           /\ w.day \in Nat /\ w.today \in Nat /\ w.today <= Day(MaxClock)
<1>1. /\ w.at \in Stages /\ w.today \in Days /\ w.day \in 0..(Day(MaxClock) + 1)
      /\ w.count \in 0..MaxDaysPerRun /\ w.done \subseteq Days /\ w.edges \subseteq Captures
  BY DEF ReportStates
<1> QED BY <1>1, BoundTypes DEF Days

LEMMA ReportGoes ==
    ASSUME ReportsTyped, NEW r \in Reports, NEW s, s \in ReportStates, Fits(s, clock), Goes(r, s),
           clock' = clock
    PROVE  ReportsTyped' /\ report'[r] = s /\ \A q \in Reports : q # r => report'[q] = report[q]
<1>1. /\ report' \in [Reports -> ReportStates] /\ report'[r] = s
      /\ \A q \in Reports : q # r => report'[q] = report[q]
  BY DEF ReportsTyped, Goes
<1>2. \A q \in Reports : Fits(report'[q], clock')
  <2> SUFFICES ASSUME NEW q \in Reports PROVE Fits(report'[q], clock)
    OBVIOUS
  <2>1. CASE q = r
    BY <1>1, <2>1
  <2>2. CASE q # r
    BY <1>1, <2>2 DEF ReportsTyped
  <2> QED BY <2>1, <2>2
<1> QED BY <1>1, <1>2 DEF ReportsTyped

LEMMA TypesInit == Init => Types
<1> SUFFICES ASSUME Init PROVE Types
  OBVIOUS
<1> USE DEF Init
<1>1. StoreTyped
  BY DayTypes, BoundTypes DEF StoreTyped, Times
<1>2. CountsTyped /\ Recent
  BY BoundTypes DEF CountsTyped, Recent
<1>3. ReportsTyped
  BY DayTypes, IdleTypes DEF ReportsTyped, Times
<1> QED BY <1>1, <1>2, <1>3 DEF Types

\* The least candidate is one.
LEMMA FirstCandidate ==
    ASSUME NEW w \in ReportStates, Candidates(w) # {}
    PROVE  LET day == CHOOSE d \in Candidates(w) : \A other \in Candidates(w) : d <= other
           IN  /\ day \in Candidates(w) /\ \A other \in Candidates(w) : day <= other
               /\ day \in Days /\ day \in Nat /\ w.day <= day /\ day < w.today
<1>1. /\ w.day \in Nat /\ w.today \in Nat /\ w.today <= Day(MaxClock) /\ Day(MaxClock) \in Nat
  BY ReportFields, BoundTypes
<1>2. Candidates(w) \subseteq Nat
      /\ \A d \in Candidates(w) : d \in Days /\ w.day <= d /\ d < w.today
  BY <1>1 DEF Candidates, Days
<1>3. \E d \in Candidates(w) : \A other \in Candidates(w) : d <= other
  BY <1>2, Least
<1> QED BY <1>2, <1>3

-----------------------------------------------------------------------------
(* Each action keeps the types.                                            *)

LEMMA PipelineKeepsTypes ==
    ASSUME Types,
           \/ \E p \in Pairs : Take(p)
           \/ \E c \in pending : PersistCapture(c)
           \/ PersistFails \/ Tick
    PROVE  Types'
<1> USE DEF Types
<1>1. CASE \E p \in Pairs : Take(p)
  <2>1. PICK p \in Pairs : Take(p)
    BY <1>1
  <2>2. [at |-> clock, pair |-> p] \in Captures /\ clock \in Nat
    BY DayTypes DEF Captures, StoreTyped
  <2>3. StoreTyped' /\ CountsTyped' /\ ReportsTyped'
    BY <2>1, <2>2 DEF Take, StoreTyped, CountsTyped, ReportsTyped, store, history
  <2>4. Recent'
    BY <2>1, <2>2 DEF Take, Recent
  <2> QED BY <2>3, <2>4
<1>2. CASE \E c \in pending : PersistCapture(c)
  <2>1. PICK c \in pending : PersistCapture(c)
    BY <1>2
  <2>2. late' \subseteq stored' /\ purged' \subseteq stored' /\ raw' \subseteq stored'
        /\ stored' \subseteq Captures
    BY <2>1 DEF PersistCapture, StoreTyped
  <2>3. StoreTyped'
    BY <2>1, <2>2 DEF PersistCapture, StoreTyped
  <2>4. CountsTyped' /\ ReportsTyped' /\ Recent'
    BY <2>1 DEF PersistCapture, CountsTyped, ReportsTyped, Recent
  <2> QED BY <2>3, <2>4
<1>3. CASE PersistFails
  <2>1. StoreTyped' /\ ReportsTyped' /\ Recent'
    BY <1>3 DEF PersistFails, StoreTyped, ReportsTyped, Recent, store, history
  <2>2. CountsTyped'
    BY <1>3, BoundTypes DEF PersistFails, Mishap, CountsTyped
  <2> QED BY <2>1, <2>2
<1>4. CASE Tick
  <2>1. clock \in Nat /\ clock' = clock + 1 /\ clock' \in Times /\ clock' \in Nat
    BY <1>4, DayTypes DEF Tick, StoreTyped, Times
  <2>2. StoreTyped' /\ CountsTyped'
    BY <1>4, <2>1 DEF Tick, StoreTyped, CountsTyped, store, history
  <2>3. Recent'
    BY <1>4, <2>1 DEF Tick, Recent
  <2>4. Day(clock) \in Nat /\ Day(clock') \in Nat /\ Day(clock) <= Day(clock')
    BY <2>1, DayTypes
  <2>5. ReportsTyped'
    <3>1. report' = report
      BY <1>4 DEF Tick
    <3>2. \A r \in Reports : report[r].today \in Nat
      BY ReportFields DEF ReportsTyped
    <3>3. ASSUME NEW r \in Reports PROVE Fits(report[r], clock')
      BY <2>4, <3>2 DEF ReportsTyped, Fits
    <3> QED BY <3>1, <3>3 DEF ReportsTyped
  <2> QED BY <2>2, <2>3, <2>5
<1> QED BY <1>1, <1>2, <1>3, <1>4

\* A step that moves one report and leaves the rest alone.
LEMMA ReportOnlyKeepsTypes ==
    ASSUME Types, NEW r \in Reports, NEW s, s \in ReportStates, Fits(s, clock), Goes(r, s),
           UNCHANGED <<clock, pending, store, seasons, history, edits>>,
           mishaps' \in 0..MaxMishaps
    PROVE  Types'
<1> USE DEF Types
<1>1. StoreTyped' /\ Recent'
  BY DEF StoreTyped, Recent, store, history
<1>2. CountsTyped'
  BY DEF CountsTyped
<1>3. ReportsTyped'
  BY ReportGoes
<1> QED BY <1>1, <1>2, <1>3

LEMMA ReportFacts ==
    ASSUME Types, NEW r \in Reports
    PROVE  /\ report[r] \in ReportStates /\ Fits(report[r], clock)
           /\ report[r].today <= Day(clock) /\ Day(clock) \in Days
           /\ report[r].day \in Nat /\ report[r].today \in Nat /\ Day(clock) \in Nat
           /\ clock \in Nat /\ Retention \in Nat /\ raw \subseteq Captures
           /\ report[r].edges \subseteq Captures /\ report[r].done \subseteq Days
BY ReportFields, DayTypes, BoundTypes DEF Types, ReportsTyped, StoreTyped, Fits

LEMMA RollupKeepsTypes ==
    ASSUME Types, NEW r \in Reports,
           Begin(r) \/ BeginBaseline(r) \/ FindEarliest(r) \/ ReadMarks(r) \/ LoadDay(r) \/ RollupFails(r)
    PROVE  Types'
<1> DEFINE w == report[r]
<1>1. w \in ReportStates /\ Fits(w, clock) /\ mishaps \in 0..MaxMishaps
  BY ReportFacts DEF Types, CountsTyped
<1>2. /\ w.at \in Stages /\ w.today \in Days /\ w.day \in 0..(Day(MaxClock) + 1)
      /\ w.count \in 0..MaxDaysPerRun /\ w.done \subseteq Days /\ w.edges \subseteq Captures
  BY <1>1, ReportFields
<1>3. Days \subseteq 0..(Day(MaxClock) + 1) /\ 0 \in 0..MaxDaysPerRun /\ {} \subseteq Captures
  BY BoundTypes, DayTypes DEF Days
<1> HIDE DEF w
<1>4. ASSUME NEW at \in Stages, NEW s, s \in {[w EXCEPT !.at = at], [w EXCEPT !.at = at, !.edges = {}]},
             at \notin {"replace", "pairs", "rolled", "delete"}
      PROVE  s \in ReportStates /\ Fits(s, clock)
  <2>1. CASE s = [w EXCEPT !.at = at]
    <3>1. s \in ReportStates /\ s.at = at /\ s.today = w.today
      BY <1>1, <1>2, <2>1 DEF ReportStates
    <3> QED BY <1>1, <1>4, <3>1 DEF Fits
  <2>2. CASE s = [w EXCEPT !.at = at, !.edges = {}]
    <3>1. s \in ReportStates /\ s.at = at /\ s.today = w.today
      BY <1>1, <1>2, <1>3, <2>2 DEF ReportStates
    <3> QED BY <1>1, <1>4, <3>1 DEF Fits
  <2> QED BY <1>4, <2>1, <2>2
<1>5. CASE Begin(r) \/ BeginBaseline(r)
  <2> DEFINE s == [Idle EXCEPT !.at = "earliest", !.today = Day(clock)]
  <2>1. Idle \in ReportStates /\ Day(clock) \in Days /\ Day(clock) \in Nat
    BY IdleTypes, ReportFacts DEF Types, StoreTyped
  <2>2. s \in ReportStates /\ s.at = "earliest" /\ s.today = Day(clock)
    BY <2>1 DEF ReportStates, Stages
  <2> HIDE DEF s
  <2>3. Fits(s, clock)
    BY <2>1, <2>2 DEF Fits
  <2>4. Goes(r, s) /\ ReportOnly
    BY <1>5 DEF Begin, BeginBaseline, s
  <2> QED BY <1>1, <2>2, <2>3, <2>4, ReportOnlyKeepsTypes DEF ReportOnly
<1>6. CASE FindEarliest(r)
  <2> DEFINE s == [w EXCEPT !.at = "marks", !.day = EarliestDay(raw)]
             t == [w EXCEPT !.at = "prune"]
  <2>1. CASE raw # {}
    <3>1. EarliestDay(raw) \in 0..(Day(MaxClock) + 1)
      BY <1>3, <2>1, EarliestExists DEF Types, StoreTyped
    <3>2. s \in ReportStates /\ s.at = "marks" /\ s.today = w.today
      BY <1>1, <1>2, <3>1 DEF ReportStates, Stages
    <3>4. Fits(s, clock)
      BY <1>1, <3>2 DEF Fits
    <3>3. Goes(r, s) /\ ReportOnly
      BY <1>6, <2>1 DEF FindEarliest, w
    <3> QED BY <1>1, <3>2, <3>3, <3>4, ReportOnlyKeepsTypes DEF ReportOnly
  <2>2. CASE raw = {}
    <3>1. t \in ReportStates /\ Fits(t, clock)
      BY <1>4 DEF Stages
    <3>2. Goes(r, t) /\ ReportOnly
      BY <1>6, <2>2 DEF FindEarliest, Moves, w
    <3> QED BY <1>1, <3>1, <3>2, ReportOnlyKeepsTypes DEF ReportOnly
  <2> QED BY <2>1, <2>2
<1>7. CASE ReadMarks(r)
  <2> DEFINE s == [w EXCEPT !.at = "load", !.done = marks]
  <2>1. s \in ReportStates /\ s.at = "load" /\ s.today = w.today
    BY <1>1, <1>2 DEF ReportStates, Stages, Types, StoreTyped
  <2>2. Goes(r, s) /\ ReportOnly
    BY <1>7 DEF ReadMarks, w
  <2>3. Fits(s, clock)
    BY <1>1, <2>1 DEF Fits
  <2> QED BY <1>1, <2>1, <2>2, <2>3, ReportOnlyKeepsTypes DEF ReportOnly
<1>8. CASE LoadDay(r)
  <2> DEFINE day == CHOOSE d \in Candidates(w) : \A other \in Candidates(w) : d <= other
             edges == OfDay(raw, day)
             t == [w EXCEPT !.at = "prune"]
             s == [w EXCEPT !.day = day + 1]
             u == [w EXCEPT !.at = "replace", !.day = day, !.edges = edges]
  <2>0. ReportOnly /\ w.at = "load"
    BY <1>8 DEF LoadDay, w
  <2>1. CASE w.count = MaxDaysPerRun \/ Candidates(w) = {}
    <3>1. t \in ReportStates /\ Fits(t, clock)
      BY <1>4 DEF Stages
    <3>2. Goes(r, t)
      BY <1>8, <2>1 DEF LoadDay, Moves, w
    <3> QED BY <1>1, <2>0, <3>1, <3>2, ReportOnlyKeepsTypes DEF ReportOnly
  <2>2. CASE ~(w.count = MaxDaysPerRun \/ Candidates(w) = {})
    <3>1. day \in Days /\ day \in Nat /\ day + 1 \in 0..(Day(MaxClock) + 1)
          /\ day \in 0..(Day(MaxClock) + 1)
      <4>1. day \in Days /\ day \in Nat
        BY <1>1, <2>2, FirstCandidate
      <4> HIDE DEF day
      <4> QED BY <4>1, BoundTypes DEF Days
    <3>2. edges \subseteq Captures /\ \A c \in edges : Day(c.at) = day
      BY DEF OfDay, Types, StoreTyped
    <3> HIDE DEF day, edges
    <3>3. s \in ReportStates /\ Fits(s, clock)
      <4>1. s \in ReportStates /\ s.at = "load" /\ s.today = w.today
        BY <1>1, <1>2, <2>0, <3>1 DEF ReportStates
      <4> QED BY <1>1, <4>1 DEF Fits
    <3>4. u \in ReportStates /\ Fits(u, clock)
      <4>1. /\ u \in ReportStates /\ u.at = "replace" /\ u.day = day /\ u.edges = edges
            /\ u.count = w.count /\ u.today = w.today
        BY <1>1, <1>2, <3>1, <3>2 DEF ReportStates, Stages
      <4> HIDE DEF u
      <4> QED BY <1>1, <2>2, <3>1, <3>2, <4>1 DEF Fits
    <3>5. Goes(r, s) \/ Goes(r, u)
      BY <1>8, <2>2 DEF LoadDay, w, day, edges
    <3> HIDE DEF s, u
    <3> QED BY <1>1, <2>0, <3>3, <3>4, <3>5, ReportOnlyKeepsTypes DEF ReportOnly
  <2> QED BY <2>1, <2>2
<1>9. CASE RollupFails(r)
  <2> DEFINE s == [w EXCEPT !.at = "prune", !.edges = {}]
  <2>1. s \in ReportStates /\ Fits(s, clock)
    BY <1>4 DEF Stages
  <2>2. /\ Goes(r, s) /\ mishaps' \in 0..MaxMishaps
        /\ UNCHANGED <<clock, pending, store, seasons, history, edits>>
    BY <1>1, <1>9, BoundTypes DEF RollupFails, Mishap, w
  <2> QED BY <2>1, <2>2, ReportOnlyKeepsTypes
<1> QED BY <1>5, <1>6, <1>7, <1>8, <1>9 DEF w

LEMMA ReplaceKeepsTypes ==
    ASSUME Types, NEW r \in Reports, ReplaceDay(r)
    PROVE  Types'
<1> DEFINE w == report[r]
           s == [w EXCEPT !.at = "load", !.day = @ + 1, !.count = @ + 1, !.edges = {}]
           rows == Fold(w.edges)
<1>1. w \in ReportStates /\ Fits(w, clock) /\ w.at = "replace"
  BY ReportFacts DEF ReplaceDay
<1>2. /\ w.at \in Stages /\ w.today \in Days /\ w.day \in 0..(Day(MaxClock) + 1)
      /\ w.count \in 0..MaxDaysPerRun /\ w.done \subseteq Days /\ w.edges \subseteq Captures
  BY <1>1, ReportFields
<1>3. /\ w.day \in Days /\ w.count # MaxDaysPerRun /\ \A c \in w.edges : Day(c.at) = w.day
  BY <1>1 DEF Fits
<1>4. /\ Goes(r, s) /\ rolled' = [rolled EXCEPT ![w.day] = rows] /\ marks' = marks \cup {w.day}
      /\ UNCHANGED <<clock, pending, raw, seasons, stored, late, purged, edits, mishaps>>
      /\ overwritten' \subseteq overwritten \cup ({w.day} \X Summarized(w.day))
  BY DEF ReplaceDay
<1> HIDE DEF w
<1>5. w.day + 1 \in 0..(Day(MaxClock) + 1) /\ w.count + 1 \in 0..MaxDaysPerRun
  BY <1>2, <1>3, BoundTypes DEF Days
<1>6. s \in ReportStates /\ s.at = "load" /\ s.today = w.today
  BY <1>1, <1>2, <1>5 DEF ReportStates, Stages
<1>7. Fits(s, clock)
  BY <1>1, <1>6 DEF Fits
<1>8. rows \in [Pairs -> SUBSET Captures]
      /\ \A p \in Pairs : \A c \in rows[p] : Day(c.at) = w.day /\ c.pair = p
  BY <1>2, <1>3 DEF Fold
<1> HIDE DEF s, rows
<1>9. ReportsTyped'
  BY <1>4, <1>6, <1>7, ReportGoes DEF Types
<1>10. CountsTyped' /\ Recent'
  BY <1>4 DEF Types, CountsTyped, Recent
<1>11. StoreTyped'
  <2>1. rolled' \in [Days -> [Pairs -> SUBSET Captures]]
    BY <1>4, <1>8, <1>3 DEF Types, StoreTyped
  <2>2. ASSUME NEW d \in Days, NEW p \in Pairs, NEW c \in rolled'[d][p]
        PROVE  Day(c.at) = d /\ c.pair = p
    <3>1. CASE d = w.day
      <4>1. rolled'[d] = rows
        BY <1>4, <1>3, <3>1 DEF Types, StoreTyped
      <4> QED BY <4>1, <2>2, <3>1, <1>8
    <3>2. CASE d # w.day
      <4>1. rolled'[d] = rolled[d]
        BY <1>4, <3>2 DEF Types, StoreTyped
      <4> QED BY <4>1, <2>2 DEF Types, StoreTyped
    <3> QED BY <3>1, <3>2
  <2>3. marks' \subseteq Days
    BY <1>3, <1>4 DEF Types, StoreTyped
  <2>4. overwritten' \subseteq Days \X Pairs
    BY <1>3, <1>4 DEF Types, StoreTyped, Summarized
  <2> QED BY <1>4, <2>1, <2>2, <2>3, <2>4 DEF Types, StoreTyped
<1> QED BY <1>9, <1>10, <1>11 DEF Types

LEMMA PruneKeepsTypes ==
    ASSUME Types, NEW r \in Reports,
           Prune(r) \/ ReadRawPairs(r) \/ CheckRollups(r) \/ DeleteRawDay(r) \/ PruneFails(r)
    PROVE  Types'
<1> DEFINE w == report[r]
<1>1. w \in ReportStates /\ Fits(w, clock) /\ mishaps \in 0..MaxMishaps /\ w.today <= Day(clock)
  BY ReportFacts DEF Types, CountsTyped
<1>2. /\ w.at \in Stages /\ w.today \in Days /\ w.day \in 0..(Day(MaxClock) + 1)
      /\ w.count \in 0..MaxDaysPerRun /\ w.done \subseteq Days /\ w.edges \subseteq Captures
      /\ w.day \in Nat /\ w.today \in Nat /\ w.today <= Day(MaxClock)
  BY <1>1, ReportFields
<1>3. Days \subseteq 0..(Day(MaxClock) + 1) /\ Retention \in Nat /\ Day(MaxClock) \in Nat
  BY BoundTypes, DayTypes DEF Days
<1>4. Idle \in ReportStates /\ Fits(Idle, clock)
  BY IdleTypes DEF Types, StoreTyped
<1>5. CASE Prune(r)
  <2> DEFINE s == [Idle EXCEPT !.at = "pairs", !.today = w.today, !.day = EarliestDay(raw)]
  <2>1. CASE r \in Watches \/ Retention = 0 \/ raw = {}
    <3>1. Goes(r, Idle) /\ ReportOnly
      BY <1>5, <2>1 DEF Prune
    <3> QED BY <1>1, <1>4, <3>1, ReportOnlyKeepsTypes DEF ReportOnly
  <2>2. CASE ~(r \in Watches \/ Retention = 0 \/ raw = {})
    <3>1. EarliestDay(raw) \in 0..(Day(MaxClock) + 1)
      BY <1>3, <2>2, EarliestExists DEF Types, StoreTyped
    <3>2. s \in ReportStates /\ s.at = "pairs" /\ s.today = w.today
      BY <1>2, <1>4, <3>1 DEF ReportStates, Stages
    <3>3. Goes(r, s) /\ ReportOnly
      BY <1>5, <2>2 DEF Prune
    <3> HIDE DEF s, w
    <3>4. Fits(s, clock)
      BY <1>1, <2>2, <3>2 DEF Fits
    <3> QED BY <1>1, <3>2, <3>3, <3>4, ReportOnlyKeepsTypes DEF ReportOnly
  <2> QED BY <2>1, <2>2
<1>6. CASE ReadRawPairs(r)
  <2> DEFINE s == [w EXCEPT !.day = @ + 1]
             u == [w EXCEPT !.at = "rolled", !.edges = OfDay(raw, w.day)]
  <2>0. ReportOnly /\ w.at = "pairs"
    BY <1>6 DEF ReadRawPairs
  <2>1. CASE w.day >= Cutoff(w)
    <3>1. Goes(r, Idle)
      BY <1>6, <2>1 DEF ReadRawPairs
    <3> QED BY <1>1, <1>4, <2>0, <3>1, ReportOnlyKeepsTypes DEF ReportOnly
  <2>2. CASE ~(w.day >= Cutoff(w))
    <3>1. Goes(r, s) \/ Goes(r, u)
      BY <1>6, <2>2 DEF ReadRawPairs
    <3>2. OfDay(raw, w.day) \subseteq Captures
      BY DEF OfDay, Types, StoreTyped
    <3> HIDE DEF w
    <3>3. w.day < w.today - Retention /\ w.day \in Days /\ w.day + 1 \in 0..(Day(MaxClock) + 1)
      BY <1>2, <1>3, <2>2 DEF Cutoff, Days
    <3>4. s \in ReportStates /\ s.at = "pairs" /\ s.today = w.today
      BY <1>1, <1>2, <2>0, <3>3 DEF ReportStates
    <3>5. /\ u \in ReportStates /\ u.at = "rolled" /\ u.today = w.today /\ u.day = w.day
      BY <1>1, <1>2, <3>2 DEF ReportStates, Stages
    <3> HIDE DEF s, u
    <3>6. Fits(s, clock) /\ Fits(u, clock)
      BY <1>1, <2>0, <3>3, <3>4, <3>5 DEF Fits
    <3> QED BY <1>1, <2>0, <3>1, <3>4, <3>5, <3>6, ReportOnlyKeepsTypes DEF ReportOnly
  <2> QED BY <2>1, <2>2
<1>7. CASE CheckRollups(r)
  <2> DEFINE s == [w EXCEPT !.at = "delete", !.edges = {}]
             u == [w EXCEPT !.at = "pairs", !.day = @ + 1, !.edges = {}]
  <2>0. ReportOnly /\ w.at = "rolled" /\ (Goes(r, s) \/ Goes(r, u))
    BY <1>7 DEF CheckRollups
  <2> HIDE DEF w
  <2>1. /\ w.day < w.today - Retention /\ w.day \in Days /\ w.day + 1 \in 0..(Day(MaxClock) + 1)
        /\ Retention # 0
    BY <1>1, <1>2, <1>3, <2>0 DEF Fits, Days
  <2>2. s \in ReportStates /\ s.at = "delete" /\ s.today = w.today /\ s.day = w.day
    BY <1>1, <1>2, <2>0 DEF ReportStates, Stages
  <2>3. u \in ReportStates /\ u.at = "pairs" /\ u.today = w.today
    BY <1>1, <1>2, <2>1 DEF ReportStates, Stages
  <2> HIDE DEF s, u
  <2>4. Fits(s, clock) /\ Fits(u, clock)
    BY <1>1, <2>1, <2>2, <2>3 DEF Fits
  <2> QED BY <1>1, <2>0, <2>2, <2>3, <2>4, ReportOnlyKeepsTypes DEF ReportOnly
<1>8. CASE DeleteRawDay(r)
  <2> DEFINE u == [w EXCEPT !.at = "pairs", !.day = @ + 1]
  <2>0. /\ w.at = "delete" /\ Goes(r, u) /\ raw' = raw \ OfDay(raw, w.day)
        /\ UNCHANGED <<clock, pending, rolled, marks, seasons, history, edits, mishaps>>
    BY <1>8 DEF DeleteRawDay
  <2> HIDE DEF w
  <2>1. w.day + 1 \in 0..(Day(MaxClock) + 1) /\ Retention # 0
    BY <1>1, <1>2, <1>3, <2>0 DEF Fits, Days
  <2>2. u \in ReportStates /\ u.at = "pairs" /\ u.today = w.today
    BY <1>1, <1>2, <2>1 DEF ReportStates, Stages
  <2> HIDE DEF u
  <2>3. Fits(u, clock)
    BY <1>1, <2>1, <2>2 DEF Fits
  <2>4. ReportsTyped'
    BY <2>0, <2>2, <2>3, ReportGoes DEF Types
  <2>5. StoreTyped' /\ Recent' /\ CountsTyped'
    BY <2>0 DEF Types, StoreTyped, Recent, CountsTyped, history
  <2> QED BY <2>4, <2>5 DEF Types
<1>9. CASE PruneFails(r)
  <2>1. /\ Goes(r, Idle) /\ mishaps' \in 0..MaxMishaps
        /\ UNCHANGED <<clock, pending, store, seasons, history, edits>>
    BY <1>1, <1>9, BoundTypes DEF PruneFails, Mishap
  <2> QED BY <1>4, <2>1, ReportOnlyKeepsTypes
<1> QED BY <1>5, <1>6, <1>7, <1>8, <1>9

LEMMA OthersKeepTypes ==
    ASSUME Types, UserStep \/ Crash \/ UNCHANGED vars
    PROVE  Types'
<1>1. CASE UNCHANGED vars
  <2>1. StoreTyped' /\ Recent' /\ CountsTyped' /\ ReportsTyped'
    BY <1>1 DEF Types, StoreTyped, Recent, CountsTyped, ReportsTyped, vars, store, history
  <2> QED BY <2>1 DEF Types
<1>2. ASSUME UNCHANGED <<clock, store, history>>, edits' \in 0..MaxEdits, Crashed \/ Finished
      PROVE  Types'
  <2>1. StoreTyped' /\ Recent'
    BY <1>2 DEF Types, StoreTyped, Recent, store, history, Crashed, Finished
  <2>2. CountsTyped'
    BY <1>2, BoundTypes DEF Types, CountsTyped, Crashed, Finished, Mishap
  <2>3. ReportsTyped'
    <3>1. CASE Finished
      BY <1>2, <3>1 DEF Finished, Types, ReportsTyped
    <3>2. CASE Crashed
      <4>1. Idle \in ReportStates /\ Fits(Idle, clock)
        BY IdleTypes DEF Types, StoreTyped
      <4>2. report' = [r \in Reports |-> Idle] /\ clock' = clock
        BY <1>2, <3>2 DEF Crashed
      <4> QED BY <4>1, <4>2 DEF ReportsTyped
    <3> QED BY <1>2, <3>1, <3>2
  <2> QED BY <2>1, <2>2, <2>3 DEF Types
<1>3. edits \in 0..MaxEdits
  BY DEF Types, CountsTyped
<1>4. Edit => edits' \in 0..MaxEdits
  BY <1>3, BoundTypes DEF Edit
<1>5. CASE \E t \in Boundaries : StartSeason(t) \/ EndSeason(t) \/ AmendSeasonStart(t)
  <2>1. UNCHANGED <<clock, store, history>> /\ Edit /\ (Crashed \/ Finished)
    BY <1>5 DEF StartSeason, EndSeason, AmendSeasonStart, TwoStatements, Finished
  <2> QED BY <1>2, <1>4, <2>1
<1>6. CASE PurgeOldSeason
  <2>1. StoreTyped' /\ Recent' /\ ReportsTyped'
    BY <1>6 DEF PurgeOldSeason, Types, StoreTyped, Recent, ReportsTyped
  <2>2. CountsTyped'
    BY <1>4, <1>6 DEF PurgeOldSeason, Types, CountsTyped
  <2> QED BY <2>1, <2>2 DEF Types
<1>7. CASE Crash
  BY <1>2, <1>3, <1>7 DEF Crash
<1> QED BY <1>1, <1>5, <1>6, <1>7 DEF UserStep

-----------------------------------------------------------------------------
(* The season table.  An edit may stop after its first statement, so what  *)
(* it keeps is kept by each of the two.                                    *)

Rows == [start : Boundaries, end : Boundaries \cup {Open}]

\* No two seasons start together, and each ends after it starts.
Lasting(S) ==
    /\ S \subseteq Rows
    /\ \A s \in S : s.end # Open => s.start < s.end
    /\ \A s, t \in S : s.start = t.start => s = t

LEMMA RowTypes ==
    ASSUME NEW s \in Rows, NEW time \in Boundaries
    PROVE  /\ s.start \in Boundaries /\ s.end \in Boundaries \cup {Open}
           /\ time \in Nat /\ time # Open /\ time <= MaxClock /\ s.start \in Nat
           /\ s.start <= MaxClock /\ MaxClock \in Nat /\ (s.end # Open => s.end \in Nat)
           /\ Closed(s, time) \in Rows /\ Closed(s, time).start = s.start /\ Closed(s, time).end = time
           /\ [s EXCEPT !.start = time] \in Rows /\ [s EXCEPT !.start = time].start = time
           /\ [s EXCEPT !.start = time].end = s.end
<1>1. Boundaries \subseteq Nat /\ MaxClock \in Nat /\ Open \notin Boundaries
      /\ \A t \in Boundaries : t <= MaxClock
  <2>1. Boundaries \subseteq Times /\ Open \notin Times /\ MaxClock \in Nat
    BY RawAssumption
  <2>2. \A t \in Times : t \in Nat /\ t <= MaxClock
    BY <2>1 DEF Times
  <2> QED BY <2>1, <2>2
<1>2. s.start \in Boundaries /\ s.end \in Boundaries \cup {Open}
  BY DEF Rows
<1>3. /\ Closed(s, time) \in Rows /\ Closed(s, time).start = s.start /\ Closed(s, time).end = time
  BY DEF Rows, Closed
<1>4. /\ [s EXCEPT !.start = time] \in Rows /\ [s EXCEPT !.start = time].start = time
      /\ [s EXCEPT !.start = time].end = s.end
  BY DEF Rows
<1> QED BY <1>1, <1>2, <1>3, <1>4

LEMMA NewestExists ==
    ASSUME NEW S, S \subseteq Rows, S # {}
    PROVE  Newest(S) \in S /\ \A other \in S : other.start <= Newest(S).start
<1> DEFINE D == {MaxClock - s.start : s \in S}
<1>1. \A s \in S : s.start \in Nat /\ s.start <= MaxClock /\ MaxClock \in Nat
  BY RowTypes DEF Rows
<1>2. D \subseteq Nat /\ D # {}
  BY <1>1
<1> HIDE DEF D
<1>3. PICK n \in D : \A m \in D : n <= m
  BY <1>2, Least
<1>4. PICK s \in S : n = MaxClock - s.start
  BY <1>3 DEF D
<1>5. ASSUME NEW other \in S PROVE other.start <= s.start
  <2>1. MaxClock - other.start \in D
    BY DEF D
  <2> QED BY <1>1, <1>3, <1>4, <2>1
<1> QED BY <1>5 DEF Newest

\* Changing one row.
LEMMA SwapLasts ==
    ASSUME NEW S, Lasting(S), NEW old \in S, NEW new \in Rows,
           new.end # Open => new.start < new.end,
           \A s \in S : s # old => s.start # new.start
    PROVE  Lasting(Swap(S, old, new))
<1>1. \A s \in Swap(S, old, new) : s = new \/ (s \in S /\ s # old)
  BY DEF Swap
<1>2. Swap(S, old, new) \subseteq Rows
  BY DEF Swap, Lasting
<1>3. \A s \in Swap(S, old, new) : s.end # Open => s.start < s.end
  BY <1>1 DEF Lasting
<1>4. \A s, t \in Swap(S, old, new) : s.start = t.start => s = t
  BY <1>1 DEF Lasting
<1> QED BY <1>2, <1>3, <1>4 DEF Lasting

\* Ending a season after it has started.
LEMMA CloseLasts ==
    ASSUME NEW S, Lasting(S), NEW s \in S, NEW time \in Boundaries, s.start < time
    PROVE  Lasting(Swap(S, s, Closed(s, time)))
<1>1. /\ s \in Rows /\ Closed(s, time) \in Rows /\ Closed(s, time).start = s.start
      /\ Closed(s, time).end = time
  BY RowTypes DEF Lasting
<1>2. \A t \in S : t # s => t.start # Closed(s, time).start
  BY <1>1 DEF Lasting
<1> QED BY <1>1, <1>2, SwapLasts

LEMMA StartLasts ==
    ASSUME NEW S, Lasting(S), NEW time \in Boundaries, MayStart(S, time)
    PROVE  /\ Lasting(StampPrevious(S, time))
           /\ Lasting(Insert(StampPrevious(S, time), time))
<1> DEFINE half == StampPrevious(S, time)
           new == [start |-> time, end |-> Open]
<1>1. \A s \in S : s \in Rows /\ s.start \in Nat /\ s.start < time
  <2> SUFFICES ASSUME NEW s \in S PROVE s \in Rows /\ s.start \in Nat /\ s.start < time
    OBVIOUS
  <2>1. Newest(S) \in S /\ s.start <= Newest(S).start
    BY NewestExists DEF Lasting
  <2>2. Newest(S).start < time /\ s \in Rows /\ Newest(S) \in Rows /\ time \in Nat
    BY <2>1, RowTypes DEF Lasting, MayStart
  <2>3. s.start \in Nat /\ Newest(S).start \in Nat
    BY <2>2, RowTypes
  <2> QED BY <2>1, <2>2, <2>3
<1>2. Lasting(half) /\ \A s \in half : s.start \in Nat /\ s.start < time
  <2>1. CASE S = {} \/ Newest(S).end # Open
    BY <1>1, <2>1 DEF StampPrevious
  <2>2. CASE ~(S = {} \/ Newest(S).end # Open)
    <3>1. Newest(S) \in S
      BY <2>2, NewestExists DEF Lasting
    <3>2. half = Swap(S, Newest(S), Closed(Newest(S), time))
      BY <2>2 DEF StampPrevious
    <3>3. Closed(Newest(S), time).start = Newest(S).start
      BY <1>1, <3>1, RowTypes
    <3>4. \A s \in half : s.start \in Nat /\ s.start < time
      BY <1>1, <3>1, <3>2, <3>3 DEF Swap
    <3> QED BY <1>1, <3>1, <3>2, <3>4, CloseLasts
  <2> QED BY <2>1, <2>2
<1>3. new \in Rows
  BY DEF Rows
<1>4. time \in Nat
  BY <1>3, RowTypes
<1>5. \A s \in Insert(half, time) : s = new \/ s \in half
  BY DEF Insert
<1> HIDE DEF half
<1>6. Insert(half, time) \subseteq Rows
  BY <1>2, <1>3 DEF Insert, Lasting
<1>7. \A s \in Insert(half, time) : s.end # Open => s.start < s.end
  BY <1>2, <1>5 DEF Lasting
<1>8. \A s, t \in Insert(half, time) : s.start = t.start => s = t
  BY <1>2, <1>4, <1>5 DEF Lasting
<1> QED BY <1>2, <1>6, <1>7, <1>8 DEF Lasting, half

LEMMA EndLasts ==
    ASSUME NEW S, Lasting(S), NEW time \in Boundaries, MayEnd(S, time)
    PROVE  Lasting(End(S, time))
<1>1. Newest(S) \in S /\ Newest(S) \in Rows
  BY NewestExists DEF MayEnd, Lasting
<1>2. Newest(S).start < time
  BY <1>1, RowTypes DEF MayEnd
<1> QED BY <1>1, <1>2, CloseLasts DEF End

LEMMA AmendLasts ==
    ASSUME NEW S, Lasting(S), NEW time \in Boundaries, MayAmend(S, time)
    PROVE  /\ Lasting(DragPrevious(S, time))
           /\ Lasting(Restart(DragPrevious(S, time), Newest(S), time))
<1> DEFINE half == DragPrevious(S, time)
           newest == Newest(S)
           previous == Newest(Earlier(S))
           moved == [newest EXCEPT !.start = time]
<1>1. newest \in S /\ newest \in Rows /\ time \in Nat
  BY NewestExists, RowTypes DEF MayAmend, Lasting
<1>2. Earlier(S) \subseteq S /\ newest \notin Earlier(S)
      /\ \A s \in S : s = newest \/ s \in Earlier(S)
  BY DEF Earlier
<1>3. ASSUME Earlier(S) # {}
      PROVE  /\ previous \in Earlier(S) /\ previous.start \in Nat /\ previous.start < time
             /\ \A s \in Earlier(S) : s.start \in Nat /\ s.start < time
  <2>1. /\ previous \in Earlier(S) /\ Earlier(S) \subseteq Rows
        /\ \A s \in Earlier(S) : s.start <= previous.start
    BY <1>2, <1>3, NewestExists DEF Lasting
  <2>2. /\ previous \in Rows /\ previous.start \in Nat
        /\ (previous.end # Open => previous.end \in Nat /\ previous.start < previous.end)
    BY <1>2, <2>1, RowTypes DEF Lasting
  <2>3. PreviousEdge(S) \in Nat /\ previous.start <= PreviousEdge(S)
    BY <2>2 DEF PreviousEdge
  <2>4. PreviousEdge(S) < time
    BY <1>3, <1>1, <2>3 DEF MayAmend
  <2>5. previous.start < time
    BY <1>1, <2>2, <2>3, <2>4
  <2>6. \A s \in Earlier(S) : s.start \in Nat
    BY <2>1, RowTypes
  <2> HIDE DEF previous
  <2> QED BY <1>1, <2>1, <2>2, <2>5, <2>6
<1>4. /\ Lasting(half) /\ newest \in half
      /\ \A s \in half : s # newest => s.start \in Nat /\ s.start < time
  <2>1. CASE ~AutoEnded(S)
    BY <1>1, <1>2, <1>3, <2>1 DEF DragPrevious
  <2>2. CASE AutoEnded(S)
    <3>1. Earlier(S) # {} /\ half = Swap(S, previous, Closed(previous, time))
      BY <2>2 DEF AutoEnded, DragPrevious
    <3>2. previous \in S /\ previous # newest /\ previous \in Rows
      BY <1>2, <1>3, <3>1 DEF Lasting
    <3>3. Closed(previous, time).start = previous.start
      BY <3>2, RowTypes
    <3> HIDE DEF previous, half
    <3>4. Lasting(half)
      BY <1>3, <3>1, <3>2, CloseLasts
    <3>5. newest \in half
      BY <1>1, <3>1, <3>2 DEF Swap
    <3>6. \A s \in half : s # newest => s.start \in Nat /\ s.start < time
      BY <1>2, <1>3, <3>1, <3>3 DEF Swap
    <3> QED BY <3>4, <3>5, <3>6
  <2> QED BY <2>1, <2>2
<1>5. moved \in Rows /\ moved.start = time /\ moved.end = newest.end
  BY <1>1, RowTypes
<1>6. moved.end # Open => moved.start < moved.end
  BY <1>5 DEF MayAmend
<1>7. \A s \in half : s # newest => s.start # moved.start
  BY <1>1, <1>4, <1>5
<1> HIDE DEF half, newest, moved
<1>8. Lasting(Swap(half, newest, moved))
  BY <1>4, <1>5, <1>6, <1>7, SwapLasts
<1> QED BY <1>4, <1>8 DEF Restart, half, newest, moved

\* Only the edits touch the table.
LEMMA SeasonsFrame ==
    ASSUME [Next]_vars
    PROVE  \/ UNCHANGED seasons
           \/ \E t \in Boundaries : StartSeason(t) \/ EndSeason(t) \/ AmendSeasonStart(t)
<1>1. CASE \E r \in Reports : ReportStep(r)
  BY <1>1 DEF ReportStep, Begin, BeginBaseline, FindEarliest, ReadMarks, LoadDay, ReplaceDay, RollupFails,
     Prune, ReadRawPairs, CheckRollups, DeleteRawDay, PruneFails, ReportOnly
<1>2. CASE \/ \E p \in Pairs : Take(p)
           \/ \E c \in pending : PersistCapture(c)
           \/ PersistFails \/ Tick \/ Crash \/ PurgeOldSeason \/ UNCHANGED vars
  BY <1>2 DEF Take, PersistCapture, PersistFails, Tick, Crash, PurgeOldSeason, vars
<1> QED BY <1>1, <1>2 DEF Next, UserStep

\* The table holds seasons that last, in every state.
LEMMA SeasonsStep ==
    ASSUME Lasting(seasons), [Next]_vars
    PROVE  Lasting(seasons')
<1>1. CASE \E t \in Boundaries : StartSeason(t)
  <2>1. PICK t \in Boundaries : StartSeason(t)
    BY <1>1
  <2>2. MayStart(seasons, t)
    BY <2>1 DEF StartSeason
  <2>3. \/ seasons' = Insert(StampPrevious(seasons, t), t)
        \/ seasons' = StampPrevious(seasons, t)
    BY <2>1 DEF StartSeason, TwoStatements
  <2> QED BY <2>2, <2>3, StartLasts
<1>2. CASE \E t \in Boundaries : EndSeason(t)
  BY <1>2, EndLasts DEF EndSeason
<1>3. CASE \E t \in Boundaries : AmendSeasonStart(t)
  <2>1. PICK t \in Boundaries : AmendSeasonStart(t)
    BY <1>3
  <2>2. MayAmend(seasons, t)
    BY <2>1 DEF AmendSeasonStart
  <2>3. \/ seasons' = Restart(DragPrevious(seasons, t), Newest(seasons), t)
        \/ seasons' = DragPrevious(seasons, t)
    BY <2>1 DEF AmendSeasonStart, TwoStatements
  <2> QED BY <2>2, <2>3, AmendLasts
<1>4. CASE UNCHANGED seasons
  BY <1>4
<1> QED BY <1>1, <1>2, <1>3, <1>4, SeasonsFrame

\* However the boundaries are moved, and wherever a crash stops an edit
\* between its two statements, a season ends after it starts and no two start
\* together (start_season, end_season, amend_season_start).
THEOREM SeasonsLast == Spec => []SeasonsHaveADuration
<1>1. Init => Lasting(seasons)
  BY DEF Init, Lasting
<1>2. Lasting(seasons) /\ [Next]_vars => Lasting(seasons)'
  BY SeasonsStep
<1>3. Lasting(seasons) => SeasonsHaveADuration
  BY DEF Lasting, SeasonsHaveADuration
<1> QED BY <1>1, <1>2, <1>3, PTL DEF Spec

LEMMA TypesStep == Types /\ [Next]_vars => Types'
BY PipelineKeepsTypes, RollupKeepsTypes, ReplaceKeepsTypes, PruneKeepsTypes, OthersKeepTypes
   DEF Next, ReportStep

\* Every variable keeps its type; a row folds captures of its own pair and
\* day (RollupRow, rollup_marks).
THEOREM StoreTypes == Spec => []TypeOK
<1> DEFINE J == Types /\ Lasting(seasons)
<1>1. Init => J
  BY TypesInit DEF Init, Lasting
<1>2. J /\ [Next]_vars => J'
  BY TypesStep, SeasonsStep
<1>3. J => TypeOK
  BY DEF Types, StoreTyped, CountsTyped, ReportsTyped, Lasting, Rows, TypeOK
<1> HIDE DEF J
<1> QED BY <1>1, <1>2, <1>3, PTL DEF Spec

-----------------------------------------------------------------------------
(* Seasons that do not run together.  The newest season of a table that is *)
(* apart comes after all the others, which are apart among themselves; a   *)
(* whole edit puts a newest season back after the same others, or after    *)
(* others whose newest it has given its end.                               *)

Apart(S) == \A s, t \in S : s.start < t.start => s.end # Open /\ s.end <= t.start
Over(S, time) == \A s \in S : s.start < time /\ s.end # Open /\ s.end <= time

LEMMA PutNewest ==
    ASSUME NEW S, S \subseteq Rows, Apart(S), NEW new \in Rows, Over(S, new.start)
    PROVE  Apart(S \cup {new})
<1>1. new.start \in Boundaries
  BY DEF Rows
<1>2. new.start \in Nat /\ \A s \in S : s.start \in Nat
  BY <1>1, RowTypes
<1> QED BY <1>2 DEF Apart, Over

LEMMA OverLater ==
    ASSUME NEW S, S \subseteq Rows, NEW a \in Boundaries, NEW b \in Boundaries, Over(S, a), a <= b
    PROVE  Over(S, b)
<1> SUFFICES ASSUME NEW s \in S PROVE s.start < b /\ s.end # Open /\ s.end <= b
  BY DEF Over
<1>1. s \in Rows /\ s.start < a /\ s.end # Open /\ s.end <= a
  BY DEF Over
<1>2. s.start \in Nat /\ s.end \in Nat /\ a \in Nat /\ b \in Nat
  BY <1>1, RowTypes
<1> QED BY <1>1, <1>2

LEMMA NewestIsLast ==
    ASSUME NEW S, Lasting(S), Apart(S), S # {}
    PROVE  /\ Newest(S) \in S /\ Newest(S) \in Rows /\ Newest(S) \notin Earlier(S)
           /\ Earlier(S) \subseteq Rows /\ Lasting(Earlier(S)) /\ Apart(Earlier(S))
           /\ Over(Earlier(S), Newest(S).start)
<1>1. /\ S \subseteq Rows /\ Newest(S) \in S /\ \A s \in S : s.start <= Newest(S).start
      /\ Earlier(S) \subseteq S
  BY NewestExists DEF Lasting, Earlier
<1>2. Newest(S) \notin Earlier(S) /\ Lasting(Earlier(S)) /\ Apart(Earlier(S))
  BY <1>1 DEF Earlier, Lasting, Apart
<1>3. ASSUME NEW s \in Earlier(S)
      PROVE  s.start < Newest(S).start /\ s.end # Open /\ s.end <= Newest(S).start
  <2>1. s \in S /\ s.start # Newest(S).start /\ s.start <= Newest(S).start
    BY <1>1, <1>2 DEF Lasting
  <2>2. s.start \in Nat /\ Newest(S).start \in Nat
    BY <1>1, <2>1, RowTypes DEF Rows
  <2>3. s.start < Newest(S).start
    BY <2>1, <2>2
  <2> QED BY <1>1, <2>1, <2>3 DEF Apart
<1> QED BY <1>1, <1>2, <1>3 DEF Over

\* The newest season is given its end.
LEMMA CloseApart ==
    ASSUME NEW S, Lasting(S), Apart(S), S # {}, NEW time \in Boundaries, Newest(S).start < time
    PROVE  LET half == Swap(S, Newest(S), Closed(Newest(S), time))
           IN  half \subseteq Rows /\ Apart(half) /\ Over(half, time)
<1> DEFINE half == Swap(S, Newest(S), Closed(Newest(S), time))
           closed == Closed(Newest(S), time)
<1>1. /\ Newest(S) \in Rows /\ Earlier(S) \subseteq Rows /\ Apart(Earlier(S))
      /\ Over(Earlier(S), Newest(S).start)
  BY NewestIsLast
<1>2. /\ closed \in Rows /\ closed.start = Newest(S).start /\ closed.end = time
      /\ Newest(S).start \in Boundaries /\ Newest(S).start \in Nat /\ time \in Nat /\ time # Open
  BY <1>1, RowTypes
<1>3. half = Earlier(S) \cup {closed}
  BY DEF Swap, Earlier
<1> HIDE DEF half, closed
<1>4. half \subseteq Rows /\ Apart(half)
  BY <1>1, <1>2, <1>3, PutNewest
<1>5. Over(Earlier(S), time)
  BY <1>1, <1>2, OverLater
<1>6. Over(half, time)
  BY <1>2, <1>3, <1>5 DEF Over
<1> QED BY <1>4, <1>6 DEF half

LEMMA StartApart ==
    ASSUME NEW S, Lasting(S), Apart(S), NEW time \in Boundaries, MayStart(S, time),
           S # {} => Newest(S).end = Open
    PROVE  Apart(Insert(StampPrevious(S, time), time))
<1> DEFINE half == StampPrevious(S, time)
           new == [start |-> time, end |-> Open]
<1>1. new \in Rows /\ new.start = time
  BY DEF Rows
<1>2. half \subseteq Rows /\ Apart(half) /\ Over(half, time)
  <2>1. CASE S = {}
    BY <2>1 DEF StampPrevious, Apart, Over
  <2>2. CASE S # {}
    <3>1. Newest(S).start < time
      <4>1. Newest(S) \in Rows
        BY <2>2, NewestIsLast
      <4> QED BY <2>2, <4>1, RowTypes DEF MayStart
    <3>2. half = Swap(S, Newest(S), Closed(Newest(S), time))
      BY <2>2 DEF StampPrevious
    <3> QED BY <2>2, <3>1, <3>2, CloseApart
  <2> QED BY <2>1, <2>2
<1> HIDE DEF half
<1>3. Apart(half \cup {new})
  BY <1>1, <1>2, PutNewest
<1> QED BY <1>3 DEF Insert, half

LEMMA EndApart ==
    ASSUME NEW S, Lasting(S), Apart(S), NEW time \in Boundaries, MayEnd(S, time)
    PROVE  Apart(End(S, time))
<1>1. S # {} /\ Newest(S) \in Rows
  BY NewestIsLast DEF MayEnd
<1>2. Newest(S).start < time
  BY <1>1, RowTypes DEF MayEnd
<1> QED BY <1>1, <1>2, CloseApart DEF End

LEMMA AmendApart ==
    ASSUME NEW S, Lasting(S), Apart(S), NEW time \in Boundaries, MayAmend(S, time)
    PROVE  Apart(Restart(DragPrevious(S, time), Newest(S), time))
<1> DEFINE newest == Newest(S)
           previous == Newest(Earlier(S))
           moved == [newest EXCEPT !.start = time]
           half == DragPrevious(S, time)
           rest == half \ {newest}
<1>1. S # {} /\ time \in Nat
  BY DayTypes, RawAssumption DEF MayAmend
<1>2. /\ newest \in S /\ newest \in Rows /\ newest \notin Earlier(S)
      /\ Earlier(S) \subseteq Rows /\ Lasting(Earlier(S)) /\ Apart(Earlier(S))
      /\ Over(Earlier(S), newest.start)
  BY <1>1, NewestIsLast
<1>3. moved \in Rows /\ moved.start = time
  BY <1>2, RowTypes
<1>4. Restart(half, newest, time) = rest \cup {moved}
  BY DEF Restart, Swap
<1>5. rest \subseteq Rows /\ Apart(rest) /\ Over(rest, time)
  <2>1. CASE Earlier(S) = {}
    <3>1. half = S
      BY <2>1 DEF DragPrevious, AutoEnded
    <3>2. rest = {}
      BY <2>1, <3>1 DEF Earlier
    <3> QED BY <3>2 DEF Apart, Over
  <2>2. CASE Earlier(S) # {}
    <3>1. /\ previous \in Earlier(S) /\ previous \in Rows
          /\ Over(Earlier(Earlier(S)), previous.start)
      BY <1>2, <2>2, NewestIsLast
    <3>2. PreviousEdge(S) < time /\ previous.end # Open /\ previous.start < previous.end
      <4>1. previous.end # Open /\ previous.start < previous.end
        BY <1>2, <3>1 DEF Over, Lasting
      <4>2. PreviousEdge(S) \in {previous.start, previous.end} /\ previous.start \in Nat
            /\ previous.end \in Nat
        BY <3>1, <4>1, RowTypes DEF PreviousEdge
      <4> HIDE DEF previous
      <4> QED BY <1>1, <2>2, <4>1, <4>2 DEF MayAmend
    <3>3. CASE AutoEnded(S)
      <4>1. PreviousEdge(S) = previous.start
        BY <3>3 DEF PreviousEdge
      <4>2. half = Swap(S, previous, Closed(previous, time))
        BY <3>3 DEF DragPrevious
      <4>3. Closed(previous, time) # newest
        <5>1. Closed(previous, time).start = previous.start
          BY <3>1, RowTypes
        <5>2. previous.start < newest.start /\ previous.start \in Nat
          BY <1>2, <3>1, RowTypes DEF Over
        <5> QED BY <5>1, <5>2
      <4>4. rest = Swap(Earlier(S), previous, Closed(previous, time))
        BY <4>2, <4>3, <1>2, <3>1 DEF Swap, Earlier
      <4> HIDE DEF rest
      <4> QED BY <1>2, <2>2, <3>2, <4>1, <4>4, CloseApart
    <3>4. CASE ~AutoEnded(S)
      <4>1. PreviousEdge(S) = previous.end /\ half = S
        BY <3>2, <3>4 DEF PreviousEdge, DragPrevious
      <4>2. rest = Earlier(S)
        BY <4>1 DEF Earlier
      <4>3. /\ previous.start \in Boundaries /\ previous.end \in Boundaries
            /\ previous.start \in Nat /\ previous.end \in Nat
        BY <3>1, <3>2, RowTypes
      <4>4. previous.end <= time /\ previous.start <= previous.end
        BY <1>1, <3>2, <4>1, <4>3
      <4>5. Over(Earlier(Earlier(S)), previous.end)
        <5>1. Earlier(Earlier(S)) \subseteq Rows
          BY <1>2 DEF Earlier
        <5> QED BY <3>1, <4>3, <4>4, <5>1, OverLater
      <4>6. \A s \in Earlier(S) : s.start < previous.end /\ s.end # Open /\ s.end <= previous.end
        <5>1. \A s \in Earlier(S) : s = previous \/ s \in Earlier(Earlier(S))
          BY DEF Earlier
        <5> QED BY <3>2, <4>3, <4>5, <5>1 DEF Over
      <4>7. Over(Earlier(S), time)
        BY <1>2, <4>3, <4>4, <4>6, OverLater DEF Over
      <4> QED BY <1>2, <4>2, <4>7
    <3> QED BY <3>3, <3>4
  <2> QED BY <2>1, <2>2
<1> HIDE DEF rest, half, newest, moved
<1>6. Apart(rest \cup {moved})
  BY <1>3, <1>5, PutNewest
<1> QED BY <1>4, <1>6 DEF half, newest

\* Two seasons come to run together only by a crash between the statements of
\* an edit, or because the newest one was given its end before the next was
\* started (start_season, end_season, amend_season_start): for any number of
\* seasons, edits and earlier crashes.
THEOREM SeasonsKeepApart == Spec => SeasonsStayApart
<1> DEFINE J == Types /\ Lasting(seasons)
           Stays == SeasonsNeverRunTogether =>
                        \/ SeasonsNeverRunTogether'
                        \/ mishaps' # mishaps
                        \/ Newest(seasons).end # Open
<1>1. Init => J
  BY TypesInit DEF Init, Lasting
<1>2. J /\ [Next]_vars => J'
  BY TypesStep, SeasonsStep
<1>3. J /\ [Next]_vars => [Stays]_vars
  <2> SUFFICES ASSUME J, Next, Apart(seasons), mishaps' = mishaps, Newest(seasons).end = Open
               PROVE  Apart(seasons')
    BY DEF Apart, SeasonsNeverRunTogether
  <2>1. mishaps \in Nat /\ ~Crashed
    BY BoundTypes DEF Types, CountsTyped, Crashed, Mishap
  <2>2. CASE seasons' = seasons
    BY <2>2
  <2>3. CASE \E t \in Boundaries : StartSeason(t)
    BY <2>1, <2>3, StartApart DEF StartSeason, TwoStatements
  <2>4. CASE \E t \in Boundaries : EndSeason(t)
    BY <2>4, EndApart DEF EndSeason
  <2>5. CASE \E t \in Boundaries : AmendSeasonStart(t)
    BY <2>1, <2>5, AmendApart DEF AmendSeasonStart, TwoStatements
  <2> QED BY <2>2, <2>3, <2>4, <2>5, SeasonsFrame
<1> QED BY <1>1, <1>2, <1>3, PTL DEF Spec, SeasonsStayApart

-----------------------------------------------------------------------------
(* Several roll-ups at once.  What one of them has read may be stale when  *)
(* it is used; what still holds then is enough: no capture is stored any   *)
(* more for a day old enough to be pruned, and whoever folds again a day   *)
(* that already has rows has read the marks before that day was marked.    *)

\* What can be told of the market, or was overwritten behind a mark.
Known == Told \cup overwritten

\* A day without a mark has no row.
MarkedRows == \A d \in Days : d \notin marks => \A p \in Pairs : rolled[d][p] = {}

\* What still holds of what a roll-up that has got this far has read.
Knows(s, captures, rows, known, over) ==
    /\ s.at = "replace" => s.day \notin s.done /\ \A c \in s.edges : <<s.day, c.pair>> \in known
    /\ s.at = "rolled" => OfDay(captures, s.day) \subseteq s.edges
    /\ s.at = "delete" =>
           \A c \in OfDay(captures, s.day) : rows[s.day][c.pair] # {} \/ <<s.day, c.pair>> \in over

Informed == \A r \in Reports : Knows(report[r], raw, rolled, Known, overwritten)

Guarded == Types /\ MarkedRows /\ Informed

LEMMA GuardedInit == Init => Guarded
<1> SUFFICES ASSUME Init PROVE Guarded
  OBVIOUS
<1>1. MarkedRows /\ Informed
  BY DEF Init, MarkedRows, Informed, Knows, Idle
<1> QED BY <1>1, TypesInit DEF Guarded

\* Only a roll-up that replaces a day changes the rows or the marks, and only
\* one that deletes a day takes captures away.
LEMMA ReportFrame ==
    ASSUME NEW r \in Reports, ReportStep(r), Types
    PROVE  /\ \A q \in Reports : q # r => report'[q] = report[q]
           /\ UNCHANGED <<clock, pending, seasons, stored, late, purged, edits>>
           /\ ReplaceDay(r) \/ UNCHANGED <<rolled, marks, overwritten>>
           /\ DeleteRawDay(r) \/ UNCHANGED raw
<1> USE DEF ReportOnly, Goes, Moves, store, history
<1>1. report \in [Reports -> ReportStates]
  BY DEF Types, ReportsTyped
<1>2. CASE Begin(r) \/ BeginBaseline(r) \/ FindEarliest(r) \/ ReadMarks(r) \/ LoadDay(r)
  BY <1>1, <1>2 DEF Begin, BeginBaseline, FindEarliest, ReadMarks, LoadDay
<1>3. CASE ReplaceDay(r) \/ RollupFails(r)
  BY <1>1, <1>3 DEF ReplaceDay, RollupFails
<1>4. CASE Prune(r) \/ ReadRawPairs(r) \/ CheckRollups(r)
  BY <1>1, <1>4 DEF Prune, ReadRawPairs, CheckRollups
<1>5. CASE DeleteRawDay(r) \/ PruneFails(r)
  BY <1>1, <1>5 DEF DeleteRawDay, PruneFails
<1> QED BY <1>2, <1>3, <1>4, <1>5 DEF ReportStep

\* A crash ends the reports; anything else that is not a report's step leaves
\* them, the rows and the marks as they are.
LEMMA OtherFrame ==
    ASSUME [Next]_vars, ~ \E r \in Reports : ReportStep(r)
    PROVE  /\ UNCHANGED <<rolled, marks, overwritten>>
           /\ report' = report \/ report' = [r \in Reports |-> Idle]
           /\ \/ raw' \subseteq raw
              \/ \E c \in pending : raw' = raw \cup {c}
           /\ \/ raw' \cup purged' = raw \cup purged
              \/ \E c \in pending : raw' \cup purged' = raw \cup purged \cup {c}
<1>1. CASE \E p \in Pairs : Take(p)
  BY <1>1 DEF Take, store, history
<1>2. CASE \E c \in pending : PersistCapture(c)
  BY <1>2 DEF PersistCapture
<1>3. CASE PersistFails \/ Tick \/ UNCHANGED vars
  BY <1>3 DEF PersistFails, Tick, vars, store, history
<1>4. CASE Crash
  BY <1>4 DEF Crash, Crashed, store, history
<1>5. CASE \E t \in Boundaries : StartSeason(t) \/ EndSeason(t) \/ AmendSeasonStart(t)
  <2>1. UNCHANGED <<store, history>> /\ (Crashed \/ Finished)
    BY <1>5 DEF StartSeason, EndSeason, AmendSeasonStart, TwoStatements, Finished
  <2> QED BY <2>1 DEF store, history, Crashed, Finished
<1>6. CASE PurgeOldSeason
  BY <1>6 DEF PurgeOldSeason
<1> QED BY <1>1, <1>2, <1>3, <1>4, <1>5, <1>6 DEF Next, UserStep

LEMMA MarkedStep ==
    ASSUME Types, MarkedRows, [Next]_vars
    PROVE  MarkedRows'
<1>1. CASE \E r \in Reports : ReplaceDay(r)
  <2>1. PICK r \in Reports : ReplaceDay(r)
    BY <1>1
  <2>2. /\ marks' = marks \cup {report[r].day}
        /\ \A d \in Days : d # report[r].day => rolled'[d] = rolled[d]
    BY <2>1 DEF ReplaceDay, Types, StoreTyped
  <2> QED BY <2>2 DEF MarkedRows
<1>2. CASE UNCHANGED <<rolled, marks>>
  BY <1>2 DEF MarkedRows
<1> QED BY <1>1, <1>2, ReportFrame, OtherFrame

\* Replacing a day loses no row but those it is blamed for.
LEMMA ReplacesOnce ==
    ASSUME Guarded, NEW r \in Reports, ReplaceDay(r)
    PROVE  LET day == report[r].day
           IN  /\ day \in Days
               /\ rolled' = [rolled EXCEPT ![day] = Fold(report[r].edges)]
               /\ \A d \in Days : d # day => rolled'[d] = rolled[d]
               /\ rolled'[day] = Fold(report[r].edges)
               /\ overwritten \subseteq overwritten'
               /\ overwritten' \subseteq overwritten \cup ({day} \X Summarized(day))
               /\ \A p \in Pairs : rolled[day][p] = {} \/ <<day, p>> \in overwritten'
               /\ \A c \in report[r].edges : <<day, c.pair>> \in Known
<1> DEFINE day == report[r].day
<1>1. /\ report[r].at = "replace" /\ rolled' = [rolled EXCEPT ![day] = Fold(report[r].edges)]
      /\ overwritten' = overwritten \cup
             (IF day \in marks \ report[r].done THEN {day} \X Summarized(day) ELSE {})
  BY DEF ReplaceDay
<1>2. Fits(report[r], clock) /\ Knows(report[r], raw, rolled, Known, overwritten)
  BY ReportFacts DEF Guarded, Informed
<1>3. day \in Days /\ day \notin report[r].done /\ \A c \in report[r].edges : <<day, c.pair>> \in Known
  BY <1>1, <1>2 DEF Fits, Knows
<1>4. rolled'[day] = Fold(report[r].edges) /\ \A d \in Days : d # day => rolled'[d] = rolled[d]
  BY <1>1, <1>3 DEF Guarded, Types, StoreTyped
<1>5. overwritten \subseteq overwritten' /\ overwritten' \subseteq overwritten \cup ({day} \X Summarized(day))
  BY <1>1
<1>6. ASSUME NEW p \in Pairs, rolled[day][p] # {} PROVE <<day, p>> \in overwritten'
  <2>1. day \in marks
    BY <1>3, <1>6 DEF Guarded, MarkedRows
  <2>2. p \in Summarized(day)
    BY <1>6 DEF Summarized
  <2> QED BY <1>1, <1>3, <2>1, <2>2
<1> QED BY <1>1, <1>3, <1>4, <1>5, <1>6

LEMMA RowsKept ==
    ASSUME Guarded, [Next]_vars
    PROVE  /\ overwritten \subseteq overwritten'
           /\ \A d \in Days, p \in Pairs : rolled[d][p] \subseteq rolled'[d][p] \/ <<d, p>> \in overwritten'
<1>1. CASE \E r \in Reports : ReplaceDay(r)
  <2>1. PICK r \in Reports : ReplaceDay(r)
    BY <1>1
  <2>2. /\ overwritten \subseteq overwritten'
        /\ \A d \in Days : d # report[r].day => rolled'[d] = rolled[d]
        /\ \A p \in Pairs : rolled[report[r].day][p] = {} \/ <<report[r].day, p>> \in overwritten'
    BY <2>1, ReplacesOnce
  <2>3. ASSUME NEW d \in Days, NEW p \in Pairs
        PROVE  rolled[d][p] \subseteq rolled'[d][p] \/ <<d, p>> \in overwritten'
    BY <2>2
  <2> QED BY <2>2, <2>3
<1>2. CASE UNCHANGED <<rolled, overwritten>>
  BY <1>2
<1> QED BY <1>1, <1>2, ReportFrame, OtherFrame DEF Guarded

-----------------------------------------------------------------------------
(* What can be told, as a predicate of a day and a pair.                   *)

Tells(captures, rows, over, d, p) ==
    (\E c \in captures : Day(c.at) = d /\ c.pair = p) \/ rows[d][p] # {} \/ <<d, p>> \in over

LEMMA KnownPairs ==
    ASSUME NEW captures, captures \subseteq Captures, NEW rows, rows \in [Days -> [Pairs -> SUBSET Captures]],
           NEW over, over \subseteq Days \X Pairs
    PROVE  LET known == DayPairs(captures) \cup (UNION {{d} \X {p \in Pairs : rows[d][p] # {}} : d \in Days})
                        \cup over
           IN  /\ known \subseteq Days \X Pairs
               /\ \A d \in Days, p \in Pairs : <<d, p>> \in known <=> Tells(captures, rows, over, d, p)
<1>1. \A c \in captures : Day(c.at) \in Days /\ c.pair \in Pairs
  BY DayTypes DEF Captures
<1>2. DayPairs(captures) \subseteq Days \X Pairs
  BY <1>1 DEF DayPairs
<1>3. \A d \in Days, p \in Pairs : <<d, p>> \in DayPairs(captures) <=> \E c \in captures : Day(c.at) = d /\ c.pair = p
  BY DEF DayPairs
<1> DEFINE Rest == UNION {{d} \X {p \in Pairs : rows[d][p] # {}} : d \in Days}
<1>4. Rest \subseteq Days \X Pairs
  OBVIOUS
<1>5. \A d \in Days, p \in Pairs : <<d, p>> \in Rest <=> rows[d][p] # {}
  OBVIOUS
<1> HIDE DEF Rest
<1>6. /\ DayPairs(captures) \cup Rest \cup over \subseteq Days \X Pairs
      /\ \A d \in Days, p \in Pairs :
             <<d, p>> \in DayPairs(captures) \cup Rest \cup over <=> Tells(captures, rows, over, d, p)
  BY <1>2, <1>3, <1>4, <1>5 DEF Tells
<1> QED BY <1>6 DEF Rest

LEMMA KnownNow ==
    ASSUME Types
    PROVE  /\ Known \subseteq Days \X Pairs
           /\ \A d \in Days, p \in Pairs : <<d, p>> \in Known <=> Tells(raw \cup purged, rolled, overwritten, d, p)
<1>1. /\ raw \cup purged \subseteq Captures /\ rolled \in [Days -> [Pairs -> SUBSET Captures]]
      /\ overwritten \subseteq Days \X Pairs
  BY DEF Types, StoreTyped
<1> QED BY <1>1, KnownPairs DEF Known, Told, Summarized

LEMMA KnownNext ==
    ASSUME Types'
    PROVE  /\ Known' \subseteq Days \X Pairs
           /\ \A d \in Days, p \in Pairs :
                  <<d, p>> \in Known' <=> Tells(raw' \cup purged', rolled', overwritten', d, p)
<1>1. /\ raw' \cup purged' \subseteq Captures /\ rolled' \in [Days -> [Pairs -> SUBSET Captures]]
      /\ overwritten' \subseteq Days \X Pairs
  BY DEF Types, StoreTyped
<1> QED BY <1>1, KnownPairs DEF Known, Told, Summarized

\* Whether a day of a pair can be told of changes only when a capture of it is
\* stored.
LEMMA TellsStep ==
    ASSUME Guarded, [Next]_vars
    PROVE  \/ \A d \in Days, p \in Pairs :
                  Tells(raw' \cup purged', rolled', overwritten', d, p)
                      <=> Tells(raw \cup purged, rolled, overwritten, d, p)
           \/ \E c \in pending : \A d \in Days, p \in Pairs :
                  Tells(raw' \cup purged', rolled', overwritten', d, p)
                      <=> Tells(raw \cup purged, rolled, overwritten, d, p) \/ (d = Day(c.at) /\ p = c.pair)
<1> DEFINE Before(d, p) == Tells(raw \cup purged, rolled, overwritten, d, p)
           After(d, p) == Tells(raw' \cup purged', rolled', overwritten', d, p)
<1>1. CASE \E r \in Reports : ReplaceDay(r)
  <2>1. PICK r \in Reports : ReplaceDay(r)
    BY <1>1
  <2>2. /\ report[r].day \in Days
        /\ \A d \in Days : d # report[r].day => rolled'[d] = rolled[d]
        /\ rolled'[report[r].day] = Fold(report[r].edges)
        /\ overwritten \subseteq overwritten'
        /\ overwritten' \subseteq overwritten \cup ({report[r].day} \X Summarized(report[r].day))
        /\ \A p \in Pairs : rolled[report[r].day][p] = {} \/ <<report[r].day, p>> \in overwritten'
        /\ \A c \in report[r].edges : <<report[r].day, c.pair>> \in Known
    BY <2>1, ReplacesOnce
  <2>3. raw' \cup purged' = raw \cup purged
    BY <2>1 DEF ReplaceDay
  <2>4. ASSUME NEW d \in Days, NEW p \in Pairs PROVE After(d, p) <=> Before(d, p)
    <3>1. CASE d # report[r].day
      <4>1. <<d, p>> \in overwritten' <=> <<d, p>> \in overwritten
        BY <2>2, <3>1
      <4> QED BY <2>2, <2>3, <3>1, <4>1 DEF Tells
    <3>2. CASE d = report[r].day
      <4>1. Before(d, p) => After(d, p)
        BY <2>2, <2>3, <3>2 DEF Tells
      <4>2. rolled'[d][p] # {} => Before(d, p)
        <5>1. rolled'[d][p] = {c \in report[r].edges : c.pair = p}
          BY <2>2, <3>2 DEF Fold
        <5>2. rolled'[d][p] # {} => <<d, p>> \in Known
          BY <2>2, <3>2, <5>1
        <5> QED BY <5>2, KnownNow DEF Guarded
      <4>3. <<d, p>> \in overwritten' => Before(d, p)
        BY <2>2, <3>2 DEF Summarized, Tells
      <4> QED BY <2>3, <4>1, <4>2, <4>3 DEF Tells
    <3> QED BY <3>1, <3>2
  <2> QED BY <2>4
<1>2. CASE \E r \in Reports : DeleteRawDay(r)
  <2>1. PICK r \in Reports : DeleteRawDay(r)
    BY <1>2
  <2>2. /\ report[r].at = "delete" /\ raw' = raw \ OfDay(raw, report[r].day)
        /\ UNCHANGED <<rolled, purged, overwritten>>
    BY <2>1 DEF DeleteRawDay, history
  <2>3. Knows(report[r], raw, rolled, Known, overwritten)
    BY DEF Guarded, Informed
  <2>4. \A c \in OfDay(raw, report[r].day) :
            rolled[report[r].day][c.pair] # {} \/ <<report[r].day, c.pair>> \in overwritten
    BY <2>2, <2>3 DEF Knows
  <2>5. ASSUME NEW d \in Days, NEW p \in Pairs PROVE After(d, p) <=> Before(d, p)
    <3>1. After(d, p) => Before(d, p)
      BY <2>2 DEF Tells
    <3>2. ASSUME NEW c \in raw \cup purged, Day(c.at) = d, c.pair = p PROVE After(d, p)
      <4>1. CASE c \in OfDay(raw, report[r].day)
        BY <2>2, <2>4, <3>2, <4>1 DEF OfDay, Tells
      <4>2. CASE c \notin OfDay(raw, report[r].day)
        BY <2>2, <3>2, <4>2 DEF Tells
      <4> QED BY <4>1, <4>2
    <3> QED BY <2>2, <3>1, <3>2 DEF Tells
  <2> QED BY <2>5
<1>3. CASE UNCHANGED <<rolled, overwritten>> /\ raw' \cup purged' = raw \cup purged
  BY <1>3 DEF Tells
<1>4. CASE /\ UNCHANGED <<rolled, overwritten>>
           /\ \E c \in pending : raw' \cup purged' = raw \cup purged \cup {c}
  <2>1. PICK c \in pending : raw' \cup purged' = raw \cup purged \cup {c}
    BY <1>4
  <2>2. ASSUME NEW d \in Days, NEW p \in Pairs
        PROVE  After(d, p) <=> Before(d, p) \/ (d = Day(c.at) /\ p = c.pair)
    BY <1>4, <2>1 DEF Tells
  <2> QED BY <2>2
<1>5. CASE \E r \in Reports : ReportStep(r)
  <2>1. PICK r \in Reports : ReportStep(r)
    BY <1>5
  <2>2. /\ UNCHANGED purged
        /\ ReplaceDay(r) \/ UNCHANGED <<rolled, marks, overwritten>>
        /\ DeleteRawDay(r) \/ UNCHANGED raw
    BY <2>1, ReportFrame DEF Guarded
  <2>3. CASE ReplaceDay(r) \/ DeleteRawDay(r)
    BY <1>1, <1>2, <2>3
  <2>4. CASE UNCHANGED <<rolled, overwritten, raw>>
    BY <1>3, <2>2, <2>4
  <2> QED BY <2>2, <2>3, <2>4
<1>6. CASE ~ \E r \in Reports : ReportStep(r)
  BY <1>3, <1>4, <1>6, OtherFrame
<1> QED BY <1>5, <1>6

LEMMA KnownStep ==
    ASSUME Guarded, Types', [Next]_vars
    PROVE  [Book!Learn]_Known /\ Known \subseteq Known'
<1> DEFINE Before(d, p) == Tells(raw \cup purged, rolled, overwritten, d, p)
           After(d, p) == Tells(raw' \cup purged', rolled', overwritten', d, p)
<1>1. /\ Known \subseteq Days \X Pairs /\ Known' \subseteq Days \X Pairs
      /\ \A d \in Days, p \in Pairs : <<d, p>> \in Known <=> Before(d, p)
      /\ \A d \in Days, p \in Pairs : <<d, p>> \in Known' <=> After(d, p)
  BY KnownNow, KnownNext DEF Guarded
<1>2. CASE \A d \in Days, p \in Pairs : After(d, p) <=> Before(d, p)
  <2> HIDE DEF Before, After
  <2>1. \A d \in Days, p \in Pairs : <<d, p>> \in Known <=> <<d, p>> \in Known'
    BY <1>1, <1>2
  <2>2. Known' = Known
    BY <1>1, <2>1
  <2> QED BY <2>2
<1>3. CASE \E c \in pending : \A d \in Days, p \in Pairs :
               After(d, p) <=> Before(d, p) \/ (d = Day(c.at) /\ p = c.pair)
  <2> HIDE DEF Before, After
  <2>1. PICK c \in pending : \A d \in Days, p \in Pairs :
                After(d, p) <=> Before(d, p) \/ (d = Day(c.at) /\ p = c.pair)
    BY <1>3
  <2>2. Day(c.at) \in Days /\ c.pair \in Pairs
    BY DayTypes DEF Guarded, Types, StoreTyped, Captures
  <2> DEFINE h == <<Day(c.at), c.pair>>
  <2>3. \A d \in Days, p \in Pairs : <<d, p>> \in Known' <=> <<d, p>> \in Known \/ <<d, p>> = h
    BY <1>1, <2>1
  <2>4. h \in Days \X Pairs
    BY <2>2
  <2> HIDE DEF h
  <2>5. Known' = Known \cup {h}
    BY <1>1, <2>3, <2>4
  <2>6. h \in Known => Known' = Known
    BY <2>5
  <2>7. Known' = Known \/ \E g \in (Days \X Pairs) \ Known : Known' = Known \cup {g}
    BY <2>4, <2>5, <2>6
  <2>8. [Book!Learn]_Known
    BY <2>7 DEF Book!Learn, Known
  <2> QED BY <2>5, <2>8
<1> QED BY <1>2, <1>3, TellsStep

-----------------------------------------------------------------------------
(* What a roll-up knows, through its own steps and those of the others.    *)

\* A capture still on its way is of a day too young to be pruned.
LEMMA PendingIsYoung ==
    ASSUME Types, NEW r \in Reports, report[r].at \in {"rolled", "delete"}, NEW c \in pending
    PROVE  Day(c.at) # report[r].day
<1>1. /\ c.at \in Nat /\ clock \in Nat /\ clock <= c.at + 1
  BY DayTypes DEF Types, StoreTyped, Recent, Captures
<1>2. Day(clock) <= Day(c.at) + 1 /\ Day(c.at) \in Nat /\ Day(clock) \in Nat
  <2>1. c.at + 1 \in Nat
    BY <1>1
  <2>2. Day(clock) <= Day(c.at + 1)
    BY <1>1, <2>1, DayTypes
  <2>3. Day(c.at + 1) <= Day(c.at) + 1 /\ Day(c.at) \in Nat /\ Day(clock) \in Nat /\ Day(c.at + 1) \in Nat
    BY <1>1, <2>1, DayTypes
  <2> QED BY <2>2, <2>3
<1>3. /\ report[r].today <= Day(clock) /\ report[r].day < report[r].today - Retention
      /\ Retention \in Nat /\ Retention # 0 /\ report[r].day \in Nat /\ report[r].today \in Nat
  BY ReportFacts DEF Fits
<1> QED BY <1>2, <1>3

\* A roll-up that does not move knows afterwards what it knew.
LEMMA StillInformed ==
    ASSUME Guarded, Types', [Next]_vars, NEW r \in Reports, report'[r] = report[r]
    PROVE  Knows(report'[r], raw', rolled', Known', overwritten')
<1> DEFINE s == report[r]
<1>1. Knows(s, raw, rolled, Known, overwritten) /\ Fits(s, clock)
  BY ReportFacts DEF Guarded, Informed
<1>2. Known \subseteq Known' /\ overwritten \subseteq overwritten'
  BY KnownStep, RowsKept
<1>3. s.at \in {"rolled", "delete"} => OfDay(raw', s.day) \subseteq OfDay(raw, s.day)
  <2>1. raw' \subseteq raw \/ \E c \in pending : raw' = raw \cup {c}
    BY ReportFrame, OtherFrame DEF Guarded, DeleteRawDay
  <2> QED BY <2>1, PendingIsYoung DEF OfDay, Guarded
<1>4. s.at = "replace" => s.day \notin s.done /\ \A c \in s.edges : <<s.day, c.pair>> \in Known'
  BY <1>1, <1>2 DEF Knows
<1>5. s.at = "rolled" => OfDay(raw', s.day) \subseteq s.edges
  BY <1>1, <1>3 DEF Knows
<1>6. ASSUME s.at = "delete", NEW c \in OfDay(raw', s.day)
      PROVE  rolled'[s.day][c.pair] # {} \/ <<s.day, c.pair>> \in overwritten'
  <2>1. c \in OfDay(raw, s.day) /\ c.pair \in Pairs /\ s.day \in Days
    BY <1>1, <1>3, <1>6 DEF Fits, OfDay, Guarded, Types, StoreTyped, Captures
  <2>2. rolled[s.day][c.pair] # {} \/ <<s.day, c.pair>> \in overwritten
    BY <1>1, <1>6, <2>1 DEF Knows
  <2>3. rolled[s.day][c.pair] \subseteq rolled'[s.day][c.pair] \/ <<s.day, c.pair>> \in overwritten'
    BY <2>1, RowsKept
  <2> QED BY <1>2, <2>2, <2>3
<1> QED BY <1>4, <1>5, <1>6 DEF Knows

LEMMA MovedInformed ==
    ASSUME Guarded, Types', NEW r \in Reports, ReportStep(r)
    PROVE  Knows(report'[r], raw', rolled', Known', overwritten')
<1> DEFINE w == report[r]
<1> USE DEF Goes, Moves, ReportOnly, store, history
<1>0. /\ w \in ReportStates /\ Fits(w, clock) /\ report \in [Reports -> ReportStates]
      /\ Knows(w, raw, rolled, Known, overwritten) /\ w.day \in Nat
      /\ rolled \in [Days -> [Pairs -> SUBSET Captures]]
  BY ReportFacts, DayTypes DEF Guarded, Types, ReportsTyped, Informed, StoreTyped
<1>00. [Next]_vars
  BY DEF Next
<1>1. CASE Begin(r) \/ BeginBaseline(r) \/ FindEarliest(r) \/ RollupFails(r) \/ Prune(r) \/ PruneFails(r)
  <2>1. \E v : /\ report' = [report EXCEPT ![r] = v]
               /\ \/ v = Idle
                  \/ v = [Idle EXCEPT !.at = "earliest", !.today = Day(clock)]
                  \/ v = [w EXCEPT !.at = "marks", !.day = EarliestDay(raw)]
                  \/ v = [w EXCEPT !.at = "prune"]
                  \/ v = [w EXCEPT !.at = "prune", !.edges = {}]
                  \/ v = [Idle EXCEPT !.at = "pairs", !.today = w.today, !.day = EarliestDay(raw)]
    BY <1>1 DEF Begin, BeginBaseline, FindEarliest, RollupFails, Prune, PruneFails
  <2>2. PICK v : /\ report' = [report EXCEPT ![r] = v]
                 /\ \/ v = Idle
                    \/ v = [Idle EXCEPT !.at = "earliest", !.today = Day(clock)]
                    \/ v = [w EXCEPT !.at = "marks", !.day = EarliestDay(raw)]
                    \/ v = [w EXCEPT !.at = "prune"]
                    \/ v = [w EXCEPT !.at = "prune", !.edges = {}]
                    \/ v = [Idle EXCEPT !.at = "pairs", !.today = w.today, !.day = EarliestDay(raw)]
    BY <2>1
  <2> HIDE DEF w
  <2>3. report'[r] = v
    BY <1>0, <2>2
  <2>4. v.at \in {"earliest", "marks", "prune", "idle", "pairs"}
    <3>1. Idle \in ReportStates /\ Idle.at = "idle"
      BY IdleTypes DEF Guarded, Types, StoreTyped, Idle
    <3>2. CASE v = Idle \/ v = [w EXCEPT !.at = "prune"]
      BY <1>0, <3>1, <3>2 DEF ReportStates
    <3>3. CASE v = [Idle EXCEPT !.at = "earliest", !.today = Day(clock)]
      BY <3>1, <3>3 DEF ReportStates
    <3>4. CASE \/ v = [w EXCEPT !.at = "marks", !.day = EarliestDay(raw)]
               \/ v = [w EXCEPT !.at = "prune", !.edges = {}]
      BY <1>0, <3>4 DEF ReportStates
    <3>5. CASE v = [Idle EXCEPT !.at = "pairs", !.today = w.today, !.day = EarliestDay(raw)]
      BY <3>1, <3>5 DEF ReportStates
    <3> QED BY <2>2, <3>2, <3>3, <3>4, <3>5
  <2> QED BY <2>3, <2>4 DEF Knows
<1>2. CASE ReadMarks(r)
  <2>1. report'[r].at = "load"
    BY <1>0, <1>2 DEF ReadMarks, ReportStates
  <2> QED BY <2>1 DEF Knows
<1>3. CASE LoadDay(r)
  <2> DEFINE day == CHOOSE d \in Candidates(w) : \A other \in Candidates(w) : d <= other
             edges == OfDay(raw, day)
  <2>0. w.at = "load"
    BY <1>3 DEF LoadDay
  <2>1. CASE w.count = MaxDaysPerRun \/ Candidates(w) = {}
    <3>1. report'[r].at = "prune"
      BY <1>0, <1>3, <2>1 DEF LoadDay, ReportStates
    <3> QED BY <3>1 DEF Knows
  <2>2. CASE ~(w.count = MaxDaysPerRun \/ Candidates(w) = {})
    <3>1. day \in Candidates(w)
      BY <1>0, <2>2, FirstCandidate
    <3>2. \/ report' = [report EXCEPT ![r] = [w EXCEPT !.day = day + 1]]
          \/ report' = [report EXCEPT ![r] = [w EXCEPT !.at = "replace", !.day = day, !.edges = edges]]
      BY <1>3, <2>2 DEF LoadDay
    <3>3. day \notin w.done
      BY <3>1 DEF Candidates
    <3>4. ASSUME NEW c \in edges PROVE <<day, c.pair>> \in Known'
      <4>1. c \in raw /\ Day(c.at) = day
        BY DEF OfDay
      <4> HIDE DEF day
      <4>2. <<day, c.pair>> \in Known
        BY <4>1 DEF Known, Told, DayPairs
      <4> QED BY <1>00, <4>2, KnownStep
    <3> HIDE DEF day, edges
    <3>5. CASE report' = [report EXCEPT ![r] = [w EXCEPT !.day = day + 1]]
      <4>1. report'[r].at = "load"
        BY <1>0, <2>0, <3>5 DEF ReportStates
      <4> QED BY <4>1 DEF Knows
    <3>6. CASE report' = [report EXCEPT ![r] = [w EXCEPT !.at = "replace", !.day = day, !.edges = edges]]
      <4>1. /\ report'[r].at = "replace" /\ report'[r].done = w.done /\ report'[r].day = day
            /\ report'[r].edges = edges
        BY <1>0, <2>0, <3>6 DEF ReportStates
      <4> QED BY <3>3, <3>4, <4>1 DEF Knows
    <3> QED BY <3>2, <3>5, <3>6
  <2> QED BY <2>1, <2>2
<1>4. CASE ReplaceDay(r)
  <2>1. report'[r].at = "load"
    BY <1>0, <1>4 DEF ReplaceDay, ReportStates
  <2> QED BY <2>1 DEF Knows
<1>5. CASE ReadRawPairs(r)
  <2>1. \/ report' = [report EXCEPT ![r] = Idle]
        \/ report' = [report EXCEPT ![r] = [w EXCEPT !.day = @ + 1]]
        \/ report' = [report EXCEPT ![r] = [w EXCEPT !.at = "rolled", !.edges = OfDay(raw, w.day)]]
    BY <1>5 DEF ReadRawPairs
  <2>2. w.at = "pairs" /\ raw' = raw
    BY <1>5 DEF ReadRawPairs
  <2>3. CASE report' = [report EXCEPT ![r] = Idle]
    <3>1. report'[r].at = "idle"
      BY <1>0, <2>3 DEF Idle
    <3> QED BY <3>1 DEF Knows
  <2>4. CASE report' = [report EXCEPT ![r] = [w EXCEPT !.day = @ + 1]]
    <3>1. report'[r].at = "pairs"
      BY <1>0, <2>2, <2>4 DEF ReportStates
    <3> QED BY <3>1 DEF Knows
  <2>5. CASE report' = [report EXCEPT ![r] = [w EXCEPT !.at = "rolled", !.edges = OfDay(raw, w.day)]]
    <3>1. report'[r].at = "rolled" /\ report'[r].day = w.day /\ report'[r].edges = OfDay(raw, w.day)
      BY <1>0, <2>2, <2>5 DEF ReportStates
    <3> QED BY <2>2, <3>1 DEF Knows
  <2> QED BY <2>1, <2>3, <2>4, <2>5
<1>6. CASE CheckRollups(r)
  <2>0. UNCHANGED <<raw, rolled, overwritten>> /\ OfDay(raw, w.day) \subseteq w.edges
        /\ w.day \in Days
    BY <1>0, <1>6 DEF CheckRollups, Knows, Fits
  <2>1. CASE MayDelete(w)
    <3>1. report'[r].at = "delete" /\ report'[r].day = w.day
      BY <1>0, <1>6, <2>1 DEF CheckRollups, ReportStates
    <3>2. \A c \in OfDay(raw, w.day) : rolled[w.day][c.pair] # {}
      BY <2>0, <2>1 DEF MayDelete, PairsOf, Summarized
    <3> QED BY <2>0, <3>1, <3>2 DEF Knows
  <2>2. CASE ~MayDelete(w)
    <3>1. report'[r].at = "pairs"
      BY <1>0, <1>6, <2>2 DEF CheckRollups, ReportStates
    <3> QED BY <3>1 DEF Knows
  <2> QED BY <2>1, <2>2
<1>7. CASE DeleteRawDay(r)
  <2>1. report'[r].at = "pairs"
    BY <1>0, <1>7 DEF DeleteRawDay, ReportStates
  <2> QED BY <2>1 DEF Knows
<1> QED BY <1>1, <1>2, <1>3, <1>4, <1>5, <1>6, <1>7 DEF ReportStep

LEMMA GuardedStep ==
    ASSUME Guarded, [Next]_vars
    PROVE  Guarded'
<1>1. Types' /\ MarkedRows'
  BY TypesStep, MarkedStep DEF Guarded
<1>2. ASSUME NEW q \in Reports PROVE Knows(report'[q], raw', rolled', Known', overwritten')
  <2>1. CASE \E r \in Reports : ReportStep(r)
    <3>1. PICK r \in Reports : ReportStep(r)
      BY <2>1
    <3>2. CASE q = r
      BY <1>1, <3>1, <3>2, MovedInformed
    <3>3. CASE q # r
      BY <1>1, <3>1, <3>3, ReportFrame, StillInformed DEF Guarded
    <3> QED BY <3>2, <3>3
  <2>2. CASE ~ \E r \in Reports : ReportStep(r)
    <3>1. report' = report \/ report' = [r \in Reports |-> Idle]
      BY <2>2, OtherFrame
    <3>2. CASE report' = report
      BY <1>1, <3>2, StillInformed
    <3>3. CASE report' = [r \in Reports |-> Idle]
      BY <3>3 DEF Knows, Idle
    <3> QED BY <3>1, <3>2, <3>3
  <2> QED BY <2>1, <2>2
<1> QED BY <1>1, <1>2 DEF Guarded, Informed

LEMMA GuardedAlways == Spec => []Guarded
<1>1. Guarded /\ [Next]_vars => Guarded'
  BY GuardedStep
<1> QED BY <1>1, GuardedInit, PTL DEF Spec

\* However many roll-ups run at once, a summary once written loses a capture
\* only to one that had read the marks before the day was marked: the marks
\* and its own progress keep every other from folding the day again
\* (run_rollup's already_done).
THEOREM SummariesAreKept == Spec => SummariesSurvive
<1> DEFINE Keeps == \A d \in Days, p \in Pairs : rolled[d][p] \subseteq rolled'[d][p] \/ <<d, p>> \in overwritten'
<1>1. Guarded /\ [Next]_vars => [Keeps]_vars
  BY RowsKept
<1> QED BY <1>1, GuardedAlways, PTL DEF Spec, SummariesSurvive

\* Nothing that could be told of the market is forgotten but what a roll-up
\* overwrote that had not seen the mark: rolling up, pruning and purging, by
\* any number of reports and by the watch, implement a book that only grows
\* (ensure_daily_rollups and prune_raw_days, "never destroy un-summarized
\* data").
THEOREM PruningForgetsNothing == Spec => NothingIsForgotten
<1>1. Init => Known = {}
  BY DEF Init, Known, Told, DayPairs, Summarized
<1>2. Guarded /\ Guarded' /\ [Next]_vars => [Book!Learn]_(Told \cup overwritten)
  BY KnownStep DEF Guarded, Known
<1>3. Init => Book!Init
  BY <1>1 DEF Known, Book!Init
<1> QED BY <1>2, <1>3, GuardedAlways, PTL DEF Spec, NothingIsForgotten, Book!Spec
=============================================================================
