-------------------------- MODULE Exchange_proofs --------------------------
(***************************************************************************)
(* What the exchange history promises: first when rounds run               *)
(* (ExchangeChain), then what rounds do to the tables (ExchangeLedger),    *)
(* which is written on the promise that the chain keeps: SlotTheorem.      *)
(*                                                                         *)
(* The chain, for any games, leagues, counter width and number of failed   *)
(* writes: the inductive invariant is the type invariant with the three    *)
(* facts that carry each other: `running` says exactly whether the current *)
(* generation is fetching, so begin_exchange_sync is never turned away     *)
(* when the current chain wakes, so the current generation always has a    *)
(* task.                                                                   *)
(*                                                                         *)
(* The ledger, for any length of the day, windows, budgets and bounds:     *)
(* Whole says where the hours a round still has to fetch lie relative to   *)
(* the marks, and which days the fold and the prune may visit; it leaves   *)
(* no hole.  Lasting adds what a day line owes to the hours it was folded  *)
(* from, and Refining what a repair owes to its line.                      *)
(***************************************************************************)
EXTENDS ExchangeChain, ExchangeLedger, FiniteSetTheorems, WellFoundedInduction, TLAPS

-----------------------------------------------------------------------------
(* The chain of rounds.                                                    *)

ChainInv == ChainTypeOK /\ OneRoundAtATime /\ TheChainNeverStops /\ RestartHasARound

Tasks == [Generations -> Task \cup {NoTask}]

\* The counter moves to another value of its range.
LEMMA NextGenerationMoves ==
    ASSUME generation \in Generations
    PROVE  NextGeneration \in Generations /\ NextGeneration # generation
BY ChainAssumption DEF Generations, NextGeneration

\* Only a task that exists is fetching or sleeping.
LEMMA NoTaskIsIdle == NoTask.at = "none" /\ NoTask \notin Task
BY DEF NoTask, Task

LEMMA CurrentIsAReading ==
    ASSUME ChainTypeOK PROVE Current \in Readings
BY DEF ChainTypeOK, Current, Readings

\* What begin_exchange_sync does to a state in which `running` tells the truth.
LEMMA BeginWorks ==
    ASSUME ChainTypeOK, OneRoundAtATime,
           NEW read \in Readings, NEW tasks \in Tasks,
           \A c \in Generations : tasks[c].at = "fetching" <=> task[c].at = "fetching",
           Begin(read, tasks)
    PROVE  /\ generation' \in Generations
           /\ running' = TRUE
           /\ task' \in Tasks
           /\ OneRoundAtATime'
           /\ task'[generation'] # NoTask
<1>1. generation \in Generations /\ running \in BOOLEAN
  BY DEF ChainTypeOK
<1>2. CASE running
  <2>1. task' = tasks /\ generation' = generation /\ running' = running
    BY <1>2 DEF Begin
  <2>2. OneRoundAtATime'
    BY <2>1 DEF OneRoundAtATime
  <2>3. task'[generation'].at = "fetching"
    BY <1>1, <1>2, <2>1 DEF OneRoundAtATime
  <2> QED BY <1>1, <1>2, <2>1, <2>2, <2>3, NoTaskIsIdle
<1>3. CASE ~running
  <2> DEFINE n == NextGeneration
             t == [at |-> "fetching", reading |-> read, wait |-> "zero"]
  <2>1. /\ running' = TRUE
        /\ generation' = n
        /\ task' = [tasks EXCEPT ![n] = t]
    BY <1>3 DEF Begin
  <2>2. n \in Generations
    BY <1>1, NextGenerationMoves
  <2>3. t \in Task
    BY DEF Task, Waits
  <2>4. task' \in Tasks /\ task'[n] = t
    BY <2>1, <2>2, <2>3 DEF Tasks
  <2>5. ASSUME NEW c \in Generations
        PROVE  task'[c].at = "fetching" <=> c = n
    <3>1. CASE c = n
      BY <2>4, <3>1
    <3>2. CASE c # n
      <4>1. task'[c] = tasks[c]
        BY <2>1, <3>2 DEF Tasks
      <4> QED BY <1>3, <3>2, <4>1 DEF OneRoundAtATime
    <3> QED BY <3>1, <3>2
  <2>6. OneRoundAtATime'
    BY <2>1, <2>5 DEF OneRoundAtATime
  <2> QED BY <2>1, <2>2, <2>3, <2>4, <2>6, NoTaskIsIdle
<1> QED BY <1>1, <1>2, <1>3

LEMMA TaskType == ASSUME ChainTypeOK PROVE task \in Tasks
BY DEF ChainTypeOK, Tasks

\* A request to restart keeps the invariant's part about the chain.
LEMMA RestartWorks ==
    ASSUME ChainInv, NEW read \in Readings, Restart(read)
    PROVE  /\ generation' \in Generations
           /\ running' = TRUE
           /\ restartPending' \in BOOLEAN
           /\ task' \in Tasks
           /\ OneRoundAtATime'
           /\ task'[generation'] # NoTask
<1>1. ChainTypeOK /\ OneRoundAtATime /\ task \in Tasks
  BY TaskType DEF ChainInv
<1>2. CASE running
  <2>1. restartPending' = TRUE /\ generation' = generation /\ running' = running /\ task' = task
    BY <1>2 DEF Restart, chain
  <2>2. task[generation].at = "fetching" /\ generation \in Generations
    BY <1>1, <1>2 DEF ChainTypeOK, OneRoundAtATime
  <2>3. OneRoundAtATime'
    BY <1>1, <2>1 DEF OneRoundAtATime
  <2> QED BY <1>1, <1>2, <2>1, <2>2, <2>3, NoTaskIsIdle
<1>3. CASE ~running
  <2>1. Begin(read, task) /\ restartPending' = restartPending
    BY <1>3 DEF Restart
  <2> QED BY <1>1, <2>1, BeginWorks DEF ChainTypeOK
<1> QED BY <1>1, <1>2, <1>3 DEF ChainTypeOK

LEMMA InitInv == ChainInit => ChainInv
<1> SUFFICES ASSUME ChainInit PROVE ChainInv
  OBVIOUS
<1>1. 0 \in Generations /\ 0 \in 0 .. FailureLimit /\ 0 \in 0 .. MaxSaveFailures
  BY ChainAssumption DEF Generations
<1>2. ChainTypeOK
  BY <1>1 DEF ChainInit, ChainTypeOK
<1>3. \A c \in Generations : task[c].at = "none"
  BY NoTaskIsIdle DEF ChainInit
<1>4. OneRoundAtATime
  BY <1>3 DEF ChainInit, OneRoundAtATime
<1> QED BY <1>2, <1>4 DEF ChainInit, ChainInv, TheChainNeverStops, RestartHasARound

\* What every step keeps of the chain, given what it does to it; the rest of
\* each step is in NextInv.
LEMMA ChainKept ==
    ASSUME ChainInv, UNCHANGED <<kicked, running, restartPending, generation, task>>
    PROVE  OneRoundAtATime' /\ TheChainNeverStops' /\ RestartHasARound'
BY DEF ChainInv, OneRoundAtATime, TheChainNeverStops, RestartHasARound

LEMMA SettledTask ==
    ASSUME ChainTypeOK, NEW c \in Generations, task[c].at = "fetching", NEW w \in Waits
    PROVE  /\ [task EXCEPT ![c].at = "sleeping"] \in Tasks
           /\ [task EXCEPT ![c].at = "sleeping", ![c].wait = w] \in Tasks
<1>1. task[c] \in Task
  BY NoTaskIsIdle DEF ChainTypeOK
<1> QED BY <1>1 DEF ChainTypeOK, Tasks, Task

LEMMA NextInv == ChainInv /\ [ChainNext]_chainVars => ChainInv'
<1> SUFFICES ASSUME ChainInv, [ChainNext]_chainVars PROVE ChainInv'
  OBVIOUS
<1> USE ChainAssumption
<1>0. ChainTypeOK /\ OneRoundAtATime /\ task \in Tasks /\ Current \in Readings
  BY TaskType, CurrentIsAReading DEF ChainInv
<1>1. CASE Kick
  <2>1. Begin(Current, task)
    BY <1>1 DEF Kick
  <2>2. /\ generation' \in Generations /\ running' = TRUE /\ task' \in Tasks
        /\ OneRoundAtATime' /\ task'[generation'] # NoTask
    BY <1>0, <2>1, BeginWorks
  <2> QED BY <1>0, <1>1, <2>2
          DEF Kick, ChainInv, ChainTypeOK, Tasks, TheChainNeverStops, RestartHasARound
<1>2. ASSUME NEW t \in Tunings, SaveTuning(t)
      PROVE  ChainInv'
  <2> DEFINE read == [Current EXCEPT !.tuning = t]
  <2>1. read \in Readings
    BY <1>0, <1>2 DEF Readings
  <2>2. Restart(read)
    BY <1>2 DEF SaveTuning
  <2>3. /\ generation' \in Generations /\ running' = TRUE /\ restartPending' \in BOOLEAN
        /\ task' \in Tasks /\ OneRoundAtATime' /\ task'[generation'] # NoTask
    BY <2>1, <2>2, RestartWorks
  <2>4. tuning' \in [Games -> Tunings]
    BY <1>0, <1>2 DEF SaveTuning, ChainTypeOK
  <2> QED BY <1>0, <1>2, <2>3, <2>4
          DEF SaveTuning, ChainInv, ChainTypeOK, Tasks, TheChainNeverStops, RestartHasARound
<1>3. ASSUME NEW t \in Tunings, SaveTuningFails(t)
      PROVE  ChainInv'
  <2>1. UNCHANGED <<kicked, running, restartPending, generation, task>>
    BY <1>3 DEF SaveTuningFails, flags
  <2>2. tuning' \in [Games -> Tunings]
    BY <1>0, <1>3 DEF SaveTuningFails, ChainTypeOK
  <2>3. saveFailures' \in 0 .. MaxSaveFailures
    BY <1>0, <1>3 DEF SaveTuningFails, ChainTypeOK
  <2>4. ChainTypeOK'
    BY <1>0, <1>3, <2>1, <2>2, <2>3 DEF SaveTuningFails, ChainTypeOK
  <2> QED BY <2>1, <2>4, ChainKept DEF ChainInv
<1>4. CASE SyncNow
  <2>1. Restart(Current)
    BY <1>4 DEF SyncNow
  <2>2. /\ generation' \in Generations /\ running' = TRUE /\ restartPending' \in BOOLEAN
        /\ task' \in Tasks /\ OneRoundAtATime' /\ task'[generation'] # NoTask
    BY <1>0, <2>1, RestartWorks
  <2> QED BY <1>0, <1>4, <2>2
          DEF SyncNow, ChainInv, ChainTypeOK, Tasks, TheChainNeverStops, RestartHasARound
<1>5. ASSUME NEW g \in Games, SetProfile(g)
      PROVE  ChainInv'
  <2>1. UNCHANGED <<kicked, running, restartPending, generation, task>>
    BY <1>5 DEF SetProfile, flags
  <2>2. ChainTypeOK'
    BY <1>0, <1>5, <2>1 DEF SetProfile, ChainTypeOK
  <2> QED BY <2>1, <2>2, ChainKept DEF ChainInv
<1>6. ASSUME NEW c \in Generations, Wakes(c)
      PROVE  ChainInv'
  <2> DEFINE rest == [task EXCEPT ![c] = NoTask]
  <2>1. /\ rest \in Tasks
        /\ \A d \in Generations : rest[d].at = "fetching" <=> task[d].at = "fetching"
    BY <1>0, <1>6, NoTaskIsIdle DEF Wakes, Tasks
  <2>2. CASE generation = c
    <3>1. Begin(Current, rest)
      BY <1>6, <2>2 DEF Wakes
    <3>2. /\ generation' \in Generations /\ running' = TRUE /\ task' \in Tasks
          /\ OneRoundAtATime' /\ task'[generation'] # NoTask
      BY <1>0, <2>1, <3>1, BeginWorks
    <3> QED BY <1>0, <1>6, <3>2
            DEF Wakes, ChainInv, ChainTypeOK, Tasks, TheChainNeverStops, RestartHasARound
  <2>3. CASE generation # c
    <3>1. task' = rest /\ generation' = generation /\ running' = running
      BY <1>6, <2>3 DEF Wakes
    <3>2. OneRoundAtATime'
      BY <1>0, <2>1, <3>1 DEF OneRoundAtATime
    <3>3. task'[generation'] = task[generation]
      BY <1>0, <2>3, <3>1 DEF ChainTypeOK, Tasks
    <3> QED BY <1>0, <1>6, <2>1, <3>1, <3>2, <3>3
            DEF Wakes, ChainInv, ChainTypeOK, Tasks, TheChainNeverStops, RestartHasARound
  <2> QED BY <2>2, <2>3
<1>7. ASSUME NEW c \in Generations, NEW o \in Outcomes, RoundEnds(c, o)
      PROVE  ChainInv'
  <2>1. /\ task[c].at = "fetching" /\ running /\ c = generation
        /\ task[c] \in Task
    BY <1>0, <1>7, NoTaskIsIdle DEF RoundEnds, OneRoundAtATime, Tasks
  <2> DEFINE w == NextWait(o, FailuresAfter(o))
  <2>2. o.kind \in {"ok", "failed", "skipped"}
    BY DEF Outcomes
  <2>3. w \in Waits
    BY <1>0, <2>2 DEF NextWait, Waits, ChainTypeOK
  <2>4. /\ running' = FALSE /\ restartPending' = FALSE
        /\ UNCHANGED <<game, tuning, kicked, generation, saveFailures>>
        /\ task' = [task EXCEPT ![c].at = "sleeping", ![c].wait = w]
        /\ failures' = IF o.kind = "skipped" THEN failures ELSE FailuresAfter(o)
    BY <1>7, <2>1 DEF RoundEnds, TakeRestart
  <2>5. task' \in Tasks
    BY <1>0, <2>1, <2>3, <2>4, SettledTask
  <2>6. failures' \in 0 .. FailureLimit
    BY <1>0, <2>4 DEF FailuresAfter, ChainTypeOK
  <2>7. error' \in Readings \cup {NoError}
    BY <1>0, <1>7, <2>1 DEF RoundEnds, ErrorAfter, ChainTypeOK, Task
  <2>8. seen' \in [Games -> SUBSET AllLeagues]
    <3>1. CASE o.kind = "ok"
      <4>1. o.leagues \in SUBSET AllLeagues
        BY <3>1 DEF Outcomes
      <4> QED BY <1>0, <1>7, <2>1, <3>1, <4>1 DEF RoundEnds, SeenAfter, ChainTypeOK, Task
    <3>2. CASE o.kind # "ok"
      BY <1>0, <1>7, <2>1, <3>2 DEF RoundEnds, SeenAfter, ChainTypeOK
    <3> QED BY <3>1, <3>2
  <2>9. ChainTypeOK'
    BY <1>0, <2>4, <2>5, <2>6, <2>7, <2>8 DEF ChainTypeOK, Tasks
  <2>10. \A d \in Generations : task'[d].at # "fetching"
    <3>1. task'[c].at = "sleeping"
      BY <1>0, <2>1, <2>4 DEF Tasks, Task
    <3>2. \A d \in Generations \ {c} : task'[d] = task[d]
      BY <1>0, <2>4 DEF Tasks
    <3> QED BY <1>0, <2>1, <3>1, <3>2 DEF OneRoundAtATime
  <2>11. OneRoundAtATime'
    BY <2>4, <2>10 DEF OneRoundAtATime
  <2>12. task'[c].at = "sleeping"
    BY <1>0, <2>1, <2>4 DEF Tasks, Task
  <2> QED BY <2>1, <2>4, <2>9, <2>11, <2>12, NoTaskIsIdle
          DEF ChainInv, TheChainNeverStops, RestartHasARound
<1>8. CASE UNCHANGED chainVars
  <2>1. UNCHANGED <<kicked, running, restartPending, generation, task>>
    BY <1>8 DEF chainVars
  <2> QED BY <1>8, <2>1, ChainKept DEF chainVars, ChainInv, ChainTypeOK
<1> QED BY <1>1, <1>2, <1>3, <1>4, <1>5, <1>6, <1>7, <1>8 DEF ChainNext

\* The invariant of the chain, for every set of games, leagues and windows
\* and every width of the generation counter.
THEOREM ChainInvariant == ChainSpec => []ChainInv
BY InitInv, NextInv, PTL DEF ChainSpec

\* Two rounds never run side by side, and the round in flight is always the
\* one of the current generation (exchange_sync.rs:44, shell/mod.rs:523).
THEOREM OneRoundTheorem == ChainSpec => []OneRoundAtATime
<1>1. ChainInv => OneRoundAtATime
  BY DEF ChainInv
<1> QED BY <1>1, ChainInvariant, PTL

\* After the first tick there is always a living chain (exchange_sync.rs:178).
THEOREM NeverStopsTheorem == ChainSpec => []TheChainNeverStops
<1>1. ChainInv => TheChainNeverStops
  BY DEF ChainInv
<1> QED BY <1>1, ChainInvariant, PTL

-----------------------------------------------------------------------------
(* The chain implements RoundSlot.                                         *)

InFlight == {c \in Generations : task[c].at = "fetching"}

LEMMA FetchingIsTheCurrentRound ==
    ASSUME ChainTypeOK, OneRoundAtATime
    PROVE  InFlight = IF running THEN {generation} ELSE {}
BY DEF ChainTypeOK, OneRoundAtATime, InFlight

\* A step that leaves `running` and the generation alone, or begins a round,
\* or ends the one in flight, is a step of the slot or leaves it alone.
LEMMA SlotStep ==
    ASSUME ChainInv, ChainInv', [ChainNext]_chainVars
    PROVE  InFlight' = InFlight
           \/ \E c \in Generations : \/ InFlight = {} /\ InFlight' = {c}
                                     \/ InFlight = {c} /\ InFlight' = {}
<1>1. /\ InFlight = IF running THEN {generation} ELSE {}
      /\ generation \in Generations
  BY FetchingIsTheCurrentRound DEF ChainInv, ChainTypeOK
<1>2. /\ InFlight' = IF running' THEN {generation'} ELSE {}
      /\ generation' \in Generations
  <2>1. ChainTypeOK' /\ OneRoundAtATime'
    BY DEF ChainInv
  <2>2. InFlight' = {c \in Generations : task'[c].at = "fetching"}
    BY DEF InFlight
  <2> QED BY <2>1, <2>2 DEF ChainTypeOK, OneRoundAtATime
<1>3. running /\ running' => generation' = generation
  <2> SUFFICES ASSUME running, running' PROVE generation' = generation
    OBVIOUS
  <2>1. CASE UNCHANGED chainVars
    BY <2>1 DEF chainVars
  <2>2. CASE ChainNext
    BY <2>2 DEF ChainNext, Kick, SaveTuning, SaveTuningFails, SyncNow, SetProfile, Wakes, RoundEnds,
                Restart, Begin, flags, chain
  <2> QED BY <2>1, <2>2
<1> QED BY <1>1, <1>2, <1>3

\* Rounds run one at a time: the promise ExchangeLedger is written on.
THEOREM SlotTheorem == ChainSpec => SlotSpec
<1>1. ChainInit => Slot!Init
  BY NoTaskIsIdle DEF ChainInit, Slot!Init
<1>2. ChainInv /\ ChainInv' /\ [ChainNext]_chainVars
        => [\E c \in Generations : Slot!Start(c) \/ Slot!End(c)]_{c \in Generations : task[c].at = "fetching"}
  BY SlotStep DEF InFlight, Slot!Start, Slot!End
<1> QED BY <1>1, <1>2, ChainInvariant, PTL DEF ChainSpec, SlotSpec, Slot!Spec

-----------------------------------------------------------------------------
(* leagues_seen.                                                           *)

LEMMA SeenKept ==
    ASSUME ChainInv, SeenLeaguesAreTheGamesOwn, [ChainNext]_chainVars
    PROVE  SeenLeaguesAreTheGamesOwn'
<1>1. CASE seen' = seen
  BY <1>1 DEF SeenLeaguesAreTheGamesOwn
<1>2. ASSUME NEW c \in Generations, NEW o \in Outcomes, RoundEnds(c, o), seen' # seen
      PROVE  SeenLeaguesAreTheGamesOwn'
  <2> DEFINE g == task[c].reading.game
  <2>1. o.kind = "ok" /\ seen' = [seen EXCEPT ![g] = @ \cup o.leagues]
    BY <1>2 DEF RoundEnds, SeenAfter
  <2>2. task[c].at = "fetching"
    BY <1>2 DEF RoundEnds
  <2>3. task[c].reading \in Readings
    BY <2>2, NoTaskIsIdle DEF ChainInv, ChainTypeOK, Task
  <2>4. o.leagues \subseteq LeaguesOf[g]
    <3>1. task[c].reading.tuning.league # NoLeague
      BY <1>2, <2>1 DEF RoundEnds, Possible
    <3> QED BY <1>2, <2>1, <3>1 DEF RoundEnds, Possible
  <2>5. seen \in [Games -> SUBSET AllLeagues]
    BY DEF ChainInv, ChainTypeOK
  <2> QED BY <2>1, <2>3, <2>4, <2>5 DEF SeenLeaguesAreTheGamesOwn, Readings
<1>3. CASE ~(\E c \in Generations : \E o \in Outcomes : RoundEnds(c, o))
  BY <1>1, <1>3 DEF ChainNext, chainVars, Kick, SaveTuning, SaveTuningFails, SyncNow, SetProfile, Wakes
<1> QED BY <1>1, <1>2, <1>3

\* A game's list of leagues is fed by that game's rounds alone, although the
\* user may switch games while a round is in flight (exchange_sync.rs:122-128).
THEOREM SeenLeaguesTheorem == ChainSpec => []SeenLeaguesAreTheGamesOwn
<1>1. ChainInit => SeenLeaguesAreTheGamesOwn
  BY DEF ChainInit, SeenLeaguesAreTheGamesOwn
<1> QED BY <1>1, SeenKept, ChainInvariant, PTL DEF ChainSpec

-----------------------------------------------------------------------------
(* What the rounds read and what the page says of them.                    *)

\* A round that nobody has asked to run again reads what its game is set to,
\* as long as every save reached the disk.
RoundReadsTheSettings ==
    running /\ ~restartPending /\ saveFailures = 0
        => task[generation].reading.tuning = tuning[task[generation].reading.game]

FreshReadings == RoundReadsTheSettings /\ SleeperHasReadTheSettings /\ ErrorIsAboutTheCurrentAccount

\* The round begun is the one that was asked for.
LEMMA BeginReads ==
    ASSUME generation \in Generations, ~running,
           NEW read, NEW tasks \in Tasks, Begin(read, tasks)
    PROVE  task'[generation'].reading = read
BY NextGenerationMoves DEF Begin, Tasks

\* The current chain does not sleep while a round is in flight.
LEMMA NoSleeperWhileRunning ==
    ASSUME ChainTypeOK, OneRoundAtATime, running PROVE SleeperHasReadTheSettings
BY DEF ChainTypeOK, OneRoundAtATime, SleeperHasReadTheSettings

LEMMA FreshKept ==
    ASSUME ChainInv, ChainInv', FreshReadings, [ChainNext]_chainVars
    PROVE  FreshReadings'
<1>0. /\ ChainTypeOK /\ OneRoundAtATime /\ task \in Tasks /\ Current \in Readings
      /\ generation \in Generations /\ saveFailures \in Nat
      /\ RoundReadsTheSettings /\ SleeperHasReadTheSettings /\ ErrorIsAboutTheCurrentAccount
  BY TaskType, CurrentIsAReading, ChainAssumption DEF ChainInv, FreshReadings, ChainTypeOK
<1>a. running' => SleeperHasReadTheSettings'
  BY NoSleeperWhileRunning DEF ChainInv, ChainTypeOK, OneRoundAtATime, SleeperHasReadTheSettings
<1>1. CASE Kick
  <2>1. /\ Begin(Current, task) /\ running'
        /\ UNCHANGED <<game, tuning, restartPending, error, saveFailures>>
    BY <1>1 DEF Kick, Begin
  <2>2. ErrorIsAboutTheCurrentAccount'
    BY <1>0, <2>1 DEF ErrorIsAboutTheCurrentAccount
  <2>3. CASE running
    BY <1>0, <1>a, <2>1, <2>2, <2>3 DEF Begin, FreshReadings, RoundReadsTheSettings
  <2>4. CASE ~running
    <3>1. task'[generation'].reading = Current
      BY <1>0, <2>1, <2>4, BeginReads
    <3> QED BY <1>a, <2>1, <2>2, <3>1 DEF FreshReadings, RoundReadsTheSettings, Current
  <2> QED BY <2>3, <2>4
<1>2. ASSUME NEW t \in Tunings, SaveTuning(t)
      PROVE  FreshReadings'
  <2> DEFINE read == [Current EXCEPT !.tuning = t]
  <2>1. /\ Restart(read) /\ error' = NoError
        /\ game' = game /\ tuning' = [tuning EXCEPT ![game] = t]
    BY <1>2 DEF SaveTuning
  <2>2. ErrorIsAboutTheCurrentAccount'
    BY <2>1 DEF ErrorIsAboutTheCurrentAccount
  <2>3. CASE running
    BY <1>a, <2>1, <2>2, <2>3 DEF Restart, chain, FreshReadings, RoundReadsTheSettings
  <2>4. CASE ~running
    <3>1. Begin(read, task) /\ running'
      BY <2>1, <2>4 DEF Restart, Begin
    <3>2. task'[generation'].reading = read
      BY <1>0, <2>4, <3>1, BeginReads
    <3>3. read.tuning = t /\ read.game = game /\ tuning'[game] = t
      BY <1>0, <2>1 DEF ChainTypeOK, Current
    <3> QED BY <1>a, <2>1, <2>2, <3>1, <3>2, <3>3 DEF FreshReadings, RoundReadsTheSettings
  <2> QED BY <2>3, <2>4
<1>3. ASSUME NEW t \in Tunings, SaveTuningFails(t)
      PROVE  FreshReadings'
  <2>1. saveFailures' # 0
    BY <1>0, <1>3 DEF SaveTuningFails
  <2> QED BY <2>1 DEF FreshReadings, RoundReadsTheSettings, SleeperHasReadTheSettings,
                      ErrorIsAboutTheCurrentAccount
<1>4. CASE SyncNow
  <2>1. Restart(Current) /\ UNCHANGED <<game, tuning, error, saveFailures>>
    BY <1>4 DEF SyncNow
  <2>2. ErrorIsAboutTheCurrentAccount'
    BY <1>0, <2>1 DEF ErrorIsAboutTheCurrentAccount
  <2>3. CASE running
    BY <1>a, <2>1, <2>2, <2>3 DEF Restart, chain, FreshReadings, RoundReadsTheSettings
  <2>4. CASE ~running
    <3>1. Begin(Current, task) /\ running'
      BY <2>1, <2>4 DEF Restart, Begin
    <3>2. task'[generation'].reading = Current
      BY <1>0, <2>4, <3>1, BeginReads
    <3> QED BY <1>a, <2>1, <2>2, <3>1, <3>2 DEF FreshReadings, RoundReadsTheSettings, Current
  <2> QED BY <2>3, <2>4
<1>5. ASSUME NEW g \in Games, SetProfile(g)
      PROVE  FreshReadings'
  BY <1>0, <1>5 DEF SetProfile, flags, FreshReadings, RoundReadsTheSettings,
                    SleeperHasReadTheSettings, ErrorIsAboutTheCurrentAccount
<1>6. ASSUME NEW c \in Generations, Wakes(c)
      PROVE  FreshReadings'
  <2> DEFINE rest == [task EXCEPT ![c] = NoTask]
  <2>1. /\ task[c].at = "sleeping" /\ rest \in Tasks
        /\ UNCHANGED <<game, tuning, restartPending, error, saveFailures>>
    BY <1>0, <1>6 DEF Wakes, Tasks
  <2>2. ErrorIsAboutTheCurrentAccount'
    BY <1>0, <2>1 DEF ErrorIsAboutTheCurrentAccount
  <2>3. CASE generation = c
    <3>1. Begin(Current, rest) /\ ~running
      BY <1>0, <1>6, <2>1, <2>3 DEF Wakes, OneRoundAtATime
    <3>2. task'[generation'].reading = Current /\ running'
      <4>1. task'[generation'].reading = Current
        BY <1>0, <2>1, <3>1, BeginReads
      <4> QED BY <3>1, <4>1 DEF Begin
    <3> QED BY <1>a, <2>1, <2>2, <3>2 DEF FreshReadings, RoundReadsTheSettings, Current
  <2>4. CASE generation # c
    <3>1. task' = rest /\ generation' = generation /\ running' = running
      BY <1>6, <2>4 DEF Wakes
    <3>2. task'[generation'] = task[generation]
      BY <1>0, <2>4, <3>1 DEF Tasks
    <3> QED BY <1>0, <2>1, <2>2, <3>1, <3>2
            DEF FreshReadings, RoundReadsTheSettings, SleeperHasReadTheSettings
  <2> QED BY <2>3, <2>4
<1>7. ASSUME NEW c \in Generations, NEW o \in Outcomes, RoundEnds(c, o)
      PROVE  FreshReadings'
  <2>1. /\ task[c].at = "fetching" /\ running /\ c = generation
        /\ task[c] \in Task
    BY <1>0, <1>7, NoTaskIsIdle DEF RoundEnds, OneRoundAtATime, Tasks
  <2> DEFINE w == NextWait(o, FailuresAfter(o))
  <2>2. /\ running' = FALSE
        /\ UNCHANGED <<game, tuning, generation, saveFailures>>
        /\ task' = [task EXCEPT ![c].at = "sleeping", ![c].wait = w]
        /\ error' = ErrorAfter(c, o)
    BY <1>7, <2>1 DEF RoundEnds
  <2>3. task'[c].wait = w /\ task'[c].reading = task[c].reading
    BY <1>0, <2>1, <2>2 DEF Tasks, Task
  <2>4. CASE restartPending
    <3>1. w = "zero" /\ error' = error
      BY <2>2, <2>4 DEF NextWait, ErrorAfter
    <3> QED BY <1>0, <2>1, <2>2, <2>3, <3>1
            DEF FreshReadings, RoundReadsTheSettings, SleeperHasReadTheSettings,
                ErrorIsAboutTheCurrentAccount
  <2>5. CASE ~restartPending
    <3>1. saveFailures = 0
            => task[c].reading.tuning = tuning[task[c].reading.game]
      BY <1>0, <2>1, <2>5 DEF RoundReadsTheSettings
    <3>2. error' \in {error, NoError, task[c].reading}
      BY <2>2 DEF ErrorAfter
    <3>3. ErrorIsAboutTheCurrentAccount'
      BY <1>0, <2>2, <3>1, <3>2 DEF ErrorIsAboutTheCurrentAccount
    <3> QED BY <2>1, <2>2, <2>3, <3>1, <3>3
            DEF FreshReadings, RoundReadsTheSettings, SleeperHasReadTheSettings
  <2> QED BY <2>4, <2>5
<1>8. CASE UNCHANGED chainVars
  BY <1>0, <1>8 DEF chainVars, FreshReadings, RoundReadsTheSettings, SleeperHasReadTheSettings,
                    ErrorIsAboutTheCurrentAccount
<1> QED BY <1>1, <1>2, <1>3, <1>4, <1>5, <1>6, <1>7, <1>8 DEF ChainNext

LEMMA FreshAlways == ChainSpec => []FreshReadings
<1>1. ChainInit => FreshReadings
  <2> SUFFICES ASSUME ChainInit PROVE FreshReadings
    OBVIOUS
  <2>1. task[generation].at = "none"
    BY NoTaskIsIdle, ChainAssumption DEF ChainInit, Generations
  <2> QED BY <2>1 DEF ChainInit, FreshReadings, RoundReadsTheSettings, SleeperHasReadTheSettings,
                      ErrorIsAboutTheCurrentAccount
<1> QED BY <1>1, FreshKept, ChainInvariant, PTL DEF ChainSpec

\* No saved change waits for the next slot or for the retry, at any width of
\* the counter and with any number of old sleepers (exchange_sync.rs:652).
THEOREM SleeperTheorem == ChainSpec => []SleeperHasReadTheSettings
<1>1. FreshReadings => SleeperHasReadTheSettings
  BY DEF FreshReadings
<1> QED BY <1>1, FreshAlways, PTL

\* The message on the page is about the league its game is set to, whatever
\* was edited while the round was in flight (exchange_sync.rs:652).
THEOREM ErrorTheorem == ChainSpec => []ErrorIsAboutTheCurrentAccount
<1>1. FreshReadings => ErrorIsAboutTheCurrentAccount
  BY DEF FreshReadings
<1> QED BY <1>1, FreshAlways, PTL

-----------------------------------------------------------------------------
(* Days, least and greatest hours.                                         *)

LEMMA DivBounds ==
    ASSUME NEW a \in Int, NEW b \in Nat \ {0}
    PROVE  /\ a \div b \in Int
           /\ (a \div b) * b <= a
           /\ a < ((a \div b) + 1) * b
OBVIOUS

LEMMA MulInt ==
    ASSUME NEW a \in Int, NEW b \in Int
    PROVE  a * b \in Int
OBVIOUS

LEMMA MulMono ==
    ASSUME NEW a \in Int, NEW b \in Int, NEW c \in Nat, a <= b
    PROVE  a * c <= b * c
OBVIOUS

LEMMA MulCancel ==
    ASSUME NEW a \in Int, NEW b \in Int, NEW c \in Nat \ {0}, a * c < b * c
    PROVE  a < b
OBVIOUS

LEMMA DivMono ==
    ASSUME NEW a \in Int, NEW c \in Int, NEW b \in Nat \ {0}, a <= c
    PROVE  a \div b <= c \div b
<1> DEFINE p == a \div b
           q == c \div b
<1>1. p \in Int /\ q \in Int /\ p * b <= a /\ c < (q + 1) * b
  BY DivBounds
<1>2. p * b < (q + 1) * b
  BY <1>1, MulInt
<1>3. p < q + 1
  <2> HIDE DEF p, q
  <2> QED BY <1>1, <1>2, MulCancel
<1> QED BY <1>1, <1>3

\* The hours of a day are those whose day it is.
LEMMA DayBounds ==
    /\ HoursPerDay \in Nat \ {0}
    /\ \A h \in Int : DayOf(h) \in Int
    /\ \A h \in Nat : DayOf(h) \in Nat
    /\ \A h, k \in Int : h <= k => DayOf(h) <= DayOf(k)
    /\ \A d \in Int : d * HoursPerDay \in Int
    /\ \A d, h \in Int : h \in HoursOf(d) <=> DayOf(h) = d
<1>1. HoursPerDay \in Nat \ {0}
  BY PlanAssumption
<1>2. \A h \in Int : DayOf(h) \in Int
  BY <1>1, DivBounds DEF DayOf
<1>3. \A h, k \in Int : h <= k => DayOf(h) <= DayOf(k)
  BY <1>1, DivMono DEF DayOf
<1>4. \A h \in Nat : DayOf(h) \in Nat
  <2>1. DayOf(0) = 0
    BY <1>1 DEF DayOf
  <2> QED BY <1>2, <1>3, <2>1
<1>5. \A d \in Int : d * HoursPerDay \in Int
  BY <1>1, MulInt
<1>6. ASSUME NEW d \in Int, NEW h \in Int, h \in HoursOf(d) PROVE DayOf(h) = d
  <2>1. d * HoursPerDay <= h /\ h < (d + 1) * HoursPerDay
    BY <1>1, <1>5, <1>6 DEF HoursOf
  <2> DEFINE e == DayOf(h)
  <2>2. e \in Int /\ e * HoursPerDay <= h /\ h < (e + 1) * HoursPerDay
    BY <1>1, DivBounds DEF DayOf
  <2> HIDE DEF e
  <2>3. e * HoursPerDay < (d + 1) * HoursPerDay /\ d * HoursPerDay < (e + 1) * HoursPerDay
    BY <1>1, <2>1, <2>2, MulInt
  <2>4. e < d + 1 /\ d < e + 1
    BY <1>1, <2>2, <2>3, MulCancel
  <2> QED BY <2>2, <2>4 DEF e
<1>7. ASSUME NEW h \in Int PROVE h \in HoursOf(DayOf(h))
  <2> DEFINE e == DayOf(h)
  <2>1. e \in Int /\ e * HoursPerDay <= h /\ h < (e + 1) * HoursPerDay
    BY <1>1, DivBounds DEF DayOf
  <2> HIDE DEF e
  <2>2. (e + 1) * HoursPerDay = e * HoursPerDay + HoursPerDay
    BY <1>1, <2>1
  <2>3. h \in HoursOf(e)
    BY <1>1, <1>5, <2>1, <2>2 DEF HoursOf
  <2> QED BY <2>3 DEF e
<1> QED BY <1>1, <1>2, <1>3, <1>4, <1>5, <1>6, <1>7

LEMMA LeastExists ==
    ASSUME NEW S, S \subseteq Nat, S # {}
    PROVE  Least(S) \in S /\ \A m \in S : Least(S) <= m
<1>1. IsWellFoundedOn(OpToRel(<, Nat), Nat)
  BY NatLessThanWellFounded
<1>2. PICK n \in S : \A m \in S : ~(<<m, n>> \in OpToRel(<, Nat))
  BY <1>1, WFMin
<1>3. ASSUME NEW m \in S PROVE n <= m
  <2>1. ~(m < n)
    BY <1>2 DEF OpToRel
  <2> QED BY <2>1
<1> QED BY <1>3 DEF Least

LEMMA GreatestExists ==
    ASSUME NEW S, NEW n \in Nat, S \subseteq 0..n, S # {}
    PROVE  Greatest(S) \in S /\ \A m \in S : m <= Greatest(S)
<1> DEFINE T == {n - m : m \in S}
<1>0. \A m \in S : m \in Nat /\ n - m \in Nat
  OBVIOUS
<1>1. T \subseteq Nat /\ T # {}
  BY <1>0
<1>2. Least(T) \in T /\ \A k \in T : Least(T) <= k
  BY <1>1, LeastExists
<1>3. PICK g \in S : Least(T) = n - g
  BY <1>2
<1>4. ASSUME NEW m \in S PROVE m <= g
  <2>1. n - m \in T
    OBVIOUS
  <2>2. n - g <= n - m
    BY <1>2, <1>3, <2>1
  <2> QED BY <1>0, <2>2
<1>5. g \in S /\ \A m \in S : g >= m
  BY <1>4
<1>6. Greatest(S) \in S /\ \A m \in S : Greatest(S) >= m
  BY <1>5 DEF Greatest
<1> QED BY <1>6

LEMMA LeastIs ==
    ASSUME NEW S, S \subseteq Int, NEW x \in S, \A y \in S : x <= y
    PROVE  Least(S) = x
<1>1. \A z : (z \in S /\ \A y \in S : z <= y) => z = x
  OBVIOUS
<1>2. x \in S /\ \A y \in S : x <= y
  OBVIOUS
<1> QED BY <1>1, <1>2 DEF Least

LEMMA GreatestIs ==
    ASSUME NEW S, S \subseteq Int, NEW x \in S, \A y \in S : y <= x
    PROVE  Greatest(S) = x
<1>1. \A z : (z \in S /\ \A y \in S : z >= y) => z = x
  OBVIOUS
<1>2. x \in S /\ \A y \in S : x >= y
  OBVIOUS
<1> QED BY <1>1, <1>2 DEF Greatest

\* A day's first and last hour.
LEMMA DayHours ==
    ASSUME NEW d \in Int
    PROVE  /\ HoursOf(d) \subseteq Int
           /\ Least(HoursOf(d)) = d * HoursPerDay
           /\ Greatest(HoursOf(d)) = d * HoursPerDay + HoursPerDay - 1
           /\ d * HoursPerDay \in HoursOf(d)
           /\ d * HoursPerDay + HoursPerDay - 1 \in HoursOf(d)
           /\ IsFiniteSet(HoursOf(d)) /\ Cardinality(HoursOf(d)) = HoursPerDay
<1> DEFINE a == d * HoursPerDay
           b == d * HoursPerDay + HoursPerDay - 1
<1>1. a \in Int /\ b \in Int /\ a <= b /\ b - a + 1 = HoursPerDay /\ HoursOf(d) = a..b
  BY DayBounds DEF HoursOf
<1> HIDE DEF a, b
<1>2. HoursOf(d) \subseteq Int /\ a \in HoursOf(d) /\ b \in HoursOf(d)
      /\ \A x \in HoursOf(d) : a <= x /\ x <= b
  BY <1>1
<1>3. Least(HoursOf(d)) = a /\ Greatest(HoursOf(d)) = b
  BY <1>2, LeastIs, GreatestIs
<1>4. IsFiniteSet(a..b) /\ Cardinality(a..b) = b - a + 1
  BY <1>1, FS_Interval
<1> QED BY <1>1, <1>2, <1>3, <1>4 DEF a, b

LEMMA HourInts == \A h \in Hours : h \in Int
BY LedgerAssumption DEF Hours

LEMMA HourBounds ==
    /\ LastHour \in Nat /\ FirstHour \in Nat \ {0} /\ FirstHour <= LastHour
    /\ Hours \subseteq 0..LastHour /\ Hours \subseteq Nat
    /\ DayOf(LastHour) \in Nat /\ Days \subseteq Nat
    /\ \A h \in Hours : DayOf(h) \in Days
    /\ IsFiniteSet(Hours) /\ IsFiniteSet(Days)
<1>1. LastHour \in Nat /\ FirstHour \in Nat \ {0} /\ FirstHour <= LastHour
  BY LedgerAssumption
<1>2. Hours \subseteq 0..LastHour /\ Hours \subseteq Nat
  BY <1>1 DEF Hours
<1>3. DayOf(LastHour) \in Nat /\ Days \subseteq Nat
  BY <1>1, DayBounds DEF Days
<1>4. ASSUME NEW h \in Hours PROVE DayOf(h) \in Days
  <2>1. h \in Nat /\ h <= LastHour
    BY <1>1 DEF Hours
  <2>2. DayOf(h) \in Nat /\ DayOf(h) <= DayOf(LastHour)
    BY <1>1, <2>1, DayBounds
  <2> QED BY <1>3, <2>2 DEF Days
<1>5. IsFiniteSet(1..LastHour) /\ IsFiniteSet(0..DayOf(LastHour))
  BY <1>1, <1>3, FS_Interval
<1> QED BY <1>1, <1>2, <1>3, <1>4, <1>5 DEF Hours, Days

LEMMA SettingsFields ==
    ASSUME NEW s \in Settings
    PROVE  /\ s.backfill \in Nat /\ s.retention \in Nat /\ s.season \in Nat \cup {NoHour}
           /\ s.backfill * HoursPerDay \in Nat /\ s.retention * HoursPerDay \in Nat
<1>1. s \in [backfill : Nat, retention : Nat, season : Nat \cup {NoHour}]
  BY LedgerAssumption
<1>2. s.backfill \in Nat /\ s.retention \in Nat /\ s.season \in Nat \cup {NoHour}
  BY <1>1
<1>3. \A a, b \in Nat : a * b \in Nat
  OBVIOUS
<1> QED BY <1>2, <1>3, DayBounds

-----------------------------------------------------------------------------
(* What a round plans.                                                     *)

\* The floor of both plans is an hour of the window, or later.
LEMMA Floors ==
    ASSUME NEW s \in Settings, NEW t \in Nat
    PROVE  LET floor == PlanFloor(SeasonFloor(s.season, t, s.backfill), t, s.backfill)
           IN  /\ floor \in Int /\ t - s.backfill * HoursPerDay <= floor
               /\ AtLeastOne(floor) \in Nat \ {0} /\ floor <= AtLeastOne(floor)
<1> DEFINE w == s.backfill * HoursPerDay
<1>1. s.season \in Nat \cup {NoHour} /\ w \in Nat /\ NoHour \notin Int
  BY SettingsFields, PlanAssumption
<1>2. /\ SeasonFloor(s.season, t, s.backfill) =
             IF s.season = NoHour THEN NoHour
             ELSE IF s.season > t - w + 1 THEN s.season ELSE t - w + 1
      /\ \A f : PlanFloor(f, t, s.backfill) = IF f = NoHour THEN t - 1 - w + 1 ELSE f
  BY DEF SeasonFloor, PlanFloor, NewestComplete
<1> DEFINE floor == PlanFloor(SeasonFloor(s.season, t, s.backfill), t, s.backfill)
<1> HIDE DEF w
<1>3. floor \in Int /\ t - w <= floor
  <2>1. CASE s.season = NoHour
    BY <1>1, <1>2, <2>1
  <2>2. CASE s.season # NoHour /\ s.season > t - w + 1
    BY <1>1, <1>2, <2>2
  <2>3. CASE s.season # NoHour /\ ~(s.season > t - w + 1)
    BY <1>1, <1>2, <2>3
  <2> QED BY <2>1, <2>2, <2>3
<1> HIDE DEF floor
<1>4. AtLeastOne(floor) \in Nat \ {0} /\ floor <= AtLeastOne(floor)
  BY <1>3 DEF AtLeastOne
<1> QED BY <1>3, <1>4 DEF floor, w

\* A forward plan is a run of hours from just above the watermark, or from the floor.
LEMMA ForwardPlan ==
    ASSUME NEW s \in Settings, NEW t \in 1..LastHour, NEW w \in Hours \cup {NoHour}
    PROVE  LET floor == SeasonFloor(s.season, t, s.backfill)
               P == PlanFetch(w, t, floor, s.backfill)
           IN  /\ P \subseteq Hours
               /\ P # {} => \E a, b \in Hours :
                    /\ P = a..b /\ a <= b
                    /\ w # NoHour => a = w + 1
                    /\ w = NoHour => t - s.backfill * HoursPerDay <= a
<1> DEFINE floor == SeasonFloor(s.season, t, s.backfill)
           P == PlanFetch(w, t, floor, s.backfill)
           start == IF w = NoHour THEN AtLeastOne(PlanFloor(floor, t, s.backfill)) ELSE w + 1
           lowest == t - s.backfill * HoursPerDay
           end == IF t - 1 < start + HourBudget THEN t - 1 ELSE start + HourBudget - 1
<1>0. NoHour \notin Int /\ HourBudget \in Nat \ {0} /\ LastHour \in Nat /\ t \in Nat /\ lowest \in Int
      /\ \A h \in Hours : h \in Int /\ h >= 1
  BY PlanAssumption, LedgerAssumption, SettingsFields DEF Hours
<1>1. start \in Nat \ {0} /\ (w = NoHour => lowest <= start) /\ (w # NoHour => start = w + 1)
  <2>1. CASE w = NoHour
    <3>1. /\ PlanFloor(floor, t, s.backfill) \in Int /\ lowest <= PlanFloor(floor, t, s.backfill)
          /\ AtLeastOne(PlanFloor(floor, t, s.backfill)) \in Nat \ {0}
          /\ PlanFloor(floor, t, s.backfill) <= AtLeastOne(PlanFloor(floor, t, s.backfill))
      BY <1>0, Floors
    <3> HIDE DEF lowest, floor
    <3> QED BY <1>0, <2>1, <3>1
  <2>2. CASE w # NoHour
    BY <1>0, <2>2
  <2> QED BY <2>1, <2>2
<1>2. P = IF t - 1 <= 0 THEN {} ELSE {h \in start..(t - 1) : h < start + HourBudget}
  BY DEF PlanFetch, NewestComplete
<1> HIDE DEF start, lowest, floor, P
<1>3. end \in Int /\ end <= t - 1 /\ {h \in start..(t - 1) : h < start + HourBudget} = start..end
  BY <1>0, <1>1
<1>4. P = {} \/ P = start..end
  BY <1>2, <1>3
<1> HIDE DEF end
<1>5. ASSUME P # {}
      PROVE  P = start..end /\ start \in Hours /\ end \in Hours /\ start <= end
  <2>1. P = start..end /\ start <= end
    BY <1>1, <1>3, <1>4, <1>5
  <2> QED BY <1>0, <1>1, <1>3, <2>1 DEF Hours
<1>6. P \subseteq Hours
  BY <1>0, <1>1, <1>3, <1>4 DEF Hours
<1> QED BY <1>1, <1>5, <1>6 DEF floor, P, lowest

\* The newest of a set contain, with an hour, every later one of the set.
LEMMA NewestClosed ==
    ASSUME NEW S, S \subseteq Hours, NEW n \in Int, NEW x \in Newest(S, n), NEW y \in S, x <= y
    PROVE  y \in Newest(S, n)
<1> DEFINE A == {z \in S : z > x}
           B == {z \in S : z > y}
<1>1. IsFiniteSet(S)
  BY HourBounds, FS_Subset
<1>2. A \in SUBSET S /\ B \in SUBSET A
  <2>1. \A z \in S : z \in Int /\ x \in Int /\ y \in Int
    BY HourBounds DEF Newest
  <2> QED BY <2>1
<1>3. IsFiniteSet(A) /\ IsFiniteSet(B) /\ Cardinality(B) <= Cardinality(A)
  BY <1>1, <1>2, FS_Subset
<1>4. Cardinality(A) \in Nat /\ Cardinality(B) \in Nat
  BY <1>3, FS_CardinalityType
<1>5. Cardinality(A) < n
  BY DEF Newest
<1> HIDE DEF A, B
<1>6. Cardinality(B) < n
  BY <1>3, <1>4, <1>5
<1> QED BY <1>6 DEF B, Newest

\* A backward plan skips nothing between its hours and the earliest mark but folded days.
LEMMA BackwardPlan ==
    ASSUME NEW s \in Settings, NEW t \in Nat, NEW e \in Hours, NEW budget \in Int, NEW Folded
    PROVE  LET P == PlanBackward(e, t, SeasonFloor(s.season, t, s.backfill), s.backfill, budget, Folded)
           IN  /\ P \subseteq Hours
               /\ \A x \in P : /\ t - s.backfill * HoursPerDay <= x /\ x < e
                               /\ DayOf(x) \notin Folded
                               /\ \A y \in x..(e - 1) : y \in P \/ DayOf(y) \in Folded
<1> DEFINE floor == PlanFloor(SeasonFloor(s.season, t, s.backfill), t, s.backfill)
           low == AtLeastOne(floor)
           lowest == t - s.backfill * HoursPerDay
           S == {h \in low..(e - 1) : DayOf(h) \notin Folded}
<1>1. e \in Int /\ e # NoHour /\ e <= LastHour /\ LastHour \in Nat /\ lowest \in Int
  BY PlanAssumption, HourBounds, SettingsFields DEF Hours
<1>2. floor \in Int /\ lowest <= floor /\ low \in Nat \ {0} /\ floor <= low
  BY Floors
<1>3. PlanBackward(e, t, SeasonFloor(s.season, t, s.backfill), s.backfill, budget, Folded)
        = Newest(S, budget)
  BY <1>1 DEF PlanBackward
<1> HIDE DEF low, floor, lowest
<1>4. S \subseteq Hours
  BY <1>1, <1>2 DEF Hours
<1>5. \A x \in S : x \in Int /\ lowest <= x /\ x < e /\ DayOf(x) \notin Folded
  BY <1>1, <1>2
<1>6. ASSUME NEW x \in S, NEW y \in x..(e - 1)
      PROVE  y \in S \/ DayOf(y) \in Folded
  BY <1>1, <1>2
<1> HIDE DEF S
<1>7. Newest(S, budget) \subseteq S
  BY DEF Newest
<1>8. ASSUME NEW x \in Newest(S, budget), NEW y \in x..(e - 1)
      PROVE  y \in Newest(S, budget) \/ DayOf(y) \in Folded
  <2>1. x <= y
    BY <1>5, <1>7
  <2> QED BY <1>4, <1>6, <1>7, <2>1, NewestClosed
<1> QED BY <1>3, <1>4, <1>5, <1>7, <1>8 DEF lowest

-----------------------------------------------------------------------------
(* Types.                                                                  *)

Mark == DOMAIN marks

\* What a round read when it started is of the past.
Timed ==
    /\ phase # "idle" => /\ plan.at \in FirstHour..now
                         /\ plan.retention \in {s.retention : s \in Settings}
    /\ phase = "idle" => plan = NoPlan
    /\ phase # "fetch" => plan.forward = {} /\ plan.backward = {} /\ plan.recheck = {}

Types == TypeOK /\ Timed

LEMMA TypesFacts ==
    ASSUME Types
    PROVE  /\ now \in FirstHour..LastHour /\ now \in Nat /\ now \in 1..LastHour
           /\ Mark \subseteq Hours /\ Mark \subseteq Nat /\ Mark \subseteq 0..LastHour
           /\ IsFiniteSet(Mark)
           /\ settings \in Settings
           /\ \A d \in DOMAIN days : d \in Days /\ d \in Nat /\ days[d].hours \subseteq Hours
                                     /\ days[d].summed \subseteq Hours
           /\ \A h \in Mark : marks[h].rows \in BOOLEAN
           /\ plan.forward \subseteq Hours /\ plan.backward \subseteq Hours
           /\ plan.recheck \subseteq Hours /\ plan.at \in Nat /\ plan.retention \in Nat
           /\ queue \subseteq Days /\ queue \subseteq Nat
<1>1. now \in FirstHour..LastHour /\ now \in Nat /\ now \in 1..LastHour
  BY HourBounds DEF Types, TypeOK
<1>2. Mark \subseteq Hours
  BY DEF Types, TypeOK, Mark, HourSet
<1>3. IsFiniteSet(Mark)
  BY <1>2, HourBounds, FS_Subset
<1>4. \A d \in DOMAIN days : d \in Days /\ days[d].hours \subseteq Hours
                             /\ days[d].summed \subseteq Hours
  BY DEF Types, TypeOK, HourSet
<1>5. \A h \in Mark : marks[h].rows \in BOOLEAN
  BY DEF Types, TypeOK, Mark
<1>6. plan.forward \subseteq Hours /\ plan.backward \subseteq Hours /\ plan.recheck \subseteq Hours
      /\ plan.at \in Nat /\ plan.retention \in Nat
  <2>1. plan \in [at : 0 .. LastHour, retention : Nat,
                 forward : HourSet, backward : HourSet, recheck : HourSet]
    BY DEF Types, TypeOK
  <2>2. /\ plan.at \in 0..LastHour /\ plan.retention \in Nat
        /\ plan.forward \in HourSet /\ plan.backward \in HourSet /\ plan.recheck \in HourSet
    BY <2>1
  <2> QED BY <2>2, HourBounds DEF HourSet
<1>7. queue \subseteq Days /\ settings \in Settings
  BY DEF Types, TypeOK
<1>8. \A d \in DOMAIN days : d \in Nat
  BY <1>4, HourBounds
<1>9. Mark \subseteq Nat /\ Mark \subseteq 0..LastHour /\ queue \subseteq Nat
  BY <1>2, <1>7, HourBounds
<1> QED BY <1>1, <1>2, <1>3, <1>4, <1>5, <1>6, <1>7, <1>8, <1>9

\* The earliest mark and the watermark.
LEMMA MarkBounds ==
    ASSUME Types, Mark # {}
    PROVE  /\ EarliestMark \in Mark /\ Watermark \in Mark
           /\ EarliestMark \in Int /\ Watermark \in Int
           /\ EarliestMark \in Hours /\ Watermark \in Hours
           /\ \A h \in Mark : EarliestMark <= h /\ h <= Watermark
<1>1. Mark \subseteq Nat /\ Mark \subseteq 0..LastHour /\ Mark \subseteq Hours
  BY TypesFacts
<1>2. Least(Mark) \in Mark /\ \A m \in Mark : Least(Mark) <= m
  BY <1>1, LeastExists
<1>3. Greatest(Mark) \in Mark /\ \A m \in Mark : m <= Greatest(Mark)
  BY <1>1, GreatestExists, HourBounds
<1>4. EarliestMark = Least(Mark) /\ Watermark = Greatest(Mark)
  BY DEF EarliestMark, Watermark, Mark
<1>5. EarliestMark \in Mark /\ Watermark \in Mark /\ EarliestMark \in Hours /\ Watermark \in Hours
      /\ \A h \in Mark : EarliestMark <= h /\ h <= Watermark
  BY <1>1, <1>2, <1>3, <1>4
<1> QED BY <1>5, HourInts

LEMMA NoMarks ==
    ASSUME Mark = {}
    PROVE  EarliestMark = NoHour /\ Watermark = NoHour
BY DEF EarliestMark, Watermark, Mark

\* An hour is stored: it is marked, and the other marks are as they were.
LEMMA Storing ==
    ASSUME NEW h, StoreHour(h)
    PROVE  /\ Mark' = Mark \cup {h}
           /\ marks'[h] = [rows |-> HasRows(h), fetched |-> plan.at]
           /\ \A k \in Mark : k # h => marks'[k] = marks[k]
BY DEF StoreHour, Mark

LEMMA StoringTypes ==
    ASSUME Types, phase = "fetch", NEW h \in Hours, StoreHour(h)
    PROVE  DOMAIN marks' \in HourSet
           /\ \A k \in DOMAIN marks' : marks'[k] \in [rows : BOOLEAN, fetched : FirstHour .. LastHour]
<1>1. plan.at \in FirstHour..LastHour
  BY HourBounds DEF Types, TypeOK, Timed
<1>2. HasRows(h) \in BOOLEAN
  BY DEF HasRows
<1> DEFINE Marked == [rows : BOOLEAN, fetched : FirstHour .. LastHour]
           one == [rows |-> HasRows(h), fetched |-> plan.at]
<1>3. one \in Marked
  BY <1>1, <1>2
<1>4. \A k \in Mark : marks[k] \in Marked
  BY DEF Types, TypeOK, Mark
<1>5. /\ Mark' = Mark \cup {h} /\ marks'[h] = one
      /\ \A k \in Mark : k # h => marks'[k] = marks[k]
  BY Storing
<1> HIDE DEF Marked, one
<1>6. \A k \in Mark' : marks'[k] \in Marked
  BY <1>3, <1>4, <1>5
<1>7. Mark' \in HourSet
  BY <1>5, TypesFacts DEF HourSet
<1> QED BY <1>6, <1>7 DEF Mark, Marked

\* What the round at hand reads, and what it plans.
LEMMA Starting ==
    ASSUME Types, StartRound
    PROVE  /\ plan'.at = now /\ plan'.retention = settings.retention
           /\ plan'.forward = PlanFetch(Watermark, now,
                                SeasonFloor(settings.season, now, settings.backfill), settings.backfill)
           /\ \/ plan'.backward = {}
              \/ \E budget \in Int : plan'.backward =
                    PlanBackward(EarliestMark, now,
                      SeasonFloor(settings.season, now, settings.backfill), settings.backfill,
                      budget, FoldedDays)
           /\ plan'.recheck = PlanRecheck(marks, now)
           /\ plan' = [at |-> plan'.at, retention |-> plan'.retention, forward |-> plan'.forward,
                       backward |-> plan'.backward, recheck |-> plan'.recheck]
           /\ plan'.forward \subseteq Hours /\ plan'.backward \subseteq Hours
           /\ plan'.recheck \subseteq Mark
           /\ plan' \in [at : 0 .. LastHour, retention : Nat,
                         forward : HourSet, backward : HourSet, recheck : HourSet]
<1> DEFINE floor == SeasonFloor(settings.season, now, settings.backfill)
           forward == PlanFetch(Watermark, now, floor, settings.backfill)
           budget == HourBudget - Cardinality(forward)
           back == PlanBackward(EarliestMark, now, floor, settings.backfill, budget, FoldedDays)
           backward == IF Cardinality(forward) < HourBudget THEN back ELSE {}
           recheck == PlanRecheck(marks, now)
<1>1. plan' = [at |-> now, retention |-> settings.retention, forward |-> forward,
               backward |-> backward, recheck |-> recheck]
  BY DEF StartRound
<1>2. /\ settings \in Settings /\ now \in 1..LastHour /\ now \in Nat
      /\ Watermark \in Hours \cup {NoHour} /\ EarliestMark \in Hours \cup {NoHour}
  BY TypesFacts, MarkBounds, NoMarks
<1>3. forward \subseteq Hours
  BY <1>2, ForwardPlan
<1>4. Cardinality(forward) \in Nat /\ budget \in Int
  BY <1>3, HourBounds, FS_Subset, FS_CardinalityType, PlanAssumption
<1>5. back \subseteq Hours
  <2>1. CASE EarliestMark = NoHour
    BY <2>1 DEF PlanBackward
  <2>2. CASE EarliestMark # NoHour
    <3>1. EarliestMark \in Hours
      BY <1>2, <2>2
    <3> QED BY <1>2, <1>4, <3>1, BackwardPlan
  <2> QED BY <2>1, <2>2
<1>6. recheck \subseteq Mark
  BY DEF PlanRecheck, Newest, Mark
<1>7. backward = {} \/ backward = back
  OBVIOUS
<1>8. settings.retention \in Nat /\ recheck \subseteq Hours /\ now \in 0..LastHour
  BY <1>2, <1>6, SettingsFields, TypesFacts
<1> HIDE DEF forward, backward, recheck
<1>9. /\ plan'.at = now /\ plan'.retention = settings.retention /\ plan'.forward = forward
      /\ plan'.backward = backward /\ plan'.recheck = recheck
  BY <1>1
<1>10. backward \subseteq Hours
  BY <1>5, <1>7
<1>11. plan' \in [at : 0 .. LastHour, retention : Nat,
                  forward : HourSet, backward : HourSet, recheck : HourSet]
  BY <1>1, <1>3, <1>8, <1>10 DEF HourSet
<1> HIDE DEF back, budget
<1>12. plan'.backward = {} \/ plan'.backward = back
  BY <1>7, <1>9
<1>13. plan'.backward = {} \/ \E b \in Int : plan'.backward =
                    PlanBackward(EarliestMark, now,
                      SeasonFloor(settings.season, now, settings.backfill), settings.backfill,
                      b, FoldedDays)
  BY <1>4, <1>12 DEF back
<1> QED BY <1>1, <1>3, <1>6, <1>9, <1>10, <1>11, <1>13 DEF forward, recheck

\* Grouped as the steps change them.
WorldTyped == now \in FirstHour..LastHour /\ published \in HourSet
UserTyped ==
    /\ settings \in Settings
    /\ spent \in [faults : 0 .. MaxFaults, aborts : 0 .. MaxAborts, changes : 0 .. MaxChanges]
MarksTyped ==
    /\ DOMAIN marks \in HourSet
    /\ \A h \in DOMAIN marks : marks[h] \in [rows : BOOLEAN, fetched : FirstHour .. LastHour]
DaysTyped ==
    /\ DOMAIN days \in SUBSET Days
    /\ \A d \in DOMAIN days : days[d] \in [hours : HourSet, summed : HourSet]
Plans == [at : 0 .. LastHour, retention : Nat,
          forward : HourSet, backward : HourSet, recheck : HourSet]
RoundTyped ==
    /\ phase \in {"idle", "fetch", "fold", "prune"}
    /\ plan \in Plans
    /\ repaired \in SUBSET Days
    /\ queue \in SUBSET Days
DroppedTyped == dropped \in HourSet

LEMMA TypesGrouped ==
    Types <=> /\ WorldTyped /\ UserTyped /\ MarksTyped /\ DaysTyped /\ RoundTyped /\ Timed
              /\ DroppedTyped
BY DEF Types, TypeOK, WorldTyped, UserTyped, MarksTyped, DaysTyped, RoundTyped, Plans, DroppedTyped

LEMMA TypesGroupedNext ==
    Types' <=> /\ WorldTyped' /\ UserTyped' /\ MarksTyped' /\ DaysTyped' /\ RoundTyped' /\ Timed'
               /\ DroppedTyped'
BY DEF Types, TypeOK, WorldTyped, UserTyped, MarksTyped, DaysTyped, RoundTyped, Plans, DroppedTyped

LEMMA IdlePlan ==
    /\ NoPlan \in Plans
    /\ NoPlan.forward = {} /\ NoPlan.backward = {} /\ NoPlan.recheck = {}
BY HourBounds DEF NoPlan, Plans, HourSet

LEMMA InitTypes == Init => Types
<1> SUFFICES ASSUME Init PROVE Types
  OBVIOUS
<1>1. WorldTyped
  BY HourBounds DEF Init, WorldTyped, HourSet, Hours
<1>2. UserTyped
  BY LedgerAssumption DEF Init, UserTyped
<1>3. MarksTyped /\ DaysTyped
  BY DEF Init, MarksTyped, DaysTyped, HourSet
<1>4. RoundTyped /\ Timed /\ DroppedTyped
  BY IdlePlan DEF Init, RoundTyped, Timed, DroppedTyped, HourSet
<1> QED BY <1>1, <1>2, <1>3, <1>4, TypesGrouped

LEMMA OverTypes ==
    ASSUME Types, RoundOver
    PROVE  RoundTyped' /\ Timed'
BY IdlePlan DEF RoundOver, RoundTyped, Timed

\* A set of the plan gets smaller; the rest of the plan stays.
LEMMA ForwardShrinks ==
    ASSUME Types, phase = "fetch", phase' = "fetch", now' = now,
           NEW S \in HourSet, plan' = [plan EXCEPT !.forward = S]
    PROVE  /\ plan' \in Plans /\ Timed'
           /\ plan'.at = plan.at /\ plan'.retention = plan.retention
           /\ plan'.forward = S /\ plan'.backward = plan.backward /\ plan'.recheck = plan.recheck
<1>1. plan \in Plans
  BY DEF Types, TypeOK, Plans
<1>2. /\ plan' \in Plans
      /\ plan'.at = plan.at /\ plan'.retention = plan.retention
      /\ plan'.forward = S /\ plan'.backward = plan.backward /\ plan'.recheck = plan.recheck
  BY <1>1 DEF Plans
<1>3. Timed'
  BY <1>2 DEF Types, Timed
<1> QED BY <1>2, <1>3

LEMMA BackwardShrinks ==
    ASSUME Types, phase = "fetch", phase' = "fetch", now' = now,
           NEW S \in HourSet, plan' = [plan EXCEPT !.backward = S]
    PROVE  /\ plan' \in Plans /\ Timed'
           /\ plan'.at = plan.at /\ plan'.retention = plan.retention
           /\ plan'.forward = plan.forward /\ plan'.backward = S /\ plan'.recheck = plan.recheck
<1>1. plan \in Plans
  BY DEF Types, TypeOK, Plans
<1>2. /\ plan' \in Plans
      /\ plan'.at = plan.at /\ plan'.retention = plan.retention
      /\ plan'.forward = plan.forward /\ plan'.backward = S /\ plan'.recheck = plan.recheck
  BY <1>1 DEF Plans
<1>3. Timed'
  BY <1>2 DEF Types, Timed
<1> QED BY <1>2, <1>3

LEMMA RecheckShrinks ==
    ASSUME Types, phase = "fetch", phase' = "fetch", now' = now,
           NEW S \in HourSet, plan' = [plan EXCEPT !.recheck = S]
    PROVE  /\ plan' \in Plans /\ Timed'
           /\ plan'.at = plan.at /\ plan'.retention = plan.retention
           /\ plan'.forward = plan.forward /\ plan'.backward = plan.backward /\ plan'.recheck = S
<1>1. plan \in Plans
  BY DEF Types, TypeOK, Plans
<1>2. /\ plan' \in Plans
      /\ plan'.at = plan.at /\ plan'.retention = plan.retention
      /\ plan'.forward = plan.forward /\ plan'.backward = plan.backward /\ plan'.recheck = S
  BY <1>1 DEF Plans
<1>3. Timed'
  BY <1>2 DEF Types, Timed
<1> QED BY <1>2, <1>3

\* A fetched hour is marked, or its segment ends.
Fetches(h, F, B, R) ==
    /\ phase = "fetch" /\ phase' = "fetch" /\ h \in Hours
    /\ plan'.at = plan.at /\ plan'.retention = plan.retention
    /\ plan'.forward = F /\ plan'.backward = B /\ plan'.recheck = R
    /\ StoreHour(h) \/ marks' = marks
    /\ UNCHANGED <<now, published, user, days, queue>>

LEMMA ForwardStep ==
    ASSUME Types, FetchForward
    PROVE  LET h == Least(plan.forward)
           IN  /\ h \in plan.forward /\ \A m \in plan.forward : h <= m
               /\ \/ Fetches(h, plan.forward \ {h}, plan.backward, plan.recheck) /\ StoreHour(h)
                  \/ Fetches(h, {}, plan.backward, plan.recheck) /\ marks' = marks
               /\ repaired' = repaired
               /\ plan' \in Plans /\ Timed'
<1> DEFINE h == Least(plan.forward)
<1>1. h \in plan.forward /\ \A m \in plan.forward : h <= m
  BY TypesFacts, HourBounds, LeastExists DEF FetchForward
<1>2. /\ phase = "fetch" /\ phase' = "fetch" /\ repaired' = repaired
      /\ UNCHANGED <<now, published, user, days, queue>>
      /\ h \in Hours /\ plan.forward \ {h} \in HourSet /\ {} \in HourSet
      /\ plan.backward \in HourSet /\ plan.recheck \in HourSet
  BY <1>1, TypesFacts DEF FetchForward, HourSet
<1>3. \/ StoreHour(h) /\ plan' = [plan EXCEPT !.forward = plan.forward \ {h}]
      \/ marks' = marks /\ plan' = [plan EXCEPT !.forward = {}]
  BY DEF FetchForward
<1> HIDE DEF h
<1>4. ASSUME StoreHour(h), plan' = [plan EXCEPT !.forward = plan.forward \ {h}]
      PROVE  Fetches(h, plan.forward \ {h}, plan.backward, plan.recheck) /\ StoreHour(h) /\ plan' \in Plans /\ Timed'
  <2>1. /\ plan' \in Plans /\ Timed'
        /\ plan'.at = plan.at /\ plan'.retention = plan.retention
        /\ plan'.forward = plan.forward \ {h} /\ plan'.backward = plan.backward /\ plan'.recheck = plan.recheck
    BY <1>2, <1>4, ForwardShrinks
  <2> QED BY <1>2, <1>4, <2>1 DEF Fetches
<1>5. ASSUME marks' = marks, plan' = [plan EXCEPT !.forward = {}]
      PROVE  Fetches(h, {}, plan.backward, plan.recheck) /\ marks' = marks /\ plan' \in Plans /\ Timed'
  <2>1. /\ plan' \in Plans /\ Timed'
        /\ plan'.at = plan.at /\ plan'.retention = plan.retention
        /\ plan'.forward = {} /\ plan'.backward = plan.backward /\ plan'.recheck = plan.recheck
    BY <1>2, <1>5, ForwardShrinks
  <2> QED BY <1>2, <1>5, <2>1 DEF Fetches
<1> QED BY <1>1, <1>2, <1>3, <1>4, <1>5 DEF h

LEMMA BackwardStep ==
    ASSUME Types, FetchBackward
    PROVE  LET h == Greatest(plan.backward)
           IN  /\ plan.forward = {}
               /\ h \in plan.backward /\ \A m \in plan.backward : m <= h
               /\ \/ Fetches(h, {}, plan.backward \ {h}, plan.recheck) /\ StoreHour(h)
                  \/ Fetches(h, {}, {}, plan.recheck) /\ marks' = marks
               /\ repaired' = repaired
               /\ plan' \in Plans /\ Timed'
<1> DEFINE h == Greatest(plan.backward)
<1>1. h \in plan.backward /\ \A m \in plan.backward : m <= h
  <2>1. plan.backward \subseteq 0..LastHour /\ plan.backward # {}
    BY TypesFacts, HourBounds DEF FetchBackward
  <2> QED BY <2>1, HourBounds, GreatestExists
<1>2. /\ phase = "fetch" /\ phase' = "fetch" /\ repaired' = repaired /\ plan.forward = {}
      /\ UNCHANGED <<now, published, user, days, queue>>
      /\ h \in Hours /\ plan.backward \ {h} \in HourSet /\ {} \in HourSet
      /\ plan.recheck \in HourSet
  BY <1>1, TypesFacts DEF FetchBackward, HourSet
<1>3. \/ StoreHour(h) /\ plan' = [plan EXCEPT !.backward = plan.backward \ {h}]
      \/ marks' = marks /\ plan' = [plan EXCEPT !.backward = {}]
  BY DEF FetchBackward
<1> HIDE DEF h
<1>4. ASSUME StoreHour(h), plan' = [plan EXCEPT !.backward = plan.backward \ {h}]
      PROVE  Fetches(h, {}, plan.backward \ {h}, plan.recheck) /\ StoreHour(h) /\ plan' \in Plans /\ Timed'
  <2>1. /\ plan' \in Plans /\ Timed'
        /\ plan'.at = plan.at /\ plan'.retention = plan.retention
        /\ plan'.forward = {} /\ plan'.backward = plan.backward \ {h} /\ plan'.recheck = plan.recheck
    BY <1>2, <1>4, BackwardShrinks
  <2> QED BY <1>2, <1>4, <2>1 DEF Fetches
<1>5. ASSUME marks' = marks, plan' = [plan EXCEPT !.backward = {}]
      PROVE  Fetches(h, {}, {}, plan.recheck) /\ marks' = marks /\ plan' \in Plans /\ Timed'
  <2>1. /\ plan' \in Plans /\ Timed'
        /\ plan'.at = plan.at /\ plan'.retention = plan.retention
        /\ plan'.forward = {} /\ plan'.backward = {} /\ plan'.recheck = plan.recheck
    BY <1>2, <1>5, BackwardShrinks
  <2> QED BY <1>2, <1>5, <2>1 DEF Fetches
<1> QED BY <1>1, <1>2, <1>3, <1>4, <1>5 DEF h

LEMMA RecheckStep ==
    ASSUME Types, FetchRecheck
    PROVE  LET h == Greatest(plan.recheck)
           IN  /\ plan.forward = {} /\ plan.backward = {} /\ h \in plan.recheck
               /\ Fetches(h, {}, {}, plan.recheck \ {h})
               /\ repaired' = IF HasRows(h) THEN repaired \cup {DayOf(h)} ELSE repaired
               /\ plan' \in Plans /\ Timed'
<1> DEFINE h == Greatest(plan.recheck)
<1>1. h \in plan.recheck
  <2>1. plan.recheck \subseteq 0..LastHour /\ plan.recheck # {}
    BY TypesFacts, HourBounds DEF FetchRecheck
  <2> QED BY <2>1, HourBounds, GreatestExists
<1>2. /\ phase = "fetch" /\ phase' = "fetch" /\ plan.forward = {} /\ plan.backward = {}
      /\ UNCHANGED <<now, published, user, days, queue>>
      /\ h \in Hours /\ plan.recheck \ {h} \in HourSet /\ {} \in HourSet
  BY <1>1, TypesFacts DEF FetchRecheck, HourSet
<1>3. /\ StoreHour(h) \/ marks' = marks
      /\ plan' = [plan EXCEPT !.recheck = plan.recheck \ {h}]
      /\ repaired' = IF HasRows(h) THEN repaired \cup {DayOf(h)} ELSE repaired
  BY DEF FetchRecheck
<1> HIDE DEF h
<1> QED BY <1>1, <1>2, <1>3, RecheckShrinks DEF Fetches, h

\* The steps outside the round, and those that end one.
Outside ==
    /\ UNCHANGED <<store, round>>
    /\ now' \in {now, now + 1} /\ published \subseteq published'

Over ==
    /\ RoundOver
    /\ UNCHANGED <<now, published, store>>

RecheckStops ==
    /\ phase = "fetch" /\ plan.forward = {} /\ plan.backward = {}
    /\ plan' = [plan EXCEPT !.recheck = {}]
    /\ UNCHANGED <<now, published, store, phase, repaired, queue>>

LEMMA Steps ==
    ASSUME [Next]_vars
    PROVE  \/ Outside \/ StartRound \/ FetchForward \/ FetchBackward \/ FetchRecheck
           \/ RecheckStops \/ BeginFold \/ FoldDay \/ BeginPrune \/ PruneDay \/ Over
<1>1. CASE Tick
  BY <1>1 DEF Tick, Outside
<1>2. CASE Publish
  BY <1>2 DEF Publish, Outside
<1>3. CASE ChangeSettings
  BY <1>3 DEF ChangeSettings, Outside
<1>4. CASE UNCHANGED vars
  BY <1>4 DEF vars, store, round, Outside
<1>5. CASE RecheckFails
  BY <1>5 DEF RecheckFails, RecheckStops
<1>6. CASE EndRound \/ FetchFails \/ Abort
  BY <1>6 DEF EndRound, FetchFails, Abort, Over
<1> QED BY <1>1, <1>2, <1>3, <1>4, <1>5, <1>6 DEF Next, RoundStep

LEMMA OutsideTypes ==
    ASSUME Types, [Next]_vars
    PROVE  WorldTyped' /\ UserTyped'
<1>1. WorldTyped /\ UserTyped /\ now \in Nat /\ LastHour \in Nat /\ FirstHour \in Nat
  BY TypesGrouped, TypesFacts, HourBounds
<1>2. CASE UNCHANGED <<now, published, user>>
  BY <1>1, <1>2 DEF WorldTyped, UserTyped, user
<1>3. CASE Tick
  BY <1>1, <1>3 DEF Tick, WorldTyped, UserTyped, user
<1>4. CASE Publish
  <2>1. published' \in HourSet /\ now' = now
    BY <1>1, <1>4 DEF Publish, WorldTyped, HourSet, Hours
  <2> QED BY <1>1, <1>4, <2>1 DEF Publish, WorldTyped, UserTyped, user
<1>5. ASSUME ChangeSettings \/ RecheckFails \/ FetchFails \/ Abort
      PROVE  UserTyped' /\ UNCHANGED <<now, published>>
  <2> DEFINE f == spent.faults
             a == spent.aborts
             c == spent.changes
  <2>1. /\ f \in 0..MaxFaults /\ a \in 0..MaxAborts /\ c \in 0..MaxChanges
        /\ spent = [faults |-> f, aborts |-> a, changes |-> c]
        /\ {MaxFaults, MaxAborts, MaxChanges} \subseteq Nat
    BY <1>1, LedgerAssumption DEF UserTyped
  <2> HIDE DEF f, a, c
  <2>2. \/ spent' = [faults |-> f, aborts |-> a, changes |-> c + 1] /\ c < MaxChanges
        \/ spent' = [faults |-> f + 1, aborts |-> a, changes |-> c] /\ f < MaxFaults
        \/ spent' = [faults |-> f, aborts |-> a + 1, changes |-> c] /\ a < MaxAborts
    BY <1>5, <2>1 DEF ChangeSettings, RecheckFails, FetchFails, Abort, f, a, c
  <2>3. settings' \in Settings /\ UNCHANGED <<now, published>>
    BY <1>1, <1>5 DEF UserTyped, ChangeSettings, RecheckFails, FetchFails, Abort
  <2>4. spent' \in [faults : 0 .. MaxFaults, aborts : 0 .. MaxAborts, changes : 0 .. MaxChanges]
    BY <2>1, <2>2
  <2> QED BY <2>3, <2>4 DEF UserTyped
<1>6. CASE ChangeSettings \/ RecheckFails \/ FetchFails \/ Abort
  BY <1>1, <1>5, <1>6 DEF WorldTyped
<1>7. UNCHANGED vars \/ RoundStep => UNCHANGED <<now, published, user>>
  BY DEF vars, user, RoundStep, StartRound, FetchForward, FetchBackward, FetchRecheck,
         BeginFold, FoldDay, BeginPrune, PruneDay, EndRound
<1> QED BY <1>2, <1>3, <1>4, <1>6, <1>7 DEF Next

\* The hours marked change by fetching and by pruning.
LEMMA MarksTypesStep ==
    ASSUME Types, [Next]_vars
    PROVE  MarksTyped'
<1>1. MarksTyped
  BY TypesGrouped
<1>2. CASE UNCHANGED marks
  BY <1>1, <1>2 DEF MarksTyped
<1>3. ASSUME NEW h \in Hours, phase = "fetch", StoreHour(h)
      PROVE  MarksTyped'
  BY <1>3, StoringTypes DEF MarksTyped
<1>4. CASE FetchForward
  BY <1>2, <1>3, <1>4, ForwardStep DEF Fetches
<1>5. CASE FetchBackward
  BY <1>2, <1>3, <1>5, BackwardStep DEF Fetches
<1>6. CASE FetchRecheck
  BY <1>2, <1>3, <1>6, RecheckStep DEF Fetches
<1>7. CASE PruneDay
  BY <1>1, <1>7 DEF PruneDay, MarksTyped, HourSet
<1>8. Outside \/ StartRound \/ RecheckStops \/ BeginFold \/ FoldDay \/ BeginPrune \/ Over
      => UNCHANGED marks
  BY DEF Outside, StartRound, RecheckStops, BeginFold, FoldDay, BeginPrune, Over, store
<1> QED BY <1>2, <1>4, <1>5, <1>6, <1>7, <1>8, Steps

LEMMA FoldFacts ==
    ASSUME Types, FoldDay
    PROVE  LET d == Least(queue)
           IN  /\ d \in queue /\ d \in Nat /\ queue' = queue \ {d}
               /\ DOMAIN days' = DOMAIN days \cup {d}
               /\ days'[d].hours = MarksOf(d) /\ days'[d].summed = RowsOf(d)
               /\ days'[d] \in [hours : HourSet, summed : HourSet]
               /\ \A e \in DOMAIN days : e # d => days'[e] = days[e]
<1> DEFINE d == Least(queue)
<1>1. d \in queue /\ d \in Nat
  BY TypesFacts, LeastExists DEF FoldDay
<1>2. MarksOf(d) \in HourSet /\ RowsOf(d) \in HourSet
  BY TypesFacts DEF MarksOf, RowsOf, HourSet, Mark
<1>3. /\ queue' = queue \ {d}
      /\ days' = [x \in DOMAIN days \cup {d} |->
                     IF x = d THEN [hours |-> MarksOf(d), summed |-> RowsOf(d)] ELSE days[x]]
  BY DEF FoldDay
<1> HIDE DEF d
<1>4. /\ DOMAIN days' = DOMAIN days \cup {d}
      /\ days'[d] = [hours |-> MarksOf(d), summed |-> RowsOf(d)]
      /\ \A e \in DOMAIN days : e # d => days'[e] = days[e]
  BY <1>3
<1>5. days'[d] \in [hours : HourSet, summed : HourSet]
  BY <1>2, <1>4
<1> QED BY <1>1, <1>3, <1>4, <1>5 DEF d

LEMMA DaysTypesStep ==
    ASSUME Types, [Next]_vars
    PROVE  DaysTyped'
<1>1. DaysTyped
  BY TypesGrouped
<1>2. CASE UNCHANGED days
  BY <1>1, <1>2 DEF DaysTyped
<1>3. CASE FoldDay
  <2> DEFINE d == Least(queue)
  <2>1. /\ d \in Days /\ DOMAIN days' = DOMAIN days \cup {d}
        /\ days'[d] \in [hours : HourSet, summed : HourSet]
        /\ \A e \in DOMAIN days : e # d => days'[e] = days[e]
    BY <1>3, FoldFacts, TypesFacts
  <2> HIDE DEF d
  <2> QED BY <1>1, <2>1 DEF DaysTyped
<1>4. ~FoldDay => UNCHANGED days
  BY Steps DEF Outside, StartRound, FetchForward, FetchBackward, FetchRecheck, RecheckStops,
               BeginFold, BeginPrune, PruneDay, Over, store
<1> QED BY <1>2, <1>3, <1>4

LEMMA RoundTypesStep ==
    ASSUME Types, [Next]_vars
    PROVE  RoundTyped' /\ Timed'
<1>1. RoundTyped /\ Timed /\ now \in Nat /\ now \in FirstHour..LastHour /\ settings \in Settings
      /\ FirstHour \in Nat
  BY TypesGrouped, TypesFacts, HourBounds
<1>2. CASE Outside
  <2>1. UNCHANGED <<phase, plan, repaired, queue>> /\ now' \in {now, now + 1}
    BY <1>2 DEF Outside, round
  <2>2. plan.at \in FirstHour..now => plan.at \in FirstHour..now'
    BY <1>1, <2>1
  <2> QED BY <1>1, <2>1, <2>2 DEF RoundTyped, Timed
<1>3. CASE StartRound
  <2>1. /\ plan' \in Plans /\ plan'.at = now /\ plan'.retention = settings.retention
        /\ phase' = "fetch" /\ now' = now /\ UNCHANGED <<repaired, queue>>
    BY <1>3, Starting DEF Plans, StartRound
  <2>2. plan'.at \in FirstHour..now'
    BY <1>1, <2>1
  <2> QED BY <1>1, <2>1, <2>2 DEF RoundTyped, Timed
<1>4. CASE FetchForward
  BY <1>1, <1>4, ForwardStep DEF Fetches, RoundTyped
<1>5. CASE FetchBackward
  BY <1>1, <1>5, BackwardStep DEF Fetches, RoundTyped
<1>6. CASE FetchRecheck
  <2> DEFINE h == Greatest(plan.recheck)
  <2>1. /\ h \in plan.recheck /\ phase' = "fetch" /\ queue' = queue
        /\ repaired' = IF HasRows(h) THEN repaired \cup {DayOf(h)} ELSE repaired
        /\ plan' \in Plans /\ Timed'
    BY <1>6, RecheckStep DEF Fetches
  <2> HIDE DEF h
  <2>2. DayOf(h) \in Days
    BY <2>1, TypesFacts, HourBounds
  <2> QED BY <1>1, <2>1, <2>2 DEF RoundTyped
<1>7. CASE RecheckStops
  <2>1. plan' \in Plans /\ Timed'
    BY <1>7, RecheckShrinks DEF RecheckStops, HourSet
  <2> QED BY <1>1, <1>7, <2>1 DEF RecheckStops, RoundTyped
<1>8. CASE BeginFold
  <2>1. MarkedDays \subseteq Days
    BY TypesFacts, HourBounds DEF MarkedDays, Mark
  <2>2. queue' \subseteq Days
    BY <1>8, <2>1 DEF BeginFold, Oldest
  <2> QED BY <1>1, <1>8, <2>2 DEF BeginFold, RoundTyped, Timed
<1>9. CASE FoldDay
  BY <1>1, <1>9 DEF FoldDay, RoundTyped, Timed
<1>10. CASE BeginPrune
  <2>1. MarkedDays \subseteq Days
    BY TypesFacts, HourBounds DEF MarkedDays, Mark
  <2>2. queue' \subseteq Days
    BY <1>10, <2>1 DEF BeginPrune
  <2> QED BY <1>1, <1>10, <2>2 DEF BeginPrune, RoundTyped, Timed
<1>11. CASE PruneDay
  BY <1>1, <1>11 DEF PruneDay, RoundTyped, Timed
<1>12. CASE Over
  BY <1>12, OverTypes DEF Over
<1> QED BY <1>2, <1>3, <1>4, <1>5, <1>6, <1>7, <1>8, <1>9, <1>10, <1>11, <1>12, Steps

\* What is excused grows with a death and shrinks with a fold, and only then.
LEMMA ExcuseKept ==
    ASSUME [Next]_vars
    PROVE  \/ dropped' = dropped
           \/ dropped' = dropped \cup Overlooked
           \/ dropped' = dropped \ RowsOf(Least(queue))
<1>1. CASE Tick \/ Publish \/ ChangeSettings \/ RecheckFails \/ FetchFails \/ UNCHANGED vars
  BY <1>1 DEF Tick, Publish, ChangeSettings, RecheckFails, FetchFails, vars
<1>2. CASE StartRound \/ FetchForward \/ FetchBackward \/ FetchRecheck
  BY <1>2 DEF StartRound, FetchForward, FetchBackward, FetchRecheck
<1>3. CASE BeginFold \/ BeginPrune \/ PruneDay \/ EndRound
  BY <1>3 DEF BeginFold, BeginPrune, PruneDay, EndRound
<1>4. CASE Abort
  BY <1>4 DEF Abort
<1>5. CASE FoldDay
  BY <1>5 DEF FoldDay
<1> QED BY <1>1, <1>2, <1>3, <1>4, <1>5 DEF Next, RoundStep

LEMMA DroppedTypesStep ==
    ASSUME Types, [Next]_vars
    PROVE  DroppedTyped'
<1>1. dropped \subseteq Hours
  BY TypesGrouped DEF DroppedTyped, HourSet
<1>2. Overlooked \subseteq Hours
  BY TypesFacts DEF Overlooked, Mark
<1>3. dropped' \subseteq Hours
  BY <1>1, <1>2, ExcuseKept
<1> QED BY <1>3 DEF DroppedTyped, HourSet

LEMMA TypesStep ==
    ASSUME Types, [Next]_vars
    PROVE  Types'
BY OutsideTypes, MarksTypesStep, DaysTypesStep, RoundTypesStep, DroppedTypesStep,
   TypesGroupedNext

LEMMA TypesAlways == Spec => []Types
<1>1. Types /\ [Next]_vars => Types'
  BY TypesStep
<1> QED BY InitTypes, <1>1, PTL DEF Spec

\* Every hour, day and count of the ledger stays of its kind, and a round
\* never plans outside the clock (run_sync_round and the exchange tables).
THEOREM LedgerTypes == Spec => []TypeOK
<1>1. Types => TypeOK
  BY DEF Types
<1> QED BY <1>1, TypesAlways, PTL

-----------------------------------------------------------------------------
(* No hole between the marks.                                              *)

LEMMA EarliestNext ==
    ASSUME NEW x \in Mark', Mark' \subseteq Int, \A y \in Mark' : x <= y
    PROVE  EarliestMark' = x
<1>1. Least(Mark') = x
  BY LeastIs
<1> QED BY <1>1 DEF EarliestMark, Mark

LEMMA WatermarkNext ==
    ASSUME NEW x \in Mark', Mark' \subseteq Int, \A y \in Mark' : y <= x
    PROVE  Watermark' = x
<1>1. Greatest(Mark') = x
  BY GreatestIs
<1> QED BY <1>1 DEF Watermark, Mark

\* An hour above the watermark, and one below the earliest mark, is stored.
LEMMA StoredAbove ==
    ASSUME Types, NEW h \in Hours, StoreHour(h), Mark # {} => Watermark < h
    PROVE  /\ Watermark' = h
           /\ EarliestMark' = IF Mark = {} THEN h ELSE EarliestMark
<1>0. Mark' = Mark \cup {h} /\ \A k \in Mark \cup {h} : k \in Int
  BY Storing, TypesFacts, HourInts
<1>1. Mark' = Mark \cup {h} /\ Mark' \subseteq Int /\ h \in Mark' /\ h \in Int /\ Mark \subseteq Int
  BY <1>0
<1>2. CASE Mark = {}
  BY <1>1, <1>2, EarliestNext, WatermarkNext
<1>3. CASE Mark # {}
  <2>1. /\ EarliestMark \in Mark' /\ EarliestMark \in Int /\ Watermark \in Int /\ Watermark < h
        /\ \A y \in Mark : EarliestMark <= y /\ y <= Watermark
    BY <1>1, <1>3, MarkBounds
  <2>2. \A y \in Mark' : y \in Int /\ EarliestMark <= y /\ y <= h
    BY <1>1, <1>3, <2>1
  <2>3. Watermark' = h
    BY <1>1, <2>2, WatermarkNext
  <2>4. EarliestMark' = EarliestMark
    BY <1>1, <2>1, <2>2, EarliestNext
  <2> QED BY <1>3, <2>3, <2>4
<1> QED BY <1>2, <1>3

LEMMA StoredBelow ==
    ASSUME Types, NEW h \in Hours, StoreHour(h), Mark # {}, h < EarliestMark
    PROVE  Watermark' = Watermark /\ EarliestMark' = h
<1>0. Mark' = Mark \cup {h} /\ \A k \in Mark \cup {h} : k \in Int
  BY Storing, TypesFacts, HourInts
<1>1. Mark' = Mark \cup {h} /\ Mark' \subseteq Int /\ h \in Mark' /\ h \in Int /\ Mark \subseteq Int
  BY <1>0
<1>2. /\ EarliestMark \in Int /\ Watermark \in Mark' /\ Watermark \in Int
      /\ EarliestMark <= Watermark
      /\ \A y \in Mark : EarliestMark <= y /\ y <= Watermark
  BY <1>1, MarkBounds
<1>3. \A y \in Mark' : y \in Int /\ h <= y /\ y <= Watermark
  BY <1>1, <1>2
<1>4. Watermark' = Watermark
  BY <1>1, <1>2, <1>3, WatermarkNext
<1>5. EarliestMark' = h
  BY <1>1, <1>3, EarliestNext
<1> QED BY <1>4, <1>5

\* What a round still has to fetch lies next to the marks: a run of hours from
\* just above the watermark, and hours below the earliest mark with nothing
\* left out between them but folded days; a second look is at marked hours.
Forwarding ==
    plan.forward # {} =>
        \E a, b \in Hours : /\ a <= b /\ plan.forward = a..b
                            /\ Mark # {} => a = Watermark + 1
Backing ==
    /\ plan.backward # {} => Mark # {}
    /\ \A x \in plan.backward :
          /\ x < EarliestMark
          /\ \A y \in x..(EarliestMark - 1) : y \in plan.backward \/ DayOf(y) \in FoldedDays
Planned == Forwarding /\ Backing /\ plan.recheck \subseteq Mark

\* The days to fold can be folded, and no other past day can that has no line.
Folding ==
    phase = "fold" =>
        /\ \A d \in queue : CoverageComplete(d) /\ d < DayOf(plan.at)
        /\ \A d \in MarkedDays :
              d < DayOf(plan.at) /\ CoverageComplete(d) => d \in queue \/ d \in DOMAIN days

\* The days to prune have lines, are past the retention, and none stays below one.
Pruning ==
    phase = "prune" =>
        /\ plan.retention # 0 \/ queue = {}
        /\ \A d \in queue :
              /\ d \in DOMAIN days
              /\ d < DayOf(plan.at - plan.retention * HoursPerDay)
              /\ \A e \in MarkedDays : e < d => e \in queue

Whole == Types /\ Planned /\ Folding /\ Pruning /\ NoHoleBetweenMarks

\* The first hour of a forward plan is just above the marks, and the rest follow it.
LEMMA ForwardNext ==
    ASSUME Types, Planned, FetchForward
    PROVE  /\ Mark # {} => Least(plan.forward) = Watermark + 1
           /\ LET S == plan.forward \ {Least(plan.forward)}
              IN  S # {} => \E a, b \in Hours : /\ a <= b /\ S = a..b
                                                /\ a = Least(plan.forward) + 1
<1> DEFINE h == Least(plan.forward)
<1>1. h \in plan.forward /\ \A m \in plan.forward : h <= m
  BY ForwardStep
<1>2. PICK a, b \in Hours : /\ a <= b /\ plan.forward = a..b
                            /\ Mark # {} => a = Watermark + 1
  BY <1>1 DEF Planned, Forwarding
<1> HIDE DEF h
<1>3. a \in Int /\ b \in Int /\ \A x \in a..b : x \in Hours
  BY <1>2, TypesFacts, HourBounds
<1>4. h = a
  BY <1>1, <1>2, <1>3
<1>5. (a..b) \ {a} = (a + 1)..b
  BY <1>3
<1>6. (a + 1)..b # {} => a + 1 \in Hours /\ a + 1 <= b
  BY <1>3
<1> QED BY <1>2, <1>4, <1>5, <1>6 DEF h

LEMMA PlannedForward ==
    ASSUME Types, Types', Planned, FetchForward
    PROVE  Planned'
<1> DEFINE h == Least(plan.forward)
<1>1. /\ h \in Hours /\ days' = days /\ plan'.backward = plan.backward
      /\ plan'.recheck = plan.recheck
      /\ \/ StoreHour(h) /\ plan'.forward = plan.forward \ {h}
         \/ marks' = marks /\ plan'.forward = {}
  BY ForwardStep DEF Fetches
<1>2. FoldedDays' = FoldedDays
  BY <1>1 DEF FoldedDays
<1>3. Mark # {} => h = Watermark + 1
  BY ForwardNext
<1>4. plan'.forward # {} => \E a, b \in Hours : a <= b /\ plan'.forward = a..b /\ a = h + 1
  BY <1>1, ForwardNext
<1> HIDE DEF h
<1>5. CASE StoreHour(h)
  <2>0. Mark # {} => Watermark \in Int
    BY MarkBounds
  <2>1. Mark # {} => Watermark < h
    BY <1>3, <2>0
  <2>2. /\ Watermark' = h /\ Mark' = Mark \cup {h}
        /\ EarliestMark' = IF Mark = {} THEN h ELSE EarliestMark
    BY <1>1, <1>5, <2>1, StoredAbove, Storing
  <2>3. Forwarding'
    BY <1>4, <2>2 DEF Forwarding
  <2>4. Backing'
    BY <1>1, <1>2, <2>2 DEF Planned, Backing
  <2> QED BY <1>1, <2>2, <2>3, <2>4 DEF Planned
<1>6. CASE marks' = marks /\ plan'.forward = {}
  <2>1. Mark' = Mark /\ EarliestMark' = EarliestMark
    BY <1>6 DEF Mark, EarliestMark
  <2> QED BY <1>1, <1>2, <1>6, <2>1 DEF Planned, Forwarding, Backing
<1> QED BY <1>1, <1>5, <1>6

LEMMA PlannedBackward ==
    ASSUME Types, Types', Planned, FetchBackward
    PROVE  Planned'
<1> DEFINE h == Greatest(plan.backward)
<1>1. /\ h \in Hours /\ days' = days /\ plan'.forward = {} /\ plan'.recheck = plan.recheck
      /\ h \in plan.backward /\ \A m \in plan.backward : m <= h
      /\ \/ StoreHour(h) /\ plan'.backward = plan.backward \ {h}
         \/ marks' = marks /\ plan'.backward = {}
  BY BackwardStep DEF Fetches
<1>2. FoldedDays' = FoldedDays
  BY <1>1 DEF FoldedDays
<1> HIDE DEF h
<1>3. Mark # {} /\ h < EarliestMark
  BY <1>1 DEF Planned, Backing
<1>4. CASE StoreHour(h) /\ plan'.backward = plan.backward \ {h}
  <2>1. Watermark' = Watermark /\ EarliestMark' = h /\ Mark' = Mark \cup {h}
    BY <1>1, <1>3, <1>4, StoredBelow, Storing
  <2>2. ASSUME NEW x \in plan.backward \ {h}
        PROVE  /\ x < h
               /\ \A y \in x..(h - 1) : y \in plan.backward \ {h} \/ DayOf(y) \in FoldedDays
    <3>0. EarliestMark \in Hours /\ x \in Hours
      BY <1>3, TypesFacts, MarkBounds
    <3>1. x \in Int /\ h \in Int /\ EarliestMark \in Int
      BY <1>1, <3>0, HourInts
    <3>2. x < h /\ h < EarliestMark
      BY <1>1, <1>3, <3>1
    <3>3. ASSUME NEW y \in x..(h - 1)
          PROVE  y \in plan.backward \ {h} \/ DayOf(y) \in FoldedDays
      <4>1. y \in x..(EarliestMark - 1) /\ y # h
        BY <3>1, <3>2
      <4> QED BY <4>1 DEF Planned, Backing
    <3> QED BY <3>2, <3>3
  <2>3. Backing'
    BY <1>2, <1>4, <2>1, <2>2 DEF Backing
  <2> QED BY <1>1, <2>1, <2>3 DEF Planned, Forwarding
<1>5. CASE marks' = marks /\ plan'.backward = {}
  <2>1. Mark' = Mark
    BY <1>5 DEF Mark
  <2> QED BY <1>1, <1>5, <2>1 DEF Planned, Forwarding, Backing
<1> QED BY <1>1, <1>4, <1>5

LEMMA PlannedStart ==
    ASSUME Types, Types', StartRound
    PROVE  Planned'
<1> DEFINE floor == SeasonFloor(settings.season, now, settings.backfill)
<1>1. /\ plan'.forward = PlanFetch(Watermark, now, floor, settings.backfill)
      /\ \/ plan'.backward = {}
         \/ \E budget \in Int : plan'.backward =
               PlanBackward(EarliestMark, now, floor, settings.backfill, budget, FoldedDays)
      /\ plan'.recheck \subseteq Mark
  BY Starting
<1>2. /\ marks' = marks /\ days' = days
  BY DEF StartRound, store
<1>3. Mark' = Mark /\ EarliestMark' = EarliestMark /\ Watermark' = Watermark
      /\ FoldedDays' = FoldedDays
  BY <1>2 DEF Mark, EarliestMark, Watermark, FoldedDays
<1>4. settings \in Settings /\ now \in 1..LastHour /\ now \in Nat /\ NoHour \notin Hours
  BY TypesFacts, PlanAssumption DEF Hours
<1>5. Mark # {} => Watermark \in Hours /\ EarliestMark \in Hours
  BY MarkBounds
<1>6. Mark = {} => Watermark = NoHour /\ EarliestMark = NoHour
  BY NoMarks
<1>7. Forwarding'
  <2>1. Watermark \in Hours \cup {NoHour}
    BY <1>5, <1>6
  <2>2. plan'.forward # {} => \E a, b \in Hours :
           /\ plan'.forward = a..b /\ a <= b
           /\ Watermark # NoHour => a = Watermark + 1
    BY <1>1, <1>4, <2>1, ForwardPlan
  <2> QED BY <1>3, <1>4, <1>5, <2>2 DEF Forwarding
<1>8. Backing'
  <2>1. CASE plan'.backward = {}
    BY <2>1 DEF Backing
  <2>2. CASE plan'.backward # {}
    <3>1. PICK budget \in Int : plan'.backward =
               PlanBackward(EarliestMark, now, floor, settings.backfill, budget, FoldedDays)
      BY <1>1, <2>2
    <3>2. Mark # {}
      BY <1>6, <2>2, <3>1 DEF PlanBackward
    <3> DEFINE P == PlanBackward(EarliestMark, now, floor, settings.backfill, budget, FoldedDays)
    <3>3. EarliestMark \in Hours
      BY <1>5, <3>2
    <3>4. \A x \in P :
             /\ x < EarliestMark
             /\ \A y \in x..(EarliestMark - 1) : y \in P \/ DayOf(y) \in FoldedDays
      BY <1>4, <3>3, BackwardPlan
    <3> HIDE DEF P
    <3>5. plan'.backward = P
      BY <3>1 DEF P
    <3> QED BY <1>3, <3>2, <3>4, <3>5 DEF Backing
  <2> QED BY <2>1, <2>2
<1> QED BY <1>1, <1>3, <1>7, <1>8 DEF Planned

LEMMA PlannedStep ==
    ASSUME Types, Types', Planned, [Next]_vars
    PROVE  Planned'
<1>1. CASE Outside
  BY <1>1 DEF Outside, store, round, Planned, Forwarding, Backing, Mark, EarliestMark, Watermark,
             FoldedDays
<1>2. CASE FetchRecheck
  <2> DEFINE h == Greatest(plan.recheck)
  <2>1. /\ h \in plan.recheck /\ plan'.forward = {} /\ plan'.backward = {}
        /\ plan'.recheck = plan.recheck \ {h}
        /\ StoreHour(h) \/ marks' = marks
    BY <1>2, RecheckStep DEF Fetches
  <2> HIDE DEF h
  <2>2. Mark \subseteq Mark'
    BY <2>1, Storing DEF Mark
  <2> QED BY <2>1, <2>2 DEF Planned, Forwarding, Backing
<1>3. CASE RecheckStops
  <2>1. plan'.forward = {} /\ plan'.backward = {} /\ plan'.recheck = {}
    BY <1>3, RecheckShrinks DEF RecheckStops, HourSet
  <2> QED BY <2>1 DEF Planned, Forwarding, Backing
<1>4. CASE phase' # "fetch"
  <2>1. plan'.forward = {} /\ plan'.backward = {} /\ plan'.recheck = {}
    BY <1>4 DEF Types, Timed
  <2> QED BY <2>1 DEF Planned, Forwarding, Backing
<1>5. BeginFold \/ FoldDay \/ BeginPrune \/ PruneDay \/ Over => phase' # "fetch"
  BY DEF BeginFold, FoldDay, BeginPrune, PruneDay, Over, RoundOver
<1> QED BY <1>1, <1>2, <1>3, <1>4, <1>5, PlannedForward, PlannedBackward, PlannedStart, Steps

\* The days a fold has to do; the hypothesis of the theorems is that a round
\* about to fold has no more of them than it may do in one run.
Waiting == {d \in MarkedDays : d < DayOf(plan.at) /\ NeedsFold(d)}

Fetched == phase = "fetch" /\ plan.forward = {} /\ plan.backward = {} /\ plan.recheck = {}

KeepsUp == Fetched => Cardinality(Waiting) <= DayBudget

LEMMA MarkedFacts ==
    ASSUME Types
    PROVE  /\ MarkedDays \subseteq Days /\ IsFiniteSet(MarkedDays)
           /\ \A d \in MarkedDays : d \in Nat /\ \E h \in Mark : DayOf(h) = d
<1>1. MarkedDays \subseteq Days
  BY TypesFacts, HourBounds DEF MarkedDays, Mark
<1>2. IsFiniteSet(MarkedDays)
  BY <1>1, HourBounds, FS_Subset
<1>3. \A d \in MarkedDays : \E h \in Mark : DayOf(h) = d
  BY DEF MarkedDays, Mark
<1>4. \A d \in Days : d \in Nat
  BY HourBounds
<1> QED BY <1>1, <1>2, <1>3, <1>4

LEMMA AllWaitingAreFolded ==
    ASSUME Types, KeepsUp, Fetched
    PROVE  Oldest(Waiting, DayBudget) = Waiting
<1>1. IsFiniteSet(Waiting) /\ \A x \in Waiting : x \in Nat
  <2>1. Waiting \subseteq MarkedDays
    BY DEF Waiting
  <2> QED BY <2>1, MarkedFacts, FS_Subset
<1>2. Cardinality(Waiting) \in Nat /\ Cardinality(Waiting) <= DayBudget /\ DayBudget \in Nat
  BY <1>1, FS_CardinalityType, LedgerAssumption DEF KeepsUp
<1>3. ASSUME NEW x \in Waiting
      PROVE  Cardinality({y \in Waiting : y < x}) < DayBudget
  <2> DEFINE T == {y \in Waiting : y < x}
  <2>1. T \in SUBSET (Waiting \ {x})
    BY <1>1
  <2>2. IsFiniteSet(Waiting \ {x}) /\ Cardinality(Waiting \ {x}) = Cardinality(Waiting) - 1
    BY <1>1, FS_RemoveElement
  <2>3. IsFiniteSet(T) /\ Cardinality(T) <= Cardinality(Waiting \ {x})
    BY <2>1, <2>2, FS_Subset
  <2>4. Cardinality(T) \in Nat
    BY <2>3, FS_CardinalityType
  <2> HIDE DEF T
  <2>5. Cardinality(T) < DayBudget
    BY <1>2, <2>2, <2>3, <2>4
  <2> QED BY <2>5 DEF T
<1> QED BY <1>3 DEF Oldest

LEMMA SameMarks ==
    ASSUME marks' = marks
    PROVE  /\ Mark' = Mark /\ EarliestMark' = EarliestMark /\ Watermark' = Watermark
           /\ MarkedDays' = MarkedDays
           /\ \A d : MarksOf(d)' = MarksOf(d) /\ (CoverageComplete(d)' <=> CoverageComplete(d))
<1>1. /\ Mark' = Mark /\ EarliestMark' = EarliestMark /\ Watermark' = Watermark
      /\ MarkedDays' = MarkedDays
      /\ \A d : MarksOf(d)' = MarksOf(d)
  BY DEF Mark, EarliestMark, Watermark, MarkedDays, MarksOf
<1>2. \A d : CoverageComplete(d)' <=> CoverageComplete(d)
  BY <1>1 DEF CoverageComplete
<1> QED BY <1>1, <1>2

LEMMA PruneFacts ==
    ASSUME Types, PruneDay
    PROVE  LET d == Least(queue)
           IN  /\ d \in queue /\ d \in Nat /\ \A e \in queue : d <= e
               /\ queue' = queue \ {d}
               /\ Mark' = Mark \ MarksOf(d)
               /\ \A h \in Mark' : h \in Mark /\ marks'[h] = marks[h] /\ DayOf(h) # d
               /\ MarkedDays' = MarkedDays \ {d}
<1> DEFINE d == Least(queue)
<1>1. d \in queue /\ d \in Nat /\ \A e \in queue : d <= e
  BY TypesFacts, LeastExists DEF PruneDay
<1>2. /\ queue' = queue \ {d}
      /\ marks' = [h \in DOMAIN marks \ MarksOf(d) |-> marks[h]]
  BY DEF PruneDay
<1> HIDE DEF d
<1>3. Mark' = Mark \ MarksOf(d) /\ \A h \in Mark' : h \in Mark /\ marks'[h] = marks[h]
  BY <1>2 DEF Mark
<1>4. \A h \in Mark : h \in MarksOf(d) <=> DayOf(h) = d
  BY DEF MarksOf, Mark
<1>5. MarkedDays' = {DayOf(h) : h \in Mark'} /\ MarkedDays = {DayOf(h) : h \in Mark}
  BY DEF MarkedDays, Mark
<1>6. MarkedDays' = MarkedDays \ {d}
  BY <1>3, <1>4, <1>5
<1> QED BY <1>1, <1>2, <1>3, <1>4, <1>6 DEF d

\* A marked day below the watermark is folded in full, or can be folded.
LEMMA MarkedBelow ==
    ASSUME Types, NoHoleBetweenMarks, NEW e \in MarkedDays, e \notin FoldedDays,
           Greatest(HoursOf(e)) <= Watermark
    PROVE  CoverageComplete(e)
<1> DEFINE first == e * HoursPerDay
           last == e * HoursPerDay + HoursPerDay - 1
           h == IF EarliestMark <= first THEN first ELSE EarliestMark
<1>1. e \in Nat /\ e \in Int
  BY MarkedFacts
<1>2. PICK k \in Mark : DayOf(k) = e
  BY MarkedFacts
<1>3. /\ EarliestMark \in Int /\ Watermark \in Int
      /\ EarliestMark <= k
  BY <1>2, MarkBounds
<1>4. k \in Int /\ k \in HoursOf(e)
  BY <1>1, <1>2, TypesFacts, HourInts, DayBounds
<1>5. /\ first \in Int /\ last \in Int /\ HoursOf(e) = first..last
      /\ Least(HoursOf(e)) = first /\ Greatest(HoursOf(e)) = last
  BY <1>1, DayHours, DayBounds DEF HoursOf
<1> HIDE DEF first, last
<1>6. h \in Int /\ first <= h /\ h <= last /\ EarliestMark <= h /\ last <= Watermark
  BY <1>3, <1>4, <1>5
<1>7. ASSUME NEW x \in h..last PROVE x \in MarksOf(e)
  <2>1. x \in Int /\ x \in HoursOf(e) /\ x \in EarliestMark..Watermark
    BY <1>3, <1>5, <1>6
  <2>2. DayOf(x) = e
    BY <1>1, <2>1, DayBounds
  <2>3. x \in DOMAIN marks
    BY <1>2, <2>1, <2>2 DEF NoHoleBetweenMarks, Mark
  <2> QED BY <2>2, <2>3 DEF MarksOf
<1>8. ASSUME NEW x \in MarksOf(e) PROVE x \in h..last
  <2>1. x \in Mark /\ DayOf(x) = e
    BY DEF MarksOf, Mark
  <2>2. x \in Int /\ EarliestMark <= x
    BY <2>1, TypesFacts, HourInts, MarkBounds
  <2>3. x \in HoursOf(e)
    BY <1>1, <2>1, <2>2, DayBounds
  <2> QED BY <1>5, <1>6, <2>2, <2>3
<1>9. h = first \/ h = EarliestMark
  OBVIOUS
<1> HIDE DEF h
<1>10. MarksOf(e) = h..last /\ h \in MarksOf(e)
  <2>1. h \in h..last
    BY <1>5, <1>6
  <2> QED BY <1>7, <1>8, <2>1
<1> QED BY <1>5, <1>9, <1>10 DEF CoverageComplete

LEMMA FoldingStep ==
    ASSUME Types, Types', KeepsUp, Folding, [Next]_vars
    PROVE  Folding'
<1>1. CASE Outside
  <2>1. UNCHANGED <<phase, queue, plan, days>>
    BY <1>1 DEF Outside, store, round
  <2>2. marks' = marks
    BY <1>1 DEF Outside, store
  <2> QED BY <2>1, <2>2, SameMarks DEF Folding
<1>2. CASE BeginFold
  <2>1. queue' = Oldest(Waiting, DayBudget) /\ plan' = plan /\ days' = days /\ Fetched
    BY <1>2 DEF BeginFold, Waiting, Fetched, store
  <2>2. queue' = Waiting
    BY <2>1, AllWaitingAreFolded
  <2>3. marks' = marks
    BY <1>2 DEF BeginFold, store
  <2>4. \A d \in queue' : CoverageComplete(d) /\ d < DayOf(plan.at)
    BY <2>2 DEF Waiting, NeedsFold
  <2>5. \A d \in MarkedDays : d < DayOf(plan.at) /\ CoverageComplete(d) => d \in queue' \/ d \in DOMAIN days
    BY <2>2 DEF Waiting, NeedsFold
  <2> QED BY <2>1, <2>3, <2>4, <2>5, SameMarks DEF Folding
<1>3. CASE FoldDay
  <2> DEFINE d == Least(queue)
  <2>1. queue' = queue \ {d} /\ DOMAIN days' = DOMAIN days \cup {d}
    BY <1>3, FoldFacts
  <2> HIDE DEF d
  <2>2. marks' = marks /\ plan' = plan /\ phase = "fold"
    BY <1>3 DEF FoldDay
  <2> QED BY <2>1, <2>2, SameMarks DEF Folding
<1>4. ~(Outside \/ BeginFold \/ FoldDay) => phase' # "fold"
  BY Steps DEF StartRound, FetchForward, FetchBackward, FetchRecheck, RecheckStops,
               BeginPrune, PruneDay, Over, RoundOver
<1>5. phase' # "fold" => Folding'
  BY DEF Folding
<1> QED BY <1>1, <1>2, <1>3, <1>4, <1>5

LEMMA RoundRetention ==
    ASSUME Types, phase # "idle"
    PROVE  plan.at \in Nat /\ plan.at <= now /\ \E s \in Settings : plan.retention = s.retention
BY TypesFacts, HourBounds DEF Types, Timed

LEMMA PruningStep ==
    ASSUME Types, Types', Folding, NoHoleBetweenMarks, Pruning, [Next]_vars
    PROVE  Pruning'
<1>1. CASE Outside
  <2>1. UNCHANGED <<phase, queue, plan, days>> /\ marks' = marks
    BY <1>1 DEF Outside, store, round
  <2> QED BY <2>1, SameMarks DEF Pruning
<1>2. CASE BeginPrune
  <2> DEFINE limit == DayOf(plan.at - plan.retention * HoursPerDay)
  <2>1. /\ marks' = marks /\ days' = days /\ plan' = plan /\ phase = "fold" /\ queue = {}
        /\ queue' = IF plan.retention = 0 THEN {}
                    ELSE {d \in MarkedDays \cap DOMAIN days : d < limit}
    BY <1>2 DEF BeginPrune, store
  <2>2. limit \in Int /\ DayOf(plan.at) \in Int /\ limit <= DayOf(plan.at)
    <3>1. plan.at \in Nat /\ plan.retention * HoursPerDay \in Nat
      BY <2>1, RoundRetention, SettingsFields
    <3> QED BY <3>1, DayBounds
  <2> HIDE DEF limit
  <2>3. ASSUME NEW d \in queue', NEW e \in MarkedDays, e < d
        PROVE  e \in queue'
    <3>1. d \in MarkedDays /\ d < limit /\ d \in Int /\ e \in Int /\ plan.retention # 0
      BY <2>1, <2>3, MarkedFacts
    <3>2. e < limit /\ e < DayOf(plan.at)
      BY <2>2, <2>3, <3>1
    <3>3. e \in DOMAIN days
      <4>1. CASE e \in FoldedDays
        BY <4>1 DEF FoldedDays
      <4>2. CASE e \notin FoldedDays
        <5>1. PICK h \in Mark : DayOf(h) = d
          BY <3>1, MarkedFacts
        <5>2. h \in Int /\ h <= Watermark /\ Watermark \in Int
          BY <5>1, TypesFacts, HourInts, MarkBounds
        <5>3. Greatest(HoursOf(e)) = e * HoursPerDay + HoursPerDay - 1
              /\ e * HoursPerDay + HoursPerDay = (e + 1) * HoursPerDay
              /\ e * HoursPerDay \in Int /\ d * HoursPerDay \in Int /\ HoursPerDay \in Nat
          BY <3>1, DayHours, DayBounds
        <5>4. (e + 1) * HoursPerDay <= d * HoursPerDay
          BY <2>3, <3>1, <5>3, MulMono
        <5>5. d * HoursPerDay <= h
          BY <3>1, <5>1, <5>2, DayBounds DEF HoursOf
        <5>6. Greatest(HoursOf(e)) <= Watermark
          BY <5>2, <5>3, <5>4, <5>5
        <5>7. CoverageComplete(e)
          BY <4>2, <5>6, MarkedBelow
        <5> QED BY <2>1, <3>2, <5>7 DEF Folding
      <4> QED BY <4>1, <4>2
    <3> QED BY <2>1, <3>1, <3>2, <3>3
  <2>4. \A d \in queue' : d \in DOMAIN days /\ d < limit
    BY <2>1
  <2>5. plan.retention # 0 \/ queue' = {}
    BY <2>1
  <2> QED BY <2>1, <2>3, <2>4, <2>5, SameMarks DEF Pruning, limit
<1>3. CASE PruneDay
  <2> DEFINE d == Least(queue)
  <2>1. queue' = queue \ {d} /\ MarkedDays' = MarkedDays \ {d}
    BY <1>3, PruneFacts
  <2>2. plan' = plan /\ days' = days /\ phase = "prune"
    BY <1>3 DEF PruneDay
  <2> HIDE DEF d
  <2> QED BY <2>1, <2>2 DEF Pruning
<1>4. ~(Outside \/ BeginPrune \/ PruneDay) => phase' # "prune"
  BY Steps DEF StartRound, FetchForward, FetchBackward, FetchRecheck, RecheckStops,
               BeginFold, FoldDay, Over, RoundOver
<1>5. phase' # "prune" => Pruning'
  BY DEF Pruning
<1> QED BY <1>1, <1>2, <1>3, <1>4, <1>5

-----------------------------------------------------------------------------
(* Each step leaves no hole.                                               *)

LEMMA NoHoleForward ==
    ASSUME Whole, FetchForward
    PROVE  NoHoleBetweenMarks'
<1> DEFINE h == Least(plan.forward)
<1>1. /\ h \in Hours /\ h \in Int /\ days' = days /\ (StoreHour(h) \/ marks' = marks)
  BY ForwardStep, HourInts DEF Fetches, Whole
<1>2. Mark # {} => h = Watermark + 1
  BY ForwardNext DEF Whole
<1> HIDE DEF h
<1>3. FoldedDays' = FoldedDays
  BY <1>1 DEF FoldedDays
<1>4. CASE marks' = marks
  BY <1>3, <1>4, SameMarks DEF Whole, NoHoleBetweenMarks
<1>5. CASE StoreHour(h)
  <2>0. Mark # {} => Watermark \in Int /\ EarliestMark \in Int
    BY MarkBounds DEF Whole
  <2>1. Mark # {} => Watermark < h
    BY <1>2, <2>0
  <2>2. /\ Watermark' = h /\ Mark' = Mark \cup {h}
        /\ EarliestMark' = IF Mark = {} THEN h ELSE EarliestMark
    BY <1>1, <1>5, <2>1, StoredAbove, Storing DEF Whole
  <2>3. ASSUME NEW k \in EarliestMark'..Watermark'
        PROVE  k \in Mark' \/ DayOf(k) \in FoldedDays
    <3>1. CASE Mark = {}
      BY <1>1, <2>2, <3>1
    <3>2. CASE Mark # {}
      <4>1. k = h \/ k \in EarliestMark..Watermark
        BY <1>1, <1>2, <2>0, <2>2, <3>2
      <4>2. k \in EarliestMark..Watermark => k \in Mark \/ DayOf(k) \in FoldedDays
        BY <3>2 DEF Whole, NoHoleBetweenMarks, Mark
      <4> QED BY <2>2, <4>1, <4>2
    <3> QED BY <3>1, <3>2
  <2> QED BY <1>3, <2>3 DEF NoHoleBetweenMarks, Mark
<1> QED BY <1>1, <1>4, <1>5

LEMMA NoHoleBackward ==
    ASSUME Whole, FetchBackward
    PROVE  NoHoleBetweenMarks'
<1> DEFINE h == Greatest(plan.backward)
<1>1. /\ h \in Hours /\ h \in Int /\ days' = days /\ (StoreHour(h) \/ marks' = marks)
      /\ h \in plan.backward /\ \A m \in plan.backward : m <= h
  BY BackwardStep, HourInts DEF Fetches, Whole
<1> HIDE DEF h
<1>2. /\ Mark # {} /\ h < EarliestMark
      /\ \A y \in h..(EarliestMark - 1) : y \in plan.backward \/ DayOf(y) \in FoldedDays
  BY <1>1 DEF Whole, Planned, Backing
<1>3. FoldedDays' = FoldedDays
  BY <1>1 DEF FoldedDays
<1>4. CASE marks' = marks
  BY <1>3, <1>4, SameMarks DEF Whole, NoHoleBetweenMarks
<1>5. CASE StoreHour(h)
  <2>0. Watermark \in Int /\ EarliestMark \in Int
    BY <1>2, MarkBounds DEF Whole
  <2>1. Watermark' = Watermark /\ EarliestMark' = h /\ Mark' = Mark \cup {h}
    BY <1>1, <1>2, <1>5, StoredBelow, Storing DEF Whole
  <2>2. ASSUME NEW k \in h..Watermark
        PROVE  k \in Mark' \/ DayOf(k) \in FoldedDays
    <3>1. k = h \/ k \in (h + 1)..(EarliestMark - 1) \/ k \in EarliestMark..Watermark
      BY <1>1, <2>0
    <3>2. k \in EarliestMark..Watermark => k \in Mark \/ DayOf(k) \in FoldedDays
      BY <1>2 DEF Whole, NoHoleBetweenMarks, Mark
    <3>3. ASSUME k \in (h + 1)..(EarliestMark - 1) PROVE DayOf(k) \in FoldedDays
      <4>1. k \in h..(EarliestMark - 1) /\ ~(k <= h)
        BY <1>1, <2>0, <3>3
      <4> QED BY <1>1, <1>2, <4>1
    <3> QED BY <2>1, <3>1, <3>2, <3>3
  <2> QED BY <1>3, <2>1, <2>2 DEF NoHoleBetweenMarks, Mark
<1> QED BY <1>1, <1>4, <1>5

LEMMA NoHoleRecheck ==
    ASSUME Whole, FetchRecheck
    PROVE  NoHoleBetweenMarks'
<1> DEFINE h == Greatest(plan.recheck)
<1>1. /\ h \in plan.recheck /\ days' = days /\ (StoreHour(h) \/ marks' = marks)
  BY RecheckStep DEF Fetches, Whole
<1> HIDE DEF h
<1>2. h \in Mark
  BY <1>1 DEF Whole, Planned
<1>3. Mark' = Mark
  BY <1>1, <1>2, Storing DEF Mark
<1>4. EarliestMark' = EarliestMark /\ Watermark' = Watermark /\ FoldedDays' = FoldedDays
  BY <1>1, <1>3 DEF EarliestMark, Watermark, FoldedDays, Mark
<1> QED BY <1>3, <1>4 DEF Whole, NoHoleBetweenMarks, Mark

\* A day is folded again from its first hour, or from the earliest mark, on.
LEMMA NoHoleFold ==
    ASSUME Whole, FoldDay
    PROVE  NoHoleBetweenMarks'
<1> DEFINE d == Least(queue)
<1>1. /\ d \in queue /\ d \in Nat /\ d \in Int
      /\ DOMAIN days' = DOMAIN days \cup {d} /\ days'[d].hours = MarksOf(d)
      /\ \A e \in DOMAIN days : e # d => days'[e] = days[e]
  BY FoldFacts DEF Whole
<1>2. marks' = marks /\ phase = "fold"
  BY DEF FoldDay
<1> HIDE DEF d
<1>3. CoverageComplete(d)
  BY <1>1, <1>2 DEF Whole, Folding
<1>4. ASSUME NEW k \in EarliestMark..Watermark, Mark # {}
      PROVE  k \in Mark \/ DayOf(k) \in FoldedDays'
  <2>0. EarliestMark \in Int /\ Watermark \in Int /\ k \in Int
    BY <1>4, MarkBounds DEF Whole
  <2>1. k \in Mark \/ DayOf(k) \in FoldedDays
    BY <1>4 DEF Whole, NoHoleBetweenMarks, Mark
  <2>2. CASE k \in Mark
    BY <2>2
  <2>3. CASE DayOf(k) \in FoldedDays /\ DayOf(k) # d
    BY <1>1, <2>3 DEF FoldedDays
  <2>4. CASE DayOf(k) = d
    <3>1. PICK h \in MarksOf(d) : /\ MarksOf(d) = h..Greatest(HoursOf(d))
                                  /\ h = Least(HoursOf(d)) \/ h = EarliestMark
      BY <1>3 DEF CoverageComplete
    <3>2. /\ k \in HoursOf(d) /\ Greatest(HoursOf(d)) \in Int /\ Least(HoursOf(d)) \in Int
          /\ HoursOf(d) = Least(HoursOf(d))..Greatest(HoursOf(d))
      <4>1. k \in HoursOf(d)
        BY <1>1, <2>0, <2>4, DayBounds
      <4>2. d * HoursPerDay \in Int /\ HoursPerDay \in Int
        BY <1>1, DayBounds
      <4> QED BY <1>1, <4>1, <4>2, DayHours DEF HoursOf
    <3>3. k \in h..Greatest(HoursOf(d))
      <4>1. Least(HoursOf(d)) <= k /\ k <= Greatest(HoursOf(d)) /\ EarliestMark <= k
        BY <1>4, <2>0, <3>2
      <4> QED BY <2>0, <3>1, <3>2, <4>1
    <3> QED BY <3>1, <3>3 DEF MarksOf, Mark
  <2> QED BY <2>1, <2>2, <2>3, <2>4
<1> QED BY <1>2, <1>4, SameMarks DEF NoHoleBetweenMarks, Mark

\* The day pruned is the lowest that is marked.
LEMMA PrunedIsLowest ==
    ASSUME Whole, PruneDay
    PROVE  \A h \in Mark' : h \in Int /\ Least(queue) < DayOf(h)
<1> DEFINE d == Least(queue)
<1>1. /\ d \in queue /\ d \in Int /\ \A e \in queue : d <= e
      /\ \A h \in Mark' : h \in Mark /\ DayOf(h) # d
  BY PruneFacts DEF Whole
<1>2. phase = "prune"
  BY DEF PruneDay
<1> HIDE DEF d
<1>3. ASSUME NEW h \in Mark' PROVE h \in Int /\ d < DayOf(h)
  <2>1. DayOf(h) \in MarkedDays /\ h \in Int
    BY <1>1, TypesFacts, HourInts DEF MarkedDays, Mark, Whole
  <2>2. DayOf(h) \in Int
    BY <2>1, DayBounds
  <2>3. DayOf(h) < d => DayOf(h) \in queue
    BY <1>1, <1>2, <2>1 DEF Whole, Pruning
  <2> QED BY <1>1, <2>1, <2>2, <2>3
<1> QED BY <1>3 DEF d

LEMMA NoHolePrune ==
    ASSUME Whole, Types', PruneDay
    PROVE  NoHoleBetweenMarks'
<1> DEFINE d == Least(queue)
<1>1. /\ Mark' = Mark \ MarksOf(d)
      /\ \A h \in Mark' : h \in Mark /\ h \in Int /\ d < DayOf(h)
  BY PruneFacts, PrunedIsLowest DEF Whole
<1>2. days' = days /\ FoldedDays' = FoldedDays
  BY DEF PruneDay, FoldedDays
<1>3. d \in Int
  BY PruneFacts DEF Whole
<1> HIDE DEF d
<1>4. ASSUME Mark' # {}, NEW k \in EarliestMark'..Watermark'
      PROVE  k \in Mark' \/ DayOf(k) \in FoldedDays
  <2>1. /\ EarliestMark' \in Mark' /\ Watermark' \in Mark'
    <3>1. Mark' \subseteq Nat /\ Mark' \subseteq 0..LastHour
      BY <1>1, TypesFacts DEF Whole
    <3>2. Least(Mark') \in Mark' /\ Greatest(Mark') \in Mark'
      BY <1>4, <3>1, LeastExists, GreatestExists, HourBounds
    <3> QED BY <1>4, <3>2 DEF EarliestMark, Watermark, Mark
  <2>2. /\ EarliestMark' \in Mark /\ Watermark' \in Mark /\ Mark # {}
        /\ EarliestMark' \in Int /\ Watermark' \in Int /\ d < DayOf(EarliestMark')
    BY <1>1, <2>1
  <2>3. /\ EarliestMark \in Int /\ Watermark \in Int
        /\ EarliestMark <= EarliestMark' /\ Watermark' <= Watermark
    BY <2>2, MarkBounds DEF Whole
  <2>4. k \in Int /\ EarliestMark' <= k /\ k \in EarliestMark..Watermark
    BY <2>2, <2>3
  <2>5. DayOf(EarliestMark') <= DayOf(k) /\ DayOf(k) \in Int /\ DayOf(EarliestMark') \in Int
    BY <2>2, <2>4, DayBounds
  <2>6. DayOf(k) # d
    BY <1>3, <2>2, <2>5
  <2>7. k \in Mark \/ DayOf(k) \in FoldedDays
    BY <2>2, <2>4 DEF Whole, NoHoleBetweenMarks, Mark
  <2> QED BY <1>1, <2>6, <2>7 DEF MarksOf
<1> QED BY <1>2, <1>4 DEF NoHoleBetweenMarks, Mark

LEMMA WholeStep ==
    ASSUME Whole, KeepsUp, [Next]_vars
    PROVE  Whole'
<1>1. Types'
  BY TypesStep DEF Whole
<1>2. Planned' /\ Folding' /\ Pruning'
  BY <1>1, PlannedStep, FoldingStep, PruningStep DEF Whole
<1>3. CASE Outside \/ StartRound \/ RecheckStops \/ BeginFold \/ BeginPrune \/ Over
  <2>1. marks' = marks /\ days' = days
    BY <1>3 DEF Outside, StartRound, RecheckStops, BeginFold, BeginPrune, Over, store
  <2>2. FoldedDays' = FoldedDays
    BY <2>1 DEF FoldedDays
  <2>3. NoHoleBetweenMarks'
    BY <2>1, <2>2, SameMarks DEF Whole, NoHoleBetweenMarks
  <2> QED BY <1>1, <1>2, <2>3 DEF Whole
<1>4. CASE FetchForward \/ FetchBackward \/ FetchRecheck \/ FoldDay \/ PruneDay
  <2>1. NoHoleBetweenMarks'
    BY <1>1, <1>4, NoHoleForward, NoHoleBackward, NoHoleRecheck, NoHoleFold, NoHolePrune
  <2> QED BY <1>1, <1>2, <2>1 DEF Whole
<1> QED BY <1>3, <1>4, Steps

LEMMA WholeAlways == Spec /\ []KeepsUp => []Whole
<1>1. Init => Whole
  <2> SUFFICES ASSUME Init PROVE Whole
    OBVIOUS
  <2>1. Types
    BY InitTypes
  <2>2. DOMAIN marks = {} /\ phase = "idle" /\ plan = NoPlan
    BY DEF Init
  <2>3. Planned /\ Folding /\ Pruning /\ NoHoleBetweenMarks
    BY <2>2, IdlePlan DEF Planned, Forwarding, Backing, Folding, Pruning, NoHoleBetweenMarks
  <2> QED BY <2>1, <2>3 DEF Whole
<1>2. Whole /\ KeepsUp /\ [Next]_vars => Whole'
  BY WholeStep
<1> QED BY <1>1, <1>2, PTL DEF Spec

\* While the fold keeps up with the fetching, no round, failure, crash or prune
\* leaves an hour between the marks neither marked nor folded (plan_fetch and
\* plan_backward would never come back to it).
THEOREM NoHoleIsLeft == Spec /\ []KeepsUp => []NoHoleBetweenMarks
<1>1. Whole => NoHoleBetweenMarks
  BY DEF Whole
<1> QED BY <1>1, WholeAlways, PTL

-----------------------------------------------------------------------------
(* Day lines and the hours they are folded from.                           *)

\* The hypothesis on the settings: the detail is kept as long as any window
\* the user may choose reaches back, or for ever.
KeepsTheWindow ==
    \A s, t \in Settings : t.retention = 0 \/ s.backfill <= t.retention

\* A line is of hours of its day, the last one among them.
Lines ==
    \A d \in DOMAIN days : /\ days[d].summed \subseteq days[d].hours
                           /\ days[d].hours \subseteq HoursOf(d)
                           /\ Greatest(HoursOf(d)) \in days[d].hours

\* No line is of a day above the watermark, nor above what is fetched forward.
Top ==
    /\ Mark # {} => \A d \in DOMAIN days : d <= DayOf(Watermark)
    /\ \A h \in plan.forward : \A d \in DOMAIN days : d <= DayOf(h)

\* The hours of a line are all still marked, or the whole day is pruned and
\* below every window.
Kept ==
    \A d \in DOMAIN days :
        \/ days[d].hours \subseteq Mark
        \/ /\ \A h \in Mark : DayOf(h) # d
           /\ \A s \in Settings : d < DayOf(now - s.backfill * HoursPerDay)

\* What is still to be fetched belongs to no full line, and to no pruned one.
Fresh ==
    \A h \in plan.forward \cup plan.backward :
        /\ DayOf(h) \notin FoldedDays
        /\ DayOf(h) \in DOMAIN days => days[DayOf(h)].hours \subseteq Mark

\* Rows once stored stay, and a summed hour that is marked has them.
Rows ==
    /\ \A h \in Mark : marks[h].rows => HasRows(h)
    /\ \A d \in DOMAIN days : \A h \in days[d].summed \cap Mark : marks[h].rows

Lasting == Whole /\ Lines /\ Top /\ Kept /\ Fresh /\ Rows

\* One hour is fetched, or the segment it belongs to ends.
FetchOf(h) ==
    /\ phase = "fetch" /\ phase' = "fetch"
    /\ h \in Hours /\ h \in plan.forward \cup plan.backward \cup Mark
    /\ plan'.forward \subseteq plan.forward /\ plan'.backward \subseteq plan.backward
    /\ days' = days /\ now' = now /\ published' = published
    /\ Mark \subseteq Mark' /\ Mark' \subseteq Mark \cup {h}
    /\ \A k \in Mark : k # h => marks'[k] = marks[k]
    /\ h \in Mark' => \/ marks'[h].rows = HasRows(h)
                      \/ h \in Mark /\ marks'[h] = marks[h]

\* Neither hours nor lines change, and nothing is added to what is fetched.
Rest ==
    /\ marks' = marks /\ days' = days
    /\ plan'.forward \subseteq plan.forward /\ plan'.backward \subseteq plan.backward
    /\ now' \in {now, now + 1} /\ published \subseteq published'

LEMMA Fetching ==
    ASSUME Whole, NEW h \in Hours, h \in plan.forward \cup plan.backward \cup Mark,
           NEW F, NEW B, NEW R, Fetches(h, F, B, R),
           F \subseteq plan.forward, B \subseteq plan.backward
    PROVE  FetchOf(h)
<1>1. CASE marks' = marks
  BY <1>1 DEF FetchOf, Fetches, Mark
<1>2. CASE StoreHour(h)
  <2>1. Mark' = Mark \cup {h} /\ marks'[h] = [rows |-> HasRows(h), fetched |-> plan.at]
        /\ \A k \in Mark : k # h => marks'[k] = marks[k]
    BY <1>2, Storing
  <2>2. marks'[h].rows = HasRows(h)
    BY <2>1
  <2> QED BY <2>1, <2>2 DEF FetchOf, Fetches
<1> QED BY <1>1, <1>2 DEF Fetches

LEMMA Kinds ==
    ASSUME Whole, Types', [Next]_vars
    PROVE  Rest \/ StartRound \/ (\E h \in Hours : FetchOf(h)) \/ FoldDay \/ PruneDay
<1>1. CASE FetchForward
  <2> DEFINE h == Least(plan.forward)
  <2>1. /\ h \in plan.forward
        /\ \/ Fetches(h, plan.forward \ {h}, plan.backward, plan.recheck)
           \/ Fetches(h, {}, plan.backward, plan.recheck)
    BY <1>1, ForwardStep DEF Whole
  <2> HIDE DEF h
  <2>2. h \in Hours
    BY <2>1, TypesFacts DEF Whole
  <2> QED BY <2>1, <2>2, Fetching
<1>2. CASE FetchBackward
  <2> DEFINE h == Greatest(plan.backward)
  <2>1. /\ h \in plan.backward
        /\ \/ Fetches(h, {}, plan.backward \ {h}, plan.recheck)
           \/ Fetches(h, {}, {}, plan.recheck)
    BY <1>2, BackwardStep DEF Whole
  <2> HIDE DEF h
  <2>2. h \in Hours
    BY <2>1, TypesFacts DEF Whole
  <2> QED BY <2>1, <2>2, Fetching
<1>3. CASE FetchRecheck
  <2> DEFINE h == Greatest(plan.recheck)
  <2>1. h \in plan.recheck /\ Fetches(h, {}, {}, plan.recheck \ {h})
    BY <1>3, RecheckStep DEF Whole
  <2> HIDE DEF h
  <2>2. h \in Hours /\ h \in Mark
    BY <2>1, TypesFacts DEF Whole, Planned
  <2> QED BY <2>1, <2>2, Fetching
<1>4. CASE Outside
  BY <1>4 DEF Outside, Rest, store, round
<1>5. CASE RecheckStops
  <2>1. plan'.forward = plan.forward /\ plan'.backward = plan.backward
    BY <1>5, RecheckShrinks DEF RecheckStops, HourSet, Whole
  <2> QED BY <1>5, <2>1 DEF RecheckStops, Rest, store
<1>6. CASE BeginFold \/ BeginPrune \/ Over
  <2>1. phase' # "fetch" /\ marks' = marks /\ days' = days /\ now' = now /\ published' = published
    BY <1>6 DEF BeginFold, BeginPrune, Over, RoundOver, store
  <2>2. plan'.forward = {} /\ plan'.backward = {}
    BY <2>1 DEF Types, Timed
  <2> QED BY <2>1, <2>2 DEF Rest
<1> QED BY <1>1, <1>2, <1>3, <1>4, <1>5, <1>6, Steps

LEMMA StartChanges ==
    ASSUME StartRound
    PROVE  /\ marks' = marks /\ days' = days /\ now' = now /\ published' = published
           /\ Mark' = Mark /\ FoldedDays' = FoldedDays
BY DEF StartRound, store, Mark, FoldedDays

LEMMA FoldChanges ==
    ASSUME Whole, Types', FoldDay
    PROVE  LET d == Least(queue)
           IN  /\ marks' = marks /\ Mark' = Mark /\ now' = now /\ published' = published
               /\ plan'.forward = {} /\ plan'.backward = {}
               /\ d \in Nat /\ CoverageComplete(d) /\ DOMAIN days' = DOMAIN days \cup {d}
               /\ days'[d].hours = MarksOf(d) /\ days'[d].summed = RowsOf(d)
               /\ \A e \in DOMAIN days : e # d => days'[e] = days[e]
<1> DEFINE d == Least(queue)
<1>1. /\ marks' = marks /\ Mark' = Mark /\ now' = now /\ published' = published
      /\ phase = "fold" /\ phase' = "fold"
  BY DEF FoldDay, Mark
<1>2. plan'.forward = {} /\ plan'.backward = {}
  BY <1>1 DEF Types, Timed
<1>3. /\ d \in queue /\ d \in Nat /\ DOMAIN days' = DOMAIN days \cup {d}
      /\ days'[d].hours = MarksOf(d) /\ days'[d].summed = RowsOf(d)
      /\ \A e \in DOMAIN days : e # d => days'[e] = days[e]
  BY FoldFacts DEF Whole
<1> HIDE DEF d
<1>4. CoverageComplete(d)
  BY <1>1, <1>3 DEF Whole, Folding
<1> QED BY <1>1, <1>2, <1>3, <1>4 DEF d

LEMMA PruneChanges ==
    ASSUME Whole, Types', PruneDay
    PROVE  LET d == Least(queue)
           IN  /\ days' = days /\ now' = now /\ published' = published /\ phase = "prune"
               /\ plan'.forward = {} /\ plan'.backward = {}
               /\ d \in queue /\ d \in Nat /\ Mark' \subseteq Mark
               /\ \A h \in Mark : h \in Mark' <=> DayOf(h) # d
               /\ \A h \in Mark' : marks'[h] = marks[h] /\ d < DayOf(h)
<1> DEFINE d == Least(queue)
<1>1. days' = days /\ now' = now /\ published' = published /\ phase = "prune" /\ phase' = "prune"
  BY DEF PruneDay
<1>2. plan'.forward = {} /\ plan'.backward = {}
  BY <1>1 DEF Types, Timed
<1>3. /\ d \in queue /\ d \in Nat /\ Mark' = Mark \ MarksOf(d)
      /\ \A h \in Mark' : h \in Mark /\ marks'[h] = marks[h]
      /\ \A h \in Mark' : d < DayOf(h)
  BY PruneFacts, PrunedIsLowest DEF Whole
<1> HIDE DEF d
<1>4. \A h \in Mark : h \in Mark' <=> DayOf(h) # d
  BY <1>3 DEF MarksOf, Mark
<1> QED BY <1>1, <1>2, <1>3, <1>4 DEF d

LEMMA MarkBoundsNext ==
    ASSUME Types', Mark' # {}
    PROVE  /\ Watermark' \in Mark' /\ Watermark' \in Int
           /\ \A h \in Mark' : h \in Int /\ h <= Watermark'
<1>1. Mark' \subseteq Hours
  BY DEF Types, TypeOK, Mark, HourSet
<1>2. Mark' \subseteq 0..LastHour
  BY <1>1, HourBounds
<1>3. Greatest(Mark') \in Mark' /\ \A m \in Mark' : m <= Greatest(Mark')
  BY <1>2, GreatestExists, HourBounds
<1>4. Watermark' = Greatest(Mark')
  BY DEF Watermark, Mark
<1>5. \A h \in Mark' : h \in Int
  BY <1>1, HourInts
<1> QED BY <1>3, <1>4, <1>5

LEMMA LinesStep ==
    ASSUME Lasting, Types', [Next]_vars
    PROVE  Lines'
<1>1. CASE days' = days
  BY <1>1 DEF Lasting, Lines
<1>2. CASE FoldDay
  <2> DEFINE d == Least(queue)
  <2>1. /\ d \in Nat /\ CoverageComplete(d) /\ DOMAIN days' = DOMAIN days \cup {d}
        /\ days'[d].hours = MarksOf(d) /\ days'[d].summed = RowsOf(d)
        /\ \A e \in DOMAIN days : e # d => days'[e] = days[e]
    BY <1>2, FoldChanges DEF Lasting
  <2> HIDE DEF d
  <2>2. PICK h \in MarksOf(d) : MarksOf(d) = h..Greatest(HoursOf(d))
    BY <2>1 DEF CoverageComplete
  <2>3. d \in Int /\ Greatest(HoursOf(d)) \in Int
    BY <2>1, DayHours
  <2>4. Greatest(HoursOf(d)) \in MarksOf(d)
    <3>1. h \in h..Greatest(HoursOf(d))
      BY <2>2
    <3> QED BY <2>2, <2>3, <3>1
  <2>5. MarksOf(d) \subseteq HoursOf(d)
    <3>1. \A x \in MarksOf(d) : x \in Mark /\ DayOf(x) = d
      BY DEF MarksOf, Mark
    <3>2. \A x \in Mark : x \in Int
      BY TypesFacts, HourInts DEF Lasting, Whole
    <3> QED BY <2>3, <3>1, <3>2, DayBounds
  <2>6. RowsOf(d) \subseteq MarksOf(d)
    BY DEF RowsOf
  <2> QED BY <2>1, <2>4, <2>5, <2>6 DEF Lasting, Lines
<1>3. days' = days \/ FoldDay
  BY Kinds, StartChanges, PruneChanges DEF Rest, FetchOf, Lasting
<1> QED BY <1>1, <1>2, <1>3

\* What a new round plans: forward hours above the marks, or of the window when
\* there are none; backward hours of the window that lie in no full day.
LEMMA StartHours ==
    ASSUME Whole, StartRound
    PROVE  LET lowest == now - settings.backfill * HoursPerDay
           IN  /\ \A h \in plan'.forward :
                     /\ h \in Hours /\ h \notin Mark
                     /\ Mark # {} => Watermark < h
                     /\ Mark = {} => lowest <= h
               /\ \A h \in plan'.backward :
                     h \in Hours /\ DayOf(h) \notin FoldedDays /\ lowest <= h
<1> DEFINE floor == SeasonFloor(settings.season, now, settings.backfill)
           lowest == now - settings.backfill * HoursPerDay
<1>1. /\ plan'.forward = PlanFetch(Watermark, now, floor, settings.backfill)
      /\ \/ plan'.backward = {}
         \/ \E budget \in Int : plan'.backward =
               PlanBackward(EarliestMark, now, floor, settings.backfill, budget, FoldedDays)
      /\ plan'.forward \subseteq Hours /\ plan'.backward \subseteq Hours
  BY Starting DEF Whole
<1>2. settings \in Settings /\ now \in 1..LastHour /\ now \in Nat /\ NoHour \notin Hours
      /\ lowest \in Int
  <2>1. settings \in Settings /\ now \in 1..LastHour /\ now \in Nat /\ NoHour \notin Hours
    BY TypesFacts, PlanAssumption DEF Hours, Whole
  <2> QED BY <2>1, SettingsFields
<1>3. Mark # {} => /\ Watermark \in Hours /\ EarliestMark \in Hours /\ Watermark \in Int
                   /\ \A k \in Mark : k <= Watermark
  BY MarkBounds DEF Whole
<1>4. Mark = {} => Watermark = NoHour /\ EarliestMark = NoHour
  BY NoMarks
<1>5. ASSUME NEW h \in plan'.forward
      PROVE  /\ h \in Hours /\ h \notin Mark
             /\ Mark # {} => Watermark < h
             /\ Mark = {} => lowest <= h
  <2>1. Watermark \in Hours \cup {NoHour}
    BY <1>3, <1>4
  <2> DEFINE P == PlanFetch(Watermark, now, floor, settings.backfill)
  <2>2. P # {} => \E a, b \in Hours :
           /\ P = a..b /\ a <= b
           /\ Watermark # NoHour => a = Watermark + 1
           /\ Watermark = NoHour => lowest <= a
    BY <1>2, <2>1, ForwardPlan
  <2> HIDE DEF P
  <2>3. plan'.forward = P
    BY <1>1 DEF P
  <2>4. PICK a, b \in Hours :
           /\ plan'.forward = a..b /\ a <= b
           /\ Watermark # NoHour => a = Watermark + 1
           /\ Watermark = NoHour => lowest <= a
    BY <1>5, <2>2, <2>3
  <2>5. h \in Int /\ a \in Int /\ a <= h /\ h \in Hours
    BY <1>1, <2>4, HourInts
  <2> HIDE DEF lowest
  <2>6. Mark = {} => lowest <= h
    BY <1>2, <1>4, <2>4, <2>5
  <2>7. Mark # {} => Watermark < h
    BY <1>2, <1>3, <2>4, <2>5
  <2>8. h \notin Mark
    BY <1>3, <2>5, <2>7
  <2> QED BY <2>5, <2>6, <2>7, <2>8
<1>6. ASSUME NEW h \in plan'.backward
      PROVE  h \in Hours /\ DayOf(h) \notin FoldedDays /\ lowest <= h
  <2>1. PICK budget \in Int : plan'.backward =
               PlanBackward(EarliestMark, now, floor, settings.backfill, budget, FoldedDays)
    BY <1>1, <1>6
  <2>2. EarliestMark \in Hours
    BY <1>3, <1>4, <1>6, <2>1 DEF PlanBackward
  <2> DEFINE P == PlanBackward(EarliestMark, now, floor, settings.backfill, budget, FoldedDays)
  <2>3. \A x \in P : lowest <= x /\ DayOf(x) \notin FoldedDays
    BY <1>2, <2>2, BackwardPlan
  <2> HIDE DEF P, lowest
  <2>4. plan'.backward = P
    BY <2>1 DEF P
  <2> QED BY <1>1, <1>6, <2>3, <2>4
<1> QED BY <1>5, <1>6 DEF lowest

\* The line of an hour of the window, and of one above the marks, has its hours.
LEMMA LineOfTheWindow ==
    ASSUME Lasting, NEW s \in Settings, NEW h \in Hours,
           now - s.backfill * HoursPerDay <= h, DayOf(h) \in DOMAIN days
    PROVE  days[DayOf(h)].hours \subseteq Mark
<1> DEFINE lowest == now - s.backfill * HoursPerDay
<1>1. lowest \in Int /\ h \in Int /\ lowest <= h
  BY TypesFacts, SettingsFields, HourInts DEF Lasting, Whole
<1>2. DayOf(lowest) <= DayOf(h) /\ DayOf(lowest) \in Int /\ DayOf(h) \in Int
  <2> HIDE DEF lowest
  <2> QED BY <1>1, DayBounds
<1>3. ~(DayOf(h) < DayOf(lowest))
  BY <1>2
<1> QED BY <1>3 DEF Lasting, Kept

LEMMA LineAboveTheMarks ==
    ASSUME Lasting, Mark # {}, NEW h \in Hours, Watermark < h, DayOf(h) \in DOMAIN days
    PROVE  days[DayOf(h)].hours \subseteq Mark
<1>1. Watermark \in Mark /\ Watermark \in Int /\ h \in Int
  BY MarkBounds, HourInts DEF Lasting, Whole
<1>2. DayOf(Watermark) <= DayOf(h) /\ DayOf(Watermark) \in Int /\ DayOf(h) \in Int
  BY <1>1, DayBounds
<1>3. DayOf(h) <= DayOf(Watermark)
  BY DEF Lasting, Top
<1>4. DayOf(Watermark) = DayOf(h)
  BY <1>2, <1>3
<1> QED BY <1>1, <1>4 DEF Lasting, Kept

\* A day an hour of which is missing is not folded in full.
LEMMA NotFull ==
    ASSUME Lasting, NEW h \in Hours, h \notin Mark,
           DayOf(h) \in DOMAIN days => days[DayOf(h)].hours \subseteq Mark
    PROVE  DayOf(h) \notin FoldedDays
<1> DEFINE d == DayOf(h)
<1>1. h \in Int /\ d \in Int
  BY HourInts, DayBounds
<1>2. /\ IsFiniteSet(HoursOf(d)) /\ Cardinality(HoursOf(d)) = HoursPerDay /\ h \in HoursOf(d)
      /\ HoursPerDay \in Nat
  BY <1>1, DayHours, DayBounds
<1> HIDE DEF d
<1>3. SUFFICES ASSUME d \in FoldedDays PROVE FALSE
  BY DEF d
<1>4. d \in DOMAIN days /\ Cardinality(days[d].hours) >= HoursPerDay
  BY <1>3 DEF FoldedDays
<1>5. days[d].hours \in SUBSET (HoursOf(d) \ {h})
  BY <1>4 DEF d, Lasting, Lines
<1>6. /\ IsFiniteSet(HoursOf(d) \ {h})
      /\ Cardinality(HoursOf(d) \ {h}) = HoursPerDay - 1
  BY <1>2, FS_RemoveElement
<1>7. /\ IsFiniteSet(days[d].hours)
      /\ Cardinality(days[d].hours) <= Cardinality(HoursOf(d) \ {h})
  BY <1>5, <1>6, FS_Subset
<1>8. Cardinality(days[d].hours) \in Nat
  BY <1>7, FS_CardinalityType
<1> QED BY <1>2, <1>4, <1>6, <1>7, <1>8

LEMMA FreshStep ==
    ASSUME Lasting, Types', [Next]_vars
    PROVE  Fresh'
<1>1. CASE Rest
  <2>1. Mark' = Mark /\ FoldedDays' = FoldedDays /\ days' = days
    BY <1>1 DEF Rest, Mark, FoldedDays
  <2> QED BY <1>1, <2>1 DEF Rest, Lasting, Fresh
<1>2. CASE StartRound
  <2>1. Mark' = Mark /\ FoldedDays' = FoldedDays /\ days' = days
    BY <1>2, StartChanges
  <2>2. settings \in Settings
    BY TypesFacts DEF Lasting, Whole
  <2>3. ASSUME NEW h \in plan'.forward
        PROVE  /\ DayOf(h) \notin FoldedDays
               /\ DayOf(h) \in DOMAIN days => days[DayOf(h)].hours \subseteq Mark
    <3>1. /\ h \in Hours /\ h \notin Mark
          /\ Mark # {} => Watermark < h
          /\ Mark = {} => now - settings.backfill * HoursPerDay <= h
      BY <1>2, StartHours DEF Lasting
    <3>2. DayOf(h) \in DOMAIN days => days[DayOf(h)].hours \subseteq Mark
      BY <2>2, <3>1, LineOfTheWindow, LineAboveTheMarks
    <3> QED BY <3>1, <3>2, NotFull
  <2>4. ASSUME NEW h \in plan'.backward
        PROVE  /\ DayOf(h) \notin FoldedDays
               /\ DayOf(h) \in DOMAIN days => days[DayOf(h)].hours \subseteq Mark
    <3>1. /\ h \in Hours /\ DayOf(h) \notin FoldedDays
          /\ now - settings.backfill * HoursPerDay <= h
      BY <1>2, StartHours DEF Lasting
    <3> QED BY <2>2, <3>1, LineOfTheWindow
  <2> QED BY <2>1, <2>3, <2>4 DEF Fresh
<1>3. ASSUME NEW h \in Hours, FetchOf(h) PROVE Fresh'
  <2>1. FoldedDays' = FoldedDays /\ days' = days /\ Mark \subseteq Mark'
    BY <1>3 DEF FetchOf, FoldedDays
  <2> QED BY <1>3, <2>1 DEF FetchOf, Lasting, Fresh
<1>4. CASE FoldDay
  <2>1. plan'.forward = {} /\ plan'.backward = {}
    BY <1>4, FoldChanges DEF Lasting
  <2> QED BY <2>1 DEF Fresh
<1>5. CASE PruneDay
  <2>1. plan'.forward = {} /\ plan'.backward = {}
    BY <1>5, PruneChanges DEF Lasting
  <2> QED BY <2>1 DEF Fresh
<1> QED BY <1>1, <1>2, <1>3, <1>4, <1>5, Kinds DEF Lasting

LEMMA TopStep ==
    ASSUME Lasting, Types', [Next]_vars
    PROVE  Top'
<1>0. /\ \A d \in DOMAIN days : d \in Int
      /\ \A h \in Mark : h \in Int
      /\ Mark # {} => Watermark \in Mark /\ Watermark \in Int /\ \A h \in Mark : h <= Watermark
  BY TypesFacts, HourInts, MarkBounds DEF Lasting, Whole
<1>1. CASE Rest
  <2>1. Mark' = Mark /\ Watermark' = Watermark /\ days' = days
    BY <1>1, SameMarks DEF Rest
  <2> QED BY <1>1, <2>1 DEF Rest, Lasting, Top
<1>2. CASE StartRound
  <2>1. Mark' = Mark /\ Watermark' = Watermark /\ days' = days
    BY <1>2, StartChanges, SameMarks
  <2> DEFINE lowest == now - settings.backfill * HoursPerDay
  <2>2. ASSUME NEW h \in plan'.forward, NEW d \in DOMAIN days
        PROVE  d <= DayOf(h)
    <3>1. /\ h \in Hours
          /\ Mark # {} => Watermark < h
          /\ Mark = {} => lowest <= h
      BY <1>2, StartHours DEF Lasting
    <3>2. h \in Int /\ DayOf(h) \in Int /\ lowest \in Int /\ settings \in Settings
      BY <3>1, HourInts, DayBounds, TypesFacts, SettingsFields DEF Lasting, Whole
    <3>3. CASE Mark # {}
      <4>1. DayOf(Watermark) <= DayOf(h) /\ DayOf(Watermark) \in Int
        BY <1>0, <3>1, <3>2, <3>3, DayBounds
      <4>2. d <= DayOf(Watermark)
        BY <3>3 DEF Lasting, Top
      <4> QED BY <1>0, <3>2, <4>1, <4>2
    <3>4. CASE Mark = {}
      <4>1. Greatest(HoursOf(d)) \in days[d].hours
        BY DEF Lasting, Lines
      <4>2. ~(days[d].hours \subseteq Mark)
        BY <3>4, <4>1
      <4>3. d < DayOf(lowest)
        BY <3>2, <4>2 DEF Lasting, Kept
      <4> HIDE DEF lowest
      <4>4. DayOf(lowest) <= DayOf(h) /\ DayOf(lowest) \in Int
        BY <3>1, <3>2, <3>4, DayBounds
      <4> QED BY <1>0, <3>2, <4>3, <4>4
    <3> QED BY <3>3, <3>4
  <2> QED BY <2>1, <2>2 DEF Lasting, Top
<1>3. ASSUME NEW h \in Hours, FetchOf(h) PROVE Top'
  <2>1. /\ days' = days /\ Mark \subseteq Mark' /\ Mark' \subseteq Mark \cup {h}
        /\ plan'.forward \subseteq plan.forward
        /\ h \in plan.forward \cup plan.backward \cup Mark
    BY <1>3 DEF FetchOf
  <2>2. ASSUME Mark' # {}, NEW d \in DOMAIN days PROVE d <= DayOf(Watermark')
    <3>1. Watermark' \in Mark' /\ Watermark' \in Int /\ \A k \in Mark' : k <= Watermark'
      BY <2>2, MarkBoundsNext
    <3>2. CASE Mark # {}
      <4>1. d <= DayOf(Watermark) /\ Watermark <= Watermark'
        BY <1>0, <2>1, <3>1, <3>2 DEF Lasting, Top
      <4>2. DayOf(Watermark) <= DayOf(Watermark') /\ DayOf(Watermark) \in Int /\ DayOf(Watermark') \in Int
        BY <1>0, <3>1, <3>2, <4>1, DayBounds
      <4> QED BY <1>0, <4>1, <4>2
    <3>3. CASE Mark = {}
      <4>1. Watermark' = h /\ h \in plan.forward
        BY <2>1, <3>1, <3>3 DEF Lasting, Whole, Planned, Backing
      <4> QED BY <4>1 DEF Lasting, Top
    <3> QED BY <3>2, <3>3
  <2> QED BY <2>1, <2>2 DEF Lasting, Top
<1>4. CASE FoldDay
  <2> DEFINE d == Least(queue)
  <2>1. /\ marks' = marks /\ plan'.forward = {} /\ CoverageComplete(d) /\ d \in Nat
        /\ DOMAIN days' = DOMAIN days \cup {d}
    BY <1>4, FoldChanges DEF Lasting
  <2> HIDE DEF d
  <2>2. PICK k \in Mark : DayOf(k) = d
    BY <2>1 DEF CoverageComplete, MarksOf, Mark
  <2>3. d <= DayOf(Watermark)
    BY <1>0, <2>2, DayBounds
  <2> QED BY <2>1, <2>3, SameMarks DEF Lasting, Top
<1>5. CASE PruneDay
  <2> DEFINE p == Least(queue)
  <2>1. /\ days' = days /\ plan'.forward = {} /\ p \in Int /\ Mark' \subseteq Mark
        /\ \A h \in Mark : h \in Mark' <=> DayOf(h) # p
        /\ \A h \in Mark' : p < DayOf(h)
    BY <1>5, PruneChanges DEF Lasting
  <2> HIDE DEF p
  <2>2. ASSUME Mark' # {} PROVE Watermark' = Watermark
    <3>1. Watermark' \in Mark' /\ Watermark' \in Int /\ \A k \in Mark' : k <= Watermark'
      BY <2>2, MarkBoundsNext
    <3>2. Watermark' <= Watermark /\ Watermark \in Int /\ Watermark \in Mark
      BY <1>0, <2>1, <3>1
    <3>3. DayOf(Watermark') <= DayOf(Watermark) /\ DayOf(Watermark) \in Int /\ DayOf(Watermark') \in Int
      BY <3>1, <3>2, DayBounds
    <3>4. Watermark \in Mark'
      BY <2>1, <3>1, <3>2, <3>3
    <3> QED BY <3>1, <3>2, <3>4
  <2>3. Mark' # {} => Mark # {}
    BY <2>1
  <2> QED BY <2>1, <2>2, <2>3 DEF Lasting, Top
<1> QED BY <1>1, <1>2, <1>3, <1>4, <1>5, Kinds DEF Lasting

LEMMA KeptStep ==
    ASSUME Lasting, Types', KeepsTheWindow, [Next]_vars
    PROVE  Kept'
<1>0. /\ \A d \in DOMAIN days : d \in Int
      /\ now \in Nat /\ \A s \in Settings : s.backfill * HoursPerDay \in Nat
  BY TypesFacts, SettingsFields DEF Lasting, Whole
<1>1. CASE Rest
  <2>1. Mark' = Mark /\ days' = days /\ now' \in Nat /\ now <= now'
    BY <1>0, <1>1, SameMarks DEF Rest
  <2>2. ASSUME NEW d \in DOMAIN days, NEW s \in Settings,
               d < DayOf(now - s.backfill * HoursPerDay)
        PROVE  d < DayOf(now' - s.backfill * HoursPerDay)
    <3> DEFINE a == now - s.backfill * HoursPerDay
               b == now' - s.backfill * HoursPerDay
    <3>1. a \in Int /\ b \in Int /\ a <= b
      BY <1>0, <2>1
    <3>2. d < DayOf(a)
      BY <2>2
    <3> HIDE DEF a, b
    <3>3. DayOf(a) <= DayOf(b) /\ DayOf(a) \in Int /\ DayOf(b) \in Int
      BY <3>1, DayBounds
    <3>4. d < DayOf(b)
      BY <1>0, <3>2, <3>3
    <3> QED BY <3>4 DEF b
  <2> QED BY <2>1, <2>2 DEF Lasting, Kept
<1>2. CASE StartRound
  BY <1>2, StartChanges DEF Lasting, Kept
<1>3. ASSUME NEW h \in Hours, FetchOf(h) PROVE Kept'
  <2>1. /\ days' = days /\ now' = now /\ Mark \subseteq Mark' /\ Mark' \subseteq Mark \cup {h}
        /\ h \in plan.forward \cup plan.backward \cup Mark
    BY <1>3 DEF FetchOf
  <2>2. ASSUME NEW d \in DOMAIN days, ~(days[d].hours \subseteq Mark)
        PROVE  /\ \A k \in Mark' : DayOf(k) # d
               /\ \A s \in Settings : d < DayOf(now - s.backfill * HoursPerDay)
    <3>1. /\ \A k \in Mark : DayOf(k) # d
          /\ \A s \in Settings : d < DayOf(now - s.backfill * HoursPerDay)
      BY <2>2 DEF Lasting, Kept
    <3>2. DayOf(h) # d
      BY <2>1, <2>2, <3>1 DEF Lasting, Fresh
    <3> QED BY <2>1, <3>1, <3>2
  <2> QED BY <2>1, <2>2 DEF Kept
<1>4. CASE FoldDay
  <2> DEFINE d == Least(queue)
  <2>1. /\ Mark' = Mark /\ now' = now /\ DOMAIN days' = DOMAIN days \cup {d}
        /\ days'[d].hours = MarksOf(d)
        /\ \A e \in DOMAIN days : e # d => days'[e] = days[e]
    BY <1>4, FoldChanges DEF Lasting
  <2> HIDE DEF d
  <2>2. MarksOf(d) \subseteq Mark
    BY DEF MarksOf, Mark
  <2> QED BY <2>1, <2>2 DEF Lasting, Kept
<1>5. CASE PruneDay
  <2> DEFINE p == Least(queue)
  <2>1. /\ days' = days /\ now' = now /\ phase = "prune" /\ p \in queue /\ p \in Int
        /\ Mark' \subseteq Mark /\ \A h \in Mark : h \in Mark' <=> DayOf(h) # p
    BY <1>5, PruneChanges DEF Lasting
  <2> HIDE DEF p
  <2>2. ASSUME NEW s \in Settings
        PROVE  p < DayOf(now - s.backfill * HoursPerDay)
    <3> DEFINE a == plan.at - plan.retention * HoursPerDay
               b == now - s.backfill * HoursPerDay
    <3>1. plan.retention # 0 /\ p < DayOf(a)
      BY <2>1 DEF Lasting, Whole, Pruning
    <3>2. PICK t \in Settings : plan.retention = t.retention
      BY <2>1, RoundRetention DEF Lasting, Whole
    <3>3. /\ s.backfill \in Nat /\ t.retention \in Nat /\ s.backfill <= t.retention
          /\ HoursPerDay \in Nat
      BY <3>1, <3>2, SettingsFields, DayBounds DEF KeepsTheWindow
    <3>4. s.backfill * HoursPerDay <= t.retention * HoursPerDay
      BY <3>3, MulMono
    <3>5. /\ plan.at \in Nat /\ plan.at <= now
          /\ s.backfill * HoursPerDay \in Nat /\ t.retention * HoursPerDay \in Nat
      BY <2>1, RoundRetention, SettingsFields DEF Lasting, Whole
    <3>6. a \in Int /\ b \in Int /\ a <= b
      BY <1>0, <3>2, <3>4, <3>5
    <3> HIDE DEF a, b
    <3>7. DayOf(a) <= DayOf(b) /\ DayOf(a) \in Int /\ DayOf(b) \in Int
      BY <3>6, DayBounds
    <3>8. p < DayOf(b)
      BY <2>1, <3>1, <3>7
    <3> QED BY <3>8 DEF b
  <2>3. ASSUME NEW d \in DOMAIN days, d # p, days[d].hours \subseteq Mark
        PROVE  days[d].hours \subseteq Mark'
    <3>1. \A h \in days[d].hours : h \in Mark /\ h \in HoursOf(d)
      BY <2>3 DEF Lasting, Lines
    <3>2. d \in Int /\ \A h \in Mark : h \in Int
      BY TypesFacts, HourInts DEF Lasting, Whole
    <3>3. \A h \in days[d].hours : h \in Mark /\ DayOf(h) # p
      BY <2>3, <3>1, <3>2, DayBounds
    <3> QED BY <2>1, <3>3
  <2>4. \A h \in Mark' : DayOf(h) # p
    BY <2>1
  <2>5. ASSUME NEW d \in DOMAIN days
        PROVE  \/ days[d].hours \subseteq Mark'
               \/ /\ \A h \in Mark' : DayOf(h) # d
                  /\ \A s \in Settings : d < DayOf(now - s.backfill * HoursPerDay)
    <3>1. CASE d = p
      BY <2>2, <2>4, <3>1
    <3>2. CASE d # p
      BY <2>1, <2>3, <3>2 DEF Lasting, Kept
    <3> QED BY <3>1, <3>2
  <2> QED BY <2>1, <2>5 DEF Kept
<1> QED BY <1>1, <1>2, <1>3, <1>4, <1>5, Kinds DEF Lasting

LEMMA RowsStep ==
    ASSUME Lasting, Types', [Next]_vars
    PROVE  Rows'
<1>1. CASE Rest
  BY <1>1, SameMarks DEF Rest, Lasting, Rows, HasRows
<1>2. CASE StartRound
  BY <1>2, StartChanges DEF Lasting, Rows, HasRows
<1>3. ASSUME NEW h \in Hours, FetchOf(h) PROVE Rows'
  <2>1. /\ days' = days /\ published' = published /\ Mark' \subseteq Mark \cup {h}
        /\ h \in plan.forward \cup plan.backward \cup Mark
        /\ \A k \in Mark : k # h => marks'[k] = marks[k]
        /\ h \in Mark' => \/ marks'[h].rows = HasRows(h)
                          \/ h \in Mark /\ marks'[h] = marks[h]
    BY <1>3 DEF FetchOf
  <2>2. \A k : HasRows(k)' <=> HasRows(k)
    BY <2>1 DEF HasRows
  <2>3. \A k \in Mark' : marks'[k].rows => HasRows(k)
    BY <2>1 DEF Lasting, Rows
  <2>4. ASSUME NEW d \in DOMAIN days, NEW k \in days[d].summed, k \in Mark'
        PROVE  marks'[k].rows
    <3>1. k \in Mark => marks[k].rows /\ HasRows(k)
      BY DEF Lasting, Rows
    <3>2. CASE k # h
      BY <2>1, <2>4, <3>1, <3>2
    <3>3. CASE k = h
      <4>1. d \in Int /\ h \in Int /\ h \in HoursOf(d) /\ h \in days[d].hours
        BY <3>3, TypesFacts, HourInts DEF Lasting, Whole, Lines
      <4>2. DayOf(h) = d
        BY <4>1, DayBounds
      <4>3. h \in Mark
        BY <2>1, <4>1, <4>2 DEF Lasting, Fresh
      <4> QED BY <2>1, <2>4, <3>1, <3>3, <4>3
    <3> QED BY <3>2, <3>3
  <2> QED BY <2>1, <2>2, <2>3, <2>4 DEF Rows
<1>4. CASE FoldDay
  <2> DEFINE d == Least(queue)
  <2>1. /\ marks' = marks /\ Mark' = Mark /\ published' = published
        /\ DOMAIN days' = DOMAIN days \cup {d} /\ days'[d].summed = RowsOf(d)
        /\ \A e \in DOMAIN days : e # d => days'[e] = days[e]
    BY <1>4, FoldChanges DEF Lasting
  <2> HIDE DEF d
  <2>2. \A k \in RowsOf(d) : marks[k].rows
    BY DEF RowsOf
  <2> QED BY <2>1, <2>2 DEF Lasting, Rows, HasRows
<1>5. CASE PruneDay
  <2>1. /\ days' = days /\ published' = published /\ Mark' \subseteq Mark
        /\ \A h \in Mark' : marks'[h] = marks[h]
    BY <1>5, PruneChanges DEF Lasting
  <2> QED BY <2>1 DEF Lasting, Rows, HasRows
<1> QED BY <1>1, <1>2, <1>3, <1>4, <1>5, Kinds DEF Lasting

LEMMA LastingStep ==
    ASSUME Lasting, KeepsUp, KeepsTheWindow, [Next]_vars
    PROVE  Lasting'
<1>1. Whole'
  BY WholeStep DEF Lasting
<1>2. Types'
  BY <1>1 DEF Whole
<1> QED BY <1>1, <1>2, LinesStep, TopStep, KeptStep, FreshStep, RowsStep DEF Lasting

LEMMA LastingAlways == KeepsTheWindow => (Spec /\ []KeepsUp => []Lasting)
<1> SUFFICES ASSUME KeepsTheWindow PROVE Spec /\ []KeepsUp => []Lasting
  OBVIOUS
<1>1. Whole /\ Init => Lasting
  <2> SUFFICES ASSUME Whole, Init PROVE Lasting
    OBVIOUS
  <2>1. DOMAIN marks = {} /\ DOMAIN days = {} /\ plan.forward = {} /\ plan.backward = {}
    BY IdlePlan DEF Init
  <2> QED BY <2>1 DEF Lasting, Lines, Top, Kept, Fresh, Rows, Mark
<1>2. Lasting /\ KeepsUp /\ [Next]_vars => Lasting'
  BY LastingStep
<1> QED BY <1>1, <1>2, WholeAlways, PTL DEF Spec

\* No fold drops an hour from a day's line: what was summed is still marked
\* with its rows when the day is folded again (exchange_rollup.rs, rule R4),
\* if the detail is kept as long as any window reaches back.
THEOREM LinesAreNeverCut == KeepsTheWindow => (Spec /\ []KeepsUp => DayLinesNeverShrink)
<1> SUFFICES ASSUME KeepsTheWindow PROVE Spec /\ []KeepsUp => DayLinesNeverShrink
  OBVIOUS
<1>1. Lasting /\ Lasting' /\ [Next]_vars => [LineNeverShrinks]_vars
  <2> SUFFICES ASSUME Lasting, Lasting', [Next]_vars PROVE LineNeverShrinks
    OBVIOUS
  <2>1. Types'
    BY DEF Lasting, Whole
  <2>2. CASE days' = days
    BY <2>2 DEF LineNeverShrinks
  <2>3. CASE FoldDay
    <3> DEFINE d == Least(queue)
    <3>1. /\ CoverageComplete(d) /\ d \in Int /\ DOMAIN days' = DOMAIN days \cup {d}
          /\ days'[d].summed = RowsOf(d)
          /\ \A e \in DOMAIN days : e # d => days'[e] = days[e]
      BY <2>1, <2>3, FoldChanges DEF Lasting
    <3> HIDE DEF d
    <3>2. PICK k \in Mark : DayOf(k) = d
      BY <3>1 DEF CoverageComplete, MarksOf, Mark
    <3>3. ASSUME d \in DOMAIN days, NEW h \in days[d].summed PROVE h \in RowsOf(d)
      <4>1. days[d].hours \subseteq Mark
        BY <3>2, <3>3 DEF Lasting, Kept
      <4>2. h \in Mark /\ h \in HoursOf(d) /\ h \in Int
        BY <3>3, <4>1, TypesFacts, HourInts DEF Lasting, Whole, Lines
      <4>3. DayOf(h) = d /\ marks[h].rows
        BY <3>1, <3>3, <4>2, DayBounds DEF Lasting, Rows
      <4> QED BY <4>2, <4>3 DEF RowsOf, MarksOf, Mark
    <3> QED BY <3>1, <3>3 DEF LineNeverShrinks
  <2>4. days' = days \/ FoldDay
    BY <2>1, Kinds, StartChanges, PruneChanges DEF Rest, FetchOf, Lasting
  <2> QED BY <2>2, <2>3, <2>4
<1> QED BY <1>1, LastingAlways, PTL DEF Spec, DayLinesNeverShrink

\* No round fetches an hour of a day that is folded in full: what is planned
\* lies in no such day when the round starts and when the hour's turn comes
\* (plan_backward's already_folded, and the watermark for plan_fetch).
THEOREM NothingIsFetchedAgain == KeepsTheWindow => (Spec /\ []KeepsUp => FoldedDaysAreNotRefetched)
<1> SUFFICES ASSUME KeepsTheWindow PROVE Spec /\ []KeepsUp => FoldedDaysAreNotRefetched
  OBVIOUS
<1>1. Lasting /\ Lasting' /\ [Next]_vars => [NoRefetch]_vars
  <2> SUFFICES ASSUME Lasting, Lasting', [Next]_vars PROVE NoRefetch
    OBVIOUS
  <2>1. Types'
    BY DEF Lasting, Whole
  <2>2. ASSUME NEW h \in Mark', h \notin Mark
        PROVE  DayOf(h) \notin FoldedDays
    <3>1. PICK k \in Hours : FetchOf(k)
      <4>1. Mark' \subseteq Mark \/ \E k \in Hours : FetchOf(k)
        BY <2>1, Kinds, StartChanges, PruneChanges, FoldChanges DEF Rest, Lasting, Mark
      <4> QED BY <2>2, <4>1
    <3>2. h \in plan.forward \cup plan.backward
      BY <2>2, <3>1 DEF FetchOf
    <3> QED BY <3>2 DEF Lasting, Fresh
  <2> QED BY <2>2 DEF NoRefetch, Mark
<1> QED BY <1>1, LastingAlways, PTL DEF Spec, FoldedDaysAreNotRefetched

-----------------------------------------------------------------------------
(* The refinement of TradeBook.                                            *)

\* Lines are of past days, for the clock and for the round at hand.
Past ==
    \A d \in DOMAIN days : /\ d < DayOf(now)
                           /\ phase # "idle" => d < DayOf(plan.at)

\* What a line misses of the rows of its hours is remembered as repaired until
\* the fold, of which the day is then part; after it lines miss nothing but what
\* a death made the program forget.
Faithful ==
    /\ phase = "idle" \/ plan.forward \cup plan.backward # {} => repaired = {}
    /\ \A d \in DOMAIN days :
          d \in repaired \/ RowsOf(d) \cap days[d].hours \subseteq days[d].summed \cup dropped
    /\ phase = "fold" =>
          \A d \in DOMAIN days : d \in queue \/ RowsOf(d) \subseteq days[d].summed \cup dropped
    /\ phase = "prune" =>
          \A d \in DOMAIN days : RowsOf(d) \subseteq days[d].summed \cup dropped

Refining == Lasting /\ Past /\ Faithful

\* A round that ends without dying has pruned, or was still fetching anew; one
\* that dies leaves behind what it overlooked.
Ended ==
    /\ Over
    /\ \/ phase = "prune"
       \/ plan.forward \cup plan.backward # {}

Died == Over /\ dropped' = dropped \cup Overlooked

LEMMA StepsAndEnds ==
    ASSUME [Next]_vars
    PROVE  \/ /\ \/ Outside \/ StartRound \/ FetchForward \/ FetchBackward \/ FetchRecheck
                 \/ RecheckStops \/ BeginFold \/ BeginPrune \/ PruneDay \/ Ended
              /\ dropped' = dropped
           \/ FoldDay /\ dropped' = dropped \ RowsOf(Least(queue))
           \/ Died
<1>1. CASE Tick
  BY <1>1 DEF Tick, Outside
<1>2. CASE Publish
  BY <1>2 DEF Publish, Outside
<1>3. CASE ChangeSettings
  BY <1>3 DEF ChangeSettings, Outside
<1>4. CASE UNCHANGED vars
  BY <1>4 DEF vars, store, round, Outside
<1>5. CASE RecheckFails
  BY <1>5 DEF RecheckFails, RecheckStops
<1>6. CASE EndRound
  BY <1>6 DEF EndRound, Over, Ended
<1>7. CASE FetchFails
  BY <1>7 DEF FetchFails, Over, Ended
<1>8. CASE Abort
  BY <1>8 DEF Abort, Over, Died
<1>9. CASE StartRound \/ FetchForward \/ FetchBackward \/ FetchRecheck
           \/ BeginFold \/ BeginPrune \/ PruneDay
  BY <1>9 DEF StartRound, FetchForward, FetchBackward, FetchRecheck, BeginFold, BeginPrune, PruneDay
<1>10. CASE FoldDay
  BY <1>10 DEF FoldDay
<1> QED BY <1>1, <1>2, <1>3, <1>4, <1>5, <1>6, <1>7, <1>8, <1>9, <1>10 DEF Next, RoundStep

LEMMA PastStep ==
    ASSUME Lasting, Types', Past, [Next]_vars
    PROVE  Past'
<1>0. /\ now \in Nat /\ plan.at \in Nat /\ DayOf(now) \in Int /\ DayOf(plan.at) \in Int
      /\ \A d \in DOMAIN days : d \in Int
      /\ phase # "idle" => plan.at <= now
  BY TypesFacts, RoundRetention, DayBounds DEF Lasting, Whole
<1>1. CASE Outside
  <2>1. days' = days /\ UNCHANGED <<phase, plan>> /\ now' \in {now, now + 1}
    BY <1>1 DEF Outside, store, round
  <2>2. now' \in Int /\ now <= now'
    BY <1>0, <2>1
  <2>3. DayOf(now) <= DayOf(now') /\ DayOf(now') \in Int
    BY <1>0, <2>2, DayBounds
  <2>4. \A d \in DOMAIN days : d < DayOf(now')
    BY <1>0, <2>3 DEF Past
  <2> QED BY <2>1, <2>4 DEF Past
<1>2. CASE StartRound
  <2>1. plan'.at = now /\ days' = days /\ now' = now
    BY <1>2, Starting, StartChanges DEF Lasting, Whole
  <2> QED BY <2>1 DEF Past
<1>3. CASE FoldDay
  <2> DEFINE d == Least(queue)
  <2>1. d \in queue /\ d \in Int /\ DOMAIN days' = DOMAIN days \cup {d}
    BY <1>3, FoldFacts DEF Lasting, Whole
  <2>2. phase = "fold" /\ UNCHANGED <<now, plan, phase>>
    BY <1>3 DEF FoldDay
  <2> HIDE DEF d
  <2>3. d < DayOf(plan.at)
    BY <2>1, <2>2 DEF Lasting, Whole, Folding
  <2>4. DayOf(plan.at) <= DayOf(now)
    BY <1>0, <2>2, DayBounds
  <2>5. d < DayOf(now)
    BY <1>0, <2>1, <2>3, <2>4
  <2> QED BY <2>1, <2>2, <2>3, <2>5 DEF Past
<1>4. CASE FetchForward
  <2>1. days' = days /\ now' = now /\ plan'.at = plan.at /\ phase' = "fetch" /\ phase = "fetch"
    BY <1>4, ForwardStep DEF Fetches, Lasting, Whole
  <2> QED BY <2>1 DEF Past
<1>5. CASE FetchBackward
  <2>1. days' = days /\ now' = now /\ plan'.at = plan.at /\ phase' = "fetch" /\ phase = "fetch"
    BY <1>5, BackwardStep DEF Fetches, Lasting, Whole
  <2> QED BY <2>1 DEF Past
<1>6. CASE FetchRecheck
  <2>1. days' = days /\ now' = now /\ plan'.at = plan.at /\ phase' = "fetch" /\ phase = "fetch"
    BY <1>6, RecheckStep DEF Fetches, Lasting, Whole
  <2> QED BY <2>1 DEF Past
<1>7. CASE RecheckStops
  <2>1. plan'.at = plan.at
    BY <1>7, RecheckShrinks DEF RecheckStops, HourSet, Lasting, Whole
  <2> QED BY <1>7, <2>1 DEF RecheckStops, store, Past
<1>8. CASE BeginFold \/ BeginPrune \/ PruneDay
  BY <1>8 DEF BeginFold, BeginPrune, PruneDay, store, Past
<1>9. CASE Over
  BY <1>9 DEF Over, RoundOver, store, Past
<1> QED BY <1>1, <1>2, <1>3, <1>4, <1>5, <1>6, <1>7, <1>8, <1>9, Steps

LEMMA PlannedIsUnmarked ==
    ASSUME Whole
    PROVE  \A h \in plan.forward \cup plan.backward : h \notin Mark
<1>1. Mark # {} => /\ EarliestMark \in Int /\ Watermark \in Int
                   /\ \A k \in Mark : EarliestMark <= k /\ k <= Watermark
  BY MarkBounds DEF Whole
<1>2. \A k \in Mark : k \in Int
  BY TypesFacts, HourInts DEF Whole
<1>3. ASSUME NEW h \in plan.forward PROVE h \notin Mark
  <2>1. PICK a, b \in Hours : /\ plan.forward = a..b
                              /\ Mark # {} => a = Watermark + 1
    BY <1>3 DEF Whole, Planned, Forwarding
  <2> QED BY <1>1, <1>2, <1>3, <2>1
<1>4. ASSUME NEW h \in plan.backward PROVE h \notin Mark
  <2>1. h < EarliestMark /\ h \in Int
    BY <1>4, TypesFacts, HourInts DEF Whole, Planned, Backing
  <2> QED BY <1>1, <1>2, <2>1
<1> QED BY <1>3, <1>4

\* The rows of a day after an hour is fetched.
LEMMA RowsOfFetched ==
    ASSUME Lasting, NEW h \in Hours, FetchOf(h), NEW d
    PROVE  /\ RowsOf(d)' \subseteq RowsOf(d) \cup {h}
           /\ h \in RowsOf(d)' => h \in RowsOf(d) \/ (HasRows(h) /\ DayOf(h) = d)
<1>1. \A k : k \in RowsOf(d) <=> k \in Mark /\ DayOf(k) = d /\ marks[k].rows
  BY DEF RowsOf, MarksOf, Mark
<1>2. \A k : k \in RowsOf(d)' <=> k \in Mark' /\ DayOf(k) = d /\ marks'[k].rows
  BY DEF RowsOf, MarksOf, Mark
<1> QED BY <1>1, <1>2 DEF FetchOf

\* A day with a line, marked hours and nothing to fold misses no row in its line.
LEMMA LineIsWhole ==
    ASSUME Refining, phase = "fetch", NEW d \in DOMAIN days, d \notin Waiting
    PROVE  RowsOf(d) \subseteq days[d].summed \cup dropped
<1>1. CASE MarksOf(d) = {}
  BY <1>1 DEF RowsOf
<1>2. CASE MarksOf(d) # {}
  <2>1. PICK k \in Mark : DayOf(k) = d
    BY <1>2 DEF MarksOf, Mark
  <2>2. d \in MarkedDays /\ days[d].hours \subseteq Mark /\ d < DayOf(plan.at)
    BY <2>1 DEF MarkedDays, Mark, Refining, Lasting, Kept, Past
  <2>3. /\ d \in Int /\ \A x \in Mark : x \in Int
        /\ days[d].hours \subseteq HoursOf(d) /\ Greatest(HoursOf(d)) \in days[d].hours
    BY TypesFacts, HourInts DEF Refining, Lasting, Whole, Lines
  <2>4. \A x \in Mark : x \in MarksOf(d) <=> x \in HoursOf(d)
    BY <2>3, DayBounds DEF MarksOf, Mark
  <2>5. days[d].hours \subseteq MarksOf(d) /\ MarksOf(d) \subseteq HoursOf(d)
    BY <2>2, <2>3, <2>4 DEF MarksOf, Mark
  <2>6. IsFiniteSet(HoursOf(d)) /\ Cardinality(HoursOf(d)) = HoursPerDay /\ HoursPerDay \in Nat
    BY <2>3, DayHours, DayBounds
  <2>7. IsFiniteSet(MarksOf(d)) /\ IsFiniteSet(days[d].hours)
    BY <2>5, <2>6, FS_Subset
  <2>8. CoverageComplete(d)
    <3>1. CASE d \in FoldedDays
      <4>1. Cardinality(days[d].hours) >= HoursPerDay
        BY <3>1 DEF FoldedDays
      <4>2. Cardinality(days[d].hours) <= HoursPerDay /\ Cardinality(days[d].hours) \in Nat
        BY <2>3, <2>6, <2>7, FS_Subset, FS_CardinalityType
      <4>3. Cardinality(days[d].hours) = Cardinality(HoursOf(d))
        BY <2>6, <4>1, <4>2
      <4>4. days[d].hours = HoursOf(d)
        BY <2>3, <2>6, <4>3, FS_Subset
      <4>5. MarksOf(d) = HoursOf(d)
        BY <2>5, <4>4
      <4>6. /\ HoursOf(d) = Least(HoursOf(d))..Greatest(HoursOf(d))
            /\ Least(HoursOf(d)) \in HoursOf(d)
        BY <2>3, DayHours DEF HoursOf
      <4> QED BY <4>5, <4>6 DEF CoverageComplete
    <3>2. CASE d \notin FoldedDays
      <4>1. Greatest(HoursOf(d)) <= Watermark
        BY <2>2, <2>3, MarkBounds DEF Refining, Lasting, Whole
      <4> QED BY <2>2, <3>2, <4>1, MarkedBelow DEF Refining, Lasting, Whole
    <3> QED BY <3>1, <3>2
  <2>9. d \notin repaired /\ Cardinality(days[d].hours) = Cardinality(MarksOf(d))
    BY <2>2, <2>8 DEF Waiting, NeedsFold
  <2>10. days[d].hours = MarksOf(d)
    BY <2>5, <2>7, <2>9, FS_Subset
  <2>11. RowsOf(d) \subseteq MarksOf(d)
    BY DEF RowsOf
  <2> QED BY <2>9, <2>10, <2>11 DEF Refining, Faithful
<1> QED BY <1>1, <1>2

LEMMA FaithfulFetch ==
    ASSUME Refining, Types', FetchForward \/ FetchBackward, dropped' = dropped
    PROVE  Faithful'
<1>0. Whole /\ Types
  BY DEF Refining, Lasting, Whole
<1>1. \E h \in Hours : /\ h \in plan.forward \cup plan.backward /\ FetchOf(h)
                       /\ repaired' = repaired
  <2>1. CASE FetchForward
    <3> DEFINE h == Least(plan.forward)
    <3>1. /\ h \in plan.forward /\ repaired' = repaired
          /\ \/ Fetches(h, plan.forward \ {h}, plan.backward, plan.recheck)
             \/ Fetches(h, {}, plan.backward, plan.recheck)
      BY <1>0, <2>1, ForwardStep
    <3> HIDE DEF h
    <3>2. h \in Hours
      BY <1>0, <3>1, TypesFacts
    <3> QED BY <1>0, <3>1, <3>2, Fetching
  <2>2. CASE FetchBackward
    <3> DEFINE h == Greatest(plan.backward)
    <3>1. /\ h \in plan.backward /\ repaired' = repaired
          /\ \/ Fetches(h, {}, plan.backward \ {h}, plan.recheck)
             \/ Fetches(h, {}, {}, plan.recheck)
      BY <1>0, <2>2, BackwardStep
    <3> HIDE DEF h
    <3>2. h \in Hours
      BY <1>0, <3>1, TypesFacts
    <3> QED BY <1>0, <3>1, <3>2, Fetching
  <2> QED BY <2>1, <2>2
<1>2. PICK h \in Hours : /\ h \in plan.forward \cup plan.backward /\ FetchOf(h)
                         /\ repaired' = repaired
  BY <1>1
<1>3. repaired = {} /\ days' = days /\ phase' = "fetch"
  BY <1>2 DEF Refining, Faithful, FetchOf
<1>4. h \notin Mark
  BY <1>0, <1>2, PlannedIsUnmarked
<1>5. ASSUME NEW d \in DOMAIN days
      PROVE  RowsOf(d)' \cap days[d].hours \subseteq days[d].summed \cup dropped
  <2>1. RowsOf(d) \cap days[d].hours \subseteq days[d].summed \cup dropped
    BY <1>3 DEF Refining, Faithful
  <2>2. h \notin days[d].hours
    <3>1. SUFFICES ASSUME h \in days[d].hours PROVE FALSE
      OBVIOUS
    <3>2. h \in HoursOf(d) /\ d \in Int /\ h \in Int
      BY <1>0, <3>1, TypesFacts, HourInts DEF Refining, Lasting, Lines
    <3>3. DayOf(h) = d
      BY <3>2, DayBounds
    <3> QED BY <1>2, <1>4, <3>1, <3>3 DEF Refining, Lasting, Fresh
  <2>3. RowsOf(d)' \subseteq RowsOf(d) \cup {h}
    BY <1>2, RowsOfFetched DEF Refining
  <2> QED BY <2>1, <2>2, <2>3
<1> QED BY <1>2, <1>3, <1>5 DEF Faithful

LEMMA FaithfulRecheck ==
    ASSUME Refining, Types', FetchRecheck, dropped' = dropped
    PROVE  Faithful'
<1>0. Whole /\ Types
  BY DEF Refining, Lasting, Whole
<1> DEFINE h == Greatest(plan.recheck)
<1>1. /\ h \in plan.recheck /\ Fetches(h, {}, {}, plan.recheck \ {h})
      /\ repaired' = IF HasRows(h) THEN repaired \cup {DayOf(h)} ELSE repaired
  BY <1>0, RecheckStep
<1> HIDE DEF h
<1>2. h \in Hours /\ h \in Mark
  BY <1>0, <1>1, TypesFacts DEF Whole, Planned
<1>3. FetchOf(h)
  BY <1>0, <1>1, <1>2, Fetching
<1>4. days' = days /\ phase' = "fetch" /\ plan'.forward = {} /\ plan'.backward = {}
  BY <1>1 DEF Fetches
<1>5. ASSUME NEW d \in DOMAIN days, d \notin repaired'
      PROVE  RowsOf(d)' \cap days[d].hours \subseteq days[d].summed \cup dropped
  <2>1. d \notin repaired
    BY <1>1, <1>5
  <2>2. RowsOf(d) \cap days[d].hours \subseteq days[d].summed \cup dropped
    BY <2>1 DEF Refining, Faithful
  <2>3. RowsOf(d)' \subseteq RowsOf(d)
    <3>1. /\ RowsOf(d)' \subseteq RowsOf(d) \cup {h}
          /\ h \in RowsOf(d)' => h \in RowsOf(d) \/ (HasRows(h) /\ DayOf(h) = d)
      BY <1>2, <1>3, RowsOfFetched DEF Refining
    <3>2. ~(HasRows(h) /\ DayOf(h) = d)
      BY <1>1, <1>5
    <3> QED BY <3>1, <3>2
  <2> QED BY <2>2, <2>3
<1> QED BY <1>4, <1>5 DEF Faithful

LEMMA FaithfulStep ==
    ASSUME Refining, Types', KeepsUp, [Next]_vars
    PROVE  Faithful'
<1>0. Whole /\ Types
  BY DEF Refining, Lasting, Whole
<1>1. marks' = marks => \A d : RowsOf(d)' = RowsOf(d)
  BY DEF RowsOf, MarksOf
<1>2. CASE Outside /\ dropped' = dropped
  BY <1>1, <1>2 DEF Outside, store, round, Refining, Faithful
<1>3. CASE StartRound /\ dropped' = dropped
  <2>1. phase' = "fetch" /\ repaired' = repaired /\ phase = "idle"
    BY <1>3 DEF StartRound
  <2> QED BY <1>1, <1>3, <2>1, StartChanges DEF Refining, Faithful
<1>4. CASE RecheckStops /\ dropped' = dropped
  <2>1. plan'.forward = plan.forward /\ plan'.backward = plan.backward
    BY <1>0, <1>4, RecheckShrinks DEF RecheckStops, HourSet
  <2> QED BY <1>1, <1>4, <2>1 DEF RecheckStops, store, Refining, Faithful
<1>5. CASE BeginFold /\ dropped' = dropped
  <2>1. /\ phase = "fetch" /\ phase' = "fold" /\ marks' = marks /\ days' = days
        /\ plan' = plan /\ repaired' = repaired /\ Fetched
        /\ queue' = Oldest(Waiting, DayBudget)
    BY <1>5 DEF BeginFold, Fetched, Waiting, store
  <2>2. queue' = Waiting
    BY <1>0, <2>1, AllWaitingAreFolded
  <2>3. \A d \in DOMAIN days : d \in queue' \/ RowsOf(d) \subseteq days[d].summed \cup dropped
    BY <2>1, <2>2, LineIsWhole
  <2> QED BY <1>1, <1>5, <2>1, <2>3 DEF Refining, Faithful
<1>6. CASE FoldDay /\ dropped' = dropped \ RowsOf(Least(queue))
  <2> DEFINE d == Least(queue)
  <2>1. /\ marks' = marks /\ plan'.forward = {} /\ plan'.backward = {}
        /\ DOMAIN days' = DOMAIN days \cup {d}
        /\ days'[d].summed = RowsOf(d)
        /\ \A e \in DOMAIN days : e # d => days'[e] = days[e]
    BY <1>0, <1>6, FoldChanges
  <2>2. /\ phase = "fold" /\ phase' = "fold" /\ queue' = queue \ {d} /\ repaired' = repaired
        /\ dropped' = dropped \ RowsOf(d)
    BY <1>6 DEF FoldDay
  <2> HIDE DEF d
  <2>3. \A e, h : e # d /\ h \in RowsOf(e) => h \notin RowsOf(d)
    BY DEF RowsOf, MarksOf
  <2>4. ASSUME NEW e \in DOMAIN days', NEW h \in RowsOf(e)
        PROVE  /\ h \in days'[e].hours => e \in repaired \/ h \in days'[e].summed \cup dropped'
               /\ e \in queue' \/ h \in days'[e].summed \cup dropped'
    <3>1. CASE e = d
      BY <2>1, <2>4, <3>1
    <3>2. CASE e # d
      <4>1. e \in DOMAIN days /\ days'[e] = days[e] /\ (e \in queue' <=> e \in queue)
        BY <2>1, <2>2, <2>4, <3>2
      <4>2. h \in dropped => h \in dropped'
        BY <2>2, <2>3, <2>4, <3>2
      <4> QED BY <2>2, <2>4, <4>1, <4>2 DEF Refining, Faithful
    <3> QED BY <3>1, <3>2
  <2>5. \A e \in DOMAIN days' :
           e \in repaired' \/ RowsOf(e)' \cap days'[e].hours \subseteq days'[e].summed \cup dropped'
    BY <1>1, <2>1, <2>2, <2>4
  <2>6. \A e \in DOMAIN days' : e \in queue' \/ RowsOf(e)' \subseteq days'[e].summed \cup dropped'
    BY <1>1, <2>1, <2>4
  <2> QED BY <2>1, <2>2, <2>5, <2>6 DEF Faithful
<1>7. CASE BeginPrune /\ dropped' = dropped
  <2>1. /\ phase = "fold" /\ phase' = "prune" /\ queue = {} /\ marks' = marks /\ days' = days
        /\ repaired' = repaired /\ plan' = plan
    BY <1>7 DEF BeginPrune, store
  <2> QED BY <1>1, <1>7, <2>1 DEF Refining, Faithful
<1>8. CASE PruneDay /\ dropped' = dropped
  <2>1. /\ days' = days /\ plan'.forward = {} /\ plan'.backward = {} /\ phase = "prune"
        /\ Mark' \subseteq Mark /\ \A h \in Mark' : marks'[h] = marks[h]
    BY <1>0, <1>8, PruneChanges
  <2>2. phase' = "prune" /\ repaired' = repaired
    BY <1>8 DEF PruneDay
  <2>3. \A d : RowsOf(d)' \subseteq RowsOf(d)
    BY <2>1 DEF RowsOf, MarksOf, Mark
  <2> QED BY <1>8, <2>1, <2>2, <2>3 DEF Refining, Faithful
<1>9. CASE Ended /\ dropped' = dropped
  <2>1. marks' = marks /\ days' = days /\ phase' = "idle" /\ repaired' = {}
    BY <1>9 DEF Ended, Over, RoundOver, store
  <2>2. \A d \in DOMAIN days : RowsOf(d) \cap days[d].hours \subseteq days[d].summed \cup dropped
    <3>1. CASE phase = "prune"
      BY <3>1 DEF Refining, Faithful
    <3>2. CASE plan.forward \cup plan.backward # {}
      BY <3>2 DEF Refining, Faithful
    <3> QED BY <1>9, <3>1, <3>2 DEF Ended
  <2> QED BY <1>1, <1>9, <2>1, <2>2 DEF Faithful
<1>10. CASE Died
  <2>1. /\ marks' = marks /\ days' = days /\ phase' = "idle" /\ repaired' = {}
        /\ dropped' = dropped \cup Overlooked
    BY <1>10 DEF Died, Over, RoundOver, store
  <2>2. ASSUME NEW d \in DOMAIN days, NEW h \in RowsOf(d), h \in days[d].hours
        PROVE  h \in days[d].summed \cup dropped'
    <3>1. CASE d \in repaired
      BY <2>1, <2>2, <3>1 DEF Overlooked, RowsOf, MarksOf
    <3>2. CASE d \notin repaired
      BY <2>1, <2>2, <3>2 DEF Refining, Faithful
    <3> QED BY <3>1, <3>2
  <2>3. \A d \in DOMAIN days : RowsOf(d)' \cap days[d].hours \subseteq days[d].summed \cup dropped'
    BY <1>1, <2>1, <2>2
  <2> QED BY <2>1, <2>3 DEF Faithful
<1> QED BY <1>0, <1>2, <1>3, <1>4, <1>5, <1>6, <1>7, <1>8, <1>9, <1>10, FaithfulFetch, FaithfulRecheck,
          StepsAndEnds

LEMMA RefiningAlways ==
    KeepsTheWindow => (Spec /\ []KeepsUp => []Refining)
<1> SUFFICES ASSUME KeepsTheWindow PROVE Spec /\ []KeepsUp => []Refining
  OBVIOUS
<1>1. Lasting /\ Init => Refining
  <2> SUFFICES ASSUME Lasting, Init PROVE Refining
    OBVIOUS
  <2>1. DOMAIN days = {} /\ repaired = {} /\ phase = "idle"
    BY DEF Init
  <2> QED BY <2>1 DEF Refining, Past, Faithful
<1>2. Refining /\ KeepsUp /\ [Next]_vars => Refining'
  <2> SUFFICES ASSUME Refining, KeepsUp, [Next]_vars PROVE Refining'
    OBVIOUS
  <2>1. Lasting'
    BY LastingStep DEF Refining
  <2>2. Types'
    BY <2>1 DEF Lasting, Whole
  <2> QED BY <2>1, <2>2, PastStep, FaithfulStep DEF Refining
<1> QED BY <1>1, <1>2, LastingAlways, PTL DEF Spec

\* The hours with their rows; what is known is these and the summed ones, and
\* the book holds what is excused besides.
Rowed == {h \in Mark : marks[h].rows}
Booked == Known \cup dropped

LEMMA BookIs ==
    /\ \A x : x \in Booked <=> \/ x \in Rowed \/ x \in dropped
                                \/ \E d \in DOMAIN days : x \in days[d].summed
    /\ \A x : x \in Booked' <=> \/ x \in Rowed' \/ x \in dropped'
                                 \/ \E d \in DOMAIN days' : x \in days'[d].summed
BY DEF Booked, Known, Rowed, Mark

LEMMA BookStep ==
    ASSUME Refining, Types', [Next]_vars
    PROVE  [Book!Learn]_Booked
<1>0. Whole /\ Types
  BY DEF Refining, Lasting, Whole
<1>1. CASE marks' = marks /\ days' = days /\ dropped' = dropped
  BY <1>1 DEF Booked, Known
<1>2. ASSUME NEW h \in Hours, FetchOf(h), dropped' = dropped
      PROVE  [Book!Learn]_Booked
  <2>1. days' = days
    BY <1>2 DEF FetchOf
  <2>2. \A x : x # h => (x \in Rowed' <=> x \in Rowed)
    BY <1>2 DEF FetchOf, Rowed
  <2>3. h \in Rowed => h \in Rowed'
    BY <1>2 DEF FetchOf, Rowed, Refining, Lasting, Rows
  <2>4. h \in Rowed' => h \in Rowed \/ HasRows(h)
    BY <1>2 DEF FetchOf, Rowed
  <2>5. \A x : x # h => (x \in Booked' <=> x \in Booked)
    BY <1>2, <2>1, <2>2, BookIs
  <2>6. h \in Booked => h \in Booked'
    BY <1>2, <2>1, <2>3, BookIs
  <2>7. CASE h \in Booked \/ h \notin Booked'
    <3>1. Booked' = Booked
      BY <2>5, <2>6, <2>7
    <3> QED BY <3>1
  <2>8. CASE h \notin Booked /\ h \in Booked'
    <3>1. Booked' = Booked \cup {h}
      BY <2>5, <2>8
    <3>2. HasRows(h)
      BY <1>2, <2>1, <2>4, <2>8, BookIs
    <3>3. h \in {k \in Hours : k >= LeagueStart} \ Booked
      BY <2>8, <3>2 DEF HasRows
    <3> QED BY <3>1, <3>3 DEF Book!Learn, Booked
  <2> QED BY <2>7, <2>8
<1>3. CASE FoldDay /\ dropped' = dropped \ RowsOf(Least(queue))
  <2> DEFINE d == Least(queue)
  <2>1. /\ marks' = marks /\ CoverageComplete(d) /\ d \in Int
        /\ DOMAIN days' = DOMAIN days \cup {d}
        /\ days'[d].summed = RowsOf(d)
        /\ \A e \in DOMAIN days : e # d => days'[e] = days[e]
    BY <1>0, <1>3, FoldChanges
  <2>6. dropped' = dropped \ RowsOf(d)
    BY <1>3
  <2> HIDE DEF d
  <2>2. RowsOf(d) \subseteq Rowed /\ Rowed' = Rowed
    BY <2>1 DEF RowsOf, MarksOf, Rowed, Mark
  <2>3. ASSUME d \in DOMAIN days, NEW h \in days[d].summed PROVE h \in Rowed
    <3>1. PICK k \in Mark : DayOf(k) = d
      BY <2>1 DEF CoverageComplete, MarksOf, Mark
    <3>2. days[d].hours \subseteq Mark
      BY <2>3, <3>1 DEF Refining, Lasting, Kept
    <3> QED BY <2>3, <3>2 DEF Refining, Lasting, Lines, Rows, Rowed
  <2>4. \A x : x \in Booked' <=> x \in Booked
    BY <2>1, <2>2, <2>3, <2>6, BookIs
  <2>5. Booked' = Booked
    BY <2>4
  <2> QED BY <2>5
<1>4. CASE PruneDay /\ dropped' = dropped
  <2> DEFINE d == Least(queue)
  <2>1. /\ days' = days /\ phase = "prune" /\ d \in queue /\ Mark' \subseteq Mark
        /\ \A h \in Mark : h \in Mark' <=> DayOf(h) # d
        /\ \A h \in Mark' : marks'[h] = marks[h]
    BY <1>0, <1>4, PruneChanges
  <2> HIDE DEF d
  <2>2. d \in DOMAIN days /\ RowsOf(d) \subseteq days[d].summed \cup dropped
    BY <2>1 DEF Refining, Faithful, Lasting, Whole, Pruning
  <2>3. \A x : x \in Rowed' => x \in Rowed
    BY <2>1 DEF Rowed
  <2>4. \A x : x \in Rowed /\ x \notin Rowed' => x \in RowsOf(d)
    BY <2>1 DEF Rowed, RowsOf, MarksOf, Mark
  <2>5. \A x : x \in Booked' <=> x \in Booked
    BY <1>4, <2>1, <2>2, <2>3, <2>4, BookIs
  <2>6. Booked' = Booked
    BY <2>5
  <2> QED BY <2>6
<1>5. CASE Died
  <2>1. marks' = marks /\ days' = days /\ dropped' = dropped \cup Overlooked
    BY <1>5 DEF Died, Over, store
  <2>2. Overlooked \subseteq Rowed /\ Rowed' = Rowed
    BY <2>1 DEF Overlooked, Rowed, Mark
  <2>3. \A x : x \in Booked' <=> x \in Booked
    BY <2>1, <2>2, BookIs
  <2>4. Booked' = Booked
    BY <2>3
  <2> QED BY <2>4
<1>6. Rest \/ StartRound => marks' = marks /\ days' = days
  BY StartChanges DEF Rest
<1>7. Died \/ dropped' = dropped \/ (FoldDay /\ dropped' = dropped \ RowsOf(Least(queue)))
  BY StepsAndEnds
<1>8. FoldDay => dropped' = dropped \ RowsOf(Least(queue))
  BY DEF FoldDay
<1> QED BY <1>0, <1>1, <1>2, <1>3, <1>4, <1>5, <1>6, <1>7, <1>8, Kinds

\* The hours, day lines and prunes implement a book that learns the traded
\* hours one by one and never forgets one, whatever fails and wherever the
\* process dies; excused are only the late rows whose repair died with a round
\* (repaired_days is in memory only).
THEOREM TheBookOnlyGrows == KeepsTheWindow => (Spec /\ []KeepsUp => BookSpec)
<1> SUFFICES ASSUME KeepsTheWindow PROVE Spec /\ []KeepsUp => BookSpec
  OBVIOUS
<1>1. Init => Book!Init
  BY DEF Init, Known, Book!Init
<1>2. Refining /\ Refining' /\ [Next]_vars => [Book!Learn]_Booked
  BY BookStep DEF Refining, Lasting, Whole
<1>3. Booked = Known \cup dropped
  BY DEF Booked
<1> QED BY <1>1, <1>2, <1>3, RefiningAlways, PTL DEF Spec, BookSpec, Book!Spec, Booked
=============================================================================
