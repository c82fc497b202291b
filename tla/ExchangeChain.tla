--------------------------- MODULE ExchangeChain ---------------------------
(***************************************************************************)
(* When the exchange history is synced: the chain of rounds and timers of  *)
(* ptt-app/src/shell/exchange_sync.rs, and the user's actions that start   *)
(* or restart it.                                                          *)
(*                                                                         *)
(* Everything here runs on the UI thread, one update at a time, except the *)
(* round itself: begin_exchange_sync spawns a task that reads the settings *)
(* once, awaits the round on the background executor, settles its outcome  *)
(* in one update, sleeps, and in another update begins the next round if   *)
(* its generation is still the current one.  Between those updates the     *)
(* user may do anything.  What a round does to the tables is in            *)
(* ExchangeLedger; here it only has an outcome.                            *)
(***************************************************************************)
EXTENDS Naturals, FiniteSets

CONSTANTS
    Games,             \* the games a profile can select
    LeaguesOf,         \* game |-> the leagues found in its CDN files
    NoLeague,          \* the blank league name, which turns the sync off
    Windows,           \* stands for backfill_days and hour_retention_days
    Width,             \* the generation counter wraps at Width (2^64 in the code)
    FailureLimit,      \* failures in a row before the retry waits for the slot, 3
    NoError,           \* exchange_sync_error = None
    MaxSaveFailures    \* bound on failed writes of settings.json

AllLeagues == UNION {LeaguesOf[g] : g \in Games}

\* ExchangeTuning, as much of it as a round reads.
Tunings == [league : AllLeagues \cup {NoLeague}, window : Windows]

\* What a round reads at its start, and what an error message is about.
Readings == [game : Games, tuning : Tunings]

Generations == 0 .. Width - 1

ASSUME ChainAssumption ==
    /\ Width \in Nat /\ Width >= 2
    /\ FailureLimit \in Nat \ {0}
    /\ MaxSaveFailures \in Nat
    /\ NoLeague \notin AllLeagues
    /\ NoError \notin Readings

VARIABLES
    game,            \* settings.active_profile.game
    tuning,          \* game |-> its exchange tuning, in memory
    seen,            \* game |-> leagues_seen
    kicked,          \* exchange_sync_kicked
    running,         \* exchange_sync_running
    restartPending,  \* exchange_sync_restart_pending
    generation,      \* exchange_sync_generation
    failures,        \* exchange_sync_failures, up to FailureLimit
    error,           \* exchange_sync_error: what the message on the page is about
    task,            \* generation |-> its spawned task: the await it is at, what its
                     \* round read when it began, how long it sleeps
    saveFailures     \* failed writes of settings.json so far

chainVars == <<game, tuning, seen, kicked, running, restartPending, generation,
          failures, error, task, saveFailures>>
flags == <<kicked, running, restartPending, generation>>
chain == <<generation, running, task>>

\* "zero" after a restart request or on a stale chain, "second" with history
\* still owed, "half_minute" after a failure, "slot" until five past the hour.
Waits == {"zero", "second", "half_minute", "slot"}

Task == [at : {"fetching", "sleeping"}, reading : Readings, wait : Waits]

\* No task of that generation, or it has ended.
NoTask == [at |-> "none"]

\* The settings a round that began now would read.
Current == [game |-> game, tuning |-> tuning[game]]

NextGeneration == IF generation = Width - 1 THEN 0 ELSE generation + 1

ChainInit ==
    /\ game \in Games
    /\ tuning \in [Games -> Tunings]
    /\ seen = [g \in Games |-> {}]
    /\ kicked = FALSE /\ running = FALSE /\ restartPending = FALSE
    /\ generation = 0
    /\ failures = 0
    /\ error = NoError
    /\ task = [c \in Generations |-> NoTask]
    /\ saveFailures = 0

-----------------------------------------------------------------------------
(* begin_exchange_sync up to the first await, given the settings and the   *)
(* tasks as this update leaves them.                                       *)

\* The counter may only return to a value no sleeping chain still holds; with
\* 64 bits it never returns at all.
RoomForOneMore(tasks) == tasks[NextGeneration] = NoTask

Begin_NoGuard(read, tasks) ==
    /\ RoomForOneMore(tasks)
    /\ running' = TRUE
    /\ generation' = NextGeneration
    /\ task' = [tasks EXCEPT ![NextGeneration] =
                   [at |-> "fetching", reading |-> read, wait |-> "zero"]]

Begin(read, tasks) ==
    IF running
    THEN /\ task' = tasks
         /\ UNCHANGED <<generation, running>>
    ELSE /\ RoomForOneMore(tasks)
         /\ running' = TRUE
         /\ generation' = NextGeneration
         /\ task' = [tasks EXCEPT ![NextGeneration] =
                        [at |-> "fetching", reading |-> read, wait |-> "zero"]]

\* restart_exchange_sync: a round in flight is asked to run again.
Restart_Forgotten(read) ==
    IF running
    THEN UNCHANGED <<restartPending, chain>>
    ELSE Begin(read, task) /\ UNCHANGED restartPending

Restart(read) ==
    IF running
    THEN /\ restartPending' = TRUE
         /\ UNCHANGED chain
    ELSE /\ Begin(read, task)
         /\ UNCHANGED restartPending

-----------------------------------------------------------------------------
(* The UI thread's handlers.                                               *)

\* The first tick.
Kick ==
    /\ ~kicked
    /\ kicked' = TRUE
    /\ Begin(Current, task)
    /\ UNCHANGED <<game, tuning, seen, restartPending, failures, error, saveFailures>>

\* The league is picked from the list, or the three exchange fields are
\* saved.  The tuning in memory changes before the write that may fail.
SaveTuning(t) ==
    /\ tuning[game] # t
    /\ tuning' = [tuning EXCEPT ![game] = t]
    /\ error' = NoError
    /\ Restart([Current EXCEPT !.tuning = t])
    /\ UNCHANGED <<game, seen, kicked, failures, saveFailures>>

SaveTuningFails(t) ==
    /\ saveFailures < MaxSaveFailures
    /\ tuning[game] # t
    /\ tuning' = [tuning EXCEPT ![game] = t]
    /\ saveFailures' = saveFailures + 1
    /\ UNCHANGED <<game, seen, flags, failures, error, task>>

\* The sync button, and a corrected start of the season.
SyncNow ==
    /\ Restart(Current)
    /\ UNCHANGED <<game, tuning, seen, kicked, failures, error, saveFailures>>

\* set_profile: the sync is not told.
SetProfile(g) ==
    /\ g # game
    /\ game' = g
    /\ UNCHANGED <<tuning, seen, flags, failures, error, task, saveFailures>>

-----------------------------------------------------------------------------
(* The spawned task.                                                       *)

Outcomes == [kind : {"ok"}, caughtUp : BOOLEAN, suspect : BOOLEAN, leagues : SUBSET AllLeagues]
            \cup [kind : {"failed", "skipped"}]

\* run_sync_round is not called at all when the league is blank.
Possible(read, o) ==
    IF read.tuning.league = NoLeague THEN o.kind = "skipped"
    ELSE \/ o.kind = "failed"
         \/ o.kind = "ok" /\ o.leagues \subseteq LeaguesOf[read.game]

\* settle_round and retry_delay.
NextWait(o, failuresAfter) ==
    CASE restartPending    -> "zero"
      [] ~restartPending /\ o.kind = "failed" ->
            IF failuresAfter >= FailureLimit THEN "slot" ELSE "half_minute"
      [] ~restartPending /\ o.kind = "skipped" -> "slot"
      [] ~restartPending /\ o.kind = "ok" -> IF o.caughtUp THEN "slot" ELSE "second"

FailuresAfter(o) ==
    IF o.kind = "failed"
    THEN IF failures = FailureLimit THEN failures ELSE failures + 1
    ELSE 0

\* exchange_sync_error after an outcome: only a verdict that is still wanted
\* replaces the message, and a good round clears it.
ErrorAfter_IgnoresRestart(c, o) ==
    IF o.kind = "skipped" THEN error
    ELSE IF o.kind = "failed" \/ o.suspect THEN task[c].reading
    ELSE NoError

ErrorAfter(c, o) ==
    IF restartPending \/ o.kind = "skipped" THEN error
    ELSE IF o.kind = "failed" \/ o.suspect THEN task[c].reading
    ELSE NoError

\* merge_leagues_seen, into the list of the game the round was for.
SeenAfter(c, o) ==
    IF o.kind = "ok"
    THEN [seen EXCEPT ![task[c].reading.game] = @ \cup o.leagues]
    ELSE seen

\* std::mem::take of the restart flag.
TakeRestart == restartPending' = FALSE

\* The update after the round: the fetch is over whatever the generation
\* says; only the current chain's outcome counts.
RoundEnds(c, o) ==
    /\ task[c].at = "fetching"
    /\ Possible(task[c].reading, o)
    /\ running' = FALSE
    /\ IF generation # c
       THEN /\ task' = [task EXCEPT ![c].at = "sleeping"]
            /\ UNCHANGED <<restartPending, failures, error, seen>>
       ELSE /\ TakeRestart
            /\ task' = [task EXCEPT ![c].at = "sleeping",
                                   ![c].wait = NextWait(o, FailuresAfter(o))]
            /\ failures' = IF o.kind = "skipped" THEN failures ELSE FailuresAfter(o)
            /\ error' = ErrorAfter(c, o)
            /\ seen' = SeenAfter(c, o)
    /\ UNCHANGED <<game, tuning, kicked, generation, saveFailures>>

\* The timer fires: the current chain begins again, an old one is over.
Wakes_ReusesReading(c) ==
    /\ task[c].at = "sleeping"
    /\ IF generation = c
       THEN Begin(task[c].reading, [task EXCEPT ![c] = NoTask])
       ELSE /\ task' = [task EXCEPT ![c] = NoTask]
            /\ UNCHANGED <<generation, running>>
    /\ UNCHANGED <<game, tuning, seen, kicked, restartPending, failures, error, saveFailures>>

Wakes(c) ==
    /\ task[c].at = "sleeping"
    /\ IF generation = c
       THEN Begin(Current, [task EXCEPT ![c] = NoTask])
       ELSE /\ task' = [task EXCEPT ![c] = NoTask]
            /\ UNCHANGED <<generation, running>>
    /\ UNCHANGED <<game, tuning, seen, kicked, restartPending, failures, error, saveFailures>>

-----------------------------------------------------------------------------
ChainNext ==
    \/ Kick
    \/ \E t \in Tunings : SaveTuning(t) \/ SaveTuningFails(t)
    \/ SyncNow
    \/ \E g \in Games : SetProfile(g)
    \/ \E c \in Generations : Wakes(c) \/ \E o \in Outcomes : RoundEnds(c, o)

ChainSpec == ChainInit /\ [][ChainNext]_chainVars

\* The window ticks, timers fire and every round comes to an end: requests
\* carry a timeout and the recovery of the tables does not wait for anyone.
ChainFairness ==
    /\ WF_chainVars(Kick)
    /\ \A c \in Generations : WF_chainVars(Wakes(c))
    /\ \A c \in Generations : WF_chainVars(\E o \in Outcomes : RoundEnds(c, o))

ChainFairSpec == ChainSpec /\ ChainFairness

-----------------------------------------------------------------------------
(* Properties.                                                             *)

ChainTypeOK ==
    /\ game \in Games
    /\ tuning \in [Games -> Tunings]
    /\ seen \in [Games -> SUBSET AllLeagues]
    /\ kicked \in BOOLEAN /\ running \in BOOLEAN /\ restartPending \in BOOLEAN
    /\ generation \in Generations
    /\ failures \in 0 .. FailureLimit
    /\ error \in Readings \cup {NoError}
    /\ task \in [Generations -> Task \cup {NoTask}]
    /\ saveFailures \in 0 .. MaxSaveFailures

\* `running` tells the truth, and the round in flight is always the current
\* chain's: two chains never fetch the same hours side by side, and the
\* verdict of a stale chain is never even reached (the comments at
\* exchange_sync.rs:44 and shell/mod.rs:523).
OneRoundAtATime ==
    \A c \in Generations : task[c].at = "fetching" <=> running /\ c = generation

\* Once kicked, the current generation always has a living chain: no order of
\* clicks, edits and timers lets the hourly sync die out.
TheChainNeverStops == kicked => task[generation] # NoTask

\* A restart request is only ever held by a round in flight, so it cannot be
\* left behind for a later, unrelated round to swallow.
RestartHasARound == restartPending => running

\* The message on the exchange page is about the league its game is set to:
\* "the old book's suspicion beside the new name" (exchange_sync.rs:652).
\* A failed save clears nothing, and is left out.
ErrorIsAboutTheCurrentAccount ==
    error # NoError /\ saveFailures = 0
        => error.tuning.league = tuning[error.game].league

\* A chain that sleeps until the next slot or for half a minute did read the
\* settings that are in force for its game: a saved change never waits for the
\* slot.
SleeperHasReadTheSettings ==
    task[generation].at = "sleeping" /\ task[generation].wait \in {"slot", "half_minute"}
            /\ saveFailures = 0
        => task[generation].reading.tuning = tuning[task[generation].reading.game]

\* What a game switch does not keep, since it does not touch the chain.
SleeperReadTheActiveGame ==
    task[generation].at = "sleeping" /\ task[generation].wait = "slot" /\ saveFailures = 0
        => task[generation].reading = Current

\* leagues_seen of a game only ever holds that game's leagues, although the
\* user may switch games while the round is in flight.
SeenLeaguesAreTheGamesOwn == \A g \in Games : seen[g] \subseteq LeaguesOf[g]

\* A game selected and a change made to its tuning are read by a round, unless
\* they are replaced first: what the save missed, the next slot picks up.
SavedTuningIsRead ==
    \A r \in Readings :
        kicked /\ Current = r
            ~> Current # r \/ (running /\ task[generation].reading = r)

Slot == INSTANCE RoundSlot
            WITH Chains <- Generations,
                 fetching <- {c \in Generations : task[c].at = "fetching"}
SlotSpec == Slot!Spec
=============================================================================
