-------------------------- MODULE MouseGuard_proofs --------------------------
(***************************************************************************)
(* Proofs about MouseGuard, for any guards, buttons and numbers of calls,  *)
(* mishaps and unseen inputs.                                              *)
(***************************************************************************)
EXTENDS MouseGuard, TLAPS

-----------------------------------------------------------------------------
(* Types.                                                                  *)

Stations == {"idle", "reaping", "claiming", "starting", "locking", "arming",
             "posting", "stopping", "asking", "waking"}

Stages == {"none", "started", "published", "hooked", "pumping", "handling", "reporting",
           "leaving", "unhooking", "dropping", "finished"}

\* The parts of TypeOK that few actions touch each.
CallsTyped == call \in [Guards -> Call]

ThreadsTyped == thread \in [Guards -> Thread]

QueuesTyped == queue \in [Guards -> Seq(Command)]

SharedTyped ==
    /\ owner \in Guards \cup {NoOne} /\ lock \in Guards \cup {NoOne}
    /\ threadId \in Guards \cup {NoOne}
    /\ generation \in Nat /\ handle \in BOOLEAN /\ stop \in BOOLEAN
    /\ mode \in Modes /\ physical \subseteq Buttons /\ suppressed \subseteq Buttons

CountsTyped ==
    /\ hand \subseteq Buttons /\ game \subseteq Buttons
    /\ young \in BOOLEAN
    /\ calls \in Nat /\ mishaps \in Nat /\ unseen \in Nat

\* All of TypeOK but the number of hooks.
Types == CallsTyped /\ ThreadsTyped /\ QueuesTyped /\ SharedTyped /\ CountsTyped

LEMMA ConstantTypes ==
    /\ NoMessage \in Command /\ Command \subseteq Message /\ NoCall \in Call
    /\ NoDeadline \in Deadline /\ NoThread \in Thread
    /\ NoOne \notin Guards
<1>1. NoMessage \in Command /\ Command \subseteq Message
  BY DEF NoMessage, Command, Commands, Message, Kinds
<1>2. NoCall \in Call
  BY <1>1 DEF NoCall, Call
<1>3. NoDeadline \in Deadline
  BY DEF Deadline
<1> QED BY <1>1, <1>2, <1>3, GuardAssumption DEF NoThread, Thread

LEMMA CallTypes ==
    ASSUME NEW c \in Call, NEW at \in Stations
    PROVE  /\ [c EXCEPT !.at = at] \in Call
           /\ [[c EXCEPT !.at = at] EXCEPT !.back = "idle"] \in Call
           /\ \A m \in Command : [[c EXCEPT !.at = at] EXCEPT !.message = m] \in Call
           /\ \A goal \in {"prepare", "arm", "release", "stop"}, back \in {"idle", "claiming"} :
                 [at |-> at, goal |-> goal, back |-> back, message |-> NoMessage] \in Call
           /\ c.message \in Command /\ c.back \in {"idle", "claiming"}
BY ConstantTypes DEF Call, Stations

\* The caller of g goes on, in the forms the actions use.
LEMMA CallerMoves ==
    ASSUME CallsTyped, NEW g \in Guards, NEW at \in Stations
    PROVE  /\ Goes(g, at) => CallsTyped'
           /\ call' = [call EXCEPT ![g].at = at, ![g].back = "idle"] => CallsTyped'
           /\ \A m \in Command :
                call' = [call EXCEPT ![g].at = at, ![g].message = m] => CallsTyped'
           /\ \A goal \in {"prepare", "arm", "release", "stop"}, back \in {"idle", "claiming"} :
                Starts(g, goal, at, back) => CallsTyped'
<1>0. call[g] \in Call /\ (\A w \in Call : [call EXCEPT ![g] = w] \in [Guards -> Call])
  BY DEF CallsTyped
<1>1. [call EXCEPT ![g].at = at] = [call EXCEPT ![g] = [call[g] EXCEPT !.at = at]]
  BY <1>0 DEF CallsTyped
<1>2. [call EXCEPT ![g].at = at, ![g].back = "idle"]
        = [call EXCEPT ![g] = [[call[g] EXCEPT !.at = at] EXCEPT !.back = "idle"]]
  BY DEF CallsTyped
<1>3. ASSUME NEW m \in Command
      PROVE  [call EXCEPT ![g].at = at, ![g].message = m]
                = [call EXCEPT ![g] = [[call[g] EXCEPT !.at = at] EXCEPT !.message = m]]
  BY DEF CallsTyped
<1>4. Goes(g, at) => CallsTyped'
  BY <1>0, <1>1, CallTypes, ConstantTypes DEF Goes, CallsTyped
<1>5. call' = [call EXCEPT ![g].at = at, ![g].back = "idle"] => CallsTyped'
  <2>1. [[call[g] EXCEPT !.at = at] EXCEPT !.back = "idle"] \in Call
    BY <1>0, CallTypes
  <2> QED BY <1>0, <1>2, <2>1 DEF CallsTyped
<1>6. ASSUME NEW m \in Command, call' = [call EXCEPT ![g].at = at, ![g].message = m]
      PROVE  CallsTyped'
  <2>1. [[call[g] EXCEPT !.at = at] EXCEPT !.message = m] \in Call
    BY <1>0, CallTypes
  <2> QED BY <1>0, <1>3, <1>6, <2>1 DEF CallsTyped
<1>7. ASSUME NEW goal \in {"prepare", "arm", "release", "stop"}, NEW back \in {"idle", "claiming"},
             Starts(g, goal, at, back)
      PROVE  CallsTyped'
  BY <1>0, <1>7, CallTypes, ConstantTypes DEF Starts, CallsTyped
<1> QED BY <1>4, <1>5, <1>6, <1>7

LEMMA ThreadFields ==
    ASSUME NEW t \in Thread
    PROVE  /\ t.message \in Message /\ t.idle \in Nat /\ t.deadline \in Deadline
           /\ t.ready \in {"none", "ok", "error"} /\ t.at \in Stages
BY DEF Thread, Stages

LEMMA ThreadTypes ==
    ASSUME NEW t \in Thread, NEW at \in Stages
    PROVE  /\ [t EXCEPT !.at = at] \in Thread
           /\ \A m \in Message : [[t EXCEPT !.at = at] EXCEPT !.message = m] \in Thread
           /\ \A r \in {"none", "ok", "error"} : [[t EXCEPT !.at = at] EXCEPT !.ready = r] \in Thread
<1>1. [t EXCEPT !.at = at] \in Thread
  BY DEF Thread, Stages
<1>2. ASSUME NEW m \in Message PROVE [[t EXCEPT !.at = at] EXCEPT !.message = m] \in Thread
  <2> DEFINE u == [t EXCEPT !.at = at]
  <2>1. u \in Thread
    BY <1>1
  <2> HIDE DEF u
  <2>2. [u EXCEPT !.message = m] \in Thread
    BY <2>1 DEF Thread
  <2> QED BY <2>2 DEF u
<1>3. ASSUME NEW r \in {"none", "ok", "error"} PROVE [[t EXCEPT !.at = at] EXCEPT !.ready = r] \in Thread
  <2> DEFINE u == [t EXCEPT !.at = at]
  <2>1. u \in Thread
    BY <1>1
  <2> HIDE DEF u
  <2>2. [u EXCEPT !.ready = r] \in Thread
    BY <2>1 DEF Thread
  <2> QED BY <2>2 DEF u
<1> QED BY <1>1, <1>2, <1>3

\* The hook thread of g goes on, in the forms the actions use.
LEMMA ThreadMoves ==
    ASSUME ThreadsTyped, NEW g \in Guards, NEW at \in Stages
    PROVE  /\ \A w \in Thread : thread' = [thread EXCEPT ![g] = w] => ThreadsTyped'
           /\ Moves(g, at) => ThreadsTyped'
           /\ \A r \in {"none", "ok", "error"} :
                thread' = [thread EXCEPT ![g].at = at, ![g].ready = r] => ThreadsTyped'
           /\ thread' = Reaped(g) => ThreadsTyped'
           /\ \A m \in Message : thread' = Takes(g, m) => ThreadsTyped'
<1>0. thread[g] \in Thread /\ (\A w \in Thread : [thread EXCEPT ![g] = w] \in [Guards -> Thread])
  BY DEF ThreadsTyped
<1>1. Moves(g, at) => ThreadsTyped'
  <2>1. [thread EXCEPT ![g].at = at] = [thread EXCEPT ![g] = [thread[g] EXCEPT !.at = at]]
    BY DEF ThreadsTyped
  <2>2. [thread[g] EXCEPT !.at = at] \in Thread
    BY <1>0, ThreadTypes
  <2> QED BY <1>0, <2>1, <2>2 DEF Moves, ThreadsTyped
<1>2. ASSUME NEW r \in {"none", "ok", "error"},
             thread' = [thread EXCEPT ![g].at = at, ![g].ready = r]
      PROVE  ThreadsTyped'
  <2>1. [thread EXCEPT ![g].at = at, ![g].ready = r]
           = [thread EXCEPT ![g] = [[thread[g] EXCEPT !.at = at] EXCEPT !.ready = r]]
    BY DEF ThreadsTyped
  <2>2. [[thread[g] EXCEPT !.at = at] EXCEPT !.ready = r] \in Thread
    BY <1>0, ThreadTypes
  <2> QED BY <1>0, <1>2, <2>1, <2>2 DEF ThreadsTyped
<1>3. thread' = Reaped(g) => ThreadsTyped'
  BY <1>0, ConstantTypes DEF Reaped, ThreadsTyped
<1>4. ASSUME NEW m \in Message, thread' = Takes(g, m)
      PROVE  ThreadsTyped'
  <2>1. Takes(g, m)
           = [thread EXCEPT ![g] = [[thread[g] EXCEPT !.at = "handling"] EXCEPT !.message = m]]
    BY DEF ThreadsTyped, Takes
  <2>2. [[thread[g] EXCEPT !.at = "handling"] EXCEPT !.message = m] \in Thread
    BY <1>0, ThreadTypes DEF Stages
  <2> QED BY <1>0, <1>4, <2>1, <2>2 DEF ThreadsTyped
<1>5. ASSUME NEW w \in Thread, thread' = [thread EXCEPT ![g] = w] PROVE ThreadsTyped'
  BY <1>0, <1>5 DEF ThreadsTyped
<1> QED BY <1>1, <1>2, <1>3, <1>4, <1>5

LEMMA PostTypes ==
    ASSUME QueuesTyped, threadId \in Guards, NEW m \in Command, Posted(m)
    PROVE  QueuesTyped'
<1>1. queue[threadId] \in Seq(Command)
  BY DEF QueuesTyped
<1>2. Append(queue[threadId], m) \in Seq(Command)
  BY <1>1
<1> QED BY <1>2 DEF QueuesTyped, Posted

LEMMA CallerCallTypes ==
    ASSUME Types, NEW g \in Guards, CallBegins(g) \/ CallStep(g)
    PROVE  CallsTyped'
<1> USE DEF Types
<1>0. call[g].message \in Command /\ call[g].back \in {"idle", "claiming"}
  BY DEF CallsTyped, Call
<1>1. ASSUME NEW goal \in {"prepare", "arm"}, Prepare(g, goal) PROVE CallsTyped'
  BY <1>1, CallerMoves DEF Prepare, Prepared, StopIfOwner, Stations
<1>2. CASE ReleaseBegins(g)
  BY <1>2, CallerMoves DEF ReleaseBegins, Stations
<1>3. CASE Stop(g)
  BY <1>3, CallerMoves DEF Stop, StopIfOwner, Stations
<1>4. CASE Claim(g)
  BY <1>4, CallerMoves DEF Claim, Stations
<1>5. CASE Ready(g)
  BY <1>5, CallerMoves DEF Ready, Prepared, StopIfOwner, Stations
<1>6. CASE ArmLocks(g)
  BY <1>6, CallerMoves DEF ArmLocks, Stations
<1>7. CASE Arm(g)
  <2>1. [kind |-> "active", generation |-> generation + 1] \in Command
    BY DEF SharedTyped, Command, Commands
  <2> QED BY <1>7, <2>1, CallerMoves DEF Arm, Stations
<1>8. CASE Release(g)
  <2>1. [kind |-> IF suppressed = {} THEN "idle" ELSE "drain", generation |-> generation + 1] \in Command
    BY DEF SharedTyped, Command, Commands
  <2> QED BY <1>8, <2>1, CallerMoves DEF Release, Stations
<1>9. CASE Post(g)
  BY <1>9, CallerMoves DEF Post, Stations
<1>10. CASE ForceOpen(g)
  BY <1>10, CallerMoves DEF ForceOpen, Stations
<1>11. CASE Ask(g)
  BY <1>11, CallerMoves DEF Ask, Stations
<1>12. CASE Wake(g)
  BY <1>12, CallerMoves DEF Wake, Stations
<1>13. CASE Reap(g)
  BY <1>0, <1>13, CallerMoves DEF Reap, Stations
<1> QED
  BY <1>1, <1>2, <1>3, <1>4, <1>5, <1>6, <1>7, <1>8, <1>9, <1>10, <1>11, <1>12, <1>13
  DEF CallBegins, CallStep

LEMMA CallerTypes ==
    ASSUME Types, NEW g \in Guards, CallBegins(g) \/ CallStep(g)
    PROVE  Types'
<1> USE DEF Types, control, packed, user
<1>0. CallsTyped'
  BY CallerCallTypes
<1>a. call[g].message \in Command
  BY DEF CallsTyped, Call
<1>b. [NoThread EXCEPT !.at = "started"] \in Thread
  BY ConstantTypes, ThreadTypes DEF Stages
<1>1. ThreadsTyped'
  BY <1>b, ThreadMoves DEF CallBegins, CallStep, Prepare, ReleaseBegins, Stop, Claim, Ready, ArmLocks,
     Arm, Release, Post, ForceOpen, Ask, Wake, Reap, ThreadsTyped, Stages
<1> DEFINE Others == QueuesTyped /\ SharedTyped /\ CountsTyped
<1> SUFFICES Others'
  BY <1>0, <1>1
<1>c. threadId # NoOne => threadId \in Guards
  BY DEF SharedTyped
<1>2. ASSUME NEW goal \in {"prepare", "arm"}, Prepare(g, goal) PROVE Others'
  BY <1>2, ConstantTypes DEF Prepare, Starts, QueuesTyped, SharedTyped, CountsTyped
<1>3. CASE ReleaseBegins(g)
  BY <1>3, ConstantTypes DEF ReleaseBegins, Starts, QueuesTyped, SharedTyped, CountsTyped
<1>4. CASE Stop(g)
  BY <1>4, ConstantTypes DEF Stop, Starts, QueuesTyped, SharedTyped, CountsTyped
<1>5. CASE Claim(g)
  <2>1. <<>> \in Seq(Command) => QueuesTyped'
    BY <1>5 DEF Claim, QueuesTyped
  <2>2. SharedTyped'
    <3>1. UNCHANGED <<lock, packed>>
      BY <1>5 DEF Claim
    <3>2. /\ owner' \in {owner, g} /\ generation' \in {generation, generation + 1}
          /\ threadId' \in {threadId, NoOne}
      BY <1>5 DEF Claim
    <3>3. handle' \in BOOLEAN /\ stop' \in BOOLEAN
      BY <1>5 DEF Claim, SharedTyped
    <3>4. owner' \in Guards \cup {NoOne} /\ generation' \in Nat /\ threadId' \in Guards \cup {NoOne}
      BY <3>2 DEF SharedTyped
    <3> QED BY <3>1, <3>3, <3>4 DEF SharedTyped
  <2>3. CountsTyped'
    BY <1>5 DEF Claim, CountsTyped, Mishap
  <2> QED BY <2>1, <2>2, <2>3
<1>6. CASE Ready(g)
  BY <1>6, ConstantTypes DEF Ready, Mishap, QueuesTyped, SharedTyped, CountsTyped
<1>7. CASE ArmLocks(g)
  BY <1>7, ConstantTypes DEF ArmLocks, ForceRelease, Modes, QueuesTyped, SharedTyped, CountsTyped
<1>8. CASE Arm(g)
  BY <1>8, ConstantTypes DEF Arm, StateArm, Modes, QueuesTyped, SharedTyped, CountsTyped
<1>9. CASE Release(g)
  BY <1>9, ConstantTypes DEF Release, StateRelease, Modes, QueuesTyped, SharedTyped, CountsTyped
<1>10. CASE Post(g)
  <2>1. QueuesTyped'
    BY <1>a, <1>c, <1>10, PostTypes, ConstantTypes DEF Post, CanPost, QueuesTyped
  <2>2. SharedTyped'
    BY <1>10 DEF Post, SharedTyped, ForceRelease, Modes
  <2>3. CountsTyped'
    BY <1>10 DEF Post, CountsTyped, Mishap, Posted
  <2> QED BY <2>1, <2>2, <2>3
<1>11. CASE ForceOpen(g)
  BY <1>11, ConstantTypes DEF ForceOpen, ForceRelease, Modes, QueuesTyped, SharedTyped, CountsTyped
<1>12. CASE Ask(g)
  BY <1>12, ConstantTypes DEF Ask, QueuesTyped, SharedTyped, CountsTyped
<1>13. CASE Wake(g)
  <2>1. QueuesTyped'
    BY <1>a, <1>c, <1>13, PostTypes, ConstantTypes DEF Wake, QueuesTyped
  <2>2. SharedTyped'
    BY <1>13 DEF Wake, SharedTyped, ForceRelease, Modes
  <2>3. CountsTyped'
    BY <1>13 DEF Wake, CountsTyped, Mishap, Posted
  <2> QED BY <2>1, <2>2, <2>3
<1>14. CASE Reap(g)
  BY <1>14, ConstantTypes DEF Reap, QueuesTyped, SharedTyped, CountsTyped
<1> QED
  BY <1>2, <1>3, <1>4, <1>5, <1>6, <1>7, <1>8, <1>9, <1>10, <1>11, <1>12, <1>13, <1>14
  DEF CallBegins, CallStep

-----------------------------------------------------------------------------
(* The types, in the steps of the hook threads, the user and time.         *)

\* The fields of a thread that only its own steps set.
LEMMA TimerTypes ==
    ASSUME NEW t \in Thread, NEW m \in Message, NEW i \in Nat, NEW d \in Deadline
    PROVE  /\ [t EXCEPT !.idle = i] \in Thread /\ [t EXCEPT !.deadline = d] \in Thread
           /\ [t EXCEPT !.message = m] \in Thread
BY DEF Thread

LEMMA ThreadTimers ==
    ASSUME ThreadsTyped, NEW g \in Guards, NEW m \in Message, NEW i \in Nat, NEW d \in Deadline
    PROVE  /\ thread' = [Takes(g, m) EXCEPT ![g].idle = i] => ThreadsTyped'
           /\ thread' = [Takes(g, m) EXCEPT ![g].deadline = d] => ThreadsTyped'
           /\ Pumps(g, i, d) => ThreadsTyped'
           /\ thread' = [thread EXCEPT ![g] = [@ EXCEPT !.at = "pumping", !.message = m,
                                                        !.deadline = d]] => ThreadsTyped'
<1> DEFINE u == [[thread[g] EXCEPT !.at = "handling"] EXCEPT !.message = m]
           w == [[thread[g] EXCEPT !.at = "pumping"] EXCEPT !.message = m]
           n == [[thread[g] EXCEPT !.at = "pumping"] EXCEPT !.message = NoMessage]
<1>1. u \in Thread /\ w \in Thread /\ n \in Thread
  BY ThreadTypes, ConstantTypes DEF ThreadsTyped, Stages
<1>2. [Takes(g, m) EXCEPT ![g].idle = i] = [thread EXCEPT ![g] = [u EXCEPT !.idle = i]]
  BY DEF Takes, ThreadsTyped
<1>3. [Takes(g, m) EXCEPT ![g].deadline = d] = [thread EXCEPT ![g] = [u EXCEPT !.deadline = d]]
  BY DEF Takes, ThreadsTyped
<1>4. [thread EXCEPT ![g] = [@ EXCEPT !.at = "pumping", !.message = m, !.deadline = d]]
         = [thread EXCEPT ![g] = [w EXCEPT !.deadline = d]]
  OBVIOUS
<1>5. [thread EXCEPT ![g] = [@ EXCEPT !.at = "pumping", !.message = NoMessage, !.idle = i,
                                      !.deadline = d]]
         = [thread EXCEPT ![g] = [[n EXCEPT !.idle = i] EXCEPT !.deadline = d]]
  OBVIOUS
<1> HIDE DEF u, w, n
<1>6. /\ [u EXCEPT !.idle = i] \in Thread /\ [u EXCEPT !.deadline = d] \in Thread
      /\ [w EXCEPT !.deadline = d] \in Thread /\ [n EXCEPT !.idle = i] \in Thread
  BY <1>1, TimerTypes
<1>7. [[n EXCEPT !.idle = i] EXCEPT !.deadline = d] \in Thread
  <2> DEFINE v == [n EXCEPT !.idle = i]
  <2> v \in Thread BY <1>6
  <2> HIDE DEF v
  <2>1. [v EXCEPT !.deadline = d] \in Thread
    BY TimerTypes
  <2> QED BY <2>1 DEF v
<1>8. \A x \in Thread : thread' = [thread EXCEPT ![g] = x] => ThreadsTyped'
  BY ThreadMoves DEF Stages
<1>9. Pumps(g, i, d) => ThreadsTyped'
  BY <1>5, <1>7, <1>8 DEF Pumps
<1> QED BY <1>2, <1>3, <1>4, <1>6, <1>8, <1>9

LEMMA HandleTypes ==
    ASSUME Types, NEW g \in Guards, Handle(g)
    PROVE  Types'
<1> DEFINE m == thread[g].message
<1> USE DEF Types
<1>0. /\ m \in Message /\ thread[g].idle \in Nat /\ thread[g].deadline \in Deadline
      /\ m.generation \in Nat /\ generation \in Nat
  BY ThreadFields DEF ThreadsTyped, SharedTyped, Message
<1>1. /\ NewDeadline(m, "drain_due") \in Deadline /\ NewDeadline(m, "active_due") \in Deadline
      /\ NoDeadline \in Deadline /\ NoMessage \in Message
      /\ [kind |-> "timer_lost", generation |-> m.generation] \in Message
  BY <1>0, ConstantTypes DEF NewDeadline, Deadline, Message, Kinds, Commands
<1> HIDE DEF m
<1>k. Keeps(g) => ThreadsTyped'
  BY <1>0, ThreadTimers, ConstantTypes DEF Keeps
<1>2. ThreadsTyped'
  <2>1. CASE HandleIdle(g, m)
    BY <2>1, <1>0, <1>1, <1>k, ThreadTimers, ThreadMoves DEF HandleIdle, Stages
  <2>2. CASE HandleDeadlineRequest(g, m)
    BY <2>2, <1>0, <1>1, <1>k, ThreadTimers, ThreadMoves DEF HandleDeadlineRequest, OpensAndLeaves, Stages
  <2>3. CASE HandleIdleTimer(g, m)
    BY <2>3, <1>k, ThreadMoves DEF HandleIdleTimer, Stages
  <2>4. CASE HandleActiveDeadline(g, m)
    <3>1. \/ Keeps(g) \/ Moves(g, "leaving")
          \/ thread' = [thread EXCEPT ![g] = [@ EXCEPT !.at = "pumping", !.message = NoMessage,
                                                      !.deadline = NewDeadline(m, "drain_due")]]
          \/ thread' = Takes(g, [kind |-> "timer_lost", generation |-> m.generation])
      BY <2>4 DEF HandleActiveDeadline, ExpireActive, OpensAndLeaves
    <3>2. Moves(g, "leaving") => ThreadsTyped'
      BY ThreadMoves DEF Stages
    <3>3. thread' = Takes(g, [kind |-> "timer_lost", generation |-> m.generation]) => ThreadsTyped'
      BY <1>1, ThreadMoves DEF Stages
    <3>4. thread' = [thread EXCEPT ![g] = [@ EXCEPT !.at = "pumping", !.message = NoMessage,
                                                   !.deadline = NewDeadline(m, "drain_due")]]
             => ThreadsTyped'
      BY <1>1, <1>0, ThreadTimers
    <3> QED BY <1>k, <3>1, <3>2, <3>3, <3>4
  <2>5. CASE HandleDrainDeadline(g, m)
    BY <2>5, <1>k, ThreadMoves DEF HandleDrainDeadline, OpensAndLeaves, Stages
  <2>6. CASE HandleLostTimer(g, m)
    BY <2>6, <1>k, ThreadMoves DEF HandleLostTimer, OpensAndLeaves, Stages
  <2> QED BY <2>1, <2>2, <2>3, <2>4, <2>5, <2>6 DEF Handle, m
<1>3. UNCHANGED <<owner, generation, lock, handle, threadId, call, queue, hooks, user, young, calls>>
  BY DEF Handle
<1>4. /\ UNCHANGED packed \/ ForceRelease \/ StateRelease
      /\ UNCHANGED stop \/ stop' = TRUE
      /\ UNCHANGED mishaps \/ Mishap
  BY DEF Handle, HandleIdle, HandleDeadlineRequest, HandleIdleTimer, HandleActiveDeadline, ExpireActive,
     HandleDrainDeadline, HandleLostTimer, OpensAndLeaves, Keeps, Pumps
<1>5. mode' \in Modes /\ physical' \subseteq Buttons /\ suppressed' \subseteq Buttons
  BY <1>4 DEF SharedTyped, packed, ForceRelease, StateRelease, Modes
<1>6. stop' \in BOOLEAN
  BY <1>4 DEF SharedTyped
<1>10. mishaps' \in Nat
  BY <1>4 DEF CountsTyped, Mishap
<1>7. CallsTyped' /\ QueuesTyped'
  BY <1>3 DEF CallsTyped, QueuesTyped
<1>8. SharedTyped'
  BY <1>3, <1>5, <1>6 DEF SharedTyped
<1>9. CountsTyped'
  BY <1>3, <1>10 DEF CountsTyped, user
<1> QED BY <1>2, <1>7, <1>8, <1>9

LEMMA ThreadStepTypes ==
    ASSUME Types, NEW g \in Guards, ThreadStep(g) \/ OtherMessage(g)
    PROVE  Types'
<1> USE DEF Types, control, packed, user
<1> DEFINE Others == SharedTyped /\ CountsTyped
<1>0. /\ thread[g] \in Thread /\ thread[g].idle \in Nat /\ thread[g].deadline \in Deadline
      /\ thread[g].ready \in {"none", "ok", "error"}
  BY ThreadFields DEF ThreadsTyped
<1>a. \A at \in Stages : Moves(g, at) => ThreadsTyped'
  BY ThreadMoves
<1>1. CASE Handle(g)
  BY <1>1, HandleTypes
<1>2. CASE Publish(g)
  <2>1. ThreadsTyped'
    BY <1>a, <1>2 DEF Publish, Stages
  <2>2. SharedTyped'
    BY <1>2 DEF Publish, InitializeReleased, SharedTyped, CountsTyped, Modes
  <2> QED BY <1>2, <2>1, <2>2 DEF Publish, CallsTyped, QueuesTyped, CountsTyped
<1>3. CASE InstallHook(g)
  <2>1. ThreadsTyped'
    BY <1>3, ThreadMoves DEF InstallHook, Stages
  <2>2. Others'
    <3>1. SharedTyped'
      BY <1>3 DEF InstallHook, SharedTyped
    <3>2. CountsTyped'
      BY <1>3 DEF InstallHook, CountsTyped, Mishap
    <3> QED BY <3>1, <3>2
  <2> QED BY <1>3, <2>1, <2>2 DEF InstallHook, CallsTyped, QueuesTyped
<1>4. CASE EnterLoop(g)
  <2>1. ThreadsTyped'
    BY <1>a, <1>4 DEF EnterLoop, Stages
  <2> QED BY <1>4, <2>1 DEF EnterLoop, CallsTyped, QueuesTyped, SharedTyped, CountsTyped
<1>5. CASE TakeMessage(g)
  <2>1. queue[g] \in Seq(Command) /\ queue[g] # <<>>
    BY <1>5 DEF TakeMessage, QueuesTyped
  <2>2. Head(queue[g]) \in Message /\ Tail(queue[g]) \in Seq(Command)
    BY <2>1, ConstantTypes
  <2>3. ThreadsTyped'
    BY <1>5, <2>2, <1>a, ThreadMoves DEF TakeMessage, Stages
  <2>4. QueuesTyped'
    BY <1>5, <2>2 DEF TakeMessage, QueuesTyped
  <2> QED BY <1>5, <2>3, <2>4 DEF TakeMessage, CallsTyped, SharedTyped, CountsTyped
<1>6. CASE IdleTimer(g)
  <2>1. [kind |-> "idle_timer", generation |-> thread[g].idle] \in Message
    BY <1>0 DEF Message, Kinds, Commands
  <2>2. ThreadsTyped'
    BY <1>6, <1>a, <1>0, <2>1, ThreadTimers DEF IdleTimer, Stages
  <2>3. Others'
    <3>1. SharedTyped'
      BY <1>6 DEF IdleTimer, SharedTyped
    <3>2. CountsTyped'
      BY <1>6 DEF IdleTimer, CountsTyped, Mishap
    <3> QED BY <3>1, <3>2
  <2> QED BY <1>6, <2>2, <2>3 DEF IdleTimer, CallsTyped, QueuesTyped
<1>7. CASE DeadlineTimer(g)
  <2>1. thread[g].deadline \in [kind : {"active_due", "drain_due"}, generation : Nat, due : BOOLEAN]
    BY <1>0, <1>7 DEF DeadlineTimer, Deadline
  <2>2. \A k \in {thread[g].deadline.kind, "timer_lost"} :
           [kind |-> k, generation |-> thread[g].deadline.generation] \in Message
    BY <2>1 DEF Message, Kinds, Commands
  <2>3. ThreadsTyped'
    BY <1>7, <1>0, <2>2, ThreadTimers, ConstantTypes DEF DeadlineTimer
  <2>4. Others'
    <3>1. SharedTyped'
      BY <1>7 DEF DeadlineTimer, SharedTyped
    <3>2. CountsTyped'
      BY <1>7 DEF DeadlineTimer, CountsTyped, Mishap
    <3> QED BY <3>1, <3>2
  <2> QED BY <1>7, <2>3, <2>4 DEF DeadlineTimer, CallsTyped, QueuesTyped
<1>8. CASE Report(g)
  <2>1. threadId \in Guards /\ [kind |-> "idle", generation |-> generation] \in Command
    BY <1>8 DEF Report, CanPost, SharedTyped, Command, Commands
  <2>2. QueuesTyped'
    <3>1. Posted([kind |-> "idle", generation |-> generation]) => QueuesTyped'
      BY <2>1, PostTypes
    <3>2. Append(queue[threadId], NoMessage) \in Seq(Command)
      BY <2>1, ConstantTypes DEF QueuesTyped
    <3>3. [queue EXCEPT ![threadId] = Append(@, NoMessage)] \in [Guards -> Seq(Command)]
      BY <3>2 DEF QueuesTyped
    <3> QED BY <1>8, <3>1, <3>3 DEF Report, QueuesTyped
  <2>3. ThreadsTyped'
    BY <1>8, <1>a DEF Report, Stages
  <2>4. Others'
    <3>1. SharedTyped'
      BY <1>8 DEF Report, SharedTyped
    <3>2. CountsTyped'
      BY <1>8 DEF Report, CountsTyped, Mishap, Posted
    <3> QED BY <3>1, <3>2
  <2> QED BY <1>8, <2>2, <2>3, <2>4 DEF Report, CallsTyped
<1>9. CASE Leave(g)
  <2>1. [NoThread EXCEPT !.at = "unhooking", !.ready = thread[g].ready] \in Thread
    <3>1. [NoThread EXCEPT !.at = "unhooking", !.ready = thread[g].ready]
             = [[NoThread EXCEPT !.at = "unhooking"] EXCEPT !.ready = thread[g].ready]
      OBVIOUS
    <3> QED BY <1>0, <3>1, ConstantTypes, ThreadTypes DEF Stages
  <2>2. ThreadsTyped'
    BY <1>9, <2>1, ThreadMoves DEF Leave, Stages
  <2>3. QueuesTyped'
    <3>1. <<>> \in Seq(Command)
      OBVIOUS
    <3> QED BY <1>9, <3>1 DEF Leave, QueuesTyped
  <2>4. Others'
    <3>1. SharedTyped'
      BY <1>9 DEF Leave, SharedTyped, ForceRelease, Modes
    <3>2. CountsTyped'
      BY <1>9 DEF Leave, CountsTyped
    <3> QED BY <3>1, <3>2
  <2> QED BY <1>9, <2>2, <2>3, <2>4 DEF Leave, CallsTyped
<1>10. CASE Unhook(g)
  <2>1. ThreadsTyped'
    BY <1>10, <1>a DEF Unhook, Stages
  <2>2. Others'
    <3>1. SharedTyped'
      BY <1>10 DEF Unhook, SharedTyped
    <3>2. CountsTyped'
      BY <1>10 DEF Unhook, CountsTyped, Mishap
    <3> QED BY <3>1, <3>2
  <2> QED BY <1>10, <2>1, <2>2 DEF Unhook, CallsTyped, QueuesTyped
<1>11. CASE DropOwnership(g)
  <2>1. ThreadsTyped'
    BY <1>11, <1>a DEF DropOwnership, Stages
  <2>2. Others'
    <3>1. SharedTyped'
      BY <1>11 DEF DropOwnership, SharedTyped, ForceRelease, Modes
    <3>2. CountsTyped'
      BY <1>11 DEF DropOwnership, CountsTyped
    <3> QED BY <3>1, <3>2
  <2> QED BY <1>11, <2>1, <2>2 DEF DropOwnership, CallsTyped, QueuesTyped
<1>12. CASE OtherMessage(g)
  <2>1. ThreadsTyped'
    BY <1>12, <1>a DEF OtherMessage, Stages
  <2> QED BY <1>12, <2>1 DEF OtherMessage, CallsTyped, QueuesTyped, SharedTyped, CountsTyped
<1> QED
  BY <1>1, <1>2, <1>3, <1>4, <1>5, <1>6, <1>7, <1>8, <1>9, <1>10, <1>11, <1>12 DEF ThreadStep

LEMMA InputTypes ==
    ASSUME Types, NEW b \in Buttons, Input(b)
    PROVE  Types'
<1> USE DEF Types, control, packed, user
<1>0. Moved(b) => hand' \subseteq Buttons
  BY DEF Moved, CountsTyped
<1>p. Passes(b) => game' \subseteq Buttons
  BY DEF Passes, CountsTyped
<1>1. CASE InputUnhooked(b)
  BY <1>0, <1>p, <1>1 DEF InputUnhooked, CallsTyped, ThreadsTyped, QueuesTyped, SharedTyped, CountsTyped
<1>2. CASE InputUnseen(b)
  BY <1>0, <1>p, <1>2
  DEF InputUnseen, Mishap, CallsTyped, ThreadsTyped, QueuesTyped, SharedTyped, CountsTyped
<1>3. ASSUME NEW g \in Guards, Callback(g, b) PROVE Types'
  <2>1. ThreadsTyped'
    BY <1>3, ThreadMoves DEF Callback, Stages, ThreadsTyped
  <2>2. mode' \in Modes /\ physical' \subseteq Buttons /\ suppressed' \subseteq Buttons
    BY <1>3 DEF Callback, SharedTyped, ProcessUp, ProcessDown, Modes
  <2>3. hand' \subseteq Buttons /\ game' \subseteq Buttons
    BY <1>0, <1>p, <1>3 DEF Callback, CountsTyped
  <2> QED BY <1>3, <2>1, <2>2, <2>3 DEF Callback, CallsTyped, QueuesTyped, SharedTyped, CountsTyped
<1> QED BY <1>1, <1>2, <1>3 DEF Input

LEMMA TickTypes ==
    ASSUME Types, Tick
    PROVE  Types'
<1>1. \A d \in Deadline : d # NoDeadline => [d EXCEPT !.due = TRUE] \in Deadline
  BY DEF Deadline
<1>2. ASSUME NEW g \in Guards, thread[g].deadline # NoDeadline
      PROVE  [thread[g] EXCEPT !.deadline.due = TRUE] \in Thread
  <2>1. thread[g] \in Thread /\ thread[g].deadline \in Deadline
    BY ThreadFields DEF Types, ThreadsTyped
  <2>2. [thread[g].deadline EXCEPT !.due = TRUE] \in Deadline
    BY <1>1, <1>2, <2>1
  <2>3. [thread[g] EXCEPT !.deadline = [thread[g].deadline EXCEPT !.due = TRUE]] \in Thread
    BY <2>1, <2>2 DEF Thread
  <2> QED BY <2>3
<1>3. ThreadsTyped'
  BY <1>2 DEF Tick, Types, ThreadsTyped
<1> QED
  BY <1>3 DEF Tick, Types, CallsTyped, QueuesTyped, SharedTyped, CountsTyped, control, packed, user

\* Every step keeps the types, the number of hooks aside.
LEMMA StepTypes ==
    ASSUME Types, [Next]_vars
    PROVE  Types'
<1>1. CASE UNCHANGED vars
  BY <1>1 DEF vars, control, packed, user, Types, CallsTyped, ThreadsTyped, QueuesTyped, SharedTyped,
     CountsTyped
<1> QED
  BY <1>1, CallerTypes, ThreadStepTypes, InputTypes, TickTypes DEF Next

LEMMA InitTypes == Init => Types
<1>1. <<>> \in Seq(Command)
  OBVIOUS
<1>2. Init => CallsTyped /\ ThreadsTyped /\ QueuesTyped
  BY <1>1, ConstantTypes DEF Init, CallsTyped, ThreadsTyped, QueuesTyped
<1>3. Init => SharedTyped
  <2>1. Init => handle \in BOOLEAN /\ stop \in BOOLEAN
    BY Zenon DEF Init
  <2>2. Init => /\ owner \in Guards \cup {NoOne} /\ lock \in Guards \cup {NoOne}
                /\ threadId \in Guards \cup {NoOne} /\ mode \in Modes
                /\ physical \subseteq Buttons /\ suppressed \subseteq Buttons
    BY Zenon DEF Init, Modes
  <2>3. Init => generation \in Nat
    BY DEF Init
  <2> QED BY <2>1, <2>2, <2>3 DEF SharedTyped
<1>4. Init => CountsTyped
  <2>1. Init => young \in BOOLEAN /\ hand \subseteq Buttons /\ game \subseteq Buttons
    BY Zenon DEF Init
  <2>2. Init => calls \in Nat /\ mishaps \in Nat /\ unseen \in Nat
    BY DEF Init
  <2> QED BY <2>1, <2>2 DEF CountsTyped
<1> QED BY <1>2, <1>3, <1>4 DEF Types

-----------------------------------------------------------------------------
(* Who owns the hook.  A thread between its start and its end works for    *)
(* the owner, so a claim finds every other thread over; and the owner is   *)
(* given up only after the hook is gone, so a claim finds none registered. *)

OneOwner == \A g \in Guards : thread[g].at \notin {"none", "finished"} => owner = g

HookCount ==
    /\ hooks \in {0, 1}
    /\ owner = NoOne => hooks = 0
    /\ \A g \in Guards :
         /\ thread[g].at \in {"started", "published", "dropping"} => hooks = 0
         /\ thread[g].at \in Hooked => hooks = 1 /\ handle

Ownership == OneOwner /\ HookCount

\* Only the stages matter, and hook, handle and owner.
LEMMA OwnershipKept ==
    ASSUME Ownership, UNCHANGED <<owner, hooks, handle>>,
           \A g \in Guards : \/ thread'[g].at = thread[g].at
                             \/ thread'[g].at \in {"none", "finished"}
                             \/ thread[g].at \in Hooked /\ thread'[g].at \in Hooked
                             \/ thread[g].at = "started" /\ thread'[g].at = "published"
    PROVE  Ownership'
BY DEF Ownership, OneOwner, HookCount, Hooked

LEMMA StageSet ==
    ASSUME ThreadsTyped, NEW g \in Guards, NEW at
    PROVE  /\ Moves(g, at) =>
                 thread'[g].at = at /\ \A h \in Guards : h # g => thread'[h].at = thread[h].at
           /\ \A w \in Thread : thread' = [thread EXCEPT ![g] = w] =>
                 thread'[g].at = w.at /\ \A h \in Guards : h # g => thread'[h].at = thread[h].at
           /\ \A m : thread' = Takes(g, m) =>
                 thread'[g].at = "handling" /\ \A h \in Guards : h # g => thread'[h].at = thread[h].at
BY DEF ThreadsTyped, Thread, Moves, Takes

\* A thread at work stays between its loop and its end.
LEMMA WorkingStages ==
    ASSUME ThreadsTyped, NEW g \in Guards,
           \/ TakeMessage(g) \/ IdleTimer(g) \/ DeadlineTimer(g) \/ Handle(g) \/ Report(g)
           \/ OtherMessage(g)
    PROVE  /\ thread'[g].at \in {"pumping", "handling", "leaving"}
           /\ \A h \in Guards : h # g => thread'[h].at = thread[h].at
<1>s. \A at : Moves(g, at) =>
         thread'[g].at = at /\ \A h \in Guards : h # g => thread'[h].at = thread[h].at
  BY StageSet
<1>1. CASE TakeMessage(g) \/ Report(g) \/ OtherMessage(g)
  BY <1>1, <1>s, StageSet DEF TakeMessage, Report, OtherMessage
<1>2. CASE IdleTimer(g) \/ DeadlineTimer(g)
  <2>1. \A m, i : thread' = [Takes(g, m) EXCEPT ![g].idle = i] =>
           thread'[g].at = "handling" /\ \A h \in Guards : h # g => thread'[h].at = thread[h].at
    BY DEF ThreadsTyped, Thread, Takes
  <2>2. \A m, d : thread' = [Takes(g, m) EXCEPT ![g].deadline = d] =>
           thread'[g].at = "handling" /\ \A h \in Guards : h # g => thread'[h].at = thread[h].at
    BY DEF ThreadsTyped, Thread, Takes
  <2> QED BY <1>2, <2>1, <2>2, <1>s DEF IdleTimer, DeadlineTimer
<1>3. CASE Handle(g)
  <2>1. \A i, d : Pumps(g, i, d) =>
           thread'[g].at = "pumping" /\ \A h \in Guards : h # g => thread'[h].at = thread[h].at
    BY DEF ThreadsTyped, Thread, Pumps
  <2>2. \A d : thread' = [thread EXCEPT ![g] = [@ EXCEPT !.at = "pumping", !.message = NoMessage,
                                                        !.deadline = d]] =>
           thread'[g].at = "pumping" /\ \A h \in Guards : h # g => thread'[h].at = thread[h].at
    BY DEF ThreadsTyped, Thread
  <2>3. \A m : thread' = Takes(g, m) =>
           thread'[g].at = "handling" /\ \A h \in Guards : h # g => thread'[h].at = thread[h].at
    BY StageSet
  <2> QED BY <1>3, <2>1, <2>2, <2>3, <1>s
      DEF Handle, HandleIdle, HandleDeadlineRequest, HandleIdleTimer, HandleActiveDeadline,
      ExpireActive, HandleDrainDeadline, HandleLostTimer, OpensAndLeaves, Keeps
<1> QED BY <1>1, <1>2, <1>3

LEMMA CallerOwnership ==
    ASSUME Types, Ownership, NEW g \in Guards, CallBegins(g) \/ CallStep(g)
    PROVE  Ownership'
<1> USE DEF control, packed
<1>0. ThreadsTyped /\ NoThread.at = "none"
  BY DEF Types, NoThread
<1>a. thread' = Reaped(g) => \A h \in Guards : \/ thread'[h].at = thread[h].at
                                               \/ thread'[h].at = "none"
  BY <1>0 DEF Reaped, ThreadsTyped
<1>b. thread' = thread => \A h \in Guards : thread'[h].at = thread[h].at
  OBVIOUS
<1>1. CASE Claim(g) /\ thread' # thread
  <2>1. /\ owner = NoOne /\ owner' = g /\ UNCHANGED hooks
        /\ thread' = [thread EXCEPT ![g] = [NoThread EXCEPT !.at = "started"]]
    BY <1>1 DEF Claim
  <2>2. [NoThread EXCEPT !.at = "started"] \in Thread /\ [NoThread EXCEPT !.at = "started"].at = "started"
    BY ConstantTypes, ThreadTypes DEF Stages, NoThread
  <2>3. thread'[g].at = "started" /\ \A h \in Guards : h # g => thread'[h].at = thread[h].at
    BY <1>0, <2>1, <2>2, StageSet
  <2>4. \A h \in Guards : thread[h].at \in {"none", "finished"}
    BY <2>1, ConstantTypes DEF Ownership, OneOwner
  <2>5. hooks' = 0 /\ owner' # NoOne
    BY <2>1, ConstantTypes DEF Ownership, HookCount
  <2> QED BY <2>1, <2>3, <2>4, <2>5 DEF Ownership, OneOwner, HookCount, Hooked
<1>2. CASE Claim(g) /\ thread' = thread /\ owner # NoOne
  BY <1>2, <1>b, OwnershipKept DEF Claim
<1>3. CASE Claim(g) /\ thread' = thread /\ owner = NoOne
  <2>1. \A h \in Guards : thread'[h].at \in {"none", "finished"}
    BY <1>3, ConstantTypes DEF Ownership, OneOwner
  <2>2. hooks = 0 /\ UNCHANGED hooks
    BY <1>3 DEF Claim, Ownership, HookCount
  <2> QED BY <2>1, <2>2 DEF Ownership, OneOwner, HookCount, Hooked
<1>4. CASE ~Claim(g)
  <2>1. thread' = thread \/ thread' = Reaped(g)
    BY <1>4 DEF CallBegins, CallStep, Prepare, ReleaseBegins, Stop, Ready, ArmLocks, Arm, Release,
       Post, ForceOpen, Ask, Wake, Reap
  <2>2. UNCHANGED <<owner, hooks, handle>>
    BY <1>4 DEF CallBegins, CallStep, Prepare, ReleaseBegins, Stop, Ready, ArmLocks, Arm, Release,
       Post, ForceOpen, Ask, Wake, Reap
  <2> QED BY <1>a, <1>b, <2>1, <2>2, OwnershipKept
<1> QED BY <1>1, <1>2, <1>3, <1>4

LEMMA ThreadOwnership ==
    ASSUME Types, Ownership, NEW g \in Guards, ThreadStep(g) \/ OtherMessage(g)
    PROVE  Ownership'
<1> USE DEF control, packed
<1>0. ThreadsTyped
  BY DEF Types
<1>s. \A at : Moves(g, at) =>
         thread'[g].at = at /\ \A h \in Guards : h # g => thread'[h].at = thread[h].at
  BY <1>0, StageSet
<1>1. CASE Publish(g)
  <2>1. thread[g].at = "started" /\ thread'[g].at = "published" /\ UNCHANGED <<owner, hooks, handle>>
        /\ \A h \in Guards : h # g => thread'[h].at = thread[h].at
    BY <1>1, <1>s DEF Publish
  <2> QED BY <2>1, OwnershipKept
<1>2. CASE InstallHook(g)
  <2>1. \A at, r : thread' = [thread EXCEPT ![g].at = at, ![g].ready = r] =>
           thread'[g].at = at /\ \A h \in Guards : h # g => thread'[h].at = thread[h].at
    BY <1>0 DEF ThreadsTyped, Thread
  <2>2. thread[g].at = "published" /\ UNCHANGED owner
    BY <1>2 DEF InstallHook
  <2>3. owner = g /\ hooks = 0 /\ \A h \in Guards : h # g => thread[h].at \in {"none", "finished"}
    BY <2>2 DEF Ownership, OneOwner, HookCount
  <2>4. CASE hooks' = hooks + 1 /\ handle' = TRUE /\ thread' = [thread EXCEPT ![g].at = "hooked", ![g].ready = "ok"]
    <3>1. hooks' = 1
      BY <2>3, <2>4
    <3>2. thread'[g].at = "hooked" /\ \A h \in Guards : h # g => thread'[h].at \in {"none", "finished"}
      BY <2>1, <2>3, <2>4
    <3>3. handle' /\ owner' = g
      BY Zenon, <2>2, <2>3, <2>4
    <3>4. OneOwner'
      BY <3>2, <3>3 DEF OneOwner
    <3>5. HookCount'
      BY <3>1, <3>2, <3>3, ConstantTypes DEF HookCount
    <3> QED BY <3>4, <3>5 DEF Ownership
  <2>5. CASE UNCHANGED hooks /\ thread' = [thread EXCEPT ![g].at = "dropping", ![g].ready = "error"]
    <3>1. thread'[g].at = "dropping" /\ \A h \in Guards : h # g => thread'[h].at \in {"none", "finished"}
      BY <2>1, <2>3, <2>5
    <3>2. OneOwner'
      BY <3>1, <2>2, <2>3 DEF OneOwner
    <3>3. HookCount'
      BY <3>1, <2>3, <2>5 DEF HookCount, Hooked
    <3> QED BY <3>2, <3>3 DEF Ownership
  <2> QED BY <1>2, <2>4, <2>5 DEF InstallHook
<1>3. CASE Unhook(g)
  <2>1. thread[g].at = "unhooking" /\ UNCHANGED owner
    BY <1>3 DEF Unhook
  <2>2. owner = g /\ hooks = 1 /\ \A h \in Guards : h # g => thread[h].at \in {"none", "finished"}
    BY <2>1 DEF Ownership, OneOwner, HookCount, Hooked
  <2>3. CASE hooks' = hooks - 1 /\ Moves(g, "dropping")
    <3>1. hooks' = 0
      BY <2>2, <2>3
    <3>2. thread'[g].at = "dropping" /\ \A h \in Guards : h # g => thread'[h].at \in {"none", "finished"}
      BY <1>s, <2>2, <2>3
    <3>3. OneOwner'
      BY <3>2, <2>1, <2>2 DEF OneOwner
    <3>4. HookCount'
      BY <3>1, <3>2 DEF HookCount, Hooked
    <3> QED BY <3>3, <3>4 DEF Ownership
  <2>4. CASE UNCHANGED hooks /\ Moves(g, "finished")
    <3>1. \A h \in Guards : thread'[h].at \in {"none", "finished"}
      BY <1>s, <2>2, <2>4
    <3>2. owner' # NoOne /\ hooks' = 1
      BY <2>1, <2>2, <2>4, ConstantTypes
    <3> QED BY <3>1, <3>2 DEF Ownership, OneOwner, HookCount, Hooked
  <2> QED BY <1>3, <2>3, <2>4 DEF Unhook
<1>4. CASE DropOwnership(g)
  <2>1. thread[g].at = "dropping" /\ UNCHANGED hooks /\ Moves(g, "finished")
    BY <1>4 DEF DropOwnership
  <2>2. hooks = 0 /\ \A h \in Guards : h # g => thread[h].at \in {"none", "finished"}
    BY <2>1 DEF Ownership, OneOwner, HookCount
  <2>3. \A h \in Guards : thread'[h].at \in {"none", "finished"}
    BY <1>s, <2>1, <2>2
  <2> QED BY <2>1, <2>2, <2>3 DEF Ownership, OneOwner, HookCount, Hooked
<1>5. CASE ~Publish(g) /\ ~InstallHook(g) /\ ~Unhook(g) /\ ~DropOwnership(g)
  <2>1. UNCHANGED <<owner, hooks, handle>> /\ thread[g].at \in Hooked
    BY <1>5 DEF ThreadStep, OtherMessage, EnterLoop, TakeMessage, IdleTimer, DeadlineTimer, Handle, Report,
       Leave, Hooked
  <2>2. thread'[g].at \in Hooked /\ \A h \in Guards : h # g => thread'[h].at = thread[h].at
    <3>1. CASE EnterLoop(g)
      BY <3>1, <1>s DEF EnterLoop, Hooked
    <3>2. CASE \/ TakeMessage(g) \/ IdleTimer(g) \/ DeadlineTimer(g) \/ Handle(g) \/ Report(g)
               \/ OtherMessage(g)
      BY <3>2, <1>0, WorkingStages DEF Hooked
    <3>3. CASE Leave(g)
      <4>1. [NoThread EXCEPT !.at = "unhooking", !.ready = thread[g].ready].at = "unhooking"
        BY DEF NoThread
      <4> QED BY <3>3, <4>1, <1>0 DEF Leave, ThreadsTyped, Hooked
    <3> QED BY <1>5, <3>1, <3>2, <3>3 DEF ThreadStep
  <2> QED BY <2>1, <2>2, OwnershipKept
<1> QED BY <1>1, <1>2, <1>3, <1>4, <1>5

LEMMA StepOwnership ==
    ASSUME Types, Ownership, [Next]_vars
    PROVE  Ownership'
<1>0. ThreadsTyped
  BY DEF Types
<1>1. CASE UNCHANGED vars
  BY <1>1, OwnershipKept DEF vars, control
<1>2. ASSUME NEW b \in Buttons, Input(b) PROVE Ownership'
  <2>1. UNCHANGED <<owner, hooks, handle>>
    BY <1>2 DEF Input, InputUnhooked, InputUnseen, Callback, control
  <2>2. \A h \in Guards : \/ thread'[h].at = thread[h].at
                          \/ thread[h].at \in Hooked /\ thread'[h].at \in Hooked
    <3>1. CASE UNCHANGED thread
      BY <3>1
    <3>2. ASSUME NEW g \in Guards, Callback(g, b), Moves(g, "reporting")
          PROVE  \A h \in Guards : \/ thread'[h].at = thread[h].at
                                   \/ thread[h].at \in Hooked /\ thread'[h].at \in Hooked
      <4>1. thread[g].at \in Hooked
        BY <3>2 DEF Callback, Hooked
      <4>2. thread'[g].at = "reporting" /\ \A h \in Guards : h # g => thread'[h].at = thread[h].at
        BY <1>0, <3>2, StageSet
      <4> QED BY <4>1, <4>2 DEF Hooked
    <3>3. ASSUME NEW g \in Guards, Callback(g, b) PROVE thread' = thread \/ Moves(g, "reporting")
      BY <3>3 DEF Callback
    <3>4. InputUnhooked(b) \/ InputUnseen(b) => thread' = thread
      BY DEF InputUnhooked, InputUnseen
    <3> QED BY <1>2, <3>1, <3>2, <3>3, <3>4 DEF Input
  <2> QED BY <2>1, <2>2, OwnershipKept
<1>3. CASE Tick
  <2>1. \A h \in Guards : thread'[h].at = thread[h].at
    BY <1>0, <1>3 DEF Tick, ThreadsTyped, Thread
  <2> QED BY <1>3, <2>1, OwnershipKept DEF Tick, control
<1> QED BY <1>1, <1>2, <1>3, CallerOwnership, ThreadOwnership DEF Next

-----------------------------------------------------------------------------
(* What happens to a press.  Buttons are swallowed only while a thread is  *)
(* between its loop and its end; and as long as Windows passed at most one *)
(* input by, nothing the game holds is among what is swallowed.            *)

Swallowing == {"pumping", "handling", "reporting", "leaving"}

Clicks ==
    /\ suppressed # {} => \E g \in Guards : thread[g].at \in Swallowing
    /\ unseen <= 1 => game \subseteq hand /\ game \cap suppressed = {}
    /\ unseen = 0 => suppressed \subseteq hand

\* A step that moves no button and swallows no new one.
LEMMA ClicksKept ==
    ASSUME Clicks, UNCHANGED user, suppressed' \subseteq suppressed,
           suppressed' # {} => \A g \in Guards : thread[g].at \in Swallowing => thread'[g].at \in Swallowing
    PROVE  Clicks'
BY DEF Clicks, user

LEMMA CallerClicks ==
    ASSUME Types, Ownership, Clicks, NEW g \in Guards, CallBegins(g) \/ CallStep(g)
    PROVE  Clicks'
<1> USE DEF control, packed
<1>0. ThreadsTyped /\ NoThread.at = "none"
  BY DEF Types, NoThread
<1>1. UNCHANGED user /\ suppressed' \subseteq suppressed
  BY DEF CallBegins, CallStep, Prepare, ReleaseBegins, Stop, Claim, Ready, ArmLocks, Arm, Release,
     Post, ForceOpen, Ask, Wake, Reap, StateArm, StateRelease, ForceRelease
<1>2. \/ UNCHANGED thread \/ thread' = Reaped(g)
      \/ owner = NoOne /\ thread' = [thread EXCEPT ![g] = [NoThread EXCEPT !.at = "started"]]
  BY DEF CallBegins, CallStep, Prepare, ReleaseBegins, Stop, Claim, Ready, ArmLocks, Arm, Release,
     Post, ForceOpen, Ask, Wake, Reap
<1>3. thread' = Reaped(g) => \A h \in Guards : thread[h].at \in Swallowing => thread'[h] = thread[h]
  BY <1>0 DEF Reaped, ThreadsTyped, Swallowing
<1>4. owner = NoOne => \A h \in Guards : thread[h].at \notin Swallowing
  BY ConstantTypes DEF Ownership, OneOwner, Swallowing
<1> QED BY <1>1, <1>2, <1>3, <1>4, ClicksKept

LEMMA ThreadClicks ==
    ASSUME Types, Clicks, NEW g \in Guards, ThreadStep(g) \/ OtherMessage(g)
    PROVE  Clicks'
<1> USE DEF control, packed
<1>0. ThreadsTyped
  BY DEF Types
<1>s. \A at : Moves(g, at) =>
         thread'[g].at = at /\ \A h \in Guards : h # g => thread'[h].at = thread[h].at
  BY <1>0, StageSet
<1>1. CASE Publish(g) \/ Leave(g) \/ DropOwnership(g)
  <2>1. UNCHANGED user /\ (suppressed' = {} \/ (DropOwnership(g) /\ suppressed' = suppressed))
    <3>1. Publish(g) => UNCHANGED user /\ suppressed' = {}
      BY DEF Publish, InitializeReleased
    <3>2. Leave(g) => UNCHANGED user /\ suppressed' = {}
      BY DEF Leave, ForceRelease
    <3>3. DropOwnership(g) => UNCHANGED user /\ (suppressed' = {} \/ suppressed' = suppressed)
      BY DEF DropOwnership, ForceRelease
    <3> QED BY <1>1, <3>1, <3>2, <3>3
  <2>2. DropOwnership(g) => \A h \in Guards : thread[h].at \in Swallowing => thread'[h].at = thread[h].at
    BY <1>s DEF DropOwnership, Swallowing
  <2> QED BY <2>1, <2>2, ClicksKept
<1>2. CASE InstallHook(g)
  <2>1. \A at, r : thread' = [thread EXCEPT ![g].at = at, ![g].ready = r] =>
           \A h \in Guards : h # g => thread'[h].at = thread[h].at
    BY <1>0 DEF ThreadsTyped, Thread
  <2>2. thread[g].at \notin Swallowing /\ \A h \in Guards : h # g => thread'[h].at = thread[h].at
    BY <1>2, <2>1 DEF InstallHook, Swallowing
  <2>3. UNCHANGED <<user, suppressed>>
    BY <1>2 DEF InstallHook
  <2> QED BY <2>2, <2>3, ClicksKept
<1>3. CASE EnterLoop(g) \/ Unhook(g)
  <2>1. thread[g].at \notin Swallowing /\ \A h \in Guards : h # g => thread'[h].at = thread[h].at
    BY <1>3, <1>s DEF EnterLoop, Unhook, Swallowing
  <2>2. UNCHANGED <<user, suppressed>>
    BY <1>3 DEF EnterLoop, Unhook
  <2> QED BY <2>1, <2>2, ClicksKept
<1>4. CASE TakeMessage(g) \/ IdleTimer(g) \/ DeadlineTimer(g) \/ Handle(g) \/ Report(g) \/ OtherMessage(g)
  <2>1. UNCHANGED user /\ suppressed' \subseteq suppressed
    <3>1. CASE Handle(g)
      BY <3>1 DEF Handle, HandleIdle, HandleDeadlineRequest, HandleIdleTimer, HandleActiveDeadline,
         ExpireActive, HandleDrainDeadline, HandleLostTimer, OpensAndLeaves, Keeps, Pumps,
         ForceRelease, StateRelease
    <3> QED BY <1>4, <3>1 DEF TakeMessage, IdleTimer, DeadlineTimer, Report, OtherMessage
  <2>2. thread'[g].at \in Swallowing /\ \A h \in Guards : h # g => thread'[h].at = thread[h].at
    BY <1>0, <1>4, WorkingStages DEF Swallowing
  <2> QED BY <2>1, <2>2, ClicksKept
<1> QED BY <1>1, <1>2, <1>3, <1>4 DEF ThreadStep

LEMMA InputClicks ==
    ASSUME Types, Ownership, Clicks, NEW b \in Buttons, Input(b)
    PROVE  Clicks'
<1> USE DEF control, packed, Moved, Passes
<1>1. CASE InputUnhooked(b)
  <2>1. suppressed = {}
    BY <1>1 DEF InputUnhooked, Clicks, Hooked, Swallowing
  <2>2. UNCHANGED <<suppressed, unseen, thread>>
    BY <1>1 DEF InputUnhooked
  <2> QED BY <1>1, <2>1, <2>2 DEF InputUnhooked, Clicks
<1>2. CASE InputUnseen(b)
  <2>1. unseen \in Nat /\ unseen' = unseen + 1 /\ UNCHANGED <<suppressed, thread>>
    BY <1>2 DEF InputUnseen, Types, CountsTyped
  <2>2. unseen' <= 1 => unseen = 0
    BY <2>1
  <2>3. unseen' # 0
    BY <2>1
  <2>4. unseen = 0 => game' \subseteq hand' /\ game' \cap suppressed = {}
    BY <1>2 DEF InputUnseen, Clicks
  <2> QED BY <2>1, <2>2, <2>3, <2>4 DEF Clicks
<1>3. ASSUME NEW g \in Guards, Callback(g, b) PROVE Clicks'
  <2>1. thread[g].at = "pumping" /\ handle /\ owner # NoOne /\ UNCHANGED unseen
    BY <1>3, ConstantTypes DEF Callback, Ownership, OneOwner, HookCount, Hooked
  <2>2. thread'[g].at \in Swallowing
    <3>1. Moves(g, "reporting") => thread'[g].at = "reporting"
      BY StageSet DEF Types
    <3> QED BY <1>3, <3>1, <2>1 DEF Callback, Swallowing
  <2>3. unseen <= 1 => game' \subseteq hand' /\ game' \cap suppressed' = {}
    BY <1>3, <2>1 DEF Callback, Clicks, ProcessUp, ProcessDown, UpIsSwallowed, DownIsSwallowed
  <2>4. unseen = 0 => suppressed' \subseteq hand'
    BY <1>3, <2>1 DEF Callback, Clicks, ProcessUp, ProcessDown, UpIsSwallowed, DownIsSwallowed
  <2> QED BY <2>1, <2>2, <2>3, <2>4 DEF Clicks
<1> QED BY <1>1, <1>2, <1>3 DEF Input

LEMMA StepClicks ==
    ASSUME Types, Ownership, Clicks, [Next]_vars
    PROVE  Clicks'
<1>0. ThreadsTyped
  BY DEF Types
<1>1. CASE UNCHANGED vars
  BY <1>1, ClicksKept DEF vars, packed
<1>2. CASE Tick
  <2>1. \A h \in Guards : thread'[h].at = thread[h].at
    BY <1>0, <1>2 DEF Tick, ThreadsTyped, Thread
  <2> QED BY <1>2, <2>1, ClicksKept DEF Tick, packed
<1> QED BY <1>1, <1>2, CallerClicks, ThreadClicks, InputClicks DEF Next

-----------------------------------------------------------------------------
(* What a deadline knows.  It carries the generation it was set for, and   *)
(* one that is over was set before the last 750 ms began, so that one of   *)
(* the present generation finds the arm no longer young.                   *)

Timed(t, n, fresh, slips) ==
    /\ t.deadline.generation <= n
    /\ t.deadline.due /\ t.deadline.generation = n => ~fresh
    /\ t.at = "handling" /\ t.message.kind = "active_due" =>
          t.message.generation <= n /\ (t.message.generation = n => ~fresh)
    /\ t.at = "handling" /\ t.message.kind = "timer_lost" => slips > 0

Timers == \A g \in Guards : Timed(thread[g], generation, young, mishaps)

LEMMA DeadlineFields ==
    ASSUME NEW t \in Thread
    PROVE  /\ t.message.generation \in Nat /\ t.deadline.generation \in Nat
           /\ t.deadline # NoDeadline => t.deadline.kind \in {"active_due", "drain_due"}
<1>1. t.message \in Message /\ t.deadline \in Deadline
  BY ThreadFields
<1>2. t.message.generation \in Nat
  BY <1>1 DEF Message
<1>3. t.deadline.generation \in Nat /\ (t.deadline # NoDeadline => t.deadline.kind \in {"active_due", "drain_due"})
  <2>1. CASE t.deadline = NoDeadline
    BY <2>1 DEF NoDeadline
  <2>2. CASE t.deadline \in [kind : {"active_due", "drain_due"}, generation : Nat, due : BOOLEAN]
    BY <2>2
  <2> QED BY <1>1, <2>1, <2>2 DEF Deadline
<1> QED BY <1>2, <1>3

\* A new generation leaves every deadline behind; otherwise only an arm makes
\* the time young, and mishaps only grow.
LEMMA TimedLater ==
    ASSUME NEW t \in Thread, NEW n \in Nat, NEW fresh, NEW slips \in Nat,
           Timed(t, n, fresh, slips)
    PROVE  /\ \A any : Timed(t, n + 1, any, slips) /\ Timed(t, n + 1, any, slips + 1)
           /\ Timed(t, n, fresh, slips + 1)
BY DeadlineFields DEF Timed

LEMMA NoThreadTimed ==
    ASSUME NEW n \in Nat, NEW fresh, NEW slips
    PROVE  /\ Timed(NoThread, n, fresh, slips)
           /\ Timed([NoThread EXCEPT !.at = "started"], n, fresh, slips)
           /\ \A r : Timed([NoThread EXCEPT !.at = "unhooking", !.ready = r], n, fresh, slips)
BY DEF NoThread, NoDeadline, NoMessage, Timed

\* The thread of g is in a new place, not handling.
LEMMA TimedMoves ==
    ASSUME NEW t \in Thread, NEW n, NEW fresh, NEW slips, Timed(t, n, fresh, slips),
           NEW at \in Stages \ {"handling"}
    PROVE  /\ Timed([t EXCEPT !.at = at], n, fresh, slips)
           /\ \A r : Timed([[t EXCEPT !.at = at] EXCEPT !.ready = r], n, fresh, slips)
           /\ \A m : Timed([[t EXCEPT !.at = at] EXCEPT !.message = m], n, fresh, slips)
<1>1. t = [at |-> t.at, ready |-> t.ready, message |-> t.message, idle |-> t.idle, deadline |-> t.deadline]
  BY DEF Thread
<1> QED BY <1>1 DEF Timed

\* The thread of g takes a message, or goes back to its pump.
LEMMA TimedWorks ==
    ASSUME NEW t \in Thread, NEW n \in Nat, NEW fresh, NEW slips, Timed(t, n, fresh, slips)
    PROVE  /\ \A m \in Message :
                \/ m.kind \notin {"active_due", "timer_lost"}
                \/ /\ m.kind = "active_due"
                   /\ m.generation <= n /\ (m.generation = n => ~fresh)
                \/ m.kind = "timer_lost" /\ slips > 0
                => /\ Timed([[t EXCEPT !.at = "handling"] EXCEPT !.message = m], n, fresh, slips)
                   /\ \A i : Timed([[[t EXCEPT !.at = "handling"] EXCEPT !.message = m]
                                      EXCEPT !.idle = i], n, fresh, slips)
                   /\ Timed([[[t EXCEPT !.at = "handling"] EXCEPT !.message = m]
                                      EXCEPT !.deadline = NoDeadline], n, fresh, slips)
           /\ \A m, i, d : d.generation <= n /\ (d.due /\ d.generation = n => ~fresh)
                => /\ Timed([t EXCEPT !.at = "pumping", !.message = m, !.idle = i, !.deadline = d],
                            n, fresh, slips)
                   /\ Timed([t EXCEPT !.at = "pumping", !.message = m, !.deadline = d], n, fresh, slips)
<1>1. t = [at |-> t.at, ready |-> t.ready, message |-> t.message, idle |-> t.idle, deadline |-> t.deadline]
  BY DEF Thread
<1>2. ASSUME NEW m \in Message,
             \/ m.kind \notin {"active_due", "timer_lost"}
             \/ /\ m.kind = "active_due"
                /\ m.generation <= n /\ (m.generation = n => ~fresh)
             \/ m.kind = "timer_lost" /\ slips > 0
      PROVE  /\ Timed([[t EXCEPT !.at = "handling"] EXCEPT !.message = m], n, fresh, slips)
             /\ \A i : Timed([[[t EXCEPT !.at = "handling"] EXCEPT !.message = m]
                                EXCEPT !.idle = i], n, fresh, slips)
             /\ Timed([[[t EXCEPT !.at = "handling"] EXCEPT !.message = m]
                                EXCEPT !.deadline = NoDeadline], n, fresh, slips)
  BY <1>1, <1>2 DEF Timed, NoDeadline
<1>3. ASSUME NEW m, NEW i, NEW d, d.generation <= n, d.due /\ d.generation = n => ~fresh
      PROVE  /\ Timed([t EXCEPT !.at = "pumping", !.message = m, !.idle = i, !.deadline = d],
                      n, fresh, slips)
             /\ Timed([t EXCEPT !.at = "pumping", !.message = m, !.deadline = d], n, fresh, slips)
  BY <1>1, <1>3 DEF Timed
<1> QED BY <1>2, <1>3

\* One thread changes, and time and generation go as they may.
LEMMA TimersKept ==
    ASSUME Types, Timers, NEW g \in Guards, Timed(thread'[g], generation', young', mishaps'),
           \A h \in Guards : h # g => thread'[h] = thread[h],
           generation' = generation + 1 \/ UNCHANGED <<generation, young>>,
           Mishap \/ UNCHANGED mishaps
    PROVE  Timers'
<1>1. /\ generation \in Nat /\ mishaps \in Nat /\ \A h \in Guards : thread[h] \in Thread
      /\ mishaps' \in {mishaps, mishaps + 1}
  BY DEF Types, SharedTyped, CountsTyped, ThreadsTyped, Mishap
<1>2. ASSUME NEW h \in Guards, h # g PROVE Timed(thread'[h], generation', young', mishaps')
  <2>1. Timed(thread[h], generation, young, mishaps)
    BY DEF Timers
  <2>2. /\ Timed(thread[h], generation + 1, young', mishaps)
        /\ Timed(thread[h], generation + 1, young', mishaps + 1)
        /\ Timed(thread[h], generation, young, mishaps + 1)
    BY <1>1, <2>1, TimedLater
  <2> QED BY <1>1, <1>2, <2>1, <2>2
<1> QED BY <1>2 DEF Timers

LEMMA CallerTimers ==
    ASSUME Types, Timers, NEW g \in Guards, CallBegins(g) \/ CallStep(g)
    PROVE  Timers'
<1> USE DEF control
<1>0. ThreadsTyped /\ generation \in Nat /\ mishaps \in Nat /\ thread[g] \in Thread
      /\ Timed(thread[g], generation, young, mishaps)
  BY DEF Types, ThreadsTyped, SharedTyped, CountsTyped, Timers
<1>1. /\ generation' = generation + 1 \/ UNCHANGED <<generation, young>>
      /\ Mishap \/ UNCHANGED mishaps
  BY DEF CallBegins, CallStep, Prepare, ReleaseBegins, Stop, Claim, Ready, ArmLocks, Arm, Release,
     Post, ForceOpen, Ask, Wake, Reap, Posted
<1>2. \/ UNCHANGED thread \/ thread' = Reaped(g)
      \/ thread' = [thread EXCEPT ![g] = [NoThread EXCEPT !.at = "started"]]
  BY DEF CallBegins, CallStep, Prepare, ReleaseBegins, Stop, Claim, Ready, ArmLocks, Arm, Release,
     Post, ForceOpen, Ask, Wake, Reap
<1>3. /\ thread'[g] \in {thread[g], NoThread, [NoThread EXCEPT !.at = "started"]}
      /\ \A h \in Guards : h # g => thread'[h] = thread[h]
  BY <1>0, <1>2 DEF Reaped, ThreadsTyped
<1>4. generation' \in Nat /\ mishaps' \in {mishaps, mishaps + 1}
  BY <1>0, <1>1 DEF Mishap
<1>5. Timed(thread[g], generation', young', mishaps')
  <2>1. /\ Timed(thread[g], generation + 1, young', mishaps)
        /\ Timed(thread[g], generation + 1, young', mishaps + 1)
        /\ Timed(thread[g], generation, young, mishaps + 1)
    BY <1>0, TimedLater
  <2> QED BY <1>0, <1>1, <1>4, <2>1
<1>6. /\ Timed(NoThread, generation', young', mishaps')
      /\ Timed([NoThread EXCEPT !.at = "started"], generation', young', mishaps')
  BY <1>4, NoThreadTimed
<1>7. Timed(thread'[g], generation', young', mishaps')
  BY <1>3, <1>5, <1>6
<1> QED BY <1>1, <1>3, <1>7, TimersKept

LEMMA ThreadStepTimers ==
    ASSUME Types, Timers, NEW g \in Guards, ThreadStep(g) \/ OtherMessage(g)
    PROVE  Timers'
<1> USE DEF control
<1> DEFINE t == thread[g]
           Fine(r) == Timed(r, generation, young, mishaps')
<1>0. ThreadsTyped /\ generation \in Nat /\ mishaps \in Nat /\ t \in Thread
      /\ Timed(t, generation, young, mishaps)
  BY DEF Types, ThreadsTyped, SharedTyped, CountsTyped, Timers
<1>1. UNCHANGED <<generation, young>> /\ (Mishap \/ UNCHANGED mishaps)
  <2>1. CASE Handle(g)
    BY <2>1 DEF Handle, HandleIdle, HandleDeadlineRequest, HandleIdleTimer, HandleActiveDeadline,
       ExpireActive, HandleDrainDeadline, HandleLostTimer
  <2> QED BY <2>1 DEF ThreadStep, Publish, InstallHook, EnterLoop, TakeMessage, IdleTimer,
       DeadlineTimer, Report, Leave, Unhook, DropOwnership, OtherMessage, Posted
<1>2. mishaps' \in Nat /\ mishaps' \in {mishaps, mishaps + 1}
  BY <1>0, <1>1 DEF Mishap
<1>3. Fine(t)
  BY <1>0, <1>2, TimedLater
<1>4. SUFFICES Fine(thread'[g]) /\ \A h \in Guards : h # g => thread'[h] = thread[h]
  BY <1>1, <1>4, TimersKept
<1>5. ASSUME NEW at \in Stages \ {"handling"}, Moves(g, at)
      PROVE  Fine(thread'[g]) /\ \A h \in Guards : h # g => thread'[h] = thread[h]
  <2>1. thread'[g] = [t EXCEPT !.at = at] /\ \A h \in Guards : h # g => thread'[h] = thread[h]
    BY <1>0, <1>5 DEF Moves, ThreadsTyped
  <2>2. Timed([t EXCEPT !.at = at], generation, young, mishaps')
    BY <1>0, <1>3, TimedMoves
  <2> QED BY <2>1, <2>2
<1>6. CASE Publish(g) \/ EnterLoop(g) \/ Report(g) \/ Unhook(g) \/ DropOwnership(g) \/ OtherMessage(g)
  BY <1>5, <1>6 DEF Publish, EnterLoop, Report, Unhook, DropOwnership, OtherMessage, Stages
<1>7. CASE InstallHook(g)
  <2>1. ASSUME NEW at \in {"hooked", "dropping"}, NEW r, thread' = [thread EXCEPT ![g].at = at, ![g].ready = r]
        PROVE  Fine(thread'[g]) /\ \A h \in Guards : h # g => thread'[h] = thread[h]
    <3>1. thread'[g] = [[t EXCEPT !.at = at] EXCEPT !.ready = r] /\ \A h \in Guards : h # g => thread'[h] = thread[h]
      BY <1>0, <2>1 DEF ThreadsTyped
    <3>2. at \in Stages \ {"handling"}
      BY DEF Stages
    <3>3. Timed([[t EXCEPT !.at = at] EXCEPT !.ready = r], generation, young, mishaps')
      BY <1>0, <1>3, <3>2, TimedMoves
    <3> QED BY <3>1, <3>3
  <2> QED BY <1>7, <2>1 DEF InstallHook
<1>8. CASE Leave(g)
  <2>1. thread'[g] = [NoThread EXCEPT !.at = "unhooking", !.ready = t.ready]
        /\ \A h \in Guards : h # g => thread'[h] = thread[h]
    BY <1>0, <1>8 DEF Leave, ThreadsTyped
  <2>2. Timed([NoThread EXCEPT !.at = "unhooking", !.ready = t.ready], generation, young, mishaps')
    BY <1>0, NoThreadTimed
  <2> QED BY <2>1, <2>2
<1>t. \A m : thread' = Takes(g, m) =>
         /\ thread'[g] = [[t EXCEPT !.at = "handling"] EXCEPT !.message = m]
         /\ \A h \in Guards : h # g => thread'[h] = thread[h]
  BY <1>0 DEF Takes, ThreadsTyped
<1>9. CASE TakeMessage(g)
  <2>1. queue[g] \in Seq(Command) /\ queue[g] # <<>>
    BY <1>9 DEF TakeMessage, Types, QueuesTyped
  <2>2. Head(queue[g]) \in Command
    BY <2>1
  <2>3. Head(queue[g]) \in Message /\ Head(queue[g]).kind \notin {"active_due", "timer_lost"}
    BY <2>2, ConstantTypes DEF Command, Commands
  <2>4. Fine([[t EXCEPT !.at = "handling"] EXCEPT !.message = Head(queue[g])])
    BY <1>0, <1>2, <1>3, <2>3, TimedWorks
  <2> QED BY <1>5, <1>9, <1>t, <2>4 DEF TakeMessage, Stages
<1>10. CASE IdleTimer(g)
  <2> DEFINE m == [kind |-> "idle_timer", generation |-> t.idle]
  <2>1. m \in Message /\ m.kind = "idle_timer"
    BY <1>0, ThreadFields DEF Message, Kinds, Commands
  <2> HIDE DEF m
  <2>2. Fine([[[t EXCEPT !.at = "handling"] EXCEPT !.message = m] EXCEPT !.idle = 0])
    BY <1>0, <1>2, <1>3, <2>1, TimedWorks
  <2>3. thread' = [Takes(g, m) EXCEPT ![g].idle = 0] =>
           /\ thread'[g] = [[[t EXCEPT !.at = "handling"] EXCEPT !.message = m] EXCEPT !.idle = 0]
           /\ \A h \in Guards : h # g => thread'[h] = thread[h]
    BY <1>0 DEF Takes, ThreadsTyped
  <2>4. thread' = [Takes(g, m) EXCEPT ![g].idle = 0] \/ Moves(g, "leaving")
    BY <1>10 DEF IdleTimer, m
  <2> QED BY <1>5, <2>2, <2>3, <2>4 DEF Stages
<1>11. CASE DeadlineTimer(g)
  <2> DEFINE d == t.deadline
             lost == [kind |-> "timer_lost", generation |-> d.generation]
             over == [kind |-> d.kind, generation |-> d.generation]
             After(m) == [[[t EXCEPT !.at = "handling"] EXCEPT !.message = m] EXCEPT !.deadline = NoDeadline]
  <2>1. d.generation \in Nat /\ d.kind \in {"active_due", "drain_due"}
    BY <1>0, <1>11, DeadlineFields DEF DeadlineTimer
  <2>2. lost \in Message /\ over \in Message
    BY <2>1 DEF Message, Kinds, Commands
  <2>3. /\ lost.kind = "timer_lost" /\ over.kind = d.kind /\ over.generation = d.generation
    OBVIOUS
  <2>4. \A m : thread' = [Takes(g, m) EXCEPT ![g].deadline = NoDeadline] =>
           thread'[g] = After(m) /\ \A h \in Guards : h # g => thread'[h] = thread[h]
    BY <1>0 DEF Takes, ThreadsTyped
  <2>5. CASE d.due /\ thread' = [Takes(g, over) EXCEPT ![g].deadline = NoDeadline]
    <3>1. d.generation <= generation /\ (d.generation = generation => ~young)
      BY <1>0, <2>5 DEF Timed
    <3> HIDE DEF over, d
    <3>2. Fine(After(over))
      BY <1>0, <1>2, <1>3, <2>1, <2>2, <2>3, <3>1, TimedWorks
    <3> QED BY <2>4, <2>5, <3>2
  <2>6. CASE Mishap /\ thread' = [Takes(g, lost) EXCEPT ![g].deadline = NoDeadline]
    <3>1. mishaps' > 0
      BY <1>0, <2>6 DEF Mishap
    <3> HIDE DEF lost
    <3>2. Fine(After(lost))
      BY <1>0, <1>2, <1>3, <2>2, <2>3, <3>1, TimedWorks
    <3> QED BY <2>4, <2>6, <3>2
  <2> QED BY <1>11, <2>5, <2>6 DEF DeadlineTimer
<1>12. CASE Handle(g)
  <2> DEFINE m == t.message
  <2>1. m \in Message /\ m.generation \in Nat /\ t.deadline.generation <= generation
        /\ (t.deadline.due /\ t.deadline.generation = generation => ~young)
    BY <1>0, ThreadFields DEF Message, Timed
  <2>2. ASSUME NEW i, NEW d, d.generation <= generation, d.due /\ d.generation = generation => ~young,
               Pumps(g, i, d)
        PROVE  Fine(thread'[g]) /\ \A h \in Guards : h # g => thread'[h] = thread[h]
    <3>1. /\ thread'[g] = [t EXCEPT !.at = "pumping", !.message = NoMessage, !.idle = i, !.deadline = d]
          /\ \A h \in Guards : h # g => thread'[h] = thread[h]
      BY <1>0, <2>2 DEF Pumps, ThreadsTyped
    <3>2. Timed([t EXCEPT !.at = "pumping", !.message = NoMessage, !.idle = i, !.deadline = d],
                generation, young, mishaps')
      BY <1>0, <1>2, <1>3, <2>2, TimedWorks
    <3> QED BY <3>1, <3>2
  <2>3. Keeps(g) => Fine(thread'[g]) /\ \A h \in Guards : h # g => thread'[h] = thread[h]
    BY <2>1, <2>2 DEF Keeps
  <2>4. Moves(g, "leaving") => Fine(thread'[g]) /\ \A h \in Guards : h # g => thread'[h] = thread[h]
    BY <1>5 DEF Stages
  <2>5. CASE HandleIdle(g, m)
    <3>1. NoDeadline.generation <= generation /\ ~NoDeadline.due
      BY <1>0 DEF NoDeadline
    <3> QED BY <2>2, <2>3, <2>4, <2>5, <3>1 DEF HandleIdle
  <2>n. \A k : NewDeadline(m, k).generation = m.generation /\ ~NewDeadline(m, k).due
    BY DEF NewDeadline
  <2>6. CASE HandleDeadlineRequest(g, m)
    <3> HIDE DEF m
    <3>1. Current(g, m) => m.generation <= generation
      BY <1>0, <2>1 DEF Current
    <3>2. \/ Keeps(g) \/ Moves(g, "leaving")
          \/ Current(g, m) /\ \E k : Pumps(g, 0, NewDeadline(m, k))
      BY <2>6 DEF HandleDeadlineRequest, OpensAndLeaves
    <3> QED BY <2>2, <2>3, <2>4, <2>n, <3>1, <3>2
  <2>7. CASE HandleIdleTimer(g, m) \/ HandleDrainDeadline(g, m) \/ HandleLostTimer(g, m)
    BY <2>3, <2>4, <2>7 DEF HandleIdleTimer, HandleDrainDeadline, HandleLostTimer, OpensAndLeaves
  <2>8. CASE HandleActiveDeadline(g, m)
    <3> DEFINE lost == [kind |-> "timer_lost", generation |-> m.generation]
               next == [t EXCEPT !.at = "pumping", !.message = NoMessage,
                                 !.deadline = NewDeadline(m, "drain_due")]
    <3>1. \/ Keeps(g) \/ Moves(g, "leaving")
          \/ Current(g, m) /\ thread' = [thread EXCEPT ![g] = next]
          \/ Mishap /\ thread' = Takes(g, lost)
      BY <2>8 DEF HandleActiveDeadline, ExpireActive, OpensAndLeaves
    <3>2. lost \in Message /\ lost.kind = "timer_lost"
      BY <2>1 DEF Message, Kinds, Commands
    <3>3. ASSUME Current(g, m), thread' = [thread EXCEPT ![g] = next]
          PROVE  Fine(thread'[g]) /\ \A h \in Guards : h # g => thread'[h] = thread[h]
      <4>1. NewDeadline(m, "drain_due").generation <= generation /\ ~NewDeadline(m, "drain_due").due
        BY <1>0, <2>n, <2>1, <3>3 DEF Current
      <4>2. Fine(next)
        BY <1>0, <1>2, <1>3, <4>1, TimedWorks
      <4>3. thread'[g] = next /\ \A h \in Guards : h # g => thread'[h] = thread[h]
        BY <1>0, <3>3 DEF ThreadsTyped
      <4> QED BY <4>2, <4>3
    <3> HIDE DEF lost
    <3>4. ASSUME Mishap, thread' = Takes(g, lost)
          PROVE  Fine(thread'[g]) /\ \A h \in Guards : h # g => thread'[h] = thread[h]
      <4>1. mishaps' > 0
        BY <1>0, <3>4 DEF Mishap
      <4>2. Fine([[t EXCEPT !.at = "handling"] EXCEPT !.message = lost])
        BY <1>0, <1>2, <1>3, <3>2, <4>1, TimedWorks
      <4> QED BY <1>t, <3>4, <4>2
    <3> QED BY <2>3, <2>4, <3>1, <3>3, <3>4
  <2> QED BY <1>12, <2>5, <2>6, <2>7, <2>8 DEF Handle
<1> QED
  BY <1>6, <1>7, <1>8, <1>9, <1>10, <1>11, <1>12 DEF ThreadStep

LEMMA InputTimers ==
    ASSUME Types, Timers, NEW b \in Buttons, Input(b)
    PROVE  Timers'
<1> USE DEF control
<1>0. /\ ThreadsTyped /\ generation \in Nat /\ mishaps \in Nat
      /\ \A g \in Guards : thread[g] \in Thread /\ Timed(thread[g], generation, young, mishaps)
  BY DEF Types, ThreadsTyped, SharedTyped, CountsTyped, Timers
<1>1. UNCHANGED <<generation, young>> /\ (Mishap \/ UNCHANGED mishaps)
  BY DEF Input, InputUnhooked, InputUnseen, Callback
<1>2. CASE UNCHANGED thread
  <2>1. \A g \in Guards : Timed(thread[g], generation, young, mishaps + 1)
    BY <1>0, TimedLater
  <2> QED BY <1>0, <1>1, <1>2, <2>1 DEF Timers, Mishap
<1>3. ASSUME NEW g \in Guards, Moves(g, "reporting"), UNCHANGED mishaps PROVE Timers'
  <2>1. thread'[g] = [thread[g] EXCEPT !.at = "reporting"] /\ \A h \in Guards : h # g => thread'[h] = thread[h]
    BY <1>0, <1>3 DEF Moves, ThreadsTyped
  <2>2. Timed([thread[g] EXCEPT !.at = "reporting"], generation, young, mishaps)
    BY <1>0, TimedMoves DEF Stages
  <2>3. Timed(thread'[g], generation', young', mishaps')
    BY <1>1, <1>3, <2>1, <2>2
  <2> QED BY <1>1, <2>1, <2>3, TimersKept
<1>4. \/ UNCHANGED thread
      \/ \E g \in Guards : Moves(g, "reporting") /\ UNCHANGED mishaps
  BY DEF Input, InputUnhooked, InputUnseen, Callback
<1> QED BY <1>2, <1>3, <1>4

LEMMA TickTimers ==
    ASSUME Types, Timers, Tick
    PROVE  Timers'
<1>1. young' = FALSE /\ UNCHANGED <<generation, mishaps>>
  BY DEF Tick, control
<1>2. ASSUME NEW g \in Guards PROVE Timed(thread'[g], generation, FALSE, mishaps)
  <2>1. thread[g] \in Thread /\ Timed(thread[g], generation, young, mishaps)
    BY DEF Types, ThreadsTyped, Timers
  <2>2. \/ thread'[g] = thread[g]
        \/ /\ thread[g].deadline # NoDeadline
           /\ thread'[g] = [thread[g] EXCEPT !.deadline = [thread[g].deadline EXCEPT !.due = TRUE]]
    BY DEF Tick, Types, ThreadsTyped
  <2>3. CASE thread'[g] = thread[g]
    BY <2>1, <2>3 DEF Timed
  <2>4. CASE /\ thread[g].deadline # NoDeadline
             /\ thread'[g] = [thread[g] EXCEPT !.deadline = [thread[g].deadline EXCEPT !.due = TRUE]]
    <3>1. thread[g].deadline \in [kind : {"active_due", "drain_due"}, generation : Nat, due : BOOLEAN]
      BY <2>1, <2>4, ThreadFields DEF Deadline
    <3>2. [thread[g].deadline EXCEPT !.due = TRUE].generation = thread[g].deadline.generation
      BY <3>1
    <3>3. /\ thread'[g].at = thread[g].at /\ thread'[g].message = thread[g].message
          /\ thread'[g].deadline.generation = thread[g].deadline.generation
      BY <2>1, <2>4, <3>2 DEF Thread
    <3> QED BY <2>1, <3>3 DEF Timed
  <2> QED BY <2>2, <2>3, <2>4
<1> QED BY <1>1, <1>2 DEF Timers

LEMMA StepTimers ==
    ASSUME Types, Timers, [Next]_vars
    PROVE  Timers'
<1>1. CASE UNCHANGED vars
  BY <1>1 DEF vars, control, Timers
<1> QED BY <1>1, CallerTimers, ThreadStepTimers, InputTimers, TickTimers DEF Next

-----------------------------------------------------------------------------
(* The theorems.                                                           *)

Invariant == Types /\ Ownership /\ Clicks /\ Timers

LEMMA Inductive == Spec => []Invariant
<1>1. Init => Invariant
  <2>1. Init => Ownership
    BY DEF Init, Ownership, OneOwner, HookCount, NoThread, Hooked
  <2>2. Init => Clicks
    BY DEF Init, Clicks
  <2>3. Init => Timers
    <3>1. Timed(NoThread, 0, FALSE, 0)
      BY NoThreadTimed
    <3>2. Init => \A g \in Guards : thread[g] = NoThread
      BY DEF Init
    <3>3. Init => generation = 0 /\ mishaps = 0 /\ young = FALSE
      BY DEF Init
    <3> QED BY <3>1, <3>2, <3>3 DEF Timers
  <2> QED BY <2>1, <2>2, <2>3, InitTypes DEF Invariant
<1>2. Invariant /\ [Next]_vars => Invariant'
  BY StepTypes, StepOwnership, StepClicks, StepTimers DEF Invariant
<1> QED BY <1>1, <1>2, PTL DEF Spec

\* The shared control block, the callers, the hook threads and their queues
\* stay what the code's types say; only commands are ever posted.
THEOREM GuardTypes == Spec => []TypeOK
<1>1. Invariant => TypeOK
  BY DEF Invariant, Types, Ownership, HookCount, TypeOK, CallsTyped, ThreadsTyped, QueuesTyped, SharedTyped,
     CountsTyped
<1> QED BY <1>1, Inductive, PTL

\* There is never a second hook, whichever start, stop or unhook fails and
\* whoever calls meanwhile.
THEOREM NeverASecondHook == Spec => []OneHook
<1>1. Invariant => OneHook
  BY DEF Invariant, Ownership, HookCount, OneHook
<1> QED BY <1>1, Inductive, PTL

\* No button sticks in the game as long as Windows has passed at most one
\* input by the hook.
THEOREM EveryPressIsReleased == Spec => [](unseen <= 1 => NoButtonSticks)
<1>1. Invariant => (unseen <= 1 => NoButtonSticks)
  BY DEF Invariant, Clicks, NoButtonSticks
<1> QED BY <1>1, Inductive, PTL

LEMMA CallChanges ==
    ASSUME CallsTyped, NEW g \in Guards, NEW at, call[g].at # at, Goes(g, at)
    PROVE  call' # call
<1>1. call'[g].at = at
  BY DEF Goes, CallsTyped, Call, NoCall
<1> QED BY <1>1

\* While an arm holds, the hook thread leaves its loop only because it was asked
\* to or because a native call has failed.
LEMMA LoopIsLeftForAStop ==
    ASSUME Invariant, Next, Armed, Blocking, ~StopAsked, Armed', call' = call, mishaps' = 0
    PROVE  Blocking'
<1> USE DEF Invariant, control, packed
<1> DEFINE Pumping == {"pumping", "handling", "reporting"}
<1>0. CallsTyped /\ ThreadsTyped /\ QueuesTyped /\ mishaps \in Nat
  BY DEF Types, CountsTyped
<1>1. PICK g \in Guards : thread[g].at \in Pumping
  BY DEF Blocking
<1>2. owner = g /\ g # NoOne /\ \A h \in Guards : h # g => thread[h].at \in {"none", "finished"}
  BY <1>1, GuardAssumption DEF Ownership, OneOwner
<1>3. ~Mishap /\ ~stop
  BY <1>0 DEF Mishap, StopAsked
<1>4. SUFFICES thread'[g].at \in Pumping
  BY DEF Blocking, Armed
<1>5. \A h \in Guards : thread' = Reaped(h) => thread'[g].at = thread[g].at
  BY <1>0, <1>1 DEF Reaped, ThreadsTyped
<1>6. CASE \E h \in Guards : CallBegins(h) \/ CallStep(h)
  <2>1. PICK h \in Guards : CallBegins(h) \/ CallStep(h)
    BY <1>6
  <2>2. CASE CallBegins(h)
    BY <1>1, <1>5, <2>2 DEF CallBegins, Prepare, ReleaseBegins, Stop
  <2>3. CASE Claim(h)
    BY <1>1, <1>2, <2>3 DEF Claim
  <2>4. CASE Reap(h)
    BY <1>1, <1>5, <2>4 DEF Reap
  <2>5. CASE Ready(h) \/ ArmLocks(h) \/ Arm(h) \/ Release(h) \/ Post(h) \/ ForceOpen(h) \/ Ask(h) \/ Wake(h)
    BY <1>1, <2>5 DEF Ready, ArmLocks, Arm, Release, Post, ForceOpen, Ask, Wake
  <2> QED BY <2>1, <2>2, <2>3, <2>4, <2>5 DEF CallStep
<1>7. CASE \E h \in Guards : ThreadStep(h) \/ OtherMessage(h)
  <2>1. PICK h \in Guards : ThreadStep(h) \/ OtherMessage(h)
    BY <1>7
  <2>2. h = g
    <3>1. thread[h].at \notin {"none", "finished"}
      BY <2>1 DEF ThreadStep, OtherMessage, Publish, InstallHook, EnterLoop, TakeMessage, IdleTimer,
                  DeadlineTimer, Handle, Report, Leave, Unhook, DropOwnership
    <3> QED BY <1>2, <3>1
  <2>3. \/ TakeMessage(g) \/ IdleTimer(g) \/ DeadlineTimer(g) \/ Handle(g) \/ Report(g)
        \/ OtherMessage(g)
    BY <1>1, <2>1, <2>2 DEF ThreadStep, Publish, InstallHook, EnterLoop, Leave, Unhook, DropOwnership
  <2>4. thread'[g].at \in {"pumping", "handling", "leaving"}
    BY <1>0, <2>3, WorkingStages
  <2>5. ASSUME thread'[g].at = "leaving" PROVE FALSE
    <3>1. \A m : thread' = Takes(g, m) => thread'[g].at # "leaving"
      BY <1>0, StageSet
    <3>2. CASE TakeMessage(g)
      <4>1. queue[g] # <<>> /\ queue[g] \in Seq(Command)
        BY <1>0, <3>2 DEF TakeMessage, QueuesTyped
      <4>2. 1 \in DOMAIN queue[g] /\ Head(queue[g]) = queue[g][1]
        BY <4>1
      <4>3. Head(queue[g]).kind # "quit"
        BY <4>2 DEF StopAsked
      <4> QED BY <2>5, <3>1, <3>2, <4>3 DEF TakeMessage
    <3>3. CASE IdleTimer(g)
      <4>1. \A m : thread' = [Takes(g, m) EXCEPT ![g].idle = 0] => thread'[g].at = "handling"
        BY <1>0 DEF ThreadsTyped, Thread, Takes
      <4> QED BY <1>3, <2>5, <3>3, <4>1 DEF IdleTimer
    <3>4. CASE DeadlineTimer(g)
      <4>1. \A m : thread' = [Takes(g, m) EXCEPT ![g].deadline = NoDeadline] => thread'[g].at = "handling"
        BY <1>0 DEF ThreadsTyped, Thread, Takes
      <4> QED BY <2>5, <3>4, <4>1 DEF DeadlineTimer
    <3>5. CASE Handle(g)
      <4>1. \A i, d : Pumps(g, i, d) => thread'[g].at = "pumping"
        BY <1>0 DEF ThreadsTyped, Thread, Pumps
      <4>2. \A d : thread' = [thread EXCEPT ![g] = [@ EXCEPT !.at = "pumping", !.message = NoMessage,
                                                            !.deadline = d]] => thread'[g].at = "pumping"
        BY <1>0 DEF ThreadsTyped, Thread
      <4>3. ~OpensAndLeaves(g)
        BY DEF OpensAndLeaves, ForceRelease, Armed
      <4>4. mode # "released"
        BY DEF Armed
      <4> QED BY <1>3, <2>5, <3>5, <4>1, <4>2, <4>3, <4>4
          DEF Handle, HandleIdle, HandleDeadlineRequest, HandleIdleTimer, HandleActiveDeadline,
              ExpireActive, HandleDrainDeadline, HandleLostTimer, Keeps
    <3>6. CASE Report(g)
      BY <1>0, <2>5, <3>6, StageSet DEF Report
    <3>7. CASE OtherMessage(g)
      BY <1>2, <1>3, <3>7 DEF OtherMessage
    <3> QED BY <2>3, <3>2, <3>3, <3>4, <3>5, <3>6, <3>7
  <2> QED BY <2>4, <2>5
<1>8. CASE \E b \in Buttons : Input(b)
  <2>1. \A h \in Guards : Moves(h, "reporting") => thread'[g].at \in Pumping
    BY <1>0, <1>1 DEF Moves, ThreadsTyped
  <2> QED BY <1>1, <1>8, <2>1 DEF Input, InputUnhooked, InputUnseen, Callback
<1>9. CASE Tick
  BY <1>0, <1>1, <1>9 DEF Tick, ThreadsTyped, Thread
<1> QED BY <1>6, <1>7, <1>8, <1>9 DEF Next

\* Within 750 ms of an arm its swallowing ends, by the guard's opening or by the
\* hook thread's leaving its loop, only by a caller's word or after a failed
\* native call: no older deadline or idle timer is taken for its own.
THEOREM ArmsLast == Spec => NoArmEndsEarly
<1>1. ASSUME Invariant, Next, Armed, Blocking, ~Armed', call' = call, mishaps' = 0
      PROVE  ~young
  <2> USE DEF Invariant, control, packed
  <2>0. CallsTyped /\ ThreadsTyped /\ mishaps \in Nat
    BY <1>1 DEF Types, CountsTyped
  <2>1. PICK g \in Guards : thread[g].at \in {"pumping", "handling", "reporting"}
    BY <1>1 DEF Blocking
  <2>2. /\ owner = g
        /\ \A h \in Guards : h # g => thread[h].at \in {"none", "finished"}
    BY <1>1, <2>1 DEF Ownership, OneOwner
  <2>3. mode' # mode
    BY <1>1 DEF Armed
  <2>4. ASSUME NEW h \in Guards, CallBegins(h) \/ CallStep(h) PROVE FALSE
    <3>1. CASE CallBegins(h) \/ Claim(h) \/ Ready(h) \/ Ask(h) \/ Wake(h) \/ Reap(h)
      BY <2>3, <3>1 DEF CallBegins, Prepare, ReleaseBegins, Stop, Claim, Ready, Ask, Wake, Reap
    <3>2. CASE ArmLocks(h) \/ Post(h) \/ ForceOpen(h)
      BY <1>1, <2>0, <3>2, CallChanges DEF ArmLocks, Post, ForceOpen
    <3>3. CASE Arm(h)
      BY <1>1, <3>3 DEF Arm, StateArm, Armed
    <3>4. CASE Release(h)
      <4>1. \A m : call' = [call EXCEPT ![h].at = "posting", ![h].message = m] => call'[h].at = "posting"
        BY <2>0 DEF CallsTyped, Call
      <4> QED BY <1>1, <2>0, <3>4, <4>1, CallChanges DEF Release
    <3> QED BY <2>4, <3>1, <3>2, <3>3, <3>4 DEF CallStep
  <2>5. ASSUME NEW h \in Guards, ThreadStep(h) \/ OtherMessage(h) PROVE ~young
    <3>1. CASE Handle(h)
      <4>1. h = g /\ thread[h].at = "handling"
        BY <2>2, <3>1 DEF Handle
      <4>2. mishaps = 0
        BY <1>1, <2>0, <3>1 DEF Handle, HandleIdle, HandleDeadlineRequest, HandleIdleTimer,
           HandleActiveDeadline, ExpireActive, HandleDrainDeadline, HandleLostTimer, Mishap
      <4> DEFINE m == thread[h].message
      <4>3. Timed(thread[h], generation, young, mishaps)
        BY <1>1 DEF Timers
      <4>4. m.kind = "timer_lost" => FALSE
        BY <4>1, <4>2, <4>3 DEF Timed
      <4>5. m.kind = "active_due" /\ Current(h, m) => ~young
        BY <4>1, <4>3 DEF Timed, Current
      <4>6. CASE HandleActiveDeadline(h, m)
        BY <2>3, <4>5, <4>6 DEF HandleActiveDeadline, ExpireActive, Keeps, Pumps
      <4>7. CASE HandleLostTimer(h, m)
        BY <4>4, <4>7 DEF HandleLostTimer
      <4>8. CASE HandleIdle(h, m) \/ HandleIdleTimer(h, m)
        BY <2>3, <4>8 DEF HandleIdle, HandleIdleTimer, Keeps, Pumps
      <4>9. CASE HandleDeadlineRequest(h, m)
        <5>1. ~Mishap
          BY <1>1, <2>0 DEF Mishap
        <5> QED BY <2>3, <4>9, <5>1 DEF HandleDeadlineRequest, Keeps, Pumps
      <4>10. CASE HandleDrainDeadline(h, m)
        BY <1>1, <2>3, <4>10 DEF HandleDrainDeadline, Keeps, Pumps, Armed
      <4> QED BY <3>1, <4>6, <4>7, <4>8, <4>9, <4>10 DEF Handle
    <3>2. CASE Publish(h) \/ Leave(h) \/ DropOwnership(h)
      BY <2>1, <2>2, <3>2 DEF Publish, Leave, DropOwnership
    <3> QED BY <2>3, <2>5, <3>1, <3>2 DEF ThreadStep, OtherMessage, InstallHook, EnterLoop, TakeMessage,
            IdleTimer, DeadlineTimer, Report, Unhook
  <2>6. ASSUME NEW b \in Buttons, Input(b) PROVE FALSE
    <3>1. mode' = mode \/ mode' = "guarding"
      BY <1>1, <2>6 DEF Input, InputUnhooked, InputUnseen, Callback, ProcessUp, ProcessDown, Armed
    <3> QED BY <1>1, <2>3, <3>1 DEF Armed
  <2>7. ~Tick
    BY <2>3 DEF Tick
  <2> QED BY <1>1, <2>4, <2>5, <2>6, <2>7 DEF Next
<1>2. Invariant /\ [Next]_vars => [ArmEndsByItself => ~young]_vars
  BY <1>1, LoopIsLeftForAStop DEF ArmEndsByItself
<1> QED BY <1>2, Inductive, PTL DEF Spec, NoArmEndsEarly
=============================================================================
