----------------------------- MODULE MouseGuard -----------------------------
(***************************************************************************)
(* The guard that keeps clicks away from the game while a reading is       *)
(* pending: ptt-platform-win/src/mouse_guard.rs (the button state machine) *)
(* and win32/mouse_hook.rs (the low-level mouse hook that feeds it).       *)
(*                                                                         *)
(* Three parties share the process-wide HookShared.  A guard's caller runs *)
(* prepare, arm, release, stop and drop on its own thread; the hook thread *)
(* it spawned installs the hook, pumps its message queue and keeps the two *)
(* timers; and the hook's callback, which Windows runs on the hook thread  *)
(* while it pumps, decides about every button.  Only some of the steps are *)
(* taken under control_transition, and the callback takes no lock at all.  *)
(*                                                                         *)
(* Each update of the packed word is one step, as its compare-exchange     *)
(* loop makes it; a test of the owner and what is done on its account are  *)
(* two steps wherever the code takes no lock between them.                 *)
(***************************************************************************)
EXTENDS Naturals, Sequences

CONSTANTS
    Guards,        \* the PendingMouseInputGuards of the process, each in a thread
    Buttons,
    NoOne,         \* no owner, no thread, a free lock
    MaxCalls,      \* bound on the public calls
    MaxMishaps,    \* bound on native calls that fail, starts that time out and
                   \* inputs Windows passes on because the hook is late
    MaxUnseen      \* bound on such inputs

ASSUME GuardAssumption ==
    /\ NoOne \notin Guards
    /\ MaxCalls \in Nat /\ MaxMishaps \in Nat /\ MaxUnseen \in Nat

VARIABLES
    owner, generation, lock, handle, threadId, stop,   \* HookShared
    mode, physical, suppressed,                        \* its packed word
    call,          \* guard |-> where its caller is
    thread,        \* guard |-> its hook thread and what it keeps
    queue,         \* guard |-> the messages posted to its hook thread
    hooks,         \* hooks registered with Windows
    hand,          \* buttons the user holds down
    game,          \* buttons the game holds to be down
    young,         \* the last arm is less than 750 ms old
    calls, mishaps, unseen

control == <<owner, generation, lock, handle, threadId, stop>>
packed == <<mode, physical, suppressed>>
user == <<hand, game, unseen>>
vars == <<control, packed, call, thread, queue, hooks, user, young, calls, mishaps>>

Modes == {"released", "waiting", "guarding", "draining"}
Armed == mode \in {"waiting", "guarding"}

\* A command is posted to a hook thread; a message is a command or a timer.
Commands == {"idle", "active", "drain", "quit"}
Kinds == Commands \cup {"idle_timer", "active_due", "drain_due", "timer_lost"}
Command == [kind : Commands, generation : Nat]
Message == [kind : Kinds, generation : Nat]
NoMessage == [kind |-> "quit", generation |-> 0]

\* goal: the public call; back: where a stop returns to.
Call == [at : {"idle", "reaping", "claiming", "starting", "locking", "arming",
               "posting", "stopping", "asking", "waking"},
         goal : {"prepare", "arm", "release", "stop"},
         back : {"idle", "claiming"},
         message : Command]

NoCall == [at |-> "idle", goal |-> "stop", back |-> "idle", message |-> NoMessage]

NoDeadline == [kind |-> "none", generation |-> 0, due |-> FALSE]
Deadline == [kind : {"active_due", "drain_due"}, generation : Nat, due : BOOLEAN]
            \cup {NoDeadline}

\* idle: the generation of the idle timer, 0 when none is set.
Thread == [at : {"none", "started", "published", "hooked", "pumping",
                 "handling", "reporting", "leaving", "unhooking", "dropping", "finished"},
           ready : {"none", "ok", "error"},
           message : Message, idle : Nat, deadline : Deadline]

NoThread == [at |-> "none", ready |-> "none", message |-> NoMessage,
             idle |-> 0, deadline |-> NoDeadline]

\* The stations between SetWindowsHookEx and UnhookWindowsHookEx.
Hooked == {"hooked", "pumping", "handling", "reporting", "leaving", "unhooking"}

Init ==
    /\ owner = NoOne /\ generation = 0 /\ lock = NoOne
    /\ handle = FALSE /\ threadId = NoOne /\ stop = FALSE
    /\ mode = "released" /\ physical = {} /\ suppressed = {}
    /\ call = [g \in Guards |-> NoCall]
    /\ thread = [g \in Guards |-> NoThread]
    /\ queue = [g \in Guards |-> <<>>]
    /\ hooks = 0
    /\ hand = {} /\ game = {} /\ unseen = 0
    /\ young = FALSE /\ calls = 0 /\ mishaps = 0

-----------------------------------------------------------------------------
(* MouseGuardStateMachine.                                                 *)

InitializeReleased(mask) == physical' = mask /\ suppressed' = {} /\ mode' = "released"

\* arm: a button the game saw go down is waited for.
StateArm ==
    /\ mode' = IF Armed THEN mode
               ELSE IF physical \ suppressed # {} THEN "waiting" ELSE "guarding"
    /\ UNCHANGED <<physical, suppressed>>

\* release: swallowed presses still have their releases swallowed.
StateRelease ==
    /\ mode' = IF suppressed = {} THEN "released" ELSE "draining"
    /\ UNCHANGED <<physical, suppressed>>

ForceRelease == mode' = "released" /\ suppressed' = {} /\ UNCHANGED physical

DownIsSwallowed(b) == mode = "guarding" \/ b \in suppressed

UpIsSwallowed_WhileGuarding(b) == mode = "guarding" \/ b \in suppressed

UpIsSwallowed(b) == b \in suppressed

ProcessDown(b) ==
    /\ physical' = physical \cup {b}
    /\ suppressed' = IF DownIsSwallowed(b) THEN suppressed \cup {b} ELSE suppressed
    /\ UNCHANGED mode

ProcessUp(b) ==
    /\ physical' = physical \ {b}
    /\ suppressed' = suppressed \ {b}
    /\ mode' = CASE mode = "waiting" /\ physical' \ suppressed' = {} -> "guarding"
                 [] mode = "draining" /\ suppressed' = {} -> "released"
                 [] OTHER -> mode

BecameReleased(b) == mode = "draining" /\ suppressed \ {b} = {}

-----------------------------------------------------------------------------
(* What callers and hook threads both do.                                  *)

Mishap == mishaps < MaxMishaps /\ mishaps' = mishaps + 1

IsInstalled(g) == owner = g /\ handle /\ ~stop

\* post_hook_message for token g: TRUE when the message is in the queue.
CanPost(g) == g # NoOne /\ owner = g /\ threadId # NoOne

\* Nobody reads what is posted to a thread that has left its loop.
Posted(m) ==
    /\ queue' = IF thread[threadId].at \in {"unhooking", "dropping"} THEN queue
                ELSE [queue EXCEPT ![threadId] = Append(@, m)]
    /\ UNCHANGED mishaps

-----------------------------------------------------------------------------
(* The caller of guard g.                                                  *)

Goes(g, at) == call' = IF at = "idle" THEN [call EXCEPT ![g] = NoCall]
                       ELSE [call EXCEPT ![g].at = at]

Starts(g, goal, at, back) ==
    /\ call[g].at = "idle"
    /\ calls < MaxCalls /\ calls' = calls + 1
    /\ call' = [call EXCEPT ![g] =
                   IF at = "idle" THEN NoCall
                   ELSE [at |-> at, goal |-> goal, back |-> back, message |-> NoMessage]]

\* reap_thread: only a thread that is over is taken.
Reaped(g) == IF thread[g].at = "finished" THEN [thread EXCEPT ![g] = NoThread] ELSE thread

StopIfOwner(g) == IF owner = g THEN "stopping" ELSE "reaping"

Prepared(goal) == IF goal = "arm" THEN "locking" ELSE "idle"

\* prepare, alone or as the beginning of arm.
Prepare(g, goal) ==
    /\ \/ /\ IsInstalled(g)
          /\ Starts(g, goal, Prepared(goal), "idle")
          /\ UNCHANGED thread
       \/ /\ ~IsInstalled(g)
          /\ thread' = Reaped(g)
          /\ Starts(g, goal,
                    IF thread'[g].at = "none" THEN "claiming" ELSE StopIfOwner(g),
                    "claiming")
    /\ UNCHANGED <<control, packed, queue, hooks, user, young, mishaps>>

\* The compare-exchange of the owner, the reset of what it owns, the spawn.
Claim(g) ==
    /\ call[g].at = "claiming"
    /\ \/ /\ owner # NoOne
          /\ Goes(g, "idle")
          /\ UNCHANGED <<owner, generation, stop, handle, threadId, thread, queue, mishaps>>
       \/ /\ owner = NoOne
          /\ stop' = FALSE /\ handle' = FALSE /\ threadId' = NoOne
          /\ generation' = generation + 1
          /\ \/ /\ owner' = g
                /\ thread' = [thread EXCEPT ![g] = [NoThread EXCEPT !.at = "started"]]
                /\ queue' = [queue EXCEPT ![g] = <<>>]
                /\ Goes(g, "starting")
                /\ UNCHANGED mishaps
             \/ /\ Mishap
                /\ Goes(g, "idle")
                /\ UNCHANGED <<owner, thread, queue>>
    /\ UNCHANGED <<lock, packed, hooks, user, young, calls>>

\* recv_timeout on the channel of the thread's start.
Ready(g) ==
    /\ call[g].at = "starting"
    /\ \/ /\ thread[g].ready = "ok" /\ IsInstalled(g)
          /\ Goes(g, Prepared(call[g].goal))
          /\ UNCHANGED mishaps
       \/ /\ \/ thread[g].ready = "ok" /\ ~IsInstalled(g) /\ UNCHANGED mishaps
             \/ thread[g].ready = "error" /\ UNCHANGED mishaps
             \/ thread[g].ready = "none" /\ Mishap
          /\ call' = [call EXCEPT ![g].at = StopIfOwner(g), ![g].back = "idle"]
    /\ UNCHANGED <<control, packed, thread, queue, hooks, user, young, calls>>

\* arm with the transition lock: what is no longer installed is let go of.
ArmLocks(g) ==
    /\ call[g].at = "locking" /\ call[g].goal = "arm" /\ lock = NoOne
    /\ IF IsInstalled(g)
       THEN /\ lock' = g
            /\ Goes(g, "arming")
            /\ UNCHANGED packed
       ELSE /\ ForceRelease
            /\ Goes(g, "idle")
            /\ UNCHANGED lock
    /\ UNCHANGED <<owner, generation, handle, threadId, stop, thread, queue, hooks, user,
                   young, calls, mishaps>>

Arm(g) ==
    /\ call[g].at = "arming"
    /\ generation' = generation + 1
    /\ StateArm
    /\ young' = TRUE
    /\ call' = [call EXCEPT ![g].at = "posting",
                            ![g].message = [kind |-> "active", generation |-> generation + 1]]
    /\ UNCHANGED <<owner, lock, handle, threadId, stop, thread, queue, hooks, user, calls,
                   mishaps>>

ReleaseBegins(g) ==
    /\ owner = g
    /\ Starts(g, "release", "locking", "idle")
    /\ UNCHANGED <<control, packed, thread, queue, hooks, user, young, mishaps>>

Release(g) ==
    /\ call[g].at = "locking" /\ call[g].goal = "release" /\ lock = NoOne
    /\ IF owner = g
       THEN /\ lock' = g
            /\ generation' = generation + 1
            /\ StateRelease
            /\ call' = [call EXCEPT ![g].at = "posting",
                    ![g].message = [kind |-> IF suppressed = {} THEN "idle" ELSE "drain",
                                    generation |-> generation + 1]]
       ELSE /\ Goes(g, "idle")
            /\ UNCHANGED <<lock, generation, packed>>
    /\ UNCHANGED <<owner, handle, threadId, stop, thread, queue, hooks, user, young, calls,
                   mishaps>>

\* The last statement of arm and release: post, or open and stop the hook.
Post(g) ==
    /\ call[g].at = "posting"
    /\ \/ /\ CanPost(g)
          /\ Posted(call[g].message)
          /\ lock' = NoOne
          /\ Goes(g, "idle")
          /\ UNCHANGED packed
       \/ /\ IF CanPost(g) THEN Mishap ELSE UNCHANGED mishaps
          /\ IF call[g].message.kind = "idle" THEN UNCHANGED packed ELSE ForceRelease
          /\ IF owner = g
             THEN Goes(g, "asking") /\ UNCHANGED lock
             ELSE Goes(g, "idle") /\ lock' = NoOne
          /\ UNCHANGED queue
    /\ UNCHANGED <<owner, generation, handle, threadId, stop, thread, hooks, user, young, calls>>

\* force_release_and_stop and drop: a dropped guard just never calls again.
Stop(g) ==
    /\ Starts(g, "stop", StopIfOwner(g), "idle")
    /\ UNCHANGED <<control, packed, thread, queue, hooks, user, young, mishaps>>

ForceOpen(g) ==
    /\ call[g].at = "stopping"
    /\ ForceRelease
    /\ Goes(g, IF owner = g THEN "asking" ELSE "reaping")
    /\ UNCHANGED <<control, thread, queue, hooks, user, young, calls, mishaps>>

\* request_hook_stop past its test of the owner: the flag always, the wake if
\* there is a thread by then and Windows takes the message.
Ask(g) ==
    /\ call[g].at = "asking"
    /\ stop' = TRUE
    /\ Goes(g, "waking")
    /\ UNCHANGED <<owner, generation, lock, handle, threadId, packed, thread, queue, hooks,
                   user, young, calls, mishaps>>

Wake(g) ==
    /\ call[g].at = "waking"
    /\ \/ threadId # NoOne /\ Posted(NoMessage)
       \/ threadId # NoOne /\ Mishap /\ UNCHANGED queue
       \/ threadId = NoOne /\ UNCHANGED <<queue, mishaps>>
    /\ IF lock = g
       THEN lock' = NoOne /\ Goes(g, "idle")
       ELSE Goes(g, "reaping") /\ UNCHANGED lock
    /\ UNCHANGED <<owner, generation, handle, threadId, stop, packed, thread, hooks, user,
                   young, calls>>

\* prepare goes on only without a thread; a stop returns in any case.
Reap(g) ==
    /\ call[g].at = "reaping"
    /\ thread' = Reaped(g)
    /\ Goes(g, IF call[g].back = "claiming" /\ thread'[g].at # "none"
               THEN "idle" ELSE call[g].back)
    /\ UNCHANGED <<control, packed, queue, hooks, user, young, calls, mishaps>>

-----------------------------------------------------------------------------
(* The hook thread of guard g, up to its message loop.                     *)

Moves(g, at) == thread' = [thread EXCEPT ![g].at = at]

\* Windows' key state holds what was let through, and may hold what is down.
Publish(g) ==
    /\ thread[g].at = "started"
    /\ threadId' = g
    /\ \E mask \in SUBSET hand : game \subseteq mask /\ InitializeReleased(mask)
    /\ Moves(g, "published")
    /\ UNCHANGED <<owner, generation, lock, handle, stop, call, queue, hooks, user, young,
                   calls, mishaps>>

\* Nobody looks between the installation and the store of its handle.
InstallHook(g) ==
    /\ thread[g].at = "published"
    /\ \/ /\ hooks' = hooks + 1
          /\ handle' = TRUE
          /\ thread' = [thread EXCEPT ![g].at = "hooked", ![g].ready = "ok"]
          /\ UNCHANGED <<threadId, mishaps>>
       \/ /\ Mishap
          /\ threadId' = NoOne
          /\ thread' = [thread EXCEPT ![g].at = "dropping", ![g].ready = "error"]
          /\ UNCHANGED <<hooks, handle>>
    /\ UNCHANGED <<owner, generation, lock, stop, packed, call, queue, user, young, calls>>

EnterLoop(g) ==
    /\ thread[g].at = "hooked"
    /\ Moves(g, IF owner = g /\ ~stop THEN "pumping" ELSE "leaving")
    /\ UNCHANGED <<control, packed, call, queue, hooks, user, young, calls, mishaps>>

-----------------------------------------------------------------------------
(* The message loop.                                                       *)

\* A message or a timer is taken; what it asks for is done under the lock.
Takes(g, m) == [thread EXCEPT ![g].at = "handling", ![g].message = m]

TakeMessage(g) ==
    /\ thread[g].at = "pumping" /\ queue[g] # <<>>
    /\ queue' = [queue EXCEPT ![g] = Tail(@)]
    /\ IF Head(queue[g]).kind = "quit"
       THEN Moves(g, "leaving")
       ELSE thread' = Takes(g, Head(queue[g]))
    /\ UNCHANGED <<control, packed, call, hooks, user, young, calls, mishaps>>

IdleTimer(g) ==
    /\ thread[g].at = "pumping" /\ thread[g].idle # 0
    /\ \/ /\ thread' = [Takes(g, [kind |-> "idle_timer", generation |-> thread[g].idle])
                          EXCEPT ![g].idle = 0]
          /\ UNCHANGED <<stop, mishaps>>
       \/ /\ Mishap
          /\ stop' = TRUE
          /\ Moves(g, "leaving")
    /\ UNCHANGED <<owner, generation, lock, handle, threadId, packed, call, queue, hooks, user,
                   young, calls>>

\* The deadline timer, in time or early and impossible to set again.
DeadlineTimer(g) ==
    /\ thread[g].at = "pumping" /\ thread[g].deadline # NoDeadline
    /\ LET d == thread[g].deadline
       IN  \/ /\ d.due
              /\ thread' = [Takes(g, [kind |-> d.kind, generation |-> d.generation])
                              EXCEPT ![g].deadline = NoDeadline]
              /\ UNCHANGED mishaps
           \/ /\ ~d.due
              /\ Mishap
              /\ thread' = [Takes(g, [kind |-> "timer_lost", generation |-> d.generation])
                              EXCEPT ![g].deadline = NoDeadline]
    /\ UNCHANGED <<control, packed, call, queue, hooks, user, young, calls>>

\* Any other message is dispatched, and then the flags are looked at.
OtherMessage(g) ==
    /\ thread[g].at = "pumping"
    /\ stop \/ owner # g
    /\ Moves(g, "leaving")
    /\ UNCHANGED <<control, packed, call, queue, hooks, user, young, calls, mishaps>>

\* The thread goes back to its pump, with its timers set to these.
Pumps(g, idle, deadline) ==
    /\ thread' = [thread EXCEPT ![g] = [@ EXCEPT !.at = "pumping", !.message = NoMessage,
                                                 !.idle = idle, !.deadline = deadline]]
    /\ UNCHANGED <<stop, packed>>

\* force_release and the stop it commits; nobody reads the message it posts.
OpensAndLeaves(g) == ForceRelease /\ stop' = TRUE /\ Moves(g, "leaving")

Keeps(g) == Pumps(g, thread[g].idle, thread[g].deadline)

Current(g, m) == owner = g /\ generation = m.generation

HandleIdle(g, m) ==
    /\ m.kind = "idle"
    /\ IF Current(g, m) /\ mode = "released"
       THEN \/ Pumps(g, generation, NoDeadline) /\ UNCHANGED mishaps
            \/ Mishap /\ stop' = TRUE /\ Moves(g, "leaving") /\ UNCHANGED packed
       ELSE Keeps(g) /\ UNCHANGED mishaps

\* reset_fail_open_timer: 750 ms from now.
NewDeadline(m, kind) == [kind |-> kind, generation |-> m.generation, due |-> FALSE]

HandleDeadlineRequest(g, m) ==
    /\ m.kind \in {"active", "drain"}
    /\ IF Current(g, m) /\ (IF m.kind = "active" THEN Armed ELSE mode = "draining")
       THEN \/ /\ Pumps(g, 0, NewDeadline(m, IF m.kind = "active" THEN "active_due"
                                             ELSE "drain_due"))
               /\ UNCHANGED mishaps
            \/ Mishap /\ OpensAndLeaves(g)
       ELSE Keeps(g) /\ UNCHANGED mishaps

HandleIdleTimer_AnyTime(g, m) ==
    /\ m.kind = "idle_timer"
    /\ stop' = TRUE /\ Moves(g, "leaving")
    /\ UNCHANGED <<packed, mishaps>>

HandleIdleTimer(g, m) ==
    /\ m.kind = "idle_timer"
    /\ IF generation = m.generation /\ mode = "released"
       THEN stop' = TRUE /\ Moves(g, "leaving") /\ UNCHANGED packed
       ELSE Keeps(g)
    /\ UNCHANGED mishaps

\* apply_fail_open_deadline for an active arm: swallowed presses get one more
\* deadline to come up; if its timer cannot be set the lock is taken again.
ExpireActive_NoSecondDeadline(g, m) ==
    IF ~Current(g, m) \/ ~Armed
    THEN Keeps(g) /\ UNCHANGED mishaps
    ELSE IF suppressed = {}
         THEN OpensAndLeaves(g) /\ UNCHANGED mishaps
         ELSE /\ StateRelease
              /\ Moves(g, "pumping")
              /\ UNCHANGED <<stop, mishaps>>

ExpireActive_AnyGeneration(g, m) ==
    IF owner # g \/ ~Armed
    THEN Keeps(g) /\ UNCHANGED mishaps
    ELSE OpensAndLeaves(g) /\ UNCHANGED mishaps

ExpireActive(g, m) ==
    IF ~Current(g, m) \/ ~Armed
    THEN Keeps(g) /\ UNCHANGED mishaps
    ELSE IF suppressed = {}
         THEN OpensAndLeaves(g) /\ UNCHANGED mishaps
         ELSE /\ StateRelease
              /\ UNCHANGED stop
              /\ \/ /\ thread' = [thread EXCEPT ![g] =
                                    [@ EXCEPT !.at = "pumping", !.message = NoMessage,
                                              !.deadline = NewDeadline(m, "drain_due")]]
                    /\ UNCHANGED mishaps
                 \/ /\ Mishap
                    /\ thread' = Takes(g, [kind |-> "timer_lost", generation |-> m.generation])

HandleActiveDeadline(g, m) == m.kind = "active_due" /\ ExpireActive(g, m)

HandleDrainDeadline(g, m) ==
    /\ m.kind = "drain_due"
    /\ IF Current(g, m) /\ mode = "draining" THEN OpensAndLeaves(g) ELSE Keeps(g)
    /\ UNCHANGED mishaps

\* Only the generation whose timer is gone is opened.
HandleLostTimer(g, m) ==
    /\ m.kind = "timer_lost"
    /\ IF Current(g, m) THEN OpensAndLeaves(g) ELSE Keeps(g)
    /\ UNCHANGED mishaps

Handle(g) ==
    /\ thread[g].at = "handling" /\ lock = NoOne
    /\ LET m == thread[g].message
       IN  \/ HandleIdle(g, m) \/ HandleDeadlineRequest(g, m) \/ HandleIdleTimer(g, m)
           \/ HandleActiveDeadline(g, m) \/ HandleDrainDeadline(g, m) \/ HandleLostTimer(g, m)
    /\ UNCHANGED <<owner, generation, lock, handle, threadId, call, queue, hooks, user, young,
                   calls>>

-----------------------------------------------------------------------------
(* The end of the hook thread.                                             *)

Leave(g) ==
    /\ thread[g].at = "leaving"
    /\ ForceRelease
    /\ thread' = [thread EXCEPT ![g] = [NoThread EXCEPT !.at = "unhooking",
                                          !.ready = thread[g].ready]]
    /\ queue' = [queue EXCEPT ![g] = <<>>]
    /\ UNCHANGED <<control, call, hooks, user, young, calls, mishaps>>

\* A hook that may still be registered keeps its owner for good.
Unhook_Forgives(g) ==
    /\ thread[g].at = "unhooking"
    /\ threadId' = NoOne
    /\ \/ hooks' = hooks - 1 /\ handle' = FALSE /\ UNCHANGED mishaps
       \/ Mishap /\ UNCHANGED <<hooks, handle>>
    /\ Moves(g, "dropping")
    /\ UNCHANGED <<owner, generation, lock, stop, packed, call, queue, user, young, calls>>

Unhook(g) ==
    /\ thread[g].at = "unhooking"
    /\ threadId' = NoOne
    /\ \/ /\ hooks' = hooks - 1 /\ handle' = FALSE
          /\ Moves(g, "dropping")
          /\ UNCHANGED mishaps
       \/ /\ Mishap
          /\ Moves(g, "finished")
          /\ UNCHANGED <<hooks, handle>>
    /\ UNCHANGED <<owner, generation, lock, stop, packed, call, queue, user, young, calls>>

\* release_owner, when HookThreadOwnership is dropped.
DropOwnership(g) ==
    /\ thread[g].at = "dropping"
    /\ IF owner = g
       THEN /\ ForceRelease
            /\ handle' = FALSE /\ threadId' = NoOne /\ stop' = FALSE /\ owner' = NoOne
       ELSE UNCHANGED <<packed, handle, threadId, stop, owner>>
    /\ Moves(g, "finished")
    /\ UNCHANGED <<generation, lock, call, queue, hooks, user, young, calls, mishaps>>

-----------------------------------------------------------------------------
(* The user's buttons.                                                     *)

\* The input reaches the game.
Passes(b) ==
    game' = IF b \in hand THEN game \ {b} ELSE game \cup {b}

Moved(b) == hand' = IF b \in hand THEN hand \ {b} ELSE hand \cup {b}

\* No hook thread stands between the user and the game.
InputUnhooked(b) ==
    /\ \A g \in Guards : thread[g].at \notin Hooked
    /\ Moved(b) /\ Passes(b)
    /\ UNCHANGED <<control, packed, call, thread, queue, hooks, unseen, young, calls, mishaps>>

\* The hook thread is elsewhere for so long that Windows does not wait.
InputUnseen(b) ==
    /\ \E g \in Guards : thread[g].at \in Hooked \ {"pumping"}
    /\ Mishap
    /\ unseen < MaxUnseen /\ unseen' = unseen + 1
    /\ Moved(b) /\ Passes(b)
    /\ UNCHANGED <<control, packed, call, thread, queue, hooks, young, calls>>

\* low_level_mouse_proc for a button.
Callback(g, b) ==
    /\ thread[g].at = "pumping"
    /\ Moved(b)
    /\ IF owner = NoOne \/ ~handle
       THEN Passes(b) /\ UNCHANGED <<packed, thread>>
       ELSE IF b \in hand
            THEN /\ ProcessUp(b)
                 /\ IF UpIsSwallowed(b) THEN UNCHANGED game ELSE Passes(b)
                 /\ IF BecameReleased(b) THEN Moves(g, "reporting") ELSE UNCHANGED thread
            ELSE /\ ProcessDown(b)
                 /\ IF DownIsSwallowed(b) THEN UNCHANGED game ELSE Passes(b)
                 /\ UNCHANGED thread
    /\ UNCHANGED <<control, call, queue, hooks, unseen, young, calls, mishaps>>

\* The end of the callback that drained the last button: the generation is
\* read only now.  The thread is there to be posted to, being this one.
Report(g) ==
    /\ thread[g].at = "reporting" /\ CanPost(owner)
    /\ \/ /\ Posted([kind |-> "idle", generation |-> generation])
          /\ UNCHANGED stop
       \/ /\ Mishap
          /\ stop' = TRUE
          /\ queue' \in {queue, [queue EXCEPT ![threadId] = Append(@, NoMessage)]}
    /\ Moves(g, "pumping")
    /\ UNCHANGED <<owner, generation, lock, handle, threadId, packed, call, hooks, user, young,
                   calls>>

\* 750 ms pass.
Tick ==
    /\ young \/ \E g \in Guards : thread[g].deadline # NoDeadline /\ ~thread[g].deadline.due
    /\ young' = FALSE
    /\ thread' = [g \in Guards |->
                    IF thread[g].deadline = NoDeadline THEN thread[g]
                    ELSE [thread[g] EXCEPT !.deadline.due = TRUE]]
    /\ UNCHANGED <<control, packed, call, queue, hooks, user, calls, mishaps>>

-----------------------------------------------------------------------------
CallBegins(g) ==
    \/ \E goal \in {"prepare", "arm"} : Prepare(g, goal)
    \/ ReleaseBegins(g)
    \/ Stop(g)

CallStep(g) ==
    \/ Claim(g) \/ Ready(g) \/ ArmLocks(g) \/ Arm(g) \/ Release(g) \/ Post(g)
    \/ ForceOpen(g) \/ Ask(g) \/ Wake(g) \/ Reap(g)

ThreadStep(g) ==
    \/ Publish(g) \/ InstallHook(g) \/ EnterLoop(g)
    \/ TakeMessage(g) \/ IdleTimer(g) \/ DeadlineTimer(g) \/ Handle(g) \/ Report(g)
    \/ Leave(g) \/ Unhook(g) \/ DropOwnership(g)

Input(b) == InputUnhooked(b) \/ InputUnseen(b) \/ \E g \in Guards : Callback(g, b)

Next ==
    \/ \E g \in Guards : CallBegins(g) \/ CallStep(g) \/ ThreadStep(g) \/ OtherMessage(g)
    \/ \E b \in Buttons : Input(b)
    \/ Tick

Spec == Init /\ [][Next]_vars

\* Calls that began go on, hook threads run, and time passes.  Nobody has to
\* call, and the user may hold a button down for ever.
Fairness ==
    /\ \A g \in Guards : WF_vars(CallStep(g)) /\ WF_vars(ThreadStep(g))
    /\ WF_vars(Tick)

FairSpec == Spec /\ Fairness

-----------------------------------------------------------------------------
(* Properties.                                                             *)

TypeOK ==
    /\ owner \in Guards \cup {NoOne} /\ lock \in Guards \cup {NoOne}
    /\ threadId \in Guards \cup {NoOne}
    /\ generation \in Nat /\ handle \in BOOLEAN /\ stop \in BOOLEAN
    /\ mode \in Modes /\ physical \subseteq Buttons /\ suppressed \subseteq Buttons
    /\ call \in [Guards -> Call]
    /\ thread \in [Guards -> Thread]
    /\ queue \in [Guards -> Seq(Command)]
    /\ hooks \in Nat
    /\ hand \subseteq Buttons /\ game \subseteq Buttons
    /\ young \in BOOLEAN
    /\ calls \in Nat /\ mishaps \in Nat /\ unseen \in Nat

\* No button sticks in the game: a press the game saw has its release shown
\* to it, whatever arms, releases, stops and expiries come between
\* (process_button swallows a release only for a swallowed press).
NoButtonSticks == game \subseteq hand

\* There is never a second hook, whichever start, stop or unhook failed
\* ("preventing a second hook from racing it", mouse_hook.rs:118).
OneHook == hooks <= 1

\* Somebody's clicks can be swallowed now.
Blocking ==
    /\ mode # "released"
    /\ \E g \in Guards : thread[g].at \in {"pumping", "handling", "reporting"}

\* Once nobody arms again the guard opens for good, although the user keeps
\* the button down, posts and timers fail and threads leave in any order.
FailsOpen == <>[]~Blocking

\* A stop has been asked for: its flag is up or its message is on the way.
StopAsked == stop \/ \E g \in Guards : \E i \in DOMAIN queue[g] : queue[g][i].kind = "quit"

\* The hook thread stops swallowing for an arm, by opening the guard or by
\* leaving its loop; no caller releases it or has asked for a stop, and no native
\* call has failed.
ArmEndsByItself ==
    /\ Armed /\ Blocking
    /\ ~Armed' \/ (~StopAsked /\ ~Blocking')
    /\ call' = call /\ mishaps' = 0

\* An arm does not end by itself before 750 ms are over: neither the deadline
\* nor the idle timer of an earlier generation is taken for this one's.
NoArmEndsEarly == [][ArmEndsByItself => ~young]_vars

\* What the code does not keep for two guards: a stop is only asked of one's
\* own hook.
StopsAreTheOwners ==
    [][\A g \in Guards : call[g].at = "asking" /\ call'[g].at = "waking"
            => owner \in {g, NoOne}]_vars
=============================================================================
