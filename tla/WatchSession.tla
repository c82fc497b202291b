---------------------------- MODULE WatchSession ----------------------------
(***************************************************************************)
(* The live watch: a worker thread that captures the trade panel, reads    *)
(* every new book twice and stores it (run_session in ptt-monitoring,      *)
(* LivePipeline in ptt-runtime, run_watch in ptt-app/src/backend.rs), and  *)
(* the interface that starts it, stops it and shows what it reports (tick, *)
(* toggle_watch and apply_calibration in ptt-app/src/shell).               *)
(*                                                                         *)
(* The panel has three regions, captured one after the other: the two      *)
(* currency names and the tables.  Between two captures the player may     *)
(* change the panel.  Worker and interface share the cancel flag and the   *)
(* event channel; the interface's handlers are atomic, except that         *)
(* stopping a worker waits for it.                                         *)
(***************************************************************************)
EXTENDS MonitorGate, Naturals, Sequences

CONSTANTS
    Names,         \* currencies
    Tables,        \* contents of the two order tables
    OrderEntry,    \* what the tables region shows when the book is not on screen
    Panels,        \* the panels the player may bring up
    Sessions,      \* the watches that may be started, a bound
    MaxMishaps     \* bound on panel changes, misreads and failures, together

Books == [need : Names, have : Names, tables : Tables]

ASSUME WatchAssumption ==
    /\ Panels \subseteq [need : Names, have : Names, tables : Tables \cup {OrderEntry}]
    /\ Panels # {}
    /\ OrderEntry \notin Tables
    /\ None \notin Tables \cup {OrderEntry} \cup Books \cup Sessions
    /\ MaxMishaps \in Nat

VARIABLES
    screen,           \* the panel as it is drawn now
    calibrated,       \* the active profile's three regions are all set
    updateInstalled,  \* UpdateState::Installed: new files, old process
    watching, backend, fault, note, lastBook,    \* fields of AppShell
    joining,          \* the session whose thread the interface waits for
    restarting,       \* it starts another one afterwards
    worker,           \* session |-> its thread
    queue,            \* session |-> its event channel
    stored,           \* the captures in the database
    mishaps           \* of the world, so far

vars == <<screen, calibrated, updateInstalled, watching, backend, fault, note, lastBook,
          joining, restarting, worker, queue, stored, mishaps>>
settings == <<calibrated, updateInstalled>>
shell == <<watching, backend, fault, note, lastBook, joining, restarting>>

-----------------------------------------------------------------------------
(* The worker thread.                                                      *)

NoFrames == [need |-> None, have |-> None, tables |-> None]

\* What one recognition has in its hands, and what really was on the screen
\* meanwhile: the panels shown, and how often the panel changed or the OCR
\* misread since the first capture.
NoReading == [frames |-> NoFrames, second |-> NoFrames, book |-> None, shown |-> {}, slips |-> 0]

NoWorker == [at |-> "none", cancel |-> FALSE, gate |-> NewGate, reading |-> NoReading]

Reading == {"need", "have", "tables again", "need again", "have again", "persist"}
Alive(s) == worker[s].at \in {"opening", "watch"} \cup Reading

Init ==
    /\ screen \in Panels
    /\ calibrated \in BOOLEAN
    /\ updateInstalled = FALSE
    /\ watching = FALSE /\ backend = None /\ fault \in {"none", "startup"} /\ note = None /\ lastBook = None
    /\ joining = None /\ restarting = FALSE
    /\ worker = [s \in Sessions |-> NoWorker]
    /\ queue = [s \in Sessions |-> <<>>]
    /\ stored = {}
    /\ mishaps = 0

Mishap == mishaps < MaxMishaps /\ mishaps' = mishaps + 1

Event(kind, what) == [kind |-> kind, what |-> what]

\* Sending on a channel whose receiver is gone does nothing.
Send(s, events) ==
    queue' = [queue EXCEPT ![s] = IF backend = s THEN @ \o events ELSE @]

Moves(s, at) == worker' = [worker EXCEPT ![s].at = at]

\* LivePipeline::open.  When it fails, the early return leaves the sentinel
\* of run_watch armed, and its drop reports a second fault.
OpenFaults == <<Event("fault", "open"), Event("fault", "died")>>

Opens(s) ==
    /\ worker[s].at = "opening"
    /\ Moves(s, "watch")
    /\ UNCHANGED <<screen, settings, shell, queue, stored, mishaps>>

OpenFails(s) ==
    /\ worker[s].at = "opening"
    /\ Mishap
    /\ Moves(s, "ended")
    /\ Send(s, OpenFaults)
    /\ UNCHANGED <<screen, settings, shell, stored>>

\* The loop's condition: cancelled, or the day's budget has run out.
Leaves(s) ==
    /\ worker[s].at = "watch"
    /\ Moves(s, "ended")
    /\ Send(s, <<Event("stopped", None)>>)
    /\ UNCHANGED <<screen, settings, shell, stored>>

Stops(s) == worker[s].cancel /\ Leaves(s) /\ UNCHANGED mishaps
BudgetRunsOut(s) == ~worker[s].cancel /\ Leaves(s) /\ Mishap

\* One turn of the loop: capture the tables and ask the gate.  A failed
\* capture only waits and turns again.
Looks(s) ==
    /\ worker[s].at = "watch" /\ ~worker[s].cancel
    /\ LET gate == worker[s].gate
           fingerprint == screen.tables
           next == [worker[s] EXCEPT !.gate = OnFingerprint(gate, fingerprint)]
       IN  worker' = [worker EXCEPT ![s] =
              IF GateStep(gate, fingerprint) # "recognize" THEN next
              ELSE [next EXCEPT !.at = "need", !.reading =
                       [NoReading EXCEPT !.frames.tables = fingerprint, !.shown = {screen}]]]
    /\ UNCHANGED <<screen, settings, shell, queue, stored, mishaps>>

CapturesNeed(s) ==
    /\ worker[s].at = "need"
    /\ worker' = [worker EXCEPT ![s].at = "have", ![s].reading.frames.need = screen.need]
    /\ UNCHANGED <<screen, settings, shell, queue, stored, mishaps>>

\* Any end of a recognition that accepts nothing.
GivesUp(s) ==
    worker' = [worker EXCEPT ![s] =
                  [@ EXCEPT !.at = "watch", !.gate = MarkHandled(worker[s].gate),
                            !.reading = NoReading]]

\* book_view_attested: the order-entry panel is refused before anything is
\* read, since its one line would parse as a row.
Recognizable(frames) == frames.tables # OrderEntry

\* What the frames read as when nothing goes wrong.
ParsesAs(frames) ==
    IF frames.tables = OrderEntry THEN {[frames EXCEPT !.tables = t] : t \in Tables} ELSE {frames}

ReadsRight(frames, book) == Recognizable(frames) /\ book \in ParsesAs(frames)

\* The OCR returns a well-formed book that is not the one in the frames.
Misreads(frames, book) == Recognizable(frames) /\ book \in Books \ ParsesAs(frames)

CapturesHave(s) ==
    /\ worker[s].at = "have"
    /\ LET frames == [worker[s].reading.frames EXCEPT !.have = screen.have]
           Reads(book, slips) ==
               worker' = [worker EXCEPT
                   ![s].at = "tables again",
                   ![s].reading = [@ EXCEPT !.frames = frames, !.book = book, !.slips = slips]]
           slips == worker[s].reading.slips
       IN  \/ \E book \in Books :
                 ReadsRight(frames, book) /\ Reads(book, slips) /\ UNCHANGED mishaps
           \/ \E book \in Books :
                 Misreads(frames, book) /\ Mishap /\ Reads(book, slips + 1)
           \/ ~Recognizable(frames) /\ GivesUp(s) /\ UNCHANGED mishaps
           \/ Recognizable(frames) /\ Mishap /\ GivesUp(s)
    /\ UNCHANGED <<screen, settings, shell, queue, stored>>

CapturesTablesAgain(s) ==
    /\ worker[s].at = "tables again"
    /\ worker' = [worker EXCEPT ![s].at = "need again",
                                ![s].reading.second.tables = screen.tables]
    /\ UNCHANGED <<screen, settings, shell, queue, stored, mishaps>>

CapturesNeedAgain(s) ==
    /\ worker[s].at = "need again"
    /\ worker' = [worker EXCEPT ![s].at = "have again",
                                ![s].reading.second.need = screen.need]
    /\ UNCHANGED <<screen, settings, shell, queue, stored, mishaps>>

\* The second captures are complete: the tables must still look the same, the
\* second reading must agree with the first, and the book must be new.
Confirmed_SameFrame(s, second, book) == second.tables = worker[s].reading.frames.tables
Confirmed(s, second, book) ==
    /\ second.tables = worker[s].reading.frames.tables
    /\ book = worker[s].reading.book

Accepts(s, slips) ==
    LET gate == MarkHandled(worker[s].gate)
        book == worker[s].reading.book
    IN  worker' = [worker EXCEPT ![s] =
           IF ShouldEmit(gate, book)
           THEN [@ EXCEPT !.at = "persist", !.gate = Emitted(gate, book), !.reading.slips = slips]
           ELSE [@ EXCEPT !.at = "watch", !.gate = gate, !.reading = NoReading]]

CapturesHaveAgain(s) ==
    /\ worker[s].at = "have again"
    /\ LET second == [worker[s].reading.second EXCEPT !.have = screen.have]
           slips == worker[s].reading.slips
           Decides(book, seen) ==
               IF Confirmed(s, second, book) THEN Accepts(s, seen) ELSE GivesUp(s)
       IN  \/ \E book \in Books :
                 ReadsRight(second, book) /\ Decides(book, slips) /\ UNCHANGED mishaps
           \/ \E book \in Books :
                 Misreads(second, book) /\ Mishap /\ Decides(book, slips + 1)
           \/ ~Recognizable(second) /\ GivesUp(s) /\ UNCHANGED mishaps
           \/ Recognizable(second) /\ Mishap /\ GivesUp(s)
    /\ UNCHANGED <<screen, settings, shell, queue, stored>>

\* A capture fails half-way through: the frame counts as handled all the same.
CaptureFails(s) ==
    /\ worker[s].at \in Reading \ {"persist"}
    /\ Mishap
    /\ GivesUp(s)
    /\ UNCHANGED <<screen, settings, shell, queue, stored>>

\* What is said of a book after persist_then_warn: that it was accepted, after
\* a warning if its rate is far from the history, or that it was not stored.
Told_QuietLoss(book, isStored) ==
    IF isStored
    THEN {<<Event("accepted", book)>>, <<Event("warning", book), Event("accepted", book)>>}
    ELSE {<<>>}

Told_WarnsFirst(book, isStored) ==
    IF isStored
    THEN {<<Event("accepted", book)>>, <<Event("warning", book), Event("accepted", book)>>}
    ELSE {<<Event("warning", book), Event("fault", "not stored")>>}

Told(book, isStored) ==
    IF isStored
    THEN {<<Event("accepted", book)>>, <<Event("warning", book), Event("accepted", book)>>}
    ELSE {<<Event("fault", "not stored")>>}

BackToTheLoop(s) ==
    worker' = [worker EXCEPT ![s].at = "watch", ![s].reading = NoReading]

\* A currency against itself is no market: such a book cannot be mapped.
Mappable(book) == book.need # book.have

Persists(s) ==
    /\ worker[s].at = "persist" /\ Mappable(worker[s].reading.book)
    /\ LET reading == worker[s].reading IN
          /\ stored' = stored \cup {[session |-> s, book |-> reading.book, slips |-> reading.slips,
                                      shown |-> reading.book \in reading.shown]}
          /\ \E events \in Told(reading.book, TRUE) : Send(s, events)
    /\ BackToTheLoop(s)
    /\ UNCHANGED <<screen, settings, shell, mishaps>>

\* The mapping or the transaction fails: nothing is stored.
NotStored(s) ==
    /\ \E events \in Told(worker[s].reading.book, FALSE) : Send(s, events)
    /\ BackToTheLoop(s)
    /\ UNCHANGED <<screen, settings, shell, stored>>

MappingFails(s) ==
    /\ worker[s].at = "persist" /\ ~Mappable(worker[s].reading.book)
    /\ NotStored(s)
    /\ UNCHANGED mishaps

PersistFails(s) ==
    /\ worker[s].at = "persist" /\ Mappable(worker[s].reading.book)
    /\ NotStored(s)
    /\ Mishap

\* The thread unwinds; the sentinel reports it.
Dies(s) ==
    /\ Alive(s)
    /\ Mishap
    /\ Moves(s, "died")
    /\ Send(s, <<Event("fault", "died")>>)
    /\ UNCHANGED <<screen, settings, shell, stored>>

-----------------------------------------------------------------------------
(* The world.                                                              *)

\* The panel changes; a reading under way has seen one more panel.
PanelChanges ==
    /\ Mishap
    /\ \E panel \in Panels \ {screen} :
          /\ screen' = panel
          /\ worker' = [s \in Sessions |->
                 IF worker[s].at \in Reading \ {"persist"}
                 THEN [worker[s] EXCEPT !.reading.shown = @ \cup {panel}, !.reading.slips = @ + 1]
                 ELSE worker[s]]
    /\ UNCHANGED <<settings, shell, queue, stored>>

\* The updater has replaced the program's files.
UpdateInstalls ==
    /\ joining = None /\ ~updateInstalled
    /\ updateInstalled' = TRUE
    /\ UNCHANGED <<screen, calibrated, shell, worker, queue, stored, mishaps>>

-----------------------------------------------------------------------------
(* The interface.                                                          *)

Unused == {s \in Sessions : worker[s].at = "none"}
NextSession == CHOOSE s \in Unused : TRUE

\* Backend::start.
Start ==
    /\ backend' = NextSession
    /\ worker' = [worker EXCEPT ![NextSession].at = "opening"]
    /\ queue' = queue

\* Backend::stop and drop: raise the flag, wait for the thread, and throw the
\* channel away with whatever is still in it.
Stop_WithoutJoin(s) ==
    /\ worker' = [worker EXCEPT ![s].cancel = TRUE]
    /\ joining' = None
    /\ queue' = [queue EXCEPT ![s] = <<>>]

Stop_NotSignalled(s) ==
    /\ joining' = s
    /\ queue' = [queue EXCEPT ![s] = <<>>]
    /\ UNCHANGED worker

Stop(s) ==
    /\ worker' = [worker EXCEPT ![s].cancel = TRUE]
    /\ joining' = s
    /\ queue' = [queue EXCEPT ![s] = <<>>]

\* toggle_watch: stop, refuse, or start.
ToggleOff ==
    /\ joining = None /\ watching
    /\ backend' = None
    /\ Stop(backend)
    /\ watching' = FALSE
    /\ note' = None
    /\ UNCHANGED <<screen, settings, fault, lastBook, restarting, stored, mishaps>>

ToggleRefused ==
    /\ joining = None /\ ~watching /\ ~updateInstalled /\ ~calibrated
    /\ fault' = "not calibrated"
    /\ UNCHANGED <<screen, settings, watching, backend, note, lastBook, joining, restarting,
                   worker, queue, stored, mishaps>>

ToggleOn ==
    /\ joining = None /\ ~watching /\ ~updateInstalled /\ calibrated /\ Unused # {}
    /\ Start
    /\ watching' = TRUE
    /\ fault' = "none"
    /\ UNCHANGED <<screen, settings, note, lastBook, joining, restarting, stored, mishaps>>

\* A region is calibrated (apply_calibration): a running watch is restarted.  The
\* three regions may or may not all be set now.
Calibrates ==
    /\ joining = None
    /\ calibrated' \in {calibrated, TRUE}
    /\ IF watching
       THEN /\ Unused # {}
            /\ backend' = None
            /\ Stop(backend)
            /\ restarting' = TRUE
       ELSE UNCHANGED <<backend, worker, joining, queue, restarting>>
    /\ UNCHANGED <<screen, updateInstalled, watching, fault, note, lastBook, stored, mishaps>>

\* set_profile: the other profile is or is not calibrated, and a watch that is
\* running goes on with the old one.
SwitchesProfile ==
    /\ joining = None
    /\ calibrated' = ~calibrated
    /\ UNCHANGED <<screen, updateInstalled, shell, worker, queue, stored, mishaps>>

\* The join returns.
Joined ==
    /\ joining # None /\ ~Alive(joining)
    /\ joining' = None
    /\ restarting' = FALSE
    /\ IF restarting THEN Start ELSE UNCHANGED <<backend, worker, queue>>
    /\ UNCHANGED <<screen, settings, watching, fault, note, lastBook, stored, mishaps>>

\* The part of tick that drains the channel, the events taken in their order.
LastOf(events, kinds, otherwise) ==
    LET at == {i \in DOMAIN events : events[i].kind \in kinds}
    IN  IF at = {} THEN otherwise
        ELSE events[CHOOSE i \in at : \A j \in at : j <= i].what

Ends_OnStoppedOnly(events) == \E i \in DOMAIN events : events[i].kind = "stopped"
Ends(events) == \E i \in DOMAIN events : events[i].kind \in {"stopped", "fault"}

NoticeAfter(current, incoming, stillWatching) ==
    IF ~stillWatching THEN None
    ELSE IF incoming = None THEN current ELSE incoming

Drains ==
    /\ joining = None /\ backend # None /\ queue[backend] # <<>>
    /\ LET events == queue[backend] IN
          /\ fault' = LastOf(events, {"fault"}, fault)
          /\ lastBook' = LastOf(events, {"accepted"}, lastBook)
          /\ note' = NoticeAfter(note, LastOf(events, {"warning"}, None), ~Ends(events))
          /\ IF Ends(events)
             THEN /\ watching' = FALSE
                  /\ backend' = None
                  /\ Stop(backend)
             ELSE /\ queue' = [queue EXCEPT ![backend] = <<>>]
                  /\ UNCHANGED <<watching, backend, worker, joining>>
    /\ UNCHANGED <<screen, settings, restarting, stored, mishaps>>

-----------------------------------------------------------------------------
WorkerStep(s) ==
    \/ Opens(s) \/ Stops(s) \/ Looks(s)
    \/ CapturesNeed(s) \/ CapturesHave(s)
    \/ CapturesTablesAgain(s) \/ CapturesNeedAgain(s) \/ CapturesHaveAgain(s)
    \/ Persists(s) \/ MappingFails(s)

WorkerFails(s) ==
    OpenFails(s) \/ BudgetRunsOut(s) \/ CaptureFails(s) \/ PersistFails(s) \/ Dies(s)

User == ToggleOff \/ ToggleRefused \/ ToggleOn \/ Calibrates \/ SwitchesProfile

Next ==
    \/ \E s \in Sessions : WorkerStep(s) \/ WorkerFails(s)
    \/ PanelChanges \/ UpdateInstalls
    \/ User \/ Joined \/ Drains

Spec == Init /\ [][Next]_vars

\* The thread is scheduled and its system calls return; the interface ticks.
\* The player, the user and the updater do as they please.
Fairness ==
    /\ \A s \in Sessions : WF_vars(WorkerStep(s))
    /\ WF_vars(Joined) /\ WF_vars(Drains)

FairSpec == Spec /\ Fairness

-----------------------------------------------------------------------------
(* Properties.                                                             *)

Places == {"none", "opening", "watch", "ended", "died"} \cup Reading
Fingerprints == Tables \cup {OrderEntry}
Frames == [need : Names \cup {None}, have : Names \cup {None}, tables : Fingerprints \cup {None}]
Gates == [handled : Fingerprints \cup {None}, pending : Fingerprints \cup {None},
          last : Books \cup {None}]
Readings == [frames : Frames, second : Frames, book : Books \cup {None},
             shown : SUBSET Panels, slips : Nat]
Workers == [at : Places, cancel : BOOLEAN, gate : Gates, reading : Readings]
Faults == {"none", "startup", "not calibrated", "open", "died", "not stored"}

TypeOK ==
    /\ screen \in Panels
    /\ calibrated \in BOOLEAN /\ updateInstalled \in BOOLEAN
    /\ watching \in BOOLEAN /\ restarting \in BOOLEAN
    /\ backend \in Sessions \cup {None} /\ joining \in Sessions \cup {None}
    /\ fault \in Faults
    /\ note \in Books \cup {None} /\ lastBook \in Books \cup {None}
    /\ worker \in [Sessions -> Workers]
    /\ \A s \in Sessions :
          /\ worker[s].reading.slips <= MaxMishaps
          /\ \A i \in DOMAIN queue[s] :
                queue[s][i].kind \in {"accepted", "warning", "fault", "stopped"}
    /\ stored \subseteq [session : Sessions, book : Books, slips : 0 .. MaxMishaps, shown : BOOLEAN]
    /\ mishaps \in 0 .. MaxMishaps

\* The double read earns its cost: a book that was never on the screen takes
\* two accidents within one reading, a change of the panel or a misread each.
OneSlipIsNeverStored == \A r \in stored : r.slips <= 1 => r.shown

\* A book the session would skip as a duplicate is in the database, unless it
\* is about to be written or the session is being brought down over it: the
\* signature is remembered before the write that may fail (session.rs:187).
DuplicatesWereStored ==
    \A s \in Sessions :
        Alive(s) /\ worker[s].gate.last # None =>
            \/ \E r \in stored : r.session = s /\ r.book = worker[s].gate.last
            \/ worker[s].at = "persist"
            \/ worker[s].cancel
            \/ \E i \in DOMAIN queue[s] : queue[s][i].kind = "fault"

\* What the interface shows or is told of a book is true of the database: the
\* last book and the warning that says it was stored anyway (pipeline.rs:66).
ToldOnlyWhatIsStored ==
    LET told == {lastBook, note} \cup
                UNION {{queue[s][i].what : i \in {j \in DOMAIN queue[s] :
                                queue[s][j].kind \in {"accepted", "warning"}}} : s \in Sessions}
    IN  \A book \in told \ {None} : \E r \in stored : r.book = book

\* At most one thread captures the screen and writes to the database, and it
\* is the one the interface holds or waits for: never two watches at once,
\* however often the user toggles and calibrates.
OneWorkerAtATime == \A s \in Sessions : Alive(s) => s = backend \/ s = joining

\* The page says "watching" exactly while there is a backend to stop, and an
\* identity note is only shown while it does.
WatchingHasABackend ==
    /\ joining = None => (watching <=> backend # None)
    /\ note # None => watching

\* A thread that has ended by itself, for whatever reason, does not leave the
\* interface watching it (FaultOnDrop, backend.rs:211).
DeadWorkerIsNoticed ==
    \A s \in Sessions : backend = s /\ worker[s].at \in {"ended", "died"} ~> backend # s

\* A stop never hangs: the interface comes back from every join.
StopReturns == joining # None ~> joining = None

\* A watch that goes on gets round to whatever stays on the screen, and then
\* rests: it neither recognizes the same frame over and over nor misses it.
WatchSettles ==
    \A s \in Sessions :
        <>[](Alive(s) /\ ~worker[s].cancel) =>
            <>[](worker[s].at = "watch" /\ worker[s].gate.handled = screen.tables)

\* The fault on the page is what happened: it says that the thread died only
\* when it did.
FaultNamesItsCause ==
    fault = "died" => \E s \in Sessions : worker[s].at = "died"

\* Nothing is read until the three regions are framed: no thread is started on
\* a profile that is not calibrated.
StartsCalibrated ==
    \A s \in Sessions : worker[s].at = "none" /\ worker'[s].at = "opening" => calibrated
EveryWatchIsCalibrated == [][StartsCalibrated]_vars
=============================================================================
