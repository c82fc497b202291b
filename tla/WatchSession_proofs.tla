------------------------ MODULE WatchSession_proofs ------------------------
(***************************************************************************)
(* Proofs about WatchSession, for any currencies, panels, number of        *)
(* watches and mishaps.                                                    *)
(*                                                                         *)
(* Owned says who has a thread: the interface holds or waits for the only  *)
(* one alive.  Careful says what a reading knows after how many slips.     *)
(* Informed says that only stored rows are told of, and that whatever a    *)
(* thread skips is stored, or the thread is about to end.                  *)
(***************************************************************************)
EXTENDS WatchSession, SequenceTheorems, WellFoundedInduction, TLAPS

Shape ==
    /\ screen \in Panels
    /\ watching \in BOOLEAN /\ restarting \in BOOLEAN
    /\ backend \in Sessions \cup {None} /\ joining \in Sessions \cup {None}
    /\ worker \in [Sessions -> Workers]

\* While the interface waits for a thread it holds none, and it says that it
\* watches if it is going to start another, for which a session is left.
Owned ==
    /\ OneWorkerAtATime
    /\ WatchingHasABackend
    /\ joining # None => backend = None /\ (watching <=> restarting)
    /\ joining = None => ~restarting
    /\ restarting => Unused # {}

LEMMA NoneIsNoSession == None \notin Sessions
BY WatchAssumption

-----------------------------------------------------------------------------
(* The gate keeps its type.                                                *)

LEMMA GateTypes ==
    ASSUME NEW gate \in Gates
    PROVE  /\ MarkHandled(gate) \in Gates
           /\ \A f \in Fingerprints : OnFingerprint(gate, f) \in Gates
           /\ \A b \in Books : Emitted(gate, b) \in Gates
BY DEF Gates, MarkHandled, OnFingerprint, Emitted

LEMMA FreshTypes == NewGate \in Gates /\ NoFrames \in Frames /\ NoReading \in Readings /\ NoWorker \in Workers
<1>1. NewGate \in Gates
  BY DEF NewGate, Gates
<1>2. NoFrames \in Frames
  BY DEF NoFrames, Frames
<1>3. NoReading \in Readings
  BY <1>2 DEF NoReading, Readings
<1> QED
  BY <1>1, <1>2, <1>3 DEF NoWorker, Workers, Places

\* A panel is a frame, and the frame that shows it whole is the panel.
LEMMA PanelsAreFrames ==
    ASSUME NEW p \in Panels
    PROVE  /\ p.need \in Names /\ p.have \in Names /\ p.tables \in Fingerprints
           /\ \A f \in Frames :
                 f.need = p.need /\ f.have = p.have /\ f.tables = p.tables => f = p
<1>1. p \in [need : Names, have : Names, tables : Fingerprints]
  BY WatchAssumption DEF Fingerprints
<1> QED BY <1>1 DEF Frames

-----------------------------------------------------------------------------
(* What a reading knows.                                                   *)

\* Without a slip the first frames are the panel on the screen.
FirstPass(w) ==
    w.at \in {"need", "have"} =>
        /\ screen \in w.reading.shown
        /\ w.reading.slips = 0 =>
              /\ w.reading.frames.tables = screen.tables
              /\ w.at = "have" => w.reading.frames.need = screen.need

SecondIsCurrent(w) ==
    /\ w.at \in {"need again", "have again"} => w.reading.second.tables = screen.tables
    /\ w.at = "have again" => w.reading.second.need = screen.need

\* Without a slip the first book is the panel on the screen; after one slip it
\* was on the screen, or the second frames so far are the panel there now.
SecondPass(w) ==
    w.at \in {"tables again", "need again", "have again"} =>
        /\ screen \in w.reading.shown
        /\ w.reading.slips = 0 => w.reading.book = screen /\ SecondIsCurrent(w)
        /\ w.reading.slips = 1 => w.reading.book \in w.reading.shown \/ SecondIsCurrent(w)

Confirming(w) ==
    w.at = "persist" =>
        /\ w.reading.book \in Books
        /\ w.reading.slips <= 1 => w.reading.book \in w.reading.shown

Careful(w) == FirstPass(w) /\ SecondPass(w) /\ Confirming(w)

IdlePlaces == {"none", "opening", "watch", "ended", "died"}

LEMMA IdleIsCareful ==
    ASSUME NEW w, w.at \in IdlePlaces PROVE Careful(w)
BY DEF Careful, FirstPass, SecondPass, Confirming, IdlePlaces

-----------------------------------------------------------------------------
(* What a step of the worker may do.                                       *)

\* The thread of session s becomes w, by a step that changes nothing of the
\* interface and the screen; it was alive, and knows what it should if it did.
Becomes(s, w) ==
    /\ w \in Workers
    /\ Alive(s)
    /\ Careful(worker[s]) => Careful(w)
    /\ worker' = [worker EXCEPT ![s] = w]
    /\ UNCHANGED <<screen, settings, shell>>

LEMMA MovesTo ==
    ASSUME Shape, NEW s \in Sessions, Alive(s), NEW at \in IdlePlaces, Moves(s, at),
           UNCHANGED <<screen, settings, shell>>
    PROVE  \E w : Becomes(s, w)
<1> DEFINE w == [worker[s] EXCEPT !.at = at]
<1>1. w \in Workers /\ w.at = at
  BY DEF Shape, Workers, IdlePlaces, Places
<1>2. worker' = [worker EXCEPT ![s] = w]
  BY DEF Shape, Moves
<1> HIDE DEF w
<1>3. Careful(w)
  BY <1>1, IdleIsCareful
<1> QED BY <1>1, <1>2, <1>3 DEF Becomes

LEMMA GivesUpTo ==
    ASSUME Shape, NEW s \in Sessions, Alive(s), GivesUp(s), UNCHANGED <<screen, settings, shell>>
    PROVE  \E w : Becomes(s, w)
<1> DEFINE w == [worker[s] EXCEPT !.at = "watch", !.gate = MarkHandled(worker[s].gate),
                                  !.reading = NoReading]
<1>1. worker[s] \in Workers
  BY DEF Shape
<1>2. worker' = [worker EXCEPT ![s] = w]
  BY DEF GivesUp
<1>3. MarkHandled(worker[s].gate) \in Gates /\ NoReading \in Readings
  BY <1>1, GateTypes, FreshTypes DEF Workers
<1>4. w \in Workers /\ w.at = "watch"
  BY <1>1, <1>3 DEF Workers, Places
<1> HIDE DEF w
<1>5. Careful(w)
  BY <1>4, IdleIsCareful DEF IdlePlaces
<1> QED BY <1>2, <1>4, <1>5 DEF Becomes

LEMMA BackTo ==
    ASSUME Shape, NEW s \in Sessions, Alive(s), BackToTheLoop(s),
           UNCHANGED <<screen, settings, shell>>
    PROVE  \E w : Becomes(s, w)
<1> DEFINE w == [worker[s] EXCEPT !.at = "watch", !.reading = NoReading]
<1>1. worker[s] \in Workers
  BY DEF Shape
<1>2. worker' = [worker EXCEPT ![s] = w]
  BY <1>1 DEF BackToTheLoop, Shape
<1>3. w \in Workers /\ w.at = "watch"
  BY <1>1, FreshTypes DEF Workers, Places
<1> HIDE DEF w
<1>4. Careful(w)
  BY <1>3, IdleIsCareful DEF IdlePlaces
<1> QED BY <1>2, <1>3, <1>4 DEF Becomes

LEMMA LooksBecomes ==
    ASSUME Shape, NEW s \in Sessions, Looks(s)
    PROVE  \E w : Becomes(s, w)
<1> DEFINE gate == worker[s].gate
           next == [worker[s] EXCEPT !.gate = OnFingerprint(gate, screen.tables)]
           reading == [NoReading EXCEPT !.frames.tables = screen.tables, !.shown = {screen}]
           go == [next EXCEPT !.at = "need", !.reading = reading]
           w == IF GateStep(gate, screen.tables) # "recognize" THEN next ELSE go
<1>1. worker[s] \in Workers /\ worker[s].at = "watch" /\ screen.tables \in Fingerprints
  BY PanelsAreFrames DEF Shape, Looks
<1>2. next \in Workers /\ next.at = "watch"
  BY <1>1, GateTypes DEF Workers
<1>3. reading \in Readings /\ reading.shown = {screen} /\ reading.frames.tables = screen.tables
  BY <1>1, FreshTypes DEF Readings, Frames, Shape
<1>4. worker' = [worker EXCEPT ![s] = w] /\ UNCHANGED <<screen, settings, shell>>
  BY DEF Looks
<1> HIDE DEF next, reading
<1>5. go \in Workers /\ go.at = "need" /\ go.reading = reading
  BY <1>2, <1>3 DEF Workers, Places, Reading
<1>6. Careful(next)
  BY <1>2, IdleIsCareful DEF IdlePlaces
<1> HIDE DEF go
<1>7. Careful(go)
  BY <1>3, <1>5 DEF Careful, FirstPass, SecondPass, Confirming
<1>8. w \in Workers /\ Careful(w)
  BY <1>2, <1>5, <1>6, <1>7
<1>9. Alive(s)
  BY <1>1 DEF Alive
<1> QED BY <1>4, <1>8, <1>9 DEF Becomes

LEMMA CapturesNeedBecomes ==
    ASSUME Shape, NEW s \in Sessions, CapturesNeed(s)
    PROVE  \E w : Becomes(s, w)
<1> DEFINE w == [worker[s] EXCEPT !.at = "have", !.reading.frames.need = screen.need]
<1>1. worker[s] \in Workers /\ worker[s].at = "need" /\ screen.need \in Names
  BY PanelsAreFrames DEF Shape, CapturesNeed
<1>2. worker' = [worker EXCEPT ![s] = w] /\ UNCHANGED <<screen, settings, shell>>
  BY DEF CapturesNeed, Shape
<1>3. /\ w \in Workers /\ w.at = "have"
      /\ w.reading.frames.need = screen.need
      /\ w.reading.frames.tables = worker[s].reading.frames.tables
      /\ w.reading.shown = worker[s].reading.shown
      /\ w.reading.slips = worker[s].reading.slips
  BY <1>1 DEF Workers, Places, Reading, Readings, Frames
<1> HIDE DEF w
<1>4. Careful(worker[s]) => Careful(w)
  BY <1>1, <1>3 DEF Careful, FirstPass, SecondPass, Confirming
<1> QED BY <1>1, <1>2, <1>3, <1>4 DEF Becomes, Alive, Reading

LEMMA CapturesTablesAgainBecomes ==
    ASSUME Shape, NEW s \in Sessions, CapturesTablesAgain(s)
    PROVE  \E w : Becomes(s, w)
<1> DEFINE w == [worker[s] EXCEPT !.at = "need again", !.reading.second.tables = screen.tables]
<1>1. worker[s] \in Workers /\ worker[s].at = "tables again" /\ screen.tables \in Fingerprints
  BY PanelsAreFrames DEF Shape, CapturesTablesAgain
<1>2. worker' = [worker EXCEPT ![s] = w] /\ UNCHANGED <<screen, settings, shell>>
  BY DEF CapturesTablesAgain, Shape
<1>3. /\ w \in Workers /\ w.at = "need again"
      /\ w.reading.second.tables = screen.tables
      /\ w.reading.book = worker[s].reading.book
      /\ w.reading.shown = worker[s].reading.shown
      /\ w.reading.slips = worker[s].reading.slips
  BY <1>1 DEF Workers, Places, Reading, Readings, Frames
<1> HIDE DEF w
<1>4. Careful(worker[s]) => Careful(w)
  BY <1>1, <1>3 DEF Careful, FirstPass, SecondPass, SecondIsCurrent, Confirming
<1> QED BY <1>1, <1>2, <1>3, <1>4 DEF Becomes, Alive, Reading

LEMMA CapturesNeedAgainBecomes ==
    ASSUME Shape, NEW s \in Sessions, CapturesNeedAgain(s)
    PROVE  \E w : Becomes(s, w)
<1> DEFINE w == [worker[s] EXCEPT !.at = "have again", !.reading.second.need = screen.need]
<1>1. worker[s] \in Workers /\ worker[s].at = "need again" /\ screen.need \in Names
  BY PanelsAreFrames DEF Shape, CapturesNeedAgain
<1>2. worker' = [worker EXCEPT ![s] = w] /\ UNCHANGED <<screen, settings, shell>>
  BY DEF CapturesNeedAgain, Shape
<1>3. /\ w \in Workers /\ w.at = "have again"
      /\ w.reading.second.need = screen.need
      /\ w.reading.second.tables = worker[s].reading.second.tables
      /\ w.reading.book = worker[s].reading.book
      /\ w.reading.shown = worker[s].reading.shown
      /\ w.reading.slips = worker[s].reading.slips
  BY <1>1 DEF Workers, Places, Reading, Readings, Frames
<1> HIDE DEF w
<1>4. Careful(worker[s]) => Careful(w)
  BY <1>1, <1>3 DEF Careful, FirstPass, SecondPass, SecondIsCurrent, Confirming
<1> QED BY <1>1, <1>2, <1>3, <1>4 DEF Becomes, Alive, Reading

\* A recognizable frame that shows the panel on the screen reads as that panel.
LEMMA WholeFramesReadRight ==
    ASSUME Shape, NEW frames \in Frames, NEW book \in Books, ReadsRight(frames, book),
           frames.need = screen.need, frames.have = screen.have, frames.tables = screen.tables
    PROVE  book = screen
<1>1. frames = screen
  BY PanelsAreFrames DEF Shape
<1> QED BY <1>1 DEF ReadsRight, Recognizable, ParsesAs

LEMMA CapturesHaveBecomes ==
    ASSUME Shape, NEW s \in Sessions, CapturesHave(s)
    PROVE  \E w : Becomes(s, w)
<1> DEFINE frames == [worker[s].reading.frames EXCEPT !.have = screen.have]
           slips == worker[s].reading.slips
           reads(book, seen) ==
               [worker[s] EXCEPT !.at = "tables again",
                   !.reading = [worker[s].reading EXCEPT !.frames = frames, !.book = book,
                                                         !.slips = seen]]
<1>1. /\ worker[s] \in Workers /\ worker[s].at = "have" /\ screen.have \in Names
      /\ UNCHANGED <<screen, settings, shell>>
  BY PanelsAreFrames DEF Shape, CapturesHave
<1>2. Alive(s)
  BY <1>1 DEF Alive, Reading
<1>3. /\ frames \in Frames /\ slips \in Nat
      /\ frames.have = screen.have
      /\ frames.need = worker[s].reading.frames.need
      /\ frames.tables = worker[s].reading.frames.tables
  BY <1>1 DEF Workers, Readings, Frames
<1>4. \/ GivesUp(s)
      \/ \E book \in Books : ReadsRight(frames, book) /\ worker' = [worker EXCEPT ![s] = reads(book, slips)]
      \/ \E book \in Books : worker' = [worker EXCEPT ![s] = reads(book, slips + 1)]
  BY DEF CapturesHave, Shape
<1> HIDE DEF frames, slips
<1>5. ASSUME NEW book \in Books, NEW seen \in Nat
      PROVE  /\ reads(book, seen) \in Workers
             /\ reads(book, seen).at = "tables again"
             /\ reads(book, seen).reading.book = book
             /\ reads(book, seen).reading.slips = seen
             /\ reads(book, seen).reading.shown = worker[s].reading.shown
  BY <1>1, <1>3 DEF Workers, Places, Reading, Readings
<1> HIDE DEF reads
<1>6. CASE GivesUp(s)
  BY <1>1, <1>2, <1>6, GivesUpTo
<1>7. ASSUME NEW book \in Books, ReadsRight(frames, book),
             worker' = [worker EXCEPT ![s] = reads(book, slips)]
      PROVE  \E w : Becomes(s, w)
  <2> DEFINE w == reads(book, slips)
  <2>1. /\ w \in Workers /\ w.at = "tables again"
        /\ w.reading.book = book /\ w.reading.slips = slips
        /\ w.reading.shown = worker[s].reading.shown
    BY <1>3, <1>5
  <2>2. slips = 0 /\ FirstPass(worker[s]) => book = screen
    BY <1>1, <1>3, <1>7, WholeFramesReadRight DEF FirstPass, slips
  <2> HIDE DEF w
  <2>3. Careful(worker[s]) => Careful(w)
    BY <1>1, <2>1, <2>2 DEF Careful, FirstPass, SecondPass, SecondIsCurrent, Confirming
  <2>4. worker' = [worker EXCEPT ![s] = w]
    BY <1>7 DEF w
  <2> QED BY <1>1, <1>2, <2>1, <2>3, <2>4 DEF Becomes
<1>8. ASSUME NEW book \in Books, worker' = [worker EXCEPT ![s] = reads(book, slips + 1)]
      PROVE  \E w : Becomes(s, w)
  <2> DEFINE w == reads(book, slips + 1)
  <2>0. slips + 1 \in Nat /\ slips + 1 # 0
    BY <1>3
  <2>1. /\ w \in Workers /\ w.at = "tables again"
        /\ w.reading.book = book /\ w.reading.slips = slips + 1
        /\ w.reading.shown = worker[s].reading.shown
    BY <1>5, <2>0
  <2> HIDE DEF w
  <2>2. Careful(worker[s]) => Careful(w)
    BY <1>1, <2>0, <2>1 DEF Careful, FirstPass, SecondPass, SecondIsCurrent, Confirming
  <2>3. worker' = [worker EXCEPT ![s] = w]
    BY <1>8 DEF w
  <2> QED BY <1>1, <1>2, <2>1, <2>2, <2>3 DEF Becomes
<1> QED BY <1>4, <1>6, <1>7, <1>8

\* A confirmed book with at most one slip was on the screen.
LEMMA AcceptsBecomes ==
    ASSUME Shape, NEW s \in Sessions, Alive(s), NEW slips \in Nat,
           worker[s].reading.book \in Books, Accepts(s, slips),
           Careful(worker[s]) /\ slips <= 1 => worker[s].reading.book \in worker[s].reading.shown,
           UNCHANGED <<screen, settings, shell>>
    PROVE  \E w : Becomes(s, w)
<1> DEFINE gate == MarkHandled(worker[s].gate)
           book == worker[s].reading.book
           keeps == [worker[s] EXCEPT !.at = "persist", !.gate = Emitted(gate, book),
                                      !.reading.slips = slips]
           drops == [worker[s] EXCEPT !.at = "watch", !.gate = gate, !.reading = NoReading]
<1>1. worker[s] \in Workers
  BY DEF Shape
<1>2. gate \in Gates /\ Emitted(gate, book) \in Gates
  BY <1>1, GateTypes DEF Workers
<1>3. worker' = [worker EXCEPT ![s] = keeps] \/ worker' = [worker EXCEPT ![s] = drops]
  BY DEF Accepts, Shape
<1> HIDE DEF gate
<1>4. /\ keeps \in Workers /\ keeps.at = "persist" /\ keeps.reading.book = book
      /\ keeps.reading.slips = slips /\ keeps.reading.shown = worker[s].reading.shown
  BY <1>1, <1>2 DEF Workers, Places, Reading, Readings
<1>5. drops \in Workers /\ drops.at = "watch"
  BY <1>1, <1>2, FreshTypes DEF Workers, Places
<1> HIDE DEF keeps, drops
<1>6. Careful(drops)
  BY <1>5, IdleIsCareful DEF IdlePlaces
<1>7. Careful(worker[s]) => Careful(keeps)
  BY <1>4 DEF Careful, FirstPass, SecondPass, Confirming
<1> QED BY <1>3, <1>4, <1>5, <1>6, <1>7 DEF Becomes

LEMMA CapturesHaveAgainBecomes ==
    ASSUME Shape, NEW s \in Sessions, CapturesHaveAgain(s)
    PROVE  \E w : Becomes(s, w)
<1> DEFINE second == [worker[s].reading.second EXCEPT !.have = screen.have]
           slips == worker[s].reading.slips
           first == worker[s].reading.book
           shown == worker[s].reading.shown
<1>1. /\ worker[s] \in Workers /\ worker[s].at = "have again" /\ screen.have \in Names
      /\ UNCHANGED <<screen, settings, shell>>
  BY PanelsAreFrames DEF Shape, CapturesHaveAgain
<1>2. Alive(s)
  BY <1>1 DEF Alive, Reading
<1>3. /\ second \in Frames /\ slips \in Nat
      /\ second.have = screen.have
      /\ second.need = worker[s].reading.second.need
      /\ second.tables = worker[s].reading.second.tables
  BY <1>1 DEF Workers, Readings, Frames
<1>4. \/ GivesUp(s)
      \/ \E book \in Books :
            ReadsRight(second, book) /\ Confirmed(s, second, book) /\ Accepts(s, slips)
      \/ \E book \in Books : Confirmed(s, second, book) /\ Accepts(s, slips + 1)
  BY DEF CapturesHaveAgain
<1> HIDE DEF second
<1>5. Careful(worker[s]) =>
         /\ screen \in shown
         /\ slips = 0 => first = screen
         /\ slips = 1 => first \in shown \/ (second.tables = screen.tables /\ second.need = screen.need)
  BY <1>1, <1>3 DEF Careful, SecondPass, SecondIsCurrent
<1> HIDE DEF slips
<1>6. CASE GivesUp(s)
  BY <1>1, <1>2, <1>6, GivesUpTo
<1>7. ASSUME NEW book \in Books, ReadsRight(second, book), Confirmed(s, second, book),
             Accepts(s, slips)
      PROVE  \E w : Becomes(s, w)
  <2>1. book = first
    BY <1>7 DEF Confirmed
  <2>2. second.tables = screen.tables /\ second.need = screen.need => book = screen
    BY <1>3, <1>7, WholeFramesReadRight
  <2>3. slips <= 1 => slips = 0 \/ slips = 1
    BY <1>3
  <2>4. Careful(worker[s]) /\ slips <= 1 => first \in shown
    BY <1>5, <2>1, <2>2, <2>3
  <2> QED BY <1>1, <1>2, <1>3, <1>7, <2>1, <2>4, AcceptsBecomes
<1>8. ASSUME NEW book \in Books, Confirmed(s, second, book), Accepts(s, slips + 1)
      PROVE  \E w : Becomes(s, w)
  <2>1. book = first
    BY <1>8 DEF Confirmed
  <2>2. slips + 1 \in Nat /\ (slips + 1 <= 1 => slips = 0)
    BY <1>3
  <2>3. Careful(worker[s]) /\ slips + 1 <= 1 => first \in shown
    BY <1>5, <2>2
  <2> QED BY <1>1, <1>2, <1>8, <2>1, <2>2, <2>3, AcceptsBecomes
<1> QED BY <1>4, <1>6, <1>7, <1>8

\* Every step of a worker, good or bad.
LEMMA WorkerBecomes ==
    ASSUME Shape, NEW s \in Sessions, WorkerStep(s) \/ WorkerFails(s)
    PROVE  \E w : Becomes(s, w)
<1>1. CASE Opens(s)
  BY <1>1, MovesTo DEF Opens, Alive, IdlePlaces
<1>2. CASE OpenFails(s)
  BY <1>2, MovesTo DEF OpenFails, Alive, IdlePlaces
<1>3. CASE Stops(s) \/ BudgetRunsOut(s)
  BY <1>3, MovesTo DEF Stops, BudgetRunsOut, Leaves, Alive, IdlePlaces
<1>4. CASE Looks(s)
  BY <1>4, LooksBecomes
<1>5. CASE CapturesNeed(s)
  BY <1>5, CapturesNeedBecomes
<1>6. CASE CapturesHave(s)
  BY <1>6, CapturesHaveBecomes
<1>7. CASE CapturesTablesAgain(s)
  BY <1>7, CapturesTablesAgainBecomes
<1>8. CASE CapturesNeedAgain(s)
  BY <1>8, CapturesNeedAgainBecomes
<1>9. CASE CapturesHaveAgain(s)
  BY <1>9, CapturesHaveAgainBecomes
<1>10. CASE CaptureFails(s)
  BY <1>10, GivesUpTo DEF CaptureFails, Alive
<1>11. CASE Persists(s)
  BY <1>11, BackTo DEF Persists, Alive, Reading
<1>12. CASE MappingFails(s) \/ PersistFails(s)
  BY <1>12, BackTo DEF MappingFails, PersistFails, NotStored, Alive, Reading
<1>13. CASE Dies(s)
  BY <1>13, MovesTo DEF Dies, IdlePlaces
<1> QED
  BY <1>1, <1>2, <1>3, <1>4, <1>5, <1>6, <1>7, <1>8, <1>9, <1>10, <1>11, <1>12, <1>13
  DEF WorkerStep, WorkerFails
-----------------------------------------------------------------------------
(* A step of a worker leaves the threads owned and the readings careful.   *)

AllCareful == \A s \in Sessions : Careful(worker[s])

LEMMA BecomesKeepsOwned ==
    ASSUME Shape, Owned, NEW s \in Sessions, NEW w, Becomes(s, w)
    PROVE  Shape' /\ Owned'
<1>1. /\ worker' \in [Sessions -> Workers]
      /\ \A t \in Sessions : worker'[t] = IF t = s THEN w ELSE worker[t]
  BY DEF Becomes, Shape
<1>2. Shape'
  BY <1>1 DEF Becomes, Shape, shell
<1>3. \A t \in Sessions : Alive(t)' => Alive(t)
  BY <1>1 DEF Becomes, Alive
<1>4. OneWorkerAtATime'
  BY <1>3 DEF Owned, OneWorkerAtATime, Becomes, shell
<1>5. Unused \subseteq Unused'
  BY <1>1 DEF Unused, Becomes, Alive, Reading
<1>6. WatchingHasABackend' /\ (joining # None => backend = None /\ (watching <=> restarting))'
      /\ (joining = None => ~restarting)'
  BY DEF Owned, WatchingHasABackend, Becomes, shell
<1>7. (restarting => Unused # {})'
  BY <1>5 DEF Owned, Becomes, shell
<1> QED BY <1>2, <1>4, <1>6, <1>7 DEF Owned

LEMMA BecomesKeepsCareful ==
    ASSUME Shape, AllCareful, NEW s \in Sessions, NEW w, Becomes(s, w)
    PROVE  AllCareful'
<1>1. screen' = screen /\ Careful(w)
  BY DEF Becomes, AllCareful
<1>2. ASSUME NEW t \in Sessions PROVE Careful(worker[t])'
  <2>1. worker'[t] = w \/ worker'[t] = worker[t]
    BY DEF Becomes, Shape
  <2>2. Careful(worker[t])
    BY DEF AllCareful
  <2>3. Careful(worker'[t])
    BY <1>1, <2>1, <2>2
  <2>4. FirstPass(worker[t])' /\ Confirming(worker[t])'
    BY <1>1, <2>3 DEF Careful, FirstPass, Confirming
  <2>5. SecondPass(worker[t])'
    BY <1>1, <2>3 DEF Careful, SecondPass, SecondIsCurrent
  <2> QED BY <2>4, <2>5 DEF Careful
<1> QED BY <1>2 DEF AllCareful

-----------------------------------------------------------------------------
(* The world's and the interface's steps.                                  *)

LEMMA OneMore ==
    ASSUME NEW n \in Nat
    PROVE  n + 1 \in Nat /\ n + 1 # 0 /\ (n + 1 = 1 => n = 0)
OBVIOUS

\* When the panel changes, a reading has one slip more and one panel more: what
\* was true of the panel on the screen is now true of one that was shown.
LEMMA PanelChangesKeeps ==
    ASSUME Shape, Owned, AllCareful, PanelChanges
    PROVE  Shape' /\ Owned' /\ AllCareful'
<1> PICK panel \in Panels :
        /\ screen' = panel
        /\ worker' = [s \in Sessions |->
               IF worker[s].at \in Reading \ {"persist"}
               THEN [worker[s] EXCEPT !.reading.shown = @ \cup {panel}, !.reading.slips = @ + 1]
               ELSE worker[s]]
  BY DEF PanelChanges
<1>1. UNCHANGED shell
  BY DEF PanelChanges
<1>2. ASSUME NEW s \in Sessions
      PROVE  /\ worker'[s] \in Workers
             /\ worker'[s].at = worker[s].at
             /\ Careful(worker[s])'
  <2>1. worker[s] \in Workers /\ Careful(worker[s])
    BY DEF Shape, AllCareful
  <2>2. CASE worker[s].at \in Reading \ {"persist"}
    <3> DEFINE old == worker[s].reading
               reading == [old EXCEPT !.shown = old.shown \cup {panel}, !.slips = old.slips + 1]
               w == [worker[s] EXCEPT !.reading = reading]
    <3>1. worker'[s] = w
      BY <2>1, <2>2 DEF Workers, Readings
    <3>2. old \in Readings /\ old.slips \in Nat /\ old.shown \subseteq Panels
      BY <2>1 DEF Workers, Readings
    <3> HIDE DEF old
    <3>3. old.slips + 1 \in Nat /\ old.slips + 1 # 0 /\ (old.slips + 1 = 1 => old.slips = 0)
      BY <3>2, OneMore
    <3>4. /\ reading \in Readings
          /\ reading.book = old.book /\ reading.second = old.second
          /\ reading.shown = old.shown \cup {panel}
          /\ reading.slips = old.slips + 1
      BY <3>2, <3>3 DEF Readings
    <3> HIDE DEF reading
    <3>5. w \in Workers /\ w.at = worker[s].at /\ w.reading = reading
      BY <2>1, <3>4 DEF Workers
    <3> HIDE DEF w
    <3>6. FirstPass(worker[s])'
      BY <2>1, <2>2, <3>1, <3>3, <3>4, <3>5 DEF Careful, FirstPass
    <3>7. SecondPass(worker[s])'
      <4>1. old.slips = 0 /\ w.at \in {"tables again", "need again", "have again"} =>
               old.book = screen /\ screen \in old.shown
        BY <2>1, <3>5 DEF Careful, SecondPass, old
      <4>2. /\ worker'[s] = w
            /\ w.reading.shown = old.shown \cup {panel} /\ w.reading.book = old.book
            /\ w.reading.slips # 0
            /\ w.reading.slips = 1 => old.slips = 0
        BY <3>1, <3>3, <3>4, <3>5
      <4>3. w.at \in {"tables again", "need again", "have again"} /\ w.reading.slips = 1 =>
               w.reading.book \in w.reading.shown
        BY <4>1, <4>2
      <4> QED BY <4>2, <4>3 DEF SecondPass
    <3>8. Confirming(worker[s])'
      BY <2>2, <3>1, <3>5 DEF Confirming
    <3> QED BY <3>1, <3>5, <3>6, <3>7, <3>8 DEF Careful
  <2>3. CASE worker[s].at \notin Reading \ {"persist"}
    <3>1. worker'[s] = worker[s]
      BY <2>3
    <3> QED
      BY <2>1, <2>3, <3>1
      DEF Careful, FirstPass, SecondPass, SecondIsCurrent, Confirming, Reading
  <2> QED BY <2>2, <2>3
<1>3. Shape'
  BY <1>1, <1>2 DEF Shape, shell
<1>4. OneWorkerAtATime' /\ Unused' = Unused
  BY <1>1, <1>2 DEF Owned, OneWorkerAtATime, Alive, Unused, shell
<1>5. Owned'
  BY <1>1, <1>4 DEF Owned, WatchingHasABackend, shell
<1> QED BY <1>2, <1>3, <1>5 DEF AllCareful

\* A step that leaves the threads and the screen alone keeps the readings careful.
LEMMA SameWorkersCareful ==
    ASSUME AllCareful, UNCHANGED <<screen, worker>>
    PROVE  AllCareful'
<1>1. ASSUME NEW s \in Sessions PROVE Careful(worker[s])'
  BY DEF AllCareful, Careful, FirstPass, SecondPass, SecondIsCurrent, Confirming
<1> QED BY <1>1 DEF AllCareful

\* Stopping a thread raises its flag and changes nothing of what it does.
LEMMA StopKeeps ==
    ASSUME Shape, NEW s \in Sessions, Stop(s), UNCHANGED screen
    PROVE  /\ worker' \in [Sessions -> Workers] /\ joining' = s
           /\ \A t \in Sessions : Alive(t)' <=> Alive(t)
           /\ Unused' = Unused
           /\ AllCareful => AllCareful'
<1> DEFINE w == [worker[s] EXCEPT !.cancel = TRUE]
<1>1. w \in Workers /\ w.at = worker[s].at /\ w.reading = worker[s].reading
  BY DEF Shape, Workers
<1>2. worker' = [worker EXCEPT ![s] = w] /\ joining' = s
  BY DEF Stop
<1> HIDE DEF w
<1>3. worker' \in [Sessions -> Workers]
  BY <1>1, <1>2 DEF Shape
<1>4. \A t \in Sessions :
         worker'[t].at = worker[t].at /\ worker'[t].reading = worker[t].reading
  BY <1>1, <1>2 DEF Shape
<1>5. ASSUME AllCareful, NEW t \in Sessions PROVE Careful(worker[t])'
  <2>1. Careful(worker[t])
    BY <1>5 DEF AllCareful
  <2> QED
    BY <1>4, <2>1 DEF Careful, FirstPass, SecondPass, SecondIsCurrent, Confirming
<1> QED BY <1>2, <1>3, <1>4, <1>5 DEF Alive, Unused, AllCareful

\* Starting takes an unused session.
LEMMA StartKeeps ==
    ASSUME Shape, Unused # {}, Start, UNCHANGED screen
    PROVE  /\ worker' \in [Sessions -> Workers]
           /\ backend' \in Sessions
           /\ \A t \in Sessions : Alive(t)' => Alive(t) \/ t = backend'
           /\ AllCareful => AllCareful'
<1> DEFINE new == NextSession
           w == [worker[new] EXCEPT !.at = "opening"]
<1>1. new \in Sessions
  BY DEF NextSession, Unused
<1>2. w \in Workers /\ w.at = "opening"
  BY <1>1 DEF Shape, Workers, Places
<1>3. worker' = [worker EXCEPT ![new] = w] /\ backend' = new
  BY DEF Start
<1> HIDE DEF new, w
<1>4. worker' \in [Sessions -> Workers]
  BY <1>1, <1>2, <1>3 DEF Shape
<1>5. \A t \in Sessions : worker'[t] = IF t = new THEN w ELSE worker[t]
  BY <1>1, <1>3 DEF Shape
<1>6. ASSUME AllCareful, NEW t \in Sessions PROVE Careful(worker[t])'
  <2>1. Careful(worker[t])
    BY <1>6 DEF AllCareful
  <2> QED
    BY <1>2, <1>5, <2>1 DEF Careful, FirstPass, SecondPass, SecondIsCurrent, Confirming
<1> QED BY <1>1, <1>3, <1>4, <1>5, <1>6 DEF Alive, AllCareful

LEMMA UserKeeps ==
    ASSUME Shape, Owned, AllCareful, User \/ UpdateInstalls
    PROVE  Shape' /\ Owned' /\ AllCareful'
<1>1. CASE ToggleOff
  <2>1. backend \in Sessions /\ joining = None /\ Stop(backend) /\ screen' = screen
    BY <1>1 DEF ToggleOff, Owned, WatchingHasABackend, Shape
  <2>2. /\ worker' \in [Sessions -> Workers] /\ joining' = backend
        /\ \A t \in Sessions : Alive(t)' <=> Alive(t)
        /\ AllCareful'
    BY <2>1, StopKeeps
  <2>3. /\ backend' = None /\ watching' = FALSE /\ note' = None
        /\ restarting' = FALSE
    BY <1>1 DEF ToggleOff, Owned, Shape
  <2>4. Shape'
    BY <2>1, <2>2, <2>3 DEF Shape
  <2>5. OneWorkerAtATime'
    BY <2>1, <2>2, NoneIsNoSession DEF Owned, OneWorkerAtATime
  <2> QED BY <2>1, <2>2, <2>3, <2>4, <2>5, NoneIsNoSession DEF Owned, WatchingHasABackend
<1>2. CASE ToggleRefused \/ SwitchesProfile \/ UpdateInstalls
  <2>1. UNCHANGED <<screen, worker, watching, backend, note, joining, restarting>>
    BY <1>2 DEF ToggleRefused, SwitchesProfile, UpdateInstalls, shell
  <2>2. Shape' /\ Owned'
    BY <2>1 DEF Shape, Owned, OneWorkerAtATime, WatchingHasABackend, Alive, Unused
  <2> QED BY <2>1, <2>2, SameWorkersCareful
<1>3. CASE ToggleOn
  <2>1. /\ Unused # {} /\ Start /\ joining = None /\ ~watching /\ backend = None
        /\ watching' = TRUE /\ UNCHANGED <<screen, note, joining, restarting>>
    BY <1>3 DEF ToggleOn, Owned, WatchingHasABackend
  <2>2. /\ worker' \in [Sessions -> Workers] /\ backend' \in Sessions
        /\ \A t \in Sessions : Alive(t)' => Alive(t) \/ t = backend'
        /\ AllCareful'
    BY <2>1, StartKeeps
  <2>3. Shape'
    BY <2>1, <2>2 DEF Shape
  <2>4. OneWorkerAtATime'
    BY <2>1, <2>2, NoneIsNoSession DEF Owned, OneWorkerAtATime
  <2> QED BY <2>1, <2>2, <2>3, <2>4, NoneIsNoSession DEF Owned, WatchingHasABackend
<1>4. CASE Calibrates
  <2>1. CASE watching
    <3>1. /\ backend \in Sessions /\ joining = None /\ Unused # {} /\ Stop(backend)
          /\ backend' = None /\ restarting' = TRUE
          /\ UNCHANGED <<screen, watching, note>>
      BY <1>4, <2>1 DEF Calibrates, Owned, WatchingHasABackend, Shape
    <3>2. /\ worker' \in [Sessions -> Workers] /\ joining' = backend
          /\ \A t \in Sessions : Alive(t)' <=> Alive(t)
          /\ Unused' = Unused
          /\ AllCareful'
      BY <3>1, StopKeeps
    <3>3. Shape'
      BY <3>1, <3>2 DEF Shape
    <3>4. OneWorkerAtATime'
      BY <3>1, <3>2, NoneIsNoSession DEF Owned, OneWorkerAtATime
    <3> QED
      BY <2>1, <3>1, <3>2, <3>3, <3>4, NoneIsNoSession DEF Owned, WatchingHasABackend
  <2>2. CASE ~watching
    <3>1. UNCHANGED <<screen, worker, watching, backend, note, joining, restarting>>
      BY <1>4, <2>2 DEF Calibrates
    <3>2. Shape' /\ Owned'
      BY <3>1 DEF Shape, Owned, OneWorkerAtATime, WatchingHasABackend, Alive, Unused
    <3> QED BY <3>1, <3>2, SameWorkersCareful
  <2> QED BY <2>1, <2>2
<1> QED BY <1>1, <1>2, <1>3, <1>4 DEF User

LEMMA JoinedKeeps ==
    ASSUME Shape, Owned, AllCareful, Joined
    PROVE  Shape' /\ Owned' /\ AllCareful'
<1>1. /\ joining # None /\ backend = None /\ ~Alive(joining)
      /\ joining' = None /\ restarting' = FALSE
      /\ (watching <=> restarting)
      /\ UNCHANGED <<screen, watching, note>>
  BY DEF Joined, Owned
<1>2. \A t \in Sessions : ~Alive(t)
  BY <1>1, NoneIsNoSession DEF Owned, OneWorkerAtATime
<1>3. CASE restarting
  <2>1. Unused # {} /\ Start
    BY <1>3 DEF Joined, Owned
  <2>2. /\ worker' \in [Sessions -> Workers] /\ backend' \in Sessions
        /\ \A t \in Sessions : Alive(t)' => Alive(t) \/ t = backend'
        /\ AllCareful'
    BY <1>1, <2>1, StartKeeps
  <2>3. Shape'
    BY <1>1, <2>2 DEF Shape
  <2>4. OneWorkerAtATime'
    BY <1>2, <2>2 DEF OneWorkerAtATime
  <2> QED
    BY <1>1, <1>3, <2>2, <2>3, <2>4, NoneIsNoSession DEF Owned, WatchingHasABackend
<1>4. CASE ~restarting
  <2>1. UNCHANGED <<backend, worker, queue>>
    BY <1>4 DEF Joined
  <2>2. Shape'
    BY <1>1, <2>1 DEF Shape
  <2>3. OneWorkerAtATime'
    BY <1>2, <2>1 DEF OneWorkerAtATime, Alive
  <2>4. Owned'
    BY <1>1, <1>4, <2>1, <2>3 DEF Owned, WatchingHasABackend
  <2> QED BY <1>1, <2>1, <2>2, <2>4, SameWorkersCareful
<1> QED BY <1>3, <1>4

LEMMA DrainsKeeps ==
    ASSUME Shape, Owned, AllCareful, Drains
    PROVE  Shape' /\ Owned' /\ AllCareful'
<1> DEFINE events == queue[backend]
<1>1. /\ joining = None /\ backend \in Sessions /\ watching /\ ~restarting
      /\ UNCHANGED <<screen, restarting>>
  BY DEF Drains, Shape, Owned, WatchingHasABackend
<1>2. CASE Ends(events)
  <2>1. watching' = FALSE /\ backend' = None /\ Stop(backend) /\ note' = None
    BY <1>2 DEF Drains, NoticeAfter
  <2>2. /\ worker' \in [Sessions -> Workers] /\ joining' = backend
        /\ \A t \in Sessions : Alive(t)' <=> Alive(t)
        /\ AllCareful'
    BY <1>1, <2>1, StopKeeps
  <2>3. Shape'
    BY <1>1, <2>1, <2>2 DEF Shape
  <2>4. OneWorkerAtATime'
    BY <1>1, <2>2, NoneIsNoSession DEF Owned, OneWorkerAtATime
  <2> QED
    BY <1>1, <2>1, <2>2, <2>3, <2>4, NoneIsNoSession DEF Owned, WatchingHasABackend
<1>3. CASE ~Ends(events)
  <2>1. UNCHANGED <<watching, backend, worker, joining>>
    BY <1>3 DEF Drains
  <2>2. Shape'
    BY <1>1, <2>1 DEF Shape
  <2>3. OneWorkerAtATime'
    BY <2>1 DEF Owned, OneWorkerAtATime, Alive
  <2>4. WatchingHasABackend'
    BY <1>1, <2>1 DEF Owned, WatchingHasABackend
  <2>5. Owned'
    BY <1>1, <2>1, <2>3, <2>4 DEF Owned
  <2> QED BY <1>1, <2>1, <2>2, <2>5, SameWorkersCareful
<1> QED BY <1>2, <1>3

-----------------------------------------------------------------------------
(* The invariant and its theorems.                                         *)

Invariant == Shape /\ Owned /\ AllCareful /\ OneSlipIsNeverStored

LEMMA InitHolds ==
    ASSUME Init PROVE Invariant
<1>1. \A s \in Sessions : worker[s].at = "none" /\ worker[s] \in Workers
  BY FreshTypes DEF Init, NoWorker
<1>2. Shape
  BY <1>1 DEF Init, Shape
<1>3. Owned
  BY <1>1 DEF Init, Owned, OneWorkerAtATime, WatchingHasABackend, Alive, Reading
<1>4. AllCareful
  BY <1>1, IdleIsCareful DEF AllCareful, IdlePlaces
<1> QED BY <1>2, <1>3, <1>4 DEF Invariant, OneSlipIsNeverStored, Init

\* What is stored is a book that was confirmed.
LEMMA PersistsStoresWhatWasShown ==
    ASSUME AllCareful, OneSlipIsNeverStored, NEW s \in Sessions, Persists(s)
    PROVE  OneSlipIsNeverStored'
<1> DEFINE reading == worker[s].reading
           row == [session |-> s, book |-> reading.book, slips |-> reading.slips,
                   shown |-> reading.book \in reading.shown]
<1>1. stored' = stored \cup {row}
  BY DEF Persists
<1>2. row.slips <= 1 => row.shown
  BY DEF Persists, AllCareful, Careful, Confirming
<1> QED BY <1>1, <1>2 DEF OneSlipIsNeverStored

LEMMA NextHolds ==
    ASSUME Invariant, [Next]_vars PROVE Invariant'
<1> USE DEF Invariant
<1>1. ASSUME NEW s \in Sessions, WorkerStep(s) \/ WorkerFails(s) PROVE Invariant'
  <2>1. PICK w : Becomes(s, w)
    BY <1>1, WorkerBecomes
  <2>2. Shape' /\ Owned' /\ AllCareful'
    BY <2>1, BecomesKeepsOwned, BecomesKeepsCareful
  <2>3. CASE Persists(s)
    BY <2>2, <2>3, PersistsStoresWhatWasShown
  <2>4. CASE ~Persists(s)
    <3>1. UNCHANGED stored
      BY <1>1, <2>4
      DEF WorkerStep, WorkerFails, Opens, OpenFails, Stops, BudgetRunsOut, Leaves, Looks,
          CapturesNeed, CapturesHave, CapturesTablesAgain, CapturesNeedAgain,
          CapturesHaveAgain, CaptureFails, MappingFails, PersistFails, NotStored, Dies
    <3> QED BY <2>2, <3>1 DEF OneSlipIsNeverStored
  <2> QED BY <2>3, <2>4
<1>2. CASE PanelChanges
  BY <1>2, PanelChangesKeeps DEF PanelChanges, OneSlipIsNeverStored
<1>3. CASE User \/ UpdateInstalls
  <2>1. UNCHANGED stored
    BY <1>3 DEF User, UpdateInstalls, ToggleOff, ToggleRefused, ToggleOn, Calibrates,
                SwitchesProfile
  <2> QED BY <1>3, <2>1, UserKeeps DEF OneSlipIsNeverStored
<1>4. CASE Joined
  BY <1>4, JoinedKeeps DEF Joined, OneSlipIsNeverStored
<1>5. CASE Drains
  BY <1>5, DrainsKeeps DEF Drains, OneSlipIsNeverStored
<1>6. CASE UNCHANGED vars
  <2>1. Shape' /\ Owned'
    BY <1>6 DEF vars, Shape, Owned, OneWorkerAtATime, WatchingHasABackend, Alive, Unused
  <2> QED BY <1>6, <2>1, SameWorkersCareful DEF vars, OneSlipIsNeverStored
<1> QED BY <1>1, <1>2, <1>3, <1>4, <1>5, <1>6 DEF Next

\* The invariant holds of every behaviour of the watch: threads owned, readings
\* careful, nothing wrong stored.
THEOREM AlwaysHolds == Spec => []Invariant
BY InitHolds, NextHolds, PTL DEF Spec

\* However the user toggles, calibrates and switches, and whenever threads end
\* or die, no two threads ever capture the screen at once (Backend::start and
\* its drop, backend.rs).
THEOREM OneWorkerTheorem == Spec => []OneWorkerAtATime
<1>1. Invariant => OneWorkerAtATime
  BY DEF Invariant, Owned
<1> QED BY <1>1, AlwaysHolds, PTL

\* The page says that it watches exactly while it has something to stop, and
\* shows a note on identity only then (tick and toggle_watch, shell/mod.rs).
THEOREM BackendTheorem == Spec => []WatchingHasABackend
<1>1. Invariant => WatchingHasABackend
  BY DEF Invariant, Owned
<1> QED BY <1>1, AlwaysHolds, PTL

\* Whatever the panels and the order of captures, one change of the panel or
\* one misread within a reading never stores a book that was not on the
\* screen (the double read of run_session, session.rs).
THEOREM OneSlipTheorem == Spec => []OneSlipIsNeverStored
<1>1. Invariant => OneSlipIsNeverStored
  BY DEF Invariant
<1> QED BY <1>1, AlwaysHolds, PTL

-----------------------------------------------------------------------------
(* What is told of a book: the channel's events, in their order.           *)

IsStored(book) == \E r \in stored : r.book = book

Events ==
    [kind : {"accepted", "warning"}, what : Books]
    \cup [kind : {"fault"}, what : {"open", "died", "not stored"}]
    \cup [kind : {"stopped"}, what : {None}]

\* The events that are true of the database.
TrueEvents == {e \in Events : e.kind \in {"accepted", "warning"} => IsStored(e.what)}

Truthful ==
    /\ queue \in [Sessions -> Seq(TrueEvents)]
    /\ lastBook \in Books \cup {None} /\ (lastBook # None => IsStored(lastBook))
    /\ note \in Books \cup {None} /\ (note # None => IsStored(note))

HasFault(events) == \E i \in DOMAIN events : events[i].kind = "fault"

\* What a thread does for a book it will skip from now on.
Remembers(s) ==
    /\ Alive(s) /\ worker[s].gate.last # None =>
           \/ \E r \in stored : r.session = s /\ r.book = worker[s].gate.last
           \/ worker[s].at = "persist"
           \/ worker[s].cancel
           \/ HasFault(queue[s])
    /\ worker[s].at = "persist" => worker[s].reading.book = worker[s].gate.last
    /\ worker[s].at = "none" => worker[s].gate.last = None
    /\ Alive(s) /\ backend # s => worker[s].cancel

AllRemember == \A s \in Sessions : Remembers(s)

LEMMA Least ==
    ASSUME NEW S, S \subseteq Nat, S # {}
    PROVE  \E n \in S : \A m \in S : n <= m
<1>1. IsWellFoundedOn(OpToRel(<, Nat), Nat)
  BY NatLessThanWellFounded
<1>2. PICK n \in S : \A m \in S : ~(<<m, n>> \in OpToRel(<, Nat))
  BY <1>1, WFMin
<1>3. ASSUME NEW m \in S PROVE n <= m
  <2>1. ~(m < n)
    BY <1>2 DEF OpToRel
  <2> QED BY <2>1
<1> QED BY <1>3

LEMMA Greatest ==
    ASSUME NEW n \in Nat, NEW S, S \subseteq 1..n, S # {}
    PROVE  \E m \in S : \A k \in S : k <= m
<1> DEFINE below == {n - k : k \in S}
<1>1. \A k \in S : k \in Nat /\ n - k \in Nat
  OBVIOUS
<1>2. below \subseteq Nat /\ below # {}
  BY <1>1
<1>3. \E b \in below : \A c \in below : b <= c
  <2> HIDE DEF below
  <2> QED BY <1>2, Least
<1>4. PICK m \in S : \A k \in S : n - m <= n - k
  BY <1>3
<1>5. ASSUME NEW k \in S PROVE k <= m
  BY <1>1, <1>4
<1> QED BY <1>5

\* The last event of a kind is one of the events.
LEMMA LastIsOne ==
    ASSUME NEW S, NEW events \in Seq(S), NEW kinds, NEW otherwise
    PROVE  \/ LastOf(events, kinds, otherwise) = otherwise
           \/ \E e \in S : e.kind \in kinds /\ LastOf(events, kinds, otherwise) = e.what
<1> DEFINE at == {i \in DOMAIN events : events[i].kind \in kinds}
           last == CHOOSE i \in at : \A j \in at : j <= i
<1>1. CASE at = {}
  BY <1>1 DEF LastOf
<1>2. CASE at # {}
  <2>1. at \subseteq 1..Len(events) /\ Len(events) \in Nat
    OBVIOUS
  <2>2. last \in at
    <3>1. \E i \in at : \A j \in at : j <= i
      <4> HIDE DEF at
      <4> QED BY <1>2, <2>1, Greatest
    <3> QED BY <3>1
  <2>3. events[last] \in S /\ events[last].kind \in kinds
    BY <2>1, <2>2
  <2>4. LastOf(events, kinds, otherwise) = events[last].what
    BY <1>2 DEF LastOf
  <2> QED BY <2>3, <2>4
<1> QED BY <1>1, <1>2

\* Sending keeps what was sent before.
LEMMA Concatenated ==
    ASSUME NEW S, NEW a \in Seq(S), NEW b \in Seq(S)
    PROVE  /\ a \o b \in Seq(S)
           /\ HasFault(a) \/ HasFault(b) => HasFault(a \o b)
<1>1. /\ a \o b \in Seq(S) /\ Len(a) \in Nat /\ Len(b) \in Nat
      /\ Len(a \o b) = Len(a) + Len(b)
      /\ \A i \in 1..(Len(a) + Len(b)) : (a \o b)[i] = IF i <= Len(a) THEN a[i] ELSE b[i - Len(a)]
  BY ConcatProperties
<1>2. ASSUME HasFault(a) PROVE HasFault(a \o b)
  <2>1. PICK i \in 1..Len(a) : a[i].kind = "fault"
    BY <1>2 DEF HasFault
  <2>2. i \in 1..(Len(a) + Len(b)) /\ (a \o b)[i] = a[i]
    BY <1>1
  <2> QED BY <1>1, <2>1, <2>2 DEF HasFault
<1>3. ASSUME HasFault(b) PROVE HasFault(a \o b)
  <2>1. PICK i \in 1..Len(b) : b[i].kind = "fault"
    BY <1>3 DEF HasFault
  <2>2. /\ Len(a) + i \in 1..(Len(a) + Len(b)) /\ ~(Len(a) + i <= Len(a))
        /\ (Len(a) + i) - Len(a) = i
    BY <1>1
  <2>3. (a \o b)[Len(a) + i] = b[i]
    BY <1>1, <2>2
  <2> QED BY <1>1, <2>1, <2>2, <2>3 DEF HasFault
<1> QED BY <1>1, <1>2, <1>3

LEMMA TrueEventsGrow ==
    ASSUME stored \subseteq stored'
    PROVE  TrueEvents \subseteq TrueEvents' /\ \A q \in Seq(TrueEvents) : q \in Seq(TrueEvents')
<1>1. TrueEvents \subseteq TrueEvents'
  BY DEF TrueEvents, IsStored
<1> QED BY <1>1, SeqMonotonic

\* What the steps of a worker say is true of the database they leave.
LEMMA WhatIsSaid ==
    /\ <<Event("stopped", None)>> \in Seq(TrueEvents')
    /\ <<Event("fault", "died")>> \in Seq(TrueEvents')
    /\ OpenFaults \in Seq(TrueEvents')
    /\ \A book : \A events \in Told(book, FALSE) : events \in Seq(TrueEvents') /\ HasFault(events)
    /\ \A book \in Books : (\E r \in stored' : r.book = book) => \A events \in Told(book, TRUE) : events \in Seq(TrueEvents')
<1>1. /\ Event("stopped", None) \in TrueEvents'
      /\ \A f \in {"open", "died", "not stored"} : Event("fault", f) \in TrueEvents'
  BY DEF Event, Events, TrueEvents
<1>2. \A book \in Books : (\E r \in stored' : r.book = book) =>
          Event("accepted", book) \in TrueEvents' /\ Event("warning", book) \in TrueEvents'
  BY DEF Event, Events, TrueEvents, IsStored
<1>3. \A e \in TrueEvents' : <<e>> \in Seq(TrueEvents')
  OBVIOUS
<1>4. \A d, e \in TrueEvents' : <<d, e>> \in Seq(TrueEvents')
  OBVIOUS
<1>5. \A book : \A events \in Told(book, FALSE) : events \in Seq(TrueEvents') /\ HasFault(events)
  <2>1. <<Event("fault", "not stored")>> \in Seq(TrueEvents')
    BY <1>1, <1>3
  <2>2. HasFault(<<Event("fault", "not stored")>>)
    <3> DEFINE e == Event("fault", "not stored")
    <3>1. e.kind = "fault"
      BY DEF Event
    <3> HIDE DEF e
    <3>2. 1 \in DOMAIN <<e>> /\ <<e>>[1] = e
      OBVIOUS
    <3> QED BY <3>1, <3>2 DEF HasFault, e
  <2> QED BY <2>1, <2>2 DEF Told
<1>6. ASSUME NEW book \in Books, \E r \in stored' : r.book = book, NEW events \in Told(book, TRUE)
      PROVE  events \in Seq(TrueEvents')
  BY <1>2, <1>3, <1>4, <1>6 DEF Told
<1> QED BY <1>1, <1>3, <1>4, <1>5, <1>6 DEF OpenFaults

\* The channels after a step of the worker of s.
Says(s) == queue' = queue \/ \E events \in Seq(TrueEvents') : Send(s, events)

LEMMA SaysKeeps ==
    ASSUME queue \in [Sessions -> Seq(TrueEvents)], stored \subseteq stored', NEW s \in Sessions, Says(s)
    PROVE  /\ queue' \in [Sessions -> Seq(TrueEvents')]
           /\ \A t \in Sessions : HasFault(queue[t]) => HasFault(queue'[t])
<1>1. \A t \in Sessions : queue[t] \in Seq(TrueEvents')
  BY TrueEventsGrow
<1>2. CASE queue' = queue
  BY <1>1, <1>2
<1>3. CASE \E events \in Seq(TrueEvents') : Send(s, events)
  <2>1. PICK events \in Seq(TrueEvents') : Send(s, events)
    BY <1>3
  <2> DEFINE more == IF backend = s THEN queue[s] \o events ELSE queue[s]
  <2>2. queue' = [queue EXCEPT ![s] = more]
    BY <2>1 DEF Send
  <2>3. more \in Seq(TrueEvents') /\ (HasFault(queue[s]) => HasFault(more))
    BY <1>1, Concatenated
  <2> HIDE DEF more
  <2> QED BY <1>1, <2>2, <2>3
<1> QED BY <1>2, <1>3 DEF Says

\* The step of a worker that was about to store a book, or was not.
Others(s) ==
    /\ \A t \in Sessions \ {s} : worker'[t] = worker[t]
    /\ worker'[s].cancel = worker[s].cancel /\ worker'[s].at # "none"
    /\ UNCHANGED shell

StaysQuiet(s) ==
    /\ worker[s].at # "persist" /\ worker'[s].at # "persist"
    /\ worker'[s].gate.last = worker[s].gate.last

Remembered(s) == worker'[s].at = "persist" /\ worker'[s].reading.book = worker'[s].gate.last

Over(s) == ~Alive(s)' /\ worker'[s].at # "persist"

Settled(s) ==
    /\ worker[s].at = "persist" /\ worker'[s].at = "watch"
    /\ worker'[s].gate.last = worker[s].gate.last
    /\ \/ \E r \in stored' : r.session = s /\ r.book = worker[s].reading.book
       \/ \E events \in Seq(TrueEvents') : HasFault(events) /\ Send(s, events)

Outcome(s) == StaysQuiet(s) \/ Remembered(s) \/ Over(s) \/ Settled(s)

LEMMA MovesOutcome ==
    ASSUME Shape, NEW s \in Sessions, NEW at \in {"watch", "ended", "died"}, Moves(s, at),
           at = "watch" => worker[s].at # "persist", UNCHANGED shell
    PROVE  Others(s) /\ Outcome(s)
<1> DEFINE w == [worker[s] EXCEPT !.at = at]
<1>1. worker' = [worker EXCEPT ![s] = w]
  BY DEF Shape, Moves
<1>2. w.at = at /\ w.cancel = worker[s].cancel /\ w.gate = worker[s].gate
  BY DEF Shape, Workers
<1> HIDE DEF w
<1>3. worker'[s] = w /\ \A t \in Sessions \ {s} : worker'[t] = worker[t]
  BY <1>1 DEF Shape
<1>4. at # "watch" => Over(s)
  BY <1>2, <1>3 DEF Over, Alive, Reading
<1>5. at = "watch" => StaysQuiet(s)
  BY <1>2, <1>3 DEF StaysQuiet
<1> QED BY <1>2, <1>3, <1>4, <1>5 DEF Others, Outcome

LEMMA MarkHandledKeepsLast ==
    ASSUME NEW gate \in Gates
    PROVE  /\ MarkHandled(gate).last = gate.last
           /\ \A f \in Fingerprints : OnFingerprint(gate, f).last = gate.last
           /\ \A b \in Books : Emitted(gate, b).last = b
BY DEF Gates, MarkHandled, OnFingerprint, Emitted

LEMMA GivesUpOutcome ==
    ASSUME Shape, NEW s \in Sessions, GivesUp(s), worker[s].at # "persist", UNCHANGED shell
    PROVE  Others(s) /\ Outcome(s)
<1> DEFINE w == [worker[s] EXCEPT !.at = "watch", !.gate = MarkHandled(worker[s].gate),
                                  !.reading = NoReading]
<1>1. worker' = [worker EXCEPT ![s] = w]
  BY DEF GivesUp
<1>2. worker[s] \in Workers /\ worker[s].gate \in Gates
  BY DEF Shape, Workers
<1>3. w.at = "watch" /\ w.cancel = worker[s].cancel /\ w.gate = MarkHandled(worker[s].gate)
  BY <1>2 DEF Workers
<1> HIDE DEF w
<1>4. worker'[s] = w /\ \A t \in Sessions \ {s} : worker'[t] = worker[t]
  BY <1>1 DEF Shape
<1>5. StaysQuiet(s)
  BY <1>2, <1>3, <1>4, MarkHandledKeepsLast DEF StaysQuiet
<1> QED BY <1>3, <1>4, <1>5 DEF Others, Outcome

LEMMA BackOutcome ==
    ASSUME Shape, NEW s \in Sessions, BackToTheLoop(s), worker[s].at = "persist", UNCHANGED shell,
           \/ \E r \in stored' : r.session = s /\ r.book = worker[s].reading.book
           \/ \E events \in Seq(TrueEvents') : HasFault(events) /\ Send(s, events)
    PROVE  Others(s) /\ Outcome(s)
<1> DEFINE w == [worker[s] EXCEPT !.at = "watch", !.reading = NoReading]
<1>1. worker' = [worker EXCEPT ![s] = w]
  BY DEF Shape, BackToTheLoop
<1>2. w.at = "watch" /\ w.cancel = worker[s].cancel /\ w.gate = worker[s].gate
  BY DEF Shape, Workers
<1> HIDE DEF w
<1>3. worker'[s] = w /\ \A t \in Sessions \ {s} : worker'[t] = worker[t]
  BY <1>1 DEF Shape
<1>4. Settled(s)
  BY <1>2, <1>3 DEF Settled
<1> QED BY <1>2, <1>3, <1>4 DEF Others, Outcome

LEMMA LooksOutcome ==
    ASSUME Shape, NEW s \in Sessions, Looks(s)
    PROVE  Others(s) /\ Outcome(s)
<1> DEFINE gate == worker[s].gate
           next == [worker[s] EXCEPT !.gate = OnFingerprint(gate, screen.tables)]
           reading == [NoReading EXCEPT !.frames.tables = screen.tables, !.shown = {screen}]
           go == [next EXCEPT !.at = "need", !.reading = reading]
           w == IF GateStep(gate, screen.tables) # "recognize" THEN next ELSE go
<1>1. worker[s] \in Workers /\ worker[s].at = "watch" /\ screen.tables \in Fingerprints
  BY PanelsAreFrames DEF Shape, Looks
<1>2. /\ next.at = "watch" /\ next.cancel = worker[s].cancel
      /\ next.gate = OnFingerprint(gate, screen.tables)
      /\ next \in Workers
  BY <1>1, GateTypes DEF Workers
<1>3. OnFingerprint(gate, screen.tables).last = gate.last
  BY <1>1, MarkHandledKeepsLast DEF Workers
<1>4. worker' = [worker EXCEPT ![s] = w] /\ UNCHANGED shell
  BY DEF Looks
<1> HIDE DEF next, reading
<1>5. go.at = "need" /\ go.cancel = next.cancel /\ go.gate = next.gate
  BY <1>2 DEF Workers
<1> HIDE DEF go
<1>6. w.at \in {"watch", "need"} /\ w.cancel = worker[s].cancel /\ w.gate.last = gate.last
  BY <1>2, <1>3, <1>5
<1> HIDE DEF w
<1>7. worker'[s] = w /\ \A t \in Sessions \ {s} : worker'[t] = worker[t]
  BY <1>4 DEF Shape
<1>8. StaysQuiet(s)
  BY <1>1, <1>6, <1>7 DEF StaysQuiet
<1> QED BY <1>4, <1>6, <1>7, <1>8 DEF Others, Outcome

\* A capture of one more region.
LEMMA CapturesOutcome ==
    ASSUME Shape, NEW s \in Sessions,
           CapturesNeed(s) \/ CapturesTablesAgain(s) \/ CapturesNeedAgain(s)
    PROVE  Others(s) /\ Outcome(s)
<1> SUFFICES \E w : /\ worker' = [worker EXCEPT ![s] = w] /\ w.at \in {"have", "need again", "have again"}
                    /\ w.cancel = worker[s].cancel /\ w.gate = worker[s].gate
                    /\ worker[s].at # "persist" /\ UNCHANGED shell
  <2>1. PICK w : /\ worker' = [worker EXCEPT ![s] = w] /\ w.at \in {"have", "need again", "have again"}
                 /\ w.cancel = worker[s].cancel /\ w.gate = worker[s].gate
                 /\ worker[s].at # "persist" /\ UNCHANGED shell
    OBVIOUS
  <2>2. worker'[s] = w /\ \A t \in Sessions \ {s} : worker'[t] = worker[t]
    BY <2>1 DEF Shape
  <2>3. StaysQuiet(s)
    BY <2>1, <2>2 DEF StaysQuiet
  <2> QED BY <2>1, <2>2, <2>3 DEF Others, Outcome
<1>0. worker[s] \in Workers
  BY DEF Shape
<1>1. CASE CapturesNeed(s)
  <2> DEFINE w == [worker[s] EXCEPT !.at = "have", !.reading.frames.need = screen.need]
  <2>1. worker' = [worker EXCEPT ![s] = w] /\ UNCHANGED shell /\ worker[s].at # "persist"
    BY <1>1 DEF CapturesNeed, Shape
  <2>2. w.at = "have" /\ w.cancel = worker[s].cancel /\ w.gate = worker[s].gate
    BY <1>0 DEF Workers
  <2> QED BY <2>1, <2>2
<1>2. CASE CapturesTablesAgain(s)
  <2> DEFINE w == [worker[s] EXCEPT !.at = "need again", !.reading.second.tables = screen.tables]
  <2>1. worker' = [worker EXCEPT ![s] = w] /\ UNCHANGED shell /\ worker[s].at # "persist"
    BY <1>2 DEF CapturesTablesAgain, Shape
  <2>2. w.at = "need again" /\ w.cancel = worker[s].cancel /\ w.gate = worker[s].gate
    BY <1>0 DEF Workers
  <2> QED BY <2>1, <2>2
<1>3. CASE CapturesNeedAgain(s)
  <2> DEFINE w == [worker[s] EXCEPT !.at = "have again", !.reading.second.need = screen.need]
  <2>1. worker' = [worker EXCEPT ![s] = w] /\ UNCHANGED shell /\ worker[s].at # "persist"
    BY <1>3 DEF CapturesNeedAgain, Shape
  <2>2. w.at = "have again" /\ w.cancel = worker[s].cancel /\ w.gate = worker[s].gate
    BY <1>0 DEF Workers
  <2> QED BY <2>1, <2>2
<1> QED BY <1>1, <1>2, <1>3

LEMMA CapturesHaveOutcome ==
    ASSUME Shape, NEW s \in Sessions, CapturesHave(s)
    PROVE  Others(s) /\ Outcome(s)
<1> DEFINE frames == [worker[s].reading.frames EXCEPT !.have = screen.have]
           slips == worker[s].reading.slips
           reads(book, seen) ==
               [worker[s] EXCEPT !.at = "tables again",
                   !.reading = [worker[s].reading EXCEPT !.frames = frames, !.book = book,
                                                         !.slips = seen]]
<1>1. worker[s] \in Workers /\ worker[s].at = "have" /\ UNCHANGED shell
  BY DEF Shape, CapturesHave
<1>2. \/ GivesUp(s)
      \/ \E book \in Books : worker' = [worker EXCEPT ![s] = reads(book, slips)]
      \/ \E book \in Books : worker' = [worker EXCEPT ![s] = reads(book, slips + 1)]
  BY DEF CapturesHave, Shape
<1> HIDE DEF frames, slips
<1>3. CASE GivesUp(s)
  BY <1>1, <1>3, GivesUpOutcome
<1>4. ASSUME NEW book, NEW seen, worker' = [worker EXCEPT ![s] = reads(book, seen)]
      PROVE  Others(s) /\ Outcome(s)
  <2> DEFINE w == reads(book, seen)
  <2>1. w.at = "tables again" /\ w.cancel = worker[s].cancel /\ w.gate = worker[s].gate
    BY <1>1 DEF Workers
  <2> HIDE DEF reads
  <2>2. worker'[s] = w /\ \A t \in Sessions \ {s} : worker'[t] = worker[t]
    BY <1>4 DEF Shape
  <2>3. StaysQuiet(s)
    BY <1>1, <2>1, <2>2 DEF StaysQuiet
  <2> QED BY <1>1, <2>1, <2>2, <2>3 DEF Others, Outcome
<1> HIDE DEF reads
<1> QED BY <1>2, <1>3, <1>4

LEMMA AcceptsOutcome ==
    ASSUME Shape, NEW s \in Sessions, NEW slips \in Nat, worker[s].reading.book \in Books,
           Accepts(s, slips), worker[s].at = "have again", UNCHANGED shell
    PROVE  Others(s) /\ Outcome(s)
<1> DEFINE gate == MarkHandled(worker[s].gate)
           book == worker[s].reading.book
           after == Emitted(gate, book)
           reading == [worker[s].reading EXCEPT !.slips = slips]
           keeps == [worker[s] EXCEPT !.at = "persist", !.gate = after, !.reading = reading]
           drops == [worker[s] EXCEPT !.at = "watch", !.gate = gate, !.reading = NoReading]
<1>1. worker[s] \in Workers
  BY DEF Shape
<1>2. gate \in Gates /\ gate.last = worker[s].gate.last /\ Emitted(gate, book).last = book
  <2>1. worker[s].gate \in Gates
    BY <1>1 DEF Workers
  <2>2. gate \in Gates /\ gate.last = worker[s].gate.last
    BY <2>1, GateTypes, MarkHandledKeepsLast
  <2> HIDE DEF gate
  <2>3. Emitted(gate, book).last = book
    BY <2>2, MarkHandledKeepsLast
  <2> QED BY <2>2, <2>3
<1>3. worker' = [worker EXCEPT ![s] = keeps] \/ worker' = [worker EXCEPT ![s] = drops]
  BY DEF Accepts, Shape
<1>4. reading.book = book
  <2>1. worker[s].reading \in Readings
    BY <1>1 DEF Workers
  <2> QED BY <2>1 DEF Readings
<1> HIDE DEF gate, after, reading
<1>5. /\ keeps.at = "persist" /\ keeps.cancel = worker[s].cancel
      /\ keeps.gate = after /\ keeps.reading = reading
  BY <1>1 DEF Workers
<1>6. drops.at = "watch" /\ drops.cancel = worker[s].cancel /\ drops.gate = gate
  BY <1>1 DEF Workers
<1> HIDE DEF keeps, drops
<1>7. /\ \A t \in Sessions \ {s} : worker'[t] = worker[t]
      /\ worker'[s] = keeps \/ worker'[s] = drops
  BY <1>3 DEF Shape
<1>8. worker'[s] = keeps => Remembered(s)
  BY <1>2, <1>4, <1>5 DEF Remembered, after
<1>9. worker'[s] = drops => StaysQuiet(s)
  BY <1>1, <1>2, <1>6 DEF StaysQuiet
<1> QED BY <1>5, <1>6, <1>7, <1>8, <1>9 DEF Others, Outcome

LEMMA CapturesHaveAgainOutcome ==
    ASSUME Shape, NEW s \in Sessions, CapturesHaveAgain(s)
    PROVE  Others(s) /\ Outcome(s)
<1> DEFINE book == worker[s].reading.book
           slips == worker[s].reading.slips
<1>1. worker[s] \in Workers /\ worker[s].at = "have again" /\ UNCHANGED shell
  BY DEF Shape, CapturesHaveAgain
<1>2. slips \in Nat /\ slips + 1 \in Nat
  <2>1. worker[s].reading \in Readings
    BY <1>1 DEF Workers
  <2>2. slips \in Nat
    BY <2>1 DEF Readings
  <2> HIDE DEF slips
  <2> QED BY <2>2
<1>3. GivesUp(s) \/ (book \in Books /\ (Accepts(s, slips) \/ Accepts(s, slips + 1)))
  BY DEF CapturesHaveAgain, Confirmed
<1> QED BY <1>1, <1>2, <1>3, GivesUpOutcome, AcceptsOutcome

LEMMA WorkerOutcome ==
    ASSUME Shape, AllCareful, NEW s \in Sessions, WorkerStep(s) \/ WorkerFails(s)
    PROVE  Others(s) /\ Outcome(s) /\ Says(s) /\ stored \subseteq stored'
<1> DEFINE book == worker[s].reading.book
<1>1. CASE Opens(s)
  <2>1. Moves(s, "watch") /\ worker[s].at # "persist" /\ UNCHANGED <<shell, queue, stored>>
    BY <1>1 DEF Opens
  <2> QED BY <2>1, MovesOutcome DEF Says
<1>2. CASE OpenFails(s) \/ Stops(s) \/ BudgetRunsOut(s) \/ Dies(s)
  <2>1. \E at \in {"ended", "died"} : Moves(s, at)
    BY <1>2 DEF OpenFails, Stops, BudgetRunsOut, Leaves, Dies
  <2>2. UNCHANGED <<shell, stored>>
    BY <1>2 DEF OpenFails, Stops, BudgetRunsOut, Leaves, Dies
  <2>3. Says(s)
    BY <1>2, WhatIsSaid DEF OpenFails, Stops, BudgetRunsOut, Leaves, Dies, Says
  <2> QED BY <2>1, <2>2, <2>3, MovesOutcome
<1>3. CASE Looks(s) \/ CapturesNeed(s) \/ CapturesTablesAgain(s) \/ CapturesNeedAgain(s)
           \/ CapturesHave(s) \/ CapturesHaveAgain(s)
  <2>1. UNCHANGED <<queue, stored>>
    BY <1>3 DEF Looks, CapturesNeed, CapturesTablesAgain, CapturesNeedAgain, CapturesHave, CapturesHaveAgain
  <2>2. Others(s) /\ Outcome(s)
    BY <1>3, LooksOutcome, CapturesOutcome, CapturesHaveOutcome, CapturesHaveAgainOutcome
  <2> QED BY <2>1, <2>2 DEF Says
<1>4. CASE CaptureFails(s)
  <2>1. GivesUp(s) /\ worker[s].at # "persist" /\ UNCHANGED <<shell, queue, stored>>
    BY <1>4 DEF CaptureFails
  <2> QED BY <2>1, GivesUpOutcome DEF Says
<1>5. CASE Persists(s)
  <2> DEFINE row == [session |-> s, book |-> book, slips |-> worker[s].reading.slips,
                     shown |-> book \in worker[s].reading.shown]
  <2>1. /\ stored' = stored \cup {row} /\ \E events \in Told(book, TRUE) : Send(s, events)
        /\ BackToTheLoop(s) /\ UNCHANGED shell /\ worker[s].at = "persist"
    BY <1>5 DEF Persists
  <2>2. book \in Books
    BY <2>1 DEF AllCareful, Careful, Confirming
  <2>3. row \in stored' /\ row.session = s /\ row.book = book
    BY <2>1
  <2> HIDE DEF row
  <2>4. \E r \in stored' : r.book = book
    BY <2>3
  <2>5. Says(s)
    BY <2>1, <2>2, <2>4, WhatIsSaid DEF Says
  <2> QED BY <2>1, <2>3, <2>5, BackOutcome
<1>6. CASE MappingFails(s) \/ PersistFails(s)
  <2>1. /\ \E events \in Told(book, FALSE) : Send(s, events)
        /\ BackToTheLoop(s) /\ UNCHANGED <<shell, stored>> /\ worker[s].at = "persist"
    BY <1>6 DEF MappingFails, PersistFails, NotStored
  <2>2. \E events \in Seq(TrueEvents') : HasFault(events) /\ Send(s, events)
    BY <2>1, WhatIsSaid
  <2> QED BY <2>1, <2>2, BackOutcome DEF Says
<1> QED BY <1>1, <1>2, <1>3, <1>4, <1>5, <1>6 DEF WorkerStep, WorkerFails

-----------------------------------------------------------------------------
(* The channel and the memory of a thread, step by step.                   *)

Informed == Truthful /\ AllRemember

LEMMA WorkerKeepsInformed ==
    ASSUME Shape, AllCareful, Informed, NEW s \in Sessions, WorkerStep(s) \/ WorkerFails(s)
    PROVE  Informed'
<1> USE DEF Informed
<1>1. Others(s) /\ Outcome(s) /\ Says(s) /\ stored \subseteq stored'
  BY WorkerOutcome
<1>2. /\ queue' \in [Sessions -> Seq(TrueEvents')]
      /\ \A t \in Sessions : HasFault(queue[t]) => HasFault(queue'[t])
  BY <1>1, SaysKeeps DEF Truthful
<1>3. lastBook' = lastBook /\ note' = note /\ backend' = backend
  BY <1>1 DEF Others, shell
<1>4. Truthful'
  BY <1>1, <1>2, <1>3 DEF Truthful, IsStored
<1>5. ASSUME NEW t \in Sessions \ {s} PROVE Remembers(t)'
  BY <1>1, <1>2, <1>3 DEF AllRemember, Remembers, Others, Alive
<1>6. Remembers(s)'
  <2>1. /\ worker'[s].cancel = worker[s].cancel /\ worker'[s].at # "none" /\ Alive(s)
        /\ Remembers(s)
    BY <1>1 DEF Others, AllRemember, WorkerStep, WorkerFails, Opens, OpenFails, Stops, BudgetRunsOut, Leaves,
                Looks, CapturesNeed, CapturesHave, CapturesTablesAgain, CapturesNeedAgain, CapturesHaveAgain,
                CaptureFails, Persists, MappingFails, PersistFails, Dies, Alive, Reading
  <2>2. Alive(s)' /\ backend' # s => worker'[s].cancel
    BY <1>3, <2>1 DEF Remembers
  <2>3. CASE StaysQuiet(s)
    BY <1>1, <1>2, <2>1, <2>2, <2>3 DEF StaysQuiet, Remembers
  <2>4. CASE Remembered(s)
    BY <2>1, <2>2, <2>4 DEF Remembered, Remembers
  <2>5. CASE Over(s)
    BY <2>1, <2>5 DEF Over, Remembers
  <2>6. CASE Settled(s)
    <3>1. worker[s].reading.book = worker[s].gate.last
      BY <2>1, <2>6 DEF Settled, Remembers
    <3>2. CASE \E r \in stored' : r.session = s /\ r.book = worker[s].reading.book
      BY <2>1, <2>2, <2>6, <3>1, <3>2 DEF Settled, Remembers
    <3>3. CASE \E events \in Seq(TrueEvents') : HasFault(events) /\ Send(s, events)
      <4>1. PICK events \in Seq(TrueEvents') : HasFault(events) /\ Send(s, events)
        BY <3>3
      <4>2. CASE backend = s
        <5>1. queue'[s] = queue[s] \o events
          BY <4>1, <4>2 DEF Send, Truthful
        <5>2. queue[s] \in Seq(TrueEvents')
          BY <1>1, TrueEventsGrow DEF Truthful
        <5>3. HasFault(queue'[s])
          BY <4>1, <5>1, <5>2, Concatenated
        <5> QED BY <2>1, <2>2, <2>6, <5>3 DEF Settled, Remembers
      <4>3. CASE backend # s
        <5>1. worker'[s].cancel
          BY <2>1, <4>3 DEF Remembers
        <5> QED BY <2>1, <2>2, <2>6, <5>1 DEF Settled, Remembers
      <4> QED BY <4>2, <4>3
    <3> QED BY <2>6, <3>2, <3>3 DEF Settled
  <2> QED BY <1>1, <2>3, <2>4, <2>5, <2>6 DEF Outcome
<1> QED BY <1>4, <1>5, <1>6 DEF AllRemember

\* Steps that leave the threads' memories, the channels and the database alone.
LEMMA CalmKeepsInformed ==
    ASSUME Informed, UNCHANGED <<backend, queue, stored>>,
           lastBook' = lastBook, note' \in {note, None},
           \A s \in Sessions : /\ worker'[s].at = worker[s].at /\ worker'[s].gate = worker[s].gate
                               /\ worker'[s].cancel = worker[s].cancel
                               /\ worker[s].at = "persist" => worker'[s] = worker[s]
    PROVE  Informed'
<1>1. Truthful'
  BY DEF Informed, Truthful, TrueEvents, IsStored
<1>2. ASSUME NEW s \in Sessions PROVE Remembers(s)'
  BY DEF Informed, AllRemember, Remembers, Alive
<1> QED BY <1>1, <1>2 DEF Informed, AllRemember

\* Stopping the only thread alive throws its channel away, and raises its flag.
LEMMA StopKeepsInformed ==
    ASSUME Shape, Owned, Informed, backend \in Sessions, Stop(backend), backend' = None, stored' = stored,
           lastBook' = lastBook \/ (lastBook' \in Books /\ IsStored(lastBook')), note' \in {note, None}
    PROVE  Informed'
<1> DEFINE w == [worker[backend] EXCEPT !.cancel = TRUE]
<1>1. /\ w.at = worker[backend].at /\ w.reading = worker[backend].reading
      /\ w.gate = worker[backend].gate /\ w.cancel
  BY DEF Shape, Workers
<1>2. worker' = [worker EXCEPT ![backend] = w]
  BY DEF Stop
<1> HIDE DEF w
<1>3. worker'[backend] = w /\ \A t \in Sessions \ {backend} : worker'[t] = worker[t]
  BY <1>2 DEF Shape
<1>4. Truthful'
  <2>1. queue' = [queue EXCEPT ![backend] = <<>>] /\ TrueEvents' = TrueEvents
    BY DEF Stop, TrueEvents, IsStored
  <2>2. <<>> \in Seq(TrueEvents)
    BY EmptySeq
  <2>3. queue' \in [Sessions -> Seq(TrueEvents)]
    BY <2>1, <2>2 DEF Informed, Truthful
  <2> QED BY <2>1, <2>3 DEF Informed, Truthful, IsStored
<1>5. Remembers(backend)
  BY DEF Informed, AllRemember
<1>6. ASSUME NEW t \in Sessions PROVE Remembers(t)'
  <2>1. CASE t = backend
    BY <1>1, <1>3, <1>5, <2>1 DEF Remembers, Alive
  <2>2. CASE t # backend
    <3>1. ~Alive(t) \/ worker[t].cancel
      BY <2>2 DEF Informed, AllRemember, Remembers
    <3>2. worker'[t] = worker[t] /\ Remembers(t)
      BY <1>3, <2>2 DEF Informed, AllRemember
    <3> QED BY <3>1, <3>2 DEF Remembers, Alive
  <2> QED BY <2>1, <2>2
<1> QED BY <1>4, <1>6 DEF Informed, AllRemember

\* A thread that starts remembers nothing yet.
LEMMA StartKeepsInformed ==
    ASSUME Shape, Informed, backend = None, Unused # {}, Start, UNCHANGED <<lastBook, note, stored>>
    PROVE  Informed'
<1> DEFINE new == NextSession
           w == [worker[new] EXCEPT !.at = "opening"]
<1>1. new \in Sessions /\ worker[new].at = "none"
  BY DEF NextSession, Unused
<1>2. w.at = "opening" /\ w.gate = worker[new].gate
  BY <1>1 DEF Shape, Workers
<1>3. worker' = [worker EXCEPT ![new] = w] /\ backend' = new /\ queue' = queue
  BY DEF Start
<1> HIDE DEF new, w
<1>4. worker'[new] = w /\ \A t \in Sessions \ {new} : worker'[t] = worker[t]
  BY <1>1, <1>3 DEF Shape
<1>5. Truthful'
  BY <1>3 DEF Informed, Truthful, TrueEvents, IsStored
<1>6. ASSUME NEW t \in Sessions PROVE Remembers(t)'
  <2>1. CASE t = new
    BY <1>1, <1>2, <1>3, <1>4, <2>1 DEF Informed, AllRemember, Remembers
  <2>2. CASE t # new
    <3>1. Remembers(t) /\ worker'[t] = worker[t] /\ backend # t
      BY <1>4, <2>2, NoneIsNoSession DEF Informed, AllRemember
    <3> QED BY <1>3, <3>1 DEF Remembers, Alive
  <2> QED BY <2>1, <2>2
<1> QED BY <1>5, <1>6 DEF Informed, AllRemember

LEMMA UserKeepsInformed ==
    ASSUME Shape, Owned, Informed, User \/ UpdateInstalls \/ Joined \/ PanelChanges
    PROVE  Informed'
<1>1. CASE ToggleOff
  <2>1. /\ backend \in Sessions /\ Stop(backend) /\ backend' = None /\ UNCHANGED <<lastBook, stored>>
        /\ note' = None
    BY <1>1 DEF ToggleOff, Owned, WatchingHasABackend, Shape
  <2> QED BY <2>1, StopKeepsInformed
<1>2. CASE ToggleRefused \/ SwitchesProfile \/ UpdateInstalls
  <2>1. UNCHANGED <<worker, backend, queue, stored, lastBook, note>>
    BY <1>2 DEF ToggleRefused, SwitchesProfile, UpdateInstalls, shell
  <2> QED BY <2>1, CalmKeepsInformed
<1>3. CASE ToggleOn
  <2>1. /\ backend = None /\ Unused # {} /\ Start /\ UNCHANGED <<lastBook, note, stored>>
    BY <1>3 DEF ToggleOn, Owned, WatchingHasABackend
  <2> QED BY <2>1, StartKeepsInformed
<1>4. CASE Calibrates
  <2>1. CASE watching
    <3>1. /\ backend \in Sessions /\ Stop(backend) /\ backend' = None /\ UNCHANGED <<lastBook, stored, note>>
      BY <1>4, <2>1 DEF Calibrates, Owned, WatchingHasABackend, Shape
    <3> QED BY <3>1, StopKeepsInformed
  <2>2. CASE ~watching
    <3>1. UNCHANGED <<worker, backend, queue, stored, lastBook, note>>
      BY <1>4, <2>2 DEF Calibrates
    <3> QED BY <3>1, CalmKeepsInformed
  <2> QED BY <2>1, <2>2
<1>5. CASE Joined
  <2>1. CASE restarting
    <3>1. /\ backend = None /\ Unused # {} /\ Start /\ UNCHANGED <<lastBook, note, stored>>
      BY <1>5, <2>1 DEF Joined, Owned
    <3> QED BY <3>1, StartKeepsInformed
  <2>2. CASE ~restarting
    <3>1. UNCHANGED <<worker, backend, queue, stored, lastBook, note>>
      BY <1>5, <2>2 DEF Joined
    <3> QED BY <3>1, CalmKeepsInformed
  <2> QED BY <2>1, <2>2
<1>6. CASE PanelChanges
  <2>1. UNCHANGED <<backend, queue, stored, lastBook, note>>
    BY <1>6 DEF PanelChanges, shell
  <2>2. ASSUME NEW s \in Sessions
        PROVE  /\ worker'[s].at = worker[s].at /\ worker'[s].gate = worker[s].gate
               /\ worker'[s].cancel = worker[s].cancel
               /\ worker[s].at = "persist" => worker'[s] = worker[s]
    <3>1. PICK panel :
            worker' = [t \in Sessions |->
                 IF worker[t].at \in Reading \ {"persist"}
                 THEN [worker[t] EXCEPT !.reading.shown = @ \cup {panel}, !.reading.slips = @ + 1]
                 ELSE worker[t]]
      BY <1>6 DEF PanelChanges
    <3>2. worker[s] \in Workers
      BY DEF Shape
    <3>3. CASE worker[s].at \in Reading \ {"persist"}
      <4> DEFINE reading == [worker[s].reading EXCEPT !.shown = @ \cup {panel}, !.slips = @ + 1]
                 w == [worker[s] EXCEPT !.reading = reading]
      <4>1. worker'[s] = w
        BY <3>1, <3>2, <3>3 DEF Workers, Readings
      <4> HIDE DEF reading
      <4>2. w.at = worker[s].at /\ w.gate = worker[s].gate /\ w.cancel = worker[s].cancel
        BY <3>2 DEF Workers
      <4> QED BY <3>3, <4>1, <4>2
    <3>4. CASE worker[s].at \notin Reading \ {"persist"}
      BY <3>1, <3>4
    <3> QED BY <3>3, <3>4
  <2> QED BY <2>1, <2>2, CalmKeepsInformed
<1> QED BY <1>1, <1>2, <1>3, <1>4, <1>5, <1>6 DEF User

\* What tick takes from the channel is one of its events.
LEMMA DrainedIsTrue ==
    ASSUME Truthful, backend \in Sessions, Drains
    PROVE  /\ lastBook' \in Books \cup {None} /\ (lastBook' # None => IsStored(lastBook'))
           /\ note' \in Books \cup {None} /\ (note' # None => IsStored(note'))
<1> DEFINE events == queue[backend]
           warned == LastOf(events, {"warning"}, None)
<1>1. events \in Seq(TrueEvents)
  BY DEF Truthful
<1>2. \A e \in TrueEvents : e.kind \in {"accepted", "warning"} => e.what \in Books /\ IsStored(e.what)
  BY DEF TrueEvents, Events
<1>3. lastBook' = LastOf(events, {"accepted"}, lastBook) /\ note' \in {None, note, warned}
  BY DEF Drains, NoticeAfter
<1> HIDE DEF events
<1>4. lastBook' = lastBook \/ (lastBook' \in Books /\ IsStored(lastBook'))
  BY <1>1, <1>2, <1>3, LastIsOne
<1>5. warned = None \/ (warned \in Books /\ IsStored(warned))
  BY <1>1, <1>2, LastIsOne
<1> HIDE DEF warned
<1> QED BY <1>3, <1>4, <1>5 DEF Truthful

LEMMA DrainsKeepsInformed ==
    ASSUME Shape, Owned, Informed, Drains
    PROVE  Informed'
<1> DEFINE events == queue[backend]
<1>1. backend \in Sessions /\ stored' = stored
  BY DEF Drains, Shape
<1>2. /\ lastBook' \in Books \cup {None} /\ (lastBook' # None => IsStored(lastBook'))
      /\ note' \in Books \cup {None} /\ (note' # None => IsStored(note'))
  BY <1>1, DrainedIsTrue DEF Informed
<1>3. TrueEvents' = TrueEvents /\ queue \in [Sessions -> Seq(TrueEvents)]
  BY <1>1 DEF TrueEvents, IsStored, Informed, Truthful
<1>4. queue' = [queue EXCEPT ![backend] = <<>>]
  BY DEF Drains, Stop
<1>5. Truthful'
  <2>1. <<>> \in Seq(TrueEvents)
    BY EmptySeq
  <2>2. queue' \in [Sessions -> Seq(TrueEvents)]
    BY <1>1, <1>3, <1>4, <2>1
  <2> QED BY <1>1, <1>2, <1>3, <2>2 DEF Truthful, IsStored
<1>6. CASE Ends(events)
  <2>1. Stop(backend) /\ backend' = None
    BY <1>6 DEF Drains
  <2> DEFINE w == [worker[backend] EXCEPT !.cancel = TRUE]
  <2>2. /\ w.at = worker[backend].at /\ w.reading = worker[backend].reading
        /\ w.gate = worker[backend].gate /\ w.cancel
    BY <1>1 DEF Shape, Workers
  <2>3. worker' = [worker EXCEPT ![backend] = w]
    BY <2>1 DEF Stop
  <2> HIDE DEF w
  <2>4. worker'[backend] = w /\ \A t \in Sessions \ {backend} : worker'[t] = worker[t]
    BY <1>1, <2>3 DEF Shape
  <2>5. ASSUME NEW t \in Sessions PROVE Remembers(t)'
    <3>1. Remembers(t)
      BY DEF Informed, AllRemember
    <3>2. CASE t = backend
      BY <2>2, <2>4, <3>1, <3>2 DEF Remembers, Alive
    <3>3. CASE t # backend
      BY <1>1, <2>4, <3>1, <3>3 DEF Remembers, Alive
    <3> QED BY <3>2, <3>3
  <2> QED BY <1>5, <2>5 DEF Informed, AllRemember
<1>7. CASE ~Ends(events)
  <2>1. UNCHANGED <<backend, worker>> /\ ~HasFault(events)
    BY <1>7 DEF Drains, Ends, HasFault
  <2>2. ASSUME NEW t \in Sessions PROVE Remembers(t)'
    <3>1. Remembers(t)
      BY DEF Informed, AllRemember
    <3>2. HasFault(queue[t]) => HasFault(queue'[t])
      BY <1>3, <1>4, <2>1
    <3> QED BY <1>1, <2>1, <3>1, <3>2 DEF Remembers, Alive
  <2> QED BY <1>5, <2>2 DEF Informed, AllRemember
<1> QED BY <1>6, <1>7

LEMMA InformedInit == Init => Informed
<1> SUFFICES ASSUME Init PROVE Informed
  OBVIOUS
<1>1. <<>> \in Seq(TrueEvents)
  BY EmptySeq
<1>2. Truthful
  BY <1>1 DEF Init, Truthful
<1>3. \A s \in Sessions : worker[s].at = "none" /\ worker[s].gate.last = None
  BY DEF Init, NoWorker, NewGate
<1>4. AllRemember
  BY <1>3 DEF AllRemember, Remembers, Alive, Reading
<1> QED BY <1>2, <1>4 DEF Informed

LEMMA InformedStep == Invariant /\ Informed /\ [Next]_vars => Informed'
<1> SUFFICES ASSUME Invariant, Informed, [Next]_vars PROVE Informed'
  OBVIOUS
<1> USE DEF Invariant
<1>1. ASSUME NEW s \in Sessions, WorkerStep(s) \/ WorkerFails(s) PROVE Informed'
  BY <1>1, WorkerKeepsInformed
<1>2. CASE User \/ UpdateInstalls \/ Joined \/ PanelChanges
  BY <1>2, UserKeepsInformed
<1>3. CASE Drains
  BY <1>3, DrainsKeepsInformed
<1>4. CASE UNCHANGED vars
  BY <1>4, CalmKeepsInformed DEF vars
<1> QED BY <1>1, <1>2, <1>3, <1>4 DEF Next

LEMMA InformedAlways == Spec => []Informed
<1>1. Spec => []Invariant
  BY AlwaysHolds
<1> QED BY <1>1, InformedInit, InformedStep, PTL DEF Spec

\* Whatever the interface shows or is still to be told of a book is in the
\* database: persist_then_warn warns and accepts only after the transaction,
\* and the channel keeps the order (pipeline.rs, tick in shell/mod.rs).
THEOREM ToldTheorem == Spec => []ToldOnlyWhatIsStored
<1>1. Informed => ToldOnlyWhatIsStored
  <2> SUFFICES ASSUME Informed PROVE ToldOnlyWhatIsStored
    OBVIOUS
  <2>1. ASSUME NEW s \in Sessions, NEW i \in DOMAIN queue[s], queue[s][i].kind \in {"accepted", "warning"}
        PROVE  IsStored(queue[s][i].what)
    <3>1. queue[s] \in Seq(TrueEvents)
      BY DEF Informed, Truthful
    <3>2. queue[s][i] \in TrueEvents
      BY <3>1
    <3> QED BY <2>1, <3>2 DEF TrueEvents
  <2> QED BY <2>1 DEF ToldOnlyWhatIsStored, Informed, Truthful, IsStored
<1> QED BY <1>1, InformedAlways, PTL

\* A book that should_emit skips as a duplicate is in the database, about to
\* be written, or lost with a fault that stops the session: the signature is
\* remembered before the write that may fail (session.rs), so a book that was
\* not stored is skipped only by a session that is already being ended.
THEOREM DuplicatesTheorem == Spec => []DuplicatesWereStored
<1>1. Informed => DuplicatesWereStored
  BY DEF Informed, AllRemember, Remembers, HasFault, DuplicatesWereStored
<1> QED BY <1>1, InformedAlways, PTL
=============================================================================
