--------------------------- MODULE Updater_proofs ---------------------------
(***************************************************************************)
(* Proofs about Updater, for any files, builds, package size, attempts and *)
(* number of failing calls and deaths.                                     *)
(***************************************************************************)
EXTENDS Updater, SequenceTheorems, TLAPS

-----------------------------------------------------------------------------
(* The inductive invariants.                                               *)

StorageTyped ==
    /\ part \in Seq(Pieces) /\ Len(part) <= Size
    /\ archive \in Seq(Pieces) \cup {None}
    /\ server \in Builds /\ replaced \in BOOLEAN

Types ==
    /\ disk \in [Files -> Entries] /\ StorageTyped
    /\ app \in AppStates /\ mishaps \in 0..MaxMishaps

\* What of the new files is on the disk at each stage.
NewFiles ==
    /\ app.at = "unpack" => \A i \in 1..(app.next - 1) : disk[Plan[i]].new = "new"
    /\ app.at \in {"swap", "move in"} => \A i \in app.next..Len(Plan) : disk[Plan[i]].new = "new"

\* Which files are aside at each stage, and that they are.
Asides ==
    /\ app.aside # {} => app.at \in {"swap", "move in", "undo", "installed"}
    /\ app.at = "swap" => \A f \in app.aside : \E i \in 1..(app.next - 1) : f = Plan[i]
    /\ app.at = "move in" => \A f \in app.aside : \E i \in 1..app.next : f = Plan[i]
    /\ app.at = "move in" /\ File \in Locked => File \in app.aside
    /\ \A f \in app.aside : disk[f].old # None

\* Sweeping comes before anything else; only locked files are ever missing.
Stays ==
    /\ app.sweeps # {} => app.at = "idle"
    /\ app.at # "off" => app.version # None
    /\ \A f \in Files \ Locked : disk[f].live # None

Swapping == NewFiles /\ Asides /\ Stays /\ LastCopyIsKept

\* Where the running version of a locked file is while it is being replaced.
InPlace(f) == disk[f].live = app.version
Aside(f) == disk[f].old = app.version

Restoring ==
    /\ app.fault = "program restored" => app.at = "failed"
    /\ app.whole /\ app.at \in {"download", "verify", "unpack"} => Whole
    /\ app.whole /\ (app.at \in {"swap", "move in"} \/ (app.at = "undo" /\ app.fault = None))
         => \A f \in Locked : IF f \in app.aside THEN Aside(f) ELSE InPlace(f)
    /\ RestoredMeansRestored

\* Until the server replaces its package, what was received is its beginning.
Received(n) == [i \in 1..n |-> <<server, i>>]
Resuming ==
    /\ ~replaced => /\ part = Received(Len(part))
                    /\ app.at = "verify" => archive = Received(Size)
    /\ ResumeIsExact

\* While the sweep goes on without a fault, every missing file is yet to be
\* put back by it.
Sweeping ==
    app.at = "idle" /\ app.fault = None => \A f \in Files : disk[f].live = None => <<f, "old">> \in app.sweeps

-----------------------------------------------------------------------------
(* The plan, the program's state and an entry's fields.                    *)

LEMMA PlanFacts ==
    /\ Len(Plan) \in Nat \ {0}
    /\ \A i \in 1..Len(Plan) : Plan[i] \in Files
    /\ \A f \in Files : \E i \in 1..Len(Plan) : f = Plan[i]
    /\ \A i, j \in 1..Len(Plan) : Plan[i] = Plan[j] => i = j
    /\ Locked \subseteq Files /\ Program \in Locked
<1>1. /\ Plan \in Seq(Files) /\ Locked \subseteq Files /\ Program \in Locked
      /\ \A i, j \in 1..Len(Plan) : Plan[i] = Plan[j] => i = j
  BY UpdateAssumption
<1>2. /\ \A i \in 1..Len(Plan) : Plan[i] \in Files
      /\ \A f \in Files : \E i \in 1..Len(Plan) : f = Plan[i]
  BY DEF Files
<1>3. Len(Plan) \in Nat
  BY <1>1
<1>4. PICK i \in 1..Len(Plan) : Program = Plan[i]
  BY <1>1, <1>2
<1> QED BY <1>1, <1>2, <1>3, <1>4

LEMMA Numbers == Size \in Nat \ {0} /\ MaxAttempts \in Nat \ {0} /\ MaxMishaps \in Nat
BY UpdateAssumption

LEMMA Constants ==
    /\ None # "old" /\ None # "new" /\ None # "torn" /\ None # "program restored"
    /\ None # "program lost" /\ None # "unswept" /\ None # "mismatch" /\ None \notin Builds
    /\ Misaligned \in BOOLEAN
BY UpdateAssumption

LEMMA AppFields ==
    ASSUME NEW w \in AppStates
    PROVE  /\ w.at \in Stages /\ w.version \in {"old", "new", None} /\ w.sweeps \subseteq Leftovers
           /\ w.next \in 1..Len(Plan) /\ w.attempt \in 0..MaxAttempts /\ w.dropped \subseteq Files
           /\ w.aside \subseteq Locked /\ w.fault \in Faults /\ w.whole \in BOOLEAN
           /\ w.next \in Nat /\ w.attempt \in Nat
<1>1. /\ w.at \in Stages /\ w.version \in {"old", "new", None} /\ w.sweeps \subseteq Leftovers
      /\ w.next \in 1..Len(Plan) /\ w.attempt \in 0..MaxAttempts /\ w.dropped \subseteq Files
      /\ w.aside \subseteq Locked /\ w.fault \in Faults /\ w.whole \in BOOLEAN
  BY DEF AppStates
<1> QED BY <1>1

LEMMA OffTypes == Off \in AppStates
<1>1. 1 \in 1..Len(Plan) /\ 0 \in 0..MaxAttempts
  <2>1. \A n \in Nat \ {0} : 1 \in 1..n /\ 0 \in 0..n
    OBVIOUS
  <2> QED BY <2>1, PlanFacts, Numbers
<1> QED BY <1>1 DEF Off, AppStates, Stages, Faults

LEMMA EntryFields ==
    ASSUME NEW e \in Entries
    PROVE  /\ e.live \in {"old", "new", None} /\ e.old \in {"old", "new", None}
           /\ e.new \in {"new", "torn", None}
BY DEF Entries

\* One leftover is swept: nothing that is there is lost.
LEMMA SweptEntry ==
    ASSUME NEW e \in Entries, NEW kind \in {"old", "new"}
    PROVE  LET s == Swept(e, kind)
           IN  /\ s \in Entries
               /\ e.live # None => s.live = e.live
               /\ e.live = None /\ kind = "old" => s.live = e.old
               /\ e.live = None /\ kind = "new" => s = e
<1>1. CASE e.live # None
  <2> DEFINE s == [e EXCEPT ![kind] = None]
  <2>1. s \in Entries /\ s.live = e.live
    BY DEF Entries
  <2> QED BY <1>1, <2>1 DEF Swept
<1>2. CASE e.live = None
  <2> DEFINE s == [e EXCEPT !.live = e.old, !.old = None]
  <2>1. s \in Entries /\ s.live = e.old
    BY DEF Entries
  <2> QED BY <1>2, <2>1 DEF Swept
<1> QED BY <1>1, <1>2

LEMMA DiscardedEntries ==
    ASSUME NEW entries \in [Files -> Entries], NEW files
    PROVE  /\ Discarded(entries, files) \in [Files -> Entries]
           /\ \A f \in Files : /\ Discarded(entries, files)[f].live = entries[f].live
                               /\ Discarded(entries, files)[f].old = entries[f].old
<1>1. ASSUME NEW f \in Files
      PROVE  LET s == [entries[f] EXCEPT !.new = None]
             IN s \in Entries /\ s.live = entries[f].live /\ s.old = entries[f].old
  <2>1. entries[f] \in Entries
    OBVIOUS
  <2> QED BY <2>1 DEF Entries
<1> QED BY <1>1 DEF Discarded

\* The writes to one entry: of its new file, before the undo and by the undo.
LEMMA WritesNew ==
    ASSUME NEW entries \in [Files -> Entries], NEW f \in Files, NEW x \in {"new", "torn", None}, NEW d,
           d = [entries EXCEPT ![f].new = x]
    PROVE  /\ d \in [Files -> Entries] /\ \A g \in Files : g # f => d[g] = entries[g]
           /\ d[f].new = x /\ d[f].live = entries[f].live /\ d[f].old = entries[f].old
<1> DEFINE e == entries[f]
           v == [e EXCEPT !.new = x]
<1>1. d = [entries EXCEPT ![f] = v]
  BY DEF Entries
<1>2. /\ v \in Entries /\ v.new = x /\ v.live = e.live /\ v.old = e.old
  <2>1. e \in Entries
    OBVIOUS
  <2> QED BY <2>1 DEF Entries
<1> HIDE DEF v
<1> QED BY <1>1, <1>2

LEMMA Clears ==
    ASSUME NEW entries \in [Files -> Entries], NEW f \in Files, NEW d,
           d = [entries EXCEPT ![f].live = None]
    PROVE  /\ d \in [Files -> Entries] /\ \A g \in Files : g # f => d[g] = entries[g]
           /\ d[f].live = None /\ d[f].old = entries[f].old
<1> DEFINE e == entries[f]
           v == [e EXCEPT !.live = None]
<1>1. d = [entries EXCEPT ![f] = v]
  BY DEF Entries
<1>2. /\ v \in Entries /\ v.live = None /\ v.old = e.old
  <2>1. e \in Entries
    OBVIOUS
  <2> QED BY <2>1 DEF Entries
<1> HIDE DEF v
<1> QED BY <1>1, <1>2

LEMMA WritesBack ==
    ASSUME NEW entries \in [Files -> Entries], NEW f \in Files, NEW d,
           d = [entries EXCEPT ![f] = Restored(@)]
    PROVE  /\ d \in [Files -> Entries] /\ \A g \in Files : g # f => d[g] = entries[g]
           /\ d[f].live = entries[f].old
<1> DEFINE e == entries[f]
           v == [e EXCEPT !.live = e.old, !.old = None]
<1>1. v \in Entries /\ v.live = e.old
  <2>1. e \in Entries
    OBVIOUS
  <2> QED BY <2>1 DEF Entries
<1>2. Restored(e) \in Entries /\ Restored(e).live = e.old
  BY <1>1 DEF Restored
<1>3. d = [entries EXCEPT ![f] = Restored(e)]
  OBVIOUS
<1> QED BY <1>2, <1>3

LEMMA Mishaps == Mishap /\ mishaps \in 0..MaxMishaps => mishaps' \in 0..MaxMishaps
BY Numbers DEF Mishap

LEMMA AppBecomes ==
    ASSUME NEW w \in AppStates, NEW at \in Stages
    PROVE  LET u == [w EXCEPT !.at = at]
           IN  /\ u \in AppStates /\ u.at = at /\ u.version = w.version /\ u.sweeps = w.sweeps
               /\ u.next = w.next /\ u.aside = w.aside /\ u.fault = w.fault /\ u.whole = w.whole
BY DEF AppStates

LEMMA AppFails ==
    ASSUME app \in AppStates, NEW fault \in Faults, Fails(fault)
    PROVE  /\ app' \in AppStates /\ app'.at = "failed" /\ app'.fault = fault /\ app'.aside = {}
           /\ app'.version = app.version /\ app'.sweeps = app.sweeps /\ app'.next = app.next
           /\ app'.whole = app.whole
<1>1. app' = [app EXCEPT !.at = "failed", !.fault = fault, !.dropped = {}, !.aside = {}]
  BY DEF Fails
<1> QED BY <1>1 DEF AppStates, Stages

-----------------------------------------------------------------------------
(* What each group of actions does to the disk and to the program's state. *)

LEMMA AskingShape ==
    ASSUME Types, Asking
    PROVE  /\ disk' = disk /\ UNCHANGED <<storage, world>> /\ mishaps' \in 0..MaxMishaps
           /\ app' \in AppStates /\ app'.version = app.version /\ app'.sweeps = app.sweeps
           /\ app'.next = app.next /\ app'.whole = app.whole
           /\ \/ /\ app.at \in {"idle", "current", "available", "failed"} /\ app.sweeps = {}
                 /\ app'.at = "checking" /\ app'.fault = None /\ app'.aside = app.aside
              \/ /\ app.at = "checking" /\ app'.at \in {"available", "current"}
                 /\ app'.fault = app.fault /\ app'.aside = app.aside
              \/ /\ app.at = "checking" /\ app'.at = "failed" /\ app'.fault = "unreachable"
                 /\ app'.aside = {}
<1> USE DEF Types
<1>1. CASE Check
  <2>1. app' = [app EXCEPT !.at = "checking", !.fault = None]
    BY <1>1 DEF Check
  <2>2. /\ app' \in AppStates /\ app'.version = app.version /\ app'.sweeps = app.sweeps
        /\ app'.next = app.next /\ app'.whole = app.whole
        /\ app'.at = "checking" /\ app'.fault = None /\ app'.aside = app.aside
    BY <2>1 DEF AppStates, Stages, Faults
  <2> QED BY <1>1, <2>2 DEF Check, storage, world
<1>2. CASE Answered
  <2>1. PICK at \in {"available", "current"} : app' = [app EXCEPT !.at = at]
    BY <1>2 DEF Answered, Becomes
  <2>2. /\ app' \in AppStates /\ app'.version = app.version /\ app'.sweeps = app.sweeps
        /\ app'.next = app.next /\ app'.whole = app.whole
        /\ app'.at = at /\ app'.fault = app.fault /\ app'.aside = app.aside
    <3>1. at \in Stages
      BY DEF Stages
    <3> QED BY <2>1, <3>1, AppBecomes
  <2> QED BY <1>2, <2>2 DEF Answered, storage, world
<1>3. CASE CheckFails
  <2>1. Fails("unreachable") /\ "unreachable" \in Faults
    BY <1>3 DEF CheckFails, Faults
  <2> QED BY <1>3, <2>1, AppFails, Mishaps DEF CheckFails, storage, world
<1> QED BY <1>1, <1>2, <1>3 DEF Asking

LEMMA AttemptShape ==
    ASSUME Types, AfterAttempt
    PROVE  /\ app' \in AppStates /\ app'.version = app.version /\ app'.sweeps = app.sweeps
           /\ app'.whole = app.whole
           /\ \/ app'.at = app.at /\ app'.fault = app.fault /\ app'.aside = app.aside
              \/ app'.at = "failed" /\ app'.fault = "unreachable" /\ app'.aside = {}
<1> USE DEF Types
<1>1. CASE UNCHANGED app
  BY <1>1
<1>2. CASE app.attempt < MaxAttempts /\ app' = [app EXCEPT !.attempt = @ + 1]
  <2>1. app.attempt + 1 \in 0..MaxAttempts
    BY <1>2, AppFields, Numbers
  <2> QED BY <1>2, <2>1 DEF AppStates
<1>3. CASE Fails("unreachable")
  <2>1. "unreachable" \in Faults
    BY DEF Faults
  <2> QED BY <1>3, <2>1, AppFails
<1> QED BY <1>1, <1>2, <1>3 DEF AfterAttempt

LEMMA StagingShape ==
    ASSUME Types, Staging
    PROVE  /\ disk' = disk /\ UNCHANGED world /\ mishaps' \in 0..MaxMishaps
           /\ app' \in AppStates /\ app'.version = app.version /\ app'.sweeps = app.sweeps
           /\ \/ /\ app.at = "available" /\ app'.at = "download" /\ app'.fault = app.fault
                 /\ app'.aside = app.aside /\ app'.whole = Whole
              \/ /\ app.at = "download" /\ app'.at \in {"download", "verify"} /\ app'.fault = app.fault
                 /\ app'.aside = app.aside /\ app'.whole = app.whole
              \/ /\ app.at = "verify" /\ app'.at = "unpack" /\ app'.fault = app.fault
                 /\ app'.aside = app.aside /\ app'.whole = app.whole /\ app'.next = 1
              \/ /\ app.at \in {"download", "verify"} /\ app'.at = "failed" /\ app'.aside = {}
                 /\ app'.fault \in {"unreachable", "rejected", "mismatch"} /\ app'.whole = app.whole
                 /\ app'.fault = "mismatch" => app.at = "verify" /\ ~Intact(archive)
<1> USE DEF Types
<1>1. CASE Install
  <2>1. app' = [app EXCEPT !.at = "download", !.attempt = 1, !.whole = Whole]
    BY <1>1 DEF Install
  <2>2. 1 \in 0..MaxAttempts
    BY Numbers
  <2>5. Whole \in BOOLEAN
    BY DEF Whole
  <2> HIDE DEF Whole
  <2>3. /\ app' \in AppStates /\ app'.version = app.version /\ app'.sweeps = app.sweeps
        /\ app'.at = "download" /\ app'.fault = app.fault /\ app'.aside = app.aside
    BY <2>1, <2>2, <2>5 DEF AppStates, Stages
  <2>4. app'.whole = Whole
    BY <2>1 DEF AppStates
  <2> QED BY <1>1, <2>3, <2>4 DEF Install, world
<1>2. CASE FetchRange \/ RefusedRange
  <2>1. AfterAttempt /\ app.at = "download"
    BY <1>2 DEF FetchRange, RefusedRange
  <2>2. disk' = disk /\ UNCHANGED world /\ mishaps' \in 0..MaxMishaps
    BY <1>2, Mishaps DEF FetchRange, RefusedRange, world
  <2> QED BY <2>1, <2>2, AttemptShape
<1>3. CASE Rejected
  <2>1. Fails("rejected") /\ "rejected" \in Faults
    BY <1>3 DEF Rejected, Faults
  <2> QED BY <1>3, <2>1, AppFails, Mishaps DEF Rejected, world
<1>4. CASE Save
  <2>1. app' = [app EXCEPT !.at = "verify"]
    BY <1>4 DEF Save, Becomes
  <2>2. /\ app' \in AppStates /\ app'.version = app.version /\ app'.sweeps = app.sweeps
        /\ app'.at = "verify" /\ app'.fault = app.fault /\ app'.aside = app.aside /\ app'.whole = app.whole
    BY <2>1, AppBecomes DEF Stages
  <2> QED BY <1>4, <2>2 DEF Save, world
<1>5. CASE Verify
  <2>1. CASE Intact(archive)
    <3>1. app' = [app EXCEPT !.at = "unpack", !.next = 1] /\ 1 \in 1..Len(Plan)
      <4>1. \A n \in Nat \ {0} : 1 \in 1..n
        OBVIOUS
      <4> QED BY <1>5, <2>1, <4>1, PlanFacts DEF Verify
    <3>2. /\ app' \in AppStates /\ app'.version = app.version /\ app'.sweeps = app.sweeps
          /\ app'.at = "unpack" /\ app'.fault = app.fault /\ app'.aside = app.aside
          /\ app'.whole = app.whole /\ app'.next = 1
      BY <3>1 DEF AppStates, Stages
    <3> QED BY <1>5, <3>2 DEF Verify, world
  <2>2. CASE ~Intact(archive)
    <3>1. Fails("mismatch") /\ "mismatch" \in Faults
      BY <1>5, <2>2 DEF Verify, Faults
    <3> QED BY <1>5, <2>2, <3>1, AppFails DEF Verify, world
  <2> QED BY <2>1, <2>2
<1> QED BY <1>1, <1>2, <1>3, <1>4, <1>5 DEF Staging

LEMMA NextFile ==
    ASSUME app \in AppStates
    PROVE  /\ app.next \in 1..Len(Plan) /\ app.next \in Nat /\ File = Plan[app.next] /\ File \in Files
           /\ Len(Plan) \in Nat /\ ~LastFile => app.next + 1 \in 1..Len(Plan)
<1>1. app.next \in 1..Len(Plan) /\ Len(Plan) \in Nat
  BY AppFields, PlanFacts
<1>2. \A m \in Nat : \A n \in 1..m : n # m => n + 1 \in 1..m
  OBVIOUS
<1> QED BY <1>1, <1>2, PlanFacts DEF File, LastFile

LEMMA UnpackShape ==
    ASSUME Types, Unpack
    PROVE  /\ UNCHANGED <<storage, world, mishaps>> /\ disk' \in [Files -> Entries]
           /\ \A g \in Files : g # File => disk'[g] = disk[g]
           /\ disk'[File].new = "new" /\ disk'[File].live = disk[File].live
           /\ disk'[File].old = disk[File].old
           /\ app.at = "unpack"
           /\ app' \in AppStates /\ app'.version = app.version /\ app'.sweeps = app.sweeps
           /\ app'.aside = app.aside /\ app'.fault = app.fault /\ app'.whole = app.whole
           /\ IF LastFile THEN app'.at = "swap" /\ app'.next = 1
              ELSE app'.at = "unpack" /\ app'.next = app.next + 1
<1> DEFINE at == IF LastFile THEN "swap" ELSE app.at
           next == IF LastFile THEN 1 ELSE app.next + 1
           dropped == app.dropped \cup {File}
<1>1. /\ disk' = [disk EXCEPT ![File].new = "new"] /\ app.at = "unpack"
      /\ app' = [app EXCEPT !.dropped = dropped, !.at = at, !.next = next]
      /\ UNCHANGED <<storage, world, mishaps>>
  BY DEF Unpack
<1>2. disk \in [Files -> Entries] /\ app \in AppStates /\ File \in Files
  BY NextFile DEF Types
<1>3. /\ disk' \in [Files -> Entries] /\ \A g \in Files : g # File => disk'[g] = disk[g]
      /\ disk'[File].new = "new" /\ disk'[File].live = disk[File].live
      /\ disk'[File].old = disk[File].old
  <2>1. disk' = [disk EXCEPT ![File].new = "new"]
    BY <1>1
  <2> QED BY <1>2, <2>1, WritesNew
<1>4. at \in Stages /\ next \in 1..Len(Plan) /\ dropped \subseteq Files
  <2>1. 1 \in 1..Len(Plan)
    <3>1. \A n \in Nat \ {0} : 1 \in 1..n
      OBVIOUS
    <3> QED BY <3>1, PlanFacts
  <2>2. at \in Stages
    BY <1>1 DEF Stages
  <2>3. next \in 1..Len(Plan)
    BY <1>2, <2>1, NextFile
  <2>4. dropped \subseteq Files
    BY <1>2, AppFields
  <2> QED BY <2>2, <2>3, <2>4
<1>5. at = IF LastFile THEN "swap" ELSE "unpack"
  BY <1>1
<1>6. next = IF LastFile THEN 1 ELSE app.next + 1
  OBVIOUS
<1> HIDE DEF at, next, dropped
<1>7. /\ app' \in AppStates /\ app'.version = app.version /\ app'.sweeps = app.sweeps
      /\ app'.aside = app.aside /\ app'.fault = app.fault /\ app'.whole = app.whole
      /\ app'.at = at /\ app'.next = next
  BY <1>1, <1>2, <1>4 DEF AppStates
<1> QED BY <1>1, <1>3, <1>5, <1>6, <1>7

\* The disk after unpacking failed or ended half-way: only new files differ.
LEMMA TornShape ==
    ASSUME Types, UnpackFails \/ DiesWriting
    PROVE  /\ UNCHANGED <<storage, world>> /\ mishaps' \in 0..MaxMishaps /\ disk' \in [Files -> Entries]
           /\ \A g \in Files : disk'[g].live = disk[g].live /\ disk'[g].old = disk[g].old
           /\ app.at = "unpack"
           /\ \/ app' = Off
              \/ /\ app' \in AppStates /\ app'.version = app.version /\ app'.sweeps = app.sweeps
                 /\ app'.at = "failed" /\ app'.aside = {} /\ app'.fault = "unpack"
                 /\ app'.whole = app.whole
<1> DEFINE d == Discarded(disk, app.dropped)
<1>1. disk \in [Files -> Entries] /\ app \in AppStates /\ File \in Files
  BY NextFile DEF Types
<1>2. CASE UnpackFails
  <2>1. Fails("unpack") /\ "unpack" \in Faults
    BY <1>2 DEF UnpackFails, Faults
  <2>2. d \in [Files -> Entries] /\ \A f \in Files : d[f].live = disk[f].live /\ d[f].old = disk[f].old
    BY <1>1, DiscardedEntries
  <2>3. CASE disk' = Discarded(disk, app.dropped \cup {File})
    BY <1>1, <1>2, <2>1, <2>3, DiscardedEntries, AppFails, Mishaps DEF UnpackFails, Types
  <2>4. CASE disk' = [d EXCEPT ![File].new = "torn"]
    <3> HIDE DEF d
    <3>1. /\ disk' \in [Files -> Entries] /\ \A g \in Files : g # File => disk'[g] = d[g]
          /\ disk'[File].live = d[File].live /\ disk'[File].old = d[File].old
      BY <1>1, <2>2, <2>4, WritesNew
    <3> QED BY <1>1, <1>2, <2>1, <2>2, <3>1, AppFails, Mishaps DEF UnpackFails, Types
  <2> QED BY <1>2, <2>3, <2>4 DEF UnpackFails
<1>3. CASE DiesWriting
  <2>1. disk' = [disk EXCEPT ![File].new = "torn"]
    BY <1>3 DEF DiesWriting
  <2>2. /\ disk' \in [Files -> Entries] /\ \A g \in Files : g # File => disk'[g] = disk[g]
        /\ disk'[File].live = disk[File].live /\ disk'[File].old = disk[File].old
    BY <1>1, <2>1, WritesNew
  <2> QED BY <1>1, <1>3, <2>2, Mishaps DEF DiesWriting, Types
<1> QED BY <1>2, <1>3

LEMMA RenameShape ==
    ASSUME Types, RenameAside
    PROVE  /\ UNCHANGED <<storage, world, mishaps>> /\ disk' \in [Files -> Entries]
           /\ \A g \in Files : g # File => disk'[g] = disk[g]
           /\ disk'[File].old = disk[File].live /\ disk'[File].live = None
           /\ disk'[File].new = disk[File].new
           /\ app.at = "swap" /\ File \in Locked /\ disk[File].live # None
           /\ app' \in AppStates /\ app'.version = app.version /\ app'.sweeps = app.sweeps
           /\ app'.aside = app.aside \cup {File} /\ app'.fault = app.fault /\ app'.whole = app.whole
           /\ app'.at = "move in" /\ app'.next = app.next
<1> DEFINE aside == app.aside \cup {File}
<1>1. /\ disk' = [disk EXCEPT ![File].old = disk[File].live, ![File].live = None] /\ app.at = "swap"
      /\ app' = [app EXCEPT !.at = "move in", !.aside = aside]
      /\ UNCHANGED <<storage, world, mishaps>> /\ File \in Locked /\ disk[File].live # None
  BY DEF RenameAside
<1>2. disk \in [Files -> Entries] /\ app \in AppStates /\ File \in Files
  BY NextFile DEF Types
<1>3. /\ disk' \in [Files -> Entries] /\ \A g \in Files : g # File => disk'[g] = disk[g]
      /\ disk'[File].old = disk[File].live /\ disk'[File].live = None
      /\ disk'[File].new = disk[File].new
  <2> DEFINE v == [disk[File] EXCEPT !.old = disk[File].live, !.live = None]
  <2>1. disk' = [disk EXCEPT ![File] = v]
    BY <1>1, <1>2 DEF Entries
  <2>2. disk[File] \in Entries
    BY <1>2
  <2>3. v \in Entries /\ v.old = disk[File].live /\ v.live = None /\ v.new = disk[File].new
    BY <2>2 DEF Entries
  <2> HIDE DEF v
  <2> QED BY <1>2, <2>1, <2>3
<1>4. aside \subseteq Locked
  BY <1>1, <1>2, AppFields
<1> HIDE DEF aside
<1>5. /\ app' \in AppStates /\ app'.version = app.version /\ app'.sweeps = app.sweeps
      /\ app'.aside = aside /\ app'.fault = app.fault /\ app'.whole = app.whole
      /\ app'.at = "move in" /\ app'.next = app.next
  BY <1>1, <1>2, <1>4 DEF AppStates, Stages
<1> QED BY <1>1, <1>3, <1>5 DEF aside

LEMMA MoveShape ==
    ASSUME Types, NewFiles, MoveIn
    PROVE  /\ UNCHANGED <<storage, world, mishaps>> /\ disk' \in [Files -> Entries]
           /\ \A g \in Files : g # File => disk'[g] = disk[g]
           /\ disk'[File].live = "new" /\ disk'[File].old = disk[File].old
           /\ app.at = "move in" \/ (app.at = "swap" /\ (File \in Locked => disk[File].live = None))
           /\ app' \in AppStates /\ app'.version = app.version /\ app'.sweeps = app.sweeps
           /\ app'.aside = app.aside /\ app'.fault = app.fault /\ app'.whole = app.whole
           /\ \/ app'.at = "installed"
              \/ ~LastFile /\ app'.at = "swap" /\ app'.next = app.next + 1
<1>1. /\ disk' = [disk EXCEPT ![File].live = disk[File].new, ![File].new = None]
      /\ app.at = "move in" \/ (app.at = "swap" /\ (File \in Locked => disk[File].live = None))
      /\ UNCHANGED <<storage, world, mishaps>>
  BY DEF MoveIn, MovesIn
<1>2. disk \in [Files -> Entries] /\ app \in AppStates /\ File \in Files
  BY NextFile DEF Types
<1>3. disk[File].new = "new"
  <2>1. app.next \in app.next..Len(Plan)
    <3>1. \A m \in Nat : \A n \in 1..m : n \in n..m
      OBVIOUS
    <3> QED BY <1>2, <3>1, NextFile
  <2> QED BY <1>1, <2>1, <1>2, NextFile DEF NewFiles
<1>4. /\ disk' \in [Files -> Entries] /\ \A g \in Files : g # File => disk'[g] = disk[g]
      /\ disk'[File].live = "new" /\ disk'[File].old = disk[File].old
  <2> DEFINE v == [disk[File] EXCEPT !.live = disk[File].new, !.new = None]
  <2>1. disk' = [disk EXCEPT ![File] = v]
    BY <1>1, <1>2 DEF Entries
  <2>2. disk[File] \in Entries
    BY <1>2
  <2>3. v \in Entries /\ v.live = "new" /\ v.old = disk[File].old
    BY <1>3, <2>2 DEF Entries
  <2> HIDE DEF v
  <2> QED BY <1>2, <2>1, <2>3
<1>5. CASE LastFile
  <2>1. app' = [app EXCEPT !.at = "installed", !.dropped = {}]
    BY <1>5 DEF MoveIn
  <2>2. /\ app' \in AppStates /\ app'.version = app.version /\ app'.sweeps = app.sweeps
        /\ app'.aside = app.aside /\ app'.fault = app.fault /\ app'.whole = app.whole
        /\ app'.at = "installed"
    BY <1>2, <2>1 DEF AppStates, Stages
  <2> QED BY <1>1, <1>4, <2>2
<1>6. CASE ~LastFile
  <2>1. app' = [app EXCEPT !.at = "swap", !.next = @ + 1] /\ app.next + 1 \in 1..Len(Plan)
    BY <1>2, <1>6, NextFile DEF MoveIn
  <2>2. /\ app' \in AppStates /\ app'.version = app.version /\ app'.sweeps = app.sweeps
        /\ app'.aside = app.aside /\ app'.fault = app.fault /\ app'.whole = app.whole
        /\ app'.at = "swap" /\ app'.next = app.next + 1
    BY <1>2, <2>1 DEF AppStates, Stages
  <2> QED BY <1>1, <1>4, <1>6, <2>2
<1> QED BY <1>5, <1>6

LEMMA SwapFailsShape ==
    ASSUME Types, SwapFails
    PROVE  /\ UNCHANGED <<disk, storage, world>> /\ mishaps' \in 0..MaxMishaps
           /\ app.at \in {"swap", "move in"}
           /\ app' \in AppStates /\ app'.version = app.version /\ app'.sweeps = app.sweeps
           /\ app'.aside = app.aside /\ app'.fault = app.fault /\ app'.whole = app.whole
           /\ app'.at = "undo" /\ app'.next = app.next
<1>1. app' = [app EXCEPT !.at = "undo"] /\ "undo" \in Stages
  BY DEF SwapFails, Becomes, Stages
<1> QED BY <1>1, AppBecomes, Mishaps DEF SwapFails, Types

\* A step of the undo: f is cleared, put back, or given up.
LEMMA UndoShape ==
    ASSUME Types, ClearForUndo \/ UndoAside \/ UndoFails
    PROVE  /\ UNCHANGED <<storage, world>> /\ mishaps' \in 0..MaxMishaps
           /\ disk' \in [Files -> Entries] /\ app.at = "undo"
           /\ app' \in AppStates /\ app'.version = app.version /\ app'.sweeps = app.sweeps
           /\ app'.whole = app.whole /\ app'.at = "undo"
           /\ \E f \in app.aside :
                 /\ f \in Locked /\ f \in Files /\ \A g \in Files : g # f => disk'[g] = disk[g]
                 /\ \/ /\ disk'[f].live = None /\ disk'[f].old = disk[f].old /\ app' = app
                    \/ /\ disk'[f].live = disk[f].old
                       /\ app'.aside = app.aside \ {f} /\ app'.fault = app.fault
                    \/ /\ disk' = disk /\ app'.aside = app.aside \ {f}
                       /\ app'.fault = "program lost"
<1>1. disk \in [Files -> Entries] /\ app \in AppStates /\ UndoOrder \subseteq app.aside
      /\ app.aside \subseteq Locked /\ Locked \subseteq Files /\ mishaps \in 0..MaxMishaps
  BY AppFields, PlanFacts DEF Types, UndoOrder
<1>2. CASE ClearForUndo
  <2>1. PICK f \in UndoOrder : disk' = [disk EXCEPT ![f].live = None]
    BY <1>2 DEF ClearForUndo
  <2>2. f \in app.aside /\ f \in Locked /\ f \in Files
    BY <1>1
  <2>3. /\ disk' \in [Files -> Entries] /\ \A g \in Files : g # f => disk'[g] = disk[g]
        /\ disk'[f].live = None /\ disk'[f].old = disk[f].old
    BY <1>1, <2>1, <2>2, Clears
  <2> QED BY <1>1, <1>2, <2>2, <2>3 DEF ClearForUndo
<1>3. CASE UndoAside
  <2>1. PICK f \in UndoOrder : /\ disk' = [disk EXCEPT ![f] = Restored(@)]
                               /\ app' = [app EXCEPT !.aside = @ \ {f}]
    BY <1>3 DEF UndoAside
  <2>2. f \in app.aside /\ f \in Locked /\ f \in Files
    BY <1>1
  <2>3. /\ disk' \in [Files -> Entries] /\ \A g \in Files : g # f => disk'[g] = disk[g]
        /\ disk'[f].live = disk[f].old
    BY <1>1, <2>1, <2>2, WritesBack
  <2>4. app.aside \ {f} \subseteq Locked
    BY <1>1
  <2>5. /\ app' \in AppStates /\ app'.version = app.version /\ app'.sweeps = app.sweeps
        /\ app'.whole = app.whole /\ app'.at = app.at
        /\ app'.aside = app.aside \ {f} /\ app'.fault = app.fault
    BY <1>1, <2>1, <2>4 DEF AppStates
  <2> QED BY <1>1, <1>3, <2>2, <2>3, <2>5 DEF UndoAside
<1>4. CASE UndoFails
  <2>1. PICK f \in UndoOrder : app' = [app EXCEPT !.aside = @ \ {f}, !.fault = "program lost"]
    BY <1>4 DEF UndoFails
  <2>2. f \in app.aside /\ f \in Locked /\ f \in Files
    BY <1>1
  <2>4. app.aside \ {f} \subseteq Locked
    BY <1>1
  <2>5. /\ app' \in AppStates /\ app'.version = app.version /\ app'.sweeps = app.sweeps
        /\ app'.whole = app.whole /\ app'.at = app.at
        /\ app'.aside = app.aside \ {f} /\ app'.fault = "program lost"
    BY <1>1, <2>1, <2>4 DEF AppStates, Faults
  <2>6. disk' = disk /\ UNCHANGED <<storage, world>> /\ mishaps' \in 0..MaxMishaps /\ app.at = "undo"
    BY <1>1, <1>4, Mishaps DEF UndoFails
  <2> QED BY <1>1, <2>2, <2>5, <2>6
<1> QED BY <1>2, <1>3, <1>4

LEMMA UndoneShape ==
    ASSUME Types, Undone
    PROVE  /\ UNCHANGED <<storage, world, mishaps>> /\ disk' \in [Files -> Entries]
           /\ \A g \in Files : disk'[g].live = disk[g].live /\ disk'[g].old = disk[g].old
           /\ app.at = "undo" /\ app.aside = {}
           /\ app' \in AppStates /\ app'.version = app.version /\ app'.sweeps = app.sweeps
           /\ app'.whole = app.whole /\ app'.at = "failed" /\ app'.aside = {}
           /\ app'.fault = IF app.fault = None THEN "program restored" ELSE app.fault
<1> DEFINE fault == IF app.fault = None THEN "program restored" ELSE app.fault
<1>1. disk \in [Files -> Entries] /\ app \in AppStates /\ disk' = Discarded(disk, app.dropped)
  BY DEF Types, Undone
<1>2. fault \in Faults /\ Fails(fault)
  BY <1>1, AppFields DEF Faults, Undone
<1>3. /\ disk' \in [Files -> Entries]
      /\ \A g \in Files : disk'[g].live = disk[g].live /\ disk'[g].old = disk[g].old
  BY <1>1, DiscardedEntries
<1>4. fault = IF app.fault = None THEN "program restored" ELSE app.fault
  OBVIOUS
<1> HIDE DEF fault
<1>5. /\ app' \in AppStates /\ app'.at = "failed" /\ app'.fault = fault /\ app'.aside = {}
      /\ app'.version = app.version /\ app'.sweeps = app.sweeps /\ app'.whole = app.whole
  BY <1>1, <1>2, AppFails
<1> QED BY <1>3, <1>4, <1>5 DEF Undone

LEMMA SweepShape ==
    ASSUME Types, NEW entry \in app.sweeps, Sweep(entry[1], entry[2]) \/ SweepFails(entry[1], entry[2])
    PROVE  /\ UNCHANGED <<storage, world>> /\ mishaps' \in 0..MaxMishaps
           /\ disk' \in [Files -> Entries]
           /\ entry[1] \in Files /\ entry = <<entry[1], entry[2]>>
           /\ \A g \in Files : g # entry[1] => disk'[g] = disk[g]
           /\ app' \in AppStates /\ app'.version = app.version /\ app'.at = app.at
           /\ app'.aside = app.aside /\ app'.whole = app.whole
           /\ app'.sweeps = app.sweeps \ {entry}
           /\ \/ disk'[entry[1]] = Swept(disk[entry[1]], entry[2]) /\ app'.fault = app.fault
              \/ disk' = disk /\ app'.fault = "unswept"
<1> DEFINE f == entry[1]
           kind == entry[2]
<1>1. disk \in [Files -> Entries] /\ app \in AppStates /\ app.sweeps \subseteq Leftovers
      /\ Locked \subseteq Files /\ mishaps \in 0..MaxMishaps
  BY AppFields, PlanFacts DEF Types
<1>2. f \in Files /\ kind \in {"old", "new"} /\ entry = <<f, kind>>
  BY <1>1 DEF Leftovers
<1>3. app.sweeps \ {entry} \subseteq Leftovers
  BY <1>1
<1> HIDE DEF f, kind
<1>4. CASE Sweep(f, kind)
  <2>1. /\ app' = [app EXCEPT !.sweeps = @ \ {entry}]
        /\ disk' = [disk EXCEPT ![f] = Swept(@, kind)]
        /\ UNCHANGED <<storage, world, mishaps>>
    BY <1>2, <1>4 DEF Sweep
  <2>2. /\ app' \in AppStates /\ app'.version = app.version /\ app'.at = app.at
        /\ app'.aside = app.aside /\ app'.whole = app.whole
        /\ app'.sweeps = app.sweeps \ {entry} /\ app'.fault = app.fault
    BY <1>1, <1>3, <2>1 DEF AppStates
  <2>3. disk[f] \in Entries /\ Swept(disk[f], kind) \in Entries
    BY <1>1, <1>2, SweptEntry
  <2>4. /\ disk' \in [Files -> Entries] /\ disk'[f] = Swept(disk[f], kind)
        /\ \A g \in Files : g # f => disk'[g] = disk[g]
    BY <1>1, <1>2, <2>1, <2>3
  <2> QED BY <1>1, <1>2, <2>1, <2>2, <2>4 DEF f, kind
<1>5. CASE SweepFails(f, kind)
  <2>1. /\ app' = [app EXCEPT !.sweeps = @ \ {entry}, !.fault = "unswept"]
        /\ UNCHANGED <<disk, storage, world>> /\ Mishap
    BY <1>2, <1>5 DEF SweepFails
  <2>2. /\ app' \in AppStates /\ app'.version = app.version /\ app'.at = app.at
        /\ app'.aside = app.aside /\ app'.whole = app.whole
        /\ app'.sweeps = app.sweeps \ {entry} /\ app'.fault = "unswept"
    BY <1>1, <1>3, <2>1 DEF AppStates, Faults
  <2> QED BY <1>1, <1>2, <2>1, <2>2, Mishaps DEF f, kind
<1> QED BY <1>4, <1>5 DEF f, kind

LEMMA LaunchShape ==
    ASSUME Types, Launch
    PROVE  /\ UNCHANGED <<disk, part, world, mishaps>> /\ archive' = None
           /\ app.at = "off" /\ disk[Program].live # None
           /\ app' \in AppStates /\ app'.version = disk[Program].live /\ app'.at = "idle"
           /\ app'.sweeps = Leftovers /\ app'.aside = {} /\ app'.fault = None
<1>1. app' = [Off EXCEPT !.at = "idle", !.version = disk[Program].live, !.sweeps = Leftovers]
  BY DEF Launch
<1>2. disk[Program].live \in {"old", "new", None}
  BY EntryFields, PlanFacts DEF Types
<1>3. Off \in AppStates /\ Off.aside = {} /\ Off.fault = None
  BY OffTypes DEF Off
<1>4. /\ app' \in AppStates /\ app'.version = disk[Program].live /\ app'.at = "idle"
      /\ app'.sweeps = Leftovers /\ app'.aside = Off.aside /\ app'.fault = Off.fault
  BY <1>1, <1>2, <1>3 DEF AppStates, Stages
<1> QED BY <1>3, <1>4 DEF Launch

\* What one request leaves of the part: what was kept of it, followed by a
\* body that fits; unless the server misaligns, the body continues it.
LEMMA FetchShape ==
    ASSUME Types, FetchRange
    PROVE  /\ UNCHANGED <<archive, world>> /\ app.at = "download"
           /\ \E kept \in {part, <<>>}, start \in 0..(Size - 1) : \E count \in 0..(Size - start) :
                 /\ part' = kept \o Body(start, count)
                 /\ (kept = part /\ start = Len(part)) \/ kept = <<>>
                 /\ ~Misaligned => start = Len(kept)
<1>1. /\ part \in Seq(Pieces) /\ Len(part) \in Nat /\ Len(part) < Size /\ Size \in Nat \ {0}
  BY Numbers DEF Types, StorageTyped, FetchRange
<1>2. PICK answer \in Answers : \E count \in 0..(Size - answer.start) :
          part' = (IF Append206(answer.status, answer.start) THEN part ELSE <<>>)
                  \o Body(answer.start, count)
  BY DEF FetchRange
<1>3. PICK count \in 0..(Size - answer.start) :
          part' = (IF Append206(answer.status, answer.start) THEN part ELSE <<>>)
                  \o Body(answer.start, count)
  BY <1>2
<1> DEFINE start == answer.start
           kept == IF Append206(answer.status, answer.start) THEN part ELSE <<>>
<1>4. /\ start \in 0..(Size - 1)
      /\ ~Misaligned => \/ answer.status = 206 /\ start = Len(part)
                        \/ answer.status = 200 /\ start = 0
  BY <1>1 DEF Answers
<1>5. /\ kept \in {part, <<>>} /\ ((kept = part /\ start = Len(part)) \/ kept = <<>>)
      /\ ~Misaligned => start = Len(kept)
  BY <1>1, <1>4 DEF Append206
<1>6. UNCHANGED <<archive, world>> /\ app.at = "download" /\ part' = kept \o Body(start, count)
  BY <1>3 DEF FetchRange
<1>7. count \in 0..(Size - start)
  OBVIOUS
<1> HIDE DEF start, kept
<1>8. \E n \in 0..(Size - start) :
          /\ part' = kept \o Body(start, n)
          /\ (kept = part /\ start = Len(part)) \/ kept = <<>>
          /\ ~Misaligned => start = Len(kept)
  BY <1>5, <1>6, <1>7
<1>9. start \in 0..(Size - 1) /\ kept \in {part, <<>>}
  BY <1>4, <1>5
<1> QED BY <1>6, <1>8, <1>9

LEMMA BodyTypes ==
    ASSUME StorageTyped, NEW start \in 0..(Size - 1), NEW count \in 0..(Size - start)
    PROVE  /\ Body(start, count) \in Seq(Pieces) /\ Len(Body(start, count)) = count
           /\ \A i \in 1..count : Body(start, count)[i] = <<server, start + i>>
<1>1. server \in Builds /\ Size \in Nat /\ start \in Nat /\ count \in Nat /\ start + count <= Size
  BY Numbers DEF StorageTyped
<1>2. \A i \in 1..count : <<server, start + i>> \in Pieces
  BY <1>1 DEF Pieces
<1> QED BY <1>1, <1>2 DEF Body

LEMMA StorageStep ==
    ASSUME Types, [Next]_vars
    PROVE  StorageTyped'
<1> USE DEF storage, world
<1>0. StorageTyped /\ Size \in Nat \ {0} /\ Len(part) \in Nat /\ part \in Seq(Pieces) /\ Len(part) <= Size
  BY Numbers DEF Types, StorageTyped
<1>9. <<>> \in Seq(Pieces) /\ Len(<<>>) = 0 /\ 0 <= Size
  BY <1>0, EmptySeq
<1>1. CASE FetchRange
  <2>1. PICK kept \in {part, <<>>}, start \in 0..(Size - 1) : \E count \in 0..(Size - start) :
                 /\ part' = kept \o Body(start, count)
                 /\ (kept = part /\ start = Len(part)) \/ kept = <<>>
    BY <1>1, FetchShape
  <2>2. PICK count \in 0..(Size - start) : /\ part' = kept \o Body(start, count)
                                           /\ (kept = part /\ start = Len(part)) \/ kept = <<>>
    BY <2>1
  <2>3. kept \in Seq(Pieces) /\ Len(kept) \in Nat /\ Len(kept) + count <= Size
    <3>1. CASE kept = part /\ start = Len(part)
      BY <1>0, <3>1
    <3>2. CASE kept = <<>>
      <4>1. Len(kept) = 0 /\ kept \in Seq(Pieces)
        BY <1>9, <3>2
      <4> QED BY <1>0, <4>1
    <3> QED BY <2>2, <3>1, <3>2
  <2>4. Body(start, count) \in Seq(Pieces) /\ Len(Body(start, count)) = count
    BY <1>0, BodyTypes
  <2> HIDE DEF Body
  <2> DEFINE body == Body(start, count)
  <2>6. part' = kept \o body /\ body \in Seq(Pieces) /\ Len(body) = count
    BY <2>2, <2>4
  <2> HIDE DEF body
  <2>5. part' \in Seq(Pieces) /\ Len(part') = Len(kept) + count
    BY <2>3, <2>6, ConcatProperties
  <2> QED BY <1>0, <1>1, <2>3, <2>5, FetchShape DEF StorageTyped
<1>2. CASE RefusedRange \/ Rejected \/ Install
  <2>1. part' \in {part, <<>>} /\ UNCHANGED <<archive, world>>
    BY <1>2 DEF RefusedRange, Rejected, Install
  <2>2. part' \in Seq(Pieces) /\ Len(part') <= Size
    BY <1>0, <1>9, <2>1
  <2> QED BY <1>0, <2>1, <2>2 DEF StorageTyped
<1>3. CASE Save \/ Verify \/ Launch
  <2>1. part' \in {part, <<>>} /\ archive' \in {archive, part, None} /\ UNCHANGED world
    BY <1>3 DEF Save, Verify, Launch
  <2>2. part' \in Seq(Pieces) /\ Len(part') <= Size
    BY <1>0, <1>9, <2>1
  <2>3. archive' \in Seq(Pieces) \cup {None}
    BY <1>0, <2>1 DEF StorageTyped
  <2> QED BY <1>0, <2>1, <2>2, <2>3 DEF StorageTyped
<1>4. CASE ReplaceOnServer
  BY <1>0, <1>4 DEF StorageTyped, ReplaceOnServer
<1>5. CASE UNCHANGED <<part, archive, world>>
  BY <1>0, <1>5 DEF StorageTyped
<1>6. Asking \/ Applying \/ Quit \/ Dies \/ UNCHANGED vars => UNCHANGED <<part, archive, world>>
  <2>1. Asking => UNCHANGED <<part, archive, world>>
    BY DEF Asking, Check, Answered, CheckFails
  <2>2. Quit \/ Dies \/ UNCHANGED vars => UNCHANGED <<part, archive, world>>
    BY DEF Quit, Dies, vars
  <2>3. Applying => UNCHANGED <<part, archive, world>>
    BY DEF Applying, Unpack, UnpackFails, DiesWriting, RenameAside, MoveIn, SwapFails, ClearForUndo,
           UndoAside, UndoFails, Undone
  <2> QED BY <2>1, <2>2, <2>3
<1>7. ASSUME NEW entry \in app.sweeps, Sweep(entry[1], entry[2]) \/ SweepFails(entry[1], entry[2])
      PROVE  UNCHANGED <<part, archive, world>>
  BY <1>7 DEF Sweep, SweepFails
<1> QED BY <1>1, <1>2, <1>3, <1>4, <1>5, <1>6, <1>7 DEF Next, Startup, Staging

LEMMA TypesStep ==
    ASSUME Types, NewFiles, [Next]_vars
    PROVE  Types'
<1>0. disk \in [Files -> Entries] /\ app \in AppStates /\ mishaps \in 0..MaxMishaps
  BY DEF Types
<1>1. CASE Asking \/ Staging
  BY <1>0, <1>1, StorageStep, AskingShape, StagingShape DEF Types
<1>2. CASE Unpack \/ UnpackFails \/ DiesWriting
  BY <1>0, <1>2, StorageStep, UnpackShape, TornShape, OffTypes DEF Types
<1>3. CASE RenameAside \/ MoveIn
  BY <1>0, <1>3, StorageStep, RenameShape, MoveShape DEF Types
<1>4. CASE SwapFails \/ Undone
  BY <1>0, <1>4, StorageStep, SwapFailsShape, UndoneShape DEF Types
<1>5. CASE ClearForUndo \/ UndoAside \/ UndoFails
  BY <1>0, <1>5, StorageStep, UndoShape DEF Types
<1>6. CASE Quit \/ Dies \/ ReplaceOnServer \/ UNCHANGED vars
  BY <1>0, <1>6, StorageStep, OffTypes, Mishaps DEF Types, Quit, Dies, ReplaceOnServer, vars
<1>7. CASE Launch
  BY <1>0, <1>7, StorageStep, LaunchShape DEF Types
<1>8. CASE \E entry \in app.sweeps : Sweep(entry[1], entry[2]) \/ SweepFails(entry[1], entry[2])
  BY <1>0, <1>8, StorageStep, SweepShape DEF Types
<1> QED BY <1>1, <1>2, <1>3, <1>4, <1>5, <1>6, <1>7, <1>8 DEF Next, Startup, Applying

-----------------------------------------------------------------------------
(* The swap: no file is without a copy.                                    *)

LEMMA SwappingInit == Init => Swapping
<1> SUFFICES ASSUME Init PROVE Swapping
  OBVIOUS
<1>1. app.at = "off" /\ app.sweeps = {} /\ app.aside = {} /\ \A f \in Files : disk[f].live = "old"
  BY DEF Init, Off
<1> QED BY <1>1, Constants DEF Swapping, NewFiles, Asides, Stays, LastCopyIsKept

\* The stages in which nothing is aside and nothing is being unpacked.
Calm == {"off", "idle", "checking", "current", "available", "download", "verify", "failed"}

LEMMA NothingBefore == \A n : n = 1 => \A i \in 1..(n - 1) : FALSE
OBVIOUS

LEMMA CalmKeepsSwapping ==
    ASSUME Types, Swapping, Asking \/ Staging
    PROVE  Swapping'
<1> USE DEF Swapping, NewFiles, Asides, Stays, LastCopyIsKept
<1>1. app.aside = {} /\ app.at \in Calm \ {"off"} /\ app.sweeps = {} /\ app.version # None
  <2>1. Asking => app.at \in Calm \ {"off"} /\ app.sweeps = {}
    BY AskingShape DEF Calm
  <2>2. Staging => app.at \in Calm \ {"off"} /\ app.sweeps = {}
    BY StagingShape DEF Calm
  <2>3. app.at \in Calm => app.aside = {}
    BY DEF Calm
  <2> QED BY <2>1, <2>2, <2>3 DEF Calm
<1>2. /\ disk' = disk /\ app'.version = app.version /\ app'.sweeps = app.sweeps /\ app'.aside = {}
      /\ app'.at \in Calm \/ (app'.at = "unpack" /\ app'.next = 1)
  <2>1. CASE Asking
    BY <1>1, <2>1, AskingShape DEF Calm
  <2>2. CASE Staging
    BY <1>1, <2>2, StagingShape DEF Calm
  <2> QED BY <2>1, <2>2
<1>3. app'.next = 1 => \A i \in 1..(app'.next - 1) : FALSE
  BY NothingBefore
<1> QED BY <1>1, <1>2, <1>3 DEF Calm

LEMMA EndKeepsSwapping ==
    ASSUME Types, Swapping, Quit \/ Dies \/ ReplaceOnServer \/ Launch \/ UNCHANGED vars
    PROVE  Swapping'
<1> USE DEF Swapping, NewFiles, Asides, Stays, LastCopyIsKept
<1>1. CASE Quit \/ Dies
  <2>1. app' = Off /\ disk' = disk
    BY <1>1 DEF Quit, Dies
  <2>2. app'.at = "off" /\ app'.sweeps = {} /\ app'.aside = {}
    BY <2>1 DEF Off
  <2> QED BY <2>1, <2>2
<1>2. CASE ReplaceOnServer \/ UNCHANGED vars
  BY <1>2 DEF ReplaceOnServer, File, storage, vars
<1>3. CASE Launch
  BY <1>3, LaunchShape
<1> QED BY <1>1, <1>2, <1>3

LEMMA UnpackKeepsSwapping ==
    ASSUME Types, Swapping, Unpack \/ UnpackFails \/ DiesWriting
    PROVE  Swapping'
<1> USE DEF Swapping
<1>1. app.at = "unpack"
  BY UnpackShape, TornShape
<1>2. app.aside = {} /\ app.sweeps = {} /\ app.version # None
  BY <1>1 DEF Asides, Stays
<1>3. CASE Unpack
  <2>1. \A g \in Files : disk'[g].live = disk[g].live /\ disk'[g].old = disk[g].old
    BY <1>3, UnpackShape
  <2>2. LastCopyIsKept' /\ Stays' /\ Asides'
    BY <1>2, <1>3, <2>1, UnpackShape DEF LastCopyIsKept, Stays, Asides
  <2>3. ASSUME NEW i \in 1..app.next PROVE disk'[Plan[i]].new = "new"
    <3>1. app.next \in Nat /\ app.next \in 1..Len(Plan) /\ Len(Plan) \in Nat /\ File = Plan[app.next]
      BY NextFile DEF Types
    <3>2. i \in 1..Len(Plan) /\ (i \in 1..(app.next - 1) \/ i = app.next)
      BY <3>1
    <3>3. CASE i = app.next
      BY <1>3, <3>1, <3>3, UnpackShape
    <3>4. CASE i \in 1..(app.next - 1)
      <4>1. Plan[i] # File /\ Plan[i] \in Files
        <5>1. i # app.next
          BY <3>1, <3>4
        <5> QED BY <3>1, <3>2, <5>1, PlanFacts
      <4> QED BY <1>1, <1>3, <3>4, <4>1, UnpackShape DEF NewFiles
    <3> QED BY <3>2, <3>3, <3>4
  <2>4. CASE LastFile
    <3>1. app'.at = "swap" /\ app'.next = 1 /\ app.next = Len(Plan)
      BY <1>3, <2>4, UnpackShape DEF LastFile
    <3> QED BY <2>2, <2>3, <3>1 DEF NewFiles
  <2>5. CASE ~LastFile
    <3>1. app'.at = "unpack" /\ app'.next = app.next + 1 /\ app.next \in Nat
      BY <1>3, <2>5, UnpackShape, NextFile DEF Types
    <3>2. 1..(app'.next - 1) = 1..app.next
      BY <3>1
    <3> QED BY <2>2, <2>3, <3>1, <3>2 DEF NewFiles
  <2> QED BY <2>4, <2>5
<1>4. CASE UnpackFails \/ DiesWriting
  <2>1. /\ \A g \in Files : disk'[g].live = disk[g].live /\ disk'[g].old = disk[g].old
        /\ app'.at \in {"off", "failed"} /\ app'.aside = {} /\ app'.sweeps = {}
        /\ app'.at # "off" => app'.version = app.version
    BY <1>2, <1>4, TornShape DEF Off
  <2> QED BY <1>2, <2>1 DEF NewFiles, Asides, Stays, LastCopyIsKept
<1> QED BY <1>3, <1>4

LEMMA RenameKeepsSwapping ==
    ASSUME Types, Swapping, RenameAside
    PROVE  Swapping'
<1> USE DEF Swapping
<1>1. /\ app.next \in Nat /\ app.next \in 1..Len(Plan) /\ Len(Plan) \in Nat /\ File = Plan[app.next]
      /\ File \in Files
  BY NextFile DEF Types
<1>2. app.sweeps = {} /\ app.version # None
  BY RenameShape DEF Stays
<1>3. LastCopyIsKept'
  <2> SUFFICES ASSUME NEW f \in Files PROVE disk'[f].live # None \/ disk'[f].old # None
    BY DEF LastCopyIsKept
  <2> QED BY RenameShape DEF LastCopyIsKept
<1>4. Stays'
  BY <1>2, RenameShape DEF Stays
<1>5. NewFiles'
  <2> SUFFICES ASSUME NEW i \in app.next..Len(Plan) PROVE disk'[Plan[i]].new = "new"
    BY RenameShape DEF NewFiles
  <2>1. i \in 1..Len(Plan)
    BY <1>1
  <2>2. disk[Plan[i]].new = "new" /\ Plan[i] \in Files
    BY <2>1, RenameShape, PlanFacts DEF NewFiles
  <2> QED BY <2>2, RenameShape
<1>6. Asides'
  <2>1. \A f \in app.aside : \E i \in 1..app.next : f = Plan[i]
    <3>1. \A i \in 1..(app.next - 1) : i \in 1..app.next
      BY <1>1
    <3> QED BY <3>1, RenameShape DEF Asides
  <2>2. app.next \in 1..app.next
    BY <1>1
  <2>3. \A f \in app'.aside : \E i \in 1..app'.next : f = Plan[i]
    <3>1. app'.aside = app.aside \cup {File} /\ app'.next = app.next
      BY RenameShape
    <3> QED BY <1>1, <2>1, <2>2, <3>1
  <2>4. \A f \in app'.aside : disk'[f].old # None
    <3>1. app.aside \subseteq Files
      BY AppFields, PlanFacts DEF Types
    <3>2. \A f \in app.aside : disk[f].old # None
      BY DEF Asides
    <3>3. /\ app'.aside = app.aside \cup {File} /\ disk'[File].old # None
          /\ \A g \in Files : g # File => disk'[g] = disk[g]
      BY RenameShape
    <3> QED BY <1>1, <3>1, <3>2, <3>3
  <2>5. File' = File
    BY RenameShape DEF File
  <2> QED BY <2>3, <2>4, <2>5, RenameShape DEF Asides
<1> QED BY <1>3, <1>4, <1>5, <1>6

LEMMA MoveKeepsSwapping ==
    ASSUME Types, Swapping, MoveIn
    PROVE  Swapping'
<1> USE DEF Swapping
<1>1. /\ app.next \in Nat /\ app.next \in 1..Len(Plan) /\ Len(Plan) \in Nat /\ File = Plan[app.next]
      /\ File \in Files
  BY NextFile DEF Types
<1>2. app.sweeps = {} /\ app.version # None /\ app.at \in {"swap", "move in"}
  BY MoveShape DEF Stays
<1>3. LastCopyIsKept' /\ Stays'
  BY <1>2, MoveShape, Constants DEF LastCopyIsKept, Stays
<1>4. \A f \in app'.aside : disk'[f].old # None
  <2>1. app.aside \subseteq Files
    BY AppFields, PlanFacts DEF Types
  <2>2. \A f \in app.aside : disk[f].old # None
    BY DEF Asides
  <2>3. /\ app'.aside = app.aside /\ disk'[File].old = disk[File].old
        /\ \A g \in Files : g # File => disk'[g] = disk[g]
    BY MoveShape
  <2> QED BY <1>1, <2>1, <2>2, <2>3
<1>5. CASE app'.at = "installed"
  BY <1>3, <1>4, <1>5 DEF NewFiles, Asides
<1>6. CASE ~LastFile /\ app'.at = "swap" /\ app'.next = app.next + 1
  <2>1. NewFiles'
    <3> SUFFICES ASSUME NEW i \in (app.next + 1)..Len(Plan) PROVE disk'[Plan[i]].new = "new"
      BY <1>6 DEF NewFiles
    <3>1. i \in app.next..Len(Plan) /\ i \in 1..Len(Plan) /\ i # app.next
      BY <1>1
    <3>2. Plan[i] # File /\ Plan[i] \in Files /\ disk[Plan[i]].new = "new"
      BY <1>1, <1>2, <3>1, PlanFacts DEF NewFiles
    <3> QED BY <3>2, MoveShape
  <2>2. \A f \in app.aside : \E i \in 1..app.next : f = Plan[i]
    <3>1. \A i \in 1..(app.next - 1) : i \in 1..app.next
      BY <1>1
    <3> QED BY <1>2, <3>1 DEF Asides
  <2>3. 1..(app'.next - 1) = 1..app.next
    BY <1>1, <1>6
  <2>4. \A f \in app'.aside : \E i \in 1..(app'.next - 1) : f = Plan[i]
    BY <2>2, <2>3, MoveShape
  <2> QED BY <1>3, <1>4, <1>6, <2>1, <2>4 DEF Asides
<1> QED BY <1>5, <1>6, MoveShape

LEMMA UndoKeepsSwapping ==
    ASSUME Types, Swapping, SwapFails \/ ClearForUndo \/ UndoAside \/ UndoFails \/ Undone
    PROVE  Swapping'
<1> USE DEF Swapping
<1>1. app.aside \subseteq Locked /\ Locked \subseteq Files
  BY AppFields, PlanFacts DEF Types
<1>2. CASE SwapFails
  BY <1>2, SwapFailsShape DEF NewFiles, Asides, Stays, LastCopyIsKept
<1>3. CASE Undone
  BY <1>3, UndoneShape DEF NewFiles, Asides, Stays, LastCopyIsKept
<1>4. CASE ClearForUndo \/ UndoAside \/ UndoFails
  <2>1. /\ app.at = "undo" /\ app'.at = "undo" /\ app'.version = app.version
        /\ app'.sweeps = app.sweeps
    BY <1>4, UndoShape
  <2>2. PICK f \in app.aside :
                 /\ f \in Locked /\ f \in Files /\ \A g \in Files : g # f => disk'[g] = disk[g]
                 /\ \/ /\ disk'[f].live = None /\ disk'[f].old = disk[f].old /\ app' = app
                    \/ /\ disk'[f].live = disk[f].old
                       /\ app'.aside = app.aside \ {f} /\ app'.fault = app.fault
                    \/ /\ disk' = disk /\ app'.aside = app.aside \ {f}
                       /\ app'.fault = "program lost"
    BY <1>4, UndoShape
  <2>3. disk[f].old # None
    BY DEF Asides
  <2>4. ASSUME NEW g \in Files PROVE disk'[g].live # None \/ disk'[g].old # None
    BY <2>2, <2>3 DEF LastCopyIsKept
  <2>5. ASSUME NEW g \in app'.aside PROVE disk'[g].old # None
    BY <1>1, <2>2, <2>5 DEF Asides
  <2>6. ASSUME NEW g \in Files \ Locked PROVE disk'[g].live # None
    BY <2>2, <2>6 DEF Stays
  <2> QED BY <2>1, <2>4, <2>5, <2>6 DEF NewFiles, Asides, Stays, LastCopyIsKept
<1> QED BY <1>2, <1>3, <1>4

LEMMA SweepKeepsSwapping ==
    ASSUME Types, Swapping, NEW entry \in app.sweeps,
           Sweep(entry[1], entry[2]) \/ SweepFails(entry[1], entry[2])
    PROVE  Swapping'
<1> USE DEF Swapping
<1>1. app.at = "idle" /\ app.aside = {}
  BY DEF Stays, Asides
<1>2. /\ entry[1] \in Files /\ entry[2] \in {"old", "new"}
      /\ entry[2] = "old" => entry[1] \in Locked
  BY AppFields, PlanFacts DEF Types, Leftovers
<1>3. ASSUME NEW g \in Files
      PROVE  /\ disk'[g].live # None \/ disk'[g].old # None
             /\ disk[g].live # None => disk'[g].live # None
  <2>1. CASE disk'[g] = disk[g]
    BY <2>1 DEF LastCopyIsKept
  <2>2. CASE disk'[g] # disk[g]
    <3>1. g = entry[1] /\ disk'[g] = Swept(disk[g], entry[2])
      BY <2>2, SweepShape
    <3>2. disk[g].live # None \/ disk[g].old # None
      BY DEF LastCopyIsKept
    <3> DEFINE e == disk[g]
               kind == entry[2]
               s == Swept(e, kind)
    <3>3. e \in Entries /\ kind \in {"old", "new"}
      <4>1. e \in Entries
        BY DEF Types
      <4>2. kind \in {"old", "new"}
        BY <1>2
      <4> QED BY <4>1, <4>2
    <3>5. (e.live # None \/ e.old # None) /\ disk'[g] = s /\ disk'[g] # e
      BY <2>2, <3>1, <3>2
    <3>4. (disk'[g].live # None \/ disk'[g].old # None) /\ (e.live # None => disk'[g].live # None)
      <4> HIDE DEF e, kind
      <4> QED BY <3>3, <3>5, SweptEntry
    <3> QED BY <3>4
  <2> QED BY <2>1, <2>2
<1>4. app'.at = "idle" /\ app'.aside = {} /\ app'.version = app.version
  BY <1>1, SweepShape
<1> QED BY <1>1, <1>3, <1>4 DEF NewFiles, Asides, Stays, LastCopyIsKept

LEMMA SwappingStep ==
    ASSUME Types, Swapping, [Next]_vars
    PROVE  Swapping'
BY CalmKeepsSwapping, EndKeepsSwapping, UnpackKeepsSwapping, RenameKeepsSwapping, MoveKeepsSwapping,
   UndoKeepsSwapping, SweepKeepsSwapping DEF Next, Startup, Applying

-----------------------------------------------------------------------------
(* A failed installation that says so has put the program back.            *)

LEMMA QuietKeepsRestoring ==
    ASSUME Types, Swapping, Restoring, Asking \/ Staging \/ SwapFails
    PROVE  Restoring'
<1> USE DEF Restoring, RestoredMeansRestored, InPlace, Aside, Whole
<1>1. CASE Asking
  <2>1. app'.at \in {"checking", "available", "current", "failed"} /\ app'.fault # "program restored"
    BY <1>1, AskingShape, Constants
  <2> QED BY <2>1
<1>2. CASE Staging
  <2>1. disk' = disk /\ app'.version = app.version /\ app'.fault # "program restored"
        /\ app'.at \in {"download", "verify", "unpack", "failed"}
    BY <1>2, StagingShape
  <2>2. app'.at # "failed" => \/ app'.whole = Whole
                              \/ app.at \in {"download", "verify"} /\ app'.whole = app.whole
    BY <1>2, StagingShape
  <2> QED BY <2>1, <2>2
<1>3. CASE SwapFails
  BY <1>3, SwapFailsShape
<1> QED BY <1>1, <1>2, <1>3

LEMMA EndKeepsRestoring ==
    ASSUME Types, Swapping, Restoring,
           Quit \/ Dies \/ ReplaceOnServer \/ Launch \/ UNCHANGED vars
           \/ UnpackFails \/ DiesWriting
    PROVE  Restoring'
<1> USE DEF Restoring, RestoredMeansRestored, InPlace, Aside, Whole
<1>1. CASE Quit \/ Dies \/ DiesWriting
  <2>1. app' = Off
    BY <1>1 DEF Quit, Dies, DiesWriting
  <2>2. app'.at = "off" /\ app'.fault = None
    BY <2>1 DEF Off
  <2> QED BY <2>2, Constants
<1>2. CASE ReplaceOnServer \/ UNCHANGED vars
  BY <1>2 DEF ReplaceOnServer, vars
<1>3. CASE Launch
  BY <1>3, LaunchShape, Constants
<1>4. CASE UnpackFails /\ app' # Off
  BY <1>4, TornShape
<1>5. CASE app' = Off
  <2>2. app'.at = "off" /\ app'.fault = None
    BY <1>5 DEF Off
  <2> QED BY <2>2, Constants
<1> QED BY <1>1, <1>2, <1>3, <1>4, <1>5

LEMMA SweepKeepsRestoring ==
    ASSUME Types, Swapping, Restoring, NEW entry \in app.sweeps,
           Sweep(entry[1], entry[2]) \/ SweepFails(entry[1], entry[2])
    PROVE  Restoring'
<1>1. app.at = "idle"
  BY DEF Swapping, Stays
<1>2. app'.at = "idle" /\ (app'.fault = app.fault \/ app'.fault = "unswept")
  BY <1>1, SweepShape
<1> QED BY <1>1, <1>2 DEF Restoring, RestoredMeansRestored

LEMMA SwapKeepsRestoring ==
    ASSUME Types, Swapping, Restoring, Unpack \/ RenameAside \/ MoveIn
    PROVE  Restoring'
<1> USE DEF InPlace, Aside
<1>1. /\ app.next \in Nat /\ app.next \in 1..Len(Plan) /\ Len(Plan) \in Nat /\ File = Plan[app.next]
      /\ File \in Files /\ Locked \subseteq Files
  BY NextFile, PlanFacts DEF Types
<1>2. app.at \in {"unpack", "swap", "move in"} /\ app.fault # "program restored"
      /\ app'.fault = app.fault /\ app'.version = app.version /\ app'.whole = app.whole
      /\ app'.at \in {"unpack", "swap", "move in", "installed"}
  BY UnpackShape, RenameShape, MoveShape DEF Restoring, Swapping
<1>3. app.at = "swap" => File \notin app.aside
  <2> SUFFICES ASSUME app.at = "swap", File \in app.aside PROVE FALSE
    OBVIOUS
  <2>1. PICK i \in 1..(app.next - 1) : File = Plan[i]
    BY DEF Swapping, Asides
  <2>2. i \in 1..Len(Plan) /\ i # app.next
    BY <1>1, <2>1
  <2> QED BY <1>1, <2>1, <2>2, PlanFacts
<1>4. /\ app.whole /\ app.at \in {"download", "verify", "unpack"} => \A f \in Locked : disk[f].live = app.version
      /\ app.whole /\ app.at \in {"swap", "move in"}
           => \A f \in Locked : IF f \in app.aside THEN disk[f].old = app.version ELSE disk[f].live = app.version
  BY DEF Restoring, Whole
<1>5. SUFFICES /\ app'.whole /\ app'.at = "unpack" => \A f \in Locked : disk'[f].live = app'.version
               /\ app'.whole /\ app'.at \in {"swap", "move in"}
                    => \A f \in Locked : IF f \in app'.aside THEN disk'[f].old = app'.version
                                         ELSE disk'[f].live = app'.version
  BY <1>2 DEF Restoring, RestoredMeansRestored, Whole
<1>6. CASE Unpack
  <2>1. \A f \in Files : disk'[f].live = disk[f].live /\ disk'[f].old = disk[f].old
    BY <1>6, UnpackShape
  <2>2. app.at = "unpack" /\ app'.aside = app.aside /\ app.aside = {}
    BY <1>6, UnpackShape DEF Swapping, Asides
  <2> QED BY <1>1, <1>2, <1>4, <2>1, <2>2
<1>7. CASE RenameAside
  <2>1. /\ app.at = "swap" /\ app'.at = "move in" /\ app'.aside = app.aside \cup {File}
        /\ disk'[File].old = disk[File].live /\ File \in Locked
        /\ \A g \in Files : g # File => disk'[g] = disk[g]
    BY <1>7, RenameShape
  <2> QED BY <1>1, <1>2, <1>3, <1>4, <2>1
<1>8. CASE MoveIn
  <2>1. /\ app.at = "move in" \/ (app.at = "swap" /\ (File \in Locked => disk[File].live = None))
        /\ \A g \in Files : g # File => disk'[g] = disk[g]
        /\ app'.aside = app.aside /\ disk'[File].old = disk[File].old
        /\ app'.at \in {"swap", "installed"}
    BY <1>8, MoveShape DEF Swapping
  <2>2. app.version # None
    BY <1>2 DEF Swapping, Stays
  <2>3. ASSUME app.whole, File \in Locked PROVE File \in app.aside
    <3>1. CASE app.at = "move in"
      BY <2>3, <3>1 DEF Swapping, Asides
    <3>2. CASE app.at = "swap"
      BY <1>3, <1>4, <2>1, <2>2, <2>3, <3>2
    <3> QED BY <2>1, <3>1, <3>2
  <2> QED BY <1>1, <1>2, <1>4, <2>1, <2>3
<1> QED BY <1>6, <1>7, <1>8

LEMMA UndoKeepsRestoring ==
    ASSUME Types, Swapping, Restoring, ClearForUndo \/ UndoAside \/ UndoFails \/ Undone
    PROVE  Restoring'
<1> USE DEF InPlace, Aside
<1>1. app.at = "undo" /\ app.fault # "program restored" /\ Locked \subseteq Files
      /\ app'.version = app.version /\ app'.whole = app.whole
  BY UndoShape, UndoneShape, PlanFacts DEF Restoring
<1>2. app.whole /\ app.fault = None
           => \A f \in Locked : IF f \in app.aside THEN disk[f].old = app.version ELSE disk[f].live = app.version
  BY <1>1 DEF Restoring
<1>3. CASE Undone
  <2>1. /\ \A g \in Files : disk'[g].live = disk[g].live
        /\ app.aside = {} /\ app'.at = "failed" /\ app'.aside = {}
        /\ app'.fault = IF app.fault = None THEN "program restored" ELSE app.fault
    BY <1>3, UndoneShape
  <2>2. app'.whole /\ app'.fault = "program restored" => \A f \in Locked : disk'[f].live = app'.version
    BY <1>1, <1>2, <2>1
  <2> QED BY <2>1, <2>2 DEF Restoring, RestoredMeansRestored, Whole
<1>4. CASE ClearForUndo \/ UndoAside \/ UndoFails
  <2>0. app'.at = "undo"
    BY <1>4, UndoShape
  <2>1. PICK f \in app.aside :
                 /\ f \in Locked /\ f \in Files /\ \A g \in Files : g # f => disk'[g] = disk[g]
                 /\ \/ /\ disk'[f].live = None /\ disk'[f].old = disk[f].old /\ app' = app
                    \/ /\ disk'[f].live = disk[f].old
                       /\ app'.aside = app.aside \ {f} /\ app'.fault = app.fault
                    \/ /\ disk' = disk /\ app'.aside = app.aside \ {f}
                       /\ app'.fault = "program lost"
    BY <1>4, UndoShape
  <2>2. app'.fault # "program restored"
    BY <1>1, <2>1
  <2>3. ASSUME app'.whole, app'.fault = None, NEW g \in Locked
        PROVE  IF g \in app'.aside THEN disk'[g].old = app'.version ELSE disk'[g].live = app'.version
    <3>1. app.whole /\ app.fault = None
      BY <1>1, <2>1, <2>3, Constants
    <3> QED BY <1>1, <1>2, <2>1, <2>3, <3>1, Constants
  <2> QED BY <2>0, <2>2, <2>3 DEF Restoring, RestoredMeansRestored
<1> QED BY <1>3, <1>4

LEMMA RestoringStep ==
    ASSUME Types, Swapping, Restoring, [Next]_vars
    PROVE  Restoring'
BY QuietKeepsRestoring, EndKeepsRestoring, SweepKeepsRestoring, SwapKeepsRestoring, UndoKeepsRestoring
   DEF Next, Startup, Applying

-----------------------------------------------------------------------------
(* Resuming: unless the server replaces its package or answers with another *)
(* range than asked, what was received is the package's beginning.          *)

LEMMA ReceivedFacts ==
    ASSUME NEW n \in Nat
    PROVE  Len(Received(n)) = n /\ \A i \in 1..n : Received(n)[i] = <<server, i>>
BY DEF Received

\* A sequence put together from two, element by element.
LEMMA Continued ==
    ASSUME NEW S, NEW a \in Seq(S), NEW b \in Seq(S), NEW c, c = a \o b
    PROVE  /\ c \in Seq(S) /\ Len(c) = Len(a) + Len(b)
           /\ \A i \in 1..(Len(a) + Len(b)) : c[i] = IF i <= Len(a) THEN a[i] ELSE b[i - Len(a)]
BY ConcatProperties

\* What FetchRange keeps is a beginning, and its body continues it.
LEMMA FetchContinues ==
    ASSUME Types, FetchRange, ~Misaligned, part = Received(Len(part))
    PROVE  part' = Received(Len(part'))
<1>1. /\ Size \in Nat \ {0} /\ part \in Seq(Pieces) /\ Len(part) \in Nat
      /\ StorageTyped
  BY Numbers DEF Types, StorageTyped
<1>2. <<>> \in Seq(Pieces) /\ Len(<<>>) = 0 /\ <<>> = Received(0)
  BY EmptySeq DEF Received
<1>3. PICK kept \in {part, <<>>}, start \in 0..(Size - 1) : \E count \in 0..(Size - start) :
               /\ part' = kept \o Body(start, count)
               /\ (kept = part /\ start = Len(part)) \/ kept = <<>>
               /\ ~Misaligned => start = Len(kept)
  BY FetchShape
<1>4. PICK count \in 0..(Size - start) : /\ part' = kept \o Body(start, count)
                                         /\ ~Misaligned => start = Len(kept)
  BY <1>3
<1>5. kept \in Seq(Pieces) /\ kept = Received(start) /\ Len(kept) = start /\ start \in Nat /\ count \in Nat
  <2>1. kept = part \/ kept = <<>>
    OBVIOUS
  <2>2. kept \in Seq(Pieces) /\ kept = Received(Len(kept)) /\ Len(kept) = start
    BY <1>1, <1>2, <1>4, <2>1
  <2>3. start \in Nat /\ count \in Nat
    BY <1>1
  <2> QED BY <2>2, <2>3
<1>6. /\ Body(start, count) \in Seq(Pieces) /\ Len(Body(start, count)) = count
      /\ \A i \in 1..count : Body(start, count)[i] = <<server, start + i>>
  BY <1>1, BodyTypes
<1> HIDE DEF Body, Received
<1> DEFINE body == Body(start, count)
<1>7. /\ part' = kept \o body /\ body \in Seq(Pieces) /\ Len(body) = count
      /\ \A i \in 1..count : body[i] = <<server, start + i>>
  BY <1>4, <1>6
<1> HIDE DEF body
<1>8. /\ part' \in Seq(Pieces) /\ Len(part') = start + count
      /\ \A i \in 1..(start + count) : part'[i] = IF i <= start THEN kept[i] ELSE body[i - start]
  <2>1. /\ part' \in Seq(Pieces) /\ Len(part') = Len(kept) + Len(body)
        /\ \A i \in 1..(Len(kept) + Len(body)) :
              part'[i] = IF i <= Len(kept) THEN kept[i] ELSE body[i - Len(kept)]
    <3>1. kept \in Seq(Pieces) /\ body \in Seq(Pieces) /\ part' = kept \o body
      BY <1>5, <1>7
    <3> QED BY <3>1, Continued
  <2>2. Len(kept) = start /\ Len(body) = count
    BY <1>5, <1>7
  <2> QED BY <2>1, <2>2
<1>9. ASSUME NEW i \in 1..(start + count) PROVE part'[i] = <<server, i>>
  <2>1. CASE i <= start
    <3>1. i \in 1..start
      BY <1>5, <2>1
    <3> QED BY <1>5, <1>8, <2>1, <3>1, ReceivedFacts
  <2>2. CASE ~(i <= start)
    <3>1. i - start \in 1..count /\ start + (i - start) = i
      BY <1>5, <2>2
    <3> QED BY <1>7, <1>8, <2>2, <3>1
  <2> QED BY <2>1, <2>2
<1>10. server' = server
  BY FetchShape DEF world
<1>11. part' = [i \in 1..(start + count) |-> <<server, i>>]
  <2>1. part' = [i \in 1..Len(part') |-> part'[i]]
    BY <1>8
  <2> QED BY <1>8, <1>9, <2>1
<1> QED BY <1>8, <1>10, <1>11 DEF Received

\* Where fault and stage come from when nothing is downloaded.
LEMMA CalmKeepsResuming ==
    ASSUME Types, Resuming, UNCHANGED <<part, archive, world>>,
           app'.fault = "mismatch" => app.fault = "mismatch",
           app'.at = "verify" => app.at = "verify"
    PROVE  Resuming'
BY DEF Resuming, ResumeIsExact, Received, world

LEMMA StagingKeepsResuming ==
    ASSUME Types, ~Misaligned, Resuming, Staging
    PROVE  Resuming'
<1>1. /\ Size \in Nat \ {0} /\ part \in Seq(Pieces) /\ Len(part) \in Nat /\ Len(part) <= Size
      /\ server \in Builds
      /\ app.at = "verify" /\ ~replaced => Intact(archive)
  <2>1. /\ Size \in Nat \ {0} /\ part \in Seq(Pieces) /\ Len(part) \in Nat /\ Len(part) <= Size
        /\ server \in Builds
    BY Numbers DEF Types, StorageTyped
  <2>2. app.at = "verify" /\ ~replaced => Intact(archive)
    BY <2>1 DEF Resuming, Received, Intact
  <2> QED BY <2>1, <2>2
<1>2. /\ app'.fault = "mismatch" => app.fault = "mismatch" \/ (app.at = "verify" /\ ~Intact(archive))
      /\ app'.at = "verify" => app.at = "download"
      /\ UNCHANGED world
  BY StagingShape
<1>3. /\ app'.fault = "mismatch" => replaced'
      /\ replaced' = replaced /\ server' = server
  BY <1>1, <1>2 DEF Resuming, ResumeIsExact, world
<1> SUFFICES ASSUME ~replaced
             PROVE  /\ part' = Received(Len(part'))
                    /\ app'.at = "verify" => archive' = Received(Size)
  BY <1>3 DEF Resuming, ResumeIsExact, Received
<1>4. part = Received(Len(part)) /\ Received(0) = <<>> /\ Len(<<>>) = 0
  BY DEF Resuming, Received
<1> HIDE DEF Received
<1>5. CASE FetchRange
  <2>1. app'.at # "verify"
    BY <1>5, AttemptShape DEF FetchRange
  <2> QED BY <1>4, <1>5, <2>1, FetchContinues
<1>6. CASE RefusedRange
  <2>1. app'.at # "verify" /\ part' = <<>>
    BY <1>6, AttemptShape DEF RefusedRange
  <2> QED BY <1>4, <2>1
<1>7. CASE Save
  <2>1. archive' = part /\ part' = <<>> /\ Len(part) = Size
    BY <1>1, <1>7 DEF Save
  <2> QED BY <1>4, <2>1
<1>8. CASE Install \/ Rejected \/ Verify
  <2>1. app.at # "download" \/ app'.at = "failed"
    BY <1>8, AppFails DEF Install, Rejected, Verify, Types, Faults
  <2>2. app'.at # "verify" /\ part' = part
    BY <1>2, <1>8, <2>1 DEF Install, Rejected, Verify, storage
  <2> QED BY <1>4, <2>2
<1> QED BY <1>5, <1>6, <1>7, <1>8 DEF Staging

LEMMA ResumingStep ==
    ASSUME Types, NewFiles, ~Misaligned, Resuming, [Next]_vars
    PROVE  Resuming'
<1> USE DEF storage, world
<1>1. CASE Staging
  BY <1>1, StagingKeepsResuming
<1>2. CASE ReplaceOnServer
  BY <1>2 DEF ReplaceOnServer, Resuming, ResumeIsExact
<1>3. CASE Launch
  <2>1. app'.at = "idle" /\ app'.fault = None /\ UNCHANGED <<part, server, replaced>>
    BY <1>3, LaunchShape
  <2> QED BY <2>1, Constants DEF Resuming, ResumeIsExact, Received
<1>4. SUFFICES ASSUME \/ Asking \/ Applying \/ Quit \/ Dies \/ UNCHANGED vars
                      \/ \E entry \in app.sweeps : \/ Sweep(entry[1], entry[2])
                                                   \/ SweepFails(entry[1], entry[2])
               PROVE  /\ UNCHANGED <<part, archive, world>>
                      /\ app'.fault = "mismatch" => app.fault = "mismatch"
                      /\ app'.at = "verify" => app.at = "verify"
  BY <1>1, <1>2, <1>3, CalmKeepsResuming DEF Next, Startup
<1>11. Off.fault # "mismatch" /\ Off.at # "verify"
  BY Constants DEF Off
<1>5. CASE Asking
  BY <1>5, AskingShape, Constants
<1>6. CASE Unpack \/ RenameAside \/ MoveIn
  BY <1>6, UnpackShape, RenameShape, MoveShape
<1>7. CASE UnpackFails \/ DiesWriting
  BY <1>7, <1>11, TornShape
<1>8. CASE SwapFails \/ ClearForUndo \/ UndoAside \/ UndoFails \/ Undone
  BY <1>8, SwapFailsShape, UndoShape, UndoneShape
<1>9. CASE Quit \/ Dies \/ UNCHANGED vars
  <2>1. UNCHANGED <<part, archive, world>> /\ (app' = Off \/ app' = app)
    BY <1>9 DEF Quit, Dies, vars
  <2> QED BY <2>1, <1>11
<1>10. CASE \E entry \in app.sweeps : Sweep(entry[1], entry[2]) \/ SweepFails(entry[1], entry[2])
  BY <1>10, SweepShape
<1> QED BY <1>4, <1>5, <1>6, <1>7, <1>8, <1>9, <1>10 DEF Applying

-----------------------------------------------------------------------------
(* The sweep puts back whatever is missing.                                *)

\* Only the launch leads to the stage in which leftovers are swept.
LEMMA SweepingStage ==
    ASSUME Types, NewFiles, [Next]_vars
    PROVE  \/ app'.at # "idle" /\ (app.at = "idle" => app.sweeps = {} \/ app'.at = "off")
           \/ Launch
           \/ UNCHANGED <<app, disk>>
           \/ app'.at = app.at /\ \E entry \in app.sweeps : \/ Sweep(entry[1], entry[2])
                                                            \/ SweepFails(entry[1], entry[2])
<1>1. CASE Asking \/ Staging
  BY <1>1, AskingShape, StagingShape
<1>2. CASE Unpack \/ RenameAside \/ MoveIn
  BY <1>2, UnpackShape, RenameShape, MoveShape
<1>3. CASE UnpackFails \/ DiesWriting
  BY <1>3, TornShape DEF Off
<1>4. CASE SwapFails \/ ClearForUndo \/ UndoAside \/ UndoFails \/ Undone
  BY <1>4, SwapFailsShape, UndoShape, UndoneShape
<1>5. CASE Quit \/ Dies \/ ReplaceOnServer \/ UNCHANGED vars
  BY <1>5 DEF Quit, Dies, ReplaceOnServer, vars, Off
<1>6. CASE \E entry \in app.sweeps : Sweep(entry[1], entry[2]) \/ SweepFails(entry[1], entry[2])
  BY <1>6, SweepShape
<1> QED BY <1>1, <1>2, <1>3, <1>4, <1>5, <1>6 DEF Next, Startup, Applying

LEMMA SweepingStep ==
    ASSUME Types, Swapping, Sweeping, [Next]_vars
    PROVE  Sweeping'
<1>1. CASE app'.at # "idle"
  BY <1>1 DEF Sweeping
<1>2. CASE UNCHANGED <<app, disk>>
  BY <1>2 DEF Sweeping
<1>3. CASE Launch
  <2>1. disk' = disk /\ app'.sweeps = Leftovers
    BY <1>3, LaunchShape
  <2>2. \A f \in Files : disk[f].live = None => f \in Locked
    BY DEF Swapping, Stays
  <2> QED BY <2>1, <2>2 DEF Sweeping, Leftovers
<1>4. CASE app'.at = app.at /\ \E entry \in app.sweeps : \/ Sweep(entry[1], entry[2])
                                                         \/ SweepFails(entry[1], entry[2])
  <2>1. PICK entry \in app.sweeps : Sweep(entry[1], entry[2]) \/ SweepFails(entry[1], entry[2])
    BY <1>4
  <2> SUFFICES ASSUME app'.at = "idle", app'.fault = None, NEW f \in Files, disk'[f].live = None
               PROVE  <<f, "old">> \in app'.sweeps
    BY DEF Sweeping
  <2>2. /\ entry[1] \in Files /\ entry[2] \in {"old", "new"} /\ entry = <<entry[1], entry[2]>>
        /\ app'.sweeps = app.sweeps \ {entry} /\ app.fault = None
        /\ disk'[entry[1]] = Swept(disk[entry[1]], entry[2])
        /\ \A g \in Files : g # entry[1] => disk'[g] = disk[g]
    <3>1. entry \in Leftovers
      BY <2>1, AppFields DEF Types
    <3>2. entry[2] \in {"old", "new"}
      BY <3>1 DEF Leftovers
    <3> QED BY <2>1, <3>2, SweepShape, Constants
  <2>3. disk[f].live = None /\ ~(f = entry[1] /\ entry[2] = "old")
    <3>1. CASE f # entry[1]
      BY <2>2, <3>1
    <3>2. CASE f = entry[1]
      <4> DEFINE e == disk[f]
                 kind == entry[2]
      <4>1. e \in Entries /\ kind \in {"old", "new"} /\ Swept(e, kind).live = None
            /\ (e.live # None \/ e.old # None)
        <5>1. e \in Entries
          BY DEF Types
        <5>2. e.live # None \/ e.old # None
          BY DEF Swapping, LastCopyIsKept
        <5> QED BY <2>2, <3>2, <5>1, <5>2
      <4>2. e.live = None /\ kind # "old"
        <5> HIDE DEF e, kind
        <5> QED BY <4>1, SweptEntry
      <4> QED BY <4>2
    <3> QED BY <3>1, <3>2
  <2>4. app.at = "idle"
    BY <1>4
  <2>5. <<f, "old">> \in app.sweeps
    BY <2>2, <2>3, <2>4 DEF Sweeping
  <2>6. <<f, "old">> # entry
    BY <2>2, <2>3
  <2> QED BY <2>2, <2>5, <2>6
<1> QED BY <1>1, <1>2, <1>3, <1>4, SweepingStage DEF Swapping

-----------------------------------------------------------------------------
(* The theorems.                                                           *)

Invariant == Types /\ Swapping /\ Restoring /\ Sweeping

LEMMA InvariantInit == Init => Invariant /\ Resuming
<1> SUFFICES ASSUME Init PROVE Invariant /\ Resuming
  OBVIOUS
<1>1. /\ disk = [f \in Files |-> [live |-> "old", old |-> None, new |-> None]]
      /\ part = <<>> /\ archive = None /\ server \in Builds /\ replaced = FALSE /\ mishaps = 0
      /\ app = Off
  BY DEF Init
<1>2. app.at = "off" /\ app.fault = None
  BY <1>1 DEF Off
<1>3. Types
  <2>1. disk \in [Files -> Entries]
    BY <1>1 DEF Entries
  <2>2. part \in Seq(Pieces) /\ Len(part) <= Size
    BY <1>1, EmptySeq, Numbers
  <2>3. mishaps \in 0..MaxMishaps
    BY <1>1, Numbers
  <2> QED BY <1>1, <2>1, <2>2, <2>3, OffTypes DEF Types, StorageTyped
<1>4. Restoring /\ Sweeping
  BY <1>2, Constants DEF Restoring, RestoredMeansRestored, Sweeping
<1>5. Resuming
  <2>1. part = Received(Len(part))
    BY <1>1, EmptySeq DEF Received
  <2> QED BY <1>2, <2>1, Constants DEF Resuming, ResumeIsExact
<1> QED BY <1>3, <1>4, <1>5, SwappingInit DEF Invariant

LEMMA InvariantStep == Invariant /\ [Next]_vars => Invariant'
BY TypesStep, SwappingStep, RestoringStep, SweepingStep DEF Invariant, Swapping

LEMMA InvariantHolds == Spec => []Invariant
<1>1. Init => Invariant
  BY InvariantInit
<1> QED BY <1>1, InvariantStep, PTL DEF Spec

\* Every variable of the updater has its type, and nothing but complete files
\* is ever installed, whatever fails and wherever the process dies.
THEOREM UpdateTypes == Spec => []TypeOK
<1>1. Invariant => TypeOK
  BY DEF Invariant, Types, StorageTyped, TypeOK
<1> QED BY <1>1, InvariantHolds, PTL

\* swap, undo_aside and clean_leftovers: after any number of installations,
\* failing calls and deaths, every file of the program is under its name or
\* aside.  The swap moves a file aside before its name is reused, the undo
\* clears a name only while the old file is aside, and the sweep moves a .old
\* back where its file is missing.
THEOREM NoFileIsLost == Spec => []LastCopyIsKept
<1>1. Invariant => LastCopyIsKept
  BY DEF Invariant, Swapping
<1> QED BY <1>1, InvariantHolds, PTL

\* What undo_aside reports: a failed installation that says the program was
\* restored has put every locked file back to the version that runs, if the
\* installation found them so.
THEOREM RestoredIsTrue == Spec => []RestoredMeansRestored
<1>1. Invariant => RestoredMeansRestored
  BY DEF Invariant, Restoring
<1> QED BY <1>1, InvariantHolds, PTL

\* clean_leftovers: a sweep of which no call failed leaves no file missing,
\* wherever the process died before.
THEOREM SweepsMakeWhole == Spec => SweepMakesWhole
<1>1. Invariant /\ Invariant' /\ [Next]_vars
      => (app.sweeps # {} /\ app'.sweeps = {} /\ app'.at # "off" /\ app'.fault = None
            => \A f \in Files : disk'[f].live # None)
  <2> SUFFICES ASSUME Invariant, Invariant', [Next]_vars,
                      app.sweeps # {}, app'.sweeps = {}, app'.at # "off", app'.fault = None
               PROVE  \A f \in Files : disk'[f].live # None
    OBVIOUS
  <2>1. app.at = "idle"
    BY DEF Invariant, Swapping, Stays
  <2>2. app'.at = "idle"
    BY <2>1, SweepingStage DEF Invariant, Swapping, Launch
  <2> QED BY <2>2 DEF Invariant, Sweeping
<1> QED BY <1>1, InvariantHolds, PTL DEF Spec, SweepMakesWhole

\* resume_decision: a server that answers with the range it was asked for and
\* does not replace its package never makes the hash check refuse what was
\* put together of several requests.
THEOREM ResumingIsExact == ~Misaligned => (Spec => []ResumeIsExact)
<1> SUFFICES ASSUME ~Misaligned PROVE Spec => []ResumeIsExact
  OBVIOUS
<1>1. Init => Invariant /\ Resuming
  BY InvariantInit
<1>2. Invariant /\ Resuming /\ [Next]_vars => Invariant' /\ Resuming'
  BY InvariantStep, ResumingStep DEF Invariant, Swapping
<1>3. Resuming => ResumeIsExact
  BY DEF Resuming
<1> QED BY <1>1, <1>2, <1>3, PTL DEF Spec
=============================================================================
