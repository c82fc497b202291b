------------------------ MODULE SettingsStore_proofs ------------------------
(***************************************************************************)
(* Proofs about SettingsStore, for any programs, schemas, settings and any *)
(* number of mishaps.                                                      *)
(*                                                                         *)
(* First what holds however many programs run at once, and whatever holds  *)
(* the file: a second look is as good as what it saw, and a file that was  *)
(* left unused is replaced only by the programs that ran then.  Then what  *)
(* two programs spoil for each other, since they share the temporary file: *)
(* while one runs that started alone, the file is torn while it is open,   *)
(* and from the second check to the rename exactly the body of the program *)
(* that saves.                                                             *)
(***************************************************************************)
EXTENDS SettingsStore, TLAPS

LEMMA ShapesAreContents ==
    /\ Nothing \in Contents /\ Torn \in Contents
    /\ \A s \in Nat, v \in Values : Json(s, v) \in Contents
    /\ \A f \in {"none", "torn", "mixed", "damaged"}, v \in Values : Broken(f, v) \in Contents
BY SettingsAssumption DEF Nothing, Torn, Json, Broken, Contents

Apps == [at : Places, value : Values, open : {"no", "tmp", "file", "gone"}]

LEMMA CountedIsBounded ==
    ASSUME mishaps \in 0..MaxMishaps, NEW failed \in Failures, Counted(failed)
    PROVE  mishaps' \in 0..MaxMishaps /\ failed \in BOOLEAN /\ (failed => mishaps' # mishaps)
<1>1. Held \in BOOLEAN /\ MaxMishaps \in Nat
  BY SettingsAssumption
<1>2. failed = FALSE \/ failed = (Held /\ mishaps < MaxMishaps)
  BY DEF Failures
<1>3. failed \in BOOLEAN /\ (failed => mishaps < MaxMishaps)
  BY <1>1, <1>2
<1>4. CASE failed
  BY <1>1, <1>3, <1>4 DEF Counted
<1>5. CASE ~failed
  BY <1>5, <1>3 DEF Counted
<1> QED BY <1>4, <1>5, <1>3

LEMMA MishapIsBounded ==
    ASSUME mishaps \in 0..MaxMishaps, Mishap
    PROVE  mishaps' \in 0..MaxMishaps
BY SettingsAssumption DEF Mishap

-----------------------------------------------------------------------------
(* Whatever runs at once.                                                  *)

\* A program about to rename has seen that the file is not newer, unless its
\* look failed or the file has come since.
SeenBeforeRename == \A p \in Programs : At(p, "rename") /\ Newer(p) => p \in unseen

\* While a file lies unused, every program on ran when it was left.
RunningAreExcused == left # "no" => Running \subseteq excused

\* Who does not run has nothing open.
ClosedWhenOff == \A p \in Programs : At(p, "off") => app[p].open = "no"

Watched == TypeOK /\ SeenBeforeRename /\ RunningAreExcused /\ ClosedWhenOff

\* What a step of p does to the programs: p goes somewhere, and about to rename
\* only by its second look; the others stay where they are, but for where
\* their open files lie.
Steps(p) ==
    /\ app' \in [Programs -> Apps]
    /\ \A q \in Programs : q # p => /\ app'[q].at = app[q].at
                                    /\ app[q].open = "no" => app'[q].open = "no"
    /\ app'[p].at = "off" => app'[p].open = "no"
    /\ app'[p].at = "rename" => CheckAgain(p) /\ UNCHANGED file

LEMMA OneStep ==
    ASSUME TypeOK, NEW p \in Programs, NEW r \in Apps,
           app' = [app EXCEPT ![p] = r],
           r.at = "off" => r.open = "no",
           r.at = "rename" => CheckAgain(p) /\ UNCHANGED file
    PROVE  Steps(p)
BY DEF Steps, TypeOK, Apps

LEMMA MovedSteps ==
    ASSUME TypeOK, NEW p \in Programs, NEW renamed \in BOOLEAN, Moved(p, renamed)
    PROVE  Steps(p) /\ app'[p].at = "idle"
<1>1. \A q \in Programs : app[q] \in Apps
  BY DEF TypeOK, Apps
<1>2. \A q \in Programs : Follow(app[q].open, renamed) \in {"no", "tmp", "file", "gone"}
  BY <1>1 DEF Follow, Apps
<1>3. \A q \in Programs :
         [app[q] EXCEPT !.open = IF q = p THEN "no" ELSE Follow(@, renamed),
                        !.at = IF q = p THEN "idle" ELSE @] \in Apps
  BY <1>1, <1>2 DEF Apps, Places
<1>4. app' \in [Programs -> Apps]
  BY <1>3 DEF Moved
<1>5. \A q \in Programs : app'[q].at = IF q = p THEN "idle" ELSE app[q].at
  BY <1>1 DEF Moved, Apps
<1>6. ASSUME NEW q \in Programs, q # p, app[q].open = "no" PROVE app'[q].open = "no"
  <2>1. Follow(app[q].open, renamed) = "no"
    BY <1>6 DEF Follow
  <2>2. app'[q].open = Follow(app[q].open, renamed)
    BY <1>1, <1>6 DEF Moved, Apps
  <2> QED BY <2>1, <2>2
<1> QED BY <1>4, <1>5, <1>6 DEF Steps

LEMMA AsideSteps ==
    ASSUME TypeOK, NEW p \in Programs, MovesAside(p)
    PROVE  Steps(p) /\ app'[p].at = "idle"
<1>1. \A q \in Programs : app[q] \in Apps
  BY DEF TypeOK, Apps
<1>2. Started(Default) \in Apps
  BY SettingsAssumption DEF Started, Apps, Places
<1>3. \A q \in Programs : [app[q] EXCEPT !.open = IF @ = "file" THEN "gone" ELSE @] \in Apps
  BY <1>1 DEF Apps
<1>4. app' \in [Programs -> Apps]
  BY <1>2, <1>3 DEF MovesAside
<1>5. \A q \in Programs : app'[q].at = IF q = p THEN "idle" ELSE app[q].at
  BY <1>1 DEF MovesAside, Started, Apps
<1>6. ASSUME NEW q \in Programs, q # p, app[q].open = "no" PROVE app'[q].open = "no"
  BY <1>1, <1>6 DEF MovesAside, Apps
<1> QED BY <1>4, <1>5, <1>6 DEF Steps

\* The types of the disk and of the history.
Typed ==
    /\ file' \in Contents /\ tmp' \in Contents /\ backups' \subseteq Contents
    /\ crowded' \in BOOLEAN /\ kept' \in Values \cup {None} /\ mishaps' \in 0..MaxMishaps

\* Only a start leaves a file unused; every other step keeps who is excused, and
\* is taken by a program that is on.
Excuses(p) ==
    \/ \E why \in {"no", "unread", "unmoved"} : Leaves(p, why)
    \/ excused' = excused /\ left' \in {left, "no"} /\ ~At(p, "off")

LEMMA ProgramSteps ==
    ASSUME TypeOK, NEW p \in Programs, Program(p)
    PROVE  Steps(p) /\ Typed /\ Excuses(p)
<1>0. /\ app \in [Programs -> Apps]
      /\ \A q \in Programs : app[q] \in Apps /\ app[q].value \in Values /\ Supports[q] \in Nat
      /\ mishaps \in 0..MaxMishaps
      /\ file \in Contents /\ file.value \in Values /\ Default \in Values
  BY SettingsAssumption DEF TypeOK, Apps, Contents
<1>1. ASSUME UNCHANGED <<disk, crowded, kept>>, mishaps' \in 0..MaxMishaps
      PROVE  Typed
  BY <1>1 DEF Typed, TypeOK, disk
<1>14. ASSUME Joins(p)
       PROVE  crowded' \in BOOLEAN /\ kept' \in Values \cup {None}
  BY <1>14 DEF Joins, TypeOK
<1>2. CASE Load(p)
  <2>1. PICK failed \in Failures :
           /\ app' = [app EXCEPT ![p] = Started(IF Parses /\ ~Newer(p) /\ ~failed THEN file.value ELSE Default)]
           /\ Leaves(p, IF Exists(file) /\ failed THEN "unread" ELSE "no")
           /\ Counted(failed) /\ UNCHANGED disk
    BY <1>2 DEF Load
  <2>2. Started(IF Parses /\ ~Newer(p) /\ ~failed THEN file.value ELSE Default) \in Apps
    BY <1>0 DEF Started, Apps, Places
  <2>3. Steps(p)
    BY <2>1, <2>2, OneStep DEF Started
  <2>4. Typed
    BY <1>0, <1>14, <1>2, <2>1, CountedIsBounded DEF Load, Typed, TypeOK, disk
  <2> QED BY <1>0, <2>1, <2>3, <2>4, CountedIsBounded DEF Excuses
<1>3. CASE LoadCorrupt(p)
  <2>1. PICK failed \in Failures :
           /\ IF failed THEN UNCHANGED disk /\ app' = [app EXCEPT ![p] = Started(Default)]
                        ELSE Aside /\ MovesAside(p)
           /\ Leaves(p, IF failed THEN "unmoved" ELSE "no")
           /\ Counted(failed)
    BY <1>3 DEF LoadCorrupt
  <2>2. Started(Default) \in Apps
    BY <1>0 DEF Started, Apps, Places
  <2>3. Steps(p)
    BY <2>1, <2>2, OneStep, AsideSteps DEF Started
  <2>4. Typed
    BY <1>0, <1>14, <1>3, <2>1, CountedIsBounded, ShapesAreContents
       DEF LoadCorrupt, Typed, TypeOK, Aside, disk
  <2> QED BY <2>1, <2>3, <2>4 DEF Excuses
<1>4. CASE Change(p)
  <2>1. PICK v \in Values : app' = [app EXCEPT ![p].value = v, ![p].at = "check"]
    BY <1>4 DEF Change
  <2>2. app' = [app EXCEPT ![p] = [app[p] EXCEPT !.value = v, !.at = "check"]]
    BY <1>0, <2>1
  <2>3. [app[p] EXCEPT !.value = v, !.at = "check"] \in Apps
    BY <1>0 DEF Apps, Places
  <2>4. Steps(p)
    BY <1>0, <2>2, <2>3, OneStep DEF Apps
  <2> QED BY <1>0, <1>1, <1>4, <2>4 DEF Change, Excuses, At
<1>5. CASE CheckSchema(p)
  <2>1. PICK failed \in Failures :
           Goes(p, IF Refused(p) /\ ~failed THEN "idle" ELSE "create") /\ Counted(failed)
    BY <1>5 DEF CheckSchema
  <2>2. PICK at \in {"idle", "create"} : app' = [app EXCEPT ![p] = [app[p] EXCEPT !.at = at]]
    BY <1>0, <2>1 DEF Goes
  <2>3. [app[p] EXCEPT !.at = at] \in Apps
    BY <1>0 DEF Apps, Places
  <2>4. Steps(p)
    BY <1>0, <2>2, <2>3, OneStep DEF Apps
  <2> QED BY <1>0, <1>1, <1>5, <2>1, <2>4, CountedIsBounded DEF CheckSchema, Excuses, At
<1>6. CASE CreateTemp(p)
  <2>1. app' = [app EXCEPT ![p] = [app[p] EXCEPT !.open = "tmp", !.at = "write"]]
    BY <1>0, <1>6 DEF CreateTemp
  <2>2. [app[p] EXCEPT !.open = "tmp", !.at = "write"] \in Apps
    BY <1>0 DEF Apps, Places
  <2>3. Steps(p)
    BY <1>0, <2>1, <2>2, OneStep DEF Apps
  <2>4. Typed
    BY <1>0, <1>6, ShapesAreContents DEF CreateTemp, Typed, TypeOK
  <2> QED BY <1>6, <2>3, <2>4 DEF CreateTemp, Excuses, At
<1>7. CASE WriteTemp(p)
  <2>1. app' = [app EXCEPT ![p] = [app[p] EXCEPT !.open = "no", !.at = "check again"]]
    BY <1>0, <1>7 DEF WriteTemp
  <2>2. [app[p] EXCEPT !.open = "no", !.at = "check again"] \in Apps
    BY <1>0 DEF Apps, Places
  <2>3. Steps(p)
    BY <1>0, <2>1, <2>2, OneStep DEF Apps
  <2>4. Bodies(p, tmp) \subseteq Contents /\ Bodies(p, file) \subseteq Contents
    BY <1>0, ShapesAreContents DEF Bodies
  <2>5. Typed
    BY <1>0, <1>7, <2>4 DEF WriteTemp, Typed, TypeOK
  <2> QED BY <1>7, <2>3, <2>5 DEF WriteTemp, Excuses, At
<1>8. CASE CheckAgain(p)
  <2>1. PICK failed \in Failures :
           /\ IF Refused(p) /\ ~failed THEN tmp' = Nothing /\ Moved(p, FALSE)
                                       ELSE UNCHANGED tmp /\ Goes(p, "rename")
           /\ Counted(failed) /\ UNCHANGED <<file, backups, crowded, kept, left, excused>> /\ At(p, "check again")
    BY <1>8 DEF CheckAgain
  <2>2. CASE Refused(p) /\ ~failed
    BY <2>1, <2>2, <1>0, MovedSteps, CountedIsBounded, ShapesAreContents DEF Typed, TypeOK, Excuses, At
  <2>3. CASE ~(Refused(p) /\ ~failed)
    <3>1. app' = [app EXCEPT ![p] = [app[p] EXCEPT !.at = "rename"]]
      BY <1>0, <2>1, <2>3 DEF Goes
    <3>2. [app[p] EXCEPT !.at = "rename"] \in Apps
      BY <1>0 DEF Apps, Places
    <3>3. [app[p] EXCEPT !.at = "rename"].at = "rename" /\ UNCHANGED file
      BY <1>0, <2>1 DEF Apps
    <3>4. Steps(p)
      BY <1>8, <3>1, <3>2, <3>3, OneStep
    <3> QED BY <2>1, <2>3, <3>4, <1>0, CountedIsBounded DEF Typed, TypeOK, Excuses, At
  <2> QED BY <2>2, <2>3
<1>9. CASE Replace(p)
  <2>1. CASE Exists(tmp)
    BY <1>0, <1>9, <2>1, MovedSteps, ShapesAreContents DEF Replace, Typed, TypeOK, Excuses, At
  <2>2. CASE ~Exists(tmp)
    <3>1. app' = [app EXCEPT ![p] = [app[p] EXCEPT !.at = "idle"]]
      BY <1>0, <1>9, <2>2 DEF Replace, Goes
    <3>2. [app[p] EXCEPT !.at = "idle"] \in Apps
      BY <1>0 DEF Apps, Places
    <3>3. Steps(p)
      BY <1>0, <3>1, <3>2, OneStep DEF Apps
    <3> QED BY <1>0, <1>9, <2>2, <3>3 DEF Replace, Typed, TypeOK, Excuses, At
  <2> QED BY <2>1, <2>2
<1>10. CASE SaveFails(p)
  <2>1. app' = [app EXCEPT ![p] = [app[p] EXCEPT !.at = "idle", !.open = "no"]]
    BY <1>0, <1>10 DEF SaveFails
  <2>2. [app[p] EXCEPT !.at = "idle", !.open = "no"] \in Apps
    BY <1>0 DEF Apps, Places
  <2>3. Steps(p)
    BY <1>0, <2>1, <2>2, OneStep DEF Apps
  <2> QED BY <1>0, <1>1, <1>10, <2>3, MishapIsBounded DEF SaveFails, Excuses, At
<1>11. CASE ReplaceFails(p)
  <2>1. Steps(p)
    BY <1>11, MovedSteps DEF ReplaceFails
  <2>2. Typed
    BY <1>0, <1>11, MishapIsBounded, ShapesAreContents DEF ReplaceFails, Typed, TypeOK
  <2> QED BY <1>11, <2>1, <2>2 DEF ReplaceFails, Excuses, At
<1>12. CASE Quits(p) \/ Dies(p)
  <2>1. app' = [app EXCEPT ![p] = Off] /\ UNCHANGED <<disk, crowded, kept, left, excused>> /\ ~At(p, "off")
    BY <1>12 DEF Quits, Dies, At
  <2>2. Off \in Apps
    BY <1>0 DEF Off, Apps, Places
  <2>3. Steps(p)
    BY <2>1, <2>2, OneStep DEF Off
  <2>4. mishaps' \in 0..MaxMishaps
    BY <1>0, <1>12, MishapIsBounded DEF Quits, Dies
  <2> QED BY <1>1, <2>1, <2>3, <2>4 DEF Excuses
<1> QED BY <1>2, <1>3, <1>4, <1>5, <1>6, <1>7, <1>8, <1>9, <1>10, <1>11, <1>12 DEF Program

LEMMA TypesStay ==
    ASSUME TypeOK, Overlooks, Damage \/ \E p \in Programs : Program(p)
    PROVE  TypeOK'
<1>1. unseen' \subseteq Programs
  BY DEF Overlooks
<1>2. CASE Damage
  <2>1. file' \in Contents
    BY <1>2, ShapesAreContents DEF Damage, TypeOK, Contents
  <2>2. mishaps' \in 0..MaxMishaps
    BY <1>2, MishapIsBounded DEF Damage, TypeOK
  <2> QED BY <1>1, <1>2, <2>1, <2>2 DEF Damage, TypeOK
<1>3. CASE \E p \in Programs : Program(p)
  <2>1. PICK p \in Programs : Program(p)
    BY <1>3
  <2>2. Steps(p) /\ Typed /\ Excuses(p)
    BY <2>1, ProgramSteps
  <2>3. left' \in {"no", "unread", "unmoved"} /\ excused' \subseteq Programs
    BY <2>2 DEF Excuses, Leaves, Running, TypeOK
  <2> QED BY <1>1, <2>2, <2>3 DEF TypeOK, Steps, Typed, Apps
<1> QED BY <1>2, <1>3

LEMMA WatchedInit == Init => Watched
<1> SUFFICES ASSUME Init PROVE Watched
  OBVIOUS
<1>0. Off \in Apps /\ mishaps \in 0..MaxMishaps
  BY SettingsAssumption DEF Init, Off, Apps, Places
<1>1. TypeOK
  BY <1>0, ShapesAreContents DEF Init, TypeOK, Apps
<1>2. \A p \in Programs : app[p].at = "off"
  BY DEF Init, Off
<1>3. \A p \in Programs : app[p].open = "no"
  BY DEF Init, Off
<1>4. SeenBeforeRename /\ RunningAreExcused
  BY <1>2 DEF Init, SeenBeforeRename, RunningAreExcused, At
<1> QED BY <1>1, <1>3, <1>4 DEF Watched, ClosedWhenOff

LEMMA WatchedNext == Watched /\ [Next]_vars => Watched'
<1> SUFFICES ASSUME Watched, [Next]_vars PROVE Watched'
  OBVIOUS
<1>0. TypeOK
  BY DEF Watched
<1>1. CASE UNCHANGED vars
  BY <1>1 DEF Watched, vars, disk, TypeOK, SeenBeforeRename, RunningAreExcused,
     ClosedWhenOff, Running, At, Newer, Parses
<1>2. ASSUME NEW p \in Programs, Program(p), Overlooks PROVE Watched'
  <2>1. Steps(p) /\ Typed /\ Excuses(p)
    BY <1>0, <1>2, ProgramSteps
  <2>4. TypeOK'
    BY <1>0, <1>2, TypesStay
  <2>5. SeenBeforeRename'
    <3> SUFFICES ASSUME NEW q \in Programs, app'[q].at = "rename", Newer(q)' PROVE q \in unseen'
      BY DEF SeenBeforeRename, At
    <3>1. CASE At(q, "rename")
      <4>1. file' = file => q \in unseen
        BY <3>1 DEF Watched, SeenBeforeRename, Newer, Parses
      <4> QED BY <1>2, <3>1, <4>1 DEF Overlooks
    <3>2. CASE ~At(q, "rename")
      <4>1. q = p /\ CheckAgain(p) /\ UNCHANGED file
        BY <2>1, <3>2 DEF Steps, At
      <4>2. Refused(p)
        BY <4>1 DEF Refused, Newer, Parses
      <4>3. PICK failed \in Failures :
               /\ IF Refused(p) /\ ~failed THEN Moved(p, FALSE) ELSE Goes(p, "rename")
               /\ Counted(failed)
        BY <4>1 DEF CheckAgain
      <4>4. failed
        BY <1>0, <4>1, <4>2, <4>3, MovedSteps
      <4>5. mishaps' # mishaps
        BY <1>0, <4>3, <4>4, CountedIsBounded DEF TypeOK
      <4> QED BY <1>2, <3>2, <4>5 DEF Overlooks
    <3> QED BY <3>1, <3>2
  <2>6. RunningAreExcused'
    <3>1. \A q \in Programs : q # p => (app'[q].at = "off" <=> app[q].at = "off")
      BY <2>1 DEF Steps
    <3> QED BY <2>1, <3>1 DEF Excuses, Leaves, Watched, RunningAreExcused, Running, At
  <2>7. ClosedWhenOff'
    BY <2>1 DEF Steps, Watched, ClosedWhenOff, At
  <2> QED BY <2>4, <2>5, <2>6, <2>7 DEF Watched
<1>3. ASSUME Damage, Overlooks PROVE Watched'
  <2>1. file'.form # "json" /\ left' = "no" /\ UNCHANGED <<tmp, backups, app, crowded, excused>> /\ kept' = None
    BY <1>3 DEF Damage, Broken
  <2>5. TypeOK'
    BY <1>0, <1>3, TypesStay
  <2> QED BY <2>1, <2>5 DEF Watched, SeenBeforeRename, RunningAreExcused, ClosedWhenOff, Newer, Parses, At
<1> QED BY <1>1, <1>2, <1>3 DEF Next

LEMMA WatchedInvariant == Spec => []Watched
BY WatchedInit, WatchedNext, PTL DEF Spec

\* Every variable has its type, with any programs at once.
THEOREM SettingsTypes == Spec => []TypeOK
<1>1. Watched => TypeOK
  BY DEF Watched
<1> QED BY <1>1, WatchedInvariant, PTL

\* What the second look of save is worth, with any programs at once: it keeps
\* every newer file it could see.
THEOREM SeenNewerFilesWin == Spec => SeenNewerFileWins
<1>1. Watched /\ [Next]_vars =>
          [\A p \in Programs : Replace(p) /\ Newer(p) => p \in unseen \/ file' = file]_vars
  BY DEF Watched, SeenBeforeRename, Replace
<1> QED BY <1>1, WatchedInvariant, PTL DEF Spec, SeenNewerFileWins

\* A file that a start could not read or move is replaced only by a program
\* that ran at that moment, with any programs at once: everyone who starts
\* later uses it, leaves it as newer or moves it aside first.
THEOREM UnusedFileTheorem == Spec => UnusedFileIsKept
<1>1. Watched /\ [Next]_vars =>
          [\A p \in Programs : Replace(p) /\ left # "no" => p \in excused \/ file' = file]_vars
  BY DEF Watched, RunningAreExcused, Running, Replace, At
<1> QED BY <1>1, WatchedInvariant, PTL DEF Spec, UnusedFileIsKept

-----------------------------------------------------------------------------
(* A program that started alone, as long as no other is started.           *)

\* One program runs.
Alone == \A p, q \in Programs : ~At(p, "off") /\ ~At(q, "off") => p = q

\* The temporary file is open while it is being written, and torn then.
OpenWhileWritten ==
    \A p \in Programs :
        /\ app[p].open = IF At(p, "write") THEN "tmp" ELSE "no"
        /\ At(p, "write") => tmp = Torn

\* Afterwards it holds the saver's body until it is renamed or removed.
TempIsTheBody ==
    \A p \in Programs :
        app[p].at \in {"check again", "rename"} => tmp = Json(Supports[p], app[p].value)

Sole == Alone /\ OpenWhileWritten /\ TempIsTheBody

Inv == Watched /\ SavedSurvives /\ (crowded => kept = None) /\ (~crowded => Sole)

LEMMA InvInit == Init => Inv
<1> SUFFICES ASSUME Init PROVE Inv
  OBVIOUS
<1>1. \A p \in Programs : app[p].at = "off" /\ app[p].open = "no"
  BY DEF Init, Off
<1>2. Sole
  BY <1>1 DEF Sole, Alone, OpenWhileWritten, TempIsTheBody, At
<1>3. SavedSurvives /\ kept = None
  BY DEF Init, SavedSurvives
<1> QED BY <1>2, <1>3, WatchedInit DEF Inv

\* The others are off and p goes to the record r: what Sole says of the
\* programs then only has to be shown of r.
Sound(p, r) ==
    /\ r \in Apps
    /\ r.open = IF r.at = "write" THEN "tmp" ELSE "no"
    /\ r.at = "write" => tmp' = Torn
    /\ r.at \in {"check again", "rename"} => tmp' = Json(Supports[p], r.value)

OthersAreOff(p) == \A q \in Programs : q # p => At(q, "off")

LEMMA OnlyOneMoves ==
    ASSUME Watched, NEW p \in Programs, NEW r, OthersAreOff(p),
           app' = [app EXCEPT ![p] = r],
           Sound(p, r)
    PROVE  Sole'
<1>1. app \in [Programs -> Apps]
  BY DEF Watched, TypeOK, Apps
<1>2. app'[p] = r
  BY <1>1 DEF Sound
<1>3. \A q \in Programs : q # p => app'[q] = app[q] /\ app'[q].at = "off"
  BY <1>1 DEF OthersAreOff, At
<1>4. \A q \in Programs : q # p => app'[q].open = "no"
  BY <1>3 DEF Watched, ClosedWhenOff, At
<1>5. Alone'
  BY <1>3 DEF Alone, At
<1>6. OpenWhileWritten'
  BY <1>2, <1>3, <1>4 DEF OpenWhileWritten, At, Sound
<1>7. TempIsTheBody'
  BY <1>2, <1>3 DEF TempIsTheBody, Sound
<1> QED BY <1>5, <1>6, <1>7 DEF Sole

\* When the temporary file is renamed or removed, no other program has it
\* open, and only p moves.
LEMMA MovedIsOneMove ==
    ASSUME Watched, NEW p \in Programs, NEW renamed \in BOOLEAN, OthersAreOff(p),
           Moved(p, renamed)
    PROVE  app' = [app EXCEPT ![p] = [app[p] EXCEPT !.open = "no", !.at = "idle"]]
<1>1. app \in [Programs -> Apps]
  BY DEF Watched, TypeOK, Apps
<1>2. \A q \in Programs : q # p => app[q].open = "no"
  BY DEF Watched, ClosedWhenOff, OthersAreOff
<1>3. \A q \in Programs : q # p => app[q] = [app[q] EXCEPT !.open = Follow(@, renamed), !.at = @]
  <2> TAKE q \in Programs
  <2> HAVE q # p
  <2>1. Follow(app[q].open, renamed) = app[q].open
    BY <1>2 DEF Follow
  <2> QED BY <1>1, <2>1 DEF Apps
<1>4. app' = [q \in Programs |->
                 IF q = p THEN [app[p] EXCEPT !.open = "no", !.at = "idle"] ELSE app[q]]
  BY <1>3 DEF Moved
<1> QED BY <1>1, <1>4

LEMMA AsideIsOneMove ==
    ASSUME Watched, NEW p \in Programs, OthersAreOff(p),
           MovesAside(p)
    PROVE  app' = [app EXCEPT ![p] = Started(Default)]
<1>1. app \in [Programs -> Apps]
  BY DEF Watched, TypeOK, Apps
<1>2. \A q \in Programs : q # p => app[q].open = "no"
  BY DEF Watched, ClosedWhenOff, OthersAreOff
<1>3. \A q \in Programs : q # p => app[q] = [app[q] EXCEPT !.open = IF @ = "file" THEN "gone" ELSE @]
  BY <1>1, <1>2 DEF Apps
<1>4. app' = [q \in Programs |-> IF q = p THEN Started(Default) ELSE app[q]]
  BY <1>3 DEF MovesAside
<1> QED BY <1>1, <1>4

\* What a program leaves of the file when it starts, with others or alone.
LEMMA StartsAreHarmless ==
    ASSUME Inv, NEW p \in Programs, Load(p) \/ LoadCorrupt(p)
    PROVE  /\ Joins(p) /\ (FileIsWhole => FileIsWhole') /\ SavedSurvives'
           /\ crowded' => kept' = None
           /\ ~crowded' => OthersAreOff(p)
<1>1. Joins(p)
  BY DEF Load, LoadCorrupt
<1>2. kept' \in {kept, None} /\ (crowded' => kept' = None) /\ (~crowded' => OthersAreOff(p))
  BY <1>1 DEF Joins, Running, OthersAreOff
<1>3. file' = file \/ (file' = Nothing /\ ~Parses)
  BY DEF Load, LoadCorrupt, Aside, disk
<1>4. SavedSurvives'
  BY <1>2, <1>3 DEF Inv, SavedSurvives, Parses
<1>5. FileIsWhole => FileIsWhole'
  BY <1>3 DEF FileIsWhole, Nothing, Broken
<1> QED BY <1>1, <1>2, <1>4, <1>5

\* What is left to show of a step of a program that runs alone.
FileKeeps == (FileIsWhole => FileIsWhole') /\ SavedSurvives'

LEMMA AloneStep ==
    ASSUME Inv, NEW p \in Programs, Program(p), ~crowded'
    PROVE  Sole' /\ FileKeeps
<1>0. /\ Watched /\ TypeOK
      /\ app \in [Programs -> Apps]
      /\ \A q \in Programs : app[q] \in Apps /\ app[q].value \in Values /\ Supports[q] \in Nat
  BY SettingsAssumption DEF Inv, Watched, TypeOK, Apps
<1>1. ASSUME ~At(p, "off"), UNCHANGED crowded
      PROVE  Sole /\ OthersAreOff(p)
  BY <1>1 DEF Inv, Sole, Alone, OthersAreOff
<1>2. UNCHANGED <<file, kept>> => FileKeeps
  BY DEF Inv, FileIsWhole, SavedSurvives, Parses, FileKeeps
<1>3. CASE Load(p)
  <2>1. PICK v \in Values : app' = [app EXCEPT ![p] = Started(v)]
    BY <1>0, <1>3, SettingsAssumption DEF Load, TypeOK, Parses, Contents
  <2>2. OthersAreOff(p) /\ FileKeeps
    BY <1>3, StartsAreHarmless DEF FileKeeps
  <2>3. Sound(p, Started(v))
    BY DEF Sound, Started, Apps, Places
  <2> QED BY <1>0, <2>1, <2>2, <2>3, OnlyOneMoves
<1>4. CASE LoadCorrupt(p)
  <2>1. OthersAreOff(p) /\ FileKeeps
    BY <1>4, StartsAreHarmless DEF FileKeeps
  <2>2. app' = [app EXCEPT ![p] = Started(Default)]
    BY <1>0, <1>4, <2>1, AsideIsOneMove DEF LoadCorrupt
  <2>3. Sound(p, Started(Default))
    BY SettingsAssumption DEF Sound, Started, Apps, Places
  <2> QED BY <1>0, <2>1, <2>2, <2>3, OnlyOneMoves
<1>5. CASE Change(p)
  <2>1. PICK v \in Values : app' = [app EXCEPT ![p].value = v, ![p].at = "check"]
    BY <1>5 DEF Change
  <2> DEFINE r == [app[p] EXCEPT !.value = v, !.at = "check"]
  <2>2. ~At(p, "off") /\ UNCHANGED <<file, kept, crowded>>
    BY <1>5 DEF Change, At, disk
  <2>3. app' = [app EXCEPT ![p] = r]
    BY <1>0, <2>1
  <2>4. Sound(p, r)
    BY <1>0, <1>1, <1>5, <2>2 DEF Sound, Change, At, Apps, Places, Sole, OpenWhileWritten
  <2> QED BY <1>0, <1>1, <1>2, <2>2, <2>3, <2>4, OnlyOneMoves
<1>6. CASE CheckSchema(p)
  <2>1. PICK at \in {"idle", "create"} : app' = [app EXCEPT ![p].at = at]
    BY <1>0, <1>6 DEF CheckSchema, Goes
  <2> DEFINE r == [app[p] EXCEPT !.at = at]
  <2>2. ~At(p, "off") /\ UNCHANGED <<file, kept, crowded>>
    BY <1>6 DEF CheckSchema, At, disk
  <2>3. app' = [app EXCEPT ![p] = r]
    BY <1>0, <2>1
  <2>4. Sound(p, r)
    BY <1>0, <1>1, <1>6, <2>2 DEF Sound, CheckSchema, At, Apps, Places, Sole, OpenWhileWritten
  <2> QED BY <1>0, <1>1, <1>2, <2>2, <2>3, <2>4, OnlyOneMoves
<1>7. CASE CreateTemp(p)
  <2> DEFINE r == [app[p] EXCEPT !.open = "tmp", !.at = "write"]
  <2>1. ~At(p, "off") /\ UNCHANGED <<file, kept, crowded>>
    BY <1>7 DEF CreateTemp, At
  <2>2. app' = [app EXCEPT ![p] = r]
    BY <1>0, <1>7 DEF CreateTemp
  <2>3. Sound(p, r)
    BY <1>0, <1>7 DEF Sound, CreateTemp, Apps, Places
  <2> QED BY <1>0, <1>1, <1>2, <2>1, <2>2, <2>3, OnlyOneMoves
<1>8. CASE WriteTemp(p)
  <2> DEFINE r == [app[p] EXCEPT !.open = "no", !.at = "check again"]
  <2>1. ~At(p, "off") /\ UNCHANGED crowded /\ At(p, "write")
    BY <1>8 DEF WriteTemp, At
  <2>2. app[p].open = "tmp" /\ tmp = Torn
    BY <1>1, <2>1 DEF Sole, OpenWhileWritten
  <2>3. tmp' = Json(Supports[p], app[p].value)
    BY <1>8, <2>2 DEF WriteTemp, Bodies, Torn, Broken
  <2>4. UNCHANGED <<file, kept>>
    BY <1>8, <2>2 DEF WriteTemp
  <2>5. app' = [app EXCEPT ![p] = r]
    BY <1>0, <1>8 DEF WriteTemp
  <2>6. Sound(p, r)
    BY <1>0, <2>3 DEF Sound, Apps, Places
  <2> QED BY <1>0, <1>1, <1>2, <2>1, <2>4, <2>5, <2>6, OnlyOneMoves
<1>9. CASE CheckAgain(p)
  <2>1. /\ ~At(p, "off") /\ UNCHANGED <<file, kept, crowded>> /\ At(p, "check again")
    BY <1>9 DEF CheckAgain, At
  <2>2. app[p].open = "no" /\ tmp = Json(Supports[p], app[p].value)
    BY <1>1, <2>1 DEF Sole, At, OpenWhileWritten, TempIsTheBody
  <2>3. CASE Moved(p, FALSE)
    <3> DEFINE r == [app[p] EXCEPT !.open = "no", !.at = "idle"]
    <3>1. app' = [app EXCEPT ![p] = r]
      BY <1>0, <1>1, <2>1, <2>3, MovedIsOneMove
    <3>2. Sound(p, r)
      BY <1>0 DEF Sound, Apps, Places
    <3> QED BY <1>0, <1>1, <1>2, <2>1, <3>1, <3>2, OnlyOneMoves
  <2>4. CASE UNCHANGED tmp /\ Goes(p, "rename")
    <3> DEFINE r == [app[p] EXCEPT !.at = "rename"]
    <3>1. app' = [app EXCEPT ![p] = r]
      BY <1>0, <2>4 DEF Goes
    <3>2. Sound(p, r)
      BY <1>0, <2>2, <2>4 DEF Sound, Apps, Places
    <3> QED BY <1>0, <1>1, <1>2, <2>1, <3>1, <3>2, OnlyOneMoves
  <2> QED BY <1>9, <2>3, <2>4 DEF CheckAgain
<1>10. CASE Replace(p)
  <2> DEFINE r == [app[p] EXCEPT !.open = "no", !.at = "idle"]
  <2>1. ~At(p, "off") /\ UNCHANGED crowded /\ At(p, "rename")
    BY <1>10 DEF Replace, At
  <2>2. tmp = Json(Supports[p], app[p].value)
    BY <1>1, <2>1 DEF Sole, At, TempIsTheBody
  <2>3. Exists(tmp)
    BY <2>2 DEF Exists, Json
  <2>4. file' = tmp /\ Moved(p, TRUE) /\ kept' = IF crowded THEN None ELSE app[p].value
    BY <1>10, <2>3 DEF Replace
  <2>5. kept' = app[p].value
    BY <2>1, <2>4
  <2>6. app' = [app EXCEPT ![p] = r]
    BY <1>0, <1>1, <2>1, <2>4, MovedIsOneMove
  <2>7. Sound(p, r)
    BY <1>0 DEF Sound, Apps, Places
  <2>8. FileKeeps
    BY <2>2, <2>4, <2>5 DEF FileKeeps, FileIsWhole, SavedSurvives, Parses, Json
  <2> QED BY <1>0, <1>1, <2>1, <2>6, <2>7, <2>8, OnlyOneMoves
<1>11. CASE SaveFails(p)
  <2> DEFINE r == [app[p] EXCEPT !.at = "idle", !.open = "no"]
  <2>1. ~At(p, "off") /\ UNCHANGED <<file, kept, crowded>>
    BY <1>11 DEF SaveFails, At, disk
  <2>2. app' = [app EXCEPT ![p] = r]
    BY <1>0, <1>11 DEF SaveFails
  <2>3. Sound(p, r)
    BY <1>0 DEF Sound, Apps, Places
  <2> QED BY <1>0, <1>1, <1>2, <2>1, <2>2, <2>3, OnlyOneMoves
<1>12. CASE ReplaceFails(p)
  <2> DEFINE r == [app[p] EXCEPT !.open = "no", !.at = "idle"]
  <2>1. ~At(p, "off") /\ Moved(p, FALSE) /\ UNCHANGED <<file, kept, crowded>>
    BY <1>12 DEF ReplaceFails, At
  <2>2. app' = [app EXCEPT ![p] = r]
    BY <1>0, <1>1, <2>1, MovedIsOneMove
  <2>3. Sound(p, r)
    BY <1>0 DEF Sound, Apps, Places
  <2> QED BY <1>0, <1>1, <1>2, <2>1, <2>2, <2>3, OnlyOneMoves
<1>13. CASE Quits(p) \/ Dies(p)
  <2>1. ~At(p, "off") /\ app' = [app EXCEPT ![p] = Off] /\ UNCHANGED <<file, kept, crowded>>
    BY <1>13 DEF Quits, Dies, At, disk
  <2>2. Sound(p, Off)
    BY SettingsAssumption DEF Sound, Off, Apps, Places
  <2> QED BY <1>0, <1>1, <1>2, <2>1, <2>2, OnlyOneMoves
<1> QED BY <1>3, <1>4, <1>5, <1>6, <1>7, <1>8, <1>9, <1>10, <1>11, <1>12, <1>13 DEF Program

\* While several run, nothing counts as saved.
LEMMA CrowdSavesNothing ==
    ASSUME Inv, NEW p \in Programs, Program(p), crowded'
    PROVE  kept' = None
<1>1. CASE Load(p) \/ LoadCorrupt(p)
  BY <1>1, StartsAreHarmless
<1>2. CASE ~(Load(p) \/ LoadCorrupt(p))
  <2>1. UNCHANGED crowded
    BY <1>2 DEF Program, Change, CheckSchema, CreateTemp, WriteTemp, CheckAgain, Replace,
       SaveFails, ReplaceFails, Quits, Dies
  <2>2. crowded /\ kept = None
    BY <2>1 DEF Inv
  <2> QED
    BY <1>2, <2>2 DEF Program, Change, CheckSchema, CreateTemp, WriteTemp, CheckAgain, Replace,
       SaveFails, ReplaceFails, Quits, Dies
<1> QED BY <1>1, <1>2

\* A step keeps the invariant, and the file whole but for a crowd's.
LEMMA InvNext ==
    ASSUME Inv, [Next]_vars
    PROVE  Inv' /\ (FileIsWhole => FileIsWhole' \/ crowded)
<1>0. Watched'
  BY WatchedNext DEF Inv
<1>1. ASSUME NEW p \in Programs, Program(p)
      PROVE  Inv' /\ (FileIsWhole => FileIsWhole' \/ crowded)
  <2>1. CASE crowded'
    <3>1. kept' = None
      BY <1>1, <2>1, CrowdSavesNothing
    <3>2. ~crowded => Load(p) \/ LoadCorrupt(p)
      BY <1>1, <2>1 DEF Program, Change, CheckSchema, CreateTemp, WriteTemp, CheckAgain, Replace,
         SaveFails, ReplaceFails, Quits, Dies
    <3>3. FileIsWhole => FileIsWhole' \/ crowded
      BY <3>2, StartsAreHarmless
    <3> QED BY <1>0, <2>1, <3>1, <3>3 DEF Inv, SavedSurvives
  <2>2. CASE ~crowded'
    BY <1>0, <1>1, <2>2, AloneStep DEF Inv, FileKeeps
  <2> QED BY <2>1, <2>2
<1>2. CASE Damage
  <2>1. file' = Broken("damaged", file.value) /\ kept' = None /\ UNCHANGED <<tmp, app, crowded>>
    BY <1>2 DEF Damage
  <2>2. ~crowded' => Sole'
    BY <2>1 DEF Inv, Sole, Alone, OpenWhileWritten, TempIsTheBody, At
  <2>3. FileIsWhole' /\ SavedSurvives'
    BY <2>1 DEF FileIsWhole, SavedSurvives, Broken
  <2> QED BY <1>0, <2>1, <2>2, <2>3 DEF Inv
<1>3. CASE UNCHANGED vars
  BY <1>0, <1>3 DEF Inv, vars, disk, Sole, Alone, OpenWhileWritten, TempIsTheBody,
     FileIsWhole, SavedSurvives, At, Parses
<1> QED BY <1>1, <1>2, <1>3 DEF Next

LEMMA SettingsInvariant == Spec => []Inv
<1>1. Inv /\ [Next]_vars => Inv'
  BY InvNext
<1> QED BY InvInit, <1>1, PTL DEF Spec

\* "Atomic save" (save): no save, start, failure or death ever leaves less
\* than a whole settings file where there was one, but for programs that share
\* the temporary file because several run at once.
THEOREM WholeFileTheorem == Spec => FileStaysWhole
<1>1. Inv /\ [Next]_vars => [FileIsWhole => FileIsWhole' \/ crowded]_vars
  BY InvNext
<1> QED BY <1>1, SettingsInvariant, PTL DEF Spec, FileStaysWhole

\* What the last successful save wrote is what the next start finds, whatever
\* was refused, interrupted or failed since: from the first save of a program
\* that started alone until a second one is started beside it, also after
\* several have run at once.
THEOREM SavedTheorem == Spec => []SavedSurvives
<1>1. Inv => SavedSurvives
  BY DEF Inv
<1> QED BY <1>1, SettingsInvariant, PTL
=============================================================================
