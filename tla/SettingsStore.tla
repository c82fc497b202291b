--------------------------- MODULE SettingsStore ---------------------------
(***************************************************************************)
(* settings.json (ptt-settings/src/lib.rs, SettingsStore): loaded when a   *)
(* program starts, replaced whenever the user changes something, by a      *)
(* temporary sibling and a rename.  The programs are installed copies of   *)
(* the application, each with the schema it supports; nothing in the code  *)
(* keeps two of them from running at once.                                 *)
(*                                                                         *)
(* A program that has created the temporary file writes to that file       *)
(* wherever another program has renamed it to meanwhile.                   *)
(***************************************************************************)
EXTENDS Naturals

CONSTANTS
    Programs,
    Supports,     \* program |-> its CURRENT_SCHEMA_VERSION
    Values,       \* what a settings file can say, calibration included
    Default,      \* AppSettings::default()
    Held,         \* whether reading or moving settings.json may fail: another
                  \* program holds it, or its bytes are not UTF-8
    MaxMishaps,   \* bound on failing calls, deaths and damages
    None

ASSUME SettingsAssumption ==
    /\ Supports \in [Programs -> Nat]
    /\ Default \in Values /\ None \notin Values
    /\ Held \in BOOLEAN /\ MaxMishaps \in Nat

VARIABLES
    file,      \* what lies under settings.json
    tmp,       \* what lies under settings.json.tmp
    backups,   \* what was renamed to settings.json.corrupt-<seconds>
    app,       \* program |-> its settings, its place in save, where its open file lies
    crowded,   \* history: whether two programs have run at once since the last
               \* start that found none running
    kept,      \* history: the settings of the last successful save, or None when
               \* others ran meanwhile
    left,      \* history: why the last start left what lies under settings.json
               \* there unused: it could not be read, could not be moved, or "no"
    excused,   \* history: the programs that ran when it was left
    unseen,    \* history: the programs about to rename whose second look did not
               \* see what lies under settings.json now
    mishaps

disk == <<file, tmp, backups>>
vars == <<disk, app, crowded, kept, left, excused, unseen, mishaps>>

Json(schema, value) == [form |-> "json", schema |-> schema, value |-> value]
Broken(form, value) == [form |-> form, schema |-> 0, value |-> value]
Torn == Broken("torn", Default)
Nothing == Broken("none", Default)

Off == [at |-> "off", value |-> Default, open |-> "no"]

Init ==
    /\ file = Nothing /\ tmp = Nothing /\ backups = {}
    /\ app = [p \in Programs |-> Off]
    /\ crowded = FALSE /\ kept = None /\ left = "no" /\ excused = {} /\ unseen = {}
    /\ mishaps = 0

Mishap == mishaps < MaxMishaps /\ mishaps' = mishaps + 1
\* Whether this read, or this move aside, fails.
Failures == {FALSE, Held /\ mishaps < MaxMishaps}
Counted(failed) == mishaps' = IF failed THEN mishaps + 1 ELSE mishaps

At(p, at) == app[p].at = at
Goes(p, at) == app' = [app EXCEPT ![p].at = at]

Exists(name) == name.form # "none"
Parses == file.form = "json"
Newer(p) == Parses /\ file.schema > Supports[p]

-----------------------------------------------------------------------------
(* load.                                                                   *)

Started(value) == [at |-> "idle", value |-> value, open |-> "no"]
Running == {q \in Programs : ~At(q, "off")}
Leaves(p, why) == left' = why /\ excused' = IF why = "no" THEN {} ELSE Running \cup {p}
Joins(p) ==
    /\ At(p, "off")
    /\ crowded' = (Running # {}) /\ kept' = IF Running = {} THEN kept ELSE None

\* No file, a file of a supported schema, or one of a newer schema: the
\* defaults are shown and saving is refused.  A file that cannot be read is
\* taken for no file.
Load(p) ==
    /\ Joins(p)
    /\ \E failed \in Failures :
        /\ Exists(file) => Parses \/ failed
        /\ app' = [app EXCEPT ![p] = Started(IF Parses /\ ~Newer(p) /\ ~failed THEN file.value ELSE Default)]
        /\ Leaves(p, IF Exists(file) /\ failed THEN "unread" ELSE "no")
        /\ Counted(failed)
    /\ UNCHANGED disk

\* A file that does not parse is moved aside before anyone saves, unless that
\* fails: then it stays.
Aside ==
    /\ backups' = backups \cup {file} /\ file' = Nothing
    /\ UNCHANGED tmp
MovesAside(p) ==
    app' = [q \in Programs |-> IF q = p THEN Started(Default)
                               ELSE [app[q] EXCEPT !.open = IF @ = "file" THEN "gone" ELSE @]]
LoadCorrupt_Newer(p) ==
    /\ Joins(p) /\ Exists(file) /\ (Parses => Newer(p))
    /\ Aside /\ MovesAside(p) /\ Leaves(p, "no")
    /\ UNCHANGED mishaps
LoadCorrupt_Leaves(p) ==
    /\ Joins(p) /\ Exists(file) /\ ~Parses
    /\ app' = [app EXCEPT ![p] = Started(Default)]
    /\ left' = "unmoved"
    /\ UNCHANGED <<disk, excused, mishaps>>
LoadCorrupt(p) ==
    /\ Joins(p) /\ Exists(file) /\ ~Parses
    /\ \E failed \in Failures :
        /\ IF failed
           THEN UNCHANGED disk /\ app' = [app EXCEPT ![p] = Started(Default)]
           ELSE Aside /\ MovesAside(p)
        /\ Leaves(p, IF failed THEN "unmoved" ELSE "no")
        /\ Counted(failed)

-----------------------------------------------------------------------------
(* save, one file operation a step.  Every failure returns to the caller,  *)
(* which reports it and keeps the settings in memory.                      *)

Change(p) ==
    /\ At(p, "idle")
    /\ \E v \in Values : app' = [app EXCEPT ![p].value = v, ![p].at = "check"]
    /\ UNCHANGED <<disk, crowded, kept, left, excused, mishaps>>

Refused(p) == Newer(p)

\* A file that cannot be read is not seen to be newer.
CheckSchema(p) ==
    /\ At(p, "check")
    /\ \E failed \in Failures :
        /\ Goes(p, IF Refused(p) /\ ~failed THEN "idle" ELSE "create")
        /\ Counted(failed)
    /\ UNCHANGED <<disk, crowded, kept, left, excused>>

\* An existing temporary file is truncated, whoever has it open.
CreateTemp(p) ==
    /\ At(p, "create")
    /\ tmp' = Torn
    /\ app' = [app EXCEPT ![p].open = "tmp", ![p].at = "write"]
    /\ UNCHANGED <<file, backups, crowded, kept, left, excused, mishaps>>

\* The body is written from the start of the file; over another program's body
\* it may leave that one's tail behind.
Bodies(p, before) ==
    {Json(Supports[p], app[p].value)}
    \cup (IF before.form = "torn" THEN {} ELSE {Broken("mixed", app[p].value)})

WriteTemp(p) ==
    /\ At(p, "write")
    /\ IF app[p].open = "tmp" THEN tmp' \in Bodies(p, tmp) ELSE UNCHANGED tmp
    /\ IF app[p].open = "file" THEN file' \in Bodies(p, file) ELSE UNCHANGED file
    /\ app' = [app EXCEPT ![p].open = "no", ![p].at = "check again"]
    /\ left' = IF app[p].open = "file" THEN "no" ELSE left
    /\ UNCHANGED <<backups, crowded, kept, excused, mishaps>>

\* Where the open files lie after the temporary file is renamed, or removed.
Follow(open, renamed) ==
    CASE open = "tmp" -> IF renamed THEN "file" ELSE "gone"
      [] open = "file" /\ renamed -> "gone"
      [] OTHER -> open
Moved(p, renamed) ==
    app' = [q \in Programs |->
               [app[q] EXCEPT !.open = IF q = p THEN "no" ELSE Follow(@, renamed),
                              !.at = IF q = p THEN "idle" ELSE @]]

CheckAgain_OnceIsEnough(p) ==
    /\ At(p, "check again") /\ Goes(p, "rename")
    /\ UNCHANGED <<disk, crowded, kept, left, excused, mishaps>>
CheckAgain(p) ==
    /\ At(p, "check again")
    /\ \E failed \in Failures :
        /\ IF Refused(p) /\ ~failed THEN tmp' = Nothing /\ Moved(p, FALSE)
           ELSE UNCHANGED tmp /\ Goes(p, "rename")
        /\ Counted(failed)
    /\ UNCHANGED <<file, backups, crowded, kept, left, excused>>

\* The rename replaces settings.json, if the temporary file is still there.
Replace(p) ==
    /\ At(p, "rename")
    /\ IF Exists(tmp)
       THEN file' = tmp /\ tmp' = Nothing /\ left' = "no" /\ Moved(p, TRUE)
            /\ kept' = IF crowded THEN None ELSE app[p].value
       ELSE UNCHANGED <<file, tmp, kept, left>> /\ Goes(p, "idle")
    /\ UNCHANGED <<backups, crowded, excused, mishaps>>

\* Creating or writing fails, and the temporary file stays as it is.
SaveFails(p) ==
    /\ app[p].at \in {"create", "write"}
    /\ Mishap
    /\ app' = [app EXCEPT ![p].at = "idle", ![p].open = "no"]
    /\ UNCHANGED <<disk, crowded, kept, left, excused>>

\* Renaming fails, and the temporary file is removed.
ReplaceFails(p) ==
    /\ At(p, "rename")
    /\ Mishap
    /\ tmp' = Nothing /\ Moved(p, FALSE)
    /\ UNCHANGED <<file, backups, crowded, kept, left, excused>>

Quits(p) ==
    /\ At(p, "idle") /\ app' = [app EXCEPT ![p] = Off]
    /\ UNCHANGED <<disk, crowded, kept, left, excused, mishaps>>

Dies(p) ==
    /\ ~At(p, "off") /\ Mishap /\ app' = [app EXCEPT ![p] = Off]
    /\ UNCHANGED <<disk, crowded, kept, left, excused>>

\* The disk, or a hand edit, leaves a file that does not parse.
Damage ==
    /\ Parses /\ Mishap
    /\ file' = Broken("damaged", file.value)
    /\ kept' = None /\ left' = "no"
    /\ UNCHANGED <<tmp, backups, app, crowded, excused>>

-----------------------------------------------------------------------------

Program(p) ==
    \/ Load(p) \/ LoadCorrupt(p)
    \/ Change(p) \/ CheckSchema(p) \/ CreateTemp(p) \/ WriteTemp(p) \/ CheckAgain(p) \/ Replace(p)
    \/ SaveFails(p) \/ ReplaceFails(p) \/ Quits(p) \/ Dies(p)

\* A second look that failed has seen nothing, and what it saw may be replaced.
Overlooks ==
    unseen' = {p \in Programs :
                  /\ app'[p].at = "rename"
                  /\ IF At(p, "rename") THEN p \in unseen \/ file' # file ELSE mishaps' # mishaps}

Next == (Damage \/ \E p \in Programs : Program(p)) /\ Overlooks

Spec == Init /\ [][Next]_vars

-----------------------------------------------------------------------------

Contents == [form : {"none", "json", "torn", "mixed", "damaged"}, schema : Nat, value : Values]
Places == {"off", "idle", "check", "create", "write", "check again", "rename"}

\* Every variable has its type.
TypeOK ==
    /\ file \in Contents /\ tmp \in Contents /\ backups \subseteq Contents
    /\ app \in [Programs -> [at : Places, value : Values, open : {"no", "tmp", "file", "gone"}]]
    /\ crowded \in BOOLEAN /\ kept \in Values \cup {None} /\ left \in {"no", "unread", "unmoved"}
    /\ excused \subseteq Programs /\ unseen \subseteq Programs
    /\ mishaps \in 0..MaxMishaps

\* "Atomic save" (save): a save leaves a whole settings file under
\* settings.json, at every moment at which the program may die, unless two
\* programs share the temporary file.
FileIsWhole == file.form \in {"none", "json", "damaged"}
FileStaysWhole == [][FileIsWhole => FileIsWhole' \/ crowded]_vars

\* What the last successful save wrote is what the next start reads, whatever
\* was launched, refused, interrupted or failed since; and again after any
\* number of copies ran at once, from the first save of one that started alone.
SavedSurvives == kept # None => Parses /\ file.value = kept

\* What save's second look is for (save): a newer program's file that was
\* written while this one saved is not replaced.  It can only be replaced by a
\* program whose second look failed, or came before that file.
SeenNewerFileWins ==
    [][\A p \in Programs : Replace(p) /\ Newer(p) => p \in unseen \/ file' = file]_vars

\* What the comment of save claims: the file of a newer program is never
\* replaced by an older one's.
NewerWins == [][Parses => Exists(file') /\ (Parses' => file'.schema >= file.schema)]_vars

\* A file that exists and cannot be used "is not no file" (load): it is
\* replaced only by a program that ran when reading or moving it had failed.
\* Whoever starts later uses it or moves it aside first.
UnusedFileIsKept ==
    [][\A p \in Programs : Replace(p) /\ left # "no" => p \in excused \/ file' = file]_vars

\* What LoadStatus::Corrupt claims: no save replaces a file that a start could
\* not parse.
CorruptFileIsKept == [][\A p \in Programs : Replace(p) => left # "unmoved" \/ file' = file]_vars
=============================================================================
