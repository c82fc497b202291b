------------------------------- MODULE Updater -------------------------------
(***************************************************************************)
(* The self-update (ptt-app/src/update.rs and shell/updater.rs): ask for a *)
(* newer release, download it with resumption, check it against its        *)
(* manifest, drop the new files beside the old ones, swap them by renames, *)
(* undo what can be undone, and sweep leftovers at the next launch.        *)
(*                                                                         *)
(* Every rename and every file written is a step of its own, before which  *)
(* the process may die or the call fail.  The only release is "new"; the   *)
(* server may replace its package by another build of the same size.       *)
(* Startup sweeps and checks for updates before a user can click install.  *)
(***************************************************************************)
EXTENDS Naturals, Sequences

CONSTANTS
    Program,       \* ptt-app.exe
    Plan,          \* swap_plan: the manifest's files, the locked ones first
    Locked,        \* LOCKED_FILES: held by the running program, renamed aside
    Builds,        \* the packages the server may offer under the release's tag
    Size,          \* pieces of a package, the asset_size
    MaxAttempts,   \* MAX_DOWNLOAD_ATTEMPTS
    Misaligned,    \* whether the server may answer with another range than asked
    MaxMishaps,    \* bound on failing calls and deaths
    None

Files == {Plan[i] : i \in 1..Len(Plan)}

ASSUME UpdateAssumption ==
    /\ Program \in Locked /\ Locked \subseteq Files
    /\ Plan \in Seq(Files)
    /\ \A i, j \in 1..Len(Plan) : Plan[i] = Plan[j] => i = j
    /\ \A i, j \in 1..Len(Plan) : Plan[i] \notin Locked /\ Plan[j] \in Locked => j < i
    /\ Size \in Nat \ {0} /\ MaxAttempts \in Nat \ {0} /\ MaxMishaps \in Nat
    /\ None \notin Builds /\ Misaligned \in BOOLEAN
    /\ None \notin {"old", "new", "torn", "unswept", "mismatch", "program restored", "program lost"}

VARIABLES
    disk,       \* file |-> what lies under its name, under .old and under .new-update
    part,       \* pending-update-<tag>.zip.part: the pieces received
    archive,    \* pending-update.zip: its pieces, or None
    server,     \* the build on the server now
    replaced,   \* history: it is not the first one
    app,        \* the running program
    mishaps

vars == <<disk, part, archive, server, replaced, app, mishaps>>
storage == <<part, archive>>
world == <<server, replaced>>

Off == [at |-> "off", version |-> None, sweeps |-> {}, next |-> 1, attempt |-> 0,
        dropped |-> {}, aside |-> {}, fault |-> None, whole |-> TRUE]

Init ==
    /\ disk = [f \in Files |-> [live |-> "old", old |-> None, new |-> None]]
    /\ part = <<>> /\ archive = None
    /\ server \in Builds /\ replaced = FALSE
    /\ app = Off
    /\ mishaps = 0

Mishap == mishaps < MaxMishaps /\ mishaps' = mishaps + 1
Becomes(at) == app' = [app EXCEPT !.at = at]

-----------------------------------------------------------------------------
(* Launch, sweep and death.                                                *)

\* What clean_leftovers looks at: the swap's two leftovers of every file.
Leftovers == Locked \X {"old"} \cup Files \X {"new"}

\* The program is whatever lies under its name.  The verified archive is no
\* longer of use; the part is kept, it may be resumed.
Launch ==
    /\ app.at = "off" /\ disk[Program].live # None
    /\ app' = [Off EXCEPT !.at = "idle", !.version = disk[Program].live, !.sweeps = Leftovers]
    /\ archive' = None
    /\ UNCHANGED <<disk, part, world, mishaps>>

\* One leftover: rubbish if the file is there; a .old whose file is missing
\* is moved back.
Swept_Blindly(entry, kind) == [entry EXCEPT ![kind] = None]
Swept_OnlyDeletes(entry, kind) == IF entry.live # None THEN [entry EXCEPT ![kind] = None] ELSE entry
Swept(entry, kind) ==
    IF entry.live # None THEN [entry EXCEPT ![kind] = None]
    ELSE IF kind = "old" THEN [entry EXCEPT !.live = entry.old, !.old = None]
    ELSE entry

Sweep(f, kind) ==
    /\ <<f, kind>> \in app.sweeps
    /\ app' = [app EXCEPT !.sweeps = @ \ {<<f, kind>>}]
    /\ disk' = [disk EXCEPT ![f] = Swept(@, kind)]
    /\ UNCHANGED <<storage, world, mishaps>>

SweepFails(f, kind) ==
    /\ <<f, kind>> \in app.sweeps /\ disk[f][kind] # None
    /\ Mishap
    /\ app' = [app EXCEPT !.sweeps = @ \ {<<f, kind>>}, !.fault = "unswept"]
    /\ UNCHANGED <<disk, storage, world>>

Quit == app.at \in {"current", "failed", "installed"} /\ app' = Off
        /\ UNCHANGED <<disk, storage, world, mishaps>>

Dies == app.at # "off" /\ Mishap /\ app' = Off /\ UNCHANGED <<disk, storage, world>>

-----------------------------------------------------------------------------
(* Asking.  A new check is refused while something is under way and after  *)
(* an installation.                                                        *)

Check ==
    /\ app.at \in {"idle", "current", "available", "failed"} /\ app.sweeps = {}
    /\ app' = [app EXCEPT !.at = "checking", !.fault = None]
    /\ UNCHANGED <<disk, storage, world, mishaps>>

Answered ==
    /\ app.at = "checking"
    /\ Becomes(IF app.version = "old" THEN "available" ELSE "current")
    /\ UNCHANGED <<disk, storage, world, mishaps>>

Fails(fault) == app' = [app EXCEPT !.at = "failed", !.fault = fault, !.dropped = {}, !.aside = {}]

CheckFails ==
    /\ app.at = "checking" /\ Mishap
    /\ Fails("unreachable")
    /\ UNCHANGED <<disk, storage, world>>

-----------------------------------------------------------------------------
(* stage: download, save, verify.                                          *)

\* History: the installation found every locked file at the running version.
Whole == \A f \in Locked : disk[f].live = app.version

Install ==
    /\ app.at = "available"
    /\ app' = [app EXCEPT !.at = "download", !.attempt = 1, !.whole = Whole]
    /\ UNCHANGED <<disk, storage, world, mishaps>>

\* resume_decision: the received part is continued only when the server says
\* 206 and starts exactly where the part ends.
Append206_AnyStatus(status, start) == start \in 0..Len(part)
Append206(status, start) == status = 206 /\ start = Len(part)

\* The answers to a request for the rest: the rest, the whole file, or a range
\* that starts elsewhere.
Answers ==
    {[status |-> 206, start |-> Len(part)], [status |-> 200, start |-> 0]}
    \cup {[status |-> 206, start |-> s] : s \in IF Misaligned THEN 1..(Size - 1) ELSE {}}

\* A body that begins after piece start of the build and has count pieces.
Body(start, count) == [i \in 1..count |-> <<server, start + i>>]

\* An attempt that leaves the part incomplete is followed by the next one.
AfterAttempt ==
    IF Len(part') >= Size THEN UNCHANGED app
    ELSE IF app.attempt < MaxAttempts THEN app' = [app EXCEPT !.attempt = @ + 1]
    ELSE Fails("unreachable")

\* One request.  What was received is dropped unless the answer continues it,
\* and the connection may end after any piece.
FetchRange ==
    /\ app.at = "download" /\ Len(part) < Size
    /\ \E answer \in Answers : \E count \in 0..(Size - answer.start) :
          part' = (IF Append206(answer.status, answer.start) THEN part ELSE <<>>)
                  \o Body(answer.start, count)
    /\ AfterAttempt
    /\ UNCHANGED <<disk, archive, world, mishaps>>

\* 416: the part is of no use, the next attempt asks for everything.
RefusedRange ==
    /\ app.at = "download" /\ Len(part) \in 1..(Size - 1)
    /\ Mishap
    /\ part' = <<>>
    /\ AfterAttempt
    /\ UNCHANGED <<disk, archive, world>>

\* 403, 404: not worth another attempt.
Rejected ==
    /\ app.at = "download" /\ Len(part) < Size
    /\ Mishap /\ Fails("rejected")
    /\ UNCHANGED <<disk, storage, world>>

Save ==
    /\ app.at = "download" /\ Len(part) >= Size
    /\ archive' = part /\ part' = <<>>
    /\ Becomes("verify")
    /\ UNCHANGED <<disk, world, mishaps>>

\* reconcile: every file of the package has the hash its manifest gives.
Intact(pieces) == \E b \in Builds : pieces = [i \in 1..Size |-> <<b, i>>]

Verify ==
    /\ app.at = "verify"
    /\ IF Intact(archive)
       THEN app' = [app EXCEPT !.at = "unpack", !.next = 1] /\ UNCHANGED archive
       ELSE archive' = None /\ Fails("mismatch")
    /\ UNCHANGED <<disk, part, world, mishaps>>

ReplaceOnServer ==
    /\ Mishap
    /\ \E b \in Builds \ {server} : server' = b
    /\ replaced' = TRUE
    /\ UNCHANGED <<disk, storage, app>>

-----------------------------------------------------------------------------
(* apply: all new files beside their destinations, then the renames.       *)

File == Plan[app.next]
LastFile == app.next = Len(Plan)

Discarded(entries, files) ==
    [f \in Files |-> IF f \in files THEN [entries[f] EXCEPT !.new = None] ELSE entries[f]]

\* A file is written beside its destination and its hash is taken again.
Unpack ==
    /\ app.at = "unpack"
    /\ disk' = [disk EXCEPT ![File].new = "new"]
    /\ app' = [app EXCEPT !.dropped = @ \cup {File},
                          !.at = IF LastFile THEN "swap" ELSE @,
                          !.next = IF LastFile THEN 1 ELSE @ + 1]
    /\ UNCHANGED <<storage, world, mishaps>>

\* Another hash than the manifest's: what was dropped is deleted.  A file that
\* cannot be written is not in the list yet: a torn one stays behind.
UnpackFails ==
    /\ app.at = "unpack" /\ Mishap
    /\ \/ disk' = Discarded(disk, app.dropped \cup {File})
       \/ disk' = [Discarded(disk, app.dropped) EXCEPT ![File].new = "torn"]
    /\ Fails("unpack")
    /\ UNCHANGED <<storage, world>>

DiesWriting ==
    /\ app.at = "unpack" /\ Mishap
    /\ disk' = [disk EXCEPT ![File].new = "torn"]
    /\ app' = Off
    /\ UNCHANGED <<storage, world>>

\* The first of the two renames of a locked file.
RenameAside ==
    /\ app.at = "swap" /\ File \in Locked /\ disk[File].live # None
    /\ disk' = [disk EXCEPT ![File].old = disk[File].live, ![File].live = None]
    /\ app' = [app EXCEPT !.at = "move in", !.aside = @ \cup {File}]
    /\ UNCHANGED <<storage, world, mishaps>>

\* The second one, and the only one of any other file.
MovesIn(f) ==
    \/ app.at = "move in"
    \/ app.at = "swap" /\ (f \in Locked => disk[f].live = None)

MoveIn ==
    /\ MovesIn(File)
    /\ disk' = [disk EXCEPT ![File].live = disk[File].new, ![File].new = None]
    /\ IF LastFile THEN app' = [app EXCEPT !.at = "installed", !.dropped = {}]
       ELSE app' = [app EXCEPT !.at = "swap", !.next = @ + 1]
    /\ UNCHANGED <<storage, world, mishaps>>

\* Any rename fails: undo.
SwapFails ==
    /\ app.at \in {"swap", "move in"} /\ Mishap
    /\ Becomes("undo")
    /\ UNCHANGED <<disk, storage, world>>

\* undo_aside: the last file moved aside comes back first.
UndoOrder == {f \in app.aside : \A i, j \in 1..Len(Plan) :
                  Plan[i] = f /\ Plan[j] \in app.aside => j <= i}

ClearForUndo ==
    /\ app.at = "undo"
    /\ \E f \in UndoOrder :
        /\ disk[f].live # None
        /\ disk' = [disk EXCEPT ![f].live = None]
    /\ UNCHANGED <<storage, app, world, mishaps>>

Restored_Copy(entry) == [entry EXCEPT !.live = entry.new]
Restored(entry) == [entry EXCEPT !.live = entry.old, !.old = None]

UndoAside ==
    /\ app.at = "undo"
    /\ \E f \in UndoOrder :
        /\ disk[f].live = None
        /\ disk' = [disk EXCEPT ![f] = Restored(@)]
        /\ app' = [app EXCEPT !.aside = @ \ {f}]
    /\ UNCHANGED <<storage, world, mishaps>>

\* Moving one back fails: it is reported, and the others are still tried.
UndoFails ==
    /\ app.at = "undo" /\ Mishap
    /\ \E f \in UndoOrder :
        /\ disk[f].live = None
        /\ app' = [app EXCEPT !.aside = @ \ {f}, !.fault = "program lost"]
    /\ UNCHANGED <<disk, storage, world>>

Undone ==
    /\ app.at = "undo" /\ app.aside = {}
    /\ disk' = Discarded(disk, app.dropped)
    /\ Fails(IF app.fault = None THEN "program restored" ELSE app.fault)
    /\ UNCHANGED <<storage, world, mishaps>>

-----------------------------------------------------------------------------

Startup == Launch \/ \E entry \in app.sweeps : Sweep(entry[1], entry[2]) \/ SweepFails(entry[1], entry[2])
Asking == Check \/ Answered \/ CheckFails
Staging == Install \/ FetchRange \/ RefusedRange \/ Rejected \/ Save \/ Verify
Applying ==
    \/ Unpack \/ UnpackFails \/ DiesWriting
    \/ RenameAside \/ MoveIn \/ SwapFails
    \/ ClearForUndo \/ UndoAside \/ UndoFails \/ Undone

Next == Startup \/ Quit \/ Dies \/ Asking \/ Staging \/ ReplaceOnServer \/ Applying

Spec == Init /\ [][Next]_vars

-----------------------------------------------------------------------------

Stages == {"off", "idle", "checking", "current", "available", "download", "verify", "unpack",
           "swap", "move in", "undo", "installed", "failed"}
Faults == {None, "unswept", "unreachable", "rejected", "mismatch", "unpack", "program restored", "program lost"}
Pieces == Builds \X (1..Size)
Entries == [live : {"old", "new", None}, old : {"old", "new", None}, new : {"new", "torn", None}]
AppStates ==
    [at : Stages, version : {"old", "new", None}, sweeps : SUBSET Leftovers, next : 1..Len(Plan),
     attempt : 0..MaxAttempts, dropped : SUBSET Files, aside : SUBSET Locked, fault : Faults,
     whole : BOOLEAN]

\* Every variable has its type; nothing but a complete file is ever installed
\* and no more is received than the package holds.
TypeOK ==
    /\ disk \in [Files -> Entries]
    /\ part \in Seq(Pieces) /\ Len(part) <= Size
    /\ archive \in Seq(Pieces) \cup {None}
    /\ server \in Builds /\ replaced \in BOOLEAN
    /\ app \in AppStates
    /\ mishaps \in 0..MaxMishaps

\* Whatever fails and wherever the process dies, a copy of every file that
\* worked or will work is under its name or aside: the sweep never deletes the
\* last one ("otherwise onnxruntime.dll would be gone for good", test
\* a_swap_cut_in_half_is_put_back_instead_of_swept_away).
LastCopyIsKept == \A f \in Files : disk[f].live # None \/ disk[f].old # None

\* A failed installation that says the program was restored has put every
\* locked file back to the running version, if it found them so.
RestoredMeansRestored ==
    app.at = "failed" /\ app.fault = "program restored" /\ app.whole => Whole

\* Once the startup sweep is over, with no call of it failing, every file is
\* back under its name.
SweepMakesWhole ==
    [][app.sweeps # {} /\ app'.sweeps = {} /\ app'.at # "off" /\ app'.fault = None
        => \A f \in Files : disk'[f].live # None]_vars

\* The hash check refuses a package only if the server replaced it between
\* two requests: resuming alone never splices a file wrongly.
ResumeIsExact == app.fault = "mismatch" => replaced

\* A program that has become the new one runs with the new files: once the
\* sweep is over nothing else in the install directory is of the old version
\* (the half-new directory is "the worst of all outcomes", update.rs).
NewProgramHasNewFiles ==
    app.at = "current" /\ app.sweeps = {} => \A f \in Files : disk[f].live = app.version
=============================================================================
