---------------------------- MODULE MonitorGate ----------------------------
(***************************************************************************)
(* The gate of the watch loop (MonitorGate in ptt-monitoring/src/lib.rs):  *)
(* which captured frames are worth recognizing, and which recognized books *)
(* are new.  A fingerprint is a hash of the tables region's text mask, a   *)
(* signature a hash of a book's pair and rows; both are identified here    *)
(* with what they are the hash of.                                         *)
(***************************************************************************)
CONSTANT None    \* no fingerprint, no signature

NewGate == [handled |-> None, pending |-> None, last |-> None]

\* What on_fingerprint answers.
GateStep(gate, fingerprint) ==
    IF gate.handled = fingerprint THEN "idle"
    ELSE IF gate.pending = fingerprint THEN "recognize"
    ELSE "await"

\* What on_fingerprint leaves behind: a frame must be seen twice running, so
\* a glimpse of anything else, the handled frame included, starts it over.
OnFingerprint_NeverSettles(gate, fingerprint) == [gate EXCEPT !.pending = None]
OnFingerprint(gate, fingerprint) ==
    [gate EXCEPT !.pending = IF gate.handled = fingerprint THEN None ELSE fingerprint]

\* mark_handled: whatever came of the frame, it is not recognized again.
MarkHandled(gate) ==
    IF gate.pending = None THEN gate
    ELSE [gate EXCEPT !.handled = gate.pending, !.pending = None]

\* should_emit, the answer and the effect.
ShouldEmit(gate, signature) == gate.last # signature
Emitted(gate, signature) == [gate EXCEPT !.last = signature]
=============================================================================
