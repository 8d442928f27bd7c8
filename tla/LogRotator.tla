----------------------------- MODULE LogRotator ------------------------------
(***************************************************************************)
(* The rotating log file: LogRotator::write_all and clear, the rotation on *)
(* disk, and the append-only mode it falls back to when the disk refuses.  *)
(*                                                                         *)
(* write_all runs under the rotator's mutex; its steps are actions because *)
(* each may fail and because clear_logs and the manager truncate the file  *)
(* without that mutex.  The bytes written are numbered 1, 2, ...; 0 is a   *)
(* byte of a hole.  disk[0] is the log file, disk[i] the backup `.i`.      *)
(***************************************************************************)
EXTENDS Integers, Sequences, SequencesExt

CONSTANTS
    MaxSize,        \* max_bytes; 0 turns rotation off
    Backups,        \* backups
    RecoverAfter,   \* writes in append-only mode before the next attempt (50)
    WriteSizes,     \* bound: lengths of the writes
    MaxWritten,     \* bound: bytes written
    MaxFaults,      \* bound: refused file operations
    MaxTruncs       \* bound: clears

VARIABLES
    disk,
    mode,           \* "Active" or "Fallback"
    handle,         \* the open file: [pos, append], or NoHandle
    current_size, writes_since_fallback,
    step,           \* where write_all stands: "idle", "loop", "rotate", "open", "fallback"
    data,           \* what it still has to write
    written,        \* number of bytes handed to write_all so far
    refused,        \* history: bytes for which it returned an error
    wiped,          \* history: bytes cleared
    clearing,       \* a clear_logs between its two truncations
    faults, truncs

fileVars  == <<disk, handle>>
innerVars == <<mode, current_size, writes_since_fallback>>
callVars  == <<step, data, written>>
histVars  == <<refused, wiped>>
vars == <<fileVars, innerVars, callVars, histVars, clearing, faults, truncs>>

Names    == 0 .. Backups
Absent   == <<-1>>
NoHandle == [pos |-> -1, append |-> FALSE]
Exists(n) == disk[n] # Absent
Content(n) == IF Exists(n) THEN disk[n] ELSE <<>>
AppendHandle == [pos |-> 0, append |-> TRUE]

Init ==
    /\ disk = [n \in Names |-> IF n = 0 THEN <<>> ELSE Absent]
    /\ mode = "Active" /\ handle = AppendHandle
    /\ current_size = 0 /\ writes_since_fallback = 0
    /\ step = "idle" /\ data = <<>> /\ written = 0
    /\ refused = {} /\ wiped = {} /\ clearing = FALSE
    /\ faults = 0 /\ truncs = 0

\* What a write through handle h makes of the file content c.
Written(c, h, d) ==
    IF h.append \/ h.pos = Len(c) THEN c \o d
    ELSE SubSeq(c, 1, IF h.pos < Len(c) THEN h.pos ELSE Len(c))
            \o [i \in 1 .. h.pos - Len(c) |-> 0] \o d

Moved(h, n) == IF h.append THEN h ELSE [h EXCEPT !.pos = @ + n]

\* A file operation is refused.
Fault == faults < MaxFaults /\ faults' = faults + 1

Fails(d) ==
    /\ Fault
    /\ step' = "fallback" /\ data' = d
    /\ UNCHANGED <<innerVars, written, histVars, clearing, truncs>>

\* A refused write may have written a part of the data.
FailsWriting(d) ==
    /\ Fails(data)
    /\ \E k \in 0 .. Len(d) - 1 :
          /\ disk' = [disk EXCEPT ![0] = IF k = 0 THEN @ ELSE Written(Content(0), handle, SubSeq(d, 1, k))]
          /\ handle' = Moved(handle, k)

-----------------------------------------------------------------------------
(* write_all.                                                              *)

\* The call begins; in append-only mode it may try to become Active again.
BeginWrite(n) ==
    LET tries == writes_since_fallback + 1
        bytes == [i \in 1 .. n |-> written + i]
    IN
    /\ step = "idle" /\ written + n <= MaxWritten
    /\ step' = "loop" /\ data' = bytes /\ written' = written + n
    /\ \/ /\ mode = "Active" \/ tries < RecoverAfter
          /\ writes_since_fallback' = IF mode = "Active" THEN 0 ELSE tries
          /\ UNCHANGED <<mode, current_size, fileVars, faults>>
       \/ /\ mode = "Fallback" /\ tries >= RecoverAfter
          /\ mode' = "Active" /\ handle' = AppendHandle
          /\ disk' = [disk EXCEPT ![0] = Content(0)]
          /\ current_size' = IF MaxSize > 0 THEN Len(Content(0)) ELSE 0
          /\ writes_since_fallback' = 0
          /\ UNCHANGED faults
       \/ /\ mode = "Fallback" /\ tries >= RecoverAfter /\ Fault
          /\ writes_since_fallback' = 0
          /\ UNCHANGED <<mode, current_size, fileVars>>
    /\ UNCHANGED <<histVars, clearing, truncs>>

\* The data, or the part that still fits, goes to the file.
WritesOut(d, next, rest) ==
    /\ disk' = [disk EXCEPT ![0] = Written(Content(0), handle, d)]
    /\ handle' = Moved(handle, Len(d))
    /\ current_size' = IF mode = "Active" THEN current_size + Len(d) ELSE current_size
    /\ step' = next /\ data' = rest
    /\ UNCHANGED <<mode, writes_since_fallback, written, histVars, clearing, faults, truncs>>

Overflows == mode = "Active" /\ MaxSize > 0 /\ current_size + Len(data) > MaxSize

\* Everything fits (or nothing is rotated): the last write of the call.
WriteRest ==
    /\ step = "loop" /\ ~Overflows /\ handle # NoHandle
    /\ WritesOut(data, "idle", <<>>) \/ FailsWriting(data)

\* The file is filled up to max_bytes before it is rotated.
FillUp ==
    LET left == MaxSize - current_size IN
    /\ step = "loop" /\ Overflows /\ left > 0 /\ handle # NoHandle
    /\ \/ WritesOut(SubSeq(data, 1, left), "rotate", SubSeq(data, left + 1, Len(data)))
       \/ FailsWriting(SubSeq(data, 1, left))

\* Nothing more fits.
Full ==
    /\ step = "loop" /\ Overflows /\ current_size >= MaxSize
    /\ step' = "rotate"
    /\ UNCHANGED <<fileVars, innerVars, data, written, histVars, clearing, faults, truncs>>

\* The early return "file handle missing": a write that finds no open file and
\* does not rotate first.
HandleMissing ==
    step = "loop" /\ handle = NoHandle /\ ~(Overflows /\ current_size >= MaxSize)

\* The backups shifted down to (and excluding) number k: what rotate_on_disk
\* leaves when the operation on `.k` is refused; Shifted(1) is all of them.
Shifted(k) ==
    [n \in Names |->
        IF n > k THEN disk[n - 1] ELSE IF n = k THEN Absent ELSE disk[n]]

\* Fault: the backups are shifted in ascending order.
RotateAscending ==
    /\ step = "rotate" /\ handle' = NoHandle
    /\ disk' = [n \in Names |-> IF n = 0 THEN Absent ELSE disk[0]]
    /\ step' = "open" /\ UNCHANGED <<data, faults>>
    /\ UNCHANGED <<innerVars, written, histVars, clearing, truncs>>

\* rotate_on_disk, with the handle closed: the oldest backup is removed, the
\* others move up by one, the file becomes `.1`.  Without backups it is removed.
RotateOnDisk ==
    /\ step = "rotate" /\ handle' = NoHandle
    /\ \/ /\ disk' = IF ~Exists(0) THEN disk
                     ELSE IF Backups = 0 THEN [disk EXCEPT ![0] = Absent]
                     ELSE [Shifted(1) EXCEPT ![1] = disk[0], ![0] = Absent]
          /\ step' = "open" /\ UNCHANGED <<data, faults>>
       \/ /\ Fault /\ Exists(0) /\ Backups > 0
          /\ \E k \in 1 .. Backups + 1 :
                disk' = IF k = Backups + 1 THEN disk ELSE Shifted(k)
          /\ step' = "fallback" /\ UNCHANGED data
    /\ UNCHANGED <<innerVars, written, histVars, clearing, truncs>>

\* The new file: created or truncated, and not opened for append.
OpenNew ==
    /\ step = "open"
    /\ \/ /\ disk' = [disk EXCEPT ![0] = <<>>]
          /\ handle' = [pos |-> 0, append |-> FALSE]
          /\ current_size' = 0 /\ step' = "loop"
          /\ UNCHANGED <<mode, writes_since_fallback, data, written, histVars,
                         clearing, faults, truncs>>
       \/ Fails(data) /\ UNCHANGED fileVars

\* write_fallback: the file is opened for append and takes all that is left,
\* or the call returns an error and leaves the rotator as it is.
WriteFallback ==
    /\ step = "fallback"
    /\ \/ /\ disk' = [disk EXCEPT ![0] = Content(0) \o data]
          /\ mode' = "Fallback" /\ handle' = AppendHandle
          /\ writes_since_fallback' = 0
          /\ UNCHANGED <<current_size, faults, refused>>
       \/ /\ Fault /\ refused' = refused \cup ToSet(data)
          /\ \/ UNCHANGED disk
             \/ \E k \in 0 .. Len(data) - 1 :
                   disk' = [disk EXCEPT ![0] = Content(0) \o SubSeq(data, 1, k)]
          /\ UNCHANGED <<handle, innerVars>>
    /\ step' = "idle" /\ data' = <<>>
    /\ UNCHANGED <<written, wiped, clearing, truncs>>

-----------------------------------------------------------------------------
(* Clearing.                                                               *)

Wipe == wiped' = wiped \cup ToSet(Content(0))

\* LogRotator::clear, under the mutex.  The file is truncated and opened anew: for
\* append only when that is refused, and not at all, with an error that clear_logs
\* ignores, when that is refused too; or it is not even truncated.
ClearLocked ==
    LET truncated == disk' = [disk EXCEPT ![0] = <<>>] /\ Wipe IN
    /\ step = "idle" /\ ~clearing /\ truncs < MaxTruncs
    /\ truncs' = truncs + 1 /\ clearing' = TRUE
    /\ \/ /\ truncated
          /\ mode' = "Active" /\ handle' = AppendHandle
          /\ current_size' = 0 /\ writes_since_fallback' = 0
          /\ UNCHANGED faults
       \/ /\ truncated /\ Fault
          /\ mode' = "Fallback" /\ handle' = AppendHandle
          /\ writes_since_fallback' = 0
          /\ UNCHANGED current_size
       \/ /\ truncated
          /\ faults + 2 <= MaxFaults /\ faults' = faults + 2
          /\ UNCHANGED <<handle, innerVars>>
       \/ Fault /\ UNCHANGED <<disk, wiped, handle, innerVars>>
    /\ UNCHANGED <<callVars, refused>>

\* Then clear_logs truncates the path once more, without the mutex.
ClearPath ==
    /\ clearing /\ clearing' = FALSE
    /\ IF Exists(0) THEN disk' = [disk EXCEPT ![0] = <<>>] /\ Wipe
                    ELSE UNCHANGED <<disk, wiped>>
    /\ UNCHANGED <<handle, innerVars, callVars, refused, faults, truncs>>

Next ==
    \/ \E n \in WriteSizes : BeginWrite(n)
    \/ WriteRest \/ FillUp \/ Full \/ RotateOnDisk \/ OpenNew \/ WriteFallback
    \/ ClearLocked \/ ClearPath

Spec == Init /\ [][Next]_vars

-----------------------------------------------------------------------------
(* Properties.                                                             *)

\* The bytes on disk, oldest file first.
Retained ==
    FoldLeft(LAMBDA acc, i : acc \o Content(Backups + 1 - i), <<>>,
             [i \in 1 .. Backups + 1 |-> i])

\* Rotation keeps the log whole (rotate_on_disk, write_fallback): whatever
\* operation the disk refused, the files read from the oldest backup to the log
\* hold the bytes in the order they were written, without a gap other than
\* bytes whose write returned an error or that were cleared; a byte may stand
\* twice only because its write was refused half way and repeated.
LogIsWhole ==
    LET r == SelectSeq(Retained, LAMBDA b : b > 0)
        excused(lo, hi) == \A b \in lo .. hi : b \in refused \cup wiped \/ b \in ToSet(data)
    IN /\ \A i \in 1 .. Len(r) - 1 : excused(r[i] + 1, r[i + 1] - 1)
       /\ r # <<>> => excused(Last(r) + 1, written)
       /\ faults = 0 => \A i \in 1 .. Len(r) - 1 : r[i] < r[i + 1]

\* The rotator never gets stuck (write_all's "file handle missing"): whatever
\* was refused in the calls before, a write that finds the file closed rotates
\* and opens a new one, so that the log goes on once the disk allows it.
NeverStuck == ~HandleMissing

\* A refused operation of the disk costs neither the order of the log nor the
\* bytes that were accepted nor the file the next write needs.
RotationSound == LogIsWhole /\ NeverStuck
=============================================================================
