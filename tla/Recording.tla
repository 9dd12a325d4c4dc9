----------------------------- MODULE Recording -----------------------------
(***************************************************************************)
(* The audio recording (Core/apu.c) as a frontend's menu starts and stops  *)
(* it (SDL/gui.c; Cocoa/Document.m likewise).  An empty header is written  *)
(* first; `render` appends each sample; the stop goes back and writes the  *)
(* header again, from the size that the file has got.                      *)
(*                                                                         *)
(* The disk has room for so many units, a header or a sample.  The C       *)
(* library holds back what is written, so that a write may succeed that    *)
(* the disk has no room for: the error comes with a later write, or with   *)
(* fseek and fclose, whose results nobody looks at.                        *)
(***************************************************************************)
EXTENDS Naturals

CONSTANTS
    Formats,      \* of "RAW", "AIFF", "WAV", and any others
    MaxRoom,      \* bounds the disk's room, and with it the samples
    Buffer        \* the units that the C library holds back

ASSUME RecordingAssumption == MaxRoom \in Nat /\ Buffer \in Nat

VARIABLES
    room,                        \* what is left on the disk
    output_file,                 \* NoFile, or [format, header, written, held]
    output_error, sample_rate,
    is_recording,                \* the frontend's
    rendered,                    \* history: the samples since the recording's start
    result                       \* history: what came of the last recording

recordingVars == <<room, output_file, output_error, sample_rate, is_recording, rendered, result>>

HasHeader(format) == format \in {"AIFF", "WAV"}
Unit(format) == IF HasHeader(format) THEN 1 ELSE 0

NoFile == [format |-> "none", header |-> 0, written |-> 0, held |-> 0]
NoResult == [error |-> "none", file |-> NoFile, due |-> 0, lost |-> FALSE]
Opened(format) == [NoFile EXCEPT !.format = format]
-----------------------------------------------------------------------------
(* The C library *)

\* What the disk takes of what is held back and `more`.
Taken(f, more) == IF room >= f.held + more THEN f.held + more ELSE room

Flushed(f, more) == [f EXCEPT !.held = 0, !.written = @ + Taken(f, more)]

\* fwrite of one unit.
Holds(f) == f.held < Buffer
Succeeds(f) == Holds(f) \/ room > f.held

Write(f) ==
    /\ room' = IF Holds(f) THEN room ELSE room - Taken(f, 1)
    /\ output_file' = CASE Holds(f) -> [f EXCEPT !.held = @ + 1]
                        [] ~Holds(f) /\ Succeeds(f) -> Flushed(f, 1)
                        [] OTHER -> NoFile
-----------------------------------------------------------------------------
\* fopen may fail, and so may the write of the header.
GB_start_audio_recording(format) ==
    \/ UNCHANGED <<room, output_file>>
    \/ /\ sample_rate > 0 /\ format \in {"RAW", "AIFF", "WAV"}
       /\ IF HasHeader(format)
          THEN Write(Opened(format))
          ELSE output_file' = Opened(format) /\ UNCHANGED room

\* The menu's item, and the one that ends the recording below.
Start(format) ==
    /\ ~is_recording
    /\ GB_start_audio_recording(format)
    /\ is_recording' = (output_file' # NoFile)
    /\ rendered' = 0 /\ result' = NoResult
    /\ UNCHANGED <<output_error, sample_rate>>

render ==
    /\ sample_rate > 0 /\ is_recording /\ rendered < MaxRoom + Buffer
    /\ rendered' = rendered + 1
    /\ IF output_file = NoFile
       THEN UNCHANGED <<room, output_file, output_error>>
       ELSE /\ Write(output_file)
            /\ output_error' = IF Succeeds(output_file) THEN output_error ELSE "ENOSPC"
    /\ UNCHANGED <<sample_rate, is_recording, result>>

(***************************************************************************)
(* GB_stop_audio_recording with a file.  Going back to the header flushes  *)
(* the samples; where that fails the header's write may fail or not.       *)
(***************************************************************************)
HeadedWhole(f) ==    \* mutant: the header counts itself
    IF HasHeader(f.format) THEN [Flushed(f, 0) EXCEPT !.header = f.written + f.held]
                           ELSE Flushed(f, 0)

Headed(f) ==
    IF HasHeader(f.format) THEN [Flushed(f, 0) EXCEPT !.header = f.written + f.held - 1]
                           ELSE Flushed(f, 0)

Finish(f) ==
    /\ room' = room - Taken(f, 0)
    /\ \E error \in IF HasHeader(f.format) /\ room < f.held THEN {"none", "ENOSPC"} ELSE {"none"} :
          result' = [error |-> error, file |-> Headed(f), due |-> rendered,
                     lost |-> room < f.held]

Stop ==
    /\ is_recording
    /\ is_recording' = FALSE
    /\ IF output_file # NoFile
       THEN Finish(output_file)
       ELSE /\ result' = [NoResult EXCEPT
                              !.error = IF output_error = "none" THEN "-1" ELSE output_error,
                              !.due = rendered]
            /\ UNCHANGED room
    /\ output_file' = NoFile /\ output_error' = "none"
    /\ rendered' = 0
    /\ UNCHANGED sample_rate

GB_set_sample_rate ==
    /\ sample_rate' \in {0, 1}
    /\ UNCHANGED <<room, output_file, output_error, is_recording, rendered, result>>

\* Another program makes room on the disk.
Cleanup ==
    /\ room' = MaxRoom
    /\ UNCHANGED <<output_file, output_error, sample_rate, is_recording, rendered, result>>
-----------------------------------------------------------------------------
RecordingInit ==
    /\ room \in 0 .. MaxRoom
    /\ output_file = NoFile /\ output_error = "none" /\ sample_rate = 1
    /\ is_recording = FALSE /\ rendered = 0 /\ result = NoResult

RecordingNext == \/ \E format \in Formats : Start(format)
        \/ render \/ Stop \/ GB_set_sample_rate \/ Cleanup

RecordingSpec == RecordingInit /\ [][RecordingNext]_recordingVars
-----------------------------------------------------------------------------
(***************************************************************************)
(* A recording that ends without an error holds every sample, and its      *)
(* header counts them; one that ends with an error did not fit, and the    *)
(* error is its own, not an earlier recording's.  Left out is what is lost *)
(* at the very end, which only fseek and fclose would tell.                *)
(***************************************************************************)
RecordingIsWhole ==
    LET f == result.file IN
        (result.due > 0 /\ ~result.lost) =>
            IF result.error = "none"
            THEN /\ f.written = result.due + Unit(f.format)
                 /\ HasHeader(f.format) => f.header = result.due
            ELSE f = NoFile
=============================================================================
