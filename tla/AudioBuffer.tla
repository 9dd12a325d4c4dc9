---------------------------- MODULE AudioBuffer ----------------------------
(***************************************************************************)
(* The buffer of samples between the emulation thread and the callback     *)
(* that CoreAudio runs in a thread of its own (Cocoa/Document.m): the      *)
(* emulation thread appends a sample at a time, the callback takes as many *)
(* as it is asked for, and waits, but not for longer than they last, when  *)
(* there are too few.  The main thread stops the emulation and mutes it.   *)
(***************************************************************************)
EXTENDS Naturals, SequencesExt

CONSTANTS
    FirstSize,    \* size of the buffer's first allocation, 512
    LastSize,     \* a full buffer of this size or more is thrown away, 0x4000
    Slack,        \* samples a callback may leave behind, 4800
    Frames,       \* how many samples a callback may ask for
    Samples       \* bound of the exploration: samples produced

ASSUME AudioAssumption ==
    /\ FirstSize \in Nat /\ FirstSize >= 4 /\ LastSize \in Nat
    /\ Slack \in Nat /\ Slack > 0 /\ Frames \subseteq Nat /\ Samples \in Nat

VARIABLES
    emulation,   \* the emulation thread: "run", "debugger", "post" or "off"
    stopping,    \* _stopping
    playing,     \* _audioClient.isPlaying
    buffer,      \* _audioBuffer up to _audioBufferPosition, each sample by its number
    size,        \* _audioBufferSize
    needed,      \* _audioBufferNeeded
    callback,    \* "idle", "waiting" or "woken"
    frames,      \* nFrames of the callback that waits
    produced,    \* number of the last sample
    output       \* what the last callback played: its samples, and whether they were taken

audioVars == <<emulation, stopping, playing, buffer, size, needed, callback, frames, produced,
               output>>

Silence == [samples |-> <<>>, taken |-> FALSE]

AudioInit ==
    /\ emulation = "off" /\ stopping = FALSE /\ playing = FALSE
    /\ buffer = <<>> /\ size = 0 /\ needed = 0
    /\ callback = "idle" /\ frames = 0
    /\ produced = 0 /\ output = Silence

Position == Len(buffer)

(* [_audioLock signal] *)
Signalled == IF callback = "waiting" THEN "woken" ELSE callback
-----------------------------------------------------------------------------
(* start and preRun; without a client that plays where the user has muted. *)
Start ==
    /\ emulation = "off"
    /\ emulation' = "run" /\ playing' \in BOOLEAN
    /\ UNCHANGED <<stopping, buffer, size, needed, callback, frames, produced, output>>

Mute ==
    /\ emulation \in {"run", "debugger"} /\ playing' = ~playing
    /\ UNCHANGED <<emulation, stopping, buffer, size, needed, callback, frames, produced, output>>

Debugger ==
    /\ \/ emulation = "run" /\ ~stopping /\ emulation' = "debugger"
       \/ emulation = "debugger" /\ emulation' = "run"
    /\ UNCHANGED <<stopping, playing, buffer, size, needed, callback, frames, produced, output>>

Grown(n) == IF n = 0 THEN FirstSize ELSE n + n \div 4

NeededMet(position) == position > needed    \* mutant: one sample too late

(* The callback is woken by the sample it still needed. *)
NeededReached(position) == position = needed

(* The buffer after another sample, while the client plays. *)
Appended ==
    IF ~playing THEN buffer
    ELSE IF Position = size /\ size >= LastSize THEN <<>>
    ELSE Append(buffer, produced + 1)

GotNewSample ==
    /\ emulation = "run" /\ produced < Samples
    /\ produced' = produced + 1
    /\ buffer' = Appended
    /\ size' = IF playing /\ Position = size /\ size < LastSize THEN Grown(size) ELSE size
    /\ IF ~(playing /\ Position = size /\ size >= LastSize) /\ NeededReached(Len(buffer'))
       THEN callback' = Signalled /\ needed' = 0
       ELSE UNCHANGED <<callback, needed>>
    /\ UNCHANGED <<emulation, stopping, playing, frames, output>>
-----------------------------------------------------------------------------
LateNever(n) == FALSE    \* mutant: nothing is ever given up

(* The sound is too far behind the emulation. *)
Late(n) == Position >= n + Slack

RestUnmoved(n) == buffer    \* mutant: the samples taken stay in the buffer

(* What a callback that takes n samples leaves behind. *)
Rest(n) == IF Late(n) THEN <<>> ELSE SubSeq(buffer, n + 1, Position)

(* The callback after its wait.  A buffer that is too short is played and  *)
(* kept; one that is far too long is given up but for its newest samples.  *)
Render(n) ==
    IF stopping \/ emulation = "debugger"
    THEN output' = Silence /\ UNCHANGED buffer
    ELSE IF Position < n
    THEN output' = [samples |-> buffer, taken |-> FALSE] /\ UNCHANGED buffer
    ELSE /\ output' = [samples |-> IF Late(n) THEN SubSeq(buffer, Position - n + 1, Position)
                                   ELSE SubSeq(buffer, 1, n),
                       taken |-> TRUE]
         /\ buffer' = Rest(n)

(* CoreAudio runs one callback at a time; it starts a little before        *)
(* isPlaying is set and may still run when it is cleared.                  *)
CallbackBegins(n) ==
    /\ callback = "idle" /\ emulation # "off"
    /\ IF Position < n
       THEN /\ callback' = "waiting" /\ frames' = n /\ needed' = n
            /\ UNCHANGED <<buffer, output>>
       ELSE Render(n) /\ UNCHANGED <<callback, frames, needed>>
    /\ UNCHANGED <<emulation, stopping, playing, size, produced>>

(* The wait ends with a signal or with its time. *)
CallbackEnds ==
    /\ callback \in {"waiting", "woken"}
    /\ needed' = 0 /\ callback' = "idle" /\ frames' = 0
    /\ Render(frames)
    /\ UNCHANGED <<emulation, stopping, playing, size, produced>>
-----------------------------------------------------------------------------
(* stop, which goes on signalling until the emulation thread has ended. *)
Stop ==
    /\ emulation \in {"run", "debugger"} \/ stopping
    /\ stopping' = TRUE /\ callback' = Signalled
    /\ UNCHANGED <<emulation, playing, buffer, size, needed, frames, produced, output>>

(* postRun, up to where it unlocks. *)
PostRun ==
    /\ emulation = "run" /\ stopping
    /\ emulation' = "post" /\ buffer' = <<>> /\ needed' = 0 /\ callback' = Signalled
    /\ UNCHANGED <<stopping, playing, size, frames, produced, output>>

(* The rest of postRun, and the end of run. *)
RunEnds ==
    /\ emulation = "post" /\ emulation' = "off" /\ playing' = FALSE /\ stopping' = FALSE
    /\ UNCHANGED <<buffer, size, needed, callback, frames, produced, output>>

AudioNext ==
    \/ Start \/ Mute \/ Debugger \/ GotNewSample
    \/ \E n \in Frames : CallbackBegins(n)
    \/ CallbackEnds
    \/ Stop \/ PostRun \/ RunEnds

AudioSpec == AudioInit /\ [][AudioNext]_audioVars
-----------------------------------------------------------------------------
(* The position stays inside the buffer. *)
AudioTypeOK ==
    /\ emulation \in {"run", "debugger", "post", "off"}
    /\ stopping \in BOOLEAN /\ playing \in BOOLEAN
    /\ buffer \in Seq(1 .. Samples) /\ size \in Nat /\ Position <= size
    /\ needed \in Frames \cup {0} /\ frames \in Frames \cup {0}
    /\ callback \in {"idle", "waiting", "woken"}
    /\ produced \in 0 .. Samples
    /\ output.samples \in Seq(1 .. Samples) /\ output.taken \in BOOLEAN

(* A callback that waits unsignalled really has too few samples, and the   *)
(* sample it needs is still to come: the wake-up cannot be missed, though  *)
(* it is only sent when the position is exactly the one needed.            *)
WakeUpAhead == callback = "waiting" => needed = frames /\ Position < needed

(* The samples are in the order they were made, and those taken are never  *)
(* played again: what is left is newer.  A buffer that is too short is     *)
(* played and kept (CallbackEnds); that it is played again is meant.       *)
NothingTwice ==
    /\ \A i \in 1 .. Position - 1 : buffer[i] < buffer[i + 1]
    /\ output.taken => \A s \in Range(output.samples), t \in Range(buffer) : s < t

(* However late the callbacks are, each one that finds enough leaves less  *)
(* than Slack behind: the sound cannot fall further and further back.      *)
LatencyBounded == [][output' # output /\ output'.taken => Len(buffer') < Slack]_audioVars

(* A callback that waits has not missed its wake-up, samples are taken     *)
(* once and in order, and what is left stays short.                        *)
PlaysInTime == [](WakeUpAhead /\ NothingTwice) /\ LatencyBounded
=============================================================================
