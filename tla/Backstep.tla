------------------------------ MODULE Backstep ------------------------------
(***************************************************************************)
(* The debugger's backstep command (Core/debugger.c): it takes the rewind  *)
(* frame the machine is in, with the number of instructions executed since *)
(* it was pushed, loads the frame and runs the machine again up to one     *)
(* instruction less.                                                       *)
(*                                                                         *)
(* With constant inputs the machine is deterministic: its state is the     *)
(* number t of instructions executed since power-up.  The rewind buffer is *)
(* the bounded stack of RewindHistory, which the ring implements, with the *)
(* instruction count the ring keeps beside each state.                     *)
(***************************************************************************)
EXTENDS Integers, Sequences, SequencesExt, FiniteSetsExt

CONSTANTS
    LastInstruction,    \* bound on t
    VBlanks,            \* the instructions that end with a vertical blank
    FramesPerKey,       \* GB_REWIND_FRAMES_PER_KEY + 1, a key and its differences
    Length,             \* rewind_buffer_length
    MaxReplay           \* 0x20000 in the source

ASSUME BackstepAssumption ==
    /\ VBlanks \subseteq Nat /\ MaxReplay \in Nat
    /\ FramesPerKey \in Nat /\ Length \in Nat /\ Length > 0

VARIABLES
    t,          \* the machine's state
    frames,     \* the rewind buffer, oldest first
    place,      \* where GB_run is: "idle", "stopped" in debugger_run, or "cpu"
    replay,     \* backstep_instructions
    replaying,  \* backstep is running the machine
    origin      \* where the last backstep began, if it was carried out

backstepVars == <<t, frames, place, replay, replaying, origin>>

(* A state with its instruction_count; invalid is the count's bit 31, and  *)
(* the other bits of an invalid count, which nothing looks at, are kept 0. *)
Frame(state, count, invalid) == [state |-> state, count |-> count, invalid |-> invalid]

WithLast(f, frame) == Append(Front(f), frame)

(* GB_rewind_push, on the stack of RewindHistory. *)
PushFrame(f, state, count) ==
    Append(IF Len(f) = Length * FramesPerKey
           THEN SubSeq(f, FramesPerKey + 1, Len(f)) ELSE f,
           Frame(state, count, FALSE))

NoOrigin == [t |-> 0, in_frame |-> FALSE]

BackstepInit ==
    /\ t = 0 /\ frames = << >> /\ place = "idle"
    /\ replay = 0 /\ replaying = FALSE /\ origin = NoOrigin

-----------------------------------------------------------------------------
(* GB_debugger_run: the instruction is counted, a replay goes on, and      *)
(* otherwise the debugger may stop here.                                   *)
Counted(f) ==
    IF f = << >> \/ Last(f).invalid THEN f
    ELSE WithLast(f, Frame(Last(f).state, Last(f).count + 1, FALSE))

DebuggerRun ==
    /\ place = "idle"
    /\ frames' = Counted(frames)
    /\ IF replay > 0
       THEN replay' = replay - 1 /\ place' = "cpu"
       ELSE place' \in {"cpu", "stopped"} /\ UNCHANGED replay
    /\ UNCHANGED <<t, replaying, origin>>

(* GB_cpu_run and, at a vertical blank, the push.  A replay that is over   *)
(* returns to the debugger's prompt.                                       *)
CpuRun ==
    /\ place = "cpu" /\ t < LastInstruction
    /\ t' = t + 1
    /\ frames' = IF t + 1 \in VBlanks THEN PushFrame(frames, t + 1, 0) ELSE frames
    /\ place' = IF replaying /\ replay = 0 THEN "stopped" ELSE "idle"
    /\ replaying' = (replaying /\ replay > 0)
    /\ UNCHANGED <<replay, origin>>

(* step and continue. *)
Resume ==
    /\ place = "stopped"
    /\ place' = "cpu"
    /\ origin' = NoOrigin
    /\ UNCHANGED <<t, frames, replay, replaying>>

(* GB_rewind_invalidate_for_backstepping, and the loading of a state that  *)
(* was saved earlier: a save state's, or the undo command's.               *)
Invalidated(f) ==
    IF f = << >> THEN f ELSE WithLast(f, Frame(Last(f).state, 0, TRUE))

LoadStateSilent ==    \* mutant: the counts are not invalidated
    /\ place \in {"idle", "stopped"} /\ ~replaying
    /\ t' \in 0 .. t
    /\ origin' = NoOrigin
    /\ UNCHANGED <<frames, place, replay, replaying>>

LoadState ==
    /\ place \in {"idle", "stopped"} /\ ~replaying
    /\ t' \in 0 .. t
    /\ frames' = Invalidated(frames)
    /\ origin' = NoOrigin
    /\ UNCHANGED <<place, replay, replaying>>

-----------------------------------------------------------------------------
(* instruction_count - 2 is -1: this frame was just pushed. *)
JustPushed(frame) == frame.count = 1 /\ ~frame.invalid

(* The frames that are left when those just pushed have been popped. *)
Older(f) == SubSeq(f, 1, Max({i \in 1 .. Len(f) : ~JustPushed(f[i])} \union {0}))

(* What GB_rewind_pop has loaded by then. *)
Loaded(f) == IF Older(f) = f THEN t ELSE f[Len(Older(f)) + 1].state

(* A count of 0 wraps to a large number, as an invalid one is. *)
Available(frame) == ~frame.invalid /\ frame.count >= 2 /\ frame.count - 2 <= MaxReplay

ReplayLength(frame) == frame.count - 2

(* The end of the buffer: what was popped is pushed again. *)
EndOfBuffer ==
    /\ Older(frames) = << >>
    /\ frames' = IF frames = << >> THEN frames ELSE PushFrame(<< >>, Loaded(frames), 1)
    /\ t' = Loaded(frames)
    /\ origin' = NoOrigin
    /\ UNCHANGED <<place, replay, replaying>>

NotAvailable ==
    /\ Older(frames) # << >> /\ ~Available(Last(Older(frames)))
    /\ frames' = Older(frames)
    /\ t' = Loaded(frames)
    /\ origin' = NoOrigin
    /\ UNCHANGED <<place, replay, replaying>>

(* Pop, push with a count of 1, and GB_run until nothing is left to replay. *)
Replay ==
    LET frame == Last(Older(frames)) IN
    /\ Older(frames) # << >> /\ Available(frame)
    /\ t' = frame.state
    /\ frames' = PushFrame(Front(Older(frames)), frame.state, 1)
    /\ replay' = ReplayLength(frame)
    /\ replaying' = (replay' > 0)
    /\ place' = IF replaying' THEN "idle" ELSE "stopped"
    /\ origin' = [t |-> t, in_frame |-> Older(frames) = frames]

Backstep ==
    /\ place = "stopped"
    /\ EndOfBuffer \/ NotAvailable \/ Replay

BackstepNext ==
    \/ DebuggerRun \/ CpuRun \/ Resume \/ LoadState \/ Backstep

BackstepSpec == BackstepInit /\ [][BackstepNext]_backstepVars
-----------------------------------------------------------------------------
(* Instructions that are counted and not executed yet: one when GB_run has *)
(* entered the debugger or the CPU, and one for the GB_run that a replay   *)
(* runs inside of.                                                         *)
Pending == (IF place = "idle" THEN 0 ELSE 1) + (IF replaying THEN 1 ELSE 0)

(* The count of the current frame is the distance from its state to the    *)
(* machine's, the pending instructions included: through rewinding,        *)
(* replays, wraps of the buffer and loads, which must invalidate it.  Left *)
(* out is a frame too long to be replayed, for which it does not matter.   *)
CountIsDistance ==
    frames # << >> /\ ~Last(frames).invalid /\ Last(frames).count <= MaxReplay + 2 =>
        t + Pending = Last(frames).state + Last(frames).count

Landed == place = "stopped" /\ ~replaying /\ origin # NoOrigin

(* From within a frame, a backstep that is carried out lands exactly one   *)
(* instruction earlier.                                                    *)
BackstepInFrame == Landed /\ origin.in_frame => t = origin.t - 1

(* "Step one instruction backwards, assuming constant inputs", wherever    *)
(* the debugger has stopped.                                               *)
BackstepOneInstruction == Landed => t = origin.t - 1
=============================================================================
