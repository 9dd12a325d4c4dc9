--------------------------- MODULE FrontendProofs ---------------------------
(***************************************************************************)
(* Proofs about what runs the machine and what it keeps for the user: the  *)
(* pace, for any length of a frame; the audio recording, for a disk and a  *)
(* buffer of any size; the life of a machine, for any files and models;    *)
(* the two machines of the libretro core, for any options, contents and    *)
(* length of a frame; and a document's two threads, for any of the user's  *)
(* means and any bound on the input queue.                                 *)
(***************************************************************************)
EXTENDS LifeCycle, Libretro, Pace, Recording, EmulationThread, TLAPS

-----------------------------------------------------------------------------
(* The pace (module Pace) *)

PaceTyped ==
    /\ cycles_since_last_sync \in 0 .. MaxCycles /\ lag \in 0 .. MaxCycles + Forgiven
    /\ turbo \in BOOLEAN /\ turbo_dont_skip \in BOOLEAN
    /\ position \in 0 .. Frame
    /\ in_frame \subseteq [turbo : BOOLEAN, dont_skip : BOOLEAN]
    /\ excess \in Nat /\ deficit \in Nat

\* How far the machine is ahead of the time of day.
Ahead == cycles_since_last_sync - lag
Slack == Frame + Threshold - 1

(***************************************************************************)
(* The excess is either that of the present frame, of which nothing has    *)
(* been evened out yet, or it goes with the lead, which a synchronisation  *)
(* takes away again, and the lag that it left.  A frame begins before the  *)
(* vertical blank if the last synchronisation was too close to it.         *)
(***************************************************************************)
OfThisFrame ==
    /\ excess <= cycles_since_last_sync
    /\ excess <= position \/ cycles_since_last_sync < position + Threshold

GoesWithLead ==
    /\ excess - Ahead < Forgiven + Slack
    /\ Ahead < position + Threshold

ExcessInv == OfThisFrame \/ GoesWithLead

\* What was overslept is in the lag, so that the next sleep is shorter.  A lag
\* at its bound is forgiven.
DeficitInv ==
    \/ deficit = 0
    \/ deficit + Ahead <= Forgiven - 1
    \/ lag = MaxCycles + Forgiven /\ deficit <= lag + (Forgiven - 1)

TurboInv ==
    /\ turbo => excess = 0 /\ deficit = 0
    /\ in_frame # {} => turbo

PaceInv == PaceTyped /\ ExcessInv /\ DeficitInv /\ TurboInv

-----------------------------------------------------------------------------
(* A sixth of a frame is some time, and less than a frame. *)
LEMMA ThresholdBounds == Threshold \in Nat /\ Threshold >= 1 /\ Threshold < Frame
BY PaceAssumption DEF Threshold

(* The buckets stay natural numbers. *)
LEMMA MeasureTyped ==
    ASSUME PaceTyped, NEW run \in Nat, NEW took \in Nat, Measure(run, took)
    PROVE  excess' \in Nat /\ deficit' \in Nat
BY DEF PaceTyped, Measure, Positive

(* The invariant implies the property. *)
LEMMA PaceInvKeeps == PaceInv => KeepsPace
BY PaceAssumption, ThresholdBounds
   DEF PaceInv, PaceTyped, ExcessInv, OfThisFrame, GoesWithLead, DeficitInv, Ahead, Slack, KeepsPace

LEMMA PaceStarts == PaceInit => PaceInv
<1> SUFFICES ASSUME PaceInit PROVE PaceInv
  OBVIOUS
<1>1. PaceTyped
  <2>1. /\ 0 \in 0 .. MaxCycles /\ 0 \in 0 .. MaxCycles + Forgiven
        /\ 0 \in 0 .. Frame /\ 0 \in Nat
    BY PaceAssumption
  <2> QED  BY <2>1, Zenon DEF PaceInit, PaceTyped
<1>2. ExcessInv /\ DeficitInv /\ TurboInv
  BY ThresholdBounds DEF PaceInit, ExcessInv, OfThisFrame, DeficitInv, TurboInv
<1> QED  BY <1>1, <1>2 DEF PaceInv

(* Running takes the lead up with the excess. *)
LEMMA RunKeepsPace == ASSUME PaceInv, GB_run PROVE PaceInv'
<1> PICK n \in 1 .. MaxRun, took \in Stalls :
        /\ position + n <= Frame
        /\ position' = position + n
        /\ cycles_since_last_sync + n <= MaxCycles
        /\ cycles_since_last_sync' = cycles_since_last_sync + n
        /\ lag' = Least(lag + took, MaxCycles + Forgiven)
        /\ Measure(n, took)
  BY DEF GB_run
<1>0. UNCHANGED <<turbo, turbo_dont_skip, in_frame>>
  BY DEF GB_run
<1>1. n \in Nat /\ n > 0 /\ took \in Nat
  BY PaceAssumption
<1>2. lag' \in 0 .. MaxCycles + Forgiven /\ lag <= lag' /\ lag' <= lag + took
  BY <1>1, PaceAssumption DEF PaceInv, PaceTyped, Least
<1>3. PaceTyped'
  BY <1>0, <1>1, <1>2, MeasureTyped, PaceAssumption DEF PaceInv, PaceTyped
<1>5. CASE turbo
  <2>1. excess' = 0 /\ deficit' = 0
    BY <1>5 DEF Measure
  <2> QED  BY <1>0, <1>3, <2>1 DEF PaceInv, PaceTyped, ExcessInv, OfThisFrame, DeficitInv, TurboInv
<1>6. CASE ~turbo
  <2>1. excess' = 0 \/ excess' = excess + n - took
    BY <1>6, <1>1 DEF Measure, Positive
  <2>2. ExcessInv'
    <3>1. CASE excess' = 0
      BY <1>3, <3>1 DEF PaceTyped, ExcessInv, OfThisFrame
    <3>2. CASE excess' = excess + n - took /\ OfThisFrame
      BY <1>1, <1>3, <3>2, ThresholdBounds DEF PaceInv, PaceTyped, ExcessInv, OfThisFrame
    <3>3. CASE excess' = excess + n - took /\ GoesWithLead
      <4>1. GoesWithLead'
        BY <1>1, <1>2, <1>3, <3>3, ThresholdBounds, PaceAssumption
           DEF PaceInv, PaceTyped, GoesWithLead, Ahead, Slack
      <4> QED  BY <4>1 DEF ExcessInv
    <3> QED  BY <2>1, <3>1, <3>2, <3>3 DEF PaceInv, ExcessInv
  <2>3. DeficitInv'
    <3>1. deficit' = 0 \/ (deficit' = deficit + took - n /\ deficit' > 0 /\ took <= n)
      BY <1>1, <1>6, <1>3 DEF Measure, Positive, PaceInv, PaceTyped
    <3>2. CASE deficit' = 0
      BY <3>2 DEF DeficitInv
    <3>3. CASE deficit' = deficit + took - n /\ deficit' > 0 /\ took <= n
      <4>1. /\ deficit > 0
            /\ \/ deficit + Ahead <= Forgiven - 1
               \/ lag = MaxCycles + Forgiven /\ deficit <= lag + (Forgiven - 1)
        BY <1>1, <1>3, <3>3 DEF PaceInv, PaceTyped, DeficitInv
      <4>2. lag' = IF lag + took < MaxCycles + Forgiven THEN lag + took ELSE MaxCycles + Forgiven
        BY DEF Least
      <4> QED  BY <1>1, <1>2, <1>3, <3>3, <4>1, <4>2, PaceAssumption DEF Ahead, PaceInv, PaceTyped, DeficitInv
    <3> QED  BY <3>1, <3>2, <3>3
  <2> QED  BY <1>0, <1>3, <1>6, <2>2, <2>3 DEF PaceInv, TurboInv
<1> QED  BY <1>5, <1>6

(***************************************************************************)
(* A synchronisation, at any time of a frame or at its end: `at` is the    *)
(* position that it leaves.                                                *)
(***************************************************************************)
LEMMA SyncKeepsPace ==
    ASSUME PaceInv,
           NEW passed_since \in Nat, passed_since = lag \/ (turbo /\ passed_since = 0),
           GB_timing_sync(passed_since),
           position' \in 0 .. Frame, position' # 0 => position' = position,
           turbo => turbo' \/ in_frame = {} \/ in_frame' = {},
           ~turbo => UNCHANGED turbo,
           turbo' \in BOOLEAN, turbo_dont_skip' \in BOOLEAN,
           (in_frame' = in_frame /\ turbo' = turbo) \/ in_frame' = {}
    PROVE  PaceInv'
<1>1. passed_since \in 0 .. MaxCycles + Forgiven
  BY PaceAssumption DEF PaceInv, PaceTyped
<1>2. position' \in 0 .. Frame /\ in_frame' \subseteq [turbo : BOOLEAN, dont_skip : BOOLEAN]
  BY PaceAssumption DEF PaceInv, PaceTyped
<1>3. CASE turbo
  <2>1. excess' = 0 /\ deficit' = 0
    BY <1>3 DEF GB_timing_sync, TooEarly, NotInTurbo, Sleep, EvenOut, Forgive, PaceInv, TurboInv
  <2>2. cycles_since_last_sync' \in 0 .. MaxCycles /\ lag' \in 0 .. MaxCycles + Forgiven
    BY <1>1, <1>3, PaceAssumption
       DEF GB_timing_sync, TooEarly, NotInTurbo, Sleep, EvenOut, Forgive, PaceInv, PaceTyped
  <2>3. in_frame' # {} => turbo'
    BY <1>3
  <2> QED  BY <1>2, <2>1, <2>2, <2>3, PaceAssumption
           DEF PaceInv, PaceTyped, ExcessInv, OfThisFrame, DeficitInv, TurboInv
<1>4. CASE ~turbo
  <2> USE <1>4
  <2>0. passed_since = lag /\ turbo' = turbo /\ in_frame = {} /\ in_frame' = {}
    BY DEF PaceInv, TurboInv
  <2>1. CASE TooEarly(passed_since)
    <3>1. PaceTyped'
      BY <1>1, <1>2, <2>0, <2>1 DEF TooEarly, PaceInv, PaceTyped
    <3>2. ExcessInv'
      <4>1. CASE position' = 0
        BY <2>0, <2>1, <4>1, ThresholdBounds, PaceAssumption
           DEF TooEarly, PaceInv, PaceTyped, ExcessInv, OfThisFrame, GoesWithLead, Ahead, Slack
      <4>2. CASE position' = position
        BY <2>0, <2>1, <4>2, ThresholdBounds, PaceAssumption
           DEF TooEarly, PaceInv, PaceTyped, ExcessInv, OfThisFrame, GoesWithLead, Ahead, Slack
      <4> QED  BY <4>1, <4>2
    <3>3. DeficitInv'
      BY <2>0, <2>1 DEF TooEarly, PaceInv, DeficitInv, Ahead
    <3> QED  BY <2>0, <3>1, <3>2, <3>3 DEF PaceInv, TurboInv
  <2>2. CASE Sleep(passed_since)
    <3> PICK over \in 0 .. Oversleep :
          /\ lag' = passed_since + TimeToSleep(passed_since) + over - cycles_since_last_sync
          /\ Measure(0, TimeToSleep(passed_since) + over)
      BY <2>2 DEF Sleep
    <3>1. /\ over \in Nat /\ lag' = over /\ cycles_since_last_sync' = 0
          /\ TimeToSleep(passed_since) \in Nat /\ TimeToSleep(passed_since) = Ahead
          /\ Ahead > 0 /\ Ahead < Forgiven
      BY <1>1, <2>0, <2>2, PaceAssumption DEF Sleep, TimeToSleep, Ahead, PaceInv, PaceTyped
    <3>2. /\ excess' = Positive(excess - (Ahead + over))
          /\ deficit' = Positive(deficit + (Ahead + over))
      BY <3>1 DEF Measure, PaceInv, PaceTyped, Ahead
    <3>3. excess' \in Nat /\ deficit' \in Nat
      BY <3>1, <3>2, MeasureTyped DEF PaceInv
    <3>4. PaceTyped'
      BY <1>2, <2>0, <3>1, <3>3, PaceAssumption DEF PaceInv, PaceTyped
    <3>5. ExcessInv'
      <4>1. excess' = 0 \/ excess' = excess - (Ahead + over)
        BY <3>2 DEF Positive
      <4>2. CASE excess' = 0
        BY <3>4, <4>2, <3>1 DEF ExcessInv, OfThisFrame, PaceTyped
      <4>3. CASE excess' = excess - (Ahead + over)
        <5>1. excess' <= (Forgiven - 1) + Slack - over
          BY <3>1, <4>3, <2>0, ThresholdBounds, PaceAssumption
             DEF PaceInv, PaceTyped, ExcessInv, OfThisFrame, GoesWithLead, Ahead, Slack
        <5> QED  BY <3>1, <3>4, <5>1, ThresholdBounds, PaceAssumption
                 DEF ExcessInv, GoesWithLead, Ahead, Slack, PaceTyped
      <4> QED  BY <4>1, <4>2, <4>3
    <3>6. DeficitInv'
      <4>1. deficit' = deficit + Ahead + over \/ deficit' = 0
        BY <3>1, <3>2 DEF Positive, PaceInv, PaceTyped, Ahead
      <4>2. CASE deficit' = 0
        BY <4>2 DEF DeficitInv
      <4>3. CASE deficit' = deficit + Ahead + over
        BY <3>1, <4>3, <2>0, PaceAssumption DEF PaceInv, PaceTyped, DeficitInv, Ahead
      <4> QED  BY <4>1, <4>2, <4>3
    <3> QED  BY <2>0, <3>4, <3>5, <3>6 DEF PaceInv, TurboInv
  <2>3. CASE EvenOut(passed_since)
    <3>1. PaceTyped'
      BY <1>1, <1>2, <2>0, <2>3 DEF EvenOut, PaceInv, PaceTyped
    <3>2. GoesWithLead'
      <4>1. /\ Ahead < 0 /\ Ahead > -Forgiven
            /\ UNCHANGED <<cycles_since_last_sync, lag, excess>>
        BY <2>0, <2>3, PaceAssumption DEF EvenOut, TimeToSleep, Ahead, PaceInv, PaceTyped
      <4>2. excess - Ahead < Forgiven + Slack
        BY <4>1, ThresholdBounds, PaceAssumption
           DEF PaceInv, PaceTyped, ExcessInv, OfThisFrame, GoesWithLead, Ahead, Slack
      <4>3. CASE position' = 0
        BY <3>1, <4>1, <4>2, <4>3, ThresholdBounds, PaceAssumption
           DEF PaceInv, PaceTyped, GoesWithLead, Ahead, Slack
      <4>4. CASE position' = position
        BY <3>1, <4>1, <4>2, <4>4, ThresholdBounds, PaceAssumption
           DEF PaceInv, PaceTyped, GoesWithLead, Ahead, Slack
      <4> QED  BY <4>3, <4>4
    <3>3. DeficitInv'
      BY <2>0, <2>3 DEF EvenOut, PaceInv, DeficitInv, Ahead
    <3> QED  BY <2>0, <3>1, <3>2, <3>3 DEF PaceInv, TurboInv, ExcessInv
  <2>4. CASE Forgive(passed_since)
    <3>1. lag' = 0 /\ cycles_since_last_sync' = 0
      BY <2>4 DEF Forgive
    <3>2. CASE TimeToSleep(passed_since) # 0
      <4>1. excess' = 0 /\ deficit' = 0
        BY <2>4, <3>2 DEF Forgive, Anew
      <4> QED  BY <1>2, <2>0, <3>1, <4>1, PaceAssumption
               DEF PaceInv, PaceTyped, ExcessInv, OfThisFrame, DeficitInv, TurboInv
    <3>3. CASE TimeToSleep(passed_since) = 0
      <4>1. excess' = excess /\ deficit' = deficit /\ Ahead = 0
        BY <2>0, <2>4, <3>3 DEF Forgive, TimeToSleep, Ahead, PaceInv, PaceTyped
      <4>2. PaceTyped'
        BY <1>2, <2>0, <3>1, <4>1, PaceAssumption DEF PaceInv, PaceTyped
      <4>3. GoesWithLead'
        <5>1. excess < Forgiven + Slack
          BY <4>1, ThresholdBounds, PaceAssumption
             DEF PaceInv, PaceTyped, ExcessInv, OfThisFrame, GoesWithLead, Ahead, Slack
        <5>2. CASE position' = 0
          BY <3>1, <4>1, <5>1, <5>2, ThresholdBounds, PaceAssumption
             DEF PaceInv, PaceTyped, GoesWithLead, Ahead, Slack
        <5>3. CASE position' = position
          BY <3>1, <4>1, <5>1, <5>3, ThresholdBounds, PaceAssumption
             DEF PaceInv, PaceTyped, GoesWithLead, Ahead, Slack
        <5> QED  BY <5>2, <5>3
      <4>4. DeficitInv'
        BY <3>1, <4>1, <4>2, PaceAssumption DEF PaceInv, PaceTyped, DeficitInv, Ahead
      <4> QED  BY <2>0, <4>2, <4>3, <4>4 DEF PaceInv, TurboInv, ExcessInv
    <3> QED  BY <3>2, <3>3
  <2> QED  BY <2>1, <2>2, <2>3, <2>4 DEF GB_timing_sync, NotInTurbo
<1> QED  BY <1>3, <1>4 DEF PaceInv, PaceTyped

LEMMA PaceStepKeeps == ASSUME PaceInv, [PaceNext]_paceVars PROVE PaceInv'
<1>1. CASE GB_run
  BY <1>1, RunKeepsPace
<1>2. CASE ReadKeys
  <2>1. GB_timing_sync(lag) /\ lag \in Nat /\ UNCHANGED <<turbo, turbo_dont_skip, position, in_frame>>
    BY <1>2, PaceAssumption DEF ReadKeys, PaceInv, PaceTyped
  <2> QED  BY <2>1, SyncKeepsPace DEF PaceInv, PaceTyped
<1>3. CASE Vblank
  <2>1. /\ turbo' \in BOOLEAN /\ turbo_dont_skip' \in BOOLEAN
        /\ (in_frame' = in_frame /\ turbo' = turbo) \/ in_frame' = {}
    BY <1>3 DEF Vblank, PaceInv, PaceTyped
  <2>2. ~turbo => UNCHANGED turbo
    BY <1>3 DEF Vblank, PaceInv, TurboInv
  <2>3. CASE Skips
    <3>1. /\ excess' = 0 /\ deficit' = 0 /\ position' = 0
          /\ UNCHANGED <<cycles_since_last_sync, lag>>
      BY <1>3, <2>3 DEF Vblank, Skips, PaceInv, TurboInv
    <3>2. in_frame' # {} => turbo'
      BY <2>1, <2>3 DEF Skips
    <3>3. PaceTyped'
      BY <2>1, <3>1, PaceAssumption DEF PaceInv, PaceTyped
    <3> QED  BY <3>1, <3>2, <3>3 DEF PaceInv, PaceTyped, ExcessInv, OfThisFrame, DeficitInv, TurboInv
  <2>4. CASE ~Skips
    <3> DEFINE passed_since == IF turbo /\ ~turbo_dont_skip THEN 0 ELSE lag
    <3>1. passed_since \in Nat /\ (passed_since = lag \/ (turbo /\ passed_since = 0))
      BY PaceAssumption DEF PaceInv, PaceTyped
    <3>2. GB_timing_sync(passed_since) /\ position = Frame /\ position' = 0
      BY <1>3, <2>4 DEF Vblank
    <3>3. turbo => turbo' \/ in_frame = {} \/ in_frame' = {}
      BY <2>1
    <3> HIDE DEF passed_since
    <3>4. position' \in 0 .. Frame
      BY <3>2, PaceAssumption
    <3> QED  BY <2>1, <2>2, <3>1, <3>2, <3>3, <3>4, SyncKeepsPace
  <2> QED  BY <2>3, <2>4
<1>4. CASE GB_run_frame
  <2>1. /\ excess' = 0 /\ deficit' = 0 /\ cycles_since_last_sync' = 0
        /\ turbo' = TRUE /\ turbo_dont_skip' = TRUE
        /\ in_frame' = {[turbo |-> turbo, dont_skip |-> turbo_dont_skip]}
        /\ UNCHANGED <<lag, position>>
    BY <1>4 DEF GB_run_frame, Anew
  <2>2. PaceTyped'
    BY <2>1, PaceAssumption DEF PaceInv, PaceTyped
  <2> QED  BY <2>1, <2>2 DEF PaceInv, PaceTyped, ExcessInv, OfThisFrame, DeficitInv, TurboInv
<1>5. CASE GB_set_turbo_mode
  <2>1. /\ turbo' \in BOOLEAN /\ turbo_dont_skip' \in BOOLEAN /\ in_frame = {}
        /\ (turbo' => excess' = 0 /\ deficit' = 0)
        /\ (excess' = 0 /\ deficit' = 0) \/ UNCHANGED <<excess, deficit>>
        /\ UNCHANGED <<cycles_since_last_sync, lag, position, in_frame>>
    BY <1>5 DEF GB_set_turbo_mode, Anew, PaceInv, TurboInv, PaceTyped
  <2>2. PaceTyped'
    BY <2>1 DEF PaceInv, PaceTyped
  <2>3. ExcessInv' /\ DeficitInv'
    <3>1. CASE excess' = 0 /\ deficit' = 0
      BY <2>2, <3>1 DEF PaceTyped, ExcessInv, OfThisFrame, DeficitInv
    <3>2. CASE UNCHANGED <<excess, deficit>>
      BY <2>1, <3>2 DEF PaceInv, ExcessInv, OfThisFrame, GoesWithLead, DeficitInv, Ahead
    <3> QED  BY <2>1, <3>1, <3>2
  <2> QED  BY <2>1, <2>2, <2>3 DEF PaceInv, TurboInv
<1>6. CASE UNCHANGED paceVars
  BY <1>6 DEF paceVars, PaceInv, PaceTyped, ExcessInv, OfThisFrame, GoesWithLead, DeficitInv, TurboInv, Ahead, Slack
<1> QED  BY <1>1, <1>2, <1>3, <1>4, <1>5, <1>6 DEF PaceNext

(***************************************************************************)
(* For every length of a frame and every time that the host takes, the     *)
(* machine never runs further ahead of the time of day than two long       *)
(* frames and the lag that is left to even out, and what the host sleeps   *)
(* too long never adds up.                                                 *)
(***************************************************************************)
THEOREM PaceIsKept == PaceSpec => []KeepsPace
<1>1. PaceSpec => []PaceInv
  BY PaceStarts, PaceStepKeeps, PTL DEF PaceSpec
<1> QED  BY <1>1, PaceInvKeeps, PTL

-----------------------------------------------------------------------------
(* The audio recording (module Recording) *)

WholeFiles == [format : {"RAW", "AIFF", "WAV"}, header : {0}, written : Nat, held : Nat]

RecordingTyped ==
    /\ room \in Nat /\ rendered \in Nat /\ is_recording \in BOOLEAN
    /\ output_file \in {NoFile} \union WholeFiles
    /\ output_error \in {"none", "ENOSPC"}

(***************************************************************************)
(* The open file and what is held back for it have every sample; a file    *)
(* that was given up has left its error for the stop to find.              *)
(***************************************************************************)
NothingMissing ==
    output_file # NoFile =>
        output_file.written + output_file.held = rendered + Unit(output_file.format)

ErrorsKept ==
    /\ ~is_recording => output_file = NoFile
    /\ output_error # "none" => is_recording /\ output_file = NoFile
    /\ is_recording /\ output_file = NoFile => output_error # "none"

RecordingInv == RecordingTyped /\ NothingMissing /\ ErrorsKept /\ RecordingIsWhole

(* What a write leaves: one unit more, or no file. *)
LEMMA WriteAppends ==
    ASSUME room \in Nat, NEW f \in WholeFiles, Write(f)
    PROVE  /\ room' \in Nat
           /\ output_file' \in {NoFile} \union WholeFiles
           /\ ~Succeeds(f) => output_file' = NoFile
           /\ Succeeds(f) => /\ output_file' # NoFile
                             /\ output_file'.format = f.format
                             /\ output_file'.written + output_file'.held = f.written + f.held + 1
<1>1. Taken(f, 1) \in Nat /\ Taken(f, 1) <= room
      /\ (room > f.held => Taken(f, 1) = f.held + 1)
  BY DEF Taken, WholeFiles
<1>2. CASE Holds(f)
  BY <1>2 DEF Write, Succeeds, WholeFiles, NoFile
<1>3. CASE ~Holds(f) /\ Succeeds(f)
  <2>1. output_file' = [f EXCEPT !.held = 0, !.written = f.written + Taken(f, 1)]
    BY <1>3 DEF Write, Flushed
  <2>2. room' = room - Taken(f, 1) /\ Taken(f, 1) = f.held + 1
    BY <1>1, <1>3 DEF Write, Succeeds
  <2>3. /\ output_file' \in WholeFiles /\ output_file'.format = f.format
        /\ output_file'.held = 0 /\ output_file'.written = f.written + Taken(f, 1)
    <3>1. f.written \in Nat /\ f.header = 0 /\ f.format \in {"RAW", "AIFF", "WAV"}
      BY DEF WholeFiles
    <3>2. output_file' = [format |-> f.format, header |-> 0,
                          written |-> f.written + Taken(f, 1), held |-> 0]
      BY <2>1, <3>1 DEF WholeFiles
    <3>3. f.written + Taken(f, 1) \in Nat
      BY <1>1, <3>1
    <3> QED  BY <3>1, <3>2, <3>3 DEF WholeFiles
  <2>4. output_file' # NoFile /\ f.held \in Nat /\ f.written \in Nat
    BY <2>3 DEF WholeFiles, NoFile
  <2> QED  BY <1>1, <1>3, <2>2, <2>3, <2>4
<1>4. CASE ~Succeeds(f)
  BY <1>1, <1>4 DEF Write, Succeeds
<1> QED  BY <1>2, <1>3, <1>4

LEMMA RecordingStarts == RecordingInit => RecordingInv
<1> SUFFICES ASSUME RecordingInit PROVE RecordingInv
  OBVIOUS
<1>1. RecordingTyped
  <2>1. 0 \in Nat /\ \A n \in 0 .. MaxRoom : n \in Nat
    BY RecordingAssumption
  <2> QED  BY <2>1, Zenon DEF RecordingInit, RecordingTyped
<1>2. NothingMissing /\ ErrorsKept
  BY DEF RecordingInit, NothingMissing, ErrorsKept
<1>3. RecordingIsWhole
  BY DEF RecordingInit, RecordingIsWhole, NoResult
<1> QED  BY <1>1, <1>2, <1>3 DEF RecordingInv

LEMMA RecordingStepKeeps ==
    ASSUME RecordingInv, [RecordingNext]_recordingVars
    PROVE  RecordingInv'
<1>1. ASSUME NEW format \in Formats, Start(format) PROVE RecordingInv'
  <2>1. /\ output_file = NoFile /\ output_error' = "none" /\ rendered' = 0 /\ result' = NoResult
        /\ is_recording' = (output_file' # NoFile)
    BY <1>1 DEF Start, RecordingInv, ErrorsKept, RecordingTyped
  <2>2. RecordingIsWhole'
    BY <2>1 DEF RecordingIsWhole, NoResult
  <2>3. /\ room' \in Nat /\ output_file' \in {NoFile} \union WholeFiles
        /\ output_file' # NoFile =>
              output_file'.written + output_file'.held = Unit(output_file'.format)
    <3>1. CASE UNCHANGED <<room, output_file>>
      BY <2>1, <3>1 DEF RecordingInv, RecordingTyped
    <3>2. CASE format \in {"RAW", "AIFF", "WAV"} /\ HasHeader(format) /\ Write(Opened(format))
      <4>1. Opened(format) \in WholeFiles /\ Opened(format).written + Opened(format).held = 0
            /\ Opened(format).format = format
        BY <3>2 DEF Opened, NoFile, WholeFiles
      <4>2. room \in Nat
        BY DEF RecordingInv, RecordingTyped
      <4>3. Unit(format) = 1
        BY <3>2 DEF Unit
      <4> QED  BY <3>2, <4>1, <4>2, <4>3, WriteAppends
    <3>3. CASE /\ format \in {"RAW", "AIFF", "WAV"} /\ ~HasHeader(format)
               /\ output_file' = Opened(format) /\ UNCHANGED room
      BY <3>3 DEF Opened, NoFile, WholeFiles, Unit, RecordingInv, RecordingTyped
    <3> QED  BY <1>1, <3>1, <3>2, <3>3 DEF Start, GB_start_audio_recording
  <2>4. RecordingTyped'
    BY <2>1, <2>3 DEF RecordingTyped
  <2>5. NothingMissing'
    <3>1. Unit(output_file'.format) \in Nat
      BY DEF Unit
    <3> QED  BY <2>1, <2>3, <3>1 DEF NothingMissing, Unit
  <2> QED  BY <2>1, <2>2, <2>4, <2>5 DEF RecordingInv, ErrorsKept
<1>2. CASE render
  <2>1. /\ is_recording /\ UNCHANGED <<is_recording, result>> /\ rendered' = rendered + 1
        /\ rendered \in Nat /\ room \in Nat
    BY <1>2 DEF render, RecordingInv, RecordingTyped
  <2>2. RecordingIsWhole'
    BY <2>1 DEF RecordingInv, RecordingIsWhole
  <2>3. CASE output_file = NoFile
    BY <1>2, <2>1, <2>2, <2>3
       DEF render, RecordingInv, RecordingTyped, NothingMissing, ErrorsKept
  <2>4. CASE output_file # NoFile
    <3>1. output_file \in WholeFiles /\ Write(output_file)
          /\ output_error' = IF Succeeds(output_file) THEN output_error ELSE "ENOSPC"
      BY <1>2, <2>4 DEF render, RecordingInv, RecordingTyped
    <3>2. RecordingTyped'
      BY <2>1, <3>1, WriteAppends DEF RecordingInv, RecordingTyped
    <3>3. output_error = "none"
      BY <2>4 DEF RecordingInv, ErrorsKept
    <3>4. ErrorsKept'
      BY <2>1, <3>1, <3>3, WriteAppends DEF RecordingInv, ErrorsKept
    <3>5. NothingMissing'
      <4>1. CASE ~Succeeds(output_file)
        BY <2>1, <3>1, <4>1, WriteAppends DEF NothingMissing
      <4>2. CASE Succeeds(output_file)
        <5>1. output_file.written + output_file.held = rendered + Unit(output_file.format)
          BY <2>4 DEF RecordingInv, NothingMissing
        <5>2. /\ output_file'.format = output_file.format
              /\ output_file'.written + output_file'.held = output_file.written + output_file.held + 1
          BY <2>1, <3>1, <4>2, WriteAppends
        <5> QED  BY <2>1, <5>1, <5>2 DEF NothingMissing, Unit
      <4> QED  BY <4>1, <4>2
    <3> QED  BY <2>2, <3>2, <3>4, <3>5 DEF RecordingInv
  <2> QED  BY <2>3, <2>4
<1>3. CASE Stop
  <2>1. output_file' = NoFile /\ output_error' = "none" /\ rendered' = 0 /\ is_recording' = FALSE
    BY <1>3 DEF Stop
  <2>2. CASE output_file = NoFile
    <3>1. result'.error # "none" /\ result'.file = NoFile /\ room' = room
      BY <1>3, <2>2 DEF Stop, NoResult
    <3>2. RecordingIsWhole'
      BY <3>1 DEF RecordingIsWhole
    <3> QED  BY <2>1, <3>1, <3>2 DEF RecordingInv, RecordingTyped, NothingMissing, ErrorsKept
  <2>3. CASE output_file # NoFile
    <3>1. output_file \in WholeFiles /\ Finish(output_file) /\ room \in Nat /\ rendered \in Nat
      BY <1>3, <2>3 DEF Stop, RecordingInv, RecordingTyped
    <3>2. room' \in Nat
      BY <3>1 DEF Finish, Taken, WholeFiles
    <3>3. RecordingIsWhole'
      <4>1. /\ result'.file = Headed(output_file) /\ result'.due = rendered
            /\ result'.lost = (room < output_file.held)
            /\ room >= output_file.held => result'.error = "none"
        BY <3>1 DEF Finish, WholeFiles
      <4>2. CASE room < output_file.held
        BY <4>1, <4>2 DEF RecordingIsWhole
      <4>3. CASE room >= output_file.held
        <5>1. Taken(output_file, 0) = output_file.held
          BY <3>1, <4>3 DEF Taken, WholeFiles
        <5>2. output_file.written + output_file.held = rendered + Unit(output_file.format)
          BY <2>3 DEF RecordingInv, NothingMissing
        <5>3. /\ Headed(output_file).written = output_file.written + output_file.held
              /\ Headed(output_file).format = output_file.format
              /\ HasHeader(output_file.format) =>
                    Headed(output_file).header = output_file.written + output_file.held - 1
          BY <3>1, <5>1 DEF Headed, Flushed, WholeFiles
        <5>4. HasHeader(output_file.format) => Unit(output_file.format) = 1
          BY DEF Unit
        <5>5. result'.error = "none"
          BY <4>1, <4>3
        <5>6. result'.file.written = result'.due + Unit(result'.file.format)
          BY <4>1, <5>2, <5>3
        <5>7. HasHeader(result'.file.format) => result'.file.header = result'.due
          <6> SUFFICES ASSUME HasHeader(output_file.format) PROVE Headed(output_file).header = rendered
            BY <4>1, <5>3
          <6>1. output_file.written + output_file.held = rendered + 1
            BY <5>2, <5>4
          <6>2. Headed(output_file).header = output_file.written + output_file.held - 1
            BY <5>3
          <6>3. output_file.written \in Nat /\ output_file.held \in Nat
            BY <3>1 DEF WholeFiles
          <6> QED  BY <3>1, <6>1, <6>2, <6>3
        <5> QED  BY <5>5, <5>6, <5>7 DEF RecordingIsWhole
      <4> QED  BY <3>1, <4>2, <4>3 DEF WholeFiles
    <3> QED  BY <2>1, <3>2, <3>3 DEF RecordingInv, RecordingTyped, NothingMissing, ErrorsKept
  <2> QED  BY <2>2, <2>3
<1>4. CASE GB_set_sample_rate
  BY <1>4 DEF GB_set_sample_rate, RecordingInv, RecordingTyped, NothingMissing, ErrorsKept, RecordingIsWhole
<1>5. CASE Cleanup
  BY <1>5, RecordingAssumption
     DEF Cleanup, RecordingInv, RecordingTyped, NothingMissing, ErrorsKept, RecordingIsWhole
<1>6. CASE UNCHANGED recordingVars
  BY <1>6 DEF recordingVars, RecordingInv, RecordingTyped, NothingMissing, ErrorsKept, RecordingIsWhole
<1> QED  BY <1>1, <1>2, <1>3, <1>4, <1>5, <1>6 DEF RecordingNext

(***************************************************************************)
(* For every disk, whoever makes room on it, every buffer of the C library *)
(* and every order of starts, samples and stops: a recording that ended    *)
(* without an error has every sample and a header that counts them.        *)
(***************************************************************************)
THEOREM RecordingsAreWhole == RecordingSpec => []RecordingIsWhole
<1>1. RecordingSpec => []RecordingInv
  BY RecordingStarts, RecordingStepKeeps, PTL DEF RecordingSpec
<1> QED  BY <1>1, PTL DEF RecordingInv

-----------------------------------------------------------------------------
(* The life of a machine (module LifeCycle) *)

LifeTyped ==
    /\ model \in Models
    /\ rom_size \in Nat /\ mbc_ram_size \in Nat /\ mbc_ram.size \in Nat
    /\ DOMAIN mbc_ram = {"size", "of", "contents"}
    /\ DOMAIN since = {"reset", "played", "isx", "loaded", "overrun"}
    /\ DOMAIN memory = Regions

(***************************************************************************)
(* What is handed out is exactly what the model has, and so is what was    *)
(* allocated; of the cartridge's RAM only a bound is known, since a        *)
(* cartridge without RAM keeps the previous one's.                         *)
(***************************************************************************)
SizesFit ==
    /\ ram_size = RamFor(model) /\ ram_alloc = RamFor(model)
    /\ vram_size = VramFor(model) /\ vram_alloc = VramFor(model)
    /\ mbc_ram_size <= mbc_ram.size

SearchFits ==
    /\ Searching /\ ~since.loaded => cheat_search_data = <<ram_size, mbc_ram_size>>
    /\ since.overrun => since.loaded \/ mbc_ram_size = 0

ClockFits == unmultiplied_clock_rate = RateFor(model)

LifeInv ==
    /\ LifeTyped /\ SizesFit /\ SearchFits /\ ClockFits
    /\ ConsoleFits /\ BorderFits /\ ResetForgets

(* A search is spoilt by a game with memory of another size, and that is   *)
(* noted; nothing else changes the sizes while it lasts.                   *)
LEMMA SearchKeeps ==
    ASSUME LifeInv, ~since.overrun,
           UNCHANGED <<cheat_search_data, ram_size, mbc_ram_size>>,
           since'.loaded = since.loaded, since'.overrun = since.overrun
    PROVE  SearchFits'
BY DEF LifeInv, SearchFits, Searching

LEMMA SearchSpoils ==
    ASSUME LifeInv, ~since.overrun, UNCHANGED cheat_search_data,
           since'.loaded = Searching, since'.overrun = since.overrun
    PROVE  SearchFits'
BY DEF SearchFits, Searching

(* Every file fits some number of banks. *)
LEMMA RoundedIsNat == ASSUME NEW r \in Roms PROVE rounded_rom_size(r.banks) \in Nat
<1>1. r.banks \in 0 .. 512
  BY RomsAssumption DEF MaxBanks
<1>2. \E n \in BankCounts : n >= r.banks /\ \A k \in BankCounts : k >= r.banks => n <= k
  <2> DEFINE Fits(n) == n >= r.banks /\ \A k \in BankCounts : k >= r.banks => n <= k
  <2>1. CASE r.banks <= 2
    BY <1>1, <2>1 DEF BankCounts, MaxBanks
  <2>2. CASE r.banks \in 3 .. 4
    BY <2>2 DEF BankCounts, MaxBanks
  <2>3. CASE r.banks \in 5 .. 8
    BY <2>3 DEF BankCounts, MaxBanks
  <2>4. CASE r.banks \in 9 .. 16
    BY <2>4 DEF BankCounts, MaxBanks
  <2>5. CASE r.banks \in 17 .. 32
    BY <2>5 DEF BankCounts, MaxBanks
  <2>6. CASE r.banks \in 33 .. 64
    BY <2>6 DEF BankCounts, MaxBanks
  <2>7. CASE r.banks \in 65 .. 128
    BY <2>7 DEF BankCounts, MaxBanks
  <2>8. CASE r.banks \in 129 .. 256
    BY <2>8 DEF BankCounts, MaxBanks
  <2>9. CASE r.banks \in 257 .. 512
    BY <2>9 DEF BankCounts, MaxBanks
  <2> QED  BY <1>1, <2>1, <2>2, <2>3, <2>4, <2>5, <2>6, <2>7, <2>8, <2>9
<1>3. rounded_rom_size(r.banks) \in BankCounts
  BY <1>2 DEF rounded_rom_size
<1> QED  BY <1>3 DEF BankCounts, MaxBanks

(* The invariant implies the property; that a bank is within the size that *)
(* is handed out is a matter of the sizes alone.                           *)
LEMMA LifeInvFits == LifeInv => MachineFits
<1> SUFFICES ASSUME LifeInv PROVE MemoryFits
  BY DEF LifeInv, MachineFits, EverythingFits
<1> USE DEF LifeInv, LifeTyped, SizesFit
<1>1. \A size \in Nat : size > 0 => DirectBank(3, size) < size
  BY DEF DirectBank
<1>2. /\ GetDirectAccess("ROM", 3) = [size |-> rom_size, bank |-> DirectBank(3, rom_size)]
      /\ GetDirectAccess("RAM", 3).size = ram_size
      /\ GetDirectAccess("CART_RAM", 3) = [size |-> mbc_ram_size, bank |-> DirectBank(3, mbc_ram_size)]
      /\ GetDirectAccess("VRAM", 3) =
            [size |-> vram_size, bank |-> IF IsCgb(model) THEN 3 % 2 ELSE 0]
  BY DEF GetDirectAccess
<1>3. /\ Allocated("ROM") = rom_size /\ Allocated("RAM") = ram_alloc
      /\ Allocated("CART_RAM") = mbc_ram.size /\ Allocated("VRAM") = vram_alloc
  BY DEF Allocated
<1>4. \A access \in {"ROM", "RAM", "CART_RAM", "VRAM"} :
          GetDirectAccess(access, 3).size <= Allocated(access)
  BY <1>2, <1>3 DEF RamFor, VramFor
<1>5. \A access \in {"ROM", "CART_RAM", "VRAM"} :
          GetDirectAccess(access, 3).size > 0 =>
              GetDirectAccess(access, 3).bank < GetDirectAccess(access, 3).size
  BY <1>1, <1>2 DEF VramFor
<1>6. SearchFits
  BY DEF LifeInv
<1> QED  BY <1>4, <1>5, <1>6 DEF MemoryFits, SearchFits

(* GB_init makes a machine that fits its model. *)
LEMMA LifeStarts == LifeInit => LifeInv
<1> SUFFICES ASSUME LifeInit PROVE LifeInv
  OBVIOUS
<1>1. LifeTyped /\ SizesFit /\ ClockFits
  BY ModelsAssumption DEF LifeInit, LifeTyped, SizesFit, ClockFits, ResetMemory
<1>2. ConsoleFits /\ BorderFits
  BY DEF LifeInit, ConsoleFits, BorderFits
<1>3. ResetForgets
  BY DEF LifeInit, ResetForgets, ResetMemory, Regions,
         FreshRam, FreshOam, FreshWave, FreshPalettes, FreshObp
<1>4. SearchFits
  BY DEF LifeInit, SearchFits, Searching
<1> QED  BY <1>1, <1>2, <1>3, <1>4 DEF LifeInv

(* What a reset for a model makes of the memory, and of the rest. *)
LEMMA FreshMemory ==
    ASSUME NEW m
    PROVE  DOMAIN ResetMemory(m) = Regions /\ \A r \in Regions : ResetMemory(m)[r] # "game"
BY DEF ResetMemory, Regions, FreshRam, FreshOam, FreshWave, FreshPalettes, FreshObp

LEMMA ResetFits ==
    ASSUME LifeInv, NEW m \in Models, ResetInternal(m), model' = m,
           ram_alloc' = RamFor(m), vram_alloc' = VramFor(m),
           UNCHANGED <<boot_rom_load_callback, clock_multiplier>>
    PROVE  ClockFits' /\ ConsoleFits'
           /\ ram_size' = RamFor(model') /\ vram_size' = VramFor(model')
BY DEF ResetInternal, UpdateClockRate, ClockFits, ConsoleFits

LEMMA WipedFits ==
    ASSUME LifeInv, mbc_ram' = WipedCartRam, UNCHANGED <<mbc_ram_size, cartridge_type>>
    PROVE  /\ mbc_ram'.size = mbc_ram.size /\ DOMAIN mbc_ram' = DOMAIN mbc_ram
           /\ mbc_ram_size' > 0 /\ mbc_ram'.contents = "game" => HasBattery(cartridge_type')
BY DEF WipedCartRam, LifeInv, LifeTyped

LEMMA ResetKeepsLife ==
    ASSUME LifeInv, ~since.overrun, Reset \/ QuickReset \/ SwitchModelAndReset PROVE LifeInv'
<1> USE DEF LifeInv, LifeTyped, SizesFit
<1>1. CASE Reset
  <2>1. /\ ResetInternal(model) /\ memory' = ResetMemory(model) /\ mbc_ram' = WipedCartRam
        /\ UNCHANGED <<rom, rom_size, cartridge_type, mbc_ram_size, model, ram_alloc, vram_alloc>>
        /\ UNCHANGED <<boot_rom_load_callback, clock_multiplier, has_sgb_border, borrowed_border,
                       cheat_search_data>>
        /\ since' = [since EXCEPT !.reset = "full", !.played = FALSE]
    BY <1>1 DEF Reset, FullReset, border, settings
  <2>2. ClockFits' /\ ConsoleFits' /\ ram_size' = RamFor(model') /\ vram_size' = VramFor(model')
    BY <2>1, ResetFits
  <2>3. LifeTyped' /\ SizesFit'
    BY <2>1, <2>2, WipedFits, FreshMemory
  <2>4. BorderFits'
    BY <2>1 DEF BorderFits
  <2>5. ResetForgets'
    BY <2>1, WipedFits, FreshMemory DEF ResetForgets
  <2>6. since'.loaded = since.loaded /\ since'.overrun = since.overrun /\ ram_size' = ram_size
    BY <2>1, <2>2
  <2>7. SearchFits'
    BY <2>1, <2>6, SearchKeeps
  <2> QED  BY <2>2, <2>3, <2>4, <2>5, <2>7
<1>2. CASE QuickReset
  <2>1. /\ ResetInternal(model) /\ memory' = QuickMemory
        /\ UNCHANGED <<mbc_ram, rom, rom_size, cartridge_type, mbc_ram_size, model, ram_alloc, vram_alloc>>
        /\ UNCHANGED <<boot_rom_load_callback, clock_multiplier, has_sgb_border, borrowed_border,
                       cheat_search_data>>
        /\ since' = [since EXCEPT !.reset = "quick", !.played = FALSE]
    BY <1>2 DEF QuickReset, border, settings, cart
  <2>2. ClockFits' /\ ConsoleFits' /\ ram_size' = RamFor(model') /\ vram_size' = VramFor(model')
    BY <2>1, ResetFits
  <2>3. LifeTyped' /\ SizesFit'
    BY <2>1, <2>2 DEF QuickMemory
  <2>4. BorderFits'
    BY <2>1 DEF BorderFits
  <2>5. ResetForgets'
    BY <2>1 DEF ResetForgets, QuickMemory
  <2>6. since'.loaded = since.loaded /\ since'.overrun = since.overrun /\ ram_size' = ram_size
    BY <2>1, <2>2
  <2>7. SearchFits'
    BY <2>1, <2>6, SearchKeeps
  <2> QED  BY <2>2, <2>3, <2>4, <2>5, <2>7
<1>3. CASE SwitchModelAndReset
  <2>1. PICK m \in SomeModels :
        /\ ResetInternal(m) /\ memory' = ResetMemory(m) /\ mbc_ram' = WipedCartRam
        /\ model' = m /\ ram_alloc' = RamFor(m) /\ vram_alloc' = VramFor(m)
        /\ UNCHANGED <<rom, rom_size, cartridge_type, mbc_ram_size>>
        /\ UNCHANGED <<boot_rom_load_callback, clock_multiplier, has_sgb_border>>
        /\ cheat_search_data' = <<>>
        /\ borrowed_border' = DefaultBorder(m, has_sgb_border, borrowed_border)
        /\ since' = [since EXCEPT !.reset = "full", !.played = FALSE, !.loaded = FALSE]
    BY <1>3 DEF SwitchModelAndReset, FullReset, settings
  <2>2. m \in Models
    BY ModelsAssumption
  <2>3. ClockFits' /\ ConsoleFits' /\ ram_size' = RamFor(model') /\ vram_size' = VramFor(model')
    BY <2>1, <2>2, ResetFits
  <2>4. LifeTyped' /\ SizesFit'
    BY <2>1, <2>2, <2>3, WipedFits, FreshMemory
  <2>5. BorderFits'
    BY <2>1 DEF BorderFits, DefaultBorder
  <2>6. ResetForgets'
    BY <2>1, WipedFits, FreshMemory DEF ResetForgets
  <2>7. since'.overrun = since.overrun
    BY <2>1
  <2>8. SearchFits'
    BY <2>1, <2>7 DEF SearchFits, Searching
  <2> QED  BY <2>3, <2>4, <2>5, <2>6, <2>8
<1> QED  BY <1>1, <1>2, <1>3

LEMMA LoadKeepsLife ==
    ASSUME LifeInv, ~since.overrun,
           NEW r \in Roms, LoadRom(r) \/ LoadIsx(r) \/ LoadGbs(r)
    PROVE  LifeInv'
<1> USE DEF LifeInv, LifeTyped, SizesFit
<1>0. r.ram \in Nat
  BY RomsAssumption
<1>1. ASSUME ConfigureCart(r)
      PROVE  /\ mbc_ram_size' \in Nat /\ mbc_ram'.size \in Nat /\ mbc_ram_size' <= mbc_ram'.size
             /\ DOMAIN mbc_ram' = {"size", "of", "contents"}
  <2>1. mbc_ram_size' = r.ram /\ mbc_ram' = ConfiguredRam(r)
    BY <1>1 DEF ConfigureCart
  <2>2. CASE r.ram = 0
    BY <2>1, <2>2 DEF ConfiguredRam
  <2>3. CASE r.ram > 0 /\ mbc_ram.size # 0 /\ mbc_ram_size = r.ram
    BY <2>1, <2>3 DEF ConfiguredRam
  <2>4. CASE r.ram > 0 /\ ~(mbc_ram.size # 0 /\ mbc_ram_size = r.ram)
    BY <1>0, <2>1, <2>4 DEF ConfiguredRam
  <2> QED  BY <1>0, <2>2, <2>3, <2>4
<1>2. CASE LoadRom(r)
  <2>1. /\ ConfigureCart(r) /\ rom_size' \in Nat
        /\ UNCHANGED <<machine, settings, cheat_search_data>>
        /\ has_sgb_border' = FALSE /\ borrowed_border' = BorderFor(model)
        /\ since' = [since EXCEPT !.isx = FALSE, !.played = TRUE, !.loaded = Searching]
    BY <1>2, RoundedIsNat DEF LoadRom, NewBorder, DefaultBorder
  <2>2. since'.loaded = Searching /\ since'.overrun = since.overrun
    BY <2>1
  <2>3. SearchFits'
    BY <2>1, <2>2, SearchSpoils
  <2> QED  BY <1>1, <2>1, <2>3 DEF machine, settings, ClockFits, ConsoleFits, BorderFits, ResetForgets
<1>3. CASE LoadIsx(r)
  <2>1. /\ ConfigureCart(r) /\ rom_size' \in Nat
        /\ UNCHANGED <<machine, border, settings, cheat_search_data>>
        /\ since' = [since EXCEPT !.isx = TRUE, !.played = TRUE, !.loaded = Searching]
    BY <1>3, RoundedIsNat DEF LoadIsx
  <2>2. since'.loaded = Searching /\ since'.overrun = since.overrun
    BY <2>1
  <2>3. SearchFits'
    BY <2>1, <2>2, SearchSpoils
  <2> QED  BY <1>1, <2>1, <2>3 DEF machine, border, settings, ClockFits, ConsoleFits, BorderFits, ResetForgets
<1>4. CASE LoadGbs(r)
  <2>1. /\ ResetInternal(model) /\ rom_size' \in Nat /\ mbc_ram_size' = 0
        /\ mbc_ram' = [size |-> 0, of |-> "none", contents |-> "ones"]
        /\ memory' = [ResetMemory(model) EXCEPT !["ram"] = "zero", !["hram"] = "zero", !["oam"] = "zero"]
        /\ has_sgb_border' = FALSE /\ borrowed_border' = BorderFor(model)
        /\ since' = [since EXCEPT !.reset = "gbs", !.played = FALSE, !.isx = FALSE,
                                  !.loaded = Searching]
        /\ UNCHANGED <<model, ram_alloc, vram_alloc, cheat_search_data>>
        /\ UNCHANGED <<boot_rom_load_callback, clock_multiplier>>
    BY <1>4, RoundedIsNat DEF LoadGbs, GbsSwitchTrack, NewBorder, DefaultBorder, settings
  <2>2. ClockFits' /\ ConsoleFits' /\ ram_size' = RamFor(model') /\ vram_size' = VramFor(model')
    BY <2>1, ResetFits
  <2>3. /\ DOMAIN memory' = Regions
        /\ \A region \in Regions : memory'[region] # "game"
        /\ memory'["ram"] = "zero" /\ memory'["hram"] = "zero" /\ memory'["oam"] = "zero"
    BY <2>1, FreshMemory DEF Regions
  <2>4. LifeTyped' /\ SizesFit'
    BY <2>1, <2>2, <2>3
  <2>5. BorderFits'
    BY <2>1 DEF BorderFits
  <2>6. ResetForgets'
    <3>1. since'.reset = "gbs" /\ since'.reset # "full"
      BY <2>1
    <3>2. \A region \in {"ram", "hram", "oam"} : memory'[region] = "zero"
      BY <2>3
    <3> QED  BY <2>3, <3>1, <3>2, Zenon DEF ResetForgets
  <2>7. since'.loaded = Searching /\ since'.overrun = since.overrun
    BY <2>1
  <2>8. SearchFits'
    BY <2>1, <2>7, SearchSpoils
  <2> QED  BY <2>2, <2>4, <2>5, <2>6, <2>8
<1> QED  BY <1>2, <1>3, <1>4

LEMMA LifeStepKeeps == ASSUME LifeInv, [LifeNext]_lifeVars PROVE LifeInv'
<1> USE DEF LifeInv, LifeTyped, SizesFit
<1>10. CASE UNCHANGED lifeVars
  BY <1>10 DEF lifeVars, machine, cart, border, settings, ClockFits, ConsoleFits, BorderFits,
               ResetForgets, SearchFits, Searching
<1> SUFFICES ASSUME LifeNext PROVE LifeInv'
  BY <1>10
<1>0. ~since.overrun
  BY DEF LifeNext
<1>1. CASE Reset \/ QuickReset \/ SwitchModelAndReset
  BY <1>0, <1>1, ResetKeepsLife
<1>2. CASE \E r \in Roms : LoadRom(r) \/ LoadIsx(r) \/ LoadGbs(r)
  BY <1>0, <1>2, LoadKeepsLife
<1>3. CASE \E read \in BOOLEAN : LoadBrokenIsx(read)
  <2>1. /\ rom_size' \in {0, rom_size}
        /\ UNCHANGED <<machine, settings, cheat_search_data, cartridge_type, mbc_ram, mbc_ram_size>>
        /\ has_sgb_border' = FALSE /\ borrowed_border' = BorderFor(model)
        /\ since' = [since EXCEPT !.isx = FALSE, !.played = TRUE]
    BY <1>3 DEF LoadBrokenIsx, NewBorder, DefaultBorder
  <2>2. SearchFits'
    BY <1>0, <2>1, SearchKeeps DEF machine
  <2> QED  BY <2>1, <2>2 DEF machine, settings, ClockFits, ConsoleFits, BorderFits, ResetForgets
<1>4. CASE Play
  <2>1. /\ DOMAIN memory' = Regions /\ since' = [since EXCEPT !.played = TRUE]
        /\ mbc_ram'.size = mbc_ram.size /\ DOMAIN mbc_ram' = DOMAIN mbc_ram
        /\ UNCHANGED <<model, ram_alloc, vram_alloc, ram_size, vram_size, sgb, boot_rom, clock_rate,
                       unmultiplied_clock_rate, rom, rom_size, mbc_ram_size, border, settings,
                       cheat_search_data>>
    BY <1>4 DEF Play
  <2>2. SearchFits'
    BY <1>0, <2>1, SearchKeeps
  <2> QED  BY <2>1, <2>2 DEF border, settings, ClockFits, ConsoleFits, BorderFits, ResetForgets
<1>5. CASE BorrowSgbBorder
  <2>1. SearchFits'
    BY <1>0, <1>5, SearchKeeps DEF BorrowSgbBorder, machine, cart
  <2> QED  BY <1>5, <2>1 DEF BorrowSgbBorder, machine, cart, settings,
                             ClockFits, ConsoleFits, BorderFits, ResetForgets
<1>6. CASE SetBorderMode
  <2>1. SearchFits'
    BY <1>0, <1>6, SearchKeeps DEF SetBorderMode, machine, cart
  <2> QED  BY <1>6, <2>1 DEF SetBorderMode, machine, cart, border,
                             ClockFits, ConsoleFits, BorderFits, ResetForgets
<1>7. CASE SetClockMultiplier
  <2>1. SearchFits'
    BY <1>0, <1>7, SearchKeeps DEF SetClockMultiplier, cart
  <2> QED  BY <1>7, <2>1 DEF SetClockMultiplier, UpdateClockRate, cart, border,
                             ClockFits, ConsoleFits, BorderFits, ResetForgets
<1>8. CASE SetBootRomLoadCallback
  <2>1. SearchFits'
    BY <1>0, <1>8, SearchKeeps DEF SetBootRomLoadCallback, cart
  <2> QED  BY <1>8, <2>1 DEF SetBootRomLoadCallback, cart, border,
                             ClockFits, ConsoleFits, BorderFits, ResetForgets
<1>9. CASE SearchPass \/ EndSearch
  <2>1. /\ UNCHANGED <<machine, cart, border, settings>>
        /\ DOMAIN since' = DOMAIN since
        /\ since'.reset = since.reset /\ since'.played = since.played /\ since'.isx = since.isx
    BY <1>9 DEF SearchPass, EndSearch
  <2>2. /\ cheat_search_data' # <<>> /\ ~since'.loaded =>
              cheat_search_data' = <<ram_size, mbc_ram_size>>
        /\ since'.overrun => since'.loaded \/ mbc_ram_size = 0
    <3>1. ASSUME SearchPass
          PROVE  /\ cheat_search_data' \in {Searched, <<>>}
                 /\ since'.loaded <=> since.loaded /\ Searching
                 /\ since'.overrun <=> GoesBeyond
      <4>1. /\ cheat_search_data' \in {Searched, <<>>}
            /\ since' = [since EXCEPT !.loaded = since.loaded /\ Searching, !.overrun = GoesBeyond]
        BY <3>1 DEF SearchPass
      <4>2. since'.loaded = (since.loaded /\ Searching) /\ since'.overrun = GoesBeyond
        BY <4>1
      <4> QED  BY <4>1, <4>2, Zenon
    <3>2. CASE SearchPass /\ since.loaded /\ Searching
      BY <3>1, <3>2
    <3>3. CASE SearchPass /\ ~(since.loaded /\ Searching)
      <4>1. Searched = <<ram_size, mbc_ram_size>>
        BY <3>3 DEF Searched, SearchFits
      <4>2. GoesBeyond => mbc_ram_size = 0
        BY <4>1 DEF GoesBeyond, RamFor
      <4> QED  BY <3>1, <3>3, <4>1, <4>2
    <3>4. CASE EndSearch
      BY <1>0, <3>4 DEF EndSearch
    <3> QED  BY <1>9, <3>2, <3>3, <3>4
  <2>3. SizesFit' /\ SearchFits'
    BY <2>1, <2>2 DEF SearchFits, Searching, machine, cart
  <2>4. LifeTyped'
    BY <2>1 DEF machine, cart
  <2>5. ClockFits' /\ ConsoleFits' /\ BorderFits' /\ ResetForgets'
    BY <2>1 DEF machine, cart, border, settings, ClockFits, ConsoleFits, BorderFits, ResetForgets
  <2> QED  BY <2>3, <2>4, <2>5
<1> QED  BY <1>1, <1>2, <1>3, <1>4, <1>5, <1>6, <1>7, <1>8, <1>9 DEF LifeNext

(***************************************************************************)
(* For all files and all models, switched, loaded, reset and set in any    *)
(* order: sizes, border, boot ROM and clock are those of the machine, and  *)
(* what a search for cheats has allocated is, until a game is loaded, what *)
(* its passes go through, both memories of it.                             *)
(***************************************************************************)
THEOREM MachinesFit == LifeSpec => []MachineFits
<1>1. LifeSpec => []LifeInv
  BY LifeStarts, LifeStepKeeps, PTL DEF LifeSpec
<1> QED  BY <1>1, LifeInvFits, PTL

-----------------------------------------------------------------------------
(* The libretro core (module Libretro) *)

\* A pair of machines, with the fields that they have; light goes where the cable leads.
Shaped(g) ==
    /\ DOMAIN g = Devices
    /\ \A d \in Devices : /\ DOMAIN g[d] = {"model", "border_mode", "offset", "linked", "light"}
                          /\ g[d].linked \in BOOLEAN
                          /\ g[d].light = IF g[d].linked THEN 3 - d ELSE 0

RetroTyped ==
    /\ Shaped(gameboy)
    /\ emulated_devices \in Devices /\ link_cable_emulation \in BOOLEAN
    /\ DOMAIN options = {"model", "border", "link", "audio"}
    /\ options.link \in BOOLEAN
    /\ DOMAIN options.model = Devices /\ \A d \in Devices : options.model[d] # "none"
    /\ DOMAIN models = Devices /\ DOMAIN auto_model = Devices
    /\ \A d \in Devices : auto_model[d] # "none"
    /\ loaded \in BOOLEAN /\ retro_phase \in {"idle", "run"}
    /\ DOMAIN vblank_occurred = Devices /\ DOMAIN ran = Devices /\ DOMAIN until = Devices
    /\ \A d \in Devices : /\ vblank_occurred[d] \in BOOLEAN /\ ran[d] \in Nat
                          /\ until[d] \in 0 .. RetroFrame
    /\ delta \in Int

\* A machine whose vertical blank is still to come has not run for a frame.
FrameInv ==
    /\ retro_phase = "idle" => samples = {}
    /\ retro_phase = "run" =>
          /\ samples \subseteq {audio_out}
          /\ emulated_devices = 2 => delta = ran[2] - ran[1] /\ delta \in -RetroMaxRun .. RetroMaxRun
          /\ \A d \in Devices :
                d <= emulated_devices =>
                    /\ ~vblank_occurred[d] => ran[d] + until[d] <= RetroFrame
                    /\ ran[d] <= RetroFrame + RetroMaxRun

(***************************************************************************)
(* A machine that was left over from a load that failed is not linked once *)
(* the option is off.                                                      *)
(***************************************************************************)
NoneLinkedByMistake == \A d \in Devices : gameboy[d].linked => link_cable_emulation

WiredInv ==
    loaded =>
        /\ frame_buf = emulated_devices
        /\ \A d \in Devices : d <= emulated_devices => Inited(gameboy[d])
        /\ emulated_devices = 2 =>
              /\ (fresh /\ IsHleSgb(gameboy[1])) \/ gameboy[2].offset = "small"
              /\ \A d \in Devices : gameboy[d].linked = link_cable_emulation
              /\ \A d \in Devices : gameboy[d].border_mode = "NEVER"

RetroInv == RetroTyped /\ FrameInv /\ NoneLinkedByMistake /\ WiredInv

LEMMA RetroInvShares == RetroInv => LinkedMachines
<1> SUFFICES ASSUME RetroInv PROVE LinkedMachines
  OBVIOUS
<1> USE DEF RetroInv, RetroTyped
<1>1. \A d \in 1 .. emulated_devices : d \in Devices /\ d <= emulated_devices
  BY DEF Devices
<1>2. FrameIsShared
  <2>1. ran[1] \in Nat /\ ran[2] \in Nat /\ RetroMaxRun \in Nat
    BY RetroAssumption DEF Devices
  <2>2. \A x, y \in Nat : y - x \in -RetroMaxRun .. RetroMaxRun => x - y \in -RetroMaxRun .. RetroMaxRun
    BY <2>1
  <2> QED  BY <1>1, <2>1, <2>2 DEF FrameInv, FrameIsShared
<1>3. WiredAsAsked
  <2>1. /\ DrawsWhereRead <=> (loaded /\ emulated_devices = 2 => gameboy[2].offset = Screen(gameboy[1]))
        /\ gameboy[1].border_mode = "NEVER" => Screen(gameboy[1]) = "small"
    BY DEF DrawsWhereRead, Screen
  <2>2. \A d \in Devices : gameboy[d].light = IF gameboy[d].linked THEN 3 - d ELSE 0
    BY DEF Shaped
  <2>3. 1 \in Devices /\ 2 \in Devices
    BY DEF Devices
  <2> QED  BY <1>1, <2>1, <2>2, <2>3 DEF WiredInv, WiredAsAsked
<1> QED  BY <1>2, <1>3 DEF LinkedMachines

LEMMA RetroStarts == RetroInit => RetroInv
<1> SUFFICES ASSUME RetroInit PROVE RetroInv
  OBVIOUS
<1>1. 1 .. 2 = Devices
  BY DEF Devices
<1>2. RetroTyped
  <2>1. Shaped(gameboy)
    <3>1. DOMAIN gameboy = Devices /\ gameboy[1] = Uninitialised /\ gameboy[2] = Uninitialised
      BY <1>1 DEF RetroInit
    <3>2. \A d \in Devices : gameboy[d] = Uninitialised
      BY <3>1 DEF Devices
    <3>3. /\ DOMAIN Uninitialised = {"model", "border_mode", "offset", "linked", "light"}
          /\ Uninitialised.linked = FALSE /\ Uninitialised.light = 0
      BY DEF Uninitialised
    <3> QED  BY <3>1, <3>2, <3>3 DEF Shaped
  <2>2. DOMAIN until = Devices /\ \A d \in Devices : until[d] \in 0 .. RetroFrame
    BY RetroAssumption DEF RetroInit
  <2>3. /\ DOMAIN vblank_occurred = Devices /\ DOMAIN ran = Devices
        /\ \A d \in Devices : vblank_occurred[d] \in BOOLEAN /\ ran[d] \in Nat
    BY <1>1 DEF RetroInit, Devices
  <2>4. /\ DOMAIN options = {"model", "border", "link", "audio"} /\ options.link \in BOOLEAN
        /\ DOMAIN options.model = Devices /\ \A d \in Devices : options.model[d] # "none"
    <3>1. options = [model |-> <<"Auto", "Auto">>, border |-> "SGB", link |-> TRUE, audio |-> 1]
      BY DEF RetroInit
    <3>2. DOMAIN <<"Auto", "Auto">> = Devices /\ \A d \in Devices : <<"Auto", "Auto">>[d] = "Auto"
      BY <1>1 DEF Devices
    <3> QED  BY <3>1, <3>2
  <2>6. /\ DOMAIN models = Devices /\ DOMAIN auto_model = Devices
        /\ \A d \in Devices : auto_model[d] # "none"
    BY <1>1 DEF RetroInit, Devices
  <2>5. 1 \in Devices /\ 0 \in Int
    BY DEF Devices
  <2> QED  BY <2>1, <2>2, <2>3, <2>4, <2>5, <2>6, Zenon DEF RetroInit, RetroTyped
<1>3. FrameInv /\ NoneLinkedByMistake /\ WiredInv
  BY <1>1 DEF RetroInit, FrameInv, NoneLinkedByMistake, WiredInv, Uninitialised, Devices
<1> QED  BY <1>2, <1>3 DEF RetroInv

-----------------------------------------------------------------------------
(* What the options' and the loaders' operators make of two machines *)

LEMMA LinkStateSet ==
    ASSUME NEW g, Shaped(g), NEW state \in BOOLEAN
    PROVE  LET h == set_link_cable_state(g, state) IN
           /\ Shaped(h)
           /\ \A d \in Devices : /\ h[d].linked = state /\ h[d].model = g[d].model
                                 /\ h[d].border_mode = g[d].border_mode
                                 /\ h[d].offset = g[d].offset
<1> DEFINE h == set_link_cable_state(g, state)
<1>1. /\ DOMAIN h = Devices
      /\ \A d \in Devices :
            h[d] = [g[d] EXCEPT !.linked = state, !.light = IF state THEN 3 - d ELSE 0]
  BY DEF set_link_cable_state
<1> HIDE DEF h
<1>2. \A d \in Devices : /\ h[d].linked = state /\ h[d].model = g[d].model
                         /\ h[d].light = IF state THEN 3 - d ELSE 0
                         /\ h[d].border_mode = g[d].border_mode /\ h[d].offset = g[d].offset
                         /\ DOMAIN h[d] = DOMAIN g[d]
  BY <1>1 DEF Shaped
<1>3. Shaped(h)
  BY <1>1, <1>2 DEF Shaped
<1> QED  BY <1>2, <1>3 DEF h

LEMMA BorderSet ==
    ASSUME NEW g, Shaped(g), NEW devices \in Devices
    PROVE  LET h == WithBorder(g, devices) IN
           /\ Shaped(h)
           /\ \A d \in Devices : /\ h[d].linked = g[d].linked /\ h[d].model = g[d].model
                                 /\ h[d].offset = g[d].offset
                                 /\ devices = 2 => h[d].border_mode = "NEVER"
BY DEF WithBorder, Shaped, Devices

(* Once the options are in force, only what they say is linked. *)
LEMMA CheckedIsWired ==
    ASSUME RetroInv, NEW devices \in Devices, CheckVariables(devices)
    PROVE  LET h == Checked(gameboy, devices) IN
           /\ Shaped(h) /\ link_cable_emulation' \in BOOLEAN
           /\ \A d \in Devices : /\ h[d].linked => link_cable_emulation'
                                 /\ h[d].model = gameboy[d].model
                                 /\ h[d].offset = gameboy[d].offset
                                 /\ devices = 2 => h[d].border_mode = "NEVER"
           /\ (\A d \in Devices : gameboy[d].linked = link_cable_emulation) =>
                  \A d \in Devices : h[d].linked = link_cable_emulation'
<1> DEFINE b == WithBorder(gameboy, devices)
<1>1. /\ Shaped(b)
      /\ \A d \in Devices : /\ b[d].linked = gameboy[d].linked /\ b[d].model = gameboy[d].model
                            /\ b[d].offset = gameboy[d].offset
                            /\ devices = 2 => b[d].border_mode = "NEVER"
  BY BorderSet DEF RetroInv, RetroTyped
<1> HIDE DEF b
<1>2. Checked(gameboy, devices) = Relinked(b, devices)
  BY DEF Checked, b
<1>3. /\ link_cable_emulation' = IF devices = 1 THEN link_cable_emulation ELSE options.link
      /\ link_cable_emulation' \in BOOLEAN /\ options.link \in BOOLEAN
      /\ \A d \in Devices : gameboy[d].linked => link_cable_emulation
  BY DEF CheckVariables, RetroInv, RetroTyped, NoneLinkedByMistake
<1>4. CASE devices = 1 \/ options.link = link_cable_emulation
  BY <1>1, <1>2, <1>3, <1>4 DEF Relinked
<1>5. CASE ~(devices = 1 \/ options.link = link_cable_emulation)
  <2>1. Checked(gameboy, devices) = set_link_cable_state(b, options.link)
    BY <1>2, <1>5 DEF Relinked
  <2> QED  BY <1>1, <1>3, <1>5, <2>1, LinkStateSet
<1> QED  BY <1>4, <1>5

(* Making a machine, or switching its model, links both if that is in force. *)
LEMMA InitModelWires ==
    ASSUME NEW g, Shaped(g), NEW d \in Devices, NEW e \in Devices, e # d,
           link_cable_emulation' \in BOOLEAN
    PROVE  LET h == InitModel(g, d)
               links == emulated_devices' = 2 /\ link_cable_emulation'
           IN /\ Shaped(h)
              /\ h[d].model = Effective(d) /\ h[e].model = g[e].model
              /\ h[d].border_mode = IF Inited(g[d]) THEN g[d].border_mode ELSE "SGB"
              /\ h[e].border_mode = g[e].border_mode
              /\ h[e].offset = g[e].offset
              /\ d = 2 => h[d].offset = Screen(g[1])
              /\ links => h[d].linked /\ h[e].linked
              /\ ~links => (h[d].linked => g[d].linked) /\ h[e].linked = g[e].linked
<1> DEFINE made == IF Inited(g[d])
                   THEN [g EXCEPT ![d].model = Effective(d)]
                   ELSE [g EXCEPT ![d] = [Uninitialised EXCEPT !.model = Effective(d)]]
           placed == [made EXCEPT ![d].offset = IF d = 1 THEN "none" ELSE Screen(made[1])]
<1>1. /\ Shaped(made) /\ made[e] = g[e] /\ made[d].model = Effective(d)
      /\ made[d].border_mode = IF Inited(g[d]) THEN g[d].border_mode ELSE "SGB"
      /\ made[d].linked => g[d].linked
  <2>1. CASE Inited(g[d])
    BY <2>1 DEF Shaped
  <2>2. CASE ~Inited(g[d])
    <3>1. made = [g EXCEPT ![d] = [Uninitialised EXCEPT !.model = Effective(d)]]
      BY <2>2
    <3> DEFINE anew == [Uninitialised EXCEPT !.model = Effective(d)]
    <3>2. /\ DOMAIN anew = {"model", "border_mode", "offset", "linked", "light"}
          /\ anew.model = Effective(d) /\ anew.border_mode = "SGB"
          /\ anew.linked = FALSE /\ anew.light = 0
      BY DEF Uninitialised
    <3> HIDE DEF anew
    <3>3. made = [g EXCEPT ![d] = anew]
      BY <3>1 DEF anew
    <3> QED  BY <2>2, <3>2, <3>3 DEF Shaped
  <2> QED  BY <2>1, <2>2
<1> HIDE DEF made
<1>2. /\ Shaped(placed) /\ placed[e] = g[e] /\ placed[d].model = Effective(d)
      /\ placed[d].border_mode = made[d].border_mode /\ placed[d].linked = made[d].linked
      /\ d = 2 => placed[d].offset = Screen(g[1])
  <2>1. placed[d] = [made[d] EXCEPT !.offset = IF d = 1 THEN "none" ELSE Screen(made[1])]
        /\ placed[e] = made[e] /\ DOMAIN placed = Devices
    BY <1>1 DEF Shaped
  <2>2. d = 2 => made[1] = g[1]
    BY <1>1 DEF Devices
  <2>3. \A x \in Devices : x = d \/ x = e
    BY DEF Devices
  <2> QED  BY <1>1, <2>1, <2>2, <2>3 DEF Shaped
<1>3. InitModel(g, d) = IF emulated_devices' = 2 /\ link_cable_emulation'
                        THEN set_link_cable_state(placed, TRUE) ELSE placed
  BY DEF InitModel, made
<1> HIDE DEF placed
<1>4. CASE emulated_devices' = 2 /\ link_cable_emulation'
  <2> DEFINE h == set_link_cable_state(placed, TRUE)
  <2>1. /\ Shaped(h)
        /\ \A x \in Devices : /\ h[x].linked = TRUE /\ h[x].model = placed[x].model
                              /\ h[x].border_mode = placed[x].border_mode
                              /\ h[x].offset = placed[x].offset
    BY <1>2, LinkStateSet
  <2> HIDE DEF h
  <2>2. InitModel(g, d) = h
    BY <1>3, <1>4 DEF h
  <2> QED  BY <1>1, <1>2, <1>4, <2>1, <2>2
<1>5. CASE ~(emulated_devices' = 2 /\ link_cable_emulation')
  BY <1>1, <1>2, <1>3, <1>5
<1> QED  BY <1>4, <1>5

(* The machines that were loaded together are wired as the options say.    *)
LEMMA InitAllWires ==
    ASSUME NEW g, Shaped(g), link_cable_emulation' \in BOOLEAN,
           emulated_devices' = 2,
           \A d \in Devices : g[d].linked => link_cable_emulation'
    PROVE  LET h == InitAll(g, 2) IN
           /\ Shaped(h)
           /\ \A d \in Devices : h[d].linked = link_cable_emulation'
           /\ \A d \in Devices : h[d].model = Effective(d)
           /\ \A d \in Devices : h[d].border_mode = IF Inited(g[d]) THEN g[d].border_mode ELSE "SGB"
           /\ \E first : /\ first.model = h[1].model
                         /\ first.border_mode = h[1].border_mode
                         /\ h[2].offset = Screen(first)
<1>0. 1 \in Devices /\ 2 \in Devices /\ 1 # 2 /\ \A d \in Devices : d = 1 \/ d = 2
  BY DEF Devices
<1> DEFINE one == InitModel(g, 1)
           both == InitModel(one, 2)
<1>1. /\ Shaped(one) /\ one[1].model = Effective(1) /\ one[2].model = g[2].model
      /\ one[1].border_mode = IF Inited(g[1]) THEN g[1].border_mode ELSE "SGB"
      /\ one[2].border_mode = g[2].border_mode
      /\ link_cable_emulation' => one[1].linked /\ one[2].linked
      /\ ~link_cable_emulation' => (one[1].linked => g[1].linked) /\ one[2].linked = g[2].linked
  BY <1>0, InitModelWires
<1> HIDE DEF one
<1>2. /\ Shaped(both) /\ both[2].model = Effective(2) /\ both[1].model = one[1].model
      /\ both[2].border_mode = IF Inited(one[2]) THEN one[2].border_mode ELSE "SGB"
      /\ both[1].border_mode = one[1].border_mode
      /\ both[2].offset = Screen(one[1])
      /\ link_cable_emulation' => both[2].linked /\ both[1].linked
      /\ ~link_cable_emulation' => (both[2].linked => one[2].linked) /\ both[1].linked = one[1].linked
  BY <1>0, <1>1, InitModelWires
<1> HIDE DEF both
<1>3. InitAll(g, 2) = both
  BY DEF InitAll, one, both
<1>4. Inited(one[2]) <=> Inited(g[2])
  BY <1>1 DEF Inited
<1>5. \A d \in Devices : both[d].linked = link_cable_emulation'
  <2>1. both[1].linked \in BOOLEAN /\ both[2].linked \in BOOLEAN
    BY <1>0, <1>2 DEF Shaped
  <2>2. CASE link_cable_emulation'
    BY <1>0, <1>2, <2>1, <2>2
  <2>3. CASE ~link_cable_emulation'
    BY <1>0, <1>1, <1>2, <2>1, <2>3
  <2> QED  BY <2>2, <2>3
<1>6. \A d \in Devices : /\ both[d].model = Effective(d)
                         /\ both[d].border_mode = IF Inited(g[d]) THEN g[d].border_mode ELSE "SGB"
  BY <1>0, <1>1, <1>2, <1>4
<1> QED  BY <1>1, <1>2, <1>3, <1>5, <1>6

(* A machine always gets a model. *)
LEMMA ModelsAreKnown ==
    ASSUME RetroInv, NEW devices \in Devices, CheckVariables(devices),
           DOMAIN auto_model' = Devices, \A d \in Devices : auto_model'[d] # "none"
    PROVE  /\ DOMAIN models' = Devices
           /\ \A d \in Devices : d <= devices => Effective(d) # "none"
<1> USE DEF RetroInv, RetroTyped
<1>1. \A d \in Devices : string_to_model(options.model[d]) # "none"
  BY DEF string_to_model, NoModel
<1>2. CASE devices = 1
  <2>1. models' = [models EXCEPT ![1] = string_to_model(options.model[1])]
    BY <1>2 DEF CheckVariables
  <2>2. 1 \in Devices /\ \A d \in Devices : d <= devices => d = 1
    BY <1>2 DEF Devices
  <2> QED  BY <1>1, <2>1, <2>2 DEF Effective
<1>3. CASE devices = 2
  <2>1. models' = [d \in Devices |-> string_to_model(options.model[d])]
    BY <1>3 DEF CheckVariables
  <2> QED  BY <1>1, <2>1 DEF Effective
<1> QED  BY <1>2, <1>3 DEF Devices

(* Loading `devices` machines at once, whatever an earlier load left. *)
LEMMA LoadedIsWired ==
    ASSUME RetroInv, NEW devices \in Devices, CheckVariables(devices),
           emulated_devices' = devices, frame_buf' = devices, fresh' = (devices = 2),
           DOMAIN auto_model' = Devices, \A d \in Devices : auto_model'[d] # "none",
           gameboy' = WithBorder(InitAll(Checked(gameboy, devices), devices), devices)
    PROVE  Shaped(gameboy') /\ NoneLinkedByMistake' /\ WiredInv'
<1>0. 1 \in Devices /\ 2 \in Devices /\ 1 # 2 /\ \A d \in Devices : d = 1 \/ d = 2
  BY DEF Devices
<1> DEFINE g == Checked(gameboy, devices)
           h == InitAll(g, devices)
<1>1. /\ Shaped(g) /\ link_cable_emulation' \in BOOLEAN
      /\ \A d \in Devices : /\ g[d].linked => link_cable_emulation'
                            /\ devices = 2 => g[d].border_mode = "NEVER"
  BY CheckedIsWired
<1>2. \A d \in Devices : d <= devices => Effective(d) # "none"
  BY ModelsAreKnown
<1>5. gameboy' = WithBorder(h, devices)
  OBVIOUS
<1> HIDE DEF g
<1>3. CASE devices = 1
  <2>1. h = InitModel(g, 1)
    BY <1>3 DEF InitAll
  <2>2. /\ Shaped(h) /\ h[1].model = Effective(1)
        /\ h[1].linked => g[1].linked
        /\ h[2].linked = g[2].linked
    BY <1>0, <1>1, <1>3, <2>1, InitModelWires
  <2> HIDE DEF h
  <2>3. /\ Shaped(gameboy')
        /\ \A d \in Devices : gameboy'[d].linked = h[d].linked /\ gameboy'[d].model = h[d].model
    BY <1>5, <2>2, BorderSet
  <2>4. NoneLinkedByMistake'
    BY <1>0, <1>1, <2>2, <2>3 DEF NoneLinkedByMistake
  <2>5. Inited(gameboy'[1])
    BY <1>0, <1>2, <1>3, <2>2, <2>3 DEF Inited
  <2>6. \A d \in Devices : d <= 1 => d = 1
    BY DEF Devices
  <2>7. frame_buf' = emulated_devices' /\ emulated_devices' # 2
    BY <1>3
  <2>8. \A d \in Devices : d <= emulated_devices' => Inited(gameboy'[d])
    BY <1>3, <2>5, <2>6
  <2>9. WiredInv'
    BY <2>7, <2>8 DEF WiredInv
  <2> QED  BY <2>3, <2>4, <2>9
<1>4. CASE devices = 2
  <2>1. /\ Shaped(h)
        /\ \A d \in Devices : h[d].linked = link_cable_emulation'
        /\ \A d \in Devices : h[d].model = Effective(d)
        /\ \A d \in Devices : h[d].border_mode = IF Inited(g[d]) THEN g[d].border_mode ELSE "SGB"
        /\ \E first : /\ first.model = h[1].model
                      /\ first.border_mode = h[1].border_mode
                      /\ h[2].offset = Screen(first)
    BY <1>1, <1>4, InitAllWires
  <2> HIDE DEF h
  <2>2. /\ Shaped(gameboy')
        /\ \A d \in Devices : /\ gameboy'[d].linked = h[d].linked /\ gameboy'[d].model = h[d].model
                              /\ gameboy'[d].offset = h[d].offset
                              /\ gameboy'[d].border_mode = "NEVER"
    BY <1>4, <1>5, <2>1, BorderSet
  <2>3. \A d \in Devices : gameboy'[d].linked = link_cable_emulation'
    BY <2>1, <2>2
  <2>4. \A d \in Devices : Inited(gameboy'[d])
    <3>1. \A d \in Devices : d <= devices
      BY <1>4 DEF Devices
    <3> QED  BY <1>2, <2>1, <2>2, <3>1 DEF Inited
  <2>5. IsHleSgb(gameboy'[1]) \/ gameboy'[2].offset = "small"
    <3>1. PICK first : /\ first.model = h[1].model
                       /\ first.border_mode = h[1].border_mode
                       /\ h[2].offset = Screen(first)
      BY <2>1
    <3>2. first.border_mode \in {"NEVER", "SGB"}
      BY <1>0, <1>1, <1>4, <2>1, <3>1
    <3>3. Screen(first) = "small" \/ IsHleSgb(first)
      BY <3>2 DEF Screen
    <3> QED  BY <1>0, <2>2, <3>1, <3>3 DEF IsHleSgb
  <2> QED  BY <1>4, <2>2, <2>3, <2>4, <2>5 DEF NoneLinkedByMistake, WiredInv
<1> QED  BY <1>3, <1>4 DEF Devices

LEMMA LoadKeepsRetro ==
    ASSUME RetroInv, \/ \E c \in Contents : LoadGame(c)
                     \/ \E first, second \in Contents : LoadGameSpecial(first, second)
    PROVE  RetroInv'
<1>0. 1 \in Devices /\ 2 \in Devices /\ 1 # 2 /\ \A d \in Devices : d = 1 \/ d = 2
  BY DEF Devices
<1> DEFINE Known == DOMAIN auto_model' = Devices /\ \A d \in Devices : auto_model'[d] # "none"
<1>1. \A c \in Contents, d \in Devices : c # "INVALID" => AutoModel(c, d) # "none"
  BY RetroAssumption DEF AutoModel
\* What any load leaves alone, and what suffices of one that fails.
<1>2. ASSUME NEW devices \in Devices, CheckVariables(devices), emulated_devices' = devices,
             Known, Shaped(gameboy'), NoneLinkedByMistake', WiredInv', loaded' \in BOOLEAN,
             retro_phase = "idle", UNCHANGED loop
      PROVE  RetroInv'
  <2>1. /\ link_cable_emulation' \in BOOLEAN /\ DOMAIN models' = Devices /\ UNCHANGED options
    BY <1>2, CheckedIsWired, ModelsAreKnown DEF CheckVariables
  <2> QED  BY <1>2, <2>1 DEF RetroInv, RetroTyped, FrameInv, loop
<1>3. ASSUME NEW c \in Contents, LoadGame(c) PROVE RetroInv'
  <2>1. /\ retro_phase = "idle" /\ ~loaded /\ UNCHANGED loop
        /\ emulated_devices' = emulated_devices /\ CheckVariables(emulated_devices)
        /\ emulated_devices \in Devices
    BY <1>3 DEF LoadGame, RetroInv, RetroTyped
  <2>2. CASE c = "INVALID"
    <3>1. gameboy' = Checked(gameboy, emulated_devices) /\ UNCHANGED <<auto_model, loaded>>
      BY <1>3, <2>2 DEF LoadGame
    <3>2. Known
      BY <3>1 DEF RetroInv, RetroTyped
    <3>3. Shaped(gameboy') /\ NoneLinkedByMistake' /\ WiredInv'
      BY <2>1, <3>1, CheckedIsWired DEF NoneLinkedByMistake, WiredInv
    <3>4. loaded' \in BOOLEAN
      BY <3>1 DEF RetroInv, RetroTyped
    <3> HIDE DEF Known
    <3> QED  BY <1>2, <2>1, <3>2, <3>3, <3>4
  <2>3. CASE c # "INVALID"
    <3>1. /\ gameboy' = WithBorder(InitAll(Checked(gameboy, emulated_devices), emulated_devices),
                                   emulated_devices)
          /\ auto_model' = [d \in Devices |-> AutoModel(c, d)]
          /\ frame_buf' = emulated_devices /\ fresh' = (emulated_devices = 2) /\ loaded' = TRUE
      BY <1>3, <2>3 DEF LoadGame
    <3>2. Known
      BY <1>1, <2>3, <3>1
    <3>3. Shaped(gameboy') /\ NoneLinkedByMistake' /\ WiredInv'
      BY <2>1, <3>1, <3>2, LoadedIsWired
    <3> HIDE DEF Known
    <3> QED  BY <1>2, <2>1, <3>1, <3>2, <3>3
  <2> QED  BY <2>2, <2>3
<1>4. ASSUME NEW first \in Contents, NEW second \in Contents, LoadGameSpecial(first, second)
      PROVE  RetroInv'
  <2>1. /\ retro_phase = "idle" /\ ~loaded /\ UNCHANGED loop
        /\ emulated_devices' = 2 /\ CheckVariables(2) /\ frame_buf' = 2
    BY <1>4 DEF LoadGameSpecial
  <2> DEFINE g == Checked(gameboy, 2)
  <2>2. /\ Shaped(g) /\ link_cable_emulation' \in BOOLEAN
        /\ \A d \in Devices : g[d].linked => link_cable_emulation'
    BY <1>0, <2>1, CheckedIsWired
  <2>3. CASE first = "INVALID"
    <3>1. gameboy' = g /\ UNCHANGED <<auto_model, loaded>>
      BY <1>4, <2>3 DEF LoadGameSpecial
    <3> HIDE DEF g
    <3>2. Known /\ loaded' \in BOOLEAN
      BY <3>1 DEF RetroInv, RetroTyped
    <3>3. Shaped(gameboy') /\ NoneLinkedByMistake' /\ WiredInv'
      BY <2>1, <2>2, <3>1 DEF NoneLinkedByMistake, WiredInv
    <3> HIDE DEF Known
    <3> QED  BY <1>0, <1>2, <2>1, <3>2, <3>3
  <2>4. CASE first # "INVALID" /\ second = "INVALID"
    <3>1. /\ gameboy' = InitModel(g, 1) /\ UNCHANGED loaded
          /\ auto_model' = [auto_model EXCEPT ![1] = AutoModel(first, 1)]
      BY <1>4, <2>4 DEF LoadGameSpecial
    <3> HIDE DEF g
    <3>2. Known /\ loaded' \in BOOLEAN
      BY <1>0, <1>1, <2>4, <3>1 DEF RetroInv, RetroTyped
    <3>3. /\ Shaped(gameboy')
          /\ ~link_cable_emulation' => (gameboy'[1].linked => g[1].linked)
          /\ ~link_cable_emulation' => gameboy'[2].linked = g[2].linked
      BY <1>0, <2>1, <2>2, <3>1, InitModelWires
    <3>4. NoneLinkedByMistake'
      BY <1>0, <2>2, <3>3 DEF NoneLinkedByMistake
    <3>5. WiredInv'
      BY <2>1, <3>1 DEF WiredInv
    <3> HIDE DEF Known
    <3> QED  BY <1>0, <1>2, <2>1, <3>2, <3>3, <3>4, <3>5
  <2>5. CASE first # "INVALID" /\ second # "INVALID"
    <3>1. /\ gameboy' = WithBorder(InitAll(g, 2), 2) /\ loaded' = TRUE /\ fresh' = TRUE
          /\ auto_model' = <<AutoModel(first, 1), AutoModel(second, 2)>>
      BY <1>4, <2>5 DEF LoadGameSpecial
    <3>2. Known
      <4>1. 1 .. 2 = Devices
        BY DEF Devices
      <4>2. AutoModel(first, 1) # "none" /\ AutoModel(second, 2) # "none"
        BY <1>0, <1>1, <2>5
      <4> QED  BY <1>0, <3>1, <4>1, <4>2
    <3>3. Shaped(gameboy') /\ NoneLinkedByMistake' /\ WiredInv'
      BY <1>0, <2>1, <3>1, <3>2, LoadedIsWired
    <3> HIDE DEF Known, g
    <3> QED  BY <1>0, <1>2, <2>1, <3>1, <3>2, <3>3
  <2> QED  BY <2>3, <2>4, <2>5
<1> QED  BY <1>3, <1>4

(* A reset switches the models of machines that are there. *)
LEMMA ResetKeepsRetro == ASSUME RetroInv, RetroReset PROVE RetroInv'
<1>0. 1 \in Devices /\ 2 \in Devices /\ 1 # 2 /\ \A d \in Devices : d = 1 \/ d = 2
  BY DEF Devices
<1> DEFINE g == Checked(gameboy, emulated_devices)
<1>1. /\ retro_phase = "idle" /\ loaded /\ emulated_devices' = emulated_devices
      /\ CheckVariables(emulated_devices) /\ gameboy' = InitAll(g, emulated_devices)
      /\ fresh' = FALSE /\ UNCHANGED <<loaded, frame_buf, loop, auto_model, options>>
      /\ emulated_devices \in Devices
  BY DEF RetroReset, CheckVariables, RetroInv, RetroTyped
<1>2. /\ Shaped(g) /\ link_cable_emulation' \in BOOLEAN
      /\ \A d \in Devices : /\ g[d].linked => link_cable_emulation'
                            /\ g[d].model = gameboy[d].model
                            /\ emulated_devices = 2 => g[d].border_mode = "NEVER"
  BY <1>1, CheckedIsWired
<1>3. /\ DOMAIN models' = Devices /\ DOMAIN auto_model' = Devices
      /\ \A d \in Devices : auto_model'[d] # "none"
      /\ \A d \in Devices : d <= emulated_devices => Effective(d) # "none"
  BY <1>1, ModelsAreKnown DEF RetroInv, RetroTyped
<1> HIDE DEF g
<1>4. Shaped(gameboy') /\ NoneLinkedByMistake' /\ WiredInv'
  <2>1. CASE emulated_devices = 1
    <3>1. gameboy' = InitModel(g, 1)
      BY <1>1, <2>1 DEF InitAll
    <3>2. /\ Shaped(gameboy') /\ gameboy'[1].model = Effective(1)
          /\ gameboy'[1].linked => g[1].linked
          /\ gameboy'[2].linked = g[2].linked
      BY <1>0, <1>1, <1>2, <2>1, <3>1, InitModelWires
    <3>3. NoneLinkedByMistake'
      BY <1>0, <1>2, <3>2 DEF NoneLinkedByMistake
    <3>4. \A d \in Devices : d <= 1 => d = 1
      BY DEF Devices
    <3>5. Effective(1) # "none"
      BY <1>0, <1>3, <2>1
    <3> QED  BY <1>1, <2>1, <3>2, <3>3, <3>4, <3>5 DEF WiredInv, Inited, RetroInv
  <2>2. CASE emulated_devices = 2
    <3>1. /\ Shaped(gameboy')
          /\ \A d \in Devices : gameboy'[d].linked = link_cable_emulation'
          /\ \A d \in Devices : gameboy'[d].model = Effective(d)
          /\ \A d \in Devices :
                gameboy'[d].border_mode = IF Inited(g[d]) THEN g[d].border_mode ELSE "SGB"
          /\ \E first : /\ first.model = gameboy'[1].model
                        /\ first.border_mode = gameboy'[1].border_mode
                        /\ gameboy'[2].offset = Screen(first)
      BY <1>1, <1>2, <2>2, InitAllWires
    <3>2. \A d \in Devices : d <= emulated_devices
      BY <2>2 DEF Devices
    <3>3. \A d \in Devices : Inited(g[d]) /\ Inited(gameboy'[d])
      BY <1>1, <1>2, <1>3, <3>1, <3>2 DEF RetroInv, WiredInv, Inited
    <3>4. \A d \in Devices : gameboy'[d].border_mode = "NEVER"
      BY <1>2, <2>2, <3>1, <3>3
    <3>5. gameboy'[2].offset = "small"
      BY <1>0, <3>1, <3>4 DEF Screen
    <3> QED  BY <1>1, <2>2, <3>1, <3>3, <3>4, <3>5 DEF NoneLinkedByMistake, WiredInv, RetroInv
  <2> QED  BY <1>0, <1>1, <2>1, <2>2
<1> QED  BY <1>1, <1>2, <1>3, <1>4 DEF RetroInv, RetroTyped, FrameInv, loop

(* A call of retro_run begins with the options that are in force now. *)
LEMMA StartedRunKeepsRetro == ASSUME RetroInv, RetroRun PROVE RetroInv'
<1>0. 1 \in Devices /\ 2 \in Devices /\ 1 # 2 /\ \A d \in Devices : d = 1 \/ d = 2
  BY DEF Devices
<1> DEFINE g == Checked(gameboy, emulated_devices)
<1>1. /\ loaded /\ CheckVariables(emulated_devices) /\ gameboy' = g
      /\ UNCHANGED <<emulated_devices, auto_model, loaded, frame_buf, until, samples, fresh, options>>
      /\ retro_phase = "idle" /\ retro_phase' = "run"
      /\ vblank_occurred' = [d \in Devices |-> FALSE] /\ delta' = 0 /\ ran' = <<0, 0>>
      /\ emulated_devices \in Devices
  BY DEF RetroRun, CheckVariables, RetroInv, RetroTyped
<1>2. /\ Shaped(g) /\ link_cable_emulation' \in BOOLEAN
      /\ \A d \in Devices : /\ g[d].linked => link_cable_emulation'
                            /\ g[d].model = gameboy[d].model
                            /\ g[d].offset = gameboy[d].offset
                            /\ emulated_devices = 2 => g[d].border_mode = "NEVER"
      /\ (\A d \in Devices : gameboy[d].linked = link_cable_emulation) =>
              \A d \in Devices : g[d].linked = link_cable_emulation'
  BY <1>1, CheckedIsWired
<1>3. DOMAIN models' = Devices
  BY <1>1, ModelsAreKnown DEF RetroInv, RetroTyped
<1> HIDE DEF g
<1>4. NoneLinkedByMistake' /\ WiredInv'
  <2>1. NoneLinkedByMistake'
    BY <1>1, <1>2 DEF NoneLinkedByMistake
  <2>2. \A d \in Devices : d <= emulated_devices => Inited(gameboy'[d])
    BY <1>1, <1>2 DEF RetroInv, WiredInv, Inited
  <2>3. ASSUME emulated_devices = 2
        PROVE  /\ (fresh /\ IsHleSgb(gameboy'[1])) \/ gameboy'[2].offset = "small"
               /\ \A d \in Devices : gameboy'[d].linked = link_cable_emulation'
               /\ \A d \in Devices : gameboy'[d].border_mode = "NEVER"
    <3>1. /\ (fresh /\ IsHleSgb(gameboy[1])) \/ gameboy[2].offset = "small"
          /\ \A d \in Devices : gameboy[d].linked = link_cable_emulation
      BY <1>1, <2>3 DEF RetroInv, WiredInv
    <3>2. IsHleSgb(gameboy'[1]) <=> IsHleSgb(gameboy[1])
      BY <1>0, <1>1, <1>2 DEF IsHleSgb
    <3> QED  BY <1>0, <1>1, <1>2, <2>3, <3>1, <3>2
  <2>4. frame_buf = emulated_devices
    BY <1>1 DEF RetroInv, WiredInv
  <2>5. frame_buf' = emulated_devices' /\ emulated_devices' = emulated_devices /\ fresh' = fresh
    BY <1>1, <2>4
  <2> QED  BY <2>1, <2>2, <2>3, <2>5 DEF WiredInv
<1>5. DOMAIN ran' = Devices /\ \A d \in Devices : ran'[d] = 0
  BY <1>1 DEF Devices
<1>6. FrameInv'
  BY <1>0, <1>1, <1>5, RetroAssumption DEF RetroInv, RetroTyped, FrameInv
<1> QED  BY <1>1, <1>2, <1>3, <1>4, <1>5, <1>6 DEF RetroInv, RetroTyped

(***************************************************************************)
(* One call of GB_run: the machine that has had its vertical blank runs    *)
(* only while it is behind the other, which has not run for a frame.       *)
(***************************************************************************)
LEMMA GbRunKeepsRetro ==
    ASSUME RetroInv, NEW d \in Devices, NEW cycles \in 1 .. RetroMaxRun, GbRun(d, cycles)
    PROVE  RetroInv'
<1>0. 1 \in Devices /\ 2 \in Devices /\ 1 # 2 /\ \A x \in Devices : x = 1 \/ x = 2
  BY DEF Devices
<1>1. /\ retro_phase = "run" /\ ~FrameDone /\ d = Behind
      /\ delta' = IF emulated_devices = 1 THEN 0 ELSE Lead(d, cycles)
      /\ ran' = [ran EXCEPT ![d] = ran[d] + cycles]
      /\ until' = [until EXCEPT ![d] = IF until[d] > cycles THEN until[d] - cycles
                                                            ELSE until[d] + RetroFrame - cycles]
      /\ vblank_occurred' = [vblank_occurred EXCEPT ![d] = vblank_occurred[d] \/ until[d] <= cycles]
      /\ samples' = IF d = audio_out THEN samples \union {d} ELSE samples
      /\ UNCHANGED <<setup, frame_buf, gameboy, retro_phase, fresh>>
  BY DEF GbRun
<1>2. /\ cycles \in Nat /\ cycles <= RetroMaxRun /\ cycles <= RetroFrame
      /\ RetroFrame \in Nat /\ RetroMaxRun \in Nat
  BY RetroAssumption
<1>3. /\ \A x \in Devices : ran[x] \in Nat /\ until[x] \in 0 .. RetroFrame /\ vblank_occurred[x] \in BOOLEAN
      /\ DOMAIN ran = Devices /\ DOMAIN until = Devices /\ DOMAIN vblank_occurred = Devices
      /\ emulated_devices \in Devices /\ delta \in Int
  BY DEF RetroInv, RetroTyped
<1>4. RetroTyped'
  <2>1. ran[d] + cycles \in Nat
    BY <1>2, <1>3
  <2>2. (IF until[d] > cycles THEN until[d] - cycles ELSE until[d] + RetroFrame - cycles) \in 0 .. RetroFrame
    BY <1>2, <1>3
  <2>3. delta' \in Int
    BY <1>1, <1>2, <1>3 DEF Lead
  <2>4. /\ DOMAIN ran' = Devices /\ DOMAIN until' = Devices /\ DOMAIN vblank_occurred' = Devices
        /\ \A x \in Devices : ran'[x] \in Nat /\ until'[x] \in 0 .. RetroFrame
                              /\ vblank_occurred'[x] \in BOOLEAN
    BY <1>1, <1>3, <2>1, <2>2
  <2> QED  BY <1>1, <2>3, <2>4 DEF RetroInv, RetroTyped, setup
<1>5. FrameInv'
  <2>1. samples' \subseteq {audio_out'}
    BY <1>1 DEF RetroInv, FrameInv, setup
  <2>2. \A x \in Devices : x # d => ran'[x] = ran[x] /\ until'[x] = until[x]
                                   /\ vblank_occurred'[x] = vblank_occurred[x]
    BY <1>1, <1>3
  <2>3. /\ ran'[d] = ran[d] + cycles
        /\ vblank_occurred'[d] = (vblank_occurred[d] \/ until[d] <= cycles)
        /\ ~vblank_occurred'[d] => until'[d] = until[d] - cycles
    <3>1. ran'[d] = ran[d] + cycles
      BY <1>1, <1>3
    <3>2. vblank_occurred'[d] = (vblank_occurred[d] \/ until[d] <= cycles)
      BY <1>1, <1>3, Zenon
    <3>3. until'[d] = IF until[d] > cycles THEN until[d] - cycles ELSE until[d] + RetroFrame - cycles
      BY <1>1, <1>3
    <3>4. until[d] > cycles \/ until[d] <= cycles
      BY <1>2, <1>3
    <3> QED  BY <3>1, <3>2, <3>3, <3>4
  <2>4. d <= emulated_devices
    BY <1>0, <1>1, <1>3 DEF Behind
  <2>5. emulated_devices = 2 =>
            delta' = ran'[2] - ran'[1] /\ delta' \in -RetroMaxRun .. RetroMaxRun
    <3> SUFFICES ASSUME emulated_devices = 2
                 PROVE  delta' = ran'[2] - ran'[1] /\ delta' \in -RetroMaxRun .. RetroMaxRun
      OBVIOUS
    <3>1. delta = ran[2] - ran[1] /\ delta \in -RetroMaxRun .. RetroMaxRun
      BY <1>1 DEF RetroInv, FrameInv
    <3>2. CASE d = 1
      BY <1>0, <1>1, <1>2, <1>3, <2>2, <2>3, <3>1, <3>2 DEF Lead, Behind
    <3>3. CASE d = 2
      BY <1>0, <1>1, <1>2, <1>3, <2>2, <2>3, <3>1, <3>3 DEF Lead, Behind
    <3> QED  BY <1>0, <3>2, <3>3
  <2>6. ~vblank_occurred'[d] => ran'[d] + until'[d] <= RetroFrame
    BY <1>1, <1>2, <1>3, <2>3, <2>4 DEF RetroInv, FrameInv
  <2>7. ran[d] <= RetroFrame
    <3>1. CASE ~vblank_occurred[d]
      BY <1>1, <1>2, <1>3, <2>4, <3>1 DEF RetroInv, FrameInv
    <3>2. CASE vblank_occurred[d]
      <4>1. emulated_devices = 2
        <5>1. emulated_devices = 1 => d = 1 /\ \A x \in 1 .. emulated_devices : x = 1
          BY <1>1, <2>4 DEF Behind
        <5> QED  BY <1>0, <1>1, <1>3, <3>2, <5>1 DEF FrameDone
      <4>2. PICK e \in Devices : e # d /\ ~vblank_occurred[e]
        <5>1. \A x \in 1 .. emulated_devices : x \in Devices
          BY <4>1 DEF Devices
        <5> QED  BY <1>1, <3>2, <5>1 DEF FrameDone
      <4>3. e <= emulated_devices
        BY <1>0, <4>1
      <4>4. ran[e] <= RetroFrame
        BY <1>1, <1>2, <1>3, <4>2, <4>3 DEF RetroInv, FrameInv
      <4>5. ran[d] <= ran[e]
        <5>1. delta = ran[2] - ran[1]
          BY <1>1, <4>1 DEF RetroInv, FrameInv
        <5> QED  BY <1>0, <1>1, <1>3, <4>1, <4>2, <5>1 DEF Behind
      <4> QED  BY <1>2, <1>3, <4>4, <4>5
    <3> QED  BY <3>1, <3>2
  <2>8. ran'[d] <= RetroFrame + RetroMaxRun
    BY <1>2, <1>3, <2>3, <2>7
  <2>9. emulated_devices' = emulated_devices /\ retro_phase' = "run"
    BY <1>1 DEF setup
  <2>10. \A x \in Devices :
            x <= emulated_devices => /\ ~vblank_occurred'[x] => ran'[x] + until'[x] <= RetroFrame
                                     /\ ran'[x] <= RetroFrame + RetroMaxRun
    <3> SUFFICES ASSUME NEW x \in Devices, x <= emulated_devices
                 PROVE  /\ ~vblank_occurred'[x] => ran'[x] + until'[x] <= RetroFrame
                        /\ ran'[x] <= RetroFrame + RetroMaxRun
      OBVIOUS
    <3>1. CASE x = d
      BY <2>6, <2>8, <3>1
    <3>2. CASE x # d
      BY <1>1, <2>2, <3>2 DEF RetroInv, FrameInv
    <3> QED  BY <3>1, <3>2
  <2> QED  BY <2>1, <2>5, <2>9, <2>10 DEF FrameInv
<1> QED  BY <1>1, <1>4, <1>5 DEF RetroInv, NoneLinkedByMistake, WiredInv, setup

LEMMA RetroStepKeeps == ASSUME RetroInv, [RetroNext]_retroVars PROVE RetroInv'
<1> USE DEF RetroInv
<1>0. 1 \in Devices /\ 2 \in Devices /\ 1 # 2 /\ \A d \in Devices : d = 1 \/ d = 2
  BY DEF Devices
<1>1. CASE SetOption
  <2>1. /\ UNCHANGED <<emulated_devices, loaded, link_cable_emulation, audio_out, frame_buf,
                       gameboy, loop, fresh, models, auto_model>>
        /\ DOMAIN options' = {"model", "border", "link", "audio"} /\ options'.link \in BOOLEAN
        /\ DOMAIN options'.model = Devices /\ \A d \in Devices : options'.model[d] # "none"
    BY <1>1, RetroAssumption DEF SetOption, RetroTyped
  <2> QED  BY <2>1 DEF RetroTyped, FrameInv, NoneLinkedByMistake, WiredInv, loop
<1>2. CASE \E c \in Contents : LoadGame(c)
  BY <1>2, LoadKeepsRetro
<1>3. CASE \E first, second \in Contents : LoadGameSpecial(first, second)
  BY <1>3, LoadKeepsRetro
<1>4. CASE UnloadGame
  <2>1. /\ loaded' = FALSE /\ retro_phase = "idle"
        /\ UNCHANGED <<options, emulated_devices, link_cable_emulation, audio_out, loop,
                       models, auto_model>>
        /\ DOMAIN gameboy' = Devices
        /\ \A d \in Devices : gameboy'[d] = Uninitialised \/ gameboy'[d] = gameboy[d]
    BY <1>4 DEF UnloadGame
  <2>2. /\ DOMAIN Uninitialised = {"model", "border_mode", "offset", "linked", "light"}
        /\ Uninitialised.linked = FALSE /\ Uninitialised.light = 0
    BY DEF Uninitialised
  <2>3. Shaped(gameboy') /\ NoneLinkedByMistake'
    BY <2>1, <2>2 DEF Shaped, NoneLinkedByMistake, RetroTyped
  <2> QED  BY <2>1, <2>3 DEF RetroTyped, FrameInv, WiredInv, loop
<1>5. CASE RetroReset
  BY <1>5, ResetKeepsRetro
<1>6. CASE RetroRun
  BY <1>6, StartedRunKeepsRetro
<1>7. CASE RunEnds
  <2>1. /\ retro_phase' = "idle" /\ samples' = {}
        /\ ran' = <<0, 0>> /\ delta' = 0 /\ vblank_occurred' = [d \in Devices |-> FALSE]
        /\ UNCHANGED <<setup, frame_buf, gameboy, until, fresh>>
    BY <1>7 DEF RunEnds
  <2>2. DOMAIN ran' = Devices /\ \A d \in Devices : ran'[d] \in Nat
    BY <2>1 DEF Devices
  <2> QED  BY <2>1, <2>2 DEF RetroTyped, FrameInv, NoneLinkedByMistake, WiredInv, setup
<1>8. ASSUME NEW d \in Devices, NEW cycles \in 1 .. RetroMaxRun, GbRun(d, cycles)
      PROVE  RetroInv'
  BY <1>8, GbRunKeepsRetro
<1>9. CASE UNCHANGED retroVars
  BY <1>9 DEF retroVars, setup, loop, RetroTyped, FrameInv, NoneLinkedByMistake, WiredInv
<1> QED  BY <1>1, <1>2, <1>3, <1>4, <1>5, <1>6, <1>7, <1>8, <1>9 DEF RetroNext

(***************************************************************************)
(* For all options, contents and lengths of a frame, and whatever loads    *)
(* failed before: two machines that are linked share a frame and are wired *)
(* as the options say, their serial ports and their infrared ones alike.   *)
(***************************************************************************)
THEOREM MachinesAreLinked == RetroSpec => []LinkedMachines
<1>1. RetroSpec => []RetroInv
  BY RetroStarts, RetroStepKeeps, PTL DEF RetroSpec
<1> QED  BY <1>1, RetroInvShares, PTL

-----------------------------------------------------------------------------
(* The emulation thread (module EmulationThread) *)

(* stop and the emulation thread's life: the flags of stop are those of    *)
(* its steps, and only a running or a stopping document has a thread.      *)
ThreadInv ==
    /\ emu \in EmuStates /\ main \in MainStates
    /\ {running, stopping, debug_stopped, debug_disable} \subseteq BOOLEAN
    /\ after_stop \in {"idle", "reset"}
    /\ main \in {"stop_disable", "stop_wake", "stop_flag", "stop_running"} => running
    /\ main \in {"stop_spin", "reset"} => ~running
    /\ stopping => main \in {"stop_running", "stop_spin"}
    /\ main = "stop_running" => stopping
    /\ main = "stop_spin" /\ emu # "none" => stopping
    /\ running => emu \notin {"none", "post"}
    /\ ~running /\ main # "stop_spin" => emu = "none"
    /\ emu = "sync" <=> main_queue # "none"
    /\ main = "serve" => emu = "sync"

(* stop against the debugger: it is disabled while stop looks at it, it is *)
(* stopped while the emulation thread waits, and so one of the two has     *)
(* seen the other.                                                         *)
InputInv ==
    /\ debug_disable <=> main \in {"stop_wake", "stop_flag", "stop_running", "stop_spin"}
    /\ WaitsForInput => debug_stopped
    /\ input \in Seq(Commands \union {Null})
    /\ WaitsForInput /\ main \in {"stop_flag", "stop_running", "stop_spin"} => input # << >>

IInv == ThreadInv /\ InputInv

(* The flags keep to the steps of stop. *)
LEMMA ThreadStep == ThreadInv /\ [Next]_vars => ThreadInv'
<1> SUFFICES ASSUME ThreadInv, [Next]_vars
             PROVE  ThreadInv'
  OBVIOUS
<1> USE DEF ThreadInv, EmuStates, MainStates, StopStates, EmuAt, MainAt, SetStopped,
            SetDisabled, Active, UpdateActive, flags, debug
<1>1. CASE EmuStep
  <2>1. CASE Loop
    BY <2>1 DEF Loop
  <2>2. CASE EnterDebugger
    BY <2>2 DEF EnterDebugger
  <2>3. CASE TestBreakpoint
    BY <2>3 DEF TestBreakpoint
  <2>4. CASE CheckStopped
    BY <2>4 DEF CheckStopped
  <2>5. CASE SideView
    BY <2>5 DEF SideView
  <2>6. CASE AskForInput
    BY <2>6 DEF AskForInput
  <2>7. CASE GetInput
    BY <2>7 DEF GetInput
  <2>8. CASE LeaveDebugger
    BY <2>8 DEF LeaveDebugger
  <2>9. CASE EnterCpu
    BY <2>9 DEF EnterCpu
  <2>10. CASE VBlank
    BY <2>10 DEF VBlank
  <2>11. CASE BorderDone
    BY <2>11 DEF BorderDone
  <2>12. CASE LeaveCpu
    BY <2>12 DEF LeaveCpu
  <2>13. CASE AsyncCommand
    BY <2>13 DEF AsyncCommand
  <2>14. CASE TestPending
    BY <2>14 DEF TestPending
  <2>15. CASE RunPending
    BY <2>15 DEF RunPending
  <2>16. CASE EndRun
    BY <2>16 DEF EndRun
  <2> QED BY <1>1, <2>1, <2>2, <2>3, <2>4, <2>5, <2>6, <2>7, <2>8, <2>9, <2>10, <2>11,
             <2>12, <2>13, <2>14, <2>15, <2>16 DEF EmuStep
<1>2. CASE MainStep
  <2>1. CASE StopDisable
    BY <2>1 DEF StopDisable
  <2>2. CASE StopWake
    BY <2>2 DEF StopWake
  <2>3. CASE StopFlag
    BY <2>3 DEF StopFlag
  <2>4. CASE StopRunning
    BY <2>4 DEF StopRunning
  <2>5. CASE StopReturn
    BY <2>5 DEF StopReturn
  <2>6. CASE ResetDone
    BY <2>6 DEF ResetDone, Started
  <2>7. CASE BlockDone
    BY <2>7 DEF BlockDone
  <2>8. CASE ServeAsync
    <3>1. CASE ~running /\ ~debug_stopped
      BY <2>8, <3>1 DEF ServeAsync, QueueCommand, Started
    <3>2. CASE running \/ debug_stopped
      BY <2>8, <3>2 DEF ServeAsync, QueueCommand
    <3> QED BY <3>1, <3>2
  <2>9. CASE Serve
    BY <2>9 DEF Serve
  <2>10. CASE ServeDone
    BY <2>10 DEF ServeDone
  <2> QED BY <1>2, <2>1, <2>2, <2>3, <2>4, <2>5, <2>6, <2>7, <2>8, <2>9, <2>10
          DEF MainStep
<1>3. CASE UserEvent
  <2>1. CASE UserStart
    BY <2>1 DEF UserStart, Started
  <2>2. CASE \E then \in {"idle", "reset"} : UserStop(then)
    BY <2>2 DEF UserStop
  <2>3. CASE UserBlock
    BY <2>3 DEF UserBlock
  <2>4. CASE UserInterrupt
    BY <2>4 DEF UserInterrupt, Started
  <2>5. CASE UserBorder
    BY <2>5 DEF UserBorder
  <2>6. CASE \E command \in Commands : UserCommand(command)
    <3>1. CASE ~running /\ ~debug_stopped
      BY <2>6, <3>1 DEF UserCommand, QueueCommand, Started
    <3>2. CASE running \/ debug_stopped
      BY <2>6, <3>2 DEF UserCommand, QueueCommand
    <3> QED BY <3>1, <3>2
  <2> QED BY <1>3, <2>1, <2>2, <2>3, <2>4, <2>5, <2>6 DEF UserEvent
<1>4. CASE UNCHANGED vars
  BY <1>4 DEF vars
<1> QED BY <1>1, <1>2, <1>3, <1>4 DEF Next

(* The debugger is looked at in the order of stop on the one side and of   *)
(* debugger_run on the other, and every step keeps the one of the two that *)
(* came second honest.                                                     *)
LEMMA InputStep == ThreadInv /\ InputInv /\ [Next]_vars => InputInv'
<1> SUFFICES ASSUME ThreadInv, InputInv, [Next]_vars
             PROVE  InputInv'
  OBVIOUS
<1> USE DEF ThreadInv, InputInv, WaitsForInput, Commands, Null, EmuStates, MainStates, StopStates,
            EmuAt, MainAt, SetStopped, Active, UpdateActive, SetDisabled, flags, debug, console
<1>1. CASE EmuStep
  <2>1. CASE Loop
    BY <2>1 DEF Loop
  <2>2. CASE EnterDebugger
    BY <2>2 DEF EnterDebugger
  <2>3. CASE TestBreakpoint
    BY <2>3 DEF TestBreakpoint
  <2>4. CASE CheckStopped
    BY <2>4 DEF CheckStopped
  <2>5. CASE SideView
    BY <2>5 DEF SideView
  <2>6. CASE AskForInput
    BY <2>6 DEF AskForInput
  <2>7. CASE GetInput
    <3>1. /\ emu = "input" /\ emu' \in {"cpu", "leave", "breakpoint"}
          /\ UNCHANGED <<debug_disable, main, main_queue>>
      BY <2>7 DEF GetInput
    <3>2. input' \in Seq(Commands \union {Null})
      BY <2>7 DEF GetInput
    <3> QED BY <3>1, <3>2
  <2>8. CASE LeaveDebugger
    BY <2>8 DEF LeaveDebugger
  <2>9. CASE EnterCpu
    BY <2>9 DEF EnterCpu
  <2>10. CASE VBlank
    BY <2>10 DEF VBlank
  <2>11. CASE BorderDone
    BY <2>11 DEF BorderDone
  <2>12. CASE LeaveCpu
    BY <2>12 DEF LeaveCpu
  <2>13. CASE AsyncCommand
    BY <2>13 DEF AsyncCommand
  <2>14. CASE TestPending
    BY <2>14 DEF TestPending
  <2>15. CASE RunPending
    BY <2>15 DEF RunPending
  <2>16. CASE EndRun
    BY <2>16 DEF EndRun
  <2> QED BY <1>1, <2>1, <2>2, <2>3, <2>4, <2>5, <2>6, <2>7, <2>8, <2>9,
             <2>10, <2>11, <2>12, <2>13, <2>14, <2>15, <2>16
          DEF EmuStep
<1>2. CASE MainStep
  <2>1. CASE StopDisable
    BY <2>1 DEF StopDisable
  <2>2. CASE StopWake
    BY <2>2 DEF StopWake
  <2>3. CASE StopFlag
    BY <2>3 DEF StopFlag
  <2>4. CASE StopRunning
    BY <2>4 DEF StopRunning
  <2>5. CASE StopReturn
    BY <2>5 DEF StopReturn
  <2>6. CASE ResetDone
    BY <2>6 DEF ResetDone, Started
  <2>7. CASE BlockDone
    BY <2>7 DEF BlockDone
  <2>8. CASE ServeAsync
    <3>1. CASE ~running /\ ~debug_stopped
      BY <2>8, <3>1 DEF ServeAsync, QueueCommand, Started
    <3>2. CASE running \/ debug_stopped
      BY <2>8, <3>2 DEF ServeAsync, QueueCommand
    <3> QED BY <3>1, <3>2
  <2>9. CASE Serve
    BY <2>9 DEF Serve
  <2>10. CASE ServeDone
    BY <2>10 DEF ServeDone
  <2> QED BY <1>2, <2>1, <2>2, <2>3, <2>4, <2>5, <2>6, <2>7, <2>8, <2>9,
             <2>10
          DEF MainStep
<1>3. CASE UserEvent
  <2>1. CASE UserStart
    BY <2>1 DEF UserStart, Started
  <2>2. CASE \E then \in {"idle", "reset"} : UserStop(then)
    BY <2>2 DEF UserStop
  <2>3. CASE UserBlock
    BY <2>3 DEF UserBlock
  <2>4. CASE UserInterrupt
    BY <2>4 DEF UserInterrupt, Started
  <2>5. CASE UserBorder
    BY <2>5 DEF UserBorder
  <2>6. CASE \E command \in Commands : UserCommand(command)
    <3>1. CASE ~running /\ ~debug_stopped
      BY <2>6, <3>1 DEF UserCommand, QueueCommand, Started
    <3>2. CASE running \/ debug_stopped
      BY <2>6, <3>2 DEF UserCommand, QueueCommand
    <3> QED BY <3>1, <3>2
  <2> QED BY <1>3, <2>1, <2>2, <2>3, <2>4, <2>5, <2>6
          DEF UserEvent
<1>4. CASE UNCHANGED vars
  BY <1>4 DEF vars
<1> QED BY <1>1, <1>2, <1>3, <1>4 DEF Next

(* A document begins without a thread.                                     *)
LEMMA Initially == Init => IInv
<1>1. Init => ThreadInv
  BY DEF Init, ThreadInv, EmuStates, MainStates, StopStates
<1>2. << >> \in Seq(Commands \union {Null})
  OBVIOUS
<1>3. Init => InputInv
  BY <1>2 DEF Init, InputInv, WaitsForInput
<1> QED BY <1>1, <1>3 DEF IInv

(* The two invariants hold, whatever the user's means are. *)
THEOREM Invariance == Spec => []IInv
<1>1. IInv /\ [Next]_vars => IInv'
  BY ThreadStep, InputStep DEF IInv
<1> QED BY Initially, <1>1, PTL DEF Spec

(* Paused means gone: once stop has returned there is no emulation thread. *)
THEOREM PausedIsQuiescent == Spec => []Quiescent
<1>1. IInv => Quiescent
  BY DEF IInv, ThreadInv, Quiescent
<1> QED BY <1>1, Invariance, PTL

(* stop never waits for a thread that waits for debugger input.            *)
THEOREM StopIsHeard == Spec => []InputNeverStarves
<1>1. IInv => InputNeverStarves
  BY DEF IInv, InputInv, WaitsForInput, InputNeverStarves
<1> QED BY <1>1, Invariance, PTL

-----------------------------------------------------------------------------
(* In a game that is just played, the debugger never stops; and a block    *)
(* the main thread runs itself finds no thread.                            *)
QuietInv ==
    /\ ~debug_stopped /\ ~paused_command /\ ~async_command
    /\ main = "block" => ~running
    /\ running_thread <=> \/ emu \in {"in_cpu", "border_done", "vblank_end"}
                          \/ emu = "sync" /\ main_queue = "border"
    /\ {paused_command, async_command, running_thread} \subseteq BOOLEAN
    /\ main_queue \in {"none", "border"}

(* Without the debugger, the debugger stops nobody, and the invariant of a *)
(* quiet document is kept by every step.                                   *)
LEMMA QuietStep ==
    ASSUME ~debugging, ThreadInv, QuietInv, [Next]_vars
    PROVE  QuietInv'
<1> USE ~debugging
        DEF ThreadInv, QuietInv, EmuStates, MainStates, StopStates, EmuAt, MainAt,
            SetStopped, Active, UpdateActive, SetDisabled, flags, debug, console
<1>1. CASE EmuStep
  <2>1. CASE Loop
    BY <2>1 DEF Loop
  <2>2. CASE EnterDebugger
    BY <2>2 DEF EnterDebugger
  <2>3. CASE TestBreakpoint
    BY <2>3 DEF TestBreakpoint
  <2>4. CASE CheckStopped
    BY <2>4 DEF CheckStopped
  <2>5. CASE SideView
    BY <2>5 DEF SideView
  <2>6. CASE AskForInput
    BY <2>6 DEF AskForInput
  <2>7. CASE GetInput
    BY <2>7 DEF GetInput
  <2>8. CASE LeaveDebugger
    BY <2>8 DEF LeaveDebugger
  <2>9. CASE EnterCpu
    BY <2>9 DEF EnterCpu
  <2>10. CASE VBlank
    BY <2>10 DEF VBlank
  <2>11. CASE BorderDone
    BY <2>11 DEF BorderDone
  <2>12. CASE LeaveCpu
    BY <2>12 DEF LeaveCpu
  <2>13. CASE AsyncCommand
    BY <2>13 DEF AsyncCommand
  <2>14. CASE TestPending
    BY <2>14 DEF TestPending
  <2>15. CASE RunPending
    BY <2>15 DEF RunPending
  <2>16. CASE EndRun
    BY <2>16 DEF EndRun
  <2> QED BY <1>1, <2>1, <2>2, <2>3, <2>4, <2>5, <2>6, <2>7, <2>8, <2>9,
             <2>10, <2>11, <2>12, <2>13, <2>14, <2>15, <2>16
          DEF EmuStep
<1>2. CASE MainStep
  <2>1. CASE StopDisable
    BY <2>1 DEF StopDisable
  <2>2. CASE StopWake
    BY <2>2 DEF StopWake
  <2>3. CASE StopFlag
    BY <2>3 DEF StopFlag
  <2>4. CASE StopRunning
    BY <2>4 DEF StopRunning
  <2>5. CASE StopReturn
    BY <2>5 DEF StopReturn
  <2>6. CASE ResetDone
    BY <2>6 DEF ResetDone, Started
  <2>7. CASE BlockDone
    BY <2>7 DEF BlockDone
  <2>8. CASE ServeAsync
    <3>1. CASE ~running /\ ~debug_stopped
      BY <2>8, <3>1 DEF ServeAsync, QueueCommand, Started
    <3>2. CASE running \/ debug_stopped
      BY <2>8, <3>2 DEF ServeAsync, QueueCommand
    <3> QED BY <3>1, <3>2
  <2>9. CASE Serve
    BY <2>9 DEF Serve
  <2>10. CASE ServeDone
    BY <2>10 DEF ServeDone
  <2> QED BY <1>2, <2>1, <2>2, <2>3, <2>4, <2>5, <2>6, <2>7, <2>8, <2>9,
             <2>10
          DEF MainStep
<1>3. CASE UserEvent
  <2>1. CASE UserStart
    BY <2>1 DEF UserStart, Started
  <2>2. CASE \E then \in {"idle", "reset"} : UserStop(then)
    BY <2>2 DEF UserStop
  <2>3. CASE UserBlock
    BY <2>3 DEF UserBlock
  <2>4. CASE UserInterrupt
    BY <2>4 DEF UserInterrupt, Started
  <2>5. CASE UserBorder
    BY <2>5 DEF UserBorder
  <2>6. CASE \E command \in Commands : UserCommand(command)
    <3>1. CASE ~running /\ ~debug_stopped
      BY <2>6, <3>1 DEF UserCommand, QueueCommand, Started
    <3>2. CASE running \/ debug_stopped
      BY <2>6, <3>2 DEF UserCommand, QueueCommand
    <3> QED BY <3>1, <3>2
  <2> QED BY <1>3, <2>1, <2>2, <2>3, <2>4, <2>5, <2>6
          DEF UserEvent
<1>4. CASE UNCHANGED vars
  BY <1>4 DEF vars
<1> QED BY <1>1, <1>2, <1>3, <1>4 DEF Next

(* The main thread never uses the core while the emulation thread does, in *)
(* a game that is not debugged, whatever a debugger's user could do.       *)
THEOREM CoreIsExclusive == Spec => []GameCoreExclusive
<1> DEFINE GameInv == ~debugging => QuietInv
<1>1. Init => GameInv
  BY DEF Init, QuietInv
<1>2. IInv /\ GameInv /\ [Next]_vars => GameInv'
  <2> SUFFICES ASSUME IInv, GameInv, [Next]_vars, ~debugging'
               PROVE  QuietInv'
    OBVIOUS
  <2>1. ~debugging
    BY DEF Next, EmuStep, MainStep, UserEvent, vars
  <2> QED BY <2>1, QuietStep DEF IInv
<1>3. IInv /\ GameInv => GameCoreExclusive
  BY DEF IInv, ThreadInv, QuietInv, GameCoreExclusive, CoreExclusive, EmuInCore, MainStates,
         EmuStates
<1> QED BY <1>1, <1>2, <1>3, Invariance, PTL DEF Spec
=============================================================================
