-------------------------------- MODULE Pace --------------------------------
(***************************************************************************)
(* How the emulated machine keeps to the time of day (Core/timing.c), and  *)
(* GB_run and GB_run_frame, the loops of a frontend (Core/gb.c).           *)
(*                                                                         *)
(* GB_timing_sync is called at every vertical blank and when a program     *)
(* reads the keys.  It sleeps until the time of day is that of the cycles  *)
(* that were run.  A small lag is left to even out, a large one, or a      *)
(* large lead, is forgiven: the pace begins anew.  In turbo mode nothing   *)
(* is awaited, and a frame that comes early is not shown.                  *)
(*                                                                         *)
(* Time is in sixths of a frame, the least that is synchronised, or in a   *)
(* finer unit; the last synchronisation is kept as `lag`, the time since   *)
(* it.                                                                     *)
(***************************************************************************)
EXTENDS Integers

CONSTANTS
    Frame,         \* a frame's time: 6, or more of a finer unit
    Forgiven,      \* the first whole time from 1.2 frames on: 8
    MaxRun,        \* bounds the time run in one step
    MaxCycles,     \* bounds the time run between two synchronisations
    Stalls,        \* the times the host may take for a step
    Oversleep      \* how much too long the host may sleep

ASSUME PaceAssumption ==
    /\ Frame \in Nat /\ Frame >= 6 /\ Forgiven \in Nat /\ Forgiven > 0
    /\ MaxRun \in Nat /\ MaxCycles \in Nat /\ Stalls \subseteq Nat
    /\ Oversleep \in 0 .. MaxCycles

VARIABLES
    cycles_since_last_sync,
    lag,                       \* now - last_sync
    turbo, turbo_dont_skip,
    position,                  \* the time since the vertical blank
    in_frame,                  \* GB_run_frame runs: none, or the turbo modes it keeps
    returned, passed,          \* what GB_run_frame returned, and history: what passed
    excess, deficit            \* history: see KeepsPace

paceVars == <<cycles_since_last_sync, lag, turbo, turbo_dont_skip, position, in_frame,
          returned, passed, excess, deficit>>

Threshold == Frame \div 6
Least(i, j) == IF i < j THEN i ELSE j
Positive(i) == IF i > 0 THEN i ELSE 0
-----------------------------------------------------------------------------
(***************************************************************************)
(* The pace is measured as a leaky bucket: `run` units of emulated time    *)
(* against `took` units of the time of day, over the worst stretch up to   *)
(* now.  Turbo mode and a pace that begins anew empty both buckets.        *)
(***************************************************************************)
Measure(run, took) ==
    /\ excess' = IF turbo THEN 0 ELSE Positive(excess + run - took)
    /\ deficit' = IF turbo \/ (run > 0 /\ took > run) THEN 0 ELSE Positive(deficit + took - run)

Anew == excess' = 0 /\ deficit' = 0

\* Instructions, or a part of the SGB's intro: the host takes its own time for them.
GB_run ==
    \E n \in 1 .. MaxRun, took \in Stalls :
        /\ position + n <= Frame
        /\ position' = position + n
        /\ cycles_since_last_sync + n <= MaxCycles
        /\ cycles_since_last_sync' = cycles_since_last_sync + n
        /\ lag' = Least(lag + took, MaxCycles + Forgiven)
        /\ Measure(n, took)
        /\ passed' = IF in_frame = {} THEN 0 ELSE passed + n
        /\ UNCHANGED <<turbo, turbo_dont_skip, in_frame, returned>>

-----------------------------------------------------------------------------
\* GB_timing_sync_turbo: the frame is skipped, or time is taken and it is shown.
Skips == turbo /\ ~turbo_dont_skip /\ lag <= Frame

TimeToSleep(late) == cycles_since_last_sync - late

(***************************************************************************)
(* GB_timing_sync, `late` after the last synchronisation.                  *)
(***************************************************************************)
TooEarly(late) ==
    /\ cycles_since_last_sync < Threshold
    /\ lag' = late
    /\ UNCHANGED <<cycles_since_last_sync, excess, deficit>>

NotInTurbo(late) ==
    /\ cycles_since_last_sync >= Threshold /\ turbo
    /\ lag' = late
    /\ cycles_since_last_sync' = 0
    /\ UNCHANGED <<excess, deficit>>

SleepAnew(late) ==    \* mutant: what was slept too long is forgotten
    /\ cycles_since_last_sync >= Threshold /\ ~turbo
    /\ TimeToSleep(late) > 0 /\ TimeToSleep(late) < Forgiven
    /\ lag' = 0
    /\ \E over \in 0 .. Oversleep : Measure(0, TimeToSleep(late) + over)
    /\ cycles_since_last_sync' = 0

Sleep(late) ==
    /\ cycles_since_last_sync >= Threshold /\ ~turbo
    /\ TimeToSleep(late) > 0 /\ TimeToSleep(late) < Forgiven
    /\ \E over \in 0 .. Oversleep :
          /\ lag' = late + TimeToSleep(late) + over - cycles_since_last_sync
          /\ Measure(0, TimeToSleep(late) + over)
    /\ cycles_since_last_sync' = 0

EvenOutAll(late) ==    \* mutant: any lag is evened out
    /\ cycles_since_last_sync >= Threshold /\ ~turbo
    /\ TimeToSleep(late) < 0
    /\ lag' = late
    /\ UNCHANGED <<cycles_since_last_sync, excess, deficit>>

EvenOut(late) ==
    /\ cycles_since_last_sync >= Threshold /\ ~turbo
    /\ TimeToSleep(late) < 0 /\ -TimeToSleep(late) < Forgiven
    /\ lag' = late
    /\ UNCHANGED <<cycles_since_last_sync, excess, deficit>>

Forgive(late) ==
    /\ cycles_since_last_sync >= Threshold /\ ~turbo
    /\ TimeToSleep(late) = 0 \/ TimeToSleep(late) >= Forgiven \/ TimeToSleep(late) <= -Forgiven
    /\ lag' = 0 /\ cycles_since_last_sync' = 0
    /\ IF TimeToSleep(late) = 0 THEN UNCHANGED <<excess, deficit>> ELSE Anew

GB_timing_sync(late) ==
    TooEarly(late) \/ NotInTurbo(late) \/ Sleep(late) \/ EvenOut(late) \/ Forgive(late)

\* A program reads the keys.
ReadKeys ==
    /\ position < Frame
    /\ GB_timing_sync(lag)
    /\ UNCHANGED <<turbo, turbo_dont_skip, position, in_frame, returned, passed>>

(***************************************************************************)
(* GB_display_vblank; GB_run_frame returns after it, with the turbo modes  *)
(* that it found.                                                          *)
(***************************************************************************)
Vblank ==
    /\ position = Frame /\ position' = 0
    /\ IF Skips
       THEN UNCHANGED <<cycles_since_last_sync, lag, excess, deficit>>
       ELSE GB_timing_sync(IF turbo /\ ~turbo_dont_skip THEN 0 ELSE lag)
    /\ IF in_frame = {}
       THEN UNCHANGED <<turbo, turbo_dont_skip, in_frame, returned, passed>>
       ELSE /\ in_frame' = {}
            /\ \E old \in in_frame : turbo' = old.turbo /\ turbo_dont_skip' = old.dont_skip
            /\ returned' = cycles_since_last_sync'
            /\ passed' = passed

GB_run_frame ==
    /\ in_frame = {} /\ position < Frame
    /\ in_frame' = {[turbo |-> turbo, dont_skip |-> turbo_dont_skip]}
    /\ turbo' = TRUE /\ turbo_dont_skip' = TRUE
    /\ cycles_since_last_sync' = 0
    /\ returned' = 0 /\ passed' = 0
    /\ Anew
    /\ UNCHANGED <<lag, position>>

GB_set_turbo_mode ==
    /\ in_frame = {}
    /\ turbo' \in BOOLEAN /\ turbo_dont_skip' \in BOOLEAN
    /\ IF turbo' # turbo THEN Anew ELSE UNCHANGED <<excess, deficit>>
    /\ UNCHANGED <<cycles_since_last_sync, lag, position, in_frame, returned, passed>>
-----------------------------------------------------------------------------
PaceInit ==
    /\ cycles_since_last_sync = 0 /\ lag = 0
    /\ turbo = FALSE /\ turbo_dont_skip = FALSE
    /\ position = 0 /\ in_frame = {} /\ returned = 0 /\ passed = 0
    /\ excess = 0 /\ deficit = 0

PaceNext == GB_run \/ ReadKeys \/ Vblank \/ GB_run_frame \/ GB_set_turbo_mode

PaceSpec == PaceInit /\ [][PaceNext]_paceVars
-----------------------------------------------------------------------------
(***************************************************************************)
(* Over no stretch of time without turbo does the machine run ahead of the *)
(* time of day by more than two frames, each of them longer by the time    *)
(* that is too early to synchronise, and the lag that is left to even out; *)
(* and what the host sleeps too long does not add up, so that the machine  *)
(* falls behind by no more than the time of one sleep.  Left out are the   *)
(* stretches in which the host was itself too slow.                        *)
(***************************************************************************)
KeepsPace ==
    /\ excess <= (Forgiven - 1) + 2 * (Frame + Threshold - 1)
    /\ deficit <= lag + (Forgiven - 1)

(***************************************************************************)
(* GB_run_frame "Returns the time passed since the last frame, in          *)
(* nanoseconds" (Core/gb.h:919): of a frame that it ran as a whole, that   *)
(* is the time of the frame.                                               *)
(***************************************************************************)
RunFrameTime == (in_frame = {} /\ passed = Frame) => returned = Frame
=============================================================================
