-------------------------------- MODULE Apu --------------------------------
(***************************************************************************)
(* The length counter, the envelope and the trigger of a sound channel     *)
(* (Core/apu.c), clocked by a bit of DIV: its falling edge is              *)
(* GB_apu_div_event, its rising edge GB_apu_div_secondary_event, and a     *)
(* write to DIV makes it fall early.                                       *)
(*                                                                         *)
(* The channels share nothing but that clock and the power switch, so that *)
(* a behaviour is about one of them.  The frequency and the wave are in    *)
(* ApuRun, but for the frequency sweep of the first square channel, which  *)
(* is here too: what a trigger, a clock and a write to NR10 begin is       *)
(* calculated some cycles later, and what was calculated is used at the    *)
(* next clock.  It has its own variables, and a behaviour of its own.      *)
(***************************************************************************)
EXTENDS Integers

CONSTANTS
    LengthMax,      \* 0x40, and 0x100 for the wave channel
    Machines,       \* the pairs of a channel's kind and a model
    Lengths,        \* kind -> the lengths written to NRx1, in 0 .. LengthMax - 1
    Envelopes,      \* kind -> the values written to NRx2
    MaxVolume,      \* bound on a volume that has left its four bits
    MaxFrequency,   \* 0x7FF
    Shifts, SweepPaces,     \* values of NR10, in 0..7
    SweepFrequencies,       \* written to NR13 and NR14
    SweepMachines,          \* pairs of a model and whether it runs at double speed
    MaxClocks               \* bound on the sweep's clocks and the writes to NR10

Kinds == {"square", "wave", "noise"}
Models == {"DMG", "CGB_B", "CGB_C", "CGB_E"}

(* NRx2. *)
Registers == [volume : 0 .. 15, up : BOOLEAN, pace : 0 .. 7]

ASSUME ChannelAssumption ==
    /\ LengthMax \in Nat /\ LengthMax > 1 /\ Machines \subseteq Kinds \X Models
    /\ Lengths \in [Kinds -> SUBSET (0 .. LengthMax - 1)]
    /\ Envelopes \in [Kinds -> SUBSET Registers]
ASSUME SweepAssumption ==
    /\ MaxFrequency \in Nat /\ SweepFrequencies \subseteq 0 .. MaxFrequency
    /\ Shifts \subseteq 0 .. 7 /\ SweepPaces \subseteq 0 .. 7

VARIABLES
    kind,           \* of the channel
    model,
    global_enable, div_high, div_divider, skip_div_event,
    is_active, pulse_length, length_enabled, length_bit,
    envelope,       \* the volume, its countdown, and GB_envelope_clock_t
    nrx2,           \* NRx2; on the wave channel, whether NR30 enables the DAC
    delayed,        \* dmg_delayed_start is running
    rewritten       \* NRx2 was written while the channel was active

clockVars == <<global_enable, div_high, div_divider, skip_div_event>>
lengthVars == <<is_active, pulse_length, length_enabled, length_bit>>
channelVars == <<kind, model, clockVars, lengthVars, envelope, nrx2, delayed, rewritten>>

IsCgb == model # "DMG"
UpToC == model # "CGB_E"

Zero == [volume |-> 0, up |-> FALSE, pace |-> 0]
AllOnes == [volume |-> 15, up |-> TRUE, pace |-> 7]

(* GB_apu_is_DAC_enabled: NRx2 & 0xF8. *)
DacOn(value) == value.volume # 0 \/ value.up

Silent == [volume |-> 0, countdown |-> 0, clock |-> FALSE, locked |-> FALSE, should_lock |-> FALSE]

ChannelInit ==
    /\ \E machine \in Machines : kind = machine[1] /\ model = machine[2]
    /\ global_enable = FALSE /\ div_high \in BOOLEAN
    /\ div_divider = 0 /\ skip_div_event = "INACTIVE"
    /\ is_active = FALSE /\ pulse_length = 0 /\ length_enabled = FALSE /\ length_bit = FALSE
    /\ envelope = Silent /\ nrx2 = Zero /\ delayed = FALSE /\ rewritten = FALSE

-----------------------------------------------------------------------------
(* set_envelope_clock. *)
LoweredUnlocked(e) == [e EXCEPT !.clock = FALSE]    \* mutant: the lock is lost

Lowered(e) ==
    IF e.clock THEN [e EXCEPT !.clock = FALSE, !.locked = @ \/ e.should_lock] ELSE e

Raised(e, up) ==
    IF e.clock THEN e
    ELSE [e EXCEPT !.clock = TRUE,
                   !.should_lock = IF up THEN e.volume = 15 ELSE e.volume = 0]

(* tick_square_envelope, tick_noise_envelope: the volume is a byte. *)
Ticked(e) ==
    LET low == Lowered(e) IN
    IF ~e.clock \/ low.locked \/ nrx2.pace = 0 THEN low
    ELSE [low EXCEPT !.volume = (@ + (IF nrx2.up THEN 1 ELSE -1)) % 256]

(* _nrx2_glitch: what a write to NRx2 does to a sound that plays.          *)
Inverted(e, up, old) ==
    IF ~up THEN (16 - e.volume) % 16
    ELSE IF old.pace = 0 /\ ~e.locked THEN 16 * (e.volume \div 16) + 15 - (e.volume % 16)
    ELSE (14 - e.volume) % 16

Glitch(e, value, old) ==
    LET invert == value.up # old.up
        holds == value.up /\ value.pace = 0 /\ old.up /\ old.pace = 0
        tick == /\ ~e.locked
                /\ holds \/ (value.pace # 0 /\ old.pace = 0)
                /\ ~(invert /\ value.up)
        counted == IF e.clock THEN value.pace ELSE e.countdown
        volume == IF invert THEN Inverted(e, value.up, old) ELSE e.volume
        written == [e EXCEPT !.countdown = counted, !.volume = volume]
    IN  IF tick THEN [written EXCEPT !.volume = (@ + (IF value.up THEN 1 ELSE -1)) % 16]
        ELSE IF value.pace = 0 THEN Lowered(written)
        ELSE written

(* nrx2_glitch: up to revision C the register is all ones for a moment.    *)
Rewritten(e, value) ==
    IF UpToC THEN Glitch(Glitch(e, AllOnes, nrx2), value, AllOnes)
    ELSE Glitch(e, value, nrx2)

-----------------------------------------------------------------------------
(* GB_apu_div_event, at the falling edge of the bit.                       *)
CountedDown(e) == IF e.clock THEN e ELSE [e EXCEPT !.countdown = (@ - 1) % 8]

LengthClockedIgnoring(odd) ==    \* mutant: length_enabled is not looked at
    IF odd /\ pulse_length # 0
    THEN pulse_length' = pulse_length - 1 /\ is_active' = (is_active /\ pulse_length # 1)
    ELSE UNCHANGED <<pulse_length, is_active>>

LengthClocked(odd) ==
    IF odd /\ length_enabled /\ pulse_length # 0
    THEN pulse_length' = pulse_length - 1 /\ is_active' = (is_active /\ pulse_length # 1)
    ELSE UNCHANGED <<pulse_length, is_active>>

DivEvent ==
    LET divider == IF skip_div_event = "SKIPPED" THEN div_divider ELSE (div_divider + 1) % 8
        counted == IF divider = 7 /\ kind # "wave" THEN CountedDown(envelope) ELSE envelope
    IN  IF ~global_enable
        THEN UNCHANGED <<div_divider, skip_div_event, lengthVars, envelope>>
        ELSE IF skip_div_event = "SKIP"
        THEN skip_div_event' = "SKIPPED" /\ UNCHANGED <<div_divider, lengthVars, envelope>>
        ELSE /\ div_divider' = divider
             /\ skip_div_event' = "INACTIVE"
             /\ envelope' = Ticked(counted)
             /\ LengthClocked(divider % 2 = 1)
             /\ UNCHANGED <<length_enabled, length_bit>>

Fall ==
    /\ div_high /\ div_high' = FALSE
    /\ envelope.volume <= MaxVolume
    /\ DivEvent
    /\ UNCHANGED <<kind, model, global_enable, nrx2, delayed, rewritten>>

(* GB_apu_div_secondary_event, at the rising edge. *)
Rise ==
    /\ ~div_high /\ div_high' = TRUE
    /\ envelope' =
           IF global_enable /\ kind # "wave" /\ is_active /\ envelope.countdown = 0
           THEN LET e == [envelope EXCEPT !.countdown = nrx2.pace]
                IN  IF nrx2.pace # 0 THEN Raised(e, nrx2.up) ELSE Lowered(e)
           ELSE envelope
    /\ UNCHANGED <<kind, model, global_enable, div_divider, skip_div_event, lengthVars, nrx2,
                   delayed, rewritten>>

-----------------------------------------------------------------------------
(* GB_apu_write.  Off, only the lengths of a DMG can be written.           *)
WriteNRx1(value) ==
    /\ global_enable \/ ~IsCgb
    /\ pulse_length' = LengthMax - value
    /\ UNCHANGED <<kind, model, clockVars, is_active, length_enabled, length_bit, envelope, nrx2,
                   delayed, rewritten>>

WriteNRx2(value) ==
    /\ global_enable /\ kind # "wave"
    /\ nrx2' = value
    /\ is_active' = (is_active /\ DacOn(value))
    /\ envelope' = IF is_active /\ DacOn(value) THEN Rewritten(envelope, value) ELSE envelope
    /\ rewritten' = (rewritten \/ is_active)
    /\ UNCHANGED <<kind, model, clockVars, pulse_length, length_enabled, length_bit, delayed>>

WriteNR30(enable) ==
    /\ global_enable /\ kind = "wave"
    /\ nrx2' = [Zero EXCEPT !.up = enable]
    /\ is_active' = (is_active /\ enable)
    /\ UNCHANGED <<kind, model, clockVars, pulse_length, length_enabled, length_bit, envelope,
                   delayed, rewritten>>

(* The end of the write to NRx4: a length that is enabled while the        *)
(* divider is odd is clocked at once; up to revision B, whatever is        *)
(* written, except on the noise channel.                                   *)
SignalRisesAlways(enable, enabled) ==    \* mutant: the divider is not looked at
    ~enabled /\ (enable \/ (model = "CGB_B" /\ kind # "noise"))

SignalRises(enable, enabled) ==
    /\ div_divider % 2 = 1 /\ ~enabled
    /\ enable \/ (model = "CGB_B" /\ kind # "noise")

EnableLength(trigger, enable, length, enabled, playing) ==
    LET clocked == SignalRises(enable, enabled) /\ length # 0 IN
    /\ pulse_length' = IF ~clocked THEN length
                       ELSE IF length = 1 /\ trigger THEN LengthMax - 1
                       ELSE length - 1
    /\ is_active' = (playing /\ ~(clocked /\ length = 1 /\ ~trigger))
    /\ length_enabled' = enable /\ length_bit' = enable

(* A trigger; the length that ran out is set to its maximum. *)
Trigger(enable) ==
    /\ envelope' = [envelope EXCEPT !.volume = nrx2.volume, !.countdown = nrx2.pace,
                                    !.clock = FALSE, !.locked = FALSE]
    /\ IF pulse_length = 0
       THEN EnableLength(TRUE, enable, LengthMax, FALSE, is_active \/ DacOn(nrx2))
       ELSE EnableLength(TRUE, enable, pulse_length, length_enabled, is_active \/ DacOn(nrx2))
    /\ rewritten' = FALSE

(* The noise channel of a DMG starts six cycles late when it is not        *)
(* aligned with its clock.                                                 *)
DelayTrigger(enable) ==
    /\ kind = "noise" /\ ~IsCgb
    /\ delayed' = TRUE
    /\ envelope' = [envelope EXCEPT !.clock = FALSE, !.locked = FALSE]
    /\ EnableLength(TRUE, enable, pulse_length, length_enabled, is_active)
    /\ UNCHANGED rewritten

WriteNRx4(trigger, enable) ==
    /\ global_enable
    /\ \/ ~trigger
          /\ EnableLength(FALSE, enable, pulse_length, length_enabled, is_active)
          /\ UNCHANGED <<envelope, delayed, rewritten>>
       \/ trigger /\ Trigger(enable) /\ UNCHANGED delayed
       \/ trigger /\ DelayTrigger(enable)
    /\ UNCHANGED <<kind, model, clockVars, nrx2>>

(* start_ch4: NR44 is written again, with its trigger bit. *)
DelayedStart ==
    /\ delayed /\ delayed' = FALSE
    /\ Trigger(length_bit)
    /\ UNCHANGED <<kind, model, clockVars, nrx2>>

(* NR52.  Switched on while DIV's bit is high, the first event is skipped. *)
PowerOn ==
    /\ ~global_enable /\ global_enable' = TRUE
    /\ skip_div_event' = IF div_high THEN "SKIP" ELSE "INACTIVE"
    /\ div_divider' = IF div_high THEN 1 ELSE 0
    /\ pulse_length' = IF IsCgb THEN 0 ELSE pulse_length
    /\ UNCHANGED <<kind, model, div_high, is_active, length_enabled, length_bit, envelope, nrx2,
                   delayed, rewritten>>

PowerOffKeeping ==    \* mutant: the length counters are not reset with the rest
    /\ global_enable /\ global_enable' = FALSE
    /\ is_active' = FALSE /\ length_bit' = FALSE
    /\ envelope' = Silent /\ nrx2' = Zero /\ delayed' = FALSE /\ rewritten' = FALSE
    /\ UNCHANGED <<kind, model, div_high, div_divider, skip_div_event, pulse_length,
                   length_enabled>>

PowerOff ==
    /\ global_enable /\ global_enable' = FALSE
    /\ div_divider' = 0 /\ skip_div_event' = "INACTIVE"
    /\ is_active' = FALSE /\ pulse_length' = 0 /\ length_enabled' = FALSE /\ length_bit' = FALSE
    /\ envelope' = Silent /\ nrx2' = Zero /\ delayed' = FALSE /\ rewritten' = FALSE
    /\ UNCHANGED <<kind, model, div_high>>

ChannelNext ==
    \/ Fall \/ Rise \/ PowerOn \/ PowerOff \/ DelayedStart
    \/ \E value \in Lengths[kind] : WriteNRx1(value)
    \/ \E value \in Envelopes[kind] : WriteNRx2(value)
    \/ \E enable \in BOOLEAN : WriteNR30(enable)
    \/ \E trigger, enable \in BOOLEAN : WriteNRx4(trigger, enable)

-----------------------------------------------------------------------------
VARIABLES
    sweep_model, sweep_double, lf_div,
    nr10,                   \* [pace, negate, shift]
    active, sample_length,
    shadow_sweep_sample_length, sweep_length_addend, channel1_completed_addend,
    calculate_countdown,    \* square_sweep_calculate_countdown
    reload_timer,           \* square_sweep_calculate_countdown_reload_timer
    restart_hold, square_sweep_countdown, instant_calculation_done, unshifted_sweep,
    expected,               \* what the sweep should have come to
    steady,                 \* NR10 and the frequency are as they were at the trigger
    clocks

unit == <<sample_length, shadow_sweep_sample_length, sweep_length_addend,
          channel1_completed_addend, calculate_countdown, reload_timer, restart_hold,
          square_sweep_countdown, instant_calculation_done, unshifted_sweep>>
sweepVars == <<sweep_model, sweep_double, lf_div, nr10, active, unit, expected, steady, clocks>>

Powers == <<1, 2, 4, 8, 16, 32, 64, 128>>
Addend(frequency, shift) == frequency \div Powers[shift + 1]
SweepUpToC == sweep_model \in {"DMG", "CGB_C"}
SweepIsCgb == sweep_model # "DMG"
Bit(b) == IF b THEN 1 ELSE 0

(* The unit as a record, on which the functions below work. *)
Unit == [length |-> sample_length, shadow |-> shadow_sweep_sample_length,
         addend |-> sweep_length_addend, completed |-> channel1_completed_addend,
         calculate |-> calculate_countdown, reload |-> reload_timer, hold |-> restart_hold,
         countdown |-> square_sweep_countdown, instant |-> instant_calculation_done,
         unshifted |-> unshifted_sweep, active |-> active, held |-> FALSE]

Becomes(u) ==
    /\ sample_length' = u.length /\ shadow_sweep_sample_length' = u.shadow
    /\ sweep_length_addend' = u.addend /\ channel1_completed_addend' = u.completed
    /\ calculate_countdown' = u.calculate /\ reload_timer' = u.reload /\ restart_hold' = u.hold
    /\ square_sweep_countdown' = u.countdown /\ instant_calculation_done' = u.instant
    /\ unshifted_sweep' = u.unshifted /\ active' = u.active

SweepInit ==
    /\ \E machine \in SweepMachines : sweep_model = machine[1] /\ sweep_double = machine[2]
    /\ lf_div = 1 /\ nr10 = [pace |-> 0, negate |-> FALSE, shift |-> 0]
    /\ active = FALSE /\ sample_length = 0
    /\ shadow_sweep_sample_length = 0 /\ sweep_length_addend = 0
    /\ channel1_completed_addend = 0 /\ calculate_countdown = 0 /\ reload_timer = 0
    /\ restart_hold = 0 /\ square_sweep_countdown = 0
    /\ instant_calculation_done = FALSE /\ unshifted_sweep = FALSE
    /\ expected = [frequency |-> 0, on |-> FALSE] /\ steady = FALSE /\ clocks = 0

-----------------------------------------------------------------------------
(* sweep_calculation_done.  'held' notes that it came during the hold of a *)
(* trigger, when the shadow frequency is not taken over.                   *)
CalculationDoneSigned(u) ==    \* mutant: a falling frequency is tested too
    LET shadow == IF u.hold = 0 THEN u.length ELSE u.shadow
        addend == IF nr10.negate THEN MaxFrequency - u.addend ELSE u.addend
    IN  [u EXCEPT !.shadow = shadow, !.addend = addend, !.completed = addend,
                  !.held = u.hold # 0, !.active = @ /\ shadow + addend <= MaxFrequency]

CalculationDone(u) ==
    LET shadow == IF u.hold = 0 THEN u.length ELSE u.shadow
        addend == IF nr10.negate THEN MaxFrequency - u.addend ELSE u.addend
    IN  [u EXCEPT !.shadow = shadow, !.addend = addend, !.completed = addend,
                  !.held = u.hold # 0,
                  !.active = @ /\ (nr10.negate \/ shadow + addend <= MaxFrequency)]

(* The sweep's part of GB_apu_run, in one batch of cycles of 2 MHz.        *)
SweepCycles(cycles, lf) == cycles \div 2 + Bit(cycles % 2 = 1 /\ lf = 0)

Reloading(u, cycles) ==
    IF u.reload > cycles THEN [unit |-> [u EXCEPT !.reload = @ - cycles], left |-> 0]
    ELSE LET done == IF u.reload # 0 /\ u.calculate = 0 /\ u.instant THEN CalculationDone(u) ELSE u
         IN  [unit |-> [done EXCEPT !.instant = FALSE, !.reload = 0], left |-> cycles - u.reload]

Calculating(u, left) ==
    IF u.calculate = 0 \/ (nr10.shift = 0 /\ ~u.unshifted) THEN u
    ELSE IF u.calculate > left THEN [u EXCEPT !.calculate = @ - left]
    ELSE CalculationDone([u EXCEPT !.calculate = 0])

Held(u, cycles) == [u EXCEPT !.hold = IF @ > cycles THEN @ - cycles ELSE 0]

(* A batch is what one call of GB_advance_cycles adds up: the unit is run  *)
(* at every call while anything is pending.                                *)
RunSweep(cycles) ==
    LET lf == (lf_div + cycles) % 2
        reloaded == Reloading(Unit, SweepCycles(cycles, lf))
        calculated == Calculating(reloaded.unit, reloaded.left)
    IN  /\ lf_div' = lf
        /\ Becomes(Held(calculated, cycles))
        /\ steady' = (steady /\ ~calculated.held)
        /\ UNCHANGED <<sweep_model, sweep_double, nr10, expected, clocks>>

-----------------------------------------------------------------------------
(* trigger_sweep_calculation, with the value of NR10. *)
BegunUnshifted(u, value, div_write) ==    \* mutant: the addend is not shifted
    IF value.pace = 0 \/ u.countdown # 7 THEN u
    ELSE [u EXCEPT !.length = IF value.shift # 0
                              THEN (u.addend + u.shadow + Bit(value.negate)) % (MaxFrequency + 1)
                              ELSE @,
                   !.calculate = value.shift,
                   !.reload = IF ~sweep_double /\ div_write THEN 1 ELSE 1 + lf_div,
                   !.unshifted = value.shift = 0,
                   !.countdown = 7 - value.pace,
                   !.instant = @ \/ value.shift = 0]

Begun(u, value, div_write) ==
    LET length == IF value.shift # 0
                  THEN (u.addend + u.shadow + Bit(value.negate)) % (MaxFrequency + 1)
                  ELSE u.length
    IN  IF value.pace = 0 \/ u.countdown # 7 THEN u
        ELSE [u EXCEPT !.length = length,
                       !.addend = IF u.hold = 0 THEN Addend(length, value.shift) ELSE @,
                       !.calculate = value.shift,
                       !.reload = IF ~sweep_double /\ div_write THEN 1 ELSE 1 + lf_div,
                       !.unshifted = value.shift = 0,
                       !.countdown = 7 - value.pace,
                       !.instant = @ \/ value.shift = 0]

Pending ==
    \/ reload_timer # 0 \/ restart_hold # 0
    \/ calculate_countdown # 0 /\ (nr10.shift # 0 \/ unshifted_sweep)

(* The fourth part of GB_apu_div_event.  DIV's bit takes thousands of      *)
(* cycles to rise again, so that no calculation is pending.                *)
Stepped(frequency) ==
    IF nr10.shift = 0 THEN frequency
    ELSE IF nr10.negate THEN frequency - Addend(frequency, nr10.shift)
    ELSE frequency + Addend(frequency, nr10.shift)

ClockSweep(div_write) ==
    LET u == [Unit EXCEPT !.countdown = (@ + 1) % 8]
        fires == nr10.pace # 0 /\ u.countdown = 7
        next == Stepped(expected.frequency)
    IN  /\ ~Pending /\ clocks < MaxClocks /\ clocks' = clocks + 1
        /\ Becomes(Begun(u, nr10, div_write))
        /\ expected' = IF ~fires THEN expected
                       ELSE [frequency |-> next,
                             on |-> expected.on /\ (nr10.negate \/
                                        next + Addend(next, nr10.shift) <= MaxFrequency)]
        /\ UNCHANGED <<sweep_model, sweep_double, lf_div, nr10, steady>>

(* nr10_write_glitch, while a calculation is pending.                      *)
Corruption == <<7, 7, 5, 7, 3, 3, 5, 7>>

Stolen(u, last) ==    \* one step of the countdown too many
    IF u.calculate - 1 <= last THEN CalculationDone([u EXCEPT !.calculate = 0])
    ELSE [u EXCEPT !.calculate = @ - 1]

GlitchUpToC(u, value) ==
    IF u.reload = 1 /\ lf_div = 0
    THEN (IF sweep_double THEN [u EXCEPT !.calculate = Corruption[@ + 1]] ELSE u)
    ELSE IF u.reload > 1
    THEN (IF sweep_double THEN [u EXCEPT !.calculate = value.shift] ELSE u)
    ELSE IF u.calculate # 0 /\ (IF nr10.shift = 0 THEN lf_div # Bit(sweep_double)
                                ELSE sweep_double /\ u.calculate = 1)
    THEN Stolen(u, 1)
    ELSE u

GlitchLater(u, value) ==
    LET reloaded == IF u.reload # 2 THEN u
                    ELSE [u EXCEPT !.calculate = value.shift,
                                   !.reload = IF value.shift = 0 THEN 0 ELSE @]
    IN  IF value.shift # 0 /\ nr10.shift = 0 /\ lf_div = 0 /\ reloaded.calculate > 1
        THEN Stolen(reloaded, 0)
        ELSE reloaded

WriteNR10(value) ==
    LET pending == calculate_countdown # 0 \/ reload_timer # 0
        glitched == IF ~pending THEN Unit
                    ELSE IF SweepUpToC THEN GlitchUpToC(Unit, value)
                    ELSE GlitchLater(Unit, value)
        off == /\ glitched.shadow + glitched.completed + Bit(SweepUpToC \/ nr10.negate) > MaxFrequency
               /\ ~value.negate
    IN  /\ clocks < MaxClocks /\ clocks' = clocks + 1
        /\ nr10' = value
        /\ Becomes(Begun([glitched EXCEPT !.active = @ /\ ~off], value, FALSE))
        /\ steady' = FALSE
        /\ UNCHANGED <<sweep_model, sweep_double, lf_div, expected>>

(* NR14 with its trigger bit, and the frequency NR13 was given before.     *)
TriggerSweep(frequency) ==
    LET shift == nr10.shift
        armed == [Unit EXCEPT !.calculate = shift,
                              !.reload = (IF SweepUpToC /\ lf_div # Bit(~sweep_double) THEN 3 ELSE 2)
                                             + Bit(~active),
                              !.unshifted = FALSE]
        u == IF shift = 0 THEN Unit ELSE armed
    IN  /\ Becomes([u EXCEPT !.length = frequency, !.active = TRUE, !.instant = FALSE,
                             !.shadow = 0, !.completed = 0,
                             !.addend = IF shift = 0 THEN 0 ELSE Addend(frequency, shift),
                             !.hold = 2 - lf_div + 2 * Bit(SweepIsCgb /\ sweep_model # "CGB_D"),
                             !.countdown = 7 - nr10.pace])
        /\ expected' = [frequency |-> frequency,
                        on |-> shift = 0 \/ nr10.negate
                                   \/ frequency + Addend(frequency, shift) <= MaxFrequency]
        /\ steady' = (calculate_countdown = 0 /\ reload_timer = 0)
        /\ UNCHANGED <<sweep_model, sweep_double, lf_div, nr10, clocks>>

(* NR13 and NR14 without the trigger bit. *)
WriteFrequency(frequency) ==
    /\ frequency # sample_length
    /\ sample_length' = frequency
    /\ steady' = FALSE
    /\ UNCHANGED <<sweep_model, sweep_double, lf_div, nr10, active, shadow_sweep_sample_length,
                   sweep_length_addend, channel1_completed_addend, calculate_countdown,
                   reload_timer, restart_hold, square_sweep_countdown,
                   instant_calculation_done, unshifted_sweep, expected, clocks>>

SweepNext ==
    \/ \E cycles \in (IF sweep_double THEN {1, 2, 3} ELSE {2, 4, 6}) : RunSweep(cycles)
    \/ \E div_write \in BOOLEAN : ClockSweep(div_write)
    \/ \E pace \in SweepPaces, negate \in BOOLEAN, shift \in Shifts :
           WriteNR10([pace |-> pace, negate |-> negate, shift |-> shift])
    \/ \E frequency \in SweepFrequencies : TriggerSweep(frequency) \/ WriteFrequency(frequency)

-----------------------------------------------------------------------------
apuVars == <<channelVars, sweepVars>>

ApuInit == ChannelInit /\ SweepInit
ApuNext == \/ ChannelNext /\ UNCHANGED sweepVars
           \/ SweepNext /\ UNCHANGED channelVars

ApuSpec == ApuInit /\ [][ApuNext]_apuVars
-----------------------------------------------------------------------------
ApuTypeOK ==
    /\ div_divider \in 0 .. 7 /\ skip_div_event \in {"INACTIVE", "SKIP", "SKIPPED"}
    /\ pulse_length \in 0 .. LengthMax
    /\ {global_enable, div_high, is_active, length_enabled, length_bit, delayed, rewritten}
           \subseteq BOOLEAN
    /\ envelope.volume \in 0 .. 255 /\ envelope.countdown \in 0 .. 7
    /\ sample_length \in 0 .. MaxFrequency /\ shadow_sweep_sample_length \in 0 .. MaxFrequency
    /\ sweep_length_addend \in 0 .. MaxFrequency
    /\ calculate_countdown \in 0 .. 7 /\ reload_timer \in 0 .. 4 /\ restart_hold \in 0 .. 4
    /\ square_sweep_countdown \in 0 .. 7 /\ {active, steady} \subseteq BOOLEAN

LengthSignal == length_enabled /\ div_divider % 2 = 1

(* A channel that plays has length left and its DAC on.                    *)
Playable == is_active => global_enable /\ pulse_length > 0 /\ DacOn(nrx2)

(* The length is counted in three places (the event, the write that        *)
(* enables it, the trigger), which amount to one rule: it counts the       *)
(* rising edges of 'enabled and the divider is odd'.                       *)
LengthCountsEdges ==
    [][ /\ Fall \/ \E enable \in BOOLEAN : WriteNRx4(FALSE, enable)
        /\ global_enable /\ skip_div_event = "INACTIVE" /\ (model = "CGB_B" => length_enabled')
        => pulse_length' = IF ~LengthSignal /\ LengthSignal' /\ pulse_length # 0 THEN pulse_length - 1
                           ELSE pulse_length ]_channelVars

(* An envelope that is left alone stops at its end: the volume never goes  *)
(* beyond the four bits it has.                                            *)
EnvelopeSettles == is_active /\ ~rewritten => envelope.volume <= 15

(* The delayed calculations amount to the sweep they implement: a trigger  *)
(* tests the first step and each clock takes one and tests the next; the   *)
(* channel goes silent exactly when a step would overflow.  A calculation  *)
(* that ends within the hold of the trigger, as one of a batch of cycles   *)
(* may, is lost in the source, and is not counted as steady.               *)
SweepAgrees ==
    steady /\ ~Pending => /\ active = expected.on
                          /\ expected.on => sample_length = expected.frequency

(* A channel's length counts one kind of edge wherever it is counted, its  *)
(* envelope settles at its end, and its delayed calculations amount to the *)
(* sweep.                                                                  *)
ChannelFollows == [](Playable /\ EnvelopeSettles /\ SweepAgrees) /\ LengthCountsEdges
=============================================================================
