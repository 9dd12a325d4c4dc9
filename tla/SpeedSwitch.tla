---------------------------- MODULE SpeedSwitch ----------------------------
(***************************************************************************)
(* STOP, the speed switch of a Game Boy Color, and the clock that has to   *)
(* follow it (Core/sm83_cpu.c, Core/timing.c).  The CPU accounts for its   *)
(* cycles in batches: GB_advance_cycles is given what an instruction has   *)
(* left pending, mostly four cycles, sometimes one or two more or less     *)
(* because of an access conflict.  A switch to double speed takes effect   *)
(* six cycles after STOP, in the middle of a batch, and the picture is     *)
(* frozen for one or five cycles, so that it stays aligned.                *)
(*                                                                         *)
(* Without a pending interrupt the switch halts the CPU for a time that    *)
(* is counted down beside the HALT instruction's own end.                  *)
(***************************************************************************)
EXTENDS Integers, FiniteSets

CONSTANTS
    HaltLength,    \* 0x20008 in the source: the cycles a switch halts the CPU
    MaxPending     \* bounds the cycles an instruction leaves pending

ASSUME SpeedAssumption == HaltLength \in Nat /\ MaxPending \in Nat

\* The parts of the machine that GB_advance_cycles changes here.  `alignment`
\* counts the 8 MHz units of the picture, of which the last three bits are used.
VARIABLES
    clock,           \* [double, countdown, freeze, halt, halted, alignment]
    pending_cycles,
    stopped, key1, lcd,
    halted_by,       \* history: who halted the CPU, "halt" or "stop"
    drift,           \* history: units counted less those of the cycles that passed
    exact, offset    \* history: the cases the properties leave out

speedVars == <<clock, pending_cycles, stopped, key1, lcd, halted_by, drift, exact, offset>>
-----------------------------------------------------------------------------
(* Time *)

UnitsOf(double, cycles) == IF double THEN cycles ELSE 2 * cycles

\* A batch in which the speed does not change: [clock, units].
RunFor(c, cycles) ==
    LET halt    == IF c.halt > cycles THEN c.halt - cycles ELSE 0
        frozen  == IF c.freeze < cycles THEN c.freeze ELSE cycles
        units   == UnitsOf(c.double, cycles - frozen)
    IN [clock |-> [c EXCEPT !.halt = halt,
                            !.halted = @ /\ ~(c.halt > 0 /\ halt = 0),
                            !.freeze = @ - frozen,
                            !.alignment = IF lcd THEN (@ + units) % 8 ELSE @],
        units |-> units]

Toggled(c) == [c EXCEPT !.double = ~@, !.countdown = 0]

AdvanceWhole(c, cycles) ==    \* mutant: a batch is never cut in two
    CASE c.countdown = 0 -> RunFor(c, cycles)
      [] c.countdown > cycles -> RunFor([c EXCEPT !.countdown = @ - cycles], cycles)
      [] OTHER -> RunFor(Toggled(c), cycles)

(***************************************************************************)
(* GB_advance_cycles.  A batch that is longer than the countdown is cut in *)
(* two; one that ends with it belongs to the new speed as a whole.         *)
(***************************************************************************)
Advance(c, cycles) ==
    CASE c.countdown = 0 -> RunFor(c, cycles)
      [] c.countdown > 0 /\ c.countdown = cycles -> RunFor(Toggled(c), cycles)
      [] c.countdown > cycles -> RunFor([c EXCEPT !.countdown = @ - cycles], cycles)
      [] OTHER ->
            LET before == RunFor([c EXCEPT !.countdown = 0], c.countdown)
                after  == RunFor([before.clock EXCEPT !.double = ~@], cycles - c.countdown)
            IN [after EXCEPT !.units = @ + before.units]

\* The units that really pass: the cycles that are not frozen, each at its speed.
Counted(c, cycles) == c.freeze + 1 .. cycles
AtOldSpeed(c, cycles) == {i \in Counted(c, cycles) : c.countdown = 0 \/ i <= c.countdown}

UnitsPassed(c, cycles) ==
    UnitsOf(c.double, Cardinality(AtOldSpeed(c, cycles)))
        + UnitsOf(~c.double, Cardinality(Counted(c, cycles) \ AtOldSpeed(c, cycles)))

Ends(c, cycles) == c.countdown > 0 /\ c.countdown = cycles

\* Two batches; the histories are kept with them.
Then(r, cycles) ==
    LET next == Advance(r.clock, cycles)
    IN [clock |-> next.clock,
        drift |-> r.drift + next.units - UnitsPassed(r.clock, cycles),
        exact |-> r.exact \/ Ends(r.clock, cycles)]

Now == [clock |-> clock, drift |-> drift, exact |-> exact]

Account(r) ==
    /\ drift' = IF r.exact THEN 0 ELSE r.drift
    /\ exact' = r.exact
-----------------------------------------------------------------------------
(* The CPU *)

Running == ~clock.halted /\ ~stopped

Flush == IF pending_cycles > 0 THEN Then(Now, pending_cycles) ELSE Now

\* An access, moved by a conflict: the cycles are split around it.
Access(early) ==
    /\ Running /\ pending_cycles + early > 0
    /\ pending_cycles' = 4 - early
    /\ LET r == Then(Now, pending_cycles + early) IN clock' = r.clock /\ Account(r)
    /\ UNCHANGED <<stopped, lcd, halted_by, offset>>

Fetch ==
    /\ Running /\ pending_cycles = 0
    /\ pending_cycles' = 4
    /\ UNCHANGED <<clock, stopped, key1, lcd, halted_by, drift, exact, offset>>

cycle_write == \E early \in {-2, -1, 0, 1} : Access(early) /\ UNCHANGED key1

PrepareSwitch == Access(0) /\ key1' = TRUE

cycle_no_access ==
    /\ Running /\ pending_cycles + 4 <= MaxPending
    /\ pending_cycles' = pending_cycles + 4
    /\ UNCHANGED <<clock, stopped, key1, lcd, halted_by, drift, exact, offset>>

\* The display is turned on or off: the alignment begins anew.
WriteLcdc ==
    /\ Running /\ pending_cycles > 0 /\ pending_cycles % 4 = 0
    /\ pending_cycles' = 4
    /\ lcd' = ~lcd
    /\ LET r == Flush IN
          /\ clock' = [r.clock EXCEPT !.alignment = 0]
          /\ drift' = 0 /\ exact' = (r.clock.countdown > 0 \/ r.clock.freeze > 0)
    /\ offset' = clock.double
    /\ UNCHANGED <<stopped, key1, halted_by>>

EnterHalt ==
    /\ Running /\ pending_cycles > 0
    /\ pending_cycles' = 0
    /\ LET r == Flush IN
          /\ Account(r)
          /\ \E interrupt \in BOOLEAN :
                /\ clock' = [r.clock EXCEPT !.halted = ~interrupt]
                /\ halted_by' = IF interrupt THEN halted_by ELSE "halt"
    /\ UNCHANGED <<stopped, key1, lcd, offset>>

\* The switch of `stop`: at once to single speed, in six cycles to double speed.
Switched(c, interrupt) ==
    [c EXCEPT
        !.double    = FALSE,
        !.countdown = IF c.double THEN @ ELSE 6,
        !.freeze    = CASE ~interrupt -> 5
                        [] interrupt /\ ~c.double -> 1
                        [] OTHER -> IF lcd /\ c.alignment % 8 # 0 THEN 2 ELSE @,
        !.halt      = IF interrupt THEN 0 ELSE HaltLength]

stop ==
    /\ Running /\ pending_cycles > 0
    /\ \E pressed \in BOOLEAN, interrupt \in BOOLEAN :
          LET switch   == key1 /\ ~pressed
              flushed  == Flush
              read     == IF switch /\ ~interrupt THEN Then(flushed, 4) ELSE flushed
              switched == IF switch THEN Switched(read.clock, interrupt) ELSE read.clock
              leaves   == switch \/ pressed
          IN /\ Account(read)
             /\ key1' = (key1 /\ ~switch)
             /\ stopped' = ~leaves
             /\ pending_cycles' = IF interrupt \/ switch THEN 0 ELSE 4
             /\ clock' = CASE leaves /\ ~interrupt -> [switched EXCEPT !.halted = TRUE]
                           [] leaves /\ interrupt  -> [switched EXCEPT !.halt = 0]
                           [] OTHER                -> switched
             /\ halted_by' = IF leaves /\ ~interrupt THEN "stop" ELSE halted_by
             /\ offset' = (offset \/ (switch /\ (~interrupt \/ read.clock.freeze > 0)))
    /\ UNCHANGED lcd

\* GB_cpu_run in STOP mode, which a key ends.
RunStopped ==
    /\ stopped
    /\ \E pressed \in BOOLEAN :
          LET r == IF pressed THEN Then(Then(Now, 4), 8) ELSE Then(Now, 4) IN
              clock' = r.clock /\ Account(r) /\ stopped' = ~pressed
    /\ UNCHANGED <<pending_cycles, key1, lcd, halted_by, offset>>

RunHaltedKeeps ==    \* mutant: an interrupt leaves the switch's countdown
    /\ clock.halted
    /\ \E interrupt \in BOOLEAN :
          LET r == Then(Now, 4) IN
              /\ Account(r)
              /\ clock' = IF interrupt THEN [r.clock EXCEPT !.halted = FALSE] ELSE r.clock
    /\ UNCHANGED <<pending_cycles, stopped, key1, lcd, halted_by, offset>>

\* GB_cpu_run in HALT mode.  The interrupts are read before the cycles pass.
RunHalted ==
    /\ clock.halted
    /\ \E interrupt \in BOOLEAN :
          LET r == Then(Now, 4) IN
              /\ Account(r)
              /\ clock' = IF interrupt THEN [r.clock EXCEPT !.halted = FALSE, !.halt = 0]
                                       ELSE r.clock
    /\ UNCHANGED <<pending_cycles, stopped, key1, lcd, halted_by, offset>>
-----------------------------------------------------------------------------
SpeedInit ==
    /\ clock = [double |-> FALSE, countdown |-> 0, freeze |-> 0, halt |-> 0,
                halted |-> FALSE, alignment |-> 0]
    /\ pending_cycles = 0
    /\ stopped = FALSE /\ key1 = FALSE /\ lcd = FALSE
    /\ halted_by = "none" /\ drift = 0 /\ exact = FALSE /\ offset = FALSE

SpeedNext ==
    \/ Fetch \/ cycle_write \/ cycle_no_access
    \/ PrepareSwitch \/ WriteLcdc
    \/ EnterHalt \/ stop \/ RunStopped \/ RunHalted

SpeedSpec == SpeedInit /\ [][SpeedNext]_speedVars
-----------------------------------------------------------------------------
(***************************************************************************)
(* Only the speed switch's own HALT ends by its countdown: the time that   *)
(* is left of it when an interrupt ends it early cuts no later HALT short. *)
(***************************************************************************)
NoHaltIsCutShort == clock.halt > 0 => (clock.halted /\ halted_by = "stop")

(***************************************************************************)
(* The units of time are those of the cycles that passed, six at the old   *)
(* speed and the others at the new one, however they were batched; and in  *)
(* single speed the picture keeps to whole machine cycles.  Left out: a    *)
(* batch that ends exactly with the countdown, which counts for the new    *)
(* speed as a whole; and, for the picture, a switch that halted the CPU    *)
(* and a display turned on in double speed.                                *)
(***************************************************************************)
TimeFollowsTheSpeed ==
    /\ exact \/ drift = 0
    /\ (lcd /\ ~exact /\ ~offset /\ ~clock.double /\ clock.countdown = 0 /\ clock.freeze = 0
          /\ pending_cycles % 4 = 0) => clock.alignment = 0
(* No HALT ends by a speed switch's countdown, and the time that passes is *)
(* that of the speed it passed at.                                         *)
SpeedSwitchKeepsTime == NoHaltIsCutShort /\ TimeFollowsTheSpeed
=============================================================================
