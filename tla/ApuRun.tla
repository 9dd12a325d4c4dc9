------------------------------- MODULE ApuRun -------------------------------
(***************************************************************************)
(* The generators of the four sound channels (Core/apu.c).  Cycles only    *)
(* add up in apu_cycles; GB_apu_run catches up in batches, at the latest   *)
(* when a register is read or written.  The abstract generator is clocked  *)
(* cycle by cycle, and the lazy one has to be where it is at every moment. *)
(*                                                                         *)
(* The state is one record, whose fields are the source's; 'on' says that  *)
(* the channel is active.  A behaviour is about one channel.               *)
(***************************************************************************)
EXTENDS Integers, Sequences, SequencesExt

CONSTANTS
    Generators,      \* pairs of a kind and a model
    Frequencies,     \* written to NRx3 and NRx4
    Polynomials,     \* written to NR43
    Counters,        \* where the noise channel's counter may begin
    MaxPending,      \* bound on the cycles of a batch
    MaxTime,         \* bound on the cycles of a behaviour
    MaxWrites        \* bound on the registers' writes

RunModels == {"DMG", "CGB_B", "CGB_C", "CGB_D", "CGB_E", "AGB"}

ASSUME RunAssumption ==
    /\ Generators \subseteq {"square", "wave", "noise"} \X RunModels
    /\ Frequencies \subseteq 0 .. 2047
    /\ Polynomials \subseteq [shift : 0 .. 15, narrow : BOOLEAN, divisor : 0 .. 7]
    /\ Counters \subseteq 0 .. 16383

VARIABLES run_kind, run_model, double, lazy, apu_cycles, eager, time, writes

runVars == <<run_kind, run_model, double, lazy, apu_cycles, eager, time, writes>>

RunsCgb == run_model # "DMG"
RunsUpToC == run_model \in {"DMG", "CGB_B", "CGB_C"}
DOrE == run_model \in {"CGB_D", "CGB_E"}
Has(value, mask) == (value \div mask) % 2 = 1
HalfOf(x) == IF x >= 0 THEN x \div 2 ELSE -((-x) \div 2)    \* C's division
Period(length) == 2047 - length

(* value | bits, for a set of single bits. *)
Or(value, bits) == FoldSet(LAMBDA b, v : IF Has(v, b) THEN v ELSE v + b, value, bits)
AllBits == {1, 2, 4, 8, \h10, \h20, \h40, \h80}

(* GB_apu_init: the state after power on. *)
Square ==
    [on |-> FALSE, length |-> 0, countdown |-> 65535, index |-> 0, delay |-> 0,
     surpressed |-> FALSE, did_tick |-> FALSE, just_reloaded |-> FALSE, lf_div |-> 1]
Wave ==
    [on |-> FALSE, enable |-> FALSE, length |-> 0, countdown |-> 0, index |-> 0, byte |-> 0,
     just_read |-> FALSE, ram |-> [i \in 0 .. 15 |-> 16 + i]]
Noise(counter) ==
    [on |-> FALSE, nr43 |-> [shift |-> 0, narrow |-> FALSE, divisor |-> 0], countdown |-> 0,
     counter |-> counter, lfsr |-> {}, sample |-> FALSE, delta |-> 0, reloaded |-> FALSE,
     alignment |-> 0, delayed |-> 0, lf_div |-> 1]

RunInit ==
    /\ \E g \in Generators : run_kind = g[1] /\ run_model = g[2]
    /\ double \in {FALSE, RunsCgb}
    /\ apu_cycles = 0 /\ time = 0 /\ writes = 0
    /\ \E counter \in Counters :
           lazy = CASE run_kind = "square" -> Square
                    [] run_kind = "wave" -> Wave
                    [] run_kind = "noise" -> Noise(counter)
    /\ eager = lazy

-----------------------------------------------------------------------------
(* What a channel does where its countdown expires. *)
SquareReload(g) == 2 * Period(g.length) + 1

SquareExpired(g) ==
    [g EXCEPT !.countdown = SquareReload(g), !.index = (@ + 1) % 8,
              !.surpressed = FALSE, !.did_tick = TRUE]

WaveExpired(g) ==
    LET index == (g.index + 1) % 32 IN
    [g EXCEPT !.countdown = Period(g.length), !.index = index,
              !.byte = g.ram[index \div 2], !.just_read = TRUE]

(* step_lfsr: the register is the set of its bits.  The new bit goes to    *)
(* the top, of the narrow register too.                                    *)
StepLfsr(g, narrow) ==
    LET shifted == {b - 1 : b \in g.lfsr \ {0}}
        high == IF narrow THEN {6, 14} ELSE {14}
        next == IF 0 \in g.lfsr <=> 1 \in g.lfsr THEN shifted \cup high ELSE shifted \ high
    IN  [g EXCEPT !.lfsr = next, !.sample = 0 \in next]

Divisor(g) == IF g.nr43.divisor = 0 THEN 2 ELSE 4 * g.nr43.divisor
Selected(counter, shift) == (counter \div (2 ^ shift)) % 2

NoiseExpired(g) ==
    LET next == (g.counter + 1) % 16384
        rises == Selected(next, g.nr43.shift) > Selected(g.counter, g.nr43.shift)
        counted == [g EXCEPT !.countdown = Divisor(g) + g.delta, !.delta = 0, !.counter = next]
    IN  IF rises THEN StepLfsr(counted, g.nr43.narrow) ELSE counted

Expired(g) ==
    CASE run_kind = "square" -> SquareExpired(g)
      [] run_kind = "wave" -> WaveExpired(g)
      [] run_kind = "noise" -> NoiseExpired(g)

(* The while loops of GB_apu_run: the state, and the cycles that are left, *)
(* after each round.  A round takes a cycle at least.                      *)
Takes(g) == IF run_kind = "noise" THEN g.countdown ELSE g.countdown + 1

Round(p) ==
    IF p[2] >= Takes(p[1]) THEN <<Expired(p[1]), p[2] - Takes(p[1])>> ELSE p

Loop(g, cycles) ==
    LET after[n \in 0 .. cycles] == IF n = 0 THEN <<g, cycles>> ELSE Round(after[n - 1])
    IN  after[cycles]

(* The batches of GB_apu_run. *)
RunSquare(g, cycles) ==
    LET timed == [g EXCEPT !.lf_div = (@ + cycles) % 2]
        end == Loop([timed EXCEPT !.delay = IF @ < cycles THEN 0 ELSE @ - cycles], cycles)
    IN  IF ~g.on THEN timed
        ELSE [end[1] EXCEPT !.countdown = @ - end[2], !.just_reloaded = end[2] = 0]

RunWave(g, cycles) ==
    LET unread == [g EXCEPT !.just_read = FALSE]
        end == Loop(unread, cycles)
    IN  IF ~g.on THEN unread
        ELSE [end[1] EXCEPT !.countdown = @ - end[2], !.just_read = @ /\ end[2] = 0]

Timed(g, cycles) ==
    [g EXCEPT !.lf_div = (@ + cycles) % 2, !.alignment = (@ + cycles) % 256]

Armed(g) == [g EXCEPT !.countdown = IF @ = 0 THEN Divisor(g) ELSE @]

Generated(g, cycles) ==
    LET timed == Timed(g, cycles)
        end == Loop(Armed(timed), cycles)
    IN  IF cycles = 0 THEN g
        ELSE IF ~g.on /\ RunsCgb THEN timed
        ELSE [end[1] EXCEPT !.countdown = @ - end[2], !.reloaded = end[2] = 0]

(* NR44 with its trigger bit; aligned to 512 KHz on a DMG, six cycles late.*)
Alignments == IF RunsUpToC THEN <<2, 1, 4, 3>> ELSE <<2, 1, 0, 3>>
StartCountdown(g) ==
    LET aligned == Alignments[(g.alignment % 4) + 1]
        early == (g.alignment + 1) % 4 < 2
        base == IF Divisor(g) = 2
                THEN 6 + (IF ~RunsUpToC THEN 1 - g.lf_div
                          ELSE IF double THEN g.lf_div ELSE g.lf_div - 1)
                ELSE (Divisor(g) + 4 + aligned)
                         - (IF ~early THEN 0 ELSE IF g.nr43.divisor = 1 THEN 2 ELSE 4)
        quirk == IF ~RunsUpToC THEN 0
                 ELSE IF ~double THEN -2
                 ELSE IF g.nr43.shift = 0 /\ g.nr43.divisor # 0 THEN -1
                 ELSE IF g.nr43.shift # 0 /\ g.nr43.divisor = 0 THEN 1
                 ELSE 0
    IN  [g EXCEPT !.countdown = base + quirk,
                  !.delta = IF Divisor(g) # 2 /\ early /\ g.nr43.divisor = 1 THEN 2 ELSE 0,
                  !.lfsr = {}, !.sample = FALSE, !.on = TRUE]

StartNoise(g) ==
    IF ~RunsCgb /\ g.alignment % 4 # 0 THEN [g EXCEPT !.delayed = 6] ELSE StartCountdown(g)

(* A batch that goes beyond the delayed start is split in two, and the     *)
(* rest does not look at it again.                                         *)
Waited(g, cycles) == [g EXCEPT !.delayed = IF @ > cycles THEN @ - cycles ELSE 0]
StartsLate(g, cycles) == g.delayed # 0 /\ g.delayed <= cycles

RunNoiseWhole(g, cycles) ==    \* mutant: the batch is not split
    LET run == Generated(Waited(g, cycles), cycles)
    IN  IF StartsLate(g, cycles) THEN StartNoise(run) ELSE run

RunNoise(g, cycles) ==
    LET started == StartNoise(Generated(Waited(g, g.delayed), g.delayed))
    IN  IF StartsLate(g, cycles) THEN Generated(started, cycles - g.delayed)
        ELSE Generated(Waited(g, cycles), cycles)

(* GB_apu_run. *)
Ran(g, cycles) ==
    IF cycles = 0 THEN g
    ELSE CASE run_kind = "square" -> RunSquare(g, cycles)
           [] run_kind = "wave" -> RunWave(g, cycles)
           [] run_kind = "noise" -> RunNoise(g, cycles)

-----------------------------------------------------------------------------
(* The abstract generators, for one cycle. *)
SquareTimed(g) ==
    [g EXCEPT !.lf_div = 1 - @, !.delay = IF g.on /\ @ > 0 THEN @ - 1 ELSE @]

ClockSquare(g) ==
    LET timed == SquareTimed(g) IN
    IF ~g.on THEN timed
    ELSE IF g.countdown = 0 THEN [SquareExpired(timed) EXCEPT !.just_reloaded = TRUE]
    ELSE [timed EXCEPT !.countdown = @ - 1, !.just_reloaded = FALSE]

ClockWave(g) ==
    IF ~g.on THEN [g EXCEPT !.just_read = FALSE]
    ELSE IF g.countdown = 0 THEN WaveExpired(g)
    ELSE [g EXCEPT !.countdown = @ - 1, !.just_read = FALSE]

ClockCounter(g) ==
    LET timed == Timed(g, 1)
        armed == Armed(timed)
    IN  IF ~g.on /\ RunsCgb THEN timed
        ELSE IF armed.countdown = 1 THEN [NoiseExpired(armed) EXCEPT !.reloaded = TRUE]
        ELSE [armed EXCEPT !.countdown = @ - 1, !.reloaded = FALSE]

ClockNoise(g) ==
    LET clocked == ClockCounter(Waited(g, 1))
    IN  IF g.delayed = 1 THEN StartNoise(clocked) ELSE clocked

OneCycle(g) ==
    CASE run_kind = "square" -> ClockSquare(g)
      [] run_kind = "wave" -> ClockWave(g)
      [] run_kind = "noise" -> ClockNoise(g)

-----------------------------------------------------------------------------
(* What the registers of GB_apu_write do to a generator. *)
WithLength(g, length) ==
    LET set == [g EXCEPT !.length = length] IN
    IF g.just_reloaded THEN [set EXCEPT !.countdown = SquareReload(set)] ELSE set

(* NR13 and NR14 without the trigger bit, with the correction of a reload  *)
(* the write came too late for.                                            *)
SquareFrequency(g, length) ==
    LET leaves == g.on /\ g.length \div 256 = 7 /\ length \div 256 # 7
        back == /\ leaves /\ (DOrE \/ g.countdown % 2 = 1)
                /\ g.did_tick /\ g.countdown \div 2 = Period(g.length)
        corrected == IF back THEN [g EXCEPT !.index = (@ + 7) % 8, !.surpressed = FALSE] ELSE g
    IN  WithLength(corrected, length)

(* NR14 with it: revisions D and E may step at once. *)
SquareStart(g, length) ==
    LET set == [WithLength(g, length) EXCEPT !.did_tick = FALSE]
        low == ~Has(length \div 256, 4)
        phantom == /\ DOrE /\ low /\ (g.on => ~set.just_reloaded)
                   /\ ~Has(HalfOf(set.countdown - (IF g.on THEN 1 ELSE 0) - set.delay), \h400)
        extra == /\ DOrE /\ g.on /\ ~phantom
                 /\ length = 2047 /\ g.length # 2047 /\ set.surpressed
        delay == (IF g.on THEN 4 ELSE 6) - set.lf_div + (IF extra THEN 2 ELSE 0)
    IN  [set EXCEPT !.on = TRUE,
                    !.index = IF phantom THEN (@ + 1) % 8 ELSE @,
                    !.surpressed = IF phantom THEN FALSE ELSE @ \/ ~g.on,
                    !.delay = delay,
                    !.countdown = 2 * Period(length) + delay]

(* NR34 with its trigger bit.  A DMG that is about to read spoils its RAM. *)
Spoilt(g) ==
    LET offset == ((g.index + 1) \div 2) % 16 IN
    IF RunsCgb \/ ~g.on \/ g.countdown # 0 THEN g.ram
    ELSE IF offset < 4 THEN [g.ram EXCEPT ![0] = g.ram[offset]]
    ELSE [i \in 0 .. 15 |-> IF i < 4 THEN g.ram[offset - (offset % 4) + i] ELSE g.ram[i]]

WaveStart(g, length) ==
    LET ram == Spoilt(g) IN
    [g EXCEPT !.ram = ram, !.length = length, !.index = 0,
              !.byte = IF g.on /\ g.countdown = 0 THEN ram[0] ELSE @,
              !.on = @ \/ g.enable,
              !.countdown = Period(length) + 3]

(* NR30; the source's reads of a sample while it is switched off apart.    *)
WaveEnable(g, enable) == [g EXCEPT !.enable = enable, !.on = @ /\ enable]

(* A write to wave RAM goes where the channel reads, or nowhere. *)
WaveWrite(g, address) ==
    IF ~g.on THEN [g EXCEPT !.ram = [@ EXCEPT ![address] = 1]]
    ELSE IF (~RunsCgb /\ ~g.just_read) \/ run_model = "AGB" THEN g
    ELSE [g EXCEPT !.ram = [@ EXCEPT ![g.index \div 2] = 1]]

(* effective_channel4_counter: what bits are seen while NR43 changes.      *)
Common ==
    << <<8, {2, 4, 8}>>, <<\h80, AllBits>>, <<\h100, {1}>>, <<\h200, {2}>>, <<\h400, {4}>> >>
Last2 == << <<\h1000, {\h10}>>, <<\h2000, {\h20}>> >>
Seen(g) ==
    LET odd == IF g.nr43.narrow THEN \h40 ELSE \h80 IN
    CASE run_model = "CGB_B" -> Common \o << <<\h800, {8, \h400}>> >> \o Last2
      [] run_model \in {"DMG", "CGB_C"} ->
             Common \o << <<\h800, IF g.nr43.narrow THEN {8, \h400} ELSE {8}>> >> \o Last2
      [] run_model = "CGB_D" ->
             << <<odd, AllBits>>, <<\h100, {1}>>, <<\h200, {2}>>, <<\h400, {4}>>,
                <<\h800, {8}>>, <<\h1000, {\h10}>> >>
      [] run_model = "CGB_E" -> << <<odd, AllBits>>, <<\h1000, {\h10}>> >>
      [] OTHER -> << >>

Effective(g) ==
    FoldLeft(LAMBDA c, rule : IF Has(c, rule[1]) THEN Or(c, rule[2]) ELSE c, g.counter, Seen(g))

NoisePolynomial(g, value) ==
    LET counter == Effective(g)
        old == Selected(counter, g.nr43.shift)
        new == Selected(counter, value.shift)
        set == [g EXCEPT !.nr43 = value]
        aligned == IF Divisor(set) = 2 THEN 0 ELSE Alignments[(g.alignment % 4) + 1]
        reloaded == IF g.reloaded
                    THEN [set EXCEPT !.countdown = Divisor(set) + aligned, !.delta = 0]
                    ELSE set
    IN  IF new = 1 /\ (old = 0 \/ RunsUpToC)
        THEN StepLfsr(reloaded, RunsUpToC \/ value.narrow)
        ELSE reloaded

-----------------------------------------------------------------------------
(* Cycles pass, two at a time except at double speed; the source catches   *)
(* up, with the cycles of a sample at most; a register is written, for     *)
(* which it catches up with all of them.                                   *)
Advance == IF double THEN 1 ELSE 2

Pass ==
    /\ time + Advance <= MaxTime /\ time' = time + Advance
    /\ apu_cycles + Advance <= MaxPending /\ apu_cycles' = apu_cycles + Advance
    /\ eager' = IF double THEN OneCycle(eager) ELSE OneCycle(OneCycle(eager))
    /\ UNCHANGED <<run_kind, run_model, double, lazy, writes>>

CatchUp ==
    /\ \E cycles \in 1 .. apu_cycles :
           lazy' = Ran(lazy, cycles) /\ apu_cycles' = apu_cycles - cycles
    /\ UNCHANGED <<run_kind, run_model, double, eager, time, writes>>

WriteRegister(Op(_)) ==
    /\ writes < MaxWrites /\ writes' = writes + 1
    /\ apu_cycles' = 0
    /\ lazy' = Op(Ran(lazy, apu_cycles)) /\ eager' = Op(eager)
    /\ UNCHANGED <<run_kind, run_model, double, time>>

WriteSquare(length) ==
    /\ run_kind = "square"
    /\ \/ WriteRegister(LAMBDA g : SquareFrequency(g, length))
       \/ WriteRegister(LAMBDA g : SquareStart(g, length))

WriteWave ==
    /\ run_kind = "wave"
    /\ \/ \E length \in Frequencies :
             \/ WriteRegister(LAMBDA g : WaveStart(g, length))
             \/ WriteRegister(LAMBDA g : [g EXCEPT !.length = length])
       \/ \E enable \in BOOLEAN : WriteRegister(LAMBDA g : WaveEnable(g, enable))
       \/ \E address \in {1, 8} : WriteRegister(LAMBDA g : WaveWrite(g, address))

WriteNoise ==
    /\ run_kind = "noise"
    /\ \/ WriteRegister(StartNoise)
       \/ \E value \in Polynomials : WriteRegister(LAMBDA g : NoisePolynomial(g, value))

RunNext ==
    \/ Pass \/ CatchUp \/ WriteWave \/ WriteNoise
    \/ \E length \in Frequencies : WriteSquare(length)

RunSpec == RunInit /\ [][RunNext]_runVars
-----------------------------------------------------------------------------
(* Whenever the source catches up, and however the cycles before were cut  *)
(* into batches, the generator is where it would be had it been clocked    *)
(* cycle by cycle.                                                         *)
LazyIsEager == Ran(lazy, apu_cycles) = eager
=============================================================================
