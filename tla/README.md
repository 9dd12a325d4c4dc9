# Formal models of SameBoy

This directory holds TLA+ specifications of SameBoy (version 0.16.6), the
configurations that model-check them with TLC, and theorems about them that
TLAPS checks for every value of the constants.  Every definition is written from
the C and Objective-C sources of this repository; `PROJECT.json` gives, for each
definition, the file and the lines it stands for, and lists the hazards of the
code with the properties that cover them.

## 1. The system

SameBoy is an emulator core in C (`Core/`, about 19,000 lines) and a set of
frontends that own threads, windows, audio and files (`Cocoa/`, `SDL/`, `iOS/`,
`libretro/`, `wasm/`, `Tester/`, thumbnailers; boot ROMs in assembly).  The core
is one `GB_gameboy_t` structure and has no lock: a frontend must never call it
from two threads at once (`GB_ASSERT_NOT_RUNNING`, `Core/gb.h`).

| Component | State | Operations | What makes it correct | Module |
| --- | --- | --- | --- | --- |
| Rewind (`rewind.c`) | ring of sequences (key and differences), position | push at each VBlank, pop, reset, set length | a pop gives back the newest state not yet popped; nothing leaks or is freed twice | `Rewind`, `RewindHistory` |
| Rewind codec (`rewind.c`) | output, two positions, a 16-bit count | compress, decompress | round trip within the allocation | `RewindCodec` |
| Backstep (`debugger.c`) | instruction counts beside the ring | `backstep`, `GB_debugger_run` | one instruction backwards, never into another history | `Backstep` |
| Save states (`save_state.c`) | file sections, BESS blocks | save, load | load(save) is the identity; a refused load changes nothing, one that fails in the memories no more than a prefix of them | `SaveState` |
| Mappers (`mbc.c`, `memory.c`) | bank registers, MBC7's EEPROM | register writes, BESS block | registers survive a save; the chip sends what was stored | `Mbc`, `Battery` |
| Clocks (`timing.c`, `gb.c`) | seconds to days, battery file | count, set, latch, save, load | the clock counts the time that passed | `Battery` |
| CPU (`sm83_cpu.c`) | registers, IME, halt and stop flags | instruction, interrupt dispatch, HALT, STOP | priority, cancellation, EI's delay; programs compute what they should | `Interrupts`, `Sm83`, `SpeedSwitch` |
| Timer (`timing.c`) | DIV, TIMA and its reload | counting, register writes | edges are neither lost nor invented | `Timer`, `TimerEdge` |
| Serial port (`timing.c`, `gb.c`) | SB, SC, bit count | clock edges, writes, callbacks | both sides stay in step and swap their bytes | `LinkCable` |
| Memory and DMA (`memory.c`) | map, banks, OAM DMA, HDMA | read, write, DMA steps | each byte is copied once but for HDMA's, conflicts only on the bus in use | `MemoryMap`, `Hdma` |
| Display (`display.c`) | PPU's state machine, FIFOs, STAT line | `GB_display_run`, writes | one STAT interrupt per rising edge, lines of their length, batches draw what dots draw | `Ppu`, `PixelPipeline` |
| APU (`apu.c`) | four channels, frame sequencer | `GB_apu_run`, writes, DIV events | length, envelope, sweep; lazy generators are where eager ones would be | `Apu`, `ApuRun` |
| Joypad, SGB (`joypad.c`, `sgb.c`) | keys that bounce, packets, attributes, border | keys, JOYP, commands | what is pressed is shown, commands are obeyed | `Joypad`, `Sgb` |
| Accessories (`printer.c`, `workboy.c`) | command parsers | serial callbacks | a packet is read as what it means | `Printer`, `WorkBoy` |
| Life cycle (`gb.c`) | memories, SGB structure, boot ROM, clock rate | init, loaders, reset, model switch | what is kept beside the machine fits it | `LifeCycle` |
| Pace (`timing.c`, `gb.c`) | lag, turbo | `GB_timing_sync`, `GB_run_frame` | the machine keeps to the time of day | `Pace` |
| Recording (`apu.c`) | file, header, error | start, samples, stop | a recording that ended without an error is whole | `Recording` |
| Debugger (`debugger.c`, `symbol_hash.c`) | breakpoints, jump-to, undo, symbols | commands, hooks, evaluation | the program stops where asked; undo reverts; expressions mean what they say | `Debugger`, `Expression` |
| Cheats (`cheats.c`, `cheat_search.c`) | list, buckets, search | edit, save, load, filter | the table agrees with the list, the filter with memory | `Cheats` |
| Console (`SDL/console.c`) | line, window, history | keys | the line and its window hold | `LineEditor` |
| Cocoa document (`Cocoa/Document.m`) | emulation thread, audio ring, debugger queue | start, stop, atomic blocks | one thread in the core, `stop` returns, sound does not fall behind | `EmulationThread`, `AudioBuffer` |
| libretro core (`libretro.c`) | one or two machines, options | load, options, reset, run | two machines share a frame and are wired as the options say | `Libretro` |
| SDL application (`SDL/main.c`) | one slot for commands, file names | events, loop | each file holds its own game's data | `SdlMain` |

How they interact.  A frontend calls `GB_run` in a loop.  `GB_run` lets the
debugger stop first (`GB_debugger_run`), then runs one instruction
(`GB_cpu_run`).  The instruction advances time with `GB_advance_cycles`, which
steps the timers, the serial port, DMA, the APU, the PPU, the RTC and the camera
in that order, so that a hardware event can come between any two bus accesses
of one instruction.  Everything goes back to the frontend by callbacks, from
inside the instruction: samples, vertical blanks (after which the core pushes a
rewind state), serial bits, debugger input.

What is hard in this code:

* two threads and a core without a lock; `stop` and `performAtomicBlock` spin on
  flags that the other thread clears, and the debugger waits for input in a
  callback while the main thread wants the emulation to end; the CoreAudio
  callback is a third thread;
* events inside an instruction: interrupt registers are read at several times of
  one dispatch, timer writes meet edges and a reload that takes two cycles,
  HDMA meets HALT, a speed switch falls into a batch of cycles;
* work that is done late and in batches: sound generators, lines of pixels,
  cycles; each has to be where it would be if it had been done step by step;
* two machines run in turns that exchange bits inside each other's steps;
* a ring of differences whose keys are replaced while the differences come and
  go, and an instruction counter kept beside it for `backstep`;
* files that other versions, other emulators or a full disk have cut;
* hand-written parsers, codecs and editors with counts at their limits.

## 2. How the models are composed

Each module models one component, parameterised by its bounds, and can be used
alone.  There are few runs and many components, so a model-checking module puts
together the components that belong to one question.  Where components share no
variable, a variable `part` says which of them a behaviour is about; the others stay
in one initial state.  So a run explores the sum, not the product, of its parts, and
a property of a part is false in the run exactly when it is false of the part.  A
property that does not hold in the initial state of a part that a behaviour is not
about is guarded by `part = ..`.  Components that do interact are in one module:
both threads of a document, the PPU with the CPU's fetch and HDMA (`Hdma`), OAM DMA
with the CPU's accesses and HDMA's bytes (`MemoryMap`), both ends of a cable
(`LinkCable`).

| Module | Puts together |
| --- | --- |
| `MCRewind` | `Rewind` with `RewindHistory`, `Backstep`, `RewindCodec`, `Mbc`, `Battery`, `SaveState` |
| `EmulationThread` | checked as it is; `debugging` tells a document under the debugger from a game that is played |
| `MCInterrupts` | `Interrupts`, `Timer` with `TimerEdge`, `LinkCable` |
| `MCDevices` | `Printer`, `WorkBoy`, `AudioBuffer`, `Apu`, `ApuRun` |
| `MCConsole` | `Sm83` with programs, `SpeedSwitch`, `MemoryMap`, `Ppu`, `Hdma`, `PixelPipeline`, `Joypad`, `Sgb` |
| `MCTools` | `LifeCycle`, `Libretro`, `SdlMain`, `Pace`, `Recording`, `Debugger`, `Expression`, `Cheats`, `LineEditor` |

Refinements: `Rewind` implements `RewindHistory`, `Timer` implements `TimerEdge`.
Where an abstract definition is only another way to compute the same thing, the
reference is an operator or a second state beside the first one: the eager
generator in `ApuRun`, the stack evaluation in `Expression`, the line drawn at
once in `PixelPipeline`, the run-length decoding as a whole in `Printer`.

A definition whose comment begins with `mutant:` is a plausible bug: it stands
before the definition it could replace, and a property fails when it does.

## 3. The modules

### What is kept of a machine

**Rewind, RewindHistory.**  `buffer` holds the four `rewind_` fields of
`GB_gameboy_t`; a save state is a model value, and a difference is the pair of the
key it was made with and the state, so that decoding with another key is visible
as `Garbage`.  One push is three operators, in the order of `GB_rewind_push`:
`Prepared` (drop states of another size, allocate), `Advanced` (a full sequence
hands over to the next one, which is freed) and `Extended` (key or difference).
`SwitchModelAndReset` is the composition `gb.c` makes.  `External` is everything
that changes the machine or the size of its save state without telling the
buffer.  `RewindHistory` is the promise: a stack of states that forgets the
oldest sequence when it is full.  `HistoryOf` unrolls the ring into that stack,
from the farthest full sequence behind the current one.

**RewindCodec.**  One action per iteration of the two loops.  The output is a
function from offsets to bytes, with 16-bit counts in pairs of cells, so that a
read of what was never written and a write outside the allocation are visible.

**Backstep.**  With constant inputs the machine is a number, the instructions
executed since power-up; the rewind buffer is the stack of `RewindHistory` with
`instruction_count` beside each state.  `DebuggerRun` counts the instruction and
may stop; `CpuRun` executes it, and pushes at a vertical blank; `Backstep` pops
the frames that were only just pushed and replays the one below.

**SaveState, Mbc, Battery.**  A file is a sequence of cells, and the content of
a part of the machine is the moment at which it was written, of a memory that of
each of its cells; saving and loading happen between two calls of `GB_run` and are
one action each.  `Load` reads the sections into a copy, but the SGB and the
memories in place (`InPlace`), before it can still fail.  `BessContent` has what
the blocks cannot carry: TPP1's RAM bank, HuC1's infrared mode, and the progress of
a Super Game Boy that had not finished its boot ROM and begins it again.  `Mbc` has the
registers of every mapper, the writes that set them and the pairs of the BESS
block.  `Battery` has what a cartridge keeps besides its RAM: the words of MBC7's
chip, with the three lines that drive it, and the clocks in both modes, with leaps
of the host's time and the battery file between two sessions.

### The console

**Interrupts.**  `GB_cpu_run` is cut where it advances time: `Request` may come
between the cuts.  `queue` is the local `interrupt_queue`; a dispatch reads it
again after each push, and a push may hit IE or IF (`stack`).  Of the opcodes
there are those that touch the interrupt state; `Nop` stands for all the others.

**Timer, TimerEdge.**  A step of `Timer` is one machine cycle (`Tick`), or the write
that the CPU makes in it.  TIMA is increased in three places: as the divider
counts, by a write to DIV, and by a write to TAC.  `TimerEdge` knows only one
signal and its falling edges.

**LinkCable.**  `gb` holds both sides' SB, SC, `serial_count`,
`serial_master_clock` and the bit on the cable.  `MasterEdge` is
`GB_serial_master_edge` with the callbacks of `Document.m` carried out inside it.
Every interleaving of edges and register writes is allowed, which covers any
schedule of the two machines' turns.  `exchange` is a history variable: it begins
when one side starts its clock while the other one waits, and is dropped when
either program writes SB or SC before it is over.

**Sm83.**  Every opcode but STOP, with registers, flags, operands and stack, and the
disassembler's lengths.  `MCConsole` runs routines of games on it (decimal and
long arithmetic, division, recursion, frames on the stack), each of which is right
only if instructions agree about the flags one leaves and another looks at.

**SpeedSwitch.**  STOP with its outcomes, the halt that counts down beside the
HALT instruction's own end, the freeze, and the batches of cycles that straddle a
switch.

**MemoryMap, Hdma.**  In each M-cycle the OAM DMA copies a byte and then the CPU
may use a bus; a byte is the set of the bytes it is the AND of.  HDMA, in steps of
its own between two instructions, makes the OAM DMA pass over bytes and writes its
own into OAM (`taken`).  When HDMA begins is in `Hdma`, where PPU and CPU each have
the dots until they act next; HALT, interrupts and writes to HDMA5 and LCDC come
between the request of a block and the block.

**Ppu, PixelPipeline.**  A step of `Ppu` is the code between two `GB_SLEEP`s;
`display_state` is the source's.  `PixelPipeline` draws one line dot by dot and at
once.

**Apu, ApuRun.**  `Apu` has a channel's length counter, envelope and trigger, and
the sweep of the first one, clocked by DIV's edges.  `ApuRun` has the generators:
`lazy` is the code's, which catches up in batches, `eager` runs cycle by cycle.
Cycles come two at a time except at double speed (`timers_run`), and a batch may
begin and end anywhere among them.  The loops of a batch are `Loop`, as many rounds
as fit; a batch that goes beyond a DMG's late start is run in two parts, of which
the second one does not look at the start again.

**Joypad, Sgb.**  Keys that bounce and lines that take their time to switch; the
packets, which a wrong header disables, the map of attributes and the screen with
its border.

### Devices and frontends

**EmulationThread.**  `main` and `emu` say where the two threads are; an action is
what a thread does between two accesses to what they share.  `debug_active` is
computed from two flags without a lock, so that the model lets a stale value
survive while both threads are there.  Four constants switch the user's means on.

**AudioBuffer.**  A sample is its number.  `GotNewSample` is the emulation thread's
callback, `CallbackBegins` and `CallbackEnds` are the CoreAudio callback up to and
from its wait; a wait that times out and one that is signalled are the same
action, so that every race of the two is covered.

**Printer, WorkBoy.**  Bytes are exchanged whole.  In `Printer` each state of the
parser has an action of its own, and `payload`, `accepted` and `begun`, what is left
of a run by the packets before, are history variables; a row that is written beyond
the image (`overrun`) ends a behaviour; the comment at `Core/printer.c:12` says that
the communication timeout is not emulated, `serial_start` does emulate it, and so
does the model.  In `WorkBoy` the user's key is stored in two steps, since the
frontend types on another thread; a cut transfer leaves bits behind, and every byte
after it is a mixture of two.

**LifeCycle.**  Made, loaded by four loaders, reset, switched, shown with a border;
memory is one class of contents per region, sizes are in units of 8 KiB.  A search
for cheats has the sizes it was allocated for, and each pass those the machine has
then; a pass that goes beyond the allocation (`overrun`) ends a behaviour.

**Pace, Recording.**  `Pace` has the lag behind the time of day, which the host
makes longer by stalls and oversleeping.  `Recording` has the disk's room and the
C library's buffer, so that an error may come later than the write that caused
it, or be seen by nobody.

**Libretro, SdlMain.**  Two linked machines in one frame, and the options on which
other state depends, with each machine's callbacks for the cable and the infrared
light; the loop of the SDL application with its one slot for commands, in which a
file name is already that of the next game while the battery is still that of the
running one, and a dropped save state may be any game's.

**Debugger, Expression, Cheats, LineEditor.**  The debugger's program has jumps,
calls, returns, an interrupt and watched memory.  `Expression` has the evaluator
beside a reference with two stacks, and the sorted symbols of a bank.  `Cheats` has
the list, the buckets, the file, and the search, whose one pass reads, decides and
overwrites.  `LineEditor` has every key of the console but Ctrl+Z, which stops the
process.

## 4. What the runs check

`tlc -config X.cfg M` in this directory repeats a run.  Times are those of two
workers.

| Run | Module, configuration | Properties | Size |
| --- | --- | --- | --- |
| rewind | `MCRewind` | `PointersExact`, `ImplementsHistory`, `BackstepInFrame`, `EncodingIsExact`, `CartridgeRemembers`, `SavesAndLoads` | 1,222,632 states, 3 min |
| emulation | `EmulationThread` | `GameCoreExclusive`, `Quiescent`, `InputNeverStarves`, `GameStops`, `GameBlocksReturn` | 94,901 states, 12 s |
| interrupts | `MCInterrupts` | `CallsAreOrderly`, `CallsTheRequested`, `RequestsSurvive`, `HaltEnds`, `CountsEdges`, `SidesInStep`, `ExchangeEnds` | 230,893 states, 3 min |
| devices | `MCDevices` | `PrintsWhatWasSent`, `WorkBoyAnswers`, `PlaysInTime`, `ChannelFollows`, `LazyIsEager` | 1,984,633 states, 2 min |
| console | `MCConsole` | `ProgramsCompute`, `SpeedSwitchKeepsTime`, `LinesKeepTime`, `OneBlockPerHBlank`, `DmaOnItsBus`, `BatchedIsDrawn`, `ShowsTheKeys`, `SgbObeys` | 1,451,069 states, 3 min |
| tools | `MCTools` | `MachineFits`, `LinkedMachines`, `FilesAndStops`, `KeepsPace`, `RecordingIsWhole`, `StopsAsAsked`, `UndoReverts`, `FindsTheListed`, `LineHolds` | 1,451,760 states, 3 min |
| emulation_watchpoint | `EmulationThread`, `EmulationWatchpoint.cfg` | `BlocksOutsideRunningContext` is violated | see 7 |
| backstep_boundary | `Backstep`, `BackstepBoundary.cfg` | `BackstepOneInstruction` is violated | see 7 |
| bess_tpp1 | `Mbc`, `BessTpp1.cfg` | `BessRestores` is violated | see 7 |
| pace_frame_time | `Pace`, `PaceFrameTime.cfg` | `RunFrameTime` is violated | see 7 |

**rewind.**  `PointersExact`: of the ring's pointers none is leaked, freed twice, or
decoded after its key is gone.  `ImplementsHistory`: every step of the ring is a
step of the bounded stack.  `BackstepInFrame`: a backstep that is carried out
from within a frame lands one instruction earlier.  `EncodingIsExact`: the encoding
stays in its allocation and is decoded to what it was made from.
`CartridgeRemembers`: the EEPROM sends the word that was stored; the clock has
counted the time that passed.  `SavesAndLoads`: the size that was predicted;
restoration; and failure: a load refused for what the file says, or whose sections
are short, changes nothing, while one that finds the file's end in what is read in
place has not touched the sections, and of the SGB and the memories has replaced a
prefix (RAM that the file lacks is filled with 0xFF first).

*Bounds.*  A ring of up to three sequences of one key and two differences is the
smallest that wraps with a middle sequence and pops a key across the wrap; two
states and two save-state sizes tell a key from another one and a stale size from
the current one.  Backstep: frames of two, three and four instructions in a buffer
of two sequences, so that the buffer forgets while the command goes back through
frames that were only just pushed.  Codec: states of seven bytes and a count that
is full at two cross a full count three times; four allocated bytes make the
output grow at each kind of write.  Cartridges: all twelve mappers, with the
values that separate their register ranges; an EEPROM of two words of two bits; a
clock with days of four seconds.  Save states: the four families of models, a
cartridge of each size of BESS block, files of two versions, cut at every cell, and
one change by the user of model, cartridge or accessory.

**emulation.**  `GameCoreExclusive` and `Quiescent`: of a game that is played, the
main thread runs no block while the emulation thread is in the core, and a paused
document has no thread.  `InputNeverStarves`: `stop` never spins on a thread that
waits for debugger input which nobody will give.  `GameStops`, `GameBlocksReturn`
(liveness): `stop` and `performAtomicBlock` return.  Input queue: one command,
enough to be taken, missed or left over.

**interrupts.**  `CallsAreOrderly`: EI's delay, the HALT bug, and that only a stack
over IE or IF cancels a call.  `CallsTheRequested` (action property): an interrupt
that was not requested is never chosen, even if PC's low byte is pushed over IF; the
one that is called is the most urgent of those chosen from, still requested and
enabled but for what that byte took away, and no longer requested after it.
`RequestsSurvive` (action property): no request is lost to
another one's call.  `HaltEnds` (liveness): HALT ends once there is a request.
`CountsEdges`: `Timer` implements `TimerEdge`.  `SidesInStep` and `ExchangeEnds`:
an exchange nobody disturbs keeps both sides in step, swaps SB and ends.  Two
interrupts are enough for priorities, a TIMA of two bits overflows and reloads,
DIV's 1024 values contain every bit TAC can select, and bytes of three bits have a
first, a middle and a last bit.  This is the one run that checks deadlock.

**devices.**  `PrintsWhatWasSent`: what the printer decoded byte by byte is what the
packets mean as a whole, after what was left of a run by those before, and the image
is what was accepted as long as it has room.  `WorkBoyAnswers`: the bytes of keys,
clock and settings are those asked for.  `PlaysInTime`: no wake-up of the audio
callback is missed, no sample that was taken is played again, and the sound does not
fall behind (a buffer that is too short is played and kept, `Document.m:446`, and
played again).  `ChannelFollows`: length, envelope and sweep follow the rules.
`LazyIsEager`: a generator that catches up is where it would be, in batches of up to
eight cycles, with two writes between them.  Packets of up to three bytes contain a
run, a literal and what is left of one that was cut; the image takes two commands
and has a row free, as the printer's takes twelve and has one free, so that the
third command overruns it; the buffer of samples grows once, from four to five, of
nine samples; the WorkBoy's calendar has the first and the last day of a month and
the year's roll-over.

**console.**  `ProgramsCompute`: routines on `Sm83` return what they compute.
`SpeedSwitchKeepsTime`: a switch takes its time and no halt is cut short.
`LinesKeepTime`: every line takes its dots, STAT interrupts on the lines it should
and on no others, the frontend's callback is never more than a frame old, and the
CPU reaches no memory that is drawn from.  `OneBlockPerHBlank`: one HDMA block in
each HBlank of a running CPU.  `DmaOnItsBus`: OAM's DMA copies every byte once, but
for those it passes over or finds written by HDMA, and disturbs only the bus it
uses.  `BatchedIsDrawn`: a line drawn dot by dot equals the line drawn at once.
`ShowsTheKeys`: JOYP shows the keys once nothing bounces. `SgbObeys`: a packet's
command has its effect on the map and the screen.  Frames have two visible lines of
five, at their full 456 dots, which gives a first line, a line after a line, and
vertical blank; three changes by the program interfere in each frame; mode 3 lasts
289 dots, as a line with ten objects does.  HDMA's line is shorter and leaves HBlank
the same 87 dots.  OAM has two bytes and HDMA blocks of two, from RAM and from where
the bus is read as it was, so that a block covers the whole of a copy at each phase.
The arithmetic runs on the digits and bytes at which carries change.

**tools.**  `MachineFits`: what is kept beside the machine fits its model, ROM and
settings, and a search for cheats goes beyond what it allocated only after another
game was loaded or where there is no cartridge RAM (see 8).  `LinkedMachines`: two
libretro machines share a frame and are wired as the options say, cable and light.
`FilesAndStops`: each battery and save-state file holds its own game's data, or
another's only if the user dropped a save state with it on that game (`given`); and
the game stands still only as asked.  `KeepsPace`: the machine is never farther
ahead than the code forgives and lags do not add up.  `RecordingIsWhole`: a
recording that ended without an error is whole.  `StopsAsAsked`, `UndoReverts`: see
6.  `FindsTheListed`: the cheats' table, file and search agree with the list, the
symbols of a bank with what was added, an expression with its reference.
`LineHolds`: the console's line, window and history hold through every key but
Ctrl+Z.  A backtrace of two frames for three levels of calls, a history of two
lines, two hash buckets for three cheats and a frame of three or six units each
overflow, collide or wrap once.

`CHECK_DEADLOCK FALSE`: in the other runs a behaviour ends where a bound on a
counter ends it (the last instruction, sample, packet, second or command), where a
program has halted for good, or, in `EmulationThread`, where a debugger's thread
may wait for a command that nobody has to type (see 8 for what else it shows).

## 5. Fairness

* `EmulationThread`: both threads go on as long as they can (`WF(EmuStep)`,
  `WF(MainStep)`; the operating system schedules them), and the run loop of the
  main thread serves what was dispatched to it again and again (`SF(Serve)`,
  because a block is served only between the user's events).  Nothing obliges a
  user to type a command, so that liveness is claimed only of games that are not
  under the debugger.
* `Interrupts`: `WF(Cpu)`, because the frontend calls `GB_run` in a loop.  No
  request has to come.
* `LinkCable`: `WF(Edge(side))` for both sides, because each machine's clock runs as
  long as its `GB_run` is called, and the two are called in turns.
* The other components are checked for safety only and state no fairness.

## 6. What is proved

The proof modules extend the components' own modules and use no other definition of
their behaviour; TLAPS checks them with its SMT and Zenon back ends and LS4.  Each
main theorem has an inductive invariant, which TLC had confirmed on the run's
instance before it was proved, unless it quantifies over more than TLC can enumerate.
The named assumptions on constants are evaluated by TLC in the runs.

**RewindProofs** (any number of frames per key, lengths, states, sizes).
`BufferInv`: allocated sequences have a key exactly where they have differences,
differences stand below `pos`, and each was made with the key beside it
(`PointersAreExact`, `DeltasAlwaysMatch`, `TypeCorrect`).  It says nothing of the
sequences farther back, which the next pop depends on: `RingInv` adds `Shape`, that
behind the current sequence there are `n` full ones and the others are empty
(`BoundariesAreClean`).  For the refinement, `Describes` says that a history is the
concatenation of those sequences' states.  `PushWithRoom`, `PushIntoNext`,
`PopWithin` and `PopBack` are the four ways in which an operation changes the
ring; `PushHistory` and `PopHistory` give the stack's push and pop in terms of
them, and `RingImplementsHistory` follows: every step of the ring is that of the
bounded stack.  Assumptions: `FramesAssumption`, `LengthsAssumption`,
`SizesAssumption`, and that `NULL` and `Garbage` are no states (`NullAssumption`,
`GarbageAssumption`, `RingAssumption`).

It also proves about `Backstep` (any vertical blanks, buffer length, limit on a replay).
`CountIsDistance` is the key, but not inductive: the replay would push a frame if it
ran over a vertical blank.  `FramesInv` says that the instructions a frame counts
contain no blank after its first, `LastInv` the same of the machine itself,
`ReplayInv` that the replay's end is before the next blank, and `OriginInv` that it
is one instruction before the prompt at which `backstep` was given.  `FramesInv`
also says that only the current frame may have a count of 0, for which the
subtraction of 2 would wrap.  `BackstepGoesBackOne` follows for a backstep within
a frame; at a frame's first instruction it is false (see 7).

And about `RewindCodec` (any two states of any size, any largest count, any first
allocation that fits a block).  No variable says where the blocks of the output
are: the invariant `CodecInv` says that there are positions `at` and byte counts
`first` and `mid` with which the output is an alternation of blocks whose counts
and bytes are those of the two states (`Encoded`), and that the two loops are where
those positions say.  `EncodeSame`, `EncodeLiterals`, `EncodeLiteral` and
`EncodeNext` are the four ways in which the output grows.  The decoder counts the
blocks down in place, so that what it has left is less than an encoding
(`DecodingSame`, `DecodingLiteral`), while the blocks ahead are untouched because
they lie behind the one being counted (`BlockShape`).  `EncodingIsExactTheorem`
follows: no byte outside the allocation, no byte read that was not written, and
the state that was encoded comes back.  Assumption: `CodecAssumption`.

**CoreProofs** (any number of interrupts).  `ToggleInv`, `BugInv`, `CallInv`,
`QueueInv` say when EI's toggle, the HALT bug, a call and the sampled queue may be
there; from them `EiDelay`, `Masked`, `BugStaysOut`, `StackCancels`, put together
as `OrderlyCalls`, and `Survival`.  `RequestedCalls` needs `QueueInv`, because IE and
IF are read at two different times: what was sampled may have been taken away since,
by the second push, and by nothing else.

And about `Battery` (any sizes of address and word; any units of the clock with at
least two hours in a day and two days, `BatteryAssumption`).  The chip: while an
argument comes in, the words it is for hold its bits so far (`Begun`) and no others
have changed; else each word is one of those that may be stored there (`StoredInv`);
and the bits that READ has still to send are the first of the shift register
(`AnswerInv`).  `CommandBits` and `ArgumentBits` are the two kinds of rising clock.
The clock: what it shows is a number in mixed radix (`Digits`), and a round of each
loop of `GB_rtc_set_time` adds what its unit is worth, modulo the clock's range and
with the overflow when it wraps (`NextSecondCounts`, `NextMinuteCounts`,
`LeapDayCounts`).  By induction on its rounds a loop does so that often
(`AfterShows`), and `SetTimeCounts` adds up the leap by days and the rest by seconds.
`ClockInv` has to know that HuC3's hint, minutes that no day has, comes only on the
last of its days, where it counts as time before the beginning of that day.
`BatteryTheorem` follows.

**DeviceProofs** (any widths).  The timer: the edge that made TIMA overflow has left
the signal low, and it stays low while the reload waits (`LowWhileWaiting`), or a
second edge would be lost; with it each step of `Timer` is one of `TimerEdge`
(`TimerImplements`).  The cable: while an exchange is under way one side clocks and
the other one waits (`RolesInv`), and the bit on the cable is the one the clocking
side will shift out (`CableFollows`); `InStep` follows.  The audio buffer (any sizes
of buffer and callbacks, any growth): `AudioInv` says that the samples in the buffer
are in the order they were made, that what a callback took is older, and that the
position at which a waiting callback is to be woken is still ahead, because the
wake-up is sent at that very position and never again; `NothingOverflows` and
`SoundIsInTime` follow.  The WorkBoy (any dates that
`DatesAssumption` admits: days up to 31, so that the day's byte has two bits free,
years of one byte, a buffer that the day's byte fits in): `KeyboardInv` says that what
a key needs was found with the Shift that was seen (`TypingInv`), and that a change of
Shift which has not arrived is on its way unless it was lost (`HeldInv`);
`CalendarInv` follows the digits read and the bytes sent so far.
`WhatWasTypedArrives` is their consequence.

A sound channel (any lengths, envelopes, settings of NR10 and `MaxFrequency`,
`SweepAssumption`): `ChannelInv` says that while an envelope's clock is high, the lock
it takes when the clock falls is that of the volume it will find then (`Settled`), or
the volume would leave its four bits.  The sweep's calculation is begun by a trigger or a
clock and ends several steps later, so `SweepInv` says what a unit that was left alone
since has done of it (`Follows`): the addend is shifted and the overflow to be found is
that of the shadow frequency until the countdown ends, and after it, with a shift of 0
only the test at the end of the reload.  `ChannelTheorem` follows, and `ApuTypeTheorem`
that every counter stays in its width.

The printer (any size of its buffer and image, any bytes, data of any length).  The
decoder keeps its place in a run between two bytes, so that what it has so far is no
function of the bytes so far.  `CompressedSoFar` says of every continuation `q` of
these bytes that the runs of `q` are what was decoded followed by what the decoder's
place leaves of `q` (`Left`), or, once the buffer is full, that they begin with what
was decoded.  The same holds of a packet that begins inside a run, as if the byte
that began the run came first (`begun`, `RunLeft`).  `HeaderStep`, `RepeatedStep`,
`LiteralStep` and `FullStep` are the decoder's four steps; at the end of the packet
`q` is the packet and nothing is left (`CompressedEnds`).  `Runs` is a recursive
function, of which the prover knows only a `CHOOSE`: `RunsFromSolves` proves, by the
least place from which a solution can be extended, that its equation has one.  The
image (`HandleKeepsImage`): with an odd number of rows the first command that has no
room overruns it, with an even number the offset wraps and the image holds the
commands since.  `DecoderInv` and `ImageInv` give `PrinterTheorem`.  Assumptions:
`PrinterAssumption`, `PayloadAssumption`.

**GeneratorProofs** (any models, frequencies, polynomials and counters, batches of
any length and cut anywhere, any number of writes).  `LazyTheorem` is
`LazyIsEager`.  `LoopOneLonger`: a batch that is one cycle longer goes through the
same rounds of its loop and has a cycle more left, or one round more, where that
cycle completes it; the loop's rounds are a recursive function, of which
`LoopUnrolls` shows that it exists.  In both cases the longer batch ends where one
cycle of the abstract generator leads (`SquareBatch`, `WaveBatch`, `GeneratedNext`).
The noise channel's late start needs more: a start that waits is aligned when it
comes (`Aligned`), or it would wait again in one of the two and not in the other
(`NoiseBatch`).  This holds because on a DMG cycles come in pairs, so that every
write finds the channel at an even cycle (`Paired`), and six more make a multiple
of four of an even number that is not one.  A batch is then its cycles one by one
(`RanNext`), two batches are one (`RanSplit`), and `RunInv` follows: the pending
cycles lead the lazy generator to the eager one.  Assumption: `RunAssumption`.

**FrontendProofs.**  `PaceIsKept`: `ExcessInv` and `DeficitInv` bound the lag on
both sides in each place of a frame.  `RecordingsAreWhole`: nothing is missing but
what the error accounts for, and errors are kept until the stop (`NothingMissing`,
`ErrorsKept`).  `MachinesFit`: sizes, clock, console, border and reset each fit on
their own (`SizesFit`, ...), the boot ROM's border being the exception the code
makes; `SearchFits` says that a search has the present sizes until a game is loaded,
so that its passes fit.  `MachinesAreLinked`: `FrameInv` bounds how far one machine
is ahead, `WiredInv` says what is wired while no option changed.  A document's two
threads (any means of the user, any bound on the input queue): `ThreadInv` ties the
flags of `stop` to the steps of both; `InputInv` says that, as long as `stop` has
the debugger disabled and the emulation thread waits, one of the two has seen the
other; `QuietInv` that in a game the debugger never stops.  Theorems:
`PausedIsQuiescent`, `StopIsHeard`, `CoreIsExclusive`.

**ToolProofs** (any program, breakpoints, length of the backtrace).  `UndoTakesBack`:
the undo state is the state at the last command about the machine.
`ItStopsAsAsked`: `BreaksInv` (the flag for jump-to breakpoints knows of all of
them), `JumpInv` (a jump that could not be foreseen has been saved before it), and
`SyncInv` (the backtrace has a frame for every call, and the debugger's call depth
is the height of the stack above that of the command).  `TheLineHolds` (any texts,
window and history): `LineInv` keeps the cursor in the line and the window,
`SearchInv` and `PastInv` the search's and the history's cursors on entries that
exist, `CompletionInv` what was typed around the completion.  That a new entry of the
history always finds an identifier is the pigeonhole principle.
`EditorAssumption` says that the terminal is wider than the prompt.  `FilesAreKept`
(any set of games): the next game's name and the running one's data are kept apart
until the switch, and what is loaded from a dropped file becomes the running game's
own (`KeptApart`, `DroppedIsOwn`, `RewindHeld`).  `CheatsTheorem` (any cheats, buckets
and sizes of the memories searched) is about two parts of `FindsTheListed`: that
reads find the list's cheats (`ReadsAreListed`) needs `ListInv`, that each bucket
has exactly the list's cheats whose address belongs to it, each once, and that what
is in the file was in a list once; that a filter relates values to those of the
filter before, all of them, overlapping ones too (`FiltersSinceTheLast`, for memories
of any sizes but zero), needs `ResultsInv`, that for an address that is
left both bytes are remembered as they were, and `Come`, the invariant of the pass
over all addresses, in which a byte may be overwritten before its address is judged.
Added and Pass are recursive functions, so that induction goes over their arguments.

**ConsoleProofs.**  `TheKeysAreShown`: `SelectionInv`, `TimingInv` and `ShownInv`;
the last one has an exception for a key that bounces, which `TimingInv` says will be
looked at again.  `OneBlockEach`: `PacedInv` says how far PPU and CPU may be apart,
`OnceInv` that no second block is under way, and `OwedInv` that a block that is owed
comes before HBlank ends; the longest way to it is 76 dots, hence `LineAssumption`.
`DmaKeepsToItsBus` (any set of pages, an OAM of up to the source's 0xA0 bytes):
which byte OAM gets depends on two counters that `GB_dma_run` keeps separately;
`InPace` and `FromTheStart` say that from the end of the warm-up it has read as many
bytes as it has written, and start again together, the bytes it passes over for HDMA
included; `HdmaKeeps` says that HDMA touches no byte of OAM but those it writes.
`SwitchesKeepTime` (any length of the speed switch's halt, any batches): `LeadInv`
says that while a switch to double speed is counted down, KEY1 cannot be set and
STOP reached before it is over, so that no second switch meets one under way;
`PictureInv` says where the picture stands between machine cycles: modulo 4 in
double speed, 8 in single speed, and shifted by what is left of the countdown and
the freeze.  That the units counted are those that passed is a statement about
`Advance` alone (`AdvanceIs`), with the cycles at each speed counted as the elements
of an interval. `SgbTheorem` (`SgbAssumption`: the length field fits a packet, and
the longest command fits `command`; any map, any set of figures, any animation)
proves the three parts of `SgbObeys`.  Packets: `PhaseInv` says what `GB_sgb_write`
has and expects at each point of the program; a command that was given up leaves it
in the middle of a packet or before a stop, where the next reset pulse discards it,
and a packet's boundary is passed only by a stop.  That every bit has room, and that
the size of a command does not change once its first packet is there, rests on the
length (`LengthSolves`, `SameLength`, `LengthBounded`), a recursive function:
`LastBits` is its equation, and induction is over a set of numbers (`AllNumbers`),
from the least one that is not in it.  Attributes: what has been drawn stays
(`LinesInv`), but an inside or an outside draws the edge, which is why it is drawn
last (`SidesInv`); a cell and its place in ATTR_CHR's data tell each other
(`Places`, `Distance`).  Border: a frame replaces it only where `border_animation`
comes to `FADE`, of which the darkness is computed in the same frame.

**PpuProofs** (any number of lines and dots that `PpuAssumption` admits, any models,
lengths of mode 3, STAT sources and values of LYC, any number of writes).
`LinesAreKept` is `LinesKeepTime`, of which no part is inductive.  `PaceInv` says at
which dot of its line the PPU wakes up in each of its states, which
`cycles_for_line` says from mode 3 on; the first line after the LCD was turned on
counts 8 dots more than pass.  `SinceInv` bounds the age of the callback by the lines
since VBlank and the dots of this one, so that turning the LCD on leaves it in time.
`LockInv` says what is locked in the states between.  STAT needs most: which
requests a frame makes depends on the level of the interrupt line, the level on
what the last update saw, and that on where in the line the PPU is.  `StatInv` says
that a write by the program leaves stat as VBlank and the last line need it
(`Settled`); `SteadyInv` gives, in a frame without writes, the mode and the line last
compared and the level they make (`LevelMode`, `Compared`); `RequestsInv` gives the
requests so far, for LYC alone and for any of the modes, as those of the HBlanks,
searches and VBlanks that have passed (`ByModes`).  `WholeFrame` says that for a whole
frame those are `Interrupted`, the table the property compares with.  The bound
`Fits` is part of the model: mode 3 leaves the line the dots of HBlank's fixed sleeps
(the source continues in its state 9 otherwise).

**Only model-checked.**  Liveness (`GameStops`, `GameBlocksReturn`, `HaltEnds`,
`ExchangeEnds`): the provers have no rules for fairness.  What is computed by
loops and induction over data: programs (`ProgramsCompute`), lines of pixels
(`BatchedIsDrawn`), expressions and the symbols of a bank (`FindsTheListed`, whose
parts about cheats are proved).  Modules on
`Bitwise` (`Sm83`, `Mbc`) and, with them, what `MCRewind` says of them together with
`SaveState` (`SavesAndLoads`).

## 7. Where the code and what is said of it disagree

* **A watchpoint inside an instruction** (run `emulation_watchpoint`).  `gb.h` says
  that `GB_save_state` and others must not be called in a running context.
  `performAtomicBlock` (`Document.m:1724`) runs its block at once if the debugger
  is stopped; `test_watchpoint` sets that flag in the middle of `GB_cpu_run`.
* **`backstep` at the first instruction of a frame** (run `backstep_boundary`) goes
  two instructions back, not one: the count of the frame below has no pending
  instruction in it, and 2 is subtracted all the same (`debugger.c:2108`).
* **TPP1's RAM bank in BESS** (run `bess_tpp1`): the third pair of the MBC block
  should be the register at address 2 and holds the ROM bank (`save_state.c:521`).
* **The time that `GB_run_frame` returns** (run `pace_frame_time`) should be that of
  the frame (`gb.h:919`).  It sets turbo for the frame, in which the synchronisation
  at VBlank (`display.c:244`) zeroes the count it is computed from (`timing.c:67`), so
  that a whole frame is returned as no time.

## 8. Limits of the code that the models show or leave out

These are seen while modelling; no text of the repository says otherwise, or the
models exclude them, in which case the comment at the definition says so.

*Rewind and states.*  `backstep` pops all frames in a row that were just pushed, and
is not available in a frame longer than 0x20000 instructions.  A frontend's rewind
between two commands, jump-to breakpoints and a reset from inside the debugger
leave counts that `backstep` misreads (hazards).  A BESS load does not call
`GB_rewind_invalidate_for_backstepping`.  A load of a native file that ends within
the memories leaves the old registers on the new memories (`save_state.c:1335`);
a refused one can return an `errno` of 0.  BESS accepts INFO before CORE.

*Cartridges.*  A missing `break` loses HuC1's `ir_mode`; the camera's bit 0x10, the
wiring of MBC1M and MBC30 and TPP1's mr4 do not come back from every file.
`GB_load_rom` keeps the old cartridge RAM if its size is equal, and without a
battery file the new game inherits it (`mbc.c:228`).  Write-all ends one word
early (`memory.c:1200`).  In the synchronised mode halted clocks of MBC3 and TPP1
leap when they are started again (`timing.c:318`); `GB_reset` loses the time since
the last sync and zeroes HuC3's clock.

*Console.*  Not modelled: the OAM bug, registers that change within a line of
pixels, DIV glitches of single models during STOP.  A write to HDMA5 that stops
the transfer and meets HBlank leaves `hdma_on` set (`memory.c:1701`).  A batch
equal to the speed switch's countdown, a freeze of 5 that overrides one of 2, and
DMA cycles that are lost while the CPU is frozen (`timing.c:426`, `:461`) are in
`SpeedSwitch` as the code has them.  The volume of a channel can leave its four
bits, and a sweep calculation that ends within a restart's hold uses the new shadow
frequency.  A DMG's write to JOYP that equals the mixed value is ignored while
the lines switch (`memory.c:1565`).  ATTR_LIN accepts lines below the screen, and a
Super Game Boy command that was given up is continued by the next one's packet.

*Debugger and tools.*  `nontrivial_jump_state` stays when something else stops the
program; undo and reset do not restore the backtrace, which is full at 512;
`{}` are not brackets to the scan for operators, and in `addr.bank` bank 0 is the
current one.  `GB_save_cheats` saves nothing if the list is empty, so that removed
cheats come back.  A search for 16-bit values overwrites the old byte at `i + 1`
before it judges it, so that for the address after one that is kept that byte has not
changed.  Where the cartridge has no RAM, the search's pass does not come
from RAM to high memory but reads on (`Cheats` has a cartridge with RAM).  No loader
ends a search: with more cartridge RAM than it began with, its next pass goes beyond
what it allocated (`cheat_search.c:40`), where `LifeCycle` ends.  The console's
Ctrl+Z is not modelled, and the end of a search in its history is one step, though
part of it runs after the terminal's lock is released (`console.c:599`).

*Frontends.*  In the debugged document the main thread may spin in `stop` while the
emulation thread's vblank callback waits for the main queue (`BorderChanges`; hazard
at `Document.m:362`): nothing in the repository says that it cannot happen, and no
property is stated.  SDL's single `pending_command` can lose a QUIT; a rewind key
that is released between two reads leaves `rewind_paused` set.  libretro: the second
machine's offset is computed before its border mode (`libretro.c:642`), "Auto (SGB)"
of the second model sets the first one's flag, and `emulated_devices` never returns
to 1.  The printer's image offset is wrapped before a command's two rows and not
between them (`printer.c:68`): with 25 rows, the thirteenth DATA command without a
print writes its second row beyond the image, where `Printer` ends.  WorkBoy: a key
typed while `serial_start` runs may be lost, a cut transfer shifts all later bytes.
Recording: the results of `fclose` and `fseek` are not looked at (`apu.c:1849`).
Turbo set by a callback during `GB_run_frame` is overwritten at its end
(`gb.c:1218`).

*Components without a module.*  Camera, rumble and random numbers, the rest of the
Cocoa application, iOS, WebAssembly, the tester, boot ROMs, thumbnailers, vendored
code: pure computation, user interface, or what repeats a modelled part with fewer
participants (`PROJECT.json`, "components").
