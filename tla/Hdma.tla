-------------------------------- MODULE Hdma --------------------------------
(***************************************************************************)
(* The CGB's HBlank DMA: the PPU (Core/display.c, state 33) asks for a     *)
(* block with hdma_on, the CPU (Core/sm83_cpu.c) stops for it after its    *)
(* next fetch (GB_hdma_run, Core/memory.c), and HALT, an interrupt, a      *)
(* write to HDMA5 or LCDC may come in between.  PPU and CPU each have the  *)
(* dots until they act next; the PPU acts first, as GB_advance_cycles runs *)
(* it before it returns to the CPU.                                        *)
(*                                                                         *)
(* STOP, and what is copied, are left out.                                 *)
(***************************************************************************)
EXTENDS Integers

CONSTANTS
    Drawing,          \* the lengths of mode 3
    LINE,             \* 456: the length of a line
    MaxSteps          \* bound: the blocks of a transfer

\* HBlank is long enough for an instruction, an interrupt and a block.
ASSUME LineAssumption ==
    LINE \in Nat /\ \A dots \in Drawing : dots \in Nat /\ dots < LINE - 160

VARIABLES
    double,           \* cgb_double_speed
    ppu_phase, ppu_left,    \* where the PPU is, and the dots it stays there
    rest,             \* the dots that mode 3 leaves to HBlank
    doing, wait,      \* what the CPU does, and the dots it takes
    after,            \* M-cycles of the instruction after a block
    hdma_on, hdma_on_hblank, hdma_steps_left, allow_hdma_on_wake,
    asked,            \* an HBlank transfer was asked for, and not cancelled
    owed,             \* the last HBlank was to copy a block
    blocks            \* copied since state 33, or since HDMA5 was written

ppu == <<ppu_phase, ppu_left, rest>>
hdma == <<hdma_on, hdma_on_hblank, hdma_steps_left>>
seen == <<asked, owed, blocks>>
hdmaVars == <<double, ppu, doing, wait, after, hdma, allow_hdma_on_wake, seen>>

MCycle == IF double THEN 2 ELSE 4
Mode == CASE ppu_phase = "oam" -> 2 [] ppu_phase = "draw" -> 3 [] ppu_phase = "vblank" -> 1 [] OTHER -> 0

HdmaInit ==
    /\ double \in BOOLEAN
    /\ ppu_phase = "off" /\ ppu_left = 0 /\ rest = 0
    /\ doing = "fetch" /\ wait = MCycle /\ after = 0
    /\ hdma_on = FALSE /\ hdma_on_hblank = FALSE /\ hdma_steps_left = 1
    /\ allow_hdma_on_wake = FALSE
    /\ asked = FALSE /\ owed = FALSE /\ blocks = 0
-----------------------------------------------------------------------------
(* The PPU goes from one phase to the next. *)
Enter(from, to, dots) ==
    /\ ppu_phase # "off" /\ ppu_left <= wait
    /\ ppu_phase = from /\ ppu_phase' = to /\ ppu_left' = dots
    /\ wait' = wait - ppu_left
    /\ UNCHANGED <<double, doing, after, allow_hdma_on_wake>>

NoHdma == UNCHANGED <<hdma, seen>>

Draw(dots) ==
    /\ Enter("oam", "draw", dots) \/ Enter("first", "draw", dots)
    /\ rest' = LINE - 80 - dots
    /\ NoHdma

(* Mode 0 is read from STAT; its HDMA follows. *)
DrawingEnds ==
    /\ Enter("draw", "ends", IF double THEN 2 ELSE 3)
    /\ UNCHANGED rest /\ NoHdma

StateThirtyThree ==
    /\ Enter("ends", "hblank", rest - 4)
    /\ hdma_on' = (hdma_on \/ (hdma_on_hblank /\ doing # "halted"))
    /\ owed' = (hdma_on_hblank /\ doing # "halted") /\ blocks' = 0
    /\ UNCHANGED <<rest, hdma_on_hblank, hdma_steps_left, asked>>

(* After the last line comes VBlank. *)
HBlankEnds ==
    /\ Enter("hblank", "seven", 1) \/ Enter("hblank", "vblank", LINE)
    /\ UNCHANGED rest /\ NoHdma

OamBegins ==
    /\ Enter("seven", "oam", 80) \/ Enter("vblank", "oam", 80)
    /\ UNCHANGED rest /\ NoHdma

PpuRuns == (\E dots \in Drawing : Draw(dots)) \/ DrawingEnds \/ StateThirtyThree \/ HBlankEnds
                  \/ OamBegins
-----------------------------------------------------------------------------
(* The CPU acts, and then takes some dots for what it does next. *)
Act(from, to, dots) ==
    /\ doing = from /\ (ppu_phase = "off" \/ wait < ppu_left)
    /\ doing' = to /\ wait' = dots
    /\ UNCHANGED double

PpuWaits == ppu_left' = IF ppu_phase = "off" THEN 0 ELSE ppu_left - wait

(* An instruction's opcode is there: a block comes before it is executed. *)
Fetched(cycles) ==
    /\ IF hdma_on THEN Act("fetch", "block", 2 + 32) ELSE Act("fetch", "execute", cycles * MCycle)
    /\ after' = cycles
    /\ PpuWaits /\ UNCHANGED <<ppu_phase, rest, hdma, allow_hdma_on_wake, seen>>

(* GB_hdma_run: the transfer also ends when its destination wraps to 0. *)
BlockEnds ==
    /\ hdma_steps_left' = hdma_steps_left - 1
    /\ \E over \in BOOLEAN :
           /\ hdma_steps_left = 1 => over
           /\ hdma_on' = (~over /\ ~hdma_on_hblank)
           /\ hdma_on_hblank' = (hdma_on_hblank /\ ~over)
    /\ Act("block", IF hdma_on' THEN "block" ELSE "execute",
           IF hdma_on' THEN 32 ELSE after * MCycle + (IF double THEN 0 ELSE 2))
    /\ blocks' = IF blocks < 2 THEN blocks + 1 ELSE blocks
    /\ PpuWaits /\ UNCHANGED <<ppu_phase, rest, after, allow_hdma_on_wake, asked, owed>>

Executed ==
    /\ Act("execute", "fetch", MCycle)
    /\ PpuWaits /\ UNCHANGED <<ppu_phase, rest, after, hdma, allow_hdma_on_wake, seen>>

Interrupt ==
    /\ Act("execute", "dispatch", 5 * MCycle)
    /\ PpuWaits /\ UNCHANGED <<ppu_phase, rest, after, hdma, allow_hdma_on_wake, seen>>

Dispatched ==
    /\ Act("dispatch", "fetch", MCycle)
    /\ PpuWaits /\ UNCHANGED <<ppu_phase, rest, after, hdma, allow_hdma_on_wake, seen>>

(* A write to HDMA5: stopping a transfer sets its length, too. *)
WriteHDMA5(value) ==
    /\ Act("execute", "fetch", MCycle)
    /\ hdma_steps_left' = value.steps
    /\ hdma_on_hblank' = value.hblank
    /\ hdma_on' = IF ~value.hblank /\ hdma_on_hblank THEN hdma_on
                  ELSE \/ ~value.hblank
                       \/ ppu_phase # "seven" /\ Mode = 0
    /\ asked' = value.hblank /\ owed' = FALSE /\ blocks' = 0
    /\ PpuWaits /\ UNCHANGED <<ppu_phase, rest, after, allow_hdma_on_wake>>

(* A write to LCDC: GB_lcd_off copies a block. *)
LcdTurnedOff ==
    /\ ppu_phase # "off" /\ Act("execute", "fetch", MCycle)
    /\ ppu_phase' = "off" /\ ppu_left' = 0 /\ rest' = 0
    /\ hdma_on' = (hdma_on \/ (hdma_on_hblank /\ Mode # 0))
    /\ owed' = FALSE /\ blocks' = 0
    /\ UNCHANGED <<after, hdma_on_hblank, hdma_steps_left, allow_hdma_on_wake, asked>>

LcdTurnedOn ==
    /\ ppu_phase = "off" /\ Act("execute", "fetch", MCycle)
    /\ ppu_phase' = "first" /\ ppu_left' = 78
    /\ UNCHANGED <<rest, after, hdma, allow_hdma_on_wake, seen>>
-----------------------------------------------------------------------------
HaltForgets ==    \* mutant: HALT does not note the mode
    /\ Act("execute", "halted", MCycle)
    /\ allow_hdma_on_wake' = TRUE
    /\ owed' = FALSE
    /\ PpuWaits /\ UNCHANGED <<ppu_phase, rest, after, hdma, asked, blocks>>

Halt ==
    /\ Act("execute", "halted", MCycle)
    /\ allow_hdma_on_wake' = (Mode # 0)
    /\ owed' = FALSE
    /\ PpuWaits /\ UNCHANGED <<ppu_phase, rest, after, hdma, asked, blocks>>

StayHalted ==
    /\ Act("halted", "halted", MCycle)
    /\ PpuWaits /\ UNCHANGED <<ppu_phase, rest, after, hdma, allow_hdma_on_wake, seen>>

(* With or without calling the interrupt's handler. *)
CpuWakes ==
    /\ Act("halted", "fetch", MCycle) \/ Act("halted", "dispatch", 5 * MCycle)
    /\ hdma_on' = (hdma_on \/ (hdma_on_hblank /\ Mode = 0 /\ allow_hdma_on_wake))
    /\ PpuWaits /\ UNCHANGED <<ppu_phase, rest, after, hdma_on_hblank, hdma_steps_left,
                              allow_hdma_on_wake, seen>>

GB_cpu_run ==
    \/ \E cycles \in {1, 4} : Fetched(cycles)
    \/ BlockEnds \/ Executed \/ Interrupt \/ Dispatched
    \/ \E value \in [steps : 1 .. MaxSteps, hblank : BOOLEAN] : WriteHDMA5(value)
    \/ LcdTurnedOff \/ LcdTurnedOn \/ Halt \/ StayHalted \/ CpuWakes

HdmaNext == PpuRuns \/ GB_cpu_run

HdmaSpec == HdmaInit /\ [][HdmaNext]_hdmaVars
-----------------------------------------------------------------------------
(* An HBlank transfer copies one block in each HBlank: never a second one, *)
(* though the PPU, a HALT that ends and a write to HDMA5 may all ask for   *)
(* it, and none is missed by a CPU that runs (GB_hdma_run).                *)
OneBlockPerHBlank ==
    asked => /\ blocks <= 1
             /\ owed /\ ppu_phase \in {"seven", "oam", "vblank"} => blocks = 1
=============================================================================
