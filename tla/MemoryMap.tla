----------------------------- MODULE MemoryMap -----------------------------
(***************************************************************************)
(* The memory map and the DMA to OAM (Core/memory.c): each M-cycle the DMA *)
(* copies a byte, and then the CPU may read or write, on a bus the DMA may *)
(* be using.  HALT stops the DMA, and a write to DMA restarts it.  The     *)
(* CGB's HDMA, which stops the CPU, makes the DMA pass over bytes, and     *)
(* writes its own into OAM.                                                *)
(*                                                                         *)
(* A byte is the set of the bytes it is the AND of, and what a cell holds  *)
(* at first is named by the cell; so $FF is the empty set.  The LCD is     *)
(* off: what the PPU blocks or disturbs is in Ppu, and when HDMA begins is *)
(* in Hdma.  The mapper is in Mbc.                                         *)
(***************************************************************************)
EXTENDS Integers, FiniteSets

CONSTANTS
    OamSize,       \* for the source's $A0, at most that
    Pages,         \* the high bytes of the addresses that are used
    MapModels,     \* of "DMG", "CGB_B", "CGB_C", "CGB_E", "AGB"
    HdmaPages,     \* those that HDMA reads
    BlockSize,     \* bytes of a block of HDMA, the source's 16
    MaxBlocks,     \* bound on the blocks that a transfer has left
    MaxAccesses    \* bound on the CPU's writes

(* WarmUp, before the first byte, is no byte's number. *)
ASSUME MapAssumption ==
    /\ OamSize \in 1 .. \hA0 /\ Pages \subseteq 0 .. 255 /\ HdmaPages \subseteq 0 .. 255
    /\ MaxAccesses \in Nat /\ BlockSize \in Nat \ {0} /\ (BlockSize % 2) = 0
    /\ MaxBlocks \in Nat

VARIABLES
    map_model,
    fast,          \* cgb_double_speed
    ram_bank, vram_bank, rom_bank,
    cells,         \* what has been written, apart from OAM
    oam,
    dma_current_dest, dma_current_src,    \* the latter a page and an offset
    dma_restarting, halted,
    turn,          \* within the M-cycle, or where HDMA is
    hdma_current_src, hdma_current_dest,    \* pages and offsets
    hdma_left,     \* bytes of the transfer, with the one under way
    hdma_byte,
    halfway,       \* dma_cycles_modulo = 2, as between the M-cycles of the CPU
    accesses,
    copied,        \* of each byte of OAM, what the DMA should have put there
    disturbed,     \* the bytes of OAM that the CPU spoiled
    taken          \* those that HDMA made the DMA pass over, or wrote

console == <<map_model, fast>>
banks == <<ram_bank, vram_bank, rom_bank>>
dma == <<dma_current_dest, dma_current_src, dma_restarting>>
transferred == <<hdma_current_src, hdma_current_dest, hdma_left, hdma_byte>>
hdmaMoves == <<transferred, halfway>>
noted == <<copied, disturbed, taken>>
mapVars == <<console, banks, cells, oam, dma, halted, turn, hdmaMoves, accesses, noted>>

IsCgb == map_model # "DMG"
Offsets == 0 .. OamSize - 1
Wired(a, b) == a \union b
FF == {}
Zeroes == {<<"zero">>}
Idle == OamSize + 1        \* dma_current_dest = 0xA1
WarmUp == 255

(* read_map and write_map: the cell that an address is. *)
Cell(page, offset) ==
    CASE page < \h40 -> <<"rom", 0, page, offset>>
      [] page \in \h40 .. \h7F -> <<"rom", rom_bank, page % 64, offset>>
      [] page \in \h80 .. \h9F -> <<"vram", vram_bank, page % 32, offset>>
      [] page \in \hA0 .. \hBF -> <<"mbc_ram", 0, page % 32, offset>>
      [] page \div 16 \in {12, 14} -> <<"ram", 0, page % 16, offset>>
      [] page \in \hD0 .. \hDF \union \hF0 .. \hFD -> <<"ram", ram_bank, page % 16, offset>>
      [] page = \hFF -> <<"hram", 0, 0, offset>>

Contents(cell) == IF cell \in DOMAIN cells THEN cells[cell] ELSE {cell}

MapInit ==
    /\ map_model \in MapModels /\ fast \in {FALSE, IsCgb}
    /\ ram_bank = 1 /\ vram_bank = 0 /\ rom_bank = 1
    /\ cells = <<>> /\ oam = [i \in Offsets |-> {<<"oam", 0, 0, i>>}]
    /\ dma_current_dest = Idle /\ dma_current_src = <<0, 0>> /\ dma_restarting = FALSE
    /\ halted = FALSE /\ turn = "cpu" /\ accesses = 0
    /\ hdma_current_src = <<0, 0>> /\ hdma_current_dest = <<0, 0>> /\ hdma_left = 0
    /\ hdma_byte = FF /\ halfway = FALSE
    /\ copied = <<>> /\ disturbed = {} /\ taken = {}

-----------------------------------------------------------------------------
(* bus_for_addr. *)
BusForDmg(page) ==    \* mutant: the CGB's RAM has no bus of its own
    IF page \in \h80 .. \h9F THEN "vram" ELSE "main"

BusFor(page) ==
    CASE page < \h80 \/ page \in \hA0 .. \hBF -> "main"
      [] page \in \h80 .. \h9F -> "vram"
      [] OTHER -> IF IsCgb THEN "ram" ELSE "main"

Active == dma_current_dest # Idle
SrcPage == dma_current_src[1]
SrcOffset == dma_current_src[2]

hdma_in_progress == turn \in {"hdma_begin", "hdma_read", "hdma_wait", "hdma_store"}

(* is_addr_in_dma_use.  The fourth condition lets the DMA itself read. *)
InDmaUseAlways(page, offset) ==    \* mutant: the DMA's own access is not let through
    /\ Active /\ page < \hFE /\ ~hdma_in_progress /\ dma_current_dest \notin {WarmUp, 0}
    /\ BusFor(page) = BusFor(SrcPage)

InDmaUse(page, offset) ==
    /\ Active /\ page < \hFE /\ ~hdma_in_progress
    /\ dma_current_dest \notin {WarmUp, 0}
    /\ <<page, offset>> # dma_current_src
    /\ ~(SrcPage >= \hE0 /\ <<page, offset>> = <<SrcPage - \h20, SrcOffset>>)
    /\ IF IsCgb /\ page >= \hC0 THEN BusFor(SrcPage) # "vram"
       ELSE IF IsCgb /\ SrcPage >= \hE0 THEN BusFor(page) # "vram"
       ELSE BusFor(page) = BusFor(SrcPage)

(* Where a conflicting access goes: to what the DMA reads, but for the     *)
(* CGB's RAM, which has all lines but one to itself.                       *)
Diverted(page, offset) ==
    IF IsCgb /\ page >= \hC0 /\ (BusFor(SrcPage) # "ram" \/ SrcPage >= \hE0)
    THEN <<\hC0 + 16 * ((SrcPage \div 16) % 2) + (page % 16), offset>>
    ELSE <<SrcPage, SrcOffset - 1>>

(* GB_read_memory. *)
ReadMemory(page, offset) ==
    IF page = \hFE
    THEN IF Active /\ (dma_current_dest # 0 \/ dma_restarting) THEN FF ELSE oam[offset]
    ELSE IF ~InDmaUse(page, offset) THEN Contents(Cell(page, offset))
    ELSE IF IsCgb /\ BusFor(page) = "main" /\ SrcPage >= \hE0 THEN FF
    ELSE LET to == Diverted(page, offset) IN
         IF to[1] >= \hFE THEN oam[to[2]] ELSE Contents(Cell(to[1], to[2]))

-----------------------------------------------------------------------------
(* GB_dma_run, for one M-cycle.  As long as HDMA has more than a byte to   *)
(* go, bytes are passed over.                                              *)
PassesOver == hdma_in_progress /\ hdma_left > 1

NextSourceStays ==    \* mutant: a byte that is passed over is not left out
    IF PassesOver THEN dma_current_src ELSE <<SrcPage, SrcOffset + 1>>

NextSource == <<SrcPage, SrcOffset + 1>>

Copy ==
    LET page == IF SrcPage < \hE0 THEN SrcPage ELSE SrcPage - \h20
        byte == IF SrcPage >= \hE0 /\ IsCgb THEN FF ELSE ReadMemory(page, SrcOffset)
    IN  /\ oam' = IF PassesOver THEN oam ELSE [oam EXCEPT ![dma_current_dest] = byte]
        /\ dma_current_dest' = dma_current_dest + 1
        /\ dma_current_src' = NextSource
        /\ copied' = [i \in DOMAIN copied \union {dma_current_dest} |->
                         IF i # dma_current_dest THEN copied[i]
                         ELSE IF SrcPage >= \hE0 /\ IsCgb THEN FF
                         ELSE Contents(Cell(page, i))]
        /\ disturbed' = disturbed \ {dma_current_dest}
        /\ taken' = IF PassesOver THEN taken \union {dma_current_dest}
                    ELSE taken \ {dma_current_dest}
        /\ UNCHANGED dma_restarting

GB_dma_run ==
    IF ~Active THEN UNCHANGED <<oam, dma, noted>>
    ELSE IF dma_current_dest >= OamSize
    THEN /\ dma_current_dest' = IF dma_current_dest = WarmUp THEN 0 ELSE Idle
         /\ UNCHANGED <<oam, dma_current_src, dma_restarting, noted>>
    ELSE Copy

DmaMCycle ==
    /\ turn = "dma" /\ turn' = "cpu"
    /\ IF halted THEN UNCHANGED <<oam, dma, noted>> ELSE GB_dma_run
    /\ UNCHANGED <<console, banks, cells, halted, hdmaMoves, accesses>>

-----------------------------------------------------------------------------
(* What the CPU does in its part of the M-cycle. *)
Cpu == turn = "cpu" /\ ~halted /\ turn' = "dma" /\ UNCHANGED <<console, transferred>>

(* A read changes nothing. *)
NoAccess == Cpu /\ UNCHANGED <<banks, cells, oam, dma, halted, halfway, accesses, noted>>

(* GB_write_memory: first what a conflict does to OAM, then the cell. *)
New == <<"new", accesses>>

Spoil(byte) ==
    /\ oam' = [oam EXCEPT ![dma_current_dest - 1] = byte]
    /\ disturbed' = disturbed \union {dma_current_dest - 1}
    /\ UNCHANGED <<copied, taken>>

Conflict(to) ==
    IF ~IsCgb /\ to < \hA0 THEN UNCHANGED <<oam, noted>>
    ELSE IF to < \hA0 THEN Spoil(Zeroes)
    ELSE IF map_model \in {"DMG", "CGB_B"} THEN Spoil(Wired(oam[dma_current_dest - 1], {New}))
    ELSE IF map_model = "AGB" THEN Spoil({New})
    ELSE UNCHANGED <<oam, noted>>

Lost(to) == (IsCgb \/ to >= \hA0) /\ (map_model \in {"DMG", "CGB_B", "CGB_C"} \/ to >= \hA0)

(* A write to ROM is a register's of the mapper. *)
WriteCell(page, offset) ==
    IF page < \h80 THEN rom_bank' \in {1, 2} /\ UNCHANGED <<cells, ram_bank, vram_bank>>
    ELSE /\ cells' = [cell \in DOMAIN cells \union {Cell(page, offset)} |->
                         IF cell = Cell(page, offset) THEN {New} ELSE cells[cell]]
         /\ UNCHANGED banks

WriteOam(offset) ==
    /\ oam' = IF Active THEN oam ELSE [oam EXCEPT ![offset] = {New}]
    /\ disturbed' = IF Active THEN disturbed ELSE disturbed \union {offset}
    /\ UNCHANGED <<copied, taken, cells, banks>>

WriteMemory(page, offset) ==
    LET to == Diverted(page, offset) IN
    /\ Cpu /\ accesses < MaxAccesses /\ accesses' = accesses + 1
    /\ IF page = \hFE THEN WriteOam(offset)
       ELSE IF ~InDmaUse(page, offset)
       THEN WriteCell(page, offset) /\ UNCHANGED <<oam, noted>>
       ELSE IF IsCgb /\ BusFor(page) = "main" /\ SrcPage >= \hE0
       THEN UNCHANGED <<banks, cells, oam, noted>>
       ELSE IF IsCgb /\ SrcPage \notin \hC0 .. \hDF /\ page >= \hC0
       THEN WriteCell(to[1], to[2]) /\ UNCHANGED <<oam, noted>>
       ELSE /\ Conflict(to[1])
            /\ IF Lost(to[1]) THEN UNCHANGED <<banks, cells>> ELSE WriteCell(to[1], to[2])
    /\ UNCHANGED <<dma, halted, halfway>>

(* Writes to DMA, SVBK and VBK; HALT and its end. *)
WriteDMA(page) ==
    /\ Cpu /\ accesses < MaxAccesses /\ accesses' = accesses + 1
    /\ dma_restarting' = (dma_current_dest \notin {OamSize, Idle})
    /\ dma_current_dest' = WarmUp /\ dma_current_src' = <<page, 0>> /\ halfway' = TRUE
    /\ UNCHANGED <<banks, cells, oam, halted, noted>>

WriteSVBK(value) ==
    /\ Cpu /\ IsCgb /\ ram_bank' = IF value = 0 THEN 1 ELSE value
    /\ ram_bank' # ram_bank
    /\ UNCHANGED <<vram_bank, rom_bank, cells, oam, dma, halted, halfway, accesses, noted>>

WriteVBK(value) ==
    /\ Cpu /\ IsCgb /\ vram_bank # value /\ vram_bank' = value
    /\ UNCHANGED <<ram_bank, rom_bank, cells, oam, dma, halted, halfway, accesses, noted>>

HaltCpu ==
    /\ Cpu /\ halted' = TRUE
    /\ UNCHANGED <<banks, cells, oam, dma, halfway, accesses, noted>>

StayHalt ==
    /\ turn = "cpu" /\ halted /\ turn' = "dma"
    /\ UNCHANGED <<console, banks, cells, oam, dma, halted, hdmaMoves, accesses, noted>>

WakeUp ==
    /\ turn = "cpu" /\ halted /\ halted' = FALSE /\ turn' = "dma"
    /\ GB_dma_run
    /\ UNCHANGED <<console, banks, cells, hdmaMoves, accesses>>

-----------------------------------------------------------------------------
(* GB_hdma_run, after the CPU has read an opcode: a byte takes half an     *)
(* M-cycle, at double speed a whole one.  A transfer begins at any block,  *)
(* its registers are in Hdma.                                              *)
HdmaBegins(from, to, blocks) ==
    /\ turn = "cpu" /\ ~halted /\ IsCgb /\ turn' = "hdma_begin"
    /\ accesses < MaxAccesses /\ accesses' = accesses + 1
    /\ hdma_current_src' = <<from, 0>> /\ hdma_current_dest' = <<to, 0>>
    /\ hdma_left' = blocks * BlockSize
    /\ UNCHANGED <<console, banks, cells, oam, dma, halted, hdma_byte, halfway, noted>>

(* What comes after each GB_advance_cycles; the last one is left out at    *)
(* double speed.                                                           *)
Resumed == [hdma_begin |-> "hdma_read", hdma_wait |-> "hdma_store", hdma_end |-> "dma"]

HdmaWaits ==
    /\ turn \in DOMAIN Resumed /\ turn' = Resumed[turn]
    /\ halfway' = IF fast \/ ~Active THEN halfway ELSE ~halfway
    /\ IF (IF fast THEN turn # "hdma_end" ELSE halfway) THEN GB_dma_run
       ELSE UNCHANGED <<oam, dma, noted>>
    /\ UNCHANGED <<console, banks, cells, halted, hdma_current_src, hdma_current_dest, hdma_left,
                   hdma_byte, accesses>>

(* Bytes beyond OAM go where extra_oam is; VRAM and echo RAM are read as   *)
(* what the bus held before.                                               *)
HdmaReads ==
    LET page == hdma_current_src[1]
        offset == hdma_current_src[2]
        written == {offset} \intersect (IF Active /\ (halfway \/ fast) THEN Offsets ELSE {})
    IN  /\ turn = "hdma_read" /\ turn' = "hdma_wait"
        /\ hdma_byte' = IF page < \h80 \/ page \in \hA0 .. \hDF THEN ReadMemory(page, offset)
                        ELSE {<<"data_bus">>}
        /\ oam' = [i \in Offsets |-> IF i \in written THEN hdma_byte' ELSE oam[i]]
        /\ taken' = taken \union written
        /\ hdma_current_src' = <<page, offset + 1>>
        /\ UNCHANGED <<console, banks, cells, dma, halted, hdma_current_dest, hdma_left, halfway,
                       accesses, copied, disturbed>>

(* After a block, an HBlank transfer waits for the next HBlank, and any    *)
(* ends when its destination wraps.  Where it ended is not kept here.      *)
HdmaStores ==
    LET here == Cell(hdma_current_dest[1], hdma_current_dest[2]) IN
    /\ turn = "hdma_store"
    /\ cells' = [cell \in DOMAIN cells \union {here} |->
                     IF cell = here THEN hdma_byte ELSE cells[cell]]
    /\ \/ /\ hdma_left > 1 /\ turn' = "hdma_read"
          /\ hdma_current_dest' = <<hdma_current_dest[1], hdma_current_dest[2] + 1>>
          /\ hdma_left' = hdma_left - 1
          /\ UNCHANGED <<hdma_current_src, hdma_byte>>
       \/ /\ hdma_left % BlockSize = 1 /\ turn' = "hdma_end"
          /\ hdma_current_src' = <<0, 0>> /\ hdma_current_dest' = <<0, 0>> /\ hdma_left' = 0
          /\ hdma_byte' = FF
    /\ UNCHANGED <<console, banks, oam, dma, halted, halfway, accesses, noted>>

MapNext ==
    \/ DmaMCycle \/ NoAccess \/ HaltCpu \/ StayHalt \/ WakeUp
    \/ \E page \in Pages, offset \in Offsets : WriteMemory(page, offset)
    \/ \E page \in Pages : WriteDMA(page)
    \/ \E from \in HdmaPages, to \in Pages \intersect \h80 .. \h9F, blocks \in 1 .. MaxBlocks :
           HdmaBegins(from, to, blocks)
    \/ HdmaWaits \/ HdmaReads \/ HdmaStores
    \/ \E value \in {0, 2} : WriteSVBK(value)
    \/ \E value \in {0, 1} : WriteVBK(value)

MapSpec == MapInit /\ [][MapNext]_mapVars
-----------------------------------------------------------------------------
MapTypeOK ==
    /\ ram_bank \in 1 .. 7 /\ vram_bank \in {0, 1} /\ rom_bank \in {1, 2}
    /\ dma_current_dest \in 0 .. Idle \union {WarmUp} /\ SrcOffset \in 0 .. OamSize
    /\ disturbed \union taken \subseteq Offsets /\ DOMAIN copied \subseteq Offsets
    /\ {fast, dma_restarting, halted, halfway} \subseteq BOOLEAN
    /\ hdma_left \in 0 .. MaxBlocks * BlockSize

(* What the DMA has copied is the source byte by byte, as it was at the    *)
(* moment, whatever the CPU accesses in between; only a write to a bus the *)
(* DMA uses spoils the byte of that moment.  Excepted are the bytes that   *)
(* the DMA came to while HDMA was under way, which are passed over, and    *)
(* those HDMA wrote into OAM itself; the bytes that follow are those of    *)
(* their own places again.                                                 *)
DmaCopies == \A i \in DOMAIN copied \ (disturbed \union taken) : oam[i] = copied[i]

(* The buses a page is on, for the hardware: CGB's upper addresses select  *)
(* the cartridge and the RAM.                                              *)
Buses(page) ==
    CASE page \in \h80 .. \h9F -> {"vram"}
      [] IsCgb /\ page \in \hC0 .. \hDF -> {"ram"}
      [] IsCgb /\ page >= \hE0 -> {"ram", "main"}
      [] OTHER -> {"main"}

Apart(page) ==
    /\ page < \hFE /\ Buses(page) \intersect Buses(SrcPage) = {}
    /\ ~(IsCgb /\ page >= \hC0 /\ SrcPage \notin \h80 .. \h9F)

(* An access on another bus than the DMA's reads and writes its own cell,  *)
(* and disturbs nothing.                                                   *)
StaysApart ==
    \A page \in Pages, offset \in Offsets :
        Apart(page) =>
            /\ ReadMemory(page, offset) = Contents(Cell(page, offset))
            /\ WriteMemory(page, offset)
                   => /\ oam' = oam
                      /\ page >= \h80 => cells'[Cell(page, offset)] = {New}

(* DMA copies what it should, and meets the CPU only on the bus it uses.   *)
DmaOnItsBus == []DmaCopies /\ [][StaysApart]_mapVars
=============================================================================
