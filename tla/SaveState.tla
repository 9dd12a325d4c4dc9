------------------------------ MODULE SaveState ------------------------------
(***************************************************************************)
(* Save states (Core/save_state.c): the native file, a sequence of         *)
(* sections each behind its size, and the BESS blocks after it whose       *)
(* buffers point back into it; reading either; and what is checked before  *)
(* anything of the machine is replaced.                                    *)
(*                                                                         *)
(* A file is a sequence of cells.  The content of a part of the machine is *)
(* its age, the moment at which it was all written, and that of a memory   *)
(* the age of each of its cells.  Saving and loading happen between two    *)
(* calls of GB_run, so each is one action.                                 *)
(***************************************************************************)
EXTENDS Integers, Sequences, SequencesExt, TLC

CONSTANTS
    Models,      \* of "G", "C", "S" (SGB) and "N" (an SGB without its SFC side)
    Carts,       \* mappers, as in bess_size_for_cartridge
    LastAge      \* bound on the ages

VARIABLES
    gb,          \* the machine: model, cartridge, boot ROM, SGB commands, accessory
    content,     \* the age of each part, and of each cell of a memory
    file,        \* who wrote the file, how, and what has become of it
    outcome,     \* of the last load
    before       \* history: the machine and its content before the last load

vars == <<gb, content, file, outcome, before>>

Blank == 0      \* zeroed, or reset
Filled == -1    \* 0xFF
Foreign == -2   \* read from another part, or meant for another register or cartridge
-----------------------------------------------------------------------------
(* Sections, in the order of the structure, with the parts in each.  Of a  *)
(* mapper, "mbc_other" is what its register pairs do not name: MBC7's      *)
(* EEPROM and latch, TPP1's RAM bank and HuC1's infrared mode.             *)
Sections ==
    << <<"core_state", <<"registers", "pc", "extra_oam">>>>, <<"dma", <<"dma">>>>,
       <<"mbc", <<"mbc", "mbc_other">>>>,
       <<"hram", <<"bank", "hram">>>>, <<"timing", <<"timing">>>>, <<"apu", <<"apu">>>>,
       <<"rtc", <<"rtc">>>>, <<"video", <<"ppu", "oam", "bg_palettes", "obj_palettes">>>>,
       <<"accessory", <<"accessory">>>> >>

InSections == {"registers", "pc", "extra_oam", "dma", "mbc", "mbc_other", "bank", "hram",
               "timing", "apu", "rtc", "ppu", "oam", "bg_palettes", "obj_palettes", "accessory"}
Memories == {"mbc_ram", "ram", "vram"}

\* The structure of the SGB: its command's state, and its pictures, palettes and players.
SgbParts == <<"sgb_commands", "sgb">>

Parts == InSections \cup Memories \cup {"sgb_commands", "sgb"}

MemorySize(m, mem) ==
    CASE mem = "mbc_ram" -> IF m.cart = "NO_MBC" THEN 0
                            ELSE IF m.cart \in {"MBC2", "MBC7"} THEN 1 ELSE 2
      [] mem \in {"ram", "vram"} -> IF m.model = "C" THEN 2 ELSE 1

HasSgb(m) == m.model = "S"
HasRtc(m) == m.cart \in {"MBC3_RTC", "HUC3", "TPP1"}

Machines ==
    {m \in [model : Models, cart : Carts, boot_rom_finished : BOOLEAN, disable_commands : BOOLEAN,
            accessory : BOOLEAN] :
        m.disable_commands => HasSgb(m)}

AllOf(m, age) ==
    [p \in Parts |-> IF p \in Memories THEN [i \in 1 .. MemorySize(m, p) |-> age] ELSE age]

Init ==
    /\ gb \in Machines
    /\ content = AllOf(gb, 1) /\ before = [machine |-> gb, content |-> content]
    /\ file = [by |-> gb, ages |-> content, bess |-> FALSE, other_version |-> FALSE,
               cells |-> <<>>, cut |-> FALSE]
    /\ outcome = "none"
-----------------------------------------------------------------------------
(* bess_size_for_cartridge and GB_get_save_state_size.                     *)
BessSizeForCartridge(m) ==
    CASE m.cart = "NO_MBC" -> 0
      [] m.cart = "MBC2" -> 1 + 2
      [] m.cart \in {"MBC1", "MBC5"} -> 1 + 4
      [] m.cart \in {"MBC3", "CAMERA", "HUC1"} -> 1 + 3
      [] m.cart \in {"MBC3_RTC", "MBC7", "HUC3"} -> 1 + 3 + 2
      [] m.cart = "MMM01" -> 1 + 8
      [] m.cart = "TPP1" -> 1 + 4 + 2

SizeNoBess(m) ==
    1 + FoldLeft(LAMBDA n, s : n + 1 + Len(s[2]), 0, Sections)
      + (IF HasSgb(m) THEN 1 + Len(SgbParts) ELSE 0)
      + MemorySize(m, "mbc_ram") + MemorySize(m, "ram") + MemorySize(m, "vram")

Size(m, bess) ==
    SizeNoBess(m) +
        IF ~bess THEN 0
        ELSE 2 + 2 + 2 + 2 + (IF HasSgb(m) THEN 2 ELSE 0) + BessSizeForCartridge(m) + 1 + 1
-----------------------------------------------------------------------------
(* What save_state_internal writes.                                        *)
Section(ages, parts) ==
    <<[part |-> "size", size |-> Len(parts)]>>
        \o [i \in 1 .. Len(parts) |-> [part |-> parts[i], age |-> ages[parts[i]]]]

Header(other_version) == <<[part |-> "header", version |-> other_version]>>

Native(m, ages) ==
    FoldLeft(LAMBDA f, s : f \o Section(ages, s[2]), Header(FALSE), Sections)
        \o (IF HasSgb(m) THEN Section(ages, SgbParts) ELSE <<>>)

Memory(m, ages, mem) ==
    [i \in 1 .. MemorySize(m, mem) |-> [part |-> mem, age |-> ages[mem][i]]]

PositionOfPadded(m, ages, part) ==    \* mutant: the RAM is looked for before the cartridge's
    LET sgb == Len(Native(m, ages))
    IN CASE part \in {"mbc_ram", "ram"} -> sgb
         [] part = "vram" -> sgb + MemorySize(m, "ram")
         [] OTHER -> (CHOOSE i \in 1 .. sgb : Native(m, ages)[i].part = part) - 1

(* Where a part begins: what tell returned before it was written, and the  *)
(* offset of the part in its section.                                      *)
PositionOf(m, ages, part) ==
    LET sgb == Len(Native(m, ages))
        ram == sgb + MemorySize(m, "mbc_ram")
    IN CASE part = "mbc_ram" -> sgb
         [] part = "ram" -> ram
         [] part = "vram" -> ram + MemorySize(m, "ram")
         [] OTHER -> (CHOOSE i \in 1 .. sgb : Native(m, ages)[i].part = part) - 1

InPalettes == {"bg_palettes", "obj_palettes"}

Buffers(m, ages) ==
    [p \in Memories \cup {"hram", "oam", "bg_palettes", "obj_palettes"} |->
        CASE p \in Memories -> [at |-> PositionOf(m, ages, p), size |-> MemorySize(m, p)]
          [] p \in InPalettes /\ m.model # "C" -> [at |-> 0, size |-> 0]
          [] OTHER -> [at |-> PositionOf(m, ages, p), size |-> 1]]

Block(name, payload) == <<[part |-> "block", name |-> name, size |-> Len(payload)]>> \o payload
Payload(record) == <<[part |-> "data"] @@ record>>

Family(model) == IF model \in {"S", "N"} THEN "S" ELSE model

Core(m, ages) ==
    [family |-> Family(m.model), registers |-> ages["registers"], pc |-> ages["pc"],
     boot_rom_finished |-> m.boot_rom_finished, buffers |-> Buffers(m, ages)]

MbcPairs(cart) ==
    CASE cart = "NO_MBC" -> 0
      [] cart = "MBC2" -> 2
      [] cart \in {"MBC1", "MBC5", "TPP1"} -> 4
      [] cart = "MMM01" -> 8
      [] OTHER -> 3

(* What the pairs hold is module Mbc's; the one of TPP1's RAM bank holds   *)
(* the ROM bank, and HuC1's have no infrared mode.                         *)
MbcBlock(m, ages) ==
    LET pair == [part |-> "data", mbc |-> ages["mbc"],
                 other |-> IF m.cart = "TPP1" THEN Foreign ELSE Blank]
    IN IF m.cart = "NO_MBC" THEN <<>> ELSE Block("MBC", [i \in 1 .. MbcPairs(m.cart) |-> pair])

ClockBlock(m, ages) ==
    IF HasRtc(m)
    THEN Block(CASE m.cart = "MBC3_RTC" -> "RTC" [] OTHER -> m.cart, Payload([rtc |-> ages["rtc"]]))
    ELSE IF m.cart = "MBC7" THEN Block("MBC7", Payload([mbc7 |-> ages["mbc_other"]])) ELSE <<>>

\* The memory beyond OAM, which only a Game Boy Color has.
XoamBlock(m, ages) ==
    Block("XOAM", Payload([extra_oam |-> IF m.model = "C" THEN ages["extra_oam"] ELSE Blank]))

(* Between the END block and the footer the file is padded to the size it  *)
(* has with SGB commands enabled.                                          *)
SgbBlock(m, ages) ==
    IF HasSgb(m) /\ ~m.disable_commands
    THEN Block("SGB", Payload([at |-> PositionOf(m, ages, "sgb")])) ELSE <<>>

Padding(m) ==
    IF HasSgb(m) /\ m.disable_commands THEN <<[part |-> "pad"], [part |-> "pad"]>> ELSE <<>>

Bess(m, ages, start) ==
    Block("NAME", Payload([name |-> "SameBoy"])) \o Block("INFO", Payload([title |-> m.cart]))
        \o Block("CORE", Payload(Core(m, ages))) \o XoamBlock(m, ages)
        \o MbcBlock(m, ages) \o ClockBlock(m, ages) \o SgbBlock(m, ages)
        \o Block("END", <<>>) \o Padding(m) \o <<[part |-> "footer", start |-> start]>>

Written(m, ages, bess) ==
    LET native == Native(m, ages) \o Memory(m, ages, "mbc_ram")
                      \o Memory(m, ages, "ram") \o Memory(m, ages, "vram")
    IN native \o IF bess THEN Bess(m, ages, Len(native)) ELSE <<>>
-----------------------------------------------------------------------------
(* The machine runs, and every part of it changes; the boot ROM may finish, *)
(* and with an SGB refuse the game's header.                               *)
Run ==
    /\ content["registers"] < LastAge /\ outcome = "none" /\ file.cells # <<>>
    /\ \E finished, disabled \in BOOLEAN :
          /\ gb.boot_rom_finished => finished /\ (disabled <=> gb.disable_commands)
          /\ disabled => HasSgb(gb)
          /\ gb' = [gb EXCEPT !.boot_rom_finished = finished, !.disable_commands = disabled]
    /\ content' = AllOf(gb, LastAge) /\ before' = [machine |-> gb', content |-> content']
    /\ UNCHANGED <<file, outcome>>

(* GB_save_state, or GB_save_state_to_buffer_no_bess.                      *)
Save(bess) ==
    /\ outcome = "none" /\ file.cells = <<>>
    /\ file' = [by |-> gb, ages |-> content, bess |-> bess, other_version |-> FALSE,
                cells |-> Written(gb, content, bess), cut |-> FALSE]
    /\ UNCHANGED <<gb, content, outcome, before>>

(* Before it is loaded, a file may lose its end, or come from a SameBoy    *)
(* with another GB_STRUCT_VERSION, and the user may have chosen another    *)
(* model or cartridge, or another accessory.  Bound: each at most once,    *)
(* and one of the user's; of a file with BESS blocks that loses its end no *)
(* more than the native part is read, so only files without are cut.       *)
CutFile ==
    /\ file.cells # <<>> /\ ~file.bess /\ ~file.cut /\ ~file.other_version /\ outcome = "none"
    /\ \E n \in 0 .. Len(file.cells) - 1 :
           file' = [file EXCEPT !.cells = SubSeq(file.cells, 1, n), !.cut = TRUE]
    /\ UNCHANGED <<gb, content, outcome, before>>

OtherVersion ==
    /\ file.cells # <<>> /\ ~file.cut /\ ~file.other_version /\ outcome = "none"
    /\ file' = [file EXCEPT !.cells[1].version = TRUE, !.other_version = TRUE]
    /\ UNCHANGED <<gb, content, outcome, before>>

SwitchMachine ==
    /\ file.cells # <<>> /\ ~file.cut /\ outcome = "none" /\ gb = file.by
    /\ \/ \E m \in Models \ {gb.model} :
              gb' = [gb EXCEPT !.model = m, !.disable_commands = FALSE]
       \/ \E c \in Carts \ {gb.cart} : gb' = [gb EXCEPT !.cart = c]
       \/ gb' = [gb EXCEPT !.accessory = ~@]
    /\ content' = AllOf(gb', LastAge + 1) /\ before' = [machine |-> gb', content |-> content']
    /\ UNCHANGED <<file, outcome>>
-----------------------------------------------------------------------------
(* Reading: a position, whether every read so far got what it asked for,   *)
(* and the structure into which it reads.                                  *)
Left(r) == Len(file.cells) - r.pos
Short(r) == [r EXCEPT !.ok = FALSE]

Fill(save, cells) ==
    FoldLeft(LAMBDA s, c : IF c.part \in DOMAIN s THEN [s EXCEPT ![c.part] = c.age] ELSE s,
             save, cells)

(* read_section: sections may have grown since the file was written.       *)
ReadSection(r) ==
    IF ~r.ok \/ Left(r) < 1 THEN Short(r)
    ELSE LET size == file.cells[r.pos + 1].size
             got == SubSeq(file.cells, r.pos + 2, r.pos + 1 + size)
         IN IF Left(r) < 1 + size THEN Short(r)
            ELSE [r EXCEPT !.pos = @ + 1 + size, !.save = Fill(@, got)]

ReadSections ==
    FoldLeft(LAMBDA r, s : ReadSection(r), [pos |-> 1, ok |-> TRUE, save |-> content], Sections)

(* verify_and_update_state_compatibility.                                  *)
Compatible ==
    /\ (gb.model = "C") = (file.by.model = "C")
    /\ HasSgb(gb) = HasSgb(file.by)
    /\ MemorySize(gb, "mbc_ram") >= MemorySize(file.by, "mbc_ram")

Updated(save) ==
    IF gb.accessory # file.by.accessory THEN [save EXCEPT !["accessory"] = Blank] ELSE save

(* The memories and the SGB are read in place, as far as the file goes.    *)
AtMost(n, r) == IF Left(r) < n THEN Left(r) ELSE n

\* What the cartridge has more RAM than the file's is filled first.
ReadMemory(r, mem, size) ==
    IF ~r.ok THEN r
    ELSE LET n == AtMost(size, r)
         IN [r EXCEPT !.pos = @ + n, !.ok = n = size,
                      !.save[mem] = [i \in DOMAIN @ |-> IF i <= n THEN file.cells[r.pos + i].age
                                                        ELSE IF i > size THEN Filled ELSE @[i]]]

ReadSgb(r) ==
    IF ~HasSgb(gb) THEN r
    ELSE LET n == AtMost(1 + Len(SgbParts), r)
         IN [r EXCEPT !.pos = @ + n, !.ok = n = 1 + Len(SgbParts),
                      !.save = Fill(@, SubSeq(file.cells, r.pos + 1, r.pos + n))]

InPlace(r) ==
    LET sgb == ReadSgb([r EXCEPT !.save = content])
        mbc == ReadMemory(sgb, "mbc_ram", MemorySize(file.by, "mbc_ram"))
        ram == ReadMemory(mbc, "ram", MemorySize(gb, "ram"))
    IN ReadMemory(ram, "vram", MemorySize(gb, "vram"))

(* Whether commands are disabled is in the SGB's structure, the rest of    *)
(* the machine in sections; an accessory that is not the file's is lost.   *)
Commanded(r) ==
    IF HasSgb(gb) /\ Left(r) >= 2
    THEN [gb EXCEPT !.disable_commands = file.by.disable_commands] ELSE gb

LoadNative(r) ==
    LET save == Updated(r.save)
        m == InPlace(r)
    IN /\ content' = [p \in Parts |-> IF p \in InSections /\ m.ok THEN save[p] ELSE m.save[p]]
       /\ outcome' = IF m.ok THEN "loaded" ELSE "short"
       /\ gb' = IF ~m.ok THEN Commanded(r)
                ELSE [Commanded(r) EXCEPT !.model = file.by.model,
                                          !.boot_rom_finished = file.by.boot_rom_finished,
                                          !.accessory = @ /\ file.by.accessory]

LoadNativeInPlace(r) ==     \* mutant: the sections are read into the machine itself
    LET m == InPlace(r)
    IN /\ content' = [p \in Parts |-> IF p \in InSections THEN r.save[p] ELSE m.save[p]]
       /\ outcome' = IF m.ok THEN "loaded" ELSE "short"
       /\ gb' = IF ~m.ok THEN Commanded(r)
                ELSE [Commanded(r) EXCEPT !.model = file.by.model,
                                          !.boot_rom_finished = file.by.boot_rom_finished,
                                          !.accessory = @ /\ file.by.accessory]

FinishNative(r) == LoadNative(r)
-----------------------------------------------------------------------------
(* load_bess_save: the last cell must be the footer.                       *)
Footed == file.cells # <<>> /\ Last(file.cells).part = "footer"

BlocksFrom == SelectSeq(SubSeq(file.cells, Last(file.cells).start + 1, Len(file.cells)),
                        LAMBDA c : c.part \notin {"pad", "footer"})

HasBlock(name) == \E i \in 1 .. Len(BlocksFrom) :
                      BlocksFrom[i].part = "block" /\ BlocksFrom[i].name = name

DataOf(name) ==
    BlocksFrom[1 + CHOOSE i \in 1 .. Len(BlocksFrom) :
                       BlocksFrom[i].part = "block" /\ BlocksFrom[i].name = name]

BessRefused ==
    \/ DataOf("CORE").family # Family(gb.model)
    \/ HasBlock("SGB") /\ ~HasSgb(gb)

(* read_bess_buffer: what is at the offset, zero beyond it.                *)
ReadBuffer(b, part, i) ==
    IF i > b.size THEN Blank
    ELSE LET cell == file.cells[b.at + i] IN IF cell.part = part THEN cell.age ELSE Foreign

FromBuffers(p) ==
    LET b == DataOf("CORE").buffers[p]
    IN IF p \in Memories THEN [i \in 1 .. MemorySize(gb, p) |-> ReadBuffer(b, p, i)]
       ELSE ReadBuffer(b, p, 1)

(* A clock's block is taken by a cartridge with the same clock.            *)
ClockName == CASE gb.cart = "MBC3_RTC" -> "RTC" [] OTHER -> gb.cart

(* A machine with an SGB that had not finished its boot ROM begins anew.   *)
Finished == DataOf("CORE").boot_rom_finished

BessMbc(pair) ==
    IF ~HasBlock("MBC") THEN Blank ELSE IF gb.cart = file.by.cart THEN pair ELSE Foreign

BessContent(p) ==
    CASE p = "registers" -> DataOf("CORE").registers
      [] p = "pc" -> IF HasSgb(gb) /\ ~Finished THEN Blank ELSE DataOf("CORE").pc
      [] p = "extra_oam" -> DataOf("XOAM").extra_oam
      [] p \in DOMAIN DataOf("CORE").buffers -> FromBuffers(p)
      [] p = "mbc" -> BessMbc(DataOf("MBC").mbc)
      [] p = "mbc_other" -> IF gb.cart = "MBC7" /\ HasBlock("MBC7") THEN DataOf("MBC7").mbc7
                            ELSE BessMbc(DataOf("MBC").other)
      [] p = "rtc" -> IF HasRtc(gb) /\ HasBlock(ClockName) THEN DataOf(ClockName).rtc ELSE Blank
      [] p = "sgb" -> IF ~HasSgb(gb) THEN content[p]
                      ELSE IF Finished /\ HasBlock("SGB") THEN file.cells[DataOf("SGB").at + 1].age
                      ELSE Blank
      [] p = "sgb_commands" -> IF HasSgb(gb) THEN Blank ELSE content[p]
      [] OTHER -> Blank

\* Without a block the SGB's commands are taken to have been refused.
LoadBess ==
    IF ~Footed \/ BessRefused
    THEN outcome' = "refused" /\ UNCHANGED <<gb, content>>
    ELSE /\ outcome' = "bess" /\ content' = [p \in Parts |-> BessContent(p)]
         /\ gb' = [gb EXCEPT !.boot_rom_finished = Finished, !.accessory = FALSE,
                             !.disable_commands = HasSgb(gb) /\ Finished /\ ~HasBlock("SGB")]

(* load_state_internal.  A file without the header is not one of ours.     *)
Load ==
    /\ outcome = "none" /\ (file.cells # <<>> \/ file.cut)
    /\ before' = [machine |-> gb, content |-> content]
    /\ LET r == ReadSections IN
       IF file.cells = <<>> \/ ~r.ok THEN outcome' = "refused" /\ UNCHANGED <<gb, content>>
       ELSE IF file.cells[1].version THEN LoadBess
       ELSE IF ~Compatible THEN outcome' = "refused" /\ UNCHANGED <<gb, content>>
       ELSE FinishNative(r)
    /\ UNCHANGED file

Next ==
    \/ Run \/ (\E bess \in BOOLEAN : Save(bess))
    \/ CutFile \/ OtherVersion \/ SwitchMachine \/ Load

Spec == Init /\ [][Next]_vars
-----------------------------------------------------------------------------
(* GB_save_state_to_buffer's caller has allocated GB_get_save_state_size   *)
(* bytes, and the assertion after it is compiled out of a release build:   *)
(* for every machine the predicted size is the size written.               *)
SizeIsPredicted ==
    file.cells # <<>> /\ ~file.cut => Len(file.cells) = Size(file.by, file.bess)

(* A load that is refused for what the file says, or whose sections are    *)
(* not all there, changes nothing.  One that finds the file's end in what  *)
(* is read in place has not touched the sections; the SGB and the          *)
(* memories then are the file's up to one of them, which is the file's up  *)
(* to some cell, and as they were beyond it, but for RAM that the file has *)
(* not, which is filled before the rest is read.                           *)
InPlaceParts == SgbParts \o <<"mbc_ram", "ram", "vram">>

OldContent(p) == before.content[p]

ReadInPart(p) ==
    IF p \notin Memories THEN content[p] = file.ages[p]
    ELSE \A i \in DOMAIN content[p] :
             content[p][i] = IF i \in DOMAIN file.ages[p] THEN file.ages[p][i] ELSE Filled

ReadUpTo(p) ==
    \/ content[p] = OldContent(p)
    \/ /\ p \in Memories
       /\ \E n \in 0 .. Len(content[p]) : \A i \in DOMAIN content[p] :
              content[p][i] = IF i \notin DOMAIN file.ages[p] THEN Filled
                              ELSE IF i <= n THEN file.ages[p][i] ELSE OldContent(p)[i]

FailureKeepsTheMachine ==
    /\ outcome = "refused" => content = before.content /\ gb = before.machine
    /\ outcome = "short" =>
          /\ \A p \in InSections : content[p] = OldContent(p)
          /\ gb = before.machine \/ content["sgb_commands"] # OldContent("sgb_commands")
          /\ \E last \in DOMAIN InPlaceParts :
                \A i \in DOMAIN InPlaceParts :
                    LET p == InPlaceParts[i] IN
                    CASE p \in {"sgb_commands", "sgb"} /\ ~HasSgb(gb) -> content[p] = OldContent(p)
                      [] i < last -> ReadInPart(p)
                      [] i = last -> ReadUpTo(p)
                      [] OTHER -> content[p] = OldContent(p)

(* A state that is loaded into the machine that saved it is the state that *)
(* was saved: all of it from the native sections, and from the BESS blocks *)
(* what these can carry, found through offsets into the native part; but a *)
(* Super Game Boy that was saved within its boot ROM begins it again.      *)
Existing ==
    InSections \cup {mem \in Memories : MemorySize(gb, mem) > 0}
               \cup (IF HasSgb(gb) THEN {"sgb_commands", "sgb"} ELSE {})

BessCarries ==
    {"registers", "pc", "hram", "oam", "mbc_ram", "ram", "vram"}
        \cup (IF gb.model = "C" THEN InPalettes \cup {"extra_oam"} ELSE {})
        \cup (IF gb.cart = "NO_MBC" THEN {} ELSE {"mbc"})
        \cup (IF gb.cart = "MBC7" THEN {"mbc_other"} ELSE {})
        \cup (IF HasRtc(gb) THEN {"rtc"} ELSE {})
        \cup (IF HasSgb(gb) /\ ~gb.disable_commands THEN {"sgb"} ELSE {})

BootsAgain == HasSgb(gb) /\ ~file.by.boot_rom_finished

SameMachine ==
    /\ before.machine.model = file.by.model /\ before.machine.cart = file.by.cart
    /\ before.machine.accessory = file.by.accessory

LoadedIsSaved ==
    SameMachine =>
        /\ outcome = "loaded" =>
              gb = file.by /\ \A p \in Existing : content[p] = file.ages[p]
        /\ outcome = "bess" =>
              /\ gb.boot_rom_finished = file.by.boot_rom_finished
              /\ \A p \in BessCarries \cap Existing :
                    ~(BootsAgain /\ p \in {"pc", "sgb"}) => content[p] = file.ages[p]
              /\ IF BootsAgain THEN content["pc"] = Blank /\ content["sgb"] = Blank
                                   /\ ~gb.disable_commands
                 ELSE gb.disable_commands = file.by.disable_commands
=============================================================================
