-------------------------------- MODULE Sgb --------------------------------
(***************************************************************************)
(* The Super Game Boy (Core/sgb.c), in three parts: the packets by which a *)
(* program sends a command, what the commands for attributes do to the     *)
(* map of palettes, and what the others do to the screen and its border.   *)
(*                                                                         *)
(* A program pulses the two lines of JOYP, and GB_sgb_write assembles the  *)
(* bits.  Each packet is a reset pulse, its bits, and a zero that stops    *)
(* it; a command of several packets begins with how many.  Between the     *)
(* packets and the commands the program may read the joypad, which pulses  *)
(* the same lines, and it may give a packet up in the middle, as when it   *)
(* is reset.                                                               *)
(*                                                                         *)
(* A game draws a figure on the map, a division of the screen or a box, by *)
(* commands of any of the kinds that can draw it (command_ready).          *)
(*                                                                         *)
(* On the screen, data is named by the picture it was taken from, or the   *)
(* command that brought it; GB_sgb_render is a frame.                      *)
(***************************************************************************)
EXTENDS Integers, Sequences, SequencesExt

CONSTANTS
    PACKET_SIZE,     \* in bits, for the source's 16 bytes
    LENGTH_BITS,     \* at the beginning of a command, for the source's 3
    MAX_PACKETS,     \* that command has room for, 7
    COLUMNS, ROWS,   \* of the map, 20 and 18
    Figures,         \* see Drawn
    INTRO_ANIMATION_LENGTH,    \* 200, counted from 0
    BORDER_ANIMATION,          \* 105
    FADE,                      \* 32: the frames of the border's fading, each way
    MaxCommands                \* bound on the commands for the screen

VARIABLES
    disable_commands,    \* by a wrong header
    command,             \* the bits, command_write_index of them
    ready_for_pulse, ready_for_write, ready_for_stop,
    bits,                \* what the program has sent of its command
    phase,               \* what it is about to write
    received             \* the commands that were ready since it began

packetVars == <<command, ready_for_pulse, ready_for_write, ready_for_stop, bits, phase, received>>

PacketsInit ==
    /\ command = <<>> /\ ready_for_pulse = FALSE /\ ready_for_write = FALSE
    /\ ready_for_stop = FALSE /\ bits = <<>> /\ phase = "idle" /\ received = <<>>

(* A bit that was not sent is zero. *)
Bit(c, i) == IF i <= Len(c) THEN c[i] ELSE 0
LengthOf(c) ==    \* from the highest bit on
    LET last[k \in 0 .. LENGTH_BITS] ==
            IF k = 0 THEN 0 ELSE Bit(c, LENGTH_BITS + 1 - k) + 2 * last[k - 1]
    IN  last[LENGTH_BITS]

(* A command has room for the longest length, which it tells in its first *)
(* packet; the map and the fading are not empty.                           *)
ASSUME SgbAssumption ==
    /\ PACKET_SIZE \in Nat /\ LENGTH_BITS \in Nat \ {0} /\ LENGTH_BITS < PACKET_SIZE
    /\ MAX_PACKETS \in Nat \ {0} /\ LengthOf([i \in 1 .. LENGTH_BITS |-> 1]) <= MAX_PACKETS
    /\ COLUMNS \in Nat \ {0} /\ ROWS \in Nat \ {0}
    /\ INTRO_ANIMATION_LENGTH \in Nat /\ BORDER_ANIMATION \in Nat /\ FADE \in Nat \ {0}

(* A header command, which is a packet whatever its length, is marked by   *)
(* the bit after the length and by the length's lowest.                    *)
IsHeader(c) == Bit(c, 1) = 1 /\ Bit(c, LENGTH_BITS + 1) = 1
CommandSize(c) ==
    LET n == LengthOf(c) IN
    IF IsHeader(c) \/ n = 0 THEN PACKET_SIZE ELSE n * PACKET_SIZE

AtPacket == Len(command) % PACKET_SIZE = 0

-----------------------------------------------------------------------------
(* GB_sgb_write, by the lines that are high.                               *)
Ignored == UNCHANGED <<command, ready_for_pulse, ready_for_write, ready_for_stop, received>>

BothHigh ==
    IF disable_commands THEN Ignored
    ELSE /\ ready_for_pulse' = TRUE
         /\ UNCHANGED <<command, ready_for_write, ready_for_stop, received>>

NoPulse == disable_commands \/ ~ready_for_pulse \/ ~ready_for_write

(* A bit is stored unless there is no room; then its pulse is not over. *)
Store(bit) ==
    IF Len(command) = MAX_PACKETS * PACKET_SIZE THEN Ignored
    ELSE /\ command' = Append(command, bit)
         /\ ready_for_pulse' = FALSE
         /\ ready_for_stop' = (Len(command') % PACKET_SIZE = 0)
         /\ UNCHANGED <<ready_for_write, received>>

Stopped == ready_for_pulse' = FALSE /\ ready_for_write' = FALSE

(* The stop of the last packet makes the command ready. *)
PulseZero ==
    IF NoPulse THEN Ignored
    ELSE IF ~ready_for_stop THEN Store(0)
    ELSE /\ IF Len(command) = CommandSize(command)
            THEN command' = <<>> /\ received' = Append(received, command)
            ELSE UNCHANGED <<command, received>>
         /\ Stopped /\ ready_for_stop' = FALSE

(* A one where a packet has to stop discards the command; that a stop is   *)
(* due is forgotten at the next reset.                                     *)
PulseOne ==
    IF NoPulse THEN Ignored
    ELSE IF ~ready_for_stop THEN Store(1)
    ELSE command' = <<>> /\ Stopped /\ UNCHANGED <<ready_for_stop, received>>

ResetForgetful ==    \* mutant: what is left of a packet is kept
    IF disable_commands \/ ~ready_for_pulse THEN Ignored
    ELSE /\ ready_for_write' = TRUE /\ ready_for_pulse' = FALSE
         /\ UNCHANGED <<command, ready_for_stop, received>>

(* A reset pulse in the middle of a packet discards the command. *)
Reset ==
    IF disable_commands \/ ~ready_for_pulse THEN Ignored
    ELSE /\ ready_for_write' = TRUE /\ ready_for_pulse' = FALSE
         /\ IF ~AtPacket \/ command = <<>> \/ ready_for_stop
            THEN command' = <<>> /\ ready_for_stop' = FALSE
            ELSE UNCHANGED <<command, ready_for_stop>>
         /\ UNCHANGED received

-----------------------------------------------------------------------------
(* The program.  Each pulse is followed by both lines high.                *)
Complete == Len(bits) = CommandSize(bits)

Raise ==
    /\ phase \in {"reset", "bit", "stop"}
    /\ BothHigh
    /\ phase' = CASE phase = "stop" -> IF Complete \/ bits = <<>> THEN "idle" ELSE "pause"
                  [] OTHER -> IF bits # <<>> /\ Len(bits) % PACKET_SIZE = 0 /\ phase = "bit"
                              THEN "last" ELSE "write"
    /\ UNCHANGED bits

BeginCommand ==
    /\ phase \in {"idle", "given_up"}
    /\ bits' = <<>> /\ phase' = "first"
    /\ received' = <<>>
    /\ UNCHANGED <<command, ready_for_pulse, ready_for_write, ready_for_stop>>

(* From both lines high. *)
BeginPacket ==
    /\ phase \in {"first", "pause"} /\ (ready_for_pulse \/ disable_commands)
    /\ Reset /\ phase' = "reset" /\ UNCHANGED bits

Send(bit) ==
    /\ phase = "write" /\ phase' = "bit"
    /\ bits' = Append(bits, bit)
    /\ IF bit = 1 THEN PulseOne ELSE PulseZero

Stop == phase = "last" /\ phase' = "stop" /\ PulseZero /\ UNCHANGED bits

(* A wrong stop; the command is not sent. *)
StopWrong == phase = "last" /\ phase' = "stop" /\ PulseOne /\ bits' = <<>>

(* The joypad is read: the directions, the others, and neither. *)
Poll ==
    /\ phase \in {"idle", "first", "pause"}
    /\ phase = "first" => ~ready_for_write
    /\ \/ PulseZero \/ PulseOne \/ BothHigh
    /\ UNCHANGED <<bits, phase>>

(* The program gives up, before a packet's end and after its first bit: at *)
(* a packet's boundary the next command would continue this one, and a     *)
(* read of the joypad would be taken for the bits that are missing.        *)
GiveUp ==
    /\ phase \in {"write", "last"} /\ Len(bits) > 0
    /\ phase = "write" => Len(bits) % PACKET_SIZE # 0
    /\ phase' = "given_up" /\ bits' = <<>>
    /\ UNCHANGED <<command, ready_for_pulse, ready_for_write, ready_for_stop, received>>

PacketsNext ==
    \/ Raise \/ BeginCommand \/ BeginPacket \/ Stop \/ StopWrong \/ Poll \/ GiveUp
    \/ \E bit \in {0, 1} : Send(bit)
-----------------------------------------------------------------------------
VARIABLES
    figure, method, attribute_map,
    left              \* the lines, or the blocks, that are still to be drawn

attributeVars == <<figure, method, attribute_map, left>>

Xs == 0 .. COLUMNS - 1
Ys == 0 .. ROWS - 1
Palettes == 0 .. 3
Position(cell) == cell[1] + COLUMNS * cell[2]
Cells == Xs \X Ys

(* A division is [horizontal, line, low, middle, high], a box [rectangle,  *)
(* inside, middle, outside], its rectangle left, top, right and bottom.    *)
IsBox(f) == "rectangle" \in DOMAIN f

Place(cell, horizontal) == IF horizontal THEN cell[2] ELSE cell[1]
Within(cell, r) == cell[1] \in r[1] .. r[3] /\ cell[2] \in r[2] .. r[4]
Inner(r) == <<r[1] + 1, r[2] + 1, r[3] - 1, r[4] - 1>>

(* What the figures are. *)
DrawnAt(f, cell) ==
    IF IsBox(f)
    THEN IF ~Within(cell, f.rectangle) THEN f.outside
         ELSE IF Within(cell, Inner(f.rectangle)) THEN f.inside ELSE f.middle
    ELSE LET n == Place(cell, f.horizontal) IN
         IF n < f.line THEN f.low ELSE IF n = f.line THEN f.middle ELSE f.high

Drawn == [cell \in Cells |-> DrawnAt(figure, cell)]

-----------------------------------------------------------------------------
(* ATTR_BLK's data, whose chosen are written where its control says so;  *)
(* without a palette for the edge it has that of the one side there is.    *)
Blk(map, r, control, chosen) ==
    LET one == IF control = {"inside"} THEN "inside" ELSE IF control = {"outside"} THEN "outside"
               ELSE "middle"
        edge == one # "middle" \/ "middle" \in control IN
    [cell \in Cells |->
        IF ~Within(cell, r) THEN IF "outside" \in control THEN chosen["outside"] ELSE map[cell]
        ELSE IF Within(cell, Inner(r))
             THEN IF "inside" \in control THEN chosen["inside"] ELSE map[cell]
        ELSE IF edge THEN chosen[one] ELSE map[cell]]

ChrUnwrapped(map, start, downwards, data) ==    \* mutant: a line begins where the first did
    [cell \in Cells |->
        LET n == IF downwards THEN ROWS * (cell[1] - start[1]) + cell[2] - start[2]
                 ELSE COLUMNS * (cell[2] - start[2]) + cell[1] - start[1]
            from == IF downwards THEN start[2] ELSE start[1] IN
        IF n \in 0 .. Len(data) - 1 /\ (IF downwards THEN cell[2] ELSE cell[1]) >= from
        THEN data[n + 1] ELSE map[cell]]

(* ATTR_CHR: from a cell on, along the lines or down the columns, to the   *)
(* end of the data or of the map.                                          *)
Chr(map, start, downwards, data) ==
    [cell \in Cells |->
        LET n == IF downwards THEN ROWS * (cell[1] - start[1]) + cell[2] - start[2]
                 ELSE COLUMNS * (cell[2] - start[2]) + cell[1] - start[1] IN
        IF n \in 0 .. Len(data) - 1 THEN data[n + 1] ELSE map[cell]]

(* ATTR_LIN's data.  A line that the map does not have is not written here *)
(* (see the README for what the source does with the one after the last).  *)
Lin(map, horizontal, line, palette) ==
    [cell \in Cells |-> IF Place(cell, horizontal) = line THEN palette ELSE map[cell]]

(* ATTR_DIV. *)
Div(map, horizontal, line, low, middle, high) ==
    [cell \in Cells |->
        LET n == Place(cell, horizontal) IN
        IF n < line THEN low ELSE IF n = line THEN middle ELSE high]

(* load_attribute_file: a file has a palette for each cell, in order. *)
File(file) == [cell \in Cells |-> file[Position(cell) + 1]]

-----------------------------------------------------------------------------
Lines == IF IsBox(figure) THEN {} ELSE IF figure.horizontal THEN Ys ELSE Xs
Sides == {"inside", "middle", "outside"}
BoxPalettes == [side \in Sides |-> figure[side]]

(* A box may be drawn at once, or a side at a time, its inside and outside *)
(* without an edge's palette before the edge, which that draws too.        *)
Methods(f) ==
    {"file", "along", "down"} \union IF IsBox(f) THEN {"box", "sides"} ELSE {"division", "lines"}

AttributesInit ==
    /\ figure \in Figures
    /\ method \in Methods(figure)
    /\ \E palette \in Palettes : attribute_map = [cell \in Cells |-> palette]
    /\ left = CASE method = "lines" -> Lines [] method = "sides" -> Sides [] OTHER -> {method}

Redraw(map) == attribute_map' = map /\ UNCHANGED <<figure, method>>

DrawFile ==
    /\ method = "file" /\ left # {} /\ left' = {}
    /\ Redraw(File([n \in 1 .. COLUMNS * ROWS |->
                    Drawn[<<(n - 1) % COLUMNS, (n - 1) \div COLUMNS>>]]))

(* In two parts, the second from any cell. *)
DrawCharacters ==
    /\ method \in {"along", "down"} /\ left # {} /\ left' = {}
    /\ LET downwards == method = "down"
           At(n) == IF downwards THEN <<n \div ROWS, n % ROWS>> ELSE <<n % COLUMNS, n \div COLUMNS>>
           Data(from, to) == [i \in 1 .. to - from |-> Drawn[At(from + i - 1)]]
           all == COLUMNS * ROWS IN
       \E n \in 1 .. all - 1 :
            Redraw(Chr(Chr(attribute_map, At(n), downwards, Data(n, all)),
                     At(0), downwards, Data(0, n)))

DrawDivision ==
    /\ method = "division" /\ left # {} /\ left' = {}
    /\ Redraw(Div(attribute_map, figure.horizontal, figure.line,
                figure.low, figure.middle, figure.high))

DrawLine ==
    /\ method = "lines"
    /\ \E line \in left :
        /\ left' = left \ {line}
        /\ Redraw(Lin(attribute_map, figure.horizontal, line,
                    DrawnAt(figure, <<line, line>>)))

DrawBox ==
    /\ method = "box" /\ left # {} /\ left' = {}
    /\ Redraw(Blk(attribute_map, figure.rectangle, Sides, BoxPalettes))

DrawSide ==
    /\ method = "sides"
    /\ \E side \in left :
        /\ side = "middle" => left = {"middle"}
        /\ left' = left \ {side}
        /\ Redraw(Blk(attribute_map, figure.rectangle, {side}, BoxPalettes))

AttributesNext == DrawFile \/ DrawCharacters \/ DrawDivision \/ DrawLine \/ DrawBox \/ DrawSide
-----------------------------------------------------------------------------
VARIABLES
    intro_animation, boot_rom_finished,
    palettes, ram_palettes,
    mask_mode,
    screen_buffer, effective_screen_buffer,
    pending_border, border, border_animation,
    vram_transfer_countdown, transfer_dest,
    shown,         \* what GB_sgb_render has drawn last, with the border's darkness
    commands

machine == <<intro_animation, boot_rom_finished>>
colours == <<palettes, ram_palettes>>
transfer == <<vram_transfer_countdown, transfer_dest>>
pictures == <<screen_buffer, effective_screen_buffer, shown>>
borders == <<pending_border, border, border_animation>>
screenVars == <<machine, disable_commands, colours, mask_mode, pictures, borders, transfer, commands>>

Parts == {"LOW_TILES", "HIGH_TILES", "BORDER_DATA"}

ScreenInit ==
    /\ intro_animation = 0 /\ boot_rom_finished = FALSE /\ disable_commands = FALSE
    /\ palettes = [p \in Palettes |-> IF p = 0 THEN <<"default", "default">> ELSE <<"black", "black">>]
    /\ ram_palettes = "black"
    /\ mask_mode = "DISABLED"
    /\ screen_buffer = "first" /\ effective_screen_buffer = "first"
    /\ border = [part \in Parts |-> "default"] /\ pending_border = [part \in Parts |-> "black"]
    /\ border_animation = 0
    /\ vram_transfer_countdown = 0 /\ transfer_dest = "LOW_TILES"
    /\ shown = [picture |-> "none", border |-> border, dark |-> 0]
    /\ commands = 0

-----------------------------------------------------------------------------
(* command_ready.  The new colours of a command are named by its number.   *)
Ready ==
    /\ ~disable_commands /\ commands < MaxCommands
    /\ commands' = commands + 1
    /\ UNCHANGED <<machine, pictures, borders>>

(* A header command, one that fails its checksum, or the last of a header  *)
(* that does not ask for the Super Game Boy, whose title may have colours. *)
Header(checks, asks, known) ==
    /\ Ready
    /\ disable_commands' = (~boot_rom_finished /\ (~checks \/ ~asks))
    /\ palettes' = IF ~boot_rom_finished /\ checks /\ ~asks /\ known
                   THEN [palettes EXCEPT ![0] = <<"title", "title">>] ELSE palettes
    /\ UNCHANGED <<ram_palettes, mask_mode, transfer>>

(* PAL01, PAL23, PAL03, PAL12: the first colour is that of all palettes. *)
PalCommand(first, second) ==
    /\ Ready
    /\ palettes' = [p \in Palettes |->
            <<commands, IF p \in {first, second} THEN commands ELSE palettes[p][2]>>]
    /\ UNCHANGED <<disable_commands, ram_palettes, mask_mode, transfer>>

(* PAL_SET, which may end a mask; the attribute file it may load is above. *)
PalSet(unmask) ==
    /\ Ready
    /\ palettes' = [p \in Palettes |-> <<ram_palettes, ram_palettes>>]
    /\ mask_mode' = IF unmask THEN "DISABLED" ELSE mask_mode
    /\ UNCHANGED <<disable_commands, ram_palettes, transfer>>

(* ATTR_SET, and MASK_EN. *)
MaskEn(mode) ==
    /\ Ready /\ mask_mode' = mode
    /\ UNCHANGED <<disable_commands, colours, transfer>>

(* PAL_TRN, CHR_TRN, PCT_TRN, ATTR_TRN. *)
Trn(dest) ==
    /\ Ready
    /\ vram_transfer_countdown' = 3 /\ transfer_dest' = dest
    /\ UNCHANGED <<disable_commands, colours, mask_mode>>

-----------------------------------------------------------------------------
(* GB_sgb_render.  What is transferred is what the screen shows now.       *)
Transferred ==
    LET now == vram_transfer_countdown = 1 IN
    /\ vram_transfer_countdown' = vram_transfer_countdown - (IF vram_transfer_countdown > 0 THEN 1 ELSE 0)
    /\ ram_palettes' = IF now /\ transfer_dest = "PALETTES" THEN screen_buffer ELSE ram_palettes
    /\ pending_border' = IF now /\ transfer_dest \in Parts
                         THEN [pending_border EXCEPT ![transfer_dest] = screen_buffer]
                         ELSE pending_border
    /\ UNCHANGED transfer_dest

(* The border's animation starts with its data, and goes on every frame.   *)
Animated ==
    IF vram_transfer_countdown = 1 /\ transfer_dest = "BORDER_DATA" THEN BORDER_ANIMATION
    ELSE border_animation

(* The darkness of its colours: FADE is black. *)
Fading ==
    IF Animated = 0 \/ Animated > 2 * FADE \/ intro_animation' < INTRO_ANIMATION_LENGTH THEN 0
    ELSE IF Animated > FADE THEN 2 * FADE - border_animation' ELSE border_animation'

Picture ==
    IF intro_animation' < INTRO_ANIMATION_LENGTH THEN "intro"
    ELSE CASE mask_mode = "BLACK" -> "black"
           [] mask_mode = "COLOR_0" -> "color_0"
           [] OTHER -> effective_screen_buffer'

DarkestBright == 2 * FADE    \* mutant: the border is replaced before it has faded
Darkest == FADE

GB_sgb_render(rendering) ==
    /\ Transferred
    /\ intro_animation' =
            IF intro_animation < INTRO_ANIMATION_LENGTH THEN intro_animation + 1 ELSE intro_animation
    /\ border_animation' = IF Animated > 0 THEN Animated - 1 ELSE 0
    /\ border' = IF border_animation' = Darkest THEN pending_border' ELSE border
    /\ IF rendering
       THEN /\ effective_screen_buffer' =
                    IF mask_mode = "FREEZE" THEN effective_screen_buffer ELSE screen_buffer
            /\ shown' = [picture |-> Picture, border |-> border', dark |-> Fading]
       ELSE UNCHANGED <<effective_screen_buffer, shown>>
    /\ \E picture \in {"first", "second"} : screen_buffer' = picture
    /\ UNCHANGED <<boot_rom_finished, disable_commands, palettes, mask_mode, commands>>

BootRomFinishes ==
    /\ ~boot_rom_finished /\ boot_rom_finished' = TRUE
    /\ UNCHANGED <<intro_animation, disable_commands, colours, mask_mode, pictures, borders, transfer,
                   commands>>

ScreenNext ==
    \/ \E checks, asks, known \in BOOLEAN : Header(checks, asks, known)
    \/ \E pair \in {<<0, 1>>, <<2, 3>>, <<0, 3>>, <<1, 2>>} : PalCommand(pair[1], pair[2])
    \/ \E unmask \in BOOLEAN : PalSet(unmask)
    \/ \E mode \in {"DISABLED", "FREEZE", "BLACK", "COLOR_0"} : MaskEn(mode)
    \/ \E dest \in Parts \union {"PALETTES", "ATTRIBUTES"} : Trn(dest)
    \/ \E rendering \in BOOLEAN : GB_sgb_render(rendering)
    \/ BootRomFinishes
-----------------------------------------------------------------------------
sgbVars == <<packetVars, attributeVars, screenVars>>

SgbInit == PacketsInit /\ AttributesInit /\ ScreenInit

SgbNext ==
    \/ PacketsNext /\ UNCHANGED <<attributeVars, screenVars>>
    \/ AttributesNext /\ UNCHANGED <<packetVars, screenVars>>
    \/ ScreenNext /\ UNCHANGED <<packetVars, attributeVars>>

SgbSpec == SgbInit /\ [][SgbNext]_sgbVars
-----------------------------------------------------------------------------
(* A command that was sent to its end is ready once, with the bits that    *)
(* were sent, and nothing else is, unless the header has disabled all:     *)
(* whichever command before was given up inside one of its packets or      *)
(* stopped wrongly (GiveUp says why not between packets), and however the  *)
(* joypad is read around the packets.                                      *)
CommandsArrive ==
    phase = "idle" /\ ~disable_commands
        => received = (IF Complete /\ bits # <<>> THEN <<bits>> ELSE <<>>)

(* By whichever command a figure is drawn, the map is the figure.          *)
DrawnAlike == left = {} => attribute_map = Drawn

(* Once the introduction is over, the frame in which the border is         *)
(* replaced is black where the border is: however often a game starts      *)
(* another transfer in the middle of the animation, whatever is masked,    *)
(* and with frames that are not drawn before and after.                    *)
SwapsInTheDark ==
    shown'.border # shown.border /\ shown.border = border /\ shown'.picture # "intro"
        => shown'.dark = FADE

(* A command that is heard arrives, once and whole; the commands for       *)
(* attributes agree; the border is replaced when it is black.              *)
SgbObeys == []CommandsArrive /\ []DrawnAlike /\ [][SwapsInTheDark]_screenVars
=============================================================================
