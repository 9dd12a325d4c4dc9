----------------------------- MODULE MCConsole -----------------------------
(***************************************************************************)
(* The console itself: programs for the CPU with what they have to         *)
(* compute, its change of speed, the memory map with OAM's DMA, the PPU's  *)
(* timing, the HBlank DMA that meets the CPU at its pace, the pixels of a  *)
(* line, the joypad, and the Super Game Boy.  What one part does to        *)
(* another is a free choice in the other's module, so that a behaviour is  *)
(* about one of them.                                                      *)
(***************************************************************************)
EXTENDS Sm83, Hdma, Joypad, MemoryMap, SpeedSwitch, Ppu, Sgb, TLC

CONSTANTS
    Digits,     \* of decimal operands of the programs
    Numbers,    \* bytes of their binary operands
    Divisors,
    WIDTH, MAX_OBJECTS    \* PixelPipeline

VARIABLES
    part,
    line, p, step

pixelVars == <<line, p, step>>
coreVars == <<vars, mapVars, speedVars>>
videoVars == <<ppuVars, hdmaVars, pixelVars>>
allVars == <<part, coreVars, videoVars, joypadVars, sgbVars>>

-----------------------------------------------------------------------------
(* The programs are routines that games have: each works only if the       *)
(* instructions agree about the flags that one leaves and another looks at. *)
Origin == \h0100
Data == \hC000      \* two numbers of four bytes
Stack == \hFF8C     \* six words, in high memory

Loaded(code) ==
    [a \in Origin .. Origin + Len(code) - 1 |-> code[a - Origin + 1]]
        @@ [a \in {\h38} |-> \h76]    \* where the byte of unmapped memory, RST 38, ends
        @@ [a \in Data .. Data + 7 |-> 0] @@ [a \in Stack - 12 .. Stack - 1 |-> 0]

Registers(af, bc, de, hl) ==
    [i \in 0 .. 5 |-> CASE i = 0 -> af [] i = 1 -> bc [] i = 2 -> de
                        [] i = 3 -> hl [] i = 4 -> Stack [] i = 5 -> Origin]

Words == {256 * h + l : h, l \in Numbers}
Decimal == {16 * h + l : h, l \in Digits}
Decimals == {256 * h + l : h, l \in Decimal}
ValueOf(decimal) ==
    1000 * (decimal \div 4096) + 100 * ((decimal \div 256) % 16)
        + 10 * ((decimal \div 16) % 16) + (decimal % 16)

-----------------------------------------------------------------------------
(* hl := hl + bc and hl := hl - bc, in decimal, low bytes first. *)
AddDecimal == <<\h7D, \h81, \h27, \h6F, \h7C, \h88, \h27, \h67, \h76>>
SubDecimal == <<\h7D, \h91, \h27, \h6F, \h7C, \h98, \h27, \h67, \h76>>

(* de := hl + bc byte by byte; bc := hl + bc by ADD HL; hl := its AF. *)
AddTwice ==
    <<\h7D, \h81, \h5F, \h7C, \h88, \h57,   \* ld a, l; add c; ld e, a; ld a, h; adc b; ld d, a
      \h9F, \h09, \hF5, \hE5,               \* sbc a; add hl, bc; push af; push hl
      \hC1, \hE1, \h76>>                    \* pop bc; pop hl; halt

(* The numbers at de and hl, of c bytes: the second is added to the first. *)
AddLong ==
    <<\hB7,                                 \* or a, which clears the carry
      \h1A, \h8E, \h12,                     \* ld a, [de]; adc [hl]; ld [de], a
      \h23, \h13, \h0D, \h20, \hF8, \h76>>  \* inc hl; inc de; dec c; jr nz; halt

(* hl := a * e, by shifting and adding. *)
Multiply ==
    <<\h21, 0, 0, \h16, 0,                  \* ld hl, 0; ld d, 0
      \hCB, \h3F, \h30, 1, \h19,            \* srl a; jr nc; add hl, de
      \hCB, \h23, \hCB, \h12,               \* sla e; rl d
      \hB7, \hC2, 5, 1, \h76>>              \* or a; jp nz; halt

(* e := e / d and a := e % d, by shifting and subtracting. *)
Divide ==
    <<\hAF, \h06, 8,                        \* xor a; ld b, 8
      \hCB, \h23, \h17, \hBA, \h38, 2,      \* sla e; rla; cp d; jr c
      \h92, \h1C, \h05, \h20, \hF5, \h76>>  \* sub d; inc e; dec b; jr nz; halt

(* e := 1 + .. + a, by a routine that calls itself. *)
Recursive ==
    <<\h1E, 0, \hCD, 6, 1, \h76,            \* ld e, 0; call; halt
      \hB7, \hC8, \hF5, \h3D,               \* or a; ret z; push af; dec a
      \hCD, 6, 1, \hF1, \h83, \h5F, \hC9>>  \* call; pop af; add e; ld e, a; ret

(* A word in a frame on the stack, below which hl points; de := bc. *)
Frame ==
    <<\hC5, \hE8, \hFE,                     \* push bc; add sp, -2
      \h08, 0, \hC0, \hF8, 2,               \* ld [C000], sp; ld hl, sp + 2
      \h2A, \h5F, \h3A, \h57,               \* ld a, [hl+]; ld e, a; ld a, [hl-]; ld d, a
      \hE8, 4, \h76>>                       \* add sp, 4; halt

(* An instruction; a jump goes to the last byte but one, or out of the code. *)
Alone(opcode) == <<opcode, 4, 1, 0, 0, \h76>>

Begin(name, code, af, bc, de, hl) ==
    Started([name |-> name, af |-> af, bc |-> bc, de |-> de, hl |-> hl],
            Registers(af, bc, de, hl), Loaded(code))

(* The words hl and bc as the numbers that AddLong adds. *)
BeginLong(hl, bc) ==
    Started([name |-> "long", hl |-> hl, bc |-> bc], Registers(0, 2, Data, Data + 4),
            [Loaded(AddLong) EXCEPT
                 ![Data] = hl % 256, ![Data + 1] = hl \div 256,
                 ![Data + 4] = bc % 256, ![Data + 5] = bc \div 256])

ProgramInit ==
    \/ \E bc, hl \in Decimals : Begin("add", AddDecimal, 0, bc, 0, hl)
    \/ \E bc, hl \in Decimals : Begin("sub", SubDecimal, 0, bc, 0, hl)
    \/ \E bc, hl \in Words : Begin("twice", AddTwice, 0, bc, 0, hl)
    \/ \E bc, hl \in Words : BeginLong(hl, bc)
    \/ \E a, e \in Numbers : Begin("multiply", Multiply, 256 * a, 0, e, 0)
    \/ \E d \in Divisors, e \in Numbers : Begin("divide", Divide, 0, 0, 256 * d + e, 0)
    \/ \E a \in 0 .. 2 : Begin("recursive", Recursive, 256 * a, 0, 0, 0)
    \/ \E bc \in Words : Begin("frame", Frame, 0, bc, 0, 0)
    \/ \E opcode \in 0 .. 255 : Begin("alone", Alone(opcode), 0, 0, 0, 0)
    \/ \E opcode \in 0 .. 255 : Begin("alone", <<\hCB, opcode, \h76>>, 0, 0, 0, 0)
-----------------------------------------------------------------------------
(* A DMG, a CGB up to revision C, and a later one at double speed. *)
PpuModels == {[cgb |-> FALSE, double |-> FALSE, late |-> FALSE, d |-> FALSE],
              [cgb |-> TRUE, double |-> FALSE, late |-> FALSE, d |-> FALSE],
              [cgb |-> TRUE, double |-> TRUE, late |-> TRUE, d |-> TRUE]}
ChosenSources == {{}, {"hblank"}, {"oam"}, {"vblank"}, {"lyc"}, {"hblank", "vblank"},
                  {"hblank", "oam"}, {"vblank", "oam"}}

(* Lines of a DMG and a CGB, with a window that begins on or outside of a  *)
(* tile, and objects at one place, across the edges and each other, and    *)
(* more than a line has.                                                   *)
ObjectLists == {<<>>, <<3, 3>>, <<0, 9, 1>>, <<12, 10, 14>>, <<8, 8, 8, 9>>, <<27, 2>>}
DrawnLines ==
    {l \in [cgb : BOOLEAN, scx : {0, 3, 13}, wx : {7, 9, 22, 40}, window : BOOLEAN,
            wy : BOOLEAN, bg_en : BOOLEAN, obj_en : BOOLEAN, by_index : BOOLEAN,
            objects : ObjectLists] : l.by_index => l.cgb}

(* Keys of both halves, and a pair of opposing directions. *)
Pressed ==
    {{}, {<<"directions", 1>>}, {<<"directions", 1>>, <<"directions", 2>>},
     {<<"directions", 2>>, <<"others", 1>>}}

(* Divisions at and beyond the edges; boxes with and without an inside,    *)
(* and some that are partly or entirely outside of the map.                *)
DrawnFigures ==
    [horizontal : BOOLEAN, line : 0 .. 4, low : {0, 1}, middle : {1, 2}, high : {1, 3}]
        \union [rectangle : {<<0, 0, 3, 2>>, <<1, 0, 3, 2>>, <<1, 1, 1, 1>>, <<2, 1, 5, 7>>,
                             <<2, 2, 1, 1>>},
                inside : {1}, middle : {1, 2}, outside : {0, 3}]

Pixels == INSTANCE PixelPipeline WITH Lines <- DrawnLines

(* The state of a part that a behaviour is not about. *)
SomeMemory == map_model = "DMG"
NoProgram ==
    /\ program = [name |-> "none"]
    /\ cpu = [r |-> Registers(0, 0, 0, 0), mem |-> <<>>, halted |-> TRUE, ime |-> FALSE,
              ime_toggle |-> FALSE]
SomePpu == model = [cgb |-> FALSE, double |-> FALSE, late |-> FALSE, d |-> FALSE]
SomeHdma == double = FALSE
SomeLine ==
    line = [cgb |-> FALSE, scx |-> 0, wx |-> 40, window |-> FALSE, wy |-> FALSE, bg_en |-> FALSE,
            obj_en |-> FALSE, by_index |-> FALSE, objects |-> <<>>]
SomeJoypad == joy_model = "SGB"
SomeFigure ==
    /\ figure = [horizontal |-> TRUE, line |-> 0, low |-> 0, middle |-> 1, high |-> 1]
    /\ method = "file"
    /\ attribute_map = [cell \in Cells |-> 0]

MCInit ==
    /\ part \in {"program", "speed", "memory", "ppu", "hdma", "pixels", "joypad", "packets",
                 "attributes", "screen"}
    /\ IF part = "program" THEN ProgramInit ELSE NoProgram
    /\ SpeedInit
    /\ (part = "memory" \/ SomeMemory) /\ MapInit
    /\ (part = "ppu" \/ SomePpu) /\ PpuInit
    /\ (part = "hdma" \/ SomeHdma) /\ HdmaInit
    /\ (part = "pixels" \/ SomeLine) /\ Pixels!Init
    /\ (part = "joypad" \/ SomeJoypad) /\ JoypadInit
    /\ (part = "attributes" \/ SomeFigure) /\ AttributesInit
    /\ PacketsInit /\ ScreenInit

ProgramStep ==
    /\ part = "program" /\ Run
    /\ UNCHANGED <<part, mapVars, speedVars, videoVars, joypadVars, sgbVars>>
SpeedStep ==
    /\ part = "speed" /\ SpeedNext
    /\ UNCHANGED <<part, vars, mapVars, videoVars, joypadVars, sgbVars>>
MemoryStep ==
    /\ part = "memory" /\ MapNext
    /\ UNCHANGED <<part, vars, speedVars, videoVars, joypadVars, sgbVars>>
PpuStep ==
    /\ part = "ppu" /\ PpuNext
    /\ UNCHANGED <<part, coreVars, hdmaVars, pixelVars, joypadVars, sgbVars>>
HdmaStep ==
    /\ part = "hdma" /\ HdmaNext
    /\ UNCHANGED <<part, coreVars, ppuVars, pixelVars, joypadVars, sgbVars>>
PixelStep ==
    /\ part = "pixels" /\ Pixels!Next
    /\ UNCHANGED <<part, coreVars, ppuVars, hdmaVars, joypadVars, sgbVars>>
JoypadStep ==
    /\ part = "joypad" /\ JoypadNext
    /\ UNCHANGED <<part, coreVars, videoVars, sgbVars>>
\* the command that was received may be a header that fails its checksum
PacketStep ==
    /\ part = "packets"
    /\ \/ PacketsNext /\ UNCHANGED screenVars
       \/ /\ phase = "stop" /\ received # <<>> /\ ~disable_commands
          /\ Header(FALSE, FALSE, FALSE) /\ UNCHANGED packetVars
    /\ UNCHANGED <<part, coreVars, videoVars, joypadVars, attributeVars>>
AttributeStep ==
    /\ part = "attributes" /\ AttributesNext
    /\ UNCHANGED <<part, coreVars, videoVars, joypadVars, packetVars, screenVars>>
ScreenStep ==
    /\ part = "screen" /\ ScreenNext
    /\ UNCHANGED <<part, coreVars, videoVars, joypadVars, packetVars, attributeVars>>

MCNext ==
    \/ ProgramStep \/ SpeedStep \/ MemoryStep
    \/ PpuStep \/ HdmaStep \/ PixelStep
    \/ JoypadStep \/ PacketStep \/ AttributeStep \/ ScreenStep

MCSpec == MCInit /\ [][MCNext]_allVars
-----------------------------------------------------------------------------
Ended(name) == cpu.halted /\ program.name = name

(* The decimal sum and difference of numbers of two bytes: DAA corrects    *)
(* ADC and SBC by the flags they leave, and leaves the carry for the next. *)
DecimalIsRight ==
    LET x == ValueOf(program.hl)
        y == ValueOf(program.bc)
    IN  /\ Ended("add") => /\ ValueOf(cpu.r[HL]) = (x + y) % 10000
                           /\ Has(cpu, Carry) <=> x + y >= 10000
        /\ Ended("sub") => /\ ValueOf(cpu.r[HL]) = (x - y) % 10000
                           /\ Has(cpu, Carry) <=> x < y

(* Sums byte by byte are those of the wide addition, with its carry; loops *)
(* that count with DEC and INC keep the carry; products and quotients by   *)
(* shifts are products and quotients.                                      *)
ArithmeticIsRight ==
    LET a == program.af \div 256
        d == program.de \div 256
        e == program.de % 256
    IN  /\ Ended("twice") =>
               /\ cpu.r[DE] = Word(program.hl + program.bc)
               /\ cpu.r[BC] = cpu.r[DE]
               /\ (cpu.r[HL] \div 16) % 2 = (program.hl + program.bc) \div 65536
               /\ cpu.r[HL] \div 256 = 255 * ((program.hl + program.bc) \div 65536)
        /\ Ended("multiply") => cpu.r[HL] = a * e
        /\ Ended("divide") => Low(cpu, DE) = e \div d /\ High(cpu, AF) = e % d
        /\ Ended("long") =>
               program.hl + program.bc =
                   cpu.mem[Data] + 256 * cpu.mem[Data + 1]
                       + 65536 * Number(Has(cpu, Carry))

(* A routine returns behind its call, also when it calls itself, and       *)
(* leaves the stack as it was; a frame on the stack is found again.        *)
CallsReturn ==
    /\ cpu.halted /\ program.name # "alone" => cpu.r[SP] = Stack
    /\ Ended("recursive") =>
           LET a == program.af \div 256 IN 2 * Low(cpu, DE) = a * (a + 1)
    /\ Ended("frame") =>
           /\ cpu.r[DE] = program.bc /\ cpu.r[HL] = Stack - 2
           /\ cpu.mem[Data] + 256 * cpu.mem[Data + 1] = Stack - 4

(* The CPU executes the instructions that the disassembler lists: none     *)
(* begins inside another line.                                             *)
DisassemblyFollows ==
    cpu.r[PC] \in Origin .. Origin + 19 /\ ~cpu.halted =>
        cpu.r[PC] \in GB_cpu_disassemble(Origin, 20)

(* Programs compute what they should, and the disassembler lists what the  *)
(* CPU executes: the four above.                                           *)
ProgramsCompute ==
    part = "program" => DecimalIsRight /\ ArithmeticIsRight /\ CallsReturn /\ DisassemblyFollows

(* A line drawn at once is the line drawn dot by dot (PixelPipeline).      *)
BatchedIsDrawn == part = "pixels" => Pixels!BatchedIsDrawn
=============================================================================
