-------------------------------- MODULE Sm83 --------------------------------
(***************************************************************************)
(* The instructions of the CPU (Core/sm83_cpu.c) and how many bytes the    *)
(* disassembler takes them to have (Core/sm83_disassembler.c).  An action  *)
(* is a call of GB_cpu_run while no interrupt is enabled; interrupts are   *)
(* the subject of module Interrupts.  Time is abstracted: nothing else     *)
(* writes to the memory that a program uses.                               *)
(***************************************************************************)
EXTENDS Integers, Bitwise

VARIABLES
    program,    \* what the memory was loaded with, for the properties
    cpu         \* the registers (r), the memory (mem) and the rest of the CPU's state

vars == <<program, cpu>>

AF == 0    BC == 1    DE == 2    HL == 3    SP == 4    PC == 5

Zero == 128    Subtract == 64    HalfCarry == 32    Carry == 16

Byte(v) == v % 256
Word(v) == v % 65536
Signed(v) == IF v < 128 THEN v ELSE v - 256
Number(b) == IF b THEN 1 ELSE 0
Flags(z, n, h, c) == 128 * Number(z) + 64 * Number(n) + 32 * Number(h) + 16 * Number(c)

High(c, i) == c.r[i] \div 256
Low(c, i) == c.r[i] % 256
Set(c, i, v) == [c EXCEPT !.r[i] = Word(v)]
SetHigh(c, i, v) == [c EXCEPT !.r[i] = 256 * Byte(v) + (@ % 256)]
SetLow(c, i, v) == [c EXCEPT !.r[i] = @ - (@ % 256) + Byte(v)]
Has(c, flag) == (c.r[AF] \div flag) % 2 = 1
SetAF(c, a, flags) == [c EXCEPT !.r[AF] = 256 * Byte(a) + flags]

Read(c, address) == IF Word(address) \in DOMAIN c.mem THEN c.mem[Word(address)] ELSE 255
Write(c, address, v) ==
    IF Word(address) \in DOMAIN c.mem THEN [c EXCEPT !.mem[Word(address)] = Byte(v)] ELSE c

(* Operands after the opcode, and PC past n bytes of them. *)
D8(c) == Read(c, c.r[PC])
D16(c) == D8(c) + 256 * Read(c, c.r[PC] + 1)
Past(c, n) == Set(c, PC, c.r[PC] + n)
-----------------------------------------------------------------------------
(* Registers 8 bits wide, and [hl], by three bits of the opcode. *)
get_src_value(c, opcode) ==
    LET id == (opcode \div 2 + 1) % 4
    IN  IF id = AF /\ (opcode % 2) = 0 THEN Read(c, c.r[HL])
        ELSE IF id # AF /\ (opcode % 2) = 1 THEN Low(c, id) ELSE High(c, id)

set_src_value(c, opcode, v) ==
    LET id == (opcode \div 2 + 1) % 4
    IN  IF id = AF /\ (opcode % 2) = 0 THEN Write(c, c.r[HL], v)
        ELSE IF id # AF /\ (opcode % 2) = 1 THEN SetLow(c, id, v) ELSE SetHigh(c, id, v)

ld_r_r(c, opcode) == set_src_value(c, opcode \div 8, get_src_value(c, opcode))
ld_r_d8(c, opcode) == Past(set_src_value(c, opcode \div 8, D8(c)), 1)

Pair(opcode) == opcode \div 16 + 1              \* bc, de, hl, sp
StackPair(opcode) == (opcode \div 16 + 1) % 4   \* bc, de, hl, af

ld_rr_d16(c, opcode) == Past(Set(c, Pair(opcode), D16(c)), 2)
inc_rr(c, opcode) == Set(c, Pair(opcode), c.r[Pair(opcode)] + 1)
dec_rr(c, opcode) == Set(c, Pair(opcode), c.r[Pair(opcode)] - 1)

IncFlags(c, v) == Flags(v = 0, FALSE, (v % 16) = 0, Has(c, Carry))
DecFlags(c, v) == Flags(v = 0, TRUE, (v % 16) = 15, Has(c, Carry))

inc_r(c, opcode) ==
    LET v == Byte(get_src_value(c, opcode \div 8) + 1)
    IN  SetLow(set_src_value(c, opcode \div 8, v), AF, IncFlags(c, v))

dec_rCarry(c, opcode) ==    \* mutant: the flags of a subtraction
    LET v == Byte(get_src_value(c, opcode \div 8) - 1)
    IN  SetLow(set_src_value(c, opcode \div 8, v), AF, Flags(v = 0, TRUE, (v % 16) = 15, v = 255))

dec_r(c, opcode) ==
    LET v == Byte(get_src_value(c, opcode \div 8) - 1)
    IN  SetLow(set_src_value(c, opcode \div 8, v), AF, DecFlags(c, v))

add_hl_rr(c, opcode) ==
    LET rr == c.r[Pair(opcode)]
        hl == c.r[HL]
    IN  SetLow(Set(c, HL, hl + rr), AF,
               Flags(Has(c, Zero), FALSE, (hl % 4096) + (rr % 4096) >= 4096, hl + rr >= 65536))
-----------------------------------------------------------------------------
(* Loads through pointers, high memory and the stack pointer. *)
ld_drr_a(c, opcode) == Write(c, c.r[Pair(opcode)], High(c, AF))
ld_a_drr(c, opcode) == SetHigh(c, AF, Read(c, c.r[Pair(opcode)]))

Stepped(c, opcode) == Set(c, HL, c.r[HL] + (IF opcode \in {\h22, \h2A} THEN 1 ELSE -1))
ld_dhl_a(c, opcode) == Stepped(Write(c, c.r[HL], High(c, AF)), opcode)
ld_a_dhl(c, opcode) == Stepped(SetHigh(c, AF, Read(c, c.r[HL])), opcode)

ld_da8_a(c) == Past(Write(c, 65280 + D8(c), High(c, AF)), 1)
ld_a_da8(c) == Past(SetHigh(c, AF, Read(c, 65280 + D8(c))), 1)
ld_dc_a(c) == Write(c, 65280 + Low(c, BC), High(c, AF))
ld_a_dc(c) == SetHigh(c, AF, Read(c, 65280 + Low(c, BC)))
ld_da16_a(c) == Past(Write(c, D16(c), High(c, AF)), 2)
ld_a_da16(c) == Past(SetHigh(c, AF, Read(c, D16(c))), 2)
ld_da16_sp(c) ==
    Past(Write(Write(c, D16(c), Low(c, SP)), D16(c) + 1, High(c, SP)), 2)

(* An offset's carries are those of its low byte, added without a sign. *)
OffsetFlags(sp, d8) == Flags(FALSE, FALSE, (sp % 16) + (d8 % 16) > 15, (sp % 256) + d8 > 255)

add_sp_r8Unsigned(c) ==    \* mutant: the offset has no sign
    Past(SetLow(Set(c, SP, c.r[SP] + D8(c)), AF, OffsetFlags(c.r[SP], D8(c))), 1)

add_sp_r8(c) ==
    Past(SetLow(Set(c, SP, c.r[SP] + Signed(D8(c))), AF, OffsetFlags(c.r[SP], D8(c))), 1)

ld_hl_sp_r8(c) ==
    Past(SetLow(Set(c, HL, c.r[SP] + Signed(D8(c))), AF, OffsetFlags(c.r[SP], D8(c))), 1)

ld_sp_hl(c) == Set(c, SP, c.r[HL])
-----------------------------------------------------------------------------
(* Arithmetic on the accumulator. *)
add_a(c, v) ==
    LET a == High(c, AF)
    IN  SetAF(c, a + v, Flags(Byte(a + v) = 0, FALSE, (a % 16) + (v % 16) > 15, a + v > 255))

adc_a(c, v) ==
    LET a == High(c, AF)
        carry == Number(Has(c, Carry))
    IN  SetAF(c, a + v + carry,
              Flags(Byte(a + v + carry) = 0, FALSE,
                    (a % 16) + (v % 16) + carry > 15, a + v + carry > 255))

SubFlags(a, v, carry) ==
    Flags(Byte(a - v - carry) = 0, TRUE, (a % 16) < (v % 16) + carry, a < v + carry)

sub_a(c, v) == SetAF(c, High(c, AF) - v, SubFlags(High(c, AF), v, 0))

sbc_aHalf(c, v) ==    \* mutant: the half carry ignores the carry that comes in
    LET a == High(c, AF)
        carry == Number(Has(c, Carry))
    IN  SetAF(c, a - v - carry,
              Flags(Byte(a - v - carry) = 0, TRUE, (a % 16) < (v % 16), a < v + carry))

sbc_a(c, v) ==
    LET carry == Number(Has(c, Carry))
    IN  SetAF(c, High(c, AF) - v - carry, SubFlags(High(c, AF), v, carry))

and_a(c, v) == SetAF(c, High(c, AF) & v, Flags(High(c, AF) & v = 0, FALSE, TRUE, FALSE))
xor_a(c, v) == SetAF(c, High(c, AF) ^^ v, Flags(High(c, AF) = v, FALSE, FALSE, FALSE))
or_a(c, v) == SetAF(c, High(c, AF) | v, Flags(High(c, AF) | v = 0, FALSE, FALSE, FALSE))
cp_a(c, v) == SetLow(c, AF, SubFlags(High(c, AF), v, 0))

Alu(c, opcode, v) ==
    CASE (opcode \div 8) % 8 = 0 -> add_a(c, v)
      [] (opcode \div 8) % 8 = 1 -> adc_a(c, v)
      [] (opcode \div 8) % 8 = 2 -> sub_a(c, v)
      [] (opcode \div 8) % 8 = 3 -> sbc_a(c, v)
      [] (opcode \div 8) % 8 = 4 -> and_a(c, v)
      [] (opcode \div 8) % 8 = 5 -> xor_a(c, v)
      [] (opcode \div 8) % 8 = 6 -> or_a(c, v)
      [] (opcode \div 8) % 8 = 7 -> cp_a(c, v)

alu_a_r(c, opcode) == Alu(c, opcode, get_src_value(c, opcode))
alu_a_d8(c, opcode) == Past(Alu(c, opcode, D8(c)), 1)

(* The signed result, before its low byte is stored, decides the carry. *)
daa(c) ==
    LET a == High(c, AF)
        low == IF Has(c, Subtract)
               THEN IF Has(c, HalfCarry) THEN Byte(a - 6) ELSE a
               ELSE IF Has(c, HalfCarry) \/ (a % 16) > 9 THEN a + 6 ELSE a
        result == IF Has(c, Subtract)
                  THEN IF Has(c, Carry) THEN low - 96 ELSE low
                  ELSE IF Has(c, Carry) \/ low > \h9F THEN low + 96 ELSE low
    IN  SetAF(c, result, Flags(Byte(result) = 0, Has(c, Subtract), FALSE,
                               Has(c, Carry) \/ (result \div 256) % 2 = 1))

cpl(c) == SetAF(c, 255 - High(c, AF), Flags(Has(c, Zero), TRUE, TRUE, Has(c, Carry)))
scf(c) == SetLow(c, AF, Flags(Has(c, Zero), FALSE, FALSE, TRUE))
ccf(c) == SetLow(c, AF, Flags(Has(c, Zero), FALSE, FALSE, ~Has(c, Carry)))
-----------------------------------------------------------------------------
(* Rotations, shifts and single bits: the value, and the bit that left it. *)
Rotated(v, way, carry) ==
    CASE way = 0 -> <<Byte(2 * v) + v \div 128, v \div 128>>                  \* rlc
      [] way = 1 -> <<v \div 2 + 128 * (v % 2), (v % 2)>>                       \* rrc
      [] way = 2 -> <<Byte(2 * v) + carry, v \div 128>>                       \* rl
      [] way = 3 -> <<v \div 2 + 128 * carry, (v % 2)>>                         \* rr
      [] way = 4 -> <<Byte(2 * v), v \div 128>>                               \* sla
      [] way = 5 -> <<v \div 2 + 128 * (v \div 128), (v % 2)>>                  \* sra
      [] way = 6 -> <<v \div 16 + 16 * (v % 16), 0>>                          \* swap
      [] way = 7 -> <<v \div 2, (v % 2)>>                                       \* srl

(* rlca, rrca, rla and rra never set Z. *)
rotate_a(c, opcode) ==
    LET out == Rotated(High(c, AF), opcode \div 8, Number(Has(c, Carry)))
    IN  SetAF(c, out[1], Flags(FALSE, FALSE, FALSE, out[2] = 1))

rotate_r(c, opcode) ==
    LET out == Rotated(get_src_value(c, opcode), opcode \div 8, Number(Has(c, Carry)))
    IN  SetLow(set_src_value(c, opcode, out[1]), AF,
               Flags(out[1] = 0, FALSE, FALSE, out[2] = 1))

bit_r(c, opcode) ==
    LET v == get_src_value(c, opcode)
        bit == 2^((opcode \div 8) % 8)
        set == (v \div bit) % 2 = 1
    IN  CASE opcode \div 64 = 1 -> SetLow(c, AF, Flags(~set, FALSE, TRUE, Has(c, Carry)))
          [] opcode \div 64 = 2 -> set_src_value(c, opcode, IF set THEN v - bit ELSE v)
          [] opcode \div 64 = 3 -> set_src_value(c, opcode, IF set THEN v ELSE v + bit)

cb_prefix(c) ==
    LET opcode == D8(c)
    IN  IF opcode < 64 THEN rotate_r(Past(c, 1), opcode) ELSE bit_r(Past(c, 1), opcode)
-----------------------------------------------------------------------------
(* Jumps, calls and the stack. *)
condition_code(c, opcode) ==
    CASE (opcode \div 8) % 4 = 0 -> ~Has(c, Zero)
      [] (opcode \div 8) % 4 = 1 -> Has(c, Zero)
      [] (opcode \div 8) % 4 = 2 -> ~Has(c, Carry)
      [] (opcode \div 8) % 4 = 3 -> Has(c, Carry)

jr_r8(c) == Set(c, PC, c.r[PC] + 1 + Signed(D8(c)))
jr_cc_r8(c, opcode) == IF condition_code(c, opcode) THEN jr_r8(c) ELSE Past(c, 1)
jp_a16(c) == Set(c, PC, D16(c))
jp_cc_a16(c, opcode) == IF condition_code(c, opcode) THEN jp_a16(c) ELSE Past(c, 2)
jp_hl(c) == Set(c, PC, c.r[HL])

Pushed(c, v) ==
    Set(Write(Write(c, c.r[SP] - 1, v \div 256), c.r[SP] - 2, Byte(v)), SP, c.r[SP] - 2)

push_rr(c, opcode) == Pushed(c, c.r[StackPair(opcode)])

(* Whatever was popped, the flags' lower half cannot be set. *)
pop_rr(c, opcode) ==
    LET v == Read(c, c.r[SP]) + 256 * Read(c, c.r[SP] + 1)
        popped == Set(Set(c, SP, c.r[SP] + 2), StackPair(opcode), v)
    IN  Set(popped, AF, popped.r[AF] - (popped.r[AF] % 16))

call_a16(c) == Set(Pushed(c, Word(c.r[PC] + 2)), PC, D16(c))
call_cc_a16(c, opcode) == IF condition_code(c, opcode) THEN call_a16(c) ELSE Past(c, 2)
rst(c, opcode) == Set(Pushed(c, c.r[PC]), PC, opcode ^^ \hC7)
ret(c) == Set(Set(c, PC, Read(c, c.r[SP]) + 256 * Read(c, c.r[SP] + 1)), SP, c.r[SP] + 2)
ret_cc(c, opcode) == IF condition_code(c, opcode) THEN ret(c) ELSE c
reti(c) == [ret(c) EXCEPT !.ime = TRUE]
di(c) == [c EXCEPT !.ime = FALSE]
ei(c) == [c EXCEPT !.ime_toggle = @ \/ ~c.ime]

(* With no interrupt enabled HALT does not end; an illegal opcode sees to that. *)
halt(c) == [c EXCEPT !.halted = TRUE]
ill(c) == [c EXCEPT !.halted = TRUE]
-----------------------------------------------------------------------------
(* The table of opcodes, by column: opcodes that differ in the row only,   *)
(* or in the row's upper two bits, have the same function.                 *)
Rows(from, to, column) == {16 * row + column : row \in from .. to}

Loads(c, opcode) ==
    CASE opcode \in Rows(0, 3, 1) -> ld_rr_d16(c, opcode)
      [] opcode \in {\h02, \h12} -> ld_drr_a(c, opcode)
      [] opcode \in {\h0A, \h1A} -> ld_a_drr(c, opcode)
      [] opcode \in {\h22, \h32} -> ld_dhl_a(c, opcode)
      [] opcode \in {\h2A, \h3A} -> ld_a_dhl(c, opcode)
      [] opcode \in Rows(0, 3, 6) \union Rows(0, 3, 14) -> ld_r_d8(c, opcode)
      [] opcode \in \h40 .. \h7F \ {\h76} -> ld_r_r(c, opcode)
      [] opcode = \h08 -> ld_da16_sp(c)
      [] opcode = \hE0 -> ld_da8_a(c)
      [] opcode = \hF0 -> ld_a_da8(c)
      [] opcode = \hE2 -> ld_dc_a(c)
      [] opcode = \hF2 -> ld_a_dc(c)
      [] opcode = \hEA -> ld_da16_a(c)
      [] opcode = \hFA -> ld_a_da16(c)
      [] opcode = \hF8 -> ld_hl_sp_r8(c)
      [] opcode = \hF9 -> ld_sp_hl(c)

LoadOpcodes ==
    Rows(0, 3, 1) \union Rows(0, 3, 2) \union Rows(0, 3, 10) \union Rows(0, 3, 6)
        \union Rows(0, 3, 14) \union (\h40 .. \h7F \ {\h76})
        \union {\h08, \hE0, \hF0, \hE2, \hF2, \hEA, \hFA, \hF8, \hF9}

Arithmetic(c, opcode) ==
    CASE opcode \in Rows(0, 3, 3) -> inc_rr(c, opcode)
      [] opcode \in Rows(0, 3, 11) -> dec_rr(c, opcode)
      [] opcode \in Rows(0, 3, 4) \union Rows(0, 3, 12) -> inc_r(c, opcode)
      [] opcode \in Rows(0, 3, 5) \union Rows(0, 3, 13) -> dec_r(c, opcode)
      [] opcode \in Rows(0, 3, 9) -> add_hl_rr(c, opcode)
      [] opcode \in {\h07, \h0F, \h17, \h1F} -> rotate_a(c, opcode)
      [] opcode = \h27 -> daa(c)
      [] opcode = \h2F -> cpl(c)
      [] opcode = \h37 -> scf(c)
      [] opcode = \h3F -> ccf(c)
      [] opcode \in \h80 .. \hBF -> alu_a_r(c, opcode)
      [] opcode \in Rows(12, 15, 6) \union Rows(12, 15, 14) -> alu_a_d8(c, opcode)
      [] opcode = \hCB -> cb_prefix(c)
      [] opcode = \hE8 -> add_sp_r8(c)

Branches(c, opcode) ==
    CASE opcode = \h18 -> jr_r8(c)
      [] opcode \in {\h20, \h28, \h30, \h38} -> jr_cc_r8(c, opcode)
      [] opcode \in {\hC0, \hC8, \hD0, \hD8} -> ret_cc(c, opcode)
      [] opcode \in Rows(12, 15, 1) -> pop_rr(c, opcode)
      [] opcode \in Rows(12, 15, 5) -> push_rr(c, opcode)
      [] opcode \in {\hC2, \hCA, \hD2, \hDA} -> jp_cc_a16(c, opcode)
      [] opcode \in {\hC4, \hCC, \hD4, \hDC} -> call_cc_a16(c, opcode)
      [] opcode \in Rows(12, 15, 7) \union Rows(12, 15, 15) -> rst(c, opcode)
      [] opcode = \hC3 -> jp_a16(c)
      [] opcode = \hC9 -> ret(c)
      [] opcode = \hCD -> call_a16(c)
      [] opcode = \hD9 -> reti(c)
      [] opcode = \hE9 -> jp_hl(c)

BranchOpcodes ==
    {\h18, \h20, \h28, \h30, \h38, \hC0, \hC8, \hD0, \hD8, \hC2, \hCA, \hD2, \hDA, \hC4, \hCC,
     \hD4, \hDC, \hC3, \hC9, \hCD, \hD9, \hE9}
        \union Rows(12, 15, 1) \union Rows(12, 15, 5) \union Rows(12, 15, 7) \union Rows(12, 15, 15)

Illegal == {\hD3, \hDB, \hDD, \hE3, \hE4, \hEB, \hEC, \hED, \hF4, \hFC, \hFD}

opcodes(c, opcode) ==
    CASE opcode \in Illegal -> ill(c)
      [] opcode = \h00 -> c
      [] opcode = \h76 -> halt(c)
      [] opcode = \hF3 -> di(c)
      [] opcode = \hFB -> ei(c)
      [] opcode \in LoadOpcodes -> Loads(c, opcode)
      [] opcode \in BranchOpcodes -> Branches(c, opcode)
      [] OTHER -> Arithmetic(c, opcode)
-----------------------------------------------------------------------------
(* A program in memory, at the point where PC is. *)
Started(p, registers, mem) ==
    /\ program = p
    /\ cpu = [r |-> registers, mem |-> mem, halted |-> FALSE, ime |-> FALSE, ime_toggle |-> FALSE]

(* GB_cpu_run: the delayed effect of EI, then the instruction.  STOP waits *)
(* for a button, and is left out.                                          *)
Run ==
    LET opcode == Read(cpu, cpu.r[PC])
        toggled == [cpu EXCEPT !.ime = @ # cpu.ime_toggle, !.ime_toggle = FALSE]
    IN  /\ ~cpu.halted /\ opcode # \h10
        /\ cpu' = opcodes(Past(toggled, 1), opcode)
        /\ UNCHANGED program

-----------------------------------------------------------------------------
(* The disassembler: the bytes that its functions move its PC by. *)
ThreeBytes ==
    Rows(0, 3, 1) \union {\h08, \hC3, \hCD, \hEA, \hFA}
        \union {\hC2, \hCA, \hD2, \hDA, \hC4, \hCC, \hD4, \hDC}

TwoBytes ==
    {\h10, \h18, \h20, \h28, \h30, \h38, \hCB, \hE0, \hF0, \hE8, \hF8}
        \union Rows(0, 3, 6) \union Rows(0, 3, 14) \union Rows(12, 15, 6) \union Rows(12, 15, 14)

DisassembledLengthIll(opcode) ==    \* mutant: the opcode of ADD SP has no operand
    IF opcode \in ThreeBytes THEN 3 ELSE IF opcode \in TwoBytes \ {\hE8} THEN 2 ELSE 1

DisassembledLength(opcode) ==
    IF opcode \in ThreeBytes THEN 3 ELSE IF opcode \in TwoBytes THEN 2 ELSE 1

(* The addresses of count lines of GB_cpu_disassemble that begins at pc. *)
GB_cpu_disassemble(pc, count) ==
    LET After(address) == address + DisassembledLength(Read(cpu, address))
        line[n \in 0 .. count] == IF n = 0 THEN pc ELSE After(line[n - 1])
    IN  {line[n] : n \in 0 .. count}
=============================================================================
