-------------------------------- MODULE Mbc --------------------------------
(***************************************************************************)
(* The bank registers of the cartridge mappers (Core/mbc.c, write_mbc in   *)
(* Core/memory.c), and how a save state carries them to another emulator   *)
(* or another version: as a BESS "MBC " block, a list of writes that would *)
(* set them (Core/save_state.c).                                           *)
(*                                                                         *)
(* The mapper is one of GB_cart_defs, with MBC1M and MBC30 for an MBC1     *)
(* and an MBC3 whose mbc1_wiring and is_mbc30 are set.  The real-time      *)
(* clocks and MBC7's EEPROM have modules of their own.                     *)
(***************************************************************************)
EXTENDS Integers, Sequences, SequencesExt, Bitwise

CONSTANTS
    Types,     \* the mappers
    Rumble,    \* those of them whose cartridge has_rumble
    Values     \* the bytes a program writes

VARIABLES
    type,      \* cartridge_type, which never changes
    cart,      \* the registers (reg), and the banks they select
    written    \* a program has written to the mapper since it was reset

vars == <<type, cart, written>>

Low(v, n) == v % 2^n
Field(v, from, n) == Low(v \div 2^from, n)
Bit(v, n) == Field(v, n, 1)
AndNot(a, b) == a - (a & b)

MBC1s == {"MBC1", "MBC1M"}
MBC3s == {"MBC3", "MBC30"}
MBC5s == {"MBC5", "CAMERA"}

(* The union of gb.h's registers, by mapper, zeroed. *)
NoRegisters ==
    [t \in MBC1s |-> [bank_low |-> 0, bank_high |-> 0, mode |-> 0]]
    @@ [t \in {"MBC2"} |-> [rom_bank |-> 0]]
    @@ [t \in MBC3s |-> [rom_bank |-> 0, ram_bank |-> 0, rtc_mapped |-> 0]]
    @@ [t \in MBC5s |-> [rom_bank_low |-> 0, rom_bank_high |-> 0, ram_bank |-> 0]]
    @@ [t \in {"MBC7"} |-> [rom_bank |-> 0, secondary_ram_enable |-> FALSE]]
    @@ [t \in {"MMM01"} |->
           [rom_bank_low |-> 0, rom_bank_mid |-> 0, rom_bank_high |-> 0, rom_bank_mask |-> 0,
            ram_bank_low |-> 0, ram_bank_high |-> 0, ram_bank_mask |-> 0, mbc1_mode |-> 0,
            locked |-> 0, mbc1_mode_disable |-> 0, multiplex_mode |-> 0]]
    @@ [t \in {"HUC1"} |-> [bank_low |-> 0, bank_high |-> 0, ir_mode |-> FALSE]]
    @@ [t \in {"HUC3"} |-> [rom_bank |-> 0, ram_bank |-> 0, mode |-> 0]]
    @@ [t \in {"TPP1"} |-> [rom_bank |-> 0, ram_bank |-> 0, mode |-> 0]]

Cart(reg, rom0, rom, ram, enable) ==
    [reg |-> reg, rom0 |-> rom0, rom |-> rom, ram |-> ram, enable |-> enable,
     rumble |-> 0, camera |-> FALSE]

UnlockedRom == 65535
UnlockedRom0 == 65534

(* GB_reset_mbc, on the zeroed registers. *)
ResetRegisters(t) ==
    CASE t = "MMM01" -> [NoRegisters[t] EXCEPT !.ram_bank_mask = 3]
      [] t \in MBC5s -> [NoRegisters[t] EXCEPT !.rom_bank_low = 1]
      [] OTHER -> NoRegisters[t]

ResetCart(t) ==
    CASE t = "MMM01" -> Cart(ResetRegisters(t), UnlockedRom0, UnlockedRom, 0, FALSE)
      [] t = "MBC7" -> Cart(ResetRegisters(t), 0, 0, 0, FALSE)
      [] OTHER -> Cart(ResetRegisters(t), 0, 1, 0, FALSE)

(* GB_configure_cart leaves TPP1's bank register at one, GB_reset at zero. *)
ConfiguredCart(t) ==
    IF t = "TPP1" THEN [ResetCart(t) EXCEPT !.reg.rom_bank = 1] ELSE ResetCart(t)

Init == type \in Types /\ cart = ConfiguredCart(type) /\ written = FALSE
-----------------------------------------------------------------------------
(* GB_update_mbc_mappings, by mapper. *)
MapMbc1(c, r, shift) ==
    LET rom == (IF shift = 4 THEN Low(r.bank_low, 4) ELSE r.bank_low) + r.bank_high * 2^shift
    IN [c EXCEPT !.rom = IF r.bank_low = 0 THEN rom + 1 ELSE rom,
                 !.rom0 = IF r.mode = 0 THEN 0 ELSE r.bank_high * 2^shift,
                 !.ram = IF r.mode = 0 \/ shift = 4 THEN 0 ELSE r.bank_high]

NotZero(bank) == IF bank = 0 THEN 1 ELSE bank

MapMbc3(c, r, mbc30) ==
    [c EXCEPT !.rom = NotZero(IF mbc30 THEN r.rom_bank ELSE Low(r.rom_bank, 7)),
              !.ram = r.ram_bank]

(* The middle bits of the ROM bank and the low ones of the RAM bank change *)
(* places when they are multiplexed.                                       *)
MapMmm01(c, r) ==
    LET mid == IF r.multiplex_mode = 1 THEN r.ram_bank_low ELSE r.rom_bank_mid
        mid0 == IF r.multiplex_mode = 1 /\ r.mbc1_mode = 1 THEN 0 ELSE mid
        rom0 == (r.rom_bank_low & (2 * r.rom_bank_mask)) + 32 * mid0 + 128 * r.rom_bank_high
        rom == r.rom_bank_low + 32 * mid + 128 * r.rom_bank_high
        ram == IF r.multiplex_mode = 1 THEN r.rom_bank_mid ELSE r.ram_bank_low
    IN IF r.locked = 0 THEN [c EXCEPT !.rom = UnlockedRom, !.rom0 = UnlockedRom0]
       ELSE [c EXCEPT !.rom0 = rom0, !.rom = IF rom = rom0 THEN rom + 1 ELSE rom,
                      !.ram = ram + 4 * r.ram_bank_high]

Mapped(t, c) ==
    LET r == c.reg IN
    CASE t = "MBC1" -> MapMbc1(c, r, 5)
      [] t = "MBC1M" -> MapMbc1(c, r, 4)
      [] t = "MBC2" -> [c EXCEPT !.rom = NotZero(r.rom_bank)]
      [] t \in MBC3s -> MapMbc3(c, r, t = "MBC30")
      [] t \in MBC5s -> [c EXCEPT !.rom = r.rom_bank_low + 256 * r.rom_bank_high,
                                  !.ram = r.ram_bank]
      [] t = "MBC7" -> [c EXCEPT !.rom = r.rom_bank]
      [] t = "MMM01" -> MapMmm01(c, r)
      [] t = "HUC1" -> [c EXCEPT !.rom = r.bank_low, !.ram = r.bank_high]
      [] t = "HUC3" -> [c EXCEPT !.rom = r.rom_bank, !.ram = r.ram_bank]
      [] t = "TPP1" -> [c EXCEPT !.rom = r.rom_bank, !.ram = r.ram_bank,
                                 !.enable = r.mode \in {2, 3}]
-----------------------------------------------------------------------------
(* write_mbc.  A register is named by the address a BESS pair gives it.    *)
Addresses(t) ==
    CASE t = "MBC2" -> {0, 256}
      [] t = "MBC5" -> {0, 8192, 12288, 16384}
      [] t = "TPP1" -> 0 .. 3
      [] OTHER -> {0, 8192, 16384, 24576}

RamEnable(v) == Low(v, 4) = 10

WriteMbc1(c, a, v) ==
    CASE a = 0 -> [c EXCEPT !.enable = RamEnable(v)]
      [] a = 8192 -> [c EXCEPT !.reg.bank_low = Low(v, 5)]
      [] a = 16384 -> [c EXCEPT !.reg.bank_high = Low(v, 2)]
      [] a = 24576 -> [c EXCEPT !.reg.mode = Low(v, 1)]

WriteMbc2(c, a, v) ==
    IF a = 0 THEN [c EXCEPT !.enable = RamEnable(v)]
    ELSE [c EXCEPT !.reg.rom_bank = Low(v, 4)]

WriteMbc3(c, a, v) ==
    CASE a = 0 -> [c EXCEPT !.enable = RamEnable(v)]
      [] a = 8192 -> [c EXCEPT !.reg.rom_bank = v]
      [] a = 16384 -> [c EXCEPT !.reg.ram_bank = Low(v, 3), !.reg.rtc_mapped = Bit(v, 3)]
      [] a = 24576 -> c    \* latches the clock, which Rtc models

(* With a motor, bit 3 of the RAM bank switches it. *)
WriteMbc5(c, a, v, motor) ==
    CASE a = 0 -> [c EXCEPT !.enable = (v = 10)]
      [] a = 8192 -> [c EXCEPT !.reg.rom_bank_low = v]
      [] a = 12288 -> [c EXCEPT !.reg.rom_bank_high = Low(v, 1)]
      [] a = 16384 /\ motor -> [c EXCEPT !.reg.ram_bank = Low(v, 3),
                                         !.rumble = IF Bit(v, 3) = 1 THEN 3 ELSE 0]
      [] a = 16384 /\ ~motor -> [c EXCEPT !.reg.ram_bank = Low(v, 4)]

WriteCamera(c, a, v) ==
    CASE a = 0 -> [c EXCEPT !.enable = RamEnable(v)]
      [] a = 8192 -> [c EXCEPT !.reg.rom_bank_low = v]
      [] a = 16384 -> [c EXCEPT !.reg.ram_bank = Low(v, 4), !.camera = (Bit(v, 4) = 1)]
      [] a = 24576 -> c

WriteMbc7(c, a, v) ==
    CASE a = 0 -> [c EXCEPT !.enable = (v = 10)]
      [] a = 8192 -> [c EXCEPT !.reg.rom_bank = v]
      [] a = 16384 -> [c EXCEPT !.reg.secondary_ram_enable = (v = 64)]
      [] a = 24576 -> c

(* Until it is locked, the mapper takes the bits that choose the game. *)
WriteMmm01(c, a, v) ==
    LET r == c.reg
        open == r.locked = 0
        Unless(locked, field) == IF open THEN field ELSE locked
        mask == Low(2 * r.rom_bank_mask, 5)
        low == Low(v, 5)
    IN CASE a = 0 ->
              [c EXCEPT !.enable = RamEnable(v),
                        !.reg.ram_bank_mask = Unless(@, Field(v, 4, 2)),
                        !.reg.locked = Unless(@, Bit(v, 6))]
         [] a = 8192 ->
              [c EXCEPT !.reg.rom_bank_mid = Unless(@, Field(v, 5, 2)),
                        !.reg.rom_bank_low = (@ & mask) + AndNot(low, mask)]
         [] a = 16384 ->
              [c EXCEPT !.reg.ram_bank_low = Low(v, 2) | (3 - r.ram_bank_mask),
                        !.reg.ram_bank_high = Unless(@, Field(v, 2, 2)),
                        !.reg.rom_bank_high = Unless(@, Field(v, 4, 2)),
                        !.reg.mbc1_mode_disable = Unless(@, Bit(v, 6))]
         [] a = 24576 ->
              [c EXCEPT !.reg.mbc1_mode = IF r.mbc1_mode_disable = 1 THEN @ ELSE Low(v, 1),
                        !.reg.rom_bank_mask = Unless(@, Field(v, 2, 4)),
                        !.reg.multiplex_mode = Unless(@, Bit(v, 6))]

WriteHuc1(c, a, v) ==
    CASE a = 0 -> [c EXCEPT !.reg.ir_mode = (Low(v, 4) = 14)]
      [] a = 8192 -> [c EXCEPT !.reg.bank_low = Low(v, 6)]
      [] a = 16384 -> [c EXCEPT !.reg.bank_high = Low(v, 3)]
      [] a = 24576 -> c

WriteHuc3(c, a, v) ==
    CASE a = 0 -> [c EXCEPT !.reg.mode = Low(v, 4), !.enable = (Low(v, 4) = 10)]
      [] a = 8192 -> [c EXCEPT !.reg.rom_bank = Low(v, 7)]
      [] a = 16384 -> [c EXCEPT !.reg.ram_bank = Low(v, 4)]
      [] a = 24576 -> c

(* The commands that set and latch the clock are Rtc's. *)
WriteTpp1(c, a, v) ==
    CASE a = 0 -> [c EXCEPT !.reg.rom_bank = (@ - Low(@, 8)) + v]
      [] a = 1 -> [c EXCEPT !.reg.rom_bank = Low(@, 8) + 256 * v]
      [] a = 2 -> [c EXCEPT !.reg.ram_bank = v]
      [] a = 3 /\ v \in {0, 2, 3, 5} -> [c EXCEPT !.reg.mode = v]
      [] a = 3 /\ v \in 32 .. 35 -> [c EXCEPT !.rumble = v % 4]
      [] OTHER -> c

Register(t, c, a, v) ==
    CASE t \in MBC1s -> WriteMbc1(c, a, v)
      [] t = "MBC2" -> WriteMbc2(c, a, v)
      [] t \in MBC3s -> WriteMbc3(c, a, v)
      [] t = "MBC5" -> WriteMbc5(c, a, v, t \in Rumble)
      [] t = "CAMERA" -> WriteCamera(c, a, v)
      [] t = "MBC7" -> WriteMbc7(c, a, v)
      [] t = "MMM01" -> WriteMmm01(c, a, v)
      [] t = "HUC1" -> WriteHuc1(c, a, v)
      [] t = "HUC3" -> WriteHuc3(c, a, v)
      [] t = "TPP1" -> WriteTpp1(c, a, v)

Written(t, c, a, v) == Mapped(t, Register(t, c, a, v))

WriteMbc ==
    /\ \E a \in Addresses(type), v \in Values : cart' = Written(type, cart, a, v)
    /\ written' = TRUE
    /\ UNCHANGED type

(* The memset of GB_reset_internal, and GB_reset_mbc. *)
Reset == cart' = ResetCart(type) /\ written' = FALSE /\ UNCHANGED type
-----------------------------------------------------------------------------
(* save_bess_mbc_block. *)
EnablePair(c) == <<0, IF c.enable THEN 10 ELSE 0>>

Mmm01PairsLockFirst(c) ==    \* mutant: the registers are written from the lowest address on
    LET r == c.reg
        mode == <<24576, r.mbc1_mode + 4 * r.rom_bank_mask + 64 * r.multiplex_mode>>
        bank == <<16384, r.ram_bank_low + 4 * r.ram_bank_high + 16 * r.rom_bank_high
                         + 64 * r.mbc1_mode_disable>>
        lock == <<0, (IF c.enable THEN 10 ELSE 0) + 16 * r.ram_bank_mask + 64 * r.locked>>
    IN <<lock, <<8192, r.rom_bank_low + 32 * r.rom_bank_mid>>, bank, mode>>

Mmm01Pairs(c) ==
    LET r == c.reg
        mask == Low(2 * r.rom_bank_mask, 5)
        mode == <<24576, r.mbc1_mode + 4 * r.rom_bank_mask + 64 * r.multiplex_mode>>
        bank == <<16384, r.ram_bank_low + 4 * r.ram_bank_high + 16 * r.rom_bank_high
                         + 64 * r.mbc1_mode_disable>>
        lock == <<0, (IF c.enable THEN 10 ELSE 0) + 16 * r.ram_bank_mask + 64 * r.locked>>
    IN <<<<8192, (r.rom_bank_low & mask) + 32 * r.rom_bank_mid>>, mode, bank, lock,
         <<8192, AndNot(r.rom_bank_low, mask)>>, mode, bank, lock>>

Huc3Pairs(mode, rom_bank, ram_bank) == <<<<0, mode>>, <<8192, rom_bank>>, <<16384, ram_bank>>>>

(* HUC1 falls through to HUC3, and reads its registers as HuC3's: the low  *)
(* byte of the union holds bank_low, the next one bank_high and ir_mode.   *)
Huc1Pairs(r) == Huc3Pairs(0, r.bank_low, r.bank_high + IF r.ir_mode THEN 8 ELSE 0)

Pairs(t, c) ==
    LET r == c.reg IN
    CASE t \in MBC1s -> <<EnablePair(c), <<8192, r.bank_low>>, <<16384, r.bank_high>>,
                          <<24576, r.mode>>>>
      [] t = "MBC2" -> <<EnablePair(c), <<256, r.rom_bank>>>>
      [] t \in MBC3s -> <<EnablePair(c), <<8192, r.rom_bank>>,
                          <<16384, r.ram_bank + 8 * r.rtc_mapped>>>>
      [] t = "MBC5" -> <<EnablePair(c), <<8192, r.rom_bank_low>>, <<12288, r.rom_bank_high>>,
                         <<16384, r.ram_bank>>>>
      [] t = "CAMERA" -> <<EnablePair(c), <<8192, r.rom_bank_low>>, <<16384, r.ram_bank>>>>
      [] t = "MBC7" -> <<EnablePair(c), <<8192, r.rom_bank>>,
                         <<16384, IF r.secondary_ram_enable THEN 64 ELSE 0>>>>
      [] t = "MMM01" -> Mmm01Pairs(c)
      [] t = "HUC1" -> Huc1Pairs(r)
      [] t = "HUC3" -> Huc3Pairs(r.mode, r.rom_bank, r.ram_bank)
      [] t = "TPP1" -> <<<<0, Low(r.rom_bank, 8)>>, <<1, r.rom_bank \div 256>>,
                         <<2, Low(r.rom_bank, 8)>>, <<3, r.mode>>>>

(* load_bess_save writes the pairs to a new machine, of the same mapper    *)
(* but without the wiring that GB_configure_cart found.                    *)
LoadedAs(t) == IF t = "MBC1M" THEN "MBC1" ELSE IF t = "MBC30" THEN "MBC3" ELSE t

DefaultWrites(t) == IF t = "MMM01" THEN <<<<24576, 48>>, <<16384, 112>>>> ELSE <<>>

NewCart(t) == Cart(NoRegisters[t], 0, 1, 0, FALSE)

Loaded(t, pairs) ==
    FoldLeft(LAMBDA c, p : Written(LoadedAs(t), c, p[1], p[2]),
             NewCart(LoadedAs(t)), DefaultWrites(t) \o pairs)

(* A state is saved and loaded again through its BESS blocks, as another   *)
(* version of SameBoy does.                                                *)
LoadBess == cart' = Loaded(type, Pairs(type, cart)) /\ UNCHANGED <<type, written>>

Next == WriteMbc \/ Reset \/ LoadBess

Spec == Init /\ [][Next]_vars
-----------------------------------------------------------------------------
(* What the cartridge shows after a state was saved and loaded. *)
Visible(c) == [c EXCEPT !.rumble = 0]
Reloaded == Visible(Loaded(type, Pairs(type, cart)))

(* The pairs "represent the values of each MBC register": a state that is  *)
(* saved and loaded through them has the registers, and selects the banks, *)
(* that it had.                                                            *)
BessRestores == written => Reloaded = Visible(cart)

(* What is lost: by the missing break of HUC1, the pair of TPP1's RAM      *)
(* bank, the camera's bit 4, and the wiring, which a new machine lacks.    *)
WithoutLost(c) ==
    CASE type = "HUC1" -> [c EXCEPT !.reg.ir_mode = FALSE]
      [] type = "TPP1" -> [c EXCEPT !.reg.ram_bank = 0, !.ram = 0]
      [] type = "CAMERA" -> [c EXCEPT !.camera = FALSE]
      [] type \in {"MBC1M", "MBC30"} -> [c EXCEPT !.rom = 0, !.rom0 = 0, !.ram = 0]
      [] OTHER -> c

(* MMM01's registers once they are locked, if the mode was set before it   *)
(* was disabled, the RAM bank after its mask, and no bit that the mask of  *)
(* the default writes protects is both set and masked.                     *)
InOrder(r) ==
    /\ r.locked = 1
    /\ (r.rom_bank_low & (2 * r.rom_bank_mask)) & 24 = 0
    /\ r.mbc1_mode_disable = 1 => r.mbc1_mode = 0
    /\ r.ram_bank_low | (3 - r.ram_bank_mask) = r.ram_bank_low

(* Nothing else is lost, in whatever order the program wrote the registers *)
(* and whatever it has locked: the writes that a load makes do not disturb *)
(* one another.                                                            *)
BessRestoresTheRest ==
    written /\ (type = "MMM01" => InOrder(cart.reg)) =>
        WithoutLost(Reloaded) = WithoutLost(Visible(cart))
=============================================================================
