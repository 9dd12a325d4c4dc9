----------------------------- MODULE LifeCycle -----------------------------
(***************************************************************************)
(* The life of a GB_gameboy_t (Core/gb.c): made for a model, given ROMs by *)
(* four loaders, reset fully or quickly, switched to another model, shown  *)
(* with a border.  What the emulator keeps beside the machine (allocated   *)
(* memory, the Super Game Boy's structure, the boot ROM, the clock rate,   *)
(* the border) has to follow every such change, in any order.              *)
(*                                                                         *)
(* Memory is one class of contents per region: "noise" and "zero" as a     *)
(* reset leaves it, "ones", "palette", or "game" once a program has        *)
(* written it.  Sizes are in units of 8 KiB, ROM sizes in banks of 16 KiB. *)
(***************************************************************************)
EXTENDS Naturals, FiniteSets

CONSTANTS
    SomeModels,   \* the models a frontend switches between
    Roms,         \* the files there are, records described below
    Multipliers   \* the clock multipliers a frontend sets

MaxBanks == 512      \* 8 MiB, the most that a mapper of the time reaches

(***************************************************************************)
(* A ROM file: its name, its size in banks, whether its header asks for    *)
(* the Super Game Boy, the cartridge RAM its header gives (0: the type has *)
(* none), whether that RAM has a battery, and whether the game replaces    *)
(* the border when it runs on a Super Game Boy.                            *)
(***************************************************************************)
ASSUME RomsAssumption ==
    \A r \in Roms : /\ DOMAIN r = {"name", "banks", "sgb", "ram", "battery", "border"}
                    /\ r.banks \in 0 .. MaxBanks /\ r.ram \in Nat
                    /\ r.border => r.sgb

NoRom == [name |-> "none", banks |-> 0, sgb |-> FALSE, ram |-> 0,
          battery |-> FALSE, border |-> FALSE]

\* One model of each kind gb.c tells apart; GB_model_t has more of some.
CgbModels == {"CGB_0", "CGB_C", "CGB_D", "CGB_E", "AGB_A"}
HleSgbModels == {"SGB_NTSC", "SGB_PAL", "SGB2"}
SgbModels == HleSgbModels \union {"SGB_NTSC_NO_SFC"}
Models == {"DMG_B", "MGB"} \union SgbModels \union CgbModels

ASSUME ModelsAssumption == SomeModels \subseteq Models

Regions == {"ram", "vram", "hram", "oam", "extra_oam", "wave", "palettes", "obp"}

VARIABLES
    model,
    ram_alloc, vram_alloc,      \* what malloc and realloc gave
    ram_size, vram_size,
    memory,                     \* the contents of each region
    rom, rom_size,              \* the file in the buffer, and its length
    cartridge_type,             \* the file whose type was configured, or "mbc3" for GBS
    mbc_ram,                    \* [size, of, contents]: the allocation and whose it is
    mbc_ram_size,
    sgb,                        \* the structure is allocated
    boot_rom, boot_rom_load_callback,
    clock_multiplier, unmultiplied_clock_rate, clock_rate,
    border_mode, tried_loading_sgb_border, has_sgb_border,
    borrowed_border,            \* whose border it is: a console's or a file's name
    cheat_search_data,          \* the work RAM and the cartridge RAM it was allocated for,
                                \* or <<>> without results
    since                       \* history: the last reset, whether a game was loaded or ran
                                \* after it, whether an ISX file is in the buffer, whether a
                                \* game was loaded since the search began, and whether its
                                \* last pass went beyond what is allocated

machine == <<model, ram_alloc, vram_alloc, ram_size, vram_size, memory,
             sgb, boot_rom, unmultiplied_clock_rate, clock_rate>>
cart == <<rom, rom_size, cartridge_type, mbc_ram, mbc_ram_size>>
border == <<tried_loading_sgb_border, has_sgb_border, borrowed_border>>
settings == <<boot_rom_load_callback, clock_multiplier, border_mode>>
lifeVars == <<machine, cart, border, settings, cheat_search_data, since>>

-----------------------------------------------------------------------------
(* What follows from the model alone. *)

IsCgb(m) == m \in CgbModels
RamFor(m) == IF IsCgb(m) THEN 4 ELSE 1
VramFor(m) == IF IsCgb(m) THEN 2 ELSE 1

BootRomFor(m) ==
    CASE m = "DMG_B" -> "DMG"
      [] m = "MGB" -> "MGB"
      [] m \in {"SGB_NTSC", "SGB_PAL", "SGB_NTSC_NO_SFC"} -> "SGB"
      [] m = "SGB2" -> "SGB2"
      [] m = "CGB_0" -> "CGB_0"
      [] m \in {"CGB_C", "CGB_D"} -> "CGB"
      [] m = "CGB_E" -> "CGB_E"
      [] m = "AGB_A" -> "AGB"

RateFor(m) ==
    CASE m = "SGB_PAL" -> "SGB_PAL_FREQUENCY"
      [] m \in {"SGB_NTSC", "SGB_NTSC_NO_SFC"} -> "SGB_NTSC_FREQUENCY"
      [] OTHER -> "CPU_FREQUENCY"

BorderFor(m) ==
    CASE m = "AGB_A" -> "agb"
      [] m = "MGB" -> "mgb"
      [] m \in CgbModels \ {"AGB_A"} -> "cgb"
      [] OTHER -> "dmg"

(***************************************************************************)
(* load_default_border keeps a border borrowed from a game.                *)
(***************************************************************************)
DefaultBorder(m, has, current) == IF has THEN current ELSE BorderFor(m)

-----------------------------------------------------------------------------
(* Resetting *)

FreshRam(m) == "noise"      \* each model has its own noise; none keeps or clears
FreshOam(m) == IF IsCgb(m) THEN "zero" ELSE "noise"
FreshWave(m) == IF IsCgb(m) THEN "zero" ELSE "noise"
FreshPalettes(m) == IF IsCgb(m) THEN "noise" ELSE "zero"
FreshObp(m) == IF IsCgb(m) THEN "zero" ELSE "ones"

\* reset_ram and the object palettes after it
ResetMemory(m) ==
    [r \in Regions |->
        CASE r = "ram" -> FreshRam(m)
          [] r = "vram" -> "zero"
          [] r \in {"hram", "extra_oam"} -> "noise"
          [] r = "oam" -> FreshOam(m)
          [] r = "wave" -> FreshWave(m)
          [] r = "palettes" -> FreshPalettes(m)
          [] r = "obp" -> FreshObp(m)]

Preserved == {"hram", "palettes", "oam", "extra_oam", "obp"}

(***************************************************************************)
(* A quick reset preserves these; the work RAM is not in the structure     *)
(* that is cleared; the video RAM and the other registers are zeroed.      *)
(***************************************************************************)
QuickAll ==    \* mutant: a quick reset preserves everything
    [r \in Regions |-> memory[r]]

QuickMemory ==
    [r \in Regions |-> IF r \in Preserved \union {"ram"} THEN memory[r] ELSE "zero"]

HasBattery(type) == type.battery

\* Without a battery reset_ram wipes the cartridge's RAM.
WipedCartRam == IF HasBattery(cartridge_type) \/ mbc_ram_size = 0 THEN mbc_ram
                ELSE [mbc_ram EXCEPT !.contents = "ones"]

(***************************************************************************)
(* GB_reset_internal for model m, with the cartridge's RAM, except the     *)
(* memory, which differs with `quick`.                                     *)
(***************************************************************************)
UpdateClockRate(m, multiplier) ==
    /\ unmultiplied_clock_rate' = RateFor(m)
    /\ clock_rate' = <<RateFor(m), multiplier>>

ResetInternal(m) ==
    /\ UpdateClockRate(m, clock_multiplier)
    /\ ram_size' = RamFor(m)
    /\ vram_size' = VramFor(m)
    /\ sgb' = (m \in HleSgbModels)
    /\ boot_rom' = IF boot_rom_load_callback THEN BootRomFor(m) ELSE boot_rom

FullReset(m) ==
    /\ ResetInternal(m)
    /\ memory' = ResetMemory(m)
    /\ mbc_ram' = WipedCartRam
    /\ UNCHANGED <<rom, rom_size, cartridge_type, mbc_ram_size>>

Reset ==
    /\ FullReset(model)
    /\ since' = [since EXCEPT !.reset = "full", !.played = FALSE]
    /\ UNCHANGED <<model, ram_alloc, vram_alloc, border, settings, cheat_search_data>>

QuickReset ==
    /\ ResetInternal(model)
    /\ memory' = QuickMemory
    /\ since' = [since EXCEPT !.reset = "quick", !.played = FALSE]
    /\ UNCHANGED <<model, ram_alloc, vram_alloc, cart, border, settings,
                   cheat_search_data>>

SwitchKeepingSearch ==    \* mutant: a search in the old model's RAM goes on
    \E m \in SomeModels :
        /\ model' = m
        /\ ram_alloc' = RamFor(m)
        /\ vram_alloc' = VramFor(m)
        /\ FullReset(m)
        /\ borrowed_border' = DefaultBorder(m, has_sgb_border, borrowed_border)
        /\ since' = [since EXCEPT !.reset = "full", !.played = FALSE]
        /\ UNCHANGED <<settings, tried_loading_sgb_border, has_sgb_border, cheat_search_data>>

SwitchModelAndReset ==
    \E m \in SomeModels :
        /\ model' = m
        /\ ram_alloc' = RamFor(m)
        /\ vram_alloc' = VramFor(m)
        /\ FullReset(m)
        /\ cheat_search_data' = <<>>
        /\ borrowed_border' = DefaultBorder(m, has_sgb_border, borrowed_border)
        /\ since' = [since EXCEPT !.reset = "full", !.played = FALSE, !.loaded = FALSE]
        /\ UNCHANGED <<settings, tried_loading_sgb_border, has_sgb_border>>

-----------------------------------------------------------------------------
(* Loading *)

\* The smallest power of two of banks that holds the file, two at least.
BankCounts == {2, 4, 8, 16, 32, 64, 128, 256, MaxBanks}

rounded_rom_size(banks) ==
    CHOOSE n \in BankCounts :
        /\ n >= banks
        /\ \A k \in BankCounts : k >= banks => n <= k

NewBorder(tried) ==
    /\ tried_loading_sgb_border' = tried
    /\ has_sgb_border' = FALSE
    /\ borrowed_border' = DefaultBorder(model, FALSE, borrowed_border)

(***************************************************************************)
(* GB_configure_cart's allocation: kept, contents and all, when the size   *)
(* is the same; kept unused when the new cartridge has none; of a new      *)
(* game's otherwise.                                                       *)
(***************************************************************************)
ConfiguredRam(r) ==
    CASE r.ram = 0 -> mbc_ram
      [] r.ram > 0 /\ mbc_ram.size # 0 /\ mbc_ram_size = r.ram -> mbc_ram
      [] OTHER -> [size |-> r.ram, of |-> r.name, contents |-> "ones"]

ConfigureCart(r) ==
    /\ cartridge_type' = r
    /\ mbc_ram' = ConfiguredRam(r)
    /\ mbc_ram_size' = r.ram

\* No loader ends the search.
Searching == cheat_search_data # <<>>

LoadRom(r) ==
    /\ rom' = r
    /\ rom_size' = rounded_rom_size(r.banks)
    /\ ConfigureCart(r)
    /\ NewBorder(FALSE)
    /\ since' = [since EXCEPT !.isx = FALSE, !.played = TRUE, !.loaded = Searching]
    /\ UNCHANGED <<machine, settings, cheat_search_data>>

(***************************************************************************)
(* An ISX file comes in records.  `read` says whether some data had been   *)
(* read when the file turned out to be broken: only then is the old ROM    *)
(* put back; otherwise the machine is left without one.  A broken file     *)
(* resets the border, a good one does not.                                 *)
(***************************************************************************)
LoadIsx(r) ==
    /\ rom' = r
    /\ rom_size' = rounded_rom_size(r.banks)
    /\ ConfigureCart(r)
    /\ since' = [since EXCEPT !.isx = TRUE, !.played = TRUE, !.loaded = Searching]
    /\ UNCHANGED <<machine, border, settings, cheat_search_data>>

LoadBrokenIsx(read) ==
    /\ rom' = IF read THEN rom ELSE NoRom
    /\ rom_size' = IF read THEN rom_size ELSE 0
    /\ NewBorder(FALSE)
    /\ since' = [since EXCEPT !.isx = FALSE, !.played = TRUE]
    /\ UNCHANGED <<machine, settings, cheat_search_data,
                   cartridge_type, mbc_ram, mbc_ram_size>>

(***************************************************************************)
(* A GBS file is a tune: an MBC3 cartridge with 8 KiB of RAM and a driver  *)
(* around the tune's code.  Loading selects the first track, which resets  *)
(* the machine and clears its memory before the driver is set up in it.    *)
(***************************************************************************)
\* Cartridge type 0x11 has no RAM (has_ram is false), so none is allocated.
GbsType(r) == [NoRom EXCEPT !.name = r.name, !.banks = r.banks]

GbsSwitchTrack(type) ==
    /\ ResetInternal(model)
    /\ memory' = [ResetMemory(model) EXCEPT !["ram"] = "zero", !["hram"] = "zero", !["oam"] = "zero"]

LoadGbs(r) ==
    /\ r.ram = 0 /\ ~r.sgb
    /\ rom' = GbsType(r)
    /\ rom_size' = rounded_rom_size(r.banks)
    /\ cartridge_type' = GbsType(r)
    /\ mbc_ram' = [size |-> 0, of |-> "none", contents |-> "ones"]
    /\ mbc_ram_size' = 0
    /\ GbsSwitchTrack(GbsType(r))
    /\ NewBorder(TRUE)
    /\ since' = [since EXCEPT !.reset = "gbs", !.played = FALSE, !.isx = FALSE,
                              !.loaded = Searching]
    /\ UNCHANGED <<model, ram_alloc, vram_alloc, settings, cheat_search_data>>

-----------------------------------------------------------------------------
(* Running *)

(***************************************************************************)
(* A game runs: it may write any region, and the cartridge's RAM.          *)
(***************************************************************************)
Play ==
    /\ rom_size > 0
    /\ memory' = [r \in Regions |->
                    IF r = "palettes" /\ ~IsCgb(model) THEN memory[r] ELSE "game"]
    /\ mbc_ram' = IF mbc_ram_size = 0 THEN mbc_ram
                  ELSE [mbc_ram EXCEPT !.of = rom.name, !.contents = "game"]
    /\ since' = [since EXCEPT !.played = TRUE]
    /\ UNCHANGED <<model, ram_alloc, vram_alloc, ram_size, vram_size, sgb, boot_rom,
                   unmultiplied_clock_rate, clock_rate, rom, rom_size, cartridge_type,
                   mbc_ram_size, border, settings, cheat_search_data>>

(***************************************************************************)
(* At a vertical blank with a border around the picture of another console *)
(* than the Super Game Boy, the game is run for 600 frames on one, once,   *)
(* to see whether it brings a border.  That machine takes its boot ROM     *)
(* through this one's buffer, which is put back.                           *)
(***************************************************************************)
BorrowSgbBorder ==
    /\ model \notin SgbModels
    /\ border_mode = "ALWAYS"
    /\ ~tried_loading_sgb_border
    /\ tried_loading_sgb_border' = TRUE
    /\ IF rom_size > 0 /\ rom.border /\ boot_rom_load_callback
          THEN /\ has_sgb_border' = TRUE
               /\ borrowed_border' = rom.name
          ELSE UNCHANGED <<has_sgb_border, borrowed_border>>
    /\ UNCHANGED <<machine, cart, settings, cheat_search_data, since>>

-----------------------------------------------------------------------------
(* The frontend's settings *)

SetBorderMode ==
    /\ border_mode' \in {"SGB", "NEVER", "ALWAYS"}
    /\ UNCHANGED <<machine, cart, border, boot_rom_load_callback, clock_multiplier,
                   cheat_search_data, since>>

SetClockMultiplier ==
    \E multiplier \in Multipliers \ {clock_multiplier} :
        /\ clock_multiplier' = multiplier
        /\ UpdateClockRate(model, multiplier)
        /\ UNCHANGED <<model, ram_alloc, vram_alloc, ram_size, vram_size, memory, sgb, boot_rom,
                       cart, border, boot_rom_load_callback, border_mode,
                       cheat_search_data, since>>

\* A boot ROM is requested at once.
SetBootRomLoadCallback ==
    /\ ~boot_rom_load_callback
    /\ boot_rom_load_callback' = TRUE
    /\ boot_rom' = BootRomFor(model)
    /\ UNCHANGED <<model, ram_alloc, vram_alloc, ram_size, vram_size, memory, sgb,
                   unmultiplied_clock_rate, clock_rate, cart, border, clock_multiplier,
                   border_mode, cheat_search_data, since>>

(***************************************************************************)
(* The search for cheats.  The first pass allocates a byte of old data for *)
(* each byte of the memories (and of the high memory, whose size is the    *)
(* same for all); every pass goes through the memories as they are then,   *)
(* and may leave no result.                                                *)
(***************************************************************************)
Searched == IF Searching THEN cheat_search_data ELSE <<ram_size, mbc_ram_size>>

\* Without cartridge RAM the pass does not find its end, and reads on behind it (Cheats).
GoesBeyond == mbc_ram_size = 0 \/ ram_size + mbc_ram_size > Searched[1] + Searched[2]

SearchPass ==
    /\ cheat_search_data' \in {Searched, <<>>}
    /\ since' = [since EXCEPT !.loaded = @ /\ Searching, !.overrun = GoesBeyond]
    /\ UNCHANGED <<machine, cart, border, settings>>

EndSearch ==
    /\ Searching /\ cheat_search_data' = <<>>
    /\ since' = [since EXCEPT !.loaded = FALSE]
    /\ UNCHANGED <<machine, cart, border, settings>>

-----------------------------------------------------------------------------

\* GB_init resets, with no cartridge and no callbacks.
LifeInit ==
    /\ model \in SomeModels
    /\ ram_alloc = RamFor(model) /\ vram_alloc = VramFor(model)
    /\ ram_size = RamFor(model) /\ vram_size = VramFor(model)
    /\ memory = ResetMemory(model)
    /\ rom = NoRom /\ rom_size = 0 /\ cartridge_type = NoRom
    /\ mbc_ram = [size |-> 0, of |-> "none", contents |-> "ones"] /\ mbc_ram_size = 0
    /\ sgb = (model \in HleSgbModels)
    /\ boot_rom = "none" /\ boot_rom_load_callback = FALSE
    /\ clock_multiplier = 1
    /\ unmultiplied_clock_rate = RateFor(model) /\ clock_rate = <<RateFor(model), 1>>
    /\ border_mode = "SGB"
    /\ tried_loading_sgb_border = FALSE /\ has_sgb_border = FALSE
    /\ borrowed_border = BorderFor(model)
    /\ cheat_search_data = <<>>
    /\ since = [reset |-> "full", played |-> FALSE, isx |-> FALSE, loaded |-> FALSE,
                overrun |-> FALSE]

\* What follows a pass that went beyond what is allocated is not modelled.
LifeNext ==
    /\ ~since.overrun
    /\ \/ Reset \/ QuickReset \/ SwitchModelAndReset
       \/ \E r \in Roms : LoadRom(r) \/ LoadIsx(r) \/ LoadGbs(r)
       \/ \E read \in BOOLEAN : LoadBrokenIsx(read)
       \/ Play \/ BorrowSgbBorder
       \/ SetBorderMode \/ SetClockMultiplier \/ SetBootRomLoadCallback
       \/ SearchPass \/ EndSearch

LifeSpec == LifeInit /\ [][LifeNext]_lifeVars
-----------------------------------------------------------------------------
(* What GB_get_direct_access hands out. *)

DirectBank(register, size) == IF size = 0 THEN register ELSE register % size

\* The size, in units of the bank, and the bank for a bank register's value.
GetDirectAccess(access, register) ==
    CASE access = "ROM" -> [size |-> rom_size, bank |-> DirectBank(register, rom_size)]
      [] access = "RAM" -> [size |-> ram_size, bank |-> IF IsCgb(model) THEN register ELSE 1]
      [] access = "CART_RAM" -> [size |-> mbc_ram_size, bank |-> DirectBank(register, mbc_ram_size)]
      [] access = "VRAM" -> [size |-> vram_size, bank |-> IF IsCgb(model) THEN register % 2 ELSE 0]

Allocated(access) ==
    CASE access = "ROM" -> rom_size
      [] access = "RAM" -> ram_alloc
      [] access = "CART_RAM" -> mbc_ram.size
      [] access = "VRAM" -> vram_alloc

(***************************************************************************)
(* Everything the emulator keeps beside the machine is the present         *)
(* model's and the present game's, whatever was loaded, switched and set,  *)
(* and in whichever order: what is handed out is allocated, the Super Game *)
(* Boy's structure exists exactly on one, the boot ROM and the clock are   *)
(* the model's, and the border is the game's own or the console's.  A game *)
(* loaded from an ISX file is left out of the last: GB_load_isx resets the *)
(* border when it fails only.  A search of the memories is of the sizes    *)
(* they have until another game is loaded, and with cartridge RAM it stays *)
(* until then within what is allocated: resets and models do not spoil it. *)
(* The loaders do, which do not end it: with more cartridge RAM than it    *)
(* began with, the next pass goes beyond.                                  *)
(***************************************************************************)
MemoryFits ==
    /\ \A access \in {"ROM", "RAM", "CART_RAM", "VRAM"} :
          GetDirectAccess(access, 3).size <= Allocated(access)
    /\ \A access \in {"ROM", "CART_RAM", "VRAM"} : LET a == GetDirectAccess(access, 3) IN
          a.size > 0 => a.bank < a.size
    /\ Searching /\ ~since.loaded => cheat_search_data = <<ram_size, mbc_ram_size>>
    /\ since.overrun => since.loaded \/ mbc_ram_size = 0

ConsoleFits ==
    /\ sgb <=> model \in HleSgbModels
    /\ boot_rom_load_callback => boot_rom = BootRomFor(model)
    /\ clock_rate = <<RateFor(model), clock_multiplier>>

BorderFits ==
    IF has_sgb_border THEN since.isx \/ (borrowed_border = rom.name /\ rom.border)
    ELSE borrowed_border = BorderFor(model)

EverythingFits == MemoryFits /\ ConsoleFits /\ BorderFits

(***************************************************************************)
(* After a full reset nothing that a game wrote is left but a cartridge's  *)
(* RAM with a battery; after a quick one also the work RAM and what is     *)
(* preserved on purpose; and a tune starts with the memory it needs clear. *)
(***************************************************************************)
ResetForgets ==
    ~since.played =>
        /\ \A r \in Regions : memory[r] = "game" =>
              since.reset = "quick" /\ r \in Preserved \union {"ram"}
        /\ since.reset = "gbs" => \A r \in {"ram", "hram", "oam"} : memory[r] = "zero"
        /\ (mbc_ram_size > 0 /\ mbc_ram.contents = "game" /\ since.reset = "full") =>
              HasBattery(cartridge_type)

(* What is kept beside the machine fits it, and a reset forgets the game. *)
MachineFits == EverythingFits /\ ResetForgets
=============================================================================
