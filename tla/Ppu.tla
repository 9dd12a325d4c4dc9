-------------------------------- MODULE Ppu --------------------------------
(***************************************************************************)
(* The timing of the PPU: GB_display_run and GB_STAT_update in             *)
(* Core/display.c, with the writes to LCDC, STAT and LYC (Core/memory.c)   *)
(* that reach into it.  An action of the PPU runs the code between two     *)
(* GB_SLEEPs; display_state is the number of the GB_SLEEP it waits in, and *)
(* sleep how long (in the source's units of a dot).  The CPU may act while *)
(* the PPU sleeps.                                                         *)
(*                                                                         *)
(* Pixels, the window, SGB's frames and a mode 3 that does not end within  *)
(* its line (state 9) are left out.                                        *)
(***************************************************************************)
EXTENDS Integers, Sequences

CONSTANTS
    LINES, VIRTUAL_LINES,    \* 144 and 154 in the source
    LINE_LENGTH,             \* 456
    MODE2_LENGTH,            \* 80
    PixelSteps,              \* the pixels that mode 3 takes, when one by one
    Batches,                 \* the lengths of mode 3, when at once
    Objects,                 \* how many objects may be in a line
    Models,                  \* [cgb |-> .., double |-> .., late |-> after revision C, d |-> from D on]
    SourceSets,              \* sets of STAT sources that a program chooses
    LYCs,                    \* values of LYC
    MaxFetch,                \* bound: the dot after which the fetcher is ready
    MaxChanges               \* bound: how often the program touches a register

Sources == {"hblank", "vblank", "oam", "lyc"}

\* Visible lines and at least two more; a line has room for mode 2 and for
\* what its other sleeps of fixed length take.
ASSUME PpuAssumption ==
    /\ LINES \in Nat \ {0} /\ VIRTUAL_LINES \in Nat /\ VIRTUAL_LINES >= LINES + 2
    /\ MODE2_LENGTH \in Nat /\ MODE2_LENGTH >= 4 /\ LINE_LENGTH \in Nat /\ LINE_LENGTH >= MODE2_LENGTH + 24
    /\ Batches \subseteq Nat /\ LYCs \subseteq Nat /\ SourceSets \subseteq SUBSET Sources
    /\ Models \subseteq [cgb : BOOLEAN, double : BOOLEAN, late : BOOLEAN, d : BOOLEAN]

VARIABLES
    model,
    on,                 \* LCDC's bit 7
    display_state,
    sleep,              \* how long the PPU waits in display_state
    current_line, ly,
    cycles_for_line,
    elapsed,            \* the dots since this line began
    length,             \* how long the line before it took, None at first
    since,              \* cycles_since_vblank_callback
    stat,               \* STAT and what decides its interrupt
    blocked,            \* the memories that the CPU has no access to
    pixels, objects,    \* what is left of mode 3
    dma_active,         \* an OAM DMA is active
    steady,             \* a whole frame has begun, and no register has changed since
    requests,           \* the LY of every STAT request since it began
    changes             \* how often the program has touched a register

pace == <<display_state, sleep, current_line, cycles_for_line, elapsed, length>>
ppuVars == <<model, on, pace, ly, since, stat, blocked, pixels, objects, dma_active, steady,
             requests, changes>>

LCDC_PERIOD == LINE_LENGTH * VIRTUAL_LINES
None == -1
All == {"oam_read", "oam_write", "vram_read", "vram_write"}
-----------------------------------------------------------------------------
LycCompared(s) ==
    IF s.compare = None /\ (model.late \/ model.double) THEN s
    ELSE [s EXCEPT !.lyc_flag = s.compare = s.lyc,
                   !.lyc_line = IF s.compare = None THEN @ ELSE s.compare = s.lyc]

GB_STAT_updateEdgeless(s) ==    \* mutant: the request follows the level
    LET c == LycCompared(IF dma_active /\ s.mode = 2 THEN [s EXCEPT !.mode = 0] ELSE s)
        high == \/ c.mode_for_interrupt = 0 /\ "hblank" \in c.sources
                \/ c.mode_for_interrupt = 1 /\ "vblank" \in c.sources
                \/ c.mode_for_interrupt = 2 /\ "oam" \in c.sources
                \/ "lyc" \in c.sources /\ c.lyc_line
    IN  IF ~on THEN s
        ELSE [c EXCEPT !.line = high, !.request = @ \/ high]

(* The interrupt is requested when the OR of the chosen sources rises. *)
GB_STAT_update(s) ==
    LET c == LycCompared(IF dma_active /\ s.mode = 2 THEN [s EXCEPT !.mode = 0] ELSE s)
        high == \/ c.mode_for_interrupt = 0 /\ "hblank" \in c.sources
                \/ c.mode_for_interrupt = 1 /\ "vblank" \in c.sources
                \/ c.mode_for_interrupt = 2 /\ "oam" \in c.sources
                \/ "lyc" \in c.sources /\ c.lyc_line
    IN  IF ~on THEN s
        ELSE [c EXCEPT !.line = high, !.request = @ \/ (high /\ ~c.line)]

(* A new value of stat, with its request noted for this line. *)
Update(s) ==
    /\ stat' = [s EXCEPT !.request = FALSE]
    /\ requests' = IF s.request /\ steady THEN Append(requests, ly') ELSE requests

(* The PPU wakes up in one state and sleeps in the next. *)
Wake(from, to, cycles) ==
    /\ display_state = from /\ display_state' = to /\ sleep' = cycles
    /\ since' = since + sleep
    /\ elapsed' = elapsed + sleep /\ length' = length

(* As Wake, where the next line begins. *)
WakeToLine(from, to, cycles) ==
    /\ display_state = from /\ display_state' = to /\ sleep' = cycles
    /\ since' = since + sleep
    /\ elapsed' = 0 /\ length' = elapsed + sleep

Same == UNCHANGED <<model, on, dma_active, changes>>
NoPixels == UNCHANGED <<pixels, objects>>

PpuInit ==
    /\ model \in Models
    /\ on = FALSE /\ display_state = 0 /\ sleep = 0 /\ current_line = 0 /\ ly = 0
    /\ cycles_for_line = 0 /\ elapsed = 0 /\ since = 0
    /\ stat = [mode |-> 0, mode_for_interrupt |-> 0, compare |-> 0, lyc |-> 0, lyc_flag |-> FALSE,
               lyc_line |-> FALSE, line |-> FALSE, sources |-> {}, request |-> FALSE]
    /\ blocked = {} /\ pixels = 0 /\ objects = 0 /\ dma_active = FALSE
    /\ steady = FALSE /\ requests = <<>> /\ changes = 0 /\ length = None
-----------------------------------------------------------------------------
(* The LCD is off: a callback when a frame's time has passed without one. *)
LcdOff ==
    /\ ~on /\ display_state \in {0, 1}
    /\ display_state' = 1
    /\ LET passed == since + sleep IN
           /\ since' = IF passed < LCDC_PERIOD THEN passed ELSE 0
           /\ sleep' = LCDC_PERIOD - since'
    /\ UNCHANGED <<current_line, ly, cycles_for_line, elapsed, length, stat, blocked, steady, requests>>
    /\ NoPixels /\ Same

(* On the DMG, a dot passes before the first line. *)
FirstLine ==
    /\ UNCHANGED ly
    /\ on
    /\ \/ display_state = 0 /\ model.cgb
       \/ display_state = 23
    /\ Wake(display_state, 2, MODE2_LENGTH - 4)
    /\ current_line' = 0 /\ cycles_for_line' = MODE2_LENGTH - 4
    /\ blocked' = {}
    /\ Update(GB_STAT_update([stat EXCEPT !.mode = 0, !.mode_for_interrupt = None, !.compare = 0]))
    /\ UNCHANGED <<steady>> /\ NoPixels /\ Same

FirstDot ==
    /\ on /\ ~model.cgb
    /\ Wake(0, 23, 1)
    /\ UNCHANGED <<current_line, ly, cycles_for_line, stat, blocked, steady, requests>>
    /\ NoPixels /\ Same

FirstOam ==
    /\ UNCHANGED ly
    /\ Wake(2, 34, 2)
    /\ blocked' = blocked \union {"oam_write"}
    /\ cycles_for_line' = cycles_for_line + 2
    /\ Update(GB_STAT_update(stat))
    /\ UNCHANGED <<current_line, steady>> /\ NoPixels /\ Same

(* The first line is 8 dots shorter, which are counted but not waited for. *)
FirstMode3 ==
    /\ Wake(34, 37, 2)
    /\ cycles_for_line' = cycles_for_line + 8 + 2
    /\ stat' = [stat EXCEPT !.mode = 3, !.mode_for_interrupt = 3]
    /\ blocked' = {"oam_read", "oam_write"}
                      \union (IF model.double \/ ~model.cgb THEN {"vram_read", "vram_write"} ELSE {})
    /\ UNCHANGED <<current_line, ly, steady, requests>> /\ NoPixels /\ Same

FirstPalettes ==
    /\ Wake(37, 38, 3)
    /\ cycles_for_line' = cycles_for_line + 3
    /\ blocked' = blocked \union {"palettes"}
    /\ UNCHANGED <<current_line, ly, stat, steady, requests>> /\ NoPixels /\ Same
-----------------------------------------------------------------------------
(* Lines 0 .. LINES - 1, from the search for objects. *)
LineBegins ==
    /\ display_state \in {31, 17}
    /\ LET line == IF display_state = 17 THEN 0 ELSE current_line + 1 IN
           /\ line < LINES
           /\ WakeToLine(display_state, 35, 2)
           /\ current_line' = line
           /\ blocked' = (blocked \ {"oam_write"})
                             \union (IF model.cgb /\ ~model.double THEN {"oam_write"} ELSE {})
    /\ stat' = IF display_state = 31 /\ current_line # LINES - 1
               THEN [stat EXCEPT !.mode_for_interrupt = 2] ELSE stat
    /\ requests' = IF display_state = 17 THEN <<>> ELSE requests
    /\ steady' = (steady \/ display_state = 17)
    /\ UNCHANGED <<ly, cycles_for_line>> /\ NoPixels /\ Same

LineStep6 ==
    /\ Wake(35, 6, 1)
    /\ blocked' = (blocked \ {"oam_write"}) \union (IF model.cgb THEN {"oam_write"} ELSE {})
    /\ UNCHANGED <<current_line, ly, cycles_for_line, stat, steady, requests>> /\ NoPixels /\ Same

LineStep7 ==
    /\ Wake(6, 7, 1)
    /\ ly' = current_line
    /\ blocked' = (blocked \ {"oam_read"})
                      \union (IF ~model.double \/ model.d THEN {"oam_read"} ELSE {})
    /\ LET compared == [stat EXCEPT !.compare = IF current_line # 0 THEN None ELSE 0]
       IN  Update(GB_STAT_update(
               IF current_line # 0 THEN [compared EXCEPT !.mode = 0, !.mode_for_interrupt = 2]
               ELSE IF ~model.cgb THEN [compared EXCEPT !.mode = 0] ELSE compared))
    /\ UNCHANGED <<current_line, cycles_for_line, steady>> /\ NoPixels /\ Same

(* Mode 2: the OAM source is high for this moment only. *)
Mode2 ==
    /\ UNCHANGED ly
    /\ Wake(7, 8, MODE2_LENGTH - 4)
    /\ blocked' = blocked \union {"oam_read", "oam_write"}
    /\ LET high == GB_STAT_update([stat EXCEPT !.mode = 2, !.mode_for_interrupt = 2,
                                               !.compare = current_line])
       IN  Update(GB_STAT_update([high EXCEPT !.mode_for_interrupt = None]))
    /\ UNCHANGED <<current_line, cycles_for_line, steady>> /\ NoPixels /\ Same

(* After oam_search_index 37; display_state is still 8 in the source. *)
Mode2Ends ==
    /\ Wake(8, 108, 4)
    /\ blocked' = {"oam_read"} \union (IF model.cgb THEN {"oam_write"} ELSE {"vram_read"})
    /\ UNCHANGED <<current_line, ly, cycles_for_line, stat, steady, requests>> /\ NoPixels /\ Same

Mode3 ==
    /\ UNCHANGED ly
    /\ Wake(108, 10, 3)
    /\ cycles_for_line' = MODE2_LENGTH + 4 + 3
    /\ blocked' = All
    /\ Update(GB_STAT_update([stat EXCEPT !.mode = 3, !.mode_for_interrupt = 3]))
    /\ UNCHANGED <<current_line, steady>> /\ NoPixels /\ Same

Mode3Palettes ==
    /\ Wake(10, 32, 2)
    /\ cycles_for_line' = cycles_for_line + 2
    /\ blocked' = blocked \union {"palettes"}
    /\ UNCHANGED <<current_line, ly, stat, steady, requests>> /\ NoPixels /\ Same
-----------------------------------------------------------------------------
(* Bound: mode 3 leaves the line the dots of HBlank's fixed sleeps.         *)
Fits(cycles) == cycles_for_line + cycles <= LINE_LENGTH - 7

(* Mode 3, from mode_3_start: in a batch, or pixel by pixel with objects.  *)
(* Aborting the fetch of an object, by a write to LCDC, leaves it at once. *)
Batch(dots) ==
    /\ display_state \in {32, 38} /\ Fits(dots)
    /\ Wake(display_state, 4, dots)
    /\ cycles_for_line' = cycles_for_line + dots
    /\ blocked' = All \union {"palettes"}
    /\ UNCHANGED <<current_line, ly, stat, steady, requests>> /\ NoPixels /\ Same

Pixel(n) ==
    /\ \/ display_state \in {32, 38} /\ pixels' = PixelSteps /\ objects' = n
       \/ display_state \in {21, 40} /\ pixels > 0 /\ pixels' = pixels - 1
              /\ objects' = objects
    /\ Fits(1)
    /\ Wake(display_state, 21, 1)
    /\ cycles_for_line' = cycles_for_line + 1
    /\ blocked' = All \union {"palettes"}
    /\ UNCHANGED <<current_line, ly, stat, steady, requests>> /\ Same

ObjectStep(from, to, cycles) ==
    /\ Fits(cycles)
    /\ Wake(from, to, cycles)
    /\ cycles_for_line' = cycles_for_line + cycles
    /\ objects' = IF to = 40 THEN objects - 1 ELSE objects
    /\ UNCHANGED <<current_line, ly, stat, blocked, pixels, steady, requests>> /\ Same

FetchObject ==
    \/ objects > 0 /\ ObjectStep(21, 27, 1)      \* until the fetcher is ready
    \/ ObjectStep(27, 27, 1) /\ elapsed < MaxFetch    \* as often as that takes
    \/ ObjectStep(27, 41, 1)
    \/ ObjectStep(41, 20, 2)
    \/ ObjectStep(20, 39, 2)
    \/ ObjectStep(39, 40, 1)

(* object_fetch_aborted: the rest of the loop's body is the next pixel's. *)
AbortFetch ==
    /\ ~model.cgb /\ display_state \in {27, 41, 20, 39} /\ Fits(1)
    /\ Wake(display_state, 21, 1)
    /\ cycles_for_line' = cycles_for_line + 1
    /\ objects' = 0
    /\ UNCHANGED <<current_line, ly, stat, blocked, pixels, steady, requests>> /\ Same

HBlankLate ==    \* mutant: the dot of state 22 is not counted
    /\ \/ display_state = 4
       \/ display_state \in {21, 40} /\ pixels = 0
    /\ Wake(display_state, 22, 1)
    /\ cycles_for_line' = cycles_for_line
    /\ IF model.double THEN UNCHANGED <<stat, blocked>>
       ELSE /\ stat' = [stat EXCEPT !.mode = 0, !.mode_for_interrupt = 0]
            /\ blocked' = (blocked \ All) \union (IF model.d THEN {"oam_read"} ELSE {})
    /\ pixels' = 0 /\ objects' = 0
    /\ UNCHANGED <<current_line, ly, steady, requests>> /\ Same

(* Mode 0: the registers first, the interrupt a dot later. *)
HBlank ==
    /\ \/ display_state = 4
       \/ display_state \in {21, 40} /\ pixels = 0
    /\ Wake(display_state, 22, 1)
    /\ cycles_for_line' = cycles_for_line + 1
    /\ IF model.double THEN UNCHANGED <<stat, blocked>>
       ELSE /\ stat' = [stat EXCEPT !.mode = 0, !.mode_for_interrupt = 0]
            /\ blocked' = (blocked \ All) \union (IF model.d THEN {"oam_read"} ELSE {})
    /\ pixels' = 0 /\ objects' = 0
    /\ UNCHANGED <<current_line, ly, steady, requests>> /\ Same

HBlankInterrupt ==
    /\ UNCHANGED ly
    /\ Wake(22, 33, 2)
    /\ cycles_for_line' = cycles_for_line + 2
    /\ blocked' = blocked \ All
    /\ Update(GB_STAT_update([stat EXCEPT !.mode = 0, !.mode_for_interrupt = 0]))
    /\ UNCHANGED <<current_line, steady>> /\ NoPixels /\ Same

HBlankPalettes ==
    /\ Wake(33, 36, 2)
    /\ cycles_for_line' = cycles_for_line + 2
    /\ blocked' = IF model.double THEN blocked \ {"palettes"} ELSE blocked \union {"palettes"}
    /\ UNCHANGED <<current_line, ly, stat, steady, requests>> /\ NoPixels /\ Same

(* What mode 3 left of the line. *)
HBlankRest ==
    /\ Wake(36, 11, LINE_LENGTH - cycles_for_line - 2)
    /\ cycles_for_line' = 0
    /\ blocked' = blocked \ {"palettes"}
    /\ UNCHANGED <<current_line, ly, stat, steady, requests>> /\ NoPixels /\ Same

LineEnds ==
    /\ Wake(11, 31, 2)
    /\ cycles_for_line' = 0
    /\ UNCHANGED <<current_line, ly, stat, blocked, steady, requests>> /\ NoPixels /\ Same
-----------------------------------------------------------------------------
(* VBlank, lines LINES .. VIRTUAL_LINES - 2. *)
VBlankLine ==
    /\ UNCHANGED ly
    /\ \/ display_state = 31 /\ current_line = LINES - 1
       \/ display_state = 13 /\ current_line < VIRTUAL_LINES - 2
    /\ WakeToLine(display_state, 26, 2)
    /\ current_line' = current_line + 1
    /\ Update(GB_STAT_update([stat EXCEPT !.compare = None]))
    /\ UNCHANGED <<cycles_for_line, blocked, steady>> /\ NoPixels /\ Same

VBlankLy ==
    /\ Wake(26, 12, 2)
    /\ ly' = current_line
    /\ Update(IF current_line = LINES /\ ~stat.line /\ "oam" \in stat.sources
              THEN [stat EXCEPT !.request = TRUE] ELSE stat)
    /\ UNCHANGED <<current_line, cycles_for_line, blocked, steady>> /\ NoPixels /\ Same

VBlankCompare ==
    /\ UNCHANGED ly
    /\ Wake(12, 24, 1)
    /\ Update(GB_STAT_update([stat EXCEPT !.compare = current_line]))
    /\ UNCHANGED <<current_line, cycles_for_line, blocked, steady>> /\ NoPixels /\ Same

(* The first of them begins with the frame's callback. *)
VBlankRest ==
    /\ UNCHANGED ly
    /\ display_state = 24 /\ display_state' = 13 /\ sleep' = LINE_LENGTH - 5
    /\ elapsed' = elapsed + sleep /\ length' = length
    /\ since' = IF current_line = LINES THEN 0 ELSE since + sleep
    /\ IF current_line # LINES THEN UNCHANGED <<stat, requests>>
       ELSE LET oam == [stat EXCEPT !.request = ~stat.line /\ "oam" \in stat.sources]
            IN  Update(GB_STAT_update([oam EXCEPT !.mode = 1, !.mode_for_interrupt = 1]))
    /\ UNCHANGED <<current_line, cycles_for_line, blocked, steady>> /\ NoPixels /\ Same

(* The last line, whose LY is 0 for most of it. *)
LastLine ==
    /\ UNCHANGED ly
    /\ current_line = VIRTUAL_LINES - 2
    /\ WakeToLine(13, 19, 2)
    /\ current_line' = VIRTUAL_LINES - 1
    /\ Update(GB_STAT_update([stat EXCEPT !.compare = None]))
    /\ UNCHANGED <<cycles_for_line, blocked, steady>> /\ NoPixels /\ Same

LastLineStep(from, to, cycles, newLy, compare) ==
    /\ Wake(from, to, cycles)
    /\ ly' = newLy
    /\ Update(IF compare = stat.compare /\ from \in {19, 29} THEN stat
              ELSE GB_STAT_update([stat EXCEPT !.compare = compare]))
    /\ UNCHANGED <<current_line, cycles_for_line, blocked, steady>> /\ NoPixels /\ Same

LastLineSteps ==
    LET last == VIRTUAL_LINES - 1 IN
        \/ LastLineStep(19, 14, IF model.late THEN 2 ELSE 4, last, stat.compare)
        \/ LastLineStep(14, 15, IF model.late THEN 4 ELSE 2,
                        IF ~model.late /\ ~model.double THEN 0 ELSE ly, last)
        \/ LastLineStep(15, 16, 4, 0, IF model.late \/ model.double THEN last ELSE None)
        \/ LastLineStep(16, 29, 12, 0, 0)
        \/ LastLineStep(29, 17, LINE_LENGTH - 24, 0, stat.compare)
-----------------------------------------------------------------------------
(* The CPU, while the PPU sleeps. *)
Changes ==
    /\ changes < MaxChanges
    /\ changes' = changes + 1
    /\ steady' = FALSE

(* At double speed, a write in the first dot of mode 2 still sees its OAM   *)
(* source high.                                                            *)
WriteSTAT(sources, atOnce) ==
    /\ sources # stat.sources /\ Changes
    /\ LET s == [stat EXCEPT !.sources = sources]
           oam == atOnce /\ model.double /\ display_state = 8 /\ "oam" \in sources
           written == IF oam THEN [GB_STAT_update([s EXCEPT !.mode_for_interrupt = 2])
                                       EXCEPT !.mode_for_interrupt = None]
                      ELSE GB_STAT_update(s)
       IN  stat' = [written EXCEPT !.request = FALSE]
    /\ requests' = <<>>
    /\ UNCHANGED <<model, on, pace, ly, since, blocked, dma_active>> /\ NoPixels

(* On the CGB, a write where LY changes waits for the PPU's next update,   *)
(* and line VIRTUAL_LINES - 1 is compared for longer.                      *)
LycWritten(s, value) ==
    LET last == VIRTUAL_LINES - 1
        before == IF display_state = 29 /\ model.cgb
                  THEN [GB_STAT_update([s EXCEPT !.compare = last]) EXCEPT !.compare = 0] ELSE s
        new == [before EXCEPT !.lyc = value]
    IN  CASE model.cgb /\ display_state \in {35, 26, 15, 16} -> new
          [] model.cgb /\ display_state = 14 ->
                 [GB_STAT_update([new EXCEPT !.compare = last]) EXCEPT !.compare = None]
          [] OTHER -> GB_STAT_update(new)

WriteLYC(value) ==
    /\ value # stat.lyc /\ Changes
    /\ stat' = [LycWritten(stat, value) EXCEPT !.request = FALSE]
    /\ requests' = <<>>
    /\ UNCHANGED <<model, on, pace, ly, since, blocked, dma_active>> /\ NoPixels

(* GB_lcd_off, at the beginning or the end of the PPU's sleep. *)
TurnOff(passed) ==
    /\ on /\ on' = FALSE /\ Changes
    /\ since' = since + passed
    /\ display_state' = 0 /\ sleep' = 0 /\ cycles_for_line' = 0
    /\ elapsed' = 0 /\ length' = None
    /\ current_line' = 0 /\ ly' = 0
    /\ stat' = [stat EXCEPT !.mode = 0, !.compare = 0]
    /\ blocked' = {} /\ pixels' = 0 /\ objects' = 0
    /\ requests' = <<>>
    /\ UNCHANGED <<model, dma_active>>

TurnOnNever(passed) ==    \* mutant: no callback when the LCD is turned on
    /\ ~on /\ on' = TRUE /\ Changes
    /\ since' = since + passed
    /\ display_state' = 0 /\ sleep' = 0
    /\ UNCHANGED <<model, current_line, ly, cycles_for_line, elapsed, length, stat, blocked, dma_active,
                   requests>>
    /\ NoPixels

(* A callback first, if the frame that begins would not be in time for it. *)
TurnOn(passed) ==
    /\ ~on /\ on' = TRUE /\ Changes
    /\ since' = IF since + passed > (VIRTUAL_LINES - LINES) * LINE_LENGTH
                THEN 0 ELSE since + passed
    /\ display_state' = 0 /\ sleep' = 0
    /\ UNCHANGED <<model, current_line, ly, cycles_for_line, elapsed, length, stat, blocked, dma_active,
                   requests>>
    /\ NoPixels

(* An OAM DMA begins, or ends: in mode 2 it has hidden the mode. *)
Dma ==
    /\ dma_active' = ~dma_active /\ Changes
    /\ LET s == IF dma_active /\ display_state \in {8, 108}
                THEN GB_STAT_update([stat EXCEPT !.mode = IF @ \in {0, 1} THEN @ + 2 ELSE @])
                ELSE IF dma_active THEN stat ELSE GB_STAT_update(stat)
       IN  stat' = [s EXCEPT !.request = FALSE]
    /\ requests' = <<>>
    /\ UNCHANGED <<model, on, pace, ly, since, blocked>> /\ NoPixels

GB_display_run ==
    \/ LcdOff
    \/ FirstLine \/ FirstDot \/ FirstOam \/ FirstMode3 \/ FirstPalettes
    \/ LineBegins \/ LineStep6 \/ LineStep7 \/ Mode2 \/ Mode2Ends \/ Mode3 \/ Mode3Palettes
    \/ \E dots \in Batches : Batch(dots)
    \/ \E n \in 0 .. Objects : Pixel(n)
    \/ FetchObject \/ AbortFetch
    \/ HBlank \/ HBlankInterrupt \/ HBlankPalettes \/ HBlankRest \/ LineEnds
    \/ VBlankLine \/ VBlankLy \/ VBlankCompare \/ VBlankRest
    \/ LastLine \/ LastLineSteps

Program ==
    \/ \E sources \in SourceSets, atOnce \in BOOLEAN : WriteSTAT(sources, atOnce)
    \/ \E value \in LYCs : WriteLYC(value)
    \/ \E passed \in {0, sleep} : TurnOff(passed) \/ TurnOn(passed)
    \/ Dma

PpuNext == GB_display_run \/ Program

PpuSpec == PpuInit /\ [][PpuNext]_ppuVars
-----------------------------------------------------------------------------
(* Every line takes LINE_LENGTH dots, however many of them mode 3 took,    *)
(* but for the first line after the LCD was turned on, which is 8 dots     *)
(* shorter, and on the DMG one dot later (cycles_for_line adds up what the *)
(* GB_SLEEPs of a line waited for).                                        *)
LinesLast ==
    \/ length \in {None, LINE_LENGTH}
    \/ current_line = 1 /\ length = LINE_LENGTH - 8 + (IF model.cgb THEN 0 ELSE 1)

(* The lines of a frame in which a program that leaves the registers alone *)
(* is interrupted, by LYC alone or by any of the modes.  HBlank comes      *)
(* before the next line's mode 2 and, after the last line, before VBlank   *)
(* without the level falling in between, and VBlank before line 0's mode   *)
(* 2, so that together they interrupt once ("STAT blocking").  The OAM     *)
(* source's request in line LINES is made twice, three dots apart.  LY has *)
(* become 0 in some models before the last line is compared.               *)
Described == {{"lyc"}} \union SUBSET {"hblank", "vblank", "oam"}
LinesFrom(first, last) == [i \in 1 .. last - first + 1 |-> first + i - 1]
Interrupted(sources) ==
    CASE sources = {}                  -> <<>>
      [] sources = {"hblank"}          -> LinesFrom(0, LINES - 1)
      [] sources = {"vblank"}          -> <<LINES>>
      [] sources = {"oam"}             -> LinesFrom(0, LINES) \o <<LINES>>
      [] sources = {"hblank", "vblank"} -> LinesFrom(0, LINES - 1)
      [] sources = {"hblank", "oam"}   -> <<0>> \o LinesFrom(0, LINES - 1)
      [] sources = {"vblank", "oam"}   -> LinesFrom(1, LINES) \o <<LINES>>
      [] sources = {"hblank", "vblank", "oam"} -> LinesFrom(0, LINES - 1)
      [] sources = {"lyc"}             ->
             IF stat.lyc >= VIRTUAL_LINES THEN <<>>
             ELSE IF stat.lyc = VIRTUAL_LINES - 1 /\ ~model.late /\ ~model.double THEN <<0>>
             ELSE <<stat.lyc>>

(* Each frame of a program that leaves the registers alone is interrupted  *)
(* in these lines and no others (GB_STAT_update).                          *)
InterruptedOnTheLines ==
    steady /\ display_state = 17 /\ stat.sources \in Described =>
        requests = Interrupted(stat.sources)

(* The frontend's callback never comes later than a frame's time after the *)
(* one before, whenever the LCD is turned off and on (memory.c: "Trigger a *)
(* vblank here so we don't exceed LCDC_PERIOD").                           *)
CallbackInTime == since + sleep <= LCDC_PERIOD

(* The CPU reaches neither VRAM nor OAM while they are drawn from, and it  *)
(* reaches them, and the palettes, in VBlank.                              *)
LockedWhileDrawing ==
    /\ on /\ display_state \in {4, 20, 21, 27, 39, 40, 41} => blocked = All \union {"palettes"}
    /\ on /\ display_state \in {12, 13, 14, 15, 16, 17, 24, 29} => blocked = {}

(* Every line takes its dots, the frontend's callback is in time, STAT     *)
(* interrupts on its lines, and memory is locked while it is drawn from:   *)
(* the four above.                                                         *)
LinesKeepTime == LinesLast /\ InterruptedOnTheLines /\ CallbackInTime /\ LockedWhileDrawing
=============================================================================
