----------------------------- MODULE PpuProofs -----------------------------
(***************************************************************************)
(* Proofs about the PPU, for every size of the picture and of its lines,   *)
(* every model, every length of mode 3 that leaves HBlank its dots, every  *)
(* choice of STAT sources and every value of LYC, whatever the program     *)
(* does: first the dots, then the locks, then STAT's interrupts.           *)
(***************************************************************************)
EXTENDS Ppu, FiniteSetTheorems, SequenceTheorems, TLAPS

(* Numbers of whole lines, in dots. *)
Dots(n) == n * LINE_LENGTH

(* The dots of a number of lines grow with it; a frame takes those of all *)
(* its lines.                                                             *)
LEMMA DotsOfLines ==
    /\ \A n \in Nat : Dots(n) \in Nat /\ Dots(n + 1) = Dots(n) + LINE_LENGTH
    /\ \A m, n \in Nat : m <= n => Dots(m) <= Dots(n)
    /\ Dots(0) = 0 /\ Dots(VIRTUAL_LINES) = LCDC_PERIOD
    /\ Dots(VIRTUAL_LINES - LINES) = (VIRTUAL_LINES - LINES) * LINE_LENGTH
<1>1. LINE_LENGTH \in Nat /\ LINES \in Nat /\ VIRTUAL_LINES \in Nat
  BY PpuAssumption
<1>2. \A n \in Nat : Dots(n) \in Nat /\ Dots(n + 1) = Dots(n) + LINE_LENGTH
  BY <1>1 DEF Dots
<1>3. ASSUME NEW m \in Nat, NEW n \in Nat, m <= n PROVE Dots(m) <= Dots(n)
  <2>1. PICK d \in Nat : n = m + d
    BY <1>3
  <2>2. Dots(n) = Dots(m) + d * LINE_LENGTH /\ d * LINE_LENGTH \in Nat /\ Dots(m) \in Nat
    BY <2>1, <1>1 DEF Dots
  <2> QED BY <2>2
<1>4. Dots(0) = 0 /\ Dots(VIRTUAL_LINES) = LCDC_PERIOD
  BY <1>1 DEF Dots, LCDC_PERIOD
<1> QED BY <1>2, <1>3, <1>4 DEF Dots

(* The states by what the PPU does in them: the LCD is off or has just been *)
(* turned on, the first line before mode 3, a line before mode 3, mode 3   *)
(* pixel by pixel, HBlank, VBlank's lines and the last of them.            *)
FirstPlaces == {0, 1, 23, 2, 34, 37, 38}
LinePlaces == {35, 6, 7, 8, 108, 10, 32}
Drawing3 == {4, 21, 27, 41, 20, 39, 40}
HBlankPlaces == {22, 33, 36, 11, 31}
VBlankPlaces == {26, 12, 24, 13}
LastPlaces == {19, 14, 15, 16, 29, 17}

(* The dot of its line in which the PPU wakes up next. *)
Reached == elapsed + sleep
(* What the first line is shorter. *)
Early == IF length = None THEN IF model.cgb THEN 8 ELSE 7 ELSE 0

PaceTyped ==
    /\ sleep \in Nat /\ elapsed \in Nat /\ since \in Nat /\ cycles_for_line \in Nat
    /\ current_line \in Nat /\ length \in Nat \union {None}

(* Which lines the PPU can be in, by what it waits for. *)
PlaceInv ==
    \/ display_state \in FirstPlaces /\ length = None /\ current_line = 0
    \/ display_state \in LinePlaces /\ length # None /\ current_line < LINES
    \/ display_state \in Drawing3 \union HBlankPlaces /\ current_line < LINES
         /\ (length = None => current_line = 0)
    \/ display_state \in VBlankPlaces /\ length # None /\ current_line >= LINES
         /\ current_line <= VIRTUAL_LINES - 2
    \/ display_state \in LastPlaces /\ length # None /\ current_line = VIRTUAL_LINES - 1

(* The dots of a line that have passed when the PPU wakes up: in the      *)
(* first line after the LCD was turned on, which counts 8 dots more than  *)
(* pass,                                                                  *)
FirstDots ==
    /\ display_state \in {0, 1} => elapsed = 0
    /\ display_state = 0 => sleep = 0 /\ Reached = 0
    /\ display_state = 23 => Reached = 1 /\ ~model.cgb
    /\ display_state \in {2, 34} =>
           Reached = cycles_for_line + 8 - Early
    /\ display_state = 2 => cycles_for_line <= MODE2_LENGTH - 4
    /\ display_state = 34 => cycles_for_line <= MODE2_LENGTH - 2
    /\ display_state \in {37, 38} => Reached = cycles_for_line - Early
    /\ display_state = 37 => cycles_for_line <= MODE2_LENGTH + 8
    /\ display_state = 38 => cycles_for_line <= MODE2_LENGTH + 11

(* in the beginning of any other line, *)
LineDots ==
    /\ display_state = 35 => Reached = 2
    /\ display_state = 6 => Reached = 3
    /\ display_state = 7 => Reached = 4
    /\ display_state = 8 => Reached = MODE2_LENGTH
    /\ display_state = 108 => Reached = MODE2_LENGTH + 4
    /\ display_state \in {10, 32} => Reached = cycles_for_line
    /\ display_state = 10 => cycles_for_line <= MODE2_LENGTH + 7
    /\ display_state = 32 => cycles_for_line <= MODE2_LENGTH + 9

(* from mode 3 on, where cycles_for_line says it, *)
DrawnDots ==
    /\ display_state \in Drawing3 \union {22, 33, 36} => Reached = cycles_for_line - Early
    /\ display_state \in Drawing3 => cycles_for_line <= LINE_LENGTH - 7
    /\ display_state = 22 => cycles_for_line <= LINE_LENGTH - 6
    /\ display_state = 33 => cycles_for_line <= LINE_LENGTH - 4
    /\ display_state = 36 => cycles_for_line <= LINE_LENGTH - 2
    /\ display_state = 11 => Reached = LINE_LENGTH - 2 - Early
    /\ display_state = 31 => Reached = LINE_LENGTH - Early

(* and in VBlank. *)
VBlankDots ==
    /\ display_state \in {26, 19} => Reached = 2
    /\ display_state = 12 => Reached = 4
    /\ display_state = 24 => Reached = 5
    /\ display_state = 14 => Reached = IF model.late THEN 4 ELSE 6
    /\ display_state = 15 => Reached = 8
    /\ display_state = 16 => Reached = 12
    /\ display_state = 29 => Reached = 24
    /\ display_state \in {13, 17} => Reached = LINE_LENGTH

(* The whole lines since the frontend's callback. *)
LinesSince ==
    IF display_state \in LastPlaces \union {13} \/ current_line > LINES
    THEN current_line - LINES ELSE VIRTUAL_LINES - LINES + current_line

(* While the LCD is on, the callback is no older than the lines since     *)
(* VBlank and the dots of this one.                                       *)
SinceInv ==
    /\ ~on => display_state \in {0, 1} /\ since + sleep <= LCDC_PERIOD
    /\ on => display_state # 1
             /\ since + sleep <= Dots(LinesSince) + Reached - (IF length = None THEN 0 ELSE 5)

(* The invariant of the pace: what LinesLast says of a line follows from  *)
(* the dot it ends in.                                                    *)
PaceInv ==
    PaceTyped /\ PlaceInv /\ FirstDots /\ LineDots /\ DrawnDots /\ VBlankDots /\ LinesLast

(* A step within a line keeps the age of the callback within its lines. *)
LEMMA SinceKept ==
    ASSUME PaceTyped, SinceInv, NEW from, NEW to, NEW cycles \in Nat, Wake(from, to, cycles),
           on, UNCHANGED <<current_line, on>>, to # 1,
           from \in LastPlaces \union {13} <=> to \in LastPlaces \union {13}
    PROVE  SinceInv'
<1>1. LinesSince' = LinesSince
  BY DEF LinesSince, Wake
<1>2. /\ since' = since + sleep /\ sleep' = cycles /\ elapsed' = elapsed + sleep /\ length' = length
      /\ sleep \in Nat /\ since \in Nat /\ elapsed \in Nat
  BY DEF Wake, PaceTyped
<1> DEFINE d == Dots(LinesSince)
           e == IF length = None THEN 0 ELSE 5
<1>3. since + sleep <= d + (elapsed + sleep) - e
  BY DEF SinceInv, Reached
<1>4. Dots(LinesSince)' = d
  BY <1>1 DEF Dots
<1>5. since' + sleep' <= d + (elapsed' + sleep') - e
  <2>1. d \in Int
    BY PpuAssumption DEF Dots, LinesSince, PaceTyped
  <2>2. e \in Int
    OBVIOUS
  <2> HIDE DEF d, e
  <2> QED BY <1>2, <1>3, <2>1, <2>2
<1>6. e' = e
  BY <1>2
<1>7. on' /\ display_state' # 1
  BY DEF Wake
<1> QED BY <1>4, <1>5, <1>6, <1>7 DEF SinceInv, Reached

(* What every step within a line does to the dots. *)
LEMMA Woken ==
    ASSUME PaceTyped, NEW from, NEW to, NEW cycles \in Nat, Wake(from, to, cycles)
    PROVE  /\ Reached' = Reached + cycles /\ Reached \in Nat
           /\ sleep' \in Nat /\ elapsed' \in Nat /\ since' \in Nat
<1>1. /\ since' = since + sleep /\ sleep' = cycles /\ elapsed' = elapsed + sleep
      /\ sleep \in Nat /\ since \in Nat /\ elapsed \in Nat
  BY DEF Wake, PaceTyped
<1>2. since' \in Nat /\ elapsed' \in Nat /\ elapsed' + sleep' = elapsed + sleep + cycles
  BY <1>1
<1> QED BY <1>1, <1>2 DEF Reached

(* Each group of actions keeps the pace: those of the first line, *)
LEMMA FirstPaced ==
    ASSUME PaceInv, SinceInv,
           FirstLine \/ FirstDot \/ FirstOam \/ FirstMode3 \/ FirstPalettes
    PROVE  PaceInv' /\ SinceInv'
<1> USE PpuAssumption DEF None
<1>1. CASE FirstLine
  <2>1. Wake(display_state, 2, MODE2_LENGTH - 4) /\ on' = on /\ model' = model
    BY <1>1 DEF FirstLine, Same
  <2>2. on /\ current_line' = current_line
    BY <1>1, <2>1 DEF FirstLine, SinceInv, PaceInv, PlaceInv, FirstPlaces, LinePlaces, Drawing3,
           HBlankPlaces, VBlankPlaces, LastPlaces, Wake
  <2>n. MODE2_LENGTH - 4 \in Nat
    BY <1>1 DEF PaceInv, PaceTyped, DrawnDots, Wake, FirstLine
  <2>3. SinceInv'
    BY <2>1, <2>2, SinceKept, <1>1, <2>n DEF PaceInv, LastPlaces, FirstLine
  <2>4. /\ Reached' = Reached + (MODE2_LENGTH - 4) /\ Reached \in Nat
        /\ sleep' \in Nat /\ elapsed' \in Nat /\ since' \in Nat
        /\ Early' = Early /\ Early \in 0 .. 8 /\ cycles_for_line \in Nat
    BY <2>1, Woken, <2>n DEF PaceInv, PaceTyped, Wake, Early
  <2>5. PaceTyped' /\ PlaceInv' /\ LinesLast'
    BY <1>1, <2>1, <2>2, <2>4 DEF FirstLine, Wake, PaceInv, PaceTyped, PlaceInv, LinesLast, FirstPlaces,
           LinePlaces, Drawing3, HBlankPlaces, VBlankPlaces, LastPlaces
  <2>7. length = None
    BY <1>1 DEF FirstLine, PaceInv, PlaceInv, FirstPlaces, LinePlaces, Drawing3, HBlankPlaces,
           VBlankPlaces, LastPlaces
  <2>8. Reached = 8 - Early
    BY <1>1, <2>7 DEF FirstLine, PaceInv, FirstDots, Early
  <2>6. FirstDots' /\ LineDots' /\ DrawnDots' /\ VBlankDots'
    BY <1>1, <2>1, <2>4, <2>8 DEF FirstLine, Wake, PaceInv, PaceTyped, FirstDots, LineDots, DrawnDots,
           VBlankDots, Drawing3
  <2> QED BY <2>3, <2>5, <2>6 DEF PaceInv
<1>2. CASE FirstDot
  <2>1. Wake(0, 23, 1) /\ on' = on /\ model' = model
    BY <1>2 DEF FirstDot, Same
  <2>2. on /\ current_line' = current_line
    BY <1>2, <2>1 DEF FirstDot, SinceInv, PaceInv, PlaceInv, FirstPlaces, LinePlaces, Drawing3,
           HBlankPlaces, VBlankPlaces, LastPlaces, Wake
  <2>3. SinceInv'
    BY <2>1, <2>2, SinceKept DEF PaceInv, LastPlaces
  <2>4. /\ Reached' = Reached + (1) /\ Reached \in Nat
        /\ sleep' \in Nat /\ elapsed' \in Nat /\ since' \in Nat
        /\ Early' = Early /\ Early \in 0 .. 8 /\ cycles_for_line \in Nat
    BY <2>1, Woken DEF PaceInv, PaceTyped, Wake, Early
  <2>5. PaceTyped' /\ PlaceInv' /\ LinesLast'
    BY <1>2, <2>1, <2>2, <2>4 DEF FirstDot, Wake, PaceInv, PaceTyped, PlaceInv, LinesLast, FirstPlaces,
           LinePlaces, Drawing3, HBlankPlaces, VBlankPlaces, LastPlaces
  <2>6. FirstDots' /\ LineDots' /\ DrawnDots' /\ VBlankDots'
    BY <1>2, <2>1, <2>4 DEF FirstDot, Wake, PaceInv, PaceTyped, FirstDots, LineDots, DrawnDots,
           VBlankDots, Drawing3
  <2> QED BY <2>3, <2>5, <2>6 DEF PaceInv
<1>3. CASE FirstOam
  <2>1. Wake(2, 34, 2) /\ on' = on /\ model' = model
    BY <1>3 DEF FirstOam, Same
  <2>2. on /\ current_line' = current_line
    BY <1>3, <2>1 DEF FirstOam, SinceInv, PaceInv, PlaceInv, FirstPlaces, LinePlaces, Drawing3,
           HBlankPlaces, VBlankPlaces, LastPlaces, Wake
  <2>3. SinceInv'
    BY <2>1, <2>2, SinceKept DEF PaceInv, LastPlaces
  <2>4. /\ Reached' = Reached + (2) /\ Reached \in Nat
        /\ sleep' \in Nat /\ elapsed' \in Nat /\ since' \in Nat
        /\ Early' = Early /\ Early \in 0 .. 8 /\ cycles_for_line \in Nat
    BY <2>1, Woken DEF PaceInv, PaceTyped, Wake, Early
  <2>5. PaceTyped' /\ PlaceInv' /\ LinesLast'
    BY <1>3, <2>1, <2>2, <2>4 DEF FirstOam, Wake, PaceInv, PaceTyped, PlaceInv, LinesLast, FirstPlaces,
           LinePlaces, Drawing3, HBlankPlaces, VBlankPlaces, LastPlaces
  <2>6. FirstDots' /\ LineDots' /\ DrawnDots' /\ VBlankDots'
    BY <1>3, <2>1, <2>4 DEF FirstOam, Wake, PaceInv, PaceTyped, FirstDots, LineDots, DrawnDots,
           VBlankDots, Drawing3
  <2> QED BY <2>3, <2>5, <2>6 DEF PaceInv
<1>4. CASE FirstMode3
  <2>1. Wake(34, 37, 2) /\ on' = on /\ model' = model
    BY <1>4 DEF FirstMode3, Same
  <2>2. on /\ current_line' = current_line
    BY <1>4, <2>1 DEF FirstMode3, SinceInv, PaceInv, PlaceInv, FirstPlaces, LinePlaces, Drawing3,
           HBlankPlaces, VBlankPlaces, LastPlaces, Wake
  <2>3. SinceInv'
    BY <2>1, <2>2, SinceKept DEF PaceInv, LastPlaces
  <2>4. /\ Reached' = Reached + (2) /\ Reached \in Nat
        /\ sleep' \in Nat /\ elapsed' \in Nat /\ since' \in Nat
        /\ Early' = Early /\ Early \in 0 .. 8 /\ cycles_for_line \in Nat
    BY <2>1, Woken DEF PaceInv, PaceTyped, Wake, Early
  <2>5. PaceTyped' /\ PlaceInv' /\ LinesLast'
    BY <1>4, <2>1, <2>2, <2>4 DEF FirstMode3, Wake, PaceInv, PaceTyped, PlaceInv, LinesLast, FirstPlaces,
           LinePlaces, Drawing3, HBlankPlaces, VBlankPlaces, LastPlaces
  <2>6. FirstDots' /\ LineDots' /\ DrawnDots' /\ VBlankDots'
    BY <1>4, <2>1, <2>4 DEF FirstMode3, Wake, PaceInv, PaceTyped, FirstDots, LineDots, DrawnDots,
           VBlankDots, Drawing3
  <2> QED BY <2>3, <2>5, <2>6 DEF PaceInv
<1>5. CASE FirstPalettes
  <2>1. Wake(37, 38, 3) /\ on' = on /\ model' = model
    BY <1>5 DEF FirstPalettes, Same
  <2>2. on /\ current_line' = current_line
    BY <1>5, <2>1 DEF FirstPalettes, SinceInv, PaceInv, PlaceInv, FirstPlaces, LinePlaces, Drawing3,
           HBlankPlaces, VBlankPlaces, LastPlaces, Wake
  <2>3. SinceInv'
    BY <2>1, <2>2, SinceKept DEF PaceInv, LastPlaces
  <2>4. /\ Reached' = Reached + (3) /\ Reached \in Nat
        /\ sleep' \in Nat /\ elapsed' \in Nat /\ since' \in Nat
        /\ Early' = Early /\ Early \in 0 .. 8 /\ cycles_for_line \in Nat
    BY <2>1, Woken DEF PaceInv, PaceTyped, Wake, Early
  <2>5. PaceTyped' /\ PlaceInv' /\ LinesLast'
    BY <1>5, <2>1, <2>2, <2>4 DEF FirstPalettes, Wake, PaceInv, PaceTyped, PlaceInv, LinesLast, FirstPlaces,
           LinePlaces, Drawing3, HBlankPlaces, VBlankPlaces, LastPlaces
  <2>6. FirstDots' /\ LineDots' /\ DrawnDots' /\ VBlankDots'
    BY <1>5, <2>1, <2>4 DEF FirstPalettes, Wake, PaceInv, PaceTyped, FirstDots, LineDots, DrawnDots,
           VBlankDots, Drawing3
  <2> QED BY <2>3, <2>5, <2>6 DEF PaceInv
<1> QED BY <1>1, <1>2, <1>3, <1>4, <1>5

(* of the search for objects, *)
LEMMA LinePaced ==
    ASSUME PaceInv, SinceInv,
           LineStep6 \/ LineStep7 \/ Mode2 \/ Mode2Ends \/ Mode3 \/ Mode3Palettes
    PROVE  PaceInv' /\ SinceInv'
<1> USE PpuAssumption DEF None
<1>1. CASE LineStep6
  <2>1. Wake(35, 6, 1) /\ on' = on /\ model' = model
    BY <1>1 DEF LineStep6, Same
  <2>2. on /\ current_line' = current_line
    BY <1>1, <2>1 DEF LineStep6, SinceInv, PaceInv, PlaceInv, FirstPlaces, LinePlaces, Drawing3,
           HBlankPlaces, VBlankPlaces, LastPlaces, Wake
  <2>3. SinceInv'
    BY <2>1, <2>2, SinceKept DEF PaceInv, LastPlaces
  <2>4. /\ Reached' = Reached + (1) /\ Reached \in Nat
        /\ sleep' \in Nat /\ elapsed' \in Nat /\ since' \in Nat
        /\ Early' = Early /\ Early \in 0 .. 8 /\ cycles_for_line \in Nat
    BY <2>1, Woken DEF PaceInv, PaceTyped, Wake, Early
  <2>5. PaceTyped' /\ PlaceInv' /\ LinesLast'
    BY <1>1, <2>1, <2>2, <2>4 DEF LineStep6, Wake, PaceInv, PaceTyped, PlaceInv, LinesLast, FirstPlaces,
           LinePlaces, Drawing3, HBlankPlaces, VBlankPlaces, LastPlaces
  <2>6. FirstDots' /\ LineDots' /\ DrawnDots' /\ VBlankDots'
    BY <1>1, <2>1, <2>4 DEF LineStep6, Wake, PaceInv, PaceTyped, FirstDots, LineDots, DrawnDots,
           VBlankDots, Drawing3
  <2> QED BY <2>3, <2>5, <2>6 DEF PaceInv
<1>2. CASE LineStep7
  <2>1. Wake(6, 7, 1) /\ on' = on /\ model' = model
    BY <1>2 DEF LineStep7, Same
  <2>2. on /\ current_line' = current_line
    BY <1>2, <2>1 DEF LineStep7, SinceInv, PaceInv, PlaceInv, FirstPlaces, LinePlaces, Drawing3,
           HBlankPlaces, VBlankPlaces, LastPlaces, Wake
  <2>3. SinceInv'
    BY <2>1, <2>2, SinceKept DEF PaceInv, LastPlaces
  <2>4. /\ Reached' = Reached + (1) /\ Reached \in Nat
        /\ sleep' \in Nat /\ elapsed' \in Nat /\ since' \in Nat
        /\ Early' = Early /\ Early \in 0 .. 8 /\ cycles_for_line \in Nat
    BY <2>1, Woken DEF PaceInv, PaceTyped, Wake, Early
  <2>5. PaceTyped' /\ PlaceInv' /\ LinesLast'
    BY <1>2, <2>1, <2>2, <2>4 DEF LineStep7, Wake, PaceInv, PaceTyped, PlaceInv, LinesLast, FirstPlaces,
           LinePlaces, Drawing3, HBlankPlaces, VBlankPlaces, LastPlaces
  <2>6. FirstDots' /\ LineDots' /\ DrawnDots' /\ VBlankDots'
    BY <1>2, <2>1, <2>4 DEF LineStep7, Wake, PaceInv, PaceTyped, FirstDots, LineDots, DrawnDots,
           VBlankDots, Drawing3
  <2> QED BY <2>3, <2>5, <2>6 DEF PaceInv
<1>3. CASE Mode2
  <2>1. Wake(7, 8, MODE2_LENGTH - 4) /\ on' = on /\ model' = model
    BY <1>3 DEF Mode2, Same
  <2>2. on /\ current_line' = current_line
    BY <1>3, <2>1 DEF Mode2, SinceInv, PaceInv, PlaceInv, FirstPlaces, LinePlaces, Drawing3,
           HBlankPlaces, VBlankPlaces, LastPlaces, Wake
  <2>n. MODE2_LENGTH - 4 \in Nat
    BY <1>3 DEF PaceInv, PaceTyped, DrawnDots, Wake, Mode2
  <2>3. SinceInv'
    BY <2>1, <2>2, SinceKept, <2>n DEF PaceInv, LastPlaces
  <2>4. /\ Reached' = Reached + (MODE2_LENGTH - 4) /\ Reached \in Nat
        /\ sleep' \in Nat /\ elapsed' \in Nat /\ since' \in Nat
        /\ Early' = Early /\ Early \in 0 .. 8 /\ cycles_for_line \in Nat
    BY <2>1, Woken, <2>n DEF PaceInv, PaceTyped, Wake, Early
  <2>5. PaceTyped' /\ PlaceInv' /\ LinesLast'
    BY <1>3, <2>1, <2>2, <2>4 DEF Mode2, Wake, PaceInv, PaceTyped, PlaceInv, LinesLast, FirstPlaces,
           LinePlaces, Drawing3, HBlankPlaces, VBlankPlaces, LastPlaces
  <2>6. FirstDots' /\ LineDots' /\ DrawnDots' /\ VBlankDots'
    BY <1>3, <2>1, <2>4 DEF Mode2, Wake, PaceInv, PaceTyped, FirstDots, LineDots, DrawnDots,
           VBlankDots, Drawing3
  <2> QED BY <2>3, <2>5, <2>6 DEF PaceInv
<1>4. CASE Mode2Ends
  <2>1. Wake(8, 108, 4) /\ on' = on /\ model' = model
    BY <1>4 DEF Mode2Ends, Same
  <2>2. on /\ current_line' = current_line
    BY <1>4, <2>1 DEF Mode2Ends, SinceInv, PaceInv, PlaceInv, FirstPlaces, LinePlaces, Drawing3,
           HBlankPlaces, VBlankPlaces, LastPlaces, Wake
  <2>3. SinceInv'
    BY <2>1, <2>2, SinceKept DEF PaceInv, LastPlaces
  <2>4. /\ Reached' = Reached + (4) /\ Reached \in Nat
        /\ sleep' \in Nat /\ elapsed' \in Nat /\ since' \in Nat
        /\ Early' = Early /\ Early \in 0 .. 8 /\ cycles_for_line \in Nat
    BY <2>1, Woken DEF PaceInv, PaceTyped, Wake, Early
  <2>5. PaceTyped' /\ PlaceInv' /\ LinesLast'
    BY <1>4, <2>1, <2>2, <2>4 DEF Mode2Ends, Wake, PaceInv, PaceTyped, PlaceInv, LinesLast, FirstPlaces,
           LinePlaces, Drawing3, HBlankPlaces, VBlankPlaces, LastPlaces
  <2>6. FirstDots' /\ LineDots' /\ DrawnDots' /\ VBlankDots'
    BY <1>4, <2>1, <2>4 DEF Mode2Ends, Wake, PaceInv, PaceTyped, FirstDots, LineDots, DrawnDots,
           VBlankDots, Drawing3
  <2> QED BY <2>3, <2>5, <2>6 DEF PaceInv
<1>5. CASE Mode3
  <2>1. Wake(108, 10, 3) /\ on' = on /\ model' = model
    BY <1>5 DEF Mode3, Same
  <2>2. on /\ current_line' = current_line
    BY <1>5, <2>1 DEF Mode3, SinceInv, PaceInv, PlaceInv, FirstPlaces, LinePlaces, Drawing3,
           HBlankPlaces, VBlankPlaces, LastPlaces, Wake
  <2>3. SinceInv'
    BY <2>1, <2>2, SinceKept DEF PaceInv, LastPlaces
  <2>4. /\ Reached' = Reached + (3) /\ Reached \in Nat
        /\ sleep' \in Nat /\ elapsed' \in Nat /\ since' \in Nat
        /\ Early' = Early /\ Early \in 0 .. 8 /\ cycles_for_line \in Nat
    BY <2>1, Woken DEF PaceInv, PaceTyped, Wake, Early
  <2>5. PaceTyped' /\ PlaceInv' /\ LinesLast'
    BY <1>5, <2>1, <2>2, <2>4 DEF Mode3, Wake, PaceInv, PaceTyped, PlaceInv, LinesLast, FirstPlaces,
           LinePlaces, Drawing3, HBlankPlaces, VBlankPlaces, LastPlaces
  <2>6. FirstDots' /\ LineDots' /\ DrawnDots' /\ VBlankDots'
    BY <1>5, <2>1, <2>4 DEF Mode3, Wake, PaceInv, PaceTyped, FirstDots, LineDots, DrawnDots,
           VBlankDots, Drawing3
  <2> QED BY <2>3, <2>5, <2>6 DEF PaceInv
<1>6. CASE Mode3Palettes
  <2>1. Wake(10, 32, 2) /\ on' = on /\ model' = model
    BY <1>6 DEF Mode3Palettes, Same
  <2>2. on /\ current_line' = current_line
    BY <1>6, <2>1 DEF Mode3Palettes, SinceInv, PaceInv, PlaceInv, FirstPlaces, LinePlaces, Drawing3,
           HBlankPlaces, VBlankPlaces, LastPlaces, Wake
  <2>3. SinceInv'
    BY <2>1, <2>2, SinceKept DEF PaceInv, LastPlaces
  <2>4. /\ Reached' = Reached + (2) /\ Reached \in Nat
        /\ sleep' \in Nat /\ elapsed' \in Nat /\ since' \in Nat
        /\ Early' = Early /\ Early \in 0 .. 8 /\ cycles_for_line \in Nat
    BY <2>1, Woken DEF PaceInv, PaceTyped, Wake, Early
  <2>5. PaceTyped' /\ PlaceInv' /\ LinesLast'
    BY <1>6, <2>1, <2>2, <2>4 DEF Mode3Palettes, Wake, PaceInv, PaceTyped, PlaceInv, LinesLast, FirstPlaces,
           LinePlaces, Drawing3, HBlankPlaces, VBlankPlaces, LastPlaces
  <2>6. FirstDots' /\ LineDots' /\ DrawnDots' /\ VBlankDots'
    BY <1>6, <2>1, <2>4 DEF Mode3Palettes, Wake, PaceInv, PaceTyped, FirstDots, LineDots, DrawnDots,
           VBlankDots, Drawing3
  <2> QED BY <2>3, <2>5, <2>6 DEF PaceInv
<1> QED BY <1>1, <1>2, <1>3, <1>4, <1>5, <1>6

(* of HBlank, *)
LEMMA HBlankPaced ==
    ASSUME PaceInv, SinceInv,
           HBlank \/ HBlankInterrupt \/ HBlankPalettes \/ HBlankRest \/ LineEnds
    PROVE  PaceInv' /\ SinceInv'
<1> USE PpuAssumption DEF None
<1>1. CASE HBlank
  <2>1. Wake(display_state, 22, 1) /\ on' = on /\ model' = model
    BY <1>1 DEF HBlank, Same
  <2>2. on /\ current_line' = current_line
    BY <1>1, <2>1 DEF HBlank, SinceInv, PaceInv, PlaceInv, FirstPlaces, LinePlaces, Drawing3,
           HBlankPlaces, VBlankPlaces, LastPlaces, Wake
  <2>3. SinceInv'
    BY <2>1, <2>2, SinceKept, <1>1 DEF PaceInv, LastPlaces, HBlank
  <2>4. /\ Reached' = Reached + (1) /\ Reached \in Nat
        /\ sleep' \in Nat /\ elapsed' \in Nat /\ since' \in Nat
        /\ Early' = Early /\ Early \in 0 .. 8 /\ cycles_for_line \in Nat
    BY <2>1, Woken DEF PaceInv, PaceTyped, Wake, Early
  <2>5. PaceTyped' /\ PlaceInv' /\ LinesLast'
    BY <1>1, <2>1, <2>2, <2>4 DEF HBlank, Wake, PaceInv, PaceTyped, PlaceInv, LinesLast, FirstPlaces,
           LinePlaces, Drawing3, HBlankPlaces, VBlankPlaces, LastPlaces
  <2>6. FirstDots' /\ LineDots' /\ DrawnDots' /\ VBlankDots'
    BY <1>1, <2>1, <2>4 DEF HBlank, Wake, PaceInv, PaceTyped, FirstDots, LineDots, DrawnDots,
           VBlankDots, Drawing3
  <2> QED BY <2>3, <2>5, <2>6 DEF PaceInv
<1>2. CASE HBlankInterrupt
  <2>1. Wake(22, 33, 2) /\ on' = on /\ model' = model
    BY <1>2 DEF HBlankInterrupt, Same
  <2>2. on /\ current_line' = current_line
    BY <1>2, <2>1 DEF HBlankInterrupt, SinceInv, PaceInv, PlaceInv, FirstPlaces, LinePlaces, Drawing3,
           HBlankPlaces, VBlankPlaces, LastPlaces, Wake
  <2>3. SinceInv'
    BY <2>1, <2>2, SinceKept DEF PaceInv, LastPlaces
  <2>4. /\ Reached' = Reached + (2) /\ Reached \in Nat
        /\ sleep' \in Nat /\ elapsed' \in Nat /\ since' \in Nat
        /\ Early' = Early /\ Early \in 0 .. 8 /\ cycles_for_line \in Nat
    BY <2>1, Woken DEF PaceInv, PaceTyped, Wake, Early
  <2>5. PaceTyped' /\ PlaceInv' /\ LinesLast'
    BY <1>2, <2>1, <2>2, <2>4 DEF HBlankInterrupt, Wake, PaceInv, PaceTyped, PlaceInv, LinesLast, FirstPlaces,
           LinePlaces, Drawing3, HBlankPlaces, VBlankPlaces, LastPlaces
  <2>6. FirstDots' /\ LineDots' /\ DrawnDots' /\ VBlankDots'
    BY <1>2, <2>1, <2>4 DEF HBlankInterrupt, Wake, PaceInv, PaceTyped, FirstDots, LineDots, DrawnDots,
           VBlankDots, Drawing3
  <2> QED BY <2>3, <2>5, <2>6 DEF PaceInv
<1>3. CASE HBlankPalettes
  <2>1. Wake(33, 36, 2) /\ on' = on /\ model' = model
    BY <1>3 DEF HBlankPalettes, Same
  <2>2. on /\ current_line' = current_line
    BY <1>3, <2>1 DEF HBlankPalettes, SinceInv, PaceInv, PlaceInv, FirstPlaces, LinePlaces, Drawing3,
           HBlankPlaces, VBlankPlaces, LastPlaces, Wake
  <2>3. SinceInv'
    BY <2>1, <2>2, SinceKept DEF PaceInv, LastPlaces
  <2>4. /\ Reached' = Reached + (2) /\ Reached \in Nat
        /\ sleep' \in Nat /\ elapsed' \in Nat /\ since' \in Nat
        /\ Early' = Early /\ Early \in 0 .. 8 /\ cycles_for_line \in Nat
    BY <2>1, Woken DEF PaceInv, PaceTyped, Wake, Early
  <2>5. PaceTyped' /\ PlaceInv' /\ LinesLast'
    BY <1>3, <2>1, <2>2, <2>4 DEF HBlankPalettes, Wake, PaceInv, PaceTyped, PlaceInv, LinesLast, FirstPlaces,
           LinePlaces, Drawing3, HBlankPlaces, VBlankPlaces, LastPlaces
  <2>6. FirstDots' /\ LineDots' /\ DrawnDots' /\ VBlankDots'
    BY <1>3, <2>1, <2>4 DEF HBlankPalettes, Wake, PaceInv, PaceTyped, FirstDots, LineDots, DrawnDots,
           VBlankDots, Drawing3
  <2> QED BY <2>3, <2>5, <2>6 DEF PaceInv
<1>4. CASE HBlankRest
  <2>1. Wake(36, 11, LINE_LENGTH - cycles_for_line - 2) /\ on' = on /\ model' = model
    BY <1>4 DEF HBlankRest, Same
  <2>2. on /\ current_line' = current_line
    BY <1>4, <2>1 DEF HBlankRest, SinceInv, PaceInv, PlaceInv, FirstPlaces, LinePlaces, Drawing3,
           HBlankPlaces, VBlankPlaces, LastPlaces, Wake
  <2>n. LINE_LENGTH - cycles_for_line - 2 \in Nat
    BY <1>4 DEF PaceInv, PaceTyped, DrawnDots, Wake, HBlankRest
  <2>3. SinceInv'
    BY <2>1, <2>2, SinceKept, <2>n DEF PaceInv, LastPlaces
  <2>4. /\ Reached' = Reached + (LINE_LENGTH - cycles_for_line - 2) /\ Reached \in Nat
        /\ sleep' \in Nat /\ elapsed' \in Nat /\ since' \in Nat
        /\ Early' = Early /\ Early \in 0 .. 8 /\ cycles_for_line \in Nat
    BY <2>1, Woken, <2>n DEF PaceInv, PaceTyped, Wake, Early
  <2>5. PaceTyped' /\ PlaceInv' /\ LinesLast'
    BY <1>4, <2>1, <2>2, <2>4 DEF HBlankRest, Wake, PaceInv, PaceTyped, PlaceInv, LinesLast, FirstPlaces,
           LinePlaces, Drawing3, HBlankPlaces, VBlankPlaces, LastPlaces
  <2>6. FirstDots' /\ LineDots' /\ DrawnDots' /\ VBlankDots'
    BY <1>4, <2>1, <2>4 DEF HBlankRest, Wake, PaceInv, PaceTyped, FirstDots, LineDots, DrawnDots,
           VBlankDots, Drawing3
  <2> QED BY <2>3, <2>5, <2>6 DEF PaceInv
<1>5. CASE LineEnds
  <2>1. Wake(11, 31, 2) /\ on' = on /\ model' = model
    BY <1>5 DEF LineEnds, Same
  <2>2. on /\ current_line' = current_line
    BY <1>5, <2>1 DEF LineEnds, SinceInv, PaceInv, PlaceInv, FirstPlaces, LinePlaces, Drawing3,
           HBlankPlaces, VBlankPlaces, LastPlaces, Wake
  <2>3. SinceInv'
    BY <2>1, <2>2, SinceKept DEF PaceInv, LastPlaces
  <2>4. /\ Reached' = Reached + (2) /\ Reached \in Nat
        /\ sleep' \in Nat /\ elapsed' \in Nat /\ since' \in Nat
        /\ Early' = Early /\ Early \in 0 .. 8 /\ cycles_for_line \in Nat
    BY <2>1, Woken DEF PaceInv, PaceTyped, Wake, Early
  <2>5. PaceTyped' /\ PlaceInv' /\ LinesLast'
    BY <1>5, <2>1, <2>2, <2>4 DEF LineEnds, Wake, PaceInv, PaceTyped, PlaceInv, LinesLast, FirstPlaces,
           LinePlaces, Drawing3, HBlankPlaces, VBlankPlaces, LastPlaces
  <2>6. FirstDots' /\ LineDots' /\ DrawnDots' /\ VBlankDots'
    BY <1>5, <2>1, <2>4 DEF LineEnds, Wake, PaceInv, PaceTyped, FirstDots, LineDots, DrawnDots,
           VBlankDots, Drawing3
  <2> QED BY <2>3, <2>5, <2>6 DEF PaceInv
<1> QED BY <1>1, <1>2, <1>3, <1>4, <1>5

(* each step of mode 3 that leaves HBlank its dots, *)
LEMMA DrawingPaced ==
    ASSUME PaceInv, SinceInv, NEW from \in {32, 38} \union Drawing3, NEW to \in Drawing3,
           NEW dots \in Nat, Fits(dots), Wake(from, to, dots), Same,
           cycles_for_line' = cycles_for_line + dots, current_line' = current_line
    PROVE  PaceInv' /\ SinceInv'
<1> USE PpuAssumption DEF None
<1>1. on' = on /\ model' = model /\ display_state = from /\ display_state' = to /\ length' = length
  BY DEF Same, Wake
<1>2. on
  BY <1>1 DEF SinceInv, Drawing3
<1>3. SinceInv'
  BY <1>1, <1>2, SinceKept DEF PaceInv, LastPlaces, Drawing3
<1>4. /\ Reached' = Reached + dots /\ Reached \in Nat
      /\ sleep' \in Nat /\ elapsed' \in Nat /\ since' \in Nat
      /\ Early' = Early /\ Early \in 0 .. 8 /\ cycles_for_line \in Nat
  BY <1>1, Woken DEF PaceInv, PaceTyped, Early
<1>5. PaceTyped' /\ PlaceInv' /\ LinesLast'
  BY <1>1, <1>4 DEF PaceInv, PaceTyped, PlaceInv, LinesLast, FirstPlaces, LinePlaces, Drawing3,
         HBlankPlaces, VBlankPlaces, LastPlaces
<1>6. from = 32 => Early = 0
  BY <1>1 DEF PaceInv, PlaceInv, Early, FirstPlaces, Drawing3, HBlankPlaces, VBlankPlaces, LastPlaces
<1>7. FirstDots' /\ LineDots' /\ DrawnDots' /\ VBlankDots'
  BY <1>1, <1>4, <1>6 DEF PaceInv, FirstDots, LineDots, DrawnDots, VBlankDots, Drawing3, Fits
<1> QED BY <1>3, <1>5, <1>7 DEF PaceInv

(* and thus all of them, *)
LEMMA Mode3Paced ==
    ASSUME PaceInv, SinceInv,
           \/ \E dots \in Batches : Batch(dots)
           \/ \E n \in 0 .. Objects : Pixel(n)
           \/ FetchObject \/ AbortFetch
    PROVE  PaceInv' /\ SinceInv'
<1>1. ASSUME NEW dots \in Batches, Batch(dots)
      PROVE  PaceInv' /\ SinceInv'
  <2>1. display_state \in {32, 38} /\ dots \in Nat
    BY <1>1, PpuAssumption DEF Batch
  <2> QED BY <1>1, <2>1, DrawingPaced DEF Batch, Drawing3
<1>2. ASSUME NEW n \in 0 .. Objects, Pixel(n)
      PROVE  PaceInv' /\ SinceInv'
  <2>1. display_state \in {32, 38, 21, 40}
    BY <1>2 DEF Pixel
  <2> QED BY <1>2, <2>1, DrawingPaced DEF Pixel, Drawing3
<1>3. ASSUME NEW from \in Drawing3, NEW to \in Drawing3, NEW cycles \in Nat,
             ObjectStep(from, to, cycles)
      PROVE  PaceInv' /\ SinceInv'
  BY <1>3, DrawingPaced DEF ObjectStep
<1>4. CASE FetchObject
  <2>1. \E from \in Drawing3, to \in Drawing3, cycles \in Nat : ObjectStep(from, to, cycles)
    BY <1>4 DEF FetchObject, Drawing3
  <2> QED BY <2>1, <1>3
<1>5. CASE AbortFetch
  BY <1>5, DrawingPaced DEF AbortFetch, Drawing3
<1> QED BY <1>1, <1>2, <1>4, <1>5

(* where a line begins, *)
LEMMA BeginsPaced ==
    ASSUME PaceInv, SinceInv, LineBegins \/ VBlankLine \/ LastLine
    PROVE  PaceInv' /\ SinceInv'
<1> USE PpuAssumption DEF None
<1>1. /\ since' = since + sleep /\ sleep' = 2 /\ elapsed' = 0 /\ length' = Reached
      /\ cycles_for_line' = cycles_for_line /\ model' = model /\ on' = on
      /\ display_state \in {31, 17, 13}
  BY DEF LineBegins, VBlankLine, LastLine, WakeToLine, Same, Reached
<1>2. /\ Reached' = 2 /\ sleep' \in Nat /\ elapsed' \in Nat /\ since' \in Nat /\ Reached \in Nat
      /\ cycles_for_line' \in Nat /\ since \in Nat /\ sleep \in Nat /\ current_line \in Nat
  BY <1>1 DEF PaceInv, PaceTyped, Reached
<1>3. on
  BY <1>1 DEF SinceInv
<1>4. display_state = 31 => /\ Reached = LINE_LENGTH - Early /\ current_line < LINES
                            /\ length = None => current_line = 0
  BY DEF PaceInv, DrawnDots, PlaceInv, FirstPlaces, LinePlaces, Drawing3, HBlankPlaces,
         VBlankPlaces, LastPlaces
<1>5. /\ display_state = 17 => Reached = LINE_LENGTH /\ length # None /\ current_line = VIRTUAL_LINES - 1
      /\ display_state = 13 => Reached = LINE_LENGTH /\ length # None /\ current_line >= LINES
                                /\ current_line <= VIRTUAL_LINES - 2
  BY DEF PaceInv, VBlankDots, PlaceInv, FirstPlaces, LinePlaces, Drawing3, HBlankPlaces,
         VBlankPlaces, LastPlaces
<1>6. /\ LineBegins => /\ display_state' = 35 /\ current_line' < LINES /\ display_state # 13
                       /\ current_line' = IF display_state = 17 THEN 0 ELSE current_line + 1
      /\ VBlankLine => /\ display_state' = 26 /\ current_line' = current_line + 1
                       /\ display_state \in {31, 13}
                       /\ display_state = 31 => current_line = LINES - 1
                       /\ display_state = 13 => current_line < VIRTUAL_LINES - 2
      /\ LastLine => /\ display_state' = 19 /\ current_line' = VIRTUAL_LINES - 1
                     /\ display_state = 13 /\ current_line = VIRTUAL_LINES - 2
  BY <1>1, <1>3 DEF LineBegins, VBlankLine, LastLine, WakeToLine
<1>7. PaceTyped' /\ PlaceInv'
  BY <1>1, <1>2, <1>4, <1>5, <1>6 DEF PaceTyped, PlaceInv, LinePlaces, VBlankPlaces, LastPlaces
<1>8. FirstDots' /\ LineDots' /\ DrawnDots' /\ VBlankDots'
  BY <1>2, <1>6 DEF FirstDots, LineDots, DrawnDots, VBlankDots, Drawing3
<1>9. LinesLast'
  BY <1>1, <1>4, <1>5, <1>6 DEF LinesLast, Early
<1>10. SinceInv'
  <2> DEFINE n == LinesSince
  <2>1. since + sleep <= Dots(n) + Reached - (IF length = None THEN 0 ELSE 5)
    BY <1>3 DEF SinceInv
  <2>2. n \in Nat /\ n + 1 \in Nat
    BY <1>1, <1>2, <1>4, <1>5 DEF LinesSince, LastPlaces
  <2>3. since + sleep <= Dots(n) + LINE_LENGTH - 5
    <3>1. Dots(n) \in Nat
      BY <2>2, DotsOfLines
    <3>2. Reached - (IF length = None THEN 0 ELSE 5) <= LINE_LENGTH - 5
      BY <1>1, <1>2, <1>4, <1>5 DEF Early
    <3> HIDE DEF n
    <3> QED BY <2>1, <3>1, <3>2, <1>2
  <2>4. ASSUME LineBegins /\ display_state = 17 PROVE LinesSince' = n + 1
    BY <2>4, <1>5, <1>6 DEF LinesSince, LastPlaces
  <2>4a. ASSUME LineBegins /\ display_state = 31 PROVE LinesSince' = n + 1
    BY <2>4a, <1>2, <1>4, <1>6 DEF LinesSince, LastPlaces
  <2>4b. ASSUME VBlankLine /\ display_state = 31 PROVE LinesSince' = n + 1
    BY <2>4b, <1>2, <1>4, <1>6 DEF LinesSince, LastPlaces
  <2>4c. ASSUME VBlankLine /\ display_state = 13 PROVE LinesSince' = n + 1
    BY <2>4c, <1>2, <1>5, <1>6 DEF LinesSince, LastPlaces
  <2>4d. ASSUME LastLine PROVE LinesSince' = n + 1
    BY <2>4d, <1>2, <1>5, <1>6 DEF LinesSince, LastPlaces
  <2>5. LinesSince' = n + 1
    BY <2>4, <2>4a, <2>4b, <2>4c, <2>4d, <1>1, <1>6
  <2>6. Dots(LinesSince)' = Dots(n) + LINE_LENGTH /\ Dots(n) \in Nat
    BY <2>2, <2>5, DotsOfLines DEF Dots
  <2>7. length' # None
    BY <1>1, <1>2
  <2>8. since' + sleep' <= Dots(LinesSince)' + Reached' - 5
    <3> HIDE DEF n
    <3> QED BY <1>1, <1>2, <2>3, <2>6
  <2> QED BY <1>1, <1>3, <1>6, <2>7, <2>8 DEF SinceInv
<1> QED BY <1>7, <1>8, <1>9, <1>10 DEF PaceInv

(* within VBlank, but for the callback, *)
LEMMA VBlankPaced ==
    ASSUME PaceInv, SinceInv, VBlankLy \/ VBlankCompare \/ LastLineSteps
    PROVE  PaceInv' /\ SinceInv'
<1> USE PpuAssumption DEF None
<1>1. ASSUME NEW from, NEW to, NEW cycles \in Nat, Wake(from, to, cycles), Same,
             current_line' = current_line, cycles_for_line' = cycles_for_line,
             \/ from \in {26, 12} /\ to \in {12, 24} /\ Reached + cycles = (IF to = 12 THEN 4 ELSE 5)
             \/ /\ from \in LastPlaces /\ to \in {14, 15, 16, 29, 17}
                /\ Reached + cycles = CASE to = 14 -> IF model.late THEN 4 ELSE 6
                                        [] to = 15 -> 8 [] to = 16 -> 12 [] to = 29 -> 24
                                        [] to = 17 -> LINE_LENGTH
      PROVE  PaceInv' /\ SinceInv'
  <2>1. on' = on /\ model' = model /\ display_state = from /\ display_state' = to /\ length' = length
    BY <1>1 DEF Same, Wake
  <2>2. on
    BY <1>1, <2>1 DEF SinceInv, LastPlaces
  <2>3. SinceInv'
    BY <1>1, <2>1, <2>2, SinceKept DEF PaceInv, LastPlaces
  <2>4. /\ Reached' = Reached + cycles /\ Reached \in Nat
        /\ sleep' \in Nat /\ elapsed' \in Nat /\ since' \in Nat /\ cycles_for_line \in Nat
    BY <1>1, <2>1, Woken DEF PaceInv, PaceTyped
  <2>5. PaceTyped' /\ PlaceInv' /\ LinesLast'
    BY <1>1, <2>1, <2>4 DEF PaceInv, PaceTyped, PlaceInv, LinesLast, FirstPlaces, LinePlaces, Drawing3,
           HBlankPlaces, VBlankPlaces, LastPlaces
  <2>6. FirstDots' /\ LineDots' /\ DrawnDots' /\ VBlankDots'
    BY <1>1, <2>1, <2>4 DEF FirstDots, LineDots, DrawnDots, VBlankDots, Drawing3
  <2> QED BY <2>3, <2>5, <2>6 DEF PaceInv
<1>2. CASE VBlankLy
  BY <1>1, <1>2 DEF VBlankLy, PaceInv, VBlankDots, Wake
<1>3. CASE VBlankCompare
  BY <1>1, <1>3 DEF VBlankCompare, PaceInv, VBlankDots, Wake
<1>4. ASSUME NEW from, NEW to, NEW cycles \in Nat, NEW y, NEW compare,
             LastLineStep(from, to, cycles, y, compare),
             from \in LastPlaces, to \in {14, 15, 16, 29, 17},
             Reached + cycles = CASE to = 14 -> IF model.late THEN 4 ELSE 6
                                  [] to = 15 -> 8 [] to = 16 -> 12 [] to = 29 -> 24
                                  [] to = 17 -> LINE_LENGTH
      PROVE  PaceInv' /\ SinceInv'
  BY <1>1, <1>4 DEF LastLineStep
<1>5. CASE LastLineSteps
  <2> DEFINE last == VIRTUAL_LINES - 1
  <2>1. /\ display_state = 19 => Reached = 2
        /\ display_state = 14 => Reached = IF model.late THEN 4 ELSE 6
        /\ display_state = 15 => Reached = 8
        /\ display_state = 16 => Reached = 12
        /\ display_state = 29 => Reached = 24
    BY DEF PaceInv, VBlankDots
  <2>2. CASE LastLineStep(19, 14, IF model.late THEN 2 ELSE 4, last, stat.compare)
    <3>1. display_state = 19
      BY <2>2 DEF LastLineStep, Wake
    <3> QED BY <1>4, <2>1, <2>2, <3>1 DEF LastPlaces
  <2>3. CASE LastLineStep(14, 15, IF model.late THEN 4 ELSE 2,
                          IF ~model.late /\ ~model.double THEN 0 ELSE ly, last)
    <3>1. display_state = 14
      BY <2>3 DEF LastLineStep, Wake
    <3> QED BY <1>4, <2>1, <2>3, <3>1 DEF LastPlaces
  <2>4. CASE LastLineStep(15, 16, 4, 0, IF model.late \/ model.double THEN last ELSE None)
    <3>1. display_state = 15
      BY <2>4 DEF LastLineStep, Wake
    <3> QED BY <1>4, <2>1, <2>4, <3>1 DEF LastPlaces
  <2>5. CASE LastLineStep(16, 29, 12, 0, 0)
    <3>1. display_state = 16
      BY <2>5 DEF LastLineStep, Wake
    <3> QED BY <1>4, <2>1, <2>5, <3>1 DEF LastPlaces
  <2>6. CASE LastLineStep(29, 17, LINE_LENGTH - 24, 0, stat.compare)
    <3>1. display_state = 29 /\ LINE_LENGTH - 24 \in Nat /\ 24 + (LINE_LENGTH - 24) = LINE_LENGTH
      BY <2>6 DEF LastLineStep, Wake
    <3> QED BY <1>4, <2>1, <2>6, <3>1 DEF LastPlaces
  <2> QED BY <1>5, <2>2, <2>3, <2>4, <2>5, <2>6 DEF LastLineSteps
<1> QED BY <1>2, <1>3, <1>5

(* with the callback, *)
LEMMA CallbackPaced ==
    ASSUME PaceInv, SinceInv, VBlankRest
    PROVE  PaceInv' /\ SinceInv'
<1> USE PpuAssumption DEF None
<1>1. /\ display_state = 24 /\ display_state' = 13 /\ sleep' = LINE_LENGTH - 5 /\ LINE_LENGTH - 5 \in Nat
      /\ elapsed' = Reached /\ length' = length /\ on' = on /\ model' = model
      /\ since' = IF current_line = LINES THEN 0 ELSE since + sleep
      /\ current_line' = current_line /\ cycles_for_line' = cycles_for_line
  BY DEF VBlankRest, Same, Reached
<1>2. Reached = 5 /\ length # None /\ current_line >= LINES /\ current_line <= VIRTUAL_LINES - 2
  BY <1>1 DEF PaceInv, PlaceInv, VBlankDots, FirstPlaces, LinePlaces, Drawing3, HBlankPlaces, LastPlaces
<1>3. on
  BY <1>1 DEF SinceInv
<1>4. Reached' = LINE_LENGTH /\ elapsed' = 5 /\ sleep' \in Nat /\ since' \in Nat
  BY <1>1, <1>2 DEF PaceInv, PaceTyped, Reached
<1>5. PaceTyped' /\ PlaceInv' /\ LinesLast'
  BY <1>1, <1>2, <1>4 DEF PaceInv, PaceTyped, PlaceInv, LinesLast, VBlankPlaces
<1>6. FirstDots' /\ LineDots' /\ DrawnDots' /\ VBlankDots'
  BY <1>1, <1>4 DEF FirstDots, LineDots, DrawnDots, VBlankDots, Drawing3
<1>7. SinceInv'
  <2>1. LinesSince' = current_line - LINES /\ current_line \in Nat /\ current_line - LINES \in Nat
    BY <1>1, <1>2 DEF LinesSince, PaceInv, PaceTyped
  <2>2. Dots(LinesSince)' = Dots(current_line - LINES)
    BY <2>1 DEF Dots
  <2>3. Dots(current_line - LINES) \in Nat /\ Dots(0) = 0
    BY <2>1, DotsOfLines
  <2>4. CASE current_line = LINES
    BY <1>1, <1>2, <1>3, <1>4, <2>2, <2>3, <2>4 DEF SinceInv
  <2>5. CASE current_line > LINES
    <3>1. LinesSince = current_line - LINES
      BY <2>5 DEF LinesSince
    <3>2. since + sleep <= Dots(current_line - LINES) + 0
      BY <1>2, <1>3, <2>3, <3>1 DEF SinceInv
    <3>3. since' + sleep' <= Dots(current_line - LINES) + LINE_LENGTH - 5
      BY <1>1, <2>3, <2>5, <3>2 DEF PaceInv, PaceTyped
    <3> QED BY <1>1, <1>2, <1>3, <1>4, <2>2, <3>3 DEF SinceInv
  <2> QED BY <2>1, <2>4, <2>5, <1>2
<1> QED BY <1>5, <1>6, <1>7 DEF PaceInv

(* The age of the callback never exceeds a frame. *)
LEMMA InTime ==
    ASSUME PaceInv, SinceInv PROVE CallbackInTime
<1> USE PpuAssumption DEF None
<1>1. CASE ~on
  BY <1>1 DEF SinceInv, CallbackInTime
<1>2. CASE on
  <2>1. /\ sleep \in Nat /\ elapsed \in Nat /\ since \in Nat /\ cycles_for_line \in Nat
        /\ current_line \in Nat /\ Reached \in Nat /\ Early \in 0 .. 8
    BY DEF PaceInv, PaceTyped, Reached, Early
  <2>2. Reached <= LINE_LENGTH
    BY <1>2, <2>1 DEF PaceInv, PlaceInv, FirstDots, LineDots, DrawnDots, VBlankDots, SinceInv,
           FirstPlaces, LinePlaces, Drawing3, HBlankPlaces, VBlankPlaces, LastPlaces
  <2>3. display_state \in {26, 12, 24} => Reached <= 5
    BY DEF PaceInv, VBlankDots
  <2> DEFINE n == LinesSince
             left == IF length = None THEN 0 ELSE 5
  <2>4. since + sleep <= Dots(n) + Reached - left
    BY <1>2 DEF SinceInv
  <2>5. \/ n \in Nat /\ n + 1 <= VIRTUAL_LINES
        \/ n = VIRTUAL_LINES /\ display_state \in {26, 12, 24} /\ length # None
    BY <2>1 DEF LinesSince, PaceInv, PlaceInv, FirstPlaces, LinePlaces, Drawing3, HBlankPlaces,
           VBlankPlaces, LastPlaces
  <2> HIDE DEF n
  <2>6. Dots(VIRTUAL_LINES) = LCDC_PERIOD /\ VIRTUAL_LINES \in Nat /\ LCDC_PERIOD \in Int
    BY DotsOfLines DEF LCDC_PERIOD
  <2>7. CASE n \in Nat /\ n + 1 <= VIRTUAL_LINES
    <3>1. Dots(n) \in Nat /\ Dots(n) + LINE_LENGTH <= Dots(VIRTUAL_LINES)
      <4>1. n + 1 \in Nat /\ Dots(n + 1) <= Dots(VIRTUAL_LINES)
        BY <2>6, <2>7, DotsOfLines
      <4> QED BY <2>7, <4>1, DotsOfLines
    <3>2. left \in Nat
      OBVIOUS
    <3> HIDE DEF left
    <3> QED BY <2>1, <2>2, <2>4, <2>6, <3>1, <3>2 DEF CallbackInTime
  <2>8. CASE n = VIRTUAL_LINES /\ display_state \in {26, 12, 24} /\ length # None
    BY <2>1, <2>3, <2>4, <2>6, <2>8 DEF CallbackInTime
  <2> QED BY <2>5, <2>7, <2>8
<1> QED BY <1>1, <1>2

(* with the LCD off, turned off or turned on, *)
LEMMA SwitchedPaced ==
    ASSUME PaceInv, SinceInv,
           LcdOff \/ (\E passed \in {0, sleep} : TurnOff(passed) \/ TurnOn(passed))
    PROVE  PaceInv' /\ SinceInv'
<1> USE PpuAssumption DEF None
<1>1. /\ sleep \in Nat /\ elapsed \in Nat /\ since \in Nat /\ cycles_for_line \in Nat
      /\ current_line \in Nat
  BY DEF PaceInv, PaceTyped
<1>2. LCDC_PERIOD \in Nat /\ Dots(VIRTUAL_LINES - LINES) = (VIRTUAL_LINES - LINES) * LINE_LENGTH
      /\ Dots(VIRTUAL_LINES - LINES) \in Nat
  BY DotsOfLines DEF LCDC_PERIOD
<1>3. ASSUME display_state \in {0, 1}
      PROVE  current_line = 0 /\ length = None /\ elapsed = 0
  BY <1>3 DEF PaceInv, PlaceInv, FirstDots, LinePlaces, Drawing3, HBlankPlaces, VBlankPlaces, LastPlaces
<1>4. CASE LcdOff
  <2> DEFINE passed == since + sleep
             kept == IF passed < LCDC_PERIOD THEN passed ELSE 0
  <2>1. /\ ~on /\ ~on' /\ display_state \in {0, 1} /\ display_state' = 1 /\ since' = kept
        /\ sleep' = LCDC_PERIOD - since' /\ UNCHANGED <<current_line, cycles_for_line, elapsed, length, model>>
    BY <1>4 DEF LcdOff, Same
  <2>2. kept \in Nat /\ kept <= LCDC_PERIOD
    BY <1>1, <1>2
  <2>3. sleep' \in Nat /\ since' \in Nat /\ since' + sleep' = LCDC_PERIOD
    <3> HIDE DEF kept
    <3> QED BY <2>1, <2>2, <1>2
  <2>4. PaceInv'
    BY <1>1, <1>3, <2>1, <2>3 DEF PaceInv, PaceTyped, PlaceInv, FirstDots, LineDots, DrawnDots,
           VBlankDots, LinesLast, FirstPlaces, Drawing3
  <2> QED BY <2>1, <2>3, <2>4, <1>2 DEF SinceInv
<1>5. ASSUME NEW passed \in {0, sleep}, TurnOff(passed)
      PROVE  PaceInv' /\ SinceInv'
  <2>1. /\ on /\ ~on' /\ since' = since + passed /\ display_state' = 0 /\ sleep' = 0
        /\ cycles_for_line' = 0 /\ elapsed' = 0 /\ length' = None /\ current_line' = 0
    BY <1>5 DEF TurnOff
  <2>2. since + sleep <= LCDC_PERIOD /\ since' \in Nat /\ since' + sleep' <= LCDC_PERIOD
    BY <1>1, <1>2, <2>1, InTime DEF CallbackInTime
  <2>3. PaceInv'
    BY <1>1, <2>1, <2>2 DEF PaceInv, PaceTyped, PlaceInv, FirstDots, LineDots, DrawnDots,
           VBlankDots, LinesLast, FirstPlaces, Drawing3, Reached
  <2> QED BY <2>1, <2>2, <2>3 DEF SinceInv
<1>6. ASSUME NEW passed \in {0, sleep}, TurnOn(passed)
      PROVE  PaceInv' /\ SinceInv'
  <2>1. /\ ~on /\ on' /\ display_state' = 0 /\ sleep' = 0 /\ display_state \in {0, 1}
        /\ since' = IF since + passed > Dots(VIRTUAL_LINES - LINES) THEN 0 ELSE since + passed
        /\ UNCHANGED <<current_line, cycles_for_line, elapsed, length, model>>
    BY <1>2, <1>6 DEF TurnOn, SinceInv
  <2>2. since' \in Nat /\ since' <= Dots(VIRTUAL_LINES - LINES)
    BY <1>1, <1>2, <2>1
  <2>3. PaceInv'
    BY <1>1, <1>3, <2>1, <2>2 DEF PaceInv, PaceTyped, PlaceInv, FirstDots, LineDots, DrawnDots,
           VBlankDots, LinesLast, FirstPlaces, Drawing3, Reached
  <2>4. LinesSince' = VIRTUAL_LINES - LINES /\ Reached' = 0 /\ length' = None
    BY <1>3, <2>1 DEF LinesSince, LastPlaces, Reached
  <2>5. Dots(LinesSince)' = Dots(VIRTUAL_LINES - LINES)
    BY <2>4 DEF Dots
  <2> QED BY <1>2, <2>1, <2>2, <2>3, <2>4, <2>5 DEF SinceInv
<1> QED BY <1>4, <1>5, <1>6

(* and whatever leaves the pace alone. *)
LEMMA ChangesPaced ==
    ASSUME PaceInv, SinceInv, UNCHANGED <<model, on, pace, since>>
    PROVE  PaceInv' /\ SinceInv'
<1>1. /\ UNCHANGED <<model, on, display_state, sleep, current_line, cycles_for_line, elapsed, length, since>>
      /\ Reached' = Reached /\ Early' = Early /\ LinesSince' = LinesSince
  BY DEF pace, Reached, Early, LinesSince
<1>2. PaceTyped' /\ PlaceInv' /\ LinesLast'
  BY <1>1 DEF PaceInv, PaceTyped, PlaceInv, LinesLast
<1>3. FirstDots' /\ LineDots' /\ DrawnDots' /\ VBlankDots'
  BY <1>1 DEF PaceInv, FirstDots, LineDots, DrawnDots, VBlankDots
<1>4. SinceInv'
  BY <1>1 DEF SinceInv, Dots
<1> QED BY <1>2, <1>3, <1>4 DEF PaceInv

(* So the PPU, and any program, keeps the pace. *)
LEMMA Paced ==
    ASSUME PaceInv, SinceInv, [PpuNext]_ppuVars
    PROVE  PaceInv' /\ SinceInv'
<1>1. CASE GB_display_run
  BY <1>1, FirstPaced, LinePaced, Mode3Paced, HBlankPaced, BeginsPaced, VBlankPaced, CallbackPaced,
     SwitchedPaced DEF GB_display_run
<1>2. CASE Program
  <2>1. \/ \E passed \in {0, sleep} : TurnOff(passed) \/ TurnOn(passed)
        \/ UNCHANGED <<model, on, pace, since>>
    BY <1>2 DEF Program, WriteSTAT, WriteLYC, Dma
  <2> QED BY <2>1, SwitchedPaced, ChangesPaced
<1>3. CASE UNCHANGED ppuVars
  BY <1>3, ChangesPaced DEF ppuVars
<1> QED BY <1>1, <1>2, <1>3 DEF PpuNext

-----------------------------------------------------------------------------

(* What the CPU has no access to, from mode 3 to the end of VBlank. *)
LockInv ==
    /\ display_state \in Drawing3 => blocked = All \union {"palettes"}
    /\ display_state = 22 => blocked \subseteq All \union {"palettes"}
    /\ display_state \in {33, 36} => blocked \subseteq {"palettes"}
    /\ display_state \in {11, 31} \union VBlankPlaces \union LastPlaces => blocked = {}

(* No step, of the PPU or the program, unlocks the memory that is drawn   *)
(* from.                                                                  *)
LEMMA Locked ==
    ASSUME LockInv, [PpuNext]_ppuVars PROVE LockInv'
<1> USE DEF LockInv, Drawing3, VBlankPlaces, LastPlaces
<1>1. CASE \/ FirstLine \/ FirstDot \/ FirstOam \/ FirstMode3 \/ FirstPalettes \/ LcdOff
           \/ LineBegins \/ LineStep6 \/ LineStep7 \/ Mode2 \/ Mode2Ends \/ Mode3 \/ Mode3Palettes
  <2>1. display_state' \in FirstPlaces \union LinePlaces
    BY <1>1 DEF FirstLine, FirstDot, FirstOam, FirstMode3, FirstPalettes, LcdOff, LineBegins, LineStep6,
           LineStep7, Mode2, Mode2Ends, Mode3, Mode3Palettes, Wake, WakeToLine, FirstPlaces, LinePlaces
  <2> QED BY <2>1 DEF FirstPlaces, LinePlaces
<1>2. CASE \/ \E dots \in Batches : Batch(dots)
           \/ \E n \in 0 .. Objects : Pixel(n)
  BY <1>2 DEF Batch, Pixel, Wake
<1>3. CASE FetchObject \/ AbortFetch
  BY <1>3 DEF FetchObject, AbortFetch, ObjectStep, Wake
<1>4. CASE HBlank
  BY <1>4 DEF HBlank, Wake, All
<1>5. CASE HBlankInterrupt \/ HBlankPalettes \/ HBlankRest \/ LineEnds
  BY <1>5 DEF HBlankInterrupt, HBlankPalettes, HBlankRest, LineEnds, Wake, All
<1>6. CASE VBlankLine \/ VBlankLy \/ VBlankCompare \/ VBlankRest \/ LastLine
  BY <1>6 DEF VBlankLine, VBlankLy, VBlankCompare, VBlankRest, LastLine, Wake, WakeToLine
<1>7. CASE LastLineSteps
  BY <1>7 DEF LastLineSteps, LastLineStep, Wake
<1>8. CASE Program
  <2>1. display_state' = 0 \/ UNCHANGED <<display_state, blocked>>
    BY <1>8 DEF Program, WriteSTAT, WriteLYC, TurnOff, TurnOn, Dma, pace
  <2> QED BY <2>1
<1>9. CASE UNCHANGED ppuVars
  BY <1>9 DEF ppuVars, pace
<1> QED BY <1>1, <1>2, <1>3, <1>4, <1>5, <1>6, <1>7, <1>8, <1>9 DEF PpuNext, GB_display_run

-----------------------------------------------------------------------------

(* What stat is a member of. *)
Stats ==
    [mode : 0 .. 3, mode_for_interrupt : -1 .. 3, compare : {None} \union Nat, lyc : Nat,
     lyc_flag : BOOLEAN, lyc_line : BOOLEAN, line : BOOLEAN, sources : SUBSET Sources,
     request : BOOLEAN]

(* The level of STAT's interrupt. *)
High(mode, sources, lycLine) ==
    \/ mode = 0 /\ "hblank" \in sources
    \/ mode = 1 /\ "vblank" \in sources
    \/ mode = 2 /\ "oam" \in sources
    \/ "lyc" \in sources /\ lycLine

(* u is what GB_STAT_update makes of s. *)
Updated(s, u) ==
    /\ u \in Stats
    /\ u.mode_for_interrupt = s.mode_for_interrupt /\ u.compare = s.compare
    /\ u.lyc = s.lyc /\ u.sources = s.sources
    /\ u.lyc_line <=> IF s.compare = None THEN s.lyc_line ELSE s.compare = s.lyc
    /\ u.line <=> High(s.mode_for_interrupt, s.sources, u.lyc_line)
    /\ u.request <=> s.request \/ (u.line /\ ~s.line)

(* What the comparison with LYC does to stat, *)
LEMMA ComparedIs ==
    ASSUME NEW s \in Stats
    PROVE  /\ LycCompared(s) \in Stats
           /\ LycCompared(s).mode_for_interrupt = s.mode_for_interrupt
           /\ LycCompared(s).compare = s.compare /\ LycCompared(s).lyc = s.lyc
           /\ LycCompared(s).sources = s.sources
           /\ LycCompared(s).line = s.line /\ LycCompared(s).request = s.request
           /\ LycCompared(s).lyc_line <=> IF s.compare = None THEN s.lyc_line ELSE s.compare = s.lyc
<1>1. None # s.lyc
  BY DEF Stats, None
<1>2. CASE s.compare = None
  <2>1. LycCompared(s) \in {s, [s EXCEPT !.lyc_flag = s.compare = s.lyc, !.lyc_line = s.lyc_line]}
    BY <1>2 DEF LycCompared
  <2> QED BY <1>2, <2>1 DEF Stats
<1>3. CASE s.compare # None
  <2>1. LycCompared(s) = [s EXCEPT !.lyc_flag = s.compare = s.lyc, !.lyc_line = s.compare = s.lyc]
    BY <1>3 DEF LycCompared
  <2> QED BY <1>3, <2>1 DEF Stats
<1> QED BY <1>2, <1>3

(* and all that an update does. *)
LEMMA UpdateIs ==
    ASSUME NEW s \in Stats, on
    PROVE  Updated(s, GB_STAT_update(s))
<1> DEFINE h == IF dma_active /\ s.mode = 2 THEN [s EXCEPT !.mode = 0] ELSE s
           c == LycCompared(h)
           high == \/ c.mode_for_interrupt = 0 /\ "hblank" \in c.sources
                   \/ c.mode_for_interrupt = 1 /\ "vblank" \in c.sources
                   \/ c.mode_for_interrupt = 2 /\ "oam" \in c.sources
                   \/ "lyc" \in c.sources /\ c.lyc_line
<1>1. GB_STAT_update(s) = [c EXCEPT !.line = high, !.request = @ \/ (high /\ ~c.line)]
  BY DEF GB_STAT_update
<1>2. /\ h \in Stats /\ h.mode_for_interrupt = s.mode_for_interrupt /\ h.compare = s.compare
      /\ h.lyc = s.lyc /\ h.sources = s.sources /\ h.lyc_line = s.lyc_line
      /\ h.line = s.line /\ h.request = s.request
  BY DEF Stats
<1> HIDE DEF h
<1>3. /\ c \in Stats /\ c.mode_for_interrupt = s.mode_for_interrupt /\ c.compare = s.compare
      /\ c.lyc = s.lyc /\ c.sources = s.sources /\ c.line = s.line /\ c.request = s.request
      /\ c.lyc_line <=> IF s.compare = None THEN s.lyc_line ELSE s.compare = s.lyc
  BY <1>2, ComparedIs
<1> HIDE DEF c
<1>4. high <=> High(s.mode_for_interrupt, s.sources, c.lyc_line)
  BY <1>3 DEF High
<1>5. high \in BOOLEAN
  OBVIOUS
<1> HIDE DEF high
<1> DEFINE u == [c EXCEPT !.line = high, !.request = @ \/ (high /\ ~c.line)]
<1>6. /\ u \in Stats /\ u.mode_for_interrupt = c.mode_for_interrupt /\ u.compare = c.compare
      /\ u.lyc = c.lyc /\ u.sources = c.sources /\ u.lyc_line = c.lyc_line
      /\ u.line = high /\ u.request = (c.request \/ (high /\ ~c.line))
  BY <1>3, <1>5 DEF Stats
<1> HIDE DEF u
<1>7. Updated(s, u)
  BY <1>3, <1>4, <1>6 DEF Updated
<1> QED BY <1>1, <1>7 DEF u

(* What an update leaves of stat with another mode and LY to compare with. *)
Noted(mode, compare) ==
    /\ stat' \in Stats /\ ~stat'.request
    /\ stat'.mode_for_interrupt = mode /\ stat'.compare = compare
    /\ stat'.lyc = stat.lyc /\ stat'.sources = stat.sources
    /\ stat'.lyc_line <=> IF compare = None THEN stat.lyc_line ELSE compare = stat.lyc
    /\ stat'.line <=> High(mode, stat.sources, stat'.lyc_line)

(* The request of this step, if there is one, is noted for its line. *)
Requested(yes) == requests' = IF yes /\ steady THEN Append(requests, ly') ELSE requests

(* s is t with another mode and LY to compare with. *)
SameBut(s, t, mode, compare) ==
    /\ s \in Stats /\ s.mode_for_interrupt = mode /\ s.compare = compare
    /\ s.lyc = t.lyc /\ s.sources = t.sources
    /\ s.lyc_line = t.lyc_line /\ s.line = t.line /\ s.request = t.request

(* How Update leaves stat and requests, *)
LEMMA NotesOf ==
    ASSUME NEW u \in Stats, Update(u)
    PROVE  /\ stat' \in Stats /\ ~stat'.request
           /\ stat'.mode_for_interrupt = u.mode_for_interrupt /\ stat'.compare = u.compare
           /\ stat'.lyc = u.lyc /\ stat'.sources = u.sources /\ stat'.line = u.line
           /\ stat'.lyc_line = u.lyc_line
           /\ Requested(u.request)
<1>1. stat' = [u EXCEPT !.request = FALSE]
  BY DEF Update
<1> QED BY <1>1 DEF Update, Stats, Requested

(* and how it does after an update with a mode and a line to compare. *)
LEMMA NotedIs ==
    ASSUME on, NEW s, NEW t, NEW mode, NEW compare, SameBut(s, t, mode, compare),
           t.lyc = stat.lyc, t.sources = stat.sources, t.lyc_line = stat.lyc_line, t.line = stat.line,
           Update(GB_STAT_update(s))
    PROVE  /\ Noted(mode, compare)
           /\ Requested(s.request \/ (stat'.line /\ ~stat.line))
<1> DEFINE u == GB_STAT_update(s)
<1>1. Updated(s, u)
  BY UpdateIs DEF SameBut
<1> HIDE DEF u
<1>2. u \in Stats
  BY <1>1 DEF Updated
<1>3. /\ stat' \in Stats /\ ~stat'.request
      /\ stat'.mode_for_interrupt = u.mode_for_interrupt /\ stat'.compare = u.compare
      /\ stat'.lyc = u.lyc /\ stat'.sources = u.sources /\ stat'.line = u.line
      /\ stat'.lyc_line = u.lyc_line
      /\ Requested(u.request)
  <2>1. Update(u)
    BY DEF u
  <2> QED BY <1>2, <2>1, NotesOf
<1>4. Noted(mode, compare)
  BY <1>1, <1>3 DEF Updated, Noted, SameBut
<1>5. u.request <=> s.request \/ (stat'.line /\ ~stat.line)
  BY <1>1, <1>3 DEF Updated, SameBut
<1> QED BY <1>3, <1>4, <1>5 DEF Requested

(* The forms in which the actions change stat. *)
LEMMA Forms ==
    ASSUME NEW t \in Stats
    PROVE  /\ SameBut(t, t, t.mode_for_interrupt, t.compare)
           /\ \A m \in -1 .. 3, n \in 0 .. 3, c \in {None} \union Nat :
                  SameBut([t EXCEPT !.mode = n, !.mode_for_interrupt = m, !.compare = c], t, m, c)
           /\ \A m \in -1 .. 3, n \in 0 .. 3 :
                  SameBut([t EXCEPT !.mode = n, !.mode_for_interrupt = m], t, m, t.compare)
           /\ \A c \in {None} \union Nat :
                  SameBut([t EXCEPT !.compare = c], t, t.mode_for_interrupt, c)
           /\ \A m \in -1 .. 3 :
                  SameBut([t EXCEPT !.mode_for_interrupt = m], t, m, t.compare)
           /\ \A n \in 0 .. 3 :
                  SameBut([t EXCEPT !.mode = n], t, t.mode_for_interrupt, t.compare)
<1>1. SameBut(t, t, t.mode_for_interrupt, t.compare)
  BY DEF SameBut
<1>2. ASSUME NEW m \in -1 .. 3, NEW n \in 0 .. 3, NEW c \in {None} \union Nat
      PROVE  SameBut([t EXCEPT !.mode = n, !.mode_for_interrupt = m, !.compare = c], t, m, c)
  <2> DEFINE s == [t EXCEPT !.mode = n, !.mode_for_interrupt = m, !.compare = c]
  <2>1. /\ s \in Stats /\ s.mode_for_interrupt = m /\ s.compare = c
        /\ s.lyc = t.lyc /\ s.sources = t.sources /\ s.lyc_line = t.lyc_line
        /\ s.line = t.line /\ s.request = t.request
    BY DEF Stats
  <2> HIDE DEF s
  <2>2. SameBut(s, t, m, c)
    BY <2>1 DEF SameBut
  <2> QED BY <2>2 DEF s
<1>3. ASSUME NEW m \in -1 .. 3, NEW n \in 0 .. 3
      PROVE  SameBut([t EXCEPT !.mode = n, !.mode_for_interrupt = m], t, m, t.compare)
  <2> DEFINE s == [t EXCEPT !.mode = n, !.mode_for_interrupt = m]
  <2>1. /\ s \in Stats /\ s.mode_for_interrupt = m /\ s.compare = t.compare
        /\ s.lyc = t.lyc /\ s.sources = t.sources /\ s.lyc_line = t.lyc_line
        /\ s.line = t.line /\ s.request = t.request
    BY DEF Stats
  <2> HIDE DEF s
  <2>2. SameBut(s, t, m, t.compare)
    BY <2>1 DEF SameBut
  <2> QED BY <2>2 DEF s
<1>4. ASSUME NEW c \in {None} \union Nat
      PROVE  SameBut([t EXCEPT !.compare = c], t, t.mode_for_interrupt, c)
  <2> DEFINE s == [t EXCEPT !.compare = c]
  <2>1. /\ s \in Stats /\ s.mode_for_interrupt = t.mode_for_interrupt /\ s.compare = c
        /\ s.lyc = t.lyc /\ s.sources = t.sources /\ s.lyc_line = t.lyc_line
        /\ s.line = t.line /\ s.request = t.request
    BY DEF Stats
  <2> HIDE DEF s
  <2>2. SameBut(s, t, t.mode_for_interrupt, c)
    BY <2>1 DEF SameBut
  <2> QED BY <2>2 DEF s
<1>5. ASSUME NEW m \in -1 .. 3
      PROVE  SameBut([t EXCEPT !.mode_for_interrupt = m], t, m, t.compare)
  <2> DEFINE s == [t EXCEPT !.mode_for_interrupt = m]
  <2>1. /\ s \in Stats /\ s.mode_for_interrupt = m /\ s.compare = t.compare
        /\ s.lyc = t.lyc /\ s.sources = t.sources /\ s.lyc_line = t.lyc_line
        /\ s.line = t.line /\ s.request = t.request
    BY DEF Stats
  <2> HIDE DEF s
  <2>2. SameBut(s, t, m, t.compare)
    BY <2>1 DEF SameBut
  <2> QED BY <2>2 DEF s
<1>6. ASSUME NEW n \in 0 .. 3
      PROVE  SameBut([t EXCEPT !.mode = n], t, t.mode_for_interrupt, t.compare)
  <2> DEFINE s == [t EXCEPT !.mode = n]
  <2>1. /\ s \in Stats /\ s.mode_for_interrupt = t.mode_for_interrupt /\ s.compare = t.compare
        /\ s.lyc = t.lyc /\ s.sources = t.sources /\ s.lyc_line = t.lyc_line
        /\ s.line = t.line /\ s.request = t.request
    BY DEF Stats
  <2> HIDE DEF s
  <2>2. SameBut(s, t, t.mode_for_interrupt, t.compare)
    BY <2>1 DEF SameBut
  <2> QED BY <2>2 DEF s
<1> QED BY <1>1, <1>2, <1>3, <1>4, <1>5, <1>6

(* The values that the PPU writes are modes and lines. *)
LEMMA Literals ==
    /\ 0 \in 0 .. 3 /\ 2 \in 0 .. 3 /\ 3 \in 0 .. 3 /\ 1 \in 0 .. 3
    /\ 0 \in -1 .. 3 /\ 1 \in -1 .. 3 /\ 2 \in -1 .. 3 /\ 3 \in -1 .. 3 /\ None \in -1 .. 3
    /\ None \in {None} \union Nat /\ 0 \in {None} \union Nat
BY DEF None

-----------------------------------------------------------------------------
(* VBlank since the frontend's callback. *)
InVBlank ==
    \/ display_state \in LastPlaces \union {13}
    \/ display_state \in VBlankPlaces /\ current_line > LINES

(* stat as it is before line 0 begins, whatever the program has done. *)
Settled(s) ==
    /\ InVBlank => s.mode_for_interrupt = 1
    /\ display_state \in {29, 17} =>
           /\ s.compare = 0 /\ (s.lyc_line <=> s.lyc = 0)
           /\ s.line <=> High(1, s.sources, s.lyc_line)

(* stat between two steps: no request is left in it. *)
StatTyped == stat \in Stats /\ ~stat.request
StatInv == StatTyped /\ Settled(stat)

(* The level of the interrupt line rises. *)
Rises == stat'.line /\ ~stat.line

(* What the program chose and the level of its interrupt stay. *)
Kept ==
    /\ stat' \in Stats /\ ~stat'.request
    /\ stat'.compare = stat.compare /\ stat'.lyc = stat.lyc /\ stat'.sources = stat.sources
    /\ stat'.lyc_line = stat.lyc_line /\ stat'.line = stat.line

(* The types of what is in stat. *)
LEMMA Typical ==
    ASSUME StatTyped
    PROVE  /\ stat \in Stats /\ ~stat.request /\ stat.mode_for_interrupt \in -1 .. 3
           /\ stat.compare \in {None} \union Nat /\ stat.mode \in 0 .. 3 /\ stat.lyc \in Nat
BY DEF StatTyped, Stats

(* The updates of GB_display_run. *)
LEMMA UpdateNotes ==
    ASSUME StatTyped, on, current_line \in Nat
    PROVE  /\ FirstLine => Noted(None, 0) /\ Requested(Rises)
           /\ FirstOam => Noted(stat.mode_for_interrupt, stat.compare) /\ Requested(Rises)
           /\ LineStep7 /\ current_line # 0 => Noted(2, None) /\ Requested(Rises)
           /\ LineStep7 /\ current_line = 0 =>
                  Noted(stat.mode_for_interrupt, 0) /\ Requested(Rises)
           /\ Mode3 => Noted(3, stat.compare) /\ Requested(Rises)
           /\ HBlankInterrupt => Noted(0, stat.compare) /\ Requested(Rises)
           /\ VBlankLine \/ LastLine => Noted(stat.mode_for_interrupt, None) /\ Requested(Rises)
           /\ VBlankCompare => Noted(stat.mode_for_interrupt, current_line) /\ Requested(Rises)
<1> USE DEF Rises
<1>1. /\ stat \in Stats /\ ~stat.request /\ stat.mode_for_interrupt \in -1 .. 3
      /\ stat.compare \in {None} \union Nat /\ current_line \in {None} \union Nat
  BY Typical
<1>2. ASSUME FirstLine PROVE Noted(None, 0) /\ Requested(Rises)
  <2> DEFINE s == [stat EXCEPT !.mode = 0, !.mode_for_interrupt = None, !.compare = 0]
  <2>1. SameBut(s, stat, None, 0)
    BY <1>1, Literals, Forms, Zenon
  <2>2. Update(GB_STAT_update(s))
    BY <1>2 DEF FirstLine
  <2> HIDE DEF s
  <2> QED BY <2>1, <2>2, <1>1, NotedIs DEF Requested, SameBut
<1>3. ASSUME FirstOam PROVE Noted(stat.mode_for_interrupt, stat.compare) /\ Requested(Rises)
  <2> DEFINE s == stat
  <2>1. SameBut(s, stat, stat.mode_for_interrupt, stat.compare)
    BY <1>1, Literals, Forms, Zenon
  <2>2. Update(GB_STAT_update(s))
    BY <1>3 DEF FirstOam
  <2> HIDE DEF s
  <2> QED BY <2>1, <2>2, <1>1, NotedIs DEF Requested, SameBut
<1>4. ASSUME Mode3 PROVE Noted(3, stat.compare) /\ Requested(Rises)
  <2> DEFINE s == [stat EXCEPT !.mode = 3, !.mode_for_interrupt = 3]
  <2>1. SameBut(s, stat, 3, stat.compare)
    BY <1>1, Literals, Forms, Zenon
  <2>2. Update(GB_STAT_update(s))
    BY <1>4 DEF Mode3
  <2> HIDE DEF s
  <2> QED BY <2>1, <2>2, <1>1, NotedIs DEF Requested, SameBut
<1>5. ASSUME HBlankInterrupt PROVE Noted(0, stat.compare) /\ Requested(Rises)
  <2> DEFINE s == [stat EXCEPT !.mode = 0, !.mode_for_interrupt = 0]
  <2>1. SameBut(s, stat, 0, stat.compare)
    BY <1>1, Literals, Forms, Zenon
  <2>2. Update(GB_STAT_update(s))
    BY <1>5 DEF HBlankInterrupt
  <2> HIDE DEF s
  <2> QED BY <2>1, <2>2, <1>1, NotedIs DEF Requested, SameBut
<1>6. ASSUME VBlankLine \/ LastLine PROVE Noted(stat.mode_for_interrupt, None) /\ Requested(Rises)
  <2> DEFINE s == [stat EXCEPT !.compare = None]
  <2>1. SameBut(s, stat, stat.mode_for_interrupt, None)
    BY <1>1, Literals, Forms, Zenon
  <2>2. Update(GB_STAT_update(s))
    BY <1>6 DEF VBlankLine, LastLine
  <2> HIDE DEF s
  <2> QED BY <2>1, <2>2, <1>1, NotedIs DEF Requested, SameBut
<1>7. ASSUME VBlankCompare PROVE Noted(stat.mode_for_interrupt, current_line) /\ Requested(Rises)
  <2> DEFINE s == [stat EXCEPT !.compare = current_line]
  <2>1. SameBut(s, stat, stat.mode_for_interrupt, current_line)
    BY <1>1, Literals, Forms, Zenon
  <2>2. Update(GB_STAT_update(s))
    BY <1>7 DEF VBlankCompare
  <2> HIDE DEF s
  <2> QED BY <2>1, <2>2, <1>1, NotedIs DEF Requested, SameBut
<1> DEFINE compared == [stat EXCEPT !.compare = IF current_line # 0 THEN None ELSE 0]
<1>8. ASSUME LineStep7, current_line # 0 PROVE Noted(2, None) /\ Requested(Rises)
  <2> DEFINE c == [stat EXCEPT !.compare = None]
             s == [c EXCEPT !.mode = 0, !.mode_for_interrupt = 2]
  <2>1. SameBut(c, stat, stat.mode_for_interrupt, None)
    BY <1>1, Literals, Forms, Zenon
  <2>2. Update(GB_STAT_update(s))
    BY <1>8 DEF LineStep7
  <2> HIDE DEF c
  <2>3. c \in Stats /\ c.compare = None
    BY <2>1 DEF SameBut
  <2>4. SameBut(s, c, 2, c.compare)
    BY <2>3, Literals, Forms, Zenon
  <2> HIDE DEF s
  <2>5. SameBut(s, stat, 2, None)
    BY <2>1, <2>3, <2>4 DEF SameBut
  <2> QED BY <2>2, <2>5, <1>1, NotedIs DEF Requested, SameBut
<1>9. ASSUME LineStep7, current_line = 0
      PROVE  Noted(stat.mode_for_interrupt, 0) /\ Requested(Rises)
  <2> DEFINE c == [stat EXCEPT !.compare = 0]
             s == IF ~model.cgb THEN [c EXCEPT !.mode = 0] ELSE c
  <2>1. SameBut(c, stat, stat.mode_for_interrupt, 0)
    BY <1>1, Literals, Forms, Zenon
  <2>2. Update(GB_STAT_update(s))
    BY <1>9 DEF LineStep7
  <2> HIDE DEF c
  <2>3. c \in Stats /\ c.compare = 0 /\ c.mode_for_interrupt = stat.mode_for_interrupt
    BY <2>1 DEF SameBut
  <2>4. SameBut(c, c, c.mode_for_interrupt, c.compare)
        /\ SameBut([c EXCEPT !.mode = 0], c, c.mode_for_interrupt, c.compare)
    BY <2>3, Literals, Forms, Zenon
  <2>5. SameBut(s, c, c.mode_for_interrupt, c.compare)
    BY <2>4, Zenon
  <2> HIDE DEF s
  <2>6. SameBut(s, stat, stat.mode_for_interrupt, 0)
    BY <2>1, <2>3, <2>5 DEF SameBut
  <2> QED BY <2>2, <2>6, <1>1, NotedIs DEF Requested, SameBut
<1> QED BY <1>2, <1>3, <1>4, <1>5, <1>6, <1>7, <1>8, <1>9

(* In mode 2 the OAM source is high for a moment. *)
LEMMA Mode2Notes ==
    ASSUME StatTyped, on, current_line \in Nat, Mode2
    PROVE  /\ Noted(None, current_line)
           /\ Requested(High(2, stat.sources, stat'.lyc_line) /\ ~stat.line)
<1> DEFINE s == [stat EXCEPT !.mode = 2, !.mode_for_interrupt = 2, !.compare = current_line]
           high == GB_STAT_update(s)
           t == [high EXCEPT !.mode_for_interrupt = None]
<1>0. stat \in Stats /\ ~stat.request /\ current_line \in {None} \union Nat /\ current_line # None
  BY Typical DEF None
<1>1. SameBut(s, stat, 2, current_line)
  BY <1>0, Literals, Forms, Zenon
<1>2. Update(GB_STAT_update(t))
  BY DEF Mode2
<1> HIDE DEF s
<1>3. Updated(s, high)
  BY <1>1, UpdateIs DEF SameBut
<1> HIDE DEF high
<1>4. SameBut(t, high, None, high.compare)
  <2>1. high \in Stats
    BY <1>3 DEF Updated
  <2> QED BY <2>1, Literals, Forms, Zenon
<1> DEFINE u == GB_STAT_update(t)
<1> HIDE DEF t
<1>5. Updated(t, u)
  BY <1>4, UpdateIs DEF SameBut
<1>6. Update(u)
  BY <1>2
<1> HIDE DEF u
<1>7. u \in Stats
  BY <1>5 DEF Updated
<1>8. /\ stat' \in Stats /\ ~stat'.request
      /\ stat'.mode_for_interrupt = u.mode_for_interrupt /\ stat'.compare = u.compare
      /\ stat'.lyc = u.lyc /\ stat'.sources = u.sources /\ stat'.line = u.line
      /\ stat'.lyc_line = u.lyc_line
      /\ Requested(u.request)
  BY <1>6, <1>7, NotesOf
<1>10. high.lyc_line <=> current_line = stat.lyc
  BY <1>0, <1>1, <1>3 DEF SameBut, Updated
<1>11. u.lyc_line <=> current_line = stat.lyc
  BY <1>0, <1>1, <1>3, <1>4, <1>5 DEF SameBut, Updated
<1>12. Noted(None, current_line)
  BY <1>0, <1>1, <1>3, <1>4, <1>5, <1>8, <1>11 DEF SameBut, Updated, Noted
<1>13. high.line <=> High(2, stat.sources, stat'.lyc_line)
  BY <1>1, <1>3, <1>8, <1>10, <1>11 DEF SameBut, Updated, High
<1>14. u.line => high.line
  BY <1>1, <1>3, <1>4, <1>5, <1>10, <1>11 DEF SameBut, Updated, High, None
<1>15. u.request <=> high.line /\ ~stat.line
  BY <1>0, <1>1, <1>3, <1>4, <1>5, <1>14 DEF SameBut, Updated
<1> QED BY <1>8, <1>12, <1>13, <1>15 DEF Requested

(* What the steps of VBlank do to stat and the requests: the OAM source   *)
(* once more in line LINES.                                               *)
LEMMA VBlankNotes ==
    ASSUME StatTyped, on
    PROVE  /\ VBlankLy =>
                  /\ Kept /\ stat'.mode_for_interrupt = stat.mode_for_interrupt
                  /\ Requested(current_line = LINES /\ ~stat.line /\ "oam" \in stat.sources)
           /\ VBlankRest /\ current_line = LINES =>
                  /\ Noted(1, stat.compare)
                  /\ Requested((~stat.line /\ "oam" \in stat.sources) \/ Rises)
           /\ VBlankRest /\ current_line # LINES => UNCHANGED <<stat, requests>>
<1>1. stat \in Stats /\ ~stat.request
  BY Typical
<1>2. ASSUME NEW yes \in BOOLEAN
      PROVE  /\ [stat EXCEPT !.request = yes] \in Stats
             /\ [stat EXCEPT !.request = yes].mode_for_interrupt = stat.mode_for_interrupt
             /\ [stat EXCEPT !.request = yes].compare = stat.compare
             /\ [stat EXCEPT !.request = yes].lyc = stat.lyc
             /\ [stat EXCEPT !.request = yes].sources = stat.sources
             /\ [stat EXCEPT !.request = yes].lyc_line = stat.lyc_line
             /\ [stat EXCEPT !.request = yes].line = stat.line
             /\ [stat EXCEPT !.request = yes].request = yes
  BY <1>1 DEF Stats
<1>3. ASSUME VBlankLy
      PROVE  /\ Kept /\ stat'.mode_for_interrupt = stat.mode_for_interrupt
             /\ Requested(current_line = LINES /\ ~stat.line /\ "oam" \in stat.sources)
  <2> DEFINE wanted == current_line = LINES /\ ~stat.line /\ "oam" \in stat.sources
             u == IF wanted THEN [stat EXCEPT !.request = TRUE] ELSE stat
  <2>1. Update(u)
    BY <1>3 DEF VBlankLy
  <2>2. TRUE \in BOOLEAN
    OBVIOUS
  <2>3. CASE wanted
    <3> DEFINE v == [stat EXCEPT !.request = TRUE]
    <3>1. Update(v)
      BY <2>1, <2>3
    <3>2. /\ v \in Stats /\ v.mode_for_interrupt = stat.mode_for_interrupt /\ v.compare = stat.compare
          /\ v.lyc = stat.lyc /\ v.sources = stat.sources /\ v.lyc_line = stat.lyc_line
          /\ v.line = stat.line /\ v.request
      BY <1>2, <2>2, Zenon
    <3> HIDE DEF v
    <3> QED BY <2>3, <3>1, <3>2, NotesOf DEF Kept, Requested
  <2>4. CASE ~wanted
    <3>1. Update(stat)
      BY <2>1, <2>4
    <3> QED BY <1>1, <2>4, <3>1, NotesOf DEF Kept, Requested
  <2> QED BY <2>3, <2>4
<1>4. ASSUME VBlankRest, current_line = LINES
      PROVE  /\ Noted(1, stat.compare)
             /\ Requested((~stat.line /\ "oam" \in stat.sources) \/ Rises)
  <2> DEFINE wanted == ~stat.line /\ "oam" \in stat.sources
             oam == [stat EXCEPT !.request = wanted]
             s == [oam EXCEPT !.mode = 1, !.mode_for_interrupt = 1]
  <2>1. Update(GB_STAT_update(s))
    BY <1>4 DEF VBlankRest
  <2>2. wanted \in BOOLEAN
    OBVIOUS
  <2> HIDE DEF wanted
  <2>3. /\ oam \in Stats /\ oam.compare = stat.compare /\ oam.lyc = stat.lyc /\ oam.sources = stat.sources
        /\ oam.lyc_line = stat.lyc_line /\ oam.line = stat.line /\ oam.request = wanted
    BY <1>2, <2>2, Zenon
  <2> HIDE DEF oam
  <2>4. SameBut(s, oam, 1, oam.compare)
    BY <2>3, Literals, Forms, Zenon
  <2> HIDE DEF s
  <2>5. Noted(1, oam.compare) /\ Requested(s.request \/ Rises)
    BY <2>1, <2>3, <2>4, NotedIs DEF Rises
  <2>6. s.request = wanted
    BY <2>3, <2>4 DEF SameBut
  <2>7. Noted(1, stat.compare)
    BY <2>3, <2>5
  <2>8. Requested(wanted \/ Rises)
    BY <2>5, <2>6 DEF Requested
  <2> QED BY <2>7, <2>8 DEF wanted
<1>5. ASSUME VBlankRest, current_line # LINES PROVE UNCHANGED <<stat, requests>>
  BY <1>5 DEF VBlankRest
<1> QED BY <1>3, <1>4, <1>5

(* LY is compared with 0, or with the last line's number, or with nothing. *)
LEMMA LastLineNotes ==
    ASSUME StatTyped, on, NEW from, NEW to, NEW cycles, NEW y, NEW compare \in {None} \union Nat,
           LastLineStep(from, to, cycles, y, compare)
    PROVE  /\ from \in {19, 29} /\ compare = stat.compare =>
                  Kept /\ stat'.mode_for_interrupt = stat.mode_for_interrupt /\ Requested(FALSE)
           /\ from \notin {19, 29} =>
                  Noted(stat.mode_for_interrupt, compare) /\ Requested(Rises)
<1>1. stat \in Stats /\ ~stat.request
  BY Typical
<1>2. ASSUME from \in {19, 29}, compare = stat.compare
      PROVE  Kept /\ stat'.mode_for_interrupt = stat.mode_for_interrupt /\ Requested(FALSE)
  <2>1. Update(stat)
    BY <1>2 DEF LastLineStep
  <2> QED BY <1>1, <2>1, NotesOf DEF Kept, Requested
<1>3. ASSUME from \notin {19, 29}
      PROVE  Noted(stat.mode_for_interrupt, compare) /\ Requested(Rises)
  <2> DEFINE s == [stat EXCEPT !.compare = compare]
  <2>1. SameBut(s, stat, stat.mode_for_interrupt, compare)
    BY <1>1, Forms, Zenon
  <2>2. Update(GB_STAT_update(s))
    BY <1>3 DEF LastLineStep
  <2> HIDE DEF s
  <2> QED BY <1>1, <2>1, <2>2, NotedIs DEF Requested, SameBut, Rises
<1> QED BY <1>2, <1>3

(* What changes without an update. *)
LEMMA QuietNotes ==
    ASSUME StatTyped
    PROVE  /\ FirstMode3 => Kept /\ stat'.mode_for_interrupt = 3 /\ Requested(FALSE)
           /\ HBlank => /\ Kept /\ Requested(FALSE)
                        /\ stat'.mode_for_interrupt =
                              IF model.double THEN stat.mode_for_interrupt ELSE 0
           /\ LineBegins => /\ Kept
                            /\ requests' = IF display_state = 17 THEN <<>> ELSE requests
                            /\ stat'.mode_for_interrupt =
                                  IF display_state = 17 THEN stat.mode_for_interrupt ELSE 2
<1>1. stat \in Stats /\ ~stat.request
  BY Typical
<1>2. \A s : (\E m : SameBut(s, stat, m, stat.compare)) /\ stat' = s => Kept
  BY <1>1 DEF SameBut, Kept
<1>3. ASSUME FirstMode3 PROVE Kept /\ stat'.mode_for_interrupt = 3 /\ Requested(FALSE)
  <2> DEFINE s == [stat EXCEPT !.mode = 3, !.mode_for_interrupt = 3]
  <2>1. SameBut(s, stat, 3, stat.compare)
    BY <1>1, Literals, Forms, Zenon
  <2>2. stat' = s /\ requests' = requests
    BY <1>3 DEF FirstMode3
  <2> HIDE DEF s
  <2> QED BY <1>1, <2>1, <2>2 DEF Kept, SameBut, Requested
<1>4. ASSUME HBlank
      PROVE  /\ Kept /\ Requested(FALSE)
             /\ stat'.mode_for_interrupt = IF model.double THEN stat.mode_for_interrupt ELSE 0
  <2>1. requests' = requests
    BY <1>4 DEF HBlank
  <2>2. CASE model.double
    <3>1. stat' = stat
      BY <1>4, <2>2 DEF HBlank
    <3> QED BY <1>1, <2>1, <2>2, <3>1 DEF Kept, Requested
  <2>3. CASE ~model.double
    <3> DEFINE s == [stat EXCEPT !.mode = 0, !.mode_for_interrupt = 0]
    <3>1. SameBut(s, stat, 0, stat.compare)
      BY <1>1, Literals, Forms, Zenon
    <3>2. stat' = s
      BY <1>4, <2>3 DEF HBlank
    <3> HIDE DEF s
    <3> QED BY <1>1, <2>1, <2>3, <3>1, <3>2 DEF Kept, SameBut, Requested
  <2> QED BY <2>2, <2>3
<1>5. ASSUME LineBegins
      PROVE  /\ Kept /\ requests' = IF display_state = 17 THEN <<>> ELSE requests
             /\ stat'.mode_for_interrupt = IF display_state = 17 THEN stat.mode_for_interrupt ELSE 2
  <2>1. requests' = (IF display_state = 17 THEN <<>> ELSE requests)
    BY <1>5 DEF LineBegins
  <2>2. CASE display_state = 17
    <3>1. stat' = stat
      BY <1>5, <2>2 DEF LineBegins
    <3> QED BY <1>1, <2>1, <2>2, <3>1 DEF Kept
  <2>3. CASE display_state # 17
    <3> DEFINE s == [stat EXCEPT !.mode_for_interrupt = 2]
    <3>1. SameBut(s, stat, 2, stat.compare)
      BY <1>1, Literals, Forms, Zenon
    <3>2. display_state = 31 /\ current_line + 1 < LINES
      BY <1>5, <2>3 DEF LineBegins
    <3>3. current_line # LINES - 1
      BY <3>2, PpuAssumption
    <3>4. stat' = s
      BY <1>5, <2>3, <3>2, <3>3 DEF LineBegins
    <3> HIDE DEF s
    <3> QED BY <1>1, <2>1, <2>3, <3>1, <3>4 DEF Kept, SameBut
  <2> QED BY <2>2, <2>3
<1> QED BY <1>3, <1>4, <1>5

(* What a write to a register makes of stat before its update. *)
LEMMA WrittenForms ==
    ASSUME NEW t \in Stats
    PROVE  /\ \A n \in 0 .. 3 : SameBut([t EXCEPT !.mode = n], t, t.mode_for_interrupt, t.compare)
           /\ \A x \in SUBSET Sources :
                  LET s == [t EXCEPT !.sources = x] IN
                  /\ s \in Stats /\ s.mode_for_interrupt = t.mode_for_interrupt /\ s.compare = t.compare
                  /\ s.lyc = t.lyc /\ s.sources = x /\ s.lyc_line = t.lyc_line /\ s.line = t.line
           /\ \A x \in Nat :
                  LET s == [t EXCEPT !.lyc = x] IN
                  /\ s \in Stats /\ s.mode_for_interrupt = t.mode_for_interrupt /\ s.compare = t.compare
                  /\ s.lyc = x /\ s.sources = t.sources /\ s.lyc_line = t.lyc_line /\ s.line = t.line
           /\ LET s == [t EXCEPT !.request = FALSE] IN
                  /\ s \in Stats /\ s.mode_for_interrupt = t.mode_for_interrupt /\ s.compare = t.compare
                  /\ s.lyc = t.lyc /\ s.sources = t.sources /\ s.lyc_line = t.lyc_line
                  /\ s.line = t.line /\ ~s.request
<1>1. \A n \in 0 .. 3 : SameBut([t EXCEPT !.mode = n], t, t.mode_for_interrupt, t.compare)
  BY Forms
<1>2. ASSUME NEW x \in SUBSET Sources
      PROVE  LET s == [t EXCEPT !.sources = x] IN
             /\ s \in Stats /\ s.mode_for_interrupt = t.mode_for_interrupt /\ s.compare = t.compare
             /\ s.lyc = t.lyc /\ s.sources = x /\ s.lyc_line = t.lyc_line /\ s.line = t.line
  BY DEF Stats
<1>3. ASSUME NEW x \in Nat
      PROVE  LET s == [t EXCEPT !.lyc = x] IN
             /\ s \in Stats /\ s.mode_for_interrupt = t.mode_for_interrupt /\ s.compare = t.compare
             /\ s.lyc = x /\ s.sources = t.sources /\ s.lyc_line = t.lyc_line /\ s.line = t.line
  BY DEF Stats
<1>4. LET s == [t EXCEPT !.request = FALSE] IN
             /\ s \in Stats /\ s.mode_for_interrupt = t.mode_for_interrupt /\ s.compare = t.compare
             /\ s.lyc = t.lyc /\ s.sources = t.sources /\ s.lyc_line = t.lyc_line
             /\ s.line = t.line /\ ~s.request
  BY DEF Stats
<1> QED BY <1>1, <1>2, <1>3, <1>4

(* What the program writes is seen at once, or by the PPU's next update. *)
LEMMA UpdateSettles ==
    ASSUME NEW s \in Stats, SinceInv, InVBlank => s.mode_for_interrupt = 1,
           display_state \in {29, 17} => s.compare = 0
    PROVE  GB_STAT_update(s) \in Stats /\ Settled(GB_STAT_update(s))
           /\ GB_STAT_update(s).mode_for_interrupt = s.mode_for_interrupt
           /\ GB_STAT_update(s).compare = s.compare
<1>1. CASE on
  <2> DEFINE u == GB_STAT_update(s)
  <2>1. Updated(s, u)
    BY <1>1, UpdateIs
  <2> HIDE DEF u
  <2>2. u \in Stats /\ Settled(u) /\ u.mode_for_interrupt = s.mode_for_interrupt /\ u.compare = s.compare
    <3>1. display_state \in {29, 17} => InVBlank
      BY DEF InVBlank, LastPlaces
    <3>2. u \in Stats /\ u.mode_for_interrupt = s.mode_for_interrupt /\ u.compare = s.compare
      BY <2>1 DEF Updated
    <3>3. ASSUME display_state \in {29, 17}
          PROVE  (u.lyc_line <=> u.lyc = 0) /\ (u.line <=> High(1, u.sources, u.lyc_line))
      BY <2>1, <3>1, <3>3 DEF Updated, None
    <3> QED BY <3>2, <3>3 DEF Settled
  <2> QED BY <2>2 DEF u
<1>2. CASE ~on
  <2>1. GB_STAT_update(s) = s
    BY <1>2 DEF GB_STAT_update
  <2>2. display_state \in {0, 1}
    BY <1>2 DEF SinceInv
  <2> QED BY <2>1, <2>2 DEF Settled, InVBlank, LastPlaces, VBlankPlaces
<1> QED BY <1>1, <1>2

(* A value that the program has left in stat. *)
LEMMA LeftBehind ==
    ASSUME NEW u \in Stats, Settled(u), stat' = [u EXCEPT !.request = FALSE],
           display_state' = display_state, current_line' = current_line
    PROVE  StatInv'
<1> DEFINE s == [u EXCEPT !.request = FALSE]
<1>1. /\ s \in Stats /\ s.mode_for_interrupt = u.mode_for_interrupt /\ s.compare = u.compare
      /\ s.lyc = u.lyc /\ s.sources = u.sources /\ s.lyc_line = u.lyc_line
      /\ s.line = u.line /\ ~s.request
  BY WrittenForms
<1> HIDE DEF s
<1>2. Settled(s)
  BY <1>1 DEF Settled
<1>3. stat' = s
  BY DEF s
<1>4. InVBlank' = InVBlank
  BY DEF InVBlank
<1> QED BY <1>1, <1>2, <1>3, <1>4 DEF StatInv, StatTyped, Settled

(* A program leaves stat settled, and no longer lets the frame count as   *)
(* steady.                                                                *)
LEMMA ProgramSettles ==
    ASSUME StatInv, SinceInv, Program
    PROVE  StatInv' /\ ~steady'
<1>1. stat \in Stats /\ ~stat.request /\ Settled(stat)
  BY DEF StatInv, StatTyped
<1>2. ASSUME NEW sources \in SourceSets, NEW atOnce \in BOOLEAN, WriteSTAT(sources, atOnce)
      PROVE  StatInv'
  <2> DEFINE s == [stat EXCEPT !.sources = sources]
             oam == atOnce /\ model.double /\ display_state = 8 /\ "oam" \in sources
             t == [s EXCEPT !.mode_for_interrupt = 2]
             high == GB_STAT_update(t)
             written == IF oam THEN [high EXCEPT !.mode_for_interrupt = None]
                        ELSE GB_STAT_update(s)
  <2>1. stat' = [written EXCEPT !.request = FALSE] /\ display_state' = display_state
        /\ current_line' = current_line
    BY <1>2 DEF WriteSTAT, pace
  <2>2. s \in Stats /\ s.mode_for_interrupt = stat.mode_for_interrupt /\ s.compare = stat.compare
    BY <1>1, WrittenForms, PpuAssumption
  <2> HIDE DEF s
  <2>3. CASE ~oam
    <3>1. GB_STAT_update(s) \in Stats /\ Settled(GB_STAT_update(s))
      BY <1>1, <2>2, UpdateSettles DEF Settled
    <3> QED BY <2>1, <2>3, <3>1, LeftBehind
  <2>4. CASE oam
    <3>1. SameBut(t, s, 2, s.compare)
      BY <2>2, Literals, Forms, Zenon
    <3> HIDE DEF t
    <3>2. ~InVBlank /\ display_state = 8
      BY <2>4 DEF InVBlank, LastPlaces, VBlankPlaces
    <3>3. high \in Stats
      BY <3>1, <3>2, UpdateSettles DEF SameBut
    <3> HIDE DEF high
    <3> DEFINE v == [high EXCEPT !.mode_for_interrupt = None]
    <3>4. SameBut(v, high, None, high.compare)
      BY <3>3, Literals, Forms, Zenon
    <3>5. stat' = [v EXCEPT !.request = FALSE]
      BY <2>1, <2>4
    <3> HIDE DEF v
    <3>6. v \in Stats /\ Settled(v)
      BY <3>2, <3>4 DEF SameBut, Settled
    <3> QED BY <2>1, <3>5, <3>6, LeftBehind
  <2> QED BY <2>3, <2>4
<1>3. ASSUME NEW value \in LYCs, WriteLYC(value)
      PROVE  StatInv'
  <2> DEFINE last == VIRTUAL_LINES - 1
             again == display_state = 29 /\ model.cgb
             first == [stat EXCEPT !.compare = last]
             seen == GB_STAT_update(first)
             back == [seen EXCEPT !.compare = 0]
             before == IF again THEN back ELSE stat
             new == [before EXCEPT !.lyc = value]
             third == [new EXCEPT !.compare = last]
             later == GB_STAT_update(third)
             none == [later EXCEPT !.compare = None]
  <2>1. /\ stat' = [LycWritten(stat, value) EXCEPT !.request = FALSE]
        /\ display_state' = display_state /\ current_line' = current_line
    BY <1>3 DEF WriteLYC, pace
  <2>2. \/ model.cgb /\ display_state \in {35, 26, 15, 16} /\ LycWritten(stat, value) = new
        \/ model.cgb /\ display_state = 14 /\ LycWritten(stat, value) = none
        \/ LycWritten(stat, value) = GB_STAT_update(new)
    BY DEF LycWritten
  <2>3. last \in {None} \union Nat /\ value \in Nat
    BY PpuAssumption
  <2>4. SameBut(first, stat, stat.mode_for_interrupt, last)
    BY <1>1, <2>3, Forms, Zenon
  <2>5. before \in Stats /\ before.mode_for_interrupt = stat.mode_for_interrupt
        /\ before.compare = stat.compare
    <3>1. CASE again
      <4> HIDE DEF first
      <4>1. seen \in Stats /\ seen.mode_for_interrupt = stat.mode_for_interrupt
        <5>1. on
          BY <3>1 DEF SinceInv
        <5> QED BY <2>4, <5>1, UpdateIs DEF SameBut, Updated
      <4> HIDE DEF seen
      <4>2. SameBut(back, seen, seen.mode_for_interrupt, 0)
        BY <4>1, Literals, Forms, Zenon
      <4>3. stat.compare = 0
        BY <1>1, <3>1 DEF Settled
      <4> HIDE DEF back
      <4> QED BY <3>1, <4>1, <4>2, <4>3 DEF SameBut
    <3>2. CASE ~again
      BY <1>1, <3>2
    <3> QED BY <3>1, <3>2
  <2> HIDE DEF before
  <2>6. new \in Stats /\ new.mode_for_interrupt = stat.mode_for_interrupt
        /\ new.compare = stat.compare
    BY <2>3, <2>5, WrittenForms
  <2> HIDE DEF new
  <2>7. CASE model.cgb /\ display_state \in {35, 26, 15, 16} /\ LycWritten(stat, value) = new
    <3>1. Settled(new)
      BY <1>1, <2>6, <2>7 DEF Settled
    <3> QED BY <2>1, <2>6, <2>7, <3>1, LeftBehind
  <2>8. CASE model.cgb /\ display_state = 14 /\ LycWritten(stat, value) = none
    <3>1. SameBut(third, new, new.mode_for_interrupt, last)
      BY <2>3, <2>6, Forms, Zenon
    <3> HIDE DEF third
    <3>2. later \in Stats /\ later.mode_for_interrupt = stat.mode_for_interrupt
      <4>1. on
        BY <2>8 DEF SinceInv
      <4> QED BY <2>6, <3>1, <4>1, UpdateIs DEF SameBut, Updated
    <3> HIDE DEF later
    <3>3. SameBut(none, later, later.mode_for_interrupt, None)
      BY <3>2, Literals, Forms, Zenon
    <3> HIDE DEF none
    <3>4. none \in Stats /\ Settled(none)
      BY <1>1, <2>8, <3>2, <3>3 DEF Settled, SameBut
    <3> QED BY <2>1, <2>8, <3>4, LeftBehind
  <2>9. CASE LycWritten(stat, value) = GB_STAT_update(new)
    <3>1. GB_STAT_update(new) \in Stats /\ Settled(GB_STAT_update(new))
      BY <1>1, <2>6, UpdateSettles DEF Settled
    <3> QED BY <2>1, <2>9, <3>1, LeftBehind
  <2> QED BY <2>2, <2>7, <2>8, <2>9
<1>4. ASSUME NEW passed, TurnOff(passed) \/ TurnOn(passed)
      PROVE  StatInv'
  <2>1. stat' = stat \/ stat' = [stat EXCEPT !.mode = 0, !.compare = 0]
    BY <1>4 DEF TurnOff, TurnOn
  <2>2. display_state' = 0
    BY <1>4 DEF TurnOff, TurnOn
  <2>3. stat' \in Stats /\ ~stat'.request
    <3>1. ASSUME NEW n \in 0 .. 3, NEW c \in {None} \union Nat
          PROVE  [stat EXCEPT !.mode = n, !.compare = c] \in Stats
                 /\ ~[stat EXCEPT !.mode = n, !.compare = c].request
      BY <1>1 DEF Stats
    <3>2. [stat EXCEPT !.mode = 0, !.compare = 0] \in Stats
          /\ ~[stat EXCEPT !.mode = 0, !.compare = 0].request
      BY <3>1, Literals, Zenon
    <3> QED BY <1>1, <2>1, <3>2
  <2> QED BY <2>2, <2>3 DEF StatInv, StatTyped, Settled, InVBlank, LastPlaces, VBlankPlaces
<1>5. ASSUME Dma PROVE StatInv'
  <2> DEFINE t == [stat EXCEPT !.mode = IF @ \in {0, 1} THEN @ + 2 ELSE @]
             s == IF dma_active /\ display_state \in {8, 108} THEN GB_STAT_update(t)
                  ELSE IF dma_active THEN stat ELSE GB_STAT_update(stat)
  <2>1. stat' = [s EXCEPT !.request = FALSE] /\ display_state' = display_state
        /\ current_line' = current_line
    BY <1>5 DEF Dma, pace
  <2>2. GB_STAT_update(stat) \in Stats /\ Settled(GB_STAT_update(stat))
    BY <1>1, UpdateSettles DEF Settled
  <2>3. display_state \in {8, 108} => GB_STAT_update(t) \in Stats /\ Settled(GB_STAT_update(t))
    <3> DEFINE n == IF stat.mode \in {0, 1} THEN stat.mode + 2 ELSE stat.mode
    <3>1. n \in 0 .. 3
      BY <1>1 DEF Stats
    <3> HIDE DEF n
    <3>2. SameBut([stat EXCEPT !.mode = n], stat, stat.mode_for_interrupt, stat.compare)
      BY <1>1, <3>1, Forms, Zenon
    <3>3. t = [stat EXCEPT !.mode = n]
      BY DEF n
    <3> HIDE DEF t
    <3>4. t \in Stats /\ t.mode_for_interrupt = stat.mode_for_interrupt
      BY <3>2, <3>3 DEF SameBut
    <3> QED BY <1>1, <3>4, UpdateSettles DEF Settled
  <2>4. s \in Stats /\ Settled(s)
    BY <1>1, <2>2, <2>3
  <2> HIDE DEF s
  <2> QED BY <2>1, <2>4, LeftBehind
<1>6. ~steady'
  BY DEF Program, WriteSTAT, WriteLYC, TurnOff, TurnOn, Dma, Changes
<1> QED BY <1>2, <1>3, <1>4, <1>5, <1>6 DEF Program

-----------------------------------------------------------------------------
(* The mode that the PPU's next update sees, the one that its last update   *)
(* saw, and the line that LYC was last compared with, as long as no        *)
(* register changes.                                                       *)
ModeNow ==
    IF InVBlank THEN 1
    ELSE IF display_state \in {35, 6, 7} THEN IF current_line = 0 THEN 1 ELSE 2
    ELSE IF display_state \in {8, 108} THEN None
    ELSE IF display_state \in {10, 32} \union Drawing3 \/ (display_state = 22 /\ model.double) THEN 3
    ELSE 0

(* The mode that the level was last updated with, *)
LevelMode ==
    IF display_state \in {35, 6} THEN IF current_line = 0 THEN 1 ELSE 0
    ELSE IF display_state = 22 THEN 3
    ELSE ModeNow

(* the line LYC was last compared with, *)
Compared ==
    IF display_state \in {29, 17} THEN 0
    ELSE IF display_state \in {35, 6, 7} /\ current_line = 0 THEN 0
    ELSE IF display_state \in {35, 6, 7, 26, 12, 19, 14} THEN current_line - 1
    ELSE current_line

(* and stat as they make it. *)
SteadyStat ==
    /\ on /\ display_state \notin FirstPlaces
    /\ stat.mode_for_interrupt = ModeNow
    /\ stat.lyc_line <=> stat.lyc = Compared
    /\ stat.line <=> High(LevelMode, stat.sources, stat.lyc_line)
    /\ display_state \in {8, 108, 10, 32, 22, 24} \union Drawing3 =>
           stat.compare = current_line /\ ly = current_line
    /\ display_state \in {7, 12, 14} => ly = current_line
SteadyInv == steady => SteadyStat

(* How many HBlanks and OAM searches have begun in this frame; VBlank      *)
(* begins with a last search.                                              *)
HBlanks ==
    IF display_state \in VBlankPlaces \union LastPlaces THEN LINES
    ELSE IF display_state \in {33, 36, 11, 31} THEN current_line + 1 ELSE current_line

(* of those whose search for objects has been reached, *)
Searches ==
    IF display_state \in VBlankPlaces \union LastPlaces
    THEN IF display_state = 26 /\ current_line = LINES THEN LINES ELSE LINES + 1
    ELSE IF display_state \in {35, 6} \/ (display_state = 7 /\ current_line = 0) THEN current_line
    ELSE current_line + 1

(* and of the VBlanks. *)
VBlanks == IF InVBlank THEN 1 ELSE 0

(* The requests of the modes, for so many HBlanks, searches and VBlanks:  *)
(* what blocks what is here, as in Interrupted, but for the part of a     *)
(* frame.                                                                 *)
ByModes(sources, hblanks, searches, vblanks) ==
    LET H == "hblank" \in sources
        V == "vblank" \in sources
        O == "oam" \in sources
    IN  IF H THEN (IF O /\ ~V /\ searches > 0 THEN <<0>> ELSE <<>>) \o LinesFrom(0, hblanks - 1)
        ELSE (IF O THEN LinesFrom(IF V THEN 1 ELSE 0, searches - 1) ELSE <<>>)
             \o (IF vblanks > 0 /\ (O \/ V) THEN <<LINES>> ELSE <<>>)

(* LYC has been compared with its line in this frame. *)
LycPassed ==
    IF stat.lyc = 0 THEN display_state \in {29, 17}
    ELSE \/ current_line > stat.lyc
         \/ current_line = stat.lyc /\ display_state \notin {35, 6, 7, 26, 12, 19, 14}

(* The requests of LYC alone so far. *)
ByLyc ==
    IF ~LycPassed THEN <<>>
    ELSE IF stat.lyc = VIRTUAL_LINES - 1 /\ ~model.late /\ ~model.double THEN <<0>> ELSE <<stat.lyc>>

(* The requests so far are those of the part of the frame that has        *)
(* passed.                                                                *)
RequestsInv ==
    /\ steady /\ stat.sources = {"lyc"} => requests = ByLyc
    /\ steady /\ stat.sources \in SUBSET {"hblank", "vblank", "oam"} =>
           requests = ByModes(stat.sources, HBlanks, Searches, VBlanks)

(* Sequences of lines that follow each other: none, and one more. *)
LEMMA FromTo ==
    /\ \A a \in Int : LinesFrom(a, a - 1) = <<>> /\ LinesFrom(a, a - 2) = <<>>
    /\ \A a, b \in Int : LinesFrom(a, b) \in Seq(Int)
    /\ \A a, b \in Int : a <= b + 1 => Append(LinesFrom(a, b), b + 1) = LinesFrom(a, b + 1)
<1>1. ASSUME NEW a \in Int PROVE LinesFrom(a, a - 1) = <<>> /\ LinesFrom(a, a - 2) = <<>>
  BY DEF LinesFrom
<1>2. ASSUME NEW a \in Int, NEW b \in Int PROVE LinesFrom(a, b) \in Seq(Int)
  <2>1. CASE a <= b + 1
    <3>1. b - a + 1 \in Nat
      BY <2>1
    <3> QED BY <3>1 DEF LinesFrom
  <2>2. CASE b + 1 < a
    <3>1. 1 .. b - a + 1 = 1 .. 0
      BY <2>2
    <3>2. LinesFrom(a, b) = <<>>
      BY <3>1 DEF LinesFrom
    <3> QED BY <3>2
  <2> QED BY <2>1, <2>2
<1>3. ASSUME NEW a \in Int, NEW b \in Int, a <= b + 1
      PROVE  Append(LinesFrom(a, b), b + 1) = LinesFrom(a, b + 1)
  <2> DEFINE n == b - a + 1
  <2>1. n \in Nat /\ b = a + n - 1
    BY <1>3
  <2>2. LinesFrom(a, b) = [i \in 1 .. n |-> a + i - 1] /\ LinesFrom(a, b + 1) = [i \in 1 .. n + 1 |-> a + i - 1]
    BY <2>1 DEF LinesFrom
  <2>3. Len(LinesFrom(a, b)) = n /\ LinesFrom(a, b) \in Seq(Int)
    BY <1>2, <2>1, <2>2
  <2>4. Append(LinesFrom(a, b), b + 1) = [i \in 1 .. n + 1 |-> IF i \in 1 .. n THEN LinesFrom(a, b)[i] ELSE b + 1]
    BY <2>1, <2>3
  <2> QED BY <2>1, <2>2, <2>4
<1> QED BY <1>1, <1>2, <1>3

(* The last line of some is appended to the others. *)
LEMMA OneMore ==
    ASSUME NEW a \in Int, NEW b \in Int, a <= b
    PROVE  LinesFrom(a, b) = Append(LinesFrom(a, b - 1), b)
<1> DEFINE c == b - 1
<1>1. c \in Int /\ c + 1 = b /\ a <= c + 1
  OBVIOUS
<1> HIDE DEF c
<1>2. Append(LinesFrom(a, c), c + 1) = LinesFrom(a, c + 1)
  BY <1>1, FromTo
<1>3. Append(LinesFrom(a, c), b) = LinesFrom(a, b)
  BY <1>1, <1>2
<1> QED BY <1>3 DEF c

(* From a line to one before it there are none. *)
LEMMA NoLines ==
    ASSUME NEW a \in Int, NEW b \in Int, b < a
    PROVE  LinesFrom(a, b) = <<>>
<1>1. 1 .. b - a + 1 = {}
  OBVIOUS
<1> QED BY <1>1 DEF LinesFrom

(* Sequences of lines, joined. *)
LEMMA Joined ==
    ASSUME NEW s \in Seq(Int), NEW t \in Seq(Int), NEW x \in Int
    PROVE  /\ s \o <<>> = s /\ <<>> \o s = s /\ Append(s, x) \in Seq(Int) /\ <<x>> \in Seq(Int)
           /\ Append(s, x) = s \o <<x>> /\ Append(<<>>, x) = <<x>> /\ <<>> \in Seq(Int)
           /\ Append(s \o t, x) = s \o Append(t, x)
<1>1. <<x>> \in Seq(Int) /\ <<>> \in Seq(Int) /\ Append(<<>>, x) = <<x>> /\ Append(s, x) \in Seq(Int)
  OBVIOUS
<1>2. s \o <<>> = s /\ <<>> \o s = s
  BY ConcatEmptySeq
<1>3. Append(s, x) = s \o <<x>> /\ Append(t, x) = t \o <<x>>
  BY AppendIsConcat
<1>4. s \o t \in Seq(Int)
  BY ConcatProperties
<1>5. Append(s \o t, x) = (s \o t) \o <<x>>
  BY <1>4, AppendIsConcat
<1>6. (s \o t) \o <<x>> = s \o (t \o <<x>>)
  BY <1>1, ConcatAssociative
<1> QED BY <1>1, <1>2, <1>3, <1>5, <1>6

(* What is appended to the second of two is appended to both. *)
LEMMA AppendToLast ==
    ASSUME NEW s \in Seq(Int), NEW t \in Seq(Int), NEW x \in Int
    PROVE  Append(s \o t, x) = s \o Append(t, x)
BY Joined

(* ByModes with HBlank among the sources, which blocks VBlank, *)
LEMMA WithHBlanks ==
    ASSUME NEW S, NEW h \in Int, NEW n \in Int
    PROVE  "hblank" \in S =>
               /\ ByModes(S, h, n, 0) =
                      (IF "oam" \in S /\ "vblank" \notin S /\ n > 0 THEN <<0>> ELSE <<>>)
                          \o LinesFrom(0, h - 1)
               /\ ByModes(S, h, n, 1) = ByModes(S, h, n, 0)
BY Zenon DEF ByModes

(* and without it. *)
LEMMA WithoutHBlanks ==
    ASSUME NEW S, NEW h \in Int, NEW n \in Int
    PROVE  "hblank" \notin S =>
                  /\ ByModes(S, h, n, 0) =
                         IF "oam" \in S THEN LinesFrom(IF "vblank" \in S THEN 1 ELSE 0, n - 1) ELSE <<>>
                  /\ ByModes(S, h, n, 1) =
                         (IF "oam" \in S THEN LinesFrom(IF "vblank" \in S THEN 1 ELSE 0, n - 1) ELSE <<>>)
                            \o (IF "oam" \in S \/ "vblank" \in S THEN <<LINES>> ELSE <<>>)
<1> DEFINE first == IF "vblank" \in S THEN 1 ELSE 0
           p == IF "oam" \in S THEN LinesFrom(first, n - 1) ELSE <<>>
<1>1. p \in Seq(Int)
  <2>1. first \in Int
    OBVIOUS
  <2> HIDE DEF first
  <2>2. LinesFrom(first, n - 1) \in Seq(Int)
    BY <2>1, FromTo
  <2> QED BY <2>2, Joined
<1>2. p \o <<>> = p
  BY <1>1, ConcatEmptySeq
<1>6. 1 > 0 /\ ~(0 > 0)
  OBVIOUS
<1>4. ASSUME "hblank" \notin S
      PROVE  ByModes(S, h, n, 0) = p \o <<>>
  BY <1>4, <1>6, Zenon DEF ByModes
<1>5. ASSUME "hblank" \notin S
      PROVE  ByModes(S, h, n, 1) = p \o (IF "oam" \in S \/ "vblank" \in S THEN <<LINES>> ELSE <<>>)
  BY <1>5, <1>6, Zenon DEF ByModes
<1> QED BY <1>2, <1>4, <1>5, Zenon

(* A frame's requests, as HBlanks and searches begin. *)
LEMMA HBlankBegins ==
    ASSUME NEW S, NEW n \in Nat, NEW m \in Nat
    PROVE  ByModes(S, n + 1, m, 0) = IF "hblank" \in S THEN Append(ByModes(S, n, m, 0), n)
                                     ELSE ByModes(S, n, m, 0)
<1>0. 0 \in Int /\ n \in Int /\ m \in Int /\ n - 1 \in Int /\ 0 <= n
  OBVIOUS
<1>1. CASE "hblank" \in S
  <2> DEFINE p == IF "oam" \in S /\ "vblank" \notin S /\ m > 0 THEN <<0>> ELSE <<>>
             b == n - 1
  <2>1. p \in Seq(Int)
    BY Joined
  <2>2. LinesFrom(0, n) = Append(LinesFrom(0, n - 1), n) /\ LinesFrom(0, n - 1) \in Seq(Int)
    BY <1>0, OneMore, FromTo, Zenon
  <2>3. ByModes(S, n, m, 0) = p \o LinesFrom(0, n - 1)
    BY <1>0, <1>1, WithHBlanks, WithoutHBlanks, Zenon
  <2>4. ByModes(S, n + 1, m, 0) = p \o LinesFrom(0, n)
    <3>1. n + 1 \in Int /\ (n + 1) - 1 = n
      OBVIOUS
    <3>2. ByModes(S, n + 1, m, 0) = p \o LinesFrom(0, (n + 1) - 1)
      <4> DEFINE k == n + 1
      <4>1. k \in Int
        OBVIOUS
      <4> HIDE DEF k
      <4>2. ByModes(S, k, m, 0) = p \o LinesFrom(0, k - 1)
        BY <1>0, <1>1, <4>1, WithHBlanks, WithoutHBlanks, Zenon
      <4> QED BY <4>2 DEF k
    <3> QED BY <3>1, <3>2
  <2> HIDE DEF p
  <2>5. Append(p \o LinesFrom(0, n - 1), n) = p \o Append(LinesFrom(0, n - 1), n)
    BY <1>0, <2>1, <2>2, AppendToLast, Zenon
  <2> QED BY <1>1, <2>2, <2>3, <2>4, <2>5
<1>2. CASE "hblank" \notin S
  <2>1. ByModes(S, n + 1, m, 0) = ByModes(S, n, m, 0)
    BY <1>2, Zenon DEF ByModes
  <2> QED BY <1>2, <2>1
<1> QED BY <1>1, <1>2

(* The search in line 0 is blocked by VBlank before it. *)
LEMMA FirstSearch ==
    ASSUME NEW S
    PROVE  /\ ByModes(S, 0, 0, 0) = <<>>
           /\ ByModes(S, 0, 1, 0) = IF "oam" \in S /\ "vblank" \notin S THEN <<0>> ELSE <<>>
<1>0. 0 \in Int /\ 1 \in Int /\ 0 - 1 \in Int /\ 0 <= 0 /\ ~(0 > 0) /\ 1 > 0 /\ 1 - 1 = 0
  OBVIOUS
<1>1. /\ LinesFrom(0, 0 - 1) = <<>> /\ LinesFrom(1, 0 - 1) = <<>> /\ LinesFrom(1, 1 - 1) = <<>>
      /\ LinesFrom(0, 1 - 1) = <<0>>
  <2>1. LinesFrom(0, 0 - 1) = <<>> /\ LinesFrom(1, 0 - 1) = <<>> /\ LinesFrom(1, 0) = <<>>
    BY NoLines
  <2>2. LinesFrom(0, 0) = Append(LinesFrom(0, 0 - 1), 0)
    BY <1>0, OneMore, Zenon
  <2>3. Append(<<>>, 0) = <<0>>
    OBVIOUS
  <2> QED BY <1>0, <2>1, <2>2, <2>3
<1>2. CASE "hblank" \in S
  <2>1. ByModes(S, 0, 0, 0) = <<>> \o LinesFrom(0, 0 - 1)
    BY <1>0, <1>2, WithHBlanks, WithoutHBlanks, Zenon
  <2>2. ByModes(S, 0, 1, 0) =
            (IF "oam" \in S /\ "vblank" \notin S THEN <<0>> ELSE <<>>) \o LinesFrom(0, 0 - 1)
    BY <1>0, <1>2, WithHBlanks, WithoutHBlanks, Zenon
  <2>3. <<0>> \o <<>> = <<0>> /\ <<>> \o <<>> = <<>>
    BY Joined
  <2> QED BY <1>1, <2>1, <2>2, <2>3, Zenon
<1>3. CASE "hblank" \notin S
  <2>1. ByModes(S, 0, 0, 0) =
            IF "oam" \in S THEN LinesFrom(IF "vblank" \in S THEN 1 ELSE 0, 0 - 1) ELSE <<>>
    BY <1>0, <1>3, WithHBlanks, WithoutHBlanks, Zenon
  <2>2. ByModes(S, 0, 1, 0) =
            IF "oam" \in S THEN LinesFrom(IF "vblank" \in S THEN 1 ELSE 0, 1 - 1) ELSE <<>>
    BY <1>0, <1>3, WithHBlanks, WithoutHBlanks, Zenon
  <2> QED BY <1>1, <2>1, <2>2, Zenon
<1> QED BY <1>2, <1>3

(* One search more is one request more, unless HBlank blocks it. *)
LEMMA SearchBegins ==
    ASSUME NEW S, NEW n \in Nat, NEW h \in Nat, n >= 1
    PROVE  ByModes(S, h, n + 1, 0) = IF "oam" \in S /\ "hblank" \notin S
                                         THEN Append(ByModes(S, h, n, 0), n)
                                         ELSE ByModes(S, h, n, 0)
<1> DEFINE k == n + 1
<1>0. k \in Int /\ k - 1 = n /\ k > 0 /\ n > 0 /\ n \in Int /\ h \in Int
  OBVIOUS
<1> HIDE DEF k
<1>1. CASE "hblank" \in S
  <2> DEFINE later(i) == (IF "oam" \in S /\ "vblank" \notin S /\ i > 0 THEN <<0>> ELSE <<>>)
                             \o LinesFrom(0, h - 1)
  <2>2. ByModes(S, h, k, 0) = later(k)
    BY <1>0, <1>1, WithHBlanks, WithoutHBlanks, Zenon
  <2>3. ByModes(S, h, n, 0) = later(n)
    BY <1>0, <1>1, WithHBlanks, WithoutHBlanks, Zenon
  <2>4. later(k) = later(n)
    BY <1>0
  <2> HIDE DEF later
  <2>1. ByModes(S, h, k, 0) = ByModes(S, h, n, 0)
    BY <2>2, <2>3, <2>4, Zenon
  <2> QED BY <1>1, <2>1 DEF k
<1>2. CASE "hblank" \notin S
  <2> DEFINE a == IF "vblank" \in S THEN 1 ELSE 0
  <2>1. ByModes(S, h, n, 0) = IF "oam" \in S THEN LinesFrom(a, n - 1) ELSE <<>>
    <3>1. n \in Int /\ h \in Int
      BY <1>0
    <3> QED BY <1>2, <3>1, WithHBlanks, WithoutHBlanks, ZenonT(40)
  <2>5. ByModes(S, h, k, 0) = IF "oam" \in S THEN LinesFrom(a, k - 1) ELSE <<>>
    BY <1>0, <1>2, WithHBlanks, WithoutHBlanks, Zenon
  <2>2. a \in Int /\ a <= n
    OBVIOUS
  <2> HIDE DEF a
  <2>3. LinesFrom(a, n) = Append(LinesFrom(a, n - 1), n)
    BY <1>0, <2>2, OneMore, Zenon
  <2>4. ByModes(S, h, k, 0) = IF "oam" \in S /\ "hblank" \notin S
                                  THEN Append(ByModes(S, h, n, 0), n) ELSE ByModes(S, h, n, 0)
    BY <1>0, <1>2, <2>1, <2>3, <2>5
  <2> QED BY <2>4 DEF k
<1> QED BY <1>1, <1>2

(* VBlank is one request more, unless HBlank blocks it. *)
LEMMA VBlankBegins ==
    ASSUME NEW S, NEW n \in Nat, NEW h \in Nat
    PROVE  ByModes(S, h, n, 1) = IF "hblank" \notin S /\ ("oam" \in S \/ "vblank" \in S)
                                    THEN Append(ByModes(S, h, n, 0), LINES)
                                    ELSE ByModes(S, h, n, 0)
<1> DEFINE a == IF "vblank" \in S THEN 1 ELSE 0
           p == IF "oam" \in S THEN LinesFrom(a, n - 1) ELSE <<>>
<1>0. n \in Int /\ h \in Int
  OBVIOUS
<1>1. p \in Seq(Int)
  <2>1. a \in Int
    OBVIOUS
  <2> HIDE DEF a
  <2>2. LinesFrom(a, n - 1) \in Seq(Int)
    BY <2>1, FromTo
  <2> QED BY <2>2, Joined
<1>2. CASE "hblank" \in S
  <2>1. ByModes(S, h, n, 1) = ByModes(S, h, n, 0)
    BY <1>0, <1>2, WithHBlanks, Zenon
  <2> QED BY <1>2, <2>1
<1>3. CASE "hblank" \notin S
  <2>1. /\ ByModes(S, h, n, 0) = p
        /\ ByModes(S, h, n, 1) = p \o (IF "oam" \in S \/ "vblank" \in S THEN <<LINES>> ELSE <<>>)
    BY <1>0, <1>3, WithHBlanks, WithoutHBlanks, Zenon
  <2> HIDE DEF p
  <2>2. LINES \in Int
    BY PpuAssumption
  <2>3. p \o <<>> = p /\ Append(p, LINES) = p \o <<LINES>>
    BY <1>1, <2>2, Joined
  <2> QED BY <1>3, <2>1, <2>3
<1> QED BY <1>2, <1>3

(* Before line 0 begins these are the lines that the frame is interrupted in. *)
LEMMA WholeFrame ==
    ASSUME NEW S \in SUBSET {"hblank", "vblank", "oam"}
    PROVE  ByModes(S, LINES, LINES + 1, 1) = Interrupted(S)
<1> DEFINE all == LinesFrom(0, LINES - 1)
           k == LINES + 1
<1>1. LINES \in Nat /\ LINES \in Int /\ k \in Int /\ k - 1 = LINES /\ k > 0 /\ all \in Seq(Int)
  BY PpuAssumption, FromTo
<1>2. all \o <<>> = all /\ <<>> \o all = all /\ <<>> \o <<LINES>> = <<LINES>> /\ <<>> \o <<>> = <<>>
  <2>1. <<LINES>> \in Seq(Int)
    BY <1>1, Joined
  <2> QED BY <1>1, <2>1, Joined
<1> HIDE DEF k
<1>3. /\ "hblank" \in S => ByModes(S, LINES, k, 1) =
                      (IF "oam" \in S /\ "vblank" \notin S THEN <<0>> ELSE <<>>) \o all
      /\ "hblank" \notin S => ByModes(S, LINES, k, 1) =
             (IF "oam" \in S THEN LinesFrom(IF "vblank" \in S THEN 1 ELSE 0, LINES) ELSE <<>>)
                 \o (IF "oam" \in S \/ "vblank" \in S THEN <<LINES>> ELSE <<>>)
  <2>1. "hblank" \in S => ByModes(S, LINES, k, 1) =
                      (IF "oam" \in S /\ "vblank" \notin S THEN <<0>> ELSE <<>>) \o all
    <3>1. "hblank" \in S =>
              /\ ByModes(S, LINES, k, 0) =
                     (IF "oam" \in S /\ "vblank" \notin S /\ k > 0 THEN <<0>> ELSE <<>>) \o all
              /\ ByModes(S, LINES, k, 1) = ByModes(S, LINES, k, 0)
      BY <1>1, WithHBlanks, Zenon DEF all
    <3> QED BY <1>1, <3>1
  <2>2. "hblank" \notin S => ByModes(S, LINES, k, 1) =
             (IF "oam" \in S THEN LinesFrom(IF "vblank" \in S THEN 1 ELSE 0, LINES) ELSE <<>>)
                 \o (IF "oam" \in S \/ "vblank" \in S THEN <<LINES>> ELSE <<>>)
    BY <1>1, WithoutHBlanks, Zenon
  <2> QED BY <2>1, <2>2
<1> HIDE DEF all
<1>4. CASE "hblank" \in S /\ "vblank" \in S /\ "oam" \in S
  <2>1. S = {"hblank", "vblank", "oam"}
    BY <1>4
  <2>3. S \notin {{}, {"hblank"}, {"vblank"}, {"oam"},
                   {"hblank", "vblank"}, {"hblank", "oam"}, {"vblank", "oam"}, {"lyc"}}
    BY <1>4
  <2>2. Interrupted(S) = all
    BY <2>1, <2>3 DEF Interrupted, all
  <2> QED BY <1>2, <1>3, <1>4, <2>2 DEF k
<1>5. CASE "hblank" \in S /\ "vblank" \in S /\ "oam" \notin S
  <2>1. S = {"hblank", "vblank"}
    BY <1>5
  <2>3. S \notin {{}, {"hblank"}, {"vblank"}, {"oam"},
                   {"hblank", "oam"}, {"vblank", "oam"}, {"hblank", "vblank", "oam"}, {"lyc"}}
    BY <1>5
  <2>2. Interrupted(S) = all
    BY <2>1, <2>3 DEF Interrupted, all
  <2> QED BY <1>2, <1>3, <1>5, <2>2 DEF k
<1>6. CASE "hblank" \in S /\ "vblank" \notin S /\ "oam" \in S
  <2>1. S = {"hblank", "oam"}
    BY <1>6
  <2>3. S \notin {{}, {"hblank"}, {"vblank"}, {"oam"},
                   {"hblank", "vblank"}, {"vblank", "oam"}, {"hblank", "vblank", "oam"}, {"lyc"}}
    BY <1>6
  <2>2. Interrupted(S) = <<0>> \o all
    BY <2>1, <2>3 DEF Interrupted, all
  <2> QED BY <1>2, <1>3, <1>6, <2>2 DEF k
<1>7. CASE "hblank" \in S /\ "vblank" \notin S /\ "oam" \notin S
  <2>1. S = {"hblank"}
    BY <1>7
  <2>3. S \notin {{}, {"vblank"}, {"oam"}, {"hblank", "vblank"},
                   {"hblank", "oam"}, {"vblank", "oam"}, {"hblank", "vblank", "oam"}, {"lyc"}}
    BY <1>7
  <2>2. Interrupted(S) = all
    BY <2>1, <2>3 DEF Interrupted, all
  <2> QED BY <1>2, <1>3, <1>7, <2>2 DEF k
<1>8. CASE "hblank" \notin S /\ "vblank" \in S /\ "oam" \in S
  <2>1. S = {"vblank", "oam"}
    BY <1>8
  <2>3. S \notin {{}, {"hblank"}, {"vblank"}, {"oam"},
                   {"hblank", "vblank"}, {"hblank", "oam"}, {"hblank", "vblank", "oam"}, {"lyc"}}
    BY <1>8
  <2>2. Interrupted(S) = LinesFrom(1, LINES) \o <<LINES>>
    BY <2>1, <2>3 DEF Interrupted
  <2> QED BY <1>2, <1>3, <1>8, <2>2 DEF k
<1>9. CASE "hblank" \notin S /\ "vblank" \in S /\ "oam" \notin S
  <2>1. S = {"vblank"}
    BY <1>9
  <2>3. S \notin {{}, {"hblank"}, {"oam"}, {"hblank", "vblank"},
                   {"hblank", "oam"}, {"vblank", "oam"}, {"hblank", "vblank", "oam"}, {"lyc"}}
    BY <1>9
  <2>2. Interrupted(S) = <<LINES>>
    BY <2>1, <2>3 DEF Interrupted
  <2> QED BY <1>2, <1>3, <1>9, <2>2 DEF k
<1>10. CASE "hblank" \notin S /\ "vblank" \notin S /\ "oam" \in S
  <2>1. S = {"oam"}
    BY <1>10
  <2>3. S \notin {{}, {"hblank"}, {"vblank"}, {"hblank", "vblank"},
                   {"hblank", "oam"}, {"vblank", "oam"}, {"hblank", "vblank", "oam"}, {"lyc"}}
    BY <1>10
  <2>2. Interrupted(S) = LinesFrom(0, LINES) \o <<LINES>>
    BY <2>1, <2>3 DEF Interrupted
  <2> QED BY <1>2, <1>3, <1>10, <2>2 DEF k
<1>11. CASE "hblank" \notin S /\ "vblank" \notin S /\ "oam" \notin S
  <2>1. S = {}
    BY <1>11
  <2>3. S \notin {{"hblank"}, {"vblank"}, {"oam"}, {"hblank", "vblank"},
                   {"hblank", "oam"}, {"vblank", "oam"}, {"hblank", "vblank", "oam"}, {"lyc"}}
    BY <1>11
  <2>2. Interrupted(S) = <<>>
    BY <2>1, <2>3 DEF Interrupted
  <2> QED BY <1>2, <1>3, <1>11, <2>2 DEF k
<1> QED BY <1>4, <1>5, <1>6, <1>7, <1>8, <1>9, <1>10, <1>11

-----------------------------------------------------------------------------

(* The invariant of the interrupts: what the level is does not say which  *)
(* requests were made, and neither holds without stat being settled.      *)
RunInv == StatInv /\ SteadyInv /\ RequestsInv

(* What SteadyStat says of the level of the interrupt. *)
Level ==
    /\ stat.mode_for_interrupt = ModeNow
    /\ stat.lyc_line <=> stat.lyc = Compared
    /\ stat.line <=> High(LevelMode, stat.sources, stat.lyc_line)

(* High without LYC. *)
ModeHigh(mode, sources) ==
    \/ mode = 0 /\ "hblank" \in sources
    \/ mode = 1 /\ "vblank" \in sources
    \/ mode = 2 /\ "oam" \in sources

(* What makes the level high when LYC is chosen alone, and when it is     *)
(* not.                                                                   *)
LEMMA HighOf ==
    ASSUME NEW S, NEW m, NEW l \in BOOLEAN
    PROVE  /\ S = {"lyc"} => (High(m, S, l) <=> l)
           /\ S \in SUBSET {"hblank", "vblank", "oam"} => (High(m, S, l) <=> ModeHigh(m, S))
<1>1. S = {"lyc"} => (High(m, S, l) <=> l)
  BY DEF High
<1>2. S \in SUBSET {"hblank", "vblank", "oam"} => (High(m, S, l) <=> ModeHigh(m, S))
  BY DEF High, ModeHigh
<1> QED BY <1>1, <1>2

(* An update, while no register changes. *)
LEMMA NotedRuns ==
    ASSUME StatTyped, steady, Level, NEW mode, NEW compare, Noted(mode, compare), Requested(Rises),
           ModeNow' = mode, LevelMode' = mode,
           Compared' = IF compare = None THEN Compared ELSE compare
    PROVE  /\ Level'
           /\ stat.sources = {"lyc"} =>
                  requests' = IF stat.lyc = Compared' /\ stat.lyc # Compared
                              THEN Append(requests, ly') ELSE requests
           /\ stat.sources \in SUBSET {"hblank", "vblank", "oam"} =>
                  requests' = IF ModeHigh(mode, stat.sources) /\ ~ModeHigh(LevelMode, stat.sources)
                              THEN Append(requests, ly') ELSE requests
<1>1. /\ stat.lyc_line \in BOOLEAN /\ stat'.lyc_line \in BOOLEAN /\ stat.line \in BOOLEAN
      /\ stat'.line \in BOOLEAN
  BY DEF StatTyped, Noted, Stats
<1>2. /\ stat'.lyc_line <=> stat'.lyc = Compared'
      /\ stat'.mode_for_interrupt = ModeNow' /\ stat'.sources = stat.sources /\ stat'.lyc = stat.lyc
      /\ stat'.line <=> High(mode, stat.sources, stat'.lyc_line)
  BY DEF Noted, Level
<1>3. requests' = IF stat'.line /\ ~stat.line THEN Append(requests, ly') ELSE requests
  BY DEF Requested, Rises
<1>4. stat.line <=> High(LevelMode, stat.sources, stat.lyc_line)
  BY DEF Level
<1>5. stat.lyc_line <=> stat.lyc = Compared
  BY DEF Level
<1>6. ASSUME stat.sources = {"lyc"}
      PROVE  requests' = IF stat.lyc = Compared' /\ stat.lyc # Compared
                         THEN Append(requests, ly') ELSE requests
  <2>1. (stat'.line <=> stat'.lyc_line) /\ (stat.line <=> stat.lyc_line)
    BY <1>1, <1>2, <1>4, <1>6, HighOf
  <2> QED BY <1>2, <1>3, <1>5, <2>1
<1>7. ASSUME stat.sources \in SUBSET {"hblank", "vblank", "oam"}
      PROVE  requests' = IF ModeHigh(mode, stat.sources) /\ ~ModeHigh(LevelMode, stat.sources)
                         THEN Append(requests, ly') ELSE requests
  <2>1. stat'.line <=> ModeHigh(mode, stat.sources)
    BY <1>1, <1>2, <1>7, HighOf
  <2>2. stat.line <=> ModeHigh(LevelMode, stat.sources)
    BY <1>1, <1>4, <1>7, HighOf
  <2> QED BY <1>3, <2>1, <2>2
<1>8. Level'
  BY <1>2 DEF Level
<1> QED BY <1>6, <1>7, <1>8

(* The request of LYC is made when it is passed, once. *)
LEMMA LycCounted ==
    ASSUME requests = ByLyc, UNCHANGED <<stat.lyc, model>>, NEW event \in BOOLEAN,
           requests' = IF event THEN Append(requests, ly') ELSE requests,
           event => /\ ~LycPassed /\ LycPassed'
                    /\ ly' = IF stat.lyc = VIRTUAL_LINES - 1 /\ ~model.late /\ ~model.double THEN 0
                             ELSE stat.lyc,
           ~event => (LycPassed' <=> LycPassed)
    PROVE  requests' = ByLyc'
<1>1. CASE event
  <2>1. requests = <<>> /\ requests' = <<ly'>>
    BY <1>1 DEF ByLyc
  <2> QED BY <1>1, <2>1 DEF ByLyc
<1>2. CASE ~event
  BY <1>2 DEF ByLyc
<1> QED BY <1>1, <1>2

(* What is known between two steps. *)
LEMMA Within ==
    ASSUME RunInv, PaceInv, SinceInv
    PROVE  /\ StatTyped /\ current_line \in Nat /\ stat.lyc \in Nat
           /\ LINES \in Nat /\ LINES >= 1 /\ VIRTUAL_LINES \in Nat /\ VIRTUAL_LINES >= LINES + 2
           /\ display_state \notin {0, 1} => on
           /\ display_state \in LinePlaces \union Drawing3 \union HBlankPlaces => current_line < LINES
           /\ display_state \in VBlankPlaces => current_line >= LINES /\ current_line <= VIRTUAL_LINES - 2
           /\ display_state \in LastPlaces => current_line = VIRTUAL_LINES - 1
           /\ InVBlank => stat.mode_for_interrupt = 1
<1>1. StatTyped /\ current_line \in Nat /\ stat.lyc \in Nat /\ (InVBlank => stat.mode_for_interrupt = 1)
  BY DEF RunInv, StatInv, StatTyped, Stats, PaceInv, PaceTyped, Settled
<1>2. display_state \notin {0, 1} => on
  BY DEF SinceInv
<1>3. PlaceInv
  BY DEF PaceInv
<1> QED BY <1>1, <1>2, <1>3, PpuAssumption DEF PlaceInv, FirstPlaces, LinePlaces, Drawing3, HBlankPlaces,
           VBlankPlaces, LastPlaces

(* A step that keeps stat keeps the level. *)
LEMMA KeptRuns ==
    ASSUME StatTyped, Level, Kept, stat'.mode_for_interrupt = ModeNow', Compared' = Compared,
           LevelMode' = LevelMode
    PROVE  Level'
<1>1. /\ stat.lyc_line \in BOOLEAN /\ stat'.lyc_line \in BOOLEAN /\ stat.line \in BOOLEAN
      /\ stat'.line \in BOOLEAN
  BY DEF StatTyped, Kept, Stats
<1>2. stat'.lyc_line <=> stat'.lyc = Compared'
  BY DEF Kept, Level
<1>3. High(LevelMode', stat'.sources, stat'.lyc_line) = High(LevelMode, stat.sources, stat.lyc_line)
  BY DEF Kept
<1>4. stat'.line = stat.line
  BY DEF Kept
<1>5. stat'.line <=> High(LevelMode', stat'.sources, stat'.lyc_line)
  BY <1>3, <1>4 DEF Level
<1> QED BY <1>2, <1>5 DEF Level

(* Each action keeps the invariant of the interrupts: the beginning of    *)
(* mode 3,                                                                *)
LEMMA Mode3Runs ==
    ASSUME RunInv, PaceInv, SinceInv, Mode3
    PROVE  RunInv'
<1> USE DEF LinePlaces, Drawing3, HBlankPlaces, VBlankPlaces, LastPlaces, FirstPlaces, None
<1>1. /\ display_state = 108 /\ display_state' = 10
      /\ UNCHANGED <<on, current_line, ly, steady, model>>
  BY DEF Mode3, Wake, Same
<1>2. /\ StatTyped /\ on /\ current_line \in Nat /\ stat.lyc \in Nat
      /\ LINES \in Nat /\ LINES >= 1 /\ VIRTUAL_LINES \in Nat /\ VIRTUAL_LINES >= LINES + 2
      /\ InVBlank => stat.mode_for_interrupt = 1
      /\ current_line < LINES
  BY <1>1, Within
<1>3. Noted(3, stat.compare) /\ Requested(Rises)
  BY <1>2, UpdateNotes
<1>4. /\ ModeNow = None /\ LevelMode = None /\ Compared = current_line /\ ~InVBlank
      /\ ModeNow' = 3 /\ LevelMode' = 3 /\ Compared' = current_line /\ ~InVBlank'
      /\ HBlanks' = HBlanks /\ Searches' = Searches /\ VBlanks' = VBlanks
  BY <1>1, <1>2 DEF ModeNow, LevelMode, Compared, InVBlank, HBlanks, Searches, VBlanks
<1>5. stat' \in Stats /\ ~stat'.request /\ stat'.sources = stat.sources /\ stat'.lyc = stat.lyc
      /\ stat'.compare = stat.compare /\ stat'.mode_for_interrupt = 3
  BY <1>3 DEF Noted
<1>6. StatInv'
  BY <1>1, <1>2, <1>4, <1>5 DEF StatInv, StatTyped, Settled
<1>7. ASSUME steady
      PROVE  /\ SteadyStat'
             /\ stat.sources = {"lyc"} => requests' = IF stat.lyc = Compared' /\ stat.lyc # Compared
                                                        THEN Append(requests, ly') ELSE requests
             /\ stat.sources \in SUBSET {"hblank", "vblank", "oam"} =>
                    requests' = IF ModeHigh(3, stat.sources) /\ ~ModeHigh(LevelMode, stat.sources)
                                THEN Append(requests, ly') ELSE requests
  <2>1. Level /\ stat.compare = current_line /\ ly = current_line
    BY <1>1, <1>2, <1>4, <1>7 DEF RunInv, SteadyInv, SteadyStat, Level
  <2>2. ModeNow' = 3 /\ LevelMode' = 3
        /\ Compared' = IF stat.compare = None THEN Compared ELSE stat.compare
    BY <1>1, <1>2, <1>4, <2>1 DEF Level
  <2>3. /\ Level'
        /\ stat.sources = {"lyc"} => requests' = IF stat.lyc = Compared' /\ stat.lyc # Compared
                                                   THEN Append(requests, ly') ELSE requests
        /\ stat.sources \in SUBSET {"hblank", "vblank", "oam"} =>
               requests' = IF ModeHigh(3, stat.sources) /\ ~ModeHigh(LevelMode, stat.sources)
                           THEN Append(requests, ly') ELSE requests
    BY <1>2, <1>3, <1>7, <2>1, <2>2, NotedRuns
  <2> QED BY <1>1, <1>2, <1>5, <2>1, <2>3 DEF SteadyStat, Level
<1>8. ASSUME steady', stat'.sources = {"lyc"} PROVE requests' = ByLyc'
  <2> DEFINE event == stat.lyc = Compared' /\ stat.lyc # Compared
  <2>1. requests = ByLyc /\ requests' = IF event THEN Append(requests, ly') ELSE requests
    BY <1>1, <1>5, <1>7, <1>8 DEF RunInv, RequestsInv
  <2>2. /\ event => /\ ~LycPassed /\ LycPassed'
                    /\ ly' = IF stat.lyc = VIRTUAL_LINES - 1 /\ ~model.late /\ ~model.double THEN 0
                             ELSE stat.lyc
        /\ ~event => (LycPassed' <=> LycPassed)
    BY <1>1, <1>2, <1>4, <1>5 DEF LycPassed
  <2>3. UNCHANGED <<stat.lyc, model>> /\ event \in BOOLEAN
    BY <1>1, <1>5
  <2> HIDE DEF event
  <2> QED BY <2>1, <2>2, <2>3, LycCounted
<1>9. ASSUME steady', stat'.sources \in SUBSET {"hblank", "vblank", "oam"}
      PROVE  requests' = ByModes(stat'.sources, HBlanks', Searches', VBlanks')
  <2> DEFINE S == stat.sources
             event == ModeHigh(3, S) /\ ~ModeHigh(LevelMode, S)
  <2>11. steady /\ stat'.sources = S /\ S \in SUBSET {"hblank", "vblank", "oam"}
    BY <1>1, <1>5, <1>9
  <2>12. requests = ByModes(S, HBlanks, Searches, VBlanks)
    BY <2>11, Zenon DEF RunInv, RequestsInv
  <2>13. requests' = IF event THEN Append(requests, ly') ELSE requests
    BY <1>7, <2>11
  <2>1. /\ requests = ByModes(S, HBlanks, Searches, VBlanks)
        /\ requests' = IF event THEN Append(requests, ly') ELSE requests
        /\ stat'.sources = S
    BY <2>11, <2>12, <2>13
  <2>2. ~event
    BY <1>1, <1>2, <1>4 DEF ModeHigh
  <2> HIDE DEF event
  <2> QED BY <1>4, <2>1, <2>2, Zenon
<1> QED BY <1>1, <1>6, <1>7, <1>8, <1>9 DEF RunInv, SteadyInv, RequestsInv

(* HBlank's interrupt, *)
LEMMA HBlankInterruptRuns ==
    ASSUME RunInv, PaceInv, SinceInv, HBlankInterrupt
    PROVE  RunInv'
<1> USE DEF LinePlaces, Drawing3, HBlankPlaces, VBlankPlaces, LastPlaces, FirstPlaces, None
<1>1. /\ display_state = 22 /\ display_state' = 33
      /\ UNCHANGED <<on, current_line, ly, steady, model>>
  BY DEF HBlankInterrupt, Wake, Same
<1>2. /\ StatTyped /\ on /\ current_line \in Nat /\ stat.lyc \in Nat
      /\ LINES \in Nat /\ LINES >= 1 /\ VIRTUAL_LINES \in Nat /\ VIRTUAL_LINES >= LINES + 2
      /\ InVBlank => stat.mode_for_interrupt = 1
      /\ current_line < LINES
  BY <1>1, Within
<1>3. Noted(0, stat.compare) /\ Requested(Rises)
  BY <1>2, UpdateNotes
<1>4. /\ LevelMode = 3 /\ Compared = current_line /\ ~InVBlank
      /\ ModeNow' = 0 /\ LevelMode' = 0 /\ Compared' = current_line /\ ~InVBlank'
      /\ HBlanks = current_line /\ HBlanks' = current_line + 1 /\ Searches' = Searches
      /\ Searches = current_line + 1 /\ VBlanks = 0 /\ VBlanks' = 0
  BY <1>1, <1>2 DEF ModeNow, LevelMode, Compared, InVBlank, HBlanks, Searches, VBlanks
<1>5. stat' \in Stats /\ ~stat'.request /\ stat'.sources = stat.sources /\ stat'.lyc = stat.lyc
      /\ stat'.compare = stat.compare /\ stat'.mode_for_interrupt = 0
  BY <1>3 DEF Noted
<1>6. StatInv'
  BY <1>1, <1>2, <1>4, <1>5 DEF StatInv, StatTyped, Settled
<1>7. ASSUME steady
      PROVE  /\ SteadyStat'
             /\ stat.sources = {"lyc"} => requests' = IF stat.lyc = Compared' /\ stat.lyc # Compared
                                                        THEN Append(requests, ly') ELSE requests
             /\ stat.sources \in SUBSET {"hblank", "vblank", "oam"} =>
                    requests' = IF ModeHigh(0, stat.sources) /\ ~ModeHigh(LevelMode, stat.sources)
                                THEN Append(requests, ly') ELSE requests
  <2>1. Level /\ stat.compare = current_line /\ ly = current_line
    BY <1>1, <1>2, <1>4, <1>7 DEF RunInv, SteadyInv, SteadyStat, Level
  <2>2. ModeNow' = 0 /\ LevelMode' = 0
        /\ Compared' = IF stat.compare = None THEN Compared ELSE stat.compare
    BY <1>1, <1>2, <1>4, <2>1 DEF Level
  <2>3. /\ Level'
        /\ stat.sources = {"lyc"} => requests' = IF stat.lyc = Compared' /\ stat.lyc # Compared
                                                   THEN Append(requests, ly') ELSE requests
        /\ stat.sources \in SUBSET {"hblank", "vblank", "oam"} =>
               requests' = IF ModeHigh(0, stat.sources) /\ ~ModeHigh(LevelMode, stat.sources)
                           THEN Append(requests, ly') ELSE requests
    BY <1>2, <1>3, <1>7, <2>1, <2>2, NotedRuns
  <2> QED BY <1>1, <1>2, <1>5, <2>1, <2>3 DEF SteadyStat, Level
<1>8. ASSUME steady', stat'.sources = {"lyc"} PROVE requests' = ByLyc'
  <2> DEFINE event == stat.lyc = Compared' /\ stat.lyc # Compared
  <2>1. requests = ByLyc /\ requests' = IF event THEN Append(requests, ly') ELSE requests
    BY <1>1, <1>5, <1>7, <1>8 DEF RunInv, RequestsInv
  <2>2. /\ event => /\ ~LycPassed /\ LycPassed'
                    /\ ly' = IF stat.lyc = VIRTUAL_LINES - 1 /\ ~model.late /\ ~model.double THEN 0
                             ELSE stat.lyc
        /\ ~event => (LycPassed' <=> LycPassed)
    BY <1>1, <1>2, <1>4, <1>5 DEF LycPassed
  <2>3. UNCHANGED <<stat.lyc, model>> /\ event \in BOOLEAN
    BY <1>1, <1>5
  <2> HIDE DEF event
  <2> QED BY <2>1, <2>2, <2>3, LycCounted
<1>9. ASSUME steady', stat'.sources \in SUBSET {"hblank", "vblank", "oam"}
      PROVE  requests' = ByModes(stat'.sources, HBlanks', Searches', VBlanks')
  <2> DEFINE S == stat.sources
             event == ModeHigh(0, S) /\ ~ModeHigh(LevelMode, S)
  <2>11. steady /\ stat'.sources = S /\ S \in SUBSET {"hblank", "vblank", "oam"}
    BY <1>1, <1>5, <1>9
  <2>12. requests = ByModes(S, HBlanks, Searches, VBlanks)
    BY <2>11, Zenon DEF RunInv, RequestsInv
  <2>13. requests' = IF event THEN Append(requests, ly') ELSE requests
    BY <1>7, <2>11
  <2>1. /\ requests = ByModes(S, HBlanks, Searches, VBlanks)
        /\ requests' = IF event THEN Append(requests, ly') ELSE requests
        /\ stat'.sources = S
    BY <2>11, <2>12, <2>13
  <2>2. event <=> "hblank" \in S
    BY <1>4 DEF ModeHigh
  <2>3. ly' = current_line
    BY <1>1, <1>9 DEF RunInv, SteadyInv, SteadyStat
  <2> HIDE DEF event
  <2>4. VBlanks = 0 /\ VBlanks' = 0 /\ 0 \in Int /\ Searches \in Nat
    BY <1>2, <1>4
  <2> HIDE DEF S
  <2>5. ByModes(S, current_line + 1, Searches, 0) =
            IF "hblank" \in S THEN Append(ByModes(S, current_line, Searches, 0), current_line)
            ELSE ByModes(S, current_line, Searches, 0)
    BY <1>2, <2>4, HBlankBegins, Zenon
  <2> QED BY <1>4, <2>1, <2>2, <2>3, <2>4, <2>5, Zenon
<1> QED BY <1>1, <1>6, <1>7, <1>8, <1>9 DEF RunInv, SteadyInv, RequestsInv

(* the search for objects, on all lines but the first, *)
LEMMA LineStep7Runs ==
    ASSUME RunInv, PaceInv, SinceInv, LineStep7, current_line # 0
    PROVE  RunInv'
<1> USE DEF LinePlaces, Drawing3, HBlankPlaces, VBlankPlaces, LastPlaces, FirstPlaces, None
<1>1. /\ display_state = 6 /\ display_state' = 7 /\ ly' = current_line
      /\ UNCHANGED <<on, current_line, steady, model>>
  BY DEF LineStep7, Wake, Same
<1>2. /\ StatTyped /\ on /\ current_line \in Nat /\ stat.lyc \in Nat
      /\ LINES \in Nat /\ LINES >= 1 /\ VIRTUAL_LINES \in Nat /\ VIRTUAL_LINES >= LINES + 2
      /\ InVBlank => stat.mode_for_interrupt = 1
      /\ current_line < LINES /\ current_line >= 1
  BY <1>1, Within
<1>3. Noted(2, None) /\ Requested(Rises)
  BY <1>2, UpdateNotes
<1>4. /\ LevelMode = 0 /\ Compared = current_line - 1 /\ ~InVBlank
      /\ ModeNow' = 2 /\ LevelMode' = 2 /\ Compared' = current_line - 1 /\ ~InVBlank'
      /\ HBlanks = current_line /\ HBlanks' = HBlanks /\ Searches' = current_line + 1
      /\ Searches = current_line /\ VBlanks = 0 /\ VBlanks' = 0
  BY <1>1, <1>2 DEF ModeNow, LevelMode, Compared, InVBlank, HBlanks, Searches, VBlanks
<1>5. stat' \in Stats /\ ~stat'.request /\ stat'.sources = stat.sources /\ stat'.lyc = stat.lyc
      /\ stat'.compare = None /\ stat'.mode_for_interrupt = 2
  BY <1>3 DEF Noted
<1>6. StatInv'
  BY <1>1, <1>2, <1>4, <1>5 DEF StatInv, StatTyped, Settled
<1>7. ASSUME steady
      PROVE  /\ SteadyStat'
             /\ stat.sources = {"lyc"} => requests' = IF stat.lyc = Compared' /\ stat.lyc # Compared
                                                        THEN Append(requests, ly') ELSE requests
             /\ stat.sources \in SUBSET {"hblank", "vblank", "oam"} =>
                    requests' = IF ModeHigh(2, stat.sources) /\ ~ModeHigh(LevelMode, stat.sources)
                                THEN Append(requests, ly') ELSE requests
  <2>1. Level
    BY <1>1, <1>2, <1>4, <1>7 DEF RunInv, SteadyInv, SteadyStat, Level
  <2>2. ModeNow' = 2 /\ LevelMode' = 2
        /\ Compared' = IF None = None THEN Compared ELSE None
    BY <1>1, <1>2, <1>4, <2>1 DEF Level
  <2>3. /\ Level'
        /\ stat.sources = {"lyc"} => requests' = IF stat.lyc = Compared' /\ stat.lyc # Compared
                                                   THEN Append(requests, ly') ELSE requests
        /\ stat.sources \in SUBSET {"hblank", "vblank", "oam"} =>
               requests' = IF ModeHigh(2, stat.sources) /\ ~ModeHigh(LevelMode, stat.sources)
                           THEN Append(requests, ly') ELSE requests
    BY <1>2, <1>3, <1>7, <2>1, <2>2, NotedRuns
  <2> QED BY <1>1, <1>2, <1>5, <2>1, <2>3 DEF SteadyStat, Level
<1>8. ASSUME steady', stat'.sources = {"lyc"} PROVE requests' = ByLyc'
  <2> DEFINE event == stat.lyc = Compared' /\ stat.lyc # Compared
  <2>1. requests = ByLyc /\ requests' = IF event THEN Append(requests, ly') ELSE requests
    BY <1>1, <1>5, <1>7, <1>8 DEF RunInv, RequestsInv
  <2>2. /\ event => /\ ~LycPassed /\ LycPassed'
                    /\ ly' = IF stat.lyc = VIRTUAL_LINES - 1 /\ ~model.late /\ ~model.double THEN 0
                             ELSE stat.lyc
        /\ ~event => (LycPassed' <=> LycPassed)
    BY <1>1, <1>2, <1>4, <1>5 DEF LycPassed
  <2>3. UNCHANGED <<stat.lyc, model>> /\ event \in BOOLEAN
    BY <1>1, <1>5
  <2> HIDE DEF event
  <2> QED BY <2>1, <2>2, <2>3, LycCounted
<1>9. ASSUME steady', stat'.sources \in SUBSET {"hblank", "vblank", "oam"}
      PROVE  requests' = ByModes(stat'.sources, HBlanks', Searches', VBlanks')
  <2> DEFINE S == stat.sources
             event == ModeHigh(2, S) /\ ~ModeHigh(LevelMode, S)
  <2>11. steady /\ stat'.sources = S /\ S \in SUBSET {"hblank", "vblank", "oam"}
    BY <1>1, <1>5, <1>9
  <2>12. requests = ByModes(S, HBlanks, Searches, VBlanks)
    BY <2>11, Zenon DEF RunInv, RequestsInv
  <2>13. requests' = IF event THEN Append(requests, ly') ELSE requests
    BY <1>7, <2>11
  <2>1. /\ requests = ByModes(S, HBlanks, Searches, VBlanks)
        /\ requests' = IF event THEN Append(requests, ly') ELSE requests
        /\ stat'.sources = S
    BY <2>11, <2>12, <2>13
  <2>2. event <=> "oam" \in S /\ "hblank" \notin S
    BY <1>4 DEF ModeHigh
  <2> HIDE DEF event
  <2>4. VBlanks = 0 /\ VBlanks' = 0 /\ HBlanks \in Nat
    BY <1>2, <1>4
  <2> HIDE DEF S
  <2>5. ByModes(S, HBlanks, current_line + 1, 0) =
            IF "oam" \in S /\ "hblank" \notin S
            THEN Append(ByModes(S, HBlanks, current_line, 0), current_line)
            ELSE ByModes(S, HBlanks, current_line, 0)
    BY <1>2, <2>4, SearchBegins, Zenon
  <2> QED BY <1>1, <1>4, <2>1, <2>2, <2>4, <2>5, Zenon
<1> QED BY <1>1, <1>6, <1>7, <1>8, <1>9 DEF RunInv, SteadyInv, RequestsInv

(* and on that one, *)
LEMMA FirstStep7Runs ==
    ASSUME RunInv, PaceInv, SinceInv, LineStep7, current_line = 0
    PROVE  RunInv'
<1> USE DEF LinePlaces, Drawing3, HBlankPlaces, VBlankPlaces, LastPlaces, FirstPlaces, None
<1>1. /\ display_state = 6 /\ display_state' = 7 /\ ly' = 0
      /\ UNCHANGED <<on, current_line, steady, model>>
  BY DEF LineStep7, Wake, Same
<1>2. /\ StatTyped /\ on /\ current_line \in Nat /\ stat.lyc \in Nat
      /\ LINES \in Nat /\ LINES >= 1 /\ VIRTUAL_LINES \in Nat /\ VIRTUAL_LINES >= LINES + 2
      /\ InVBlank => stat.mode_for_interrupt = 1
      /\ current_line = 0
  BY <1>1, Within
<1>3. Noted(stat.mode_for_interrupt, 0) /\ Requested(Rises)
  BY <1>2, UpdateNotes
<1>4. /\ ModeNow = 1 /\ LevelMode = 1 /\ Compared = 0 /\ ~InVBlank
      /\ ModeNow' = 1 /\ LevelMode' = 1 /\ Compared' = 0 /\ ~InVBlank'
      /\ HBlanks' = HBlanks /\ Searches' = Searches /\ VBlanks' = VBlanks
  BY <1>1, <1>2 DEF ModeNow, LevelMode, Compared, InVBlank, HBlanks, Searches, VBlanks
<1>5. stat' \in Stats /\ ~stat'.request /\ stat'.sources = stat.sources /\ stat'.lyc = stat.lyc
      /\ stat'.compare = 0 /\ stat'.mode_for_interrupt = stat.mode_for_interrupt
  BY <1>3 DEF Noted
<1>6. StatInv'
  BY <1>1, <1>2, <1>4, <1>5 DEF StatInv, StatTyped, Settled
<1>7. ASSUME steady
      PROVE  /\ SteadyStat'
             /\ stat.sources = {"lyc"} => requests' = IF stat.lyc = Compared' /\ stat.lyc # Compared
                                                        THEN Append(requests, ly') ELSE requests
             /\ stat.sources \in SUBSET {"hblank", "vblank", "oam"} =>
                    requests' = IF ModeHigh(stat.mode_for_interrupt, stat.sources) /\ ~ModeHigh(LevelMode, stat.sources)
                                THEN Append(requests, ly') ELSE requests
  <2>1. Level
    BY <1>1, <1>2, <1>4, <1>7 DEF RunInv, SteadyInv, SteadyStat, Level
  <2>2. ModeNow' = stat.mode_for_interrupt /\ LevelMode' = stat.mode_for_interrupt
        /\ Compared' = IF 0 = None THEN Compared ELSE 0
    BY <1>1, <1>2, <1>4, <2>1 DEF Level
  <2>3. /\ Level'
        /\ stat.sources = {"lyc"} => requests' = IF stat.lyc = Compared' /\ stat.lyc # Compared
                                                   THEN Append(requests, ly') ELSE requests
        /\ stat.sources \in SUBSET {"hblank", "vblank", "oam"} =>
               requests' = IF ModeHigh(stat.mode_for_interrupt, stat.sources) /\ ~ModeHigh(LevelMode, stat.sources)
                           THEN Append(requests, ly') ELSE requests
    BY <1>2, <1>3, <1>7, <2>1, <2>2, NotedRuns
  <2> QED BY <1>1, <1>2, <1>5, <2>1, <2>3 DEF SteadyStat, Level
<1>8. ASSUME steady', stat'.sources = {"lyc"} PROVE requests' = ByLyc'
  <2> DEFINE event == stat.lyc = Compared' /\ stat.lyc # Compared
  <2>1. requests = ByLyc /\ requests' = IF event THEN Append(requests, ly') ELSE requests
    BY <1>1, <1>5, <1>7, <1>8 DEF RunInv, RequestsInv
  <2>2. /\ event => /\ ~LycPassed /\ LycPassed'
                    /\ ly' = IF stat.lyc = VIRTUAL_LINES - 1 /\ ~model.late /\ ~model.double THEN 0
                             ELSE stat.lyc
        /\ ~event => (LycPassed' <=> LycPassed)
    BY <1>1, <1>2, <1>4, <1>5 DEF LycPassed
  <2>3. UNCHANGED <<stat.lyc, model>> /\ event \in BOOLEAN
    BY <1>1, <1>5
  <2> HIDE DEF event
  <2> QED BY <2>1, <2>2, <2>3, LycCounted
<1>9. ASSUME steady', stat'.sources \in SUBSET {"hblank", "vblank", "oam"}
      PROVE  requests' = ByModes(stat'.sources, HBlanks', Searches', VBlanks')
  <2> DEFINE S == stat.sources
             event == ModeHigh(stat.mode_for_interrupt, S) /\ ~ModeHigh(LevelMode, S)
  <2>11. steady /\ stat'.sources = S /\ S \in SUBSET {"hblank", "vblank", "oam"}
    BY <1>1, <1>5, <1>9
  <2>12. requests = ByModes(S, HBlanks, Searches, VBlanks)
    BY <2>11, Zenon DEF RunInv, RequestsInv
  <2>13. requests' = IF event THEN Append(requests, ly') ELSE requests
    BY <1>7, <2>11
  <2>1. /\ requests = ByModes(S, HBlanks, Searches, VBlanks)
        /\ requests' = IF event THEN Append(requests, ly') ELSE requests
        /\ stat'.sources = S
    BY <2>11, <2>12, <2>13
  <2>2. ~event
    <3>1. stat.mode_for_interrupt = ModeNow
      BY <1>1, <1>9 DEF RunInv, SteadyInv, SteadyStat
    <3> QED BY <1>4, <3>1
  <2> HIDE DEF event
  <2> QED BY <1>4, <2>1, <2>2, Zenon
<1> QED BY <1>1, <1>6, <1>7, <1>8, <1>9 DEF RunInv, SteadyInv, RequestsInv

(* the first line of VBlank, *)
LEMMA VBlankLineRuns ==
    ASSUME RunInv, PaceInv, SinceInv, VBlankLine, display_state = 31
    PROVE  RunInv'
<1> USE DEF LinePlaces, Drawing3, HBlankPlaces, VBlankPlaces, LastPlaces, FirstPlaces, None
<1>1. /\ display_state = 31 /\ display_state' = 26
      /\ current_line' = current_line + 1 /\ current_line = LINES - 1
      /\ UNCHANGED <<on, ly, steady, model>>
  BY DEF VBlankLine, WakeToLine, Same
<1>2. /\ StatTyped /\ on /\ current_line \in Nat /\ stat.lyc \in Nat
      /\ LINES \in Nat /\ LINES >= 1 /\ VIRTUAL_LINES \in Nat /\ VIRTUAL_LINES >= LINES + 2
      /\ InVBlank => stat.mode_for_interrupt = 1
      /\ current_line < LINES
  BY <1>1, Within
<1>3. Noted(stat.mode_for_interrupt, None) /\ Requested(Rises)
  BY <1>2, UpdateNotes
<1>4. /\ ModeNow = 0 /\ LevelMode = 0 /\ Compared = current_line /\ ~InVBlank
      /\ ModeNow' = 0 /\ LevelMode' = 0 /\ Compared' = current_line /\ ~InVBlank'
      /\ HBlanks' = HBlanks /\ Searches' = Searches /\ VBlanks' = VBlanks
  BY <1>1, <1>2 DEF ModeNow, LevelMode, Compared, InVBlank, HBlanks, Searches, VBlanks
<1>5. stat' \in Stats /\ ~stat'.request /\ stat'.sources = stat.sources /\ stat'.lyc = stat.lyc
      /\ stat'.compare = None /\ stat'.mode_for_interrupt = stat.mode_for_interrupt
  BY <1>3 DEF Noted
<1>6. StatInv'
  BY <1>1, <1>2, <1>4, <1>5 DEF StatInv, StatTyped, Settled
<1>7. ASSUME steady
      PROVE  /\ SteadyStat'
             /\ stat.sources = {"lyc"} => requests' = IF stat.lyc = Compared' /\ stat.lyc # Compared
                                                        THEN Append(requests, ly') ELSE requests
             /\ stat.sources \in SUBSET {"hblank", "vblank", "oam"} =>
                    requests' = IF ModeHigh(stat.mode_for_interrupt, stat.sources) /\ ~ModeHigh(LevelMode, stat.sources)
                                THEN Append(requests, ly') ELSE requests
  <2>1. Level
    BY <1>1, <1>2, <1>4, <1>7 DEF RunInv, SteadyInv, SteadyStat, Level
  <2>2. ModeNow' = stat.mode_for_interrupt /\ LevelMode' = stat.mode_for_interrupt
        /\ Compared' = IF None = None THEN Compared ELSE None
    BY <1>1, <1>2, <1>4, <2>1 DEF Level
  <2>3. /\ Level'
        /\ stat.sources = {"lyc"} => requests' = IF stat.lyc = Compared' /\ stat.lyc # Compared
                                                   THEN Append(requests, ly') ELSE requests
        /\ stat.sources \in SUBSET {"hblank", "vblank", "oam"} =>
               requests' = IF ModeHigh(stat.mode_for_interrupt, stat.sources) /\ ~ModeHigh(LevelMode, stat.sources)
                           THEN Append(requests, ly') ELSE requests
    BY <1>2, <1>3, <1>7, <2>1, <2>2, NotedRuns
  <2> QED BY <1>1, <1>2, <1>5, <2>1, <2>3 DEF SteadyStat, Level
<1>8. ASSUME steady', stat'.sources = {"lyc"} PROVE requests' = ByLyc'
  <2> DEFINE event == stat.lyc = Compared' /\ stat.lyc # Compared
  <2>1. requests = ByLyc /\ requests' = IF event THEN Append(requests, ly') ELSE requests
    BY <1>1, <1>5, <1>7, <1>8 DEF RunInv, RequestsInv
  <2>2. /\ event => /\ ~LycPassed /\ LycPassed'
                    /\ ly' = IF stat.lyc = VIRTUAL_LINES - 1 /\ ~model.late /\ ~model.double THEN 0
                             ELSE stat.lyc
        /\ ~event => (LycPassed' <=> LycPassed)
    BY <1>1, <1>2, <1>4, <1>5 DEF LycPassed
  <2>3. UNCHANGED <<stat.lyc, model>> /\ event \in BOOLEAN
    BY <1>1, <1>5
  <2> HIDE DEF event
  <2> QED BY <2>1, <2>2, <2>3, LycCounted
<1>9. ASSUME steady', stat'.sources \in SUBSET {"hblank", "vblank", "oam"}
      PROVE  requests' = ByModes(stat'.sources, HBlanks', Searches', VBlanks')
  <2> DEFINE S == stat.sources
             event == ModeHigh(stat.mode_for_interrupt, S) /\ ~ModeHigh(LevelMode, S)
  <2>11. steady /\ stat'.sources = S /\ S \in SUBSET {"hblank", "vblank", "oam"}
    BY <1>1, <1>5, <1>9
  <2>12. requests = ByModes(S, HBlanks, Searches, VBlanks)
    BY <2>11, Zenon DEF RunInv, RequestsInv
  <2>13. requests' = IF event THEN Append(requests, ly') ELSE requests
    BY <1>7, <2>11
  <2>1. /\ requests = ByModes(S, HBlanks, Searches, VBlanks)
        /\ requests' = IF event THEN Append(requests, ly') ELSE requests
        /\ stat'.sources = S
    BY <2>11, <2>12, <2>13
  <2>2. ~event
    <3>1. stat.mode_for_interrupt = ModeNow
      BY <1>1, <1>9 DEF RunInv, SteadyInv, SteadyStat
    <3> QED BY <1>4, <3>1
  <2> HIDE DEF event
  <2> QED BY <1>4, <2>1, <2>2, Zenon
<1> QED BY <1>1, <1>6, <1>7, <1>8, <1>9 DEF RunInv, SteadyInv, RequestsInv

(* the others, *)
LEMMA NextLineRuns ==
    ASSUME RunInv, PaceInv, SinceInv, VBlankLine, display_state # 31
    PROVE  RunInv'
<1> USE DEF LinePlaces, Drawing3, HBlankPlaces, VBlankPlaces, LastPlaces, FirstPlaces, None
<1>1. /\ display_state = 13 /\ display_state' = 26 /\ current_line < VIRTUAL_LINES - 2
      /\ current_line' = current_line + 1
      /\ UNCHANGED <<on, ly, steady, model>>
  BY DEF VBlankLine, WakeToLine, Same
<1>2. /\ StatTyped /\ on /\ current_line \in Nat /\ stat.lyc \in Nat
      /\ LINES \in Nat /\ LINES >= 1 /\ VIRTUAL_LINES \in Nat /\ VIRTUAL_LINES >= LINES + 2
      /\ InVBlank => stat.mode_for_interrupt = 1
      /\ current_line >= LINES
  BY <1>1, Within
<1>3. Noted(stat.mode_for_interrupt, None) /\ Requested(Rises)
  BY <1>2, UpdateNotes
<1>4. /\ ModeNow = 1 /\ LevelMode = 1 /\ Compared = current_line /\ InVBlank
      /\ ModeNow' = 1 /\ LevelMode' = 1 /\ Compared' = current_line /\ InVBlank'
      /\ HBlanks' = HBlanks /\ Searches' = Searches /\ VBlanks' = VBlanks
  BY <1>1, <1>2 DEF ModeNow, LevelMode, Compared, InVBlank, HBlanks, Searches, VBlanks
<1>5. stat' \in Stats /\ ~stat'.request /\ stat'.sources = stat.sources /\ stat'.lyc = stat.lyc
      /\ stat'.compare = None /\ stat'.mode_for_interrupt = stat.mode_for_interrupt
  BY <1>3 DEF Noted
<1>6. StatInv'
  BY <1>1, <1>2, <1>4, <1>5 DEF StatInv, StatTyped, Settled
<1>7. ASSUME steady
      PROVE  /\ SteadyStat'
             /\ stat.sources = {"lyc"} => requests' = IF stat.lyc = Compared' /\ stat.lyc # Compared
                                                        THEN Append(requests, ly') ELSE requests
             /\ stat.sources \in SUBSET {"hblank", "vblank", "oam"} =>
                    requests' = IF ModeHigh(stat.mode_for_interrupt, stat.sources) /\ ~ModeHigh(LevelMode, stat.sources)
                                THEN Append(requests, ly') ELSE requests
  <2>1. Level
    BY <1>1, <1>2, <1>4, <1>7 DEF RunInv, SteadyInv, SteadyStat, Level
  <2>2. ModeNow' = stat.mode_for_interrupt /\ LevelMode' = stat.mode_for_interrupt
        /\ Compared' = IF None = None THEN Compared ELSE None
    BY <1>1, <1>2, <1>4, <2>1 DEF Level
  <2>3. /\ Level'
        /\ stat.sources = {"lyc"} => requests' = IF stat.lyc = Compared' /\ stat.lyc # Compared
                                                   THEN Append(requests, ly') ELSE requests
        /\ stat.sources \in SUBSET {"hblank", "vblank", "oam"} =>
               requests' = IF ModeHigh(stat.mode_for_interrupt, stat.sources) /\ ~ModeHigh(LevelMode, stat.sources)
                           THEN Append(requests, ly') ELSE requests
    BY <1>2, <1>3, <1>7, <2>1, <2>2, NotedRuns
  <2> QED BY <1>1, <1>2, <1>5, <2>1, <2>3 DEF SteadyStat, Level
<1>8. ASSUME steady', stat'.sources = {"lyc"} PROVE requests' = ByLyc'
  <2> DEFINE event == stat.lyc = Compared' /\ stat.lyc # Compared
  <2>1. requests = ByLyc /\ requests' = IF event THEN Append(requests, ly') ELSE requests
    BY <1>1, <1>5, <1>7, <1>8 DEF RunInv, RequestsInv
  <2>2. /\ event => /\ ~LycPassed /\ LycPassed'
                    /\ ly' = IF stat.lyc = VIRTUAL_LINES - 1 /\ ~model.late /\ ~model.double THEN 0
                             ELSE stat.lyc
        /\ ~event => (LycPassed' <=> LycPassed)
    BY <1>1, <1>2, <1>4, <1>5 DEF LycPassed
  <2>3. UNCHANGED <<stat.lyc, model>> /\ event \in BOOLEAN
    BY <1>1, <1>5
  <2> HIDE DEF event
  <2> QED BY <2>1, <2>2, <2>3, LycCounted
<1>9. ASSUME steady', stat'.sources \in SUBSET {"hblank", "vblank", "oam"}
      PROVE  requests' = ByModes(stat'.sources, HBlanks', Searches', VBlanks')
  <2> DEFINE S == stat.sources
             event == ModeHigh(stat.mode_for_interrupt, S) /\ ~ModeHigh(LevelMode, S)
  <2>11. steady /\ stat'.sources = S /\ S \in SUBSET {"hblank", "vblank", "oam"}
    BY <1>1, <1>5, <1>9
  <2>12. requests = ByModes(S, HBlanks, Searches, VBlanks)
    BY <2>11, Zenon DEF RunInv, RequestsInv
  <2>13. requests' = IF event THEN Append(requests, ly') ELSE requests
    BY <1>7, <2>11
  <2>1. /\ requests = ByModes(S, HBlanks, Searches, VBlanks)
        /\ requests' = IF event THEN Append(requests, ly') ELSE requests
        /\ stat'.sources = S
    BY <2>11, <2>12, <2>13
  <2>2. ~event
    <3>1. stat.mode_for_interrupt = ModeNow
      BY <1>1, <1>9 DEF RunInv, SteadyInv, SteadyStat
    <3> QED BY <1>4, <3>1
  <2> HIDE DEF event
  <2> QED BY <1>4, <2>1, <2>2, Zenon
<1> QED BY <1>1, <1>6, <1>7, <1>8, <1>9 DEF RunInv, SteadyInv, RequestsInv

(* the last line, *)
LEMMA LastLineRuns ==
    ASSUME RunInv, PaceInv, SinceInv, LastLine
    PROVE  RunInv'
<1> USE DEF LinePlaces, Drawing3, HBlankPlaces, VBlankPlaces, LastPlaces, FirstPlaces, None
<1>1. /\ display_state = 13 /\ display_state' = 19 /\ current_line = VIRTUAL_LINES - 2
      /\ current_line' = VIRTUAL_LINES - 1
      /\ UNCHANGED <<on, ly, steady, model>>
  BY DEF LastLine, WakeToLine, Same
<1>2. /\ StatTyped /\ on /\ current_line \in Nat /\ stat.lyc \in Nat
      /\ LINES \in Nat /\ LINES >= 1 /\ VIRTUAL_LINES \in Nat /\ VIRTUAL_LINES >= LINES + 2
      /\ InVBlank => stat.mode_for_interrupt = 1
      /\ current_line >= LINES
  BY <1>1, Within
<1>3. Noted(stat.mode_for_interrupt, None) /\ Requested(Rises)
  BY <1>2, UpdateNotes
<1>4. /\ ModeNow = 1 /\ LevelMode = 1 /\ Compared = current_line /\ InVBlank
      /\ ModeNow' = 1 /\ LevelMode' = 1 /\ Compared' = current_line /\ InVBlank'
      /\ HBlanks' = HBlanks /\ Searches' = Searches /\ VBlanks' = VBlanks
  BY <1>1, <1>2 DEF ModeNow, LevelMode, Compared, InVBlank, HBlanks, Searches, VBlanks
<1>5. stat' \in Stats /\ ~stat'.request /\ stat'.sources = stat.sources /\ stat'.lyc = stat.lyc
      /\ stat'.compare = None /\ stat'.mode_for_interrupt = stat.mode_for_interrupt
  BY <1>3 DEF Noted
<1>6. StatInv'
  BY <1>1, <1>2, <1>4, <1>5 DEF StatInv, StatTyped, Settled
<1>7. ASSUME steady
      PROVE  /\ SteadyStat'
             /\ stat.sources = {"lyc"} => requests' = IF stat.lyc = Compared' /\ stat.lyc # Compared
                                                        THEN Append(requests, ly') ELSE requests
             /\ stat.sources \in SUBSET {"hblank", "vblank", "oam"} =>
                    requests' = IF ModeHigh(stat.mode_for_interrupt, stat.sources) /\ ~ModeHigh(LevelMode, stat.sources)
                                THEN Append(requests, ly') ELSE requests
  <2>1. Level
    BY <1>1, <1>2, <1>4, <1>7 DEF RunInv, SteadyInv, SteadyStat, Level
  <2>2. ModeNow' = stat.mode_for_interrupt /\ LevelMode' = stat.mode_for_interrupt
        /\ Compared' = IF None = None THEN Compared ELSE None
    BY <1>1, <1>2, <1>4, <2>1 DEF Level
  <2>3. /\ Level'
        /\ stat.sources = {"lyc"} => requests' = IF stat.lyc = Compared' /\ stat.lyc # Compared
                                                   THEN Append(requests, ly') ELSE requests
        /\ stat.sources \in SUBSET {"hblank", "vblank", "oam"} =>
               requests' = IF ModeHigh(stat.mode_for_interrupt, stat.sources) /\ ~ModeHigh(LevelMode, stat.sources)
                           THEN Append(requests, ly') ELSE requests
    BY <1>2, <1>3, <1>7, <2>1, <2>2, NotedRuns
  <2> QED BY <1>1, <1>2, <1>5, <2>1, <2>3 DEF SteadyStat, Level
<1>8. ASSUME steady', stat'.sources = {"lyc"} PROVE requests' = ByLyc'
  <2> DEFINE event == stat.lyc = Compared' /\ stat.lyc # Compared
  <2>1. requests = ByLyc /\ requests' = IF event THEN Append(requests, ly') ELSE requests
    BY <1>1, <1>5, <1>7, <1>8 DEF RunInv, RequestsInv
  <2>2. /\ event => /\ ~LycPassed /\ LycPassed'
                    /\ ly' = IF stat.lyc = VIRTUAL_LINES - 1 /\ ~model.late /\ ~model.double THEN 0
                             ELSE stat.lyc
        /\ ~event => (LycPassed' <=> LycPassed)
    BY <1>1, <1>2, <1>4, <1>5 DEF LycPassed
  <2>3. UNCHANGED <<stat.lyc, model>> /\ event \in BOOLEAN
    BY <1>1, <1>5
  <2> HIDE DEF event
  <2> QED BY <2>1, <2>2, <2>3, LycCounted
<1>9. ASSUME steady', stat'.sources \in SUBSET {"hblank", "vblank", "oam"}
      PROVE  requests' = ByModes(stat'.sources, HBlanks', Searches', VBlanks')
  <2> DEFINE S == stat.sources
             event == ModeHigh(stat.mode_for_interrupt, S) /\ ~ModeHigh(LevelMode, S)
  <2>11. steady /\ stat'.sources = S /\ S \in SUBSET {"hblank", "vblank", "oam"}
    BY <1>1, <1>5, <1>9
  <2>12. requests = ByModes(S, HBlanks, Searches, VBlanks)
    BY <2>11, Zenon DEF RunInv, RequestsInv
  <2>13. requests' = IF event THEN Append(requests, ly') ELSE requests
    BY <1>7, <2>11
  <2>1. /\ requests = ByModes(S, HBlanks, Searches, VBlanks)
        /\ requests' = IF event THEN Append(requests, ly') ELSE requests
        /\ stat'.sources = S
    BY <2>11, <2>12, <2>13
  <2>2. ~event
    <3>1. stat.mode_for_interrupt = ModeNow
      BY <1>1, <1>9 DEF RunInv, SteadyInv, SteadyStat
    <3> QED BY <1>4, <3>1
  <2> HIDE DEF event
  <2> QED BY <1>4, <2>1, <2>2, Zenon
<1> QED BY <1>1, <1>6, <1>7, <1>8, <1>9 DEF RunInv, SteadyInv, RequestsInv

(* the comparison with a line of VBlank, *)
LEMMA VBlankCompareRuns ==
    ASSUME RunInv, PaceInv, SinceInv, VBlankCompare
    PROVE  RunInv'
<1> USE DEF LinePlaces, Drawing3, HBlankPlaces, VBlankPlaces, LastPlaces, FirstPlaces, None
<1>1. /\ display_state = 12 /\ display_state' = 24
      /\ UNCHANGED <<on, current_line, ly, steady, model>>
  BY DEF VBlankCompare, Wake, Same
<1>2. /\ StatTyped /\ on /\ current_line \in Nat /\ stat.lyc \in Nat
      /\ LINES \in Nat /\ LINES >= 1 /\ VIRTUAL_LINES \in Nat /\ VIRTUAL_LINES >= LINES + 2
      /\ InVBlank => stat.mode_for_interrupt = 1
      /\ current_line >= LINES /\ current_line <= VIRTUAL_LINES - 2
  BY <1>1, Within
<1>3. Noted(stat.mode_for_interrupt, current_line) /\ Requested(Rises)
  BY <1>2, UpdateNotes
<1>4. /\ LevelMode = ModeNow /\ Compared = current_line - 1
      /\ ModeNow' = ModeNow /\ LevelMode' = ModeNow /\ Compared' = current_line
      /\ InVBlank' = InVBlank
      /\ HBlanks' = HBlanks /\ Searches' = Searches /\ VBlanks' = VBlanks
  BY <1>1, <1>2 DEF ModeNow, LevelMode, Compared, InVBlank, HBlanks, Searches, VBlanks
<1>5. stat' \in Stats /\ ~stat'.request /\ stat'.sources = stat.sources /\ stat'.lyc = stat.lyc
      /\ stat'.compare = current_line /\ stat'.mode_for_interrupt = stat.mode_for_interrupt
  BY <1>3 DEF Noted
<1>6. StatInv'
  BY <1>1, <1>2, <1>4, <1>5 DEF StatInv, StatTyped, Settled
<1>7. ASSUME steady
      PROVE  /\ SteadyStat'
             /\ stat.sources = {"lyc"} => requests' = IF stat.lyc = Compared' /\ stat.lyc # Compared
                                                        THEN Append(requests, ly') ELSE requests
             /\ stat.sources \in SUBSET {"hblank", "vblank", "oam"} =>
                    requests' = IF ModeHigh(stat.mode_for_interrupt, stat.sources) /\ ~ModeHigh(LevelMode, stat.sources)
                                THEN Append(requests, ly') ELSE requests
  <2>1. Level /\ ly = current_line
    BY <1>1, <1>2, <1>4, <1>7 DEF RunInv, SteadyInv, SteadyStat, Level
  <2>2. ModeNow' = stat.mode_for_interrupt /\ LevelMode' = stat.mode_for_interrupt
        /\ Compared' = IF current_line = None THEN Compared ELSE current_line
    BY <1>1, <1>2, <1>4, <2>1 DEF Level
  <2>3. /\ Level'
        /\ stat.sources = {"lyc"} => requests' = IF stat.lyc = Compared' /\ stat.lyc # Compared
                                                   THEN Append(requests, ly') ELSE requests
        /\ stat.sources \in SUBSET {"hblank", "vblank", "oam"} =>
               requests' = IF ModeHigh(stat.mode_for_interrupt, stat.sources) /\ ~ModeHigh(LevelMode, stat.sources)
                           THEN Append(requests, ly') ELSE requests
    BY <1>2, <1>3, <1>7, <2>1, <2>2, NotedRuns
  <2> QED BY <1>1, <1>2, <1>5, <2>1, <2>3 DEF SteadyStat, Level
<1>8. ASSUME steady', stat'.sources = {"lyc"} PROVE requests' = ByLyc'
  <2> DEFINE event == stat.lyc = Compared' /\ stat.lyc # Compared
  <2>1. requests = ByLyc /\ requests' = IF event THEN Append(requests, ly') ELSE requests
    BY <1>1, <1>5, <1>7, <1>8 DEF RunInv, RequestsInv
  <2>2. /\ event => /\ ~LycPassed /\ LycPassed'
                    /\ ly' = IF stat.lyc = VIRTUAL_LINES - 1 /\ ~model.late /\ ~model.double THEN 0
                             ELSE stat.lyc
        /\ ~event => (LycPassed' <=> LycPassed)
    <3>1. SteadyStat
      BY <1>1, <1>8 DEF RunInv, SteadyInv
    <3>2. ly = current_line
      BY <1>1, <3>1 DEF SteadyStat
    <3> QED BY <1>1, <1>2, <1>4, <1>5, <3>2 DEF LycPassed
  <2>3. UNCHANGED <<stat.lyc, model>> /\ event \in BOOLEAN
    BY <1>1, <1>5
  <2> HIDE DEF event
  <2> QED BY <2>1, <2>2, <2>3, LycCounted
<1>9. ASSUME steady', stat'.sources \in SUBSET {"hblank", "vblank", "oam"}
      PROVE  requests' = ByModes(stat'.sources, HBlanks', Searches', VBlanks')
  <2> DEFINE S == stat.sources
             event == ModeHigh(stat.mode_for_interrupt, S) /\ ~ModeHigh(LevelMode, S)
  <2>11. steady /\ stat'.sources = S /\ S \in SUBSET {"hblank", "vblank", "oam"}
    BY <1>1, <1>5, <1>9
  <2>12. requests = ByModes(S, HBlanks, Searches, VBlanks)
    BY <2>11, Zenon DEF RunInv, RequestsInv
  <2>13. requests' = IF event THEN Append(requests, ly') ELSE requests
    BY <1>7, <2>11
  <2>1. /\ requests = ByModes(S, HBlanks, Searches, VBlanks)
        /\ requests' = IF event THEN Append(requests, ly') ELSE requests
        /\ stat'.sources = S
    BY <2>11, <2>12, <2>13
  <2>2. ~event
    <3>1. stat.mode_for_interrupt = ModeNow
      BY <1>1, <1>9 DEF RunInv, SteadyInv, SteadyStat
    <3> QED BY <1>4, <3>1
  <2> HIDE DEF event
  <2> QED BY <1>4, <2>1, <2>2, Zenon
<1> QED BY <1>1, <1>6, <1>7, <1>8, <1>9 DEF RunInv, SteadyInv, RequestsInv

(* (an update leaves the level it says), *)
LEMMA NotedLevel ==
    ASSUME Level, NEW mode, NEW compare, Noted(mode, compare),
           ModeNow' = mode, LevelMode' = mode,
           Compared' = IF compare = None THEN Compared ELSE compare
    PROVE  Level'
BY DEF Noted, Level

(* the comparisons on the last line, as LY becomes 0 (state 15), *)
LEMMA Step15Runs ==
    ASSUME RunInv, PaceInv, SinceInv, LastLineStep(14, 15, IF model.late THEN 4 ELSE 2,
                        IF ~model.late /\ ~model.double THEN 0 ELSE ly, VIRTUAL_LINES - 1)
    PROVE  RunInv'
<1> USE DEF LinePlaces, Drawing3, HBlankPlaces, VBlankPlaces, LastPlaces, FirstPlaces, None
<1>1. /\ display_state = 14 /\ display_state' = 15 /\ ly' = IF ~model.late /\ ~model.double THEN 0 ELSE ly
      /\ UNCHANGED <<on, current_line, steady, model>>
  BY DEF LastLineStep, Wake, Same, InVBlank
<1>2. /\ StatTyped /\ on /\ current_line \in Nat /\ stat.lyc \in Nat
      /\ LINES \in Nat /\ LINES >= 1 /\ VIRTUAL_LINES \in Nat /\ VIRTUAL_LINES >= LINES + 2
      /\ InVBlank => stat.mode_for_interrupt = 1
      /\ current_line = VIRTUAL_LINES - 1 /\ InVBlank
  BY <1>1, Within DEF InVBlank
<1>3. Noted(stat.mode_for_interrupt, VIRTUAL_LINES - 1) /\ Requested(Rises)
  <2>1. VIRTUAL_LINES - 1 \in {None} \union Nat
    BY <1>2
  <2>2. 14 \notin {19, 29}
    OBVIOUS
  <2> QED BY <1>2, <2>1, <2>2, LastLineNotes
<1>4. /\ ModeNow = 1 /\ LevelMode = 1 /\ Compared = current_line - 1 /\ InVBlank
      /\ ModeNow' = 1 /\ LevelMode' = 1 /\ Compared' = current_line /\ InVBlank'
      /\ HBlanks' = HBlanks /\ Searches' = Searches /\ VBlanks' = VBlanks
  BY <1>1, <1>2 DEF ModeNow, LevelMode, Compared, InVBlank, HBlanks, Searches, VBlanks
<1>5. stat' \in Stats /\ ~stat'.request /\ stat'.sources = stat.sources /\ stat'.lyc = stat.lyc
      /\ stat'.compare = VIRTUAL_LINES - 1 /\ stat'.mode_for_interrupt = stat.mode_for_interrupt
  BY <1>3 DEF Noted
<1>6. StatInv'
  BY <1>1, <1>2, <1>4, <1>5, <1>3 DEF StatInv, StatTyped, Settled, Noted
<1>7. ASSUME steady
      PROVE  /\ SteadyStat'
             /\ stat.sources = {"lyc"} => requests' = IF stat.lyc = Compared' /\ stat.lyc # Compared
                                                        THEN Append(requests, ly') ELSE requests
             /\ stat.sources \in SUBSET {"hblank", "vblank", "oam"} =>
                    requests' = IF ModeHigh(stat.mode_for_interrupt, stat.sources) /\ ~ModeHigh(LevelMode, stat.sources)
                                THEN Append(requests, ly') ELSE requests
  <2>1. Level /\ ly = current_line
    BY <1>1, <1>2, <1>4, <1>7 DEF RunInv, SteadyInv, SteadyStat, Level
  <2>2. ModeNow' = stat.mode_for_interrupt /\ LevelMode' = stat.mode_for_interrupt
        /\ Compared' = IF VIRTUAL_LINES - 1 = None THEN Compared ELSE VIRTUAL_LINES - 1
    BY <1>1, <1>2, <1>4, <2>1 DEF Level
  <2>3. /\ Level'
        /\ stat.sources = {"lyc"} => requests' = IF stat.lyc = Compared' /\ stat.lyc # Compared
                                                   THEN Append(requests, ly') ELSE requests
        /\ stat.sources \in SUBSET {"hblank", "vblank", "oam"} =>
               requests' = IF ModeHigh(stat.mode_for_interrupt, stat.sources) /\ ~ModeHigh(LevelMode, stat.sources)
                           THEN Append(requests, ly') ELSE requests
    BY <1>2, <1>3, <1>7, <2>1, <2>2, NotedRuns
  <2> QED BY <1>1, <1>2, <1>5, <2>1, <2>3 DEF SteadyStat, Level
<1>8. ASSUME steady', stat'.sources = {"lyc"} PROVE requests' = ByLyc'
  <2> DEFINE event == stat.lyc = Compared' /\ stat.lyc # Compared
  <2>1. requests = ByLyc /\ requests' = IF event THEN Append(requests, ly') ELSE requests
    BY <1>1, <1>5, <1>7, <1>8 DEF RunInv, RequestsInv
  <2>2. /\ event => /\ ~LycPassed /\ LycPassed'
                    /\ ly' = IF stat.lyc = VIRTUAL_LINES - 1 /\ ~model.late /\ ~model.double THEN 0
                             ELSE stat.lyc
        /\ ~event => (LycPassed' <=> LycPassed)
    <3>1. SteadyStat
      BY <1>1, <1>8 DEF RunInv, SteadyInv
    <3>2. ly = current_line
      BY <1>1, <3>1 DEF SteadyStat
    <3> QED BY <1>1, <1>2, <1>4, <1>5, <3>2 DEF LycPassed
  <2>3. UNCHANGED <<stat.lyc, model>> /\ event \in BOOLEAN
    BY <1>1, <1>5
  <2> HIDE DEF event
  <2> QED BY <2>1, <2>2, <2>3, LycCounted
<1>9. ASSUME steady', stat'.sources \in SUBSET {"hblank", "vblank", "oam"}
      PROVE  requests' = ByModes(stat'.sources, HBlanks', Searches', VBlanks')
  <2> DEFINE S == stat.sources
             event == ModeHigh(stat.mode_for_interrupt, S) /\ ~ModeHigh(LevelMode, S)
  <2>11. steady /\ stat'.sources = S /\ S \in SUBSET {"hblank", "vblank", "oam"}
    BY <1>1, <1>5, <1>9
  <2>12. requests = ByModes(S, HBlanks, Searches, VBlanks)
    BY <2>11, Zenon DEF RunInv, RequestsInv
  <2>13. requests' = IF event THEN Append(requests, ly') ELSE requests
    BY <1>7, <2>11
  <2>1. /\ requests = ByModes(S, HBlanks, Searches, VBlanks)
        /\ requests' = IF event THEN Append(requests, ly') ELSE requests
        /\ stat'.sources = S
    BY <2>11, <2>12, <2>13
  <2>2. ~event
    <3>1. stat.mode_for_interrupt = ModeNow
      BY <1>1, <1>9 DEF RunInv, SteadyInv, SteadyStat
    <3> QED BY <1>4, <3>1
  <2> HIDE DEF event
  <2> QED BY <1>4, <2>1, <2>2, Zenon
<1> QED BY <1>1, <1>6, <1>7, <1>8, <1>9 DEF RunInv, SteadyInv, RequestsInv

(* after it has (16), *)
LEMMA Step16Runs ==
    ASSUME RunInv, PaceInv, SinceInv, LastLineStep(15, 16, 4,
                        0, (IF model.late \/ model.double THEN VIRTUAL_LINES - 1 ELSE None))
    PROVE  RunInv'
<1> USE DEF LinePlaces, Drawing3, HBlankPlaces, VBlankPlaces, LastPlaces, FirstPlaces, None
<1>1. /\ display_state = 15 /\ display_state' = 16 /\ ly' = 0
      /\ UNCHANGED <<on, current_line, steady, model>>
  BY DEF LastLineStep, Wake, Same, InVBlank
<1>2. /\ StatTyped /\ on /\ current_line \in Nat /\ stat.lyc \in Nat
      /\ LINES \in Nat /\ LINES >= 1 /\ VIRTUAL_LINES \in Nat /\ VIRTUAL_LINES >= LINES + 2
      /\ InVBlank => stat.mode_for_interrupt = 1
      /\ current_line = VIRTUAL_LINES - 1 /\ InVBlank
  BY <1>1, Within DEF InVBlank
<1>3. Noted(stat.mode_for_interrupt, (IF model.late \/ model.double THEN VIRTUAL_LINES - 1 ELSE None)) /\ Requested(Rises)
  <2>1. (IF model.late \/ model.double THEN VIRTUAL_LINES - 1 ELSE None) \in {None} \union Nat
    BY <1>2
  <2>2. 15 \notin {19, 29}
    OBVIOUS
  <2> QED BY <1>2, <2>1, <2>2, LastLineNotes
<1>4. /\ ModeNow = 1 /\ LevelMode = 1 /\ Compared = current_line /\ InVBlank
      /\ ModeNow' = 1 /\ LevelMode' = 1 /\ Compared' = current_line /\ InVBlank'
      /\ HBlanks' = HBlanks /\ Searches' = Searches /\ VBlanks' = VBlanks
  BY <1>1, <1>2 DEF ModeNow, LevelMode, Compared, InVBlank, HBlanks, Searches, VBlanks
<1>5. stat' \in Stats /\ ~stat'.request /\ stat'.sources = stat.sources /\ stat'.lyc = stat.lyc
      /\ stat'.compare = (IF model.late \/ model.double THEN VIRTUAL_LINES - 1 ELSE None) /\ stat'.mode_for_interrupt = stat.mode_for_interrupt
  BY <1>3 DEF Noted
<1>6. StatInv'
  BY <1>1, <1>2, <1>4, <1>5, <1>3 DEF StatInv, StatTyped, Settled, Noted
<1>7. ASSUME steady
      PROVE  /\ SteadyStat'
             /\ stat.sources = {"lyc"} => requests' = IF stat.lyc = Compared' /\ stat.lyc # Compared
                                                        THEN Append(requests, ly') ELSE requests
             /\ stat.sources \in SUBSET {"hblank", "vblank", "oam"} =>
                    requests' = IF ModeHigh(stat.mode_for_interrupt, stat.sources) /\ ~ModeHigh(LevelMode, stat.sources)
                                THEN Append(requests, ly') ELSE requests
  <2>1. Level
    BY <1>1, <1>2, <1>4, <1>7 DEF RunInv, SteadyInv, SteadyStat, Level
  <2>2. ModeNow' = stat.mode_for_interrupt /\ LevelMode' = stat.mode_for_interrupt
        /\ Compared' = IF (IF model.late \/ model.double THEN VIRTUAL_LINES - 1 ELSE None) = None THEN Compared ELSE (IF model.late \/ model.double THEN VIRTUAL_LINES - 1 ELSE None)
    BY <1>1, <1>2, <1>4, <2>1 DEF Level
  <2>3. /\ Level'
        /\ stat.sources = {"lyc"} => requests' = IF stat.lyc = Compared' /\ stat.lyc # Compared
                                                   THEN Append(requests, ly') ELSE requests
        /\ stat.sources \in SUBSET {"hblank", "vblank", "oam"} =>
               requests' = IF ModeHigh(stat.mode_for_interrupt, stat.sources) /\ ~ModeHigh(LevelMode, stat.sources)
                           THEN Append(requests, ly') ELSE requests
    BY <1>2, <1>3, <1>7, <2>1, <2>2, NotedRuns
  <2> QED BY <1>1, <1>2, <1>5, <2>1, <2>3 DEF SteadyStat, Level
<1>8. ASSUME steady', stat'.sources = {"lyc"} PROVE requests' = ByLyc'
  <2> DEFINE event == stat.lyc = Compared' /\ stat.lyc # Compared
  <2>1. requests = ByLyc /\ requests' = IF event THEN Append(requests, ly') ELSE requests
    BY <1>1, <1>5, <1>7, <1>8 DEF RunInv, RequestsInv
  <2>2. /\ event => /\ ~LycPassed /\ LycPassed'
                    /\ ly' = IF stat.lyc = VIRTUAL_LINES - 1 /\ ~model.late /\ ~model.double THEN 0
                             ELSE stat.lyc
        /\ ~event => (LycPassed' <=> LycPassed)
    BY <1>1, <1>2, <1>4, <1>5 DEF LycPassed
  <2>3. UNCHANGED <<stat.lyc, model>> /\ event \in BOOLEAN
    BY <1>1, <1>5
  <2> HIDE DEF event
  <2> QED BY <2>1, <2>2, <2>3, LycCounted
<1>9. ASSUME steady', stat'.sources \in SUBSET {"hblank", "vblank", "oam"}
      PROVE  requests' = ByModes(stat'.sources, HBlanks', Searches', VBlanks')
  <2> DEFINE S == stat.sources
             event == ModeHigh(stat.mode_for_interrupt, S) /\ ~ModeHigh(LevelMode, S)
  <2>11. steady /\ stat'.sources = S /\ S \in SUBSET {"hblank", "vblank", "oam"}
    BY <1>1, <1>5, <1>9
  <2>12. requests = ByModes(S, HBlanks, Searches, VBlanks)
    BY <2>11, Zenon DEF RunInv, RequestsInv
  <2>13. requests' = IF event THEN Append(requests, ly') ELSE requests
    BY <1>7, <2>11
  <2>1. /\ requests = ByModes(S, HBlanks, Searches, VBlanks)
        /\ requests' = IF event THEN Append(requests, ly') ELSE requests
        /\ stat'.sources = S
    BY <2>11, <2>12, <2>13
  <2>2. ~event
    <3>1. stat.mode_for_interrupt = ModeNow
      BY <1>1, <1>9 DEF RunInv, SteadyInv, SteadyStat
    <3> QED BY <1>4, <3>1
  <2> HIDE DEF event
  <2> QED BY <1>4, <2>1, <2>2, Zenon
<1> QED BY <1>1, <1>6, <1>7, <1>8, <1>9 DEF RunInv, SteadyInv, RequestsInv

(* and with line 0 (29), *)
LEMMA Step29Runs ==
    ASSUME RunInv, PaceInv, SinceInv, LastLineStep(16, 29, 12,
                        0, 0)
    PROVE  RunInv'
<1> USE DEF LinePlaces, Drawing3, HBlankPlaces, VBlankPlaces, LastPlaces, FirstPlaces, None
<1>1. /\ display_state = 16 /\ display_state' = 29 /\ ly' = 0
      /\ UNCHANGED <<on, current_line, steady, model>>
  BY DEF LastLineStep, Wake, Same, InVBlank
<1>2. /\ StatTyped /\ on /\ current_line \in Nat /\ stat.lyc \in Nat
      /\ LINES \in Nat /\ LINES >= 1 /\ VIRTUAL_LINES \in Nat /\ VIRTUAL_LINES >= LINES + 2
      /\ InVBlank => stat.mode_for_interrupt = 1
      /\ current_line = VIRTUAL_LINES - 1 /\ InVBlank
  BY <1>1, Within DEF InVBlank
<1>3. Noted(stat.mode_for_interrupt, 0) /\ Requested(Rises)
  <2>1. 0 \in {None} \union Nat
    BY <1>2
  <2>2. 16 \notin {19, 29}
    OBVIOUS
  <2> QED BY <1>2, <2>1, <2>2, LastLineNotes
<1>4. /\ ModeNow = 1 /\ LevelMode = 1 /\ Compared = current_line /\ InVBlank
      /\ ModeNow' = 1 /\ LevelMode' = 1 /\ Compared' = 0 /\ InVBlank'
      /\ HBlanks' = HBlanks /\ Searches' = Searches /\ VBlanks' = VBlanks
  BY <1>1, <1>2 DEF ModeNow, LevelMode, Compared, InVBlank, HBlanks, Searches, VBlanks
<1>5. stat' \in Stats /\ ~stat'.request /\ stat'.sources = stat.sources /\ stat'.lyc = stat.lyc
      /\ stat'.compare = 0 /\ stat'.mode_for_interrupt = stat.mode_for_interrupt
  BY <1>3 DEF Noted
<1>6. StatInv'
  BY <1>1, <1>2, <1>4, <1>5, <1>3 DEF StatInv, StatTyped, Settled, Noted
<1>7. ASSUME steady
      PROVE  /\ SteadyStat'
             /\ stat.sources = {"lyc"} => requests' = IF stat.lyc = Compared' /\ stat.lyc # Compared
                                                        THEN Append(requests, ly') ELSE requests
             /\ stat.sources \in SUBSET {"hblank", "vblank", "oam"} =>
                    requests' = IF ModeHigh(stat.mode_for_interrupt, stat.sources) /\ ~ModeHigh(LevelMode, stat.sources)
                                THEN Append(requests, ly') ELSE requests
  <2>1. Level
    BY <1>1, <1>2, <1>4, <1>7 DEF RunInv, SteadyInv, SteadyStat, Level
  <2>2. ModeNow' = stat.mode_for_interrupt /\ LevelMode' = stat.mode_for_interrupt
        /\ Compared' = IF 0 = None THEN Compared ELSE 0
    BY <1>1, <1>2, <1>4, <2>1 DEF Level
  <2>3. /\ Level'
        /\ stat.sources = {"lyc"} => requests' = IF stat.lyc = Compared' /\ stat.lyc # Compared
                                                   THEN Append(requests, ly') ELSE requests
        /\ stat.sources \in SUBSET {"hblank", "vblank", "oam"} =>
               requests' = IF ModeHigh(stat.mode_for_interrupt, stat.sources) /\ ~ModeHigh(LevelMode, stat.sources)
                           THEN Append(requests, ly') ELSE requests
    BY <1>2, <1>3, <1>7, <2>1, <2>2, NotedRuns
  <2> QED BY <1>1, <1>2, <1>5, <2>1, <2>3 DEF SteadyStat, Level
<1>8. ASSUME steady', stat'.sources = {"lyc"} PROVE requests' = ByLyc'
  <2> DEFINE event == stat.lyc = Compared' /\ stat.lyc # Compared
  <2>1. requests = ByLyc /\ requests' = IF event THEN Append(requests, ly') ELSE requests
    BY <1>1, <1>5, <1>7, <1>8 DEF RunInv, RequestsInv
  <2>2. /\ event => /\ ~LycPassed /\ LycPassed'
                    /\ ly' = IF stat.lyc = VIRTUAL_LINES - 1 /\ ~model.late /\ ~model.double THEN 0
                             ELSE stat.lyc
        /\ ~event => (LycPassed' <=> LycPassed)
    BY <1>1, <1>2, <1>4, <1>5 DEF LycPassed
  <2>3. UNCHANGED <<stat.lyc, model>> /\ event \in BOOLEAN
    BY <1>1, <1>5
  <2> HIDE DEF event
  <2> QED BY <2>1, <2>2, <2>3, LycCounted
<1>9. ASSUME steady', stat'.sources \in SUBSET {"hblank", "vblank", "oam"}
      PROVE  requests' = ByModes(stat'.sources, HBlanks', Searches', VBlanks')
  <2> DEFINE S == stat.sources
             event == ModeHigh(stat.mode_for_interrupt, S) /\ ~ModeHigh(LevelMode, S)
  <2>11. steady /\ stat'.sources = S /\ S \in SUBSET {"hblank", "vblank", "oam"}
    BY <1>1, <1>5, <1>9
  <2>12. requests = ByModes(S, HBlanks, Searches, VBlanks)
    BY <2>11, Zenon DEF RunInv, RequestsInv
  <2>13. requests' = IF event THEN Append(requests, ly') ELSE requests
    BY <1>7, <2>11
  <2>1. /\ requests = ByModes(S, HBlanks, Searches, VBlanks)
        /\ requests' = IF event THEN Append(requests, ly') ELSE requests
        /\ stat'.sources = S
    BY <2>11, <2>12, <2>13
  <2>2. ~event
    <3>1. stat.mode_for_interrupt = ModeNow
      BY <1>1, <1>9 DEF RunInv, SteadyInv, SteadyStat
    <3> QED BY <1>4, <3>1
  <2> HIDE DEF event
  <2> QED BY <1>4, <2>1, <2>2, Zenon
<1> QED BY <1>1, <1>6, <1>7, <1>8, <1>9 DEF RunInv, SteadyInv, RequestsInv

(* the steps of the last line without a comparison, the first (14) *)
LEMMA Step14Runs ==
    ASSUME RunInv, PaceInv, SinceInv, LastLineStep(19, 14, IF model.late THEN 2 ELSE 4, VIRTUAL_LINES - 1, stat.compare)
    PROVE  RunInv'
<1> USE DEF LinePlaces, Drawing3, HBlankPlaces, VBlankPlaces, LastPlaces, FirstPlaces, None
<1>1. /\ display_state = 19 /\ display_state' = 14 /\ ly' = VIRTUAL_LINES - 1
      /\ UNCHANGED <<on, current_line, steady, model>>
  BY DEF LastLineStep, Wake, Same, InVBlank
<1>2. /\ StatTyped /\ on /\ current_line \in Nat /\ stat.lyc \in Nat
      /\ LINES \in Nat /\ LINES >= 1 /\ VIRTUAL_LINES \in Nat /\ VIRTUAL_LINES >= LINES + 2
      /\ InVBlank => stat.mode_for_interrupt = 1
      /\ current_line = VIRTUAL_LINES - 1 /\ InVBlank
  BY <1>1, Within DEF InVBlank
<1>3. /\ Kept /\ stat'.mode_for_interrupt = stat.mode_for_interrupt
      /\ requests' = requests
  <2>1. stat.compare \in {None} \union Nat /\ 19 \in {19, 29}
    BY <1>2 DEF StatTyped, Stats
  <2> QED BY <1>2, <2>1, LastLineNotes DEF Requested
<1>4. /\ ModeNow = 1 /\ LevelMode = 1 /\ Compared = current_line - 1 /\ InVBlank
      /\ ModeNow' = 1 /\ LevelMode' = 1 /\ Compared' = current_line - 1 /\ InVBlank'
      /\ HBlanks' = HBlanks /\ Searches' = Searches /\ VBlanks' = VBlanks
  BY <1>1, <1>2 DEF ModeNow, LevelMode, Compared, InVBlank, HBlanks, Searches, VBlanks
<1>5. /\ stat' \in Stats /\ ~stat'.request /\ stat'.sources = stat.sources /\ stat'.lyc = stat.lyc
      /\ stat'.compare = stat.compare /\ stat'.lyc_line = stat.lyc_line /\ stat'.line = stat.line
  BY <1>3 DEF Kept
<1>6. StatInv'
  BY <1>1, <1>2, <1>3, <1>4, <1>5 DEF StatInv, StatTyped, Settled, RunInv
<1>7. ASSUME steady PROVE SteadyStat'
  <2>1. Level
    BY <1>1, <1>2, <1>4, <1>7 DEF RunInv, SteadyInv, SteadyStat, Level
  <2>2. stat'.mode_for_interrupt = ModeNow' /\ Compared' = Compared /\ LevelMode' = LevelMode
    BY <1>1, <1>2, <1>3, <1>4, <2>1 DEF Level
  <2>3. Level'
    BY <1>2, <1>3, <2>1, <2>2, KeptRuns
  <2> QED BY <1>1, <1>2, <1>5, <2>1, <2>3 DEF SteadyStat, Level
<1>8. ASSUME steady', stat'.sources = {"lyc"} PROVE requests' = ByLyc'
  <2>1. requests = ByLyc /\ requests' = requests
    BY <1>1, <1>3, <1>5, <1>8 DEF RunInv, RequestsInv
  <2>2. LycPassed' <=> LycPassed
    BY <1>1, <1>2, <1>4, <1>5 DEF LycPassed
  <2> QED BY <1>1, <1>5, <2>1, <2>2 DEF ByLyc
<1>9. ASSUME steady', stat'.sources \in SUBSET {"hblank", "vblank", "oam"}
      PROVE  requests' = ByModes(stat'.sources, HBlanks', Searches', VBlanks')
  <2>1. steady /\ stat'.sources = stat.sources /\ requests' = requests
    BY <1>1, <1>3, <1>5, <1>9
  <2>2. requests = ByModes(stat.sources, HBlanks, Searches, VBlanks)
    BY <1>9, <2>1 DEF RunInv, RequestsInv
  <2> QED BY <1>4, <2>1, <2>2, Zenon
<1> QED BY <1>1, <1>6, <1>7, <1>8, <1>9 DEF RunInv, SteadyInv, RequestsInv

(* and the last of them (17), *)
LEMMA Step17Runs ==
    ASSUME RunInv, PaceInv, SinceInv, LastLineStep(29, 17, LINE_LENGTH - 24, 0, stat.compare)
    PROVE  RunInv'
<1> USE DEF LinePlaces, Drawing3, HBlankPlaces, VBlankPlaces, LastPlaces, FirstPlaces, None
<1>1. /\ display_state = 29 /\ display_state' = 17 /\ ly' = 0
      /\ UNCHANGED <<on, current_line, steady, model>>
  BY DEF LastLineStep, Wake, Same, InVBlank
<1>2. /\ StatTyped /\ on /\ current_line \in Nat /\ stat.lyc \in Nat
      /\ LINES \in Nat /\ LINES >= 1 /\ VIRTUAL_LINES \in Nat /\ VIRTUAL_LINES >= LINES + 2
      /\ InVBlank => stat.mode_for_interrupt = 1
      /\ current_line = VIRTUAL_LINES - 1 /\ InVBlank
  BY <1>1, Within DEF InVBlank
<1>3. /\ Kept /\ stat'.mode_for_interrupt = stat.mode_for_interrupt
      /\ requests' = requests
  <2>1. stat.compare \in {None} \union Nat /\ 29 \in {19, 29}
    BY <1>2 DEF StatTyped, Stats
  <2> QED BY <1>2, <2>1, LastLineNotes DEF Requested
<1>4. /\ ModeNow = 1 /\ LevelMode = 1 /\ Compared = 0 /\ InVBlank
      /\ ModeNow' = 1 /\ LevelMode' = 1 /\ Compared' = 0 /\ InVBlank'
      /\ HBlanks' = HBlanks /\ Searches' = Searches /\ VBlanks' = VBlanks
  BY <1>1, <1>2 DEF ModeNow, LevelMode, Compared, InVBlank, HBlanks, Searches, VBlanks
<1>5. /\ stat' \in Stats /\ ~stat'.request /\ stat'.sources = stat.sources /\ stat'.lyc = stat.lyc
      /\ stat'.compare = stat.compare /\ stat'.lyc_line = stat.lyc_line /\ stat'.line = stat.line
  BY <1>3 DEF Kept
<1>6. StatInv'
  BY <1>1, <1>2, <1>3, <1>4, <1>5 DEF StatInv, StatTyped, Settled, RunInv
<1>7. ASSUME steady PROVE SteadyStat'
  <2>1. Level
    BY <1>1, <1>2, <1>4, <1>7 DEF RunInv, SteadyInv, SteadyStat, Level
  <2>2. stat'.mode_for_interrupt = ModeNow' /\ Compared' = Compared /\ LevelMode' = LevelMode
    BY <1>1, <1>2, <1>3, <1>4, <2>1 DEF Level
  <2>3. Level'
    BY <1>2, <1>3, <2>1, <2>2, KeptRuns
  <2> QED BY <1>1, <1>2, <1>5, <2>1, <2>3 DEF SteadyStat, Level
<1>8. ASSUME steady', stat'.sources = {"lyc"} PROVE requests' = ByLyc'
  <2>1. requests = ByLyc /\ requests' = requests
    BY <1>1, <1>3, <1>5, <1>8 DEF RunInv, RequestsInv
  <2>2. LycPassed' <=> LycPassed
    BY <1>1, <1>2, <1>4, <1>5 DEF LycPassed
  <2> QED BY <1>1, <1>5, <2>1, <2>2 DEF ByLyc
<1>9. ASSUME steady', stat'.sources \in SUBSET {"hblank", "vblank", "oam"}
      PROVE  requests' = ByModes(stat'.sources, HBlanks', Searches', VBlanks')
  <2>1. steady /\ stat'.sources = stat.sources /\ requests' = requests
    BY <1>1, <1>3, <1>5, <1>9
  <2>2. requests = ByModes(stat.sources, HBlanks, Searches, VBlanks)
    BY <1>9, <2>1 DEF RunInv, RequestsInv
  <2> QED BY <1>4, <2>1, <2>2, Zenon
<1> QED BY <1>1, <1>6, <1>7, <1>8, <1>9 DEF RunInv, SteadyInv, RequestsInv

(* HBlank's registers, *)
LEMMA HBlankRuns ==
    ASSUME RunInv, PaceInv, SinceInv, HBlank
    PROVE  RunInv'
<1> USE DEF LinePlaces, Drawing3, HBlankPlaces, VBlankPlaces, LastPlaces, FirstPlaces, None
<1>1. /\ display_state \in Drawing3 /\ display_state' = 22
      /\ UNCHANGED <<on, current_line, ly, steady, model>>
  BY DEF HBlank, Wake, Same
<1>2. /\ StatTyped /\ on /\ current_line \in Nat /\ stat.lyc \in Nat
      /\ LINES \in Nat /\ LINES >= 1 /\ VIRTUAL_LINES \in Nat /\ VIRTUAL_LINES >= LINES + 2
      /\ InVBlank => stat.mode_for_interrupt = 1
      /\ current_line < LINES
  BY <1>1, Within
<1>3. /\ Kept /\ stat'.mode_for_interrupt = IF model.double THEN stat.mode_for_interrupt ELSE 0
      /\ requests' = requests
  BY <1>2, QuietNotes DEF Requested
<1>4. /\ ModeNow = 3 /\ LevelMode = 3 /\ Compared = current_line /\ ~InVBlank
      /\ ModeNow' = (IF model.double THEN 3 ELSE 0) /\ LevelMode' = 3 /\ Compared' = current_line /\ ~InVBlank'
      /\ HBlanks' = HBlanks /\ Searches' = Searches /\ VBlanks' = VBlanks
  BY <1>1, <1>2 DEF ModeNow, LevelMode, Compared, InVBlank, HBlanks, Searches, VBlanks
<1>5. /\ stat' \in Stats /\ ~stat'.request /\ stat'.sources = stat.sources /\ stat'.lyc = stat.lyc
      /\ stat'.compare = stat.compare /\ stat'.lyc_line = stat.lyc_line /\ stat'.line = stat.line
  BY <1>3 DEF Kept
<1>6. StatInv'
  BY <1>1, <1>2, <1>3, <1>4, <1>5 DEF StatInv, StatTyped, Settled, RunInv
<1>7. ASSUME steady PROVE SteadyStat'
  <2>1. Level /\ stat.compare = current_line /\ ly = current_line
    BY <1>1, <1>2, <1>4, <1>7 DEF RunInv, SteadyInv, SteadyStat, Level
  <2>2. stat'.mode_for_interrupt = ModeNow' /\ Compared' = Compared /\ LevelMode' = LevelMode
    BY <1>1, <1>2, <1>3, <1>4, <2>1 DEF Level
  <2>3. Level'
    BY <1>2, <1>3, <2>1, <2>2, KeptRuns
  <2> QED BY <1>1, <1>2, <1>5, <2>1, <2>3 DEF SteadyStat, Level
<1>8. ASSUME steady', stat'.sources = {"lyc"} PROVE requests' = ByLyc'
  <2>1. requests = ByLyc /\ requests' = requests
    BY <1>1, <1>3, <1>5, <1>8 DEF RunInv, RequestsInv
  <2>2. LycPassed' <=> LycPassed
    BY <1>1, <1>2, <1>4, <1>5 DEF LycPassed
  <2> QED BY <1>1, <1>5, <2>1, <2>2 DEF ByLyc
<1>9. ASSUME steady', stat'.sources \in SUBSET {"hblank", "vblank", "oam"}
      PROVE  requests' = ByModes(stat'.sources, HBlanks', Searches', VBlanks')
  <2>1. steady /\ stat'.sources = stat.sources /\ requests' = requests
    BY <1>1, <1>3, <1>5, <1>9
  <2>2. requests = ByModes(stat.sources, HBlanks, Searches, VBlanks)
    BY <1>9, <2>1 DEF RunInv, RequestsInv
  <2> QED BY <1>4, <2>1, <2>2, Zenon
<1> QED BY <1>1, <1>6, <1>7, <1>8, <1>9 DEF RunInv, SteadyInv, RequestsInv

(* the beginning of a line after a line, *)
LEMMA LineRuns ==
    ASSUME RunInv, PaceInv, SinceInv, LineBegins, display_state = 31
    PROVE  RunInv'
<1> USE DEF LinePlaces, Drawing3, HBlankPlaces, VBlankPlaces, LastPlaces, FirstPlaces, None
<1>1. /\ display_state = 31 /\ display_state' = 35
      /\ current_line' = current_line + 1 /\ current_line + 1 < LINES
      /\ UNCHANGED <<on, ly, model>> /\ (steady' <=> steady)
  <2>1. display_state = 31 /\ display_state' = 35 /\ UNCHANGED <<on, ly, model>>
    BY DEF LineBegins, WakeToLine, Same
  <2>2. current_line' = current_line + 1 /\ current_line + 1 < LINES
    BY DEF LineBegins
  <2>3. steady' = (steady \/ display_state = 17)
    BY DEF LineBegins
  <2>4. steady' <=> steady
    <3>1. display_state # 17
      BY <2>1
    <3> QED BY <2>3, <3>1, Zenon
  <2> QED BY <2>1, <2>2, <2>4
<1>2. /\ StatTyped /\ on /\ current_line \in Nat /\ stat.lyc \in Nat
      /\ LINES \in Nat /\ LINES >= 1 /\ VIRTUAL_LINES \in Nat /\ VIRTUAL_LINES >= LINES + 2
      /\ InVBlank => stat.mode_for_interrupt = 1
      /\ current_line < LINES
  BY <1>1, Within
<1>3. /\ Kept /\ stat'.mode_for_interrupt = 2
      /\ requests' = requests
  <2>1. requests' = requests
    BY <1>1 DEF LineBegins
  <2> QED BY <1>1, <1>2, <2>1, QuietNotes
<1>4. /\ ModeNow = 0 /\ LevelMode = 0 /\ Compared = current_line /\ ~InVBlank
      /\ ModeNow' = 2 /\ LevelMode' = 0 /\ Compared' = current_line /\ ~InVBlank'
      /\ HBlanks' = HBlanks /\ Searches' = Searches /\ VBlanks' = VBlanks
  BY <1>1, <1>2 DEF ModeNow, LevelMode, Compared, InVBlank, HBlanks, Searches, VBlanks
<1>5. /\ stat' \in Stats /\ ~stat'.request /\ stat'.sources = stat.sources /\ stat'.lyc = stat.lyc
      /\ stat'.compare = stat.compare /\ stat'.lyc_line = stat.lyc_line /\ stat'.line = stat.line
  BY <1>3 DEF Kept
<1>6. StatInv'
  BY <1>1, <1>2, <1>3, <1>4, <1>5 DEF StatInv, StatTyped, Settled, RunInv
<1>7. ASSUME steady PROVE SteadyStat'
  <2>1. Level
    BY <1>1, <1>2, <1>4, <1>7 DEF RunInv, SteadyInv, SteadyStat, Level
  <2>2. stat'.mode_for_interrupt = ModeNow' /\ Compared' = Compared /\ LevelMode' = LevelMode
    BY <1>1, <1>2, <1>3, <1>4, <2>1 DEF Level
  <2>3. Level'
    BY <1>2, <1>3, <2>1, <2>2, KeptRuns
  <2> QED BY <1>1, <1>2, <1>5, <2>1, <2>3 DEF SteadyStat, Level
<1>8. ASSUME steady', stat'.sources = {"lyc"} PROVE requests' = ByLyc'
  <2>1. requests = ByLyc /\ requests' = requests
    BY <1>1, <1>3, <1>5, <1>8 DEF RunInv, RequestsInv
  <2>2. LycPassed' <=> LycPassed
    BY <1>1, <1>2, <1>4, <1>5 DEF LycPassed
  <2> QED BY <1>1, <1>5, <2>1, <2>2 DEF ByLyc
<1>9. ASSUME steady', stat'.sources \in SUBSET {"hblank", "vblank", "oam"}
      PROVE  requests' = ByModes(stat'.sources, HBlanks', Searches', VBlanks')
  <2>1. steady /\ stat'.sources = stat.sources /\ requests' = requests
    BY <1>1, <1>3, <1>5, <1>9
  <2>2. requests = ByModes(stat.sources, HBlanks, Searches, VBlanks)
    BY <1>9, <2>1 DEF RunInv, RequestsInv
  <2> QED BY <1>4, <2>1, <2>2, Zenon
<1> QED BY <1>1, <1>6, <1>7, <1>8, <1>9 DEF RunInv, SteadyInv, RequestsInv

(* LY in VBlank, *)
LEMMA VBlankLyRuns ==
    ASSUME RunInv, PaceInv, SinceInv, VBlankLy
    PROVE  RunInv'
<1> USE DEF LinePlaces, Drawing3, HBlankPlaces, VBlankPlaces, LastPlaces, FirstPlaces, None
<1>1. /\ display_state = 26 /\ display_state' = 12 /\ ly' = current_line
      /\ UNCHANGED <<on, current_line, steady, model>>
  BY DEF VBlankLy, Wake, Same
<1>2. /\ StatTyped /\ on /\ current_line \in Nat /\ stat.lyc \in Nat
      /\ LINES \in Nat /\ LINES >= 1 /\ VIRTUAL_LINES \in Nat /\ VIRTUAL_LINES >= LINES + 2
      /\ InVBlank => stat.mode_for_interrupt = 1
      /\ current_line >= LINES /\ current_line <= VIRTUAL_LINES - 2
  BY <1>1, Within
<1>3. /\ Kept /\ stat'.mode_for_interrupt = stat.mode_for_interrupt
      /\ Requested(current_line = LINES /\ ~stat.line /\ "oam" \in stat.sources)
  BY <1>2, VBlankNotes
<1>4. /\ LevelMode = ModeNow /\ Compared = current_line - 1
      /\ ModeNow' = ModeNow /\ LevelMode' = ModeNow /\ Compared' = current_line - 1 /\ (InVBlank' <=> InVBlank)
      /\ HBlanks = LINES /\ HBlanks' = LINES /\ VBlanks' = VBlanks
      /\ Searches' = LINES + 1 /\ Searches = (IF current_line = LINES THEN LINES ELSE LINES + 1)
      /\ current_line = LINES => VBlanks = 0 /\ ModeNow = 0
  BY <1>1, <1>2 DEF ModeNow, LevelMode, Compared, InVBlank, HBlanks, Searches, VBlanks
<1>5. /\ stat' \in Stats /\ ~stat'.request /\ stat'.sources = stat.sources /\ stat'.lyc = stat.lyc
      /\ stat'.compare = stat.compare /\ stat'.lyc_line = stat.lyc_line /\ stat'.line = stat.line
  BY <1>3 DEF Kept
<1>6. StatInv'
  BY <1>1, <1>2, <1>3, <1>4, <1>5 DEF StatInv, StatTyped, Settled, RunInv
<1>7. ASSUME steady PROVE SteadyStat'
  <2>1. Level
    BY <1>1, <1>2, <1>4, <1>7 DEF RunInv, SteadyInv, SteadyStat, Level
  <2>2. stat'.mode_for_interrupt = ModeNow' /\ Compared' = Compared /\ LevelMode' = LevelMode
    BY <1>1, <1>2, <1>3, <1>4, <2>1 DEF Level
  <2>3. Level'
    BY <1>2, <1>3, <2>1, <2>2, KeptRuns
  <2> QED BY <1>1, <1>2, <1>5, <2>1, <2>3 DEF SteadyStat, Level
<1>8. ASSUME steady', stat'.sources = {"lyc"} PROVE requests' = ByLyc'
  <2>1. requests = ByLyc
    BY <1>1, <1>5, <1>8 DEF RunInv, RequestsInv
  <2>2. requests' = requests
    BY <1>3, <1>5, <1>8 DEF Requested
  <2>3. LycPassed' <=> LycPassed
    BY <1>1, <1>2, <1>4, <1>5 DEF LycPassed
  <2> QED BY <1>1, <1>5, <2>1, <2>2, <2>3 DEF ByLyc
<1>9. ASSUME steady', stat'.sources \in SUBSET {"hblank", "vblank", "oam"}
      PROVE  requests' = ByModes(stat'.sources, HBlanks', Searches', VBlanks')
  <2> DEFINE S == stat.sources
  <2>1. steady /\ stat'.sources = S /\ S \in SUBSET {"hblank", "vblank", "oam"}
    BY <1>1, <1>5, <1>9
  <2>2. requests = ByModes(S, HBlanks, Searches, VBlanks)
    BY <2>1, Zenon DEF RunInv, RequestsInv
  <2>3. CASE current_line = LINES
    <3>1. stat.line <=> "hblank" \in S
      <4>1. stat.line <=> High(0, S, stat.lyc_line)
        BY <1>1, <1>4, <2>1, <2>3 DEF RunInv, SteadyInv, SteadyStat
      <4>2. "lyc" \notin S
        BY <2>1
      <4> QED BY <4>1, <4>2 DEF High
    <3>2. requests' = IF "oam" \in S /\ "hblank" \notin S THEN Append(requests, LINES) ELSE requests
      BY <1>1, <1>3, <2>1, <2>3, <3>1 DEF Requested
    <3>3. /\ HBlanks = LINES /\ HBlanks' = LINES /\ VBlanks' = 0 /\ VBlanks = 0
          /\ Searches' = LINES + 1 /\ Searches = LINES
      BY <1>4, <2>3
    <3> HIDE DEF S
    <3>4. ByModes(S, LINES, LINES + 1, 0) =
            IF "oam" \in S /\ "hblank" \notin S
            THEN Append(ByModes(S, LINES, LINES, 0), LINES) ELSE ByModes(S, LINES, LINES, 0)
      BY <1>2, SearchBegins, Zenon
    <3> QED BY <2>1, <2>2, <3>2, <3>3, <3>4, Zenon
  <2>4. CASE current_line # LINES
    <3>1. requests' = requests
      BY <1>3, <2>4 DEF Requested
    <3>2. HBlanks' = HBlanks /\ VBlanks' = VBlanks /\ Searches' = Searches
      BY <1>4, <2>4
    <3> QED BY <2>1, <2>2, <3>1, <3>2, Zenon
  <2> QED BY <2>3, <2>4
<1> QED BY <1>1, <1>6, <1>7, <1>8, <1>9 DEF RunInv, SteadyInv, RequestsInv

(* Line 0 begins the frame that requests is about. *)
LEMMA FrameBegins ==
    ASSUME RunInv, PaceInv, SinceInv, LineBegins, display_state = 17
    PROVE  RunInv'
<1> USE DEF LinePlaces, Drawing3, HBlankPlaces, VBlankPlaces, LastPlaces, FirstPlaces, None
<1>1. /\ display_state' = 35 /\ current_line' = 0 /\ UNCHANGED <<on, ly, model>>
  BY DEF LineBegins, WakeToLine, Same
<1>2. steady' /\ requests' = <<>>
  <2>1. steady' = (steady \/ display_state = 17) /\ requests' = (IF display_state = 17 THEN <<>> ELSE requests)
    BY DEF LineBegins
  <2> QED BY <2>1
<1>3. StatTyped /\ on /\ stat.lyc \in Nat /\ LINES \in Nat /\ LINES >= 1 /\ stat.mode_for_interrupt = 1
  BY Within DEF InVBlank
<1>4. Kept /\ stat'.mode_for_interrupt = stat.mode_for_interrupt
  BY <1>3, QuietNotes
<1>5. /\ stat' \in Stats /\ ~stat'.request /\ stat'.sources = stat.sources /\ stat'.lyc = stat.lyc
      /\ stat'.compare = stat.compare /\ stat'.lyc_line = stat.lyc_line /\ stat'.line = stat.line
  BY <1>4 DEF Kept
<1>6. /\ ModeNow' = 1 /\ LevelMode' = 1 /\ Compared' = 0 /\ ~InVBlank'
      /\ HBlanks' = 0 /\ Searches' = 0 /\ VBlanks' = 0
  BY <1>1, <1>3 DEF ModeNow, LevelMode, Compared, InVBlank, HBlanks, Searches, VBlanks
<1>7. StatInv'
  BY <1>1, <1>5, <1>6 DEF StatInv, StatTyped, Settled
<1>8. SteadyStat'
  <2>1. (stat.lyc_line <=> stat.lyc = 0) /\ (stat.line <=> High(1, stat.sources, stat.lyc_line))
    BY DEF RunInv, StatInv, Settled
  <2> QED BY <1>1, <1>3, <1>4, <1>5, <1>6, <2>1 DEF SteadyStat
<1>9. requests' = ByLyc'
  <2>1. ~LycPassed'
    BY <1>1, <1>3, <1>5 DEF LycPassed
  <2> QED BY <1>2, <2>1 DEF ByLyc
<1>10. requests' = ByModes(stat'.sources, HBlanks', Searches', VBlanks')
  <2>1. ByModes(stat'.sources, 0, 0, 0) = <<>>
    BY FirstSearch
  <2> QED BY <1>2, <1>6, <2>1, Zenon
<1> QED BY <1>7, <1>8, <1>9, <1>10 DEF RunInv, SteadyInv, RequestsInv

(* the moment of mode 2 in which its source is high, *)
LEMMA Mode2Runs ==
    ASSUME RunInv, PaceInv, SinceInv, Mode2
    PROVE  RunInv'
<1> USE DEF LinePlaces, Drawing3, HBlankPlaces, VBlankPlaces, LastPlaces, FirstPlaces, None
<1>1. /\ display_state = 7 /\ display_state' = 8
      /\ UNCHANGED <<on, current_line, ly, steady, model>>
  BY DEF Mode2, Wake, Same
<1>2. /\ StatTyped /\ on /\ current_line \in Nat /\ current_line < LINES /\ stat.lyc \in Nat
      /\ LINES \in Nat /\ VIRTUAL_LINES \in Nat /\ VIRTUAL_LINES >= LINES + 2
  BY <1>1, Within
<1>3. Noted(None, current_line) /\ Requested(High(2, stat.sources, stat'.lyc_line) /\ ~stat.line)
  BY <1>2, Mode2Notes
<1>4. /\ ModeNow = (IF current_line = 0 THEN 1 ELSE 2) /\ LevelMode = ModeNow
      /\ Compared = (IF current_line = 0 THEN 0 ELSE current_line - 1) /\ ~InVBlank
      /\ ModeNow' = None /\ LevelMode' = None /\ Compared' = current_line /\ ~InVBlank'
      /\ HBlanks = current_line /\ HBlanks' = current_line /\ VBlanks = 0 /\ VBlanks' = 0
      /\ Searches' = current_line + 1 /\ Searches = (IF current_line = 0 THEN 0 ELSE current_line + 1)
  BY <1>1, <1>2 DEF ModeNow, LevelMode, Compared, InVBlank, HBlanks, Searches, VBlanks
<1>5. /\ stat' \in Stats /\ ~stat'.request /\ stat'.sources = stat.sources /\ stat'.lyc = stat.lyc
      /\ stat'.compare = current_line /\ stat'.lyc_line \in BOOLEAN
  BY <1>3 DEF Noted, Stats
<1>6. StatInv'
  BY <1>1, <1>4, <1>5 DEF StatInv, StatTyped, Settled
<1>7. ASSUME steady PROVE Level /\ ly = current_line /\ Level' /\ SteadyStat'
  <2>1. Level /\ ly = current_line
    BY <1>1, <1>7 DEF RunInv, SteadyInv, SteadyStat, Level
  <2>2. Compared' = IF current_line = None THEN Compared ELSE current_line
    BY <1>2, <1>4
  <2>3. Level'
    BY <1>3, <1>4, <2>1, <2>2, NotedLevel
  <2> QED BY <1>1, <1>2, <1>5, <2>1, <2>3 DEF SteadyStat, Level
<1>8. ASSUME steady', stat'.sources = {"lyc"} PROVE requests' = ByLyc'
  <2> DEFINE event == stat.lyc = Compared' /\ stat.lyc # Compared
  <2>1. requests = ByLyc /\ steady /\ stat.sources = {"lyc"}
    BY <1>1, <1>5, <1>8 DEF RunInv, RequestsInv
  <2>2. requests' = IF event THEN Append(requests, ly') ELSE requests
    <3>1. /\ High(2, stat.sources, stat'.lyc_line) <=> stat'.lyc_line
          /\ stat.line <=> stat.lyc_line
      <4>1. stat.line <=> High(LevelMode, stat.sources, stat.lyc_line)
        BY <1>7, <2>1 DEF Level
      <4>2. stat.lyc_line \in BOOLEAN
        BY <1>2 DEF StatTyped, Stats
      <4> QED BY <1>5, <2>1, <4>1, <4>2, HighOf
    <3>2. (stat'.lyc_line <=> stat.lyc = Compared') /\ (stat.lyc_line <=> stat.lyc = Compared)
      BY <1>5, <1>7, <2>1 DEF Level
    <3> QED BY <1>3, <2>1, <3>1, <3>2 DEF Requested
  <2>3. /\ event => /\ ~LycPassed /\ LycPassed'
                    /\ ly' = IF stat.lyc = VIRTUAL_LINES - 1 /\ ~model.late /\ ~model.double THEN 0
                             ELSE stat.lyc
        /\ ~event => (LycPassed' <=> LycPassed)
    <3>1. ly = current_line
      BY <1>7, <2>1
    <3> QED BY <1>1, <1>2, <1>4, <1>5, <3>1 DEF LycPassed
  <2>4. UNCHANGED <<stat.lyc, model>> /\ event \in BOOLEAN
    BY <1>1, <1>5
  <2> HIDE DEF event
  <2> QED BY <2>1, <2>2, <2>3, <2>4, LycCounted
<1>9. ASSUME steady', stat'.sources \in SUBSET {"hblank", "vblank", "oam"}
      PROVE  requests' = ByModes(stat'.sources, HBlanks', Searches', VBlanks')
  <2> DEFINE S == stat.sources
  <2>1. steady /\ stat'.sources = S /\ S \in SUBSET {"hblank", "vblank", "oam"}
    BY <1>1, <1>5, <1>9
  <2>2. requests = ByModes(S, HBlanks, Searches, VBlanks)
    BY <2>1, Zenon DEF RunInv, RequestsInv
  <2>3. High(2, S, stat'.lyc_line) <=> "oam" \in S
    BY <2>1 DEF High
  <2>4. stat.line <=> ModeHigh(LevelMode, S)
    <3>1. stat.line <=> High(LevelMode, S, stat.lyc_line)
      BY <1>7, <2>1 DEF Level
    <3>2. stat.lyc_line \in BOOLEAN
      BY <1>2 DEF StatTyped, Stats
    <3> QED BY <2>1, <3>1, <3>2, HighOf
  <2>5. requests' = IF "oam" \in S /\ ~ModeHigh(LevelMode, S) THEN Append(requests, ly') ELSE requests
    BY <1>3, <2>1, <2>3, <2>4 DEF Requested
  <2>6. CASE current_line = 0
    <3>1. ModeHigh(LevelMode, S) <=> "vblank" \in S
      BY <1>4, <2>6 DEF ModeHigh
    <3>2. ly' = 0 /\ HBlanks = 0 /\ HBlanks' = 0 /\ Searches = 0 /\ Searches' = 1 /\ VBlanks = 0 /\ VBlanks' = 0
      BY <1>1, <1>4, <1>7, <2>1, <2>6
    <3> HIDE DEF S
    <3>3. /\ ByModes(S, 0, 0, 0) = <<>>
          /\ ByModes(S, 0, 1, 0) = IF "oam" \in S /\ "vblank" \notin S THEN <<0>> ELSE <<>>
      BY FirstSearch, Zenon
    <3>4. Append(<<>>, 0) = <<0>>
      OBVIOUS
    <3>5. requests = <<>>
      BY <2>2, <3>2, <3>3, Zenon
    <3>6. requests' = IF "oam" \in S /\ "vblank" \notin S THEN <<0>> ELSE <<>>
      BY <2>5, <3>1, <3>2, <3>4, <3>5, Zenon
    <3> QED BY <2>1, <3>2, <3>3, <3>6, Zenon
  <2>7. CASE current_line # 0
    <3>1. ModeHigh(LevelMode, S) <=> "oam" \in S
      BY <1>4, <2>7 DEF ModeHigh
    <3>2. HBlanks = HBlanks' /\ Searches = Searches' /\ VBlanks = VBlanks'
      BY <1>4, <2>7
    <3> HIDE DEF S
    <3> QED BY <2>1, <2>2, <2>5, <3>1, <3>2, Zenon
  <2> QED BY <2>6, <2>7
<1> QED BY <1>1, <1>6, <1>7, <1>8, <1>9 DEF RunInv, SteadyInv, RequestsInv

(* VBlank's mode, with the frame's callback, *)
LEMMA VBlankRestRuns ==
    ASSUME RunInv, PaceInv, SinceInv, VBlankRest, current_line = LINES
    PROVE  RunInv'
<1> USE DEF LinePlaces, Drawing3, HBlankPlaces, VBlankPlaces, LastPlaces, FirstPlaces, None
<1>1. /\ display_state = 24 /\ display_state' = 13
      /\ UNCHANGED <<on, current_line, ly, steady, model>>
  BY DEF VBlankRest, Same
<1>2. /\ StatTyped /\ on /\ current_line \in Nat /\ stat.lyc \in Nat
      /\ LINES \in Nat /\ VIRTUAL_LINES \in Nat /\ VIRTUAL_LINES >= LINES + 2
  BY <1>1, Within
<1>3. /\ Noted(1, stat.compare)
      /\ Requested((~stat.line /\ "oam" \in stat.sources) \/ Rises)
  BY <1>2, VBlankNotes
<1>4. /\ ModeNow = 0 /\ LevelMode = 0 /\ Compared = LINES /\ ~InVBlank
      /\ ModeNow' = 1 /\ LevelMode' = 1 /\ Compared' = LINES /\ InVBlank'
      /\ HBlanks = LINES /\ HBlanks' = LINES /\ VBlanks = 0 /\ VBlanks' = 1
      /\ Searches' = LINES + 1 /\ Searches = LINES + 1
  BY <1>1, <1>2 DEF ModeNow, LevelMode, Compared, InVBlank, HBlanks, Searches, VBlanks
<1>5. /\ stat' \in Stats /\ ~stat'.request /\ stat'.sources = stat.sources /\ stat'.lyc = stat.lyc
      /\ stat'.mode_for_interrupt = 1 /\ stat'.lyc_line \in BOOLEAN
  BY <1>3 DEF Noted, Stats
<1>6. StatInv'
  BY <1>1, <1>4, <1>5 DEF StatInv, StatTyped, Settled
<1>7. ASSUME steady PROVE Level /\ ly = LINES /\ stat.compare = LINES /\ Level' /\ SteadyStat'
  <2>1. Level /\ ly = LINES /\ stat.compare = LINES
    BY <1>1, <1>7 DEF RunInv, SteadyInv, SteadyStat, Level
  <2>2. Compared' = IF stat.compare = None THEN Compared ELSE stat.compare
    BY <1>2, <1>4, <2>1
  <2>3. Level'
    BY <1>3, <1>4, <2>1, <2>2, NotedLevel
  <2> QED BY <1>1, <1>2, <1>5, <2>1, <2>3 DEF SteadyStat, Level
<1>8. ASSUME steady', stat'.sources = {"lyc"} PROVE requests' = ByLyc'
  <2>1. requests = ByLyc /\ steady /\ stat.sources = {"lyc"}
    BY <1>1, <1>5, <1>8 DEF RunInv, RequestsInv
  <2>2. Requested(Rises)
    BY <1>3, <2>1 DEF Requested
  <2>3. Compared' = IF stat.compare = None THEN Compared ELSE stat.compare
    BY <1>2, <1>4, <1>7, <2>1
  <2>4. requests' = IF stat.lyc = Compared' /\ stat.lyc # Compared THEN Append(requests, ly') ELSE requests
    BY <1>2, <1>3, <1>4, <1>7, <2>1, <2>2, <2>3, NotedRuns
  <2>5. requests' = requests
    BY <1>4, <2>4
  <2>6. LycPassed' <=> LycPassed
    BY <1>1, <1>2, <1>5 DEF LycPassed
  <2> QED BY <1>1, <1>5, <2>1, <2>5, <2>6 DEF ByLyc
<1>9. ASSUME steady', stat'.sources \in SUBSET {"hblank", "vblank", "oam"}
      PROVE  requests' = ByModes(stat'.sources, HBlanks', Searches', VBlanks')
  <2> DEFINE S == stat.sources
  <2>1. steady /\ stat'.sources = S /\ S \in SUBSET {"hblank", "vblank", "oam"}
    BY <1>1, <1>5, <1>9
  <2>2. requests = ByModes(S, HBlanks, Searches, VBlanks)
    BY <2>1, Zenon DEF RunInv, RequestsInv
  <2>3. stat'.line <=> "vblank" \in S
    <3>1. stat'.line <=> High(1, S, stat'.lyc_line)
      BY <1>3 DEF Noted
    <3> QED BY <2>1, <3>1 DEF High
  <2>4. stat.line <=> "hblank" \in S
    <3>1. stat.line <=> High(0, S, stat.lyc_line)
      BY <1>4, <1>7, <2>1 DEF Level
    <3> QED BY <2>1, <3>1 DEF High
  <2>5. requests' = IF "hblank" \notin S /\ ("oam" \in S \/ "vblank" \in S)
                    THEN Append(requests, LINES) ELSE requests
    BY <1>1, <1>3, <1>7, <2>1, <2>3, <2>4 DEF Requested, Rises
  <2> HIDE DEF S
  <2>6. LINES + 1 \in Nat
    BY <1>2
  <2>7. ByModes(S, LINES, LINES + 1, 1) =
            IF "hblank" \notin S /\ ("oam" \in S \/ "vblank" \in S)
            THEN Append(ByModes(S, LINES, LINES + 1, 0), LINES) ELSE ByModes(S, LINES, LINES + 1, 0)
    BY <1>2, <2>6, VBlankBegins, Zenon
  <2> QED BY <1>4, <2>1, <2>2, <2>5, <2>7, Zenon
<1> QED BY <1>1, <1>6, <1>7, <1>8, <1>9 DEF RunInv, SteadyInv, RequestsInv

(* The steps that neither stat nor requests notice. *)
LEMMA QuietRuns ==
    ASSUME RunInv, PaceInv, SinceInv, UNCHANGED <<stat, requests, on, current_line, ly, steady, model>>,
           \/ display_state = 35 /\ display_state' = 6
           \/ {display_state, display_state'} \subseteq {8, 108}
           \/ {display_state, display_state'} \subseteq {10, 32} \union Drawing3
           \/ {display_state, display_state'} \subseteq {33, 36, 11, 31}
           \/ display_state = 24 /\ display_state' = 13 /\ current_line # LINES
           \/ display_state \in FirstPlaces /\ display_state' \in FirstPlaces \union Drawing3
    PROVE  RunInv'
<1> USE DEF LinePlaces, Drawing3, HBlankPlaces, VBlankPlaces, LastPlaces, FirstPlaces, None
<1>1. /\ StatTyped /\ current_line \in Nat /\ LINES \in Nat
      /\ display_state = 24 => current_line >= LINES
  BY Within
<1>2. CASE display_state \in FirstPlaces /\ display_state' \in FirstPlaces \union Drawing3
  <2>1. ~steady'
    BY <1>2 DEF RunInv, SteadyInv, SteadyStat
  <2>2. StatInv'
    BY <1>1, <1>2 DEF StatInv, StatTyped, Settled, InVBlank
  <2> QED BY <2>1, <2>2 DEF RunInv, SteadyInv, RequestsInv
<1>3. CASE ~(display_state \in FirstPlaces /\ display_state' \in FirstPlaces \union Drawing3)
  <2>1. /\ ModeNow' = ModeNow /\ LevelMode' = LevelMode /\ Compared' = Compared
        /\ HBlanks' = HBlanks /\ Searches' = Searches /\ VBlanks' = VBlanks /\ (InVBlank' <=> InVBlank)
        /\ display_state' \notin FirstPlaces \union {29, 17, 22, 24, 7, 12, 14}
        /\ display_state' \in {8, 108, 10, 32} \union Drawing3 <=>
               display_state \in {8, 108, 10, 32} \union Drawing3
    <3>1. CASE display_state = 35 /\ display_state' = 6
      BY <1>1, <3>1 DEF ModeNow, LevelMode, Compared, InVBlank, HBlanks, Searches, VBlanks
    <3>2. CASE {display_state, display_state'} \subseteq {8, 108}
      BY <1>1, <3>2 DEF ModeNow, LevelMode, Compared, InVBlank, HBlanks, Searches, VBlanks
    <3>3. CASE {display_state, display_state'} \subseteq {10, 32} \union Drawing3
      BY <1>1, <3>3 DEF ModeNow, LevelMode, Compared, InVBlank, HBlanks, Searches, VBlanks
    <3>4. CASE {display_state, display_state'} \subseteq {33, 36, 11, 31}
      BY <1>1, <3>4 DEF ModeNow, LevelMode, Compared, InVBlank, HBlanks, Searches, VBlanks
    <3>5. CASE display_state = 24 /\ display_state' = 13 /\ current_line # LINES
      BY <1>1, <3>5 DEF ModeNow, LevelMode, Compared, InVBlank, HBlanks, Searches, VBlanks
    <3> QED BY <1>3, <3>1, <3>2, <3>3, <3>4, <3>5
  <2>2. LycPassed' <=> LycPassed
    BY <1>1, <1>3 DEF LycPassed
  <2>3. StatInv'
    BY <1>1, <2>1 DEF StatInv, StatTyped, Settled, RunInv
  <2>4. SteadyInv'
    <3>1. ASSUME steady PROVE SteadyStat'
      <4>1. SteadyStat
        BY <3>1 DEF RunInv, SteadyInv
      <4>2. /\ stat'.mode_for_interrupt = ModeNow' /\ (stat'.lyc_line <=> stat'.lyc = Compared')
            /\ stat'.line <=> High(LevelMode', stat'.sources, stat'.lyc_line)
        BY <2>1, <4>1 DEF SteadyStat
      <4> QED BY <2>1, <4>1, <4>2 DEF SteadyStat
    <3> QED BY <3>1 DEF SteadyInv
  <2>5. RequestsInv'
    <3>1. ASSUME steady, stat.sources = {"lyc"} PROVE requests' = ByLyc'
      BY <2>2, <3>1 DEF RunInv, RequestsInv, ByLyc
    <3>2. ASSUME steady, stat.sources \in SUBSET {"hblank", "vblank", "oam"}
          PROVE  requests' = ByModes(stat'.sources, HBlanks', Searches', VBlanks')
      <4>1. requests = ByModes(stat.sources, HBlanks, Searches, VBlanks)
        BY <3>2, Zenon DEF RunInv, RequestsInv
      <4> QED BY <2>1, <4>1, Zenon
    <3> QED BY <3>1, <3>2 DEF RequestsInv
  <2> QED BY <2>3, <2>4, <2>5 DEF RunInv
<1> QED BY <1>2, <1>3

(* The LCD is off, or shows its first line: nothing is said of requests. *)
LEMMA FirstRuns ==
    ASSUME RunInv, PaceInv, SinceInv, FirstLine \/ FirstOam \/ FirstMode3
    PROVE  RunInv'
<1> USE DEF LinePlaces, Drawing3, HBlankPlaces, VBlankPlaces, LastPlaces, FirstPlaces, None
<1>1. display_state \in FirstPlaces /\ display_state' \in FirstPlaces \ {0, 1} /\ UNCHANGED steady
  BY DEF FirstLine, FirstOam, FirstMode3, Wake
<1>2. StatTyped /\ current_line \in Nat /\ on
  <2>1. FirstOam \/ FirstMode3 => display_state \notin {0, 1}
    BY DEF FirstOam, FirstMode3, Wake
  <2>2. FirstLine => on
    BY DEF FirstLine
  <2> QED BY <2>1, <2>2, Within
<1>3. stat' \in Stats /\ ~stat'.request
  <2>1. CASE FirstLine
    BY <1>2, <2>1, UpdateNotes DEF Noted
  <2>2. CASE FirstOam
    BY <1>2, <2>2, UpdateNotes DEF Noted
  <2>3. CASE FirstMode3
    BY <1>2, <2>3, QuietNotes DEF Kept
  <2> QED BY <2>1, <2>2, <2>3
<1>4. StatInv'
  BY <1>1, <1>3 DEF StatInv, StatTyped, Settled, InVBlank
<1>5. ~steady'
  BY <1>1 DEF RunInv, SteadyInv, SteadyStat
<1> QED BY <1>4, <1>5 DEF RunInv, SteadyInv, RequestsInv

(* and whatever leaves stat, the requests and their place in the frame    *)
(* alone.                                                                 *)
LEMMA QuietActions ==
    ASSUME RunInv, PaceInv, SinceInv,
           \/ LcdOff \/ FirstDot \/ FirstPalettes \/ LineStep6 \/ Mode2Ends \/ Mode3Palettes
           \/ (\E dots \in Batches : Batch(dots)) \/ (\E n \in 0 .. Objects : Pixel(n))
           \/ FetchObject \/ AbortFetch \/ HBlankPalettes \/ HBlankRest \/ LineEnds
           \/ VBlankRest /\ current_line # LINES
    PROVE  RunInv'
<1> USE DEF LinePlaces, Drawing3, HBlankPlaces, VBlankPlaces, LastPlaces, FirstPlaces, Wake, Same
<1>1. CASE LcdOff \/ FirstDot \/ FirstPalettes
  BY <1>1, QuietRuns DEF LcdOff, FirstDot, FirstPalettes
<1>2. CASE LineStep6 \/ Mode2Ends \/ Mode3Palettes
  BY <1>2, QuietRuns DEF LineStep6, Mode2Ends, Mode3Palettes
<1>3. CASE \E dots \in Batches : Batch(dots)
  BY <1>3, QuietRuns DEF Batch
<1>4. CASE \E n \in 0 .. Objects : Pixel(n)
  BY <1>4, QuietRuns DEF Pixel
<1>5. CASE FetchObject \/ AbortFetch
  BY <1>5, QuietRuns DEF FetchObject, AbortFetch, ObjectStep
<1>6. CASE HBlankPalettes \/ HBlankRest \/ LineEnds
  BY <1>6, QuietRuns DEF HBlankPalettes, HBlankRest, LineEnds
<1>7. CASE VBlankRest /\ current_line # LINES
  BY <1>7, QuietRuns DEF VBlankRest
<1> QED BY <1>1, <1>2, <1>3, <1>4, <1>5, <1>6, <1>7

(* The last line, all of it. *)
LEMMA LastLineStepsRun ==
    ASSUME RunInv, PaceInv, SinceInv, LastLineSteps
    PROVE  RunInv'
<1> DEFINE last == VIRTUAL_LINES - 1
<1>1. \/ LastLineStep(19, 14, IF model.late THEN 2 ELSE 4, last, stat.compare)
      \/ LastLineStep(14, 15, IF model.late THEN 4 ELSE 2,
                        IF ~model.late /\ ~model.double THEN 0 ELSE ly, last)
      \/ LastLineStep(15, 16, 4, 0, IF model.late \/ model.double THEN last ELSE None)
      \/ LastLineStep(16, 29, 12, 0, 0)
      \/ LastLineStep(29, 17, LINE_LENGTH - 24, 0, stat.compare)
  BY DEF LastLineSteps
<1> QED BY <1>1, Step14Runs, Step15Runs, Step16Runs, Step29Runs, Step17Runs, Zenon

(* So the PPU, and any program, keeps the requests. *)
LEMMA Running ==
    ASSUME RunInv, PaceInv, SinceInv, [PpuNext]_ppuVars
    PROVE  RunInv'
<1>1. CASE GB_display_run
  <2>1. CASE LineBegins
    <3>1. display_state \in {31, 17}
      BY <2>1 DEF LineBegins
    <3> QED BY <2>1, <3>1, FrameBegins, LineRuns
  <2>2. CASE LineStep7
    BY <2>2, LineStep7Runs, FirstStep7Runs
  <2>3. CASE VBlankLine \/ VBlankRest
    BY <2>3, VBlankLineRuns, NextLineRuns, VBlankRestRuns, QuietActions
  <2>4. CASE HBlank \/ HBlankInterrupt \/ Mode2 \/ Mode3 \/ VBlankLy \/ VBlankCompare \/ LastLine
             \/ LastLineSteps
    BY <2>4, HBlankRuns, HBlankInterruptRuns, Mode2Runs, Mode3Runs, VBlankLyRuns, VBlankCompareRuns,
       LastLineRuns, LastLineStepsRun
  <2>5. CASE FirstLine \/ FirstOam \/ FirstMode3
    BY <2>5, FirstRuns
  <2>6. CASE \/ LcdOff \/ FirstDot \/ FirstPalettes \/ LineStep6 \/ Mode2Ends \/ Mode3Palettes
             \/ (\E dots \in Batches : Batch(dots)) \/ (\E n \in 0 .. Objects : Pixel(n))
             \/ FetchObject \/ AbortFetch \/ HBlankPalettes \/ HBlankRest \/ LineEnds
    BY <2>6, QuietActions
  <2> QED BY <1>1, <2>1, <2>2, <2>3, <2>4, <2>5, <2>6 DEF GB_display_run
<1>2. CASE Program
  BY <1>2, ProgramSettles DEF RunInv, SteadyInv, RequestsInv
<1>3. CASE UNCHANGED ppuVars
  <2>1. UNCHANGED <<stat, requests, on, display_state, current_line, ly, steady, model>>
    BY <1>3 DEF ppuVars, pace
  <2>2. StatInv' /\ SteadyInv'
    BY <2>1 DEF RunInv, StatInv, StatTyped, Settled, InVBlank, SteadyInv, SteadyStat, ModeNow, LevelMode,
           Compared
  <2>3. /\ HBlanks' = HBlanks /\ Searches' = Searches /\ VBlanks' = VBlanks
        /\ ByLyc' = ByLyc
    BY <2>1 DEF HBlanks, Searches, VBlanks, InVBlank, ByLyc, LycPassed
  <2>4. ASSUME steady', stat'.sources \in SUBSET {"hblank", "vblank", "oam"}
        PROVE  requests' = ByModes(stat'.sources, HBlanks', Searches', VBlanks')
    <3>1. steady /\ stat.sources \in SUBSET {"hblank", "vblank", "oam"} /\ stat'.sources = stat.sources
          /\ requests' = requests
      BY <2>1, <2>4
    <3>2. requests = ByModes(stat.sources, HBlanks, Searches, VBlanks)
      BY <3>1, Zenon DEF RunInv, RequestsInv
    <3> QED BY <2>3, <3>1, <3>2, Zenon
  <2>5. ASSUME steady', stat'.sources = {"lyc"} PROVE requests' = ByLyc'
    BY <2>1, <2>3, <2>5 DEF RunInv, RequestsInv
  <2> QED BY <2>2, <2>4, <2>5 DEF RunInv, RequestsInv
<1> QED BY <1>1, <1>2, <1>3 DEF PpuNext

(* At the end of a steady frame the requests are those of a whole frame. *)
LEMMA InterruptedThere ==
    ASSUME RunInv, PaceInv, SinceInv
    PROVE  InterruptedOnTheLines
<1>1. SUFFICES ASSUME steady, display_state = 17, stat.sources \in Described
               PROVE  requests = Interrupted(stat.sources)
  BY DEF InterruptedOnTheLines
<1>2. current_line = VIRTUAL_LINES - 1 /\ stat.lyc \in Nat /\ LINES \in Nat /\ VIRTUAL_LINES \in Nat
      /\ VIRTUAL_LINES >= LINES + 2
  BY <1>1, Within DEF LastPlaces
<1>3. CASE stat.sources = {"lyc"}
  <2>1. requests = ByLyc
    BY <1>1, <1>3 DEF RunInv, RequestsInv
  <2>2. LycPassed <=> stat.lyc < VIRTUAL_LINES
    BY <1>1, <1>2 DEF LycPassed
  <2>3. stat.sources \notin {{}, {"hblank"}, {"vblank"}, {"oam"}, {"hblank", "vblank"},
                             {"hblank", "oam"}, {"vblank", "oam"}, {"hblank", "vblank", "oam"}}
    BY <1>3
  <2>4. Interrupted(stat.sources) =
             IF stat.lyc >= VIRTUAL_LINES THEN <<>>
             ELSE IF stat.lyc = VIRTUAL_LINES - 1 /\ ~model.late /\ ~model.double THEN <<0>>
             ELSE <<stat.lyc>>
    BY <1>3, <2>3 DEF Interrupted
  <2> QED BY <1>2, <2>1, <2>2, <2>4 DEF ByLyc
<1>4. CASE stat.sources \in SUBSET {"hblank", "vblank", "oam"}
  <2>1. requests = ByModes(stat.sources, HBlanks, Searches, VBlanks)
    BY <1>1, <1>4, Zenon DEF RunInv, RequestsInv
  <2>2. HBlanks = LINES /\ Searches = LINES + 1 /\ VBlanks = 1
    BY <1>1 DEF HBlanks, Searches, VBlanks, InVBlank, LastPlaces
  <2>3. ByModes(stat.sources, LINES, LINES + 1, 1) = Interrupted(stat.sources)
    BY <1>4, WholeFrame
  <2> QED BY <2>1, <2>2, <2>3, Zenon
<1> QED BY <1>1, <1>3, <1>4 DEF Described

(* The inductive invariant. *)
PpuInv == PaceInv /\ SinceInv /\ LockInv /\ RunInv

(* Whatever a program does, every line takes its dots, a steady frame is   *)
(* interrupted on the lines of its sources and no others, the callback is  *)
(* never more than a frame old, and memory is locked while it is drawn     *)
(* from (GB_display_run, GB_STAT_update, GB_lcd_off, the write to LCDC).   *)
THEOREM LinesAreKept == PpuSpec => []LinesKeepTime
<1>1. PpuInit => PpuInv
  <2> SUFFICES ASSUME PpuInit PROVE PpuInv
    OBVIOUS
  <2> USE DEF LinePlaces, Drawing3, HBlankPlaces, VBlankPlaces, LastPlaces, FirstPlaces, None
  <2>1. PaceInv
    BY PpuAssumption DEF PpuInit, PaceInv, PaceTyped, PlaceInv, FirstDots, LineDots, DrawnDots, VBlankDots,
       LinesLast, Reached
  <2>2. SinceInv
    <3>1. 0 + 0 <= LCDC_PERIOD
      BY DotsOfLines, PpuAssumption DEF LCDC_PERIOD
    <3> QED BY <3>1 DEF PpuInit, SinceInv
  <2>3. LockInv
    BY DEF PpuInit, LockInv
  <2>4. StatInv
    <3>1. stat \in Stats /\ ~stat.request
      BY DEF PpuInit, Stats
    <3> QED BY <3>1 DEF PpuInit, StatInv, StatTyped, Settled, InVBlank
  <2> QED BY <2>1, <2>2, <2>3, <2>4 DEF PpuInit, PpuInv, RunInv, SteadyInv, RequestsInv
<1>2. PpuInv /\ [PpuNext]_ppuVars => PpuInv'
  BY Paced, Locked, Running DEF PpuInv
<1>3. PpuInv => LinesKeepTime
  <2> SUFFICES ASSUME PpuInv PROVE LinesKeepTime
    OBVIOUS
  <2>1. LinesLast /\ CallbackInTime /\ InterruptedOnTheLines
    BY InTime, InterruptedThere DEF PpuInv, PaceInv
  <2>2. LockedWhileDrawing
    BY DEF PpuInv, LockInv, LockedWhileDrawing, Drawing3, VBlankPlaces, LastPlaces
  <2> QED BY <2>1, <2>2 DEF LinesKeepTime
<1> QED BY <1>1, <1>2, <1>3, PTL DEF PpuSpec
=============================================================================
