--------------------------- MODULE PixelPipeline ---------------------------
(***************************************************************************)
(* A line of mode 3 (Core/display.c), drawn twice: dot by dot, by the      *)
(* fetcher, the two FIFOs and the window and object logic of               *)
(* GB_display_run; and at once, by render_line, which takes over when      *)
(* nothing is going to interfere with the line (mode3_batching_length).    *)
(*                                                                         *)
(* A pixel is named by where it comes from: a column of a tile of a map,   *)
(* or of an object.  Registers do not change during the line; when they    *)
(* do, the source draws dot by dot.  WX below 7 and DMA, which do not      *)
(* allow a batch either, are left out, and so is what only they can do.    *)
(***************************************************************************)
EXTENDS Integers, Sequences, FiniteSets, SequencesExt

CONSTANTS
    WIDTH,          \* 160
    MAX_OBJECTS,    \* per line, 10
    Lines           \* the lines to draw, see Init

VARIABLES
    line,           \* the registers, the objects and the model of the line
    p,              \* the state of the dot by dot drawing
    step            \* what the current dot does: "main", or a step of an object's fetch

vars == <<line, p, step>>

-----------------------------------------------------------------------------
(* A line is [cgb, scx, wx, window (LCDC), wy (wy_triggered), bg_en,       *)
(* obj_en, by_index (OPRI), objects], the last the X coordinates of the    *)
(* objects on the line, by their index in OAM.                             *)
Columns == 0 .. 7
Odd(n) == n % 2 = 1

(* Tiles, attributes and objects with every combination of transparent     *)
(* columns, flips and priorities next to each other.                       *)
TilePixel(map, x, column) ==
    [from |-> <<map, x, column>>, opaque |-> Odd((column \div 2) + x),
     over |-> line.cgb /\ Odd(x), index |-> 0]
ObjectPixel(index, column) ==
    [from |-> <<"object", index, column>>, opaque |-> ~Odd(column + index) \/ column > 3,
     over |-> index % 3 = 2, index |-> IF line.by_index THEN index ELSE 0]
Flipped(x) == x % 3 = 1
Blank == [from |-> <<"blank", 0, 0>>, opaque |-> FALSE, over |-> FALSE, index |-> 0]

(* fifo_push_bg_row, get_tile_data: a row of eight columns. *)
Row(Pixel(_, _), name, flip) == [i \in 1 .. 8 |-> Pixel(name, IF flip THEN 8 - i ELSE i - 1)]
TileRow(map, x) == Row(LAMBDA n, c : TilePixel(n[1], n[2], c), <<map, x>>, line.cgb /\ Flipped(x))
ObjectRow(index) == Row(ObjectPixel, index, Flipped(index))

(* add_object_from_index: the objects of the line, the leftmost last, and  *)
(* of those at the same place the first in OAM.                            *)
Added(visible, object) ==
    LET j == Cardinality({i \in DOMAIN visible : visible[i].x > object.x}) IN
    IF Len(visible) = MAX_OBJECTS THEN visible
    ELSE SubSeq(visible, 1, j) \o <<object>> \o SubSeq(visible, j + 1, Len(visible))

Visible ==
    FoldLeft(LAMBDA v, i : Added(v, [x |-> line.objects[i], index |-> i]), <<>>,
             [i \in DOMAIN line.objects |-> i])

-----------------------------------------------------------------------------
(* mode3_batching_length; a line with objects or a window is batched when  *)
(* nobody is going to see how long it takes.                               *)
Batchable ==
    line.wy => IF line.window THEN line.wx >= 7 /\ line.wx \notin {WIDTH + 6, WIDTH + 7}
               ELSE line.wx >= WIDTH + 7 \/ line.cgb

Trivial == Visible = <<>> /\ ~(line.wy /\ line.window)
BatchingLength == WIDTH + 7 + (line.scx % 8)

(* render_line.  The buffer of objects, by the column of the screen.       *)
Covers(object, x) == x + 8 - object.x \in Columns

ObjectAt(x) ==
    LET over(pixel, object) ==
            LET new == ObjectRow(object.index)[x + 9 - object.x] IN
            IF new.opaque /\ (~pixel.opaque \/ new.index < pixel.index) THEN new ELSE pixel
    IN  IF ~line.obj_en THEN Blank
        ELSE FoldLeft(over, Blank, SelectSeq(Reverse(Visible), LAMBDA o : Covers(o, x)))

(* DO_PIXEL; without the background, its priority counts for nothing.      *)
Mixed(tile, object) ==
    LET shown == IF line.bg_en \/ line.cgb THEN tile ELSE Blank IN
    IF object.opaque /\ ~(shown.opaque /\ (shown.over \/ object.over) /\ line.bg_en)
    THEN object.from
    ELSE shown.from

(* The loops over the tiles of a line; the window begins where WX says.    *)
RenderedLate ==    \* mutant: the window begins a pixel late
    LET windowAt == line.wx - 6
        drawn[x \in 0 .. WIDTH - 1] ==
            IF line.wy /\ line.window /\ x >= windowAt
            THEN TileRow("window", (x - windowAt) \div 8)[((x - windowAt) % 8) + 1]
            ELSE TileRow("map", ((line.scx + x) \div 8) % 32)[((line.scx + x) % 8) + 1]
    IN  [x \in 1 .. WIDTH |-> Mixed(drawn[x - 1], ObjectAt(x - 1))]

Rendered ==
    LET windowAt == line.wx - 7
        drawn[x \in 0 .. WIDTH - 1] ==
            IF line.wy /\ line.window /\ x >= windowAt
            THEN TileRow("window", (x - windowAt) \div 8)[((x - windowAt) % 8) + 1]
            ELSE TileRow("map", ((line.scx + x) \div 8) % 32)[((line.scx + x) % 8) + 1]
    IN  [x \in 1 .. WIDTH |-> Mixed(drawn[x - 1], ObjectAt(x - 1))]

-----------------------------------------------------------------------------
(* mode_3_start: eight pixels that are going to be dropped. *)
Init ==
    /\ line \in Lines /\ Batchable
    /\ p = [position |-> -16, fifo |-> [i \in 1 .. 8 |-> Blank], oam_fifo |-> <<>>,
            state |-> 0, address |-> <<"map", 0>>, tile |-> <<"map", 0>>,
            wx_triggered |-> FALSE, window_tile_x |-> 0, being_fetched |-> FALSE,
            insert |-> FALSE, during |-> FALSE, objects |-> Visible, screen |-> <<>>,
            dots |-> 0]
    /\ step = "main"

(* advance_fetcher_state_machine: the address, the tile, its data twice,   *)
(* each in two steps, and the push when the FIFO is empty.                 *)
Address(s) ==
    IF s.wx_triggered THEN <<"window", s.window_tile_x>>
    ELSE IF s.position \in -16 .. -9 THEN <<"map", line.scx \div 8>>
    ELSE <<"map", ((line.scx + s.position + 8 - (IF line.cgb /\ ~s.during THEN 1 ELSE 0))
                       \div 8) % 32>>

PixelInserted(s) ==
    /\ line.wy /\ ~line.window /\ ~line.cgb
    /\ line.wx = IF s.position + 7 \in 0 .. WIDTH + 7 THEN s.position + 7 ELSE 0

Pushed(s) ==
    IF s.fifo # <<>> THEN [s EXCEPT !.state = 6]
    ELSE IF PixelInserted(s) THEN [s EXCEPT !.state = 6, !.fifo = <<Blank>>]
    ELSE [s EXCEPT !.fifo = TileRow(s.tile[1], s.tile[2]), !.state = 0]

Advanced(s) ==
    CASE s.state = 0 -> [s EXCEPT !.address = Address(s), !.state = 1]
      [] s.state = 1 -> [s EXCEPT !.tile = s.address, !.state = 2]
      [] s.state \in 2 .. 4 -> [s EXCEPT !.state = @ + 1]
      [] s.state = 5 -> Pushed([s EXCEPT !.window_tile_x =
                                   IF s.wx_triggered THEN (@ + 1) % 32 ELSE @])
      [] s.state = 6 -> Pushed(s)

Slept(s, dots) == [s EXCEPT !.dots = @ + dots]

(* The window. *)
Windowed(s) ==
    LET here == line.wx = s.position + 7
        opens == /\ ~s.wx_triggered /\ line.wy /\ line.window
                 /\ line.wx < WIDTH + 6 + (IF line.cgb THEN 1 ELSE 0) /\ here
        opened == IF opens
                  THEN [s EXCEPT !.window_tile_x = 0, !.fifo = <<>>, !.wx_triggered = TRUE,
                                 !.state = 0, !.being_fetched = TRUE]
                  ELSE s
    IN  IF ~line.cgb /\ opened.wx_triggered /\ ~opened.being_fetched /\ opened.state = 0
           /\ here /\ Len(opened.fifo) = 8
        THEN [opened EXCEPT !.insert = TRUE]
        ELSE opened

(* Objects; those whose column has passed are dropped. *)
ObjectMatch(s) == IF s.position + 8 <= 0 THEN 0 ELSE s.position + 8
Passed(s) ==
    [s EXCEPT !.objects = SelectSeq(@, LAMBDA o : o.x >= ObjectMatch(s))]
ObjectHere(s) ==
    s.objects # <<>> /\ (line.obj_en \/ line.cgb) /\ Last(s.objects).x = ObjectMatch(s)

(* fifo_overlay_object_row. *)
OverlaidPlain(fifo, row) ==    \* mutant: an object always covers the ones before
    LET full == fifo \o [i \in 1 .. 8 - Len(fifo) |-> Blank] IN
    [i \in 1 .. 8 |-> IF row[i].opaque THEN row[i] ELSE full[i]]

Overlaid(fifo, row) ==
    LET full == fifo \o [i \in 1 .. 8 - Len(fifo) |-> Blank] IN
    [i \in 1 .. 8 |-> IF row[i].opaque /\ (~full[i].opaque \/ row[i].index < full[i].index)
                      THEN row[i] ELSE full[i]]

(* render_pixel_if_possible. *)
Scrolled(s) ==
    IF s.position \in -16 .. -9
       /\ (s.position % 8 = line.scx % 8
           \/ (s.being_fetched /\ s.position % 8 = 6 /\ line.scx % 8 = 7))
    THEN [s EXCEPT !.position = -8]
    ELSE s

Rendering(s) ==
    LET tile == IF s.insert THEN Blank ELSE Head(s.fifo)
        object == IF s.oam_fifo = <<>> \/ ~line.obj_en THEN Blank ELSE Head(s.oam_fifo)
        popped == [s EXCEPT !.fifo = IF s.insert THEN @ ELSE Tail(@), !.insert = FALSE,
                            !.oam_fifo = IF @ = <<>> THEN @ ELSE Tail(@)]
        scrolled == [Scrolled(popped) EXCEPT !.being_fetched = FALSE]
        drawn == [scrolled EXCEPT !.screen = IF scrolled.position < 0 THEN @
                                             ELSE Append(@, Mixed(tile, object)),
                                  !.position = @ + 1]
    IN  IF s.fifo = <<>> \/ (ObjectHere(s) /\ Last(s.objects).x = 0) THEN s ELSE drawn

-----------------------------------------------------------------------------
(* An object's fetch: the fetcher goes on until its row is ready. *)
Fetch(s) ==
    /\ p' = Slept(Advanced(s), 1)
    /\ step' = IF s.state < 5 \/ s.fifo = <<>> THEN "fetch" ELSE "extra"

Finish(s) ==
    LET drawn == Advanced(Rendering([s EXCEPT !.during = FALSE])) IN
    IF drawn.position = WIDTH THEN p' = drawn /\ step' = "done"
    ELSE p' = Slept(drawn, 1) /\ step' = "main"

Dot ==
    /\ step = "main"
    /\ LET s == Passed(Windowed(p)) IN
       IF ObjectHere(s) THEN Fetch([s EXCEPT !.during = TRUE]) ELSE Finish(s)
    /\ UNCHANGED line

FetchGoesOn == step = "fetch" /\ Fetch(p) /\ UNCHANGED line

FetchTile ==
    /\ step = "extra" /\ step' = "low"
    /\ p' = Slept(Advanced(p), 2)
    /\ UNCHANGED line

FetchLow == step = "low" /\ step' = "high" /\ p' = Slept(p, 2) /\ UNCHANGED line

FetchHigh ==
    /\ step = "high" /\ step' = "overlay"
    /\ p' = Slept([p EXCEPT !.during = FALSE], 1)
    /\ UNCHANGED line

Overlay ==
    LET s == [p EXCEPT !.oam_fifo = Overlaid(@, ObjectRow(Last(p.objects).index)),
                       !.objects = Front(@)]
    IN  /\ step = "overlay"
        /\ IF ObjectHere(s) THEN Fetch(s) ELSE Finish(s)
        /\ UNCHANGED line

Next == Dot \/ FetchGoesOn \/ FetchTile \/ FetchLow \/ FetchHigh \/ Overlay

Spec == Init /\ [][Next]_vars
-----------------------------------------------------------------------------
TypeOK ==
    /\ step \in {"main", "fetch", "extra", "low", "high", "overlay", "done"}
    /\ p.position \in -16 .. WIDTH /\ Len(p.screen) <= WIDTH
    /\ Len(p.fifo) <= 8 /\ Len(p.oam_fifo) <= 8 /\ p.state \in 0 .. 6

(* A line is the same whether it was drawn at once or dot by dot, and      *)
(* takes the time a batch is taken to take.                                *)
BatchedIsDrawn ==
    step = "done" => /\ p.screen = Rendered
                     /\ Trivial => p.dots = BatchingLength
=============================================================================
