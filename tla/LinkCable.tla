----------------------------- MODULE LinkCable -----------------------------
(***************************************************************************)
(* The serial ports of two Game Boys (Core/timing.c, gb.c and memory.c)    *)
(* and the cable a frontend puts between them (Cocoa/Document.m).  The one *)
(* with the internal clock shifts a bit out and in at every second edge of *)
(* its divider's bit and, through the cable's callbacks, makes the other   *)
(* one shift too.  The frontend runs the two in turns, so that their steps *)
(* interleave.                                                             *)
(***************************************************************************)
EXTENDS Naturals, FiniteSets, IoSizes

Sides == {"master", "slave"}
Other(side) == IF side = "master" THEN "slave" ELSE "master"

Bytes == [1 .. Width -> {0, 1}]    \* the bit shifted out first is 1
None == [side |-> "none"]

VARIABLES
    gb,          \* of each side: sb, the bits of SC, serial_count, serial_master_clock,
                 \* and the bit put on the cable (_linkCableBit)
    requested,   \* the sides whose serial interrupt the last step requested
    exchange     \* a transfer nobody has disturbed since it began, or None: who
                 \* clocks it and what the two SB were

cableVars == <<gb, requested, exchange>>

CableInit ==
    /\ gb \in [Sides -> [sb : Bytes, started : {FALSE}, internal : {FALSE}, count : {0},
                         clock : {FALSE}, out : {0}]]
    /\ requested = {}
    /\ exchange = None

ShiftIn(byte, bit) == [i \in 1 .. Width |-> IF i = Width THEN bit ELSE byte[i + 1]]

(* A bit is shifted into SB; the last one ends the transfer. *)
Shifted(port, bit) ==
    LET last == port.count = Width - 1 IN
    [port EXCEPT !.sb = ShiftIn(@, bit),
                 !.count = IF last THEN 0 ELSE @ + 1,
                 !.started = ~last]

GetDataBit(port) ==
    IF ~port.started THEN 0 ELSE IF port.internal THEN 1 ELSE port.sb[1]

SetDataBit(port, bit) ==
    IF port.started /\ ~port.internal THEN Shifted(port, bit) ELSE port

(* GB_serial_master_edge of one side, with the cable's callbacks: the bit  *)
(* that ends is the one that was put on the cable when it began.           *)
MasterEdgeAfter(ports, side) ==    \* mutant: the other side shifts before its bit is read
    LET me == ports[side]
        other == SetDataBit(ports[Other(side)], me.out)
        shifted == Shifted(me, GetDataBit(other))
    IN IF me.clock /\ me.started /\ me.internal
       THEN [ports EXCEPT
               ![side] = [shifted EXCEPT !.clock = FALSE,
                                         !.out = IF shifted.count = 0 THEN @ ELSE shifted.sb[1]],
               ![Other(side)] = other]
       ELSE [ports EXCEPT ![side].clock = ~@]

MasterEdgeIdle(ports, side) ==    \* mutant: the clock stands still during a transfer
    LET me == ports[side] IN
    [ports EXCEPT ![side].clock = IF me.started /\ me.internal THEN @ ELSE ~@]

MasterEdge(ports, side) ==
    LET me == ports[side]
        other == ports[Other(side)]
        shifted == Shifted(me, GetDataBit(other))
    IN IF me.clock /\ me.started /\ me.internal
       THEN [ports EXCEPT
               ![side] = [shifted EXCEPT !.clock = FALSE,
                                         !.out = IF shifted.count = 0 THEN @ ELSE shifted.sb[1]],
               ![Other(side)] = SetDataBit(other, me.out)]
       ELSE [ports EXCEPT ![side].clock = ~@]

(* The sides that end a transfer when the ports become newer. *)
Ended(newer) == {side \in Sides : gb[side].started /\ ~newer[side].started}

Edge(side) ==
    /\ gb' = MasterEdge(gb, side)
    /\ requested' = Ended(gb')
    /\ UNCHANGED exchange

WriteSB(side, byte) ==
    /\ gb' = [gb EXCEPT ![side].sb = byte]
    /\ requested' = {} /\ exchange' = None

(* An exchange begins when one side starts its clock, with no transfer of  *)
(* its own under way, while the other one waits for the first bit.         *)
Begins(side, started, internal) ==
    LET other == gb[Other(side)] IN
    /\ started /\ internal /\ ~(gb[side].started /\ gb[side].internal)
    /\ other.started /\ ~other.internal /\ other.count = 0

(* A write to SC: where the clock is high it makes an edge first, still    *)
(* with the old SC.                                                        *)
WriteSC(side, started, internal) ==
    LET reset == [gb EXCEPT ![side].count = 0]
        edged == IF gb[side].clock THEN MasterEdge(reset, side) ELSE reset
        out == IF started /\ internal THEN edged[side].sb[1] ELSE edged[side].out
    IN /\ gb' = [edged EXCEPT ![side] = [edged[side] EXCEPT !.started = started,
                                                           !.internal = internal,
                                                           !.out = out]]
       /\ requested' = Ended(edged)
       /\ exchange' = IF Begins(side, started, internal)
                      THEN [side |-> side, sent |-> gb[side].sb, received |-> gb[Other(side)].sb]
                      ELSE None

CableNext ==
    \E side \in Sides :
        \/ Edge(side)
        \/ \E byte \in Bytes : WriteSB(side, byte)
        \/ \E started, internal \in BOOLEAN : WriteSC(side, started, internal)

(* The dividers of both sides go on counting. *)
CableSpec == CableInit /\ [][CableNext]_cableVars /\ \A side \in Sides : WF_cableVars(Edge(side))
-----------------------------------------------------------------------------
CableTypeOK ==
    /\ gb \in [Sides -> [sb : Bytes, started : BOOLEAN, internal : BOOLEAN,
                         count : 0 .. Width - 1, clock : BOOLEAN, out : {0, 1}]]
    /\ requested \subseteq Sides
    /\ \/ exchange = None
       \/ exchange \in [side : Sides, sent : Bytes, received : Bytes]

Clocking == gb[exchange.side]
Clocked == gb[Other(exchange.side)]

(* How far the exchange is. *)
Done == IF Clocking.started THEN Clocking.count ELSE Width

(* The first bits of from, shifted into the end of to. *)
Mixed(to, from, done) ==
    [i \in 1 .. Width |-> IF i + done <= Width THEN to[i + done] ELSE from[i + done - Width]]

(* As long as neither program disturbs it, an exchange is in step on both  *)
(* sides however their steps interleave, and when it is over each SB holds *)
(* what the other one held at its beginning.                               *)
SidesInStep ==
    exchange # None =>
        /\ Clocked.started = Clocking.started /\ Clocked.count = Clocking.count
        /\ Clocking.sb = Mixed(exchange.sent, exchange.received, Done)
        /\ Clocked.sb = Mixed(exchange.received, exchange.sent, Done)

(* The bit on the cable is the one the clocking side will shift out next.  *)
CableIsCurrent ==
    exchange # None /\ Clocking.started => Clocking.out = Clocking.sb[1]

(* An exchange ends, unless one of the programs disturbs it. *)
ExchangeEnds ==
    exchange # None /\ Clocking.started ~> exchange = None \/ ~Clocking.started
=============================================================================
