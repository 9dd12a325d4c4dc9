---------------------------- MODULE DeviceProofs ----------------------------
(***************************************************************************)
(* Timer implements TimerEdge, an undisturbed exchange keeps the two sides *)
(* of LinkCable in step and swaps their bytes, for counters and bytes of   *)
(* any width; AudioBuffer plays its samples in order and misses no         *)
(* wake-up, for buffers and callbacks of any size; the WorkBoy's keys and  *)
(* dates arrive, for every set of dates; a sound channel follows its       *)
(* registers, for frequencies of any width; and the printer decodes what   *)
(* it was sent, for data of any length.                                    *)
(***************************************************************************)
EXTENDS Timer, LinkCable, AudioBuffer, WorkBoy, Apu, Printer, SequenceTheorems,
        WellFoundedInduction, TLAPS

(* The timer *)

(* The edge that made TIMA overflow has left the signal low, where it      *)
(* stays until the program makes its one access: a second edge before the  *)
(* reload would take two.                                                  *)
LowWhileWaiting == tima_reload_state = "RELOADING" /\ ~accessed => ~Signal

TimerInv == TimerTypeOK /\ LowWhileWaiting

-----------------------------------------------------------------------------
(* The timer begins off.                                                   *)
LEMMA TimerStarts == TimerInit => TimerInv
<1> SUFFICES ASSUME TimerInit PROVE TimerInv
  OBVIOUS
<1>1. 8 % DivSize \in 0 .. DivSize - 1
  BY SizesAssumption
<1>2. 0 \in Values
  BY SizesAssumption DEF Values
<1>3. tac \in TACs
  BY DEF TimerInit, TACs
<1> QED  BY <1>1, <1>2, <1>3 DEF TimerInit, TimerInv, TimerTypeOK, LowWhileWaiting

(* increase_tima keeps TIMA in its width. *)
LEMMA IncreaseTyped ==
    ASSUME TimerTypeOK, NEW falls \in BOOLEAN,
           NEW state \in {"RUNNING", "RELOADING", "RELOADED"},
           Increase(falls, state)
    PROVE  /\ tima' \in Values
           /\ tima_reload_state' \in {"RUNNING", "RELOADING", "RELOADED"}
           /\ ~falls => tima' = tima /\ tima_reload_state' = state
BY SizesAssumption DEF TimerTypeOK, Increase, Values

(* A step that applies increase_tima where the signal falls counts as the  *)
(* abstract timer does.                                                    *)
LEMMA IncreaseCounts ==
    ASSUME TimerTypeOK, NEW state, Increase(Signal /\ ~Signal', state)
    PROVE  /\ Counter!Count
           /\ tima_reload_state' = IF Counter!Overflows THEN "RELOADING" ELSE state
BY DEF Increase, Counter!Count, Counter!Overflows, Counter!Falls

(* The divider's bit falls exactly when the signal does. *)
LEMMA SetDivFalls ==
    ASSUME NEW value, NEW state, SetDiv(value, state), tac' = tac
    PROVE  Increase(Signal /\ ~Signal', state) /\ div_counter' = value
BY DEF SetDiv, Signal

(* So does the glitch of a write to TAC. *)
LEMMA GlitchFalls ==
    ASSUME NEW value \in TACs, Increase(Glitches(tac, value), tima_reload_state),
           tac' = value, div_counter' = div_counter
    PROVE  Increase(Signal /\ ~Signal', tima_reload_state)
<1>1. Glitches(tac, value) <=> Signal /\ ~Signal'
  BY DEF Glitches, Signal
<1> QED  BY <1>1 DEF Increase

-----------------------------------------------------------------------------
Counts == Counter!Next \/ UNCHANGED Counter!vars

(* A machine cycle is one of TimerEdge.                                    *)
LEMMA TickStep ==
    ASSUME TimerInv, Tick
    PROVE  TimerInv' /\ Counts
<1> DEFINE falls == Signal /\ ~Signal'
           div == (div_counter + 4) % DivSize
<1>1. Advanced \in {"RUNNING", "RELOADING", "RELOADED"} /\ Advanced # "RELOADING"
  BY DEF TimerInv, TimerTypeOK, Advanced
<1>2. SetDiv(div, Advanced) /\ accessed' = FALSE /\ tma' = tma /\ tac' = tac
      /\ timer_requested' = (timer_requested \/ tima_reload_state = "RELOADING")
  BY DEF Tick
<1>3. Increase(falls, Advanced) /\ div_counter' = div
  BY <1>2, SetDivFalls
<1>4. tima' \in Values /\ tima_reload_state' \in {"RUNNING", "RELOADING", "RELOADED"}
  <2>1. TimerTypeOK /\ falls \in BOOLEAN  BY DEF TimerInv
  <2> QED  BY <1>1, <1>3, <2>1, IncreaseTyped
<1>5. div \in 0 .. DivSize - 1
  BY SizesAssumption DEF TimerInv, TimerTypeOK
<1>6. TimerTypeOK'
  BY <1>2, <1>3, <1>4, <1>5 DEF TimerInv, TimerTypeOK
<1>7. /\ Counter!Count
      /\ tima_reload_state' = IF Counter!Overflows THEN "RELOADING" ELSE Advanced
  BY <1>3, IncreaseCounts DEF TimerInv
<1>8. LowWhileWaiting'
  BY <1>1, <1>7 DEF LowWhileWaiting, Counter!Overflows, Counter!Falls
<1>9. Counter!Cycle
  <2>1. Signal' \in BOOLEAN  BY <1>6 DEF TimerTypeOK, TACs, Signal
  <2>2. (tima_reload_state = "RELOADING")' = Counter!Overflows
    BY <1>1, <1>7 DEF Counter!Overflows, Counter!Falls
  <2> QED  BY <1>2, <1>7, <2>1, <2>2, Zenon DEF Counter!Cycle
<1> QED  BY <1>6, <1>8, <1>9 DEF TimerInv, Counts, Counter!Next

(* A write to DIV or TAC. *)
LEMMA GlitchStep ==
    ASSUME TimerInv, Increase(Signal /\ ~Signal', tima_reload_state),
           div_counter' \in 0 .. DivSize - 1, tac' \in TACs,
           ~accessed, accessed' = TRUE, UNCHANGED <<tma, timer_requested>>
    PROVE  TimerInv' /\ Counts
<1> DEFINE falls == Signal /\ ~Signal'
<1>1. tima' \in Values /\ tima_reload_state' \in {"RUNNING", "RELOADING", "RELOADED"}
  <2>1. /\ TimerTypeOK /\ falls \in BOOLEAN
        /\ tima_reload_state \in {"RUNNING", "RELOADING", "RELOADED"}
    BY DEF TimerInv, TimerTypeOK
  <2> QED  BY <2>1, IncreaseTyped
<1>2. TimerInv'
  BY <1>1 DEF TimerInv, TimerTypeOK, LowWhileWaiting
<1>3. /\ Counter!Count
      /\ tima_reload_state' = IF Counter!Overflows THEN "RELOADING" ELSE tima_reload_state
  BY IncreaseCounts DEF TimerInv
<1>4. Counter!Overflows => tima_reload_state # "RELOADING"
  BY DEF TimerInv, LowWhileWaiting, Counter!Overflows, Counter!Falls
<1>5. Counter!Glitch
  <2>1. Signal' \in BOOLEAN  BY DEF TACs, Signal
  <2> QED  BY <1>3, <1>4, <2>1 DEF Counter!Glitch
<1> QED  BY <1>2, <1>5 DEF Counts, Counter!Next

(* The other steps leave the signal alone. *)
LEMMA LoadStep ==
    ASSUME TimerInv, NEW value \in Values, WriteTIMA(value) \/ WriteTMA(value)
    PROVE  TimerInv' /\ Counts
<1>1. /\ tima' \in Values /\ tma' \in Values /\ accessed' = TRUE
      /\ UNCHANGED <<div_counter, tac, tima_reload_state, timer_requested>>
  BY DEF WriteTIMA, WriteTMA, Access, TimerInv, TimerTypeOK
<1>2. TimerInv'
  BY <1>1 DEF TimerInv, TimerTypeOK, LowWhileWaiting
<1>3. Signal' <=> Signal
  BY <1>1 DEF Signal
<1>4. Counter!Load
  BY <1>1, <1>3 DEF Counter!Load, Counter!Values, Values
<1> QED  BY <1>2, <1>4 DEF Counts, Counter!Next

(* The interrupt's call is one of TimerEdge.                               *)
LEMMA SetRequestStep ==
    ASSUME TimerInv, SetRequest
    PROVE  TimerInv' /\ Counts
<1>1. TimerInv'
  BY DEF SetRequest, TimerInv, TimerTypeOK, LowWhileWaiting, Signal
<1>2. Counter!SetRequest
  BY DEF SetRequest, Counter!SetRequest, Signal
<1> QED  BY <1>1, <1>2 DEF Counts, Counter!Next

(* Every step keeps the invariant and is a step of TimerEdge.              *)
LEMMA TimerKeeps ==
    ASSUME TimerInv, [TimerNext]_timerVars
    PROVE  TimerInv' /\ Counts
<1>1. CASE Tick
  BY <1>1, TickStep
<1>2. CASE WriteDIV
  <2>1. Increase(Signal /\ ~Signal', tima_reload_state) /\ div_counter' = 0
    BY <1>2, SetDivFalls DEF WriteDIV
  <2>2. 0 \in 0 .. DivSize - 1
    BY SizesAssumption
  <2>3. tac' \in TACs
    BY <1>2 DEF WriteDIV, TimerInv, TimerTypeOK
  <2> QED  BY <1>2, <2>1, <2>2, <2>3, GlitchStep DEF WriteDIV, Access
<1>3. ASSUME NEW value \in TACs, WriteTAC(value) PROVE TimerInv' /\ Counts
  <2>1. Increase(Signal /\ ~Signal', tima_reload_state)
    BY <1>3, GlitchFalls DEF WriteTAC
  <2>2. div_counter' \in 0 .. DivSize - 1
    BY <1>3 DEF WriteTAC, TimerInv, TimerTypeOK
  <2> QED  BY <1>3, <2>1, <2>2, GlitchStep DEF WriteTAC, Access
<1>4. ASSUME NEW value \in Values, WriteTIMA(value) \/ WriteTMA(value)
      PROVE  TimerInv' /\ Counts
  BY <1>4, LoadStep
<1>5. CASE SetRequest
  BY <1>5, SetRequestStep
<1>6. CASE UNCHANGED timerVars
  BY <1>6 DEF timerVars, TimerInv, TimerTypeOK, LowWhileWaiting, Signal, Counts, Counter!vars
<1> QED  BY <1>1, <1>2, <1>3, <1>4, <1>5, <1>6 DEF TimerNext

(* TimerTypeOK: TIMA and the divider stay in their widths, and the reload has   *)
(* three states.                                                           *)
THEOREM TimerTypeCorrect == TimerSpec => []TimerTypeOK
<1>1. TimerInit => TimerInv  BY TimerStarts
<1>2. TimerInv /\ [TimerNext]_timerVars => TimerInv'  BY TimerKeeps
<1>3. TimerInv => TimerTypeOK  BY DEF TimerInv
<1> QED  BY <1>1, <1>2, <1>3, PTL DEF TimerSpec

(* CountsEdges: increase_tima's three callers together count exactly the   *)
(* falling edges of the timer's signal, and every overflow requests one    *)
(* interrupt a machine cycle later.                                        *)
THEOREM TimerImplements == TimerSpec => CountsEdges
<1>1. TimerInit => TimerInv  BY TimerStarts
<1>2. TimerInv /\ [TimerNext]_timerVars => TimerInv'  BY TimerKeeps
<1>3. TimerInit => Counter!Init
  BY DEF TimerInit, Counter!Init, Signal
<1>4. TimerInv /\ [TimerNext]_timerVars => [Counter!Next]_(Counter!vars)
  BY TimerKeeps DEF Counts
<1> QED  BY <1>1, <1>2, <1>3, <1>4, PTL DEF TimerSpec, CountsEdges, Counter!Spec

-----------------------------------------------------------------------------
(* The cable *)

Ports == [sb : Bytes, started : BOOLEAN, internal : BOOLEAN,
          count : 0 .. Width - 1, clock : BOOLEAN, out : {0, 1}]

(* While an exchange is under way, one side has the internal clock and the *)
(* other one the external clock.                                           *)
RolesInv ==
    exchange # None /\ Clocking.started => Clocking.internal /\ ~Clocked.internal

CableInv == CableTypeOK /\ RolesInv /\ SidesInStep /\ CableIsCurrent

-----------------------------------------------------------------------------
(* The two sides are each other's other side.                              *)
LEMMA OtherSide ==
    ASSUME NEW side \in Sides
    PROVE  Other(side) \in Sides /\ Other(side) # side /\ Other(Other(side)) = side
BY DEF Sides, Other

(* An exchange is not None.                                                *)
LEMMA NoneIsNone ==
    ASSUME NEW e \in [side : Sides, sent : Bytes, received : Bytes]
    PROVE  e # None
BY DEF Sides, None

(* A shift keeps a port's type, and the end of a transfer is its last bit. *)
LEMMA ShiftedTyped ==
    ASSUME NEW port \in Ports, NEW bit \in {0, 1}
    PROVE  /\ Shifted(port, bit) \in Ports
           /\ Shifted(port, bit).sb = ShiftIn(port.sb, bit)
           /\ Shifted(port, bit).started = (port.count # Width - 1)
           /\ Shifted(port, bit).count = IF port.count = Width - 1 THEN 0 ELSE port.count + 1
           /\ Shifted(port, bit).internal = port.internal
           /\ Shifted(port, bit).clock = port.clock
           /\ Shifted(port, bit).out = port.out
<1>1. ShiftIn(port.sb, bit) \in Bytes
  BY WidthAssumption DEF ShiftIn, Bytes, Ports
<1>2. (IF port.count = Width - 1 THEN 0 ELSE port.count + 1) \in 0 .. Width - 1
  BY WidthAssumption DEF Ports
<1> QED  BY <1>1, <1>2 DEF Shifted, Ports

(* One more bit of a mixed byte. *)
LEMMA MixedShift ==
    ASSUME NEW to \in Bytes, NEW from \in Bytes, NEW done \in 0 .. Width - 1
    PROVE  /\ Mixed(to, from, done) \in Bytes
           /\ Mixed(to, from, done)[1] = to[done + 1]
           /\ ShiftIn(Mixed(to, from, done), from[done + 1]) = Mixed(to, from, done + 1)
<1>1. Mixed(to, from, done) \in Bytes
  BY WidthAssumption DEF Mixed, Bytes
<1>2. Mixed(to, from, done)[1] = to[done + 1]
  BY WidthAssumption DEF Mixed
<1>3. ASSUME NEW i \in 1 .. Width
      PROVE  ShiftIn(Mixed(to, from, done), from[done + 1])[i] = Mixed(to, from, done + 1)[i]
  BY WidthAssumption DEF ShiftIn, Mixed
<1>4. ShiftIn(Mixed(to, from, done), from[done + 1]) = Mixed(to, from, done + 1)
  BY <1>3 DEF ShiftIn, Mixed
<1> QED  BY <1>1, <1>2, <1>4

(* Before the first bit nothing is mixed.                                  *)
LEMMA MixedNone ==
    ASSUME NEW to \in Bytes, NEW from \in Bytes
    PROVE  Mixed(to, from, 0) = to
BY WidthAssumption DEF Mixed, Bytes

(* The bit the cable reads from a waiting port is the first of its SB.     *)
LEMMA DataBit ==
    ASSUME NEW port \in Ports
    PROVE  /\ GetDataBit(port) \in {0, 1}
           /\ port.started /\ ~port.internal => GetDataBit(port) = port.sb[1]
BY WidthAssumption DEF GetDataBit, Ports, Bytes

(* The bit the cable gives to a port keeps its type.                       *)
LEMMA SetTyped ==
    ASSUME NEW port \in Ports, NEW bit \in {0, 1}
    PROVE  SetDataBit(port, bit) \in Ports
BY ShiftedTyped DEF SetDataBit

Shifting(port) == port.clock /\ port.started /\ port.internal

(* An edge that shifts nothing is an edge of the clock alone. *)
LEMMA IdleEdge ==
    ASSUME NEW ports \in [Sides -> Ports], NEW side \in Sides, ~Shifting(ports[side])
    PROVE  /\ MasterEdge(ports, side) \in [Sides -> Ports]
           /\ MasterEdge(ports, side)[Other(side)] = ports[Other(side)]
           /\ \A f \in {"sb", "started", "internal", "count", "out"} :
                 MasterEdge(ports, side)[side][f] = ports[side][f]
<1>1. MasterEdge(ports, side) = [ports EXCEPT ![side].clock = ~@]
  BY DEF MasterEdge, Shifting
<1>2. [ports[side] EXCEPT !.clock = ~@] \in Ports
  BY DEF Ports
<1> QED  BY <1>1, <1>2, OtherSide DEF Ports

(* An edge that shifts. *)
LEMMA ShiftEdge ==
    ASSUME NEW ports \in [Sides -> Ports], NEW side \in Sides, Shifting(ports[side])
    PROVE  LET me == ports[side]
               other == ports[Other(side)]
               shifted == Shifted(me, GetDataBit(other))
               after == MasterEdge(ports, side)
           IN /\ after \in [Sides -> Ports]
              /\ after[Other(side)] = SetDataBit(other, me.out)
              /\ after[side].sb = shifted.sb
              /\ after[side].started = shifted.started
              /\ after[side].count = shifted.count
              /\ after[side].internal = me.internal
              /\ shifted.count # 0 => after[side].out = shifted.sb[1]
<1> DEFINE me == ports[side]
           other == ports[Other(side)]
           shifted == Shifted(me, GetDataBit(other))
           port == [shifted EXCEPT !.clock = FALSE,
                                   !.out = IF shifted.count = 0 THEN @ ELSE shifted.sb[1]]
           after == MasterEdge(ports, side)
<1>1. me \in Ports /\ other \in Ports /\ me.out \in {0, 1}
  BY OtherSide DEF Ports
<1>2. shifted \in Ports /\ shifted.internal = me.internal
  BY <1>1, DataBit, ShiftedTyped
<1>3. shifted.sb[1] \in {0, 1}
  BY <1>2, WidthAssumption DEF Ports, Bytes
<1> HIDE DEF shifted
<1>4. /\ port \in Ports /\ port.sb = shifted.sb /\ port.started = shifted.started
      /\ port.count = shifted.count /\ port.internal = me.internal
      /\ shifted.count # 0 => port.out = shifted.sb[1]
  BY <1>2, <1>3 DEF Ports
<1>5. SetDataBit(other, me.out) \in Ports
  BY <1>1, SetTyped
<1>6. after = [ports EXCEPT ![side] = port, ![Other(side)] = SetDataBit(other, me.out)]
  BY DEF MasterEdge, Shifting, shifted
<1> HIDE DEF port
<1>7. /\ after \in [Sides -> Ports] /\ after[side] = port
      /\ after[Other(side)] = SetDataBit(other, me.out)
  BY <1>4, <1>5, <1>6, OtherSide
<1> QED  BY <1>4, <1>7 DEF shifted

-----------------------------------------------------------------------------
(* Every edge keeps the types of both ports.                               *)
LEMMA EdgeTyped ==
    ASSUME NEW ports \in [Sides -> Ports], NEW side \in Sides
    PROVE  MasterEdge(ports, side) \in [Sides -> Ports]
BY IdleEdge, ShiftEdge

(* One bit of an exchange, seen from both sides. *)
LEMMA SwapStep ==
    ASSUME NEW me \in Ports, NEW other \in Ports, NEW given \in Bytes, NEW received \in Bytes,
           other.started, ~other.internal, other.count = me.count,
           me.sb = Mixed(given, received, me.count),
           other.sb = Mixed(received, given, me.count), me.out = me.sb[1]
    PROVE  LET mine == Shifted(me, GetDataBit(other))
               theirs == SetDataBit(other, me.out)
           IN /\ mine.sb = Mixed(given, received, me.count + 1)
              /\ theirs.sb = Mixed(received, given, me.count + 1)
              /\ mine.started = (me.count # Width - 1)
              /\ theirs.started = (me.count # Width - 1)
              /\ mine.count = IF me.count = Width - 1 THEN 0 ELSE me.count + 1
              /\ theirs.count = IF me.count = Width - 1 THEN 0 ELSE me.count + 1
              /\ ~theirs.internal
<1>1. PICK done \in 0 .. Width - 1 : done = me.count
  BY DEF Ports
<1>2. received[done + 1] \in {0, 1} /\ given[done + 1] \in {0, 1}
  BY WidthAssumption DEF Bytes
<1>3. GetDataBit(other) = other.sb[1]
  BY DataBit
<1>4. /\ Mixed(received, given, done)[1] = received[done + 1]
      /\ Mixed(given, received, done)[1] = given[done + 1]
  BY MixedShift
<1>5. GetDataBit(other) = received[done + 1] /\ me.out = given[done + 1]
  BY <1>1, <1>3, <1>4
<1>6. /\ ShiftIn(me.sb, received[done + 1]) = Mixed(given, received, done + 1)
      /\ ShiftIn(other.sb, given[done + 1]) = Mixed(received, given, done + 1)
  <2>1. ShiftIn(Mixed(given, received, done), received[done + 1])
          = Mixed(given, received, done + 1)
    BY MixedShift
  <2>2. ShiftIn(Mixed(received, given, done), given[done + 1]) = Mixed(received, given, done + 1)
    BY MixedShift
  <2> QED  BY <1>1, <2>1, <2>2
<1>7. SetDataBit(other, me.out) = Shifted(other, given[done + 1])
  BY <1>5 DEF SetDataBit
<1>8. /\ Shifted(me, received[done + 1]).sb = Mixed(given, received, done + 1)
      /\ Shifted(me, received[done + 1]).started = (done # Width - 1)
      /\ Shifted(me, received[done + 1]).count = IF done = Width - 1 THEN 0 ELSE done + 1
  BY <1>1, <1>2, <1>6, ShiftedTyped
<1>9. /\ Shifted(other, given[done + 1]).sb = Mixed(received, given, done + 1)
      /\ Shifted(other, given[done + 1]).started = (done # Width - 1)
      /\ Shifted(other, given[done + 1]).count = IF done = Width - 1 THEN 0 ELSE done + 1
      /\ ~Shifted(other, given[done + 1]).internal
  BY <1>1, <1>2, <1>6, ShiftedTyped
<1> QED  BY <1>1, <1>5, <1>7, <1>8, <1>9

(* An edge keeps an exchange in step: GB_serial_master_edge.               *)
LEMMA EdgeKeeps ==
    ASSUME CableInv, NEW side \in Sides, Edge(side)
    PROVE  CableInv'
<1>1. gb \in [Sides -> Ports] /\ gb' = MasterEdge(gb, side) /\ exchange' = exchange
  BY DEF CableInv, CableTypeOK, Ports, Edge
<1>2. CableTypeOK'
  <2>1. gb' \in [Sides -> Ports]  BY <1>1, EdgeTyped
  <2>2. requested' \subseteq Sides  BY DEF Edge, Ended
  <2> QED  BY <1>1, <2>1, <2>2 DEF CableInv, CableTypeOK, Ports
<1>3. CASE exchange = None
  BY <1>1, <1>2, <1>3 DEF CableInv, RolesInv, SidesInStep, CableIsCurrent
<1>4. CASE exchange # None /\ ~Shifting(gb[side])
  <2>1. /\ \A s \in Sides : \A f \in {"sb", "started", "internal", "count", "out"} :
              gb'[s][f] = gb[s][f]
        /\ exchange.side \in Sides
    BY <1>1, <1>4, IdleEdge DEF Sides, Other, CableInv, CableTypeOK
  <2>2. \A s \in Sides : /\ gb'[s].sb = gb[s].sb /\ gb'[s].started = gb[s].started
                         /\ gb'[s].internal = gb[s].internal
                         /\ gb'[s].count = gb[s].count /\ gb'[s].out = gb[s].out
    BY <2>1
  <2>3. exchange.side \in Sides /\ Other(exchange.side) \in Sides
    BY <2>1, OtherSide
  <2> QED
    BY <1>1, <1>2, <1>4, <2>2, <2>3
    DEF CableInv, RolesInv, SidesInStep, CableIsCurrent, Clocking, Clocked, Done
<1>5. CASE exchange # None /\ Shifting(gb[side])
  <2> DEFINE me == gb[side]
             other == gb[Other(side)]
             done == me.count
             given == exchange.sent
             received == exchange.received
  <2>1. exchange \in [side : Sides, sent : Bytes, received : Bytes]
    BY <1>5 DEF CableInv, CableTypeOK
  <2>2. /\ side = exchange.side /\ Clocking = me /\ Clocked = other
        /\ me.started /\ other.started /\ ~other.internal /\ other.count = me.count
        /\ me \in Ports /\ other \in Ports
    <3>1. exchange.side \in Sides /\ gb[side].started /\ gb[side].internal
      BY <1>5, <2>1 DEF Shifting
    <3>2. side = exchange.side
      <4> SUFFICES ASSUME side # exchange.side PROVE FALSE
        OBVIOUS
      <4>1. Clocked = gb[side]
        BY <3>1 DEF Clocked, Other, Sides
      <4> QED  BY <1>5, <3>1, <4>1 DEF CableInv, RolesInv, SidesInStep
    <3> QED
      BY <1>1, <1>5, <3>1, <3>2, OtherSide
      DEF CableInv, RolesInv, SidesInStep, Clocking, Clocked
  <2>3. /\ me.sb = Mixed(given, received, done) /\ other.sb = Mixed(received, given, done)
        /\ me.out = me.sb[1] /\ done \in 0 .. Width - 1
    BY <1>5, <2>2 DEF CableInv, SidesInStep, CableIsCurrent, Done, Ports
  <2>4. PICK mine, theirs : /\ mine = Shifted(me, GetDataBit(other))
                            /\ theirs = SetDataBit(other, me.out)
    OBVIOUS
  <2>5. given \in Bytes /\ received \in Bytes
    BY <2>1
  <2>6. /\ mine.sb = Mixed(given, received, done + 1)
        /\ theirs.sb = Mixed(received, given, done + 1)
        /\ mine.started = (done # Width - 1) /\ theirs.started = (done # Width - 1)
        /\ mine.count = IF done = Width - 1 THEN 0 ELSE done + 1
        /\ theirs.count = IF done = Width - 1 THEN 0 ELSE done + 1
        /\ ~theirs.internal
    BY <2>2, <2>3, <2>4, <2>5, SwapStep
  <2>7. /\ gb'[Other(side)] = theirs
        /\ gb'[side].sb = mine.sb /\ gb'[side].started = mine.started
        /\ gb'[side].count = mine.count /\ gb'[side].internal = me.internal
        /\ mine.count # 0 => gb'[side].out = mine.sb[1]
    BY <1>1, <1>5, <2>4, ShiftEdge
  <2>8. Clocking' = gb'[side] /\ Clocked' = gb'[Other(side)] /\ exchange' = exchange
    BY <1>1, <2>2 DEF Clocking, Clocked
  <2>9. me.internal
    BY <1>5 DEF Shifting
  <2> HIDE DEF me, other, done, given, received
  <2>10. /\ Clocking'.sb = mine.sb /\ Clocking'.started = mine.started
         /\ Clocking'.count = mine.count /\ Clocking'.internal = me.internal
         /\ mine.count # 0 => Clocking'.out = mine.sb[1]
         /\ Clocked' = theirs
    BY <2>7, <2>8
  <2>11. Done' = done + 1 /\ (Clocking'.started => mine.count # 0)
    <3>1. CASE done = Width - 1
      <4>1. mine.started = FALSE  BY <2>6, <3>1
      <4>2. ~Clocking'.started  BY <2>10, <4>1
      <4>3. Done' = Width  BY <4>2 DEF Done
      <4> QED  BY <3>1, <4>2, <4>3, WidthAssumption
    <3>2. CASE done # Width - 1
      <4>1. mine.started = TRUE  BY <2>6, <3>2
      <4>2. Clocking'.started  BY <2>10, <4>1
      <4>3. mine.count = done + 1  BY <2>6, <3>2
      <4>4. Done' = done + 1  BY <2>10, <4>2, <4>3 DEF Done
      <4> QED  BY <2>3, <4>3, <4>4, WidthAssumption
    <3> QED  BY <3>1, <3>2
  <2>12. SidesInStep'
    <3>1. /\ Clocked'.started = Clocking'.started /\ Clocked'.count = Clocking'.count
      BY <2>6, <2>10
    <3>2. /\ Clocking'.sb = Mixed(exchange'.sent, exchange'.received, Done')
          /\ Clocked'.sb = Mixed(exchange'.received, exchange'.sent, Done')
      BY <2>6, <2>8, <2>10, <2>11 DEF given, received
    <3> QED  BY <3>1, <3>2 DEF SidesInStep
  <2>13. RolesInv'
    BY <2>6, <2>9, <2>10 DEF RolesInv
  <2>14. CableIsCurrent'
    BY <2>10, <2>11 DEF CableIsCurrent
  <2> QED  BY <1>2, <2>12, <2>13, <2>14 DEF CableInv
<1> QED  BY <1>3, <1>4, <1>5

(* A write to SB ends what is known of an exchange.                        *)
LEMMA WriteSBKeeps ==
    ASSUME CableInv, NEW side \in Sides, NEW byte \in Bytes, WriteSB(side, byte)
    PROVE  CableInv'
BY DEF WriteSB, CableInv, CableTypeOK, RolesInv, SidesInStep, CableIsCurrent

(* A write to SC begins an exchange in step, or ends what is known of one. *)
LEMMA WriteSCKeeps ==
    ASSUME CableInv, NEW side \in Sides, NEW started \in BOOLEAN, NEW internal \in BOOLEAN,
           WriteSC(side, started, internal)
    PROVE  CableInv'
<1> DEFINE reset == [gb EXCEPT ![side].count = 0]
           edged == IF gb[side].clock THEN MasterEdge(reset, side) ELSE reset
           out == IF started /\ internal THEN edged[side].sb[1] ELSE edged[side].out
           port == [edged[side] EXCEPT !.started = started, !.internal = internal, !.out = out]
           other == gb[Other(side)]
<1>1. gb \in [Sides -> Ports]
  BY DEF CableInv, CableTypeOK, Ports
<1>2. reset \in [Sides -> Ports] /\ reset[Other(side)] = other
      /\ \A f \in {"sb", "started", "internal", "out"} : reset[side][f] = gb[side][f]
  <2>1. [gb[side] EXCEPT !.count = 0] \in Ports
    BY <1>1, WidthAssumption DEF Ports
  <2> QED  BY <1>1, <2>1, OtherSide DEF Ports
<1> HIDE DEF reset
<1>3. edged \in [Sides -> Ports]
  BY <1>2, EdgeTyped
<1> HIDE DEF edged
<1>4. out \in {0, 1}
  BY <1>3, WidthAssumption DEF Ports, Bytes
<1> HIDE DEF out
<1>5. port \in Ports /\ port.started = started /\ port.internal = internal
      /\ port.sb = edged[side].sb /\ port.count = edged[side].count /\ port.out = out
  BY <1>3, <1>4 DEF Ports
<1>6. gb' = [edged EXCEPT ![side] = port]
  BY <1>3 DEF WriteSC, reset, edged, out
<1> HIDE DEF port
<1>7. gb' \in [Sides -> Ports] /\ gb'[side] = port /\ gb'[Other(side)] = edged[Other(side)]
  BY <1>3, <1>5, <1>6, OtherSide
<1>8. exchange' = IF Begins(side, started, internal)
                  THEN [side |-> side, sent |-> gb[side].sb, received |-> other.sb]
                  ELSE None
  BY DEF WriteSC
<1>9. CableTypeOK'
  <2>1. requested' \subseteq Sides  BY DEF WriteSC, Ended
  <2>2. gb[side].sb \in Bytes /\ other.sb \in Bytes  BY <1>1, OtherSide DEF Ports
  <2> QED  BY <1>7, <1>8, <2>1, <2>2 DEF CableTypeOK, Ports
<1>10. CASE ~Begins(side, started, internal)
  BY <1>8, <1>9, <1>10 DEF CableInv, RolesInv, SidesInStep, CableIsCurrent
<1>11. CASE Begins(side, started, internal)
  <2>1. /\ started /\ internal /\ ~(gb[side].started /\ gb[side].internal)
        /\ other.started /\ ~other.internal /\ other.count = 0
    BY <1>11 DEF Begins
  <2>2. /\ edged[Other(side)] = other
        /\ edged[side].sb = gb[side].sb /\ edged[side].count = 0
    <3>1. ~Shifting(reset[side])
      BY <1>2, <2>1 DEF Shifting
    <3>2. reset[side].count = 0 /\ reset[side].sb = gb[side].sb
      BY <1>1, <1>2 DEF reset
    <3>3. CASE gb[side].clock
      <4>1. edged = MasterEdge(reset, side)  BY <3>3 DEF edged
      <4>2. edged[side]["sb"] = reset[side]["sb"] /\ edged[side]["count"] = reset[side]["count"]
        BY <1>2, <3>1, <4>1, IdleEdge
      <4> QED  BY <1>2, <3>1, <3>2, <4>1, <4>2, IdleEdge
    <3>4. CASE ~gb[side].clock
      BY <1>2, <3>2, <3>4 DEF edged
    <3> QED  BY <3>3, <3>4
  <2>3. exchange'.side = side /\ exchange'.sent = gb[side].sb /\ exchange'.received = other.sb
        /\ Clocking' = port /\ Clocked' = other
    BY <1>7, <1>8, <1>11, <2>2 DEF Clocking, Clocked
  <2>4. Done' = 0
    BY <1>5, <2>1, <2>2, <2>3 DEF Done
  <2>5. gb[side].sb \in Bytes /\ other.sb \in Bytes
    BY <1>1, OtherSide DEF Ports
  <2>6. SidesInStep'
    BY <1>5, <2>1, <2>2, <2>3, <2>4, <2>5, MixedNone DEF SidesInStep
  <2>7. RolesInv'
    BY <1>5, <2>1, <2>3 DEF RolesInv
  <2>8. CableIsCurrent'
    BY <1>5, <2>1, <2>2, <2>3 DEF CableIsCurrent, out
  <2> QED  BY <1>9, <2>6, <2>7, <2>8 DEF CableInv
<1> QED  BY <1>10, <1>11

(* The invariant the theorems below follow from.                           *)
THEOREM CableInvariance == CableSpec => []CableInv
<1>1. CableInit => CableInv
  <2> SUFFICES ASSUME CableInit PROVE CableInv
    OBVIOUS
  <2>1. gb \in [Sides -> Ports]
    <3>1. 0 \in 0 .. Width - 1 /\ 0 \in {0, 1} /\ FALSE \in BOOLEAN
      BY WidthAssumption
    <3>2. [sb : Bytes, started : {FALSE}, internal : {FALSE}, count : {0}, clock : {FALSE},
           out : {0}] \subseteq Ports
      BY <3>1 DEF Ports
    <3> QED  BY <3>2 DEF CableInit
  <2>2. CableTypeOK
    BY <2>1 DEF CableInit, CableTypeOK, Ports
  <2>3. exchange = None
    BY DEF CableInit
  <2> QED  BY <2>2, <2>3 DEF CableInv, RolesInv, SidesInStep, CableIsCurrent
<1>2. CableInv /\ [CableNext]_cableVars => CableInv'
  <2> SUFFICES ASSUME CableInv, [CableNext]_cableVars PROVE CableInv'
    OBVIOUS
  <2>1. ASSUME NEW side \in Sides, Edge(side) PROVE CableInv'
    BY <2>1, EdgeKeeps
  <2>2. ASSUME NEW side \in Sides, NEW byte \in Bytes, WriteSB(side, byte) PROVE CableInv'
    BY <2>2, WriteSBKeeps
  <2>3. ASSUME NEW side \in Sides, NEW started \in BOOLEAN, NEW internal \in BOOLEAN,
               WriteSC(side, started, internal)
        PROVE  CableInv'
    BY <2>3, WriteSCKeeps
  <2>4. CASE UNCHANGED cableVars
    BY <2>4 DEF cableVars, CableInv, CableTypeOK, RolesInv, SidesInStep, CableIsCurrent, Clocking,
                Clocked, Done
  <2> QED  BY <2>1, <2>2, <2>3, <2>4 DEF CableNext
<1> QED  BY <1>1, <1>2, PTL DEF CableSpec

(* SidesInStep: GB_serial_master_edge and the cable's callbacks keep the   *)
(* two SB and counts in step, and swap the bytes.                          *)
THEOREM InStep == CableSpec => []SidesInStep
<1>1. CableInv => SidesInStep  BY DEF CableInv
<1> QED  BY <1>1, CableInvariance, PTL

(* CableIsCurrent: the callback at the start of a bit is never behind SB.  *)
THEOREM CableFollows == CableSpec => []CableIsCurrent
<1>1. CableInv => CableIsCurrent  BY DEF CableInv
<1> QED  BY <1>1, CableInvariance, PTL
-----------------------------------------------------------------------------
(* The sound buffer *)

Audible == 1 .. Samples

AudioTyped == AudioTypeOK /\ (size = 0 \/ size >= 4)

(* In the order they were made, and made already. *)
InOrder(b, last) ==
    /\ \A i, j \in 1 .. Len(b) : i < j => b[i] < b[j]
    /\ \A i \in 1 .. Len(b) : b[i] <= last

(* What a callback has taken was made, and is older than what is left. *)
Older(out, b, last) ==
    /\ \A i \in 1 .. Len(out.samples) : out.samples[i] <= last
    /\ out.taken => \A i \in 1 .. Len(out.samples), j \in 1 .. Len(b) : out.samples[i] < b[j]

AudioInv == /\ AudioTyped /\ InOrder(buffer, produced) /\ Older(output, buffer, produced)
            /\ WakeUpAhead

-----------------------------------------------------------------------------
LEMMA SamplesCut ==
    ASSUME NEW b \in Seq(Audible), NEW m \in Int, NEW n \in Int, 1 <= m, m <= n + 1, n <= Len(b)
    PROVE  /\ SubSeq(b, m, n) \in Seq(Audible) /\ Len(SubSeq(b, m, n)) = n - m + 1
           /\ \A i \in 1 .. n - m + 1 : SubSeq(b, m, n)[i] = b[m + i - 1]
<1>1. \A i \in m .. n : b[i] \in Audible
    BY ElementOfSeq
<1>2. /\ SubSeq(b, m, n) \in Seq(Audible)
      /\ Len(SubSeq(b, m, n)) = IF m <= n THEN n - m + 1 ELSE 0
      /\ \A i \in 1 .. n - m + 1 : SubSeq(b, m, n)[i] = b[m + i - 1]
    BY <1>1, SubSeqProperties
<1> QED BY <1>2

LEMMA SamplesAreNumbers ==
    ASSUME NEW b \in Seq(Audible)
    PROVE  \A i \in 1 .. Len(b) : b[i] \in Nat
<1>1. \A i \in 1 .. Len(b) : b[i] \in Audible
    BY ElementOfSeq
<1> QED BY <1>1, AudioAssumption DEF Audible

(* Nothing of the buffer: what a full buffer, a late callback and postRun leave. *)
LEMMA NothingLeft ==
    /\ << >> \in Seq(Audible) /\ Len(<< >>) = 0
    /\ \A last \in Nat : InOrder(<< >>, last)
<1>1. << >> \in Seq(Audible) /\ Len(<< >>) = 0
    BY EmptySeq
<1> QED BY <1>1 DEF InOrder

LEMMA AudioStarts == AudioInit => AudioInv
<1> SUFFICES ASSUME AudioInit PROVE AudioInv
    OBVIOUS
<1>1. /\ << >> \in Seq(Audible) /\ Len(<< >>) = 0
    BY NothingLeft
<1>2. output.samples = << >> /\ output.taken = FALSE
    BY DEF AudioInit, Silence
<1>3. 0 \in 0 .. Samples
    BY AudioAssumption
<1>4. AudioTyped
    <2>1. buffer \in Seq(1 .. Samples) /\ output.samples \in Seq(1 .. Samples) /\ Position = 0
        BY <1>1, <1>2 DEF AudioInit, Position, Audible
    <2>2. output.taken \in BOOLEAN /\ produced \in 0 .. Samples
        BY <1>2, <1>3 DEF AudioInit
    <2>3. /\ emulation = "off" /\ stopping = FALSE /\ playing = FALSE /\ size = 0
          /\ needed = 0 /\ callback = "idle" /\ frames = 0
        BY DEF AudioInit
    <2>4. size \in Nat /\ Position <= size
        BY <2>1, <2>3
    <2> QED BY <2>1, <2>2, <2>3, <2>4 DEF AudioTyped, AudioTypeOK
<1> QED
    BY <1>1, <1>2, <1>4 DEF AudioInit, AudioInv, InOrder, Older, WakeUpAhead

(* What a callback takes and what it leaves. *)
LEMMA RenderKeeps ==
    ASSUME AudioInv, NEW n \in Nat, Render(n)
    PROVE  /\ buffer' \in Seq(Audible) /\ Len(buffer') <= Len(buffer)
           /\ output'.samples \in Seq(Audible) /\ output'.taken \in BOOLEAN
           /\ InOrder(buffer', produced) /\ Older(output', buffer', produced)
           /\ output'.taken => Len(buffer') < Slack
<1> DEFINE b == buffer
           p == Len(b)
<1>0. b \in Seq(Audible) /\ p \in Nat /\ produced \in Nat
    BY AudioAssumption DEF AudioInv, AudioTyped, AudioTypeOK, Audible
<1>1. InOrder(b, produced)
    BY DEF AudioInv
<1>2. Slack \in Nat /\ Slack > 0
    BY AudioAssumption
<1>3. << >> \in Seq(Audible) /\ Len(<< >>) = 0 /\ InOrder(<< >>, produced)
    BY <1>0, NothingLeft
<1>4. CASE stopping \/ emulation = "debugger"
    <2>1. output' = Silence /\ buffer' = b
        BY <1>4 DEF Render
    <2>2. output'.samples = << >> /\ output'.taken = FALSE
        BY <2>1 DEF Silence
    <2>3. Older(output', buffer', produced)
        BY <1>3, <2>2 DEF Older
    <2>4. output'.samples \in Seq(Audible) /\ output'.taken \in BOOLEAN
        BY <1>3, <2>2
    <2> QED BY <1>0, <1>1, <2>1, <2>2, <2>3, <2>4
<1>5. CASE ~(stopping \/ emulation = "debugger") /\ p < n
    <2>1. output' = [samples |-> b, taken |-> FALSE] /\ buffer' = b
        BY <1>5 DEF Render, Position
    <2>2. output'.samples = b /\ output'.taken = FALSE
        BY <2>1
    <2>3. Older(output', buffer', produced)
        BY <1>1, <2>2 DEF Older, InOrder
    <2> QED BY <1>0, <1>1, <2>1, <2>2, <2>3
<1>6. CASE ~(stopping \/ emulation = "debugger") /\ ~(p < n) /\ Late(n)
    <2> DEFINE s == SubSeq(b, p - n + 1, p)
    <2>1. output' = [samples |-> s, taken |-> TRUE] /\ buffer' = << >>
        BY <1>6 DEF Render, Position, Rest
    <2>2. s \in Seq(Audible) /\ Len(s) = n /\ \A i \in 1 .. n : s[i] = b[p - n + i]
        <3>1. /\ p - n + 1 \in Int /\ 1 <= p - n + 1 /\ p - n + 1 <= p + 1 /\ p \in Int
              /\ p - (p - n + 1) + 1 = n
              /\ \A i \in 1 .. n : p - n + 1 + i - 1 = p - n + i
            BY <1>0, <1>6
        <3>2. /\ SubSeq(b, p - n + 1, p) \in Seq(Audible)
              /\ Len(SubSeq(b, p - n + 1, p)) = p - (p - n + 1) + 1
              /\ \A i \in 1 .. p - (p - n + 1) + 1 :
                     SubSeq(b, p - n + 1, p)[i] = b[p - n + 1 + i - 1]
            <4> DEFINE m == p - n + 1
            <4>1. /\ b \in Seq(Audible) /\ m \in Int /\ p \in Int
                  /\ 1 <= m /\ m <= p + 1 /\ p <= Len(b)
                BY <1>0, <3>1
            <4> HIDE DEF b, m
            <4>2. /\ SubSeq(b, m, p) \in Seq(Audible) /\ Len(SubSeq(b, m, p)) = p - m + 1
                  /\ \A i \in 1 .. p - m + 1 : SubSeq(b, m, p)[i] = b[m + i - 1]
                BY <4>1, SamplesCut, Zenon
            <4> QED BY <4>2 DEF m
        <3> QED BY <3>1, <3>2
    <2> HIDE DEF s
    <2>3. output'.samples = s /\ output'.taken = TRUE
        BY <2>1
    <2>4. \A i \in 1 .. n : p - n + i \in 1 .. p
        BY <1>0, <1>6
    <2>5. \A i \in 1 .. n : s[i] <= produced
        BY <1>1, <2>2, <2>4 DEF InOrder
    <2>6. Older(output', buffer', produced)
        BY <1>3, <2>1, <2>2, <2>3, <2>5 DEF Older
    <2> QED BY <1>0, <1>2, <1>3, <2>1, <2>2, <2>3, <2>6
<1>7. CASE ~(stopping \/ emulation = "debugger") /\ ~(p < n) /\ ~Late(n)
    <2> DEFINE s == SubSeq(b, 1, n)
               r == SubSeq(b, n + 1, p)
    <2>1. output' = [samples |-> s, taken |-> TRUE] /\ buffer' = r
        BY <1>7 DEF Render, Position, Rest
    <2>2. s \in Seq(Audible) /\ Len(s) = n /\ \A i \in 1 .. n : s[i] = b[i]
        <3>1. n \in Int /\ 1 \in Int /\ 1 <= n + 1 /\ n <= p /\ n - 1 + 1 = n
              /\ \A i \in 1 .. n : 1 + i - 1 = i
            BY <1>0, <1>7
        <3>2. s \in Seq(Audible) /\ Len(s) = n - 1 + 1 /\ \A i \in 1 .. n - 1 + 1 : s[i] = b[1 + i - 1]
            <4> HIDE DEF b
            <4> QED BY <1>0, <3>1, SamplesCut
        <3> QED BY <3>1, <3>2
    <2>3. r \in Seq(Audible) /\ Len(r) = p - n /\ \A i \in 1 .. p - n : r[i] = b[n + i]
        <3>1. /\ n + 1 \in Int /\ p \in Int /\ 1 <= n + 1 /\ n + 1 <= p + 1
              /\ p - (n + 1) + 1 = p - n
              /\ \A i \in 1 .. p - n : n + 1 + i - 1 = n + i
            BY <1>0, <1>7
        <3>2. /\ r \in Seq(Audible) /\ Len(r) = p - (n + 1) + 1
              /\ \A i \in 1 .. p - (n + 1) + 1 : r[i] = b[n + 1 + i - 1]
            <4> DEFINE m == n + 1
            <4>1. m \in Int /\ p \in Int /\ 1 <= m /\ m <= p + 1 /\ p <= p
                BY <1>0, <3>1
            <4> HIDE DEF m
            <4>2. /\ SubSeq(b, m, p) \in Seq(Audible) /\ Len(SubSeq(b, m, p)) = p - m + 1
                  /\ \A i \in 1 .. p - m + 1 : SubSeq(b, m, p)[i] = b[m + i - 1]
                BY <1>0, <4>1, SamplesCut
            <4> QED BY <4>2 DEF m
        <3> QED BY <3>1, <3>2
    <2> HIDE DEF s, r
    <2>4. output'.samples = s /\ output'.taken = TRUE
        BY <2>1
    <2>5. p - n \in Nat /\ n <= p /\ p - n < Slack
        BY <1>0, <1>2, <1>7 DEF Late, Position
    <2>6. \A i \in 1 .. n : i \in 1 .. p
        BY <1>0, <2>5
    <2>7. \A j \in 1 .. p - n : n + j \in 1 .. p
        BY <1>0, <2>5
    <2>8. InOrder(r, produced)
        <3>1. \A i, j \in 1 .. p - n : i < j => n + i < n + j
            BY <2>5
        <3> QED BY <1>1, <2>3, <2>7, <3>1 DEF InOrder
    <2>9. Older(output', r, produced)
        <3>1. \A i \in 1 .. n, j \in 1 .. p - n : i < n + j
            BY <2>5
        <3>2. \A i \in 1 .. n, j \in 1 .. p - n : s[i] < r[j]
            BY <1>1, <2>2, <2>3, <2>6, <2>7, <3>1 DEF InOrder
        <3>3. \A i \in 1 .. n : s[i] <= produced
            BY <1>1, <2>2, <2>6 DEF InOrder
        <3> QED BY <2>2, <2>3, <2>4, <3>2, <3>3 DEF Older
    <2> QED BY <1>0, <2>1, <2>2, <2>3, <2>4, <2>5, <2>8, <2>9
<1> QED BY <1>4, <1>5, <1>6, <1>7

LEMMA AudioKeeps == AudioInv /\ [AudioNext]_audioVars => AudioInv'
<1> SUFFICES ASSUME AudioInv, [AudioNext]_audioVars PROVE AudioInv'
    OBVIOUS
<1> USE DEF Audible
<1>0. /\ emulation \in {"run", "debugger", "post", "off"}
      /\ stopping \in BOOLEAN /\ playing \in BOOLEAN
      /\ buffer \in Seq(Audible) /\ size \in Nat /\ Len(buffer) <= size /\ Len(buffer) \in Nat
      /\ needed \in Frames \cup {0} /\ frames \in Frames \cup {0}
      /\ callback \in {"idle", "waiting", "woken"}
      /\ produced \in 0 .. Samples /\ produced \in Nat
      /\ output.samples \in Seq(Audible) /\ output.taken \in BOOLEAN
      /\ size = 0 \/ size >= 4
    BY AudioAssumption DEF AudioInv, AudioTyped, AudioTypeOK, Position
<1>1. InOrder(buffer, produced) /\ Older(output, buffer, produced) /\ WakeUpAhead
    BY DEF AudioInv
<1>2. Frames \subseteq Nat
    BY AudioAssumption
<1>3. CASE Start \/ Mute \/ Debugger \/ RunEnds \/ UNCHANGED audioVars
    <2>1. /\ buffer' = buffer /\ output' = output /\ produced' = produced /\ needed' = needed
          /\ frames' = frames /\ callback' = callback /\ size' = size
          /\ emulation' \in {"run", "debugger", "post", "off"}
          /\ stopping' \in BOOLEAN /\ playing' \in BOOLEAN
        BY <1>0, <1>3 DEF Start, Mute, Debugger, RunEnds, audioVars
    <2> QED
        BY <1>0, <1>1, <2>1
        DEF AudioInv, AudioTyped, AudioTypeOK, Position, InOrder, Older, WakeUpAhead
<1>4. CASE Stop
    <2>1. /\ buffer' = buffer /\ output' = output /\ produced' = produced /\ needed' = needed
          /\ frames' = frames /\ size' = size /\ emulation' = emulation
          /\ stopping' \in BOOLEAN /\ playing' = playing
          /\ callback' \in {"idle", "woken"}
        BY <1>0, <1>4 DEF Stop, Signalled
    <2> QED
        BY <1>0, <1>1, <2>1
        DEF AudioInv, AudioTyped, AudioTypeOK, Position, InOrder, Older, WakeUpAhead
<1>5. CASE PostRun
    <2>1. /\ buffer' = << >> /\ output' = output /\ produced' = produced /\ needed' = 0
          /\ frames' = frames /\ size' = size /\ emulation' = "post"
          /\ stopping' = stopping /\ playing' = playing
          /\ callback' \in {"idle", "woken"}
        BY <1>0, <1>5 DEF PostRun, Signalled
    <2>2. << >> \in Seq(Audible) /\ Len(<< >>) = 0 /\ InOrder(<< >>, produced)
        BY <1>0, NothingLeft
    <2>3. AudioTyped'
        BY <1>0, <2>1, <2>2 DEF AudioTyped, AudioTypeOK, Position
    <2>4. Older(output, << >>, produced)
        BY <1>1, <2>2 DEF Older
    <2> QED BY <2>1, <2>2, <2>3, <2>4 DEF AudioInv, WakeUpAhead, InOrder, Older
<1>6. CASE \E n \in Frames : CallbackBegins(n)
    <2> PICK n \in Frames : CallbackBegins(n)
        BY <1>6
    <2>1. /\ emulation' = emulation /\ stopping' = stopping /\ playing' = playing
          /\ size' = size /\ produced' = produced
        BY DEF CallbackBegins
    <2>2. CASE Len(buffer) < n
        <3>1. /\ callback' = "waiting" /\ frames' = n /\ needed' = n
              /\ buffer' = buffer /\ output' = output
            BY <2>2 DEF CallbackBegins, Position
        <3> QED
            BY <1>0, <1>1, <2>1, <2>2, <3>1
            DEF AudioInv, AudioTyped, AudioTypeOK, Position, InOrder, Older, WakeUpAhead
    <2>3. CASE ~(Len(buffer) < n)
        <3>1. /\ callback' = callback /\ frames' = frames /\ needed' = needed /\ callback = "idle"
              /\ Render(n)
            BY <2>3 DEF CallbackBegins, Position
        <3>2. /\ buffer' \in Seq(Audible) /\ Len(buffer') <= Len(buffer)
              /\ output'.samples \in Seq(Audible) /\ output'.taken \in BOOLEAN
              /\ InOrder(buffer', produced) /\ Older(output', buffer', produced)
            BY <1>2, <3>1, RenderKeeps
        <3>3. AudioTyped'
            BY <1>0, <2>1, <3>1, <3>2 DEF AudioTyped, AudioTypeOK, Position
        <3> QED BY <2>1, <3>1, <3>2, <3>3 DEF AudioInv, WakeUpAhead, InOrder, Older
    <2> QED BY <2>2, <2>3
<1>7. CASE CallbackEnds
    <2>1. /\ emulation' = emulation /\ stopping' = stopping /\ playing' = playing
          /\ size' = size /\ produced' = produced
          /\ needed' = 0 /\ callback' = "idle" /\ frames' = 0 /\ Render(frames)
        BY <1>7 DEF CallbackEnds
    <2>2. frames \in Nat
        BY <1>0, <1>2
    <2>3. /\ buffer' \in Seq(Audible) /\ Len(buffer') <= Len(buffer)
          /\ output'.samples \in Seq(Audible) /\ output'.taken \in BOOLEAN
          /\ InOrder(buffer', produced) /\ Older(output', buffer', produced)
        BY <2>1, <2>2, RenderKeeps
    <2>4. AudioTyped'
        BY <1>0, <2>1, <2>3 DEF AudioTyped, AudioTypeOK, Position
    <2> QED BY <2>1, <2>3, <2>4 DEF AudioInv, WakeUpAhead, InOrder, Older
<1>8. CASE GotNewSample
    <2> DEFINE b == Appended
               thrown == playing /\ Len(buffer) = size /\ size >= LastSize
    <2>1. /\ emulation' = emulation /\ stopping' = stopping /\ playing' = playing
          /\ frames' = frames /\ output' = output /\ produced' = produced + 1 /\ buffer' = b
          /\ produced < Samples
          /\ size' = IF playing /\ Len(buffer) = size /\ size < LastSize
                     THEN Grown(size) ELSE size
        BY <1>8 DEF GotNewSample, Position
    <2>2. produced + 1 \in Audible /\ produced + 1 \in Nat /\ Samples \in Nat
        BY <1>0, <2>1, AudioAssumption
    <2>3. /\ b \in Seq(Audible) /\ InOrder(b, produced + 1) /\ Older(output, b, produced + 1)
          /\ Len(b) \in Nat
          /\ thrown => Len(b) = 0
          /\ playing /\ ~thrown => Len(b) = Len(buffer) + 1
          /\ ~playing => Len(b) = Len(buffer)
        <3>1. CASE ~playing
            <4>1. b = buffer
                BY <3>1 DEF Appended
            <4>2. InOrder(buffer, produced + 1) /\ Older(output, buffer, produced + 1)
                <5>1. /\ \A i \in 1 .. Len(buffer) : buffer[i] \in Nat
                      /\ \A i \in 1 .. Len(output.samples) : output.samples[i] \in Nat
                    BY <1>0, SamplesAreNumbers
                <5>2. \A k \in Nat : k <= produced => k <= produced + 1
                    BY <1>0
                <5> QED BY <1>1, <5>1, <5>2 DEF InOrder, Older
            <4> QED BY <1>0, <3>1, <4>1, <4>2
        <3>2. CASE thrown
            <4>1. b = << >>
                BY <3>2 DEF Appended, Position
            <4>2. << >> \in Seq(Audible) /\ Len(<< >>) = 0 /\ InOrder(<< >>, produced + 1)
                BY <2>2, NothingLeft
            <4>3. Older(output, << >>, produced + 1)
                <5>1. \A i \in 1 .. Len(output.samples) : output.samples[i] \in Nat
                    BY <1>0, SamplesAreNumbers
                <5>2. \A k \in Nat : k <= produced => k <= produced + 1
                    BY <1>0
                <5> QED BY <1>1, <4>2, <5>1, <5>2 DEF Older
            <4> QED BY <3>2, <4>1, <4>2, <4>3
        <3>3. CASE playing /\ ~thrown
            <4> DEFINE x == produced + 1
                       l == Len(buffer)
            <4>1. b = Append(buffer, x)
                BY <3>3 DEF Appended, Position
            <4> HIDE DEF b
            <4>2. /\ b \in Seq(Audible) /\ Len(b) = l + 1
                  /\ \A i \in 1 .. l : b[i] = buffer[i]
                  /\ b[l + 1] = x
                BY <1>0, <2>2, <4>1, AppendProperties
            <4>3. /\ \A i \in 1 .. l : buffer[i] \in Nat /\ buffer[i] < x
                  /\ \A i \in 1 .. Len(output.samples) :
                         output.samples[i] \in Nat /\ output.samples[i] < x
                <5>1. /\ \A i \in 1 .. Len(buffer) : buffer[i] \in Nat
                      /\ \A i \in 1 .. Len(output.samples) : output.samples[i] \in Nat
                    BY <1>0, SamplesAreNumbers
                <5>2. \A k \in Nat : k <= produced => k < produced + 1
                    BY <1>0
                <5> QED BY <1>1, <5>1, <5>2 DEF InOrder, Older
            <4>4. \A i \in 1 .. l + 1 : i \in 1 .. l \/ i = l + 1
                BY <1>0
            <4>5. \A k \in Nat : k < x => k <= x
                BY <2>2
            <4> HIDE DEF x
            <4>6. x <= x /\ l \in Nat
                BY <1>0, <2>2 DEF x
            <4> HIDE DEF l
            <4>7. InOrder(b, x)
                <5>1. \A i \in 1 .. l + 1 : b[i] <= x
                    BY <4>2, <4>3, <4>4, <4>5, <4>6
                <5>2. \A i, j \in 1 .. l + 1 : i < j => b[i] < b[j]
                    <6> SUFFICES ASSUME NEW i \in 1 .. l + 1, NEW j \in 1 .. l + 1, i < j
                                 PROVE  b[i] < b[j]
                        OBVIOUS
                    <6>1. i \in 1 .. l
                        BY <4>6
                    <6>2. CASE j = l + 1
                        BY <4>2, <4>3, <6>1, <6>2
                    <6>3. CASE j \in 1 .. l
                        BY <1>1, <4>2, <6>1, <6>3 DEF InOrder, l
                    <6> QED BY <4>4, <6>2, <6>3
                <5> QED BY <4>2, <5>1, <5>2 DEF InOrder
            <4>8. Older(output, b, x)
                <5>1. \A i \in 1 .. Len(output.samples) : output.samples[i] <= x
                    BY <4>3, <4>5
                <5>2. output.taken =>
                        \A i \in 1 .. Len(output.samples), j \in 1 .. l + 1 : output.samples[i] < b[j]
                    BY <1>1, <4>2, <4>3, <4>4 DEF Older, l
                <5> QED BY <4>2, <5>1, <5>2 DEF Older
            <4> QED BY <3>3, <4>2, <4>6, <4>7, <4>8 DEF x, l
        <3> QED BY <3>1, <3>2, <3>3
    <2> HIDE DEF b
    <2>4. size' \in Nat /\ (size' = 0 \/ size' >= 4) /\ Len(b) <= size'
        <3>1. CASE playing /\ Len(buffer) = size /\ size < LastSize
            <4>1. size' = Grown(size) /\ Len(b) = size + 1
                BY <1>0, <2>1, <2>3, <3>1, AudioAssumption
            <4>2. Grown(size) \in Nat /\ Grown(size) >= 4 /\ Grown(size) >= size + 1
                BY <1>0, AudioAssumption DEF Grown
            <4> QED BY <1>0, <4>1, <4>2
        <3>2. CASE ~(playing /\ Len(buffer) = size /\ size < LastSize)
            <4>1. size' = size
                BY <2>1, <3>2
            <4>2. playing /\ ~thrown => Len(buffer) < size
                BY <1>0, <3>2, AudioAssumption
            <4> QED BY <1>0, <2>3, <4>1, <4>2
        <3> QED BY <3>1, <3>2
    <2>5. WakeUpAhead' /\ callback' \in {"idle", "waiting", "woken"} /\ needed' \in Frames \cup {0}
        <3>1. CASE ~thrown /\ Len(b) = needed
            <4>1. callback' = Signalled /\ needed' = 0
                BY <1>8, <2>1, <3>1 DEF GotNewSample, NeededReached, Position
            <4>2. callback' \in {"idle", "woken"}
                BY <1>0, <4>1 DEF Signalled
            <4> QED BY <4>1, <4>2 DEF WakeUpAhead
        <3>2. CASE ~(~thrown /\ Len(b) = needed)
            <4>1. callback' = callback /\ needed' = needed
                BY <1>8, <2>1, <3>2 DEF GotNewSample, NeededReached, Position
            <4>2. callback = "waiting" => needed = frames /\ Len(buffer) < needed /\ needed \in Nat
                BY <1>0, <1>1, <1>2 DEF WakeUpAhead, Position
            <4>3. callback = "waiting" => Len(b) < needed
                BY <1>0, <2>3, <3>2, <4>2
            <4> QED BY <1>0, <2>1, <4>1, <4>2, <4>3 DEF WakeUpAhead, Position
        <3> QED BY <3>1, <3>2
    <2>6. AudioTyped'
        BY <1>0, <2>1, <2>2, <2>3, <2>4, <2>5 DEF AudioTyped, AudioTypeOK, Position
    <2> QED BY <2>1, <2>3, <2>5, <2>6 DEF AudioInv, InOrder, Older
<1> QED BY <1>3, <1>4, <1>5, <1>6, <1>7, <1>8 DEF AudioNext

LEMMA AudioInvariance == AudioSpec => []AudioInv
BY AudioStarts, AudioKeeps, PTL DEF AudioSpec

(* The emulation thread never writes past the end of the sound buffer,     *)
(* however it has grown (gotNewSample in Document.m).                      *)
THEOREM NothingOverflows == AudioSpec => []AudioTypeOK
<1>1. AudioInv => AudioTypeOK
    BY DEF AudioInv, AudioTyped
<1> QED BY <1>1, AudioInvariance, PTL

(* For every size of the callbacks, every slack and every growth of the    *)
(* buffer: a callback that waits has not missed its wake-up, although it   *)
(* is sent only at the very position that is needed; no sample that was    *)
(* taken is played again, or out of order; and a callback that finds       *)
(* enough leaves less than the slack (Cocoa/Document.m).                   *)
THEOREM SoundIsInTime == AudioSpec => PlaysInTime
<1>1. AudioInv => WakeUpAhead /\ NothingTwice
    <2> SUFFICES ASSUME AudioInv PROVE NothingTwice
        BY DEF AudioInv
    <2>1. InOrder(buffer, produced) /\ Older(output, buffer, produced)
        BY DEF AudioInv
    <2>2. /\ buffer \in Seq(Audible) /\ output.samples \in Seq(Audible)
          /\ Len(buffer) \in Nat
        BY DEF AudioInv, AudioTyped, AudioTypeOK, Audible
    <2>3. \A i \in 1 .. Len(buffer) - 1 :
              i \in 1 .. Len(buffer) /\ i + 1 \in 1 .. Len(buffer) /\ i < i + 1
        BY <2>2
    <2>4. \A i \in 1 .. Position - 1 : buffer[i] < buffer[i + 1]
        BY <2>1, <2>3 DEF InOrder, Position
    <2>5. DOMAIN buffer = 1 .. Len(buffer) /\ DOMAIN output.samples = 1 .. Len(output.samples)
        BY <2>2, LenProperties
    <2>6. output.taken => \A s \in Range(output.samples), t \in Range(buffer) : s < t
        BY <2>1, <2>5 DEF Older, Range
    <2> QED BY <2>4, <2>6 DEF NothingTwice
<1>2. AudioInv /\ [AudioNext]_audioVars =>
        [output' # output /\ output'.taken => Len(buffer') < Slack]_audioVars
    <2> SUFFICES ASSUME AudioInv, AudioNext, output' # output, output'.taken
                 PROVE  Len(buffer') < Slack
        OBVIOUS
    <2>1. PICK n \in Nat : Render(n)
        <3>1. CASE \E n \in Frames : CallbackBegins(n)
            BY <3>1, AudioAssumption DEF CallbackBegins
        <3>2. CASE CallbackEnds
            <4>1. frames \in Nat
                BY AudioAssumption DEF AudioInv, AudioTyped, AudioTypeOK
            <4> QED BY <3>2, <4>1 DEF CallbackEnds
        <3> QED
            BY <3>1, <3>2
            DEF AudioNext, Start, Mute, Debugger, GotNewSample, Stop, PostRun, RunEnds
    <2> QED BY <2>1, RenderKeeps
<1> QED BY <1>1, <1>2, AudioInvariance, PTL DEF AudioSpec, PlaysInTime, LatencyBounded
-----------------------------------------------------------------------------
(* The WorkBoy *)

Needs == {"any", "shift", "unshift"}
SlotKeys == [code : {"zero", "letter", "shift_down", "shift_up"}, need : Needs, want : BOOLEAN,
             raced : BOOLEAN]
TypedKeys == [code : {"letter", "shift_down", "shift_up"}, need : Needs, want : BOOLEAN,
              seen : BOOLEAN \X BOOLEAN]

KeyboardTyped ==
    /\ key \in {EmptySlot} \union SlotKeys /\ typing \in {EmptySlot} \union TypedKeys
    /\ shift_down \in BOOLEAN /\ user_shift_down \in BOOLEAN /\ held \in BOOLEAN
    /\ lost \in BOOLEAN /\ delivered \in [want : BOOLEAN, shift : BOOLEAN]

(* With what it needs, the key will be told with the Shift that was meant. *)
Meant(k, shift) ==
    CASE k.need = "shift" -> k.want = TRUE
      [] k.need = "unshift" -> k.want = FALSE
      [] OTHER -> k.want = shift

(* A key of Shift whose own need is met already would be told as a letter. *)
ToMove(k, shift) == (k.need = "shift" => shift = FALSE) /\ (k.need = "unshift" => shift = TRUE)

SlotInv ==
    key # EmptySlot /\ ~key.raced =>
        IF IsShift(key) THEN ToMove(key, shift_down) ELSE lost \/ Meant(key, shift_down)

(* What a key that is being typed needs was found with the Shift that was  *)
(* seen, for which the Shift that is held now is meant.                    *)
TypingInv ==
    typing # EmptySlot =>
        IF IsShift(typing)
        THEN ToMove(typing, typing.seen[2]) /\ held = (typing.code = "shift_down")
        ELSE CASE typing.need = "shift" ->
                      typing.want = TRUE \/ (typing.seen = <<TRUE, FALSE>> /\ typing.want = held)
               [] typing.need = "unshift" ->
                      typing.want = FALSE \/ (typing.seen = <<FALSE, TRUE>> /\ typing.want = held)
               [] OTHER -> typing.seen[1] = typing.seen[2] /\ typing.want = held

(* A change of Shift that has not arrived and is not lost is on its way.   *)
HeldInv ==
    \/ lost
    \/ IsShift(typing)
    \/ held = IF IsShift(key) THEN key.code = "shift_down" ELSE user_shift_down

KeyboardInv ==
    /\ KeyboardTyped /\ SlotInv /\ TypingInv /\ HeldInv
    /\ program_shift = shift_down /\ KeysArriveAsTyped

CalendarTyped ==
    /\ clock \in [day : Nat, year : Nat] /\ date_buffer \in [day : Nat, year : Nat]
    /\ asked \in [day : Nat, year : Nat] /\ read \in [day : Nat, year : Nat]
    /\ sent \in [day : 0 .. 31, year : 0 .. 255, bits : 0 .. 4]
    /\ buffer_index \in Nat /\ mode \in {0, R, W, O} /\ bits_received \in {0, 1}

(* The digits that have been read. *)
ReadSoFar ==
    [day |-> CASE buffer_index < 11 -> 0
               [] buffer_index = 11 -> asked.day \div 10
               [] OTHER -> asked.day,
     year |-> CASE buffer_index < 31 -> 0
                [] buffer_index = 31 -> asked.year \div 16
                [] OTHER -> asked.year]

ReadInv ==
    mode = R =>
        /\ buffer_index > 0 /\ asked = clock /\ read = ReadSoFar
        /\ date_buffer = [day |-> int_to_bcd(asked.day), year |-> asked.year]

(* The bytes that have been sent. *)
SetInv ==
    mode = W =>
        /\ buffer_index <= BufferSize + 1 /\ sent.bits < 4
        /\ buffer_index > 12 => date_buffer.day = int_to_bcd(sent.day) + 64 * sent.bits

ClockInv ==
    /\ mode \in {0, R} => sent.bits = 4
    /\ mode = O /\ sent.bits = 0 => clock = [day |-> sent.day, year |-> sent.year]

CalendarInv == CalendarTyped /\ (bits_received = 0 => ReadInv /\ SetInv /\ ClockInv)

WorkBoyInv == KeyboardInv /\ CalendarInv

-----------------------------------------------------------------------------
(* Keys are told by their codes from an empty slot. *)
LEMMA KeysAreKeys ==
    /\ \A k \in SlotKeys \union TypedKeys : k # EmptySlot
    /\ ~IsShift(EmptySlot)
    /\ \A k \in SlotKeys \union TypedKeys : IsShift(k) = (k.code \in {"shift_down", "shift_up"})
<1>1. ASSUME NEW k \in SlotKeys \union TypedKeys PROVE k # EmptySlot
  <2>1. k.code # "GB_WORKBOY_NONE"
    BY DEF SlotKeys, TypedKeys
  <2>2. EmptySlot.code = "GB_WORKBOY_NONE"
    BY DEF EmptySlot
  <2> QED BY <2>1, <2>2
<1> QED BY <1>1 DEF IsShift

LEMMA KeyboardBegins == WorkBoyInit => KeyboardInv
<1> SUFFICES ASSUME WorkBoyInit PROVE KeyboardInv
  OBVIOUS
<1>1. key \in SlotKeys /\ key.code = "zero" /\ key.need = "any" /\ key.want = FALSE
  BY DEF WorkBoyInit, SlotKeys, Needs
<1>2. ~IsShift(key) /\ ~IsShift(typing) /\ typing = EmptySlot
  BY <1>1, KeysAreKeys DEF WorkBoyInit
<1>3. KeyboardTyped
  BY <1>1, <1>2 DEF WorkBoyInit, KeyboardTyped, NoKey
<1>4. SlotInv /\ TypingInv /\ HeldInv
  BY <1>1, <1>2 DEF WorkBoyInit, SlotInv, TypingInv, HeldInv, Meant
<1>5. program_shift = shift_down /\ KeysArriveAsTyped
  BY DEF WorkBoyInit, KeysArriveAsTyped, NoKey
<1> QED BY <1>3, <1>4, <1>5 DEF KeyboardInv

(* GB_workboy_set_key has looked at Shift. *)
LEMMA TypeKeeps ==
    ASSUME KeyboardInv, NEW code, NEW need, BeginKey(code, need),
           \/ code \in {"shift_down", "shift_up"} /\ held = (code = "shift_up") /\ need = "any"
           \/ code = "letter" /\ need \in Needs
    PROVE  KeyboardInv'
<1>1. /\ typing = EmptySlot /\ UNCHANGED <<key, shift_down, user_shift_down, program_shift, lost, delivered>>
      /\ held' = CASE code = "shift_down" -> TRUE [] code = "shift_up" -> FALSE [] OTHER -> held
      /\ typing' = [code |-> code, need |-> Needed(code, need),
                    want |-> IF need = "any" THEN held' ELSE need = "shift",
                    seen |-> <<user_shift_down, shift_down>>]
  BY DEF BeginKey
<1>2. /\ shift_down \in BOOLEAN /\ user_shift_down \in BOOLEAN /\ held \in BOOLEAN
      /\ key \in {EmptySlot} \union SlotKeys /\ lost \in BOOLEAN
      /\ delivered \in [want : BOOLEAN, shift : BOOLEAN]
  BY DEF KeyboardInv, KeyboardTyped
<1>3. held' \in BOOLEAN /\ code \in {"letter", "shift_down", "shift_up"} /\ need \in Needs
  BY <1>1, <1>2 DEF Needs
<1>4. Needed(code, need) \in Needs
  BY <1>3 DEF Needed, Needs
<1>5. /\ typing' \in TypedKeys /\ typing'.code = code /\ typing'.need = Needed(code, need)
      /\ typing'.seen = <<user_shift_down, shift_down>>
      /\ typing'.want = IF need = "any" THEN held' ELSE need = "shift"
  BY <1>1, <1>2, <1>3, <1>4 DEF TypedKeys, Needs
<1>6. KeyboardTyped'
  BY <1>1, <1>2, <1>3, <1>5 DEF KeyboardTyped
<1>7. SlotInv'
  BY <1>1 DEF KeyboardInv, SlotInv, IsShift, ToMove, Meant
<1>8. IsShift(typing') = (code \in {"shift_down", "shift_up"}) /\ ~IsShift(typing)
  BY <1>1, <1>5, KeysAreKeys
<1>9. TypingInv' /\ HeldInv'
  <2>1. CASE code = "letter"
    <3>1. held' = held /\ ~IsShift(typing')
      BY <1>1, <1>8, <2>1
    <3>2. HeldInv'
      BY <1>1, <1>8, <3>1 DEF KeyboardInv, HeldInv, IsShift
    <3>3. TypingInv'
      <4>1. CASE need = "any" /\ user_shift_down # shift_down /\ user_shift_down
        BY <1>2, <1>5, <3>1, <4>1 DEF TypingInv, Needed
      <4>2. CASE need = "any" /\ user_shift_down # shift_down /\ ~user_shift_down
        BY <1>2, <1>5, <3>1, <4>2 DEF TypingInv, Needed
      <4>3. CASE need = "any" /\ user_shift_down = shift_down
        BY <1>2, <1>5, <3>1, <4>3 DEF TypingInv, Needed
      <4>4. CASE need = "shift"
        BY <1>2, <1>5, <3>1, <4>4 DEF TypingInv, Needed
      <4>5. CASE need = "unshift"
        BY <1>2, <1>5, <3>1, <4>5 DEF TypingInv, Needed
      <4> QED BY <1>3, <4>1, <4>2, <4>3, <4>4, <4>5 DEF Needs
    <3> QED BY <3>2, <3>3
  <2>2. CASE code \in {"shift_down", "shift_up"}
    <3>1. IsShift(typing') /\ need = "any"
      BY <1>8, <2>2
    <3>2. ToMove(typing', typing'.seen[2])
      BY <1>2, <1>5, <3>1 DEF ToMove, Needed
    <3>3. held' = (typing'.code = "shift_down")
      BY <1>1, <1>5, <2>2
    <3> QED BY <3>1, <3>2, <3>3 DEF TypingInv, HeldInv
  <2> QED BY <1>3, <2>1, <2>2
<1>10. program_shift' = shift_down' /\ KeysArriveAsTyped'
  BY <1>1 DEF KeyboardInv, KeysArriveAsTyped
<1> QED BY <1>6, <1>7, <1>9, <1>10 DEF KeyboardInv

(* It stores the key. *)
LEMMA StoreKeeps == KeyboardInv /\ StoreKey => KeyboardInv'
<1> SUFFICES ASSUME KeyboardInv, StoreKey PROVE KeyboardInv'
  OBVIOUS
<1>1. /\ typing # EmptySlot /\ typing' = EmptySlot /\ lost' = (lost \/ IsShift(key))
      /\ UNCHANGED <<shift_down, user_shift_down, held, program_shift, delivered>>
  BY DEF StoreKey
<1>2. /\ shift_down \in BOOLEAN /\ user_shift_down \in BOOLEAN /\ held \in BOOLEAN
      /\ typing \in TypedKeys /\ lost \in BOOLEAN
      /\ delivered \in [want : BOOLEAN, shift : BOOLEAN]
  BY <1>1 DEF KeyboardInv, KeyboardTyped
<1>3. IsShift(key) \in BOOLEAN /\ IsShift(typing) \in BOOLEAN
  BY DEF IsShift
<1>4. /\ key' \in SlotKeys /\ key'.code = typing.code /\ key'.need = typing.need
      /\ key'.want = typing.want
      /\ key'.raced = (typing.seen # <<user_shift_down, shift_down>>)
  BY <1>2 DEF StoreKey, SlotKeys, TypedKeys
<1>5. IsShift(key') = IsShift(typing) /\ ~IsShift(typing')
  BY <1>1, <1>2, <1>4, KeysAreKeys
<1>6. KeyboardTyped'
  BY <1>1, <1>2, <1>3, <1>4 DEF KeyboardTyped
<1>7. TypingInv'
  BY <1>1 DEF TypingInv
<1>8. HeldInv'
  BY <1>1, <1>2, <1>3, <1>4, <1>5 DEF KeyboardInv, HeldInv, TypingInv
<1>9. SlotInv'
  <2> SUFFICES ASSUME ~key'.raced
               PROVE  IF IsShift(key') THEN ToMove(key', shift_down') ELSE lost' \/ Meant(key', shift_down')
    BY DEF SlotInv
  <2>1. typing.seen = <<user_shift_down, shift_down>>
    BY <1>4
  <2>2. CASE IsShift(typing)
    <3>1. ToMove(typing, shift_down)
      BY <1>1, <2>1, <2>2 DEF KeyboardInv, TypingInv
    <3> QED BY <1>1, <1>4, <1>5, <2>2, <3>1 DEF ToMove
  <2>3. CASE ~IsShift(typing)
    <3> SUFFICES ASSUME ~lost, ~IsShift(key) PROVE Meant(key', shift_down')
      BY <1>1, <1>5, <2>3
    <3>1. held = user_shift_down
      BY <2>3 DEF KeyboardInv, HeldInv
    <3>2. CASE typing.need = "shift"
      <4>1. typing.want = TRUE \/ (typing.seen = <<TRUE, FALSE>> /\ typing.want = held)
        BY <1>1, <2>3, <3>2 DEF KeyboardInv, TypingInv
      <4>3. ASSUME typing.seen = <<TRUE, FALSE>> PROVE user_shift_down = TRUE
        <5>1. typing.seen[1] = user_shift_down
          BY <2>1
        <5>2. typing.seen[1] = TRUE
          BY <4>3
        <5> QED BY <5>1, <5>2
      <4>2. typing.want = TRUE
        BY <3>1, <4>1, <4>3
      <4> QED BY <1>4, <3>2, <4>2 DEF Meant
    <3>3. CASE typing.need = "unshift"
      <4>1. typing.want = FALSE \/ (typing.seen = <<FALSE, TRUE>> /\ typing.want = held)
        BY <1>1, <2>3, <3>3 DEF KeyboardInv, TypingInv
      <4>3. ASSUME typing.seen = <<FALSE, TRUE>> PROVE user_shift_down = FALSE
        <5>1. typing.seen[1] = user_shift_down
          BY <2>1
        <5>2. typing.seen[1] = FALSE
          BY <4>3
        <5> QED BY <5>1, <5>2
      <4>2. typing.want = FALSE
        BY <3>1, <4>1, <4>3
      <4> QED BY <1>4, <3>3, <4>2 DEF Meant
    <3>4. CASE typing.need \notin {"shift", "unshift"}
      <4>1. typing.seen[1] = typing.seen[2] /\ typing.want = held
        BY <1>1, <2>3, <3>4 DEF KeyboardInv, TypingInv
      <4>2. typing.want = shift_down
        BY <1>2, <2>1, <3>1, <4>1
      <4> QED BY <1>1, <1>4, <3>4, <4>2 DEF Meant
    <3> QED BY <3>2, <3>3, <3>4
  <2> QED BY <2>2, <2>3
<1>10. program_shift' = shift_down' /\ KeysArriveAsTyped'
  BY <1>1 DEF KeyboardInv, KeysArriveAsTyped
<1> QED BY <1>6, <1>7, <1>8, <1>9, <1>10 DEF KeyboardInv

(* The slot is emptied. *)
LEMMA EmptyKeeps ==
    ASSUME KeyboardInv, key' = EmptySlot, lost' = (lost \/ IsShift(key)),
           UNCHANGED <<shift_down, user_shift_down, typing, held, program_shift, delivered>>
    PROVE  KeyboardInv'
<1>1. IsShift(key) \in BOOLEAN /\ ~IsShift(key')
  BY KeysAreKeys DEF IsShift
<1>2. lost \in BOOLEAN
  BY DEF KeyboardInv, KeyboardTyped
<1>3. KeyboardTyped'
  BY <1>1, <1>2 DEF KeyboardInv, KeyboardTyped
<1>4. SlotInv' /\ TypingInv'
  BY DEF KeyboardInv, SlotInv, TypingInv, IsShift, ToMove
<1>5. HeldInv'
  BY <1>1, <1>2 DEF KeyboardInv, HeldInv, IsShift
<1>6. program_shift' = shift_down' /\ KeysArriveAsTyped'
  BY DEF KeyboardInv, KeysArriveAsTyped
<1> QED BY <1>3, <1>4, <1>5, <1>6 DEF KeyboardInv

(* A key is told. *)
LEMMA DeliverKeeps ==
    ASSUME KeyboardInv, Deliver, key # EmptySlot, ~IsShift(key) \/ key.raced,
           ~key.raced /\ ~lost => key.want = shift_down
    PROVE  KeyboardInv'
<1>1. /\ delivered' = IF lost \/ key.raced THEN NoKey ELSE [want |-> key.want, shift |-> program_shift]
      /\ lost' = (lost \/ IsShift(key)) /\ shift_down' = shift_down /\ program_shift' = shift_down
      /\ user_shift_down' = user_shift_down /\ key' = EmptySlot /\ UNCHANGED <<typing, held>>
  BY DEF Deliver, Answer
<1>2. IsShift(key) \in BOOLEAN /\ ~IsShift(key') /\ lost \in BOOLEAN /\ key \in SlotKeys
      /\ program_shift = shift_down /\ shift_down \in BOOLEAN
  BY <1>1, KeysAreKeys DEF IsShift, KeyboardInv, KeyboardTyped
<1>3. delivered' \in [want : BOOLEAN, shift : BOOLEAN] /\ KeysArriveAsTyped'
  BY <1>1, <1>2 DEF KeysArriveAsTyped, NoKey, SlotKeys
<1>4. KeyboardTyped'
  BY <1>1, <1>2, <1>3 DEF KeyboardInv, KeyboardTyped
<1>5. SlotInv' /\ TypingInv'
  BY <1>1 DEF KeyboardInv, SlotInv, TypingInv, IsShift, ToMove
<1>6. HeldInv'
  BY <1>1, <1>2 DEF KeyboardInv, HeldInv, IsShift
<1> QED BY <1>1, <1>3, <1>4, <1>5, <1>6 DEF KeyboardInv

(* Shift is told before the key. *)
LEMMA MoveKeeps ==
    ASSUME KeyboardInv, NEW down \in BOOLEAN, MoveShift(down), key # EmptySlot,
           ~key.raced /\ ~IsShift(key) => lost \/ key.want = down
    PROVE  KeyboardInv'
<1>1. /\ key' = [key EXCEPT !.need = "any"] /\ shift_down' = down /\ program_shift' = down
      /\ UNCHANGED <<user_shift_down, typing, held, delivered, lost>>
  BY DEF MoveShift, Answer
<1>2. key \in SlotKeys
  BY DEF KeyboardInv, KeyboardTyped
<1>3. /\ key' \in SlotKeys /\ key'.code = key.code /\ key'.need = "any" /\ key'.want = key.want
      /\ key'.raced = key.raced
  BY <1>1, <1>2 DEF SlotKeys, Needs
<1>4. IsShift(key') = IsShift(key) /\ IsShift(typing') = IsShift(typing)
  BY <1>1, <1>2, <1>3, KeysAreKeys
<1>5. KeyboardTyped'
  BY <1>1, <1>3 DEF KeyboardInv, KeyboardTyped
<1>6. SlotInv'
  BY <1>1, <1>3, <1>4 DEF SlotInv, ToMove, Meant
<1>7. TypingInv'
  BY <1>1 DEF KeyboardInv, TypingInv, IsShift, ToMove
<1>8. HeldInv'
  BY <1>1, <1>3, <1>4 DEF KeyboardInv, HeldInv
<1>9. KeysArriveAsTyped'
  BY <1>1 DEF KeyboardInv, KeysArriveAsTyped
<1> QED BY <1>1, <1>5, <1>6, <1>7, <1>8, <1>9 DEF KeyboardInv

(* The user's Shift is told. *)
LEMMA UserShiftKeeps ==
    ASSUME KeyboardInv, IsShift(key), UserShift(key.code = "shift_down")
    PROVE  KeyboardInv'
<1> DEFINE down == key.code = "shift_down"
<1>1. /\ key' = EmptySlot /\ shift_down' = down /\ program_shift' = down /\ user_shift_down' = down
      /\ lost' = (down # held) /\ delivered' = delivered /\ UNCHANGED <<typing, held>>
  BY DEF UserShift, Answer
<1>2. down \in BOOLEAN
  OBVIOUS
<1> HIDE DEF down
<1>3. ~IsShift(key') /\ IsShift(typing') = IsShift(typing)
  BY <1>1, KeysAreKeys
<1>4. KeyboardTyped'
  BY <1>1, <1>2 DEF KeyboardInv, KeyboardTyped
<1>5. SlotInv' /\ TypingInv'
  BY <1>1 DEF KeyboardInv, SlotInv, TypingInv, IsShift, ToMove
<1>6. HeldInv'
  BY <1>1, <1>2, <1>3 DEF HeldInv
<1>7. KeysArriveAsTyped'
  BY <1>1 DEF KeyboardInv, KeysArriveAsTyped
<1> QED BY <1>1, <1>4, <1>5, <1>6, <1>7 DEF KeyboardInv

LEMMA PollKeeps == KeyboardInv /\ Poll => KeyboardInv'
<1> SUFFICES ASSUME KeyboardInv, Poll PROVE KeyboardInv'
  OBVIOUS
<1>1. CASE key = EmptySlot /\ UNCHANGED keyboard
  BY <1>1 DEF keyboard, KeyboardInv, KeyboardTyped, SlotInv, TypingInv, HeldInv, KeysArriveAsTyped,
              IsShift, ToMove, Meant
<1>2. ASSUME key # EmptySlot
      PROVE  /\ key \in SlotKeys /\ shift_down \in BOOLEAN /\ SlotInv
             /\ ~key.raced /\ IsShift(key) => ToMove(key, shift_down)
             /\ ~key.raced /\ ~IsShift(key) => lost \/ Meant(key, shift_down)
  BY <1>2 DEF KeyboardInv, KeyboardTyped, SlotInv
<1>3. CASE key # EmptySlot /\ key.need = "shift"
  <2>1. CASE shift_down
    <3>1. Deliver
      BY <1>3, <2>1 DEF Poll
    <3>2. ~IsShift(key) \/ key.raced
      BY <1>2, <1>3, <2>1 DEF ToMove
    <3>3. ~key.raced /\ ~lost => key.want = shift_down
      BY <1>2, <1>3, <2>1, <3>2 DEF Meant
    <3> QED BY <1>3, <3>1, <3>2, <3>3, DeliverKeeps
  <2>2. CASE ~shift_down
    <3>1. MoveShift(TRUE)
      BY <1>3, <2>2 DEF Poll
    <3>2. ~key.raced /\ ~IsShift(key) => lost \/ key.want = TRUE
      BY <1>2, <1>3 DEF Meant
    <3> QED BY <1>3, <3>1, <3>2, MoveKeeps
  <2> QED BY <2>1, <2>2
<1>4. CASE key # EmptySlot /\ key.need = "unshift"
  <2>1. CASE shift_down
    <3>1. MoveShift(FALSE)
      BY <1>4, <2>1 DEF Poll
    <3>2. ~key.raced /\ ~IsShift(key) => lost \/ key.want = FALSE
      BY <1>2, <1>4 DEF Meant
    <3> QED BY <1>4, <3>1, <3>2, MoveKeeps
  <2>2. CASE ~shift_down
    <3>1. Deliver
      BY <1>4, <2>2 DEF Poll
    <3>2. ~IsShift(key) \/ key.raced
      BY <1>2, <1>4, <2>2 DEF ToMove
    <3>3. ~key.raced /\ ~lost => key.want = shift_down
      BY <1>2, <1>4, <2>2, <3>2 DEF Meant
    <3> QED BY <1>4, <3>1, <3>2, <3>3, DeliverKeeps
  <2> QED BY <2>1, <2>2
<1>5. CASE key # EmptySlot /\ key.need = "any"
  <2>1. CASE IsShift(key)
    BY <1>5, <2>1, UserShiftKeeps DEF Poll
  <2>2. CASE ~IsShift(key)
    <3>1. Deliver
      BY <1>5, <2>2 DEF Poll
    <3>2. ~key.raced /\ ~lost => key.want = shift_down
      BY <1>2, <1>5, <2>2 DEF Meant
    <3> QED BY <1>5, <2>2, <3>1, <3>2, DeliverKeeps
  <2> QED BY <2>1, <2>2
<1> QED BY <1>1, <1>3, <1>4, <1>5 DEF Poll

(* A byte from the program. *)
LEMMA ReceivedKeys ==
    ASSUME NEW byte, Received(byte)
    PROVE  DropKey \/ Poll \/ UNCHANGED keyboard
BY DEF Received, R, W, O

LEMMA KeyboardPreserved == KeyboardInv /\ [WorkBoyNext]_workboyVars => KeyboardInv'
<1> SUFFICES ASSUME KeyboardInv, [WorkBoyNext]_workboyVars PROVE KeyboardInv'
  OBVIOUS
<1>1. ASSUME UNCHANGED keyboard PROVE KeyboardInv'
  BY <1>1 DEF keyboard, KeyboardInv, KeyboardTyped, SlotInv, TypingInv, HeldInv, KeysArriveAsTyped,
              IsShift, ToMove, Meant
<1>2. CASE TypeKey
  BY <1>2, TypeKeeps DEF TypeKey, Needs
<1>3. CASE StoreKey
  BY <1>3, StoreKeeps
<1>4. CASE ReleaseKey
  BY <1>4, EmptyKeeps DEF ReleaseKey
<1>5. ASSUME NEW byte, Received(byte) PROVE KeyboardInv'
  <2>1. CASE DropKey
    BY <2>1, EmptyKeeps DEF DropKey
  <2> QED BY <1>1, <1>5, <2>1, PollKeeps, ReceivedKeys
<1>6. CASE Exchange \/ Garbled
  BY <1>5, <1>6 DEF Exchange, Garbled
<1>7. CASE Cut \/ UNCHANGED workboyVars
  BY <1>1, <1>7 DEF Cut, workboyVars
<1> QED BY <1>2, <1>3, <1>4, <1>6, <1>7 DEF WorkBoyNext

-----------------------------------------------------------------------------
(* A day in two decimal digits, a year in two hexadecimal ones. *)
LEMMA DigitsAreKept ==
    ASSUME NEW n \in Nat
    PROVE  /\ int_to_bcd(n) \in Nat
           /\ int_to_bcd(n) \div 16 = n \div 10 /\ int_to_bcd(n) % 16 = n % 10
           /\ (n \div 10) * 10 + (n % 10) = n
           /\ (n \div 16) * 16 + (n % 16) = n
<1> DEFINE a == n % 10
           b == n \div 10
<1>1. a \in 0 .. 9 /\ b \in Nat /\ n = b * 10 + a
  OBVIOUS
<1>2. (n \div 16) * 16 + (n % 16) = n
  OBVIOUS
<1> HIDE DEF a, b
<1>3. a + 16 * b \in Nat /\ (a + 16 * b) \div 16 = b /\ (a + 16 * b) % 16 = a
  BY <1>1
<1> QED BY <1>1, <1>2, <1>3 DEF int_to_bcd, a, b

(* The clock is set to the date that was sent; the day's top bits are 0.   *)
LEMMA DateIsSet ==
    ASSUME NEW day \in 0 .. 31, NEW year \in 0 .. 255
    PROVE  Set([day |-> int_to_bcd(day), year |-> year]) = [day |-> day, year |-> year]
<1>1. int_to_bcd(day) \div 16 = day \div 10 /\ int_to_bcd(day) % 16 = day % 10
  BY DigitsAreKept
<1>2. bcd_to_int(int_to_bcd(day)) = day
  BY <1>1, DigitsAreKept DEF bcd_to_int
<1>3. int_to_bcd(day) \in 0 .. 63
  <2>1. day % 10 \in 0 .. 9 /\ day \div 10 \in 0 .. 3
    OBVIOUS
  <2> QED BY <2>1 DEF int_to_bcd
<1>4. int_to_bcd(day) \div 64 = 0
  BY <1>3
<1>5. (year + 0) % 256 = year
  OBVIOUS
<1> QED BY <1>2, <1>4, <1>5 DEF Set

LEMMA CalendarBegins == WorkBoyInit => CalendarInv
<1> SUFFICES ASSUME WorkBoyInit PROVE CalendarInv
  OBVIOUS
<1>1. Dates \subseteq [day : Nat, year : Nat]
  <2>1. Days \subseteq Nat /\ Years \subseteq Nat
    BY DatesAssumption
  <2> QED BY <2>1 DEF Dates
<1>2. CalendarTyped
  BY <1>1 DEF WorkBoyInit, CalendarTyped, NoDate, NothingSent
<1>3. ReadInv /\ SetInv /\ ClockInv
  BY DEF WorkBoyInit, ReadInv, SetInv, ClockInv, NothingSent, R, W, O
<1> QED BY <1>2, <1>3 DEF CalendarInv

(* 'R': the buffer is filled. *)
LEMMA FillKeeps ==
    ASSUME CalendarInv, mode' = R, buffer_index' = 1, date_buffer' = Filled, asked' = clock,
           read' = NoDate, sent' = NothingSent, UNCHANGED <<clock, bits_received>>
    PROVE  CalendarInv'
<1>1. clock \in [day : Nat, year : Nat] /\ bits_received \in {0, 1}
  BY DEF CalendarInv, CalendarTyped
<1>2. int_to_bcd(clock.day) \in Nat
  BY <1>1, DigitsAreKept
<1>3. CalendarTyped'
  BY <1>1, <1>2 DEF CalendarTyped, Filled, NoDate, NothingSent
<1>4. ReadInv'
  BY DEF ReadInv, ReadSoFar, Filled, NoDate
<1>5. SetInv' /\ ClockInv'
  BY DEF SetInv, ClockInv, NothingSent, R, W, O
<1> QED BY <1>3, <1>4, <1>5 DEF CalendarInv

(* 'W': the program chooses the date that it sends. *)
LEMMA BeginSetKeeps ==
    ASSUME CalendarInv, mode' = W, buffer_index' = 0,
           sent' \in [day : Days, year : Years, bits : YearBits],
           UNCHANGED <<clock, date_buffer, asked, read, bits_received>>
    PROVE  CalendarInv'
<1>1. sent' \in [day : 0 .. 31, year : 0 .. 255, bits : 0 .. 4] /\ sent'.bits < 4
  <2>1. /\ \A d \in Days : d \in 0 .. 31
        /\ \A y \in Years : y \in 0 .. 255
        /\ \A b \in YearBits : b \in 0 .. 4 /\ b < 4
    BY DatesAssumption
  <2> QED BY <2>1
<1>2. CalendarTyped'
  BY <1>1 DEF CalendarInv, CalendarTyped
<1>3. ReadInv' /\ SetInv' /\ ClockInv'
  BY <1>1, DatesAssumption DEF ReadInv, SetInv, ClockInv, R, W, O
<1> QED BY <1>2, <1>3 DEF CalendarInv

(* Another byte that leaves the calendar alone, unless it has cut a        *)
(* reading short.                                                          *)
LEMMA PollingKeeps ==
    ASSUME CalendarInv, mode # W, mode' = O, UNCHANGED calendar, UNCHANGED bits_received
    PROVE  CalendarInv'
<1>1. CalendarTyped'
  BY DEF CalendarInv, CalendarTyped, calendar
<1>2. ASSUME bits_received = 0 PROVE ReadInv' /\ SetInv' /\ ClockInv'
  BY <1>2 DEF CalendarInv, CalendarTyped, ReadInv, SetInv, ClockInv, calendar, R, W, O
<1> QED BY <1>1, <1>2 DEF CalendarInv, calendar

LEMMA DigitKeeps ==
    ASSUME CalendarInv, mode = R, NextDigit, UNCHANGED <<mode, bits_received>>
    PROVE  CalendarInv'
<1> DEFINE n == buffer_index
<1>1. CASE UNCHANGED calendar
  BY <1>1 DEF CalendarInv, CalendarTyped, ReadInv, ReadSoFar, SetInv, ClockInv, calendar
<1>2. CASE n' = n + 1 /\ read' = Read(n) /\ UNCHANGED <<clock, date_buffer, asked, sent>>
  <2>1. /\ n \in Nat /\ read \in [day : Nat, year : Nat] /\ date_buffer \in [day : Nat, year : Nat]
        /\ asked \in [day : Nat, year : Nat]
    BY DEF CalendarInv, CalendarTyped
  <2>2. Nibble(n) \in Nat
    <3>1. \A byte \in Nat : byte % 16 \in Nat /\ byte \div 16 \in Nat
      OBVIOUS
    <3>2. date_buffer.day \in Nat /\ date_buffer.year \in Nat /\ 0 \in Nat
      BY <2>1
    <3> QED BY <3>1, <3>2 DEF Nibble
  <2>3. Read(n) \in [day : Nat, year : Nat]
    <3>1. read.day * 10 + Nibble(n) \in Nat /\ read.year * 16 + Nibble(n) \in Nat
      BY <2>1, <2>2
    <3> QED BY <2>1, <3>1 DEF Read
  <2>4. CalendarTyped'
    BY <1>2, <2>1, <2>3 DEF CalendarInv, CalendarTyped
  <2>5. ASSUME bits_received = 0 PROVE ReadInv' /\ SetInv' /\ ClockInv'
    <3>1. /\ n > 0 /\ asked = clock /\ read = ReadSoFar
          /\ date_buffer.day = int_to_bcd(asked.day) /\ date_buffer.year = asked.year
          /\ date_buffer = [day |-> int_to_bcd(asked.day), year |-> asked.year]
      BY <2>5 DEF CalendarInv, ReadInv
    <3> DEFINE d == asked.day
               y == asked.year
    <3>2. d \in Nat /\ y \in Nat
      BY <2>1
    <3>3. /\ int_to_bcd(d) \div 16 = d \div 10 /\ int_to_bcd(d) % 16 = d % 10
          /\ (d \div 10) * 10 + (d % 10) = d /\ (y \div 16) * 16 + (y % 16) = y
          /\ d \div 10 \in Nat /\ y \div 16 \in Nat
      <4>1. d \div 10 \in Nat /\ y \div 16 \in Nat
        BY <3>2
      <4>2. /\ int_to_bcd(d) \div 16 = d \div 10 /\ int_to_bcd(d) % 16 = d % 10
            /\ (d \div 10) * 10 + (d % 10) = d
        BY <3>2, DigitsAreKept
      <4>3. (y \div 16) * 16 + (y % 16) = y
        BY <3>2, DigitsAreKept
      <4> QED BY <4>1, <4>2, <4>3
    <3>4. Read(n) = [day |-> CASE n + 1 < 11 -> 0 [] n + 1 = 11 -> d \div 10 [] OTHER -> d,
                     year |-> CASE n + 1 < 31 -> 0 [] n + 1 = 31 -> y \div 16 [] OTHER -> y]
      <4>1. CASE n = 10
        <5>1. n \div 2 = 5 /\ n % 2 = 0
          BY <4>1
        <5>2. Nibble(n) = d \div 10
          BY <3>1, <3>3, <5>1 DEF Nibble
        <5>3. read = [day |-> 0, year |-> 0]
          BY <3>1, <4>1 DEF ReadSoFar
        <5>4. 0 * 10 + (d \div 10) = d \div 10
          BY <3>3
        <5> QED BY <4>1, <5>2, <5>3, <5>4 DEF Read
      <4>2. CASE n = 11
        <5>1. n \div 2 = 5 /\ n % 2 = 1
          BY <4>2
        <5>2. Nibble(n) = d % 10
          BY <3>1, <3>3, <5>1 DEF Nibble
        <5>3. read = [day |-> d \div 10, year |-> 0]
          BY <3>1, <4>2 DEF ReadSoFar
        <5>4. Read(n) = [day |-> (d \div 10) * 10 + (d % 10), year |-> 0]
          BY <4>2, <5>2, <5>3 DEF Read
        <5>5. Read(n) = [day |-> d, year |-> 0]
          BY <3>3, <5>4
        <5> QED BY <4>2, <5>5
      <4>3. CASE n = 30
        <5>1. n \div 2 = 15 /\ n % 2 = 0
          BY <4>3
        <5>2. Nibble(n) = y \div 16
          BY <3>1, <3>3, <5>1 DEF Nibble
        <5>3. read = [day |-> d, year |-> 0]
          BY <3>1, <4>3 DEF ReadSoFar
        <5>4. 0 * 16 + (y \div 16) = y \div 16
          BY <3>3
        <5> QED BY <4>3, <5>2, <5>3, <5>4 DEF Read
      <4>4. CASE n = 31
        <5>1. n \div 2 = 15 /\ n % 2 = 1
          BY <4>4
        <5>2. Nibble(n) = y % 16
          BY <3>1, <3>3, <5>1 DEF Nibble
        <5>3. read = [day |-> d, year |-> y \div 16]
          BY <3>1, <4>4 DEF ReadSoFar
        <5>4. Read(n) = [day |-> d, year |-> (y \div 16) * 16 + (y % 16)]
          BY <4>4, <5>2, <5>3 DEF Read
        <5>5. Read(n) = [day |-> d, year |-> y]
          BY <3>3, <5>4
        <5> QED BY <4>4, <5>5
      <4>5. CASE n \notin {10, 11, 30, 31}
        <5>1. Read(n) = read
          BY <4>5 DEF Read
        <5> QED BY <2>1, <3>1, <4>5, <5>1 DEF ReadSoFar
      <4> QED BY <2>1, <4>1, <4>2, <4>3, <4>4, <4>5
    <3>5. ReadInv'
      BY <1>2, <2>1, <3>1, <3>4 DEF ReadInv, ReadSoFar
    <3> QED BY <1>2, <2>5, <3>5 DEF CalendarInv, SetInv, ClockInv, R, W, O
  <2> QED BY <2>4, <2>5 DEF CalendarInv
<1> QED BY <1>1, <1>2 DEF NextDigit

LEMMA ByteKeeps ==
    ASSUME CalendarInv, mode = W, NEW byte \in Nat, NextByte(byte), UNCHANGED bits_received,
           bits_received = 0 => byte = DateByte(buffer_index)
    PROVE  CalendarInv'
<1> DEFINE n == buffer_index
<1>1. /\ n \in Nat /\ BufferSize \in Nat /\ BufferSize > 11
      /\ date_buffer \in [day : Nat, year : Nat]
      /\ sent \in [day : 0 .. 31, year : 0 .. 255, bits : 0 .. 4]
  BY DatesAssumption DEF CalendarInv, CalendarTyped
<1>2. CASE n < 2
  <2>1. n' = n + 1 /\ UNCHANGED <<mode, clock, date_buffer, asked, read, sent>>
    BY <1>2 DEF NextByte
  <2>2. CalendarTyped'
    BY <1>1, <2>1 DEF CalendarInv, CalendarTyped
  <2>3. ASSUME bits_received = 0 PROVE ReadInv' /\ SetInv' /\ ClockInv'
    <3>1. SetInv /\ ClockInv
      BY <2>3 DEF CalendarInv
    <3>2. SetInv'
      BY <1>1, <1>2, <2>1, <3>1 DEF SetInv
    <3> QED BY <2>1, <3>1, <3>2 DEF ReadInv, ClockInv, R, W, O
  <2> QED BY <2>2, <2>3 DEF CalendarInv
<1>3. CASE n >= 2
  <2>1. /\ n' = n + 1 /\ date_buffer' = StoredAt(n - 2, byte)
        /\ mode' = IF n - 1 = BufferSize THEN O ELSE mode
        /\ clock' = IF n - 1 = BufferSize THEN Set(date_buffer') ELSE clock
        /\ UNCHANGED <<asked, read, sent>>
    BY <1>1, <1>3 DEF NextByte
  <2>2. /\ date_buffer' \in [day : Nat, year : Nat]
        /\ date_buffer'.day = IF n = 12 THEN byte ELSE date_buffer.day
        /\ n = BufferSize + 1 => date_buffer'.year = byte
    BY <1>1, <1>3, <2>1 DEF StoredAt
  <2>3. Set(date_buffer') \in [day : Nat, year : Nat]
    <3> DEFINE a == date_buffer'.day
               b == date_buffer'.year
    <3>1. a \in Nat /\ b \in Nat
      BY <2>2
    <3> HIDE DEF a, b
    <3>2. (a % 16) + 10 * (a \div 16) \in Nat /\ (b + (a \div 64)) % 256 \in Nat
      BY <3>1
    <3> QED BY <3>2 DEF Set, bcd_to_int, a, b
  <2>4. CalendarTyped'
    BY <1>1, <2>1, <2>2, <2>3 DEF CalendarInv, CalendarTyped
  <2>5. ASSUME bits_received = 0 PROVE ReadInv' /\ SetInv' /\ ClockInv'
    <3>1. /\ n <= BufferSize + 1 /\ sent.bits < 4
          /\ n > 12 => date_buffer.day = int_to_bcd(sent.day) + 64 * sent.bits
          /\ byte = DateByte(n)
      BY <2>5 DEF CalendarInv, SetInv
    <3>2. n >= 12 => date_buffer'.day = int_to_bcd(sent.day) + 64 * sent.bits
      BY <1>1, <2>2, <3>1 DEF DateByte
    <3>3. CASE n < BufferSize + 1
      <4>1. SetInv'
        BY <1>1, <2>1, <3>1, <3>2, <3>3 DEF SetInv
      <4>2. mode' = W
        BY <1>1, <2>1, <3>3
      <4> QED BY <4>1, <4>2 DEF ReadInv, ClockInv, R, W, O
    <3>4. CASE n = BufferSize + 1
      <4>1. mode' = O /\ clock' = Set(date_buffer') /\ sent' = sent
        BY <1>1, <2>1, <3>4
      <4>2. byte = sent.year
        BY <1>1, <3>1, <3>4 DEF DateByte
      <4>3. ASSUME sent.bits = 0 PROVE clock' = [day |-> sent.day, year |-> sent.year]
        <5>4. sent.day \in Nat
          BY <1>1
        <5>1. int_to_bcd(sent.day) \in Nat
          BY <5>4, DigitsAreKept
        <5>2. date_buffer'.day = int_to_bcd(sent.day)
          BY <1>1, <3>2, <3>4, <4>3, <5>1
        <5>3. date_buffer' = [day |-> int_to_bcd(sent.day), year |-> sent.year]
          BY <2>2, <3>4, <4>2, <5>2
        <5> QED BY <1>1, <4>1, <5>3, DateIsSet
      <4> QED BY <4>1, <4>3 DEF ReadInv, SetInv, ClockInv, R, W, O
    <3> QED BY <1>1, <3>1, <3>3, <3>4
  <2> QED BY <2>4, <2>5 DEF CalendarInv
<1> QED BY <1>1, <1>2, <1>3

LEMMA BytesKeep ==
    ASSUME CalendarInv, NEW byte \in Nat, Received(byte), UNCHANGED bits_received,
           bits_received = 0 /\ mode = W => byte = DateByte(buffer_index)
    PROVE  CalendarInv'
<1>1. CASE mode # W /\ byte = R
  <2>1. /\ mode' = R /\ buffer_index' = 1 /\ date_buffer' = Filled /\ asked' = clock
        /\ read' = NoDate /\ sent' = NothingSent /\ UNCHANGED clock
    BY <1>1 DEF Received, R, W, O
  <2> QED BY <2>1, FillKeeps
<1>2. CASE mode # W /\ byte = W /\ byte # R
  <2>1. /\ mode' = W /\ buffer_index' = 0 /\ sent' \in [day : Days, year : Years, bits : YearBits]
        /\ UNCHANGED <<clock, date_buffer, asked, read>>
    BY <1>2 DEF Received, R, W, O
  <2> QED BY <2>1, BeginSetKeeps
<1>3. CASE mode # W /\ (byte = O \/ (mode = O /\ byte \notin {R, W}))
  <2>1. mode' = O /\ UNCHANGED calendar
    BY <1>3 DEF Received, R, W, O
  <2> QED BY <1>3, <2>1, PollingKeeps
<1>4. CASE mode = R /\ byte \notin {R, W, O}
  <2>1. NextDigit /\ UNCHANGED mode
    BY <1>4 DEF Received, R, W, O
  <2> QED BY <1>4, <2>1, DigitKeeps
<1>5. CASE mode = W
  <2>1. NextByte(byte)
    BY <1>5 DEF Received, R, W, O
  <2> QED BY <1>5, <2>1, ByteKeeps
<1>6. CASE mode \notin {R, W, O} /\ byte \notin {R, W, O}
  <2>1. UNCHANGED <<mode, calendar>>
    BY <1>6 DEF Received
  <2> QED BY <2>1 DEF CalendarInv, CalendarTyped, ReadInv, ReadSoFar, SetInv, ClockInv, calendar
<1> QED BY <1>1, <1>2, <1>3, <1>4, <1>5, <1>6 DEF R, W

LEMMA CalendarPreserved == CalendarInv /\ [WorkBoyNext]_workboyVars => CalendarInv'
<1> SUFFICES ASSUME CalendarInv, [WorkBoyNext]_workboyVars PROVE CalendarInv'
  OBVIOUS
<1>1. ASSUME UNCHANGED <<mode, calendar, bits_received>> PROVE CalendarInv'
  BY <1>1 DEF CalendarInv, CalendarTyped, ReadInv, ReadSoFar, SetInv, ClockInv, calendar
<1>2. CASE TypeKey \/ StoreKey \/ ReleaseKey
  BY <1>1, <1>2 DEF TypeKey, BeginKey, StoreKey, ReleaseKey
<1>3. CASE Exchange
  <2>1. PICK byte \in IF mode = W THEN {DateByte(buffer_index)} ELSE {R, W, O, 0} :
            Received(byte) /\ UNCHANGED bits_received
    BY <1>3 DEF Exchange
  <2>2. byte \in Nat /\ (mode = W => byte = DateByte(buffer_index))
    <3>1. CASE mode = W
      <4>3. sent.day \in Nat /\ sent.year \in Nat /\ sent.bits \in Nat
        BY DEF CalendarInv, CalendarTyped
      <4>1. int_to_bcd(sent.day) \in Nat
        BY <4>3, DigitsAreKept
      <4>2. DateByte(buffer_index) \in Nat
        BY <4>1, <4>3 DEF DateByte
      <4> QED BY <2>1, <3>1, <4>2
    <3>2. CASE mode # W
      BY <2>1, <3>2 DEF R, W, O
    <3> QED BY <3>1, <3>2
  <2> QED BY <2>1, <2>2, BytesKeep
<1>4. CASE Garbled
  <2>1. PICK byte \in {R, W, O, 0} : Received(byte) /\ UNCHANGED bits_received
    BY <1>4 DEF Garbled
  <2>2. byte \in Nat /\ bits_received # 0
    BY <1>4, <2>1 DEF Garbled, R, W, O
  <2> QED BY <2>1, <2>2, BytesKeep
<1>5. CASE Cut
  BY <1>5 DEF Cut, CalendarInv, CalendarTyped, calendar
<1>6. CASE UNCHANGED workboyVars
  BY <1>1, <1>6 DEF workboyVars
<1> QED BY <1>2, <1>3, <1>4, <1>5, <1>6 DEF WorkBoyNext

(* Whatever is typed, released and asked, and wherever a key falls between *)
(* the look at Shift and the store: a key is told with the Shift that was  *)
(* meant; and until a transfer is cut, the digits that a program reads are *)
(* those of the date, and the clock shows the date that was sent           *)
(* (Core/workboy.c).                                                       *)
THEOREM WhatWasTypedArrives == WorkBoySpec => []WorkBoyAnswers
<1>1. KeyboardInv /\ CalendarInv => WorkBoyAnswers
  <2> SUFFICES ASSUME KeyboardInv, CalendarInv PROVE DateAgrees
    BY DEF WorkBoyAnswers, KeyboardInv
  <2> SUFFICES ASSUME bits_received = 0 PROVE ReadInv /\ ClockInv => DateAgrees
    BY DEF CalendarInv, DateAgrees
  <2>1. buffer_index \in Nat /\ asked \in [day : Nat, year : Nat]
    BY DEF CalendarInv, CalendarTyped
  <2> QED BY <2>1 DEF ReadInv, ReadSoFar, ClockInv, DateAgrees
<1> QED BY <1>1, KeyboardBegins, KeyboardPreserved, CalendarBegins, CalendarPreserved, PTL DEF WorkBoySpec

-----------------------------------------------------------------------------
(* The sound channels *)

Envelope == [volume : 0 .. 255, countdown : 0 .. 7, clock : BOOLEAN, locked : BOOLEAN,
             should_lock : BOOLEAN]

ChannelTyped ==
    /\ kind \in Kinds /\ model \in Models
    /\ global_enable \in BOOLEAN /\ div_high \in BOOLEAN /\ div_divider \in 0 .. 7
    /\ skip_div_event \in {"INACTIVE", "SKIP", "SKIPPED"}
    /\ is_active \in BOOLEAN /\ pulse_length \in 0 .. LengthMax
    /\ length_enabled \in BOOLEAN /\ length_bit \in BOOLEAN
    /\ envelope \in Envelope /\ nrx2 \in Registers
    /\ delayed \in BOOLEAN /\ rewritten \in BOOLEAN

(* While the envelope's clock is high, the lock it takes when it falls is  *)
(* that of the volume it will find.                                        *)
Settled(e, register) ==
    /\ e.volume <= 15
    /\ e.clock => (e.should_lock <=> e.volume = IF register.up THEN 15 ELSE 0)

ChannelInv ==
    /\ ChannelTyped
    /\ Playable
    /\ delayed => global_enable
    /\ kind = "wave" => ~envelope.clock
    /\ is_active /\ ~rewritten => Settled(envelope, nrx2)

-----------------------------------------------------------------------------
(* set_envelope_clock keeps the lock of a settled envelope, and an         *)
(* envelope whose clock has risen has it from its volume.                  *)
LEMMA LoweredSettles ==
    ASSUME NEW e \in Envelope
    PROVE  /\ Lowered(e) \in Envelope /\ Lowered(e).volume = e.volume
           /\ ~Lowered(e).clock
           /\ e.clock /\ e.should_lock => Lowered(e).locked
  BY DEF Lowered, Envelope

LEMMA RaisedSettles ==
    ASSUME NEW e \in Envelope, NEW register \in Registers
    PROVE  /\ Raised(e, register.up) \in Envelope
           /\ Settled(e, register) => Settled(Raised(e, register.up), register)
<1>1. CASE e.clock
  BY <1>1 DEF Raised
<1>2. CASE ~e.clock
  <2> DEFINE f == Raised(e, register.up)
  <2>1. e = [volume |-> e.volume, countdown |-> e.countdown, clock |-> e.clock,
             locked |-> e.locked, should_lock |-> e.should_lock]
        /\ e.volume \in 0 .. 255 /\ e.countdown \in 0 .. 7 /\ e.locked \in BOOLEAN
    BY DEF Envelope
  <2>2. f = [e EXCEPT !.clock = TRUE,
                      !.should_lock = IF register.up THEN e.volume = 15 ELSE e.volume = 0]
    BY <1>2 DEF Raised
  <2>3. f = [volume |-> e.volume, countdown |-> e.countdown, clock |-> TRUE,
             locked |-> e.locked,
             should_lock |-> IF register.up THEN e.volume = 15 ELSE e.volume = 0]
    BY <2>1, <2>2
  <2> HIDE DEF f
  <2>4. f \in Envelope
    BY <2>1, <2>3 DEF Envelope
  <2>5. f.volume = e.volume /\ f.should_lock = (e.volume = IF register.up THEN 15 ELSE 0)
    BY <2>3
  <2>6. Settled(e, register) => Settled(f, register)
    BY <2>5 DEF Settled
  <2> QED  BY <2>4, <2>6 DEF f
<1> QED  BY <1>1, <1>2

(* The square and noise channels' tick keeps the volume in its range: at   *)
(* its end it is locked.                                                   *)
LEMMA TickedSettles ==
    ASSUME NEW e \in Envelope, nrx2 \in Registers
    PROVE  /\ Ticked(e) \in Envelope /\ ~Ticked(e).clock
           /\ Settled(e, nrx2) => Settled(Ticked(e), nrx2)
<1>1. /\ Lowered(e) \in Envelope /\ Lowered(e).volume = e.volume /\ ~Lowered(e).clock
      /\ e.clock /\ e.should_lock => Lowered(e).locked
  BY LoweredSettles
<1>2. CASE ~e.clock \/ Lowered(e).locked \/ nrx2.pace = 0
  <2>1. Ticked(e) = Lowered(e)
    BY <1>2 DEF Ticked
  <2> QED  BY <1>1, <2>1 DEF Settled
<1>3. CASE ~(~e.clock \/ Lowered(e).locked \/ nrx2.pace = 0)
  <2> DEFINE low == Lowered(e)
             volume == (low.volume + (IF nrx2.up THEN 1 ELSE -1)) % 256
  <2>1. Ticked(e) = [low EXCEPT !.volume = volume]
    BY <1>3 DEF Ticked
  <2>2. e.volume \in 0 .. 255 /\ low.volume = e.volume
    BY <1>1 DEF Envelope
  <2>3. volume \in 0 .. 255
    BY <2>2
  <2>4. Settled(e, nrx2) => volume <= 15
    <3>1. e.clock /\ ~e.should_lock
      BY <1>1, <1>3 DEF Envelope
    <3> QED  BY <2>2, <3>1 DEF Settled
  <2> HIDE DEF low, volume
  <2>5. low \in Envelope /\ ~low.clock
    BY <1>1 DEF low
  <2> QED  BY <2>1, <2>3, <2>4, <2>5 DEF Settled, Envelope
<1> QED  BY <1>2, <1>3

(* A write to NRx2 while a sound plays leaves the volume in its byte.      *)
LEMMA GlitchTyped ==
    ASSUME NEW e \in Envelope, NEW value \in Registers, NEW old \in Registers
    PROVE  Glitch(e, value, old) \in Envelope
<1> DEFINE invert == value.up # old.up
           holds == value.up /\ value.pace = 0 /\ old.up /\ old.pace = 0
           tick == /\ ~e.locked
                   /\ holds \/ (value.pace # 0 /\ old.pace = 0)
                   /\ ~(invert /\ value.up)
           counted == IF e.clock THEN value.pace ELSE e.countdown
           volume == IF invert THEN Inverted(e, value.up, old) ELSE e.volume
           written == [e EXCEPT !.countdown = counted, !.volume = volume]
           ticked == [written EXCEPT !.volume = (@ + (IF value.up THEN 1 ELSE -1)) % 16]
<1>1. counted \in 0 .. 7
  BY DEF Envelope, Registers
<1>2. e.volume \in 0 .. 255
  BY DEF Envelope
<1>3. volume \in 0 .. 255
  <2>1. (16 - e.volume) % 16 \in 0 .. 255 /\ (14 - e.volume) % 16 \in 0 .. 255
    BY <1>2
  <2>2. 16 * (e.volume \div 16) + 15 - (e.volume % 16) \in 0 .. 255
    BY <1>2
  <2> QED  BY <1>2, <2>1, <2>2 DEF Inverted
<1> HIDE DEF counted, volume
<1>4. written \in Envelope /\ written.volume \in 0 .. 255
  BY <1>1, <1>3 DEF Envelope
<1>5. Glitch(e, value, old) = IF tick THEN ticked
                              ELSE IF value.pace = 0 THEN Lowered(written) ELSE written
  BY DEF Glitch, counted, volume
<1>6. Lowered(written) \in Envelope
  BY <1>4, LoweredSettles
<1>7. ticked \in Envelope
  <2> HIDE DEF written
  <2> DEFINE new == (written.volume + (IF value.up THEN 1 ELSE -1)) % 16
  <2>1. new \in 0 .. 255
    BY <1>4
  <2>2. ticked = [written EXCEPT !.volume = new]
    OBVIOUS
  <2> HIDE DEF new, ticked
  <2> QED  BY <1>4, <2>1, <2>2 DEF Envelope
<1> QED  BY <1>4, <1>5, <1>6, <1>7

LEMMA RewrittenTyped ==
    ASSUME NEW e \in Envelope, NEW value \in Registers, nrx2 \in Registers
    PROVE  Rewritten(e, value) \in Envelope
<1>1. AllOnes \in Registers
  BY DEF AllOnes, Registers
<1>2. Glitch(e, AllOnes, nrx2) \in Envelope
  BY <1>1, GlitchTyped
<1>3. Glitch(Glitch(e, AllOnes, nrx2), value, AllOnes) \in Envelope
  BY <1>1, <1>2, GlitchTyped
<1>4. Glitch(e, value, nrx2) \in Envelope
  BY GlitchTyped
<1> QED  BY <1>3, <1>4 DEF Rewritten

-----------------------------------------------------------------------------
(* The write to NRx4 leaves length to a channel that plays: one that runs  *)
(* out is set again by a trigger, and otherwise ends the sound.            *)
LEMMA EnabledLength ==
    ASSUME NEW trigger \in BOOLEAN, NEW enable \in BOOLEAN, NEW enabled \in BOOLEAN,
           NEW length \in 0 .. LengthMax, NEW sounding \in BOOLEAN, sounding => length > 0,
           EnableLength(trigger, enable, length, enabled, sounding)
    PROVE  /\ pulse_length' \in 0 .. LengthMax /\ is_active' \in BOOLEAN
           /\ length_enabled' = enable /\ length_bit' = enable
           /\ is_active' => sounding /\ pulse_length' > 0
<1> DEFINE clocked == SignalRises(enable, enabled) /\ length # 0
<1>1. clocked \in BOOLEAN /\ (clocked => length # 0)
  BY DEF SignalRises
<1>2. /\ pulse_length' = IF ~clocked THEN length
                         ELSE IF length = 1 /\ trigger THEN LengthMax - 1
                         ELSE length - 1
      /\ is_active' = (sounding /\ ~(clocked /\ length = 1 /\ ~trigger))
      /\ length_enabled' = enable /\ length_bit' = enable
  BY DEF EnableLength
<1> HIDE DEF clocked
<1>3. LengthMax \in Nat /\ LengthMax > 1
  BY ChannelAssumption
<1>4. CASE ~clocked
  BY <1>2, <1>3, <1>4
<1>5. CASE clocked /\ length = 1 /\ trigger
  BY <1>1, <1>2, <1>3, <1>5
<1>6. CASE clocked /\ length = 1 /\ ~trigger
  BY <1>1, <1>2, <1>3, <1>6
<1>7. CASE clocked /\ length # 1
  BY <1>1, <1>2, <1>3, <1>7
<1> QED  BY <1>1, <1>4, <1>5, <1>6, <1>7

(* A trigger sets the volume, and the clock of the envelope low.           *)
LEMMA TriggerSettles ==
    ASSUME ChannelInv, NEW enable \in BOOLEAN, Trigger(enable), global_enable,
           UNCHANGED <<kind, model, clockVars, nrx2>>, delayed' \in BOOLEAN
    PROVE  ChannelInv'
<1>0. ChannelTyped /\ Playable /\ LengthMax \in Nat /\ LengthMax > 1
  BY ChannelAssumption DEF ChannelInv
<1>1. /\ envelope' \in Envelope /\ ~envelope'.clock /\ Settled(envelope', nrx2)
  <2>1. nrx2.volume \in 0 .. 15 /\ nrx2.pace \in 0 .. 7 /\ envelope \in Envelope
    BY <1>0 DEF ChannelTyped, Registers
  <2>2. envelope' = [envelope EXCEPT !.volume = nrx2.volume, !.countdown = nrx2.pace,
                                     !.clock = FALSE, !.locked = FALSE]
    BY DEF Trigger
  <2>3. envelope' \in Envelope
    <3>1. ASSUME NEW e \in Envelope, NEW v \in 0 .. 255, NEW c \in 0 .. 7, NEW b \in BOOLEAN
          PROVE  [e EXCEPT !.volume = v, !.countdown = c, !.clock = b, !.locked = b] \in Envelope
      <4>1. [e EXCEPT !.volume = v, !.countdown = c] \in Envelope
        BY DEF Envelope
      <4>2. ASSUME NEW g \in Envelope
            PROVE  [g EXCEPT !.clock = b, !.locked = b] \in Envelope
        BY DEF Envelope
      <4>3. [e EXCEPT !.volume = v, !.countdown = c, !.clock = b, !.locked = b]
                = [[e EXCEPT !.volume = v, !.countdown = c] EXCEPT !.clock = b, !.locked = b]
        BY DEF Envelope
      <4> QED  BY <4>1, <4>2, <4>3
    <3>2. FALSE \in BOOLEAN /\ nrx2.volume \in 0 .. 255
      BY <2>1
    <3> QED  BY <2>1, <2>2, <3>1, <3>2, Zenon
  <2>4. envelope'.volume = nrx2.volume /\ envelope'.clock = FALSE
    BY <2>1, <2>2 DEF Envelope
  <2> QED  BY <2>1, <2>3, <2>4 DEF Settled
<1>2. DacOn(nrx2) \in BOOLEAN /\ is_active \in BOOLEAN
  BY <1>0 DEF DacOn, ChannelTyped
<1>3. /\ pulse_length' \in 0 .. LengthMax /\ is_active' \in BOOLEAN
      /\ length_enabled' = enable /\ length_bit' = enable
      /\ is_active' => (is_active \/ DacOn(nrx2)) /\ pulse_length' > 0
  <2>1. CASE pulse_length = 0
    <3>1. EnableLength(TRUE, enable, LengthMax, FALSE, is_active \/ DacOn(nrx2))
      BY <2>1 DEF Trigger
    <3>2. LengthMax \in 0 .. LengthMax /\ LengthMax > 0
      BY <1>0
    <3> QED  BY <1>2, <3>1, <3>2, EnabledLength
  <2>2. CASE pulse_length # 0
    <3>1. EnableLength(TRUE, enable, pulse_length, length_enabled, is_active \/ DacOn(nrx2))
      BY <2>2 DEF Trigger
    <3>2. pulse_length \in 0 .. LengthMax /\ pulse_length > 0 /\ length_enabled \in BOOLEAN
      BY <1>0, <2>2 DEF ChannelTyped
    <3> QED  BY <1>2, <3>1, <3>2, EnabledLength
  <2> QED  BY <2>1, <2>2
<1>4. is_active => DacOn(nrx2)
  BY <1>0 DEF Playable
<1>5. rewritten' = FALSE
  BY DEF Trigger
<1>6. ChannelTyped'
  BY <1>0, <1>1, <1>3, <1>5 DEF ChannelTyped, clockVars
<1>7. Playable'
  BY <1>3, <1>4 DEF Playable, clockVars, DacOn
<1>8. Settled(envelope, nrx2)'
  BY <1>1 DEF Settled
<1> QED  BY <1>1, <1>6, <1>7, <1>8 DEF ChannelInv, clockVars

(* The event of the falling edge: the divider counts, the envelope ticks   *)
(* and the length is clocked.                                              *)
LEMMA FallKeeps ==
    ASSUME ChannelInv, Fall
    PROVE  ChannelInv'
<1>0. ChannelTyped /\ Playable /\ LengthMax \in Nat /\ LengthMax > 1
  BY ChannelAssumption DEF ChannelInv
<1>1. UNCHANGED <<kind, model, global_enable, nrx2, delayed, rewritten>> /\ div_high' = FALSE
  BY DEF Fall
<1>2. CASE UNCHANGED <<div_divider, lengthVars, envelope>>
           /\ skip_div_event' \in {"INACTIVE", "SKIP", "SKIPPED"}
  <2>1. ChannelTyped'
    BY <1>0, <1>1, <1>2 DEF ChannelTyped, lengthVars
  <2>2. Playable'
    BY <1>0, <1>1, <1>2 DEF Playable, lengthVars, DacOn
  <2> QED  BY <1>1, <1>2, <2>1, <2>2 DEF ChannelInv, lengthVars, Settled
<1>3. CASE ~(UNCHANGED <<div_divider, lengthVars, envelope>>
           /\ skip_div_event' \in {"INACTIVE", "SKIP", "SKIPPED"})
  <2> DEFINE divider == IF skip_div_event = "SKIPPED" THEN div_divider ELSE (div_divider + 1) % 8
             counted == IF divider = 7 /\ kind # "wave" THEN CountedDown(envelope) ELSE envelope
  <2>1. /\ div_divider' = divider /\ skip_div_event' = "INACTIVE"
        /\ envelope' = Ticked(counted) /\ LengthClocked(divider % 2 = 1)
        /\ UNCHANGED <<length_enabled, length_bit>>
    <3>1. DivEvent /\ skip_div_event \in {"INACTIVE", "SKIP", "SKIPPED"}
      BY <1>0 DEF Fall, ChannelTyped
    <3>2. ~(~global_enable) /\ ~(skip_div_event = "SKIP")
      BY <1>3, <3>1 DEF DivEvent
    <3> QED  BY <3>1, <3>2 DEF DivEvent
  <2>2. divider \in 0 .. 7
    BY <1>0 DEF ChannelTyped
  <2>3. /\ counted \in Envelope /\ counted.volume = envelope.volume
        /\ counted.clock = envelope.clock /\ counted.should_lock = envelope.should_lock
    <3>1. envelope \in Envelope
      BY <1>0 DEF ChannelTyped
    <3>2. envelope.countdown \in 0 .. 7
      BY <3>1 DEF Envelope
    <3>3. (envelope.countdown - 1) % 8 \in 0 .. 7
      BY <3>2
    <3>4. /\ CountedDown(envelope) \in Envelope
          /\ CountedDown(envelope).volume = envelope.volume
          /\ CountedDown(envelope).clock = envelope.clock
          /\ CountedDown(envelope).should_lock = envelope.should_lock
      <4> DEFINE count == (envelope.countdown - 1) % 8
      <4>1. CountedDown(envelope) = IF envelope.clock THEN envelope
                                    ELSE [envelope EXCEPT !.countdown = count]
        BY DEF CountedDown
      <4> HIDE DEF count
      <4>2. count \in 0 .. 7
        BY <3>3 DEF count
      <4> QED  BY <3>1, <4>1, <4>2 DEF Envelope
    <3> QED  BY <3>1, <3>4
  <2> HIDE DEF divider, counted
  <2>4. /\ Ticked(counted) \in Envelope /\ ~Ticked(counted).clock
        /\ Settled(counted, nrx2) => Settled(Ticked(counted), nrx2)
    BY <1>0, <2>3, TickedSettles DEF ChannelTyped
  <2>5. Settled(envelope, nrx2) => Settled(Ticked(counted), nrx2)
    BY <2>3, <2>4 DEF Settled
  <2>6. /\ pulse_length' \in 0 .. LengthMax /\ is_active' \in BOOLEAN
        /\ is_active' => is_active /\ pulse_length' > 0
    <3>1. /\ is_active \in BOOLEAN /\ pulse_length \in 0 .. LengthMax
          /\ is_active => pulse_length > 0
      BY <1>0 DEF ChannelTyped, Playable
    <3>2. CASE divider % 2 = 1 /\ length_enabled /\ pulse_length # 0
      <4>1. pulse_length' = pulse_length - 1 /\ is_active' = (is_active /\ pulse_length # 1)
        BY <2>1, <3>2 DEF LengthClocked
      <4>2. pulse_length - 1 \in 0 .. LengthMax /\ (pulse_length # 1 => pulse_length - 1 > 0)
        BY <1>0, <3>1, <3>2
      <4> QED  BY <3>1, <4>1, <4>2
    <3>3. CASE ~(divider % 2 = 1 /\ length_enabled /\ pulse_length # 0)
      <4>1. UNCHANGED <<pulse_length, is_active>>
        BY <2>1, <3>3 DEF LengthClocked
      <4> QED  BY <3>1, <4>1
    <3> QED  BY <3>2, <3>3
  <2>7. ChannelTyped'
    BY <1>0, <1>1, <2>1, <2>2, <2>4, <2>6 DEF ChannelTyped
  <2>8. Playable'
    BY <1>0, <1>1, <2>6 DEF Playable, DacOn
  <2>9. (is_active /\ ~rewritten => Settled(envelope, nrx2))'
    <3>1. is_active' /\ ~rewritten' => Settled(envelope, nrx2)
      BY <1>1, <2>6 DEF ChannelInv
    <3>2. envelope' = Ticked(counted) /\ nrx2' = nrx2
      BY <1>1, <2>1
    <3> QED  BY <2>5, <3>1, <3>2
  <2> QED  BY <1>1, <2>1, <2>4, <2>7, <2>8, <2>9 DEF ChannelInv
<1> QED  BY <1>2, <1>3

LEMMA RiseKeeps ==
    ASSUME ChannelInv, Rise
    PROVE  ChannelInv'
<1>0. ChannelTyped /\ Playable
  BY DEF ChannelInv
<1>1. /\ UNCHANGED <<kind, model, global_enable, div_divider, skip_div_event, lengthVars, nrx2,
                     delayed, rewritten>>
      /\ div_high' = TRUE
  BY DEF Rise
<1>2. /\ envelope' \in Envelope
      /\ Settled(envelope, nrx2) => Settled(envelope', nrx2)
      /\ kind = "wave" => envelope' = envelope
  <2>1. envelope \in Envelope /\ nrx2 \in Registers /\ nrx2.pace \in 0 .. 7
    BY <1>0 DEF ChannelTyped, Registers
  <2>2. CASE ~(global_enable /\ kind # "wave" /\ is_active /\ envelope.countdown = 0)
    <3>1. envelope' = envelope
      BY <2>2 DEF Rise
    <3> QED  BY <2>1, <3>1
  <2>3. CASE global_enable /\ kind # "wave" /\ is_active /\ envelope.countdown = 0
    <3> DEFINE e == [envelope EXCEPT !.countdown = nrx2.pace]
    <3>1. envelope' = IF nrx2.pace # 0 THEN Raised(e, nrx2.up) ELSE Lowered(e)
      BY <2>3 DEF Rise
    <3>2. e \in Envelope /\ (Settled(envelope, nrx2) => Settled(e, nrx2))
      BY <2>1 DEF Envelope, Settled
    <3> HIDE DEF e
    <3>3. /\ Raised(e, nrx2.up) \in Envelope
          /\ Settled(e, nrx2) => Settled(Raised(e, nrx2.up), nrx2)
      BY <2>1, <3>2, RaisedSettles
    <3>4. /\ Lowered(e) \in Envelope /\ Lowered(e).volume = e.volume /\ ~Lowered(e).clock
      BY <3>2, LoweredSettles
    <3>5. Settled(e, nrx2) => Settled(Lowered(e), nrx2)
      BY <3>4 DEF Settled
    <3>6. CASE nrx2.pace # 0
      <4>1. envelope' = Raised(e, nrx2.up)
        BY <3>1, <3>6
      <4> QED  BY <2>3, <3>2, <3>3, <4>1
    <3>7. CASE nrx2.pace = 0
      <4>1. envelope' = Lowered(e)
        BY <3>1, <3>7
      <4> QED  BY <2>3, <3>2, <3>4, <3>5, <4>1
    <3> QED  BY <3>6, <3>7
  <2> QED  BY <2>2, <2>3
<1>3. ChannelTyped'
  BY <1>0, <1>1, <1>2 DEF ChannelTyped, lengthVars
<1>4. Playable'
  BY <1>0, <1>1 DEF Playable, lengthVars, DacOn
<1>5. (is_active /\ ~rewritten => Settled(envelope, nrx2))'
  <2>1. nrx2' = nrx2 /\ is_active' = is_active /\ rewritten' = rewritten
    BY <1>1 DEF lengthVars
  <2> QED  BY <1>2, <2>1 DEF ChannelInv
<1> QED  BY <1>1, <1>2, <1>3, <1>4, <1>5 DEF ChannelInv

(* The writes to the length and envelope registers, and the power switch.  *)
LEMMA WritesKeep ==
    ASSUME ChannelInv,
           \/ \E value \in Lengths[kind] : WriteNRx1(value)
           \/ \E value \in Envelopes[kind] : WriteNRx2(value)
           \/ \E enable \in BOOLEAN : WriteNR30(enable)
           \/ PowerOn \/ PowerOff
    PROVE  ChannelInv'
<1>0. /\ ChannelTyped /\ Playable /\ (delayed => global_enable)
      /\ LengthMax \in Nat /\ LengthMax > 1
  BY ChannelAssumption DEF ChannelInv
<1>1. kind \in Kinds
  BY <1>0 DEF ChannelTyped
<1>2. ASSUME NEW value \in Lengths[kind], WriteNRx1(value) PROVE ChannelInv'
  <2>1. value \in 0 .. LengthMax - 1
    BY <1>1, ChannelAssumption
  <2>2. pulse_length' \in 0 .. LengthMax /\ pulse_length' > 0
    BY <1>0, <1>2, <2>1 DEF WriteNRx1
  <2>3. UNCHANGED <<kind, model, clockVars, is_active, length_enabled, length_bit, envelope, nrx2,
                    delayed, rewritten>>
    BY <1>2 DEF WriteNRx1
  <2>4. ChannelTyped'
    BY <1>0, <2>2, <2>3 DEF ChannelTyped, clockVars
  <2>5. Playable'
    BY <1>0, <2>2, <2>3 DEF Playable, clockVars, DacOn
  <2> QED  BY <2>3, <2>4, <2>5 DEF ChannelInv, clockVars, Settled
<1>3. ASSUME NEW value \in Envelopes[kind], WriteNRx2(value) PROVE ChannelInv'
  <2>1. value \in Registers /\ kind # "wave" /\ global_enable
    BY <1>1, <1>3, ChannelAssumption DEF WriteNRx2
  <2>2. /\ nrx2' = value /\ is_active' = (is_active /\ DacOn(value))
        /\ rewritten' = (rewritten \/ is_active)
        /\ UNCHANGED <<kind, model, clockVars, pulse_length, length_enabled, length_bit, delayed>>
    BY <1>3 DEF WriteNRx2
  <2>3. envelope' \in Envelope
    <3>1. envelope \in Envelope /\ nrx2 \in Registers
      BY <1>0 DEF ChannelTyped
    <3>2. Rewritten(envelope, value) \in Envelope
      BY <2>1, <3>1, RewrittenTyped
    <3>3. envelope' = IF is_active /\ DacOn(value) THEN Rewritten(envelope, value) ELSE envelope
      BY <1>3 DEF WriteNRx2
    <3> QED  BY <3>1, <3>2, <3>3
  <2>4. is_active' \in BOOLEAN /\ rewritten' \in BOOLEAN /\ (is_active' => rewritten' /\ is_active)
    BY <1>0, <2>2 DEF ChannelTyped
  <2>5. ChannelTyped'
    BY <1>0, <2>1, <2>2, <2>3, <2>4 DEF ChannelTyped, clockVars
  <2>6. is_active' => DacOn(value)
    BY <2>2
  <2>7. Playable'
    BY <1>0, <2>2, <2>4, <2>6 DEF Playable, clockVars, DacOn
  <2> QED  BY <1>0, <2>1, <2>2, <2>4, <2>5, <2>7 DEF ChannelInv, clockVars
<1>4. ASSUME NEW enable \in BOOLEAN, WriteNR30(enable) PROVE ChannelInv'
  <2>1. kind = "wave" /\ global_enable /\ ~envelope.clock
    BY <1>4 DEF WriteNR30, ChannelInv
  <2>2. /\ nrx2' = [Zero EXCEPT !.up = enable] /\ is_active' = (is_active /\ enable)
        /\ UNCHANGED <<kind, model, clockVars, pulse_length, length_enabled, length_bit, envelope,
                       delayed, rewritten>>
    BY <1>4 DEF WriteNR30
  <2>3. nrx2' \in Registers /\ nrx2'.up = enable
    BY <2>2 DEF Zero, Registers
  <2>4. is_active' \in BOOLEAN /\ (is_active' => is_active /\ enable)
    BY <1>0, <2>2 DEF ChannelTyped
  <2>5. ChannelTyped'
    BY <1>0, <2>2, <2>3, <2>4 DEF ChannelTyped, clockVars
  <2>6. is_active' => DacOn(nrx2')
    BY <2>3, <2>4 DEF DacOn
  <2>7. Playable'
    BY <1>0, <2>2, <2>4, <2>6 DEF Playable, clockVars, DacOn
  <2> QED  BY <1>0, <2>1, <2>2, <2>4, <2>5, <2>7 DEF ChannelInv, clockVars, Settled
<1>5. ASSUME PowerOn PROVE ChannelInv'
  <2>1. ~is_active /\ ~delayed
    BY <1>0, <1>5 DEF PowerOn, Playable
  <2>2. pulse_length' \in 0 .. LengthMax
    BY <1>0, <1>5 DEF PowerOn, ChannelTyped
  <2>3. /\ global_enable' = TRUE /\ skip_div_event' \in {"SKIP", "INACTIVE"}
        /\ div_divider' \in 0 .. 7
        /\ UNCHANGED <<kind, model, div_high, is_active, length_enabled, length_bit, envelope,
                       nrx2, delayed, rewritten>>
    BY <1>5 DEF PowerOn
  <2>4. ChannelTyped'
    BY <1>0, <2>2, <2>3 DEF ChannelTyped
  <2>5. Playable'
    BY <2>1, <2>3 DEF Playable
  <2> QED  BY <2>1, <2>3, <2>4, <2>5 DEF ChannelInv
<1>6. ASSUME PowerOff PROVE ChannelInv'
  <2>1. /\ global_enable' = FALSE /\ div_divider' = 0 /\ skip_div_event' = "INACTIVE"
        /\ is_active' = FALSE /\ pulse_length' = 0 /\ length_enabled' = FALSE
        /\ length_bit' = FALSE /\ envelope' = Silent /\ nrx2' = Zero
        /\ delayed' = FALSE /\ rewritten' = FALSE
        /\ UNCHANGED <<kind, model, div_high>>
    BY <1>6 DEF PowerOff
  <2>2. Silent \in Envelope /\ ~Silent.clock /\ Zero \in Registers /\ 0 \in 0 .. LengthMax
    BY <1>0 DEF Silent, Envelope, Zero, Registers
  <2>3. /\ envelope' \in Envelope /\ nrx2' \in Registers /\ pulse_length' \in 0 .. LengthMax
        /\ kind' \in Kinds /\ model' \in Models /\ div_high' \in BOOLEAN
    BY <1>0, <2>1, <2>2 DEF ChannelTyped
  <2>4. ChannelTyped'
    <3>1. /\ global_enable' \in BOOLEAN /\ is_active' \in BOOLEAN
          /\ length_enabled' \in BOOLEAN /\ length_bit' \in BOOLEAN
          /\ delayed' \in BOOLEAN /\ rewritten' \in BOOLEAN
      BY <2>1, Zenon
    <3>2. div_divider' \in 0 .. 7 /\ skip_div_event' \in {"INACTIVE", "SKIP", "SKIPPED"}
      BY <2>1
    <3> QED  BY <2>3, <3>1, <3>2 DEF ChannelTyped
  <2>5. Playable'
    BY <2>1 DEF Playable
  <2> QED  BY <2>1, <2>2, <2>4, <2>5 DEF ChannelInv
<1> QED  BY <1>2, <1>3, <1>4, <1>5, <1>6

(* The write to NRx4, and the delayed start that repeats it.               *)
LEMMA TriggersKeep ==
    ASSUME ChannelInv,
           DelayedStart \/ \E trigger, enable \in BOOLEAN : WriteNRx4(trigger, enable)
    PROVE  ChannelInv'
<1>0. /\ ChannelTyped /\ Playable /\ (delayed => global_enable)
      /\ LengthMax \in Nat /\ LengthMax > 1
  BY ChannelAssumption DEF ChannelInv
<1>1. CASE DelayedStart
  <2>1. /\ global_enable /\ delayed' \in BOOLEAN /\ Trigger(length_bit)
        /\ UNCHANGED <<kind, model, clockVars, nrx2>>
    BY <1>0, <1>1 DEF DelayedStart
  <2>2. length_bit \in BOOLEAN
    BY <1>0 DEF ChannelTyped
  <2> QED  BY <2>1, <2>2, TriggerSettles
<1>2. ASSUME NEW trigger \in BOOLEAN, NEW enable \in BOOLEAN, WriteNRx4(trigger, enable)
      PROVE  ChannelInv'
  <2>1. /\ global_enable
        /\ UNCHANGED <<kind, model, clockVars, nrx2>>
    BY <1>2 DEF WriteNRx4
  <2>2. /\ pulse_length \in 0 .. LengthMax /\ length_enabled \in BOOLEAN
        /\ is_active \in BOOLEAN /\ (is_active => pulse_length > 0) /\ delayed \in BOOLEAN
    BY <1>0 DEF ChannelTyped, Playable
  <2>3. ASSUME EnableLength(trigger, enable, pulse_length, length_enabled, is_active),
               UNCHANGED rewritten, delayed' \in BOOLEAN,
               envelope' \in Envelope, ~envelope.clock => ~envelope'.clock,
               Settled(envelope, nrx2) => Settled(envelope', nrx2)
        PROVE  ChannelInv'
    <3>1. /\ pulse_length' \in 0 .. LengthMax /\ is_active' \in BOOLEAN
          /\ length_enabled' = enable /\ length_bit' = enable
          /\ is_active' => is_active /\ pulse_length' > 0
      BY <2>2, <2>3, EnabledLength
    <3>2. ChannelTyped'
      BY <1>0, <2>1, <2>3, <3>1 DEF ChannelTyped, clockVars
    <3>3. Playable'
      BY <1>0, <2>1, <3>1 DEF Playable, clockVars, DacOn
    <3>4. (is_active /\ ~rewritten => Settled(envelope, nrx2))'
      BY <2>1, <2>3, <3>1 DEF ChannelInv
    <3> QED  BY <2>1, <2>3, <3>2, <3>3, <3>4 DEF ChannelInv, clockVars
  <2>4. CASE ~trigger
    <3>1. /\ EnableLength(trigger, enable, pulse_length, length_enabled, is_active)
          /\ UNCHANGED <<envelope, delayed, rewritten>>
      BY <1>2, <2>4 DEF WriteNRx4
    <3>2. envelope \in Envelope
      BY <1>0 DEF ChannelTyped
    <3> QED  BY <2>2, <2>3, <3>1, <3>2
  <2>5. ASSUME Trigger(enable), UNCHANGED delayed PROVE ChannelInv'
    BY <2>1, <2>2, <2>5, TriggerSettles
  <2>6. ASSUME trigger, DelayTrigger(enable) PROVE ChannelInv'
    <3>1. /\ EnableLength(trigger, enable, pulse_length, length_enabled, is_active)
          /\ UNCHANGED rewritten /\ delayed' \in BOOLEAN
      BY <2>6 DEF DelayTrigger
    <3>2. envelope' = [envelope EXCEPT !.clock = FALSE, !.locked = FALSE]
      BY <2>6 DEF DelayTrigger
    <3>3. envelope \in Envelope
      BY <1>0 DEF ChannelTyped
    <3>4. /\ envelope' \in Envelope /\ ~envelope'.clock
          /\ Settled(envelope, nrx2) => Settled(envelope', nrx2)
      BY <3>2, <3>3 DEF Envelope, Settled
    <3> QED  BY <2>3, <3>1, <3>4
  <2> QED  BY <1>2, <2>4, <2>5, <2>6 DEF WriteNRx4
<1> QED  BY <1>1, <1>2

(* A channel begins off and silent. *)
LEMMA ChannelStarts == ChannelInit => ChannelInv
<1> SUFFICES ASSUME ChannelInit PROVE ChannelInv
  OBVIOUS
<1>1. kind \in Kinds /\ model \in Models
  <2>1. PICK machine \in Machines : kind = machine[1] /\ model = machine[2]
    BY DEF ChannelInit
  <2>2. machine \in Kinds \X Models
    BY ChannelAssumption
  <2> QED  BY <2>1, <2>2
<1>2. Silent \in Envelope /\ ~Silent.clock /\ Zero \in Registers /\ 0 \in 0 .. LengthMax
  BY ChannelAssumption DEF Silent, Envelope, Zero, Registers
<1>3. ChannelTyped
  <2>1. envelope \in Envelope /\ nrx2 \in Registers /\ pulse_length \in 0 .. LengthMax
    BY <1>2 DEF ChannelInit
  <2>2. /\ global_enable \in BOOLEAN /\ div_high \in BOOLEAN /\ is_active \in BOOLEAN
        /\ length_enabled \in BOOLEAN /\ length_bit \in BOOLEAN
        /\ delayed \in BOOLEAN /\ rewritten \in BOOLEAN
    BY Zenon DEF ChannelInit
  <2>3. div_divider \in 0 .. 7 /\ skip_div_event \in {"INACTIVE", "SKIP", "SKIPPED"}
    BY DEF ChannelInit
  <2> QED  BY <1>1, <2>1, <2>2, <2>3 DEF ChannelTyped
<1> QED  BY <1>2, <1>3 DEF ChannelInit, ChannelInv, Playable

LEMMA ChannelKeeps ==
    ASSUME ChannelInv, ChannelNext
    PROVE  ChannelInv'
BY FallKeeps, RiseKeeps, WritesKeep, TriggersKeep DEF ChannelNext

(* Where the length is counted is where 'enabled and the divider is odd'   *)
(* rises.                                                                  *)
LEMMA LengthCounted ==
    ASSUME ChannelInv, Fall \/ \E enable \in BOOLEAN : WriteNRx4(FALSE, enable),
           global_enable, skip_div_event = "INACTIVE", model = "CGB_B" => length_enabled'
    PROVE  pulse_length' = IF ~LengthSignal /\ LengthSignal' /\ pulse_length # 0
                           THEN pulse_length - 1 ELSE pulse_length
<1>0. /\ div_divider \in 0 .. 7 /\ length_enabled \in BOOLEAN
  BY DEF ChannelInv, ChannelTyped
<1>1. CASE Fall
  <2> DEFINE divider == (div_divider + 1) % 8
  <2>1. /\ div_divider' = divider /\ LengthClocked(divider % 2 = 1)
        /\ length_enabled' = length_enabled
    BY <1>1 DEF Fall, DivEvent
  <2>2. divider % 2 = 1 => div_divider % 2 # 1
    BY <1>0
  <2>3. LengthSignal' <=> length_enabled /\ divider % 2 = 1
    BY <2>1 DEF LengthSignal
  <2>4. LengthSignal <=> length_enabled /\ div_divider % 2 = 1
    BY DEF LengthSignal
  <2> HIDE DEF divider
  <2>5. CASE divider % 2 = 1 /\ length_enabled /\ pulse_length # 0
    <3>1. pulse_length' = pulse_length - 1
      BY <2>1, <2>5 DEF LengthClocked
    <3> QED  BY <2>2, <2>3, <2>4, <2>5, <3>1
  <2>6. CASE ~(divider % 2 = 1 /\ length_enabled /\ pulse_length # 0)
    <3>1. pulse_length' = pulse_length
      BY <2>1, <2>6 DEF LengthClocked
    <3> QED  BY <2>3, <2>6, <3>1
  <2> QED  BY <2>5, <2>6
<1>2. ASSUME NEW enable \in BOOLEAN, WriteNRx4(FALSE, enable)
      PROVE  pulse_length' = IF ~LengthSignal /\ LengthSignal' /\ pulse_length # 0
                             THEN pulse_length - 1 ELSE pulse_length
  <2>1. /\ EnableLength(FALSE, enable, pulse_length, length_enabled, is_active)
        /\ div_divider' = div_divider
    BY <1>2 DEF WriteNRx4, clockVars
  <2>2. /\ length_enabled' = enable
        /\ pulse_length' = IF ~(SignalRises(enable, length_enabled) /\ pulse_length # 0)
                           THEN pulse_length ELSE pulse_length - 1
    BY <2>1 DEF EnableLength
  <2>3. SignalRises(enable, length_enabled) <=> div_divider % 2 = 1 /\ ~length_enabled /\ enable
    BY <2>2 DEF SignalRises
  <2>4. ~LengthSignal /\ LengthSignal' <=> div_divider % 2 = 1 /\ ~length_enabled /\ enable
    BY <2>1, <2>2 DEF LengthSignal
  <2> QED  BY <2>2, <2>3, <2>4
<1> QED  BY <1>1, <1>2

-----------------------------------------------------------------------------
(* The sweep *)

SweepUnits ==
    [length : 0 .. MaxFrequency, shadow : 0 .. MaxFrequency, addend : 0 .. MaxFrequency,
     completed : 0 .. MaxFrequency, calculate : 0 .. 7, reload : 0 .. 4, hold : 0 .. 4,
     countdown : 0 .. 7, instant : BOOLEAN, unshifted : BOOLEAN, active : BOOLEAN,
     held : BOOLEAN]

SweepRegisters == [pace : 0 .. 7, negate : BOOLEAN, shift : 0 .. 7]

(* The next step would not overflow. *)
StepFits(u) == nr10.negate \/ u.length + Addend(u.length, nr10.shift) <= MaxFrequency

(* What a unit that is left alone has done of the calculation a trigger or *)
(* a clock began, against what that calculation comes to.  Without a shift *)
(* there is only the test at the end of the reload; with one, it comes     *)
(* when the countdown after it ends.                                       *)
Underway(u, e) ==
    /\ u.addend = Addend(u.length, nr10.shift)
    /\ e.on <=> u.active /\ StepFits(u)

Unshifted(u, e) ==
    /\ u.calculate = 0
    /\ u.reload # 0 => u.hold = 0 /\ u.instant /\ Underway(u, e)
    /\ u.reload = 0 => (u.active <=> e.on)

Calculated(u, e) ==
    /\ u.reload = 0 /\ (u.active <=> e.on) /\ (e.on => StepFits(u))
    /\ u.shadow = u.length
    /\ u.addend = IF nr10.negate THEN MaxFrequency - Addend(u.length, nr10.shift)
                  ELSE Addend(u.length, nr10.shift)

Follows(u, e) ==
    /\ e.on => u.length = e.frequency
    /\ nr10.shift = 0 => Unshifted(u, e)
    /\ nr10.shift # 0 => /\ ~u.instant
                         /\ u.calculate # 0 => Underway(u, e)
                         /\ u.calculate = 0 => Calculated(u, e)

SweepInv ==
    /\ lf_div \in {0, 1} /\ nr10 \in SweepRegisters /\ Unit \in SweepUnits
    /\ steady \in BOOLEAN /\ expected.on \in BOOLEAN
    /\ steady => Follows(Unit, expected)

-----------------------------------------------------------------------------
(* A shifted frequency is no greater than the frequency. *)
LEMMA AddendBounds ==
    ASSUME NEW frequency \in Nat, NEW shift \in 0 .. 7
    PROVE  /\ Addend(frequency, shift) \in 0 .. frequency
           /\ shift = 0 => Addend(frequency, shift) = frequency
<1>1. Powers[shift + 1] \in {1, 2, 4, 8, 16, 32, 64, 128}
      /\ (shift = 0 => Powers[shift + 1] = 1)
  <2>1. shift \in {0, 1, 2, 3, 4, 5, 6, 7}
    OBVIOUS
  <2> QED  BY <2>1 DEF Powers
<1>2. \A p \in {1, 2, 4, 8, 16, 32, 64, 128} : frequency \div p \in 0 .. frequency
  OBVIOUS
<1>3. frequency \div 1 = frequency
  OBVIOUS
<1> QED  BY <1>1, <1>2, <1>3 DEF Addend

(* A frequency keeps to its bits. *)
LEMMA FrequencyWraps ==
    ASSUME NEW max \in Nat, NEW x \in Nat
    PROVE  /\ x % (max + 1) \in 0 .. max
           /\ x <= max => x % (max + 1) = x
           /\ x > max /\ x <= 2 * max + 1 => x % (max + 1) = x - (max + 1)
<1>1. x % (max + 1) \in 0 .. max
  OBVIOUS
<1>2. x <= max => x % (max + 1) = x
  OBVIOUS
<1>3. x > max /\ x <= 2 * max + 1 => x % (max + 1) = x - (max + 1)
  OBVIOUS
<1> QED  BY <1>1, <1>2, <1>3

-----------------------------------------------------------------------------
(* sweep_calculation_done. *)
LEMMA DoneUnit ==
    ASSUME NEW u \in SweepUnits, nr10 \in SweepRegisters
    PROVE  /\ CalculationDone(u) \in SweepUnits
           /\ CalculationDone(u).length = u.length /\ CalculationDone(u).calculate = u.calculate
           /\ CalculationDone(u).reload = u.reload /\ CalculationDone(u).hold = u.hold
           /\ CalculationDone(u).instant = u.instant
           /\ CalculationDone(u).held <=> u.hold # 0
           /\ CalculationDone(u).addend = IF nr10.negate THEN MaxFrequency - u.addend
                                          ELSE u.addend
           /\ u.hold = 0 => CalculationDone(u).shadow = u.length
           /\ u.hold = 0 => (CalculationDone(u).active <=>
                                u.active /\ (nr10.negate \/ u.length + u.addend <= MaxFrequency))
<1> DEFINE shadow == IF u.hold = 0 THEN u.length ELSE u.shadow
           addend == IF nr10.negate THEN MaxFrequency - u.addend ELSE u.addend
           on == u.active /\ (nr10.negate \/ shadow + addend <= MaxFrequency)
           within == u.hold # 0
<1>1. CalculationDone(u) = [u EXCEPT !.shadow = shadow, !.addend = addend, !.completed = addend,
                                     !.held = within, !.active = on]
  BY DEF CalculationDone
<1>2. shadow \in 0 .. MaxFrequency /\ addend \in 0 .. MaxFrequency
  BY SweepAssumption DEF SweepUnits
<1>3. on \in BOOLEAN /\ within \in BOOLEAN
  BY DEF SweepUnits
<1>4. ~nr10.negate => addend = u.addend
  OBVIOUS
<1> SUFFICES /\ CalculationDone(u) \in SweepUnits
             /\ CalculationDone(u).length = u.length /\ CalculationDone(u).calculate = u.calculate
             /\ CalculationDone(u).reload = u.reload /\ CalculationDone(u).hold = u.hold
             /\ CalculationDone(u).instant = u.instant
             /\ CalculationDone(u).held = within /\ CalculationDone(u).addend = addend
             /\ CalculationDone(u).shadow = shadow /\ CalculationDone(u).active = on
  BY <1>4
<1> HIDE DEF shadow, addend, on, within
<1> QED  BY <1>1, <1>2, <1>3 DEF SweepUnits

(* The pause before the calculation.  Without a shift its end is the       *)
(* calculation.                                                            *)
LEMMA ReloadingTyped ==
    ASSUME NEW u \in SweepUnits, nr10 \in SweepRegisters, NEW cycles \in Nat
    PROVE  /\ Reloading(u, cycles).unit \in SweepUnits
           /\ Reloading(u, cycles).left \in Nat
<1>1. CASE u.reload > cycles
  <2>1. u.reload - cycles \in 0 .. 4
    BY <1>1 DEF SweepUnits
  <2>2. Reloading(u, cycles) = [unit |-> [u EXCEPT !.reload = u.reload - cycles], left |-> 0]
    BY <1>1 DEF Reloading
  <2>3. \A r \in 0 .. 4 : [u EXCEPT !.reload = r] \in SweepUnits
    BY DEF SweepUnits
  <2> QED  BY <2>1, <2>2, <2>3
<1>2. CASE ~(u.reload > cycles)
  <2> DEFINE done == IF u.reload # 0 /\ u.calculate = 0 /\ u.instant
                     THEN CalculationDone(u) ELSE u
  <2>1. Reloading(u, cycles) = [unit |-> [done EXCEPT !.instant = FALSE, !.reload = 0],
                                left |-> cycles - u.reload]
    BY <1>2 DEF Reloading
  <2>2. done \in SweepUnits
    BY DoneUnit
  <2> HIDE DEF done
  <2>3. \A i \in BOOLEAN, r \in 0 .. 4 :
            [done EXCEPT !.instant = i, !.reload = r] \in SweepUnits
    BY <2>2 DEF SweepUnits
  <2>4. FALSE \in BOOLEAN /\ 0 \in 0 .. 4
    OBVIOUS
  <2>5. [done EXCEPT !.instant = FALSE, !.reload = 0] \in SweepUnits
    BY <2>3, <2>4
  <2>6. cycles - u.reload \in Nat
    BY <1>2 DEF SweepUnits
  <2> QED  BY <2>1, <2>5, <2>6
<1> QED  BY <1>1, <1>2

LEMMA ReloadingFollows ==
    ASSUME NEW u \in SweepUnits, nr10 \in SweepRegisters, NEW cycles \in Nat, NEW e,
           e.on \in BOOLEAN, ~u.held, Follows(u, e)
    PROVE  /\ Follows(Reloading(u, cycles).unit, e) /\ ~Reloading(u, cycles).unit.held
           /\ Reloading(u, cycles).left > 0 => Reloading(u, cycles).unit.reload = 0
<1> DEFINE w == Reloading(u, cycles).unit
<1>1. CASE u.reload > cycles
  <2>1. u.reload - cycles \in 0 .. 4 /\ u.reload - cycles # 0 /\ u.reload # 0
    BY <1>1 DEF SweepUnits
  <2>2. Reloading(u, cycles) = [unit |-> [u EXCEPT !.reload = u.reload - cycles], left |-> 0]
    BY <1>1 DEF Reloading
  <2>3. ASSUME NEW r \in 0 .. 4, r # 0
        PROVE  Follows([u EXCEPT !.reload = r], e) /\ ~[u EXCEPT !.reload = r].held
    <3> DEFINE v == [u EXCEPT !.reload = r]
    <3>1. /\ v.length = u.length /\ v.shadow = u.shadow /\ v.addend = u.addend
          /\ v.calculate = u.calculate /\ v.hold = u.hold /\ v.instant = u.instant
          /\ v.active = u.active /\ v.held = u.held /\ v.reload = r
      BY DEF SweepUnits
    <3> HIDE DEF v
    <3>2. StepFits(v) <=> StepFits(u)
      BY <3>1 DEF StepFits
    <3>3. Underway(v, e) <=> Underway(u, e)
      BY <3>1, <3>2 DEF Underway
    <3>4. Follows(v, e)
      BY <2>1, <2>3, <3>1, <3>3 DEF Follows, Unshifted, Calculated
    <3> QED  BY <3>1, <3>4 DEF v
  <2> DEFINE v == [u EXCEPT !.reload = u.reload - cycles]
  <2>4. Follows(v, e) /\ ~v.held
    BY <2>1, <2>3
  <2>5. Reloading(u, cycles).unit = v /\ Reloading(u, cycles).left = 0
    BY <2>2
  <2> HIDE DEF v
  <2> QED  BY <2>4, <2>5
<1>2. CASE ~(u.reload > cycles)
  <2> DEFINE ends == u.reload # 0 /\ u.calculate = 0 /\ u.instant
             done == IF ends THEN CalculationDone(u) ELSE u
             v == [done EXCEPT !.instant = FALSE, !.reload = 0]
  <2>1. Reloading(u, cycles) = [unit |-> v, left |-> cycles - u.reload]
    BY <1>2 DEF Reloading
  <2>2. done \in SweepUnits
    BY DoneUnit
  <2>3. /\ v.length = done.length /\ v.shadow = done.shadow /\ v.addend = done.addend
        /\ v.calculate = done.calculate /\ v.hold = done.hold /\ v.instant = FALSE
        /\ v.active = done.active /\ v.held = done.held /\ v.reload = 0
    <3> HIDE DEF done
    <3> QED  BY <2>2 DEF SweepUnits
  <2> HIDE DEF v, done
  <2>4. StepFits(v) <=> StepFits(done)
    BY <2>3 DEF StepFits
  <2>5. CASE ends
    <3>1. done = CalculationDone(u)
      BY <2>5 DEF done
    <3>2. nr10.shift = 0
      BY <2>5 DEF Follows, Calculated
    <3>3. u.hold = 0 /\ u.calculate = 0 /\ Underway(u, e)
      BY <2>5, <3>2 DEF Follows, Unshifted
    <3>4. /\ done.length = u.length /\ done.calculate = 0 /\ ~done.held
          /\ done.active <=> u.active /\ (nr10.negate \/ u.length + u.addend <= MaxFrequency)
      BY <3>1, <3>3, DoneUnit
    <3>5. done.active <=> e.on
      BY <3>3, <3>4 DEF Underway, StepFits
    <3>6. Follows(v, e)
      BY <2>3, <3>2, <3>4, <3>5 DEF Follows, Unshifted
    <3> QED  BY <2>1, <2>3, <3>4, <3>6
  <2>6. CASE ~ends
    <3>1. done = u
      BY <2>6 DEF done
    <3>2. Underway(v, e) <=> Underway(u, e)
      BY <2>3, <2>4, <3>1 DEF Underway
    <3>3. CASE nr10.shift = 0
      <4>1. u.reload = 0 /\ u.calculate = 0 /\ (u.active <=> e.on)
        BY <2>6, <3>3 DEF Follows, Unshifted
      <4> QED  BY <2>1, <2>3, <3>1, <3>3, <4>1 DEF Follows, Unshifted
    <3>4. CASE nr10.shift # 0
      <4>1. u.calculate = 0 => Calculated(v, e)
        BY <2>3, <2>4, <3>1, <3>4 DEF Follows, Calculated
      <4> QED  BY <2>1, <2>3, <3>1, <3>2, <3>4, <4>1 DEF Follows
    <3> QED  BY <3>3, <3>4
  <2> QED  BY <2>5, <2>6
<1> QED  BY <1>1, <1>2

(* The countdown, at whose end is the calculation.  One that ends within   *)
(* the hold is the only one that is lost.                                  *)
LEMMA CalculatingTyped ==
    ASSUME NEW u \in SweepUnits, nr10 \in SweepRegisters, NEW left \in Nat
    PROVE  Calculating(u, left) \in SweepUnits
<1>1. CASE u.calculate = 0 \/ (nr10.shift = 0 /\ ~u.unshifted)
  BY <1>1 DEF Calculating
<1>2. CASE ~(u.calculate = 0 \/ (nr10.shift = 0 /\ ~u.unshifted)) /\ u.calculate > left
  <2>1. u.calculate - left \in 0 .. 7
    BY <1>2 DEF SweepUnits
  <2>2. \A c \in 0 .. 7 : [u EXCEPT !.calculate = c] \in SweepUnits
    BY DEF SweepUnits
  <2>3. Calculating(u, left) = [u EXCEPT !.calculate = u.calculate - left]
    BY <1>2 DEF Calculating
  <2> QED  BY <2>1, <2>2, <2>3
<1>3. CASE ~(u.calculate = 0 \/ (nr10.shift = 0 /\ ~u.unshifted)) /\ ~(u.calculate > left)
  <2>1. Calculating(u, left) = CalculationDone([u EXCEPT !.calculate = 0])
    BY <1>3 DEF Calculating
  <2>2. [u EXCEPT !.calculate = 0] \in SweepUnits
    <3>1. \A c \in 0 .. 7 : [u EXCEPT !.calculate = c] \in SweepUnits
      BY DEF SweepUnits
    <3> QED  BY <3>1
  <2> QED  BY <2>1, <2>2, DoneUnit
<1> QED  BY <1>1, <1>2, <1>3

LEMMA CalculatingFollows ==
    ASSUME NEW u \in SweepUnits, nr10 \in SweepRegisters, NEW left \in Nat, NEW e,
           e.on \in BOOLEAN, ~u.held, Follows(u, e), left > 0 => u.reload = 0,
           ~Calculating(u, left).held
    PROVE  Follows(Calculating(u, left), e)
<1>1. CASE u.calculate = 0 \/ (nr10.shift = 0 /\ ~u.unshifted)
  BY <1>1 DEF Calculating
<1>2. CASE ~(u.calculate = 0 \/ (nr10.shift = 0 /\ ~u.unshifted))
  <2>1. nr10.shift # 0 /\ ~u.instant /\ Underway(u, e) /\ u.calculate # 0
    BY <1>2 DEF Follows, Unshifted
  <2>2. CASE u.calculate > left
    <3>1. u.calculate - left \in 0 .. 7 /\ u.calculate - left # 0
      BY <2>2 DEF SweepUnits
    <3>2. Calculating(u, left) = [u EXCEPT !.calculate = u.calculate - left]
      BY <1>2, <2>2 DEF Calculating
    <3>3. ASSUME NEW c \in 0 .. 7, c # 0
          PROVE  Follows([u EXCEPT !.calculate = c], e)
      <4> DEFINE v == [u EXCEPT !.calculate = c]
      <4>1. /\ v.length = u.length /\ v.addend = u.addend /\ v.instant = u.instant
            /\ v.active = u.active /\ v.calculate = c
        BY DEF SweepUnits
      <4> HIDE DEF v
      <4>2. Underway(v, e)
        BY <2>1, <4>1 DEF Underway, StepFits
      <4>3. Follows(v, e)
        BY <2>1, <3>3, <4>1, <4>2 DEF Follows
      <4> QED  BY <4>3 DEF v
    <3> QED  BY <3>1, <3>2, <3>3
  <2>3. CASE ~(u.calculate > left)
    <3> DEFINE v == [u EXCEPT !.calculate = 0]
               done == CalculationDone(v)
    <3>1. Calculating(u, left) = done
      BY <1>2, <2>3 DEF Calculating
    <3>2. /\ v.length = u.length /\ v.addend = u.addend /\ v.instant = u.instant
          /\ v.active = u.active /\ v.calculate = 0 /\ v.hold = u.hold /\ v.reload = u.reload
      BY DEF SweepUnits
    <3>3. v \in SweepUnits
      <4>1. \A c \in 0 .. 7 : [u EXCEPT !.calculate = c] \in SweepUnits
        BY DEF SweepUnits
      <4> QED  BY <4>1
    <3> HIDE DEF v
    <3>4. /\ done.length = v.length /\ done.calculate = v.calculate
          /\ done.reload = v.reload /\ done.instant = v.instant
          /\ done.held <=> v.hold # 0
          /\ done.addend = IF nr10.negate THEN MaxFrequency - v.addend ELSE v.addend
          /\ v.hold = 0 => done.shadow = v.length
          /\ v.hold = 0 => (done.active <=>
                               v.active /\ (nr10.negate \/ v.length + v.addend <= MaxFrequency))
      BY <3>3, DoneUnit
    <3> HIDE DEF done
    <3>5. v.hold = 0
      BY <3>1, <3>4
    <3>6. u.reload = 0
      BY <2>1, <2>3 DEF SweepUnits
    <3>7. done.active <=> e.on
      BY <2>1, <3>2, <3>4, <3>5 DEF Underway, StepFits
    <3>8. e.on => StepFits(done)
      BY <2>1, <3>2, <3>4 DEF Underway, StepFits
    <3>9. Calculated(done, e)
      BY <2>1, <3>2, <3>4, <3>5, <3>6, <3>7, <3>8 DEF Calculated, Underway
    <3> QED  BY <2>1, <3>1, <3>2, <3>4, <3>9 DEF Follows
  <2> QED  BY <2>2, <2>3
<1> QED  BY <1>1, <1>2

LEMMA HeldUnit ==
    ASSUME NEW u \in SweepUnits, NEW cycles \in Nat
    PROVE  /\ Held(u, cycles) \in SweepUnits
           /\ Held(u, cycles).held = u.held
           /\ \A e : Follows(u, e) => Follows(Held(u, cycles), e)
<1> DEFINE hold == IF u.hold > cycles THEN u.hold - cycles ELSE 0
           v == [u EXCEPT !.hold = hold]
<1>1. Held(u, cycles) = v
  BY DEF Held
<1>2. hold \in 0 .. 4 /\ (u.hold = 0 => hold = 0)
  BY DEF SweepUnits
<1> HIDE DEF hold
<1>3. v \in SweepUnits
  BY <1>2 DEF SweepUnits
<1>4. /\ v.length = u.length /\ v.shadow = u.shadow /\ v.addend = u.addend
      /\ v.calculate = u.calculate /\ v.reload = u.reload /\ v.instant = u.instant
      /\ v.active = u.active /\ v.held = u.held /\ v.hold = hold
  BY DEF SweepUnits
<1> HIDE DEF v
<1>5. ASSUME NEW e, Follows(u, e) PROVE Follows(v, e)
  <2>1. StepFits(v) <=> StepFits(u)
    BY <1>4 DEF StepFits
  <2>2. Underway(v, e) <=> Underway(u, e)
    BY <1>4, <2>1 DEF Underway
  <2>3. Calculated(v, e) <=> Calculated(u, e)
    BY <1>4, <2>1 DEF Calculated
  <2>4. Unshifted(u, e) => Unshifted(v, e)
    BY <1>2, <1>4, <2>2 DEF Unshifted
  <2> QED  BY <1>4, <1>5, <2>2, <2>3, <2>4 DEF Follows
<1> QED  BY <1>1, <1>3, <1>4, <1>5

-----------------------------------------------------------------------------
(* Becoming a unit, but for the note of the hold. *)
LEMMA BecomesUnit ==
    ASSUME NEW u \in SweepUnits, Becomes(u)
    PROVE  /\ Unit' \in SweepUnits
           /\ Unit'.length = u.length /\ Unit'.shadow = u.shadow /\ Unit'.addend = u.addend
           /\ Unit'.calculate = u.calculate /\ Unit'.reload = u.reload /\ Unit'.hold = u.hold
           /\ Unit'.instant = u.instant /\ Unit'.active = u.active
<1>1. Unit' = [length |-> u.length, shadow |-> u.shadow,
               addend |-> u.addend, completed |-> u.completed,
               calculate |-> u.calculate, reload |-> u.reload, hold |-> u.hold,
               countdown |-> u.countdown, instant |-> u.instant,
               unshifted |-> u.unshifted, active |-> u.active, held |-> FALSE]
  BY DEF Becomes, Unit
<1>2. /\ u.length \in 0 .. MaxFrequency /\ u.shadow \in 0 .. MaxFrequency
      /\ u.addend \in 0 .. MaxFrequency /\ u.completed \in 0 .. MaxFrequency
      /\ u.calculate \in 0 .. 7 /\ u.reload \in 0 .. 4 /\ u.hold \in 0 .. 4
      /\ u.countdown \in 0 .. 7 /\ u.instant \in BOOLEAN /\ u.unshifted \in BOOLEAN
      /\ u.active \in BOOLEAN
  BY DEF SweepUnits
<1>3. FALSE \in BOOLEAN
  OBVIOUS
<1> QED  BY <1>1, <1>2, <1>3, Zenon DEF SweepUnits

LEMMA BecomesFollows ==
    ASSUME NEW u \in SweepUnits, Becomes(u), nr10' = nr10, NEW e, Follows(u, e), expected' = e
    PROVE  Follows(Unit, expected)'
<1> DEFINE v == Unit'
<1>2. /\ v.length = u.length /\ v.shadow = u.shadow /\ v.addend = u.addend
      /\ v.calculate = u.calculate /\ v.reload = u.reload /\ v.hold = u.hold
      /\ v.instant = u.instant /\ v.active = u.active
  BY BecomesUnit
<1> HIDE DEF v
<1>3. StepFits(v) <=> StepFits(u)
  BY <1>2 DEF StepFits
<1>4. Underway(v, e) <=> Underway(u, e)
  BY <1>2, <1>3 DEF Underway
<1>5. Calculated(v, e) <=> Calculated(u, e)
  BY <1>2, <1>3 DEF Calculated
<1>6. Unshifted(v, e) <=> Unshifted(u, e)
  BY <1>2, <1>4 DEF Unshifted
<1>7. Follows(v, e)
  BY <1>2, <1>4, <1>5, <1>6 DEF Follows
<1> QED  BY <1>7 DEF Follows, Unshifted, Calculated, Underway, StepFits, v

(* The sweep's part of GB_apu_run. *)
LEMMA RunSweepKeeps ==
    ASSUME SweepInv, NEW cycles \in Nat, RunSweep(cycles)
    PROVE  SweepInv'
<1> DEFINE lf == (lf_div + cycles) % 2
           reloaded == Reloading(Unit, SweepCycles(cycles, lf))
           calculated == Calculating(reloaded.unit, reloaded.left)
           u == Held(calculated, cycles)
<1>1. /\ lf_div \in {0, 1} /\ nr10 \in SweepRegisters /\ Unit \in SweepUnits /\ ~Unit.held
      /\ steady \in BOOLEAN /\ expected.on \in BOOLEAN
      /\ steady => Follows(Unit, expected)
  BY DEF SweepInv, Unit
<1>2. /\ lf_div' = lf /\ Becomes(u) /\ steady' = (steady /\ ~calculated.held)
      /\ nr10' = nr10 /\ expected' = expected
  BY DEF RunSweep
<1>3. lf \in {0, 1}
  BY <1>1
<1>4. SweepCycles(cycles, lf) \in Nat
  BY <1>3 DEF SweepCycles, Bit
<1> HIDE DEF lf
<1>5. reloaded.unit \in SweepUnits /\ reloaded.left \in Nat
  BY <1>1, <1>4, ReloadingTyped
<1>6. steady => /\ Follows(reloaded.unit, expected) /\ ~reloaded.unit.held
                /\ reloaded.left > 0 => reloaded.unit.reload = 0
  BY <1>1, <1>4, ReloadingFollows
<1> HIDE DEF reloaded
<1>7. calculated \in SweepUnits
  BY <1>1, <1>5, CalculatingTyped
<1>8. steady /\ ~calculated.held => Follows(calculated, expected)
  BY <1>1, <1>5, <1>6, CalculatingFollows
<1> HIDE DEF calculated
<1>9. u \in SweepUnits /\ (steady /\ ~calculated.held => Follows(u, expected))
  BY <1>7, <1>8, HeldUnit
<1> HIDE DEF u
<1>10. Unit' \in SweepUnits
  BY <1>2, <1>9, BecomesUnit
<1>11. steady' => Follows(Unit, expected)'
  BY <1>2, <1>9, BecomesFollows
<1>12. lf_div' \in {0, 1} /\ nr10' \in SweepRegisters /\ steady' \in BOOLEAN
       /\ expected'.on \in BOOLEAN
  <2>1. calculated.held \in BOOLEAN
    BY <1>7 DEF SweepUnits
  <2> QED  BY <1>1, <1>2, <1>3, <2>1
<1> QED  BY <1>10, <1>11, <1>12 DEF SweepInv

-----------------------------------------------------------------------------
(* trigger_sweep_calculation. *)
LEMMA BegunTyped ==
    ASSUME NEW u \in SweepUnits, NEW value \in SweepRegisters, NEW div_write \in BOOLEAN,
           lf_div \in {0, 1}
    PROVE  Begun(u, value, div_write) \in SweepUnits
<1> DEFINE length == IF value.shift # 0
                     THEN (u.addend + u.shadow + Bit(value.negate)) % (MaxFrequency + 1)
                     ELSE u.length
           addend == IF u.hold = 0 THEN Addend(length, value.shift) ELSE u.addend
           reload == IF ~sweep_double /\ div_write THEN 1 ELSE 1 + lf_div
           countdown == 7 - value.pace
           unshifted == value.shift = 0
           instant == u.instant \/ value.shift = 0
<1>1. CASE value.pace = 0 \/ u.countdown # 7
  BY <1>1 DEF Begun
<1>2. CASE ~(value.pace = 0 \/ u.countdown # 7)
  <2>1. Begun(u, value, div_write) =
            [u EXCEPT !.length = length, !.addend = addend, !.calculate = value.shift,
                      !.reload = reload, !.unshifted = unshifted, !.countdown = countdown,
                      !.instant = instant]
    BY <1>2 DEF Begun
  <2>2. length \in 0 .. MaxFrequency
    <3>1. u.addend + u.shadow + Bit(value.negate) \in Nat /\ u.length \in 0 .. MaxFrequency
      BY DEF SweepUnits, Bit
    <3> QED  BY <3>1, FrequencyWraps, SweepAssumption
  <2> HIDE DEF length
  <2>3. value.shift \in 0 .. 7 /\ value.pace \in 0 .. 7
    BY DEF SweepRegisters
  <2>4. addend \in 0 .. MaxFrequency
    <3>0. length \in Nat
      BY <2>2, SweepAssumption
    <3>1. Addend(length, value.shift) \in 0 .. length
      BY <2>3, <3>0, AddendBounds
    <3>2. u.addend \in 0 .. MaxFrequency
      BY DEF SweepUnits
    <3> QED  BY <2>2, <3>1, <3>2, SweepAssumption
  <2>5. reload \in 0 .. 4 /\ countdown \in 0 .. 7
    BY <2>3
  <2>6. unshifted \in BOOLEAN /\ instant \in BOOLEAN
    BY DEF SweepUnits
  <2> HIDE DEF addend, reload, unshifted, countdown, instant
  <2> QED  BY <2>1, <2>2, <2>3, <2>4, <2>5, <2>6 DEF SweepUnits
<1> QED  BY <1>1, <1>2

(* The unit after a clock that does not fire, and after one that does. *)
LEMMA BegunFields ==
    ASSUME NEW u \in SweepUnits, NEW value \in SweepRegisters, NEW div_write \in BOOLEAN,
           lf_div \in {0, 1}, u.hold = 0, value.pace # 0, u.countdown = 7,
           NEW length \in 0 .. MaxFrequency,
           length = IF value.shift # 0
                    THEN (u.addend + u.shadow + Bit(value.negate)) % (MaxFrequency + 1)
                    ELSE u.length
    PROVE  LET v == Begun(u, value, div_write)
           IN  /\ v.length = length /\ v.addend = Addend(length, value.shift)
               /\ v.calculate = value.shift /\ v.reload # 0 /\ v.hold = 0
               /\ v.instant = (u.instant \/ value.shift = 0) /\ v.active = u.active
<1> DEFINE addend == Addend(length, value.shift)
           reload == IF ~sweep_double /\ div_write THEN 1 ELSE 1 + lf_div
           countdown == 7 - value.pace
           unshifted == value.shift = 0
           instant == u.instant \/ value.shift = 0
<1>1. Begun(u, value, div_write) =
          [u EXCEPT !.length = length, !.addend = addend, !.calculate = value.shift,
                    !.reload = reload, !.unshifted = unshifted, !.countdown = countdown,
                    !.instant = instant]
  BY DEF Begun
<1>2. reload # 0
  OBVIOUS
<1> HIDE DEF addend, reload, unshifted, countdown, instant
<1>3. LET v == Begun(u, value, div_write)
      IN  /\ v.length = length /\ v.addend = addend
          /\ v.calculate = value.shift /\ v.reload = reload /\ v.hold = u.hold
          /\ v.instant = instant /\ v.active = u.active
  BY <1>1 DEF SweepUnits
<1> QED  BY <1>2, <1>3 DEF addend, instant

(* A clock begins the next step from what the last one left, which is no   *)
(* longer pending: the frequency becomes what was calculated, and its own  *)
(* step is under way.                                                      *)
LEMMA ClockSweepFollows ==
    ASSUME NEW u \in SweepUnits, NEW div_write \in BOOLEAN, NEW e, NEW f,
           lf_div \in {0, 1}, nr10 \in SweepRegisters, e.on \in BOOLEAN, Follows(u, e),
           u.reload = 0, u.hold = 0, nr10.shift # 0 => u.calculate = 0,
           u.countdown = 7, nr10.pace # 0,
           f = [frequency |-> Stepped(e.frequency),
                on |-> e.on /\ (nr10.negate \/
                           Stepped(e.frequency) + Addend(Stepped(e.frequency), nr10.shift)
                               <= MaxFrequency)]
    PROVE  Follows(Begun(u, nr10, div_write), f)
<1> DEFINE length == IF nr10.shift # 0
                     THEN (u.addend + u.shadow + Bit(nr10.negate)) % (MaxFrequency + 1)
                     ELSE u.length
           v == Begun(u, nr10, div_write)
<1>1. MaxFrequency \in Nat /\ u.length \in 0 .. MaxFrequency /\ u.length \in Nat
      /\ u.addend \in 0 .. MaxFrequency /\ u.shadow \in 0 .. MaxFrequency
      /\ nr10.shift \in 0 .. 7 /\ nr10.negate \in BOOLEAN
  BY SweepAssumption DEF SweepUnits, SweepRegisters
<1>2. length \in 0 .. MaxFrequency
  <2>1. u.addend + u.shadow + Bit(nr10.negate) \in Nat
    BY <1>1 DEF Bit
  <2> QED  BY <1>1, <2>1, FrequencyWraps
<1>3. /\ v.length = length /\ v.addend = Addend(length, nr10.shift)
      /\ v.calculate = nr10.shift /\ v.reload # 0 /\ v.hold = 0
      /\ v.instant = (u.instant \/ nr10.shift = 0) /\ v.active = u.active
  BY <1>2, BegunFields
<1>4. e.on <=> u.active
  BY DEF Follows, Unshifted, Calculated
<1>5. ASSUME e.on PROVE length = Stepped(e.frequency)
  <2>1. u.length = e.frequency
    BY <1>5 DEF Follows
  <2>2. CASE nr10.shift = 0
    BY <2>1, <2>2 DEF Stepped
  <2>3. CASE nr10.shift # 0
    <3> DEFINE a == Addend(u.length, nr10.shift)
    <3>1. a \in 0 .. u.length
      BY <1>1, AddendBounds
    <3>2. Calculated(u, e) /\ StepFits(u)
      BY <1>5, <2>3 DEF Follows, Calculated
    <3>3. /\ u.shadow = u.length /\ u.addend = IF nr10.negate THEN MaxFrequency - a ELSE a
          /\ nr10.negate \/ u.length + a <= MaxFrequency
      BY <3>2 DEF Calculated, StepFits
    <3>4. Stepped(e.frequency) = IF nr10.negate THEN u.length - a ELSE u.length + a
      BY <2>1, <2>3 DEF Stepped
    <3> HIDE DEF a
    <3>5. CASE nr10.negate
      <4> DEFINE x == u.addend + u.shadow + 1
      <4>1. x \in Nat /\ x > MaxFrequency /\ x <= 2 * MaxFrequency + 1
            /\ x - (MaxFrequency + 1) = u.length - a
        BY <1>1, <3>1, <3>3, <3>5
      <4>2. length = x % (MaxFrequency + 1)
        BY <2>3, <3>5 DEF Bit
      <4> HIDE DEF x, length
      <4>3. x % (MaxFrequency + 1) = x - (MaxFrequency + 1)
        BY <1>1, <4>1, FrequencyWraps
      <4> QED  BY <3>4, <3>5, <4>1, <4>2, <4>3
    <3>6. CASE ~nr10.negate
      <4> DEFINE x == u.addend + u.shadow + 0
      <4>1. x \in Nat /\ x <= MaxFrequency /\ x = u.length + a
        BY <1>1, <3>1, <3>3, <3>6
      <4>2. length = x % (MaxFrequency + 1)
        BY <2>3, <3>6 DEF Bit
      <4> HIDE DEF x, length
      <4>3. x % (MaxFrequency + 1) = x
        BY <1>1, <4>1, FrequencyWraps
      <4> QED  BY <3>4, <3>6, <4>1, <4>2, <4>3
    <3> QED  BY <3>5, <3>6
  <2> QED  BY <2>2, <2>3
<1> HIDE DEF length, v
<1>6. /\ f.frequency = Stepped(e.frequency)
      /\ f.on <=> e.on /\ (nr10.negate \/
                      Stepped(e.frequency) + Addend(Stepped(e.frequency), nr10.shift)
                          <= MaxFrequency)
  OBVIOUS
<1>7. f.on => v.length = f.frequency
  BY <1>3, <1>5, <1>6
<1>8. Underway(v, f)
  <2>1. f.on <=> v.active /\ StepFits(v)
    <3>1. CASE e.on
      BY <1>3, <1>4, <1>5, <1>6, <3>1 DEF StepFits
    <3>2. CASE ~e.on
      BY <1>3, <1>4, <1>6, <3>2
    <3> QED  BY <3>1, <3>2
  <2> QED  BY <1>3, <2>1 DEF Underway
<1>9. nr10.shift # 0 => ~v.instant /\ v.calculate # 0
  BY <1>3 DEF Follows
<1>10. nr10.shift = 0 => Unshifted(v, f)
  BY <1>3, <1>8 DEF Unshifted
<1> QED  BY <1>7, <1>8, <1>9, <1>10 DEF Follows, v

LEMMA ClockSweepKeeps ==
    ASSUME SweepInv, NEW div_write \in BOOLEAN, ClockSweep(div_write)
    PROVE  SweepInv'
<1> DEFINE count == (square_sweep_countdown + 1) % 8
           u == [Unit EXCEPT !.countdown = (@ + 1) % 8]
           fires == nr10.pace # 0 /\ u.countdown = 7
           next == Stepped(expected.frequency)
           v == Begun(u, nr10, div_write)
           f == [frequency |-> next,
                 on |-> expected.on /\ (nr10.negate \/
                            next + Addend(next, nr10.shift) <= MaxFrequency)]
<1>1. /\ lf_div \in {0, 1} /\ nr10 \in SweepRegisters /\ Unit \in SweepUnits
      /\ steady \in BOOLEAN /\ expected.on \in BOOLEAN
      /\ steady => Follows(Unit, expected)
  BY DEF SweepInv
<1>2. /\ ~Pending /\ Becomes(v) /\ expected' = IF ~fires THEN expected ELSE f
      /\ lf_div' = lf_div /\ nr10' = nr10 /\ steady' = steady
  BY DEF ClockSweep
<1>3. /\ u \in SweepUnits
      /\ u.length = Unit.length /\ u.shadow = Unit.shadow /\ u.addend = Unit.addend
      /\ u.calculate = Unit.calculate /\ u.reload = Unit.reload /\ u.hold = Unit.hold
      /\ u.instant = Unit.instant /\ u.active = Unit.active
  <2>1. (Unit.countdown + 1) % 8 \in 0 .. 7
    BY <1>1 DEF SweepUnits
  <2>2. ASSUME NEW w \in SweepUnits, NEW c \in 0 .. 7
        PROVE  /\ [w EXCEPT !.countdown = c] \in SweepUnits
               /\ [w EXCEPT !.countdown = c].length = w.length
               /\ [w EXCEPT !.countdown = c].shadow = w.shadow
               /\ [w EXCEPT !.countdown = c].addend = w.addend
               /\ [w EXCEPT !.countdown = c].calculate = w.calculate
               /\ [w EXCEPT !.countdown = c].reload = w.reload
               /\ [w EXCEPT !.countdown = c].hold = w.hold
               /\ [w EXCEPT !.countdown = c].instant = w.instant
               /\ [w EXCEPT !.countdown = c].active = w.active
    BY DEF SweepUnits
  <2> HIDE DEF u
  <2>3. u = [Unit EXCEPT !.countdown = (Unit.countdown + 1) % 8]
    BY DEF u
  <2> QED  BY <1>1, <2>1, <2>2, <2>3
<1> HIDE DEF u
<1>4. steady => Follows(u, expected)
  <2>1. StepFits(u) <=> StepFits(Unit)
    BY <1>3 DEF StepFits
  <2>2. Underway(u, expected) <=> Underway(Unit, expected)
    BY <1>3, <2>1 DEF Underway
  <2>3. Calculated(u, expected) <=> Calculated(Unit, expected)
    BY <1>3, <2>1 DEF Calculated
  <2>4. Unshifted(u, expected) <=> Unshifted(Unit, expected)
    BY <1>3, <2>2 DEF Unshifted
  <2> QED  BY <1>1, <1>3, <2>2, <2>3, <2>4 DEF Follows
<1>5. u.reload = 0 /\ u.hold = 0 /\ (nr10.shift # 0 => u.calculate = 0)
  <2>1. reload_timer = 0 /\ restart_hold = 0 /\ (nr10.shift # 0 => calculate_countdown = 0)
    BY <1>2 DEF Pending
  <2>2. Unit.reload = reload_timer /\ Unit.hold = restart_hold
        /\ Unit.calculate = calculate_countdown
    BY DEF Unit
  <2> QED  BY <1>3, <2>1, <2>2
<1>6. v \in SweepUnits
  BY <1>1, <1>3, BegunTyped
<1>7. steady => Follows(v, expected')
  <2>1. CASE fires
    <3>1. expected' = f
      BY <1>2, <2>1
    <3> HIDE DEF f
    <3>2. steady => Follows(v, f)
      BY <1>1, <1>3, <1>4, <1>5, <2>1, ClockSweepFollows DEF f
    <3> QED  BY <3>1, <3>2
  <2>2. CASE ~fires
    <3>1. v = u
      BY <2>2 DEF Begun
    <3> QED  BY <1>2, <1>4, <2>2, <3>1
  <2> QED  BY <2>1, <2>2
<1>8. expected'.on \in BOOLEAN
  BY <1>1, <1>2
<1> HIDE DEF v
<1>9. Unit' \in SweepUnits
  BY <1>2, <1>6, BecomesUnit
<1>10. steady => Follows(Unit, expected)'
  BY <1>2, <1>6, <1>7, BecomesFollows
<1>11. lf_div' \in {0, 1} /\ nr10' \in SweepRegisters /\ steady' \in BOOLEAN
  BY <1>1, <1>2
<1> QED  BY <1>2, <1>8, <1>9, <1>10, <1>11 DEF SweepInv

-----------------------------------------------------------------------------
(* nr10_write_glitch leaves the unit in its widths. *)
LEMMA CalculateTyped ==
    ASSUME NEW u \in SweepUnits, NEW c \in 0 .. 7
    PROVE  [u EXCEPT !.calculate = c] \in SweepUnits
BY DEF SweepUnits

LEMMA StolenTyped ==
    ASSUME NEW u \in SweepUnits, nr10 \in SweepRegisters, NEW last, u.calculate # 0
    PROVE  Stolen(u, last) \in SweepUnits
<1>1. u.calculate - 1 \in 0 .. 7 /\ 0 \in 0 .. 7
  BY DEF SweepUnits
<1>2. /\ [u EXCEPT !.calculate = u.calculate - 1] \in SweepUnits
      /\ [u EXCEPT !.calculate = 0] \in SweepUnits
  BY <1>1, CalculateTyped
<1>3. CalculationDone([u EXCEPT !.calculate = 0]) \in SweepUnits
  BY <1>2, DoneUnit
<1> QED  BY <1>2, <1>3 DEF Stolen

LEMMA GlitchUpToCTyped ==
    ASSUME NEW u \in SweepUnits, NEW value \in SweepRegisters, nr10 \in SweepRegisters
    PROVE  GlitchUpToC(u, value) \in SweepUnits
<1>1. Corruption[u.calculate + 1] \in 0 .. 7
  <2>1. u.calculate \in {0, 1, 2, 3, 4, 5, 6, 7}
    BY DEF SweepUnits
  <2> QED  BY <2>1 DEF Corruption
<1>2. value.shift \in 0 .. 7
  BY DEF SweepRegisters
<1>3. /\ [u EXCEPT !.calculate = Corruption[u.calculate + 1]] \in SweepUnits
      /\ [u EXCEPT !.calculate = value.shift] \in SweepUnits
  BY <1>1, <1>2, CalculateTyped
<1>4. u.calculate # 0 => Stolen(u, 1) \in SweepUnits
  BY StolenTyped
<1> QED  BY <1>3, <1>4 DEF GlitchUpToC

LEMMA GlitchLaterTyped ==
    ASSUME NEW u \in SweepUnits, NEW value \in SweepRegisters, nr10 \in SweepRegisters
    PROVE  GlitchLater(u, value) \in SweepUnits
<1> DEFINE reload == IF value.shift = 0 THEN 0 ELSE u.reload
           reloaded == IF u.reload # 2 THEN u
                       ELSE [u EXCEPT !.calculate = value.shift, !.reload = reload]
<1>1. GlitchLater(u, value) =
          IF value.shift # 0 /\ nr10.shift = 0 /\ lf_div = 0 /\ reloaded.calculate > 1
          THEN Stolen(reloaded, 0) ELSE reloaded
  BY DEF GlitchLater
<1>2. value.shift \in 0 .. 7 /\ reload \in 0 .. 4
  BY DEF SweepRegisters, SweepUnits
<1> HIDE DEF reload
<1>3. reloaded \in SweepUnits
  BY <1>2 DEF SweepUnits
<1> HIDE DEF reloaded
<1>4. reloaded.calculate > 1 => Stolen(reloaded, 0) \in SweepUnits
  <2>1. reloaded.calculate > 1 => reloaded.calculate # 0
    BY <1>3 DEF SweepUnits
  <2> QED  BY <1>3, <2>1, StolenTyped
<1> QED  BY <1>1, <1>3, <1>4

(* After a write to NR10 the unit is no longer left alone. *)
LEMMA WriteNR10Keeps ==
    ASSUME SweepInv, NEW value \in SweepRegisters, WriteNR10(value)
    PROVE  SweepInv'
<1> DEFINE pending == calculate_countdown # 0 \/ reload_timer # 0
           glitched == IF ~pending THEN Unit
                       ELSE IF SweepUpToC THEN GlitchUpToC(Unit, value)
                       ELSE GlitchLater(Unit, value)
           off == /\ glitched.shadow + glitched.completed + Bit(SweepUpToC \/ nr10.negate)
                         > MaxFrequency
                  /\ ~value.negate
           on == glitched.active /\ ~off
           u == [glitched EXCEPT !.active = on]
<1>1. lf_div \in {0, 1} /\ nr10 \in SweepRegisters /\ Unit \in SweepUnits /\ expected.on \in BOOLEAN
  BY DEF SweepInv
<1>2. glitched \in SweepUnits
  BY <1>1, GlitchUpToCTyped, GlitchLaterTyped
<1>3. /\ lf_div' = lf_div /\ nr10' = value /\ steady' = FALSE /\ expected' = expected
      /\ Becomes(Begun(u, value, FALSE))
  BY DEF WriteNR10
<1> HIDE DEF glitched
<1>4. on \in BOOLEAN
  BY <1>2 DEF SweepUnits
<1> HIDE DEF on
<1>5. u \in SweepUnits
  BY <1>2, <1>4 DEF SweepUnits
<1> HIDE DEF u
<1>6. Begun(u, value, FALSE) \in SweepUnits
  BY <1>1, <1>5, BegunTyped
<1>7. Unit' \in SweepUnits
  BY <1>3, <1>6, BecomesUnit
<1> QED  BY <1>1, <1>3, <1>7 DEF SweepInv

(* A trigger begins the test of the first step. *)
LEMMA TriggerSweepKeeps ==
    ASSUME SweepInv, NEW frequency \in 0 .. MaxFrequency, TriggerSweep(frequency)
    PROVE  SweepInv'
<1> DEFINE shift == nr10.shift
           reload == (IF SweepUpToC /\ lf_div # Bit(~sweep_double) THEN 3 ELSE 2) + Bit(~active)
           addend == IF shift = 0 THEN 0 ELSE Addend(frequency, shift)
           hold == 2 - lf_div + 2 * Bit(SweepIsCgb /\ sweep_model # "CGB_D")
           countdown == 7 - nr10.pace
           armed == [Unit EXCEPT !.calculate = shift, !.reload = reload, !.unshifted = FALSE]
           u == IF shift = 0 THEN Unit ELSE armed
           v == [u EXCEPT !.length = frequency, !.active = TRUE, !.instant = FALSE,
                          !.shadow = 0, !.completed = 0, !.addend = addend,
                          !.hold = hold, !.countdown = countdown]
           fits == nr10.negate \/ frequency + Addend(frequency, shift) <= MaxFrequency
           f == [frequency |-> frequency, on |-> shift = 0 \/ fits]
<1>1. /\ lf_div \in {0, 1} /\ nr10 \in SweepRegisters /\ Unit \in SweepUnits
  BY DEF SweepInv
<1>2. /\ lf_div' = lf_div /\ nr10' = nr10 /\ Becomes(v)
      /\ steady' = (calculate_countdown = 0 /\ reload_timer = 0)
      /\ expected' = [frequency |-> frequency,
                      on |-> shift = 0 \/ nr10.negate
                                 \/ frequency + Addend(frequency, shift) <= MaxFrequency]
  BY DEF TriggerSweep
<1>3. /\ shift \in 0 .. 7 /\ nr10.pace \in 0 .. 7 /\ nr10.negate \in BOOLEAN
      /\ frequency \in Nat /\ MaxFrequency \in Nat
  BY <1>1, SweepAssumption DEF SweepRegisters
<1>4. reload \in 0 .. 4 /\ hold \in 0 .. 4 /\ countdown \in 0 .. 7
  BY <1>1, <1>3 DEF Bit
<1>5. addend \in 0 .. MaxFrequency /\ 0 \in 0 .. MaxFrequency
  <2>1. Addend(frequency, shift) \in 0 .. frequency
    BY <1>3, AddendBounds
  <2> QED  BY <1>3, <2>1
<1>6. expected' = f
  BY <1>2
<1>7. Unit.calculate = calculate_countdown /\ Unit.reload = reload_timer
  BY DEF Unit
<1> HIDE DEF reload, addend, hold, countdown
<1>8. u \in SweepUnits /\ (shift = 0 => u = Unit) /\ (shift # 0 => u.calculate = shift)
  <2> DEFINE no == FALSE
  <2>1. armed = [Unit EXCEPT !.calculate = shift, !.reload = reload, !.unshifted = no]
    OBVIOUS
  <2>2. no \in BOOLEAN
    OBVIOUS
  <2> HIDE DEF no, armed
  <2>3. armed \in SweepUnits /\ armed.calculate = shift
    BY <1>1, <1>3, <1>4, <2>1, <2>2 DEF SweepUnits
  <2> QED  BY <1>1, <2>3
<1> HIDE DEF u
<1>9. /\ v \in SweepUnits
      /\ v.length = frequency /\ v.active = TRUE /\ v.instant = FALSE /\ v.addend = addend
      /\ v.calculate = u.calculate /\ v.reload = u.reload
  <2> DEFINE no == FALSE
             yes == TRUE
             zero == 0
  <2>1. v = [u EXCEPT !.length = frequency, !.active = yes, !.instant = no,
                      !.shadow = zero, !.completed = zero, !.addend = addend,
                      !.hold = hold, !.countdown = countdown]
    OBVIOUS
  <2>2. no \in BOOLEAN /\ yes \in BOOLEAN /\ zero \in 0 .. MaxFrequency
    BY <1>5
  <2> HIDE DEF no, yes, zero, v
  <2>3. /\ v \in SweepUnits
        /\ v.length = frequency /\ v.active = yes /\ v.instant = no /\ v.addend = addend
        /\ v.calculate = u.calculate /\ v.reload = u.reload
    BY <1>4, <1>5, <1>8, <2>1, <2>2 DEF SweepUnits
  <2> QED  BY <2>3 DEF no, yes
<1> HIDE DEF v
<1>10. f.frequency = frequency /\ (f.on <=> shift = 0 \/ fits)
  OBVIOUS
<1> HIDE DEF f
<1>11. steady' => Follows(v, f)
  <2> SUFFICES ASSUME Unit.calculate = 0, Unit.reload = 0 PROVE Follows(v, f)
    BY <1>2, <1>7
  <2>1. CASE shift = 0
    <3>1. Unshifted(v, f)
      BY <1>8, <1>9, <1>10, <2>1 DEF Unshifted
    <3> QED  BY <1>9, <1>10, <2>1, <3>1 DEF Follows
  <2>2. CASE shift # 0
    <3>1. v.addend = Addend(v.length, nr10.shift)
      BY <1>9, <2>2 DEF addend
    <3>2. f.on <=> StepFits(v)
      BY <1>9, <1>10, <2>2 DEF StepFits
    <3>3. Underway(v, f)
      BY <1>9, <3>1, <3>2 DEF Underway
    <3> QED  BY <1>8, <1>9, <1>10, <2>2, <3>3 DEF Follows
  <2> QED  BY <2>1, <2>2
<1>12. expected'.on \in BOOLEAN /\ steady' \in BOOLEAN
  BY <1>2, <1>6, <1>10
<1>13. Unit' \in SweepUnits
  BY <1>2, <1>9, BecomesUnit
<1>14. steady' => Follows(Unit, expected)'
  BY <1>2, <1>6, <1>9, <1>11, BecomesFollows
<1> QED  BY <1>1, <1>2, <1>12, <1>13, <1>14 DEF SweepInv

LEMMA WriteFrequencyKeeps ==
    ASSUME SweepInv, NEW frequency \in 0 .. MaxFrequency, WriteFrequency(frequency)
    PROVE  SweepInv'
<1>1. /\ lf_div' = lf_div /\ nr10' = nr10 /\ steady' = FALSE /\ expected' = expected
      /\ Unit' = [length |-> frequency, shadow |-> Unit.shadow,
                  addend |-> Unit.addend, completed |-> Unit.completed,
                  calculate |-> Unit.calculate, reload |-> Unit.reload, hold |-> Unit.hold,
                  countdown |-> Unit.countdown, instant |-> Unit.instant,
                  unshifted |-> Unit.unshifted, active |-> Unit.active, held |-> Unit.held]
  BY DEF WriteFrequency, Unit
<1>2. Unit \in SweepUnits
  BY DEF SweepInv
<1>3. Unit' \in SweepUnits
  <2> DEFINE u == Unit
  <2> HIDE DEF u
  <2>1. /\ u.shadow \in 0 .. MaxFrequency
        /\ u.addend \in 0 .. MaxFrequency /\ u.completed \in 0 .. MaxFrequency
        /\ u.calculate \in 0 .. 7 /\ u.reload \in 0 .. 4 /\ u.hold \in 0 .. 4
        /\ u.countdown \in 0 .. 7 /\ u.instant \in BOOLEAN /\ u.unshifted \in BOOLEAN
        /\ u.active \in BOOLEAN /\ u.held \in BOOLEAN
    BY <1>2 DEF SweepUnits, u
  <2> QED  BY <1>1, <2>1, Zenon DEF SweepUnits, u
<1> QED  BY <1>1, <1>3 DEF SweepInv

LEMMA SweepStarts == SweepInit => SweepInv
<1> SUFFICES ASSUME SweepInit PROVE SweepInv
  OBVIOUS
<1>1. /\ lf_div = 1 /\ nr10 = [pace |-> 0, negate |-> FALSE, shift |-> 0] /\ steady = FALSE
      /\ expected.on = FALSE
      /\ Unit = [length |-> 0, shadow |-> 0, addend |-> 0, completed |-> 0, calculate |-> 0,
                 reload |-> 0, hold |-> 0, countdown |-> 0, instant |-> FALSE,
                 unshifted |-> FALSE, active |-> FALSE, held |-> FALSE]
  BY DEF SweepInit, Unit
<1>2. nr10 \in SweepRegisters
  BY <1>1 DEF SweepRegisters
<1>3. Unit \in SweepUnits
  <2>1. 0 \in 0 .. MaxFrequency /\ 0 \in 0 .. 7 /\ 0 \in 0 .. 4 /\ FALSE \in BOOLEAN
    BY SweepAssumption
  <2> QED  BY <1>1, <2>1, Zenon DEF SweepUnits
<1> QED  BY <1>1, <1>2, <1>3 DEF SweepInv

LEMMA SweepKeeps ==
    ASSUME SweepInv, SweepNext
    PROVE  SweepInv'
<1>1. ASSUME NEW cycles \in (IF sweep_double THEN {1, 2, 3} ELSE {2, 4, 6}), RunSweep(cycles)
      PROVE  SweepInv'
  <2>1. cycles \in Nat
    OBVIOUS
  <2> QED  BY <1>1, <2>1, RunSweepKeeps
<1>2. ASSUME NEW pace \in SweepPaces, NEW negate \in BOOLEAN, NEW shift \in Shifts,
             WriteNR10([pace |-> pace, negate |-> negate, shift |-> shift])
      PROVE  SweepInv'
  <2>1. [pace |-> pace, negate |-> negate, shift |-> shift] \in SweepRegisters
    BY SweepAssumption DEF SweepRegisters
  <2> QED  BY <1>2, <2>1, WriteNR10Keeps
<1>3. ASSUME NEW frequency \in SweepFrequencies,
             TriggerSweep(frequency) \/ WriteFrequency(frequency)
      PROVE  SweepInv'
  <2>1. frequency \in 0 .. MaxFrequency
    BY SweepAssumption
  <2> QED  BY <1>3, <2>1, TriggerSweepKeeps, WriteFrequencyKeeps
<1> QED  BY <1>1, <1>2, <1>3, ClockSweepKeeps DEF SweepNext

(* When nothing is pending, a unit that follows has come to what was       *)
(* expected.                                                               *)
LEMMA FollowingAgrees == SweepInv => SweepAgrees
<1> SUFFICES ASSUME SweepInv, steady, ~Pending
             PROVE  active = expected.on /\ (expected.on => sample_length = expected.frequency)
  BY DEF SweepAgrees
<1>1. /\ reload_timer = 0 /\ nr10.shift # 0 => calculate_countdown = 0
  BY DEF Pending
<1>2. /\ Unit.length = sample_length /\ Unit.calculate = calculate_countdown
      /\ Unit.reload = reload_timer /\ Unit.active = active
  BY DEF Unit
<1>3. Unit \in SweepUnits /\ Follows(Unit, expected) /\ expected.on \in BOOLEAN
  BY DEF SweepInv
<1>4. Unit.active \in BOOLEAN
  BY <1>3 DEF SweepUnits
<1>5. Unit.active <=> expected.on
  BY <1>1, <1>2, <1>3 DEF Follows, Unshifted, Calculated, Pending
<1> QED  BY <1>2, <1>3, <1>4, <1>5 DEF Follows

-----------------------------------------------------------------------------
ApuInv == ChannelInv /\ SweepInv

(* Both parts hold whatever is written to the registers, and whenever.     *)
LEMMA ApuAlways == ApuSpec => []ApuInv
<1>1. ApuInit => ApuInv
  BY ChannelStarts, SweepStarts DEF ApuInit, ApuInv
<1>2. ApuInv /\ [ApuNext]_apuVars => ApuInv'
  <2> SUFFICES ASSUME ApuInv, [ApuNext]_apuVars PROVE ApuInv'
    OBVIOUS
  <2>1. ASSUME UNCHANGED channelVars PROVE ChannelInv'
    <3>1. ChannelInv
      BY DEF ApuInv
    <3> QED  BY <2>1, <3>1 DEF channelVars, clockVars, lengthVars, ChannelInv, ChannelTyped,
                               Playable, DacOn, Settled
  <2>2. ASSUME UNCHANGED sweepVars PROVE SweepInv'
    <3>1. SweepInv
      BY DEF ApuInv
    <3>2. /\ Unit' = Unit /\ nr10' = nr10 /\ lf_div' = lf_div /\ expected' = expected
          /\ steady' = steady
      BY <2>2 DEF sweepVars, unit, Unit
    <3> QED  BY <3>1, <3>2 DEF SweepInv, Follows, Unshifted, Calculated, Underway, StepFits
  <2>3. CASE ChannelNext /\ UNCHANGED sweepVars
    BY <2>2, <2>3, ChannelKeeps DEF ApuInv
  <2>4. CASE SweepNext /\ UNCHANGED channelVars
    BY <2>1, <2>4, SweepKeeps DEF ApuInv
  <2>5. CASE UNCHANGED apuVars
    BY <2>1, <2>2, <2>5 DEF apuVars, ApuInv
  <2> QED  BY <2>3, <2>4, <2>5 DEF ApuNext
<1> QED  BY <1>1, <1>2, PTL DEF ApuSpec

(* The length counter, the divider, the volume and everything the sweep    *)
(* calculates stay in their widths.                                        *)
THEOREM ApuTypeTheorem == ApuSpec => []ApuTypeOK
<1>1. ApuInv => ApuTypeOK
  <2> SUFFICES ASSUME ApuInv PROVE ApuTypeOK
    OBVIOUS
  <2>1. ChannelTyped /\ Unit \in SweepUnits /\ steady \in BOOLEAN
    BY DEF ApuInv, ChannelInv, SweepInv
  <2>2. /\ div_divider \in 0 .. 7 /\ skip_div_event \in {"INACTIVE", "SKIP", "SKIPPED"}
        /\ pulse_length \in 0 .. LengthMax
        /\ {global_enable, div_high, is_active, length_enabled, length_bit, delayed, rewritten}
               \subseteq BOOLEAN
    BY <2>1 DEF ChannelTyped
  <2>3. envelope.volume \in 0 .. 255 /\ envelope.countdown \in 0 .. 7
    BY <2>1 DEF ChannelTyped, Envelope
  <2>4. /\ Unit.length \in 0 .. MaxFrequency /\ Unit.shadow \in 0 .. MaxFrequency
        /\ Unit.addend \in 0 .. MaxFrequency
        /\ Unit.calculate \in 0 .. 7 /\ Unit.reload \in 0 .. 4 /\ Unit.hold \in 0 .. 4
        /\ Unit.countdown \in 0 .. 7 /\ Unit.active \in BOOLEAN
    <3> DEFINE u == Unit
    <3>1. u \in SweepUnits
      BY <2>1
    <3> HIDE DEF u
    <3>2. /\ u.length \in 0 .. MaxFrequency /\ u.shadow \in 0 .. MaxFrequency
          /\ u.addend \in 0 .. MaxFrequency
          /\ u.calculate \in 0 .. 7 /\ u.reload \in 0 .. 4 /\ u.hold \in 0 .. 4
          /\ u.countdown \in 0 .. 7 /\ u.active \in BOOLEAN
      BY <3>1 DEF SweepUnits
    <3> QED  BY <3>2 DEF u
  <2>5. /\ sample_length \in 0 .. MaxFrequency /\ shadow_sweep_sample_length \in 0 .. MaxFrequency
        /\ sweep_length_addend \in 0 .. MaxFrequency
        /\ calculate_countdown \in 0 .. 7 /\ reload_timer \in 0 .. 4 /\ restart_hold \in 0 .. 4
        /\ square_sweep_countdown \in 0 .. 7 /\ active \in BOOLEAN
    BY <2>4 DEF Unit
  <2> QED  BY <2>1, <2>2, <2>3, <2>5 DEF ApuTypeOK
<1> QED  BY <1>1, ApuAlways, PTL

(* A channel that plays has length left and its DAC on, its envelope never *)
(* leaves its four bits by itself, its length counts one kind of edge, and *)
(* its sweep comes to what a trigger and the clocks since should.          *)
THEOREM ChannelTheorem == ApuSpec => ChannelFollows
<1>1. ApuInv => Playable /\ EnvelopeSettles /\ SweepAgrees
  <2>1. ChannelInv => Playable /\ EnvelopeSettles
    BY DEF ChannelInv, EnvelopeSettles, Settled
  <2> QED  BY <2>1, FollowingAgrees DEF ApuInv
<1>2. ApuInv => [ /\ Fall \/ \E enable \in BOOLEAN : WriteNRx4(FALSE, enable)
                  /\ global_enable /\ skip_div_event = "INACTIVE"
                  /\ model = "CGB_B" => length_enabled'
                  => pulse_length' = IF ~LengthSignal /\ LengthSignal' /\ pulse_length # 0
                                     THEN pulse_length - 1 ELSE pulse_length ]_channelVars
  BY LengthCounted DEF ApuInv
<1>3. []ApuInv => LengthCountsEdges
  BY <1>2, PTL DEF LengthCountsEdges
<1> QED  BY <1>1, <1>3, ApuAlways, PTL DEF ChannelFollows
-----------------------------------------------------------------------------
(* The printer *)

Octets == 0 .. 255

(* The place after the run that begins at i, and what the run comes to. *)
After(data, i) ==
    IF data[i] < 128 THEN UpTo(data, i + data[i] + 1) + 1
    ELSE IF i = Len(data) THEN Len(data) + 1 ELSE i + 2

Run(data, i) ==
    IF data[i] < 128 THEN SubSeq(data, i + 1, UpTo(data, i + data[i] + 1))
    ELSE IF i = Len(data) THEN <<>>
    ELSE Repeated(data[i + 1], data[i] - 126)

From(data, from) ==
    [i \in 1 .. Len(data) + 2 |->
        IF i > Len(data) THEN <<>>
        ELSE IF data[i] < 128
        THEN SubSeq(data, i + 1, UpTo(data, i + data[i] + 1))
                 \o from[UpTo(data, i + data[i] + 1) + 1]
        ELSE IF i = Len(data) THEN <<>>
        ELSE Repeated(data[i + 1], data[i] - 126) \o from[i + 2]]

(* The equation of the runs, from the place k on. *)
Solves(data, from, k) ==
    /\ from \in [1 .. Len(data) + 2 -> Seq(Octets)]
    /\ \A i \in k .. Len(data) + 2 : from[i] = From(data, from)[i]

LEMMA RunsFromIsChosen == \A data : RunsFrom(data) = CHOOSE from : from = From(data, from)
  BY DEF RunsFrom, From

(* A run begins after the one before and its bytes are bytes. *)
LEMMA RunTyped ==
    ASSUME NEW data \in Seq(Octets), NEW i \in 1 .. Len(data)
    PROVE  /\ After(data, i) \in i + 1 .. Len(data) + 2
           /\ Run(data, i) \in Seq(Octets)
<1>0. Len(data) \in Nat /\ data[i] \in Octets
  OBVIOUS
<1>1. CASE data[i] < 128
  <2>1. UpTo(data, i + data[i] + 1) \in i .. Len(data)
    <3>1. \A l, b \in Nat : i <= l => (IF i + b + 1 < l THEN i + b + 1 ELSE l) \in i .. l
      OBVIOUS
    <3>2. \A b \in Octets : b \in Nat
      BY DEF Octets
    <3>3. data[i] \in Nat /\ i <= Len(data)
      BY <1>0, <3>2
    <3> QED  BY <1>0, <3>1, <3>3 DEF UpTo
  <2>2. After(data, i) \in i + 1 .. Len(data) + 2
    BY <1>0, <1>1, <2>1 DEF After
  <2>3. SubSeq(data, i + 1, UpTo(data, i + data[i] + 1)) \in Seq(Octets)
    <3> DEFINE n == UpTo(data, i + data[i] + 1)
    <3>1. n \in Int /\ n <= Len(data) /\ i + 1 \in Int /\ 1 <= i + 1
      BY <1>0, <2>1
    <3> HIDE DEF n
    <3>2. \A j \in i + 1 .. n : data[j] \in Octets
      BY <1>0, <3>1
    <3> QED  BY <3>1, <3>2, SubSeqProperties DEF n
  <2> QED  BY <1>1, <2>2, <2>3 DEF Run
<1>2. CASE ~(data[i] < 128) /\ i # Len(data)
  <2>1. data[i + 1] \in Octets /\ data[i] - 126 \in Nat
    <3>1. i + 1 \in 1 .. Len(data)
      BY <1>0, <1>2
    <3>2. data[i + 1] \in Octets
      BY <3>1
    <3>3. \A b \in Octets : ~(b < 128) => b - 126 \in Nat
      BY DEF Octets
    <3> QED  BY <1>0, <1>2, <3>2, <3>3
  <2>2. \A b \in Octets, n \in Nat : Repeated(b, n) \in Seq(Octets)
    BY DEF Repeated
  <2>3. Run(data, i) \in Seq(Octets)
    <3>1. Run(data, i) = Repeated(data[i + 1], data[i] - 126)
      BY <1>2 DEF Run
    <3> QED  BY <2>1, <2>2, <3>1, Zenon
  <2>4. After(data, i) = i + 2
    BY <1>2 DEF After
  <2> QED  BY <1>0, <1>2, <2>3, <2>4
<1>3. CASE ~(data[i] < 128) /\ i = Len(data)
  BY <1>0, <1>3 DEF After, Run
<1> QED  BY <1>1, <1>2, <1>3

(* The equation, by runs. *)
LEMMA FromIs ==
    ASSUME NEW data \in Seq(Octets), NEW f, f[Len(data) + 1] = <<>>, NEW i \in 1 .. Len(data)
    PROVE  From(data, f)[i] = Run(data, i) \o f[After(data, i)]
<1>1. i \in 1 .. Len(data) + 2 /\ ~(i > Len(data))
  OBVIOUS
<1>2. From(data, f)[i] =
          IF data[i] < 128
          THEN SubSeq(data, i + 1, UpTo(data, i + data[i] + 1))
                   \o f[UpTo(data, i + data[i] + 1) + 1]
          ELSE IF i = Len(data) THEN <<>>
          ELSE Repeated(data[i + 1], data[i] - 126) \o f[i + 2]
  BY <1>1 DEF From
<1>3. CASE data[i] < 128
  BY <1>2, <1>3 DEF Run, After
<1>4. CASE ~(data[i] < 128) /\ i = Len(data)
  <2>1. From(data, f)[i] = <<>>
    BY <1>2, <1>4
  <2>2. Run(data, i) = <<>> /\ f[After(data, i)] = <<>>
    BY <1>4 DEF Run, After
  <2>3. <<>> \o <<>> = <<>>
    OBVIOUS
  <2> QED  BY <2>1, <2>2, <2>3
<1>5. CASE ~(data[i] < 128) /\ i # Len(data)
  BY <1>2, <1>5 DEF Run, After
<1> QED  BY <1>3, <1>4, <1>5

LEMMA FromBeyond ==
    ASSUME NEW data \in Seq(Octets), NEW f, NEW i \in {Len(data) + 1, Len(data) + 2}
    PROVE  From(data, f)[i] = <<>>
<1>1. i \in 1 .. Len(data) + 2 /\ i > Len(data)
  OBVIOUS
<1> QED  BY <1>1 DEF From

LEMMA LeastPlace ==
    ASSUME NEW S, S \subseteq Nat, S # {}
    PROVE  \E x \in S : \A y \in S : x <= y
<1>1. PICK low \in S : \A y \in S : <<y, low>> \notin OpToRel(<, Nat)
  BY NatLessThanWellFounded, WFMin
<1>2. \A y \in S : ~(y < low)
  BY <1>1 DEF OpToRel
<1>3. \A y \in S : low <= y
  <2> SUFFICES ASSUME NEW y \in S PROVE low <= y
    OBVIOUS
  <2>1. y \in Nat /\ low \in Nat /\ ~(y < low)
    BY <1>2
  <2> QED  BY <2>1
<1> QED  BY <1>3

(* A solution from a place on can be changed to be one from the place      *)
(* before, so that there is one from the first.                            *)
LEMMA SolutionGrows ==
    ASSUME NEW data \in Seq(Octets), NEW k \in 1 .. Len(data), NEW f, Solves(data, f, k + 1)
    PROVE  \E g : Solves(data, g, k)
<1> DEFINE r == From(data, f)[k]
           g == [f EXCEPT ![k] = r]
<1>0. Len(data) \in Nat /\ k \in 1 .. Len(data) + 2 /\ k # Len(data) + 1
      /\ Len(data) + 1 \in k + 1 .. Len(data) + 2
  OBVIOUS
<1>1. /\ f \in [1 .. Len(data) + 2 -> Seq(Octets)]
      /\ \A i \in k + 1 .. Len(data) + 2 : f[i] = From(data, f)[i]
  BY DEF Solves
<1>2. f[Len(data) + 1] = <<>>
  BY <1>0, <1>1, FromBeyond
<1>3. r = Run(data, k) \o f[After(data, k)]
  BY <1>1, <1>2, FromIs
<1>4. r \in Seq(Octets)
  <2>1. Run(data, k) \in Seq(Octets) /\ After(data, k) \in 1 .. Len(data) + 2
    BY RunTyped
  <2>2. f[After(data, k)] \in Seq(Octets)
    BY <1>1, <2>1
  <2> QED  BY <1>3, <2>1, <2>2
<1>5. \A i \in 1 .. Len(data) + 2 : i # k => g[i] = f[i]
  BY <1>1
<1>6. g[k] = r
  BY <1>0, <1>1
<1>7. g \in [1 .. Len(data) + 2 -> Seq(Octets)]
  <2> HIDE DEF r
  <2> QED  BY <1>1, <1>4
<1> HIDE DEF r, g
<1>8. g[Len(data) + 1] = <<>>
  BY <1>0, <1>2, <1>5
<1>9. ASSUME NEW i \in k .. Len(data) + 2 PROVE g[i] = From(data, g)[i]
  <2>1. CASE i \in {Len(data) + 1, Len(data) + 2}
    <3>1. From(data, f)[i] = <<>> /\ From(data, g)[i] = <<>>
      BY <2>1, FromBeyond
    <3>2. i \in 1 .. Len(data) + 2 /\ i # k /\ i \in k + 1 .. Len(data) + 2
      BY <2>1
    <3> QED  BY <1>1, <1>5, <3>1, <3>2
  <2>2. CASE i \in 1 .. Len(data)
    <3>1. From(data, g)[i] = Run(data, i) \o g[After(data, i)]
      BY <1>7, <1>8, <2>2, FromIs
    <3>2. From(data, f)[i] = Run(data, i) \o f[After(data, i)]
      BY <1>1, <1>2, <2>2, FromIs
    <3>3. After(data, i) \in i + 1 .. Len(data) + 2
      BY <2>2, RunTyped
    <3>4. After(data, i) \in 1 .. Len(data) + 2 /\ After(data, i) # k
      BY <2>2, <3>3
    <3>5. g[After(data, i)] = f[After(data, i)]
      BY <1>5, <3>4
    <3>6. CASE i = k
      BY <1>3, <1>6, <3>1, <3>2, <3>5, <3>6
    <3>7. CASE i # k
      <4>1. i \in k + 1 .. Len(data) + 2 /\ i \in 1 .. Len(data) + 2
        BY <2>2, <3>7
      <4> QED  BY <1>1, <1>5, <3>1, <3>2, <3>5, <3>7, <4>1
    <3> QED  BY <3>6, <3>7
  <2> QED  BY <2>1, <2>2
<1> QED  BY <1>7, <1>9 DEF Solves

LEMMA SolutionExists ==
    ASSUME NEW data \in Seq(Octets)
    PROVE  \E f : Solves(data, f, 1)
<1> DEFINE S == {k \in 1 .. Len(data) + 1 : \E f : Solves(data, f, k)}
<1>0. Len(data) \in Nat
  OBVIOUS
<1>1. Len(data) + 1 \in S
  <2> DEFINE f == [i \in 1 .. Len(data) + 2 |-> <<>>]
  <2>1. f \in [1 .. Len(data) + 2 -> Seq(Octets)]
    OBVIOUS
  <2>2. \A i \in {Len(data) + 1, Len(data) + 2} : f[i] = From(data, f)[i]
    <3>1. \A i \in {Len(data) + 1, Len(data) + 2} : f[i] = <<>>
      OBVIOUS
    <3> HIDE DEF f
    <3> QED  BY <3>1, FromBeyond
  <2>3. Len(data) + 1 .. Len(data) + 2 = {Len(data) + 1, Len(data) + 2}
    BY <1>0
  <2> HIDE DEF f
  <2>4. Solves(data, f, Len(data) + 1)
    BY <2>1, <2>2, <2>3 DEF Solves
  <2> QED  BY <1>0, <2>4
<1>2. S \subseteq Nat
  BY <1>0
<1>3. PICK m \in S : \A y \in S : m <= y
  <2> HIDE DEF S
  <2> QED  BY <1>1, <1>2, LeastPlace
<1>4. m = 1
  <2> SUFFICES ASSUME m # 1 PROVE FALSE
    OBVIOUS
  <2> DEFINE k == m - 1
  <2>1. k \in 1 .. Len(data) /\ k + 1 = m /\ ~(m <= k) /\ k \in 1 .. Len(data) + 1
    BY <1>0
  <2> HIDE DEF k
  <2>2. PICK f : Solves(data, f, k + 1)
    BY <2>1
  <2>3. \E g : Solves(data, g, k)
    BY <2>1, <2>2, SolutionGrows
  <2>4. k \in S
    BY <2>1, <2>3
  <2> QED  BY <1>3, <2>1, <2>4
<1> QED  BY <1>4

(* What Runs is, from each place on. *)
LEMMA RunsFromSolves ==
    ASSUME NEW data \in Seq(Octets)
    PROVE  /\ RunsFrom(data) \in [1 .. Len(data) + 2 -> Seq(Octets)]
           /\ RunsFrom(data)[Len(data) + 1] = <<>>
           /\ \A i \in 1 .. Len(data) :
                  RunsFrom(data)[i] = Run(data, i) \o RunsFrom(data)[After(data, i)]
<1>1. PICK f : Solves(data, f, 1)
  BY SolutionExists
<1>2. f \in [1 .. Len(data) + 2 -> Seq(Octets)]
  BY <1>1 DEF Solves
<1>3. f = From(data, f)
  <2>1. \A i \in 1 .. Len(data) + 2 : f[i] = From(data, f)[i]
    BY <1>1 DEF Solves
  <2>2. From(data, f) = [i \in 1 .. Len(data) + 2 |-> From(data, f)[i]]
    BY DEF From
  <2>3. f = [i \in 1 .. Len(data) + 2 |-> f[i]]
    BY <1>2
  <2> QED  BY <2>1, <2>2, <2>3
<1> DEFINE c == RunsFrom(data)
<1>4. c = From(data, c)
  <2>1. \E from : from = From(data, from)
    BY <1>3
  <2>2. c = CHOOSE from : from = From(data, from)
    BY RunsFromIsChosen
  <2> HIDE DEF c
  <2> QED  BY <2>1, <2>2, Zenon
<1> HIDE DEF c
<1>5. DOMAIN c = 1 .. Len(data) + 2 /\ c = [i \in 1 .. Len(data) + 2 |-> c[i]]
  <2>1. DOMAIN From(data, c) = 1 .. Len(data) + 2
    BY DEF From
  <2>2. From(data, c) = [i \in 1 .. Len(data) + 2 |-> From(data, c)[i]]
    BY DEF From
  <2> QED  BY <1>4, <2>1, <2>2
<1>6. \A i \in {Len(data) + 1, Len(data) + 2} : c[i] = <<>>
  BY <1>4, FromBeyond
<1>7. c[Len(data) + 1] = <<>>
  BY <1>6
<1>8. \A i \in 1 .. Len(data) : c[i] = Run(data, i) \o c[After(data, i)]
  BY <1>4, <1>7, FromIs
<1> DEFINE S == {k \in 1 .. Len(data) + 1 : \A i \in k .. Len(data) + 2 : c[i] \in Seq(Octets)}
<1>9. Len(data) \in Nat
  OBVIOUS
<1>10. Len(data) + 1 \in S
  <2>1. \A i \in Len(data) + 1 .. Len(data) + 2 : i \in {Len(data) + 1, Len(data) + 2}
    BY <1>9
  <2>2. <<>> \in Seq(Octets)
    OBVIOUS
  <2>3. \A i \in Len(data) + 1 .. Len(data) + 2 : c[i] \in Seq(Octets)
    <3> SUFFICES ASSUME NEW i \in Len(data) + 1 .. Len(data) + 2 PROVE c[i] \in Seq(Octets)
      OBVIOUS
    <3>1. c[i] = <<>>
      BY <1>6, <2>1
    <3> QED  BY <2>2, <3>1
  <2>4. Len(data) + 1 \in 1 .. Len(data) + 1
    BY <1>9
  <2> QED  BY <2>3, <2>4
<1>11. PICK m \in S : \A y \in S : m <= y
  <2>1. S \subseteq Nat
    BY <1>9
  <2> HIDE DEF S
  <2> QED  BY <1>10, <2>1, LeastPlace
<1>12. m = 1
  <2> SUFFICES ASSUME m # 1 PROVE FALSE
    OBVIOUS
  <2> DEFINE k == m - 1
  <2>1. k \in 1 .. Len(data) /\ k + 1 = m /\ ~(m <= k) /\ k \in 1 .. Len(data) + 1
    BY <1>9
  <2> HIDE DEF k
  <2>2. \A i \in k + 1 .. Len(data) + 2 : c[i] \in Seq(Octets)
    BY <2>1
  <2>3. Run(data, k) \in Seq(Octets) /\ After(data, k) \in k + 1 .. Len(data) + 2
    BY <2>1, RunTyped
  <2>4. c[After(data, k)] \in Seq(Octets) /\ c[k] = Run(data, k) \o c[After(data, k)]
    BY <1>8, <2>1, <2>2, <2>3
  <2>5. c[k] \in Seq(Octets)
    BY <2>3, <2>4
  <2>6. \A i \in k .. Len(data) + 2 : i = k \/ i \in k + 1 .. Len(data) + 2
    BY <1>9, <2>1
  <2>7. k \in S
    BY <2>1, <2>2, <2>5, <2>6
  <2> QED  BY <1>11, <2>1, <2>7
<1>13. \A i \in 1 .. Len(data) + 2 : c[i] \in Seq(Octets)
  BY <1>12
<1>14. c \in [1 .. Len(data) + 2 -> Seq(Octets)]
  BY <1>5, <1>13
<1> QED  BY <1>7, <1>8, <1>14 DEF c

-----------------------------------------------------------------------------
(* What is left of the data q after its first n bytes, of which a decoder  *)
(* remembers the length of the run it is in and whether it repeats.        *)
Left(q, n, length, repeats) ==
    IF length = 0 THEN RunsFrom(q)[n + 1]
    ELSE IF repeats THEN RunsFrom(q)[n]
    ELSE SubSeq(q, n + 1, UpTo(q, n + length)) \o RunsFrom(q)[UpTo(q, n + length) + 1]

LEMMA UpToBounds ==
    ASSUME NEW q \in Seq(Octets), NEW n \in 0 .. Len(q), NEW length \in Nat
    PROVE  UpTo(q, n + length) \in n .. Len(q)
<1>1. \A l \in Nat : n <= l => (IF n + length < l THEN n + length ELSE l) \in n .. l
  OBVIOUS
<1>2. Len(q) \in Nat /\ n <= Len(q)
  OBVIOUS
<1> QED  BY <1>1, <1>2 DEF UpTo

LEMMA PartTyped ==
    ASSUME NEW q \in Seq(Octets), NEW m \in Nat \ {0}, NEW n \in 0 .. Len(q)
    PROVE  SubSeq(q, m, n) \in Seq(Octets)
<1>1. \A i \in m .. n : q[i] \in Octets
  BY ElementOfSeq
<1> QED  BY <1>1, SubSeqProperties

LEMMA LeftTyped ==
    ASSUME NEW q \in Seq(Octets), NEW n \in 0 .. Len(q), NEW length \in Nat,
           NEW repeats, length # 0 /\ repeats => n >= 1
    PROVE  Left(q, n, length, repeats) \in Seq(Octets)
<1>0. RunsFrom(q) \in [1 .. Len(q) + 2 -> Seq(Octets)] /\ Len(q) \in Nat
  BY RunsFromSolves
<1>1. CASE length = 0
  <2>1. n + 1 \in 1 .. Len(q) + 2
    BY <1>0
  <2> QED  BY <1>0, <1>1, <2>1 DEF Left
<1>2. CASE length # 0 /\ repeats
  <2>1. n \in 1 .. Len(q) + 2
    BY <1>0, <1>2
  <2> QED  BY <1>0, <1>2, <2>1 DEF Left
<1>3. CASE length # 0 /\ ~repeats
  <2> DEFINE m == UpTo(q, n + length)
  <2>1. m \in n .. Len(q)
    BY UpToBounds
  <2>2. m \in 0 .. Len(q) /\ m + 1 \in 1 .. Len(q) + 2 /\ n + 1 \in Nat \ {0}
    BY <1>0, <2>1
  <2> HIDE DEF m
  <2>3. SubSeq(q, n + 1, m) \in Seq(Octets) /\ RunsFrom(q)[m + 1] \in Seq(Octets)
    BY <1>0, <2>2, PartTyped
  <2>4. Left(q, n, length, repeats) = SubSeq(q, n + 1, m) \o RunsFrom(q)[m + 1]
    BY <1>3 DEF Left, m
  <2> QED  BY <2>3, <2>4
<1> QED  BY <1>1, <1>2, <1>3

(* A byte that begins a run yields nothing yet. *)
LEMMA LeftAtHeader ==
    ASSUME NEW q \in Seq(Octets), NEW n \in Nat, n + 1 <= Len(q), NEW repeats
    PROVE  Left(q, n, 0, repeats) = Left(q, n + 1, RunLength(q[n + 1]), q[n + 1] >= 128)
<1> DEFINE b == q[n + 1]
<1>0. n + 1 \in 1 .. Len(q) /\ b \in Octets
  BY ElementOfSeq
<1>1. Left(q, n, 0, repeats) = RunsFrom(q)[n + 1]
  BY DEF Left
<1> HIDE DEF b
<1>2. CASE b >= 128
  <2>1. RunLength(b) # 0
    BY <1>0, <1>2 DEF RunLength, Octets
  <2> QED  BY <1>1, <1>2, <2>1 DEF Left, b
<1>3. CASE ~(b >= 128)
  <2>1. b < 128 /\ RunLength(b) = b + 1 /\ RunLength(b) # 0 /\ b \in Nat
    BY <1>0, <1>3 DEF RunLength, Octets
  <2>2. n + 1 + b + 1 = n + 1 + RunLength(b)
    BY <2>1
  <2>3. RunsFrom(q)[n + 1] = Run(q, n + 1) \o RunsFrom(q)[After(q, n + 1)]
    BY <1>0, RunsFromSolves
  <2>4. /\ Run(q, n + 1) = SubSeq(q, n + 1 + 1, UpTo(q, n + 1 + b + 1))
        /\ After(q, n + 1) = UpTo(q, n + 1 + b + 1) + 1
    BY <2>1 DEF Run, After, b
  <2>5. Left(q, n + 1, RunLength(b), b >= 128) =
            SubSeq(q, n + 1 + 1, UpTo(q, n + 1 + RunLength(b)))
                \o RunsFrom(q)[UpTo(q, n + 1 + RunLength(b)) + 1]
    BY <1>3, <2>1 DEF Left
  <2> QED  BY <1>1, <2>2, <2>3, <2>4, <2>5 DEF b
<1> QED  BY <1>2, <1>3

(* The byte that is repeated ends its run. *)
LEMMA LeftAtRepeated ==
    ASSUME NEW q \in Seq(Octets), NEW n \in Nat \ {0}, n + 1 <= Len(q), q[n] >= 128
    PROVE  /\ q[n] - 126 \in Nat \ {0}
           /\ Left(q, n, q[n] - 126, TRUE) =
                  Repeated(q[n + 1], q[n] - 126) \o Left(q, n + 1, 0, TRUE)
<1>0. n \in 1 .. Len(q) /\ q[n] \in Octets /\ n # Len(q)
  BY ElementOfSeq
<1>1. \A b \in Octets : b >= 128 => ~(b < 128) /\ b - 126 \in Nat \ {0} /\ b - 126 # 0
  BY DEF Octets
<1>2. ~(q[n] < 128) /\ q[n] - 126 \in Nat \ {0} /\ q[n] - 126 # 0
  BY <1>0, <1>1
<1>3. RunsFrom(q)[n] = Run(q, n) \o RunsFrom(q)[After(q, n)]
  BY <1>0, RunsFromSolves
<1>4. Run(q, n) = Repeated(q[n + 1], q[n] - 126) /\ After(q, n) = n + 2
  BY <1>0, <1>2 DEF Run, After
<1>5. Left(q, n, q[n] - 126, TRUE) = RunsFrom(q)[n]
  BY <1>2 DEF Left
<1>6. Left(q, n + 1, 0, TRUE) = RunsFrom(q)[n + 2]
  <2>1. n + 1 + 1 = n + 2
    OBVIOUS
  <2> QED  BY <2>1 DEF Left
<1> QED  BY <1>2, <1>3, <1>4, <1>5, <1>6

(* A byte of a run of different ones is itself. *)
LEMMA LeftAtLiteral ==
    ASSUME NEW q \in Seq(Octets), NEW n \in Nat, n + 1 <= Len(q), NEW length \in Nat \ {0}
    PROVE  Left(q, n, length, FALSE) = <<q[n + 1]>> \o Left(q, n + 1, length - 1, FALSE)
<1> DEFINE m == UpTo(q, n + length)
           r == RunsFrom(q)[m + 1]
<1>0. /\ n \in 0 .. Len(q) /\ n + 1 \in 0 .. Len(q) /\ length - 1 \in Nat /\ Len(q) \in Nat
      /\ n + 1 + (length - 1) = n + length /\ length # 0
  OBVIOUS
<1>1. m \in n + 1 .. Len(q)
  <2>1. UpTo(q, n + 1 + (length - 1)) \in n + 1 .. Len(q)
    BY <1>0, UpToBounds
  <2> QED  BY <1>0, <2>1
<1>2. Left(q, n, length, FALSE) = SubSeq(q, n + 1, m) \o r
  BY <1>0 DEF Left
<1> HIDE DEF m
<1>3. r \in Seq(Octets)
  <2>1. RunsFrom(q) \in [1 .. Len(q) + 2 -> Seq(Octets)]
    BY RunsFromSolves
  <2>2. m + 1 \in 1 .. Len(q) + 2
    BY <1>0, <1>1
  <2> QED  BY <2>1, <2>2
<1> HIDE DEF r
<1>4. SubSeq(q, n + 1, m) = <<q[n + 1]>> \o SubSeq(q, n + 1 + 1, m)
  <2>1. n + 1 \in 1 .. Len(q)
    BY <1>0
  <2> QED  BY <1>1, <2>1, SubSeqRecursiveFirst
<1>5. SubSeq(q, n + 1 + 1, m) \in Seq(Octets) /\ <<q[n + 1]>> \in Seq(Octets)
  <2>1. m \in 0 .. Len(q) /\ n + 1 + 1 \in Nat \ {0}
    BY <1>0, <1>1
  <2>2. q[n + 1] \in Octets
    BY <1>0, ElementOfSeq
  <2> QED  BY <2>1, <2>2, PartTyped
<1>6. Left(q, n, length, FALSE) = <<q[n + 1]>> \o (SubSeq(q, n + 1 + 1, m) \o r)
  <2>1. \A s, t, u \in Seq(Octets) : (s \o t) \o u = s \o (t \o u)
    BY ConcatAssociative
  <2>2. (<<q[n + 1]>> \o SubSeq(q, n + 1 + 1, m)) \o r =
            <<q[n + 1]>> \o (SubSeq(q, n + 1 + 1, m) \o r)
    BY <1>3, <1>5, <2>1, Zenon
  <2> QED  BY <1>2, <1>4, <2>2, Zenon
<1>7. Left(q, n + 1, length - 1, FALSE) = SubSeq(q, n + 1 + 1, m) \o r
  <2>1. CASE length - 1 # 0
    BY <1>0, <2>1 DEF Left, m, r
  <2>2. CASE length - 1 = 0
    <3>1. m = n + 1
      <4>1. n + length = n + 1
        BY <2>2
      <4> QED  BY <1>0, <1>1, <4>1 DEF UpTo, m
    <3>2. SubSeq(q, n + 1 + 1, m) = <<>>
      BY <1>0, <3>1, SubSeqEmpty
    <3>3. SubSeq(q, n + 1 + 1, m) \o r = r
      BY <1>3, <3>2, ConcatEmptySeq
    <3>4. Left(q, n + 1, length - 1, FALSE) = RunsFrom(q)[n + 1 + 1]
      BY <2>2 DEF Left
    <3> QED  BY <3>1, <3>3, <3>4 DEF r
  <2> QED  BY <2>1, <2>2
<1> QED  BY <1>6, <1>7

(* At the end of the data nothing is left. *)
LEMMA NothingLeftAtEnd ==
    ASSUME NEW p \in Seq(Octets), NEW length \in Nat, NEW repeats,
           length # 0 /\ repeats => Len(p) >= 1 /\ p[Len(p)] >= 128
    PROVE  Left(p, Len(p), length, repeats) = <<>>
<1>0. Len(p) \in Nat /\ RunsFrom(p)[Len(p) + 1] = <<>> /\ <<>> \o <<>> = <<>>
  BY RunsFromSolves
<1>1. CASE length = 0
  BY <1>0, <1>1 DEF Left
<1>2. CASE length # 0 /\ repeats
  <2>1. Len(p) \in 1 .. Len(p) /\ p[Len(p)] \in Octets
    BY <1>0, <1>2, ElementOfSeq
  <2>2. \A b \in Octets : b >= 128 => ~(b < 128)
    BY DEF Octets
  <2>3. ~(p[Len(p)] < 128)
    BY <1>2, <2>1, <2>2
  <2>4. RunsFrom(p)[Len(p)] = Run(p, Len(p)) \o RunsFrom(p)[After(p, Len(p))]
    BY <2>1, RunsFromSolves
  <2>5. Run(p, Len(p)) = <<>> /\ After(p, Len(p)) = Len(p) + 1
    BY <2>3 DEF Run, After
  <2> QED  BY <1>0, <1>2, <2>4, <2>5 DEF Left
<1>3. CASE length # 0 /\ ~repeats
  <2>1. UpTo(p, Len(p) + length) = Len(p)
    <3>1. ~(Len(p) + length < Len(p))
      BY <1>0
    <3> QED  BY <3>1 DEF UpTo
  <2>2. SubSeq(p, Len(p) + 1, Len(p)) = <<>>
    BY <1>0, SubSeqEmpty
  <2> QED  BY <1>0, <1>3, <2>1, <2>2 DEF Left
<1> QED  BY <1>1, <1>2, <1>3

(* What the bytes p of a packet with compression have come to: whatever    *)
(* bytes follow, the runs of them all are what is decoded and what is      *)
(* left.                                                                   *)
Extends(q, p) ==
    /\ q \in Seq(Octets) /\ Len(p) <= Len(q)
    /\ \A i \in 1 .. Len(p) : q[i] = p[i]

CompressedSoFar(p, data, length, repeats) ==
    /\ \A q : Extends(q, p) =>
           IF Len(data) = DATA_SIZE THEN \E rest \in Seq(Octets) : Runs(q) = data \o rest
           ELSE Runs(q) = data \o Left(q, Len(p), length, repeats)
    /\ Len(data) # DATA_SIZE /\ length # 0 /\ repeats =>
           Len(p) >= 1 /\ p[Len(p)] >= 128 /\ length = p[Len(p)] - 126

LEMMA AppendedExtends ==
    ASSUME NEW p \in Seq(Octets), NEW byte \in Octets, NEW q, Extends(q, Append(p, byte))
    PROVE  /\ Extends(q, p) /\ q \in Seq(Octets)
           /\ Len(p) \in Nat /\ Len(p) + 1 <= Len(q) /\ q[Len(p) + 1] = byte
           /\ Len(Append(p, byte)) = Len(p) + 1
<1>1. /\ Len(Append(p, byte)) = Len(p) + 1 /\ Len(p) \in Nat
      /\ Append(p, byte)[Len(p) + 1] = byte
      /\ \A i \in 1 .. Len(p) : Append(p, byte)[i] = p[i]
  BY AppendProperties
<1>2. /\ q \in Seq(Octets) /\ Len(Append(p, byte)) <= Len(q)
      /\ \A i \in 1 .. Len(Append(p, byte)) : q[i] = Append(p, byte)[i]
  BY DEF Extends
<1>3. Len(q) \in Nat
  BY <1>2
<1>4. Len(p) <= Len(q) /\ Len(p) + 1 <= Len(q)
  BY <1>1, <1>2, <1>3
<1>5. \A i \in 1 .. Len(p) : i \in 1 .. Len(p) + 1
  BY <1>1
<1>6. \A i \in 1 .. Len(p) : q[i] = p[i]
  BY <1>1, <1>2, <1>5
<1>7. q[Len(p) + 1] = byte
  <2>1. Len(p) + 1 \in 1 .. Len(p) + 1
    BY <1>1
  <2> QED  BY <1>1, <1>2, <2>1
<1> QED  BY <1>1, <1>2, <1>4, <1>6, <1>7 DEF Extends

LEMMA Regrouped == \A s, t, u \in Seq(Octets) : s \o (t \o u) = (s \o t) \o u
  BY ConcatAssociative

LEMMA RepeatedTyped ==
    \A byte \in Octets, n \in Nat : Repeated(byte, n) \in Seq(Octets) /\ Len(Repeated(byte, n)) = n
  BY DEF Repeated

LEMMA RepeatedSplits ==
    ASSUME NEW byte \in Octets, NEW m \in Nat, NEW n \in Nat, m <= n
    PROVE  Repeated(byte, n) = Repeated(byte, m) \o Repeated(byte, n - m)
<1>1. n - m \in Nat /\ m + (n - m) = n
  OBVIOUS
<1> QED  BY <1>1 DEF Repeated

(* Once the data is full nothing is added to it. *)
LEMMA FullStep ==
    ASSUME NEW p \in Seq(Octets), NEW byte \in Octets, NEW data \in Seq(Octets),
           NEW length \in Nat, NEW repeats, Len(data) = DATA_SIZE,
           CompressedSoFar(p, data, length, repeats)
    PROVE  CompressedSoFar(Append(p, byte), data, length, repeats)
<1>1. \A q : Extends(q, p) => \E rest \in Seq(Octets) : Runs(q) = data \o rest
  BY DEF CompressedSoFar
<1>2. \A q : Extends(q, Append(p, byte)) => Extends(q, p)
  BY AppendedExtends
<1>3. \A q : Extends(q, Append(p, byte)) => \E rest \in Seq(Octets) : Runs(q) = data \o rest
  BY <1>1, <1>2
<1> QED  BY <1>3 DEF CompressedSoFar

(* A byte that begins a run. *)
LEMMA HeaderStep ==
    ASSUME NEW p \in Seq(Octets), NEW byte \in Octets, NEW data \in Seq(Octets),
           NEW repeats, Len(data) # DATA_SIZE,
           CompressedSoFar(p, data, 0, repeats)
    PROVE  CompressedSoFar(Append(p, byte), data, RunLength(byte), byte >= 128)
<1>1. \A q : Extends(q, p) => Runs(q) = data \o Left(q, Len(p), 0, repeats)
  BY DEF CompressedSoFar
<1>2. ASSUME NEW q, Extends(q, Append(p, byte))
      PROVE  Runs(q) = data \o Left(q, Len(Append(p, byte)), RunLength(byte), byte >= 128)
  <2>1. /\ Extends(q, p) /\ q \in Seq(Octets)
        /\ Len(p) \in Nat /\ Len(p) + 1 <= Len(q) /\ q[Len(p) + 1] = byte
        /\ Len(Append(p, byte)) = Len(p) + 1
    BY <1>2, AppendedExtends
  <2>2. Left(q, Len(p), 0, repeats) =
            Left(q, Len(p) + 1, RunLength(q[Len(p) + 1]), q[Len(p) + 1] >= 128)
    BY <2>1, LeftAtHeader
  <2> QED  BY <1>1, <2>1, <2>2
<1>3. ASSUME byte >= 128
      PROVE  /\ Len(Append(p, byte)) >= 1
             /\ Append(p, byte)[Len(Append(p, byte))] = byte
             /\ RunLength(byte) = byte - 126
  <2>1. Len(Append(p, byte)) = Len(p) + 1 /\ Len(p) \in Nat /\ Append(p, byte)[Len(p) + 1] = byte
    BY AppendProperties
  <2>2. RunLength(byte) = byte - 126
    <3>1. byte \in 128 .. 255
      BY <1>3 DEF Octets
    <3>2. \A b \in 128 .. 255 : b % 128 = b - 128
      OBVIOUS
    <3>3. byte % 128 = byte - 128
      BY <3>1, <3>2
    <3> QED  BY <1>3, <3>1, <3>3 DEF RunLength
  <2> QED  BY <2>1, <2>2
<1> QED  BY <1>2, <1>3 DEF CompressedSoFar

(* The byte that is repeated, as often as there is room for. *)
LEMMA RepeatedStep ==
    ASSUME NEW p \in Seq(Octets), NEW byte \in Octets, NEW data \in Seq(Octets),
           NEW length \in Nat, length # 0, Len(data) < DATA_SIZE,
           CompressedSoFar(p, data, length, TRUE), DATA_SIZE \in Nat,
           NEW room, room = DATA_SIZE - Len(data),
           NEW n, n = IF length < room THEN length ELSE room
    PROVE  CompressedSoFar(Append(p, byte), data \o Repeated(byte, n), 0, TRUE)
<1>0. /\ Len(data) \in Nat /\ Len(data) # DATA_SIZE /\ room \in Nat /\ n \in Nat
      /\ n <= length /\ length - n \in Nat
  OBVIOUS
<1>1. \A q : Extends(q, p) => Runs(q) = data \o Left(q, Len(p), length, TRUE)
  BY <1>0 DEF CompressedSoFar
<1>2. Len(p) >= 1 /\ p[Len(p)] >= 128 /\ length = p[Len(p)] - 126 /\ Len(p) \in Nat
  BY <1>0 DEF CompressedSoFar
<1> DEFINE more == data \o Repeated(byte, n)
<1>3. Repeated(byte, n) \in Seq(Octets) /\ Len(Repeated(byte, n)) = n
  BY <1>0, RepeatedTyped
<1>4. more \in Seq(Octets) /\ Len(more) = Len(data) + n
  BY <1>3
<1> HIDE DEF more
<1>5. ASSUME NEW q, Extends(q, Append(p, byte))
      PROVE  /\ q \in Seq(Octets) /\ Len(Append(p, byte)) = Len(p) + 1
             /\ Left(q, Len(p) + 1, 0, TRUE) \in Seq(Octets)
             /\ Runs(q) = data \o (Repeated(byte, length) \o Left(q, Len(p) + 1, 0, TRUE))
  <2>1. /\ Extends(q, p) /\ q \in Seq(Octets)
        /\ Len(p) \in Nat /\ Len(p) + 1 <= Len(q) /\ q[Len(p) + 1] = byte
        /\ Len(Append(p, byte)) = Len(p) + 1
    BY <1>5, AppendedExtends
  <2>2. q[Len(p)] = p[Len(p)]
    <3>1. Len(p) \in 1 .. Len(p)
      BY <1>2
    <3> QED  BY <2>1, <3>1 DEF Extends
  <2>3. q[Len(p)] >= 128 /\ Len(p) \in Nat \ {0} /\ length = q[Len(p)] - 126
    BY <1>2, <2>2
  <2>4. Left(q, Len(p), length, TRUE) =
            Repeated(byte, length) \o Left(q, Len(p) + 1, 0, TRUE)
    BY <2>1, <2>3, LeftAtRepeated
  <2>5. Left(q, Len(p) + 1, 0, TRUE) \in Seq(Octets)
    <3>1. Len(p) + 1 \in 0 .. Len(q) /\ 0 \in Nat
      BY <2>1
    <3> QED  BY <2>1, <3>1, LeftTyped
  <2> QED  BY <1>1, <2>1, <2>4, <2>5
<1>6. ASSUME NEW q, Extends(q, Append(p, byte))
      PROVE  Runs(q) = more \o (Repeated(byte, length - n) \o Left(q, Len(p) + 1, 0, TRUE))
             /\ (Repeated(byte, length - n) \o Left(q, Len(p) + 1, 0, TRUE)) \in Seq(Octets)
  <2> DEFINE a == Repeated(byte, n)
             b == Repeated(byte, length - n)
             c == Left(q, Len(p) + 1, 0, TRUE)
  <2>1. Repeated(byte, length) = a \o b
    BY <1>0, RepeatedSplits
  <2>2. a \in Seq(Octets) /\ b \in Seq(Octets)
    BY <1>0, RepeatedTyped
  <2>3. c \in Seq(Octets) /\ Runs(q) = data \o (Repeated(byte, length) \o c)
    BY <1>5, <1>6
  <2>4. more = data \o a
    BY DEF more
  <2> HIDE DEF a, b, c
  <2>5. b \o c \in Seq(Octets)
    BY <2>2, <2>3
  <2>6. (a \o b) \o c = a \o (b \o c)
    BY <2>2, <2>3, Regrouped, Zenon
  <2>7. data \o (a \o (b \o c)) = (data \o a) \o (b \o c)
    BY <2>2, <2>5, Regrouped, Zenon
  <2>8. Runs(q) = more \o (b \o c)
    BY <2>1, <2>3, <2>4, <2>6, <2>7, Zenon
  <2> QED  BY <2>5, <2>8 DEF b, c
<1>7. ASSUME NEW q, Extends(q, Append(p, byte))
      PROVE  IF Len(more) = DATA_SIZE THEN \E rest \in Seq(Octets) : Runs(q) = more \o rest
             ELSE Runs(q) = more \o Left(q, Len(Append(p, byte)), 0, TRUE)
  <2>1. CASE Len(more) = DATA_SIZE
    BY <1>6, <1>7, <2>1
  <2>2. CASE Len(more) # DATA_SIZE
    <3>1. n = length
      BY <1>0, <1>4, <2>2
    <3>2. Repeated(byte, length - n) = <<>>
      BY <1>0, <3>1 DEF Repeated
    <3>3. Left(q, Len(p) + 1, 0, TRUE) \in Seq(Octets) /\ Len(Append(p, byte)) = Len(p) + 1
      BY <1>5, <1>7
    <3>4. Repeated(byte, length - n) \o Left(q, Len(p) + 1, 0, TRUE) = Left(q, Len(p) + 1, 0, TRUE)
      BY <3>2, <3>3, ConcatEmptySeq
    <3> QED  BY <1>6, <1>7, <2>2, <3>3, <3>4
  <2> QED  BY <2>1, <2>2
<1> QED  BY <1>7 DEF CompressedSoFar, more

(* A byte of a run of different ones. *)
LEMMA LiteralStep ==
    ASSUME NEW p \in Seq(Octets), NEW byte \in Octets, NEW data \in Seq(Octets),
           NEW length \in Nat, length # 0, Len(data) < DATA_SIZE,
           CompressedSoFar(p, data, length, FALSE), DATA_SIZE \in Nat
    PROVE  CompressedSoFar(Append(p, byte), Append(data, byte), length - 1, FALSE)
<1>0. Len(data) \in Nat /\ Len(data) # DATA_SIZE /\ length \in Nat \ {0} /\ length - 1 \in Nat
  OBVIOUS
<1>1. \A q : Extends(q, p) => Runs(q) = data \o Left(q, Len(p), length, FALSE)
  BY <1>0 DEF CompressedSoFar
<1>2. Append(data, byte) = data \o <<byte>> /\ <<byte>> \in Seq(Octets)
  OBVIOUS
<1>3. ASSUME NEW q, Extends(q, Append(p, byte))
      PROVE  /\ Left(q, Len(p) + 1, length - 1, FALSE) \in Seq(Octets)
             /\ Runs(q) = Append(data, byte) \o Left(q, Len(p) + 1, length - 1, FALSE)
             /\ Len(Append(p, byte)) = Len(p) + 1
  <2>1. /\ Extends(q, p) /\ q \in Seq(Octets)
        /\ Len(p) \in Nat /\ Len(p) + 1 <= Len(q) /\ q[Len(p) + 1] = byte
        /\ Len(Append(p, byte)) = Len(p) + 1
    BY <1>3, AppendedExtends
  <2> DEFINE c == Left(q, Len(p) + 1, length - 1, FALSE)
  <2>2. Left(q, Len(p), length, FALSE) = <<byte>> \o c
    BY <1>0, <2>1, LeftAtLiteral
  <2>3. c \in Seq(Octets)
    <3>1. Len(p) + 1 \in 0 .. Len(q)
      BY <2>1
    <3> QED  BY <1>0, <2>1, <3>1, LeftTyped
  <2> HIDE DEF c
  <2>4. data \o (<<byte>> \o c) = (data \o <<byte>>) \o c
    BY <1>2, <2>3, Regrouped, Zenon
  <2>5. Runs(q) = Append(data, byte) \o c
    BY <1>1, <1>2, <2>1, <2>2, <2>4, Zenon
  <2> QED  BY <2>1, <2>3, <2>5 DEF c
<1>4. ASSUME NEW q, Extends(q, Append(p, byte))
      PROVE  IF Len(Append(data, byte)) = DATA_SIZE
             THEN \E rest \in Seq(Octets) : Runs(q) = Append(data, byte) \o rest
             ELSE Runs(q) = Append(data, byte) \o Left(q, Len(Append(p, byte)), length - 1, FALSE)
  <2>1. /\ Left(q, Len(p) + 1, length - 1, FALSE) \in Seq(Octets)
        /\ Runs(q) = Append(data, byte) \o Left(q, Len(p) + 1, length - 1, FALSE)
        /\ Len(Append(p, byte)) = Len(p) + 1
    BY <1>3, <1>4
  <2> QED  BY <2>1, Zenon
<1> QED  BY <1>4 DEF CompressedSoFar

(* At the end of the data it is what the runs come to, as much of it as    *)
(* there is room for.                                                      *)
LEMMA CompressedEnds ==
    ASSUME NEW p \in Seq(Octets), NEW data \in Seq(Octets), NEW length \in Nat,
           NEW repeats, CompressedSoFar(p, data, length, repeats),
           Len(data) <= DATA_SIZE, DATA_SIZE \in Nat
    PROVE  data = SubSeq(Runs(p), 1, UpTo(Runs(p), DATA_SIZE))
<1>1. Extends(p, p)
  BY DEF Extends
<1>2. CASE Len(data) = DATA_SIZE
  <2>1. PICK rest \in Seq(Octets) : Runs(p) = data \o rest
    BY <1>1, <1>2 DEF CompressedSoFar
  <2>2. Len(data \o rest) = Len(data) + Len(rest) /\ Len(data) \in Nat /\ Len(rest) \in Nat
    BY <2>1
  <2>3. UpTo(data \o rest, DATA_SIZE) = Len(data)
    BY <1>2, <2>2 DEF UpTo
  <2>4. SubSeq(data \o rest, 1, Len(data)) = data
    BY <2>1
  <2> QED  BY <2>1, <2>3, <2>4
<1>3. CASE Len(data) # DATA_SIZE
  <2>1. Runs(p) = data \o Left(p, Len(p), length, repeats)
    BY <1>1, <1>3 DEF CompressedSoFar
  <2>2. Left(p, Len(p), length, repeats) = <<>>
    <3>1. length # 0 /\ repeats => Len(p) >= 1 /\ p[Len(p)] >= 128
      BY <1>3 DEF CompressedSoFar
    <3> QED  BY <3>1, NothingLeftAtEnd
  <2>3. Runs(p) = data
    BY <2>1, <2>2, ConcatEmptySeq
  <2>4. UpTo(data, DATA_SIZE) = Len(data)
    BY <1>3 DEF UpTo
  <2>5. SubSeq(data, 1, Len(data)) = data
    OBVIOUS
  <2> QED  BY <2>3, <2>4, <2>5
<1> QED  BY <1>2, <1>3

(* The same of a packet without compression. *)
PlainSoFar(p, data) ==
    Len(data) = UpTo(p, DATA_SIZE) /\ \A i \in 1 .. Len(data) : data[i] = p[i]

LEMMA PlainStep ==
    ASSUME NEW p \in Seq(Octets), NEW byte \in Octets, NEW data \in Seq(Octets),
           Len(data) <= DATA_SIZE, DATA_SIZE \in Nat, PlainSoFar(p, data)
    PROVE  /\ Len(data) = DATA_SIZE => PlainSoFar(Append(p, byte), data)
           /\ Len(data) # DATA_SIZE => PlainSoFar(Append(p, byte), Append(data, byte))
<1>0. /\ Len(Append(p, byte)) = Len(p) + 1 /\ Len(p) \in Nat /\ Len(data) \in Nat
      /\ Append(p, byte)[Len(p) + 1] = byte
      /\ \A i \in 1 .. Len(p) : Append(p, byte)[i] = p[i]
  BY AppendProperties
<1>1. Len(data) = UpTo(p, DATA_SIZE) /\ \A i \in 1 .. Len(data) : data[i] = p[i]
  BY DEF PlainSoFar
<1>2. Len(data) <= Len(p)
  BY <1>0, <1>1 DEF UpTo
<1>3. ASSUME Len(data) = DATA_SIZE PROVE PlainSoFar(Append(p, byte), data)
  <2>1. UpTo(Append(p, byte), DATA_SIZE) = DATA_SIZE
    BY <1>0, <1>2, <1>3 DEF UpTo
  <2>2. \A i \in 1 .. Len(data) : i \in 1 .. Len(p)
    BY <1>0, <1>2
  <2> QED  BY <1>0, <1>1, <1>3, <2>1, <2>2 DEF PlainSoFar
<1>4. ASSUME Len(data) # DATA_SIZE PROVE PlainSoFar(Append(p, byte), Append(data, byte))
  <2>1. Len(data) = Len(p)
    BY <1>0, <1>1, <1>4 DEF UpTo
  <2>2. /\ Len(Append(data, byte)) = Len(data) + 1
        /\ Append(data, byte)[Len(data) + 1] = byte
        /\ \A i \in 1 .. Len(data) : Append(data, byte)[i] = data[i]
    BY AppendProperties
  <2>3. UpTo(Append(p, byte), DATA_SIZE) = Len(data) + 1
    BY <1>0, <1>4, <2>1 DEF UpTo
  <2>4. \A i \in 1 .. Len(data) + 1 : i \in 1 .. Len(data) \/ i = Len(data) + 1
    BY <1>0
  <2>5. \A i \in 1 .. Len(data) + 1 : Append(data, byte)[i] = Append(p, byte)[i]
    BY <1>0, <1>1, <2>1, <2>2, <2>4
  <2> QED  BY <2>2, <2>3, <2>5 DEF PlainSoFar
<1> QED  BY <1>3, <1>4

LEMMA PlainEnds ==
    ASSUME NEW p \in Seq(Octets), NEW data \in Seq(Octets), PlainSoFar(p, data),
           DATA_SIZE \in Nat
    PROVE  data = SubSeq(p, 1, UpTo(p, DATA_SIZE))
<1>1. Len(p) \in Nat /\ Len(data) \in Nat
  OBVIOUS
<1>2. Len(data) = UpTo(p, DATA_SIZE) /\ \A i \in 1 .. Len(data) : data[i] = p[i]
  BY DEF PlainSoFar
<1>3. Len(data) <= Len(p)
  BY <1>1, <1>2 DEF UpTo
<1>4. SubSeq(p, 1, Len(data)) \in Seq(Octets)
  <2>1. Len(data) \in 0 .. Len(p) /\ 1 \in Nat \ {0}
    BY <1>1, <1>3
  <2> QED  BY <2>1, PartTyped
<1>5. /\ Len(SubSeq(p, 1, Len(data))) = Len(data)
      /\ \A i \in 1 .. Len(data) : SubSeq(p, 1, Len(data))[i] = p[i]
  BY <1>1, <1>3
<1>6. data = SubSeq(p, 1, Len(data))
  BY <1>2, <1>4, <1>5, SeqEqual
<1> QED  BY <1>2, <1>6

(* The states between the magic bytes and the data. *)
HeaderStates == {"MAGIC2", "ID", "COMPRESSION", "LENGTH_LOW", "LENGTH_HIGH"}

(* What is left of a run is what some byte would begin. *)
RunLeft(length, repeats) ==
    /\ length \in Nat /\ repeats \in BOOLEAN
    /\ IF repeats THEN length = 0 \/ length \in 2 .. 129 ELSE length <= 128

(* The data of a packet so far, after what was left of a run before it. *)
DecoderInv ==
    /\ command_data \in Seq(Octets) /\ Len(command_data) <= DATA_SIZE
    /\ RunLeft(run_length, run_compressed) /\ payload \in Seq(Octets) /\ begun \in Seq(Octets)
    /\ command_state \in HeaderStates =>
           /\ payload = <<>> /\ command_data = <<>>
           /\ CompressedSoFar(begun, <<>>, run_length, run_compressed)
    /\ IF compression
       THEN CompressedSoFar(begun \o payload, command_data, run_length, run_compressed)
       ELSE PlainSoFar(payload, command_data)

ImageInv ==
    /\ image \in [0 .. ImageRows - 1 -> Seq(Octets)] /\ accepted \in Seq(Seq(Octets))
    /\ ~overrun => image_offset \in 0 .. ImageRows
    /\ ImageIsAccepted

PrinterInv == DecoderInv /\ ImageInv

LEMMA DecoderTypes ==
    ASSUME DecoderInv
    PROVE  /\ command_data \in Seq(Octets) /\ Len(command_data) <= DATA_SIZE
           /\ Len(command_data) \in Nat /\ DATA_SIZE \in Nat /\ DATA_SIZE # 0
           /\ run_length \in Nat /\ payload \in Seq(Octets) /\ begun \in Seq(Octets)
           /\ run_compressed \in BOOLEAN
<1>1. DATA_SIZE \in Nat /\ DATA_SIZE # 0
  BY PrinterAssumption
<1>2. \A s \in Seq(Octets) : Len(s) \in Nat
  OBVIOUS
<1>3. /\ command_data \in Seq(Octets) /\ Len(command_data) <= DATA_SIZE
      /\ run_length \in Nat /\ payload \in Seq(Octets) /\ begun \in Seq(Octets)
      /\ run_compressed \in BOOLEAN
  BY DEF DecoderInv, RunLeft
<1> QED  BY <1>1, <1>2, <1>3

(* Nothing decoded of nothing. *)
LEMMA NothingSoFar ==
    ASSUME NEW repeats
    PROVE  CompressedSoFar(<<>>, <<>>, 0, repeats) /\ PlainSoFar(<<>>, <<>>)
<1>1. DATA_SIZE \in Nat /\ DATA_SIZE # 0 /\ Len(<<>>) = 0
  BY PrinterAssumption
<1>2. PlainSoFar(<<>>, <<>>)
  BY <1>1 DEF PlainSoFar, UpTo
<1>3. ASSUME NEW q, Extends(q, <<>>)
      PROVE  Runs(q) = <<>> \o Left(q, 0, 0, repeats)
  <2>1. q \in Seq(Octets) /\ Len(q) \in Nat
    BY <1>3 DEF Extends
  <2>2. RunsFrom(q) \in [1 .. Len(q) + 2 -> Seq(Octets)] /\ 1 \in 1 .. Len(q) + 2
    BY <2>1, RunsFromSolves
  <2>3. RunsFrom(q)[1] \in Seq(Octets)
    BY <2>2
  <2>4. <<>> \o RunsFrom(q)[1] = RunsFrom(q)[1]
    BY <2>3, ConcatEmptySeq
  <2>5. Left(q, 0, 0, repeats) = RunsFrom(q)[1]
    BY DEF Left
  <2> QED  BY <2>4, <2>5 DEF Runs
<1>4. CompressedSoFar(<<>>, <<>>, 0, repeats)
  BY <1>1, <1>3 DEF CompressedSoFar
<1> QED  BY <1>2, <1>4

(* A byte that begins what is left of a run begins a run of that length. *)
LEMMA RestBegins ==
    ASSUME RunLeft(run_length, run_compressed)
    PROVE  /\ RestOfRun \in Seq(Octets)
           /\ CompressedSoFar(RestOfRun, <<>>, run_length, run_compressed)
<1>1. \A repeats : CompressedSoFar(<<>>, <<>>, 0, repeats)
  BY NothingSoFar
<1>2. CASE run_length = 0
  BY <1>1, <1>2 DEF RestOfRun
<1>3. CASE run_length # 0
  <2> DEFINE b == IF run_compressed THEN run_length + 126 ELSE run_length - 1
  <2>1. b \in Octets /\ (b >= 128) = run_compressed
    BY <1>3 DEF RunLeft, Octets
  <2>2. RunLength(b) = run_length
    <3>1. CASE run_compressed
      <4>1. run_length \in 2 .. 129 /\ b = run_length + 126 /\ b \in 128 .. 255
        BY <1>3, <3>1 DEF RunLeft
      <4>2. \A c \in 128 .. 255 : c % 128 = c - 128
        OBVIOUS
      <4>3. b % 128 = b - 128
        BY <4>1, <4>2
      <4> QED  BY <4>1, <4>3 DEF RunLength
    <3>2. CASE ~run_compressed
      <4>1. run_length \in 1 .. 128 /\ b = run_length - 1
        BY <1>3, <3>2 DEF RunLeft
      <4> QED  BY <4>1 DEF RunLength
    <3> QED  BY <3>1, <3>2 DEF RunLeft
  <2>3. RestOfRun = <<b>>
    BY <1>3 DEF RestOfRun
  <2> HIDE DEF b
  <2>4. <<b>> = Append(<<>>, b) /\ <<>> \in Seq(Octets) /\ <<b>> \in Seq(Octets)
    BY <2>1
  <2>5. Len(<<>>) # DATA_SIZE
    BY PrinterAssumption
  <2>6. CompressedSoFar(<<b>>, <<>>, RunLength(b), b >= 128)
    BY <1>1, <2>1, <2>4, <2>5, HeaderStep
  <2> QED  BY <2>1, <2>2, <2>3, <2>4, <2>6
<1> QED  BY <1>2, <1>3

(* The decoder takes a byte; p is the data so far after what came before   *)
(* it.                                                                     *)
LEMMA DecodedStep ==
    ASSUME DecoderInv, NEW byte \in Octets, Decoded(byte),
           payload' = Append(payload, byte), UNCHANGED <<compression, begun>>
    PROVE  IF compression'
           THEN CompressedSoFar((begun \o payload)', command_data', run_length', run_compressed')
           ELSE PlainSoFar(payload', command_data')
<1> DEFINE p == begun \o payload
<1>a. /\ p \in Seq(Octets) /\ (begun \o payload)' = Append(p, byte)
  BY DecoderTypes, AppendIsConcat, ConcatAssociative
<1>b. compression => CompressedSoFar(p, command_data, run_length, run_compressed)
  BY DEF DecoderInv
<1> HIDE DEF p
<1>0. /\ command_data \in Seq(Octets) /\ Len(command_data) <= DATA_SIZE
      /\ Len(command_data) \in Nat /\ DATA_SIZE \in Nat
      /\ run_length \in Nat /\ payload \in Seq(Octets)
  BY DecoderTypes
<1>1. CASE ~compression
  <2>1. PlainSoFar(payload, command_data)
    BY <1>1 DEF DecoderInv
  <2>2. CASE Full
    <3>1. command_data' = command_data
      BY <2>2 DEF Decoded
    <3> QED  BY <1>0, <1>1, <2>1, <2>2, <3>1, PlainStep DEF Full
  <2>3. CASE ~Full
    <3>1. command_data' = Append(command_data, byte)
      BY <1>1, <2>3 DEF Decoded
    <3> QED  BY <1>0, <1>1, <2>1, <2>3, <3>1, PlainStep DEF Full
  <2> QED  BY <2>2, <2>3
<1>2. CASE compression
  <2>0. CompressedSoFar(p, command_data, run_length, run_compressed)
    BY <1>2, <1>b
  <2>1. CASE Full
    <3>1. UNCHANGED <<command_data, run_length, run_compressed>>
      BY <2>1 DEF Decoded
    <3>2. CompressedSoFar(Append(p, byte), command_data, run_length, run_compressed)
      BY <1>0, <1>a, <2>0, <2>1, FullStep DEF Full
    <3> QED  BY <1>2, <1>a, <3>1, <3>2
  <2>2. CASE ~Full /\ run_length = 0
    <3>1. /\ run_length' = RunLength(byte) /\ run_compressed' = (byte >= 128)
          /\ command_data' = command_data
      BY <1>2, <2>2 DEF Decoded
    <3>2. CompressedSoFar(Append(p, byte), command_data, RunLength(byte), byte >= 128)
      <4>1. CompressedSoFar(p, command_data, 0, run_compressed)
        BY <2>0, <2>2
      <4> QED  BY <1>0, <1>a, <2>2, <4>1, HeaderStep DEF Full
    <3> QED  BY <1>2, <1>a, <3>1, <3>2
  <2>3. CASE ~Full /\ run_length # 0 /\ run_compressed
    <3> DEFINE room == DATA_SIZE - Len(command_data)
               n == IF run_length < room THEN run_length ELSE room
    <3>1. /\ command_data' = command_data \o Repeated(byte, n)
          /\ run_length' = 0 /\ run_compressed' = run_compressed
      BY <1>2, <2>3 DEF Decoded
    <3>2. Len(command_data) < DATA_SIZE
      BY <1>0, <2>3 DEF Full
    <3>3. CompressedSoFar(p, command_data, run_length, TRUE)
      BY <2>0, <2>3 DEF CompressedSoFar, Left
    <3>4. CompressedSoFar(Append(p, byte), command_data \o Repeated(byte, n), 0, TRUE)
      BY <1>0, <1>a, <2>3, <3>2, <3>3, RepeatedStep
    <3> HIDE DEF n
    <3>5. CompressedSoFar(Append(p, byte), command_data', 0, TRUE)
      BY <3>1, <3>4
    <3>6. CompressedSoFar(Append(p, byte), command_data', 0, run_compressed')
      BY <3>5 DEF CompressedSoFar, Left
    <3> QED  BY <1>2, <1>a, <3>1, <3>6
  <2>4. CASE ~Full /\ run_length # 0 /\ ~run_compressed
    <3>1. /\ command_data' = Append(command_data, byte)
          /\ run_length' = run_length - 1 /\ run_compressed' = run_compressed
      BY <1>2, <2>4 DEF Decoded
    <3>2. Len(command_data) < DATA_SIZE
      BY <1>0, <2>4 DEF Full
    <3>3. CompressedSoFar(p, command_data, run_length, FALSE)
      BY <2>0, <2>4 DEF CompressedSoFar, Left
    <3>4. CompressedSoFar(Append(p, byte), Append(command_data, byte), run_length - 1, FALSE)
      BY <1>0, <1>a, <2>4, <3>2, <3>3, LiteralStep
    <3>5. CompressedSoFar(Append(p, byte), command_data', run_length', FALSE)
      BY <3>1, <3>4
    <3>6. ~run_compressed'
      BY <2>4, <3>1
    <3>7. CompressedSoFar(Append(p, byte), command_data', run_length', run_compressed')
      BY <3>5, <3>6 DEF CompressedSoFar, Left
    <3> QED  BY <1>2, <1>a, <3>7
  <2> QED  BY <2>1, <2>2, <2>3, <2>4
<1> QED  BY <1>1, <1>2

(* Its data stays within its size. *)
LEMMA DecodedTypes ==
    ASSUME DecoderInv, NEW byte \in Octets, Decoded(byte)
    PROVE  /\ command_data' \in Seq(Octets) /\ Len(command_data') <= DATA_SIZE
           /\ RunLeft(run_length', run_compressed')
<1>0. /\ command_data \in Seq(Octets) /\ Len(command_data) <= DATA_SIZE
      /\ Len(command_data) \in Nat /\ DATA_SIZE \in Nat /\ RunLeft(run_length, run_compressed)
  BY DecoderTypes DEF DecoderInv
<1>1. CASE Full
  BY <1>0, <1>1 DEF Decoded
<1>2. ASSUME ~Full, command_data' = Append(command_data, byte)
      PROVE  command_data' \in Seq(Octets) /\ Len(command_data') <= DATA_SIZE
  <2>1. Len(command_data) + 1 <= DATA_SIZE
    BY <1>0, <1>2 DEF Full
  <2>2. Append(command_data, byte) \in Seq(Octets)
        /\ Len(Append(command_data, byte)) = Len(command_data) + 1
    BY <1>0
  <2> QED  BY <1>2, <2>1, <2>2
<1>3. CASE ~Full /\ ~compression
  <2>1. /\ command_data' = Append(command_data, byte)
        /\ UNCHANGED <<run_length, run_compressed>>
    BY <1>3 DEF Decoded
  <2> QED  BY <1>0, <1>2, <1>3, <2>1
<1>4. CASE ~Full /\ compression /\ run_length = 0
  <2>1. /\ run_length' = RunLength(byte) /\ run_compressed' = (byte >= 128)
        /\ command_data' = command_data
    BY <1>4 DEF Decoded
  <2>2. RunLeft(RunLength(byte), byte >= 128)
    <3>1. byte \in 0 .. 255 /\ byte % 128 \in 0 .. 127
      BY DEF Octets
    <3>2. byte >= 128 => RunLength(byte) \in 2 .. 129
      BY <3>1 DEF RunLength
    <3>3. ~(byte >= 128) => RunLength(byte) \in 1 .. 128
      BY <3>1 DEF RunLength
    <3> QED  BY <3>1, <3>2, <3>3 DEF RunLeft
  <2> QED  BY <1>0, <2>1, <2>2
<1>5. CASE ~Full /\ compression /\ run_length # 0 /\ ~run_compressed
  <2>1. /\ command_data' = Append(command_data, byte) /\ run_length' = run_length - 1
        /\ run_compressed' = run_compressed
    BY <1>5 DEF Decoded
  <2>2. RunLeft(run_length', run_compressed')
    BY <1>0, <1>5, <2>1 DEF RunLeft
  <2> QED  BY <1>2, <1>5, <2>1, <2>2
<1>6. CASE ~Full /\ compression /\ run_length # 0 /\ run_compressed
  <2> DEFINE room == DATA_SIZE - Len(command_data)
             n == IF run_length < room THEN run_length ELSE room
             more == Repeated(byte, n)
  <2>1. command_data' = command_data \o more /\ run_length' = 0 /\ UNCHANGED run_compressed
    BY <1>6 DEF Decoded
  <2>5. RunLeft(run_length', run_compressed')
    BY <1>0, <2>1 DEF RunLeft
  <2>2. n \in Nat /\ Len(command_data) + n <= DATA_SIZE
    BY <1>0 DEF RunLeft
  <2> HIDE DEF n
  <2>3. more \in Seq(Octets) /\ Len(more) = n
    BY <2>2, RepeatedTyped
  <2> HIDE DEF more
  <2>4. command_data \o more \in Seq(Octets) /\ Len(command_data \o more) = Len(command_data) + n
    BY <1>0, <2>3
  <2> QED  BY <1>0, <2>1, <2>2, <2>4, <2>5
<1> QED  BY <1>1, <1>3, <1>4, <1>5, <1>6

LEMMA ReceivesState ==
    ASSUME NEW state, state # "MAGIC1", Receives(state)
    PROVE  command_state = state
BY DEF Receives, State

LEMMA DecoderInit == PrinterInit => DecoderInv
<1> SUFFICES ASSUME PrinterInit PROVE DecoderInv
  OBVIOUS
<1>1. <<>> \in Seq(Octets)
  OBVIOUS
<1>2. PlainSoFar(<<>>, <<>>)
  BY NothingSoFar
<1>3. DATA_SIZE \in Nat /\ Len(<<>>) = 0 /\ Len(<<>>) <= DATA_SIZE
  BY PrinterAssumption
<1>4. /\ command_state = "MAGIC1" /\ command_data = <<>> /\ payload = <<>> /\ begun = <<>>
      /\ run_length = 0 /\ run_compressed = FALSE /\ compression = FALSE
  BY DEF PrinterInit
<1>5. RunLeft(run_length, run_compressed)
  <2>1. RunLeft(0, FALSE)
    BY DEF RunLeft
  <2> QED  BY <1>4, <2>1
<1>6. ~(command_state \in HeaderStates)
  BY <1>4 DEF HeaderStates
<1> QED  BY <1>1, <1>2, <1>3, <1>4, <1>5, <1>6 DEF DecoderInv

LEMMA ImageInit == PrinterInit => ImageInv
<1> SUFFICES ASSUME PrinterInit PROVE ImageInv
  OBVIOUS
<1>1. <<>> \in Seq(Seq(Octets)) /\ Len(<<>>) = 0 /\ <<>> \in Seq(Octets)
  OBVIOUS
<1>2. image = [row \in 0 .. ImageRows - 1 |-> <<>>] /\ image_offset = 0 /\ accepted = <<>>
      /\ ~overrun
  BY DEF PrinterInit
<1> QED  BY <1>1, <1>2, PrinterAssumption DEF ImageInv, ImageIsAccepted

(* The steps that leave the decoder alone, and those that do not.          *)
LEMMA DecoderRests ==
    ASSUME DecoderInv, UNCHANGED decoder, compression' = compression,
           command_state' \in HeaderStates => command_state \in HeaderStates
    PROVE  DecoderInv'
BY DEF DecoderInv, decoder

LEMMA DecoderStep == DecoderInv /\ [PrinterNext]_printerVars => DecoderInv'
<1> SUFFICES ASSUME DecoderInv, [PrinterNext]_printerVars PROVE DecoderInv'
  OBVIOUS
<1>a. /\ command_data \in Seq(Octets) /\ Len(command_data) <= DATA_SIZE
      /\ DATA_SIZE \in Nat /\ RunLeft(run_length, run_compressed) /\ payload \in Seq(Octets)
      /\ begun \in Seq(Octets)
  BY DecoderTypes DEF DecoderInv
<1>1. ASSUME NEW byte \in {0, 51, 136}, Magic1(byte) PROVE DecoderInv'
  <2>1. CASE byte = 136
    <3>1. /\ command_data' = <<>> /\ payload' = <<>> /\ begun' = RestOfRun
          /\ UNCHANGED <<compression, run_length, run_compressed>>
      BY <1>1, <2>1 DEF Magic1
    <3>2. <<>> \in Seq(Octets) /\ Len(<<>>) <= DATA_SIZE
      BY <1>a
    <3>3. RestOfRun \in Seq(Octets)
          /\ CompressedSoFar(RestOfRun, <<>>, run_length, run_compressed)
      BY <1>a, RestBegins
    <3>4. PlainSoFar(<<>>, <<>>)
      BY NothingSoFar
    <3>5. begun' \o payload' = RestOfRun
      BY <3>1, <3>3, ConcatEmptySeq
    <3> QED  BY <1>a, <3>1, <3>2, <3>3, <3>4, <3>5 DEF DecoderInv
  <2>2. CASE byte # 136
    <3>1. UNCHANGED <<decoder, compression>> /\ command_state' = "MAGIC1"
      BY <1>1, <2>2 DEF Magic1
    <3> QED  BY <3>1, DecoderRests DEF HeaderStates
  <2> QED  BY <2>1, <2>2
<1>2. ASSUME NEW byte \in {0, 51, 136}, Magic2(byte) PROVE DecoderInv'
  <2>1. command_state = "MAGIC2"
    BY <1>2, ReceivesState DEF Magic2
  <2>2. UNCHANGED <<decoder, compression>>
    BY <1>2 DEF Magic2
  <2> QED  BY <2>1, <2>2, DecoderRests DEF HeaderStates
<1>3. ASSUME NEW byte, Id(byte) \/ LengthLow(byte) \/ LengthHigh(byte) PROVE DecoderInv'
  <2>1. Receives("ID") \/ Receives("LENGTH_LOW") \/ Receives("LENGTH_HIGH")
    BY <1>3 DEF Id, LengthLow, LengthHigh, Header
  <2>2. command_state \in HeaderStates
    BY <2>1, ReceivesState DEF HeaderStates
  <2>3. UNCHANGED <<decoder, compression>>
    BY <1>3 DEF Id, LengthLow, LengthHigh, Header
  <2> QED  BY <2>2, <2>3, DecoderRests
<1>4. ASSUME NEW byte \in {0, 1}, Compression(byte) PROVE DecoderInv'
  <2>1. command_state = "COMPRESSION"
    BY <1>4, ReceivesState DEF Compression, Header
  <2>2. /\ payload = <<>> /\ command_data = <<>>
        /\ CompressedSoFar(begun, <<>>, run_length, run_compressed)
    BY <2>1 DEF DecoderInv, HeaderStates
  <2>3. UNCHANGED decoder
    BY <1>4 DEF Compression, Header
  <2>4. PlainSoFar(<<>>, <<>>) /\ begun \o payload = begun
    BY <1>a, <2>2, NothingSoFar, ConcatEmptySeq
  <2>5. /\ CompressedSoFar(begun', <<>>, run_length', run_compressed')
        /\ CompressedSoFar(begun' \o payload', command_data', run_length', run_compressed')
        /\ PlainSoFar(payload', command_data')
    BY <2>2, <2>3, <2>4 DEF decoder
  <2> QED  BY <1>a, <2>2, <2>3, <2>5 DEF DecoderInv, decoder
<1>5. ASSUME NEW byte \in Payload, Data(byte) PROVE DecoderInv'
  <2>1. byte \in Octets
    BY PayloadAssumption DEF Octets
  <2>2. /\ Decoded(byte) /\ payload' = Append(payload, byte) /\ UNCHANGED <<begun, compression>>
        /\ command_state' \in {"CHECKSUM_LOW", "DATA"}
    BY <1>5 DEF Data
  <2>3. payload' \in Seq(Octets)
    BY <1>a, <2>1, <2>2
  <2>4. IF compression'
        THEN CompressedSoFar((begun \o payload)', command_data', run_length', run_compressed')
        ELSE PlainSoFar(payload', command_data')
    BY <2>1, <2>2, DecodedStep
  <2>5. ~(command_state' \in HeaderStates)
    BY <2>2 DEF HeaderStates
  <2>6. /\ command_data' \in Seq(Octets) /\ Len(command_data') <= DATA_SIZE
        /\ RunLeft(run_length', run_compressed')
    BY <2>1, <2>2, DecodedTypes
  <2> QED  BY <1>a, <2>2, <2>3, <2>4, <2>5, <2>6 DEF DecoderInv
<1>6. ASSUME NEW byte, ChecksumLow(byte) \/ ChecksumHigh(byte) PROVE DecoderInv'
  <2>1. UNCHANGED <<decoder, compression>>
        /\ command_state' \in {"CHECKSUM_HIGH", "ACTIVE", "MAGIC1"}
    BY <1>6 DEF ChecksumLow, ChecksumHigh
  <2> QED  BY <2>1, DecoderRests DEF HeaderStates
<1>7. CASE Active \/ Status
  <2>1. UNCHANGED <<decoder, compression>> /\ command_state' \in {"STATUS", "MAGIC1"}
    BY <1>7 DEF Active, Status
  <2> QED  BY <2>1, DecoderRests DEF HeaderStates
<1>8. CASE Printing \/ Idle \/ UNCHANGED printerVars
  <2>1. UNCHANGED <<decoder, compression, command_state>>
    BY <1>8 DEF Printing, Idle, printerVars, parser
  <2> QED  BY <2>1, DecoderRests
<1>9. CASE PrinterNext
  BY <1>1, <1>2, <1>3, <1>4, <1>5, <1>6, <1>7, <1>8, <1>9 DEF PrinterNext, TakesByte
<1> QED  BY <1>8, <1>9

(* The offset is wrapped only at the end of the image. *)
LEMMA WrappedOffset ==
    ASSUME ImageInv, ~overrun
    PROVE  /\ Wrapped \in 0 .. ImageRows - 1
           /\ image_offset < ImageRows => Wrapped = image_offset
           /\ ~(image_offset < ImageRows) => image_offset = ImageRows /\ Wrapped = 0
<1>1. image_offset \in 0 .. ImageRows /\ ImageRows \in Nat \ {0}
  BY PrinterAssumption DEF ImageInv
<1>2. \A m \in Nat \ {0} : m % m = 0 /\ \A i \in 0 .. m - 1 : i % m = i
  OBVIOUS
<1> QED  BY <1>1, <1>2 DEF Wrapped

(* The rows before those of a command stay, and its own hold its data. *)
LEMMA StoredHalves ==
    ASSUME DecoderInv, ImageInv, ~overrun, HandleData
    PROVE  /\ image' \in [0 .. ImageRows - 1 -> Seq(Octets)]
           /\ Wrapped + 2 <= ImageRows =>
                 /\ \A row \in 0 .. Wrapped - 1 : image'[row] = image[row]
                 /\ image'[Wrapped] \o image'[Wrapped + 1] = command_data
<1> DEFINE low == SubSeq(command_data, 1, DATA_SIZE \div 2)
           high == SubSeq(command_data, DATA_SIZE \div 2 + 1, DATA_SIZE)
           half == DATA_SIZE \div 2
           w == Wrapped
<1>0. /\ DATA_SIZE \in Nat \ {0} /\ DATA_SIZE % 2 = 0 /\ ImageRows \in Nat
      /\ command_data \in Seq(Octets) /\ Len(command_data) = DATA_SIZE
      /\ image \in [0 .. ImageRows - 1 -> Seq(Octets)]
      /\ w \in 0 .. ImageRows - 1
  BY PrinterAssumption, DecoderTypes, WrappedOffset DEF ImageInv, HandleData
<1>1. half \in Nat /\ DATA_SIZE = 2 * half /\ half <= DATA_SIZE
  <2>1. \A n \in Nat : n % 2 = 0 => n \div 2 \in Nat /\ n = 2 * (n \div 2)
    OBVIOUS
  <2> QED  BY <1>0, <2>1
<1>2. image' = [row \in DOMAIN image |-> CASE row = w -> low [] row = w + 1 -> high
                                             [] OTHER -> image[row]]
  BY DEF HandleData, Stored
<1> HIDE DEF half, w
<1>3. low \in Seq(Octets) /\ high \in Seq(Octets) /\ low \o high = command_data
  <2>1. half \in 0 .. Len(command_data) /\ Len(command_data) \in 0 .. Len(command_data)
        /\ half + 1 \in Nat \ {0} /\ 1 \in Nat \ {0}
    BY <1>0, <1>1
  <2>2. SubSeq(command_data, 1, half) \in Seq(Octets)
        /\ SubSeq(command_data, half + 1, Len(command_data)) \in Seq(Octets)
    BY <1>0, <2>1, PartTyped
  <2>3. SubSeq(command_data, 1, half) \o SubSeq(command_data, half + 1, Len(command_data)) =
            command_data
    <3>1. /\ 1 \in 1 .. Len(command_data) + 1 /\ half \in 1 - 1 .. Len(command_data)
          /\ Len(command_data) \in half .. Len(command_data)
      BY <1>0, <1>1
    <3>2. SubSeq(command_data, 1, half) \o SubSeq(command_data, half + 1, Len(command_data)) =
              SubSeq(command_data, 1, Len(command_data))
      BY <1>0, <3>1, ConcatAdjacentSubSeq
    <3>3. SubSeq(command_data, 1, Len(command_data)) = command_data
      BY <1>0, SubSeqFull
    <3> QED  BY <3>2, <3>3
  <2> QED  BY <1>0, <2>2, <2>3 DEF half
<1> HIDE DEF low, high
<1>4. image' \in [0 .. ImageRows - 1 -> Seq(Octets)]
  BY <1>0, <1>2, <1>3
<1>5. ASSUME w + 2 <= ImageRows
      PROVE  /\ \A row \in 0 .. w - 1 : image'[row] = image[row]
             /\ image'[w] = low /\ image'[w + 1] = high
  <2>1. w \in DOMAIN image /\ w + 1 \in DOMAIN image /\ w # w + 1
    BY <1>0, <1>5
  <2>2. ASSUME NEW row \in 0 .. w - 1 PROVE row \in DOMAIN image /\ row # w /\ row # w + 1
    BY <1>0
  <2> QED  BY <1>2, <2>1, <2>2
<1> QED  BY <1>3, <1>4, <1>5 DEF w

(* A command's data fits or is the first that does not. *)
LEMMA HandleKeepsImage ==
    ASSUME DecoderInv, ImageInv, ~overrun, HandleData
    PROVE  ImageInv'
<1> DEFINE l == Len(accepted)
           w == Wrapped
<1>1. /\ accepted \in Seq(Seq(Octets)) /\ ImageIsAccepted /\ ImageRows \in Nat \ {0}
      /\ image_offset \in 0 .. ImageRows
  BY PrinterAssumption DEF ImageInv
<1>2. l \in Nat
  BY <1>1
<1>3. PICK n \in 0 .. l :
          /\ image_offset = 2 * n
          /\ 2 * l <= ImageRows => n = l
          /\ \A k \in 1 .. n : image[2 * k - 2] \o image[2 * k - 1] = accepted[l - n + k]
  BY <1>1 DEF ImageIsAccepted
<1>4. /\ command_data \in Seq(Octets) /\ w \in 0 .. ImageRows - 1
      /\ image_offset < ImageRows => w = image_offset
      /\ ~(image_offset < ImageRows) => image_offset = ImageRows /\ w = 0
  BY DecoderTypes, WrappedOffset
<1>5. /\ image_offset' = w + 2 /\ accepted' = Append(accepted, command_data)
      /\ overrun' = (w + 2 > ImageRows)
  BY DEF HandleData
<1>6. /\ image' \in [0 .. ImageRows - 1 -> Seq(Octets)]
      /\ w + 2 <= ImageRows => /\ \A row \in 0 .. w - 1 : image'[row] = image[row]
                               /\ image'[w] \o image'[w + 1] = command_data
  BY StoredHalves
<1>7. /\ accepted' \in Seq(Seq(Octets)) /\ Len(accepted') = l + 1
      /\ accepted'[l + 1] = command_data
      /\ \A k \in 1 .. l : accepted'[k] = accepted[k]
  BY <1>1, <1>4, <1>5, AppendProperties
<1> HIDE DEF l, w
<1>8. CASE w + 2 > ImageRows
  <2>1. 2 * (l + 1) > ImageRows
    <3>1. CASE image_offset < ImageRows
      BY <1>1, <1>2, <1>3, <1>4, <1>8, <3>1
    <3>2. CASE ~(image_offset < ImageRows)
      BY <1>1, <1>2, <1>4, <1>8, <3>2
    <3> QED  BY <3>1, <3>2
  <2> QED  BY <1>5, <1>6, <1>7, <1>8, <2>1 DEF ImageInv, ImageIsAccepted
<1>9. CASE w + 2 <= ImageRows
  <2> DEFINE r == IF image_offset < ImageRows THEN n + 1 ELSE 1
  <2>1. /\ ~overrun' /\ r \in 1 .. l + 1 /\ w + 2 = 2 * r /\ 2 * r - 2 = w /\ 2 * r - 1 = w + 1
        /\ 2 * (l + 1) <= ImageRows => r = l + 1
        /\ r = 1 \/ (r = n + 1 /\ w = 2 * n)
    <3>1. n \in Nat /\ n <= l /\ ImageRows \in Nat /\ image_offset = 2 * n
          /\ (2 * l <= ImageRows => n = l) /\ ~overrun'
      <4>1. n \in Nat /\ n <= l /\ ImageRows \in Nat
        BY <1>1, <1>2
      <4>2. image_offset = 2 * n /\ (2 * l <= ImageRows => n = l)
        BY <1>3
      <4>3. ~(w + 2 > ImageRows)
        BY <1>1, <1>4, <1>9
      <4>4. ~overrun'
        BY <1>5, <4>3
      <4> QED  BY <4>1, <4>2, <4>4
    <3>2. CASE image_offset < ImageRows
      <4>1. r = n + 1 /\ w = 2 * n
        BY <1>4, <3>1, <3>2
      <4> QED  BY <1>2, <3>1, <4>1
    <3>3. CASE ~(image_offset < ImageRows)
      <4>1. r = 1 /\ w = 0 /\ 2 * n = ImageRows
        BY <1>4, <3>1, <3>3
      <4>2. ~(2 * (l + 1) <= ImageRows)
        BY <1>2, <3>1, <4>1
      <4> QED  BY <1>2, <3>1, <4>1, <4>2
    <3> QED  BY <3>2, <3>3
  <2> HIDE DEF r
  <2>2. ASSUME NEW k \in 1 .. r
        PROVE  image'[2 * k - 2] \o image'[2 * k - 1] = accepted'[l + 1 - r + k]
    <3>1. CASE k = r
      <4>1. 2 * k - 2 = w /\ 2 * k - 1 = w + 1 /\ l + 1 - r + k = l + 1
        BY <1>2, <2>1, <3>1
      <4>2. image'[2 * k - 2] \o image'[2 * k - 1] = image'[w] \o image'[w + 1]
        BY <4>1
      <4> QED  BY <1>6, <1>7, <1>9, <4>1, <4>2
    <3>2. CASE k # r
      <4>1. /\ k \in 1 .. n /\ r = n + 1 /\ w = 2 * n
            /\ 2 * k - 2 \in 0 .. w - 1 /\ 2 * k - 1 \in 0 .. w - 1
            /\ l + 1 - r + k = l - n + k /\ l - n + k \in 1 .. l
        BY <1>2, <1>3, <2>1, <3>2
      <4>2. image'[2 * k - 2] = image[2 * k - 2] /\ image'[2 * k - 1] = image[2 * k - 1]
        BY <1>6, <1>9, <4>1
      <4>3. image[2 * k - 2] \o image[2 * k - 1] = accepted[l - n + k]
        BY <1>3, <4>1
      <4>4. accepted'[l - n + k] = accepted[l - n + k]
        BY <1>7, <4>1
      <4> QED  BY <4>1, <4>2, <4>3, <4>4
    <3> QED  BY <3>1, <3>2
  <2>3. image_offset' = 2 * r /\ image_offset' \in 0 .. ImageRows
    BY <1>1, <1>4, <1>5, <1>9, <2>1
  <2>4. \E q \in 0 .. Len(accepted') :
            /\ image_offset' = 2 * q
            /\ 2 * Len(accepted') <= ImageRows => q = Len(accepted')
            /\ \A k \in 1 .. q :
                  image'[2 * k - 2] \o image'[2 * k - 1] = accepted'[Len(accepted') - q + k]
    <3>1. r \in 0 .. Len(accepted') /\ Len(accepted') = l + 1
      BY <1>2, <1>7, <2>1
    <3>2. /\ image_offset' = 2 * r
          /\ 2 * Len(accepted') <= ImageRows => r = Len(accepted')
      BY <2>1, <2>3, <3>1
    <3>3. \A k \in 1 .. r :
             image'[2 * k - 2] \o image'[2 * k - 1] = accepted'[Len(accepted') - r + k]
      <4> SUFFICES ASSUME NEW k \in 1 .. r
                   PROVE  image'[2 * k - 2] \o image'[2 * k - 1] =
                              accepted'[Len(accepted') - r + k]
        OBVIOUS
      <4>1. Len(accepted') - r + k = l + 1 - r + k
        <5>1. \A x : x = l + 1 => x - r + k = l + 1 - r + k
          BY <1>2, <2>1
        <5> QED  BY <3>1, <5>1, Zenon
      <4> QED  BY <2>2, <4>1
    <3> QED  BY <3>1, <3>2, <3>3
  <2> QED  BY <1>6, <1>7, <2>1, <2>3, <2>4 DEF ImageInv, ImageIsAccepted
<1> QED  BY <1>1, <1>4, <1>8, <1>9

LEMMA ImageStep == DecoderInv /\ ImageInv /\ [PrinterNext]_printerVars => ImageInv'
<1> SUFFICES ASSUME DecoderInv, ImageInv, [PrinterNext]_printerVars PROVE ImageInv'
  OBVIOUS
<1>a. PrinterNext => ~overrun
  BY DEF PrinterNext
<1>1. ASSUME UNCHANGED printout PROVE ImageInv'
  BY <1>1 DEF ImageInv, ImageIsAccepted, printout
<1>2. ASSUME ~overrun, NoImage PROVE ImageInv'
  <2>1. <<>> \in Seq(Seq(Octets)) /\ Len(<<>>) = 0 /\ <<>> \in Seq(Octets)
    OBVIOUS
  <2>2. image' = [row \in 0 .. ImageRows - 1 |-> <<>>] /\ image_offset' = 0 /\ accepted' = <<>>
        /\ ~overrun'
    BY <1>2 DEF NoImage
  <2>3. ImageRows \in Nat /\ 0 \in 0 .. ImageRows /\ 0 = 2 * 0 /\ 1 .. 0 = {}
    BY PrinterAssumption
  <2>4. image' \in [0 .. ImageRows - 1 -> Seq(Octets)] /\ accepted' \in Seq(Seq(Octets))
    BY <2>1, <2>2
  <2>5. Len(accepted') = 0 /\ 0 \in 0 .. Len(accepted')
    BY <2>1, <2>2
  <2>6. \E n \in 0 .. Len(accepted') :
            /\ image_offset' = 2 * n
            /\ 2 * Len(accepted') <= ImageRows => n = Len(accepted')
            /\ \A k \in 1 .. n :
                  image'[2 * k - 2] \o image'[2 * k - 1] = accepted'[Len(accepted') - n + k]
    BY <2>2, <2>3, <2>5
  <2> QED  BY <2>2, <2>3, <2>4, <2>6 DEF ImageInv, ImageIsAccepted
<1>3. ASSUME ~overrun, HandleData PROVE ImageInv'
  BY <1>3, HandleKeepsImage
<1>4. CASE PrinterNext /\ Status
  BY <1>a, <1>1, <1>2, <1>3, <1>4 DEF Status, HandleInit, HandleStart, HandleNothing
<1>5. CASE PrinterNext /\ ~Status
  <2>1. UNCHANGED printout
    BY <1>5 DEF PrinterNext, Magic1, Magic2, Id, Compression, LengthLow, LengthHigh, Header,
                Data, ChecksumLow, ChecksumHigh, Active, Printing, Idle, TakesByte
  <2> QED  BY <1>1, <2>1
<1>6. CASE UNCHANGED printerVars
  BY <1>1, <1>6 DEF printerVars
<1> QED  BY <1>4, <1>5, <1>6

LEMMA PrinterInvImplies == PrinterInv => PrintsWhatWasSent
<1> SUFFICES ASSUME PrinterInv PROVE PrintsWhatWasSent
  OBVIOUS
<1>0. /\ command_data \in Seq(Octets) /\ Len(command_data) <= DATA_SIZE /\ DATA_SIZE \in Nat
      /\ run_length \in Nat
  BY DecoderTypes DEF PrinterInv
<1>1. payload \in Seq(Octets) /\ begun \o payload \in Seq(Octets)
  BY DEF PrinterInv, DecoderInv
<1>2. command_data = SubSeq(MeantData, 1, UpTo(MeantData, DATA_SIZE))
  <2>1. CASE compression
    <3> DEFINE p == begun \o payload
    <3>1. CompressedSoFar(p, command_data, run_length, run_compressed)
      BY <2>1 DEF PrinterInv, DecoderInv
    <3>2. command_data = SubSeq(Runs(p), 1, UpTo(Runs(p), DATA_SIZE))
      <4> HIDE DEF p
      <4>1. p \in Seq(Octets)
        BY <1>1 DEF p
      <4> QED  BY <1>0, <3>1, <4>1, CompressedEnds
    <3> QED  BY <2>1, <3>2 DEF MeantData
  <2>2. CASE ~compression
    <3>1. PlainSoFar(payload, command_data)
      BY <2>2 DEF PrinterInv, DecoderInv
    <3>2. command_data = SubSeq(payload, 1, UpTo(payload, DATA_SIZE))
      BY <1>0, <1>1, <3>1, PlainEnds
    <3> QED  BY <2>2, <3>2 DEF MeantData
  <2> QED  BY <2>1, <2>2
<1>3. ImageIsAccepted
  BY DEF PrinterInv, ImageInv
<1> QED  BY <1>2, <1>3 DEF PrintsWhatWasSent, DataIsDecoded

LEMMA PrinterInvHolds == PrinterSpec => []PrinterInv
<1>1. PrinterInit => PrinterInv
  BY DecoderInit, ImageInit DEF PrinterInv
<1>2. PrinterInv /\ [PrinterNext]_printerVars => PrinterInv'
  BY DecoderStep, ImageStep DEF PrinterInv
<1> QED  BY <1>1, <1>2, PTL DEF PrinterSpec

(* The data that a packet's bytes come to one at a time is that of its runs *)
(* as a whole, after what was left of a run by the packets before, as much *)
(* of it as the buffer holds; and until it has no more room the image is   *)
(* the data of the DATA commands accepted since it began anew, two rows of *)
(* tiles each (byte_receive_completed, handle_command, Core/printer.c).    *)
THEOREM PrinterTheorem == PrinterSpec => []PrintsWhatWasSent
  BY PrinterInvHolds, PrinterInvImplies, PTL
=============================================================================
