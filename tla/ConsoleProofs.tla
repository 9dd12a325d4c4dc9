--------------------------- MODULE ConsoleProofs ---------------------------
(***************************************************************************)
(* Proofs about five parts of the console: the joypad, for every length    *)
(* of bouncing and rising and whatever the players press; the HBlank DMA,  *)
(* for every line that leaves HBlank enough dots; the DMA to OAM, for      *)
(* every size of OAM up to the source's; the speed switch, for every       *)
(* length of its HALT; and the Super Game Boy, for every size of its       *)
(* packets and of its map, and every figure.                               *)
(***************************************************************************)
EXTENDS Joypad, Hdma, MemoryMap, SpeedSwitch, Sgb, FiniteSetTheorems, WellFoundedInduction, TLAPS

-----------------------------------------------------------------------------
(* What is selected is what was written, or about to become it; while a    *)
(* key bounces or a line rises, GB_joypad_run is called; JOYP shows the    *)
(* keys, unless one bounces.                                               *)
SelectionInv ==
    IF joyp_switching_delay = 0 THEN selection = written
    ELSE joyp_switch_value = written /\ ~joypad_is_stable

TimingInv ==
    /\ joyp_switching_delay \in Nat /\ (joy_model # "DMG" => joyp_switching_delay = 0)
    /\ key_bounce_timing \in [Keys -> Nat]
    /\ joypad_is_stable \in BOOLEAN
    /\ joypad_is_stable => \A k \in Keys : key_bounce_timing[k] = 0

ShownInv ==
    (\A k \in Keys : key_bounce_timing[k] = 0) =>
        low = Shown(keys[current_player], selection, current_player, player_count)

JoypadInv == SelectionInv /\ TimingInv /\ ShownInv

(* The greater of two numbers. *)
LEMMA MaxOfTwo ==
    \A a, b \in Nat : Max({a, b}) \in Nat /\ Max({a, b}) >= a /\ Max({a, b}) >= b
                      /\ Max({a, b}) \in {a, b}
<1> SUFFICES ASSUME NEW a \in Nat, NEW b \in Nat
             PROVE  /\ Max({a, b}) \in {a, b}
                    /\ \A y \in {a, b} : Max({a, b}) >= y
  OBVIOUS
<1>1. \E x \in {a, b} : \A y \in {a, b} : x >= y
  <2>1. CASE a >= b
    BY <2>1
  <2>2. CASE b >= a
    BY <2>2
  <2> QED BY <2>1, <2>2
<1> QED BY <1>1 DEF Max

(* A time that runs down. *)
LEMMA RunsDown ==
    \A n \in Nat : /\ Max({n - 1, 0}) \in Nat
                   /\ n \in {0, 1} => Max({n - 1, 0}) = 0
                   /\ Max({n - 1, 0}) = 0 => n \in {0, 1}
<1> TAKE n \in Nat
<1>1. \E x \in {n - 1, 0} : \A y \in {n - 1, 0} : x >= y
  <2>1. CASE n >= 1
    BY <2>1
  <2>2. CASE n = 0
    BY <2>2
  <2> QED BY <2>1, <2>2
<1>2. Max({n - 1, 0}) \in {n - 1, 0} /\ Max({n - 1, 0}) >= n - 1 /\ Max({n - 1, 0}) >= 0
  BY <1>1 DEF Max
<1> QED BY <1>2

(* GB_update_joyp shows the keys when none bounces. *)
LEMMA Updated ==
    ASSUME GB_update_joyp, TimingInv'
    PROVE  ShownInv'
<1> SUFFICES ASSUME \A k \in Keys : key_bounce_timing'[k] = 0
             PROVE  low' = Shown(keys[current_player], selection, current_player, player_count)'
  BY DEF ShownInv
<1>1. {k \in Keys : key_bounce_timing'[k] > 0} = {}
  OBVIOUS
<1>2. PICK pressed \in Readings(current_player', keys'[current_player'], {}) :
          low' = Shown(pressed, selection', current_player', player_count')
  BY <1>1 DEF GB_update_joyp
<1>3. pressed = keys'[current_player']
  BY <1>2 DEF Readings
<1> QED BY <1>2, <1>3 DEF Shown, Legal

(* Keys that are pressed and released. *)
LEMMA KeysStep ==
    ASSUME JoypadInv, NEW player \in Players, NEW pressed, GB_set_keys(player, pressed)
    PROVE  JoypadInv'
<1> DEFINE changed == (keys[player] \ pressed) \union (pressed \ keys[player])
<1>1. /\ UNCHANGED <<joy_model, selection, joyp_switching_delay, joyp_switch_value, written>>
      /\ key_bounce_timing' =
            [k \in Keys |-> IF ShouldBounce /\ k \in changed THEN Bounce ELSE key_bounce_timing[k]]
      /\ joypad_is_stable' = (joypad_is_stable /\ ~(ShouldBounce /\ changed # {}))
      /\ GB_update_joyp
  BY DEF GB_set_keys
<1>2. SelectionInv'
  BY <1>1 DEF JoypadInv, SelectionInv
<1>3. TimingInv'
  <2>1. key_bounce_timing' \in [Keys -> Nat]
    BY <1>1, BounceAssumption DEF JoypadInv, TimingInv
  <2>2. joypad_is_stable' => joypad_is_stable /\ key_bounce_timing' = [k \in Keys |-> key_bounce_timing[k]]
    <3> SUFFICES ASSUME joypad_is_stable', ~ShouldBounce \/ changed = {}
                 PROVE  key_bounce_timing' = [k \in Keys |-> key_bounce_timing[k]]
      BY <1>1 DEF JoypadInv, TimingInv
    <3> QED BY <1>1
  <2> QED BY <1>1, <2>1, <2>2 DEF JoypadInv, TimingInv
<1> QED BY <1>1, <1>2, <1>3, Updated DEF JoypadInv

(* A write of JOYP. *)
LEMMA WriteStep ==
    ASSUME JoypadInv, NEW halves, WriteJOYP(halves)
    PROVE  JoypadInv'
<1>1. /\ written' = halves /\ UNCHANGED <<joy_model, keys, key_bounce_timing>> /\ GB_update_joyp
  BY DEF WriteJOYP
<1>2. CASE joy_model = "DMG"
  <2> DEFINE from == IF joyp_switching_delay > 0 THEN joyp_switch_value ELSE selection
  <2>1. /\ joyp_switch_value' = halves
        /\ joyp_switching_delay' = Max({joyp_switching_delay, Delay(from, halves)})
        /\ selection' = IF joyp_switching_delay' > 0 THEN halves \union from ELSE halves
        /\ joypad_is_stable' = (joypad_is_stable /\ joyp_switching_delay' = 0)
    BY <1>2 DEF WriteJOYP, WriteOnDmg
  <2>2. Delay(from, halves) \in Nat
    BY BounceAssumption DEF Delay
  <2>3. joyp_switching_delay' \in Nat
    BY <2>1, <2>2, MaxOfTwo DEF JoypadInv, TimingInv
  <2>4. SelectionInv'
    <3>1. CASE joyp_switching_delay' = 0
      BY <1>1, <2>1, <3>1 DEF SelectionInv
    <3>2. CASE joyp_switching_delay' # 0
      BY <1>1, <2>1, <3>2 DEF SelectionInv
    <3> QED BY <3>1, <3>2
  <2>5. TimingInv'
    BY <1>1, <1>2, <2>1, <2>3 DEF JoypadInv, TimingInv
  <2> QED BY <1>1, <2>4, <2>5, Updated DEF JoypadInv
<1>3. CASE joy_model # "DMG"
  <2>1. selection' = halves /\ UNCHANGED <<joyp_switching_delay, joyp_switch_value, joypad_is_stable>>
    BY <1>3 DEF WriteJOYP
  <2>2. SelectionInv' /\ TimingInv'
    BY <1>1, <1>3, <2>1 DEF JoypadInv, SelectionInv, TimingInv
  <2> QED BY <1>1, <2>2, Updated DEF JoypadInv
<1> QED BY <1>2, <1>3

(* Time passes for bouncing keys and rising lines. *)
LEMMA RunStep ==
    ASSUME JoypadInv, GB_joypad_run
    PROVE  JoypadInv'
<1> DEFINE bouncing == \E k \in Keys : key_bounce_timing[k] > 0
           switched == joyp_switching_delay = 1
<1>1. /\ ~joypad_is_stable
      /\ joypad_is_stable' = (joyp_switching_delay = 0 /\ ~bouncing)
      /\ joyp_switching_delay' = Max({joyp_switching_delay - 1, 0})
      /\ selection' = IF switched THEN joyp_switch_value ELSE selection
      /\ key_bounce_timing' = [k \in Keys |-> Max({key_bounce_timing[k] - 1, 0})]
      /\ UNCHANGED <<joy_model, keys, joyp_switch_value, player_count, current_player, written>>
      /\ IF switched \/ bouncing THEN GB_update_joyp ELSE UNCHANGED <<low, interrupt>>
  BY DEF GB_joypad_run
<1>2. /\ joyp_switching_delay \in Nat /\ joyp_switching_delay' \in Nat
      /\ joyp_switching_delay = 0 => joyp_switching_delay' = 0
      /\ joyp_switching_delay = 1 => joyp_switching_delay' = 0
      /\ joyp_switching_delay' = 0 => joyp_switching_delay \in {0, 1}
  BY <1>1, RunsDown DEF JoypadInv, TimingInv
<1>3. \A k \in Keys : /\ key_bounce_timing[k] \in Nat /\ key_bounce_timing'[k] \in Nat
                      /\ key_bounce_timing[k] = 0 => key_bounce_timing'[k] = 0
  BY <1>1, RunsDown DEF JoypadInv, TimingInv
<1>4. SelectionInv'
  <2>1. CASE switched
    BY <1>1, <1>2, <2>1 DEF JoypadInv, SelectionInv
  <2>2. CASE joyp_switching_delay = 0
    BY <1>1, <1>2, <2>2 DEF JoypadInv, SelectionInv
  <2>3. CASE joyp_switching_delay \notin {0, 1}
    <3>1. joyp_switching_delay' # 0 /\ joypad_is_stable' = FALSE
      BY <1>1, <1>2, <2>3
    <3> QED BY <1>1, <2>3, <3>1 DEF JoypadInv, SelectionInv
  <2> QED BY <2>1, <2>2, <2>3
<1>5. TimingInv'
  <2>1. key_bounce_timing' \in [Keys -> Nat]
    <3>1. \A k \in Keys : Max({key_bounce_timing[k] - 1, 0}) \in Nat
      BY RunsDown DEF JoypadInv, TimingInv
    <3> QED BY <1>1, <3>1
  <2>2. joypad_is_stable' => \A k \in Keys : key_bounce_timing'[k] = 0
    <3> SUFFICES ASSUME ~bouncing, NEW k \in Keys PROVE key_bounce_timing'[k] = 0
      BY <1>1
    <3> QED BY <1>3
  <2>3. joypad_is_stable' \in BOOLEAN
    BY <1>1
  <2> QED BY <1>1, <1>2, <2>1, <2>2, <2>3 DEF JoypadInv, TimingInv
<1>6. ShownInv'
  <2>1. CASE switched \/ bouncing
    BY <1>1, <1>5, <2>1, Updated
  <2>2. CASE ~switched /\ ~bouncing
    <3>1. \A k \in Keys : key_bounce_timing[k] = 0
      BY <1>3, <2>2
    <3>2. low' = low /\ selection' = selection
      BY <1>1, <2>2
    <3> QED BY <1>1, <3>1, <3>2 DEF JoypadInv, ShownInv, Shown, Legal
  <2> QED BY <2>1, <2>2
<1> QED BY <1>4, <1>5, <1>6 DEF JoypadInv

(* Once GB_joypad_run has nothing to do, JOYP has the selection that was   *)
(* written and shows the keys of the player whose turn it is (module       *)
(* Joypad).                                                                *)
THEOREM TheKeysAreShown == JoypadSpec => []ShowsTheKeys
<1>1. JoypadInit => JoypadInv
  <2> SUFFICES ASSUME JoypadInit PROVE JoypadInv
    OBVIOUS
  <2>1. SelectionInv /\ TimingInv
    BY DEF JoypadInit, SelectionInv, TimingInv
  <2>2. low = Shown({}, Halves, 0, 1)
    BY DEF JoypadInit, Shown, Legal, Halves
  <2>3. keys[current_player] = {} /\ selection = Halves /\ current_player = 0 /\ player_count = 1
    BY DEF JoypadInit, Players
  <2> QED BY <2>1, <2>2, <2>3 DEF JoypadInv, ShownInv
<1>2. JoypadInv /\ [JoypadNext]_joypadVars => JoypadInv'
  <2> SUFFICES ASSUME JoypadInv, [JoypadNext]_joypadVars PROVE JoypadInv'
    OBVIOUS
  <2>1. CASE Acknowledge
    BY <2>1 DEF Acknowledge, JoypadInv, SelectionInv, TimingInv, ShownInv, Shown, Legal
  <2>2. CASE UNCHANGED joypadVars
    BY <2>2 DEF joypadVars, JoypadInv, SelectionInv, TimingInv, ShownInv, Shown, Legal
  <2> QED BY <2>1, <2>2, KeysStep, WriteStep, RunStep DEF JoypadNext
<1>3. JoypadInv => ShowsTheKeys
  BY DEF JoypadInv, SelectionInv, TimingInv, ShownInv, ShowsTheKeys
<1> QED BY <1>1, <1>2, <1>3, PTL DEF JoypadSpec

-----------------------------------------------------------------------------
(* What the CPU does takes a bounded time; the end of mode 3 comes before  *)
(* an M-cycle ends; mode 3 leaves HBlank its dots.                         *)
Phases == {"off", "first", "oam", "draw", "ends", "hblank", "seven", "vblank"}

Longest ==
    CASE doing \in {"fetch", "halted"} -> MCycle
      [] doing = "execute" -> 4 * MCycle + 2
      [] doing = "dispatch" -> 5 * MCycle
      [] OTHER -> 34

PacedInv ==
    /\ double \in BOOLEAN
    /\ ppu_phase \in Phases /\ ppu_left \in Nat
    /\ doing \in {"fetch", "block", "execute", "dispatch", "halted"}
    /\ wait \in Nat /\ wait <= Longest /\ after \in 0 .. 4
    /\ ppu_phase = "ends" => ppu_left <= MCycle
    /\ ppu_phase \in {"draw", "ends"} => rest \in Nat /\ rest > 80

(* No second block is under way.  HALT has noted whether the HBlank it     *)
(* ends in is one that began before it.                                    *)
OnceInv ==
    /\ hdma_on \in BOOLEAN /\ hdma_on_hblank \in BOOLEAN /\ allow_hdma_on_wake \in BOOLEAN
    /\ asked \in BOOLEAN /\ owed \in BOOLEAN /\ blocks \in Nat
    /\ asked => blocks <= 1
    /\ asked /\ hdma_on => hdma_on_hblank
    /\ doing = "block" => hdma_on
    /\ asked /\ hdma_on /\ blocks # 0 =>
           ppu_phase = "ends" /\ doing \in {"fetch", "dispatch"} /\ ppu_left <= wait
    /\ doing = "halted" /\ ppu_phase \in {"off", "first"} => ~allow_hdma_on_wake
    /\ doing = "halted" /\ ppu_phase \in {"hblank", "seven"} /\ allow_hdma_on_wake => blocks = 0

(* The dots until a block that was asked for is copied, at most. *)
Due ==
    CASE doing = "block" -> wait
      [] doing = "fetch" -> wait + 34
      [] doing = "dispatch" -> wait + MCycle + 34
      [] OTHER -> wait + 6 * MCycle + 34

(* A block that is owed is copied before HBlank ends. *)
OwedInv ==
    owed => /\ doing # "halted"
            /\ ppu_phase = "hblank" /\ blocks = 0 => hdma_on /\ Due < ppu_left
            /\ ppu_phase \in {"seven", "oam", "vblank"} => blocks # 0

HdmaInv == PacedInv /\ OnceInv /\ OwedInv

(* An M-cycle in dots. *)
LEMMA MCycles == MCycle \in {2, 4}
BY DEF MCycle

(* The PPU's steps keep the times. *)
LEMMA PpuPaced ==
    ASSUME PacedInv, PpuRuns
    PROVE  PacedInv'
<1>1. MCycle \in {2, 4} /\ MCycle' = MCycle
  BY MCycles DEF PpuRuns, Draw, DrawingEnds, StateThirtyThree, HBlankEnds, OamBegins, Enter,
                 MCycle
<1>2. ASSUME NEW from, NEW to, NEW dots \in Nat, Enter(from, to, dots)
      PROVE  /\ double' = double /\ doing' = doing /\ after' = after
             /\ ppu_left' \in Nat /\ wait' \in Nat /\ wait' <= Longest'
  <2>1. /\ ppu_left \in Nat /\ wait \in Nat /\ ppu_left <= wait /\ wait' = wait - ppu_left
        /\ wait <= Longest /\ doing' = doing /\ ppu_left' = dots
    BY <1>2 DEF Enter, PacedInv
  <2>2. Longest' = Longest /\ Longest \in Nat
    BY <1>1, <2>1 DEF Longest
  <2> QED BY <1>2, <2>1, <2>2 DEF Enter
<1>3. ASSUME NEW dots \in Drawing, Draw(dots)
      PROVE  PacedInv'
  <2>1. dots \in Nat /\ dots < LINE - 160 /\ LINE \in Nat
    BY LineAssumption
  <2>2. PICK from : Enter(from, "draw", dots)
    BY <1>3 DEF Draw
  <2>3. ppu_phase' = "draw" /\ rest' = LINE - 80 - dots
    BY <1>3, <2>2 DEF Draw, Enter
  <2> QED BY <1>2, <2>1, <2>2, <2>3 DEF PacedInv, Phases
<1>4. CASE DrawingEnds
  <2> DEFINE dots == IF double THEN 2 ELSE 3
  <2>1. Enter("draw", "ends", dots) /\ rest' = rest /\ dots \in Nat
    BY <1>4 DEF DrawingEnds
  <2>2. ppu_phase = "draw" /\ ppu_phase' = "ends" /\ ppu_left' = dots /\ dots <= MCycle
    BY <2>1 DEF Enter, MCycle
  <2> HIDE DEF dots
  <2> QED BY <1>1, <1>2, <2>1, <2>2 DEF PacedInv, Phases
<1>5. CASE StateThirtyThree
  <2>1. Enter("ends", "hblank", rest - 4) /\ ppu_phase = "ends"
    BY <1>5 DEF StateThirtyThree, Enter
  <2>2. rest - 4 \in Nat /\ ppu_phase' = "hblank"
    BY <2>1 DEF PacedInv, Enter
  <2> QED BY <1>2, <2>1, <2>2 DEF PacedInv, Phases
<1>6. CASE HBlankEnds
  <2>1. PICK to \in {"seven", "vblank"}, dots \in Nat : Enter("hblank", to, dots)
    BY <1>6, LineAssumption DEF HBlankEnds
  <2>2. ppu_phase' \in {"seven", "vblank"}
    BY <2>1 DEF Enter
  <2> QED BY <1>2, <2>1, <2>2 DEF PacedInv, Phases
<1>7. CASE OamBegins
  <2>1. PICK from : Enter(from, "oam", 80)
    BY <1>7 DEF OamBegins
  <2>2. ppu_phase' = "oam"
    BY <2>1 DEF Enter
  <2> QED BY <1>2, <2>1, <2>2 DEF PacedInv, Phases
<1> QED BY <1>3, <1>4, <1>5, <1>6, <1>7 DEF PpuRuns

(* The CPU's steps do not change its speed. *)
LEMMA CpuKeepsSpeed ==
    ASSUME GB_cpu_run
    PROVE  double' = double
<1>1. ASSUME NEW from, NEW to, NEW dots, Act(from, to, dots)
      PROVE  double' = double
  BY <1>1 DEF Act
<1>2. CASE \E cycles \in {1, 4} : Fetched(cycles)
  BY <1>1, <1>2 DEF Fetched
<1>3. CASE BlockEnds
  BY <1>1, <1>3 DEF BlockEnds
<1>4. CASE \E value \in [steps : 1 .. MaxSteps, hblank : BOOLEAN] : WriteHDMA5(value)
  BY <1>1, <1>4 DEF WriteHDMA5
<1>5. CASE Executed \/ Interrupt \/ Dispatched \/ LcdTurnedOff \/ LcdTurnedOn \/ Halt \/ StayHalted \/ CpuWakes
  BY <1>1, <1>5 DEF Executed, Interrupt, Dispatched, LcdTurnedOff, LcdTurnedOn, Halt, StayHalted, CpuWakes
<1> QED BY <1>2, <1>3, <1>4, <1>5 DEF GB_cpu_run

(* The CPU's steps keep them, too. *)
LEMMA CpuPaced ==
    ASSUME PacedInv, GB_cpu_run
    PROVE  PacedInv'
<1>1. MCycle \in {2, 4} /\ MCycle' = MCycle
  BY MCycles, CpuKeepsSpeed DEF MCycle
<1>2. ASSUME NEW from, NEW to, NEW dots, Act(from, to, dots)
      PROVE  /\ double' = double /\ doing' = to /\ wait' = dots
             /\ PpuWaits /\ UNCHANGED ppu_phase =>
                    /\ ppu_left' \in Nat
                    /\ ppu_phase' = "ends" => ppu_left' <= MCycle'
  <2>1. ppu_phase = "off" \/ wait < ppu_left
    BY <1>2 DEF Act
  <2>2. PpuWaits => ppu_left' \in Nat /\ (ppu_phase # "off" => ppu_left' <= ppu_left)
    BY <2>1 DEF PpuWaits, PacedInv
  <2> QED BY <1>1, <1>2, <2>2 DEF Act, PacedInv
<1>3. ASSUME NEW cycles \in {1, 4}, Fetched(cycles)
      PROVE  PacedInv'
  <2>1. after' = cycles /\ PpuWaits /\ UNCHANGED <<ppu_phase, rest>>
    BY <1>3 DEF Fetched
  <2>2. \/ Act("fetch", "block", 34)
        \/ Act("fetch", "execute", cycles * MCycle)
    BY <1>3 DEF Fetched
  <2>3. CASE Act("fetch", "block", 34)
    BY <1>1, <1>2, <2>1, <2>3 DEF PacedInv, Longest
  <2>4. CASE Act("fetch", "execute", cycles * MCycle)
    <3>1. cycles * MCycle \in Nat /\ cycles * MCycle <= 4 * MCycle + 2
      BY <1>1
    <3> QED BY <1>1, <1>2, <2>1, <2>4, <3>1 DEF PacedInv, Longest
  <2> QED BY <2>2, <2>3, <2>4
<1>4. CASE BlockEnds
  <2>1. PpuWaits /\ UNCHANGED <<ppu_phase, rest, after>>
    BY <1>4 DEF BlockEnds
  <2>2. \/ Act("block", "block", 32)
        \/ Act("block", "execute", after * MCycle + (IF double THEN 0 ELSE 2))
    BY <1>4 DEF BlockEnds
  <2>3. CASE Act("block", "block", 32)
    BY <1>1, <1>2, <2>1, <2>3 DEF PacedInv, Longest
  <2>4. CASE Act("block", "execute", after * MCycle + (IF double THEN 0 ELSE 2))
    <3>1. after * MCycle \in Nat /\ after * MCycle <= 4 * MCycle
      BY <1>1 DEF PacedInv
    <3>2. /\ after * MCycle + (IF double THEN 0 ELSE 2) \in Nat
          /\ after * MCycle + (IF double THEN 0 ELSE 2) <= 4 * MCycle + 2
      BY <1>1, <3>1
    <3> QED BY <1>1, <1>2, <2>1, <2>4, <3>2 DEF PacedInv, Longest
  <2> QED BY <2>2, <2>3, <2>4
<1>5. ASSUME Executed \/ Interrupt \/ Dispatched \/ Halt \/ StayHalted \/ CpuWakes
             \/ \E value \in [steps : 1 .. MaxSteps, hblank : BOOLEAN] : WriteHDMA5(value)
      PROVE  PacedInv'
  <2>1. PpuWaits /\ UNCHANGED <<ppu_phase, rest, after>>
    BY <1>5 DEF Executed, Interrupt, Dispatched, Halt, StayHalted, CpuWakes, WriteHDMA5
  <2>2. \E from : \/ Act(from, "fetch", MCycle) \/ Act(from, "halted", MCycle)
                  \/ Act(from, "dispatch", 5 * MCycle)
    BY <1>5 DEF Executed, Interrupt, Dispatched, Halt, StayHalted, CpuWakes, WriteHDMA5
  <2>3. PICK from : \/ Act(from, "fetch", MCycle) \/ Act(from, "halted", MCycle)
                    \/ Act(from, "dispatch", 5 * MCycle)
    BY <2>2
  <2> QED BY <1>1, <1>2, <2>1, <2>3 DEF PacedInv, Longest
<1>6. CASE LcdTurnedOff
  <2>1. Act("execute", "fetch", MCycle) /\ ppu_phase' = "off" /\ ppu_left' = 0 /\ after' = after
    BY <1>6 DEF LcdTurnedOff
  <2> QED BY <1>1, <1>2, <2>1 DEF PacedInv, Longest, Phases
<1>7. CASE LcdTurnedOn
  <2>1. Act("execute", "fetch", MCycle) /\ ppu_phase' = "first" /\ ppu_left' = 78 /\ after' = after
    BY <1>7 DEF LcdTurnedOn
  <2> QED BY <1>1, <1>2, <2>1 DEF PacedInv, Longest, Phases
<1> QED BY <1>3, <1>4, <1>5, <1>6, <1>7 DEF GB_cpu_run

(* The PPU begins an HBlank, and with it a count of blocks. *)
LEMMA PpuOnce ==
    ASSUME PacedInv, OnceInv, OwedInv, PpuRuns
    PROVE  OnceInv' /\ OwedInv'
<1>1. MCycle \in {2, 4} /\ MCycle' = MCycle
  BY MCycles DEF PpuRuns, Draw, DrawingEnds, StateThirtyThree, HBlankEnds, OamBegins, Enter,
                 MCycle
<1>2. ASSUME NEW from, NEW to, NEW dots, Enter(from, to, dots)
      PROVE  /\ ppu_phase = from /\ ppu_phase' = to /\ ppu_left' = dots
             /\ ppu_left <= wait /\ wait' = wait - ppu_left
             /\ UNCHANGED <<double, doing, after, allow_hdma_on_wake>>
  BY <1>2 DEF Enter
<1>3. CASE \E dots \in Drawing : Draw(dots)
  <2>1. /\ ppu_phase \in {"oam", "first"} /\ ppu_phase' = "draw"
        /\ UNCHANGED <<doing, allow_hdma_on_wake, hdma, seen>>
    BY <1>2, <1>3 DEF Draw, NoHdma
  <2> QED BY <2>1 DEF OnceInv, OwedInv, hdma, seen
<1>4. CASE DrawingEnds
  <2>1. /\ ppu_phase = "draw" /\ ppu_phase' = "ends"
        /\ UNCHANGED <<doing, allow_hdma_on_wake, hdma, seen>>
    BY <1>2, <1>4 DEF DrawingEnds, NoHdma
  <2> QED BY <2>1 DEF OnceInv, OwedInv, hdma, seen
<1>5. CASE StateThirtyThree
  <2>1. /\ ppu_phase = "ends" /\ ppu_phase' = "hblank" /\ ppu_left' = rest - 4
        /\ ppu_left <= wait /\ wait' = wait - ppu_left
        /\ UNCHANGED <<double, doing, after, allow_hdma_on_wake>>
    BY <1>2, <1>5 DEF StateThirtyThree
  <2>2. /\ hdma_on' = (hdma_on \/ (hdma_on_hblank /\ doing # "halted"))
        /\ owed' = (hdma_on_hblank /\ doing # "halted") /\ blocks' = 0
        /\ UNCHANGED <<hdma_on_hblank, hdma_steps_left, asked>>
    BY <1>5 DEF StateThirtyThree
  <2>3. OnceInv'
    BY <2>1, <2>2 DEF OnceInv
  <2>4. Due' < ppu_left'
    <3>1. wait' \in Int /\ wait' <= Longest /\ rest \in Nat /\ rest > 80
      <4>1. /\ wait \in Nat /\ ppu_left \in Nat /\ wait <= Longest
            /\ rest \in Nat /\ rest > 80
        BY <2>1 DEF PacedInv
      <4>2. Longest \in Nat
        BY <1>1 DEF Longest
      <4> QED BY <2>1, <4>1, <4>2
    <3>2. CASE doing = "halted"
      BY <1>1, <2>1, <3>1, <3>2 DEF Due, Longest
    <3>3. CASE doing # "halted"
      BY <1>1, <2>1, <3>1, <3>3 DEF Due, Longest, PacedInv
    <3> QED BY <3>2, <3>3
  <2> QED BY <2>1, <2>2, <2>3, <2>4 DEF OwedInv, OnceInv
<1>6. CASE HBlankEnds
  <2>1. /\ ppu_phase = "hblank" /\ ppu_phase' \in {"seven", "vblank"}
        /\ ppu_left <= wait
        /\ UNCHANGED <<doing, allow_hdma_on_wake, hdma, seen>>
    BY <1>2, <1>6 DEF HBlankEnds, NoHdma
  <2>2. Due >= wait
    BY <1>1 DEF Due, PacedInv
  <2>3. owed => blocks # 0
    BY <1>1, <2>1, <2>2 DEF OwedInv, Due, PacedInv
  <2> QED BY <2>1, <2>3 DEF OnceInv, OwedInv, hdma, seen
<1>7. CASE OamBegins
  <2>1. /\ ppu_phase \in {"seven", "vblank"} /\ ppu_phase' = "oam"
        /\ UNCHANGED <<doing, allow_hdma_on_wake, hdma, seen>>
    BY <1>2, <1>7 DEF OamBegins, NoHdma
  <2> QED BY <2>1 DEF OnceInv, OwedInv, hdma, seen
<1> QED BY <1>3, <1>4, <1>5, <1>6, <1>7 DEF PpuRuns

(* A block is copied, an HBlank transfer begins, HALT begins and ends. *)
LEMMA CpuOnce ==
    ASSUME PacedInv, OnceInv, GB_cpu_run
    PROVE  OnceInv'
<1>1. ASSUME NEW from, NEW to, NEW dots, Act(from, to, dots)
      PROVE  doing = from /\ doing' = to /\ wait' = dots /\ (ppu_phase = "off" \/ wait < ppu_left)
  BY <1>1 DEF Act
<1>2. MCycle \in {2, 4} /\ wait \in Nat /\ ppu_left \in Nat
  BY MCycles DEF PacedInv
<1>3. Mode = 0 <=> ppu_phase \notin {"oam", "draw", "vblank"}
  BY DEF Mode
\* A CPU that acts is not one that the end of mode 3 comes before.
<1>4. asked /\ hdma_on => blocks = 0
  <2> SUFFICES ASSUME ppu_phase = "ends", ppu_left <= wait PROVE FALSE
    BY DEF OnceInv
  <2>1. \E from, to, dots : Act(from, to, dots)
    BY DEF GB_cpu_run, Fetched, BlockEnds, Executed, Interrupt, Dispatched, WriteHDMA5,
           LcdTurnedOff, LcdTurnedOn, Halt, StayHalted, CpuWakes
  <2> QED BY <1>2, <2>1 DEF Act
<1>5. CASE \E cycles \in {1, 4} : Fetched(cycles)
  <2>1. /\ doing' = IF hdma_on THEN "block" ELSE "execute"
        /\ UNCHANGED <<ppu_phase, hdma, allow_hdma_on_wake, seen>>
    BY <1>1, <1>5 DEF Fetched
  <2> QED BY <1>4, <2>1 DEF OnceInv, hdma, seen
<1>6. CASE BlockEnds
  <2>1. PICK over \in BOOLEAN :
           /\ hdma_on' = (~over /\ ~hdma_on_hblank)
           /\ hdma_on_hblank' = (hdma_on_hblank /\ ~over)
    BY <1>6 DEF BlockEnds
  <2>2. /\ doing = "block" /\ doing' = IF hdma_on' THEN "block" ELSE "execute"
        /\ UNCHANGED <<ppu_phase, allow_hdma_on_wake, asked, owed>>
    BY <1>1, <1>6 DEF BlockEnds
  <2>3. blocks' \in Nat /\ (blocks = 0 => blocks' = 1)
    BY <1>6 DEF BlockEnds, OnceInv
  <2>4. /\ hdma_on' \in BOOLEAN /\ hdma_on_hblank' \in BOOLEAN
        /\ asked => ~hdma_on'
    BY <2>1, <2>2 DEF OnceInv
  <2>5. asked => blocks' = 1
    BY <1>4, <2>2, <2>3 DEF OnceInv
  <2>6. doing' = "block" => hdma_on'
    BY <2>2
  <2>7. doing' # "halted"
    BY <2>2
  <2> QED BY <2>2, <2>3, <2>4, <2>5, <2>6, <2>7 DEF OnceInv
<1>7. CASE Executed \/ Interrupt \/ Dispatched
  <2>1. /\ doing' \in {"fetch", "dispatch"}
        /\ UNCHANGED <<ppu_phase, hdma, allow_hdma_on_wake, seen>>
    BY <1>1, <1>7 DEF Executed, Interrupt, Dispatched
  <2> QED BY <1>4, <2>1 DEF OnceInv, hdma, seen
<1>8. ASSUME NEW value \in [steps : 1 .. MaxSteps, hblank : BOOLEAN], WriteHDMA5(value)
      PROVE  OnceInv'
  <2>1. /\ doing' = "fetch" /\ hdma_on_hblank' = value.hblank /\ asked' = value.hblank
        /\ owed' = FALSE /\ blocks' = 0 /\ allow_hdma_on_wake' = allow_hdma_on_wake
    BY <1>1, <1>8 DEF WriteHDMA5
  <2>2. hdma_on' \in BOOLEAN /\ value.hblank \in BOOLEAN
    BY <1>8 DEF WriteHDMA5, OnceInv
  <2>3. blocks' \in Nat /\ blocks' <= 1
    BY <2>1
  <2>4. /\ hdma_on_hblank' \in BOOLEAN /\ allow_hdma_on_wake' \in BOOLEAN
        /\ asked' \in BOOLEAN /\ owed' \in BOOLEAN
    BY <2>1, <2>2 DEF OnceInv
  <2>5. doing' # "block" /\ doing' # "halted"
    BY <2>1
  <2> QED BY <2>1, <2>2, <2>3, <2>4, <2>5 DEF OnceInv
<1>9. CASE LcdTurnedOff
  <2>1. /\ doing' = "fetch" /\ ppu_phase' = "off" /\ owed' = FALSE /\ blocks' = 0
        /\ hdma_on' = (hdma_on \/ (hdma_on_hblank /\ Mode # 0))
        /\ UNCHANGED <<hdma_on_hblank, allow_hdma_on_wake, asked>>
    BY <1>1, <1>9 DEF LcdTurnedOff
  <2>2. hdma_on' \in BOOLEAN /\ (asked' /\ hdma_on' => hdma_on_hblank')
    BY <2>1 DEF OnceInv
  <2>3. blocks' \in Nat /\ blocks' <= 1
    BY <2>1
  <2>4. /\ hdma_on_hblank' \in BOOLEAN /\ allow_hdma_on_wake' \in BOOLEAN
        /\ asked' \in BOOLEAN /\ owed' \in BOOLEAN
    BY <2>1 DEF OnceInv
  <2>5. doing' # "block" /\ doing' # "halted"
    BY <2>1
  <2> QED BY <2>1, <2>2, <2>3, <2>4, <2>5 DEF OnceInv
<1>10. CASE LcdTurnedOn
  <2>1. /\ doing' = "fetch" /\ ppu_phase' = "first"
        /\ UNCHANGED <<hdma, allow_hdma_on_wake, seen>>
    BY <1>1, <1>10 DEF LcdTurnedOn
  <2> QED BY <1>4, <2>1 DEF OnceInv, hdma, seen
<1>11. CASE Halt
  <2>1. /\ doing' = "halted" /\ allow_hdma_on_wake' = (Mode # 0) /\ owed' = FALSE
        /\ UNCHANGED <<ppu_phase, hdma, asked, blocks>>
    BY <1>1, <1>11 DEF Halt
  <2> QED BY <1>3, <1>4, <2>1 DEF OnceInv, hdma
<1>12. CASE StayHalted
  <2>1. doing = "halted" /\ doing' = "halted" /\ UNCHANGED <<ppu_phase, hdma, allow_hdma_on_wake, seen>>
    BY <1>1, <1>12 DEF StayHalted
  <2> QED BY <1>4, <2>1 DEF OnceInv, hdma, seen
<1>13. CASE CpuWakes
  <2>1. /\ doing = "halted" /\ doing' \in {"fetch", "dispatch"} /\ wait' \in {MCycle, 5 * MCycle}
        /\ ppu_phase = "off" \/ wait < ppu_left
    BY <1>1, <1>13 DEF CpuWakes
  <2>2. /\ hdma_on' = (hdma_on \/ (hdma_on_hblank /\ Mode = 0 /\ allow_hdma_on_wake))
        /\ PpuWaits /\ UNCHANGED <<ppu_phase, hdma_on_hblank, allow_hdma_on_wake, seen>>
    BY <1>13 DEF CpuWakes
  \* What asks for a second block is the wake after HBlank has begun and before state 33.
  <2>3. asked /\ hdma_on' /\ blocks # 0 => ppu_phase = "ends"
    BY <1>3, <1>4, <2>1, <2>2 DEF OnceInv, PacedInv, Phases
  <2>4. ppu_phase = "ends" => ppu_left' <= wait'
    <3> SUFFICES ASSUME ppu_phase = "ends" PROVE ppu_left' <= wait'
      OBVIOUS
    <3>1. ppu_left <= MCycle /\ ppu_left' = ppu_left - wait
      BY <2>2 DEF PacedInv, PpuWaits
    <3> QED BY <1>2, <2>1, <3>1
  <2> QED BY <2>1, <2>2, <2>3, <2>4 DEF OnceInv, seen
<1> QED BY <1>5, <1>6, <1>7, <1>8, <1>9, <1>10, <1>11, <1>12, <1>13 DEF GB_cpu_run

(* The CPU comes to the block while there is time. *)
LEMMA CpuOwed ==
    ASSUME PacedInv, OnceInv, OwedInv, GB_cpu_run
    PROVE  OwedInv'
<1>1. ASSUME NEW from, NEW to, NEW dots, Act(from, to, dots)
      PROVE  doing = from /\ doing' = to /\ wait' = dots /\ (ppu_phase = "off" \/ wait < ppu_left)
  BY <1>1 DEF Act
<1>2. MCycle \in {2, 4} /\ wait \in Nat /\ ppu_left \in Nat /\ MCycle' = MCycle
  BY MCycles, CpuKeepsSpeed DEF PacedInv, MCycle
<1>3. PpuWaits /\ ppu_phase = "hblank" => ppu_left' = ppu_left - wait
  BY DEF PpuWaits
<1>4. CASE \E cycles \in {1, 4} : Fetched(cycles)
  <2>1. /\ doing = "fetch" /\ PpuWaits /\ UNCHANGED <<ppu_phase, hdma, seen>>
        /\ IF hdma_on THEN doing' = "block" /\ wait' = 34 ELSE doing' = "execute"
    BY <1>1, <1>4 DEF Fetched
  <2>2. hdma_on => Due' = 34
    BY <2>1 DEF Due
  <2>3. Due = wait + 34
    BY <2>1 DEF Due
  <2>4. owed /\ ppu_phase = "hblank" /\ blocks = 0 => hdma_on /\ Due' < ppu_left'
    BY <1>2, <1>3, <2>1, <2>2, <2>3 DEF OwedInv
  <2> QED BY <2>1, <2>4 DEF OwedInv, hdma, seen
<1>5. CASE BlockEnds
  <2>1. /\ doing' \in {"block", "execute"} /\ UNCHANGED <<ppu_phase, asked, owed>>
    BY <1>1, <1>5 DEF BlockEnds
  <2>2. blocks' # 0
    BY <1>5 DEF BlockEnds, OnceInv
  <2> QED BY <2>1, <2>2 DEF OwedInv
<1>6. CASE Executed \/ Interrupt \/ Dispatched
  <2>1. /\ PpuWaits /\ UNCHANGED <<ppu_phase, hdma, seen>>
        /\ \/ doing = "execute" /\ doing' = "fetch" /\ wait' = MCycle
           \/ doing = "execute" /\ doing' = "dispatch" /\ wait' = 5 * MCycle
           \/ doing = "dispatch" /\ doing' = "fetch" /\ wait' = MCycle
    BY <1>1, <1>6 DEF Executed, Interrupt, Dispatched
  <2>2. Due - wait >= Due' /\ Due \in Int /\ Due' \in Int
    BY <1>2, <2>1 DEF Due
  <2>3. owed /\ ppu_phase = "hblank" /\ blocks = 0 => Due' < ppu_left'
    BY <1>2, <1>3, <2>1, <2>2 DEF OwedInv
  <2> QED BY <2>1, <2>3 DEF OwedInv, hdma, seen
<1>7. CASE LcdTurnedOn
  <2>1. doing' = "fetch" /\ ppu_phase' = "first"
    BY <1>1, <1>7 DEF LcdTurnedOn
  <2> QED BY <2>1 DEF OwedInv
<1>8. CASE \/ \E value \in [steps : 1 .. MaxSteps, hblank : BOOLEAN] : WriteHDMA5(value)
           \/ LcdTurnedOff \/ Halt
  BY <1>8 DEF WriteHDMA5, LcdTurnedOff, Halt, OwedInv
<1>9. CASE StayHalted \/ CpuWakes
  <2>1. doing = "halted" /\ owed' = owed
    BY <1>1, <1>9 DEF StayHalted, CpuWakes, seen
  <2> QED BY <2>1 DEF OwedInv
<1> QED BY <1>4, <1>5, <1>6, <1>7, <1>8, <1>9 DEF GB_cpu_run

(* An HBlank transfer copies one block in each HBlank: never a second one, *)
(* though the PPU, a HALT that ends and a write to HDMA5 may all ask for   *)
(* it, and none is missed by a CPU that runs (module Hdma).                *)
THEOREM OneBlockEach == HdmaSpec => []OneBlockPerHBlank
<1>1. HdmaInit => HdmaInv
  <2> SUFFICES ASSUME HdmaInit PROVE HdmaInv
    OBVIOUS
  <2>1. PacedInv
    BY MCycles DEF HdmaInit, PacedInv, Longest, Phases
  <2>2. OnceInv /\ OwedInv
    BY DEF HdmaInit, OnceInv, OwedInv
  <2> QED BY <2>1, <2>2 DEF HdmaInv
<1>2. HdmaInv /\ [HdmaNext]_hdmaVars => HdmaInv'
  <2> SUFFICES ASSUME HdmaInv, [HdmaNext]_hdmaVars PROVE HdmaInv'
    OBVIOUS
  <2>1. CASE UNCHANGED hdmaVars
    BY <2>1 DEF hdmaVars, ppu, hdma, seen, HdmaInv, PacedInv, OnceInv, OwedInv, Longest, Due, MCycle
  <2> QED BY <2>1, PpuPaced, CpuPaced, PpuOnce, CpuOnce, CpuOwed DEF HdmaInv, HdmaNext
<1>3. HdmaInv => OneBlockPerHBlank
  BY DEF HdmaInv, OnceInv, OwedInv, OneBlockPerHBlank
<1> QED BY <1>1, <1>2, <1>3, PTL DEF HdmaSpec
-----------------------------------------------------------------------------
(* The memory map *)

Destinations == 0 .. Idle \union {WarmUp}

(* OAM and what the DMA has copied are lists of bytes.                     *)
DmaTyped ==
    /\ DOMAIN oam = Offsets /\ oam = [i \in Offsets |-> oam[i]]
    /\ DOMAIN copied \subseteq Offsets
    /\ dma_current_dest \in Destinations
    /\ dma_current_src = <<SrcPage, SrcOffset>> /\ SrcPage \in 0 .. 255

(* From the end of the warm-up on, the DMA reads as many bytes from the    *)
(* page as it has written into OAM.                                        *)
InPace == dma_current_dest \in 0 .. OamSize => SrcOffset = dma_current_dest

(* While it warms up, the page's first byte is next.                       *)
FromTheStart == dma_current_dest = WarmUp => SrcOffset = 0

DmaInv == DmaTyped /\ InPace /\ FromTheStart /\ DmaCopies

LEMMA DestinationKnown ==
    ASSUME DmaTyped
    PROVE  /\ dma_current_dest \in 0 .. OamSize \/ dma_current_dest \in {OamSize + 1, 255}
           /\ dma_current_dest < OamSize => dma_current_dest \in 0 .. OamSize - 1
<1>1. OamSize \in 1 .. 160
  BY MapAssumption
<1>2. dma_current_dest \in (0 .. OamSize + 1) \union {255}
  BY DEF DmaTyped, Destinations, Idle, WarmUp
<1> QED BY <1>1, <1>2

LEMMA DmaBegins == MapInit => DmaInv
<1> SUFFICES ASSUME MapInit PROVE DmaInv
  OBVIOUS
<1>1. Idle \in Destinations /\ Idle \notin 0 .. OamSize /\ Idle # WarmUp
  BY MapAssumption DEF Destinations, Idle, WarmUp
<1>2. DmaTyped
  BY <1>1 DEF DmaTyped, MapInit, SrcPage, SrcOffset
<1> QED BY <1>1, <1>2 DEF MapInit, DmaInv, InPace, FromTheStart, DmaCopies

(* The DMA's own access is let through.                                    *)
LEMMA DmaReadsItself ==
    ASSUME DmaTyped, NEW page,
           page = (IF SrcPage < \hE0 THEN SrcPage ELSE SrcPage - \h20)
    PROVE  ReadMemory(page, SrcOffset) = Contents(Cell(page, SrcOffset))
<1>1. page # \hFE
  BY DEF DmaTyped
<1>2. ~InDmaUse(page, SrcOffset)
  BY DEF InDmaUse, DmaTyped
<1> QED BY <1>1, <1>2 DEF ReadMemory

(* Where the byte goes, and that it is the source's.                       *)
LEMMA CopyKeeps ==
    ASSUME DmaInv, Copy, Active, dma_current_dest < OamSize, UNCHANGED map_model
    PROVE  DmaInv'
<1> DEFINE page == IF SrcPage < \hE0 THEN SrcPage ELSE SrcPage - \h20
           byte == IF SrcPage >= \hE0 /\ IsCgb THEN FF ELSE ReadMemory(page, SrcOffset)
           d    == dma_current_dest
<1>1. d \in Offsets /\ SrcOffset = d
  <2>1. d \in 0 .. OamSize - 1
    BY DestinationKnown DEF DmaInv
  <2> QED BY <2>1, MapAssumption DEF DmaInv, InPace, Offsets
<1>2. byte = IF SrcPage >= \hE0 /\ IsCgb THEN FF ELSE Contents(Cell(page, d))
  BY <1>1, DmaReadsItself DEF DmaInv
<1>3. oam' = IF PassesOver THEN oam ELSE [oam EXCEPT ![d] = byte]
  BY DEF Copy
<1>4. copied' = [i \in DOMAIN copied \union {d} |->
                    IF i # d THEN copied[i]
                    ELSE IF SrcPage >= \hE0 /\ IsCgb THEN FF ELSE Contents(Cell(page, i))]
  BY DEF Copy
<1>5. /\ disturbed' = disturbed \ {d} /\ d' = d + 1
      /\ dma_current_src' = <<SrcPage, SrcOffset + 1>>
      /\ taken' = IF PassesOver THEN taken \union {d} ELSE taken \ {d}
  BY DEF Copy, NextSource
<1>6. SrcPage' = SrcPage /\ SrcOffset' = SrcOffset + 1
  BY <1>5 DEF SrcPage, SrcOffset
<1>7. d' \in Destinations /\ d' \in 1 .. OamSize /\ d' # WarmUp
  BY <1>1, <1>5, MapAssumption DEF Destinations, Offsets, Idle, WarmUp
<1>8. DmaTyped'
  <2>1. DOMAIN oam' = Offsets /\ oam' = [i \in Offsets |-> oam'[i]]
    <3>1. DOMAIN oam = Offsets /\ oam = [i \in Offsets |-> oam[i]]
      BY DEF DmaInv, DmaTyped
    <3> HIDE DEF byte, d
    <3> QED BY <1>3, <3>1
  <2>2. DOMAIN copied' \subseteq Offsets
    BY <1>1, <1>4 DEF DmaInv, DmaTyped
  <2> QED BY <1>5, <1>6, <1>7, <2>1, <2>2 DEF DmaInv, DmaTyped, Destinations, Idle, Offsets, WarmUp
<1>9. InPace' /\ FromTheStart'
  BY <1>1, <1>5, <1>6, <1>7 DEF InPace, FromTheStart, WarmUp
<1>10. DmaCopies'
  <2> SUFFICES ASSUME NEW i \in DOMAIN copied', i \notin disturbed', i \notin taken'
               PROVE  oam'[i] = copied'[i]
    BY DEF DmaCopies
  <2>1. CASE i = d
    <3>1. ~PassesOver
      BY <2>1, <1>5
    <3>2. oam' = [oam EXCEPT ![d] = byte] /\ d \in DOMAIN oam
      BY <1>1, <1>3, <3>1 DEF DmaInv, DmaTyped
    <3> QED BY <2>1, <3>2, <1>1, <1>2, <1>4
  <2>2. CASE i # d
    <3>1. i \in DOMAIN copied \ (disturbed \union taken)
      BY <2>2, <1>4, <1>5
    <3> HIDE DEF page, byte, d
    <3>2. copied'[i] = copied[i]
      BY <2>2, <3>1, <1>4
    <3>3. oam'[i] = oam[i]
      BY <2>2, <3>1, <1>3 DEF DmaInv, DmaTyped
    <3> QED BY <3>1, <3>2, <3>3 DEF DmaInv, DmaCopies
  <2> QED BY <2>1, <2>2
<1> QED BY <1>8, <1>9, <1>10 DEF DmaInv

LEMMA DmaRuns ==
    ASSUME DmaInv, GB_dma_run, UNCHANGED map_model
    PROVE  DmaInv'
<1>1. CASE ~Active
  BY <1>1 DEF GB_dma_run, DmaInv, DmaTyped, InPace, FromTheStart, DmaCopies, dma, noted, SrcPage,
              SrcOffset, Offsets, Destinations, Idle, WarmUp
<1>2. CASE Active /\ dma_current_dest >= OamSize
  <2>1. /\ dma_current_dest' = IF dma_current_dest = WarmUp THEN 0 ELSE Idle
        /\ UNCHANGED <<oam, dma_current_src, copied, disturbed, taken>>
    BY <1>2 DEF GB_dma_run, noted
  <2>2. UNCHANGED <<SrcPage, SrcOffset>>
    BY <2>1 DEF SrcPage, SrcOffset
  <2>3. Idle \notin 0 .. OamSize /\ Idle # WarmUp /\ WarmUp # 0 /\ {0, Idle} \subseteq Destinations
    BY MapAssumption DEF Idle, WarmUp, Destinations
  <2>4. DmaTyped'
    BY <2>1, <2>2, <2>3 DEF DmaInv, DmaTyped, Destinations, Idle, WarmUp, Offsets
  <2>5. InPace' /\ FromTheStart'
    BY <2>1, <2>2, <2>3 DEF DmaInv, InPace, FromTheStart
  <2> QED BY <2>1, <2>4, <2>5 DEF DmaInv, DmaCopies
<1>3. CASE Active /\ ~(dma_current_dest >= OamSize)
  <2>1. dma_current_dest < OamSize
    BY <1>3, MapAssumption DEF DmaInv, DmaTyped, Destinations, Idle, WarmUp
  <2> QED BY <1>3, <2>1, CopyKeeps DEF GB_dma_run
<1> QED BY <1>1, <1>2, <1>3

(* What the CPU and HDMA do to OAM is noted.                               *)
Spoils(i) == /\ i \in Offsets
             /\ disturbed \union taken \union {i} \subseteq disturbed' \union taken'
             /\ \E byte : oam' = [oam EXCEPT ![i] = byte]

LEMMA CpuKeeps ==
    ASSUME DmaInv, UNCHANGED <<dma_current_dest, dma_current_src, copied>>,
           UNCHANGED <<oam, disturbed, taken>> \/ \E i \in Offsets : Spoils(i)
    PROVE  DmaInv'
<1>1. UNCHANGED <<SrcPage, SrcOffset, Offsets, Destinations>>
  BY DEF SrcPage, SrcOffset, Offsets, Destinations, Idle, WarmUp
<1>2. CASE UNCHANGED <<oam, disturbed, taken>>
  BY <1>1, <1>2 DEF DmaInv, DmaTyped, InPace, FromTheStart, DmaCopies
<1>3. ASSUME NEW i \in Offsets, Spoils(i) PROVE DmaInv'
  <2>1. PICK byte : oam' = [oam EXCEPT ![i] = byte]
    BY <1>3 DEF Spoils
  <2>2. DOMAIN oam' = Offsets /\ oam' = [j \in Offsets |-> oam'[j]]
    BY <2>1 DEF DmaInv, DmaTyped
  <2>3. DmaTyped'
    BY <1>1, <2>2 DEF DmaInv, DmaTyped
  <2>4. DmaCopies'
    BY <1>3, <2>1 DEF DmaInv, DmaTyped, DmaCopies, Spoils
  <2> QED BY <1>1, <2>3, <2>4 DEF DmaInv, InPace, FromTheStart
<1> QED BY <1>2, <1>3

(* A conflict spoils the byte that the DMA has just written.               *)
LEMMA ConflictSpoils ==
    ASSUME DmaInv, NEW page, NEW place, InDmaUse(page, place), NEW to, Conflict(to)
    PROVE  /\ UNCHANGED copied
           /\ UNCHANGED <<oam, disturbed, taken>> \/ \E i \in Offsets : Spoils(i)
<1>1. dma_current_dest - 1 \in Offsets
  <2>1. dma_current_dest \in 1 .. OamSize
    BY DestinationKnown, MapAssumption DEF InDmaUse, Active, DmaInv, WarmUp, Idle
  <2> QED BY <2>1, MapAssumption DEF Offsets
<1>2. ASSUME NEW byte, Spoil(byte) PROVE UNCHANGED copied /\ \E i \in Offsets : Spoils(i)
  BY <1>1, <1>2 DEF Spoil, Spoils
<1>3. ASSUME UNCHANGED <<oam, noted>>
      PROVE  UNCHANGED copied /\ UNCHANGED <<oam, disturbed, taken>>
  BY <1>3 DEF noted
<1>4. \/ UNCHANGED <<oam, noted>> \/ Spoil(Zeroes)
      \/ Spoil(Wired(oam[dma_current_dest - 1], {New})) \/ Spoil({New})
  BY DEF Conflict
<1> QED BY <1>2, <1>3, <1>4

LEMMA WriteKeeps ==
    ASSUME DmaInv, NEW page, NEW place \in Offsets, WriteMemory(page, place)
    PROVE  DmaInv'
<1>1. UNCHANGED <<dma_current_dest, dma_current_src>>
  BY DEF WriteMemory, dma
<1>2. CASE page = \hFE
  <2>1. WriteOam(place)
    BY <1>2 DEF WriteMemory
  <2>2. UNCHANGED copied /\ (UNCHANGED <<oam, disturbed, taken>> \/ \E i \in Offsets : Spoils(i))
    BY <2>1 DEF WriteOam, Spoils
  <2> QED BY <1>1, <2>2, CpuKeeps
<1>3. CASE page # \hFE
  <2>1. \/ UNCHANGED <<oam, noted>>
        \/ InDmaUse(page, place) /\ \E to : Conflict(to)
    BY <1>3 DEF WriteMemory
  <2>2. UNCHANGED copied /\ (UNCHANGED <<oam, disturbed, taken>> \/ \E i \in Offsets : Spoils(i))
    BY <2>1, ConflictSpoils DEF noted
  <2> QED BY <1>1, <2>2, CpuKeeps
<1> QED BY <1>2, <1>3

LEMMA RestartKeeps ==
    ASSUME DmaInv, NEW page \in Pages, WriteDMA(page)
    PROVE  DmaInv'
<1>1. /\ dma_current_dest' = WarmUp /\ dma_current_src' = <<page, 0>>
      /\ UNCHANGED <<oam, copied, disturbed, taken>>
  BY DEF WriteDMA, noted
<1>2. SrcPage' = page /\ SrcOffset' = 0 /\ page \in 0 .. 255
  BY <1>1, MapAssumption DEF SrcPage, SrcOffset
<1>3. WarmUp \in Destinations /\ WarmUp \notin 0 .. OamSize
  BY MapAssumption DEF WarmUp, Destinations
<1>4. DmaTyped'
  BY <1>1, <1>2, <1>3 DEF DmaInv, DmaTyped, Destinations, Idle, WarmUp, Offsets
<1> QED BY <1>1, <1>2, <1>3, <1>4 DEF DmaInv, InPace, FromTheStart, DmaCopies

(* HDMA waits while the DMA goes on; a byte that it reads it may write to  *)
(* OAM, too, and where it stores it is no part of the DMA.                 *)
LEMMA HdmaKeeps ==
    ASSUME DmaInv, HdmaWaits \/ HdmaReads \/ HdmaStores
    PROVE  DmaInv'
<1>1. CASE HdmaWaits
  <2>1. UNCHANGED map_model /\ (GB_dma_run \/ UNCHANGED <<oam, dma, noted>>)
    BY <1>1 DEF HdmaWaits, console
  <2>2. CASE UNCHANGED <<oam, dma, noted>>
    BY <2>2, CpuKeeps DEF dma, noted
  <2> QED BY <2>1, <2>2, DmaRuns
<1>2. CASE HdmaReads
  <2> DEFINE place == hdma_current_src[2]
             hit == {place} \intersect (IF Active /\ (halfway \/ fast) THEN Offsets ELSE {})
  <2>1. /\ oam' = [i \in Offsets |-> IF i \in hit THEN hdma_byte' ELSE oam[i]]
        /\ taken' = taken \union hit
        /\ UNCHANGED <<dma, copied, disturbed>>
    BY <1>2 DEF HdmaReads
  <2>2. oam = [i \in Offsets |-> oam[i]]
    BY DEF DmaInv, DmaTyped
  <2>3. hit = {} \/ (hit = {place} /\ place \in Offsets)
    OBVIOUS
  <2> HIDE DEF hit
  <2>4. CASE hit = {}
    BY <2>1, <2>2, <2>4, CpuKeeps DEF dma
  <2>5. CASE hit = {place} /\ place \in Offsets
    <3>1. oam' = [oam EXCEPT ![place] = hdma_byte']
      <4> HIDE DEF place
      <4> QED BY <2>1, <2>2, <2>5
    <3>2. Spoils(place)
      BY <2>1, <2>5, <3>1 DEF Spoils
    <3> QED BY <2>1, <2>5, <3>2, CpuKeeps DEF dma
  <2> QED BY <2>3, <2>4, <2>5
<1>3. CASE HdmaStores
  BY <1>3, CpuKeeps DEF HdmaStores, dma, noted
<1> QED BY <1>1, <1>2, <1>3

LEMMA DmaPreserved == DmaInv /\ [MapNext]_mapVars => DmaInv'
<1> SUFFICES ASSUME DmaInv, [MapNext]_mapVars PROVE DmaInv'
  OBVIOUS
<1>1. CASE DmaMCycle
  <2>1. CASE halted
    BY <1>1, <2>1, CpuKeeps DEF DmaMCycle, dma, noted
  <2>2. CASE ~halted
    BY <1>1, <2>2, DmaRuns DEF DmaMCycle, console
  <2> QED BY <2>1, <2>2
<1>2. CASE NoAccess \/ HaltCpu \/ StayHalt
  BY <1>2, CpuKeeps DEF NoAccess, HaltCpu, StayHalt, dma, noted
<1>3. CASE WakeUp
  BY <1>3, DmaRuns DEF WakeUp, console
<1>4. ASSUME NEW page \in Pages, NEW place \in Offsets, WriteMemory(page, place) PROVE DmaInv'
  BY <1>4, WriteKeeps
<1>5. ASSUME NEW page \in Pages, WriteDMA(page) PROVE DmaInv'
  BY <1>5, RestartKeeps
<1>6. ASSUME NEW value \in {0, 2}, WriteSVBK(value) PROVE DmaInv'
  BY <1>6, CpuKeeps DEF WriteSVBK, dma, noted
<1>7. ASSUME NEW value \in {0, 1}, WriteVBK(value) PROVE DmaInv'
  BY <1>7, CpuKeeps DEF WriteVBK, dma, noted
<1>8. CASE UNCHANGED mapVars
  BY <1>8, CpuKeeps DEF mapVars, dma, noted
<1>9. ASSUME NEW from, NEW to, NEW count, HdmaBegins(from, to, count) PROVE DmaInv'
  BY <1>9, CpuKeeps DEF HdmaBegins, dma, noted
<1>10. CASE HdmaWaits \/ HdmaReads \/ HdmaStores
  BY <1>10, HdmaKeeps
<1> QED BY <1>1, <1>2, <1>3, <1>4, <1>5, <1>6, <1>7, <1>8, <1>9, <1>10 DEF MapNext

(* An access on another bus is none that the DMA is in the way of.         *)
LEMMA ApartIsFree ==
    ASSUME DmaInv, NEW page \in Pages, NEW place, Apart(page)
    PROVE  page # \hFE /\ ~InDmaUse(page, place)
<1>1. page \in 0 .. 255 /\ page < \hFE /\ SrcPage \in 0 .. 255
  BY MapAssumption DEF Apart, DmaInv, DmaTyped
<1>2. Buses(page) \intersect Buses(SrcPage) = {}
  BY DEF Apart
<1>3. CASE IsCgb /\ page >= \hC0
  <2>1. SrcPage \in \h80 .. \h9F
    BY <1>3 DEF Apart
  <2>2. BusFor(SrcPage) = "vram"
    BY <2>1 DEF BusFor
  <2> QED BY <1>1, <1>3, <2>2 DEF InDmaUse
<1>4. CASE IsCgb /\ ~(page >= \hC0) /\ SrcPage >= \hE0
  <2>1. "main" \in Buses(SrcPage)
    BY <1>1, <1>4 DEF Buses
  <2>2. page \in \h80 .. \h9F
    BY <1>1, <1>2, <1>4, <2>1 DEF Buses
  <2>3. BusFor(page) = "vram"
    BY <2>2 DEF BusFor
  <2> QED BY <1>1, <1>4, <2>3 DEF InDmaUse
<1>5. CASE ~(IsCgb /\ page >= \hC0) /\ ~(IsCgb /\ SrcPage >= \hE0)
  <2>1. BusFor(page) \in Buses(page)
    BY <1>1, <1>5 DEF Buses, BusFor
  <2>2. BusFor(SrcPage) \in Buses(SrcPage)
    BY <1>1, <1>5 DEF Buses, BusFor
  <2>3. BusFor(page) # BusFor(SrcPage)
    BY <1>2, <2>1, <2>2
  <2> QED BY <1>1, <1>5, <2>3 DEF InDmaUse
<1> QED BY <1>1, <1>3, <1>4, <1>5

LEMMA ApartStays == DmaInv => StaysApart
<1> SUFFICES ASSUME DmaInv, NEW page \in Pages, NEW place \in Offsets, Apart(page)
             PROVE  /\ ReadMemory(page, place) = Contents(Cell(page, place))
                    /\ WriteMemory(page, place)
                           => /\ oam' = oam
                              /\ page >= \h80 => cells'[Cell(page, place)] = {New}
  BY DEF StaysApart
<1>1. page # \hFE /\ ~InDmaUse(page, place)
  BY ApartIsFree
<1>2. ReadMemory(page, place) = Contents(Cell(page, place))
  BY <1>1 DEF ReadMemory
<1>3. ASSUME WriteMemory(page, place)
      PROVE  oam' = oam /\ (page >= \h80 => cells'[Cell(page, place)] = {New})
  <2>1. WriteCell(page, place) /\ oam' = oam
    BY <1>1, <1>3 DEF WriteMemory
  <2>2. page \in 0 .. 255
    BY MapAssumption
  <2>3. ASSUME page >= \h80 PROVE cells'[Cell(page, place)] = {New}
    <3> DEFINE here == Cell(page, place)
    <3>1. cells' = [cell \in DOMAIN cells \union {here} |-> IF cell = here THEN {New} ELSE cells[cell]]
      BY <2>1, <2>2, <2>3 DEF WriteCell
    <3> HIDE DEF here
    <3>2. cells'[here] = {New}
      BY <3>1
    <3> QED BY <3>2 DEF here
  <2> QED BY <2>1, <2>3
<1> QED BY <1>2, <1>3

(* The DMA to OAM copies its source byte by byte, as it was at the moment, *)
(* whatever the CPU does on another bus, and an access there is that of a  *)
(* machine without DMA (GB_dma_run, is_addr_in_dma_use).  The bytes that   *)
(* HDMA makes it pass over, or writes, are excepted, those after them are  *)
(* not (GB_hdma_run).                                                      *)
THEOREM DmaKeepsToItsBus == MapSpec => DmaOnItsBus
<1>1. DmaInv => DmaCopies /\ StaysApart
  BY ApartStays DEF DmaInv
<1> QED BY <1>1, DmaBegins, DmaPreserved, PTL DEF MapSpec, DmaOnItsBus
-----------------------------------------------------------------------------
(* The speed switch *)

Clocks == [double : BOOLEAN, countdown : 0 .. 6, freeze : 0 .. 5, halt : Nat, halted : BOOLEAN,
           alignment : 0 .. 7]

(* Only a switch to double speed is counted down, and it outlasts the      *)
(* freeze that came with it.                                               *)
Good(c) == /\ c \in Clocks
           /\ c.countdown > 0 => c.freeze <= c.countdown /\ ~c.double
           /\ c.double => c.freeze = 0

(* What is left of a number.                                               *)
Less(a, b) == IF a > b THEN a - b ELSE 0

(* A batch at one speed.                                                   *)
LEMMA RunForIs ==
    ASSUME NEW c \in Clocks, NEW n \in Nat, lcd \in BOOLEAN
    PROVE  LET r == RunFor(c, n) IN
           /\ r.clock \in Clocks /\ r.units = UnitsOf(c.double, Less(n, c.freeze))
           /\ r.clock.double = c.double /\ r.clock.countdown = c.countdown
           /\ r.clock.freeze = Less(c.freeze, n)
           /\ r.clock.alignment = IF lcd THEN (c.alignment + r.units) % 8 ELSE c.alignment
           /\ r.clock.halt = Less(c.halt, n)
           /\ r.clock.halted = (c.halted /\ ~(c.halt > 0 /\ r.clock.halt = 0))
<1> DEFINE halt   == IF c.halt > n THEN c.halt - n ELSE 0
           frozen == IF c.freeze < n THEN c.freeze ELSE n
           units  == UnitsOf(c.double, n - frozen)
           al     == IF lcd THEN (c.alignment + units) % 8 ELSE c.alignment
           hd     == c.halted /\ ~(c.halt > 0 /\ halt = 0)
<1>1. /\ c.halt \in Nat /\ c.freeze \in 0 .. 5 /\ c.alignment \in 0 .. 7
      /\ c.double \in BOOLEAN /\ c.halted \in BOOLEAN /\ c.countdown \in 0 .. 6
  BY DEF Clocks
<1>2. halt \in Nat /\ halt = Less(c.halt, n)
  BY <1>1 DEF Less
<1>3. n - frozen \in Nat /\ n - frozen = Less(n, c.freeze) /\ c.freeze - frozen \in 0 .. 5
      /\ c.freeze - frozen = Less(c.freeze, n)
  BY <1>1 DEF Less
<1>4. units \in Nat /\ units = UnitsOf(c.double, Less(n, c.freeze))
  BY <1>1, <1>3 DEF UnitsOf
<1> HIDE DEF units
<1>5. al \in 0 .. 7
  BY <1>1, <1>4
<1>6. hd \in BOOLEAN
  OBVIOUS
<1>7. RunFor(c, n) = [clock |-> [c EXCEPT !.halt = halt, !.halted = hd, !.freeze = c.freeze - frozen,
                                        !.alignment = al],
                      units |-> units]
  BY DEF RunFor, units
<1> HIDE DEF halt, frozen, al, hd
<1> DEFINE d == [c EXCEPT !.halt = halt, !.halted = hd, !.freeze = c.freeze - frozen, !.alignment = al]
<1>8. /\ d \in Clocks /\ d.halt = halt /\ d.halted = hd /\ d.freeze = c.freeze - frozen
      /\ d.alignment = al /\ d.double = c.double /\ d.countdown = c.countdown
  BY <1>1, <1>2, <1>3, <1>5, <1>6 DEF Clocks
<1> HIDE DEF d
<1>9. RunFor(c, n).clock = d /\ RunFor(c, n).units = units
  BY <1>7 DEF d
<1> QED BY <1>2, <1>3, <1>4, <1>8, <1>9 DEF al, hd

(* Alignments are counted modulo eight.                                    *)
LEMMA TwiceModulo == \A a, u, v \in Nat : (((a + u) % 8) + v) % 8 = (a + u + v) % 8
OBVIOUS

(* The units of a batch that does not end with the countdown.              *)
Units(c, n) ==
    IF c.countdown \in {0} \union n + 1 .. 6 THEN UnitsOf(c.double, Less(n, c.freeze))
    ELSE UnitsOf(c.double, c.countdown - c.freeze) + UnitsOf(~c.double, n - c.countdown)

AdvanceFacts(c, n, r) ==
    /\ Good(r.clock) /\ r.units \in Nat
    /\ ~Ends(c, n) => r.units = Units(c, n)
    /\ r.clock.double = (IF c.countdown \in 1 .. n THEN ~c.double ELSE c.double)
    /\ r.clock.countdown = Less(c.countdown, n)
    /\ r.clock.freeze = Less(c.freeze, n)
    /\ r.clock.alignment = IF lcd THEN (c.alignment + r.units) % 8 ELSE c.alignment
    /\ c.halt = 0 => r.clock.halt = 0 /\ r.clock.halted = c.halted
    /\ (c.halt > 0 => c.halted) => (r.clock.halt > 0 => r.clock.halted)

LEMMA AdvanceIs ==
    ASSUME NEW c, Good(c), NEW n \in Nat, lcd \in BOOLEAN
    PROVE  AdvanceFacts(c, n, Advance(c, n))
<1>1. /\ c \in Clocks /\ c.halt \in Nat /\ c.freeze \in 0 .. 5 /\ c.alignment \in 0 .. 7
      /\ c.double \in BOOLEAN /\ c.halted \in BOOLEAN /\ c.countdown \in 0 .. 6
      /\ c.countdown > 0 => c.freeze <= c.countdown /\ ~c.double
      /\ c.double => c.freeze = 0
  BY DEF Good, Clocks
<1>u. \A b \in BOOLEAN, k \in Nat : UnitsOf(b, k) \in Nat
  BY DEF UnitsOf
<1>2. CASE c.countdown = 0
  <2> DEFINE r == RunFor(c, n)
  <2>1. Advance(c, n) = r
    BY <1>2 DEF Advance
  <2>2. /\ r.clock \in Clocks /\ r.units = UnitsOf(c.double, Less(n, c.freeze))
        /\ r.clock.double = c.double /\ r.clock.countdown = c.countdown
        /\ r.clock.freeze = Less(c.freeze, n)
        /\ r.clock.alignment = IF lcd THEN (c.alignment + r.units) % 8 ELSE c.alignment
        /\ r.clock.halt = Less(c.halt, n)
        /\ r.clock.halted = (c.halted /\ ~(c.halt > 0 /\ r.clock.halt = 0))
    BY <1>1, RunForIs
  <2> HIDE DEF r
  <2>3. Less(n, c.freeze) \in Nat /\ Less(c.countdown, n) = 0
    BY <1>1, <1>2 DEF Less
  <2>4. Good(r.clock) /\ r.units \in Nat /\ r.units = Units(c, n)
    <3>1. c.freeze = 0 => Less(c.freeze, n) = 0
      BY DEF Less
    <3>2. Good(r.clock)
      BY <1>1, <1>2, <2>2, <3>1 DEF Good
    <3> QED BY <1>1, <1>2, <1>u, <2>2, <2>3, <3>2 DEF Units
  <2>5. /\ c.halt = 0 => r.clock.halt = 0 /\ r.clock.halted = c.halted
        /\ (c.halt > 0 => c.halted) => (r.clock.halt > 0 => r.clock.halted)
    BY <1>1, <2>2 DEF Less
  <2> QED BY <1>2, <2>1, <2>2, <2>3, <2>4, <2>5 DEF AdvanceFacts
<1>3. CASE c.countdown > 0 /\ c.countdown = n
  <2> DEFINE d == [c EXCEPT !.double = ~c.double, !.countdown = 0]
             r == RunFor(d, n)
  <2>1. Advance(c, n) = r
    BY <1>1, <1>3 DEF Advance, Toggled
  <2>2. /\ d \in Clocks /\ d.double = ~c.double /\ d.countdown = 0 /\ d.freeze = c.freeze
        /\ d.alignment = c.alignment /\ d.halt = c.halt /\ d.halted = c.halted
    <3> DEFINE e == [c EXCEPT !.double = ~c.double]
    <3>1. /\ e \in Clocks /\ e.double = ~c.double /\ e.countdown = c.countdown /\ e.freeze = c.freeze
          /\ e.alignment = c.alignment /\ e.halt = c.halt /\ e.halted = c.halted
      BY <1>1 DEF Clocks
    <3>2. d = [e EXCEPT !.countdown = 0]
      OBVIOUS
    <3> HIDE DEF e, d
    <3> QED BY <3>1, <3>2 DEF Clocks
  <2> HIDE DEF d
  <2>3. /\ r.clock \in Clocks /\ r.units = UnitsOf(d.double, Less(n, d.freeze))
        /\ r.clock.double = d.double /\ r.clock.countdown = d.countdown
        /\ r.clock.freeze = Less(d.freeze, n)
        /\ r.clock.alignment = IF lcd THEN (d.alignment + r.units) % 8 ELSE d.alignment
        /\ r.clock.halt = Less(d.halt, n)
        /\ r.clock.halted = (d.halted /\ ~(d.halt > 0 /\ r.clock.halt = 0))
    BY <2>2, RunForIs
  <2> HIDE DEF r
  <2>4. Less(n, d.freeze) \in Nat /\ Less(c.countdown, n) = 0 /\ d.double \in BOOLEAN
    BY <1>1, <1>3, <2>2 DEF Less
  <2>5. Good(r.clock) /\ r.units \in Nat /\ Ends(c, n)
    <3>0. Less(d.freeze, n) = 0
      BY <1>1, <1>3, <2>2 DEF Less
    <3>1. Good(r.clock)
      BY <2>2, <2>3, <3>0 DEF Good
    <3>2. r.units \in Nat
      BY <1>u, <2>3, <2>4
    <3> QED BY <1>3, <3>1, <3>2 DEF Ends
  <2>6. /\ c.halt = 0 => r.clock.halt = 0 /\ r.clock.halted = c.halted
        /\ (c.halt > 0 => c.halted) => (r.clock.halt > 0 => r.clock.halted)
    BY <1>1, <2>2, <2>3 DEF Less
  <2> QED BY <1>1, <1>3, <2>1, <2>2, <2>3, <2>4, <2>5, <2>6 DEF AdvanceFacts
<1>4. CASE c.countdown > n
  <2> DEFINE d == [c EXCEPT !.countdown = c.countdown - n]
             r == RunFor(d, n)
  <2>1. Advance(c, n) = r
    BY <1>1, <1>4 DEF Advance
  <2>2. /\ d \in Clocks /\ d.double = c.double /\ d.countdown = c.countdown - n /\ d.freeze = c.freeze
        /\ d.alignment = c.alignment /\ d.halt = c.halt /\ d.halted = c.halted
    BY <1>1, <1>4 DEF Clocks
  <2> HIDE DEF d
  <2>3. /\ r.clock \in Clocks /\ r.units = UnitsOf(d.double, Less(n, d.freeze))
        /\ r.clock.double = d.double /\ r.clock.countdown = d.countdown
        /\ r.clock.freeze = Less(d.freeze, n)
        /\ r.clock.alignment = IF lcd THEN (d.alignment + r.units) % 8 ELSE d.alignment
        /\ r.clock.halt = Less(d.halt, n)
        /\ r.clock.halted = (d.halted /\ ~(d.halt > 0 /\ r.clock.halt = 0))
    BY <2>2, RunForIs
  <2> HIDE DEF r
  <2>4. Less(n, d.freeze) \in Nat /\ Less(c.countdown, n) = c.countdown - n /\ c.countdown \notin 1 .. n
    BY <1>1, <1>4, <2>2 DEF Less
  <2>5. Less(c.freeze, n) <= c.countdown - n
    BY <1>1, <1>4 DEF Less
  <2>6. Good(r.clock) /\ r.units \in Nat
    BY <1>1, <1>4, <1>u, <2>2, <2>3, <2>4, <2>5 DEF Good
  <2>7. r.units = Units(c, n)
    BY <1>1, <1>4, <2>2, <2>3 DEF Units
  <2>8. /\ c.halt = 0 => r.clock.halt = 0 /\ r.clock.halted = c.halted
        /\ (c.halt > 0 => c.halted) => (r.clock.halt > 0 => r.clock.halted)
    BY <1>1, <2>2, <2>3 DEF Less
  <2> QED BY <1>1, <1>4, <2>1, <2>2, <2>3, <2>4, <2>6, <2>7, <2>8 DEF AdvanceFacts
<1>5. CASE c.countdown > 0 /\ c.countdown < n
  <2> DEFINE k == c.countdown
             d == [c EXCEPT !.countdown = 0]
             b == RunFor(d, k)
             e == [b.clock EXCEPT !.double = ~b.clock.double]
             a == RunFor(e, n - k)
             r == [a EXCEPT !.units = a.units + b.units]
  <2>1. Advance(c, n) = r
    BY <1>1, <1>5 DEF Advance
  <2>2. /\ d \in Clocks /\ d.double = c.double /\ d.countdown = 0 /\ d.freeze = c.freeze
        /\ d.alignment = c.alignment /\ d.halt = c.halt /\ d.halted = c.halted
    BY <1>1 DEF Clocks
  <2> HIDE DEF d
  <2>3. /\ b.clock \in Clocks /\ b.units = UnitsOf(d.double, Less(k, d.freeze))
        /\ b.clock.double = d.double /\ b.clock.countdown = d.countdown
        /\ b.clock.freeze = Less(d.freeze, k)
        /\ b.clock.alignment = IF lcd THEN (d.alignment + b.units) % 8 ELSE d.alignment
        /\ b.clock.halt = Less(d.halt, k)
        /\ b.clock.halted = (d.halted /\ ~(d.halt > 0 /\ b.clock.halt = 0))
    BY <1>1, <1>5, <2>2, RunForIs
  <2> HIDE DEF b
  <2>4. /\ e \in Clocks /\ e.double = ~c.double /\ e.countdown = 0 /\ e.freeze = b.clock.freeze
        /\ e.alignment = b.clock.alignment /\ e.halt = b.clock.halt /\ e.halted = b.clock.halted
    BY <1>1, <2>2, <2>3 DEF Clocks
  <2> HIDE DEF e
  <2>5. n - k \in Nat
    BY <1>1, <1>5
  <2>6. /\ a.clock \in Clocks /\ a.units = UnitsOf(e.double, Less(n - k, e.freeze))
        /\ a.clock.double = e.double /\ a.clock.countdown = e.countdown
        /\ a.clock.freeze = Less(e.freeze, n - k)
        /\ a.clock.alignment = IF lcd THEN (e.alignment + a.units) % 8 ELSE e.alignment
        /\ a.clock.halt = Less(e.halt, n - k)
        /\ a.clock.halted = (e.halted /\ ~(e.halt > 0 /\ a.clock.halt = 0))
    BY <2>4, <2>5, RunForIs
  <2>7. r.clock = a.clock /\ r.units = a.units + b.units
    BY DEF RunFor
  <2> HIDE DEF a, r
  <2>8. /\ e.freeze = 0 /\ Less(n - k, e.freeze) = n - k /\ Less(k, d.freeze) = k - c.freeze
        /\ Less(e.freeze, n - k) = 0 /\ Less(c.freeze, n) = 0 /\ Less(c.countdown, n) = 0
        /\ k - c.freeze \in Nat
    BY <1>1, <1>5, <2>2, <2>3, <2>4, <2>5 DEF Less
  <2>9. a.units \in Nat /\ b.units \in Nat
    BY <1>1, <1>u, <2>2, <2>3, <2>4, <2>5, <2>6, <2>8
  <2>10. r.units = Units(c, n)
    BY <1>1, <1>5, <2>2, <2>3, <2>4, <2>6, <2>7, <2>8, <2>9 DEF Units
  <2>11. Good(r.clock)
    BY <2>4, <2>6, <2>7, <2>8 DEF Good
  <2>12. r.clock.alignment = IF lcd THEN (c.alignment + r.units) % 8 ELSE c.alignment
    <3>1. CASE lcd
      <4>1. a.clock.alignment = (((c.alignment + b.units) % 8) + a.units) % 8
        BY <3>1, <2>2, <2>3, <2>4, <2>6
      <4>2. a.clock.alignment = (c.alignment + b.units + a.units) % 8
        BY <1>1, <2>9, <4>1, TwiceModulo
      <4> QED BY <1>1, <3>1, <4>2, <2>7, <2>9
    <3>2. CASE ~lcd
      BY <3>2, <2>2, <2>3, <2>4, <2>6, <2>7
    <3> QED BY <3>1, <3>2
  <2>13. /\ c.halt = 0 => r.clock.halt = 0 /\ r.clock.halted = c.halted
         /\ (c.halt > 0 => c.halted) => (r.clock.halt > 0 => r.clock.halted)
    BY <1>1, <1>5, <2>2, <2>3, <2>4, <2>5, <2>6, <2>7 DEF Less
  <2> QED BY <1>1, <1>5, <2>1, <2>4, <2>6, <2>7, <2>8, <2>9, <2>10, <2>11, <2>12, <2>13 DEF AdvanceFacts
<1> QED BY <1>1, <1>2, <1>3, <1>4, <1>5

(* The numbers after i up to j.                                            *)
LEMMA IntervalSize ==
    ASSUME NEW i \in Nat, NEW j \in Nat
    PROVE  Cardinality(i + 1 .. j) = Less(j, i)
<1>1. Cardinality(i + 1 .. j) = IF i + 1 > j THEN 0 ELSE j - (i + 1) + 1
  BY FS_Interval
<1> QED BY <1>1 DEF Less

(* These are the units that pass, cycle by cycle.                          *)
LEMMA UnitsAgree ==
    ASSUME NEW c, Good(c), NEW n \in Nat, ~Ends(c, n)
    PROVE  UnitsPassed(c, n) = Units(c, n)
<1> DEFINE f == c.freeze
           k == c.countdown
           b == c.double
<1>1. /\ f \in Nat /\ b \in BOOLEAN /\ k \in 0 .. 6 /\ k \in Nat
      /\ k > 0 => f <= k /\ ~b
      /\ k # 0 => k # n
  BY DEF Good, Clocks, Ends
<1>2. /\ Counted(c, n) = f + 1 .. n
      /\ AtOldSpeed(c, n) = {i \in f + 1 .. n : k = 0 \/ i <= k}
      /\ Units(c, n) = IF k \in {0} \union n + 1 .. 6 THEN UnitsOf(b, Less(n, f))
                       ELSE UnitsOf(b, k - f) + UnitsOf(~b, n - k)
      /\ UnitsPassed(c, n) = UnitsOf(b, Cardinality(AtOldSpeed(c, n)))
                            + UnitsOf(~b, Cardinality(Counted(c, n) \ AtOldSpeed(c, n)))
  BY DEF Counted, AtOldSpeed, Units, UnitsPassed
<1> HIDE DEF f, k, b
<1>3. UnitsOf(~b, 0) = 0 /\ \A u \in Nat : UnitsOf(b, u) \in Nat
  BY DEF UnitsOf
<1>4. CASE k = 0 \/ k > n
  <2>1. AtOldSpeed(c, n) = f + 1 .. n /\ Counted(c, n) \ AtOldSpeed(c, n) = {}
    BY <1>1, <1>2, <1>4
  <2>2. Cardinality(f + 1 .. n) = Less(n, f) /\ Cardinality({}) = 0
    BY <1>1, IntervalSize, FS_EmptySet
  <2>3. Less(n, f) \in Nat
    BY <1>1 DEF Less
  <2>4. UnitsPassed(c, n) = UnitsOf(b, Less(n, f)) + 0
    BY <1>2, <1>3, <2>1, <2>2
  <2>5. Units(c, n) = UnitsOf(b, Less(n, f))
    BY <1>1, <1>2, <1>4
  <2> QED BY <1>3, <2>3, <2>4, <2>5
<1>5. CASE k > 0 /\ k < n
  <2>1. AtOldSpeed(c, n) = f + 1 .. k /\ Counted(c, n) \ AtOldSpeed(c, n) = k + 1 .. n
    BY <1>1, <1>2, <1>5
  <2>2. Cardinality(f + 1 .. k) = Less(k, f) /\ Cardinality(k + 1 .. n) = Less(n, k)
    BY <1>1, IntervalSize
  <2>3. Less(k, f) = k - f /\ Less(n, k) = n - k
    BY <1>1, <1>5 DEF Less
  <2>4. UnitsPassed(c, n) = UnitsOf(b, k - f) + UnitsOf(~b, n - k)
    BY <1>2, <2>1, <2>2, <2>3
  <2>5. Units(c, n) = UnitsOf(b, k - f) + UnitsOf(~b, n - k)
    BY <1>1, <1>2, <1>5
  <2> QED BY <2>4, <2>5
<1> QED BY <1>1, <1>4, <1>5

-----------------------------------------------------------------------------
(* The picture keeps to machine cycles: at single speed, the units it has  *)
(* counted and those of the pending cycles, less the frozen ones, are      *)
(* whole machine cycles of eight; at double speed, and on the way to it,   *)
(* of four.                                                                *)
Aligned(c, p) ==
    /\ c.double => (c.alignment + p) % 4 = 0
    /\ c.countdown > 0 => (c.alignment + p + c.countdown - 2 * c.freeze) % 4 = 0
    /\ ~c.double /\ c.countdown = 0 => (c.alignment + 2 * p - 2 * c.freeze) % 8 = 0

(* The modulus of what was taken modulo eight before.                      *)
LEMMA Wrapped ==
    ASSUME NEW x \in Int, NEW y \in Int
    PROVE  (((x % 8) + y) % 8) = ((x + y) % 8) /\ (((x % 8) + y) % 4) = ((x + y) % 4)
<1>1. x % 8 \in 0 .. 7 /\ x = 8 * (x \div 8) + (x % 8) /\ x \div 8 \in Int
  OBVIOUS
<1> QED BY <1>1

(* An alignment that goes on by u, and its parts.                          *)
LEMMA GoesOn ==
    ASSUME NEW a \in Int, NEW u \in Int, NEW v \in Int, NEW w \in Int, a + u + v = w
    PROVE  /\ w % 4 = 0 => (((a + u) % 8) + v) % 4 = 0
           /\ w % 8 = 0 => (((a + u) % 8) + v) % 8 = 0
BY Wrapped

LEMMA AdvanceAligned ==
    ASSUME NEW c, Good(c), NEW n \in Nat, lcd = TRUE, ~Ends(c, n), NEW p \in Int, Aligned(c, p)
    PROVE  Aligned(Advance(c, n).clock, p - n)
<1> DEFINE r == Advance(c, n)
           a == c.alignment
           f == c.freeze
           k == c.countdown
           b == c.double
           u == r.units
<1> SUFFICES Aligned(r.clock, p - n)
  OBVIOUS
<1>1. AdvanceFacts(c, n, r)
  BY AdvanceIs
<1> HIDE DEF r
<1>2. /\ f \in 0 .. 5 /\ a \in 0 .. 7 /\ b \in BOOLEAN /\ k \in 0 .. 6
      /\ f \in Nat /\ k \in Nat /\ a \in Int
      /\ k > 0 => f <= k /\ ~b
      /\ b => f = 0
      /\ k # 0 => k # n
  BY DEF Good, Clocks, Ends
<1>3. /\ u \in Nat
      /\ u = IF k \in {0} \union n + 1 .. 6 THEN UnitsOf(b, Less(n, f))
             ELSE UnitsOf(b, k - f) + UnitsOf(~b, n - k)
      /\ r.clock.double = (IF k \in 1 .. n THEN ~b ELSE b)
      /\ r.clock.countdown = Less(k, n)
      /\ r.clock.freeze = Less(f, n)
      /\ r.clock.alignment = (a + u) % 8
  BY <1>1 DEF AdvanceFacts, Units
<1>4. /\ b => (a + p) % 4 = 0
      /\ k > 0 => (a + p + k - 2 * f) % 4 = 0
      /\ ~b /\ k = 0 => (a + 2 * p - 2 * f) % 8 = 0
  BY DEF Aligned
<1> HIDE DEF a, f, k, b, u
<1>5. \/ f < n /\ Less(n, f) = n - f /\ Less(f, n) = 0
      \/ f >= n /\ Less(n, f) = 0 /\ Less(f, n) = f - n
  BY <1>2 DEF Less
<1>6. CASE b
  <2>1. /\ r.clock.double /\ r.clock.countdown = 0 /\ f = 0 /\ k = 0 /\ u = n
    BY <1>2, <1>3, <1>6 DEF Less, UnitsOf
  <2> DEFINE v == p - n
             w == a + p
  <2>2. v \in Int /\ w \in Int /\ u \in Int /\ a + u + v = w /\ w % 4 = 0
    <3>a. a \in Int /\ u = n
      BY <1>2, <2>1
    <3>1. v \in Int /\ w \in Int /\ u \in Int /\ a + u + v = w
      BY <3>a
    <3>2. w % 4 = 0
      BY <1>2, <1>4, <1>6
    <3> QED BY <3>1, <3>2
  <2> HIDE DEF v, w
  <2>3. (((a + u) % 8) + v) % 4 = 0
    BY <1>2, <2>2, GoesOn
  <2>4. (((a + u) % 8) + (p - n)) % 4 = 0
    BY <2>3 DEF v
  <2> QED BY <1>3, <2>1, <2>4 DEF Aligned
<1>7. CASE ~b /\ k = 0
  <2>1. /\ ~r.clock.double /\ r.clock.countdown = 0 /\ u = 2 * Less(n, f)
    BY <1>2, <1>3, <1>7 DEF Less, UnitsOf
  <2> DEFINE g == Less(f, n)
             v == 2 * (p - n) - 2 * g
             w == a + 2 * p - 2 * f
  <2>2. g \in Int /\ v \in Int /\ w \in Int /\ u \in Int /\ a + u + v = w /\ w % 8 = 0
    <3>1. g \in Int /\ v \in Int /\ w \in Int /\ u \in Int /\ a + u + v = w
      BY <1>2, <1>3, <1>5, <1>7, <2>1
    <3>2. w % 8 = 0
      BY <1>2, <1>4, <1>7
    <3> QED BY <3>1, <3>2
  <2> HIDE DEF v, w, g
  <2>3. (((a + u) % 8) + v) % 8 = 0
    BY <1>2, <2>2, GoesOn
  <2>4. ((a + u) % 8) \in Int
    BY <1>2, <2>2
  <2>5. ((a + u) % 8) + v = ((a + u) % 8) + 2 * (p - n) - 2 * g
    BY <2>2, <2>4 DEF v
  <2> USE DEF g
  <2> QED BY <1>3, <2>1, <2>3, <2>5 DEF Aligned
<1>8. CASE k > n
  <2>1. /\ ~r.clock.double /\ r.clock.countdown = k - n /\ k - n > 0 /\ u = 2 * Less(n, f)
    BY <1>2, <1>3, <1>8 DEF Less, UnitsOf
  <2> DEFINE g == Less(f, n)
             v == (p - n) + (k - n) - 2 * g
             w == a + p + k - 2 * f
  <2>2. g \in Int /\ v \in Int /\ w \in Int /\ u \in Int /\ a + u + v = w /\ w % 4 = 0
    <3> DEFINE l == Less(n, f)
    <3>a. /\ a \in Int /\ f \in Int /\ k \in Int /\ u \in Int /\ g \in Int /\ l \in Int
          /\ n - f = l - g /\ u = 2 * l
      BY <1>2, <1>3, <1>5, <2>1
    <3> HIDE DEF g, l
    <3>1. g \in Int /\ v \in Int /\ w \in Int /\ u \in Int /\ a + u + v = w
      BY <3>a
    <3>2. w % 4 = 0
      BY <1>2, <1>4, <1>8
    <3> QED BY <3>1, <3>2
  <2> HIDE DEF v, w, g
  <2>3. (((a + u) % 8) + v) % 4 = 0
    BY <1>2, <2>2, GoesOn
  <2>4. ((a + u) % 8) \in Int
    BY <1>2, <2>2
  <2>5. ((a + u) % 8) + v = ((a + u) % 8) + (p - n) + (k - n) - 2 * g
    BY <1>2, <2>2, <2>4 DEF v
  <2> USE DEF g
  <2> QED BY <1>3, <2>1, <2>3, <2>5 DEF Aligned
<1>9. CASE k > 0 /\ k < n
  <2>1. /\ r.clock.double /\ r.clock.countdown = 0 /\ u = 2 * (k - f) + (n - k)
    <3>1. ~b /\ k \in 1 .. n /\ k \notin {0} \union n + 1 .. 6
      BY <1>2, <1>9
    <3>2. UnitsOf(b, k - f) = 2 * (k - f) /\ UnitsOf(~b, n - k) = n - k
      BY <3>1 DEF UnitsOf
    <3>3. Less(k, n) = 0
      BY <1>2, <1>9 DEF Less
    <3> QED BY <1>3, <3>1, <3>2, <3>3
  <2> DEFINE v == p - n
             w == a + p + k - 2 * f
  <2>2. v \in Int /\ w \in Int /\ u \in Int /\ a + u + v = w /\ w % 4 = 0
    <3>1. v \in Int /\ w \in Int /\ u \in Int /\ a + u + v = w
      BY <1>2, <1>3, <1>9, <2>1
    <3>2. w % 4 = 0
      BY <1>2, <1>4, <1>9
    <3> QED BY <3>1, <3>2
  <2> HIDE DEF v, w
  <2>3. (((a + u) % 8) + v) % 4 = 0
    BY <1>2, <2>2, GoesOn
  <2>4. (((a + u) % 8) + (p - n)) % 4 = 0
    BY <2>3 DEF v
  <2> QED BY <1>3, <2>1, <2>4 DEF Aligned
<1> QED BY <1>2, <1>6, <1>7, <1>8, <1>9

(* Four cycles more that are pending.                                      *)
LEMMA AlignedOn ==
    ASSUME NEW c, Good(c), NEW p \in Int
    PROVE  /\ Aligned(c, p) => Aligned(c, p + 4)
           /\ Aligned(c, p) => Aligned(c, p + 8)
           /\ Aligned(c, p) => Aligned(c, p + 12)
<1> DEFINE a == c.alignment
           f == c.freeze
           k == c.countdown
<1>1. a \in Int /\ f \in Int /\ k \in Int
  BY DEF Good, Clocks
<1> DEFINE A(q) == /\ c.double => (a + q) % 4 = 0
                   /\ k > 0 => (a + q + k - 2 * f) % 4 = 0
                   /\ ~c.double /\ k = 0 => (a + 2 * q - 2 * f) % 8 = 0
<1>2. \A q \in Int : Aligned(c, q) = A(q)
  BY DEF Aligned
<1> HIDE DEF a, f, k
<1>3. \A q \in Int : Aligned(c, q) => Aligned(c, q + 4)
  <2> SUFFICES ASSUME NEW q \in Int, A(q) PROVE A(q + 4)
    <3>1. \A q \in Int : q + 4 \in Int
      OBVIOUS
    <3> HIDE DEF A
    <3> QED BY <1>2, <3>1
  <2>1. (a + q) % 4 = 0 => (a + (q + 4)) % 4 = 0
    BY <1>1
  <2>2. (a + q + k - 2 * f) % 4 = 0 => (a + (q + 4) + k - 2 * f) % 4 = 0
    BY <1>1
  <2>3. (a + 2 * q - 2 * f) % 8 = 0 => (a + 2 * (q + 4) - 2 * f) % 8 = 0
    BY <1>1
  <2> QED BY <2>1, <2>2, <2>3
<1>4. p + 4 \in Int /\ p + 8 \in Int /\ (p + 4) + 4 = p + 8 /\ (p + 8) + 4 = p + 12
  OBVIOUS
<1> QED BY <1>3, <1>4

(* What is accounted for so far.                                           *)
Accounts(r) == Good(r.clock) /\ r.exact \in BOOLEAN /\ (r.exact \/ r.drift = 0)

LEMMA ThenIs ==
    ASSUME NEW r, Accounts(r), NEW n \in Nat, lcd \in BOOLEAN
    PROVE  LET t == Then(r, n) IN
           /\ Accounts(t) /\ AdvanceFacts(r.clock, n, [clock |-> t.clock, units |-> Advance(r.clock, n).units])
           /\ t.clock = Advance(r.clock, n).clock
           /\ t.exact = (r.exact \/ Ends(r.clock, n))
<1> DEFINE c == r.clock
           t == Then(r, n)
           a == Advance(c, n)
<1>1. AdvanceFacts(c, n, a)
  BY AdvanceIs DEF Accounts
<1>2. /\ t.clock = a.clock /\ t.drift = r.drift + a.units - UnitsPassed(c, n)
      /\ t.exact = (r.exact \/ Ends(c, n))
  BY DEF Then
<1> HIDE DEF t, a
<1>3. t.exact \/ t.drift = 0
  <2>1. CASE ~r.exact /\ ~Ends(c, n)
    <3>1. UnitsPassed(c, n) = a.units /\ a.units \in Nat /\ r.drift = 0
      BY <1>1, <2>1, UnitsAgree DEF AdvanceFacts, Accounts
    <3> QED BY <1>2, <3>1
  <2> QED BY <1>2, <2>1 DEF Accounts
<1>4. Good(t.clock) /\ t.exact \in BOOLEAN
  BY <1>1, <1>2 DEF AdvanceFacts, Accounts
<1>5. AdvanceFacts(c, n, [clock |-> t.clock, units |-> a.units])
  BY <1>1, <1>2 DEF AdvanceFacts
<1> QED BY <1>2, <1>3, <1>4, <1>5 DEF Accounts, a, t

(* The effect of a batch on what the program can see, and on the picture.  *)
Passed(c, n, d) ==
    /\ d.double = (IF c.countdown \in 1 .. n THEN ~c.double ELSE c.double)
    /\ d.countdown = Less(c.countdown, n) /\ d.freeze = Less(c.freeze, n)
    /\ c.halt = 0 => d.halt = 0 /\ d.halted = c.halted
    /\ (c.halt > 0 => c.halted) => (d.halt > 0 => d.halted)

LEMMA ThenPasses ==
    ASSUME NEW r, Accounts(r), NEW n \in Nat, lcd \in BOOLEAN, NEW p \in Int,
           lcd /\ ~r.exact => Aligned(r.clock, p) \/ offset
    PROVE  LET t == Then(r, n) IN
           /\ Accounts(t) /\ Passed(r.clock, n, t.clock)
           /\ r.exact => t.exact
           /\ lcd /\ ~t.exact => Aligned(t.clock, p - n) \/ offset
<1> DEFINE t == Then(r, n)
<1>1. /\ Accounts(t) /\ AdvanceFacts(r.clock, n, [clock |-> t.clock, units |-> Advance(r.clock, n).units])
      /\ t.clock = Advance(r.clock, n).clock
      /\ t.exact = (r.exact \/ Ends(r.clock, n))
  BY ThenIs
<1>2. Good(r.clock)
  BY DEF Accounts
<1> HIDE DEF t
<1>3. Passed(r.clock, n, t.clock)
  BY <1>1 DEF AdvanceFacts, Passed
<1>4. ASSUME lcd, ~t.exact, ~offset PROVE Aligned(t.clock, p - n)
  <2>1. lcd = TRUE /\ ~r.exact /\ ~Ends(r.clock, n) /\ Aligned(r.clock, p)
    BY <1>1, <1>4
  <2> QED BY <1>1, <1>2, <2>1, AdvanceAligned
<1> QED BY <1>1, <1>3, <1>4 DEF t

-----------------------------------------------------------------------------
SwitchTyped ==
    /\ Good(clock) /\ pending_cycles \in Nat /\ lcd \in BOOLEAN /\ key1 \in BOOLEAN
    /\ stopped \in BOOLEAN /\ exact \in BOOLEAN /\ offset \in BOOLEAN

(* While a switch to double speed is counted down, too few cycles pass for *)
(* the program to ask for the next one before its end.                     *)
LeadInv ==
    clock.countdown > 0 =>
        /\ pending_cycles >= clock.countdown - 2 \/ (clock.countdown = 6 /\ pending_cycles = 0)
        /\ key1 => pending_cycles > clock.countdown

PictureInv == lcd /\ ~exact => Aligned(clock, pending_cycles) \/ offset

SwitchInv ==
    /\ SwitchTyped /\ LeadInv /\ PictureInv /\ (exact \/ drift = 0) /\ NoHaltIsCutShort

LEMMA SwitchBegins == SpeedInit => SwitchInv
<1> SUFFICES ASSUME SpeedInit PROVE SwitchInv
  OBVIOUS
<1>1. /\ clock.double = FALSE /\ clock.countdown = 0 /\ clock.freeze = 0 /\ clock.halt = 0
      /\ clock \in Clocks
  BY DEF SpeedInit, Clocks
<1>2. SwitchTyped
  <2>1. Good(clock)
    BY <1>1 DEF Good
  <2>2. pending_cycles \in Nat /\ lcd \in BOOLEAN /\ key1 \in BOOLEAN /\ stopped \in BOOLEAN
        /\ exact \in BOOLEAN /\ offset \in BOOLEAN
    BY DEF SpeedInit
  <2> QED BY <2>1, <2>2 DEF SwitchTyped
<1>3. LeadInv /\ PictureInv /\ NoHaltIsCutShort
  BY <1>1 DEF SpeedInit, LeadInv, PictureInv, NoHaltIsCutShort
<1> QED BY <1>2, <1>3 DEF SpeedInit, SwitchInv

(* What the properties claim follows.                                      *)
LEMMA SwitchSuffices == SwitchInv => SpeedSwitchKeepsTime
<1> SUFFICES ASSUME SwitchInv PROVE TimeFollowsTheSpeed
  BY DEF SwitchInv, SpeedSwitchKeepsTime
<1>1. ASSUME lcd, ~exact, ~offset, ~clock.double, clock.countdown = 0, clock.freeze = 0,
             pending_cycles % 4 = 0
      PROVE  clock.alignment = 0
  <2> DEFINE a == clock.alignment
             q == pending_cycles
  <2>1. a \in 0 .. 7 /\ q \in Nat /\ q % 4 = 0
    BY <1>1 DEF SwitchInv, SwitchTyped, Good, Clocks
  <2>2. (a + 2 * q - 2 * 0) % 8 = 0
    BY <1>1 DEF SwitchInv, PictureInv, Aligned
  <2> HIDE DEF a, q
  <2>3. a = 0
    <3>1. q = 4 * (q \div 4) /\ q \div 4 \in Nat
      BY <2>1
    <3>2. a + 2 * q - 2 * 0 = a + 8 * (q \div 4)
      BY <2>1, <3>1
    <3>3. (a + 8 * (q \div 4)) % 8 = 0
      BY <2>2, <3>2
    <3> QED BY <2>1, <3>1, <3>3
  <2> QED BY <2>3 DEF a
<1> QED BY <1>1 DEF TimeFollowsTheSpeed, SwitchInv

(* A batch from the state that there is.                                   *)
LEMMA BatchPasses ==
    ASSUME SwitchInv, NEW n \in Nat
    PROVE  LET t == Then(Now, n) IN
           /\ Accounts(t) /\ Passed(clock, n, t.clock)
           /\ lcd /\ ~t.exact => Aligned(t.clock, pending_cycles - n) \/ offset
<1>1. Now.clock = clock /\ Now.drift = drift /\ Now.exact = exact
  BY DEF Now
<1>2. Accounts(Now)
  BY <1>1 DEF Accounts, SwitchInv, SwitchTyped
<1>3. lcd \in BOOLEAN /\ pending_cycles \in Int
      /\ (lcd /\ ~Now.exact => Aligned(Now.clock, pending_cycles) \/ offset)
  BY <1>1 DEF SwitchInv, SwitchTyped, PictureInv
<1> HIDE DEF Now
<1> QED BY <1>1, <1>2, <1>3, ThenPasses

(* A clock that differs from another one only in the CPU's HALT.           *)
Alike(c, d) ==
    d \in Clocks /\ d.double = c.double /\ d.countdown = c.countdown /\ d.freeze = c.freeze
        /\ d.alignment = c.alignment

LEMMA AlikeIsGood ==
    ASSUME NEW c, Good(c), NEW d, Alike(c, d)
    PROVE  Good(d) /\ \A q \in Int : Aligned(c, q) => Aligned(d, q)
<1>1. Good(d)
  BY DEF Good, Alike
<1>2. \A q \in Int : Aligned(c, q) => Aligned(d, q)
  BY DEF Alike, Aligned
<1> QED BY <1>1, <1>2

(* What an action has to leave behind.                                     *)
LEMMA Settles ==
    ASSUME SwitchInv, NEW r, Accounts(r), Account(r), Alike(r.clock, clock'),
           UNCHANGED <<lcd, offset>>,
           NEW q \in Int, lcd /\ ~r.exact => Aligned(r.clock, q) \/ offset,
           pending_cycles' \in {q, q + 4, q + 8, q + 12}
    PROVE  Good(clock') /\ exact' \in BOOLEAN /\ (exact' \/ drift' = 0) /\ PictureInv'
<1>1. exact' = r.exact /\ drift' = IF r.exact THEN 0 ELSE r.drift
  BY DEF Account
<1>2. Good(r.clock)
  BY DEF Accounts
<1>3. Good(clock')
  BY <1>2, AlikeIsGood
<1>4. Aligned(r.clock, q) => Aligned(clock', pending_cycles')
  <2>1. Aligned(r.clock, q) => Aligned(clock', q)
    BY <1>2, AlikeIsGood
  <2> QED BY <1>3, <2>1, AlignedOn
<1> QED BY <1>1, <1>3, <1>4 DEF Accounts, PictureInv

LEMMA AccessKeeps ==
    ASSUME SwitchInv, NEW early \in {-2, -1, 0, 1}, Access(early),
           UNCHANGED key1 \/ (early = 0 /\ key1' = TRUE)
    PROVE  SwitchInv'
<1> DEFINE n == pending_cycles + early
           r == Then(Now, n)
<1>1. /\ ~clock.halted /\ ~stopped /\ n > 0 /\ pending_cycles' = 4 - early
      /\ clock' = r.clock /\ Account(r) /\ UNCHANGED <<stopped, lcd, halted_by, offset>>
  BY DEF Access, Running
<1>2. pending_cycles \in Nat /\ n \in Nat /\ pending_cycles - n = -early
  BY <1>1 DEF SwitchInv, SwitchTyped
<1>3. /\ Accounts(r) /\ Passed(clock, n, r.clock)
      /\ lcd /\ ~r.exact => Aligned(r.clock, -early) \/ offset
  BY <1>2, BatchPasses
<1> HIDE DEF r, n
<1>4. Good(clock') /\ exact' \in BOOLEAN /\ (exact' \/ drift' = 0) /\ PictureInv'
  <2>1. -early \in Int /\ pending_cycles' = (-early) + 4
    BY <1>1
  <2>2. Alike(r.clock, clock')
    BY <1>1, <1>3 DEF Alike, Accounts, Good
  <2> QED BY <1>1, <1>3, <2>1, <2>2, Settles
<1>5. NoHaltIsCutShort'
  <2>1. clock.halt = 0
    BY <1>1 DEF SwitchInv, SwitchTyped, Good, Clocks, NoHaltIsCutShort
  <2> QED BY <1>1, <1>3, <2>1 DEF Passed, NoHaltIsCutShort
<1>6. LeadInv'
  <2> DEFINE k == clock.countdown
             p == pending_cycles
  <2>1. k \in 0 .. 6 /\ p \in Nat /\ key1 \in BOOLEAN
    BY DEF SwitchInv, SwitchTyped, Good, Clocks
  <2>2. k > 0 => /\ p >= k - 2 \/ (k = 6 /\ p = 0)
                 /\ key1 => p > k
    BY DEF SwitchInv, LeadInv
  <2>3. clock'.countdown = (IF k > p + early THEN k - (p + early) ELSE 0)
        /\ pending_cycles' = 4 - early /\ p + early > 0
    BY <1>1, <1>3 DEF Passed, Less, n
  <2> HIDE DEF k, p
  <2> SUFFICES ASSUME k > p + early
               PROVE  /\ 4 - early >= k - (p + early) - 2
                      /\ key1' => 4 - early > k - (p + early)
    BY <2>3 DEF LeadInv
  <2>4. k > 0
    BY <2>1, <2>3
  <2> QED BY <2>1, <2>2, <2>3, <2>4
<1>7. pending_cycles' \in Nat
  BY <1>1
<1>8. key1' \in BOOLEAN
  BY DEF SwitchInv, SwitchTyped
<1> QED BY <1>1, <1>8, <1>4, <1>5, <1>6, <1>7 DEF SwitchInv, SwitchTyped

LEMMA WaitKeeps == SwitchInv /\ (Fetch \/ cycle_no_access) => SwitchInv'
<1> SUFFICES ASSUME SwitchInv, Fetch \/ cycle_no_access PROVE SwitchInv'
  OBVIOUS
<1>1. /\ pending_cycles' = pending_cycles + 4 /\ pending_cycles \in Nat
      /\ UNCHANGED <<clock, stopped, key1, lcd, halted_by, drift, exact, offset>>
  BY DEF Fetch, cycle_no_access, SwitchInv, SwitchTyped
<1>2. Good(clock)
  BY DEF SwitchInv, SwitchTyped
<1>3. Aligned(clock, pending_cycles) => Aligned(clock, pending_cycles')
  BY <1>1, <1>2, AlignedOn
<1>4. PictureInv'
  BY <1>1, <1>3 DEF SwitchInv, PictureInv
<1>5. LeadInv'
  <2>1. clock.countdown \in 0 .. 6
    BY <1>2 DEF Good, Clocks
  <2> QED BY <1>1, <2>1 DEF SwitchInv, LeadInv
<1>6. NoHaltIsCutShort'
  BY <1>1 DEF SwitchInv, NoHaltIsCutShort
<1> QED BY <1>1, <1>4, <1>5, <1>6 DEF SwitchInv, SwitchTyped

(* What is pending is flushed, and the program has to wait longer than a   *)
(* countdown that is nearly over.                                          *)
LEMMA FlushPasses ==
    ASSUME SwitchInv, pending_cycles > 0
    PROVE  /\ Accounts(Flush) /\ Flush.clock.countdown \in 0 .. 2
           /\ key1 => Flush.clock.countdown = 0
           /\ ~clock.halted => Flush.clock.halt = 0 /\ ~Flush.clock.halted
           /\ lcd /\ ~Flush.exact => Aligned(Flush.clock, 0) \/ offset
<1> DEFINE p == pending_cycles
           k == clock.countdown
           r == Then(Now, p)
<1>1. p \in Nat /\ k \in 0 .. 6 /\ Flush = r /\ p > 0
  BY DEF SwitchInv, SwitchTyped, Good, Clocks, Flush
<1>2. p - p = 0
  BY <1>1
<1>3. /\ Accounts(r) /\ Passed(clock, p, r.clock)
      /\ lcd /\ ~r.exact => Aligned(r.clock, 0) \/ offset
  BY <1>1, <1>2, BatchPasses
<1>4. k > 0 => /\ p >= k - 2
               /\ key1 => p > k
  BY <1>1 DEF SwitchInv, LeadInv
<1> HIDE DEF r
<1>5. r.clock.countdown = Less(k, p)
  BY <1>3 DEF Passed
<1> HIDE DEF p, k
<1>6. r.clock.countdown \in 0 .. 2 /\ (key1 => r.clock.countdown = 0)
  BY <1>1, <1>4, <1>5 DEF Less
<1>7. ASSUME ~clock.halted PROVE r.clock.halt = 0 /\ ~r.clock.halted
  <2>1. clock.halt = 0
    BY <1>7 DEF SwitchInv, SwitchTyped, Good, Clocks, NoHaltIsCutShort
  <2> QED BY <1>3, <1>7, <2>1 DEF Passed
<1> QED BY <1>1, <1>3, <1>6, <1>7

LEMMA LcdcKeeps == SwitchInv /\ WriteLcdc => SwitchInv'
<1> SUFFICES ASSUME SwitchInv, WriteLcdc PROVE SwitchInv'
  OBVIOUS
<1> DEFINE c == Flush.clock
<1>1. /\ ~clock.halted /\ pending_cycles > 0 /\ pending_cycles' = 4 /\ lcd' = ~lcd
      /\ clock' = [c EXCEPT !.alignment = 0] /\ drift' = 0
      /\ exact' = (c.countdown > 0 \/ c.freeze > 0) /\ offset' = clock.double
      /\ UNCHANGED <<stopped, key1, halted_by>>
  BY DEF WriteLcdc, Running
<1>2. Good(c) /\ c.countdown \in 0 .. 2 /\ (key1 => c.countdown = 0) /\ c.halt = 0
  BY <1>1, FlushPasses DEF Accounts
<1> HIDE DEF c
<1>3. /\ Good(clock') /\ clock'.alignment = 0 /\ clock'.double = c.double
      /\ clock'.countdown = c.countdown /\ clock'.freeze = c.freeze /\ clock'.halt = c.halt
  BY <1>1, <1>2 DEF Good, Clocks
<1>4. PictureInv'
  <2> SUFFICES ASSUME ~exact' PROVE Aligned(clock', 4)
    BY <1>1 DEF PictureInv
  <2>0. c.countdown \in Nat /\ c.freeze \in Nat /\ ~(c.countdown > 0) /\ ~(c.freeze > 0)
    <3>1. c.countdown \in Nat /\ c.freeze \in Nat
      BY <1>2 DEF Good, Clocks
    <3>2. ~(c.countdown > 0 \/ c.freeze > 0)
      BY <1>1, Zenon
    <3> QED BY <3>1, <3>2
  <2>1. clock'.countdown = 0 /\ clock'.freeze = 0 /\ clock'.alignment = 0
    BY <1>3, <2>0
  <2>2. (0 + 4) % 4 = 0 /\ (0 + 2 * 4 - 2 * 0) % 8 = 0
    OBVIOUS
  <2> QED BY <2>1, <2>2 DEF Aligned
<1>5. LeadInv' /\ NoHaltIsCutShort'
  BY <1>1, <1>2, <1>3 DEF LeadInv, NoHaltIsCutShort
<1>6. SwitchTyped'
  BY <1>1, <1>3 DEF SwitchInv, SwitchTyped, Good, Clocks
<1> QED BY <1>1, <1>4, <1>5, <1>6 DEF SwitchInv

LEMMA HaltKeeps == SwitchInv /\ EnterHalt => SwitchInv'
<1> SUFFICES ASSUME SwitchInv, EnterHalt PROVE SwitchInv'
  OBVIOUS
<1> DEFINE r == Flush
<1>1. /\ ~clock.halted /\ pending_cycles > 0 /\ pending_cycles' = 0 /\ Account(r)
      /\ UNCHANGED <<stopped, key1, lcd, offset>>
  BY DEF EnterHalt, Running
<1>2. PICK pending \in BOOLEAN : clock' = [r.clock EXCEPT !.halted = ~pending]
  BY DEF EnterHalt
<1>3. /\ Accounts(r) /\ r.clock.countdown \in 0 .. 2 /\ (key1 => r.clock.countdown = 0)
      /\ r.clock.halt = 0
      /\ lcd /\ ~r.exact => Aligned(r.clock, 0) \/ offset
  BY <1>1, FlushPasses
<1> HIDE DEF r
<1>4. Alike(r.clock, clock') /\ clock'.halt = 0
  BY <1>2, <1>3 DEF Alike, Accounts, Good, Clocks
<1>5. Good(clock') /\ exact' \in BOOLEAN /\ (exact' \/ drift' = 0) /\ PictureInv'
  BY <1>1, <1>3, <1>4, Settles
<1>6. LeadInv' /\ NoHaltIsCutShort'
  BY <1>1, <1>3, <1>4 DEF Alike, LeadInv, NoHaltIsCutShort
<1> QED BY <1>1, <1>5, <1>6 DEF SwitchInv, SwitchTyped

(* In STOP and in HALT mode, time passes, and at most HALT ends.           *)
LEMMA IdleKeeps ==
    ASSUME SwitchInv, NEW r, Accounts(r), Account(r), Alike(r.clock, clock'), NEW q \in Int,
           lcd /\ ~r.exact => Aligned(r.clock, q) \/ offset,
           pending_cycles \in {q + 4, q + 12},
           r.clock.countdown \in 0 .. clock.countdown, clock.countdown = 6 => r.clock.countdown <= 2,
           clock'.halt > 0 => clock'.halted /\ clock.halt > 0,
           UNCHANGED <<pending_cycles, key1, lcd, halted_by, offset>>, stopped' \in BOOLEAN
    PROVE  SwitchInv'
<1>1. Good(clock') /\ exact' \in BOOLEAN /\ (exact' \/ drift' = 0) /\ PictureInv'
  BY Settles
<1>2. NoHaltIsCutShort'
  BY DEF SwitchInv, NoHaltIsCutShort
<1>3. LeadInv'
  <2>1. clock'.countdown = r.clock.countdown
    BY DEF Alike
  <2>2. clock.countdown \in 0 .. 6 /\ pending_cycles \in Nat /\ clock'.countdown \in Nat
    BY <2>1 DEF SwitchInv, SwitchTyped, Good, Clocks
  <2> QED BY <2>1, <2>2 DEF SwitchInv, LeadInv
<1> QED BY <1>1, <1>2, <1>3 DEF SwitchInv, SwitchTyped

LEMMA FourPass ==
    ASSUME SwitchInv
    PROVE  LET r == Then(Now, 4) IN
           /\ Accounts(r) /\ Passed(clock, 4, r.clock)
           /\ lcd /\ ~r.exact => Aligned(r.clock, pending_cycles - 4) \/ offset
           /\ r.clock.countdown \in 0 .. clock.countdown
           /\ clock.countdown = 6 => r.clock.countdown <= 2
           /\ r.clock.halt > 0 => r.clock.halted /\ clock.halt > 0
<1> DEFINE r == Then(Now, 4)
<1>1. /\ Accounts(r) /\ Passed(clock, 4, r.clock)
      /\ lcd /\ ~r.exact => Aligned(r.clock, pending_cycles - 4) \/ offset
  BY BatchPasses
<1> HIDE DEF r
<1>2. clock.countdown \in 0 .. 6 /\ clock.halt \in Nat /\ (clock.halt > 0 => clock.halted)
  BY DEF SwitchInv, SwitchTyped, Good, Clocks, NoHaltIsCutShort
<1>3. r.clock.countdown \in 0 .. clock.countdown /\ (clock.countdown = 6 => r.clock.countdown <= 2)
  BY <1>1, <1>2 DEF Passed, Less
<1>4. r.clock.halt > 0 => r.clock.halted /\ clock.halt > 0
  BY <1>1, <1>2 DEF Passed
<1> QED BY <1>1, <1>3, <1>4 DEF r

LEMMA HaltedKeeps == SwitchInv /\ RunHalted => SwitchInv'
<1> SUFFICES ASSUME SwitchInv, RunHalted PROVE SwitchInv'
  OBVIOUS
<1> DEFINE r == Then(Now, 4)
           q == pending_cycles - 4
<1>1. PICK pending \in BOOLEAN :
          /\ Account(r)
          /\ clock' = IF pending THEN [r.clock EXCEPT !.halted = FALSE, !.halt = 0] ELSE r.clock
  BY DEF RunHalted
<1>2. UNCHANGED <<pending_cycles, stopped, key1, lcd, halted_by, offset>> /\ stopped \in BOOLEAN
  BY DEF RunHalted, SwitchInv, SwitchTyped
<1>3. /\ Accounts(r) /\ (lcd /\ ~r.exact => Aligned(r.clock, q) \/ offset)
      /\ r.clock.countdown \in 0 .. clock.countdown
      /\ clock.countdown = 6 => r.clock.countdown <= 2
      /\ r.clock.halt > 0 => r.clock.halted /\ clock.halt > 0
  BY FourPass
<1>4. q \in Int /\ pending_cycles = q + 4
  BY DEF SwitchInv, SwitchTyped
<1> HIDE DEF r, q
<1>5. Alike(r.clock, clock') /\ (clock'.halt > 0 => clock'.halted /\ clock.halt > 0)
  <2>1. r.clock \in Clocks
    BY <1>3 DEF Accounts, Good
  <2>2. CASE pending
    <3>1. clock' = [r.clock EXCEPT !.halted = FALSE, !.halt = 0]
      BY <1>1, <2>2
    <3>2. clock'.halt = 0 /\ Alike(r.clock, clock')
      BY <2>1, <3>1 DEF Alike, Clocks
    <3> QED BY <3>2
  <2>3. CASE ~pending
    BY <1>1, <1>3, <2>1, <2>3 DEF Alike
  <2> QED BY <2>2, <2>3
<1> QED BY <1>1, <1>2, <1>3, <1>4, <1>5, IdleKeeps

LEMMA StoppedKeeps == SwitchInv /\ RunStopped => SwitchInv'
<1> SUFFICES ASSUME SwitchInv, RunStopped PROVE SwitchInv'
  OBVIOUS
<1> DEFINE f == Then(Now, 4)
           q == pending_cycles - 4
           r == Then(f, 8)
<1>1. PICK pressed \in BOOLEAN :
          /\ clock' = (IF pressed THEN r ELSE f).clock
          /\ Account(IF pressed THEN r ELSE f) /\ stopped' = ~pressed
  BY DEF RunStopped
<1>2. UNCHANGED <<pending_cycles, key1, lcd, halted_by, offset>> /\ stopped' \in BOOLEAN
  BY <1>1 DEF RunStopped
<1>3. /\ Accounts(f) /\ (lcd /\ ~f.exact => Aligned(f.clock, q) \/ offset)
      /\ f.clock.countdown \in 0 .. clock.countdown
      /\ clock.countdown = 6 => f.clock.countdown <= 2
      /\ f.clock.halt > 0 => f.clock.halted /\ clock.halt > 0
  BY FourPass
<1>4. q \in Int /\ pending_cycles = q + 4 /\ q - 8 \in Int /\ pending_cycles = (q - 8) + 12
      /\ lcd \in BOOLEAN
  BY DEF SwitchInv, SwitchTyped
<1>5. clock.countdown \in 0 .. 6
  BY DEF SwitchInv, SwitchTyped, Good, Clocks
<1> HIDE DEF f, q
<1>6. CASE ~pressed
  <2>1. Alike(f.clock, clock')
    BY <1>1, <1>3, <1>6 DEF Alike, Accounts, Good
  <2> QED BY <1>1, <1>2, <1>3, <1>4, <1>6, <2>1, IdleKeeps
<1>7. CASE pressed
  <2>1. /\ Accounts(r) /\ Passed(f.clock, 8, r.clock)
        /\ f.exact => r.exact
        /\ lcd /\ ~r.exact => Aligned(r.clock, q - 8) \/ offset
    BY <1>3, <1>4, ThenPasses
  <2> HIDE DEF r
  <2>2. Alike(r.clock, clock')
    BY <1>1, <1>7, <2>1 DEF Alike, Accounts, Good
  <2>3. r.clock.countdown \in 0 .. clock.countdown /\ (clock.countdown = 6 => r.clock.countdown <= 2)
    BY <1>3, <1>5, <2>1 DEF Passed, Less
  <2>4. r.clock.halt > 0 => r.clock.halted /\ clock.halt > 0
    <3>1. f.clock.halt \in Nat
      BY <1>3 DEF Accounts, Good, Clocks
    <3> QED BY <1>3, <2>1, <3>1 DEF Passed
  <2> QED BY <1>1, <1>2, <1>4, <1>7, <2>1, <2>2, <2>3, <2>4, IdleKeeps
<1> QED BY <1>6, <1>7

-----------------------------------------------------------------------------
(* STOP that does not switch. *)
LEMMA StopKeeps ==
    ASSUME SwitchInv, Account(Flush), pending_cycles > 0, ~clock.halted,
           clock' \in {Flush.clock, [Flush.clock EXCEPT !.halted = TRUE],
                       [Flush.clock EXCEPT !.halt = 0]},
           UNCHANGED <<key1, lcd, offset>>, pending_cycles' \in {0, 4}, stopped' \in BOOLEAN
    PROVE  SwitchInv'
<1> DEFINE r == Flush
<1>1. /\ Accounts(r) /\ r.clock.countdown \in 0 .. 2 /\ (key1 => r.clock.countdown = 0)
      /\ r.clock.halt = 0
      /\ lcd /\ ~r.exact => Aligned(r.clock, 0) \/ offset
  BY FlushPasses
<1> HIDE DEF r
<1>2. r.clock \in Clocks
  BY <1>1 DEF Accounts, Good
<1>3. Alike(r.clock, clock') /\ clock'.halt = 0
  <2>1. CASE clock' = r.clock
    BY <1>1, <1>2, <2>1 DEF Alike
  <2>2. CASE clock' = [r.clock EXCEPT !.halted = TRUE]
    BY <1>1, <1>2, <2>2 DEF Alike, Clocks
  <2>3. CASE clock' = [r.clock EXCEPT !.halt = 0]
    BY <1>1, <1>2, <2>3 DEF Alike, Clocks
  <2> QED BY <2>1, <2>2, <2>3 DEF r
<1>4. Good(clock') /\ exact' \in BOOLEAN /\ (exact' \/ drift' = 0) /\ PictureInv'
  <2>1. Account(r) /\ pending_cycles' \in {0, 0 + 4} /\ 0 \in Int
    BY DEF r
  <2> QED BY <1>1, <1>3, <2>1, Settles
<1>5. LeadInv' /\ NoHaltIsCutShort'
  BY <1>1, <1>3 DEF Alike, LeadInv, NoHaltIsCutShort
<1> QED BY <1>4, <1>5 DEF SwitchInv, SwitchTyped

AfterSwitch(c, pending) ==
    IF pending THEN [Switched(c, pending) EXCEPT !.halt = 0]
                 ELSE [Switched(c, pending) EXCEPT !.halted = TRUE]

(* What a switch makes of a clock that no countdown is under way on.       *)
LEMMA SwitchedIs ==
    ASSUME NEW c, Good(c), c.countdown = 0, NEW pending \in BOOLEAN, lcd \in BOOLEAN,
           NEW d, d = AfterSwitch(c, pending)
    PROVE  /\ Good(d) /\ d.countdown \in {0, 6}
           /\ pending => d.halt = 0
           /\ ~pending => d.halted
           /\ lcd /\ pending /\ Aligned(c, 0) /\ c.freeze = 0 => Aligned(d, 0)
<1>1. /\ c \in Clocks /\ c.freeze \in 0 .. 5 /\ c.alignment \in 0 .. 7 /\ c.double \in BOOLEAN
      /\ c.double => c.freeze = 0
  BY DEF Good, Clocks
<1> DEFINE k == IF c.double THEN c.countdown ELSE 6
           f == CASE ~pending -> 5
                  [] pending /\ ~c.double -> 1
                  [] OTHER -> IF lcd /\ c.alignment % 8 # 0 THEN 2 ELSE c.freeze
           h == IF pending THEN 0 ELSE HaltLength
           e == [c EXCEPT !.double = FALSE, !.countdown = k, !.freeze = f, !.halt = h]
<1>2. Switched(c, pending) = e
  BY DEF Switched
<1>3. /\ k = IF c.double THEN 0 ELSE 6
      /\ ~pending => f = 5
      /\ pending /\ ~c.double => f = 1
      /\ pending /\ c.double => f = IF lcd /\ c.alignment # 0 THEN 2 ELSE 0
  BY <1>1
<1>4. k \in {0, 6} /\ f \in {0, 1, 2, 5} /\ h \in Nat
  BY <1>1, <1>3, SpeedAssumption
<1> HIDE DEF k, f, h
<1>5. /\ e \in Clocks /\ e.double = FALSE /\ e.countdown = k /\ e.freeze = f /\ e.halt = h
      /\ e.alignment = c.alignment
  <2> DEFINE u == [c EXCEPT !.double = FALSE]
             v == [u EXCEPT !.countdown = k]
             w == [v EXCEPT !.freeze = f]
  <2>1. u \in Clocks /\ u.double = FALSE /\ u.alignment = c.alignment
    BY <1>1 DEF Clocks
  <2>2. e = [[[u EXCEPT !.countdown = k] EXCEPT !.freeze = f] EXCEPT !.halt = h]
    BY <1>1 DEF Clocks
  <2>3. v = [u EXCEPT !.countdown = k] /\ w = [v EXCEPT !.freeze = f] /\ e = [w EXCEPT !.halt = h]
    BY <2>2
  <2> HIDE DEF u, v, w, e
  <2>6. k \in 0 .. 6 /\ f \in 0 .. 5 /\ h \in Nat
    BY <1>4
  <2>4. /\ v \in Clocks /\ v.double = FALSE /\ v.alignment = c.alignment /\ v.countdown = k
    BY <2>6, <2>1, <2>3 DEF Clocks
  <2>5. /\ w \in Clocks /\ w.double = FALSE /\ w.alignment = c.alignment /\ w.countdown = k
        /\ w.freeze = f
    BY <2>6, <2>3, <2>4 DEF Clocks
  <2> QED BY <2>6, <2>3, <2>5 DEF Clocks
<1> HIDE DEF e
<1>6. /\ d \in Clocks /\ d.double = FALSE /\ d.countdown = k /\ d.freeze = f
      /\ d.alignment = c.alignment
      /\ pending => d.halt = 0
      /\ ~pending => d.halted
  <2>1. CASE pending
    <3>1. d = [e EXCEPT !.halt = 0] /\ 0 \in Nat
      BY <1>2, <2>1 DEF AfterSwitch
    <3>2. /\ d \in Clocks /\ d.double = e.double /\ d.countdown = e.countdown
          /\ d.freeze = e.freeze /\ d.alignment = e.alignment /\ d.halt = 0
      BY <1>5, <3>1 DEF Clocks
    <3> QED BY <1>5, <2>1, <3>2
  <2>2. CASE ~pending
    <3>1. d = [e EXCEPT !.halted = TRUE]
      BY <1>2, <2>2 DEF AfterSwitch
    <3> QED BY <1>5, <2>2, <3>1 DEF Clocks
  <2> QED BY <2>1, <2>2
<1>7. Good(d)
  BY <1>4, <1>6 DEF Good
<1>8. ASSUME lcd, pending, Aligned(c, 0), c.freeze = 0 PROVE Aligned(d, 0)
  <2> DEFINE a == c.alignment
  <2>1. CASE c.double
    <3>1. (a + 0) % 4 = 0 /\ a \in 0 .. 7
      BY <1>1, <1>8, <2>1 DEF Aligned
    <3>2. k = 0 /\ f = IF a # 0 THEN 2 ELSE 0
      BY <1>3, <1>8, <2>1
    <3> HIDE DEF a
    <3>3. (a + 2 * 0 - 2 * f) % 8 = 0
      <4>1. a \in {0, 4}
        BY <3>1
      <4> QED BY <3>2, <4>1
    <3> QED BY <1>6, <3>2, <3>3 DEF Aligned, a
  <2>2. CASE ~c.double
    <3>1. (a + 2 * 0 - 2 * 0) % 8 = 0 /\ a \in 0 .. 7
      BY <1>1, <1>8, <2>2 DEF Aligned
    <3>2. k = 6 /\ f = 1
      BY <1>3, <1>8, <2>2
    <3> HIDE DEF a
    <3>3. (a + 0 + 6 - 2 * 1) % 4 = 0
      BY <3>1
    <3> QED BY <1>6, <3>2, <3>3 DEF Aligned, a
  <2> QED BY <1>1, <2>1, <2>2
<1> QED BY <1>4, <1>6, <1>7, <1>8

(* STOP that switches, at once because of an pending, or by a HALT.      *)
LEMMA SwitchKeeps ==
    ASSUME SwitchInv, pending_cycles > 0, ~clock.halted, key1, NEW pending \in BOOLEAN,
           NEW r, r = (IF pending THEN Flush ELSE Then(Flush, 4)), Account(r),
           clock' = AfterSwitch(r.clock, pending),
           ~pending => halted_by' = "stop",
           offset' = (offset \/ ~pending \/ r.clock.freeze > 0),
           UNCHANGED lcd, key1' = FALSE, pending_cycles' = 0, stopped' \in BOOLEAN
    PROVE  SwitchInv'
<1>1. /\ Accounts(Flush) /\ Flush.clock.countdown = 0
      /\ lcd /\ ~Flush.exact => Aligned(Flush.clock, 0) \/ offset
      /\ lcd \in BOOLEAN /\ offset \in BOOLEAN
  BY FlushPasses DEF SwitchInv, SwitchTyped
<1>2. /\ Accounts(r) /\ r.clock.countdown = 0
      /\ pending /\ lcd /\ ~r.exact => Aligned(r.clock, 0) \/ offset
  <2>1. CASE pending
    BY <1>1, <2>1
  <2>2. CASE ~pending
    <3> DEFINE g == Flush
    <3>3. /\ Accounts(g) /\ lcd \in BOOLEAN /\ 4 \in Nat /\ 0 \in Int
          /\ lcd /\ ~g.exact => Aligned(g.clock, 0) \/ offset
      BY <1>1
    <3>4. r = Then(g, 4)
      BY <2>2
    <3> HIDE DEF g
    <3>5. Accounts(Then(g, 4)) /\ Passed(g.clock, 4, Then(g, 4).clock)
      BY <3>3, ThenPasses
    <3>1. Accounts(r) /\ Passed(Flush.clock, 4, r.clock)
      BY <3>4, <3>5 DEF g
    <3>2. Less(0, 4) = 0
      BY DEF Less
    <3> QED BY <1>1, <2>2, <3>1, <3>2 DEF Passed
  <2> QED BY <2>1, <2>2
<1>3. /\ Good(clock') /\ clock'.countdown \in {0, 6}
      /\ pending => clock'.halt = 0
      /\ ~pending => clock'.halted
      /\ lcd /\ pending /\ Aligned(r.clock, 0) /\ r.clock.freeze = 0 => Aligned(clock', 0)
  <2> DEFINE c == r.clock
             d == clock'
  <2>1. Good(c) /\ c.countdown = 0 /\ lcd \in BOOLEAN
    BY <1>1, <1>2 DEF Accounts
  <2>2. d = AfterSwitch(c, pending)
    OBVIOUS
  <2> HIDE DEF c, d
  <2>3. /\ Good(d) /\ d.countdown \in {0, 6}
        /\ pending => d.halt = 0
        /\ ~pending => d.halted
        /\ lcd /\ pending /\ Aligned(c, 0) /\ c.freeze = 0 => Aligned(d, 0)
    BY <2>1, <2>2, SwitchedIs
  <2> QED BY <2>3 DEF c, d
<1>4. exact' = r.exact /\ drift' = (IF r.exact THEN 0 ELSE r.drift)
  BY DEF Account
<1>5. exact' \in BOOLEAN /\ (exact' \/ drift' = 0)
  BY <1>2, <1>4 DEF Accounts
<1>6. PictureInv'
  <2> SUFFICES ASSUME lcd, ~r.exact, ~offset' PROVE Aligned(clock', 0)
    BY <1>4 DEF PictureInv
  <2>1. pending /\ ~offset /\ ~(r.clock.freeze > 0)
    BY Zenon
  <2>2. r.clock.freeze = 0
    BY <1>2, <2>1 DEF Accounts, Good, Clocks
  <2> QED BY <1>2, <1>3, <2>1, <2>2
<1>7. LeadInv' /\ NoHaltIsCutShort'
  BY <1>3 DEF LeadInv, NoHaltIsCutShort
<1>8. offset' \in BOOLEAN
  OBVIOUS
<1> QED BY <1>1, <1>3, <1>5, <1>6, <1>7, <1>8 DEF SwitchInv, SwitchTyped

LEMMA AnyStopKeeps == SwitchInv /\ stop => SwitchInv'
<1> SUFFICES ASSUME SwitchInv, stop PROVE SwitchInv'
  OBVIOUS
<1>1. ~clock.halted /\ ~stopped /\ pending_cycles > 0 /\ UNCHANGED lcd
  BY DEF stop, Running
<1>2. PICK pressed \in BOOLEAN, pending \in BOOLEAN :
          LET switch   == key1 /\ ~pressed
              read     == IF switch /\ ~pending THEN Then(Flush, 4) ELSE Flush
              switched == IF switch THEN Switched(read.clock, pending) ELSE read.clock
              leaves   == switch \/ pressed
          IN /\ Account(read)
             /\ key1' = (key1 /\ ~switch)
             /\ stopped' = ~leaves
             /\ pending_cycles' = IF pending \/ switch THEN 0 ELSE 4
             /\ clock' = CASE leaves /\ ~pending -> [switched EXCEPT !.halted = TRUE]
                           [] leaves /\ pending  -> [switched EXCEPT !.halt = 0]
                           [] OTHER                -> switched
             /\ halted_by' = IF leaves /\ ~pending THEN "stop" ELSE halted_by
             /\ offset' = (offset \/ (switch /\ (~pending \/ read.clock.freeze > 0)))
  BY DEF stop
<1>3. key1 \in BOOLEAN /\ offset \in BOOLEAN
  BY DEF SwitchInv, SwitchTyped
<1>4. CASE ~(key1 /\ ~pressed)
  <2>1. Account(Flush) /\ key1' = key1 /\ stopped' = ~pressed /\ offset' = offset
    BY <1>2, <1>3, <1>4
  <2>2. pending_cycles' \in {0, 4}
    BY <1>2, <1>4
  <2>3. clock' \in {Flush.clock, [Flush.clock EXCEPT !.halted = TRUE], [Flush.clock EXCEPT !.halt = 0]}
    BY <1>2, <1>4
  <2> QED BY <1>1, <2>1, <2>2, <2>3, StopKeeps
<1>5. CASE key1 /\ ~pressed
  <2> DEFINE r == IF pending THEN Flush ELSE Then(Flush, 4)
  <2>1. Account(r) /\ key1' = FALSE /\ stopped' = FALSE /\ pending_cycles' = 0
    BY <1>2, <1>5
  <2>2. clock' = AfterSwitch(r.clock, pending)
    BY <1>2, <1>5 DEF AfterSwitch
  <2>3. /\ ~pending => halted_by' = "stop"
        /\ offset' = (offset \/ ~pending \/ r.clock.freeze > 0)
    BY <1>2, <1>3, <1>5
  <2> HIDE DEF r
  <2>4. r = (IF pending THEN Flush ELSE Then(Flush, 4))
    BY DEF r
  <2> QED BY <1>1, <1>5, <2>1, <2>2, <2>3, <2>4, SwitchKeeps
<1> QED BY <1>4, <1>5

LEMMA SwitchPreserved == SwitchInv /\ [SpeedNext]_speedVars => SwitchInv'
<1> SUFFICES ASSUME SwitchInv, [SpeedNext]_speedVars PROVE SwitchInv'
  OBVIOUS
<1>1. CASE cycle_write
  BY <1>1, AccessKeeps DEF cycle_write
<1>2. CASE PrepareSwitch
  <2>1. Access(0) /\ key1' = TRUE /\ 0 \in {-2, -1, 0, 1}
    BY <1>2 DEF PrepareSwitch
  <2> QED BY <2>1, AccessKeeps
<1>3. CASE UNCHANGED speedVars
  BY <1>3 DEF speedVars, SwitchInv, SwitchTyped, Good, LeadInv, PictureInv, Aligned, NoHaltIsCutShort
<1> QED BY <1>1, <1>2, <1>3, WaitKeeps, LcdcKeeps, HaltKeeps, StoppedKeeps, HaltedKeeps, AnyStopKeeps
        DEF SpeedNext

(* No HALT ends by a speed switch's countdown, and the units of time are   *)
(* those of the speed the cycles passed at, whatever they are batched in   *)
(* (stop, GB_advance_cycles).                                              *)
THEOREM SwitchesKeepTime == SpeedSpec => []SpeedSwitchKeepsTime
BY SwitchBegins, SwitchPreserved, SwitchSuffices, PTL DEF SpeedSpec

-----------------------------------------------------------------------------
(* The Super Game Boy.  A set of natural numbers has a least.              *)
LEMMA LeastPlace ==
    ASSUME NEW S, S \subseteq Nat, S # {}
    PROVE  \E x \in S : \A y \in S : x <= y
<1>1. PICK first \in S : \A y \in S : <<y, first>> \notin OpToRel(<, Nat)
  BY NatLessThanWellFounded, WFMin
<1>2. \A y \in S : ~(y < first)
  BY <1>1 DEF OpToRel
<1>3. \A y \in S : first <= y
  <2> SUFFICES ASSUME NEW y \in S PROVE first <= y
    OBVIOUS
  <2>1. y \in Nat /\ first \in Nat /\ ~(y < first)
    BY <1>2
  <2> QED  BY <2>1
<1> QED  BY <1>3

(* Induction over the natural numbers, for a set. *)
LEMMA AllNumbers ==
    ASSUME NEW S, 0 \in S, \A n \in Nat : n \in S => n + 1 \in S
    PROVE  \A n \in Nat : n \in S
<1> DEFINE Others == {n \in Nat : n \notin S}
<1> SUFFICES ASSUME Others # {} PROVE FALSE
  OBVIOUS
<1>1. PICK m \in Others : \A y \in Others : m <= y
  <2>1. Others \subseteq Nat
    OBVIOUS
  <2> HIDE DEF Others
  <2> QED  BY <2>1, LeastPlace
<1>2. m \in Nat /\ m # 0
  OBVIOUS
<1> DEFINE k == m - 1
<1>3. k \in Nat /\ k + 1 = m /\ ~(m <= k)
  BY <1>2
<1> HIDE DEF k
<1>4. k \in S
  BY <1>1, <1>3
<1> QED  BY <1>3, <1>4

(* The equation of a command's length, as far as its k highest bits.       *)
LastBits(c, k, last) ==
    [i \in 0 .. k |-> IF i = 0 THEN 0 ELSE Bit(c, LENGTH_BITS + 1 - i) + 2 * last[i - 1]]

(* LengthOf is a solution of the equation, if there is one. *)
LEMMA LengthIsChosen ==
    \A c : LengthOf(c) = (CHOOSE last : last = LastBits(c, LENGTH_BITS, last))[LENGTH_BITS]
  BY DEF LengthOf, LastBits

(* There is, however many bits. *)
LEMMA LengthExists ==
    ASSUME NEW c
    PROVE  \A k \in Nat : \E last : last = LastBits(c, k, last)
<1> DEFINE Solved == {k \in Nat : \E last : last = LastBits(c, k, last)}
<1>1. 0 \in Solved
  <2> DEFINE f == [i \in 0 .. 0 |-> 0]
  <2>1. \A i \in 0 .. 0 : i = 0
    OBVIOUS
  <2>2. f = LastBits(c, 0, f)
    BY <2>1 DEF LastBits
  <2> QED  BY <2>2
<1>2. ASSUME NEW k \in Nat, k \in Solved PROVE k + 1 \in Solved
  <2>1. PICK f : f = LastBits(c, k, f)
    BY <1>2
  <2> DEFINE V(g, i) == IF i = 0 THEN 0 ELSE Bit(c, LENGTH_BITS + 1 - i) + 2 * g[i - 1]
             h == [i \in 0 .. k + 1 |-> V(f, i)]
             r == LastBits(c, k + 1, h)
  <2>2. \A i \in 0 .. k : f[i] = V(f, i)
    BY <2>1 DEF LastBits
  <2>3. \A i \in 0 .. k : h[i] = f[i]
    <3>1. \A i \in 0 .. k : i \in 0 .. k + 1
      OBVIOUS
    <3>2. \A i \in 0 .. k + 1 : h[i] = V(f, i)
      OBVIOUS
    <3> HIDE DEF V, h
    <3> QED  BY <2>2, <3>1, <3>2
  <2>4. \A i \in 0 .. k + 1 : i # 0 => i - 1 \in 0 .. k
    OBVIOUS
  <2>5. \A i \in 0 .. k + 1 : h[i] = V(h, i)
    <3>1. \A i \in 0 .. k + 1 : i # 0 => h[i - 1] = f[i - 1]
      BY <2>3, <2>4
    <3>2. \A i \in 0 .. k + 1 : h[i] = V(f, i)
      OBVIOUS
    <3> HIDE DEF h
    <3> QED  BY <3>1, <3>2
  <2>6. h = LastBits(c, k + 1, h)
    <3>1. r = [i \in 0 .. k + 1 |-> V(h, i)]
      BY DEF LastBits
    <3>2. h = [i \in 0 .. k + 1 |-> h[i]]
      OBVIOUS
    <3> HIDE DEF h, V
    <3>3. r = [i \in 0 .. k + 1 |-> h[i]]
      BY <2>5, <3>1
    <3> QED  BY <3>2, <3>3
  <2>7. \E last : last = LastBits(c, k + 1, last)
    <3> HIDE DEF h
    <3> QED  BY <2>6
  <2> QED  BY <2>7
<1> HIDE DEF Solved
<1>3. \A k \in Nat : k \in Solved
  BY <1>1, <1>2, AllNumbers
<1> QED  BY <1>3 DEF Solved

(* What the length of a command is. *)
LEMMA LengthSolves ==
    ASSUME NEW c
    PROVE  \E last :
             /\ last[0] = 0
             /\ \A k \in Nat : k + 1 <= LENGTH_BITS =>
                    last[k + 1] = Bit(c, LENGTH_BITS - k) + 2 * last[k]
             /\ LengthOf(c) = last[LENGTH_BITS]
<1> DEFINE f == CHOOSE last : last = LastBits(c, LENGTH_BITS, last)
<1>0. LENGTH_BITS \in Nat
  BY SgbAssumption
<1>1. f = LastBits(c, LENGTH_BITS, f)
  BY <1>0, LengthExists
<1>2. LengthOf(c) = f[LENGTH_BITS]
  BY LengthIsChosen
<1> HIDE DEF f
<1>3. \A i \in 0 .. LENGTH_BITS :
          f[i] = IF i = 0 THEN 0 ELSE Bit(c, LENGTH_BITS + 1 - i) + 2 * f[i - 1]
  BY <1>1 DEF LastBits
<1>4. f[0] = 0
  <2>1. 0 \in 0 .. LENGTH_BITS
    BY <1>0
  <2> QED  BY <1>3, <2>1
<1>5. ASSUME NEW k \in Nat, k + 1 <= LENGTH_BITS
      PROVE  f[k + 1] = Bit(c, LENGTH_BITS - k) + 2 * f[k]
  <2>1. k + 1 \in 0 .. LENGTH_BITS /\ k + 1 # 0 /\ (k + 1) - 1 = k
        /\ LENGTH_BITS + 1 - (k + 1) = LENGTH_BITS - k
    BY <1>0, <1>5
  <2> QED  BY <1>3, <2>1
<1> QED  BY <1>2, <1>4, <1>5

(* Only its first bits tell the length of a command. *)
LEMMA SameLength ==
    ASSUME NEW c, NEW d, \A i \in 1 .. LENGTH_BITS : Bit(c, i) = Bit(d, i)
    PROVE  LengthOf(c) = LengthOf(d)
<1>0. LENGTH_BITS \in Nat
  BY SgbAssumption
<1>1. PICK f : /\ f[0] = 0
               /\ \A k \in Nat : k + 1 <= LENGTH_BITS => f[k + 1] = Bit(c, LENGTH_BITS - k) + 2 * f[k]
               /\ LengthOf(c) = f[LENGTH_BITS]
  BY LengthSolves
<1>2. PICK g : /\ g[0] = 0
               /\ \A k \in Nat : k + 1 <= LENGTH_BITS => g[k + 1] = Bit(d, LENGTH_BITS - k) + 2 * g[k]
               /\ LengthOf(d) = g[LENGTH_BITS]
  BY LengthSolves
<1> DEFINE Same == {k \in Nat : k <= LENGTH_BITS => f[k] = g[k]}
<1>3. 0 \in Same
  BY <1>1, <1>2
<1>4. ASSUME NEW k \in Nat, k \in Same PROVE k + 1 \in Same
  <2> SUFFICES ASSUME k + 1 <= LENGTH_BITS PROVE f[k + 1] = g[k + 1]
    OBVIOUS
  <2>1. k <= LENGTH_BITS /\ LENGTH_BITS - k \in 1 .. LENGTH_BITS
    BY <1>0
  <2>2. Bit(c, LENGTH_BITS - k) = Bit(d, LENGTH_BITS - k)
    BY <2>1
  <2>3. f[k] = g[k]
    BY <1>4, <2>1
  <2> QED  BY <1>1, <1>2, <2>2, <2>3
<1> HIDE DEF Same
<1>5. LENGTH_BITS \in Same
  BY <1>0, <1>3, <1>4, AllNumbers
<1> QED  BY <1>0, <1>1, <1>2, <1>5 DEF Same

(* There is room for every command. *)
LEMMA LengthBounded ==
    ASSUME NEW c \in Seq({0, 1})
    PROVE  LengthOf(c) \in 0 .. MAX_PACKETS
<1> DEFINE ones == [i \in 1 .. LENGTH_BITS |-> 1]
<1>0. LENGTH_BITS \in Nat /\ MAX_PACKETS \in Nat /\ LengthOf(ones) <= MAX_PACKETS
  BY SgbAssumption
<1>1. \A i \in 1 .. LENGTH_BITS : Bit(ones, i) = 1
  <2>1. ones \in Seq({1}) /\ Len(ones) = LENGTH_BITS
    BY <1>0
  <2>2. \A i \in 1 .. LENGTH_BITS : ones[i] = 1 /\ i <= LENGTH_BITS
    BY <1>0
  <2> HIDE DEF ones
  <2> QED  BY <2>1, <2>2 DEF Bit
<1>2. \A i \in 1 .. LENGTH_BITS : Bit(c, i) \in {0, 1}
  BY <1>0 DEF Bit
<1>3. PICK f : /\ f[0] = 0
               /\ \A k \in Nat : k + 1 <= LENGTH_BITS => f[k + 1] = Bit(c, LENGTH_BITS - k) + 2 * f[k]
               /\ LengthOf(c) = f[LENGTH_BITS]
  BY LengthSolves
<1>4. PICK g : /\ g[0] = 0
               /\ \A k \in Nat : k + 1 <= LENGTH_BITS => g[k + 1] = Bit(ones, LENGTH_BITS - k) + 2 * g[k]
               /\ LengthOf(ones) = g[LENGTH_BITS]
  BY LengthSolves
<1> HIDE DEF ones
<1> DEFINE Smaller == {k \in Nat : k <= LENGTH_BITS => f[k] \in Nat /\ g[k] \in Nat /\ f[k] <= g[k]}
<1>5. 0 \in Smaller
  BY <1>3, <1>4
<1>6. ASSUME NEW k \in Nat, k \in Smaller PROVE k + 1 \in Smaller
  <2> SUFFICES ASSUME k + 1 <= LENGTH_BITS
               PROVE  f[k + 1] \in Nat /\ g[k + 1] \in Nat /\ f[k + 1] <= g[k + 1]
    OBVIOUS
  <2>1. k <= LENGTH_BITS /\ LENGTH_BITS - k \in 1 .. LENGTH_BITS
    BY <1>0
  <2>2. Bit(c, LENGTH_BITS - k) \in {0, 1} /\ Bit(ones, LENGTH_BITS - k) = 1
    BY <1>1, <1>2, <2>1
  <2>3. f[k] \in Nat /\ g[k] \in Nat /\ f[k] <= g[k]
    BY <1>6, <2>1
  <2>4. f[k + 1] = Bit(c, LENGTH_BITS - k) + 2 * f[k] /\ g[k + 1] = 1 + 2 * g[k]
    BY <1>3, <1>4, <2>2
  <2> QED  BY <2>2, <2>3, <2>4
<1> HIDE DEF Smaller
<1>7. LENGTH_BITS \in Smaller
  BY <1>0, <1>5, <1>6, AllNumbers
<1> QED  BY <1>0, <1>3, <1>4, <1>7 DEF Smaller

(* A multiple and a remainder are those of their sum. *)
LEMMA Multiples ==
    ASSUME NEW d \in Nat \ {0}, NEW k \in Nat, NEW r \in 0 .. d - 1
    PROVE  (d * k + r) % d = r /\ (d * k + r) \div d = k
<1> DEFINE a == d * k + r
<1>1. a \in Nat /\ d * k \in Nat
  OBVIOUS
<1> DEFINE q == a \div d
           s == a % d
<1>2. q \in Int /\ s \in 0 .. d - 1 /\ a = d * q + s
  BY <1>1
<1> HIDE DEF q, s
<1>3. d * (q - k) = r - s
  <2>1. d * (q - k) = d * q - d * k
    BY <1>2
  <2> QED  BY <1>1, <1>2, <2>1
<1>4. q = k
  <2>1. CASE q >= k + 1
    <3>1. d * (q - k) >= d
      <4>1. \A x \in Int : x >= 1 => d * x >= d
        OBVIOUS
      <4> QED  BY <1>2, <2>1, <4>1
    <3> QED  BY <1>2, <1>3, <3>1
  <2>2. CASE q <= k - 1
    <3>1. d * (q - k) <= -d
      <4>1. \A x \in Int : x <= -1 => d * x <= -d
        OBVIOUS
      <4> QED  BY <1>2, <2>2, <4>1
    <3> QED  BY <1>2, <1>3, <3>1
  <2> QED  BY <1>2, <2>1, <2>2
<1>5. s = r
  BY <1>1, <1>2, <1>4
<1> QED  BY <1>4, <1>5 DEF q, s

(* The room for a command, and what it may be. *)
Room == MAX_PACKETS * PACKET_SIZE
Texts == Seq({0, 1})

(* A command is of whole packets, of one at least. *)
LEMMA SizeOf ==
    ASSUME NEW c \in Texts
    PROVE  /\ CommandSize(c) \in Nat /\ CommandSize(c) % PACKET_SIZE = 0
           /\ PACKET_SIZE <= CommandSize(c) /\ CommandSize(c) <= Room
<1>1. PACKET_SIZE \in Nat \ {0} /\ MAX_PACKETS \in Nat \ {0}
  BY SgbAssumption
<1>2. PICK n \in 1 .. MAX_PACKETS : CommandSize(c) = n * PACKET_SIZE
  <2>1. LengthOf(c) \in 0 .. MAX_PACKETS
    BY LengthBounded DEF Texts
  <2>2. 1 * PACKET_SIZE = PACKET_SIZE /\ 1 \in 1 .. MAX_PACKETS
    BY <1>1
  <2>3. CASE IsHeader(c) \/ LengthOf(c) = 0
    BY <2>2, <2>3 DEF CommandSize
  <2>4. CASE ~(IsHeader(c) \/ LengthOf(c) = 0)
    BY <1>1, <2>1, <2>4 DEF CommandSize
  <2> QED  BY <2>3, <2>4
<1>3. n * PACKET_SIZE = PACKET_SIZE * n + 0 /\ n \in Nat /\ 0 \in 0 .. PACKET_SIZE - 1
  BY <1>1
<1>4. (n * PACKET_SIZE) % PACKET_SIZE = 0
  BY <1>1, <1>3, Multiples
<1>5. PACKET_SIZE <= n * PACKET_SIZE
  <2>1. \A x \in Nat : x >= 1 => PACKET_SIZE <= x * PACKET_SIZE
    BY <1>1
  <2> QED  BY <1>2, <2>1
<1>6. n * PACKET_SIZE <= Room
  <2>1. \A x, y \in Nat : x <= y => x * PACKET_SIZE <= y * PACKET_SIZE
    BY <1>1
  <2> QED  BY <1>1, <2>1 DEF Room
<1> QED  BY <1>1, <1>2, <1>4, <1>5, <1>6

(* After its first packet a command's size is known. *)
LEMMA SizeKept ==
    ASSUME NEW c \in Texts, NEW b \in {0, 1}, PACKET_SIZE <= Len(c)
    PROVE  CommandSize(Append(c, b)) = CommandSize(c)
<1>1. PACKET_SIZE \in Nat /\ LENGTH_BITS \in Nat /\ LENGTH_BITS < PACKET_SIZE /\ LENGTH_BITS >= 1
  BY SgbAssumption
<1>2. \A i \in 1 .. PACKET_SIZE : Bit(Append(c, b), i) = Bit(c, i)
  <2>1. \A i \in 1 .. PACKET_SIZE : i <= Len(c) /\ i <= Len(Append(c, b)) /\ Append(c, b)[i] = c[i]
    BY <1>1 DEF Texts
  <2> QED  BY <2>1 DEF Bit
<1>3. 1 \in 1 .. PACKET_SIZE /\ LENGTH_BITS + 1 \in 1 .. PACKET_SIZE
      /\ \A i \in 1 .. LENGTH_BITS : i \in 1 .. PACKET_SIZE
  BY <1>1
<1>4. LengthOf(Append(c, b)) = LengthOf(c)
  BY <1>2, <1>3, SameLength
<1>5. IsHeader(Append(c, b)) = IsHeader(c)
  BY <1>2, <1>3 DEF IsHeader
<1> QED  BY <1>4, <1>5 DEF CommandSize

(* A bit that is sent is one of the command. *)
LEMMA SizeOfMore ==
    ASSUME NEW c \in Texts, NEW b \in {0, 1}, Len(c) < CommandSize(c)
    PROVE  /\ Append(c, b) \in Texts /\ Len(Append(c, b)) = Len(c) + 1
           /\ Append(c, b) # <<>>
           /\ Len(c) + 1 <= CommandSize(Append(c, b))
<1>1. Append(c, b) \in Texts /\ Len(Append(c, b)) = Len(c) + 1 /\ Len(c) \in Nat
  BY DEF Texts
<1>2. /\ CommandSize(c) \in Nat
      /\ CommandSize(Append(c, b)) \in Nat /\ PACKET_SIZE <= CommandSize(Append(c, b))
  BY <1>1, SizeOf
<1>3. PACKET_SIZE \in Nat
  BY SgbAssumption
<1>4. Append(c, b) # <<>>
  BY <1>1
<1> DEFINE l == Len(c)
           n == CommandSize(c)
           o == CommandSize(Append(c, b))
<1>5. l \in Nat /\ n \in Nat /\ o \in Nat /\ PACKET_SIZE <= o /\ l < n
  BY <1>1, <1>2
<1>6. PACKET_SIZE <= l => o = n
  BY SizeKept
<1> HIDE DEF l, n, o
<1>7. l + 1 <= o
  BY <1>3, <1>5, <1>6
<1> QED  BY <1>1, <1>4, <1>7 DEF l, o

(* Where a packet's command is as far as the program has sent it. *)
Underway == command = bits /\ received = <<>>
InPackets(c) == Len(c) % PACKET_SIZE = 0
Unfinished == Len(bits) < CommandSize(bits)

(* What GB_sgb_write has and expects in each phase of the program. *)
PhaseInv ==
    CASE phase = "idle" ->
            /\ command = <<>> /\ ~ready_for_write
            /\ received = IF Complete /\ bits # <<>> THEN <<bits>> ELSE <<>>
      [] phase = "first" ->
            /\ bits = <<>> /\ received = <<>>
            /\ IF ready_for_write THEN ~AtPacket \/ ready_for_stop ELSE command = <<>>
      [] phase = "given_up" ->
            /\ bits = <<>> /\ received = <<>>
            /\ ready_for_write /\ (~AtPacket \/ ready_for_stop)
      [] phase = "reset" ->
            /\ Underway /\ Unfinished /\ InPackets(bits)
            /\ ~ready_for_pulse /\ ready_for_write /\ ~ready_for_stop
      [] phase = "write" ->
            /\ Underway /\ Unfinished
            /\ ready_for_pulse /\ ready_for_write /\ ~ready_for_stop
      [] phase = "bit" ->
            /\ Underway /\ bits # <<>> /\ Len(bits) <= CommandSize(bits)
            /\ ready_for_write /\ (ready_for_stop <=> InPackets(bits))
      [] phase = "last" ->
            /\ Underway /\ bits # <<>> /\ Len(bits) <= CommandSize(bits) /\ InPackets(bits)
            /\ ready_for_pulse /\ ready_for_write /\ ready_for_stop
      [] phase = "stop" ->
            /\ ~ready_for_write
            /\ IF Complete \/ bits = <<>>
               THEN command = <<>> /\ received = (IF bits # <<>> THEN <<bits>> ELSE <<>>)
               ELSE Underway /\ Unfinished /\ InPackets(bits) /\ ~ready_for_stop
      [] phase = "pause" ->
            /\ Underway /\ bits # <<>> /\ Unfinished /\ InPackets(bits)
            /\ ~ready_for_write /\ ~ready_for_stop

SendingPhases == {"idle", "first", "given_up", "reset", "write", "bit", "last", "stop", "pause"}

PacketsInv ==
    /\ phase \in SendingPhases /\ bits \in Texts /\ command \in Texts
    /\ ready_for_pulse \in BOOLEAN /\ ready_for_write \in BOOLEAN /\ ready_for_stop \in BOOLEAN
    /\ PhaseInv
    /\ phase = "bit" => ~ready_for_pulse

(* Nothing is between packets, and no command. *)
LEMMA EmptyText ==
    /\ <<>> \in Texts /\ Len(<<>>) = 0 /\ InPackets(<<>>)
    /\ Len(<<>>) # CommandSize(<<>>) /\ Len(<<>>) < CommandSize(<<>>)
<1>1. <<>> \in Texts /\ Len(<<>>) = 0
  BY DEF Texts
<1>2. PACKET_SIZE \in Nat \ {0}
  BY SgbAssumption
<1>3. CommandSize(<<>>) \in Nat /\ PACKET_SIZE <= CommandSize(<<>>)
  BY <1>1, SizeOf
<1>4. 0 % PACKET_SIZE = 0
  BY <1>2
<1> QED  BY <1>1, <1>2, <1>3, <1>4 DEF InPackets

(* Nothing is sent at first. *)
LEMMA PacketsStart == PacketsInit => PacketsInv
<1> SUFFICES ASSUME PacketsInit PROVE PacketsInv
  OBVIOUS
<1>1. bits = <<>> /\ phase = "idle" /\ command = <<>>
  BY DEF PacketsInit
<1> QED  BY <1>1, EmptyText DEF PacketsInit, PacketsInv, PhaseInv, SendingPhases, Complete

(* Each pulse that is heard leaves GB_sgb_write as far as the program is.  *)
LEMMA PacketsStep ==
    ~disable_commands /\ PacketsInv /\ [PacketsNext]_packetVars => PacketsInv'
<1> SUFFICES ASSUME ~disable_commands, PacketsInv, [PacketsNext]_packetVars PROVE PacketsInv'
  OBVIOUS
<1>0. /\ phase \in SendingPhases /\ bits \in Texts /\ command \in Texts
      /\ ready_for_pulse \in BOOLEAN /\ ready_for_write \in BOOLEAN /\ ready_for_stop \in BOOLEAN
      /\ PhaseInv /\ (phase = "bit" => ~ready_for_pulse)
  BY DEF PacketsInv
<1>1. CASE UNCHANGED packetVars
  BY <1>0, <1>1 DEF packetVars, PacketsInv, PhaseInv, Underway, Unfinished, Complete, AtPacket
<1>2. CASE Raise
  <2>1. CASE phase = "reset"
    <3>1. Underway /\ Unfinished /\ InPackets(bits) /\ ready_for_write /\ ~ready_for_stop
      BY <1>0, <2>1 DEF PhaseInv
    <3>2. phase' = "write" /\ ready_for_pulse' /\ ready_for_pulse' \in BOOLEAN
          /\ UNCHANGED <<command, ready_for_write, ready_for_stop, received, bits>>
      BY <1>2, <2>1 DEF Raise, BothHigh
    <3> QED  BY <1>0, <3>1, <3>2 DEF PacketsInv, PhaseInv, SendingPhases, Underway, Unfinished
  <2>2. CASE phase = "bit"
    <3>1. /\ Underway /\ bits # <<>> /\ Len(bits) <= CommandSize(bits)
          /\ ready_for_write /\ (ready_for_stop <=> InPackets(bits))
      BY <1>0, <2>2 DEF PhaseInv
    <3>2. /\ phase' = IF InPackets(bits) THEN "last" ELSE "write"
          /\ ready_for_pulse' /\ ready_for_pulse' \in BOOLEAN
          /\ UNCHANGED <<command, ready_for_write, ready_for_stop, received, bits>>
      BY <1>2, <2>2, <3>1 DEF Raise, BothHigh, InPackets
    <3>3. CASE InPackets(bits)
      BY <1>0, <3>1, <3>2, <3>3 DEF PacketsInv, PhaseInv, SendingPhases, Underway, Unfinished
    <3>4. CASE ~InPackets(bits)
      <4>1. Len(bits) # CommandSize(bits)
        BY <1>0, <3>4, SizeOf DEF InPackets
      <4>2. Unfinished
        <5>1. Len(bits) \in Nat /\ CommandSize(bits) \in Nat
          BY <1>0, SizeOf DEF Texts
        <5> QED  BY <3>1, <4>1, <5>1 DEF Unfinished
      <4> QED  BY <1>0, <3>1, <3>2, <3>4, <4>2 DEF PacketsInv, PhaseInv, SendingPhases, Underway, Unfinished
    <3> QED  BY <3>3, <3>4
  <2>3. CASE phase = "stop"
    <3>1. /\ ~ready_for_write
          /\ IF Complete \/ bits = <<>>
             THEN command = <<>> /\ received = (IF bits # <<>> THEN <<bits>> ELSE <<>>)
             ELSE Underway /\ Unfinished /\ InPackets(bits) /\ ~ready_for_stop
      BY <1>0, <2>3 DEF PhaseInv
    <3>2. /\ phase' = IF Complete \/ bits = <<>> THEN "idle" ELSE "pause"
          /\ ready_for_pulse' \in BOOLEAN
          /\ UNCHANGED <<command, ready_for_write, ready_for_stop, received, bits>>
      BY <1>2, <2>3 DEF Raise, BothHigh
    <3>3. CASE Complete \/ bits = <<>>
      BY <1>0, <3>1, <3>2, <3>3 DEF PacketsInv, PhaseInv, SendingPhases, Complete
    <3>4. CASE ~(Complete \/ bits = <<>>)
      BY <1>0, <3>1, <3>2, <3>4 DEF PacketsInv, PhaseInv, SendingPhases, Underway, Unfinished
    <3> QED  BY <3>3, <3>4
  <2> QED  BY <1>2, <2>1, <2>2, <2>3 DEF Raise
<1>3. CASE BeginCommand
  <2>1. /\ bits' = <<>> /\ phase' = "first" /\ received' = <<>>
        /\ UNCHANGED <<command, ready_for_pulse, ready_for_write, ready_for_stop>>
    BY <1>3 DEF BeginCommand
  <2>2. IF ready_for_write THEN ~AtPacket \/ ready_for_stop ELSE command = <<>>
    <3>1. CASE phase = "idle"
      BY <1>0, <3>1 DEF PhaseInv
    <3>2. CASE phase = "given_up"
      BY <1>0, <3>2 DEF PhaseInv
    <3> QED  BY <1>3, <3>1, <3>2 DEF BeginCommand
  <2> QED  BY <1>0, <2>1, <2>2, EmptyText DEF PacketsInv, PhaseInv, SendingPhases, AtPacket
<1>4. CASE BeginPacket
  <2>1. phase \in {"first", "pause"} /\ phase' = "reset" /\ ready_for_write' = TRUE
        /\ ready_for_pulse' = FALSE /\ UNCHANGED <<received, bits>>
        /\ IF ~AtPacket \/ command = <<>> \/ ready_for_stop
           THEN command' = <<>> /\ ready_for_stop' = FALSE
           ELSE UNCHANGED <<command, ready_for_stop>>
    BY <1>4 DEF BeginPacket, Reset
  <2>2. CASE phase = "first"
    <3>1. /\ bits = <<>> /\ received = <<>>
          /\ IF ready_for_write THEN ~AtPacket \/ ready_for_stop ELSE command = <<>>
      BY <1>0, <2>2 DEF PhaseInv
    <3>2. command' = <<>> /\ ready_for_stop' = FALSE
      BY <2>1, <3>1
    <3> QED  BY <2>1, <3>1, <3>2, EmptyText DEF PacketsInv, PhaseInv, SendingPhases, Underway, Unfinished
  <2>3. CASE phase = "pause"
    <3>1. /\ Underway /\ bits # <<>> /\ Unfinished /\ InPackets(bits)
          /\ ~ready_for_write /\ ~ready_for_stop
      BY <1>0, <2>3 DEF PhaseInv
    <3>2. UNCHANGED <<command, ready_for_stop>>
      BY <2>1, <3>1 DEF AtPacket, Underway, InPackets
    <3> QED  BY <1>0, <2>1, <3>1, <3>2 DEF PacketsInv, PhaseInv, SendingPhases, Underway, Unfinished
  <2> QED  BY <2>1, <2>2, <2>3
<1>5. CASE Stop \/ StopWrong
  <2>1. phase = "last" /\ phase' = "stop"
    BY <1>5 DEF Stop, StopWrong
  <2>2. /\ Underway /\ bits # <<>> /\ Len(bits) <= CommandSize(bits) /\ InPackets(bits)
        /\ ready_for_pulse /\ ready_for_write /\ ready_for_stop
    BY <1>0, <2>1 DEF PhaseInv
  <2>3. CASE Stop
    <3>1. /\ UNCHANGED bits /\ Stopped /\ ready_for_stop' = FALSE
          /\ IF Len(command) = CommandSize(command)
             THEN command' = <<>> /\ received' = Append(received, command)
             ELSE UNCHANGED <<command, received>>
      BY <2>2, <2>3 DEF Stop, PulseZero, NoPulse
    <3>2. CASE Complete
      <4>1. command' = <<>> /\ received' = <<bits>>
        <5>1. Len(command) = CommandSize(command)
          BY <2>2, <3>2 DEF Underway, Complete
        <5>2. Append(<<>>, bits) = <<bits>>
          OBVIOUS
        <5> QED  BY <2>2, <3>1, <5>1, <5>2 DEF Underway
      <4>2. Complete'
        BY <3>1, <3>2 DEF Complete
      <4> QED  BY <1>0, <2>1, <2>2, <3>1, <4>1, <4>2, EmptyText
                 DEF PacketsInv, PhaseInv, SendingPhases, Stopped
    <3>3. CASE ~Complete
      <4>1. Len(command) # CommandSize(command) /\ Unfinished
        <5>1. Len(bits) \in Nat /\ CommandSize(bits) \in Nat
          BY <1>0, SizeOf DEF Texts
        <5>2. Len(bits) # CommandSize(bits)
          BY <3>3 DEF Complete
        <5> QED  BY <2>2, <5>1, <5>2 DEF Underway, Unfinished
      <4>2. ~Complete' /\ Unfinished' /\ UNCHANGED <<command, received>>
        BY <3>1, <3>3, <4>1 DEF Complete, Unfinished
      <4> QED  BY <1>0, <2>1, <2>2, <3>1, <4>2 DEF PacketsInv, PhaseInv, SendingPhases, Stopped, Underway
    <3> QED  BY <3>2, <3>3
  <2>4. CASE StopWrong
    <3>1. bits' = <<>> /\ Stopped /\ command' = <<>> /\ UNCHANGED <<ready_for_stop, received>>
      BY <2>2, <2>4 DEF StopWrong, PulseOne, NoPulse
    <3> QED  BY <2>1, <2>2, <3>1, EmptyText DEF PacketsInv, PhaseInv, SendingPhases, Stopped, Underway
  <2> QED  BY <1>5, <2>3, <2>4
<1>6. CASE Poll
  <2>1. phase \in {"idle", "first", "pause"} /\ (phase = "first" => ~ready_for_write)
        /\ UNCHANGED <<bits, phase>>
    BY <1>6 DEF Poll
  <2>2. ~ready_for_write
    BY <1>0, <2>1 DEF PhaseInv
  <2>3. ready_for_pulse' \in BOOLEAN /\ UNCHANGED <<command, ready_for_write, ready_for_stop, received>>
    BY <1>0, <1>6, <2>2 DEF Poll, PulseZero, PulseOne, BothHigh, Ignored, NoPulse
  <2>4. phase' # "bit"
    BY <2>1
  <2>5. PhaseInv'
    <3>1. CASE phase = "idle"
      BY <1>0, <2>1, <2>3, <3>1 DEF PhaseInv, Complete
    <3>2. CASE phase = "first"
      BY <1>0, <2>1, <2>3, <3>2 DEF PhaseInv, AtPacket
    <3>3. CASE phase = "pause"
      BY <1>0, <2>1, <2>3, <3>3 DEF PhaseInv, Underway, Unfinished
    <3> QED  BY <2>1, <3>1, <3>2, <3>3
  <2> QED  BY <1>0, <2>1, <2>3, <2>4, <2>5 DEF PacketsInv
<1>7. CASE GiveUp
  <2>1. /\ phase \in {"write", "last"} /\ (phase = "write" => Len(bits) % PACKET_SIZE # 0)
        /\ phase' = "given_up" /\ bits' = <<>>
        /\ UNCHANGED <<command, ready_for_pulse, ready_for_write, ready_for_stop, received>>
    BY <1>7 DEF GiveUp
  <2>2. Underway /\ ready_for_write /\ (~AtPacket \/ ready_for_stop)
    <3>1. CASE phase = "write"
      BY <1>0, <2>1, <3>1 DEF PhaseInv, Underway, AtPacket
    <3>2. CASE phase = "last"
      BY <1>0, <3>2 DEF PhaseInv
    <3> QED  BY <2>1, <3>1, <3>2
  <2> QED  BY <1>0, <2>1, <2>2, EmptyText DEF PacketsInv, PhaseInv, SendingPhases, Underway, AtPacket
<1>8. ASSUME NEW bit \in {0, 1}, Send(bit) PROVE PacketsInv'
  <2>1. phase = "write" /\ phase' = "bit" /\ bits' = Append(bits, bit)
    BY <1>8 DEF Send
  <2>2. /\ Underway /\ Unfinished
        /\ ready_for_pulse /\ ready_for_write /\ ~ready_for_stop
    BY <1>0, <2>1 DEF PhaseInv
  <2>3. Store(bit)
    BY <1>8, <2>2 DEF Send, PulseOne, PulseZero, NoPulse
  <2>4. Len(command) # Room
    <3>1. Len(bits) \in Nat /\ CommandSize(bits) \in Nat /\ CommandSize(bits) <= Room
      BY <1>0, SizeOf DEF Texts
    <3>2. Room \in Nat
      <4>1. MAX_PACKETS \in Nat /\ PACKET_SIZE \in Nat
        BY SgbAssumption
      <4> QED  BY <4>1 DEF Room
    <3>3. Len(bits) < CommandSize(bits) /\ command = bits
      BY <2>2 DEF Unfinished, Underway
    <3> QED  BY <3>1, <3>2, <3>3
  <2>5. /\ command' = Append(command, bit) /\ ready_for_pulse' = FALSE
        /\ ready_for_stop' = (Len(command') % PACKET_SIZE = 0)
        /\ UNCHANGED <<ready_for_write, received>>
    BY <2>3, <2>4 DEF Store, Room
  <2>6. /\ Append(bits, bit) \in Texts /\ Append(bits, bit) # <<>>
        /\ Len(Append(bits, bit)) <= CommandSize(Append(bits, bit))
    BY <1>0, <2>2, SizeOfMore DEF Unfinished
  <2>7. command' = bits' /\ bits' \in Texts /\ bits' # <<>> /\ Len(bits') <= CommandSize(bits')
    BY <2>1, <2>2, <2>5, <2>6 DEF Underway
  <2>8. ready_for_stop' \in BOOLEAN /\ (ready_for_stop' <=> InPackets(bits'))
    BY <2>5, <2>7 DEF InPackets
  <2>9. received' = <<>> /\ ready_for_write'
    BY <2>2, <2>5 DEF Underway
  <2> QED  BY <1>0, <2>1, <2>5, <2>7, <2>8, <2>9 DEF PacketsInv, PhaseInv, SendingPhases, Underway
<1> QED  BY <1>1, <1>2, <1>3, <1>4, <1>5, <1>6, <1>7, <1>8 DEF PacketsNext

(* The property, of the invariant, as long as the commands are heard. *)
Heard == disable_commands \/ PacketsInv

LEMMA PacketsArrive == Heard => CommandsArrive
  BY DEF Heard, PacketsInv, PhaseInv, CommandsArrive

(* What is disabled stays so. *)
LEMMA DisabledStays == disable_commands /\ [ScreenNext]_screenVars => disable_commands'
  BY DEF ScreenNext, screenVars, Header, PalCommand, PalSet, MaskEn, Trn, Ready, GB_sgb_render,
         BootRomFinishes

(* A cell's place among all of them, along the lines and down the columns. *)
Along(cell) == COLUMNS * cell[2] + cell[1]
Down(cell) == ROWS * cell[1] + cell[2]

Sizes == COLUMNS \in Nat \ {0} /\ ROWS \in Nat \ {0}

(* A place is below the number of cells. *)
LEMMA PlaceBelow ==
    ASSUME NEW d \in Nat \ {0}, NEW h \in Nat \ {0}, NEW x \in 0 .. d - 1, NEW y \in 0 .. h - 1
    PROVE  d * y + x \in 0 .. d * h - 1
<1>1. d * y \in Nat /\ d * h \in Nat
  OBVIOUS
<1>2. d * y + d <= d * h
  <2>1. d * y + d = d * (y + 1)
    OBVIOUS
  <2>2. \A a, b \in Nat : a <= b => d * a <= d * b
    OBVIOUS
  <2>3. y + 1 \in Nat /\ y + 1 <= h
    OBVIOUS
  <2> QED  BY <2>1, <2>2, <2>3
<1> QED  BY <1>1, <1>2

(* A cell and its places tell each other. *)
LEMMA Places ==
    ASSUME NEW cell \in Cells
    PROVE  /\ cell = <<cell[1], cell[2]>> /\ cell[1] \in Xs /\ cell[2] \in Ys
           /\ Along(cell) \in 0 .. COLUMNS * ROWS - 1 /\ Down(cell) \in 0 .. COLUMNS * ROWS - 1
           /\ <<Along(cell) % COLUMNS, Along(cell) \div COLUMNS>> = cell
           /\ <<Down(cell) \div ROWS, Down(cell) % ROWS>> = cell
           /\ Position(cell) = Along(cell)
<1>0. COLUMNS \in Nat \ {0} /\ ROWS \in Nat \ {0}
  BY SgbAssumption
<1>1. cell = <<cell[1], cell[2]>> /\ cell[1] \in Xs /\ cell[2] \in Ys
  BY DEF Cells
<1> DEFINE x == cell[1]
           y == cell[2]
<1>2. x \in 0 .. COLUMNS - 1 /\ y \in 0 .. ROWS - 1 /\ x \in Nat /\ y \in Nat
  BY <1>0, <1>1 DEF Xs, Ys
<1> HIDE DEF x, y
<1>3. COLUMNS * y + x \in 0 .. COLUMNS * ROWS - 1
  BY <1>0, <1>2, PlaceBelow
<1>4. ROWS * x + y \in 0 .. COLUMNS * ROWS - 1
  <2>1. ROWS * COLUMNS = COLUMNS * ROWS
    BY <1>0
  <2> QED  BY <1>0, <1>2, <2>1, PlaceBelow
<1>5. (COLUMNS * y + x) % COLUMNS = x /\ (COLUMNS * y + x) \div COLUMNS = y
  BY <1>0, <1>2, Multiples
<1>6. (ROWS * x + y) % ROWS = y /\ (ROWS * x + y) \div ROWS = x
  BY <1>0, <1>2, Multiples
<1>7. x + COLUMNS * y = COLUMNS * y + x
  BY <1>0, <1>2
<1> QED  BY <1>1, <1>3, <1>4, <1>5, <1>6, <1>7 DEF x, y, Along, Down, Position

-----------------------------------------------------------------------------
(* What is drawn already, by a command that draws a line or a side.        *)
LinesInv ==
    method = "lines" =>
        \A cell \in Cells : Place(cell, figure.horizontal) \notin left =>
            attribute_map[cell] = DrawnAt(figure, cell)

SideOf(cell) ==
    IF ~Within(cell, figure.rectangle) THEN "outside"
    ELSE IF Within(cell, Inner(figure.rectangle)) THEN "inside" ELSE "middle"

SidesInv ==
    method = "sides" =>
        /\ left \subseteq Sides
        /\ "middle" \notin left => left = {}
        /\ \A cell \in Cells : SideOf(cell) \notin left => attribute_map[cell] = figure[SideOf(cell)]

AttributesInv ==
    /\ method \in Methods(figure)
    /\ attribute_map = [cell \in Cells |-> attribute_map[cell]]
    /\ LinesInv /\ SidesInv
    /\ left = {} => attribute_map = Drawn

(* Nothing is drawn at first. *)
LEMMA AttributesStart == AttributesInit => AttributesInv
<1> SUFFICES ASSUME AttributesInit PROVE AttributesInv
  OBVIOUS
<1>1. /\ method \in Methods(figure)
      /\ attribute_map = [cell \in Cells |-> attribute_map[cell]]
  <2>1. PICK palette \in Palettes : attribute_map = [cell \in Cells |-> palette]
    BY DEF AttributesInit
  <2>2. attribute_map = [cell \in Cells |-> attribute_map[cell]]
    BY <2>1
  <2> QED  BY <2>2 DEF AttributesInit
<1>2. left = CASE method = "lines" -> Lines [] method = "sides" -> Sides [] OTHER -> {method}
  BY DEF AttributesInit
<1>3. CASE method = "lines"
  <2>1. ~IsBox(figure) /\ left = Lines
    <3>1. ~IsBox(figure)
      BY <1>1, <1>3 DEF Methods
    <3> QED  BY <1>2, <1>3, <3>1
  <2>2. \A cell \in Cells : Place(cell, figure.horizontal) \in left
    BY <2>1, Places DEF Lines, Place
  <2>3. left # {}
    <3>1. 0 \in Xs /\ 0 \in Ys
      BY SgbAssumption DEF Xs, Ys
    <3> QED  BY <2>1, <3>1 DEF Lines
  <2>4. LinesInv
    BY <2>2 DEF LinesInv
  <2>5. SidesInv
    BY <1>3 DEF SidesInv
  <2> QED  BY <1>1, <2>3, <2>4, <2>5 DEF AttributesInv
<1>4. CASE method = "sides"
  <2>1. left = Sides
    BY <1>2, <1>4
  <2>2. \A cell \in Cells : SideOf(cell) \in left
    BY <2>1 DEF SideOf, Sides
  <2>3. SidesInv
    BY <2>1, <2>2 DEF SidesInv, Sides
  <2>4. LinesInv
    BY <1>4 DEF LinesInv
  <2>5. left # {}
    BY <2>1 DEF Sides
  <2> QED  BY <1>1, <2>3, <2>4, <2>5 DEF AttributesInv
<1>5. CASE method # "lines" /\ method # "sides"
  <2>1. left # {}
    BY <1>2, <1>5
  <2> QED  BY <1>1, <1>5, <2>1 DEF AttributesInv, LinesInv, SidesInv
<1> QED  BY <1>3, <1>4, <1>5

(* A command that draws everything. *)
LEMMA DrawnAtOnce ==
    ASSUME AttributesInv, method \notin {"lines", "sides"}, NEW map, Redraw(map), map = Drawn
    PROVE  AttributesInv'
<1>1. UNCHANGED <<figure, method>> /\ attribute_map' = Drawn
  BY DEF Redraw
<1>2. method' \in Methods(figure') /\ method' \notin {"lines", "sides"}
  BY <1>1 DEF AttributesInv, Methods, IsBox
<1>3. Drawn' = Drawn
  BY <1>1 DEF Drawn, DrawnAt, IsBox, Place, Within, Inner, Cells, Xs, Ys
<1>4. Drawn = [cell \in Cells |-> Drawn[cell]]
  BY DEF Drawn
<1>5. attribute_map' = [cell \in Cells |-> attribute_map'[cell]]
  BY <1>1, <1>4
<1> QED  BY <1>1, <1>2, <1>3, <1>5 DEF AttributesInv, LinesInv, SidesInv, Cells, Xs, Ys

(* A file has each cell's palette where load_attribute_file looks for it. *)
LEMMA DrawsFile == AttributesInv /\ DrawFile => AttributesInv'
<1> SUFFICES ASSUME AttributesInv, DrawFile PROVE AttributesInv'
  OBVIOUS
<1> DEFINE file == [n \in 1 .. COLUMNS * ROWS |->
                       Drawn[<<(n - 1) % COLUMNS, (n - 1) \div COLUMNS>>]]
<1>1. method = "file" /\ Redraw(File(file))
  BY DEF DrawFile
<1>2. ASSUME NEW cell \in Cells PROVE file[Position(cell) + 1] = Drawn[cell]
  <2> DEFINE n == Along(cell)
  <2>1. n + 1 \in 1 .. COLUMNS * ROWS /\ (n + 1) - 1 = n
    <3>1. n \in 0 .. COLUMNS * ROWS - 1
      BY Places
    <3>2. COLUMNS * ROWS \in Nat
      BY SgbAssumption
    <3> HIDE DEF n
    <3> QED  BY <3>1, <3>2
  <2>2. <<n % COLUMNS, n \div COLUMNS>> = cell /\ Position(cell) = n
    BY Places
  <2> HIDE DEF n
  <2>3. file[n + 1] = Drawn[<<n % COLUMNS, n \div COLUMNS>>]
    BY <2>1
  <2> QED  BY <2>2, <2>3
<1> HIDE DEF file
<1>3. File(file) = Drawn
  <2>1. File(file) = [cell \in Cells |-> file[Position(cell) + 1]]
    BY DEF File
  <2>2. Drawn = [cell \in Cells |-> Drawn[cell]]
    BY DEF Drawn
  <2> QED  BY <1>2, <2>1, <2>2
<1> QED  BY <1>1, <1>3, DrawnAtOnce

(* ATTR_DIV is the division. *)
LEMMA DrawsDivision == AttributesInv /\ DrawDivision => AttributesInv'
<1> SUFFICES ASSUME AttributesInv, DrawDivision PROVE AttributesInv'
  OBVIOUS
<1> DEFINE map == Div(attribute_map, figure.horizontal, figure.line,
                      figure.low, figure.middle, figure.high)
<1>1. method = "division" /\ Redraw(map)
  BY DEF DrawDivision
<1>2. ~IsBox(figure)
  BY <1>1 DEF AttributesInv, Methods
<1>3. map = Drawn
  BY <1>2 DEF Div, Drawn, DrawnAt
<1> HIDE DEF map
<1> QED  BY <1>1, <1>3, DrawnAtOnce

(* ATTR_BLK with three palettes is the box. *)
LEMMA DrawsBox == AttributesInv /\ DrawBox => AttributesInv'
<1> SUFFICES ASSUME AttributesInv, DrawBox PROVE AttributesInv'
  OBVIOUS
<1> DEFINE map == Blk(attribute_map, figure.rectangle, Sides, BoxPalettes)
<1>1. method = "box" /\ Redraw(map)
  BY DEF DrawBox
<1>2. IsBox(figure)
  BY <1>1 DEF AttributesInv, Methods
<1>3. map = Drawn
  <2>1. Sides # {"inside"} /\ Sides # {"outside"} /\ "inside" \in Sides /\ "outside" \in Sides
        /\ "middle" \in Sides
    BY DEF Sides
  <2>2. BoxPalettes["inside"] = figure.inside /\ BoxPalettes["outside"] = figure.outside
        /\ BoxPalettes["middle"] = figure.middle
    BY <2>1 DEF BoxPalettes
  <2> QED  BY <1>2, <2>1, <2>2 DEF Blk, Drawn, DrawnAt
<1> HIDE DEF map
<1> QED  BY <1>1, <1>3, DrawnAtOnce

(* The cell at a place, and the place of a cell. *)
CellAt(n, downwards) ==
    IF downwards THEN <<n \div ROWS, n % ROWS>> ELSE <<n % COLUMNS, n \div COLUMNS>>
PlaceOf(cell, downwards) == IF downwards THEN Down(cell) ELSE Along(cell)
DataOf(from, to, downwards) == [i \in 1 .. to - from |-> Drawn[CellAt(from + i - 1, downwards)]]
DrawnPart(map, from, to, downwards) ==
    [cell \in Cells |-> IF PlaceOf(cell, downwards) \in from .. to - 1 THEN Drawn[cell] ELSE map[cell]]

(* How far a place is from the nth is told by their rows and columns. *)
LEMMA Distance ==
    ASSUME NEW d \in Nat \ {0}, NEW n \in Nat, NEW a \in Int, NEW b \in Int
    PROVE  d * (a - n \div d) + b - (n % d) = (d * a + b) - n
<1>1. n \div d \in Int /\ n % d \in Int /\ n = d * (n \div d) + (n % d)
  OBVIOUS
<1> DEFINE q == n \div d
           r == n % d
<1>2. q \in Int /\ r \in Int /\ n = d * q + r
  BY <1>1
<1> HIDE DEF q, r
<1>3. d * (a - q) = d * a - d * q
  BY <1>2
<1>4. d * a \in Int /\ d * q \in Int
  BY <1>2
<1>5. d * (a - q) + b - r = (d * a + b) - n
  BY <1>2, <1>3, <1>4
<1> QED  BY <1>5 DEF q, r

(* ATTR_CHR with the figure's palettes, between two places: it draws the   *)
(* cells there, and no others.                                             *)
LEMMA DrawsPart ==
    ASSUME NEW map, NEW downwards \in BOOLEAN,
           NEW from \in Nat, NEW to \in Nat, from <= to, to <= COLUMNS * ROWS
    PROVE  Chr(map, CellAt(from, downwards), downwards, DataOf(from, to, downwards))
           = DrawnPart(map, from, to, downwards)
<1>0. COLUMNS \in Nat \ {0} /\ ROWS \in Nat \ {0} /\ COLUMNS * ROWS \in Nat
  BY SgbAssumption
<1> DEFINE start == CellAt(from, downwards)
           data == DataOf(from, to, downwards)
           Index(cell) == IF downwards THEN ROWS * (cell[1] - start[1]) + cell[2] - start[2]
                          ELSE COLUMNS * (cell[2] - start[2]) + cell[1] - start[1]
<1>1. ASSUME NEW cell \in Cells PROVE Index(cell) = PlaceOf(cell, downwards) - from
  <2>1. cell[1] \in Int /\ cell[2] \in Int
    BY <1>0, Places DEF Xs, Ys
  <2>2. CASE downwards
    <3>1. start[1] = from \div ROWS /\ start[2] = from % ROWS
      BY <2>2 DEF CellAt
    <3>2. ROWS * (cell[1] - from \div ROWS) + cell[2] - (from % ROWS) = (ROWS * cell[1] + cell[2]) - from
      BY <1>0, <2>1, Distance
    <3> HIDE DEF start
    <3> QED  BY <2>2, <3>1, <3>2 DEF PlaceOf, Down
  <2>3. CASE ~downwards
    <3>1. start[1] = from % COLUMNS /\ start[2] = from \div COLUMNS
      BY <2>3 DEF CellAt
    <3>2. COLUMNS * (cell[2] - from \div COLUMNS) + cell[1] - (from % COLUMNS)
              = (COLUMNS * cell[2] + cell[1]) - from
      BY <1>0, <2>1, Distance
    <3> HIDE DEF start
    <3> QED  BY <2>3, <3>1, <3>2 DEF PlaceOf, Along
  <2> QED  BY <2>2, <2>3
<1>2. Len(data) = to - from
  BY DEF DataOf
<1>3. ASSUME NEW cell \in Cells
      PROVE  /\ Index(cell) \in 0 .. Len(data) - 1 <=> PlaceOf(cell, downwards) \in from .. to - 1
             /\ Index(cell) \in 0 .. Len(data) - 1 => data[Index(cell) + 1] = Drawn[cell]
  <2> DEFINE n == Index(cell)
             p_ == PlaceOf(cell, downwards)
  <2>1. p_ \in Nat /\ CellAt(p_, downwards) = cell
    <3>1. Along(cell) \in Nat /\ Down(cell) \in Nat
      BY <1>0, Places
    <3> QED  BY <3>1, Places DEF PlaceOf, CellAt
  <2>2. n = p_ - from
    BY <1>1
  <2> HIDE DEF n, p_
  <2>3. n \in 0 .. Len(data) - 1 <=> p_ \in from .. to - 1
    BY <1>2, <2>1, <2>2
  <2>4. ASSUME n \in 0 .. Len(data) - 1 PROVE data[n + 1] = Drawn[cell]
    <3>1. n + 1 \in 1 .. to - from /\ from + (n + 1) - 1 = p_
      BY <1>2, <2>1, <2>2, <2>4
    <3>2. data[n + 1] = Drawn[CellAt(from + (n + 1) - 1, downwards)]
      BY <3>1 DEF DataOf
    <3> HIDE DEF data
    <3> QED  BY <2>1, <3>1, <3>2
  <2> QED  BY <2>3, <2>4 DEF n, p_
<1>4. Chr(map, start, downwards, data)
      = [cell \in Cells |-> IF Index(cell) \in 0 .. Len(data) - 1 THEN data[Index(cell) + 1] ELSE map[cell]]
  BY DEF Chr
<1> HIDE DEF Index, data, start
<1>5. Chr(map, start, downwards, data)
      = [cell \in Cells |-> IF PlaceOf(cell, downwards) \in from .. to - 1 THEN Drawn[cell] ELSE map[cell]]
  BY <1>3, <1>4
<1> QED  BY <1>5 DEF start, data, DrawnPart

(* Two parts, the second first, are the figure. *)
LEMMA DrawsCharacters == AttributesInv /\ DrawCharacters => AttributesInv'
<1> SUFFICES ASSUME AttributesInv, DrawCharacters PROVE AttributesInv'
  OBVIOUS
<1> DEFINE downwards == method = "down"
           all == COLUMNS * ROWS
<1>0. all \in Nat
  BY SgbAssumption
<1>1. PICK n \in 1 .. all - 1 :
          Redraw(Chr(Chr(attribute_map, CellAt(n, downwards), downwards, DataOf(n, all, downwards)),
                     CellAt(0, downwards), downwards, DataOf(0, n, downwards)))
  BY DEF DrawCharacters, CellAt, DataOf
<1>2. method \notin {"lines", "sides"} /\ downwards \in BOOLEAN
  BY DEF DrawCharacters
<1> HIDE DEF downwards
<1> DEFINE later == Chr(attribute_map, CellAt(n, downwards), downwards, DataOf(n, all, downwards))
           whole == Chr(later, CellAt(0, downwards), downwards, DataOf(0, n, downwards))
<1>3. later = DrawnPart(attribute_map, n, all, downwards)
  <2>1. n \in Nat /\ all \in Nat /\ n <= all /\ all <= COLUMNS * ROWS
    BY <1>0
  <2> HIDE DEF all
  <2> QED  BY <1>2, <2>1, DrawsPart
<1>4. whole = DrawnPart(later, 0, n, downwards)
  <2> HIDE DEF later
  <2>1. n \in Nat /\ 0 \in Nat /\ 0 <= n /\ n <= COLUMNS * ROWS
    BY <1>0
  <2> QED  BY <1>2, <2>1, DrawsPart
<1> HIDE DEF later, whole
<1>5. \A cell \in Cells : PlaceOf(cell, downwards) \in 0 .. n - 1 \/ PlaceOf(cell, downwards) \in n .. all - 1
  <2> SUFFICES ASSUME NEW cell \in Cells
               PROVE  PlaceOf(cell, downwards) \in 0 .. n - 1 \/ PlaceOf(cell, downwards) \in n .. all - 1
    OBVIOUS
  <2>1. PlaceOf(cell, downwards) \in 0 .. all - 1
    BY Places DEF PlaceOf
  <2> QED  BY <1>0, <2>1
<1>6. whole = Drawn
  <2>1. Drawn = [cell \in Cells |-> Drawn[cell]]
    BY DEF Drawn
  <2> QED  BY <1>3, <1>4, <1>5, <2>1 DEF DrawnPart
<1>7. Redraw(whole)
  BY <1>1 DEF whole, later
<1> QED  BY <1>2, <1>6, <1>7, DrawnAtOnce

(* Lines do not overlap: one more is drawn, and the others stay. *)
LEMMA DrawsLine == AttributesInv /\ DrawLine => AttributesInv'
<1> SUFFICES ASSUME AttributesInv, DrawLine PROVE AttributesInv'
  OBVIOUS
<1> DEFINE horizontal == figure.horizontal
<1>1. method = "lines" /\ ~IsBox(figure)
  BY DEF AttributesInv, Methods, DrawLine
<1>2. PICK line \in left :
          /\ left' = left \ {line}
          /\ Redraw(Lin(attribute_map, horizontal, line, DrawnAt(figure, <<line, line>>)))
  BY DEF DrawLine
<1>3. /\ attribute_map' = [cell \in Cells |-> IF Place(cell, horizontal) = line
                                              THEN DrawnAt(figure, <<line, line>>) ELSE attribute_map[cell]]
      /\ figure' = figure /\ method' = method
  BY <1>2 DEF Redraw, Lin
<1>4. \A cell \in Cells : Place(cell, horizontal) \notin left => attribute_map[cell] = DrawnAt(figure, cell)
  BY <1>1 DEF AttributesInv, LinesInv
<1>5. ASSUME NEW cell \in Cells, Place(cell, horizontal) \notin left'
      PROVE  attribute_map'[cell] = DrawnAt(figure, cell)
  <2>1. CASE Place(cell, horizontal) = line
    <3>1. Place(<<line, line>>, horizontal) = line
      BY DEF Place
    <3>2. DrawnAt(figure, <<line, line>>) = DrawnAt(figure, cell)
      BY <1>1, <2>1, <3>1 DEF DrawnAt
    <3> QED  BY <1>3, <2>1, <3>2
  <2>2. CASE Place(cell, horizontal) # line
    BY <1>2, <1>3, <1>4, <1>5, <2>2
  <2> QED  BY <2>1, <2>2
<1>6. attribute_map' = [cell \in Cells |-> attribute_map'[cell]]
  BY <1>3
<1>7. \A cell \in Cells : DrawnAt(figure', cell) = DrawnAt(figure, cell)
  BY <1>3
<1>8. LinesInv' /\ SidesInv'
  BY <1>1, <1>3, <1>5, <1>7 DEF LinesInv, SidesInv, Cells, Xs, Ys
<1>9. left' = {} => attribute_map' = Drawn'
  <2> SUFFICES ASSUME left' = {} PROVE attribute_map' = [cell \in Cells |-> DrawnAt(figure, cell)]
    BY <1>3 DEF Drawn, Cells, Xs, Ys
  <2>1. \A cell \in Cells : attribute_map'[cell] = DrawnAt(figure, cell)
    BY <1>5
  <2> QED  BY <1>6, <2>1
<1>10. method' \in Methods(figure')
  BY <1>3 DEF AttributesInv
<1> QED  BY <1>6, <1>8, <1>9, <1>10 DEF AttributesInv, Cells, Xs, Ys

(* What ATTR_BLK's data of one side writes. *)
LEMMA BlkSide ==
    ASSUME NEW map, NEW side \in Sides, NEW cell \in Cells
    PROVE  /\ SideOf(cell) = side
              => Blk(map, figure.rectangle, {side}, BoxPalettes)[cell] = figure[side]
           /\ SideOf(cell) # side /\ SideOf(cell) # "middle"
              => Blk(map, figure.rectangle, {side}, BoxPalettes)[cell] = map[cell]
<1>1. BoxPalettes["inside"] = figure["inside"] /\ BoxPalettes["outside"] = figure["outside"]
      /\ BoxPalettes["middle"] = figure["middle"]
  BY DEF BoxPalettes, Sides
<1>2. CASE side = "inside"
  BY <1>1, <1>2 DEF Blk, SideOf
<1>3. CASE side = "outside"
  BY <1>1, <1>3 DEF Blk, SideOf
<1>4. CASE side = "middle"
  BY <1>1, <1>4 DEF Blk, SideOf
<1> QED  BY <1>2, <1>3, <1>4 DEF Sides

(* The inside and the outside draw the edge too, which is drawn last. *)
LEMMA DrawsSide == AttributesInv /\ DrawSide => AttributesInv'
<1> SUFFICES ASSUME AttributesInv, DrawSide PROVE AttributesInv'
  OBVIOUS
<1>1. method = "sides" /\ IsBox(figure)
  BY DEF AttributesInv, Methods, DrawSide
<1>2. /\ left \subseteq Sides
      /\ "middle" \notin left => left = {}
      /\ \A cell \in Cells : SideOf(cell) \notin left => attribute_map[cell] = figure[SideOf(cell)]
  BY <1>1 DEF AttributesInv, SidesInv
<1>3. PICK side \in left :
          /\ side = "middle" => left = {"middle"}
          /\ left' = left \ {side}
          /\ Redraw(Blk(attribute_map, figure.rectangle, {side}, BoxPalettes))
  BY DEF DrawSide
<1> DEFINE map == Blk(attribute_map, figure.rectangle, {side}, BoxPalettes)
<1>4. attribute_map' = map /\ figure' = figure /\ method' = method
  BY <1>3 DEF Redraw
<1>5. map = [cell \in Cells |-> map[cell]]
  BY DEF Blk
<1> HIDE DEF map
<1>6. "middle" \notin left' => left' = {}
  BY <1>2, <1>3
<1>7. ASSUME NEW cell \in Cells, SideOf(cell) \notin left' PROVE map[cell] = figure[SideOf(cell)]
  <2>1. CASE SideOf(cell) = side
    BY <1>2, <1>3, <2>1, BlkSide DEF map
  <2>2. CASE SideOf(cell) # side
    <3>1. SideOf(cell) \notin left
      BY <1>3, <1>7, <2>2
    <3>2. SideOf(cell) # "middle"
      BY <1>2, <1>3, <3>1
    <3>3. map[cell] = attribute_map[cell]
      BY <1>2, <1>3, <2>2, <3>2, BlkSide DEF map
    <3> QED  BY <1>2, <3>1, <3>3
  <2> QED  BY <2>1, <2>2
<1>8. SidesInv'
  <2>1. \A cell \in Cells : SideOf(cell)' = SideOf(cell)
    BY <1>4 DEF SideOf, Within, Inner
  <2>2. left' \subseteq Sides
    BY <1>2, <1>3
  <2> QED  BY <1>4, <1>6, <1>7, <2>1, <2>2 DEF SidesInv, Sides, Cells, Xs, Ys
<1>9. LinesInv'
  BY <1>1, <1>4 DEF LinesInv
<1>10. left' = {} => attribute_map' = Drawn'
  <2> SUFFICES ASSUME left' = {} PROVE map = [cell \in Cells |-> DrawnAt(figure, cell)]
    BY <1>4 DEF Drawn, Cells, Xs, Ys
  <2>1. \A cell \in Cells : map[cell] = DrawnAt(figure, cell)
    <3>1. \A cell \in Cells : DrawnAt(figure, cell) = figure[SideOf(cell)]
      BY <1>1 DEF DrawnAt, SideOf
    <3> QED  BY <1>7, <3>1
  <2> QED  BY <1>5, <2>1
<1>11. attribute_map' = [cell \in Cells |-> attribute_map'[cell]]
  BY <1>4, <1>5
<1>12. method' \in Methods(figure')
  BY <1>4 DEF AttributesInv
<1> QED  BY <1>8, <1>9, <1>10, <1>11, <1>12 DEF AttributesInv, Cells, Xs, Ys

(* Whichever command draws. *)
LEMMA AttributesStep == AttributesInv /\ [AttributesNext]_attributeVars => AttributesInv'
<1> SUFFICES ASSUME AttributesInv, [AttributesNext]_attributeVars PROVE AttributesInv'
  OBVIOUS
<1>1. CASE UNCHANGED attributeVars
  <2>1. UNCHANGED <<figure, method, attribute_map, left>>
    BY <1>1 DEF attributeVars
  <2>2. Drawn' = Drawn
    BY <2>1 DEF Drawn, DrawnAt, IsBox, Place, Within, Inner, Cells, Xs, Ys
  <2>3. \A cell \in Cells : SideOf(cell)' = SideOf(cell)
    BY <2>1 DEF SideOf, Within, Inner
  <2>4. LinesInv'
    BY <2>1 DEF AttributesInv, LinesInv, Cells, Xs, Ys
  <2>5. SidesInv'
    BY <2>1, <2>3 DEF AttributesInv, SidesInv, Sides, Cells, Xs, Ys
  <2> QED  BY <2>1, <2>2, <2>4, <2>5 DEF AttributesInv, Cells, Xs, Ys
<1> QED  BY <1>1, DrawsFile, DrawsCharacters, DrawsDivision, DrawsLine, DrawsBox, DrawsSide
         DEF AttributesNext

-----------------------------------------------------------------------------
(* The border changes on the one frame whose darkness is black. *)
LEMMA FramesOfBorder ==
    border_animation \in Nat /\ [ScreenNext]_screenVars
        => border_animation' \in Nat /\ [SwapsInTheDark]_screenVars
<1> SUFFICES ASSUME border_animation \in Nat, [ScreenNext]_screenVars
             PROVE  border_animation' \in Nat /\ [SwapsInTheDark]_screenVars
  OBVIOUS
<1>1. CASE UNCHANGED screenVars
  BY <1>1 DEF screenVars, borders
<1>2. ASSUME NEW rendering \in BOOLEAN, GB_sgb_render(rendering)
      PROVE  border_animation' \in Nat /\ SwapsInTheDark
  <2>1. /\ border' = IF border_animation' = FADE THEN pending_border' ELSE border
        /\ border_animation' = IF Animated > 0 THEN Animated - 1 ELSE 0
        /\ IF rendering THEN shown' = [picture |-> Picture, border |-> border', dark |-> Fading]
           ELSE shown' = shown
    BY <1>2 DEF GB_sgb_render, Darkest
  <2>2. Animated \in Nat
    BY SgbAssumption DEF Animated
  <2>3. border_animation' \in Nat
    BY <2>1, <2>2
  <2>4. SwapsInTheDark
    <3> SUFFICES ASSUME shown'.border # shown.border, shown.border = border, shown'.picture # "intro"
                 PROVE  shown'.dark = FADE
      BY DEF SwapsInTheDark
    <3>1. shown' = [picture |-> Picture, border |-> border', dark |-> Fading]
      BY <2>1
    <3>2. border_animation' = FADE
      BY <2>1, <3>1
    <3>3. ~(intro_animation' < INTRO_ANIMATION_LENGTH)
      BY <3>1 DEF Picture
    <3>4. Animated = FADE + 1
      BY <2>1, <2>2, <3>2, SgbAssumption
    <3>5. ~(Animated = 0) /\ ~(Animated > 2 * FADE) /\ Animated > FADE /\ 2 * FADE - FADE = FADE
      BY <3>4, SgbAssumption
    <3>6. Fading = FADE
      BY <3>2, <3>3, <3>5 DEF Fading
    <3> QED  BY <3>1, <3>6
  <2> QED  BY <2>3, <2>4
<1>3. CASE ScreenNext /\ UNCHANGED <<shown, border_animation>>
  BY <1>3 DEF SwapsInTheDark
<1>4. ScreenNext => (\E rendering \in BOOLEAN : GB_sgb_render(rendering)) \/ UNCHANGED <<shown, border_animation>>
  BY DEF ScreenNext, Header, PalCommand, PalSet, MaskEn, Trn, Ready, BootRomFinishes, pictures, borders
<1> QED  BY <1>1, <1>2, <1>3, <1>4

SgbInv == Heard /\ AttributesInv /\ border_animation \in Nat

(* The commands a program sends arrive unless the header disabled them,    *)
(* the commands for attributes agree, and the border is replaced in the    *)
(* dark, whatever the sizes, the figures and the lengths of the            *)
(* animations: sgb.c.                                                      *)
THEOREM SgbTheorem == SgbSpec => SgbObeys
<1>1. SgbInit => SgbInv
  <2> SUFFICES ASSUME SgbInit PROVE SgbInv
    OBVIOUS
  <2>1. PacketsInv /\ AttributesInv
    BY PacketsStart, AttributesStart DEF SgbInit
  <2>2. border_animation \in Nat
    BY DEF SgbInit, ScreenInit
  <2> QED  BY <2>1, <2>2 DEF SgbInv, Heard
<1>2. SgbInv /\ [SgbNext]_sgbVars => SgbInv' /\ [SwapsInTheDark]_screenVars
  <2> SUFFICES ASSUME SgbInv, [SgbNext]_sgbVars PROVE SgbInv' /\ [SwapsInTheDark]_screenVars
    OBVIOUS
  <2>1. [PacketsNext]_packetVars /\ [AttributesNext]_attributeVars /\ [ScreenNext]_screenVars
    BY DEF SgbNext, sgbVars
  <2>2. Heard'
    BY <2>1, PacketsStep, DisabledStays DEF SgbInv, Heard
  <2> QED  BY <2>1, <2>2, AttributesStep, FramesOfBorder DEF SgbInv
<1>3. SgbInv => CommandsArrive /\ DrawnAlike
  BY PacketsArrive DEF SgbInv, AttributesInv, DrawnAlike
<1> QED  BY <1>1, <1>2, <1>3, PTL DEF SgbSpec, SgbObeys
=============================================================================
