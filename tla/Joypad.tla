------------------------------- MODULE Joypad -------------------------------
(***************************************************************************)
(* The joypad (Core/joypad.c) and the JOYP register (Core/memory.c): keys  *)
(* that bounce, a selection that takes a while to switch on a DMG, and the *)
(* players of a Super Game Boy.  Whether a bouncing key reads as pressed   *)
(* is a hash of clocks in the source, here a free choice.                  *)
(*                                                                         *)
(* A selection is the set of the halves that are selected, the lines of    *)
(* JOYP that are low.  A half has a pair of opposing keys, 1 and 2.        *)
(***************************************************************************)
EXTENDS Integers, FiniteSets, FiniteSetsExt

CONSTANTS
    JoypadModels,    \* of "DMG", "CGB", "SGB"
    Bounce,          \* how long a key bounces, in steps
    Rise,            \* how long the faster of the two lines takes to rise
    Presses,         \* the sets of keys a player may press
    IllegalInputs    \* illegal_inputs_allowed

ASSUME BounceAssumption == Bounce \in Nat /\ Rise \in Nat

Halves == {"directions", "others"}
Keys == Halves \X {1, 2}

VARIABLES
    joy_model,
    keys,                    \* of each player, the pressed ones
    key_bounce_timing,
    selection, low,          \* JOYP: the halves that are selected, the keys that read as pressed
    joyp_switching_delay, joyp_switch_value,
    joypad_is_stable,
    player_count, current_player,
    interrupt,               \* IF's bit
    written                  \* the selection that was written last, unless it was ignored

joypadVars == <<joy_model, keys, key_bounce_timing, selection, low, joyp_switching_delay,
                joyp_switch_value, joypad_is_stable, player_count, current_player, interrupt,
                written>>

Players == IF joy_model = "SGB" THEN 0 .. 3 ELSE {0}
ShouldBounce == joy_model # "SGB"

JoypadInit ==
    /\ joy_model \in JoypadModels
    /\ keys = [p \in Players |-> {}] /\ key_bounce_timing = [k \in Keys |-> 0]
    /\ selection = Halves /\ low = {} /\ written = Halves
    /\ joyp_switching_delay = 0 /\ joyp_switch_value = Halves
    /\ joypad_is_stable = TRUE
    /\ player_count = 1 /\ current_player = 0
    /\ interrupt = FALSE

-----------------------------------------------------------------------------
(* The bits that read as pressed, 1 .. 4, when nothing bounces; the bits 1 *)
(* and 2 of both halves stand for all four.                                *)
Legal(bits) == IF ~IllegalInputs /\ 1 \in bits THEN bits \ {2} ELSE bits

Shown(pressed, halves, player, count) ==
    LET Of(half) == {i \in {1, 2} : <<half, i>> \in pressed} IN
    CASE halves = {} -> IF count > 1 THEN {i \in {1, 2} : (player \div i) % 2 = 1} ELSE {}
      [] halves = {"directions"} -> Legal(Of("directions"))
      [] halves = {"others"} -> Of("others")
      [] halves = Halves -> Of("directions") \union Of("others")

(* get_input: the first player's keys, of which those that bounce may read *)
(* as the opposite.                                                        *)
Readings(player, pressed, bouncing) ==
    IF player # 0 THEN {pressed}
    ELSE {(pressed \ flipped) \union (flipped \ pressed) : flipped \in SUBSET bouncing}

(* GB_update_joyp, from the primed state.                                  *)
GB_update_joyp ==
    LET bouncing == {k \in Keys : key_bounce_timing'[k] > 0} IN
    /\ \E pressed \in Readings(current_player', keys'[current_player'], bouncing) :
            low' = Shown(pressed, selection', current_player', player_count')
    /\ interrupt' = (interrupt \/ low' \ low # {})

-----------------------------------------------------------------------------
(* GB_set_key_state_for_player, and GB_set_key_mask, which sets several.   *)
GB_set_keys(player, pressed) ==
    LET changed == (keys[player] \ pressed) \union (pressed \ keys[player]) IN
    /\ keys' = [keys EXCEPT ![player] = pressed]
    /\ key_bounce_timing' =
            [k \in Keys |-> IF ShouldBounce /\ k \in changed THEN Bounce ELSE key_bounce_timing[k]]
    /\ joypad_is_stable' = (joypad_is_stable /\ ~(ShouldBounce /\ changed # {}))
    /\ UNCHANGED <<joy_model, selection, joyp_switching_delay, joyp_switch_value, player_count,
                   current_player, written>>
    /\ GB_update_joyp

(* How long it takes for one selection to become another: until the lines *)
(* that are no longer low have risen.                                      *)
Delay(from, to) ==
    IF "directions" \in from \ to THEN 2 * Rise ELSE IF "others" \in from \ to THEN Rise ELSE 0

(* GB_sgb_write: the end of a read of the others passes on to the next     *)
(* player, and the last pulse of a packet may be that of MLT_REQ.          *)
NextPlayer(halves) ==
    IF "others" \in selection \ halves /\ player_count % 2 = 0
    THEN (current_player + 1) % player_count ELSE current_player

SgbWrite(halves) ==
    \/ player_count' = player_count /\ current_player' = NextPlayer(halves)
    \/ /\ halves = {"directions"}
       /\ player_count' \in {1, 2, 4}
       /\ current_player' = NextPlayer(halves) % player_count'

WriteOnDmgForgetful(halves) ==    \* mutant: a selection that switches is not the last to be written
    /\ joyp_switch_value' = IF joyp_switching_delay > 0 THEN joyp_switch_value ELSE halves
    /\ joyp_switching_delay' = Max({joyp_switching_delay, Delay(selection, halves)})
    /\ selection' = IF joyp_switching_delay' > 0 THEN halves \union selection ELSE halves
    /\ joypad_is_stable' = (joypad_is_stable /\ joyp_switching_delay' = 0)

(* A selection in the middle of a switch is completed by the next write;   *)
(* while it switches, both selections are low.                             *)
WriteOnDmg(halves) ==
    LET from == IF joyp_switching_delay > 0 THEN joyp_switch_value ELSE selection IN
    /\ joyp_switch_value' = halves
    /\ joyp_switching_delay' = Max({joyp_switching_delay, Delay(from, halves)})
    /\ selection' = IF joyp_switching_delay' > 0 THEN halves \union from ELSE halves
    /\ joypad_is_stable' = (joypad_is_stable /\ joyp_switching_delay' = 0)

(* A write of what JOYP's lines are already is ignored, also when they are *)
(* on their way to something else.                                         *)
WriteJOYP(halves) ==
    /\ halves # selection
    /\ IF joy_model = "DMG"
       THEN WriteOnDmg(halves) /\ UNCHANGED <<player_count, current_player>>
       ELSE /\ selection' = halves
            /\ IF joy_model = "SGB" THEN SgbWrite(halves)
               ELSE UNCHANGED <<player_count, current_player>>
            /\ UNCHANGED <<joyp_switching_delay, joyp_switch_value, joypad_is_stable>>
    /\ written' = halves
    /\ UNCHANGED <<joy_model, keys, key_bounce_timing>>
    /\ GB_update_joyp

GB_joypad_run ==
    LET bouncing == \E k \in Keys : key_bounce_timing[k] > 0
        switched == joyp_switching_delay = 1 IN
    /\ ~joypad_is_stable
    /\ joypad_is_stable' = (joyp_switching_delay = 0 /\ ~bouncing)
    /\ joyp_switching_delay' = Max({joyp_switching_delay - 1, 0})
    /\ selection' = IF switched THEN joyp_switch_value ELSE selection
    /\ key_bounce_timing' = [k \in Keys |-> Max({key_bounce_timing[k] - 1, 0})]
    /\ UNCHANGED <<joy_model, keys, joyp_switch_value, player_count, current_player, written>>
    /\ IF switched \/ bouncing THEN GB_update_joyp ELSE UNCHANGED <<low, interrupt>>

(* The program acknowledges the interrupt. *)
Acknowledge ==
    /\ interrupt /\ interrupt' = FALSE
    /\ UNCHANGED <<joy_model, keys, key_bounce_timing, selection, low, joyp_switching_delay,
                   joyp_switch_value, joypad_is_stable, player_count, current_player, written>>

JoypadNext ==
    \/ \E player \in Players, pressed \in Presses : GB_set_keys(player, pressed)
    \/ \E halves \in SUBSET Halves : WriteJOYP(halves)
    \/ GB_joypad_run
    \/ Acknowledge

JoypadSpec == JoypadInit /\ [][JoypadNext]_joypadVars
-----------------------------------------------------------------------------
JoypadTypeOK ==
    /\ joy_model \in JoypadModels
    /\ keys \in [Players -> Presses] /\ key_bounce_timing \in [Keys -> 0 .. Bounce]
    /\ {selection, joyp_switch_value, written} \subseteq SUBSET Halves
    /\ low \subseteq {1, 2} /\ joyp_switching_delay \in 0 .. 2 * Rise
    /\ joypad_is_stable \in BOOLEAN /\ interrupt \in BOOLEAN
    /\ player_count \in {1, 2, 4} /\ current_player \in 0 .. player_count - 1

(* Once GB_joypad_run has nothing to do, JOYP has the selection that was   *)
(* written and shows the keys of the player whose turn it is, whatever was *)
(* pressed, released and selected while keys bounced and lines rose.       *)
ShowsTheKeys ==
    joypad_is_stable =>
        /\ selection = written
        /\ low = Shown(keys[current_player], written, current_player, player_count)
=============================================================================
