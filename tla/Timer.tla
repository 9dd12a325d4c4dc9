------------------------------- MODULE Timer -------------------------------
(***************************************************************************)
(* The timer of Core/timing.c and the registers DIV, TIMA, TMA and TAC of  *)
(* Core/memory.c.  TIMA is increased in three places: as the divider       *)
(* counts, when a write to DIV clears it, and when a write to TAC takes    *)
(* the selected bit away.  The CPU accesses memory once in a machine       *)
(* cycle, in which the divider counts once.                                *)
(***************************************************************************)
EXTENDS Naturals, IoSizes

TAC_TRIGGER_BITS == [select \in 0 .. 3 |-> <<512, 8, 32, 128>>[select + 1]]

VARIABLES
    div_counter, tima, tma,
    tac,                 \* [enabled, select]
    tima_reload_state,
    timer_requested,           \* the timer's bit of IF
    accessed             \* the CPU has made its access of this machine cycle

timerVars == <<div_counter, tima, tma, tac, tima_reload_state, timer_requested, accessed>>

Values == 0 .. TimaSize - 1
TACs == [enabled : BOOLEAN, select : 0 .. 3]

High(div, select) == (div \div TAC_TRIGGER_BITS[select]) % 2 = 1

(* GB_reset leaves 8 in the divider. *)
TimerInit ==
    /\ div_counter = 8 % DivSize /\ tima = 0 /\ tma = 0
    /\ tac = [enabled |-> FALSE, select |-> 0]
    /\ tima_reload_state = "RUNNING" /\ timer_requested = FALSE /\ accessed = FALSE

(* increase_tima, when the signal falls. *)
Increase(falls, state) ==
    LET overflows == falls /\ tima = TimaSize - 1 IN
    /\ tima' = IF overflows THEN tma ELSE IF falls THEN tima + 1 ELSE tima
    /\ tima_reload_state' = IF overflows THEN "RELOADING" ELSE state

(* GB_set_internal_div_counter: a bit that becomes 0 triggers. *)
SetDiv(value, state) ==
    /\ Increase(tac.enabled /\ High(div_counter, tac.select) /\ ~High(value, tac.select), state)
    /\ div_counter' = value

(* advance_tima_state_machine *)
Advanced ==
    CASE tima_reload_state = "RELOADED" -> "RUNNING"
      [] tima_reload_state = "RELOADING" -> "RELOADED"
      [] OTHER -> tima_reload_state

(* timers_run, once in a machine cycle. *)
Tick ==
    /\ timer_requested' = (timer_requested \/ tima_reload_state = "RELOADING")
    /\ SetDiv((div_counter + 4) % DivSize, Advanced)
    /\ accessed' = FALSE
    /\ UNCHANGED <<tma, tac>>

Access == ~accessed /\ accessed' = TRUE

WriteDIVSilent ==    \* mutant: DIV is cleared without looking for a trigger
    /\ Access
    /\ div_counter' = 0
    /\ UNCHANGED <<tima, tma, tac, tima_reload_state, timer_requested>>

WriteDIV ==
    /\ Access
    /\ SetDiv(0, tima_reload_state)
    /\ UNCHANGED <<tma, tac, timer_requested>>

(* A write that comes together with the reload is lost. *)
WriteTIMA(value) ==
    /\ Access
    /\ tima' = IF tima_reload_state = "RELOADED" THEN tima ELSE value
    /\ UNCHANGED <<div_counter, tma, tac, tima_reload_state, timer_requested>>

(* TMA is still being copied. *)
WriteTMA(value) ==
    /\ Access
    /\ tma' = value
    /\ tima' = IF tima_reload_state = "RUNNING" THEN tima ELSE value
    /\ UNCHANGED <<div_counter, tac, tima_reload_state, timer_requested>>

(* GB_emulate_timer_glitch *)
Glitches(old_tac, new_tac) ==
    /\ old_tac.enabled
    /\ High(div_counter, old_tac.select)
    /\ ~new_tac.enabled \/ ~High(div_counter, new_tac.select)

WriteTAC(value) ==
    /\ Access
    /\ Increase(Glitches(tac, value), tima_reload_state)
    /\ tac' = value
    /\ UNCHANGED <<div_counter, tma, timer_requested>>

(* The interrupt is called, or the program writes IF. *)
SetRequest ==
    /\ timer_requested' \in BOOLEAN
    /\ UNCHANGED <<div_counter, tima, tma, tac, tima_reload_state, accessed>>

TimerNext ==
    \/ Tick \/ WriteDIV \/ SetRequest
    \/ \E value \in Values : WriteTIMA(value) \/ WriteTMA(value)
    \/ \E value \in TACs : WriteTAC(value)

TimerSpec == TimerInit /\ [][TimerNext]_timerVars
-----------------------------------------------------------------------------
TimerTypeOK ==
    /\ div_counter \in 0 .. DivSize - 1
    /\ tima \in Values /\ tma \in Values /\ tac \in TACs
    /\ tima_reload_state \in {"RUNNING", "RELOADING", "RELOADED"}
    /\ timer_requested \in BOOLEAN /\ accessed \in BOOLEAN

Signal == tac.enabled /\ High(div_counter, tac.select)

Counter == INSTANCE TimerEdge
               WITH signal <- Signal, requested <- timer_requested,
                    waiting <- tima_reload_state = "RELOADING"

(* The three places where TIMA is increased amount to one rule: TIMA       *)
(* counts the falling edges of "the timer is on and the selected bit is    *)
(* set", no more and no less.  Every overflow requests one interrupt: no   *)
(* write to DIV or TAC comes at the time to cause a second one before.     *)
CountsEdges == Counter!Spec
=============================================================================
