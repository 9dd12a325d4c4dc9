----------------------------- MODULE TimerEdge -----------------------------
(***************************************************************************)
(* What the timer is, without DIV, TAC or a state machine: a counter of    *)
(* the falling edges of one signal.  An overflow loads TMA and, one        *)
(* machine cycle later, requests the interrupt; no overflow happens while  *)
(* an earlier one is waiting for its request, so that none goes unnoticed. *)
(***************************************************************************)
EXTENDS Naturals

CONSTANT TimaSize

VARIABLES
    signal,       \* the timer is on and its bit of the divider is set
    tima, tma,
    waiting,      \* an overflow has not requested its interrupt yet
    requested     \* the timer's bit of IF

vars == <<signal, tima, tma, waiting, requested>>

Values == 0 .. TimaSize - 1

Falls == signal /\ ~signal'
Overflows == Falls /\ tima = TimaSize - 1

Count == tima' = IF Overflows THEN tma ELSE IF Falls THEN tima + 1 ELSE tima

Init ==
    /\ signal = FALSE /\ tima = 0 /\ tma = 0
    /\ waiting = FALSE /\ requested = FALSE

(* A machine cycle passes. *)
Cycle ==
    /\ signal' \in BOOLEAN /\ Count
    /\ waiting' = Overflows
    /\ requested' = (requested \/ waiting)
    /\ UNCHANGED tma

(* The program writes DIV or TAC, which may make the signal fall. *)
Glitch ==
    /\ signal' \in BOOLEAN /\ Count
    /\ Overflows => ~waiting
    /\ waiting' = (waiting \/ Overflows)
    /\ UNCHANGED <<tma, requested>>

(* The program writes TIMA or TMA. *)
Load ==
    /\ tima' \in Values /\ tma' \in Values
    /\ UNCHANGED <<signal, waiting, requested>>

(* The interrupt is called, or the program writes IF. *)
SetRequest ==
    /\ requested' \in BOOLEAN
    /\ UNCHANGED <<signal, tima, tma, waiting>>

Next == Cycle \/ Glitch \/ Load \/ SetRequest

Spec == Init /\ [][Next]_vars
=============================================================================
