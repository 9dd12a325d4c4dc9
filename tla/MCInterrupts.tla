---------------------------- MODULE MCInterrupts ----------------------------
(***************************************************************************)
(* The CPU's interrupts, and two of the devices that request them: the     *)
(* timer, and the serial ports of two machines with a cable.  What the one *)
(* reads of the others is a request at any time, so that a behaviour is    *)
(* about one of them.                                                      *)
(***************************************************************************)
EXTENDS Interrupts, Timer, LinkCable

VARIABLE part

allVars == <<part, vars, timerVars, cableVars>>

(* The bytes matter where a behaviour is about the cable. *)
Idle == \A side \in Sides : gb[side].sb = [i \in 1 .. Width |-> 0]

MCInit ==
    /\ part \in {"interrupts", "timer", "cable"}
    /\ Init /\ TimerInit /\ CableInit /\ (part = "cable" \/ Idle)

CpuStep == part = "interrupts" /\ Cpu /\ UNCHANGED <<part, timerVars, cableVars>>
RequestStep ==
    /\ part = "interrupts" /\ \E bit \in Bits : Request(bit)
    /\ UNCHANGED <<part, timerVars, cableVars>>
TimerStep == part = "timer" /\ TimerNext /\ UNCHANGED <<part, vars, cableVars>>
CableStep == part = "cable" /\ CableNext /\ UNCHANGED <<part, vars, timerVars>>
EdgeStep(side) == part = "cable" /\ Edge(side) /\ UNCHANGED <<part, vars, timerVars>>

MCNext == CpuStep \/ RequestStep \/ TimerStep \/ CableStep

(* The CPU of the frontend goes on, and so do both machines' dividers. *)
MCSpec ==
    /\ MCInit /\ [][MCNext]_allVars
    /\ WF_allVars(CpuStep) /\ \A side \in Sides : WF_allVars(EdgeStep(side))
=============================================================================
