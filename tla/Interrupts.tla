----------------------------- MODULE Interrupts -----------------------------
(***************************************************************************)
(* Interrupts of the CPU: GB_cpu_run of Core/sm83_cpu.c, with the opcodes  *)
(* that change what it looks at (EI, DI, RETI, HALT and stores to IE or    *)
(* IF).  Every GB_advance_cycles inside it lets the hardware request an    *)
(* interrupt, so that GB_cpu_run is cut into actions where it advances     *)
(* time.  The dispatch pushes PC, and the stack may be where IE or IF are. *)
(***************************************************************************)
EXTENDS Integers, FiniteSets

CONSTANT LastBit    \* the interrupts are 0 .. LastBit; 4 in the source
ASSUME LastBitAssumption == LastBit \in Nat

Bits == 0 .. LastBit

(* Where the two pushes of a dispatch go: IE is at 0xFFFF and IF at 0xFF0F. *)
Stacks == {"memory", "high_ie", "high_if", "low_ie", "low_if"}

VARIABLES
    interrupt_enable, if_register,
    ime, ime_toggle, halted, just_halted, halt_bug,
    place,     \* where GB_cpu_run is
    queue,     \* interrupt_queue
    stack,     \* where PC is being pushed
    pc,        \* Program, the vector of an interrupt, or Cancelled
    enabled    \* EI has been executed with interrupts off, and nothing since

cpu == <<ime, ime_toggle, halted, just_halted, halt_bug>>
vars == <<interrupt_enable, if_register, cpu, place, queue, stack, pc, enabled>>

Program == -1
Cancelled == -2     \* PC is 0: the call lost its interrupt while pushing

At(from, to) == place = from /\ place' = to

Init ==
    /\ interrupt_enable = {} /\ if_register = {}
    /\ ime = FALSE /\ ime_toggle = FALSE
    /\ halted = FALSE /\ just_halted = FALSE /\ halt_bug = FALSE
    /\ place = "start" /\ queue = {} /\ stack = "memory"
    /\ pc = Program /\ enabled = FALSE

-----------------------------------------------------------------------------
(* The PPU, the timer, the serial port or the joypad, while time advances. *)
Request(bit) ==
    /\ if_register' = if_register \union {bit}
    /\ UNCHANGED <<interrupt_enable, cpu, place, queue, stack, pc, enabled>>

(* interrupt_queue is read before the time of a halted instruction passes. *)
Sample ==
    /\ At("start", "decide")
    /\ queue' = interrupt_enable \intersect if_register
    /\ UNCHANGED <<interrupt_enable, if_register, cpu, stack, pc, enabled>>

(* The delayed effect of EI. *)
Toggled == IF ime_toggle THEN ~ime ELSE ime

WakeUpEnabled ==    \* mutant: HALT ends only when the call is possible
    /\ At("decide", "start")
    /\ halted /\ ~ime /\ Toggled /\ queue # {}
    /\ halted' = FALSE /\ just_halted' = FALSE
    /\ ime' = Toggled /\ ime_toggle' = FALSE
    /\ UNCHANGED <<interrupt_enable, if_register, halt_bug, queue, stack, pc, enabled>>

(* HALT ends without a call when interrupts are off. *)
WakeUp ==
    /\ At("decide", "start")
    /\ halted /\ ~ime /\ queue # {}
    /\ halted' = FALSE /\ just_halted' = FALSE
    /\ ime' = Toggled /\ ime_toggle' = FALSE
    /\ UNCHANGED <<interrupt_enable, if_register, halt_bug, queue, stack, pc, enabled>>

(* HALT goes on. *)
StayHalted ==
    /\ At("decide", "start")
    /\ halted /\ queue = {}
    /\ just_halted' = FALSE
    /\ ime' = Toggled /\ ime_toggle' = FALSE
    /\ UNCHANGED <<interrupt_enable, if_register, halted, halt_bug, queue, stack, pc, enabled>>

(* The call of an interrupt, if they were on before this instruction. *)
Dispatch ==
    /\ At("decide", "push_high")
    /\ ime /\ queue # {}
    /\ halted' = FALSE /\ just_halted' = FALSE
    /\ ime' = Toggled /\ ime_toggle' = FALSE
    /\ stack' \in Stacks
    /\ UNCHANGED <<interrupt_enable, if_register, halt_bug, queue, pc, enabled>>

(* The push of PC's high byte, then IE is read again. *)
PushHigh(value) ==
    /\ At("push_high", "push_low")
    /\ interrupt_enable' = IF stack = "high_ie" THEN value ELSE interrupt_enable
    /\ if_register' = IF stack = "high_if" THEN value ELSE if_register
    /\ queue' = interrupt_enable'
    /\ UNCHANGED <<cpu, stack, pc, enabled>>

PushLowNew(value) ==    \* mutant: the interrupt is chosen from the IF just pushed
    /\ At("push_low", "acknowledge")
    /\ interrupt_enable' = IF stack = "low_ie" THEN value ELSE interrupt_enable
    /\ if_register' = IF stack = "low_if" THEN value ELSE if_register
    /\ queue' = queue \intersect if_register'
    /\ UNCHANGED <<cpu, stack, pc, enabled>>

(* The push of the low byte; where it lands on IF, the interrupt is chosen *)
(* from what IF was before.                                                *)
PushLow(value) ==
    /\ At("push_low", "acknowledge")
    /\ queue' = queue \intersect if_register
    /\ interrupt_enable' = IF stack = "low_ie" THEN value ELSE interrupt_enable
    /\ if_register' = IF stack = "low_if" THEN value ELSE if_register
    /\ UNCHANGED <<cpu, stack, pc, enabled>>

(* The lowest bit set in interrupt_queue. *)
Chosen == CHOOSE bit \in queue : \A other \in queue : bit <= other

AcknowledgeStale ==    \* mutant: IF is written back as it was read before
    /\ At("acknowledge", "start")
    /\ IF queue # {}
       THEN if_register' = queue \ {Chosen} /\ pc' = Chosen
       ELSE pc' = Cancelled /\ UNCHANGED if_register
    /\ ime' = FALSE
    /\ UNCHANGED <<interrupt_enable, enabled, ime_toggle, halted, just_halted, halt_bug,
                   queue, stack>>

(* The interrupt of highest priority is cleared, or there is none left and *)
(* PC becomes 0.  Either way interrupts are off.                           *)
Acknowledge ==
    /\ At("acknowledge", "start")
    /\ IF queue # {}
       THEN if_register' = if_register \ {Chosen} /\ pc' = Chosen
       ELSE pc' = Cancelled /\ UNCHANGED if_register
    /\ ime' = FALSE
    /\ UNCHANGED <<interrupt_enable, enabled, ime_toggle, halted, just_halted, halt_bug,
                   queue, stack>>

-----------------------------------------------------------------------------
(* Run mode: one instruction, before which the effect of EI comes. *)
Executes ==
    /\ place = "decide" /\ ~halted /\ ~(ime /\ queue # {})
    /\ pc' = Program
    /\ UNCHANGED <<if_register, queue, stack>>

Nop ==
    /\ Executes /\ place' = "start"
    /\ ime' = Toggled /\ ime_toggle' = FALSE
    /\ just_halted' = FALSE /\ halt_bug' = FALSE /\ enabled' = FALSE
    /\ UNCHANGED <<interrupt_enable, halted>>

DI ==
    /\ Executes /\ place' = "start"
    /\ ime' = FALSE /\ ime_toggle' = FALSE
    /\ just_halted' = FALSE /\ halt_bug' = FALSE /\ enabled' = FALSE
    /\ UNCHANGED <<interrupt_enable, halted>>

EI ==
    /\ Executes /\ place' = "start"
    /\ ime' = Toggled /\ ime_toggle' = ~Toggled /\ enabled' = ~Toggled
    /\ just_halted' = FALSE /\ halt_bug' = FALSE
    /\ UNCHANGED <<interrupt_enable, halted>>

RETI ==
    /\ Executes /\ place' = "start"
    /\ ime' = TRUE /\ ime_toggle' = FALSE
    /\ just_halted' = FALSE /\ halt_bug' = FALSE /\ enabled' = FALSE
    /\ UNCHANGED <<interrupt_enable, halted>>

HALTBugAlways ==    \* mutant: the bug does not depend on whether interrupts are on
    LET pending == interrupt_enable \intersect if_register # {} IN
    /\ Executes /\ place' = "start"
    /\ ime' = Toggled /\ ime_toggle' = FALSE /\ enabled' = FALSE
    /\ halted' = ~pending
    /\ halt_bug' = pending
    /\ just_halted' = TRUE
    /\ UNCHANGED interrupt_enable

(* A request that is pending keeps HALT from halting; with interrupts off  *)
(* the next opcode is then read twice.                                     *)
HALT ==
    LET pending == interrupt_enable \intersect if_register # {} IN
    /\ Executes /\ place' = "start"
    /\ ime' = Toggled /\ ime_toggle' = FALSE /\ enabled' = FALSE
    /\ halted' = ~pending
    /\ halt_bug' = (pending /\ ~Toggled)
    /\ just_halted' = TRUE
    /\ UNCHANGED interrupt_enable

(* An illegal opcode halts for good. *)
Ill ==
    /\ Executes /\ place' = "start"
    /\ ime' = Toggled /\ ime_toggle' = FALSE /\ enabled' = FALSE
    /\ interrupt_enable' = {} /\ halted' = TRUE
    /\ just_halted' = FALSE /\ halt_bug' = FALSE

(* A store to IE or IF; time passes before it. *)
BeginStore ==
    /\ Executes /\ place' = "store"
    /\ ime' = Toggled /\ ime_toggle' = FALSE /\ enabled' = FALSE
    /\ just_halted' = FALSE /\ halt_bug' = FALSE
    /\ UNCHANGED <<interrupt_enable, halted>>

Store(value) ==
    /\ At("store", "start")
    /\ \/ interrupt_enable' = value /\ UNCHANGED if_register
       \/ if_register' = value /\ UNCHANGED interrupt_enable
    /\ UNCHANGED <<cpu, queue, stack, pc, enabled>>

Cpu ==
    \/ Sample \/ WakeUp \/ StayHalted \/ Dispatch
    \/ \E value \in SUBSET Bits : PushHigh(value) \/ PushLow(value) \/ Store(value)
    \/ Acknowledge
    \/ Nop \/ DI \/ EI \/ RETI \/ HALT \/ Ill \/ BeginStore

Next == Cpu \/ \E bit \in Bits : Request(bit)

(* The frontend goes on calling GB_run. *)
Spec == Init /\ [][Next]_vars /\ WF_vars(Cpu)
-----------------------------------------------------------------------------
TypeOK ==
    /\ interrupt_enable \subseteq Bits /\ if_register \subseteq Bits /\ queue \subseteq Bits
    /\ ime \in BOOLEAN /\ ime_toggle \in BOOLEAN
    /\ halted \in BOOLEAN /\ just_halted \in BOOLEAN /\ halt_bug \in BOOLEAN
    /\ enabled \in BOOLEAN
    /\ place \in {"start", "decide", "push_high", "push_low", "acknowledge", "store"}
    /\ stack \in Stacks
    /\ pc \in Bits \union {Program, Cancelled}

(* The instruction after EI is executed before any interrupt is called.    *)
EiIsDelayed == place \in {"push_high", "push_low", "acknowledge"} => ~enabled

(* A handler begins with interrupts off, and no EI of the interrupted      *)
(* program takes effect in it.                                             *)
HandlerIsMasked ==
    pc # Program /\ place \in {"start", "decide"} => ~ime /\ ~ime_toggle

(* IE and IF are read again after the pushes, at different times; even so  *)
(* only a stack that overwrites IE or IF can make a call go to 0: requests *)
(* that arrive meanwhile never take one away.                              *)
OnlyTheStackCancels == pc = Cancelled => stack # "memory"

(* An interrupt that was not requested is never chosen, even when the low  *)
(* byte of PC is pushed over IF.  The one that is called is the most       *)
(* urgent of those chosen from, is still requested and enabled when the    *)
(* call is made, except where that very byte is what took it away, and is  *)
(* no longer requested after it.                                           *)
CallsTheRequested ==
    [][/\ place = "push_low" /\ place' = "acknowledge" => queue' \subseteq if_register
       /\ place = "acknowledge" /\ pc' \in Bits =>
             /\ \A other \in queue : pc' <= other
             /\ pc' \in if_register \/ stack = "low_if"
             /\ pc' \in interrupt_enable \/ stack = "low_ie"
             /\ pc' \notin if_register']_vars

(* The opcode that the HALT bug reads twice is one of the interrupted      *)
(* program, never the first one of a handler.                              *)
HaltBugStaysOut == place \in {"push_high", "push_low", "acknowledge"} => ~halt_bug

(* A call is made neither before EI takes effect nor with the HALT bug     *)
(* pending, and goes to 0 only because of where its pushes went.           *)
CallsAreOrderly == EiIsDelayed /\ HaltBugStaysOut /\ OnlyTheStackCancels

(* A request is cleared by its own call or by a write to IF, never because *)
(* it came while another one was being called.                             *)
RequestsSurvive ==
    [][\A bit \in if_register \ if_register' :
          \/ place = "acknowledge" /\ pc' = bit
          \/ place = "store"
          \/ place = "push_high" /\ stack = "high_if"
          \/ place = "push_low" /\ stack = "low_if"]_vars

(* HALT ends when an enabled interrupt is requested, with interrupts on or *)
(* off, also when the request comes between the test and the halt.         *)
HaltEnds == halted /\ interrupt_enable \intersect if_register # {} ~> ~halted
=============================================================================
