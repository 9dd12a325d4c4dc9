----------------------------- MODULE CoreProofs -----------------------------
(***************************************************************************)
(* Proofs about Interrupts, for any number of interrupts, and about        *)
(* Battery, for an EEPROM of any size and clocks of any units.             *)
(***************************************************************************)
EXTENDS Interrupts, Battery, SequenceTheorems, WellFoundedInduction, TLAPS

Dispatching == place \in {"push_high", "push_low", "acknowledge"}

(* A toggle that is pending can only switch interrupts on, and EI leaves   *)
(* one pending until an instruction is executed.                           *)
ToggleInv ==
    /\ ime_toggle => ~ime
    /\ enabled => ime_toggle /\ ~halted /\ ~Dispatching

(* The bug is armed only while interrupts are off, where no call begins.   *)
BugInv == halt_bug => ~ime /\ ~ime_toggle /\ ~Dispatching

(* A call begins in the program, never before a handler's first opcode.    *)
CallInv ==
    /\ HandlerIsMasked
    /\ Dispatching => pc = Program /\ ime
    /\ place = "store" => pc = Program

(* What was sampled is still requested and enabled when it is looked at,   *)
(* and so is what a call is chosen from, but for what the last push has    *)
(* overwritten; a stack in memory leaves something to be called.           *)
QueueInv ==
    /\ place = "decide" => queue \subseteq interrupt_enable \intersect if_register
    /\ place = "push_high" => interrupt_enable \intersect if_register # {}
    /\ place = "push_low" => queue = interrupt_enable
    /\ place = "acknowledge" =>
          /\ queue \subseteq interrupt_enable \/ stack = "low_ie"
          /\ queue \subseteq if_register \/ stack = "low_if"
    /\ place = "push_low" /\ stack = "memory" => queue \intersect if_register # {}
    /\ place = "acknowledge" /\ stack = "memory" => queue # {}

IInv == TypeOK /\ ToggleInv /\ BugInv /\ CallInv /\ QueueInv /\ OnlyTheStackCancels

-----------------------------------------------------------------------------
(* The interrupt chosen is the lowest of the queue. *)
LEMMA ChosenIsFirst ==
    ASSUME queue \subseteq Bits, queue # {}
    PROVE  Chosen \in queue /\ \A other \in queue : Chosen <= other
<1> DEFINE R == OpToRel(<, Nat)
<1>1. IsWellFoundedOn(R, Nat)  BY NatLessThanWellFounded
<1>2. queue \subseteq Nat  BY LastBitAssumption DEF Bits
<1> HIDE DEF R
<1>3. PICK bit \in queue : \A other \in queue : ~(<<other, bit>> \in R)
  BY <1>1, <1>2, WFMin
<1>4. \A other \in queue : bit <= other
  <2> TAKE other \in queue
  <2>1. <<other, bit>> \in Nat \X Nat  BY <1>2
  <2>2. ~(other < bit)  BY <1>3, <2>1 DEF R, OpToRel
  <2> QED  BY <1>2, <2>2
<1> QED  BY <1>4 DEF Chosen

(* The values of pc are told apart. *)
LEMMA Places ==
    /\ Program # Cancelled
    /\ Program \notin Bits /\ Cancelled \notin Bits
BY LastBitAssumption DEF Program, Cancelled, Bits

(* The CPU begins between two instructions, with nothing pending.          *)
LEMMA InitIInv == Init => IInv
BY Places DEF Init, IInv, TypeOK, ToggleInv, BugInv, CallInv, HandlerIsMasked, QueueInv,
       OnlyTheStackCancels, Dispatching, Stacks

(* Every step of the CPU and every request keeps the invariant.            *)
LEMMA NextIInv == IInv /\ [Next]_vars => IInv'
<1> SUFFICES ASSUME IInv, [Next]_vars PROVE IInv'
  OBVIOUS
<1> USE Places
<1> USE DEF IInv, TypeOK, ToggleInv, BugInv, CallInv, HandlerIsMasked, QueueInv,
            OnlyTheStackCancels, Dispatching, At, cpu
<1>1. ASSUME NEW bit \in Bits, Request(bit) PROVE IInv'
  BY <1>1 DEF Request
<1>2. CASE Sample
  BY <1>2 DEF Sample
<1>3. CASE WakeUp
  BY <1>3 DEF WakeUp, Toggled
<1>4. CASE StayHalted
  BY <1>4 DEF StayHalted, Toggled
<1>5. CASE Dispatch
  BY <1>5 DEF Dispatch, Toggled, Stacks
<1>6. ASSUME NEW value \in SUBSET Bits, PushHigh(value) PROVE IInv'
  BY <1>6 DEF PushHigh, Stacks
<1>7. ASSUME NEW value \in SUBSET Bits, PushLow(value) PROVE IInv'
  BY <1>7 DEF PushLow, Stacks
<1>8. CASE Acknowledge
  <2>1. /\ place = "acknowledge" /\ place' = "start" /\ ime' = FALSE
        /\ UNCHANGED <<interrupt_enable, enabled, ime_toggle, halted, just_halted,
                       halt_bug, queue, stack>>
    BY <1>8 DEF Acknowledge
  <2>2. ~ime_toggle  BY <2>1
  <2>3. CASE queue # {}
    <3>1. Chosen \in Bits /\ Chosen # Cancelled
      BY <2>3, ChosenIsFirst
    <3>2. if_register' \subseteq Bits /\ pc' = Chosen
      BY <1>8, <2>3 DEF Acknowledge
    <3> QED  BY <2>1, <2>2, <3>1, <3>2
  <2>4. CASE queue = {}
    <3>1. pc' = Cancelled /\ if_register' = if_register /\ stack # "memory"
      BY <1>8, <2>4 DEF Acknowledge
    <3> QED  BY <2>1, <2>2, <3>1
  <2> QED  BY <2>3, <2>4
<1>9. CASE Nop
  BY <1>9 DEF Nop, Executes, Toggled
<1>10. CASE DI
  BY <1>10 DEF DI, Executes, Toggled
<1>11. CASE EI
  BY <1>11 DEF EI, Executes, Toggled
<1>12. CASE RETI
  BY <1>12 DEF RETI, Executes, Toggled
<1>13. CASE HALT
  BY <1>13 DEF HALT, Executes, Toggled
<1>14. CASE Ill
  BY <1>14 DEF Ill, Executes, Toggled
<1>15. CASE BeginStore
  BY <1>15 DEF BeginStore, Executes, Toggled
<1>16. ASSUME NEW value \in SUBSET Bits, Store(value) PROVE IInv'
  <2>1. interrupt_enable' \subseteq Bits /\ if_register' \subseteq Bits
    BY <1>16 DEF Store
  <2> QED  BY <1>16, <2>1 DEF Store
<1>17. CASE UNCHANGED vars
  BY <1>17 DEF vars
<1> QED
  BY <1>1, <1>2, <1>3, <1>4, <1>5, <1>6, <1>7, <1>8, <1>9, <1>10, <1>11, <1>12, <1>13,
     <1>14, <1>15, <1>16, <1>17 DEF Next, Cpu

(* The invariant the theorems below follow from.                           *)
THEOREM Invariance == Spec => []IInv
BY InitIInv, NextIInv, PTL DEF Spec

(* EiIsDelayed: between an EI that finds interrupts off and the next       *)
(* instruction no interrupt is called (ime_toggle of GB_cpu_run).          *)
THEOREM EiDelay == Spec => []EiIsDelayed
<1>1. IInv => EiIsDelayed  BY DEF IInv, ToggleInv, Dispatching, EiIsDelayed
<1> QED  BY <1>1, Invariance, PTL

(* HandlerIsMasked: whether the call was made or cancelled, what follows   *)
(* it begins with interrupts off and no EI pending.                        *)
THEOREM Masked == Spec => []HandlerIsMasked
<1>1. IInv => HandlerIsMasked  BY DEF IInv, CallInv
<1> QED  BY <1>1, Invariance, PTL

(* HaltBugStaysOut: halt_bug, set by HALT, is never set during a dispatch. *)
THEOREM BugStaysOut == Spec => []HaltBugStaysOut
<1>1. IInv => HaltBugStaysOut  BY DEF IInv, BugInv, Dispatching, HaltBugStaysOut
<1> QED  BY <1>1, Invariance, PTL

(* OnlyTheStackCancels: with the stack in memory, the second and third     *)
(* reading of IE and IF leave an interrupt to be called.                   *)
THEOREM StackCancels == Spec => []OnlyTheStackCancels
<1>1. IInv => OnlyTheStackCancels  BY DEF IInv
<1> QED  BY <1>1, Invariance, PTL

(* CallsAreOrderly: the three of them, of one dispatch.                    *)
THEOREM OrderlyCalls == Spec => []CallsAreOrderly
<1>1. EiIsDelayed /\ HaltBugStaysOut /\ OnlyTheStackCancels => CallsAreOrderly
  BY DEF CallsAreOrderly
<1> QED  BY <1>1, EiDelay, BugStaysOut, StackCancels, PTL

(* RequestsSurvive: a bit of IF is cleared by its own call or by a write   *)
(* to IF, whatever is requested during a dispatch.                         *)
THEOREM Survival == Spec => RequestsSurvive
<1> DEFINE Cleared(bit) ==
      \/ place = "acknowledge" /\ pc' = bit
      \/ place = "store"
      \/ place = "push_high" /\ stack = "high_if"
      \/ place = "push_low" /\ stack = "low_if"
<1>1. [Next]_vars => [\A bit \in if_register \ if_register' : Cleared(bit)]_vars
  <2> SUFFICES ASSUME Next, NEW bit \in if_register \ if_register' PROVE Cleared(bit)
    OBVIOUS
  <2> USE DEF At
  <2>1. CASE \E other \in Bits : Request(other)
    BY <2>1 DEF Request
  <2>2. CASE Sample \/ WakeUp \/ StayHalted \/ Dispatch
    BY <2>2 DEF Sample, WakeUp, StayHalted, Dispatch
  <2>3. ASSUME NEW value \in SUBSET Bits, PushHigh(value) \/ PushLow(value) \/ Store(value)
        PROVE  Cleared(bit)
    BY <2>3 DEF PushHigh, PushLow, Store
  <2>4. CASE Acknowledge
    BY <2>4 DEF Acknowledge
  <2>5. CASE Nop \/ DI \/ EI \/ RETI \/ HALT \/ Ill \/ BeginStore
    BY <2>5 DEF Nop, DI, EI, RETI, HALT, Ill, BeginStore, Executes
  <2> QED  BY <2>1, <2>2, <2>3, <2>4, <2>5 DEF Next, Cpu
<1> QED  BY <1>1, PTL DEF Spec, RequestsSurvive

(* CallsTheRequested: of what IE and IF held when they were read after the *)
(* pushes, GB_cpu_run calls the lowest bit, which nothing but the last     *)
(* push can have taken away, and clears it.                                *)
THEOREM RequestedCalls == Spec => CallsTheRequested
<1> DEFINE FromIF == place = "push_low" /\ place' = "acknowledge" => queue' \subseteq if_register
           Called ==
             /\ \A other \in queue : pc' <= other
             /\ pc' \in if_register \/ stack = "low_if"
             /\ pc' \in interrupt_enable \/ stack = "low_ie"
             /\ pc' \notin if_register'
           Calls == place = "acknowledge" /\ pc' \in Bits => Called
<1>1. IInv /\ [Next]_vars => [FromIF /\ Calls]_vars
  <2> SUFFICES ASSUME IInv, Next PROVE FromIF /\ Calls
    OBVIOUS
  <2> USE DEF At
  <2>1. CASE Acknowledge
    <3>1. FromIF
      BY <2>1 DEF Acknowledge
    <3>2. ASSUME pc' \in Bits PROVE Called
      <4>1. place = "acknowledge" /\ queue # {}
        BY <2>1, <3>2, Places DEF Acknowledge
      <4>2. if_register' = if_register \ {Chosen} /\ pc' = Chosen
        BY <2>1, <4>1 DEF Acknowledge
      <4>3. Chosen \in queue /\ \A other \in queue : Chosen <= other
        BY <4>1, ChosenIsFirst DEF IInv, TypeOK
      <4>4. /\ queue \subseteq interrupt_enable \/ stack = "low_ie"
            /\ queue \subseteq if_register \/ stack = "low_if"
        BY <4>1 DEF IInv, QueueInv
      <4> QED  BY <4>2, <4>3, <4>4
    <3> QED  BY <3>1, <3>2
  <2>2. ASSUME NEW value \in SUBSET Bits, PushHigh(value) \/ PushLow(value) \/ Store(value)
        PROVE  FromIF /\ Calls
    BY <2>2 DEF PushHigh, PushLow, Store
  <2>3. CASE Sample \/ WakeUp \/ StayHalted \/ Dispatch
    BY <2>3 DEF Sample, WakeUp, StayHalted, Dispatch
  <2>4. CASE Nop \/ DI \/ EI \/ RETI \/ HALT \/ Ill \/ BeginStore
    BY <2>4 DEF Nop, DI, EI, RETI, HALT, Ill, BeginStore, Executes
  <2>5. CASE \E bit \in Bits : Request(bit)
    BY <2>5, Places DEF Request, IInv, CallInv, Dispatching
  <2> QED  BY <2>1, <2>2, <2>3, <2>4, <2>5 DEF Next, Cpu
<1> QED  BY <1>1, Invariance, PTL DEF Spec, CallsTheRequested

-----------------------------------------------------------------------------
(* What a WRITE or WRAL has stored of its argument. *)
Begun(bits) == [i \in 1 .. WordBits |-> IF i <= Len(bits) THEN bits[i] ELSE 0]

(* The words a WRITE or WRAL is about. *)
Cleared(c) == IF Operation(c) = "WRITE" THEN {Address(c)} ELSE Addresses

ChipTypes ==
    /\ words \in [Addresses -> Words] /\ read_bits \in Words
    /\ argument_bits_left \in 0 .. WordBits
    /\ command \in Seq(Levels)
    /\ argument_bits_left = 0 => Len(command) < CommandLength

(* A word is one of those that may be stored, except where an argument is  *)
(* coming in, whose bits are in the words it is for.                       *)
StoredInv ==
    IF argument_bits_left = 0 THEN \A a \in Addresses : words[a] \in stored[a]
    ELSE /\ Len(command) = CommandLength /\ Operation(command) \in {"WRITE", "WRAL"}
         /\ argument \in Seq(Levels) /\ Len(argument) = WordBits - argument_bits_left
         /\ answer = <<>>
         /\ \A a \in Addresses :
                IF a \notin Cleared(command) THEN words[a] \in stored[a]
                ELSE write_enabled =>
                        words[a] = IF a \in Targets(command) THEN Begun(argument) ELSE Word(0)

AnswerInv ==
    /\ answer \in Seq(Levels) /\ Len(answer) <= WordBits
    /\ \A i \in 1 .. Len(answer) : read_bits[i] = answer[i]

EepromInv == ChipTypes /\ StoredInv /\ AnswerInv /\ DOMAIN stored = Addresses

(* The sizes of the EEPROM. *)
LEMMA Sizes ==
    /\ AddressBits \in Nat \ {0} /\ WordBits \in Nat \ {0} /\ CommandLength \in Nat
    /\ CommandLength >= 5 /\ CommandLength = 4 + AddressBits
  BY BatteryAssumption DEF CommandLength

(* Words are sequences. *)
LEMMA WordIsSequence ==
    \A word \in Words : /\ word \in Seq(Levels) /\ Len(word) = WordBits
                        /\ \A i \in 1 .. WordBits : word[i] \in Levels
  BY Sizes DEF Words

(* The words that are written whole. *)
LEMMA SomeWords ==
    /\ \A bit \in Levels : Word(bit) \in Words
    /\ \A zeros : Settling(zeros) \in Words
  BY DEF Words, Word, Settling, Levels

(* A shift drops the first bit. *)
LEMMA ShiftedWord ==
    ASSUME read_bits \in Words
    PROVE  /\ Shifted \in Words
           /\ \A i \in 1 .. WordBits - 1 : Shifted[i] = read_bits[i + 1]
<1>1. read_bits \in Seq(Levels) /\ Len(read_bits) = WordBits /\ WordBits \in Nat \ {0}
  BY WordIsSequence, Sizes
<1> DEFINE rest == Tail(read_bits)
<1>2. /\ rest \in Seq(Levels) /\ Len(rest) = WordBits - 1
      /\ \A i \in 1 .. WordBits - 1 : rest[i] = read_bits[i + 1]
  <2>1. read_bits # <<>>
    BY <1>1
  <2> QED  BY <1>1, <2>1, HeadTailProperties
<1> HIDE DEF rest
<1>3. 1 \in Levels
  BY DEF Levels
<1> DEFINE after == Append(rest, 1)
<1>4. /\ after \in Seq(Levels) /\ Len(after) = WordBits
      /\ \A i \in 1 .. WordBits - 1 : after[i] = rest[i]
  <2>1. /\ after \in Seq(Levels) /\ Len(after) = Len(rest) + 1
        /\ \A i \in 1 .. Len(rest) : after[i] = rest[i]
    BY <1>2, <1>3, AppendProperties
  <2> QED  BY <1>1, <1>2, <2>1
<1> HIDE DEF after
<1>5. after \in Words
  <2>1. after \in [1 .. Len(after) -> Levels]
    BY <1>4
  <2> QED  BY <1>4, <2>1 DEF Words
<1> QED  BY <1>2, <1>4, <1>5 DEF Shifted, after, rest

(* What is still to be sent is shifted with it. *)
LEMMA ShiftedAnswer ==
    ASSUME read_bits \in Words, AnswerInv, read_bits' = Shifted, answer' = Answered
    PROVE  AnswerInv'
<1>1. CASE answer = <<>>
  <2>1. answer' = <<>>
    BY <1>1 DEF Answered
  <2>2. answer' \in Seq(Levels) /\ Len(answer') = 0
    BY <2>1
  <2> QED  BY <2>2, Sizes DEF AnswerInv, Levels
<1>2. CASE answer # <<>>
  <2>1. answer' = Tail(answer)
    BY <1>2 DEF Answered
  <2>2. answer \in Seq(Levels) /\ Len(answer) <= WordBits /\ WordBits \in Nat
        /\ \A i \in 1 .. Len(answer) : read_bits[i] = answer[i]
    BY Sizes DEF AnswerInv
  <2>3. /\ Tail(answer) \in Seq(Levels) /\ Len(Tail(answer)) = Len(answer) - 1
        /\ \A i \in 1 .. Len(answer) - 1 : Tail(answer)[i] = answer[i + 1]
    BY <1>2, <2>2, HeadTailProperties
  <2>4. Len(answer) \in Nat
    BY <2>2
  <2>5. \A i \in 1 .. Len(answer) - 1 : Shifted[i] = answer[i + 1]
    <3> SUFFICES ASSUME NEW i \in 1 .. Len(answer) - 1 PROVE Shifted[i] = answer[i + 1]
      OBVIOUS
    <3>1. i \in 1 .. WordBits - 1 /\ i + 1 \in 1 .. Len(answer)
      BY <2>2, <2>4
    <3>2. Shifted[i] = read_bits[i + 1]
      BY <3>1, ShiftedWord
    <3> QED  BY <2>2, <3>1, <3>2
  <2>6. Len(answer') = Len(answer) - 1 /\ Len(answer') <= WordBits /\ answer' \in Seq(Levels)
    BY <2>1, <2>2, <2>3, <2>4
  <2> QED  BY <2>1, <2>3, <2>5, <2>6 DEF AnswerInv, Levels
<1> QED  BY <1>1, <1>2

(* Nothing is left to send. *)
LEMMA NothingToAnswer == answer' = <<>> => AnswerInv'
<1> SUFFICES ASSUME answer' = <<>> PROVE AnswerInv'
  OBVIOUS
<1>1. answer' \in Seq(Levels) /\ Len(answer') = 0
  OBVIOUS
<1> QED  BY <1>1, Sizes DEF AnswerInv, Levels

(* The address of a command that is complete. *)
LEMMA AddressOf ==
    ASSUME NEW c \in Seq(Levels), Len(c) = CommandLength
    PROVE  Address(c) \in Addresses
<1>1. \A i \in 5 .. CommandLength : c[i] \in Levels
  BY Sizes
<1> DEFINE address == SubSeq(c, 5, CommandLength)
<1>2. address \in Seq(Levels) /\ Len(address) = AddressBits
  <2>1. /\ address \in Seq(Levels)
        /\ Len(address) = IF 5 <= CommandLength THEN CommandLength - 5 + 1 ELSE 0
    BY <1>1, Sizes, SubSeqProperties
  <2> HIDE DEF address
  <2> QED  BY <2>1, Sizes
<1> HIDE DEF address
<1>3. address \in [1 .. Len(address) -> Levels]
  BY <1>2
<1> QED  BY <1>2, <1>3 DEF Address, Addresses, address

(* A command that begins no argument. *)
LEMMA Done ==
    ASSUME EepromInv, argument_bits_left = 0,
           UNCHANGED argument_bits_left, command' = <<>>,
           words' \in [Addresses -> Words], read_bits' \in Words, AnswerInv',
           DOMAIN stored' = Addresses, \A a \in Addresses : words'[a] \in stored'[a]
    PROVE  EepromInv'
<1>1. command' \in Seq(Levels) /\ Len(command') < CommandLength
  BY Sizes
<1> QED  BY <1>1, Sizes DEF EepromInv, ChipTypes, StoredInv, Levels, Words, Addresses, CommandLength

(* READ sends a word that was stored, if it is known which. *)
LEMMA Reads ==
    ASSUME EepromInv, argument_bits_left = 0, NEW a \in Addresses, Read(a)
    PROVE  EepromInv'
<1>1. words \in [Addresses -> Words] /\ words[a] \in Words /\ words[a] \in stored[a]
  BY DEF EepromInv, ChipTypes, StoredInv
<1>2. AnswerInv'
  <2>1. CASE \E word \in stored[a] : stored[a] = {word}
    <3>1. answer' = words[a] /\ read_bits' = words[a]
      <4>1. PICK word \in stored[a] : stored[a] = {word}
        BY <2>1
      <4>2. stored[a] = {words[a]}
        BY <1>1, <4>1
      <4>3. \A x : x \in stored[a] /\ stored[a] = {x} <=> x = words[a]
        BY <4>2
      <4>4. (CHOOSE x \in stored[a] : stored[a] = {x}) = words[a]
        BY <4>3
      <4> QED  BY <2>1, <4>4 DEF Read
    <3>2. answer' \in Seq(Levels) /\ Len(answer') = WordBits
      BY <1>1, <3>1, WordIsSequence
    <3> QED  BY <3>1, <3>2, Sizes DEF AnswerInv, Levels
  <2>2. CASE ~ \E word \in stored[a] : stored[a] = {word}
    BY <2>2, NothingToAnswer DEF Read
  <2> QED  BY <2>1, <2>2
<1> QED  BY <1>1, <1>2, Done DEF Read, EepromInv, ChipTypes, StoredInv

(* EWEN and EWDS. *)
LEMMA Enables ==
    ASSUME EepromInv, argument_bits_left = 0, NEW on, Enable(on)
    PROVE  EepromInv'
<1>1. AnswerInv' /\ read_bits' \in Words
  BY ShiftedAnswer, ShiftedWord DEF EepromInv, ChipTypes, Enable
<1> QED  BY <1>1, Done DEF Enable, EepromInv, ChipTypes, StoredInv

(* ERASE and ERAL. *)
LEMMA Erases ==
    ASSUME EepromInv, argument_bits_left = 0, NEW addresses, NEW zeros, Erase(addresses, zeros)
    PROVE  EepromInv'
<1>1. AnswerInv' /\ read_bits' \in Words
  <2>1. CASE write_enabled
    BY <2>1, NothingToAnswer, SomeWords DEF Erase
  <2>2. CASE ~write_enabled
    BY <2>2, ShiftedAnswer, ShiftedWord DEF EepromInv, ChipTypes, Erase
  <2> QED  BY <2>1, <2>2
<1>2. Word(1) \in Words
  BY SomeWords DEF Levels
<1>3. words \in [Addresses -> Words] /\ DOMAIN stored = Addresses
      /\ \A a \in Addresses : words[a] \in stored[a]
  BY DEF EepromInv, ChipTypes, StoredInv
<1>4. words' \in [Addresses -> Words] /\ DOMAIN stored' = Addresses
      /\ \A a \in Addresses : words'[a] \in stored'[a]
  <2>1. CASE write_enabled
    <3>1. /\ words' = [a \in Addresses |-> IF a \in addresses THEN Word(1) ELSE words[a]]
          /\ stored' = [a \in Addresses |-> IF a \in addresses THEN {Word(1)} ELSE stored[a]]
      BY <2>1 DEF Erase
    <3> QED  BY <1>2, <1>3, <3>1
  <2>2. CASE ~write_enabled
    BY <1>3, <2>2 DEF Erase
  <2> QED  BY <2>1, <2>2
<1> QED  BY <1>1, <1>4, Done DEF Erase

(* A WRITE or WRAL clears its words, if it is enabled, and has stored none *)
(* of its argument.                                                        *)
LEMMA BeginsWrite ==
    ASSUME EepromInv, argument_bits_left = 0, NEW c \in Seq(Levels), Len(c) = CommandLength,
           Operation(c) \in {"WRITE", "WRAL"}, BeginWrite(c, Cleared(c))
    PROVE  EepromInv'
<1>1. words \in [Addresses -> Words] /\ DOMAIN stored = Addresses
      /\ \A a \in Addresses : words[a] \in stored[a]
  BY DEF EepromInv, ChipTypes, StoredInv
<1>2. /\ command' = c /\ argument_bits_left' = WordBits /\ argument' = <<>> /\ answer' = <<>>
      /\ write_enabled' = write_enabled /\ stored' = stored /\ read_bits' = Shifted
  BY DEF BeginWrite
<1>3. words' = IF write_enabled
               THEN [a \in Addresses |-> IF a \in Cleared(c) THEN Word(0) ELSE words[a]] ELSE words
  BY DEF BeginWrite
<1>4. Word(0) \in Words
  BY SomeWords DEF Levels
<1>5. Begun(<<>>) = Word(0)
  <2>1. \A i \in 1 .. WordBits : ~(i <= Len(<<>>))
    BY Sizes
  <2> QED  BY <2>1 DEF Begun, Word
<1>6. ChipTypes'
  <2>1. read_bits' \in Words
    BY <1>2, ShiftedWord DEF EepromInv, ChipTypes
  <2>2. words' \in [Addresses -> Words]
    BY <1>1, <1>3, <1>4
  <2> QED  BY <1>2, <2>1, <2>2, Sizes DEF ChipTypes, Levels, Words, Addresses
<1>7. StoredInv'
  <2>1. argument' \in Seq(Levels) /\ Len(argument') = WordBits - argument_bits_left'
    BY <1>2, Sizes
  <2>2. \A a \in Addresses : a \notin Cleared(c) => words'[a] \in stored'[a]
    BY <1>1, <1>2, <1>3
  <2>3. \A a \in Addresses : a \in Cleared(c) /\ write_enabled' => words'[a] = Word(0)
    BY <1>2, <1>3
  <2>4. \A a \in Addresses : words'[a] = Word(0) =>
            words'[a] = IF a \in Targets(c) THEN Begun(argument') ELSE Word(0)
    BY <1>2, <1>5
  <2>5. argument_bits_left' # 0
    BY <1>2, Sizes
  <2>6. \A a \in Addresses :
            IF a \notin Cleared(c) THEN words'[a] \in stored'[a]
            ELSE write_enabled' =>
                    words'[a] = IF a \in Targets(c) THEN Begun(argument') ELSE Word(0)
    BY <2>2, <2>3, <2>4
  <2> HIDE DEF Begun
  <2> QED  BY <1>2, <2>1, <2>5, <2>6
           DEF StoredInv, Cleared, Targets, Begun, Levels, Words, Word, Addresses, CommandLength
<1> QED  BY <1>1, <1>2, <1>6, <1>7, NothingToAnswer DEF EepromInv, Addresses

(* The bits of a command. *)
LEMMA CommandBits ==
    ASSUME EepromInv, NEW bit \in Levels, CommandBit(bit)
    PROVE  EepromInv'
<1> DEFINE c == IF command = <<>> /\ bit = 0 THEN <<>> ELSE Append(command, bit)
<1>1. /\ argument_bits_left = 0
      /\ IF Len(c) = CommandLength THEN Execute(c)
         ELSE /\ command' = c /\ read_bits' = Shifted /\ answer' = Answered
              /\ UNCHANGED <<words, argument_bits_left, write_enabled, stored, argument>>
  BY DEF CommandBit
<1>2. c \in Seq(Levels) /\ Len(c) <= CommandLength
  <2>1. command \in Seq(Levels) /\ Len(command) < CommandLength /\ Len(command) \in Nat
    BY <1>1 DEF EepromInv, ChipTypes
  <2>2. <<>> \in Seq(Levels) /\ Len(<<>>) = 0
    OBVIOUS
  <2>3. Append(command, bit) \in Seq(Levels) /\ Len(Append(command, bit)) = Len(command) + 1
    BY <2>1
  <2> QED  BY <2>1, <2>2, <2>3, Sizes
<1> HIDE DEF c
<1>3. CASE Len(c) = CommandLength
  <2>1. Address(c) \in Addresses
    BY <1>2, <1>3, AddressOf
  <2>2. \/ Operation(c) = "READ" /\ Read(Address(c))
        \/ Enable(TRUE) \/ Enable(FALSE)
        \/ Operation(c) = "WRITE" /\ BeginWrite(c, {Address(c)})
        \/ Operation(c) = "WRAL" /\ BeginWrite(c, Addresses)
        \/ Erase({Address(c)}, Settle) \/ Erase(Addresses, SettleAll)
    BY <1>1, <1>3 DEF Execute
  <2>3. CASE Operation(c) = "WRITE" /\ BeginWrite(c, {Address(c)})
    <3>1. Cleared(c) = {Address(c)}
      BY <2>3 DEF Cleared
    <3> QED  BY <1>1, <1>2, <1>3, <2>3, <3>1, BeginsWrite
  <2>4. CASE Operation(c) = "WRAL" /\ BeginWrite(c, Addresses)
    <3>1. Cleared(c) = Addresses
      BY <2>4 DEF Cleared
    <3> QED  BY <1>1, <1>2, <1>3, <2>4, <3>1, BeginsWrite
  <2> QED  BY <1>1, <2>1, <2>2, <2>3, <2>4, Reads, Enables, Erases
<1>4. CASE Len(c) # CommandLength
  <2>1. /\ command' = c /\ read_bits' = Shifted /\ answer' = Answered
        /\ UNCHANGED <<words, argument_bits_left, write_enabled, stored, argument>>
    BY <1>1, <1>4
  <2>2. AnswerInv' /\ read_bits' \in Words
    BY <2>1, ShiftedAnswer, ShiftedWord DEF EepromInv, ChipTypes
  <2>3. Len(c) < CommandLength
    BY <1>2, <1>4, Sizes
  <2> QED  BY <1>1, <1>2, <2>1, <2>2, <2>3
           DEF EepromInv, ChipTypes, StoredInv, Levels, Words, Addresses, CommandLength
<1> QED  BY <1>3, <1>4

-----------------------------------------------------------------------------
(* A bit more of the argument is a bit more of its words. *)
LEMMA BitByBit ==
    ASSUME NEW sent \in Seq(Levels), Len(sent) < WordBits, NEW bit \in Levels
    PROVE  WithBit(Begun(sent), bit, Len(sent) + 1) = Begun(Append(sent, bit))
<1> DEFINE n == Len(sent)
           more == Append(sent, bit)
<1>1. n \in Nat /\ n + 1 \in 1 .. WordBits
  BY Sizes
<1>2. Len(more) = n + 1 /\ more[n + 1] = bit /\ \A i \in 1 .. n : more[i] = sent[i]
  OBVIOUS
<1> HIDE DEF n, more
<1>3. ASSUME NEW i \in 1 .. WordBits PROVE WithBit(Begun(sent), bit, n + 1)[i] = Begun(more)[i]
  <2>0. Len(sent) = n
    BY DEF n
  <2>1. Begun(more)[i] = IF i <= n + 1 THEN more[i] ELSE 0
    BY <1>2 DEF Begun
  <2>2. Begun(sent)[i] = IF i <= n THEN sent[i] ELSE 0
    BY <2>0 DEF Begun
  <2>3. CASE i = n + 1
    <3>1. Begun(sent)[i] = 0 /\ Begun(more)[i] = bit
      BY <1>1, <1>2, <2>1, <2>2, <2>3
    <3>2. WithBit(Begun(sent), bit, n + 1)[i] = IF bit = 1 THEN 1 ELSE Begun(sent)[i]
      BY <2>3 DEF WithBit, Begun
    <3> QED  BY <3>1, <3>2 DEF Levels
  <2>4. CASE i # n + 1
    <3>1. WithBit(Begun(sent), bit, n + 1)[i] = Begun(sent)[i]
      BY <2>4 DEF WithBit, Begun
    <3>2. i <= n + 1 <=> i <= n
      BY <1>1, <2>4
    <3>3. i <= n => more[i] = sent[i]
      BY <1>1, <1>2
    <3> QED  BY <2>1, <2>2, <3>1, <3>2, <3>3
  <2> QED  BY <2>3, <2>4
<1>4. WithBit(Begun(sent), bit, n + 1) = [i \in 1 .. WordBits |-> WithBit(Begun(sent), bit, n + 1)[i]]
  BY DEF WithBit, Begun
<1>5. Begun(more) = [i \in 1 .. WordBits |-> Begun(more)[i]]
  BY DEF Begun
<1> QED  BY <1>3, <1>4, <1>5 DEF n, more

(* A word stays a word when a bit of it is set. *)
LEMMA WithBitIsWord ==
    ASSUME NEW word \in Words, NEW bit, NEW position
    PROVE  WithBit(word, bit, position) \in Words
  BY DEF WithBit, Words, Levels

(* An argument that has come in whole is the word. *)
LEMMA WholeWord ==
    ASSUME NEW word \in Seq(Levels), Len(word) = WordBits
    PROVE  Begun(word) = word
<1>1. word = [i \in 1 .. WordBits |-> word[i]]
  OBVIOUS
<1>2. Begun(word) = [i \in 1 .. WordBits |-> word[i]]
  BY DEF Begun
<1> QED  BY <1>1, <1>2

(* The bits of an argument, and the end of it. *)
LEMMA ArgumentBits ==
    ASSUME EepromInv, NEW bit \in Levels, ArgumentBit(bit)
    PROVE  EepromInv'
<1> DEFINE sent == Append(argument, bit)
           position == WordBits + 1 - argument_bits_left
<1>1. /\ argument_bits_left > 0 /\ argument_bits_left' = argument_bits_left - 1
      /\ words' = [a \in Addresses |->
                      IF a \in Targets(command) THEN WithBit(words[a], bit, position) ELSE words[a]]
      /\ IF argument_bits_left = 1
         THEN /\ command' = <<>> /\ read_bits' = Settling(Settle) /\ argument' = <<>>
              /\ stored' = Stored(command, sent)
         ELSE /\ read_bits' = Shifted /\ argument' = sent
              /\ UNCHANGED <<command, stored>>
      /\ UNCHANGED <<write_enabled, answer>>
  BY DEF ArgumentBit
<1>2. /\ words \in [Addresses -> Words] /\ read_bits \in Words
      /\ argument_bits_left \in 0 .. WordBits /\ command \in Seq(Levels)
      /\ DOMAIN stored = Addresses
  BY DEF EepromInv, ChipTypes
<1>3. /\ Len(command) = CommandLength /\ Operation(command) \in {"WRITE", "WRAL"}
      /\ argument \in Seq(Levels) /\ Len(argument) = WordBits - argument_bits_left /\ answer = <<>>
      /\ \A a \in Addresses :
            IF a \notin Cleared(command) THEN words[a] \in stored[a]
            ELSE write_enabled =>
                    words[a] = IF a \in Targets(command) THEN Begun(argument) ELSE Word(0)
  BY <1>1, <1>2 DEF EepromInv, StoredInv
<1>4. Len(argument) < WordBits /\ position = Len(argument) + 1
      /\ argument_bits_left' \in 0 .. WordBits /\ argument_bits_left' # argument_bits_left
  BY <1>1, <1>2, <1>3, Sizes
<1>5. sent \in Seq(Levels) /\ Len(sent) = Len(argument) + 1
  BY <1>3
<1> HIDE DEF sent, position
<1>6. WithBit(Begun(argument), bit, position) = Begun(sent)
  BY <1>3, <1>4, BitByBit DEF sent
<1>7. words' \in [Addresses -> Words]
  <2>1. \A a \in Addresses : words[a] \in Words
    BY <1>2
  <2>2. \A a \in Addresses : WithBit(words[a], bit, position) \in Words
    BY <2>1, WithBitIsWord
  <2> QED  BY <1>1, <2>1, <2>2
<1>8. Targets(command) \subseteq Cleared(command)
  BY DEF Targets, Cleared
<1>9. \A a \in Addresses : a \notin Cleared(command) => words'[a] \in stored[a]
  BY <1>1, <1>3, <1>8
<1>10. \A a \in Addresses : a \in Cleared(command) /\ write_enabled =>
            words'[a] = IF a \in Targets(command) THEN Begun(sent) ELSE Word(0)
  BY <1>1, <1>3, <1>6
<1>11. AnswerInv'
  BY <1>1, <1>3, NothingToAnswer
<1>12. CASE argument_bits_left = 1
  <2>1. /\ command' = <<>> /\ read_bits' = Settling(Settle) /\ stored' = Stored(command, sent)
        /\ argument_bits_left' = 0
    BY <1>1, <1>12
  <2>2. Len(sent) = WordBits
    BY <1>3, <1>5, <1>12, Sizes
  <2>3. Begun(sent) = sent
    BY <1>5, <2>2, WholeWord
  <2>4. ChipTypes'
    <3>1. read_bits' \in Words
      BY <2>1, SomeWords
    <3>2. command' \in Seq(Levels) /\ Len(command') < CommandLength
      BY <2>1, Sizes
    <3> QED  BY <1>4, <1>7, <3>1, <3>2 DEF ChipTypes, Levels, Words, Addresses, CommandLength
  <2>5. ASSUME NEW a \in Addresses PROVE words'[a] \in Stored(command, sent)[a]
    <3>1. Stored(command, sent)[a] =
              IF a \notin Cleared(command) THEN stored[a]
              ELSE IF ~write_enabled THEN Words
              ELSE IF Operation(command) = "WRAL" /\ a = LastAddress THEN {sent, Word(0)} ELSE {sent}
      BY DEF Stored, Cleared
    <3>2. CASE a \notin Cleared(command)
      BY <1>9, <3>1, <3>2
    <3>3. CASE a \in Cleared(command) /\ ~write_enabled
      <4>1. words'[a] \in Words
        BY <1>7
      <4> QED  BY <3>1, <3>3, <4>1
    <3>4. CASE a \in Cleared(command) /\ write_enabled
      <4>1. words'[a] = IF a \in Targets(command) THEN sent ELSE Word(0)
        BY <1>10, <2>3, <3>4
      <4>2. a \notin Targets(command) => Operation(command) = "WRAL" /\ a = LastAddress
        BY <1>3, <3>4 DEF Cleared, Targets
      <4> QED  BY <3>1, <3>4, <4>1, <4>2
    <3> QED  BY <3>2, <3>3, <3>4
  <2>6. StoredInv'
    BY <2>1, <2>5 DEF StoredInv, Addresses
  <2>7. DOMAIN stored' = Addresses
    BY <2>1 DEF Stored
  <2> QED  BY <1>11, <2>4, <2>6, <2>7 DEF EepromInv, Addresses
<1>13. CASE argument_bits_left # 1
  <2>1. /\ read_bits' = Shifted /\ argument' = sent /\ command' = command /\ stored' = stored
        /\ argument_bits_left' # 0 /\ write_enabled' = write_enabled /\ answer' = answer
    BY <1>1, <1>2, <1>13
  <2>2. ChipTypes'
    <3>1. read_bits' \in Words
      BY <1>2, <2>1, ShiftedWord
    <3> QED  BY <1>2, <1>4, <1>7, <2>1, <3>1 DEF ChipTypes, Levels, Words, Addresses, CommandLength
  <2>3. Len(argument') = WordBits - argument_bits_left'
    BY <1>1, <1>2, <1>3, <1>5, <2>1, Sizes
  <2>4. \A a \in Addresses :
            IF a \notin Cleared(command) THEN words'[a] \in stored'[a]
            ELSE write_enabled' =>
                    words'[a] = IF a \in Targets(command) THEN Begun(argument') ELSE Word(0)
    BY <1>9, <1>10, <2>1
  <2>5. StoredInv'
    BY <1>3, <1>5, <2>1, <2>3, <2>4
       DEF StoredInv, Cleared, Targets, Begun, Levels, Words, Word, Addresses, CommandLength
  <2> QED  BY <1>2, <1>11, <2>1, <2>2, <2>5 DEF EepromInv, Addresses
<1> QED  BY <1>12, <1>13

(* The chip begins with words of ones. *)
LEMMA EepromStart == EepromInit => EepromInv
<1> SUFFICES ASSUME EepromInit PROVE EepromInv
  OBVIOUS
<1>1. Word(1) \in Words
  BY SomeWords DEF Levels
<1>2. <<>> \in Seq(Levels) /\ Len(<<>>) = 0
  OBVIOUS
<1>3. ChipTypes
  BY <1>1, <1>2, Sizes DEF EepromInit, ChipTypes
<1>4. StoredInv
  BY DEF EepromInit, StoredInv
<1>5. AnswerInv
  BY <1>2, Sizes DEF EepromInit, AnswerInv
<1> QED  BY <1>3, <1>4, <1>5 DEF EepromInit, EepromInv

(* Whatever the lines do between the rising clocks of a chip that is       *)
(* selected.                                                               *)
LEMMA EepromStep == EepromInv /\ [EepromNext]_eepromVars => EepromInv'
<1> SUFFICES ASSUME EepromInv, [EepromNext]_eepromVars PROVE EepromInv'
  OBVIOUS
<1>1. CASE UNCHANGED <<chip, history>>
  BY <1>1 DEF EepromInv, ChipTypes, StoredInv, AnswerInv, chip, history,
              Cleared, Targets, Begun, Levels, Words, Word, Addresses, CommandLength
<1>2. ASSUME NEW select, NEW clock, NEW bit \in Levels, Lines(select, clock, bit) PROVE EepromInv'
  BY <1>1, <1>2, CommandBits, ArgumentBits DEF Lines
<1>3. EepromNext => \E select, clock, bit \in Levels : Lines(select, clock, bit)
  BY DEF EepromNext, DriveLines, ResetLatch, SetLatch, Levels
<1> QED  BY <1>1, <1>2, <1>3 DEF eepromVars

(* The bits still to be sent are those of the word that was stored. *)
LEMMA EepromAnswers == EepromInv => AnswersWhatWasStored
<1> SUFFICES ASSUME EepromInv PROVE AnswersWhatWasStored
  OBVIOUS
<1>1. /\ answer \in Seq(Levels) /\ Len(answer) <= WordBits /\ Len(answer) \in Nat
      /\ \A i \in 1 .. Len(answer) : read_bits[i] = answer[i]
  BY DEF EepromInv, AnswerInv
<1> DEFINE n == Len(answer)
           first == SubSeq(read_bits, 1, n)
<1>2. \A i \in 1 .. n : read_bits[i] \in Levels
  BY <1>1
<1>3. /\ first \in Seq(Levels) /\ Len(first) = IF 1 <= n THEN n - 1 + 1 ELSE 0
      /\ \A i \in 1 .. n - 1 + 1 : first[i] = read_bits[1 + i - 1]
  BY <1>1, <1>2, SubSeqProperties
<1> HIDE DEF first
<1>4. Len(first) = n /\ \A i \in 1 .. n : first[i] = answer[i]
  <2>1. \A i \in 1 .. n : 1 + i - 1 = i /\ n - 1 + 1 = n
    OBVIOUS
  <2> QED  BY <1>1, <1>3, <2>1
<1>5. first = answer
  BY <1>1, <1>3, <1>4, SeqEqual
<1> QED  BY <1>5 DEF AnswersWhatWasStored, first

(* What the clock may show: HuC3's may be before the beginning of its last *)
(* day, after the hint of GB_load_battery.                                 *)
Readings ==
    [seconds : 0 .. Minute - 1, minutes : 0 .. Hour - 1, hours : -2 .. Day - 1,
     low : 0 .. LowDays - 1, high : 0 .. HighDays - 1, carry : BOOLEAN]

Clocks ==
    {t \in Readings : t.hours < 0 => kind = "HUC3" /\ t.low = LowDays - 1 /\ t.high = HighDays - 1}

Elapsed == base.total + (last - base.last)

ClockInv ==
    /\ last \in Nat /\ host \in Nat
    /\ base.total \in Nat /\ base.last \in Nat /\ base.last <= last /\ base.carry \in BOOLEAN
    /\ real \in Clocks
    /\ CountsElapsed

-----------------------------------------------------------------------------
(* The sizes of the clock. *)
LEMMA ClockSizes ==
    /\ Minute \in Nat \ {0} /\ Hour \in Nat \ {0} /\ Day \in Nat /\ Day >= 2
    /\ LowDays \in Nat \ {0} /\ HighDays \in Nat \ {0}
    /\ LowDays * HighDays \in Nat /\ LowDays * HighDays >= 2
  BY BatteryAssumption

(* What the clock shows in days, in hours and in minutes. *)
Days == LowDays * HighDays
DaysOf(t) == t.low + LowDays * t.high
HoursOf(t) == t.hours + Day * DaysOf(t)
MinutesOf(t) == t.minutes + Hour * HoursOf(t)

(* The clock as a number of seconds. *)
LEMMA TotalIs == \A t : Total(t) = t.seconds + Minute * MinutesOf(t)
  BY DEF Total, MinutesOf, HoursOf, DaysOf

(* A digit d of b values below a number u of m. *)
LEMMA Digits ==
    ASSUME NEW b \in Nat \ {0}, NEW m \in Nat \ {0}, NEW d \in 0 .. b - 1, NEW u \in 0 .. m - 1
    PROVE  /\ b * m \in Nat \ {0} /\ d + b * u \in 0 .. b * m - 1
           /\ d + 1 # b => (d + 1) + b * u = (d + b * u) + 1 /\ (d + b * u) + 1 # b * m
           /\ d + 1 = b => b * (u + 1) = (d + b * u) + 1
           /\ d + 1 = b => ((d + b * u) + 1 = b * m <=> u + 1 = m)
<1>1. b * u \in Nat /\ b * m \in Nat /\ b * (u + 1) = b * u + b
  OBVIOUS
<1>2. \A x, y \in Nat : x <= y => b * x <= b * y
  OBVIOUS
<1>3. b * (u + 1) <= b * m
  <2>1. u + 1 \in Nat /\ m \in Nat /\ u + 1 <= m
    OBVIOUS
  <2> QED  BY <1>2, <2>1
<1>4. b * u + b <= b * m
  BY <1>1, <1>3
<1>5. d + b * u \in 0 .. b * m - 1 /\ b * m # 0
  BY <1>1, <1>4
<1>6. d + 1 # b => (d + 1) + b * u = (d + b * u) + 1 /\ (d + b * u) + 1 # b * m
  BY <1>1, <1>4
<1>7. d + 1 = b => b * (u + 1) = (d + b * u) + 1
  BY <1>1
<1>8. u + 1 # m => b * (u + 1) # b * m
  <2> SUFFICES ASSUME u + 1 # m PROVE b * (u + 1) < b * m
    BY <1>1
  <2>1. (u + 1) + 1 \in Nat /\ (u + 1) + 1 <= m /\ m \in Nat /\ u + 1 \in Nat
    OBVIOUS
  <2>2. b * ((u + 1) + 1) <= b * m
    BY <1>2, <2>1
  <2>3. b * ((u + 1) + 1) = b * (u + 1) + b
    BY <2>1
  <2>4. b * (u + 1) \in Nat
    BY <2>1
  <2> QED  BY <1>1, <2>2, <2>3, <2>4
<1> QED  BY <1>1, <1>5, <1>6, <1>7, <1>8

(* The next day is one more, or the first one and an overflow. *)
LEMMA NextDayCounts ==
    ASSUME NEW t \in Readings
    PROVE  /\ DaysOf(t) \in 0 .. Days - 1 /\ NextDay(t) \in Readings
           /\ NextDay(t).seconds = t.seconds /\ NextDay(t).minutes = t.minutes
           /\ NextDay(t).hours = t.hours
           /\ DaysOf(t) + 1 # Days => DaysOf(NextDay(t)) = DaysOf(t) + 1 /\ NextDay(t).carry = t.carry
           /\ DaysOf(t) + 1 = Days => DaysOf(NextDay(t)) = 0 /\ NextDay(t).carry = TRUE
<1> DEFINE d == t.low
           u == t.high
<1>1. d \in 0 .. LowDays - 1 /\ u \in 0 .. HighDays - 1
  BY DEF Readings
<1>2. /\ d + LowDays * u \in 0 .. Days - 1
      /\ d + 1 # LowDays => (d + 1) + LowDays * u = (d + LowDays * u) + 1 /\ (d + LowDays * u) + 1 # Days
      /\ d + 1 = LowDays => LowDays * (u + 1) = (d + LowDays * u) + 1
      /\ d + 1 = LowDays => ((d + LowDays * u) + 1 = Days <=> u + 1 = HighDays)
  <2> HIDE DEF d, u
  <2> QED  BY <1>1, ClockSizes, Digits DEF Days
<1>3. CASE t.low + 1 # LowDays
  <2>1. NextDay(t) = [t EXCEPT !.low = @ + 1]
    BY <1>3 DEF NextDay
  <2>2. t.low + 1 \in 0 .. LowDays - 1
    BY <1>1, <1>3, ClockSizes
  <2> QED  BY <1>2, <1>3, <2>1, <2>2 DEF DaysOf, Readings
<1>4. CASE t.low + 1 = LowDays /\ t.high + 1 # HighDays
  <2>1. NextDay(t) = [t EXCEPT !.low = 0, !.high = @ + 1]
    BY <1>4 DEF NextDay
  <2>2. t.high + 1 \in 0 .. HighDays - 1 /\ 0 \in 0 .. LowDays - 1
    BY <1>1, <1>4, ClockSizes
  <2>3. DaysOf(NextDay(t)) = LowDays * (t.high + 1)
    <3>1. LowDays * (t.high + 1) \in Int
      BY <1>1, ClockSizes
    <3> QED  BY <2>1, <3>1 DEF DaysOf
  <2> QED  BY <1>2, <1>4, <2>1, <2>2, <2>3 DEF DaysOf, Readings
<1>5. CASE t.low + 1 = LowDays /\ t.high + 1 = HighDays
  <2>1. NextDay(t) = [t EXCEPT !.low = 0, !.high = 0, !.carry = TRUE]
    BY <1>5 DEF NextDay
  <2>2. 0 \in 0 .. HighDays - 1 /\ 0 \in 0 .. LowDays - 1 /\ LowDays * 0 = 0
    BY ClockSizes
  <2>3. /\ NextDay(t) \in Readings /\ NextDay(t).low = 0 /\ NextDay(t).high = 0
        /\ NextDay(t).carry = TRUE /\ NextDay(t).seconds = t.seconds
        /\ NextDay(t).minutes = t.minutes /\ NextDay(t).hours = t.hours
    BY <2>1, <2>2 DEF Readings
  <2>4. DaysOf(NextDay(t)) = 0
    BY <2>2, <2>3 DEF DaysOf
  <2>5. DaysOf(t) + 1 = Days /\ DaysOf(t) \in 0 .. Days - 1
    BY <1>2, <1>5 DEF DaysOf
  <2> QED  BY <2>3, <2>4, <2>5
<1> QED  BY <1>3, <1>4, <1>5

(* The hours that the clock has, and minutes, and seconds. *)
AllHours == Day * Days
AllMinutes == Hour * AllHours
AllSeconds == Minute * AllMinutes

(* As many seconds as the clock has, and what is at most as many. *)
LEMMA WrapIs ==
    /\ Days \in Nat /\ Days >= 2 /\ AllHours \in Nat \ {0} /\ AllMinutes \in Nat \ {0}
    /\ AllSeconds \in Nat \ {0} /\ Wrap = AllSeconds
    /\ DaySeconds \in Nat \ {0} /\ DaySeconds <= Wrap /\ Minute <= Wrap /\ 1 <= Wrap
<1>0. \A x, y \in Nat \ {0} : x * y \in Nat \ {0} /\ x <= x * y
  OBVIOUS
<1>1. Days \in Nat \ {0} /\ Days >= 2
  BY ClockSizes DEF Days
<1>2. AllHours \in Nat \ {0}
  BY <1>0, <1>1, ClockSizes DEF AllHours
<1>3. AllMinutes \in Nat \ {0}
  BY <1>0, <1>2, ClockSizes DEF AllMinutes
<1>4. AllSeconds \in Nat \ {0} /\ Minute <= AllSeconds
  BY <1>0, <1>3, ClockSizes DEF AllSeconds
<1>5. \A x, y, z \in Nat : x * (y * z) = (x * y) * z
  OBVIOUS
<1>6. DaySeconds = Minute * Hour * Day /\ DaySeconds \in Nat \ {0}
  BY <1>0, ClockSizes DEF DaySeconds
<1>7. Wrap = DaySeconds * Days
  <2>1. Wrap = DaySeconds * LowDays * HighDays
    BY DEF Wrap
  <2> QED  BY <1>5, <1>6, <2>1, ClockSizes DEF Days
<1>8. AllSeconds = DaySeconds * Days
  <2>1. Hour * (Day * Days) = (Hour * Day) * Days
    BY <1>1, <1>5, ClockSizes
  <2>2. Hour * Day \in Nat
    BY <1>0, ClockSizes
  <2>3. Minute * ((Hour * Day) * Days) = (Minute * (Hour * Day)) * Days
    BY <1>1, <1>5, <2>2, ClockSizes
  <2>4. Minute * (Hour * Day) = Minute * Hour * Day
    BY <1>5, ClockSizes
  <2> QED  BY <1>6, <2>1, <2>3, <2>4 DEF AllSeconds, AllMinutes, AllHours
<1>9. DaySeconds <= DaySeconds * Days
  BY <1>0, <1>1, <1>6
<1> QED  BY <1>1, <1>2, <1>3, <1>4, <1>6, <1>7, <1>8, <1>9

(* The clock u has n more than t in units of which it has m. *)
Counts(t, u, shown, next, m, n) ==
    IF shown + n < m THEN next = shown + n /\ u.carry = t.carry
    ELSE next = shown + n - m /\ u.carry = TRUE

(* The next hour is one more, or the first one and an overflow. *)
LEMMA NextHourCounts ==
    ASSUME NEW t \in Clocks
    PROVE  /\ HoursOf(t) \in 0 .. AllHours - 1 /\ NextHour(t) \in Clocks
           /\ NextHour(t).seconds = t.seconds /\ NextHour(t).minutes = t.minutes
           /\ Counts(t, NextHour(t), HoursOf(t), HoursOf(NextHour(t)), AllHours, 1)
<1>0. t \in Readings
  BY DEF Clocks
<1> DEFINE d == t.hours
           u == DaysOf(t)
<1>1. d \in -2 .. Day - 1 /\ u \in 0 .. Days - 1 /\ HoursOf(t) = d + Day * u
  BY <1>0, NextDayCounts DEF Readings, HoursOf
<1>2. d < 0 => u = Days - 1
  <2> SUFFICES ASSUME d < 0 PROVE u = Days - 1
    OBVIOUS
  <2>1. t.low = LowDays - 1 /\ t.high = HighDays - 1
    BY DEF Clocks
  <2>2. u = LowDays - 1 + LowDays * (HighDays - 1)
    BY <2>1 DEF DaysOf
  <2>3. LowDays * (HighDays - 1) = LowDays * HighDays - LowDays
    BY ClockSizes
  <2> QED  BY <2>2, <2>3, ClockSizes DEF Days
<1>3. CASE d + 1 # Day
  <2>1. NextHour(t) = [t EXCEPT !.hours = @ + 1]
    BY <1>3 DEF NextHour
  <2>2. d + 1 \in -2 .. Day - 1
    BY <1>1, <1>3, ClockSizes
  <2>3. /\ NextHour(t) \in Clocks /\ NextHour(t).hours = d + 1 /\ DaysOf(NextHour(t)) = u
        /\ NextHour(t).seconds = t.seconds /\ NextHour(t).minutes = t.minutes
        /\ NextHour(t).carry = t.carry
    <3>1. /\ NextHour(t) \in Readings /\ NextHour(t).hours = d + 1
          /\ NextHour(t).low = t.low /\ NextHour(t).high = t.high
          /\ NextHour(t).seconds = t.seconds /\ NextHour(t).minutes = t.minutes
          /\ NextHour(t).carry = t.carry
      BY <1>0, <2>1, <2>2 DEF Readings
    <3>2. d + 1 < 0 => d < 0
      BY <1>1
    <3> QED  BY <3>1, <3>2 DEF Clocks, DaysOf
  <2>4. HoursOf(NextHour(t)) = (d + 1) + Day * u
    BY <2>3 DEF HoursOf
  <2> HIDE DEF d, u
  <2>5. HoursOf(t) + 1 < AllHours /\ HoursOf(t) \in 0 .. AllHours - 1 /\ (d + 1) + Day * u = HoursOf(t) + 1
    <3>1. CASE d >= 0
      <4>1. d \in 0 .. Day - 1
        BY <1>1, <3>1
      <4>2. d + Day * u \in 0 .. Day * Days - 1 /\ (d + 1) + Day * u = (d + Day * u) + 1
            /\ (d + Day * u) + 1 # Day * Days /\ Day * Days \in Nat
        BY <1>1, <1>3, <4>1, Digits, ClockSizes, WrapIs
      <4> QED  BY <1>1, <4>2 DEF AllHours
    <3>2. CASE d < 0
      <4>1. Day * u = Day * Days - Day /\ Day * u \in Int /\ Day * Days \in Nat
        BY <1>2, <3>2, ClockSizes, WrapIs
      <4>2. Day * Days >= 2 * Day
        BY ClockSizes, WrapIs
      <4> QED  BY <1>1, <3>2, <4>1, <4>2, ClockSizes DEF AllHours
    <3> QED  BY <1>1, <3>1, <3>2
  <2> QED  BY <2>3, <2>4, <2>5 DEF Counts
<1>4. CASE d + 1 = Day
  <2> DEFINE zero == [t EXCEPT !.hours = 0]
  <2>1. NextHour(t) = NextDay(zero)
    BY <1>4 DEF NextHour
  <2>2. /\ zero \in Readings /\ zero.hours = 0 /\ DaysOf(zero) = u /\ zero.carry = t.carry
        /\ zero.seconds = t.seconds /\ zero.minutes = t.minutes
    <3>1. 0 \in -2 .. Day - 1
      BY ClockSizes
    <3>2. /\ zero \in Readings /\ zero.hours = 0 /\ zero.low = t.low /\ zero.high = t.high
          /\ zero.carry = t.carry /\ zero.seconds = t.seconds /\ zero.minutes = t.minutes
      BY <1>0, <3>1 DEF Readings
    <3> QED  BY <3>2 DEF DaysOf
  <2> HIDE DEF zero
  <2>3. /\ NextHour(t) \in Readings /\ NextHour(t).hours = 0
        /\ NextHour(t).seconds = t.seconds /\ NextHour(t).minutes = t.minutes
        /\ u + 1 # Days => DaysOf(NextHour(t)) = u + 1 /\ NextHour(t).carry = t.carry
        /\ u + 1 = Days => DaysOf(NextHour(t)) = 0 /\ NextHour(t).carry = TRUE
    BY <2>1, <2>2, NextDayCounts
  <2>4. NextHour(t) \in Clocks
    BY <2>3 DEF Clocks
  <2>5. HoursOf(NextHour(t)) = Day * DaysOf(NextHour(t))
    <3>1. DaysOf(NextHour(t)) \in Int
      BY <1>1, <2>3, WrapIs
    <3> QED  BY <2>3, <3>1, ClockSizes DEF HoursOf
  <2> HIDE DEF d, u
  <2>6. /\ d + Day * u \in 0 .. Day * Days - 1 /\ Day * (u + 1) = (d + Day * u) + 1
        /\ (d + Day * u) + 1 = Day * Days <=> u + 1 = Days
    <3>1. d \in 0 .. Day - 1
      BY <1>1, <1>4, ClockSizes
    <3> QED  BY <1>1, <1>4, <3>1, Digits, ClockSizes, WrapIs
  <2>7. HoursOf(t) \in 0 .. AllHours - 1 /\ AllHours \in Nat
    BY <1>1, <2>6, WrapIs DEF AllHours
  <2>8. CASE u + 1 = Days
    <3>1. HoursOf(NextHour(t)) = 0 /\ HoursOf(t) + 1 = AllHours
      BY <1>1, <2>3, <2>5, <2>6, <2>8, ClockSizes DEF AllHours
    <3> QED  BY <2>3, <2>4, <2>7, <2>8, <3>1 DEF Counts
  <2>9. CASE u + 1 # Days
    <3>1. HoursOf(NextHour(t)) = HoursOf(t) + 1 /\ HoursOf(t) + 1 # AllHours
      BY <1>1, <2>3, <2>5, <2>6, <2>9, ClockSizes DEF AllHours
    <3> QED  BY <2>3, <2>4, <2>7, <2>9, <3>1 DEF Counts
  <2> QED  BY <2>8, <2>9
<1> QED  BY <1>3, <1>4

(* One more, of a digit that has a carry below a number that has counted.  *)
LEMMA CarryCounts ==
    ASSUME NEW b \in Nat \ {0}, NEW m \in Nat \ {0}, NEW d \in 0 .. b - 1, NEW u \in 0 .. m - 1,
           d + 1 = b, NEW t, NEW v, NEW next, Counts(t, v, u, next, m, 1)
    PROVE  Counts(t, v, d + b * u, b * next, b * m, 1) /\ next \in 0 .. m - 1
<1>1. /\ d + b * u \in 0 .. b * m - 1 /\ b * (u + 1) = (d + b * u) + 1 /\ b * m \in Nat
      /\ (d + b * u) + 1 = b * m <=> u + 1 = m
  BY Digits
<1>2. CASE u + 1 < m
  <2>1. next = u + 1 /\ v.carry = t.carry
    BY <1>2 DEF Counts
  <2>2. (d + b * u) + 1 < b * m
    BY <1>1, <1>2
  <2> QED  BY <1>1, <1>2, <2>1, <2>2 DEF Counts
<1>3. CASE ~(u + 1 < m)
  <2>1. u + 1 = m
    BY <1>3
  <2>2. next = 0 /\ v.carry = TRUE
    BY <1>3, <2>1 DEF Counts
  <2>3. (d + b * u) + 1 = b * m /\ b * next = 0
    BY <1>1, <2>1, <2>2
  <2> QED  BY <1>1, <2>2, <2>3 DEF Counts
<1> QED  BY <1>2, <1>3

(* The next minute, likewise. *)
LEMMA NextMinuteCounts ==
    ASSUME NEW t \in Clocks
    PROVE  /\ MinutesOf(t) \in 0 .. AllMinutes - 1 /\ NextMinute(t) \in Clocks
           /\ NextMinute(t).seconds = t.seconds
           /\ Counts(t, NextMinute(t), MinutesOf(t), MinutesOf(NextMinute(t)), AllMinutes, 1)
<1> DEFINE d == t.minutes
           u == HoursOf(t)
<1>1. d \in 0 .. Hour - 1 /\ u \in 0 .. AllHours - 1 /\ MinutesOf(t) = d + Hour * u
  BY NextHourCounts DEF Clocks, Readings, MinutesOf
<1>2. CASE d + 1 # Hour
  <2>1. NextMinute(t) = [t EXCEPT !.minutes = @ + 1]
    BY <1>2 DEF NextMinute
  <2>2. d + 1 \in 0 .. Hour - 1
    BY <1>1, <1>2, ClockSizes
  <2>3. /\ NextMinute(t) \in Clocks /\ NextMinute(t).minutes = d + 1
        /\ NextMinute(t).hours = t.hours /\ DaysOf(NextMinute(t)) = DaysOf(t)
        /\ NextMinute(t).seconds = t.seconds /\ NextMinute(t).carry = t.carry
    BY <2>1, <2>2 DEF Clocks, Readings, DaysOf
  <2>4. MinutesOf(NextMinute(t)) = (d + 1) + Hour * u
    BY <2>3 DEF MinutesOf, HoursOf
  <2> HIDE DEF d, u
  <2>5. /\ d + Hour * u \in 0 .. AllMinutes - 1 /\ (d + 1) + Hour * u = (d + Hour * u) + 1
        /\ (d + Hour * u) + 1 # AllMinutes
    BY <1>1, <1>2, Digits, ClockSizes, WrapIs DEF AllMinutes
  <2>6. (d + Hour * u) + 1 < AllMinutes
    BY <2>5, WrapIs
  <2> QED  BY <1>1, <2>3, <2>4, <2>5, <2>6 DEF Counts
<1>3. CASE d + 1 = Hour
  <2> DEFINE zero == [t EXCEPT !.minutes = 0]
  <2>1. NextMinute(t) = NextHour(zero)
    BY <1>3 DEF NextMinute
  <2>2. /\ zero \in Clocks /\ zero.minutes = 0 /\ HoursOf(zero) = u /\ zero.carry = t.carry
        /\ zero.seconds = t.seconds
    <3>1. 0 \in 0 .. Hour - 1
      BY ClockSizes
    <3>2. /\ zero \in Clocks /\ zero.minutes = 0 /\ zero.low = t.low /\ zero.high = t.high
          /\ zero.hours = t.hours /\ zero.carry = t.carry /\ zero.seconds = t.seconds
      BY <3>1 DEF Clocks, Readings
    <3> QED  BY <3>2 DEF HoursOf, DaysOf
  <2> HIDE DEF zero
  <2> DEFINE v == NextMinute(t)
  <2>3. /\ v \in Clocks /\ v.minutes = 0 /\ v.seconds = t.seconds
        /\ Counts(t, v, u, HoursOf(v), AllHours, 1)
    <3>1. /\ v \in Clocks /\ v.minutes = 0 /\ v.seconds = t.seconds
          /\ Counts(zero, v, HoursOf(zero), HoursOf(v), AllHours, 1)
      BY <2>1, <2>2, NextHourCounts
    <3> QED  BY <2>2, <3>1 DEF Counts
  <2> HIDE DEF v
  <2>4. HoursOf(v) \in 0 .. AllHours - 1
    BY <2>3, NextHourCounts
  <2>5. MinutesOf(v) = Hour * HoursOf(v)
    BY <2>3, <2>4, ClockSizes DEF MinutesOf
  <2> HIDE DEF d, u
  <2>6. Counts(t, v, d + Hour * u, Hour * HoursOf(v), AllMinutes, 1)
    BY <1>1, <1>3, <2>3, CarryCounts, ClockSizes, WrapIs DEF AllMinutes
  <2>7. d + Hour * u \in 0 .. AllMinutes - 1
    BY <1>1, Digits, ClockSizes, WrapIs DEF AllMinutes
  <2> QED  BY <1>1, <2>3, <2>5, <2>6, <2>7 DEF v
<1> QED  BY <1>2, <1>3

(* The next second, likewise. *)
LEMMA NextSecondCounts ==
    ASSUME NEW t \in Clocks
    PROVE  /\ Total(t) \in 0 .. Wrap - 1 /\ NextSecond(t) \in Clocks
           /\ Counts(t, NextSecond(t), Total(t), Total(NextSecond(t)), Wrap, 1)
<1> DEFINE d == t.seconds
           u == MinutesOf(t)
<1>1. d \in 0 .. Minute - 1 /\ u \in 0 .. AllMinutes - 1 /\ Total(t) = d + Minute * u
  BY NextMinuteCounts, TotalIs DEF Clocks, Readings
<1>2. Wrap = Minute * AllMinutes
  BY WrapIs DEF AllSeconds
<1>3. CASE d + 1 # Minute
  <2>1. NextSecond(t) = [t EXCEPT !.seconds = @ + 1]
    BY <1>3 DEF NextSecond
  <2>2. d + 1 \in 0 .. Minute - 1
    BY <1>1, <1>3, ClockSizes
  <2>3. /\ NextSecond(t) \in Clocks /\ NextSecond(t).seconds = d + 1
        /\ MinutesOf(NextSecond(t)) = MinutesOf(t) /\ NextSecond(t).carry = t.carry
    BY <2>1, <2>2 DEF Clocks, Readings, MinutesOf, HoursOf, DaysOf
  <2>4. Total(NextSecond(t)) = (d + 1) + Minute * u
    BY <2>3, TotalIs
  <2> HIDE DEF d, u
  <2>5. /\ d + Minute * u \in 0 .. Wrap - 1 /\ (d + 1) + Minute * u = (d + Minute * u) + 1
        /\ (d + Minute * u) + 1 # Wrap
    BY <1>1, <1>2, <1>3, Digits, ClockSizes, WrapIs
  <2>6. (d + Minute * u) + 1 < Wrap
    BY <2>5, WrapIs
  <2> QED  BY <1>1, <2>3, <2>4, <2>5, <2>6 DEF Counts
<1>4. CASE d + 1 = Minute
  <2> DEFINE zero == [t EXCEPT !.seconds = 0]
  <2>1. NextSecond(t) = NextMinute(zero)
    BY <1>4 DEF NextSecond
  <2>2. zero \in Clocks /\ zero.seconds = 0 /\ MinutesOf(zero) = u /\ zero.carry = t.carry
    <3>1. 0 \in 0 .. Minute - 1
      BY ClockSizes
    <3>2. /\ zero \in Clocks /\ zero.seconds = 0 /\ zero.low = t.low /\ zero.high = t.high
          /\ zero.hours = t.hours /\ zero.carry = t.carry /\ zero.minutes = t.minutes
      BY <3>1 DEF Clocks, Readings
    <3> QED  BY <3>2 DEF MinutesOf, HoursOf, DaysOf
  <2> HIDE DEF zero
  <2> DEFINE v == NextSecond(t)
  <2>3. v \in Clocks /\ v.seconds = 0 /\ Counts(t, v, u, MinutesOf(v), AllMinutes, 1)
    <3>1. /\ v \in Clocks /\ v.seconds = 0
          /\ Counts(zero, v, MinutesOf(zero), MinutesOf(v), AllMinutes, 1)
      BY <2>1, <2>2, NextMinuteCounts
    <3> QED  BY <2>2, <3>1 DEF Counts
  <2> HIDE DEF v
  <2>4. MinutesOf(v) \in 0 .. AllMinutes - 1
    BY <2>3, NextMinuteCounts
  <2>5. Total(v) = Minute * MinutesOf(v)
    BY <2>3, <2>4, ClockSizes, TotalIs
  <2> HIDE DEF d, u
  <2>6. Counts(t, v, d + Minute * u, Minute * MinutesOf(v), Wrap, 1)
    BY <1>1, <1>2, <1>4, <2>3, CarryCounts, ClockSizes, WrapIs
  <2>7. d + Minute * u \in 0 .. Wrap - 1
    BY <1>1, <1>2, Digits, ClockSizes, WrapIs
  <2> QED  BY <1>1, <2>3, <2>5, <2>6, <2>7 DEF v
<1> QED  BY <1>3, <1>4

(* A set of natural numbers has a least. *)
LEMMA LeastPlace ==
    ASSUME NEW S, S \subseteq Nat, S # {}
    PROVE  \E x \in S : \A y \in S : x <= y
<1>1. PICK first \in S : \A y \in S : <<y, first>> \notin OpToRel(<, Nat)
  BY NatLessThanWellFounded, WFMin
<1>2. \A y \in S : ~(y < first)
  BY <1>1 DEF OpToRel
<1>3. \A y \in S : first <= y
  <2> SUFFICES ASSUME NEW y \in S PROVE first <= y
    OBVIOUS
  <2>1. y \in Nat /\ first \in Nat /\ ~(y < first)
    BY <1>2
  <2> QED  BY <2>1
<1> QED  BY <1>3

(* Induction over the natural numbers, for a set. *)
LEMMA AllNumbers ==
    ASSUME NEW S, 0 \in S, \A n \in Nat : n \in S => n + 1 \in S
    PROVE  \A n \in Nat : n \in S
<1> DEFINE Others == {n \in Nat : n \notin S}
<1> SUFFICES ASSUME Others # {} PROVE FALSE
  OBVIOUS
<1>1. PICK m \in Others : \A y \in Others : m <= y
  <2>1. Others \subseteq Nat
    OBVIOUS
  <2> HIDE DEF Others
  <2> QED  BY <2>1, LeastPlace
<1>2. m \in Nat /\ m # 0
  OBVIOUS
<1> DEFINE k == m - 1
<1>3. k \in Nat /\ k + 1 = m /\ ~(m <= k)
  BY <1>2
<1> HIDE DEF k
<1>4. k \in S
  BY <1>1, <1>3
<1> QED  BY <1>3, <1>4

-----------------------------------------------------------------------------
(* What a round of each loop is worth. *)
Units == {"second", "minute", "day"}
Worth(unit) == CASE unit = "second" -> 1 [] unit = "minute" -> Minute [] unit = "day" -> DaySeconds

(* A unit of b seconds more, of which there are m. *)
LEMMA UnitCounts ==
    ASSUME NEW b \in Nat \ {0}, NEW m \in Nat \ {0}, NEW s \in 0 .. b - 1, NEW u \in 0 .. m - 1,
           NEW t, NEW v, NEW next, Counts(t, v, u, next, m, 1)
    PROVE  Counts(t, v, s + b * u, s + b * next, b * m, b)
<1>0. /\ b * m \in Nat /\ b * u \in Nat /\ b * (u + 1) = b * u + b
      /\ s + b * (u + 1) = (s + b * u) + b
  OBVIOUS
<1>1. CASE u + 1 < m
  <2>1. next = u + 1 /\ v.carry = t.carry
    BY <1>1 DEF Counts
  <2>2. s + b * (u + 1) \in 0 .. b * m - 1
    <3>1. u + 1 \in 0 .. m - 1
      BY <1>1
    <3> QED  BY <3>1, Digits
  <2>3. (s + b * u) + b < b * m
    BY <1>0, <2>2
  <2> QED  BY <1>0, <2>1, <2>3 DEF Counts
<1>2. CASE ~(u + 1 < m)
  <2>1. u + 1 = m
    BY <1>2
  <2>2. next = 0 /\ v.carry = TRUE
    BY <1>2, <2>1 DEF Counts
  <2>3. b * (u + 1) = b * m /\ b * next = 0
    BY <2>1, <2>2
  <2>4. ~((s + b * u) + b < b * m) /\ s + b * next = (s + b * u) + b - b * m
    BY <1>0, <2>3
  <2> QED  BY <2>2, <2>4 DEF Counts
<1> QED  BY <1>1, <1>2

(* A day is counted by a clock that is not before the beginning of one. *)
LEMMA LeapDayCounts ==
    ASSUME NEW t \in Clocks, kind # "HUC3"
    PROVE  NextDay(t) \in Clocks /\ Counts(t, NextDay(t), Total(t), Total(NextDay(t)), Wrap, DaySeconds)
<1> DEFINE v == NextDay(t)
           h == t.minutes + Hour * t.hours
           s == t.seconds + Minute * h
<1>0. t \in Readings /\ t.hours \in 0 .. Day - 1 /\ t.minutes \in 0 .. Hour - 1
      /\ t.seconds \in 0 .. Minute - 1
  BY DEF Clocks, Readings
<1>1. /\ v \in Readings /\ v.seconds = t.seconds /\ v.minutes = t.minutes /\ v.hours = t.hours
      /\ DaysOf(t) \in 0 .. Days - 1
      /\ DaysOf(t) + 1 # Days => DaysOf(v) = DaysOf(t) + 1 /\ v.carry = t.carry
      /\ DaysOf(t) + 1 = Days => DaysOf(v) = 0 /\ v.carry = TRUE
  BY <1>0, NextDayCounts
<1> HIDE DEF v
<1>2. v \in Clocks
  BY <1>0, <1>1 DEF Clocks
<1>3. Counts(t, v, DaysOf(t), DaysOf(v), Days, 1)
  <2>1. CASE DaysOf(t) + 1 # Days
    BY <1>1, <2>1, WrapIs DEF Counts
  <2>2. CASE DaysOf(t) + 1 = Days
    BY <1>1, <2>2, WrapIs DEF Counts
  <2> QED  BY <2>1, <2>2
<1>4. h \in 0 .. Hour * Day - 1 /\ Hour * Day \in Nat \ {0}
  BY <1>0, Digits, ClockSizes
<1>5. s \in 0 .. DaySeconds - 1 /\ s \in Int
  <2>1. Minute * (Hour * Day) = Minute * Hour * Day
    <3>1. \A x, y, z \in Nat : x * (y * z) = (x * y) * z
      OBVIOUS
    <3> QED  BY <3>1, ClockSizes
  <2> HIDE DEF h
  <2>2. s \in 0 .. Minute * (Hour * Day) - 1
    BY <1>0, <1>4, Digits, ClockSizes
  <2> QED  BY <2>1, <2>2 DEF DaySeconds
<1>6. ASSUME NEW w, w.seconds = t.seconds, w.minutes = t.minutes, w.hours = t.hours,
             DaysOf(w) \in Nat
      PROVE  Total(w) = s + DaySeconds * DaysOf(w)
  <2> DEFINE n == DaysOf(w)
  <2>1. Total(w) = t.seconds + Minute * (t.minutes + Hour * (t.hours + Day * n))
    BY <1>6, TotalIs DEF MinutesOf, HoursOf
  <2>2. n \in Nat
    BY <1>6
  <2> HIDE DEF n
  <2>3. \A x, y, z \in Int : x * (y + z) = x * y + x * z /\ x * (y * z) = (x * y) * z /\ x * y \in Int
    OBVIOUS
  <2>4. Day * n \in Int /\ t.hours \in Int /\ t.minutes \in Int /\ t.seconds \in Int
        /\ Minute \in Int /\ Hour \in Int /\ Day \in Int /\ Hour * Day \in Int
    BY <1>0, <2>2, ClockSizes
  <2>5. Hour * (t.hours + Day * n) = Hour * t.hours + (Hour * Day) * n
    BY <2>2, <2>3, <2>4
  <2>6. Hour * t.hours \in Int /\ (Hour * Day) * n \in Int
    BY <2>2, <2>4
  <2>7. t.minutes + Hour * (t.hours + Day * n) = h + (Hour * Day) * n
    BY <2>4, <2>5, <2>6
  <2>8. Minute * (h + (Hour * Day) * n) = Minute * h + (Minute * (Hour * Day)) * n
    <3>1. h \in Int
      BY <1>4
    <3> HIDE DEF h
    <3> QED  BY <2>2, <2>3, <2>4, <2>6, <3>1
  <2>9. Minute * (Hour * Day) = DaySeconds
    BY <2>3, <2>4 DEF DaySeconds
  <2>10. Minute * h \in Int /\ DaySeconds * n \in Int
    <3>1. h \in Int
      BY <1>4
    <3> HIDE DEF h
    <3> QED  BY <2>2, <2>4, <3>1, WrapIs
  <2>11. Total(w) = t.seconds + (Minute * h + DaySeconds * n)
    BY <2>1, <2>7, <2>8, <2>9
  <2> QED  BY <2>4, <2>10, <2>11 DEF n
<1>7. DaysOf(v) \in Nat
  BY <1>1, WrapIs
<1>8. Total(t) = s + DaySeconds * DaysOf(t) /\ Total(v) = s + DaySeconds * DaysOf(v)
  BY <1>1, <1>6, <1>7
<1>9. Wrap = DaySeconds * Days
  <2>1. Wrap = DaySeconds * LowDays * HighDays
    BY DEF Wrap
  <2>2. \A x, y, z \in Nat : x * (y * z) = (x * y) * z
    OBVIOUS
  <2> QED  BY <2>1, <2>2, WrapIs, ClockSizes DEF Days
<1> HIDE DEF s
<1>10. Counts(t, v, s + DaySeconds * DaysOf(t), s + DaySeconds * DaysOf(v), DaySeconds * Days, DaySeconds)
  BY <1>1, <1>3, <1>5, UnitCounts, WrapIs
<1> QED  BY <1>2, <1>8, <1>9, <1>10 DEF v

(* A round of a loop counts what its unit is worth. *)
LEMMA NextUnitCounts ==
    ASSUME NEW t \in Clocks, NEW unit \in Units, unit = "day" => kind # "HUC3"
    PROVE  /\ Worth(unit) \in 1 .. Wrap
           /\ NextUnit(unit, t) \in Clocks
           /\ Counts(t, NextUnit(unit, t), Total(t), Total(NextUnit(unit, t)), Wrap, Worth(unit))
<1>1. CASE unit = "second"
  <2>1. NextUnit(unit, t) = NextSecond(t) /\ Worth(unit) = 1
    BY <1>1 DEF NextUnit, Worth
  <2> QED  BY <2>1, NextSecondCounts, WrapIs
<1>2. CASE unit = "day"
  <2>1. NextUnit(unit, t) = NextDay(t) /\ Worth(unit) = DaySeconds /\ kind # "HUC3"
    BY <1>2 DEF NextUnit, Worth, LeapDay
  <2> QED  BY <2>1, LeapDayCounts, WrapIs
<1>3. CASE unit = "minute"
  <2> DEFINE v == NextMinute(t)
  <2>1. NextUnit(unit, t) = v /\ Worth(unit) = Minute
    BY <1>3 DEF NextUnit, Worth
  <2>2. /\ MinutesOf(t) \in 0 .. AllMinutes - 1 /\ v \in Clocks /\ v.seconds = t.seconds
        /\ Counts(t, v, MinutesOf(t), MinutesOf(v), AllMinutes, 1)
    BY NextMinuteCounts
  <2>3. Total(t) = t.seconds + Minute * MinutesOf(t) /\ Total(v) = t.seconds + Minute * MinutesOf(v)
    BY <2>2, TotalIs
  <2>4. t.seconds \in 0 .. Minute - 1
    BY DEF Clocks, Readings
  <2> HIDE DEF v
  <2>5. Counts(t, v, t.seconds + Minute * MinutesOf(t), t.seconds + Minute * MinutesOf(v),
               Minute * AllMinutes, Minute)
    BY <2>2, <2>4, UnitCounts, ClockSizes, WrapIs
  <2>6. Wrap = Minute * AllMinutes
    BY WrapIs DEF AllSeconds
  <2> QED  BY <2>1, <2>2, <2>3, <2>5, <2>6, ClockSizes, WrapIs
<1> QED  BY <1>1, <1>2, <1>3 DEF Units

(* The equation of a loop of n rounds. *)
Rounds(unit, t, n, clock) ==
    [i \in 0 .. n |-> IF i = 0 THEN t ELSE NextUnit(unit, clock[i - 1])]

(* After is a solution of the equation, if there is one. *)
LEMMA AfterIsChosen ==
    \A unit, n, t : After(unit, n, t) = (CHOOSE clock : clock = Rounds(unit, t, n, clock))[n]
  BY DEF After, Rounds

(* There is, however many rounds. *)
LEMMA RoundsExist ==
    ASSUME NEW unit, NEW t
    PROVE  \A k \in Nat : \E clock : clock = Rounds(unit, t, k, clock)
<1> DEFINE Solved == {k \in Nat : \E clock : clock = Rounds(unit, t, k, clock)}
<1>1. 0 \in Solved
  <2> DEFINE f == [i \in 0 .. 0 |-> t]
  <2>1. \A i \in 0 .. 0 : i = 0
    OBVIOUS
  <2>2. f = Rounds(unit, t, 0, f)
    BY <2>1 DEF Rounds
  <2> QED  BY <2>2
<1>2. ASSUME NEW k \in Nat, k \in Solved PROVE k + 1 \in Solved
  <2>1. PICK f : f = Rounds(unit, t, k, f)
    BY <1>2
  <2> DEFINE V(g, i) == IF i = 0 THEN t ELSE NextUnit(unit, g[i - 1])
             h == [i \in 0 .. k + 1 |-> V(f, i)]
             r == Rounds(unit, t, k + 1, h)
  <2>2. \A i \in 0 .. k : f[i] = V(f, i)
    BY <2>1 DEF Rounds
  <2>3. \A i \in 0 .. k : h[i] = f[i]
    <3>1. \A i \in 0 .. k : i \in 0 .. k + 1
      OBVIOUS
    <3>2. \A i \in 0 .. k + 1 : h[i] = V(f, i)
      OBVIOUS
    <3> HIDE DEF V, h
    <3> QED  BY <2>2, <3>1, <3>2
  <2>4. \A i \in 0 .. k + 1 : i # 0 => i - 1 \in 0 .. k
    OBVIOUS
  <2>5. \A i \in 0 .. k + 1 : h[i] = V(h, i)
    <3>1. \A i \in 0 .. k + 1 : i # 0 => h[i - 1] = f[i - 1]
      BY <2>3, <2>4
    <3>2. \A i \in 0 .. k + 1 : h[i] = V(f, i)
      OBVIOUS
    <3> HIDE DEF h
    <3> QED  BY <3>1, <3>2
  <2>6. h = Rounds(unit, t, k + 1, h)
    <3>1. r = [i \in 0 .. k + 1 |-> V(h, i)]
      BY DEF Rounds
    <3>2. h = [i \in 0 .. k + 1 |-> h[i]]
      OBVIOUS
    <3> HIDE DEF h, V
    <3>3. r = [i \in 0 .. k + 1 |-> h[i]]
      BY <2>5, <3>1
    <3> QED  BY <3>2, <3>3
  <2>7. \E clock : clock = Rounds(unit, t, k + 1, clock)
    <3> HIDE DEF h
    <3> QED  BY <2>6
  <2> QED  BY <2>7
<1> HIDE DEF Solved
<1>3. \A k \in Nat : k \in Solved
  BY <1>1, <1>2, AllNumbers
<1> QED  BY <1>3 DEF Solved

(* What the clock shows after a loop. *)
LEMMA AfterSolves ==
    ASSUME NEW unit, NEW n \in Nat, NEW t
    PROVE  \E clock :
             /\ clock[0] = t
             /\ \A k \in Nat : k + 1 <= n => clock[k + 1] = NextUnit(unit, clock[k])
             /\ After(unit, n, t) = clock[n]
<1> DEFINE f == CHOOSE clock : clock = Rounds(unit, t, n, clock)
<1>1. f = Rounds(unit, t, n, f)
  BY RoundsExist
<1>2. After(unit, n, t) = f[n]
  BY AfterIsChosen
<1> HIDE DEF f
<1>3. \A i \in 0 .. n : f[i] = IF i = 0 THEN t ELSE NextUnit(unit, f[i - 1])
  BY <1>1 DEF Rounds
<1>4. f[0] = t
  <2>1. 0 \in 0 .. n
    OBVIOUS
  <2> QED  BY <1>3, <2>1
<1>5. ASSUME NEW k \in Nat, k + 1 <= n
      PROVE  f[k + 1] = NextUnit(unit, f[k])
  <2>1. k + 1 \in 0 .. n /\ k + 1 # 0 /\ (k + 1) - 1 = k
    BY <1>5
  <2> QED  BY <1>3, <2>1
<1> QED  BY <1>2, <1>4, <1>5

(* The clock t is the time due, with an overflow if it was there or came.  *)
Shows(t, due, carry) == Total(t) = due % Wrap /\ t.carry = (carry \/ due >= Wrap)

(* There is one remainder. *)
LEMMA OneRemainder ==
    ASSUME NEW w \in Nat \ {0}, NEW p \in Int, NEW q \in Int, NEW r \in 0 .. w - 1, NEW s \in 0 .. w - 1,
           w * p + r = w * q + s
    PROVE  r = s
<1>1. \A x, y \in Int : x < y => w * x + w <= w * y
  <2> SUFFICES ASSUME NEW x \in Int, NEW y \in Int, x < y PROVE w * x + w <= w * y
    OBVIOUS
  <2>1. w * (x + 1) = w * x + w
    OBVIOUS
  <2>2. \A z \in Nat : w * z \in Nat
    OBVIOUS
  <2>3. y - (x + 1) \in Nat
    OBVIOUS
  <2>4. w * (y - (x + 1)) \in Nat
    BY <2>2, <2>3
  <2>5. w * (y - (x + 1)) = w * y - w * (x + 1)
    OBVIOUS
  <2>6. w * x \in Int /\ w * y \in Int
    OBVIOUS
  <2> QED  BY <2>1, <2>4, <2>5, <2>6
<1>2. w * p \in Int /\ w * q \in Int
  OBVIOUS
<1>3. ~(p < q) /\ ~(q < p)
  BY <1>1, <1>2
<1>4. p = q
  BY <1>3
<1> QED  BY <1>2, <1>4

(* A remainder and its quotient. *)
LEMMA Divided ==
    ASSUME NEW w \in Nat \ {0}, NEW a \in Nat
    PROVE  a \div w \in Nat /\ (a % w) \in 0 .. w - 1 /\ a = w * (a \div w) + (a % w)
  OBVIOUS

(* What a number is modulo w, and what n more, at most w, is. *)
LEMMA Modulo ==
    ASSUME NEW w \in Nat \ {0}, NEW due \in Nat, NEW n \in 0 .. w
    PROVE  /\ due % w \in 0 .. w - 1
           /\ due < w => due % w = due
           /\ (due + n) % w = IF (due % w) + n < w THEN (due % w) + n ELSE (due % w) + n - w
<1> DEFINE q == due \div w
           r == due % w
           p == (due + n) \div w
           s == (due + n) % w
<1>1. q \in Nat /\ r \in 0 .. w - 1 /\ due = w * q + r
  BY Divided
<1>2. p \in Nat /\ s \in 0 .. w - 1 /\ due + n = w * p + s
  <2>1. due + n \in Nat
    OBVIOUS
  <2> QED  BY <2>1, Divided
<1> HIDE DEF p, q, r, s
<1>3. due < w => r = due
  <2> SUFFICES ASSUME due < w PROVE r = due
    OBVIOUS
  <2>1. w * q + r = w * 0 + due /\ due \in 0 .. w - 1 /\ 0 \in Int /\ q \in Int
    BY <1>1
  <2> QED  BY <1>1, <2>1, OneRemainder
<1>4. w * (q + 1) = w * q + w /\ w * q \in Int /\ w * p \in Int
  BY <1>1, <1>2
<1>5. r + n < w => s = r + n
  <2> SUFFICES ASSUME r + n < w PROVE s = r + n
    OBVIOUS
  <2>1. w * p + s = w * q + (r + n) /\ r + n \in 0 .. w - 1 /\ p \in Int /\ q \in Int
    BY <1>1, <1>2, <1>4
  <2> QED  BY <1>2, <2>1, OneRemainder
<1>6. ~(r + n < w) => s = r + n - w
  <2> SUFFICES ASSUME ~(r + n < w) PROVE s = r + n - w
    OBVIOUS
  <2>1. w * p + s = w * (q + 1) + (r + n - w) /\ r + n - w \in 0 .. w - 1 /\ p \in Int /\ q + 1 \in Int
    BY <1>1, <1>2, <1>4
  <2> QED  BY <1>2, <2>1, OneRemainder
<1>7. /\ r \in 0 .. w - 1 /\ due < w => r = due
      /\ s = IF r + n < w THEN r + n ELSE r + n - w
  BY <1>1, <1>3, <1>5, <1>6
<1> QED  BY <1>1, <1>7 DEF r, s

(* A clock that counts n more shows n more. *)
LEMMA CountsShows ==
    ASSUME NEW due \in Nat, NEW n \in 0 .. Wrap, NEW carry \in BOOLEAN, NEW t \in Clocks, NEW u,
           Shows(t, due, carry), Counts(t, u, Total(t), Total(u), Wrap, n)
    PROVE  Shows(u, due + n, carry)
<1>1. Wrap \in Nat \ {0}
  BY WrapIs
<1> DEFINE r == due % Wrap
           s == (due + n) % Wrap
<1>2. r \in 0 .. Wrap - 1 /\ due < Wrap => r = due
  BY <1>1, Modulo
<1>3. s = IF r + n < Wrap THEN r + n ELSE r + n - Wrap
  BY <1>1, Modulo
<1>4. Total(t) = r /\ t.carry = (carry \/ due >= Wrap)
  BY DEF Shows
<1>7. r <= due /\ r \in 0 .. Wrap - 1
  <2>1. r \in 0 .. Wrap - 1
    BY <1>1, Modulo
  <2>2. CASE due < Wrap
    BY <1>2, <2>1, <2>2
  <2>3. CASE ~(due < Wrap)
    <3> HIDE DEF r
    <3> QED  BY <1>1, <2>1, <2>3
  <2> QED  BY <2>1, <2>2, <2>3
<1>8. due < Wrap => r = due
  BY <1>1, Modulo
<1> HIDE DEF r, s
<1>5. CASE r + n < Wrap
  <2>1. Total(u) = s /\ u.carry = t.carry
    BY <1>3, <1>4, <1>5 DEF Counts
  <2>2. due + n >= Wrap <=> due >= Wrap
    BY <1>1, <1>5, <1>7, <1>8
  <2> QED  BY <1>4, <2>1, <2>2 DEF Shows, s
<1>6. CASE ~(r + n < Wrap)
  <2>1. Total(u) = s /\ u.carry = TRUE
    BY <1>3, <1>4, <1>6 DEF Counts
  <2>2. due + n >= Wrap
    BY <1>1, <1>6, <1>7
  <2> QED  BY <2>1, <2>2 DEF Shows, s
<1> QED  BY <1>5, <1>6

(* A loop of n rounds of a unit counts n times what the unit is worth. *)
LEMMA AfterShows ==
    ASSUME NEW unit \in Units, unit = "day" => kind # "HUC3", NEW n \in Nat,
           NEW t \in Clocks, NEW due \in Nat, NEW carry \in BOOLEAN, Shows(t, due, carry)
    PROVE  After(unit, n, t) \in Clocks /\ Shows(After(unit, n, t), due + n * Worth(unit), carry)
<1> DEFINE w == Worth(unit)
<1>1. w \in 1 .. Wrap /\ w \in Nat /\ Wrap \in Nat
  BY NextUnitCounts, WrapIs
<1>2. PICK f : /\ f[0] = t
               /\ \A k \in Nat : k + 1 <= n => f[k + 1] = NextUnit(unit, f[k])
               /\ After(unit, n, t) = f[n]
  BY AfterSolves
<1> HIDE DEF w
<1> DEFINE S == {k \in Nat : k <= n => f[k] \in Clocks /\ Shows(f[k], due + k * w, carry)}
<1>3. 0 \in S
  <2>1. due + 0 * w = due
    BY <1>1
  <2> QED  BY <1>2, <2>1
<1>4. ASSUME NEW k \in Nat, k \in S PROVE k + 1 \in S
  <2> SUFFICES ASSUME k + 1 <= n
               PROVE  f[k + 1] \in Clocks /\ Shows(f[k + 1], due + (k + 1) * w, carry)
    OBVIOUS
  <2>1. f[k] \in Clocks /\ Shows(f[k], due + k * w, carry)
    BY <1>4
  <2> DEFINE v == f[k + 1]
             d == due + k * w
  <2>2. v = NextUnit(unit, f[k])
    BY <1>2
  <2>3. v \in Clocks /\ Counts(f[k], v, Total(f[k]), Total(v), Wrap, w)
    BY <2>1, <2>2, NextUnitCounts DEF w
  <2>4. d \in Nat /\ d + w = due + (k + 1) * w
    BY <1>1
  <2>5. w \in 0 .. Wrap
    BY <1>1
  <2> HIDE DEF v, d
  <2>6. Shows(f[k], d, carry)
    BY <2>1 DEF d
  <2>7. Shows(v, d + w, carry)
    BY <2>1, <2>3, <2>4, <2>5, <2>6, CountsShows
  <2> QED  BY <2>3, <2>4, <2>7 DEF v
<1> HIDE DEF S
<1>5. n \in S
  BY <1>3, <1>4, AllNumbers
<1> QED  BY <1>2, <1>5 DEF S, w

(* What GB_rtc_set_time does to the clock: it counts the seconds that it   *)
(* moves the second of its last look by.                                   *)
LEMMA SetTimeCounts ==
    ASSUME ClockInv, NEW now \in Nat, SetTime(now)
    PROVE  /\ last' \in Nat /\ last <= last' /\ real' \in Clocks
           /\ Shows(real', base.total + (last' - base.last), base.carry)
<1> DEFINE due == base.total + (last - base.last)
<1>1. /\ last \in Nat /\ base.total \in Nat /\ base.last \in Nat /\ base.last <= last
      /\ base.carry \in BOOLEAN /\ real \in Clocks
  BY DEF ClockInv
<1>2. due \in Nat
  BY <1>1
<1>3. Shows(real, due, base.carry)
  BY DEF ClockInv, CountsElapsed, Shows
<1>4. ASSUME NEW n \in Nat, last' = last + n
      PROVE  due + n = base.total + (last' - base.last) /\ last' \in Nat /\ last <= last'
  BY <1>1, <1>4
<1>5. \A n \in Nat, w \in Nat : n * w \in Nat
  OBVIOUS
<1>6. Minute \in Nat \ {0} /\ DaySeconds \in Nat \ {0}
  BY ClockSizes, WrapIs
<1>7. "minute" \in Units /\ "second" \in Units /\ "day" \in Units
      /\ Worth("minute") = Minute /\ Worth("second") = 1 /\ Worth("day") = DaySeconds
  BY DEF Units, Worth
<1> HIDE DEF due
<1>8. CASE kind = "HUC3"
  <2> DEFINE n == Minutes(now)
  <2>1. n \in Nat
    <3>1. last \div Minute \in Nat /\ now \div Minute \in Nat
      BY <1>1, <1>6, Divided
    <3> QED  BY <3>1 DEF Minutes, Loops
  <2> HIDE DEF n
  <2>2. real' = After("minute", n, real) /\ last' = last + n * Minute
    BY <1>8 DEF SetTime, n
  <2>3. real' \in Clocks /\ Shows(real', due + n * Minute, base.carry)
    <3>1. After("minute", n, real) \in Clocks
          /\ Shows(After("minute", n, real), due + n * Worth("minute"), base.carry)
      <4>1. "minute" = "day" => kind # "HUC3"
        OBVIOUS
      <4> QED  BY <1>1, <1>2, <1>3, <1>7, <2>1, <4>1, AfterShows
    <3> QED  BY <1>7, <2>2, <3>1
  <2>4. n * Minute \in Nat
    BY <1>5, <1>6, <2>1
  <2> QED  BY <1>4, <2>2, <2>3, <2>4
<1>9. CASE kind # "HUC3" /\ ~running
  <2>1. real' = real /\ last' = last + 0
    BY <1>1, <1>9 DEF SetTime
  <2>2. due + 0 = due /\ 0 \in Nat
    BY <1>2
  <2> QED  BY <1>1, <1>3, <1>4, <2>1, <2>2
<1>10. CASE kind # "HUC3" /\ running
  <2> DEFINE q == LeapDays(now)
             n == Seconds(now)
             t == After("day", q, real)
  <2>1. /\ real' = After("second", n, t)
        /\ last' = IF last < now THEN now ELSE last
    BY <1>10 DEF SetTime
  <2>2. /\ q \in Nat /\ n \in Nat /\ q * DaySeconds \in Nat
        /\ last' = last + (q * DaySeconds + n)
    <3>1. CASE last < now
      <4> DEFINE a == now - last - 1
      <4>1. a \in Nat
        BY <1>1, <3>1
      <4>2. q = a \div DaySeconds
        BY <3>1 DEF LeapDays
      <4> HIDE DEF a, q
      <4>3. q \in Nat /\ (a % DaySeconds) \in 0 .. DaySeconds - 1
            /\ a = DaySeconds * q + (a % DaySeconds)
        BY <1>6, <4>1, <4>2, Divided
      <4>4. q * DaySeconds = DaySeconds * q /\ q * DaySeconds \in Nat
        BY <1>6, <4>3
      <4>5. q * DaySeconds <= a
        BY <1>6, <4>1, <4>3, <4>4
      <4>6. last + q * DaySeconds < now
        BY <1>1, <4>4, <4>5 DEF a
      <4>7. n = now - (last + q * DaySeconds)
        BY <4>6 DEF Seconds, Loops, q
      <4> HIDE DEF n
      <4> QED  BY <1>1, <2>1, <3>1, <4>3, <4>4, <4>6, <4>7
    <3>2. CASE ~(last < now)
      <4>1. q = 0
        BY <3>2 DEF LeapDays
      <4>2. last + 0 * DaySeconds = last /\ 0 * DaySeconds = 0
        BY <1>1, <1>6
      <4>3. n = 0
        BY <3>2, <4>1, <4>2 DEF Seconds, Loops
      <4> HIDE DEF n, q
      <4> QED  BY <1>1, <2>1, <3>2, <4>1, <4>2, <4>3
    <3> QED  BY <3>1, <3>2
  <2> HIDE DEF q, n
  <2>3. t \in Clocks /\ Shows(t, due + q * DaySeconds, base.carry)
    BY <1>1, <1>2, <1>3, <1>7, <1>10, <2>2, AfterShows
  <2> DEFINE later == due + q * DaySeconds
  <2>4. later \in Nat /\ later + n * 1 = due + (q * DaySeconds + n) /\ q * DaySeconds + n \in Nat
    BY <1>2, <2>2
  <2>5. Shows(t, later, base.carry)
    BY <2>3
  <2> HIDE DEF t, later
  <2>6. real' \in Clocks /\ Shows(real', later + n * 1, base.carry)
    <3>1. "second" = "day" => kind # "HUC3"
      OBVIOUS
    <3>2. After("second", n, t) \in Clocks
          /\ Shows(After("second", n, t), later + n * Worth("second"), base.carry)
      BY <1>1, <1>7, <2>2, <2>3, <2>4, <2>5, <3>1, AfterShows
    <3> QED  BY <1>7, <2>1, <3>2
  <2> QED  BY <1>4, <2>2, <2>4, <2>6
<1> QED  BY <1>8, <1>9, <1>10

(* A step that counts. *)
LEMMA Counted ==
    ASSUME ClockInv, kind' = kind, host' \in Nat, base' = base,
           last' \in Nat, last <= last', real' \in Clocks,
           Shows(real', base.total + (last' - base.last), base.carry)
    PROVE  ClockInv'
<1>1. real' \in Clocks'
  BY DEF Clocks, Readings
<1>2. CountsElapsed'
  BY DEF CountsElapsed, Shows, Wrap, DaySeconds, Total
<1>3. /\ base'.total \in Nat /\ base'.last \in Nat /\ base'.last <= last'
      /\ base'.carry \in BOOLEAN
  BY DEF ClockInv
<1> QED  BY <1>1, <1>2, <1>3 DEF ClockInv

(* No time has passed since a clock was set. *)
LEMMA NothingSince == \A x, l \in Nat : x + (l - l) = x
  OBVIOUS

(* A step that sets the clock, or what it has counted from. *)
LEMMA SetAnew ==
    ASSUME kind' = kind, host' \in Nat, last' \in Nat, real' \in Clocks,
           base' = [total |-> Total(real'), carry |-> real'.carry, last |-> last']
    PROVE  ClockInv'
<1>1. real' \in Clocks'
  BY DEF Clocks, Readings
<1>2. Total(real') \in 0 .. Wrap - 1 /\ Wrap \in Nat \ {0} /\ real'.carry \in BOOLEAN
  BY NextSecondCounts, WrapIs DEF Clocks, Readings
<1> DEFINE due == Total(real')
<1>3. due \in Nat /\ due < Wrap /\ 0 \in 0 .. Wrap
  BY <1>2
<1>4. due % Wrap = due
  <2> HIDE DEF due
  <2> QED  BY <1>2, <1>3, Modulo
<1>5. base'.total = due /\ base'.carry = real'.carry /\ base'.last = last'
  OBVIOUS
<1>6. base'.total + (last' - base'.last) = due
  <2>1. due + (last' - last') = due
    BY <1>3, NothingSince
  <2> HIDE DEF due
  <2> QED  BY <1>5, <2>1, Zenon
<1>7. CountsElapsed'
  <2>1. Total(real)' = due /\ Wrap' = Wrap
    BY DEF Total, Wrap, DaySeconds
  <2>2. ~(due >= Wrap)
    <3> HIDE DEF due
    <3> QED  BY <1>2, <1>3
  <2>3. real'.carry = (real'.carry \/ due >= Wrap)
    <3> HIDE DEF due
    <3> QED  BY <1>2, <2>2
  <2> HIDE DEF due
  <2> DEFINE d == base.total + (last - base.last)
  <2>4. d' = due
    BY <1>6
  <2>5. CountsElapsed = (Total(real) = d % Wrap /\ real.carry = (base.carry \/ d >= Wrap))
    BY DEF CountsElapsed
  <2>6. CountsElapsed' = (Total(real)' = d' % Wrap' /\ real'.carry = (base'.carry \/ d' >= Wrap'))
    BY DEF CountsElapsed
  <2> HIDE DEF d
  <2> QED  BY <1>4, <1>5, <2>1, <2>3, <2>4, <2>6
<1> QED  BY <1>1, <1>2, <1>3, <1>5, <1>7 DEF ClockInv

(* What the program, and the hint, set the clock to. *)
LEMMA Settings ==
    /\ Zero \in Clocks /\ Full(Day - 1) \in Clocks
    /\ kind = "HUC3" => Full(-2) \in Clocks
<1>1. /\ 0 \in 0 .. Minute - 1 /\ Minute - 1 \in 0 .. Minute - 1 /\ 0 \in 0 .. Hour - 1
      /\ Hour - 1 \in 0 .. Hour - 1 /\ 0 \in -2 .. Day - 1 /\ Day - 1 \in -2 .. Day - 1
      /\ -2 \in -2 .. Day - 1 /\ 0 \in 0 .. LowDays - 1 /\ LowDays - 1 \in 0 .. LowDays - 1
      /\ 0 \in 0 .. HighDays - 1 /\ HighDays - 1 \in 0 .. HighDays - 1 /\ ~(0 < 0) /\ ~(Day - 1 < 0)
  BY ClockSizes
<1>2. Zero \in Clocks
  BY <1>1 DEF Zero, Time, Clocks, Readings
<1>3. Full(Day - 1) \in Clocks
  BY <1>1 DEF Full, Time, Clocks, Readings
<1>4. kind = "HUC3" => Full(-2) \in Clocks
  BY <1>1 DEF Full, Time, Clocks, Readings
<1> QED  BY <1>2, <1>3, <1>4

(* The clock begins at zero. *)
LEMMA ClockStart == RtcInit => ClockInv
<1> SUFFICES ASSUME RtcInit PROVE ClockInv
  OBVIOUS
<1>1. real = Zero /\ host = 0 /\ last = 0 /\ base = Since(Zero, 0)
  BY DEF RtcInit
<1>2. Zero \in Clocks
  BY Settings
<1>3. Total(Zero) \in 0 .. Wrap - 1 /\ Wrap \in Nat \ {0} /\ Zero.carry \in BOOLEAN
  BY <1>2, NextSecondCounts, WrapIs DEF Clocks, Readings
<1>4. base.total = Total(Zero) /\ base.carry = Zero.carry /\ base.last = 0
  BY <1>1 DEF Since
<1> DEFINE due == Total(Zero)
<1>5. due \in Nat /\ due < Wrap /\ 0 \in 0 .. Wrap /\ ~(due >= Wrap)
  <2> HIDE DEF due
  <2>1. due \in 0 .. Wrap - 1
    BY <1>3 DEF due
  <2> QED  BY <1>3, <2>1
<1> HIDE DEF due
<1>6. due % Wrap = due
  BY <1>3, <1>5, Modulo
<1>7. base.total + (last - base.last) = due
  BY <1>1, <1>4, <1>5 DEF due
<1>8. CountsElapsed
  <2>1. Zero.carry = (base.carry \/ due >= Wrap)
    BY <1>3, <1>4, <1>5
  <2>2. Total(real) = due
    BY <1>1 DEF due
  <2> QED  BY <1>1, <1>6, <1>7, <2>1, <2>2 DEF CountsElapsed
<1>9. 0 \in Nat /\ 0 <= 0
  OBVIOUS
<1> QED  BY <1>1, <1>2, <1>3, <1>4, <1>5, <1>8, <1>9 DEF ClockInv, due

(* Whatever is done with the clock, it has counted the time since it was   *)
(* last set.                                                               *)
LEMMA ClockStep == ClockInv /\ [RtcNext]_rtcVars => ClockInv'
<1> SUFFICES ASSUME ClockInv, [RtcNext]_rtcVars PROVE ClockInv'
  OBVIOUS
<1>0. /\ last \in Nat /\ host \in Nat /\ real \in Clocks
      /\ Shows(real, base.total + (last - base.last), base.carry)
  BY DEF ClockInv, CountsElapsed, Shows
<1>1. CASE UNCHANGED rtcVars
  <2>1. kind' = kind /\ host' = host /\ last' = last /\ real' = real /\ base' = base
    BY <1>1 DEF rtcVars
  <2>2. last <= last
    BY <1>0
  <2> QED  BY <1>0, <2>1, <2>2, Counted
<1>2. ASSUME NEW now \in Nat, SetTime(now), kind' = kind, host' \in Nat, base' = base
      PROVE  ClockInv'
  BY <1>2, SetTimeCounts, Counted
<1>3. CASE SyncToHost
  BY <1>0, <1>2, <1>3 DEF SyncToHost
<1>4. CASE AccurateSecond
  <2>1. last + 1 \in Nat
    BY <1>0
  <2> QED  BY <1>0, <1>2, <1>4, <2>1 DEF AccurateSecond
<1>5. CASE HostTime
  <2>1. kind' = kind /\ last' = last /\ real' = real /\ base' = base /\ host' \in Nat
    BY <1>5, BatteryAssumption DEF HostTime
  <2>2. last <= last
    BY <1>0
  <2> QED  BY <1>0, <2>1, <2>2, Counted
<1>6. CASE SetRtcMode
  <2>1. kind' = kind /\ host' = host /\ last' = host /\ real' = real
        /\ base' = [total |-> Total(real'), carry |-> real'.carry, last |-> last']
    BY <1>6 DEF SetRtcMode, Since
  <2> QED  BY <1>0, <2>1, SetAnew
<1>7. CASE SetClock
  <2>1. kind' = kind /\ host' = host /\ last' = last /\ real' \in Clocks
        /\ base' = [total |-> Total(real'), carry |-> real'.carry, last |-> last']
    BY <1>7, Settings DEF SetClock, Since
  <2> QED  BY <1>0, <2>1, SetAnew
<1>8. CASE StartStop
  <2>1. kind' = kind /\ host' = host /\ last' = last /\ real' = real /\ base' = base
    BY <1>8 DEF StartStop
  <2>2. last <= last
    BY <1>0
  <2> QED  BY <1>0, <2>1, <2>2, Counted
<1>9. CASE ResetClock
  <2>1. kind' = kind /\ host' = host /\ last' = host /\ real' \in Clocks
        /\ base' = [total |-> Total(real'), carry |-> real'.carry, last |-> last']
    BY <1>0, <1>9, Settings DEF ResetClock, Since
  <2> QED  BY <1>0, <2>1, SetAnew
<1>10. CASE SaveBattery
  <2>1. kind' = kind /\ host' = host /\ last' \in Nat /\ real' = real
        /\ base' = [total |-> Total(real'), carry |-> real'.carry, last |-> last']
    BY <1>0, <1>10 DEF SaveBattery, Since
  <2> QED  BY <1>0, <2>1, SetAnew
<1>11. CASE LoadBattery
  <2>0. kind' = kind /\ host' = host
    BY <1>11 DEF LoadBattery
  <2>1. LoadedClock \in Clocks /\ [real EXCEPT !.carry = TRUE] \in Clocks
    BY <1>0 DEF LoadedClock, Clocks, Readings
  <2>2. CASE Unusable
    <3>1. /\ last' = host /\ base' = Since(real', host)
          /\ real' = CASE kind = "MBC3" -> [real EXCEPT !.carry = TRUE]
                       [] kind = "HUC3" -> Full(-2)
                       [] OTHER -> LoadedClock
      BY <1>11, <2>2 DEF LoadBattery
    <3>2. real' \in Clocks
      BY <2>1, <3>1, Settings
    <3>3. base' = [total |-> Total(real'), carry |-> real'.carry, last |-> last']
      BY <3>1 DEF Since
    <3> QED  BY <1>0, <2>0, <3>1, <3>2, <3>3, SetAnew
  <2>3. CASE ~Unusable /\ kind = "MBC3"
    <3>1. SetTime(host) /\ base' = base
      BY <1>11, <2>3 DEF LoadBattery
    <3> QED  BY <1>0, <1>2, <2>0, <3>1
  <2>4. CASE ~Unusable /\ kind # "MBC3"
    <3>1. last' = last /\ real' = LoadedClock /\ base' = Since(LoadedClock, last)
      BY <1>11, <2>4 DEF LoadBattery
    <3>2. base' = [total |-> Total(real'), carry |-> real'.carry, last |-> last']
      BY <3>1 DEF Since
    <3> QED  BY <1>0, <2>0, <2>1, <3>1, <3>2, SetAnew
  <2> QED  BY <2>2, <2>3, <2>4
<1> QED  BY <1>1, <1>3, <1>4, <1>5, <1>6, <1>7, <1>8, <1>9, <1>10, <1>11 DEF RtcNext

(* MBC7's EEPROM sends the words that were last stored in it, and the      *)
(* clocks of MBC3, TPP1 and HuC3 have counted the time they are said to    *)
(* have taken, through leaps, stops and sessions.                          *)
THEOREM BatteryTheorem == BatterySpec => []CartridgeRemembers
<1> DEFINE Inv == EepromInv /\ ClockInv
<1>1. BatteryInit => Inv
  BY EepromStart, ClockStart DEF BatteryInit
<1>2. Inv /\ [BatteryNext]_batteryVars => Inv'
  <2> SUFFICES ASSUME EepromInv, ClockInv, [BatteryNext]_batteryVars PROVE EepromInv' /\ ClockInv'
    OBVIOUS
  <2>1. [EepromNext]_eepromVars /\ [RtcNext]_rtcVars
    BY DEF BatteryNext, batteryVars
  <2> QED  BY <2>1, EepromStep, ClockStep
<1>3. Inv => CartridgeRemembers
  BY EepromAnswers DEF CartridgeRemembers, ClockInv
<1> HIDE DEF Inv
<1> QED  BY <1>1, <1>2, <1>3, PTL DEF BatterySpec
=============================================================================
