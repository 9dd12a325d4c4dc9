----------------------------- MODULE ToolProofs -----------------------------
(***************************************************************************)
(* Proofs about the tools: the debugger stops where it was asked to, and   *)
(* takes back what it was told to, for every program, every breakpoint and *)
(* any length of the backtrace; the line editor of its console keeps the   *)
(* cursor in the window, its place in the history and the user's text, for *)
(* every width, line and history; the SDL application, whose console that  *)
(* is, keeps its games' files, for any set of games; reads find the cheats *)
(* of the list, and the search keeps what is related to the filter before, *)
(* for all cheats, hash tables and memories of any size.                   *)
(***************************************************************************)
EXTENDS Debugger, LineEditor, SdlMain, Cheats, SequenceTheorems, FiniteSetTheorems,
        WellFoundedInduction, TLAPS

-----------------------------------------------------------------------------
(* A state of the machine: its stack holds addresses of any kind. *)
Machine(x) ==
    /\ DOMAIN x = {"pc", "stack", "ime", "pending", "time"}
    /\ x.time \in Nat
    /\ \E S : x.stack \in Seq(S)

MachinesInv ==
    /\ Machine(m) /\ Machine(entered)
    /\ undo # Nothing => Machine(undo)
    /\ saved # Nothing => Machine(saved)

(* What undo goes back to is the state before the last command that is     *)
(* about the machine.                                                      *)
UndoInv == label => undo = entered

(* Where an instruction leads to in a given state. *)
NextOf(x) ==
    CASE Code[x.pc].op \in {"jump", "call"} -> Code[x.pc].to
      [] Code[x.pc].op \in {"ret", "reti"} -> Last(x.stack)
      [] OTHER -> x.pc + 1

(* No state of the machine is the mark that there is none. *)
LEMMA NoMachine == \A x : Machine(x) => x # Nothing
<1> SUFFICES ASSUME NEW x, Machine(x), x = Nothing PROVE FALSE
  OBVIOUS
<1>1. x.time = -1
  BY DEF Nothing
<1> QED BY <1>1 DEF Machine

(* Pushing and popping change the height of a stack by one. *)
LEMMA Pushed ==
    ASSUME NEW s, NEW a, \E S : s \in Seq(S)
    PROVE  /\ \E S : Append(s, a) \in Seq(S)
           /\ Len(s) \in Nat /\ Len(Append(s, a)) = Len(s) + 1
<1>1. PICK S : s \in Seq(S)
  OBVIOUS
<1>2. s \in Seq(S \union {a})
  BY <1>1, SeqMonotonic
<1>3. Append(s, a) \in Seq(S \union {a}) /\ Len(Append(s, a)) = Len(s) + 1
  BY <1>2
<1>4. Len(s) \in Nat
  BY <1>1
<1> QED BY <1>3, <1>4

(* A return from an empty stack leaves it empty. *)
LEMMA Popped ==
    ASSUME NEW s, \E S : s \in Seq(S)
    PROVE  /\ \E S : Front(s) \in Seq(S)
           /\ Len(s) \in Nat
           /\ Len(Front(s)) = IF Len(s) = 0 THEN 0 ELSE Len(s) - 1
<1>1. PICK S : s \in Seq(S)
  OBVIOUS
<1>2. Len(s) \in Nat
  BY <1>1
<1>3. CASE Len(s) = 0
  <2>1. Front(s) = << >>
    BY <1>1, <1>3 DEF Front
  <2> QED BY <2>1, <1>2, <1>3
<1>4. CASE Len(s) > 0
  <2> DEFINE n == Len(s) - 1
  <2>1. n \in Nat /\ n <= Len(s)
    BY <1>2, <1>4
  <2> HIDE DEF n
  <2>2. SubSeq(s, 1, n) \in Seq(S) /\ Len(SubSeq(s, 1, n)) = n
    BY <1>1, <2>1, SubSeqProperties
  <2>3. Front(s) = SubSeq(s, 1, n)
    BY DEF n, Front
  <2>4. n = Len(s) - 1
    BY DEF n
  <2> QED BY <2>2, <2>3, <2>4, <1>2, <1>4
<1> QED BY <1>2, <1>3, <1>4

(* An instruction: where it leads to, and what it does to the stack's      *)
(* height and, by the hooks, to the backtrace and the depth.               *)
Calls == Len(m'.stack) = Height + 1 /\ GB_debugger_call_hook(Height + 1)
Returns == Len(m'.stack) = (IF Height = 0 THEN 0 ELSE Height - 1) /\ GB_debugger_ret_hook
Stays == Len(m'.stack) = Height /\ UNCHANGED <<backtrace, depth>>

(* What one instruction, or the dispatch of an interrupt, does. *)
LEMMA Executes ==
    ASSUME Machine(m), NEW irq, Execute(irq)
    PROVE  /\ Machine(m') /\ Height \in Nat
           /\ (m.ime /\ m.pending /\ m'.pc = Vector) \/ m'.pc = NextOf(m)
           /\ Calls \/ Returns \/ Stays
<1> DEFINE op == Code[m.pc].op
           next == [m EXCEPT !.pc = NextAddress, !.time = @ + 1, !.pending = @ \/ irq]
<1>1. Height \in Nat /\ m.time + 1 \in Nat /\ \E S : m.stack \in Seq(S)
  BY Pushed DEF Machine, Height
<1>2. NextAddress = NextOf(m)
  BY DEF NextAddress, NextOf
<1>3. CASE m.ime /\ m.pending
  <2>1. m' = [m EXCEPT !.pc = Vector, !.stack = Append(@, m.pc), !.ime = FALSE,
                       !.pending = irq, !.time = @ + 1]
    BY <1>3 DEF Execute
  <2>2. GB_debugger_call_hook(Height + 1)
    BY <1>3 DEF Execute
  <2>3. /\ \E S : Append(m.stack, m.pc) \in Seq(S)
        /\ Len(Append(m.stack, m.pc)) = Len(m.stack) + 1
    BY Pushed DEF Machine
  <2>4. m'.pc = Vector /\ m'.stack = Append(m.stack, m.pc) /\ m'.time = m.time + 1
    BY <2>1 DEF Machine
  <2>5. DOMAIN m' = DOMAIN m
    BY <2>1
  <2> QED BY <2>2, <2>3, <2>4, <2>5, <1>1, <1>3 DEF Machine, Calls, Height
<1>4. CASE ~(m.ime /\ m.pending) /\ op = "call"
  <2>1. m' = [next EXCEPT !.stack = Append(@, m.pc + 1)] /\ GB_debugger_call_hook(Height + 1)
    BY <1>4 DEF Execute
  <2>2. /\ \E S : Append(m.stack, m.pc + 1) \in Seq(S)
        /\ Len(Append(m.stack, m.pc + 1)) = Len(m.stack) + 1
    BY Pushed DEF Machine
  <2>3. m'.pc = NextAddress /\ m'.stack = Append(m.stack, m.pc + 1) /\ m'.time = m.time + 1
    BY <2>1 DEF Machine
  <2>4. DOMAIN m' = DOMAIN m
    BY <2>1
  <2> QED BY <2>1, <2>2, <2>3, <2>4, <1>1, <1>2 DEF Machine, Calls, Height
<1>5. CASE ~(m.ime /\ m.pending) /\ op \in {"ret", "reti"}
  <2>1. /\ m' = [next EXCEPT !.stack = Front(@), !.ime = @ \/ op = "reti"]
        /\ GB_debugger_ret_hook
    BY <1>5 DEF Execute
  <2>2. /\ \E S : Front(m.stack) \in Seq(S)
        /\ Len(Front(m.stack)) = IF Len(m.stack) = 0 THEN 0 ELSE Len(m.stack) - 1
    BY Popped DEF Machine
  <2>3. m'.pc = NextAddress /\ m'.stack = Front(m.stack) /\ m'.time = m.time + 1
    BY <2>1 DEF Machine
  <2>4. DOMAIN m' = DOMAIN m
    BY <2>1
  <2> QED BY <2>1, <2>2, <2>3, <2>4, <1>1, <1>2 DEF Machine, Returns, Height
<1>6. CASE ~(m.ime /\ m.pending) /\ op \notin {"call", "ret", "reti"}
  <2>1. m' = next /\ UNCHANGED <<backtrace, depth>>
    BY <1>6 DEF Execute
  <2>2. m'.pc = NextAddress /\ m'.stack = m.stack /\ m'.time = m.time + 1
    BY <2>1 DEF Machine
  <2>3. DOMAIN m' = DOMAIN m
    BY <2>1
  <2> QED BY <2>1, <2>2, <2>3, <1>1, <1>2 DEF Machine, Stays, Height
<1> QED BY <1>3, <1>4, <1>5, <1>6

-----------------------------------------------------------------------------
(* What a check before an instruction does to the machine. *)
LEMMA StopsAt ==
    ASSUME Stops
    PROVE  /\ m' = m \/ (m' = saved /\ saved # Nothing)
           /\ saved' \in {saved, m, Nothing}
BY DEF Stops, JumpBreak, JumpedInto, JumpSaved, JumpNone

(* A command leaves the machine alone, resets it or takes it back. *)
LEMMA UndoStep ==
    ASSUME MachinesInv, UndoInv, [DebuggerNext]_debuggerVars
    PROVE  MachinesInv' /\ UndoInv'
<1> USE DEF MachinesInv, UndoInv
<1>1. m # Nothing /\ entered # Nothing
  BY NoMachine
<1>2. CASE GB_debugger_run
  <2>1. /\ m' = m \/ (m' = saved /\ saved # Nothing)
        /\ saved' \in {saved, m, Nothing}
    BY <1>2, StopsAt DEF GB_debugger_run
  <2>2. /\ undo' = (IF undo = Nothing THEN m ELSE undo)
        /\ UNCHANGED <<label, entered>>
    BY <1>2 DEF GB_debugger_run
  <2> QED BY <1>1, <2>1, <2>2 DEF Machine
<1>3. CASE Inactive
  BY <1>3 DEF Inactive, Machine, ghosts
<1>4. CASE GB_cpu_run
  <2>1. PICK irq \in BOOLEAN : Execute(irq)
    BY <1>4 DEF GB_cpu_run
  <2>2. Machine(m')
    BY <2>1, Executes
  <2>3. UNCHANGED <<undo, label, entered, saved>>
    BY <1>4 DEF GB_cpu_run
  <2> QED BY <2>2, <2>3 DEF Machine
<1>5. CASE Command
  <2>1. CASE \E kind \in {"continue", "next", "step", "finish"} :
                 Going(kind) /\ Commanded(TRUE) /\ AboutMachine
    <3>1. m' = m /\ saved' = saved /\ undo' = m /\ label' = TRUE /\ entered' = m
      BY <2>1 DEF Going, Commanded, CommandedOn, Kept, AboutMachine
    <3> QED BY <3>1 DEF Machine
  <2>2. CASE /\ m' = m /\ saved' = saved
             /\ Commanded(FALSE) /\ AboutDebugger
    <3>1. undo' = undo /\ label' = label /\ entered' = entered
      BY <2>2 DEF Commanded, CommandedOn, Kept, AboutDebugger
    <3> QED BY <2>2, <3>1 DEF Machine
  <2>3. CASE m.time < MaxTime /\ ResetCommand /\ Commanded(FALSE) /\ AboutMachine
    <3>1. /\ m' = [pc |-> 0, stack |-> <<>>, ime |-> TRUE, pending |-> FALSE,
                   time |-> m.time + 1]
          /\ saved' = Nothing /\ entered' = m
      BY <2>3 DEF ResetCommand, AboutMachine
    <3>2. m'.time = m.time + 1 /\ m'.time # m.time
      BY <3>1 DEF Machine
    <3>3. undo' = m /\ label' = TRUE
      BY <2>3, <3>2 DEF Commanded, CommandedOn, Kept
    <3>4. Machine(m')
      <4>1. << >> \in Seq({})
        OBVIOUS
      <4>2. DOMAIN m' = {"pc", "stack", "ime", "pending", "time"} /\ m'.stack = << >>
        BY <3>1
      <4> QED BY <3>2, <4>1, <4>2 DEF Machine
    <3> QED BY <3>1, <3>3, <3>4 DEF Machine
  <2>4. CASE Undo /\ CommandedOn(~stopped, label /\ ~stopped) /\ AboutMachine
    <3>1. m' = (IF stopped /\ label THEN undo ELSE m) /\ saved' = saved /\ entered' = m
      BY <2>4 DEF Undo, AboutMachine
    <3>2. IF ~stopped \/ m' # m THEN undo' = m /\ label' = TRUE
          ELSE label' = (label /\ ~stopped) /\ undo' = undo
      BY <2>4 DEF CommandedOn, Kept
    <3>3. label => Machine(undo)
      OBVIOUS
    <3> QED BY <3>1, <3>2, <3>3 DEF Machine
  <2> QED BY <1>5, <2>1, <2>2, <2>3, <2>4 DEF Command, Interrupt, Breakpoint, Delete
<1>6. CASE UNCHANGED debuggerVars
  BY <1>6 DEF debuggerVars, ghosts, Machine
<1> QED BY <1>2, <1>3, <1>4, <1>5, <1>6 DEF DebuggerNext

(* The machine and the undo state a session begins with. *)
LEMMA UndoInitially == DebuggerInit => MachinesInv /\ UndoInv
<1>1. << >> \in Seq({})
  OBVIOUS
<1> QED BY <1>1 DEF DebuggerInit, MachinesInv, UndoInv, Machine

(* Undo takes the machine back to where it was before the last command     *)
(* that ran an instruction or changed the machine (module Debugger).       *)
THEOREM UndoTakesBack == DebuggerSpec => UndoReverts
<1>1. MachinesInv /\ UndoInv /\ [DebuggerNext]_debuggerVars => MachinesInv' /\ UndoInv'
  BY UndoStep
<1>2. ASSUME MachinesInv, UndoInv, [DebuggerNext]_debuggerVars
      PROVE  [phase = "prompt" /\ commands' # commands /\ Undo /\ m' # m
                  => m' = target']_debuggerVars
  <2> SUFFICES ASSUME DebuggerNext, phase = "prompt", commands' # commands, Undo, m' # m
               PROVE  m' = target'
    BY <1>2
  <2>1. label /\ m' = undo /\ m' = entered /\ m # entered
    BY <1>2 DEF Undo, UndoInv
  <2>2. commands' # commands => Command
    BY DEF DebuggerNext, GB_debugger_run, Inactive, GB_cpu_run, ghosts
  <2>3. AboutMachine
    <3>1. ~(\E kind \in {"continue", "next", "step", "finish"} : Going(kind))
      BY DEF Going
    <3>2. ~Interrupt /\ \A first, last, jump : ~Breakpoint(first, last, jump)
      BY DEF Interrupt, Breakpoint
    <3>3. \A id : ~Delete(id)
      BY DEF Delete
    <3> QED BY <2>2, <3>1, <3>2, <3>3 DEF Command
  <2> QED BY <2>1, <2>3 DEF AboutMachine
<1> QED BY UndoInitially, <1>1, <1>2, PTL DEF DebuggerSpec, UndoReverts

-----------------------------------------------------------------------------
(* The debugger's switches: the prompt has ended what was under way, a     *)
(* reason to look is a reason to be active, and who waits for next or      *)
(* finish runs.                                                            *)
Switches ==
    /\ phase \in {"check", "prompt", "cpu"}
    /\ {stopped, debug_next, debug_fin, debug_active} \subseteq BOOLEAN
    /\ why \in {"asked", "jump"} => phase = "prompt"
    /\ phase = "prompt" => stopped /\ ~debug_next /\ ~debug_fin
    /\ stopped \/ debug_next \/ debug_fin \/ breakpoints # <<>> => debug_active
    /\ asked # Quiet =>
           asked \in [kind : {"next", "finish"}, height : Nat, ran : BOOLEAN, known : BOOLEAN]
    /\ phase = "cpu" /\ asked # Quiet => ~stopped

(* Every step keeps the debugger's switches as they belong together. *)
LEMMA SwitchesStep ==
    ASSUME MachinesInv, Switches, [DebuggerNext]_debuggerVars
    PROVE  Switches'
<1> USE DEF Switches
<1>1. CASE GB_debugger_run
  <2>1. /\ phase' = (IF stopped' THEN "prompt" ELSE "cpu")
        /\ debug_next' = (debug_next /\ ~stopped') /\ debug_fin' = (debug_fin /\ ~stopped')
        /\ asked' = asked
        /\ IF stopped' THEN debug_active' = TRUE
           ELSE debug_active' = (stopped' \/ debug_fin' \/ debug_next' \/ breakpoints' # <<>>)
    BY <1>1 DEF GB_debugger_run, update_debug_active
  <2>2. /\ stopped' \in BOOLEAN
        /\ ~stopped' => why' = why
    BY <1>1 DEF GB_debugger_run, Stops, JumpBreak, JumpedInto, JumpSaved, JumpNone
  <2>3. phase = "check"
    BY <1>1 DEF GB_debugger_run
  <2> QED BY <2>1, <2>2, <2>3
<1>2. CASE Inactive
  BY <1>2 DEF Inactive, ghosts, control, breaks
<1>3. CASE GB_cpu_run
  <2>1. PICK watched \in BOOLEAN :
          /\ stopped' = (stopped \/ watched)
          /\ why' = IF watched THEN "watch" ELSE why
          /\ UNCHANGED <<debug_next, debug_fin, breaks>>
          /\ IF watched /\ ~stopped THEN update_debug_active ELSE UNCHANGED debug_active
    BY <1>3 DEF GB_cpu_run
  <2>2. PICK irq \in BOOLEAN : Execute(irq)
    BY <1>3 DEF GB_cpu_run
  <2>3. phase = "cpu" /\ phase' = "check"
    BY <1>3 DEF GB_cpu_run
  <2>4. asked' # Quiet =>
           asked' \in [kind : {"next", "finish"}, height : Nat, ran : BOOLEAN, known : BOOLEAN]
    <3>1. CASE asked = Quiet
      BY <1>3, <3>1 DEF GB_cpu_run
    <3>2. CASE asked # Quiet
      <4>1. asked' = [asked EXCEPT !.ran = TRUE, !.known = @ /\ Len(m'.stack) <= MaxFrames]
        BY <1>3, <3>2 DEF GB_cpu_run
      <4>2. (asked.known /\ Len(m'.stack) <= MaxFrames) \in BOOLEAN
        OBVIOUS
      <4> QED BY <3>2, <4>1, <4>2
    <3> QED BY <3>1, <3>2
  <2> QED BY <2>1, <2>3, <2>4 DEF update_debug_active, breaks
<1>4. CASE Command
  <2>1. CASE \E kind \in {"continue", "next", "step", "finish"} :
                 Going(kind) /\ Commanded(TRUE) /\ AboutMachine
    <3>1. PICK kind \in {"continue", "next", "step", "finish"} : Going(kind) /\ Commanded(TRUE)
      BY <2>1
    <3>2. Height \in Nat
      BY Pushed DEF MachinesInv, Machine, Height
    <3>3. /\ why' = "user" /\ update_debug_active /\ UNCHANGED breaks
          /\ \/ phase = "prompt" /\ phase' = "cpu"
             \/ phase = "check" /\ phase' = "check"
      BY <3>1 DEF Commanded, CommandedOn, Going
    <3>4. /\ stopped' \in BOOLEAN /\ debug_next' \in BOOLEAN /\ debug_fin' \in BOOLEAN
          /\ phase' = "cpu" /\ asked' # Quiet => ~stopped'
      BY <3>1, <3>3 DEF Going, control
    <3>5. asked' # Quiet =>
           asked' \in [kind : {"next", "finish"}, height : Nat, ran : BOOLEAN, known : BOOLEAN]
      <4> DEFINE known == phase = "prompt" /\ backtrace = Frames
      <4>1. known \in BOOLEAN
        OBVIOUS
      <4>2. asked' = asked \/ asked' = Quiet
            \/ (kind \in {"next", "finish"}
                  /\ asked' = [kind |-> kind, height |-> Height, ran |-> FALSE, known |-> known])
        BY <3>1 DEF Going
      <4> HIDE DEF known
      <4>3. CASE /\ kind \in {"next", "finish"}
                 /\ asked' = [kind |-> kind, height |-> Height, ran |-> FALSE, known |-> known]
        BY <3>2, <4>1, <4>3
      <4> QED BY <4>2, <4>3
    <3> QED BY <3>3, <3>4, <3>5 DEF update_debug_active, breaks
  <2>2. CASE Interrupt /\ ~stopped /\ Commanded(FALSE)
    BY <2>2 DEF Interrupt, Commanded, CommandedOn, update_debug_active, breaks
  <2>3. CASE UNCHANGED <<control, asked>> /\ Commanded(FALSE)
    BY <2>3 DEF control, Commanded, CommandedOn, update_debug_active
  <2>4. CASE ResetCommand /\ Commanded(FALSE)
    <3>1. asked' # Quiet =>
           asked' \in [kind : {"next", "finish"}, height : Nat, ran : BOOLEAN, known : BOOLEAN]
      BY <2>4 DEF ResetCommand
    <3> QED BY <2>4, <3>1 DEF ResetCommand, control, breaks, Commanded, CommandedOn,
                             update_debug_active
  <2>5. CASE Undo /\ CommandedOn(~stopped, label /\ ~stopped)
    BY <2>5 DEF Undo, control, breaks, CommandedOn, update_debug_active
  <2> QED BY <1>4, <2>1, <2>2, <2>3, <2>4, <2>5 DEF Command, Breakpoint, Delete
<1>5. CASE UNCHANGED debuggerVars
  BY <1>5 DEF debuggerVars, control, breaks, ghosts
<1> QED BY <1>1, <1>2, <1>3, <1>4, <1>5 DEF DebuggerNext

-----------------------------------------------------------------------------
(* Breakpoints: has_jump_to_breakpoints knows of every one that there is.  *)
BreakSet == [id : Nat, first : Spots, last : Spots, jump : BOOLEAN]

BreaksInv ==
    /\ breakpoints \in Seq(BreakSet) /\ hasJump \in BOOLEAN
    /\ \A i \in DOMAIN breakpoints : breakpoints[i].jump => hasJump

(* Deleting an element keeps the others. *)
LEMMA Removed ==
    ASSUME NEW S, NEW s \in Seq(S), NEW i \in DOMAIN s
    PROVE  /\ RemoveAt(s, i) \in Seq(S)
           /\ \A k \in DOMAIN RemoveAt(s, i) : \E j \in DOMAIN s \ {i} : RemoveAt(s, i)[k] = s[j]
<1> DEFINE front == SubSeq(s, 1, i - 1)
           back == SubSeq(s, i + 1, Len(s))
<1>1. Len(s) \in Nat /\ i \in 1 .. Len(s) /\ DOMAIN s = 1 .. Len(s)
  OBVIOUS
<1>2. /\ front \in Seq(S) /\ Len(front) = i - 1
      /\ \A k \in 1 .. i - 1 : front[k] = s[k]
  <2>1. 1 \in Int /\ i - 1 \in Int /\ \A k \in 1 .. i - 1 : s[k] \in S
    BY <1>1
  <2>2. /\ front \in Seq(S)
        /\ Len(front) = IF 1 <= i - 1 THEN i - 1 - 1 + 1 ELSE 0
        /\ \A k \in 1 .. i - 1 - 1 + 1 : front[k] = s[1 + k - 1]
    BY <2>1, SubSeqProperties
  <2> HIDE DEF front
  <2> QED BY <2>2, <1>1
<1>3. /\ back \in Seq(S) /\ Len(back) = Len(s) - i
      /\ \A k \in 1 .. Len(s) - i : back[k] = s[i + k]
  <2>1. i + 1 \in Int /\ Len(s) \in Int /\ \A k \in i + 1 .. Len(s) : s[k] \in S
    BY <1>1
  <2>2. /\ back \in Seq(S)
        /\ Len(back) = IF i + 1 <= Len(s) THEN Len(s) - (i + 1) + 1 ELSE 0
        /\ \A k \in 1 .. Len(s) - (i + 1) + 1 : back[k] = s[i + 1 + k - 1]
    BY <2>1, SubSeqProperties
  <2> HIDE DEF back
  <2>3. Len(s) - (i + 1) + 1 = Len(s) - i /\ Len(back) = Len(s) - i
    BY <2>2, <1>1
  <2>4. ASSUME NEW k \in 1 .. Len(s) - i PROVE back[k] = s[i + k]
    <3>1. i + 1 + k - 1 = i + k
      BY <1>1
    <3> QED BY <2>2, <2>3, <3>1
  <2> QED BY <2>2, <2>3, <2>4
<1> HIDE DEF front, back
<1>4. RemoveAt(s, i) = front \o back
  BY DEF RemoveAt, front, back
<1>5. /\ front \o back \in Seq(S) /\ Len(front \o back) = Len(s) - 1
      /\ \A k \in 1 .. Len(s) - 1 :
             (front \o back)[k] = IF k <= i - 1 THEN front[k] ELSE back[k - (i - 1)]
  <2>1. i - 1 + (Len(s) - i) = Len(s) - 1
    BY <1>1
  <2> DEFINE both == front \o back
  <2>2. /\ both \in Seq(S) /\ Len(both) = Len(front) + Len(back)
        /\ \A k \in 1 .. Len(front) + Len(back) :
               both[k] = IF k <= Len(front) THEN front[k] ELSE back[k - Len(front)]
    BY <1>2, <1>3, ConcatProperties
  <2>3. Len(front) = i - 1 /\ Len(back) = Len(s) - i
    BY <1>2, <1>3
  <2> HIDE DEF both
  <2>4. /\ both \in Seq(S) /\ Len(both) = Len(s) - 1
        /\ \A k \in 1 .. Len(s) - 1 :
               both[k] = IF k <= i - 1 THEN front[k] ELSE back[k - (i - 1)]
    BY <2>1, <2>2, <2>3
  <2> QED BY <2>4 DEF both
<1>6. \A k \in 1 .. Len(s) - 1 : \E j \in DOMAIN s \ {i} : (front \o back)[k] = s[j]
  <2> SUFFICES ASSUME NEW k \in 1 .. Len(s) - 1
               PROVE  \E j \in DOMAIN s \ {i} : (front \o back)[k] = s[j]
    OBVIOUS
  <2>1. CASE k <= i - 1
    <3>1. k \in 1 .. i - 1 /\ k \in DOMAIN s \ {i}
      BY <1>1, <2>1
    <3>2. (front \o back)[k] = s[k]
      BY <1>2, <1>5, <2>1, <3>1
    <3> QED BY <3>1, <3>2
  <2>2. CASE ~(k <= i - 1)
    <3> DEFINE l == k - (i - 1)
    <3>1. l \in 1 .. Len(s) - i /\ i + l = k + 1 /\ k + 1 \in DOMAIN s \ {i}
      BY <1>1, <2>2
    <3>2. (front \o back)[k] = back[l]
      BY <1>5, <2>2
    <3> HIDE DEF l
    <3>3. back[l] = s[k + 1]
      BY <1>3, <3>1
    <3> QED BY <3>1, <3>2, <3>3
  <2> QED BY <2>1, <2>2
<1> DEFINE both == front \o back
<1>7. DOMAIN both = 1 .. Len(both)
  BY <1>5
<1>8. Len(both) = Len(s) - 1 /\ both \in Seq(S)
  BY <1>5
<1>9. \A k \in 1 .. Len(s) - 1 : \E j \in DOMAIN s \ {i} : both[k] = s[j]
  BY <1>6
<1> HIDE DEF both
<1>10. RemoveAt(s, i) = both
  BY <1>4 DEF both
<1> QED BY <1>7, <1>8, <1>9, <1>10

(* Adding and deleting breakpoints keep has_jump_to_breakpoints. *)
LEMMA BreaksStep ==
    ASSUME BreaksInv, [DebuggerNext]_debuggerVars
    PROVE  BreaksInv'
<1> USE DEF BreaksInv
<1>1. CASE UNCHANGED breaks
  BY <1>1 DEF breaks
<1>2. CASE \E first, last \in Spots, jump \in BOOLEAN : Breakpoint(first, last, jump)
  <2>1. PICK first \in Spots, last \in Spots, jump \in BOOLEAN : Breakpoint(first, last, jump)
    BY <1>2
  <2> DEFINE new == [id |-> NewId, first |-> first, last |-> last, jump |-> jump]
  <2>2. breakpoints' = Append(breakpoints, new) /\ hasJump' = (hasJump \/ jump)
    BY <2>1 DEF Breakpoint
  <2>3. NewId \in Nat
    <3>1. CASE breakpoints = << >>
      BY <3>1 DEF NewId
    <3>2. CASE breakpoints # << >>
      <4>1. Len(breakpoints) \in Nat /\ Len(breakpoints) > 0
        BY <3>2
      <4>2. breakpoints[Len(breakpoints)] \in BreakSet
        BY <4>1
      <4> QED BY <3>2, <4>2 DEF NewId, Last, BreakSet
    <3> QED BY <3>1, <3>2
  <2>4. new \in BreakSet /\ new.jump = jump
    BY <2>3 DEF BreakSet
  <2> HIDE DEF new
  <2>5. breakpoints' \in Seq(BreakSet)
    BY <2>2, <2>4
  <2>6. \A i \in DOMAIN breakpoints' : breakpoints'[i].jump => hasJump'
    <3> SUFFICES ASSUME NEW i \in DOMAIN breakpoints', breakpoints'[i].jump
                 PROVE  hasJump'
      OBVIOUS
    <3>1. i \in 1 .. Len(breakpoints) + 1 /\ DOMAIN breakpoints = 1 .. Len(breakpoints)
      BY <2>2, <2>4
    <3>2. CASE i = Len(breakpoints) + 1
      BY <3>2, <2>2, <2>4
    <3>3. CASE i # Len(breakpoints) + 1
      <4>1. i \in DOMAIN breakpoints /\ breakpoints'[i] = breakpoints[i]
        BY <3>1, <3>3, <2>2, <2>4
      <4> QED BY <4>1, <2>2
    <3> QED BY <3>2, <3>3
  <2> QED BY <2>2, <2>5, <2>6
<1>3. CASE \E id \in 1 .. NewId : Delete(id)
  <2>1. PICK i \in DOMAIN breakpoints :
          /\ breakpoints' = RemoveAt(breakpoints, i)
          /\ hasJump' = IF breakpoints[i].jump
                        THEN \E j \in DOMAIN breakpoints \ {i} : breakpoints[j].jump
                        ELSE hasJump
    BY <1>3 DEF Delete
  <2>2. /\ breakpoints' \in Seq(BreakSet)
        /\ \A k \in DOMAIN breakpoints' : \E j \in DOMAIN breakpoints \ {i} :
               breakpoints'[k] = breakpoints[j]
    BY <2>1, Removed
  <2>3. hasJump' \in BOOLEAN
    BY <2>1
  <2>4. \A k \in DOMAIN breakpoints' : breakpoints'[k].jump => hasJump'
    BY <2>1, <2>2
  <2> QED BY <2>2, <2>3, <2>4
<1> QED BY <1>1, <1>2, <1>3
        DEF DebuggerNext, GB_debugger_run, Inactive, GB_cpu_run, Command, Going, Interrupt,
            ResetCommand, Undo, debuggerVars

-----------------------------------------------------------------------------
(* A jump-to breakpoint ahead of the next instruction. *)
Ahead ==
    \/ should_break(NextOf(m), TRUE)
    \/ m.ime /\ m.pending /\ should_break(Vector, TRUE)

(* A jump to a breakpoint that could not be foreseen has been saved before *)
(* it, and what was saved since the prompt is the machine before the last  *)
(* instruction.                                                            *)
JumpInv ==
    /\ phase = "cpu" /\ arrival # "given" => saved # Nothing \/ ~Ahead
    /\ phase = "check" /\ arrival = "itself" => saved # Nothing \/ ~should_break(m.pc, TRUE)
    /\ phase = "cpu" /\ arrival = "itself" => ~should_break(m.pc, TRUE)
    /\ since_prompt /\ saved # Nothing =>
          /\ phase # "prompt" => breakpoints # <<>>
          /\ phase = "cpu" => saved = m
          /\ phase = "check" => (saved.ime /\ saved.pending) \/ m.pc = NextOf(saved)
    /\ phase = "prompt" /\ why = "jump" =>
          (m.ime /\ m.pending) \/ should_break(NextOf(m), TRUE)

(* Without jump-to breakpoints nothing is a jump to one. *)
LEMMA NoBreaks ==
    ASSUME breakpoints = <<>> \/ (BreaksInv /\ ~hasJump)
    PROVE  \A a : ~should_break(a, TRUE)
BY DEF should_break, BreaksInv

(* A command begins anew. *)
LEMMA JumpCommand ==
    ASSUME Switches, Command
    PROVE  JumpInv'
<1>1. why' = "user" /\ since_prompt' = FALSE
  BY DEF Command, Commanded, CommandedOn
<1>2. \/ phase = "prompt" /\ phase' \in {"cpu", "prompt"} /\ arrival' = "given"
      \/ phase = "check" /\ phase' = "check" /\ arrival' = "after"
  BY DEF Command, Commanded, CommandedOn
<1> QED BY <1>1, <1>2 DEF JumpInv

(* A check stops before a jump to a breakpoint, or lets go on what is no jump. *)
LEMMA JumpCheck ==
    ASSUME MachinesInv, Switches, BreaksInv, JumpInv, GB_debugger_run
    PROVE  JumpInv'
<1>1. /\ phase = "check" /\ phase' = (IF stopped' THEN "prompt" ELSE "cpu")
      /\ UNCHANGED <<breakpoints, hasJump, arrival>> /\ Stops
  BY DEF GB_debugger_run, breaks
<1>2. m # Nothing
  BY NoMachine DEF MachinesInv
<1>3. ASSUME NEW a PROVE should_break(a, TRUE)' <=> should_break(a, TRUE)
  BY <1>1 DEF should_break
<1>4. CASE stopped'
  <2>1. phase' = "prompt"
    BY <1>1, <1>4
  <2>2. (why' = "jump") => (m'.ime /\ m'.pending) \/ should_break(NextOf(m'), TRUE)
    <3>1. CASE JumpBreak
      <4>1. m' = m /\ test_jump_to_breakpoints = "break"
        BY <3>1 DEF JumpBreak
      <4>2. (m.ime /\ m.pending) \/ should_break(NextAddress, TRUE)
        BY <4>1 DEF test_jump_to_breakpoints
      <4> QED BY <4>1, <4>2 DEF NextAddress, NextOf
    <3>2. CASE JumpedInto
      <4>1. m' = saved /\ saved # Nothing /\ should_break(m.pc, TRUE)
            /\ why' = IF since_prompt THEN "jump" ELSE "late"
        BY <3>2 DEF JumpedInto
      <4> QED BY <1>1, <4>1 DEF JumpInv
    <3>3. CASE why' # "jump"
      BY <3>3
    <3>4. why # "jump"
      BY <1>1 DEF Switches
    <3> QED BY <1>1, <3>1, <3>2, <3>3, <3>4 DEF Stops, JumpSaved, JumpNone
  <2>3. should_break(NextOf(m), TRUE)' <=> should_break(NextOf(m'), TRUE)
    BY <1>1 DEF should_break, NextOf
  <2> QED BY <2>1, <2>2, <2>3 DEF JumpInv
<1>5. CASE ~stopped'
  <2>1. phase' = "cpu" /\ m' = m
    BY <1>1, <1>5 DEF Stops, JumpBreak, JumpedInto, JumpSaved, JumpNone, Switches
  <2>2. (Ahead' <=> Ahead) /\ (should_break(m.pc, TRUE)' <=> should_break(m.pc, TRUE))
    BY <1>1, <2>1 DEF Ahead, should_break, NextOf
  <2>3. CASE breakpoints = <<>> /\ UNCHANGED <<saved, since_prompt>>
    <3>1. ~(since_prompt /\ saved # Nothing)
      BY <1>1, <2>3 DEF JumpInv
    <3>2. ~Ahead /\ ~should_break(m.pc, TRUE)
      BY <2>3, NoBreaks DEF Ahead
    <3> QED BY <2>1, <2>2, <2>3, <3>1, <3>2 DEF JumpInv
  <2>4. CASE JumpSaved /\ breakpoints # <<>>
    <3>1. saved' = m /\ ~(saved # Nothing /\ should_break(m.pc, TRUE))
      BY <2>4 DEF JumpSaved
    <3>2. arrival = "itself" => ~should_break(m.pc, TRUE)
      BY <1>1, <3>1 DEF JumpInv
    <3> QED BY <1>1, <1>2, <2>1, <2>2, <2>4, <3>1, <3>2 DEF JumpInv
  <2>5. CASE JumpNone
    <3>1. saved' = Nothing /\ ~(saved # Nothing /\ should_break(m.pc, TRUE))
      BY <2>5 DEF JumpNone
    <3>2. arrival = "itself" => ~should_break(m.pc, TRUE)
      BY <1>1, <3>1 DEF JumpInv
    <3>3. ~Ahead
      <4>1. test_jump_to_breakpoints = "none"
        BY <2>5 DEF JumpNone
      <4>2. NextAddress = NextOf(m)
        BY DEF NextAddress, NextOf
      <4>3. CASE ~hasJump
        BY <4>3, NoBreaks DEF Ahead
      <4>4. CASE hasJump
        BY <4>1, <4>2, <4>4 DEF test_jump_to_breakpoints, Ahead
      <4> QED BY <4>3, <4>4
    <3> QED BY <1>1, <2>1, <2>2, <3>1, <3>2, <3>3 DEF JumpInv
  <2> QED BY <1>1, <1>5, <2>3, <2>4, <2>5 DEF Stops, JumpBreak, JumpedInto
<1> QED BY <1>4, <1>5

(* An instruction goes where the check before it expected, or to a handler. *)
LEMMA JumpRun ==
    ASSUME MachinesInv, JumpInv, GB_cpu_run
    PROVE  JumpInv'
<1>1. PICK irq \in BOOLEAN : Execute(irq)
  BY DEF GB_cpu_run
<1>2. (m.ime /\ m.pending /\ m'.pc = Vector) \/ m'.pc = NextOf(m)
  BY <1>1, Executes DEF MachinesInv
<1>3. /\ phase = "cpu" /\ phase' = "check" /\ UNCHANGED <<breakpoints, saved, since_prompt>>
      /\ arrival' = IF arrival = "given" THEN "after" ELSE "itself"
  BY DEF GB_cpu_run, breaks
<1>4. should_break(m.pc, TRUE)' <=> should_break(m'.pc, TRUE)
  BY <1>3 DEF should_break
<1>5. arrival' = "itself" => saved' # Nothing \/ ~should_break(m.pc, TRUE)'
  BY <1>2, <1>3, <1>4 DEF JumpInv, Ahead, Nothing
<1>6. since_prompt' /\ saved' # Nothing =>
          /\ breakpoints' # <<>>
          /\ (saved'.ime /\ saved'.pending) \/ m'.pc = NextOf(saved')
  BY <1>2, <1>3 DEF JumpInv, Nothing
<1>7. NextOf(saved') = NextOf(saved)'
  BY DEF NextOf
<1> QED BY <1>3, <1>5, <1>6, <1>7 DEF JumpInv, Nothing

(* Every step of the debugger keeps JumpInv. *)
LEMMA JumpStep ==
    ASSUME MachinesInv, Switches, BreaksInv, JumpInv, [DebuggerNext]_debuggerVars
    PROVE  JumpInv'
<1>1. CASE Inactive
  <2>1. phase = "check" /\ breakpoints = <<>>
    BY <1>1 DEF Inactive, Switches
  <2>2. phase' = "cpu" /\ UNCHANGED <<m, saved, since_prompt, breakpoints>>
    BY <1>1 DEF Inactive, ghosts, breaks
  <2>3. ~(since_prompt /\ saved # Nothing)
    BY <2>1 DEF JumpInv
  <2>4. ~Ahead' /\ ~should_break(m.pc, TRUE)'
    BY <2>1, <2>2 DEF Ahead, should_break
  <2> QED BY <2>2, <2>3, <2>4 DEF JumpInv, Nothing
<1>2. CASE UNCHANGED debuggerVars
  BY <1>2 DEF debuggerVars, breaks, ghosts, JumpInv, Ahead, should_break, NextOf, Nothing
<1> QED BY <1>1, <1>2, JumpCommand, JumpCheck, JumpRun DEF DebuggerNext

-----------------------------------------------------------------------------
(* While next or finish is under way, and the backtrace has had room, it   *)
(* has a frame for every call, and the depth is the stack's height above   *)
(* that at which the command was given.                                    *)
SyncInv ==
    asked # Quiet /\ asked.known /\ ~stopped /\ (debug_next \/ debug_fin) =>
        /\ backtrace = Frames /\ depth = Height - asked.height
        /\ debug_next <=> asked.kind = "next"
        /\ debug_fin <=> asked.kind = "finish"

Numbered(n) == [i \in 1 .. n |-> i]

(* The last of the numbers up to n is n. *)
LEMMA LastOfInterval == \A n \in Nat : Max(0 .. n) = n
<1> SUFFICES ASSUME NEW n \in Nat PROVE Max(0 .. n) = n
  OBVIOUS
<1>1. n \in 0 .. n /\ \A y \in 0 .. n : n >= y
  OBVIOUS
<1>2. Max(0 .. n) \in 0 .. n /\ \A y \in 0 .. n : Max(0 .. n) >= y
  BY <1>1 DEF Max
<1>3. Max(0 .. n) >= n /\ Max(0 .. n) <= n /\ Max(0 .. n) \in Int
  BY <1>1, <1>2
<1> QED BY <1>3

(* What is left of a backtrace of frames 1, 2, 3... below a stack pointer. *)
LEMMA BelowNumbered ==
    ASSUME NEW n \in Nat, backtrace = Numbered(n), NEW k \in Nat, k <= n
    PROVE  Below(k + 1) = Numbered(k)
<1>1. DOMAIN backtrace = 1 .. n
  BY DEF Numbered
<1>2. {0} \cup {i \in DOMAIN backtrace : backtrace[i] < k + 1} = 0 .. k
  BY <1>1 DEF Numbered
<1>3. Max({0} \cup {i \in DOMAIN backtrace : backtrace[i] < k + 1}) = k
  BY <1>2, LastOfInterval
<1>4. Below(k + 1) = SubSeq(backtrace, 1, k)
  BY <1>3 DEF Below
<1>5. \A i \in 1 .. k : backtrace[i] = i
  BY DEF Numbered
<1>6. backtrace \in Seq(Nat) /\ Len(backtrace) = n
  BY <1>1 DEF Numbered
<1>7. /\ SubSeq(backtrace, 1, k) \in Seq(Nat) /\ Len(SubSeq(backtrace, 1, k)) = k
      /\ \A i \in 1 .. k : SubSeq(backtrace, 1, k)[i] = backtrace[i]
  BY <1>6
<1> DEFINE below == SubSeq(backtrace, 1, k)
<1> HIDE DEF below
<1>8. below \in Seq(Nat) /\ Len(below) = k /\ \A i \in 1 .. k : below[i] = i
  BY <1>5, <1>7 DEF below
<1>9. below = Numbered(k)
  BY <1>8 DEF Numbered
<1> QED BY <1>4, <1>9 DEF below

(* The hooks on calls and returns keep the backtrace and the depth right. *)
LEMMA Hooked ==
    ASSUME Height \in Nat, backtrace = Frames, depth \in Int, Len(m'.stack) <= MaxFrames,
           Calls \/ Returns \/ Stays
    PROVE  backtrace' = Frames' /\ depth' = depth + (Len(m'.stack) - Height)
<1>1. backtrace = Numbered(Height) /\ Len(backtrace) = Height
  BY DEF Frames, Numbered
<1>2. Frames' = Numbered(Len(m'.stack))
  BY DEF Frames, Numbered, Height
<1>3. CASE Calls
  <2>1. Len(m'.stack) = Height + 1 /\ GB_debugger_call_hook(Height + 1)
    BY <1>3 DEF Calls
  <2>2. Below(Height + 1) = Numbered(Height)
    BY <1>1, BelowNumbered
  <2>3. Len(backtrace) < MaxFrames
    BY <1>1, <2>1, BacktraceAssumption
  <2>4. backtrace' = Append(Numbered(Height), Height + 1)
        /\ depth' = depth + Len(backtrace') - Len(backtrace)
    BY <2>1, <2>2, <2>3 DEF GB_debugger_call_hook
  <2>5. Append(Numbered(Height), Height + 1) = Numbered(Height + 1)
    BY DEF Numbered
  <2>6. Len(backtrace') = Height + 1
    BY <2>4, <2>5 DEF Numbered
  <2>7. depth' = depth + 1
    BY <1>1, <2>4, <2>6
  <2> QED BY <1>2, <2>1, <2>4, <2>5, <2>7
<1>4. CASE Returns
  <2>1. /\ Len(m'.stack) = IF Height = 0 THEN 0 ELSE Height - 1
        /\ backtrace' = Below(Height) /\ depth' = depth + Len(backtrace') - Len(backtrace)
    BY <1>4 DEF Returns, GB_debugger_ret_hook
  <2>2. CASE Height = 0
    <3>1. backtrace = << >>
      BY <1>1, <2>2 DEF Numbered
    <3>2. {0} \cup {i \in DOMAIN backtrace : backtrace[i] < Height} = 0 .. 0
      BY <3>1
    <3>3. Below(Height) = SubSeq(backtrace, 1, 0)
      BY <3>2, LastOfInterval DEF Below
    <3>4. Below(Height) = << >> /\ Numbered(0) = << >>
      BY <3>1, <3>3 DEF Numbered
    <3>5. Len(backtrace') = 0 /\ Len(backtrace) = 0
      BY <2>1, <3>1, <3>4
    <3> QED BY <1>2, <2>1, <2>2, <3>4, <3>5
  <2>3. CASE Height # 0
    <3> DEFINE k == Height - 1
    <3>1. k \in Nat /\ k <= Height /\ k + 1 = Height
      BY <2>3
    <3> HIDE DEF k
    <3>2. Below(Height) = Numbered(k)
      <4>1. Below(k + 1) = Numbered(k)
        BY <1>1, <3>1, BelowNumbered
      <4> QED BY <3>1, <4>1
    <3>3. Len(backtrace') = k /\ Len(m'.stack) = k
      BY <2>1, <2>3, <3>1, <3>2 DEF Numbered, k
    <3>4. depth' = depth + (k - Height)
      BY <1>1, <2>1, <3>1, <3>3
    <3> QED BY <1>2, <2>1, <3>2, <3>3, <3>4
  <2> QED BY <2>2, <2>3
<1>5. CASE Stays
  BY <1>1, <1>2, <1>5 DEF Stays, Frames, Height, Numbered
<1> QED BY <1>3, <1>4, <1>5

(* Where next or finish has run to its end.                                *)
LEMMA SyncCheck ==
    ASSUME MachinesInv, Switches, SyncInv, GB_debugger_run
    PROVE  SyncInv' /\ StopsWhereAsked'
<1>1. /\ phase = "check" /\ phase' = (IF stopped' THEN "prompt" ELSE "cpu") /\ Stops
      /\ debug_next' = (debug_next /\ ~stopped') /\ debug_fin' = (debug_fin /\ ~stopped')
      /\ UNCHANGED <<depth, backtrace, asked>>
  BY DEF GB_debugger_run
<1>2. Height \in Nat
  BY Pushed DEF MachinesInv, Machine, Height
<1>3. asked # Quiet => asked.kind \in {"next", "finish"} /\ asked.height \in Nat
  BY DEF Switches
<1>4. CASE ~stopped'
  <2>1. m' = m /\ ~stopped /\ ~Reached
    BY <1>1, <1>4 DEF Stops, JumpBreak, JumpedInto, JumpSaved, JumpNone, Switches
  <2>2. Height' = Height /\ Frames' = Frames
    BY <2>1 DEF Height, Frames
  <2>3. SyncInv'
    BY <1>1, <1>4, <2>1, <2>2 DEF SyncInv
  <2>4. ASSUME asked # Quiet, asked.known, debug_next \/ debug_fin
        PROVE  ~(IF asked.kind = "next" THEN Height <= asked.height ELSE Height < asked.height)
    <3>1. /\ depth = Height - asked.height
          /\ debug_next <=> asked.kind = "next"
          /\ debug_fin <=> asked.kind = "finish"
      BY <2>1, <2>4 DEF SyncInv
    <3> QED BY <1>2, <1>3, <2>1, <2>4, <3>1 DEF Reached
  <2> QED BY <1>1, <1>4, <2>2, <2>3, <2>4 DEF StopsWhereAsked
<1>5. CASE stopped'
  <2>1. SyncInv'
    BY <1>1, <1>5 DEF SyncInv
  <2>2. ASSUME why' = "asked", asked # Quiet, asked.known
        PROVE  IF asked.kind = "next" THEN Height' <= asked.height ELSE Height' < asked.height
    <3>1. ~stopped /\ Reached /\ m' = m
      BY <1>1, <2>2 DEF Stops, JumpBreak, JumpedInto, JumpSaved, JumpNone, Switches
    <3>2. debug_next \/ debug_fin
      BY <3>1 DEF Reached
    <3>3. /\ depth = Height - asked.height
          /\ debug_next <=> asked.kind = "next"
          /\ debug_fin <=> asked.kind = "finish"
      BY <2>2, <3>1, <3>2 DEF SyncInv
    <3>4. Height' = Height
      BY <3>1 DEF Height
    <3> QED BY <1>2, <1>3, <2>2, <3>1, <3>3, <3>4 DEF Reached
  <2> QED BY <1>1, <1>5, <2>1, <2>2 DEF StopsWhereAsked
<1> QED BY <1>4, <1>5 DEF Switches

(* next and finish begin where the depth is none. *)
LEMMA SyncCommand ==
    ASSUME MachinesInv, Switches, SyncInv, Command
    PROVE  SyncInv' /\ StopsWhereAsked'
<1>1. Height \in Nat
  BY Pushed DEF MachinesInv, Machine, Height
<1>2. why' = "user" /\ backtrace' = backtrace
  BY DEF Command, Commanded, CommandedOn
<1>3. CASE \E kind \in {"continue", "next", "step", "finish"} :
               Going(kind) /\ Commanded(TRUE) /\ AboutMachine
  <2>1. PICK kind \in {"continue", "next", "step", "finish"} : Going(kind)
    BY <1>3
  <2>2. Height' = Height /\ Frames' = Frames
    BY <2>1 DEF Going, Height, Frames
  <2>3. CASE ~stopped
    <3>1. UNCHANGED <<stopped, debug_next, debug_fin, depth, asked>>
      BY <2>1, <2>3 DEF Going, control
    <3>2. SyncInv'
      BY <1>2, <2>2, <3>1 DEF SyncInv
    <3>3. phase' # "cpu"
      BY <1>3, <2>3 DEF Commanded, CommandedOn, Switches
    <3> QED BY <1>2, <3>2, <3>3 DEF StopsWhereAsked
  <2>4. CASE stopped /\ kind \in {"continue", "step"}
    <3>1. asked' = Quiet
      BY <2>1, <2>4 DEF Going
    <3> QED BY <3>1 DEF SyncInv, StopsWhereAsked, Quiet
  <2>5. CASE stopped /\ kind \in {"next", "finish"}
    <3>1. /\ debug_next' = (debug_next \/ kind = "next")
          /\ debug_fin' = (debug_fin \/ kind = "finish")
          /\ depth' = 0
          /\ asked' = [kind |-> kind, height |-> Height, ran |-> FALSE,
                       known |-> phase = "prompt" /\ backtrace = Frames]
      BY <2>1, <2>5 DEF Going
    <3>2. /\ asked'.kind = kind /\ asked'.height = Height /\ ~asked'.ran
          /\ asked'.known => phase = "prompt" /\ backtrace = Frames
      BY <3>1
    <3>3. SyncInv'
      BY <1>1, <1>2, <2>2, <2>5, <3>1, <3>2 DEF SyncInv, Switches
    <3> QED BY <1>2, <3>2, <3>3 DEF StopsWhereAsked
  <2> QED BY <2>3, <2>4, <2>5 DEF Switches
<1>4. CASE Interrupt /\ ~stopped /\ Commanded(FALSE)
  <2>1. stopped' /\ phase' # "cpu"
    BY <1>4 DEF Interrupt, Commanded, CommandedOn, Switches
  <2> QED BY <1>2, <2>1 DEF SyncInv, StopsWhereAsked
<1>5. CASE UNCHANGED <<m, control, asked>> /\ Commanded(FALSE)
  <2>1. phase' # "cpu" /\ Height' = Height /\ Frames' = Frames
    BY <1>5 DEF Commanded, CommandedOn, Switches, Height, Frames
  <2> QED BY <1>2, <1>5, <2>1 DEF SyncInv, StopsWhereAsked, control
<1>6. CASE ResetCommand /\ Commanded(FALSE)
  <2>1. phase' # "cpu"
    BY <1>6 DEF Commanded, CommandedOn, Switches
  <2>2. asked' # Quiet => ~asked'.known
    BY <1>6 DEF ResetCommand, Switches
  <2> QED BY <1>2, <2>1, <2>2 DEF SyncInv, StopsWhereAsked, Quiet
<1>7. CASE Undo /\ CommandedOn(~stopped, label /\ ~stopped)
  <2>1. phase' # "cpu" /\ UNCHANGED <<control, asked>>
    BY <1>7 DEF Undo, CommandedOn, Switches
  <2>2. CASE stopped
    BY <1>2, <2>1, <2>2 DEF SyncInv, StopsWhereAsked, control
  <2>3. CASE ~stopped
    <3>1. Height' = Height /\ Frames' = Frames
      BY <1>7, <2>3 DEF Undo, Height, Frames
    <3> QED BY <1>2, <2>1, <3>1 DEF SyncInv, StopsWhereAsked, control
  <2> QED BY <2>2, <2>3
<1> QED BY <1>3, <1>4, <1>5, <1>6, <1>7 DEF Command, Breakpoint, Delete

(* An instruction moves the depth with the stack. *)
LEMMA SyncRun ==
    ASSUME MachinesInv, Switches, SyncInv, GB_cpu_run
    PROVE  SyncInv' /\ StopsWhereAsked'
<1>1. PICK irq \in BOOLEAN : Execute(irq)
  BY DEF GB_cpu_run
<1>2. Height \in Nat /\ (Calls \/ Returns \/ Stays)
  BY <1>1, Executes DEF MachinesInv
<1>3. /\ phase' = "check" /\ UNCHANGED <<debug_next, debug_fin>> /\ (~stopped' => ~stopped)
  BY DEF GB_cpu_run
<1>4. ASSUME asked' # Quiet, asked'.known, ~stopped', debug_next' \/ debug_fin'
      PROVE  /\ backtrace' = Frames' /\ depth' = Height' - asked'.height
             /\ debug_next' <=> asked'.kind = "next"
             /\ debug_fin' <=> asked'.kind = "finish"
  <2>1. asked # Quiet
    BY <1>4 DEF GB_cpu_run
  <2>2. asked' = [asked EXCEPT !.ran = TRUE, !.known = @ /\ Len(m'.stack) <= MaxFrames]
    BY <2>1 DEF GB_cpu_run
  <2>3. /\ asked.height \in Nat /\ asked'.height = asked.height /\ asked'.kind = asked.kind
        /\ asked.known /\ Len(m'.stack) <= MaxFrames
    <3>1. asked'.known = (asked.known /\ Len(m'.stack) <= MaxFrames)
      BY <2>1, <2>2 DEF Switches
    <3>2. asked.height \in Nat /\ asked'.height = asked.height /\ asked'.kind = asked.kind
      BY <2>1, <2>2 DEF Switches
    <3> QED BY <1>4, <3>1, <3>2
  <2>4. /\ backtrace = Frames /\ depth = Height - asked.height
        /\ debug_next <=> asked.kind = "next"
        /\ debug_fin <=> asked.kind = "finish"
    BY <1>3, <1>4, <2>1, <2>3 DEF SyncInv
  <2>5. depth \in Int
    BY <1>2, <2>3, <2>4
  <2>6. backtrace' = Frames' /\ depth' = depth + (Len(m'.stack) - Height)
    BY <1>2, <2>3, <2>4, <2>5, Hooked
  <2>7. Len(m'.stack) \in Int /\ Height' = Len(m'.stack)
    BY <1>2 DEF Calls, Returns, Stays, Height
  <2>8. depth' = Height' - asked'.height
    BY <1>2, <2>3, <2>4, <2>6, <2>7
  <2> QED BY <1>3, <2>3, <2>4, <2>6, <2>8
<1> QED BY <1>3, <1>4 DEF SyncInv, StopsWhereAsked

(* Every step of the debugger keeps SyncInv and stops where it was asked to. *)
LEMMA SyncStep ==
    ASSUME MachinesInv, Switches, SyncInv, StopsWhereAsked, [DebuggerNext]_debuggerVars
    PROVE  SyncInv' /\ StopsWhereAsked'
<1>1. CASE Inactive
  <2>1. /\ ~stopped /\ ~debug_next /\ ~debug_fin
    BY <1>1 DEF Inactive, Switches
  <2>2. UNCHANGED <<control, asked>> /\ phase' = "cpu"
    BY <1>1 DEF Inactive, ghosts
  <2> QED BY <2>1, <2>2 DEF SyncInv, StopsWhereAsked, control
<1>2. CASE UNCHANGED debuggerVars
  BY <1>2 DEF debuggerVars, control, ghosts, SyncInv, StopsWhereAsked, Height, Frames
<1> QED BY <1>1, <1>2, SyncCheck, SyncCommand, SyncRun DEF DebuggerNext

-----------------------------------------------------------------------------
(* The invariant of the debugger. *)
DebuggerInv ==
    MachinesInv /\ Switches /\ BreaksInv /\ JumpInv /\ SyncInv /\ StopsWhereAsked

(* A session begins with all of it. *)
LEMMA DebuggerBegins == DebuggerInit => DebuggerInv
<1> SUFFICES ASSUME DebuggerInit PROVE DebuggerInv
  OBVIOUS
<1>1. MachinesInv
  BY UndoInitially
<1>2. Switches
  BY DEF DebuggerInit, Switches
<1>3. BreaksInv
  <2>1. << >> \in Seq(BreakSet) /\ DOMAIN << >> = {}
    OBVIOUS
  <2>2. breakpoints = << >> /\ hasJump = FALSE
    BY DEF DebuggerInit
  <2> QED BY <2>1, <2>2 DEF BreaksInv
<1>4. JumpInv
  BY DEF DebuggerInit, JumpInv
<1>5. SyncInv /\ StopsWhereAsked
  BY DEF DebuggerInit, SyncInv, StopsWhereAsked
<1> QED BY <1>1, <1>2, <1>3, <1>4, <1>5 DEF DebuggerInv

(* "next" and "finish" stop at the first instruction of the height they    *)
(* were asked for, and no jump to a breakpoint is made without a stop      *)
(* before it (module Debugger).                                            *)
THEOREM ItStopsAsAsked == DebuggerSpec => []StopsAsAsked
<1>1. DebuggerInv /\ UndoInv /\ [DebuggerNext]_debuggerVars => DebuggerInv' /\ UndoInv'
  BY UndoStep, SwitchesStep, BreaksStep, JumpStep, SyncStep DEF DebuggerInv
<1>2. DebuggerInv => StopsAsAsked
  <2>1. NextAddress = NextOf(m)
    BY DEF NextAddress, NextOf
  <2>2. JumpInv => JumpsAreSeen
    BY <2>1 DEF JumpInv, JumpsAreSeen
  <2> QED BY <2>2 DEF DebuggerInv, StopsAsAsked
<1> QED BY DebuggerBegins, UndoInitially, <1>1, <1>2, PTL DEF DebuggerSpec
-----------------------------------------------------------------------------
(* The line editor *)

Texts == Seq(Characters)
Lines == [content : Texts, position : Nat, scroll : Nat]
Good(l) == l \in Lines /\ l.position <= Len(l.content)

EntryIds == 1 .. MaxHistory + 2
Entries == [id : EntryIds, text : Texts]

LineInv == Good(line) /\ max \in Windows /\ reverse \in BOOLEAN /\ resized \in BOOLEAN /\ CursorShown

(* While a search goes on, the cursor is at the end of what is searched.   *)
SearchInv ==
    /\ ~reverse => search_line = 0
    /\ reverse => line.position = Len(line.content)
    /\ search_line \in HistoryIds \cup {0}
    /\ reverse /\ search_line # 0 => HasPart(TextOf(search_line), line.content)

(* Every entry has an id and a text of its own. *)
PastInv ==
    /\ history \in Seq(Entries) /\ Len(history) <= MaxHistory
    /\ \A i, j \in 1 .. Len(history) : history[i].id = history[j].id => i = j
    /\ \A i, j \in 1 .. Len(history) : history[i].text = history[j].text => i = j
    /\ history_line \in HistoryIds \cup {0}

(* What Tab has inserted ends at the cursor, and nothing has unless Tab    *)
(* was the last key.                                                       *)
CompletionInv ==
    /\ complete_context \in Nat /\ completion_length \in Nat
    /\ completion_length <= line.position
    /\ typed \in [before : Texts, after : Texts, active : BOOLEAN]
    /\ ~typed.active => completion_length = 0
    /\ reverse => ~typed.active
    /\ OnlyTheCompletion

EditorInv == LineInv /\ SearchInv /\ PastInv /\ CompletionInv

-----------------------------------------------------------------------------
(* The greatest and the least of the numbers up to a bound. *)
LEMMA GreatestIsThere ==
    ASSUME NEW n \in Nat, NEW S, S \subseteq 0 .. n, S # {}
    PROVE  Max(S) \in S /\ \A y \in S : Max(S) >= y
<1> DEFINE T == {n - x : x \in S}
<1>0. \A x \in S : n - x \in Nat
    OBVIOUS
<1>1. T \subseteq Nat
    BY <1>0
<1>2. T # {}
    <2>1. PICK x \in S : TRUE
        OBVIOUS
    <2>2. n - x \in T
        OBVIOUS
    <2> QED BY <2>2
<1>3. PICK low \in T : \A y \in T : <<y, low>> \notin OpToRel(<, Nat)
    BY <1>1, <1>2, NatLessThanWellFounded, WFMin
<1>4. \A y \in T : ~(y < low)
    BY <1>1, <1>3 DEF OpToRel
<1>5. PICK x \in S : low = n - x
    BY <1>3
<1>6. \A y \in S : x >= y
    <2> SUFFICES ASSUME NEW y \in S PROVE x >= y
        OBVIOUS
    <2>1. n - y \in T /\ ~(n - y < n - x)
        BY <1>4, <1>5
    <2> QED BY <2>1
<1> QED BY <1>6 DEF Max

LEMMA LeastIsThere ==
    ASSUME NEW S, S \subseteq Nat, S # {}
    PROVE  Min(S) \in S /\ \A y \in S : Min(S) <= y
<1>1. PICK low \in S : \A y \in S : <<y, low>> \notin OpToRel(<, Nat)
    BY NatLessThanWellFounded, WFMin
<1>2. \A y \in S : ~(y < low)
    BY <1>1 DEF OpToRel
<1>3. \A y \in S : low <= y
    <2> SUFFICES ASSUME NEW y \in S PROVE low <= y
        OBVIOUS
    <2>1. y \in Nat /\ low \in Nat /\ ~(y < low)
        BY <1>2
    <2> QED BY <2>1
<1> QED BY <1>3 DEF Min

(* What is cut out of a text. *)
LEMMA TextCut ==
    ASSUME NEW s \in Texts, NEW from \in Int, NEW n \in Int, 1 <= from, n <= Len(s)
    PROVE  /\ SubSeq(s, from, n) \in Texts
           /\ Len(SubSeq(s, from, n)) = IF from <= n THEN n - from + 1 ELSE 0
           /\ \A i \in 1 .. n - from + 1 : SubSeq(s, from, n)[i] = s[from + i - 1]
<1>1. \A i \in from .. n : s[i] \in Characters
    BY ElementOfSeq DEF Texts
<1> QED BY <1>1, SubSeqProperties DEF Texts

LEMMA LettersAndSpaces ==
    /\ <<>> \in Texts /\ Len(<<>>) = 0
    /\ \A s \in Texts : Len(s) \in Nat
    /\ \A s, t \in Texts : s \o t \in Texts /\ Len(s \o t) = Len(s) + Len(t)
    /\ \A s \in Texts, c \in Characters : Append(s, c) \in Texts /\ Len(Append(s, c)) = Len(s) + 1
<1>1. <<>> \in Texts /\ Len(<<>>) = 0
    BY EmptySeq DEF Texts
<1>2. \A s \in Texts : Len(s) \in Nat
    BY LenProperties DEF Texts
<1>3. \A s, t \in Texts : s \o t \in Texts /\ Len(s \o t) = Len(s) + Len(t)
    BY ConcatProperties DEF Texts
<1>4. \A s \in Texts, c \in Characters : Append(s, c) \in Texts /\ Len(Append(s, c)) = Len(s) + 1
    BY AppendProperties DEF Texts
<1> QED BY <1>1, <1>2, <1>3, <1>4

(* A line made of what is before the cursor and what is after it. *)
LEMMA LineAtIsGood ==
    ASSUME NEW l \in Lines, NEW before \in Texts, NEW after \in Texts
    PROVE  /\ Good(LineAt(before, after, l))
           /\ LineAt(before, after, l).content = before \o after
           /\ LineAt(before, after, l).position = Len(before)
<1>1. /\ before \o after \in Texts /\ Len(before \o after) = Len(before) + Len(after)
      /\ Len(before) \in Nat /\ Len(after) \in Nat
    BY LettersAndSpaces
<1> DEFINE c == before \o after
           p == Len(before)
<1>2. LineAt(before, after, l) = [l EXCEPT !.content = c, !.position = p]
    BY DEF LineAt
<1>3. c \in Texts /\ p \in Nat /\ p <= Len(c)
    BY <1>1
<1> HIDE DEF c, p
<1>3a. /\ [l EXCEPT !.content = c, !.position = p] \in Lines
      /\ [l EXCEPT !.content = c, !.position = p].content = c
      /\ [l EXCEPT !.content = c, !.position = p].position = p
    BY <1>3 DEF Lines
<1>4. LineAt(before, after, l) \in Lines
    BY <1>2, <1>3a, Zenon
<1>5. LineAt(before, after, l).content = c /\ LineAt(before, after, l).position = p
    BY <1>2, <1>3a, Zenon
<1> QED BY <1>3, <1>4, <1>5 DEF Good, c, p

(* The two sides of the cursor. *)
LEMMA Sides ==
    ASSUME NEW l, Good(l)
    PROVE  /\ Before(l) \in Texts /\ Len(Before(l)) = l.position
           /\ After(l) \in Texts /\ Len(After(l)) = Len(l.content) - l.position
<1>1. l.content \in Texts /\ l.position \in Nat /\ Len(l.content) \in Nat
      /\ l.position <= Len(l.content)
    BY LettersAndSpaces DEF Good, Lines
<1> DEFINE p == l.position
           q == l.position + 1
           n == Len(l.content)
<1>2. p \in Int /\ q \in Int /\ n \in Int /\ 1 <= q /\ p <= n /\ 0 <= p /\ q = p + 1
    BY <1>1
<1> HIDE DEF p, q, n
<1>3. /\ SubSeq(l.content, 1, p) \in Texts
      /\ Len(SubSeq(l.content, 1, p)) = IF 1 <= p THEN p - 1 + 1 ELSE 0
    BY <1>1, <1>2, TextCut DEF n
<1>4. /\ SubSeq(l.content, q, n) \in Texts
      /\ Len(SubSeq(l.content, q, n)) = IF q <= n THEN n - q + 1 ELSE 0
    BY <1>1, <1>2, TextCut DEF n
<1>5. Len(SubSeq(l.content, 1, p)) = p
    BY <1>2, <1>3
<1>6. Len(SubSeq(l.content, q, n)) = n - p
    BY <1>2, <1>4
<1> QED BY <1>3, <1>4, <1>5, <1>6 DEF Before, After, p, q, n

(* redraw_prompt: the window it leaves is around the cursor, wherever it   *)
(* was before.                                                             *)
LEMMA WindowFollows ==
    ASSUME NEW l, Good(l), max \in Nat, max > 0
    PROVE  /\ Scroll(l) \in Nat
           /\ l.position \in Scroll(l) .. Scroll(l) + max
           /\ l.position = Scroll(l) => l.position = 0
           /\ Scroll(l) + max <= Len(l.content) \/ Scroll(l) = 0
<1> DEFINE n == Len(l.content)
           p == l.position
           s == l.scroll
           shrunk == IF n <= max THEN 0 ELSE IF s > n - max THEN n - max ELSE s
           left == IF p < shrunk + 1 /\ p > 0 THEN p - 1 ELSE IF p = 0 THEN 0 ELSE shrunk
           scroll == IF p > left + max THEN p - max ELSE left
<1>1. n \in Nat /\ p \in Nat /\ s \in Nat /\ p <= n
    BY LettersAndSpaces DEF Good, Lines
<1>2. Scroll(l) = scroll
    BY DEF Scroll
<1> HIDE DEF n, p, s
<1>3. shrunk \in Nat /\ (shrunk = 0 \/ shrunk + max <= n)
    BY <1>1
<1> HIDE DEF shrunk
<1>4. left \in Nat /\ (left = 0 \/ left + max <= n) /\ left <= p /\ (left = p => p = 0)
    BY <1>1, <1>3
<1> HIDE DEF left
<1>5. /\ scroll \in Nat /\ p \in scroll .. scroll + max /\ (p = scroll => p = 0)
      /\ scroll + max <= n \/ scroll = 0
    BY <1>1, <1>4
<1> QED BY <1>2, <1>5 DEF n, p

(* A line that is drawn is in its window. *)
LEMMA DrawnIsShown ==
    ASSUME NEW l, Good(l), max \in Windows, max' = max, reverse' \in BOOLEAN, resized \in BOOLEAN,
           Drawn(l)
    PROVE  /\ LineInv'
           /\ line'.content = l.content /\ line'.position = l.position
<1>1. max \in Nat /\ max > 0
    BY EditorAssumption
<1>2. resized' \in BOOLEAN /\ (~reverse' => ~resized')
    BY DEF Drawn
<1>3. CASE reverse'
    <2>1. line' = l
        BY <1>3 DEF Drawn
    <2> QED BY <1>2, <1>3, <2>1 DEF LineInv, CursorShown, Good
<1>4. CASE ~reverse'
    <2> DEFINE w == Scroll(l)
    <2>1. /\ w \in Nat
          /\ l.position \in w .. w + max
          /\ l.position = w => l.position = 0
          /\ w + max <= Len(l.content) \/ w = 0
        BY <1>1, WindowFollows
    <2>2. line' = [l EXCEPT !.scroll = w]
        BY <1>4 DEF Drawn
    <2> HIDE DEF w
    <2>3. l \in Lines /\ l.position <= Len(l.content)
        BY DEF Good
    <2>4. /\ line' \in Lines /\ line'.content = l.content /\ line'.position = l.position
          /\ line'.scroll = w
        BY <2>1, <2>2, <2>3 DEF Lines
    <2>5. Good(line')
        BY <2>3, <2>4 DEF Good
    <2>6. CursorShown'
        BY <2>1, <2>4 DEF CursorShown
    <2> QED BY <1>2, <2>4, <2>5, <2>6 DEF LineInv, Good
<1> QED BY <1>3, <1>4

(* A change of the line by a key other than those of the search and Tab. *)
LEMMA NothingInserted ==
    ASSUME NotCompleting, Good(line)'
    PROVE  CompletionInv'
<1>1. /\ complete_context' = 0 /\ completion_length' = 0 /\ typed' = NoText
      /\ line'.position \in Nat
    BY DEF NotCompleting, Good, Lines
<1>2. NoText \in [before : Texts, after : Texts, active : BOOLEAN] /\ NoText.active = FALSE
    BY LettersAndSpaces DEF NoText
<1>3. typed' \in [before : Texts, after : Texts, active : BOOLEAN] /\ typed'.active = FALSE
    BY <1>1, <1>2
<1> QED BY <1>1, <1>3 DEF CompletionInv, OnlyTheCompletion

LEMMA LengthIsKept ==
    ASSUME line'.position = line.position, line'.content = line.content, reverse' = FALSE \/ reverse' = reverse,
           UNCHANGED completion, CompletionInv
    PROVE  CompletionInv'
BY DEF CompletionInv, completion, OnlyTheCompletion, After

-----------------------------------------------------------------------------
(* What the keys make of a line. *)
LEMMA PositionSet ==
    ASSUME Good(line), NEW p \in 0 .. Len(line.content)
    PROVE  Good([line EXCEPT !.position = p])
<1>1. line \in Lines /\ Len(line.content) \in Nat
    BY LettersAndSpaces DEF Good, Lines
<1>2. p \in Nat /\ p <= Len(line.content)
    BY <1>1
<1>3. /\ [line EXCEPT !.position = p] \in Lines
      /\ [line EXCEPT !.position = p].content = line.content
      /\ [line EXCEPT !.position = p].position = p
    BY <1>1, <1>2 DEF Lines
<1> QED BY <1>2, <1>3 DEF Good

LEMMA Inserted ==
    ASSUME Good(line), NEW c \in Characters
    PROVE  /\ Good(Insert(c))
           /\ line.position = Len(line.content) => Insert(c).position = Len(Insert(c).content)
<1> DEFINE before == Append(Before(line), c)
           after == After(line)
<1>1. /\ before \in Texts /\ Len(before) = line.position + 1
      /\ after \in Texts /\ Len(after) = Len(line.content) - line.position
      /\ Len(before) \in Nat /\ Len(line.content) \in Nat /\ line.position \in Nat
    BY Sides, LettersAndSpaces DEF Good, Lines
<1>2. line \in Lines
    BY DEF Good
<1>3. Insert(c) = LineAt(before, after, line)
    BY DEF Insert
<1> HIDE DEF before, after
<1>4. /\ Good(LineAt(before, after, line))
      /\ LineAt(before, after, line).content = before \o after
      /\ LineAt(before, after, line).position = Len(before)
    BY <1>1, <1>2, LineAtIsGood
<1>5. Len(before \o after) = Len(before) + Len(after)
    BY <1>1, LettersAndSpaces
<1> QED BY <1>1, <1>3, <1>4, <1>5

(* Going back leaves a beginning of what was before the cursor. *)
LEMMA DeletedBack ==
    ASSUME Good(line), NEW size \in Nat, size <= line.position
    PROVE  /\ Good(DeleteBack(size))
           /\ line.position = Len(line.content) =>
                 /\ DeleteBack(size).position = Len(DeleteBack(size).content)
                 /\ Len(DeleteBack(size).content) = Len(line.content) - size
                 /\ \A i \in 1 .. Len(line.content) - size :
                       DeleteBack(size).content[i] = line.content[i]
<1>1. /\ After(line) \in Texts /\ Len(After(line)) = Len(line.content) - line.position
      /\ line.content \in Texts /\ Len(line.content) \in Nat /\ line.position \in Nat
      /\ line.position <= Len(line.content) /\ line \in Lines
    BY Sides, LettersAndSpaces DEF Good, Lines
<1> DEFINE n == line.position - size
           before == SubSeq(line.content, 1, n)
           after == After(line)
<1>2. n \in Nat /\ n <= Len(line.content)
    BY <1>1
<1>3. DeleteBack(size) = LineAt(before, after, line)
    BY DEF DeleteBack
<1>4. n = line.position - size
    OBVIOUS
<1> HIDE DEF n
<1>5. /\ before \in Texts /\ Len(before) = IF 1 <= n THEN n - 1 + 1 ELSE 0
      /\ \A i \in 1 .. n - 1 + 1 : before[i] = line.content[1 + i - 1]
    BY <1>1, <1>2, TextCut
<1>6. Len(before) = n /\ \A i \in 1 .. n : before[i] = line.content[i]
    BY <1>2, <1>5
<1> HIDE DEF before, after
<1>7. after \in Texts
    BY <1>1 DEF after
<1>8. /\ Good(LineAt(before, after, line))
      /\ LineAt(before, after, line).content = before \o after
      /\ LineAt(before, after, line).position = Len(before)
    BY <1>1, <1>5, <1>7, LineAtIsGood
<1>9. ASSUME line.position = Len(line.content)
      PROVE  before \o after = before
    <2>1. Len(after) = 0
        BY <1>1, <1>9 DEF after
    <2>2. after = <<>>
        BY <1>7, <2>1, EmptySeq DEF Texts
    <2> QED BY <1>5, <2>2, ConcatEmptySeq DEF Texts
<1>10. ASSUME line.position = Len(line.content)
       PROVE  /\ DeleteBack(size).position = Len(DeleteBack(size).content)
              /\ Len(DeleteBack(size).content) = Len(line.content) - size
              /\ \A i \in 1 .. Len(line.content) - size :
                       DeleteBack(size).content[i] = line.content[i]
    <2>1. DeleteBack(size).content = before /\ DeleteBack(size).position = Len(before)
        BY <1>3, <1>8, <1>9, <1>10
    <2>2. n = Len(line.content) - size
        BY <1>4, <1>10
    <2> QED BY <1>6, <2>1, <2>2
<1> QED BY <1>3, <1>8, <1>10

LEMMA DeletedForward ==
    ASSUME Good(line), NEW size \in Nat, line.position + size <= Len(line.content)
    PROVE  Good(DeleteForward(size))
<1>1. /\ Before(line) \in Texts
      /\ line.content \in Texts /\ Len(line.content) \in Nat /\ line.position \in Nat
      /\ line \in Lines
    BY Sides, LettersAndSpaces DEF Good, Lines
<1> DEFINE cnt == line.position + size + 1
           n == Len(line.content)
           after == SubSeq(line.content, cnt, n)
<1>2. cnt \in Int /\ 1 <= cnt /\ n \in Int
    BY <1>1
<1>3. DeleteForward(size) = LineAt(Before(line), after, line)
    BY DEF DeleteForward
<1> HIDE DEF cnt
<1>4. after \in Texts
    BY <1>1, <1>2, TextCut
<1> HIDE DEF after
<1> QED BY <1>1, <1>3, <1>4, LineAtIsGood

LEMMA SetIsGood ==
    ASSUME Good(line), NEW text \in Texts
    PROVE  /\ Good(SetLine(text))
           /\ SetLine(text).content = text /\ SetLine(text).position = Len(text)
<1>1. line \in Lines /\ <<>> \in Texts
    BY LettersAndSpaces DEF Good
<1>2. text \o <<>> = text
    BY ConcatEmptySeq DEF Texts
<1> QED BY <1>1, <1>2, LineAtIsGood DEF SetLine

LEMMA Words ==
    ASSUME Good(line)
    PROVE  /\ WordEnd \in line.position .. Len(line.content)
           /\ line.position > 0 => WordStart \in 0 .. line.position - 1
<1>1. /\ Len(line.content) \in Nat /\ line.position \in Nat
      /\ line.position <= Len(line.content)
    BY LettersAndSpaces DEF Good, Lines
<1>2. WordEnd \in line.position .. Len(line.content)
    <2> DEFINE E == {Len(line.content)} \cup
                      {p \in line.position + 1 .. Len(line.content) - 1 : line.content[p + 1] = " "}
    <2>0. \A p, n \in Nat : \A x \in p + 1 .. n - 1 : x \in p .. n /\ x \in Nat
        OBVIOUS
    <2>1. \A x \in line.position + 1 .. Len(line.content) - 1 :
             x \in line.position .. Len(line.content) /\ x \in Nat
        BY <1>1, <2>0
    <2>1a. Len(line.content) \in line.position .. Len(line.content)
        BY <1>1
    <2>2. E \subseteq Nat /\ E \subseteq line.position .. Len(line.content) /\ E # {}
        BY <1>1, <2>1, <2>1a, Zenon
    <2>3. WordEnd = Min(E)
        BY DEF WordEnd
    <2> HIDE DEF E
    <2> QED BY <2>2, <2>3, LeastIsThere
<1>3. ASSUME line.position > 0 PROVE WordStart \in 0 .. line.position - 1
    <2> DEFINE S == {0} \cup {p \in 1 .. line.position - 1 : line.content[p] = " "}
               n == line.position - 1
    <2>0. n \in Nat /\ n = line.position - 1
        BY <1>1, <1>3
    <2> HIDE DEF n
    <2>1. \A x \in 1 .. line.position - 1 : x \in 0 .. n
        BY <1>1, <2>0
    <2>1a. 0 \in 0 .. n
        BY <2>0
    <2>1b. S \subseteq 0 .. n /\ S # {}
        BY <2>1, <2>1a, Zenon
    <2>2. WordStart = Max(S)
        BY DEF WordStart
    <2> HIDE DEF S
    <2>3. WordStart \in 0 .. n
        BY <2>0, <2>1b, <2>2, GreatestIsThere
    <2> QED BY <2>3 DEF n
<1> QED BY <1>2, <1>3

LEMMA WordDeleted ==
    ASSUME Good(line), NEW forward \in BOOLEAN, MovesWord(forward)
    PROVE  Good(DeleteWord(forward))
<1>1. /\ Len(line.content) \in Nat /\ line.position \in Nat
      /\ line.position <= Len(line.content)
    BY LettersAndSpaces DEF Good, Lines
<1>2. CASE forward
    <2> DEFINE size == WordEnd - line.position
    <2>1. size \in Nat /\ line.position + size <= Len(line.content)
        BY <1>1, Words
    <2> HIDE DEF size
    <2>2. Good(DeleteForward(size))
        BY <2>1, DeletedForward
    <2> QED BY <1>2, <2>2 DEF DeleteWord, size
<1>3. CASE ~forward
    <2> DEFINE size == line.position - WordStart
    <2>1. size \in Nat /\ size <= line.position
        BY <1>1, <1>3, Words DEF MovesWord
    <2> HIDE DEF size
    <2>2. Good(DeleteBack(size))
        BY <2>1, DeletedBack
    <2> QED BY <1>3, <2>2 DEF DeleteWord, size
<1> QED BY <1>2, <1>3

LEMMA Killed ==
    ASSUME Good(line)
    PROVE  Good(Kill)
<1>1. line \in Lines /\ Before(line) \in Texts /\ Len(Before(line)) = line.position
      /\ line.position \in Nat
    BY Sides DEF Good, Lines
<1> DEFINE c == Before(line)
<1>2. c \in Texts /\ Len(c) = line.position
    BY <1>1
<1> HIDE DEF c
<1>3. /\ [line EXCEPT !.content = c] \in Lines
      /\ [line EXCEPT !.content = c].content = c
      /\ [line EXCEPT !.content = c].position = line.position
    BY <1>1, <1>2 DEF Lines
<1>4. Good([line EXCEPT !.content = c])
    BY <1>1, <1>2, <1>3 DEF Good
<1> QED BY <1>4 DEF Kill, c

LEMMA Swapped ==
    ASSUME Good(line), Len(line.content) >= 2, line.position # 0
    PROVE  Good(Transposed)
<1>1. /\ line.content \in Texts /\ Len(line.content) \in Nat /\ line.position \in Nat
      /\ line.position <= Len(line.content) /\ line \in Lines
    BY LettersAndSpaces DEF Good, Lines
<1> DEFINE at == IF line.position = Len(line.content) THEN line.position - 1 ELSE line.position
           next == at + 1
           n == Len(line.content)
<1>2. at \in 1 .. n /\ next \in 1 .. n /\ next \in Nat
    BY <1>1
<1> DEFINE half == [line.content EXCEPT ![next] = line.content[at]]
           swapped == [line.content EXCEPT ![next] = line.content[at], ![at] = line.content[next]]
<1>3. Transposed = [line EXCEPT !.content = swapped, !.position = next]
    BY DEF Transposed
<1> HIDE DEF at, next
<1>4. line.content[at] \in Characters /\ line.content[next] \in Characters
    BY <1>1, <1>2, ElementOfSeq DEF Texts
<1>5. half \in Texts /\ Len(half) = n
    BY <1>1, <1>2, <1>4, ExceptSeq DEF Texts
<1> DEFINE c == line.content[next]
<1>6. swapped = [half EXCEPT ![at] = c]
    OBVIOUS
<1>6a. c \in Characters /\ half \in Seq(Characters) /\ at \in 1 .. Len(half)
    BY <1>2, <1>4, <1>5 DEF Texts
<1> HIDE DEF half, c
<1>6b. /\ [half EXCEPT ![at] = c] \in Seq(Characters)
       /\ Len([half EXCEPT ![at] = c]) = Len(half)
    BY <1>6a, ExceptSeq
<1>7. swapped \in Texts /\ Len(swapped) = n
    BY <1>5, <1>6, <1>6b DEF Texts
<1> HIDE DEF swapped
<1>8. /\ [line EXCEPT !.content = swapped, !.position = next] \in Lines
      /\ [line EXCEPT !.content = swapped, !.position = next].content = swapped
      /\ [line EXCEPT !.content = swapped, !.position = next].position = next
    BY <1>1, <1>2, <1>7 DEF Lines
<1>9. next <= n
    BY <1>2
<1> QED BY <1>3, <1>7, <1>8, <1>9 DEF Good

-----------------------------------------------------------------------------
(* A key that draws a line, or does not, and leaves the search alone. *)
LEMMA EditKeeps ==
    ASSUME EditorInv, ~reverse, UNCHANGED <<max, search>>, PastInv',
           NEW l, Good(l), Edit(l)
    PROVE  EditorInv'
<1>1. max \in Windows /\ max' = max /\ reverse' = FALSE /\ search_line' = 0 /\ resized \in BOOLEAN
    BY DEF EditorInv, LineInv, SearchInv, search
<1>2. LineInv'
    BY <1>1, DrawnIsShown DEF Edit
<1>3. CompletionInv'
    BY <1>2, NothingInserted DEF Edit, LineInv
<1>4. SearchInv'
    BY <1>1 DEF SearchInv
<1> QED BY <1>2, <1>3, <1>4 DEF EditorInv

LEMMA BellKeeps ==
    ASSUME EditorInv, ~reverse, UNCHANGED <<max, search>>, PastInv',
           Bell, NotCompleting \/ UNCHANGED completion
    PROVE  EditorInv'
<1>1. /\ max' = max /\ reverse' = reverse /\ search_line' = 0
      /\ line' = line /\ resized' = resized
    BY DEF EditorInv, SearchInv, search, Bell
<1>2. LineInv'
    BY <1>1 DEF EditorInv, LineInv, CursorShown, Good
<1>3. CompletionInv'
    <2>1. CASE NotCompleting
        BY <1>2, <2>1, NothingInserted DEF LineInv
    <2>2. CASE UNCHANGED completion
        BY <1>1, <2>2, LengthIsKept DEF EditorInv
    <2> QED BY <2>1, <2>2
<1>4. SearchInv'
    BY <1>1 DEF SearchInv
<1> QED BY <1>2, <1>3, <1>4 DEF EditorInv

LEMMA PastIsKept ==
    ASSUME PastInv, UNCHANGED past
    PROVE  PastInv'
BY DEF PastInv, past, HistoryIds

LEMMA KeyKeeps ==
    ASSUME EditorInv, Key
    PROVE  EditorInv'
<1>1. /\ ~reverse /\ UNCHANGED <<max, search>> /\ PastInv' /\ Good(line)
    BY PastIsKept DEF Key, EditorInv, LineInv
<1>2. ASSUME NEW p, SetPosition(p) PROVE EditorInv'
    <2>1. CASE p \in 0 .. Len(line.content)
        <3>1. Good([line EXCEPT !.position = p])
            BY <1>1, <2>1, PositionSet
        <3>2. Edit([line EXCEPT !.position = p])
            BY <1>2, <2>1 DEF SetPosition
        <3> QED BY <1>1, <3>1, <3>2, EditKeeps
    <2>2. CASE p \notin 0 .. Len(line.content)
        BY <1>1, <1>2, <2>2, BellKeeps DEF SetPosition
    <2> QED BY <2>1, <2>2
<1>3. ASSUME NEW c \in Characters, Edit(Insert(c)) PROVE EditorInv'
    BY <1>1, <1>3, Inserted, EditKeeps
<1>4. ASSUME IF line.position > 0 THEN Edit(DeleteBack(1)) ELSE Bell /\ NotCompleting
      PROVE  EditorInv'
    <2>1. line.position \in Nat
        BY <1>1 DEF Good, Lines
    <2>2. CASE line.position > 0
        <3>1. Good(DeleteBack(1))
            BY <1>1, <2>1, <2>2, DeletedBack
        <3> QED BY <1>1, <1>4, <2>2, <3>1, EditKeeps
    <2>3. CASE ~(line.position > 0)
        BY <1>1, <1>4, <2>3, BellKeeps
    <2> QED BY <2>2, <2>3
<1>5. ASSUME IF line.position < Len(line.content) THEN Edit(DeleteForward(1)) ELSE Bell /\ NotCompleting
      PROVE  EditorInv'
    <2>1. line.position \in Nat /\ Len(line.content) \in Nat
        BY <1>1, LettersAndSpaces DEF Good, Lines
    <2>2. CASE line.position < Len(line.content)
        <3>1. Good(DeleteForward(1))
            BY <1>1, <2>1, <2>2, DeletedForward
        <3> QED BY <1>1, <1>5, <2>2, <3>1, EditKeeps
    <2>3. CASE ~(line.position < Len(line.content))
        BY <1>1, <1>5, <2>3, BellKeeps
    <2> QED BY <2>2, <2>3
<1>6. ASSUME NEW forward \in BOOLEAN,
             IF MovesWord(forward) THEN Edit(DeleteWord(forward)) ELSE Bell /\ NotCompleting
      PROVE  EditorInv'
    <2>1. CASE MovesWord(forward)
        <3>1. Good(DeleteWord(forward))
            BY <1>1, <2>1, WordDeleted
        <3> QED BY <1>1, <1>6, <2>1, <3>1, EditKeeps
    <2>2. CASE ~MovesWord(forward)
        BY <1>1, <1>6, <2>2, BellKeeps
    <2> QED BY <2>1, <2>2
<1>7. ASSUME NEW forward \in BOOLEAN,
             IF ~MovesWord(forward) THEN Bell /\ NotCompleting
             ELSE Edit([line EXCEPT !.position = IF forward THEN WordEnd ELSE WordStart])
      PROVE  EditorInv'
    <2>1. CASE ~MovesWord(forward)
        BY <1>1, <1>7, <2>1, BellKeeps
    <2>2. CASE MovesWord(forward)
        <3> DEFINE p == IF forward THEN WordEnd ELSE WordStart
        <3>1. Edit([line EXCEPT !.position = p])
            BY <1>7, <2>2
        <3>2. line.position \in Nat /\ Len(line.content) \in Nat /\ line.position <= Len(line.content)
            BY <1>1, LettersAndSpaces DEF Good, Lines
        <3>3. p \in 0 .. Len(line.content)
            <4>1. CASE forward
                <5>1. WordEnd \in line.position .. Len(line.content)
                    BY <1>1, Words
                <5> QED BY <3>2, <4>1, <5>1
            <4>2. CASE ~forward
                <5>1. WordStart \in 0 .. line.position - 1
                    BY <1>1, <2>2, <4>2, Words DEF MovesWord
                <5> QED BY <3>2, <4>2, <5>1
            <4> QED BY <4>1, <4>2
        <3> HIDE DEF p
        <3>4. Good([line EXCEPT !.position = p])
            BY <1>1, <3>3, PositionSet
        <3> QED BY <1>1, <3>1, <3>4, EditKeeps
    <2> QED BY <2>1, <2>2
<1>8. ASSUME Edit(Kill) PROVE EditorInv'
    BY <1>1, <1>8, Killed, EditKeeps
<1>9. ASSUME IF Len(line.content) < 2 \/ line.position = 0 THEN Bell /\ UNCHANGED completion
             ELSE Edit(Transposed)
      PROVE  EditorInv'
    <2>1. CASE Len(line.content) < 2 \/ line.position = 0
        BY <1>1, <1>9, <2>1, BellKeeps
    <2>2. CASE ~(Len(line.content) < 2 \/ line.position = 0)
        <3>1. Len(line.content) \in Nat
            BY <1>1, LettersAndSpaces DEF Good, Lines
        <3>2. Good(Transposed)
            BY <1>1, <2>2, <3>1, Swapped
        <3> QED BY <1>1, <1>9, <2>2, <3>2, EditKeeps
    <2> QED BY <2>1, <2>2
<1> QED BY <1>2, <1>3, <1>4, <1>5, <1>6, <1>7, <1>8, <1>9 DEF Key

LEMMA ClearKeeps ==
    ASSUME EditorInv, ClearLine
    PROVE  EditorInv'
<1>1. PastInv'
    BY DEF ClearLine, EditorInv, PastInv, HistoryIds
<1>2. Good(SetLine(<<>>))
    BY SetIsGood, LettersAndSpaces DEF EditorInv, LineInv
<1> QED BY <1>1, <1>2, EditKeeps DEF ClearLine

LEMMA ResizeKeeps ==
    ASSUME EditorInv, Resize
    PROVE  EditorInv'
<1>1. /\ max' \in Windows /\ resized' = TRUE /\ line' = line /\ reverse' = reverse
      /\ search_line' = search_line /\ history' = history /\ UNCHANGED <<past, completion>>
    BY DEF Resize, search, past
<1>2. LineInv'
    BY <1>1 DEF EditorInv, LineInv, CursorShown, Good
<1>3. SearchInv'
    BY <1>1 DEF EditorInv, SearchInv, HistoryIds, TextOf, Place, HasPart
<1>4. PastInv' /\ CompletionInv'
    BY <1>1, PastIsKept, LengthIsKept DEF EditorInv
<1> QED BY <1>2, <1>3, <1>4 DEF EditorInv

LEMMA PrintKeeps ==
    ASSUME EditorInv, CON_attributed_print
    PROVE  EditorInv'
<1>1. /\ max' = max /\ reverse' = reverse
      /\ search_line' = search_line /\ history' = history /\ UNCHANGED <<past, completion>>
    BY DEF CON_attributed_print, search, past
<1>2. LineInv' /\ line'.content = line.content /\ line'.position = line.position
    BY <1>1, DrawnIsShown DEF EditorInv, LineInv, CON_attributed_print
<1>3. SearchInv'
    BY <1>1, <1>2 DEF EditorInv, SearchInv, HistoryIds, TextOf, Place, HasPart
<1>4. PastInv' /\ CompletionInv'
    BY <1>1, <1>2, PastIsKept, LengthIsKept DEF EditorInv
<1> QED BY <1>2, <1>3, <1>4 DEF EditorInv

-----------------------------------------------------------------------------
(* The history *)

LEMMA EntriesAreTexts ==
    ASSUME PastInv
    PROVE  /\ Len(history) \in Nat /\ DOMAIN history = 1 .. Len(history)
           /\ \A i \in 1 .. Len(history) :
                 history[i] \in Entries /\ history[i].id \in EntryIds /\ history[i].text \in Texts
           /\ HistoryIds = {history[i].id : i \in 1 .. Len(history)}
           /\ HistoryIds \subseteq EntryIds
<1>1. history \in Seq(Entries)
    BY DEF PastInv
<1>2. Len(history) \in Nat /\ DOMAIN history = 1 .. Len(history)
    BY <1>1, LenProperties
<1>3. \A i \in 1 .. Len(history) : history[i] \in Entries
    BY <1>1, ElementOfSeq
<1>4. \A e \in Entries : e.id \in EntryIds /\ e.text \in Texts
    BY DEF Entries
<1> QED BY <1>2, <1>3, <1>4 DEF HistoryIds

(* An entry is found by its id. *)
LEMMA PlaceIsThere ==
    ASSUME PastInv, NEW id \in HistoryIds
    PROVE  Place(id) \in 1 .. Len(history) /\ history[Place(id)].id = id
<1>1. DOMAIN history = 1 .. Len(history) /\ \E i \in 1 .. Len(history) : history[i].id = id
    BY EntriesAreTexts
<1> QED BY <1>1 DEF Place

LEMMA PlaceOfEntry ==
    ASSUME PastInv, NEW i \in 1 .. Len(history)
    PROVE  /\ history[i].id \in HistoryIds /\ Place(history[i].id) = i
           /\ TextOf(history[i].id) = history[i].text
<1>1. history[i].id \in HistoryIds
    BY EntriesAreTexts
<1>2. Place(history[i].id) = i
    BY <1>1, PlaceIsThere DEF PastInv
<1> QED BY <1>1, <1>2 DEF TextOf

LEMMA TextsOfIds ==
    ASSUME PastInv, NEW id \in HistoryIds
    PROVE  TextOf(id) \in Texts
BY PlaceIsThere, EntriesAreTexts DEF TextOf

(* There are more ids than entries. *)
LEMMA FreeIsFree ==
    ASSUME PastInv
    PROVE  FreeId \in EntryIds /\ FreeId \notin HistoryIds
<1> DEFINE n == Len(history)
<1>1. n \in Nat /\ n <= MaxHistory
    BY EntriesAreTexts DEF PastInv
<1>2. MaxHistory + 2 \in Nat /\ MaxHistory \in Nat
    BY EditorAssumption
<1>3. \A id \in HistoryIds : Place(id) \in 1 .. n /\ history[Place(id)].id = id
    BY PlaceIsThere
<1> HIDE DEF n
<1>4. IsFiniteSet(1 .. n) /\ Cardinality(1 .. n) = n
    BY <1>1, FS_Interval
<1>5. IsFiniteSet(EntryIds) /\ Cardinality(EntryIds) = MaxHistory + 2
    BY <1>2, FS_Interval DEF EntryIds
<1>6. Cardinality(1 .. n) < Cardinality(EntryIds)
    BY <1>1, <1>2, <1>4, <1>5
<1>7. EntryIds \ HistoryIds # {}
    <2>1. SUFFICES ASSUME EntryIds \subseteq HistoryIds PROVE FALSE
        OBVIOUS
    <2> DEFINE f == [id \in EntryIds |-> Place(id)]
    <2>2. f \in [EntryIds -> 1 .. n]
        BY <1>3, <2>1
    <2>3. \A id \in EntryIds : f[id] = Place(id)
        OBVIOUS
    <2> HIDE DEF f
    <2>4. \E x, y \in EntryIds : x # y /\ f[x] = f[y]
        BY <1>4, <1>5, <1>6, <2>2, FS_PigeonHole
    <2> QED BY <1>3, <2>1, <2>3, <2>4
<1>8. EntryIds \ HistoryIds \subseteq Nat
    BY <1>2 DEF EntryIds
<1>9. FreeId \in EntryIds \ HistoryIds
    BY <1>7, <1>8, LeastIsThere DEF FreeId, EntryIds
<1> QED BY <1>9

(* reverse_find comes to the entry with the text that is entered. *)
LEMMA DuplicateIsFound ==
    ASSUME PastInv, NEW text
    PROVE  /\ Duplicate(text) \in 0 .. Len(history)
           /\ \A i \in 1 .. Len(history) : history[i].text = text => i = Duplicate(text)
<1> DEFINE n == Len(history)
           T == {i \in DOMAIN history : history[i].text = text}
           S == {0} \cup T
<1>1. n \in Nat /\ DOMAIN history = 1 .. n
    BY EntriesAreTexts
<1>2. T \subseteq 1 .. n /\ \A i \in 1 .. n : history[i].text = text <=> i \in T
    BY <1>1
<1>3. \A i, j \in T : i = j
    BY <1>2 DEF PastInv
<1>4. Duplicate(text) = Max(S)
    BY DEF Duplicate
<1> HIDE DEF T
<1>5. S \subseteq 0 .. n /\ S # {}
    BY <1>1, <1>2
<1>6. Max(S) \in S /\ (\A y \in S : Max(S) >= y) /\ Max(S) \in 0 .. n
    <2> HIDE DEF S
    <2> QED BY <1>1, <1>5, GreatestIsThere
<1>7. ASSUME NEW i \in T PROVE i = Max(S)
    <2>1. i \in 1 .. n /\ Max(S) >= i
        BY <1>2, <1>6
    <2>2. Max(S) # 0
        BY <1>1, <1>6, <2>1
    <2>3. Max(S) \in T
        BY <1>6, <2>2
    <2> QED BY <1>3, <2>3
<1> QED BY <1>2, <1>4, <1>6, <1>7

(* The entries that stay, in their order. *)
LEMMA OthersStay ==
    ASSUME PastInv, NEW d \in 0 .. Len(history)
    PROVE  LET others == IF d = 0 THEN history ELSE RemoveAt(history, d)
           IN  /\ others \in Seq(Entries)
               /\ Len(others) = IF d = 0 THEN Len(history) ELSE Len(history) - 1
               /\ \A i \in 1 .. Len(others) :
                     LET k == IF d = 0 \/ i < d THEN i ELSE i + 1
                     IN  k \in 1 .. Len(history) /\ k # d /\ others[i] = history[k]
<1> DEFINE others == IF d = 0 THEN history ELSE RemoveAt(history, d)
           n == Len(history)
<1>1. history \in Seq(Entries) /\ n \in Nat
    BY LenProperties DEF PastInv
<1>2. CASE d = 0
    BY <1>1, <1>2
<1>3. CASE d # 0
    <2> DEFINE cnt == d - 1
               p == d + 1
               first == SubSeq(history, 1, cnt)
               last == SubSeq(history, p, n)
    <2>1. cnt \in Int /\ p \in Int /\ n \in Int /\ 0 <= cnt /\ cnt < n /\ p = cnt + 2 /\ d = cnt + 1
        BY <1>1, <1>3
    <2>2. others = first \o last
        BY <1>3 DEF RemoveAt
    <2> HIDE DEF cnt, p
    <2>3. \A i \in 1 .. n : history[i] \in Entries
        BY <1>1, ElementOfSeq
    <2> HIDE DEF n
    <2>4. (\A i \in 1 .. cnt : history[i] \in Entries) /\ (\A i \in p .. n : history[i] \in Entries)
        BY <2>1, <2>3
    <2>5. /\ first \in Seq(Entries) /\ Len(first) = IF 1 <= cnt THEN cnt - 1 + 1 ELSE 0
          /\ \A i \in 1 .. cnt - 1 + 1 : first[i] = history[1 + i - 1]
        BY <2>1, <2>4, SubSeqProperties
    <2>6. /\ last \in Seq(Entries) /\ Len(last) = IF p <= n THEN n - p + 1 ELSE 0
          /\ \A i \in 1 .. n - p + 1 : last[i] = history[p + i - 1]
        BY <2>1, <2>4, SubSeqProperties
    <2> HIDE DEF first, last
    <2> DEFINE a == Len(first)
               b == Len(last)
    <2>7. a = cnt /\ \A i \in 1 .. cnt : first[i] = history[i]
        BY <2>1, <2>5
    <2>8. b = n - p + 1
        BY <2>1, <2>6
    <2>9. /\ first \o last \in Seq(Entries) /\ Len(first \o last) = a + b
          /\ \A i \in 1 .. a + b : (first \o last)[i] = IF i <= a THEN first[i] ELSE last[i - a]
        BY <2>5, <2>6, ConcatProperties
    <2> HIDE DEF a, b
    <2>9a. a + b = n - 1 /\ n - p + 1 = n - cnt - 1
        BY <2>1, <2>7, <2>8
    <2>10. ASSUME NEW i \in 1 .. n - 1
           PROVE  LET k == IF i < d THEN i ELSE i + 1
                  IN  k \in 1 .. n /\ k # d /\ (first \o last)[i] = history[k]
        <3>0. i \in 1 .. a + b
            BY <2>9a
        <3>1. CASE i < d
            <4>1. i \in 1 .. cnt /\ i <= a
                BY <2>1, <2>7, <3>1
            <4>2. (first \o last)[i] = first[i]
                BY <2>9, <3>0, <4>1
            <4>3. i \in 1 .. n /\ i # d
                BY <2>1, <3>1
            <4> QED BY <2>7, <3>1, <4>1, <4>2, <4>3
        <3>2. CASE ~(i < d)
            <4> DEFINE j == i - cnt
                       k == i + 1
            <4>1. ~(i <= a) /\ i - a = j
                BY <2>1, <2>7, <3>2
            <4>2. j \in 1 .. n - p + 1
                BY <2>1, <3>2
            <4>3. p + j - 1 = k
                BY <2>1
            <4>4. k \in 1 .. n /\ k # d
                BY <2>1, <3>2
            <4> HIDE DEF j
            <4>5. (first \o last)[i] = last[j]
                BY <2>9, <3>0, <4>1
            <4>6. last[j] = history[p + j - 1]
                BY <2>6, <4>2
            <4>7. (first \o last)[i] = history[k]
                BY <4>3, <4>5, <4>6
            <4> QED BY <3>2, <4>4, <4>7
        <3> QED BY <3>1, <3>2
    <2> HIDE DEF others
    <2>11. others \in Seq(Entries) /\ Len(others) = n - 1
        BY <2>2, <2>9, <2>9a
    <2>12. \A i \in 1 .. Len(others) :
                     LET k == IF d = 0 \/ i < d THEN i ELSE i + 1
                     IN  k \in 1 .. n /\ k # d /\ others[i] = history[k]
        BY <1>3, <2>2, <2>10, <2>11
    <2> QED BY <1>3, <2>11, <2>12 DEF others, n
<1> QED BY <1>2, <1>3

(* The entry put at the end has an id and a text that no other has. *)
LEMMA RememberedKeeps ==
    ASSUME PastInv, NEW text \in Texts, Len(Remembered(text)) <= MaxHistory
    PROVE  LET h == Remembered(text)
           IN  /\ h \in Seq(Entries)
               /\ \A i, j \in 1 .. Len(h) : h[i].id = h[j].id => i = j
               /\ \A i, j \in 1 .. Len(h) : h[i].text = h[j].text => i = j
<1> DEFINE d == Duplicate(text)
           n == Len(history)
           others == IF d = 0 THEN history ELSE RemoveAt(history, d)
           e == [id |-> FreeId, text |-> text]
           h == Append(others, e)
           K(i) == IF d = 0 \/ i < d THEN i ELSE i + 1
<1>1. Remembered(text) = h
    BY DEF Remembered
<1>2. d \in 0 .. n /\ \A i \in 1 .. n : history[i].text = text => i = d
    BY DuplicateIsFound
<1>3. e \in Entries /\ e.id = FreeId /\ e.text = text /\ FreeId \notin HistoryIds
    BY FreeIsFree DEF Entries
<1>4. n \in Nat /\ \A i \in 1 .. n : history[i].id \in HistoryIds
    BY EntriesAreTexts
<1> HIDE DEF d, e
<1>5. /\ others \in Seq(Entries)
      /\ \A i \in 1 .. Len(others) : K(i) \in 1 .. n /\ K(i) # d /\ others[i] = history[K(i)]
    BY <1>2, OthersStay
<1> HIDE DEF others
<1> DEFINE cnt == Len(others)
<1>6. /\ h \in Seq(Entries) /\ Len(h) = cnt + 1 /\ cnt \in Nat
      /\ \A i \in 1 .. cnt : h[i] = others[i]
      /\ h[cnt + 1] = e
    BY <1>3, <1>5, AppendProperties, LenProperties
<1>7. \A i, j \in 1 .. cnt : K(i) = K(j) => i = j
    BY <1>2, <1>4, <1>6
<1> HIDE DEF K, h, cnt, n
<1>8. \A i \in 1 .. cnt : h[i] = history[K(i)] /\ K(i) \in 1 .. n /\ h[i].id # FreeId /\ h[i].text # text
    BY <1>2, <1>3, <1>4, <1>5, <1>6 DEF cnt
<1>9. \A i, j \in 1 .. n : history[i].id = history[j].id \/ history[i].text = history[j].text => i = j
    BY DEF PastInv, n
<1>10. ASSUME NEW i \in 1 .. cnt + 1, NEW j \in 1 .. cnt + 1, h[i].id = h[j].id \/ h[i].text = h[j].text
       PROVE  i = j
    <2>1. CASE i \in 1 .. cnt /\ j \in 1 .. cnt
        BY <1>7, <1>8, <1>9, <1>10, <2>1
    <2>2. CASE i = cnt + 1 /\ j \in 1 .. cnt
        BY <1>3, <1>6, <1>8, <1>10, <2>2
    <2>3. CASE i \in 1 .. cnt /\ j = cnt + 1
        BY <1>3, <1>6, <1>8, <1>10, <2>3
    <2>4. CASE i = cnt + 1 /\ j = cnt + 1
        BY <2>4
    <2> QED BY <1>6, <2>1, <2>2, <2>3, <2>4
<1> QED BY <1>1, <1>6, <1>10

LEMMA EnterKeeps ==
    ASSUME EditorInv, Enter
    PROVE  EditorInv'
<1>1. ~reverse /\ UNCHANGED <<max, search>> /\ NotCompleting /\ PastInv /\ Good(line)
    BY DEF Enter, EditorInv, LineInv
<1>2. CASE line.content = <<>>
    BY <1>1, <1>2, PastIsKept, BellKeeps DEF Enter
<1>3. CASE line.content # <<>>
    <2>1. /\ history' = Remembered(line.content) /\ Len(history') <= MaxHistory
          /\ Drawn(SetLine(<<>>)) /\ history_line' = 0
        BY <1>3 DEF Enter
    <2>2. line.content \in Texts
        BY <1>1 DEF Good, Lines
    <2>3. PastInv'
        BY <1>1, <2>1, <2>2, RememberedKeeps DEF PastInv
    <2>4. Good(SetLine(<<>>))
        BY <1>1, SetIsGood, LettersAndSpaces
    <2> QED BY <1>1, <2>1, <2>3, <2>4, EditKeeps DEF Edit
<1> QED BY <1>2, <1>3

(* The history stays, and the place in it is one of its entries. *)
LEMMA MovedInPast ==
    ASSUME PastInv, history' = history, history_line' \in HistoryIds \cup {0}
    PROVE  PastInv'
BY DEF PastInv, HistoryIds

LEMMA ShowKeeps ==
    ASSUME EditorInv, ~reverse, UNCHANGED <<max, history, search>>,
           NEW i \in 1 .. Len(history), Show(history[i].id)
    PROVE  EditorInv'
<1> DEFINE id == history[i].id
<1>1. PastInv /\ Good(line)
    BY DEF EditorInv, LineInv
<1>2. id \in HistoryIds
    BY <1>1, PlaceOfEntry
<1>3. history_line' = id /\ Edit(SetLine(TextOf(id)))
    BY DEF Show
<1> HIDE DEF id
<1>4. PastInv'
    BY <1>1, <1>2, <1>3, MovedInPast
<1>5. Good(SetLine(TextOf(id)))
    BY <1>1, <1>2, TextsOfIds, SetIsGood
<1> QED BY <1>3, <1>4, <1>5, EditKeeps

LEMMA UpKeeps ==
    ASSUME EditorInv, Up
    PROVE  EditorInv'
<1>1. ~reverse /\ UNCHANGED <<max, history, search>> /\ PastInv /\ Len(history) \in Nat
      /\ history \in Seq(Entries)
    BY EntriesAreTexts DEF Up, EditorInv, PastInv
<1>2. CASE history = <<>>
    <2>1. Bell /\ UNCHANGED <<history_line, completion>>
        BY <1>2 DEF Up
    <2>2. PastInv'
        BY <1>1, <2>1, MovedInPast DEF PastInv
    <2> QED BY <1>1, <2>1, <2>2, BellKeeps
<1>3. CASE history # <<>>
    <2>0. Len(history) >= 1
        BY <1>1, <1>3, EmptySeq
    <2>1. CASE history_line = 0
        <3>1. Show(history[Len(history)].id)
            BY <1>3, <2>1 DEF Up, Last
        <3> QED BY <1>1, <2>0, <3>1, ShowKeeps
    <2>2. CASE history_line # 0 /\ Place(history_line) > 1
        <3> DEFINE i == Place(history_line) - 1
        <3>1. history_line \in HistoryIds
            BY <1>1, <2>2 DEF PastInv
        <3>2. i \in 1 .. Len(history)
            BY <1>1, <2>2, <3>1, PlaceIsThere
        <3>3. Show(history[i].id)
            BY <1>3, <2>2 DEF Up
        <3> HIDE DEF i
        <3> QED BY <1>1, <3>2, <3>3, ShowKeeps
    <2>3. CASE history_line # 0 /\ ~(Place(history_line) > 1)
        <3>1. Bell /\ history_line' = history[1].id /\ UNCHANGED completion
            BY <1>3, <2>3 DEF Up
        <3>2. history[1].id \in HistoryIds
            BY <1>1, <2>0, PlaceOfEntry
        <3>3. PastInv'
            BY <1>1, <3>1, <3>2, MovedInPast
        <3> QED BY <1>1, <3>1, <3>3, BellKeeps
    <2> QED BY <2>1, <2>2, <2>3
<1> QED BY <1>2, <1>3

LEMMA DownKeeps ==
    ASSUME EditorInv, Down
    PROVE  EditorInv'
<1>1. ~reverse /\ UNCHANGED <<max, history, search>> /\ PastInv /\ Len(history) \in Nat /\ Good(line)
    BY EntriesAreTexts DEF Down, EditorInv, LineInv
<1>2. CASE history_line = 0
    <2>1. Bell /\ UNCHANGED <<history_line, completion>>
        BY <1>2 DEF Down
    <2>2. PastInv'
        BY <1>1, <2>1, MovedInPast DEF PastInv
    <2> QED BY <1>1, <2>1, <2>2, BellKeeps
<1>3. CASE history_line # 0 /\ Place(history_line) < Len(history)
    <2> DEFINE i == Place(history_line) + 1
    <2>1. history_line \in HistoryIds
        BY <1>1, <1>3 DEF PastInv
    <2>2. i \in 1 .. Len(history)
        BY <1>1, <1>3, <2>1, PlaceIsThere
    <2>3. Show(history[i].id)
        BY <1>3 DEF Down
    <2> HIDE DEF i
    <2> QED BY <1>1, <2>2, <2>3, ShowKeeps
<1>4. CASE history_line # 0 /\ ~(Place(history_line) < Len(history))
    <2>1. history_line' = 0 /\ Edit(SetLine(<<>>))
        BY <1>4 DEF Down
    <2>2. PastInv'
        BY <1>1, <2>1, MovedInPast
    <2>3. Good(SetLine(<<>>))
        BY <1>1, SetIsGood, LettersAndSpaces
    <2> QED BY <1>1, <2>1, <2>2, <2>3, EditKeeps
<1> QED BY <1>2, <1>3, <1>4

-----------------------------------------------------------------------------
(* The search *)

(* What an entry contains, it contains the beginning of. *)
LEMMA PartOfPart ==
    ASSUME NEW text \in Texts, NEW part \in Texts, NEW less \in Texts, HasPart(text, part),
           Len(less) <= Len(part), \A i \in 1 .. Len(less) : less[i] = part[i]
    PROVE  HasPart(text, less)
<1> DEFINE n == Len(text)
           cnt == Len(part)
           k == Len(less)
<1>1. n \in Nat /\ cnt \in Nat /\ k \in Nat /\ k <= cnt
    BY LettersAndSpaces
<1>2. PICK i \in 0 .. n - cnt : SubSeq(text, i + 1, i + cnt) = part
    BY DEF HasPart
<1> DEFINE from == i + 1
           to == i + cnt
           last == i + k
<1>3. /\ from \in Int /\ to \in Int /\ last \in Int /\ 1 <= from /\ last <= to /\ to <= n
      /\ i \in 0 .. n - k /\ from = i + 1 /\ to = i + cnt /\ last = i + k /\ i \in Nat
    BY <1>1, <1>2
<1> HIDE DEF from, to, last, n, cnt, k
<1>4. \A j \in 1 .. to - from + 1 : SubSeq(text, from, to)[j] = text[from + j - 1]
    BY <1>3, TextCut DEF n
<1>5. /\ SubSeq(text, from, last) \in Texts
      /\ Len(SubSeq(text, from, last)) = IF from <= last THEN last - from + 1 ELSE 0
      /\ \A j \in 1 .. last - from + 1 : SubSeq(text, from, last)[j] = text[from + j - 1]
    BY <1>1, <1>3, TextCut DEF n
<1>6. Len(SubSeq(text, from, last)) = k /\ last - from + 1 = k /\ to - from + 1 = cnt
    BY <1>1, <1>3, <1>5
<1>7. \A j \in 1 .. k : SubSeq(text, from, last)[j] = less[j]
    <2> SUFFICES ASSUME NEW j \in 1 .. k PROVE SubSeq(text, from, last)[j] = less[j]
        OBVIOUS
    <2>1. j \in 1 .. cnt
        BY <1>1
    <2>2. SubSeq(text, from, last)[j] = text[from + j - 1]
        BY <1>5, <1>6
    <2>3. part[j] = text[from + j - 1]
        BY <1>2, <1>4, <1>6, <2>1 DEF from, to
    <2> QED BY <2>2, <2>3 DEF k
<1>8. SubSeq(text, from, last) = less
    BY <1>5, <1>6, <1>7, SeqEqual DEF Texts, k
<1> QED BY <1>3, <1>8 DEF HasPart, from, last, n, k

(* What reverse_find finds contains the text, or is nothing. *)
LEMMA FoundHasPart ==
    ASSUME PastInv, NEW from \in 0 .. Len(history), NEW part
    PROVE  /\ Found(from, part) \in HistoryIds \cup {0}
           /\ Found(from, part) # 0 => HasPart(TextOf(Found(from, part)), part)
<1> DEFINE S == {0} \cup {i \in 1 .. from : HasPart(history[i].text, part)}
           n == Len(history)
<1>1. n \in Nat /\ from \in 0 .. n
    BY EntriesAreTexts
<1>2. S \subseteq 0 .. n /\ S # {}
    <2>1. \A i \in 1 .. from : i \in 0 .. n
        BY <1>1
    <2>2. 0 \in 0 .. n
        BY <1>1
    <2> QED BY <2>1, <2>2, Zenon
<1>3. Find(from, part) = Max(S)
    BY DEF Find
<1>4. Find(from, part) \in S
    <2> HIDE DEF S
    <2> QED BY <1>1, <1>2, <1>3, GreatestIsThere
<1>5. CASE Find(from, part) = 0
    BY <1>5 DEF Found
<1>6. CASE Find(from, part) # 0
    <2> DEFINE i == Find(from, part)
    <2>1. i \in 1 .. from /\ HasPart(history[i].text, part)
        BY <1>4, <1>6
    <2>2. i \in 1 .. n
        BY <1>1, <2>1
    <2>3. Found(from, part) = history[i].id
        BY <1>6 DEF Found
    <2> HIDE DEF i, n
    <2>4. history[i].id \in HistoryIds /\ TextOf(history[i].id) = history[i].text
        BY <2>2, PlaceOfEntry DEF n
    <2> QED BY <2>1, <2>3, <2>4
<1> QED BY <1>5, <1>6

LEMMA BeginKeeps ==
    ASSUME EditorInv, SearchBegins
    PROVE  EditorInv'
<1>1. /\ ~reverse /\ reverse' = TRUE /\ Drawn(SetLine(<<>>)) /\ NotCompleting
      /\ max' = max /\ UNCHANGED past /\ search_line' = 0
    BY DEF SearchBegins, EditorInv, SearchInv
<1>2. /\ Good(SetLine(<<>>)) /\ SetLine(<<>>).content = <<>> /\ SetLine(<<>>).position = Len(<<>>)
    BY SetIsGood, LettersAndSpaces DEF EditorInv, LineInv
<1>3. LineInv' /\ line'.content = <<>> /\ line'.position = Len(<<>>)
    BY <1>1, <1>2, DrawnIsShown DEF EditorInv, LineInv
<1>4. CompletionInv'
    BY <1>1, <1>3, NothingInserted DEF LineInv
<1>5. SearchInv'
    BY <1>1, <1>3 DEF SearchInv
<1> QED BY <1>1, <1>3, <1>4, <1>5, PastIsKept DEF EditorInv

(* The search has the line and what is found to keep. *)
LEMMA SearchStepKeeps ==
    ASSUME EditorInv, reverse, UNCHANGED <<max, past, reverse, completion>>, LineInv',
           line'.position = Len(line'.content),
           search_line' \in HistoryIds \cup {0},
           search_line' # 0 => HasPart(TextOf(search_line'), line'.content)
    PROVE  EditorInv'
<1>1. /\ history' = history /\ HistoryIds' = HistoryIds
      /\ reverse' = TRUE /\ UNCHANGED completion /\ UNCHANGED past
    BY DEF past, HistoryIds, EditorInv, LineInv
<1>2. SearchInv'
    BY <1>1 DEF SearchInv, TextOf, Place, HistoryIds
<1>3. CompletionInv'
    <2>1. ~typed.active /\ completion_length = 0 /\ line'.position \in Nat
        BY DEF EditorInv, CompletionInv, LineInv, Good, Lines
    <2> QED BY <1>1, <2>1 DEF EditorInv, CompletionInv, OnlyTheCompletion, completion
<1> QED BY <1>1, <1>2, <1>3, PastIsKept DEF EditorInv

(* Going back in what is searched finds what was found. *)
LEMMA SearchLess ==
    ASSUME EditorInv, reverse, UNCHANGED <<max, past, reverse, completion, search_line>>,
           NEW size \in Nat, size <= line.position, Drawn(DeleteBack(size))
    PROVE  EditorInv'
<1> DEFINE l == DeleteBack(size)
           k == Len(line.content) - size
<1>1. Good(line) /\ line.position = Len(line.content) /\ line.content \in Texts
      /\ Len(line.content) \in Nat
    BY LettersAndSpaces DEF EditorInv, LineInv, SearchInv, Good, Lines
<1>2. /\ Good(l) /\ l.position = Len(l.content) /\ Len(l.content) = k
      /\ \A i \in 1 .. k : l.content[i] = line.content[i]
    BY <1>1, DeletedBack
<1>3. k \in Nat /\ k <= Len(line.content)
    BY <1>1
<1> HIDE DEF l, k
<1>4. LineInv' /\ line'.content = l.content /\ line'.position = l.position
    BY <1>2, DrawnIsShown DEF EditorInv, LineInv, l
<1>5. l.content \in Texts
    BY <1>2 DEF Good, Lines
<1>6. ASSUME search_line # 0 PROVE HasPart(TextOf(search_line), l.content)
    <2>1. search_line \in HistoryIds /\ HasPart(TextOf(search_line), line.content) /\ PastInv
        BY <1>6 DEF EditorInv, SearchInv
    <2>2. TextOf(search_line) \in Texts
        BY <2>1, TextsOfIds
    <2> QED BY <1>1, <1>2, <1>3, <1>5, <2>1, <2>2, PartOfPart
<1>7. search_line' = search_line /\ search_line \in HistoryIds \cup {0}
    BY DEF EditorInv, SearchInv
<1> QED BY <1>2, <1>4, <1>6, <1>7, SearchStepKeeps

LEMMA SearchKeyKeeps ==
    ASSUME EditorInv, SearchKey
    PROVE  EditorInv'
<1>1. /\ reverse /\ UNCHANGED <<max, past, reverse, completion>> /\ max' = max /\ reverse' = reverse
      /\ PastInv /\ Good(line) /\ line.position = Len(line.content) /\ Len(history) \in Nat
      /\ search_line \in HistoryIds \cup {0} /\ max \in Windows /\ reverse' \in BOOLEAN
      /\ resized \in BOOLEAN
    BY EntriesAreTexts DEF SearchKey, EditorInv, LineInv, SearchInv
<1>2. ASSUME NEW c \in Characters, Drawn(Insert(c)),
             search_line' = Found(IF search_line = 0 THEN Len(history) ELSE Place(search_line),
                                  line'.content)
      PROVE  EditorInv'
    <2> DEFINE from == IF search_line = 0 THEN Len(history) ELSE Place(search_line)
    <2>1. from \in 0 .. Len(history)
        <3>1. CASE search_line = 0
            BY <1>1, <3>1
        <3>2. CASE search_line # 0
            <4>1. Place(search_line) \in 1 .. Len(history)
                BY <1>1, <3>2, PlaceIsThere
            <4> QED BY <1>1, <3>2, <4>1
        <3> QED BY <3>1, <3>2
    <2>2. search_line' = Found(from, line'.content)
        BY <1>2
    <2> HIDE DEF from
    <2>3. Good(Insert(c)) /\ Insert(c).position = Len(Insert(c).content)
        BY <1>1, Inserted
    <2>4. LineInv' /\ line'.content = Insert(c).content /\ line'.position = Insert(c).position
        BY <1>1, <1>2, <2>3, DrawnIsShown
    <2>5. /\ Found(from, line'.content) \in HistoryIds \cup {0}
          /\ Found(from, line'.content) # 0 => HasPart(TextOf(Found(from, line'.content)), line'.content)
        BY <1>1, <2>1, FoundHasPart
    <2> QED BY <1>1, <2>2, <2>3, <2>4, <2>5, SearchStepKeeps
<1>3. ASSUME search_line' = Found(IF search_line = 0 THEN Len(history) ELSE Place(search_line) - 1,
                                  line.content),
             Bell
      PROVE  EditorInv'
    <2> DEFINE from == IF search_line = 0 THEN Len(history) ELSE Place(search_line) - 1
    <2>1. from \in 0 .. Len(history)
        <3>1. CASE search_line = 0
            BY <1>1, <3>1
        <3>2. CASE search_line # 0
            <4>1. Place(search_line) \in 1 .. Len(history)
                BY <1>1, <3>2, PlaceIsThere
            <4> QED BY <1>1, <3>2, <4>1
        <3> QED BY <3>1, <3>2
    <2>2. search_line' = Found(from, line.content)
        BY <1>3
    <2> HIDE DEF from
    <2>3. line' = line /\ resized' = resized
        BY <1>3 DEF Bell
    <2>4. LineInv'
        BY <1>1, <2>3 DEF EditorInv, LineInv, CursorShown, Good
    <2>5. /\ Found(from, line.content) \in HistoryIds \cup {0}
          /\ Found(from, line.content) # 0 => HasPart(TextOf(Found(from, line.content)), line.content)
        BY <1>1, <2>1, FoundHasPart
    <2> QED BY <1>1, <2>2, <2>3, <2>4, <2>5, SearchStepKeeps
<1>4. ASSUME NEW l \in {DeleteBack(1), DeleteWord(FALSE)}, line.position > 0, Drawn(l),
             UNCHANGED search_line
      PROVE  EditorInv'
    <2>1. line.position \in Nat
        BY <1>1 DEF Good, Lines
    <2>2. CASE l = DeleteBack(1)
        BY <1>1, <1>4, <2>1, <2>2, SearchLess
    <2>3. CASE l = DeleteWord(FALSE)
        <3> DEFINE size == line.position - WordStart
        <3>1. WordStart \in 0 .. line.position - 1
            BY <1>1, <1>4, Words
        <3>2. size \in Nat /\ size <= line.position
            BY <2>1, <3>1
        <3>3. l = DeleteBack(size)
            BY <2>3 DEF DeleteWord
        <3> HIDE DEF size
        <3> QED BY <1>1, <1>4, <3>2, <3>3, SearchLess
    <2> QED BY <1>4, <2>2, <2>3
<1> QED BY <1>2, <1>3, <1>4 DEF SearchKey

(* The end of a search, with a line drawn. *)
LEMMA EndedKeeps ==
    ASSUME EditorInv, reverse, reverse' = FALSE, search_line' = 0, UNCHANGED <<max, past>>,
           NotCompleting \/ UNCHANGED completion, NEW l, Good(l), Drawn(l)
    PROVE  EditorInv'
<1>1. LineInv' /\ UNCHANGED past /\ max' = max
    BY DrawnIsShown DEF EditorInv, LineInv, past
<1>2. SearchInv'
    BY DEF SearchInv
<1>3. CompletionInv'
    <2>1. CASE NotCompleting
        BY <1>1, <2>1, NothingInserted DEF LineInv
    <2>2. CASE UNCHANGED completion
        <3>1. ~typed.active /\ completion_length = 0 /\ line'.position \in Nat
            BY <1>1 DEF EditorInv, CompletionInv, LineInv, Good, Lines
        <3> QED BY <2>2, <3>1 DEF EditorInv, CompletionInv, OnlyTheCompletion, completion
    <2> QED BY <2>1, <2>2
<1> QED BY <1>1, <1>2, <1>3, PastIsKept DEF EditorInv

LEMMA EndKeeps ==
    ASSUME EditorInv, SearchEnds
    PROVE  EditorInv'
<1>1. /\ reverse /\ reverse' = FALSE /\ search_line' = 0 /\ UNCHANGED <<max, past>>
      /\ UNCHANGED completion /\ Good(line) /\ PastInv
    BY DEF SearchEnds, EditorInv, LineInv, completion
<1>2. CASE search_line = 0
    BY <1>1, <1>2, EndedKeeps DEF SearchEnds
<1>3. CASE search_line # 0
    <2> DEFINE text == TextOf(search_line)
               n == Len(text)
               cnt == Len(line.content)
               P == {i \in 0 .. n - cnt : SubSeq(text, i + 1, i + cnt) = line.content}
               at == Min(P)
               p == at + cnt
    <2>1. Drawn([line EXCEPT !.content = text, !.position = p])
        BY <1>3 DEF SearchEnds
    <2>2. search_line \in HistoryIds /\ HasPart(text, line.content)
        BY <1>1, <1>3 DEF EditorInv, SearchInv
    <2>3. text \in Texts
        BY <1>1, <2>2, TextsOfIds
    <2>4. P # {}
        BY <2>2 DEF HasPart
    <2> HIDE DEF text
    <2>5. n \in Nat /\ cnt \in Nat /\ line \in Lines
        BY <1>1, <2>3, LettersAndSpaces DEF Good, Lines
    <2>6. P \subseteq 0 .. n - cnt
        OBVIOUS
    <2> HIDE DEF P, n, cnt
    <2>7. P \subseteq Nat
        BY <2>5, <2>6
    <2>8. at \in 0 .. n - cnt
        BY <2>4, <2>6, <2>7, LeastIsThere
    <2>9. p \in Nat /\ p <= n
        BY <2>5, <2>8
    <2> HIDE DEF p
    <2>10. /\ [line EXCEPT !.content = text, !.position = p] \in Lines
           /\ [line EXCEPT !.content = text, !.position = p].content = text
           /\ [line EXCEPT !.content = text, !.position = p].position = p
        BY <2>3, <2>5, <2>9 DEF Lines
    <2>11. Good([line EXCEPT !.content = text, !.position = p])
        BY <2>9, <2>10 DEF Good, n
    <2> QED BY <1>1, <2>1, <2>11, EndedKeeps
<1> QED BY <1>2, <1>3

LEMMA GiveUpKeeps ==
    ASSUME EditorInv, SearchGivenUp
    PROVE  EditorInv'
<1> DEFINE l == SetLine(<<>>)
<1>1. /\ reverse /\ reverse' = FALSE /\ search_line' = 0 /\ UNCHANGED <<max, past>>
      /\ NotCompleting /\ Drawn([l EXCEPT !.position = 0])
    BY DEF SearchGivenUp
<1>2. Good(l) /\ l.content = <<>>
    BY SetIsGood, LettersAndSpaces DEF EditorInv, LineInv
<1> HIDE DEF l
<1>3. /\ [l EXCEPT !.position = 0] \in Lines
      /\ [l EXCEPT !.position = 0].content = l.content
      /\ [l EXCEPT !.position = 0].position = 0
    BY <1>2 DEF Good, Lines
<1>4. Good([l EXCEPT !.position = 0])
    BY <1>2, <1>3, LettersAndSpaces DEF Good
<1> QED BY <1>1, <1>4, EndedKeeps

-----------------------------------------------------------------------------
(* The completion *)

LEMMA ShortTexts ==
    ASSUME NEW S, NEW c \in S, NEW d \in S
    PROVE  <<c>> \in Seq(S) /\ <<c, d>> \in Seq(S)
OBVIOUS

LEMMA EndingsAreTexts ==
    ASSUME NEW text, NEW i \in 1 .. Len(Suggestions(text))
    PROVE  Suggestions(text)[i] \in Texts
<1>1. "a" \in Characters /\ " " \in Characters
    BY DEF Characters
<1>2. <<"a", " ">> \in Texts /\ <<"a">> \in Texts
    BY <1>1, ShortTexts DEF Texts
<1>3. CASE text # <<>> /\ Last(text) = "a"
    <2> DEFINE s == <<"a", " ">>
               t == <<"a">>
    <2>1. Suggestions(text) = <<s, t>>
        BY <1>3 DEF Suggestions
    <2>2. s \in Texts /\ t \in Texts
        BY <1>2
    <2> HIDE DEF s, t
    <2>3. i \in {1, 2} /\ <<s, t>>[1] = s /\ <<s, t>>[2] = t
        BY <2>1
    <2> QED BY <2>1, <2>2, <2>3
<1>4. CASE ~(text # <<>> /\ Last(text) = "a")
    <2>1. Suggestions(text) = <<>> /\ Len(<<>>) = 0
        BY <1>4, LettersAndSpaces DEF Suggestions
    <2> QED BY <2>1
<1> QED BY <1>3, <1>4

(* The part of a joined text up to where it was joined, and the rest. *)
LEMMA Joined ==
    ASSUME NEW s \in Texts, NEW t \in Texts
    PROVE  SubSeq(s \o t, 1, Len(s)) = s /\ SubSeq(s \o t, Len(s) + 1, Len(s \o t)) = t
<1> DEFINE n == Len(s)
           cnt == Len(t)
           b == n + 1
           e == n + cnt
           u == s \o t
<1>1. n \in Nat /\ cnt \in Nat /\ b = n + 1 /\ e = n + cnt /\ b \in Int /\ e \in Int
    BY LettersAndSpaces
<1>2. u \in Texts /\ Len(u) = e
    BY LettersAndSpaces
<1>3. \A i \in 1 .. n + cnt : u[i] = IF i <= n THEN s[i] ELSE t[i - n]
    BY ConcatProperties DEF Texts
<1> HIDE DEF n, cnt, b, e, u
<1>4. /\ SubSeq(u, 1, n) \in Texts /\ Len(SubSeq(u, 1, n)) = IF 1 <= n THEN n - 1 + 1 ELSE 0
      /\ \A i \in 1 .. n - 1 + 1 : SubSeq(u, 1, n)[i] = u[1 + i - 1]
    BY <1>1, <1>2, TextCut
<1>5. Len(SubSeq(u, 1, n)) = n /\ \A i \in 1 .. n : SubSeq(u, 1, n)[i] = s[i]
    BY <1>1, <1>3, <1>4
<1>6. SubSeq(u, 1, n) = s
    BY <1>4, <1>5, SeqEqual DEF Texts, n
<1>7. /\ SubSeq(u, b, e) \in Texts /\ Len(SubSeq(u, b, e)) = IF b <= e THEN e - b + 1 ELSE 0
      /\ \A i \in 1 .. e - b + 1 : SubSeq(u, b, e)[i] = u[b + i - 1]
    BY <1>1, <1>2, TextCut
<1>8. Len(SubSeq(u, b, e)) = cnt
    BY <1>1, <1>7
<1>9. \A i \in 1 .. cnt : SubSeq(u, b, e)[i] = t[i]
    <2> SUFFICES ASSUME NEW i \in 1 .. cnt PROVE SubSeq(u, b, e)[i] = t[i]
        OBVIOUS
    <2> DEFINE j == n + i
    <2>1. /\ i \in 1 .. e - b + 1 /\ b + i - 1 = j /\ j \in 1 .. n + cnt
          /\ ~(j <= n) /\ j - n = i
        BY <1>1
    <2> HIDE DEF j
    <2>2. SubSeq(u, b, e)[i] = u[j]
        BY <1>7, <2>1
    <2>3. u[j] = t[j - n]
        BY <1>3, <2>1
    <2> QED BY <2>1, <2>2, <2>3
<1>10. SubSeq(u, b, e) = t
    BY <1>7, <1>8, <1>9, SeqEqual DEF Texts, cnt
<1> QED BY <1>2, <1>6, <1>10 DEF u, n, b

LEMMA TabKeeps ==
    ASSUME EditorInv, Tab
    PROVE  EditorInv'
<1> DEFINE n == line.position - completion_length
           before == SubSeq(line.content, 1, n)
           suggestions == Suggestions(before)
           after == After(line)
<1>1. /\ ~reverse /\ UNCHANGED <<max, past, search>> /\ max' = max /\ PastInv' /\ Good(line)
      /\ reverse' \in BOOLEAN /\ resized \in BOOLEAN /\ max \in Windows /\ reverse' = FALSE
      /\ search_line' = 0
    BY PastIsKept DEF Tab, EditorInv, LineInv, SearchInv, search
<1>2. /\ line.content \in Texts /\ line.position \in Nat /\ Len(line.content) \in Nat /\ line \in Lines
      /\ line.position <= Len(line.content) /\ completion_length \in Nat
      /\ completion_length <= line.position /\ complete_context \in Nat
    BY <1>1, LettersAndSpaces DEF Good, Lines, EditorInv, CompletionInv
<1>3. after \in Texts /\ Before(line) \in Texts
    BY <1>1, Sides
<1>4. n \in Nat /\ n <= Len(line.content)
    BY <1>2
<1>5. before \in Texts
    <2>1. \A s \in Texts : \A k \in Nat : k <= Len(s) => SubSeq(s, 1, k) \in Texts
        BY TextCut
    <2> HIDE DEF n
    <2> QED BY <1>2, <1>4, <2>1, Zenon
<1>6. /\ typed \in [before : Texts, after : Texts, active : BOOLEAN]
      /\ typed.active => before = typed.before /\ after = typed.after
      /\ ~typed.active => completion_length = 0
    BY DEF EditorInv, CompletionInv, OnlyTheCompletion
<1>7. ~typed.active => before = Before(line)
    BY <1>2, <1>6 DEF Before
<1>8. CASE complete_context < Len(suggestions) /\ Len(before \o After(line)) + 2 <= MaxLength
    <2> DEFINE ending == suggestions[complete_context + 1]
               head == before \o ending
               l == LineAt(head, after, line)
    <2>1. /\ Drawn(l)
          /\ complete_context' = complete_context + 1 /\ completion_length' = Len(ending)
          /\ typed' = IF typed.active THEN typed
                      ELSE [before |-> Before(line), after |-> After(line), active |-> TRUE]
        BY <1>8 DEF Tab
    <2>2. ending \in Texts
        <3> DEFINE k == complete_context + 1
        <3>1. Len(Suggestions(before)) \in Nat
            <4>1. Suggestions(before) = <<<<"a", " ">>, <<"a">>>> \/ Suggestions(before) = <<>>
                BY DEF Suggestions
            <4>2. Len(<<<<"a", " ">>, <<"a">>>>) = 2 /\ Len(<<>>) = 0
                BY LettersAndSpaces
            <4> QED BY <4>1, <4>2
        <3>2. k \in 1 .. Len(suggestions)
            BY <1>2, <1>8, <3>1
        <3> HIDE DEF k, before
        <3>3. Suggestions(before)[k] \in Texts
            BY <3>2, EndingsAreTexts
        <3> QED BY <3>3 DEF k
    <2> HIDE DEF ending, n, before, after
    <2>3. head \in Texts /\ Len(head) = Len(before) + Len(ending) /\ Len(before) \in Nat
          /\ Len(ending) \in Nat
        BY <1>5, <2>2, LettersAndSpaces
    <2>4. SubSeq(head, 1, Len(before)) = before
        BY <1>5, <2>2, Joined
    <2> HIDE DEF head
    <2>5. Good(l) /\ l.content = head \o after /\ l.position = Len(head)
        BY <1>2, <1>3, <2>3, LineAtIsGood
    <2> HIDE DEF l
    <2>6. LineInv' /\ line'.content = head \o after /\ line'.position = Len(head)
        BY <1>1, <2>1, <2>5, DrawnIsShown
    <2>7. After(line') = after
        <3>0. head \in Texts
            BY <2>3
        <3>1. SubSeq(head \o after, Len(head) + 1, Len(head \o after)) = after
            BY <1>3, <3>0, Joined, Zenon
        <3> QED BY <2>6, <3>1 DEF After
    <2>8. SubSeq(head \o after, 1, Len(before)) = before
        <3>1. head \o after = before \o (ending \o after)
            BY <1>3, <1>5, <2>2, ConcatAssociative DEF Texts, head
        <3>2. ending \o after \in Texts
            BY <1>3, <2>2, LettersAndSpaces
        <3> QED BY <1>5, <3>1, <3>2, Joined
    <2>9. line'.position - completion_length' = Len(before)
          /\ completion_length' <= line'.position
        BY <2>1, <2>3, <2>6
    <2>10. SubSeq(line'.content, 1, line'.position - completion_length') = before
        BY <2>6, <2>8, <2>9
    <2>11. /\ typed' \in [before : Texts, after : Texts, active : BOOLEAN]
           /\ typed'.active = TRUE /\ typed'.before = before /\ typed'.after = after
        <3>1. CASE typed.active
            BY <1>6, <2>1, <3>1
        <3>2. CASE ~typed.active
            <4> DEFINE w == Before(line)
                       a == After(line)
            <4>1. w \in Texts /\ a \in Texts /\ before = w /\ after = a
                BY <1>3, <1>7, <3>2 DEF after
            <4>2. typed' = [before |-> w, after |-> a, active |-> TRUE]
                BY <2>1, <3>2
            <4> HIDE DEF w, a
            <4> QED BY <4>1, <4>2
        <3> QED BY <3>1, <3>2
    <2>12. CompletionInv'
        <3>1. OnlyTheCompletion'
            BY <2>7, <2>10, <2>11 DEF OnlyTheCompletion, After
        <3>2. complete_context' \in Nat /\ completion_length' \in Nat
            BY <1>2, <2>1, <2>3
        <3> QED BY <1>1, <2>9, <2>11, <3>1, <3>2 DEF CompletionInv
    <2>13. SearchInv'
        BY <1>1 DEF SearchInv
    <2> QED BY <1>1, <2>6, <2>12, <2>13 DEF EditorInv
<1>9. CASE ~(complete_context < Len(suggestions) /\ Len(before \o After(line)) + 2 <= MaxLength)
    <2>1. Bell /\ UNCHANGED completion
        BY <1>9 DEF Tab
    <2> QED BY <1>1, <2>1, BellKeeps
<1> QED BY <1>8, <1>9

-----------------------------------------------------------------------------
(* The console begins with an empty line and no history. *)
LEMMA EditorStarts == EditorInit => EditorInv
<1> SUFFICES ASSUME EditorInit PROVE EditorInv
    OBVIOUS
<1>1. /\ line = [content |-> <<>>, position |-> 0, scroll |-> 0]
      /\ max \in Windows /\ history = <<>> /\ history_line = 0
      /\ reverse = FALSE /\ search_line = 0
      /\ complete_context = 0 /\ completion_length = 0 /\ typed = NoText
      /\ resized = FALSE
    BY DEF EditorInit
<1>2. max \in Nat /\ max > 0 /\ MaxHistory \in Nat
    BY <1>1, EditorAssumption
<1>3. <<>> \in Texts /\ Len(<<>>) = 0
    BY LettersAndSpaces
<1>4. line.content = <<>> /\ line.position = 0 /\ line.scroll = 0
    BY <1>1
<1>5. line \in Lines
    BY <1>1, <1>3 DEF Lines
<1>5a. Good(line)
    BY <1>3, <1>4, <1>5 DEF Good
<1>5b. CursorShown
    <2>1. line.position \in 0 .. 0 + max
        BY <1>2, <1>4
    <2> QED BY <1>4, <2>1 DEF CursorShown
<1>6. LineInv
    BY <1>1, <1>5a, <1>5b DEF LineInv
<1>7. SearchInv
    BY <1>1 DEF SearchInv
<1>8. <<>> \in Seq(Entries)
    BY EmptySeq
<1>9. PastInv
    BY <1>1, <1>2, <1>3, <1>8 DEF PastInv
<1>10. typed \in [before : Texts, after : Texts, active : BOOLEAN] /\ typed.active = FALSE
    BY <1>1, <1>3 DEF NoText
<1>11. CompletionInv
    BY <1>1, <1>4, <1>10 DEF CompletionInv, OnlyTheCompletion
<1> QED BY <1>6, <1>7, <1>9, <1>11 DEF EditorInv

(* Every key keeps it. *)
LEMMA EditorKeeps == EditorInv /\ [EditorNext]_editorVars => EditorInv'
<1> SUFFICES ASSUME EditorInv, [EditorNext]_editorVars PROVE EditorInv'
    OBVIOUS
<1>1. CASE UNCHANGED editorVars
    <2>1. /\ UNCHANGED <<line, max, history, history_line, reverse, search_line>>
          /\ UNCHANGED <<complete_context, completion_length, typed, resized>>
        BY <1>1 DEF editorVars
    <2>2. LineInv' /\ SearchInv' /\ PastInv' /\ CompletionInv'
        BY <2>1 DEF EditorInv, LineInv, SearchInv, PastInv, CompletionInv, Good, CursorShown,
                    OnlyTheCompletion, After, HistoryIds, TextOf, Place
    <2> QED BY <2>2 DEF EditorInv
<1>2. CASE Key \/ ClearLine \/ Enter \/ Up \/ Down \/ Tab
    BY <1>2, KeyKeeps, ClearKeeps, EnterKeeps, UpKeeps, DownKeeps, TabKeeps
<1>3. CASE SearchBegins \/ SearchKey \/ SearchEnds \/ SearchGivenUp
    BY <1>3, BeginKeeps, SearchKeyKeeps, EndKeeps, GiveUpKeeps
<1>4. CASE Resize \/ CON_attributed_print
    BY <1>4, ResizeKeeps, PrintKeeps
<1> QED BY <1>1, <1>2, <1>3, <1>4 DEF EditorNext

(* LineHolds: whatever the user types but Ctrl+Z, wherever it is resized   *)
(* and whenever the emulation prints, the cursor is in the window, the     *)
(* history's cursor and the search's are on entries that exist, and Tab    *)
(* has left what was typed around its completion.                          *)
THEOREM TheLineHolds == EditorSpec => []LineHolds
<1>1. EditorInv => LineHolds
    <2> SUFFICES ASSUME EditorInv PROVE LineHolds
        OBVIOUS
    <2>1. CursorShown /\ OnlyTheCompletion
        BY DEF EditorInv, LineInv, CompletionInv
    <2>2. HistoryAlive
        BY EntriesAreTexts DEF EditorInv, PastInv, SearchInv, HistoryAlive
    <2> QED BY <2>1, <2>2 DEF LineHolds
<1> QED BY <1>1, EditorStarts, EditorKeeps, PTL DEF EditorSpec

-----------------------------------------------------------------------------
(* The SDL application (module SdlMain) *)

SdlTyped ==
    /\ filename \in Games /\ running \in Games /\ battery_path \in Games
    /\ DOMAIN sav = Games /\ DOMAIN states = Games
    /\ pending_command = "load_state_from_file" => dropped_state_file \in Games

(***************************************************************************)
(* While nothing has strayed, the battery's file is the running game's and *)
(* the RAM has its data, or what the user has dropped on it, although      *)
(* another file may have been chosen: a save state, named after the chosen *)
(* file, is then not pending.                                              *)
(***************************************************************************)
KeptApart ==
    ~strayed =>
        /\ battery_path = running
        /\ ram \in Own(running)
        /\ pending_command \in {"save_state", "load_state"} => filename = running
        /\ \A g \in Games : states[g].game # "none" => states[g].ram \in Own(g)

\* The key that makes the game stand still is still down when it is read.
RewindHeld == rewind_paused \/ do_rewind => rewind_down \/ late

SdlInv == SdlTyped /\ KeptApart /\ FilesHoldTheirGame /\ RewindHeld

LEMMA SdlStarts == SdlInit => SdlInv
BY DEF SdlInit, SdlInv, SdlTyped, KeptApart, FilesHoldTheirGame, RewindHeld, NoCommand, Own

(* The battery is saved to the running game's file. *)
LEMMA BatteryIsItsGames ==
    ASSUME SdlInv
    PROVE  /\ DOMAIN SavedBattery = Games
           /\ ~strayed => \A g \in Games : SavedBattery[g] \in {"none"} \union Own(g)
BY DEF SdlInv, SdlTyped, KeptApart, FilesHoldTheirGame, SavedBattery

(* What is a game's own changes only when a save state is dropped on it. *)
LEMMA OwnStays == ASSUME given' = given PROVE \A g \in Games : Own(g)' = Own(g)
BY DEF Own

(* What the user drops on the running game becomes its own. *)
LEMMA DroppedIsOwn ==
    ASSUME SdlInv, LoadDropped
    PROVE  /\ \A g \in Games : Own(g) \subseteq Own(g)'
           /\ ~strayed => ram' \in Own(running)'
<1>1. /\ given' = given \union ({running} \X ({ram'} \ ({ram} \union {"blank", running.name})))
      /\ ram' = RamOf(dropped_state_file) /\ dropped_state_file \in Games /\ running \in Games
      /\ running' = running
  BY DEF LoadDropped, SdlInv, SdlTyped
<1>2. \A g \in Games : Own(g) \subseteq Own(g)'
  BY <1>1 DEF Own
<1>3. ASSUME ~strayed PROVE ram' \in Own(running)'
  <2>1. ram \in Own(running)
    BY <1>3 DEF SdlInv, KeptApart
  <2>2. CASE ram' \in {ram} \union {"blank", running.name}
    BY <1>1, <1>2, <2>1, <2>2 DEF Own
  <2>3. CASE ram' \notin {ram} \union {"blank", running.name}
    <3>1. states[dropped_state_file].game # "none" /\ ram' = states[dropped_state_file].ram
      BY <1>1, <2>3 DEF RamOf, Loadable
    <3>2. ram' \in Own(dropped_state_file)
      BY <1>1, <1>3, <3>1 DEF SdlInv, KeptApart
    <3>3. PICK h \in Games : ram' = h.name \/ ram' = "blank"
      BY <1>1, <3>2 DEF Own
    <3>4. <<running, ram'>> \in given'
      BY <1>1, <2>3
    <3> QED  BY <1>1, <2>3, <3>3, <3>4 DEF Own
  <2> QED  BY <2>2, <2>3
<1> QED  BY <1>2, <1>3

LEMMA RestartKeepsApart == ASSUME SdlInv, Restart PROVE SdlInv'
<1>1. PICK opened \in BOOLEAN :
          /\ running' = IF opened THEN filename ELSE running
          /\ ram' = IF sdl_ram_size' = 0 THEN "blank" ELSE LoadedRam(SavedBattery, opened)
          /\ strayed' = (strayed \/ ~opened \/ Inherits(SavedBattery, opened))
  BY DEF Restart
<1>2. /\ sav' = SavedBattery /\ states' = states /\ filename' = filename
      /\ battery_path' = filename /\ pending_command' = "none" /\ given' = given
      /\ UNCHANGED <<rewind_down, do_rewind, rewind_paused, late>>
  BY DEF Restart, Handled, NoCommand, keys
<1>3. SdlTyped'
  BY <1>1, <1>2, BatteryIsItsGames DEF SdlInv, SdlTyped
<1>4. RewindHeld'
  BY <1>2 DEF SdlInv, RewindHeld
<1>5. ASSUME ~strayed' PROVE KeptApart' /\ FilesHoldTheirGame'
  <2>1. ~strayed /\ opened /\ ~Inherits(SavedBattery, opened) /\ running' = filename
    BY <1>1, <1>5
  <2>2. filename \in Games /\ SavedBattery[filename] \in {"none"} \union Own(filename)
    BY <2>1, BatteryIsItsGames DEF SdlInv, SdlTyped
  <2>3. ram' \in Own(filename)
    BY <1>1, <2>1, <2>2 DEF LoadedRam, Inherits, Own
  <2>4. KeptApart'
    BY <1>2, <2>1, <2>3, OwnStays DEF KeptApart, SdlInv, SdlTyped
  <2>5. FilesHoldTheirGame'
    BY <1>2, <2>1, BatteryIsItsGames, OwnStays DEF FilesHoldTheirGame, SdlInv
  <2> QED  BY <2>4, <2>5
<1> QED  BY <1>3, <1>4, <1>5 DEF SdlInv, KeptApart, FilesHoldTheirGame

LEMMA SdlStepKeeps == ASSUME SdlInv, [SdlNext]_sdlVars PROVE SdlInv'
<1> USE DEF SdlInv, SdlTyped, KeptApart, FilesHoldTheirGame, RewindHeld
<1>0. given' = given => \A g \in Games : Own(g)' = Own(g)
  BY OwnStays
<1>1. CASE WaitEvent \/ EventsEnd
  BY <1>0, <1>1 DEF WaitEvent, EventsEnd, disk, sdlCart, sdlSlot, keys
<1>2. CASE RunFrame
  <2>1. RewindHeld'
    BY <1>2 DEF RunFrame
  <2>2. ram' \in {ram, running.name}
        /\ UNCHANGED <<sav, states, filename, running, battery_path, strayed, given>>
        /\ UNCHANGED <<pending_command, dropped_state_file>>
    BY <1>2 DEF RunFrame, disk, sdlSlot
  <2>3. running.name \in Own(running)
    BY DEF Own
  <2> QED  BY <1>0, <2>1, <2>2, <2>3
<1>3. CASE AskCommand
  <2>1. PICK what \in {"save_state", "load_state", "reset", "quit"} : Ask(what)
    BY <1>3 DEF AskCommand
  <2>2. /\ pending_command' = what
        /\ ~strayed' => ~strayed /\ (what \in {"save_state", "load_state"} => filename = running)
        /\ what # "load_state_from_file"
        /\ UNCHANGED <<sav, states, filename, running, battery_path, ram, given>>
        /\ UNCHANGED <<rewind_down, do_rewind, rewind_paused, late>>
    BY <2>1 DEF Ask, Event, disk, keys
  <2> QED  BY <1>0, <2>2
<1>4. CASE ChooseFile
  BY <1>0, <1>4 DEF ChooseFile, Event, disk, keys
<1>5. CASE RewindKey
  BY <1>0, <1>5 DEF RewindKey, Event, disk, sdlCart, sdlSlot
<1>6. CASE PauseKey
  BY <1>0, <1>6 DEF PauseKey, Event, disk, sdlCart, sdlSlot
<1>7. CASE NothingPending
  BY <1>0, <1>7 DEF NothingPending, Handled, NoCommand, disk, sdlCart, keys
<1>8. CASE SaveState
  <2>1. /\ states' = [states EXCEPT ![filename] =
                         [game |-> running.name, ram |-> ram, size |-> sdl_ram_size]]
        /\ pending_command = "save_state" /\ pending_command' = "none"
        /\ UNCHANGED <<sav, filename, running, battery_path, ram, strayed, given>>
        /\ UNCHANGED <<rewind_down, do_rewind, rewind_paused, late>>
    BY <1>8 DEF SaveState, Handled, NoCommand, sdlCart, keys
  <2>2. /\ DOMAIN states' = Games
        /\ \A g \in Games : IF g = filename
                             THEN states'[g].game = running.name /\ states'[g].ram = ram
                             ELSE states'[g] = states[g]
    BY <2>1
  <2>3. ~strayed => filename = running
    BY <2>1
  <2> QED  BY <1>0, <2>1, <2>2, <2>3
<1>9. CASE LoadState
  <2>1. /\ ram' = ram \/ (states[filename].game # "none" /\ ram' = states[filename].ram)
        /\ pending_command = "load_state" /\ pending_command' = "none"
        /\ UNCHANGED <<sav, states, filename, running, battery_path, strayed, given>>
        /\ UNCHANGED <<rewind_down, do_rewind, rewind_paused, late>>
    BY <1>9 DEF LoadState, RamOf, Loadable, Handled, NoCommand, disk, keys
  <2> QED  BY <1>0, <2>1
<1>10. CASE Restart
  BY <1>10, RestartKeepsApart
<1>11. CASE Quit
  <2>1. sav' = SavedBattery /\ UNCHANGED <<states, sdlCart, sdlSlot, keys>>
    BY <1>11 DEF Quit
  <2> QED  BY <1>0, <2>1, BatteryIsItsGames DEF sdlCart, sdlSlot, keys
<1>12. CASE UNCHANGED sdlVars
  BY <1>0, <1>12 DEF sdlVars, disk, sdlCart, sdlSlot, keys
<1>13. CASE DropState
  BY <1>0, <1>13 DEF DropState, Event, disk, sdlCart, keys
<1>14. CASE LoadDropped
  <2>1. /\ pending_command' = "none"
        /\ UNCHANGED <<sav, states, filename, running, battery_path, strayed>>
        /\ UNCHANGED <<rewind_down, do_rewind, rewind_paused, late>>
    BY <1>14 DEF LoadDropped, Handled, NoCommand, disk, keys
  <2> QED  BY <1>14, <2>1, DroppedIsOwn
<1> QED  BY <1>1, <1>2, <1>3, <1>4, <1>5, <1>6, <1>7, <1>8, <1>9, <1>10, <1>11, <1>12, <1>13, <1>14
         DEF SdlNext

(***************************************************************************)
(* For every set of games and every order in which files are chosen, save  *)
(* states dropped, and commands overtake each other: the files hold their  *)
(* own game's data, or what the user has dropped on that game, and the     *)
(* game stands still only as asked.                                        *)
(***************************************************************************)
THEOREM FilesAreKept == SdlSpec => []FilesAndStops
<1>1. SdlSpec => []SdlInv
  BY SdlStarts, SdlStepKeeps, PTL DEF SdlSpec
<1>2. SdlInv => FilesAndStops
  BY DEF SdlInv, RewindHeld, FilesAndStops, StandsStillAsAsked, Waiting
<1> QED  BY <1>1, <1>2, PTL

-----------------------------------------------------------------------------
(* Cheats and the search for them (module Cheats) *)

(* No cheat is in a list twice. *)
Distinct(list) == \A j, k \in DOMAIN list : list[j] = list[k] => j = k

Hashes == 0 .. Buckets - 1

(* The cheats of a list that belong to a bucket. *)
Belong(members, b) == {id \in members : hash_addr(cheat[id].address) = b}

TableInv ==
    /\ cheat_hash \in [Hashes -> Seq(Ids)]
    /\ \A b \in Hashes : Distinct(cheat_hash[b]) /\ Members(cheat_hash[b]) = Belong(Members(cheats), b)

(* What is in a file was in a list. *)
FileInv == file \in Seq(Records) /\ \E ids \in [DOMAIN file -> Ids] : Distinct(ids)

ListInv ==
    /\ cheats \in Seq(Ids) /\ Distinct(cheats)
    /\ DOMAIN cheat = Ids /\ \A id \in Members(cheats) : cheat[id] \in Records
    /\ TableInv /\ FileInv

(* A cheat is added to a list. *)
LEMMA AddedToList ==
    ASSUME NEW list \in Seq(Ids), Distinct(list), NEW id \in Ids, id \notin Members(list)
    PROVE  /\ Append(list, id) \in Seq(Ids) /\ Distinct(Append(list, id))
           /\ Members(Append(list, id)) = Members(list) \cup {id}
<1> DEFINE n == Len(list)
           new == Append(list, id)
<1>1. n \in Nat /\ DOMAIN list = 1 .. n
  BY LenProperties
<1>2. new \in Seq(Ids) /\ Len(new) = n + 1 /\ DOMAIN new = 1 .. n + 1
      /\ (\A i \in 1 .. n : new[i] = list[i]) /\ new[n + 1] = id
  BY <1>1, AppendProperties, LenProperties
<1> HIDE DEF n, new
<1>3. \A i \in 1 .. n : list[i] # id
  BY <1>1 DEF Members
<1>4. \A i \in 1 .. n + 1 : i \in 1 .. n \/ i = n + 1
  BY <1>1
<1>5. Distinct(new)
  BY <1>1, <1>2, <1>3, <1>4 DEF Distinct
<1>6. Members(new) = Members(list) \cup {id}
  <2>1. \A i \in 1 .. n : i \in 1 .. n + 1
    BY <1>1
  <2>2. n + 1 \in 1 .. n + 1
    BY <1>1
  <2> QED  BY <1>1, <1>2, <1>4, <2>1, <2>2 DEF Members
<1> QED  BY <1>2, <1>5, <1>6 DEF new

(* A cheat is removed from a list: the last one takes its place. *)
LEMMA RemovedFromList ==
    ASSUME NEW list \in Seq(Ids), Distinct(list), NEW id \in Members(list)
    PROVE  /\ Without(list, id) \in Seq(Ids) /\ Distinct(Without(list, id))
           /\ Members(Without(list, id)) = Members(list) \ {id}
<1> DEFINE n == Len(list)
           new == Without(list, id)
<1>1. n \in Nat /\ DOMAIN list = 1 .. n /\ \A i \in 1 .. n : list[i] \in Ids
  BY LenProperties, ElementOfSeq
<1>2. PICK p \in 1 .. n : list[p] = id
  BY <1>1 DEF Members
<1>3. n - 1 \in Nat /\ n \in 1 .. n
  BY <1>1
<1>4. new = [i \in 1 .. n - 1 |-> IF list[i] = id THEN list[n] ELSE list[i]]
  BY DEF Without
<1> HIDE DEF n, new
<1>5. \A i \in 1 .. n - 1 : i \in 1 .. n /\ i # n
  BY <1>1
<1>6. \A i \in 1 .. n : list[i] = id <=> i = p
  BY <1>1, <1>2 DEF Distinct
<1>7. DOMAIN new = 1 .. n - 1 /\ \A i \in 1 .. n - 1 : new[i] = IF i = p THEN list[n] ELSE list[i]
  BY <1>4, <1>5, <1>6
<1>8. new \in Seq(Ids)
  <2>1. \A i \in 1 .. n - 1 : (IF list[i] = id THEN list[n] ELSE list[i]) \in Ids
    BY <1>1, <1>3, <1>5
  <2>2. new \in [1 .. n - 1 -> Ids]
    BY <1>4, <2>1
  <2> QED  BY <1>3, <2>2, SeqDef
<1>9. Distinct(new)
  BY <1>1, <1>3, <1>5, <1>7 DEF Distinct
<1>10. Members(new) \subseteq Members(list) \ {id}
  <2> SUFFICES ASSUME NEW i \in 1 .. n - 1 PROVE new[i] \in Members(list) \ {id}
    BY <1>7 DEF Members
  <2>1. CASE i = p
    <3>1. n # p
      BY <1>5, <2>1
    <3> QED  BY <1>1, <1>3, <1>6, <1>7, <2>1, <3>1 DEF Members
  <2>2. CASE i # p
    BY <1>1, <1>5, <1>6, <1>7, <2>2 DEF Members
  <2> QED  BY <2>1, <2>2
<1>11. ASSUME NEW i \in 1 .. n, list[i] # id PROVE list[i] \in Members(new)
  <2>1. i # p
    BY <1>2, <1>11
  <2>2. CASE i = n
    <3>1. p \in 1 .. n - 1
      BY <1>1, <2>1, <2>2
    <3> QED  BY <1>7, <2>2, <3>1 DEF Members
  <2>3. CASE i # n
    <3>1. i \in 1 .. n - 1
      BY <1>1, <2>3
    <3> QED  BY <1>7, <2>1, <3>1 DEF Members
  <2> QED  BY <2>2, <2>3
<1>12. Members(list) \ {id} \subseteq Members(new)
  BY <1>1, <1>11 DEF Members
<1>13. Members(new) = Members(list) \ {id}
  BY <1>10, <1>12
<1> QED  BY <1>8, <1>9, <1>13 DEF new

(* An address has a bucket. *)
LEMMA HashIsBucket == \A r \in Records : r.address \in Nat /\ hash_addr(r.address) \in Hashes
<1> SUFFICES ASSUME NEW r \in Records PROVE r.address \in Nat /\ hash_addr(r.address) \in Hashes
  OBVIOUS
<1>1. r.address \in Nat /\ Buckets \in Nat \ {0}
  BY CheatsAssumption
<1> DEFINE a == r.address
<1>2. a \in Nat
  BY <1>1
<1> HIDE DEF a
<1>3. (a % Buckets) \in 0 .. Buckets - 1
  BY <1>1, <1>2
<1> QED  BY <1>1, <1>3 DEF a, hash_addr, Hashes

(* A set of places has a first. *)
LEMMA FirstPlace ==
    ASSUME NEW S, S \subseteq Nat, S # {}
    PROVE  \E x \in S : \A y \in S : x <= y
<1>1. PICK first \in S : \A y \in S : <<y, first>> \notin OpToRel(<, Nat)
  BY NatLessThanWellFounded, WFMin
<1>2. \A y \in S : ~(y < first)
  BY <1>1 DEF OpToRel
<1>3. \A y \in S : first <= y
  <2> SUFFICES ASSUME NEW y \in S PROVE first <= y
    OBVIOUS
  <2>1. y \in Nat /\ first \in Nat /\ ~(y < first)
    BY <1>2
  <2> QED  BY <2>1
<1> QED  BY <1>3

(* A read looks in the right bucket. *)
LEMMA ListedReads == ListInv => ReadsAreListed
<1> SUFFICES ASSUME ListInv, NEW a \in {r.address : r \in Records}, NEW value \in Original
             PROVE  LET asking == {cheat[id].value : id \in {c \in Members(cheats) :
                                                        Matches(cheat[c], a, value)}}
                    IN IF asking = {} THEN apply_cheat(a, value) = value
                       ELSE apply_cheat(a, value) \in asking
  BY DEF ReadsAreListed
<1> DEFINE b == hash_addr(a)
           bucket == cheat_hash[b]
           found == {i \in DOMAIN bucket : Matches(cheat[bucket[i]], a, value)}
           asking == {c \in Members(cheats) : Matches(cheat[c], a, value)}
<1>1. b \in Hashes
  <2>1. PICK r \in Records : a = r.address
    OBVIOUS
  <2> QED  BY <2>1, HashIsBucket
<1>2. Members(bucket) = Belong(Members(cheats), b) /\ bucket \in Seq(Ids)
  BY <1>1 DEF ListInv, TableInv
<1>3. apply_cheat(a, value) =
          IF found = {} THEN value ELSE cheat[bucket[CHOOSE i \in found : \A j \in found : i <= j]].value
  BY DEF apply_cheat
<1>4. \A c : Matches(cheat[c], a, value) => hash_addr(cheat[c].address) = b
  BY DEF Matches
<1>5. \A i \in found : bucket[i] \in asking
  <2>1. \A i \in DOMAIN bucket : bucket[i] \in Members(cheats)
    BY <1>2 DEF Members, Belong
  <2> QED  BY <2>1
<1>6. \A c \in asking : \E i \in found : bucket[i] = c
  <2> SUFFICES ASSUME NEW c \in asking PROVE \E i \in found : bucket[i] = c
    OBVIOUS
  <2>1. c \in Members(bucket)
    BY <1>2, <1>4 DEF Belong
  <2> QED  BY <2>1 DEF Members
<1>7. found # {} => (CHOOSE i \in found : \A j \in found : i <= j) \in found
  <2>1. found \subseteq Nat
    BY <1>2, LenProperties
  <2> HIDE DEF found
  <2> QED  BY <2>1, FirstPlace
<1> HIDE DEF found, bucket
<1>8. CASE found = {}
  BY <1>3, <1>6, <1>8
<1>9. CASE found # {}
  <2> DEFINE i == CHOOSE i \in found : \A j \in found : i <= j
  <2>1. bucket[i] \in asking /\ apply_cheat(a, value) = cheat[bucket[i]].value
    BY <1>3, <1>5, <1>7, <1>9
  <2> HIDE DEF i
  <2> QED  BY <2>1
<1> QED  BY <1>8, <1>9

(* The list, after a cheat was added. *)
LEMMA AddKeeps ==
    ASSUME ListInv, NEW id \in Ids, NEW record \in Records, GB_add_cheat(id, record)
    PROVE  ListInv'
<1> DEFINE h == hash_addr(record.address)
<1>1. /\ id \notin Members(cheats) /\ cheats' = Append(cheats, id)
      /\ cheat' = [cheat EXCEPT ![id] = record]
      /\ cheat_hash' = [cheat_hash EXCEPT ![h] = Append(@, id)]
      /\ file' = file
  BY DEF GB_add_cheat
<1>2. /\ cheats' \in Seq(Ids) /\ Distinct(cheats') /\ Members(cheats') = Members(cheats) \cup {id}
  BY <1>1, AddedToList DEF ListInv
<1>3. /\ DOMAIN cheat' = Ids /\ cheat'[id] = record
      /\ \A c \in Members(cheats) : c \in Ids /\ cheat'[c] = cheat[c] /\ cheat[c] \in Records
  <2>1. Members(cheats) \subseteq Ids
    BY ElementOfSeq, LenProperties DEF Members, ListInv
  <2> QED  BY <1>1, <2>1 DEF ListInv
<1>4. h \in Hashes
  BY HashIsBucket
<1>5. cheat_hash' \in [Hashes -> Seq(Ids)]
  <2>1. cheat_hash[h] \in Seq(Ids) /\ Append(cheat_hash[h], id) \in Seq(Ids)
    BY <1>4, AppendProperties DEF ListInv, TableInv
  <2> QED  BY <1>1, <2>1 DEF ListInv, TableInv
<1>6. ASSUME NEW b \in Hashes
      PROVE  Distinct(cheat_hash'[b]) /\ Members(cheat_hash'[b]) = Belong(Members(cheats), b)'
  <2>1. /\ cheat_hash[b] \in Seq(Ids) /\ Distinct(cheat_hash[b])
        /\ Members(cheat_hash[b]) = Belong(Members(cheats), b)
    BY DEF ListInv, TableInv
  <2>2. Belong(Members(cheats), b)' = Belong(Members(cheats), b) \cup (IF b = h THEN {id} ELSE {})
    BY <1>1, <1>2, <1>3 DEF Belong
  <2>3. CASE b = h
    <3>1. cheat_hash'[b] = Append(cheat_hash[b], id)
      BY <1>1, <2>3 DEF ListInv, TableInv
    <3>2. id \notin Members(cheat_hash[b])
      BY <1>1, <2>1 DEF Belong
    <3> QED  BY <2>1, <2>2, <2>3, <3>1, <3>2, AddedToList
  <2>4. CASE b # h
    <3>1. cheat_hash'[b] = cheat_hash[b]
      BY <1>1, <2>4 DEF ListInv, TableInv
    <3> QED  BY <2>1, <2>2, <2>4, <3>1
  <2> QED  BY <2>3, <2>4
<1>7. TableInv'
  BY <1>5, <1>6 DEF TableInv, Hashes
<1>8. FileInv'
  BY <1>1 DEF ListInv, FileInv
<1>9. \A c \in Members(cheats') : cheat'[c] \in Records
  BY <1>2, <1>3
<1> QED  BY <1>2, <1>3, <1>7, <1>8, <1>9 DEF ListInv, Distinct, Members

(* The list, after one was removed. *)
LEMMA RemoveKeeps ==
    ASSUME ListInv, NEW id \in Ids, GB_remove_cheat(id)
    PROVE  ListInv'
<1> DEFINE h == hash_addr(cheat[id].address)
<1>1. /\ id \in Members(cheats) /\ cheats' = Without(cheats, id)
      /\ cheat' = [cheat EXCEPT ![id] = Freed]
      /\ cheat_hash' = [cheat_hash EXCEPT ![h] = Without(@, id)]
      /\ file' = file
  BY DEF GB_remove_cheat
<1>2. /\ cheats' \in Seq(Ids) /\ Distinct(cheats') /\ Members(cheats') = Members(cheats) \ {id}
  BY <1>1, RemovedFromList DEF ListInv
<1>3. /\ DOMAIN cheat' = Ids /\ cheat[id] \in Records
      /\ \A c \in Members(cheats) \ {id} : c \in Ids /\ cheat'[c] = cheat[c] /\ cheat[c] \in Records
  <2>1. Members(cheats) \subseteq Ids
    BY ElementOfSeq, LenProperties DEF Members, ListInv
  <2> QED  BY <1>1, <2>1 DEF ListInv
<1>4. h \in Hashes
  BY <1>3, HashIsBucket
<1>5. /\ cheat_hash[h] \in Seq(Ids) /\ Distinct(cheat_hash[h]) /\ id \in Members(cheat_hash[h])
  BY <1>1, <1>4 DEF ListInv, TableInv, Belong
<1>6. /\ Without(cheat_hash[h], id) \in Seq(Ids) /\ Distinct(Without(cheat_hash[h], id))
      /\ Members(Without(cheat_hash[h], id)) = Members(cheat_hash[h]) \ {id}
  BY <1>5, RemovedFromList
<1>7. cheat_hash' \in [Hashes -> Seq(Ids)]
  BY <1>1, <1>6 DEF ListInv, TableInv
<1>8. ASSUME NEW b \in Hashes
      PROVE  Distinct(cheat_hash'[b]) /\ Members(cheat_hash'[b]) = Belong(Members(cheats), b)'
  <2>1. /\ cheat_hash[b] \in Seq(Ids) /\ Distinct(cheat_hash[b])
        /\ Members(cheat_hash[b]) = Belong(Members(cheats), b)
    BY DEF ListInv, TableInv
  <2>2. Belong(Members(cheats), b)' = Belong(Members(cheats), b) \ {id}
    BY <1>2, <1>3 DEF Belong
  <2>3. CASE b = h
    <3>1. cheat_hash'[b] = Without(cheat_hash[b], id)
      BY <1>1, <2>3 DEF ListInv, TableInv
    <3> QED  BY <1>6, <2>1, <2>2, <2>3, <3>1
  <2>4. CASE b # h
    <3>1. cheat_hash'[b] = cheat_hash[b]
      BY <1>1, <2>4 DEF ListInv, TableInv
    <3>2. id \notin Belong(Members(cheats), b)
      BY <2>4 DEF Belong
    <3> QED  BY <2>1, <2>2, <3>1, <3>2
  <2> QED  BY <2>3, <2>4
<1>9. TableInv'
  BY <1>7, <1>8 DEF TableInv, Hashes
<1>10. FileInv'
  BY <1>1 DEF ListInv, FileInv
<1>11. \A c \in Members(cheats') : cheat'[c] \in Records
  BY <1>2, <1>3
<1> QED  BY <1>2, <1>3, <1>9, <1>10, <1>11 DEF ListInv, Distinct, Members

(* The list, after one was edited. *)
LEMMA UpdateKeeps ==
    ASSUME ListInv, NEW id \in Ids, NEW record \in Records, GB_update_cheat(id, record)
    PROVE  ListInv'
<1> DEFINE g == hash_addr(cheat[id].address)
           h == hash_addr(record.address)
<1>1. /\ id \in Members(cheats) /\ cheats' = cheats /\ file' = file
      /\ cheat' = [cheat EXCEPT ![id] = record]
      /\ cheat_hash' = IF record.address = cheat[id].address THEN cheat_hash
                       ELSE [[cheat_hash EXCEPT ![g] = Without(@, id)] EXCEPT ![h] = Append(@, id)]
  BY DEF GB_update_cheat, Rehashed
<1>2. /\ DOMAIN cheat' = Ids /\ cheat[id] \in Records /\ cheat'[id] = record
      /\ \A c \in Members(cheats) \ {id} : c \in Ids /\ cheat'[c] = cheat[c] /\ cheat[c] \in Records
  <2>1. Members(cheats) \subseteq Ids
    BY ElementOfSeq, LenProperties DEF Members, ListInv
  <2> QED  BY <1>1, <2>1 DEF ListInv
<1>3. g \in Hashes /\ h \in Hashes
  BY <1>2, HashIsBucket
<1>4. \A b \in Hashes : /\ cheat_hash[b] \in Seq(Ids) /\ Distinct(cheat_hash[b])
                        /\ Members(cheat_hash[b]) = Belong(Members(cheats), b)
  BY DEF ListInv, TableInv
<1>5. \A b \in Hashes : Belong(Members(cheats), b)' =
                            (Belong(Members(cheats), b) \ {id}) \cup (IF b = h THEN {id} ELSE {})
  BY <1>1, <1>2 DEF Belong
<1>6. \A b \in Hashes : id \in Belong(Members(cheats), b) <=> b = g
  BY <1>1 DEF Belong
<1>7. CASE record.address = cheat[id].address
  <2>1. g = h /\ cheat_hash' = cheat_hash
    BY <1>1, <1>7
  <2>2. \A b \in Hashes : Belong(Members(cheats), b)' = Belong(Members(cheats), b)
    BY <1>5, <1>6, <2>1
  <2>3. TableInv'
    BY <1>4, <2>1, <2>2 DEF TableInv, Hashes, ListInv
  <2> QED  BY <1>1, <1>2, <2>3 DEF ListInv, Distinct, Members, FileInv
<1>8. CASE record.address # cheat[id].address
  <2> DEFINE between == [cheat_hash EXCEPT ![g] = Without(@, id)]
  <2>1. cheat_hash' = [between EXCEPT ![h] = Append(@, id)]
    BY <1>1, <1>8
  <2>2. /\ Without(cheat_hash[g], id) \in Seq(Ids) /\ Distinct(Without(cheat_hash[g], id))
        /\ Members(Without(cheat_hash[g], id)) = Members(cheat_hash[g]) \ {id}
    BY <1>3, <1>4, <1>6, RemovedFromList
  <2>3. between \in [Hashes -> Seq(Ids)]
    BY <2>2 DEF ListInv, TableInv
  <2>4. \A b \in Hashes : /\ Distinct(between[b]) /\ between[b] \in Seq(Ids)
                          /\ Members(between[b]) = Belong(Members(cheats), b) \ {id}
    <3> SUFFICES ASSUME NEW b \in Hashes
                 PROVE  /\ Distinct(between[b]) /\ between[b] \in Seq(Ids)
                        /\ Members(between[b]) = Belong(Members(cheats), b) \ {id}
      OBVIOUS
    <3>1. CASE b = g
      <4>1. between[b] = Without(cheat_hash[g], id)
        BY <1>3, <3>1 DEF ListInv, TableInv
      <4> QED  BY <1>4, <2>2, <3>1, <4>1
    <3>2. CASE b # g
      <4>1. between[b] = cheat_hash[b]
        BY <3>2 DEF ListInv, TableInv
      <4> QED  BY <1>4, <1>6, <3>2, <4>1
    <3> QED  BY <3>1, <3>2
  <2> HIDE DEF between
  <2>5. /\ Append(between[h], id) \in Seq(Ids) /\ Distinct(Append(between[h], id))
        /\ Members(Append(between[h], id)) = Members(between[h]) \cup {id}
    <3>1. between[h] \in Seq(Ids) /\ Distinct(between[h]) /\ id \notin Members(between[h])
      BY <1>3, <2>4
    <3> QED  BY <3>1, AddedToList
  <2>6. cheat_hash' \in [Hashes -> Seq(Ids)]
    BY <2>1, <2>3, <2>5
  <2>7. ASSUME NEW b \in Hashes
        PROVE  Distinct(cheat_hash'[b]) /\ Members(cheat_hash'[b]) = Belong(Members(cheats), b)'
    <3>1. CASE b = h
      <4>1. cheat_hash'[b] = Append(between[h], id)
        BY <1>3, <2>1, <2>3, <3>1
      <4> QED  BY <1>3, <1>5, <2>4, <2>5, <3>1, <4>1
    <3>2. CASE b # h
      <4>1. cheat_hash'[b] = between[b]
        BY <2>1, <2>3, <3>2
      <4> QED  BY <1>5, <2>4, <3>2, <4>1
    <3> QED  BY <3>1, <3>2
  <2>8. TableInv'
    BY <2>6, <2>7 DEF TableInv, Hashes
  <2> QED  BY <1>1, <1>2, <2>8 DEF ListInv, Distinct, Members, FileInv
<1> QED  BY <1>7, <1>8

(* Induction over the natural numbers, for a set. *)
LEMMA AllNumbers ==
    ASSUME NEW S, 0 \in S, \A n \in Nat : n \in S => n + 1 \in S
    PROVE  \A n \in Nat : n \in S
<1> DEFINE Others == {n \in Nat : n \notin S}
<1> SUFFICES ASSUME Others # {} PROVE FALSE
  OBVIOUS
<1>1. PICK first \in Others : \A y \in Others : first <= y
  <2>1. Others \subseteq Nat
    OBVIOUS
  <2> HIDE DEF Others
  <2> QED  BY <2>1, FirstPlace
<1>2. first \in Nat /\ first # 0
  OBVIOUS
<1> DEFINE k == first - 1
<1>3. k \in Nat /\ k + 1 = first /\ ~(first <= k)
  BY <1>2
<1> HIDE DEF k
<1>4. k \in S
  BY <1>1, <1>3
<1> QED  BY <1>3, <1>4

Empty == [b \in Hashes |-> <<>>]
WithAdded(hash, id, record) == [hash EXCEPT ![hash_addr(record.address)] = Append(@, id)]

(* The equation of the additions. *)
Additions(ids, records, n, hash) ==
    [k \in 0 .. n |-> IF k = 0 THEN Empty ELSE WithAdded(hash[k - 1], ids[k], records[k])]

(* Added is a solution of the equation, if there is one. *)
LEMMA AddedIsChosen ==
    \A ids, records : Added(ids, records) =
        (CHOOSE hash : hash = Additions(ids, records, Len(records), hash))[Len(records)]
  BY DEF Added, Additions, Empty, Hashes, WithAdded

(* There is, however many additions. *)
LEMMA AdditionsExist ==
    ASSUME NEW ids, NEW records
    PROVE  \A k \in Nat : \E hash : hash = Additions(ids, records, k, hash)
<1> DEFINE Solved == {k \in Nat : \E hash : hash = Additions(ids, records, k, hash)}
<1>1. 0 \in Solved
  <2> DEFINE f == [i \in 0 .. 0 |-> Empty]
  <2>1. \A i \in 0 .. 0 : i = 0
    OBVIOUS
  <2>2. f = Additions(ids, records, 0, f)
    BY <2>1 DEF Additions
  <2> QED  BY <2>2
<1>2. ASSUME NEW k \in Nat, k \in Solved PROVE k + 1 \in Solved
  <2>1. PICK f : f = Additions(ids, records, k, f)
    BY <1>2
  <2> DEFINE V(g, i) == IF i = 0 THEN Empty ELSE WithAdded(g[i - 1], ids[i], records[i])
             h == [i \in 0 .. k + 1 |-> V(f, i)]
             r == Additions(ids, records, k + 1, h)
  <2>2. \A i \in 0 .. k : f[i] = V(f, i)
    BY <2>1 DEF Additions
  <2>3. \A i \in 0 .. k : h[i] = f[i]
    <3>1. \A i \in 0 .. k : i \in 0 .. k + 1
      OBVIOUS
    <3>2. \A i \in 0 .. k + 1 : h[i] = V(f, i)
      OBVIOUS
    <3> HIDE DEF V, h
    <3> QED  BY <2>2, <3>1, <3>2
  <2>4. \A i \in 0 .. k + 1 : i # 0 => i - 1 \in 0 .. k
    OBVIOUS
  <2>5. \A i \in 0 .. k + 1 : h[i] = V(h, i)
    <3>1. \A i \in 0 .. k + 1 : i # 0 => h[i - 1] = f[i - 1]
      BY <2>3, <2>4
    <3>2. \A i \in 0 .. k + 1 : h[i] = V(f, i)
      OBVIOUS
    <3> HIDE DEF h
    <3> QED  BY <3>1, <3>2
  <2>6. h = Additions(ids, records, k + 1, h)
    <3>1. r = [i \in 0 .. k + 1 |-> V(h, i)]
      BY DEF Additions
    <3>2. h = [i \in 0 .. k + 1 |-> h[i]]
      OBVIOUS
    <3> HIDE DEF h, V
    <3>3. r = [i \in 0 .. k + 1 |-> h[i]]
      BY <2>5, <3>1
    <3> QED  BY <3>2, <3>3
  <2>7. \E hash : hash = Additions(ids, records, k + 1, hash)
    <3> HIDE DEF h
    <3> QED  BY <2>6
  <2> QED  BY <2>7
<1> HIDE DEF Solved
<1>3. \A k \in Nat : k \in Solved
  BY <1>1, <1>2, AllNumbers
<1> QED  BY <1>3 DEF Solved

(* The cheats of a file's first n records that belong to a bucket. *)
FirstOf(ids, records, n, b) ==
    {ids[j] : j \in {j \in 1 .. n : hash_addr(records[j].address) = b}}

(* The table, after a file's cheats were added to an empty one. *)
LEMMA LoadedTable ==
    ASSUME NEW records \in Seq(Records), NEW ids \in [DOMAIN records -> Ids], Distinct(ids)
    PROVE  /\ Added(ids, records) \in [Hashes -> Seq(Ids)]
           /\ \A b \in Hashes :
                  /\ Distinct(Added(ids, records)[b])
                  /\ Members(Added(ids, records)[b]) = FirstOf(ids, records, Len(records), b)
<1> DEFINE n == Len(records)
           f == CHOOSE hash : hash = Additions(ids, records, n, hash)
<1>1. n \in Nat /\ DOMAIN records = 1 .. n /\ \A i \in 1 .. n : records[i] \in Records
  BY LenProperties, ElementOfSeq
<1>2. f = Additions(ids, records, n, f)
  BY <1>1, AdditionsExist
<1>3. Added(ids, records) = f[n]
  BY AddedIsChosen
<1> HIDE DEF f, n
<1>4. \A k \in 0 .. n : f[k] = IF k = 0 THEN Empty ELSE WithAdded(f[k - 1], ids[k], records[k])
  BY <1>2 DEF Additions
<1> DEFINE Right(k) ==
             /\ f[k] \in [Hashes -> Seq(Ids)]
             /\ \A b \in Hashes : /\ Distinct(f[k][b])
                                  /\ Members(f[k][b]) = FirstOf(ids, records, k, b)
           S == {k \in Nat : k <= n => Right(k)}
<1>5. 0 \in S
  <2>1. f[0] = Empty
    BY <1>1, <1>4
  <2>2. \A b \in Hashes : f[0][b] = <<>>
    BY <2>1 DEF Empty
  <2>3. <<>> \in Seq(Ids) /\ DOMAIN <<>> = {}
    OBVIOUS
  <2>4. Distinct(<<>>) /\ Members(<<>>) = {}
    BY <2>3 DEF Distinct, Members
  <2>5. \A b \in Hashes : FirstOf(ids, records, 0, b) = {}
    BY DEF FirstOf
  <2>6. f[0] \in [Hashes -> Seq(Ids)]
    BY <2>1, <2>3 DEF Empty
  <2> QED  BY <2>2, <2>4, <2>5, <2>6
<1>6. ASSUME NEW k \in Nat, k \in S PROVE k + 1 \in S
  <2> SUFFICES ASSUME k + 1 <= n PROVE Right(k + 1)
    OBVIOUS
  <2> DEFINE id == ids[k + 1]
             h == hash_addr(records[k + 1].address)
             old == f[k]
             new == f[k + 1]
  <2>1. k + 1 \in 1 .. n /\ k \in 0 .. n /\ k + 1 \in 0 .. n /\ k + 1 # 0 /\ (k + 1) - 1 = k
    BY <1>1
  <2>2. Right(k)
    BY <1>1, <1>6
  <2>3. id \in Ids /\ records[k + 1] \in Records /\ h \in Hashes
    BY <1>1, <2>1, HashIsBucket
  <2>4. new = [old EXCEPT ![h] = Append(@, id)]
    <3>1. new = WithAdded(f[k], ids[k + 1], records[k + 1])
      BY <1>4, <2>1
    <3> QED  BY <3>1 DEF WithAdded
  <2>5. \A j \in 1 .. k : ids[j] # id
    <3>1. \A j \in 1 .. k : j \in 1 .. n /\ j # k + 1
      BY <1>1
    <3> QED  BY <1>1, <2>1, <3>1 DEF Distinct
  <2>6. id \notin Members(old[h])
    <3>1. Members(old[h]) = FirstOf(ids, records, k, h)
      BY <2>2, <2>3
    <3>2. id \notin FirstOf(ids, records, k, h)
      <4> HIDE DEF id, h, old
      <4> QED  BY <2>5 DEF FirstOf
    <3> QED  BY <3>1, <3>2
  <2>7. /\ old \in [Hashes -> Seq(Ids)] /\ Distinct(old[h])
        /\ \A b \in Hashes : Distinct(old[b]) /\ Members(old[b]) = FirstOf(ids, records, k, b)
    BY <2>2, <2>3
  <2>8. /\ Append(old[h], id) \in Seq(Ids) /\ Distinct(Append(old[h], id))
        /\ Members(Append(old[h], id)) = Members(old[h]) \cup {id}
    BY <2>3, <2>6, <2>7, AddedToList
  <2>9. \A b \in Hashes : FirstOf(ids, records, k + 1, b) =
            FirstOf(ids, records, k, b) \cup (IF b = h THEN {id} ELSE {})
    <3>1. \A j : j \in 1 .. k + 1 <=> j \in 1 .. k \/ j = k + 1
      OBVIOUS
    <3> QED  BY <3>1 DEF FirstOf
  <2> HIDE DEF old, new, h, id
  <2>10. new \in [Hashes -> Seq(Ids)] /\ new[h] = Append(old[h], id)
         /\ \A b \in Hashes : b # h => new[b] = old[b]
    BY <2>3, <2>4, <2>7, <2>8
  <2>11. \A b \in Hashes : Distinct(new[b]) /\ Members(new[b]) = FirstOf(ids, records, k + 1, b)
    BY <2>3, <2>7, <2>8, <2>9, <2>10
  <2> QED  BY <2>10, <2>11 DEF new
<1> HIDE DEF S
<1>7. n \in S
  BY <1>1, <1>5, <1>6, AllNumbers
<1>8. Right(n)
  BY <1>1, <1>7 DEF S
<1> QED  BY <1>3, <1>8 DEF n

(* The list, after a file was loaded. *)
LEMMA LoadKeeps ==
    ASSUME ListInv, GB_load_cheats
    PROVE  ListInv'
<1> DEFINE ids == Fresh
           n == Len(file)
<1>1. file \in Seq(Records) /\ n \in Nat /\ DOMAIN file = 1 .. n /\ \A i \in 1 .. n : file[i] \in Records
  BY LenProperties, ElementOfSeq DEF ListInv, FileInv
<1>2. ids \in [DOMAIN file -> Ids] /\ Distinct(ids)
  <2>1. \E f \in [DOMAIN file -> Ids] : \A j, k \in DOMAIN file : f[j] = f[k] => j = k
    BY DEF ListInv, FileInv, Distinct
  <2>2. ids \in [DOMAIN file -> Ids] /\ \A j, k \in DOMAIN file : ids[j] = ids[k] => j = k
    BY <2>1 DEF Fresh
  <2> HIDE DEF ids
  <2> QED  BY <2>2 DEF Distinct
<1>3. /\ cheats' = ids /\ file' = file /\ cheat_hash' = Added(ids, file)
      /\ cheat' = [id \in Ids |-> IF id \in Members(ids)
                                  THEN file[CHOOSE k \in DOMAIN file : ids[k] = id] ELSE Freed]
  BY DEF GB_load_cheats
<1> HIDE DEF ids, n
<1>4. cheats' \in Seq(Ids)
  BY <1>1, <1>2, <1>3, SeqDef
<1>5. \A k \in 1 .. n : ids[k] \in Ids /\ ids[k] \in Members(ids) /\ cheat'[ids[k]] = file[k]
  <2> SUFFICES ASSUME NEW k \in 1 .. n
               PROVE  ids[k] \in Ids /\ ids[k] \in Members(ids) /\ cheat'[ids[k]] = file[k]
    OBVIOUS
  <2>1. ids[k] \in Ids /\ ids[k] \in Members(ids)
    BY <1>1, <1>2 DEF Members
  <2>2. \A j \in 1 .. n : ids[j] = ids[k] <=> j = k
    BY <1>1, <1>2 DEF Distinct
  <2>3. (CHOOSE j \in DOMAIN file : ids[j] = ids[k]) = k
    BY <1>1, <2>2
  <2> QED  BY <1>3, <2>1, <2>3
<1>6. Members(ids) = {ids[k] : k \in 1 .. n}
  BY <1>1, <1>2 DEF Members
<1>7. /\ cheat_hash' \in [Hashes -> Seq(Ids)]
      /\ \A b \in Hashes : Distinct(cheat_hash'[b]) /\ Members(cheat_hash'[b]) = FirstOf(ids, file, n, b)
  BY <1>1, <1>2, <1>3, LoadedTable DEF n
<1>8. ASSUME NEW b \in Hashes PROVE FirstOf(ids, file, n, b) = Belong(Members(cheats), b)'
  BY <1>3, <1>5, <1>6 DEF FirstOf, Belong
<1>9. TableInv'
  BY <1>7, <1>8 DEF TableInv, Hashes
<1>10. DOMAIN cheat' = Ids /\ \A id \in Members(cheats') : cheat'[id] \in Records
  BY <1>1, <1>3, <1>5, <1>6
<1>11. FileInv'
  BY <1>3 DEF ListInv, FileInv
<1> QED  BY <1>2, <1>3, <1>4, <1>9, <1>10, <1>11 DEF ListInv, Distinct, Members

(* The list begins empty. *)
LEMMA ListStart == ListInit => ListInv
<1> SUFFICES ASSUME ListInit PROVE ListInv
  OBVIOUS
<1>1. <<>> \in Seq(Ids) /\ <<>> \in Seq(Records) /\ DOMAIN <<>> = {} /\ Distinct(<<>>) /\ Members(<<>>) = {}
  BY DEF Distinct, Members
<1>2. cheats = <<>> /\ file = <<>> /\ DOMAIN cheat = Ids /\ cheat_hash = [b \in Hashes |-> <<>>]
  BY DEF ListInit, Hashes
<1>3. TableInv
  BY <1>1, <1>2 DEF TableInv, Belong
<1>4. FileInv
  <2>1. \E ids \in [DOMAIN file -> Ids] : Distinct(ids)
    <3>1. [j \in DOMAIN file |-> j] \in [DOMAIN file -> Ids] /\ Distinct([j \in DOMAIN file |-> j])
      BY <1>1, <1>2 DEF Distinct
    <3> QED  BY <3>1
  <2> QED  BY <1>1, <1>2, <2>1 DEF FileInv
<1> QED  BY <1>1, <1>2, <1>3, <1>4 DEF ListInv

(* A step that leaves the list and the table alone. *)
LEMMA TableStays ==
    ASSUME ListInv, cheats' = cheats, cheat' = cheat, cheat_hash' = cheat_hash, FileInv'
    PROVE  ListInv'
<1>1. Members(cheats') = Members(cheats) /\ \A b : Belong(Members(cheats), b)' = Belong(Members(cheats), b)
  BY DEF Members, Belong
<1>2. TableInv'
  <2>1. /\ cheat_hash' \in [Hashes -> Seq(Ids)]
        /\ \A b \in Hashes : /\ Distinct(cheat_hash'[b])
                             /\ Members(cheat_hash'[b]) = Belong(Members(cheats), b)'
    BY <1>1 DEF ListInv, TableInv
  <2> QED  BY <2>1 DEF TableInv, Hashes
<1>3. Distinct(cheats') /\ \A id \in Members(cheats') : cheat'[id] \in Records
  BY <1>1 DEF ListInv
<1> QED  BY <1>2, <1>3 DEF ListInv, Distinct, Members

(* Whatever is done with the list and its file. *)
LEMMA ListStep == ListInv /\ [ListNext]_listVars => ListInv'
<1> SUFFICES ASSUME ListInv, [ListNext]_listVars PROVE ListInv'
  OBVIOUS
<1>1. CASE UNCHANGED <<cheats, cheat, cheat_hash, file>>
  <2>1. FileInv'
    BY <1>1 DEF ListInv, FileInv
  <2> QED  BY <1>1, <2>1, TableStays
<1>2. CASE GB_save_cheats
  <2>1. /\ cheats' = cheats /\ cheat' = cheat /\ cheat_hash' = cheat_hash
        /\ file' = [i \in DOMAIN cheats |-> cheat[cheats[i]]]
    BY <1>2 DEF GB_save_cheats
  <2>2. cheats \in Seq(Ids) /\ Distinct(cheats) /\ Len(cheats) \in Nat /\ DOMAIN cheats = 1 .. Len(cheats)
        /\ cheats \in [1 .. Len(cheats) -> Ids]
    BY LenProperties DEF ListInv
  <2>3. \A i \in DOMAIN cheats : cheat[cheats[i]] \in Records
    BY DEF ListInv, Members
  <2>4. file' \in Seq(Records)
    <3>1. file' \in [1 .. Len(cheats) -> Records]
      BY <2>1, <2>2, <2>3
    <3> QED  BY <2>2, <3>1, SeqDef
  <2>5. \E ids \in [DOMAIN file' -> Ids] : Distinct(ids)
    <3>1. DOMAIN file' = DOMAIN cheats
      BY <2>1
    <3> QED  BY <2>2, <3>1
  <2>6. FileInv'
    BY <2>4, <2>5 DEF FileInv, Distinct
  <2> QED  BY <2>1, <2>6, TableStays
<1>3. CASE GB_load_cheats
  BY <1>3, LoadKeeps
<1>4. ASSUME NEW id \in Ids, NEW record \in Records,
             GB_add_cheat(id, record) \/ GB_update_cheat(id, record) \/ GB_remove_cheat(id)
      PROVE  ListInv'
  BY <1>4, AddKeeps, UpdateKeeps, RemoveKeeps
<1>5. ASSUME NEW id \in Ids, GB_remove_cheat(id) PROVE ListInv'
  BY <1>5, RemoveKeeps
<1> QED  BY <1>1, <1>2, <1>3, <1>4, <1>5 DEF ListNext, SwitchBank, listVars

(* The equation of a filter's pass. *)
Visits(relation, n, visited) ==
    [i \in 0 .. n |-> IF i = 0 THEN Started ELSE Visit(visited[i - 1], i, relation)]

(* Pass is a solution of the equation, if there is one. *)
LEMMA PassIsChosen ==
    \A relation : Pass(relation) = (CHOOSE visited : visited = Visits(relation, Size, visited))[Size]
  BY DEF Pass, Visits

(* There is, however many addresses. *)
LEMMA VisitsExist ==
    ASSUME NEW relation
    PROVE  \A k \in Nat : \E visited : visited = Visits(relation, k, visited)
<1> DEFINE Solved == {k \in Nat : \E visited : visited = Visits(relation, k, visited)}
<1>1. 0 \in Solved
  <2> DEFINE f == [i \in 0 .. 0 |-> Started]
  <2>1. \A i \in 0 .. 0 : i = 0
    OBVIOUS
  <2>2. f = Visits(relation, 0, f)
    BY <2>1 DEF Visits
  <2> QED  BY <2>2
<1>2. ASSUME NEW k \in Nat, k \in Solved PROVE k + 1 \in Solved
  <2>1. PICK f : f = Visits(relation, k, f)
    BY <1>2
  <2> DEFINE V(g, i) == IF i = 0 THEN Started ELSE Visit(g[i - 1], i, relation)
             h == [i \in 0 .. k + 1 |-> V(f, i)]
             r == Visits(relation, k + 1, h)
  <2>2. \A i \in 0 .. k : f[i] = V(f, i)
    BY <2>1 DEF Visits
  <2>3. \A i \in 0 .. k : h[i] = f[i]
    <3>1. \A i \in 0 .. k : i \in 0 .. k + 1
      OBVIOUS
    <3>2. \A i \in 0 .. k + 1 : h[i] = V(f, i)
      OBVIOUS
    <3> HIDE DEF V, h
    <3> QED  BY <2>2, <3>1, <3>2
  <2>4. \A i \in 0 .. k + 1 : i # 0 => i - 1 \in 0 .. k
    OBVIOUS
  <2>5. \A i \in 0 .. k + 1 : h[i] = V(h, i)
    <3>1. \A i \in 0 .. k + 1 : i # 0 => h[i - 1] = f[i - 1]
      BY <2>3, <2>4
    <3>2. \A i \in 0 .. k + 1 : h[i] = V(f, i)
      OBVIOUS
    <3> HIDE DEF h
    <3> QED  BY <3>1, <3>2
  <2>6. h = Visits(relation, k + 1, h)
    <3>1. r = [i \in 0 .. k + 1 |-> V(h, i)]
      BY DEF Visits
    <3>2. h = [i \in 0 .. k + 1 |-> h[i]]
      OBVIOUS
    <3> HIDE DEF h, V
    <3>3. r = [i \in 0 .. k + 1 |-> h[i]]
      BY <2>5, <3>1
    <3> QED  BY <3>2, <3>3
  <2>7. \E visited : visited = Visits(relation, k + 1, visited)
    <3> HIDE DEF h
    <3> QED  BY <2>6
  <2> QED  BY <2>7
<1> HIDE DEF Solved
<1>3. \A k \in Nat : k \in Solved
  BY <1>1, <1>2, AllNumbers
<1> QED  BY <1>3 DEF Solved

(* The memories that are searched. *)
LEMMA SizeIs ==
    /\ Size \in Nat \ {0} /\ Size \in Ends /\ IsFiniteSet(Cells) /\ Cardinality(Cells) = Size
    /\ \A i \in Cells : i \in Nat /\ (i \notin Ends => i + 1 \in Cells)
<1>1. Size \in Nat \ {0}
  BY CheatsAssumption DEF Size
<1>2. IsFiniteSet(1 .. Size) /\ Cardinality(1 .. Size) = Size
  <2>1. 1 \in Int /\ Size \in Int
    BY <1>1
  <2>2. IsFiniteSet(1 .. Size) /\ Cardinality(1 .. Size) = IF 1 > Size THEN 0 ELSE Size - 1 + 1
    BY <2>1, FS_Interval
  <2> QED  BY <1>1, <2>2
<1>3. Size \in Ends
  BY DEF Ends
<1>4. ASSUME NEW i \in Cells PROVE i \in Nat /\ (i \notin Ends => i + 1 \in Cells)
  BY <1>1, <1>3, <1>4 DEF Cells
<1> QED  BY <1>1, <1>2, <1>3, <1>4 DEF Cells

(* What is left after a step of the pass. *)
LEMMA OneDropped ==
    ASSUME NEW B, B \subseteq Cells, NEW i \in Cells, i \notin B
    PROVE  Cardinality(Cells \ (B \cup {i})) = Cardinality(Cells \ B) - 1
<1>1. IsFiniteSet(Cells \ B)
  BY SizeIs, FS_Difference
<1>2. Cells \ (B \cup {i}) = (Cells \ B) \ {i}
  OBVIOUS
<1> QED  BY <1>1, <1>2, FS_RemoveElement

(* What the search remembers of an address that is left is what was there. *)
Remembers(d, bytes, i) ==
    /\ d[i] = bytes[i]
    /\ type # "byte" => i \notin Ends /\ d[i + 1] = bytes[i + 1]

SearchTypes ==
    /\ searched \in [Cells -> Bytes] /\ data \in [Cells -> Bytes] /\ snapshot \in [Cells -> Bytes]
    /\ bitmap \in SUBSET Cells /\ count \in Nat /\ type \in Types

ResultsInv ==
    /\ SearchTypes
    /\ count # 0 => /\ count = Cardinality(Cells \ bitmap)
                    /\ \A i \in Cells \ bitmap : Remembers(data, snapshot, i)

SearchStates == [data : [Cells -> Bytes], bitmap : SUBSET Cells, count : Int]

(* A pass that has come to an address: of what follows, only the high byte *)
(* of a value that has been kept is overwritten.                           *)
Come(s, k, relation) ==
    /\ s \in SearchStates
    /\ Started.bitmap \subseteq s.bitmap
    /\ \A i \in s.bitmap : i \in Started.bitmap \/ i <= k
    /\ s.count = Cardinality(Cells \ s.bitmap)
    /\ \A i \in Cells \ s.bitmap : i <= k => Remembers(s.data, searched, i)
    /\ \A j \in Cells :
          j > k + 1 \/ (j = k + 1 /\ (type = "byte" \/ k = 0 \/ k \in s.bitmap))
             => s.data[j] = Started.data[j]
    /\ \A i \in Cells \ Started.bitmap :
          i <= k => (i \notin s.bitmap <=>
                        Accepts(ComparedWith(Started.data, s.bitmap, i), i, relation))

(* An address is judged by its bytes. *)
LEMMA SameBytesAccept ==
    ASSUME NEW d, NEW e, NEW i, NEW relation, type \in Types, d[i] = e[i],
           type = "byte" \/ i \in Ends \/ d[i + 1] = e[i + 1]
    PROVE  Accepts(d, i, relation) <=> Accepts(e, i, relation)
<1>1. type = "byte" => Value(d, i, type) = Value(e, i, type)
  BY DEF Value
<1>2. type # "byte" /\ d[i + 1] = e[i + 1] => Value(d, i, type) = Value(e, i, type)
  <2>1. type = "little" /\ d[i + 1] = e[i + 1] => Value(d, i, type) = Value(e, i, type)
    BY DEF Value
  <2>2. type = "big" /\ d[i + 1] = e[i + 1] => Value(d, i, type) = Value(e, i, type)
    BY DEF Value
  <2> QED  BY <2>1, <2>2 DEF Types
<1>3. Value(d, i, type) = Value(e, i, type) \/ (type # "byte" /\ i \in Ends)
  BY <1>1, <1>2
<1> QED  BY <1>3 DEF Accepts

(* What an address is compared with is a matter of the address before it.  *)
LEMMA SameDropped ==
    ASSUME NEW d, NEW b, NEW c, NEW i, i - 1 \in b <=> i - 1 \in c
    PROVE  ComparedWith(d, b, i) = ComparedWith(d, c, i)
BY DEF ComparedWith

(* A pass begins with bytes. *)
LEMMA StartedTyped == SearchTypes => Started.data \in [Cells -> Bytes]
BY CheatsAssumption DEF SearchTypes, Started, Bytes

(* A pass begins with what is left, or with all addresses. *)
LEMMA StartCome ==
    ASSUME ResultsInv, NEW relation
    PROVE  Come(Started, 0, relation)
<1>1. [i \in Cells |-> 0] \in [Cells -> Bytes]
  BY CheatsAssumption DEF Bytes
<1>2. CASE count = 0
  <2>1. Started = [data |-> [i \in Cells |-> 0], bitmap |-> {}, count |-> Size]
    BY <1>2 DEF Started
  <2>2. Size \in Int /\ Cardinality(Cells \ {}) = Size
    <3>1. Cells \ {} = Cells
      OBVIOUS
    <3> QED  BY <3>1, SizeIs
  <2>3. Started \in SearchStates
    BY <1>1, <2>1, <2>2 DEF SearchStates
  <2>4. \A i \in Cells : i \in Nat /\ ~(i <= 0)
    BY SizeIs DEF Cells
  <2> QED  BY <2>1, <2>2, <2>3, <2>4 DEF Come
<1>3. CASE count # 0
  <2>1. Started = [data |-> data, bitmap |-> bitmap, count |-> count]
    BY <1>3 DEF Started
  <2>2. Started \in SearchStates
    BY <2>1 DEF ResultsInv, SearchTypes, SearchStates
  <2>3. \A i \in Cells : i \in Nat /\ ~(i <= 0)
    BY SizeIs DEF Cells
  <2>4. Started.count = Cardinality(Cells \ Started.bitmap)
    BY <1>3, <2>1 DEF ResultsInv
  <2> QED  BY <2>2, <2>3, <2>4 DEF Come
<1> QED  BY <1>2, <1>3

(* The pass comes from one address to the next. *)
LEMMA VisitComes ==
    ASSUME SearchTypes, NEW k \in 0 .. Size - 1, NEW relation, NEW s, Come(s, k, relation)
    PROVE  Come(Visit(s, k + 1, relation), k + 1, relation)
<1> DEFINE n == k + 1
           t == Visit(s, n, relation)
<1>1. n \in Cells /\ k \in Nat /\ n \in Nat /\ n - 1 = k
  BY SizeIs DEF Cells
<1>2. \A i \in Cells : i \in Nat /\ (i <= n => i <= k \/ i = n)
  BY SizeIs, <1>1
<1>3. /\ s.data \in [Cells -> Bytes] /\ s.bitmap \in SUBSET Cells /\ s.count \in Int
      /\ Started.bitmap \subseteq s.bitmap
  BY DEF Come, SearchStates
<1>4. \A i \in Cells : n > k /\ ~(n <= k) /\ (i <= k => i # n /\ i - 1 # n /\ i <= n)
  BY <1>1, <1>2
<1>5. n \in s.bitmap => n \in Started.bitmap
  BY <1>4, <1>1 DEF Come
<1>6. \A j \in Cells : j > n + 1 \/ j = n + 1 => j > k + 1 /\ j # n
  BY <1>1, <1>2
<1>7. CASE n \in s.bitmap
  <2>1. t = s
    BY <1>7 DEF Visit
  <2>2. \A i \in s.bitmap : i \in Started.bitmap \/ i <= n
    BY <1>3, <1>4 DEF Come
  <2>3. \A i \in Cells \ s.bitmap : i <= n => Remembers(s.data, searched, i)
    BY <1>2, <1>7 DEF Come
  <2>4. \A j \in Cells : j > n + 1 \/ j = n + 1 => s.data[j] = Started.data[j]
    BY <1>6 DEF Come
  <2>5. \A i \in Cells \ Started.bitmap :
           i <= n => (i \notin s.bitmap <=>
                         Accepts(ComparedWith(Started.data, s.bitmap, i), i, relation))
    BY <1>2, <1>5, <1>7 DEF Come
  <2>6. Come(s, n, relation)
    BY <2>2, <2>3, <2>4, <2>5 DEF Come
  <2> QED  BY <2>1, <2>6
<1>8. ASSUME n \notin s.bitmap
      PROVE  Accepts(s.data, n, relation) <=>
                 Accepts(ComparedWith(Started.data, s.bitmap, n), n, relation)
  <2> DEFINE e == ComparedWith(Started.data, s.bitmap, n)
  <2>0. n \in Ends \/ (n + 1 \in Cells /\ s.data[n + 1] = Started.data[n + 1])
    <3>1. n \notin Ends => n + 1 \in Cells
      BY SizeIs, <1>1
    <3>2. n \notin Ends => n + 1 > k + 1
      BY <1>1
    <3> QED  BY <3>1, <3>2 DEF Come
  <2>1. CASE type = "byte" \/ n = 1 \/ n - 1 \in s.bitmap
    <3>1. e = Started.data
      BY <2>1 DEF ComparedWith
    <3>2. n = k + 1 /\ (type = "byte" \/ k = 0 \/ k \in s.bitmap)
      BY <1>1, <2>1
    <3>3. s.data[n] = e[n]
      BY <1>1, <3>1, <3>2 DEF Come
    <3> HIDE DEF e
    <3>4. n \in Ends \/ s.data[n + 1] = e[n + 1]
      BY <2>0, <3>1
    <3>5. Accepts(s.data, n, relation) <=> Accepts(e, n, relation)
      BY <3>3, <3>4, SameBytesAccept DEF SearchTypes
    <3> QED  BY <3>5 DEF e
  <2>2. CASE ~(type = "byte" \/ n = 1 \/ n - 1 \in s.bitmap)
    <3>1. e = [Started.data EXCEPT ![n] = searched[n]]
      BY <2>2 DEF ComparedWith
    <3> HIDE DEF e
    <3>2. k \in Cells \ s.bitmap /\ k <= k
      BY <1>1, <2>2, SizeIs DEF Cells
    <3>3. Remembers(s.data, searched, k)
      BY <3>2 DEF Come
    <3>4. s.data[n] = searched[n]
      BY <2>2, <3>3 DEF Remembers
    <3>5. Started.data \in [Cells -> Bytes]
      BY StartedTyped
    <3>6. e[n] = searched[n] /\ (n + 1 \in Cells => e[n + 1] = Started.data[n + 1])
      <4>1. n # n + 1
        BY <1>1
      <4> HIDE DEF n
      <4> QED  BY <1>1, <3>1, <3>5, <4>1
    <3>7. n \in Ends \/ s.data[n + 1] = e[n + 1]
      BY <2>0, <3>6
    <3>8. Accepts(s.data, n, relation) <=> Accepts(e, n, relation)
      BY <3>4, <3>6, <3>7, SameBytesAccept DEF SearchTypes
    <3> QED  BY <3>8 DEF e
  <2> QED  BY <2>1, <2>2
<1>9. CASE n \notin s.bitmap /\ Accepts(s.data, n, relation)
  <2>1. n \in Ends => type = "byte"
    BY <1>9 DEF Accepts
  <2>2. /\ t \in SearchStates /\ t.bitmap = s.bitmap /\ t.count = s.count
        /\ t.data[n] = searched[n]
        /\ type # "byte" => n + 1 \in Cells /\ t.data[n + 1] = searched[n + 1]
        /\ \A j \in Cells : j # n /\ (type = "byte" \/ j # n + 1) => t.data[j] = s.data[j]
    <3>1. searched[n] \in Bytes /\ (n + 1 \in Cells => searched[n + 1] \in Bytes)
      BY <1>1 DEF SearchTypes
    <3>2. CASE type = "byte"
      <4>1. t = [s EXCEPT !.data[n] = searched[n]]
        BY <1>9, <3>2 DEF Visit
      <4> HIDE DEF t
      <4> QED  BY <1>1, <1>3, <3>1, <3>2, <4>1 DEF Come, SearchStates
    <3>3. CASE type # "byte"
      <4>1. t = [s EXCEPT !.data[n] = searched[n], !.data[n + 1] = searched[n + 1]]
        BY <1>9, <3>3 DEF Visit
      <4>2. n + 1 \in Cells /\ n # n + 1
        BY SizeIs, <1>1, <2>1, <3>3
      <4> HIDE DEF t, n
      <4> QED  BY <1>1, <1>3, <3>1, <3>3, <4>1, <4>2 DEF Come, SearchStates
    <3> QED  BY <3>2, <3>3
  <2> HIDE DEF t
  <2>3. \A i \in t.bitmap : i \in Started.bitmap \/ i <= n
    BY <1>3, <1>4, <2>2 DEF Come
  <2>4. ASSUME NEW i \in Cells \ t.bitmap, i <= n PROVE Remembers(t.data, searched, i)
    <3>1. CASE i = n
      BY <2>1, <2>2, <3>1 DEF Remembers
    <3>2. CASE i <= k
      <4>1. Remembers(s.data, searched, i)
        BY <2>2, <3>2 DEF Come
      <4>2. i # n /\ i # n + 1 /\ i \in Nat
        BY <1>1, <1>2, <3>2
      <4>3. t.data[i] = s.data[i]
        BY <2>2, <4>2
      <4>4. ASSUME type # "byte" PROVE i \notin Ends /\ t.data[i + 1] = searched[i + 1]
        <5>1. i \notin Ends /\ i + 1 \in Cells /\ s.data[i + 1] = searched[i + 1]
          BY <4>1, <4>4, SizeIs DEF Remembers
        <5>2. i + 1 # n + 1
          BY <1>1, <4>2
        <5> QED  BY <2>2, <5>1, <5>2
      <4> QED  BY <4>1, <4>3, <4>4 DEF Remembers
    <3> QED  BY <1>2, <2>4, <3>1, <3>2
  <2>5. ASSUME NEW j \in Cells,
               j > n + 1 \/ (j = n + 1 /\ (type = "byte" \/ n = 0 \/ n \in t.bitmap))
        PROVE  t.data[j] = Started.data[j]
    <3>1. j # n /\ (type = "byte" \/ j # n + 1)
      BY <1>1, <1>2, <1>9, <2>2, <2>5
    <3>2. j > k + 1
      BY <1>6, <2>5
    <3>3. s.data[j] = Started.data[j]
      BY <3>2 DEF Come
    <3> QED  BY <2>2, <3>1, <3>3
  <2>6. ASSUME NEW i \in Cells \ Started.bitmap, i <= n
        PROVE  i \notin t.bitmap <=>
                   Accepts(ComparedWith(Started.data, t.bitmap, i), i, relation)
    <3>1. i = n => (i \notin t.bitmap <=>
                       Accepts(ComparedWith(Started.data, t.bitmap, i), i, relation))
      BY <1>8, <1>9, <2>2, <2>6
    <3>2. i <= k => (i \notin t.bitmap <=>
                        Accepts(ComparedWith(Started.data, t.bitmap, i), i, relation))
      BY <2>2, <2>6 DEF Come
    <3> QED  BY <1>2, <2>6, <3>1, <3>2
  <2>7. Started.bitmap \subseteq t.bitmap /\ t.count = Cardinality(Cells \ t.bitmap)
    BY <2>2 DEF Come
  <2>8. Come(t, n, relation)
    <3> HIDE DEF n
    <3> QED  BY <2>2, <2>3, <2>4, <2>5, <2>6, <2>7 DEF Come
  <2> QED  BY <2>8 DEF t
<1>10. CASE n \notin s.bitmap /\ ~Accepts(s.data, n, relation)
  <2>1. t = [s EXCEPT !.bitmap = @ \cup {n}, !.count = @ - 1]
    BY <1>10 DEF Visit
  <2>2. /\ t \in SearchStates /\ t.bitmap = s.bitmap \cup {n}
        /\ t.count = s.count - 1 /\ t.data = s.data
    <3>1. s \in [data : [Cells -> Bytes], bitmap : SUBSET Cells, count : Int]
      BY DEF Come, SearchStates
    <3>2. s.bitmap \cup {n} \in SUBSET Cells /\ s.count - 1 \in Int
      BY <1>1, <1>3
    <3> HIDE DEF t, n
    <3> QED  BY <2>1, <3>1, <3>2 DEF SearchStates
  <2> HIDE DEF t
  <2>3. \A i \in t.bitmap : i \in Started.bitmap \/ i <= n
    <3>1. \A i \in s.bitmap : i \in Started.bitmap \/ i <= n
      BY <1>3, <1>4 DEF Come
    <3>2. n <= n
      BY <1>1
    <3> HIDE DEF n
    <3> QED  BY <2>2, <3>1, <3>2
  <2>4. \A i \in Cells \ t.bitmap : i <= n => Remembers(t.data, searched, i)
    <3>1. \A i \in Cells \ t.bitmap : i \in Cells \ s.bitmap /\ (i <= n => i <= k)
      BY <1>2, <2>2
    <3>2. \A i \in Cells \ s.bitmap : i <= k => Remembers(s.data, searched, i)
      BY DEF Come
    <3> HIDE DEF n
    <3> QED  BY <2>2, <3>1, <3>2
  <2>5. \A j \in Cells : j > n + 1 \/ j = n + 1 => t.data[j] = Started.data[j]
    BY <1>6, <2>2 DEF Come
  <2>6. ASSUME NEW i \in Cells \ Started.bitmap, i <= n
        PROVE  i \notin t.bitmap <=>
                   Accepts(ComparedWith(Started.data, t.bitmap, i), i, relation)
    <3>1. i - 1 # n
      BY <1>1, <1>2, <2>6
    <3>2. ComparedWith(Started.data, t.bitmap, i) = ComparedWith(Started.data, s.bitmap, i)
      <4>1. i - 1 \in t.bitmap <=> i - 1 \in s.bitmap
        <5> HIDE DEF n
        <5> QED  BY <2>2, <3>1
      <4> QED  BY <4>1, SameDropped
    <3>3. ASSUME i = n
          PROVE  i \notin t.bitmap <=>
                     Accepts(ComparedWith(Started.data, s.bitmap, i), i, relation)
      <4>1. Accepts(s.data, i, relation) <=>
                Accepts(ComparedWith(Started.data, s.bitmap, i), i, relation)
        BY <1>8, <1>10, <3>3
      <4>2. ~Accepts(s.data, i, relation) /\ i \in t.bitmap
        <5> HIDE DEF n
        <5> QED  BY <1>10, <2>2, <3>3
      <4> QED  BY <4>1, <4>2
    <3>4. ASSUME i <= k
          PROVE  i \notin t.bitmap <=>
                     Accepts(ComparedWith(Started.data, s.bitmap, i), i, relation)
      <4>1. i # n
        BY <1>4, <3>4
      <4>2. i \notin s.bitmap <=> Accepts(ComparedWith(Started.data, s.bitmap, i), i, relation)
        BY <3>4 DEF Come
      <4> HIDE DEF n
      <4> QED  BY <2>2, <4>1, <4>2
    <3> QED  BY <1>2, <2>6, <3>2, <3>3, <3>4
  <2>7. Started.bitmap \subseteq t.bitmap /\ t.count = Cardinality(Cells \ t.bitmap)
    <3>1. s.count = Cardinality(Cells \ s.bitmap)
      BY DEF Come
    <3>2. Cardinality(Cells \ (s.bitmap \cup {n})) = Cardinality(Cells \ s.bitmap) - 1
      BY <1>1, <1>3, <1>10, OneDropped
    <3> HIDE DEF n
    <3> QED  BY <1>3, <2>2, <3>1, <3>2
  <2>8. Come(t, n, relation)
    <3> HIDE DEF n
    <3> QED  BY <2>2, <2>3, <2>4, <2>5, <2>6, <2>7 DEF Come
  <2> QED  BY <2>8 DEF t
<1> QED  BY <1>7, <1>9, <1>10

(* A whole pass. *)
LEMMA PassComes ==
    ASSUME ResultsInv, NEW relation
    PROVE  Come(Pass(relation), Size, relation)
<1>1. \E visited : visited = Visits(relation, Size, visited)
  BY SizeIs, VisitsExist
<1> DEFINE V == CHOOSE visited : visited = Visits(relation, Size, visited)
           Solved == {k \in Nat : k <= Size => Come(V[k], k, relation)}
<1>2. V = Visits(relation, Size, V)
  BY <1>1
<1>3. Pass(relation) = V[Size]
  BY PassIsChosen
<1> HIDE DEF V
<1>4. \A i \in 0 .. Size : V[i] = IF i = 0 THEN Started ELSE Visit(V[i - 1], i, relation)
  BY <1>2 DEF Visits
<1>5. 0 \in Solved
  <2>1. V[0] = Started
    <3>1. 0 \in 0 .. Size
      BY SizeIs
    <3> QED  BY <1>4, <3>1
  <2> QED  BY <2>1, StartCome
<1>6. ASSUME NEW k \in Nat, k \in Solved PROVE k + 1 \in Solved
  <2> SUFFICES ASSUME k + 1 <= Size PROVE Come(V[k + 1], k + 1, relation)
    OBVIOUS
  <2>1. k \in 0 .. Size - 1 /\ k <= Size
    BY SizeIs
  <2>2. Come(V[k], k, relation)
    BY <1>6, <2>1
  <2>3. V[k + 1] = Visit(V[k], k + 1, relation)
    <3>1. k + 1 \in 0 .. Size /\ k + 1 # 0 /\ k + 1 - 1 = k
      BY SizeIs
    <3> QED  BY <1>4, <3>1
  <2>4. SearchTypes
    BY DEF ResultsInv
  <2> QED  BY <2>1, <2>2, <2>3, <2>4, VisitComes
<1> HIDE DEF Solved
<1>7. \A k \in Nat : k \in Solved
  BY <1>5, <1>6, AllNumbers
<1>8. Size \in Solved
  BY <1>7, SizeIs
<1> QED  BY <1>3, <1>8, SizeIs DEF Solved

FilterKeeps ==
    LET before == IF count = 0 THEN [i \in Cells |-> 0] ELSE snapshot
        candidates == IF count = 0 THEN Cells ELSE Left
    IN /\ \A i \in candidates :
             i \notin bitmap' <=> Accepts(ComparedWith(before, bitmap', i), i, step')
       /\ count' = Cardinality(Cells \ bitmap')

(* A filter is a pass over all addresses. *)
LEMMA FilterPasses ==
    ASSUME ResultsInv, NEW relation, GB_cheat_search_filter(relation)
    PROVE  ResultsInv' /\ FilterKeeps
<1> DEFINE after == Pass(relation)
<1>1. Come(after, Size, relation)
  BY PassComes
<1> HIDE DEF after
<1>2. /\ data' = after.data /\ bitmap' = after.bitmap /\ count' = after.count
      /\ snapshot' = searched /\ step' = relation /\ searched' = searched /\ type' = type
  BY DEF GB_cheat_search_filter, after
<1>3. SearchTypes'
  <2>1. count' \in Nat
    <3>1. IsFiniteSet(Cells \ bitmap')
      BY SizeIs, FS_Difference
    <3>2. count' = Cardinality(Cells \ bitmap')
      BY <1>1, <1>2 DEF Come
    <3> QED  BY <3>1, <3>2, FS_CardinalityType
  <2> QED  BY <1>1, <1>2, <2>1 DEF Come, SearchStates, ResultsInv, SearchTypes, Cells, Bytes, Size
<1>4. \A i \in Cells : i \in Nat /\ i <= Size
  BY SizeIs DEF Cells
<1>5. \A i \in Cells \ bitmap' : Remembers(data', searched, i)
  BY <1>1, <1>2, <1>4 DEF Come
<1>6. ResultsInv'
  <2>1. \A i \in Cells : Remembers(data', searched, i) => Remembers(data, snapshot, i)'
    BY <1>2 DEF Remembers
  <2>2. count' = Cardinality(Cells \ bitmap')
    BY <1>1, <1>2 DEF Come
  <2> QED  BY <1>3, <1>5, <2>1, <2>2 DEF ResultsInv
<1>7. FilterKeeps
  <2> DEFINE before == IF count = 0 THEN [i \in Cells |-> 0] ELSE snapshot
             candidates == IF count = 0 THEN Cells ELSE Left
  <2>1. candidates = Cells \ Started.bitmap
    BY DEF Started, Left
  <2>2. ASSUME NEW i \in candidates
        PROVE  i \notin bitmap' <=> Accepts(ComparedWith(before, bitmap', i), i, step')
    <3>1. i \in Cells \ Started.bitmap
      BY <2>1
    <3>2. i \notin bitmap' <=>
              Accepts(ComparedWith(Started.data, bitmap', i), i, relation)
      BY <1>1, <1>2, <1>4, <2>2, <3>1 DEF Come
    <3>3. CASE count = 0
      <4>1. Started.data = before
        BY <3>3 DEF Started
      <4> QED  BY <1>2, <3>2, <4>1
    <3>4. CASE count # 0
      <4>1. Started.data = data /\ before = snapshot /\ i \in Cells \ bitmap
        BY <3>1, <3>4 DEF Started
      <4>2. Remembers(data, snapshot, i)
        BY <3>4, <4>1 DEF ResultsInv
      <4>3. Accepts(ComparedWith(data, bitmap', i), i, relation) <=>
                Accepts(ComparedWith(snapshot, bitmap', i), i, relation)
        <5> DEFINE d == ComparedWith(data, bitmap', i)
                   e == ComparedWith(snapshot, bitmap', i)
        <5>1. \/ d = data /\ e = snapshot
              \/ d = [data EXCEPT ![i] = searched[i]] /\ e = [snapshot EXCEPT ![i] = searched[i]]
          BY DEF ComparedWith
        <5>2. /\ data \in [Cells -> Bytes] /\ snapshot \in [Cells -> Bytes] /\ type \in Types
              /\ i \in Cells /\ i \in Nat /\ (i \notin Ends => i + 1 \in Cells)
          BY <4>1, SizeIs DEF ResultsInv, SearchTypes
        <5> HIDE DEF d, e
        <5>3. d[i] = e[i]
          BY <4>2, <5>1, <5>2 DEF Remembers
        <5>4. type = "byte" \/ i \in Ends \/ d[i + 1] = e[i + 1]
          BY <4>2, <5>1, <5>2 DEF Remembers
        <5>5. Accepts(d, i, relation) <=> Accepts(e, i, relation)
          BY <5>2, <5>3, <5>4, SameBytesAccept
        <5> QED  BY <5>5 DEF d, e
      <4> QED  BY <1>2, <3>2, <4>1, <4>3
    <3> QED  BY <3>3, <3>4
  <2>3. count' = Cardinality(Cells \ bitmap')
    BY <1>1, <1>2 DEF Come
  <2> QED  BY <2>2, <2>3 DEF FilterKeeps
<1> QED  BY <1>6, <1>7

(* Every step of the search, and what does not touch it. *)
LEMMA SearchStep ==
    ASSUME ResultsInv, SearchNext
    PROVE  ResultsInv' /\ (filters' # filters => FilterKeeps)
<1>1. ASSUME NEW relation, GB_cheat_search_filter(relation)
      PROVE  ResultsInv' /\ (filters' # filters => FilterKeeps)
  BY <1>1, FilterPasses
<1>2. ASSUME GB_cheat_search_reset PROVE ResultsInv' /\ filters' = filters
  <2>1. [i \in Cells |-> 0] \in [Cells -> Bytes]
    BY CheatsAssumption DEF Bytes
  <2>2. /\ data' = [i \in Cells |-> 0] /\ snapshot' = data' /\ bitmap' = {} /\ count' = 0
        /\ searched' = searched /\ type' = type /\ filters' = filters
    BY <1>2 DEF GB_cheat_search_reset
  <2>3. SearchTypes'
    BY <2>1, <2>2 DEF ResultsInv, SearchTypes, Cells, Bytes, Size
  <2> QED  BY <2>2, <2>3 DEF ResultsInv
<1>3. ASSUME NEW i \in Cells, NEW value \in Bytes, Poke(i, value)
      PROVE  ResultsInv' /\ filters' = filters
  <2>1. /\ searched' = [searched EXCEPT ![i] = value]
        /\ UNCHANGED <<data, bitmap, count, type, filters, snapshot>>
    BY <1>3 DEF Poke
  <2>2. SearchTypes'
    BY <2>1 DEF ResultsInv, SearchTypes, Cells, Bytes, Size
  <2>3. \A j : Remembers(data, snapshot, j)' <=> Remembers(data, snapshot, j)
    BY <2>1 DEF Remembers, Ends, Size
  <2> QED  BY <2>1, <2>2, <2>3 DEF ResultsInv, Cells, Size
<1> QED  BY <1>1, <1>2, <1>3 DEF SearchNext

(* The search starts with nothing. *)
LEMMA SearchStart == SearchInit => ResultsInv
<1> SUFFICES ASSUME SearchInit PROVE ResultsInv
  OBVIOUS
<1>1. [i \in Cells |-> 0] \in [Cells -> Bytes]
  BY CheatsAssumption DEF Bytes
<1> QED  BY <1>1 DEF SearchInit, ResultsInv, SearchTypes

(* What leaves the search alone. *)
LEMMA SearchStays ==
    ASSUME ResultsInv, UNCHANGED searchVars
    PROVE  ResultsInv' /\ filters' = filters
<1>1. UNCHANGED <<searched, data, bitmap, count, type, filters, snapshot>>
  BY DEF searchVars
<1>2. SearchTypes'
  BY <1>1 DEF ResultsInv, SearchTypes, Cells, Bytes, Size
<1>3. \A j : Remembers(data, snapshot, j)' <=> Remembers(data, snapshot, j)
  BY <1>1 DEF Remembers, Ends, Size
<1> QED  BY <1>1, <1>2, <1>3 DEF ResultsInv, Cells, Size

(* Cheats and the search for them.  A read of a cheat's address is what a  *)
(* cheat of the list that asks for it says, or unchanged if there is none, *)
(* through additions, edits, removals and files in any order.  And a       *)
(* filter of the search keeps exactly the addresses whose values are so    *)
(* related to those at the filter before, whatever was written in between, *)
(* and counts them; of values of two bytes, the byte that an address       *)
(* shares with one kept just before it counts as unchanged.  The memories  *)
(* have any sizes but zero: of a cartridge without RAM nothing is said.    *)
THEOREM CheatsTheorem == CheatsSpec => []ReadsAreListed /\ FiltersSinceTheLast
<1> DEFINE Inv == ListInv /\ ResultsInv
<1>1. CheatsInit => Inv
  BY ListStart, SearchStart DEF CheatsInit
<1>2. ASSUME Inv, [CheatsNext]_cheatsVars
      PROVE  Inv' /\ (UNCHANGED searchVars \/ (filters' # filters => FilterKeeps))
  <2>1. CASE ListNext /\ UNCHANGED searchVars
    BY <1>2, <2>1, ListStep, SearchStays
  <2>2. CASE SearchNext /\ UNCHANGED listVars
    BY <1>2, <2>2, ListStep, SearchStep
  <2>3. CASE UNCHANGED cheatsVars
    BY <1>2, <2>3, ListStep, SearchStays DEF cheatsVars
  <2> QED  BY <1>2, <2>1, <2>2, <2>3 DEF CheatsNext
<1>3. Inv => ReadsAreListed
  BY ListedReads
<1>4. Inv /\ [CheatsNext]_cheatsVars => [filters' # filters => FilterKeeps]_searchVars
  BY <1>2
<1>5. Inv /\ [CheatsNext]_cheatsVars => Inv'
  BY <1>2
<1>6. (CheatsSpec => [][filters' # filters => FilterKeeps]_searchVars) => (CheatsSpec => FiltersSinceTheLast)
  BY DEF FiltersSinceTheLast, FilterKeeps
<1> HIDE DEF Inv
<1> QED  BY <1>1, <1>3, <1>4, <1>5, <1>6, PTL DEF CheatsSpec
=============================================================================
