------------------------------ MODULE Debugger ------------------------------
(***************************************************************************)
(* The debugger's control of the program (Core/debugger.c): breakpoints,   *)
(* jump-to breakpoints, next, step, finish, continue, interrupt, reset and *)
(* undo, the hooks by which it follows calls and returns, and GB_run,      *)
(* which asks it before every instruction.  The machine is a program of    *)
(* jumps, calls and returns, the stack of their addresses, an interrupt    *)
(* and watched memory.                                                     *)
(***************************************************************************)
EXTENDS Integers, Sequences, SequencesExt, FiniteSetsExt

CONSTANTS
    Code,         \* a function of the addresses: [op |-> .., to |-> ..]
    Trivial,      \* the addresses that can be read without effect (ROM, RAM, HRAM)
    Vector,       \* where the interrupt goes to
    Spots,        \* where breakpoints are set
    MaxFrames,    \* the entries of backtrace_sps, 512
    MaxTime,      \* bound of the instructions run
    MaxCommands   \* bound of the commands given

ASSUME BacktraceAssumption == MaxFrames \in Nat

Nothing == [time |-> -1]
Quiet == [kind |-> "none"]

VARIABLES
    m,            \* the machine: pc, stack, ime, pending, and time, which tells states apart
    phase,        \* where GB_run is: "check", "prompt" or "cpu"
    stopped, debug_next, debug_fin, debug_active, depth,    \* debug_*
    breakpoints, hasJump,
    backtrace,    \* backtrace_sps, as heights of the stack
    undo, label,  \* undo_state, and whether there is an undo_label
    saved,        \* nontrivial_jump_state
    commands,     \* given so far
    why,          \* what stopped the program last
    asked,        \* what next or finish was given for
    entered, has_run,  \* the machine at the last command that is about it, and whether it has run since
    target,       \* the machine before the last command that had an effect
    arrival,      \* how it came to pc: by a command, by an instruction after one, or by itself
    since_prompt  \* saved was saved since the last prompt

control == <<stopped, debug_next, debug_fin, depth>>
breaks == <<breakpoints, hasJump>>
ghosts == <<commands, why, asked, entered, has_run, target, arrival, since_prompt>>
debuggerVars == <<m, phase, control, debug_active, breaks, backtrace, undo, label, saved, ghosts>>

DebuggerInit ==
    /\ m = [pc |-> 0, stack |-> <<>>, ime |-> TRUE, pending |-> FALSE, time |-> 0]
    /\ phase = "check"
    /\ stopped = TRUE /\ debug_next = FALSE /\ debug_fin = FALSE /\ debug_active = TRUE
    /\ depth = 0 /\ breakpoints = <<>> /\ hasJump = FALSE /\ backtrace = <<>>
    /\ undo = Nothing /\ label = FALSE /\ saved = Nothing
    /\ commands = 0 /\ why = "user" /\ asked = Quiet
    /\ entered = m /\ has_run = FALSE /\ target = Nothing /\ arrival = "given" /\ since_prompt = FALSE

Height == Len(m.stack)
Frames == [i \in 1 .. Height |-> i]

update_debug_active == debug_active' = (stopped' \/ debug_fin' \/ debug_next' \/ breakpoints' # <<>>)
-----------------------------------------------------------------------------
should_break(addr, jump) ==
    \E i \in DOMAIN breakpoints :
        breakpoints[i].jump = jump /\ addr \in breakpoints[i].first .. breakpoints[i].last

(* Where the instruction goes to: the table of getters. *)
NextAddress ==
    CASE Code[m.pc].op \in {"jump", "call"} -> Code[m.pc].to
      [] Code[m.pc].op \in {"ret", "reti"} -> Last(m.stack)
      [] OTHER -> m.pc + 1

test_jump_to_breakpoints ==
    CASE ~hasJump -> "none"
      [] hasJump /\ m.pc \notin Trivial -> "nontrivial"
      [] OTHER -> IF \/ m.ime /\ m.pending /\ should_break(Vector, TRUE)
                     \/ should_break(NextAddress, TRUE)
                  THEN "break" ELSE "none"

(* debugger_run, to the point where it asks for a command or returns. *)
JumpBreak ==
    /\ test_jump_to_breakpoints = "break"
    /\ stopped' = TRUE /\ why' = "jump" /\ saved' = Nothing
    /\ UNCHANGED <<m, since_prompt>>

JumpedInto ==
    /\ test_jump_to_breakpoints # "break" /\ saved # Nothing /\ should_break(m.pc, TRUE)
    /\ m' = saved /\ saved' = Nothing
    /\ stopped' = TRUE /\ why' = IF since_prompt THEN "jump" ELSE "late"
    /\ UNCHANGED since_prompt

JumpSaved ==
    /\ test_jump_to_breakpoints = "nontrivial"
    /\ ~(saved # Nothing /\ should_break(m.pc, TRUE))
    /\ saved' = m /\ since_prompt' = TRUE
    /\ UNCHANGED <<m, stopped, why>>

JumpNone ==
    /\ test_jump_to_breakpoints = "none"
    /\ ~(saved # Nothing /\ should_break(m.pc, TRUE))
    /\ saved' = Nothing
    /\ UNCHANGED <<m, stopped, why, since_prompt>>

Reached == (debug_next /\ depth <= 0) \/ (debug_fin /\ depth <= -1)

Stops ==
    CASE stopped -> UNCHANGED <<m, stopped, saved, why, since_prompt>>
      [] ~stopped /\ Reached ->
            stopped' = TRUE /\ why' = "asked" /\ UNCHANGED <<m, saved, since_prompt>>
      [] ~stopped /\ ~Reached /\ should_break(m.pc, FALSE) ->
            stopped' = TRUE /\ why' = "break" /\ UNCHANGED <<m, saved, since_prompt>>
      [] OTHER -> IF breakpoints = <<>> THEN UNCHANGED <<m, stopped, saved, why, since_prompt>>
                  ELSE JumpBreak \/ JumpedInto \/ JumpSaved \/ JumpNone

GB_debugger_run ==
    /\ phase = "check" /\ debug_active
    /\ undo' = IF undo = Nothing THEN m ELSE undo
    /\ Stops
    /\ debug_next' = (debug_next /\ ~stopped') /\ debug_fin' = (debug_fin /\ ~stopped')
    /\ phase' = IF stopped' THEN "prompt" ELSE "cpu"
    /\ UNCHANGED breaks
    /\ IF stopped' THEN debug_active' = TRUE ELSE update_debug_active
    /\ UNCHANGED <<depth, backtrace, label, commands, asked, entered, has_run, target, arrival>>

Inactive ==
    /\ phase = "check" /\ ~debug_active /\ phase' = "cpu"
    /\ UNCHANGED <<m, control, debug_active, breaks, backtrace, undo, label, saved, ghosts>>
-----------------------------------------------------------------------------
(* Commands that are for a stopped program only refuse by returning false. *)
GoingOn(kind) ==    \* mutant: next and finish count on from an earlier command's depth
    /\ IF stopped THEN
         /\ stopped' = (kind = "step")
         /\ debug_next' = (debug_next \/ kind = "next")
         /\ debug_fin' = (debug_fin \/ kind = "finish")
         /\ asked' = IF kind \in {"next", "finish"}
                     THEN [kind |-> kind, height |-> Height, ran |-> FALSE,
                           known |-> phase = "prompt" /\ backtrace = Frames]
                     ELSE Quiet
         /\ UNCHANGED depth
       ELSE UNCHANGED <<control, asked>>
    /\ UNCHANGED <<m, breaks, saved>>

Going(kind) ==
    /\ IF stopped THEN
         /\ stopped' = (kind = "step")
         /\ debug_next' = (debug_next \/ kind = "next")
         /\ debug_fin' = (debug_fin \/ kind = "finish")
         /\ depth' = IF kind \in {"next", "finish"} THEN 0 ELSE depth
         /\ asked' = IF kind \in {"next", "finish"}
                     THEN [kind |-> kind, height |-> Height, ran |-> FALSE,
                           known |-> phase = "prompt" /\ backtrace = Frames]
                     ELSE Quiet
       ELSE UNCHANGED <<control, asked>>
    /\ UNCHANGED <<m, breaks, saved>>

Interrupt == stopped' = TRUE /\ UNCHANGED <<m, debug_next, debug_fin, depth, breaks, saved, asked>>

NewId == IF breakpoints = <<>> THEN 1 ELSE Last(breakpoints).id + 1

Breakpoint(first, last, jump) ==
    /\ breakpoints' = Append(breakpoints, [id |-> NewId, first |-> first, last |-> last, jump |-> jump])
    /\ hasJump' = (hasJump \/ jump)
    /\ UNCHANGED <<m, control, saved, asked>>

Delete(id) ==
    \E i \in DOMAIN breakpoints :
        /\ breakpoints[i].id = id
        /\ breakpoints' = RemoveAt(breakpoints, i)
        /\ hasJump' = IF breakpoints[i].jump
                      THEN \E j \in DOMAIN breakpoints \ {i} : breakpoints[j].jump
                      ELSE hasJump
        /\ UNCHANGED <<m, control, saved, asked>>

ResetCommand ==
    /\ m' = [pc |-> 0, stack |-> <<>>, ime |-> TRUE, pending |-> FALSE, time |-> m.time + 1]
    /\ saved' = Nothing
    /\ asked' = IF asked = Quiet THEN Quiet ELSE [asked EXCEPT !.known = FALSE]
    /\ UNCHANGED <<control, breaks>>

Undo ==
    /\ m' = IF stopped /\ label THEN undo ELSE m
    /\ UNCHANGED <<control, breaks, saved, asked>>

(* GB_debugger_execute_command: the state before it is kept if it lets the *)
(* program go on, or has changed the machine.                              *)
KeptLast(was, continues, remains) ==    \* mutant: undo keeps the state after the command
    IF continues \/ m' # was THEN undo' = m' /\ label' = TRUE
    ELSE label' = remains /\ UNCHANGED undo

Kept(was, continues, remains) ==
    IF continues \/ m' # was THEN undo' = was /\ label' = TRUE
    ELSE label' = remains /\ UNCHANGED undo

CommandedOn(continues, remains) ==
    /\ commands < MaxCommands /\ commands' = commands + 1
    /\ Kept(m, continues, remains)
    /\ why' = "user" /\ since_prompt' = FALSE
    /\ arrival' = IF phase = "prompt" THEN "given" ELSE "after"
    /\ UNCHANGED backtrace
    /\ \/ phase = "prompt" /\ phase' = (IF continues THEN "cpu" ELSE "prompt")
       \/ phase = "check" /\ m.time > 0 /\ UNCHANGED phase    \* GB_debugger_handle_async_commands
    /\ IF phase' = "prompt" THEN UNCHANGED debug_active ELSE update_debug_active

Commanded(continues) == CommandedOn(continues, label)

AboutMachine ==
    /\ entered' = m /\ has_run' = FALSE
    /\ target' = IF has_run \/ m # entered THEN entered ELSE target

AboutDebugger == UNCHANGED <<entered, has_run, target>>

Command ==
    \/ \E kind \in {"continue", "next", "step", "finish"} : Going(kind) /\ Commanded(TRUE) /\ AboutMachine
    \/ Interrupt /\ ~stopped /\ Commanded(FALSE) /\ AboutDebugger
    \/ \E first, last \in Spots, jump \in BOOLEAN :
          /\ first <= last /\ Len(breakpoints) < 2
          /\ Breakpoint(first, last, jump) /\ Commanded(FALSE) /\ AboutDebugger
    \/ \E id \in 1 .. NewId : Delete(id) /\ Commanded(FALSE) /\ AboutDebugger
    \/ m.time < MaxTime /\ ResetCommand /\ Commanded(FALSE) /\ AboutMachine
    \/ Undo /\ CommandedOn(~stopped, label /\ ~stopped) /\ AboutMachine
-----------------------------------------------------------------------------
(* The frames whose call is below the stack's height, from the last on. *)
Below(height) == SubSeq(backtrace, 1, Max({0} \cup {i \in DOMAIN backtrace : backtrace[i] < height}))

GB_debugger_call_hook(height) ==
    /\ backtrace' = IF Len(backtrace) < MaxFrames THEN Append(Below(height), height) ELSE backtrace
    /\ depth' = depth + Len(backtrace') - Len(backtrace)

GB_debugger_ret_hook ==
    /\ backtrace' = Below(Height)
    /\ depth' = depth + Len(backtrace') - Len(backtrace)

Execute(irq) ==
    LET op == Code[m.pc].op
        next == [m EXCEPT !.pc = NextAddress, !.time = @ + 1, !.pending = @ \/ irq]
    IN CASE m.ime /\ m.pending ->
              /\ m' = [m EXCEPT !.pc = Vector, !.stack = Append(@, m.pc), !.ime = FALSE,
                                !.pending = irq, !.time = @ + 1]
              /\ GB_debugger_call_hook(Height + 1)
         [] ~(m.ime /\ m.pending) /\ op = "call" ->
              m' = [next EXCEPT !.stack = Append(@, m.pc + 1)] /\ GB_debugger_call_hook(Height + 1)
         [] ~(m.ime /\ m.pending) /\ op \in {"ret", "reti"} ->
              /\ m' = [next EXCEPT !.stack = Front(@), !.ime = @ \/ op = "reti"]
              /\ GB_debugger_ret_hook
         [] OTHER -> m' = next /\ UNCHANGED <<backtrace, depth>>

(* An instruction; a watched access in it stops the debugger. *)
GB_cpu_run ==
    /\ phase = "cpu" /\ phase' = "check" /\ m.time < MaxTime
    /\ \E irq \in BOOLEAN : (irq => m.ime) /\ Execute(irq)
    /\ \E watched \in BOOLEAN :
          /\ stopped' = (stopped \/ watched)
          /\ why' = IF watched THEN "watch" ELSE why
          /\ UNCHANGED <<debug_next, debug_fin, breaks>>
          /\ IF watched /\ ~stopped THEN update_debug_active ELSE UNCHANGED debug_active
    /\ has_run' = TRUE /\ arrival' = IF arrival = "given" THEN "after" ELSE "itself"
    /\ asked' = IF asked = Quiet THEN Quiet
                ELSE [asked EXCEPT !.ran = TRUE, !.known = @ /\ Len(m'.stack) <= MaxFrames]
    /\ UNCHANGED <<undo, label, saved, commands, entered, target, since_prompt>>

DebuggerNext == GB_debugger_run \/ Inactive \/ Command \/ GB_cpu_run

DebuggerSpec == DebuggerInit /\ [][DebuggerNext]_debuggerVars
-----------------------------------------------------------------------------
(* "next" stops at the first instruction that is not deeper in the stack   *)
(* than the one it was given at, and "finish" at the first that is less    *)
(* deep: whatever calls, returns and interrupts there are in between, if   *)
(* the debugger has seen the calls under way and has room for the next.    *)
StopsWhereAsked ==
    asked # Quiet /\ asked.known =>
        LET there == IF asked.kind = "next" THEN Height <= asked.height ELSE Height < asked.height
        IN /\ phase = "cpu" /\ asked.ran /\ (debug_next \/ debug_fin) => ~there
           /\ phase = "prompt" /\ why = "asked" => there

(* No instruction that the program runs by itself leads to a jump-to       *)
(* breakpoint without a stop before it, and a stop for such a breakpoint   *)
(* is where the next instruction leads to it, unless an interrupt comes    *)
(* first.                                                                  *)
JumpsAreSeen ==
    /\ phase = "cpu" /\ arrival = "itself" => ~should_break(m.pc, TRUE)
    /\ phase = "prompt" /\ why = "jump" =>
          (m.ime /\ m.pending) \/ should_break(NextAddress, TRUE)

(* "undo" takes the machine back to where it was before the last command   *)
(* that ran an instruction or changed the machine, another undo included.  *)
UndoReverts ==
    [][phase = "prompt" /\ commands' # commands /\ Undo /\ m' # m => m' = target']_debuggerVars

(* Execution stops where it was asked to, and before a jump to be stopped at. *)
StopsAsAsked == StopsWhereAsked /\ JumpsAreSeen
=============================================================================
