-------------------------- MODULE EmulationThread --------------------------
(***************************************************************************)
(* The threads of a Cocoa document (Cocoa/Document.m): the main thread,    *)
(* which handles the user's actions and the main dispatch queue, and the   *)
(* emulation thread, which runs the core.  They share volatile flags, a    *)
(* queue of debugger input under a condition lock, one pending block and   *)
(* the core's debugger flags (Core/debugger.c), and the core itself, which *)
(* has no lock.                                                            *)
(*                                                                         *)
(* An action is what one thread does between two accesses to shared state  *)
(* the other can see.  A game is debugged, by a user with the means that   *)
(* the four constants switch on, or it is just played, with none of them.  *)
(***************************************************************************)
EXTENDS Integers, Sequences

CONSTANTS
    Breakpoints,      \* a breakpoint or a watchpoint is set, or a step is under way
    Console,          \* debugger commands are typed
    Interrupts,       \* the Interrupt menu item is used
    BorderChanges,    \* the border mode preference is changed
    MaxInput          \* bound on the debugger input queue

VARIABLES
    debugging,              \* whether the game is debugged; it never changes
    running, stopping,      \* _running, _stopping
    pending,                \* _pendingAtomicBlock is set
    input,                  \* _debuggerInputQueue
    paused_command,         \* _debuggerCommandWhilePaused is set
    async_command,          \* it is on its way to queueDebuggerCommand
    border_changed,         \* _borderModeChanged
    debug_stopped, debug_disable, debug_active,
    emu,                    \* where the emulation thread is
    main,                   \* where the main thread is
    main_queue,             \* the block the emulation thread waits for on main
    after_stop,             \* what the main thread does once stop returns
    running_thread          \* running_thread_id is the emulation thread

debug == <<debug_stopped, debug_disable, debug_active>>
flags == <<running, stopping>>
console == <<input, paused_command, async_command>>
vars == <<debugging, flags, pending, console, border_changed, debug, emu, main, main_queue,
          after_stop, running_thread>>

Null == "NSNull"
Commands == {"continue", "print"}

(* update_debug_active takes no lock: while the emulation thread is there, *)
(* a value the other thread computed before may be written over it.        *)
Active(stopped, disable) == ~disable /\ (stopped \/ (debugging /\ Breakpoints))

UpdateActive(stopped, disable) ==
    debug_active' \in {Active(stopped, disable)}
                     \union (IF emu # "none" THEN {debug_active} ELSE {})

SetStopped(stopped) ==
    /\ debug_stopped' = stopped
    /\ UpdateActive(stopped, debug_disable)
    /\ UNCHANGED debug_disable

SetDisabled(disable) ==
    /\ debug_disable' = disable
    /\ UpdateActive(debug_stopped, disable)
    /\ UNCHANGED debug_stopped

Init ==
    /\ debugging \in BOOLEAN
    /\ running = FALSE /\ stopping = FALSE /\ pending = FALSE
    /\ input = << >> /\ paused_command = FALSE /\ async_command = FALSE
    /\ border_changed = FALSE
    /\ debug_stopped = FALSE /\ debug_disable = FALSE
    /\ debug_active = Active(FALSE, FALSE)
    /\ emu = "none" /\ main = "idle" /\ main_queue = "none"
    /\ after_stop = "idle" /\ running_thread = FALSE

-----------------------------------------------------------------------------
(* The emulation thread. *)

EmuAt(from, to) == emu = from /\ emu' = to

(* while (_running) of run. *)
Loop ==
    /\ emu = "loop"
    /\ emu' = IF running THEN "enter" ELSE "post"
    /\ UNCHANGED <<flags, pending, console, border_changed, debug, main,
                   main_queue, after_stop, running_thread>>

(* GB_debugger_run returns at once unless debug_active. *)
EnterDebugger ==
    /\ emu = "enter"
    /\ emu' = IF debug_active THEN "breakpoint" ELSE "cpu"
    /\ UNCHANGED <<flags, pending, console, border_changed, debug, main,
                   main_queue, after_stop, running_thread>>

(* should_break, and GB_debugger_break when it says so. *)
TestBreakpoint ==
    /\ EmuAt("breakpoint", "check")
    /\ \/ UNCHANGED debug
       \/ debugging /\ Breakpoints /\ ~debug_stopped /\ SetStopped(TRUE)
    /\ UNCHANGED <<flags, pending, console, border_changed, main, main_queue,
                   after_stop, running_thread>>

(* debug_stopped && !debug_disable: ask for input. *)
CheckStoppedUnguarded ==    \* mutant: debug_disable is not looked at
    /\ emu = "check"
    /\ emu' = IF debug_stopped THEN "side_view" ELSE "leave"
    /\ UNCHANGED <<flags, pending, console, border_changed, debug, main,
                   main_queue, after_stop, running_thread>>

CheckStopped ==
    /\ emu = "check"
    /\ emu' = IF debug_stopped /\ ~debug_disable THEN "side_view" ELSE "leave"
    /\ UNCHANGED <<flags, pending, console, border_changed, debug, main,
                   main_queue, after_stop, running_thread>>

(* updateSideView runs on the main thread, and getDebuggerInput waits.     *)
SideView ==
    /\ emu = "side_view"
    /\ IF debug_stopped
       THEN emu' = "sync" /\ main_queue' = "side_view"
       ELSE emu' = "ask" /\ UNCHANGED main_queue
    /\ UNCHANGED <<flags, pending, console, border_changed, debug, main,
                   after_stop, running_thread>>

(* A command typed while paused is sent round through the main queue. *)
AskForInput ==
    /\ EmuAt("ask", "input")
    /\ paused_command' = FALSE
    /\ async_command' = (async_command \/ paused_command)
    /\ UNCHANGED <<flags, pending, input, border_changed, debug, main, main_queue,
                   after_stop, running_thread>>

(* getDebuggerInput takes the head of the queue, and the command is run.   *)
(* NSNull continues without a command; "continue" leaves the debugger, and *)
(* any other command asks for the next one.                                *)
GetInput ==
    /\ emu = "input"
    /\ input # << >>
    /\ input' = Tail(input)
    /\ CASE Head(input) = Null -> SetStopped(FALSE) /\ emu' = "cpu"
         [] Head(input) = "continue" ->
                /\ debug_stopped' = FALSE
                /\ UNCHANGED <<debug_disable, debug_active>>
                /\ emu' = "leave"
         [] OTHER -> UNCHANGED debug /\ emu' = "breakpoint"
    /\ UNCHANGED <<flags, pending, paused_command, async_command, border_changed,
                   main, main_queue, after_stop, running_thread>>

(* The update_debug_active at the end of debugger_run. *)
LeaveDebugger ==
    /\ EmuAt("leave", "cpu")
    /\ SetStopped(debug_stopped)
    /\ UNCHANGED <<flags, pending, console, border_changed, main, main_queue,
                   after_stop, running_thread>>

(* GB_cpu_run, a watchpoint of which may break into the debugger. *)
EnterCpu ==
    /\ EmuAt("cpu", "in_cpu")
    /\ running_thread' = TRUE
    /\ \/ UNCHANGED debug
       \/ debugging /\ Breakpoints /\ ~debug_stopped /\ SetStopped(TRUE)
    /\ UNCHANGED <<flags, pending, console, border_changed, main, main_queue,
                   after_stop>>

(* The vblank callback, inside GB_cpu_run; a changed border mode is set on *)
(* the main thread.                                                        *)
VBlank ==
    /\ emu = "in_cpu"
    /\ IF border_changed
       THEN emu' = "sync" /\ main_queue' = "border"
       ELSE emu' = "vblank_end" /\ UNCHANGED main_queue
    /\ UNCHANGED <<flags, pending, console, border_changed, debug, main,
                   after_stop, running_thread>>

(* The request is cleared once the block has run, whatever came meanwhile. *)
BorderDone ==
    /\ EmuAt("border_done", "vblank_end")
    /\ border_changed' = FALSE
    /\ UNCHANGED <<flags, pending, console, debug, main, main_queue, after_stop,
                   running_thread>>

(* GB_run ends without or with a vertical blank; with one,                 *)
(* GB_debugger_handle_async_commands comes first.                          *)
LeaveCpu ==
    /\ \/ emu = "in_cpu" /\ emu' = "atomic"
       \/ emu = "vblank_end" /\ emu' = "async"
    /\ running_thread' = FALSE
    /\ UNCHANGED <<flags, pending, console, border_changed, debug, main,
                   main_queue, after_stop>>

(* getAsyncDebuggerInput: an empty queue or NSNull ends the loop.          *)
(* "continue" is a command of the stopped debugger only.                   *)
AsyncCommand ==
    /\ emu = "async"
    /\ IF input = << >>
       THEN emu' = "atomic" /\ UNCHANGED <<input, debug>>
       ELSE /\ input' = Tail(input)
            /\ emu' = IF Head(input) = Null THEN "atomic" ELSE "async"
            /\ CASE Head(input) = Null -> UNCHANGED debug
                 [] Head(input) = "continue" /\ debug_stopped -> SetStopped(FALSE)
                 [] OTHER -> SetStopped(debug_stopped)
    /\ UNCHANGED <<flags, pending, paused_command, async_command, border_changed,
                   main, main_queue, after_stop, running_thread>>

(* The pending block runs between two calls of GB_run, then is cleared. *)
TestPending ==
    /\ emu = "atomic"
    /\ emu' = IF pending THEN "block" ELSE "loop"
    /\ UNCHANGED <<flags, pending, console, border_changed, debug, main,
                   main_queue, after_stop, running_thread>>

RunPendingForgotten ==    \* mutant: the block is run and not cleared
    /\ EmuAt("block", "loop")
    /\ UNCHANGED <<flags, pending, console, border_changed, debug, main,
                   main_queue, after_stop, running_thread>>

RunPending ==
    /\ EmuAt("block", "loop")
    /\ pending' = FALSE
    /\ UNCHANGED <<flags, console, border_changed, debug, main, main_queue,
                   after_stop, running_thread>>

EndRunSilent ==    \* mutant: _stopping is not cleared
    /\ EmuAt("post", "none")
    /\ UNCHANGED <<flags, pending, console, border_changed, debug, main, main_queue,
                   after_stop, running_thread>>

(* postRun, then _stopping = false; the thread is gone. *)
EndRun ==
    /\ EmuAt("post", "none")
    /\ stopping' = FALSE
    /\ UNCHANGED <<running, pending, console, border_changed, debug, main,
                   main_queue, after_stop, running_thread>>

EmuStep ==
    /\ \/ Loop \/ EnterDebugger \/ TestBreakpoint \/ CheckStopped \/ SideView
       \/ AskForInput \/ GetInput \/ LeaveDebugger \/ EnterCpu \/ VBlank
       \/ BorderDone \/ LeaveCpu
       \/ AsyncCommand \/ TestPending \/ RunPending \/ EndRun
    /\ UNCHANGED debugging

-----------------------------------------------------------------------------
(* The main thread. *)

MainAt(from, to) == main = from /\ main' = to

(* start: unless running, a new emulation thread. *)
Started ==
    IF running THEN UNCHANGED <<running, emu>>
    ELSE running' = TRUE /\ emu' = "loop"

UserStart ==
    /\ main = "idle" /\ ~running
    /\ Started
    /\ UNCHANGED <<stopping, pending, console, border_changed, debug, main,
                   main_queue, after_stop, running_thread>>

(* Pause, close and the link cable stop the thread; reset stops it, loads  *)
(* the ROM, resets the core and starts it again.                           *)
UserStop(then) ==
    /\ MainAt("idle", "stop_disable") /\ running
    /\ Len(input) < MaxInput
    /\ after_stop' = then
    /\ UNCHANGED <<flags, pending, console, border_changed, debug, emu, main_queue,
                   running_thread>>

StopDisable ==
    /\ MainAt("stop_disable", "stop_wake")
    /\ SetDisabled(TRUE)
    /\ UNCHANGED <<flags, pending, console, border_changed, emu, main_queue,
                   after_stop, running_thread>>

(* interruptDebugInputRead, if the debugger is stopped. *)
StopWake ==
    /\ MainAt("stop_wake", "stop_flag")
    /\ input' = IF debug_stopped THEN Append(input, Null) ELSE input
    /\ UNCHANGED <<flags, pending, paused_command, async_command, border_changed, debug,
                   emu, main_queue, after_stop, running_thread>>

StopFlag ==
    /\ MainAt("stop_flag", "stop_running")
    /\ stopping' = TRUE
    /\ UNCHANGED <<running, pending, console, border_changed, debug, emu, main_queue,
                   after_stop, running_thread>>

StopRunning ==
    /\ MainAt("stop_running", "stop_spin")
    /\ running' = FALSE
    /\ UNCHANGED <<stopping, pending, console, border_changed, debug, emu, main_queue,
                   after_stop, running_thread>>

StopReturnEarly ==    \* mutant: stop does not wait for the thread to end
    /\ MainAt("stop_spin", after_stop)
    /\ SetDisabled(FALSE)
    /\ UNCHANGED <<flags, pending, console, border_changed, emu, main_queue,
                   after_stop, running_thread>>

(* while (_stopping), then the debugger is enabled again. *)
StopReturn ==
    /\ MainAt("stop_spin", after_stop)
    /\ ~stopping
    /\ SetDisabled(FALSE)
    /\ UNCHANGED <<flags, pending, console, border_changed, emu, main_queue,
                   after_stop, running_thread>>

(* The end of reset: the core is reset, and the thread started. *)
ResetDone ==
    /\ MainAt("reset", "idle")
    /\ Started
    /\ UNCHANGED <<stopping, pending, console, border_changed, debug, main_queue,
                   after_stop, running_thread>>

(* performAtomicBlock: save and load a state, connect an accessory, ...    *)
UserBlockDirect ==    \* mutant: the block never goes through the emulation thread
    /\ MainAt("idle", "block")
    /\ UNCHANGED <<flags, pending, console, border_changed, debug, emu, main_queue,
                   after_stop, running_thread>>

UserBlock ==
    /\ main = "idle"
    /\ IF running /\ ~debug_stopped
       THEN pending' = TRUE /\ main' = "pending"
       ELSE UNCHANGED pending /\ main' = "block"
    /\ UNCHANGED <<flags, console, border_changed, debug, emu, main_queue,
                   after_stop, running_thread>>

BlockDone ==
    /\ \/ main = "block"
       \/ main = "pending" /\ ~pending
    /\ main' = "idle"
    /\ UNCHANGED <<flags, pending, console, border_changed, debug, emu, main_queue,
                   after_stop, running_thread>>

(* interrupt: *)
UserInterrupt ==
    /\ debugging /\ Interrupts /\ main = "idle"
    /\ SetStopped(TRUE)
    /\ Started
    /\ UNCHANGED <<stopping, pending, console, border_changed, main, main_queue,
                   after_stop, running_thread>>

(* queueDebuggerCommand. *)
QueueCommand(command) ==
    IF ~running /\ ~debug_stopped
    THEN /\ paused_command' = TRUE
         /\ SetStopped(TRUE)
         /\ Started
         /\ UNCHANGED input
    ELSE /\ input' = Append(input, command)
         /\ UNCHANGED <<paused_command, debug, running, emu>>

UserCommand(command) ==
    /\ debugging /\ Console /\ main = "idle" /\ Len(input) < MaxInput
    /\ QueueCommand(command)
    /\ UNCHANGED <<stopping, pending, async_command, border_changed, main, main_queue,
                   after_stop, running_thread>>

(* The block getDebuggerInput sent to the main queue. *)
ServeAsync ==
    /\ async_command /\ main = "idle" /\ Len(input) < MaxInput
    /\ async_command' = FALSE
    /\ \E command \in Commands : QueueCommand(command)
    /\ UNCHANGED <<stopping, pending, border_changed, main, main_queue, after_stop,
                   running_thread>>

UserBorder ==
    /\ debugging /\ BorderChanges /\ main = "idle"
    /\ border_changed' = TRUE
    /\ UNCHANGED <<flags, pending, console, debug, emu, main, main_queue, after_stop,
                   running_thread>>

(* A block of dispatch_sync, with the emulation thread waiting. *)
Serve ==
    /\ MainAt("idle", "serve") /\ main_queue # "none"
    /\ UNCHANGED <<flags, pending, console, border_changed, debug, emu, main_queue,
                   after_stop, running_thread>>

ServeDone ==
    /\ MainAt("serve", "idle")
    /\ main_queue' = "none"
    /\ emu' = IF main_queue = "side_view" THEN "ask" ELSE "border_done"
    /\ UNCHANGED <<flags, pending, console, border_changed, debug, after_stop,
                   running_thread>>

UserEvent ==
    /\ \/ UserStart
       \/ \E then \in {"idle", "reset"} : UserStop(then)
       \/ UserBlock \/ UserInterrupt \/ UserBorder
       \/ \E command \in Commands : UserCommand(command)
    /\ UNCHANGED debugging

MainStep ==
    /\ \/ StopDisable \/ StopWake \/ StopFlag \/ StopRunning \/ StopReturn
       \/ ResetDone \/ BlockDone \/ ServeAsync \/ Serve \/ ServeDone
    /\ UNCHANGED debugging

Next == EmuStep \/ MainStep \/ UserEvent

(* Both threads keep running, and the main run loop serves its queue: when *)
(* a block is waiting, it is reached sooner or later.  The user is not     *)
(* obliged to do anything, so that a debugger may wait for ever.           *)
Spec ==
    /\ Init /\ [][Next]_vars
    /\ WF_vars(EmuStep) /\ WF_vars(MainStep) /\ SF_vars(Serve /\ UNCHANGED debugging)
-----------------------------------------------------------------------------
EmuStates == {"none", "loop", "enter", "breakpoint", "check", "side_view", "sync", "ask",
              "input", "leave", "cpu", "in_cpu", "border_done", "vblank_end", "async",
              "atomic", "block", "post"}
StopStates == {"stop_disable", "stop_wake", "stop_flag", "stop_running", "stop_spin"}
MainStates == StopStates \union {"idle", "reset", "block", "pending", "serve"}

TypeOK ==
    /\ {debugging, running, stopping, pending, paused_command, async_command,
        border_changed, debug_stopped, debug_disable, debug_active, running_thread} \subseteq BOOLEAN
    /\ input \in Seq(Commands \union {Null})
    /\ emu \in EmuStates
    /\ main \in MainStates
    /\ main_queue \in {"none", "side_view", "border"}
    /\ after_stop \in {"idle", "reset"}

(* Paused means gone: when stop has returned there is no emulation thread, *)
(* so that the main thread may use the core, and start may create one.     *)
Quiescent == main \in {"idle", "reset", "block"} /\ ~running => emu = "none"

(* The core is never used by the main thread, in a block it runs itself or *)
(* in a reset, while the emulation thread is inside it; in a game that is  *)
(* not debugged.                                                           *)
EmuInCore == running_thread \/ emu \in {"async", "block", "post"}
CoreExclusive == ~(main \in {"block", "reset"} /\ EmuInCore)
GameCoreExclusive == ~debugging => CoreExclusive

(* The emulation thread has decided to wait for debugger input.            *)
WaitsForInput ==
    \/ emu \in {"side_view", "ask", "input"}
    \/ emu = "sync" /\ main_queue = "side_view"

(* stop never finds the emulation thread waiting for debugger input that   *)
(* will not come: it disables the debugger before it looks whether it is   *)
(* stopped, and the core stops before it looks whether it is disabled.     *)
InputNeverStarves == main = "stop_spin" /\ WaitsForInput => input # << >>

(* Every call of stop returns in a game that is not debugged (StopFlag     *)
(* before StopRunning, EndRun).                                            *)
GameStops == main \in StopStates ~> debugging \/ main \notin StopStates

(* Every call of performAtomicBlock returns in such a game.                *)
GameBlocksReturn == main = "pending" ~> debugging \/ main = "idle"

(* GB_ASSERT_NOT_RUNNING: when the main thread runs the block of           *)
(* performAtomicBlock itself, the core is not in a running context.        *)
BlocksOutsideRunningContext ==
    [][main' = "block" /\ main # "block" => ~running_thread]_vars
=============================================================================
