------------------------------ MODULE SdlMain ------------------------------
(***************************************************************************)
(* The SDL application's loop (SDL/main.c).  Events are handled inside     *)
(* GB_run, at the vertical blank, or while the loop waits; what they ask   *)
(* for is put in one slot, pending_command, and done by the loop between   *)
(* two calls of GB_run.  Meanwhile a dropped or opened file has already    *)
(* become `filename`, from which the names of save states are made, while  *)
(* the battery's file is still that of the running game.  A dropped save   *)
(* state, of any game, is loaded into the running one.                     *)
(*                                                                         *)
(* Contents of RAM and of files are the name of the game that wrote them,  *)
(* "blank", or "none" for a file that does not exist.  All the games'      *)
(* RAM has a battery.  The debugger's console is module LineEditor's.      *)
(***************************************************************************)
EXTENDS Naturals

CONSTANTS
    Games,           \* the ROM files, each with a RAM size in 8 KiB
    MaxEvents        \* bound on the events of one handle_events

RamSize(g) == g.ram

VARIABLES
    filename,              \* the file chosen last
    running,               \* the game whose ROM is loaded
    battery_path,          \* whose .sav battery_save_path_ptr names
    ram, sdl_ram_size,         \* the cartridge RAM's contents and size
    sav, states,           \* files: contents of each game's .sav and of its save state
    pending_command,
    dropped_state_file,    \* whose save state was dropped last, or NoStateFile
    rewind_down, do_rewind, rewind_paused, paused,
    sdl_phase,                 \* "loop", "events" (inside GB_run), "waiting", "command" or "gone"
    events,                \* events handled since the last command
    given,                 \* history: games with others' RAM that the user dropped on them
    strayed,               \* history: files and game came apart in a way listed below
    late                   \* history: the rewind key was released after do_rewind was read

disk == <<sav, states>>
sdlCart == <<filename, running, battery_path, ram, sdl_ram_size, strayed, given>>
keys == <<rewind_down, do_rewind, rewind_paused, paused, late>>
sdlSlot == <<pending_command, dropped_state_file>>
sdlVars == <<disk, sdlCart, sdlSlot, keys, sdl_phase, events>>

NoCommand == "none"
NoStateFile == "none"
-----------------------------------------------------------------------------
(* The loop *)

Waiting == paused \/ rewind_paused

\* Nothing runs: wait for an event.
WaitEvent ==
    /\ sdl_phase = "loop" /\ Waiting
    /\ sdl_phase' = "waiting"
    /\ UNCHANGED <<disk, sdlCart, sdlSlot, keys, events>>

(***************************************************************************)
(* Rewind, and when the buffer is exhausted stand still after one more     *)
(* GB_run.  GB_run may end at a vertical blank, whose callback reads the   *)
(* key before it handles the events, or call handle_events alone, when the *)
(* game reads the buttons.                                                 *)
(***************************************************************************)
RunFrame ==
    /\ sdl_phase = "loop" /\ ~Waiting
    /\ sdl_phase' \in {"events", "command"}
    /\ \E exhausted \in BOOLEAN, vblank \in BOOLEAN :
          /\ vblank => sdl_phase' = "events"
          /\ rewind_paused' = (do_rewind /\ exhausted)
          /\ do_rewind' = (vblank /\ rewind_down)
          /\ late' = (late /\ rewind_paused')
    /\ ram' \in {ram} \union (IF sdl_ram_size = 0 THEN {} ELSE {running.name})
    /\ UNCHANGED <<disk, filename, running, battery_path, sdl_ram_size, strayed, given,
                   sdlSlot, rewind_down, paused, events>>

EventsEnd ==
    /\ sdl_phase \in {"events", "waiting"}
    /\ sdl_phase' = "command"
    /\ UNCHANGED <<disk, sdlCart, sdlSlot, keys, events>>
-----------------------------------------------------------------------------
(* handle_events, one event at a time *)

Event ==
    /\ sdl_phase \in {"events", "waiting"} /\ events < MaxEvents
    /\ events' = events + 1
    /\ UNCHANGED <<sdl_phase, disk>>

\* A command that takes the place of a file's leaves the file's name behind;
\* the next restart opens that file.
Ask(what) ==
    /\ Event
    /\ pending_command' = what
    /\ strayed' = (strayed \/ (filename # running /\ what \in {"save_state", "load_state"}))
    /\ UNCHANGED <<dropped_state_file, filename, running, battery_path, ram, sdl_ram_size, given,
                   keys>>

AskCommand == \E what \in {"save_state", "load_state", "reset", "quit"} : Ask(what)

\* SDL_DROPFILE of a save state, here or in the menu.
DropState ==
    /\ Event
    /\ dropped_state_file' \in {g \in Games : states[g].game # "none"}
    /\ pending_command' = "load_state_from_file"
    /\ UNCHANGED <<sdlCart, keys>>

\* SDL_DROPFILE of a game, the open dialogue and the menu; "cart_swap" from the menu only.
ChooseFile ==
    /\ Event
    /\ filename' \in Games
    /\ pending_command' \in {"new_file", "cart_swap"}
    /\ UNCHANGED <<dropped_state_file, running, battery_path, ram, sdl_ram_size, strayed, given,
                   keys>>

RewindKeyStuck ==    \* mutant: letting the key go leaves the game standing
    /\ Event
    /\ rewind_down' = ~rewind_down
    /\ late' = IF rewind_down THEN do_rewind ELSE late
    /\ UNCHANGED <<sdlCart, sdlSlot, do_rewind, rewind_paused, paused>>

RewindKey ==
    /\ Event
    /\ rewind_down' = ~rewind_down
    /\ rewind_paused' = (rewind_paused /\ ~rewind_down)
    /\ late' = IF rewind_down THEN do_rewind ELSE late
    /\ UNCHANGED <<sdlCart, sdlSlot, do_rewind, paused>>

PauseKey ==
    /\ Event
    /\ paused' = ~paused
    /\ UNCHANGED <<sdlCart, sdlSlot, rewind_down, do_rewind, rewind_paused, late>>
-----------------------------------------------------------------------------
(* handle_pending_command *)

Handled == sdl_phase = "command" /\ pending_command' = NoCommand /\ sdl_phase' = "loop" /\ events' = 0

NothingPending ==
    /\ sdl_phase = "command" /\ pending_command = NoCommand
    /\ Handled
    /\ UNCHANGED <<disk, sdlCart, dropped_state_file, keys>>

\* Save states are named after `filename`; they hold the cartridge's RAM.
SaveState ==
    /\ sdl_phase = "command" /\ pending_command = "save_state"
    /\ Handled
    /\ states' = [states EXCEPT ![filename] =
                      [game |-> running.name, ram |-> ram, size |-> sdl_ram_size]]
    /\ UNCHANGED <<sav, sdlCart, dropped_state_file, keys>>

(* GB_load_state asks for no more than enough RAM (module SaveState), and  *)
(* not whether the state is the running game's.                            *)
Loadable(g) == states[g].game # "none" /\ states[g].size <= sdl_ram_size

RamOf(g) == IF Loadable(g) THEN states[g].ram ELSE ram

LoadState ==
    /\ sdl_phase = "command" /\ pending_command = "load_state"
    /\ Handled
    /\ ram' = RamOf(filename)
    /\ UNCHANGED <<disk, dropped_state_file, filename, running, battery_path, sdl_ram_size, strayed,
                   given, keys>>

LoadDropped ==
    /\ sdl_phase = "command" /\ pending_command = "load_state_from_file"
    /\ Handled
    /\ ram' = RamOf(dropped_state_file) /\ dropped_state_file' = NoStateFile
    /\ given' = given \union ({running} \X ({ram'} \ ({ram} \union {"blank", running.name})))
    /\ UNCHANGED <<disk, filename, running, battery_path, sdl_ram_size, strayed, keys>>

(***************************************************************************)
(* GB_save_battery writes the RAM to the file of the battery's path.       *)
(***************************************************************************)
SavedByName ==    \* mutant: the battery is saved under the name chosen last
    IF sdl_ram_size = 0 THEN sav ELSE [sav EXCEPT ![filename] = ram]

SavedBattery == IF sdl_ram_size = 0 THEN sav ELSE [sav EXCEPT ![battery_path] = ram]

(***************************************************************************)
(* The restart: GB_load_rom keeps a RAM of the same size (module           *)
(* LifeCycle) and GB_load_battery leaves it when there is no file, so that *)
(* it is inherited.  A file that cannot be opened leaves the old ROM, now  *)
(* under the new file's name.                                              *)
(***************************************************************************)
KeptRam(opened) == ~opened \/ (RamSize(filename) = sdl_ram_size /\ sdl_ram_size > 0)

LoadedRam(files, opened) ==
    CASE files[filename] # "none" -> files[filename]
      [] files[filename] = "none" /\ KeptRam(opened) -> ram
      [] OTHER -> "blank"

Inherits(files, opened) ==
    /\ files[filename] = "none" /\ KeptRam(opened)
    /\ ram \notin {"blank", filename.name}

Restart ==
    /\ sdl_phase = "command" /\ pending_command \in {"new_file", "cart_swap", "reset"}
    /\ Handled
    /\ sav' = SavedBattery
    /\ \E opened \in BOOLEAN :
          /\ running' = IF opened THEN filename ELSE running
          /\ sdl_ram_size' = IF opened THEN RamSize(filename) ELSE sdl_ram_size
          /\ ram' = IF sdl_ram_size' = 0 THEN "blank" ELSE LoadedRam(SavedBattery, opened)
          /\ strayed' = (strayed \/ ~opened \/ Inherits(SavedBattery, opened))
    /\ battery_path' = filename
    /\ UNCHANGED <<states, filename, dropped_state_file, given, keys>>

\* exit(0), after the battery is saved.
Quit ==
    /\ sdl_phase = "command" /\ pending_command = "quit"
    /\ sdl_phase' = "gone" /\ sav' = SavedBattery
    /\ UNCHANGED <<states, sdlCart, sdlSlot, keys, events>>
-----------------------------------------------------------------------------

SdlInit ==
    /\ filename \in Games /\ running = filename /\ battery_path = filename
    /\ ram = "blank" /\ sdl_ram_size = RamSize(filename)
    /\ sav = [g \in Games |-> "none"]
    /\ states = [g \in Games |-> [game |-> "none", ram |-> "none", size |-> 0]]
    /\ pending_command = NoCommand /\ dropped_state_file = NoStateFile /\ given = {}
    /\ rewind_down = FALSE /\ do_rewind = FALSE
    /\ rewind_paused = FALSE /\ paused = FALSE
    /\ sdl_phase = "loop" /\ events = 0 /\ strayed = FALSE /\ late = FALSE

SdlNext ==
    \/ WaitEvent \/ RunFrame \/ EventsEnd
    \/ AskCommand \/ ChooseFile \/ DropState \/ RewindKey \/ PauseKey
    \/ NothingPending \/ SaveState \/ LoadState \/ LoadDropped \/ Restart \/ Quit

SdlSpec == SdlInit /\ [][SdlNext]_sdlVars
-----------------------------------------------------------------------------
(***************************************************************************)
(* A game's files hold that game's data, although the name of the next one *)
(* is set before the running one is saved; or another's only if the user   *)
(* has dropped a save state with it on that very game.  Left out is what   *)
(* follows a command that overtook a file, a file that could not be        *)
(* opened, and a RAM inherited by a game without a file, which do mix      *)
(* them.                                                                   *)
(***************************************************************************)
Own(g) == {"blank", g.name} \union {owner \in {h.name : h \in Games} : <<g, owner>> \in given}

FilesHoldTheirGame ==
    ~strayed => \A g \in Games : /\ sav[g] \in {"none"} \union Own(g)
                                 /\ states[g].game \in {"none", g.name}
                                 /\ states[g].ram \in {"none"} \union Own(g)

(***************************************************************************)
(* The game stands still only as long as the user has paused it or holds   *)
(* the rewind key.  Left out is a key released between the vertical blank  *)
(* that read it and the rewind that follows: then it stands still until    *)
(* the key is pressed and released again.  (Menus, in which the release is *)
(* lost, and the fast-forward key are left out.)                           *)
(***************************************************************************)
StandsStillAsAsked == sdl_phase = "loop" /\ Waiting => paused \/ rewind_down \/ late

(* A game's files hold its data, and it stands still only as asked. *)
FilesAndStops == FilesHoldTheirGame /\ StandsStillAsAsked
=============================================================================
