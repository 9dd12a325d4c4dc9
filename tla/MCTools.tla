------------------------------- MODULE MCTools -------------------------------
(***************************************************************************)
(* What surrounds the console: the life of a machine from one ROM, model   *)
(* and reset to the next, the frontends that run it, its pace and its      *)
(* recordings; and the tools of the developer and of the player: the       *)
(* debugger, its expressions, its symbols and its console, cheats and the  *)
(* search for them.  A behaviour is about one of them.                     *)
(***************************************************************************)
EXTENDS LifeCycle, Libretro, SdlMain, Pace, Recording, Debugger, LineEditor, Cheats, TLC

CONSTANTS
    Word, Numbers, Operators, MaxOperands, Addresses, MaxSymbols    \* Expression

VARIABLES
    part,
    tokens, open, operands, symbols, buckets

expressionVars == <<tokens, open, operands>>
symbolVars == <<symbols, buckets>>
evaluatorVars == <<expressionVars, symbolVars>>
toolVars == <<debuggerVars, evaluatorVars, cheatsVars, editorVars>>
frontendVars == <<retroVars, sdlVars, paceVars, recordingVars>>
allVars == <<part, lifeVars, toolVars, frontendVars>>

(* A routine at 0 that calls one at 2, which calls one at 4; a handler at 5. *)
Instruction(op, to) == [op |-> op, to |-> to]
NestedCalls ==
    (0 :> Instruction("call", 2)) @@ (1 :> Instruction("jump", 0))
        @@ (2 :> Instruction("call", 4)) @@ (3 :> Instruction("ret", 0))
        @@ (4 :> Instruction("ret", 0)) @@ (5 :> Instruction("reti", 0))

Cheat(address, where, value, use_old, enabled) ==
    [address |-> address, bank |-> where, value |-> value, use_old |-> use_old, enabled |-> enabled]
SomeRecords == {Cheat(1, AnyBank, 7, FALSE, TRUE), Cheat(3, AnyBank, 8, TRUE, TRUE),
            Cheat(2, 1, 9, FALSE, TRUE), Cheat(1, 0, 6, FALSE, FALSE)}

Name(name, hash, local) == [name |-> name, hash |-> hash, local |-> local]
Names == {Name("a", 0, FALSE), Name("b", 1, FALSE), Name("b.x", 0, TRUE)}

(* Games with and without cartridge RAM, a battery and a border. *)
Rom(name, banks, sfc, size, keeps, bordered) ==
    [name |-> name, banks |-> banks, sgb |-> sfc, ram |-> size, battery |-> keeps,
     border |-> bordered]
LoadedRoms == {Rom("saved", 4, TRUE, 1, TRUE, TRUE), Rom("larger", 4, FALSE, 2, FALSE, FALSE),
               Rom("tune", 3, FALSE, 0, FALSE, FALSE)}
MadeGames == {[name |-> "a", ram |-> 1], [name |-> "b", ram |-> 2]}

Evaluator == INSTANCE Expression

(* The parts a behaviour is not about stay in one initial state. *)
SomeMachine == model = "DMG_B"
Blank == type = "byte" /\ \A i \in DOMAIN searched : searched[i] = 0
Narrow == \A w \in Windows : max <= w
SomeRun == \A d \in Devices : until[d] = RetroFrame
SomeGame == filename.name = "a"
NoRoom == room = 0

MCInit ==
    /\ part \in {"machine", "debugger", "expression", "symbols", "cheats", "search", "editor",
                 "libretro", "sdl", "pace", "recording"}
    /\ LifeInit /\ (part = "machine" \/ SomeMachine)
    /\ DebuggerInit /\ Evaluator!ExpressionInit /\ Evaluator!SymbolInit /\ ListInit
    /\ SearchInit /\ (part = "search" \/ Blank)
    /\ EditorInit /\ (part = "editor" \/ Narrow)
    /\ RetroInit /\ (part = "libretro" \/ SomeRun)
    /\ SdlInit /\ (part = "sdl" \/ SomeGame)
    /\ PaceInit
    /\ RecordingInit /\ (part = "recording" \/ NoRoom)

MachineStep == part = "machine" /\ LifeNext /\ UNCHANGED <<part, toolVars, frontendVars>>

ToolStep ==
    /\ \/ /\ part = "debugger" /\ DebuggerNext
          /\ UNCHANGED <<evaluatorVars, cheatsVars, editorVars>>
       \/ /\ part = "expression" /\ Evaluator!ExpressionNext
          /\ UNCHANGED <<debuggerVars, symbolVars, cheatsVars, editorVars>>
       \/ /\ part = "symbols" /\ Evaluator!SymbolNext
          /\ UNCHANGED <<debuggerVars, expressionVars, cheatsVars, editorVars>>
       \/ /\ part = "cheats" /\ ListNext
          /\ UNCHANGED <<debuggerVars, evaluatorVars, searchVars, editorVars>>
       \/ /\ part = "search" /\ SearchNext
          /\ UNCHANGED <<debuggerVars, evaluatorVars, listVars, editorVars>>
       \/ /\ part = "editor" /\ EditorNext
          /\ UNCHANGED <<debuggerVars, evaluatorVars, cheatsVars>>
    /\ UNCHANGED <<part, lifeVars, frontendVars>>

(* A behaviour of the SDL application ends where its files came apart from *)
(* the game in one of the ways that module SdlMain lists.                  *)
FrontendStep ==
    /\ \/ /\ part = "libretro" /\ RetroNext
          /\ UNCHANGED <<sdlVars, paceVars, recordingVars>>
       \/ /\ part = "sdl" /\ ~strayed /\ SdlNext
          /\ UNCHANGED <<retroVars, paceVars, recordingVars>>
       \/ /\ part = "pace" /\ PaceNext
          /\ UNCHANGED <<retroVars, sdlVars, recordingVars>>
       \/ /\ part = "recording" /\ RecordingNext
          /\ UNCHANGED <<retroVars, sdlVars, paceVars>>
    /\ UNCHANGED <<part, lifeVars, toolVars>>

MCNext == MachineStep \/ ToolStep \/ FrontendStep

MCSpec == MCInit /\ [][MCNext]_allVars
-----------------------------------------------------------------------------
(* An expression means what its priorities say; what is looked up is what  *)
(* has been listed, cheats in their buckets, and symbols by address and by *)
(* name; and a filter of the search relates values to those of the filter  *)
(* before it (modules Expression and Cheats).                              *)
FindsTheListed ==
    /\ [](part = "expression" => Evaluator!EvaluatesByPriority)
    /\ [](part = "symbols" => Evaluator!NearestSymbol)
    /\ [](part = "cheats" => ReadsAreListed)
    /\ FiltersSinceTheLast
=============================================================================
