------------------------------ MODULE MCRewind ------------------------------
(***************************************************************************)
(* What SameBoy keeps of a machine: the ring of the rewind buffer, with    *)
(* frames of any content (module Rewind); the debugger's backstep, which   *)
(* counts the instructions of each frame in it (module Backstep); the      *)
(* encoding of the states it stores (module RewindCodec); the save states  *)
(* themselves (module SaveState); and the parts of a cartridge that they   *)
(* and the battery carry (modules Mbc and Battery).  They share nothing    *)
(* that their models name, so that one behaviour is about one.             *)
(***************************************************************************)
EXTENDS Rewind, Backstep, RewindCodec, Battery

CONSTANTS
    Types, Rumble, Values,                                              \* Mbc
    Models, Carts, LastAge                                              \* SaveState

VARIABLES
    part,
    type, cart, written,
    machine, content, file, outcome, before

mbcVars == <<type, cart, written>>
stateVars == <<machine, content, file, outcome, before>>
cartridgeVars == <<mbcVars, batteryVars, stateVars>>
allVars == <<part, vars, backstepVars, codecVars, cartridgeVars>>

M == INSTANCE Mbc
S == INSTANCE SaveState WITH gb <- machine

-----------------------------------------------------------------------------
(* The state of a part that a behaviour is not about. *)
SomeRing == gb = (CHOOSE s \in States : TRUE) /\ save_size = 1
SomeStates == prev = [i \in 0 .. StateSize - 1 |-> 0] /\ data = prev
SomeMbc == type = "MBC5"
SomeRtc == kind = "MBC3" /\ mode = "ACCURATE"
SomeMachine ==
    machine =
        [model |-> "G", cart |-> "NO_MBC", boot_rom_finished |-> TRUE,
         disable_commands |-> FALSE, accessory |-> FALSE]

MCInit ==
    /\ part \in {"rewind", "backstep", "codec", "mbc", "eeprom", "rtc", "save_state"}
    /\ (part = "rewind" \/ SomeRing) /\ Init
    /\ BackstepInit /\ EepromInit
    /\ (part = "codec" \/ SomeStates) /\ CodecInit
    /\ (part = "mbc" \/ SomeMbc) /\ M!Init
    /\ (part = "rtc" \/ SomeRtc) /\ RtcInit
    /\ (part = "save_state" \/ SomeMachine) /\ S!Init

RewindStep == part = "rewind" /\ Next /\ UNCHANGED <<part, backstepVars, codecVars, cartridgeVars>>
BackstepStep == part = "backstep" /\ BackstepNext /\ UNCHANGED <<part, vars, codecVars, cartridgeVars>>
CodecStep == part = "codec" /\ CodecNext /\ UNCHANGED <<part, vars, backstepVars, cartridgeVars>>
MbcStep ==
    /\ part = "mbc" /\ M!Next
    /\ UNCHANGED <<part, vars, backstepVars, codecVars, eepromVars, rtcVars, stateVars>>
EepromStep ==
    /\ part = "eeprom" /\ EepromNext
    /\ UNCHANGED <<part, vars, backstepVars, codecVars, mbcVars, rtcVars, stateVars>>
RtcStep ==
    /\ part = "rtc" /\ RtcNext
    /\ UNCHANGED <<part, vars, backstepVars, codecVars, mbcVars, eepromVars, stateVars>>
SaveStateStep ==
    /\ part = "save_state" /\ S!Next
    /\ UNCHANGED <<part, vars, backstepVars, codecVars, mbcVars, eepromVars, rtcVars>>

MCNext ==
    \/ RewindStep \/ BackstepStep \/ CodecStep
    \/ MbcStep \/ EepromStep \/ RtcStep \/ SaveStateStep

MCSpec == MCInit /\ [][MCNext]_allVars
-----------------------------------------------------------------------------
(* A save state has the size that was predicted, a load that is refused    *)
(* keeps the machine, one that finds the file too short has changed no     *)
(* more than the memories before the file's end, and one that succeeds     *)
(* restores the machine; a mapper has its registers again even through     *)
(* BESS (modules SaveState and Mbc).                                       *)
SavesAndLoads ==
    /\ part = "save_state" => S!SizeIsPredicted /\ S!FailureKeepsTheMachine /\ S!LoadedIsSaved
    /\ part = "mbc" => M!BessRestoresTheRest
=============================================================================
