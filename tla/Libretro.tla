------------------------------ MODULE Libretro ------------------------------
(***************************************************************************)
(* The libretro core (libretro/libretro.c): one Game Boy, or two that are  *)
(* linked and share a picture, driven by a frontend that loads games,      *)
(* changes options, resets and runs frames.                                *)
(*                                                                         *)
(* A screen is "small" (160 by 144) or "large" (256 by 224).  Time is in   *)
(* units in which a frame lasts RetroFrame and a call of GB_run at most    *)
(* RetroMaxRun.                                                            *)
(* The options kept are those that other state depends on: the models, the *)
(* border, the link cable and the sound's source; the others are passed on *)
(* to the emulator as they are.  What is told to the frontend (geometry,   *)
(* controllers, memory maps) and save states are left out.                 *)
(***************************************************************************)
EXTENDS Integers

CONSTANTS
    ModelOptions,    \* values of the model options the frontend picks
    Contents,        \* kinds of ROM: "DMG", "SGB", "CGB", "INVALID"
    RetroFrame, RetroMaxRun,
    MaxDevices       \* 2, or 1 for a frontend without subsystems

Devices == {1, 2}

\* An instruction is shorter than a frame.
ASSUME RetroAssumption ==
    /\ "none" \notin ModelOptions
    /\ Contents \subseteq {"DMG", "SGB", "CGB", "INVALID"}
    /\ RetroFrame \in Nat /\ RetroFrame >= 2
    /\ RetroMaxRun \in Nat /\ RetroMaxRun <= RetroFrame
    /\ MaxDevices \in Devices

NoModel == "GB_MODEL_AUTO"
HleSgb == {"SGB_NTSC", "SGB2"}

VARIABLES
    options,                  \* the user's: [model: a value for each device, border, link, audio]
    emulated_devices, loaded,
    models, auto_model, auto_sgb_enabled,
    link_cable_emulation, audio_out,
    frame_buf,                \* pictures of MAX_VIDEO_PIXELS there is room for, 0: NULL
    gameboy,                  \* the machines: see Uninitialised
    retro_phase,                    \* "idle", or "run" inside retro_run
    vblank_occurred, delta, ran, until,
    samples,                  \* whose sound is in output_audio_buffer
    fresh                     \* history: no reset since a linked game was loaded

setup == <<options, emulated_devices, loaded, models, auto_model, auto_sgb_enabled,
           link_cable_emulation, audio_out>>
loop == <<retro_phase, vblank_occurred, delta, ran, until, samples>>
retroVars == <<setup, frame_buf, gameboy, loop, fresh>>

(***************************************************************************)
(* A machine: its model, border mode, which screen's size its output is    *)
(* offset by (none for the first), whether its serial port's callbacks     *)
(* lead to the other machine, and which machine its light reaches (0: no   *)
(* callback).                                                              *)
(***************************************************************************)
Uninitialised == [model |-> "none", border_mode |-> "SGB", offset |-> "none",
                  linked |-> FALSE, light |-> 0]

Inited(g) == g.model # "none"
IsHleSgb(g) == g.model \in HleSgb

Screen(g) ==
    CASE g.border_mode = "SGB" -> IF IsHleSgb(g) THEN "large" ELSE "small"
      [] g.border_mode = "NEVER" -> "small"
      [] g.border_mode = "ALWAYS" -> "large"
-----------------------------------------------------------------------------
(* Options *)

string_to_model(value) == IF value \in {"Auto", "Auto (SGB)"} THEN NoModel ELSE value

(***************************************************************************)
(* check_variables with `devices` machines.  "Auto (SGB)" as the second    *)
(* machine's model enables the Super Game Boy for the first one.  The      *)
(* link's callbacks change only when the option does.                      *)
(***************************************************************************)
set_link_cable_state(g, state) ==
    [d \in Devices |-> [g[d] EXCEPT !.linked = state, !.light = IF state THEN 3 - d ELSE 0]]

AutoSgb(devices) ==
    IF devices = 1
    THEN [auto_sgb_enabled EXCEPT ![1] = options.model[1] = "Auto (SGB)"]
    ELSE <<"Auto (SGB)" \in {options.model[1], options.model[2]}, FALSE>>

WithBorder(g, devices) ==
    [d \in Devices |->
        CASE devices = 2 -> [g[d] EXCEPT !.border_mode = "NEVER"]
          [] devices = 1 /\ d = 1 -> [g[d] EXCEPT !.border_mode = options.border]
          [] OTHER -> g[d]]

Relinked(g, devices) ==
    IF devices = 1 \/ options.link = link_cable_emulation THEN g
    ELSE set_link_cable_state(g, options.link)

Checked(g, devices) == Relinked(WithBorder(g, devices), devices)

CheckVariables(devices) ==
    /\ models' = IF devices = 1 THEN [models EXCEPT ![1] = string_to_model(options.model[1])]
                ELSE [d \in Devices |-> string_to_model(options.model[d])]
    /\ auto_sgb_enabled' = AutoSgb(devices)
    /\ link_cable_emulation' = IF devices = 1 THEN link_cable_emulation ELSE options.link
    /\ audio_out' = IF devices = 1 THEN audio_out ELSE options.audio
    /\ UNCHANGED options

SetOption ==
    /\ retro_phase = "idle"
    /\ \/ \E d \in Devices, value \in ModelOptions :
              /\ d <= emulated_devices
              /\ options' = [options EXCEPT !.model[d] = value]
       \/ emulated_devices = 1 /\ \E b \in {"SGB", "ALWAYS"} : options' = [options EXCEPT !.border = b]
       \/ emulated_devices = 2 /\ \E l \in BOOLEAN : options' = [options EXCEPT !.link = l]
       \/ emulated_devices = 2 /\ \E a \in Devices : options' = [options EXCEPT !.audio = a]
    /\ UNCHANGED <<emulated_devices, loaded, models, auto_model, auto_sgb_enabled,
                   link_cable_emulation, audio_out, frame_buf,
                   gameboy, loop, fresh>>
-----------------------------------------------------------------------------
(* Loading *)

Effective(d) == IF models'[d] = NoModel THEN auto_model'[d] ELSE models'[d]

AutoModel(content, d) ==
    CASE content = "DMG" -> "DMG_B"
      [] content = "SGB" -> IF auto_sgb_enabled'[d] THEN "SGB_NTSC" ELSE "DMG_B"
      [] content = "CGB" -> "CGB_E"

(***************************************************************************)
(* init_for_current_model(d) makes the machine or switches its model,      *)
(* which keeps its settings; the output is offset by the present size of   *)
(* the first machine's screen; the callbacks are set on both machines.     *)
(***************************************************************************)
InitUnlinked(g, d) ==    \* mutant: a machine made anew is not linked
    LET made == IF Inited(g[d])
                THEN [g EXCEPT ![d].model = Effective(d)]
                ELSE [g EXCEPT ![d] = [Uninitialised EXCEPT !.model = Effective(d)]]
    IN [made EXCEPT ![d].offset = IF d = 1 THEN "none" ELSE Screen(made[1])]

InitModel(g, d) ==
    LET made == IF Inited(g[d])
                THEN [g EXCEPT ![d].model = Effective(d)]
                ELSE [g EXCEPT ![d] = [Uninitialised EXCEPT !.model = Effective(d)]]
        placed == [made EXCEPT ![d].offset = IF d = 1 THEN "none" ELSE Screen(made[1])]
    IN IF emulated_devices' = 2 /\ link_cable_emulation'
       THEN set_link_cable_state(placed, TRUE)
       ELSE placed

\* The machines in turn, the first `devices` of them.
InitAll(g, devices) ==
    IF devices = 1 THEN InitModel(g, 1) ELSE InitModel(InitModel(g, 1), 2)

\* check_variables after the machines exist changes nothing else again.
LoadGame(content) ==
    /\ retro_phase = "idle" /\ ~loaded
    /\ UNCHANGED emulated_devices
    /\ CheckVariables(emulated_devices)
    /\ IF content = "INVALID"
          THEN /\ gameboy' = Checked(gameboy, emulated_devices)
               /\ UNCHANGED <<auto_model, frame_buf, loaded, fresh>>
          ELSE /\ auto_model' = [d \in Devices |-> AutoModel(content, d)]
               /\ frame_buf' = emulated_devices
               /\ gameboy' = WithBorder(InitAll(Checked(gameboy, emulated_devices),
                                                emulated_devices), emulated_devices)
               /\ loaded' = TRUE
               /\ fresh' = (emulated_devices = 2)
    /\ UNCHANGED loop

(***************************************************************************)
(* Two games with a link cable.  When the second is refused the first      *)
(* machine has been made.                                                  *)
(***************************************************************************)
LoadGameSpecial(first, second) ==
    /\ retro_phase = "idle" /\ ~loaded /\ MaxDevices = 2
    /\ emulated_devices' = 2
    /\ CheckVariables(2)
    /\ frame_buf' = 2
    /\ LET g == Checked(gameboy, 2) IN
       CASE first = "INVALID" ->
                /\ gameboy' = g
                /\ UNCHANGED <<auto_model, loaded, fresh>>
         [] first # "INVALID" /\ second = "INVALID" ->
                /\ auto_model' = [auto_model EXCEPT ![1] = AutoModel(first, 1)]
                /\ gameboy' = InitModel(g, 1)
                /\ UNCHANGED <<loaded, fresh>>
         [] OTHER ->
                /\ auto_model' = <<AutoModel(first, 1), AutoModel(second, 2)>>
                /\ gameboy' = WithBorder(InitAll(g, 2), 2)
                /\ loaded' = TRUE
                /\ fresh' = TRUE
    /\ UNCHANGED loop

UnloadGame ==
    /\ retro_phase = "idle" /\ loaded
    /\ loaded' = FALSE
    /\ gameboy' = [d \in Devices |-> IF d <= emulated_devices THEN Uninitialised ELSE gameboy[d]]
    /\ fresh' = FALSE
    /\ UNCHANGED <<options, emulated_devices, models, auto_model, auto_sgb_enabled,
                   link_cable_emulation, audio_out, frame_buf, loop>>

RetroReset ==
    /\ retro_phase = "idle" /\ loaded
    /\ UNCHANGED <<emulated_devices, auto_model>>
    /\ CheckVariables(emulated_devices)
    /\ gameboy' = InitAll(Checked(gameboy, emulated_devices), emulated_devices)
    /\ fresh' = FALSE
    /\ UNCHANGED <<loaded, frame_buf, loop>>
-----------------------------------------------------------------------------
(* Running: one frame of each machine *)

RetroRun ==
    /\ retro_phase = "idle" /\ loaded
    /\ UNCHANGED <<emulated_devices, auto_model, loaded>>
    /\ CheckVariables(emulated_devices)
    /\ gameboy' = Checked(gameboy, emulated_devices)
    /\ retro_phase' = "run"
    /\ vblank_occurred' = [d \in Devices |-> FALSE]
    /\ delta' = 0
    /\ ran' = <<0, 0>>
    /\ UNCHANGED <<frame_buf, until, samples, fresh>>

\* Which machine runs next: the one that is behind, the first when neither is.
Behind == IF emulated_devices = 1 \/ delta >= 0 THEN 1 ELSE 2

FrameDone == \A d \in 1 .. emulated_devices : vblank_occurred[d]

LeadSwapped(d, cycles) ==    \* mutant: the other machine is taken to lead
    IF d = 1 THEN delta + cycles ELSE delta - cycles

Lead(d, cycles) == IF d = 1 THEN delta - cycles ELSE delta + cycles

GbRun(d, cycles) ==
    /\ retro_phase = "run" /\ ~FrameDone
    /\ d = Behind
    /\ delta' = IF emulated_devices = 1 THEN 0 ELSE Lead(d, cycles)
    /\ ran' = [ran EXCEPT ![d] = @ + cycles]
    /\ until' = [until EXCEPT ![d] = IF @ > cycles THEN @ - cycles ELSE @ + RetroFrame - cycles]
    /\ vblank_occurred' = [vblank_occurred EXCEPT ![d] = @ \/ until[d] <= cycles]
    /\ samples' = IF d = audio_out THEN samples \union {d} ELSE samples
    /\ UNCHANGED <<setup, frame_buf, gameboy, retro_phase, fresh>>

(***************************************************************************)
(* The picture is shown and the sound uploaded: ran is forgotten.          *)
(***************************************************************************)
RunEnds ==
    /\ retro_phase = "run" /\ FrameDone
    /\ retro_phase' = "idle"
    /\ samples' = {}
    /\ ran' = <<0, 0>> /\ delta' = 0 /\ vblank_occurred' = [d \in Devices |-> FALSE]
    /\ UNCHANGED <<setup, frame_buf, gameboy, until, fresh>>
-----------------------------------------------------------------------------

RetroInit ==
    /\ options = [model |-> <<"Auto", "Auto">>, border |-> "SGB", link |-> TRUE, audio |-> 1]
    /\ emulated_devices = 1 /\ loaded = FALSE
    /\ models = <<NoModel, NoModel>> /\ auto_model = <<"DMG_B", "DMG_B">>
    /\ auto_sgb_enabled = <<FALSE, FALSE>>
    /\ link_cable_emulation = FALSE /\ audio_out = 1
    /\ frame_buf = 0
    /\ gameboy = <<Uninitialised, Uninitialised>>
    /\ retro_phase = "idle"
    /\ vblank_occurred = <<FALSE, FALSE>> /\ delta = 0 /\ ran = <<0, 0>>
    /\ until \in [Devices -> {RetroFrame, RetroFrame - 2}]
    /\ samples = {} /\ fresh = FALSE

RetroNext ==
    \/ SetOption
    \/ \E c \in Contents : LoadGame(c)
    \/ \E first, second \in Contents : LoadGameSpecial(first, second)
    \/ UnloadGame \/ RetroReset
    \/ RetroRun \/ RunEnds
    \/ \E d \in Devices, cycles \in 1 .. RetroMaxRun : GbRun(d, cycles)

RetroSpec == RetroInit /\ [][RetroNext]_retroVars
-----------------------------------------------------------------------------
(***************************************************************************)
(* Within a call of retro_run neither machine gets further ahead of the    *)
(* other than one call of GB_run, and neither runs for more than a frame   *)
(* and one such call: with a leading or a late vertical blank, the other   *)
(* machine is not left to run on.  Only the chosen machine's sound is      *)
(* uploaded.                                                               *)
(***************************************************************************)
FrameIsShared ==
    retro_phase = "run" =>
        /\ emulated_devices = 2 =>
              /\ ran[1] - ran[2] \in -RetroMaxRun .. RetroMaxRun
              /\ delta = ran[2] - ran[1]
        /\ \A d \in 1 .. emulated_devices : ran[d] <= RetroFrame + RetroMaxRun
        /\ samples \subseteq {audio_out}

(***************************************************************************)
(* The second machine draws where retro_run will read its picture.         *)
(***************************************************************************)
DrawsWhereRead == loaded /\ emulated_devices = 2 => gameboy[2].offset = Screen(gameboy[1])

(***************************************************************************)
(* The machines of a loaded game are wired as the options say once they    *)
(* are in force: there is room for their pictures, the second draws where  *)
(* it is read (except in a linked game that has not been reset and whose   *)
(* first machine is a Super Game Boy), the cable is plugged into both or   *)
(* into neither, and each one's light reaches the other with the cable and *)
(* nobody without it, whatever was loaded before.                          *)
(***************************************************************************)
WiredAsAsked ==
    loaded =>
        /\ \A d \in 1 .. emulated_devices : Inited(gameboy[d])
        /\ frame_buf = emulated_devices
        /\ emulated_devices = 2 =>
              /\ (fresh /\ IsHleSgb(gameboy[1])) \/ DrawsWhereRead
              /\ \A d \in Devices : gameboy[d].linked = link_cable_emulation
              /\ \A d \in Devices : gameboy[d].light = IF link_cable_emulation THEN 3 - d ELSE 0
              /\ \A d \in Devices : gameboy[d].border_mode = "NEVER"

(* Two linked machines share a frame, and are wired as the options say. *)
LinkedMachines == FrameIsShared /\ WiredAsAsked
=============================================================================
