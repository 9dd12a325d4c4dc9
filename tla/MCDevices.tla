----------------------------- MODULE MCDevices -----------------------------
(***************************************************************************)
(* What the console exchanges with the world: the bytes at its serial      *)
(* port, for the printer and the WorkBoy; the four sound channels; and the *)
(* sound buffer of the Cocoa document.  A behaviour is about one part, and *)
(* of a sound channel about its length and envelope, its sweep, or its     *)
(* generator.                                                              *)
(***************************************************************************)
EXTENDS Printer, AudioBuffer, WorkBoy, Apu, ApuRun

VARIABLE part

soundVars == <<channelVars, sweepVars, runVars>>
allVars == <<part, printerVars, audioVars, soundVars, workboyVars>>

Up(volume, pace) == [volume |-> volume, up |-> TRUE, pace |-> pace]
Down(volume, pace) == [volume |-> volume, up |-> FALSE, pace |-> pace]
ChannelMachines == {<<"square", "CGB_E">>, <<"wave", "CGB_B">>, <<"noise", "DMG">>,
                    <<"noise", "CGB_C">>}
ChannelLengths == [square |-> {}, wave |-> 0 .. LengthMax - 1, noise |-> {LengthMax - 1}]
ChannelEnvelopes == [square |-> {Up(14, 1), Up(0, 0), Down(1, 1)}, wave |-> {},
                     noise |-> {Up(0, 0), Down(0, 0)}]
SweptMachines == {<<"DMG", FALSE>>, <<"CGB_C", TRUE>>, <<"CGB_D", FALSE>>, <<"CGB_E", TRUE>>}
GeneratorKinds == {<<"square", "DMG">>, <<"square", "CGB_E">>, <<"wave", "DMG">>, <<"wave", "CGB_E">>,
                   <<"noise", "DMG">>, <<"noise", "CGB_C">>, <<"noise", "CGB_E">>}
GeneratorPolynomials ==
    {[shift |-> s, narrow |-> n, divisor |-> d] : s \in {0, 3}, n \in BOOLEAN, d \in {0, 1}}

(* The parts a behaviour is not about stay in one initial state. *)
SomeChannel == kind = "wave" /\ model = "CGB_B" /\ ~div_high
SomeSweep == sweep_model = "DMG"
SomeGenerator == run_kind = "wave" /\ run_model = "DMG"
SomeDate == \A date \in Dates : clock.day <= date.day /\ clock.year <= date.year

MCInit ==
    /\ part \in {"printer", "audio", "channel", "sweep", "generator", "workboy"}
    /\ PrinterInit /\ AudioInit
    /\ WorkBoyInit /\ (part = "workboy" \/ SomeDate)
    /\ ChannelInit /\ (part = "channel" \/ SomeChannel)
    /\ SweepInit /\ (part = "sweep" \/ SomeSweep)
    /\ RunInit /\ (part = "generator" \/ SomeGenerator)

PrinterStep ==
    /\ part = "printer" /\ PrinterNext
    /\ UNCHANGED <<part, audioVars, soundVars, workboyVars>>
AudioStep ==
    /\ part = "audio" /\ AudioNext
    /\ UNCHANGED <<part, printerVars, soundVars, workboyVars>>
ChannelStep ==
    /\ part = "channel" /\ ChannelNext
    /\ UNCHANGED <<part, printerVars, audioVars, sweepVars, runVars, workboyVars>>
SweepStep ==
    /\ part = "sweep" /\ SweepNext
    /\ UNCHANGED <<part, printerVars, audioVars, channelVars, runVars, workboyVars>>
GeneratorStep ==
    /\ part = "generator" /\ RunNext
    /\ UNCHANGED <<part, printerVars, audioVars, channelVars, sweepVars, workboyVars>>

(* A program reads or sets the clock while nobody types, and a transfer is *)
(* cut while it asks for keys; a behaviour ends where a change of Shift    *)
(* has been lost.                                                          *)
WorkBoyStep ==
    /\ part = "workboy" /\ WorkBoyNext
    /\ ~lost
    /\ mode' \in {R, W} /\ mode' # mode =>
           typing = EmptySlot /\ ~held /\ delivered = NoKey
    /\ mode \in {R, W} => keyboard' = keyboard \/ mode' # mode
    /\ bits_received = 1 => mode = O
    /\ UNCHANGED <<part, printerVars, audioVars, soundVars>>

MCNext ==
    PrinterStep \/ AudioStep \/ ChannelStep \/ SweepStep \/ GeneratorStep \/ WorkBoyStep

MCSpec == MCInit /\ [][MCNext]_allVars
=============================================================================
