\* The debugger: two entries of backtrace for three levels of calls, so that it is
\* full, and breakpoints that overlap.  Expressions of four numbers, of four levels
\* of priority.  Three cheats in two buckets; two pokes between two filters; four
\* symbols.  A window of the console that is narrower than its line.
CONSTANTS
    MaxFrames = 2
    MaxTime = 5
    MaxCommands = 3
    Spots = {2, 4}
    Trivial = {0, 1, 3, 5}
    Vector = 5
    Code <- NestedCalls
    Word = 16
    Numbers = {"3"}
    Operators = {"-", "*", "==", ":"}
    MaxOperands = 4
    Ids = {1, 2, 3}
    Records <- SomeRecords
    WorkRam = 2
    CartridgeRam = 1
    HighRam = 2
    ByteValues = 2
    Buckets = 2
    AnyBank = 2
    MaxPokes = 2
    MaxFilters = 2
    Addresses = {1, 2, 4}
    MaxSymbols = 4
    Windows = {1, 2}
    MaxLength = 3
    MaxEntry = 1
    MaxHistory = 2
\* Two games with RAM of different sizes, and a model of each kind; a clock multiplier other than the default.
    SomeModels = {"DMG_B", "SGB_PAL", "SGB2", "SGB_NTSC_NO_SFC", "CGB_0", "AGB_A"}
    Multipliers = {2}
    Roms <- LoadedRoms
    Games <- MadeGames
\* Two linked machines in frames of three units, one or two in each call of GB_run.
    ModelOptions = {"Auto (SGB)"}
    Contents = {"SGB", "INVALID"}
    RetroFrame = 3
    RetroMaxRun = 2
    MaxDevices = 2
\* Two events in one handling of events.
    MaxEvents = 2
\* A frame of six units: eight is the first whole number beyond 1.2 frames.
    Frame = 6
    Forgiven = 8
    MaxRun = 3
    MaxCycles = 14
    Stalls = {0, 1, 9}
    Oversleep = 1
\* A disk that is full during a recording, or already before its header.
    Formats = {"RAW", "WAV", "other"}
    MaxRoom = 5
    Buffer = 2
SPECIFICATION MCSpec
INVARIANTS
    MachineFits StopsAsAsked LineHolds LinkedMachines FilesAndStops KeepsPace RecordingIsWhole
PROPERTIES UndoReverts FindsTheListed
\* Bounded behaviours end.
CHECK_DEADLOCK FALSE
