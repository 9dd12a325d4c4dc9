\* boundary values of digits and bytes
CONSTANTS
    Digits = {0, 5, 9}
    Numbers = {0, 127, 128, 255}
    Divisors = {1, 3, 10, 100, 128}
\* frames of two visible lines and five in all, of the source's dots
    LINES = 2
    VIRTUAL_LINES = 5
    LINE_LENGTH = 456
    MODE2_LENGTH = 80
    PixelSteps = 2
    Batches = {167, 180}
    Objects = 1
    LYCs = {0, 3}
    MaxFetch = 94
    MaxChanges = 3
    Models <- PpuModels
    SourceSets <- ChosenSources
\* a line that leaves HBlank what the longest mode 3 does, transfers of up to two blocks
    Drawing = {173}
    LINE = 340
    MaxSteps = 2
\* a switch halts the CPU for more than its countdown takes
    HaltLength = 18
    MaxPending = 8
\* OAM of two bytes, pages of every region, two writes by the CPU or transfers by HDMA
    OamSize = 2
    Pages = {0, 80, 128, 160, 192, 208, 224, 240, 254}
    MapModels = {"DMG", "CGB_B", "CGB_C", "CGB_E", "AGB"}
    MaxAccesses = 2
    HdmaPages = {192, 224}
    BlockSize = 2
    MaxBlocks = 2
\* a line of two and a half tiles, and three objects
    WIDTH = 20
    MAX_OBJECTS = 3
    JoypadModels = {"DMG", "CGB", "SGB"}
    Bounce = 2
    Rise = 1
    Presses <- Pressed
    IllegalInputs = FALSE
\* up to three packets of two bits of length and two of data
    PACKET_SIZE = 4
    LENGTH_BITS = 2
    MAX_PACKETS = 3
    COLUMNS = 4
    ROWS = 3
    INTRO_ANIMATION_LENGTH = 2
    BORDER_ANIMATION = 8
    FADE = 3
    MaxCommands = 2
    Figures <- DrawnFigures
SPECIFICATION MCSpec
INVARIANTS
    ProgramsCompute SpeedSwitchKeepsTime LinesKeepTime OneBlockPerHBlank BatchedIsDrawn ShowsTheKeys
PROPERTIES
    DmaOnItsBus SgbObeys
\* a program that halted, a drawn line and a drawn figure are the end
CHECK_DEADLOCK FALSE
