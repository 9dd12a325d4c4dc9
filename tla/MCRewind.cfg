\* A ring of up to three sequences of one key and two differences: the
\* smallest in which the ring wraps with a middle sequence, a sequence is
\* partly filled, and a key is popped across the wrap.
\* Backstep: frames of two, three and four instructions, a buffer of two
\* sequences of two states; no frame is as long as the limit on a replay.
CONSTANTS
    FRAMES_PER_KEY = 2
    Lengths = {0, 1, 2, 3}
    States = {s1, s2}
    Sizes = {1, 2}
    NULL = NULL
    Garbage = Garbage
    LastInstruction = 9
    FramesPerKey = 2
    VBlanks = {2, 5, 9}
    Length = 2
    MaxReplay = 9
\* Encoding: a count saturates at 2, so that runs of seven bytes cross a full
\* count three times; 4 allocated bytes make the output grow at every kind of write.
    Byte = {0, 1}
    MaxCounter = 2
    StateSize = 7
    InitialMalloc = 4
\* every mapper of GB_cart_defs
    Types = {"MBC1", "MBC1M", "MBC2", "MBC3", "MBC30", "MBC5", "CAMERA", "MBC7",
             "MMM01", "HUC1", "HUC3", "TPP1"}
    Rumble = {"MBC5"}
    Values = {0, 1, 10, 14, 31, 90, 128}
\* two words of two bits
    AddressBits = 1
    WordBits = 2
    Settle = 1
    SettleAll = 2
\* a day of four seconds, and four days
    ClockTypes = {"MBC3", "TPP1", "HUC3"}
    Minute = 2
    Hour = 1
    Day = 2
    LowDays = 2
    HighDays = 2
    Leap = 9
    LastSecond = 9
\* every family of models, and a cartridge of each size of its blocks
    Models = {"G", "C", "S", "N"}
    Carts = {"NO_MBC", "MBC1", "MBC2", "MBC3_RTC", "MBC7", "MMM01", "HUC1", "TPP1"}
    LastAge = 2
SPECIFICATION MCSpec
INVARIANTS
    PointersExact BackstepInFrame EncodingIsExact CartridgeRemembers SavesAndLoads
PROPERTY ImplementsHistory
CHECK_DEADLOCK FALSE
