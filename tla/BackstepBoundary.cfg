\* The debugger stops at the first instruction of a frame.
CONSTANTS
    LastInstruction = 9
    VBlanks = {2, 5, 9}
    FramesPerKey = 2
    Length = 2
    MaxReplay = 9
SPECIFICATION BackstepSpec
INVARIANT BackstepOneInstruction
CHECK_DEADLOCK FALSE
