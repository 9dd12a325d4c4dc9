\* A frame of six units: eight is the first whole number beyond 1.2 frames.
CONSTANTS
    Frame = 6
    Forgiven = 8
    MaxRun = 3
    MaxCycles = 14
    Stalls = {0, 1, 9}
    Oversleep = 1
SPECIFICATION PaceSpec
INVARIANT RunFrameTime
CHECK_DEADLOCK FALSE
