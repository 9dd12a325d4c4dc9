\* The threads of a debugged game may wait for each other, so that a state
\* without a successor is no error here.
CONSTANTS
    MaxInput = 3
    Breakpoints = TRUE
    Console = TRUE
    Interrupts = TRUE
    BorderChanges = TRUE
SPECIFICATION Spec
INVARIANTS GameCoreExclusive Quiescent InputNeverStarves
PROPERTIES GameStops GameBlocksReturn
CHECK_DEADLOCK FALSE
