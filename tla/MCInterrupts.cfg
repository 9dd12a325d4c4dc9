\* Two interrupts, so that one has priority over the other.  The divider is cut
\* above the highest bit TAC selects; TIMA counts to 2.  Bytes of three bits: a
\* first, a middle and a last bit.
CONSTANTS
    LastBit = 1
    TimaSize = 3
    DivSize = 1024
    Width = 3
SPECIFICATION MCSpec
INVARIANTS CallsAreOrderly SidesInStep
PROPERTIES CallsTheRequested RequestsSurvive HaltEnds CountsEdges ExchangeEnds
