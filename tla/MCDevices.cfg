\* Packets of up to three bytes of data, runs of one byte or of two equal ones,
\* and room for two bytes, so that a run can be cut by the packet and by the
\* buffer.  An image of two commands and a row that stays free.  A length of
\* two, volumes next to the ends of their four bits, frequencies of three bits
\* and generators that reload every cycle, every third or after 256.
CONSTANTS
    DATA_SIZE = 2
    START_LENGTH = 1
    ImageRows = 5
    PrintTime = 1
    Payload = {0, 128}
    MaxPayload = 3
    FirstSize = 4
    LastSize = 5
    Slack = 2
    Frames = {1, 3}
    Samples = 9
    LengthMax = 2
    Machines <- ChannelMachines
    Lengths <- ChannelLengths
    Envelopes <- ChannelEnvelopes
    MaxVolume = 16
    MaxFrequency = 7
    SweepMachines <- SweptMachines
    Shifts = {0, 1, 2}
    SweepPaces = {0, 1}
    SweepFrequencies = {2, 5}
    MaxClocks = 2
    Generators <- GeneratorKinds
    Polynomials <- GeneratorPolynomials
    Frequencies = {2047, 2045, 1791}
    Counters = {0, 8191}
    MaxPending = 8
    MaxTime = 10
    MaxWrites = 2
\* The first and the last day of a month, of a year that ends a century.
    Days = {1, 28}
    Years = {99}
    YearBits = {0}
    BufferSize = 21
SPECIFICATION MCSpec
INVARIANTS PrintsWhatWasSent LazyIsEager WorkBoyAnswers
PROPERTIES PlaysInTime ChannelFollows
\* The printer's memory is full, a generator's writes are made, and a lost key
\* ends a behaviour.
CHECK_DEADLOCK FALSE
