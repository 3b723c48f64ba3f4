\* One stream whose size the float conversion rounds: 9 bytes with a 3-bit
\* significand, as 2^24 + 1 bytes with float's 24 bits.
CONSTANTS
    RecordLen = 2
    Mantissa = 3
    StreamSizes = {9}
    StreamLast = {TRUE}
    MaxStreams = 1
    FlightWrites = 1
    WaitForProduced = TRUE
SPECIFICATION Spec
INVARIANT RecordsProducedAsWritten
