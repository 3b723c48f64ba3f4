\* Handshake, then two streams, each produced after the previous one is
\* reported, of 1, 2, 3 or 5 bytes in records of 2 bytes (exact as float).
CONSTANTS
    RecordLen = 2
    Mantissa = 3
    StreamSizes = {1, 2, 3, 5}
    StreamLast = {TRUE, FALSE}
    MaxStreams = 2
    FlightWrites = 1
    WaitForProduced = TRUE
SPECIFICATION Spec
INVARIANTS TypeOK CallbacksMatchStreams RecordsProducedAsWritten HandshakeNeverFails
PROPERTIES HandshakeCompletes AllStreamsReported
