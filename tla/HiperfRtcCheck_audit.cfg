\* The audit under loss, reordering, retransmissions, probes and production
\* stop/start, with an output buffer that holds every produced segment.
CONSTANTS
    MaxSeg = 3
    BufferSize = 4
    MinProbeSeq = 5
    PayloadSize = 1400
    RtcHeaderLen = 12
    MaxRtx = 1
    MaxProbes = 1
    MaxDrops = 1
    Modes = {"interactive", "trace"}
    Trace <- MCTraceTwoSizes
SPECIFICATION Spec
INVARIANTS TypeOK LossReportsSound LossReportsComplete
\* The model stops once MaxSeg segments are produced and the bounded
\* retransmissions, probes and drops are spent; the real timer never stops.
CHECK_DEADLOCK FALSE
