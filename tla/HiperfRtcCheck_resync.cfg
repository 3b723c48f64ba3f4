\* The audit when the producer evicts a segment before its retransmitted
\* interest arrives, so the consumer gets a NACK "behind".
CONSTANTS
    MaxSeg = 3
    BufferSize = 1
    MinProbeSeq = 5
    PayloadSize = 1400
    RtcHeaderLen = 12
    MaxRtx = 1
    MaxProbes = 1
    MaxDrops = 1
    Modes = {"interactive"}
    Trace <- MCTraceOne
SPECIFICATION Spec
INVARIANT LossReportsSound
\* The model stops once MaxSeg segments are produced and the bounded
\* retransmissions, probes and drops are spent; the real timer never stops.
CHECK_DEADLOCK FALSE
