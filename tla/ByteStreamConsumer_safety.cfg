\* Behaviours of two kinds: timers that may expire while packets are still
\* in flight (a late answer racing the retransmission), and timers that
\* expire only for packets the network lost, where the network loses no
\* more packets (MaxDrops = 1) than an interest may be retransmitted
\* (MaxRetx = 1).  The refinement is checked in both; the liveness and the
\* abandon check only in the second (in the first, NoSegmentAbandoned
\* fails: a spurious timeout can exhaust a segment's retransmissions).
\* Any stop short of read_success in the second kind violates
\* DownloadCompletes, which therefore subsumes the deadlock check.
CONSTANTS
    SuffixBits <- MCSuffixBits
    Offset <- MCOffset
    NumSegments <- MCNumSegments
    Window <- MCWindow
    MaxRetx <- MCMaxRetx
    MaxDrops <- MCMaxDrops
    MaxRequests <- MCMaxRequests
    SpuriousTimeouts = {TRUE, FALSE}
SPECIFICATION Spec
INVARIANTS TypeOK NoSegmentAbandonedExactTimers
PROPERTIES ByteStreamRefinement DownloadCompletes
CHECK_DEADLOCK FALSE
