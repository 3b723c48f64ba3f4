-------------------------- MODULE MCHiperfRtcCheck --------------------------
(* Trace files for HiperfRtcCheck: the <<timestamp, size>> lines           *)
(* parseTraceFile reads, as the -T server keeps them in trace_.            *)
EXTENDS HiperfRtcCheck

\* A full-size datagram, then a small one 20 ms later.
MCTraceTwoSizes == <<[timestamp |-> 0, size |-> 1400],
                     [timestamp |-> 20000, size |-> 300]>>

\* A single full-size entry (the trace mode is not chosen with it).
MCTraceOne == <<[timestamp |-> 0, size |-> 1400]>>
=============================================================================
