--------------------------- MODULE HiperfRtcCheck ---------------------------
(***************************************************************************)
(* hiperf in RTC mode with test mode on: the server's real-time production *)
(* timer (HIperfServer::sendRTCContentObjectCallback, handleInput) feeding *)
(* an RTC producer, and the client's per-packet audit                      *)
(* (HIperfClient::checkReceivedRtcContent), installed as the consumer's    *)
(* CONTENT_OBJECT_INPUT callback and run on every content object that      *)
(* reaches the RTC consumer: data, NACKs and probe replies.                *)
(*                                                                         *)
(* The hiperf handlers are translated from hiperf.cc.  The RTC producer's  *)
(* output buffer and NACK synthesis, and the RTC consumer's interest       *)
(* issuing, are not in this repository's sources and are modelled from    *)
(* spec.md 4.G/4.H: the producer serves [prod_seg - buffer, prod_seg] from *)
(* its output buffer, answers a miss with a NACK carrying (prod_seg, rate),*)
(* and a consumer that is NACKed "behind" jumps forward to prod_seg.       *)
(* The network loses and reorders packets.                                 *)
(***************************************************************************)
EXTENDS Naturals, Sequences, FiniteSets, FiniteSetsExt, TLC

CONSTANTS
    MaxSeg,          \* model bound: last suffix the producer may produce
    BufferSize,      \* segments the producer's output buffer retains
    MinProbeSeq,     \* MIN_PROBE_SEQ (0xefffffff in the code)
    PayloadSize,     \* payload_size_ of the server's content objects (-s)
    RtcHeaderLen,    \* bytes the RTC producer adds before a datagram's payload
    MaxRtx,          \* model bound: retransmitted interests in one behaviour
    MaxProbes,       \* model bound: probe interests in one behaviour
    MaxDrops,        \* model bound: packets the network may lose
    Modes,           \* server configurations: "rate", "interactive" (-I), "trace" (-T)
    Trace            \* trace_ as parseTraceFile reads it: <<[timestamp, size], ...>>

ASSUME /\ MaxSeg \in Nat
       /\ BufferSize \in Nat \ {0}
       /\ MinProbeSeq \in Nat /\ MinProbeSeq > MaxSeg + 1
       /\ PayloadSize \in Nat /\ RtcHeaderLen \in Nat
       /\ MaxRtx \in Nat /\ MaxProbes \in Nat /\ MaxDrops \in Nat
       /\ Modes \subseteq {"rate", "interactive", "trace"}
       /\ Trace \in Seq([timestamp : Nat, size : Nat]) /\ Len(Trace) > 0

NackLen == 16          \* "16 is the size of the NACK"
Seg     == 0 .. MaxSeg
Rate    == {0, 1}      \* production rate: 0 (not producing) or some positive rate

\* A content object: suffix, whether the producer made it as a NACK, its
\* payload length, and the (production segment, production rate) its first
\* 16 bytes decode to.
Object == [seg : Seg \cup {MinProbeSeq}, nack : BOOLEAN, len : Nat, prod : Seg,
           rate : Rate]

VARIABLES
    mode,           \* the server's configuration
    produced,       \* segments 0 .. produced-1 have been produced
    lens,           \* lens[s+1]: payload length of the datagram of segment s
    trace_index,    \* configuration_.trace_index_
    rtc_running,    \* rtc_running_: the production timer is armed
    next_segment,   \* RTC consumer: next suffix it will request
    rtx, probes,    \* retransmissions and probes sent so far
    interests,      \* interests in the network (suffixes)
    objects,        \* content objects in the network
    drops,          \* packets lost so far
    expected_seg,   \* expected_seg_
    lost_packets,   \* lost_packets_
    received,       \* data suffixes the audit has processed
    first_seen      \* first data suffix the audit processed (MinProbeSeq: none)

producer_vars == <<mode, produced, lens, trace_index, rtc_running>>
consumer_vars == <<next_segment, rtx, probes>>
net_vars      == <<interests, objects, drops>>
audit_vars    == <<expected_seg, lost_packets, received, first_seen>>
vars == <<producer_vars, consumer_vars, net_vars, audit_vars>>

TypeOK ==
    /\ mode \in Modes
    /\ produced \in 0 .. MaxSeg + 1
    /\ lens \in [1 .. produced -> 0 .. 1400]
    /\ trace_index \in 0 .. Len(Trace) - 1
    /\ rtc_running \in BOOLEAN
    /\ next_segment \in 0 .. MaxSeg + 1
    /\ rtx \in 0 .. MaxRtx /\ probes \in 0 .. MaxProbes
    /\ interests \subseteq Seg \cup {MinProbeSeq}
    /\ objects \subseteq Object
    /\ drops \in 0 .. MaxDrops
    /\ expected_seg \in 0 .. MaxSeg + 1
    /\ lost_packets \subseteq Seg
    /\ received \subseteq Seg
    /\ first_seen \in Seg \cup {MinProbeSeq}

-----------------------------------------------------------------------------
(* The RTC producer (spec 4.G/4.H).                                        *)

\* Mutant: the NACK carries the next suffix to produce, not the last produced.
ProdSegNext == produced

ProdSeg     == IF produced = 0 THEN 0 ELSE produced - 1
ProdRate    == IF produced = 0 \/ ~rtc_running THEN 0 ELSE 1
InBuffer(s) == s < produced /\ s + BufferSize >= produced

Nack(s) == [seg |-> s, nack |-> TRUE, len |-> NackLen, prod |-> ProdSeg,
            rate |-> ProdRate]
\* The data packet of segment s: the datagram behind the RTC header.  What
\* its first 16 bytes would decode to as a NACK matters only if its length
\* makes the audit take it for one; then it is any value.
Data(s) == LET len == lens[s + 1] + RtcHeaderLen
           IN IF len = NackLen
              THEN {[seg |-> s, nack |-> FALSE, len |-> len, prod |-> p,
                     rate |-> r] : p \in Seg, r \in Rate}
              ELSE {[seg |-> s, nack |-> FALSE, len |-> len, prod |-> 0,
                     rate |-> 0]}

\* An interest reaches the producer: a probe gets an immediate NACK, a
\* suffix held in the output buffer gets its data, any other suffix (ahead
\* of production, or already evicted) gets a NACK with (prod_seg, rate).
ProducerOnInterest(s) ==
    /\ s \in interests
    /\ interests' = interests \ {s}
    /\ IF s # MinProbeSeq /\ InBuffer(s)
          THEN \E d \in Data(s) : objects' = objects \cup {d}
          ELSE objects' = objects \cup {Nack(s)}
    /\ UNCHANGED <<producer_vars, consumer_vars, drops, audit_vars>>

\* produceDatagram(): the RTC producer gives the datagram the next suffix
\* and FIFO-evicts beyond BufferSize.
produceDatagram(len) ==
    /\ produced' = produced + 1
    /\ lens' = lens @@ (produced + 1 :> len)

\* sendRTCContentObjectCallback(): the production timer fires, re-arms
\* itself and produces one datagram of the payload's length, at most 1400.
sendRTCContentObjectCallback ==
    /\ rtc_running /\ mode # "trace"
    /\ produced <= MaxSeg
    /\ produceDatagram(IF PayloadSize < 1400 THEN PayloadSize ELSE 1400)
    /\ UNCHANGED <<mode, trace_index, rtc_running, consumer_vars, net_vars,
                   audit_vars>>

\* The length the trace gives a datagram: trace_[trace_index_].size,
\* clamped to the payload's length and to 1400.
TracePacketLen(i) ==
    LET size == Trace[i + 1].size
        len  == IF size > PayloadSize THEN PayloadSize ELSE size
    IN IF len > 1400 THEN 1400 ELSE len

\* sendRTCContentObjectCallbackWithTrace(): produce one datagram of the
\* current trace entry's length, step trace_index_ round the trace and
\* re-arm the timer (after the timestamp difference, or 1000us on wrap:
\* time is not modelled, so the next firing is simply enabled again).
sendRTCContentObjectCallbackWithTrace ==
    /\ rtc_running /\ mode = "trace"
    /\ produced <= MaxSeg
    /\ produceDatagram(TracePacketLen(trace_index))
    /\ trace_index' = (trace_index + 1) % Len(Trace)
    /\ UNCHANGED <<mode, rtc_running, consumer_vars, net_vars, audit_vars>>

\* handleInput(): with -I, a line on stdin toggles production: stop
\* cancels the timer, start re-arms sendRTCContentObjectCallback.
handleInput ==
    /\ mode = "interactive"
    /\ rtc_running' = ~rtc_running
    /\ UNCHANGED <<mode, produced, lens, trace_index, consumer_vars, net_vars,
                   audit_vars>>

-----------------------------------------------------------------------------
(* The RTC consumer's requests (spec 4.G).                                 *)

SendInterest ==
    /\ next_segment <= MaxSeg
    /\ interests' = interests \cup {next_segment}
    /\ next_segment' = next_segment + 1
    /\ UNCHANGED <<producer_vars, rtx, probes, objects, drops, audit_vars>>

\* Loss recovery: re-request a suffix that was requested and not received.
SendRtx(s) ==
    /\ rtx < MaxRtx
    /\ s < next_segment /\ s \notin received
    /\ interests' = interests \cup {s}
    /\ rtx' = rtx + 1
    /\ UNCHANGED <<producer_vars, next_segment, probes, objects, drops, audit_vars>>

SendProbe ==
    /\ probes < MaxProbes
    /\ interests' = interests \cup {MinProbeSeq}
    /\ probes' = probes + 1
    /\ UNCHANGED <<producer_vars, next_segment, rtx, objects, drops, audit_vars>>

Drop ==
    /\ drops < MaxDrops
    /\ \/ \E s \in interests : interests' = interests \ {s} /\ UNCHANGED objects
       \/ \E o \in objects : objects' = objects \ {o} /\ UNCHANGED interests
    /\ drops' = drops + 1
    /\ UNCHANGED <<producer_vars, consumer_vars, audit_vars>>

-----------------------------------------------------------------------------
(* The audit: HIperfClient::checkReceivedRtcContent().                     *)

\* Mutant: the loss loop stops one suffix short.
LossRangeShort(from, to) == from .. to - 2

\* for (i = expected_seg_; i < receivedSeg; i++) lost_packets_.insert(i)
LossRange(from, to) == from .. to - 1

\* Mutant: a recovered suffix is reported but not erased.
RecoverKeep(lost, s) == lost

\* lost_packets_.find(receivedSeg) ... lost_packets_.erase(it)
Recover(lost, s) == lost \ {s}

\* The audit's new (expected_seg_, lost_packets_) after content object o.
\* A 16-byte payload is read as a NACK: with rate 0 nothing changes; a
\* suffix behind the production segment resynchronises expected_seg_ to
\* it; window-too-large and probe NACKs are only printed.  A data packet
\* ahead of expected_seg_ (once started) reports the gap lost, one behind
\* it is a recovery or out of order, otherwise expected_seg_ moves past it.
checkReceivedRtcContent(o) ==
    LET same == [expected |-> expected_seg, lost |-> lost_packets]
    IN IF o.len = NackLen
       THEN IF o.rate # 0 /\ o.seg < o.prod
               THEN [same EXCEPT !.expected = o.prod]
               ELSE same
       ELSE IF o.seg > expected_seg /\ expected_seg # 0
               THEN [expected |-> o.seg + 1,
                     lost |-> lost_packets \cup LossRange(expected_seg, o.seg)]
       ELSE IF o.seg < expected_seg
               THEN [same EXCEPT !.lost = Recover(lost_packets, o.seg)]
       ELSE [same EXCEPT !.expected = o.seg + 1]

\* A content object reaches the RTC consumer: CONTENT_OBJECT_INPUT runs the
\* audit, then the transport handles the packet; a NACK for a suffix behind
\* the production segment makes the consumer jump forward to it.
Receive(o) ==
    /\ o \in objects
    /\ objects' = objects \ {o}
    /\ LET a      == checkReceivedRtcContent(o)
           isData == ~o.nack
       IN /\ expected_seg' = a.expected
          /\ lost_packets' = a.lost
          /\ received' = IF isData THEN received \cup {o.seg} ELSE received
          /\ first_seen' = IF isData /\ first_seen = MinProbeSeq
                              THEN o.seg ELSE first_seen
          /\ next_segment' = IF ~isData /\ o.seg < o.prod
                                THEN Max({next_segment, o.prod})
                                ELSE next_segment
    /\ UNCHANGED <<producer_vars, rtx, probes, interests, drops>>

-----------------------------------------------------------------------------

\* Fields of HIperfClient / HIperfServer as constructed: expected_seg_(0),
\* empty lost_packets_, trace_index_(0).  HIperfServer::run() with -I
\* leaves rtc_running_(false) and waits for the first input line; with -T
\* (trace file parsed into Trace) or otherwise it sets rtc_running_ and
\* arms the timer.
Init ==
    /\ mode \in Modes
    /\ produced = 0 /\ lens = <<>> /\ trace_index = 0
    /\ rtc_running = (mode # "interactive")
    /\ next_segment = 0 /\ rtx = 0 /\ probes = 0
    /\ interests = {} /\ objects = {} /\ drops = 0
    /\ expected_seg = 0
    /\ lost_packets = {}
    /\ received = {}
    /\ first_seen = MinProbeSeq

Next ==
    \/ sendRTCContentObjectCallback
    \/ sendRTCContentObjectCallbackWithTrace
    \/ handleInput
    \/ \E s \in interests : ProducerOnInterest(s)
    \/ SendInterest
    \/ \E s \in Seg : SendRtx(s)
    \/ SendProbe
    \/ Drop
    \/ \E o \in objects : Receive(o)

Spec == Init /\ [][Next]_vars

-----------------------------------------------------------------------------
(* Properties.                                                             *)

\* Every suffix the audit reports as [LOSS] and has not [RECOVER]ed is one
\* that never arrived: checkReceivedRtcContent's gap loop, its recovery
\* erase and its NACK resynchronisation of expected_seg_ never make it
\* count a received packet as lost.
LossReportsSound == \A s \in lost_packets : s \notin received

\* Every suffix after the first one audited, below expected_seg_, that has
\* not arrived is in lost_packets_: reordering, duplicates and probe replies
\* never make the gap loop miss a loss.
LossReportsComplete ==
    first_seen # MinProbeSeq =>
        \A s \in Seg : first_seen < s /\ s < expected_seg /\ s \notin received
                       => s \in lost_packets

=============================================================================
