------------------------- MODULE ByteStreamConsumer -------------------------
(***************************************************************************)
(* The byte-stream consumer: the transport protocol's request loop (CBR    *)
(* window, pending-interest table, retransmission) driving the           *)
(* IncrementalIndexer, the byte-stream reassembly, and a producer that   *)
(* serves a content of NumSegments segments from its output buffer, over *)
(* a network that may lose packets and reorder them.                      *)
(*                                                                         *)
(* The indexer is translated from incremental_indexer.h; the transport,  *)
(* the PIT, the reassembly and the producer's output buffer are not in    *)
(* this repository's sources and are modelled from spec.md (4.C, 4.E,    *)
(* 4.F, 4.H).  Every handler runs to completion on the consumer's single *)
(* I/O thread, so each is one atomic action.                             *)
(***************************************************************************)
EXTENDS IncrementalIndexer, FiniteSets, Sequences, TLC

CONSTANTS
    Offset,            \* suffix the download starts from: reset(offset)
    NumSegments,       \* segments of the content the producer holds
    Window,            \* current_window_size (constant under CBR)
    MaxRetx,           \* R_max: retransmissions of one suffix before giving up
    MaxDrops,          \* packets the network may lose in one behaviour
    MaxRequests,       \* model bound: suffixes the indexer may hand out
    SpuriousTimeouts   \* timer behaviours explored: TRUE, a PIT timer may expire
                       \* while its packets are in flight; FALSE, only after a loss

ASSUME /\ Offset \in Suffix
       /\ NumSegments \in 1 .. MaxSuffix
       /\ Window \in Nat \ {0}
       /\ MaxRetx \in Nat
       /\ MaxDrops \in Nat
       /\ MaxRequests \in NumSegments .. MaxSuffix
       /\ SpuriousTimeouts \subseteq BOOLEAN

\* Suffixes of the content, and the one carrying the final-segment marker.
Content    == {(Offset + i) % 2^SuffixBits : i \in 0 .. NumSegments - 1}
LastSuffix == (Offset + NumSegments - 1) % 2^SuffixBits

\* Position of a suffix in the download, counted from Offset (mod 2^w).
Pos(s) == (s - Offset) % 2^SuffixBits

Packet == Suffix \X (0 .. MaxRetx)   \* <<suffix, transmission number>>

VARIABLES
    status,       \* "idle", "running", "done" (read_success), "failed" (read_error)
    pit,          \* pending-interest table: suffix -> retransmissions so far
    interests,    \* interests in the network
    data,         \* content objects in the network
    drops,        \* packets the network has lost
    reasm_index,  \* the reassembly's in-order pointer (index_)
    held,         \* out-of-order segments held by the reassembly
    delivered,    \* segments copied to the application, in order
    spurious      \* this behaviour's timers may expire early (never changes)

vars == <<indexer_vars, status, pit, interests, data, drops,
          reasm_index, held, delivered, spurious>>

TypeOK ==
    /\ IndexerTypeOK
    /\ status \in {"idle", "running", "done", "failed"}
    /\ DOMAIN pit \subseteq Suffix
    /\ \A s \in DOMAIN pit : pit[s] \in 0 .. MaxRetx
    /\ interests \subseteq Packet
    /\ data \subseteq Packet
    /\ drops \in 0 .. MaxDrops
    /\ reasm_index \in Suffix
    /\ held \subseteq Content
    /\ delivered \in Seq(Content)
    /\ spurious \in BOOLEAN

-----------------------------------------------------------------------------
(* Helpers.                                                                *)

RemoveEntry(f, s) == [x \in DOMAIN f \ {s} |-> f[x]]

\* scheduleNextInterests(): while the window has room, ask the indexer for
\* the next suffix and issue an interest for it; stop at invalid_index.
\* (The model also stops once MaxRequests suffixes have been handed out.)
RECURSIVE Schedule(_, _, _, _)
Schedule(cursor, final, room, sent) ==
    IF room = 0 \/ Pos(cursor) >= MaxRequests THEN [cursor |-> cursor, sent |-> sent]
    ELSE LET r == getNextSuffix(cursor, final)
         IN IF r[1] = InvalidIndex
               THEN [cursor |-> r[2], sent |-> sent]
               ELSE Schedule(r[2], final, room - 1, sent \cup {r[1]})

\* Issue the interests a scheduling pass chose, on top of PIT table `table`.
SendInterests(sched, table) ==
    /\ next_download_suffix' = sched.cursor
    /\ pit' = table @@ [s \in sched.sent |-> 0]
    /\ interests' = interests \cup {<<s, 0>> : s \in sched.sent}

\* Byte-stream reassembly: while the segment at the in-order pointer is held,
\* copy it to the application and move the pointer with
\* getNextReassemblySegment() against the final suffix `final`.
RECURSIVE Assemble(_, _, _, _, _)
Assemble(index, cursor, final, hold, out) ==
    IF index # InvalidIndex /\ index \in hold
    THEN LET r == getNextReassemblySegment(cursor, final)
         IN Assemble(r[1], r[2], final, hold \ {index}, Append(out, index))
    ELSE [index |-> index, cursor |-> cursor, held |-> hold, out |-> out]

\* Mutant: read_success as soon as the final suffix is known.
ReassemblyCompleteOnMarker(out, final) == final # MaxSuffix

\* copyContent() of the final suffix signals read_success.
ReassemblyComplete(out, final) == out # <<>> /\ out[Len(out)] = final

\* Mutants of the retransmission guard: one retransmission too many, and one
\* too few.
CanRetransmitOneMore(count) == count <= MaxRetx
CanRetransmitOneLess(count) == count + 1 < MaxRetx

\* onTimeout(): the interest may be retransmitted while below R_max.
CanRetransmit(count) == count < MaxRetx

\* Some copy of the interest or of the data for s is still in the network.
InFlight(s) == \E p \in interests \cup data : p[1] = s

-----------------------------------------------------------------------------
(* Actions.                                                                *)

Init ==
    /\ IndexerInit
    /\ status = "idle"
    /\ pit = [s \in {} |-> 0]
    /\ interests = {}
    /\ data = {}
    /\ drops = 0
    /\ reasm_index = 0
    /\ held = {}
    /\ delivered = <<>>
    /\ spurious \in SpuriousTimeouts

\* asyncConsume(): reset(offset) the indexer, re-initialise the reassembly
\* (its pointer takes the first getNextReassemblySegment()), fill the window.
Start ==
    /\ status = "idle"
    /\ LET r     == reset(Offset)
           first == getNextReassemblySegment(r.reassembly, r.final)
       IN /\ final_suffix' = r.final
          /\ next_reassembly_suffix' = first[2]
          /\ reasm_index' = first[1]
          /\ SendInterests(Schedule(r.download, r.final, Window, {}), pit)
    /\ status' = "running"
    /\ UNCHANGED <<data, drops, held, delivered, spurious>>

\* The producer serves an interest from its output buffer; an interest for a
\* suffix past the end of the content finds nothing and gets no answer.
ProducerReply(p) ==
    /\ p \in interests
    /\ interests' = interests \ {p}
    /\ data' = IF p[1] \in Content THEN data \cup {p} ELSE data
    /\ UNCHANGED <<indexer_vars, status, pit, drops, reasm_index, held, delivered,
                   spurious>>

\* The network loses an interest or a content object.
Drop(p) ==
    /\ drops < MaxDrops
    /\ \/ p \in interests /\ interests' = interests \ {p} /\ UNCHANGED data
       \/ p \in data /\ data' = data \ {p} /\ UNCHANGED interests
    /\ drops' = drops + 1
    /\ UNCHANGED <<indexer_vars, status, pit, reasm_index, held, delivered,
                   spurious>>

\* A content object arrives.  If it matches a live PIT entry, the entry is
\* removed, the indexer learns the final suffix from its marker, the
\* reassembly copies whatever became contiguous, and the window is refilled
\* (or, on read_success, the transport stops and cancels its interests).
\* Anything else (a duplicate, data after stop) is discarded.
OnData(p) ==
    /\ p \in data
    /\ data' = data \ {p}
    /\ IF status = "running" /\ p[1] \in DOMAIN pit
       THEN LET s    == p[1]
                rest == RemoveEntry(pit, s)
            IN /\ LearnFinal(s, s = LastSuffix)
               /\ LET a == Assemble(reasm_index, next_reassembly_suffix,
                                    final_suffix', held \cup {s}, delivered)
                  IN /\ reasm_index' = a.index
                     /\ next_reassembly_suffix' = a.cursor
                     /\ held' = a.held
                     /\ delivered' = a.out
                     /\ IF ReassemblyComplete(a.out, final_suffix')
                           THEN /\ status' = "done"
                                /\ pit' = [x \in {} |-> 0]
                                /\ UNCHANGED <<interests, next_download_suffix>>
                           ELSE /\ SendInterests(
                                     Schedule(next_download_suffix, final_suffix',
                                              Window - Cardinality(DOMAIN rest), {}),
                                     rest)
                                /\ UNCHANGED status
       ELSE UNCHANGED <<indexer_vars, status, pit, interests,
                        reasm_index, held, delivered>>
    /\ UNCHANGED <<drops, spurious>>

\* The PIT timer of s expires.  Below R_max the interest is retransmitted;
\* at R_max a loss is reported and the slot released (and the window
\* refilled), except that the timeout of the very first interest of the
\* content, with nothing received, is "producer unreachable".
Timeout(s) ==
    /\ status = "running"
    /\ s \in DOMAIN pit
    /\ spurious \/ ~InFlight(s)
    /\ IF CanRetransmit(pit[s])
          THEN /\ pit' = [pit EXCEPT ![s] = @ + 1]
               /\ interests' = interests \cup {<<s, pit[s] + 1>>}
               /\ UNCHANGED <<status, next_download_suffix>>
          ELSE IF s = Offset /\ delivered = <<>> /\ held = {}
                  THEN /\ status' = "failed"
                       /\ pit' = [x \in {} |-> 0]
                       /\ UNCHANGED <<interests, next_download_suffix>>
                  ELSE LET rest == RemoveEntry(pit, s)
                       IN /\ SendInterests(
                                 Schedule(next_download_suffix, final_suffix,
                                          Window - Cardinality(DOMAIN rest), {}),
                                 rest)
                          /\ UNCHANGED status
    /\ UNCHANGED <<final_suffix, next_reassembly_suffix, data, drops,
                   reasm_index, held, delivered, spurious>>

\* hiperf's Callback::readSuccess and readError stop the I/O service:
\* once the packets in flight are gone, the consumer does nothing more.
Finished ==
    /\ status \in {"done", "failed"}
    /\ interests = {} /\ data = {}
    /\ UNCHANGED vars

Next ==
    \/ Start
    \/ \E p \in Packet : ProducerReply(p) \/ Drop(p) \/ OnData(p)
    \/ \E s \in Suffix : Timeout(s)
    \/ Finished

\* The consumer's handlers are all run by its event loop and its timers do
\* fire; the network eventually delivers what it does not lose.
Fairness ==
    /\ WF_vars(Start)
    /\ \A p \in Packet : WF_vars(ProducerReply(p)) /\ WF_vars(OnData(p))
    /\ \A s \in Suffix : WF_vars(Timeout(s))

Spec == Init /\ [][Next]_vars /\ Fairness

-----------------------------------------------------------------------------
(* Properties.                                                             *)

\* While the download runs, every segment the application still needs is
\* held by the reassembly, pending in the PIT, or not yet handed out by the
\* indexer: no segment is given up on while the stream waits for it.
NoSegmentAbandoned ==
    status = "running" =>
        \A s \in Content :
            \/ Pos(s) < Len(delivered)
            \/ s \in held
            \/ s \in DOMAIN pit
            \/ Pos(s) >= Pos(next_download_suffix)

\* NoSegmentAbandoned in the behaviours whose timers fire only for lost
\* packets.
NoSegmentAbandonedExactTimers == ~spurious => NoSegmentAbandoned

\* When timers fire only for lost packets and the network loses no more
\* packets than an interest may be retransmitted, the download completes.
DownloadCompletes == ~spurious => <>(status = "done")

\* The consumer implements the byte stream the socket promises (ByteStream):
\* every OnData step hands the application the next segments of the
\* content in order, read_success comes with or after the last of them,
\* and read_error only before any.  The refinement relates the reassembly's
\* output and the transport's status to the abstract read and result.
Abstract == INSTANCE ByteStream WITH
    Segments <- [i \in 1 .. NumSegments |-> (Offset + i - 1) % 2^SuffixBits],
    read     <- delivered,
    result   <- CASE status = "done"   -> "success"
                  [] status = "failed" -> "error"
                  [] OTHER             -> "none"

ByteStreamRefinement == Abstract!Spec

=============================================================================
