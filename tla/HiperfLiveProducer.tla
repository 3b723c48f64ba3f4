------------------------- MODULE HiperfLiveProducer -------------------------
(***************************************************************************)
(* hiperf server in live-production mode (-L): the producer socket's       *)
(* cache-miss callback starts asynchronous production of a chunk of        *)
(* SegsPerJob segments (HIperfServer::asyncProcessInterest), records the   *)
(* interests that miss while a chunk is being produced                     *)
(* (HIperfServer::cacheMiss) and re-arms itself when the chunk is done     *)
(* (HIperfServer::onContentProduced).                                      *)
(*                                                                         *)
(* The hiperf handlers are translated from hiperf.cc.  The producer        *)
(* socket (serve from the output buffer, else call CACHE_MISS), its        *)
(* asynchronous worker (one segment at a time into the output buffer,      *)
(* publishing the last-segment pointer after each, CONTENT_PRODUCED        *)
(* posted to the I/O thread at the end) and the consumer (a window of      *)
(* requests, retransmitted on timeout) are modelled from spec.md 4.F/4.H.  *)
(***************************************************************************)
EXTENDS Naturals, Sequences, FiniteSets, FiniteSetsExt, SequencesExt

CONSTANTS
    Total,       \* model bound: segments the consumer downloads
    SegsPerJob,  \* segments per chunk: download_size / payload size
    Window,      \* consumer window
    MaxUnsatisfied, \* model bound: interests recorded while a chunk is produced
    Modes           \* server configurations: "live" (-r -l), "virtual" (default)

ASSUME /\ Total \in Nat \ {0}
       /\ SegsPerJob \in Nat \ {0}
       /\ Window \in Nat \ {0}
       /\ MaxUnsatisfied \in Nat \ {0}
       /\ Modes \subseteq {"live", "virtual"}

Suffix == 0 .. Total + SegsPerJob - 1   \* a chunk may run past Total
NoJob  == [start |-> 0, next |-> 0, end |-> 0, on |-> FALSE]

VARIABLES
    cache_miss,             \* CACHE_MISS callback: "async", "cacheMiss" or "virtual"
    unsatisfied_interests,  \* unsatisfied_interests_ (std::vector, push_back order)
    last_segment,           \* last_segment_ (*ptr_last_segment_)
    job,                    \* the chunk the worker is producing
    produced_posted,        \* CONTENT_PRODUCED posted, not yet run
    buffer,                 \* suffixes in the producer's output buffer
    requested,              \* suffixes the consumer has requested
    received,               \* suffixes the consumer has received
    interests,              \* interests in the network
    data                    \* content objects in the network

vars == <<cache_miss, unsatisfied_interests, last_segment, job,
          produced_posted, buffer, requested, received, interests, data>>

TypeOK ==
    /\ cache_miss \in {"async", "cacheMiss", "virtual"}
    /\ unsatisfied_interests \in Seq(Suffix)
    /\ last_segment \in Suffix
    /\ job \in [start : Suffix, next : Suffix, end : Suffix, on : BOOLEAN]
    /\ produced_posted \in BOOLEAN
    /\ buffer \subseteq Suffix
    /\ requested \subseteq 0 .. Total - 1
    /\ received \subseteq requested
    /\ interests \subseteq 0 .. Total - 1
    /\ data \subseteq 0 .. Total - 1

-----------------------------------------------------------------------------
(* std::lower_bound(first, last, val) as libstdc++ computes it: a binary  *)
(* search that assumes the range is partitioned by "< val".  Returns the   *)
(* 1-based index of the result (Len(s) + 1 for end()).                     *)
RECURSIVE LowerBound(_, _, _, _)
LowerBound(s, first, len, val) ==
    IF len = 0 THEN first
    ELSE LET half   == len \div 2
             middle == first + half
         IN IF s[middle] < val
               THEN LowerBound(s, middle + 1, len - half - 1, val)
               ELSE LowerBound(s, first, half, val)

\* Mutant: a chunk one segment too long.
produceContentAsyncLong(suffix) ==
    job' = [start |-> suffix, next |-> suffix, end |-> suffix + SegsPerJob,
            on |-> TRUE]

\* produceContentAsync(): queue a chunk of SegsPerJob segments from suffix.
produceContentAsync(suffix) ==
    job' = [start |-> suffix, next |-> suffix, end |-> suffix + SegsPerJob - 1,
            on |-> TRUE]

\* asyncProcessInterest(): switch CACHE_MISS to cacheMiss; an interest for
\* suffix 0 restarts (last_segment_ = 0, no unsatisfied interests); the
\* chunk starts at the first recorded interest not below last_segment_ as
\* lower_bound finds it, or at the interest's own suffix; the recorded
\* interests before that point are erased.
asyncProcessInterest(s) ==
    LET last  == IF s = 0 THEN 0 ELSE last_segment
        vec   == IF s = 0 THEN <<>> ELSE unsatisfied_interests
        it    == LowerBound(vec, 1, Len(vec), last)
        start == IF vec # <<>> /\ it <= Len(vec) THEN vec[it] ELSE s
    IN /\ cache_miss' = "cacheMiss"
       /\ last_segment' = last
       /\ unsatisfied_interests' = SubSeq(vec, it, Len(vec))
       /\ produceContentAsync(start)

\* virtualProcessInterest(): name the next pool object after the interest
\* and produce it; with an output buffer of size 0 the portal sends it to
\* the pending interest at once and keeps nothing.
virtualProcessInterest(s) ==
    /\ data' = data \cup {s}
    /\ UNCHANGED <<cache_miss, unsatisfied_interests, last_segment, job>>

\* cacheMiss(): remember the suffix of an interest that missed.
cacheMiss(s) ==
    /\ unsatisfied_interests' = Append(unsatisfied_interests, s)
    /\ UNCHANGED <<cache_miss, last_segment, job>>

-----------------------------------------------------------------------------
(* Producer socket and worker (spec 4.H).                                  *)

\* An interest reaches the producer socket: served from the output buffer,
\* or handed to the CACHE_MISS callback (and dropped).
ProducerOnInterest(s) ==
    /\ s \in interests
    /\ interests' = interests \ {s}
    /\ IF s \in buffer
          THEN /\ data' = data \cup {s}
               /\ UNCHANGED <<cache_miss, unsatisfied_interests, last_segment, job>>
          ELSE CASE cache_miss = "async"     -> asyncProcessInterest(s) /\ UNCHANGED data
                 [] cache_miss = "cacheMiss" -> cacheMiss(s) /\ UNCHANGED data
                 [] cache_miss = "virtual"   -> virtualProcessInterest(s)
    /\ UNCHANGED <<produced_posted, buffer, requested, received>>

\* The worker writes the next segment of the chunk into the output buffer
\* and publishes it through the last-segment pointer; after the last one
\* it posts CONTENT_PRODUCED to the I/O thread.
WorkerProduce ==
    /\ job.on
    /\ buffer' = buffer \cup {job.next}
    /\ last_segment' = job.next + 1
    /\ IF job.next = job.end
          THEN job' = NoJob /\ produced_posted' = TRUE
          ELSE job' = [job EXCEPT !.next = @ + 1] /\ UNCHANGED produced_posted
    /\ UNCHANGED <<cache_miss, unsatisfied_interests, requested, received,
                   interests, data>>

\* Mutant: CACHE_MISS is left on cacheMiss after a chunk.
onContentProducedNoRearm ==
    /\ produced_posted
    /\ produced_posted' = FALSE
    /\ UNCHANGED <<cache_miss, unsatisfied_interests, last_segment, job, buffer,
                   requested, received, interests, data>>

\* onContentProduced(): CACHE_MISS is asyncProcessInterest again.
onContentProduced ==
    /\ produced_posted
    /\ produced_posted' = FALSE
    /\ cache_miss' = "async"
    /\ UNCHANGED <<unsatisfied_interests, last_segment, job, buffer,
                   requested, received, interests, data>>

-----------------------------------------------------------------------------
(* The consumer (spec 4.F): a window of requests in suffix order, an      *)
(* interest retransmitted when its timer expires with nothing in flight.   *)

Outstanding == requested \ received

Request ==
    /\ Cardinality(Outstanding) < Window
    /\ \E s \in 0 .. Total - 1 :
          /\ s \notin requested
          /\ \A t \in 0 .. s - 1 : t \in requested
          /\ requested' = requested \cup {s}
          /\ interests' = interests \cup {s}
    /\ UNCHANGED <<cache_miss, unsatisfied_interests, last_segment, job,
                   produced_posted, buffer, received, data>>

\* (Timing bound: while a chunk is produced, at most MaxUnsatisfied
\* interests miss; a chunk takes less than that many interest lifetimes.)
Retransmit(s) ==
    /\ s \in Outstanding
    /\ cache_miss = "async" \/ Len(unsatisfied_interests) < MaxUnsatisfied
    /\ s \notin interests /\ s \notin data
    /\ interests' = interests \cup {s}
    /\ UNCHANGED <<cache_miss, unsatisfied_interests, last_segment, job,
                   produced_posted, buffer, requested, received, data>>

Receive(s) ==
    /\ s \in data
    /\ data' = data \ {s}
    /\ received' = received \cup {s}
    /\ UNCHANGED <<cache_miss, unsatisfied_interests, last_segment, job,
                   produced_posted, buffer, requested, interests>>

Done ==
    /\ received = 0 .. Total - 1
    /\ UNCHANGED vars

-----------------------------------------------------------------------------

\* HIperfServer::setup(): with -r -l, CACHE_MISS is asyncProcessInterest;
\* by default (no -r), the output buffer size is 0 and CACHE_MISS is
\* virtualProcessInterest.  last_segment_(0), no unsatisfied interests.
Init ==
    /\ \E m \in Modes : cache_miss = IF m = "live" THEN "async" ELSE "virtual"
    /\ unsatisfied_interests = <<>>
    /\ last_segment = 0
    /\ job = NoJob
    /\ produced_posted = FALSE
    /\ buffer = {}
    /\ requested = {} /\ received = {}
    /\ interests = {} /\ data = {}

Next ==
    \/ \E s \in interests : ProducerOnInterest(s)
    \/ WorkerProduce
    \/ onContentProduced
    \/ Request
    \/ \E s \in 0 .. Total - 1 : Retransmit(s) \/ Receive(s)
    \/ Done

\* The I/O thread runs every ready handler, the worker runs its queue, and
\* the consumer's timers fire.
Fairness ==
    /\ \A s \in 0 .. Total - 1 :
          /\ WF_vars(ProducerOnInterest(s))
          /\ WF_vars(Retransmit(s))
          /\ WF_vars(Receive(s))
    /\ WF_vars(WorkerProduce)
    /\ WF_vars(onContentProduced)
    /\ WF_vars(Request)

Spec == Init /\ [][Next]_vars /\ Fairness

-----------------------------------------------------------------------------
(* Properties.                                                             *)

\* The consumer receives every segment: however interests miss and are
\* recorded while a chunk is produced, the chunks asyncProcessInterest
\* starts eventually cover every suffix the consumer keeps retransmitting.
AllReceived == <>(received = 0 .. Total - 1)

\* What asyncProcessInterest's comment promises: a chunk starts at the
\* smallest recorded unsatisfied suffix not yet produced (not below
\* last_segment_), or, when there is none, at the interest's own suffix.
ChunkStartsAtSmallestUnsatisfied ==
    [][cache_miss = "async" /\ cache_miss' = "cacheMiss" =>
        LET s       == CHOOSE x \in interests : x \notin interests'
            pending == IF s = 0 THEN {}
                       ELSE {u \in ToSet(unsatisfied_interests) : u >= last_segment}
        IN job'.start = IF pending = {} THEN s ELSE Min(pending)]_vars

=============================================================================
