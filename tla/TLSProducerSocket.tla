------------------------- MODULE TLSProducerSocket -------------------------
(***************************************************************************)
(* TLSProducerSocket (tls_socket_producer.cc): a producer socket that runs *)
(* a TLS 1.3 server handshake over interests and then encrypts what the    *)
(* application produces.  Three threads share the socket:                  *)
(*  - the I/O thread runs onInterest (handshake name, from the parent) and *)
(*    cacheMiss (the socket's own prefix), and the application's           *)
(*    produceStream;                                                       *)
(*  - async_thread_ runs accept(), in which SSL_accept blocks in readOld   *)
(*    on cv_ until the I/O thread hands it the client's bytes, and then    *)
(*    the record-production tasks that writeOld posts to it;               *)
(*  - OpenSSL calls readOld / writeOld from whichever thread drives it.    *)
(*                                                                         *)
(* OpenSSL, the parent P2PSecureProducerSocket and the client are not in   *)
(* this repository; they are modelled from spec.md 4.H/5/9: the client     *)
(* sends ClientHello to the parent's handshake name (which calls           *)
(* onInterest then async_accept), sends Finished to the socket's prefix    *)
(* once it has the server's flight, and then sends application interests. *)
(* SSL_accept reads ClientHello, writes the server flight in FlightWrites  *)
(* BIO writes, and reads Finished; SSL_write of n bytes writes             *)
(* ceil(n / RecordLen) records, one BIO write each.  Reads of shared       *)
(* fields are atomic steps; the unsynchronised ones are noted.             *)
(***************************************************************************)
EXTENDS Integers, Sequences, FiniteSets, FiniteSetsExt

CONSTANTS
    RecordLen,        \* SSL3_RT_MAX_PLAIN_LENGTH (16384 = 2^14 in the code)
    Mantissa,         \* significand bits of float (24 in the code)
    StreamSizes,      \* byte sizes the application passes to produceStream
    StreamLast,       \* is_last values it passes
    MaxStreams,       \* model bound: produceStream calls in one behaviour
    FlightWrites,     \* BIO writes OpenSSL makes for the server's flight
    WaitForProduced   \* the application produces a stream only after the
                      \* previous one's CONTENT_PRODUCED

ASSUME /\ RecordLen \in Nat \ {0} /\ Mantissa \in Nat \ {0}
       /\ StreamSizes \subseteq Nat \ {0} /\ StreamLast \subseteq BOOLEAN
       /\ MaxStreams \in Nat /\ FlightWrites \in Nat \ {0}
       /\ WaitForProduced \in BOOLEAN

HandshakeState == {"UNINITIATED", "CLIENT_HELLO", "CLIENT_FINISHED", "SERVER_FINISHED"}
Message == {"none", "hello", "finished", "app"}   \* what handshake_packet_ holds
Stream  == 0 .. MaxStreams          \* 0: the handshake flight; i: i-th produceStream
AcceptTask == [stream |-> -1, rec |-> 0]   \* the accept() async_accept posts
Task    == {AcceptTask} \cup [stream : Stream, rec : Nat]

VARIABLES
    ssl_phase,          \* OpenSSL's handshake: "before", "init", "done"
    handshake_state,    \* handshake_state_
    handshake_packet,   \* handshake_packet_ (the interest's unread payload)
    something_to_read,  \* something_to_read_
    waiting,            \* async_thread_ in readOld: "no", "blocked" on cv_, "woken"
    first,              \* first_
    name,               \* name_ (the stream whose name it holds; 0: handshake)
    tls_chunks,         \* tls_chunks_ (int)
    to_call,            \* to_call_oncontentproduced_ (int)
    queue,              \* async_thread_'s pending tasks
    accept_pc,          \* where accept() is: "none", "read_hello",
                        \* "write_flight", "read_finished", "finish", "done", "failed"
    flight_writes,      \* BIO writes of the server flight so far
    client,             \* "start", "hello_sent", "finished_sent"
    streams,            \* produceStream calls: <<[size, last], ...>>
    records,            \* records produced: [stream, rec, name, last]
    fired               \* CONTENT_PRODUCED callbacks run

vars == <<ssl_phase, handshake_state, handshake_packet, something_to_read,
          waiting, first, name, tls_chunks, to_call, queue, accept_pc,
          flight_writes, client, streams, records, fired>>

-----------------------------------------------------------------------------
(* Record counts.                                                          *)

CeilDiv(a, b) == (a + b - 1) \div b

RECURSIVE BitLen(_)
BitLen(n) == IF n = 0 THEN 0 ELSE 1 + BitLen(n \div 2)

\* (float)n: round to nearest, ties to even, keeping Mantissa bits.
ToFloat(n) ==
    LET e == BitLen(n) - Mantissa
    IN IF e <= 0 THEN n
       ELSE LET u == 2^e
                q == n \div u
                r == n % u
            IN u * (IF 2 * r > u \/ (2 * r = u /\ q % 2 = 1) THEN q + 1 ELSE q)

\* Records SSL_write makes of n bytes.
RecordsOf(n) == CeilDiv(n, RecordLen)

MaxRecords == RecordsOf(Max(StreamSizes))

\* Mutant: the chunk count rounds down.
ChunksOfFloor(n) == ToFloat(n) \div ToFloat(RecordLen)

\* (int)ceil((float)buf_size / (float)SSL3_RT_MAX_PLAIN_LENGTH)
ChunksOf(n) == CeilDiv(ToFloat(n), ToFloat(RecordLen))

\* Mutant: a stream that is not the last counts two extra chunks.
TlsChunksDoubleInc(n, last) == ChunksOf(n) + (IF last THEN 0 ELSE 2)

\* Mutant: is_last is not accounted for.
TlsChunksIgnoreLast(n, last) == ChunksOf(n)

\* tls_chunks_ = chunks; if (!is_last) tls_chunks_++;
TlsChunks(n, last) == ChunksOf(n) + (IF last THEN 0 ELSE 1)

-----------------------------------------------------------------------------
(* Handlers.                                                               *)

\* Mutant: no promotion to CLIENT_HELLO.
getHandshakeStateNoPromote ==
    IF ssl_phase = "before" THEN "UNINITIATED" ELSE handshake_state

\* getHandshakeState(): UNINITIATED while SSL_in_before; promoted to
\* CLIENT_HELLO once SSL_in_init.  (It also stores the result.)
getHandshakeState ==
    IF ssl_phase = "before" THEN "UNINITIATED"
    ELSE IF ssl_phase = "init" /\ handshake_state = "UNINITIATED" THEN "CLIENT_HELLO"
    ELSE handshake_state

\* cv_.notify_one(): wakes async_thread_ if it waits on cv_.
Notify(w) == IF w = "blocked" THEN "woken" ELSE w

\* Mutant: the application's callback is never called.
cacheMissNoApp(msg) ==
    LET st   == getHandshakeState
        same == [hs |-> st, packet |-> handshake_packet,
                 something |-> something_to_read, waiting |-> waiting, app |-> FALSE]
    IN CASE st = "CLIENT_HELLO" ->
              [hs |-> "CLIENT_FINISHED", packet |-> msg, something |-> TRUE,
               waiting |-> Notify(waiting), app |-> FALSE]
         [] st = "SERVER_FINISHED" ->
              [same EXCEPT !.packet = msg, !.something = TRUE]
         [] OTHER -> same

\* cacheMiss(interest) with payload msg: the new handshake_state_,
\* handshake_packet_, something_to_read_ and waiter, and whether the
\* application's CACHE_MISS callback (on_interest_process_decrypted_) runs.
\* Application interests carry no payload, so SSL_read is not called.
cacheMiss(msg) ==
    LET st   == getHandshakeState
        same == [hs |-> st, packet |-> handshake_packet,
                 something |-> something_to_read, waiting |-> waiting, app |-> FALSE]
    IN CASE st = "CLIENT_HELLO" ->
              [hs |-> "CLIENT_FINISHED", packet |-> msg, something |-> TRUE,
               waiting |-> Notify(waiting), app |-> FALSE]
         [] st = "SERVER_FINISHED" ->
              [same EXCEPT !.packet = msg, !.something = TRUE, !.app = TRUE]
         [] OTHER -> same

\* Mutant: the flag is left set once the payload has been consumed.
readOldKeepFlag ==
    [got |-> IF something_to_read THEN handshake_packet ELSE "none",
     something |-> something_to_read]

\* readOld() after the wait: it returns what is left of handshake_packet_
\* (nothing after a wake-up with nothing to read: 0 bytes) and clears
\* something_to_read_ once the payload is consumed.
readOld ==
    [got |-> IF something_to_read THEN handshake_packet ELSE "none",
     something |-> FALSE]

\* writeOld(): before SERVER_FINISHED the first write is produced at once
\* by the parent under name_ (is_last when tls_chunks_ reaches 0); every
\* other write is posted to async_thread_.
writeOld(s, r) ==
    LET st == getHandshakeState
    IN /\ handshake_state' = st
       /\ IF st # "SERVER_FINISHED" /\ first
             THEN /\ tls_chunks' = tls_chunks - 1
                  /\ records' = records \cup
                        {[stream |-> s, rec |-> r, name |-> name,
                          last |-> tls_chunks - 1 = 0]}
                  /\ first' = FALSE
                  /\ UNCHANGED queue
             ELSE /\ queue' = Append(queue, [stream |-> s, rec |-> r])
                  /\ UNCHANGED <<tls_chunks, records, first>>

\* if (to_call_oncontentproduced_ == 0 && on_content_produced_application)
ContentProducedDue(n) == n = 0

\* produceStream(): name_, tls_chunks_, to_call_oncontentproduced_ set for
\* the new stream, then SSL_write posts one task per record (writeOld's
\* second branch: the state is SERVER_FINISHED).
produceStream(n, last) ==
    LET s == Len(streams) + 1
    IN /\ name' = s
       /\ tls_chunks' = TlsChunks(n, last)
       /\ to_call' = ChunksOf(n)
       /\ queue' = queue \o [i \in 1 .. RecordsOf(n) |-> [stream |-> s, rec |-> i]]
       /\ streams' = Append(streams, [size |-> n, last |-> last])

-----------------------------------------------------------------------------
(* Steps of the three threads and of the client.                           *)

\* The client's ClientHello reaches the parent, which calls onInterest()
\* (UNINITIATED: under mtx_, name_, handshake_packet_, something_to_read_,
\* notify) and then async_accept() (accept() posted to async_thread_).
ParentOnHello ==
    /\ client = "start"
    /\ client' = "hello_sent"
    /\ handshake_state' = getHandshakeState
    /\ name' = 0
    /\ handshake_packet' = "hello"
    /\ something_to_read' = TRUE
    /\ waiting' = Notify(waiting)
    /\ queue' = Append(queue, AcceptTask)
    /\ UNCHANGED <<ssl_phase, first, tls_chunks, to_call, accept_pc,
                   flight_writes, streams, records, fired>>

\* async_thread_ is free: accept() has not started or has returned (after
\* a failed handshake the exception has ended the thread).
AsyncIdle == accept_pc \in {"none", "done"}

\* accept(): with the handshake UNINITIATED or CLIENT_HELLO, tls_chunks_ = 1
\* and SSL_accept starts by reading ClientHello.
AcceptStart ==
    /\ AsyncIdle /\ queue # <<>> /\ Head(queue) = AcceptTask
    /\ queue' = Tail(queue)
    /\ LET st == getHandshakeState
       IN /\ handshake_state' = st
          /\ st \in {"UNINITIATED", "CLIENT_HELLO"}
    /\ tls_chunks' = 1
    /\ accept_pc' = "read_hello"
    /\ UNCHANGED <<ssl_phase, handshake_packet, something_to_read, waiting, first,
                   name, to_call, flight_writes, client, streams, records, fired>>

\* SSL_accept reads through readOld(): under mtx_, wait on cv_ if there is
\* nothing to read (once: the wait is not in a loop), then take the payload.
\* ClientHello moves OpenSSL into the handshake, Finished completes it;
\* anything else (0 bytes included) fails it and accept() throws.
ReadOld ==
    /\ accept_pc \in {"read_hello", "read_finished"}
    /\ waiting # "blocked"
    /\ IF waiting = "no" /\ ~something_to_read
          THEN /\ waiting' = "blocked"
               /\ UNCHANGED <<ssl_phase, handshake_packet, something_to_read, accept_pc>>
          ELSE LET r    == readOld
                   want == IF accept_pc = "read_hello" THEN "hello" ELSE "finished"
               IN /\ waiting' = "no"
                  /\ something_to_read' = r.something
                  /\ handshake_packet' = IF r.something THEN handshake_packet ELSE "none"
                  /\ IF r.got = want
                        THEN IF accept_pc = "read_hello"
                                THEN ssl_phase' = "init" /\ accept_pc' = "write_flight"
                                ELSE ssl_phase' = "done" /\ accept_pc' = "finish"
                        ELSE accept_pc' = "failed" /\ UNCHANGED ssl_phase
    /\ UNCHANGED <<handshake_state, first, name, tls_chunks, to_call, queue,
                   flight_writes, client, streams, records, fired>>

\* SSL_accept writes the server's flight, one writeOld() per BIO write,
\* then reads Finished.
WriteFlight ==
    /\ accept_pc = "write_flight"
    /\ writeOld(0, flight_writes + 1)
    /\ flight_writes' = flight_writes + 1
    /\ accept_pc' = IF flight_writes + 1 = FlightWrites THEN "read_finished"
                                                      ELSE "write_flight"
    /\ UNCHANGED <<ssl_phase, handshake_packet, something_to_read, waiting, name,
                   to_call, client, streams, fired>>

\* accept() after SSL_accept: the handshake interest is handed to the
\* socket's CACHE_MISS callback (cacheMiss) after handshake_packet_.reset(),
\* then handshake_state_ = SERVER_FINISHED.
AcceptFinish ==
    /\ accept_pc = "finish"
    /\ LET cm == cacheMiss("none")
       IN /\ something_to_read' = cm.something
          /\ waiting' = cm.waiting
    /\ handshake_packet' = "none"
    /\ handshake_state' = "SERVER_FINISHED"
    /\ accept_pc' = "done"
    /\ UNCHANGED <<ssl_phase, first, name, tls_chunks, to_call, queue,
                   flight_writes, client, streams, records, fired>>

\* A task writeOld() posted: tls_chunks_--, to_call_oncontentproduced_--,
\* produce the record under the current name_ (is_last when tls_chunks_
\* is 0), then CONTENT_PRODUCED when to_call_oncontentproduced_ is 0.
AsyncProduce ==
    /\ AsyncIdle /\ queue # <<>> /\ Head(queue) # AcceptTask
    /\ LET t == Head(queue)
       IN /\ queue' = Tail(queue)
          /\ tls_chunks' = tls_chunks - 1
          /\ to_call' = to_call - 1
          /\ records' = records \cup {[stream |-> t.stream, rec |-> t.rec,
                                       name |-> name, last |-> tls_chunks - 1 = 0]}
          /\ fired' = IF ContentProducedDue(to_call - 1) THEN fired + 1 ELSE fired
    /\ UNCHANGED <<ssl_phase, handshake_state, handshake_packet, something_to_read,
                   waiting, first, name, accept_pc, flight_writes, client, streams>>

\* Once it has the whole server flight, the client sends Finished to the
\* socket's prefix; it misses the output buffer and reaches cacheMiss().
ClientFinished ==
    /\ client = "hello_sent"
    /\ Cardinality({r \in records : r.stream = 0}) = FlightWrites
    /\ client' = "finished_sent"
    /\ LET cm == cacheMiss("finished")
       IN /\ handshake_state' = cm.hs
          /\ handshake_packet' = cm.packet
          /\ something_to_read' = cm.something
          /\ waiting' = cm.waiting
    /\ UNCHANGED <<ssl_phase, first, name, tls_chunks, to_call, queue, accept_pc,
                   flight_writes, streams, records, fired>>

\* An application interest reaches cacheMiss(); once SERVER_FINISHED the
\* application's callback produces a stream (before that the interest is
\* dropped and the client sends it again; with WaitForProduced the
\* application ignores it while a stream is unreported).
ClientRequest ==
    /\ client = "finished_sent"
    /\ Len(streams) < MaxStreams
    /\ LET cm == cacheMiss("app")
       IN /\ handshake_state' = cm.hs
          /\ handshake_packet' = cm.packet
          /\ something_to_read' = cm.something
          /\ waiting' = cm.waiting
          /\ IF cm.app /\ (WaitForProduced => fired = Len(streams))
                THEN \E n \in StreamSizes, l \in StreamLast : produceStream(n, l)
                ELSE UNCHANGED <<name, tls_chunks, to_call, queue, streams>>
    /\ UNCHANGED <<ssl_phase, first, accept_pc, flight_writes, client, records, fired>>

\* Every stream has been produced and reported.
Done ==
    /\ accept_pc = "done" /\ queue = <<>> /\ Len(streams) = MaxStreams
    /\ UNCHANGED vars

\* TLSProducerSocket(): something_to_read_(false), handshake_state_
\* (UNINITIATED), empty name_ and handshake_packet_, first_(true),
\* tls_chunks_(0), to_call_oncontentproduced_(0); a fresh SSL object.
Init ==
    /\ ssl_phase = "before"
    /\ handshake_state = "UNINITIATED"
    /\ handshake_packet = "none"
    /\ something_to_read = FALSE
    /\ waiting = "no"
    /\ first = TRUE
    /\ name = -1
    /\ tls_chunks = 0 /\ to_call = 0
    /\ queue = <<>>
    /\ accept_pc = "none"
    /\ flight_writes = 0
    /\ client = "start"
    /\ streams = <<>> /\ records = {} /\ fired = 0

Next ==
    \/ ParentOnHello \/ AcceptStart \/ ReadOld
    \/ WriteFlight \/ AcceptFinish \/ AsyncProduce
    \/ ClientFinished \/ ClientRequest \/ Done

\* Each thread runs its next step and the client keeps sending.
Fairness ==
    /\ WF_vars(ParentOnHello) /\ WF_vars(AcceptStart) /\ WF_vars(ReadOld)
    /\ WF_vars(WriteFlight) /\ WF_vars(AcceptFinish) /\ WF_vars(AsyncProduce)
    /\ WF_vars(ClientFinished) /\ WF_vars(ClientRequest)

Spec == Init /\ [][Next]_vars /\ Fairness

TypeOK ==
    /\ ssl_phase \in {"before", "init", "done"}
    /\ handshake_state \in HandshakeState
    /\ handshake_packet \in Message
    /\ something_to_read \in BOOLEAN
    /\ waiting \in {"no", "blocked", "woken"}
    /\ first \in BOOLEAN
    /\ name \in {-1} \cup Stream
    /\ tls_chunks \in -(MaxStreams + 1) * MaxRecords - FlightWrites .. MaxRecords + 1
    /\ to_call \in -(MaxStreams + 1) * MaxRecords - FlightWrites .. MaxRecords
    /\ queue \in Seq(Task)
    /\ accept_pc \in {"none", "read_hello", "write_flight", "read_finished",
                      "finish", "done", "failed"}
    /\ flight_writes \in 0 .. FlightWrites
    /\ client \in {"start", "hello_sent", "finished_sent"}
    /\ streams \in Seq([size : StreamSizes, last : StreamLast])
    /\ Len(streams) <= MaxStreams
    /\ records \subseteq [stream : Stream, rec : 1 .. Max({MaxRecords, FlightWrites}),
                          name : {-1} \cup Stream, last : BOOLEAN]
    /\ fired \in 0 .. MaxStreams + 1

-----------------------------------------------------------------------------
(* Properties.                                                             *)

\* Stream s is complete when every record SSL_write made of it is produced.
Complete(s) ==
    \A i \in 1 .. RecordsOf(streams[s].size) :
        \E r \in records : r.stream = s /\ r.rec = i

\* CONTENT_PRODUCED has run once for each stream all of whose records are
\* produced, and never for a stream still being written: the counters
\* produceStream sets and the tasks writeOld posts agree (spec.md 9:
\* "on-content-produced fires exactly once per user-visible stream").
CallbacksMatchStreams ==
    fired = Cardinality({s \in 1 .. Len(streams) : Complete(s)})

\* Every record of a stream is produced under that stream's name, and
\* is_last is set on the final record of a final stream and nowhere else.
RecordsProducedAsWritten ==
    \A r \in records : r.stream >= 1 =>
        /\ r.name = r.stream
        /\ r.last = (streams[r.stream].last
                     /\ r.rec = RecordsOf(streams[r.stream].size))

\* accept() never fails: readOld's single wait on cv_ always returns with
\* the handshake message SSL_accept expects.
HandshakeNeverFails == accept_pc # "failed"

\* The handshake completes: the hand-off of ClientHello and Finished from
\* the I/O thread to the blocked SSL_accept never stalls.
HandshakeCompletes == <>(handshake_state = "SERVER_FINISHED")

\* Every stream the application produces is eventually reported through
\* CONTENT_PRODUCED.
AllStreamsReported == <>(fired = MaxStreams)

=============================================================================
