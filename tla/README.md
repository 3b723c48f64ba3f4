# TLA+ models of hicn-test (libtransport + hiperf)

This directory holds TLA+ models of the parts of the repository that have
state machines worth model checking, the TLC configurations that check them,
and `PROJECT.json`. `PROJECT.json` records the components, the runs, the
mutants, the source lines each definition translates, the findings and the
hazards.

## The system

The repository is a slice of hICN's transport library (libtransport) and
of its `hiperf` benchmark tool. Sources:

| Part | Source | What it is |
|---|---|---|
| IncrementalIndexer | `protocols/incremental_indexer.h` | hands out the next suffix to request (`next_download_suffix_`) and to reassemble (`next_reassembly_suffix_`) up to `final_suffix_` |
| ManifestIncrementalIndexer | `protocols/manifest_incremental_indexer.h` | the manifest variant; only its conversion constructor is present |
| RTC transport, production protocol | `protocols/rtc/rtc.h`, `protocols/production_protocol.h` | class declarations only |
| TransportStatistics | `interfaces/statistics.h` | counters and EWMAs reported to the application |
| TLSProducerSocket | `implementation/tls_socket_producer.cc` | a producer that runs a TLS handshake over interests on a handshake thread |
| LocalConnector | `core/local_connector.cc` | in-process connector that posts packets to the receive callback |
| hiperf | `utils/src/hiperf.cc` | client (byte stream or RTC, test-mode audit, periodic statistics) and server (static, live/asynchronous or RTC production; interactive toggle; trace-driven rates) |
| errors.h, vpp_forwarder_module.h, crypto_hash_type.h, move_wrapper.h | | declarations |

The consumer transport, the portal, the PIT, the reassembly and the
producer's output buffer are not under `src/`. Where a model needs them as
the environment of code that is under `src/`, they are modelled from
`spec.md`, and their definitions are marked `spec_modelled` in the map.

How the parts interact:
- Consumer side. The transport asks the indexer for suffixes, sends interests
  and receives content objects. It hands every content object to the
  application's `CONTENT_OBJECT_INPUT` callback: in hiperf's RTC test mode
  this is the audit `checkReceivedRtcContent`. The reassembly pulls suffixes
  from the indexer in order.
- Producer side. hiperf's server feeds a producer socket. In RTC mode a
  timer calls `produceDatagram` once per tick; live mode uses a cache-miss
  callback that starts asynchronous production.
- Threads. Everything above runs on one I/O thread per socket. The TLS
  producer is the exception: its handshake runs on a separate thread that
  waits on a condition variable fed by the I/O thread.

## Modules

### IncrementalIndexer.tla

Translates `incremental_indexer.h`:
- the three cursors, as `VARIABLES`;
- `reset`;
- `getNextSuffix` and `getNextReassemblySegment`, as operators returning
  (value, new cursor).

Suffixes are `SuffixBits`-bit integers that wrap modulo `2^SuffixBits`. The
code uses 32 bits; the models use 3, since TLC's integers are 32-bit
signed. `MaxSuffix` is the all-ones sentinel, which is also `invalid_index`.
`LearnFinal` is the final-suffix update of `onContentObject`, which is not
under `src/`.

### ByteStreamConsumer.tla (+ MCByteStreamConsumer.tla)

The byte-stream download loop around the indexer:
- `Start`: `reset(offset)`, then fill the CBR window.
- `OnData`: PIT match, final-suffix marker, greedy reassembly, then either
  read_success or refilling the window.
- `Timeout`: retransmit below `MaxRetx`. At the limit, release the slot; the
  first interest with nothing received reports "producer unreachable".
- A producer that serves `NumSegments` segments.
- A network that loses up to `MaxDrops` packets and reorders all of them.
- `SpuriousTimeouts` lets a timer fire while the packet is still in flight,
  which produces duplicates.

Every handler runs to completion on the consumer's I/O thread, so each is
one action. `Schedule` and `Assemble` are RECURSIVE operators for the two
loops.

### HiperfRtcCheck.tla (+ MCHiperfRtcCheck.tla)

hiperf in RTC test mode, translated from `hiperf.cc`:
- `run()`: which production the server starts is chosen in `Init` from
  `Modes`: the rate timer, `-I` (nothing until the first input line), or
  `-T` (a trace file, given as the parsed `Trace` constant).
- `sendRTCContentObjectCallback`: one datagram per timer tick, of the
  payload's length capped at 1400.
- `sendRTCContentObjectCallbackWithTrace`: one datagram of the current
  trace entry's size, clamped to the payload and to 1400 (`TracePacketLen`),
  then `trace_index_` steps round the trace. Time is not modelled, so the
  timestamp difference only means the next step is enabled again.
- `handleInput`: the `-I` stop/start toggle.
- `checkReceivedRtcContent`, every branch: NACK with rate 0, behind,
  window-too-large or probe; data ahead, behind or in order.

The length of every produced datagram is kept (`lens`). The audit sees that
length plus the RTC header (`RtcHeaderLen`); a 16-byte result is read as a
NACK, with arbitrary bytes. `MCHiperfRtcCheck` holds the trace files, since
a TLC configuration cannot write records.

The environment is modelled from spec.md 4.G/4.H:
- The RTC producer serves `[prod_seg - buffer, prod_seg]` from its output
  buffer. Anything else gets a NACK carrying the last produced segment and
  the rate; the rate is 0 before production starts or while it is stopped.
- The RTC consumer requests suffixes in order, retransmits a bounded number
  of missing ones, sends probes, and jumps forward on a "behind" NACK.
- The network loses and reorders packets.

### HiperfLiveProducer.tla

hiperf's server with `-r -l` (live) or by default (virtual), translated from
`hiperf.cc`:
- `Init` is `setup()`: `CACHE_MISS` is `asyncProcessInterest` (live) or
  `virtualProcessInterest` (virtual, output buffer of size 0).
- `asyncProcessInterest`: switch `CACHE_MISS` to `cacheMiss`, reset on
  suffix 0, pick the chunk start with libstdc++'s `std::lower_bound`
  (`LowerBound`, RECURSIVE) over `unsatisfied_interests_`, erase before it,
  and start `produceContentAsync`.
- `cacheMiss` appends the suffix; `onContentProduced` re-installs
  `asyncProcessInterest`.
- `virtualProcessInterest` replies to the interest at once.

The producer socket's miss dispatch, its asynchronous worker (one segment
at a time, last-segment pointer published after each, `CONTENT_PRODUCED`
posted at the end) and a windowed, retransmitting consumer are modelled
from spec.md 4.F/4.H.

The consumer downloads `Total` segments across several chunks. `produceContentAsync` passes
`is_last = !multiphase_produce_`, so this is the server run with `-x`.
Without `-x`, every chunk ends with a final-segment marker, and a download
is a single chunk.

### HiperfStatsReport.tla

`TransportStatistics` (`statistics.h`) and hiperf's periodic report
(`handleTimerExpiration`). Every counter keeps its declared width: uint64 is
`2 * W32` bits, uint32 is `W32` bits, scaled down from 32. `update` and
`reset` are the statistics methods. `SaveOld` is the saving of
`old_*_value_`, with its `(uint32_t)` casts. `Delta` is a printed column,
computed in the wider operand type. The transport events that drive the
counters follow spec.md 4.F/4.G/4.J. The EWMAs only feed printed columns.

### TLSProducerSocket.tla

`tls_socket_producer.cc`, three threads over shared fields:
- I/O thread. `ParentOnHello` is the parent's `onInterest` followed by
  `async_accept`. `ClientFinished` and `ClientRequest` are `cacheMiss` of the
  client's Finished and application interests. The application's
  `produceStream` is part of `ClientRequest`.
- `async_thread_`. `AcceptStart`, `ReadOld`, `WriteFlight` and
  `AcceptFinish` are `accept()`. `ReadOld` is `readOld` blocking on `cv_`
  while `something_to_read_` is false. `AsyncProduce` runs a record task
  posted by `writeOld`.
- `waiting` is the condition variable's wait set: blocked, or woken by
  `notify_one`. `queue` is `async_thread_`'s task queue.

Chunk counting follows the code's arithmetic. `tls_chunks_ =
ceil((float)size / SSL3_RT_MAX_PLAIN_LENGTH) (+1 unless last)`, where the
float conversion rounds to nearest with ties to even (`ToFloat`, with
`BitLen` RECURSIVE). Both widths are scaled: `RecordLen` 2 for 2^14 and
`Mantissa` 3 for 24 bits, which keeps the ratio that makes rounding matter.
OpenSSL (it reads ClientHello, writes the flight, reads Finished, and writes
`ceil(n / RecordLen)` records), the parent socket and the client come from
spec.md 4.H/5/9.

`SpuriousTimeouts` is a subset of `BOOLEAN`, and `spurious` is a variable
chosen in `Init` and never changed. It lets one run check the behaviours
with and without spurious timers. The properties that need exact timers are
stated as `~spurious => ...`.

### TLSHicnKeyId.tla

This module is `TLSProducerSocket::addHicnKeyIdCb`, the handshake extension
that gives a client a key-id prefix. The addresses are functions from bit
positions to symbolic bits: bit i of the name, bit j of the key id, or an
unwritten buffer bit.
- `OutAddress` copies `prefix_len / 8` bytes of the name, then the 4 key-id
  bytes. This is the `ip_prefix_t` that the client receives.
- `Graft` is `Prefix::getName` with a mask over word `prefix_len / 32`. This
  is what the producer registers. `getName` is not under `src/`, and the
  module follows spec.md 4.A for it.
- `addHicnKeyIdCb` throws if the namespace leaves no room for 32 bits.
  Otherwise it fills and registers both prefixes, each of length
  `prefix_len + 32`.

### ByteStream.tla (the abstract specification)

This is what a consumer socket promises the application (spec.md 4.F):
- the application reads a growing prefix of the content's segments, in
  order and without repetition;
- read_success comes only once everything has been read;
- read_error comes only before anything has been read;
- nothing happens after either.

`ByteStreamConsumer` implements it under a refinement mapping:
- `read` is the sequence of delivered segments;
- `result` follows `status`.

`ByteStreamRefinement` (`Abstract!Spec`) is checked as a property. It covers
both the spurious and the non-spurious behaviours.

### HiperfCommandLine.tla (+ MCHiperfCommandLine.tla)

hiperf's `main()`:
- `Init`: `argv` is any sequence of at most `MaxArgs` options, with or
  without a name after them. `role` and `options` start at 0, and both
  configurations start at their constructors' defaults.
- `GetOpt`: one iteration of the getopt loop with the case it runs.
  - `-S` and `-C` count the role (`RoleOf`).
  - Client-specific options set `options = 1`, and server-specific ones set
    `options = -1` (`OptionsOf`).
  - `-R`, `-I`, `-T`, `-r`, `-l`, `-t` and `-P` set the configuration
    fields that the server's `setup()`/`run()` or the client branch on.
  - An option without a case (`-v`, `-h`, unknown letters) prints the usage.
  - A `-B` rate that does not contain "kbps" after `tolower` throws out of
    `main`, and the program terminates.
- `EndOfOptions`: the three checks (`Rejected`), the name check, then
  client or server.
- `ServerStart` is `HIperfServer::setup()` followed by `run()`. It
  records the production that they start: `RunMode` for an RTC server (the
  branches of `run()`), `ProducerKind` otherwise (the branches of
  `setup()`).
- `ClientStart` is `HIperfClient::setup()` followed by `run()`. It records
  what setup installs:
  - the transport protocol (`ClientProtocol`: RTC, else RAAQM for a
    negative window, else CBR);
  - whether `-b` was applied (RAAQM only);
  - the read callback;
  - whether `checkReceivedRtcContent` audits, which needs RTC and test mode.

The properties compare the outcome with references written from `argv`
directly. The references use `SelectSeq`, `SelectInSeq` and
`SelectLastInSeq` rather than the loop.

## Runs

| Run | Checks | Shows |
|---|---|---|
| consumer_safety | TypeOK, NoSegmentAbandonedExactTimers, ByteStreamRefinement, DownloadCompletes | the consumer implements `ByteStream` under loss, reordering and spurious timeouts; with exact timers and at most `MaxRetx` losses, no segment is abandoned and the download completes (89k states) |
| rtc_audit | TypeOK, LossReportsSound, LossReportsComplete | with no evictions, the audit's lost set is exactly the missing segments after the first, for interactive and trace-driven production (2.5M states, about 1 minute) |
| rtc_resync (violation) | LossReportsSound | a NACK for an evicted segment sets `expected_seg_ = productionSeg`, not `+ 1` as the log line says, and the audit then reports a received segment as lost (hiperf.cc:295) |
| live_production | TypeOK, AllReceived | live and virtual production both eventually serve every segment, even when interests miss while a chunk is being produced |
| live_chunk_start (violation) | ChunkStartsAtSmallestUnsatisfied | `cacheMiss` appends in arrival order, so `lower_bound` over the unsorted vector starts the chunk past the smallest unsatisfied suffix (hiperf.cc:901) |
| stats_deltas | TypeOK, ReportedDeltasExact | the bytes, lost and NACK columns equal the interval's events, including across the uint32 NACK counter's wrap |
| stats_interests (violation) | InterestSentDeltaExact | `old_sent_int_value_` is saved as uint32 but subtracted from a uint64 counter: after 2^32 interests the column is off by 2^32 (hiperf.cc:483) |
| tls_handshake | TypeOK, CallbacksMatchStreams, RecordsProducedAsWritten, HandshakeNeverFails, HandshakeCompletes, AllStreamsReported | the cv_ hand-off completes the handshake; two streams produced one after the other are recorded under their names, marked last correctly and reported once |
| tls_two_streams (violation) | CallbacksMatchStreams | a second `produceStream` before the first stream's record tasks ran resets the shared counters and name: after a 3-byte (2-record) stream and then a 1-byte one, `to_call_oncontentproduced_` is 1, so the first stream's first record fires CONTENT_PRODUCED while neither stream is complete, under the second stream's name (tls_socket_producer.cc:362) |
| cmdline | TypeOK, ExitAsCommandLine, ServerProducerAsOptions, ClientProtocolAsOptions | for every command line of up to 4 options over 15 choices, main() stops with the usage at the first unknown option and terminates at the first unparsable `-B`, exits with the usage when the role counts cancel out or no name is given, and starts the role the sign of the `-C`/`-S` count selects; a non-RTC server's producer is virtual unless `-r`, and live only with `-r -l`; the client runs RTC under `-R`, else CBR if the last `-W` is not negative, else RAAQM; `-b` is applied only under RAAQM, and the RTC audit only with `-t` (527k states, 14 s) |
| tls_key_id (violation) | KeyIdPrefixAgrees | for a namespace of 16, 48 or 80 bits (longer ones throw), the prefix `addHicnKeyIdCb` registers (key id grafted into word `len / 32`) is not the prefix it sends the client (key id after byte `len / 8`); they agree only for multiples of 32 (tls_socket_producer.cc:442) |
| tls_large_stream (violation) | RecordsProducedAsWritten | `(float)buf_size` rounds 2^24 + 1 bytes down, the stream is counted one record short and `is_last` lands on the wrong record (tls_socket_producer.cc:363) |

Each property of a passing run has a mutant in `PROJECT.json`: a plausible
bug in the definition the property depends on, which TLC must catch.

Bounds:
- Consumer: `SuffixBits = 3`, `Window = 2`, 3 segments, 1 retransmission
  and 1 drop. `MaxRequests` caps the suffixes handed out.
  These suffice for a window smaller than the content, for out-of-order
  arrival of the final marker, and for a retransmission racing its original.
- RTC: 4 segments, a buffer of 4 (audit) or 1 (resync), one retransmission,
  one probe and one drop. These suffice for a loss followed by a recovery, a
  duplicate, a probe reply and a stop/start. Reaching the eviction case
  needs at least 3 segments. The trace has two entries of different sizes,
  so the index wraps within 4 segments.
- Live: 4 segments in chunks of 2 (or 1) with a window of 2 (or 3), and at
  most 2 interests recorded per chunk. This is enough for a miss during
  production and for misses arriving out of order.
- Statistics: `W32 = 2`, 6 events, so the uint32 counters wrap.
- Command line: 4 options, enough for a role plus `-R -I -T` or `-r -l`,
  and for a client option overridden by a server one, and for `-W` followed
  by `-b` or `-R`. The 15 choices are `-S`, `-C`, `-R`, `-t`, `-P`, `-r`,
  `-l`, `-I`, `-T`, `-b`, `-W 0`, `-W 4`, two `-B` rates (`KBPS`, accepted
  after `tolower`; `Mbps`, refused) and `-v`. `-W 0` is the boundary
  between RAAQM (negative) and CBR.
- Key id: IPv6 and IPv4 namespaces of every length that is a multiple of
  16, so both the aligned (multiple of 32) and the misaligned cases occur
  in each family.
- TLS: `RecordLen = 2`, `Mantissa = 3`, sizes 1, 2, 3 and 5 (exact as
  floats) or 9 (rounded, like 2^24 + 1), and two streams.

Fairness:
- consumer_safety's `DownloadCompletes` assumes weak fairness of start,
  delivery, reception and timer actions. The event loop runs every ready handler, and asio timers
  fire.
- live_production assumes weak fairness of the producer's handlers, the
  worker, and the consumer's requests and retransmission timers.
- tls_handshake assumes weak fairness of every thread's steps and of the
  client's interests. A woken thread runs, and the client retransmits
  until it is answered.

Observations that need no separate run:
- The command line follows the usage text less strictly than the text
  suggests. Each point below is a hazard in `PROJECT.json`.
  - A client option followed by a server option is accepted for a server,
    and `-P` and `-t`, listed as client specific, never set `options`:
    `-S -P name` and `-S -t -r name` start a server although line 1596
    says client options cannot be used in server mode.
  - With `-I` and `-T`, the last one wins, although the text (1341-1342)
    says `-T` ignores `-I`: `-S -R -T -I name` starts interactive mode.
  No passing run checks these two rules: a property stating the code's
  rule would certify what the usage text contradicts, and the text's rule
  would be a violation run, for which there is no slot left beside the
  code bugs. `ExitAsCommandLine` therefore leaves out whether an option of
  the other side is refused.
  - `-l` without `-r` is ignored.
  - `-b` after `-W` or `-R` is accepted and then ignored.
  - `-W 0` selects CBR with a window of 0. With `in_flight <= current_window`
    (spec.md 4.F), that client never sends an interest. There is no run
    for this: the CBR loop is not under `src/`.
- In consumer_safety's first behaviour set (spurious timers),
  `NoSegmentAbandoned` without the exact-timer premise fails. A spurious
  timeout can exhaust a segment's retransmissions, and the slot is released
  while the reassembly still waits for the segment. spec.md does not say
  what happens then, so this is recorded in the hazard at
  incremental_indexer.h:101 rather than as a run.
  - The final `else usage()` in `main` is unreachable, because the third
    check already rejects a zero role. Dropping that check is therefore not
    a mutant that any property can see.
- With `FlightWrites = 2`, the first flight write is produced synchronously.
  The second one is posted to `async_thread_`, which is still inside
  `accept()`, so it runs only after `SSL_accept` returns. That return
  needs the client's Finished, which needs the whole flight, so
  `HandshakeCompletes` fails.
- `readOld` waits with `if (!something_to_read_) cv_.wait(lck)`, not in a
  loop. A spurious wake-up makes `SSL_read` return 0 and the handshake
  fails. The runs do not include spurious wake-ups.

## Plan (remaining)

1. LocalConnector: send/close/posted callback.
2. ManifestIncrementalIndexer's conversion constructor.
3. A second consumer in the live model (the reset on suffix 0).
4. The incremental indexer near the 2^32 wrap; a 16-byte datagram in the
   RTC audit.

## Not modelled

- The portal, packet formats, signing and verification, and the forwarder
  and VPP I/O module: these are I/O and cryptography, not under `src/`.
- RTC rate control, and time (timer durations, trace timestamps).
- Delay and rate statistics printed by the audit and the report: logging.
- The final-segment marker of live chunks (see HiperfLiveProducer.tla).
- `HIperfClient`'s read callbacks. `RTCCallback` announces a 1500-byte read
  buffer but hands out the one `Callback` created (`-M` bytes). The
  transport that fills it is not under `src/` (hazard at hiperf.cc:672).
- The virtual producer's 256-entry object pool, and static production
  (`produceContent` in `setup`, before any interest).
- Command-line option values that only fill fields nothing branches on
  (sizes, paths, passwords, log file, daemon, I/O module), and getopt's
  missing-argument error.
- `TLSProducerSocket`'s socket-option setters. They only store values.
- A `setSocketOption` failure inside the client's or server's `setup()`.
  These options are only refused on a socket in the wrong state, which
  `main` never creates.
- The SERVER_FINISHED branch of `TLSProducerSocket::onInterest`
  (tls_socket_producer.cc:283-303). It runs only when an interest reaches the
  parent `P2PSecureProducerSocket`'s handshake name after the handshake, for
  example a retransmitted ClientHello. The parent is not in this repository,
  and spec.md does not say what it does with such an interest (whether it
  calls `onInterest` again, and whether it calls `async_accept` again). A
  model of the branch would therefore be invented, not translated.
- The `BIO` adaptors `write`/`read` (size clamp to `INT_MAX`), the empty
  `parseHicnKeyIdCb`/`freeHicnKeyIdCb` and `getSocketOption`. They change no
  state the models distinguish.
- Eviction from the producer's output buffer. When hiperf's live server is
  given a bounded FIFO buffer (spec.md 4.H), TLC finds a livelock. The
  consumer has suffixes 0 and 3 outstanding, and the chunks produced for them
  evict each other. A retransmission of the evicted suffix 0 resets
  `last_segment_` (hiperf.cc:892), so production starts over. To happen, this
  needs more than `OUTPUT_BUFFER_SIZE` (200000, set in `setup()`) stores
  within one interest lifetime. The code does not bound this timing, so the
  checked model keeps an unbounded buffer (a set). The reset hazard at
  hiperf.cc:892 records this.
