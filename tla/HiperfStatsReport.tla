-------------------------- MODULE HiperfStatsReport --------------------------
(***************************************************************************)
(* The consumer's TransportStatistics block (statistics.h), written by the *)
(* transport as it sends interests and receives data and NACKs, and the    *)
(* periodic STATS_SUMMARY callback of hiperf's client                      *)
(* (HIperfClient::handleTimerExpiration), which reports per-interval       *)
(* deltas as the difference between each counter and the value it saved   *)
(* at the previous report.                                                 *)
(*                                                                         *)
(* Counters keep the code's widths: uint64_t and uint32_t are W64 and W32  *)
(* bits (W64 = 2 * W32), with W32 scaled down from 32.  The moving         *)
(* averages (RTT, window, pending packets) only feed printed columns and   *)
(* are left out.  Which transport event updates which counter is modelled  *)
(* from spec.md 4.F/4.G/4.J; the transport resets its statistics when it   *)
(* starts.  All of this runs on the consumer's I/O thread.                 *)
(***************************************************************************)
EXTENDS Naturals

CONSTANTS
    W32,        \* width of uint32_t (32 in the code)
    MaxEvents   \* model bound: transport events in one behaviour

ASSUME W32 \in Nat \ {0} /\ MaxEvents \in Nat

W64 == 2 * W32

Counter == {"bytes", "lost", "nacks", "retx", "interests"}

\* Width of each TransportStatistics counter and of hiperf's saved value.
StatWidth == [bytes |-> W64, lost |-> W64, nacks |-> W32, retx |-> W64,
              interests |-> W64]
OldWidth  == [bytes |-> W64, lost |-> W64, nacks |-> W32, retx |-> W32,
              interests |-> W32]

VARIABLES
    started,   \* the transport has started (and reset its statistics)
    stats,     \* TransportStatistics counters: Counter -> value
    old,       \* hiperf's old_*_value_ fields: Counter -> value
    since,     \* events of each kind since the previous report
    report,    \* deltas printed by the last report (0 before the first)
    truth,     \* events of each kind in the interval the last report covers
    events     \* transport events so far

vars == <<started, stats, old, since, report, truth, events>>

\* HIperfClient's constructor: every old_*_value_(0).
Zero     == [c \in Counter |-> 0]

TypeOK ==
    /\ started \in BOOLEAN
    /\ stats \in [Counter -> 0 .. 2^W64 - 1]
    /\ \A c \in Counter : stats[c] < 2^StatWidth[c] /\ old[c] < 2^OldWidth[c]
    /\ old \in [Counter -> 0 .. 2^W64 - 1]
    /\ since \in [Counter -> 0 .. MaxEvents]
    /\ report \in [Counter -> 0 .. 2^W64 - 1]
    /\ truth \in [Counter -> 0 .. MaxEvents]
    /\ events \in 0 .. MaxEvents

-----------------------------------------------------------------------------
(* TransportStatistics.                                                    *)

\* updateBytesRecv / updateLostData / updateRetxCount / updateInterestTx
\* (uint64_t += ) and updateReceivedNacks (uint32_t +=).
update(c, n) == [stats EXCEPT ![c] = (@ + n) % 2^StatWidth[c]]

\* reset(): every counter back to 0.
reset == Zero

-----------------------------------------------------------------------------
(* hiperf's report.                                                        *)

\* Mutant: the counters are saved without the (uint32_t) conversion.
SaveOldUnconverted(s, o) == s

\* Mutant: the saved NACK count is not refreshed after a report.
SaveOldKeepNacks(s, o) ==
    [c \in Counter |-> IF c = "nacks" THEN o[c] ELSE s[c] % 2^OldWidth[c]]

\* old_bytes_value_ = stats.getBytesRecv(); ...;
\* old_retx_value_ = (uint32_t)stats.getRetxCount(); ...
SaveOld(s, o) == [c \in Counter |-> s[c] % 2^OldWidth[c]]

\* Width a column is computed in: the wider of its two operand types
\* (uint32_t - uint32_t stays uint32_t).
ColumnWidth(c) == IF StatWidth[c] = W64 \/ OldWidth[c] = W64 THEN W64 ELSE W32

\* A printed column: stats.getX() - old_x_value_.
Delta(s, o, c) == (s[c] - o[c]) % 2^ColumnWidth(c)

\* handleTimerExpiration(): print the deltas, then save the counters.
handleTimerExpiration ==
    /\ started
    /\ report' = [c \in Counter |-> Delta(stats, old, c)]
    /\ truth' = since
    /\ old' = SaveOld(stats, old)
    /\ since' = Zero
    /\ UNCHANGED <<started, stats, events>>

-----------------------------------------------------------------------------
(* The transport (spec 4.F/4.G/4.J).                                       *)

\* The transport starts and resets its statistics block.
TransportStart ==
    /\ ~started
    /\ started' = TRUE
    /\ stats' = reset
    /\ UNCHANGED <<old, since, report, truth, events>>

\* One transport event: a data packet (bytes), a reported loss, a NACK, a
\* retransmitted interest (which is also an interest sent), an interest.
TransportEvent(c) ==
    /\ started
    /\ events < MaxEvents
    /\ events' = events + 1
    /\ IF c = "retx"
          THEN /\ stats' = [update(c, 1) EXCEPT !["interests"] =
                                (@ + 1) % 2^StatWidth["interests"]]
               /\ since' = [since EXCEPT !["retx"] = @ + 1, !["interests"] = @ + 1]
          ELSE /\ stats' = update(c, 1)
               /\ since' = [since EXCEPT ![c] = @ + 1]
    /\ UNCHANGED <<started, old, report, truth>>

\* HIperfClient fields as constructed: every old_*_value_(0); the
\* statistics block as constructed: every counter 0.
Init ==
    /\ started = FALSE
    /\ stats = Zero
    /\ old = Zero
    /\ since = Zero
    /\ report = Zero
    /\ truth = Zero
    /\ events = 0

Next ==
    \/ TransportStart
    \/ \E c \in Counter : TransportEvent(c)
    \/ handleTimerExpiration

Spec == Init /\ [][Next]_vars

-----------------------------------------------------------------------------
(* Properties.                                                             *)

\* The bytes, lost-data and NACK columns of every report equal the events
\* of that kind in the interval (modulo the column's width), also once the
\* 32-bit NACK counter has wrapped: handleTimerExpiration's subtraction and
\* the values it saves agree.
ReportedDeltasExact ==
    \A c \in {"bytes", "lost", "nacks"} : report[c] = truth[c] % 2^ColumnWidth(c)

\* The InterestSent column equals the interests sent in the interval
\* (modulo the column's width), however many were sent before it.
InterestSentDeltaExact ==
    report["interests"] = truth["interests"] % 2^ColumnWidth("interests")

=============================================================================
