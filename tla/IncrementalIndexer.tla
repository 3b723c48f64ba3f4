------------------------- MODULE IncrementalIndexer -------------------------
(***************************************************************************)
(* The incremental indexer of the consumer transport                      *)
(* (src/libtransport/src/protocols/incremental_indexer.h).               *)
(*                                                                         *)
(* It hands out download suffixes offset, offset+1, ... and reassembly    *)
(* suffixes in the same order, both bounded by the final suffix once that *)
(* is known.  Suffixes are uint32_t in the code; here they have           *)
(* SuffixBits bits and wrap modulo 2^SuffixBits, so that the sentinel     *)
(* std::numeric_limits<uint32_t>::max() is MaxSuffix.                     *)
(*                                                                         *)
(* The module holds the indexer's state and its methods as operators;     *)
(* ByteStreamConsumer composes them into the consumer's handlers, since   *)
(* every method is called from inside a handler of the transport.         *)
(***************************************************************************)
EXTENDS Naturals

CONSTANT SuffixBits   \* width of a name suffix (32 in the code)

ASSUME SuffixBits \in Nat \ {0}

Suffix    == 0 .. (2^SuffixBits - 1)
MaxSuffix == 2^SuffixBits - 1          \* std::numeric_limits<uint32_t>::max()

\* IndexManager::invalid_index is ~0, the same value as the "final suffix not
\* yet discovered" sentinel.
InvalidIndex == MaxSuffix

\* uint32_t increment, wrapping at the width of a suffix.
Inc(x) == (x + 1) % 2^SuffixBits

VARIABLES
    final_suffix,            \* final_suffix_
    next_download_suffix,    \* next_download_suffix_
    next_reassembly_suffix   \* next_reassembly_suffix_

indexer_vars == <<final_suffix, next_download_suffix, next_reassembly_suffix>>

IndexerTypeOK ==
    /\ final_suffix \in Suffix
    /\ next_download_suffix \in Suffix
    /\ next_reassembly_suffix \in Suffix

\* Constructor: final suffix unknown, both cursors at 0.
IndexerInit ==
    /\ final_suffix = MaxSuffix
    /\ next_download_suffix = 0
    /\ next_reassembly_suffix = 0

\* reset(offset): forget the final suffix, restart both cursors at offset.
\* Given as the indexer state it produces.
reset(offset) ==
    [final |-> MaxSuffix, download |-> offset, reassembly |-> offset]

\* getNextSuffix() evaluated on a download cursor and a final suffix:
\* <<returned suffix, cursor after the post-increment>>.  At the sentinel
\* the returned value equals InvalidIndex although the cursor still wraps.
getNextSuffix(cursor, final) ==
    IF cursor <= final THEN <<cursor, Inc(cursor)>>
                       ELSE <<InvalidIndex, cursor>>

\* Mutant: pre-increment (++next_reassembly_suffix_) instead of post-increment.
getNextReassemblySegmentPreInc(cursor, final) ==
    IF cursor <= final THEN <<Inc(cursor), Inc(cursor)>>
                       ELSE <<InvalidIndex, cursor>>

\* getNextReassemblySegment(), the same computation on the reassembly cursor.
getNextReassemblySegment(cursor, final) ==
    IF cursor <= final THEN <<cursor, Inc(cursor)>>
                       ELSE <<InvalidIndex, cursor>>

\* Mutant: the final-segment marker is not looked at.
LearnFinalIgnored(suffix, is_last) == final_suffix' = final_suffix

\* onContentObject(): the indexer learns the final suffix from a content
\* object carrying the final-segment marker, and leaves it alone otherwise.
LearnFinal(suffix, is_last) ==
    final_suffix' = IF is_last THEN suffix ELSE final_suffix

=============================================================================
