------------------------ MODULE MCByteStreamConsumer ------------------------
(* Model-checking instance of ByteStreamConsumer: 3-bit suffixes, a content  *)
(* of three segments fetched with a window of two, so that one interest is  *)
(* issued past the end before the final marker is seen, one retransmission *)
(* per suffix and one lost packet, with and without early timers.        *)
EXTENDS ByteStreamConsumer

MCSuffixBits  == 3
MCOffset      == 0
MCNumSegments == 3
MCWindow      == 2
MCMaxRetx     == 1
MCMaxDrops    == 1
MCMaxRequests == 4

=============================================================================
