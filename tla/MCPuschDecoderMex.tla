------------------------- MODULE MCPuschDecoderMex -------------------------
(* PuschDecoderMex on small instances: two objects, three addresses. *)
EXTENDS PuschDecoderMex, TLC

CONSTANTS d1, d2, t1, t2, b1

MCDecoders == {d1, d2}
MCBufIds == {b1}
MCBlocks == {t1, t2}
MCKeys == 1..3

\* t1 and t2 are segmented alike, so that they can meet in one buffer.
MCSameSize == [t \in MCBlocks |-> 1]

\* t2 needs two codeblocks, more than the smaller pool has.
MCTwoSizes == [t \in MCBlocks |-> IF t = t1 THEN 1 ELSE 2]

MCOneConfig == {[bufs |-> 1, cbs |-> 1]}
MCConfigs == {[bufs |-> 1, cbs |-> 1], [bufs |-> 1, cbs |-> 2]}
=============================================================================
