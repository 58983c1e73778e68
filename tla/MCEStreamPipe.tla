--------------------------- MODULE MCEStreamPipe ---------------------------
(* Model of Writer and Reader for TLC.                                      *)
EXTENDS EStreamPipe

CONSTANTS p1, p2, c1, c2
MCPubKeys  == {p1, p2}
MCPubKey   == {p1}
MCNone     == {}
MCChunks   == {c1, c2}
MCChunk    == {c1}
MCCut      == {"cut"}
MCHarms    == {"cut", "damage"}
\* One of: the bytes break off, a block is damaged, an error block, a block of
\* a newer version.
OneTrouble == Cardinality(harm) + errors + foreign <= 1
=============================================================================
