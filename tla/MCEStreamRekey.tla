--------------------------- MODULE MCEStreamRekey ---------------------------
(* Model of a stream, its copy by ReplaceKeys and a Reader of the copy.     *)
EXTENDS EStreamRekey, TLC

CONSTANTS p1, p2, c1
MCPubKeys == {p1, p2}
MCNone    == {}
MCChunk   == {c1}
\* Two keys, or one key and an error block.
FewBlocks == nkeys + errors <= 2
Symmetry  == Permutations(MCPubKeys)
=============================================================================
