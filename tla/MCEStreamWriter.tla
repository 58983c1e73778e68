-------------------------- MODULE MCEStreamWriter --------------------------
(* Model of the Writer for TLC: two key pairs, one of them too small.       *)
EXTENDS EStreamWriter

CONSTANTS p1, weak, c1, c2
MCPubKeys  == {p1, weak}
MCWeakKeys == {weak}
MCChunks   == {c1}
MCChunks2  == {c1, c2}
=============================================================================
