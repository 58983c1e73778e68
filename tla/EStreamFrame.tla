---------------------------- MODULE EStreamFrame ----------------------------
(***************************************************************************)
(* The length of a block (estream/writer.go, blockWriter.send, and          *)
(* streamWriter.Write).  The integers of the code are 32 bits wide; here    *)
(* they have the width 2^Bits, and BinHead is the header of a bin array (5  *)
(* bytes for bin32).  One action per Write of n bytes; a reader that skips  *)
(* goes by the declared lengths.                                            *)
(***************************************************************************)
EXTENDS Naturals, Sequences, SequencesExt

CONSTANTS
  Bits,       \* width of the length field
  BinHead,    \* bytes before the data in a data block
  MaxLen,     \* bound: the largest buffer given to Write
  MaxBlocks   \* bound: calls of Write

VARIABLES
  blocks,  \* the data blocks sent: declared and actual length
  ferr     \* Writer.err # nil

Init == blocks = <<>> /\ ferr = FALSE

UInt(n) == n % 2^Bits

\* writer.go:339-343: the length is converted before it is compared.
TooLong(len) == UInt(len) > 2^Bits - 1

Write(n) ==
  LET len == BinHead + n IN
  /\ Len(blocks) < MaxBlocks /\ ~ferr
  /\ IF TooLong(len)
     THEN ferr' = TRUE /\ UNCHANGED blocks
     ELSE blocks' = Append(blocks, [declared |-> UInt(len), actual |-> len])
          /\ UNCHANGED ferr

Next == \E n \in 0..MaxLen : Write(n)
Spec == Init /\ [][Next]_<<blocks, ferr>>

\* README.md:150: "Maximum block size is 2^32-1 (4294967295) bytes", and
\* README.md:148, the length "indicates the number of bytes to skip": a block
\* whose length cannot be declared is refused (blockWriter.send).
BlockLengthFits ==
  \A i \in DOMAIN blocks : blocks[i].actual = blocks[i].declared
=============================================================================
