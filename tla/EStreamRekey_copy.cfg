SPECIFICATION Spec
CONSTANTS
  p1 = p1
  p2 = p2
  c1 = c1
  Bad = Bad
  Nil = Nil
  PubKeys <- MCPubKeys
  WeakKeys <- MCNone
  Chunks <- MCChunk
  MaxKeys = 2
  MaxStreams = 1
  MaxWrites = 1
  MaxErrors = 1
  MaxCloses = 1
  NonceMax = 3
  WriteFaults = FALSE
  Disciplined = TRUE
  MaxCalls = 4
  MaxSets = 1
  Careful = TRUE
SYMMETRY Symmetry
INVARIANTS CopyReadsAsOriginal CopyOpensAsAnswered NilMeansWholeCopy
CONSTRAINT FewBlocks
CHECK_DEADLOCK FALSE
