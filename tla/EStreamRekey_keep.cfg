SPECIFICATION Spec
CONSTANTS
  p1 = p1
  p2 = p2
  c1 = c1
  Bad = Bad
  Nil = Nil
  PubKeys <- MCPubKeys
  WeakKeys <- MCNone
  Chunks <- MCChunk
  MaxKeys = 2
  MaxStreams = 0
  MaxWrites = 1
  MaxErrors = 0
  MaxCloses = 1
  NonceMax = 3
  WriteFaults = FALSE
  Disciplined = TRUE
  MaxCalls = 0
  MaxSets = 1
  Careful = TRUE
INVARIANT KeptAsIs
CHECK_DEADLOCK FALSE
