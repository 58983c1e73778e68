SPECIFICATION Spec
CONSTANTS
  p1 = p1
  p2 = p2
  c1 = c1
  c2 = c2
  Bad = Bad
  PubKeys <- MCPubKeys
  WeakKeys <- MCNone
  Chunks <- MCChunk
  MaxKeys = 2
  MaxStreams = 2
  MaxWrites = 1
  MaxErrors = 0
  MaxCloses = 1
  NonceMax = 3
  WriteFaults = FALSE
  Disciplined = TRUE
  MaxCalls = 12
  MaxSets = 1
  Careful = TRUE
  MaxForeign = 0
  Harms <- MCNone
INVARIANTS ReaderTypeOK OpenedWithItsKey
PROPERTY ArchiveSpec
CHECK_DEADLOCK FALSE
