SPECIFICATION Spec
CONSTANTS
  p1 = p1
  weak = weak
  c1 = c1
  c2 = c2
  PubKeys <- MCPubKeys
  WeakKeys <- MCWeakKeys
  Chunks <- MCChunks
  MaxKeys = 2
  MaxStreams = 2
  MaxWrites = 1
  MaxErrors = 0
  MaxCloses = 1
  NonceMax = 3
  WriteFaults = TRUE
  Disciplined = FALSE
INVARIANTS NonceUnique SealedWithLatestKey OneEOSPerStream
CHECK_DEADLOCK FALSE
