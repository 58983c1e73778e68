SPECIFICATION Spec
CONSTANTS
  p1 = p1
  weak = weak
  c1 = c1
  c2 = c2
  PubKeys <- MCPubKeys
  WeakKeys <- MCWeakKeys
  Chunks <- MCChunks
  MaxKeys = 2
  MaxStreams = 2
  MaxWrites = 2
  MaxErrors = 1
  MaxCloses = 2
  NonceMax = 3
  WriteFaults = TRUE
  Disciplined = TRUE
INVARIANTS TypeOK WellFormed AckedComplete CloseVouches
PROPERTY NothingAfterFailure
CHECK_DEADLOCK FALSE
