SPECIFICATION FairSpec
CONSTANTS
  p1 = p1
  p2 = p2
  c1 = c1
  c2 = c2
  Bad = Bad
  PubKeys <- MCPubKey
  WeakKeys <- MCNone
  Chunks <- MCChunk
  MaxKeys = 1
  MaxStreams = 1
  MaxWrites = 2
  MaxErrors = 1
  MaxCloses = 1
  NonceMax = 3
  WriteFaults = FALSE
  Disciplined = TRUE
  MaxCalls = 6
  MaxSets = 1
  Careful = TRUE
  MaxForeign = 1
  Harms <- MCHarms
INVARIANTS ReceivedIsPrefix CompleteIsIntact ErrorBlockStops
PROPERTY CallsReturn
CONSTRAINT OneTrouble
CHECK_DEADLOCK FALSE
