SPECIFICATION StreamsSpec
CONSTANTS
  Producers <- MCAll
  Iterators <- MCIter
  MaxItems = 4
  MaxConns = 3
  MayLeave = TRUE
INVARIANTS ChannelsTypeOK ReceivedInOrder EndsWithReason PanicsOnlyAtReport ResponsesClosed
PROPERTY CancelEnds
CHECK_DEADLOCK FALSE
