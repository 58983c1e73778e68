SPECIFICATION MCSpec
CONSTANTS
  a = a
  b = b
  c = c
  Nil = Nil
  Nodes <- MCNodes
  Reports <- MCAll
  Given <- MCGiven
INVARIANTS IndependentOfOrder ExtremesKept CountsAddUp RangesAgree EntriesKept LastDayKept
CHECK_DEADLOCK FALSE
