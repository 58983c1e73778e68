SPECIFICATION Spec
CONSTANTS
  a = a
  b = b
  c = c
  Nil = Nil
  Nodes <- MCNodes
  Given <- MCNone
  Reports <- MCSpecial
INVARIANT OnlyReceiverMutated
CHECK_DEADLOCK FALSE
