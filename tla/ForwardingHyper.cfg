SPECIFICATION FairSpec
CONSTANTS
  a = a
  b = b
  c = c
  d = d
  e = e
  z = z
  None = none
  Junk = junk
  Node <- SixNodes
  Conf <- WithForward
  ArraySize = 2
  SeqArraySize = 2
  MaxTtl = 5
  MaxRelay = 5
  MaxRoute = 8
INVARIANT
  WrittenOnce
CHECK_DEADLOCK FALSE
