SPECIFICATION FairSpec
CONSTANTS
  a = a
  b = b
  c = c
  d = d
  e = e
  z = z
  None = none
  Junk = junk
  Node <- SixNodes
  Conf <- Networks
  ArraySize = 2
  SeqArraySize = 2
  MaxTtl = 5
  MaxRelay = 5
  MaxRoute = 8
INVARIANTS
  TypeOK
  HopsBounded
  NextHopReads
  InClear
  FollowsRoute
  AnswersTheSameWay
  WrittenOnce
PROPERTIES
  ForceIsForced
  Arrives
CHECK_DEADLOCK FALSE
