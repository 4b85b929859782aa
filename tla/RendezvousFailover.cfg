SPECIFICATION FairSpec
CONSTANTS
  a = a
  b = b
  x = x
  y = y
  a1 = a1
  a2 = a2
  b1 = b1
  j = j
  nowhere = nowhere
  NoPlace = nowhere
  Node <- TwoNodes
  Service <- TwoServices
  Place <- ThreePlaces
  Pool <- PoolOf
  Mortal = {a, x}
  Conf <- PlainOrSafeToAll
  Nobody <- OneKey
  Sockets = {4, 6}
  LruSize = 2
  POST_LIMIT = 1
  POST_TWICE = 3
  LIFE_TIME = 3
  AGE_MAX = 4
  POST_INTERVAL = 1
  REQUEST_INTERVAL = 1
  INDEX_LIFE = 3
  UPDATE_INTERVAL = 2
  MAX_DETECT = 2
  MaxFaults = 0
  MaxMoves = 1
PROPERTIES
  Meets
  GivesUp
