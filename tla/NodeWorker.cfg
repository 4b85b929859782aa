SPECIFICATION EitherSpec
CONSTANTS
  a = a
  b = b
  s = s
  pa = pa
  pb = pb
  pc = pc
  pd = pd
  Subject = {"path", "families", "silent"}
  NoPlace = nowhere
  Node <- TwoNodes
  Place <- ThreePlaces
  Pool <- PoolOf
  ConfPlace <- OnlyB
  Family = {4}
  TunPlace = {}
  Index = {}
  Forward = {}
  Relay = {b}
  Silent <- NoneSilent
  IndexConfigured = FALSE
  UnifiedForwarding = TRUE
  PING_INTERVAL = 4
  UPDATE_INTERVAL = 6
  NOTIFY_INTERVAL = 4
  MaxDelay = 0
  MaxFaults = 2
INVARIANTS
  TypeOK
  NeverNested
  NothingFromSilent
  Handshake
  PongFresh
PROPERTIES
  GoneIsNoticed
  Reconnects
