SPECIFICATION EitherSpec
CONSTANTS
  a = a
  b = b
  s = s
  pa = pa
  pb = pb
  pc = pc
  pd = pd
  Subject = {"path"}
  NoPlace = nowhere
  Node <- TwoNodes
  Place <- ThreePlaces
  Pool <- PoolOf
  ConfPlace <- OnlyB
  Family = {4}
  TunPlace = {}
  Index = {}
  Forward = {b}
  Relay = {}
  Silent <- NoneSilent
  IndexConfigured = FALSE
  UnifiedForwarding = TRUE
  PING_INTERVAL = 4
  UPDATE_INTERVAL = 6
  NOTIFY_INTERVAL = 4
  MaxDelay = 0
  MaxFaults = 1
PROPERTIES
  ForwardGoneIsNoticed
