SPECIFICATION Spec
CONSTANTS
  a = a
  b = b
  c = c
  Node <- TwoNodes
  Relay = {c}
  Hops <- Through
  Tun = {a, b}
  Ciphers = {"arc4"}
  Words = 2
  Day = 4
  FirstHour = 6
  LastHour = 9
  MaxFrames <- None
  MaxCrashes <- None
INVARIANT
  BoxesAgree
CHECK_DEADLOCK FALSE
