SPECIFICATION Spec
CONSTANTS
  a = a
  b = b
  c = c
  Node <- TwoNodes
  Relay = {c}
  Hops <- Through
  Tun = {b}
  Ciphers = {"xor"}
  Words = 2
  Day = 4
  FirstHour = 6
  LastHour = 9
  MaxFrames <- One
  MaxCrashes <- One
PROPERTY
  PreviousKeyReads
CHECK_DEADLOCK FALSE
