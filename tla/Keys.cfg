SPECIFICATION Spec
CONSTANTS
  a = a
  b = b
  c = c
  Node <- TwoNodes
  Relay = {c}
  Hops <- Through
  Tun = {b}
  Ciphers = {"xor", "arc4"}
  Words = 2
  Day = 4
  FirstHour = 6
  LastHour = 9
  MaxFrames <- OneWithXor
  MaxCrashes <- OneWithXor
INVARIANTS
  TypeOK
  KeysAgree
  KeysOfTheHour
  PreviousKept
  Ur1HopsBounded
CHECK_DEADLOCK FALSE
