SPECIFICATION EitherSpec
CONSTANTS
  Frame = {f1, f2}
  NoFrame = none
  BlockNumMask = 3
  Length = {0}
  Addr = {a1, a2, a3}
  NoAddr = nowhere
  Ports = 4
  Range <- Wide
  PUSH_INTERVAL = 1
  FULL_INTERVAL = 2
  Subject = {"detect"}
PROPERTY EveryPortProbed
