SPECIFICATION EitherSpec
CONSTANTS
  Frame = {f1, f2}
  NoFrame = none
  BlockNumMask = 3
  Length = {0, 31, 47, 63, 100, 300, 65663}
  Addr = {a1, a2, a3}
  NoAddr = nowhere
  Ports = 4
  Range <- Narrow
  PUSH_INTERVAL = 1
  FULL_INTERVAL = 2
  Subject = {"ring", "length", "detect"}
INVARIANTS
  TypeOK
  BlockExclusion
  WholeFrames
  LosesNothing
  StopsProbing
PROPERTIES
  ImplementsQueue
  OldestLeaves
  EveryPortProbed
