\* Three channels selected for ever by select(), writers never poison.
SPECIFICATION LoopSpec
CONSTANTS
  G = 3
  Kind <- ThreeChans
  BufSize = 1
  Modes = {"fair"}
  MaxTime = 0
PROPERTY FairSelection
CHECK_DEADLOCK FALSE
