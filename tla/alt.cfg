\* A timer between a channel and a buffered channel; every kind of selection.
SPECIFICATION FairSpec
CONSTANTS
  G = 3
  Kind <- ChanTimerBuffer
  BufSize = 2
  Modes = {"pri", "fair", "fair_pre"}
  MaxTime = 2
INVARIANTS
  TypeOK
  SelectedIsReady
  NoLostWakeup
  NothingLeftEnabled
  PriorityKept
PROPERTY SelectReturns
CHECK_DEADLOCK FALSE
