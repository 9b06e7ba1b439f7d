\* The demos and the networks of plug and play processes.
SPECIFICATION FairSpec
CONSTANTS
  Width = 3
  Philosophers = 3
  Lines = 3
  Workers = 2
  MaxReads = 5
  Nets <- AllNets
INVARIANTS
  DeadlockFree
  StreamsAreRight
  NeighboursExclude
  PictureIsComplete
PROPERTY WorkIsDone
