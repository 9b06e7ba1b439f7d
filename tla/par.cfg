\* Four processes (three threads), two callers with a copy each, four runs:
\* the first starts the threads, the second resets them, later ones release.
SPECIFICATION FairSpec
CONSTANTS
  N = 4
  Callers = {c1, c2}
  NoCaller = none
  MaxRuns = 4
  UIntMax = 7
INVARIANTS
  RunsAreComplete
  NoneRunsAhead
  NoRaceOnThread
  ResetsQuietBarrier
  NoThreadSurvives
PROPERTY RunReturns
CHECK_DEADLOCK FALSE
