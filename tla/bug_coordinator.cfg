\* One barrier with a second front end.
SPECIFICATION FairSpec
CONSTANTS
  f1 = f1
  f2 = f2
  NoProc = none
  UIntMax = 3
  MaxCalls = 4
  Threads = {t1, t2}
  FrontEnds = {f1, f2}
  First = {f1}
  Offers <- OfOne
PROPERTY WaitersStart
CHECK_DEADLOCK FALSE
