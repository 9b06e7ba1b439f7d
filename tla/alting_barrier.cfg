\* Two barriers that can be expanded by two front ends.
SPECIFICATION Spec
CONSTANTS
  f1 = f1
  f2 = f2
  NoProc = none
  UIntMax = 5
  MaxCalls = 6
  Threads = {t1, t2}
  FrontEnds = {f1, f2, f3, f4}
  First = {f1, f2}
  Offers <- OfTwo
SYMMETRY Symmetry
INVARIANTS
  EnablesExclude
  CoordinatorAwake
  NoStaleRegistration
CHECK_DEADLOCK FALSE
