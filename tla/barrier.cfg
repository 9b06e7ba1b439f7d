\* Four processes; the counters are as narrow as four processes allow.
SPECIFICATION Spec
CONSTANTS
  Procs = {p1, p2, p3, p4}
  UIntMax = 4
INVARIANTS
  CountsMembers
  NobodyStranded
PROPERTY ImplementsBarrier
