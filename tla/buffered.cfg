\* any2any with an unbounded buffer, one place and two; poison and extended
\* reads at any time.
SPECIFICATION FairSpec
CONSTANTS
  Readers = {r1, r2}
  Writers = {w1, w2}
  Values = {a, b}
  NoProc = none
  Sizes = {0, 1, 2}
  SharedIn = TRUE
  SharedOut = TRUE
  Strengths = {1}
  ExtendedReads = TRUE
  MaxWrites = 3
INVARIANTS
  TypeOK
  WaitsWithReason
  NeverUndefined
PROPERTIES
  ImplementsFifo
  ValuesFlow
CHECK_DEADLOCK FALSE
