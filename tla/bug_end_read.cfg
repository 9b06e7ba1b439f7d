\* one2any: readers share their end and use extended reads.
SPECIFICATION Spec
CONSTANTS
  Readers = {r1, r2}
  Writers = {w1}
  Values = {a}
  NoProc = none
  SharedIn = TRUE
  SharedOut = FALSE
  Strengths = {}
  ExtendedReads = TRUE
  MaxWrites = 1
PROPERTY EndReadCompletes
CHECK_DEADLOCK FALSE
