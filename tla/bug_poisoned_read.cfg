\* one2one: the writer poisons the channel while the reader waits.
SPECIFICATION Spec
CONSTANTS
  Readers = {r1}
  Writers = {w1}
  Values = {a}
  NoProc = none
  SharedIn = FALSE
  SharedOut = FALSE
  Strengths = {1}
  ExtendedReads = FALSE
  MaxWrites = 1
INVARIANT PoisonedReadIsDefined
CHECK_DEADLOCK FALSE
