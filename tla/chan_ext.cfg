\* any2one with extended reads: one reader on a plain end, so that it can
\* poison inside an extended read and call start_read again after it.
SPECIFICATION Spec
CONSTANTS
  Readers = {r1}
  Writers = {w1, w2}
  Values = {a, b}
  NoProc = none
  SharedIn = FALSE
  SharedOut = TRUE
  Strengths = {1, 2}
  ExtendedReads = TRUE
  MaxWrites = 4
SYMMETRY Perms
INVARIANTS
  TypeOK
  DeliveredInOrder
  PoisonReleases
  ExtendedReadBlocksWriter
CHECK_DEADLOCK FALSE
