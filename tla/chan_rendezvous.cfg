\* any2any, plain reads, poison from any end at any time.
SPECIFICATION FairSpec
CONSTANTS
  Readers = {r1, r2}
  Writers = {w1, w2}
  Values = {a, b}
  NoProc = none
  SharedIn = TRUE
  SharedOut = TRUE
  Strengths = {1}
  ExtendedReads = FALSE
  MaxWrites = 3
INVARIANTS
  NeverBothWait
  WriterWaitsForReader
  SafeUnlessPoisoned
PROPERTIES
  ImplementsRendezvous
  PoisonedReadReturns
  CommunicationHappens
CHECK_DEADLOCK FALSE
