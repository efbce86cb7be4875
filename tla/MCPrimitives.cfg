CONSTANTS
  Coro = {c1, c2, c3}
  MaxEntries = 4
  nThreads = 3
  Locations = {0, 1}
  HalfInit = 1
  Counts = {1}
SPECIFICATION SpecOne
CHECK_DEADLOCK FALSE
INVARIANTS
  NoLostWakeup
  WakeupsKept
  SomeWriteAccepted
  ClocksAreHappensBefore
  Coherent
  SeqCstAgreesWithAtomic
  LitmusAssertions
  TargetsLinearizable
  StuckForAReason
PROPERTIES
  ImplementsRWLock
  PrimitivesImplement
  WriterEnters
