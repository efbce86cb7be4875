CONSTANTS
  nThreads = 2
  Locations = {0}
  Programs <- Increments
SPECIFICATION Spec
CHECK_DEADLOCK FALSE
INVARIANT RmwAtomicity
