SPECIFICATION SpecOne
CONSTANTS
  threads_count = 3
  LivelockLimit = 4
  FairLaps = 2
  MaxDepth = 2
  MaxRounds = 2
  MaxLength = 2
  tla_threads = 2
  max_tasks = 3
  Targets <- AllTargets
INVARIANTS PickContract ReplayFindsTask
PROPERTIES EveryThreadServed NeverBackwards
CHECK_DEADLOCK FALSE
