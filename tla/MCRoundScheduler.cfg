SPECIFICATION FairSpec
CONSTANTS
  Thread = {0, 1}
  Addr <- MCAddr
  Method <- MCMethod
  Program <- MCProgram
  Targets <- MCTargets
  Verify <- MCVerify
  OnFinished <- MCOnFinished
  Known = {0, 1}
  known_first = 0
  max_tasks = 3
  exploration_runs = 1
  MaxCustom = 2
  MaxAttempts = 1
INVARIANTS TypeOK HistoryWellFormed
PROPERTIES DeadlockIsReal UnlocksHeld RoundEnds
CHECK_DEADLOCK FALSE
