SPECIFICATION SpecOne
CONSTANTS
  SizeModulus = 1000
  Thread = {1, 2}
  Settings <- MCSettings
  exploration_runs = 2
  MaxPositions = 6
  SpecThread = {t1, t2, t3}
  NoThread = NoThread
  MaxRequests = 4
  MaxCalls = 3
INVARIANTS
  DualHistoryWellFormed
  HistoriesLinearizable
  DeadlockIsOneSided
  PoliciesPreventStall
  RollbackUndone
  NoMissedMatch
  ValuesConserved
  OwnersExact
  ProgressMethodsServe
PROPERTIES
  RoundsEnd
  MatchIsFinal
  ServedInOrder
CHECK_DEADLOCK FALSE
