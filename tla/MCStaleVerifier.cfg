SPECIFICATION Spec
CONSTANTS
  Thread = {t1, t2}
  NoThread = NoThread
  SizeModulus = 1024
  Objects = {"folly_mutex"}
  TwoRounds = {"folly_mutex"}
  MaxRequests = 2
  MaxCalls = 2
INVARIANT UnlocksHeld
CHECK_DEADLOCK FALSE
