SPECIFICATION Spec
CONSTANTS
  Thread = {t1, t2, t3}
  NoThread = NoThread
  SizeModulus = 1024
  Objects = {"folly_bounded_queue"}
  TwoRounds = {}
  MaxRequests = 5
  MaxCalls = 3
INVARIANT BoundedQueueServes
CHECK_DEADLOCK FALSE
