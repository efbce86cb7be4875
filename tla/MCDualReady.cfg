CONSTANTS
  MaxTasks = 1
  Items = {1}
  DualTasks = 2
  QueueEvents = 5
  MutexEvents = 0
  SharedEvents = 0
  DualItems = {1}
  TaskId <- MCTaskId
  Op <- MCOp
  Value <- MCValue
  State <- MCState
  first_state <- MCFirstState
  Method <- MCMethod
  Compare <- CompareValues
  HistorySet <- MCHistorySet
  DualOp <- MCDualOp
  DualKind <- MCDualKind
  DualOrdinary <- MCDualOrdinary
  DualPredicate <- MCDualPredicate
  DualRequest <- MCDualRequest
  DualFollowUp <- MCDualFollowUp
  dual_init <- MCDualInit
  DualHistorySet <- MCDualHistorySet
SPECIFICATION SpecOne
INVARIANT ReadyRequestsFollowedUp
