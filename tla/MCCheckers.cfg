CONSTANTS
  MaxTasks = 3
  Items = {1, 2}
  DualTasks = 3
  QueueEvents = 6
  MutexEvents = 6
  SharedEvents = 5
  DualItems = {1, 2}
  TaskId <- MCTaskId
  Op <- MCOp
  Value <- MCValue
  State <- MCState
  first_state <- MCFirstState
  Method <- MCMethod
  Compare <- CompareValues
  HistorySet <- MCHistorySet
  DualOp <- MCDualOp
  DualKind <- MCDualKind
  DualOrdinary <- MCDualOrdinary
  DualPredicate <- MCDualPredicate
  DualRequest <- MCDualRequest
  DualFollowUp <- MCDualFollowUp
  dual_init <- MCDualInit
  DualHistorySet <- MCDualHistorySet
SPECIFICATION SpecOne
INVARIANTS
  TypeOK
  InBounds
  Sound
  Complete
  RecursiveCorrect
  DualCorrect
PROPERTY CheckersReturn
