SPECIFICATION Spec
CONSTANTS
  threads_count = 2
  max_tasks = 3
  Targets <- TargetsWithYield
PROPERTIES EnumeratesFirstTasks
CHECK_DEADLOCK FALSE
