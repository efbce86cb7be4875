SPECIFICATION Spec
CONSTANTS
  SizeModulus = 1000
  Thread = {1, 2}
  Settings <- MCSettings
  exploration_runs = 2
  MaxPositions = 6
INVARIANT WaitersYield
CHECK_DEADLOCK FALSE
