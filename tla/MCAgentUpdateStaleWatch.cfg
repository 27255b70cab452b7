SPECIFICATION Spec
CONSTANTS
  Version = {1, 2}
  First = 1
  Broken = {}
  None = 0
  Faults = {"stale_watch"}
  MaxQueue = 2
  MaxLoss = 1
PROPERTY RollbackAfterDeadline
CHECK_DEADLOCK FALSE
