SPECIFICATION Spec
CONSTANTS
  Version = {1, 2, 3}
  First = 1
  Broken = {2}
  None = 0
  Faults = {"late_confirm", "stale_watch", "slow_commit", "mark_error"}
  MaxQueue = 2
  MaxLoss = 0
INVARIANT RollbackPossible
CHECK_DEADLOCK FALSE
