SPECIFICATION FairSpec
CONSTANTS
  Version = {1, 2, 3}
  First = 1
  Broken = {2}
  None = 0
  Faults = {}
  MaxQueue = 2
  MaxLoss = 1
INVARIANT RollbackPossible
PROPERTIES ReplayTruthful RollbackAfterDeadline BrokenNeverStays
CHECK_DEADLOCK FALSE
