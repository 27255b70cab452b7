SPECIFICATION FairSpec
CONSTANTS
  Version = {1, 2, 3}
  First = 1
  Broken = {}
  None = 0
  Faults = {}
  MaxQueue = 2
  MaxLoss = 0
PROPERTY NeverLeftWaiting
CHECK_DEADLOCK FALSE
