SPECIFICATION Spec
CONSTANTS
  Version = {1, 2}
  First = 1
  Broken = {}
  None = 0
  Faults = {}
  MaxQueue = 1
  MaxLoss = 0
PROPERTY VersionRecorded
CHECK_DEADLOCK FALSE
