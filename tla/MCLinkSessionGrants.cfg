SPECIFICATION SendingSpec
CONSTANTS
  Conn = {1}
  Notifier = {}
  None = 0
  MaxPut = 1
  MaxOverlap = 1
PROPERTY GrantsConverge
CHECK_DEADLOCK FALSE
