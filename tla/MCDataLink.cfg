SPECIFICATION Spec
CONSTANTS
  MaxFrame = 4
  CapFrames = 3
  Window = 2
  Burst = 2
  AckModes = {TRUE, FALSE}
  MaxConn = 2
  MaxSeq = 1
  MaxCrash = 0
INVARIANTS
  NothingUnaccounted
  StallClockExact
CHECK_DEADLOCK FALSE
