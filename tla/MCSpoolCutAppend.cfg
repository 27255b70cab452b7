SPECIFICATION Spec
CONSTANTS
  MaxFrame = 5
  MaxCrash = 1
  MaxWriteError = 1
  Size <- MCSize
  CapBytes = 8
  CompactHead = 3
  PeekFrames = 2
  PeekBytes = 6
  Faults = {"cut_append"}
INVARIANTS
  NothingLost
CHECK_DEADLOCK FALSE
