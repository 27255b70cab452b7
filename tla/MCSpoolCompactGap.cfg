SPECIFICATION Spec
CONSTANTS
  MaxFrame = 5
  MaxCrash = 2
  MaxWriteError = 0
  Size <- MCSize
  CapBytes = 8
  CompactHead = 3
  PeekFrames = 2
  PeekBytes = 6
  Faults = {"compact_gap"}
INVARIANTS
  NothingLost
CHECK_DEADLOCK FALSE
