SPECIFICATION Spec
CONSTANTS
  MaxFrame = 5
  MaxCrash = 2
  MaxWriteError = 1
  Size <- MCSize
  CapBytes = 8
  CompactHead = 3
  PeekFrames = 2
  PeekBytes = 6
  Faults = {"sync_error", "write_error", "cut_crash", "lost_marker"}
INVARIANTS
  NothingLost
  LossRecorded
PROPERTIES
  ImplementsQueue
CHECK_DEADLOCK FALSE
