SPECIFICATION Spec
CONSTANTS
  MaxFrame = 4
  MaxCrash = 1
  MaxWriteError = 2
  Size <- MCSize
  CapBytes = 8
  CompactHead = 3
  PeekFrames = 2
  PeekBytes = 6
  Faults = {"sync_error", "write_error", "cut_append", "cut_newline", "cut_crash", "record_error", "lost_marker", "compact_gap"}
INVARIANTS
  CommitsOnlyNamed
  BytesExact
PROPERTIES
  RecordNeverShrinks
CHECK_DEADLOCK FALSE
