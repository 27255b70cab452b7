SPECIFICATION FairSpec
CONSTANTS
  MaxFrame = 2
  CapFrames = 1
  Window = 2
  Burst = 2
  AckModes = {TRUE, FALSE}
  MaxConn = 2
  MaxSeq = 2
  MaxCrash = 1
INVARIANTS
  ReleasedIsSettled
  StoredOnce
  NoReplayRejects
PROPERTIES
  ImplementsQueue
  EveryFrameLeaves
CHECK_DEADLOCK FALSE
