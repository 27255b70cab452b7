SPECIFICATION FairSpec
CONSTANTS
  Job = {j1}
  Dispatcher = {d1, d2}
  Handler = {h1, h2}
  Finding = {f1, f2}
  Ceiling = 1
  MaxScans = 1
  MaxTrigger = 1
  MaxFault = 2
  None = None
INVARIANTS OneSweep CountsExact
PROPERTIES EndsOnce EveryJobEnds
CHECK_DEADLOCK FALSE
