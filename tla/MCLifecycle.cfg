SPECIFICATION Spec
CONSTANTS
  Shell = {s1, s2}
  MaxOp = 2
  Kinds <- MCKinds
  MaxAttempts = 1
  MaxWrites = 4
  Ask <- MCAsk
  MaxEmit = 2
  MaxFaults = 1
  EarlyHandoff = FALSE
  Doubtful = FALSE
  Past <- MCPast
  None = None
INVARIANTS ToldIsDurable InterruptedIsUntouched AlwaysClosable
PROPERTIES EventsRise UnansweredIsLast OneTransaction OnlyKilledAbandoned
SYMMETRY Symmetry
