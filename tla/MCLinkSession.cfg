SPECIFICATION FairSpec
CONSTANTS
  Conn = {1, 2, 3}
  Notifier = {3}
  None = 0
  MaxPut = 1
  MaxOverlap = 2
INVARIANT RegistryKept
PROPERTIES OnlineConverges OfflineConverges WithdrawnIsCutOff
CHECK_DEADLOCK FALSE
