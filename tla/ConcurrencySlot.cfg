SPECIFICATION Spec
CONSTANTS
  Requests = {h1, h2, t1}
  Turns = {t1}
  Limit = 1
  MaxQueue = 1
  MaxRefresh = 1
  MaxRedisFails = 2
  MaxFaults = 1
  MaxClears = 1
SYMMETRY Symmetry
INVARIANTS
  TypeOK
  HoldersWithinLimit
  ServedHoldsSlot
  OrphansAreFaults
  QueueCountsWaiters
  WaitersWithinMax
