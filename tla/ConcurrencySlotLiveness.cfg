SPECIFICATION FairSpec
CONSTANTS
  Requests = {h1, t1}
  Turns = {t1}
  Limit = 1
  MaxQueue = 1
  MaxRefresh = 1
  MaxRedisFails = 2
  MaxFaults = 2
  MaxClears = 1
PROPERTIES
  SlotsReturned
  WaitingEnds
