SPECIFICATION FairSpec
CONSTANTS
  Requests = {h1, h2, t1}
  Turns = {t1}
  Axes <- MCAxes
  Rolls <- MCRolls
  Limit <- MCBothLimited
  MaxCost = 2
  LastDay = 1
  MaxFaults = 2
  MaxLapses = 1
INVARIANTS
  TypeOK
  CostAccounts
  ReservationFillsLimit
  OverrunWithinStrays
PROPERTY CountersSettle
