SPECIFICATION FairSpec
CONSTANTS
  Clients = {c1}
  Pollers = {p1}
  Free = free
  None = none
  MaxFaults = 1
  MaxLapses = 1
INVARIANTS
  TypeOK
  MarksTellTheTruth
  LostUpdatesExplained
  CountedOnceUnlessTorn
PROPERTIES
  EvidenceSettled
CHECK_DEADLOCK FALSE
