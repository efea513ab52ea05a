SPECIFICATION FairSpec
CONSTANTS
  Requests = {r1, r2}
  Ttl = 3
  Delay = 2
  Timeout = 3
  MaxNap = 2
  Free = free
  MaxFaults = 2
  MaxStarts = 1
INVARIANTS
  TypeOK
  SerialUnlessRobbed
PROPERTIES
  AnswersSpaced
  WaitersEnd
