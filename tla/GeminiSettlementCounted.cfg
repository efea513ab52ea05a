SPECIFICATION Spec
CONSTANTS
  Clients = {c1, c2}
  Pollers = {p1}
  Free = free
  None = none
  MaxFaults = 0
  MaxLapses = 0
SYMMETRY Symmetry
INVARIANT CountedOnce
CHECK_DEADLOCK FALSE
