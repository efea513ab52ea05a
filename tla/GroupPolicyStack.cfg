SPECIFICATION Spec
CONSTANTS
  Requests = {h1, h2, h3}
  Turns = {}
  Axes <- MCAxes
  Rolls <- MCRolls
  Limit <- MCBothLimited
  MaxCost = 2
  LastDay = 0
  MaxFaults = 0
  MaxLapses = 0
SYMMETRY Symmetry
INVARIANT OverrunIsOneRequest
