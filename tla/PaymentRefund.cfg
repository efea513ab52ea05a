SPECIFICATION Spec
CONSTANTS
  Orders = {o1, o2}
  Keys = {k1}
  Workers = {w1, w2}
  Nobody = Nobody
  NoOrder = NoOrder
  KeyOf <- MCKeyOf
  Quota <- MCQuota
  Price <- MCPrice
  Credit <- MCCredit
  FinalizeTries = 3
  MaxUsage = 4
  MaxFaults = 3
SYMMETRY Symmetry
INVARIANTS
  TypeOK
  MarkersTellTheTruth
  LedgerHoldsRecords
  RefundedMatchesPayout
PROPERTIES
  ReverseNeverOverdraws
  PromiseKept
