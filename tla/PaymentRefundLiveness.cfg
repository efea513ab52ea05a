SPECIFICATION FairSpec
CONSTANTS
  Orders = {o1}
  Keys = {k1}
  Workers = {w1, w2}
  Nobody = Nobody
  NoOrder = NoOrder
  KeyOf <- MCKeyOf
  Quota <- MCQuota
  Price <- MCPrice
  Credit <- MCCredit
  FinalizeTries = 3
  MaxUsage = 3
  MaxFaults = 3
PROPERTY RefundingSettles
