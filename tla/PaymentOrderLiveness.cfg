SPECIFICATION FairSpec
CONSTANTS
  Orders = {o1}
  Keys = {k1}
  Instances = {i1}
  Workers = {w1, w2}
  Nobody = Nobody
  NoOrder = NoOrder
  NoInstance = NoInstance
  PaymentTypes = {"channel", "mock"}
  KeyOf <- MCKeyOf
  PayAmount <- MCPayAmount
  InstanceLimit <- MCRoomForOne
  MaxPending = 1
  DailyLimit = 0
  MaxCrashes = 1
  LockOverrun = FALSE
PROPERTIES
  PaidOrdersComplete
  PendingOrdersSettle
  StaleReservationsCleared
CHECK_DEADLOCK FALSE
