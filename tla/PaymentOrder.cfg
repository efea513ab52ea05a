SPECIFICATION Spec
CONSTANTS
  Orders = {o1, o2}
  Keys = {k1}
  Instances = {i1}
  Workers = {w1, w2}
  Nobody = Nobody
  NoOrder = NoOrder
  NoInstance = NoInstance
  PaymentTypes = {"channel"}
  KeyOf <- MCKeyOf
  PayAmount <- MCPayAmount
  InstanceLimit <- MCRoomForOne
  MaxPending = 1
  DailyLimit = 1
  MaxCrashes = 1
  LockOverrun = FALSE
SYMMETRY Symmetry
INVARIANTS
  TypeOK
  LedgerAgreesWithOrders
  PaidForOrVouchedFor
  ConfirmNeverRefuses
  PendingLimitRespected
  RechargeCountedOnce
  ReservationsHeld
PROPERTY TransitionsAllowed
CHECK_DEADLOCK FALSE
