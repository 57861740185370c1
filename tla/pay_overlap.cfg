CONSTANTS
  k1 = k1
  e1 = e1
  e2 = e2
  p1 = p1
  p2 = p2
  i1 = i1
  i2 = i2
  i3 = i3
  Slot = {p1, p2}
  PoolKey = {k1}
  NoKey = NoKey
  TaperEnd = 4
  RatePermille <- MCRatePermille
  Amount = {2, 3}
  Event = {e1}
  EventRef <- MCEventRef
  EventSats <- MCEventSats
  RequestSats = {2, 3}
  Invoice = {i1, i2, i3}
  NoPayment = NoPayment
  Ttl = 1
  MaxClock = 2
  MaxAborts = 1
  MaxRestarts = 1
SPECIFICATION Spec
SYMMETRY Interchangeable
INVARIANTS
  PaymentTypeOK
  StoresAgree
  EveryTipIsPaid
  CreditsBounded
  LogCountsCredits
