CONSTANTS
  k1 = k1
  e1 = e1
  e2 = e2
  p1 = p1
  i1 = i1
  i2 = i2
  i3 = i3
  Slot = {p1}
  PoolKey = {k1}
  NoKey = NoKey
  TaperEnd = 4
  RatePermille <- MCRatePermille
  Amount = {2, 3}
  Event = {e1, e2}
  EventRef <- MCEventRef
  EventSats <- MCEventSats
  RequestSats = {2, 3}
  Invoice = {i1, i2, i3}
  NoPayment = NoPayment
  Ttl = 1
  MaxClock = 3
  MaxAborts = 0
  MaxRestarts = 0
SPECIFICATION Spec
SYMMETRY Interchangeable
INVARIANTS
  SingleUse
  PaidStaysClaimable
