CONSTANTS
  k1 = k1
  e1 = e1
  e2 = e2
  p1 = p1
  p2 = p2
  i1 = i1
  Slot = {p1, p2}
  PoolKey = {k1}
  NoKey = NoKey
  TaperEnd = 4
  RatePermille <- MCRatePermille
  Amount = {2, 3}
  Event = {e1}
  EventRef <- MCEventRef
  EventSats <- MCEventSats
  RequestSats = {2, 3}
  Invoice = {i1}
  NoPayment = NoPayment
  Ttl = 1
  MaxClock = 1
  MaxAborts = 0
  MaxRestarts = 0
SPECIFICATION Spec
SYMMETRY Interchangeable
INVARIANT
  SingleUse
