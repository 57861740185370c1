CONSTANTS
  p1 = p1
  p2 = p2
  p3 = p3
  k1 = k1
  k2 = k2
  Slot = {p1, p2}
  PoolKey = {k1, k2}
  NoKey = NoKey
  TaperEnd = 4
  RatePermille <- MCRatePermille
  Amount = {2, 3}
  MaxTurnover = 4
SPECIFICATION MCSpec
SYMMETRY Interchangeable
INVARIANTS
  PoolLedger
PROPERTIES
  OverdraftNeedsRace
  StaleVolumeFavoursFounder
