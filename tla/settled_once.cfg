CONSTANTS
  p1 = p1
  p2 = p2
  h1 = h1
  h2 = h2
  c1 = c1
  c2 = c2
  k1 = k1
  k2 = k2
  pinA = pinA
  pinB = pinB
  pinC = pinC
  Slot = {p1, p2}
  PoolKey = {k1}
  NoKey = NoKey
  TaperEnd = 8
  RatePermille <- MCRatePermille
  Amount <- MCAmount
  EPOCH_REWARD_PCT = 20
  EPOCH_REWARD_BASE_SATS = 5
  AGGREGATOR_FEE_PCT = 30
  EGRESS_ROYALTY_PCT = 10
  AUTO_BID_PCT = 20
  PIN_CANCEL_FEE_PCT = 5
  Pin <- OverlapPin
  PinCid <- MCPinCid
  PinBudget <- MCPinBudget
  PinDuration <- MCPinDuration
  Receipt <- OverlapReceipt
  Uptime = {5}
  MaxEpoch = 1
  Tip <- OverlapTip
  MaxTips = 0
  MaxAborts = 0
SPECIFICATION Spec
SYMMETRY Slots
INVARIANT
  ChargedOnce
