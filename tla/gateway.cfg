CONSTANTS
  s1 = s1
  s2 = s2
  b1 = b1
  b2 = b2
  film = film
  movie = movie
  Slot = {s1, s2}
  Block = {b1, b2}
  File = {film}
  Asset = {movie}
  BlocksOf <- MCBlocksOf
  OriginalOf <- MCOriginalOf
  Invoice = {1}
  Small = {}
  FreePreview = TRUE
  LastEpoch = 1
  MaxFaults = 1
  NoInvoice = NoInvoice
  NoRecord = NoRecord
SPECIFICATION Spec
SYMMETRY Slots
INVARIANTS
  GatewayTypeOK
  IntactUnlessCut
  ServedIsComplete
  TokensAreSales
  PaidStaysClaimable
PROPERTIES
  SellsBlocks
