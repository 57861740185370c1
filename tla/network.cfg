CONSTANTS
  topic = topic
  g1 = g1
  g2 = g2
  b1 = b1
  b2 = b2
  b3 = b3
  film = film
  clip = clip
  hiss = hiss
  movie = movie
  noise = noise
  Worker = {w1, w2}
  Event = {1, 2, 3, 4, 5}
  Item = {topic}
  RefOf <- MCRefOf
  Tokens <- MCTokens
  Items <- MCItems
  Replies = {2, 3, 4}
  Free = {2, 3, 5}
  Mined = {2, 3}
  RequirePow = TRUE
  ThreadDepth = 3
  ThreadLimit = 2
  Old = {1}
  MaxPosts = 3
  Client = {c1, c2}
  Gateway = {g1, g2}
  Home = g1
  Agent = {g2}
  Trusted = {g1, g2}
  Block = {b1, b2, b3}
  File = {film, clip, hiss}
  Asset = {movie, noise}
  BlocksOf <- MCBlocksOf
  OriginalOf <- MCOriginalOf
  VariantsOf <- MCVariantsOf
  Inline <- MCInline
  Image = {noise, b2}
  Priced <- MCPriced
  Cut <- MCCut
  CanPay = TRUE
  MaxMirrors = 1
  Serving <- MCServing
  Holding <- MCHolding
  MaxCommands = 3
  MaxSessions = 2
  MaxChecks <- MCChecks
SPECIFICATION MCSpec
SYMMETRY MCSymmetry
INVARIANTS
  CountsNeverAbove
  CountsExactAlone
  ViewsFollowLog
  ThreadIsTree
  AdvertisedIsHeld
  NothingPartialAsWhole
  PaidIsPursued
CHECK_DEADLOCK FALSE
