\* The host registry under overlapping spot-checks, ticks, registrations, an epoch
\* change and a restart.
SPECIFICATION FairSpec
CONSTANTS
  Runner = {r1, r2}
  h1 = h1
  Host = {h1}
  b = b
  a = a
  Cid = {b, a}
  Vouched <- MCVouched
  Window = 1
  LastEpoch = 2
  MaxRuns = 2
  NoHost = NoHost
  NotStarted = NotStarted
INVARIANTS
  HostsTypeOK
  StatusFitsScore
  ScoresFollowChecks
  TrustTakesProbe
  OnlyClosedSettled
PROPERTIES
  LastEpochSettles
CHECK_DEADLOCK FALSE
