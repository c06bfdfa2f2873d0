SPECIFICATION FairSpec
CONSTANTS
  Queries = {q1, q2}
  HealthCheck = hc
  Addresses = {a1, a2, a3}
  MaxConnections = 2
  MaxNumTrials = 2
  MaxResets = 1
  MayClose = TRUE
CHECK_DEADLOCK FALSE
INVARIANTS
  PoolSound
  ExclusiveWithoutReset
PROPERTY WaitersServed
