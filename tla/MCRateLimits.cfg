SPECIFICATION LimitsSpec
CONSTANTS
  EpochSize = 3
  NonceLimit = 2
  MaxTime = 11
  MaxNonce = 4
  Nullifiers = {n1, n2}
  MaxEpochGap = 2
  MaxEpoch = 3
  AcceptableRootWindowSize = 3
  Roots = {1, 2, 3}
  MaxBatches = 7
  MaxBlocks = 3
  BudgetCap = 3
  FillDuration = 3
  MaxTokens = 2
  MaxReplenished = 2
  MaxMoment = 6
CHECK_DEADLOCK FALSE
SYMMETRY NullifierSymmetry
INVARIANTS
  NonceTypeOK
  RepeatsOnlyWhenDisturbed
  LogSound
  DuplicatesCaughtUntilCleared
  SpamOnlyIfSeen
  CurrentRootAccepted
  WindowSound
  BudgetSound
  RefusedOnlyWhenSpent
PROPERTY BackfillUndoes
