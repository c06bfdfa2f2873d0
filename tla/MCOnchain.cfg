SPECIFICATION FairSpec
CONSTANTS
  AcceptableRootWindowSize = 2
  Deployed = 1
  BlockChunkSize = 2
  MaxFutures = 2
  MaxBlock = 7
  MaxEvents = 2
  MaxCrashes = 1
CHECK_DEADLOCK FALSE
INVARIANTS
  ManagerSound
  RestartLosesOnlyAbandoned
  CaughtUpRootAccepted
PROPERTY EventuallySynced
