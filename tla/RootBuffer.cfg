SPECIFICATION WindowSpec
CONSTANTS
  AcceptableRootWindowSize = 5
  Roots = {1, 2}
  MaxBatches = 8
  MaxBlocks = 2
CHECK_DEADLOCK FALSE
INVARIANTS
  BufferHoldsFive
