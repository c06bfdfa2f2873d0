SPECIFICATION Spec
CONSTANTS
  Nullifiers = {n1, n2}
  MaxEpochGap = 2
  MaxEpoch = 3
INVARIANTS
  RemembersUpToGap
