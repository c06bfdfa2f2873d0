SPECIFICATION BucketSpec
CONSTANTS
  BudgetCap = 3
  FillDuration = 3
  MaxTokens = 2
  MaxReplenished = 2
  MaxMoment = 6
INVARIANTS
  BudgetCapped
