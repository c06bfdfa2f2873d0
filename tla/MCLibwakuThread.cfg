SPECIFICATION FairSpec
CONSTANTS
  Contexts = {c1, c2}
  c1 = c1
  c2 = c2
  Error = Error
  MaxCalls = 3
  MaxFailures = 2
INVARIANTS
  TypeOK
  AnswerComesWithSignal
PROPERTIES
  ImplementsRpc
  LateOnlyWhenDestroyed
  CallsReturn
  DestroyReturns
CHECK_DEADLOCK FALSE
