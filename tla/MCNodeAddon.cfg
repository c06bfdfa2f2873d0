SPECIFICATION Spec
CONSTANTS
  Messages <- MCMessages
  TopicNames = {18}
  MaxCalls = 5
  MaxEvents = 1
INVARIANTS
  MemorySound
  CallbackIsOwn
  PublishedWhole
CHECK_DEADLOCK FALSE
