SPECIFICATION StoresSpec
CONSTANTS
  Messages <- MCMessages
  Capacity = 3
  Variance = 1
  DefaultPageSize = 2
  MaxPageSize = 2
  PageSizes = {0, 1}
  MaxTime = 2
  m1 = m1
  m2 = m2
  m3 = m3
  m4 = m4
  c1 = c1
  c2 = c2
  WakuMessages = {m1, m2, m3, m4}
  ContentTopics = {c1, c2}
  PubsubTopics = {p1, p2}
  ContentTopicOf <- MCContentTopicOf
  TimestampOf <- MCTimestampOf
  CacheCapacity = 3
INVARIANTS
  QueueSound
  KeepsNewest
  PagesExact
  CacheSound
PROPERTIES
  WalkEnds
  AutoClearRemovesReturned
  UnsubscribeKeepsOthers
CHECK_DEADLOCK FALSE
