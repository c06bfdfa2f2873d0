SPECIFICATION Spec
CONSTANTS
  Peers = {p1, p2}
  PubsubTopics = {t}
  ContentTopics = {a, b}
  a = a
  b = b
  NoTopic = NoTopic
  ContentTopicLists <- MCContentTopicLists
  MaxPeers = 2
  MaxCriteriaPerPeer = 1
  MaxContentTopicsPerRequest = 2
  SubscriptionTimeout = 1
  MaxTime = 2
INVARIANTS
  CriteriaWithinLimit
