SPECIFICATION FairSpec
CONSTANTS
  Peers = {p1, p2, p3}
  PubsubTopics = {t}
  ContentTopics = {a, b}
  a = a
  b = b
  NoTopic = NoTopic
  ContentTopicLists <- MCContentTopicLists
  MaxPeers = 2
  MaxCriteriaPerPeer = 2
  MaxContentTopicsPerRequest = 2
  SubscriptionTimeout = 1
  MaxTime = 2
INVARIANTS
  TypeOK
  TablesConsistent
PROPERTIES
  LimitsBindKnownPeers
  CountsDriftOnlyInLateSweep
  LivePeersKeepCriteria
  ExpiredPeersAreDropped
