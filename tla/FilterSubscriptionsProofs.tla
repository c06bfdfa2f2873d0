--------------------- MODULE FilterSubscriptionsProofs ---------------------
(***************************************************************************)
(* For any peers, topics, limits and timeout: the tables of the filter     *)
(* server stay consistent with each other, and the per-peer counters never *)
(* fall below what the tables hold.                                        *)
(*                                                                         *)
(* TypeOK is not inductive: criteriaCount stays a natural number only      *)
(* because it covers the criteria still listed, and an entry may only be   *)
(* deleted at zero because of the same fact.  IInv is the conjunction that *)
(* is.                                                                     *)
(***************************************************************************)
EXTENDS FilterSubscriptions, FiniteSetTheorems, TLAPS

\* The inductive invariant.
IInv == /\ TypeOK
        /\ CountCoversCriteria
        /\ ListedPeersAreKnown
        /\ PeersWithinLimit

-----------------------------------------------------------------------------
(* Facts about the operators on the tables.                                *)

\* The criteria that list a peer form a finite set with a natural size.
LEMMA CriteriaOfFinite ==
  ASSUME NEW subs, DOMAIN subs \subseteq Criteria, NEW p
  PROVE  /\ IsFiniteSet(CriteriaOf(subs, p))
         /\ Cardinality(CriteriaOf(subs, p)) \in Nat
         /\ CriteriaOf(subs, p) \subseteq Criteria
<1>1. IsFiniteSet(Criteria)
  BY TopicsAssumption, FS_Product DEF Criteria
<1>2. CriteriaOf(subs, p) \in SUBSET Criteria
  BY DEF CriteriaOf
<1>3. IsFiniteSet(CriteriaOf(subs, p))
  BY <1>1, <1>2, FS_Subset
<1> QED BY <1>2, <1>3, FS_CardinalityType

\* Dropping entries takes exactly these entries' criteria from each peer.
LEMMA DropEntriesCriteria ==
  ASSUME NEW subs, NEW gone, NEW p
  PROVE  CriteriaOf(DropEntries(subs, gone), p)
           = {c \in CriteriaOf(subs, p) : <<c, p>> \notin gone}
BY Zenon DEF CriteriaOf, DropEntries, PeersLeft

\* Dropping entries leaves no empty criterion and adds nothing.
LEMMA DropEntriesTable ==
  ASSUME NEW subs, NEW gone
  PROVE  /\ DOMAIN DropEntries(subs, gone) \subseteq DOMAIN subs
         /\ \A c \in DOMAIN DropEntries(subs, gone) :
              /\ DropEntries(subs, gone)[c] # {}
              /\ DropEntries(subs, gone)[c]
                   = {p \in subs[c] : <<c, p>> \notin gone}
BY Zenon DEF DropEntries, PeersLeft

\* The criteria of a request that is not refused as bad are criteria.
LEMMA RequestCriteria ==
  ASSUME NEW pubsub \in PubsubTopics \cup {NoTopic},
         NEW topics \in ContentTopicLists, ~BadRequest(pubsub, topics)
  PROVE  /\ FilterCriteria(pubsub, topics) \subseteq Criteria
         /\ IsFiniteSet(FilterCriteria(pubsub, topics))
<1>1. pubsub \in PubsubTopics /\ topics \in Seq(ContentTopics)
  BY TopicsAssumption DEF BadRequest
<1>2. FilterCriteria(pubsub, topics) \in SUBSET Criteria
  BY <1>1 DEF FilterCriteria, Criteria
<1>3. IsFiniteSet(Criteria)
  BY TopicsAssumption, FS_Product DEF Criteria
<1> QED BY <1>2, <1>3, FS_Subset

-----------------------------------------------------------------------------
(* What each handler does to the tables.                                   *)

\* A known peer's entry is the same after cleanUp, and its criteria are those
\* that were not swept.
LEMMA CleanUpTables ==
  ASSUME IInv, NEW gone, CleanUp(RemovePeers(peersSubscribed, gone))
  PROVE  /\ DOMAIN peersSubscribed' \subseteq DOMAIN peersSubscribed
         /\ \A p \in DOMAIN peersSubscribed' :
              peersSubscribed'[p] = peersSubscribed[p]
         /\ DOMAIN subscriptions' \subseteq DOMAIN subscriptions
         /\ \A c \in DOMAIN subscriptions' :
              /\ subscriptions'[c] # {}
              /\ subscriptions'[c] \subseteq subscriptions[c]
              /\ subscriptions'[c] \subseteq DOMAIN peersSubscribed'
         /\ \A p \in Peers :
              CriteriaOf(subscriptions', p) \subseteq CriteriaOf(subscriptions, p)
         /\ now' \in 0..MaxTime
         /\ now' = now =>
              \A p \in DOMAIN peersSubscribed' :
                CriteriaOf(subscriptions', p) = CriteriaOf(subscriptions, p)
         /\ \A p \in DOMAIN peersSubscribed \ gone :
              IsSubscribed(peersSubscribed, p, now') =>
                /\ p \in DOMAIN peersSubscribed'
                /\ CriteriaOf(subscriptions', p) = CriteriaOf(subscriptions, p)
<1> DEFINE known == KeepLivePeers(RemovePeers(peersSubscribed, gone), now)
<1>1. PICK late \in LateSets(subscriptions) :
        /\ late # {} => now < MaxTime
        /\ now' = IF late = {} THEN now ELSE now + 1
        /\ subscriptions' = SweptSubscriptions(known, subscriptions, late)
  BY DEF CleanUp
<1>2. peersSubscribed' = known
  BY DEF CleanUp
<1>3. /\ DOMAIN known \subseteq DOMAIN peersSubscribed
      /\ \A p \in DOMAIN known : /\ known[p] = peersSubscribed[p]
                                 /\ ~Expired(known[p], now)
  BY DEF KeepLivePeers, RemovePeers
<1> DEFINE swept == {e \in Entries(subscriptions) :
             ~IsSubscribed(known, e[2], IF e \in late THEN now + 1 ELSE now)}
<1>4. subscriptions' = DropEntries(subscriptions, swept)
  BY <1>1 DEF SweptSubscriptions
<1>5. now \in 0..MaxTime /\ now' \in 0..MaxTime
  BY <1>1, LimitsAssumption DEF IInv, TypeOK
<1>6. ASSUME NEW c \in DOMAIN subscriptions, NEW p \in subscriptions[c],
             <<c, p>> \notin swept
      PROVE  p \in DOMAIN known
  <2>1. <<c, p>> \in Entries(subscriptions)
    BY DEF IInv, TypeOK, Entries
  <2>2. IsSubscribed(known, p, IF <<c, p>> \in late THEN now + 1 ELSE now)
    BY <1>6, <2>1
  <2> QED BY <2>2 DEF IsSubscribed
<1>7. /\ DOMAIN subscriptions' \subseteq DOMAIN subscriptions
      /\ \A c \in DOMAIN subscriptions' :
           /\ subscriptions'[c] # {}
           /\ subscriptions'[c] = {p \in subscriptions[c] : <<c, p>> \notin swept}
  <2> HIDE DEF swept
  <2> QED BY <1>4, DropEntriesTable
<1>8. \A p : CriteriaOf(subscriptions', p)
               = {c \in CriteriaOf(subscriptions, p) : <<c, p>> \notin swept}
  <2> HIDE DEF swept
  <2> QED BY <1>4, DropEntriesCriteria
<1>9. ASSUME now' = now, NEW p \in DOMAIN known,
             NEW c \in CriteriaOf(subscriptions, p)
      PROVE  <<c, p>> \notin swept
  <2>1. late = {}
    BY <1>1, <1>5, <1>9
  <2>2. IsSubscribed(known, p, now)
    BY <1>3 DEF IsSubscribed
  <2> QED BY <2>1, <2>2
<1>10. ASSUME NEW p \in DOMAIN peersSubscribed \ gone,
              IsSubscribed(peersSubscribed, p, now')
       PROVE  p \in DOMAIN known
              /\ \A c \in CriteriaOf(subscriptions, p) : <<c, p>> \notin swept
  <2>1. peersSubscribed[p].lastSeen \in Nat
    BY DEF IInv, TypeOK, PeerData
  <2>2. ~Expired(peersSubscribed[p], now')
    BY <1>10 DEF IsSubscribed
  <2>3. now' >= now
    BY <1>1, <1>5
  <2>4. \A t \in {now, now'} : ~Expired(peersSubscribed[p], t)
    BY <1>5, <2>1, <2>2, <2>3, LimitsAssumption DEF Expired
  <2>5. p \in DOMAIN known /\ known[p] = peersSubscribed[p]
    BY <2>4 DEF KeepLivePeers, RemovePeers
  <2>6. \A e \in Entries(subscriptions) :
          (IF e \in late THEN now + 1 ELSE now) \in {now, now'}
    BY <1>1
  <2>7. \A t \in {now, now'} : IsSubscribed(known, p, t)
    BY <2>4, <2>5 DEF IsSubscribed
  <2> QED BY <2>5, <2>6, <2>7
<1> HIDE DEF known, swept
<1>11. \A p \in DOMAIN peersSubscribed \ gone :
         IsSubscribed(peersSubscribed, p, now') =>
           /\ p \in DOMAIN peersSubscribed'
           /\ CriteriaOf(subscriptions', p) = CriteriaOf(subscriptions, p)
  BY <1>2, <1>8, <1>10
<1>12. \A c \in DOMAIN subscriptions' :
         /\ subscriptions'[c] \subseteq subscriptions[c]
         /\ subscriptions'[c] \subseteq DOMAIN peersSubscribed'
  BY <1>2, <1>6, <1>7
<1>13. now' = now => \A p \in DOMAIN peersSubscribed' :
         CriteriaOf(subscriptions', p) = CriteriaOf(subscriptions, p)
  BY <1>2, <1>8, <1>9
<1> QED BY <1>2, <1>3, <1>5, <1>7, <1>8, <1>11, <1>12, <1>13

\* A subscriber's entry counts exactly the criteria it gained; nobody else's
\* entry or criteria change.
LEMMA AddSubscriptionTables ==
  ASSUME IInv, NEW p \in Peers, NEW criteria \in SUBSET Criteria,
         IsFiniteSet(criteria), AddSubscription(p, criteria)
  PROVE  /\ DOMAIN peersSubscribed' = DOMAIN peersSubscribed \cup {p}
         /\ peersSubscribed'[p] \in PeerData
         /\ \A q \in DOMAIN peersSubscribed \ {p} :
              peersSubscribed'[q] = peersSubscribed[q]
         /\ DOMAIN subscriptions' \subseteq Criteria
         /\ \A c \in DOMAIN subscriptions' :
              /\ subscriptions'[c] # {}
              /\ subscriptions'[c] \subseteq DOMAIN peersSubscribed \cup {p}
         /\ \A q \in Peers \ {p} :
              CriteriaOf(subscriptions', q) = CriteriaOf(subscriptions, q)
         /\ peersSubscribed'[p].criteriaCount
              - Cardinality(CriteriaOf(subscriptions', p))
            = IF p \in DOMAIN peersSubscribed
              THEN peersSubscribed[p].criteriaCount
                     - Cardinality(CriteriaOf(subscriptions, p))
              ELSE 0
<1> DEFINE old == CriteriaOf(subscriptions, p)
           added == criteria \ old
           count == IF p \in DOMAIN peersSubscribed
                    THEN peersSubscribed[p].criteriaCount ELSE 0
<1>1. /\ DOMAIN peersSubscribed' = DOMAIN peersSubscribed \cup {p}
      /\ peersSubscribed'[p] =
           [lastSeen |-> now, criteriaCount |-> count + Cardinality(added)]
      /\ \A q \in DOMAIN peersSubscribed \ {p} :
           peersSubscribed'[q] = peersSubscribed[q]
  BY DEF AddSubscription
<1>2. /\ DOMAIN subscriptions' = DOMAIN subscriptions \cup criteria
      /\ \A c \in DOMAIN subscriptions' :
           subscriptions'[c] =
             IF c \in criteria
             THEN (IF c \in DOMAIN subscriptions THEN subscriptions[c] ELSE {})
                    \cup {p}
             ELSE subscriptions[c]
  BY DEF AddSubscription
<1>3. /\ CriteriaOf(subscriptions', p) = old \cup added
      /\ \A q \in Peers \ {p} :
           CriteriaOf(subscriptions', q) = CriteriaOf(subscriptions, q)
  BY <1>2 DEF CriteriaOf
<1>4. IsFiniteSet(old) /\ Cardinality(old) \in Nat
  BY CriteriaOfFinite DEF IInv, TypeOK
<1>5. IsFiniteSet(added) /\ Cardinality(added) \in Nat
  BY FS_Difference, FS_CardinalityType
<1>6. Cardinality(old \cup added) = Cardinality(old) + Cardinality(added)
  <2>1. old \cap added = {}
    OBVIOUS
  <2>2. Cardinality(old \cap added) = 0
    BY <2>1, FS_EmptySet
  <2> HIDE DEF old, added
  <2>3. Cardinality(old \cup added)
          = Cardinality(old) + Cardinality(added) - Cardinality(old \cap added)
    BY <1>4, <1>5, FS_Union
  <2> QED BY <1>4, <1>5, <2>2, <2>3
<1>7. count \in Nat /\ now \in Nat
  BY LimitsAssumption DEF IInv, TypeOK, PeerData
<1>8. p \notin DOMAIN peersSubscribed => Cardinality(old) = 0
  <2>1. p \notin DOMAIN peersSubscribed => old = {}
    BY DEF IInv, ListedPeersAreKnown, CriteriaOf
  <2> QED BY <2>1, FS_EmptySet
<1>9. \A c \in DOMAIN subscriptions' :
        /\ subscriptions'[c] # {}
        /\ subscriptions'[c] \subseteq DOMAIN peersSubscribed \cup {p}
  BY <1>2 DEF IInv, ListedPeersAreKnown
<1>10. DOMAIN subscriptions' \subseteq Criteria
  BY <1>2 DEF IInv, TypeOK
<1>11. peersSubscribed'[p] \in PeerData
  BY <1>1, <1>5, <1>7 DEF PeerData
<1> HIDE DEF old, added
<1>12. peersSubscribed'[p].criteriaCount
              - Cardinality(CriteriaOf(subscriptions', p))
            = count - Cardinality(old)
  BY <1>1, <1>3, <1>4, <1>5, <1>6, <1>7
<1>13. count - Cardinality(old) =
         IF p \in DOMAIN peersSubscribed
         THEN peersSubscribed[p].criteriaCount - Cardinality(old) ELSE 0
  BY <1>8, <1>4, <1>7
<1> QED BY <1>1, <1>3, <1>9, <1>10, <1>11, <1>12, <1>13 DEF old

\* Unsubscribing takes one from the counter for each criterion that really
\* listed the peer, and the entry goes only when nothing lists the peer.
LEMMA RemoveSubscriptionTables ==
  ASSUME IInv, NEW p \in DOMAIN peersSubscribed, NEW visited \in SUBSET Criteria,
         RemoveSubscription(p, visited)
  PROVE  /\ DOMAIN peersSubscribed' \subseteq DOMAIN peersSubscribed
         /\ \A q \in DOMAIN peersSubscribed \ {p} :
              q \in DOMAIN peersSubscribed'
              /\ peersSubscribed'[q] = peersSubscribed[q]
         /\ DOMAIN subscriptions' \subseteq Criteria
         /\ \A c \in DOMAIN subscriptions' :
              /\ subscriptions'[c] # {}
              /\ subscriptions'[c] \subseteq DOMAIN peersSubscribed'
         /\ \A q \in Peers \ {p} :
              CriteriaOf(subscriptions', q) = CriteriaOf(subscriptions, q)
         /\ p \in DOMAIN peersSubscribed' =>
              /\ peersSubscribed'[p] \in PeerData
              /\ peersSubscribed'[p].criteriaCount
                   - Cardinality(CriteriaOf(subscriptions', p))
                 = peersSubscribed[p].criteriaCount
                   - Cardinality(CriteriaOf(subscriptions, p))
<1> DEFINE old == CriteriaOf(subscriptions, p)
           removed == visited \cap old
           count == peersSubscribed[p].criteriaCount - Cardinality(removed)
<1>1. IsFiniteSet(old) /\ Cardinality(old) \in Nat
  BY CriteriaOfFinite DEF IInv, TypeOK
<1>2. IsFiniteSet(removed) /\ Cardinality(removed) \in Nat
      /\ Cardinality(removed) <= Cardinality(old)
  BY <1>1, FS_Intersection, FS_CardinalityType
<1>3. subscriptions' = DropEntries(subscriptions, visited \X {p})
  BY DEF RemoveSubscription
<1>4. /\ DOMAIN subscriptions' \subseteq DOMAIN subscriptions
      /\ \A c \in DOMAIN subscriptions' :
           /\ subscriptions'[c] # {}
           /\ subscriptions'[c] =
                {q \in subscriptions[c] : <<c, q>> \notin visited \X {p}}
  <2> DEFINE gone == visited \X {p}
  <2>1. subscriptions' = DropEntries(subscriptions, gone)
    BY <1>3
  <2> HIDE DEF gone
  <2>2. /\ DOMAIN subscriptions' \subseteq DOMAIN subscriptions
        /\ \A c \in DOMAIN subscriptions' :
             /\ subscriptions'[c] # {}
             /\ subscriptions'[c] = {q \in subscriptions[c] : <<c, q>> \notin gone}
    BY <2>1, DropEntriesTable
  <2> QED BY <2>2 DEF gone
<1>5. \A q : CriteriaOf(subscriptions', q) =
         {c \in CriteriaOf(subscriptions, q) : <<c, q>> \notin visited \X {p}}
  BY <1>3, DropEntriesCriteria
<1>6. CriteriaOf(subscriptions', p) = old \ removed
  BY <1>5
<1>7. \A q \in Peers \ {p} :
        CriteriaOf(subscriptions', q) = CriteriaOf(subscriptions, q)
  BY <1>5
<1>8. Cardinality(old \ removed) = Cardinality(old) - Cardinality(removed)
  <2>1. old \cap removed = removed
    OBVIOUS
  <2> HIDE DEF old, removed
  <2>2. Cardinality(old \ removed) = Cardinality(old) - Cardinality(old \cap removed)
    BY <1>1, <1>2, FS_Difference
  <2> QED BY <2>1, <2>2
<1>9. /\ peersSubscribed[p].criteriaCount \in Nat
      /\ Cardinality(old) <= peersSubscribed[p].criteriaCount
      /\ now \in Nat
  BY LimitsAssumption DEF IInv, TypeOK, PeerData, CountCoversCriteria
<1>10. peersSubscribed' = IF removed # {} /\ count = 0
           THEN RemovePeers(peersSubscribed, {p})
           ELSE [peersSubscribed EXCEPT
                   ![p] = [lastSeen |-> now, criteriaCount |-> count]]
  BY DEF RemoveSubscription
<1> HIDE DEF old, removed
<1>11. count \in Nat
  BY <1>1, <1>2, <1>9
<1>12. CASE removed # {} /\ count = 0
  <2>1. peersSubscribed' = RemovePeers(peersSubscribed, {p})
    BY <1>10, <1>12
  <2>2. Cardinality(CriteriaOf(subscriptions', p)) = 0
    BY <1>1, <1>2, <1>6, <1>8, <1>9, <1>12
  <2>3. CriteriaOf(subscriptions', p) = {}
    BY <1>1, <1>6, <2>2, FS_Difference, FS_EmptySet
  <2>4. \A c \in DOMAIN subscriptions' : p \notin subscriptions'[c]
    BY <2>3 DEF CriteriaOf
  <2>5. DOMAIN peersSubscribed' = DOMAIN peersSubscribed \ {p}
        /\ \A q \in DOMAIN peersSubscribed \ {p} :
             peersSubscribed'[q] = peersSubscribed[q]
    BY <2>1 DEF RemovePeers
  <2>6. \A c \in DOMAIN subscriptions' :
          subscriptions'[c] \subseteq DOMAIN peersSubscribed'
    BY <1>4, <2>4, <2>5 DEF IInv, ListedPeersAreKnown
  <2>7. DOMAIN subscriptions' \subseteq Criteria
    BY <1>4 DEF IInv, TypeOK
  <2> QED BY <1>4, <1>7, <2>5, <2>6, <2>7
<1>13. CASE ~(removed # {} /\ count = 0)
  <2>1. peersSubscribed' = [peersSubscribed EXCEPT
                   ![p] = [lastSeen |-> now, criteriaCount |-> count]]
    BY <1>10, <1>13
  <2>2. peersSubscribed'[p] \in PeerData
    BY <1>9, <1>11, <2>1 DEF PeerData
  <2>3. DOMAIN peersSubscribed' = DOMAIN peersSubscribed
        /\ \A q \in DOMAIN peersSubscribed \ {p} :
             peersSubscribed'[q] = peersSubscribed[q]
    BY <2>1
  <2>4. peersSubscribed'[p].criteriaCount
          - Cardinality(CriteriaOf(subscriptions', p))
        = peersSubscribed[p].criteriaCount - Cardinality(old)
    BY <1>1, <1>2, <1>6, <1>8, <1>9, <2>1
  <2> QED BY <1>4, <1>7, <2>2, <2>3, <2>4 DEF old, IInv, TypeOK, ListedPeersAreKnown
<1> QED BY <1>12, <1>13

-----------------------------------------------------------------------------
(* The invariant.                                                          *)

LEMMA InitIInv == Init => IInv
<1> SUFFICES ASSUME Init PROVE IInv
  OBVIOUS
<1>1. DOMAIN peersSubscribed = {} /\ DOMAIN subscriptions = {}
  BY DEF Init
<1>2. TypeOK
  <2>1. response \in [peer : Peers, status : Statuses]
    <3>1. PICK p \in Peers :
            response = [peer |-> p, status |-> "notFound"]
      BY DEF Init
    <3>2. "notFound" \in Statuses
      BY DEF Statuses
    <3> QED BY <3>1, <3>2
  <2>2. now \in 0..MaxTime
    BY LimitsAssumption DEF Init
  <2>3. peerStore \subseteq Peers /\ maintaining \in BOOLEAN
    BY Zenon DEF Init
  <2> QED BY <1>1, <2>1, <2>2, <2>3 DEF TypeOK
<1>3. PeersWithinLimit
  BY <1>1, FS_EmptySet, LimitsAssumption DEF PeersWithinLimit
<1> QED BY <1>1, <1>2, <1>3 DEF IInv, CountCoversCriteria, ListedPeersAreKnown

\* A sweep preserves the invariant.
LEMMA CleanUpPreserves ==
  ASSUME IInv, NEW gone, CleanUp(RemovePeers(peersSubscribed, gone)),
         peerStore' = peerStore, maintaining' = maintaining,
         response' \in [peer : Peers, status : Statuses]
  PROVE  IInv'
<1>1. TypeOK'
  BY CleanUpTables DEF IInv, TypeOK
<1>2. CountCoversCriteria'
  <2> SUFFICES ASSUME NEW p \in DOMAIN peersSubscribed'
               PROVE  Cardinality(CriteriaOf(subscriptions', p))
                        <= peersSubscribed'[p].criteriaCount
    BY DEF CountCoversCriteria
  <2>1. p \in DOMAIN peersSubscribed /\ p \in Peers
        /\ peersSubscribed'[p] = peersSubscribed[p]
        /\ CriteriaOf(subscriptions', p) \in SUBSET CriteriaOf(subscriptions, p)
    BY CleanUpTables DEF IInv, TypeOK
  <2>2. IsFiniteSet(CriteriaOf(subscriptions, p))
        /\ Cardinality(CriteriaOf(subscriptions, p)) \in Nat
        /\ Cardinality(CriteriaOf(subscriptions', p)) \in Nat
    BY <1>1, CriteriaOfFinite DEF IInv, TypeOK
  <2>3. Cardinality(CriteriaOf(subscriptions', p))
          <= Cardinality(CriteriaOf(subscriptions, p))
    BY <2>1, <2>2, FS_Subset
  <2>4. /\ Cardinality(CriteriaOf(subscriptions, p))
             <= peersSubscribed[p].criteriaCount
        /\ peersSubscribed[p].criteriaCount \in Nat
    BY <2>1 DEF IInv, CountCoversCriteria, TypeOK, PeerData
  <2> QED BY <2>1, <2>2, <2>3, <2>4
<1>3. ListedPeersAreKnown'
  BY CleanUpTables DEF ListedPeersAreKnown
<1>4. PeersWithinLimit'
  <2>1. DOMAIN peersSubscribed' \in SUBSET DOMAIN peersSubscribed
        /\ DOMAIN peersSubscribed \in SUBSET Peers
    BY CleanUpTables DEF IInv, TypeOK
  <2>2. IsFiniteSet(DOMAIN peersSubscribed)
    BY <2>1, PeersAssumption, FS_Subset
  <2>3. Cardinality(DOMAIN peersSubscribed') <= Cardinality(DOMAIN peersSubscribed)
        /\ Cardinality(DOMAIN peersSubscribed') \in Nat
        /\ Cardinality(DOMAIN peersSubscribed) \in Nat
    BY <2>1, <2>2, FS_Subset, FS_CardinalityType
  <2> QED BY <2>3, LimitsAssumption DEF IInv, PeersWithinLimit
<1> QED BY <1>1, <1>2, <1>3, <1>4 DEF IInv

\* A subscription that is not refused preserves the invariant.
LEMMA AddSubscriptionPreserves ==
  ASSUME IInv, NEW p \in Peers, NEW criteria \in SUBSET Criteria,
         IsFiniteSet(criteria), ~RefusesSubscription(p, criteria),
         AddSubscription(p, criteria), Answer(p, "ok"),
         UNCHANGED <<peerStore, maintaining, now>>
  PROVE  IInv'
<1>1. TypeOK'
  <2>1. response' \in [peer : Peers, status : Statuses]
    BY DEF Answer, Statuses
  <2>2. DOMAIN peersSubscribed' \subseteq Peers
        /\ DOMAIN subscriptions' \subseteq Criteria
        /\ \A c \in DOMAIN subscriptions' : subscriptions'[c] \subseteq Peers
    <3>1. /\ DOMAIN peersSubscribed' = DOMAIN peersSubscribed \cup {p}
          /\ DOMAIN subscriptions' \subseteq Criteria
          /\ \A c \in DOMAIN subscriptions' :
               subscriptions'[c] \subseteq DOMAIN peersSubscribed \cup {p}
      BY AddSubscriptionTables
    <3>2. DOMAIN peersSubscribed \cup {p} \subseteq Peers
      BY DEF IInv, TypeOK
    <3> QED BY <3>1, <3>2
  <2>3. \A q \in DOMAIN peersSubscribed' : peersSubscribed'[q] \in PeerData
    <3>1. /\ DOMAIN peersSubscribed' = DOMAIN peersSubscribed \cup {p}
          /\ peersSubscribed'[p] \in PeerData
          /\ \A q \in DOMAIN peersSubscribed \ {p} :
               peersSubscribed'[q] = peersSubscribed[q]
      BY AddSubscriptionTables
    <3>2. \A q \in DOMAIN peersSubscribed : peersSubscribed[q] \in PeerData
      BY DEF IInv, TypeOK
    <3> QED BY <3>1, <3>2
  <2> QED BY <2>1, <2>2, <2>3 DEF IInv, TypeOK
<1>2. CountCoversCriteria'
  <2> SUFFICES ASSUME NEW q \in DOMAIN peersSubscribed'
               PROVE  Cardinality(CriteriaOf(subscriptions', q))
                        <= peersSubscribed'[q].criteriaCount
    BY DEF CountCoversCriteria
  <2>1. q \in Peers /\ Cardinality(CriteriaOf(subscriptions, q)) \in Nat
        /\ Cardinality(CriteriaOf(subscriptions', q)) \in Nat
    BY <1>1, CriteriaOfFinite DEF IInv, TypeOK
  <2>2. CASE q = p
    <3>1. p \in DOMAIN peersSubscribed =>
            /\ peersSubscribed[p].criteriaCount \in Nat
            /\ Cardinality(CriteriaOf(subscriptions, p))
                 <= peersSubscribed[p].criteriaCount
      BY DEF IInv, TypeOK, PeerData, CountCoversCriteria
    <3>2. peersSubscribed'[p].criteriaCount \in Nat
      BY AddSubscriptionTables DEF PeerData
    <3>3. peersSubscribed'[p].criteriaCount
              - Cardinality(CriteriaOf(subscriptions', p))
            = IF p \in DOMAIN peersSubscribed
              THEN peersSubscribed[p].criteriaCount
                     - Cardinality(CriteriaOf(subscriptions, p))
              ELSE 0
      BY AddSubscriptionTables
    <3> QED BY <2>1, <2>2, <3>1, <3>2, <3>3
  <2>3. CASE q # p
    <3>1. /\ q \in DOMAIN peersSubscribed
          /\ peersSubscribed'[q] = peersSubscribed[q]
          /\ CriteriaOf(subscriptions', q) = CriteriaOf(subscriptions, q)
      <4>1. /\ DOMAIN peersSubscribed' = DOMAIN peersSubscribed \cup {p}
            /\ \A r \in DOMAIN peersSubscribed \ {p} :
                 peersSubscribed'[r] = peersSubscribed[r]
            /\ \A r \in Peers \ {p} :
                 CriteriaOf(subscriptions', r) = CriteriaOf(subscriptions, r)
        BY AddSubscriptionTables
      <4> QED BY <2>1, <2>3, <4>1
    <3> QED BY <3>1 DEF IInv, CountCoversCriteria
  <2> QED BY <2>2, <2>3
<1>3. ListedPeersAreKnown'
  BY AddSubscriptionTables DEF ListedPeersAreKnown
<1>4. PeersWithinLimit'
  <2>1. IsFiniteSet(DOMAIN peersSubscribed)
    BY PeersAssumption, FS_Subset DEF IInv, TypeOK
  <2>2. DOMAIN peersSubscribed' = DOMAIN peersSubscribed \cup {p}
    BY AddSubscriptionTables
  <2>3. CASE p \in DOMAIN peersSubscribed
    <3>1. DOMAIN peersSubscribed' = DOMAIN peersSubscribed
      BY <2>2, <2>3
    <3> QED BY <3>1 DEF IInv, PeersWithinLimit
  <2>4. CASE p \notin DOMAIN peersSubscribed
    <3>1. Cardinality(DOMAIN peersSubscribed) < MaxPeers
          /\ Cardinality(DOMAIN peersSubscribed) \in Nat
      BY <2>1, <2>4, FS_CardinalityType, LimitsAssumption DEF RefusesSubscription
    <3>2. Cardinality(DOMAIN peersSubscribed') = Cardinality(DOMAIN peersSubscribed) + 1
      BY <2>1, <2>2, <2>4, FS_AddElement
    <3> QED BY <3>1, <3>2, LimitsAssumption DEF PeersWithinLimit
  <2> QED BY <2>3, <2>4
<1> QED BY <1>1, <1>2, <1>3, <1>4 DEF IInv

\* Unsubscribing, completely or up to the first missing criterion, preserves
\* the invariant.
LEMMA RemoveSubscriptionPreserves ==
  ASSUME IInv, NEW p \in DOMAIN peersSubscribed, NEW visited \in SUBSET Criteria,
         RemoveSubscription(p, visited),
         UNCHANGED <<peerStore, maintaining, now>>,
         response' \in [peer : Peers, status : Statuses]
  PROVE  IInv'
<1>1. TypeOK'
  <2>1. \A q \in DOMAIN peersSubscribed' : peersSubscribed'[q] \in PeerData
    BY RemoveSubscriptionTables DEF IInv, TypeOK
  <2>2. DOMAIN peersSubscribed' \subseteq Peers
        /\ DOMAIN subscriptions' \subseteq Criteria
        /\ \A c \in DOMAIN subscriptions' : subscriptions'[c] \subseteq Peers
    BY RemoveSubscriptionTables DEF IInv, TypeOK
  <2> QED BY <2>1, <2>2 DEF IInv, TypeOK
<1>2. CountCoversCriteria'
  <2> SUFFICES ASSUME NEW q \in DOMAIN peersSubscribed'
               PROVE  Cardinality(CriteriaOf(subscriptions', q))
                        <= peersSubscribed'[q].criteriaCount
    BY DEF CountCoversCriteria
  <2>1. q \in Peers /\ q \in DOMAIN peersSubscribed
        /\ Cardinality(CriteriaOf(subscriptions, q)) \in Nat
        /\ Cardinality(CriteriaOf(subscriptions', q)) \in Nat
    BY <1>1, CriteriaOfFinite, RemoveSubscriptionTables DEF IInv, TypeOK
  <2>2. CASE q = p
    <3>1. /\ peersSubscribed[p].criteriaCount \in Nat
          /\ Cardinality(CriteriaOf(subscriptions, p))
               <= peersSubscribed[p].criteriaCount
      BY DEF IInv, TypeOK, PeerData, CountCoversCriteria
    <3>2. peersSubscribed'[p].criteriaCount \in Nat
      BY <2>2, RemoveSubscriptionTables DEF PeerData
    <3>3. peersSubscribed'[p].criteriaCount
            - Cardinality(CriteriaOf(subscriptions', p)) >= 0
      BY <2>1, <2>2, <3>1, RemoveSubscriptionTables
    <3> QED BY <2>1, <2>2, <3>2, <3>3
  <2>3. CASE q # p
    BY <2>1, <2>3, RemoveSubscriptionTables DEF IInv, CountCoversCriteria
  <2> QED BY <2>2, <2>3
<1>3. ListedPeersAreKnown'
  BY RemoveSubscriptionTables DEF ListedPeersAreKnown
<1>4. PeersWithinLimit'
  <2>1. DOMAIN peersSubscribed' \in SUBSET DOMAIN peersSubscribed
        /\ DOMAIN peersSubscribed \in SUBSET Peers
    BY RemoveSubscriptionTables DEF IInv, TypeOK
  <2>2. IsFiniteSet(DOMAIN peersSubscribed)
    BY <2>1, PeersAssumption, FS_Subset
  <2>3. Cardinality(DOMAIN peersSubscribed') <= Cardinality(DOMAIN peersSubscribed)
        /\ Cardinality(DOMAIN peersSubscribed') \in Nat
        /\ Cardinality(DOMAIN peersSubscribed) \in Nat
    BY <2>1, <2>2, FS_Subset, FS_CardinalityType
  <2> QED BY <2>3, LimitsAssumption DEF IInv, PeersWithinLimit
<1> QED BY <1>1, <1>2, <1>3, <1>4 DEF IInv

\* What a ping changes: at most the sender's lastSeen.
LEMMA PingTables ==
  ASSUME IInv, NEW p \in Peers, Ping(p)
  PROVE  /\ DOMAIN peersSubscribed' = DOMAIN peersSubscribed
         /\ \A q \in DOMAIN peersSubscribed :
              /\ peersSubscribed'[q] \in PeerData
              /\ peersSubscribed'[q].criteriaCount = peersSubscribed[q].criteriaCount
              /\ q # p => peersSubscribed'[q] = peersSubscribed[q]
         /\ response' \in [peer : Peers, status : Statuses]
         /\ response'.peer = p
<1>1. /\ now \in Nat
      /\ \A q \in DOMAIN peersSubscribed : peersSubscribed[q] \in PeerData
  BY LimitsAssumption DEF IInv, TypeOK
<1>2. "ok" \in Statuses /\ "notFound" \in Statuses
  BY DEF Statuses
<1>3. \E st \in {"ok", "notFound"} :
        response' = [peer |-> p, status |-> st]
  BY DEF Ping, Answer
<1>4. \/ peersSubscribed' = peersSubscribed
      \/ /\ p \in DOMAIN peersSubscribed
         /\ peersSubscribed' = [peersSubscribed EXCEPT ![p].lastSeen = now]
  BY DEF Ping, IsSubscribed
<1>5. /\ DOMAIN peersSubscribed' = DOMAIN peersSubscribed
      /\ \A q \in DOMAIN peersSubscribed :
           /\ peersSubscribed'[q] \in PeerData
           /\ peersSubscribed'[q].criteriaCount = peersSubscribed[q].criteriaCount
           /\ q # p => peersSubscribed'[q] = peersSubscribed[q]
  BY <1>1, <1>4 DEF PeerData
<1> QED BY <1>2, <1>3, <1>5

\* Every step preserves the invariant.
LEMMA NextIInv == IInv /\ [Next]_vars => IInv'
<1> SUFFICES ASSUME IInv, [Next]_vars PROVE IInv'
  OBVIOUS
<1> DEFINE Responses == [peer : Peers, status : Statuses]
<1>1. ASSUME NEW p \in Peers, Ping(p) PROVE IInv'
  <2>1. UNCHANGED <<subscriptions, peerStore, maintaining, now>>
    BY <1>1 DEF Ping
  <2>2. TypeOK'
    BY <1>1, <2>1, PingTables DEF IInv, TypeOK
  <2>3. CountCoversCriteria'
    BY <1>1, <2>1, PingTables DEF IInv, CountCoversCriteria, CriteriaOf
  <2>4. ListedPeersAreKnown' /\ PeersWithinLimit'
    BY <1>1, <2>1, PingTables DEF IInv, ListedPeersAreKnown, PeersWithinLimit
  <2> QED BY <2>2, <2>3, <2>4 DEF IInv
<1>2. ASSUME NEW p \in Peers, NEW pubsub \in PubsubTopics \cup {NoTopic},
             NEW topics \in ContentTopicLists, Subscribe(p, pubsub, topics)
      PROVE  IInv'
  <2> DEFINE criteria == FilterCriteria(pubsub, topics)
  <2>1. CASE /\ ~BadRequest(pubsub, topics)
             /\ ~RefusesSubscription(p, criteria)
    <3>1. /\ Answer(p, "ok") /\ AddSubscription(p, criteria)
          /\ UNCHANGED <<peerStore, maintaining, now>>
      BY <1>2, <2>1 DEF Subscribe
    <3>2. criteria \in SUBSET Criteria /\ IsFiniteSet(criteria)
      BY <2>1, RequestCriteria
    <3> HIDE DEF criteria
    <3> QED BY <2>1, <3>1, <3>2, AddSubscriptionPreserves
  <2>2. CASE \/ BadRequest(pubsub, topics)
             \/ RefusesSubscription(p, criteria)
    <3>1. UNCHANGED <<peersSubscribed, subscriptions, peerStore, maintaining, now>>
      BY <1>2, <2>2 DEF Subscribe
    <3>2. \E st \in Statuses : Answer(p, st)
      BY <1>2, <2>2 DEF Subscribe, Statuses
    <3>3. response' \in Responses
      BY <3>2 DEF Answer
    <3> QED BY <3>1, <3>3 DEF IInv, TypeOK, CountCoversCriteria, CriteriaOf,
                ListedPeersAreKnown, PeersWithinLimit
  <2> QED BY <2>1, <2>2
<1>3. ASSUME NEW p \in Peers, NEW pubsub \in PubsubTopics \cup {NoTopic},
             NEW topics \in ContentTopicLists, Unsubscribe(p, pubsub, topics)
      PROVE  IInv'
  <2> DEFINE criteria == FilterCriteria(pubsub, topics)
  <2>1. \E st \in Statuses : Answer(p, st)
    BY <1>3 DEF Unsubscribe, Statuses
  <2>2. response' \in Responses
    BY <2>1 DEF Answer
  <2>3. CASE ~BadRequest(pubsub, topics) /\ p \in DOMAIN peersSubscribed
    <3>1. \E visited \in SUBSET criteria : RemoveSubscription(p, visited)
      BY <1>3, <2>3 DEF Unsubscribe
    <3>2. criteria \subseteq Criteria
      BY <2>3, RequestCriteria
    <3>3. UNCHANGED <<peerStore, maintaining, now>>
      BY <1>3 DEF Unsubscribe
    <3> HIDE DEF criteria
    <3>4. PICK visited \in SUBSET Criteria : RemoveSubscription(p, visited)
      BY <3>1, <3>2
    <3> QED BY <2>2, <2>3, <3>3, <3>4, RemoveSubscriptionPreserves
  <2>4. CASE BadRequest(pubsub, topics) \/ p \notin DOMAIN peersSubscribed
    <3>1. UNCHANGED <<peersSubscribed, subscriptions, peerStore, maintaining, now>>
      BY <1>3, <2>4 DEF Unsubscribe
    <3> QED BY <2>2, <3>1 DEF IInv, TypeOK, CountCoversCriteria, CriteriaOf,
                ListedPeersAreKnown, PeersWithinLimit
  <2> QED BY <2>3, <2>4
<1>4. ASSUME NEW p \in Peers, UnsubscribeAll(p) PROVE IInv'
  <2>1. \E st \in Statuses : Answer(p, st)
    BY <1>4 DEF UnsubscribeAll, Statuses
  <2>2. response' \in Responses
    BY <2>1 DEF Answer
  <2>3. peerStore' = peerStore /\ maintaining' = maintaining
    BY <1>4 DEF UnsubscribeAll
  <2>4. CASE IsSubscribed(peersSubscribed, p, now)
    <3>1. CleanUp(RemovePeers(peersSubscribed, {p}))
      BY <1>4, <2>4 DEF UnsubscribeAll
    <3> QED BY <2>2, <2>3, <3>1, CleanUpPreserves
  <2>5. CASE ~IsSubscribed(peersSubscribed, p, now)
    <3>1. UNCHANGED <<peersSubscribed, subscriptions, now>>
      BY <1>4, <2>5 DEF UnsubscribeAll
    <3> QED BY <2>2, <2>3, <3>1 DEF IInv, TypeOK, CountCoversCriteria, CriteriaOf,
                ListedPeersAreKnown, PeersWithinLimit
  <2> QED BY <2>4, <2>5
<1>5. CASE MaintainSubscriptions
  <2>1. /\ CleanUp(RemovePeers(peersSubscribed, DOMAIN peersSubscribed \ peerStore))
        /\ UNCHANGED <<peerStore, maintaining, response>>
    BY <1>5 DEF MaintainSubscriptions
  <2>2. response' \in Responses
    BY <2>1 DEF IInv, TypeOK
  <2> DEFINE gone == DOMAIN peersSubscribed \ peerStore
  <2>3. CleanUp(RemovePeers(peersSubscribed, gone))
    BY <2>1
  <2> HIDE DEF gone
  <2> QED BY <2>1, <2>2, <2>3, CleanUpPreserves
<1>6. CASE Start \/ Stop \/ Tick \/ UNCHANGED vars
            \/ \E p \in Peers : PeerStoreChange(p)
  <2>1. UNCHANGED <<peersSubscribed, subscriptions, response>>
    BY <1>6 DEF Start, Stop, Tick, PeerStoreChange, vars
  <2>2. now' \in 0..MaxTime
    BY <1>6, LimitsAssumption
       DEF Start, Stop, Tick, PeerStoreChange, vars, IInv, TypeOK
  <2>3. peerStore' \subseteq Peers
    BY <1>6 DEF Start, Stop, Tick, PeerStoreChange, vars, IInv, TypeOK
  <2>4. maintaining' \in BOOLEAN
    BY <1>6, Zenon DEF Start, Stop, Tick, PeerStoreChange, vars, IInv, TypeOK
  <2>5. TypeOK'
    BY <2>1, <2>2, <2>3, <2>4 DEF IInv, TypeOK
  <2> QED BY <2>1, <2>5 DEF IInv, CountCoversCriteria, CriteriaOf,
                ListedPeersAreKnown, PeersWithinLimit
<1> QED
  BY <1>1, <1>2, <1>3, <1>4, <1>5, <1>6 DEF Next, HandleSubscribeRequest

LEMMA Invariance == Spec => []IInv
<1> QED BY InitIInv, NextIInv, PTL DEF Spec

\* Type correctness: in particular the unsigned criteriaCount never wraps in
\* removeSubscription, whatever limits and timeout the node is started with.
THEOREM TypeCorrect == Spec => []TypeOK
<1>1. IInv => TypeOK
  BY DEF IInv
<1> QED BY <1>1, Invariance, PTL

\* The counters of peersSubscribed never fall below what subscriptions lists:
\* removeSubscription never deletes the entry of a peer that is still listed.
\* And after every handler the two tables agree: cleanUp completes what
\* removePeer and removePeers begin, whenever the clock ticks during it.
THEOREM TablesAgree == Spec => []TablesConsistent
<1>1. IInv => TablesConsistent
  BY DEF IInv, TablesConsistent
<1> QED BY <1>1, Invariance, PTL

-----------------------------------------------------------------------------
(* The action properties.                                                  *)

\* A step that raises the counter of a known peer keeps it within the limit.
LEMMA StepKeepsLimit ==
  ASSUME IInv, [Next]_vars,
         NEW q \in DOMAIN peersSubscribed, q \in DOMAIN peersSubscribed'
  PROVE  \/ peersSubscribed'[q].criteriaCount <= peersSubscribed[q].criteriaCount
         \/ peersSubscribed'[q].criteriaCount <= MaxCriteriaPerPeer
<1> DEFINE Within(k) == k <= peersSubscribed[q].criteriaCount \/ k <= MaxCriteriaPerPeer
<1> SUFFICES Within(peersSubscribed'[q].criteriaCount)
  OBVIOUS
<1>1. /\ q \in Peers
      /\ peersSubscribed'[q].criteriaCount \in Nat
      /\ peersSubscribed[q].criteriaCount \in Nat
      /\ Within(peersSubscribed[q].criteriaCount)
  BY NextIInv DEF IInv, TypeOK, PeerData
<1>3. ASSUME NEW gone, CleanUp(RemovePeers(peersSubscribed, gone))
      PROVE  Within(peersSubscribed'[q].criteriaCount)
  <2>1. q \in DOMAIN peersSubscribed /\ peersSubscribed'[q] = peersSubscribed[q]
    BY <1>3, CleanUpTables
  <2> QED BY <1>1, <2>1
<1>4. ASSUME NEW p \in Peers, Ping(p)
      PROVE  Within(peersSubscribed'[q].criteriaCount)
  <2>1. /\ q \in DOMAIN peersSubscribed
        /\ peersSubscribed'[q].criteriaCount = peersSubscribed[q].criteriaCount
    BY <1>4, PingTables
  <2> QED BY <1>1, <2>1
<1>5. ASSUME NEW p \in Peers, NEW criteria, IsFiniteSet(criteria),
             ~RefusesSubscription(p, criteria), AddSubscription(p, criteria)
      PROVE  Within(peersSubscribed'[q].criteriaCount)
  <2> DEFINE added == criteria \ CriteriaOf(subscriptions, p)
             count == IF p \in DOMAIN peersSubscribed
                      THEN peersSubscribed[p].criteriaCount ELSE 0
  <2>1. /\ Cardinality(criteria) \in Nat /\ Cardinality(added) \in Nat
        /\ Cardinality(added) <= Cardinality(criteria)
    <3>1. added \in SUBSET criteria
      OBVIOUS
    <3> HIDE DEF added
    <3> QED BY <1>5, <3>1, FS_Subset, FS_CardinalityType
  <2>2. q = p => peersSubscribed'[q].criteriaCount = count + Cardinality(added)
    BY <1>5 DEF AddSubscription
  <2>3. q # p => q \in DOMAIN peersSubscribed /\ peersSubscribed'[q] = peersSubscribed[q]
    BY <1>5 DEF AddSubscription
  <2> HIDE DEF added
  <2>4. CASE q = p
    BY <1>1, <1>5, <2>1, <2>2, <2>4, LimitsAssumption DEF RefusesSubscription
  <2>5. CASE q # p
    BY <1>1, <2>3, <2>5
  <2> QED BY <2>4, <2>5
<1>6. ASSUME NEW p \in DOMAIN peersSubscribed, NEW visited \in SUBSET Criteria,
             RemoveSubscription(p, visited)
      PROVE  Within(peersSubscribed'[q].criteriaCount)
  <2> DEFINE removed == visited \cap CriteriaOf(subscriptions, p)
  <2>1. Cardinality(removed) \in Nat
    <3>1. IsFiniteSet(CriteriaOf(subscriptions, p))
      BY CriteriaOfFinite DEF IInv, TypeOK
    <3> QED BY <3>1, FS_Intersection, FS_CardinalityType
  <2>2. /\ q \in DOMAIN peersSubscribed
        /\ q # p => peersSubscribed'[q] = peersSubscribed[q]
    BY <1>6, RemoveSubscriptionTables
  <2>3. q = p => peersSubscribed'[q].criteriaCount
                   = peersSubscribed[q].criteriaCount - Cardinality(removed)
    BY <1>6, <2>2 DEF RemoveSubscription, RemovePeers
  <2> HIDE DEF removed
  <2> QED BY <1>1, <2>1, <2>2, <2>3
<1>7. ASSUME NEW p \in Peers, NEW pubsub \in PubsubTopics \cup {NoTopic},
             NEW topics \in ContentTopicLists,
             Subscribe(p, pubsub, topics) \/ Unsubscribe(p, pubsub, topics)
      PROVE  Within(peersSubscribed'[q].criteriaCount)
  <2> DEFINE criteria == FilterCriteria(pubsub, topics)
  <2>1. ~BadRequest(pubsub, topics) =>
          /\ criteria \in SUBSET Criteria /\ IsFiniteSet(criteria)
    BY RequestCriteria
  <2>2. \/ UNCHANGED <<peersSubscribed, subscriptions>>
        \/ /\ ~BadRequest(pubsub, topics) /\ ~RefusesSubscription(p, criteria)
           /\ AddSubscription(p, criteria)
        \/ /\ ~BadRequest(pubsub, topics) /\ p \in DOMAIN peersSubscribed
           /\ \E visited \in SUBSET criteria : RemoveSubscription(p, visited)
    BY <1>7 DEF Subscribe, Unsubscribe
  <2> HIDE DEF criteria, Within
  <2>3. UNCHANGED peersSubscribed => Within(peersSubscribed'[q].criteriaCount)
    BY <1>1
  <2> QED BY <1>5, <1>6, <2>1, <2>2, <2>3
<1>8. UNCHANGED peersSubscribed => Within(peersSubscribed'[q].criteriaCount)
  BY <1>1
<1> HIDE DEF Within
<1>9. ASSUME NEW p \in Peers, UnsubscribeAll(p)
      PROVE  Within(peersSubscribed'[q].criteriaCount)
  BY <1>3, <1>8, <1>9 DEF UnsubscribeAll
<1>10. CASE MaintainSubscriptions
  BY <1>3, <1>10 DEF MaintainSubscriptions
<1>11. CASE Start \/ Stop \/ Tick \/ UNCHANGED vars
             \/ \E p \in Peers : PeerStoreChange(p)
  BY <1>8, <1>11 DEF Start, Stop, Tick, PeerStoreChange, vars
<1> QED
  BY <1>4, <1>7, <1>9, <1>10, <1>11 DEF Next, HandleSubscribeRequest

\* For every limit, the server never knows more than maxPeers peers, and no
\* step raises a known peer's counter above maxCriteriaPerPeer.
THEOREM LimitsEnforced == Spec => LimitsBindKnownPeers
<1>1. IInv /\ [Next]_vars =>
        [/\ PeersWithinLimit'
         /\ \A p \in DOMAIN peersSubscribed \cap DOMAIN peersSubscribed' :
              \/ peersSubscribed'[p].criteriaCount <= peersSubscribed[p].criteriaCount
              \/ peersSubscribed'[p].criteriaCount <= MaxCriteriaPerPeer]_vars
  <2> SUFFICES ASSUME IInv, [Next]_vars
               PROVE  /\ PeersWithinLimit'
                      /\ \A p \in DOMAIN peersSubscribed \cap DOMAIN peersSubscribed' :
                           \/ peersSubscribed'[p].criteriaCount <= peersSubscribed[p].criteriaCount
                           \/ peersSubscribed'[p].criteriaCount <= MaxCriteriaPerPeer
    OBVIOUS
  <2>1. PeersWithinLimit'
    BY NextIInv DEF IInv
  <2>2. ASSUME NEW p \in DOMAIN peersSubscribed \cap DOMAIN peersSubscribed'
        PROVE  \/ peersSubscribed'[p].criteriaCount <= peersSubscribed[p].criteriaCount
               \/ peersSubscribed'[p].criteriaCount <= MaxCriteriaPerPeer
    BY StepKeepsLimit
  <2> QED BY <2>1, <2>2
<1> QED BY <1>1, Invariance, PTL DEF Spec, LimitsBindKnownPeers

\* What a step does to the counters of the peers that stay in the table.
LEMMA StepKeepsExact ==
  ASSUME IInv, [Next]_vars, CountsExact, now' = now PROVE CountsExact'
<1> SUFFICES ASSUME NEW q \in DOMAIN peersSubscribed'
             PROVE  Cardinality(CriteriaOf(subscriptions', q))
                      = peersSubscribed'[q].criteriaCount
  BY DEF CountsExact
<1>1. IInv'
  BY NextIInv
<1>2. /\ q \in Peers
      /\ Cardinality(CriteriaOf(subscriptions, q)) \in Nat
      /\ Cardinality(CriteriaOf(subscriptions', q)) \in Nat
      /\ peersSubscribed'[q].criteriaCount \in Nat
      /\ q \in DOMAIN peersSubscribed =>
           /\ peersSubscribed[q].criteriaCount \in Nat
           /\ Cardinality(CriteriaOf(subscriptions, q))
                = peersSubscribed[q].criteriaCount
  BY <1>1, CriteriaOfFinite DEF IInv, TypeOK, PeerData, CountsExact
<1>3. ASSUME q \in DOMAIN peersSubscribed,
             peersSubscribed'[q].criteriaCount = peersSubscribed[q].criteriaCount,
             CriteriaOf(subscriptions', q) = CriteriaOf(subscriptions, q)
      PROVE  Cardinality(CriteriaOf(subscriptions', q))
               = peersSubscribed'[q].criteriaCount
  BY <1>2, <1>3
<1>4. ASSUME UNCHANGED <<peersSubscribed, subscriptions>>
      PROVE  Cardinality(CriteriaOf(subscriptions', q))
               = peersSubscribed'[q].criteriaCount
  BY <1>2, <1>4
<1>5. ASSUME NEW gone, CleanUp(RemovePeers(peersSubscribed, gone))
      PROVE  Cardinality(CriteriaOf(subscriptions', q))
               = peersSubscribed'[q].criteriaCount
  <2>1. /\ q \in DOMAIN peersSubscribed
        /\ peersSubscribed'[q] = peersSubscribed[q]
        /\ CriteriaOf(subscriptions', q) = CriteriaOf(subscriptions, q)
    BY <1>5, CleanUpTables
  <2> QED BY <1>3, <2>1
<1>6. ASSUME NEW p \in Peers, Ping(p)
      PROVE  Cardinality(CriteriaOf(subscriptions', q))
               = peersSubscribed'[q].criteriaCount
  <2>1. /\ q \in DOMAIN peersSubscribed
        /\ peersSubscribed'[q].criteriaCount = peersSubscribed[q].criteriaCount
    BY <1>6, PingTables
  <2>2. CriteriaOf(subscriptions', q) = CriteriaOf(subscriptions, q)
    BY <1>6 DEF Ping
  <2> QED BY <1>3, <2>1, <2>2
<1>7. ASSUME NEW p \in Peers, NEW criteria \in SUBSET Criteria,
             IsFiniteSet(criteria), AddSubscription(p, criteria)
      PROVE  Cardinality(CriteriaOf(subscriptions', q))
               = peersSubscribed'[q].criteriaCount
  <2>1. CASE q = p
    <3>1. peersSubscribed'[p].criteriaCount
              - Cardinality(CriteriaOf(subscriptions', p))
            = IF p \in DOMAIN peersSubscribed
              THEN peersSubscribed[p].criteriaCount
                     - Cardinality(CriteriaOf(subscriptions, p))
              ELSE 0
      BY <1>7, AddSubscriptionTables
    <3> QED BY <1>2, <2>1, <3>1
  <2>2. CASE q # p
    <3>1. /\ DOMAIN peersSubscribed' = DOMAIN peersSubscribed \cup {p}
          /\ \A r \in DOMAIN peersSubscribed \ {p} :
               peersSubscribed'[r] = peersSubscribed[r]
          /\ \A r \in Peers \ {p} :
               CriteriaOf(subscriptions', r) = CriteriaOf(subscriptions, r)
      BY <1>7, AddSubscriptionTables
    <3>2. /\ q \in DOMAIN peersSubscribed
          /\ peersSubscribed'[q] = peersSubscribed[q]
          /\ CriteriaOf(subscriptions', q) = CriteriaOf(subscriptions, q)
      BY <1>2, <2>2, <3>1
    <3> QED BY <1>3, <3>2
  <2> QED BY <2>1, <2>2
<1>8. ASSUME NEW p \in DOMAIN peersSubscribed, NEW visited \in SUBSET Criteria,
             RemoveSubscription(p, visited)
      PROVE  Cardinality(CriteriaOf(subscriptions', q))
               = peersSubscribed'[q].criteriaCount
  <2>1. CASE q = p
    <3>1. peersSubscribed'[p].criteriaCount
            - Cardinality(CriteriaOf(subscriptions', p))
          = peersSubscribed[p].criteriaCount
            - Cardinality(CriteriaOf(subscriptions, p))
      BY <1>8, <2>1, RemoveSubscriptionTables
    <3> QED BY <1>2, <2>1, <3>1
  <2>2. CASE q # p
    <3>1. /\ q \in DOMAIN peersSubscribed
          /\ peersSubscribed'[q] = peersSubscribed[q]
          /\ CriteriaOf(subscriptions', q) = CriteriaOf(subscriptions, q)
      BY <1>2, <1>8, <2>2, RemoveSubscriptionTables
    <3> QED BY <1>3, <3>1
  <2> QED BY <2>1, <2>2
<1>9. ASSUME NEW p \in Peers, NEW pubsub \in PubsubTopics \cup {NoTopic},
             NEW topics \in ContentTopicLists,
             Subscribe(p, pubsub, topics) \/ Unsubscribe(p, pubsub, topics)
      PROVE  Cardinality(CriteriaOf(subscriptions', q))
               = peersSubscribed'[q].criteriaCount
  <2> DEFINE criteria == FilterCriteria(pubsub, topics)
  <2>1. ~BadRequest(pubsub, topics) =>
          criteria \in SUBSET Criteria /\ IsFiniteSet(criteria)
    BY RequestCriteria
  <2>2. \/ UNCHANGED <<peersSubscribed, subscriptions>>
        \/ ~BadRequest(pubsub, topics) /\ AddSubscription(p, criteria)
        \/ /\ ~BadRequest(pubsub, topics) /\ p \in DOMAIN peersSubscribed
           /\ \E visited \in SUBSET criteria : RemoveSubscription(p, visited)
    BY <1>9 DEF Subscribe, Unsubscribe
  <2> HIDE DEF criteria
  <2> QED BY <1>4, <1>7, <1>8, <2>1, <2>2
<1>10. ASSUME NEW p \in Peers, UnsubscribeAll(p)
       PROVE  Cardinality(CriteriaOf(subscriptions', q))
                = peersSubscribed'[q].criteriaCount
  BY <1>4, <1>5, <1>10 DEF UnsubscribeAll
<1>11. CASE MaintainSubscriptions
  BY <1>5, <1>11 DEF MaintainSubscriptions
<1>12. CASE Start \/ Stop \/ Tick \/ UNCHANGED vars
             \/ \E p \in Peers : PeerStoreChange(p)
  BY <1>4, <1>12 DEF Start, Stop, Tick, PeerStoreChange, vars
<1> QED
  BY <1>6, <1>9, <1>10, <1>11, <1>12 DEF Next, HandleSubscribeRequest

\* Only a cleanUp during which the clock ticks can leave a counter larger than
\* the number of criteria listed; every other step keeps exact counters exact.
THEOREM DriftOnlyInLateSweep == Spec => CountsDriftOnlyInLateSweep
<1>1. IInv /\ [Next]_vars =>
        [CountsExact => (CountsExact' \/ now' # now)]_vars
  BY StepKeepsExact
<1> QED BY <1>1, Invariance, PTL DEF Spec, CountsDriftOnlyInLateSweep

\* Dropping entries that are not the peer's leaves its own.
LEMMA DropEntriesOfOthers ==
  ASSUME NEW subs, NEW gone, NEW c \in DOMAIN subs, NEW p \in subs[c],
         <<c, p>> \notin gone
  PROVE  /\ c \in DOMAIN DropEntries(subs, gone)
         /\ p \in DropEntries(subs, gone)[c]
BY Zenon DEF DropEntries, PeersLeft

\* A sweep that spares a live peer spares the criteria it is listed under:
\* the peer is live at both readings of the clock.
LEMMA CleanUpSpares ==
  ASSUME IInv, NEW gone, CleanUp(RemovePeers(peersSubscribed, gone)),
         NEW p \in Peers, p \notin gone, IsSubscribed(peersSubscribed, p, now'),
         NEW c \in DOMAIN subscriptions, p \in subscriptions[c]
  PROVE  /\ p \in DOMAIN peersSubscribed'
         /\ peersSubscribed'[p] = peersSubscribed[p]
         /\ c \in DOMAIN subscriptions' /\ p \in subscriptions'[c]
<1> DEFINE ps == RemovePeers(peersSubscribed, gone)
           known == KeepLivePeers(ps, now)
           Away(late) == {e \in Entries(subscriptions) :
                            ~IsSubscribed(known, e[2], IF e \in late THEN now + 1 ELSE now)}
<1>1. PICK late \in LateSets(subscriptions) :
        /\ now' = IF late = {} THEN now ELSE now + 1
        /\ subscriptions' = DropEntries(subscriptions, Away(late))
        /\ peersSubscribed' = known
  BY DEF CleanUp, SweptSubscriptions
<1>2. /\ p \in DOMAIN peersSubscribed /\ peersSubscribed[p].lastSeen \in Nat
      /\ now \in Nat /\ SubscriptionTimeout \in Nat
  BY LimitsAssumption DEF IInv, TypeOK, IsSubscribed, PeerData
<1>3. ~Expired(peersSubscribed[p], now')
  BY DEF IsSubscribed
<1>4. ~Expired(peersSubscribed[p], now)
  BY <1>1, <1>2, <1>3 DEF Expired
<1>5. p \in DOMAIN ps /\ ps[p] = peersSubscribed[p]
  BY <1>2, Zenon DEF RemovePeers
<1> HIDE DEF ps
<1>6. p \in DOMAIN known /\ known[p] = peersSubscribed[p]
  BY <1>4, <1>5, Zenon DEF KeepLivePeers, RemovePeers
<1> HIDE DEF known
<1>7. ASSUME NEW t \in {now, now + 1}, late # {} \/ t = now
      PROVE  IsSubscribed(known, p, t)
  <2>1. CASE t = now
    BY <1>4, <1>6, <2>1 DEF IsSubscribed
  <2>2. CASE t # now
    <3>1. t = now'
      BY <1>1, <1>7, <2>2
    <3> QED BY <1>3, <1>6, <3>1 DEF IsSubscribed
  <2> QED BY <2>1, <2>2
<1>8. <<c, p>> \notin Away(late)
  <2> DEFINE e == <<c, p>>
  <2>1. e[2] = p
    OBVIOUS
  <2>2. CASE e \in late
    <3>1. IsSubscribed(known, p, now + 1)
      BY <1>7, <2>2
    <3> QED BY <2>1, <2>2, <3>1, Zenon
  <2>3. CASE e \notin late
    <3>1. IsSubscribed(known, p, now)
      BY <1>7
    <3> QED BY <2>1, <2>3, <3>1, Zenon
  <2> QED BY <2>2, <2>3
<1> HIDE DEF Away
<1> QED BY <1>1, <1>6, <1>8, DropEntriesOfOthers

\* What keeps a live peer served: its entry is as it was or fresher, and each
\* criterion still lists it.
StillServed(p, c) ==
  /\ p \in DOMAIN peersSubscribed'
  /\ peersSubscribed'[p] = peersSubscribed[p]
  /\ c \in DOMAIN subscriptions' /\ p \in subscriptions'[c]

\* No step but the peer's own request takes a criterion from a live peer.
LEMMA StepKeepsServed ==
  ASSUME IInv, Next, NEW p \in Peers, p \in peerStore,
         IsSubscribed(peersSubscribed, p, now'),
         response'.peer # p \/ MaintainSubscriptions,
         NEW c \in DOMAIN subscriptions, p \in subscriptions[c]
  PROVE  StillServed(p, c)
<1>0. p \in DOMAIN peersSubscribed
  BY DEF IsSubscribed
<1>1. CASE MaintainSubscriptions
  <2>1. p \notin DOMAIN peersSubscribed \ peerStore
    OBVIOUS
  <2> QED BY <1>1, <2>1, CleanUpSpares, Zenon DEF MaintainSubscriptions, StillServed
<1>2. CASE UNCHANGED <<peersSubscribed, subscriptions>>
  BY <1>0, <1>2 DEF StillServed
<1>3. ASSUME NEW q \in Peers, q # p, Ping(q)  PROVE StillServed(p, c)
  <2>1. peersSubscribed'[p] = peersSubscribed[p] /\ p \in DOMAIN peersSubscribed'
    BY <1>0, <1>3, PingTables
  <2> QED BY <1>3, <2>1 DEF Ping, StillServed
<1>4. ASSUME NEW q \in Peers, q # p, UnsubscribeAll(q)  PROVE StillServed(p, c)
  <2>1. CASE IsSubscribed(peersSubscribed, q, now)
    <3>1. CleanUp(RemovePeers(peersSubscribed, {q})) /\ p \notin {q}
      BY <1>4, <2>1 DEF UnsubscribeAll
    <3> QED BY <3>1, CleanUpSpares, Zenon DEF StillServed
  <2>2. CASE ~IsSubscribed(peersSubscribed, q, now)
    BY <1>2, <1>4, <2>2 DEF UnsubscribeAll
  <2> QED BY <2>1, <2>2
<1>5. ASSUME NEW q \in Peers, q # p, NEW pubsub \in PubsubTopics \cup {NoTopic},
             NEW topics \in ContentTopicLists, Subscribe(q, pubsub, topics)
      PROVE  StillServed(p, c)
  <2> DEFINE criteria == FilterCriteria(pubsub, topics)
             listed(d) == IF d \in DOMAIN subscriptions THEN subscriptions[d] ELSE {}
  <2>1. UNCHANGED <<peersSubscribed, subscriptions>> \/ AddSubscription(q, criteria)
    BY <1>5, Zenon DEF Subscribe
  <2>2. CASE AddSubscription(q, criteria)
    <3> HIDE DEF criteria
    <3>1. /\ DOMAIN peersSubscribed' = DOMAIN peersSubscribed \cup {q}
          /\ \A r \in DOMAIN peersSubscribed \ {q} : peersSubscribed'[r] = peersSubscribed[r]
      BY <2>2, Zenon DEF AddSubscription
    <3>2. subscriptions' = [d \in DOMAIN subscriptions \cup criteria |->
                              IF d \in criteria THEN listed(d) \cup {q} ELSE subscriptions[d]]
      BY <2>2, Zenon DEF AddSubscription
    <3>3. c \in DOMAIN subscriptions' /\ p \in subscriptions'[c]
      BY <3>2
    <3> QED BY <1>0, <1>5, <3>1, <3>3 DEF StillServed
  <2> QED BY <1>2, <2>1, <2>2
<1>6. ASSUME NEW q \in Peers, q # p, NEW pubsub \in PubsubTopics \cup {NoTopic},
             NEW topics \in ContentTopicLists, Unsubscribe(q, pubsub, topics)
      PROVE  StillServed(p, c)
  <2>1. UNCHANGED <<peersSubscribed, subscriptions>>
        \/ (q \in DOMAIN peersSubscribed /\ \E visited : RemoveSubscription(q, visited))
    BY <1>6, Zenon DEF Unsubscribe
  <2>2. ASSUME NEW visited, RemoveSubscription(q, visited)  PROVE StillServed(p, c)
    <3>1. subscriptions' = DropEntries(subscriptions, visited \X {q})
      BY <2>2 DEF RemoveSubscription
    <3>2. <<c, p>> \notin visited \X {q}
      BY <1>6
    <3>3. c \in DOMAIN subscriptions' /\ p \in subscriptions'[c]
      BY <3>1, <3>2, DropEntriesOfOthers
    <3>4. p \in DOMAIN peersSubscribed' /\ peersSubscribed'[p] = peersSubscribed[p]
      BY <1>0, <1>6, <2>2, Zenon DEF RemoveSubscription, RemovePeers
    <3> QED BY <3>3, <3>4 DEF StillServed
  <2> QED BY <1>2, <2>1, <2>2
<1>7. ASSUME NEW q \in Peers,
             \/ Ping(q) \/ UnsubscribeAll(q)
             \/ \E pubsub \in PubsubTopics \cup {NoTopic}, topics \in ContentTopicLists :
                  Subscribe(q, pubsub, topics) \/ Unsubscribe(q, pubsub, topics)
      PROVE  response'.peer = q
  <2>1. \E status : response' = [peer |-> q, status |-> status]
    BY <1>7, Zenon DEF Ping, UnsubscribeAll, Subscribe, Unsubscribe, Answer
  <2> QED BY <2>1
<1>8. CASE HandleSubscribeRequest /\ ~MaintainSubscriptions
  BY <1>3, <1>4, <1>5, <1>6, <1>7, <1>8 DEF HandleSubscribeRequest
<1>9. CASE Start \/ Stop \/ Tick \/ \E q \in Peers : PeerStoreChange(q)
  BY <1>2, <1>9, Zenon DEF Start, Stop, Tick, PeerStoreChange
<1> QED BY <1>1, <1>8, <1>9 DEF Next

\* A live peer in the peer store keeps every criterion it is served for, over
\* each request of others, each timeout of others and each maintenance sweep,
\* wherever in the sweep the clock ticks.
THEOREM LivePeersStayServed == Spec => LivePeersKeepCriteria
<1> DEFINE Kept(p) == (/\ p \in peerStore
                       /\ IsSubscribed(peersSubscribed, p, now'))
                      => \/ ServedTo(p) \subseteq ServedTo(p)'
                         \/ response'.peer = p /\ ~MaintainSubscriptions
<1>1. IInv /\ [Next]_vars => [\A p \in Peers : Kept(p)]_vars
  <2> SUFFICES ASSUME IInv, Next, NEW p \in Peers, p \in peerStore,
                      IsSubscribed(peersSubscribed, p, now'),
                      response'.peer # p \/ MaintainSubscriptions,
                      NEW c \in ServedTo(p)
               PROVE  c \in ServedTo(p)'
    BY DEF vars
  <2>1. c \in Criteria /\ c \in DOMAIN subscriptions /\ p \in subscriptions[c]
    BY DEF ServedTo, FindSubscribedPeers
  <2>2. StillServed(p, c)
    BY <2>1, StepKeepsServed
  <2>3. IsSubscribed(peersSubscribed', p, now')
    BY <2>2 DEF StillServed, IsSubscribed
  <2>4. p \in FindSubscribedPeers(c)'
    BY <2>2, <2>3 DEF StillServed, FindSubscribedPeers
  <2> QED BY <2>1, <2>4 DEF ServedTo
<1> QED BY <1>1, Invariance, PTL DEF Spec, LivePeersKeepCriteria
=============================================================================
