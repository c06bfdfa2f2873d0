------------------------ MODULE FilterSubscriptions ------------------------
(***************************************************************************)
(* The server side of the Waku filter protocol: the subscription tables of *)
(* waku_filter_v2/subscriptions.nim with the request handlers and the      *)
(* maintenance timer of waku_filter_v2/protocol.nim.                       *)
(*                                                                         *)
(* The node is one chronos event loop, so a request handler runs to its    *)
(* end without interleaving and is one action.  What does interleave is    *)
(* the clock, which is read many times inside one cleanUp, and the peer    *)
(* store, which other protocols change.                                    *)
(***************************************************************************)
EXTENDS Integers, Sequences, FiniteSets

CONSTANTS
  Peers,                      \* peer ids that contact the filter server
  PubsubTopics,
  ContentTopics,
  ContentTopicLists,          \* the contentTopics field of a request
  MaxPeers,                   \* maxPeers
  MaxCriteriaPerPeer,         \* maxCriteriaPerPeer
  SubscriptionTimeout,        \* subscriptionTimeout, in clock ticks
  MaxContentTopicsPerRequest,
  MaxTime,                    \* bound on the clock
  NoTopic                     \* an absent pubsubTopic

Criteria == PubsubTopics \X ContentTopics

ASSUME PeersAssumption == IsFiniteSet(Peers)
ASSUME TopicsAssumption ==
  /\ IsFiniteSet(PubsubTopics) /\ IsFiniteSet(ContentTopics)
  /\ NoTopic \notin PubsubTopics
  /\ ContentTopicLists \subseteq Seq(ContentTopics)
ASSUME LimitsAssumption ==
  /\ MaxPeers \in Nat /\ MaxCriteriaPerPeer \in Nat
  /\ SubscriptionTimeout \in Nat /\ MaxContentTopicsPerRequest \in Nat
  /\ MaxTime \in Nat

VARIABLES
  peersSubscribed,  \* peer -> [lastSeen, criteriaCount], for the known peers
  subscriptions,    \* criterion -> set of peers, for the criteria in the table
  peerStore,        \* peers the peer store has under WakuFilterPushCodec
  maintaining,      \* whether the maintenance timer is armed
  response,         \* [peer, status] of the last handled request
  now               \* Moment.now()

vars == <<peersSubscribed, subscriptions, peerStore, maintaining, response, now>>

Statuses == {"ok", "badRequest", "notFound", "serviceUnavailable"}

-----------------------------------------------------------------------------
(* The tables.  Each operator returns the table after the operation; the   *)
(* tables are its parameters, since handlers chain several operations.     *)

Expired(data, t) == t - data.lastSeen > SubscriptionTimeout

IsSubscribed(ps, p, t) == p \in DOMAIN ps /\ ~Expired(ps[p], t)

\* The peers a message with this criterion is pushed to.
FindSubscribedPeers(c) ==
  IF c \in DOMAIN subscriptions
  THEN {p \in subscriptions[c] : IsSubscribed(peersSubscribed, p, now)}
  ELSE {}

\* The criteria a peer is listed under, whatever its criteriaCount says.
CriteriaOf(subs, p) == {c \in DOMAIN subs : p \in subs[c]}

RemovePeers(ps, gone) == [p \in DOMAIN ps \ gone |-> ps[p]]

\* Faulty: the sweep of peersSubscribed forgets expired peers are to go.
KeepAllPeers(ps, t) == ps

KeepLivePeers(ps, t) == RemovePeers(ps, {p \in DOMAIN ps : Expired(ps[p], t)})

\* The peers left under a criterion when the <<criterion, peer>> entries "gone"
\* are removed; a criterion whose last peer leaves is dropped from the table.
PeersLeft(subs, gone, c) == {p \in subs[c] : <<c, p>> \notin gone}

\* Faulty: a criterion goes with the first of its peers.
DropTouchedCriteria(subs, gone) ==
  [c \in {d \in DOMAIN subs : PeersLeft(subs, gone, d) = subs[d]} |-> subs[c]]

DropEntries(subs, gone) ==
  [c \in {d \in DOMAIN subs : PeersLeft(subs, gone, d) # {}} |->
     PeersLeft(subs, gone, c)]

(* cleanUp reads the clock once for peersSubscribed and again for every    *)
(* entry of every criterion.  The clock may tick while it runs: "late" are *)
(* the entries visited after the tick.  The tables are visited one         *)
(* criterion after another in hash order, so at most one criterion has     *)
(* entries on both sides of the tick.                                      *)
Entries(subs) == {e \in Criteria \X Peers :
                    e[1] \in DOMAIN subs /\ e[2] \in subs[e[1]]}

LateSets(subs) ==
  {late \in SUBSET Entries(subs) :
     \A c, d \in DOMAIN subs :
       /\ \E p, q \in subs[c] : <<c, p>> \in late /\ <<c, q>> \notin late
       /\ \E p, q \in subs[d] : <<d, p>> \in late /\ <<d, q>> \notin late
       => c = d}

\* Faulty: cleanUp sweeps peersSubscribed only.
UnsweptSubscriptions(ps, subs, late) == subs

SweptSubscriptions(ps, subs, late) ==
  DropEntries(subs,
    {e \in Entries(subs) :
       ~IsSubscribed(ps, e[2], IF e \in late THEN now + 1 ELSE now)})

\* cleanUp started on the peer table ps.
CleanUp(ps) ==
  LET known == KeepLivePeers(ps, now)
  IN  /\ peersSubscribed' = known
      /\ \E late \in LateSets(subscriptions) :
           /\ late # {} => now < MaxTime
           /\ now' = IF late = {} THEN now ELSE now + 1
           /\ subscriptions' = SweptSubscriptions(known, subscriptions, late)

-----------------------------------------------------------------------------
(* The requests.                                                           *)

Answer(p, status) ==
  response' = [peer |-> p, status |-> status]

Ping(p) ==
  /\ IF IsSubscribed(peersSubscribed, p, now)
     THEN /\ peersSubscribed' = [peersSubscribed EXCEPT ![p].lastSeen = now]
          /\ Answer(p, "ok")
     ELSE /\ UNCHANGED peersSubscribed
          /\ Answer(p, "notFound")
  /\ UNCHANGED <<subscriptions, peerStore, maintaining, now>>

BadRequest(pubsub, topics) ==
  \/ pubsub = NoTopic
  \/ Len(topics) = 0
  \/ Len(topics) > MaxContentTopicsPerRequest

FilterCriteria(pubsub, topics) ==
  {<<pubsub, topics[i]>> : i \in DOMAIN topics}

\* Faulty: off by one on the peers.
RefusesOnePeerLate(p, criteria) ==
  IF p \in DOMAIN peersSubscribed
  THEN peersSubscribed[p].criteriaCount + Cardinality(criteria)
         > MaxCriteriaPerPeer
  ELSE Cardinality(DOMAIN peersSubscribed) > MaxPeers

\* Faulty: no limit for a known peer.
RefusesNewPeersOnly(p, criteria) ==
  p \notin DOMAIN peersSubscribed /\ Cardinality(DOMAIN peersSubscribed) >= MaxPeers

\* The limit on criteria is checked for a peer already in the table only.
RefusesSubscription(p, criteria) ==
  IF p \in DOMAIN peersSubscribed
  THEN peersSubscribed[p].criteriaCount + Cardinality(criteria)
         > MaxCriteriaPerPeer
  ELSE Cardinality(DOMAIN peersSubscribed) >= MaxPeers

\* Faulty: counts the criteria the peer already has again.
AddSubscriptionCountingAll(p, criteria) ==
  LET added == criteria
      count == IF p \in DOMAIN peersSubscribed
               THEN peersSubscribed[p].criteriaCount ELSE 0
      listed(c) == IF c \in DOMAIN subscriptions THEN subscriptions[c] ELSE {}
  IN  /\ peersSubscribed' =
           [q \in DOMAIN peersSubscribed \cup {p} |->
              IF q = p
              THEN [lastSeen |-> now,
                    criteriaCount |-> count + Cardinality(added)]
              ELSE peersSubscribed[q]]
      /\ subscriptions' =
           [c \in DOMAIN subscriptions \cup criteria |->
              IF c \in criteria THEN listed(c) \cup {p} ELSE subscriptions[c]]

\* Faulty: forgets the criteria the peer already has.
AddSubscriptionRestartingCount(p, criteria) ==
  LET added == criteria \ CriteriaOf(subscriptions, p)
      listed(c) == IF c \in DOMAIN subscriptions THEN subscriptions[c] ELSE {}
  IN  /\ peersSubscribed' =
           [q \in DOMAIN peersSubscribed \cup {p} |->
              IF q = p
              THEN [lastSeen |-> now,
                    criteriaCount |-> Cardinality(added)]
              ELSE peersSubscribed[q]]
      /\ subscriptions' =
           [c \in DOMAIN subscriptions \cup criteria |->
              IF c \in criteria THEN listed(c) \cup {p} ELSE subscriptions[c]]

AddSubscription(p, criteria) ==
  LET added == criteria \ CriteriaOf(subscriptions, p)
      count == IF p \in DOMAIN peersSubscribed
               THEN peersSubscribed[p].criteriaCount ELSE 0
      listed(c) == IF c \in DOMAIN subscriptions THEN subscriptions[c] ELSE {}
  IN  /\ peersSubscribed' =
           [q \in DOMAIN peersSubscribed \cup {p} |->
              IF q = p
              THEN [lastSeen |-> now,
                    criteriaCount |-> count + Cardinality(added)]
              ELSE peersSubscribed[q]]
      /\ subscriptions' =
           [c \in DOMAIN subscriptions \cup criteria |->
              IF c \in criteria THEN listed(c) \cup {p} ELSE subscriptions[c]]

Subscribe(p, pubsub, topics) ==
  LET criteria == FilterCriteria(pubsub, topics)
  IN  /\ \/ /\ BadRequest(pubsub, topics)
            /\ Answer(p, "badRequest")
            /\ UNCHANGED <<peersSubscribed, subscriptions>>
         \/ /\ ~BadRequest(pubsub, topics)
            /\ RefusesSubscription(p, criteria)
            /\ Answer(p, "serviceUnavailable")
            /\ UNCHANGED <<peersSubscribed, subscriptions>>
         \/ /\ ~BadRequest(pubsub, topics)
            /\ ~RefusesSubscription(p, criteria)
            /\ Answer(p, "ok")
            /\ AddSubscription(p, criteria)
      /\ UNCHANGED <<peerStore, maintaining, now>>

\* Faulty: counts down for criteria that do not list the peer too.
RemoveSubscriptionUnlisted(p, visited) ==
  LET removed == visited \cap CriteriaOf(subscriptions, p)
      count == peersSubscribed[p].criteriaCount - Cardinality(visited)
  IN  /\ peersSubscribed' =
           IF removed # {} /\ count = 0
           THEN RemovePeers(peersSubscribed, {p})
           ELSE [peersSubscribed EXCEPT
                   ![p] = [lastSeen |-> now, criteriaCount |-> count]]
      /\ subscriptions' = DropEntries(subscriptions, visited \X {p})

(* removeSubscription visits the criteria in hash order and stops with an  *)
(* error at the first one the table does not have; "visited" are those it  *)
(* got through.  The peer leaves the table when its counter reaches zero.  *)
RemoveSubscription(p, visited) ==
  LET removed == visited \cap CriteriaOf(subscriptions, p)
      count == peersSubscribed[p].criteriaCount - Cardinality(removed)
  IN  /\ peersSubscribed' =
           IF removed # {} /\ count = 0
           THEN RemovePeers(peersSubscribed, {p})
           ELSE [peersSubscribed EXCEPT
                   ![p] = [lastSeen |-> now, criteriaCount |-> count]]
      /\ subscriptions' = DropEntries(subscriptions, visited \X {p})

Unsubscribe(p, pubsub, topics) ==
  LET criteria == FilterCriteria(pubsub, topics)
      missing == criteria \ DOMAIN subscriptions
  IN  /\ \/ /\ BadRequest(pubsub, topics)
            /\ Answer(p, "badRequest")
            /\ UNCHANGED <<peersSubscribed, subscriptions>>
         \/ /\ ~BadRequest(pubsub, topics)
            /\ p \notin DOMAIN peersSubscribed
            /\ Answer(p, "notFound")
            /\ UNCHANGED <<peersSubscribed, subscriptions>>
         \/ /\ ~BadRequest(pubsub, topics)
            /\ p \in DOMAIN peersSubscribed
            /\ missing = {}
            /\ Answer(p, "ok")
            /\ RemoveSubscription(p, criteria)
         \/ /\ ~BadRequest(pubsub, topics)
            /\ p \in DOMAIN peersSubscribed
            /\ missing # {}
            /\ Answer(p, "notFound")
            /\ \E visited \in SUBSET (criteria \ missing) :
                 RemoveSubscription(p, visited)
      /\ UNCHANGED <<peerStore, maintaining, now>>

UnsubscribeAll(p) ==
  /\ IF IsSubscribed(peersSubscribed, p, now)
     THEN /\ CleanUp(RemovePeers(peersSubscribed, {p}))
          /\ Answer(p, "ok")
     ELSE /\ UNCHANGED <<peersSubscribed, subscriptions, now>>
          /\ Answer(p, "notFound")
  /\ UNCHANGED <<peerStore, maintaining>>

HandleSubscribeRequest ==
  \E p \in Peers :
    \/ Ping(p)
    \/ UnsubscribeAll(p)
    \/ \E pubsub \in PubsubTopics \cup {NoTopic}, topics \in ContentTopicLists :
         Subscribe(p, pubsub, topics) \/ Unsubscribe(p, pubsub, topics)

-----------------------------------------------------------------------------
(* Maintenance, pushes and the environment.                                *)

MaintainSubscriptions ==
  /\ maintaining
  /\ CleanUp(RemovePeers(peersSubscribed, DOMAIN peersSubscribed \ peerStore))
  /\ UNCHANGED <<peerStore, maintaining, response>>

Start == /\ maintaining' = TRUE
         /\ UNCHANGED <<peersSubscribed, subscriptions, peerStore,
                        response, now>>

Stop == /\ maintaining' = FALSE
        /\ UNCHANGED <<peersSubscribed, subscriptions, peerStore,
                       response, now>>

\* External: libp2p's identify and the peer manager change the peer store.
PeerStoreChange(p) ==
  /\ peerStore' = IF p \in peerStore THEN peerStore \ {p} ELSE peerStore \cup {p}
  /\ UNCHANGED <<peersSubscribed, subscriptions, maintaining, response, now>>

Tick == /\ now < MaxTime
        /\ now' = now + 1
        /\ UNCHANGED <<peersSubscribed, subscriptions, peerStore,
                       maintaining, response>>

Init == /\ peersSubscribed = [p \in {} |-> [lastSeen |-> 0, criteriaCount |-> 0]]
        /\ subscriptions = [c \in {} |-> {}]
        /\ peerStore \in SUBSET Peers
        /\ maintaining = FALSE
        /\ \E p \in Peers :
             response = [peer |-> p, status |-> "notFound"]
        /\ now = 0

Next == \/ HandleSubscribeRequest
        \/ MaintainSubscriptions
        \/ Start
        \/ Stop
        \/ \E p \in Peers : PeerStoreChange(p)
        \/ Tick

(* The maintenance timer re-arms itself and the event loop runs every      *)
(* timer that is due.  No request is assumed ever to come.                 *)
Fairness == WF_vars(MaintainSubscriptions)

Spec == Init /\ [][Next]_vars

FairSpec == Spec /\ Fairness

-----------------------------------------------------------------------------
(* Properties.                                                             *)

PeerData == [lastSeen : Nat, criteriaCount : Nat]

\* The shape of the state.  criteriaCount is unsigned in the code: that it
\* stays in Nat says "criteriaCount -= 1" in removeSubscription never wraps.
TypeOK ==
  /\ DOMAIN peersSubscribed \subseteq Peers
  /\ \A p \in DOMAIN peersSubscribed : peersSubscribed[p] \in PeerData
  /\ DOMAIN subscriptions \subseteq Criteria
  /\ \A c \in DOMAIN subscriptions : subscriptions[c] \subseteq Peers
  /\ peerStore \subseteq Peers
  /\ maintaining \in BOOLEAN
  /\ response \in [peer : Peers, status : Statuses]
  /\ now \in 0..MaxTime

\* A peer's criteriaCount never falls below the number of criteria that list
\* it, whatever the order of requests, sweeps and clock ticks.  This is what
\* keeps removeSubscription from deleting the peer's entry while one of its
\* criteria is still listed, and from using the entry after it is deleted.
CountCoversCriteria ==
  \A p \in DOMAIN peersSubscribed :
    Cardinality(CriteriaOf(subscriptions, p)) <= peersSubscribed[p].criteriaCount

\* The two tables agree on who is known: a criterion lists only peers of
\* peersSubscribed, and a criterion that lists nobody is not in the table.
\* removePeer and removePeers touch one table only and rely on the cleanUp
\* that follows for the other.
ListedPeersAreKnown ==
  \A c \in DOMAIN subscriptions :
    subscriptions[c] # {} /\ subscriptions[c] \subseteq DOMAIN peersSubscribed

\* The node never serves more peers than filter-max-peers-to-serve, expired
\* peers that no sweep has removed yet included.
PeersWithinLimit == Cardinality(DOMAIN peersSubscribed) <= MaxPeers

\* What the description of filter-max-criteria says, "Maximum number of pubsub-
\* and content topic combination per peers at a time".
CriteriaWithinLimit ==
  \A p \in DOMAIN peersSubscribed : peersSubscribed[p].criteriaCount <= MaxCriteriaPerPeer

\* The two tables and the counters hang together after every handler.
TablesConsistent == ListedPeersAreKnown /\ CountCoversCriteria

\* The limits addSubscription enforces: no step takes one peer too many, and
\* none raises the counter of a peer the server already knows above
\* maxCriteriaPerPeer, also when the counter has drifted above what the tables
\* list.  A new peer's first request is another matter: CriteriaWithinLimit.
LimitsBindKnownPeers ==
  [][/\ PeersWithinLimit'
     /\ \A p \in DOMAIN peersSubscribed \cap DOMAIN peersSubscribed' :
          \/ peersSubscribed'[p].criteriaCount <= peersSubscribed[p].criteriaCount
          \/ peersSubscribed'[p].criteriaCount <= MaxCriteriaPerPeer]_vars

CountsExact ==
  \A p \in DOMAIN peersSubscribed :
    Cardinality(CriteriaOf(subscriptions, p)) = peersSubscribed[p].criteriaCount

\* The counters drift away from the tables in one way only: a cleanUp during
\* which the clock ticks, so that a peer is live when peersSubscribed is swept
\* and expired when its criteria are.  Every other step keeps exact counters
\* exact.
CountsDriftOnlyInLateSweep ==
  [][CountsExact => (CountsExact' \/ now' # now)]_vars

ServedTo(p) == {c \in Criteria : p \in FindSubscribedPeers(c)}

\* A peer that is live, and in the peer store, loses no criterion it is pushed
\* messages for unless it asks itself: not by another peer's request, not by
\* another peer's timeout, not by the maintenance timer.
LivePeersKeepCriteria ==
  [][\A p \in Peers :
       /\ p \in peerStore
       /\ IsSubscribed(peersSubscribed, p, now')
       => \/ ServedTo(p) \subseteq ServedTo(p)'
          \/ response'.peer = p /\ ~MaintainSubscriptions]_vars

\* While the maintenance timer is armed, a peer whose subscription timed out is
\* removed from the tables, unless it comes back in time.
ExpiredPeersAreDropped ==
  \A p \in Peers :
    /\ p \in DOMAIN peersSubscribed
    /\ ~IsSubscribed(peersSubscribed, p, now)
    ~> \/ p \notin DOMAIN peersSubscribed
       \/ IsSubscribed(peersSubscribed, p, now)
       \/ ~maintaining
=============================================================================
