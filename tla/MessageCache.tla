---------------------------- MODULE MessageCache ----------------------------
(***************************************************************************)
(* The cache behind the relay and filter REST endpoints                    *)
(* (waku_api/message_cache.nim).  Messages and topics live in unordered    *)
(* sequences whose del() moves the last element into the hole, and two     *)
(* index sequences refer to them by position, so that every deletion has   *)
(* to renumber what it moved.  Positions start at 1 here, at 0 there.      *)
(***************************************************************************)
EXTENDS Integers, Sequences, FiniteSets, SequencesExt

CONSTANTS
  WakuMessages,     \* the messages there are
  ContentTopicOf,   \* message -> its contentTopic
  TimestampOf,      \* message -> its timestamp
  PubsubTopics,
  ContentTopics,
  CacheCapacity     \* capacity

ASSUME CacheAssumption ==
  /\ ContentTopicOf \in [WakuMessages -> ContentTopics]
  /\ TimestampOf \in [WakuMessages -> Int]
  /\ CacheCapacity \in Nat \ {0}

VARIABLES
  pubsubTopics,   \* sequence of subscribed pubsub topics
  contentTopics,  \* sequence of subscribed content topics
  pubsubIndex,    \* sequence of <<position of topic, position of message>>
  contentIndex,   \* sequence of <<position of topic, position of message>>
  messages,       \* sequence of cached messages
  returned,       \* what the call that made the step returned
  defect,         \* an index was out of range: the Defect ends the program
  arrivedOn       \* history: the pubsub topic each cached message came on

cacheVars == <<pubsubTopics, contentTopics, pubsubIndex, contentIndex, messages,
               returned, defect, arrivedOn>>

-----------------------------------------------------------------------------
(* Sequences with a deleting swap.                                         *)

\* Nim's del: the last element takes the place of the deleted one.
Del(s, i) == IF i = Len(s) THEN Front(s) ELSE [Front(s) EXCEPT ![i] = Last(s)]

Search(topics, t) == {i \in DOMAIN topics : topics[i] = t}

AddIfAbsent(topics, t) ==
  IF Search(topics, t) = {} THEN Append(topics, t) ELSE topics

PositionOf(topics, t) == CHOOSE i \in Search(topics, t) : TRUE

\* An entry e of an index whose component col refers to position i goes; one
\* that refers to position "last", which del() has moved to i, is renumbered.
VisitEntry(s, j, col, i, last) ==
  CASE s[j][col] = i -> Del(s, j)
    [] s[j][col] = last /\ last # i -> [s EXCEPT ![j][col] = i]
    [] OTHER -> s

\* The loop that does this from the last entry of an index to the first.
Reindexed(index, col, i, last) ==
  LET n == Len(index)
      after[k \in 0..n] ==
        IF k = 0 THEN index ELSE VisitEntry(after[k - 1], n + 1 - k, col, i, last)
  IN  after[n]

MessagePositions(index, topicPosition) ==
  {index[j][2] : j \in {k \in DOMAIN index : index[k][1] = topicPosition}}

Ascending(S) == CHOOSE s \in SetToSeqs(S) : \A i, j \in DOMAIN s : i < j => s[i] < s[j]

Descending(S) == CHOOSE s \in SetToSeqs(S) : \A i, j \in DOMAIN s : i < j => s[i] > s[j]

-----------------------------------------------------------------------------
(* The parts of the state that removeMessage changes, as one record.       *)

Store == [messages |-> messages, pubsubIndex |-> pubsubIndex,
          contentIndex |-> contentIndex, defect |-> FALSE]

RemoveMessage(st, i) ==
  IF st.defect \/ i \notin DOMAIN st.messages
  THEN [st EXCEPT !.defect = TRUE]
  ELSE LET last == Len(st.messages)
       IN  [messages |-> Del(st.messages, i),
            pubsubIndex |-> Reindexed(st.pubsubIndex, 2, i, last),
            contentIndex |-> Reindexed(st.contentIndex, 2, i, last),
            defect |-> FALSE]

RemoveInOrder(st, positions) ==
  LET after[k \in 0..Len(positions)] ==
        IF k = 0 THEN st ELSE RemoveMessage(after[k - 1], positions[k])
  IN  after[Len(positions)]

Become(st) ==
  /\ messages' = st.messages
  /\ pubsubIndex' = st.pubsubIndex
  /\ contentIndex' = st.contentIndex
  /\ defect' = st.defect
  /\ arrivedOn' = [m \in DOMAIN arrivedOn \cap Range(st.messages) |-> arrivedOn[m]]

-----------------------------------------------------------------------------
PubsubSubscribe(t) ==
  /\ pubsubTopics' = AddIfAbsent(pubsubTopics, t)
  /\ returned' = {}
  /\ UNCHANGED <<contentTopics, pubsubIndex, contentIndex, messages, defect,
                 arrivedOn>>

ContentSubscribe(t) ==
  /\ contentTopics' = AddIfAbsent(contentTopics, t)
  /\ returned' = {}
  /\ UNCHANGED <<pubsubTopics, pubsubIndex, contentIndex, messages, defect,
                 arrivedOn>>

\* Faulty: removes messages the other index still serves.
PubsubUnsubscribeShared(t) ==
  /\ Search(pubsubTopics, t) # {}
  /\ LET i == PositionOf(pubsubTopics, t)
         orphans == MessagePositions(pubsubIndex, i)
         st == [Store EXCEPT !.pubsubIndex =
                  Reindexed(pubsubIndex, 1, i, Len(pubsubTopics))]
     IN  /\ pubsubTopics' = Del(pubsubTopics, i)
         /\ Become(RemoveInOrder(st, Descending(orphans)))
  /\ returned' = {}
  /\ UNCHANGED contentTopics

\* Faulty: leaves the messages nobody serves any more.
PubsubUnsubscribeKeepingOrphans(t) ==
  /\ Search(pubsubTopics, t) # {}
  /\ LET i == PositionOf(pubsubTopics, t)
         st == [Store EXCEPT !.pubsubIndex =
                  Reindexed(pubsubIndex, 1, i, Len(pubsubTopics))]
     IN  /\ pubsubTopics' = Del(pubsubTopics, i)
         /\ Become(st)
  /\ returned' = {}
  /\ UNCHANGED contentTopics

(* Unsubscribing drops the topic's index entries and then the messages no  *)
(* entry of the other index refers to, highest position first, so that the *)
(* positions still to be visited do not move.                              *)
PubsubUnsubscribe(t) ==
  /\ Search(pubsubTopics, t) # {}
  /\ LET i == PositionOf(pubsubTopics, t)
         orphans == MessagePositions(pubsubIndex, i)
                      \ {contentIndex[j][2] : j \in DOMAIN contentIndex}
         st == [Store EXCEPT !.pubsubIndex =
                  Reindexed(pubsubIndex, 1, i, Len(pubsubTopics))]
     IN  /\ pubsubTopics' = Del(pubsubTopics, i)
         /\ Become(RemoveInOrder(st, Descending(orphans)))
  /\ returned' = {}
  /\ UNCHANGED contentTopics

ContentUnsubscribe(t) ==
  /\ Search(contentTopics, t) # {}
  /\ LET i == PositionOf(contentTopics, t)
         orphans == MessagePositions(contentIndex, i)
                      \ {pubsubIndex[j][2] : j \in DOMAIN pubsubIndex}
         st == [Store EXCEPT !.contentIndex =
                  Reindexed(contentIndex, 1, i, Len(contentTopics))]
     IN  /\ contentTopics' = Del(contentTopics, i)
         /\ Become(RemoveInOrder(st, Descending(orphans)))
  /\ returned' = {}
  /\ UNCHANGED pubsubTopics

Reset ==
  /\ messages' = <<>> /\ pubsubTopics' = <<>> /\ contentTopics' = <<>>
  /\ pubsubIndex' = <<>> /\ contentIndex' = <<>>
  /\ arrivedOn' = [m \in {} |-> 0]
  /\ returned' = {}
  /\ UNCHANGED defect

\* Of the messages with the least timestamp, the one stored last.
OldestMsg ==
  CHOOSE i \in DOMAIN messages : \A j \in DOMAIN messages :
    \/ TimestampOf[messages[i]] < TimestampOf[messages[j]]
    \/ TimestampOf[messages[i]] = TimestampOf[messages[j]] /\ i >= j

\* Faulty: makes room one message too late.
AddMessageOverCapacity(t, m) ==
  LET c == ContentTopicOf[m]
      pubsub == AddIfAbsent(pubsubTopics, t)
      content == AddIfAbsent(contentTopics, c)
      st == IF Len(messages) > CacheCapacity
            THEN RemoveMessage(Store, OldestMsg) ELSE Store
      position == Len(st.messages) + 1
      kept == DOMAIN arrivedOn \cap Range(st.messages)
  IN  /\ m \notin Range(messages)
      /\ Search(pubsubTopics, t) # {} \/ Search(contentTopics, c) # {}
      /\ pubsubTopics' = pubsub
      /\ contentTopics' = content
      /\ messages' = Append(st.messages, m)
      /\ pubsubIndex' = Append(st.pubsubIndex, <<PositionOf(pubsub, t), position>>)
      /\ contentIndex' = Append(st.contentIndex, <<PositionOf(content, c), position>>)
      /\ arrivedOn' = [n \in kept \cup {m} |-> IF n = m THEN t ELSE arrivedOn[n]]
      /\ returned' = {}
  /\ UNCHANGED defect

(* A message is kept when either of its topics is subscribed, and makes    *)
(* the other one subscribed too.  A full cache first gives up its oldest.  *)
AddMessage(t, m) ==
  LET c == ContentTopicOf[m]
      pubsub == AddIfAbsent(pubsubTopics, t)
      content == AddIfAbsent(contentTopics, c)
      st == IF Len(messages) >= CacheCapacity
            THEN RemoveMessage(Store, OldestMsg) ELSE Store
      position == Len(st.messages) + 1
      kept == DOMAIN arrivedOn \cap Range(st.messages)
  IN  /\ m \notin Range(messages)
      /\ Search(pubsubTopics, t) # {} \/ Search(contentTopics, c) # {}
      /\ pubsubTopics' = pubsub
      /\ contentTopics' = content
      /\ messages' = Append(st.messages, m)
      /\ pubsubIndex' = Append(st.pubsubIndex, <<PositionOf(pubsub, t), position>>)
      /\ contentIndex' = Append(st.contentIndex, <<PositionOf(content, c), position>>)
      /\ arrivedOn' = [n \in kept \cup {m} |-> IF n = m THEN t ELSE arrivedOn[n]]
      /\ returned' = {}
  /\ UNCHANGED defect

\* The message positions of a topic, in the order of the index.
InIndexOrder(index, topicPosition) ==
  LET hits == Ascending({k \in DOMAIN index : index[k][1] = topicPosition})
  IN  [k \in DOMAIN hits |-> index[hits[k]][2]]

(* With clear, getMessages removes in the reverse of the index order.      *)
GetMessages(t, clear) ==
  /\ Search(pubsubTopics, t) # {}
  /\ LET positions == InIndexOrder(pubsubIndex, PositionOf(pubsubTopics, t))
     IN  /\ returned' = {messages[positions[k]] : k \in DOMAIN positions}
         /\ Become(IF clear THEN RemoveInOrder(Store, Reverse(positions)) ELSE Store)
  /\ UNCHANGED <<pubsubTopics, contentTopics>>

(* With clear, getAutoMessages removes the highest position first.         *)
GetAutoMessages(c, clear) ==
  /\ Search(contentTopics, c) # {}
  /\ LET positions == MessagePositions(contentIndex, PositionOf(contentTopics, c))
     IN  /\ returned' = {messages[i] : i \in positions}
         /\ Become(IF clear THEN RemoveInOrder(Store, Descending(positions)) ELSE Store)
  /\ UNCHANGED <<pubsubTopics, contentTopics>>

CacheInit ==
  /\ pubsubTopics = <<>> /\ contentTopics = <<>>
  /\ pubsubIndex = <<>> /\ contentIndex = <<>>
  /\ messages = <<>> /\ returned = {} /\ defect = FALSE
  /\ arrivedOn = [m \in {} |-> 0]

CacheNext ==
  /\ ~defect
  /\ \/ \E t \in PubsubTopics : \/ PubsubSubscribe(t)
                                \/ PubsubUnsubscribe(t)
                                \/ \E m \in WakuMessages : AddMessage(t, m)
                                \/ \E clear \in BOOLEAN : GetMessages(t, clear)
     \/ \E c \in ContentTopics : \/ ContentSubscribe(c)
                                 \/ ContentUnsubscribe(c)
                                 \/ \E clear \in BOOLEAN : GetAutoMessages(c, clear)
     \/ Reset

CacheSpec == CacheInit /\ [][CacheNext]_cacheVars

-----------------------------------------------------------------------------
(* Properties.                                                             *)

\* The shape of the state: an index never refers to a position out of range.
CacheTypeOK ==
  /\ \A i \in DOMAIN pubsubTopics : pubsubTopics[i] \in PubsubTopics
  /\ \A i \in DOMAIN contentTopics : contentTopics[i] \in ContentTopics
  /\ \A i \in DOMAIN messages : messages[i] \in WakuMessages
  /\ \A j \in DOMAIN pubsubIndex :
       pubsubIndex[j] \in (DOMAIN pubsubTopics) \X (DOMAIN messages)
  /\ \A j \in DOMAIN contentIndex :
       contentIndex[j] \in (DOMAIN contentTopics) \X (DOMAIN messages)
  /\ returned \subseteq WakuMessages
  /\ defect \in BOOLEAN
  /\ \A m \in DOMAIN arrivedOn : arrivedOn[m] \in PubsubTopics

EntriesOf(index, i) == {j \in DOMAIN index : index[j][2] = i}

\* After every deletion the two indices still point at the right things: an
\* entry of pubsubIndex joins a message to the topic it arrived on, an entry
\* of contentIndex joins it to its own content topic, no message has two
\* entries in an index, and none is left that no index can reach.
IndexFaithful ==
  ~defect =>
    /\ \A j \in DOMAIN pubsubIndex :
         LET e == pubsubIndex[j]
         IN  pubsubTopics[e[1]] = arrivedOn[messages[e[2]]]
    /\ \A j \in DOMAIN contentIndex :
         LET e == contentIndex[j]
         IN  contentTopics[e[1]] = ContentTopicOf[messages[e[2]]]
    /\ \A i \in DOMAIN messages :
         /\ Cardinality(EntriesOf(pubsubIndex, i)) <= 1
         /\ Cardinality(EntriesOf(contentIndex, i)) <= 1
         /\ EntriesOf(pubsubIndex, i) # {} \/ EntriesOf(contentIndex, i) # {}

\* A full cache makes room before it adds, and a message is stored once: the
\* cache holds at most CacheCapacity messages, all different.
BoundedWithoutDuplicates ==
  /\ Len(messages) <= CacheCapacity
  /\ Cardinality(Range(messages)) = Len(messages)

\* The cache is sound after every call, whatever was deleted before.
CacheSound == CacheTypeOK /\ IndexFaithful /\ BoundedWithoutDuplicates

\* getAutoMessages with clear takes out of the cache exactly the messages it
\* returns, whatever the order of the index: the next poll of any endpoint
\* misses nothing and repeats nothing.
AutoClearRemovesReturned ==
  [][\A c \in ContentTopics :
       GetAutoMessages(c, TRUE) =>
         ~defect' /\ Range(messages') = Range(messages) \ returned']_cacheVars

\* Unsubscribing from a topic loses no message that the other index still
\* serves.
UnsubscribeKeepsOthers ==
  [][/\ \A t \in PubsubTopics : PubsubUnsubscribe(t) =>
          \A j \in DOMAIN contentIndex :
            messages[contentIndex[j][2]] \in Range(messages')
     /\ \A c \in ContentTopics : ContentUnsubscribe(c) =>
          \A j \in DOMAIN pubsubIndex :
            messages[pubsubIndex[j][2]] \in Range(messages')]_cacheVars
=============================================================================
