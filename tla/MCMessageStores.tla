-------------------------- MODULE MCMessageStores --------------------------
(***************************************************************************)
(* The two stores of messages, QueueArchive and MessageCache, on small     *)
(* instances.  They share no state, so a behaviour follows one of them,    *)
(* named by part, while the other stays as it starts.                      *)
(*                                                                         *)
(* The archive has five messages: two without timestamp; one of them also  *)
(* with the timestamp 2; two of the same time on different topics.  The    *)
(* cache has four on two content topics, two of them with the same         *)
(* timestamp, and two pubsub topics.                                       *)
(***************************************************************************)
EXTENDS QueueArchive, MessageCache

CONSTANTS m1, m2, m3, m4, c1, c2

VARIABLE part

storeVars == <<part, vars, cacheVars>>

Message(topic, time, digest) ==
  [pubsubTopic |-> topic, timestamp |-> time, digest |-> digest]

MCMessages ==
  {Message(1, 0, 1), Message(2, 0, 2), Message(1, 2, 1), Message(1, 1, 3), Message(2, 1, 3)}

MCContentTopicOf ==
  [m \in WakuMessages |-> IF m \in {m1, m2} THEN c1 ELSE c2]

MCTimestampOf ==
  [m \in WakuMessages |-> CASE m = m1 -> 2 [] m = m2 -> 1 [] OTHER -> 3]

StoresInit == part \in {"archive", "cache"} /\ Init /\ CacheInit

StoresNext ==
  \/ part = "archive" /\ Next /\ UNCHANGED <<part, cacheVars>>
  \/ part = "cache" /\ CacheNext /\ UNCHANGED <<part, vars>>

\* Nobody reads the archive while the cache is followed.
StoresSpec == StoresInit /\ [][StoresNext]_storeVars /\ WF_vars(FindMessages)
=============================================================================
