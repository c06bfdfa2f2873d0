------------------------- MODULE MessageStoreProofs -------------------------
(***************************************************************************)
(* The two stores of messages.                                             *)
(*                                                                         *)
(* QueueArchive.  The queue keeps the newest of the messages it is         *)
(* offered, and a client that reads to the end misses nothing, for every   *)
(* set of messages, capacity, page size and order of arrival.              *)
(*                                                                         *)
(* Before is a strict partial order on indices, and what a search can miss *)
(* (MayMiss) is never a neighbour: so two items are never equal by their   *)
(* keys, and the first item is before all others.  What is lost is before  *)
(* the first item, and nothing is lost before the queue is full.  Then the *)
(* cursor of a client is the edge of what it has received: everything it   *)
(* should get is received or beyond the edge.                              *)
(*                                                                         *)
(* MessageCache.  After any calls the two indices of the cache refer to    *)
(* the right messages and topics, for every capacity.  What the loops of   *)
(* removeMessage and of the unsubscriptions compute is found by induction  *)
(* on their steps: a renumbered index has the old entries that do          *)
(* not refer to what was deleted, once each, and del() moves one element.  *)
(* The invariant is that both indices join messages to their topics and    *)
(* reach every message.  An unsubscription leaves some unreached until     *)
(* they are removed; from the highest position down, the positions of the  *)
(* others do not change meanwhile.                                         *)
(***************************************************************************)
EXTENDS QueueArchive, MessageCache, InductionLemmas, SequenceTheorems

\* What the keys of an index are, which is all that Before needs to know.
LEMMA IndexFacts ==
  ASSUME NEW x \in Indices
  PROVE  /\ x.msg \in Messages
         /\ TimeOf(x) \in Nat /\ x.msg.digest \in Nat /\ x.msg.pubsubTopic \in Nat
         /\ x.msg.timestamp \in Nat
         /\ x.msg.timestamp > 0 => x = [msg |-> x.msg, receiverTime |-> x.msg.timestamp]
<1>1. PICK m \in Messages, t \in Times : x = IndexOf(m, t)
  BY DEF Indices
<1>2. m \in [pubsubTopic : Nat \ {0}, timestamp : Nat, digest : Nat]
  BY MessagesAssumption
<1>3. t \in Nat
  BY SizesAssumption DEF Times
<1>4. x.msg = m /\ x.receiverTime = IF m.timestamp > 0 THEN m.timestamp ELSE t
  BY <1>1 DEF IndexOf
<1>5. TimeOf(x) \in Nat
  BY <1>2, <1>3, <1>4 DEF TimeOf
<1>6. m.timestamp > 0 => x = [msg |-> m, receiverTime |-> m.timestamp]
  BY <1>1 DEF IndexOf
<1> QED  BY <1>2, <1>4, <1>5, <1>6

\* Before (the second half of cmp in index.nim) is a strict partial order.
LEMMA BeforeIsOrder ==
  ASSUME NEW x \in Indices, NEW y \in Indices, NEW z \in Indices
  PROVE  /\ ~(Before(x, y) /\ Before(y, x))
         /\ Before(x, z) /\ Before(z, y) => Before(x, y)
BY IndexFacts, SMTT(30) DEF Before

\* The index of a message that comes now.
LEMMA NewIndex ==
  ASSUME NEW m \in Messages, now \in Times
  PROVE  IndexOf(m, now) \in Indices
BY DEF Indices

\* An index a search misses has its own place among the items, and equals one
\* of them only when it has no timestamp.
LEMMA MissedHasPlace ==
  ASSUME NEW S, S \subseteq Indices, NEW y \in Indices, MayMiss(S, y), NEW x \in S
  PROVE  /\ x # y
         /\ Before(x, y) \/ Before(y, x)
         /\ Equal(x, y) => x.msg.timestamp = 0
<1>1. Before(x, y) \/ Before(y, x)
  <2> SUFFICES ASSUME ~Before(x, y), ~Before(y, x) PROVE FALSE
    OBVIOUS
  <2>1. x \in Found(S, y)
    BY DEF Found, Same
  <2>2. PICK z \in S : Between(x, z, y)
    BY <2>1 DEF MayMiss
  <2>3. Before(x, y) \/ Before(y, x)
    BY <2>2, BeforeIsOrder DEF Between
  <2> QED  BY <2>3
<1>2. x # y
  BY <1>1, BeforeIsOrder
<1>3. Equal(x, y) => x.msg.timestamp = 0
  <2> SUFFICES ASSUME Equal(x, y), x.msg.timestamp # 0 PROVE FALSE
    OBVIOUS
  <2>1. x.msg = y.msg /\ x.msg.timestamp > 0
    BY IndexFacts DEF Equal
  <2>2. x = y
    BY <2>1, IndexFacts
  <2> QED  BY <2>2, <1>2
<1> QED  BY <1>1, <1>2, <1>3

\* Items are apart: no two are equal by their keys.
Apart(S) ==
  \A x, y \in S : x # y => /\ Before(x, y) \/ Before(y, x)
                           /\ Equal(x, y) => x.msg.timestamp = 0

Types ==
  /\ items \subseteq Indices /\ lost \subseteq Indices /\ now \in Times
  /\ IsFiniteSet(items) /\ Cardinality(items) <= Capacity
  /\ repeated \in BOOLEAN

\* Nothing is lost from a queue that is not full, except when it fails.
LostWhenFull == ~repeated /\ lost # {} => failed \/ Full(items)

\* Two indices of one message are never both known while it came once.
KnownOnce == ~repeated => ~Twice(items \cup lost)

IInv == Types /\ Apart(items) /\ LostWhenFull /\ KnownOnce /\ KeepsNewest

LEMMA ApartAdd ==
  ASSUME NEW S, S \subseteq Indices, NEW y \in Indices, MayMiss(S, y), Apart(S)
  PROVE  Apart(S \cup {y})
<1> SUFFICES ASSUME NEW a \in S \cup {y}, NEW b \in S \cup {y}, a # b
             PROVE  /\ Before(a, b) \/ Before(b, a)
                    /\ Equal(a, b) => a.msg.timestamp = 0
  BY DEF Apart
<1>1. CASE a \in S /\ b \in S
  BY <1>1 DEF Apart
<1>2. CASE a \in S /\ b = y
  BY <1>2, MissedHasPlace
<1>3. CASE a = y /\ b \in S
  BY <1>3, MissedHasPlace DEF Equal
<1> QED  BY <1>1, <1>2, <1>3

\* Without a repeated message, a search for the first item finds the first.
LEMMA FoundIsFirst ==
  ASSUME NEW S, Apart(S), ~Twice(S), NEW f \in S, NEW x \in Found(S, f)
  PROVE  x = f
<1> SUFFICES ASSUME x # f PROVE FALSE
  OBVIOUS
<1>1. x \in S /\ Same(x, f)
  BY DEF Found
<1>2. Before(x, f) \/ Before(f, x)
  BY <1>1 DEF Apart
<1>3. Equal(x, f)
  BY <1>1, <1>2 DEF Same
<1> QED  BY <1>1, <1>3 DEF Twice

LEMMA InitIInv == Init => IInv
<1> SUFFICES ASSUME Init PROVE IInv
  OBVIOUS
<1>1. IsFiniteSet({}) /\ Cardinality({}) = 0
  BY FS_EmptySet
<1>2. Types
  <2>1. items = {} /\ lost = {} /\ repeated = FALSE /\ now = 0
    BY DEF Init
  <2>2. now \in Times /\ 0 <= Capacity
    BY <2>1, SizesAssumption DEF Times
  <2>3. IsFiniteSet(items) /\ Cardinality(items) <= Capacity
    BY <1>1, <2>1, <2>2
  <2> QED  BY <2>1, <2>2, <2>3 DEF Types
<1> QED
  BY <1>2 DEF Init, IInv, Apart, LostWhenFull, KnownOnce, Twice, KeepsNewest

\* add, when there is room (queue_driver.nim).
LEMMA AddKeeps ==
  ASSUME IInv, ~failed, NEW y \in Indices, AddItem(y), UNCHANGED now
  PROVE  IInv'
<1>1. /\ items' = items \cup {y}
      /\ repeated' = (repeated \/ Twice(items \cup {y} \cup lost \cup {}))
      /\ lost' = IF repeated' THEN {} ELSE lost
      /\ MayMiss(items, y) /\ ~Full(items) /\ failed' = failed
  BY DEF AddItem, Stores
<1>2. items' \subseteq Indices /\ lost' \subseteq Indices /\ now' \in Times /\ repeated' \in BOOLEAN
  BY <1>1 DEF IInv, Types
<1>3. IsFiniteSet(items') /\ Cardinality(items') <= Capacity
  <2>1. IsFiniteSet(items) /\ Cardinality(items) \in Nat /\ Cardinality(items) < Capacity
    BY <1>1, FS_CardinalityType, SizesAssumption DEF IInv, Types, Full
  <2>2. IsFiniteSet(items') /\ (Cardinality(items') = Cardinality(items)
                                \/ Cardinality(items') = Cardinality(items) + 1)
    BY <1>1, <2>1, FS_AddElement
  <2> QED  BY <2>1, <2>2, SizesAssumption
<1>4. Apart(items')
  BY <1>1, ApartAdd DEF IInv, Types
<1>5. lost' = {}
  BY <1>1 DEF IInv, LostWhenFull
<1>6. KnownOnce' /\ LostWhenFull' /\ KeepsNewest'
  <2>1. ~repeated' => ~Twice(items' \cup lost')
    <3> SUFFICES ASSUME ~repeated' PROVE ~Twice(items' \cup lost')
      OBVIOUS
    <3>1. items' \cup lost' = items \cup {y} \cup lost \cup {}
      BY <1>1
    <3> QED  BY <1>1, <3>1
  <2> QED  BY <2>1, <1>5 DEF KnownOnce, LostWhenFull, KeepsNewest
<1>7. Apart(items)'
  BY <1>4 DEF Apart
<1> QED  BY <1>2, <1>3, <1>7, <1>6 DEF IInv, Types

\* add, when the queue is full: too old, or in the place of the oldest.
LEMMA ReplaceKeeps ==
  ASSUME IInv, ~failed, NEW y \in Indices, ReplaceItem(y), UNCHANGED now
  PROVE  IInv'
<1>1. PICK first \in items :
        /\ IsFirst(items, first)
        /\ \/ /\ TooOld(y, first)
              /\ Stores(items, {y})
              /\ UNCHANGED failed
           \/ /\ ~TooOld(y, first)
              /\ \E x \in Found(items, first) :
                   LET rest == items \ {x}
                   IN  \/ /\ MayMiss(rest, y)
                          /\ Stores(rest \cup {y}, {x})
                          /\ UNCHANGED failed
                       \/ /\ Found(rest, y) # {}
                          /\ Stores(rest, {x})
                          /\ failed' = TRUE
  BY DEF ReplaceItem
<1>2. /\ items \subseteq Indices /\ lost \subseteq Indices /\ IsFiniteSet(items)
      /\ Cardinality(items) \in Nat /\ Cardinality(items) <= Capacity
      /\ Full(items) /\ MayMiss(items, y)
  BY FS_CardinalityType DEF IInv, Types, ReplaceItem
<1>3. /\ \A z \in items \ {first} : Before(first, z)
      /\ ~repeated => \A x \in lost : Before(x, first)
  BY <1>1 DEF IsFirst, IInv, KeepsNewest
<1>4. now' \in Times
  BY DEF IInv, Types
<1>5. CASE TooOld(y, first) /\ Stores(items, {y}) /\ UNCHANGED failed
  <2>1. /\ items' = items /\ failed' = failed
        /\ repeated' = (repeated \/ Twice(items \cup lost \cup {y}))
        /\ lost' = IF repeated' THEN {} ELSE lost \cup {y}
    BY <1>5 DEF Stores
  <2>2. \A z \in items : Before(y, z)
    BY <1>2, <1>3, <1>5, BeforeIsOrder DEF TooOld
  <2>3. KeepsNewest'
    BY <2>1, <2>2 DEF IInv, KeepsNewest
  <2>4. KnownOnce'
    <3> SUFFICES ASSUME ~repeated' PROVE ~Twice(items' \cup lost')
      BY DEF KnownOnce
    <3>1. items' \cup lost' = items \cup lost \cup {y}
      BY <2>1
    <3> QED  BY <2>1, <3>1
  <2>5. Types'
    BY <1>2, <1>4, <2>1 DEF Types, IInv
  <2>6. Apart(items)' /\ LostWhenFull'
    BY <1>2, <2>1 DEF IInv, Apart, LostWhenFull, Full
  <2> QED  BY <2>3, <2>4, <2>5, <2>6 DEF IInv
<1>6. CASE ~TooOld(y, first) /\ \E x \in Found(items, first) :
              \/ MayMiss(items \ {x}, y) /\ Stores((items \ {x}) \cup {y}, {x}) /\ UNCHANGED failed
              \/ Stores(items \ {x}, {x}) /\ failed' = TRUE
  <2>1. PICK x \in Found(items, first) :
              \/ MayMiss(items \ {x}, y) /\ Stores((items \ {x}) \cup {y}, {x}) /\ UNCHANGED failed
              \/ Stores(items \ {x}, {x}) /\ failed' = TRUE
    BY <1>6
  <2> DEFINE rest == items \ {x}
  <2>2. x \in items /\ rest \subseteq Indices
    BY <1>2 DEF Found
  <2>3. /\ IsFiniteSet(rest) /\ Cardinality(rest) = Cardinality(items) - 1
        /\ Cardinality(rest) \in Nat
    BY <1>2, <2>2, FS_RemoveElement, FS_CardinalityType
  <2>4. Apart(rest)
    BY DEF IInv, Apart
  <2>5. ~repeated => x = first
    <3> SUFFICES ASSUME ~repeated PROVE x = first
      OBVIOUS
    <3>1. ~Twice(items)
      BY DEF IInv, KnownOnce, Twice
    <3> QED  BY <3>1, FoundIsFirst DEF IInv
  <2>6. ~repeated => \A l \in lost \cup {x}, z \in rest : Before(l, z)
    BY <1>3, <2>5, <2>2 DEF IInv, KeepsNewest
  <2>7. CASE MayMiss(rest, y) /\ Stores(rest \cup {y}, {x}) /\ UNCHANGED failed
    <3>1. /\ items' = rest \cup {y} /\ failed' = failed
          /\ repeated' = (repeated \/ Twice(rest \cup {y} \cup lost \cup {x}))
          /\ lost' = IF repeated' THEN {} ELSE lost \cup {x}
      BY <2>7 DEF Stores
    <3>2. y \notin rest /\ y # first
      BY <1>2, <2>2, <2>7, MissedHasPlace
    <3>3. IsFiniteSet(items') /\ Cardinality(items') = Cardinality(items)
      <4>1. IsFiniteSet(rest \cup {y}) /\ Cardinality(rest \cup {y}) = Cardinality(rest) + 1
        <5> HIDE DEF rest
        <5> QED  BY <2>3, <3>2, FS_AddElement
      <4>2. Cardinality(rest) + 1 = Cardinality(items)
        BY <1>2, <2>3
      <4> QED  BY <3>1, <4>1, <4>2
    <3>4. Types'
      BY <1>2, <1>4, <2>2, <3>1, <3>3 DEF Types
    <3>5. Apart(items)'
      <4>1. Apart(rest \cup {y})
        BY <2>2, <2>4, <2>7, ApartAdd
      <4> QED  BY <4>1, <3>1 DEF Apart
    <3>6. LostWhenFull'
      BY <1>2, <3>1, <3>3 DEF LostWhenFull, Full
    <3>7. KnownOnce'
      <4> SUFFICES ASSUME ~repeated' PROVE ~Twice(items' \cup lost')
        BY DEF KnownOnce
      <4>1. items' \cup lost' = rest \cup {y} \cup lost \cup {x}
        BY <3>1
      <4> QED  BY <3>1, <4>1
    <3>8. KeepsNewest'
      <4> SUFFICES ASSUME ~repeated', NEW l \in lost \cup {x}, NEW z \in rest \cup {y}
                   PROVE  Before(l, z)
        BY <3>1 DEF KeepsNewest
      <4>1. ~repeated /\ x = first
        BY <3>1, <2>5
      <4>2. CASE z \in rest
        BY <2>6, <4>1, <4>2
      <4>3. CASE z = y
        <5>1. Before(first, y) \/ Before(y, first)
          BY <1>2, MissedHasPlace
        <5>2. ~Equal(y, first)
          <6>1. y \in rest \cup {y} \cup lost \cup {x} /\ first \in rest \cup {y} \cup lost \cup {x}
            BY <4>1
          <6> QED  BY <6>1, <3>1, <3>2 DEF Twice
        <5>3. Before(first, y)
          BY <5>1, <5>2, <1>6 DEF TooOld, Same
        <5>4. l \in lost => Before(l, first)
          BY <4>1, <1>3
        <5> QED  BY <5>3, <5>4, <4>1, <4>3, <1>2, BeforeIsOrder
      <4> QED  BY <4>2, <4>3
    <3> QED  BY <3>4, <3>5, <3>6, <3>7, <3>8 DEF IInv
  <2>8. CASE Stores(rest, {x}) /\ failed' = TRUE
    <3>1. /\ items' = rest /\ failed' = TRUE
          /\ repeated' = (repeated \/ Twice(rest \cup lost \cup {x}))
          /\ lost' = IF repeated' THEN {} ELSE lost \cup {x}
      BY <2>8 DEF Stores
    <3>2. Types'
      BY <1>2, <1>4, <2>2, <2>3, <3>1, SizesAssumption DEF Types
    <3>3. Apart(items)' /\ LostWhenFull'
      BY <2>4, <3>1 DEF Apart, LostWhenFull
    <3>4. KnownOnce'
      <4> SUFFICES ASSUME ~repeated' PROVE ~Twice(items' \cup lost')
        BY DEF KnownOnce
      <4>1. items' \cup lost' = rest \cup lost \cup {x}
        BY <3>1
      <4> QED  BY <3>1, <4>1
    <3>5. KeepsNewest'
      BY <2>6, <3>1 DEF KeepsNewest
    <3> QED  BY <3>2, <3>3, <3>4, <3>5 DEF IInv
  <2> QED  BY <2>1, <2>7, <2>8
<1> QED  BY <1>1, <1>5, <1>6

LEMMA NextKeeps == IInv /\ [Next]_vars => IInv'
<1> SUFFICES ASSUME IInv, [Next]_vars PROVE IInv'
  OBVIOUS
<1>1. ASSUME NEW m \in Messages, HandleMessage(m) PROVE IInv'
  <2>1. IndexOf(m, now) \in Indices
    BY NewIndex DEF IInv, Types
  <2> QED  BY <1>1, <2>1, AddKeeps, ReplaceKeeps DEF HandleMessage
<1>2. CASE UNCHANGED <<items, lost, repeated, failed>> /\ now' \in Times
  BY <1>2 DEF IInv, Types, Apart, LostWhenFull, KnownOnce, KeepsNewest, Full
<1>3. CASE Tick
  BY <1>3, <1>2, SizesAssumption DEF Tick, Times, IInv, Types
<1>4. CASE FindMessages
  BY <1>4, <1>2 DEF FindMessages, IInv, Types
<1>5. ASSUME NEW topic, NEW size, NEW forward, Begin(topic, size, forward) PROVE IInv'
  BY <1>5, <1>2 DEF Begin, IInv, Types
<1>6. CASE UNCHANGED vars
  BY <1>6, <1>2 DEF vars, IInv, Types
<1> QED  BY <1>1, <1>3, <1>4, <1>5, <1>6 DEF Next

\* The queue keeps to its capacity and to a strict order of its items (add in
\* queue_driver.nim), for every capacity and every order of arrival.
THEOREM QueueStaysSound == Spec => []QueueSound
<1>1. IInv => QueueSound
  BY DEF IInv, Types, Apart, QueueSound
<1> QED  BY <1>1, InitIInv, NextKeeps, PTL DEF Spec

\* What the queue evicts or refuses as "too_old" is older than all it holds,
\* while no message came at two times.
THEOREM NewestKept == Spec => []KeepsNewest
<1>1. IInv => KeepsNewest
  BY DEF IInv
<1> QED  BY <1>1, InitIInv, NextKeeps, PTL DEF Spec

-----------------------------------------------------------------------------
(* Reading page by page.                                                   *)

\* A sequence in chronological order.
Chronological(s) == \A i, j \in 1..Len(s) : i < j => Before(s[i], s[j])

\* e is where the walk has got to: the cursor's item, after all that was
\* received; and of what should be received nothing up to it is missing.
Edge(e) ==
  /\ e \in Range(got) /\ e.msg = walk.cursor
  /\ \A z \in Range(got) : z = e \/ Precedes(z, e)
  /\ \A y \in present : y = e \/ Precedes(y, e) => y \in Range(got)

Walks == [status : {"idle", "paging", "done", "invalidCursor"}, topic : Nat,
          pageSize : Nat, forward : BOOLEAN, cursor : Messages \cup {NoCursor}]

\* What is received is in order and known; a client that pages has received
\* everything up to its cursor, and one that is done, everything.
ReadSoFar ==
  /\ got \in Seq(Indices) /\ Range(got) \subseteq items \cup lost
  /\ Chronological(got)
  /\ present \subseteq items /\ \A x \in present : walk.status # "idle" => Matches(x)
  /\ walk.status = "idle" \/ (walk.status = "paging" /\ walk.cursor = NoCursor) => got = <<>>
  /\ walk.status = "paging" /\ walk.cursor # NoCursor => \E e : Edge(e)
  /\ walk.status = "done" => present \subseteq Range(got)

PagesInv == walk \in Walks /\ (~repeated => ReadSoFar)

\* The order of the walk, as a set of pairs.
WalkOrder(S) == {p \in S \X S : Precedes(p[1], p[2])}

\* It is an order, whichever way the walk goes.
LEMMA PrecedesIsOrder ==
  ASSUME IInv, walk.forward \in BOOLEAN
  PROVE  /\ \A x, y \in Indices : ~(Precedes(x, y) /\ Precedes(y, x))
         /\ \A x, y, z \in Indices : Precedes(x, y) /\ Precedes(y, z) => Precedes(x, z)
         /\ \A x, y \in items : x # y => Precedes(x, y) \/ Precedes(y, x)
<1>1. \A x, y \in items : x # y => Before(x, y) \/ Before(y, x)
  BY DEF IInv, Apart
<1>2. CASE walk.forward
  <2>1. \A x, y : Precedes(x, y) = Before(x, y)
    BY <1>2 DEF Precedes
  <2> QED  BY <1>1, <2>1, BeforeIsOrder
<1>3. CASE ~walk.forward
  <2>1. \A x, y : Precedes(x, y) = Before(y, x)
    BY <1>3 DEF Precedes
  <2> QED  BY <1>1, <2>1, BeforeIsOrder
<1> QED  BY <1>2, <1>3

LEMMA WalkOrdering ==
  ASSUME IInv, walk.forward \in BOOLEAN, NEW S \in SUBSET items
  PROVE  IsFiniteSet(S) /\ Ordering(WalkOrder(S), S)
<1>1. S \subseteq Indices /\ IsFiniteSet(S)
  BY FS_Subset DEF IInv, Types
<1>2. \A x, y \in S : <<x, y>> \in WalkOrder(S) <=> Precedes(x, y)
  BY DEF WalkOrder
<1>3. \A x, y \in S : x # y => <<x, y>> \in WalkOrder(S) \/ <<y, x>> \in WalkOrder(S)
  BY <1>2, PrecedesIsOrder
<1>4. \A x, y \in S : <<x, y>> \in WalkOrder(S) => <<y, x>> \notin WalkOrder(S)
  BY <1>1, <1>2, PrecedesIsOrder
<1>5. \A x, y, z \in S : <<x, y>> \in WalkOrder(S) /\ <<y, z>> \in WalkOrder(S)
                          => <<x, z>> \in WalkOrder(S)
  BY <1>1, <1>2, PrecedesIsOrder
<1> QED  BY <1>1, <1>3, <1>4, <1>5 DEF Ordering

\* InOrder is defined: it lists what it is given, in the order of the walk.
LEMMA InOrderFacts ==
  ASSUME IInv, walk.forward \in BOOLEAN, NEW S \in SUBSET items
  PROVE  /\ InOrder(S) \in Seq(S) /\ Range(InOrder(S)) = S
         /\ \A i, j \in 1..Len(InOrder(S)) : i < j => Precedes(InOrder(S)[i], InOrder(S)[j])
<1> DEFINE n == Cardinality(S)
           Sorted(s) == \A i, j \in DOMAIN s : i < j => Precedes(s[i], s[j])
           R == WalkOrder(S)
<1>1. IsFiniteSet(S) /\ Ordering(R, S)
  BY WalkOrdering
<1> HIDE DEF R
<1>2. PICK f : Lists(f, S, R)
  BY <1>1, ListExists
<1>3. /\ f \in Seq(S) /\ Len(f) = n /\ n \in Nat
      /\ \A i, j \in 1..Len(f) : f[i] = f[j] => i = j
  BY <1>1, <1>2, ListFacts
<1>4. f \in [1..n -> S] /\ \A i, j \in 1..n : i < j => <<f[i], f[j]>> \in R
  BY <1>2 DEF Lists
<1>5. f \in SetToSeqs(S)
  BY <1>3, <1>4 DEF SetToSeqs
<1>6. Sorted(f)
  BY <1>4 DEF R, WalkOrder
<1> HIDE DEF Sorted
<1>7. InOrder(S) = CHOOSE s \in SetToSeqs(S) : Sorted(s)
  BY Zenon DEF InOrder, Sorted
<1>8. InOrder(S) \in SetToSeqs(S) /\ Sorted(InOrder(S))
  BY <1>5, <1>6, <1>7, Zenon
<1> DEFINE s == InOrder(S)
<1>9. s \in [1..n -> S] /\ DOMAIN s = 1..n
  BY <1>8 DEF SetToSeqs
<1>10. \A i, j \in 1..n : i < j => Precedes(s[i], s[j])
  BY <1>8, <1>9, Zenon DEF Sorted
<1> HIDE DEF s
<1>11. Lists(s, S, R)
  <2>1. \A i, j \in 1..n : i < j => <<s[i], s[j]>> \in R
    BY <1>9, <1>10 DEF R, WalkOrder
  <2> QED  BY <1>9, <2>1 DEF Lists
<1>12. s \in Seq(S) /\ Len(s) = n /\ Range(s) = S
  BY <1>1, <1>11, ListFacts
<1> QED  BY <1>10, <1>12 DEF s

\* One chronological sequence after another.
LEMMA ChronologicalJoin ==
  ASSUME NEW s \in Seq(Indices), NEW t \in Seq(Indices),
         Chronological(s), Chronological(t),
         \A x \in Range(s), y \in Range(t) : Before(x, y)
  PROVE  /\ s \o t \in Seq(Indices) /\ Chronological(s \o t)
         /\ Range(s \o t) = Range(s) \cup Range(t)
<1>1. /\ s \o t \in Seq(Indices) /\ Len(s \o t) = Len(s) + Len(t)
      /\ Len(s) \in Nat /\ Len(t) \in Nat
      /\ \A i \in 1..(Len(s) + Len(t)) :
           (s \o t)[i] = IF i <= Len(s) THEN s[i] ELSE t[i - Len(s)]
  BY ConcatProperties
<1>2. /\ \A i \in 1..Len(s) : s[i] \in Range(s)
      /\ \A i \in 1..Len(t) : t[i] \in Range(t)
  BY DEF Range
<1> DEFINE u == s \o t
           a == Len(s)
           b == Len(t)
<1> HIDE DEF u, a, b
<1>3. /\ Len(u) = a + b /\ a \in Nat /\ b \in Nat
      /\ \A i \in 1..(a + b) : u[i] = IF i <= a THEN s[i] ELSE t[i - a]
  BY <1>1 DEF u, a, b
<1>4. ASSUME NEW i \in 1..(a + b), NEW j \in 1..(a + b), i < j  PROVE Before(u[i], u[j])
  <2>1. CASE j <= a
    <3>1. u[i] = s[i] /\ u[j] = s[j] /\ i \in 1..a /\ j \in 1..a
      BY <1>3, <1>4, <2>1
    <3> QED  BY <1>4, <3>1 DEF Chronological, a
  <2>2. CASE i <= a /\ j > a
    <3>1. u[i] = s[i] /\ u[j] = t[j - a] /\ i \in 1..a /\ j - a \in 1..b
      BY <1>3, <2>2
    <3>2. s[i] \in Range(s) /\ t[j - a] \in Range(t)
      BY <1>2, <3>1 DEF a, b
    <3> QED  BY <3>1, <3>2
  <2>3. CASE i > a
    <3>1. u[i] = t[i - a] /\ u[j] = t[j - a] /\ i - a \in 1..b /\ j - a \in 1..b /\ i - a < j - a
      BY <1>3, <1>4, <2>3
    <3> QED  BY <3>1 DEF Chronological, b
  <2> QED  BY <1>3, <2>1, <2>2, <2>3
<1>5. Chronological(u)
  BY <1>3, <1>4 DEF Chronological
<1>6. Range(u) = Range(s) \cup Range(t)
  BY RangeConcatenation DEF u
<1> QED  BY <1>1, <1>5, <1>6 DEF u

\* The page, turned round when the walk goes backward, is chronological.
Page(s, n) == Truncated(Truncated(s, n + 1), n)

Turned(page) == IF walk.forward THEN page ELSE Reverse(page)

\* The first n of a sequence: what findMessages keeps of the n + 1 rows it
\* asked for, whether it saw that there are more, and the last of the page.
LEMMA PageFacts ==
  ASSUME NEW S, NEW s \in Seq(S), NEW n \in Nat \ {0}
  PROVE  /\ Page(s, n) \in Seq(S)
         /\ Len(s) <= n => Len(Page(s, n)) = Len(s)
         /\ Len(s) > n => Len(Page(s, n)) = n
         /\ \A i \in 1..Len(Page(s, n)) : Page(s, n)[i] = s[i]
         /\ Len(Truncated(s, n + 1)) > n <=> Len(s) > n
         /\ Len(s) > n => LastIncluded(Truncated(s, n + 1)) = s[n]
<1> DEFINE a == IF Len(s) < n + 1 THEN Len(s) ELSE n + 1
           r == SubSeq(s, 1, a)
           b == IF Len(r) < n THEN Len(r) ELSE n
           p == SubSeq(r, 1, b)
<1>1. Truncated(s, n + 1) = r /\ Page(s, n) = p
  BY DEF Truncated, Page
<1>2. Len(s) \in Nat /\ a \in Nat /\ a <= Len(s) /\ a <= n + 1
      /\ (Len(s) <= n => a = Len(s)) /\ (Len(s) > n => a = n + 1)
  OBVIOUS
<1> HIDE DEF a
<1>3. r \in Seq(S) /\ Len(r) = a /\ \A i \in 1..a : r[i] = s[i]
  BY <1>2
<1> HIDE DEF r
<1>4. b \in Nat /\ b <= a /\ (Len(s) <= n => b = Len(s)) /\ (Len(s) > n => b = n)
  BY <1>2, <1>3
<1> HIDE DEF b
<1>5. p \in Seq(S) /\ Len(p) = b /\ \A i \in 1..b : p[i] = r[i]
  BY <1>2, <1>3, <1>4
<1> HIDE DEF p
<1>6. \A i \in 1..Len(p) : p[i] = s[i]
  BY <1>2, <1>3, <1>4, <1>5
<1>7. Len(s) > n => LastIncluded(r) = s[n]
  BY <1>2, <1>3 DEF LastIncluded
<1>8. Len(r) > n <=> Len(s) > n
  BY <1>2, <1>3
<1> QED  BY <1>1, <1>4, <1>5, <1>6, <1>7, <1>8

LEMMA TurnedFacts ==
  ASSUME walk.forward \in BOOLEAN, NEW page \in Seq(Indices),
         \A i, j \in 1..Len(page) : i < j => Precedes(page[i], page[j])
  PROVE  /\ Turned(page) \in Seq(Indices) /\ Chronological(Turned(page))
         /\ Range(Turned(page)) = Range(page)
<1> DEFINE n == Len(page)
<1>0. n \in Nat /\ DOMAIN page = 1..n /\ \A i \in 1..n : page[i] \in Indices
  OBVIOUS
<1>1. CASE walk.forward
  BY <1>1 DEF Turned, Chronological, Precedes
<1>2. CASE ~walk.forward
  <2> DEFINE q == [i \in 1..n |-> page[(n - i) + 1]]
  <2>1. Turned(page) = q
    BY <1>2 DEF Turned, Reverse
  <2>2. \A i \in 1..n : (n - i) + 1 \in 1..n /\ n - ((n - i) + 1) + 1 = i
    BY <1>0
  <2> HIDE DEF n
  <2>3. q \in Seq(Indices) /\ Len(q) = n /\ DOMAIN q = 1..n
    BY <1>0, <2>2
  <2>4. ASSUME NEW i \in 1..n, NEW j \in 1..n, i < j  PROVE Before(q[i], q[j])
    <3>1. (n - j) + 1 \in 1..n /\ (n - i) + 1 \in 1..n /\ (n - j) + 1 < (n - i) + 1
      BY <1>0, <2>2, <2>4
    <3>2. Precedes(page[(n - j) + 1], page[(n - i) + 1])
      BY <3>1 DEF n
    <3> QED  BY <1>2, <3>2 DEF Precedes
  <2>5. Range(q) = Range(page)
    <3>1. ASSUME NEW i \in 1..n  PROVE q[i] \in Range(page) /\ page[i] \in Range(q)
      <4>1. (n - i) + 1 \in 1..n /\ q[i] = page[(n - i) + 1] /\ q[(n - i) + 1] = page[i]
        BY <2>2
      <4> HIDE DEF q
      <4> QED  BY <1>0, <2>3, <4>1 DEF Range
    <3> HIDE DEF q
    <3> QED  BY <1>0, <2>3, <3>1 DEF Range
  <2> HIDE DEF q
  <2>6. Chronological(q)
    BY <2>3, <2>4 DEF Chronological
  <2> QED  BY <2>1, <2>3, <2>5, <2>6
<1> QED  BY <1>1, <1>2

\* A step that only stores or evicts takes nothing from the client.
LEMMA StorePages ==
  ASSUME PagesInv, IInv, NEW S, NEW out, Stores(S, out), UNCHANGED walk,
         items \subseteq S \cup out
  PROVE  PagesInv'
<1> SUFFICES ASSUME ~repeated'  PROVE ReadSoFar'
  BY DEF PagesInv
<1>1. /\ ~repeated /\ items' = S /\ lost' = lost \cup out
      /\ present' = present \cap S /\ got' = got
  BY DEF Stores
<1>2. ReadSoFar
  BY <1>1 DEF PagesInv
<1>3. Range(got') \subseteq items' \cup lost'
  BY <1>1, <1>2 DEF ReadSoFar
<1>4. \A e : Edge(e) => Edge(e)'
  BY <1>1 DEF Edge, Precedes
<1>5. /\ got' \in Seq(Indices) /\ Chronological(got)' /\ present' \subseteq items'
      /\ \A x \in present' : walk'.status # "idle" => Matches(x)'
  BY <1>1, <1>2 DEF ReadSoFar, Chronological, Matches
<1>6. /\ walk'.status = "idle" \/ (walk'.status = "paging" /\ walk'.cursor = NoCursor)
           => got' = <<>>
      /\ walk'.status = "paging" /\ walk'.cursor # NoCursor => \E e : Edge(e)'
      /\ walk'.status = "done" => present' \subseteq Range(got')
  BY <1>1, <1>2, <1>4 DEF ReadSoFar
<1> QED  BY <1>3, <1>5, <1>6 DEF ReadSoFar

LEMMA HandlePages ==
  ASSUME PagesInv, IInv, NEW m \in Messages, HandleMessage(m)
  PROVE  PagesInv'
<1> DEFINE y == IndexOf(m, now)
<1>1. UNCHANGED walk /\ (AddItem(y) \/ ReplaceItem(y))
  BY DEF HandleMessage
<1> HIDE DEF y
<1>2. CASE AddItem(y)
  <2>1. Stores(items \cup {y}, {})
    BY <1>2 DEF AddItem
  <2> QED  BY <1>1, <2>1, StorePages
<1>3. CASE ReplaceItem(y)
  <2>1. PICK first \in items :
          \/ Stores(items, {y})
          \/ \E x \in Found(items, first) :
               \/ Stores((items \ {x}) \cup {y}, {x})
               \/ Stores(items \ {x}, {x})
    BY <1>3, Zenon DEF ReplaceItem
  <2>2. CASE Stores(items, {y})
    BY <1>1, <2>2, StorePages
  <2>3. ASSUME NEW x, Stores((items \ {x}) \cup {y}, {x})  PROVE PagesInv'
    <3>1. items \subseteq ((items \ {x}) \cup {y}) \cup {x}
      OBVIOUS
    <3> QED  BY <1>1, <2>3, <3>1, StorePages
  <2>4. ASSUME NEW x, Stores(items \ {x}, {x})  PROVE PagesInv'
    <3>1. items \subseteq (items \ {x}) \cup {x}
      OBVIOUS
    <3> QED  BY <1>1, <2>4, <3>1, StorePages
  <2> QED  BY <2>1, <2>2, <2>3, <2>4
<1> QED  BY <1>1, <1>2, <1>3

\* What the query selects.
Selected == {x \in AfterCursor : Matches(x)}

\* All that was received comes before all that is selected, and what should be
\* received is received or selected: the cursor is found at the edge itself,
\* since no other known index has its message.
LEMMA SelectedAfterEdge ==
  ASSUME PagesInv, IInv, ~repeated, walk.status = "paging",
         walk.cursor # NoCursor => AtCursor # {}
  PROVE  /\ \A z \in Range(got), y \in Selected : Precedes(z, y)
         /\ present \subseteq Range(got) \cup Selected
         /\ \A y \in Selected : y \in Indices
         /\ Range(got) \subseteq Indices
<1>1. ReadSoFar /\ walk.forward \in BOOLEAN
  BY DEF PagesInv, Walks
<1>2. items \subseteq Indices /\ lost \subseteq Indices
  BY DEF IInv, Types
<1>3. Range(got) \subseteq Indices /\ AfterCursor \subseteq items /\ present \subseteq items
  BY <1>1, <1>2 DEF ReadSoFar, AfterCursor
<1>4. \A x \in present : Matches(x)
  BY <1>1 DEF ReadSoFar
<1>5. CASE walk.cursor = NoCursor
  <2>1. got = <<>> /\ AfterCursor = items
    BY <1>1, <1>5 DEF ReadSoFar, AfterCursor
  <2>2. Range(got) = {}
    BY <2>1 DEF Range
  <2> QED  BY <1>2, <1>3, <1>4, <2>1, <2>2 DEF Selected
<1>6. CASE walk.cursor # NoCursor
  <2>1. PICK e : Edge(e)
    BY <1>1, <1>6 DEF ReadSoFar
  <2>2. e \in items \cup lost /\ e.msg = walk.cursor
    BY <1>1, <2>1 DEF ReadSoFar, Edge
  <2>3. \A x \in AtCursor : x = e
    BY <2>2 DEF AtCursor, IInv, KnownOnce, Twice, Equal
  <2>4. AtCursor = {e} /\ e \in items
    BY <1>6, <2>3 DEF AtCursor
  <2>5. \A y \in items : y \in AfterCursor <=> Precedes(e, y)
    BY <1>6, <2>4 DEF AfterCursor
  <2>6. ASSUME NEW z \in Range(got), NEW y \in Selected  PROVE Precedes(z, y)
    <3>1. y \in items /\ Precedes(e, y)
      BY <1>3, <2>5 DEF Selected
    <3>2. z = e \/ Precedes(z, e)
      BY <2>1 DEF Edge
    <3>3. z \in Indices /\ y \in Indices /\ e \in Indices
      BY <1>2, <1>3, <2>4, <3>1
    <3> QED  BY <1>1, <3>1, <3>2, <3>3, PrecedesIsOrder
  <2>7. ASSUME NEW y \in present  PROVE y \in Range(got) \cup Selected
    <3>1. y \in items /\ Matches(y)
      BY <1>3, <1>4
    <3>2. y = e \/ Precedes(y, e) \/ Precedes(e, y)
      BY <1>1, <2>4, <3>1, PrecedesIsOrder
    <3>3. CASE y = e \/ Precedes(y, e)
      BY <2>1, <3>3 DEF Edge
    <3>4. CASE Precedes(e, y)
      BY <2>5, <3>1, <3>4 DEF Selected
    <3> QED  BY <3>2, <3>3, <3>4
  <2> QED  BY <1>2, <1>3, <2>6, <2>7 DEF Selected
<1> QED  BY <1>5, <1>6

\* A page is at least one message long.
LEMMA SizeFacts ==
  ASSUME walk \in Walks  PROVE SizeOfPage \in Nat \ {0}
<1>1. walk.pageSize \in Nat
  BY DEF Walks
<1> QED  BY <1>1, SizesAssumption DEF SizeOfPage

\* A page keeps what is received in order, and leads to the next edge or to
\* the end.
LEMMA FindPages ==
  ASSUME PagesInv, IInv, FindMessages
  PROVE  PagesInv'
<1> DEFINE s == InOrder(Selected)
           n == SizeOfPage
           rows == Truncated(s, n + 1)
           page == Page(s, n)
           more == Len(rows) > n
<1>1. /\ walk \in Walks /\ walk.forward \in BOOLEAN
      /\ UNCHANGED <<items, now, failed, present, lost, repeated>>
      /\ walk.status = "paging"
  BY DEF PagesInv, Walks, FindMessages
<1>2. \/ walk' = CursorGone /\ got' = got
      \/ /\ walk.cursor # NoCursor => AtCursor # {}
         /\ got' = IF repeated THEN got
                   ELSE IF walk.forward THEN got \o page ELSE Reverse(page) \o got
         /\ walk' = [walk EXCEPT
                       !.status = IF more THEN "paging" ELSE "done",
                       !.cursor = IF more THEN LastIncluded(rows).msg ELSE NoCursor]
  BY DEF FindMessages, Page, Selected
<1>3. CASE walk' = CursorGone /\ got' = got
  <2>1. walk' \in Walks /\ walk'.status = "invalidCursor" /\ walk'.topic = walk.topic
    BY <1>1, <1>3 DEF CursorGone, Walks
  <2>2. ASSUME ~repeated'  PROVE ReadSoFar'
    <3>1. ReadSoFar
      BY <1>1, <2>2 DEF PagesInv
    <3>2. \A x \in present' : Matches(x)'
      BY <1>1, <2>1, <3>1 DEF ReadSoFar, Matches
    <3> QED  BY <1>1, <1>3, <2>1, <3>1, <3>2 DEF ReadSoFar, Chronological
  <2> QED  BY <2>1, <2>2 DEF PagesInv
<1>4. CASE /\ walk.cursor # NoCursor => AtCursor # {}
           /\ got' = IF repeated THEN got
                     ELSE IF walk.forward THEN got \o page ELSE Reverse(page) \o got
           /\ walk' = [walk EXCEPT
                         !.status = IF more THEN "paging" ELSE "done",
                         !.cursor = IF more THEN LastIncluded(rows).msg ELSE NoCursor]
  <2>1. Selected \in SUBSET items /\ items \subseteq Indices
    BY DEF Selected, AfterCursor, IInv, Types
  <2>2. /\ s \in Seq(Selected) /\ Range(s) = Selected
        /\ \A i, j \in 1..Len(s) : i < j => Precedes(s[i], s[j])
    BY <1>1, <2>1, InOrderFacts
  <2>3. n \in Nat \ {0}
    BY <1>1, SizeFacts
  <2> HIDE DEF s, n
  <2>4. /\ page \in Seq(Selected)
        /\ Len(s) <= n => Len(page) = Len(s)
        /\ Len(s) > n => Len(page) = n
        /\ \A i \in 1..Len(page) : page[i] = s[i]
        /\ more <=> Len(s) > n
        /\ more => LastIncluded(rows) = s[n]
    BY <2>2, <2>3, PageFacts
  <2>5. Len(s) \in Nat /\ \A i \in 1..Len(s) : s[i] \in Selected
    BY <2>2
  <2> HIDE DEF rows, page
  <2>6. more => n \in 1..Len(s) /\ s[n] \in Selected /\ s[n].msg \in Messages
    <3>1. \A x \in Selected : x.msg \in Messages
      BY <2>1, IndexFacts
    <3> QED  BY <2>3, <2>4, <2>5, <3>1
  <2>7. NoCursor \notin Messages
    BY MessagesAssumption DEF NoCursor, AnyTopic
  <2>8. /\ walk' \in Walks /\ walk'.forward = walk.forward /\ walk'.topic = walk.topic
        /\ more => walk'.status = "paging" /\ walk'.cursor = s[n].msg /\ walk'.cursor # NoCursor
        /\ ~more => walk'.status = "done"
    <3>1. CASE more
      <4>1. walk' = [walk EXCEPT !.status = "paging", !.cursor = s[n].msg]
        BY <1>4, <2>4, <3>1, Zenon
      <4> QED  BY <1>1, <2>6, <2>7, <3>1, <4>1 DEF Walks
    <3>2. CASE ~more
      <4>1. walk' = [walk EXCEPT !.status = "done", !.cursor = NoCursor]
        BY <1>4, <3>2, Zenon
      <4> QED  BY <1>1, <3>2, <4>1 DEF Walks
    <3> QED  BY <3>1, <3>2
  <2>9. ASSUME ~repeated'  PROVE ReadSoFar'
    <3>1. ~repeated /\ ReadSoFar
      BY <1>1, <2>9 DEF PagesInv
    <3>2. /\ \A z \in Range(got), y \in Selected : Precedes(z, y)
          /\ present \subseteq Range(got) \cup Selected
          /\ Range(got) \subseteq Indices /\ Selected \subseteq Indices
      BY <1>1, <1>4, <3>1, SelectedAfterEdge
    <3>3. Len(page) \in Nat /\ \A i \in 1..Len(page) : i \in 1..Len(s)
      BY <2>3, <2>4, <2>5
    <3>4. page \in Seq(Indices)
      BY <2>4, <3>2, SeqMonotonic
    <3>5. \A i, j \in 1..Len(page) : i < j => Precedes(page[i], page[j])
      BY <2>2, <2>4, <3>3
    <3> DEFINE q == Turned(page)
    <3>6. q \in Seq(Indices) /\ Chronological(q) /\ Range(q) = Range(page)
      BY <1>1, <3>4, <3>5, TurnedFacts
    <3>7. Range(page) \subseteq Selected
      BY <2>4 DEF Range
    <3>8. got \in Seq(Indices) /\ Chronological(got)
      BY <3>1 DEF ReadSoFar
    <3>9. /\ got' \in Seq(Indices) /\ Chronological(got')
          /\ Range(got') = Range(got) \cup Range(page)
      <4>1. CASE walk.forward
        <5>1. got' = got \o q
          BY <1>4, <3>1, <4>1 DEF Turned
        <5>2. \A x \in Range(got), y \in Range(q) : Before(x, y)
          BY <3>2, <3>6, <3>7, <4>1 DEF Precedes
        <5> HIDE DEF q
        <5> QED  BY <3>6, <3>8, <5>1, <5>2, ChronologicalJoin
      <4>2. CASE ~walk.forward
        <5>1. got' = q \o got
          BY <1>4, <3>1, <4>2 DEF Turned
        <5>2. \A x \in Range(q), y \in Range(got) : Before(x, y)
          BY <3>2, <3>6, <3>7, <4>2 DEF Precedes
        <5> HIDE DEF q
        <5> QED  BY <3>6, <3>8, <5>1, <5>2, ChronologicalJoin
      <4> QED  BY <4>1, <4>2
    <3>10. Range(got') \subseteq items' \cup lost'
      BY <1>1, <2>1, <3>1, <3>7, <3>9 DEF ReadSoFar
    <3>11. present' \subseteq items' /\ \A x \in present' : Matches(x)'
      BY <1>1, <2>8, <3>1 DEF ReadSoFar, Matches
    <3>12. \A i \in 1..Len(page) : s[i] \in Range(got')
      <4>1. \A i \in 1..Len(page) : page[i] \in Range(page)
        BY <3>4 DEF Range
      <4> QED  BY <2>4, <3>9, <4>1
    <3>13. ASSUME more  PROVE \E e : Edge(e)'
      <4>0. PICK e : e = s[n]
        OBVIOUS
      <4>1. e \in Selected /\ Len(page) = n /\ e \in Range(got') /\ n \in 1..Len(s)
        BY <2>3, <2>4, <2>6, <3>12, <3>13, <4>0
      <4>2. \A x, y : Precedes(x, y)' = Precedes(x, y)
        BY <2>8 DEF Precedes
      <4>3. ASSUME NEW z \in Range(got')  PROVE z = e \/ Precedes(z, e)
        <5>1. CASE z \in Range(got)
          BY <3>2, <4>1, <5>1
        <5>2. CASE z \in Range(page)
          <6>1. PICK i \in 1..Len(page) : z = s[i]
            BY <2>4, <5>2 DEF Range
          <6>2. i = n \/ i < n
            BY <3>3, <4>1, <6>1
          <6> QED  BY <2>2, <3>3, <4>0, <4>1, <6>1, <6>2
        <5> QED  BY <3>9, <5>1, <5>2
      <4>4. ASSUME NEW y \in present, y = e \/ Precedes(y, e)  PROVE y \in Range(got')
        <5>1. CASE y \in Range(got)
          BY <3>9, <5>1
        <5>2. CASE y \in Selected
          <6>1. PICK i \in 1..Len(s) : y = s[i]
            BY <2>2, <5>2 DEF Range
          <6>2. ~(n < i)
            <7> SUFFICES ASSUME n < i  PROVE FALSE
              OBVIOUS
            <7>1. Precedes(e, y)
              BY <2>2, <4>0, <4>1, <6>1
            <7>2. e \in Indices /\ y \in Indices
              BY <3>2, <4>1, <5>2
            <7> QED  BY <1>1, <4>4, <7>1, <7>2, PrecedesIsOrder
          <6>3. i \in 1..Len(page)
            BY <2>3, <2>5, <4>1, <6>1, <6>2
          <6> QED  BY <3>12, <6>1, <6>3
        <5> QED  BY <3>2, <5>1, <5>2
      <4>5. e.msg = walk'.cursor
        BY <2>8, <3>13, <4>0
      <4>6. Edge(e)'
        BY <1>1, <4>1, <4>2, <4>3, <4>4, <4>5 DEF Edge
      <4> QED  BY <4>6
    <3>14. ASSUME ~more  PROVE present' \subseteq Range(got')
      <4>1. Len(page) = Len(s)
        BY <2>3, <2>4, <2>5, <3>14
      <4>2. Selected \subseteq Range(got')
        BY <2>2, <3>12, <4>1 DEF Range
      <4> QED  BY <1>1, <3>2, <3>9, <4>2
    <3> HIDE DEF more
    <3>15. /\ ~(walk'.status = "idle" \/ (walk'.status = "paging" /\ walk'.cursor = NoCursor))
           /\ walk'.status = "paging" /\ walk'.cursor # NoCursor => \E e : Edge(e)'
           /\ walk'.status = "done" => present' \subseteq Range(got')
      <4>1. CASE more
        BY <2>8, <3>13, <4>1
      <4>2. CASE ~more
        BY <2>8, <3>14, <4>2
      <4> QED  BY <4>1, <4>2
    <3> QED  BY <3>9, <3>10, <3>11, <3>15 DEF ReadSoFar, Chronological
  <2> QED  BY <2>8, <2>9 DEF PagesInv
<1> QED  BY <1>2, <1>3, <1>4

LEMMA InitPages == Init => PagesInv
<1> SUFFICES ASSUME Init  PROVE PagesInv
  OBVIOUS
<1>1. /\ walk = [status |-> "idle", topic |-> AnyTopic, pageSize |-> 0, forward |-> TRUE,
                 cursor |-> NoCursor]
      /\ got = <<>> /\ present = {} /\ items = {}
  BY DEF Init
<1>2. walk \in Walks /\ walk.status = "idle"
  BY <1>1 DEF Walks, AnyTopic
<1>3. Range(got) = {} /\ got \in Seq(Indices) /\ Chronological(got)
  BY <1>1 DEF Range, Chronological
<1> QED  BY <1>1, <1>2, <1>3 DEF PagesInv, ReadSoFar

LEMMA NextPages == IInv /\ PagesInv /\ [Next]_vars => PagesInv'
<1> SUFFICES ASSUME IInv, PagesInv, [Next]_vars  PROVE PagesInv'
  OBVIOUS
<1>1. CASE UNCHANGED <<items, walk, got, present, lost, repeated>>
  BY <1>1 DEF PagesInv, ReadSoFar, Chronological, Matches, Edge, Precedes
<1>2. ASSUME NEW topic \in Topics \cup {AnyTopic}, NEW size \in PageSizes,
             NEW forward \in BOOLEAN, Begin(topic, size, forward)
      PROVE  PagesInv'
  <2>1. /\ walk' = [status |-> "paging", topic |-> topic, pageSize |-> size,
                    forward |-> forward, cursor |-> NoCursor]
        /\ UNCHANGED <<items, got, lost, repeated>> /\ walk.status = "idle"
        /\ present' = IF repeated THEN {}
                      ELSE {x \in items : topic = AnyTopic \/ x.msg.pubsubTopic = topic}
    BY <1>2 DEF Begin
  <2>2. topic \in Nat /\ size \in Nat
    <3>1. \A m \in Messages : m.pubsubTopic \in Nat
      BY MessagesAssumption
    <3> QED  BY <3>1, SizesAssumption DEF Topics, AnyTopic
  <2>3. walk' \in Walks /\ walk'.status = "paging" /\ walk'.cursor = NoCursor /\ walk'.topic = topic
    BY <2>1, <2>2 DEF Walks
  <2>4. ASSUME ~repeated'  PROVE ReadSoFar'
    <3>1. ReadSoFar /\ got' = <<>> /\ ~repeated
      BY <2>1, <2>4 DEF PagesInv, ReadSoFar
    <3>2. present' \subseteq items' /\ \A x \in present' : Matches(x)'
      BY <2>1, <2>3, <3>1 DEF Matches
    <3>3. Range(got') = {} /\ got' \in Seq(Indices) /\ Chronological(got')
      BY <3>1 DEF Range, Chronological
    <3> QED  BY <2>3, <3>1, <3>2, <3>3 DEF ReadSoFar, Chronological
  <2> QED  BY <2>3, <2>4 DEF PagesInv
<1>3. CASE Tick \/ UNCHANGED vars
  BY <1>1, <1>3 DEF Tick, vars
<1> QED  BY <1>2, <1>3, HandlePages, FindPages DEF Next

\* A client that reads to its end has every message that was stored all the
\* time, none twice, in chronological order (findMessages, getPage), for every
\* page size, both directions and whatever comes or goes between two pages.
THEOREM PagesAreExact == Spec => []PagesExact
<1>1. PagesInv => PagesExact
  <2> SUFFICES ASSUME walk.status = "done", ReadSoFar  PROVE
          /\ present \subseteq Range(got)
          /\ \A i, j \in DOMAIN got : i < j => Before(got[i], got[j])
    BY DEF PagesInv, PagesExact
  <2>1. DOMAIN got = 1..Len(got)
    BY DEF ReadSoFar
  <2> QED  BY <2>1 DEF ReadSoFar, Chronological
<1>2. Spec => []IInv
  BY InitIInv, NextKeeps, PTL DEF Spec
<1>3. Spec => []PagesInv
  BY <1>2, InitPages, NextPages, PTL DEF Spec
<1> QED  BY <1>1, <1>3, PTL

-----------------------------------------------------------------------------
(* MessageCache: deleting from a sequence.                                 *)

\* No element comes twice.
Injective(s) == \A j, k \in 1..Len(s) : s[j] = s[k] => j = k

\* Where del() of position i puts what was at position l.
Moved(l, i, last) == IF l = last THEN i ELSE l

\* Del takes out the element at its position and moves the last one there.
LEMMA DelFacts ==
  ASSUME NEW S, NEW s \in Seq(S), NEW i \in 1..Len(s)
  PROVE  /\ Del(s, i) \in Seq(S) /\ Len(Del(s, i)) = Len(s) - 1 /\ Len(s) \in Nat
         /\ \A k \in 1..(Len(s) - 1) : Del(s, i)[k] = IF k = i THEN s[Len(s)] ELSE s[k]
<1> DEFINE n == Len(s)
           f == SubSeq(s, 1, n - 1)
<1>1. n \in Nat /\ n > 0 /\ i \in 1..n /\ \A k \in 1..n : s[k] \in S
  OBVIOUS
<1>2. f \in Seq(S) /\ Len(f) = n - 1 /\ \A k \in 1..(n - 1) : f[k] = s[k]
  <2>1. 1 \in 1..(n + 1) /\ n - 1 \in 0..n
    BY <1>1
  <2> HIDE DEF n
  <2>2. /\ f \in Seq(S) /\ Len(f) = IF 1 <= n - 1 THEN n - 1 - 1 + 1 ELSE 0
        /\ \A k \in 1..(n - 1 - 1 + 1) : f[k] = s[1 + k - 1]
    BY <2>1, SubSeqProperties DEF n
  <2> QED  BY <1>1, <2>2
<1>3. Front(s) = f /\ Last(s) = s[n]
  BY DEF Front, Last
<1> HIDE DEF n, f
<1>4. CASE i = n
  <2>1. Del(s, i) = f
    BY <1>3, <1>4 DEF Del, n
  <2> QED  BY <1>1, <1>2, <1>4, <2>1 DEF n
<1>5. CASE i # n
  <2>1. Del(s, i) = [f EXCEPT ![i] = s[n]]
    BY <1>3, <1>5 DEF Del, n
  <2>2. i \in 1..Len(f) /\ s[n] \in S
    BY <1>1, <1>2, <1>5
  <2>3. [f EXCEPT ![i] = s[n]] \in Seq(S) /\ Len([f EXCEPT ![i] = s[n]]) = n - 1
    BY <1>2, <2>2, ExceptSeq
  <2>4. \A k \in 1..(n - 1) : [f EXCEPT ![i] = s[n]][k] = IF k = i THEN s[n] ELSE s[k]
    BY <1>1, <1>2, <2>2
  <2> QED  BY <1>1, <2>1, <2>3, <2>4 DEF n
<1> QED  BY <1>4, <1>5

\* Every other element is still there, at its place or the one it moved to.
LEMMA DelMoves ==
  ASSUME NEW S, NEW s \in Seq(S), NEW i \in 1..Len(s), NEW l \in 1..Len(s), l # i
  PROVE  /\ Moved(l, i, Len(s)) \in 1..(Len(s) - 1)
         /\ Del(s, i)[Moved(l, i, Len(s))] = s[l]
<1>1. /\ Len(s) \in Nat
      /\ \A k \in 1..(Len(s) - 1) : Del(s, i)[k] = IF k = i THEN s[Len(s)] ELSE s[k]
  BY DelFacts
<1>2. CASE l = Len(s)
  <2>1. Moved(l, i, Len(s)) = i /\ i \in 1..(Len(s) - 1)
    BY <1>1, <1>2 DEF Moved
  <2> QED  BY <1>1, <1>2, <2>1
<1>3. CASE l # Len(s)
  <2>1. Moved(l, i, Len(s)) = l /\ l \in 1..(Len(s) - 1)
    BY <1>1, <1>3 DEF Moved
  <2> QED  BY <1>1, <2>1
<1> QED  BY <1>2, <1>3

\* And nothing else is.
LEMMA DelOrigin ==
  ASSUME NEW S, NEW s \in Seq(S), NEW i \in 1..Len(s), NEW k \in 1..Len(Del(s, i))
  PROVE  \E l \in 1..Len(s) : l # i /\ k = Moved(l, i, Len(s)) /\ Del(s, i)[k] = s[l]
<1>1. /\ Len(s) \in Nat /\ Len(Del(s, i)) = Len(s) - 1
      /\ Del(s, i)[k] = IF k = i THEN s[Len(s)] ELSE s[k]
  BY DelFacts
<1>2. CASE k = i
  <2>1. Len(s) \in 1..Len(s) /\ Len(s) # i /\ Moved(Len(s), i, Len(s)) = k
    BY <1>1, <1>2 DEF Moved
  <2> QED  BY <1>1, <1>2, <2>1
<1>3. CASE k # i
  <2>1. k \in 1..Len(s) /\ Moved(k, i, Len(s)) = k
    BY <1>1, <1>3 DEF Moved
  <2> QED  BY <1>1, <1>3, <2>1
<1> QED  BY <1>2, <1>3

\* Del keeps the elements different, and takes only one of them out.
LEMMA DelInjective ==
  ASSUME NEW S, NEW s \in Seq(S), NEW i \in 1..Len(s), Injective(s)
  PROVE  /\ Injective(Del(s, i))
         /\ Range(Del(s, i)) = Range(s) \ {s[i]}
<1> DEFINE d == Del(s, i)
           n == Len(s)
<1>0. d \in Seq(S) /\ Len(d) = n - 1 /\ n \in Nat
  BY DelFacts
<1>1. ASSUME NEW j \in 1..Len(d), NEW k \in 1..Len(d), d[j] = d[k]  PROVE j = k
  <2>1. PICK a \in 1..n : a # i /\ j = Moved(a, i, n) /\ d[j] = s[a]
    BY DelOrigin
  <2>2. PICK b \in 1..n : b # i /\ k = Moved(b, i, n) /\ d[k] = s[b]
    BY DelOrigin
  <2>3. a = b
    BY <1>1, <2>1, <2>2 DEF Injective
  <2> QED  BY <2>1, <2>2, <2>3
<1>2. ASSUME NEW k \in 1..Len(d)  PROVE d[k] \in Range(s) \ {s[i]}
  <2>1. PICK a \in 1..n : a # i /\ d[k] = s[a]
    BY DelOrigin
  <2>2. s[a] # s[i] /\ s[a] \in Range(s)
    BY <2>1 DEF Injective, Range
  <2> QED  BY <2>1, <2>2
<1>3. ASSUME NEW l \in 1..n, s[l] # s[i]  PROVE s[l] \in Range(d)
  <2>1. Moved(l, i, n) \in 1..(n - 1) /\ d[Moved(l, i, n)] = s[l]
    BY <1>3, DelMoves
  <2> HIDE DEF d, n
  <2> QED  BY <1>0, <2>1 DEF Range
<1>4. DOMAIN d = 1..Len(d) /\ DOMAIN s = 1..n
  BY <1>0
<1> HIDE DEF d
<1>5. Range(d) = Range(s) \ {s[i]}
  BY <1>2, <1>3, <1>4 DEF Range
<1>6. Injective(d)
  BY <1>1 DEF Injective
<1> QED  BY <1>5, <1>6 DEF d

-----------------------------------------------------------------------------
(* The loop that renumbers an index.                                       *)

Entry == Nat \X Nat

Renumbered(e, col, i, last) == IF e[col] = last THEN [e EXCEPT ![col] = i] ELSE e

\* s is the index once the entries after position j have been visited: o says
\* which entry of the index each entry of s was.
Visited(s, o, index, j, col, i, last) ==
  /\ s \in Seq(Entry) /\ o \in Seq(1..Len(index)) /\ Len(o) = Len(s) /\ j <= Len(s)
  /\ \A k \in 1..j : o[k] = k /\ s[k] = index[k]
  /\ \A k \in 1..Len(s) : k > j =>
       /\ o[k] > j /\ index[o[k]][col] # i
       /\ s[k] = Renumbered(index[o[k]], col, i, last)
  /\ Injective(o)
  /\ \A l \in 1..Len(index) : l > j /\ index[l][col] # i => \E k \in 1..Len(s) : o[k] = l

LEMMA RenumberedType ==
  ASSUME NEW e \in Entry, NEW col \in {1, 2}, NEW i \in Nat, NEW last \in Nat
  PROVE  /\ Renumbered(e, col, i, last) \in Entry
         /\ Renumbered(e, 1, i, last)[2] = e[2]
         /\ Renumbered(e, 2, i, last)[1] = e[1]
         /\ Renumbered(e, col, i, last)[col] = Moved(e[col], i, last)
<1>1. /\ e[1] \in Nat /\ e[2] \in Nat /\ e = <<e[1], e[2]>>
  BY DEF Entry
<1>2. [e EXCEPT ![1] = i] = <<i, e[2]>> /\ [e EXCEPT ![2] = i] = <<e[1], i>>
  BY <1>1
<1> QED  BY <1>1, <1>2 DEF Renumbered, Moved, Entry

\* Visiting entry j.
LEMMA VisitStep ==
  ASSUME NEW index \in Seq(Entry), NEW j \in 1..Len(index), NEW col \in {1, 2},
         NEW i \in Nat, NEW last \in Nat, NEW s, NEW o,
         Visited(s, o, index, j, col, i, last)
  PROVE  \E p : Visited(VisitEntry(s, j, col, i, last), p, index, j - 1, col, i, last)
<1> DEFINE n == Len(index)
           v == VisitEntry(s, j, col, i, last)
           m == Len(s)
<1>1. /\ s \in Seq(Entry) /\ o \in Seq(1..n) /\ Len(o) = m /\ j <= m /\ m \in Nat
      /\ n \in Nat /\ j \in 1..n /\ j \in Nat /\ j > 0 /\ j \in 1..m
  BY DEF Visited
<1>2. /\ \A k \in 1..j : o[k] = k /\ s[k] = index[k]
      /\ \A k \in 1..m : k > j =>
           /\ o[k] > j /\ index[o[k]][col] # i
           /\ s[k] = Renumbered(index[o[k]], col, i, last)
      /\ Injective(o)
      /\ \A l \in 1..n : l > j /\ index[l][col] # i => \E k \in 1..m : o[k] = l
  BY DEF Visited
<1>3. o[j] = j /\ s[j] = index[j] /\ index[j] \in Entry
  <2>1. j \in 1..j
    BY <1>1
  <2>2. index[j] \in Entry
    OBVIOUS
  <2> QED  BY <1>2, <2>1, <2>2
<1>4. \A k \in 1..m : o[k] \in 1..n /\ o[k] \in Nat
  BY <1>1
<1> HIDE DEF n, m
<1>5. CASE index[j][col] = i
  <2>1. v = Del(s, j)
    BY <1>3, <1>5, Zenon DEF VisitEntry
  <2> DEFINE p == Del(o, j)
  <2>2. /\ v \in Seq(Entry) /\ Len(v) = m - 1
        /\ \A k \in 1..(m - 1) : v[k] = IF k = j THEN s[m] ELSE s[k]
    <3>1. /\ Del(s, j) \in Seq(Entry) /\ Len(Del(s, j)) = Len(s) - 1
          /\ \A k \in 1..(Len(s) - 1) : Del(s, j)[k] = IF k = j THEN s[Len(s)] ELSE s[k]
      <4>1. j \in 1..Len(s)
        BY <1>1 DEF m
      <4> QED  BY <1>1, <4>1, DelFacts
    <3> QED  BY <2>1, <3>1 DEF m
  <2>3. /\ p \in Seq(1..n) /\ Len(p) = m - 1
        /\ \A k \in 1..(m - 1) : p[k] = IF k = j THEN o[m] ELSE o[k]
    <3>1. j \in 1..Len(o)
      BY <1>1
    <3>2. /\ Del(o, j) \in Seq(1..n) /\ Len(Del(o, j)) = Len(o) - 1
          /\ \A k \in 1..(Len(o) - 1) : Del(o, j)[k] = IF k = j THEN o[Len(o)] ELSE o[k]
      <4>1. PICK N : N = 1..n
        OBVIOUS
      <4>2. o \in Seq(N)
        BY <1>1, <4>1
      <4> QED  BY <3>1, <4>1, <4>2, DelFacts
    <3> QED  BY <1>1, <3>2
  <2>4. Injective(p)
    BY <1>1, <1>2, DelInjective DEF m
  <2> HIDE DEF v, p
  <2>5. ASSUME NEW k \in 1..(j - 1)  PROVE p[k] = k /\ v[k] = index[k]
    <3>1. k \in 1..(m - 1) /\ k # j /\ k \in 1..j
      BY <1>1
    <3> QED  BY <1>2, <2>2, <2>3, <3>1
  <2>6. ASSUME NEW k \in 1..(m - 1), k > j - 1
        PROVE  /\ p[k] > j - 1 /\ index[p[k]][col] # i
               /\ v[k] = Renumbered(index[p[k]], col, i, last)
    <3>1. CASE k = j
      <4>0. m \in 1..m /\ m > j
        BY <1>1, <3>1
      <4>1. m \in 1..m /\ m > j /\ v[k] = s[m] /\ p[k] = o[m]
        BY <2>2, <2>3, <3>1, <4>0
      <4>2. o[m] > j /\ index[o[m]][col] # i /\ s[m] = Renumbered(index[o[m]], col, i, last)
        BY <1>2, <4>1
      <4>3. o[m] > j - 1
        BY <1>1, <1>4, <4>1, <4>2
      <4> QED  BY <4>1, <4>2, <4>3
    <3>2. CASE k # j
      <4>0. k \in 1..m /\ k > j
        BY <1>1, <2>6, <3>2
      <4>1. k \in 1..m /\ k > j /\ v[k] = s[k] /\ p[k] = o[k]
        BY <2>2, <2>3, <3>2, <4>0
      <4>2. o[k] > j /\ index[o[k]][col] # i /\ s[k] = Renumbered(index[o[k]], col, i, last)
        BY <1>2, <4>1
      <4>3. o[k] > j - 1
        BY <1>1, <1>4, <4>1, <4>2
      <4> QED  BY <4>1, <4>2, <4>3
    <3> QED  BY <3>1, <3>2
  <2>7. ASSUME NEW l \in 1..n, l > j - 1, index[l][col] # i
        PROVE  \E k \in 1..(m - 1) : p[k] = l
    <3>1. l > j /\ l # j
      BY <1>1, <1>5, <2>7
    <3>2. PICK k \in 1..m : o[k] = l
      BY <1>2, <2>7, <3>1
    <3>3. k # j
      BY <1>3, <3>1, <3>2
    <3>4. CASE k = m
      <4>0. j \in 1..(m - 1)
        BY <1>1, <3>3, <3>4
      <4>1. j \in 1..(m - 1) /\ p[j] = o[m]
        BY <2>3, <4>0
      <4> QED  BY <3>2, <3>4, <4>1
    <3>5. CASE k # m
      <4>0. k \in 1..(m - 1)
        BY <1>1, <3>5
      <4>1. k \in 1..(m - 1) /\ p[k] = o[k]
        BY <2>3, <3>3, <4>0
      <4> QED  BY <3>2, <4>1
    <3> QED  BY <3>4, <3>5
  <2>8. j - 1 <= Len(v)
    BY <1>1, <2>2
  <2>9. Visited(v, p, index, j - 1, col, i, last)
    BY <2>2, <2>3, <2>4, <2>5, <2>6, <2>7, <2>8 DEF Visited, n
  <2> QED  BY <2>9 DEF v
<1>6. CASE index[j][col] # i
  <2>1. /\ v \in Seq(Entry) /\ Len(v) = m /\ v[j] = Renumbered(index[j], col, i, last)
        /\ \A k \in 1..m : k # j => v[k] = s[k]
    <3>1. CASE s[j][col] = last
      <4>1. v = [s EXCEPT ![j][col] = i]
        BY <1>3, <1>6, <3>1, Zenon DEF VisitEntry
      <4>2. v = [s EXCEPT ![j] = [s[j] EXCEPT ![col] = i]]
        BY <4>1
      <4>3. [s[j] EXCEPT ![col] = i] = Renumbered(index[j], col, i, last)
        BY <1>3, <3>1 DEF Renumbered
      <4>4. Renumbered(index[j], col, i, last) \in Entry
        BY <1>3, RenumberedType
      <4> DEFINE e == Renumbered(index[j], col, i, last)
      <4> HIDE DEF e, v
      <4>5. v = [s EXCEPT ![j] = e] /\ e \in Entry
        BY <4>2, <4>3, <4>4 DEF e
      <4>6. DOMAIN s = 1..m
        BY <1>1 DEF m
      <4>7. v \in Seq(Entry) /\ Len(v) = m
        BY <1>1, <4>5, <4>6, ExceptSeq DEF m
      <4>8. v[j] = e /\ \A k \in 1..m : k # j => v[k] = s[k]
        BY <1>1, <4>5, <4>6
      <4> QED  BY <4>7, <4>8 DEF e
    <3>2. CASE s[j][col] # last
      <4>1. v = s
        BY <1>3, <1>6, <3>2, Zenon DEF VisitEntry
      <4>2. Renumbered(index[j], col, i, last) = index[j]
        BY <1>3, <3>2 DEF Renumbered
      <4> QED  BY <1>1, <1>3, <4>1, <4>2 DEF m
    <3> QED  BY <3>1, <3>2
  <2> HIDE DEF v
  <2>2. ASSUME NEW k \in 1..(j - 1)  PROVE o[k] = k /\ v[k] = index[k]
    <3>1. k \in 1..m /\ k # j /\ k \in 1..j
      BY <1>1
    <3> QED  BY <1>2, <2>1, <3>1
  <2>3. ASSUME NEW k \in 1..m, k > j - 1
        PROVE  /\ o[k] > j - 1 /\ index[o[k]][col] # i
               /\ v[k] = Renumbered(index[o[k]], col, i, last)
    <3>1. CASE k = j
      <4>1. o[k] > j - 1
        BY <1>1, <1>3, <3>1
      <4> QED  BY <1>3, <1>6, <2>1, <3>1, <4>1
    <3>2. CASE k # j
      <4>1. k > j /\ v[k] = s[k]
        BY <1>1, <2>1, <2>3, <3>2
      <4>2. o[k] > j /\ index[o[k]][col] # i /\ s[k] = Renumbered(index[o[k]], col, i, last)
        BY <1>2, <4>1
      <4>3. o[k] > j - 1
        BY <1>1, <1>4, <4>2
      <4> QED  BY <4>1, <4>2, <4>3
    <3> QED  BY <3>1, <3>2
  <2>4. ASSUME NEW l \in 1..n, l > j - 1, index[l][col] # i
        PROVE  \E k \in 1..m : o[k] = l
    <3>1. CASE l = j
      BY <1>1, <1>3, <3>1
    <3>2. CASE l # j
      <4>1. l > j
        BY <1>1, <2>4, <3>2
      <4> QED  BY <1>2, <2>4, <4>1
    <3> QED  BY <3>1, <3>2
  <2>5. j - 1 <= Len(v)
    BY <1>1, <2>1
  <2>6. Visited(v, o, index, j - 1, col, i, last)
    BY <1>1, <1>2, <2>1, <2>2, <2>3, <2>4, <2>5 DEF Visited, n
  <2> QED  BY <2>6 DEF v
<1> QED  BY <1>5, <1>6

\* What the loop has made of an index when the entries after position j have
\* been visited; with j = 0, the index without the entries that refer to i, the
\* others renumbered and each there once.
Renumbers(s, index, j, col, i, last) == \E o : Visited(s, o, index, j, col, i, last)

\* f has the index after each step of the loop.
RenumberingLoop(f, index, col, i, last) ==
  f = [k \in 0..Len(index) |->
         IF k = 0 THEN index
         ELSE VisitEntry(f[k - 1], Len(index) + 1 - k, col, i, last)]

\* The loop begins with nothing visited.
LEMMA NoneVisited ==
  ASSUME NEW index \in Seq(Entry), NEW col, NEW i, NEW last
  PROVE  Renumbers(index, index, Len(index), col, i, last)
<1> DEFINE n == Len(index)
           o == [k \in 1..n |-> k]
<1>1. n \in Nat /\ o \in Seq(1..n) /\ Len(o) = n /\ \A k \in 1..n : o[k] = k
  OBVIOUS
<1>2. \A k \in 1..n : ~(k > n)
  BY <1>1
<1> HIDE DEF o
<1>3. Injective(o)
  BY <1>1 DEF Injective
<1>4. Visited(index, o, index, n, col, i, last)
  BY <1>1, <1>2, <1>3 DEF Visited
<1> QED  BY <1>4 DEF Renumbers

\* What the loop computes.
LEMMA ReindexedFacts ==
  ASSUME NEW index \in Seq(Entry), NEW col \in {1, 2}, NEW i \in Nat, NEW last \in Nat
  PROVE  Renumbers(Reindexed(index, col, i, last), index, 0, col, i, last)
<1> DEFINE n == Len(index)
           W == Seq(Entry)
           Good(s, j) == Renumbers(s, index, j, col, i, last)
           V(s, j) == VisitEntry(s, j, col, i, last)
           H == [k \in Nat |-> [s \in W |-> IF k < n /\ Good(s, n - k) THEN V(s, n - k) ELSE s]]
<1>1. n \in Nat /\ index \in W /\ Good(index, n)
  BY NoneVisited
<1>2. ASSUME NEW k \in Nat, k < n, NEW s, Good(s, n - k)
      PROVE  s \in W /\ V(s, n - k) \in W /\ Good(V(s, n - k), n - (k + 1))
  <2>1. n - k \in 1..n /\ n - (k + 1) = (n - k) - 1
    BY <1>1, <1>2
  <2>2. PICK o : Visited(s, o, index, n - k, col, i, last)
    BY <1>2 DEF Renumbers
  <2>3. PICK j : j = n - k
    OBVIOUS
  <2>4. j \in 1..Len(index) /\ Visited(s, o, index, j, col, i, last)
    BY <2>1, <2>2, <2>3
  <2>5. \E p : Visited(VisitEntry(s, j, col, i, last), p, index, j - 1, col, i, last)
    BY <2>4, VisitStep
  <2>6. PICK p : Visited(VisitEntry(s, j, col, i, last), p, index, j - 1, col, i, last)
    BY <2>5
  <2>7. Good(V(s, j), j - 1)
    BY <2>6 DEF Renumbers
  <2>8. s \in W /\ V(s, j) \in W
    BY <2>4, <2>6 DEF Visited
  <2> HIDE DEF Good, V, W
  <2> QED  BY <2>1, <2>3, <2>7, <2>8
<1> HIDE DEF n, W, Good, V
<1>3. H \in [Nat -> [W -> W]]
  BY <1>2
<1>4. PICK f : Iterates(f, W, index, H)
  <2> HIDE DEF H
  <2> QED  BY <1>1, <1>3, Recursion
<1>5. f[0] = index /\ \A k \in Nat : f[k] \in W /\ f[k + 1] = H[k][f[k]]
  <2> HIDE DEF H
  <2> QED  BY <1>4 DEF Iterates
<1>6. \A k \in Nat : k <= n => Good(f[k], n - k)
  <2> DEFINE T == {k \in Nat : k <= n => Good(f[k], n - k)}
  <2>1. 0 \in T
    BY <1>1, <1>5
  <2>2. ASSUME NEW k \in Nat, k \in T  PROVE k + 1 \in T
    <3> SUFFICES ASSUME k + 1 <= n  PROVE Good(f[k + 1], n - (k + 1))
      OBVIOUS
    <3>1. k < n /\ Good(f[k], n - k)
      BY <1>1, <2>2
    <3>2. f[k + 1] = V(f[k], n - k)
      BY <1>5, <3>1
    <3> QED  BY <1>2, <3>1, <3>2
  <2> HIDE DEF T
  <2>3. \A k \in Nat : k \in T
    BY <2>1, <2>2, SetInduction
  <2> QED  BY <2>3 DEF T
<1> DEFINE g == [k \in 0..n |-> f[k]]
<1>7. RenumberingLoop(g, index, col, i, last)
  <2>1. ASSUME NEW k \in 0..n, k # 0  PROVE g[k] = V(g[k - 1], n + 1 - k)
    <3>1. k - 1 \in Nat /\ k - 1 < n /\ k - 1 <= n /\ k - 1 \in 0..n /\ (k - 1) + 1 = k
          /\ n - (k - 1) = n + 1 - k
      BY <1>1, <2>1
    <3>2. Good(f[k - 1], n - (k - 1)) /\ f[k - 1] \in W /\ f[(k - 1) + 1] = H[k - 1][f[k - 1]]
      BY <1>5, <1>6, <3>1
    <3>3. f[(k - 1) + 1] = V(f[k - 1], n - (k - 1))
      BY <3>1, <3>2
    <3> QED  BY <3>1, <3>3
  <2>2. g[0] = index
    BY <1>1, <1>5
  <2>3. g = [k \in 0..n |-> IF k = 0 THEN index ELSE V(g[k - 1], n + 1 - k)]
    BY <2>1, <2>2
  <2> HIDE DEF g
  <2> QED  BY <2>3 DEF RenumberingLoop, V, n
<1> DEFINE it == CHOOSE h : RenumberingLoop(h, index, col, i, last)
<1>8. RenumberingLoop(it, index, col, i, last)
  <2> HIDE DEF g
  <2> QED  BY <1>7, Zenon
<1>9. Reindexed(index, col, i, last) = it[n]
  BY DEF Reindexed, RenumberingLoop, n
<1> HIDE DEF it
<1>10. it[0] = index /\ \A k \in Nat : k < n => it[k + 1] = V(it[k], n - k)
  <2>1. it = [k \in 0..n |-> IF k = 0 THEN index ELSE V(it[k - 1], n + 1 - k)]
    BY <1>8 DEF RenumberingLoop, V, n
  <2>2. it[0] = index
    BY <1>1, <2>1
  <2>3. ASSUME NEW k \in Nat, k < n  PROVE it[k + 1] = V(it[k], n - k)
    <3>1. k + 1 \in 0..n /\ k + 1 # 0 /\ (k + 1) - 1 = k /\ n + 1 - (k + 1) = n - k
      BY <1>1, <2>3
    <3>2. it[k + 1] = V(it[(k + 1) - 1], n + 1 - (k + 1))
      BY <2>1, <3>1
    <3> QED  BY <3>1, <3>2
  <2> QED  BY <2>2, <2>3
<1>11. \A k \in Nat : k <= n => Good(it[k], n - k)
  <2> DEFINE T == {k \in Nat : k <= n => Good(it[k], n - k)}
  <2>1. 0 \in T
    BY <1>1, <1>10
  <2>2. ASSUME NEW k \in Nat, k \in T  PROVE k + 1 \in T
    <3> SUFFICES ASSUME k + 1 <= n  PROVE Good(it[k + 1], n - (k + 1))
      OBVIOUS
    <3>1. k < n /\ Good(it[k], n - k)
      BY <1>1, <2>2
    <3> QED  BY <1>2, <1>10, <3>1
  <2> HIDE DEF T
  <2>3. \A k \in Nat : k \in T
    BY <2>1, <2>2, SetInduction
  <2> QED  BY <2>3 DEF T
<1>12. Good(it[n], 0)
  BY <1>1, <1>11
<1> QED  BY <1>9, <1>12 DEF Good

\* r has the entries of an index that do not refer to i, renumbered, once each:
\* o says which is which.
Keeps(r, o, index, col, i, last) ==
  /\ \A k \in 1..Len(r) : /\ o[k] \in 1..Len(index)
                          /\ index[o[k]][col] # i
                          /\ r[k] = Renumbered(index[o[k]], col, i, last)
  /\ \A k, l \in 1..Len(r) : o[k] = o[l] => k = l
  /\ \A l \in 1..Len(index) : index[l][col] # i => \E k \in 1..Len(r) : o[k] = l

\* This is what the loop leaves of an index.
LEMMA ReindexedEntries ==
  ASSUME NEW index \in Seq(Entry), NEW col \in {1, 2}, NEW i \in Nat, NEW last \in Nat
  PROVE  /\ Reindexed(index, col, i, last) \in Seq(Entry)
         /\ \E o : Keeps(Reindexed(index, col, i, last), o, index, col, i, last)
<1> DEFINE r == Reindexed(index, col, i, last)
<1>1. PICK o : Visited(r, o, index, 0, col, i, last)
  BY ReindexedFacts DEF Renumbers
<1> HIDE DEF r
<1>2. r \in Seq(Entry) /\ o \in Seq(1..Len(index)) /\ Len(o) = Len(r)
  BY <1>1 DEF Visited
<1>3. ASSUME NEW k \in 1..Len(r)
      PROVE  /\ o[k] \in 1..Len(index) /\ index[o[k]][col] # i
             /\ r[k] = Renumbered(index[o[k]], col, i, last)
  <2>1. k > 0 /\ o[k] \in 1..Len(index)
    BY <1>2
  <2> QED  BY <1>1, <2>1 DEF Visited
<1>4. \A k, l \in 1..Len(r) : o[k] = o[l] => k = l
  BY <1>1, <1>2 DEF Visited, Injective
<1>5. ASSUME NEW l \in 1..Len(index), index[l][col] # i
      PROVE  \E k \in 1..Len(r) : o[k] = l
  <2>1. l > 0
    OBVIOUS
  <2> QED  BY <1>1, <1>5, <2>1 DEF Visited
<1>6. Keeps(r, o, index, col, i, last)
  BY <1>3, <1>4, <1>5 DEF Keeps
<1> QED  BY <1>2, <1>6 DEF r

-----------------------------------------------------------------------------
(* An index that joins messages to topics.                                 *)

\* Each entry joins a message to the topic f gives it, and a message has at
\* most one.
Joins(index, msgs, topics, f) ==
  /\ index \in Seq(Entry)
  /\ \A j \in 1..Len(index) : /\ index[j][1] \in 1..Len(topics)
                              /\ index[j][2] \in 1..Len(msgs)
                              /\ topics[index[j][1]] = f[msgs[index[j][2]]]
  /\ \A j, k \in 1..Len(index) : index[j][2] = index[k][2] => j = k

\* The positions of the messages an index refers to.
Targets(index) == {index[j][2] : j \in DOMAIN index}

LEMMA TargetsFacts ==
  ASSUME NEW index \in Seq(Entry)
  PROVE  /\ Len(index) \in Nat /\ DOMAIN index = 1..Len(index)
         /\ \A j \in 1..Len(index) : index[j] \in Entry /\ index[j][1] \in Nat /\ index[j][2] \in Nat
         /\ \A l : l \in Targets(index) <=> \E j \in 1..Len(index) : index[j][2] = l
<1>1. Len(index) \in Nat /\ DOMAIN index = 1..Len(index) /\ \A j \in 1..Len(index) : index[j] \in Entry
  OBVIOUS
<1>2. \A e \in Entry : e[1] \in Nat /\ e[2] \in Nat
  BY DEF Entry
<1>3. \A l : l \in Targets(index) <=> \E j \in 1..Len(index) : index[j][2] = l
  BY <1>1 DEF Targets
<1> QED  BY <1>1, <1>2, <1>3

\* Deleting a message and renumbering the index keeps the joins.
LEMMA RemoveJoins ==
  ASSUME NEW S, NEW msgs \in Seq(S), NEW i \in 1..Len(msgs), NEW topics, NEW f, NEW index,
         Joins(index, msgs, topics, f)
  PROVE  /\ Joins(Reindexed(index, 2, i, Len(msgs)), Del(msgs, i), topics, f)
         /\ \A l \in Targets(index) : l # i =>
              Moved(l, i, Len(msgs)) \in Targets(Reindexed(index, 2, i, Len(msgs)))
<1> DEFINE n == Len(msgs)
           r == Reindexed(index, 2, i, n)
           d == Del(msgs, i)
<1>1. n \in Nat /\ i \in Nat /\ index \in Seq(Entry) /\ Len(d) = n - 1
  BY DelFacts DEF Joins
<1>2. r \in Seq(Entry)
  BY <1>1, ReindexedEntries
<1>3a. PICK o : Keeps(r, o, index, 2, i, n)
  BY <1>1, ReindexedEntries
<1> HIDE DEF r
<1>3. /\ \A k \in 1..Len(r) : /\ o[k] \in 1..Len(index)
                               /\ index[o[k]][2] # i
                               /\ r[k] = Renumbered(index[o[k]], 2, i, n)
      /\ \A k, l \in 1..Len(r) : o[k] = o[l] => k = l
      /\ \A l \in 1..Len(index) : index[l][2] # i => \E k \in 1..Len(r) : o[k] = l
  BY <1>3a DEF Keeps
<1>4. ASSUME NEW k \in 1..Len(r)
      PROVE  /\ o[k] \in 1..Len(index) /\ index[o[k]][2] # i /\ index[o[k]][2] \in 1..n
             /\ index[o[k]][2] \in Nat
             /\ r[k][1] = index[o[k]][1] /\ r[k][2] = Moved(index[o[k]][2], i, n)
  <2>1. o[k] \in 1..Len(index) /\ index[o[k]] \in Entry /\ index[o[k]][2] # i
        /\ index[o[k]][2] \in 1..n /\ r[k] = Renumbered(index[o[k]], 2, i, n)
    BY <1>3, <1>1, TargetsFacts DEF Joins
  <2>2. PICK e : e = index[o[k]]
    OBVIOUS
  <2>3. e \in Entry /\ r[k] = Renumbered(e, 2, i, n)
    BY <2>1, <2>2
  <2> HIDE DEF n
  <2>4. Renumbered(e, 2, i, n)[1] = e[1] /\ Renumbered(e, 2, i, n)[2] = Moved(e[2], i, n)
    BY <1>1, <2>3, RenumberedType
  <2>5. e[2] \in Nat
    BY <2>3 DEF Entry
  <2> QED  BY <2>1, <2>2, <2>3, <2>4, <2>5
<1>5. ASSUME NEW k \in 1..Len(r)
      PROVE  /\ r[k][1] \in 1..Len(topics) /\ r[k][2] \in 1..Len(d)
             /\ topics[r[k][1]] = f[d[r[k][2]]]
  <2>1. PICK a : a = index[o[k]][2]
    OBVIOUS
  <2>2. a \in 1..Len(msgs) /\ a # i
    BY <1>4, <2>1
  <2>3. Moved(a, i, Len(msgs)) \in 1..(Len(msgs) - 1) /\ d[Moved(a, i, Len(msgs))] = msgs[a]
    BY <2>2, DelMoves
  <2>4. /\ index[o[k]][1] \in 1..Len(topics) /\ topics[index[o[k]][1]] = f[msgs[index[o[k]][2]]]
    BY <1>4 DEF Joins
  <2> HIDE DEF d
  <2> QED  BY <1>1, <1>4, <2>1, <2>3, <2>4
<1>6. ASSUME NEW j \in 1..Len(r), NEW k \in 1..Len(r), r[j][2] = r[k][2]  PROVE j = k
  <2>1. PICK a, b : a = index[o[j]][2] /\ b = index[o[k]][2]
    OBVIOUS
  <2>2. a \in 1..n /\ b \in 1..n /\ a # i /\ b # i /\ Moved(a, i, n) = Moved(b, i, n)
    BY <1>4, <1>6, <2>1
  <2>3. a = b
    <3> HIDE DEF n
    <3> QED  BY <2>2 DEF Moved
  <2>4. o[j] = o[k]
    BY <1>4, <2>1, <2>3 DEF Joins
  <2> QED  BY <1>3, <2>4
<1>7. Joins(r, d, topics, f)
  <2> HIDE DEF d
  <2> QED  BY <1>2, <1>5, <1>6 DEF Joins
<1>8. ASSUME NEW l \in Targets(index), l # i  PROVE Moved(l, i, n) \in Targets(r)
  <2>1. PICK j \in 1..Len(index) : index[j][2] = l
    BY <1>1, <1>8, TargetsFacts
  <2>2. PICK k \in 1..Len(r) : o[k] = j
    BY <1>3, <1>8, <2>1
  <2>3. r[k][2] = Moved(l, i, n)
    BY <1>4, <2>1, <2>2
  <2> QED  BY <1>2, <2>3, TargetsFacts
<1> QED  BY <1>7, <1>8 DEF r

\* Deleting a topic and renumbering its index keeps the joins, and the index
\* still refers to the messages of the other topics.
LEMMA DropTopicJoins ==
  ASSUME NEW S, NEW topics \in Seq(S), NEW i \in 1..Len(topics), NEW msgs, NEW f, NEW index,
         Joins(index, msgs, topics, f)
  PROVE  /\ Joins(Reindexed(index, 1, i, Len(topics)), msgs, Del(topics, i), f)
         /\ \A l \in Targets(index) : l \in MessagePositions(index, i) \/
              l \in Targets(Reindexed(index, 1, i, Len(topics)))
<1> DEFINE n == Len(topics)
           r == Reindexed(index, 1, i, n)
           d == Del(topics, i)
<1>1. n \in Nat /\ i \in Nat /\ index \in Seq(Entry) /\ Len(d) = n - 1
  BY DelFacts DEF Joins
<1>2. r \in Seq(Entry)
  BY <1>1, ReindexedEntries
<1>3a. PICK o : Keeps(r, o, index, 1, i, n)
  BY <1>1, ReindexedEntries
<1> HIDE DEF r
<1>3. /\ \A k \in 1..Len(r) : /\ o[k] \in 1..Len(index)
                               /\ index[o[k]][1] # i
                               /\ r[k] = Renumbered(index[o[k]], 1, i, n)
      /\ \A k, l \in 1..Len(r) : o[k] = o[l] => k = l
      /\ \A l \in 1..Len(index) : index[l][1] # i => \E k \in 1..Len(r) : o[k] = l
  BY <1>3a DEF Keeps
<1>4. ASSUME NEW k \in 1..Len(r)
      PROVE  /\ o[k] \in 1..Len(index) /\ index[o[k]][1] # i /\ index[o[k]][1] \in 1..n
             /\ r[k][2] = index[o[k]][2] /\ r[k][1] = Moved(index[o[k]][1], i, n)
  <2>1. o[k] \in 1..Len(index) /\ index[o[k]] \in Entry /\ index[o[k]][1] # i
        /\ index[o[k]][1] \in 1..n /\ r[k] = Renumbered(index[o[k]], 1, i, n)
    BY <1>3, <1>1, TargetsFacts DEF Joins
  <2>2. PICK e : e = index[o[k]]
    OBVIOUS
  <2>3. e \in Entry /\ r[k] = Renumbered(e, 1, i, n)
    BY <2>1, <2>2
  <2> HIDE DEF n
  <2>4. Renumbered(e, 1, i, n)[2] = e[2] /\ Renumbered(e, 1, i, n)[1] = Moved(e[1], i, n)
    BY <1>1, <2>3, RenumberedType
  <2> QED  BY <2>1, <2>2, <2>3, <2>4
<1>5. ASSUME NEW k \in 1..Len(r)
      PROVE  /\ r[k][1] \in 1..Len(d) /\ r[k][2] \in 1..Len(msgs)
             /\ d[r[k][1]] = f[msgs[r[k][2]]]
  <2>1. PICK a : a = index[o[k]][1]
    OBVIOUS
  <2>2. a \in 1..Len(topics) /\ a # i
    BY <1>4, <2>1
  <2>3. Moved(a, i, Len(topics)) \in 1..(Len(topics) - 1) /\ d[Moved(a, i, Len(topics))] = topics[a]
    BY <2>2, DelMoves
  <2>4. /\ index[o[k]][2] \in 1..Len(msgs) /\ topics[index[o[k]][1]] = f[msgs[index[o[k]][2]]]
    BY <1>4 DEF Joins
  <2> HIDE DEF d
  <2> QED  BY <1>1, <1>4, <2>1, <2>3, <2>4
<1>6. ASSUME NEW j \in 1..Len(r), NEW k \in 1..Len(r), r[j][2] = r[k][2]  PROVE j = k
  <2>1. /\ o[j] \in 1..Len(index) /\ o[k] \in 1..Len(index)
        /\ index[o[j]][2] = index[o[k]][2]
    BY <1>4, <1>6
  <2>2. o[j] = o[k]
    BY <2>1 DEF Joins
  <2> QED  BY <1>3, <2>2
<1>7. Joins(r, msgs, d, f)
  <2> HIDE DEF d
  <2> QED  BY <1>2, <1>5, <1>6 DEF Joins
<1>8. ASSUME NEW l \in Targets(index), l \notin MessagePositions(index, i)
      PROVE  l \in Targets(r)
  <2>1. PICK j \in 1..Len(index) : index[j][2] = l
    BY <1>1, <1>8, TargetsFacts
  <2>2. index[j][1] # i
    BY <1>1, <1>8, <2>1 DEF MessagePositions
  <2>3. PICK k \in 1..Len(r) : o[k] = j
    BY <1>3, <2>1, <2>2
  <2>4. r[k][2] = l
    BY <1>4, <2>1, <2>3
  <2> QED  BY <1>2, <2>4, TargetsFacts
<1> QED  BY <1>7, <1>8 DEF r

-----------------------------------------------------------------------------
(* Removing messages.                                                      *)

StoreSet == [messages : Seq(WakuMessages), pubsubIndex : Seq(Entry),
             contentIndex : Seq(Entry), defect : BOOLEAN]

\* The messages differ and both indices join them to their topics.
SoundStore(st, pubsub, content, f) ==
  /\ st \in StoreSet /\ Injective(st.messages)
  /\ Joins(st.pubsubIndex, st.messages, pubsub, f)
  /\ Joins(st.contentIndex, st.messages, content, ContentTopicOf)

\* Every message is in one of the indices, those at the positions U excepted.
Reaches(st, U) ==
  \A l \in 1..Len(st.messages) :
    l \in U \/ l \in Targets(st.pubsubIndex) \/ l \in Targets(st.contentIndex)

LEMMA StoreFields ==
  ASSUME NEW st \in StoreSet
  PROVE  /\ st.messages \in Seq(WakuMessages) /\ st.pubsubIndex \in Seq(Entry)
         /\ st.contentIndex \in Seq(Entry) /\ st.defect \in BOOLEAN
         /\ Len(st.messages) \in Nat /\ DOMAIN st.messages = 1..Len(st.messages)
<1>1. /\ st.messages \in Seq(WakuMessages) /\ st.pubsubIndex \in Seq(Entry)
      /\ st.contentIndex \in Seq(Entry) /\ st.defect \in BOOLEAN
  BY DEF StoreSet
<1> QED  BY <1>1

\* The outcomes of removeMessage.
LEMMA RemoveMessageCases ==
  ASSUME NEW st \in StoreSet, NEW i \in Nat
  PROVE  /\ RemoveMessage(st, i) \in StoreSet
         /\ st.defect \/ i \notin 1..Len(st.messages) =>
              /\ RemoveMessage(st, i).messages = st.messages
              /\ RemoveMessage(st, i).pubsubIndex = st.pubsubIndex
              /\ RemoveMessage(st, i).contentIndex = st.contentIndex
         /\ ~st.defect /\ i \in 1..Len(st.messages) =>
              /\ RemoveMessage(st, i).messages = Del(st.messages, i)
              /\ RemoveMessage(st, i).pubsubIndex =
                   Reindexed(st.pubsubIndex, 2, i, Len(st.messages))
              /\ RemoveMessage(st, i).contentIndex =
                   Reindexed(st.contentIndex, 2, i, Len(st.messages))
              /\ ~RemoveMessage(st, i).defect
<1> DEFINE r == RemoveMessage(st, i)
           n == Len(st.messages)
<1>0. /\ st.messages \in Seq(WakuMessages) /\ st.pubsubIndex \in Seq(Entry)
      /\ st.contentIndex \in Seq(Entry) /\ st.defect \in BOOLEAN
      /\ n \in Nat /\ DOMAIN st.messages = 1..n
  BY StoreFields
<1>1. CASE st.defect \/ i \notin 1..Len(st.messages)
  <2>1. r = [st EXCEPT !.defect = TRUE]
    BY <1>0, <1>1, Zenon DEF RemoveMessage
  <2> HIDE DEF r
  <2>2. /\ r \in StoreSet /\ r.messages = st.messages /\ r.pubsubIndex = st.pubsubIndex
        /\ r.contentIndex = st.contentIndex
    BY <2>1 DEF StoreSet
  <2> QED  BY <1>1, <2>2 DEF r
<1>2. CASE ~st.defect /\ i \in 1..Len(st.messages)
  <2>1. r = [messages |-> Del(st.messages, i),
             pubsubIndex |-> Reindexed(st.pubsubIndex, 2, i, n),
             contentIndex |-> Reindexed(st.contentIndex, 2, i, n),
             defect |-> FALSE]
    BY <1>0, <1>2, Zenon DEF RemoveMessage
  <2>2. Del(st.messages, i) \in Seq(WakuMessages)
    BY <1>0, <1>2, DelFacts
  <2>3. /\ Reindexed(st.pubsubIndex, 2, i, n) \in Seq(Entry)
        /\ Reindexed(st.contentIndex, 2, i, n) \in Seq(Entry)
    BY <1>0, ReindexedEntries
  <2> HIDE DEF r
  <2>4. /\ r \in StoreSet /\ r.messages = Del(st.messages, i)
        /\ r.pubsubIndex = Reindexed(st.pubsubIndex, 2, i, n)
        /\ r.contentIndex = Reindexed(st.contentIndex, 2, i, n) /\ ~r.defect
    BY <2>1, <2>2, <2>3 DEF StoreSet
  <2> QED  BY <1>2, <2>4 DEF r
<1> QED  BY <1>0, <1>1, <1>2, Zenon

\* r is the sound store st without its message at position i; positions below
\* it stay, and so does what is unreached there.
WithoutOne(r, st, i, pubsub, content, f) ==
  /\ SoundStore(r, pubsub, content, f) /\ ~r.defect
  /\ Len(r.messages) = Len(st.messages) - 1
  /\ Range(r.messages) = Range(st.messages) \ {st.messages[i]}
  /\ \A p \in 1..(i - 1) : r.messages[p] = st.messages[p]
  /\ \A U : Reaches(st, U) /\ (\A u \in U : u <= i) => Reaches(r, U \ {i})

\* This is what removeMessage makes of a store.
LEMMA RemoveOne ==
  ASSUME NEW st, NEW pubsub, NEW content, NEW f, NEW i,
         SoundStore(st, pubsub, content, f), ~st.defect, i \in 1..Len(st.messages)
  PROVE  WithoutOne(RemoveMessage(st, i), st, i, pubsub, content, f)
<1> DEFINE r == RemoveMessage(st, i)
           n == Len(st.messages)
<1>1. /\ st \in StoreSet /\ n \in Nat /\ i \in Nat /\ i \in 1..n
      /\ st.messages \in Seq(WakuMessages) /\ Injective(st.messages)
  BY StoreFields DEF SoundStore
<1>2. /\ r \in StoreSet /\ r.messages = Del(st.messages, i)
      /\ r.pubsubIndex = Reindexed(st.pubsubIndex, 2, i, n)
      /\ r.contentIndex = Reindexed(st.contentIndex, 2, i, n) /\ ~r.defect
  BY <1>1, RemoveMessageCases
<1> HIDE DEF r
<1>3. /\ Len(r.messages) = n - 1
      /\ \A k \in 1..(n - 1) : r.messages[k] = IF k = i THEN st.messages[n] ELSE st.messages[k]
  <2>1. PICK ms : ms = st.messages
    OBVIOUS
  <2>2. ms \in Seq(WakuMessages) /\ i \in 1..Len(ms)
    BY <1>1, <2>1
  <2>3. /\ Len(Del(ms, i)) = Len(ms) - 1
        /\ \A k \in 1..(Len(ms) - 1) : Del(ms, i)[k] = IF k = i THEN ms[Len(ms)] ELSE ms[k]
    BY <2>2, DelFacts
  <2> QED  BY <1>2, <2>1, <2>3
<1>4. Injective(r.messages) /\ Range(r.messages) = Range(st.messages) \ {st.messages[i]}
  BY <1>1, <1>2, DelInjective
<1>5. /\ Joins(r.pubsubIndex, r.messages, pubsub, f)
      /\ \A l \in Targets(st.pubsubIndex) : l # i => Moved(l, i, n) \in Targets(r.pubsubIndex)
  <2>1. Joins(st.pubsubIndex, st.messages, pubsub, f)
    BY DEF SoundStore
  <2> QED  BY <1>1, <1>2, <2>1, RemoveJoins
<1>6. /\ Joins(r.contentIndex, r.messages, content, ContentTopicOf)
      /\ \A l \in Targets(st.contentIndex) : l # i => Moved(l, i, n) \in Targets(r.contentIndex)
  <2>1. Joins(st.contentIndex, st.messages, content, ContentTopicOf)
    BY DEF SoundStore
  <2> QED  BY <1>1, <1>2, <2>1, RemoveJoins
<1>7. SoundStore(r, pubsub, content, f)
  BY <1>2, <1>4, <1>5, <1>6 DEF SoundStore
<1>8. ASSUME NEW p \in 1..(i - 1)  PROVE r.messages[p] = st.messages[p]
  <2>1. p \in 1..(n - 1) /\ p # i
    BY <1>1
  <2> QED  BY <1>3, <2>1
<1>9. ASSUME NEW U, Reaches(st, U), \A u \in U : u <= i, NEW k \in 1..Len(r.messages)
      PROVE  k \in U \ {i} \/ k \in Targets(r.pubsubIndex) \/ k \in Targets(r.contentIndex)
  <2>1. PICK l \in 1..n : l # i /\ k = Moved(l, i, n)
    <3>1. k \in 1..Len(Del(st.messages, i))
      BY <1>2
    <3> QED  BY <1>1, <3>1, DelOrigin
  <2>2. CASE l \in U
    <3>1. l <= i
      BY <1>9, <2>2
    <3> HIDE DEF n
    <3>2. k = l
      BY <1>1, <2>1, <3>1 DEF Moved
    <3> QED  BY <2>1, <2>2, <3>2
  <2>3. CASE l \notin U
    <3>1. l \in Targets(st.pubsubIndex) \/ l \in Targets(st.contentIndex)
      BY <1>9, <2>3 DEF Reaches
    <3> QED  BY <1>5, <1>6, <2>1, <3>1
  <2> QED  BY <2>2, <2>3
<1>10. ASSUME NEW U, Reaches(st, U), \A u \in U : u <= i  PROVE Reaches(r, U \ {i})
  BY <1>9, <1>10 DEF Reaches
<1>11. WithoutOne(r, st, i, pubsub, content, f)
  BY <1>2, <1>3, <1>4, <1>7, <1>8, <1>10 DEF WithoutOne
<1> QED  BY <1>11 DEF r

\* No call of removeMessage, a failing one included, makes a sound store
\* unsound or a reached one unreached.
LEMMA RemoveAny ==
  ASSUME NEW st, NEW pubsub, NEW content, NEW f, NEW i \in Nat,
         SoundStore(st, pubsub, content, f), Reaches(st, {})
  PROVE  /\ SoundStore(RemoveMessage(st, i), pubsub, content, f)
         /\ Reaches(RemoveMessage(st, i), {})
         /\ Len(RemoveMessage(st, i).messages) <= Len(st.messages)
         /\ Range(RemoveMessage(st, i).messages) \subseteq Range(st.messages)
<1> DEFINE r == RemoveMessage(st, i)
           n == Len(st.messages)
<1>1. st \in StoreSet /\ n \in Nat /\ st.defect \in BOOLEAN
  BY StoreFields DEF SoundStore
<1>3. CASE st.defect \/ i \notin 1..n
  <2>1. /\ r \in StoreSet /\ r.messages = st.messages /\ r.pubsubIndex = st.pubsubIndex
        /\ r.contentIndex = st.contentIndex
    BY <1>1, <1>3, RemoveMessageCases
  <2> HIDE DEF r
  <2>2. SoundStore(r, pubsub, content, f) /\ Reaches(r, {})
    BY <2>1 DEF SoundStore, Reaches
  <2> QED  BY <1>1, <2>1, <2>2 DEF r
<1>4. CASE ~st.defect /\ i \in 1..n
  <2>0. WithoutOne(r, st, i, pubsub, content, f)
    BY <1>4, RemoveOne
  <2> HIDE DEF r
  <2>1. /\ SoundStore(r, pubsub, content, f)
        /\ Len(r.messages) = n - 1
        /\ Range(r.messages) = Range(st.messages) \ {st.messages[i]}
        /\ \A U : Reaches(st, U) /\ (\A u \in U : u <= i) => Reaches(r, U \ {i})
    BY <2>0 DEF WithoutOne
  <2>2. Reaches(r, {} \ {i}) /\ {} \ {i} = {}
    BY <2>1
  <2>3. n - 1 <= n
    BY <1>1
  <2> QED  BY <2>1, <2>2, <2>3 DEF r
<1> QED  BY <1>1, <1>3, <1>4

-----------------------------------------------------------------------------
(* Removing several messages.                                              *)

\* h has the store after each of the removals.
RemovalLoop(h, st, positions) ==
  h = [k \in 0..Len(positions) |->
         IF k = 0 THEN st ELSE RemoveMessage(h[k - 1], positions[k])]

\* The removals one after the other.
LEMMA RemovalsInTurn ==
  ASSUME NEW st \in StoreSet, NEW positions \in Seq(Nat)
  PROVE  \E h : /\ h[0] = st
                /\ \A k \in Nat : k < Len(positions) =>
                     h[k + 1] = RemoveMessage(h[k], positions[k + 1])
                /\ RemoveInOrder(st, positions) = h[Len(positions)]
<1> DEFINE n == Len(positions)
           H == [k \in Nat |-> [s \in StoreSet |->
                   IF k < n THEN RemoveMessage(s, positions[k + 1]) ELSE s]]
<1>1. n \in Nat /\ \A k \in 1..n : positions[k] \in Nat
  OBVIOUS
<1> HIDE DEF n
<1>2. ASSUME NEW k \in Nat, k < n, NEW s \in StoreSet
      PROVE  RemoveMessage(s, positions[k + 1]) \in StoreSet
  <2>1. positions[k + 1] \in Nat
    <3>1. k + 1 \in 1..n
      BY <1>1, <1>2
    <3> QED  BY <1>1, <3>1
  <2> QED  BY <2>1, RemoveMessageCases
<1>3. H \in [Nat -> [StoreSet -> StoreSet]]
  BY <1>2
<1>4. PICK f : Iterates(f, StoreSet, st, H)
  <2> HIDE DEF H
  <2> QED  BY <1>3, Recursion
<1>5. f[0] = st /\ \A k \in Nat : f[k] \in StoreSet /\ f[k + 1] = H[k][f[k]]
  <2> HIDE DEF H
  <2> QED  BY <1>4 DEF Iterates
<1> DEFINE g == [k \in 0..n |-> f[k]]
<1>6. RemovalLoop(g, st, positions)
  <2>1. ASSUME NEW k \in 0..n, k # 0  PROVE g[k] = RemoveMessage(g[k - 1], positions[k])
    <3>1. k - 1 \in Nat /\ k - 1 < n /\ k - 1 \in 0..n /\ (k - 1) + 1 = k
      BY <1>1, <2>1
    <3>2. f[(k - 1) + 1] = RemoveMessage(f[k - 1], positions[(k - 1) + 1])
      BY <1>5, <3>1
    <3> QED  BY <3>1, <3>2
  <2>2. g[0] = st
    BY <1>1, <1>5
  <2>3. g = [k \in 0..n |-> IF k = 0 THEN st ELSE RemoveMessage(g[k - 1], positions[k])]
    BY <2>1, <2>2
  <2> HIDE DEF g
  <2> QED  BY <2>3 DEF RemovalLoop, n
<1> DEFINE it == CHOOSE h : RemovalLoop(h, st, positions)
<1>7. RemovalLoop(it, st, positions)
  <2> HIDE DEF g
  <2> QED  BY <1>6, Zenon
<1>8. RemoveInOrder(st, positions) = it[n]
  BY DEF RemoveInOrder, RemovalLoop, n
<1> HIDE DEF it
<1>9. it = [k \in 0..n |-> IF k = 0 THEN st ELSE RemoveMessage(it[k - 1], positions[k])]
  BY <1>7 DEF RemovalLoop, n
<1>10. it[0] = st
  BY <1>1, <1>9
<1>11. ASSUME NEW k \in Nat, k < n  PROVE it[k + 1] = RemoveMessage(it[k], positions[k + 1])
  <2>1. k + 1 \in 0..n /\ k + 1 # 0 /\ (k + 1) - 1 = k
    BY <1>1, <1>11
  <2>2. it[k + 1] = RemoveMessage(it[(k + 1) - 1], positions[k + 1])
    BY <1>9, <2>1
  <2> QED  BY <2>1, <2>2
<1> QED  BY <1>8, <1>10, <1>11 DEF n

\* Removals at any positions, in any order.
LEMMA RemoveManyAny ==
  ASSUME NEW st, NEW pubsub, NEW content, NEW f, NEW positions \in Seq(Nat),
         SoundStore(st, pubsub, content, f), Reaches(st, {})
  PROVE  /\ SoundStore(RemoveInOrder(st, positions), pubsub, content, f)
         /\ Reaches(RemoveInOrder(st, positions), {})
         /\ Len(RemoveInOrder(st, positions).messages) <= Len(st.messages)
         /\ Range(RemoveInOrder(st, positions).messages) \subseteq Range(st.messages)
<1>1. st \in StoreSet
  BY DEF SoundStore
<1>2. PICK h : /\ h[0] = st
               /\ \A k \in Nat : k < Len(positions) =>
                    h[k + 1] = RemoveMessage(h[k], positions[k + 1])
               /\ RemoveInOrder(st, positions) = h[Len(positions)]
  BY <1>1, RemovalsInTurn
<1> DEFINE n == Len(positions)
           Good(r) == /\ SoundStore(r, pubsub, content, f) /\ Reaches(r, {})
                      /\ Len(r.messages) <= Len(st.messages)
                      /\ Range(r.messages) \subseteq Range(st.messages)
           T == {k \in Nat : k <= n => Good(h[k])}
<1>3. n \in Nat /\ Len(st.messages) \in Nat
  BY <1>1, StoreFields
<1>4. Good(st)
  BY <1>3
<1>5. ASSUME NEW r, Good(r), NEW i \in Nat  PROVE Good(RemoveMessage(r, i))
  <2>1. /\ SoundStore(RemoveMessage(r, i), pubsub, content, f)
        /\ Reaches(RemoveMessage(r, i), {})
        /\ Len(RemoveMessage(r, i).messages) <= Len(r.messages)
        /\ Range(RemoveMessage(r, i).messages) \subseteq Range(r.messages)
    BY <1>5, RemoveAny
  <2>2. r \in StoreSet /\ RemoveMessage(r, i) \in StoreSet
    BY <1>5, <2>1 DEF SoundStore
  <2>3. Len(r.messages) \in Nat /\ Len(RemoveMessage(r, i).messages) \in Nat
    BY <2>2, StoreFields
  <2>4. Len(RemoveMessage(r, i).messages) <= Len(st.messages)
    BY <1>3, <1>5, <2>1, <2>3
  <2> QED  BY <1>5, <2>1, <2>4
<1> HIDE DEF Good
<1>6. 0 \in T
  BY <1>2, <1>4
<1>7. ASSUME NEW k \in Nat, k \in T  PROVE k + 1 \in T
  <2> SUFFICES ASSUME k + 1 <= n  PROVE Good(h[k + 1])
    OBVIOUS
  <2>1. k < n /\ Good(h[k])
    BY <1>3, <1>7
  <2>2. h[k + 1] = RemoveMessage(h[k], positions[k + 1])
    BY <1>2, <2>1
  <2>3. positions[k + 1] \in Nat
    <3>1. k + 1 \in 1..n
      BY <1>3
    <3> QED  BY <3>1
  <2> QED  BY <1>5, <2>1, <2>2, <2>3
<1> HIDE DEF T
<1>8. \A k \in Nat : k \in T
  BY <1>6, <1>7, SetInduction
<1>9. Good(h[n])
  BY <1>3, <1>8 DEF T
<1> QED  BY <1>2, <1>9 DEF Good

\* A finite set of positions in falling order.
LEMMA DescendingFacts ==
  ASSUME NEW n \in Nat, NEW S \in SUBSET (1..n)
  PROVE  /\ Descending(S) \in Seq(Nat) /\ Len(Descending(S)) \in Nat
         /\ Range(Descending(S)) = S
         /\ \A i \in 1..Len(Descending(S)) : Descending(S)[i] \in S
         /\ \A i, j \in 1..Len(Descending(S)) : i < j => Descending(S)[i] > Descending(S)[j]
<1> DEFINE c == Cardinality(S)
           Falling(s) == \A i, j \in DOMAIN s : i < j => s[i] > s[j]
           R == {e \in S \X S : e[1] > e[2]}
<1>1. IsFiniteSet(S) /\ S \subseteq Nat
  <2>1. IsFiniteSet(1..n)
    BY FS_Interval
  <2>2. IsFiniteSet(S)
    BY <2>1, FS_Subset
  <2> QED  BY <2>2
<1>2. Ordering(R, S)
  <2>1. \A x, y \in S : <<x, y>> \in R <=> x > y
    OBVIOUS
  <2> HIDE DEF R
  <2>2. \A x, y \in S : x # y => <<x, y>> \in R \/ <<y, x>> \in R
    BY <1>1, <2>1
  <2>3. \A x, y \in S : <<x, y>> \in R => <<y, x>> \notin R
    BY <1>1, <2>1
  <2>4. \A x, y, z \in S : <<x, y>> \in R /\ <<y, z>> \in R => <<x, z>> \in R
    BY <1>1, <2>1
  <2> QED  BY <2>2, <2>3, <2>4 DEF Ordering
<1>3. \A x, y : <<x, y>> \in R <=> x \in S /\ y \in S /\ x > y
  OBVIOUS
<1> HIDE DEF R
<1>4. PICK f : Lists(f, S, R)
  BY <1>1, <1>2, ListExists
<1>5. /\ f \in Seq(S) /\ Len(f) = c /\ c \in Nat
      /\ \A i, j \in 1..Len(f) : f[i] = f[j] => i = j
  BY <1>1, <1>2, <1>4, ListFacts
<1>6. f \in [1..c -> S] /\ \A i, j \in 1..c : i < j => <<f[i], f[j]>> \in R
  BY <1>4 DEF Lists
<1>7. f \in SetToSeqs(S)
  BY <1>5, <1>6 DEF SetToSeqs
<1>8. Falling(f)
  BY <1>3, <1>6
<1> HIDE DEF Falling
<1>9. Descending(S) = CHOOSE s \in SetToSeqs(S) : Falling(s)
  BY Zenon DEF Descending, Falling
<1>10. Descending(S) \in SetToSeqs(S) /\ Falling(Descending(S))
  BY <1>7, <1>8, <1>9, Zenon
<1> DEFINE s == Descending(S)
<1>11. s \in [1..c -> S] /\ DOMAIN s = 1..c
  BY <1>10 DEF SetToSeqs
<1>12. \A i, j \in 1..c : i < j => s[i] > s[j]
  BY <1>10, <1>11, Zenon DEF Falling
<1> HIDE DEF s
<1>13. Lists(s, S, R)
  <2>1. \A i, j \in 1..c : i < j => <<s[i], s[j]>> \in R
    BY <1>3, <1>11, <1>12
  <2> QED  BY <1>11, <2>1 DEF Lists
<1>14. s \in Seq(S) /\ Len(s) = c /\ Range(s) = S
  BY <1>1, <1>2, <1>13, ListFacts
<1>15. s \in Seq(Nat)
  BY <1>1, <1>14, SeqMonotonic
<1> QED  BY <1>5, <1>11, <1>12, <1>14, <1>15 DEF s

\* r is what is left of the store st when k of the positions ps have been
\* removed, the highest first.
Remains(r, st, ps, k, pubsub, content, f) ==
  /\ SoundStore(r, pubsub, content, f) /\ ~r.defect
  /\ Len(r.messages) <= Len(st.messages)
  /\ \A m \in 1..Len(ps) : m > k =>
       ps[m] \in 1..Len(r.messages) /\ r.messages[ps[m]] = st.messages[ps[m]]
  /\ Range(r.messages) = Range(st.messages) \ {st.messages[ps[m]] : m \in 1..k}
  /\ Reaches(st, Range(ps)) => Reaches(r, {ps[m] : m \in (k + 1)..Len(ps)})

\* Removing the next one.
LEMMA RemovesNext ==
  ASSUME NEW st \in StoreSet, NEW pubsub, NEW content, NEW f, NEW ps \in Seq(Nat), NEW r,
         \A i, j \in 1..Len(ps) : i < j => ps[i] > ps[j],
         NEW k \in Nat, k < Len(ps), Remains(r, st, ps, k, pubsub, content, f)
  PROVE  Remains(RemoveMessage(r, ps[k + 1]), st, ps, k + 1, pubsub, content, f)
<1> DEFINE n == Len(ps)
           p == ps[k + 1]
           q == RemoveMessage(r, p)
<1>1. n \in Nat /\ k + 1 \in 1..n /\ k + 1 > k /\ Len(st.messages) \in Nat
  BY StoreFields
<1>2. /\ SoundStore(r, pubsub, content, f) /\ ~r.defect
      /\ Len(r.messages) <= Len(st.messages)
      /\ p \in 1..Len(r.messages) /\ r.messages[p] = st.messages[p]
  BY <1>1 DEF Remains
<1>3. WithoutOne(q, r, p, pubsub, content, f)
  BY <1>2, RemoveOne
<1>4. r \in StoreSet /\ q \in StoreSet
  BY <1>2, <1>3 DEF WithoutOne, SoundStore
<1>5. Len(r.messages) \in Nat /\ Len(q.messages) = Len(r.messages) - 1 /\ p \in Nat
  BY <1>2, <1>3, <1>4, StoreFields DEF WithoutOne
<1> HIDE DEF q
<1>6. ASSUME NEW m \in 1..n, m > k + 1
      PROVE  ps[m] \in 1..Len(q.messages) /\ q.messages[ps[m]] = st.messages[ps[m]]
  <2>1. ps[m] < p /\ ps[m] \in 1..Len(r.messages) /\ r.messages[ps[m]] = st.messages[ps[m]]
    <3>1. m > k /\ k + 1 < m
      BY <1>1, <1>6
    <3> QED  BY <1>1, <3>1 DEF Remains
  <2>2. ps[m] \in 1..(p - 1) /\ ps[m] \in 1..Len(q.messages)
    <3>1. PICK x, y, a : x = ps[m] /\ y = p /\ a = Len(r.messages)
      OBVIOUS
    <3>2. x < y /\ x \in 1..a /\ y \in 1..a /\ a \in Nat
      BY <1>2, <1>5, <2>1, <3>1
    <3>3. x \in 1..(y - 1) /\ x \in 1..(a - 1)
      BY <3>2
    <3> HIDE DEF p
    <3> QED  BY <1>5, <3>1, <3>3
  <2>3. q.messages[ps[m]] = r.messages[ps[m]]
    BY <1>3, <2>2 DEF WithoutOne
  <2> QED  BY <2>1, <2>2, <2>3
<1>7. Range(q.messages) = Range(st.messages) \ {st.messages[ps[m]] : m \in 1..(k + 1)}
  <2>1. Range(q.messages) = Range(r.messages) \ {st.messages[p]}
    BY <1>2, <1>3 DEF WithoutOne
  <2>2. Range(r.messages) = Range(st.messages) \ {st.messages[ps[m]] : m \in 1..k}
    BY DEF Remains
  <2>3. \A m : m \in 1..(k + 1) <=> m \in 1..k \/ m = k + 1
    OBVIOUS
  <2>4. {st.messages[ps[m]] : m \in 1..(k + 1)} =
          {st.messages[ps[m]] : m \in 1..k} \cup {st.messages[p]}
    BY <2>3
  <2> QED  BY <2>1, <2>2, <2>4
<1>8. ASSUME Reaches(st, Range(ps))
      PROVE  Reaches(q, {ps[m] : m \in ((k + 1) + 1)..n})
  <2> DEFINE U == {ps[m] : m \in (k + 1)..n}
             V == {ps[m] : m \in ((k + 1) + 1)..n}
  <2>1. Reaches(r, U)
    BY <1>8 DEF Remains
  <2>2. ASSUME NEW u \in U  PROVE u <= p
    <3>1. PICK m \in (k + 1)..n : u = ps[m]
      OBVIOUS
    <3>2. m \in 1..n /\ ps[m] \in Nat
      BY <1>1, <3>1
    <3>3. CASE m = k + 1
      BY <1>5, <3>1, <3>3
    <3>4. CASE m # k + 1
      <4>1. k + 1 < m
        BY <1>1, <3>2, <3>4
      <4>2. p > ps[m]
        BY <1>1, <3>2, <4>1
      <4> QED  BY <1>5, <3>1, <3>2, <4>2
    <3> QED  BY <3>3, <3>4
  <2>3. Reaches(q, U \ {p})
    <3> HIDE DEF U
    <3> QED  BY <1>3, <2>1, <2>2 DEF WithoutOne
  <2>4. U \ {p} \subseteq V
    <3>1. \A m \in (k + 1)..n : m = k + 1 \/ m \in ((k + 1) + 1)..n
      BY <1>1
    <3> QED  BY <3>1
  <2> HIDE DEF U, V
  <2>5. Reaches(q, V)
    BY <2>3, <2>4 DEF Reaches
  <2> QED  BY <2>5 DEF V
<1>9. Len(q.messages) <= Len(st.messages)
  BY <1>1, <1>2, <1>5
<1>10. SoundStore(q, pubsub, content, f) /\ ~q.defect
  BY <1>3 DEF WithoutOne
<1>11. Remains(q, st, ps, k + 1, pubsub, content, f)
  BY <1>6, <1>7, <1>8, <1>9, <1>10 DEF Remains
<1> QED  BY <1>11 DEF q

\* Removals from the highest position down take out exactly what is at these
\* positions, and whatever they leave is reached if only they were not.
LEMMA RemoveDescending ==
  ASSUME NEW st, NEW pubsub, NEW content, NEW f, NEW S \in SUBSET (1..Len(st.messages)),
         SoundStore(st, pubsub, content, f), ~st.defect
  PROVE  LET r == RemoveInOrder(st, Descending(S))
         IN  /\ SoundStore(r, pubsub, content, f) /\ ~r.defect
             /\ Len(r.messages) <= Len(st.messages)
             /\ Range(r.messages) = Range(st.messages) \ {st.messages[p] : p \in S}
             /\ Reaches(st, S) => Reaches(r, {})
<1> DEFINE ps == Descending(S)
           n == Len(ps)
           r == RemoveInOrder(st, ps)
<1>1. st \in StoreSet /\ Len(st.messages) \in Nat
  BY StoreFields DEF SoundStore
<1>2. /\ ps \in Seq(Nat) /\ n \in Nat /\ Range(ps) = S
      /\ \A i \in 1..n : ps[i] \in S
      /\ \A i, j \in 1..n : i < j => ps[i] > ps[j]
  BY <1>1, DescendingFacts
<1> HIDE DEF ps
<1>3. PICK h : /\ h[0] = st
               /\ \A k \in Nat : k < Len(ps) => h[k + 1] = RemoveMessage(h[k], ps[k + 1])
               /\ RemoveInOrder(st, ps) = h[Len(ps)]
  BY <1>1, <1>2, RemovalsInTurn
<1> DEFINE T == {k \in Nat : k <= n => Remains(h[k], st, ps, k, pubsub, content, f)}
<1>4. Remains(st, st, ps, 0, pubsub, content, f)
  <2>1. \A m \in 1..n : ps[m] \in 1..Len(st.messages)
    BY <1>2
  <2>2. {st.messages[ps[m]] : m \in 1..0} = {}
    OBVIOUS
  <2>3. Reaches(st, Range(ps)) => Reaches(st, {ps[m] : m \in (0 + 1)..n})
    <3>1. Range(ps) = {ps[m] : m \in (0 + 1)..n}
      BY <1>2 DEF Range
    <3> QED  BY <3>1
  <2>4. Len(st.messages) <= Len(st.messages)
    BY <1>1
  <2> QED  BY <2>1, <2>2, <2>3, <2>4 DEF Remains
<1>5. 0 \in T
  BY <1>3, <1>4
<1>6. ASSUME NEW k \in Nat, k \in T  PROVE k + 1 \in T
  <2> SUFFICES ASSUME k + 1 <= n
               PROVE  Remains(h[k + 1], st, ps, k + 1, pubsub, content, f)
    OBVIOUS
  <2>1. k < n /\ Remains(h[k], st, ps, k, pubsub, content, f)
    BY <1>2, <1>6
  <2>2. h[k + 1] = RemoveMessage(h[k], ps[k + 1])
    BY <1>3, <2>1
  <2> QED  BY <1>1, <1>2, <2>1, <2>2, RemovesNext
<1> HIDE DEF T
<1>7. \A k \in Nat : k \in T
  BY <1>5, <1>6, SetInduction
<1>8. Remains(h[n], st, ps, n, pubsub, content, f)
  BY <1>2, <1>7 DEF T
<1>9. r = h[n]
  BY <1>3
<1> HIDE DEF r
<1>10. /\ SoundStore(r, pubsub, content, f) /\ ~r.defect
       /\ Len(r.messages) <= Len(st.messages)
  BY <1>8, <1>9 DEF Remains
<1>11. Range(r.messages) = Range(st.messages) \ {st.messages[p] : p \in S}
  <2>1. Range(r.messages) = Range(st.messages) \ {st.messages[ps[m]] : m \in 1..n}
    BY <1>8, <1>9 DEF Remains
  <2>2. \A p : p \in S <=> \E m \in 1..n : ps[m] = p
    BY <1>2 DEF Range
  <2> HIDE DEF n
  <2>3. \A m \in 1..n : st.messages[ps[m]] \in {st.messages[p] : p \in S}
    BY <2>2, Zenon
  <2>4. \A p \in S : st.messages[p] \in {st.messages[ps[m]] : m \in 1..n}
    BY <2>2, Zenon
  <2>5. {st.messages[ps[m]] : m \in 1..n} = {st.messages[p] : p \in S}
    BY <2>3, <2>4, Zenon
  <2> QED  BY <2>1, <2>5
<1>12. Reaches(st, S) => Reaches(r, {})
  <2>1. Reaches(st, S) => Reaches(r, {ps[m] : m \in (n + 1)..n})
    BY <1>2, <1>8, <1>9 DEF Remains
  <2>2. {ps[m] : m \in (n + 1)..n} = {}
    BY <1>2
  <2> QED  BY <2>1, <2>2
<1> QED  BY <1>10, <1>11, <1>12 DEF r, ps

-----------------------------------------------------------------------------
(* The operators of the single calls.                                      *)

\* A topic that was found is at its position.
LEMMA PositionFacts ==
  ASSUME NEW T, NEW topics \in Seq(T), NEW t, Search(topics, t) # {}
  PROVE  /\ PositionOf(topics, t) \in 1..Len(topics) /\ PositionOf(topics, t) \in Nat
         /\ topics[PositionOf(topics, t)] = t
<1>1. PositionOf(topics, t) \in Search(topics, t)
  BY Zenon DEF PositionOf
<1>2. DOMAIN topics = 1..Len(topics) /\ Len(topics) \in Nat
  OBVIOUS
<1> QED  BY <1>1, <1>2 DEF Search

\* Subscribing adds a topic at the end or nothing.
LEMMA AddIfAbsentFacts ==
  ASSUME NEW T, NEW topics \in Seq(T), NEW t \in T
  PROVE  /\ AddIfAbsent(topics, t) \in Seq(T)
         /\ Len(topics) \in Nat /\ Len(AddIfAbsent(topics, t)) \in Nat
         /\ Len(topics) <= Len(AddIfAbsent(topics, t))
         /\ \A i \in 1..Len(topics) : AddIfAbsent(topics, t)[i] = topics[i]
         /\ Search(AddIfAbsent(topics, t), t) # {}
<1>1. Len(topics) \in Nat /\ DOMAIN topics = 1..Len(topics)
  OBVIOUS
<1>2. CASE Search(topics, t) = {}
  <2>1. AddIfAbsent(topics, t) = Append(topics, t)
    BY <1>2 DEF AddIfAbsent
  <2>2. /\ Append(topics, t) \in Seq(T) /\ Len(Append(topics, t)) = Len(topics) + 1
        /\ Append(topics, t)[Len(topics) + 1] = t
        /\ \A i \in 1..Len(topics) : Append(topics, t)[i] = topics[i]
    OBVIOUS
  <2>3. Len(topics) + 1 \in DOMAIN Append(topics, t)
    BY <1>1, <2>2
  <2>4. Len(topics) + 1 \in Search(Append(topics, t), t)
    BY <2>2, <2>3, Zenon DEF Search
  <2>5. Len(topics) + 1 \in Nat /\ Len(topics) <= Len(topics) + 1
    BY <1>1
  <2> QED  BY <1>1, <2>1, <2>2, <2>4, <2>5
<1>3. CASE Search(topics, t) # {}
  <2>1. AddIfAbsent(topics, t) = topics
    BY <1>3 DEF AddIfAbsent
  <2> QED  BY <1>1, <1>3, <2>1
<1> QED  BY <1>2, <1>3

\* More topics do not disturb an index.
LEMMA JoinsMoreTopics ==
  ASSUME NEW T, NEW topics \in Seq(T), NEW t \in T, NEW msgs, NEW f, NEW index,
         Joins(index, msgs, topics, f)
  PROVE  Joins(index, msgs, AddIfAbsent(topics, t), f)
<1> DEFINE more == AddIfAbsent(topics, t)
<1>1. /\ Len(topics) \in Nat /\ Len(more) \in Nat /\ Len(topics) <= Len(more)
      /\ \A i \in 1..Len(topics) : more[i] = topics[i]
  BY AddIfAbsentFacts
<1> HIDE DEF more
<1>2. ASSUME NEW j \in 1..Len(index)
      PROVE  /\ index[j][1] \in 1..Len(more) /\ index[j][2] \in 1..Len(msgs)
             /\ more[index[j][1]] = f[msgs[index[j][2]]]
  <2>1. PICK a : a = index[j][1]
    OBVIOUS
  <2>2. /\ a \in 1..Len(topics) /\ index[j][2] \in 1..Len(msgs)
        /\ topics[a] = f[msgs[index[j][2]]]
    BY <2>1 DEF Joins
  <2>3. a \in 1..Len(more) /\ more[a] = topics[a]
    BY <1>1, <2>2
  <2> QED  BY <2>1, <2>2, <2>3
<1>3. Joins(index, msgs, more, f)
  BY <1>2 DEF Joins
<1> QED  BY <1>3 DEF more

\* What an index joins depends on f for the messages there are.
LEMMA JoinsAgree ==
  ASSUME NEW S, NEW msgs \in Seq(S), NEW topics, NEW f, NEW g, NEW index,
         Joins(index, msgs, topics, f), \A x \in Range(msgs) : g[x] = f[x]
  PROVE  Joins(index, msgs, topics, g)
<1>1. \A k \in 1..Len(msgs) : msgs[k] \in Range(msgs)
  BY DEF Range
<1>2. ASSUME NEW j \in 1..Len(index)
      PROVE  topics[index[j][1]] = g[msgs[index[j][2]]]
  <2>1. index[j][2] \in 1..Len(msgs) /\ topics[index[j][1]] = f[msgs[index[j][2]]]
    BY DEF Joins
  <2> QED  BY <1>1, <2>1
<1> QED  BY <1>2 DEF Joins

\* An entry for a new message.
LEMMA AppendJoins ==
  ASSUME NEW S, NEW msgs \in Seq(S), NEW T, NEW topics \in Seq(T), NEW f, NEW index,
         Joins(index, msgs, topics, f), NEW m \in S,
         NEW p, p \in 1..Len(topics), topics[p] = f[m]
  PROVE  LET e == <<p, Len(msgs) + 1>>
         IN  /\ Joins(Append(index, e), Append(msgs, m), topics, f)
             /\ Len(msgs) + 1 \in Targets(Append(index, e))
             /\ \A l \in Targets(index) : l \in Targets(Append(index, e))
<1> DEFINE n == Len(index)
           k == Len(msgs) + 1
           e == <<p, k>>
           a == Append(index, e)
           b == Append(msgs, m)
<1>1. /\ index \in Seq(Entry) /\ n \in Nat /\ k \in Nat /\ p \in Nat /\ e \in Entry
      /\ e[1] = p /\ e[2] = k /\ Len(msgs) \in Nat
  BY DEF Joins, Entry
<1> HIDE DEF e, n, k
<1>2. /\ a \in Seq(Entry) /\ Len(a) = n + 1 /\ a[n + 1] = e
      /\ \A j \in 1..n : a[j] = index[j]
  BY <1>1 DEF n
<1>3. /\ b \in Seq(S) /\ Len(b) = k /\ b[k] = m /\ \A j \in 1..(k - 1) : b[j] = msgs[j]
  BY <1>1 DEF k
<1> HIDE DEF a, b
<1>4. \A j \in 1..(n + 1) : j \in 1..n \/ j = n + 1
  BY <1>1
<1>5. ASSUME NEW j \in 1..n
      PROVE  /\ a[j][1] \in 1..Len(topics) /\ a[j][2] \in 1..(k - 1)
             /\ topics[a[j][1]] = f[b[a[j][2]]]
  <2>1. /\ index[j][1] \in 1..Len(topics) /\ index[j][2] \in 1..Len(msgs)
        /\ topics[index[j][1]] = f[msgs[index[j][2]]]
    BY DEF Joins, n
  <2>2. Len(msgs) = k - 1
    BY <1>1 DEF k
  <2> QED  BY <1>2, <1>3, <2>1, <2>2
<1>6. ASSUME NEW j \in 1..(n + 1)
      PROVE  /\ a[j][1] \in 1..Len(topics) /\ a[j][2] \in 1..k
             /\ topics[a[j][1]] = f[b[a[j][2]]]
  <2>1. CASE j \in 1..n
    <3>1. /\ a[j][1] \in 1..Len(topics) /\ a[j][2] \in 1..(k - 1)
          /\ topics[a[j][1]] = f[b[a[j][2]]]
      BY <1>5, <2>1
    <3>2. a[j][2] \in 1..k
      BY <1>1, <3>1
    <3> QED  BY <3>1, <3>2
  <2>2. CASE j = n + 1
    <3>1. k \in 1..k
      BY <1>1 DEF k
    <3> QED  BY <1>1, <1>2, <1>3, <2>2, <3>1
  <2> QED  BY <1>4, <2>1, <2>2
<1>7. ASSUME NEW j \in 1..(n + 1), NEW l \in 1..(n + 1), a[j][2] = a[l][2]  PROVE j = l
  <2>1. CASE j \in 1..n /\ l \in 1..n
    <3>1. index[j][2] = index[l][2]
      BY <1>2, <1>7, <2>1
    <3> QED  BY <2>1, <3>1 DEF Joins, n
  <2>2. CASE j = n + 1 /\ l \in 1..n
    <3>1. a[l][2] \in 1..(k - 1) /\ a[j][2] = k
      BY <1>1, <1>2, <1>5, <2>2
    <3> QED  BY <1>1, <1>7, <3>1
  <2>3. CASE j \in 1..n /\ l = n + 1
    <3>1. a[j][2] \in 1..(k - 1) /\ a[l][2] = k
      BY <1>1, <1>2, <1>5, <2>3
    <3> QED  BY <1>1, <1>7, <3>1
  <2> QED  BY <1>4, <2>1, <2>2, <2>3
<1>8. Joins(a, b, topics, f)
  BY <1>2, <1>3, <1>6, <1>7 DEF Joins
<1>9. k \in Targets(a)
  <2>1. n + 1 \in 1..Len(a) /\ a[n + 1][2] = k
    BY <1>1, <1>2
  <2> QED  BY <1>2, <2>1, TargetsFacts
<1>10. ASSUME NEW l \in Targets(index)  PROVE l \in Targets(a)
  <2>1. PICK j \in 1..n : index[j][2] = l
    BY <1>1, TargetsFacts DEF n
  <2>2. j \in 1..Len(a) /\ a[j][2] = l
    <3>1. j \in 1..(n + 1)
      BY <1>1
    <3>2. a[j] = index[j]
      BY <1>2
    <3> QED  BY <1>2, <2>1, <3>1, <3>2
  <2> QED  BY <1>2, <2>2, TargetsFacts
<1> QED  BY <1>8, <1>9, <1>10 DEF a, b, e, k

\* A finite set of positions in rising order.
LEMMA AscendingFacts ==
  ASSUME NEW n \in Nat, NEW S \in SUBSET (1..n)
  PROVE  Ascending(S) \in Seq(S)
<1> DEFINE c == Cardinality(S)
           Rising(s) == \A i, j \in DOMAIN s : i < j => s[i] < s[j]
           R == {e \in S \X S : e[1] < e[2]}
<1>1. IsFiniteSet(S) /\ S \subseteq Nat
  <2>1. IsFiniteSet(1..n)
    BY FS_Interval
  <2>2. IsFiniteSet(S)
    BY <2>1, FS_Subset
  <2> QED  BY <2>2
<1>2. Ordering(R, S)
  <2>1. \A x, y \in S : <<x, y>> \in R <=> x < y
    OBVIOUS
  <2> HIDE DEF R
  <2>2. \A x, y \in S : x # y => <<x, y>> \in R \/ <<y, x>> \in R
    BY <1>1, <2>1
  <2>3. \A x, y \in S : <<x, y>> \in R => <<y, x>> \notin R
    BY <1>1, <2>1
  <2>4. \A x, y, z \in S : <<x, y>> \in R /\ <<y, z>> \in R => <<x, z>> \in R
    BY <1>1, <2>1
  <2> QED  BY <2>2, <2>3, <2>4 DEF Ordering
<1>3. \A x, y : <<x, y>> \in R <=> x \in S /\ y \in S /\ x < y
  OBVIOUS
<1> HIDE DEF R
<1>4. PICK f : Lists(f, S, R)
  BY <1>1, <1>2, ListExists
<1>5. /\ f \in Seq(S) /\ Len(f) = c /\ c \in Nat
      /\ \A i, j \in 1..Len(f) : f[i] = f[j] => i = j
  BY <1>1, <1>2, <1>4, ListFacts
<1>6. f \in [1..c -> S] /\ \A i, j \in 1..c : i < j => <<f[i], f[j]>> \in R
  BY <1>4 DEF Lists
<1>7. f \in SetToSeqs(S)
  BY <1>5, <1>6 DEF SetToSeqs
<1>8. Rising(f)
  BY <1>3, <1>6
<1> HIDE DEF Rising
<1>9. Ascending(S) = CHOOSE s \in SetToSeqs(S) : Rising(s)
  BY Zenon DEF Ascending, Rising
<1>10. Ascending(S) \in SetToSeqs(S)
  BY <1>7, <1>8, <1>9, Zenon
<1>11. Ascending(S) \in [1..c -> S]
  BY <1>10 DEF SetToSeqs
<1> QED  BY <1>5, <1>11

\* What getMessages reads, and its reverse, are positions of messages.
LEMMA InIndexOrderFacts ==
  ASSUME NEW msgs, NEW topics, NEW f, NEW index, NEW i, Joins(index, msgs, topics, f)
  PROVE  LET s == InIndexOrder(index, i)
         IN  /\ s \in Seq(1..Len(msgs)) /\ Reverse(s) \in Seq(1..Len(msgs))
<1> DEFINE S == {k \in DOMAIN index : index[k][1] = i}
           hits == Ascending(S)
           s == InIndexOrder(index, i)
<1>1. index \in Seq(Entry) /\ Len(index) \in Nat /\ S \in SUBSET (1..Len(index))
  BY DEF Joins
<1>2. hits \in Seq(S)
  <2> HIDE DEF S
  <2> QED  BY <1>1, AscendingFacts
<1>3. s = [k \in DOMAIN hits |-> index[hits[k]][2]]
  BY DEF InIndexOrder
<1> HIDE DEF hits, s
<1>4. DOMAIN hits = 1..Len(hits) /\ Len(hits) \in Nat
  BY <1>2
<1>5. ASSUME NEW k \in 1..Len(hits)  PROVE index[hits[k]][2] \in 1..Len(msgs)
  <2>1. hits[k] \in 1..Len(index)
    BY <1>1, <1>2
  <2> QED  BY <2>1 DEF Joins
<1>6. s = [k \in 1..Len(hits) |-> index[hits[k]][2]]
  BY <1>3, <1>4
<1>7. s \in [1..Len(hits) -> 1..Len(msgs)]
  BY <1>5, <1>6
<1>8. s \in Seq(1..Len(msgs)) /\ Len(s) = Len(hits)
  BY <1>4, <1>7
<1>9. Reverse(s) \in Seq(1..Len(msgs))
  <2>1. ASSUME NEW k \in 1..Len(s)  PROVE s[(Len(s) - k) + 1] \in 1..Len(msgs)
    <3>1. (Len(s) - k) + 1 \in 1..Len(hits)
      BY <1>4, <1>8
    <3> QED  BY <1>7, <3>1
  <2>2. Reverse(s) = [k \in 1..Len(s) |-> s[(Len(s) - k) + 1]]
    BY DEF Reverse
  <2>3. Reverse(s) \in [1..Len(s) -> 1..Len(msgs)]
    BY <2>1, <2>2
  <2> QED  BY <1>4, <1>8, <2>3
<1> QED  BY <1>8, <1>9 DEF s

\* The oldest message is one of the messages.
LEMMA OldestFacts ==
  ASSUME messages \in Seq(WakuMessages), Len(messages) > 0
  PROVE  OldestMsg \in 1..Len(messages)
<1>1. PICK ms : ms = messages
  OBVIOUS
<1> DEFINE D == 1..Len(ms)
           Time(i) == TimestampOf[ms[i]]
           R == {e \in D \X D : \/ Time(e[1]) > Time(e[2])
                                \/ Time(e[1]) = Time(e[2]) /\ e[1] < e[2]}
           Oldest(i) == \A j \in DOMAIN messages :
                          \/ TimestampOf[messages[i]] < TimestampOf[messages[j]]
                          \/ TimestampOf[messages[i]] = TimestampOf[messages[j]] /\ i >= j
<1>2. Len(ms) \in Nat /\ D # {} /\ DOMAIN messages = D /\ \A i \in D : Time(i) \in Int /\ i \in Int
  <2>1. ms \in Seq(WakuMessages) /\ Len(ms) > 0 /\ Len(ms) \in Nat
    BY <1>1
  <2>2. DOMAIN messages = D
    BY <1>1
  <2>3. D # {}
    <3>1. 1 \in 1..Len(ms)
      BY <2>1
    <3> QED  BY <3>1
  <2>4. ASSUME NEW i \in D  PROVE Time(i) \in Int /\ i \in Int
    <3>1. ms[i] \in WakuMessages
      BY <2>1
    <3> QED  BY <3>1, CacheAssumption
  <2> QED  BY <2>1, <2>2, <2>3, <2>4
<1>3. \A x, y \in D : <<x, y>> \in R <=> Time(x) > Time(y) \/ (Time(x) = Time(y) /\ x < y)
  OBVIOUS
<1>4. IsFiniteSet(D)
  BY <1>2, FS_Interval
<1> HIDE DEF R, Time, D
<1>5. Ordering(R, D)
  <2>2. \A x, y \in D : x # y => <<x, y>> \in R \/ <<y, x>> \in R
    BY <1>2, <1>3
  <2>3. \A x, y \in D : <<x, y>> \in R => <<y, x>> \notin R
    BY <1>2, <1>3
  <2>4. \A x, y, z \in D : <<x, y>> \in R /\ <<y, z>> \in R => <<x, z>> \in R
    BY <1>2, <1>3
  <2> QED  BY <2>2, <2>3, <2>4 DEF Ordering
<1>6. PICK g : Greatest(R, D, g)
  BY <1>2, <1>4, <1>5, GreatestExists
<1>7. g \in D
  BY <1>6 DEF Greatest
<1>8. ASSUME NEW j \in D
      PROVE  Time(g) < Time(j) \/ (Time(g) = Time(j) /\ g >= j)
  <2>1. CASE j = g
    BY <1>2, <1>7, <2>1
  <2>2. CASE j # g
    <3>1. <<j, g>> \in R
      BY <1>6, <2>2 DEF Greatest
    <3>2. Time(j) > Time(g) \/ (Time(j) = Time(g) /\ j < g)
      BY <1>3, <1>7, <3>1
    <3> QED  BY <1>2, <1>7, <3>2
  <2> QED  BY <2>1, <2>2
<1>9. Oldest(g)
  BY <1>1, <1>2, <1>8 DEF Time
<1> HIDE DEF Oldest
<1>10. OldestMsg = CHOOSE i \in DOMAIN messages : Oldest(i)
  BY Zenon DEF OldestMsg, Oldest
<1>11. OldestMsg \in DOMAIN messages
  BY <1>2, <1>7, <1>9, <1>10, Zenon
<1> QED  BY <1>1, <1>2, <1>11 DEF D

\* Unsubscribing from a pubsub topic, highest orphan first.
LEMMA DropPubsubTopic ==
  ASSUME NEW st, NEW T, NEW pubsub \in Seq(T), NEW content, NEW f, NEW i \in 1..Len(pubsub),
         SoundStore(st, pubsub, content, f), Reaches(st, {}), ~st.defect
  PROVE  LET U == MessagePositions(st.pubsubIndex, i) \ Targets(st.contentIndex)
             q == [st EXCEPT !.pubsubIndex = Reindexed(st.pubsubIndex, 1, i, Len(pubsub))]
             r == RemoveInOrder(q, Descending(U))
         IN  /\ SoundStore(r, Del(pubsub, i), content, f) /\ Reaches(r, {})
             /\ Len(r.messages) <= Len(st.messages)
             /\ Range(r.messages) \subseteq Range(st.messages)
             /\ \A l \in Targets(st.contentIndex) : st.messages[l] \in Range(r.messages)
<1> DEFINE MP == MessagePositions(st.pubsubIndex, i)
           U == MP \ Targets(st.contentIndex)
           d == Reindexed(st.pubsubIndex, 1, i, Len(pubsub))
           q == [st EXCEPT !.pubsubIndex = d]
           r == RemoveInOrder(q, Descending(U))
<1>1. /\ st \in StoreSet /\ Injective(st.messages)
      /\ Joins(st.pubsubIndex, st.messages, pubsub, f)
      /\ Joins(st.contentIndex, st.messages, content, ContentTopicOf)
  BY DEF SoundStore
<1>2. /\ st.messages \in Seq(WakuMessages) /\ st.pubsubIndex \in Seq(Entry)
      /\ st.contentIndex \in Seq(Entry) /\ st.defect \in BOOLEAN
      /\ Len(st.messages) \in Nat /\ DOMAIN st.messages = 1..Len(st.messages)
  BY <1>1, StoreFields
<1>3. /\ Joins(d, st.messages, Del(pubsub, i), f)
      /\ \A l \in Targets(st.pubsubIndex) : l \in MP \/ l \in Targets(d)
  BY <1>1, DropTopicJoins
<1>4. d \in Seq(Entry)
  BY <1>3 DEF Joins
<1>5. MP \subseteq 1..Len(st.messages)
  BY <1>1, <1>2 DEF MessagePositions, Joins
<1> HIDE DEF MP, d
<1>6. /\ q \in StoreSet /\ q.messages = st.messages /\ q.pubsubIndex = d
      /\ q.contentIndex = st.contentIndex /\ q.defect = st.defect
  BY <1>1, <1>4 DEF StoreSet
<1> HIDE DEF q
<1>7. SoundStore(q, Del(pubsub, i), content, f) /\ ~q.defect
  BY <1>1, <1>3, <1>6 DEF SoundStore
<1>8. Reaches(q, U)
  BY <1>3, <1>6 DEF Reaches
<1>9. U \in SUBSET (1..Len(q.messages))
  BY <1>5, <1>6
<1> HIDE DEF U
<1>10. /\ SoundStore(r, Del(pubsub, i), content, f) /\ ~r.defect
       /\ Len(r.messages) <= Len(q.messages)
       /\ Range(r.messages) = Range(q.messages) \ {q.messages[p] : p \in U}
       /\ Reaches(q, U) => Reaches(r, {})
  BY <1>7, <1>9, RemoveDescending
<1> HIDE DEF r
<1>11. ASSUME NEW l \in Targets(st.contentIndex)  PROVE st.messages[l] \in Range(r.messages)
  <2>1. PICK j \in 1..Len(st.contentIndex) : st.contentIndex[j][2] = l
    BY <1>2, TargetsFacts
  <2>2. l \in 1..Len(st.messages)
    BY <1>1, <2>1 DEF Joins
  <2>3. st.messages[l] \in Range(st.messages)
    BY <1>2, <2>2 DEF Range
  <2>4. ASSUME NEW p \in U  PROVE st.messages[l] # st.messages[p]
    <3>1. p \in 1..Len(st.messages) /\ p # l
      BY <1>6, <1>9, <1>11, <2>4 DEF U
    <3> QED  BY <1>1, <2>2, <3>1 DEF Injective
  <2> QED  BY <1>6, <1>10, <2>3, <2>4
<1>12. /\ SoundStore(r, Del(pubsub, i), content, f) /\ Reaches(r, {})
       /\ Len(r.messages) <= Len(st.messages) /\ Range(r.messages) \subseteq Range(st.messages)
  BY <1>6, <1>8, <1>10
<1> QED  BY <1>11, <1>12 DEF r, q, d, U, MP

\* Unsubscribing from a content topic, likewise highest orphan first.
LEMMA DropContentTopic ==
  ASSUME NEW st, NEW T, NEW pubsub, NEW content \in Seq(T), NEW f, NEW i \in 1..Len(content),
         SoundStore(st, pubsub, content, f), Reaches(st, {}), ~st.defect
  PROVE  LET U == MessagePositions(st.contentIndex, i) \ Targets(st.pubsubIndex)
             q == [st EXCEPT !.contentIndex = Reindexed(st.contentIndex, 1, i, Len(content))]
             r == RemoveInOrder(q, Descending(U))
         IN  /\ SoundStore(r, pubsub, Del(content, i), f) /\ Reaches(r, {})
             /\ Len(r.messages) <= Len(st.messages)
             /\ Range(r.messages) \subseteq Range(st.messages)
             /\ \A l \in Targets(st.pubsubIndex) : st.messages[l] \in Range(r.messages)
<1> DEFINE MP == MessagePositions(st.contentIndex, i)
           U == MP \ Targets(st.pubsubIndex)
           d == Reindexed(st.contentIndex, 1, i, Len(content))
           q == [st EXCEPT !.contentIndex = d]
           r == RemoveInOrder(q, Descending(U))
<1>1. /\ st \in StoreSet /\ Injective(st.messages)
      /\ Joins(st.contentIndex, st.messages, content, ContentTopicOf)
      /\ Joins(st.pubsubIndex, st.messages, pubsub, f)
  BY DEF SoundStore
<1>2. /\ st.messages \in Seq(WakuMessages) /\ st.contentIndex \in Seq(Entry)
      /\ st.pubsubIndex \in Seq(Entry) /\ st.defect \in BOOLEAN
      /\ Len(st.messages) \in Nat /\ DOMAIN st.messages = 1..Len(st.messages)
  BY <1>1, StoreFields
<1>3. /\ Joins(d, st.messages, Del(content, i), ContentTopicOf)
      /\ \A l \in Targets(st.contentIndex) : l \in MP \/ l \in Targets(d)
  BY <1>1, DropTopicJoins
<1>4. d \in Seq(Entry)
  BY <1>3 DEF Joins
<1>5. MP \subseteq 1..Len(st.messages)
  BY <1>1, <1>2 DEF MessagePositions, Joins
<1> HIDE DEF MP, d
<1>6. /\ q \in StoreSet /\ q.messages = st.messages /\ q.contentIndex = d
      /\ q.pubsubIndex = st.pubsubIndex /\ q.defect = st.defect
  BY <1>1, <1>4 DEF StoreSet
<1> HIDE DEF q
<1>7. SoundStore(q, pubsub, Del(content, i), f) /\ ~q.defect
  BY <1>1, <1>3, <1>6 DEF SoundStore
<1>8. Reaches(q, U)
  BY <1>3, <1>6 DEF Reaches
<1>9. U \in SUBSET (1..Len(q.messages))
  BY <1>5, <1>6
<1> HIDE DEF U
<1>10. /\ SoundStore(r, pubsub, Del(content, i), f) /\ ~r.defect
       /\ Len(r.messages) <= Len(q.messages)
       /\ Range(r.messages) = Range(q.messages) \ {q.messages[p] : p \in U}
       /\ Reaches(q, U) => Reaches(r, {})
  BY <1>7, <1>9, RemoveDescending
<1> HIDE DEF r
<1>11. ASSUME NEW l \in Targets(st.pubsubIndex)  PROVE st.messages[l] \in Range(r.messages)
  <2>1. PICK j \in 1..Len(st.pubsubIndex) : st.pubsubIndex[j][2] = l
    BY <1>2, TargetsFacts
  <2>2. l \in 1..Len(st.messages)
    BY <1>1, <2>1 DEF Joins
  <2>3. st.messages[l] \in Range(st.messages)
    BY <1>2, <2>2 DEF Range
  <2>4. ASSUME NEW p \in U  PROVE st.messages[l] # st.messages[p]
    <3>1. p \in 1..Len(st.messages) /\ p # l
      BY <1>6, <1>9, <1>11, <2>4 DEF U
    <3> QED  BY <1>1, <2>2, <3>1 DEF Injective
  <2> QED  BY <1>6, <1>10, <2>3, <2>4
<1>12. /\ SoundStore(r, pubsub, Del(content, i), f) /\ Reaches(r, {})
       /\ Len(r.messages) <= Len(st.messages) /\ Range(r.messages) \subseteq Range(st.messages)
  BY <1>6, <1>8, <1>10
<1> QED  BY <1>11, <1>12 DEF r, q, d, U, MP

-----------------------------------------------------------------------------
(* The cache.                                                              *)

\* The inductive invariant.
CInv ==
  /\ pubsubTopics \in Seq(PubsubTopics) /\ contentTopics \in Seq(ContentTopics)
  /\ returned \subseteq WakuMessages /\ defect \in BOOLEAN
  /\ Len(messages) <= CacheCapacity
  /\ arrivedOn \in [Range(messages) -> PubsubTopics]
  /\ SoundStore(Store, pubsubTopics, contentTopics, arrivedOn)
  /\ Reaches(Store, {})

LEMMA StoreIs ==
  /\ Store.messages = messages /\ Store.pubsubIndex = pubsubIndex
  /\ Store.contentIndex = contentIndex /\ ~Store.defect
BY DEF Store

\* What the invariant says of the sequences.
LEMMA CacheParts ==
  ASSUME CInv
  PROVE  /\ messages \in Seq(WakuMessages) /\ Len(messages) \in Nat
         /\ DOMAIN messages = 1..Len(messages) /\ Injective(messages)
         /\ Joins(pubsubIndex, messages, pubsubTopics, arrivedOn)
         /\ Joins(contentIndex, messages, contentTopics, ContentTopicOf)
         /\ \A i \in 1..Len(messages) : messages[i] \in WakuMessages
<1>1. Store \in StoreSet
  BY DEF CInv, SoundStore
<1>2. messages \in Seq(WakuMessages) /\ Len(messages) \in Nat /\ DOMAIN messages = 1..Len(messages)
  BY <1>1, StoreFields, StoreIs
<1>3. /\ Injective(messages)
      /\ Joins(pubsubIndex, messages, pubsubTopics, arrivedOn)
      /\ Joins(contentIndex, messages, contentTopics, ContentTopicOf)
  BY StoreIs DEF CInv, SoundStore
<1> QED  BY <1>2, <1>3

\* The cache becomes what is left of it.
LEMMA BecomeInv ==
  ASSUME CInv, NEW st, Become(st), Reaches(st, {}),
         SoundStore(st, pubsubTopics', contentTopics', arrivedOn),
         Len(st.messages) <= CacheCapacity, Range(st.messages) \subseteq Range(messages),
         pubsubTopics' \in Seq(PubsubTopics), contentTopics' \in Seq(ContentTopics),
         returned' \subseteq WakuMessages
  PROVE  CInv'
<1>1. /\ messages' = st.messages /\ pubsubIndex' = st.pubsubIndex
      /\ contentIndex' = st.contentIndex /\ defect' = st.defect
      /\ arrivedOn' = [m \in DOMAIN arrivedOn \cap Range(st.messages) |-> arrivedOn[m]]
  BY DEF Become
<1>2. PICK f, g, pt, ct : f = arrivedOn /\ g = arrivedOn' /\ pt = pubsubTopics' /\ ct = contentTopics'
  OBVIOUS
<1>3. SoundStore(st, pt, ct, f)
  BY <1>2
<1>4. /\ st \in StoreSet /\ Injective(st.messages)
      /\ Joins(st.pubsubIndex, st.messages, pt, f)
      /\ Joins(st.contentIndex, st.messages, ct, ContentTopicOf)
  BY <1>3 DEF SoundStore
<1>5. st.messages \in Seq(WakuMessages) /\ st.defect \in BOOLEAN
  BY <1>4, StoreFields
<1>6. g \in [Range(st.messages) -> PubsubTopics] /\ \A x \in Range(st.messages) : g[x] = f[x]
  <2>1. f \in [Range(messages) -> PubsubTopics]
    BY <1>2 DEF CInv
  <2>2. g = [m \in DOMAIN f \cap Range(st.messages) |-> f[m]]
    BY <1>1, <1>2
  <2>3. DOMAIN f \cap Range(st.messages) = Range(st.messages)
    BY <2>1
  <2> QED  BY <2>1, <2>2, <2>3
<1>7. Joins(st.pubsubIndex, st.messages, pt, g)
  BY <1>4, <1>5, <1>6, JoinsAgree
<1> DEFINE q == [messages |-> st.messages, pubsubIndex |-> st.pubsubIndex,
                 contentIndex |-> st.contentIndex, defect |-> FALSE]
<1>8. Store' = q
  BY <1>1 DEF Store
<1>9. /\ q \in StoreSet /\ q.messages = st.messages /\ q.pubsubIndex = st.pubsubIndex
      /\ q.contentIndex = st.contentIndex
  BY <1>4 DEF StoreSet
<1> HIDE DEF q
<1>10. SoundStore(q, pt, ct, g) /\ Reaches(q, {})
  BY <1>4, <1>7, <1>9 DEF SoundStore, Reaches
<1>11. SoundStore(Store', pubsubTopics', contentTopics', arrivedOn') /\ Reaches(Store', {})
  BY <1>2, <1>8, <1>10
<1>12. arrivedOn' \in [Range(messages') -> PubsubTopics]
  BY <1>1, <1>2, <1>6
<1>13. Len(messages') <= CacheCapacity /\ defect' \in BOOLEAN
  BY <1>1, <1>5
<1> QED  BY <1>11, <1>12, <1>13 DEF CInv

\* Whoever leaves the messages and indices alone.
LEMMA SameStore ==
  ASSUME CInv, UNCHANGED <<pubsubIndex, contentIndex, messages, defect, arrivedOn>>,
         NEW pt \in Seq(PubsubTopics), NEW ct \in Seq(ContentTopics),
         pubsubTopics' = pt, contentTopics' = ct,
         Joins(pubsubIndex, messages, pt, arrivedOn),
         Joins(contentIndex, messages, ct, ContentTopicOf),
         returned' \subseteq WakuMessages
  PROVE  CInv'
<1>1. Store' = Store
  BY DEF Store
<1>2. SoundStore(Store, pt, ct, arrivedOn)
  BY StoreIs DEF CInv, SoundStore
<1>3. SoundStore(Store', pubsubTopics', contentTopics', arrivedOn') /\ Reaches(Store', {})
  BY <1>1, <1>2 DEF CInv
<1>4. /\ Len(messages') <= CacheCapacity /\ arrivedOn' \in [Range(messages') -> PubsubTopics]
      /\ defect' \in BOOLEAN
  BY DEF CInv
<1> QED  BY <1>3, <1>4 DEF CInv

LEMMA CacheInitInv ==
  ASSUME CacheInit
  PROVE  CInv
<1>1. Store = [messages |-> <<>>, pubsubIndex |-> <<>>, contentIndex |-> <<>>, defect |-> FALSE]
  BY DEF CacheInit, Store
<1>2. Store \in StoreSet
  BY <1>1 DEF StoreSet
<1>3. /\ Injective(Store.messages)
      /\ Joins(Store.pubsubIndex, Store.messages, pubsubTopics, arrivedOn)
      /\ Joins(Store.contentIndex, Store.messages, contentTopics, ContentTopicOf)
      /\ Reaches(Store, {})
  BY <1>1 DEF Injective, Joins, Reaches
<1>4. Range(messages) = {} /\ Len(messages) = 0
  BY DEF CacheInit, Range
<1>5. arrivedOn \in [Range(messages) -> PubsubTopics]
  BY <1>4 DEF CacheInit
<1>6. Len(messages) <= CacheCapacity
  BY <1>4, CacheAssumption
<1>7. /\ pubsubTopics \in Seq(PubsubTopics) /\ contentTopics \in Seq(ContentTopics)
      /\ returned \subseteq WakuMessages /\ defect \in BOOLEAN
  <2>1. pubsubTopics = <<>> /\ contentTopics = <<>> /\ returned = {}
    BY DEF CacheInit
  <2>2. defect \in BOOLEAN
    BY Zenon DEF CacheInit
  <2> QED  BY <2>1, <2>2
<1> QED  BY <1>2, <1>3, <1>5, <1>6, <1>7 DEF CInv, SoundStore

LEMMA ResetInv ==
  ASSUME CInv, Reset
  PROVE  CInv'
<1>1. Store' = [messages |-> <<>>, pubsubIndex |-> <<>>, contentIndex |-> <<>>, defect |-> FALSE]
  BY DEF Reset, Store
<1> DEFINE q == [messages |-> <<>>, pubsubIndex |-> <<>>, contentIndex |-> <<>>, defect |-> FALSE]
<1>2. q \in StoreSet
  BY DEF StoreSet
<1>3. /\ Injective(q.messages)
      /\ Joins(q.pubsubIndex, q.messages, pubsubTopics', arrivedOn')
      /\ Joins(q.contentIndex, q.messages, contentTopics', ContentTopicOf)
      /\ Reaches(q, {})
  BY DEF Injective, Joins, Reaches
<1> HIDE DEF q
<1>4. SoundStore(Store', pubsubTopics', contentTopics', arrivedOn') /\ Reaches(Store', {})
  BY <1>1, <1>2, <1>3 DEF SoundStore, q
<1>5. Range(messages') = {} /\ Len(messages') = 0
  BY DEF Reset, Range
<1>6. arrivedOn' \in [Range(messages') -> PubsubTopics]
  BY <1>5 DEF Reset
<1>7. Len(messages') <= CacheCapacity
  BY <1>5, CacheAssumption
<1>8. /\ pubsubTopics' \in Seq(PubsubTopics) /\ contentTopics' \in Seq(ContentTopics)
      /\ returned' \subseteq WakuMessages /\ defect' \in BOOLEAN
  BY DEF Reset, CInv
<1> QED  BY <1>4, <1>6, <1>7, <1>8 DEF CInv

LEMMA SubscribeInv ==
  ASSUME CInv, \/ \E t \in PubsubTopics : PubsubSubscribe(t)
               \/ \E c \in ContentTopics : ContentSubscribe(c)
  PROVE  CInv'
<1>1. CASE \E t \in PubsubTopics : PubsubSubscribe(t)
  <2>1. PICK t \in PubsubTopics : PubsubSubscribe(t)
    BY <1>1
  <2>2. PICK pt, p, ct : pt = AddIfAbsent(pubsubTopics, t) /\ p = pubsubTopics /\ ct = contentTopics
    OBVIOUS
  <2>3. p \in Seq(PubsubTopics) /\ ct \in Seq(ContentTopics)
    BY <2>2 DEF CInv
  <2>4. pt \in Seq(PubsubTopics)
    BY <2>2, <2>3, AddIfAbsentFacts
  <2>5. Joins(pubsubIndex, messages, pt, arrivedOn)
    BY <2>2, <2>3, CacheParts, JoinsMoreTopics
  <2>6. Joins(contentIndex, messages, ct, ContentTopicOf)
    BY <2>2, CacheParts
  <2>7. /\ pubsubTopics' = pt /\ contentTopics' = ct /\ returned' \subseteq WakuMessages
        /\ UNCHANGED <<pubsubIndex, contentIndex, messages, defect, arrivedOn>>
    BY <2>1, <2>2 DEF PubsubSubscribe
  <2> QED  BY <2>3, <2>4, <2>5, <2>6, <2>7, SameStore
<1>2. CASE \E c \in ContentTopics : ContentSubscribe(c)
  <2>1. PICK c \in ContentTopics : ContentSubscribe(c)
    BY <1>2
  <2>2. PICK ct, p, pt : ct = AddIfAbsent(contentTopics, c) /\ p = contentTopics /\ pt = pubsubTopics
    OBVIOUS
  <2>3. p \in Seq(ContentTopics) /\ pt \in Seq(PubsubTopics)
    BY <2>2 DEF CInv
  <2>4. ct \in Seq(ContentTopics)
    BY <2>2, <2>3, AddIfAbsentFacts
  <2>5. Joins(contentIndex, messages, ct, ContentTopicOf)
    BY <2>2, <2>3, CacheParts, JoinsMoreTopics
  <2>6. Joins(pubsubIndex, messages, pt, arrivedOn)
    BY <2>2, CacheParts
  <2>7. /\ pubsubTopics' = pt /\ contentTopics' = ct /\ returned' \subseteq WakuMessages
        /\ UNCHANGED <<pubsubIndex, contentIndex, messages, defect, arrivedOn>>
    BY <2>1, <2>2 DEF ContentSubscribe
  <2> QED  BY <2>3, <2>4, <2>5, <2>6, <2>7, SameStore
<1> QED  BY <1>1, <1>2

\* Unsubscribing from a pubsub topic keeps the cache sound, and the messages
\* the other index serves.
LEMMA PubsubUnsubscribeInv ==
  ASSUME CInv, NEW t \in PubsubTopics, PubsubUnsubscribe(t)
  PROVE  /\ CInv'
         /\ \A j \in DOMAIN contentIndex : messages[contentIndex[j][2]] \in Range(messages')
<1>1. PICK i, f, pt, ct, s :
        /\ i = PositionOf(pubsubTopics, t) /\ f = arrivedOn /\ s = Store
        /\ pt = pubsubTopics /\ ct = contentTopics
  OBVIOUS
<1> DEFINE U == MessagePositions(s.pubsubIndex, i) \ Targets(s.contentIndex)
           q == [s EXCEPT !.pubsubIndex = Reindexed(s.pubsubIndex, 1, i, Len(pt))]
           r == RemoveInOrder(q, Descending(U))
<1>2. /\ s.messages = messages /\ s.pubsubIndex = pubsubIndex
      /\ s.contentIndex = contentIndex /\ ~s.defect
  BY <1>1, StoreIs
<1>3. /\ pt \in Seq(PubsubTopics) /\ ct \in Seq(ContentTopics)
      /\ SoundStore(s, pt, ct, f) /\ Reaches(s, {})
  BY <1>1 DEF CInv
<1>4. i \in 1..Len(pt)
  BY <1>1, <1>3, PositionFacts DEF PubsubUnsubscribe
<1>5. /\ SoundStore(r, Del(pt, i), ct, f) /\ Reaches(r, {})
      /\ Len(r.messages) <= Len(s.messages) /\ Range(r.messages) \subseteq Range(s.messages)
      /\ \A l \in Targets(s.contentIndex) : s.messages[l] \in Range(r.messages)
  BY <1>2, <1>3, <1>4, DropPubsubTopic
<1>6. U = MessagePositions(pubsubIndex, i) \ {contentIndex[j][2] : j \in DOMAIN contentIndex}
  BY <1>2 DEF Targets
<1>7. q = [Store EXCEPT !.pubsubIndex = Reindexed(pubsubIndex, 1, i, Len(pubsubTopics))]
  BY <1>1, <1>2
<1> HIDE DEF U, q
<1>8. /\ Become(r) /\ pubsubTopics' = Del(pt, i) /\ contentTopics' = ct /\ returned' = {}
  <2>1. /\ pubsubTopics' = Del(pubsubTopics, PositionOf(pubsubTopics, t))
        /\ Become(RemoveInOrder(
             [Store EXCEPT !.pubsubIndex =
                Reindexed(pubsubIndex, 1, PositionOf(pubsubTopics, t), Len(pubsubTopics))],
             Descending(MessagePositions(pubsubIndex, PositionOf(pubsubTopics, t))
                          \ {contentIndex[j][2] : j \in DOMAIN contentIndex})))
        /\ contentTopics' = contentTopics /\ returned' = {}
    BY DEF PubsubUnsubscribe
  <2>2. Become(RemoveInOrder(q, Descending(U)))
    BY <1>1, <1>6, <1>7, <2>1, Zenon
  <2> QED  BY <1>1, <2>1, <2>2
<1>9. PICK st : st = r
  OBVIOUS
<1> HIDE DEF r
<1>10. Del(pt, i) \in Seq(PubsubTopics)
  BY <1>3, <1>4, DelFacts
<1>11. /\ Become(st) /\ Reaches(st, {}) /\ SoundStore(st, pubsubTopics', contentTopics', arrivedOn)
  BY <1>1, <1>5, <1>8, <1>9
<1>12. Len(st.messages) <= CacheCapacity /\ Range(st.messages) \subseteq Range(messages)
  <2>1. Len(st.messages) \in Nat /\ Len(messages) \in Nat /\ CacheCapacity \in Nat
        /\ Len(messages) <= CacheCapacity
    <3>1. st \in StoreSet
      BY <1>11 DEF SoundStore
    <3> QED  BY <3>1, StoreFields, CacheParts, CacheAssumption DEF CInv
  <2>2. Len(st.messages) <= Len(messages) /\ Range(st.messages) \subseteq Range(messages)
    BY <1>2, <1>5, <1>9
  <2> QED  BY <2>1, <2>2
<1>13. CInv'
  BY <1>3, <1>8, <1>10, <1>11, <1>12, BecomeInv
<1>14. ASSUME NEW j \in DOMAIN contentIndex
       PROVE  messages[contentIndex[j][2]] \in Range(messages')
  <2>1. contentIndex[j][2] \in Targets(contentIndex)
    BY DEF Targets
  <2>2. messages' = r.messages
    BY <1>8 DEF Become
  <2> QED  BY <1>2, <1>5, <2>1, <2>2
<1> QED  BY <1>13, <1>14

\* And from a content topic.
LEMMA ContentUnsubscribeInv ==
  ASSUME CInv, NEW t \in ContentTopics, ContentUnsubscribe(t)
  PROVE  /\ CInv'
         /\ \A j \in DOMAIN pubsubIndex : messages[pubsubIndex[j][2]] \in Range(messages')
<1>1. PICK i, f, pt, ct, s :
        /\ i = PositionOf(contentTopics, t) /\ f = arrivedOn /\ s = Store
        /\ pt = pubsubTopics /\ ct = contentTopics
  OBVIOUS
<1> DEFINE U == MessagePositions(s.contentIndex, i) \ Targets(s.pubsubIndex)
           q == [s EXCEPT !.contentIndex = Reindexed(s.contentIndex, 1, i, Len(ct))]
           r == RemoveInOrder(q, Descending(U))
<1>2. /\ s.messages = messages /\ s.pubsubIndex = pubsubIndex
      /\ s.contentIndex = contentIndex /\ ~s.defect
  BY <1>1, StoreIs
<1>3. /\ pt \in Seq(PubsubTopics) /\ ct \in Seq(ContentTopics)
      /\ SoundStore(s, pt, ct, f) /\ Reaches(s, {})
  BY <1>1 DEF CInv
<1>4. i \in 1..Len(ct)
  BY <1>1, <1>3, PositionFacts DEF ContentUnsubscribe
<1>5. /\ SoundStore(r, pt, Del(ct, i), f) /\ Reaches(r, {})
      /\ Len(r.messages) <= Len(s.messages) /\ Range(r.messages) \subseteq Range(s.messages)
      /\ \A l \in Targets(s.pubsubIndex) : s.messages[l] \in Range(r.messages)
  BY <1>2, <1>3, <1>4, DropContentTopic
<1>6. U = MessagePositions(contentIndex, i) \ {pubsubIndex[j][2] : j \in DOMAIN pubsubIndex}
  BY <1>2 DEF Targets
<1>7. q = [Store EXCEPT !.contentIndex = Reindexed(contentIndex, 1, i, Len(contentTopics))]
  BY <1>1, <1>2
<1> HIDE DEF U, q
<1>8. /\ Become(r) /\ contentTopics' = Del(ct, i) /\ pubsubTopics' = pt /\ returned' = {}
  <2>1. /\ contentTopics' = Del(contentTopics, PositionOf(contentTopics, t))
        /\ Become(RemoveInOrder(
             [Store EXCEPT !.contentIndex =
                Reindexed(contentIndex, 1, PositionOf(contentTopics, t), Len(contentTopics))],
             Descending(MessagePositions(contentIndex, PositionOf(contentTopics, t))
                          \ {pubsubIndex[j][2] : j \in DOMAIN pubsubIndex})))
        /\ pubsubTopics' = pubsubTopics /\ returned' = {}
    BY DEF ContentUnsubscribe
  <2>2. Become(RemoveInOrder(q, Descending(U)))
    BY <1>1, <1>6, <1>7, <2>1, Zenon
  <2> QED  BY <1>1, <2>1, <2>2
<1>9. PICK st : st = r
  OBVIOUS
<1> HIDE DEF r
<1>10. Del(ct, i) \in Seq(ContentTopics)
  BY <1>3, <1>4, DelFacts
<1>11. /\ Become(st) /\ Reaches(st, {}) /\ SoundStore(st, pubsubTopics', contentTopics', arrivedOn)
  BY <1>1, <1>5, <1>8, <1>9
<1>12. Len(st.messages) <= CacheCapacity /\ Range(st.messages) \subseteq Range(messages)
  <2>1. Len(st.messages) \in Nat /\ Len(messages) \in Nat /\ CacheCapacity \in Nat
        /\ Len(messages) <= CacheCapacity
    <3>1. st \in StoreSet
      BY <1>11 DEF SoundStore
    <3> QED  BY <3>1, StoreFields, CacheParts, CacheAssumption DEF CInv
  <2>2. Len(st.messages) <= Len(messages) /\ Range(st.messages) \subseteq Range(messages)
    BY <1>2, <1>5, <1>9
  <2> QED  BY <2>1, <2>2
<1>13. CInv'
  BY <1>3, <1>8, <1>10, <1>11, <1>12, BecomeInv
<1>14. ASSUME NEW j \in DOMAIN pubsubIndex
       PROVE  messages[pubsubIndex[j][2]] \in Range(messages')
  <2>1. pubsubIndex[j][2] \in Targets(pubsubIndex)
    BY DEF Targets
  <2>2. messages' = r.messages
    BY <1>8 DEF Become
  <2> QED  BY <1>2, <1>5, <2>1, <2>2
<1> QED  BY <1>13, <1>14

\* Reading, and clearing in whatever order, keep the cache sound.
LEMMA GetMessagesInv ==
  ASSUME CInv, NEW t \in PubsubTopics, NEW clear \in BOOLEAN, GetMessages(t, clear)
  PROVE  CInv'
<1>1. PICK f, pt, ct, s, ps :
        /\ f = arrivedOn /\ s = Store /\ pt = pubsubTopics /\ ct = contentTopics
        /\ ps = InIndexOrder(pubsubIndex, PositionOf(pubsubTopics, t))
  OBVIOUS
<1>2. /\ s.messages = messages /\ s.pubsubIndex = pubsubIndex
      /\ s.contentIndex = contentIndex /\ ~s.defect
  BY <1>1, StoreIs
<1>3. /\ pt \in Seq(PubsubTopics) /\ ct \in Seq(ContentTopics)
      /\ SoundStore(s, pt, ct, f) /\ Reaches(s, {})
  BY <1>1 DEF CInv
<1>4. ps \in Seq(1..Len(messages)) /\ Reverse(ps) \in Seq(1..Len(messages))
  BY <1>1, CacheParts, InIndexOrderFacts
<1>5. /\ returned' = {messages[ps[k]] : k \in DOMAIN ps}
      /\ Become(IF clear THEN RemoveInOrder(Store, Reverse(ps)) ELSE Store)
      /\ pubsubTopics' = pt /\ contentTopics' = ct
  BY <1>1 DEF GetMessages
<1>6. returned' \subseteq WakuMessages
  <2>1. \A k \in DOMAIN ps : ps[k] \in 1..Len(messages)
    BY <1>4
  <2> QED  BY <1>5, <2>1, CacheParts
<1>7. PICK st : st = IF clear THEN RemoveInOrder(s, Reverse(ps)) ELSE s
  OBVIOUS
<1>8. Become(st)
  BY <1>1, <1>5, <1>7
<1>9. /\ SoundStore(st, pt, ct, f) /\ Reaches(st, {})
      /\ Len(st.messages) <= Len(s.messages) /\ Range(st.messages) \subseteq Range(s.messages)
  <2>1. CASE clear
    <3>1. Reverse(ps) \in Seq(Nat)
      <4>1. 1..Len(messages) \subseteq Nat
        OBVIOUS
      <4> QED  BY <1>4, <4>1, SeqMonotonic
    <3>2. PICK rs : rs = Reverse(ps)
      OBVIOUS
    <3>3. rs \in Seq(Nat) /\ st = RemoveInOrder(s, rs)
      BY <1>7, <2>1, <3>1, <3>2
    <3>4. /\ SoundStore(RemoveInOrder(s, rs), pt, ct, f)
          /\ Reaches(RemoveInOrder(s, rs), {})
          /\ Len(RemoveInOrder(s, rs).messages) <= Len(s.messages)
          /\ Range(RemoveInOrder(s, rs).messages) \subseteq Range(s.messages)
      BY <1>3, <3>3, RemoveManyAny
    <3> QED  BY <3>3, <3>4
  <2>2. CASE ~clear
    <3>1. st = s
      BY <1>7, <2>2
    <3>2. Len(s.messages) \in Nat
      BY <1>2, CacheParts
    <3> QED  BY <1>3, <3>1, <3>2
  <2> QED  BY <2>1, <2>2
<1>10. Len(st.messages) <= CacheCapacity /\ Range(st.messages) \subseteq Range(messages)
  <2>1. Len(st.messages) \in Nat /\ Len(messages) \in Nat /\ CacheCapacity \in Nat
        /\ Len(messages) <= CacheCapacity
    <3>1. st \in StoreSet
      BY <1>9 DEF SoundStore
    <3> QED  BY <3>1, StoreFields, CacheParts, CacheAssumption DEF CInv
  <2>2. Len(st.messages) <= Len(messages) /\ Range(st.messages) \subseteq Range(messages)
    BY <1>2, <1>9
  <2> QED  BY <2>1, <2>2
<1>11. SoundStore(st, pubsubTopics', contentTopics', arrivedOn)
  BY <1>1, <1>5, <1>9
<1> QED  BY <1>3, <1>5, <1>6, <1>8, <1>9, <1>10, <1>11, BecomeInv

\* getAutoMessages with clear takes out what it returns.
LEMMA GetAutoMessagesInv ==
  ASSUME CInv, NEW c \in ContentTopics, NEW clear \in BOOLEAN, GetAutoMessages(c, clear)
  PROVE  /\ CInv'
         /\ clear => ~defect' /\ Range(messages') = Range(messages) \ returned'
<1>1. PICK f, pt, ct, s, S :
        /\ f = arrivedOn /\ s = Store /\ pt = pubsubTopics /\ ct = contentTopics
        /\ S = MessagePositions(contentIndex, PositionOf(contentTopics, c))
  OBVIOUS
<1>2. /\ s.messages = messages /\ s.pubsubIndex = pubsubIndex
      /\ s.contentIndex = contentIndex /\ ~s.defect
  BY <1>1, StoreIs
<1>3. /\ pt \in Seq(PubsubTopics) /\ ct \in Seq(ContentTopics)
      /\ SoundStore(s, pt, ct, f) /\ Reaches(s, {})
  BY <1>1 DEF CInv
<1>4. S \subseteq 1..Len(messages)
  <2>1. Joins(contentIndex, messages, contentTopics, ContentTopicOf)
    BY CacheParts
  <2>2. DOMAIN contentIndex = 1..Len(contentIndex)
    BY <2>1 DEF Joins
  <2> QED  BY <1>1, <2>1, <2>2 DEF MessagePositions, Joins
<1>5. /\ returned' = {messages[i] : i \in S}
      /\ Become(IF clear THEN RemoveInOrder(Store, Descending(S)) ELSE Store)
      /\ pubsubTopics' = pt /\ contentTopics' = ct
  BY <1>1 DEF GetAutoMessages
<1>6. returned' \subseteq WakuMessages
  BY <1>4, <1>5, CacheParts
<1>7. PICK st : st = IF clear THEN RemoveInOrder(s, Descending(S)) ELSE s
  OBVIOUS
<1>8. Become(st)
  BY <1>1, <1>5, <1>7
<1>9. ASSUME clear
      PROVE  /\ SoundStore(st, pt, ct, f) /\ ~st.defect /\ Reaches(st, {})
             /\ Len(st.messages) <= Len(s.messages)
             /\ Range(st.messages) = Range(s.messages) \ {s.messages[p] : p \in S}
  <2>1. st = RemoveInOrder(s, Descending(S))
    BY <1>7, <1>9
  <2>2. S \in SUBSET (1..Len(s.messages))
    BY <1>2, <1>4
  <2>3. /\ SoundStore(st, pt, ct, f) /\ ~st.defect
        /\ Len(st.messages) <= Len(s.messages)
        /\ Range(st.messages) = Range(s.messages) \ {s.messages[p] : p \in S}
        /\ Reaches(s, S) => Reaches(st, {})
    BY <1>2, <1>3, <2>1, <2>2, RemoveDescending
  <2>4. Reaches(s, S)
    BY <1>3 DEF Reaches
  <2> QED  BY <2>3, <2>4
<1>10. /\ SoundStore(st, pt, ct, f) /\ Reaches(st, {})
       /\ Len(st.messages) <= Len(s.messages) /\ Range(st.messages) \subseteq Range(s.messages)
  <2>1. CASE clear
    BY <1>9, <2>1
  <2>2. CASE ~clear
    <3>1. st = s
      BY <1>7, <2>2
    <3>2. Len(s.messages) \in Nat
      BY <1>2, CacheParts
    <3> QED  BY <1>3, <3>1, <3>2
  <2> QED  BY <2>1, <2>2
<1>11. Len(st.messages) <= CacheCapacity /\ Range(st.messages) \subseteq Range(messages)
  <2>1. Len(st.messages) \in Nat /\ Len(messages) \in Nat /\ CacheCapacity \in Nat
        /\ Len(messages) <= CacheCapacity
    <3>1. st \in StoreSet
      BY <1>10 DEF SoundStore
    <3> QED  BY <3>1, StoreFields, CacheParts, CacheAssumption DEF CInv
  <2>2. Len(st.messages) <= Len(messages) /\ Range(st.messages) \subseteq Range(messages)
    BY <1>2, <1>10
  <2> QED  BY <2>1, <2>2
<1>12. SoundStore(st, pubsubTopics', contentTopics', arrivedOn)
  BY <1>1, <1>5, <1>10
<1>13. CInv'
  BY <1>3, <1>5, <1>6, <1>8, <1>10, <1>11, <1>12, BecomeInv
<1>14. ASSUME clear  PROVE ~defect' /\ Range(messages') = Range(messages) \ returned'
  <2>1. messages' = st.messages /\ defect' = st.defect
    BY <1>8 DEF Become
  <2> QED  BY <1>2, <1>5, <1>9, <1>14, <2>1
<1> QED  BY <1>13, <1>14

\* A store with one message more, and an entry for it in each index.
LEMMA StoreOneMore ==
  ASSUME NEW st, NEW pt \in Seq(PubsubTopics), NEW ct \in Seq(ContentTopics), NEW f,
         SoundStore(st, pt, ct, f), Reaches(st, {}),
         NEW t \in PubsubTopics, NEW m \in WakuMessages, m \notin Range(st.messages),
         NEW g, g[m] = t, \A x \in Range(st.messages) : g[x] = f[x]
  PROVE  LET pubsub == AddIfAbsent(pt, t)
             content == AddIfAbsent(ct, ContentTopicOf[m])
             k == Len(st.messages) + 1
             q == [messages |-> Append(st.messages, m),
                   pubsubIndex |-> Append(st.pubsubIndex, <<PositionOf(pubsub, t), k>>),
                   contentIndex |->
                     Append(st.contentIndex, <<PositionOf(content, ContentTopicOf[m]), k>>),
                   defect |-> FALSE]
         IN  SoundStore(q, pubsub, content, g) /\ Reaches(q, {})
<1> DEFINE c == ContentTopicOf[m]
           pubsub == AddIfAbsent(pt, t)
           content == AddIfAbsent(ct, c)
           n == Len(st.messages)
           ms == Append(st.messages, m)
           pi == Append(st.pubsubIndex, <<PositionOf(pubsub, t), n + 1>>)
           ci == Append(st.contentIndex, <<PositionOf(content, c), n + 1>>)
           q == [messages |-> ms, pubsubIndex |-> pi, contentIndex |-> ci, defect |-> FALSE]
<1>1. /\ st \in StoreSet /\ Injective(st.messages)
      /\ Joins(st.pubsubIndex, st.messages, pt, f)
      /\ Joins(st.contentIndex, st.messages, ct, ContentTopicOf)
      /\ st.messages \in Seq(WakuMessages) /\ n \in Nat /\ c \in ContentTopics
  BY StoreFields, CacheAssumption DEF SoundStore
<1> HIDE DEF c
<1>2. /\ pubsub \in Seq(PubsubTopics) /\ Search(pubsub, t) # {}
      /\ content \in Seq(ContentTopics) /\ Search(content, c) # {}
  BY <1>1, AddIfAbsentFacts
<1>3. /\ Joins(st.pubsubIndex, st.messages, pubsub, f)
      /\ Joins(st.contentIndex, st.messages, content, ContentTopicOf)
  BY <1>1, JoinsMoreTopics
<1> HIDE DEF pubsub, content
<1>4. Joins(st.pubsubIndex, st.messages, pubsub, g)
  BY <1>1, <1>3, JoinsAgree
<1>5. PICK a, b : a = PositionOf(pubsub, t) /\ b = PositionOf(content, c)
  OBVIOUS
<1>6. /\ a \in 1..Len(pubsub) /\ pubsub[a] = t /\ b \in 1..Len(content) /\ content[b] = c
  BY <1>2, <1>5, PositionFacts
<1>7. /\ Joins(pi, ms, pubsub, g) /\ n + 1 \in Targets(pi)
      /\ \A l \in Targets(st.pubsubIndex) : l \in Targets(pi)
  <2>1. pubsub[a] = g[m]
    BY <1>6
  <2>2. PICK msgs, index : msgs = st.messages /\ index = st.pubsubIndex
    OBVIOUS
  <2>3. /\ msgs \in Seq(WakuMessages) /\ pubsub \in Seq(PubsubTopics)
        /\ Joins(index, msgs, pubsub, g)
    BY <1>1, <1>2, <1>4, <2>2
  <2>4. /\ Joins(Append(index, <<a, Len(msgs) + 1>>), Append(msgs, m), pubsub, g)
        /\ Len(msgs) + 1 \in Targets(Append(index, <<a, Len(msgs) + 1>>))
        /\ \A l \in Targets(index) : l \in Targets(Append(index, <<a, Len(msgs) + 1>>))
    BY <1>6, <2>1, <2>3, AppendJoins
  <2> QED  BY <1>5, <2>2, <2>4
<1>8. /\ Joins(ci, ms, content, ContentTopicOf)
      /\ \A l \in Targets(st.contentIndex) : l \in Targets(ci)
  <2>1. content[b] = ContentTopicOf[m]
    BY <1>6 DEF c
  <2>2. PICK msgs, index : msgs = st.messages /\ index = st.contentIndex
    OBVIOUS
  <2>3. /\ msgs \in Seq(WakuMessages) /\ content \in Seq(ContentTopics)
        /\ Joins(index, msgs, content, ContentTopicOf)
    BY <1>1, <1>2, <1>3, <2>2
  <2>4. /\ Joins(Append(index, <<b, Len(msgs) + 1>>), Append(msgs, m), content, ContentTopicOf)
        /\ \A l \in Targets(index) : l \in Targets(Append(index, <<b, Len(msgs) + 1>>))
    BY <1>6, <2>1, <2>3, AppendJoins
  <2> QED  BY <1>5, <2>2, <2>4
<1>9. /\ ms \in Seq(WakuMessages) /\ Len(ms) = n + 1 /\ ms[n + 1] = m
      /\ \A j \in 1..n : ms[j] = st.messages[j]
  BY <1>1
<1>10. \A j \in 1..n : st.messages[j] \in Range(st.messages) /\ st.messages[j] # m
  BY <1>1 DEF Range
<1> HIDE DEF ms, pi, ci, n
<1>11. \A j \in 1..(n + 1) : j \in 1..n \/ j = n + 1
  BY <1>1
<1>12. ASSUME NEW j \in 1..(n + 1), NEW k \in 1..(n + 1), ms[j] = ms[k]  PROVE j = k
  <2>1. CASE j \in 1..n /\ k \in 1..n
    <3>1. st.messages[j] = st.messages[k]
      BY <1>9, <1>12, <2>1
    <3> QED  BY <1>1, <2>1, <3>1 DEF Injective, n
  <2>2. CASE j = n + 1 /\ k = n + 1
    BY <2>2
  <2>3. CASE j \in 1..n /\ k = n + 1
    BY <1>9, <1>10, <1>12, <2>3
  <2>4. CASE j = n + 1 /\ k \in 1..n
    BY <1>9, <1>10, <1>12, <2>4
  <2> QED  BY <1>11, <2>1, <2>2, <2>3, <2>4
<1>13. Injective(ms)
  BY <1>9, <1>12 DEF Injective
<1>14. /\ q \in StoreSet /\ q.messages = ms /\ q.pubsubIndex = pi /\ q.contentIndex = ci
  <2>1. pi \in Seq(Entry) /\ ci \in Seq(Entry)
    BY <1>7, <1>8 DEF Joins
  <2> QED  BY <1>9, <2>1 DEF StoreSet
<1> HIDE DEF q
<1>15. SoundStore(q, pubsub, content, g)
  BY <1>7, <1>8, <1>13, <1>14 DEF SoundStore
<1>16. ASSUME NEW l \in 1..(n + 1)
       PROVE  l \in Targets(pi) \/ l \in Targets(ci)
  <2>1. CASE l \in 1..n
    <3>1. l \in Targets(st.pubsubIndex) \/ l \in Targets(st.contentIndex)
      BY <2>1 DEF Reaches, n
    <3> QED  BY <1>7, <1>8, <3>1
  <2>2. CASE l = n + 1
    BY <1>7, <2>2
  <2> QED  BY <1>11, <2>1, <2>2
<1>17. Reaches(q, {})
  BY <1>9, <1>14, <1>16 DEF Reaches
<1> QED  BY <1>15, <1>17 DEF q, ms, pi, ci, n, pubsub, content, c

\* Adding a message, after making room for it.
LEMMA AddMessageInv ==
  ASSUME CInv, NEW t \in PubsubTopics, NEW m \in WakuMessages, AddMessage(t, m)
  PROVE  CInv'
<1>1. PICK f, pt, ct, s, st :
        /\ f = arrivedOn /\ s = Store /\ pt = pubsubTopics /\ ct = contentTopics
        /\ st = IF Len(messages) >= CacheCapacity THEN RemoveMessage(Store, OldestMsg) ELSE Store
  OBVIOUS
<1>2. /\ s.messages = messages /\ s.pubsubIndex = pubsubIndex
      /\ s.contentIndex = contentIndex /\ ~s.defect
  BY <1>1, StoreIs
<1>3. /\ pt \in Seq(PubsubTopics) /\ ct \in Seq(ContentTopics)
      /\ SoundStore(s, pt, ct, f) /\ Reaches(s, {})
  BY <1>1 DEF CInv
<1> DEFINE c == ContentTopicOf[m]
           pubsub == AddIfAbsent(pt, t)
           content == AddIfAbsent(ct, c)
           k == Len(st.messages) + 1
           kept == DOMAIN f \cap Range(st.messages)
           g == [x \in kept \cup {m} |-> IF x = m THEN t ELSE f[x]]
           q == [messages |-> Append(st.messages, m),
                 pubsubIndex |-> Append(st.pubsubIndex, <<PositionOf(pubsub, t), k>>),
                 contentIndex |-> Append(st.contentIndex, <<PositionOf(content, c), k>>),
                 defect |-> FALSE]
<1>4. /\ m \notin Range(messages)
      /\ pubsubTopics' = pubsub /\ contentTopics' = content
      /\ messages' = Append(st.messages, m)
      /\ pubsubIndex' = Append(st.pubsubIndex, <<PositionOf(pubsub, t), k>>)
      /\ contentIndex' = Append(st.contentIndex, <<PositionOf(content, c), k>>)
      /\ arrivedOn' = g /\ returned' = {} /\ defect' = defect
  BY <1>1 DEF AddMessage
<1>5. Len(messages) \in Nat /\ CacheCapacity \in Nat /\ CacheCapacity > 0 /\ Len(messages) <= CacheCapacity
  BY CacheParts, CacheAssumption DEF CInv
<1>6. /\ SoundStore(st, pt, ct, f) /\ Reaches(st, {})
      /\ Range(st.messages) \subseteq Range(messages) /\ Len(st.messages) < CacheCapacity
  <2>1. CASE Len(messages) >= CacheCapacity
    <3>1. PICK i : i = OldestMsg
      OBVIOUS
    <3>2. st = RemoveMessage(s, i)
      BY <1>1, <2>1, <3>1
    <3>3. OldestMsg \in 1..Len(messages)
      BY <1>5, <2>1, CacheParts, OldestFacts
    <3>4. i \in 1..Len(s.messages) /\ i \in Nat
      BY <1>2, <3>1, <3>3
    <3>5. WithoutOne(st, s, i, pt, ct, f)
      BY <1>2, <1>3, <3>2, <3>4, RemoveOne
    <3>6. /\ SoundStore(st, pt, ct, f) /\ Reaches(st, {})
          /\ Range(st.messages) \subseteq Range(s.messages)
      BY <1>3, <3>2, <3>4, RemoveAny
    <3>7. Len(st.messages) = Len(messages) - 1
      BY <1>2, <3>5 DEF WithoutOne
    <3>8. Len(st.messages) < CacheCapacity
      BY <1>5, <3>7
    <3> QED  BY <1>2, <3>6, <3>8
  <2>2. CASE ~(Len(messages) >= CacheCapacity)
    <3>1. st = s
      BY <1>1, <2>2
    <3>2. Len(messages) < CacheCapacity
      BY <1>5, <2>2
    <3> QED  BY <1>2, <1>3, <3>1, <3>2
  <2> QED  BY <2>1, <2>2
<1>7. st.messages \in Seq(WakuMessages) /\ Len(st.messages) \in Nat
  BY <1>6, StoreFields DEF SoundStore
<1>8. f \in [Range(messages) -> PubsubTopics] /\ kept = Range(st.messages)
  BY <1>1, <1>6 DEF CInv
<1>9. m \notin Range(st.messages)
  BY <1>4, <1>6
<1>10. /\ g \in [Range(st.messages) \cup {m} -> PubsubTopics] /\ g[m] = t
       /\ \A x \in Range(st.messages) : g[x] = f[x]
  <2> HIDE DEF kept
  <2> QED  BY <1>6, <1>8, <1>9
<1> HIDE DEF g
<1>11. SoundStore(q, pubsub, content, g) /\ Reaches(q, {})
  BY <1>3, <1>6, <1>9, <1>10, StoreOneMore
<1>12. Store' = q
  BY <1>4 DEF Store
<1> HIDE DEF q
<1>13. SoundStore(Store', pubsubTopics', contentTopics', arrivedOn') /\ Reaches(Store', {})
  <2> HIDE DEF pubsub, content
  <2> QED  BY <1>4, <1>11, <1>12
<1>14. Range(messages') = Range(st.messages) \cup {m} /\ Len(messages') = Len(st.messages) + 1
  <2>1. PICK ms : ms = st.messages
    OBVIOUS
  <2>2. /\ Len(Append(ms, m)) = Len(ms) + 1 /\ DOMAIN Append(ms, m) = 1..(Len(ms) + 1)
        /\ Append(ms, m)[Len(ms) + 1] = m /\ DOMAIN ms = 1..Len(ms)
        /\ \A j \in 1..Len(ms) : Append(ms, m)[j] = ms[j]
        /\ Len(ms) \in Nat
    BY <1>7, <2>1
  <2>3. \A j : j \in 1..(Len(ms) + 1) <=> j \in 1..Len(ms) \/ j = Len(ms) + 1
    BY <2>2
  <2>4. Range(Append(ms, m)) = Range(ms) \cup {m}
    BY <2>2, <2>3 DEF Range
  <2> QED  BY <1>4, <2>1, <2>2, <2>4
<1>15. arrivedOn' \in [Range(messages') -> PubsubTopics]
  BY <1>4, <1>10, <1>14
<1>16. Len(messages') <= CacheCapacity
  BY <1>5, <1>6, <1>7, <1>14
<1>17. pubsubTopics' \in Seq(PubsubTopics) /\ contentTopics' \in Seq(ContentTopics)
  <2>1. c \in ContentTopics
    BY CacheAssumption
  <2> HIDE DEF c
  <2> QED  BY <1>3, <1>4, <2>1, AddIfAbsentFacts
<1>18. returned' \subseteq WakuMessages /\ defect' \in BOOLEAN
  BY <1>4 DEF CInv
<1> QED  BY <1>13, <1>15, <1>16, <1>17, <1>18 DEF CInv

\* Every step keeps the invariant.
LEMMA CacheStep ==
  ASSUME CInv, [CacheNext]_cacheVars
  PROVE  CInv'
<1>1. CASE UNCHANGED cacheVars
  <2>1. /\ UNCHANGED <<pubsubIndex, contentIndex, messages, defect, arrivedOn>>
        /\ pubsubTopics' = pubsubTopics /\ contentTopics' = contentTopics /\ returned' = returned
    BY <1>1 DEF cacheVars
  <2>2. Store' = Store
    BY <2>1 DEF Store
  <2> QED  BY <2>1, <2>2 DEF CInv
<1>2. CASE CacheNext
  <2>1. CASE \E t \in PubsubTopics : PubsubSubscribe(t)
    BY <2>1, SubscribeInv
  <2>2. CASE \E t \in PubsubTopics : PubsubUnsubscribe(t)
    BY <2>2, PubsubUnsubscribeInv
  <2>3. CASE \E t \in PubsubTopics, m \in WakuMessages : AddMessage(t, m)
    BY <2>3, AddMessageInv
  <2>4. CASE \E t \in PubsubTopics, clear \in BOOLEAN : GetMessages(t, clear)
    BY <2>4, GetMessagesInv
  <2>5. CASE \E c \in ContentTopics : ContentSubscribe(c)
    BY <2>5, SubscribeInv
  <2>6. CASE \E c \in ContentTopics : ContentUnsubscribe(c)
    BY <2>6, ContentUnsubscribeInv
  <2>7. CASE \E c \in ContentTopics, clear \in BOOLEAN : GetAutoMessages(c, clear)
    BY <2>7, GetAutoMessagesInv
  <2>8. CASE Reset
    BY <2>8, ResetInv
  <2> QED  BY <1>2, <2>1, <2>2, <2>3, <2>4, <2>5, <2>6, <2>7, <2>8 DEF CacheNext
<1> QED  BY <1>1, <1>2

\* A message has at most one entry, and its entries are where its position is
\* among the targets.
LEMMA EntriesFacts ==
  ASSUME NEW index, NEW msgs, NEW topics, NEW f, Joins(index, msgs, topics, f), NEW i
  PROVE  /\ Cardinality(EntriesOf(index, i)) <= 1
         /\ i \in Targets(index) => EntriesOf(index, i) # {}
<1>1. index \in Seq(Entry) /\ DOMAIN index = 1..Len(index)
  BY DEF Joins
<1>2. CASE EntriesOf(index, i) = {}
  <2>1. Cardinality(EntriesOf(index, i)) = 0
    BY <1>2, FS_EmptySet
  <2>2. i \notin Targets(index)
    BY <1>2 DEF EntriesOf, Targets
  <2> QED  BY <2>1, <2>2
<1>3. CASE EntriesOf(index, i) # {}
  <2>1. PICK j : j \in EntriesOf(index, i)
    BY <1>3
  <2>2. EntriesOf(index, i) = {j}
    BY <1>1, <2>1 DEF EntriesOf, Joins
  <2>3. Cardinality({j}) = 1
    BY FS_Singleton
  <2> QED  BY <1>3, <2>2, <2>3
<1> QED  BY <1>2, <1>3

\* The invariant says that the cache is sound.
LEMMA InvIsSound ==
  ASSUME CInv
  PROVE  CacheSound
<1>1. /\ messages \in Seq(WakuMessages) /\ Len(messages) \in Nat
      /\ DOMAIN messages = 1..Len(messages) /\ Injective(messages)
      /\ Joins(pubsubIndex, messages, pubsubTopics, arrivedOn)
      /\ Joins(contentIndex, messages, contentTopics, ContentTopicOf)
  BY CacheParts
<1>2. CacheTypeOK
  <2>1. \A i \in DOMAIN pubsubTopics : pubsubTopics[i] \in PubsubTopics
    BY DEF CInv
  <2>2. \A i \in DOMAIN contentTopics : contentTopics[i] \in ContentTopics
    BY DEF CInv
  <2>3. \A i \in DOMAIN messages : messages[i] \in WakuMessages
    BY <1>1
  <2>4. ASSUME NEW j \in DOMAIN pubsubIndex
        PROVE  pubsubIndex[j] \in (DOMAIN pubsubTopics) \X (DOMAIN messages)
    <3>1. pubsubIndex \in Seq(Entry) /\ j \in 1..Len(pubsubIndex)
      BY <1>1 DEF Joins
    <3>2. PICK e : e = pubsubIndex[j]
      OBVIOUS
    <3>3. e \in Entry /\ e[1] \in 1..Len(pubsubTopics) /\ e[2] \in 1..Len(messages)
      BY <1>1, <3>1, <3>2 DEF Joins
    <3>4. DOMAIN pubsubTopics = 1..Len(pubsubTopics)
      BY DEF CInv
    <3>5. e = <<e[1], e[2]>>
      BY <3>3 DEF Entry
    <3> QED  BY <1>1, <3>2, <3>3, <3>4, <3>5
  <2>5. ASSUME NEW j \in DOMAIN contentIndex
        PROVE  contentIndex[j] \in (DOMAIN contentTopics) \X (DOMAIN messages)
    <3>1. contentIndex \in Seq(Entry) /\ j \in 1..Len(contentIndex)
      BY <1>1 DEF Joins
    <3>2. PICK e : e = contentIndex[j]
      OBVIOUS
    <3>3. e \in Entry /\ e[1] \in 1..Len(contentTopics) /\ e[2] \in 1..Len(messages)
      BY <1>1, <3>1, <3>2 DEF Joins
    <3>4. DOMAIN contentTopics = 1..Len(contentTopics)
      BY DEF CInv
    <3>5. e = <<e[1], e[2]>>
      BY <3>3 DEF Entry
    <3> QED  BY <1>1, <3>2, <3>3, <3>4, <3>5
  <2>6. returned \subseteq WakuMessages /\ defect \in BOOLEAN
    BY DEF CInv
  <2>7. \A m \in DOMAIN arrivedOn : arrivedOn[m] \in PubsubTopics
    BY DEF CInv
  <2> QED  BY <2>1, <2>2, <2>3, <2>4, <2>5, <2>6, <2>7 DEF CacheTypeOK
<1>3. IndexFaithful
  <2>1. ASSUME NEW j \in DOMAIN pubsubIndex
        PROVE  pubsubTopics[pubsubIndex[j][1]] = arrivedOn[messages[pubsubIndex[j][2]]]
    <3>1. j \in 1..Len(pubsubIndex)
      BY <1>1 DEF Joins
    <3> QED  BY <1>1, <3>1 DEF Joins
  <2>2. ASSUME NEW j \in DOMAIN contentIndex
        PROVE  contentTopics[contentIndex[j][1]] = ContentTopicOf[messages[contentIndex[j][2]]]
    <3>1. j \in 1..Len(contentIndex)
      BY <1>1 DEF Joins
    <3> QED  BY <1>1, <3>1 DEF Joins
  <2>3. ASSUME NEW i \in DOMAIN messages
        PROVE  /\ Cardinality(EntriesOf(pubsubIndex, i)) <= 1
               /\ Cardinality(EntriesOf(contentIndex, i)) <= 1
               /\ EntriesOf(pubsubIndex, i) # {} \/ EntriesOf(contentIndex, i) # {}
    <3>1. i \in Targets(pubsubIndex) \/ i \in Targets(contentIndex)
      BY <1>1, StoreIs DEF CInv, Reaches
    <3> QED  BY <1>1, <3>1, EntriesFacts
  <2> QED  BY <2>1, <2>2, <2>3 DEF IndexFaithful
<1>4. BoundedWithoutDuplicates
  <2>1. Cardinality(Range(messages)) = Len(messages)
    <3>1. PICK ms, n : ms = messages /\ n = Len(messages)
      OBVIOUS
    <3>2. n \in Nat /\ DOMAIN ms = 1..n /\ ms \in [1..n -> Range(ms)]
          /\ (\A j, k \in 1..n : ms[j] = ms[k] => j = k)
          /\ \A x \in Range(ms) : \E j \in 1..n : ms[j] = x
      BY <1>1, <3>1 DEF Range, Injective
    <3>3. ms \in Injection(1..n, Range(ms))
      BY <3>2 DEF Injection, IsInjective
    <3>4. ms \in Surjection(1..n, Range(ms))
      BY <3>2, Zenon DEF Surjection
    <3>5. IsFiniteSet(1..n) /\ Cardinality(1..n) = n
      BY <3>2, FS_Interval
    <3>6. Cardinality(Range(ms)) = n
      BY <3>3, <3>4, <3>5, FS_Surjection
    <3> QED  BY <3>1, <3>6
  <2> QED  BY <2>1 DEF BoundedWithoutDuplicates, CInv
<1> QED  BY <1>2, <1>3, <1>4 DEF CacheSound

LEMMA CacheInvariant == CacheSpec => []CInv
<1>1. CacheInit => CInv
  BY CacheInitInv
<1>2. CInv /\ [CacheNext]_cacheVars => CInv'
  BY CacheStep
<1> QED  BY <1>1, <1>2, PTL DEF CacheSpec

\* After any sequence of calls the two indices refer to the right messages and
\* topics, every message has an entry, and the capacity holds, however many
\* deletions have moved elements (message_cache.nim).
THEOREM CacheStaysSound == CacheSpec => []CacheSound
<1>1. CInv => CacheSound
  BY InvIsSound
<1> QED  BY <1>1, CacheInvariant, PTL

\* getAutoMessages with clear never fails and removes exactly what it returns.
THEOREM AutoClearIsExact == CacheSpec => AutoClearRemovesReturned
<1>1. ASSUME CInv, NEW c \in ContentTopics, GetAutoMessages(c, TRUE)
      PROVE  ~defect' /\ Range(messages') = Range(messages) \ returned'
  BY <1>1, GetAutoMessagesInv
<1>2. CInv /\ [CacheNext]_cacheVars =>
        [\A c \in ContentTopics :
           GetAutoMessages(c, TRUE) =>
             ~defect' /\ Range(messages') = Range(messages) \ returned']_cacheVars
  BY <1>1
<1> QED  BY <1>2, CacheInvariant, PTL DEF CacheSpec, AutoClearRemovesReturned

\* An unsubscription loses nothing that is served through the other index.
THEOREM OthersKept == CacheSpec => UnsubscribeKeepsOthers
<1>1. ASSUME CInv, NEW t \in PubsubTopics, PubsubUnsubscribe(t), NEW j \in DOMAIN contentIndex
      PROVE  messages[contentIndex[j][2]] \in Range(messages')
  BY <1>1, PubsubUnsubscribeInv
<1>2. ASSUME CInv, NEW c \in ContentTopics, ContentUnsubscribe(c), NEW j \in DOMAIN pubsubIndex
      PROVE  messages[pubsubIndex[j][2]] \in Range(messages')
  BY <1>2, ContentUnsubscribeInv
<1>3. CInv /\ [CacheNext]_cacheVars =>
        [/\ \A t \in PubsubTopics : PubsubUnsubscribe(t) =>
              \A j \in DOMAIN contentIndex :
                messages[contentIndex[j][2]] \in Range(messages')
         /\ \A c \in ContentTopics : ContentUnsubscribe(c) =>
              \A j \in DOMAIN pubsubIndex :
                messages[pubsubIndex[j][2]] \in Range(messages')]_cacheVars
  BY <1>1, <1>2
<1> QED  BY <1>3, CacheInvariant, PTL DEF CacheSpec, UnsubscribeKeepsOthers
=============================================================================
