---------------------------- MODULE QueueArchive ----------------------------
(***************************************************************************)
(* The archive (waku_archive/archive.nim) over the in-memory driver        *)
(* (driver/queue_driver): messages that the relay hands in are kept sorted *)
(* in a set of limited capacity, and a store client reads them page by     *)
(* page while others arrive and old ones leave.                            *)
(*                                                                         *)
(* A message is the fields an index compares: its pubsub topic, timestamp  *)
(* (0 if it has none) and digest, as numbers in the order of the bytes.    *)
(* They determine its hash, which is what a cursor of the store protocol   *)
(* carries.                                                                *)
(*                                                                         *)
(* The set is a red-black tree (stew/sorted_set) searched with cmp, and    *)
(* cmp is no order when messages without timestamp come twice: equal       *)
(* indices may have others between them.  What a search then finds depends *)
(* on the shape of the tree and is nondeterministic here.                  *)
(***************************************************************************)
EXTENDS Naturals, Sequences, FiniteSets, SequencesExt

CONSTANTS
  Messages,       \* the messages there are
  Capacity,       \* of the queue
  Variance,       \* MaxMessageTimestampVariance
  DefaultPageSize, MaxPageSize,
  PageSizes,      \* page sizes a client asks for
  MaxTime         \* bound on the clock

ASSUME MessagesAssumption ==
  Messages \subseteq [pubsubTopic : Nat \ {0}, timestamp : Nat, digest : Nat]
ASSUME SizesAssumption ==
  /\ Capacity \in Nat \ {0} /\ Variance \in Nat /\ MaxTime \in Nat
  /\ DefaultPageSize \in Nat \ {0} /\ MaxPageSize \in Nat \ {0} /\ PageSizes \subseteq Nat

Times == 0..MaxTime
AnyTopic == 0
NoCursor == [pubsubTopic |-> AnyTopic, timestamp |-> 0, digest |-> 0]

VARIABLES
  items,          \* the sorted set, of indices
  now,
  failed,         \* a Defect ended the program
  walk,           \* the client: [status, topic, pageSize, forward, cursor]
  got,            \* history: what it has received, in chronological order
  present,        \* history: the items it should get, still stored since it began
  lost,           \* history: indices evicted, or refused as too old
  repeated        \* history: a message came at two times

vars == <<items, now, failed, walk, got, present, lost, repeated>>

-----------------------------------------------------------------------------
(* Indices (index.nim).                                                    *)

\* The index handleMessage and put make of a message at time t.
IndexOf(m, t) ==
  [msg |-> m, receiverTime |-> IF m.timestamp > 0 THEN m.timestamp ELSE t]

TimeOf(x) == IF x.msg.timestamp = 0 THEN x.receiverTime ELSE x.msg.timestamp

Equal(x, y) == x.msg = y.msg

\* The part of cmp that follows the test for equality.
Before(x, y) ==
  \/ TimeOf(x) < TimeOf(y)
  \/ /\ TimeOf(x) = TimeOf(y)
     /\ \/ x.msg.digest < y.msg.digest
        \/ /\ x.msg.digest = y.msg.digest
           /\ x.msg.pubsubTopic < y.msg.pubsubTopic

\* cmp(x, y) = 0
Same(x, y) == Equal(x, y) \/ (~Before(x, y) /\ ~Before(y, x))

-----------------------------------------------------------------------------
(* External: the sorted set.  A search for y stops at any member that is   *)
(* the same; it can only miss one that has others between it and y.        *)

Found(S, y) == {x \in S : Same(x, y)}

Between(x, z, y) == (Before(x, z) /\ Before(z, y)) \/ (Before(y, z) /\ Before(z, x))

MayMiss(S, y) ==
  \A x \in Found(S, y) : \E z \in S : ~Same(z, y) /\ Between(x, z, y)

IsFirst(S, x) == x \in S /\ \A z \in S \ {x} : Before(x, z)

-----------------------------------------------------------------------------
(* Storing.                                                                *)

\* validate; ephemeral messages are not among Messages.
Validates(m) ==
  m.timestamp = 0 \/ (now <= m.timestamp + Variance /\ m.timestamp <= now + Variance)

Twice(S) == \E x, y \in S : x # y /\ Equal(x, y)

\* The histories end once a message came at two times: nothing is said then.
Stores(S, out) ==
  LET again == repeated \/ Twice(S \cup lost \cup out)
  IN  /\ items' = S
      /\ repeated' = again
      /\ lost' = IF again THEN {} ELSE lost \cup out
      /\ present' = IF again THEN {} ELSE present \cap S
      /\ got' = IF again THEN <<>> ELSE got

\* Faulty: one too many.
FullLate(S) == Cardinality(S) > Capacity

Full(S) == Cardinality(S) >= Capacity

\* Faulty: takes the place of the oldest, however old it is.
TooOldNever(y, first) == FALSE

TooOld(y, first) == ~Same(y, first) /\ Before(y, first)

\* add, when there is room.
AddItem(y) ==
  /\ ~Full(items) /\ MayMiss(items, y)
  /\ Stores(items \cup {y}, {})
  /\ UNCHANGED failed

\* add, when the queue is full: the oldest item goes, or one that a search
\* takes for it.  insert finds the index if the tree now leads it there, and
\* its error is not expected.
ReplaceItem(y) ==
  /\ Full(items) /\ MayMiss(items, y)
  /\ \E first \in items :
       /\ IsFirst(items, first)
       /\ \/ /\ TooOld(y, first)
             /\ Stores(items, {y})
             /\ UNCHANGED failed
          \/ /\ ~TooOld(y, first)
             /\ \E x \in Found(items, first) :
                  LET rest == items \ {x}
                  IN  \/ /\ MayMiss(rest, y)
                         /\ Stores(rest \cup {y}, {x})
                         /\ UNCHANGED failed
                      \/ /\ Found(rest, y) # {}
                         /\ Stores(rest, {x})
                         /\ failed' = TRUE

\* An index that is found is a duplicate, and nothing changes.
HandleMessage(m) ==
  /\ ~failed
  /\ Validates(m)
  /\ LET y == IndexOf(m, now) IN AddItem(y) \/ ReplaceItem(y)
  /\ UNCHANGED <<now, walk>>

-----------------------------------------------------------------------------
(* Reading.                                                                *)

\* Whether the walk meets x before y.
Precedes(x, y) == IF walk.forward THEN Before(x, y) ELSE Before(y, x)

\* Some of the items, as the walk meets them.
InOrder(S) ==
  CHOOSE s \in SetToSeqs(S) : \A i, j \in DOMAIN s : i < j => Precedes(s[i], s[j])

Matches(x) == walk.topic = AnyTopic \/ x.msg.pubsubTopic = walk.topic

\* Where walkToCursor may stop; it does at the first of them.
AtCursor == {x \in items : x.msg = walk.cursor}

\* getPage: the items that come after the first match of the cursor.
AfterCursor ==
  IF walk.cursor = NoCursor THEN items
  ELSE {y \in items : \E x \in AtCursor : Precedes(x, y)}

\* Faulty: an empty page, with the cursor of the request.
CursorEchoed == walk

\* INVALID_CURSOR, which findMessages passes on as a DRIVER_ERROR: the client
\* has to begin again.
CursorGone == [walk EXCEPT !.status = "invalidCursor"]

SizeOfPage ==
  IF walk.pageSize = 0 THEN DefaultPageSize
  ELSE IF walk.pageSize < MaxPageSize THEN walk.pageSize ELSE MaxPageSize

Truncated(s, n) == SubSeq(s, 1, IF Len(s) < n THEN Len(s) ELSE n)

\* Faulty: the last row fetched, which is not in the page.
LastIncludedFetched(rows) == Last(rows)

LastIncluded(rows) == rows[Len(rows) - 1]

\* findMessages asks the driver for one row more than fit, to know whether
\* there are more; the cursor is the last row of the page.
FindMessages ==
  LET rows == Truncated(InOrder({x \in AfterCursor : Matches(x)}), SizeOfPage + 1)
      page == Truncated(rows, SizeOfPage)
      more == Len(rows) > SizeOfPage
  IN  /\ ~failed /\ walk.status = "paging"
      /\ \/ /\ walk.cursor # NoCursor /\ AtCursor = {}
            /\ walk' = CursorGone
            /\ UNCHANGED got
         \/ /\ walk.cursor # NoCursor => AtCursor # {}
            /\ got' = IF repeated THEN got
                      ELSE IF walk.forward THEN got \o page ELSE Reverse(page) \o got
            /\ walk' = [walk EXCEPT
                          !.status = IF more THEN "paging" ELSE "done",
                          !.cursor = IF more THEN LastIncluded(rows).msg ELSE NoCursor]
      /\ UNCHANGED <<items, now, failed, present, lost, repeated>>

\* External: a store client begins to read, from a server that has stored
\* something; it goes on with the cursor of each answer until there is none.
Begin(topic, size, forward) ==
  /\ ~failed /\ walk.status = "idle"
  /\ walk' = [status |-> "paging", topic |-> topic, pageSize |-> size,
              forward |-> forward, cursor |-> NoCursor]
  /\ present' = IF repeated THEN {}
                ELSE {x \in items : topic = AnyTopic \/ x.msg.pubsubTopic = topic}
  /\ UNCHANGED <<items, now, failed, got, lost, repeated>>

Tick ==
  /\ now < MaxTime
  /\ now' = now + 1
  /\ UNCHANGED <<items, failed, walk, got, present, lost, repeated>>

Topics == {m.pubsubTopic : m \in Messages}

Init ==
  /\ items = {}
  /\ now = 0
  /\ failed = FALSE
  /\ walk = [status |-> "idle", topic |-> AnyTopic, pageSize |-> 0, forward |-> TRUE,
             cursor |-> NoCursor]
  /\ got = <<>>
  /\ present = {}
  /\ lost = {}
  /\ repeated = FALSE

Next ==
  \/ \E m \in Messages : HandleMessage(m)
  \/ \E topic \in Topics \cup {AnyTopic}, size \in PageSizes, forward \in BOOLEAN :
       Begin(topic, size, forward)
  \/ FindMessages
  \/ Tick

Spec == Init /\ [][Next]_vars

(* A client that has a cursor asks for the next page.                      *)
FairSpec == Spec /\ WF_vars(FindMessages)

-----------------------------------------------------------------------------
(* Properties.                                                             *)

Indices == {IndexOf(m, t) : m \in Messages, t \in Times}

\* The queue keeps to its capacity (add), no two items compare equal by their
\* keys (cmp), and only messages without timestamp are ever stored twice.
QueueSound ==
  /\ items \subseteq Indices /\ now \in Times
  /\ Cardinality(items) <= Capacity
  /\ \A x, y \in items :
       x # y => /\ Before(x, y) \/ Before(y, x)
                /\ Equal(x, y) => x.msg.timestamp = 0

\* While no message came at two times, the queue holds the newest of all it was
\* offered, in whatever order they came: what add evicted or refused as
\* "too_old" is older than everything it has.
KeepsNewest ==
  ~repeated => \A x \in lost, y \in items : Before(x, y)

\* A client that reads to the end while messages come and go has every
\* message that was stored all the time, nothing twice, in chronological
\* order (findMessages: "All messages MUST be returned in chronological
\* order").
PagesExact ==
  walk.status = "done" /\ ~repeated =>
    /\ present \subseteq Range(got)
    /\ \A i, j \in DOMAIN got : i < j => Before(got[i], got[j])

\* A client gets to the end, or is told that its cursor is gone (getPage),
\* unless a message is stored twice: walkToCursor stops at the first of two
\* equal items, which may lead the client round for ever.
WalkEnds ==
  walk.status = "paging" ~> (walk.status # "paging" \/ repeated \/ failed)
=============================================================================
