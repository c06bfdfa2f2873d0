------------------------ MODULE GroupManagerProofs ------------------------
(***************************************************************************)
(* What the on-chain group manager promises, for every chain, chunk size,  *)
(* number of concurrent ranges and of crashes, and for every capacity of   *)
(* its window of roots.                                                    *)
(*                                                                         *)
(* A restart loses no registration except in ranges the sync abandoned     *)
(* (RestartIsSafe): a registration is accounted for when it is in the      *)
(* tree, in a range in flight or in an abandoned one.  Everything up to    *)
(* any block number the manager keeps (the last processed one, those of    *)
(* its loop, the ends of the ranges in flight) is accounted for; and when  *)
(* the metadata is written, nothing is in flight that is not abandoned.    *)
(* From the accounting, isReady is right as well (ManagerIsSound).         *)
(*                                                                         *)
(* A node that caught up accepts its own root (OwnRootAccepted): the       *)
(* newest root of the window is that of the tree, or some block that is    *)
(* already in the tree is going to be handled again, which slides in the   *)
(* root of the whole tree.  The same holds of the metadata and the block a *)
(* restart resumes with, so a crash at any step keeps it.                  *)
(*                                                                         *)
(* The root queue under reorganisations (RootWindow): the newest root of   *)
(* the window is the tree's unless the last answer was reorganised, the    *)
(* window is the tree's last roots until the first reorganisation          *)
(* (WindowStaysSound, BatchRootAccepted), and backfilling gives back what  *)
(* the reorganised answer's last block pushed out (ReorgTakenBack).        *)
(***************************************************************************)
EXTENDS OnchainGroupManager, RootWindow, InductionLemmas, SequenceTheorems

\* Up to block n, the registrations ev are in t, in a or in a range of f.
Accounted(n, ev, t, a, f) ==
  \A e \in ev : Deployed < e /\ e <= n
    => e \in t \/ e \in a \/ \E r \in f : e \in r.from..r.to

AccountedUpTo(n) == Accounted(n, events, tree, abandoned, inFlight)

Syncing == sync \in {"latest", "refetch", "delay", "await"}

\* The part of the type invariant the argument uses.
Types ==
  /\ head \in Nat /\ events \subseteq Nat /\ (\A e \in events : e <= head)
  /\ metadata.block \in Nat /\ metadata.block <= head
  /\ (sync # "off" => latestProcessedBlock \in Nat /\ latestProcessedBlock <= head)
  /\ (Syncing => fromBlock \in Nat /\ fromBlock <= head + 1)
  /\ toBlock \in Nat /\ toBlock <= head
  /\ currentLatestBlock \in Nat /\ currentLatestBlock <= head
  /\ (\A r \in inFlight : r.from \in Nat /\ r.to \in Nat /\ r.to <= head)
  /\ pollRange.from \in Nat /\ pollRange.from <= head + 1
  /\ pollRange.to \in Nat /\ pollRange.to <= head
  /\ sync \in {"off", "latest", "refetch", "delay", "await", "listening"}
  /\ poll \in {"off", "number", "events", "metadata"}
  /\ Deployed <= head

ProcessedAccounted == sync # "off" => AccountedUpTo(latestProcessedBlock)

InFlightAccounted == \A r \in inFlight : AccountedUpTo(r.to)

SyncAccounted ==
  /\ (Syncing => inFlight \subseteq futs /\ AccountedUpTo(fromBlock - 1))
  /\ (sync = "await" => AccountedUpTo(toBlock))
  /\ (sync = "latest" => inFlight = {})

\* While the poll loop runs, what is in flight is abandoned.
ListeningAbandoned ==
  /\ (poll # "off" => sync = "listening")
  /\ (sync = "listening" => \A r \in inFlight : r.from..r.to \subseteq abandoned)
  /\ (sync = "off" => inFlight = {})

PollAccounted == poll = "events" => AccountedUpTo(pollRange.from - 1)

MetadataAccounted ==
  \A e \in events : Deployed < e /\ e <= metadata.block => e \in tree \cup abandoned

IInv ==
  /\ Types
  /\ ProcessedAccounted
  /\ InFlightAccounted
  /\ SyncAccounted
  /\ ListeningAbandoned
  /\ PollAccounted
  /\ MetadataAccounted
-----------------------------------------------------------------------------
(* Facts on accounting.                                                    *)

\* More in the tree, abandoned or in flight accounts for no less, and a
\* lower block needs no more.
LEMMA AccountedMono ==
  ASSUME NEW n \in Int, NEW m \in Int, m <= n, NEW ev, ev \subseteq Nat,
         NEW t, NEW a, NEW f, NEW t2, NEW a2, NEW f2,
         t \subseteq t2, a \subseteq a2, f \subseteq f2,
         Accounted(n, ev, t, a, f)
  PROVE  Accounted(m, ev, t2, a2, f2)
  BY SyncAssumption DEF Accounted

\* An answered range leaves flight and its registrations enter the tree.
LEMMA AccountedAnswered ==
  ASSUME NEW n, NEW ev, NEW t, NEW a, NEW f, NEW r \in f, Accounted(n, ev, t, a, f)
  PROVE  Accounted(n, ev, t \cup (ev \cap (r.from..r.to)), a, f \ {r})
  BY DEF Accounted

\* A range put in flight extends what is accounted for to its end.
LEMMA AccountedFetched ==
  ASSUME NEW m \in Nat, NEW k \in Nat, NEW ev, ev \subseteq Nat, NEW t, NEW a, NEW f,
         Accounted(m - 1, ev, t, a, f)
  PROVE  Accounted(k, ev, t, a, f \cup {[from |-> m, to |-> k]})
<1> SUFFICES ASSUME NEW e \in ev, Deployed < e, e <= k
             PROVE  e \in t \/ e \in a
                      \/ \E r \in f \cup {[from |-> m, to |-> k]} : e \in r.from..r.to
  BY DEF Accounted
<1>1. CASE e <= m - 1
  BY <1>1, SyncAssumption DEF Accounted
<1>2. CASE ~(e <= m - 1)
  <2> DEFINE r == [from |-> m, to |-> k]
  <2>1. r.from = m /\ r.to = k
    OBVIOUS
  <2>2. e \in r.from..r.to
    BY <1>2, <2>1
  <2>3. r \in f \cup {[from |-> m, to |-> k]}
    OBVIOUS
  <2> HIDE DEF r
  <2> QED  BY <2>2, <2>3
<1> QED  BY <1>1, <1>2

\* So does a range whose registrations enter the tree at once.
LEMMA AccountedHandled ==
  ASSUME NEW m \in Nat, NEW k \in Nat, NEW ev, ev \subseteq Nat, NEW t, NEW a, NEW f,
         Accounted(m - 1, ev, t, a, f)
  PROVE  Accounted(k, ev, t \cup (ev \cap (m..k)), a, f)
  BY SyncAssumption DEF Accounted

\* A new block is above every block number the manager keeps.
LEMMA AccountedMined ==
  ASSUME NEW h \in Nat, NEW n \in Int, n <= h, NEW ev, NEW ev2, NEW t, NEW a, NEW f,
         ev2 \subseteq ev \cup {h + 1}, Accounted(n, ev, t, a, f)
  PROVE  Accounted(n, ev2, t, a, f)
  BY DEF Accounted

-----------------------------------------------------------------------------
\* In the initial states nothing is in flight and no block is processed.
LEMMA InitEstablishes == Init => IInv
  BY SyncAssumption DEF Init, IInv, Types, Syncing, ProcessedAccounted, InFlightAccounted,
     SyncAccounted, ListeningAbandoned, PollAccounted, MetadataAccounted, Blocks,
     NoMetadata

\* What a pass of the sync's loop establishes (startOnchainSync up to its
\* next await) when all before its first block is accounted for.
LEMMA LoopTopPreserves ==
  ASSUME IInv, NEW from \in Nat, from <= head + 1, NEW latest \in Nat, latest <= head,
         NEW fs, LoopTop(from, latest, fs), inFlight' \subseteq fs,
         inFlight \subseteq inFlight',
         \A r \in inFlight' : r.from \in Nat /\ r.to \in Nat /\ r.to <= head
                              /\ Accounted(r.to, events, tree, abandoned, inFlight'),
         Accounted(from - 1, events, tree, abandoned, inFlight'),
         sync \in {"latest", "delay", "await"},
         head' = head, events' = events, tree' = tree,
         latestProcessedBlock' = latestProcessedBlock, pollRange' = pollRange,
         metadata'.block \in Nat, metadata'.block <= head,
         \A e \in events : Deployed < e /\ e <= metadata'.block => e \in tree \cup abandoned
  PROVE  IInv'
<1>1. poll = "off"
  BY DEF IInv, ListeningAbandoned, Types
<1>2. abandoned \subseteq abandoned'
  BY DEF LoopTop
<1>3. /\ sync' \in {"listening", "refetch", "delay"}
      /\ fromBlock' = from /\ currentLatestBlock' = latest /\ futs' = fs
      /\ toBlock' \in Nat /\ toBlock' <= head
  <2>1. CASE from >= latest
    BY <2>1 DEF LoopTop, IInv, Types
  <2>2. CASE ~(from >= latest)
    <3>1. toBlock' = Min2(from + BlockChunkSize, latest) /\ sync' \in {"refetch", "delay"}
      BY <2>2 DEF LoopTop
    <3>2. toBlock' \in Nat /\ toBlock' <= head
      BY <3>1, SyncAssumption DEF Min2, IInv, Types
    <3> QED  BY <3>1, <3>2 DEF LoopTop
  <2> QED  BY <2>1, <2>2
<1>4. Types'
  <2>1. poll' \in {"off", "number", "events"}
    BY <1>1 DEF LoopTop
  <2> QED  BY <1>3, <2>1 DEF IInv, Types, Syncing
<1>5. ProcessedAccounted'
  BY <1>2 DEF IInv, ProcessedAccounted, AccountedUpTo, Accounted
<1>6. InFlightAccounted'
  BY <1>2 DEF InFlightAccounted, AccountedUpTo, Accounted
<1>7. SyncAccounted'
  <2>1. Accounted(from - 1, events', tree', abandoned', inFlight')
    BY <1>2 DEF Accounted
  <2> QED  BY <1>3, <2>1 DEF SyncAccounted, Syncing, AccountedUpTo
<1>8. ListeningAbandoned'
  <2>1. CASE from >= latest
    <3>1. sync' = "listening" /\ abandoned' = abandoned \cup BlocksOf(fs \cap inFlight')
      BY <2>1 DEF LoopTop
    <3>2. \A r \in inFlight' : r.from..r.to \subseteq abandoned'
      BY <3>1 DEF BlocksOf
    <3> QED  BY <3>1, <3>2 DEF ListeningAbandoned
  <2>2. CASE ~(from >= latest)
    <3>1. sync' \in {"refetch", "delay"} /\ poll' = "off"
      BY <2>2, <1>1 DEF LoopTop
    <3> QED  BY <3>1 DEF ListeningAbandoned
  <2> QED  BY <2>1, <2>2
<1>9. PollAccounted'
  <2>1. poll' # "events"
    BY <1>1 DEF LoopTop
  <2> QED  BY <2>1 DEF PollAccounted
<1>10. MetadataAccounted'
  BY <1>2 DEF MetadataAccounted
<1> QED  BY <1>4, <1>5, <1>6, <1>7, <1>8, <1>9, <1>10 DEF IInv

\* Each action keeps the accounting.
LEMMA StartPreserves == IInv /\ Start => IInv'
<1> SUFFICES ASSUME IInv, Start  PROVE IInv'
  OBVIOUS
<1> USE SyncAssumption
<1>1. /\ head' = head /\ events' = events /\ tree' = tree /\ abandoned' = abandoned
      /\ inFlight' = inFlight /\ metadata' = metadata /\ toBlock' = toBlock
      /\ currentLatestBlock' = currentLatestBlock /\ pollRange' = pollRange
      /\ poll' = poll /\ sync = "off" /\ sync' = "latest"
      /\ latestProcessedBlock' = Max2(metadata.block, Deployed)
      /\ fromBlock' = FirstBlock(Max2(metadata.block, Deployed))
  BY DEF Start, chain, pollVars
<1>2. /\ metadata.block \in Nat /\ metadata.block <= head /\ Deployed <= head
      /\ head \in Nat /\ events \subseteq Nat
  BY DEF IInv, Types
<1>3. poll = "off" /\ inFlight = {}
  BY <1>1 DEF IInv, ListeningAbandoned, Types
<1>4. /\ latestProcessedBlock' \in Nat /\ latestProcessedBlock' <= head
      /\ fromBlock' \in Nat /\ fromBlock' <= head + 1
      /\ fromBlock' <= latestProcessedBlock' + 1
      /\ (latestProcessedBlock' = metadata.block \/ latestProcessedBlock' = Deployed)
  BY <1>1, <1>2 DEF Max2, FirstBlock
<1>5. Types'
  BY <1>1, <1>2, <1>3, <1>4 DEF IInv, Types, Syncing
<1>6. Accounted(latestProcessedBlock', events, tree, abandoned, inFlight)
  BY <1>2, <1>4 DEF Accounted, IInv, MetadataAccounted
<1>7. Accounted(fromBlock' - 1, events, tree, abandoned, inFlight)
  <2> SUFFICES ASSUME NEW e \in events, Deployed < e, e <= fromBlock' - 1
               PROVE  e \in tree \/ e \in abandoned \/ \E r \in inFlight : e \in r.from..r.to
    BY DEF Accounted
  <2>1. e \in Nat
    BY <1>2
  <2>2. ASSUME NEW l \in Nat, NEW f \in Nat, f <= l + 1, e <= f - 1
        PROVE  e <= l
    BY <2>1, <2>2
  <2>3. e <= latestProcessedBlock'
    BY <1>4, <2>2
  <2> QED  BY <1>6, <2>3 DEF Accounted
<1>8. ProcessedAccounted' /\ SyncAccounted'
  BY <1>1, <1>3, <1>6, <1>7 DEF ProcessedAccounted, SyncAccounted, AccountedUpTo
<1>9. InFlightAccounted' /\ ListeningAbandoned' /\ PollAccounted'
  BY <1>1, <1>3 DEF InFlightAccounted, ListeningAbandoned, PollAccounted
<1>10. MetadataAccounted'
  BY <1>1 DEF IInv, MetadataAccounted
<1> QED  BY <1>5, <1>8, <1>9, <1>10 DEF IInv

LEMMA SyncLatestPreserves == IInv /\ SyncLatest => IInv'
<1> SUFFICES ASSUME IInv, SyncLatest  PROVE IInv'
  OBVIOUS
<1>1. /\ head' = head /\ events' = events /\ tree' = tree /\ inFlight' = inFlight
      /\ latestProcessedBlock' = latestProcessedBlock /\ pollRange' = pollRange
      /\ metadata' = metadata /\ sync = "latest" /\ LoopTop(fromBlock, head, {})
  BY DEF SyncLatest, chain
<1>2. fromBlock \in Nat /\ fromBlock <= head + 1 /\ head \in Nat /\ inFlight = {}
  BY <1>1 DEF IInv, Types, Syncing, SyncAccounted
<1>3. Accounted(fromBlock - 1, events, tree, abandoned, inFlight')
  BY <1>1 DEF IInv, SyncAccounted, Syncing, AccountedUpTo
<1>4. metadata'.block \in Nat /\ metadata'.block <= head
  BY <1>1 DEF IInv, Types
<1>5. \A e \in events : Deployed < e /\ e <= metadata'.block => e \in tree \cup abandoned
  BY <1>1 DEF IInv, MetadataAccounted
<1> QED  BY <1>1, <1>2, <1>3, <1>4, <1>5, LoopTopPreserves

LEMMA SyncRefetchPreserves == IInv /\ SyncRefetch => IInv'
<1> SUFFICES ASSUME IInv, SyncRefetch  PROVE IInv'
  OBVIOUS
<1>1. /\ head' = head /\ events' = events /\ tree' = tree /\ abandoned' = abandoned
      /\ inFlight' = inFlight /\ metadata' = metadata /\ futs' = futs
      /\ fromBlock' = fromBlock /\ pollRange' = pollRange /\ poll' = poll
      /\ latestProcessedBlock' = latestProcessedBlock
      /\ sync = "refetch" /\ sync' = "delay"
      /\ currentLatestBlock' = head /\ toBlock' = Min2(fromBlock + BlockChunkSize, head)
  BY DEF SyncRefetch, chain, pollVars
<1>2. fromBlock \in Nat /\ head \in Nat
  BY <1>1 DEF IInv, Types, Syncing
<1>3. toBlock' \in Nat /\ toBlock' <= head
  BY <1>1, <1>2, SyncAssumption DEF Min2
<1>4. Types'
  BY <1>1, <1>3 DEF IInv, Types, Syncing
<1> QED
  BY <1>1, <1>4 DEF IInv, ProcessedAccounted, InFlightAccounted, SyncAccounted,
     ListeningAbandoned, PollAccounted, MetadataAccounted, Syncing, AccountedUpTo

LEMMA SyncFetchPreserves == IInv /\ SyncFetch => IInv'
<1> SUFFICES ASSUME IInv, SyncFetch  PROVE IInv'
  OBVIOUS
<1> DEFINE r == [from |-> fromBlock, to |-> toBlock]
           fs == futs \cup {r}
<1>1. /\ head' = head /\ events' = events /\ tree' = tree /\ inFlight' = inFlight \cup {r}
      /\ latestProcessedBlock' = latestProcessedBlock /\ pollRange' = pollRange
      /\ metadata' = metadata /\ sync = "delay"
  BY DEF SyncFetch, chain
<1>2. /\ fromBlock \in Nat /\ fromBlock <= head + 1 /\ toBlock \in Nat /\ toBlock <= head
      /\ head \in Nat /\ events \subseteq Nat
      /\ currentLatestBlock \in Nat /\ currentLatestBlock <= head
  BY <1>1 DEF IInv, Types, Syncing
<1>3. inFlight \subseteq futs /\ Accounted(fromBlock - 1, events, tree, abandoned, inFlight)
  BY <1>1 DEF IInv, SyncAccounted, Syncing, AccountedUpTo
<1>4. Accounted(toBlock, events, tree, abandoned, inFlight')
  BY <1>1, <1>2, <1>3, AccountedFetched
<1>5. \A q \in inFlight : Accounted(q.to, events, tree, abandoned, inFlight')
  BY <1>1 DEF IInv, InFlightAccounted, AccountedUpTo, Accounted
<1>6. r.from = fromBlock /\ r.to = toBlock
  OBVIOUS
<1>7. \A q \in inFlight' : q.from \in Nat /\ q.to \in Nat /\ q.to <= head
                           /\ Accounted(q.to, events, tree, abandoned, inFlight')
  <2> SUFFICES ASSUME NEW q \in inFlight'
               PROVE  q.from \in Nat /\ q.to \in Nat /\ q.to <= head
                      /\ Accounted(q.to, events, tree, abandoned, inFlight')
    OBVIOUS
  <2>1. CASE q \in inFlight
    BY <2>1, <1>5 DEF IInv, Types
  <2>2. CASE q = r
    BY <2>2, <1>2, <1>4, <1>6
  <2> QED  BY <2>1, <2>2, <1>1
<1> HIDE DEF r
<1>8. /\ metadata'.block \in Nat /\ metadata'.block <= head
      /\ \A e \in events : Deployed < e /\ e <= metadata'.block => e \in tree \cup abandoned
  BY <1>1 DEF IInv, Types, MetadataAccounted
<1>9. CASE AwaitsFuts(fs)
  <2>1. /\ sync' = "await" /\ futs' = fs /\ fromBlock' = fromBlock /\ toBlock' = toBlock
        /\ currentLatestBlock' = currentLatestBlock /\ poll' = poll
        /\ abandoned' = abandoned
    BY <1>9 DEF SyncFetch, r
  <2>2. Types'
    BY <1>1, <1>2, <1>7, <2>1 DEF IInv, Types, Syncing
  <2>3. ProcessedAccounted'
    BY <1>1, <2>1 DEF IInv, ProcessedAccounted, AccountedUpTo, Accounted
  <2>4. InFlightAccounted'
    BY <1>1, <1>7, <2>1 DEF InFlightAccounted, AccountedUpTo
  <2>5. Accounted(fromBlock - 1, events, tree, abandoned, inFlight')
    BY <1>1, <1>3 DEF Accounted
  <2>6. SyncAccounted'
    BY <1>1, <1>3, <1>4, <2>1, <2>5 DEF SyncAccounted, Syncing, AccountedUpTo
  <2>7. ListeningAbandoned' /\ PollAccounted'
    BY <1>1, <2>1 DEF IInv, ListeningAbandoned, PollAccounted
  <2>8. MetadataAccounted'
    BY <1>1, <2>1 DEF IInv, MetadataAccounted
  <2> QED  BY <2>2, <2>3, <2>4, <2>6, <2>7, <2>8 DEF IInv
<1>10. CASE ~AwaitsFuts(fs)
  <2>1. LoopTop(toBlock + 1, currentLatestBlock, fs)
    BY <1>10 DEF SyncFetch, r
  <2>2. inFlight' \subseteq fs /\ inFlight \subseteq inFlight'
    BY <1>1, <1>3
  <2>3. toBlock + 1 \in Nat /\ toBlock + 1 <= head + 1 /\ (toBlock + 1) - 1 = toBlock
    BY <1>2
  <2>4. Accounted((toBlock + 1) - 1, events, tree, abandoned, inFlight')
    BY <1>4, <2>3
  <2> HIDE DEF fs
  <2> QED  BY <1>1, <1>2, <1>7, <1>8, <2>1, <2>2, <2>3, <2>4, LoopTopPreserves
<1> QED  BY <1>9, <1>10

LEMMA SyncAwaitedPreserves == IInv /\ SyncAwaited => IInv'
<1> SUFFICES ASSUME IInv, SyncAwaited  PROVE IInv'
  OBVIOUS
<1>1. /\ head' = head /\ events' = events /\ tree' = tree /\ inFlight' = inFlight
      /\ latestProcessedBlock' = latestProcessedBlock /\ pollRange' = pollRange
      /\ sync = "await" /\ LoopTop(toBlock + 1, currentLatestBlock, {})
      /\ futs \cap inFlight = {}
      /\ metadata' \in {metadata, [block |-> toBlock, roots |-> window.roots]}
  BY DEF SyncAwaited, chain, SetMetadata, BlockAwaited
<1>2. inFlight = {}
  BY <1>1 DEF IInv, SyncAccounted, Syncing
<1>3. /\ toBlock \in Nat /\ toBlock <= head /\ head \in Nat
      /\ currentLatestBlock \in Nat /\ currentLatestBlock <= head
  BY DEF IInv, Types
<1>4. Accounted(toBlock, events, tree, abandoned, inFlight')
  BY <1>1 DEF IInv, SyncAccounted, AccountedUpTo
<1>5. metadata'.block \in {metadata.block, toBlock}
  BY <1>1
<1>6. /\ metadata'.block \in Nat /\ metadata'.block <= head
      /\ \A e \in events : Deployed < e /\ e <= metadata'.block => e \in tree \cup abandoned
  <2>1. CASE metadata'.block = metadata.block
    BY <2>1 DEF IInv, Types, MetadataAccounted
  <2>2. CASE metadata'.block = toBlock
    BY <2>2, <1>1, <1>2, <1>3, <1>4 DEF Accounted
  <2> QED  BY <1>5, <2>1, <2>2
<1>7. toBlock + 1 \in Nat /\ toBlock + 1 <= head + 1 /\ (toBlock + 1) - 1 = toBlock
  BY <1>3
<1>8. Accounted((toBlock + 1) - 1, events, tree, abandoned, inFlight')
  BY <1>4, <1>7
<1> QED  BY <1>1, <1>2, <1>3, <1>6, <1>7, <1>8, LoopTopPreserves

LEMMA RangeAnsweredPreserves ==
  ASSUME IInv, NEW r \in inFlight, RangeAnswered(r)
  PROVE  IInv'
<1>1. /\ head' = head /\ events' = events /\ abandoned' = abandoned
      /\ tree' = tree \cup (events \cap (r.from..r.to)) /\ inFlight' = inFlight \ {r}
      /\ latestProcessedBlock' = r.to /\ metadata' = metadata /\ sync' = sync
      /\ fromBlock' = fromBlock /\ toBlock' = toBlock /\ futs' = futs
      /\ currentLatestBlock' = currentLatestBlock /\ poll' = poll
      /\ pollRange' = pollRange
  BY DEF RangeAnswered, HandleRange, chain, syncVars, pollVars
<1>2. sync # "off"
  BY DEF IInv, ListeningAbandoned
<1>3. r.from \in Nat /\ r.to \in Nat /\ r.to <= head
  BY DEF IInv, Types
<1>4. \A n : AccountedUpTo(n) => Accounted(n, events', tree', abandoned', inFlight')
  BY <1>1, AccountedAnswered DEF AccountedUpTo
<1>5. Types'
  BY <1>1, <1>3 DEF IInv, Types, Syncing
<1>6. ProcessedAccounted'
  <2>1. AccountedUpTo(r.to)
    BY DEF IInv, InFlightAccounted
  <2> QED  BY <1>1, <1>4, <2>1 DEF ProcessedAccounted, AccountedUpTo
<1>7. InFlightAccounted'
  BY <1>1, <1>4 DEF IInv, InFlightAccounted, AccountedUpTo
<1>8. SyncAccounted'
  <2>1. Syncing => inFlight' \subseteq futs' /\ AccountedUpTo(fromBlock - 1)
    BY <1>1 DEF IInv, SyncAccounted
  <2>2. sync = "await" => AccountedUpTo(toBlock)
    BY DEF IInv, SyncAccounted
  <2>3. sync # "latest"
    BY DEF IInv, SyncAccounted
  <2> QED  BY <1>1, <1>4, <2>1, <2>2, <2>3 DEF SyncAccounted, Syncing, AccountedUpTo
<1>9. ListeningAbandoned'
  BY <1>1, <1>2 DEF IInv, ListeningAbandoned
<1>10. PollAccounted'
  BY <1>1, <1>4 DEF IInv, PollAccounted, AccountedUpTo
<1>11. MetadataAccounted'
  BY <1>1 DEF IInv, MetadataAccounted
<1> QED  BY <1>5, <1>6, <1>7, <1>8, <1>9, <1>10, <1>11 DEF IInv

LEMMA PollNumberPreserves == IInv /\ PollNumber => IInv'
<1> SUFFICES ASSUME IInv, PollNumber  PROVE IInv'
  OBVIOUS
<1>1. /\ head' = head /\ events' = events /\ tree' = tree /\ abandoned' = abandoned
      /\ inFlight' = inFlight /\ metadata' = metadata /\ futs' = futs
      /\ fromBlock' = fromBlock /\ toBlock' = toBlock /\ sync' = sync
      /\ currentLatestBlock' = currentLatestBlock
      /\ latestProcessedBlock' = latestProcessedBlock
      /\ poll = "number" /\ poll' = "events"
      /\ pollRange' = [from |-> latestProcessedBlock + 1, to |-> head]
  BY DEF PollNumber, chain, syncVars
<1>2. sync = "listening"
  BY <1>1 DEF IInv, ListeningAbandoned
<1>3. latestProcessedBlock \in Nat /\ latestProcessedBlock <= head /\ head \in Nat
  BY <1>2 DEF IInv, Types
<1>4. pollRange'.from = latestProcessedBlock + 1 /\ pollRange'.to = head
  BY <1>1
<1>5. Types'
  BY <1>1, <1>2, <1>3, <1>4 DEF IInv, Types, Syncing
<1>6. pollRange'.from - 1 = latestProcessedBlock
  BY <1>3, <1>4
<1>7. PollAccounted'
  BY <1>1, <1>2, <1>6 DEF IInv, PollAccounted, ProcessedAccounted, AccountedUpTo
<1> QED
  BY <1>1, <1>2, <1>5, <1>7 DEF IInv, ProcessedAccounted, InFlightAccounted, SyncAccounted,
     ListeningAbandoned, MetadataAccounted, Syncing, AccountedUpTo

LEMMA PollAnsweredPreserves == IInv /\ PollAnswered => IInv'
<1> SUFFICES ASSUME IInv, PollAnswered  PROVE IInv'
  OBVIOUS
<1> DEFINE m == pollRange.from
           k == pollRange.to
<1>1. /\ head' = head /\ events' = events /\ abandoned' = abandoned
      /\ tree' = tree \cup (events \cap (m..k))
      /\ inFlight' = inFlight /\ futs' = futs
      /\ fromBlock' = fromBlock /\ toBlock' = toBlock /\ sync' = sync
      /\ currentLatestBlock' = currentLatestBlock /\ latestProcessedBlock' = k
      /\ poll = "events" /\ poll' = "metadata" /\ pollRange' = pollRange
      /\ metadata' = metadata
  BY DEF PollAnswered, HandleRange, chain, syncVars
<1>2. sync = "listening" /\ \A r \in inFlight : r.from..r.to \subseteq abandoned
  BY <1>1 DEF IInv, ListeningAbandoned
<1>3. /\ m \in Nat /\ m <= head + 1 /\ k \in Nat /\ k <= head /\ head \in Nat
      /\ events \subseteq Nat
  BY DEF IInv, Types
<1>4. Accounted(m - 1, events, tree, abandoned, inFlight)
  BY <1>1 DEF IInv, PollAccounted, AccountedUpTo
<1> HIDE DEF m, k
<1>6. Accounted(k, events', tree', abandoned', inFlight')
  BY <1>1, <1>3, <1>4, AccountedHandled
<1>7. \A n : AccountedUpTo(n) => Accounted(n, events', tree', abandoned', inFlight')
  BY <1>1 DEF AccountedUpTo, Accounted
<1>8. Types'
  BY <1>1, <1>2, <1>3 DEF IInv, Types, Syncing
<1>9. ProcessedAccounted'
  BY <1>1, <1>6 DEF ProcessedAccounted, AccountedUpTo
<1>10. InFlightAccounted'
  BY <1>1, <1>7 DEF IInv, InFlightAccounted, AccountedUpTo
<1>11. SyncAccounted' /\ PollAccounted'
  BY <1>1, <1>2 DEF SyncAccounted, PollAccounted, Syncing
<1>12. ListeningAbandoned'
  BY <1>1, <1>2 DEF ListeningAbandoned
<1>13. MetadataAccounted'
  BY <1>1 DEF IInv, MetadataAccounted
<1> QED  BY <1>8, <1>9, <1>10, <1>11, <1>12, <1>13 DEF IInv

LEMMA PollMetadataPreserves == IInv /\ PollMetadata => IInv'
<1> SUFFICES ASSUME IInv, PollMetadata  PROVE IInv'
  OBVIOUS
<1>1. /\ head' = head /\ events' = events /\ tree' = tree /\ abandoned' = abandoned
      /\ inFlight' = inFlight /\ futs' = futs
      /\ fromBlock' = fromBlock /\ toBlock' = toBlock /\ sync' = sync
      /\ currentLatestBlock' = currentLatestBlock
      /\ latestProcessedBlock' = latestProcessedBlock
      /\ poll = "metadata" /\ poll' = "number" /\ pollRange' = pollRange
      /\ metadata' \in {metadata, [block |-> latestProcessedBlock, roots |-> window.roots]}
  BY DEF PollMetadata, SetMetadata, chain, syncVars
<1>2. sync = "listening" /\ \A r \in inFlight : r.from..r.to \subseteq abandoned
  BY <1>1 DEF IInv, ListeningAbandoned
<1>3. metadata'.block \in {metadata.block, latestProcessedBlock}
  BY <1>1
<1>4. Types'
  BY <1>1, <1>2, <1>3 DEF IInv, Types, Syncing
<1>5. MetadataAccounted'
  <2>1. CASE metadata'.block = metadata.block
    BY <1>1, <2>1 DEF IInv, MetadataAccounted
  <2>2. CASE metadata'.block = latestProcessedBlock
    BY <1>1, <1>2, <2>2
    DEF IInv, ProcessedAccounted, AccountedUpTo, MetadataAccounted, Accounted
  <2> QED  BY <1>3, <2>1, <2>2
<1> QED
  BY <1>1, <1>2, <1>4, <1>5 DEF IInv, ProcessedAccounted, InFlightAccounted,
     SyncAccounted, ListeningAbandoned, PollAccounted, Syncing, AccountedUpTo

LEMMA CrashPreserves == IInv /\ Crash => IInv'
<1> SUFFICES ASSUME IInv, Crash  PROVE IInv'
  OBVIOUS
<1>1. /\ head' = head /\ events' = events /\ tree' = tree /\ abandoned' = abandoned
      /\ inFlight' = {} /\ metadata' = metadata /\ toBlock' = toBlock
      /\ currentLatestBlock' = currentLatestBlock /\ pollRange' = pollRange
      /\ sync' = "off" /\ poll' = "off"
  BY DEF Crash, chain
<1>2. Types'
  BY <1>1 DEF IInv, Types, Syncing
<1> QED
  BY <1>1, <1>2 DEF IInv, ProcessedAccounted, InFlightAccounted, SyncAccounted,
     ListeningAbandoned, PollAccounted, MetadataAccounted, Syncing

LEMMA MinePreserves ==
  ASSUME IInv, NEW registers \in BOOLEAN, Mine(registers)
  PROVE  IInv'
<1>1. /\ head' = head + 1 /\ events' \subseteq events \cup {head + 1} /\ tree' = tree
      /\ abandoned' = abandoned /\ inFlight' = inFlight /\ metadata' = metadata
      /\ fromBlock' = fromBlock /\ toBlock' = toBlock /\ futs' = futs /\ sync' = sync
      /\ currentLatestBlock' = currentLatestBlock /\ poll' = poll
      /\ pollRange' = pollRange /\ latestProcessedBlock' = latestProcessedBlock
  BY DEF Mine, syncVars, pollVars
<1>2. head \in Nat /\ metadata.block \in Nat /\ metadata.block <= head
  BY DEF IInv, Types
<1>3. \A n \in Int : n <= head /\ AccountedUpTo(n)
        => Accounted(n, events', tree', abandoned', inFlight')
  BY <1>1, <1>2, AccountedMined DEF AccountedUpTo
<1>4. Types'
  BY <1>1, <1>2, SyncAssumption DEF IInv, Types, Syncing
<1>5. ProcessedAccounted'
  BY <1>1, <1>3 DEF IInv, Types, ProcessedAccounted, AccountedUpTo
<1>6. InFlightAccounted'
  BY <1>1, <1>3 DEF IInv, Types, InFlightAccounted, AccountedUpTo
<1>7. SyncAccounted'
  <2>1. Syncing => fromBlock - 1 \in Int /\ fromBlock - 1 <= head
    BY <1>2 DEF IInv, Types
  <2>2. toBlock \in Int /\ toBlock <= head
    BY DEF IInv, Types
  <2> QED  BY <1>1, <1>3, <2>1, <2>2 DEF IInv, SyncAccounted, Syncing, AccountedUpTo
<1>8. ListeningAbandoned'
  BY <1>1 DEF IInv, ListeningAbandoned
<1>9. PollAccounted'
  <2>1. pollRange.from - 1 \in Int /\ pollRange.from - 1 <= head
    BY <1>2 DEF IInv, Types
  <2> QED  BY <1>1, <1>3, <2>1 DEF IInv, PollAccounted, AccountedUpTo
<1>10. MetadataAccounted'
  BY <1>1, <1>2 DEF IInv, MetadataAccounted
<1> QED  BY <1>4, <1>5, <1>6, <1>7, <1>8, <1>9, <1>10 DEF IInv

LEMMA StutterPreserves == IInv /\ UNCHANGED vars => IInv'
  BY DEF IInv, Types, ProcessedAccounted, InFlightAccounted, SyncAccounted,
     ListeningAbandoned, PollAccounted, MetadataAccounted, Syncing, AccountedUpTo,
     vars, chain, syncVars, pollVars

\* The accounting is inductive: a case for each action.
LEMMA IInvHolds == Spec => []IInv
<1>1. IInv /\ [Next]_vars => IInv'
  <2> SUFFICES ASSUME IInv, [Next]_vars  PROVE IInv'
    OBVIOUS
  <2>1. CASE Start
    BY <2>1, StartPreserves
  <2>2. CASE SyncLatest
    BY <2>2, SyncLatestPreserves
  <2>3. CASE SyncRefetch
    BY <2>3, SyncRefetchPreserves
  <2>4. CASE SyncFetch
    BY <2>4, SyncFetchPreserves
  <2>5. CASE SyncAwaited
    BY <2>5, SyncAwaitedPreserves
  <2>6. ASSUME NEW r \in inFlight, RangeAnswered(r)  PROVE IInv'
    BY <2>6, RangeAnsweredPreserves
  <2>7. CASE PollNumber
    BY <2>7, PollNumberPreserves
  <2>8. CASE PollAnswered
    BY <2>8, PollAnsweredPreserves
  <2>9. CASE PollMetadata
    BY <2>9, PollMetadataPreserves
  <2>10. CASE Crash
    BY <2>10, CrashPreserves
  <2>11. ASSUME NEW registers \in BOOLEAN, Mine(registers)  PROVE IInv'
    BY <2>11, MinePreserves
  <2>12. CASE UNCHANGED vars
    BY <2>12, StutterPreserves
  <2> QED
    BY <2>1, <2>2, <2>3, <2>4, <2>5, <2>6, <2>7, <2>8, <2>9, <2>10, <2>11, <2>12
    DEF Next
<1> QED  BY <1>1, InitEstablishes, PTL DEF Spec

-----------------------------------------------------------------------------
\* After a crash between any two steps, a restart, which resumes after the
\* block in the metadata, misses no registration up to that block except in
\* ranges that startOnchainSync did not await: for every chunk size, number
\* of concurrent ranges, order of answers and number of crashes.
THEOREM RestartIsSafe == Spec => []RestartLosesOnlyAbandoned
<1>1. IInv => RestartLosesOnlyAbandoned
  BY DEF IInv, MetadataAccounted, RestartLosesOnlyAbandoned, MembersUpTo
<1> QED  BY <1>1, IInvHolds, PTL
-----------------------------------------------------------------------------
(* The window of roots: its shape, and what its newest root stands for.    *)

\* The root queues the manager can hold.
Windows == [roots : RootSeqs, buffer : RootSeqs]

\* What TypeOK needs of the sync's locals.
Shape ==
  /\ TypeOK
  /\ window \in Windows
  /\ metadata \in [block : Nat, roots : RootSeqs]
  /\ (Syncing => Deployed <= fromBlock)
  /\ (sync = "refetch" => fromBlock <= currentLatestBlock)
  /\ (sync \in {"delay", "await"} => fromBlock <= toBlock)

\* The block a restart would fetch first.
Resumption == FirstBlock(Max2(metadata.block, Deployed))

\* The newest root of q is that of tree t.
LastIs(q, t) == Len(q) > 0 /\ q[Len(q)] = t

\* Block e is yet to be handled, for the first time or again.
Pending(e) ==
  \/ \E r \in inFlight : e \in r.from..r.to
  \/ sync \in {"latest", "refetch", "delay"} /\ e >= fromBlock
  \/ sync = "await" /\ e > toBlock
  \/ poll \in {"number", "metadata"} /\ e > latestProcessedBlock
  \/ poll = "events" /\ e >= pollRange.from

\* The sync's ranges follow each other, and nothing is fetched before its time.
Advancing ==
  /\ (tree # {} \/ inFlight # {} \/ sync \in {"refetch", "delay", "await"} => Deployed < head)
  /\ (sync # "off" => Deployed <= latestProcessedBlock)
  /\ (sync = "listening" => poll # "off")
  /\ \A r \in inFlight : r.from <= r.to
  /\ (sync \in {"latest", "refetch", "delay"} =>
        /\ \A r \in inFlight : r.to < fromBlock
        /\ (latestProcessedBlock < fromBlock
              \/ (fromBlock = Deployed /\ latestProcessedBlock = Deployed)))
  /\ (sync = "await" =>
        /\ \A r \in inFlight : r.to <= toBlock
        /\ latestProcessedBlock <= toBlock)

\* Nothing is fetched below the block a restart would begin with, unless it
\* is in the tree.
AboveMetadata ==
  /\ (Syncing => Resumption <= fromBlock /\ \A r \in inFlight : Resumption <= r.from)
  /\ (poll = "events" => Deployed < pollRange.from /\ pollRange.from <= pollRange.to)

\* The newest root is that of the tree, or a block in the tree will be
\* handled again.
MetadataFresh ==
  abandoned = {} =>
    tree = {} \/ LastIs(metadata.roots, tree) \/ \E e \in tree : Resumption <= e

\* The same for the window in memory, while the node runs.
WindowFresh ==
  abandoned = {} /\ sync # "off" =>
    tree = {} \/ LastIs(window.roots, tree) \/ \E e \in tree : Pending(e)

\* A window with a root slid in keeps its size, and that root is its newest.
LEMMA SlideFacts ==
  ASSUME NEW R, NEW w \in [roots : Seq(R), buffer : Seq(R)],
         Len(w.roots) <= AcceptableRootWindowSize, NEW x \in R
  PROVE  /\ SlideRootQueue(w, x) \in [roots : Seq(R), buffer : Seq(R)]
         /\ Len(SlideRootQueue(w, x).roots) <= AcceptableRootWindowSize
         /\ LastIs(SlideRootQueue(w, x).roots, x)
<1> DEFINE n == OverflowCount(w.roots)
           q == w.roots
           A == AcceptableRootWindowSize
<1>1. q \in Seq(R) /\ Len(q) \in Nat /\ A \in Nat /\ A > 0 /\ n \in Int /\ n <= 1
      /\ n = Len(q) - A + 1
  BY WindowAssumption DEF OverflowCount
<1>2. CASE n > 0
  <2>1. n = 1 /\ Len(q) = A
    BY <1>1, <1>2
  <2>2. SlideRootQueue(w, x) = [roots |-> Append(SubSeq(q, 2, A), x), buffer |-> SubSeq(q, 1, 1)]
    BY <1>2, <2>1 DEF SlideRootQueue
  <2>3. SubSeq(q, 2, A) \in Seq(R) /\ Len(SubSeq(q, 2, A)) = A - 1 /\ SubSeq(q, 1, 1) \in Seq(R)
    BY <1>1, <2>1
  <2> DEFINE f == SubSeq(q, 2, A)
             g == SubSeq(q, 1, 1)
             v == SlideRootQueue(w, x)
  <2> HIDE DEF q, A, n, f, g, v
  <2>4. v = [roots |-> Append(f, x), buffer |-> g]
    BY <2>2 DEF f, g, v
  <2>5. v.roots = Append(f, x)
    BY <2>4
  <2>6. f \in Seq(R) /\ Len(f) = A - 1 /\ g \in Seq(R)
    BY <2>3 DEF f, g
  <2>7. Append(f, x) \in Seq(R) /\ Len(Append(f, x)) = A /\ Append(f, x)[A] = x
    BY <1>1, <2>6
  <2>8. v \in [roots : Seq(R), buffer : Seq(R)] /\ Len(v.roots) <= A /\ LastIs(v.roots, x)
    BY <1>1, <2>4, <2>5, <2>6, <2>7 DEF LastIs
  <2> QED  BY <2>8 DEF v, A
<1>3. CASE ~(n > 0)
  <2>1. SlideRootQueue(w, x) = [roots |-> Append(q, x), buffer |-> <<>>]
    BY <1>3 DEF SlideRootQueue
  <2>2. Len(q) < A
    BY <1>1, <1>3
  <2> HIDE DEF q, A, n
  <2> QED  BY <1>1, <2>1, <2>2 DEF LastIs, A
<1> QED  BY <1>2, <1>3

\* Handling a range keeps the window's size; with an event in the range the
\* newest root is then that of the tree with all the range's members.
LEMMA HandleEventsFacts ==
  ASSUME NEW w \in Windows, Len(w.roots) <= AcceptableRootWindowSize,
         events \subseteq Blocks, tree \subseteq Blocks,
         NEW r, r.from \in Nat \ {0}, r.to \in Nat
  PROVE  /\ HandleEvents(w, r) \in Windows
         /\ Len(HandleEvents(w, r).roots) <= AcceptableRootWindowSize
         /\ events \cap (r.from..r.to) # {}
              => LastIs(HandleEvents(w, r).roots, tree \cup (events \cap (r.from..r.to)))
         /\ events \cap (r.from..r.to) = {} => HandleEvents(w, r) = w
<1> DEFINE Root(b) == tree \cup (events \cap (r.from..b))
           Body(g, b) == IF b < r.from THEN w
                         ELSE IF b \in events THEN SlideRootQueue(g[b - 1], Root(b))
                              ELSE g[b - 1]
           Small == {v \in Windows : Len(v.roots) <= AcceptableRootWindowSize}
           Step(n, v) == IF n + 1 < r.from THEN w
                         ELSE IF n + 1 \in events THEN SlideRootQueue(v, Root(n + 1))
                              ELSE v
           H == [n \in Nat |-> [v \in Small |-> Step(n, v)]]
           After == CHOOSE g : g = [b \in Nat |-> Body(g, b)]
<1>1. HandleEvents(w, r) = After[r.to]
  BY DEF HandleEvents
<1>2. \A v \in Small : \A b \in Nat : SlideRootQueue(v, Root(b)) \in Small
                                      /\ LastIs(SlideRootQueue(v, Root(b)).roots, Root(b))
  <2> SUFFICES ASSUME NEW v \in Small, NEW b \in Nat
               PROVE  SlideRootQueue(v, Root(b)) \in Small
                      /\ LastIs(SlideRootQueue(v, Root(b)).roots, Root(b))
    OBVIOUS
  <2>1. Root(b) \in SUBSET Blocks
    OBVIOUS
  <2>2. v \in [roots : Seq(SUBSET Blocks), buffer : Seq(SUBSET Blocks)]
        /\ Len(v.roots) <= AcceptableRootWindowSize
    BY DEF Windows, RootSeqs
  <2> HIDE DEF Root
  <2> QED  BY <2>1, <2>2, SlideFacts DEF Windows, RootSeqs
<1>3. w \in Small
  OBVIOUS
<1>4. H \in [Nat -> [Small -> Small]]
  <2>1. \A n \in Nat, v \in Small : Step(n, v) \in Small
    <3> HIDE DEF Small, Root
    <3> QED  BY <1>2, <1>3
  <2> HIDE DEF Small, Step
  <2> QED  BY <2>1
<1>5. PICK f : Iterates(f, Small, w, H)
  <2> HIDE DEF H, Small
  <2> QED  BY <1>3, <1>4, Recursion
<1>6. f = [b \in Nat |-> Body(f, b)]
  <2>1. ASSUME NEW b \in Nat  PROVE f[b] = Body(f, b)
    <3>1. CASE b = 0
      <4>1. 0 < r.from
        OBVIOUS
      <4> QED  BY <1>5, <3>1, <4>1 DEF Iterates
    <3>2. CASE b # 0
      <4>1. b - 1 \in Nat /\ (b - 1) + 1 = b /\ f[b - 1] \in Small
        <5> HIDE DEF Small, H
        <5> QED  BY <1>5, <3>2 DEF Iterates
      <4>2. f[(b - 1) + 1] = H[b - 1][f[b - 1]]
        BY <1>5, <4>1 DEF Iterates
      <4>3. H[b - 1][f[b - 1]] = Step(b - 1, f[b - 1])
        <5> HIDE DEF Small, Step
        <5> QED  BY <4>1
      <4>4. Step(b - 1, f[b - 1]) = Body(f, b)
        <5> HIDE DEF Small, Root
        <5> QED  BY <4>1
      <4> HIDE DEF H, Step, Body
      <4> QED  BY <4>1, <4>2, <4>3, <4>4
    <3> QED  BY <3>1, <3>2
  <2> HIDE DEF Body
  <2> QED  BY <1>5, <2>1 DEF Iterates
<1>7. After = [b \in Nat |-> Body(After, b)]
  <2> HIDE DEF Body
  <2> QED  BY <1>6, Zenon
<1> HIDE DEF After
<1> DEFINE Good(b) == /\ After[b] \in Small
                      /\ events \cap (r.from..b) # {} => LastIs(After[b].roots, Root(b))
                      /\ events \cap (r.from..b) = {} => After[b] = w
<1>8. \A b \in Nat : Good(b)
  <2> DEFINE S == {b \in Nat : Good(b)}
  <2>1. \A b \in Nat : After[b] = Body(After, b)
    <3> HIDE DEF Body
    <3> QED  BY <1>7
  <2>2. ASSUME NEW b \in Nat, b < r.from  PROVE Good(b)
    <3>1. After[b] = w
      BY <2>1, <2>2
    <3>2. events \cap (r.from..b) = {}
      BY <2>2
    <3> HIDE DEF Small
    <3> QED  BY <1>3, <3>1, <3>2
  <2>3. 0 \in S
    <3> HIDE DEF Good
    <3> QED  BY <2>2
  <2>4. ASSUME NEW b \in Nat, b \in S  PROVE b + 1 \in S
    <3>1. CASE b + 1 < r.from
      <4> HIDE DEF Good
      <4> QED  BY <2>2, <3>1
    <3>2. CASE ~(b + 1 < r.from) /\ b + 1 \in events
      <4> DEFINE c == b + 1
      <4>0. c \in Nat /\ c - 1 = b
        OBVIOUS
      <4>1. After[c] = SlideRootQueue(After[b], Root(c))
        <5> HIDE DEF Root, Small
        <5>1. After[c] = Body(After, c)
          BY <2>1
        <5> QED  BY <4>0, <5>1, <3>2
      <4>2. After[b + 1] \in Small /\ LastIs(After[b + 1].roots, Root(b + 1))
        <5> HIDE DEF Small, Root
        <5> QED  BY <1>2, <2>4, <4>0, <4>1
      <4>3. c \in events \cap (r.from..c)
        BY <3>2
      <4> HIDE DEF Small, Root, c
      <4>4. Good(c)
        BY <4>2, <4>3 DEF c
      <4> QED  BY <4>0, <4>4 DEF c
    <3>3. CASE ~(b + 1 < r.from) /\ b + 1 \notin events
      <4> DEFINE c == b + 1
      <4>0. c \in Nat /\ c - 1 = b
        OBVIOUS
      <4>1. After[c] = After[b]
        <5> HIDE DEF Root, Small
        <5>1. After[c] = Body(After, c)
          BY <2>1
        <5> QED  BY <4>0, <5>1, <3>3
      <4>2. events \cap (r.from..c) = events \cap (r.from..b)
        BY <3>3, SyncAssumption DEF Blocks
      <4> HIDE DEF Small, c
      <4>3. Good(c)
        BY <2>4, <4>1, <4>2
      <4> QED  BY <4>0, <4>3 DEF c
    <3> QED  BY <3>1, <3>2, <3>3
  <2> HIDE DEF S
  <2>5. \A b \in Nat : b \in S
    BY <2>3, <2>4, SetInduction
  <2> QED  BY <2>5 DEF S
<1>9. Good(r.to)
  BY <1>8
<1> QED  BY <1>1, <1>9



\* What a call of HandleRange does to tree and window.
LEMMA HandleRangeFacts ==
  ASSUME Shape, NEW r, r.from \in Nat \ {0}, r.to \in Nat, HandleRange(r)
  PROVE  /\ window' \in Windows /\ Len(window'.roots) <= AcceptableRootWindowSize
         /\ tree' = tree \cup (events \cap (r.from..r.to))
         /\ latestProcessedBlock' = r.to
         /\ events \cap (r.from..r.to) # {} => LastIs(window'.roots, tree')
         /\ events \cap (r.from..r.to) = {} => window' = window /\ tree' = tree
<1>1. events \subseteq Blocks /\ tree \subseteq Blocks
  BY SyncAssumption DEF Shape, TypeOK, Blocks
<1>2. window \in Windows /\ Len(window.roots) <= AcceptableRootWindowSize
  BY DEF Shape, TypeOK
<1>3. /\ window' = HandleEvents(window, r)
      /\ tree' = tree \cup (events \cap (r.from..r.to))
      /\ latestProcessedBlock' = r.to
  BY DEF HandleRange
<1>4. events \cap (r.from..r.to) = {} => tree' = tree
  BY <1>3
<1> QED  BY <1>1, <1>2, <1>3, <1>4, HandleEventsFacts

\* The metadata after setMetadata: as it was, or of a given block and the window.
LEMMA MetadataWritten ==
  ASSUME Shape, NEW b \in Nat, b <= head,
         metadata' \in {metadata, [block |-> b, roots |-> window.roots]}
  PROVE  /\ metadata' \in [block : Nat, roots : RootSeqs] /\ metadata'.block <= head
         /\ Len(metadata'.roots) <= AcceptableRootWindowSize
<1>1. CASE metadata' = metadata
  BY <1>1, SyncAssumption DEF Shape, TypeOK, Blocks
<1>2. CASE metadata' = [block |-> b, roots |-> window.roots]
  BY <1>2 DEF Shape, TypeOK
<1> QED  BY <1>1, <1>2

\* A handled range keeps the shape of tree, window and last processed block.
LEMMA HandledShape ==
  ASSUME Shape, NEW r, r.from \in Nat \ {0}, r.to \in Nat, r.to <= head, HandleRange(r),
         head' = head, events' = events, metadata' = metadata, sync' = sync,
         fromBlock' = fromBlock, toBlock' = toBlock, futs' = futs,
         currentLatestBlock' = currentLatestBlock,
         poll' \in {"off", "number", "events", "metadata"},
         pollRange' = pollRange, abandoned' = abandoned, crashes' = crashes,
         inFlight' \subseteq inFlight
  PROVE  Shape'
<1>1. /\ window' \in Windows /\ Len(window'.roots) <= AcceptableRootWindowSize
      /\ tree' = tree \cup (events \cap (r.from..r.to))
      /\ latestProcessedBlock' = r.to
  BY HandleRangeFacts
<1>2. window'.roots \in RootSeqs /\ window'.buffer \in RootSeqs
  BY <1>1 DEF Windows
<1>3. tree' \in SUBSET events' /\ latestProcessedBlock' \in 0..head'
  <2>1. tree \in SUBSET events /\ head \in Nat
    BY SyncAssumption DEF Shape, TypeOK, Blocks
  <2> QED  BY <1>1, <2>1
<1>4. TypeOK'
  BY <1>1, <1>2, <1>3 DEF Shape, TypeOK
<1> QED  BY <1>1, <1>4 DEF Shape, Syncing

\* Shape when a step leaves window and metadata, or sets them to good values.
LEMMA LoopTopShape ==
  ASSUME Shape, NEW from \in Nat, Deployed <= from, from <= head + 1,
         NEW latest \in 0..head, NEW fs \in SUBSET Ranges, LoopTop(from, latest, fs),
         inFlight' \in SUBSET Ranges,
         head' = head, events' = events, tree' = tree, window' = window,
         latestProcessedBlock' = latestProcessedBlock, pollRange' = pollRange,
         crashes' = crashes,
         metadata' \in [block : Nat, roots : RootSeqs], metadata'.block <= head,
         Len(metadata'.roots) <= AcceptableRootWindowSize
  PROVE  Shape'
<1> USE SyncAssumption
<1>1. /\ head \in Nat /\ Deployed <= head /\ head <= MaxBlock /\ toBlock \in 0..head
      /\ abandoned \in SUBSET Blocks /\ poll \in {"off", "number", "events", "metadata"}
  BY DEF Shape, TypeOK, Blocks
<1>2. fromBlock' = from /\ currentLatestBlock' = latest /\ futs' = fs
  BY DEF LoopTop
<1>3. BlocksOf(fs \cap inFlight') \in SUBSET Blocks
  BY DEF BlocksOf, Ranges, Blocks
<1>4. /\ toBlock' \in 0..head /\ abandoned' \in SUBSET Blocks
      /\ poll' \in {"off", "number", "events", "metadata"}
      /\ sync' \in {"listening", "refetch", "delay"}
      /\ (sync' = "refetch" => from <= latest)
      /\ (sync' = "delay" => from <= toBlock')
  <2>1. CASE from >= latest
    BY <2>1, <1>1, <1>3 DEF LoopTop
  <2>2. CASE ~(from >= latest)
    <3>1. /\ sync' = IF from + BlockChunkSize > latest THEN "refetch" ELSE "delay"
          /\ toBlock' = Min2(from + BlockChunkSize, latest)
          /\ poll' = poll /\ abandoned' = abandoned
      BY <2>2 DEF LoopTop
    <3>2. toBlock' \in 0..head /\ from <= toBlock' /\ from <= latest
      BY <1>1, <2>2, <3>1 DEF Min2
    <3> QED  BY <1>1, <3>1, <3>2
  <2> QED  BY <2>1, <2>2
<1>5. metadata'.block \in 0..head /\ metadata'.roots \in RootSeqs
  <2>1. metadata'.block \in Nat /\ metadata'.roots \in RootSeqs
    OBVIOUS
  <2> QED  BY <1>1, <2>1
<1>6. from \in 0..(MaxBlock + 1)
  BY <1>1
<1>7. TypeOK'
  BY <1>2, <1>4, <1>5, <1>6 DEF Shape, TypeOK
<1> QED
  BY <1>2, <1>4, <1>7 DEF Shape, Syncing

\* Each action keeps the shape of the state.
LEMMA ShapeInit == Init => Shape
<1> SUFFICES ASSUME Init  PROVE Shape
  OBVIOUS
<1> USE SyncAssumption, WindowAssumption
<1>1. <<>> \in RootSeqs /\ Len(<<>>) = 0
  BY DEF RootSeqs
<1>2. metadata = [block |-> 0, roots |-> <<>>] /\ window = [roots |-> <<>>, buffer |-> <<>>]
  BY DEF Init, NoMetadata, EmptyWindow
<1>3. metadata \in [block : Nat, roots : RootSeqs] /\ window \in Windows
  BY <1>1, <1>2 DEF Windows
<1>4. /\ metadata.block = 0 /\ metadata.roots = <<>>
      /\ window.roots = <<>> /\ window.buffer = <<>>
  BY <1>2
<1>5. TypeOK
  BY <1>1, <1>4 DEF Init, TypeOK, Blocks, Ranges
<1> QED  BY <1>3, <1>5 DEF Shape, Init, Syncing

LEMMA ShapeStart == Shape /\ Start => Shape'
<1> SUFFICES ASSUME Shape, Start  PROVE Shape'
  OBVIOUS
<1> USE SyncAssumption
<1> DEFINE m == metadata.block
           processed == Max2(m, Deployed)
<1>1. /\ head \in Nat /\ Deployed <= head /\ head <= MaxBlock /\ m \in 0..head
  BY DEF Shape, TypeOK, Blocks
<1>2. /\ window' = [roots |-> metadata.roots, buffer |-> <<>>]
      /\ latestProcessedBlock' = processed /\ fromBlock' = FirstBlock(processed)
      /\ sync' = "latest"
      /\ head' = head /\ events' = events /\ tree' = tree /\ metadata' = metadata
      /\ toBlock' = toBlock /\ currentLatestBlock' = currentLatestBlock /\ futs' = futs
      /\ inFlight' = inFlight /\ poll' = poll /\ pollRange' = pollRange
      /\ abandoned' = abandoned /\ crashes' = crashes
  BY DEF Start, chain, pollVars
<1>3. processed \in 0..head /\ processed >= Deployed
  BY <1>1 DEF Max2
<1>4. FirstBlock(processed) \in 0..(MaxBlock + 1) /\ Deployed <= FirstBlock(processed)
  <2> HIDE DEF processed
  <2> QED  BY <1>1, <1>3 DEF FirstBlock
<1> HIDE DEF processed, m
<1>5. /\ window' \in Windows /\ window'.roots = metadata.roots /\ window'.buffer = <<>>
      /\ window'.roots \in RootSeqs /\ window'.buffer \in RootSeqs
  BY <1>2 DEF Shape, TypeOK, Windows, RootSeqs
<1>6. TypeOK'
  BY <1>2, <1>3, <1>4, <1>5 DEF Shape, TypeOK
<1> QED  BY <1>2, <1>4, <1>5, <1>6 DEF Shape

LEMMA ShapeSyncLatest == IInv /\ Shape /\ SyncLatest => Shape'
<1> SUFFICES ASSUME IInv, Shape, SyncLatest  PROVE Shape'
  OBVIOUS
<1>1. /\ head' = head /\ events' = events /\ tree' = tree /\ inFlight' = inFlight
      /\ latestProcessedBlock' = latestProcessedBlock /\ pollRange' = pollRange
      /\ metadata' = metadata /\ window' = window /\ crashes' = crashes
      /\ sync = "latest" /\ LoopTop(fromBlock, head, {})
  BY DEF SyncLatest, chain
<1>2. fromBlock \in Nat /\ Deployed <= fromBlock /\ fromBlock <= head + 1
  BY <1>1 DEF IInv, Types, Syncing, Shape
<1>3. /\ head \in Nat /\ metadata \in [block : Nat, roots : RootSeqs]
      /\ metadata.block <= head /\ Len(metadata.roots) <= AcceptableRootWindowSize
      /\ inFlight \in SUBSET Ranges
  BY SyncAssumption DEF Shape, TypeOK, Blocks
<1>4. head \in 0..head /\ {} \in SUBSET Ranges
  BY <1>3
<1> QED  BY <1>1, <1>2, <1>3, <1>4, LoopTopShape

LEMMA ShapeSyncRefetch == IInv /\ Shape /\ SyncRefetch => Shape'
<1> SUFFICES ASSUME IInv, Shape, SyncRefetch  PROVE Shape'
  OBVIOUS
<1> USE SyncAssumption
<1>1. /\ head' = head /\ events' = events /\ tree' = tree /\ abandoned' = abandoned
      /\ inFlight' = inFlight /\ metadata' = metadata /\ futs' = futs /\ window' = window
      /\ fromBlock' = fromBlock /\ pollRange' = pollRange /\ poll' = poll
      /\ latestProcessedBlock' = latestProcessedBlock /\ crashes' = crashes
      /\ sync = "refetch" /\ sync' = "delay"
      /\ currentLatestBlock' = head /\ toBlock' = Min2(fromBlock + BlockChunkSize, head)
  BY DEF SyncRefetch, chain, pollVars
<1>2. /\ fromBlock \in Nat /\ head \in Nat /\ currentLatestBlock \in 0..head
      /\ Deployed <= fromBlock /\ fromBlock <= currentLatestBlock
  BY <1>1 DEF Shape, TypeOK, Syncing, Blocks
<1>3. toBlock' \in 0..head /\ fromBlock <= toBlock' /\ currentLatestBlock' \in 0..head
  BY <1>1, <1>2 DEF Min2
<1>4. TypeOK'
  BY <1>1, <1>3 DEF Shape, TypeOK
<1> QED  BY <1>1, <1>2, <1>3, <1>4 DEF Shape, Syncing

LEMMA ShapeSyncFetch == IInv /\ Shape /\ SyncFetch => Shape'
<1> SUFFICES ASSUME IInv, Shape, SyncFetch  PROVE Shape'
  OBVIOUS
<1> USE SyncAssumption
<1> DEFINE r == [from |-> fromBlock, to |-> toBlock]
           fs == futs \cup {r}
<1>1. /\ head' = head /\ events' = events /\ tree' = tree /\ inFlight' = inFlight \cup {r}
      /\ latestProcessedBlock' = latestProcessedBlock /\ pollRange' = pollRange
      /\ metadata' = metadata /\ window' = window /\ crashes' = crashes /\ sync = "delay"
  BY DEF SyncFetch, chain
<1>2. /\ fromBlock \in Nat /\ Deployed <= fromBlock /\ fromBlock <= toBlock
      /\ toBlock \in 0..head /\ head \in Nat /\ head <= MaxBlock
      /\ currentLatestBlock \in 0..head /\ futs \in SUBSET Ranges
      /\ inFlight \in SUBSET Ranges
      /\ metadata \in [block : Nat, roots : RootSeqs] /\ metadata.block <= head
      /\ Len(metadata.roots) <= AcceptableRootWindowSize
  BY <1>1 DEF Shape, TypeOK, Syncing, Blocks
<1>3. r \in Ranges
  BY <1>2 DEF Ranges, Blocks
<1>4. inFlight' \in SUBSET Ranges /\ fs \in SUBSET Ranges
  BY <1>1, <1>2, <1>3
<1>5. CASE AwaitsFuts(fs)
  <2>1. /\ sync' = "await" /\ futs' = fs /\ fromBlock' = fromBlock /\ toBlock' = toBlock
        /\ currentLatestBlock' = currentLatestBlock /\ poll' = poll
        /\ abandoned' = abandoned
    BY <1>5 DEF SyncFetch
  <2> HIDE DEF r, fs
  <2>2. TypeOK'
    BY <1>1, <1>4, <2>1 DEF Shape, TypeOK
  <2> QED  BY <1>1, <1>2, <2>1, <2>2 DEF Shape, Syncing
<1>6. CASE ~AwaitsFuts(fs)
  <2>1. LoopTop(toBlock + 1, currentLatestBlock, fs)
    BY <1>6 DEF SyncFetch
  <2>2. toBlock + 1 \in Nat /\ Deployed <= toBlock + 1 /\ toBlock + 1 <= head + 1
    BY <1>2
  <2> HIDE DEF r, fs
  <2> QED  BY <1>1, <1>2, <1>4, <2>1, <2>2, LoopTopShape
<1> QED  BY <1>5, <1>6

LEMMA ShapeSyncAwaited == IInv /\ Shape /\ SyncAwaited => Shape'
<1> SUFFICES ASSUME IInv, Shape, SyncAwaited  PROVE Shape'
  OBVIOUS
<1> USE SyncAssumption
<1>1. /\ head' = head /\ events' = events /\ tree' = tree /\ inFlight' = inFlight
      /\ latestProcessedBlock' = latestProcessedBlock /\ pollRange' = pollRange
      /\ sync = "await" /\ LoopTop(toBlock + 1, currentLatestBlock, {})
      /\ window' = window /\ crashes' = crashes
      /\ metadata' \in {metadata, [block |-> toBlock, roots |-> window.roots]}
  BY DEF SyncAwaited, chain, SetMetadata, BlockAwaited
<1>2. /\ fromBlock \in Nat /\ Deployed <= fromBlock /\ fromBlock <= toBlock
      /\ toBlock \in 0..head /\ head \in Nat
      /\ currentLatestBlock \in 0..head /\ inFlight \in SUBSET Ranges
  BY <1>1 DEF Shape, TypeOK, Syncing, Blocks
<1>3. toBlock + 1 \in Nat /\ Deployed <= toBlock + 1 /\ toBlock + 1 <= head + 1
  BY <1>2
<1>4. toBlock \in Nat /\ toBlock <= head
  BY <1>2
<1>5. /\ metadata' \in [block : Nat, roots : RootSeqs] /\ metadata'.block <= head
      /\ Len(metadata'.roots) <= AcceptableRootWindowSize
  BY <1>1, <1>4, MetadataWritten
<1>6. {} \in SUBSET Ranges
  OBVIOUS
<1> QED  BY <1>1, <1>2, <1>3, <1>5, <1>6, LoopTopShape

LEMMA ShapeRangeAnswered ==
  ASSUME IInv, Shape, NEW r \in inFlight, RangeAnswered(r)
  PROVE  Shape'
<1>1. /\ head' = head /\ events' = events /\ metadata' = metadata /\ sync' = sync
      /\ fromBlock' = fromBlock /\ toBlock' = toBlock /\ futs' = futs
      /\ currentLatestBlock' = currentLatestBlock /\ poll' = poll
      /\ pollRange' = pollRange /\ abandoned' = abandoned /\ crashes' = crashes
      /\ inFlight' = inFlight \ {r} /\ HandleRange(r)
  BY DEF RangeAnswered, chain, syncVars, pollVars
<1>2. r.from \in Nat \ {0} /\ r.to \in Nat /\ r.to <= head
  BY SyncAssumption DEF Shape, TypeOK, IInv, Types, Ranges, Blocks
<1> QED  BY <1>1, <1>2, HandledShape DEF Shape, TypeOK

LEMMA ShapePollNumber == IInv /\ Shape /\ PollNumber => Shape'
<1> SUFFICES ASSUME IInv, Shape, PollNumber  PROVE Shape'
  OBVIOUS
<1> USE SyncAssumption
<1>1. /\ head' = head /\ events' = events /\ tree' = tree /\ abandoned' = abandoned
      /\ inFlight' = inFlight /\ metadata' = metadata /\ futs' = futs
      /\ fromBlock' = fromBlock /\ toBlock' = toBlock /\ sync' = sync
      /\ currentLatestBlock' = currentLatestBlock /\ window' = window
      /\ latestProcessedBlock' = latestProcessedBlock /\ crashes' = crashes
      /\ poll' = "events" /\ head > latestProcessedBlock
      /\ pollRange' = [from |-> latestProcessedBlock + 1, to |-> head]
  BY DEF PollNumber, chain, syncVars
<1>2. latestProcessedBlock \in 0..head /\ head \in Nat /\ head <= MaxBlock
  BY DEF Shape, TypeOK, Blocks
<1>3. pollRange'.from \in 0..MaxBlock /\ pollRange'.to \in 0..head
  BY <1>1, <1>2
<1>4. TypeOK'
  BY <1>1, <1>3 DEF Shape, TypeOK
<1> QED  BY <1>1, <1>4 DEF Shape, Syncing

LEMMA ShapePollAnswered == IInv /\ Shape /\ AboveMetadata /\ PollAnswered => Shape'
<1> SUFFICES ASSUME IInv, Shape, AboveMetadata, PollAnswered  PROVE Shape'
  OBVIOUS
<1>1. /\ head' = head /\ events' = events /\ metadata' = metadata /\ sync' = sync
      /\ fromBlock' = fromBlock /\ toBlock' = toBlock /\ futs' = futs
      /\ currentLatestBlock' = currentLatestBlock /\ poll = "events" /\ poll' = "metadata"
      /\ pollRange' = pollRange /\ abandoned' = abandoned /\ crashes' = crashes
      /\ inFlight' = inFlight /\ HandleRange(pollRange)
  BY DEF PollAnswered, chain, syncVars
<1>2. pollRange.from \in Nat \ {0} /\ pollRange.to \in Nat /\ pollRange.to <= head
  BY <1>1, SyncAssumption DEF IInv, Types, AboveMetadata
<1> QED  BY <1>1, <1>2, HandledShape DEF Shape, TypeOK

LEMMA ShapePollMetadata == IInv /\ Shape /\ PollMetadata => Shape'
<1> SUFFICES ASSUME IInv, Shape, PollMetadata  PROVE Shape'
  OBVIOUS
<1>1. /\ head' = head /\ events' = events /\ tree' = tree /\ abandoned' = abandoned
      /\ inFlight' = inFlight /\ futs' = futs /\ window' = window
      /\ fromBlock' = fromBlock /\ toBlock' = toBlock /\ sync' = sync
      /\ currentLatestBlock' = currentLatestBlock /\ crashes' = crashes
      /\ latestProcessedBlock' = latestProcessedBlock
      /\ poll' = "number" /\ pollRange' = pollRange
      /\ metadata' \in {metadata, [block |-> latestProcessedBlock, roots |-> window.roots]}
  BY DEF PollMetadata, SetMetadata, chain, syncVars
<1>2. latestProcessedBlock \in Nat /\ latestProcessedBlock <= head /\ head \in Nat
  BY SyncAssumption DEF Shape, TypeOK, Blocks
<1>3. /\ metadata' \in [block : Nat, roots : RootSeqs] /\ metadata'.block <= head
      /\ Len(metadata'.roots) <= AcceptableRootWindowSize
  BY <1>1, <1>2, MetadataWritten
<1>4. metadata'.block \in 0..head /\ metadata'.roots \in RootSeqs
  <2>1. metadata'.block \in Nat /\ metadata'.roots \in RootSeqs
    BY <1>3
  <2> QED  BY <1>2, <1>3, <2>1
<1>5. TypeOK'
  BY <1>1, <1>3, <1>4 DEF Shape, TypeOK
<1> QED  BY <1>1, <1>3, <1>5 DEF Shape, Syncing

LEMMA ShapeCrash == Shape /\ Crash => Shape'
<1> SUFFICES ASSUME Shape, Crash  PROVE Shape'
  OBVIOUS
<1>1. /\ head' = head /\ events' = events /\ tree' = tree /\ abandoned' = abandoned
      /\ inFlight' = {} /\ futs' = {} /\ metadata' = metadata /\ toBlock' = toBlock
      /\ fromBlock' = fromBlock /\ window' = window
      /\ latestProcessedBlock' = latestProcessedBlock
      /\ currentLatestBlock' = currentLatestBlock /\ pollRange' = pollRange
      /\ sync' = "off" /\ poll' = "off" /\ crashes' = crashes + 1 /\ crashes < MaxCrashes
  BY DEF Crash, chain
<1>2. crashes' \in 0..MaxCrashes
  BY <1>1, SyncAssumption DEF Shape, TypeOK
<1>3. TypeOK'
  BY <1>1, <1>2 DEF Shape, TypeOK
<1> QED  BY <1>1, <1>3 DEF Shape, Syncing

LEMMA ShapeMine ==
  ASSUME Shape, NEW registers \in BOOLEAN, Mine(registers)
  PROVE  Shape'
<1> USE SyncAssumption
<1>1. /\ head' = head + 1 /\ head < MaxBlock /\ tree' = tree
      /\ events' = (IF registers THEN events \cup {head + 1} ELSE events)
      /\ abandoned' = abandoned /\ inFlight' = inFlight /\ metadata' = metadata
      /\ fromBlock' = fromBlock /\ toBlock' = toBlock /\ futs' = futs /\ sync' = sync
      /\ currentLatestBlock' = currentLatestBlock /\ poll' = poll /\ window' = window
      /\ pollRange' = pollRange /\ latestProcessedBlock' = latestProcessedBlock
      /\ crashes' = crashes
  BY DEF Mine, syncVars, pollVars
<1>2. head \in Nat /\ Deployed <= head
  BY DEF Shape, TypeOK, Blocks
<1>3. head' \in Blocks /\ 0..head \subseteq 0..head'
  BY <1>1, <1>2 DEF Blocks
<1>4. events' \in SUBSET (Deployed..head') /\ tree' \in SUBSET events'
  BY <1>1, <1>2 DEF Shape, TypeOK
<1>5. /\ metadata'.block \in 0..head' /\ latestProcessedBlock' \in 0..head'
      /\ toBlock' \in 0..head' /\ currentLatestBlock' \in 0..head'
      /\ pollRange'.to \in 0..head'
  BY <1>1, <1>3 DEF Shape, TypeOK
<1>6. TypeOK'
  BY <1>1, <1>3, <1>4, <1>5 DEF Shape, TypeOK
<1> QED  BY <1>1, <1>6 DEF Shape, Syncing

\* The invariant on what the newest root stands for.
Fresh == Advancing /\ AboveMetadata /\ MetadataFresh /\ WindowFresh

\* Where a restart resumes, whatever block the metadata has.
LEMMA ResumptionFacts ==
  ASSUME NEW b \in Nat
  PROVE  /\ FirstBlock(Max2(b, Deployed)) \in Nat
         /\ Deployed <= FirstBlock(Max2(b, Deployed))
         /\ \A e \in Nat : Deployed <= e /\ b < e => FirstBlock(Max2(b, Deployed)) <= e
         /\ Deployed <= b => FirstBlock(Max2(b, Deployed)) <= b + 1
         /\ Max2(b, Deployed) \in Nat /\ Deployed <= Max2(b, Deployed)
         /\ \/ Max2(b, Deployed) < FirstBlock(Max2(b, Deployed))
            \/ /\ FirstBlock(Max2(b, Deployed)) = Deployed
               /\ Max2(b, Deployed) = Deployed
  BY SyncAssumption DEF FirstBlock, Max2

\* Numbers the argument compares.
LEMMA Numbers ==
  ASSUME IInv, Shape
  PROVE  /\ head \in Nat /\ Deployed \in Nat \ {0} /\ Deployed <= head
         /\ latestProcessedBlock \in Nat /\ fromBlock \in Nat /\ toBlock \in Nat
         /\ toBlock <= head /\ metadata.block \in Nat /\ Resumption \in Nat
         /\ currentLatestBlock \in Nat /\ currentLatestBlock <= head
         /\ (\A e \in events : e \in Nat /\ Deployed <= e /\ e <= head)
         /\ tree \subseteq events
         /\ (\A r \in inFlight : r.from \in Nat /\ r.to \in Nat /\ Deployed <= r.from
                                 /\ Deployed <= r.to)
         /\ pollRange.from \in Nat /\ pollRange.to \in Nat /\ pollRange.to <= head
<1> USE SyncAssumption
<1>1. metadata.block \in Nat
  BY DEF Shape, TypeOK, Blocks
<1>2. Resumption \in Nat
  BY <1>1, ResumptionFacts DEF Resumption
<1> QED  BY <1>1, <1>2 DEF Shape, TypeOK, Blocks, Ranges

\* While the poll loop runs and nothing was abandoned, nothing is in flight.
LEMMA NothingInFlight ==
  ASSUME IInv, Shape, Advancing, abandoned = {}, ~Syncing
  PROVE  inFlight = {}
<1> SUFFICES ASSUME NEW r \in inFlight  PROVE FALSE
  OBVIOUS
<1>1. sync = "listening"
  BY DEF IInv, ListeningAbandoned, Types, Syncing
<1>2. r.from..r.to = {}
  BY <1>1 DEF IInv, ListeningAbandoned
<1>3. r.from \in Nat /\ r.to \in Nat /\ r.from <= r.to
  BY Numbers DEF Advancing
<1>4. r.from \in r.from..r.to
  BY <1>3
<1> QED  BY <1>2, <1>4

\* Each action keeps the invariant on the newest root.
LEMMA FreshInit == Init => Fresh
  BY DEF Init, Fresh, Advancing, AboveMetadata, MetadataFresh, WindowFresh, Syncing

\* So does the top of the sync's loop, from whichever action it is entered.
LEMMA LoopTopFresh ==
  ASSUME IInv, Shape, Fresh, sync \in {"latest", "delay", "await"},
         NEW from \in Nat, Deployed <= from,
         NEW latest \in Nat, latest <= head, from = Deployed => latest = head,
         NEW fs, LoopTop(from, latest, fs), inFlight' \subseteq fs,
         \A r \in inFlight' : r.from \in Nat /\ r.to \in Nat /\ r.from <= r.to /\ r.to < from
                              /\ Resumption' <= r.from,
         inFlight' # {} => Deployed < head,
         Resumption' <= from,
         latestProcessedBlock < from \/ (from = Deployed /\ latestProcessedBlock = Deployed),
         head' = head, tree' = tree, window' = window,
         latestProcessedBlock' = latestProcessedBlock,
         abandoned = {} => tree = {} \/ LastIs(metadata'.roots, tree)
                             \/ \E e \in tree : Resumption' <= e,
         abandoned = {} => tree = {} \/ LastIs(window.roots, tree)
                             \/ \E e \in tree : \/ e >= from
                                                \/ \E r \in inFlight' : e \in r.from..r.to
  PROVE  Fresh'
<1>1. poll = "off" /\ sync # "off"
  BY DEF IInv, ListeningAbandoned, Types
<1>2. /\ fromBlock' = from
      /\ abandoned' = {} => abandoned = {}
  BY DEF LoopTop
<1>3. CASE from >= latest
  <2>1. /\ sync' = "listening" /\ poll' = "number"
        /\ abandoned' = abandoned \cup BlocksOf(fs \cap inFlight')
    BY <1>3 DEF LoopTop
  <2>2. Advancing'
    BY <1>1, <2>1 DEF Fresh, Advancing
  <2>3. AboveMetadata'
    BY <2>1 DEF AboveMetadata, Syncing
  <2>4. MetadataFresh'
    BY <1>2 DEF MetadataFresh
  <2>5. abandoned' = {} => inFlight' = {}
    <3> SUFFICES ASSUME NEW r \in inFlight'  PROVE r.from \in abandoned'
      OBVIOUS
    <3>1. r.from \in r.from..r.to
      OBVIOUS
    <3> QED  BY <2>1, <3>1 DEF BlocksOf
  <2>6. WindowFresh'
    <3> SUFFICES ASSUME abandoned' = {}, tree # {}, ~LastIs(window.roots, tree)
                 PROVE  \E e \in tree : Pending(e)'
      BY DEF WindowFresh
    <3>1. PICK e \in tree : e >= from
      BY <1>2, <2>5
    <3>2. Deployed < head /\ e \in Nat /\ head \in Nat /\ latestProcessedBlock \in Nat
          /\ Deployed \in Nat
      BY Numbers DEF Fresh, Advancing
    <3>3. ~(from = Deployed /\ latestProcessedBlock = Deployed)
      BY <1>3, <3>2
    <3>4. e > latestProcessedBlock
      BY <3>1, <3>2, <3>3
    <3> QED  BY <2>1, <3>4 DEF Pending
  <2> QED  BY <2>2, <2>3, <2>4, <2>6 DEF Fresh
<1>4. CASE ~(from >= latest)
  <2>1. sync' \in {"refetch", "delay"} /\ poll' = "off"
    BY <1>1, <1>4 DEF LoopTop
  <2>2. Deployed < head
    BY <1>4, Numbers
  <2>3. Advancing'
    BY <1>1, <1>2, <2>1, <2>2 DEF Fresh, Advancing
  <2>4. AboveMetadata'
    BY <1>2, <2>1 DEF AboveMetadata
  <2>5. MetadataFresh'
    BY <1>2 DEF MetadataFresh
  <2>6. WindowFresh'
    BY <1>2, <2>1 DEF WindowFresh, Pending
  <2> QED  BY <2>3, <2>4, <2>5, <2>6 DEF Fresh
<1> QED  BY <1>3, <1>4

LEMMA FreshStart == IInv /\ Shape /\ Fresh /\ Start => Fresh'
<1> SUFFICES ASSUME IInv, Shape, Fresh, Start  PROVE Fresh'
  OBVIOUS
<1> DEFINE m == metadata.block
<1>1. /\ window' = [roots |-> metadata.roots, buffer |-> <<>>]
      /\ latestProcessedBlock' = Max2(m, Deployed)
      /\ fromBlock' = Resumption /\ sync = "off" /\ sync' = "latest"
      /\ head' = head /\ tree' = tree /\ metadata' = metadata /\ inFlight' = inFlight
      /\ poll' = poll /\ abandoned' = abandoned
  BY DEF Start, chain, pollVars, Resumption
<1>2. inFlight = {} /\ poll = "off"
  BY <1>1 DEF IInv, ListeningAbandoned, Types
<1>3. window'.roots = metadata.roots
  BY <1>1
<1>4. Resumption' = Resumption /\ Resumption \in Nat /\ m \in Nat
  BY <1>1, Numbers DEF Resumption
<1>5. /\ Deployed <= latestProcessedBlock'
      /\ \/ latestProcessedBlock' < fromBlock'
         \/ fromBlock' = Deployed /\ latestProcessedBlock' = Deployed
  BY <1>1, <1>4, ResumptionFacts DEF Resumption
<1> HIDE DEF m
<1>6. Advancing'
  BY <1>1, <1>2, <1>5 DEF Fresh, Advancing
<1>7. AboveMetadata'
  BY <1>1, <1>2, <1>4 DEF AboveMetadata, Syncing
<1>8. MetadataFresh'
  BY <1>1, <1>4 DEF Fresh, MetadataFresh
<1>9. WindowFresh'
  <2> SUFFICES ASSUME abandoned = {}, tree # {}, ~LastIs(metadata.roots, tree)
               PROVE  \E e \in tree : Pending(e)'
    BY <1>1, <1>3 DEF WindowFresh
  <2>1. PICK e \in tree : Resumption <= e
    BY DEF Fresh, MetadataFresh
  <2>2. e \in Nat
    BY Numbers
  <2> QED  BY <1>1, <1>4, <2>1, <2>2 DEF Pending
<1> QED  BY <1>6, <1>7, <1>8, <1>9 DEF Fresh

LEMMA FreshSyncLatest == IInv /\ Shape /\ Fresh /\ SyncLatest => Fresh'
<1> SUFFICES ASSUME IInv, Shape, Fresh, SyncLatest  PROVE Fresh'
  OBVIOUS
<1>1. /\ head' = head /\ tree' = tree /\ inFlight' = inFlight /\ window' = window
      /\ latestProcessedBlock' = latestProcessedBlock
      /\ metadata' = metadata /\ sync = "latest" /\ LoopTop(fromBlock, head, {})
  BY DEF SyncLatest, chain
<1>2. inFlight = {} /\ poll = "off"
  BY <1>1 DEF IInv, SyncAccounted, ListeningAbandoned, Types
<1>3. /\ fromBlock \in Nat /\ head \in Nat /\ head <= head
  BY Numbers
<1>4. /\ Deployed <= fromBlock /\ Resumption' = Resumption /\ Resumption <= fromBlock
      /\ latestProcessedBlock < fromBlock
           \/ (fromBlock = Deployed /\ latestProcessedBlock = Deployed)
  BY <1>1 DEF Shape, Fresh, AboveMetadata, Advancing, Syncing, Resumption
<1>5. abandoned = {} => tree = {} \/ LastIs(metadata'.roots, tree)
                          \/ \E e \in tree : Resumption' <= e
  BY <1>1, <1>4 DEF Fresh, MetadataFresh
<1>6. abandoned = {} => tree = {} \/ LastIs(window.roots, tree)
                          \/ \E e \in tree : \/ e >= fromBlock
                                             \/ \E r \in inFlight' : e \in r.from..r.to
  BY <1>1, <1>2 DEF Fresh, WindowFresh, Pending
<1> QED  BY <1>1, <1>2, <1>3, <1>4, <1>5, <1>6, LoopTopFresh

LEMMA FreshSyncRefetch == IInv /\ Shape /\ Fresh /\ SyncRefetch => Fresh'
<1> SUFFICES ASSUME IInv, Shape, Fresh, SyncRefetch  PROVE Fresh'
  OBVIOUS
<1>1. /\ head' = head /\ tree' = tree /\ abandoned' = abandoned
      /\ inFlight' = inFlight /\ metadata' = metadata /\ window' = window
      /\ fromBlock' = fromBlock /\ pollRange' = pollRange /\ poll' = poll
      /\ latestProcessedBlock' = latestProcessedBlock
      /\ sync = "refetch" /\ sync' = "delay"
  BY DEF SyncRefetch, chain, pollVars
<1>2. Resumption' = Resumption
  BY <1>1 DEF Resumption
<1>3. Advancing' /\ AboveMetadata' /\ MetadataFresh'
  BY <1>1, <1>2 DEF Fresh, Advancing, AboveMetadata, MetadataFresh, Syncing
<1>4. WindowFresh'
  BY <1>1 DEF Fresh, WindowFresh, Pending
<1> QED  BY <1>3, <1>4 DEF Fresh

LEMMA FreshSyncFetch == IInv /\ Shape /\ Fresh /\ SyncFetch => Fresh'
<1> SUFFICES ASSUME IInv, Shape, Fresh, SyncFetch  PROVE Fresh'
  OBVIOUS
<1> DEFINE r == [from |-> fromBlock, to |-> toBlock]
           fs == futs \cup {r}
<1>1. /\ head' = head /\ tree' = tree /\ inFlight' = inFlight \cup {r}
      /\ latestProcessedBlock' = latestProcessedBlock /\ pollRange' = pollRange
      /\ metadata' = metadata /\ window' = window /\ sync = "delay"
  BY DEF SyncFetch, chain
<1>2. /\ fromBlock \in Nat /\ toBlock \in Nat /\ toBlock <= head /\ head \in Nat
      /\ currentLatestBlock \in Nat /\ currentLatestBlock <= head /\ Deployed \in Nat
      /\ latestProcessedBlock \in Nat /\ Resumption \in Nat
      /\ \A q \in inFlight : q.from \in Nat /\ q.to \in Nat
      /\ \A e \in tree : e \in Nat
  BY Numbers
<1>3. Deployed <= fromBlock /\ fromBlock <= toBlock /\ Deployed < head
  BY <1>1 DEF Shape, Syncing, Fresh, Advancing
<1>4. Resumption' = Resumption /\ Resumption <= fromBlock
  BY <1>1 DEF Fresh, AboveMetadata, Syncing, Resumption
<1>5. poll = "off" /\ inFlight \subseteq futs
  BY <1>1 DEF IInv, ListeningAbandoned, Types, SyncAccounted, Syncing
<1>6. r.from = fromBlock /\ r.to = toBlock
  OBVIOUS
<1>7. \A q \in inFlight' : q.from \in Nat /\ q.to \in Nat /\ q.from <= q.to
                           /\ q.to < toBlock + 1 /\ Resumption <= q.from
  <2> SUFFICES ASSUME NEW q \in inFlight'
               PROVE  q.from \in Nat /\ q.to \in Nat /\ q.from <= q.to
                      /\ q.to < toBlock + 1 /\ Resumption <= q.from
    OBVIOUS
  <2>1. CASE q \in inFlight
    <3>1. q.from <= q.to /\ q.to < fromBlock /\ Resumption <= q.from
      BY <1>1, <2>1 DEF Fresh, Advancing, AboveMetadata, Syncing
    <3> QED  BY <1>2, <1>3, <2>1, <3>1
  <2>2. CASE q = r
    BY <1>2, <1>3, <1>4, <1>6, <2>2
  <2> QED  BY <1>1, <2>1, <2>2
<1>8. latestProcessedBlock < toBlock + 1
  <2>1. latestProcessedBlock < fromBlock \/ latestProcessedBlock = Deployed
    BY <1>1 DEF Fresh, Advancing
  <2> QED  BY <1>2, <1>3, <2>1
<1>9. abandoned = {} => tree = {} \/ LastIs(window.roots, tree)
                          \/ \E e \in tree : \/ e >= toBlock + 1
                                             \/ \E q \in inFlight' : e \in q.from..q.to
  <2> SUFFICES ASSUME abandoned = {}, tree # {}, ~LastIs(window.roots, tree)
               PROVE  \E e \in tree : \/ e >= toBlock + 1
                                      \/ \E q \in inFlight' : e \in q.from..q.to
    OBVIOUS
  <2>1. PICK e \in tree : Pending(e)
    BY <1>1 DEF Fresh, WindowFresh
  <2>2. e >= fromBlock \/ \E q \in inFlight : e \in q.from..q.to
    BY <1>1, <1>5, <2>1 DEF Pending
  <2>3. CASE e >= fromBlock
    <3>1. e >= toBlock + 1 \/ e \in r.from..r.to
      BY <1>2, <1>6, <2>3
    <3>2. r \in inFlight'
      BY <1>1
    <3> HIDE DEF r
    <3> QED  BY <3>1, <3>2
  <2>4. CASE \E q \in inFlight : e \in q.from..q.to
    BY <1>1, <2>4
  <2> QED  BY <2>2, <2>3, <2>4
<1>10. abandoned = {} => tree = {} \/ LastIs(metadata'.roots, tree)
                           \/ \E e \in tree : Resumption' <= e
  BY <1>1, <1>4 DEF Fresh, MetadataFresh
<1>11. CASE AwaitsFuts(fs)
  <2>1. /\ sync' = "await" /\ fromBlock' = fromBlock /\ toBlock' = toBlock /\ poll' = poll
        /\ abandoned' = abandoned
    BY <1>11 DEF SyncFetch
  <2> HIDE DEF r, fs
  <2>2. \A q \in inFlight' : q.to <= toBlock'
    BY <1>2, <1>7, <2>1
  <2>3. latestProcessedBlock' <= toBlock'
    BY <1>1, <1>2, <1>8, <2>1
  <2>4. Advancing'
    BY <1>1, <1>3, <1>7, <2>1, <2>2, <2>3 DEF Fresh, Advancing
  <2>5. AboveMetadata' /\ MetadataFresh'
    BY <1>1, <1>4, <1>5, <1>7, <1>10, <2>1 DEF AboveMetadata, MetadataFresh
  <2>6. WindowFresh'
    <3>1. \A e \in tree : e >= toBlock + 1 => e > toBlock'
      BY <1>2, <2>1
    <3> QED  BY <1>1, <1>9, <2>1, <3>1 DEF WindowFresh, Pending
  <2> QED  BY <2>4, <2>5, <2>6 DEF Fresh
<1>12. CASE ~AwaitsFuts(fs)
  <2>1. LoopTop(toBlock + 1, currentLatestBlock, fs)
    BY <1>12 DEF SyncFetch
  <2>2. /\ toBlock + 1 \in Nat /\ Deployed <= toBlock + 1
        /\ toBlock + 1 # Deployed /\ Resumption' <= toBlock + 1
    BY <1>2, <1>3, <1>4
  <2>3. inFlight' \subseteq fs
    BY <1>1, <1>5
  <2>4. sync \in {"latest", "delay", "await"}
    BY <1>1
  <2> HIDE DEF r, fs
  <2> QED
    BY <1>1, <1>2, <1>3, <1>4, <1>7, <1>8, <1>9, <1>10, <2>1, <2>2, <2>3, <2>4,
       LoopTopFresh
<1> QED  BY <1>11, <1>12

LEMMA FreshSyncAwaited == IInv /\ Shape /\ Fresh /\ SyncAwaited => Fresh'
<1> SUFFICES ASSUME IInv, Shape, Fresh, SyncAwaited  PROVE Fresh'
  OBVIOUS
<1>1. /\ head' = head /\ tree' = tree /\ inFlight' = inFlight /\ window' = window
      /\ latestProcessedBlock' = latestProcessedBlock
      /\ sync = "await" /\ LoopTop(toBlock + 1, currentLatestBlock, {})
      /\ futs \cap inFlight = {}
      /\ metadata' \in {metadata, [block |-> toBlock, roots |-> window.roots]}
  BY DEF SyncAwaited, chain, SetMetadata, BlockAwaited
<1>2. inFlight = {} /\ poll = "off"
  BY <1>1 DEF IInv, SyncAccounted, Syncing, ListeningAbandoned, Types
<1>3. /\ fromBlock \in Nat /\ toBlock \in Nat /\ Deployed \in Nat /\ head \in Nat
      /\ currentLatestBlock \in Nat /\ currentLatestBlock <= head
      /\ latestProcessedBlock \in Nat /\ Resumption \in Nat
      /\ \A e \in tree : e \in Nat
  BY Numbers
<1>4. /\ Deployed <= fromBlock /\ fromBlock <= toBlock /\ Resumption <= fromBlock
      /\ latestProcessedBlock <= toBlock
  BY <1>1 DEF Shape, Syncing, Fresh, Advancing, AboveMetadata
<1>5. abandoned = {} => tree = {} \/ LastIs(window.roots, tree) \/ \E e \in tree : e > toBlock
  BY <1>1, <1>2 DEF Fresh, WindowFresh, Pending
<1>6. /\ Resumption' <= toBlock + 1
      /\ abandoned = {} => tree = {} \/ LastIs(metadata'.roots, tree)
                             \/ \E e \in tree : Resumption' <= e
  <2>1. CASE metadata' = metadata
    <3>1. Resumption' = Resumption
      BY <2>1 DEF Resumption
    <3>2. Resumption' <= toBlock + 1
      BY <1>3, <1>4, <3>1
    <3> QED  BY <2>1, <3>1, <3>2 DEF Fresh, MetadataFresh
  <2>2. CASE metadata' = [block |-> toBlock, roots |-> window.roots]
    <3>1. metadata'.roots = window.roots /\ Resumption' = FirstBlock(Max2(toBlock, Deployed))
      BY <2>2 DEF Resumption
    <3>2. Deployed <= toBlock
      BY <1>3, <1>4
    <3>3. \A e \in tree : e > toBlock => Deployed <= e /\ toBlock < e
      BY <1>3, <3>2
    <3>4. Resumption' <= toBlock + 1 /\ \A e \in tree : e > toBlock => Resumption' <= e
      BY <1>3, <3>1, <3>2, <3>3, ResumptionFacts
    <3> QED  BY <1>5, <3>1, <3>4
  <2> QED  BY <1>1, <2>1, <2>2
<1>7. abandoned = {} => tree = {} \/ LastIs(window.roots, tree)
                          \/ \E e \in tree : \/ e >= toBlock + 1
                                             \/ \E q \in inFlight' : e \in q.from..q.to
  <2>1. \A e \in tree : e > toBlock => e >= toBlock + 1
    BY <1>3
  <2> QED  BY <1>5, <2>1
<1>8. /\ toBlock + 1 \in Nat /\ Deployed <= toBlock + 1 /\ toBlock + 1 # Deployed
      /\ latestProcessedBlock < toBlock + 1
  BY <1>3, <1>4
<1> QED  BY <1>1, <1>2, <1>3, <1>6, <1>7, <1>8, LoopTopFresh

LEMMA FreshRangeAnswered ==
  ASSUME IInv, Shape, Fresh, NEW r \in inFlight, RangeAnswered(r)
  PROVE  Fresh'
<1> DEFINE rng == events \cap (r.from..r.to)
<1>1. /\ head' = head /\ metadata' = metadata /\ sync' = sync
      /\ fromBlock' = fromBlock /\ toBlock' = toBlock /\ poll' = poll
      /\ pollRange' = pollRange /\ abandoned' = abandoned
      /\ inFlight' = inFlight \ {r} /\ HandleRange(r)
  BY DEF RangeAnswered, chain, syncVars, pollVars
<1>2. /\ r.from \in Nat \ {0} /\ r.to \in Nat /\ Deployed <= r.to /\ Resumption \in Nat
      /\ events \subseteq Nat /\ tree \subseteq events
  BY Numbers
<1>3. /\ tree' = tree \cup rng /\ latestProcessedBlock' = r.to
      /\ rng # {} => LastIs(window'.roots, tree')
      /\ rng = {} => window' = window /\ tree' = tree
  BY <1>1, <1>2, HandleRangeFacts
<1>4. Resumption' = Resumption
  BY <1>1 DEF Resumption
<1>5. Advancing'
  BY <1>1, <1>2, <1>3 DEF Fresh, Advancing
<1>6. AboveMetadata'
  BY <1>1, <1>4 DEF Fresh, AboveMetadata, Syncing
<1>7. abandoned = {} => Syncing
  BY NothingInFlight DEF Fresh
<1>8. MetadataFresh'
  <2> SUFFICES ASSUME abandoned = {}
               PROVE  tree' = {} \/ LastIs(metadata.roots, tree') \/ \E e \in tree' : Resumption <= e
    BY <1>1, <1>4 DEF MetadataFresh
  <2>1. CASE rng = {}
    BY <1>3, <2>1 DEF Fresh, MetadataFresh
  <2>2. CASE rng # {}
    <3>1. PICK e : e \in rng
      BY <2>2
    <3>2. Resumption <= r.from
      BY <1>7 DEF Fresh, AboveMetadata
    <3>3. Resumption <= e
      BY <1>2, <3>1, <3>2
    <3> QED  BY <1>3, <3>1, <3>3
  <2> QED  BY <2>1, <2>2
<1>9. WindowFresh'
  <2> SUFFICES ASSUME abandoned = {}, sync # "off"
               PROVE  tree' = {} \/ LastIs(window'.roots, tree') \/ \E e \in tree' : Pending(e)'
    BY <1>1 DEF WindowFresh
  <2>1. CASE rng = {}
    <3> SUFFICES ASSUME tree # {}, ~LastIs(window.roots, tree)
                 PROVE  \E e \in tree : Pending(e)'
      BY <1>3, <2>1
    <3>1. PICK e \in tree : Pending(e)
      BY DEF Fresh, WindowFresh
    <3>2. e \notin r.from..r.to
      BY <1>2, <2>1
    <3>3. poll = "off"
      BY <1>7 DEF IInv, ListeningAbandoned, Syncing
    <3>4. Pending(e)'
      BY <1>1, <3>1, <3>2, <3>3 DEF Pending
    <3> QED  BY <3>4
  <2>2. CASE rng # {}
    BY <1>3, <2>2
  <2> QED  BY <2>1, <2>2
<1> QED  BY <1>5, <1>6, <1>8, <1>9 DEF Fresh

LEMMA FreshPollNumber == IInv /\ Shape /\ Fresh /\ PollNumber => Fresh'
<1> SUFFICES ASSUME IInv, Shape, Fresh, PollNumber  PROVE Fresh'
  OBVIOUS
<1>1. /\ head' = head /\ tree' = tree /\ abandoned' = abandoned
      /\ inFlight' = inFlight /\ metadata' = metadata /\ window' = window
      /\ fromBlock' = fromBlock /\ toBlock' = toBlock /\ sync' = sync
      /\ latestProcessedBlock' = latestProcessedBlock
      /\ poll = "number" /\ poll' = "events" /\ head > latestProcessedBlock
      /\ pollRange' = [from |-> latestProcessedBlock + 1, to |-> head]
  BY DEF PollNumber, chain, syncVars
<1>2. sync = "listening"
  BY <1>1 DEF IInv, ListeningAbandoned
<1>3. /\ latestProcessedBlock \in Nat /\ head \in Nat /\ Deployed \in Nat
      /\ Deployed <= latestProcessedBlock /\ \A e \in tree : e \in Nat
  BY <1>2, Numbers DEF Fresh, Advancing
<1>4. pollRange'.from = latestProcessedBlock + 1 /\ pollRange'.to = head
  BY <1>1
<1>5. Deployed < pollRange'.from /\ pollRange'.from <= pollRange'.to
  BY <1>1, <1>3, <1>4
<1>6. Resumption' = Resumption
  BY <1>1 DEF Resumption
<1>7. Advancing' /\ AboveMetadata' /\ MetadataFresh'
  BY <1>1, <1>2, <1>5, <1>6 DEF Fresh, Advancing, AboveMetadata, MetadataFresh, Syncing
<1>8. WindowFresh'
  <2>1. \A e \in tree : e > latestProcessedBlock => e >= pollRange'.from
    BY <1>3, <1>4
  <2> QED  BY <1>1, <1>2, <2>1 DEF Fresh, WindowFresh, Pending
<1> QED  BY <1>7, <1>8 DEF Fresh

LEMMA FreshPollAnswered == IInv /\ Shape /\ Fresh /\ PollAnswered => Fresh'
<1> SUFFICES ASSUME IInv, Shape, Fresh, PollAnswered  PROVE Fresh'
  OBVIOUS
<1> DEFINE rng == events \cap (pollRange.from..pollRange.to)
<1>1. /\ head' = head /\ metadata' = metadata /\ sync' = sync
      /\ fromBlock' = fromBlock /\ toBlock' = toBlock
      /\ poll = "events" /\ poll' = "metadata"
      /\ pollRange' = pollRange /\ abandoned' = abandoned
      /\ inFlight' = inFlight /\ HandleRange(pollRange)
  BY DEF PollAnswered, chain, syncVars
<1>2. sync = "listening"
  BY <1>1 DEF IInv, ListeningAbandoned
<1>3. /\ pollRange.from \in Nat \ {0} /\ pollRange.to \in Nat
      /\ Deployed < pollRange.from /\ pollRange.from <= pollRange.to
      /\ Deployed \in Nat /\ metadata.block \in Nat
      /\ (\A e \in events : e \in Nat /\ e <= head) /\ tree \subseteq events /\ head \in Nat
  BY <1>1, Numbers DEF Fresh, AboveMetadata
<1>4. /\ tree' = tree \cup rng /\ latestProcessedBlock' = pollRange.to
      /\ rng # {} => LastIs(window'.roots, tree')
      /\ rng = {} => window' = window /\ tree' = tree
  BY <1>1, <1>3, HandleRangeFacts
<1>5. Resumption' = Resumption
  BY <1>1 DEF Resumption
<1>6. \A e \in rng : e \in Nat /\ Deployed < e /\ e <= head
  BY <1>3
<1>7. tree' # {} => Deployed < head
  <2>1. CASE rng = {}
    BY <1>4, <2>1 DEF Fresh, Advancing
  <2>2. CASE rng # {}
    BY <1>3, <1>6, <2>2
  <2> QED  BY <2>1, <2>2
<1>8. Deployed <= latestProcessedBlock'
  BY <1>3, <1>4
<1>9. Advancing'
  BY <1>1, <1>2, <1>7, <1>8 DEF Fresh, Advancing
<1>10. AboveMetadata'
  BY <1>1, <1>2 DEF AboveMetadata, Syncing
<1>11. MetadataFresh'
  <2> SUFFICES ASSUME abandoned = {}
               PROVE  tree' = {} \/ LastIs(metadata.roots, tree') \/ \E e \in tree' : Resumption <= e
    BY <1>1, <1>5 DEF MetadataFresh
  <2>1. CASE \E e \in rng : metadata.block < e
    <3>1. PICK e \in rng : metadata.block < e
      BY <2>1
    <3>2. e \in Nat /\ Deployed <= e
      BY <1>3, <1>6
    <3>3. Resumption <= e
      BY <1>3, <3>1, <3>2, ResumptionFacts DEF Resumption
    <3> QED  BY <1>4, <3>3
  <2>2. CASE ~\E e \in rng : metadata.block < e
    <3>1. \A e \in rng : Deployed < e /\ e <= metadata.block
      BY <1>3, <1>6, <2>2
    <3>2. rng \subseteq tree
      BY <3>1 DEF IInv, MetadataAccounted
    <3>3. tree' = tree
      BY <1>4, <3>2
    <3> QED  BY <3>3 DEF Fresh, MetadataFresh
  <2> QED  BY <2>1, <2>2
<1>12. WindowFresh'
  <2> SUFFICES ASSUME abandoned = {}
               PROVE  tree' = {} \/ LastIs(window'.roots, tree') \/ \E e \in tree' : Pending(e)'
    BY <1>1 DEF WindowFresh
  <2>1. CASE rng = {}
    <3> SUFFICES ASSUME tree # {}, ~LastIs(window.roots, tree)
                 PROVE  \E e \in tree : Pending(e)'
      BY <1>4, <2>1
    <3>1. PICK e \in tree : Pending(e)
      BY <1>2 DEF Fresh, WindowFresh
    <3>2. inFlight = {}
      BY <1>2, NothingInFlight DEF Fresh, Syncing
    <3>3. e >= pollRange.from
      BY <1>1, <1>2, <3>1, <3>2 DEF Pending
    <3>4. e > latestProcessedBlock'
      BY <1>3, <1>4, <2>1, <3>3
    <3> QED  BY <1>1, <3>4 DEF Pending
  <2>2. CASE rng # {}
    BY <1>4, <2>2
  <2> QED  BY <2>1, <2>2
<1> QED  BY <1>9, <1>10, <1>11, <1>12 DEF Fresh

LEMMA FreshPollMetadata == IInv /\ Shape /\ Fresh /\ PollMetadata => Fresh'
<1> SUFFICES ASSUME IInv, Shape, Fresh, PollMetadata  PROVE Fresh'
  OBVIOUS
<1> DEFINE l == latestProcessedBlock
<1>1. /\ head' = head /\ tree' = tree /\ abandoned' = abandoned
      /\ inFlight' = inFlight /\ window' = window
      /\ fromBlock' = fromBlock /\ toBlock' = toBlock /\ sync' = sync
      /\ latestProcessedBlock' = latestProcessedBlock
      /\ poll = "metadata" /\ poll' = "number" /\ pollRange' = pollRange
      /\ metadata' \in {metadata, [block |-> l, roots |-> window.roots]}
  BY DEF PollMetadata, SetMetadata, chain, syncVars
<1>2. sync = "listening"
  BY <1>1 DEF IInv, ListeningAbandoned
<1>3. Advancing' /\ AboveMetadata'
  BY <1>1, <1>2 DEF Fresh, Advancing, AboveMetadata, Syncing
<1>4. WindowFresh'
  BY <1>1, <1>2 DEF Fresh, WindowFresh, Pending
<1>5. MetadataFresh'
  <2>1. CASE metadata' = metadata
    <3>1. Resumption' = Resumption
      BY <2>1 DEF Resumption
    <3> QED  BY <1>1, <2>1, <3>1 DEF Fresh, MetadataFresh
  <2>2. CASE metadata' = [block |-> l, roots |-> window.roots]
    <3> SUFFICES ASSUME abandoned = {}, tree # {}, ~LastIs(window.roots, tree)
                 PROVE  \E e \in tree : Resumption' <= e
      BY <1>1, <2>2 DEF MetadataFresh
    <3>1. PICK e \in tree : Pending(e)
      BY <1>2 DEF Fresh, WindowFresh
    <3>2. inFlight = {}
      BY <1>2, NothingInFlight DEF Fresh, Syncing
    <3>3. e > l
      BY <1>1, <1>2, <3>1, <3>2 DEF Pending
    <3>4. e \in Nat /\ l \in Nat /\ Deployed <= e
      BY Numbers
    <3>5. Resumption' = FirstBlock(Max2(l, Deployed))
      BY <2>2 DEF Resumption
    <3>6. l < e
      BY <3>3, <3>4
    <3> HIDE DEF l
    <3> QED  BY <3>4, <3>5, <3>6, ResumptionFacts
  <2> QED  BY <1>1, <2>1, <2>2
<1> QED  BY <1>3, <1>4, <1>5 DEF Fresh

LEMMA FreshCrash == Fresh /\ Crash => Fresh'
<1> SUFFICES ASSUME Fresh, Crash  PROVE Fresh'
  OBVIOUS
<1>1. /\ head' = head /\ tree' = tree /\ abandoned' = abandoned
      /\ inFlight' = {} /\ metadata' = metadata /\ sync' = "off" /\ poll' = "off"
  BY DEF Crash, chain
<1>2. Resumption' = Resumption
  BY <1>1 DEF Resumption
<1> QED
  BY <1>1, <1>2 DEF Fresh, Advancing, AboveMetadata, MetadataFresh, WindowFresh, Syncing

LEMMA FreshMine ==
  ASSUME IInv, Shape, Fresh, NEW registers \in BOOLEAN, Mine(registers)
  PROVE  Fresh'
<1>1. /\ head' = head + 1 /\ tree' = tree
      /\ abandoned' = abandoned /\ inFlight' = inFlight /\ metadata' = metadata
      /\ fromBlock' = fromBlock /\ toBlock' = toBlock /\ sync' = sync
      /\ poll' = poll /\ window' = window
      /\ pollRange' = pollRange /\ latestProcessedBlock' = latestProcessedBlock
  BY DEF Mine, syncVars, pollVars
<1>2. Resumption' = Resumption
  BY <1>1 DEF Resumption
<1>3. Deployed < head => Deployed < head'
  BY <1>1, Numbers
<1>4. Advancing'
  BY <1>1, <1>3 DEF Fresh, Advancing
<1>5. AboveMetadata' /\ MetadataFresh' /\ WindowFresh'
  BY <1>1, <1>2 DEF Fresh, AboveMetadata, MetadataFresh, WindowFresh, Syncing, Pending
<1> QED  BY <1>4, <1>5 DEF Fresh

\* The window's invariant: a case for each action.
LEMMA FreshHolds == Spec => [](IInv /\ Shape /\ Fresh)
<1> DEFINE J == Shape /\ Fresh
<1>1. ASSUME IInv, J, [Next]_vars  PROVE J'
  <2> USE <1>1
  <2>1. CASE Start
    BY <2>1, ShapeStart, FreshStart
  <2>2. CASE SyncLatest
    BY <2>2, ShapeSyncLatest, FreshSyncLatest
  <2>3. CASE SyncRefetch
    BY <2>3, ShapeSyncRefetch, FreshSyncRefetch
  <2>4. CASE SyncFetch
    BY <2>4, ShapeSyncFetch, FreshSyncFetch
  <2>5. CASE SyncAwaited
    BY <2>5, ShapeSyncAwaited, FreshSyncAwaited
  <2>6. ASSUME NEW r \in inFlight, RangeAnswered(r)  PROVE J'
    BY <2>6, ShapeRangeAnswered, FreshRangeAnswered
  <2>7. CASE PollNumber
    BY <2>7, ShapePollNumber, FreshPollNumber
  <2>8. CASE PollAnswered
    BY <2>8, ShapePollAnswered, FreshPollAnswered DEF Fresh
  <2>9. CASE PollMetadata
    BY <2>9, ShapePollMetadata, FreshPollMetadata
  <2>10. CASE Crash
    BY <2>10, ShapeCrash, FreshCrash
  <2>11. ASSUME NEW registers \in BOOLEAN, Mine(registers)  PROVE J'
    BY <2>11, ShapeMine, FreshMine
  <2>12. CASE UNCHANGED vars
    <3>1. /\ head' = head /\ events' = events /\ tree' = tree /\ metadata' = metadata
          /\ window' = window /\ latestProcessedBlock' = latestProcessedBlock
          /\ sync' = sync /\ fromBlock' = fromBlock /\ toBlock' = toBlock
          /\ currentLatestBlock' = currentLatestBlock /\ futs' = futs
          /\ inFlight' = inFlight /\ poll' = poll /\ pollRange' = pollRange
          /\ abandoned' = abandoned /\ crashes' = crashes
      BY <2>12 DEF vars, chain, syncVars, pollVars
    <3>2. Shape'
      BY <3>1 DEF Shape, TypeOK, Syncing
    <3>3. Advancing'
      BY <3>1 DEF Fresh, Advancing
    <3>4. Resumption' = Resumption
      BY <3>1 DEF Resumption
    <3>5. AboveMetadata' /\ MetadataFresh' /\ WindowFresh'
      BY <3>1, <3>4 DEF Fresh, AboveMetadata, MetadataFresh, WindowFresh, Syncing, Pending
    <3> QED  BY <3>2, <3>3, <3>5 DEF Fresh
  <2> HIDE DEF J
  <2> QED
    BY <2>1, <2>2, <2>3, <2>4, <2>5, <2>6, <2>7, <2>8, <2>9, <2>10, <2>11, <2>12
    DEF Next
<1>2. Init => J
  BY ShapeInit, FreshInit
<1>3. IInv /\ J /\ [Next]_vars => J'
  BY <1>1
<1> HIDE DEF J
<1>4. Spec => [](IInv /\ J)
  BY <1>2, <1>3, IInvHolds, PTL DEF Spec
<1>5. IInv /\ J => IInv /\ Shape /\ Fresh
  BY DEF J
<1> QED  BY <1>4, <1>5, PTL

\* The manager's books keep their shape, the window of roots its size, and
\* while the poll loop runs isReady (subtraction of 256-bit numbers included)
\* answers yes only when every block but the last few is in the tree.
THEOREM ManagerIsSound == Spec => []ManagerSound
<1>1. IInv /\ Shape /\ Fresh => ManagerSound
  <2> SUFFICES ASSUME IInv, Shape, Fresh  PROVE ManagerSound
    OBVIOUS
  <2>1. TypeOK
    BY DEF Shape
  <2>2. ASSUME poll # "off", IsReady, NEW e \in MembersUpTo(head - Len(window.roots))
        PROVE  e \in tree \cup abandoned
    <3>1. sync = "listening"
      BY <2>2 DEF IInv, ListeningAbandoned
    <3>2. /\ e \in events /\ Deployed < e /\ e <= head - Len(window.roots)
          /\ latestProcessedBlock >= head - Len(window.roots)
      BY <2>2 DEF MembersUpTo, IsReady
    <3>3. Len(window.roots) \in Nat
      BY DEF Shape, TypeOK, RootSeqs
    <3>4. e <= latestProcessedBlock
      BY <3>2, <3>3, Numbers
    <3>5. AccountedUpTo(latestProcessedBlock)
      BY <3>1 DEF IInv, ProcessedAccounted
    <3>6. e \in tree \/ e \in abandoned \/ \E r \in inFlight : e \in r.from..r.to
      BY <3>2, <3>4, <3>5 DEF AccountedUpTo, Accounted
    <3> QED  BY <3>1, <3>6 DEF IInv, ListeningAbandoned
  <2>3. ReadyIsFresh
    BY <2>2 DEF ReadyIsFresh
  <2> QED  BY <2>1, <2>3 DEF ManagerSound
<1> QED  BY <1>1, FreshHolds, PTL

\* A node that has handled every block accepts proofs made from its own tree,
\* also when it restarted with metadata older than its tree: for every chain,
\* window, chunk size, number of ranges in flight and of crashes.
THEOREM OwnRootAccepted == Spec => []CaughtUpRootAccepted
<1>1. IInv /\ Shape /\ Fresh => CaughtUpRootAccepted
  <2> SUFFICES ASSUME IInv, Shape, Fresh,
                      poll = "number", latestProcessedBlock = head,
                      inFlight = {}, abandoned = {}, tree # {}
               PROVE  \E i \in DOMAIN window.roots : window.roots[i] = tree
    BY DEF CaughtUpRootAccepted, ValidateRoot
  <2>1. sync = "listening"
    BY DEF IInv, ListeningAbandoned
  <2>2. ASSUME NEW e \in tree, Pending(e)  PROVE FALSE
    <3>1. e > latestProcessedBlock
      BY <2>1, <2>2 DEF Pending
    <3> QED  BY <3>1, Numbers
  <2>3. LastIs(window.roots, tree)
    BY <2>1, <2>2 DEF Fresh, WindowFresh
  <2>4. window.roots \in RootSeqs
    BY DEF Shape, TypeOK
  <2> QED  BY <2>3, <2>4 DEF LastIs, RootSeqs
<1> QED  BY <1>1, FreshHolds, PTL

-----------------------------------------------------------------------------
(* The window of roots under reorganisations.                              *)

\* The windows of roots of R that keep to the capacity.
Fitting(R) ==
  {w \in [roots : Seq(R), buffer : Seq(R)] : Len(w.roots) <= AcceptableRootWindowSize}

\* v is w with root x slid in: a full window gives its oldest root to the
\* buffer, any other window leaves the buffer empty.
SlidBy(w, v, x) ==
  /\ Len(w.roots) = AcceptableRootWindowSize =>
       /\ Len(v.roots) = AcceptableRootWindowSize /\ v.roots[AcceptableRootWindowSize] = x
       /\ \A i \in 1..(AcceptableRootWindowSize - 1) : v.roots[i] = w.roots[i + 1]
       /\ Len(v.buffer) = 1 /\ v.buffer[1] = w.roots[1]
  /\ Len(w.roots) < AcceptableRootWindowSize =>
       /\ Len(v.roots) = Len(w.roots) + 1 /\ v.roots[Len(w.roots) + 1] = x
       /\ \A i \in 1..Len(w.roots) : v.roots[i] = w.roots[i]
       /\ Len(v.buffer) = 0

\* That is what slideRootQueue does.
LEMMA SlideIsSlidBy ==
  ASSUME NEW R, NEW w \in Fitting(R), NEW x \in R
  PROVE  /\ SlideRootQueue(w, x) \in Fitting(R)
         /\ LastIs(SlideRootQueue(w, x).roots, x)
         /\ SlidBy(w, SlideRootQueue(w, x), x)
<1> DEFINE q == w.roots
           A == AcceptableRootWindowSize
           v == SlideRootQueue(w, x)
<1>1. q \in Seq(R) /\ Len(q) \in Nat /\ A \in Nat /\ A > 0 /\ Len(q) <= A
  BY WindowAssumption DEF Fitting
<1>2. v \in Fitting(R) /\ LastIs(v.roots, x)
  BY SlideFacts DEF Fitting
<1>3. CASE Len(q) = A
  <2> DEFINE s == SubSeq(q, 2, A)
             b == SubSeq(q, 1, 1)
  <2>1. v = [roots |-> Append(s, x), buffer |-> b]
    <3>1. OverflowCount(q) = 1
      BY <1>1, <1>3 DEF OverflowCount
    <3> QED  BY <1>3, <3>1 DEF SlideRootQueue
  <2>2. s \in Seq(R) /\ Len(s) = A - 1 /\ \A i \in 1..(A - 1) : s[i] = q[i + 1]
    BY <1>1, <1>3
  <2>3. Len(b) = 1 /\ b[1] = q[1]
    BY <1>1, <1>3
  <2>4. v.roots = Append(s, x) /\ v.buffer = b
    <3> HIDE DEF s, v, b
    <3> QED  BY <2>1
  <2>5. Len(v.roots) = A /\ v.roots[A] = x /\ \A i \in 1..(A - 1) : v.roots[i] = q[i + 1]
    <3> HIDE DEF s, v, b, q, A
    <3> QED  BY <1>1, <2>2, <2>4
  <2>6. Len(v.buffer) = 1 /\ v.buffer[1] = q[1]
    BY <2>3, <2>4, Zenon
  <2>7. ~(Len(q) < A)
    <3> HIDE DEF q, A
    <3> QED  BY <1>1, <1>3
  <2> HIDE DEF s, v, b
  <2> QED  BY <1>2, <2>5, <2>6, <2>7, Zenon DEF SlidBy, v
<1>4. CASE Len(q) # A
  <2>1. v = [roots |-> Append(q, x), buffer |-> <<>>]
    <3>1. ~(OverflowCount(q) > 0)
      BY <1>1, <1>4 DEF OverflowCount
    <3> QED  BY <1>4, <3>1 DEF SlideRootQueue
  <2>2. v.roots = Append(q, x) /\ v.buffer = <<>>
    BY <2>1
  <2> HIDE DEF v
  <2>3. /\ Len(v.roots) = Len(q) + 1 /\ v.roots[Len(q) + 1] = x
        /\ \A i \in 1..Len(q) : v.roots[i] = q[i]
    <3> HIDE DEF q
    <3> QED  BY <1>1, <2>2
  <2>4. Len(v.buffer) = 0
    BY <2>2
  <2> QED  BY <1>2, <1>4, <2>3, <2>4, Zenon DEF SlidBy, v
<1> QED  BY <1>3, <1>4

\* handleEvents slides the roots of an answer in one after the other.
LEMMA SlidSteps ==
  ASSUME NEW R, NEW w \in Fitting(R), NEW rs \in Seq(R)
  PROVE  /\ Slid(w, rs, 0) = w
         /\ \A i \in 1..Len(rs) : Slid(w, rs, i) = SlideRootQueue(Slid(w, rs, i - 1), rs[i])
<1> DEFINE n == Len(rs)
           Body(g, i) == IF i = 0 THEN w ELSE SlideRootQueue(g[i - 1], rs[i])
           After == CHOOSE g : g = [i \in 0..n |-> Body(g, i)]
           Fits == Fitting(R)
           H == [i \in Nat |-> [v \in Fits |->
                  IF i + 1 \in 1..n THEN SlideRootQueue(v, rs[i + 1]) ELSE v]]
<1>1. \A i : Slid(w, rs, i) = After[i]
  BY DEF Slid
<1>2. n \in Nat /\ \A i \in 1..n : rs[i] \in R
  BY ElementOfSeq
<1>3. H \in [Nat -> [Fits -> Fits]]
  <2>1. ASSUME NEW v \in Fits, NEW x \in R  PROVE SlideRootQueue(v, x) \in Fits
    BY <2>1, SlideIsSlidBy
  <2> HIDE DEF Fits, n
  <2> QED  BY <1>2, <2>1
<1>4. PICK f : Iterates(f, Fits, w, H)
  <2> HIDE DEF H, Fits
  <2> QED  BY <1>3, Recursion DEF Fits
<1> DEFINE g == [i \in 0..n |-> f[i]]
<1>5. g = [i \in 0..n |-> Body(g, i)]
  <2>1. ASSUME NEW i \in 0..n  PROVE g[i] = Body(g, i)
    <3> HIDE DEF n
    <3>1. CASE i = 0
      BY <1>4, <3>1 DEF Iterates
    <3>2. CASE i # 0
      <4>1. i - 1 \in Nat /\ i - 1 \in 0..n /\ (i - 1) + 1 = i /\ i \in 1..n
        BY <1>2, <3>2
      <4>2. f[i - 1] \in Fits /\ f[(i - 1) + 1] = H[i - 1][f[i - 1]]
        <5> HIDE DEF Fits, H
        <5> QED  BY <1>4, <4>1 DEF Iterates
      <4>3. H[i - 1][f[i - 1]] = SlideRootQueue(f[i - 1], rs[i])
        <5>1. H[i - 1] = [v \in Fits |->
                 IF (i - 1) + 1 \in 1..n THEN SlideRootQueue(v, rs[(i - 1) + 1]) ELSE v]
          BY <4>1, Zenon
        <5>2. H[i - 1][f[i - 1]]
                = IF (i - 1) + 1 \in 1..n THEN SlideRootQueue(f[i - 1], rs[(i - 1) + 1])
                  ELSE f[i - 1]
          <6> HIDE DEF Fits, H
          <6> QED  BY <4>2, <5>1, Zenon
        <5> HIDE DEF Fits, H
        <5> QED  BY <4>1, <5>2, Zenon
      <4>4. g[i] = SlideRootQueue(f[i - 1], rs[i]) /\ g[i - 1] = f[i - 1]
        <5> HIDE DEF Fits, H
        <5> QED  BY <4>1, <4>2, <4>3
      <4> QED  BY <3>2, <4>4
    <3> QED  BY <3>1, <3>2
  <2>2. g = [i \in 0..n |-> g[i]]
    OBVIOUS
  <2> HIDE DEF Body, g
  <2> QED  BY <2>1, <2>2
<1>6. After = [i \in 0..n |-> Body(After, i)]
  <2> HIDE DEF Body, g
  <2> QED  BY <1>5, Zenon
<1> HIDE DEF After, g
<1>7. \A i \in 0..n : After[i] = Body(After, i)
  <2> HIDE DEF Body
  <2> QED  BY <1>6
<1>8. After[0] = w
  <2>1. 0 \in 0..n
    BY <1>2
  <2> QED  BY <1>7, <2>1
<1>9. ASSUME NEW i \in 1..n  PROVE After[i] = SlideRootQueue(After[i - 1], rs[i])
  <2>1. i \in 0..n /\ i # 0
    BY <1>2
  <2> QED  BY <1>7, <2>1
<1> HIDE DEF n
<1> QED  BY <1>1, <1>8, <1>9 DEF n

\* The window fits after every block.
LEMMA SlidFits ==
  ASSUME NEW R, NEW w \in Fitting(R), NEW rs \in Seq(R)
  PROVE  \A i \in 0..Len(rs) : Slid(w, rs, i) \in Fitting(R)
<1> DEFINE S == {i \in Nat : i <= Len(rs) => Slid(w, rs, i) \in Fitting(R)}
<1>1. 0 \in S
  BY SlidSteps
<1>2. ASSUME NEW i \in Nat, i \in S  PROVE i + 1 \in S
  <2> SUFFICES ASSUME i + 1 <= Len(rs)  PROVE Slid(w, rs, i + 1) \in Fitting(R)
    OBVIOUS
  <2>1. i + 1 \in 1..Len(rs) /\ (i + 1) - 1 = i /\ i <= Len(rs)
    OBVIOUS
  <2>2. Slid(w, rs, i + 1) = SlideRootQueue(Slid(w, rs, i), rs[i + 1])
    BY <2>1, SlidSteps
  <2>3. Slid(w, rs, i) \in Fitting(R) /\ rs[i + 1] \in R
    BY <1>2, <2>1, ElementOfSeq
  <2> QED  BY <2>2, <2>3, SlideIsSlidBy
<1>3. \A i \in Nat : i \in S
  <2> HIDE DEF S
  <2> QED  BY <1>1, <1>2, SetInduction
<1> QED  BY <1>3

\* q is the last roots of the first m of s.
HoldsUpTo(q, s, m) ==
  /\ Len(q) = IF m < AcceptableRootWindowSize THEN m ELSE AcceptableRootWindowSize
  /\ \A i \in 1..Len(q) : q[i] = s[m - Len(q) + i]

\* One root slid in keeps that.
LEMMA SlideHolds ==
  ASSUME NEW R, NEW w \in Fitting(R), NEW v \in Fitting(R), NEW s \in Seq(R), NEW m \in Nat,
         HoldsUpTo(w.roots, s, m), SlidBy(w, v, s[m + 1])
  PROVE  HoldsUpTo(v.roots, s, m + 1)
<1> DEFINE q == w.roots
           p == v.roots
           A == AcceptableRootWindowSize
<1>1. q \in Seq(R) /\ p \in Seq(R) /\ Len(q) \in Nat /\ A \in Nat /\ A > 0 /\ Len(q) <= A
  BY WindowAssumption DEF Fitting
<1>2. Len(q) = (IF m < A THEN m ELSE A) /\ \A i \in 1..Len(q) : q[i] = s[m - Len(q) + i]
  BY DEF HoldsUpTo
<1>3. /\ Len(q) = A => /\ Len(p) = A /\ p[A] = s[m + 1]
                       /\ \A i \in 1..(A - 1) : p[i] = q[i + 1]
      /\ Len(q) < A => /\ Len(p) = Len(q) + 1 /\ p[Len(q) + 1] = s[m + 1]
                       /\ \A i \in 1..Len(q) : p[i] = q[i]
  BY DEF SlidBy
<1> SUFFICES /\ Len(p) = IF m + 1 < A THEN m + 1 ELSE A
             /\ \A i \in 1..Len(p) : p[i] = s[(m + 1) - Len(p) + i]
  BY DEF HoldsUpTo
<1> HIDE DEF p, q, A
<1>4. CASE m < A
  <2>1. Len(q) = m /\ Len(p) = m + 1 /\ p[m + 1] = s[m + 1] /\ \A i \in 1..m : p[i] = s[i]
    <3>1. Len(q) = m /\ Len(q) < A
      BY <1>2, <1>4
    <3>2. ASSUME NEW i \in 1..m  PROVE p[i] = s[i]
      <4>1. m - m + i = i
        OBVIOUS
      <4> QED  BY <1>2, <1>3, <3>1, <4>1
    <3> QED  BY <1>3, <3>1, <3>2
  <2>2. ASSUME NEW i \in 1..(m + 1)  PROVE p[i] = s[(m + 1) - (m + 1) + i]
    <3>1. (m + 1) - (m + 1) + i = i /\ (i = m + 1 \/ i \in 1..m)
      OBVIOUS
    <3> QED  BY <2>1, <3>1
  <2>3. m + 1 = IF m + 1 < A THEN m + 1 ELSE A
    BY <1>1, <1>4
  <2> QED  BY <2>1, <2>2, <2>3
<1>5. CASE ~(m < A)
  <2>1. Len(q) = A /\ Len(p) = A /\ p[A] = s[m + 1] /\ \A i \in 1..(A - 1) : p[i] = q[i + 1]
    BY <1>2, <1>3, <1>5
  <2>2. ASSUME NEW i \in 1..A  PROVE p[i] = s[(m + 1) - A + i]
    <3>1. CASE i = A
      <4>1. (m + 1) - A + A = m + 1
        BY <1>1
      <4> QED  BY <2>1, <3>1, <4>1
    <3>2. CASE i # A
      <4>1. /\ i \in 1..(A - 1) /\ i + 1 \in 1..A
            /\ m - A + (i + 1) = (m + 1) - A + i
        BY <1>1, <3>2
      <4>2. q[i + 1] = s[m - A + (i + 1)]
        BY <1>2, <2>1, <4>1
      <4> QED  BY <2>1, <4>1, <4>2
    <3> QED  BY <3>1, <3>2
  <2>3. A = IF m + 1 < A THEN m + 1 ELSE A
    BY <1>1, <1>5
  <2> QED  BY <2>1, <2>2, <2>3
<1> QED  BY <1>4, <1>5

\* So does a whole answer.
LEMMA SlidHolds ==
  ASSUME NEW R, NEW w \in Fitting(R), NEW t \in Seq(R), NEW rs \in Seq(R),
         HoldsUpTo(w.roots, t, Len(t))
  PROVE  HoldsUpTo(Slid(w, rs, Len(rs)).roots, t \o rs, Len(t \o rs))
<1> DEFINE s == t \o rs
           m == Len(t)
           n == Len(rs)
           S == {i \in Nat : i <= n => HoldsUpTo(Slid(w, rs, i).roots, s, m + i)}
<1>1. m \in Nat /\ n \in Nat /\ s \in Seq(R) /\ Len(s) = m + n
  BY ConcatProperties
<1>2. /\ \A i \in 1..m : s[i] = t[i]
      /\ \A i \in 1..n : s[m + i] = rs[i]
  OBVIOUS
<1> HIDE DEF s
<1>3. 0 \in S
  <2>1. Slid(w, rs, 0) = w /\ m + 0 = m
    BY <1>1, SlidSteps
  <2> DEFINE q == w.roots
  <2>2. /\ Len(q) = IF m < AcceptableRootWindowSize THEN m ELSE AcceptableRootWindowSize
        /\ \A i \in 1..Len(q) : q[i] = t[m - Len(q) + i]
    BY DEF HoldsUpTo
  <2>3. Len(q) \in Nat /\ Len(q) <= m
    BY <1>1, <2>2, WindowAssumption
  <2> HIDE DEF m, q
  <2>4. ASSUME NEW i \in 1..Len(q)  PROVE q[i] = s[m - Len(q) + i]
    <3>1. m - Len(q) + i \in 1..m
      BY <1>1, <2>3
    <3> QED  BY <1>2, <2>2, <3>1
  <2>5. HoldsUpTo(q, s, m)
    BY <2>2, <2>4 DEF HoldsUpTo
  <2> QED  BY <2>1, <2>5 DEF q
<1>4. ASSUME NEW i \in Nat, i \in S  PROVE i + 1 \in S
  <2> SUFFICES ASSUME i + 1 <= n  PROVE HoldsUpTo(Slid(w, rs, i + 1).roots, s, m + (i + 1))
    OBVIOUS
  <2>1. /\ i + 1 \in 1..n /\ (i + 1) - 1 = i /\ i \in 0..n /\ m + i \in Nat
        /\ (m + i) + 1 = m + (i + 1)
    BY <1>1
  <2> DEFINE v == Slid(w, rs, i)
             u == Slid(w, rs, i + 1)
  <2>2. u = SlideRootQueue(v, rs[i + 1]) /\ v \in Fitting(R) /\ rs[i + 1] \in R
    BY <2>1, SlidSteps, SlidFits, ElementOfSeq
  <2>3. HoldsUpTo(v.roots, s, m + i)
    BY <1>4, <2>1
  <2>4. s[(m + i) + 1] = rs[i + 1]
    BY <1>2, <2>1
  <2> HIDE DEF v, u, m, n
  <2>5. u \in Fitting(R) /\ SlidBy(v, u, s[(m + i) + 1])
    BY <2>2, <2>4, SlideIsSlidBy
  <2>6. HoldsUpTo(u.roots, s, (m + i) + 1)
    BY <1>1, <2>1, <2>2, <2>3, <2>5, SlideHolds
  <2> QED  BY <2>1, <2>6 DEF u
<1>5. \A i \in Nat : i \in S
  <2> HIDE DEF S
  <2> QED  BY <1>3, <1>4, SetInduction
<1>6. HoldsUpTo(Slid(w, rs, n).roots, s, m + n)
  BY <1>1, <1>5
<1> QED  BY <1>1, <1>6 DEF s

\* Backfilling takes the newest root out and puts the buffered one in its
\* place: the accepted roots are those before the last one was slid in.
LEMMA BackfillFacts ==
  ASSUME NEW R, NEW w \in Fitting(R), NEW v \in Fitting(R), NEW x, SlidBy(w, v, x),
         NEW n \in Nat \ {0}, CanBackfill(v, n)
  PROVE  /\ BackfillRootQueue(v, n) \in Fitting(R)
         /\ \A r : ValidateRoot(BackfillRootQueue(v, n), r) <=> ValidateRoot(w, r)
<1> DEFINE q == v.roots
           b == v.buffer
           p == w.roots
           u == BackfillRootQueue(v, n)
           A == AcceptableRootWindowSize
           s == SubSeq(q, 1, A - 1)
           t == <<p[1]>>
<1>1. /\ q \in Seq(R) /\ b \in Seq(R) /\ p \in Seq(R) /\ Len(q) \in Nat /\ Len(b) \in Nat
      /\ Len(p) \in Nat /\ Len(p) <= A /\ A \in Nat /\ A > 0
  BY WindowAssumption DEF Fitting
<1>2. /\ Len(p) = A => /\ Len(q) = A /\ Len(b) = 1 /\ b[1] = p[1]
                       /\ \A i \in 1..(A - 1) : q[i] = p[i + 1]
      /\ Len(p) < A => Len(b) = 0
  BY DEF SlidBy
<1>3. n <= Len(b)
  BY Zenon DEF CanBackfill
<1>4. n = 1 /\ Len(p) = A /\ Len(b) = 1 /\ Len(q) = A
  <2> DEFINE lq == Len(q)
             lb == Len(b)
             lp == Len(p)
  <2>1. /\ lb \in Nat /\ lp \in Nat /\ lp <= A /\ A \in Nat /\ n <= lb
        /\ (lp = A => lq = A /\ lb = 1) /\ (lp < A => lb = 0)
    BY <1>1, <1>2, <1>3, Zenon
  <2> HIDE DEF lq, lb, lp, A
  <2>2. n = 1 /\ lp = A /\ lb = 1 /\ lq = A
    BY <2>1
  <2> QED  BY <2>2 DEF lq, lb, lp
<1>5. [i \in 1..1 |-> b[1 - i + 1]] = t
  <2> HIDE DEF b
  <2> DEFINE c == [i \in 1..1 |-> b[1 - i + 1]]
  <2>1. 1 - 1 + 1 = 1 /\ \A i \in 1..1 : i = 1
    OBVIOUS
  <2>2. c[1] = b[1] /\ c \in [1..1 -> {b[1]}]
    BY <2>1
  <2>3. c \in Seq({b[1]}) /\ Len(c) = 1
    BY <2>2, SeqDef
  <2>4. <<b[1]>> \in Seq({b[1]}) /\ Len(<<b[1]>>) = 1 /\ <<b[1]>>[1] = b[1]
    OBVIOUS
  <2> HIDE DEF c
  <2>5. c = <<b[1]>>
    BY <2>2, <2>3, <2>4, SeqEqual
  <2> QED  BY <1>2, <1>4, <2>5 DEF c
<1>6. u = [roots |-> s \o t, buffer |-> SubSeq(b, 1, 0)]
  <2>1. u = [roots |-> SubSeq(q, 1, A - 1) \o [i \in 1..1 |-> b[1 - i + 1]],
             buffer |-> SubSeq(b, 1, 1 - 1)]
    BY <1>4 DEF BackfillRootQueue
  <2>2. 1 - 1 = 0
    OBVIOUS
  <2> HIDE DEF u, q, b, t
  <2> QED  BY <1>5, <2>1, <2>2
<1>7. p[1] \in R /\ 1 \in 1..Len(p)
  <2> HIDE DEF p, A
  <2>1. 1 \in 1..Len(p)
    BY <1>1, <1>4
  <2> QED  BY <1>1, <2>1, ElementOfSeq
<1>8. t \in Seq(R) /\ Len(t) = 1 /\ t[1] = p[1]
  <2> HIDE DEF p
  <2> QED  BY <1>7
<1>9. s \in Seq(R) /\ Len(s) = A - 1 /\ \A i \in 1..(A - 1) : s[i] = p[i + 1]
  <2> HIDE DEF q, b, u, p, A
  <2>1. s \in Seq(R) /\ Len(s) = A - 1
    BY <1>1, <1>4
  <2>2. ASSUME NEW i \in 1..(A - 1)  PROVE s[i] = q[i]
    BY <1>1, <1>4, <2>2
  <2> HIDE DEF s
  <2> QED  BY <1>2, <1>4, <2>1, <2>2, Zenon
<1>10. SubSeq(b, 1, 0) \in Seq(R)
  <2> HIDE DEF b
  <2> QED  BY <1>1, <1>4
<1>11. u.roots = s \o t /\ u.buffer = SubSeq(b, 1, 0)
  <2> HIDE DEF u, s, b, t
  <2> QED  BY <1>6
<1>12. /\ u.roots \in Seq(R) /\ Len(u.roots) = A /\ u.roots[A] = p[1]
       /\ \A i \in 1..(A - 1) : u.roots[i] = p[i + 1]
  <2> HIDE DEF s, t, u, A, p
  <2>1. s \o t \in Seq(R) /\ Len(s \o t) = Len(s) + Len(t)
        /\ \A i \in 1..Len(s) + Len(t) :
             (s \o t)[i] = IF i <= Len(s) THEN s[i] ELSE t[i - Len(s)]
    BY <1>8, <1>9, ConcatProperties
  <2>2. Len(s) + Len(t) = A
    BY <1>1, <1>8, <1>9
  <2>3. A \in 1..A /\ ~(A <= A - 1) /\ A - (A - 1) = 1
    BY <1>1
  <2>4. (s \o t)[A] = p[1]
    BY <1>8, <1>9, <2>1, <2>2, <2>3
  <2>5. ASSUME NEW i \in 1..(A - 1)  PROVE (s \o t)[i] = p[i + 1]
    <3>1. i \in 1..A /\ i <= A - 1
      BY <1>1
    <3> QED  BY <1>9, <2>1, <2>2, <3>1
  <2> QED  BY <1>11, <2>1, <2>2, <2>4, <2>5, Zenon
<1>13. u \in Fitting(R)
  <2> HIDE DEF u, s, b, t
  <2>1. u = [roots |-> u.roots, buffer |-> u.buffer]
    BY <1>6
  <2>2. u.buffer \in Seq(R) /\ Len(u.roots) <= A
    BY <1>1, <1>10, <1>11, <1>12
  <2> QED  BY <1>12, <2>1, <2>2 DEF Fitting
<1>14. ASSUME NEW r  PROVE ValidateRoot(u, r) <=> ValidateRoot(w, r)
  <2> HIDE DEF u, A
  <2>1. DOMAIN u.roots = 1..A /\ DOMAIN w.roots = 1..A
    <3>1. u.roots \in Seq(R) /\ p \in Seq(R) /\ Len(u.roots) = A /\ Len(p) = A
      BY <1>1, <1>4, <1>12
    <3> QED  BY <3>1
  <2>2. ASSUME NEW i \in 1..A, u.roots[i] = r  PROVE \E j \in 1..A : p[j] = r
    <3>1. CASE i = A
      BY <1>4, <1>7, <1>12, <2>2, <3>1
    <3>2. CASE i # A
      <4>1. i \in 1..(A - 1) /\ i + 1 \in 1..A
        BY <1>1, <3>2
      <4> QED  BY <1>12, <2>2, <4>1
    <3> QED  BY <3>1, <3>2
  <2>3. ASSUME NEW j \in 1..A, p[j] = r  PROVE \E i \in 1..A : u.roots[i] = r
    <3>1. CASE j = 1
      <4>1. A \in 1..A
        BY <1>1
      <4> QED  BY <1>12, <2>3, <3>1, <4>1
    <3>2. CASE j # 1
      <4>1. j - 1 \in 1..(A - 1) /\ j - 1 \in 1..A /\ (j - 1) + 1 = j
        BY <1>1, <3>2
      <4> QED  BY <1>12, <2>3, <4>1
    <3> QED  BY <3>1, <3>2
  <2> QED  BY <2>1, <2>2, <2>3 DEF ValidateRoot
<1> QED  BY <1>13, <1>14

\* The inductive invariant: the shape of the state, the tree's root as the
\* newest of the window after an answer without removed events, and until
\* the first reorganisation the window as the tree's last roots.
RootsInv ==
  /\ rootWindow \in Fitting(Roots) /\ taken \in Seq(Roots)
  /\ reorged \in BOOLEAN /\ everReorged \in BOOLEAN /\ failed \in BOOLEAN
  /\ (~reorged /\ taken # <<>> => LastIs(rootWindow.roots, taken[Len(taken)]))
  /\ (~everReorged => HoldsUpTo(rootWindow.roots, taken, Len(taken)))

\* The last root of an answer is the newest of the window it leaves behind.
LEMMA AnswerFacts ==
  ASSUME NEW w \in Fitting(Roots), NEW k \in Nat \ {0}, NEW rs \in [1..k -> Roots]
  PROVE  /\ rs \in Seq(Roots) /\ Len(rs) = k
         /\ Slid(w, rs, k) \in Fitting(Roots) /\ Slid(w, rs, k - 1) \in Fitting(Roots)
         /\ LastIs(Slid(w, rs, k).roots, rs[k])
         /\ SlidBy(Slid(w, rs, k - 1), Slid(w, rs, k), rs[k])
<1>1. rs \in Seq(Roots) /\ Len(rs) = k
  BY SeqDef
<1>2. k \in 0..Len(rs) /\ k - 1 \in 0..Len(rs) /\ k \in 1..Len(rs) /\ k \in 1..k
  BY <1>1
<1>3. /\ Slid(w, rs, k) \in Fitting(Roots) /\ Slid(w, rs, k - 1) \in Fitting(Roots)
      /\ Slid(w, rs, k) = SlideRootQueue(Slid(w, rs, k - 1), rs[k])
      /\ rs[k] \in Roots
  BY <1>1, <1>2, SlidSteps, SlidFits
<1> QED  BY <1>1, <1>3, SlideIsSlidBy

\* Backfilling nothing leaves the window.
LEMMA NoBackfill ==
  ASSUME NEW w \in Fitting(Roots)
  PROVE  CanBackfill(w, 0) /\ BackfillRootQueue(w, 0) = w
<1> DEFINE q == w.roots
           b == w.buffer
           t == [i \in 1..0 |-> b[Len(b) - i + 1]]
<1>1. q \in Seq(Roots) /\ b \in Seq(Roots) /\ w = [roots |-> q, buffer |-> b]
  BY DEF Fitting
<1> HIDE DEF q, b
<1>2. Len(q) \in Nat /\ Len(b) \in Nat /\ Len(q) - 0 = Len(q) /\ Len(b) - 0 = Len(b)
  BY <1>1
<1>3. CanBackfill(w, 0)
  BY <1>2 DEF CanBackfill, q, b
<1>4. t = <<>>
  OBVIOUS
<1>5. SubSeq(q, 1, Len(q)) = q /\ SubSeq(b, 1, Len(b)) = b /\ q \o <<>> = q
  BY <1>1
<1>6. BackfillRootQueue(w, 0) = [roots |-> SubSeq(q, 1, Len(q) - 0) \o t,
                                buffer |-> SubSeq(b, 1, Len(b) - 0)]
  BY DEF BackfillRootQueue, q, b
<1> HIDE DEF t
<1>7. BackfillRootQueue(w, 0) = w
  BY <1>1, <1>2, <1>4, <1>5, <1>6
<1> QED  BY <1>3, <1>7

\* It is inductive: an answer without and with removed events, a block
\* without new ones, and a stutter.
LEMMA RootsInvHolds == WindowSpec => []RootsInv
<1>1. WindowInit => RootsInv
  <2> SUFFICES ASSUME WindowInit  PROVE RootsInv
    OBVIOUS
  <2>1. rootWindow = [roots |-> <<>>, buffer |-> <<>>] /\ taken = <<>> /\ reorged = FALSE
        /\ everReorged = FALSE /\ failed = FALSE
    BY DEF WindowInit, EmptyWindow
  <2>2. /\ rootWindow.roots = <<>> /\ Len(<<>>) = 0 /\ taken \in Seq(Roots)
        /\ rootWindow \in [roots : Seq(Roots), buffer : Seq(Roots)]
    BY <2>1
  <2>3. Len(taken) = 0 /\ Len(rootWindow.roots) = 0
    BY <2>1, <2>2
  <2>4. rootWindow \in Fitting(Roots)
    BY <2>2, <2>3, WindowAssumption DEF Fitting
  <2>5. HoldsUpTo(rootWindow.roots, taken, Len(taken))
    BY <2>3, WindowAssumption DEF HoldsUpTo
  <2> QED  BY <2>1, <2>2, <2>4, <2>5, Zenon DEF RootsInv
<1>2. ASSUME RootsInv, [WindowNext]_windowVars  PROVE RootsInv'
  <2>1. ASSUME NEW k \in 1..MaxBlocks, NEW rs \in [1..k -> Roots], NEW n \in 0..k,
               GetAndHandleEvents(rs, n)
        PROVE  RootsInv'
    <3> DEFINE w == Slid(rootWindow, rs, Len(rs))
    <3>1. k \in Nat \ {0} /\ n \in Nat
      BY BoundsAssumption
    <3>2. rootWindow \in Fitting(Roots) /\ taken \in Seq(Roots)
      BY <1>2 DEF RootsInv
    <3>3. /\ rs \in Seq(Roots) /\ Len(rs) = k /\ w \in Fitting(Roots)
          /\ LastIs(w.roots, rs[k]) /\ Slid(rootWindow, rs, k - 1) \in Fitting(Roots)
          /\ SlidBy(Slid(rootWindow, rs, k - 1), w, rs[k])
      BY <3>1, <3>2, AnswerFacts
    <3>4. /\ taken' = taken \o rs /\ reorged' = (n > 0)
          /\ everReorged' = (everReorged \/ n > 0)
      BY <2>1 DEF GetAndHandleEvents
    <3>5. taken' \in Seq(Roots)
      BY <3>2, <3>3, <3>4, ConcatProperties
    <3>6. CASE n = 0
      <4>1. CanBackfill(w, n) /\ BackfillRootQueue(w, n) = w
        <5> HIDE DEF w
        <5> QED  BY <3>3, <3>6, NoBackfill
      <4>2. rootWindow' = w /\ failed' = failed
        BY <2>1, <4>1, Zenon DEF GetAndHandleEvents
      <4>3. reorged' = FALSE /\ everReorged' = everReorged
        <5>1. (n > 0) = FALSE
          BY <3>6
        <5>2. everReorged \in BOOLEAN
          BY <1>2 DEF RootsInv
        <5> QED  BY <3>4, <5>1, <5>2, Zenon
      <4>4. taken'[Len(taken')] = rs[k]
        <5>1. Len(taken \o rs) = Len(taken) + k /\ (taken \o rs)[Len(taken) + k] = rs[k]
          BY <3>1, <3>2, <3>3
        <5> QED  BY <3>4, <5>1
      <4>5. ~everReorged => HoldsUpTo(rootWindow'.roots, taken', Len(taken'))
        <5> SUFFICES ASSUME ~everReorged
                     PROVE  HoldsUpTo(w.roots, taken \o rs, Len(taken \o rs))
          BY <3>4, <4>2, Zenon
        <5>1. HoldsUpTo(rootWindow.roots, taken, Len(taken))
          BY <1>2 DEF RootsInv
        <5> QED  BY <3>2, <3>3, <5>1, SlidHolds
      <4>6. LastIs(rootWindow'.roots, taken'[Len(taken')]) /\ rootWindow' \in Fitting(Roots)
        BY <3>3, <4>2, <4>4, Zenon
      <4>7. failed' \in BOOLEAN /\ everReorged' \in BOOLEAN /\ reorged' \in BOOLEAN
        BY <1>2, <4>2, <4>3, Zenon DEF RootsInv
      <4> QED  BY <3>5, <4>3, <4>5, <4>6, <4>7, Zenon DEF RootsInv
    <3>7. CASE n # 0
      <4>1. reorged' = TRUE /\ everReorged' = TRUE
        <5>1. (n > 0) = TRUE
          BY <3>1, <3>7
        <5> QED  BY <3>4, <5>1, Zenon
      <4>2. rootWindow' \in Fitting(Roots) /\ failed' \in BOOLEAN
        <5>1. CASE CanBackfill(w, n)
          <6>1. rootWindow' = BackfillRootQueue(w, n) /\ failed' = failed
            BY <2>1, <5>1, Zenon DEF GetAndHandleEvents
          <6>2. n \in Nat \ {0}
            BY <3>1, <3>7
          <6> HIDE DEF w
          <6>3. BackfillRootQueue(w, n) \in Fitting(Roots)
            BY <3>3, <5>1, <6>2, BackfillFacts
          <6> QED  BY <1>2, <6>1, <6>3, Zenon DEF RootsInv
        <5>2. CASE ~CanBackfill(w, n)
          <6>1. rootWindow' = rootWindow /\ failed' = TRUE
            BY <2>1, <5>2, Zenon DEF GetAndHandleEvents
          <6> QED  BY <3>2, <6>1, Zenon
        <5> QED  BY <5>1, <5>2
      <4> QED  BY <3>5, <4>1, <4>2, Zenon DEF RootsInv
    <3> QED  BY <3>6, <3>7
  <2>2. CASE HandleBlockWithoutNewEvents
    BY <1>2, <2>2, Zenon DEF HandleBlockWithoutNewEvents, RootsInv
  <2>3. CASE UNCHANGED windowVars
    BY <1>2, <2>3, Zenon DEF RootsInv, windowVars
  <2> QED  BY <1>2, <2>1, <2>2, <2>3 DEF WindowNext
<1> QED  BY <1>1, <1>2, PTL DEF WindowSpec

\* The window keeps to its capacity, reorganisations included, and until the
\* first of them it is the tree's latest roots in their order: for every
\* capacity, set of roots and number of blocks in an answer, whichever roots
\* come again.
THEOREM WindowStaysSound == WindowSpec => []WindowSound
<1>1. RootsInv => WindowSound
  <2> SUFFICES ASSUME RootsInv  PROVE WindowSound
    OBVIOUS
  <2> DEFINE q == rootWindow.roots
  <2>1. /\ q \in Seq(Roots) /\ Len(q) <= AcceptableRootWindowSize
        /\ rootWindow.buffer \in Seq(Roots) /\ taken \in Seq(Roots)
    BY DEF RootsInv, Fitting
  <2>2. {reorged, everReorged, failed} \subseteq BOOLEAN
    BY Zenon DEF RootsInv
  <2>3. WindowTypeOK
    BY <2>1, <2>2, Zenon DEF WindowTypeOK
  <2>4. ASSUME ~everReorged  PROVE HoldsLast(q, taken)
    <3>1. HoldsUpTo(q, taken, Len(taken))
      BY <2>4 DEF RootsInv
    <3>2. DOMAIN q = 1..Len(q)
      BY <2>1
    <3> HIDE DEF q
    <3> QED  BY <3>1, <3>2, Zenon DEF HoldsLast, HoldsUpTo
  <2> QED  BY <2>3, <2>4, Zenon DEF WindowSound
<1> QED  BY <1>1, RootsInvHolds, PTL

\* After an answer without removed events (getAndHandleEvents) proofs made
\* from the current tree are accepted, whatever reorganisations came before.
THEOREM BatchRootAccepted == WindowSpec => []CurrentRootAccepted
<1>1. RootsInv => CurrentRootAccepted
  <2> SUFFICES ASSUME RootsInv, ~reorged, taken # <<>>
               PROVE  \E i \in DOMAIN rootWindow.roots : rootWindow.roots[i] = taken[Len(taken)]
    BY DEF CurrentRootAccepted, ValidateRoot
  <2>1. LastIs(rootWindow.roots, taken[Len(taken)]) /\ rootWindow.roots \in Seq(Roots)
    BY DEF RootsInv, Fitting
  <2> QED  BY <2>1 DEF LastIs
<1> QED  BY <1>1, RootsInvHolds, PTL

\* A reorganised answer that backfillRootQueue survives leaves exactly the
\* roots accepted that were before the answer's last block, for every
\* capacity and whatever came before.
THEOREM ReorgTakenBack == WindowSpec => BackfillUndoes
<1> DEFINE Step == reorged' /\ ~failed' =>
                     LET rs == SubSeq(taken', Len(taken) + 1, Len(taken'))
                         before == Slid(rootWindow, rs, Len(rs) - 1)
                     IN  \A r \in Roots : ValidateRoot(rootWindow', r) <=> ValidateRoot(before, r)
<1>1. ASSUME RootsInv, [WindowNext]_windowVars  PROVE [Step]_windowVars
  <2>1. ASSUME NEW k \in 1..MaxBlocks, NEW rs \in [1..k -> Roots], NEW n \in 0..k,
               GetAndHandleEvents(rs, n), reorged', ~failed'
        PROVE  Step
    <3> DEFINE w == Slid(rootWindow, rs, k - 1)
               v == Slid(rootWindow, rs, k)
               last == SubSeq(taken', Len(taken) + 1, Len(taken'))
    <3>1. k \in Nat \ {0} /\ n \in Nat
      BY BoundsAssumption
    <3>2. rootWindow \in Fitting(Roots) /\ taken \in Seq(Roots)
      BY <1>1 DEF RootsInv
    <3>3. /\ rs \in Seq(Roots) /\ Len(rs) = k /\ v \in Fitting(Roots)
          /\ w \in Fitting(Roots) /\ SlidBy(w, v, rs[k])
      BY <3>1, <3>2, AnswerFacts
    <3>4. taken' = taken \o rs /\ n # 0
      <4>1. taken' = taken \o rs /\ n > 0
        BY <2>1, Zenon DEF GetAndHandleEvents
      <4> QED  BY <3>1, <4>1
    <3>5. last = rs
      <4> DEFINE t == taken
                 m == Len(taken)
                 all == taken \o rs
      <4>1. m \in Nat /\ all \in Seq(Roots) /\ Len(all) = m + k
            /\ \A i \in 1..k : all[m + i] = rs[i]
        BY <3>1, <3>2, <3>3
      <4> HIDE DEF all, m
      <4> DEFINE c == SubSeq(all, m + 1, m + k)
      <4>2. c \in Seq(Roots) /\ Len(c) = k /\ \A i \in 1..k : c[i] = all[m + i]
        <5>1. c \in Seq(Roots) /\ Len(c) = k
          BY <3>1, <4>1
        <5>2. ASSUME NEW i \in 1..k  PROVE c[i] = all[m + i]
          BY <3>1, <4>1, <5>2
        <5> QED  BY <5>1, <5>2
      <4> HIDE DEF c
      <4>3. c = rs
        BY <3>3, <4>1, <4>2, SeqEqual
      <4>4. last = SubSeq(all, m + 1, Len(all))
        BY <3>4 DEF all, m
      <4> QED  BY <4>1, <4>3, <4>4 DEF c
    <3>6. CanBackfill(v, n) /\ rootWindow' = BackfillRootQueue(v, n)
      BY <2>1, <3>3, Zenon DEF GetAndHandleEvents
    <3>7. Slid(rootWindow, last, Len(last) - 1) = w
      BY <3>3, <3>5
    <3> HIDE DEF w, v, last
    <3>8. n \in Nat \ {0}
      BY <3>1, <3>4
    <3>9. \A r : ValidateRoot(rootWindow', r) <=> ValidateRoot(w, r)
      BY <3>3, <3>6, <3>8, BackfillFacts
    <3> QED  BY <3>7, <3>9, Zenon DEF last
  <2>2. CASE HandleBlockWithoutNewEvents
    BY <2>2, Zenon DEF HandleBlockWithoutNewEvents
  <2>3. CASE UNCHANGED windowVars
    BY <2>3
  <2> HIDE DEF Step
  <2>4. CASE ~(reorged' /\ ~failed')
    BY <2>4, Zenon DEF Step
  <2> QED  BY <1>1, <2>1, <2>2, <2>3, <2>4 DEF WindowNext
<1> QED  BY <1>1, RootsInvHolds, PTL DEF WindowSpec, BackfillUndoes
=============================================================================
