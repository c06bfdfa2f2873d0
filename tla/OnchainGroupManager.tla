------------------------ MODULE OnchainGroupManager ------------------------
(***************************************************************************)
(* How the on-chain RLN group manager follows the membership contract      *)
(* (waku_rln_relay/group_manager/on_chain/group_manager.nim): the history  *)
(* sync that fetches ranges of blocks concurrently, the poll loop that     *)
(* follows it, the metadata both write, and the restart that reads it.     *)
(*                                                                         *)
(* A registration is named by its block, so the tree is the set of blocks  *)
(* whose registrations are in it and its root is that set.  A step runs    *)
(* from one await to the next: an answer of the Ethereum client is handled *)
(* in one step, since nothing on the way awaits (no caller in the node     *)
(* sets registerCb).  The client may take any time over an answer, so      *)
(* ranges in flight are answered in any order.  A client that keeps        *)
(* failing ends the program (retryWrapper, onFatalErrorAction): that is a  *)
(* Crash.  Tree and metadata live in one database, written in order, so a  *)
(* crash finds the writes up to some moment.                               *)
(***************************************************************************)
EXTENDS RootQueue, FiniteSets

CONSTANTS
  Deployed,        \* rlnContractDeployedBlockNumber
  BlockChunkSize,
  MaxFutures,
  MaxBlock,        \* bound on the chain
  MaxEvents,       \* bound on the blocks with registrations
  MaxCrashes       \* bound on crashes

ASSUME SyncAssumption ==
  /\ Deployed \in Nat \ {0}
  /\ BlockChunkSize \in Nat /\ MaxFutures \in Nat
  /\ MaxBlock \in Nat /\ Deployed <= MaxBlock
  /\ MaxEvents \in Nat /\ MaxCrashes \in Nat

Blocks == Deployed..MaxBlock

Ranges == [from : Blocks, to : Blocks]

BlocksOf(rs) == UNION {r.from..r.to : r \in rs}

NoMetadata == [block |-> 0, roots |-> <<>>]

VARIABLES
  head,       \* the chain's latest block
  events,     \* the blocks with registrations
  tree,       \* persisted: the registrations in the Merkle tree
  metadata,   \* persisted: last processed block and roots, or NoMetadata
  window,     \* validRoots and validRootBuffer
  latestProcessedBlock,
  sync,       \* where startOnchainSync is; "off" when there is no process
  fromBlock, toBlock, currentLatestBlock, futs,    \* its locals
  inFlight,   \* ranges the sync asked for and that are not handled yet
  poll,       \* where the poll loop is
  pollRange,  \* the range it asked for
  abandoned,  \* history: blocks in ranges a sync ended without awaiting
  crashes     \* history: how many

chain == <<head, events>>
syncVars == <<sync, fromBlock, toBlock, currentLatestBlock, futs>>
pollVars == <<poll, pollRange>>
vars == <<chain, tree, metadata, window, latestProcessedBlock, syncVars, inFlight,
          pollVars, abandoned, crashes>>

Min2(a, b) == IF a < b THEN a ELSE b
Max2(a, b) == IF a > b THEN a ELSE b

-----------------------------------------------------------------------------
\* Faulty: slides only for blocks that are new to the tree.
HandleNewEvents(w, r) ==
  LET After[b \in Nat] ==
        IF b < r.from THEN w
        ELSE IF b \in events \ tree
             THEN SlideRootQueue(After[b - 1], tree \cup (events \cap (r.from..b)))
             ELSE After[b - 1]
  IN  After[r.to]

\* Each block with events is one atomicBatch; the root it slides into the
\* window is that of the whole tree at that moment.
HandleEvents(w, r) ==
  LET After[b \in Nat] ==
        IF b < r.from THEN w
        ELSE IF b \in events
             THEN SlideRootQueue(After[b - 1], tree \cup (events \cap (r.from..b)))
             ELSE After[b - 1]
  IN  After[r.to]

\* The part of getAndHandleEvents after the answer.
HandleRange(r) ==
  /\ window' = HandleEvents(window, r)
  /\ tree' = tree \cup (events \cap (r.from..r.to))
  /\ latestProcessedBlock' = r.to

\* A failure to write the metadata is only logged.
SetMetadata(block, roots) ==
  metadata' \in {metadata, [block |-> block, roots |-> roots]}

FirstBlock(processed) == IF processed > Deployed THEN processed + 1 ELSE Deployed

\* init reads the metadata and startGroupSync begins.  It asks the latest
\* block number.
Start ==
  LET processed == Max2(metadata.block, Deployed)
  IN  /\ sync = "off"
      /\ window' = [roots |-> metadata.roots, buffer |-> <<>>]
      /\ latestProcessedBlock' = processed
      /\ fromBlock' = FirstBlock(processed)
      /\ sync' = "latest"
      /\ UNCHANGED <<chain, tree, metadata, toBlock, currentLatestBlock, futs,
                     inFlight, pollVars, abandoned, crashes>>

\* The top of the sync's loop, with these locals, up to its next await: the
\* loop ends and the poll loop begins, or it asks for the latest block
\* again, or it sleeps before the next range.
LoopTop(from, latest, fs) ==
  /\ fromBlock' = from
  /\ currentLatestBlock' = latest
  /\ futs' = fs
  /\ IF from >= latest
     THEN /\ sync' = "listening"
          /\ poll' = "number"
          /\ abandoned' = abandoned \cup BlocksOf(fs \cap inFlight')
          /\ UNCHANGED toBlock
     ELSE /\ sync' = IF from + BlockChunkSize > latest THEN "refetch" ELSE "delay"
          /\ toBlock' = Min2(from + BlockChunkSize, latest)
          /\ UNCHANGED <<poll, abandoned>>

SyncLatest ==
  /\ sync = "latest"
  /\ UNCHANGED inFlight
  /\ LoopTop(fromBlock, head, {})
  /\ UNCHANGED <<chain, tree, metadata, window, latestProcessedBlock, pollRange,
                 crashes>>

SyncRefetch ==
  /\ sync = "refetch"
  /\ currentLatestBlock' = head
  /\ toBlock' = Min2(fromBlock + BlockChunkSize, head)
  /\ sync' = "delay"
  /\ UNCHANGED <<chain, tree, metadata, window, latestProcessedBlock, fromBlock, futs,
                 inFlight, pollVars, abandoned, crashes>>

\* The sync waits for its ranges when there are enough, or no more to come.
AwaitsFuts(fs) == Cardinality(fs) >= MaxFutures \/ toBlock = currentLatestBlock

\* The range is asked for; the sync awaits its ranges or goes on.
SyncFetch ==
  LET r == [from |-> fromBlock, to |-> toBlock]
      fs == futs \cup {r}
  IN  /\ sync = "delay"
      /\ inFlight' = inFlight \cup {r}
      /\ IF AwaitsFuts(fs)
         THEN /\ sync' = "await"
              /\ futs' = fs
              /\ UNCHANGED <<fromBlock, toBlock, currentLatestBlock, poll, abandoned>>
         ELSE LoopTop(toBlock + 1, currentLatestBlock, fs)
      /\ UNCHANGED <<chain, tree, metadata, window, latestProcessedBlock, pollRange,
                     crashes>>

\* Faulty: the block the sync is heading for.
BlockHeadedFor == currentLatestBlock

\* The block that goes into the metadata: all ranges up to it were awaited.
BlockAwaited == toBlock

SyncAwaited ==
  /\ sync = "await"
  /\ futs \cap inFlight = {}
  /\ SetMetadata(BlockAwaited, window.roots)
  /\ UNCHANGED inFlight
  /\ LoopTop(toBlock + 1, currentLatestBlock, {})
  /\ UNCHANGED <<chain, tree, window, latestProcessedBlock, pollRange, crashes>>

\* A range of the sync is answered.
RangeAnswered(r) ==
  /\ r \in inFlight
  /\ inFlight' = inFlight \ {r}
  /\ HandleRange(r)
  /\ UNCHANGED <<chain, metadata, syncVars, pollVars, abandoned, crashes>>

\* Faulty: does not see a single new block.
PollLate ==
  /\ poll = "number"
  /\ head > latestProcessedBlock + 1
  /\ poll' = "events"
  /\ pollRange' = [from |-> latestProcessedBlock + 1, to |-> head]
  /\ UNCHANGED <<chain, tree, metadata, window, latestProcessedBlock, syncVars,
                 inFlight, abandoned, crashes>>

\* The poll loop learns of new blocks.  (With none it sleeps and asks again.)
PollNumber ==
  /\ poll = "number"
  /\ head > latestProcessedBlock
  /\ poll' = "events"
  /\ pollRange' = [from |-> latestProcessedBlock + 1, to |-> head]
  /\ UNCHANGED <<chain, tree, metadata, window, latestProcessedBlock, syncVars,
                 inFlight, abandoned, crashes>>

PollAnswered ==
  /\ poll = "events"
  /\ HandleRange(pollRange)
  /\ poll' = "metadata"
  /\ UNCHANGED <<chain, metadata, syncVars, inFlight, pollRange, abandoned, crashes>>

\* The callback resumes, later than its range was handled.
PollMetadata ==
  /\ poll = "metadata"
  /\ SetMetadata(latestProcessedBlock, window.roots)
  /\ poll' = "number"
  /\ UNCHANGED <<chain, tree, window, latestProcessedBlock, syncVars, inFlight,
                 pollRange, abandoned, crashes>>

\* stop, a fatal error or a crash: what was in memory is gone.
Crash ==
  /\ sync # "off"
  /\ crashes < MaxCrashes
  /\ crashes' = crashes + 1
  /\ sync' = "off" /\ poll' = "off"
  /\ futs' = {} /\ inFlight' = {}
  /\ UNCHANGED <<chain, tree, metadata, window, latestProcessedBlock, fromBlock,
                 toBlock, currentLatestBlock, pollRange, abandoned>>

\* The chain grows, with or without registrations in the block.
Mine(registers) ==
  /\ head < MaxBlock
  /\ registers => Cardinality(events) < MaxEvents
  /\ head' = head + 1
  /\ events' = IF registers THEN events \cup {head + 1} ELSE events
  /\ UNCHANGED <<tree, metadata, window, latestProcessedBlock, syncVars, inFlight,
                 pollVars, abandoned, crashes>>

Init ==
  /\ head \in Blocks
  /\ events \in SUBSET (Deployed..head) /\ Cardinality(events) <= MaxEvents
  /\ tree = {}
  /\ metadata = NoMetadata
  /\ window = EmptyWindow
  /\ latestProcessedBlock = 0
  /\ sync = "off" /\ poll = "off"
  /\ fromBlock = 0 /\ toBlock = 0 /\ currentLatestBlock = 0
  /\ futs = {} /\ inFlight = {}
  /\ pollRange = [from |-> 0, to |-> 0]
  /\ abandoned = {}
  /\ crashes = 0

Next ==
  \/ Start
  \/ SyncLatest \/ SyncRefetch \/ SyncFetch \/ SyncAwaited
  \/ \E r \in inFlight : RangeAnswered(r)
  \/ PollNumber \/ PollAnswered \/ PollMetadata
  \/ Crash
  \/ \E registers \in BOOLEAN : Mine(registers)

Spec == Init /\ [][Next]_vars

\* The client answers every request in the end (or the process ends, which
\* is a Crash), and chronos resumes the awaiting code.
Fairness ==
  /\ WF_vars(SyncLatest) /\ WF_vars(SyncRefetch) /\ WF_vars(SyncFetch)
  /\ WF_vars(SyncAwaited)
  /\ \A r \in Ranges : WF_vars(RangeAnswered(r))
  /\ WF_vars(PollNumber) /\ WF_vars(PollAnswered) /\ WF_vars(PollMetadata)

FairSpec == Spec /\ Fairness

-----------------------------------------------------------------------------
(* Properties.                                                             *)

RootSeqs == Seq(SUBSET Blocks)

\* The shape of the state; the window keeps to its size, in memory and in
\* the metadata.
TypeOK ==
  /\ head \in Blocks /\ events \in SUBSET (Deployed..head)
  /\ tree \in SUBSET events
  /\ metadata.block \in 0..head /\ metadata.roots \in RootSeqs
  /\ Len(metadata.roots) <= AcceptableRootWindowSize
  /\ window.roots \in RootSeqs /\ Len(window.roots) <= AcceptableRootWindowSize
  /\ window.buffer \in RootSeqs
  /\ latestProcessedBlock \in 0..head
  /\ sync \in {"off", "latest", "refetch", "delay", "await", "listening"}
  /\ fromBlock \in 0..(MaxBlock + 1) /\ toBlock \in 0..head
  /\ currentLatestBlock \in 0..head
  /\ futs \in SUBSET Ranges /\ inFlight \in SUBSET Ranges
  /\ poll \in {"off", "number", "events", "metadata"}
  /\ pollRange.from \in 0..MaxBlock /\ pollRange.to \in 0..head
  /\ abandoned \in SUBSET Blocks
  /\ crashes \in 0..MaxCrashes

\* The registrations a complete sync up to block b has.  The contract's own
\* block is left out: a sync that starts when it is the latest block takes it
\* for processed and never fetches it.
MembersUpTo(b) == {e \in events : Deployed < e /\ e <= b}

\* A restart resumes after the block in the metadata: every registration up
\* to it is in the tree, except in ranges a sync did not wait for
\* (setMetadata in startOnchainSync and getNewBlockCallback).
RestartLosesOnlyAbandoned == MembersUpTo(metadata.block) \subseteq tree \cup abandoned

\* Faulty: allows for the window's capacity, not for the roots it has.
IsReadyWithinCapacity ==
  /\ head >= Len(window.roots)
  /\ latestProcessedBlock >= head - AcceptableRootWindowSize

\* u256(currentBlock) - u256(validRoots.len) wraps below zero, and the
\* comparison is then true.
IsReady ==
  /\ head >= Len(window.roots)
  /\ latestProcessedBlock >= head - Len(window.roots)

\* While the node follows the chain, isReady says so only when the members
\* of all blocks but the last few are in the tree.
ReadyIsFresh ==
  poll # "off" /\ IsReady
    => MembersUpTo(head - Len(window.roots)) \subseteq tree \cup abandoned

\* The manager's books are sound, and isReady reads them right.
ManagerSound == TypeOK /\ ReadyIsFresh

\* A node that has handled every block accepts proofs made from its own
\* tree, also when it restarted with metadata older than its tree.
CaughtUpRootAccepted ==
  /\ poll = "number" /\ latestProcessedBlock = head
  /\ inFlight = {} /\ abandoned = {} /\ tree # {}
  => ValidateRoot(window, tree)

\* A registration reaches the tree of a running node, unless a sync
\* abandoned its block.
EventuallySynced ==
  \A b \in Blocks \ {Deployed} :
    b \in events /\ sync # "off" ~> b \in tree \cup abandoned \/ sync = "off"
=============================================================================
