# A verification development for nwaku

nwaku is a Nim implementation of the Waku protocols: a node relays messages over
libp2p GossipSub, keeps an archive it serves to others (store), pushes filtered
messages to light clients (filter), limits the rate of publishers with
zero-knowledge proofs (RLN), and offers all this to applications through a REST
API and a C library.  This directory holds TLA+ modules translated from the source,
TLC configurations that check them on small instances, and TLAPS proofs of their
main properties for all instances.  `PROJECT.json` lists the runs, the source lines
each definition translates, the hazards and the theorems.

A node is one operating-system thread running a chronos event loop.  Code between
two `await`s runs without interleaving; what interleaves is handlers that await,
timers, the clock, and whatever other nodes send.  An action of a module is a piece
of code between two awaits, which for many handlers is the whole handler; the
group manager and the connection pool are modelled await by await.  libwaku runs such
a node in a thread of its own and has the program's threads call it; there an action
is a step of one thread between two accesses to what they share.  The C code under
`examples/` uses libwaku: a Node.js addon, a C program and the base64 encoder they
share.

## Inventory

| Component | State | Operations | What is hard | Correct when |
|---|---|---|---|---|
| Filter server (`waku_filter_v2`) | peers with last-seen time and counter; criterion -> peers; maintenance timer | ping, subscribe, unsubscribe, unsubscribe-all, sweep, push | two tables changed separately; many clock readings in a sweep; limits | tables agree, counters cover, limits hold, expired peers go, live ones stay |
| Filter client | subscriptions, message handlers | requests, push handler | pushes of an old subscription | only matching pushes reach handlers |
| REST message cache (`waku_api/message_cache.nim`) | two topic lists, messages, two indices by position | subscribe, unsubscribe, add, read, clear | deletion moves elements; two indices to renumber | indices point right, bound holds, clear removes what was read |
| RLN nonce manager | next nonce, time of last call | getNonce, restart | two clock readings, wall clock, nothing persisted | no nonce twice in an epoch |
| RLN validator | nullifier log by epoch | validate, log, clear | messages of any epoch in any order; clearing | duplicates caught, log bounded, no false accusation |
| RLN group managers | Merkle tree, window of roots, processed block, metadata | register, withdraw, event batches, backfill after a reorganisation, restart | concurrent block batches, lost connection, crash between two writes | the window holds the latest roots; no block lost |
| Rate limiting (`common/tokenbucket.nim`) | budget, last refill | consume, replenish | period boundaries | at most the capacity per period |
| Archive with the queue driver (`waku_archive`) | messages in time order, limited capacity | put, page, evict | cursors that vanish, messages out of order and without timestamp | the newest are kept; pages neither miss nor repeat; reading ends |
| SQLite and Postgres drivers | partitions; connection pool | put, page, retention | partitions removed under the factory, busy connections | no connection shared or leaked; retention keeps what it must |
| Relay (`waku_relay`) | topics, handlers, validators | subscribe, unsubscribe, publish, validate | validators added twice | every message validated once |
| Peer manager and peer store | peers, connectedness, failures, slots, addresses | dial, connection events, prune, reconnect | events overtaken while awaiting | the books match the connections |
| Store, light push, peer exchange, metadata protocols | caches, rate limiters | one request, one response | limits | each request answered once |
| Node, REST handlers | mounted protocols, topic subscriptions | subscribe, unsubscribe through cache and relay | cache and relay disagree | a subscribed topic has a handler |
| libwaku thread (`library/waku_thread`) | single-place request and response channels, two signals, a global flag | new, call, process, answer, destroy | signals that cannot be fired; several instances; shutdown during a call | each call is executed at most once and gets its own answer; calls and destroy return |
| libwaku C API (`library/libwaku.h`, `libwaku.nim`) | context with callback and user data | the exported functions | which of them call back, with what code | results and callbacks agree |
| Node.js addon (`examples/nodejs/waku_addon.c`) | globals: context, references to JavaScript functions, thread-safe function, content topic; the heap | the exported functions, the callbacks, CallJs, cleanup | every early return; memory across C, JavaScript and libwaku; events from another thread | blocks freed once, references live, own callback called, no message cut |
| C example (`examples/cbindings/waku_example.c`) | options, context | the calls of main, the menu | which context and user data it passes | it shows what it receives |
| Base64 (`examples/cbindings/base64.c`) | - | encode | padding | decoding gives the input back |
| C++ example (`examples/cpp`) | - | - | - | written for an earlier interface, see below |
| Discovery, keystore, noise, core types, factory, applications | - | codecs, cryptography, wiring | - | out of scope, see below |

## Modules

### FilterSubscriptions

`waku_filter_v2/subscriptions.nim` and the request handlers and timer of
`protocol.nim`.  `peersSubscribed` and `subscriptions` are the two tables, as
functions on the peers and criteria present; `maintaining` says whether the timer
is armed; `response` is the last reply; `now` is the clock.  The table operations
are operators on tables, the requests are actions (`Ping`, `Subscribe`,
`Unsubscribe`, `UnsubscribeAll`), and so are `MaintainSubscriptions`, `Start` and
`Stop`.  `PeerStoreChange` stands for everything else that changes the peer store.

Two details carry the weight.  `cleanUp` reads the clock once for the first table
and again for every entry of the second; the clock may tick in between, and
`LateSets` are the sets of entries that may be visited after the tick (one tick per
sweep: a sweep takes microseconds, a timeout minutes).  `removeSubscription` visits
a hash set and stops at the first criterion missing from the table, so it may have
got through any subset of the others.

Not modelled here: the push of messages to subscribers (`pushToPeer`, `pushToPeers`,
`handleMessage`) beyond the choice of recipients, metrics, and wire encoding.

### MessageCache

`waku_api/message_cache.nim`, every operation.  Sequences keep their order, because
`del` moves the last element into the hole and the indices refer to positions;
positions start at 1 instead of 0.  A position out of range is a `Defect`, which ends
the program: `defect` becomes true and no action is enabled (the configuration
turns deadlock checking off for that reason).  `returned` is what the call returned,
`arrivedOn` a history variable.  A refused call (unknown topic) changes nothing and
is a stuttering step.

### NonceManager

`getNonce` as `appendRLNProof` calls it.  The caller reads the clock first (`now`),
`getNonce` reads it later (`t`), and the epoch may end in between.  `Restart` is
`mount` making a new manager, `ClockSetBack` the system setting its wall clock.
`fetched` and `repeated` record which <<epoch, nonce>> pairs were handed out and
which more than once.  `disturbed` records the epochs in which a restart, a set-back
clock or a late reading makes a repetition possible; the property is that these are
the only ones.  Bounds: `MaxTime` on the clock, `MaxNonce` on `nextNonce` (any value
from `NonceLimit` on behaves alike until the reset).

### RlnRelay

The validator `generateRlnValidator` makes, with `validateMessageAndUpdateLog`,
`clearNullifierLog` and the log.  It awaits nothing, so a call is one action.  What
the group manager and the proof library say of a message is its `quality`, the first
check it would fail.  The log is a sequence of epochs in order of insertion, as Nim's
`OrderedTable` keeps them.  A message whose metadata can be read enters the log
whatever the verdict.

### RootQueue and RootWindow

`slideRootQueue`, `backfillRootQueue` and `validateRoot` as operators on a record of
the window and its buffer (RootQueue), and the window under the answers of the Ethereum
client (RootWindow).  An answer (`GetAndHandleEvents`) is a table of blocks: each block is
one batch and brings one root, any root, since a block handled twice or a withdrawal can
bring back one the tree had before; then the roots of the blocks with removed events are
backfilled from the buffer, which holds what the last batch pushed out.  A block
with nothing but removed events has no first new event to take the index from
(`HandleBlockWithoutNewEvents`), and popping an empty deque fails too: both are a
`Defect`, `failed`, and nothing follows.  `taken` is the history of the tree's roots.

### OnchainGroupManager

`on_chain/group_manager.nim` from `init` to `isReady`, await by await.  Registrations
are named by their block; the tree is the set of blocks in it, and so is its root.
`sync` is the place in `startOnchainSync`, with its locals `fromBlock`, `toBlock`,
`currentLatestBlock` and `futs`; `inFlight` are the ranges asked for and not handled;
`poll` is the place in the loop `runInInterval` spawns; `metadata` is what
`setMetadata` wrote, which may fail and is then only logged.  An answer is handled in
one step (`RangeAnswered`, `PollAnswered`): nothing on the way awaits, since no caller
in the node sets `registerCb`.  The callback's `setMetadata` comes in a later step
(`PollMetadata`), because chronos resumes an awaiting procedure after others that are
ready.  `Crash` is a stop, a crash, or a client that keeps failing, after which
`retryWrapper` calls the fatal-error action that quits.  `abandoned` records the blocks of
ranges the sync left unawaited.

Left out: registration transactions, `onDisconnect`, answers with removed events
(RootWindow has them), and `isSyncing`, the client's own statement.

### PgAsyncPool

`pgasyncpool.nim` with the queries that share the pool and the health check.  A query
is at `idle`, `waiting` (in the loop of `getConnIndex`), `granted` (the loop ended and the
caller has not resumed), `running` or `done`.  A connection is the address libpq
returned; a closed one's address may be returned again.  The health check's query
repeats: an error resets the pool, then come up to `MaxNumTrials` trials, and the
failure of the last ends the program.

### TokenBucket

`tokenbucket.nim`, with the tokens granted at each time as a history.  `checkUsage`
takes one token; `tryConsume` is modelled for any number.  A period of zero
is not: `newTokenBucket` makes no such bucket.  The budget may exceed the capacity after
`replenish` (finding 4); `BurstBounded` is about buckets nobody replenishes.

### QueueArchive

`archive.nim` over `queue_driver` with the indices of `index.nim`, and a store client that
pages (`toArchiveQuery`, `findMessages`, `toStoreResult` of `waku_node.nim`).  `items`
is the sorted set; `walk` is the client's query and cursor; `got` what it has
received.  A message is what `cmp` compares, which determines its hash as far as the
cursor is concerned; the topic stands for all filters of a query, each of which is a
predicate on the message alone.

The sorted set is a library's red-black tree, and `cmp` is not transitive: equality ignores
the receiver's time, which orders messages without timestamp.  A search for such a
message can stop at an equal item, or miss it when others lie between.  `MayMiss` says
when the shape of the tree may let it, and both outcomes are allowed: the model
covers every shape, and some that a small tree does not take.  Messages may then be
stored twice (`repeated`).  What holds without exception is `QueueSound`; the other
properties are stated for histories without such a message.  The histories `lost`, `got` and
`present` end when one comes, since nothing is said of them then and a client that
goes round in circles would make `got` grow for ever.

### LibwakuRpc and LibwakuThread

LibwakuRpc is the promise: a call on an instance is executed at most once and returns
the answer to this very call or an error.  LibwakuThread is `waku_thread.nim` with
`waku_new` and `waku_destroy`: `app` is where the program's thread is
(`sendRequestToWakuThread`, `stopWakuThread`), `worker` where the instance's thread is in
`run`, `reqChannel` and `respChannel` are the single-place channels and `reqSignal`
and `respSignal` the signals, all per instance; `running` is the one global.  Firing a
signal may fail, which the two sides treat differently: a caller gets an error and
leaves its request in the channel, the worker ignores it.  What the node does with a
request is one step (`Process`).  `ImplementsRpc` is LibwakuRpc with `inCall` the set of
instances whose program thread is inside a call.

One program thread per instance: the channels are for a single producer and a single
consumer, and there is only one signal for all answers.

### Libwaku, NodeAddon and WakuExample

Libwaku says of each function of `libwaku.h` what it may return and with which code it
calls back, for a valid, null or wild context.  It has no state of its own and is what the
two clients are composed with.

NodeAddon is `waku_addon.c`.  An exported function is one action, with the callbacks
libwaku makes in it; argument lists are right, too short or wrong in one place, which are
all the ways through the checks.  `heap` counts the live blocks by kind; `ref` and
`references` are the `napi_ref`s the globals hold and those not deleted; `queues` the
number of items of each thread-safe function.  `waku_set_event_callback` is called with one
argument too few (see Not modelled): the model lets that call crash or work as if it had
been given the context.  Outcomes the code leaves open are choices: an
argument read past the end of an array, and a 64-bit value written into a 32-bit
variable, may crash.  Buffer sizes are the code's, and messages are byte
sequences around their limits; a topic name is its length.

WakuExample is `waku_example.c`: options, the calls of `main` in their order, the
menu and the relay's events.

### Base64

`base64.c` as a function on sequences of bytes, position by position instead of in a
loop, and the decoder of RFC 4648 as the reference.

## Runs

| Run | Instance | Shows |
|---|---|---|
| `filter` | three peers, two places, two criteria each, two ticks | tables and counters agree under every interleaving; no peer too many, and no known peer above its limit; counters drift only in a sweep the clock ticks in; a live peer loses nothing through others; expired peers leave |
| `rate_limits` | nonces: three epochs of three ticks, two nonces; validator: two nullifiers (interchangeable), epochs 0 to 3, a gap of two; roots: a window of three, three roots, seven batches in answers of up to three blocks; bucket: three tokens, periods of three ticks, seven ticks | a nonce is handed out twice only after a restart, a clock set back or a late reading; the log is bounded, duplicates are caught between clearings, no first message is accused; the window holds the latest roots, the tree's among them, and a backfill takes back exactly the last block; bursts and refusals |
| `onchain` | up to seven blocks, two with registrations, ranges of three blocks, two at a time, a crash | restarts skip only abandoned blocks, `isReady` is right, a node that caught up accepts its own root, registrations reach the tree of a running node |
| `pg_pool` | two queries and the health check on two connections with three addresses, a close and a reset | no leak, without a reset no sharing and no bad index, who waits is served |
| `message_stores` | archive: five messages (two without timestamp), three places, pages of one and two; cache: four messages (two with equal timestamps), two pubsub and two content topics, three places | the newest are kept, pages are exact, reading ends; the indices by position stay right, clears remove what was read, unsubscribing keeps what the other topic serves |
| `libwaku_thread` | two instances, three calls each, two signals that fail | LibwakuThread implements LibwakuRpc; who is woken finds its answer; a failed call is executed late only through `waku_destroy`; calls and `waku_destroy` return |
| `node_addon` | five calls, one event, messages of 0, 1, 2, 3, 714, 715 and 2100 bytes | memory sound, own callback, nothing published cut |
| `example_events` | two events | violation: the C example shows no message |
| `filter_limit` | a limit of one criterion, two topics per request | violation: a new peer gets two criteria |
| `epoch_gap` | a gap of two epochs | violation: a log of two epochs is cleared |
| `replenish_cap` | a bucket of three tokens | violation: the budget exceeds the capacity |
| `root_buffer` | a window of five roots, eight batches | violation: the buffer does not hold the roots that left |

`rate_limits` and `message_stores` each put components side by side that share no state
(MCRateLimits, MCMessageStores): the variable `part` says which one a behaviour follows, so
the states are those of the components added up, not multiplied.

Why the bounds are enough.  Filter: a third peer is needed to meet the peer limit of
two, two criteria to remove one of several, and two ticks for a timeout of one
tick to pass, or to be refreshed and pass later.  Message cache: four messages on three
places force an eviction, and three entries in an index are the least in which a
swap-delete changes the order.  Nonces: three epochs let a manager be idle for one
and return.  Validator: a gap of two with four epochs has messages too far from the
clock, epochs out of order, and several clearings.

Root window: seven batches fill a window of three and push out as many and one more; an
answer of three blocks can replace the whole window, and with three roots some must
come back.  Group
manager: seven blocks in ranges of three are one more range than may be in flight,
and let the latest block fall inside, at the end of and just after a range; two blocks
with registrations are what an order of answers needs; the restart after a crash syncs
again before it polls.  Pool: two queries and the health
check on two connections keep one waiting; a third address lets a new connection
reuse a freed one or not.  Bucket: seven ticks hold two refills.

Archive: three places and five messages force evictions between two pages; two of one
time on different topics need every key of the order, and two without timestamp come
at several times.  libwaku: a second instance is what the global flag needs; the third
call meets a channel that the second left full; two failures can hit a request and an
answer, or a request and the stop.  Addon: with 18 bytes of topic name 714 bytes are
the longest message whose JSON text fits and 715 the first that does not; a callback
is replaced and used again within five calls.

Symmetry is used for safety only, on sets no definition orders.

**Fairness.**  `filter`: weak fairness of `MaintainSubscriptions`; the timer
re-arms itself at the end of each callback and the event loop runs due timers.
Nothing is assumed of clients, and the property ends its obligation when the timer is
stopped.  `onchain`: weak fairness of each step of the sync and the poll loop; the
Ethereum client answers or the retries end in a crash, after which nothing is promised
until the next start.  `pg_pool`: weak fairness of whoever awaits or sleeps, of the
database's answers and of the health check's loop, which never ends; `Wake` says that a
sleep of a second or a minute outlasts the zero-millisecond polling of those that can go
on.  Nothing is assumed of when queries begin, so the health check alone must revive an
emptied pool.  `message_stores`: a client of the archive with a cursor asks for the next page.
`libwaku_thread`: weak fairness of each thread of each instance, as the operating system
schedules them; nothing is assumed of when the program calls.  The other runs
check safety only and assume none.

Deadlock checking is off where the model may stop: at its bounds (clock, chain,
resets, batches, calls, messages) or after a `Defect`, a crash or the end of the program.

## Findings

Shown by a run:

1. `relayEventCallback` drops every message while the user data is nil
   (`libwaku.nim:50`); the C example and the Node.js addon both pass NULL
   (`waku_example.c:43`: "we don't need to store a particular userData"), so neither ever
   shows a message.
2. `addSubscription` checks `maxCriteriaPerPeer` only for peers it knows
   (`subscriptions.nim:116-125`); the option is the "Maximum number of pubsub- and content
   topic combination per peers at a time" (`external_config.nim:393`).  What the code does
   enforce is `LimitsBindKnownPeers`.
3. `clearNullifierLog` clears at `MaxEpochGap` epochs, not "if more than MaxEpochGap epochs
   are in the log" (`rln_relay.nim:324`, and the test "should clear epochs > MaxEpochGap",
   `test_wakunode_rln_relay.nim:546`), and so forgets the current epoch with the others: a
   message accepted before is Valid again.  What holds is `DuplicatesCaughtUntilCleared`.
4. `replenish` is "capped to the bucket capacity" (`tokenbucket.nim:53`) only once the
   period is over; nothing in the node calls it.
5. The buffer for reorganisations holds at most one root, while "we store 5 in the buffer"
   (`on_chain/group_manager.nim:109`): every batch overwrites it (line 192), and a second
   removed block pops an empty deque.  What holds is `BackfillUndoes`.

Met while modelling; the models include the behaviour where they reach it, and the
properties are stated so as to hold in spite of it.

Filter, cache and RLN:

6. `getMessages(clear = true)` removes by position in the reverse of index order
   (`message_cache.nim:250`), which is not descending after an unsubscription or an
   eviction reordered the index: messages are removed unread, kept though read, or the
   position is out of range.  `getAutoMessages` sorts first, and `AutoClearRemovesReturned`
   holds.
7. `getNonce` moves `lastNonceTime` on every call (`nonce_manager.nim:49`), refused
   ones too, so a publisher that keeps asking is refused in fresh epochs.
8. `startOnchainSync` may leave its loop with ranges not awaited
   (`on_chain/group_manager.nim:655`): when the last range ended one block before the
   latest, they are handled while the poll loop writes later blocks into the
   metadata, and a crash loses them.  What holds is `RestartLosesOnlyAbandoned`.
9. Registrations in the contract's own block are missed when it is the latest at the
   first start (line 800); `MembersUpTo` leaves that block out.
10. `latestProcessedBlock` goes back when ranges are answered out of order (line 553), and
    blocks are then processed twice, which `CaughtUpRootAccepted` allows for.
11. `onDisconnect` (line 811) replaces `ethRpc` but not the contract object that holds the
    old connection.

Storage:

12. A query waiting during `close` may be given a closed connection
    (`pgasyncpool.nim:119`), and `releaseConn` compares addresses (line 152), which a reset
    lets libpq reuse.  What holds is `ExclusiveWithoutReset`.
13. `cmp` on indices is not transitive (`index.nim:72`): a message without timestamp that
    arrives twice may be stored twice.  `walkToCursor` stops at the first of equal
    items, so that a paging client may be led round for ever or past items it has not
    seen; and `insert(index).value` (`queue_driver.nim:226`) is a `Defect` should the
    deletion before it bring an equal item onto the search path.

libwaku and its clients:

14. `running` is global (`waku_thread.nim:94`): destroying one instance ends the threads of
    all, and later calls on the others wait for ever.  A `waku_new` elsewhere can set it
    again before a stopping thread has seen it, and `joinThread` waits for ever.
    `CallsReturn` and `DestroyReturns` except these cases.
15. The worker ignores that the signal of its answer failed (`waku_thread.nim:65`): the
    caller waits for ever.
16. `waku_new` leaks the thread and the context when CREATE_NODE fails; the
    parse error of `waku_relay_publish` frees the message twice (`libwaku.nim:222-233`);
    `waku_relay_unsubscribe` sends SUBSCRIBE (line 325).
17. The addon calls its onError function also when a publication succeeded; its
    handlers announce two arguments and have one; it publishes no message that is empty or
    longer than the JSON buffer allows (714 bytes with an 18-byte topic name) and aborts
    instead; it calls `waku_set_event_callback` without the context, which does not build; it writes a 64-bit
    timeout into a 32-bit variable (`waku_addon.c:445`).
18. The C example's menu passes `&ctx` or `RET_OK` for the context, and `main` reads
    `peers` and `key` uninitialised when the options are missing.

## Proofs

All theorems are for every value of the constants that satisfies the `ASSUME`s: finite sets
of peers and topics in the filter; natural limits and bounds; a positive epoch size, gap,
period, capacity, window and number of connections; a health check that is not one of
the queries; messages made of bytes.  Every safety invariant and action property of a passing
run is stated by a theorem.

**InductionLemmas.**  The library's induction theorems take a predicate, which no installed
prover can instantiate; its theorem on well-founded relations takes a set.  From it: a set
of naturals has a least element (`LeastExists`), a set closed under successor holds
every natural (`SetInduction`), and iteration defines a function (`Recursion`).  What
recursive functions and folds compute is then proved with sets of the step numbers up to
which it is so.  The module ends with what the others share: how the sum of a function
changes with one of its values, greatest elements of a finite order, and the list of
a finite set in that order.

**FilterSubscriptionsProofs.**  `TypeCorrect`, `TablesAgree` and the action
properties `LimitsEnforced`, `DriftOnlyInLateSweep` and `LivePeersStayServed`.  The inductive invariant joins
the type invariant, `TablesConsistent` and the peer limit: the counter can only be shown not
to wrap from the fact that it covers the listed criteria, and that survives the deletion of
a peer only because a criterion lists known peers.  The lemmas on `CriteriaOf` say how each
table operation changes the set, and with the library's cardinality theorems how it changes
its size.  `LimitsEnforced` needs no more: only `addSubscription` raises a counter or
adds a peer, by no more than it has checked.  A live peer keeps its criteria because no operation on another peer, and no
reading of the clock within a sweep, takes it out of an entry.

**RateLimitProofs.**  The three limits on messages.

- Nonces: `NonceTypeCorrect` and `NonceUnique`.  The invariant speaks of the pairs of
  undisturbed epochs: none is ahead of the clock (`NotAhead`); a reset is safe because every
  pair is of the epoch of `lastNonceTime` or earlier, or of a past epoch (`ResetIsSafe`);
  without a reset `nextNonce` is above every nonce of that epoch (`NextIsFresh`); and after
  the clock was set back below `lastNonceTime` all pairs left are of past epochs
  (`SetBackIsDisturbed`).
- Validator: `LogStaysBounded`, `DuplicatesCaught`, `FirstIsNotSpam`, from the invariant
  that the log holds every recently accepted key and no key that was not seen, and never
  more epochs than the gap (`LogWithinGap`).
- Bucket: `BurstsBounded` and `OnlySpentRefuses`.  What was granted since the last
  refill covers what is missing from the budget (`SpentIsGranted`), nothing is granted ahead of the
  clock, and the bound on the period before a refill (`PeriodsApart`) is carried along, as a
  period of the property overlaps at most two of the bucket's.  Sums over times change in
  one term at a step.

**GroupManagerProofs.**  `RestartIsSafe`: a restart misses no registration up to the block in
the metadata except abandoned ones, for every chunk size, number of concurrent
ranges, chain and number of crashes.  The property alone is not inductive: what may be
written next depends on every block number the manager keeps.  `IInv` says that each
registration up to `latestProcessedBlock`, up to the block before the sync's or the poll's
next range, and up to the end of each range in flight is in the tree, in flight or
abandoned (`Accounted`), and that while the poll loop runs whatever is in flight is abandoned;
so nothing un-abandoned is in flight when the metadata is written.  The same accounting gives
`ManagerIsSound`: a manager that says it is ready is.

`OwnRootAccepted`: the newest root of the window is the tree's, or a block already in
the tree is going to be handled again, which will slide in the whole tree's root
(`WindowFresh`).  A restart keeps the tree and takes the window from the metadata, so the same
must hold of the metadata and the block a restart resumes with (`MetadataFresh`).

`WindowStaysSound`, `BatchRootAccepted` and `ReorgTakenBack` (RootWindow): the batches of one
answer are followed by induction, each slide leaving the last roots that fit; the buffer
holds one root at most, so a backfill that does not fail is of one block, and the root it
puts back is the one that block pushed out.

**PgAsyncPoolProofs.**  `PoolStaysSound` and `ExclusiveUntilReset`.  The database's count of
connections agrees with the pool because no two connections have an address in common
(`AddressesDistinct`), although closing one frees its address: closed ones are in the pool only
while it closes, and nothing is opened then (`OpenOutside`).  Until a reset, who runs or was
granted an index holds a busy connection nobody else holds (`Ownership`); so `releaseConn`,
which looks for an address, releases that one, and the pool is emptied only when nobody
holds anything.

**LibwakuThreadProofs.**  `TypeCorrect`, `SignalledAnswered`, `NoLateExecution` and
`ThreadsImplementRpc`, for every set of instances and any number of calls and failures.
The refinement is not inductive by itself: that an answer belongs to the waiting call
depends on where every earlier request is.  The invariant describes one instance at a
time, by cases on where its two threads are: a request is in the channel, with the worker,
executed or answered, and everything else is quiet; a full channel that nobody waits for
holds a call that failed.  It is an operator on the values of one instance's variables, so
that a step on one instance keeps it for the others; no fact about the global flag is
needed for safety.

**MessageStoreProofs.**  The queue: `QueueStaysSound`, `NewestKept`, `PagesAreExact`.
`Before` is a strict partial order, and what a search can miss is never a neighbour, so items
stay apart by their keys.  The invariant adds that nothing is lost before the queue is full (so
that adding to one that is not full cannot break `KeepsNewest`) and that without a repeated
message no two known indices have the same message, from which the item the deletion finds is
the first.  For the pages, the cursor is the edge of what a client has received: what it should
get is received or beyond the edge (`ReadSoFar`), and what is evicted meanwhile is below
everything kept.  That the sorted list of a set exists and has each item once comes from
InductionLemmas.

The cache: `CacheStaysSound`, and the action properties `AutoClearIsExact` and `OthersKept`.
Both indices join positions of messages to positions of their topics, and reach every
message (`CInv`).  The loops are followed step by step: what
renumbering an index has visited (`Visited`), and what remains after some positions were
removed (`Remains`).  An unsubscription leaves messages unreached until they are removed,
highest first, while the positions below do not change; and a clear in any other order, as
`getMessages` makes it, removes the wrong messages or ends in a `Defect` but leaves the
indices sound (finding 6).

**NodeAddonProofs.**  `AddonMemorySound`: the items on the heap are as many as the queues hold
together, a sum of which each step changes one term.  `HandlersCallTheirOwn`: a slot's
reference is live and no other slot's (`ReferencesOwn`), so that deleting one never deletes
what another handler calls.  `PublishesWhole`: a message that is published was not cut
on its way through the buffers, which rests on `RoundTrip`: decoding what `Encode` writes
gives the input back, for inputs of every length.  The arithmetic of one group is proved from
its bits, for the three ways a group can end; positions are then related by division.
(The prover cannot cope with large integer literals, hence the products.)

Only model-checked: the liveness properties (`ExpiredPeersAreDropped`, `EventuallySynced`,
`WaitersServed`, `WalkEnds`, `CallsReturn`, `DestroyReturns`), since the
prover handles neither fairness nor ENABLED; and the five violations.

The mutated definitions, marked *Faulty* in the modules, are plausible slips of the
code; each breaks the property PROJECT.json pairs it with.

## Plan

Done so far, in this order: FilterSubscriptions, MessageCache, NonceManager, RlnRelay; RootWindow,
OnchainGroupManager, PgAsyncPool, TokenBucket; LibwakuThread with its abstract LibwakuRpc,
NodeAddon, WakuExample, Base64; QueueArchive.  A component gets one run, or a part of
one, that checks safety and liveness together.  Then the proofs, until each safety property was
stated by a theorem.  What remains worth doing:

1. An abstract message cache (a set of messages with topics) that MessageCache implements up
   to `getMessages` with `clear`.
2. The group manager's reconnection with its second poll loop; the window composed with
   RlnRelay (which roots a message may carry).
3. `Partitions`: partitions created, looked up and removed by two loops, retention.
   `removePartition` awaits the database and then pops the first partition of a deque the
   factory loop also changes (`postgres_driver.nim:958`).
4. `PeerManager`: the Joined handler awaits the metadata exchange, and Left may be handled
   first (`peer_manager.nim:395`); backoff, pruning, slots.
5. `Relay` with the REST handlers: `unsubscribeAll` forgets that the topic's
   validator was inserted and leaves it in place, so that a new subscription adds it
   again (`waku_relay/protocol.nim:295`); the cache subscribes to a topic by itself, and
   a later request takes the topic for subscribed (`rest/relay/handlers.nim:67`).
6. `FilterPush`: `handleMessage` computes the subscribers and dials each of them, by which
   time they may have left (`waku_filter_v2/protocol.nim:163`); with the client's table.

## Not modelled

Codecs and data types, cryptography (keystore, noise, proof generation and
verification), SQL text, option parsing and start-up wiring, metrics and logs,
DNS discovery and the discv5 protocol (a library's), and the programs under `apps/`:
they keep no state whose evolution a model checker would explore, or the state is
another project's.

The C++ example was written for an earlier libwaku (`waku_new` without user data,
functions without a context) and does not build against `libwaku.h`: there is no
behaviour to model.  Its `base64.cpp` is the loop of `base64.c` over signed
characters.  The Node.js addon has one call of the same kind:
`waku_set_event_callback(event_handler, userData)` (`waku_addon.c:287`) passes two arguments
to a function that `libwaku.h:47` declares with three, so the addon as it stands does not
build either.  NodeAddon models it all the same, because this is its only such call: as
written it would take the handler for the context and write through it, which is the
outcome "crashed"; with the context the addon's other calls pass it sets the callback.
Both are in the model, and the properties hold for either.  Of libwaku,
the contents of requests and what the node does with them are left out.

Relay, peer manager, store, light push, peer exchange and metadata protocols, the filter
push and client, retention and partitions: planned above, not modelled yet.
