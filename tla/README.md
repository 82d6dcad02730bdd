# peer-ring in TLA+

This directory is a verification development of the repository. It holds TLA+ modules translated
from the source, TLC configurations that check them on small instances, and TLAPS proofs of the
properties that hold for every value of the constants. Source references below are relative to
`src/`; `peer-ring.ts` is `packages/core/src/peer-ring.ts` and `manager.ts` is
`packages/core/src/rpc/manager.ts`.

## 1. The system

peer-ring is a Dynamo-style, leaderless ring of equal nodes. Each node runs the same process, learns
about the others from a discovery service, places itself and them on a hash ring, and sends every
command on a key to the nodes that the ring gives for it. `kv-store` is a cache on top.

| Component | State | Operations | Interacts with |
| --- | --- | --- | --- |
| `PeerRing`: ring and placement (`peer-ring.ts`) | `nodes` (sorted entries of the known peers), `isReady`, `addedAt` of each entry | `initRing`, `onPeerAdded`, `onPeerRemoved`, `getInsertionPoint`, `getPreferenceListForKey`, `allocateOnRing`, `deallocateFromRing` | called back by the discovery; read by `execute` |
| `PeerRing`: data transfer | `keysMeta`, the registered commands | `initiateDataTransfer`, `executeStream`, `updateKeysMeta` | asks peers through `getDataStream`, stores through `mset`, `mget`, `mdel` |
| `PeerRing`: execute and quorum, `promiseRaceWithCount` | one race per call: results, errors, promises not settled | `execute` at the node called and, with `forceExecuteOnCurrentNode`, at its peers | `makeRequest` of the network manager, the command handlers |
| `RpcNetManager` (`manager.ts`) | `connections`, `pendinRequests`, `timeoutRef`, the server | `makeRequest`, `onIncomingData`, the close and error handlers, the cleaner, `start`, `stop`, the server stream | gRPC streams; `executeCallback` is `execute` |
| `Store` (`kv-store/src/store.ts`) | the cache of one node: key to item, time, ttl | `set`, `get`, `delete`, `mget`, `mset`, `mdel` | run by `execute` and by the transfer |
| `KVStore` (`kv-store/src/kv.ts`) | `isReady`, `isInitRunning`, `startupError` | `init`, `waitForUp`, `set`, `get`, `delete`, `reconciliate` | `initRing`, `execute` |
| `K8sPeerDiscovery` (`discovery-k8s.ts`) | `peerMap`, the watch, the callbacks | `initWatch`, `whoAmI`, `getActivePeers` | calls `onPeerAdded` and `onPeerRemoved` |

What is hard in it:

* **The ring over a sequence of joins and removals.** Insertion and deletion use a binary search that
  is right only while the ring is sorted, and the nodes see different sequences. What must hold: the
  ring stays sorted and complete, nodes with the same peers place keys alike, a join or a removal
  disturbs no other replica. And, where two peers hash to one position, no search goes astray and no
  removal takes what is not its own.
* **Requests.** A reply, the cleaner and the error of a stream race for the same entry; both ends
  may open a stream to each other at the same time; a reply may come after its timeout. What must
  hold: every request is settled once and in the end, no update runs twice, a connection is usable.
* **Quorums.** A command is run by the replicas in different orders, by the replica that was called
  only after its peers answered, and requests fail before or after the peer ran the command. What
  must hold: overlapping quorums read the latest update, an acknowledged set is stored, the replicas
  converge, every call that asked a peer ends, also while peers join and leave.
* **Deletes and ttls**, which have no time of their own in the store.
* **Transfers** of tokens between nodes while clients write at both ends. The source iterates over a
  map that its own deletions and the clients change, the stream may fail with chunks on their way,
  and a key has its place both in the cache and in `keysMeta`. What must hold: the two agree, what
  was asked for arrives, nothing is lost that the code does not knowingly risk, the node that asked
  does not wait for ever.
* **Coming up.** The watch of the discovery runs ahead of `initRing` and may end or begin anew at any
  time; clients call, and `init` is called, before, during and after a start that may fail. What must
  hold: the ring holds the peers of the discovery and the discovery the pods that run, `initRing` runs
  once, who waits is let go.

`PROJECT.json` lists every component with its status, and under "hazards" each of these dangers at
the line where it bites, with the properties that would catch it.

## 2. Modules

| Module | Models | Kind |
| --- | --- | --- |
| `RingOps` | the pure algorithms of `peer-ring.ts`: tokens, the binary search, the owner of a position, preference lists, allocation, deallocation, the tokens to transfer | operators |
| `Ring` | the handlers of each node's ring | state machine |
| `Membership` | what the ring promises about the set of known peers, and expects of the discovery | abstract specification |
| `Rpc` | requests between nodes: `RpcNetManager` | state machine |
| `Calls` | what a request is to the one that makes it | abstract specification |
| `Store` | one replica's cache for one key | operators |
| `KV` | commands on one key over its replicas, `execute`, the race | state machine, extends `Store` |
| `Transfer` | one stream of tokens between two nodes, and the clients that write meanwhile | state machine, extends `Store` |
| `Startup` | a node from the constructor of `KVStore` to its first calls, the discovery and the pods | state machine |
| `LoopProofs` | what a loop written as a recursive function computes, for the modules below | proofs |
| `RingOpsProofs`, `RingProofs` | theorems about `RingOps` and `Ring` | proofs |
| `RpcProofs`, `RpcCallsProofs` | theorems about `Rpc` | proofs |
| `KVProofs` | theorems about `Store` and `KV` | proofs |
| `TransferProofs` | theorems about `Transfer` | proofs |
| `StartupProofs` | theorems about `Startup` | proofs |
| `MCRing`, `MCRpc`, `MCKV`, `MCTransfer`, `MCStartup` | small instances | TLC |

How they fit: `Ring` and `Startup` both implement `Membership`, one as the ring, the other as the
discovery that calls it, so `Ring` may assume of its caller what `Membership` allows. `Rpc` implements
`Calls`, which is what `KV` takes a request to be. `Ring` says which tokens are asked of whom,
`Transfer` what then becomes of them, and its `TransferEnds` is what lets `Startup` go on after the
transfer of `initRing`. `KV` takes from `Ring` that a node's preference list may be another at each call.

### RingOps and Ring

A ring is a sequence of entries `[ip, pos]`; index 1 is index 0 of `nodes`. `RingSize` is 2^32 and
`Tokens` is `_opts.tokens` in the code. A key is its position: `farmhash` is not modelled, instead
`hash`, chosen in `Init` and constant after, gives each peer its `VirtualNodes + 1` positions. The
loops of the code (the search, the walk over the ring, the allocation of virtual nodes) are recursive
functions, so that they can be proved about.

Every handler of the discovery is synchronous up to its first network call, so each is one action:
`initRing` up to the delay, `stealTokens` for what follows the delay, `onPeerAdded`, its early return
`onPeerAddedAgain`, `onPeerRemoved`. `cooling` holds the peers whose `addedAt` is more recent than
`newPeerCoolDownDelay`; `coolDown` is the passing of that time for the oldest of them. `last` records
the handler that ran and the set of pairs (peer asked, token) that its `initiateDataTransfer` asks
for; no action reads it. The discovery may report a removal of a peer it never added (it does, see
discovery-k8s.ts:84-87), and does not report a node's own end to itself, which is so as long as no
other pod has had the node's address (`Startup` and section 6). `initRing` is called once, which is
how `KVStore` uses it.

`tokensToTransfer` stops at the request; what becomes of it is in `Transfer`.

### Rpc

`streams` are the gRPC calls ever opened, with the messages on their way in each direction, the ends
that called `end()` and those that saw the stream closed. A node's `connections` maps a peer to one of
them. `promise` is the state of each request's promise, `pending` is `pendinRequests`, `timer` is
`timeoutRef` ("stale" is a cleared timer whose reference is still set), `ticks` counts the runs of the
cleaner a pending request has outlived. A request lives through one run of the cleaner by its age and
possibly through a second by a tie, never through a third: this is what `elapsedTime > timeout` with a
period of `timeout` allows.

Each action is one callback of the event loop. `executeCallback` is an `await`, so a command that came
in is in `running` until `reply` writes its answer. What `execute` answers (`answers`): it runs nothing for
an `EmptyReply` (peer-ring.ts:530) and answers it with another; a handler that returns nothing, as
those of set and delete, is answered with `EmptyReply`, one that returns a command, as that of get, with
that command (store.ts:95-100); one that throws, with neither. `Answering` are the requests of the
second kind. Their answer is a get again, so whoever takes it for a request runs the get; `ran` counts
every run of a request's command, by either node and for whatever message. The node that has an id in its pending
map takes a message with that id for a reply; any other message with a command is a request
(manager.ts:170-195).

The streams are external and modelled by what the code may rely on: messages of one stream in one
direction come in order and at most once, a stream may break at any time and lose what is on its way,
each end sees it closed later, and data may still come in after an end called `end()`. The write of
a request and its registration in `pendinRequests` (the callback of the write) are one step: a reply
cannot overtake the local callback.

`Calls` is `Rpc` without the streams: a promise is open from `makeRequest` to its one settlement; the
command is run only once the request was made, possibly long after the promise was rejected; only a
command that was run is answered, and none is run after that. An update is run at most once, a get
again only when its promise was rejected (`RunAgain`). `callState` maps a request that waits for 'drain' or for
its reply to an open one.

### Store and KV

Keys do not interact in these commands, so `KV` models one key; each node's cache is the empty set or
one item. `Lists` are the preference lists that the rings of the nodes may give for the key while
peers join and leave. `execute` takes any of them and keeps it for its whole call, as the local
`nodes` of the code does over its awaits; a peer that is asked runs the command whatever its own ring
says (`forceExecuteOnCurrentNode`). `op` has one record per client call: its list, the peers asked,
those not yet settled, the results in order. `torun` are the requests that a peer has yet to run, `replies`
the answers on their way. `execute` is the client's call up to the first `await`; `executeAtPeer` is the
callback of `onMessage`; `answer` and `fail` settle a request, and `afterSettle` ends the race and, at
a replica, runs the command on the own store, as peer-ring.ts:589-598 does. `Rpc` shows what a request
may do: be answered once, or fail while the peer has run it, will run it, or never will. That a get which
failed may be run again by both nodes is left out here: a get changes no item, and its caller has
settled it.

The clock is `now`, each node's ahead of it by `Skew`. `Epoch` stands for a time far beyond any relative
ttl. A tombstone's item is `Deleted`, the empty string of the code, which `JSON.stringify` never gives.

### Transfer

The two sides are the `source`, which runs `executeStream`, and the `target`, which runs the loop of
`initiateDataTransfer`. A key's token is `getToken`, which `farmhash` gives in the code. `keysMeta` is
flat here: the map of one token is what `OfTokens` selects.

The store's handlers are `async` without waiting for I/O, and so are the loops of `mset`, `mget` and
`mdel`: each runs to its end before the next event, and the module has one action for all that
happens between two events. The generator of `executeStream` gives control away only at `yield`, while
its chunk is written: `proceed` is the code from one yield to the next, `written` the callback of the
write with the `mdel` that follows, `writeFails` the error that ends the generator before it.
`getBatchedKeys` iterates over the live `Map` of `keysMeta`: `unvisited` is what its iterator has yet
to visit, and `follow` says how it meets insertions and deletions, as ECMAScript has it for a `Map`.
An iterator that ran out while it filled a batch is done (`live`).

`newest`, `risked` and `owed` are history variables that only properties read. `risked` are the keys
for which the code has a known gap (section 6): chunks lost with a failing stream after the source
deleted their keys, and writes that the source accepts between the `mget` and the `mdel` of a batch.
Times come from one clock.

### Startup

`pods` is the cluster, `watch` and `events` the Kubernetes watch. Both are external: a watch first
lists the pods there are, in any order, then reports changes in order, and may end at any moment,
with an error or without one. `podIP` gives each pod its address. No two pods use one address at a time
(`uses`), and the process that runs has its own from the start; but an ended pod keeps the one it had in
its status, and another pod may have it by then, the node's own included. `onEvent` is the callback of the watch, `watchEnds` its `done` callback,
with the restart that calls `initWatch` again and gives it a promise and an `isResolved` of its own.
`initDiscovery` is the promise of the first `initWatch`, the only one that `initRing` awaits.
`joinRing` is `initRing` from there to `netManager.start()`, which takes the snapshot of the peers and
registers the callbacks without an event between; `netManagerStarts`, `emitUp` and `initFails` are the
rest of it and what `KVStore` makes of its end. `inits` counts the calls of `_initCache`: the
constructor's, and those of `init`.

## 3. Runs

Passing runs; TLC explores them completely.

| Run | Properties | Bounds |
| --- | --- | --- |
| `ring_virtual_nodes` | `RingInv`, `TypeOK`, `PreferenceListOK`, `RingImplementsMembership`, `MinimalDisruption` | one node's view, 3 peers with 2 entries each, 6 positions in 3 tokens, every assignment of distinct positions up to the order of the entries of a peer other than the node |
| `ring_two_nodes` | `AgreedPlacement`, `RingOrdered`, `OthersStay`, `LeftoversAreShared` | 2 nodes with independent views of 3 peers with 2 entries each: interleaved, wrapped, descending, and two layouts with shared positions |
| `rpc_cross` | `ConnectionsOpen`, `ConnectionsKept`, `RunOnce`, `RpcImplementsCalls` | a get in one direction and an update in the other, 2 streams |
| `rpc_same` | `TypeOK`, `SentIsPending`, `PendingHasTimer`, `SentSettles` | a get and an update of one node, 2 streams, with fairness |
| `kv_quorum` | `QuorumReadsLatest`, `ReplicasConverge`, `AcknowledgedIsStored` | 3 calls, 3 nodes, each call with all three as replicas or with the two that are left without the first, quorum 2, one clock ahead |
| `kv_tombstone` | `DeletedIsHidden` | 3 calls of every kind, 2 nodes, each call with both as replicas or with one, quorums 1 and 2, tombstones, one clock ahead, 2 times |
| `kv_failing` | `TypeOK`, `AcknowledgedIsStored`, `CallsSettle` | 2 calls, 3 nodes, each call with two of them as replicas or with one, quorums 1 and 2, failing requests, 2 times, fairness |
| `transfer_move` | `TypeOK`, `ListedIsLive`, `NothingElseLost`, `HandedOver`, `TransferEnds` | a move or a copy, 3 keys in 2 tokens, any of them at the source, one key a batch, 2 writes of clients, 2 times, a stream that may fail, fairness |
| `startup_watch` | `TypeOK`, `RingFollowsDiscovery`, `DiscoveryFollowsPods`, `OneInit`, `CallsGoOn`, `StartupImplementsMembership` | 3 pods, of which one may have had the node's address before it and one has its own, 3 watches, 1 caller, fairness |

Why the bounds are enough.

* *Ring*: one node's ring depends only on its own history, so one node is enough but for
  `AgreedPlacement`; three peers with two entries each give six entries on a full ring, every order of
  them, repeated peers to skip and a wrap around, in tokens with none, one and two entries. In one
  layout with shared positions every two peers share one, in the other three entries do, two of them of one peer. The histories are unbounded: each run covers every sequence of joins and removals.
* *Rpc*: `MaxStreams` bounds the streams ever opened; a request opens at most one. Two requests are
  enough for two entries of the map, for a timer that one request finds given up by the other, for
  streams opened by both ends and for late replies. Messages that go back and forth after a timeout do so
  without a bound; `ran` tells one run of a command from more than one.
* *KV*: the properties relate two or three calls. Updates must be older, newer or equally old: in
  `kv_quorum` the clock that is ahead does that alone and `MaxTime` lets no time pass, elsewhere
  `MaxTime` gives two times. Two lists that differ by one peer are a join or a removal between two
  calls or during one; three nodes leave room for quorums that overlap in their union. In `kv_failing`
  a call may also have nobody to ask: a quorum of two on a list of one.
* *Transfer*: with one key a batch, three keys in two tokens give a token of several batches, one of a
  single batch, empty tokens, and a next token that writes fill or empty before it is reached; two
  writes are an update or a deletion and another that follows it.
* *Startup*: the node's own pod and two others, each of which may come, end and be deleted at any
  time, one of them with the address that the node has then. Of three watches the first may be lost
  before it found the node, and a second one end and have a successor.

`CHECK_DEADLOCK FALSE` is in the configurations of `Rpc`, `KV`, `Transfer` and `Startup` because their
requests, calls, writes and pods are finite and the system stops when all are done. `Ring` never stops,
and there deadlock is checked.

Symmetry is used for sets of peers, nodes and calls that no other constant tells apart, and never with a
liveness property; the two temporal properties of `ring_virtual_nodes` are action properties that name no peer.
The `VIEW` of `ring_two_nodes` drops `last`; its action properties read of it only what the step leaves
(`last'`), and TLC checks them on every step, also to a state it has seen.

Runs that find a violation are listed with the findings in section 6.

## 4. Fairness

Safety runs assume none. `Rpc!Fairness`: timers fire, data and events of a stream are delivered if the
stream lives, a command that was started finishes, and a stream that drains says so. All of these are
the event loop's and gRPC's own; that a handler is fast is not assumed, nor that a broken stream
drains, nor that anybody makes requests, starts or stops. `KV!Fairness`: a request is run unless it
fails, and an answer that was sent comes in; a request that fails does so by `Rpc`'s `SentSettles`.
`Transfer!Fairness`: chunks and the end of the stream are delivered, and the source runs what it is
asked and hears of its writes, both only while the stream lives; nothing says that a broken stream
calls back. `Startup!Fairness`: the pod of the process that runs is reported as running in the end, a
watch that was asked for opens, its events are delivered, `initRing` goes on or fails. The step from
the transfer to `KVEvents.up` is fair because of `TransferEnds`.

## 5. Proofs

All are checked by TLAPS for every value of the constants that satisfies the named assumptions
(`RingAssumption`, `NodeAssumption`, `HashAssumption`, `RouteAssumption`, `StoreAssumption`,
`KVAssumption`, `TransferAssumption`, `StartupAssumption`). These say of what kind a constant is; the ones that
say more are that a preference list is finite and not empty, a quorum and a batch at least one, that the
pods are finitely many and one of them is the node's own, and that `Transfer`, which is about nodes that
synchronise their data, runs with tombstones. Where a theorem needs a hypothesis beyond them, its
statement has it.

* `RingProofs!RingStaysSorted`: `Spec => []RingInv`, for any number of peers, virtual nodes, tokens and
  positions, if all positions are distinct (`DistinctPositions`; section 6 says what fails otherwise).
  The inductive invariant says that each ring is `Placed`: strictly sorted and with exactly
  the entries of its members as its range. The work is in `RingOpsProofs`: on a sorted ring the
  binary search, a recursive function over its window (left, right), returns the entry's index or the
  one place where it keeps the ring sorted (by induction on the size of the window); so insertion and
  deletion keep `Placed`, with one entry more or less, and so do the loops over the virtual nodes.
* `RingProofs!NodesAgree`: `Spec => []AgreedPlacement`. A sequence is determined by being sorted and by
  its range, so two `Placed` rings of the same members are equal. The hash never changes, so it is the
  hash of the behavior that must give every entry its own position, as the property says, and not every one.
* `RingProofs!RingsStayOrdered`, `OthersAreKept` and `LeftoversShare`: `RingOrdered`, `OthersStay` and
  `LeftoversAreShared`, for every hash. A ring with shared positions is no longer determined by its peers: a search
  may end at any entry of a position, and a removal may pass over one that it should take. The
  invariant (`LooseInv`) says of each ring that it is `Ordered`, not strictly, and that its entries can be
  numbered so that each is its peer's entry of that number and no number comes twice (`Slots`). Without the
  numbers the loop of a removal could not be shown to end with what it should: it takes `VirtualNodes + 1` turns,
  and a peer with an entry on the ring more often than it has it would keep one at a position it does not share.
  `SwapSlots` exchanges the numbers of two equal entries, since the search does not tell which of them it found.
* `RingProofs!ListsAreClockwise`: `PreferenceListOK`. `OwnerFacts` compares the rule of `getInsertionPoint`,
  on indexes, with that of `OwnerPos`, on positions. From the owner's index the walk is a loop whose
  invariant (`Listed`) says that the list has the peers met so far, up to the replication factor, each as far
  down as there are peers nearer (`Before`). It holds because the walk goes clockwise (`VisitFacts`), so
  that the first visit to a peer finds its nearest entry (`FirstVisit`).
* `RingProofs!MovesAreMinimal`: `MinimalDisruption`. When peers are added, the owner's position of a key stays,
  or moves back to one from which the old owner is the first of the old positions, or to a new one right after
  the old owner (`OwnerMoves`). Either way no old peer has fewer peers before it than it had (`MoreBefore`),
  so none enters the list, and read the other way none leaves it when peers go. The proof needs that the
  key is not in the tail of the last token of the smaller ring (`Covered`), and nothing of the larger ring:
  what the property leaves out is what it must (section 6).
* `RingProofs!RingTypeCorrect`, which needs of a ring only that it is in order and so holds for every hash, and,
  with distinct positions, `RingProofs!RingRefinesMembership`: the ring implements
  `Membership` under the mapping of each ring to its members and of `last` to the event.
* `RpcProofs!PendingIsSent`, `RpcProofs!CleanerIsScheduled`: `SentIsPending` and `PendingHasTimer`, from an
  inductive invariant that adds the types they need and that a cleared timer belongs to a stopped node.
  Without the last, `start` could find a stale timer and not set it up.
* `RpcProofs!RpcTypeCorrect`, and `RpcProofs!ConnectionsStayOpen`: `ConnectionsOpen`, which needs that
  nothing is on its way to a node on a stream it has seen closed, since a server adopts the stream a message came in on.
* `RpcProofs!ConnectionsAreKept`: `ConnectionsKept`, one step per action. Only the end of a stream takes a
  connection away, and it compares the stream with the one in the map.
* `RpcCallsProofs!CommandsRunOnce`: `RunOnce`. Nothing in the code counts runs: a command is run by
  whoever takes a message of its request off a stream and does not know it for a reply. The invariant
  (`RanInv`) therefore follows that message back and forth. There is at most one of a request, on its way or
  being run (`OneMessage`, `WireInv`, `RunningInv`), always between its two nodes (`Fits`), and none once
  the request is resolved (`Live`). Only the callee gets the request itself, and has not run it before; what
  comes after it is an answer. An answer that holds a command is of a get, and when it is taken for a
  request the get was given up: by the caller, who does not find it in its map, or by the callee, who gets
  only what the caller ran. An action that reads takes one message from one inbox, one that writes adds at
  most one at an end, and all others only empty inboxes. Three lemmas (`AdoptTakes`, `SentWrites`,
  `EmptiedIsNothingNew`) reduce the streams to that, and one lemma for each kind of step says that it keeps
  the invariant.
* `RpcCallsProofs!RequestsAreCalls`: `RpcImplementsCalls`, step by step. `makeRequest` is `Make` or
  `FailAtOnce`, a reply to a pending request is `Answer`, for which the invariant knows that the command
  was run exactly once, the end of a command is `Run` when it came as the request and `RunAgain` when it came
  as an answer, the cleaner and an unavailable stream are `Fail`, all else is
  a stutter.

* `KVProofs!KVTypeCorrect`: `TypeOK`, for any ttls, clocks and failures, from an invariant (`KVInv`)
  that adds what a call holds in each phase and that only peers that were asked run it or answer.
* `KVProofs!KVAcknowledgedIsStored` and `KVReplicasConverge`, if no item has a ttl and deletes, if
  any, leave tombstones (`Lasting`; section 6 says what fails otherwise). Under that hypothesis a cache that
  is as new as a time t stays so, whatever runs (`SetNewer`, `DeleteNewer`). A call `Leaves` t if
  whoever runs it will have something as new as t: a set does for its own stamp, a delete of a set that
  is on all its replicas for its own begin, since its tombstone is at least as new. `LeftInv`
  says of every call that leaves t how many replicas have it by now: as many as have answered while it
  races, as many as its quorum asks for when it returned, each that ran the command or was not
  asked to. The number is counted as the cardinality of a set of replicas, never as a length, so that
  a reply may come in any order.
* `KVProofs!KVQuorumReadsLatest`, without ttls and deletes, and `KVDeletedIsHidden`, with tombstones and
  without ttls, from one invariant (`ReadInv`): when a get begins, enough replicas of an earlier call
  have what it left. Each of these stays `Fresh`: its answer, when it gives one, is as new, and once it
  is settled the answer is among the results. When the race of the get ends, enough peers have
  settled for one fresh replica to be among them, if the quorums overlap in the union of the two
  lists, and `reconciliate` finds it (`ReconciliateFacts`, for any order of the answers). For
  `DeletedIsHidden` what the get finds is as new as the delete, and an item of the deleted set is not;
  `ItemInv` says that an item anywhere is the payload of the call that stored it, or a tombstone.
* `TransferProofs`: `TransferTypeCorrect`, `TransferListedIsLive`, `TransferNothingElseLost` and
  `TransferHandedOver`, all from the inductive invariant `TransferInv`. `ListedIsLive` is nearly inductive
  as it stands; it needs `WindowInv`: while a chunk is written, the source still holds what
  `mget` read of a key, unless a client wrote the key meanwhile. Hence `mdel` deletes what was sent,
  and `SentInv` knows where that is: last on the wire, or stored. With both, a newest update is always
  `Around`, at a side or on the way. `HandedOver` is about the end of the stream, and its invariant
  (`OwedInv`) about every moment before: an owed key is in the batch, or the iterator has yet to
  visit it, or its token is to come (`Pending`), or it was handed over. That the chain of empty tokens
  that `proceed` skips loses none is a loop, proved with `LoopProofs`.
* `StartupProofs!StartupTypeCorrect`, `StartupRingFollows` and `StartupOneInit` from an invariant that adds
  to the three that the node's own pod never ends and no event says so, hence that no event that ends a pod is of the
  node's address while no other pod has had it (`MeInv`, `EndsOthers`); with it `StartupRefinesMembership`,
  step by step. `RingFollowsDiscovery` and the refinement state this condition themselves (`alone(Me)`), it
  is no assumption; without it the node may take itself off the ring (section 6). `StartupFollowsPods`: `DiscoveryFollowsPods` speaks of the moment when no event is left, so its
  invariant speaks of all others: the last event of a pod says how the pod is (`EventsInv`), and a pod
  without an event on its way is known as it is (`PeersInv`). It covers what the property leaves out of
  sight, the time between two watches: no pod is in `peerMap` then that the list of the next will not have.

Induction is over sets of natural numbers, stated as such (`RingOpsProofs`, `LoopProofs`), since the library's
induction theorems with an operator parameter are beyond the provers used. `LoopProofs` states once what
the recursive functions of the modules need: a loop of n steps whose step takes I[i-1] to I[i] ends in I[n].

Only model-checked: the liveness properties (`SentSettles`, `CallsSettle`, `TransferEnds`, `CallsGoOn`), since
liveness under fairness is out of the prover's reach. Every other property of a passing run is a theorem.

## 6. Findings

Each is a run that TLC must find violated, with the line of the repository that says otherwise.

| Run | What the code does |
| --- | --- |
| `ring_heir` | on a removal the node before the removed entry copies its tokens; the node after it takes the keys over and copies nothing (peer-ring.ts:206-208) |
| `rpc_late` | a reply that comes after its timeout is run as a command, and answered, whatever it is: from then on the two nodes answer each other as long as the stream lives, an `EmptyReply` with an `EmptyReply`, the answer to a get with the same get, run again by both in turn (manager.ts:188) |
| `kv_ttl` | a set with a ttl is taken for expired on arrival: the relative ttl is read as an absolute time (store.ts:46) |

What else the modules show of the code, without a run of its own:

* **The end of the last token.** `getInsertionPoint` wraps to the first entry before it compares tokens
  (peer-ring.ts:107-117): a key after the last entry and in its token goes to the first entry when that one's
  token is not larger, where the comment at line 113 has "each node owns the token completely".
  `MinimalDisruption` may fail at these positions of the ring with fewer peers, which it leaves out
  (`LastTokenTail`), and only at them.
* **Tokens outside 1 to `Tokens`.** Position 0 is in token 0 (peer-ring.ts:336). And since the size of a token
  is rounded (peer-ring.ts:53), where it is rounded down the last positions are in a token after the
  others: with the default of 1000 a token has 4294967 positions, and the 295 above 4294967000 are in
  token 1001. No transfer asks for that one (peer-ring.ts:228-239).
* **Who asks whom.** A new node asks the node before it for tokens that the node after it owned
  (peer-ring.ts:224-226); with a virtual node next to the removed entry a node may ask itself.
* **Colliding positions.** Of two peers on one position, the removal of one may leave it on the ring
  (peer-ring.ts:317-319, and the TODO at 302: "what if 2 nodes hashed on same token?"). It does so only there
  (`LeftoversAreShared`), the ring stays in order, and nobody else loses an entry (`RingOrdered`, `OthersStay`).
  But the peer that left is still a replica, and if it comes back `onPeerAdded` returns early
  (peer-ring.ts:415) and it keeps only what was left; nodes that know the same peers may then hold
  different rings. `RingInv`, `AgreedPlacement`, `PreferenceListOK`, `MinimalDisruption` and
  `RingImplementsMembership` are therefore about distinct positions.
* **Errors.** The reply to a command that threw has neither error nor command ("bare" in `Rpc`); the caller
  waits for its timeout (manager.ts:207-215).
* **Ended streams.** A message on its way on a stream that the server ended as a duplicate makes it the
  connection again and ends the good one (manager.ts:285). This needs that data still comes in after the
  server's own `end()`.
* **UNAVAILABLE** rejects only the request that opened the stream, the others on it wait for their
  timeout (manager.ts:391-400, where the comment speaks of all requests of the connection).
* **'drain'.** A request that waits for it on a stream that dies is never settled (manager.ts:256); `SentSettles`
  therefore starts at the request that was written.
* **Quorum 1 at a replica** keeps a set to itself (peer-ring.ts:590); `ReplicasConverge` is about sets that asked others.
* **A quorum of two with one node.** The race has no promise to wait for and never ends (promises.ts:12-13);
  `CallsSettle` therefore is about the calls that asked somebody, and `kv_failing` has lists of one replica
  on which the others hang.
* **Updates of one millisecond.** Neither `Store.set` nor `reconciliate` has an order for them (store.ts:41,
  kv.ts:134), so the replicas may keep different values for good; the properties of `KV` compare times.
* **Deletes without tombstones** leave nothing to order an older set by (store.ts:80), so a get may find the
  value again though the quorums overlap; `DeletedIsHidden` is about tombstones.
* **Clocks apart.** A tombstone has the time of the replica that makes it: with its clock behind the
  writer's the tombstone does not enter the cache, but the key leaves `keysMeta` (store.ts:79-85) and is
  then live and never transferred. `DeletedIsHidden` therefore asks that the set was stamped before the delete began.
* **Moves that lose.** A move deletes a chunk at the source when its write called back, not when it was
  stored: what is on its way when the stream fails is gone. A write that the source accepts between the
  `mget` and the `mdel` of its batch is deleted with the batch (peer-ring.ts:393-410). `NothingElseLost`
  leaves exactly these out.
* **Tombstones do not move**: a deleted key leaves `keysMeta` (store.ts:80), so a transfer carries the live
  value of one replica and not the tombstone of another.
* **A start that fails** leaves whoever waits in `waitForUp` waiting (kv.ts:119), and `isInitRunning` set, so
  `init` cannot try again.
* **The first watch**, if it ends without an error before it reported this node's pod, leaves
  `initDiscovery` pending for good: its successor resolves a promise of its own
  (discovery-k8s.ts:93-108). One that ends with an error is not started again, and the node hears of no
  peer any more.
* **Peers that stay.** A pod deleted between two watches, or while it runs, is not reported as ended and
  stays on the ring. The address is the key of `peerMap`: a late event of an ended pod takes away a
  running one with its address. `DiscoveryFollowsPods` leaves both out.
* **An address used before.** That running one may be this node itself (discovery-k8s.ts:77-86): when a pod
  that had its address is still listed as ended, and comes after the node in the list, the node takes itself
  out of `peerMap` and, once `initRing` has registered its callbacks, off its own ring. Or `initRing` finds
  itself missing among the active peers. `RingFollowsDiscovery` and `StartupImplementsMembership` say what
  holds as long as no other pod has had the address (`alone(Me)`); the run has such a pod.

## 7. Not modelled

farmhash and JSON: replaced by what they return. Logging, options and their defaults: constants.
Generated gRPC code, the types, the end-to-end application, the cluster scripts: no logic of the system.
`IPeerDiscovery` is an interface; `K8sPeerDiscovery` is its only implementation.

The modules are not composed into one state machine. `Ring` with `KV` and `Transfer` would ask whether a
key's update survives a change of its replicas. It does not always, since a removal copies from the
wrong peer (`ring_heir`) and a join asks the wrong one (section 6), so no property of the whole would
hold but those that `KV` states for quorums that overlap in the union of the old and the new list.
Several transfers at once are not modelled either: each has a stream, a loop and keys of its own, and
they meet only in `Store.set`, which orders updates by their times.

## 8. Plan

Done: (1) `RingOps`, `Ring`, `Membership` and their proofs; (2) `Rpc`, `Calls` and their proofs; (3) `Store`
and `KV`, with lists that change; (4) `Transfer`; (5) `Startup`: the discovery, `initRing` and the start of
`KVStore`; (6) the proofs about `KV`, `Transfer` and `Startup`; (7) the meaning of the preference list and
minimal disruption for every ring; (8) that `Rpc` keeps its
connections; (9) what the ring keeps where positions collide. A run asks one distinct question,
so that modules share runs where they can and the whole stays quick to check.
