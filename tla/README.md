# A TLA+ model of myflowhub-core

myflowhub-core is the core library of a tree of message hubs. A hub registers
with its parent, accepts child connections, dials the parent, reads framed
messages, routes them by nodeID and sends answers. Almost all of its difficulty
is concurrency: one goroutine per connection, hooks that run outside locks, lazily
started dispatchers, helper goroutines left behind by a time-out, and a shutdown
that meets all of them half way. This directory models that part, checks it with
TLC on small instances and proves the central results with TLAPS for every
instance.

## 1. Inventory

| Component | State | Operations | What makes it correct |
|---|---|---|---|
| `connmgr` | connection table, node and device index, hooks | Add, Remove, CloseAll, Update/Remove index, direct-conflict eviction | hooks once, nothing lost, indexes clean, one direct connection per node |
| `server` | started flag, context, wait group, parent state | Start, Stop, hooks, serveConn, parent link loop, Send, Broadcast | one parent, reattach, Stop ends and releases |
| `process/senddispatcher` | shard queues, connection writers, context, lock | Dispatch, shard worker, writer, CloseConn, Shutdown | frames whole and in order, every accepted frame answered once, shutdown ends |
| `process/dispatcher` | frame queues, workers, runtime context | OnReceive, worker loop, route, Shutdown | order per connection, queued frames routed |
| `process/prerouting`, `header_router` | none of their own; the manager's index | PreRoute, forward, broadcast, hop limit | frames terminate, reach their target, are handled once; broadcasts descend |
| `eventbus` | buckets by name, handlers, queues, closed flag | Publish, PublishSync, Subscribe, Unsubscribe, Close | one bucket per name, no call after removal, Close stops workers |
| `listener/tcp_listener`, `reader` | socket, watcher goroutine | Listen, ReadLoop, Close | a rejected connection is closed, cancellation ends the loops |
| `listener/multi_listener` | list of listeners, closed flag, context | Listen, Close | one child's end ends all, wherever the others are in their start |
| `listener/quic_listener` | transport handle, closed flag | Listen (session, then stream), Close | as the TCP listener |
| `listener/rfcomm_listener` on Linux | D-Bus connection, profile objects, accept channel | Listen, Accept, dial by UUID, calls from BlueZ, cleanup | descriptors taken or closed, the listener stays registered, a dialled pipe stays usable |
| `listener/rfcomm_listener` on Windows | listening socket and SDP record; socket and read cache of a pipe | Listen, Accept, Close, dial, Read, Write with a fallback for refused sizes | a number of a closed socket is not used again, every byte once and in order, writes end |
| dials of `server`, `bootstrap`, `quic_listener`, `rfcomm_listener` | a socket, the goroutine in Connect | one per transport, under a context | what a cancelled or failed dial opened is closed, once |
| `header`, `writeutil`, `process/frame_writer` | - | Encode, Decode, WriteAll, WriteFrame | frames are decoded as they were sent |
| `process/queuestrategy` | round-robin counter | SelectQueue, StrategyFromConfig | what belongs together shares a queue |
| `kit/permission` | the shared configs by address; roles, node roles, permissions, defaults of each | SharedConfig, Upsert, Invalidate, Snapshot, ApplySnapshot, questions | one Config per core config, a copy answers as its source |
| `bootstrap/selfregister` | one connection, a helper goroutine per send and read | register, login, wait for the answer | the result is the parent's verdict, the time-out releases everything |
| `config`, `subproto` | a map of strings; none | Get, Set, builders, answer helpers | - |

How they interact. A listener or the parent loop calls `Manager.Add`; its OnAdd
hook, installed by `Server.Start`, starts `serveConn`, which runs the read loop
and at its end calls `Manager.Remove`. `Remove` runs the OnRemove hook, outside
the lock: it publishes on the event bus, wakes the parent loop and calls
`SendDispatcher.CloseConn`, and only afterwards is the connection closed. The
read loop gives frames to `DispatcherProcess.OnReceive`; a worker routes them:
pre-routing forwards through `Server.Send` and the send dispatcher, or the
handler of the sub-protocol is called, which may bind nodeIDs in the manager and
asks the shared permission Config. Before all that a node without a nodeID
registers with its parent over a connection of its own.

Hard behaviours: removal races (read loop, eviction, `CloseAll`, handlers); hooks
after the unlock; lost wake-ups; a writer drained while a new one is made;
`select` between a send and the end of a context while the channel is closed;
stale indexes and routing loops; socket numbers that the system gives out again;
a late answer after a time-out; and shutdown against everything else.
`PROJECT.json` lists each as a hazard with the properties aimed at it.

## 2. Modules

| Module | Models | State and actions |
|---|---|---|
| `ConnLife` | what the manager promises of a connection (abstract) | one state per connection: fresh, managed, removed, closing, closed |
| `ConnManager` | `connmgr/manager.go` with its callers in `server.go` and `listener.go` | one variable per map (`conns`, `nodeIndex`, `devIndex`), the metadata, and counters of the calls each goroutine still owes (`hookDue`, `closeDue`, `evicting`): a locked section is one action, what follows the unlock is another |
| `SendDispatcher` | `process/senddispatcher.go`, `frame_writer.go` | calls of Dispatch, shard queues, one record per writer object, the closer goroutine and the lock it keeps, removals from the wait for that lock to the close; a frame is two chunks, header and payload, and a write may fail with none or a part of its chunk sent |
| `Server` | `server/server.go`: Start, hooks, serveConn, parent link, Stop | program counters of the goroutines, the life of each connection, `parentState` |
| `EventBus` | `eventbus/bus.go`, `bucket.go` | each call a process with a program counter; buckets with queue, handlers and a worker; the read-write lock by who reads and who waits to write |
| `Routing` | `route`, `sourceMismatch`, `PreRoute`, `Decide`, forwarding, on a tree of hubs | links, per-hub index, frames in flight with hop limit and hops used, frames that a full queue or an enqueue time-out dropped |
| `Dispatcher` | `process/dispatcher.go` as a worker pool, `queuestrategy.go` | the strategy and its counter, OnReceive calls, queues, workers, shutdown |
| `Bluez` | `rfcomm_listener/bluez_linux.go` | the shared system bus, a profile object for the listener and one for the dial, the life of every descriptor; a call from BlueZ is its arrival, its check, its `select` and, for a dial, the store of `closed`, each an action; so are the decision of a dial and its cleanup |
| `Winsock` | the listener of `rfcomm_listener/native_windows.go` | the field `lnSock`, who holds the socket's number, the SDP record, the steps of the one Close that does the work |
| `Listeners` (extends `Bluez`, `Winsock`) | `multi_listener`, and the accept loops of `tcp_listener`, `quic_listener`, `rfcomm_listener` | one program counter, closed flag and `l.ln` per child, the calls of `MultiListener.Close` (watcher, Listen, outside), each closing child after child |
| `Dial` | the dials of TCP, QUIC, the Android provider, RFCOMM by channel on Linux and on Windows | the dial's place, the goroutine in Connect, who holds the socket's number |
| `SelfRegister` (extends `Dial`) | `bootstrap/selfregister.go` | the caller, its helper goroutine, the connection, the parent and the frames between them; a call of the helper may end up at a stranger's socket |
| `Permission` | `kit/permission/permission.go` | `sharedConfigs`, the Config each racing builder made, a replica and the snapshot on its way |
| `Wire` | `frame_writer.go`, `writeutil.go`, Read and Write of `native_windows.go`, `HeaderTcpCodec.Decode`, `ReadLoop` | the stream as a sequence of bytes `<<frame, position>>`; the sender's remaining data and chunk sizes, the receiver's cache and decoding stage |
| `ConnManager_proofs`, `SendDispatcher_proofs`, `Server_proofs`, `EventBus_proofs`, `Routing_proofs`, `Dispatcher_proofs`, `Listeners_proofs` | the proofs about the module of that name (`Listeners` with `Bluez`, `Winsock` and `Wire`) | |
| `Node_proofs` | the proofs about `SelfRegister` with `Dial`, and about `Permission` | |
| `MC*` | instances for TLC (`Server` needs none); `MCNode` puts `SelfRegister`, `Permission` and `Wire` in one run | |

A comment `Faulty variant` marks an operator that is no part of the model: it is
a plausible bug of the definition below it, used to see that a property notices
(the list is `mutants` in `PROJECT.json`).

What is abstracted. Connections, frames, names and IDs are model values. A
nodeID in the metadata is a value of the type the code expects. A payload is not
empty, except in `Wire`. Shard and writer buffers have at least one place. In `SendDispatcher`
a failed write says nothing of the next one: it may work, fail or stall. In `Routing` a
hub routes a frame in one step, with one reading of its index; the queues between two
hubs are in `SendDispatcher` and `Dispatcher`, and here only whether they lose the frame. In `Server` the hooks
return (what can block inside them is in `SendDispatcher`), the reader factory
returns a reader as the default one does, connection IDs are unique (their reuse
is in `ConnManager`), and Start after Stop is left out. In `EventBus` a bucket
has one worker, as `server.New` configures it. In `Bluez` the registration of a
profile (bus, export, RegisterProfile) is one step that succeeds or fails, and a
descriptor is only a number; that the system bus connection is shared, and that
BlueZ drops the profiles of a closed one, is taken from how godbus and BlueZ work
(external). In `Winsock` and `Dial` the number of a
closed socket may be given to another socket of the process at any time, and back.
`Dial` leaves out the address; RFCOMM by UUID on Linux is in `Bluez`. In
`SelfRegister` a frame is what the two parsers look at, a status, a code and a
node_id; the check of the options before the dial and the text of errors are left
out. The parent answers each request at most once, in every form the parsers tell
apart, and may send other frames unasked, lose the connection or be silent. In
`Permission` every method is one step because it holds the Config's lock; Load reads
the core config's keys in one step because nothing in the repository changes that
config at run time. Permission lists are sets. In `Wire` a field is a property of the
byte that ends it, and bytes that are not a header may decode to anything.
Undefined or racing outcomes are nondeterministic: every ready case of a `select` may
be taken, a send on a closed channel and a write to the nil map are the outcome
`panic`.

## 3. Runs

Passing:

* `ConnManager`: `c1` and `c2` with the same ID, `c3` with a device, one node, fair
  goroutines. Two connections with one ID are what reuse needs, two with one node
  what a direct conflict needs; `OneCompanion` lets `c1` meet one of the other two,
  not both, and the theorems have the invariants for any number. `MaxEvict = 1`
  bounds the evictions of an ID that are pending at once. `RemovedOnce`, `NoLeak`,
  `StaleOnlyByLateBind`, `DirectUniqueUndisturbed`, `RemovedIsClosed`, and the
  refinement `LivesAsPromised`.
* `SendOrder`: three frames, two for connection `a` on which any write may fail, for
  good or for once, one for `b` that may be removed, all through one shard with queues of
  length one, so that every wait and time-out occurs: `WholeFramesInOrder`,
  `CallbackOnce` (and without an error only for a frame that was written),
  `OpenWhileOwned`.
* `SendLive`: two frames for one connection that may be removed, whose writes may fail
  and whose peer may stop reading, without enqueue time-outs (they would hide a blocked
  queue), and a second connection to remove: `AcceptedCompletes`, `ShutdownEnds`,
  `RemoveCloses`. A removal counts from its call, which may find the lock with the
  closer: two connections are what it needs for one to wait for the other's peer.
  `MaxWriters` is never the reason a step is missing. `Bounded` allows the second
  removal beside one frame, not two, and lets a failed write leave nothing on the wire:
  that is history, which no goroutine reads, and `SendOrder` has both cases.
* `Server`: one child, two parents (the second is the reconnection):
  `OneParent`, `ReattachUnlessEarly`, `CancelReleases`, `StopEnds`, and the
  refinement `LivesAsPromised`.
* `EventBus`: two events, a synchronous one, one subscriber that may unsubscribe
  inside its handler, a buffer of one: `OneBucketPerKey`, `RemovedNeverCalled`,
  `CloseStopsWorkers`, `PublishProgress`.
* `Routing`: four hubs of depth three, a message that must go up and down with a hop
  limit of just its way, one down across a hub without a handler for it, a broadcast, an
  anonymous command and a login; two faults (`MaxFaults`), each a lost link, a changed
  index entry or a dropped frame, for a routing loop needs two; a
  default hop limit of 4 in place of 16: `HopBudget`, `BroadcastGoesDown`,
  `NeverDuplicated`, `Quiesces`, `Reaches`.
* `Dispatcher`: four frames of three connections, two sub-protocols and two pairs of
  nodes, arranged so that every strategy but round robin keeps other frames together,
  two of them from different read loops, and that two connections share a queue under
  the default; two queues of two places, one worker each. With
  more workers on a queue (`Workers > 1`, a setting of the code) no order can hold,
  so `RoutedInOrder` is about one. `RoutedInOrder`, `QueuedIsRouted`.
* `Listeners`: TCP and QUIC under one MultiListener with one connection to accept;
  RFCOMM on BlueZ alone with a Close from outside; RFCOMM beside a dial; RFCOMM on
  Winsock. One descriptor is enough for an accept that comes late; three goroutines may
  call Close. `WinsockOwn`, `ListenConverges`.
* `BluezProfiles`: RFCOMM on BlueZ beside a dial, under a Close from outside. An accept
  channel of one place and two descriptors are what a full backlog and a descriptor
  behind the one a dial took need. `StrandedOnlyByRace`, `ProfilesStayUsable`.
* `Node`: a registration over each transport, with and without login, two node_ids
  to assign and at most one frame nobody asked for (`MaxNotices = 1`: one is enough
  to be taken for an answer); and, for a node that does not register, two handlers
  asking for the shared Config of one or two core configs at one or two addresses,
  two changes (`MaxChanges`, one to set and one to revoke) and one snapshot on its
  way at a time. And the frames on a pipe (`Wire`): payloads of 10, 0 and 2
  bytes, a header of 3 with a prefix of 2, chunks of 8 for writing and 4 for reading. A
  payload longer than a write chunk, an empty one and a chunk that can be halved three
  times are the cases of the code; the real sizes differ only in scale. The three parts
  share no state, so a behaviour shows one of them.
  `OutcomeAsAnswered`, `EndsReleased`, `ForeignOnlyAfterCancel`, `OneShared`,
  `SyncedUnlessEmpty`, `DeliveredAsSent`, `OkIffWritten`, `WriteEnds`.

Violated, with the sentence of the code they contradict:

* `SendInterleave` (`FrameIntegrity`): `CloseConn` takes the writer out of the
  map and then drains it. A frame dispatched in between gets a second writer and
  the chunks of two frames mix on the connection, against "确保同一连接上的帧不会并发交错".
* `ServerReattach` (`Reattach`): the loop calls `setConn` after `Add`. A parent
  that drops in between closes nothing and the loop waits for ever, against
  "使边节点在父节点可用后自动重新挂回".

Other differences met while modelling are visible as the exceptions of passing
properties: a bind after the removal leaves an index entry to a closed connection
(`lateBound`); a nodeID whose binding was removed or overwritten, or whose connection
was added with it, can have two direct connections (`disturbed`); the exit of a read
loop removes whatever holds the ID; the dispatcher dies with the context of its
first caller (`root`); a Shutdown that overlaps the first Dispatch is not covered
by `ShutdownEnds` (its premise is that the context is done); the OnRemove hook of
a stalled connection waits for the close that comes after it (`stalled`); a
handler that unsubscribes itself blocks its bucket (`SelfBlocked`); a relay
without a handler for the sub-protocol does not forward, and a frame that meets a full
queue is dropped without a word to its sender (`Reaches`); a removal waits at the
dispatcher's lock while the closer drains the writer of somebody else's stalled peer
(`RemoveCloses`); sends racing
a close panic in `SendDispatcher`, `Dispatcher` and `EventBus`; a Close from
outside that meets a child between its closed check and `l.ln` leaves that child
listening until the context ends (`early`); the cleanup of an RFCOMM dial closes
the bus the listener is registered on, and a second descriptor for a dial runs the
cleanup of the first (`ProfilesStayUsable`); a descriptor handed over while its
taker leaves stays open in the channel, and so does one handed over after a dial was
decided, between its failed ConnectProfile and the end of its cleanup or between the
send of the pipe it took and `closed.Store` (`Ajar`, both in `raced`); Accept of Winsock may wait at
the socket that was given the closed listener's number (`strayed`); a cancelled
Windows dial closes its socket twice, and its goroutine or a read may still be on
the way to the number (`ForeignOnlyAfterCancel`); a frame the parent sends unasked
is taken for the answer to a registration (`notices`); the Android provider's dial,
a call on a blocking RFCOMM descriptor, and a Windows read or write that comes after the
Close and meets the number with a new owner, outlive the time-out (`EndsReleased`);
an empty part of a permission snapshot leaves the old part standing, where the
comment at `permission.go:136` says the snapshot overwrites (`SyncedUnlessEmpty`);
a core config allocated at the address of a collected one gets that one's
permissions (`OneShared`); after a write that
failed inside a frame, be it a send time-out on a connection that lives on, the writer
goes on with the next frame (`"cut"` and the second half of `Follows` in
`SendDispatcher`) and the peer reads it misaligned (`torn` in `Wire`).

Fairness. Every fair action is the next step of a goroutine that is able to run
(weak fairness: the Go scheduler does not starve it) or an unlocked continuation
of a call. Nothing that depends on a peer, a user or a caller is fair: sends,
binds, removals, context ends, Stop, stalls, failing writes, drops, connections, calls
from BlueZ. A removal that has begun gets the dispatcher's lock once it is free. In
`Wire` only the Windows pipe is fair, because its socket has a send time-out; a
plain pipe may block for ever. Waiting for a QUIC stream ends (`StreamFails`) by
its time-out. A read loop ends for sure only when
its context is done or its pipe is closed. In `Listeners` an Accept ends when its
socket is closed, and not when it waits at a stranger's. In `SelfRegister` the
time-out of the context comes, Connect ends by itself (the system's own limit),
`DialContext`, `DialAddr` and `OpenStreamSync` end with the context, and a call on a
closed pipe ends, with the exception of the blocking descriptor; that closing an
Android pipe interrupts its read is assumed of the provider. The provider's Dial, the
parent, the network and the new owner of a number owe nothing. In `EventBus` a worker whose context is
done and whose queue is not empty chooses; queues are finite, so it ends.

`CHECK_DEADLOCK FALSE` is used where the system really comes to an end (the server has
stopped, all frames are done); the connection manager is checked for deadlock.

## 4. Proofs

In brackets is the property a theorem states. Six of them are the safety halves of
liveness properties: `NoneLost`, `Attended`, `WokenUnlessEarly`, `CloseReachesAll`,
`NothingLeft` and `ClosedAtReturn`. The `.cfg`s list the liveness properties instead,
and leave out the type invariants too. TLC finds all of these to hold when they are
added to the runs of their modules; only `TypeOK` of `Listeners` stands in the module
of its proofs.

`ConnManager_proofs`, for all connections, IDs, nodes and devices, from
`ConnAssumption` (IDs are a function of connections; `None` is none of them):

* `TypeCorrect`;
* `HookAtMostOnce` (`RemovedOnce`) and `NothingLeaks` (`NoLeak`). Neither is
  inductive: a removal must know that what the table holds under an ID has that
  ID, was added, and is owed nothing yet. `Accounts` adds `Keyed` and `Untouched`
  to say so;
* `IndexesAreClean` (`StaleOnlyByLateBind`);
* `OneDirectConnection` (`DirectUniqueUndisturbed`): `DirectAgrees` (a direct
  binding agrees with the metadata) and `HoldsOrEvicted` (a managed connection
  bound directly to an undisturbed node either holds the index entry or is
  about to be evicted) are its strengthening.

* `ImplementsConnLife` (`LivesAsPromised`): the manager implements `ConnLife` under the
  mapping `lifeOf`, which reads a connection's place off the table and the hook and
  the close still owed. It rests on `Accounts`: a removal maps to `TakeOut` of one
  connection because what the table holds is owed nothing yet, `CloseAll` to
  `TakeOut` of all, the hook and the close to their own steps; everything else,
  index changes and binds above all, leaves the life alone (`LifeStep`).

`Routing_proofs`, for every tree, index, set of frames and default hop limit:

* `TypeCorrect`;
* `HopLimitBoundsForwarding` (`HopBudget`): the hops left and used add up to the
  limit the frame started with, so routing loops end whatever the indexes say;
* `BroadcastsDescend` (`BroadcastGoesDown`), by `OnTree`: links only join a hub and its
  parent;
* `NothingDuplicated` (`NeverDuplicated`), with `Apart`: a frame that was not sent has
  left no trace, a frame for one node is in one place and in none once handled
  (`Single`), and a hub that has a broadcast has it once and, unless it is where the
  broadcast started, from a parent that was visited (`Spread`). A copy sent down twice
  would need a cycle of parents, so this theorem alone uses `TreeAssumption`: the hubs
  have depths. The code does not enforce a tree; parents are configured, and this is what
  a configuration has to be (`HopLimitBoundsForwarding` needs no such thing).

`Server_proofs`, for any sets of children and parents:

* `TypeCorrect`;
* `AtMostOneParent` (`OneParent`): a managed parent is the one in the loop's variable
  (`TheLoops`). A return to dialling keeps that because the channel the loop waits for
  closes only once its own connection has left the manager (`WaitsForIts`), and an add
  because nobody else has touched the new connection (`Owned`);
* `WakeUpNotLost` (`WokenUnlessEarly`): a loop that waits for a parent that is gone has
  its channel closed, or the hook ran before `setConn`. This is the safety half of
  `ReattachUnlessEarly`, and says that the race of run `ServerReattach` is the only way
  to lose the wake-up. It needs that such a hook is recorded while the loop is still in
  `OnAdd` or before `setConn` (`EarlyRecorded`);
* `NoneOrphaned` (`Attended`), the safety half of `CancelReleases`: whoever opened a
  connection has it in hand until a read loop has it. Nothing but `IInv` is needed, in
  which `NotYet` keeps Start from finding the loop or the listener already at work;
* `ImplementsConnLife` (`LivesAsPromised`), step by step from `IInv`.

`SendDispatcher_proofs`, for any tasks, connections, shards, writers and buffer sizes:

* `TypeCorrect`: `TypeOK`, and whoever holds a task, a writer or a connection holds a
  proper one (`Filled`);
* `CalledBackOnce` (`CallbackOnce`), by `InFlight`: order tasks by the moment Dispatch
  accepted them; shard queue, worker, writer channel and writer hold pending tasks in
  that order (`ShardOrder`, `WriterOrder`, `Passed`), so that no task is in two places
  and none is called back while in one;
* `NoTaskLost` (`NoneLost`), the safety half of `AcceptedCompletes`: an accepted task that
  was not called back is with somebody (`Held`). That needs `Drains`: a worker ends only
  at a closed, empty queue, a writer at a closed, empty channel, and `InFlight`, so that
  what a writer puts aside is not what somebody else holds;
* `FramesWholeInOrder` (`WholeFramesInOrder`), whatever fails, times out or drains: on a
  connection that CloseConn has not reached, a frame begins only behind a whole one or
  one whose write failed, and no two mix. By `OnTheWire`: such a connection has one
  writer that is not gone (`OneWriter`), what is on its wire comes before everything
  still to be written (`WireOrder`), and the last chunk is a payload, belongs to a task
  called back with a write error, or is the header of the frame that writer is in
  (`Tip`). That such a callback stands (`CallLasts`) is `InFlight`'s;
* `StaysOpen` (`OpenWhileOwned`), by `OwnerCloses`.

`EventBus_proofs`, for any events, names, subscribers, buckets and queue length, from
`BusAssumption` (calls and buckets are different things, and `None` is neither):

* `TypeCorrect`: `TypeOK`, and a call past `getOrCreateBucket` has a bucket (`Bound`);
* `OneBucket` (`OneBucketPerKey`), by `Filed`: until Close drops the map, it holds every
  bucket that was made;
* `RemovedNotCalled` (`RemovedNeverCalled`): handlers are left to call only under the
  read lock (`LeftEnlisted`), and a handler is with the bucket its Subscribe found until
  `removeHandler` is done (`Enlisted`), which needs the write lock of that bucket;
* `NoWorkerEscapes` (`CloseReachesAll`), the safety half of `CloseStopsWorkers`: every
  bucket that was made is in the map until Close has cancelled it and dropped the map
  (`Filed`, `Cancelled`), and the second look at `closed` makes none afterwards.

`Dispatcher_proofs`, for any frames, hash values, queues, workers and queue length, from
`DispatcherAssumption` (the idle and the exit mark of a worker are no frames):

* `TypeCorrect`: whatever the strategy, and however far the round robin counter has come, the
  queue chosen exists;
* `NoFrameLost`: a frame that was taken is in its queue, with one worker, or done;
* `ShutdownLeavesNothing` (`NothingLeft`), the safety half of `QueuedIsRouted`: that, and
  `Drained`: a worker ends only at a closed, empty queue, and nothing comes after;
* `OrderKept` (`RoutedInOrder`), for `Workers = 1`: with more workers on a queue it is
  false, two frames being routed at once, and the run has one worker too. The queue and
  its worker hold frames in the order taken (`QueueOrder`, `WorkerOrder`), frames of a
  queue end in that order (`QueueByQueue`), and what a strategy keeps together goes to
  one queue (`ByStrategy`).

`Listeners_proofs`, for any set of children, number of descriptors and backlog:

* `TypeCorrect`: in particular no `acceptCh` outgrows its backlog;
* `ClosesItsOwn` (`WinsockOwn`): until the one Close that does the work reaches
  `closesocket`, the number belongs to the listener (`OwnSocket`), and the closed flag
  was set before (`ClosedBefore`);
* `LeftBehindByRace` (`StrandedOnlyByRace`) and `ProfilesUsable` (`ProfilesStayUsable`),
  by `BluezInv`: a descriptor between its arrival and the queue has somebody to serve
  it, was overtaken, or will find the profile closed (`Handed`), BlueZ calls only profiles
  that are served, closed or ajar (`CalledWhileServed`), and the life of the two profile
  objects (`ProfileLife`). A descriptor that arrives once a dial's cleanup has returned
  or `closed` is set is closed, not left behind.

and about `Wire`, for any number of frames, payloads, header length and chunk sizes,
from `WireAssumption` (the prefix is shorter than the header):

* `WireTypeCorrect`;
* `OkMeansWritten` (`OkIffWritten`): the counters of the nested write loops say what of
  the frame is still to go out (`Counted`), frames take turns (`InTurns`), and a
  prefix of every frame is on the stream, the current one's at its end (`Prefixes`);
* `DeliversWhatWasSent` (`DeliveredAsSent`): what the reader took and has not delivered,
  its buffer and then its cache, is what the stream has behind the frames delivered
  (`Received`, which holds also when the stream is torn). While it is not, that place
  is the start of a frame (`InStep`) and what is before it is what was delivered
  (`Before`). Delivering needs that the bytes in the buffer are one frame, which follows
  from `Prefixes`: the bytes after position 1 of a frame are its own, to the end.

These are facts about positions of a sequence, not a recursion over it, and so need no
induction over the stream.

`Node_proofs`, for any transports, node_ids, handlers, core configs and addresses:

* `RegTypeCorrect`: with it, at most two requests reach the parent, which a helper left
  behind by a timeout could break;
* `OthersOnlyAfterCancel` (`ForeignOnlyAfterCancel`): until the context ends the
  number is the dial's from Connect to Close, and nobody is left on the way to a system
  call (`OursUntilCancel`);
* `ReturnsWithoutSocket` (`ClosedAtReturn`), the safety half of `EndsReleased`: a dial that
  failed has no socket, a connection that was closed has one only for a call in
  progress, and who returned did either (`Released`);
* `ReportsTheVerdict` (`OutcomeAsAnswered`): `Conversation` says what is on its way at
  every step of caller and helper, phase by phase (before the register request, waiting,
  answered; the same for the login), as long as the parent sends nothing unasked;
* `PermTypeCorrect` (`PermTypeOK`): every Config maps nodes to roles and roles to
  permissions. What the core configs may say is `SettingsAssumption`; of each key of
  a text the last well-formed entry is kept (`KeepsTheLast`), and there is a last one
  because the naturals are well-founded (`WFMin` of the library);
* `OneConfig` (`OneShared`): what a handler got is what the map stores under its
  address (`HasStored`), which was built by a handler with that address (`StoredByOwn`);
* `ReplicaInStep` (`SyncedUnlessEmpty`): the snapshot on its way is that of a Config that
  has not changed, or it has arrived (`SyncInv`), and equal contents answer every
  question alike (`SameAnswers`).

Only model-checked:

* liveness (`RemovedIsClosed`, `Quiesces`, `EndsReleased`, `StopEnds`, ...): fairness and
  ENABLED are outside the prover. Of these `AcceptedCompletes`, `QueuedIsRouted`,
  `CloseStopsWorkers`, `CancelReleases`, `ReattachUnlessEarly` and `EndsReleased` have
  their safety halves proved: nothing is lost, forgotten or left without somebody to
  deal with it. That whoever has it gets on is what TLC checks.

## 5. Not modelled

* The wrong victim of a read loop's end (`server.go` removes by ID, so a connection that
  has taken over the ID goes with it) is an action of `ConnManager`, but no property
  forbids it: the code does it, and what the properties say of a removed connection
  holds for the wrong one too.
* Listen of TCP and QUIC returning without an error, Close called on one child of a
  `MultiListener` directly, the extension of a header by `hdrLen` in `Decode`, and the
  wrap of the round robin's `uint64` after 2^64 frames.
* Configuration, the sub-protocol helpers and the interfaces hold no state of
  interest: a locked map of strings, builders of answers, declarations.
* TLS, endpoint and UUID parsing, sockaddr layouts and the Android provider are calls
  into libraries and the operating system. Of the header only what frames the
  stream is modelled; the other fields are copied byte by byte.
* `Manager.Range`/`Broadcast` and `Server.Broadcast` are reads followed by Sends. The
  first error of a Broadcast is stored by several writer goroutines without a lock
  (`server.go:350`): any of the errors may be the one returned, and no property
  could say more.
* A send that meets the closing of its channel and a write to the nil map after
  `Close` panic (`dispatcher.go:349`, `senddispatcher.go:273`, `bus.go:167`). The models
  have them as outcomes of the call; no property excludes them, because they can
  happen while the server stops.
* The goroutine `ReadLoop` starts waits for the context only and outlives its
  connection (`tcp_reader.go:38`), keeping its pipe in memory until the server
  stops; it takes no step that a property could see.
* A restart of a stopped server, registering handlers after the start, and a second
  `Load` of a permission Config: nothing in the repository does them.

## 6. Plan

Done, in this order: `ConnManager` and its proofs, `SendDispatcher`, `Server`,
`EventBus`, `Routing` and its proofs, `Dispatcher`, `Bluez` and `Listeners`, `Wire`;
then `ConnLife` with its refinement by `ConnManager` and `Server`, the queue strategies,
`Dial` with `SelfRegister`, `Permission`, and `Winsock`; then the proofs of section 4:
of every safety invariant the runs check, of every type invariant, of both refinements,
and of the safety halves of six liveness properties.

Next:
1. the remaining liveness properties (`RemoveCloses`, `StopEnds`, `PublishProgress`,
   `ListenConverges`, `ShutdownEnds`): an invariant that says, of every state in which
   the promised one is not reached, which fair step is enabled;
2. the fields of the header that are not part of the framing, should a change of
   `Decode` ever give them a meaning for the stream;
3. `Manager.Range` and the two Broadcasts as reads of a table that changes meanwhile,
   should somebody come to rely on what they saw.
