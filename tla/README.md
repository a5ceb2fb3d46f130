# A TLA+ model of jigsaw-rpc

jigsaw-rpc is a remote procedure call framework over UDP. A *jigsaw* registers its
name with a *registry server*, *ports* (handlers) wait for calls, and
`send("name:method", data)` calls one of the jigsaws registered under a name. This
directory holds TLA+ modules of its logic, the TLC runs that check them on small
instances, and theorems about them with proofs for TLAPS. Sources are quoted relative
to the repository's own `src/`.

## 1. The system

| part | state it keeps | operations | talks to |
|---|---|---|---|
| `utils/LimitedMap` | array `keys`, hash `map` with creation times, `gc_counter` | `set` (with a sweep every 12th call), `get`, `has`, `delete`, `values` | owners: builders, invokers, queries, caches, recent clients; event `deleted` |
| `request/BaseRequest` and its subclasses | life cycle, timer, `pending_defer`, `resender_loop`, result, two plugs | constructor, `run`, resend loop, `handlePacket`, `onErrorPacket` | router (plugs, packets), `AsyncManager` and `RegistryResolver` through the event `closed` |
| `request/PacketSlicer`, `handler/SliceHandler`, `protocol/builder/*` | unacknowledged slices, builders per key with their slots and product | cut, acknowledge, put together, poll with an empty slice | network client on either side |
| `handler/InvokeHandler` | invokers per request id with state and reply slicer; `refs`; life cycle | `handlePacket`, `addNewInvoker`, `sendInvokeResult`, `close` | user's handler, router, slicers |
| routers (`router/*`, `utils/HandlerMap`) | handlers per sign, `plug_ref` | `plug`, `unplug`, `handlePacket`, `close` | network client |
| `client/BaseNetworkClient`, `socket/UDPSocket`, `utils/LimitedQueue` | bounded send queue, socket state | `sendPacket`, batching loop, `close` | UDP |
| registry server (`NameRegistryStorage`, `NameTree`, `DomainHandler`) | tree of names with update times, recent clients | update, query, purge, expiry every 5 s, purge notification | updaters and resolvers |
| registry clients (`RegistryUpdater`, `RegistryResolver`, `QueryCacheStorage`) | update loop; running queries, cache, reference count | update every 10 000 ticks, resolve with retries, purge on close | registry server, requests |
| jigsaw (`SimpleJigsaw`, `SimpleInvoker`, `SimpleProvider`, `WorkFlow`) | life cycles, `request_async_manager`, middleware position | start, `send`/`usend`/`call`, `port`, `close` in order | all of the above |

Everything runs on Node's event loop: code between two `await`s is atomic, and
what makes the system hard is the order of the continuations. Requests race timers,
resend loops, late and duplicated packets and `close()`. UDP loses, duplicates and
reorders. Maps and queues are bounded and drop entries that are in use. Every packet
of a call picks its provider anew.

What makes each part correct:

* **map** - array and hash agree, the oldest entry is the one evicted, a sweep takes
  only expired entries and misses a bounded number of them;
* **requests** - each ends exactly once and takes its timer, plugs and reference with
  it, its caller is told what happened, `close()` waits for all and returns;
* **transfer** - an acknowledged slice is held, the handler gets the request its caller
  sent and runs at most once, the caller gets the answer of that run;
* **invoke handler** - `close()` ends every invoker and reply loop, and returns;
* **routers** - a packet reaches the handlers plugged for it in order and once each, an
  unplugged one nothing, and no router is closed with a handler plugged;
* **network client** - order per destination, at most 2000 queued and only the oldest of
  them lost, batches that fit their buffer, a socket that is ready;
* **registry** - a name resolves to the jigsaws that live, a closed one disappears in
  bounded time and stays away;
* **wares** - a call is over when its last ware is;
* **jigsaw** - every send comes back, the resolver outlives the requests that ask it,
  `close()` returns and leaves nothing running.

`PROJECT.json` lists, under `hazards`, the places in the code where these are at risk.

## 2. Modules

| module | models | how |
|---|---|---|
| `LimitedMap` | `utils/LimitedMap.ts` | one action per operation; the loop of `doGcCollect` unrolled with its cursor (`Sweep`), because it deletes under itself; `newer` is a history variable |
| `BaseRequest` | `BaseRequest.ts`, `InvokeRequest.ts`, `QueryDomainRequest.ts`, `LifeCycle.ts`, `AsyncManager.ts`, and the callers `SimpleInvoker.sendRequest`, `RegistryResolver.doResolveRequest` | one action is what runs between two awaits; `caller` is where the calling async function stands |
| `RpcCall` | nothing: the promise of one `send()` | at most one run, one answer, one outcome |
| `Transfer` | `PacketSlicer.ts`, `SliceHandler.ts`, the builders, `InvokeRequest.send/handlePacket`, `InvokeHandler.handlePacket/addNewInvoker/sendInvokeResult`, `RegistryRoute.ts` | one call; `net` is the set of messages under way; `job` holds the invoker, reply slicer and reply loops of every run |
| `InvokeHandler` | `InvokeHandler.ts` with its `Invoker`, the end of a `PacketSlicer` | references of invokers and replies, invokers in and out of the map, `close()`; slices are left to `Transfer` |
| `WorkFlow` | `jigsaw/context/WorkFlow.ts` | the wares of a call, their shared position, and every use of `next()`: never, once, twice, not awaited, too late |
| `Provider` | `SimpleProvider.handleInvoking` | composes `InvokeHandler` and `WorkFlow`: the handler of a request is a call of the wares |
| `Directory` | nothing: what the registry promises | a flat set of paths, none above another; what happens to one changes no other |
| `Registry` | `NameTree.ts`, `DataNode.ts`, `NameRegistryStorage.ts`, `DomainHandler.ts` | the tree as a set of group paths and a set of end paths; the expiry sweep one end node at a time, as it cuts the tree it walks over; every running notification loop |
| `Resolver` | `RegistryResolver.ts`, `QueryCacheStorage.ts`, `QueryCache.ts`, `DomainClientHandler.ts`, answers of `QueryDomainRequest.ts` | calls, the queries they share, their retries, cache, purge notifications, `close()` |
| `RegistryUpdater` | `RegistryUpdater.ts`, its `PurgeDomainRequest`, and what the registry keeps of this one jigsaw | the update loop, `close()` with its purge, packets lost and overtaken |
| `Router` | `AbstractPacketRouter.ts`, `PacketTypeRouter.ts`, `RequestIdRouter.ts`, `HandlerMap.ts` | `plug`, `unplug`, and `handlePacket` one await at a time over the live array |
| `Outbox` | nothing: what the send queue promises | the packets that wait, by number; each destination's leave oldest first; one is lost only when `Limit` wait, and it is the oldest |
| `NetworkClient` | `BaseNetworkClient.ts`, `LimitedQueue.ts`, `UDPSocket.ts`, the size of `BatchPacket.encode` | the queue, the timer's batch one packet at a time, closing without a flush |
| `NetComponent` | `NetFactory.ts`, and the order in which its users close it | composes `NetworkClient` and `Router`: messages come out of the socket, `close()` takes router, client and socket down |
| `Invoker` | `SimpleInvoker.ts` | `send`, `usend` and `call` from socket to socket, `close()`; requests and resolvers by what `BaseRequest` and `Resolver` show of them |
| `Jigsaw` | `SimpleJigsaw.ts`, start and `close()` of `SimpleProvider.ts` | composes `Invoker` with requests being served, the updater's purge and the public router |
| `SequenceLemmas` | nothing: lemmas on sequences, prefixes and least elements for the proofs | |
| `MC...` | instances for TLC | |
| `...Proof` | theorems and proofs; `RegistryProof` has those of `LimitedMap`, `RegistryUpdater` and `Registry`, which is why the first two prefix their `Init`, `Next`, `Spec` and `TypeOK` | |

How state corresponds to the code, where the names do not say it:

* `BaseRequest`: `life` is `lifeCycle`; `timer` the `setTimeout` of the constructor;
  `preload` is `preloadDomain`; `pending` is `pending_defer` (what settled it);
  `resender` is where `start_waiting` stands (inside a send, asleep, ended); `refs`,
  `waiting`, `drained` are those of the invoker's `AsyncManager`. `ErrorArrives`
  rejects every plugged request of the router, as `PacketTypeRouter` and
  `onErrorPacket` do. `MakeThrows` is the constructor of `InvokeRequest` that cannot encode
  its packet, behind the `setRef(+1)` of `sendRequest`: `Unmade` are the references it took. A resolver counts its queries itself and that count is not this one.
* `Transfer`: `unsent` is the request slicer (`alldone` when empty); `round` the slices
  its `send()` has still to pass on after an await; `builder[p]` the provider's builder
  with `full` and `void` slots (a *void* slice is one cut after its slicer was done:
  empty, `partmax` 0); `product` what it decoded to, `released` once the packet was;
  `current[p]` the invoker in the `LimitedMap`; `job[k].state` is `Invoker.state`, with
  `source` telling which of the provider's builders its request packet came from;
  `open` is the client's socket and plugs together; `cut` says that the request slicer's own
  12 s timer has run out (`ReqSlicerTimeout`), after which the rest of a round goes out empty;
  `resultType` is `isResultJson`, which every whole reply sets, also one whose value is not
  taken (`ReadAs`); a run is `stuck` when its reply could not be encoded. The slices that may be chosen for a
  round (`Rounds`) are those of every send limit, since the limit follows the clock.

* `InvokeHandler`: `job` holds every `Invoker` ever made, in the map (`invokers`) or not;
  jobs are numbered as they are made, so the map's oldest entry is its least number;
  `done` is its state after `slicer.close()` or the last acknowledgement, whose listener
  gives the reference back in the same step; `acks` are the plugs for acknowledgements;
  `fresh` marks a `handlePacket` between `await addNewInvoker` and its first
  `sendInvokeResult`; `loops` counts the `sendInvokeResult` calls inside a send; `stuck`
  are invokers whose reply no packet can encode.
* `Registry`: paths are sequences of name components, the jigsaw's id last. `groups` and
  `ends` are the tree's nodes by type; `old` those whose `updateTime` is past; `walk`
  the end nodes the sweep has still to visit, non-empty only inside the timer's callback,
  when no other action may come in. A loop of `handlePurgeEvent` keeps `left`, what its
  live map iterator has still to visit, and `told`. `recent` is `recent_clients` with the
  order of its keys: each client with those set before it, so the oldest is the one with
  none. Addresses are left out: a client is its jigsaw. `MaxLevels` is the 100 of
  `NameTree.removeNode`: the groups further up are `Beyond` it, and it throws (`Throws`) for a
  path that has any, with the node gone and no event emitted. Out of the sweep that exception
  reaches the timer, where Node ends the process unless the application catches it; the walk
  is over either way, and the model goes on as after the second.
* `Resolver`: `query` are the `doRetryResolve` calls (`over` once their `finally` has
  run), `queryings` the map, `closing` the requests that are answered but not `closed`
  yet (each holds a reference), `late` in an answer the jigsaws purged after its request
  was made. `life = "waiting"` is `close()` in its second `await`.
* `WorkFlow`: `calling[c].current` is `current_work`, which only counts up, and
  `calling[c].state = "running"` is membership in `callings`; `awaits[c][i]` is the position
  of the ware whose promise the ware at `i` awaits. A ware may keep its `next` and call it
  after it has ended (`CallsNext` asks only that it was started), while the call is in
  `callings`; later there is nothing it could start, and `next()` is a `TypeError`.
* `Router`: the routers by name and by request id and the map of references see the same
  plugs, so one map stands for the three: `at[s]` names the array of a sign by its first
  reference, since a loop may still run over an array that has left the map. `going[p]` is
  the `for (i in handlers)` of a packet with the `keys` it began with; `due` and `excused`
  are history.
* `NetworkClient`: packets are numbers in the order they were sent; `batch` is non-empty
  only inside the timer's callback, when no other action may come in.
* `Invoker` and `Jigsaw`: `send[s].phase` is where a call stands, `plugged[r]` who has
  handlers in each router (a send's own, or the public one), `query[s]` what the send asks
  the registry, with `closing` when it is answered and its request not yet closed; `step`
  and `closing` are where the two `close()` stand. Pre and post wares are whether they
  throw; the chain is `WorkFlow`'s.
* `RegistryUpdater`: `updater` is where `start_updating_loop` stands, rounds without an
  update merged into one sleep; `heard` tells whether someone listens to `error`; `purge`
  and `unclosed` are the request of `purgeDomain`, as `BaseRequest` shows it.

Definitions named `X_Y` next to `X` are faults: what `X` would be with a likely mistake.
`PROJECT.json` pairs each property with the fault that breaks it.

## 3. Runs

| run | instance | shows |
|---|---|---|
| `limited_map` | 4 keys, 2 values, 3 slots, sweep every third set, expiry after 1 tick | `SweepHalves`, `FreshLeavesByOwnerOrEviction` |
| `request_life` | an invoke, whose constructor may throw, and a query on one router, `close()` at any time | `RefsCountLiving`, `NoSendAfterClosed`, `OutcomeAgrees`; under fairness `EveryRequestEnds`, `CloseReturns` |
| `transfer` | 1 provider, 3 request slices, 2 reply slices, answers JSON or an error | `RequestIntact`, `ImplementsCall` (refines `RpcCall`) |
| `transfer_evictions` | 2 providers, 1 + 1 slices, one builder or invoker dropped at any time; answers of all three kinds while nothing is dropped, and JSON afterwards | `ResultIntact`, `RunsBoundedByEvictions` |
| `transfer_progress` | 1 provider, 2 + 1 slices, any 3 messages lost | `Settles`, `RunsEnd` under fairness |
| `provider` | 2 requests, 2 invokers, a map of 1, 1 reply loop for each, up to 3 wares | `ProviderTypeOK`, `WaitsForNoClient`, `QuietWhenClosed`, `OverWhenDone`; under fairness `CloseReturns` |
| `registry` | 3 jigsaws, one name running through another's end node and longer than the 3 levels `removeNode` goes up, 2 recent clients, 2 notification loops | `TypeOK`, `LookupsExact`, `ToldOrToTell`, `SweepExact`, `ImplementsDirectory` (refines `Directory`) |
| `resolver` | 2 names, 1 jigsaw, 2 calls, 2 queries of 2 rounds, room for 1 running query | `AnswersUsable`, `StaleOnlyIfLate`, `QuietWhenClosed`; under fairness `CallsEnd`, `CloseReturns` |
| `registry_updater` | 2 update and 2 purge packets under way | under fairness `StaysGone`, `CloseReturns` |
| `net_component` | 4 packets to 2 destinations through a queue of 3, batches of 2 small packets or a long one, 1 packet coming in to 3 handlers | `BatchFits`, `AllAreReached`, `CallsInOrder`, `ImplementsOutbox` (refines `Outbox`); under fairness `LeavesQueue` |
| `jigsaw` | 2 sends of any kind, 1 request being served, `close()` at any time | `RoutersQuiet`, `ResolverOpen`; under fairness `SendsEnd`, `CloseReturns` |
| `received_once` | 2 providers, 1 + 1 slices | `ReceivedOnce` is **violated** (below) |

The type invariants of the other modules, and the invariants of theirs that are proved
(section 4), are not run again.

**Bounds.** Four keys are one more than the slots, so insertions evict; three slots let
a sweep skip an entry and still meet another. Two requests are enough for one to
receive the other's error packet and for `close()` to find one alive. Three slices let
acknowledgements arrive in the middle of a round, and one slot be overwritten while
another is missing. A message stays in `net` for good, so it is received late, again or
never: with `MaxLosses = 0` nothing is left out of the safety runs. Losing messages
matters for progress: three losses are enough to take both slices of the request and
the whole reply, so that only the poll can bring the answer. In `transfer_evictions` one
slice each way is enough: a reply that comes again, from the other provider or from a run
started after an eviction, is what could replace the first; more slices are in the proofs.
A Buffer, JSON and an error are all that the replies of two runs can differ in; once
something is dropped every answer is JSON there, by a state constraint, since with two
kinds beside evictions the states are seven times as many. The other runs take the answers
they tell apart.
Two requests overflow a map of one invoker, so one runs outside the map when `close()`
takes down the one in it; `MaxLoops` cuts off only further resends of the same request.
Three wares and three positions let the first call `next()` twice, which starts the third
beside the second. In `net_component` the fourth packet finds the queue of three full;
the first is longer than a batch is meant to be, and bars the way of two small ones that
share a batch. Three handlers under two signs let one leave before, at and behind the
loop's key. Two sends let one be admitted and one refused by the same `close()`, and the
query of one outlive its request while the other drains. In `registry` two jigsaws
share a name, so that a group is emptied by the second to leave, and the third can be
registered only when the second is not; two clients make `recent_clients` full when a
third comes, while two loops run over it. The code's 100 levels are 3 there: two
paths are as long and one is longer, so the group furthest up may stay when it is emptied,
and the one below must not. In `resolver` two queries let one start for a
name whose earlier one is answered and not yet over, and with room for one query the
second name drops the first. `MaxFlight = 2`
lets an update overtake a purge and the reverse, and one of each be a resend.

**Fairness.** `BaseRequest`: timers fire, queued continuations run, a send ends, the
sleeping loop wakes; nobody owes a reply, a preload or a call. `Transfer`: the client's
resend loop and the provider's reply loops go on, the reply slicer's timer fires, handlers
return, and a message that is not lost arrives. That handlers return is an assumption
about user code: one that never does keeps `InvokeHandler.close()` waiting. What they
return need not be encodable (`CannotReply`). Giving up and the request slicer's timer
are not fair, so `Settles` does not rest on the timeout. `InvokeHandler`: handlers return,
continuations run and sends end; acknowledgements and the slicer's timer owe nothing,
which is what `WaitsForNoClient` is about. `Provider` adds that wares end and promises
continue: that a ware ends is again up to the user. `Resolver` and `RegistryUpdater`: a request is
over by its timer at the latest, continuations run and sleeps end; a packet arrives or is
lost, and the registry keeps sweeping. No answer is owed, so `CallsEnd` and both
`CloseReturns` hold with a registry that is down. `NetworkClient`: the interval timer's
callback runs. `Invoker`: sockets are bound or fail, queries and requests end by their
timers at the latest, wares end. Only `RequestEnds` needs strong fairness: a request whose
time is over waits for the send it is in, and the resolver that send may ask, but begins
no new round. `Jigsaw`: handlers end and the purge ends by its timer; the public socket
need not be bound, and no acknowledgement need come. Deadlock is not checked where
the system is meant to stop (all requests over, the call settled and closed).

**What was found.** `received_once`: `test/cases/transfer.test.ts:141` says "should
succeed and won't recv same request twice when network delay". That is so with one
provider (`ImplementsCall`). With two under one name, the set-up of the repository
README's section "Load Balanced", `RegistryRoute` picks a provider for each packet, and
the resends of a call whose handler is slow start the other provider's handler as well.

**Assumed of the environment.** In `Resolver` the registry no longer names a jigsaw whose
purge it has announced (ids are random and not used again), and `resolveAny` is called
before `close()`, as `SimpleInvoker.close` and `usend` do (`ResolverOpen` of `Jigsaw`). In
`Router` whoever plugs a handler unplugs it once. In `InvokeHandler` a request
id that comes again after its invoker was dropped is a new request.

Boundaries the properties state in their hypotheses: `RequestIntact` and
`AckedMeansHeld` (proved, not run) speak of one provider (with several, one may hold slices the client will
never send to another); `RequestIntact` excludes dropped entries (a handler started
again after its invoker was dropped is given the released, empty packet), and allows a
request with holes once the request slicer's own 12 s are over, when a round begun before
the request's 10 s has waited for the resolver that long; `ResultIntact`
excludes dropped invokers (the slicer closed between two slices of a reply sends the
rest empty, and the client decodes what it has), and lets a result be read as the wrong
kind only when the replies of two runs have come in: `isResultJson` is that of the last,
the data that of the first. `Settles` and `RunsEnd` exclude an answer that cannot be encoded:
its invoker gets no slicer, and the caller polls it until the timeout. `LookupsExact` and
`SweepExact` name what the limit of `removeNode` leaves open: an emptied group above its
levels may stay, and its exception ends a sweep early. The `CloseReturns` properties exclude,
each, the one way in which the code does lose a reference: `BaseRequest` a constructor that
throws behind its `setRef(+1)` (`Unmade`), `InvokeHandler` a handler that
throws what `ErrorPacket` cannot encode (`stuck`), `RegistryUpdater` an `error` event with
no listener, which `emit` throws out of the loop (`died`), `Resolver` a running query
dropped from its map of 100 (`evicted`), whose `finally` then fails in `delete`, `Jigsaw`
a request whose packet cannot be encoded (`leaked`) or a handler that awaits `close()` or
cannot reply (`stuck`). `OverWhenDone` excludes a `next()` that was not awaited (`loose`):
its ware may outlive the call. `AllAreReached` excludes a packet with a handler that threw
or one, at or before the key, that was unplugged meanwhile (`excused`): the array then
moves up under the loop, and the handler behind the gap is passed over. `SendsEnd` excludes
a socket that could not be bound, for which `when("ready")` never settles.
`GoneUnlessLate` excludes an update that was on its way when the registry took the jigsaw
out; that such a jigsaw still disappears is `StaysGone`.

## 4. Proofs

TLAPS proves, for every value of the constants that satisfies the modules' assumptions:

* `BaseRequestProof` - all six invariants (`PlugsWhileRunning`, `DrainedIsQuiet` and `TypeOK`
  beside the three that are run). The inductive invariant is `RequestInv`, one
  table that ties `life`, `timer`, `preload`, `caller`, `pending`, `hasResult`, `loop` and
  `resender` of one request to each other and to its plugs, together with
  `RefsCountLiving` and `DrainedInv`. It is needed because none of the properties is
  inductive: that the count equals the living invokes, and those whose constructor threw,
  needs that no dead request can emit `closed` again, which needs to know where its caller, loop and preload stand.
* `TransferProof` - for any number of providers, slices, evictions and losses: `TypeOK`;
  `RunsBoundedByEvictions`, by counting (a provider's runs are its dropped invokers plus
  the one in its map); `ResultIntact`, `RequestIntact` and `AckedMeansHeld`; and, for one
  provider and no eviction, `ImplementsCall`, step by step. The last four rest on one
  argument, made for either direction: as long as the receiver has not got the packet
  whole, its builder is *filling* (`Filling`: real slices only, one missing), the slices
  the sender takes for acknowledged are among those, so one is unsent, so the slicer is not
  done, so the slices it sends are real ones (`ReplyInv`, `RequestInv`). A real slice
  leaves the builder filling or makes the packet whole (`HandledFull`, which counts slots
  with the library's theorems on finite sets). The argument for the request ends where its
  slicer's own timer runs out (`cut`), which the properties name. That the result is read as
  it was sent follows the value back to the run it came from (`From`), whose reply is released:
  what has come in since was the same reply again, or that of another run. `JobInv` ties a run to its reply, `NewInv`
  says that no handler is started for a second time by a packet that was whole before.
* `ResolverProof` - `AnswersUsable` and `StaleOnlyIfLate`, for any names, jigsaws, calls
  and bounds. What a caller gets and what the cache holds come from the query it waited
  for, perhaps several steps after a purge, so the invariant follows the answer: whoever
  awaits a query awaits one that was made (`AwaitsQuery`); the answer of a resolved query
  that may still reach the cache is not empty and names purged jigsaws only as late ones
  (`AnswersSound`); the same of the cache (`CacheSound`); and an entry of `queryings` is a
  query that is not over, the only one for its name (`EntriesRun`). Also `TypeOK`,
  `RefsCount` and `QuietWhenClosed`: unless a query was dropped, the count `close()` waits
  for is the number of queries and requests that are not over (`Counted`), as each step
  adds or takes one element of a finite set; with a query dropped only a bound is left.
* `RegistryProof`, for `LimitedMap` - `Consistent`, `MapTypeOK` and `InsertionOrder`
  (`keys[0]`, which a full map evicts, is its oldest entry), for any size, counter limit and
  expiry. The inductive invariant says of `keys`, as a function, that it is injective onto
  the domain of `map` and ordered by `newer`, and of a running sweep that its cursor is
  positive. `SweepHalves` is inductive beside it: each round of the sweep either passes a
  fresh key or removes one, which moves at most one expired key behind the cursor uncounted.
  `FreshLeavesByOwnerOrEviction` is an action property that follows from the invariant.
* `RegistryProof`, for `RegistryUpdater` - `GoneUnlessLate` and `UpdaterTypeOK`, for any number
  of packets under way. The invariant adds that the count is one for the loop and one for the
  purge request (`RefsCount`, without which it could go below zero), that the loop is stopped
  from `close()` on and nothing is purged before (`Stopped`), and that after a purge which no
  update was racing no update is left or can still be sent (`Gone`).
* `RegistryProof`, for `Registry` - `TypeOK`, `LookupsExact`, `ToldOrToTell`, `SweepExact` and
  `ImplementsDirectory`, for any jigsaws, names of any length, clients and loops. The inductive
  invariant `RegistryInv` is built round `Tree`: the groups above every node are there, no end
  node is above another node, and a group is above an end node or one that `removeNode` does
  not come to from some path (`Unreached`). `LookupsExact` and the refinement are read off it;
  that it is kept is about `removeNode`: the loop takes out every group above the removed end
  node that has no other child, going up `MaxLevels` levels, so what is below its `Top` is the node itself and
  groups above nothing else (`NoOther`: where the path of another end node parted from its
  own, a group would have two children; `AnotherUnder`: a group that stays within those levels
  has a child that leads to another end node, since a child that leads to none would be
  `Unreached`, and all above it, `UnreachedAbove`). `addNode` is refused whenever the directory
  refuses the path. `Ordered`
  says of `recent_clients` that its order is one (the oldest of a full map exists, and one
  less is left when it goes), `Iterating` that a loop comes to none but clients, and `Walking`
  that a sweep has still to come to all that has expired, which is `SweepExact` unless an
  exception ends it.
* `NetComponentProof` - `TypeOK`, `BatchFits`, `AllAreReached`, `CallsInOrder`,
  `SocketIsReady` and `ImplementsOutbox`, for any signs, packets, handlers, lengths and
  sizes. The invariant says of the map that each array is sorted, holds exactly what is
  plugged under its sign, and is empty once it has left the map (`MapInv`); of a packet's
  loop that later keys hold later references and that what is due is ahead of it
  (`LoopInv`); of the timer that a batch is at most one packet beyond the limit
  (`BatchInv`); and of `close()` its order (`OrderInv`). For the outbox the one fact beside
  these is that the queue ascends (`QueueAscends`): the packet at its head has the least
  number, the first for a destination the least of those, and as many packets wait as the
  queue is long.
* `JigsawProof` - `TypeOK`, `RoutersQuiet`, `ResolverOpen` and `ClosedIsQuiet`, for any number
  of sends and of requests served. The invariant says of every router who has plugs in it,
  by the phases of sends, queries and handlers (`OwnPlugs`, `PublicPlugs` and those beside
  it), of `close()` what each of its steps has awaited (`Order`), and that the references
  are the requests alive and those leaked (`Counted`), without which a drained invoker
  could have one left. What it says of one send (`Sound`) is kept by every step that does
  not touch that send (`Touched`, `Spared`), which leaves one send to look at per action.
* `ProviderProof` - `ProviderTypeOK`, `WaitsForNoClient`, `QuietWhenClosed` and `OverWhenDone`,
  for any number of requests, invokers, reply loops, wares and positions.
  `ProviderInv` has two halves. Of the handler it says that its counts are those of the jobs
  that are not over and of the replies inside a send (`Counted`, on finite sets that gain and
  lose elements, several at a time when `close()` takes the whole map down), and that an
  invoker in a state `close()` must end is in the map for it to find, and there is none when
  it is through (`Found`): a handler that returns later goes straight to its end. Of the work
  flow it says that no ware is started past the position (`Placed`), that a ware awaits only
  one further on (`Awaiting`), and that each ware at work but the first is awaited by an
  earlier one at work (`Awaited`). So when the first is over none is at work: the least one
  at work would be awaited by an earlier one. `Made` ties the two: a call comes with its job.

Beside these, the half of the liveness properties that is about states is proved for every
value of the constants: nobody waits for what nobody will give back, because in each state
that waits there is a party whose state lets an action with fairness be taken, or an exception
the liveness property names has happened.

* `BaseRequestProof!NobodyHangsAlways` (for `EveryRequestEnds`, `CloseReturns`): a request that
  lives has its timer running or a continuation to come, and `waitAllDone()` that has not
  resolved waits for such an invoke, or for one whose constructor threw and which will never
  give its reference back.
* `TransferProof!SettleHasWorkAlways` (for `Settles`): when every slice of the request is
  acknowledged and the caller still waits, the run its one provider knows is not over: the
  handler has not returned, or there is a slice of the reply that the client lacks and its
  polls can get, or the answer could not be encoded. It follows from the same invariant as `ResultIntact`.
* `ResolverProof!CloseHasWorkAlways`: while `close()` waits, a query, its sleep, its `finally`
  or a request has still to end, unless a query was dropped.
* `RegistryProof!UpdaterHasWorkAlways` and `UpdaterOverAlways`: the updater's `close()` waits for
  its loop, its purge or the purge's request, and all three are over when it has returned.
* `ProviderProof!CloseHasWorkAlways`: the handler's `close()` waits for a send, or for a call
  one of whose wares can go on, unless the handler threw what no packet can carry.
* `JigsawProof!CloseHasWorkAlways`: the drain waits for a request that runs or whose query
  does, unless a reference has leaked; the resolver for a query that no preload waits for; the
  invoke handler for handlers, never for a reply.

Each rests on an invariant that a promise which is due has been settled (`Armed`, `Told`,
`Settling`, `StillHeld`): the count that `close()` waits for is looked at whenever it falls.
That the steps so found come to an end is what fairness adds, and TLC checks.

Lemmas on sequences shared by these proofs are in `SequenceLemmas`.

Assumptions used: the constants' types named in each module, for `NetworkClient` the one
inequality that its lengths satisfy (1200, 4, 8, 4 and 1400 in the code), and nothing about
the code beyond the actions. Every invariant, action property and refinement that a passing
run checks is thereby proved. Only model-checked is what is temporal with fairness
(`EveryRequestEnds`, `CloseReturns`, `Settles`, `RunsEnd`, `CallsEnd`, `StaysGone`, `SendsEnd`,
`LeavesQueue`): fairness, `ENABLED` and well-founded arguments over behaviours are out of the
prover's reach. So is induction over recursively defined data; the models have none that a
property depends on, and where a proof needs the least of some numbers, of jobs, wares or the
lengths of paths, it takes it from the library's theorem on well-founded relations
(`LeastElement`).

## 5. Plan

Every part that keeps state has its module, and the parts are composed where they share
it: `Provider`, `NetComponent`, `Jigsaw`. What could still be added, most useful first:

1. In `Invoker`, a second query of a send while the request of its first is closing, and with
   it the proofs of `JigsawProof`.
2. `RegistryServer`'s start and close, and `DomainHandler.close()`, with the loops still running.

## 6. Not modelled, and why

Packet encoding (pure functions on bytes, for unit tests; a packet with missing slices
decodes to anything or fails; the length of a batch is in `NetworkClient`), strings, URLs
and options, DNS answers and socket errors, logging, the error classes and re-exports.
Clocks: timers fire at any time after they are armed, except where one delay is known to
be over before another (the slicer's 12 s after the request's 10 s, started earlier).
Event loop: one order is relied on, that a timer callback does not overtake a
continuation already queued. One call at a time in `Transfer`: calls share only the
bounded maps, whose effect on each other is the eviction. `Jigsaw` takes requests, resolver,
updater and invoke handler by what their own modules show of them, not by instantiating
those; a send has one query at a time. `usend()` with a cache shared by two registries, the
builder's bound of 500 slices, and the updater's rate against the registry's 20 s are
hazards of data and clocks that no module reaches (`PROJECT.json`, `hazards`, with the
reason). `RegistryServer`'s own start and
close, `DomainHandler.close()` and the listing `getFlattedNodes` are left out: they set up
and take down plugs, and read.
