# A TLA+ model of async-substrate-interface

This directory models `async_substrate_interface`: the websocket every call
shares and the request engine above it, the caches of methods and of runtimes,
failover between chains, paging through a map, and extrinsics from nonce to
receipt, in the asynchronous interface and its synchronous twin. Paths below
are relative to the package `src/async_substrate_interface/`; `AS` stands for
`async_substrate.py`.

Run a check with `tlc -config X.cfg M`, where `PROJECT.json` says which module
belongs to which configuration; check the proofs with `tlapm M.tla`.

## The system

The program is a client for Substrate nodes. asyncio runs one task at a time
and switches only at an `await` that suspends, so the races are those between
the suspensions: every call, the handler with its sender and receiver, and the
exit timer are tasks on one loop.

| Component | State | Operations | Talks to |
|---|---|---|---|
| Websocket manager (`AS` 570-1213) | `ws`, `_lock`, `_sending`, `_inflight`, `_received`, `_waiting_for_response`, `max_subscriptions`, `_received_subscriptions`, `_send_recv_task`, `_exit_task` | `connect`, `_cancel`, `_handler`, `_start_sending`, `_start_receiving`, `_recv`, `send`, `retrieve`, `unsubscribe`, `__aenter__`, `__aexit__`, `_exit_with_timer`, `shutdown` | the node; every call |
| RPC request engine (`AS` 2560-2771, `types.py` RequestManager) | the payloads a call has sent and the answers it has | `_make_rpc_request`, `_process_response` | Websocket |
| Subscriptions (`AS` 2593-2677) | the subscription id and its queue, the `result_handler` | notification, end, unsubscribe | Websocket |
| Method caches (`utils/cache.py` 378-520) | `LRUCache.cache`, `CachedFetcher._inflight` and its futures | `get`, `set`, `__call__` | the method behind the cache |
| Disk cache (`utils/cache.py` 33-376, `AS` 4420-4530) | one sqlite table per method | `AsyncSqliteDB.__call__`, runtime dump and load, DNS table | CachedFetcher, RuntimeCache |
| RuntimeCache and `init_runtime` (`types.py` 31-230, `AS` 1510-1650) | `blocks`, `blocks_reverse`, `block_hashes`, `versions`, `known_versions`, `last_used` | `add_item`, `retrieve`, `init_runtime`, `_get_runtime_for_version` | request engine, method caches |
| Retry substrates (`substrate_addons.py`) | the chain in use and the iterator over the others | `_retry`, `_reinstantiate_substrate` | the whole interface |
| Query map (`AS` 430-560, 3858-4090) | `records`, `last_key`, `_buffer`, `loading_complete` | `retrieve_next_page`, iteration, `retrieve_all_records` | request engine |
| Extrinsics (`AS` 3090-3600, `AsyncExtrinsicReceipt` 120-430) | `_nonces` with its lock; what a receipt has fetched | nonces, submission and watching, events, fees | subscriptions, `init_runtime` |
| Sync interface (`sync_substrate.py`) | `ws`, the retry counter | the sequential twin of the above | the node |
| DNS and TLS session caches, SCALE decoding, storage keys, type registry, hashers, errors | none that outlives a call, or times to live | conversions | codec libraries |

What is hard here:

* a connection is lost with requests in the queue, in flight, at the node, or
  with answers on their way, while calls and the handler both know how to dial;
* futures are replaced on resubmission, resolved by the receiver, failed by the
  sender and the receiver, and taken by the calls, in any order;
* permits, the count of waiting calls and the exit timer are kept by pairs of
  operations that exceptions and cancellations separate;
* calls that share a fetch share its failures and cancellations;
* answers are remembered across processes.

What makes each component correct: requests are neither lost nor duplicated on a
connection, answers reach the call they are for, every call ends, the connection
closes when idle and only then, outstanding requests are bounded (websocket,
request engine); one fetch per key, answers of the right key, bounded and
ordered by use, nothing remembered that may still change (caches); the runtime
used for a block is that block's (RuntimeCache); after a failover every call
runs against one chain, and the chains are tried in order until they are
exhausted (retry); every key once and in order, to the end of the map (paging);
no nonce twice, and a receipt whose success is that of its extrinsic
(extrinsics). `PROJECT.json` lists the hazards with their lines.

## Modules

| Module | What it is |
|---|---|
| `Websocket` | the websocket manager, the network and the node: its state and the steps of its own tasks |
| `RpcCalls` | the calls, each with a program counter; composes with `Websocket` into `Next`, with the fairness |
| `RpcService` | the abstract promise to callers of `_make_rpc_request` |
| `RpcProperties`, `RpcInvariant` | safety, action, refinement and liveness properties of the two; the inductive invariant behind the safety properties |
| `CachedFetcher`, `FetcherProperties` | `CachedFetcher`, `LRUCache` and the disk table below a method |
| `RuntimeCache` | the four LRU maps of `RuntimeCache`, its known versions, its dump to and load from disk, as operators |
| `RuntimeLoading`, `RuntimeProperties` | `init_runtime` under concurrent calls on a chain that forks and upgrades; extends `RuntimeCache`; the synchronous `init_runtime` as a function |
| `Failover`, `FailoverProperties` | `RetryAsyncSubstrate` and `RetrySyncSubstrate`, with the request and the connection of the synchronous interface |
| `QueryMap`, `QueryMapProperties` | `query_map` and its result while the map changes; the synchronous one as a function |
| `Extrinsics`, `ExtrinsicsProperties` | nonces, signing, submission and its watch, against a node with a pool, forks and finality |
| `Receipt` | the lazy properties of both receipts, with their properties of correctness |
| `MCRpc`, `MCFetcher`, `MCRuntime`, `MCFailover`, `MCQueryMap`, `MCExtrinsics`, `MCReceipt` | instances for TLC |
| `RpcProof`, `FetcherProof`, `RuntimeProof`, `FailoverProof`, `QueryMapProof`, `ExtrinsicsProof`, `ReceiptProof` | proofs |
| `Induction` | induction over numbers and functions defined by iteration: what the proofs of runtimes, failover, paging and receipts rest on |

The modules compose by what they promise each other, not by a product of their
states, which TLC could not explore: `RpcService` is what a call of the modules
above the request engine rests on (a call is answered once, by its own answer,
or raises), so that in `RuntimeLoading`, `QueryMap`, `Receipt` and `CachedFetcher`
a node call is a step that brings the answer or fails. `RuntimeLoading` contains
what `CachedFetcher` promises for `get_runtime_for_version`: one leader per
version, whose failure is its followers' too. `Extrinsics` and `Failover` model
lost connections themselves, because what becomes of a call then is their
subject.

Operators whose names begin with `Mut` are slips (a dropped guard, a missing
reset, a swapped order) that stand next to the definition they distort. Nothing
uses them; they record which slip each property is there to catch.

### From the code to `Websocket` and `RpcCalls`

* An action is the code between two suspensions. `async with self._lock`
  suspends only while the lock is held, and only a call that is dialling holds
  it across a suspension, so every other critical section is part of the action
  around it, guarded by `LockFree`; a call that finds it taken goes to a place
  of its own (`lockwait`, `mark`, `send`, `unmark`). Whoever comes to a lock
  others queue for queues behind them (`LockedOut`).
* `pc` follows a call through `_make_rpc_request`: `lockwait` and `dial` in
  `connect`, `mark` in `mark_waiting_for_response`, `acquire` and `send` in
  `send`, `polling` in the poll loop, `watching` once a subscription is confirmed,
  `unmark` in `mark_response_received`. `stuck` is `connect` called by itself
  under its lock.
  A call sends its payloads one by one, and each `send()` takes its permit
  first and the lock afterwards (`Sends`): while permits and lock are to be had
  the loop goes on in one step; it waits at `acquire` for a permit, holding none
  for that payload, and at `send` for the lock, with its permit in hand
  (`Enqueue`). The permits of what has been sent stay with the call until it
  has its answers.
* `ending` says that a subscription is in the context that
  `unsubscribe` opens inside the first, and how its `result_handler` ended.
* A request id is `<<call, position>>`; position 0 is the unsubscribe message.
  The code draws ids at random from those not in use, and gives one back when
  its response arrives; here ids are never reused.
* `handler` stands for `_send_recv_task` and the two tasks it owns: `run`,
  `stopped` (the sender met a dead connection), `redial`, `failed` (it returned
  or raised an exception, which `retrieve` reports), `none`.
* `Recv`, `Notify` and `RecvMalformed` are the receiver, `Send` and
  `SendBadPayload` the sender, `HandlerEnds`, `Resubmit` and `Redial` what
  `_handler` does after its tasks. `GrabLock` contains `_cancel`. `ArmExit` is
  `__aexit__`, in the last step of a call; `ExitFires`, `ExitStops` and
  `ExitDone` are the timer, whose suspensions are those of `shutdown`.
* The node executes requests in any order, may reject a subscription, and may
  notify. Every kind of fault is bounded by `Budget`: lost connections, failed
  dials, host names that do not resolve, cancelled tasks, malformed frames,
  payloads that `json.dumps` refuses, notifications, rejections.

Abstractions: the wait for the lock inside `wait_for` is one step with the grab
of it, though in Python before 3.12 another task can run between; the queues of
lock and semaphore are over-approximated (of those that wait any may be next);
the handler's own sections under the lock wait for it to be free and do not hold
others up;
a notification is emitted and delivered in one step; receive timeouts leave no
trace, because the loop swallows them whatever it finds; an unknown host met by
the *handler* is retried for ever and is no step. Not modelled: `close()` or
`shutdown()` called by the user, the logging of raw frames, the activity timer,
DNS and TLS session caches.

### From the code to `CachedFetcher`

A key is a method with its arguments. `Enter` is `__call__` up to its first
await: a hit, a follower of `_inflight`, or a call that leads. `LookUp`,
`Answer` and `Store` are the suspensions of a disk-cached method (sqlite
look-up, the request, insert and commit); the rest of the cached methods have
`Answer` only. `Land`, `Fail` and `StepDown` are the `try`, `except` and
`finally`. `Cancel` has both cases: a leader leaves its future pending (a
`CancelledError` is no `Exception`), a follower cancels the future all share.
`LookUp` may always miss, which covers pruned rows, sqlite errors and writes
that were not committed. `Produce` is the chain: before it the answer for a key
is empty. `recent` and `fresh` are history. The sets `Call` and `Key` and the
budget `Faults` are bounds; eviction happens because there are more keys than
`MaxSize`.

### From the code to `RuntimeCache` and `RuntimeLoading`

An LRU map is the sequence of its pairs, least recent first, and a `Runtime` the
spec version it was loaded for; so `Retrieve` and `AddItem` are the methods of
that name, with the moves they make in every map they touch. `KnownVersion` is
the bisection over all boundaries but the last.

`pc` follows a call of `init_runtime`: `startup` waits for the task that
`initialize` left loading, `begin` looks in the cache, `hash`, `head`, `version`
are the node calls, `number` and `metadata` those of the call that leads the
load of a version, and `follow` is a call that shares it. `lead` and `memo` are
the `CachedFetcher` of `get_runtime_for_version`. A step is the code between two
node calls: `WithHash` and `WithNumber` are the two look-ups before one is made,
`VersionArrives` the decision between cache, follower and leader,
`MetadataArrives` the new Runtime and the `add_item` that keeps it. `NewHead` is
the chain, which may switch to a longer fork; `Restart` ends the process, with
or without `close` (the dump), and starts another on the disk; `CancelStartup`
is a task cancelled while it awaits the start-up task, which cancels that too.
If the start-up task led a load, its `finally` takes the key out of `_inflight`
(`Popped`): the calls that followed it wait for a future that nobody settles
(`orphan`), and the next call leads a load of its own. If it followed one, the
future is cancelled for all who share it (`broken`), and the leader, whose
`set_result` meets a cancelled future, raises (`Settle`).

`RightRuntime` speaks of the block a call was *asked* about: by its hash, or, by
its number, the block the chain had there when the call was made (`asked`), or
the head. Only where a number means no particular block (it had none, a block
has been replaced since, or the disk remembers that it had none) is it the
block the call took it for (`BlockOf`). The table of known versions comes from
outside, and the property leaves out the blocks it is wrong about
(`Misattributed`). That is said of the table and the chain alone: the last
boundary not after the block has another version (`TableWrong`), or the block is
not before the last boundary of all (`TableEnded`, finding 3). The bisection
that reads the table is not part of it, and is what is checked.

The synchronous `init_runtime` has no interleavings and is the function
`SyncInitRuntime`; `SyncIsRight` applies it to every cache that the
asynchronous behaviours reach, with every runtime that may be current. What
`_get_block_hash` answers is its parameter, since `functools.lru_cache` may
remember that a block did not exist: then a call by number gets the runtime of
the head, and the property says so.

Abstractions: a block is identified by its hash; numbers and versions are read
from `Number` and `SpecVersion`; `answered` stands for what the method cache of
block hashes may remember, which may forget at any time; the other cached
methods beneath a load are answered call by call, since how calls share them is
the module `CachedFetcher`; the type registries are part of the Runtime.

### From the code to `Failover`

Methods call each other through the proxy, so a call is a stack of `_retry`
frames, and a frame runs its method at most twice. `stage` says how far a frame
is: `first`, `join` (`_reinstantiate_substrate` connects), `init` (its
`initialize`, itself a proxied request) or `again`. `Propagate` takes an
exception up one frame; `Catch` is the `except` clause, with `next()` on the
right iterator (`taken`; cyclic under `retry_forever`) and what happens when it
is exhausted; `AsyncSwitch` and `SyncSwitch` are `_reinstantiate_substrate`.

In the asynchronous class a request goes to the Websocket it finds (`socks`;
the last is `self.ws`), `Dial` and `AsyncAnswer` are its life, and a switch by
one call strands those that others have in flight on the Websocket that was
shut down. In the synchronous class `Connect` and `Recv` are `connect` and the
receive loop of `_make_rpc_request`, which reconnects `max_retries` times;
`connect` is itself a proxied method, and has a frame. `Flip` changes a chain:
`up`, `down` (refuses), `stuck` (dials time out), `mute` (silent), `pruned` (the
state asked for is discarded). `Stack` is Python's recursion limit, which
`retry_forever` with all chains down reaches.

### From the code to `QueryMap`

`Call` is what `query_map` checks first; `KeysArrive` and `ValuesArrive` are its
two node calls, of the first page and of every later one, with what the result
does with the page (`NewResult`, `NextPage`); `Take` and `Refill` are
`__anext__`; `CallFails` an exception, after which the application may go on
iterating. `Write` is a new block that changes the map. Of a storage key only
its hashed parameters and their order matter; `Readable` says for which hashers
a parameter can be read back. `SyncAllRecords` is the synchronous interface,
whose pages, queried at one block, nothing interleaves with.

### From the code to `Extrinsics` and `Receipt`

`CacheMiss`, `CacheHit` and `Fetched` are `get_account_next_index` under its
lock, `Asked` its uncached twin. `Create`, `AccountNonce`, `Era` and `Payload`
are the awaits of `create_signed_extrinsic` and record what is signed with: the
nonce, the block the era begins in, and the runtime, which is the same for the
encoding and the payload. The hash of that block is what `get_block_hash`
answers: `hashes` is what it remembers of each number, `LookUp` somebody else's
look-up of one, which leaves a row that a fork may falsify, and `early` the
numbers looked up so before their block was final. The first block is looked up
in any case. In memory only the synchronous interface remembers that there was
no block (`Remember`), and cannot encode the payload then (`Sign` raises). A row
is never evicted here: the node is then asked again, and its answer is what the
row would have been, or better. `Submit`, `Received` and `Answer` are the
submission up to its first response; `Hear` is `result_handler`, and `SyncHear`
with `Unwatched` that of the synchronous interface, which makes the unwatch
request within the request it handles. `Lose` and `SyncLose` are the two ways to
lose a connection: the asynchronous one raises in every call if a subscription
has a queue, which the first notification makes, even before its call has taken
the subscription id, and otherwise resends requests and forgets subscriptions;
the synchronous one sends everything again, the extrinsic included. The node is
external: it authors, finalises, forks above its last finalised block, upgrades,
usurps and drops.

In `Receipt` each await of a node call is a step. The list that
`triggered_events` fills is an object of its own, made by a reader and then
shared, because overlapping readers meet in it. `Loop` is `process_events` up to
the next module error, where it suspends to load the runtime of the block;
`Conclude` is what follows the loop. `SyncRead` is a read of the synchronous
receipt, in one step; `Elsewhere` is another call of its interface loading the
runtime of another block, in which module errors are then looked up.
A block without any extrinsic is left out (`ReceiptAssumption`): blocks of these
chains hold at least the timestamp, and in an empty one the code goes on without
an index.

## Runs

| Run | Instance | Shows |
|---|---|---|
| `chaos` | a batch of 2 and a subscription, 2 permits, every kind of fault once | safety and the refinement of `RpcService` |
| `reconnect` | one batch of 2, three lost connections and more | nothing a call waits for is lost, and it ends |
| `shared` | three batches of 2, four permits, failing dials | with permits enough for one of them to have all its own, calls do not wait for each other for ever |
| `idle` | three calls, failing dials | the connection closes after last use |
| `fetcher` | four calls, three keys (one on disk), two entries, two faults | single flight, LRU order, right answers, no orphans |
| `runtime` | one task beside the start-up task, four blocks, a fork and an upgrade, a table of three boundaries, caches of two and one entries | the runtime of a block is its own; caches agree with the chain; calls end |
| `failover` | the url, two fallbacks and an archive node, two tasks or one caller, methods two deep | chains are tried to the last, requests go to `self.url`, retries are bounded, calls end |
| `paging` | every content of a map of two by two keys, 84 queries, two writes, one failing call | iteration is exact at a block and complete at the tip (without `max_results`), monotone, and ends |
| `extrinsics` | two tasks or one caller, four ways to submit, two extrinsics, one trouble, a block looked up by others | nonces follow, signatures stand, receipts are true, submissions end |
| `receipt` | two tasks and a synchronous caller, ten blocks, three reads, one failing call | what a receipt says is the chain's verdict and is not taken back |
| `v_lost`, `v_permits` | the smallest that fail | see below |

Why these bounds are enough:

* Websocket: two calls are what it takes for one to dial while the handler of
  the other does, or to arm the timer while the other enters; the subscription
  adds the nested context. With a batch of 2 and 2 permits the semaphore is
  exhausted. Three calls are needed for two to wait for the lock that a third
  has, and four permits for three batches of 2 are the fewest with which one
  batch always gets both of its own: with three, each may hold one (`v_permits`
  is the same with two batches and two permits). One fault of each kind gives
  every pair of kinds in every order; `reconnect` repeats the same kind.
* `fetcher`: four callers are a leader, two followers (one of them cancelled) and
  one who arrives later; three keys overflow a cache of two.
* `runtime`: the start-up task leads while the task follows or loads another
  version, or is cancelled by the task, whose next call must load afresh; the
  upgrade is on one fork only, so that a number means different versions before
  and after the reorganisation; caches of two and one evict; the table of known
  versions has boundaries that are searched, one of them the upgrade of one
  fork, and a last one that is not. With one task nobody else follows a load
  that is cancelled: `startup.cfg` (`MCRuntime`, no run) has a second task on two
  blocks, where followers are left `orphan` and the calls that come later end.
* `failover`: one list of two chains is exhausted by nested frames, one of a
  single archive node by the first; two frames make one that catches what the
  other could not handle; `Stack` is enough for every call that does not retry
  for ever, and fills up in one that does.
* `paging`: pages of one and two over at most four keys give full, short, empty
  and exactly filled last pages; offsets fall on a key, between keys and after
  the last; two writes can take a key away and bring it back.
* `extrinsics`: two extrinsics collide, leave a gap or follow; there are blocks
  0 to 2 at first, and an era begins in block 0 or in block 3, which others may
  look up before it exists, while a fork may still replace it, or when it is
  final; one trouble at every point of two submissions.
* `receipt`: the traces are those a runtime can deposit: success, each kind of
  error (module, named, unnamed), MevShield's events, with and without
  `TransactionFeePaid`, and a block without the extrinsic.

Deadlock is not checked in any run: when all calls are over (and the timer has
closed the connection) nothing is left to do, and calls that hang are what the
liveness properties are about.

### Fairness

`TaskFairness` is what asyncio gives: a task that can run is run, and a dial
ends (it has `open_timeout`). Weak fairness per task is enough, because nothing
but the task itself disables its steps for good without settling it.
`NodeFairness` says that the node answers a request it has; `v_silent` drops it.
Nobody has to make a call, no fault has to happen, and a node need not notify.
In `shared` weak fairness of `Acquire` and `Enqueue` is enough: of three
batches that hold one permit each, one finds the fourth.

In the other modules it is the same: the steps of a call are weakly fair, which
is asyncio's promise together with a node that answers or fails, and no fault is.
`Failover` needs no answer from a chain that is silent: dials and synchronous
requests time out. `RuntimeLoading` writes the fairness of `Answer` out
(`Answerable` is exactly when it is enabled), so that TLC need not compute it in
every state. `Extrinsics` adds that the node authors blocks from what is ready
and finalises them. `Receipt` is checked for safety only: a read has at most
five awaits, and ends as they do. Exceptions are part of the liveness properties
where the code has them: `SubmissionEnds` excepts a gap in the nonces, and
`CallsEnd` followers of a cancelled load.

### Where the code and its documentation part

Two are runs; the others are reproduced by a configuration or a property that
stays in this directory and no run lists.

1. `v_lost`: a call that enters while a lost connection has not been handled
   yet dials and cancels the handler; nobody resubmits what was in flight, and
   its call polls for ever.
2. `v_permits`: calls with several payloads that queue for the lock behind one
   dial take one permit per turn. If the permits run out before any call has all
   of its own, every call waits in `send` for a permit that another keeps, on a
   healthy connection.
3. `v_known.cfg` (`MCRuntime`): `add_known_versions` promises to ignore the last version of the
   table; what is ignored is its boundary, so that later blocks are given the
   version before it, without asking the chain.
4. `v_hashes.cfg` (`MCExtrinsics`): a cached hash of a number is said not to change, but
   `get_block_hash` keeps the hash of a block that a fork has replaced, and the
   synchronous one the None of a block that did not exist yet. A mortal
   extrinsic whose era begins there is signed over a block off the chain, or
   cannot be signed.
5. `v_timer.cfg` (`MCRpc`): `shutdown` awaits the task it has just cancelled
   (itself), which lets other tasks run between the check of the timer and the
   close. A call that marks itself as waiting in that turn loses its connection.
6. `v_silent.cfg` (`MCRpc`): a `TimeoutError` never leaves the receive loop, so
   `retry_timeout` and `max_retries` have no effect on a silent node.
7. `v_nohost.cfg` (`MCRpc`): after `gaierror` `connect` calls itself under its
   own lock.
8. `v_shared.cfg` (`MCFetcher`): cancelling one follower of a fetch cancels it
   for all, and the call that fetched raises `InvalidStateError`.
9. `v_stale.cfg` (`MCFetcher`): the empty answer for a block that does not exist
   yet is stored on disk and returned from then on.
10. `VerdictGiven` (add it to `receipt.cfg`): of two readers of a receipt that
    overlap one may get None for `is_success`; after a `get_events` that failed
    every reader gets None for ever.
11. `MaxResultsHonoured` (add it to `paging.cfg`): `max_results` limits the size
    of a page, not the number of results of an iteration.
12. `OffsetHonoured` (add it to `paging.cfg`): when nothing follows `start_key`,
    the second page is the first one of the map, and the whole map is handed out.
13. In `RetryAsyncSubstrate` the `StopIteration` of an exhausted iterator leaves a
    coroutine and is a `RuntimeError`; `MaxRetriesExceeded` is never raised there.
14. `use_cache` of `get_account_next_index` is documented the wrong way round.

Seen while modelling:

* Websocket. An idle connection that is lost is dialled again and its exit timer
  cancelled; a call that fails or is cancelled never lowers
  `_waiting_for_response`, so the connection never closes again, and keeps the
  permits of answers it did not take; the unsubscribe message is still queued
  when `__aexit__` looks, so the timer is not armed; a subscription that has had
  no notification yet is not recognised as open and is lost silently on a
  reconnection, and a notification after `unsubscribe` makes the next
  reconnection be refused; a malformed frame fails every pending future and
  leaves an open connection without a handler, so later calls hang.
* Caches. When the leader of a fetch is cancelled its followers wait for ever
  (the exception `NoOrphan` names), while later calls fetch anew. A failure of
  the start-up task is raised by every later call for its block. After a
  reorganisation a number keeps the hash of the block that left (`strayed`); the
  synchronous `lru_cache` remembers that a block did not exist, so that
  `init_runtime` by its number goes on giving the head's runtime. A `retrieve`
  that finds nothing sets `last_used` to None. A local chain is neither loaded
  nor dumped.
* Failover. The asynchronous class does not catch `TimeoutError`; its
  `initialize` after a switch does nothing, since `initialized` is still True;
  calls in flight when another call fails over get neither answer nor error
  (`stranded`); with `retry_forever` and no chain up, recursion ends the call.
* Extrinsics. A nonce given out and not used is a gap that holds up what follows;
  the synchronous interface submits again after a lost connection, so its caller
  may be told of an error although the first submission stands; `retracted`
  counts as a failure although the extrinsic is back in the pool.
* Receipts. The synchronous receipt names a module error by the runtime loaded
  last; a rejection without a message, followed by `ExtrinsicSuccess`, is
  reported as success (`Overlooked`).
* Paging. `fully_exhaust` with `max_results=0` is a `ValueError` of the batching.

## Proofs

| Theorem | Statement |
|---|---|
| `RpcProof!TypeCorrect`, `TypeInvariant` | `Spec => []TypeOK`, and its inductive form |
| `RpcProof!SingleDialer` | `Spec => []OneDialer` |
| `RpcProof!NoDuplicate` | `Spec => []OneCopy` |
| `RpcProof!AnswersOnce` | `Spec => []NoSecondAnswer` |
| `RpcProof!AnswersKept` | `Spec => AnswerKept` |
| `RpcProof!ServiceImplemented` | `Spec => ImplementsService` |
| `RpcProof!WaitingIsCovered` | `Spec => []WaitingCovers` |
| `RpcProof!TimerWaits` | `Spec => TimerRespectsCalls` |
| `RpcProof!PermitsBound` | `Spec => []PermitLimit` |
| `RpcProof!OnlyDialsLose` | `Spec /\ []DialsAlone => []NothingLost` |
| `RpcProof!LoneCallLosesNothing` | `Spec => []NothingLost`, of a single call |
| `FetcherProof!OneFetchPerKey` | `Spec => []SingleFlight` |
| `FetcherProof!FollowersSettle` | `Spec => []NoOrphan` |
| `FetcherProof!FetcherTypes` | `Spec => []TypeOK` |
| `FetcherProof!AnswersAreOfKey` | `Spec => []AnswerIsOfKey` |
| `FetcherProof!EvictsOldest` | `Spec => []LeastRecentlyUsed` |
| `FetcherProof!MissesAreForgotten` | `Spec => []NoStaleMiss` |
| `RuntimeProof!RuntimesAreRight` | `Spec => []RightRuntime` |
| `RuntimeProof!CachesCohere` | `Spec => []CacheCoherent` |
| `RuntimeProof!NumbersStay` | `Spec => []NumbersStand` |
| `RuntimeProof!SyncStaysRight` | `Spec => []SyncIsRight` |
| `FailoverProof!RequestsGoToUrl` | `Spec => []RequestGoesToUrl` |
| `FailoverProof!RetriesAreBounded` | `Spec => []BoundedRetries` |
| `FailoverProof!EveryChainIsTried` | `Spec => []EveryChainTried`, if `Depth <= Stack` |
| `QueryMapProof!OrderIsKept` | `Spec => []Increasing` |
| `QueryMapProof!NoneIsSkipped` | `Spec => []NothingSkipped` |
| `QueryMapProof!PinnedStaysExact` | `Spec => []PinnedIsExact` |
| `QueryMapProof!IterationsAgree` | `Spec => []AgreesWithSync` |
| `ExtrinsicsProof!NoncesFollow` | `Spec => []CachedNoncesFollow` |
| `ExtrinsicsProof!SignaturesStand` | `Spec => []SignatureStands` |
| `ExtrinsicsProof!ReceiptsAreTrue` | `Spec => []ReceiptIsTrue` |
| `ReceiptProof!ReceiptInvariant` | `Spec => []IInv`, on which the next three rest |
| `ReceiptProof!TrueIsSuccessHolds` | `Spec => []TrueIsSuccess` |
| `ReceiptProof!VerdictStandsHolds` | `Spec => VerdictStands` |
| `ReceiptProof!SequentialReadsAgreeHolds` | `Spec => []SequentialReadsAgree` |

They hold for every value of the constants that the named assumptions allow:
finite sets of calls, any batch size, number of permits, size of a cache,
chain with any forks and upgrades, table of known versions, lists of chains,
depth of calls, stack, map, page size, period, height, events of a block, and
budget of faults. The assumptions say what is a number, a sequence of chains, a
place of a map or an event, that None is none of these, and what it is to be a
chain of blocks (`ChainAssumption`).

Induction: the library states it with an operator as parameter, which the
provers cannot instantiate. `NatSet` of `Induction` states it for a *set* of
numbers and rests on `WFMin`, that a non-empty set of numbers has a least
element. `Iteration` and `Unfolding` give from it the function that repeats a
step, `IntervalSet` a step from one end of an interval to the other. A recursive
function of a module is shown equal to such an iteration first (`RunsUnfolds`,
`SyncIterates`, `AfterUnfolds` and their like) and reasoned about by what that
says of `f[n + 1]`.

### The calls and their websocket

* `TypeOK` of `RpcCalls` is not inductive: `Acquire` would count past the
  payloads of a call. `TypeInvariant` adds that a call which waits for a permit
  has a payload left, and that only subscriptions unsubscribe.
* `OneDialer` follows from `LockInv`: at most one call has the lock, exactly
  while it dials, and then there is neither a handler nor an open connection.
  The handler's own redial needs the lock to be free when it resubmits and is
  cancelled by whoever takes the lock, so the two never meet.

The other theorems about the calls rest on the invariants of `RpcInvariant`,
proved one after the other:

* `OriginInv`: every id that circulates (queue, in flight, at the node, on its
  way back) or has a future is a payload its call has sent, or the unsubscribe
  message of a subscription that is over. So what a call puts in the queue
  (`Unissued`, `Queues`) is new everywhere, which is what the next invariant
  needs of `send` and `unsubscribe`.
* `FutureInv`: queue and flight are disjoint and without repetition; what is
  still to be sent or answered has no answer yet; while a handler runs, the
  queue, the node and the answers are disjoint. A resubmission is safe because
  it empties the flight into the queue, and a new connection because it starts
  with nothing at its other end: that is why an old answer cannot arrive beside
  the answer to the resubmitted request. `OneCopy` and `NoSecondAnswer` are parts
  of it; `AnswerKept` follows because the future that is replaced is one in
  flight.
* `ServedInv`: answers on their way, futures with a result and what a call has
  collected were served by the node, and a call past its poll loop has collected
  everything.

For the refinement, `Serve` maps to `Execute` or `Forget` (`OriginInv` says whose
request it is, `ServedInv` that an unsubscribe follows its subscription), the
first step of a call to `Ask`, its last to `Answer` or `GiveUp` (`ServedInv`), and
every other step leaves `Status` and `served` alone.

The limits are counted. For `WaitingCovers`, every step of a call either raises
the counter, or lowers it as the call stops expecting a response, or leaves it
while the call does not begin to (`Counts`); the cardinality of the set follows
it. `TimerRespectsCalls` is then the guard of the timer, read through the
counter. For `PermitLimit`, every step trades permits for outstanding requests
(`Trades`): what comes into the set is bought with a permit, and a permit comes
back only for a request that leaves it; requests of calls that died leave the
set without giving theirs back, which is why the limit is an inequality.

`NothingLost` is the invariant `OnItsWay`: as long as a handler lives, what is
awaited is queued or in flight; while it redials all of it is in the queue, for
the flight has been emptied into it; and while the connection is open it is
queued, at the node, or answered. Every step that begins to wait puts what it
waits for in the queue (`Hands`), and every step that takes from the queue hands
on (`OrderFills`). One step brings a handler back and requeues nothing: a call's
own dial. It loses what the other calls await, as `v_lost` shows, and nothing
else does: `OnlyDialsLose` assumes that no call has the lock while another waits
(`DialsAlone`), for any number of calls. For a single call that follows from
`LockInv`, so that `LoneCallLosesNothing` assumes nothing else.

### Method caches

`FetchInv` says that `_inflight` holds a call exactly while it leads, that the
future of a call that leads is not set, and that a follower follows a call of
its own key that leads, has settled its future, or was cancelled. All three are
needed: without the second, a call that lands could do so twice.

The cache adds three parts. `OrderInv`: no key is twice in the order of
use, and the cache is the end of that order; a key that is used moves to the
end of both, so that what falls out of the cache is the oldest of both.
`AnswerInv`: whatever is in the cache, on disk, about to be stored or returned
was fetched for its key, and a future that is set has the value its call has;
the answer of a follower is then that of its leader, whose key is the same
(`FetchInv`). `FreshInv`: a call that begins once the node has an answer, and is
not handed an older one, shares no fetch, and its own is not empty.

### Runtimes

`RuntimeProof` shows of every operator of `RuntimeCache` that it keeps a cache
whose rows are `Fit` (`Caches`): a block with its number, a hash with its version
unless the table misattributes it, a version with its own Runtime. The operators
only move, drop or add rows, so the lemmas are about sequences without a key
twice (`Distinct`). The invariant says the same of the rows on disk, of what
`answered` may answer, and of each call: the version it carries is that of the
block it is for, so that what it adds is sound, whoever else has added what
meanwhile. That the bisection gives the version of the last boundary not after
the block, wherever the table is neither wrong nor at its end, is the lemma
`Bisection`. For `NumbersStand`, `Fit` also says that the block is on the chain
as long as none has strayed; a longer chain that keeps the head keeps them all.

`RightRuntime` needs one thing more, that a call by number has settled on the
block it was asked about: `Keep` says of every call that has a hash that it is
the block that had the number when the call was made, as long as none has
strayed and the disk remembers no None for it; a chain that only grows keeps
that so.

`SyncIsRight` needs no invariant of its own. The cache that the asynchronous
behaviours leave has rows that fit, and every look-up of the synchronous
`init_runtime` gives back such a cache; so what it finds by hash or version is
right, and what it finds by number as long as no block has strayed; where
`lru_cache` answers None, what it finds is the runtime of the head.

### Failover

`IInv`: the Websocket made last is one to `self.url` (asynchronous); an open
`self.ws` is one to `self.url`, and a request that has been sent is on a
connection to it (synchronous). Whoever changes `self.url` closes `self.ws` in
the same step, and only one call is under way. The rest of it is the shape of
the records.

`BoundedRetries` counts the requests of a call, whose frames come and go: a
frame that fails over runs `initialize`, and `connect` fails over by itself, and
these push frames of their own. `GoodCall` tells the frames at the bottom that
are the call's own, nested once for each level of its depth, from those above
them, which belong to an `initialize` or a `connect` under way and whose
requests are not the call's. `Budget` gives every own frame an upper bound on
what has been requested when it returns: one that has not begun its second run
has room for as many requests again as all the frames above it may make
(`Runs`). A step that starts the second run uses that room up, one that returns
hands what is left to the frame below. `Topped` says which kind of frame is on
top where the code's next step depends on it.

`EveryChainTried` needs to know of each chain that an iterator has handed out
where it is: `Covered` says that it has been tried, or that some call is `Going`
to try it. A call that has been given it switches to it; then an asynchronous
one dials the Websocket it has just made, and a synchronous one has made it
`self.url` with `self.ws` closed, so that the next `connect` goes there. `Spent`
says of a call that found a list at its end that all of it had been handed out
(an iterator that cycles is never at its end, `Iterators`), and of a synchronous
one, between two attempts when it found it so, that all of it had been tried. A
`RecursionError` is the danger: it ends a call that has been given a chain. In
the synchronous class the chain is `self.url` by then, and the next call goes
there. In the asynchronous one another task may switch away before a later call
goes there; but its frames are methods, each with room above it for its own
(`Shallow`), so that a stack that held the call before it failed over holds it
after. This is the assumption `StackFits`, `Depth <= Stack`: a call deeper than
the stack could not be made in the first place, and with `Stack = 1` and `Depth
= 2` TLC finds `EveryChainTried` violated. Nothing is assumed of the room that
the failovers themselves need.

### Paging

The page of a map is its `Sorted` keys after an offset, where the n-th has n - 1
keys before it (`Rank`). That there is such a sequence, and only one, is proved
from the cardinalities of its initial parts. The invariant has six parts:

* `Asking`: which offset is asked for at each place, and that a request is only
  made with an empty buffer.
* `Ordered`: what has been handed out and what is in the buffer is one rising
  sequence, and `last_key` is its last. This is `Increasing`: as every page is
  asked for after the last key, it cannot repeat one, whatever was written in
  between.
* `Covered`: a key that has been there all the time has been fetched, or is
  after `last_key` with pages still to come. A short page ends the iteration
  only because nothing follows it *in the state it was taken from*, and the keys
  in question were there then.
* `Drawn`: at a given block, what is fetched is wanted, and what follows
  `last_key` is too. With `Ordered` and `Covered` two rising sequences with the
  same elements are the same, which is `PinnedIsExact`; with `max_results` only
  the first half of it is claimed, that what has been handed out begins what is
  wanted. It is about keys, not values. Pages of
  size 0 and offsets with nothing after them (`Forgotten`) are left out.
* `Carried`: the page whose values are awaited keeps its promise while the map
  changes.

For `AgreesWithSync`, `SyncIterate` keeps the same promises after every page
(`SyncSound`): rising, wanted, and nothing left out. Every page but the last
brings a key, so it is over after as many pages as there are keys and one more,
with the sequence that the asynchronous iteration yields.

### Extrinsics

* Nonces (`NonceInv`): a task that asks the node holds the lock and finds nothing
  cached; nothing is cached exactly if nothing has been given out; what is
  cached is the nonce given last. Each nonce given is then the successor of the
  one before.
* Signatures: the block an era begins in is not after the one that was final when
  the call looked (`CallGood`, from `Era` on), and forks leave what is final alone
  (`Stays`). What `get_block_hash` remembers of a number is final too, or was
  looked up early by others (`HashGood`), and so is what is signed (`SignedGood`).
* Receipts (`CallGood`): a message "inblock" or "finalized" that waits for its
  task names a block that was made with the extrinsic of that task, and, if
  finalized, that is final. `Grows` says that no step takes either back; a task
  forgets the messages of the connection it lost.

### Receipts

The loop of `process_events` suspends in its middle, and another reader may run
it from the start on the same receipt meanwhile. What one event does is
`HandleShape`; what the loop does from its place to the end or to its next
suspension follows by `Unfolding` over the list. `IInv` has these parts:

* `Listing`: every list is empty, or ends with the events of the extrinsic and
  has no others (two readers that overlap append them twice), and before there
  is one the receipt has neither verdict nor message nor fee.
* `Placed`: where a reader may be; one that waits for a runtime stands at a
  module error of its list, its `possible_success` is False and the verdict has
  been set.
* `Facts`: "yes" only if the events say success and no failure leaves a message
  (`Named`: a failure with a message, not followed by one that sets it to None),
  "no" only if they say failure, a message only if they say failure. This is
  `TrueIsSuccess`; as a failure and a success without a message are `Overlooked`,
  it is also why a verdict stands.
* `Alone` and `Answered`, while no two readers overlap and no call fails: there is
  one reader away at a time, its list is exactly the events of the extrinsic once
  they are there, the fee is what the events before its place make it, and what a
  read has returned is set.

### Only model-checked

* Liveness, which the prover does not treat: `CallsSettle`, `AnsweredCloses`,
  `CallsEnd`, `CallEnds`, `IterationEnds`, `SubmissionEnds`.

## Not modelled

| Part | Why |
|---|---|
| DNS and TLS session caches | they change how long a dial takes, not its outcome |
| SCALE decoding, type registry, hash functions | conversions around external codecs; what other modules need of them is there (which hashers can be read back, which keys share a prefix, which runtime decodes) |
| errors, protocols, constants | declarations |
| multisig and unsigned extrinsics, payment info | the same requests with other payloads, no state of their own |
| metadata look-ups, runtime calls, constants of the chain | one request each, decoded and handed on |
| subscriptions to storage and block headers | the subscription of `RpcCalls`, with a callback of the application |
| `close()` and `shutdown()` called by the user | ends every call; what it leaves on disk is `Restart` of `RuntimeLoading` |

What a next step could be: `Failover` over `RpcCalls` itself, so that stranded
calls and resubmission meet in one model; `AsyncSqliteDB` with two processes on
one file.
