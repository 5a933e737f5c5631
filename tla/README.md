# Tensor Fabric in TLA+

A verification development for `tensor_fabric`, the GPU-aware inference stack
under `src/src/tensor_fabric`. The specifications follow the Python code; line
numbers below refer to it. `PROJECT.json` maps every definition that stands
for code to its lines.

Run a check with `tlc -config <run>.cfg <module>`, and the proofs with `tlapm`
on each of the modules `...Proofs.tla`.

## 1. The system

The package is one asyncio process. Handlers, poll loops and background tasks
are coroutines on one event loop, so a piece of code between two awaits is
atomic; only the file input and output of TensorFS and the GPUDirect bridge
runs in threads of the executor. Every `async with lock` in the package guards
code that awaits nothing, so a lock is free whenever a coroutine asks for it
and an uncontended `asyncio.Lock` does not suspend.

| Component | State | Operations | Talks to |
|---|---|---|---|
| `inference/kv_cache_manager.py` | per device an `OrderedDict` of entries, `_used_bytes`, `_capacity`; the dict of pools | `add_gpu`, `store_kv`, `get_kv`, `lookup_sequence_gpu`, `extend_kv`, `evict_sequence`, `prefill_from_storage` | called by the mesh |
| `inference/batch_aggregator.py` | a queue per model, `_running`, its loop tasks, dispatch tasks | `submit`, `start`, `stop`, loop round, `_dispatch` | started and stopped by the mesh, which submits nothing |
| `inference/nim_client.py` | the shared httpx client `_client` | `__aenter__`, `__aexit__`, `complete` with one retry, `stream` | called by `_dispatch_to_nim` and `handle_stream` |
| `inference/inference_mesh.py` | counters, `_running`; owns all of the above and the routing engine | `start`, `stop`, `handle`, `handle_stream`, the store task, `_on_gpu_event` | everything |
| `storage/tensor_fs.py` | `_index` in memory, one file per key on disk | `write_tensor`, `read_tensor`, `delete`, queries | file system, executor threads |
| `control_plane/gpu_state_manager.py` | latest topology, metric windows, listeners, model registry, poll loops | `register_model`, `evict_model`, `start`, `stop`, poll | listeners (the mesh), routing engine |
| `common/gpu_topology.py` | last discovered topology | `initialize`, `refresh` | pynvml |
| `control_plane/routing_engine.py` | predictor history and n-grams, prefetch queue | `route`, prefetch | state manager, mesh |
| `network/tensor_router.py` | pending and completed transfers | `transfer`, `broadcast`, `allreduce` | CUDA, NCCL |
| `storage/gpudirect_bridge.py` | counters | DMA reads and writes | files |
| `control_plane/api.py` | none | HTTP handlers | mesh, state manager, routing |

### What is hard in it, and what makes each part correct

* **KV cache.** `put` counts an overwritten entry twice (`:85-86`), evicts as
  if nothing were free (`:75`, `:110-116`) and refuses afterwards;
  `extend_kv` counts without a capacity check (`:268`), and not at all when the
  second of its concatenations raises (`:265`); entries lapse but stay until
  somebody looks. Correct means: but for `extend_kv` the counter never
  undercounts, the capacity holds, what is leaked can never wedge a pool, the dict that picks
  the victims has exactly the entries, and a lookup by string prefix names the
  right sequence.
* **Batch aggregator.** A round may raise half-way; `start` adds a loop each
  time; `stop` is only noticed after a sleep. Correct means: each request
  waits until it is handed out, once; batches keep their limits, and whatever
  can be batched is batched.
* **NIM client.** One object is entered by every request; each entry replaces
  `_client` and each exit closes the current one. Correct means: a request
  that nothing disturbs is answered by NIM, every request ends, and clients
  are left open by overlaps only.
* **Mesh.** The device is looked up before the wait for NIM and used by a task
  after the response. Correct means: a conversation's cache gets a new home
  only through a miss.
* **TensorFS.** Threads cut, write and read files without locks, next to
  deletes in the event loop; each of their system calls may fail, and an error
  turns into an answer without a tensor; the index does not outlive the process.
  Correct means: what nothing overlaps and no error ends is stored and read
  whole.
* **Control plane.** Polls and registrations both write the models of the
  published nodes; a failing query makes a poll publish the last object again;
  a start may bring back the mock topology, or leave a second loop; devices
  leave while models are registered on them; the prefetch queue only grows.
  Correct means: the registry and the snapshot never disagree on a device they
  both know, routing follows the snapshot, the snapshot recovers after a
  failure, and stopped loops end. For the API: only a machine that has lost its
  last device takes back what `/ready` has promised.
* **Tensor router.** Pending transfers are keyed by tensor, so those of one
  broadcast overwrite each other's entry; a copy awaits before it reads its
  source, which a collective may change in place meanwhile; NCCL may fail with
  its group open or after it has reduced some arrays. Correct means: what a
  call returns is what the source held, completed jobs and bytes are exact, and
  no failure of a collective, at whatever point, loses the shard of a device.
* **GPUDirect bridge.** Threads read and write tensors of one file next to each
  other; a cuFile call that raises is repeated on the host path. Correct means:
  what nothing overlaps is on file and read whole, and is counted once.

## 2. Modules

| Module | Models | Built on |
|---|---|---|
| `GPUKVCachePool` | one pool per device: `put`, `_evict_lru`, `_remove`, expiry | community modules |
| `KVCacheManager` | the manager's coroutines over the pools | `GPUKVCachePool` |
| `KVCacheManagerProofs` | theorems about `KVCacheManager` | `KVCacheManager`, `TLAPS` |
| `BatchForming` | `_get_bucket`, `_form_batches`, `_form_single_batch` as functions of a queue | community modules |
| `RequestPool` | abstract: what the aggregator promises to submitters | |
| `BatchAggregator` | queues, loops, dispatch tasks; implements `RequestPool` | `BatchForming`; `RequestPool` by `INSTANCE` |
| `BatchAggregatorProofs` | theorems about it | `BatchAggregator`, `TLAPS` |
| `NIMClient` | the shared client under its concurrent users | |
| `NIMClientProofs` | theorems about it | `NIMClient`, `TLAPS` |
| `InferenceMesh` | requests, store tasks, restarts and VRAM events over the cache | `GPUKVCachePool`; `KVCacheManager` by `INSTANCE` |
| `InferenceMeshProofs` | theorems about it | `InferenceMesh`, `TLAPS`; `KVCacheManagerProofs` by `INSTANCE` |
| `TensorFS` | index, files, executor threads, crashes | |
| `TensorFSProofs` | theorems about it | `TensorFS`, `TLAPS` |
| `GPUDirectBridge` | reads and writes of the tensors of one file on the paths A, B and C | |
| `GPUDirectBridgeProofs` | theorems about it | `GPUDirectBridge`, `TLAPS` |
| `TensorRouter` | transfers, broadcasts and their ledger, allreduce with and without NCCL | community modules |
| `TensorRouterProofs` | theorems about it | `TensorRouter`, `TLAPS` |
| `GPUStateManager` | discovery and its fallbacks, poll loops, snapshots, the registry of models | |
| `RoutingEngine` | predictor, routing decisions, prefetch queue and `/ready`, composed with the state manager | `GPUStateManager` |
| `ControlPlaneProofs` | theorems about the two | `RoutingEngine`, `TLAPS` |

`MC...` modules give constants their small values and hold the claims of the
repository that the code does not keep. Definitions marked `Mutant` are
plausible bugs of the operator that follows them; no specification uses them.
They show that a property can be broken by the code it is about.

### How the state corresponds to the code

**KV cache.** `cached[g]` is the dict `_cache` of device `g` (key to entry),
`order[g]` its insertion order, which `move_to_end` changes and an assignment
to a present key does not; `used` and `capacity` are `_used_bytes` and
`_capacity`; `devices` is the key order of `_pools`. Of `last_accessed` only
the expiry that follows from it is kept. Bytes are allocation units. `Lapse` makes an entry expired: time
is abstracted to "this entry's ttl has run out". A cache key is the sequence of
its parts and separators, so that matching by prefix is what the string match
does. Statistics counters are left out. `extended` and
`uneven` are histories: the pools that `extend_kv` has appended to since they
were made, and those of them in which it did not count what it added.
`ExtendKVRaises` is the call whose second concatenation raises (`:265`): the
entry has grown by its keys and `_used_bytes` has not. A call that returns may
undercount as well, since `concatenate` promotes the dtypes of the two arrays:
the entry grows by at least the bytes that are counted (`Enlarge`).

**Batch aggregator.** A request is its number, model and length. A model has a
queue once it has been seen (`models`). A loop task is a count, as they are all
alike. `LoopRound` is one pass of `_aggregation_loop` with its `try`: models
are formed in turn, and a model whose batches make numpy raise ends the round
for the later ones (`Reached`). The refinement mapping to `RequestPool` takes
the requests in all queues as those that wait, and those of every batch as
handed out: a round that fails half-way and a batch whose dispatch fails are
then hand-outs and stutters, and a request that were lost, batched twice or put
back would be neither.

**NIM client.** `current` is `_client`, `open` the httpx clients not yet
closed. The steps end at the awaits: the post, the pause of `tenacity`, and the
stream. `refused` and `overlaps` are histories that the properties refer to.

**Mesh.** `requests` is the sequence of all requests with the phase each has
reached. `Begin` is `handle` up to the wait for NIM (lookup and routing),
`Respond` the rest of it, `Store` the task it leaves behind. Waiting for NIM is
one step here: `NIMClient` shows that it ends. Routing is the set of devices it
may choose: the cache's, else any of the topology (least loaded depends on
metrics that may be anything), else 0.

**TensorFS.** `ops` lists the calls; each moves through the system calls of its
thread. An inode has the name of the write that created it, so that a file that
is deleted and written anew is another one, and a thread that has the old one
open goes on using it. Writes are put together cell by cell at an offset of
their own; a file cut by another writer meanwhile gets a hole. Each call
carries `clean` (no write of its key overlapped it) and `cut` (its key was
deleted during it), which the properties refer to. Opening, reading, writing
and unlinking may fail at any step (`FailRead`, `FailWrite`, `FailDelete`): a
read then returns `(None, descriptor)`, and a delete has already taken the key
from the index (`strays`). A read whose bytes do not make a tensor, or whose
dtype numpy does not know (`Readable`), or whose copy to the device fails,
raises. The model is the host path (section 7).

**Control plane.** A topology is the metrics of its nodes and the NVLinks
between them. Topologies are Python objects that more than one name refers to:
`latest` is the one of the discovery, `published` the one of the manager, and
`shared` says that they are one object. Only the published nodes ever have
`loaded_models`, so these are a variable of their own (`loaded`), and a new or
mock object starts without any. `HardwareChange` lets devices and the driver
change at any time: a driver that is "faulty" still initializes but raises on
some query, which is what one lost device does. A machine may have no device: NVML
then answers 0, and an empty topology is published. A poll is one step, since the
code under its lock awaits nothing. The loops of `route` are the entries of
`Decisions`, the first that is not empty deciding; `min` over a Python set may
pick any of the least used devices, so a decision is a set of candidates.
`ngrams` has a zero where the dict has no entry. What is predicted is logged
and nothing else (`routing_engine.py:250-255`), so that only whether there is a
confident prediction is modelled. `RouteTensor` is the handler of the API,
`route` with nothing known of the consumer's device; `Ready` is what `/ready`
looks at, and `TargetsExist` says where the two ways of deciding that look at
the snapshot (locality and fallback) would send a tensor now.

**Tensor router.** `calls` lists the transfers and broadcasts with the state of
the copy to each device. A copy between two devices has the await of
`_transfer_gpu_to_gpu` between its registration and the copy, and is then two
steps; a transfer that returns the array as it is is one. `pending[t]` is the
entry of tensor `t` in `_pending`, which any job of that tensor overwrites and
pops. An array is the value of its shard, `Junk` when nothing meaningful was
written to it. A copy "fails" when CUDA raises; NCCL, which is external, raises
before it has opened its group, inside it, or after the launch, and the handler
of that failure, or the reduction of the switch, may raise itself once it has
changed some arrays (`NoResult`). `reductions` is the history of collectives:
what each returned, how it failed and which arrays it changed (`inPlace`).
`groupOpen`
is the state that a failure inside leaves behind in NCCL: collectives issued in
a group are launched by the outermost `groupEnd` only. `held` (what the source
has held since the call) is a history.

**GPUDirect bridge.** One file with tensors side by side (`Slots`), in cells
that the kernel reads or writes whole. A call moves through the system calls of
its thread; a cuFile call is one step in the event loop, or fails and leaves the
host path to do it. `CuFile(path, "w")` is external and taken to do what that
mode does: it makes the file or cuts it to nothing. `clean`, `entry` and `cutBy`
are histories: whether anything overlapped a call, which write a read should
see, and the last write that cut the file.

## 3. Runs

| Run | Bounds | Shows |
|---|---|---|
| `KVCacheStore` | 2 devices (symmetric) of capacity 2, sequences `s` and `s1`, 1 layer, entries of 1 or 2 units, extended by 1 to at most 3 (`MaxEntry`), at most 1 pool at a time that `extend_kv` miscounts (`MaxUneven`) | accounting, order, bounded leak, never wedged, prefix lookup; only `extend_kv` exceeds a capacity; expiry is final |
| `Batching` | 4 requests of lengths 1, 3, 5 in buckets 2 and 4, batches of 3, split from the second request on, 2 models, 2 loops; fair | each request once, batch limits, a pool of requests is implemented, progress |
| `NIMRequests` | 3 requests, one a stream; fair | undisturbed requests are answered, which clients stay open, every request ends |
| `Mesh` | 3 requests of 2 conversations, 2 devices of capacity 2, one configured, 1 restart, 2 relief tasks | homes come from misses; one home without overlaps |
| `TensorFS` | 3 calls on one key, tensors of 1 and 2 cells and one of 1 cell that numpy does not know, deletes, any system call failing, 1 restart | whole tensors, whole reads, index and disk agree |
| `GPUDirectBridge` | 3 calls on two neighbouring tensors of 2 and 1 cells; no file, an empty one or one of 3 cells; paths A, B, C | settled tensors stay on file, whole reads, calls counted once |
| `TensorRouter` | 3 devices, 2 transfers or broadcasts and 3 calls in all, a cupy tensor of float16 and a numpy one of int8, sum and max over 2 devices; numpy, cupy, NCCL | returned copies are true, exact ledger, sums count every shard |
| `ControlPlane` | 1 model on 2 devices, three machines (of two devices, only the hot one, none), mock of 2, 2 loops, 4 routes of 2 tensors in a window of 3, queue of 1; fair | placements agree, routing follows the snapshot, n-grams cover the history, the snapshot recovers, stopped loops end, ready until no device is left |
| `KVCacheRefusal` | 2 devices of capacity 2 or 4, entries of 1 or 3 units, nothing extended | violated: an entry that fits is refused |
| `BatchOverlong` | 2 requests; fair | violated: an overlong request is never batched |
| `NIMInterference` | 2 requests | violated: "NIM not connected" with a healthy NIM |
| `TensorFSKeys` | 2 writes | violated: tensors that differ in dtype share a key |

**Why the bounds are enough.** Two devices make the search through the pools
and the difference between a home and another device; two sequences with one
name a prefix of the other are what a prefix match can confuse; sizes of one
and more units against a capacity of a few reach every way through `put`:
fits, evicts some, evicts all and stores, evicts all and refuses. One pool that
`extend_kv` miscounts lies next to one that it does not, between which evictions
of a sequence and lookups go. No
definition of the cache tells devices apart, which makes their symmetry sound;
`ExpiryIsFinal` and `OnlyExtensionOverflows` are properties of single steps, and
the two speak of every device alike. In
`Batching`, the overlong length makes rounds raise with batches formed before
and after; three lengths in two buckets make both limits close a batch. A
batch splits on a change of bucket from the fourth request on in the code, and
from the second in the run (`MinSplit`), so that four requests reach it. Three
requests are the first number at which one closes a client that two others
compete for. Files of different keys share nothing, so one key is enough, and
three calls give two writers and a reader, or two overlapping writes and one
that repairs. For the bridge, two tensors that touch are what a wrong offset
or a cut file mixes up, and three calls are a settled write and two that
overlap beside it. For the router, three devices are the first with a broadcast
of two copies that wait at once, a second call of the same tensor overwrites
their entry, and the third request is the collective that changes their source;
or a failing collective and two that come after it. In `ControlPlane` a device that leaves with a model on it and
comes back, next to one that is too hot, reaches every way of deciding; four
routes fill the window of three and move it, and are the first number with a
prediction that is not confident; the second of them may fill the queue. Two
loops are the first overlap. Bounds that only cap the state space are constants
named `Max...`.

**Deadlock** checking is off in `Mesh`, `TensorFS`, `TensorFSKeys`,
`GPUDirectBridge`, `TensorRouter` and in the NIM runs, where bounded requests
are all done in the end; the other runs have it on.

**Fairness.** `Batching` assumes that the event loop runs a task that is ready
and that a sleep ends: weak fairness of the loop's round and of its end. The
round's fairness is written with its enabling condition spelled out
(`RoundReady`), which TLC evaluates faster than `ENABLED`. Nothing is assumed
of `Start`, `Stop` or `Submit`. `NIMRequests` assumes weak fairness of each
request's next step: httpx has timeouts on every wait, and the pause of a
retry is a timer. NIM need not answer: an error or timeout is a step too.
`ControlPlane` assumes weak fairness of a poll and of the end of a loop, which
follow a sleep of half a second each; nothing of hardware, driver, starts,
stops or calls of `route`. `SnapshotRecovers` is about the time in which the
driver answers, and makes no assumption that it ever does. The
other runs check safety only.

## 4. Properties worth knowing

* `NeverUndercounts`: through overwrites, evictions, expiry and extensions. It
  excepts a pool from the call on in which `extend_kv` raised half-way or
  promoted a dtype, which is the only way to undercount, until the pool is made
  anew.
* `ExpiryIsFinal`: no lookup, overwrite elsewhere or eviction revives a lapsed
  entry; storing it again does, and so does `extend_kv`, as the code is
  (section 6).
* `LeakBelowCapacity`, `SmallestIsStored`: overwriting an entry leaks its size
  into `_used_bytes`, but less than the capacity in total, because the put
  that leaks also stores; and since a pool of leaks can be emptied, one unit
  can always be stored.
* `EachRequestOnce`: through failing rounds and several loops. `ImplementsPool`
  adds the order of things: what was handed out is not handed out again, and
  nothing comes back.
* `EventuallyBatched` exempts queues with an overlong request: `BatchOverlong`
  shows why.
* `HomesComeFromMisses`: restarts, evictions and stale lookups may make a turn
  store its cache on a device that has just lost it, but that device was
  chosen by an earlier miss.
* `OneHome`: holds for turns that do not overlap; turns that do can open two
  homes, and both stay.
* `IndexedIsWhole`: one clean write repairs whatever writes before it tore.
* `ReadsAreWhole` of TensorFS: says what each way out of a read means. Without an
  error of the file system or the device, finding nothing means a delete, and
  raising means a dtype that numpy does not know.
* `IndexMatchesDisk`: names what makes index and disk disagree: writes that fail
  or run while the key is deleted, deletes that fail, and restarts.
* `ClientsAreClosed`: a client that is still open when its request has ended is
  one that an overlapping request replaced; the one that a resting object
  holds is closed.
* `ReturnedCopiesAreTrue`, `LedgerIsTrue`: the ids by which `_pending` is keyed
  make it wrong while transfers run, but what returns and what is completed
  stays exact, and nothing but a failed transfer is left behind.
* `SumsCountEveryShard`: relates what a sum returns to what the devices held at
  first, over any history of collectives that fail, fall back, raise and are
  called again. No shard is ever missing; a shard counts once as long as no array
  was reduced in place before, and may count several times after that, which is
  what the fallback does after a failing launch (section 6). Only a sum that NCCL
  never launched, in a group that an earlier failure left open, is excepted. The
  reductions that NCCL is not asked for as they were meant (another operation
  than sum, another dtype) are in section 6.
* `SettledIsOnFile`: a torn or failed write stays within its own tensor, and a
  fallback from cuFile writes to the same place; only a cuFile write of a
  neighbour takes a settled tensor away.
* `StaysReady`: `/ready` is asked once and relied on afterwards. Polls that fail,
  devices of which some leave and restarts onto the mock topology do not take it
  back; a driver that answers and counts no device does. While it holds, the two
  ways of routing that look at the snapshot find their targets in it.
* `PlacementsAgree`: holds through polls that publish the old object again,
  through a mock topology taking its place, and for models registered before
  there is any snapshot. It is what makes `PlacementFollowsSnapshot` true: the
  engine reads the registry, and others read the nodes.
* `SnapshotRecovers`: exempts a manager whose `nvmlInit` never succeeded; it
  publishes the mock topology until it is started again.

## 5. Proofs

### The cache

`KVCacheManagerProofs` proves, for any sets of devices, models, sequences and
layers, any sizes and capacities and any history:

| Theorem | States |
|---|---|
| `TypeCorrect` | `Spec => []TypeOK` |
| `UsedCoversEntries` | `Spec => []NeverUndercounts` |
| `CapacityRespected` | `Spec => []WithinCapacity` |
| `LeakIsBounded` | `Spec => []LeakBelowCapacity` |
| `OnlyAppendsOverflow` | `Spec => OnlyExtensionOverflows` |
| `OrderIsExact` | `Spec => []OrderOK` |
| `PoolsAreNeverWedged` | `Spec => []SmallestIsStored` |
| `OnlyWritesRevive` | `Spec => ExpiryIsFinal` |
| `LookupIsExact` | `Spec => []LookupNamesTheSequence`, for ids without `:` |

`NeverUndercounts` is about the pools that are not in `uneven`, `WithinCapacity`
and `LeakBelowCapacity` about those not in `extended`. Assumptions: those named in `GPUKVCachePool` and `KVCacheManager`
(sizes and capacities are positive numbers, the sets of names are what they
should be), and nothing else.

*Argument.* `NeverUndercounts` is not inductive by itself: taking entries out
subtracts their sizes, so one has to know that a pool has finitely many entries,
each well-formed and under its own key. The inductive invariant is that shape
(`Shape`, `Typed`) together with the bound. The eviction order is not needed
for it: what an eviction frees is counted over entries that the pool has. `Bytes` is
the cardinality of the units that the entries of a pool occupy; the lemmas state
what adding, replacing and removing entries does to it. `Accounts` then says
what any step may do to the account of a pool: it is made anew, loses `f` units,
loses some and gets an entry that fits, or grows by `extend_kv`, which counts it all or
makes the pool uneven, and one lemma
per action shows that its steps are of these kinds. All four bounds follow from
`Accounts` by arithmetic: `put` inserts only what fits, and what it leaks is at
most the size it overwrites, which is below the capacity that is left after the
new entry has been counted.

`OrderOK` needs that the order lists the keys of the pool without repetition
(`Listings`): a key that is moved to the end is dropped first, and what drops a
set of keys leaves the others, each once, in their order. `Drop` is defined by
recursion over the positions of the list; its facts are proved from the defining
equation, from the least position at which they would fail. `SmallestIsStored`
follows from `Listings` and the bounded leak in every state: a pool in which one
unit does not fit counts its whole capacity, of which less is leaked, so it has
an entry; the loop takes the first one, and frees a unit at least.

`LookupIsExact` assumes that the ids of models and sequences are strings over
characters that do not include `:`, of any lengths (section 7). It follows from
`TypeOK`, by which each entry lies under its own key, and from facts about
strings: where two keys agree up to the length of a prefix,
their first separators cannot be at different places, since one of them would
lie inside an id; so the models are of one length, and then the sequences by the
same reasoning (`SameNames`). The layer, which has a place at the end of the
key, is not compared.

### The control plane

`ControlPlaneProofs` proves, for any devices, models, machines and descriptors
and a mock topology of up to 8 devices:

| Theorem | States |
|---|---|
| `StateTypeCorrect` | `Spec => []StateTypeOK` |
| `PlacementsAlwaysAgree` | `Spec => []PlacementsAgree` |
| `PlacementsAreFollowed` | `Spec => []PlacementFollowsSnapshot` |
| `ReadyWhileDevices` | `Spec => StaysReady` |
| `EngineTypeCorrect` | `Spec => []TypeOK` of `RoutingEngine` |
| `CountsCoverWindow` | `Spec => []NgramsCoverHistory` |

Assumptions: those named in `GPUStateManager` (metrics are natural numbers,
links join devices of the topology, NVML numbers its devices from 0 if it has
any, the mock topology has 1 to 8) and `RoutingEngine`.

*Argument.* `StateTypeOK` says how the parts of a snapshot fit, and is
inductive: `loaded` is about the nodes of the published topology, and a shared
topology is the latest one. That is what a poll needs that falls back and
leaves `loaded` alone. `PlacementsAgree` is then inductive as well: a
registration changes both sides by the same device, and a poll either takes
them from the registry or, when no model was ever named, has none to lose.
`PlacementFollowsSnapshot` follows from the two in every single state.

`StaysReady` is about a step, but does not follow from the step alone: a poll
that fails publishes `latest` again, which has to have devices if the snapshot
has. `LatestFilled` says so, and is kept by polls, which publish the machine they
found empty together with making it the latest, and by starts, whose mock
topology has one device at least. In a snapshot that is ready, device 0 is there by the shape of the topologies, and the neighbours that
locality chooses from are devices of the snapshot because its links are.

`EngineInv` adds the predictor and the prefetch queue. The window of the history
changes by `Append`, and by `Tail` when it is full: the pairs that it then has
are pairs it had before, or the one that was just counted (`Predictor`), so the
counts cover the window. A job is queued only where the loop of the fallback
chose the target, which is then the number of a device (`Queue`).

### The batch aggregator

`BatchAggregatorProofs` proves, for any models, lengths, bucket sizes and limits,
any number of requests and of loops:

| Theorem | States |
|---|---|
| `AggregatorTypeCorrect` | `Spec => []TypeOK` |
| `RequestsOnce` | `Spec => []EachRequestOnce` |
| `BatchesKeepLimits` | `Spec => []BatchesFit` |
| `LateRequestsAgree` | `Spec => []LateRequestsShareBucket` |
| `AggregatorRefines` | `Spec => ImplementsPool` |

Assumptions: those named in `BatchForming` and `BatchAggregator` (bucket sizes
and limits are positive numbers, lengths are numbers). The buckets need not be
sorted, and a change of bucket may split from any size on.

*Argument.* First, what `_form_batches` does with a queue that lists nothing
twice (`FormingCuts`): it cuts it into batches that share nothing, have its
requests between them, and keep the limits. The sort puts each request at the
number of those before it plus one; different requests have different places, so
the places are all taken, and the sorted list has the same requests
(`SortingSorts`). The loop is followed request by request with an invariant of
its own (`Forms`): the closed batches and the open one have the requests seen so
far, each in one of them, and the last request of the open batch is its longest
one, so that the bucket compared with is that of the request before
(`TakeCloses`, `TakeAppends`).

Then the inductive invariant `AggInv` of the aggregator: queues list submitted
requests of their own model, each once (`Queues`); batches keep the limits and
are of requests of their model (`Formed`); batches and queues share nothing, and
have all that was submitted (`Once`). `EachRequestOnce` by itself does not say
that a batch has only submitted requests, nor that ids are not given again. A
round that fails half-way empties the queues of the models it reaches and leaves
the others (`RoundQueues`): what it removes from them are requests of other
models. The refinement maps a submission to `Accept` of a request that is
new, a round to `HandOut` of the batches it forms, and every other step to a
stutter, since the task that a batch moves through does not show.

### The NIM client

`NIMClientProofs` proves, for any set of requests and of streams among them:

| Theorem | States |
|---|---|
| `ClientTypeCorrect` | `Spec => []TypeOK` |
| `OnlyOverlapsLeak` | `Spec => []ClientsAreClosed` |
| `UndisturbedAreAnswered` | `Spec => []HealthyIsAnswered` |

*Argument.* That a request without overlaps is answered rests on the object
being its own as long as it runs: it is the only one in progress, and its
client is the current one, open, and the one it uses (`Undisturbed`). A request
that begins while another is in progress puts both into `overlaps`, so the
conjunct is kept; and every exit closes the current client, which is then the
leaver's own or that of an overlapping request.

### The mesh

`InferenceMeshProofs` proves, for any devices, conversations, number of turns,
restarts and relief tasks, and ids without `:` (for the last two):

| Theorem | States |
|---|---|
| `MeshTypeCorrect` | `Spec => []TypeOK` |
| `HomesAreChosen` | `Spec => []HomesComeFromMisses` |
| `OrderlyHasOneHome` | `Spec => []OneHome` |

*Argument.* Every step but a store only takes entries away or lets them lapse
(`BesideStoreKeeps`), and a store adds one, of its own conversation, at its
target (`StoreAdds`). A turn that hits is sent to a device which holds a cache
of its own conversation, by the lemmas on keys of `KVCacheManagerProofs`; so by induction its target was
chosen by an earlier miss (`HitsGoToChosen`), even when that cache is gone by
the time the turn stores its own. For `OneHome`, two more parts are needed: at
most one turn of an orderly conversation has its store to come
(`EndedBefore`), and all that the conversation has cached lies at the target of
that turn (`StoresAtHome`), as the lookup finds the one home if there is any
(`HomeIsFound`). Only turns that will store are in that part, since with sharing
switched off, or streaming, a turn may run elsewhere and leaves nothing.

### TensorFS

`TensorFSProofs` proves, for any keys, any dtypes, whichever of them numpy knows,
sizes of one cell or more, any number of calls and of restarts, and any system
call failing:

| Theorem | States |
|---|---|
| `FilesTypeCorrect` | `Spec => []TypeOK` |
| `IndexedStaysWhole` | `Spec => []IndexedIsWhole` |
| `ReadsReturnWhole` | `Spec => []ReadsAreWhole` |
| `IndexAndDiskAgree` | `Spec => []IndexMatchesDisk` |

*Argument.* The inductive invariant is the conjunction of six parts: the types
and shapes of files and calls (`Shape`); which inode each thread has open, and
which name has it (`Linked`); that of two writes of one key that overlap neither
is clean (`Alone`); that what the index has of a key is the last write of it
that ended (`Current`); how far a clean write has brought its file (`Partial`);
and that a clean read has so far got the cells of the tensor that it is to
return (`Reading`). `IndexedIsWhole` alone says nothing of a write that is under
way, and `ReadsAreWhole` nothing of a read that is. Errors end a call and are no
exception to the parts: a call that failed moves nothing any more. The proof goes by the thread
that takes the step: it moves its own call and its inode only, and the inodes
that matter to a clean call are those which no other thread has open for
writing, since a thread that had would have overlapped it.

### The GPUDirect bridge

`GPUDirectBridgeProofs` proves, for any number of calls on any tensors that have
positive sizes and do not overlap:

| Theorem | States |
|---|---|
| `BridgeTypeCorrect` | `Spec => []TypeOK` |
| `SettledStaysOnFile` | `Spec => []SettledIsOnFile` |
| `BridgeReadsReturnWhole` | `Spec => []ReadsAreWhole` |

*Argument.* The invariant is made like that of TensorFS (`Shape`, `Counted`,
`Alone`, `Written`, `Reading`, `Returned`). What is new is that all tensors are
in one file: a thread that writes a cell of another tensor leaves those of a
settled one alone, by arithmetic on offsets and sizes (`CellsApart`), and a cut
by cuFile is later than the last write it takes away (`Last`). `Counted`, which
is part of the type invariant, says that the counters are the numbers of the
calls that are done, by cardinality.

### The tensor router

`TensorRouterProofs` proves, for any finite set of devices, any tensors,
groups and values, and shards that are natural numbers:

| Theorem | States |
|---|---|
| `RouterTypeCorrect` | `Spec => []TypeOK` |
| `CopiesAreTrue` | `Spec => []ReturnedCopiesAreTrue` |
| `LedgerCountsTransfers` | `Spec => []LedgerIsTrue` |
| `SumsLoseNothing` | `Spec => []SumsCountEveryShard` |

Assumptions: those named in `TensorRouter` (a group of a collective is a
nonempty set of devices, and `Junk` is no number).

*Argument.* `ReturnedCopiesAreTrue` needs that what any call has copied is
something the source held since the call (`Held`), as a copy is made a step
after its registration. `LedgerIsTrue` needs the number of records that calls
in every phase have made (`Recorded`) and whose entries `_pending` can have
(`Awaited`); sums over the devices of a broadcast change by one term at a step,
which is an induction over finite sets. `SumsCountEveryShard` speaks of what
devices held before calls that are long past. What carries it is `Kept`: the
arrays of a float16 tensor hold no less than at first, and exactly that until
one is reduced in place. A sum of such arrays over a set of devices is no less
than the sum of what they held, and no less than any one of them (`SumCovers`,
`SumGrows`, again by induction over finite sets), so an array that is overwritten
by such a sum, all of them or some, is again no less than it was; and the fold
over the list of the group's devices is the sum over their set (`ReducesTo`).

### Model-checked only

* Liveness under fairness (`EventuallyBatched`, `StopEndsLoops`,
  `EveryRequestEnds`, `SnapshotRecovers` and `StopEndsPolling`), which is out of
  the prover's reach.

Where a proof needs an induction over data (positions of a list, finite sets),
it takes the least counterexample, which the library's theorems give for sets,
instead of an induction rule. No theorem is about a `RECURSIVE` operator.

## 6. Divergences

Shown by a run (see `findings` in `PROJECT.json`): `KVCacheRefusal`,
`BatchOverlong`, `NIMInterference`, `TensorFSKeys`.

Met while modelling and not given a run:

* The pools do not evict the least recently used entry: `put` assigns to a
  present key (`kv_cache_manager.py:85`) and `extend_kv` touches an entry
  (`:267`) without moving it in the `OrderedDict`; `:63` says "Per-GPU LRU
  cache pool".
* `extend_kv` may make a pool undercount: it replaces the entry's keys before it
  concatenates the values (`kv_cache_manager.py:264-265`), and when that raises,
  `_used_bytes` (`:268`) does not get the growth; and it counts the bytes of the
  new arrays, where `concatenate` with another dtype makes more of the old ones.
* `extend_kv` sets the time of an entry that has lapsed (`:267`) and so revives
  it, where `get_kv` would have dropped it.
* `extend_kv` can wedge a pool for good: it has no capacity check, and what it
  adds is leaked when the key is overwritten afterwards. The leak may then
  reach the capacity, and every later `put` is refused.
* Events leave a poll before its snapshot is published
  (`gpu_state_manager.py:158`, `:163`), so that a listener that asks for the
  snapshot sees the one before; `:69` says that all layers "react to the same
  atomic snapshot". The one listener in the package does not ask.
* A prefetch job has the tensor that was just routed, not the one that was
  predicted (`routing_engine.py:255`), `prefetch_triggered` is never set, and
  after 32 jobs prefetching stops, as nobody drains the queue.
* `_route_affinity` ignores the health of a device, which
  `best_gpu_for_inference` looks at.
* The store of a conversation's cache is a task that starts after the response
  (`inference_mesh.py:219`), so that a next turn sent on it may miss; the flow
  at `:93-95` stores "new KV tensors for next turn" before the "Response to
  Client".
* Two turns of a conversation that overlap may both miss and open a home each
  (`inference_mesh.py:185`); both stay, and later lookups name one of them.
* `lookup_sequence_gpu` does not look at the ttl (`kv_cache_manager.py:239`),
  so the mesh counts a hit on a device where `get_kv` would find nothing.
* `_dispatch` uses `asyncio.coroutine` (`batch_aggregator.py:254`), which does
  not exist in the Python versions that `setup.py` requires: a `dispatch_fn`
  is never called.
* A `vram_low` event evicts the sequence `__oldest__`
  (`inference_mesh.py:332`), which is no sequence, once per registered
  listener; `start` registers one per device and again at each call.
* The mesh starts the aggregator but never submits to it.
* `stop` of the mesh clears a flag that nobody reads; requests go on.
* Every persisted tensor is forgotten at a restart (`tensor_fs.py:71`), and a
  file that cannot be read or decoded is returned as `(None, descriptor)`
  (`:153`, `:255`, `:273-274`) where the signature promises a tensor or `None`.
* A write that fails leaves a torn file under the index entry of the tensor
  before it (`tensor_fs.py:219`); a delete whose unlink fails leaves a file
  without an entry (`:168-173`); a write that ends after its key was deleted
  enters the tensor again, without a file if the delete unlinked it.
* `np.frombuffer` knows no `bfloat16` or `int4`, so tensors of these dtypes
  cannot be read back through host memory (`tensor_fs.py:258`): the read raises.
* `/ready` goes back from 200 to 503 when NVML answers that it has no device
  (`gpu_topology.py:158`, `api.py:119-120`), while it keeps its 200 on the same
  machine when NVML does not answer at all.
* `_nccl_allreduce` always asks NCCL for a sum of `NCCL_FLOAT16`
  (`tensor_router.py:304-308`), whatever the operation and the dtype, and its
  fallback always sums; a broadcast of another dtype than float16 sends 32 bits
  per element (`:262-280`).
* After a reduction that NCCL raises on once some arrays are reduced in place,
  the fallback reduces those arrays again (`tensor_router.py:316-320`), and
  shards count more than once.
* The copies of one broadcast may differ, when a collective changes the source
  in place between two of them (`tensor_router.py:240`).
* A failure between `groupStart` and `groupEnd` leaves the group open, and later
  collectives return without having been launched (`tensor_router.py:262`).
* `use_nccl` is stored (`tensor_router.py:131`) and never read.
* `_pending` is keyed by tensor id (`tensor_router.py:170`): while the transfers
  of a broadcast run, it shows one of them or none. A copy that raises leaves its
  entry there.
* The reduced array of the switch is one object that all devices share
  (`tensor_router.py:233`).
* A cuFile write opens the file with "w" (`gpudirect_bridge.py:232`), which cuts
  tensors at other offsets off; the host path opens it with "r+b" (`:246`), which
  keeps them but raises where there is no file.
* A short cuFile read is not noticed (`gpudirect_bridge.py:182-186`), the bytes
  counted are the descriptor's (`:118-120`), and `scatter_to_gpus` reads every
  device's part from the beginning of the file (`:153-169`).

## 7. Not modelled

* Statistics counters, logging and latencies: no decision reads them.
* Cancellation of a handler by its HTTP server: the code has no handling of it.
* GPUDirect reads of TensorFS, and the host read that follows when
  one fails (`tensor_fs.py:229-232`): the model is a machine without cuFile. The
  bridge, which has the same two paths, is modelled with both.
* Ids that contain `:`, which would make cache keys ambiguous.
* Tensor contents, numpy and CUDA. NCCL and cuFile are modelled by what the code
  can see of them: whether they raise, and what they leave in arrays and files.
* `compress_shard`: a pure function without a caller.
* Metric windows and the payloads of events: no decision of the package reads
  them. The conversions of descriptors (`to_dict`, factories).
* An array that does not match its descriptor: callers make one from the other.
* Formats of the API's requests and answers, and its views of the topology.
* Kubernetes manifests, benchmarks, examples.

## 8. Plan

What is modelled so far is above. What comes next, in this order:

1. Refinements: a register of snapshots that are each published whole, with the
   registry beside it, implemented by `GPUStateManager`; `InferenceMesh` as an
   implementation of a map from conversations to homes.
2. Events and listeners of the state manager, with the mesh as a listener.
3. Proofs of the refinements of item 1, step by step. Every safety property
   that a passing run checks has its theorem (section 5).
