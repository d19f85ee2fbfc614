# Chimaera runtime: TLA+ models, checks and proofs

These modules model the Chimaera runtime: its worker threads and coroutine
tasks, the locks that tasks use, the flush barrier and the shutdown of a node,
the ingress queues and their assignment to workers at start-up, the creation and
addressing of pools, the queue that carries tasks to other nodes and what it
carries, and block devices with their slab allocator. TLC checks them on small
instances; TLAPS proves the safety of the worker scheduling, the locks, the
remote queue, the block device and the order of ingress for every value of the
constants. `PROJECT.json` lists every run, the faulty
variant that shows each property can fail, the lines each definition translates,
the hazards, the findings and the theorems.

## 1. The system

One runtime process runs on every node.

| part | code | what it keeps and does |
|---|---|---|
| worker | `src/src/work_orchestrator/worker.cc` | a thread that takes tasks from ingress lanes, polls the lanes that have work (`active_`: low latency lanes, high latency lanes, fail queue, flush queue), runs and ends tasks, routes them to a lane or to the remote queue |
| lane | `src/src/module_registry/module_queue.cc` | a queue of one container, owned by one worker; `count_` decides when it asks to be polled |
| task | `include/chimaera/module_registry/task.h` | coroutine with flags, `block_count_`, routing state; `Wait`, `Yield`, `SetBlocked` |
| work orchestrator | `src/src/work_orchestrator/work_orchestrator.cc` | spawns workers, deals ingress lanes to them, `SignalUnblock`, run status |
| CoMutex, CoRwLock | `comutex.cc`, `corwlock.cc` | locks whose waiters are parked tasks; the owner is a task tree (`task_node_.root_`) |
| flush and shutdown | `worker.cc`, `chimaera_admin_runtime.cc` | worker 0 leads rounds until a round finds no work |
| queue manager | `src/src/queue_manager/`, `queue.h` | ingress queues in shared memory |
| client library | `include/chimaera/api/` | allocates tasks and puts them into ingress lanes |
| module registry | `src/src/module_registry/`, `module_registry.h` | modules, pools, containers; create, upgrade, destroy |
| admin module | `tasks/chimaera_admin` | RegisterModule, CreatePool, UpgradeModule, Flush, StopRuntime |
| RPC and domains | `include/chimaera/network/` | Thallium calls, archives; which containers and nodes a domain query names |
| remote queue | `tasks/remote_queue` | sends a task to other nodes as replicas and brings the results back |
| bdev, allocator | `tasks/bdev`, `include/chimaera/io/block_allocator.h` | block devices (file, RAM, SPDK) and their space |
| lane schedulers | `tasks/worch_*` | periodic tasks that map lanes to workers |

A client puts a task into an ingress lane. The worker that polls it resolves the
task's domain query: to a lane of a local container, or to the remote queue. A
lane is touched by its own worker only, so another thread leaves the task in
that worker's fail queue. The worker runs the task's coroutine until it returns,
yields or blocks. A blocked task is in no queue; the subtask, the `Unlock` or
the reply that brings `block_count_` to zero pushes it back. Everything built on
tasks rests on that one protocol.

## 2. Modules

| module | models | state | actions |
|---|---|---|---|
| `GroupLock` | the promise of both locks | handles held | Acquire, Release, Pass |
| `CoMutex` | `comutex.{h,cc}` | `root_`, `rep_`, `order_`, `blocked_map_`, plus where each task is | Lock, TryLock, Unlock (leave, release, hand over), the yield in Lock, Resume |
| `CoRwLock` | `corwlock.{h,cc}` | the same and `is_read_`, `reader_set_`, `writer_map_` | ReadLock, TryReadLock, ReadUnlock, WriteLock, WriteUnlock, yield, Resume |
| `TaskSched` | `worker.cc` (ingest, poll, RunTask, EndTask), `module_queue.cc`, `task.h`, `SignalUnblock` | queues, lane counts, the worker's position in `Run`, each task's coroutine | one action per step between accesses to shared state |
| `Flush` | `worker.cc` (Loop, BeginFlush, EndFlush), `BeginShutdown`, `FinalizeRuntime` | the `WorkPending` record of each worker, flush queue, run status | one action per worker visited by worker 0's loops |
| `Ingress` | `work_orchestrator.cc` (start-up), `queue_manager.cc`, `queue.h`, `ScheduleTask`, `IngestProcLanes` | workers by kind, lanes still to be dealt, each worker's lanes, the tasks in lanes | MarkWorkers, AssignQueueMap, SpawnWorkers, ScheduleTask, IngestTask, IngestProcLanes |
| `DomainMap` | `rpc.h` (RpcContext), `chimaera_types.h` (DomainQuery) | operators on a domain map | Expand, UpdateDomains, ResolveDomainQuery, CreateDefaultDomains, GetLocalContainers |
| `PoolRegistry` | `module_registry.{h,cc}`, CreatePool of the admin module, `PrivateTaskMultiQueue::push` | `pool_ids_`, `pools_`, `domain_map_` and the admin lane's `comux_` of every node, CreatePool tasks, tasks sent to pools | RegisterModule, Create, the steps of CreatePool between its yields, its failure, GetPoolId, pushing a local or a remote task |
| `RemoteCall` | the promise of the remote queue | tasks called, run, returned | Call, Run, Return |
| `RemoteQueue` | `remote_queue_runtime.cc`, the failure paths of `rpc_thallium.h` | `submit_`, `complete_`, `pending_`, each node's call in progress, each submit task; a task has any number of resolved domains, several of which may be on one node | ClientPushSubmit and its steps, ClientSubmit, ServerComplete, SyncIoCall, the two RPC handlers, failures |
| `TaskTypes` | the task structs of all modules and the generated `*_lib_exec.h` | constant tables: the fields of each type (`Types`), and for each method the type to which `Run`, `SaveStart`, `LoadEnd` and the other generated calls cast its task (`Cast`) | |
| `TaskWire` | `serialize_defn.h`, `chimaera_client_defn.h`, the remote queue's use of them | task objects and buffers on client and servers, archives under way | push, submit, deserialize, run, complete, load results, delete the task, free the caller's buffer |
| `BlockAllocator` | `block_allocator.h` | `heap_off_`, `free_size_`, `free_list_`, the request being served | Allocate, one action per slab, Free |
| `Bdev` | `bdev_runtime.cc`, `bdev_client.h`, on top of `BlockAllocator` | contents of the device, calls under way, what each owner wrote, which writes were cut short | allocate, free, submit, whole and short reads and writes |
| `TaskSchedMoves`, `TaskSchedSteps` | | | the inductive invariant of `TaskSched` and one lemma per action, which `TaskSchedProofs` puts together |
| `*Proofs` | | | theorems; those of `BlockAllocator` are in `BdevProofs` |
| `MC*` | | | the instances that TLC checks |

Operators marked "Faulty variant" in the comments are not part of a
specification. Each replaces one definition to show that a property notices
the mistake.

### Atomicity

- A critical section of `mux_` in the locks is one step. The yield after it is
  a second step, so a hand-over may come between the two.
- In `TaskSched` the `fetch_add` of `SetBlocked`, the return to the worker, the
  `fetch_sub` of `SignalUnblock`, the push after it and `SetComplete` are
  separate steps. Work that touches only a worker's own lanes is one step.
- In `Flush` each worker that worker 0 visits is a step. The two reads of
  `count_` in `AnyFlushWorkDone` are merged into one at the place of the second.
  Nothing is lost: the counter only grows, so a value that differs from
  `work_done_` at the first read still differs at the second.
- In `Ingress` each core marked, each lane dealt and each task taken is a step;
  clients send in between.
- In `PoolRegistry` all admin tasks of a node share one lane, so a handler runs
  to its next yield: the construction of a container, and the broadcast.
- In `RemoteQueue` a node's `ClientSubmit` and `ServerComplete` share one lane,
  so one agent runs them in turn, each call to the end. The loop that drains a
  queue is one step: it has one consumer, and an entry that joins during the
  loop may as well have joined before it. `RpcTaskComplete` is a step for all
  `LoadEnd`s, then two for each task: `SignalUnblock`, and the update of
  `pending_`.
- `BlockAllocator` runs on the single lane of bdev's metadata lane group and
  does not yield, so a request is not interleaved with another one. The reads
  and writes of `Bdev` run on 32 data lanes, between its steps.

### Abstractions

- A task is a model value. What a method does is: spawn, wait, yield, lock,
  unlock, return, in any order. A method returns only when it has waited for
  the subtasks it spawned that signal it, as the modules' methods do.
- `MapTaskToLane` belongs to the module, so any lane may be chosen, once.
- A `TryLock` that is refused changes nothing and is not an action.
- `block_count_` is shared by locks and subtasks, and `CoMutex` and `CoRwLock` have
  only the locks' part of it. `CreatePool` and `UpgradeModule`, which alone take
  these locks, do so before they spawn a task.
- `HELOG(kFatal)` ends the process. In `CoRwLock` and `PoolRegistry`, where a module
  that is not registered leads to it (`CreateFails`), no step follows.
- `Flush` merges all queues of a worker into one inbox. Its tasks do not block
  and none is remote or long running.
- `RemoteQueue` takes what `TaskSched` checks as given: a scheduled replica is
  run once, and a signalled submit task resumes once. A failed RPC ends the
  calling process (`rpc_thallium.h:200`), and data that cannot be fetched ends
  the process of the handler (`rpc_thallium.h:240`). A read of freed memory may
  give either answer.
- `TaskWire` has the same calls without failures, and models what they carry. A
  value is told apart by object, field and version; a buffer has one value. What
  the client constructs has the type it asked for; wherever a container handles a
  task, the type is the one of its cast. `DelTask` frees a buffer by the task's own
  flag `TASK_DATA_OWNER`; a buffer that the caller lent is freed by the caller.
- A write to the device fills its block with one value. Any read or write may fail
  or end early; the client's call returns all the same, as in the code.
- `Ingress` has no GPU queues, whose lanes `AssignAllQueues` deals in the same way, and
  both of its queues are ready from the start.
- `PoolRegistry` sends only the tasks that its instance lists, and a pool's
  containers create at most one pool each.
- The fatal branch of `WriteLock` (`corwlock.cc:74-75`) is left out of
  `CoRwLock`: `ReadersClearRoot`, which is proved, says that its condition never
  holds.

### Assumptions about code outside the repository

- The queues of the `hermes_shm` library are FIFO, lose nothing and allow several
  producers. They are unbounded sequences, except the lanes of `Ingress`, which
  have a depth; there an emplace waits for room.
- The flags that `BIT_OPT` makes are distinct bits.
- Thallium delivers a call once or reports an error.

## 3. Runs

Every passing run ends without error; the number of distinct states is given.
Section 5 is about the two runs whose property is violated.

| run | states | instance | shows |
|---|---|---|---|
| `comutex` | 2645 | 5 tasks, 3 trees, 2 nested entries each, contention without end | exclusion between trees, `rep_` exact, no waiter lost or filed twice, every blocked Lock returns unless one other tree stays inside for ever, refines `GroupLock` |
| `corwlock` | 18668 | 5 tasks, 3 trees, contention without end; two tasks only write, one only reads, two do both, nested as they like. A task may then block behind itself and the runtime may die of a fatal error, so deadlock is not an error here | exclusion, `rep_` and wait lists exact, every blocked call returns unless the other side stays inside for ever (section 5), refines `GroupLock` |
| `tasksched` | 42778 | 2 workers, 2 lanes, a task with two subtasks and a fire-and-forget grandchild; a Wait names all outstanding subtasks | `block_count_` exact, Wait covers its subtasks, every task completes |
| `tasksched_mixed` | 666393 | 2 workers, a task with a subtask, a long running task, a high latency lane, yields, several passes in one Run | each task in one place, lanes active exactly while they have work, nobody stranded |
| `flush` | 722849 | 2 workers, a flush, a StopRuntime, a task that spawns another and moves between workers | a flush ends only when every earlier task has run or was forwarded, the flush task comes back unless the runtime goes down first, every worker thread ends |
| `ingress` | 278024 | 3 lists of cores, 2 clients with 2 tasks each, lanes of depth 2 | each lane has one worker of the right kind, tasks of one client and hash are taken in order by one worker, every task is taken |
| `registry` | 10112 | 3 nodes, neighborhoods of 2; two creations of one pool whose containers create another, sent to node 1, a third creation sent to node 3, three tasks sent to pools | one id per name, a returned pool is ready on all its nodes, a query reaches each target once, creations that hold the locks of several nodes do not wait in a circle |
| `remote_queue` | 132262 | 3 nodes, of which one may fail; a task replicated to two nodes, a flush task to one | no replica sent or answered twice, resume only with all results, `pending_` exact, a task completes unless its own nodes are gone, refines `RemoteCall` |
| `task_wire` | 185406 | 1 or 2 tasks, the first of any type of the repository, 2 servers, empty and full buffers | inputs, outputs and bytes arrive where they belong, no buffer freed twice, early or never, no task lost |
| `bdev` | 568889 | device of 5 units, slabs of 2 and 3, requests of 1, 3, 4 and 6, two calls under way, each of which may fail or end early | blocks never overlap, `free_size_` exact, requests covered with no slab too many, a read returns what the owner wrote last if `success_` was set for both |

`corwlock`, `ingress` and `task_wire` do not check for deadlock: the first for the
reason in the table, the others because the system comes to rest when all tasks
are done, or when start-up divides by zero (section 5).

### Bounds

- Two workers suffice for every interleaving of two threads on one count or
  queue. Worker 0 leads the flush and worker 1 is any other worker.
- Five lock users in three trees give a tree with two waiters at once, two trees
  in `order_`, hand-over in all directions, and re-entry. Two entries of a task at a
  time give nesting. A task that has left may come again, without end, so that the
  progress properties do not rest on the callers' running out of calls.
- `Inner` (8192 in the code) is the number of low latency passes in one Run. With
  1 or 2 a pass is the last one or not; nothing else in the code depends on it.
- `MaxYields` bounds the yields of a task and `MaxLocks` its entries at a time; `MaxHeapOff` bounds how
  far refused requests push `heap_off_`; `MaxCalls` bounds the reads and writes
  under way; `Sends` and `Depth` bound a client's tasks and a lane.
- The lists of cores have dedicated and shared cores, or lack one kind, which is
  all that start-up tells apart. Lanes of depth 2 hold two tasks of one client, and
  are full when the other client has sent into them.
- Three nodes with neighborhoods of two make a broadcast larger than a
  neighborhood, so that it is split and its parts are resolved again. The creations
  that start at nodes 1 and 3 hold locks of two nodes at once; pool `b` has as many
  containers as nodes in its affinity.
- `MaxCrashes` bounds the nodes that fail by themselves; nodes that call them end
  too, so one failure can already end all three.
- Two tasks in one call make positions in the archive matter, two servers make
  replicas share a buffer.
- In `remote_queue` each resolved domain is on a node of its own. An instance in which
  two domains of the flush task are on one node (1287154 states) satisfies `OneEntry`,
  `ResultsArrived` and `PendingExact` too; the theorems are for any domains.
- Device sizes are scaled down. The slab sizes keep what matters: ascending, and a
  device end inside a slab. Of the requests, 1 is below the smallest slab, 3 is one
  slab, 4 leaves a rest of 1 that takes a slab of 2, and all three can be granted; of
  6, two slabs of 3, the second is refused.

### Fairness

A worker thread polls without end and the operating system does not stop it for
good: weak fairness of a worker's steps. A scoped lock is left when its method
returns: weak fairness of unlocking. A container that tasks are addressed to is
created at last; the comment at `worker.cc:120` expects it. No task is forced to
ask for a lock. In `RemoteQueue` the threads of a node that is up keep running;
which of its two periodic tasks an agent runs next is left open. In `Ingress` the
main thread goes through `ServerInit`, and a client sends all its tasks, as a
thread that was not stopped does.

## 4. Theorems

`TaskSchedMoves`, `TaskSchedSteps` and `TaskSchedProofs`, for any workers, lanes
and finite set of tasks, any task tree, and any assignment of lanes to workers:

- `AlwaysIInv`: none of the properties is inductive by itself. What carries them is that
  a task runs because of one token (`Tokens`): its place in a queue, a worker that
  has it in hand and will not park it, or a worker that is about to push it. A
  step moves the token of one task at most.
  - `TokenInv`: a task has at most one token; a task with `block_count_` above
    zero waits and has none, so that the signal that brings the count to zero may
    make one. `HandInv` has the exception: a task that is being parked may
    have been woken already, and is then in the fail queue of the very worker
    that parks it.
  - `CoInv`, `BlockCountExact`: how far the coroutine in hand is, and which
    subtasks have signalled; a subtask signals once, so no `fetch_sub` is done
    twice.
  - `WorkerInv`, `SnapshotInv`, `RouteInv`, `CountInv`, `RequestInv`, `QueuesInv`:
    what a worker polls, by where it is in `Run`. A lane is requested when and
    only when it has tasks and is not being polled, which rests on an exact `count_`; a
    snapshot of a queue's length is never longer than the queue.
  - Under `WaitAll`: a waiting task has named all subtasks it spawned
    (`CoversInv`), those of a returned Wait have signalled (`DoneInv`), and a task
    under way has a token or a count above zero (`AwakeInv`).
- From it: `TypeCorrect`, `BlocksAreExact`, `PlacesAreSingle`, `LanesAreActive`
  without a condition, `WaitsCoverSubtasks` and `NoneStranded` under `WaitAll`. The
  condition is needed: `tasksched_lost` (section 5) is the behaviour without it.

`RemoteQueueProofs`, for any finite sets of nodes, tasks and resolved domains, any
placing of domains on nodes, any targets and number of failures:

- `AlwaysIInv`: every action moves the entries of a set of replicas from one place
  to another and leaves the others where they are (`Moved`). From the moves alone
  follow that an entry is in one place and that a replica has run, and its result
  is loaded, when its place says so. `block_count_` and `pending_` count entries by
  place, so a step changes a counter by as many entries as it moves across. A
  replica freed between `SignalUnblock` and the read after it is in no place, which
  is why `PendingExact` has the condition `stale`.
- From it: `TypeCorrect`, `EntriesAreSingle`, `BlocksCountReplicas`,
  `ResultsHaveArrived`, `PendingCountsSent`.
- `Refinement`: `RemoteQueue` implements `RemoteCall`. `ClientPushSubmit` is the
  Call, the run of a replica is a Run, the resumption of the submit task is the
  Return; all other steps, failures included, stutter.

`CoMutexProofs`, for any finite set of tasks, any trees and number of calls:

- `AlwaysIInv`: the inductive invariant. `MutualExclusion` alone is not
  inductive, because a hand-over makes `rep_` the number of tasks filed under
  the tree at the head of `order_`. `IInv` therefore adds that `rep_` is the
  number of entries (inside, or handed over and not resumed yet), that all
  entries belong to `root_`, that the wait lists hold exactly the waiting tasks,
  and how `block_count_`, `ready` and a task's position go together.
- From it: `TypeCorrect`, `Exclusion`, `CountIsExact`, `WaitersFiled`,
  `NeverIdle`.
- `Refinement`: `CoMutex` implements `GroupLock`. An entry handed over but not
  resumed counts as held, so a hand-over is one `Pass` step and `Resume` stutters.

`CoRwLockProofs`, for any finite set of tasks, any trees, modes and number of calls:

- `AlwaysIInv`: along the same lines. `KindInv` adds what makes `ReadUnlock`
  right although it does not look at `reader_set_`: while readers are inside,
  `root_` is null and no reader waits; a free lock has neither owner nor waiter.
- From it: `Exclusion`, `CountIsExact`, `WaitersFiled`, `NoneForgotten` (the lock
  is never free while a task waits), `UpgradeCheckIsDead` (section 5).
- `Refinement`: `CoRwLock` implements `GroupLock`, with all readers as one group.

`BdevProofs`, for the allocator with any ascending slab sizes, device size and
requests:

- `AlwaysIInv`: every block, held or freed, lies below `heap_off_`, within the
  device, and has the size of a slab; no two overlap; a freed block has the size
  of its list. The place below `heap_off_` is what keeps a new piece apart from
  old ones, and the size is what lets a block be passed on.
- From it: `NeverOverlap`, `FreedNeverOverlap`.

and for the device on top of it, with any values and number of calls under way:

- `ReadsReturnLastWrite`: `ReadsBack` on a file device: a read with `success_` set, of
  a block whose last write had it set, returns what that write wrote. Blocks in use
  are apart, a block has at most one call under way, and while it is written nothing
  is known of it, so a write, whole or short, changes no block of which something is
  known, and a block that is not in `cut` holds what is known of it.
- `DeviceBlocksApart`: the allocator's facts with reads and writes in between.

`IngressProofs`, for any lists of cores, clients, hashes, depth of the lanes and
number of tasks:

- `AlwaysIInv`: a lane that was dealt has one worker and is not dealt again; a lane
  holds tasks that were sent into it, in the order of sending; a worker has taken
  tasks from its own lanes only; no task that was sent is missing; and a worker
  that has taken a task took the client's earlier ones of the same lane before.
  The last needs all the others: when a worker takes a task, an earlier one of the
  lane is not behind it in the lane, so some worker has it, and that worker is the
  one of this lane.
- `InOrder`: `SentInOrder`, because Emplace takes the lane from the hash alone.

Assumptions are those of the ASSUME of each component module: finite sets of
tasks where entries or subtasks are counted, `RootOf`, `ParentOf` and slab sizes
well typed, slab sizes ascending, lists of cores that are not empty. TLC evaluates
them in every run.

Only model-checked:

- all liveness properties: fairness is out of the prover's reach;
- `FreeSizeExact` and `LanesDealtOnce`, which sum over a sequence or a set by a fold,
  and `RequestIsCovered`, which is about the recursive `CoinSelect`: they need
  induction over data;
- everything about `PoolRegistry` and `DomainMap`, which have recursive operators;
- `Flush` and `TaskWire`, for which no inductive invariant has been worked out.

## 5. Where the code and its comments disagree, and conditions of the results

Two runs end with a counterexample.

| run | what happens |
|---|---|
| `tasksched_lost` | two subtasks end before the parent waits for one: the count is -1 after `SetBlocked`, the task parks and nobody wakes it (`work_orchestrator.cc:262`) |
| `registry_early` | a client that learns the id of a pool while it is created sends a task from a node that does not know the pool yet: resolving its query throws, and the task, popped already, is in no queue (`worker.cc:66`, the comment at `worker.cc:120`) |

TLC refutes these statements too; they stand in the modules without a run of
their own.

- `WaitMeansComplete` (`TaskSched`): `EndTask` wakes the parent (`worker.cc:610`)
  before it sets the completion flag (`worker.cc:630`), so `Wait` may return
  before the subtask is complete (`task.h:730`).
- `FlushCoversEarlier` (`Flush`): a round in which a task was only handed to
  another worker counts no work, and the flush ends before the task has run
  (`worker.cc:254`). `FlushReachesEarlier` is what does hold.
- `OutOfSpaceIsTrue` (`BlockAllocator`): a refused slab moves `heap_off_` all the
  same, and space never handed out is reported as used (`block_allocator.h:233`).
- `UpgradeIsReported` (`CoRwLock`): a task that asks to write under its own read lock
  should be reported (`corwlock.cc:75`). Readers leave `root_` null
  (`UpgradeCheckIsDead`), so the report is never made and the task waits for itself.
- `ReadsBackAlways` (`Bdev`): a `pread64` or `pwrite64` that fails or ends early clears
  `success_` (`bdev_runtime.cc:259`, `398`), but `Client::Write` and `Client::Read`
  (`bdev_client.h:77-101`) return without a look at it, so a caller may take for
  written what is not, and for read what its buffer held before. `ReadsBack` has the
  condition that `success_` was set for the read and for the last write.
- `ReadsBack` with `Scheme = "ram"` (`Bdev`): Read of a RAM device does nothing
  (`bdev_runtime.cc:516`), where the comments at lines 402 and 504 announce a read.
- `DeclaredOutputsReturn` (`TaskWire`): `success_` of `WriteTask` is marked OUT,
  but `SerializeEnd` has it commented out.

The passing runs state conditions under which their properties hold. They are
needed:

- A Wait that names all outstanding subtasks (`WaitAll`). Otherwise `Wait` for
  one of two subtasks may return because the other one ended.
- One flush at a time. With `TwoFlushes` a worker late from the first flush
  lowers the flag raised for the second (`worker.cc:235`), and the barrier opens
  before its pass.
- One StopRuntime. With `TwoStops` the second one may take back `kStatusDoDown`
  (`work_orchestrator.h:125`) after some workers have left, and worker 0 waits
  for their flags for ever.
- No side that stays inside a lock for ever (`LockReturns`). Tasks of the tree that
  owns a CoMutex enter past `order_` (`comutex.cc:29`), readers enter past waiting
  writers (`corwlock.cc:27`), writers of one tree past other trees, and `WriteUnlock`
  serves writers before readers (`corwlock.cc:95`, `104`): when the tasks of one side
  overlap without a break, a waiter of the other side never returns. A task that
  waits for its own read lock is the case of one reader. TLC refutes `LockReturns`
  when any of its exceptions is left out; with them, a waiter returns whenever no side
  keeps the lock for good, however long the contention lasts.
- No replica freed between `SignalUnblock` and the `IsFlush` after it
  (`remote_queue_runtime.cc:438-440`; `stale` in `PendingExact`). The signal lets
  the submit task free the replica, and `pending_` may then stay wrong.
- CreatePool calls that take the nodes in one order (`NodesAreRanked` in
  `NoCircularWait`). A call keeps the `comux_` of the node it was sent to while it
  waits for those of its affinity (`chimaera_admin_runtime.cc:226`). In the run the
  calls sent to nodes 1 and 3 have such an order. With the third call sent to node 2
  and its pool on nodes 1 and 2 they have none, two creations wait for each other,
  and `NoCircularWait` fails without the condition.
- Calls for one name that are sent to one node (`OneNodePerName` in
  `ReadyWhenReturned`, and the second half of `OnePoolPerName`). Only that node has the
  name in `pool_ids_`: a call sent to another node makes a second id
  (`module_registry.h:312`), and the second pool lacks containers where the first one
  has them.
- A task sent from a node that took part in the creation of its pool
  (`EachTargetOnce`). Other nodes have no domains for the pool, resolving the query
  throws, and the task is lost as in `registry_early`.
- A pool whose containers create another pool has a container on the node where
  the calls start. Otherwise two of them may create the inner pool at once, one of
  them finds it in `pools_` while it is constructed (`module_registry.cc:57`,
  `module_registry.h:366`), and `ReadyWhenReturned` fails.
- As many containers as nodes in the affinity. The size of the container set
  comes from the affinity, the containers from `global_containers` (`rpc.h:304`).
  `ReadyWhenReturned` and `EachTargetOnce` take the size the code takes, so they say
  nothing of a container beyond it.
- Dedicated and shared cores in the configuration (`BothKinds` in `AllIngested`).
  Without either, `AssignQueueMap` takes a remainder by zero
  (`work_orchestrator.cc:112`, `118`), and `LanesDealtOnce`, which is about a runtime
  that is up, says nothing.
- Bytes of a replicated task that go out and come back in one buffer
  (`SharesBuffer` in `InputsArrive`) may arrive from one server before they have
  left for the other.
- Transfers that are not empty (the third conjunct of `BuffersFreedOnce`). A bulk of
  size zero is not in the list and leaves the pointer of the receiver unset
  (`serialize_defn.h:281`), and the destructor of a task that owns its data frees it:
  an empty `Write` to one server is enough. The property lets empty transfers do so.

## 6. Not modelled

- `UpgradeModule`, `DestroyContainer`, `DestroyModule`. The plug count of a lane is
  read nowhere (and `module.h:127` lowers it where it should raise it), so an
  upgrade is a copy of the containers' state made before the tasks under way have
  ended, and their later changes are lost. A model of it needs the state of
  containers, which no other part of the project has.
- Data races on the registry's and the domain map's hash maps (`rpc.h:118`,
  `rpc.h:184`, `module_registry.h:392`): a lookup or an insertion is one step.
- Long running tasks in the remote queue, which are sent again instead of
  completed, and the catch clauses of its two agents.
- Exceptions thrown by a method, dynamic domain queries (Monitor `kSchedule`),
  `TASK_TRIGGER_COMPLETE`, load prediction and monitoring.
- `CreateLaneGroup` and the lane schedulers: which worker gets a container's lane
  does not matter to correctness; `TaskSched` allows any assignment.
- Thallium transport, shared memory set-up, configuration, GPU support and command
  line tools: I/O, or no concurrent state.
- The contents of the `hermes_shm` library.

Open ends for proofs: `FlushReachesEarlier` of `Flush`, and the safety properties
of `TaskWire` for one type of task.
