# TLA+ models of the TVM runtime and its tuning infrastructure

A verification project for Apache TVM 0.10.0 (in `apache-tvm-src-v0.10.0`). It
models the parts of the repository that keep state between calls and that
several threads or processes share: the CPU thread pool that every compiled
operator runs on; the tracker that hands out RPC servers and the proxy that
stands in for them; the pool of processes that builds and measures; the tuners
and the task scheduler that spend the measurements; the session between a host
and a microTVM device, and the allocator such a device lives on. Paths below are
relative to `apache-tvm-src-v0.10.0`.

## 1. Inventory

| Component | State | Operations | What is hard | What makes it correct | Status |
|---|---|---|---|---|---|
| `SpscTaskQueue` (`src/runtime/thread_pool.cc:146`) | ring buffer, head, tail, `pending_`, `exit_now_`, mutex and condition variable | `Push`, `Pop`, `SignalForKill` | lock-free hand-over, decision to sleep against notification | FIFO, no lost wakeup, no shared slot, the worker ends | modelled, proved |
| `ParallelLauncher`, `ThreadPool`, `TVMBackendParallelLaunch` (same file) | thread-local launcher (`num_pending_`, `has_error_`, `par_errors_`, `sync_counter_`), workers, queues | configure, launch, reset, destroy | launcher reused while workers still report; error path | every task runs once inside its launch, errors are returned, no call hangs | modelled, proved |
| `TVMBackendParallelBarrier` (same file, 501) | one counter per task | barrier | a fast task is a round ahead | nobody leaves before all have arrived | modelled, proved |
| `ThreadGroup`, `MaxConcurrency` (`src/runtime/threading_backend.cc`) | threads, `max_concurrency` | create, join, `Configure` | limits that come from several places | never more workers in use than threads | the counting only, in `ThreadPool` |
| RPC tracker (`python/tvm/rpc/tracker.py`, `tornado_util.py`) | free values, request heap, pending match keys, connections | PUT, REQUEST, GET_PENDING_MATCHKEYS, close | peers that died and were not noticed yet | a key goes to one client, no offer of a busy server, requests end | modelled, proved |
| RPC server (`python/tvm/rpc/server.py`) | tracker connection, match key, silent periods | report, ping, accept, serve | key regenerated while its client is on the way | one client per server, always back to listening | the listen loop, in `RpcTracker`, proved |
| RPC tracker client (`python/tvm/rpc/client.py`) | tracker connection, attempts | `request` | retry after errors of two kinds | `request` returns | in `RpcTracker`, proved |
| RPC proxy (`python/tvm/rpc/proxy.py`, `tornado_util.py`) | server and client pools, handlers with what they still have to write, keys offered to the tracker | pair, forward, close, wait, report to tracker | sides that close one after the other, keys regenerated while a client is on its way, a tracker that is lost | bytes reach the peer only, no pair is left half closed, every waiting server is on offer | modelled |
| RPC endpoint (`src/runtime/rpc/rpc_endpoint.cc`) | `EventHandler` state, two ring buffers | receive, return, copy, stream | nested calls in both directions | the peers never both wait | planned |
| microTVM session (`src/runtime/crt/microtvm_rpc_common/session.cc`), host channel (`src/runtime/micro/micro_session.cc`), device server (`crt/microtvm_rpc_server/rpc_server.cc`) | nonces, session id, state, receive buffer and its busy flag | start, retry, reply, terminate, send, receive, log, reset | resets, late answers, replies to an abandoned start | both ends agree on the session, no packet crosses sessions, starts and calls end | modelled, proved |
| microTVM framing (`src/runtime/crt/microtvm_rpc_common/framing.cc`) | framer and unframer state | write, resynchronise | escapes, errors in mid packet | what was framed is unframed | planned |
| Pipeline executor (`src/runtime/pipeline/`) | queues between stages | forward, wait, stop | stages that stop while data is on the way | every input leaves in order | planned |
| Workspace pool, VM allocators (`src/runtime/workspace_pool.cc`, `vm/pooled_allocator.h`) | free lists, `used_memory_` | alloc, free, release | release while buffers are out | accounting is exact | planned |
| CRT page allocator (`src/runtime/crt/memory/page_allocator.c`) | pages handed out, `pmap`, `free_map`, `vleak_size` | create, allocate, free | blocks reused whole for smaller requests, tables of fixed size | blocks are disjoint, in the pool, never lost | modelled, proved |
| CRT stack allocator (`src/runtime/crt/memory/stack_allocator.c`) | stack top | allocate, free | order of frees | last in, first out | planned |
| Popen pool (`python/tvm/contrib/popen_pool.py`, `exec/popen_worker.py`) | worker process and its uses, pipes, status of each request | submit, send, recv, kill, timeout, recycle | a timer that races with the function, a late answer, processes that die | an answer is that of its request, every job ends, no process is left | modelled, proved |
| AutoTVM tuners (`python/tvm/autotvm/tuner/`) | best config, what was visited, the plan or generation at hand | `tune`, `next_batch`, `update`, `reset`, `load_history` | batches that do not fit a generation, several calls of `tune` | no config twice, the best is the best, `has_next` is right | modelled |
| Task scheduler of the auto-scheduler (`python/tvm/auto_scheduler/task_scheduler.py`) | rounds, best costs and history of each task, dead tasks | `tune`, restore from the log | counts estimated after a crash, assertions on gradients | nothing measured is lost, the budget and the shares are kept | modelled, proved |
| Hexagon runtime (`src/runtime/hexagon/`) | DMA descriptor ring, threads | copy, wait, dispatch | descriptors reused in flight | no descriptor is overwritten | ring planned, threads need Qurt |
| Compiler (`src/relay`, `src/tir`, `python/tvm/topi`, ...) | syntax trees | passes | semantics of programs | | not modelled: sequential tree rewriting, out of TLC's reach |
| Device runtimes, code generators | | | | | not modelled: wrappers of vendor APIs |

How they interact: a compiled operator calls `TVMBackendParallelLaunch`; the
calling thread owns a `ThreadPool` with one `SpscTaskQueue` per worker; the
tasks meet in `TVMBackendParallelBarrier` through the counters of the launcher.
A measurement process asks the tracker for a server (`TrackerSession.request`)
and connects to it directly with a match key; the server's listen loop reports a
fresh key for every session and polls the tracker while it waits. A host reaches
a device without an operating system through a `MicroTransportChannel`; both ends
run the same class `Session` over a serial line, and the device takes its memory,
the receive buffer of its session included, from the page allocator. Servers that
cannot be reached connect to the proxy, which offers them to the tracker under keys
of its own and forwards bytes between each and the client that comes with its key.
A tuner asks for batches of measurements; they are built, and run over RPC, by
functions submitted to a `PopenPoolExecutor`, because they may hang or crash. The
task scheduler divides the measurements among the tasks of a network. The hazards
of this code, with the line and the properties for each, are in `PROJECT.json`.

## 2. Modules

| Module | Models | Runs | Proofs |
|---|---|---|---|
| `BoundedFifo` | what a task queue promises: a closable bounded FIFO channel | as a refinement target | |
| `SpscTaskQueue` | class `SpscTaskQueue` | `spsc` | `SpscTaskQueueProofs` |
| `ThreadPool` | `ParallelLauncher`, `ThreadPool`, the counting of workers | `pool`, `pool_error_race` | `ThreadPoolProofs` |
| `ParallelBarrier` | `TVMBackendParallelBarrier` | `barrier` | `ParallelBarrierProofs` |
| `RpcTracker` | tracker, listen loop of the servers, `TrackerSession.request` | `tracker`, `tracker_lost` | `RpcTrackerProofs` |
| `MicroSession` | `Session` on both peers, `MicroTransportChannel`, `MicroRPCServer` | `session` | `MicroSessionProofs` |
| `PageAllocator` | the page memory manager | `page` | `PageAllocatorProofs` |
| `PopenPool` | `PopenPoolExecutor`, `PopenWorker`, the worker process | `popen` | `PopenPoolProofs` |
| `RpcProxy` | proxy and its TCP handlers | `proxy` | |
| `AutoTuner` | `Tuner.tune` and four tuners | `tuner` | |
| `TaskScheduler` | class `TaskScheduler` | `scheduler` | `TaskSchedulerProofs` |

Each `MC` module holds the values its `.cfg` files give to the constants.
Definitions marked "Mutant" in the modules are wrong variants of the definition
that follows them; no specification uses them. They document which bug each
property detects.

### SpscTaskQueue

Two threads, one step per atomic access, lock, wait or buffer access. `opc` and
`wpc` are their program counters. The busy wait of `Pop` may end at any time,
since `TVM_THREAD_POOL_SPIN_COUNT` may be 0. `Notified` is `notify_one`: it wakes
a waiting worker and is lost otherwise; `SpuriousWakeup` is a wait that returns
for no reason. A failed `ICHECK` of `Pop` is the state `"aborted"`. Sequential
consistency is assumed: `head_` and `tail_` are each written by one thread with
release and read by the other with acquire, and `pending_` is always accessed
with the default order.

`ImplementsFifo` maps the ring to `BoundedFifo`: the queue is the occupied slots
without the one that was read and not yet released, a `Put` is the publication of
the tail, a `Take` is the read of the slot.

### ThreadPool

One owner thread and its workers; other owner threads have their own pool and
launcher and share nothing with it. Each queue is a `BoundedFifo` channel with
room for one task, which is what `SpscTaskQueue` was shown to be. A launch takes
one step for each access to what the workers share: store of `num_pending_`, store of
`has_error_`, reshape, each push, task 0, the end of the wait. A worker that
fails takes three: decrement, message, flag, in the order of `SignalJobError`.
The variables `launch`, `tasks`, `ran` and `failed` record what the lambdas
did. Undefined behaviour is a choice: the uninitialized `tsk.task_id` names any
message or crashes, an unprotected access to `par_errors_` loses the message or
crashes (`ParErrorsRace`), a counter past the allocation may crash.

### ParallelBarrier

The tasks of one launch, each with the loop variable and `old_counter` of its
call. A task of `MayFail` may return before any barrier. The relaxed loads of the
loop are followed by an acquire fence that pairs with the release of `fetch_add`,
so that a task that passed sees what the others wrote; the counters themselves
are atomic, and interleaving their accesses is what the model does.

### RpcTracker

One device key. The tracker is an event loop: a message is read, `_schedule`
runs to its end (`tpc = "schedule"`), the next message is read. A connection is
identified by the peer and a number, so that a server that reconnected is told
apart from its old connection. `Gone` says that the peer closed it, died or lost
it; the tracker learns that by reading (`TrackerClose`) or by a write that fails
(`AnswerFails`). A write that the kernel accepts for a dead client counts as
delivered (`AnswerNobody`). A client that dies in the handshake either
had sent everything or raises the error that makes the server drop the tracker.
A session process that is
killed at its timeout, which the server does not join, is taken to end at once.
Match keys are fresh numbers: `random_key` is taken to be free of collisions.
`matchkey`, `unmatch` and the pings follow `_accept_conn`; the answer to a ping is
handled in the step that produces it, because a key that is not pending does not
become pending again before its server has read the answer (`AnswerIsFinal`, proved).

### MicroSession

Two peers and a FIFO line in each direction. The functions of class `Session` are
operators on the record of one session (nonce, id, state, busy flag, packets in
the uncleared buffer); each yields an `Effect`: the new session, what it sends and
which callback it makes. The actions are the host's (`Connect`, `Retry`,
`RetryEarly`, `Send`, `HostReceive`, `Recv`, `TimeOut`) and the device's
(`DeviceReceive`, `DeviceLog`, `DeviceReset`). `complete` is
`receive_buffer_has_complete_message_`; a packet that arrives while it is set is
dropped (`Refuses`). The line loses nothing, which `session.h` assumes; a reset
loses a prefix of what the device has not read. Packets are atomic. Nonces are
the eight-bit values of the code with its rotation; a host nonce is taken to be
fresh, as its random generator makes likely: with 255 values a collision is
possible in the code and left out here. An ordinary log is printed and clears the
buffer (`kLog`); one that is empty or over 1023 bytes is `kLongLog`. The variables
`stale` and `misled`, and the field `old` of a packet, are history: they say whether
a packet was sent in an earlier session of the host.

### PageAllocator

The tables of the manager as arrays with their counters, stale entries past the
counter included, because `MultiMap_Insert` may leave one in place. `LowerBound`
and `Found` name the entry that the linear searches return. `Allocate` has the
three outcomes of the code: from `free_map`, from the end of the pool, no memory.
A failed `CHECK` is the status `"aborted"`, a write past `pmap` the status
`"overrun"`. Clients are handles that hold at most one block each. The page table
`ptable.page` is written and never read, so only its length is kept. Sizes are taken
to be far below 2^32, so that `NumPages` has no wrap of `size_t` and the casts to
`unsigned` and `uint32_t` cut nothing off.

### PopenPool

A thread of the executor owns one worker. `send` and `recv` are the steps of that
thread (`SendStart`, `Send`, `RecvInit`, `Recv`, `RecvTimeout`, `RecvDied`); the
process has a main loop (`ChildRead`, `ChildRun`, `ChildCancel`, `ChildRespond`) and a
timer for each request (`TimerFires`, `CancelRun`). Between `TimerFires` and
`CancelRun` the timer thread waits for the lock, and the main thread may already be
in a later request; `status` is a function of the request because the code makes a
new `TimeoutStatus` for each. A process may die at any step, and then what it wrote
can still be read, or half way through an answer (`"TORN"`): `struct` or
`cloudpickle` then raise, which `recv` does not take for a dead process; the answer may
be that of the main thread or the `TIMEOUT` of a timer. A job that cannot be pickled
makes `send` raise after the process was started and before a use is counted
(`StartRaises`, `SendRaises`, `RecvInitRaises`): it fails without a request. `__del__`
runs when no job is queued or running, since the lambda of each job holds the
executor. `uses` and `ready` are history.

### RpcProxy

One event of the loop is one action. The operators that stand for methods of the
handlers (`SendData`, `Close`, `SignalClose`, `PairUp`, `Refuse`) take the handlers
and what the peers received, and yield both as the call leaves them; `Become` makes
them the next state and takes closed handlers out of the pools. `close` and
`signal_close` call each other through the partner; the result is in `Close` and
`PartnerAfter`. A write finds the socket ready or full; a write to a peer that has
closed may also fail (`WriteFails`), which closes the pair, in `_pair_up` too, where
either side may fail (`PairFails`). The codes of the
handshake, the first bytes on a new connection, always fit. In proxy mode all
connections have one key, since different keys share nothing. In tracker mode the
tracker is external: it hands out keys it was given, and forgets them when the
connection breaks. `alloc_time` counts periodic updates. After a connect
`_tracker_pending_puts` is a view of the pool (`View`), to which nothing can be
added: `append` and `+=` raise. `Checked` is what the answer to
`GET_PENDING_MATCHKEYS` changes. The connection may fail before that answer
(`UpdateFails`) or after it, while keys are put (`PutsFail`); in both cases the except
clause (`ConnectionFails`) regenerates keys while it iterates over the pool, and how
CPython's dictionary grows decides which entries it visits and whether it raises:
any nonempty set of entries, with or without the exception.

### AutoTuner

A config is its index. `GridBatch`, `RandomBatch`, `GaBatch` and `ModelBatch` are the
`next_batch` of the tuners, `GaUpdate` and `ModelUpdate` their `update`. Random draws,
cross over, mutation and the plan of the optimizer are choices; a loop that draws
until it finds an unvisited config is a choice among those, the optimizer any
sequence of at most `plan_size` unvisited configs. A grid or random tuner may have a
`range_idx` (`IndexRange`). `rand_state` is the dictionary of
`RandomTuner` itself, and genes are knobs. An index out of range in `GaBatch` is the
state `"crashed"`. `times` and `results` are history.

### TaskScheduler

A round measures any number of schedules up to the size of a round; of the costs
only the best of the round and its position matter. The log file is kept as the
number of records of each task, their best cost and its position, which is all
that `_restore_status` computes from it. A crash loses the scheduler and keeps the
log; because a round may be of any size, a crash in the middle of writing one is
included. The gradient is any choice of a live task, or of a dead one, whose gradient
is 0: `tune` draws among all tasks when all gradients are equal, which an objective
function that does not depend on the live tasks brings about. The tasks have one
target and distinct workload keys, so that the filters of `_restore_status` let every
record of a task through; the score is the sum of the costs, as it is without weights
and without an objective function of the user.

## 3. Runs

Each run checks the properties of its component that take the most to get wrong.
Other properties that the modules state are checked under the same constants by the
configurations `MC...More.cfg`, which pass as well: `TypeOK` of `PageAllocator`,
`RpcProxy`, `AutoTuner` and `TaskScheduler`; `BlocksInPool`; `NoMissedPair`, `PoolIsOpen`,
`WaitEnds`; `RandStateIsRemaining`, `WithinBudget`, `KnobsRoundTrip`; `BestNotInFuture`,
`BudgetHolds`, `DeadStaysDead`; `TuneEnds` of both; and, with connections that break,
`KeyHandedOutOnce`, `FreeEntryIsCurrent`, `RequestReturns` and `AnswerIsFinal`
(`MCRpcTrackerLostMore.cfg`). The rest needs no configuration, being proved: `TypeOK` of the
other modules, `SanityCheckHolds`, `SlotNotShared`, `NoTaskLeftBehind`, `PendingIsFree`,
`PipesAgree`, `NoProcessLeft`, `FutureSetOnce`. `MCTaskSchedulerThree.cfg` (117105 states, no
crash) checks `RoundRobinFair` and `DeadStaysDead` with three tasks, so that live
tasks stand on both sides of a dead one; it passes.

Passing runs (distinct states in parentheses):

- `spsc` (1430): the ring of the code, 2 slots, two different tasks in any order
  for ever. The range of `pending_`, safe sleep, termination after `SignalForKill`,
  refinement of the channel with its fairness. Longer rings are the subject of the
  proofs.
- `pool` (158091): 4 workers, with and without task 0 on the owner thread,
  launches over all workers in use, of one task and of too many, two tasks that
  may fail, task 0 among them, reconfiguration to one core or to two threads, reset and
  destruction at any point between the launches. The growth from a launch of one
  or two tasks to one of four meets late workers.
- `barrier` (1011): 3 tasks, 3 barriers, two tasks may return early.
- `tracker` (25171): one server and two clients of different priority, the urgent
  one of which may die at any step.
- `tracker_lost` (178450): two servers, one of which may die, one client, and one
  connection to the tracker that breaks.
- `session` (276047): two channels, one reset, logs of both kinds, a retry that
  overtakes a reply and two that follow a loss. No packet crosses sessions, the
  session in use is shared or a termination is on its way, no stray reply resets
  it, and starts and calls end while both receivers listen (`Deaf` names the
  receivers that do not: one that holds a message for which no callback was made,
  or one whose buffer is full).
- `page` (72643, up to symmetry): five pages of two bytes, four handles,
  requests of one, one, two and three pages.
- `popen` (261304): two threads, three jobs, two uses of a process, an initializer
  that may raise, jobs that cannot be pickled, one process that dies. Every job ends
  with its own result, and nothing runs on after a timeout.
- `proxy` (216833): two servers, a client, two messages from the client and one from
  each server, both modes, one loss of the tracker. Two servers make a duplicate in
  proxy mode and two offers in tracker mode; two messages wait behind a full socket,
  so that their order is at stake. `EveryServerOffered` says that a connected proxy
  which can still put keys, its pending puts being a list, has every server of the
  pool on offer or handed out; that it may lose this ability is shown below.
- `tuner` (154123): four tuners, four configs or a range of three of them, a population
  of three, so that the second generation is shorter, batches of two, two calls of
  `tune`. The conversions of knobs are also checked on four other shapes. With a plan of
  two the last 5 percent of it are none; `Planned` states the rule for any size.
- `scheduler` (2124844): two tasks, four measurements in rounds of two, one
  crash, three calls of `tune`, both strategies.

One run finds a violation, the finding in `PROJECT.json`: `pool_error_race`. A launch
returns 0 although a task failed, because `SignalJobError` lowers `num_pending_`
before it sets `has_error_`.

Further configurations check what a comment, a doc string or a test says of the
code and the code does not do; TLC finds each of them violated:

| Configuration | Property | What the code does |
|---|---|---|
| `MCThreadPoolRestore.cfg` | `CallsReturn` | after `config_threadpool(-2, 0)` ("Restore the CPU affinity into the default value.", `tests/python/relay/test_pipeline_executor.py:397`) no worker is in use and the next launch hangs |
| `MCThreadPoolCounters.cfg` | `CounterForEveryTask` | a launch with one task more than the last has a task without a barrier counter (`thread_pool.cc:85`) |
| `MCPageAllocatorEmpty.cfg` | `BlocksDisjoint` | a block of zero bytes and the next block have one address; freeing the first frees the second |
| `MCMicroSessionDeaf.cfg` | `StartsRegardless` | after a `Recv` that timed out, the late answer makes the next channel refuse the reply to its start ("Start a new session regardless of state.", `session.h:115`) |
| `MCPopenPoolUses.cfg` | `UsesBounded` | a process whose initializer raised is kept, its uses never counted ("The maximum number of times a process can be used before being recycled", `popen_pool.py:97`) |
| `MCRpcProxyRejoin.cfg` | `RejoinsTracker` | regenerating the keys of a pool while iterating over it raises on Python 3.8 and later, and the periodic update is not scheduled again ("try reconnect in %g sec", `proxy.py:388`) |
| `MCRpcProxyDropped.cfg` | `OfferedWhenConnected` | a reconnect that also finds a key timed out adds to a view, which raises: the proxy is connected, the update is not scheduled again, every later `append` raises, and servers are never offered again ("just connect to tracker, need to update all keys", `proxy.py:344`) |
| `MCRpcProxyPending.cfg` | `PendingIsSent` | a side that sends after its partner closed is closed at once, with what it was still to be given ("closed after the existing pending message are sent", `tornado_util.py:50`) |
| `MCAutoTunerShort.cfg` | `NextBatchReturns` | in a last generation shorter than `pop_size`, `next_batch` of `GATuner` raises `IndexError` |
| `MCTaskSchedulerDead.cfg` | `DeadInEveryStrategy` | when all gradients are equal the task is drawn among all, and a task given up is tuned again (`task_scheduler.py:421`) |
| `MCTaskSchedulerTrials.cfg` | `TrialsInTotal` | the budget is exceeded by up to a round, less one ("measures `num_measure_trials` schedules in total", `search_task.py:150`) |

Seen in the models and stated here without a run: the failure of task 0 is
reported under the number of the last task pushed, or under an uninitialized one
(`RunMain`); a device whose host sends a request in a session lost by a reset
refuses every later packet until the next reset (`ProcessNormal`); an empty log
does the same to the host (`HandleLog`); with a single worker
`TVMBackendParallelLaunch` drops the result of the lambda (`LaunchInline`); a
task that fails before a barrier leaves the others spinning in it
(`BarrierReturns` excludes it by name); a client that dies in the handshake makes
a server drop a tracker connection that works (third disjunct of `ServerAccept`);
a closed server whose key was regenerated stays in the pool of the proxy, and the
client that is paired with it is dropped (`Purge`, `PairUp`); a job that follows a
torn answer fails too, because the dead process is not replaced (`Recv`); a batch of
`GATuner` that wraps around its generation measures genes again (`GaIndex`);
`best_iter` survives from one call of `tune` to the next, so that early stopping in
the second call counts from a trial of the first (`Measure`); a scheduler that was
restored counts its records again at the next call of `tune` (`RestoreStatus`).

Bounds. The number of workers, launches (`MaxLaunches`) and barriers (`Rounds`)
are small; two launches are enough for a worker of the first to meet the second,
and the ring of the code has two slots. `MaxRetry` is 2, so that a client asks
again once; `MaxLost` bounds the broken connections. Match keys, connections and
request numbers are bounded by these, not cut off. `MaxConnects` is 2: a second
channel meets what the first left on the line. `MaxResets` is 1, and `MaxRetries`,
2 for each channel, makes up for what one reset loses, so that `StartEnds` does
not depend on it; `BufferPackets` is large enough that the bounded retries do not
fill a buffer. Three host nonces leave a fresh one at every start. Four handles
and five pages exhaust the pool and fragment it; the proofs cover the rest.
`NumJobs` 3 lets one worker be recycled, or time out, and serve again; `MaxCrash` is 1.
`NumKeys` is large enough that a fresh key always exists; `MaxServerData`, 1, and
`MaxClientData`, 2, are enough for data to wait in both directions while the pair
closes and for one message to overtake another. `DeadRounds` is the number of rounds up to which the
gradient may draw a dead task: without it a call of `tune` could go on for ever. `MaxCalls` bounds the calls of `tune`, `MaxRestarts` the crashes, `MaxFlops`
and `MaxCost` the values that measurements are told apart by.

Fairness. Threads are preemptive, so every thread that can take a step does
(weak fairness of the owner's and of each worker's steps); the lambdas return;
nobody has to call anything, and wakeups need not be spurious. The tracker's event
loop serves every readable socket, and live servers and clients go on; a session
ends, by the client or at its timeout. In `MicroSession` each peer reads what
arrives, `Recv` returns and the retry timeout expires; timeouts that give up,
logs, calls and resets have no fairness. `PageAllocator` has no liveness. In
`PopenPool` the threads of the executor and of each process run, the timer thread
among them, and the initializer, which has no timeout, ends; the function of a job
need not. The loop of the proxy handles what its sockets and timers have for it, a
peer reads what it is sent, and a periodic update that is scheduled is called. A
call of `tune` goes on until it returns. Failures have no fairness.

Deadlock is checked in `spsc`, `pool`, `tracker`, `tracker_lost` and `page`. In
`barrier` a thread that spins for ever has no step in the model; in the others the
system may stop: after the last channel failed, when the executor is gone, when all
peers have closed, when `tune` has returned for the last time.

## 4. Proofs

All theorems hold for every value of the constants under the named assumptions
of the modules: `kRingSize >= 2`, `NoTask` is not a task, `num_task >= 1`, a pool at least as
large as the manager, at least one core and finitely many configurations of the
thread pool (`CallAssumption`, without which there is no largest pool), a budget of
at least one measurement for each task (`SchedulerAssumption`, which `tune` checks
before it begins), that host nonces are not zero (`NoncesAssumption`, which
`GenerateRandomNonce` sees to), that servers and clients are different processes
(`ProcessAssumption`), otherwise only that numbers are numbers. Each proof has the same plan: an
inductive invariant `Inv`, which TLC checked on the instance of the run before it was
proved; `InitInv`; one lemma for each action or group of actions; `NextInv`;
`Invariance`, that is `Spec => []Inv`; and a theorem for each property that follows.

`SpscTaskQueueProofs`. The inductive invariant `Inv` has the parts

- `CountInv`: `pending_` is the number of tasks in the ring that `Push` has
  counted, less one if the worker has claimed one. None of the properties says
  how `pending_` relates to the indices, and all of them depend on it;
- `ClaimInv`: a claim past the condition variable is backed by a task, or the
  end was signalled;
- `RoomInv`: the owner writes only where there is room;
- `MutexInv`: who holds the mutex, from the program counters;
- `SleepInv`: a worker that decided to sleep under the mutex saw no task and no
  end, and who changed that has yet to notify.

`InitInv` and `NextInv` show that it is inductive, action by action. From it:
`TypeCorrect`, `PopFindsATask`, `PendingBounded`, `NoSlotRace`, `NoLostWakeup`.
`RingImplementsFifo` shows that the ring implements the safety part of
`BoundedFifo`; it needs `ContentInv` (which slots hold which tasks) and the lemmas
on slots modulo the ring size (`OccupiedSlots`, `ReleaseLemma`, `PublishLemma`).

`ParallelBarrierProofs`. `BarrierSynchronises` from the invariant `Inv`: a waiting
task is one ahead of the value it remembers, and the tasks its loop went by have
passed that value (`WaitInv`).

`PageAllocatorProofs`. `LayoutFits` needs no assumption on the requests: pages,
manager and tables fit into the pool. The other theorems assume that no client
asks for zero bytes (`PositiveRequests`), which `MCPageAllocatorEmpty.cfg` shows to be
necessary.
The inductive invariant `Inv` has `Tiling` (the blocks of `pmap` lie one after the
other in the pages handed out, each at least one page long, which also bounds the
tables), `FreeBlocks` (`free_map` lists blocks of `pmap`, none twice) and `HeldBlocks`
(a handle holds a block that is large enough and that nothing else holds); the
accounting `NoBlockLost` is inductive with them, by the lemmas on the cardinality of
`Live`. `Disjointness`, `Containment`, `NoCheckFails` and `Accounting` follow.

`ThreadPoolProofs`, for any number of workers, launches and configurations. The
properties speak of a worker that runs or of a launch that has returned; to keep them,
`Inv` says what happens in between. `PlaceInv`: a task that was pushed is in its
worker's queue, is being run or has been run once, and nothing else is queued or
runs. `CountInv`: `num_pending_` is the number of tasks not run (`Unfinished`), which is
what lets the owner leave `WaitForJobs` only when nobody runs; with an empty launch
and task 0 on the owner it is one less. `PushInv` ties the loop of `Launch` to what it has
pushed, `ThreadsInv` says which threads live between `Init` and `Reset`, `ReturnedInv` keeps
the result of the last launch. From it: `TypeCorrect`, `RunsInside`, `EveryTaskRan`,
`PushReaches`, `NothingLeftBehind`. That a failure is returned is not among them: it is
the finding of `pool_error_race`.

`PopenPoolProofs`, for any number of threads, jobs, uses and crashes, with and without
initializer and timeout. The heart of `Inv` is `PipeInv`: the request a thread waits for
is unread, or run, or answered, and never two of these (`Waiting`), and a process
between two requests has none that is `RUNNING`, so that a timer that fired late finds
its own request ended (`NoneRunning`). `QueueOwns` and `ThreadOwns` say that a job is in the
queue, with one thread, or finished; `CountInv` that `_remaining_uses` and the uses of a
process add up; `CloseInv` what `__del__` leaves. From it: `TypeCorrect`, `ResultsAreOwn`,
`PipesInStep`, `NoRunaway`, `Recycling`, `AllProcessesEnd` and the action property
`FuturesFinal`.

`TaskSchedulerProofs`, for any number of tasks, any budget and any sequence of crashes.
`LogInv` and `CostInv` relate the scheduler to the log (after a crash it knows less until
it has read it), `HistoryInv` says that a history falls and ends at or above the best
cost, `TunedInv`, `SizeInv` and `BudgetInv` follow the warm up and the budget, and `TurnsInv`
is what round robin keeps: the live tasks up to the last one tuned have had one round
more than those behind it. `RoundRobinFair` follows from it and does not imply it. What
`Score` and `RoundRobinNext` compute is shown by induction over the natural numbers, in
the form of a least counterexample (`LeastElement`, `SetInduction`, from the
well-foundedness of `<`). From it: `TypeCorrect`, `TasksTuned`, `Gradients`,
`NoFutureBest`, `NothingLost`, `Budget`, `TurnsFair` and the action property
`DeadTasksRest`. The last two are about round robin; by gradient a dead task may be
tuned again. `Gradients` is about the backward term of the gradient, the only one that
reads the history.

`MicroSessionProofs`, for every set of nonces, every size of the receive buffer and any
number of channels, retries, resets, calls and logs. `AgeInv` is the link between the
history and the code: the nonce of the host's last start dates every packet and the
session of the device, so that comparing ids is enough to tell old from new. It rests
on the guard `FreshNonces`, the one assumption of the model that the code does not
enforce. `RolesInv` and `HostInv` say which peer sends what, and which state the session
of the host has at each point of the channel. `StartInv`: a start that the device has not
read is the last packet on its way, and nothing has answered it. `ReplyInv`: the reply to
it is the last of all replies, finds the host waiting, and names the session of the device
unless the news of a reset follows. `SharedInv`: once the host has its session no reply
is left that could end it. None of the three properties implies any of these. From it:
`TypeCorrect`, `NothingStale`, `SessionShared`, `NoReset`. The proof of `SessionShared` failed at
first: a buffer that control packets have filled refuses the news of a reset too, a
case the bounds of the run do not reach and which `Deaf` now names.

`RpcTrackerProofs`, for any number of servers and clients, any priorities, and any sequence
of deaths and broken connections. None of the properties is inductive: they speak of
keys that are free or granted, and a key is neither while its PUT is on the way. `KeysInv`
says that a server has made every key there is of it, and its current key on its current
connection; `OnceInv` that a key is in one place, in a PUT, in `values` or with one client, and
that `pending` is what `values` holds, inside `_schedule` too. `PutInv` and `PutterInv` say that a
server whose PUT is unread, or is being handled, awaits the answer, so that there is never
a second one. From these a ping is exact: a key missing from the answer is not
free, and the key made in its place meets no older entry. `HeapInv` makes the requests
totally ordered, so that `FirstRequest` exists (`FirstRequestLemma`, by a request that fewest
others come before); `RequestInv` that a client has one request under way on a
connection that stands, so that an answer finds it waiting; `BacklogInv` that a client which
dialled still holds the key it dialled with and stands in one backlog, once. What
`WithoutValuesOf` leaves of `values` is shown by induction on the length (`WithoutLemma`). From it:
`TypeCorrect`, `KeysHandedOutOnce`, `FreeEntriesCurrent`, `OneClient`, `OffersOpen`,
`PendingFree` and the action property `AnswersFinal`, on which the model itself relies: it
handles the answer to a ping in the step that produces it. `MaxLost` is arbitrary in the proofs, and only bounds the runs.

Model-checked only: everything about liveness (`WorkerStops`, the fairness of
`ImplementsFifo`, `CallsReturn`, `BarrierReturns`, `RequestReturns`,
`ServerListens`, `StartEnds`, `CallEnds`, `EveryJobEnds`, `PairEnds`, `WaitEnds`,
`StuckKeyReplaced`, `TuneEnds`), which needs fairness and `ENABLED`; and all of
`RpcProxy` and `AutoTuner`. Of these, `KnobsRoundTrip` is out of
reach: it is a statement about what folds over sequences compute, and `UntriedIsExact`
depends on it for `GATuner`. `EveryServerOffered` depends on there being a fresh key
whenever one is drawn, which in the model is the bound `NumKeys` and in the code the
length of a random string.

## 5. Plan

1. (done) `SpscTaskQueue` with its refinement and proofs, `ThreadPool`,
   `ParallelBarrier` with its proof, `RpcTracker`, `MicroSession`, `PageAllocator`
   with its proofs.
2. (done) `PopenPool`, `RpcProxy`, `AutoTuner`, `TaskScheduler`.
3. (done) Proofs about `ThreadPool`, `PopenPool`, `TaskScheduler`, `MicroSession` and
   `RpcTracker`. Next: `NoHalfPair` of `RpcProxy` and `NoConfigTwice` of `AutoTuner`.
4. A launch from inside task 0 in `ThreadPool`; an abstract specification of an
   agreed session for `MicroSession`; framer and unframer; the stack allocator; the
   pipeline queues; the Hexagon descriptor ring; the endpoint event handler.

## 6. Not modelled

The compiler (relay, tir, te, topi, the importers of `relay/frontend`, the search
policies) is by far the largest part of the repository and is left out: its passes
are sequential functions on syntax trees, whose correctness is a statement about the
meaning of programs, and small instances of trees say little about it. Device
runtimes and code generators wrap the interfaces of vendors. Of the modelled
components the following is left out, as listed under each in `PROJECT.json`: the
WebSocket side of the proxy and peers that break its handshake; the diversity filter
of the tuners; similarity groups, objective functions and weights of the task scheduler,
which only steer its gradient and its early stopping, and logs of other targets; launches from inside a task; `STOP` and the summaries of the
tracker.
