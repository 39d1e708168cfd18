----------------------------- MODULE ThreadPool -----------------------------
(***************************************************************************)
(* classes ParallelLauncher and ThreadPool of src/runtime/thread_pool.cc,  *)
(* with TVMBackendParallelLaunch, threading::Configure and                 *)
(* threading::ResetThreadPool, and the parts of threading_backend.cc that  *)
(* decide how many workers there are.                                      *)
(*                                                                         *)
(* One thread, the owner, has a thread-local pool and launcher.  A launch  *)
(* resets the launcher, pushes a task to the queue of every worker it      *)
(* needs, runs task 0 itself when exclude_worker0, and spins until         *)
(* num_pending_ is 0.  The workers run their task and report to the same   *)
(* launcher, which the owner reuses for its next launch as soon as the     *)
(* counter allows.  Every access to shared state is one step.  The queues  *)
(* are the channels of BoundedFifo, with room for one task.                *)
(***************************************************************************)
EXTENDS Integers, Sequences, FiniteSets, FiniteSetsExt

CONSTANTS
  DefaultConcurrency,  \* MaxConcurrency() while max_concurrency is 0
  BigCount,            \* big_count_: cores of the highest frequency
  LittleCount,         \* little_count_: cores of the lowest, if another
  ExcludeWorker0,      \* the settings of TVM_EXCLUDE_WORKER0 that are used
  TaskCounts,          \* the values of num_task that are asked for
  Configs,             \* the arguments of config_threadpool that are used
  MayFail,             \* the tasks whose lambda may return an error
  MaxLaunches          \* bound: how many launches are made

Modes == {"kBig", "kLittle", "kSpecify", "default"}

ASSUME ConcurrencyAssumption == DefaultConcurrency \in Nat \ {0}
ASSUME CoreAssumption == BigCount \in Nat \ {0} /\ LittleCount \in Nat
ASSUME ExcludeAssumption == ExcludeWorker0 \subseteq BOOLEAN
ASSUME CallAssumption ==
  /\ TaskCounts \subseteq Nat /\ MayFail \subseteq Nat /\ MaxLaunches \in Nat
  /\ IsFiniteSet(Configs)
  /\ \A c \in Configs : c.mode \in Modes /\ c.nthreads \in Nat /\ c.cpus \in Nat

VARIABLES
  \* the owner
  opc,               \* where the owner is
  next,              \* the loop variable of Launch, or of Reset
  task_id,           \* tsk.task_id of Launch: NoId before it is assigned
  result,            \* what the last launch returned: 0, -1, or Thrown
  \* threading_backend.cc and the pool
  max_concurrency,   \* thread_local max_concurrency: 0 when it was not set
  num_workers,       \* num_workers_: 0 until the pool is constructed
  num_workers_used,  \* num_workers_used_
  exclude_worker0,   \* exclude_worker0_: the owner runs task 0
  queue,             \* queues_: the tasks waiting for each worker
  exit_now,          \* which workers were told to exit
  \* the launcher
  num_task,          \* env.num_task
  num_pending,       \* num_pending_
  has_error,         \* has_error_
  par_errors,        \* par_errors_: the launch that left a message, or 0
  par_size,          \* par_errors_.size()
  sync_size,         \* how many counters sync_counter_ was allocated for
  \* the workers
  wpc,               \* where each worker is
  task,              \* the task each worker runs
  \* what the lambdas did, which the code does not keep
  launch,            \* which launch this is
  tasks,             \* how many tasks it has
  ran,               \* how often each task of this launch was run
  failed             \* which tasks of this launch returned an error

ownerVars == <<opc, next, task_id, result>>
poolVars == <<max_concurrency, num_workers, num_workers_used, exclude_worker0>>
queueVars == <<queue, exit_now>>
launcherVars == <<num_task, num_pending, has_error, par_errors, par_size, sync_size>>
workerVars == <<wpc, task>>
historyVars == <<launch, tasks, ran, failed>>
vars == <<ownerVars, poolVars, queueVars, launcherVars, workerVars, historyVars>>

\* No pool is larger than this, and no launch has more tasks.
MaxWorkers == Max({DefaultConcurrency} \cup {c.cpus : c \in Configs})
Workers == 0 .. MaxWorkers - 1
NoId == -1
Thrown == 1
NoTask == [id |-> NoId, launch |-> 0]

----------------------------------------------------------------------------
(***************************************************************************)
(* How many workers: MaxConcurrency, ThreadGroup::Configure and the        *)
(* construction of the pool.                                               *)
(***************************************************************************)
MaxConcurrency(set) == IF set # 0 THEN set ELSE DefaultConcurrency

\* Mutant: more workers may be in use than the pool has.
ConfigureUnlimited(n, set, c) ==
  IF c.nthreads # 0 THEN c.nthreads ELSE BigCount

\* ThreadGroup::Impl::Configure for a group of n workers.
Configure(n, set, c) ==
  LET preferred ==
        CASE c.mode = "kLittle"  -> LittleCount
          [] c.mode = "kBig"     -> BigCount
          [] c.mode = "kSpecify" -> c.cpus
          [] OTHER               -> MaxConcurrency(set)
      wanted == IF c.nthreads # 0 THEN c.nthreads ELSE preferred
  IN  Min({n, wanted})

DefaultConfig == [mode |-> "kBig", nthreads |-> 0, cpus |-> 0]

\* ThreadPool::ThreadLocal() constructs the pool on its first use.
PoolSize(set) == IF num_workers = 0 THEN MaxConcurrency(set) ELSE num_workers

\* Mutant: a thread and a queue for worker 0, and the owner runs task 0 as well.
FirstWorkerNotExcluded == 0

FirstWorker == IF exclude_worker0 THEN 1 ELSE 0

\* ThreadPool::Init for n workers: new queues and new threads.  With
\* exclude_worker0 queues_[0] exists and no thread reads it.
NewWorkers(n) ==
  /\ queue' = [w \in Workers |-> <<>>]
  /\ exit_now' = [w \in Workers |-> FALSE]
  /\ wpc' = [w \in Workers |->
               IF FirstWorker <= w /\ w < n THEN "pop" ELSE "none"]
  /\ task' = [w \in Workers |-> NoTask]

KeepWorkers == UNCHANGED <<queueVars, workerVars>>

Init ==
  /\ opc = "idle" /\ next = 0 /\ task_id = NoId /\ result = 0
  /\ max_concurrency = 0 /\ num_workers = 0 /\ num_workers_used = 0
  /\ exclude_worker0 \in ExcludeWorker0
  /\ queue = [w \in Workers |-> <<>>]
  /\ exit_now = [w \in Workers |-> FALSE]
  /\ num_task = 0 /\ num_pending = 0 /\ has_error = FALSE
  /\ par_errors = [i \in 0 .. MaxWorkers |-> 0] /\ par_size = 0
  /\ sync_size = 0
  /\ wpc = [w \in Workers |-> "none"]
  /\ task = [w \in Workers |-> NoTask]
  /\ launch = 0 /\ tasks = 0 /\ ran = [i \in Workers |-> 0]
  /\ failed = {}

\* UpdateWorkerConfiguration limits the number once more.
UpdateWorkerConfiguration(n, c) == Min({n, Configure(n, c.cpus, c)})

\* runtime.config_threadpool: the list of CPUs first limits MaxConcurrency,
\* and with it the pool if this call is what constructs it.
ConfigThreadpool(c) ==
  LET n == PoolSize(c.cpus) IN
  /\ opc = "idle"
  /\ max_concurrency' = c.cpus
  /\ num_workers' = n
  /\ num_workers_used' = UpdateWorkerConfiguration(n, c)
  /\ IF num_workers = 0 THEN NewWorkers(n) ELSE KeepWorkers
  /\ UNCHANGED <<exclude_worker0, ownerVars, launcherVars, historyVars>>

----------------------------------------------------------------------------
(***************************************************************************)
(* The owner launches.                                                     *)
(***************************************************************************)
Outcomes(i) == IF i \in MayFail THEN {0, -1} ELSE {0}

StartHistory(n) ==
  /\ launch' = launch + 1 /\ tasks' = n

\* With a single worker TVMBackendParallelLaunch calls the lambda itself, as
\* the only task, and returns 0 whatever the lambda returned.
LaunchInline ==
  /\ opc = "idle"
  /\ launch < MaxLaunches
  /\ MaxConcurrency(max_concurrency) = 1
  /\ StartHistory(1)
  /\ ran' = [i \in Workers |-> IF i = 0 THEN 1 ELSE 0]
  /\ \E r \in Outcomes(0) : failed' = IF r = 0 THEN {} ELSE {0}
  /\ result' = 0
  /\ UNCHANGED <<opc, next, task_id, poolVars, queueVars, workerVars, launcherVars>>

\* Launch: too many tasks for the workers in use throw before anything else;
\* otherwise ParallelLauncher::Init begins by storing num_pending_.
Launch(n) ==
  LET size  == PoolSize(max_concurrency)
      used  == IF num_workers = 0
                 THEN Configure(size, max_concurrency, DefaultConfig)
                 ELSE num_workers_used
      count == IF n = 0 THEN used ELSE n
  IN
  /\ opc = "idle"
  /\ launch < MaxLaunches
  /\ MaxConcurrency(max_concurrency) # 1
  /\ num_workers' = size /\ num_workers_used' = used
  /\ IF num_workers = 0 THEN NewWorkers(size) ELSE KeepWorkers
  /\ StartHistory(count)
  /\ ran' = [i \in Workers |-> 0] /\ failed' = {}
  /\ IF count > used
       THEN /\ result' = Thrown
            /\ UNCHANGED <<opc, num_pending, num_task, task_id>>
       ELSE /\ opc' = "flag"
            /\ num_pending' = count /\ num_task' = count
            /\ task_id' = NoId
            /\ UNCHANGED result
  /\ UNCHANGED <<next, max_concurrency, exclude_worker0, has_error, par_errors, par_size, sync_size>>

\* ParallelLauncher::Init: has_error_.store(false).
InitFlag ==
  /\ opc = "flag"
  /\ has_error' = FALSE
  /\ opc' = "reshape"
  /\ UNCHANGED <<next, task_id, result, poolVars, queueVars, workerVars, historyVars,
                 num_task, num_pending, par_errors, par_size, sync_size>>

\* ParallelLauncher::Init: the error messages grow to one more than the tasks,
\* and only then are new counters allocated for the barrier; all num_task
\* counters are reset.  A reset past the end of the allocation may crash.
InitReshape ==
  /\ opc = "reshape"
  /\ IF num_task > par_size
       THEN par_size' = num_task + 1 /\ sync_size' = num_task
       ELSE UNCHANGED <<par_size, sync_size>>
  /\ \/ opc' = "push"
     \/ num_task > sync_size' /\ opc' = "crashed"
  /\ next' = FirstWorker
  /\ UNCHANGED <<task_id, result, poolVars, queueVars, workerVars, historyVars,
                 num_task, num_pending, has_error, par_errors>>

\* Push to queues_[next], which waits while that queue is full.
PushTask ==
  /\ opc = "push"
  /\ next < num_task
  /\ Len(queue[next]) < 1
  /\ queue' = [queue EXCEPT ![next] = Append(@, [id |-> next, launch |-> launch])]
  /\ task_id' = next
  /\ next' = next + 1
  /\ UNCHANGED <<opc, result, poolVars, exit_now, launcherVars, workerVars, historyVars>>

PushDone ==
  /\ opc = "push"
  /\ next >= num_task
  /\ opc' = IF exclude_worker0 THEN "main" ELSE "wait"
  /\ UNCHANGED <<next, task_id, result, poolVars, queueVars, launcherVars, workerVars,
                 historyVars>>

\* The owner runs task 0.  An error is reported under tsk.task_id, the last
\* task pushed; when none was pushed that is an uninitialized value, which
\* names some message or none of them.
RunMain ==
  /\ opc = "main"
  /\ ran' = [ran EXCEPT ![0] = @ + 1]
  /\ num_pending' = num_pending - 1
  /\ \E r \in Outcomes(0) :
       IF r = 0
         THEN /\ opc' = "wait"
              /\ UNCHANGED <<has_error, par_errors, failed>>
         ELSE /\ failed' = failed \cup {0}
              /\ has_error' = TRUE
              /\ \/ \E i \in 0 .. par_size - 1 :
                       /\ task_id \in {i, NoId}
                       /\ par_errors' = [par_errors EXCEPT ![i] = launch]
                       /\ opc' = "wait"
                 \/ /\ task_id = NoId
                    /\ opc' = "crashed"
                    /\ UNCHANGED par_errors
  /\ UNCHANGED <<next, task_id, result, poolVars, queueVars, workerVars, launch, tasks,
                 num_task, par_size, sync_size>>

\* Mutant: off by one, the wait ends when one job is left.
WaitForJobsEarly ==
  /\ opc = "wait"
  /\ num_pending <= 1
  /\ result' = IF has_error THEN -1 ELSE 0
  /\ opc' = "idle"
  /\ UNCHANGED <<next, task_id, poolVars, queueVars, workerVars, historyVars, launcherVars>>

\* WaitForJobs leaves its loop: the messages are returned and cleared if one
\* of the tasks is known to have failed.
WaitForJobs ==
  /\ opc = "wait"
  /\ num_pending = 0
  /\ IF has_error
       THEN /\ result' = -1
            /\ par_errors' = [i \in 0 .. MaxWorkers |-> 0]
       ELSE /\ result' = 0
            /\ UNCHANGED par_errors
  /\ opc' = "idle"
  /\ UNCHANGED <<next, task_id, poolVars, queueVars, workerVars, launch, tasks, ran, failed,
                 num_task, num_pending, has_error, par_size, sync_size>>

----------------------------------------------------------------------------
(***************************************************************************)
(* The owner resets the pool, or ends and destroys it.                     *)
(***************************************************************************)
StopCall ==
  /\ opc = "idle"
  /\ num_workers # 0
  /\ opc' \in {"reset", "destroy"}
  /\ next' = 0
  /\ UNCHANGED <<task_id, result, poolVars, queueVars, launcherVars, workerVars,
                 historyVars>>

SignalForKill ==
  /\ opc \in {"reset", "destroy"}
  /\ next < num_workers
  /\ exit_now' = [exit_now EXCEPT ![next] = TRUE]
  /\ next' = next + 1
  /\ UNCHANGED <<opc, task_id, result, poolVars, queue, launcherVars, workerVars,
                 historyVars>>

\* threads_.reset() joins every thread.
AllJoined == next >= num_workers /\ \A w \in Workers : wpc[w] \in {"none", "stopped"}

\* Mutant: the threads are joined and no new ones are started.
ResetDoneNoInit ==
  /\ opc = "reset"
  /\ AllJoined
  /\ opc' = "idle"
  /\ UNCHANGED <<next, task_id, result, poolVars, queueVars, workerVars, launcherVars,
                 historyVars>>

ResetDone ==
  /\ opc = "reset"
  /\ AllJoined
  /\ NewWorkers(num_workers)
  /\ num_workers_used' = Configure(num_workers, max_concurrency, DefaultConfig)
  /\ opc' = "idle"
  /\ UNCHANGED <<next, task_id, result, max_concurrency, num_workers, exclude_worker0,
                 launcherVars, historyVars>>

DestroyDone ==
  /\ opc = "destroy"
  /\ AllJoined
  /\ opc' = "destroyed"
  /\ UNCHANGED <<next, task_id, result, poolVars, queueVars, launcherVars, workerVars,
                 historyVars>>

----------------------------------------------------------------------------
(***************************************************************************)
(* The workers: ThreadPool::RunWorker.                                     *)
(***************************************************************************)
\* Pop, as the channel of BoundedFifo: a task that is there may still be
\* taken, or left behind, once the worker was told to exit.
WorkerPop(w) ==
  /\ wpc[w] = "pop"
  /\ queue[w] # <<>>
  /\ task' = [task EXCEPT ![w] = Head(queue[w])]
  /\ queue' = [queue EXCEPT ![w] = Tail(@)]
  /\ wpc' = [wpc EXCEPT ![w] = "run"]
  /\ UNCHANGED <<ownerVars, poolVars, exit_now, launcherVars, historyVars>>

WorkerExit(w) ==
  /\ wpc[w] = "pop"
  /\ exit_now[w]
  /\ wpc' = [wpc EXCEPT ![w] = "stopped"]
  /\ UNCHANGED <<ownerVars, poolVars, queueVars, launcherVars, task, historyVars>>

\* Mutant: a task that failed is not taken off num_pending_.
WorkerFinishErrorPending(w) ==
  /\ wpc[w] = "run"
  /\ ran' = [ran EXCEPT ![task[w].id] = @ + 1]
  /\ \E r \in Outcomes(task[w].id) :
       /\ num_pending' = IF r = 0 THEN num_pending - 1 ELSE num_pending
       /\ failed' = IF r = 0 THEN failed ELSE failed \cup {task[w].id}
       /\ wpc' = [wpc EXCEPT ![w] = IF r = 0 THEN "pop" ELSE "store"]
  /\ UNCHANGED <<ownerVars, poolVars, queueVars, task, launch, tasks,
                 num_task, has_error, par_errors, par_size, sync_size>>

\* The lambda has returned: SignalJobFinish, or SignalJobError, which first
\* takes the task off num_pending_, then stores the message and then sets
\* has_error_.
WorkerFinish(w) ==
  /\ wpc[w] = "run"
  /\ ran' = [ran EXCEPT ![task[w].id] = @ + 1]
  /\ num_pending' = num_pending - 1
  /\ \E r \in Outcomes(task[w].id) :
       /\ failed' = IF r = 0 THEN failed ELSE failed \cup {task[w].id}
       /\ wpc' = [wpc EXCEPT ![w] = IF r = 0 THEN "pop" ELSE "store"]
  /\ UNCHANGED <<ownerVars, poolVars, queueVars, task, launch, tasks,
                 num_task, has_error, par_errors, par_size, sync_size>>

WorkerStoreError(w) ==
  /\ wpc[w] = "store"
  /\ par_errors' = [par_errors EXCEPT ![task[w].id] = task[w].launch]
  /\ wpc' = [wpc EXCEPT ![w] = "seterror"]
  /\ UNCHANGED <<ownerVars, poolVars, queueVars, task, historyVars,
                 num_task, num_pending, has_error, par_size, sync_size>>

\* par_errors_ is not protected: a worker that stores its message while the
\* owner resizes the vector, or reads and clears it, races with the owner.
\* The message may be lost, or the process crash.
ParErrorsRace(w) ==
  /\ wpc[w] = "store"
  /\ \/ opc = "reshape" /\ num_task > par_size
     \/ opc = "wait" /\ num_pending = 0 /\ has_error
  /\ \/ wpc' = [wpc EXCEPT ![w] = "seterror"] /\ UNCHANGED opc
     \/ opc' = "crashed" /\ UNCHANGED wpc
  /\ UNCHANGED <<next, task_id, result, poolVars, queueVars, launcherVars, task,
                 historyVars>>

WorkerSetError(w) ==
  /\ wpc[w] = "seterror"
  /\ has_error' = TRUE
  /\ wpc' = [wpc EXCEPT ![w] = "pop"]
  /\ UNCHANGED <<ownerVars, poolVars, queueVars, task, historyVars,
                 num_task, num_pending, par_errors, par_size, sync_size>>

----------------------------------------------------------------------------
OwnerStep ==
  \/ InitFlag \/ InitReshape \/ PushTask \/ PushDone \/ RunMain \/ WaitForJobs
  \/ SignalForKill \/ ResetDone \/ DestroyDone

WorkerStep(w) ==
  \/ WorkerPop(w) \/ WorkerExit(w) \/ WorkerFinish(w)
  \/ WorkerStoreError(w) \/ ParErrorsRace(w) \/ WorkerSetError(w)

\* The owner's thread has ended, or the process has.
Ended == opc \in {"destroyed", "crashed"} /\ UNCHANGED vars

Next ==
  \/ \E c \in Configs : ConfigThreadpool(c)
  \/ LaunchInline
  \/ \E n \in TaskCounts : Launch(n)
  \/ StopCall
  \/ OwnerStep
  \/ \E w \in Workers : WorkerStep(w)
  \/ Ended

\* Every thread runs and every lambda returns; the owner need not call anything.
Fairness == WF_vars(OwnerStep) /\ \A w \in Workers : WF_vars(WorkerStep(w))

Spec == Init /\ [][Next]_vars /\ Fairness

----------------------------------------------------------------------------
Tasks == [id : {NoId} \cup Workers, launch : 0 .. MaxLaunches]

\* Every variable has its type, and no more workers are in use than the pool
\* has threads and queues for (Configure, UpdateWorkerConfiguration).
TypeOK ==
  /\ opc \in {"idle", "flag", "reshape", "push", "main", "wait", "reset",
              "destroy", "destroyed", "crashed"}
  /\ next \in 0 .. MaxWorkers /\ task_id \in {NoId} \cup Workers
  /\ result \in {0, -1, Thrown}
  /\ max_concurrency \in Nat /\ num_workers \in 0 .. MaxWorkers
  /\ num_workers_used \in 0 .. num_workers /\ exclude_worker0 \in BOOLEAN
  /\ queue \in [Workers -> Seq(Tasks)] /\ exit_now \in [Workers -> BOOLEAN]
  /\ num_task \in 0 .. MaxWorkers /\ num_pending \in -1 .. MaxWorkers
  /\ has_error \in BOOLEAN /\ par_errors \in [0 .. MaxWorkers -> 0 .. MaxLaunches]
  /\ par_size \in 0 .. MaxWorkers + 1 /\ sync_size \in 0 .. MaxWorkers
  /\ wpc \in [Workers -> {"none", "pop", "run", "store", "seterror", "stopped"}]
  /\ task \in [Workers -> Tasks]
  /\ launch \in 0 .. MaxLaunches /\ tasks \in Nat /\ ran \in [Workers -> Nat]
  /\ failed \subseteq Workers

\* A worker calls flambda, with the cdata and env of the launcher, only while
\* the launch that pushed its task is still waiting: Launch does not return,
\* and the launcher is not reused, under a running task.
RunsInsideItsLaunch ==
  \A w \in Workers :
    wpc[w] = "run" => opc \in {"push", "main", "wait"} /\ task[w].launch = launch

\* When Launch returns, each of its tasks was run exactly once: none was lost in
\* a queue, none was run by two workers.
EveryTaskRanOnce ==
  opc = "idle" /\ result \in {0, -1} /\ launch > 0 =>
    \A i \in Workers : ran[i] = IF i < tasks THEN 1 ELSE 0

\* A task goes to a worker that has a thread and was not told to exit.
PushReachesAWorker ==
  opc = "push" /\ next < num_task => wpc[next] \notin {"none", "stopped"} /\ ~exit_now[next]

\* A pool that is reset or destroyed between launches leaves no task behind.
NoTaskLeftBehind ==
  \A w \in Workers : wpc[w] = "stopped" => queue[w] = <<>>

\* Every launch, reset and destruction of the pool comes to an end, unless the
\* process crashes on undefined behaviour: no call hangs.
CallsReturn == opc # "idle" ~> opc \in {"idle", "destroyed", "crashed"}

\* include/tvm/runtime/c_backend_api.h:144, "0 when no error is thrown, -1 when
\* failure happens": a launch one of whose tasks failed returns -1.
FailureIsReturned ==
  opc = "idle" /\ failed # {} /\ result # Thrown => result = -1

\* The counters of the barrier, sync_counter_, are one for each task.
CounterForEveryTask == opc \in {"push", "main", "wait"} => num_task <= sync_size
============================================================================
