-------------------------- MODULE ThreadPoolProofs --------------------------
(***************************************************************************)
(* Proofs about ThreadPool, for any number of workers, tasks and launches, *)
(* and any sequence of configurations and resets of the pool.              *)
(***************************************************************************)
EXTENDS ThreadPool, FiniteSetTheorems, WellFoundedInduction, TLAPS

\* A launch is under way, and has pushed the task of worker w.
Busy == opc \in {"flag", "reshape", "push", "main", "wait"}
Pushed(w) ==
  /\ FirstWorker <= w
  /\ \/ opc = "push" /\ w < next
     \/ opc \in {"main", "wait"} /\ w < num_task
MainRan == exclude_worker0 /\ opc = "wait"
TaskOf(w) == [id |-> w, launch |-> launch]
Unfinished == {i \in 0..(num_task - 1) : ran[i] = 0}

\* No pool is larger than MaxWorkers, as no limit is.
Types == TypeOK /\ max_concurrency <= MaxWorkers

\* A task that was pushed waits, runs, or is done; and nothing else is in a
\* queue or runs.  Only the owner runs task 0 when worker 0 is excluded.
PlaceInv ==
  \A w \in Workers :
    IF Pushed(w)
      THEN \/ queue[w] = <<TaskOf(w)>> /\ wpc[w] # "run" /\ ran[w] = 0
           \/ queue[w] = <<>> /\ wpc[w] = "run" /\ task[w] = TaskOf(w) /\ ran[w] = 0
           \/ queue[w] = <<>> /\ wpc[w] # "run" /\ ran[w] = 1
      ELSE /\ queue[w] = <<>> /\ wpc[w] # "run"
           /\ Busy => ran[w] = IF MainRan /\ w = 0 THEN 1 ELSE 0

\* num_pending_ counts the tasks that have not been run.  An owner that runs
\* task 0 of a launch without tasks takes one off too many.
CountInv ==
  Busy =>
    /\ tasks = num_task /\ num_task <= num_workers_used /\ num_workers # 0
    /\ num_pending = Cardinality(Unfinished) - (IF MainRan /\ num_task = 0 THEN 1 ELSE 0)

\* tsk.task_id is unassigned only while no task was pushed.
PushInv ==
  /\ opc \in {"flag", "reshape"} => task_id = NoId
  /\ opc = "push" => /\ FirstWorker <= next /\ (next <= num_task \/ next = FirstWorker)
                     /\ task_id = NoId => next = FirstWorker
  /\ opc = "main" => exclude_worker0 /\ (task_id = NoId => num_task <= 1)

\* The threads of the pool, between Init and the next time they are stopped.
ThreadsInv ==
  \A w \in Workers :
    /\ wpc[w] # "none" => FirstWorker <= w /\ w < num_workers
    /\ opc \notin {"reset", "destroy", "destroyed"} =>
         /\ ~exit_now[w]
         /\ FirstWorker <= w /\ w < num_workers => wpc[w] \notin {"none", "stopped"}

\* Outside a launch, what the last one that did not throw has left.
ReturnedInv ==
  opc \in {"idle", "reset", "destroy", "destroyed"} /\ result \in {0, -1} /\ launch > 0 =>
    \A i \in Workers : ran[i] = IF i < tasks THEN 1 ELSE 0

Inv == Types /\ PlaceInv /\ CountInv /\ PushInv /\ ThreadsInv /\ ReturnedInv

----------------------------------------------------------------------------
(***************************************************************************)
(* The sizes.                                                              *)
(***************************************************************************)
LEMMA LeastElement ==
  ASSUME NEW T, T \subseteq Nat, T # {}
  PROVE  \E n \in T : \A m \in T : n <= m
<1> DEFINE R == OpToRel(<, Nat)
<1>1. IsWellFoundedOn(R, Nat)
  BY NatLessThanWellFounded
<1>2. \A x, y \in Nat : y < x => <<y, x>> \in R
  BY DEF OpToRel
<1> HIDE DEF R
<1>3. PICK n \in T : \A m \in T : ~ (<<m, n>> \in R)
  BY <1>1, WFMin
<1>4. \A m \in T : m \in Nat /\ n \in Nat /\ ~ (m < n)
  BY <1>2, <1>3
<1> QED
  BY <1>4

\* The limits that calls of config_threadpool set are bounded: there are
\* finitely many of them.
LEMMA LimitsBounded == \E b \in Nat : \A c \in Configs : c.cpus <= b
<1>1. IsFiniteSet(Configs) /\ \A c \in Configs : c.cpus \in Nat
  BY CallAssumption
<1>2. PICK n \in Nat : ExistsSurjection(1..n, Configs)
  BY <1>1, FS_NatSurjection
<1>3. PICK f \in [1..n -> Configs] : \A c \in Configs : \E j \in 1..n : f[j] = c
  BY <1>2 DEF ExistsSurjection, Surjection
<1> DEFINE bounded(k) == \E b \in Nat : \A j \in 1..k : f[j].cpus <= b
           T == {k \in 0..n : ~bounded(k)}
<1>4. \A j \in 1..n : f[j].cpus \in Nat
  BY <1>1, <1>3
<1>5. bounded(0)
  <2>1. \A j \in 1..0 : f[j].cpus <= 0
    OBVIOUS
  <2> QED
    BY <2>1
<1>6. ASSUME NEW k \in 1..n, bounded(k - 1) PROVE bounded(k)
  <2>1. PICK b \in Nat : \A j \in 1..(k - 1) : f[j].cpus <= b
    BY <1>6
  <2>2. f[k].cpus \in Nat /\ b + f[k].cpus \in Nat
    BY <1>4
  <2>3. ASSUME NEW j \in 1..k PROVE f[j].cpus <= b + f[k].cpus
    <3>1. f[j].cpus \in Nat /\ (j = k \/ f[j].cpus <= b)
      BY <1>4, <2>1
    <3> QED
      BY <2>2, <3>1
  <2> QED
    BY <2>2, <2>3
<1> HIDE DEF bounded
<1>7. bounded(n)
  <2> SUFFICES ASSUME ~bounded(n) PROVE FALSE
    OBVIOUS
  <2>1. T \subseteq Nat /\ T # {}
    OBVIOUS
  <2>2. PICK k \in T : \A m \in T : k <= m
    BY <2>1, LeastElement
  <2>3. k \in 1..n
    BY <1>5
  <2>4. k - 1 \in 0..n /\ k - 1 \notin T
    BY <2>2, <2>3
  <2> QED
    BY <1>6, <2>3, <2>4
<1>8. PICK b \in Nat : \A j \in 1..n : f[j].cpus <= b
  BY <1>7 DEF bounded
<1> QED
  BY <1>3, <1>8

\* No pool and no limit is larger than MaxWorkers.
LEMMA MaxWorkersLemma ==
  /\ MaxWorkers \in Nat \ {0} /\ DefaultConcurrency <= MaxWorkers
  /\ \A c \in Configs : c.cpus \in Nat /\ c.cpus <= MaxWorkers
<1> DEFINE S == {DefaultConcurrency} \cup {c.cpus : c \in Configs}
           U == {u \in Nat : \A x \in S : x <= u}
<1>1. S \subseteq Nat /\ DefaultConcurrency \in Nat \ {0} /\ DefaultConcurrency \in S
  BY CallAssumption, ConcurrencyAssumption
<1>2. U # {}
  <2>1. PICK b \in Nat : \A c \in Configs : c.cpus <= b
    BY LimitsBounded
  <2>2. \A c \in Configs : c.cpus \in Nat
    BY CallAssumption
  <2>3. \A x \in S : x <= b + DefaultConcurrency
    BY <1>1, <2>1, <2>2
  <2>4. b + DefaultConcurrency \in Nat
    BY <1>1
  <2> QED
    BY <2>3, <2>4
<1>3. PICK u \in U : \A v \in U : u <= v
  <2> HIDE DEF S
  <2> QED
    BY <1>2, LeastElement
<1>4. \A c \in Configs : c.cpus \in S
  OBVIOUS
<1>5. MaxWorkers = Max(S)
  BY DEF MaxWorkers
<1> HIDE DEF S
<1>6. u \in S
  <2> SUFFICES ASSUME u \notin S PROVE FALSE
    OBVIOUS
  <2>1. u # 0
    BY <1>1, <1>3
  <2>2. \A x \in S : x <= u - 1
    BY <1>1, <1>3
  <2>3. u - 1 \in U
    BY <2>1, <2>2
  <2> QED
    BY <1>3, <2>3
<1>7. \E m \in S : \A y \in S : m >= y
  BY <1>1, <1>3, <1>6
<1>8. MaxWorkers \in S /\ \A y \in S : MaxWorkers >= y
  BY <1>5, <1>7 DEF Max
<1>9. MaxWorkers \in Nat \ {0} /\ DefaultConcurrency <= MaxWorkers
  BY <1>1, <1>8
<1>10. ASSUME NEW c \in Configs PROVE c.cpus \in Nat /\ c.cpus <= MaxWorkers
  <2>1. c.cpus \in S
    BY <1>4
  <2> QED
    BY <1>1, <1>8, <1>9, <2>1
<1> QED
  BY <1>9, <1>10

LEMMA MinLemma ==
  ASSUME NEW a \in Nat, NEW b \in Nat
  PROVE  Min({a, b}) \in Nat /\ Min({a, b}) <= a /\ Min({a, b}) <= b
<1>1. \E m \in {a, b} : \A y \in {a, b} : m <= y
  <2>1. CASE a <= b
    BY <2>1
  <2>2. CASE b <= a
    BY <2>2
  <2> QED
    BY <2>1, <2>2
<1>2. Min({a, b}) \in {a, b} /\ \A y \in {a, b} : Min({a, b}) <= y
  BY <1>1 DEF Min
<1> QED
  BY <1>2

\* Configure never answers more than the group has.
LEMMA ConfigureLemma ==
  ASSUME NEW n \in Nat, NEW set \in Nat, NEW c,
         c.mode \in Modes, c.nthreads \in Nat, c.cpus \in Nat
  PROVE  Configure(n, set, c) \in 0..n
<1> DEFINE preferred == CASE c.mode = "kLittle"  -> LittleCount
                          [] c.mode = "kBig"     -> BigCount
                          [] c.mode = "kSpecify" -> c.cpus
                          [] OTHER               -> MaxConcurrency(set)
           wanted == IF c.nthreads # 0 THEN c.nthreads ELSE preferred
<1>1. LittleCount \in Nat /\ BigCount \in Nat /\ MaxConcurrency(set) \in Nat
  BY CoreAssumption, ConcurrencyAssumption DEF MaxConcurrency
<1>2. wanted \in Nat
  BY <1>1 DEF Modes
<1>3. Configure(n, set, c) = Min({n, wanted})
  BY DEF Configure
<1> HIDE DEF wanted
<1> QED
  BY <1>2, <1>3, MinLemma

LEMMA PoolSizeLemma ==
  ASSUME Inv, NEW set \in Nat, set <= MaxWorkers
  PROVE  PoolSize(set) \in 1..MaxWorkers
<1>1. num_workers \in 0..MaxWorkers
  BY DEF Inv, Types, TypeOK
<1> QED
  BY <1>1, MaxWorkersLemma, ConcurrencyAssumption DEF PoolSize, MaxConcurrency

----------------------------------------------------------------------------
(***************************************************************************)
(* The steps preserve the invariant.                                       *)
(***************************************************************************)
LEMMA InitInv == Init => Inv
<1> SUFFICES ASSUME Init PROVE Inv
  OBVIOUS
<1>1. 0 \in 0..MaxWorkers /\ 0 \in 0..MaxLaunches /\ NoTask \in Tasks
  BY MaxWorkersLemma, CallAssumption DEF NoTask, Tasks
<1>2. TypeOK
  <2>1. <<>> \in Seq(Tasks)
    OBVIOUS
  <2>2. exclude_worker0 \in BOOLEAN
    BY ExcludeAssumption DEF Init
  <2>3. /\ queue \in [Workers -> Seq(Tasks)] /\ exit_now \in [Workers -> BOOLEAN]
        /\ wpc \in [Workers -> {"none", "pop", "run", "store", "seterror", "stopped"}]
        /\ task \in [Workers -> Tasks] /\ ran \in [Workers -> Nat]
    BY <1>1, <2>1 DEF Init
  <2>4. par_errors \in [0 .. MaxWorkers -> 0 .. MaxLaunches]
    BY <1>1 DEF Init
  <2>5. /\ num_pending \in -1 .. MaxWorkers /\ par_size \in 0 .. MaxWorkers + 1
        /\ num_workers \in 0 .. MaxWorkers /\ num_workers_used \in 0 .. num_workers
    BY MaxWorkersLemma DEF Init
  <2> QED
    BY <1>1, <2>2, <2>3, <2>4, <2>5 DEF Init, TypeOK
<1>3. Types
  BY <1>2, MaxWorkersLemma DEF Init, Types
<1>4. PlaceInv /\ CountInv /\ PushInv /\ ThreadsInv /\ ReturnedInv
  <2>1. opc = "idle" /\ launch = 0 /\ num_workers = 0
    BY DEF Init
  <2>2. PlaceInv
    BY <2>1 DEF Init, PlaceInv, Pushed, Busy
  <2>3. CountInv /\ PushInv /\ ReturnedInv
    BY <2>1 DEF CountInv, PushInv, ReturnedInv, Busy
  <2>4. ThreadsInv
    BY MaxWorkersLemma DEF Init, ThreadsInv, Workers, FirstWorker
  <2> QED
    BY <2>2, <2>3, <2>4
<1> QED
  BY <1>3, <1>4 DEF Inv

\* New threads and queues.
LEMMA NewWorkersLemma ==
  ASSUME NEW n \in 0..MaxWorkers, NewWorkers(n)
  PROVE  /\ queue' \in [Workers -> Seq(Tasks)] /\ exit_now' \in [Workers -> BOOLEAN]
         /\ wpc' \in [Workers -> {"none", "pop", "run", "store", "seterror", "stopped"}]
         /\ task' \in [Workers -> Tasks]
         /\ \A w \in Workers :
              /\ queue'[w] = <<>> /\ wpc'[w] \in {"none", "pop"} /\ ~exit_now'[w]
              /\ wpc'[w] # "none" <=> FirstWorker <= w /\ w < n
<1>1. NoTask \in Tasks /\ <<>> \in Seq(Tasks)
  BY CallAssumption DEF NoTask, Tasks
<1> QED
  BY <1>1 DEF NewWorkers

\* What every step of the owner between launches leaves of the workers.
LEMMA WorkersReady ==
  ASSUME Inv, opc = "idle", NEW n \in 1..MaxWorkers, num_workers # 0 => n = num_workers,
         IF num_workers = 0 THEN NewWorkers(n) ELSE KeepWorkers
  PROVE  /\ queue' \in [Workers -> Seq(Tasks)] /\ exit_now' \in [Workers -> BOOLEAN]
         /\ wpc' \in [Workers -> {"none", "pop", "run", "store", "seterror", "stopped"}]
         /\ task' \in [Workers -> Tasks]
         /\ \A w \in Workers :
              /\ queue'[w] = <<>> /\ wpc'[w] # "run" /\ ~exit_now'[w]
              /\ wpc'[w] # "none" => FirstWorker <= w /\ w < n
              /\ FirstWorker <= w /\ w < n => wpc'[w] \notin {"none", "stopped"}
<1>1. CASE num_workers = 0
  <2>1. n \in 0..MaxWorkers /\ NewWorkers(n)
    BY <1>1
  <2> QED
    BY <2>1, NewWorkersLemma
<1>2. CASE num_workers # 0
  <2>1. queue' = queue /\ exit_now' = exit_now /\ wpc' = wpc /\ task' = task /\ n = num_workers
    BY <1>2 DEF KeepWorkers, queueVars, workerVars
  <2>2. TypeOK /\ PlaceInv /\ ThreadsInv
    BY DEF Inv, Types
  <2>3. \A w \in Workers : queue[w] = <<>> /\ wpc[w] # "run"
    BY <2>2 DEF PlaceInv, Pushed
  <2>4. \A w \in Workers :
          /\ ~exit_now[w]
          /\ wpc[w] # "none" => FirstWorker <= w /\ w < num_workers
          /\ FirstWorker <= w /\ w < num_workers => wpc[w] \notin {"none", "stopped"}
    BY <2>2 DEF ThreadsInv
  <2>5. /\ queue \in [Workers -> Seq(Tasks)] /\ exit_now \in [Workers -> BOOLEAN]
        /\ wpc \in [Workers -> {"none", "pop", "run", "store", "seterror", "stopped"}]
        /\ task \in [Workers -> Tasks]
    BY <2>2 DEF TypeOK
  <2> QED
    BY <2>1, <2>3, <2>4, <2>5
<1> QED
  BY <1>1, <1>2

LEMMA ConfigInv ==
  ASSUME Inv, NEW c \in Configs, ConfigThreadpool(c)
  PROVE  Inv'
<1> DEFINE n == PoolSize(c.cpus)
<1>1. /\ opc = "idle" /\ max_concurrency' = c.cpus /\ num_workers' = n
      /\ num_workers_used' = UpdateWorkerConfiguration(n, c)
      /\ IF num_workers = 0 THEN NewWorkers(n) ELSE KeepWorkers
      /\ UNCHANGED <<exclude_worker0, opc, next, task_id, result, num_task, num_pending,
                     has_error, par_errors, par_size, sync_size, launch, tasks, ran, failed>>
  BY DEF ConfigThreadpool, ownerVars, launcherVars, historyVars
<1>2. c.mode \in Modes /\ c.nthreads \in Nat /\ c.cpus \in Nat /\ c.cpus <= MaxWorkers
  BY CallAssumption, MaxWorkersLemma
<1>3. n \in 1..MaxWorkers /\ (num_workers # 0 => n = num_workers)
  BY <1>2, PoolSizeLemma DEF PoolSize
<1> HIDE DEF n
<1>4. num_workers_used' \in 0..n
  <2>1. Configure(n, c.cpus, c) \in 0..n
    BY <1>2, <1>3, ConfigureLemma
  <2>2. num_workers_used' = Min({n, Configure(n, c.cpus, c)})
    BY <1>1 DEF UpdateWorkerConfiguration
  <2>3. n \in Nat /\ Configure(n, c.cpus, c) \in Nat
    BY <1>3, <2>1
  <2> QED
    BY <2>2, <2>3, MinLemma
<1>5. /\ queue' \in [Workers -> Seq(Tasks)] /\ exit_now' \in [Workers -> BOOLEAN]
      /\ wpc' \in [Workers -> {"none", "pop", "run", "store", "seterror", "stopped"}]
      /\ task' \in [Workers -> Tasks]
      /\ \A w \in Workers :
           /\ queue'[w] = <<>> /\ wpc'[w] # "run" /\ ~exit_now'[w]
           /\ wpc'[w] # "none" => FirstWorker <= w /\ w < n
           /\ FirstWorker <= w /\ w < n => wpc'[w] \notin {"none", "stopped"}
  BY <1>1, <1>3, WorkersReady
<1>6. TypeOK /\ ReturnedInv
  BY DEF Inv, Types
<1>7. Types'
  <2>1. num_workers' \in 0..MaxWorkers
    BY <1>1, <1>3, MaxWorkersLemma
  <2>2. TypeOK'
    BY <1>1, <1>2, <1>4, <1>5, <1>6, <2>1 DEF TypeOK
  <2> QED
    BY <1>1, <1>2, <2>2 DEF Types
<1>8. PlaceInv' /\ ThreadsInv'
  BY <1>1, <1>5 DEF PlaceInv, ThreadsInv, Pushed, Busy, FirstWorker
<1>9. CountInv' /\ PushInv' /\ ReturnedInv'
  BY <1>1, <1>6 DEF CountInv, PushInv, ReturnedInv, Busy
<1> QED
  BY <1>7, <1>8, <1>9 DEF Inv

LEMMA LaunchInlineInv ==
  ASSUME Inv, LaunchInline
  PROVE  Inv'
<1>1. /\ opc = "idle" /\ launch < MaxLaunches /\ launch' = launch + 1 /\ tasks' = 1
      /\ ran' = [i \in Workers |-> IF i = 0 THEN 1 ELSE 0]
      /\ failed' \in {{}, {0}} /\ result' = 0
      /\ UNCHANGED <<opc, next, task_id, max_concurrency, num_workers, num_workers_used,
                     exclude_worker0, queue, exit_now, wpc, task, num_task, num_pending,
                     has_error, par_errors, par_size, sync_size>>
  BY DEF LaunchInline, StartHistory, poolVars, queueVars, workerVars, launcherVars
<1>2. Types /\ PlaceInv /\ ThreadsInv
  BY DEF Inv
<1>3. Types'
  <2>1. launch' \in 0..MaxLaunches /\ 0 \in Workers
    BY <1>1, <1>2, CallAssumption, MaxWorkersLemma DEF Types, TypeOK, Workers
  <2>2. ran' \in [Workers -> Nat] /\ failed' \subseteq Workers /\ tasks' \in Nat
    BY <1>1, <2>1
  <2> QED
    BY <1>1, <1>2, <2>1, <2>2 DEF Types, TypeOK
<1>4. PlaceInv' /\ ThreadsInv'
  BY <1>1, <1>2 DEF PlaceInv, ThreadsInv, Pushed, Busy, FirstWorker
<1>5. CountInv' /\ PushInv'
  BY <1>1 DEF CountInv, PushInv, Busy
<1>6. ReturnedInv'
  BY <1>1, MaxWorkersLemma DEF ReturnedInv, Workers
<1> QED
  BY <1>3, <1>4, <1>5, <1>6 DEF Inv

LEMMA LaunchInv ==
  ASSUME Inv, NEW n \in TaskCounts, Launch(n)
  PROVE  Inv'
<1> DEFINE size == PoolSize(max_concurrency)
           used == IF num_workers = 0
                     THEN Configure(size, max_concurrency, DefaultConfig)
                     ELSE num_workers_used
           count == IF n = 0 THEN used ELSE n
<1>1. /\ opc = "idle" /\ launch < MaxLaunches
      /\ num_workers' = size /\ num_workers_used' = used
      /\ IF num_workers = 0 THEN NewWorkers(size) ELSE KeepWorkers
      /\ launch' = launch + 1 /\ tasks' = count
      /\ ran' = [i \in Workers |-> 0] /\ failed' = {}
      /\ UNCHANGED <<next, max_concurrency, exclude_worker0, has_error, par_errors,
                     par_size, sync_size>>
  BY DEF Launch, StartHistory
<1>2. \/ /\ count > used /\ result' = Thrown
         /\ UNCHANGED <<opc, num_pending, num_task, task_id>>
      \/ /\ ~ (count > used) /\ opc' = "flag" /\ num_pending' = count /\ num_task' = count
         /\ task_id' = NoId /\ UNCHANGED result
  BY DEF Launch
<1>3. Types
  BY DEF Inv
<1>4. size \in 1..MaxWorkers /\ (num_workers # 0 => size = num_workers)
  <2>1. max_concurrency \in Nat /\ max_concurrency <= MaxWorkers
    BY <1>3 DEF Types, TypeOK
  <2> QED
    BY <2>1, PoolSizeLemma DEF PoolSize
<1> HIDE DEF size
<1>5. used \in 0..size
  <2>1. CASE num_workers = 0
    <3>1. /\ DefaultConfig.mode \in Modes /\ DefaultConfig.nthreads \in Nat
          /\ DefaultConfig.cpus \in Nat
      BY DEF DefaultConfig, Modes
    <3>2. max_concurrency \in Nat /\ size \in Nat
      BY <1>3, <1>4 DEF Types, TypeOK
    <3> QED
      BY <2>1, <3>1, <3>2, ConfigureLemma
  <2>2. CASE num_workers # 0
    BY <1>3, <1>4, <2>2 DEF Types, TypeOK
  <2> QED
    BY <2>1, <2>2
<1> HIDE DEF used
<1>6. count \in Nat
  BY <1>4, <1>5, CallAssumption
<1> HIDE DEF count
<1>7. /\ queue' \in [Workers -> Seq(Tasks)] /\ exit_now' \in [Workers -> BOOLEAN]
      /\ wpc' \in [Workers -> {"none", "pop", "run", "store", "seterror", "stopped"}]
      /\ task' \in [Workers -> Tasks]
      /\ \A w \in Workers :
           /\ queue'[w] = <<>> /\ wpc'[w] # "run" /\ ~exit_now'[w]
           /\ wpc'[w] # "none" => FirstWorker <= w /\ w < size
           /\ FirstWorker <= w /\ w < size => wpc'[w] \notin {"none", "stopped"}
  BY <1>1, <1>4, WorkersReady
<1>8. opc' \in {"idle", "flag"}
  BY <1>1, <1>2
<1>9. Types'
  <2>1. launch' \in 0..MaxLaunches /\ num_workers' \in 0..MaxWorkers
    BY <1>1, <1>3, <1>4, CallAssumption, MaxWorkersLemma DEF Types, TypeOK
  <2>2. ran' \in [Workers -> Nat] /\ failed' \subseteq Workers /\ tasks' \in Nat
    BY <1>1, <1>6
  <2>3. num_task' \in 0..MaxWorkers /\ num_pending' \in -1..MaxWorkers
    BY <1>2, <1>3, <1>4, <1>5, <1>6, MaxWorkersLemma DEF Types, TypeOK
  <2>4. task_id' \in {NoId} \cup Workers /\ result' \in {0, -1, Thrown}
    BY <1>2, <1>3 DEF Types, TypeOK
  <2>5. num_workers_used' \in 0..num_workers'
    BY <1>1, <1>5
  <2>6. TypeOK'
    BY <1>1, <1>3, <1>7, <1>8, <2>1, <2>2, <2>3, <2>4, <2>5 DEF Types, TypeOK
  <2> QED
    BY <1>1, <1>3, <2>6 DEF Types
<1>10. ThreadsInv'
  BY <1>1, <1>7 DEF ThreadsInv, FirstWorker
<1>11. PlaceInv'
  BY <1>1, <1>7, <1>8 DEF PlaceInv, Pushed, MainRan
<1>12. PushInv'
  BY <1>1, <1>2, <1>8 DEF PushInv
<1>13. CountInv'
  <2> SUFFICES ASSUME opc' = "flag" PROVE CountInv'
    BY <1>8 DEF CountInv, Busy
  <2>1. num_task' = count /\ num_pending' = count /\ count <= used
    BY <1>1, <1>2, <1>4, <1>5, <1>6
  <2>2. count <= MaxWorkers
    BY <1>4, <1>5, <1>6, <2>1, MaxWorkersLemma
  <2>3. \A i \in 0..(count - 1) : ran'[i] = 0
    BY <1>1, <1>6, <2>2, MaxWorkersLemma DEF Workers
  <2>4. Unfinished' = 0..(count - 1)
    BY <2>1, <2>3 DEF Unfinished
  <2>5. Cardinality(0..(count - 1)) = count
    BY <1>6, FS_Interval
  <2>6. ~MainRan'
    BY DEF MainRan
  <2>7. num_pending' = Cardinality(Unfinished') - 0
    BY <1>6, <2>1, <2>4, <2>5
  <2> QED
    BY <1>1, <1>4, <2>1, <2>6, <2>7 DEF CountInv
<1>14. ReturnedInv'
  BY <1>1, <1>2 DEF ReturnedInv, Thrown
<1> QED
  BY <1>9, <1>10, <1>11, <1>12, <1>13, <1>14 DEF Inv

\* The parts of ParallelLauncher::Init after num_pending_ is stored.
LEMMA InitStepsInv ==
  ASSUME Inv, InitFlag \/ InitReshape
  PROVE  Inv'
<1>1. Types /\ PlaceInv /\ CountInv /\ PushInv /\ ThreadsInv
  BY DEF Inv
<1>2. /\ opc \in {"flag", "reshape"} /\ opc' \in {"reshape", "push", "crashed"}
      /\ opc' = "push" => next' = FirstWorker
      /\ next' \in {next, FirstWorker} /\ has_error' \in {has_error, FALSE}
      /\ \/ par_size' = par_size /\ sync_size' = sync_size
         \/ par_size' = num_task + 1 /\ sync_size' = num_task
      /\ UNCHANGED <<task_id, result, max_concurrency, num_workers, num_workers_used,
                     exclude_worker0, queue, exit_now, wpc, task, launch, tasks, ran, failed,
                     num_task, num_pending, par_errors>>
  BY DEF InitFlag, InitReshape, poolVars, queueVars, workerVars, historyVars
<1>3. Types'
  <2>1. FirstWorker \in 0..MaxWorkers /\ num_task + 1 \in 0..MaxWorkers + 1
    BY <1>1, MaxWorkersLemma DEF FirstWorker, Types, TypeOK
  <2>2. next' \in 0..MaxWorkers /\ par_size' \in 0..MaxWorkers + 1 /\ sync_size' \in 0..MaxWorkers
    BY <1>1, <1>2, <2>1 DEF Types, TypeOK
  <2> QED
    BY <1>1, <1>2, <2>2 DEF Types, TypeOK
<1>4. PlaceInv'
  <2>1. \A w \in Workers : ~Pushed(w) /\ ~Pushed(w)'
    <3>1. FirstWorker' = FirstWorker /\ FirstWorker \in Int
      BY <1>2 DEF FirstWorker
    <3>2. \A w \in Workers : w \in Int
      BY MaxWorkersLemma DEF Workers
    <3> QED
      BY <1>2, <3>1, <3>2 DEF Pushed
  <2>2. Busy /\ ~MainRan /\ ~MainRan'
    BY <1>2 DEF Busy, MainRan
  <2> QED
    BY <1>1, <1>2, <2>1, <2>2 DEF PlaceInv
<1>5. CountInv'
  BY <1>1, <1>2 DEF CountInv, Busy, MainRan, Unfinished
<1>6. PushInv'
  BY <1>1, <1>2 DEF PushInv, FirstWorker
<1>7. ThreadsInv' /\ ReturnedInv'
  BY <1>1, <1>2 DEF ThreadsInv, FirstWorker, ReturnedInv
<1> QED
  BY <1>3, <1>4, <1>5, <1>6, <1>7 DEF Inv

LEMMA PushTaskInv ==
  ASSUME Inv, PushTask
  PROVE  Inv'
<1> DEFINE t == TaskOf(next)
<1>1. Types /\ PlaceInv /\ CountInv /\ PushInv /\ ThreadsInv
  BY DEF Inv
<1>2. /\ opc = "push" /\ opc' = "push" /\ next < num_task /\ task_id' = next /\ next' = next + 1
      /\ queue' = [queue EXCEPT ![next] = Append(queue[next], t)]
      /\ UNCHANGED <<result, max_concurrency, num_workers, num_workers_used,
                     exclude_worker0, exit_now, wpc, task, launch, tasks, ran, failed,
                     num_task, num_pending, has_error, par_errors, par_size, sync_size>>
  BY DEF PushTask, TaskOf, poolVars, launcherVars, workerVars, historyVars
<1>3. /\ next \in Workers /\ next \in Nat /\ next + 1 \in 0..MaxWorkers /\ FirstWorker <= next
      /\ num_task \in Nat
  <2>1. next \in 0..MaxWorkers /\ num_task \in 0..MaxWorkers /\ FirstWorker <= next
    BY <1>1, <1>2 DEF Types, TypeOK, PushInv
  <2> QED
    BY <1>2, <2>1, MaxWorkersLemma DEF Workers
<1>4. \A w \in Workers : w \in Int
  BY MaxWorkersLemma DEF Workers
<1>5. FirstWorker' = FirstWorker /\ FirstWorker \in Int
  BY <1>2 DEF FirstWorker
<1>6. ~Pushed(next) /\ \A w \in Workers : Pushed(w)' <=> Pushed(w) \/ w = next
  BY <1>2, <1>3, <1>4, <1>5 DEF Pushed
<1>7. queue[next] = <<>> /\ wpc[next] # "run" /\ ran[next] = 0
  BY <1>1, <1>2, <1>3, <1>6 DEF PlaceInv, Busy, MainRan
<1>8. t \in Tasks
  BY <1>1, <1>3 DEF TaskOf, Tasks, Types, TypeOK
<1> HIDE DEF t
<1>9. Append(queue[next], t) = <<t>> /\ <<t>> \in Seq(Tasks)
  BY <1>7, <1>8
<1>10. queue \in [Workers -> Seq(Tasks)]
  BY <1>1 DEF Types, TypeOK
<1>11. Types'
  <2>1. queue' \in [Workers -> Seq(Tasks)]
    BY <1>2, <1>9, <1>10
  <2> QED
    BY <1>1, <1>2, <1>3, <2>1 DEF Types, TypeOK
<1>12. PlaceInv'
  <2>1. \A w \in Workers : queue'[w] = IF w = next THEN <<t>> ELSE queue[w]
    BY <1>2, <1>9, <1>10
  <2>2. \A w \in Workers : TaskOf(w)' = TaskOf(w)
    BY <1>2 DEF TaskOf
  <2>3. Busy /\ ~MainRan /\ ~MainRan'
    BY <1>2 DEF Busy, MainRan
  <2> QED
    BY <1>1, <1>2, <1>3, <1>6, <1>7, <2>1, <2>2, <2>3 DEF PlaceInv, t
<1>13. CountInv'
  BY <1>1, <1>2 DEF CountInv, Busy, MainRan, Unfinished
<1>14. PushInv'
  <2>1. next + 1 <= num_task /\ FirstWorker <= next + 1 /\ next # NoId
    BY <1>2, <1>3, <1>5 DEF NoId
  <2> QED
    BY <1>2, <1>5, <2>1 DEF PushInv
<1>15. ThreadsInv' /\ ReturnedInv'
  BY <1>1, <1>2 DEF ThreadsInv, FirstWorker, ReturnedInv
<1> QED
  BY <1>11, <1>12, <1>13, <1>14, <1>15 DEF Inv

LEMMA PushDoneInv ==
  ASSUME Inv, PushDone
  PROVE  Inv'
<1>1. Types /\ PlaceInv /\ CountInv /\ PushInv /\ ThreadsInv
  BY DEF Inv
<1>2. /\ opc = "push" /\ next >= num_task
      /\ opc' = IF exclude_worker0 THEN "main" ELSE "wait"
      /\ UNCHANGED <<next, task_id, result, max_concurrency, num_workers, num_workers_used,
                     exclude_worker0, queue, exit_now, wpc, task, launch, tasks, ran, failed,
                     num_task, num_pending, has_error, par_errors, par_size, sync_size>>
  BY DEF PushDone, poolVars, queueVars, launcherVars, workerVars, historyVars
<1>3. /\ next \in Int /\ num_task \in Int /\ FirstWorker \in Int /\ FirstWorker' = FirstWorker
      /\ \A w \in Workers : w \in Int
  BY <1>1, <1>2, MaxWorkersLemma DEF Types, TypeOK, FirstWorker, Workers
<1>4. next = num_task \/ next = FirstWorker
  BY <1>1, <1>2, <1>3 DEF PushInv
<1>5. \A w \in Workers : Pushed(w)' <=> Pushed(w)
  BY <1>2, <1>3, <1>4 DEF Pushed
<1>6. ~MainRan /\ ~MainRan' /\ Busy /\ Busy'
  BY <1>2 DEF MainRan, Busy
<1>7. Types'
  BY <1>1, <1>2 DEF Types, TypeOK
<1>8. PlaceInv'
  <2>1. \A w \in Workers : TaskOf(w)' = TaskOf(w)
    BY <1>2 DEF TaskOf
  <2> QED
    BY <1>1, <1>2, <1>5, <1>6, <2>1 DEF PlaceInv
<1>9. CountInv'
  BY <1>1, <1>2, <1>6 DEF CountInv, Unfinished
<1>10. PushInv'
  <2> SUFFICES ASSUME exclude_worker0 PROVE PushInv'
    BY <1>2 DEF PushInv
  <2>1. FirstWorker = 1
    BY DEF FirstWorker
  <2>2. task_id = NoId => num_task <= 1
    BY <1>1, <1>2, <1>3, <2>1 DEF PushInv
  <2> QED
    BY <1>2, <2>2 DEF PushInv
<1>11. ThreadsInv' /\ ReturnedInv'
  BY <1>1, <1>2 DEF ThreadsInv, FirstWorker, ReturnedInv
<1> QED
  BY <1>7, <1>8, <1>9, <1>10, <1>11 DEF Inv

\* A task that has been run is one less that is unfinished.
LEMMA OneLess ==
  ASSUME Inv, NEW i \in Workers, ran[i] = 0, num_task' = num_task,
         ran' = [ran EXCEPT ![i] = @ + 1]
  PROVE  /\ Unfinished' = Unfinished \ {i} /\ IsFiniteSet(Unfinished)
         /\ Cardinality(Unfinished) \in Nat
         /\ Cardinality(Unfinished') =
              IF i < num_task THEN Cardinality(Unfinished) - 1 ELSE Cardinality(Unfinished)
         /\ \A w \in Workers : ran'[w] = IF w = i THEN 1 ELSE ran[w]
<1>1. num_task \in 0..MaxWorkers /\ ran \in [Workers -> Nat] /\ i \in 0..MaxWorkers - 1
  BY DEF Inv, Types, TypeOK, Workers
<1>2. 0..(num_task - 1) \subseteq Workers
  BY <1>1, MaxWorkersLemma DEF Workers
<1>3. \A w \in Workers : ran'[w] = IF w = i THEN 1 ELSE ran[w]
  BY <1>1
<1>4. Unfinished' = Unfinished \ {i}
  BY <1>2, <1>3 DEF Unfinished
<1>5. IsFiniteSet(Unfinished) /\ Cardinality(Unfinished) \in Nat
  <2>1. IsFiniteSet(0..(num_task - 1))
    BY <1>1, MaxWorkersLemma, FS_Interval
  <2>2. Unfinished \in SUBSET (0..(num_task - 1))
    BY DEF Unfinished
  <2> QED
    BY <2>1, <2>2, FS_Subset, FS_CardinalityType
<1>6. i \in Unfinished <=> i < num_task
  BY <1>1, MaxWorkersLemma DEF Unfinished
<1> QED
  BY <1>3, <1>4, <1>5, <1>6, FS_RemoveElement

LEMMA RunMainInv ==
  ASSUME Inv, RunMain
  PROVE  Inv'
<1>1. Types /\ PlaceInv /\ CountInv /\ PushInv /\ ThreadsInv
  BY DEF Inv
<1>2. /\ opc = "main" /\ ran' = [ran EXCEPT ![0] = @ + 1] /\ num_pending' = num_pending - 1
      /\ opc' = "wait" \/ (opc' = "crashed" /\ task_id = NoId)
      /\ failed' \in {failed, failed \cup {0}} /\ has_error' \in {has_error, TRUE}
      /\ UNCHANGED <<next, task_id, result, max_concurrency, num_workers, num_workers_used,
                     exclude_worker0, queue, exit_now, wpc, task, launch, tasks,
                     num_task, par_size, sync_size>>
  <2>1. /\ opc = "main" /\ ran' = [ran EXCEPT ![0] = @ + 1] /\ num_pending' = num_pending - 1
        /\ UNCHANGED <<next, task_id, result, max_concurrency, num_workers, num_workers_used,
                       exclude_worker0, queue, exit_now, wpc, task, launch, tasks,
                       num_task, par_size, sync_size>>
    BY DEF RunMain, poolVars, queueVars, workerVars
  <2>2. PICK r \in Outcomes(0) :
          IF r = 0
            THEN /\ opc' = "wait"
                 /\ UNCHANGED <<has_error, par_errors, failed>>
            ELSE /\ failed' = failed \cup {0}
                 /\ has_error' = TRUE
                 /\ \/ \E i \in 0 .. par_size - 1 :
                          /\ task_id \in {i, NoId}
                          /\ par_errors' = [par_errors EXCEPT ![i] = launch]
                          /\ opc' = "wait"
                    \/ /\ task_id = NoId
                       /\ opc' = "crashed"
                       /\ UNCHANGED par_errors
    BY DEF RunMain
  <2>3. opc' = "wait" \/ (opc' = "crashed" /\ task_id = NoId)
    BY <2>2, Zenon
  <2>4. failed' \in {failed, failed \cup {0}} /\ has_error' \in {has_error, TRUE}
    BY <2>2, Zenon
  <2> QED
    BY <2>1, <2>3, <2>4, Zenon
<1>3. /\ 0 \in Workers /\ num_task \in 0..MaxWorkers /\ exclude_worker0 /\ FirstWorker = 1
      /\ \A w \in Workers : w \in Nat
  BY <1>1, <1>2, MaxWorkersLemma DEF Workers, Types, TypeOK, PushInv, FirstWorker
<1>4. FirstWorker' = 1
  BY <1>2, <1>3 DEF FirstWorker
<1>5. ~Pushed(0) /\ ran[0] = 0
  BY <1>1, <1>2, <1>3 DEF Pushed, PlaceInv, Busy, MainRan
<1>6. /\ Cardinality(Unfinished) \in Nat
      /\ Cardinality(Unfinished') =
           IF 0 < num_task THEN Cardinality(Unfinished) - 1 ELSE Cardinality(Unfinished)
      /\ \A w \in Workers : ran'[w] = IF w = 0 THEN 1 ELSE ran[w]
  BY <1>2, <1>3, <1>5, OneLess
<1>7. num_pending = Cardinality(Unfinished) /\ num_task <= num_workers_used
  BY <1>1, <1>2, <1>6 DEF CountInv, Busy, MainRan
<1>8. Cardinality(Unfinished) <= num_task
  <2>1. Unfinished \in SUBSET (0..(num_task - 1))
    BY DEF Unfinished
  <2>2. IsFiniteSet(0..(num_task - 1)) /\ Cardinality(0..(num_task - 1)) = num_task
    <3>1. num_task \in Nat /\ num_task - 1 \in Int /\ 0 \in Int
      BY <1>3, MaxWorkersLemma
    <3>2. /\ IsFiniteSet(0..(num_task - 1))
          /\ Cardinality(0..(num_task - 1)) =
               IF 0 > num_task - 1 THEN 0 ELSE num_task - 1 - 0 + 1
      BY <3>1, FS_Interval
    <3> QED
      BY <3>1, <3>2
  <2> QED
    BY <2>1, <2>2, FS_Subset
<1>9. par_errors' \in [0..MaxWorkers -> 0..MaxLaunches]
  <2>1. launch \in 0..MaxLaunches /\ par_errors \in [0..MaxWorkers -> 0..MaxLaunches]
    BY <1>1 DEF Types, TypeOK
  <2>2. \/ par_errors' = par_errors
        \/ \E i \in 0..par_size - 1 : par_errors' = [par_errors EXCEPT ![i] = launch]
    BY DEF RunMain
  <2> QED
    BY <2>1, <2>2
<1>10. Types'
  <2>1. num_pending' \in -1..MaxWorkers
    BY <1>2, <1>3, <1>6, <1>7, <1>8, MaxWorkersLemma
  <2>2. ran' \in [Workers -> Nat]
    <3>1. ran \in [Workers -> Nat] /\ ran[0] + 1 \in Nat
      BY <1>1, <1>3 DEF Types, TypeOK
    <3> QED
      BY <1>2, <3>1
  <2> QED
    BY <1>1, <1>2, <1>3, <1>9, <2>1, <2>2 DEF Types, TypeOK
<1>11. PlaceInv'
  <2>1. \A w \in Workers : TaskOf(w)' = TaskOf(w)
    BY <1>2 DEF TaskOf
  <2>2. Busy /\ ~MainRan /\ ~Pushed(0)'
    BY <1>2, <1>3, <1>4 DEF MainRan, Busy, Pushed
  <2>3. CASE opc' = "wait"
    <3>1. \A w \in Workers : Pushed(w)' <=> Pushed(w)
      BY <1>2, <1>3, <1>4, <2>3 DEF Pushed
    <3>2. MainRan'
      BY <1>2, <1>3, <2>3 DEF MainRan
    <3> QED
      BY <1>1, <1>2, <1>3, <1>5, <1>6, <2>1, <2>2, <3>1, <3>2 DEF PlaceInv
  <2>4. CASE opc' = "crashed" /\ task_id = NoId
    <3>1. num_task <= 1
      BY <1>1, <1>2, <2>4 DEF PushInv
    <3>2. \A w \in Workers : ~Pushed(w) /\ ~Pushed(w)'
      BY <1>2, <1>3, <2>4, <3>1 DEF Pushed
    <3>3. ~Busy'
      BY <2>4 DEF Busy
    <3> QED
      BY <1>1, <1>2, <3>2, <3>3 DEF PlaceInv
  <2> QED
    BY <1>2, <2>3, <2>4
<1>12. CountInv'
  <2> SUFFICES ASSUME opc' = "wait" PROVE CountInv'
    BY <1>2 DEF CountInv, Busy
  <2>1. MainRan'
    BY <1>2, <1>3 DEF MainRan
  <2>2. num_pending' =
          Cardinality(Unfinished') - (IF num_task' = 0 THEN 1 ELSE 0)
    BY <1>2, <1>3, <1>6, <1>7
  <2> QED
    BY <1>1, <1>2, <2>1, <2>2 DEF CountInv, Busy
<1>13. PushInv' /\ ReturnedInv' /\ ThreadsInv'
  BY <1>1, <1>2 DEF PushInv, ReturnedInv, ThreadsInv, FirstWorker
<1> QED
  BY <1>10, <1>11, <1>12, <1>13 DEF Inv

\* When num_pending_ is 0 every task of the launch has been run, and nothing of
\* it is left.
LEMMA AllRan ==
  ASSUME Inv, opc = "wait", num_pending = 0
  PROVE  \A w \in Workers : /\ ran[w] = IF w < num_task THEN 1 ELSE 0
                            /\ queue[w] = <<>> /\ wpc[w] # "run"
<1>1. Types /\ PlaceInv /\ CountInv
  BY DEF Inv
<1>2. num_task \in 0..MaxWorkers /\ \A w \in Workers : w \in Nat
  BY <1>1, MaxWorkersLemma DEF Workers, Types, TypeOK
<1>3. IsFiniteSet(Unfinished) /\ Cardinality(Unfinished) \in Nat
  <2>1. IsFiniteSet(0..(num_task - 1))
    BY <1>2, MaxWorkersLemma, FS_Interval
  <2>2. Unfinished \in SUBSET (0..(num_task - 1))
    BY DEF Unfinished
  <2> QED
    BY <2>1, <2>2, FS_Subset, FS_CardinalityType
<1>4. 0 = Cardinality(Unfinished) - (IF MainRan /\ num_task = 0 THEN 1 ELSE 0)
  BY <1>1 DEF CountInv, Busy
<1>5. ~ (MainRan /\ num_task = 0)
  <2> SUFFICES ASSUME MainRan, num_task = 0 PROVE FALSE
    OBVIOUS
  <2>1. Unfinished = {}
    BY DEF Unfinished
  <2>2. Cardinality(Unfinished) = 0
    BY <2>1, FS_EmptySet
  <2> QED
    BY <1>4, <2>2
<1>6. Unfinished = {}
  <2>1. Cardinality(Unfinished) = 0
    BY <1>3, <1>4, <1>5
  <2> QED
    BY <1>3, <2>1, FS_EmptySet
<1>7. \A w \in Workers : w < num_task => ran[w] # 0
  BY <1>2, <1>6, MaxWorkersLemma DEF Unfinished
<1> SUFFICES ASSUME NEW w \in Workers
             PROVE  /\ ran[w] = IF w < num_task THEN 1 ELSE 0
                    /\ queue[w] = <<>> /\ wpc[w] # "run"
  OBVIOUS
<1>8. CASE Pushed(w)
  <2>1. w < num_task
    BY <1>8 DEF Pushed
  <2> QED
    BY <1>1, <1>7, <1>8, <2>1 DEF PlaceInv
<1>9. CASE ~Pushed(w)
  <2>1. /\ queue[w] = <<>> /\ wpc[w] # "run"
        /\ ran[w] = IF MainRan /\ w = 0 THEN 1 ELSE 0
    BY <1>1, <1>9 DEF PlaceInv, Busy
  <2>2. CASE w < num_task
    BY <1>7, <2>1, <2>2
  <2>3. CASE ~ (w < num_task)
    <3>1. ~ (MainRan /\ w = 0)
      BY <1>2, <1>5, <2>3
    <3> QED
      BY <2>1, <2>3, <3>1
  <2> QED
    BY <2>2, <2>3
<1> QED
  BY <1>8, <1>9

LEMMA WaitForJobsInv ==
  ASSUME Inv, WaitForJobs
  PROVE  Inv'
<1>1. Types /\ PlaceInv /\ CountInv /\ ThreadsInv
  BY DEF Inv
<1>2. /\ opc = "wait" /\ num_pending = 0 /\ opc' = "idle" /\ result' \in {0, -1}
      /\ par_errors' \in {par_errors, [i \in 0 .. MaxWorkers |-> 0]}
      /\ UNCHANGED <<next, task_id, max_concurrency, num_workers, num_workers_used,
                     exclude_worker0, queue, exit_now, wpc, task, launch, tasks, ran, failed,
                     num_task, num_pending, has_error, par_size, sync_size>>
  BY DEF WaitForJobs, poolVars, queueVars, workerVars
<1>3. \A w \in Workers : /\ ran[w] = IF w < num_task THEN 1 ELSE 0
                         /\ queue[w] = <<>> /\ wpc[w] # "run"
  BY <1>2, AllRan
<1>4. tasks = num_task
  BY <1>1, <1>2 DEF CountInv, Busy
<1>5. Types'
  <2>1. 0 \in 0..MaxLaunches
    BY CallAssumption
  <2>2. par_errors' \in [0 .. MaxWorkers -> 0 .. MaxLaunches]
    BY <1>1, <1>2, <2>1 DEF Types, TypeOK
  <2> QED
    BY <1>1, <1>2, <2>2 DEF Types, TypeOK
<1>6. PlaceInv' /\ CountInv' /\ PushInv'
  BY <1>2, <1>3 DEF PlaceInv, Pushed, Busy, CountInv, PushInv
<1>7. ThreadsInv'
  BY <1>1, <1>2 DEF ThreadsInv, FirstWorker
<1>8. ReturnedInv'
  BY <1>2, <1>3, <1>4 DEF ReturnedInv
<1> QED
  BY <1>5, <1>6, <1>7, <1>8 DEF Inv

\* The pool is stopped, and started again.
LEMMA StopInv ==
  ASSUME Inv, StopCall \/ SignalForKill \/ DestroyDone
  PROVE  Inv'
<1>1. Types /\ PlaceInv /\ ThreadsInv /\ ReturnedInv
  BY DEF Inv
<1>2. /\ opc \in {"idle", "reset", "destroy"} /\ opc' \in {"reset", "destroy", "destroyed"}
      /\ \/ next' = next /\ exit_now' = exit_now
         \/ next' = 0 /\ exit_now' = exit_now
         \/ /\ next < num_workers /\ next' = next + 1
            /\ exit_now' = [exit_now EXCEPT ![next] = TRUE]
      /\ UNCHANGED <<task_id, result, max_concurrency, num_workers, num_workers_used,
                     exclude_worker0, queue, wpc, task, launch, tasks, ran, failed,
                     num_task, num_pending, has_error, par_errors, par_size, sync_size>>
  BY DEF StopCall, SignalForKill, DestroyDone, poolVars, queueVars, launcherVars,
         workerVars, historyVars
<1>3. Types'
  <2>1. next' \in 0..MaxWorkers
    BY <1>1, <1>2, MaxWorkersLemma DEF Types, TypeOK
  <2>2. exit_now' \in [Workers -> BOOLEAN]
    BY <1>1, <1>2 DEF Types, TypeOK
  <2> QED
    BY <1>1, <1>2, <2>1, <2>2 DEF Types, TypeOK
<1>4. PlaceInv'
  BY <1>1, <1>2 DEF PlaceInv, Pushed, Busy
<1>5. CountInv' /\ PushInv'
  BY <1>2 DEF CountInv, PushInv, Busy
<1>6. ThreadsInv'
  BY <1>1, <1>2 DEF ThreadsInv, FirstWorker
<1>7. ReturnedInv'
  BY <1>1, <1>2 DEF ReturnedInv
<1> QED
  BY <1>3, <1>4, <1>5, <1>6, <1>7 DEF Inv

LEMMA ResetDoneInv ==
  ASSUME Inv, ResetDone
  PROVE  Inv'
<1>1. Types /\ ReturnedInv
  BY DEF Inv
<1>2. /\ opc = "reset" /\ opc' = "idle" /\ NewWorkers(num_workers)
      /\ num_workers_used' = Configure(num_workers, max_concurrency, DefaultConfig)
      /\ UNCHANGED <<next, task_id, result, max_concurrency, num_workers, exclude_worker0,
                     launch, tasks, ran, failed, num_task, num_pending, has_error,
                     par_errors, par_size, sync_size>>
  BY DEF ResetDone, launcherVars, historyVars
<1>3. /\ num_workers \in 0..MaxWorkers /\ num_workers \in Nat /\ max_concurrency \in Nat
  BY <1>1, MaxWorkersLemma DEF Types, TypeOK
<1>4. num_workers_used' \in 0..num_workers
  <2>1. /\ DefaultConfig.mode \in Modes /\ DefaultConfig.nthreads \in Nat
        /\ DefaultConfig.cpus \in Nat
    BY DEF DefaultConfig, Modes
  <2> QED
    BY <1>2, <1>3, <2>1, ConfigureLemma
<1>5. /\ queue' \in [Workers -> Seq(Tasks)] /\ exit_now' \in [Workers -> BOOLEAN]
      /\ wpc' \in [Workers -> {"none", "pop", "run", "store", "seterror", "stopped"}]
      /\ task' \in [Workers -> Tasks]
      /\ \A w \in Workers :
           /\ queue'[w] = <<>> /\ wpc'[w] \in {"none", "pop"} /\ ~exit_now'[w]
           /\ wpc'[w] # "none" <=> FirstWorker <= w /\ w < num_workers
  BY <1>2, <1>3, NewWorkersLemma
<1>6. Types'
  BY <1>1, <1>2, <1>4, <1>5 DEF Types, TypeOK
<1>7. PlaceInv'
  BY <1>2, <1>5 DEF PlaceInv, Pushed, Busy
<1>8. CountInv' /\ PushInv' /\ ReturnedInv'
  BY <1>1, <1>2 DEF CountInv, PushInv, Busy, ReturnedInv
<1>9. ThreadsInv'
  <2>1. FirstWorker' = FirstWorker
    BY <1>2 DEF FirstWorker
  <2> QED
    BY <1>2, <1>5, <2>1 DEF ThreadsInv
<1> QED
  BY <1>6, <1>7, <1>8, <1>9 DEF Inv

----------------------------------------------------------------------------
\* What the steps of a worker that is not handed a task leave as it is.
LEMMA WorkerAside ==
  ASSUME Inv, NEW w \in Workers, wpc[w] \notin {"none", "run"},
         NEW p \in {"pop", "store", "seterror", "stopped"}, wpc' = [wpc EXCEPT ![w] = p],
         p = "stopped" => exit_now[w],
         has_error' \in BOOLEAN, par_errors' \in [0 .. MaxWorkers -> 0 .. MaxLaunches],
         UNCHANGED <<ownerVars, poolVars, queueVars, task, historyVars,
                     num_task, num_pending, par_size, sync_size>>
  PROVE  Inv'
<1>1. Types /\ PlaceInv /\ CountInv /\ PushInv /\ ThreadsInv /\ ReturnedInv
  BY DEF Inv
<1>2. UNCHANGED <<opc, next, task_id, result, max_concurrency, num_workers, num_workers_used,
                  exclude_worker0, queue, exit_now, task, launch, tasks, ran, failed,
                  num_task, num_pending, par_size, sync_size>>
  BY DEF ownerVars, poolVars, queueVars, historyVars
<1>3. \A v \in Workers : wpc'[v] = IF v = w THEN p ELSE wpc[v]
  BY <1>1 DEF Types, TypeOK
<1>4. Types'
  <2>1. wpc' \in [Workers -> {"none", "pop", "run", "store", "seterror", "stopped"}]
    BY <1>1 DEF Types, TypeOK
  <2> QED
    BY <1>1, <1>2, <2>1 DEF Types, TypeOK
<1>5. PlaceInv'
  <2>1. \A v \in Workers : TaskOf(v)' = TaskOf(v) /\ (Pushed(v)' <=> Pushed(v))
    BY <1>2 DEF TaskOf, Pushed, FirstWorker
  <2>2. (MainRan' <=> MainRan) /\ (Busy' <=> Busy)
    BY <1>2 DEF MainRan, Busy
  <2>3. \A v \in Workers : wpc'[v] = "run" <=> wpc[v] = "run"
    BY <1>3
  <2>4. queue' = queue /\ ran' = ran /\ task' = task
    BY <1>2
  <2> QED
    BY <1>1, <2>1, <2>2, <2>3, <2>4 DEF PlaceInv
<1>6. CountInv' /\ PushInv' /\ ReturnedInv'
  BY <1>1, <1>2 DEF CountInv, PushInv, ReturnedInv, Busy, MainRan, Unfinished, FirstWorker
<1>7. ThreadsInv'
  BY <1>1, <1>2, <1>3 DEF ThreadsInv, FirstWorker
<1> QED
  BY <1>4, <1>5, <1>6, <1>7 DEF Inv

LEMMA WorkerPopInv ==
  ASSUME Inv, NEW w \in Workers, WorkerPop(w)
  PROVE  Inv'
<1>1. Types /\ PlaceInv /\ CountInv /\ PushInv /\ ThreadsInv /\ ReturnedInv
  BY DEF Inv
<1>2. /\ wpc[w] = "pop" /\ queue[w] # <<>>
      /\ task' = [task EXCEPT ![w] = Head(queue[w])]
      /\ queue' = [queue EXCEPT ![w] = Tail(queue[w])]
      /\ wpc' = [wpc EXCEPT ![w] = "run"]
      /\ UNCHANGED <<opc, next, task_id, result, max_concurrency, num_workers,
                     num_workers_used, exclude_worker0, exit_now, launch, tasks, ran, failed,
                     num_task, num_pending, has_error, par_errors, par_size, sync_size>>
  BY DEF WorkerPop, ownerVars, poolVars, launcherVars, historyVars
<1>3. Pushed(w) /\ queue[w] = <<TaskOf(w)>> /\ ran[w] = 0
  BY <1>1, <1>2 DEF PlaceInv
<1>4. Head(queue[w]) = TaskOf(w) /\ Tail(queue[w]) = <<>>
  BY <1>3
<1>5. TaskOf(w) \in Tasks
  BY <1>1 DEF TaskOf, Tasks, Types, TypeOK
<1>6. \A v \in Workers :
        /\ wpc'[v] = IF v = w THEN "run" ELSE wpc[v]
        /\ queue'[v] = IF v = w THEN <<>> ELSE queue[v]
        /\ task'[v] = IF v = w THEN TaskOf(w) ELSE task[v]
  BY <1>1, <1>2, <1>4 DEF Types, TypeOK
<1>7. Types'
  <2>1. <<>> \in Seq(Tasks)
    OBVIOUS
  <2>2. /\ wpc' \in [Workers -> {"none", "pop", "run", "store", "seterror", "stopped"}]
        /\ queue' \in [Workers -> Seq(Tasks)] /\ task' \in [Workers -> Tasks]
    BY <1>1, <1>2, <1>4, <1>5, <2>1 DEF Types, TypeOK
  <2> QED
    BY <1>1, <1>2, <2>2 DEF Types, TypeOK
<1>8. PlaceInv'
  <2>1. \A v \in Workers : TaskOf(v)' = TaskOf(v) /\ (Pushed(v)' <=> Pushed(v))
    BY <1>2 DEF TaskOf, Pushed, FirstWorker
  <2>2. (MainRan' <=> MainRan) /\ (Busy' <=> Busy) /\ ran' = ran
    BY <1>2 DEF MainRan, Busy
  <2> QED
    BY <1>1, <1>3, <1>6, <2>1, <2>2 DEF PlaceInv
<1>9. CountInv' /\ PushInv' /\ ReturnedInv'
  BY <1>1, <1>2 DEF CountInv, PushInv, ReturnedInv, Busy, MainRan, Unfinished, FirstWorker
<1>10. ThreadsInv'
  BY <1>1, <1>2, <1>6 DEF ThreadsInv, FirstWorker
<1> QED
  BY <1>7, <1>8, <1>9, <1>10 DEF Inv

LEMMA WorkerFinishInv ==
  ASSUME Inv, NEW w \in Workers, WorkerFinish(w)
  PROVE  Inv'
<1>1. Types /\ PlaceInv /\ CountInv /\ PushInv /\ ThreadsInv
  BY DEF Inv
<1>2. /\ wpc[w] = "run" /\ num_pending' = num_pending - 1
      /\ ran' = [ran EXCEPT ![task[w].id] = @ + 1]
      /\ UNCHANGED <<opc, next, task_id, result, max_concurrency, num_workers,
                     num_workers_used, exclude_worker0, queue, exit_now, task, launch, tasks,
                     num_task, has_error, par_errors, par_size, sync_size>>
  BY DEF WorkerFinish, ownerVars, poolVars, queueVars
<1>3. PICK p \in {"pop", "store"} : wpc' = [wpc EXCEPT ![w] = p]
  BY DEF WorkerFinish
<1>4. /\ Pushed(w) /\ queue[w] = <<>> /\ task[w] = TaskOf(w) /\ ran[w] = 0
  BY <1>1, <1>2 DEF PlaceInv
<1>5. task[w].id = w
  BY <1>4 DEF TaskOf
<1>6. ran' = [ran EXCEPT ![w] = @ + 1]
  BY <1>2, <1>5
<1>7. failed' \subseteq Workers
  <2>1. failed' \in {failed, failed \cup {w}}
    BY <1>5 DEF WorkerFinish
  <2> QED
    BY <1>1, <2>1 DEF Types, TypeOK
<1>8. /\ num_task \in 0..MaxWorkers /\ next \in 0..MaxWorkers
      /\ FirstWorker \in Int /\ w \in Nat /\ opc \in {"push", "main", "wait"}
  BY <1>1, <1>4, MaxWorkersLemma DEF Types, TypeOK, FirstWorker, Workers, Pushed
<1>9. w < num_task
  <2>1. CASE opc = "push"
    <3>1. FirstWorker <= w /\ w < next /\ (next <= num_task \/ next = FirstWorker)
      BY <1>1, <1>4, <2>1 DEF Pushed, PushInv
    <3> QED
      BY <1>8, <3>1, MaxWorkersLemma
  <2>2. CASE opc # "push"
    BY <1>4, <2>2 DEF Pushed
  <2> QED
    BY <2>1, <2>2
<1>10. /\ Cardinality(Unfinished) \in Nat
       /\ Cardinality(Unfinished') = Cardinality(Unfinished) - 1
       /\ \A v \in Workers : ran'[v] = IF v = w THEN 1 ELSE ran[v]
  <2>1. num_task' = num_task
    BY <1>2
  <2> QED
    BY <1>4, <1>6, <1>9, <2>1, OneLess
<1>11. /\ num_pending = Cardinality(Unfinished)
       /\ tasks = num_task /\ num_task <= num_workers_used /\ num_workers # 0 /\ num_task # 0
  <2>1. num_task # 0
    BY <1>8, <1>9, MaxWorkersLemma
  <2> QED
    BY <1>1, <1>8, <1>10, <2>1 DEF CountInv, Busy
<1>12. \A v \in Workers : wpc'[v] = IF v = w THEN p ELSE wpc[v]
  BY <1>1, <1>3 DEF Types, TypeOK
<1>13. Types'
  <2>1. num_pending' \in -1..MaxWorkers
    BY <1>1, <1>2, <1>10, <1>11, MaxWorkersLemma DEF Types, TypeOK
  <2>2. ran \in [Workers -> Nat] /\ ran[w] + 1 \in Nat
    BY <1>1 DEF Types, TypeOK
  <2>3. ran' \in [Workers -> Nat]
    BY <1>6, <2>2
  <2>4. wpc' \in [Workers -> {"none", "pop", "run", "store", "seterror", "stopped"}]
    BY <1>1, <1>3 DEF Types, TypeOK
  <2> QED
    BY <1>1, <1>2, <1>7, <2>1, <2>3, <2>4 DEF Types, TypeOK
<1>14. PlaceInv'
  <2>1. \A v \in Workers : TaskOf(v)' = TaskOf(v) /\ (Pushed(v)' <=> Pushed(v))
    BY <1>2 DEF TaskOf, Pushed, FirstWorker
  <2>2. (MainRan' <=> MainRan) /\ (Busy' <=> Busy) /\ queue' = queue /\ task' = task
    BY <1>2 DEF MainRan, Busy
  <2> QED
    BY <1>1, <1>4, <1>10, <1>12, <2>1, <2>2 DEF PlaceInv
<1>15. CountInv'
  <2>1. num_pending' = Cardinality(Unfinished')
    BY <1>2, <1>10, <1>11
  <2>2. /\ tasks' = num_task' /\ num_task' <= num_workers_used' /\ num_workers' # 0
        /\ num_task' # 0 /\ Cardinality(Unfinished') \in Int
    BY <1>2, <1>10, <1>11
  <2>3. num_pending' = Cardinality(Unfinished') - 0
    BY <2>1, <2>2
  <2> QED
    BY <2>2, <2>3 DEF CountInv
<1>16. PushInv' /\ ReturnedInv'
  BY <1>1, <1>2, <1>8 DEF PushInv, FirstWorker, ReturnedInv
<1>17. ThreadsInv'
  BY <1>1, <1>2, <1>12 DEF ThreadsInv, FirstWorker
<1> QED
  BY <1>13, <1>14, <1>15, <1>16, <1>17 DEF Inv

LEMMA WorkerStepInv ==
  ASSUME Inv, NEW w \in Workers, WorkerStep(w)
  PROVE  Inv'
<1>1. Types /\ PlaceInv /\ ThreadsInv
  BY DEF Inv
<1>2. has_error \in BOOLEAN /\ par_errors \in [0 .. MaxWorkers -> 0 .. MaxLaunches]
  BY <1>1 DEF Types, TypeOK
<1>3. CASE WorkerPop(w)
  BY <1>3, WorkerPopInv
<1>4. CASE WorkerFinish(w)
  BY <1>4, WorkerFinishInv
<1>5. CASE WorkerExit(w)
  <2>1. /\ wpc[w] = "pop" /\ exit_now[w] /\ wpc' = [wpc EXCEPT ![w] = "stopped"]
        /\ has_error' = has_error /\ par_errors' = par_errors
        /\ UNCHANGED <<ownerVars, poolVars, queueVars, task, historyVars,
                       num_task, num_pending, par_size, sync_size>>
    BY <1>5 DEF WorkerExit, launcherVars
  <2>2. has_error' \in BOOLEAN
    BY <1>2, <2>1, Zenon
  <2> QED
    BY <1>2, <2>1, <2>2, WorkerAside
<1>6. CASE WorkerStoreError(w)
  <2>1. /\ wpc[w] = "store" /\ wpc' = [wpc EXCEPT ![w] = "seterror"]
        /\ has_error' = has_error
        /\ par_errors' = [par_errors EXCEPT ![task[w].id] = task[w].launch]
        /\ UNCHANGED <<ownerVars, poolVars, queueVars, task, historyVars,
                       num_task, num_pending, par_size, sync_size>>
    BY <1>6 DEF WorkerStoreError
  <2>2. has_error' \in BOOLEAN
    BY <1>2, <2>1, Zenon
  <2>3. task[w].launch \in 0 .. MaxLaunches
    BY <1>1 DEF Types, TypeOK, Tasks
  <2>4. par_errors' \in [0 .. MaxWorkers -> 0 .. MaxLaunches]
    BY <1>2, <2>1, <2>3
  <2> QED
    BY <2>1, <2>2, <2>4, WorkerAside
<1>7. CASE WorkerSetError(w)
  <2>1. /\ wpc[w] = "seterror" /\ wpc' = [wpc EXCEPT ![w] = "pop"]
        /\ has_error' = TRUE /\ par_errors' = par_errors
        /\ UNCHANGED <<ownerVars, poolVars, queueVars, task, historyVars,
                       num_task, num_pending, par_size, sync_size>>
    BY <1>7 DEF WorkerSetError
  <2>2. has_error' \in BOOLEAN
    BY <2>1, Zenon
  <2> QED
    BY <1>2, <2>1, <2>2, WorkerAside
<1>8. CASE ParErrorsRace(w)
  <2>1. /\ wpc[w] = "store"
        /\ UNCHANGED <<next, task_id, result, poolVars, queueVars, launcherVars, task,
                       historyVars>>
    BY <1>8 DEF ParErrorsRace
  <2>2. has_error' \in BOOLEAN
    BY <1>2, <2>1, Zenon DEF launcherVars
  <2>3. CASE wpc' = [wpc EXCEPT ![w] = "seterror"] /\ UNCHANGED opc
    <3>1. /\ par_errors' = par_errors
          /\ UNCHANGED <<ownerVars, poolVars, queueVars, task, historyVars,
                         num_task, num_pending, par_size, sync_size>>
      BY <2>1, <2>3 DEF launcherVars, ownerVars
    <3> QED
      BY <1>2, <2>1, <2>2, <2>3, <3>1, WorkerAside
  <2>4. CASE opc' = "crashed" /\ UNCHANGED wpc
    <3>1. /\ wpc' = wpc
          /\ UNCHANGED <<next, task_id, result, max_concurrency, num_workers,
                         num_workers_used, exclude_worker0, queue, exit_now, task, launch,
                         tasks, ran, failed, num_task, num_pending, has_error, par_errors,
                         par_size, sync_size>>
      BY <2>1, <2>4 DEF poolVars, queueVars, launcherVars, historyVars
    <3>2. \A v \in Workers : queue[v] = <<>> /\ wpc[v] # "run"
      <4>1. CASE opc = "reshape"
        BY <1>1, <4>1 DEF PlaceInv, Pushed
      <4>2. CASE opc = "wait" /\ num_pending = 0
        BY <4>2, AllRan
      <4> QED
        BY <1>8, <4>1, <4>2 DEF ParErrorsRace
    <3>3. opc \notin {"reset", "destroy", "destroyed"}
      BY <1>8 DEF ParErrorsRace
    <3>4. Types'
      BY <1>1, <2>4, <3>1 DEF Types, TypeOK
    <3>5. PlaceInv' /\ CountInv' /\ PushInv' /\ ReturnedInv'
      BY <2>4, <3>1, <3>2 DEF PlaceInv, Pushed, Busy, CountInv, PushInv, ReturnedInv
    <3>6. ThreadsInv'
      BY <1>1, <3>1, <3>3 DEF ThreadsInv, FirstWorker
    <3> QED
      BY <3>4, <3>5, <3>6 DEF Inv
  <2> QED
    BY <1>8, <2>3, <2>4 DEF ParErrorsRace
<1> QED
  BY <1>3, <1>4, <1>5, <1>6, <1>7, <1>8 DEF WorkerStep

LEMMA NextInv == Inv /\ [Next]_vars => Inv'
<1> SUFFICES ASSUME Inv, [Next]_vars PROVE Inv'
  OBVIOUS
<1>1. ASSUME NEW c \in Configs, ConfigThreadpool(c) PROVE Inv'
  BY <1>1, ConfigInv
<1>2. CASE LaunchInline
  BY <1>2, LaunchInlineInv
<1>3. ASSUME NEW n \in TaskCounts, Launch(n) PROVE Inv'
  BY <1>3, LaunchInv
<1>4. CASE StopCall
  BY <1>4, StopInv
<1>5. CASE OwnerStep
  BY <1>5, InitStepsInv, PushTaskInv, PushDoneInv, RunMainInv, WaitForJobsInv, StopInv,
     ResetDoneInv DEF OwnerStep
<1>6. ASSUME NEW w \in Workers, WorkerStep(w) PROVE Inv'
  BY <1>6, WorkerStepInv
<1>7. CASE UNCHANGED vars
  <2>1. UNCHANGED <<opc, next, task_id, result, max_concurrency, num_workers,
                    num_workers_used, exclude_worker0, queue, exit_now, task, launch, wpc,
                    tasks, ran, failed, num_task, num_pending, has_error, par_errors,
                    par_size, sync_size>>
    BY <1>7 DEF vars, ownerVars, poolVars, queueVars, launcherVars, workerVars, historyVars
  <2>2. Types' <=> Types
    BY <2>1 DEF Types, TypeOK
  <2>3. (PlaceInv' <=> PlaceInv) /\ (ThreadsInv' <=> ThreadsInv)
    BY <2>1 DEF PlaceInv, ThreadsInv, Pushed, Busy, MainRan, TaskOf, FirstWorker
  <2>4. (CountInv' <=> CountInv) /\ (PushInv' <=> PushInv) /\ (ReturnedInv' <=> ReturnedInv)
    BY <2>1 DEF CountInv, PushInv, ReturnedInv, Busy, MainRan, Unfinished, FirstWorker
  <2> QED
    BY <2>2, <2>3, <2>4 DEF Inv
<1> QED
  BY <1>1, <1>2, <1>3, <1>4, <1>5, <1>6, <1>7 DEF Next, Ended

----------------------------------------------------------------------------
(***************************************************************************)
(* The theorems.                                                           *)
(***************************************************************************)
\* Launches, configurations and resets keep the inductive invariant.
THEOREM Invariance == Spec => []Inv
  BY InitInv, NextInv, PTL DEF Spec

\* The state has its type: num_workers_used_ never exceeds the threads of the
\* pool, whatever config_threadpool asks for.
THEOREM TypeCorrect == Spec => []TypeOK
<1>1. Inv => TypeOK
  BY DEF Inv, Types
<1> QED
  BY <1>1, Invariance, PTL

\* RunWorker calls flambda only while the launch that pushed its task waits for
\* it, so cdata and env are those of that launch.
THEOREM RunsInside == Spec => []RunsInsideItsLaunch
<1>1. Inv => RunsInsideItsLaunch
  <2> SUFFICES ASSUME Inv, NEW w \in Workers, wpc[w] = "run"
               PROVE  opc \in {"push", "main", "wait"} /\ task[w].launch = launch
    BY DEF RunsInsideItsLaunch
  <2>1. Pushed(w) /\ task[w] = TaskOf(w)
    BY DEF Inv, PlaceInv
  <2> QED
    BY <2>1 DEF Pushed, TaskOf
<1> QED
  BY <1>1, Invariance, PTL

\* A launch that returns has run each of its tasks exactly once: num_pending_
\* counts the tasks not run, although SignalJobError and SignalJobFinish race.
THEOREM EveryTaskRan == Spec => []EveryTaskRanOnce
<1>1. Inv => EveryTaskRanOnce
  BY DEF Inv, ReturnedInv, EveryTaskRanOnce
<1> QED
  BY <1>1, Invariance, PTL

\* Launch pushes to queues that a live thread reads, after every change of the
\* number of workers in use.
THEOREM PushReaches == Spec => []PushReachesAWorker
<1>1. Inv => PushReachesAWorker
  <2> SUFFICES ASSUME Inv, opc = "push", next < num_task
               PROVE  wpc[next] \notin {"none", "stopped"} /\ ~exit_now[next]
    BY DEF PushReachesAWorker
  <2>1. /\ next \in 0..MaxWorkers /\ num_task \in 0..MaxWorkers /\ FirstWorker <= next
        /\ num_workers_used \in 0..num_workers /\ num_workers \in 0..MaxWorkers
        /\ num_task <= num_workers_used
    BY DEF Inv, Types, TypeOK, PushInv, CountInv, Busy
  <2>2. next \in Workers /\ next < num_workers
    BY <2>1, MaxWorkersLemma DEF Workers
  <2> QED
    BY <2>1, <2>2 DEF Inv, ThreadsInv
<1> QED
  BY <1>1, Invariance, PTL

\* A thread that has stopped leaves no task in its queue, though Pop may leave
\* one there once it was told to exit.
THEOREM NothingLeftBehind == Spec => []NoTaskLeftBehind
<1>1. Inv => NoTaskLeftBehind
  <2> SUFFICES ASSUME Inv, NEW w \in Workers, wpc[w] = "stopped"
               PROVE  queue[w] = <<>>
    BY DEF NoTaskLeftBehind
  <2>1. opc \in {"reset", "destroy", "destroyed"}
    BY DEF Inv, ThreadsInv
  <2> QED
    BY <2>1 DEF Inv, PlaceInv, Pushed
<1> QED
  BY <1>1, Invariance, PTL
=============================================================================
