--------------------------- MODULE SpscTaskQueue ---------------------------
(***************************************************************************)
(* class SpscTaskQueue of src/runtime/thread_pool.cc: the lock-free        *)
(* single-producer single-consumer ring through which the thread that owns *)
(* a ThreadPool hands tasks to one worker, with an atomic counter,         *)
(* pending_, that decides when the worker sleeps on a condition variable   *)
(* and when the owner has to wake it.                                      *)
(*                                                                         *)
(* Two threads take steps.  The owner calls Push, and SignalForKill when   *)
(* the pool is destroyed or reset; it never pushes after that.  The worker *)
(* calls Pop in a loop (ThreadPool::RunWorker).  Every atomic operation,   *)
(* lock, wait and access of the buffer is one step.                        *)
(***************************************************************************)
EXTENDS Integers, Sequences

CONSTANTS Task,        \* the tasks handed over (launcher and task id)
          NoTask,      \* an unused buffer slot, or no task popped
          kRingSize    \* slots of the ring: it hosts kRingSize - 1 tasks

ASSUME RingSizeAssumption == kRingSize \in Nat /\ kRingSize >= 2
ASSUME NoTaskAssumption == NoTask \notin Task

VARIABLES
  buffer,    \* buffer_: the slots
  head,      \* head_: where the worker reads
  tail,      \* tail_: where the owner writes
  pending,   \* pending_: tasks counted and not yet claimed; -1: worker asleep
  exit_now,  \* exit_now_
  mutex,     \* which thread holds mutex_: "none", "owner" or "worker"
  opc,       \* where the owner is
  input,     \* the argument of the Push in progress
  wpc,       \* where the worker is
  output     \* the task Pop returned, while the worker runs it

shared == <<buffer, head, tail, pending, exit_now, mutex>>
ownerVars == <<opc, input>>
workerVars == <<wpc, output>>
vars == <<shared, ownerVars, workerVars>>

Slots == 0 .. kRingSize - 1

OwnerPcs == {"idle", "enqueue", "write", "publish", "count", "lock", "notify",
             "killlock", "kill", "joined"}
WorkerPcs == {"spin", "claim", "lock", "test", "block", "wait", "exitcheck",
              "read", "release", "run", "stopped", "aborted"}

Init ==
  /\ buffer = [s \in Slots |-> NoTask]
  /\ head = 0 /\ tail = 0
  /\ pending = 0
  /\ exit_now = FALSE
  /\ mutex = "none"
  /\ opc = "idle" /\ input = NoTask
  /\ wpc = "spin" /\ output = NoTask

(***************************************************************************)
(* The owner.                                                              *)
(***************************************************************************)
PushCall(t) ==
  /\ opc = "idle"
  /\ input' = t
  /\ opc' = "enqueue"
  /\ UNCHANGED <<shared, workerVars>>

\* Mutant: the owner does not look whether the ring is full.
EnqueueCheckNoFullTest ==
  /\ opc = "enqueue"
  /\ ~exit_now
  /\ opc' = "write"
  /\ UNCHANGED <<shared, input, workerVars>>

\* Enqueue's checks: the loop of Push retries for as long as one fails.
EnqueueCheck ==
  /\ opc = "enqueue"
  /\ ~exit_now
  /\ (tail + 1) % kRingSize # head
  /\ opc' = "write"
  /\ UNCHANGED <<shared, input, workerVars>>

EnqueueWrite ==
  /\ opc = "write"
  /\ buffer' = [buffer EXCEPT ![tail] = input]
  /\ opc' = "publish"
  /\ UNCHANGED <<head, tail, pending, exit_now, mutex, input, workerVars>>

\* Mutant: the tail is not wrapped around.
EnqueuePublishNoWrap ==
  /\ opc = "publish"
  /\ tail' = tail + 1
  /\ opc' = "count"
  /\ UNCHANGED <<buffer, head, pending, exit_now, mutex, input, workerVars>>

EnqueuePublish ==
  /\ opc = "publish"
  /\ tail' = (tail + 1) % kRingSize
  /\ opc' = "count"
  /\ UNCHANGED <<buffer, head, pending, exit_now, mutex, input, workerVars>>

\* pending_.fetch_add(1): the old value -1 says that the worker found no
\* task and sleeps, or is about to.
PushCount ==
  /\ opc = "count"
  /\ pending' = pending + 1
  /\ opc' = IF pending = -1 THEN "lock" ELSE "idle"
  /\ UNCHANGED <<buffer, head, tail, exit_now, mutex, input, workerVars>>

\* Mutant: the owner notifies without waiting for the mutex.
PushLockSkipped ==
  /\ opc = "lock"
  /\ opc' = "notify"
  /\ UNCHANGED <<shared, input, workerVars>>

PushLock ==
  /\ opc = "lock"
  /\ mutex = "none"
  /\ mutex' = "owner"
  /\ opc' = "notify"
  /\ UNCHANGED <<buffer, head, tail, pending, exit_now, input, workerVars>>

\* A notification wakes the worker if it is waiting and is lost otherwise.
Notified == wpc' = IF wpc = "wait" THEN "lock" ELSE wpc

\* notify_one, then the end of the scope releases the lock.
PushNotify ==
  /\ opc = "notify"
  /\ Notified
  /\ mutex' = "none"
  /\ opc' = "idle"
  /\ UNCHANGED <<buffer, head, tail, pending, exit_now, input, output>>

\* ~ThreadPool and ThreadPool::Reset call SignalForKill between launches.
KillCall ==
  /\ opc = "idle"
  /\ opc' = "killlock"
  /\ UNCHANGED <<shared, input, workerVars>>

KillLock ==
  /\ opc = "killlock"
  /\ mutex = "none"
  /\ mutex' = "owner"
  /\ opc' = "kill"
  /\ UNCHANGED <<buffer, head, tail, pending, exit_now, input, workerVars>>

\* Mutant: exit_now_ is set and nobody is notified.
SignalForKillSilent ==
  /\ opc = "kill"
  /\ exit_now' = TRUE
  /\ mutex' = "none"
  /\ opc' = "joined"
  /\ UNCHANGED <<buffer, head, tail, pending, input, workerVars>>

\* exit_now_ is set and everyone notified under the lock; the owner then
\* goes on to join the worker.
SignalForKill ==
  /\ opc = "kill"
  /\ exit_now' = TRUE
  /\ Notified
  /\ mutex' = "none"
  /\ opc' = "joined"
  /\ UNCHANGED <<buffer, head, tail, pending, input, output>>

(***************************************************************************)
(* The worker.                                                             *)
(***************************************************************************)
\* The busy wait ends when pending_ is not 0, or after spin_count rounds,
\* which the user configures (TVM_THREAD_POOL_SPIN_COUNT, 0 included).
SpinEnd ==
  /\ wpc = "spin"
  /\ wpc' = "claim"
  /\ UNCHANGED <<shared, ownerVars, output>>

\* pending_.fetch_sub(1): the old value 0 says that there is no task.
PopClaim ==
  /\ wpc = "claim"
  /\ pending' = pending - 1
  /\ wpc' = IF pending = 0 THEN "lock" ELSE "exitcheck"
  /\ UNCHANGED <<buffer, head, tail, exit_now, mutex, ownerVars, output>>

\* Taking mutex_, on the way into cv_.wait or on the way back from it.
PopLock ==
  /\ wpc = "lock"
  /\ mutex = "none"
  /\ mutex' = "worker"
  /\ wpc' = "test"
  /\ UNCHANGED <<buffer, head, tail, pending, exit_now, ownerVars, output>>

\* Mutant: off by one in the predicate, so that a sleeper does not wait for a task.
PopTestOffByOne ==
  /\ wpc = "test"
  /\ IF pending >= -1 \/ exit_now
       THEN wpc' = "exitcheck" /\ mutex' = "none"
       ELSE wpc' = "block" /\ UNCHANGED mutex
  /\ UNCHANGED <<buffer, head, tail, pending, exit_now, ownerVars, output>>

\* The predicate of cv_.wait, evaluated with the lock held.
PopTest ==
  /\ wpc = "test"
  /\ IF pending >= 0 \/ exit_now
       THEN wpc' = "exitcheck" /\ mutex' = "none"
       ELSE wpc' = "block" /\ UNCHANGED mutex
  /\ UNCHANGED <<buffer, head, tail, pending, exit_now, ownerVars, output>>

\* cv_.wait releases the lock and starts to wait in one step.
PopBlock ==
  /\ wpc = "block"
  /\ mutex' = "none"
  /\ wpc' = "wait"
  /\ UNCHANGED <<buffer, head, tail, pending, exit_now, ownerVars, output>>

\* A condition variable may return without having been notified.
SpuriousWakeup ==
  /\ wpc = "wait"
  /\ wpc' = "lock"
  /\ UNCHANGED <<shared, ownerVars, output>>

PopExitCheck ==
  /\ wpc = "exitcheck"
  /\ wpc' = IF exit_now THEN "stopped" ELSE "read"
  /\ UNCHANGED <<shared, ownerVars, output>>

\* Mutant: the read is one slot ahead, as when the head is advanced before it.
PopReadNextSlot ==
  /\ wpc = "read"
  /\ output' = buffer[(head + 1) % kRingSize]
  /\ wpc' = "release"
  /\ UNCHANGED <<shared, ownerVars>>

\* The sanity check that the ring is not empty, and the read of the slot: a
\* failed ICHECK throws out of the worker's thread function.
PopRead ==
  /\ wpc = "read"
  /\ IF tail = head
       THEN wpc' = "aborted" /\ UNCHANGED output
       ELSE wpc' = "release" /\ output' = buffer[head]
  /\ UNCHANGED <<shared, ownerVars>>

PopRelease ==
  /\ wpc = "release"
  /\ head' = (head + 1) % kRingSize
  /\ wpc' = "run"
  /\ UNCHANGED <<buffer, tail, pending, exit_now, mutex, ownerVars, output>>

\* RunWorker has run the task and calls Pop again.
TaskDone ==
  /\ wpc = "run"
  /\ output' = NoTask
  /\ wpc' = "spin"
  /\ UNCHANGED <<shared, ownerVars>>

----------------------------------------------------------------------------
OwnerStep ==
  \/ EnqueueCheck \/ EnqueueWrite \/ EnqueuePublish \/ PushCount
  \/ PushLock \/ PushNotify \/ KillLock \/ SignalForKill

WorkerStep ==
  \/ SpinEnd \/ PopClaim \/ PopLock \/ PopTest \/ PopBlock
  \/ PopExitCheck \/ PopRead \/ PopRelease \/ TaskDone

\* The worker's thread has ended: the owner's join returns.
Joined ==
  /\ opc = "joined" /\ wpc = "stopped"
  /\ UNCHANGED vars

Next ==
  \/ \E t \in Task : PushCall(t)
  \/ KillCall
  \/ OwnerStep
  \/ WorkerStep
  \/ SpuriousWakeup
  \/ Joined

Safety == Init /\ [][Next]_vars

\* Both threads run; the owner need not call anything, a wakeup need not be
\* spurious, and a task that was started ends.
Fairness == WF_vars(OwnerStep) /\ WF_vars(WorkerStep)

Spec == Safety /\ Fairness

----------------------------------------------------------------------------
\* Every variable has its type: head_ and tail_ are indices of the ring.
TypeOK ==
  /\ buffer \in [Slots -> Task \cup {NoTask}]
  /\ head \in Slots /\ tail \in Slots
  /\ pending \in Int
  /\ exit_now \in BOOLEAN
  /\ mutex \in {"none", "owner", "worker"}
  /\ opc \in OwnerPcs /\ input \in Task \cup {NoTask}
  /\ wpc \in WorkerPcs /\ output \in Task \cup {NoTask}

\* How many tasks the ring hosts.
Length == IF tail >= head THEN tail - head ELSE tail - head + kRingSize

----------------------------------------------------------------------------
\* The ICHECK of Pop (line 194) never fails: a worker that passed the counter
\* and the condition variable finds a task in the ring.
SanityCheckHolds == wpc # "aborted"

\* pending_ is an int8_t: it stays between -1 and the number of tasks that the
\* ring hosts, so that it never wraps around.
PendingInRange == pending \in -1 .. kRingSize - 1

\* buffer_ is not atomic: Enqueue never writes the slot that Pop reads.
SlotNotShared == opc = "write" /\ wpc \in {"read", "release"} => tail # head

\* A worker sleeps only when there is nothing to do, or when the owner is on
\* its way to notify it: no wakeup falls between the test of the predicate and
\* the wait.
SleepIsSafe ==
  wpc = "wait" =>
    \/ tail = head /\ ~exit_now
    \/ opc \in {"count", "lock", "notify"}

\* Once the owner signalled the end, the worker's thread ends, asleep or not.
WorkerStops == exit_now ~> wpc = "stopped"

\* The tasks in the ring, oldest first, without the one that was read and
\* whose slot was not given back yet.
Taken == IF wpc = "release" THEN 1 ELSE 0
Queued ==
  [i \in 1 .. Length - Taken |-> buffer[(head + (Taken + i - 1)) % kRingSize]]

Fifo == INSTANCE BoundedFifo WITH
  Capacity <- kRingSize - 1,
  queue <- Queued,
  held <- output,
  closed <- exit_now

\* The ring, the counter and the condition variable make a bounded FIFO
\* channel: tasks come out once, in the order of the pushes, and every task
\* pushed is delivered as long as the pool is not torn down.
ImplementsFifo == Fifo!Spec
----------------------------------------------------------------------------
(***************************************************************************)
(* The inductive invariant behind the safety properties.                   *)
(***************************************************************************)
\* Tasks in the ring that Push has also counted in pending_.
Counted == IF opc = "count" THEN Length - 1 ELSE Length

\* Where the worker has taken one off pending_ and not yet given a slot back.
Claimed == wpc \notin {"spin", "claim", "run"}

\* pending_ is the number of counted tasks less the worker's claim.
CountInv ==
  /\ Counted >= 0
  /\ pending = IF Claimed THEN Counted - 1 ELSE Counted

\* A claim that got past the condition variable is backed by a task.
ClaimInv ==
  /\ wpc \in {"read", "release"} => Counted >= 1
  /\ wpc = "exitcheck" => Counted >= 1 \/ exit_now
  /\ wpc # "aborted"

\* The owner found room and nobody else fills the ring.
RoomInv == opc \in {"write", "publish"} => Length < kRingSize - 1

MutexInv ==
  /\ mutex = "owner" <=> opc \in {"notify", "kill"}
  /\ mutex = "worker" <=> wpc \in {"test", "block"}

\* A worker that decided to sleep saw no task and no end, and whoever changed
\* that has not notified yet.
SleepInv ==
  wpc \in {"block", "wait"} =>
    /\ ~exit_now
    /\ pending = -1 \/ opc \in {"lock", "notify"}

Inv == TypeOK /\ CountInv /\ ClaimInv /\ RoomInv /\ MutexInv /\ SleepInv

\* What the slots and the two threads hold, for the refinement: the occupied
\* slots hold tasks, the slot about to be published holds the one pushed, and
\* the worker holds a task from its read until it has run it.
ContentInv ==
  /\ \A i \in 0 .. Length - 1 : buffer[(head + i) % kRingSize] \in Task
  /\ opc \in {"enqueue", "write", "publish"} => input \in Task
  /\ opc = "publish" => buffer[tail] = input
  /\ wpc \in {"release", "run"} => output \in Task
  /\ wpc \notin {"release", "run"} => output = NoTask
  /\ exit_now <=> opc = "joined"
=============================================================================
