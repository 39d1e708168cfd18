-------------------------- MODULE ParallelBarrier --------------------------
(***************************************************************************)
(* TVMBackendParallelBarrier of src/runtime/thread_pool.cc: the barrier    *)
(* between the tasks of one launch.  Each task has a counter of its own,   *)
(* which it increments when it arrives; it then waits, one task after the  *)
(* other, until the counter of every other task has passed the value its   *)
(* own counter had.                                                        *)
(*                                                                         *)
(* The tasks here are the lambdas of one launch of ThreadPool, which all   *)
(* run at the same time.  Every task is to go through Rounds barriers; a   *)
(* task of MayFail may return an error before any of them.                 *)
(***************************************************************************)
EXTENDS Integers

CONSTANTS num_task,   \* penv->num_task
          Rounds,     \* how many barriers the lambda contains
          MayFail     \* the tasks that may return early

Tasks == 0 .. num_task - 1

ASSUME NumTaskAssumption == num_task \in Nat \ {0}
ASSUME RoundsAssumption == Rounds \in Nat
ASSUME MayFailAssumption == MayFail \subseteq Tasks

VARIABLES
  sync_counter,   \* penv->sync_handle: one counter for each task
  old_counter,    \* the local old_counter of each task
  i,              \* the loop variable of each task
  pc              \* "work" outside the barrier, "spin" in it, "returned"

vars == <<sync_counter, old_counter, i, pc>>

Init ==
  /\ sync_counter = [t \in Tasks |-> 0]
  /\ old_counter = [t \in Tasks |-> 0]
  /\ i = [t \in Tasks |-> 0]
  /\ pc = [t \in Tasks |-> "work"]

\* sync_counter[task_id].fetch_add(1)
Arrive(t) ==
  /\ pc[t] = "work"
  /\ sync_counter[t] < Rounds
  /\ old_counter' = [old_counter EXCEPT ![t] = sync_counter[t]]
  /\ sync_counter' = [sync_counter EXCEPT ![t] = @ + 1]
  /\ i' = [i EXCEPT ![t] = 0]
  /\ pc' = [pc EXCEPT ![t] = "spin"]

\* Mutant: a task that is in the same round as this one was counts as arrived.
CheckNotStrict(t) ==
  /\ pc[t] = "spin"
  /\ i[t] < num_task
  /\ i[t] # t => sync_counter[i[t]] >= old_counter[t]
  /\ i' = [i EXCEPT ![t] = @ + 1]
  /\ UNCHANGED <<sync_counter, old_counter, pc>>

\* Mutant: a task waits for itself to be one round further.
CheckSelf(t) ==
  /\ pc[t] = "spin"
  /\ i[t] < num_task
  /\ sync_counter[i[t]] > old_counter[t] + (IF i[t] = t THEN 1 ELSE 0)
  /\ i' = [i EXCEPT ![t] = @ + 1]
  /\ UNCHANGED <<sync_counter, old_counter, pc>>

\* The loop goes on to the next task once this one has arrived; until then it
\* yields and looks again.
Check(t) ==
  /\ pc[t] = "spin"
  /\ i[t] < num_task
  /\ i[t] # t => sync_counter[i[t]] > old_counter[t]
  /\ i' = [i EXCEPT ![t] = @ + 1]
  /\ UNCHANGED <<sync_counter, old_counter, pc>>

\* The barrier returns 0.
Pass(t) ==
  /\ pc[t] = "spin"
  /\ i[t] = num_task
  /\ pc' = [pc EXCEPT ![t] = "work"]
  /\ UNCHANGED <<sync_counter, old_counter, i>>

\* The lambda returns: after its last barrier, or earlier with an error.
Return(t) ==
  /\ pc[t] = "work"
  /\ sync_counter[t] = Rounds \/ t \in MayFail
  /\ pc' = [pc EXCEPT ![t] = "returned"]
  /\ UNCHANGED <<sync_counter, old_counter, i>>

TaskStep(t) == Arrive(t) \/ Check(t) \/ Pass(t) \/ Return(t)

AllReturned == (\A t \in Tasks : pc[t] = "returned") /\ UNCHANGED vars

Next == (\E t \in Tasks : TaskStep(t)) \/ AllReturned

Safety == Init /\ [][Next]_vars

\* Each task has a thread of its own, which runs.
Spec == Safety /\ \A t \in Tasks : WF_vars(TaskStep(t))

----------------------------------------------------------------------------
\* Every variable has its type.
TypeOK ==
  /\ sync_counter \in [Tasks -> 0 .. Rounds]
  /\ old_counter \in [Tasks -> 0 .. Rounds]
  /\ i \in [Tasks -> 0 .. num_task]
  /\ pc \in [Tasks -> {"work", "spin", "returned"}]

\* How many barriers task t has left behind.
Passed(t) == IF pc[t] = "spin" THEN old_counter[t] ELSE sync_counter[t]

\* What makes it a barrier: no task leaves its k-th barrier before every task
\* has arrived at its own k-th.
Synchronised == \A t, u \in Tasks : Passed(t) <= sync_counter[u]

\* A task that arrives at a barrier gets past it, unless another task returned
\* without going through all of them: the next round of a faster task never
\* hides its arrival in this one from a slower task.
ReturnedEarly(t) == pc[t] = "returned" /\ sync_counter[t] < Rounds
BarrierReturns ==
  \A t \in Tasks :
    pc[t] = "spin" ~> (pc[t] # "spin" \/ \E u \in Tasks : ReturnedEarly(u))

----------------------------------------------------------------------------
\* The inductive invariant: a waiting task is one ahead of the value it
\* remembers, and the tasks its loop went by have arrived.
WaitInv ==
  \A t \in Tasks :
    pc[t] = "spin" =>
      /\ sync_counter[t] = old_counter[t] + 1
      /\ \A u \in Tasks : u < i[t] => sync_counter[u] > old_counter[t]

Inv == TypeOK /\ Synchronised /\ WaitInv
=============================================================================
