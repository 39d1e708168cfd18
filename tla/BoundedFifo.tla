---------------------------- MODULE BoundedFifo ----------------------------
(***************************************************************************)
(* What a worker's task queue promises, without saying how: a closable     *)
(* first-in first-out channel of at most Capacity tasks between one        *)
(* producer and one consumer.  The consumer holds the task it took while   *)
(* it runs it, and takes the next one only after that.                     *)
(*                                                                         *)
(* SpscTaskQueue.tla implements this module with a ring buffer, an atomic  *)
(* counter, a mutex and a condition variable.  ThreadPool.tla uses one     *)
(* channel of this kind for every worker.                                  *)
(***************************************************************************)
EXTENDS Naturals, Sequences

CONSTANTS Task,       \* the tasks that can be queued
          NoTask,     \* what the consumer holds when it holds nothing
          Capacity    \* how many tasks may be queued at once

VARIABLES queue,      \* tasks put and not yet taken, oldest first
          held,       \* the task the consumer is running, or NoTask
          closed      \* TRUE once the channel was closed

vars == <<queue, held, closed>>

Init == queue = <<>> /\ held = NoTask /\ closed = FALSE

\* The producer adds a task; it blocks while the channel is full.
Put(t) ==
  /\ ~closed
  /\ Len(queue) < Capacity
  /\ queue' = Append(queue, t)
  /\ UNCHANGED <<held, closed>>

\* The consumer takes the oldest task; it blocks while there is none.
Take ==
  /\ held = NoTask
  /\ queue # <<>>
  /\ held' = Head(queue)
  /\ queue' = Tail(queue)
  /\ UNCHANGED closed

\* The consumer is done with the task it holds.
Finish ==
  /\ held # NoTask
  /\ held' = NoTask
  /\ UNCHANGED <<queue, closed>>

\* The producer closes the channel; what is queued may then stay behind.
Close ==
  /\ ~closed
  /\ closed' = TRUE
  /\ UNCHANGED <<queue, held>>

Next == (\E t \in Task : Put(t)) \/ Take \/ Finish \/ Close

\* Queued tasks are delivered for as long as the channel is open, and the
\* consumer finishes what it runs.
Fairness == WF_vars(~closed /\ Take) /\ WF_vars(Finish)

Safety == Init /\ [][Next]_vars

Spec == Safety /\ Fairness
============================================================================
