--------------------------- MODULE TaskScheduler ---------------------------
(***************************************************************************)
(* TaskScheduler of the auto-scheduler                                     *)
(* (python/tvm/auto_scheduler/task_scheduler.py): it shares a budget of    *)
(* measurements among the tuning tasks of a network, round by round, and   *)
(* takes up where it was from the log of the measurements when it is       *)
(* started again after a crash.                                            *)
(*                                                                         *)
(* A round of a task measures up to num_measures_per_round schedules; none *)
(* when the search space is explored.  Of a round only the best cost       *)
(* counts, and where in the round it came.  Which task has the steepest    *)
(* gradient is left open: any live task may have it.  A dead task has      *)
(* gradient 0 and is drawn only when all gradients are equal, which an     *)
(* objective function that does not depend on the live tasks brings about. *)
(* The tasks have one target and distinct workload keys, so the log tells  *)
(* them apart; the score of a network is taken to be the sum of the costs. *)
(***************************************************************************)
EXTENDS Integers, Sequences, FiniteSets, FiniteSetsExt

CONSTANTS
  NumTasks,                 \* the tasks are 0..NumTasks-1
  NumMeasureTrials,         \* tune_option.num_measure_trials
  MeasuresPerRound,         \* the values of tune_option.num_measures_per_round
  EarlyStopAll,             \* early_stopping_all
  EarlyStopTask,            \* early_stopping_task
  BackwardWindow,           \* backward_window_size
  DeadRounds,               \* bound: a dead task is drawn by gradient only
                            \* while it has had fewer rounds
  MaxCost,                  \* bound: measured costs are 1..MaxCost
  MaxRestarts, MaxCalls     \* bound: crashes, and calls of tune

ASSUME SchedulerAssumption ==
  /\ NumTasks \in Nat \ {0} /\ NumMeasureTrials \in Nat /\ NumMeasureTrials >= NumTasks
  /\ MeasuresPerRound \subseteq Nat \ {0}
  /\ EarlyStopAll \in Nat /\ EarlyStopTask \in Nat /\ BackwardWindow \in Nat \ {0}
  /\ DeadRounds \in Nat /\ MaxCost \in Nat \ {0} /\ MaxRestarts \in Nat /\ MaxCalls \in Nat

VARIABLES
  strategy,
  pc,            \* "idle", "warm", "loop"
  calls,         \* calls of tune, in all processes
  task_cts, task_best_cts, task_costs_history, best_costs,
  dead_tasks,
  ct, best_ct, best_score,
  num_measures_per_round,
  task_idx,      \* the next task to warm up, then the last one tuned
  load_log_file, \* whether the scheduler was made with the log file
  log,           \* the log file: records of each task, best cost, and where
  restarts,
  turns          \* history: rounds of each task since the warm up

taskVars == <<task_cts, task_best_cts, task_costs_history, best_costs, dead_tasks>>
tuneVars == <<ct, best_ct, best_score, num_measures_per_round, task_idx>>
vars == <<strategy, pc, calls, taskVars, tuneVars, load_log_file, log, restarts, turns>>

Tasks == 0..(NumTasks - 1)
Infinity == MaxCost + 1   \* 1e10: no schedule worked
min(a, b) == IF a < b THEN a ELSE b
Score(costs) == MapThenSumSet(LAMBDA t : costs[t], Tasks)

\* __init__: each task before it is tuned.
Zero == [t \in Tasks |-> 0]
NoHistory == [t \in Tasks |-> <<>>]
NoCosts == [t \in Tasks |-> Infinity]

Init ==
  /\ strategy \in {"round-robin", "gradient"} /\ pc = "idle" /\ calls = 0
  /\ task_cts = Zero /\ task_best_cts = Zero /\ task_costs_history = NoHistory
  /\ best_costs = NoCosts /\ dead_tasks = {}
  /\ ct = 0 /\ best_ct = 0 /\ best_score = 0 /\ num_measures_per_round = 0 /\ task_idx = 0
  /\ load_log_file = FALSE /\ restarts = 0 /\ turns = Zero
  /\ log = [t \in Tasks |-> [len |-> 0, best |-> Infinity, at |-> 0]]

----------------------------------------------------------------------------
\* int(n / m + 0.5)
Rounded(n, m) == (2 * n + m) \div (2 * m)

\* The best cost of a task after its records are read.
RestoredCostOld(t) == best_costs[t]  \* mutant: the records only count
RestoredCost(t) == min(best_costs[t], log[t].best)

\* The count of the best round, in rounds.
BestRoundsRaw(n, m) == n  \* mutant: left in measurements
BestRounds(n, m) == Rounded(n, m)

\* _restore_status: the records are counted on top of what is there, and the
\* counts turned from measurements into rounds.
RestoreStatus(n) ==
  LET cts(t) == task_cts[t] + log[t].len
      better(t) == log[t].best < best_costs[t]
      best_cts(t) == IF better(t) THEN task_cts[t] + log[t].at ELSE task_best_cts[t]
  IN
  /\ best_costs' = [t \in Tasks |-> RestoredCost(t)]
  /\ dead_tasks' = dead_tasks \cup {t \in Tasks : cts(t) - best_cts(t) > EarlyStopTask}
  /\ task_cts' = [t \in Tasks |-> Rounded(cts(t), n)]
  /\ task_best_cts' = [t \in Tasks |-> BestRounds(best_cts(t), n)]
  /\ task_costs_history' =
       [t \in Tasks |-> Append(task_costs_history[t], best_costs'[t])]

\* num_measures_per_round, cut so that the warm up fits the budget.
RoundSizeUncut(m) == m  \* mutant: as the option says
RoundSize(m) == min(m, NumMeasureTrials \div NumTasks)

BestCtKept == best_ct  \* mutant: not reset
BestCtAtStart == 0

\* tune, up to the warm up.
Start ==
  /\ pc = "idle" /\ calls < MaxCalls
  /\ pc' = "warm" /\ calls' = calls + 1 /\ task_idx' = 0
  /\ ct' = 0 /\ best_ct' = BestCtAtStart /\ UNCHANGED best_score
  /\ \E m \in MeasuresPerRound :
       LET n == RoundSize(m) IN
       /\ num_measures_per_round' = n
       /\ IF load_log_file THEN RestoreStatus(n) ELSE UNCHANGED taskVars
  /\ turns' = [t \in Tasks |-> 0]
  /\ UNCHANGED <<strategy, load_log_file, log, restarts>>

\* A cost in a round counts as an improvement.
ImprovesWorse(cost, best) == cost # Infinity  \* mutant: any cost counts
Improves(cost, best) == cost < best

\* The measurements of a round go to the log before the scheduler sees them.
Logged(l, m, cost, at) ==
  [len |-> l.len + m, best |-> min(l.best, cost),
   at |-> IF cost < l.best THEN l.len + at ELSE l.at]

\* The task is given up: nothing left to measure, or no improvement for long.
GivenUp(m, cts, best_cts) ==
  m = 0 \/ (cts - best_cts) * num_measures_per_round > EarlyStopTask

\* _tune_task: m schedules are measured, the best of them at position `at`.
TuneTask(t, m, cost, at) ==
  LET cts == task_cts[t] + 1
      better == Improves(cost, best_costs[t])
      best == IF better THEN cost ELSE best_costs[t]
      best_cts == IF better THEN cts ELSE task_best_cts[t]
  IN
  /\ task_cts' = [task_cts EXCEPT ![t] = cts]
  /\ best_costs' = [best_costs EXCEPT ![t] = best]
  /\ task_best_cts' = [task_best_cts EXCEPT ![t] = best_cts]
  /\ dead_tasks' = IF GivenUp(m, cts, best_cts) THEN dead_tasks \cup {t} ELSE dead_tasks
  /\ task_costs_history' = [task_costs_history EXCEPT ![t] = Append(@, best)]
  /\ ct' = ct + m
  /\ log' = [log EXCEPT ![t] = Logged(@, m, cost, at)]

\* What a round may measure: nothing, or some schedules, the best at `at`.
SearchRound(t) ==
  \/ TuneTask(t, 0, Infinity, 0)
  \/ \E m \in 1..num_measures_per_round, cost \in 1..Infinity :
       \E at \in 1..m : TuneTask(t, m, cost, at)

NeedsWarmUpNever(t) == FALSE  \* mutant: the warm up is left out
NeedsWarmUp(t) == task_cts[t] = 0

AfterWarmUpTuned(t) == IF NeedsWarmUp(t) THEN t + 1 ELSE t  \* mutant: no step past a restored task
AfterWarmUp(t) == t + 1

\* The warm up: each task once, unless the log has rounds of it.
WarmUp ==
  /\ pc = "warm" /\ task_idx < NumTasks
  /\ \/ NeedsWarmUp(task_idx) /\ SearchRound(task_idx)
     \/ ~NeedsWarmUp(task_idx) /\ UNCHANGED <<taskVars, ct, log>>
  /\ task_idx' = AfterWarmUp(task_idx)
  /\ UNCHANGED <<strategy, pc, calls, best_ct, best_score, num_measures_per_round,
                 load_log_file, restarts, turns>>

WarmUpEnds ==
  /\ pc = "warm" /\ task_idx = NumTasks
  /\ pc' = "loop" /\ task_idx' = -1
  /\ best_ct' = ct /\ best_score' = Score(best_costs)
  /\ UNCHANGED <<strategy, calls, taskVars, ct, num_measures_per_round, load_log_file,
                 log, restarts, turns>>

\* The next task: round robin skips the dead ones, the gradient does not
\* when all gradients are equal and the choice is random.
NextOf(t) == (t + 1) % NumTasks
RoundRobinRestarts(t) == Min(Tasks \ dead_tasks)  \* mutant: it starts over every time
RoundRobinNextDead(t) == NextOf(t)  \* mutant: dead tasks are not skipped
RoundRobinNext(t) ==
  LET skip[k \in 0..NumTasks] ==
        IF k = 0 THEN NextOf(t)
        ELSE IF skip[k - 1] \in dead_tasks THEN NextOf(skip[k - 1]) ELSE skip[k - 1]
  IN skip[NumTasks]
Selected(t) ==
  \/ strategy = "round-robin" /\ t = RoundRobinNext(task_idx)
  \/ strategy = "gradient" /\ (t \notin dead_tasks \/ turns[t] < DeadRounds)

KeepsGoing == ct < NumMeasureTrials /\ Cardinality(dead_tasks) < NumTasks

\* A round of the loop, with the check for an early end of it all.
LoopRound(t) ==
  LET score == Score(best_costs') IN
  /\ pc = "loop" /\ KeepsGoing /\ Selected(t)
  /\ SearchRound(t)
  /\ task_idx' = t
  /\ turns' = [turns EXCEPT ![t] = @ + 1]
  /\ IF score < best_score
       THEN pc' = pc /\ best_score' = score /\ best_ct' = ct'
       ELSE /\ pc' = IF /\ ct' - best_ct >= EarlyStopAll
                        /\ \A u \in Tasks : best_costs'[u] < Infinity
                       THEN "idle" ELSE pc
            /\ UNCHANGED <<best_score, best_ct>>
  /\ UNCHANGED <<strategy, calls, num_measures_per_round, load_log_file, restarts>>

LoopEnds ==
  /\ pc = "loop" /\ ~KeepsGoing
  /\ pc' = "idle"
  /\ UNCHANGED <<strategy, calls, taskVars, tuneVars, load_log_file, log, restarts, turns>>

\* The process dies, and another is started with the log file.
Crash ==
  /\ pc # "idle" /\ restarts < MaxRestarts
  /\ restarts' = restarts + 1 /\ load_log_file' = TRUE
  /\ pc' = "idle"
  /\ task_cts' = Zero /\ task_best_cts' = Zero /\ task_costs_history' = NoHistory
  /\ best_costs' = NoCosts /\ dead_tasks' = {}
  /\ ct' = 0 /\ best_ct' = 0 /\ best_score' = 0 /\ num_measures_per_round' = 0
  /\ task_idx' = 0 /\ turns' = Zero
  /\ UNCHANGED <<strategy, calls, log>>

TuneStep == WarmUp \/ WarmUpEnds \/ LoopEnds \/ \E t \in Tasks : LoopRound(t)
Next == Start \/ TuneStep \/ Crash

\* A call of tune that can go on does.
Spec == Init /\ [][Next]_vars /\ WF_vars(TuneStep)

----------------------------------------------------------------------------
\* The type of the state.
TypeOK ==
  /\ pc \in {"idle", "warm", "loop"} /\ strategy \in {"round-robin", "gradient"}
  /\ task_cts \in [Tasks -> Nat] /\ task_best_cts \in [Tasks -> Nat]
  /\ best_costs \in [Tasks -> 1..Infinity]
  /\ task_costs_history \in [Tasks -> Seq(1..Infinity)]
  /\ dead_tasks \subseteq Tasks
  /\ ct \in Nat /\ best_ct \in 0..ct /\ best_score \in Nat
  /\ num_measures_per_round \in Nat /\ task_idx \in -1..NumTasks

\* "make sure every task is tuned at least once": in the loop no count is 0,
\* so the gradients divide by none, however the log rounds.
EveryTaskTuned == pc = "loop" => \A t \in Tasks : task_cts[t] >= 1

\* "assert grad <= 0", as far as the backward term goes: the difference of the
\* history is never positive, restored rounds, whose history is missing,
\* included.  The other factors, chain_grad of the objective function, which
\* a user may define, and forward_grad, are not modelled.
GradientAssertion ==
  pc = "loop" =>
    \A t \in Tasks :
      LET i == task_cts[t] - 1
          h == task_costs_history[t]
      IN i < Len(h) /\ i - BackwardWindow >= 0 =>
           h[i + 1] <= h[i - BackwardWindow + 1]

\* No improvement is later than the rounds there were, so the trials without
\* one are never negative.
BestNotInFuture == \A t \in Tasks : task_best_cts[t] <= task_cts[t]

\* The best cost of every task is the best ever measured, in this process or
\* in one that crashed.
NothingLostInCrash ==
  pc # "idle" => \A t \in Tasks : best_costs[t] = log[t].best

\* The budget is exceeded by less than one round, and not by the warm up.
BudgetHolds ==
  /\ pc = "warm" => ct <= NumMeasureTrials
  /\ pc = "loop" => ct < NumMeasureTrials + num_measures_per_round

\* Round robin is fair: since the warm up no live task has had two rounds
\* more than another.
RoundRobinFair ==
  strategy = "round-robin" =>
    \A t, u \in Tasks \ dead_tasks : turns[t] <= turns[u] + 1

\* Round robin: a task that was given up gets no more rounds in the loop.
DeadStaysDead ==
  [][\A t \in dead_tasks :
       strategy = "round-robin" /\ pc = "loop" /\ restarts' = restarts =>
         task_cts'[t] = task_cts[t]]_vars

\* The comment in _tune_task, for both strategies: "Stop tuning this task in
\* the rest of the process if its search space has been fully explored or it
\* has no improvement for a long while."
DeadInEveryStrategy ==
  [][\A t \in dead_tasks :
       pc = "loop" /\ restarts' = restarts => task_cts'[t] = task_cts[t]]_vars

\* Every call of tune ends, unless the process dies.
TuneEnds == pc = "warm" ~> pc = "idle"

\* The doc of TuningOptions.num_measure_trials: "The search policy measures
\* `num_measure_trials` schedules in total".
TrialsInTotal == ct <= NumMeasureTrials
============================================================================
