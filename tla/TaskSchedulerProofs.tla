------------------------ MODULE TaskSchedulerProofs ------------------------
(***************************************************************************)
(* Proofs about TaskScheduler, for any number of tasks, any budget and any *)
(* sequence of crashes.                                                    *)
(***************************************************************************)
EXTENDS TaskScheduler, FiniteSetTheorems, WellFoundedInduction, TLAPS

\* TypeOK, with the types of the log and of the history.
Types ==
  /\ TypeOK
  /\ log \in [Tasks -> [len : Nat, best : 1..Infinity, at : Nat]]
  /\ load_log_file \in BOOLEAN /\ turns \in [Tasks -> Nat] /\ restarts \in Nat

\* The best record of the log is one of its records.
LogInv == \A t \in Tasks : log[t].at <= log[t].len

\* A process that has just started knows less than the log; one that never had
\* a predecessor, or has read the log, knows as much.
CostInv ==
  \A t \in Tasks :
    /\ log[t].best <= best_costs[t]
    /\ pc # "idle" \/ ~load_log_file => best_costs[t] = log[t].best

\* A history never rises, and ends at or above the best cost.
Falling(h, low) == \A b \in DOMAIN h : low <= h[b] /\ \A a \in 1..b : h[b] <= h[a]
HistoryInv == \A t \in Tasks : Falling(task_costs_history[t], best_costs[t])

\* The warm up has tuned the tasks it has passed.
TunedInv ==
  /\ EveryTaskTuned
  /\ pc = "warm" =>
       task_idx \in 0..NumTasks /\ \A t \in Tasks : t < task_idx => task_cts[t] >= 1

\* A round is small enough for one round of each task to fit the budget.
SizeInv ==
  pc # "idle" => num_measures_per_round >= 1 /\ num_measures_per_round * NumTasks <= NumMeasureTrials

BudgetInv ==
  /\ pc = "warm" => ct <= task_idx * num_measures_per_round
  /\ pc = "loop" => ct < NumMeasureTrials + num_measures_per_round

\* The live tasks up to the last one tuned have had one round more than those
\* behind it.
TurnsInv ==
  /\ pc = "warm" => \A t \in Tasks : turns[t] = 0
  /\ pc = "loop" =>
       /\ task_idx \in -1..(NumTasks - 1)
       /\ strategy = "round-robin" =>
            \A t, u \in Tasks \ dead_tasks :
              /\ t <= task_idx /\ u <= task_idx => turns[t] = turns[u]
              /\ t > task_idx /\ u > task_idx => turns[t] = turns[u]
              /\ t <= task_idx /\ u > task_idx => turns[t] = turns[u] + 1
  /\ RoundRobinFair

Inv ==
  /\ Types /\ LogInv /\ CostInv /\ HistoryInv /\ BestNotInFuture
  /\ TunedInv /\ SizeInv /\ BudgetInv /\ TurnsInv

----------------------------------------------------------------------------
(***************************************************************************)
(* Induction over the natural numbers, from the well-foundedness of <.     *)
(***************************************************************************)
LEMMA LeastElement ==
  ASSUME NEW T, T \subseteq Nat, T # {}
  PROVE  \E n \in T : \A m \in T : n <= m
<1> DEFINE R == OpToRel(<, Nat)
<1>1. IsWellFoundedOn(R, Nat)
  BY NatLessThanWellFounded
<1>2. \A x, y \in Nat : y < x => <<y, x>> \in R
  BY DEF OpToRel
<1> HIDE DEF R
<1>3. PICK n \in T : \A m \in T : ~ (<<m, n>> \in R)
  BY <1>1, WFMin
<1>4. \A m \in T : m \in Nat /\ n \in Nat /\ ~ (m < n)
  BY <1>2, <1>3
<1> QED
  BY <1>4

LEMMA SetInduction ==
  ASSUME NEW S, 0 \in S, \A n \in Nat : n \in S => n + 1 \in S
  PROVE  Nat \subseteq S
<1> DEFINE T == Nat \ S
<1> SUFFICES ASSUME T # {} PROVE FALSE
  OBVIOUS
<1>1. PICK n \in T : \A m \in T : n <= m
  BY LeastElement
<1>2. n # 0 /\ n - 1 \in Nat /\ n - 1 \notin T
  BY <1>1
<1> QED
  BY <1>1, <1>2

----------------------------------------------------------------------------
(***************************************************************************)
(* The operators.                                                          *)
(***************************************************************************)
LEMMA TasksFinite ==
  /\ NumTasks \in Nat \ {0} /\ NumMeasureTrials \in Nat /\ NumMeasureTrials >= NumTasks
  /\ Infinity \in Nat \ {0} /\ IsFiniteSet(Tasks) /\ Cardinality(Tasks) = NumTasks
<1>1. /\ NumTasks \in Nat \ {0} /\ NumMeasureTrials \in Nat /\ NumMeasureTrials >= NumTasks
      /\ MaxCost \in Nat \ {0}
  BY SchedulerAssumption
<1>2. IsFiniteSet(Tasks) /\ Cardinality(Tasks) = NumTasks
  BY <1>1, FS_Interval DEF Tasks
<1> QED
  BY <1>1, <1>2 DEF Infinity

\* The sum that the objective function takes of the best costs is a number:
\* by induction on the size of the sets that MapThenSumSet takes apart.
LEMMA ScoreType ==
  ASSUME NEW costs \in [Tasks -> Nat]
  PROVE  Score(costs) \in Nat
<1> DEFINE All == SUBSET Tasks
           pick(s) == CHOOSE x \in s : TRUE
           cost(s) == costs[pick(s)]
           rest(s) == s \ {pick(s)}
           def(g, s) == IF s = {} THEN 0 ELSE cost(s) + g[rest(s)]
           iter[s \in SUBSET Tasks] == IF s = {} THEN 0
                                       ELSE LET x == CHOOSE x \in s : TRUE
                                            IN costs[x] + iter[s \ {x}]
<1>1. Score(costs) = iter[Tasks]
  BY DEF Score, MapThenSumSet, MapThenFoldSet
<1>2. iter = CHOOSE g : g = [s \in All |-> def(g, s)]
  OBVIOUS
<1>3. \A s \in All : /\ IsFiniteSet(s) /\ Cardinality(s) \in 0..NumTasks
                     /\ Cardinality(s) = 0 <=> s = {}
  BY TasksFinite, FS_Subset, FS_CardinalityType, FS_EmptySet
<1>4. \A s \in All : s # {} => /\ cost(s) \in Nat /\ rest(s) \in All
                              /\ Cardinality(rest(s)) = Cardinality(s) - 1
  <2> SUFFICES ASSUME NEW s \in All, s # {}
               PROVE  /\ cost(s) \in Nat /\ rest(s) \in All
                      /\ Cardinality(rest(s)) = Cardinality(s) - 1
    OBVIOUS
  <2>1. pick(s) \in s
    OBVIOUS
  <2> HIDE DEF pick
  <2> QED
    BY <1>3, <2>1, FS_RemoveElement
<1>5. Tasks \in All
  OBVIOUS
<1> HIDE DEF iter, pick, cost, rest, All
<1> DEFINE partial(g, m) ==
             \A s \in All : Cardinality(s) <= m => g[s] \in Nat /\ g[s] = def(g, s)
           P == {m \in Nat : \E g : partial(g, m)}
<1>6. 0 \in P
  <2> DEFINE g == [s \in All |-> 0]
  <2>1. \A s \in All : Cardinality(s) <= 0 => s = {}
    BY <1>3, TasksFinite
  <2>2. partial(g, 0)
    BY <2>1
  <2> QED
    BY <2>2
<1>7. ASSUME NEW m \in Nat, m \in P PROVE m + 1 \in P
  <2>1. PICK g : partial(g, m)
    BY <1>7
  <2> DEFINE h == [s \in All |-> def(g, s)]
  <2>2. ASSUME NEW s \in All, Cardinality(s) <= m + 1, s # {}
        PROVE  rest(s) \in All /\ Cardinality(rest(s)) <= m
    BY <1>3, <1>4, <2>2, TasksFinite
  <2>3. \A s \in All : Cardinality(s) <= m => h[s] = g[s]
    BY <2>1
  <2>4. ASSUME NEW s \in All, Cardinality(s) <= m + 1
        PROVE  h[s] \in Nat /\ h[s] = def(h, s)
    <3>1. CASE s = {}
      BY <3>1
    <3>2. CASE s # {}
      <4>1. rest(s) \in All /\ g[rest(s)] \in Nat /\ h[rest(s)] = g[rest(s)]
        BY <2>1, <2>2, <2>3, <2>4, <3>2
      <4>2. cost(s) \in Nat
        BY <1>4, <3>2
      <4>3. h[s] = cost(s) + g[rest(s)]
        BY <3>2
      <4> HIDE DEF h
      <4> QED
        BY <3>2, <4>1, <4>2, <4>3
    <3> QED
      BY <3>1, <3>2
  <2> HIDE DEF h
  <2>5. partial(h, m + 1)
    BY <2>4
  <2> QED
    BY <2>5
<1>8. NumTasks \in P
  <2> HIDE DEF P
  <2>1. Nat \subseteq P
    BY <1>6, <1>7, SetInduction
  <2> QED
    BY <2>1, TasksFinite
<1>9. PICK g : partial(g, NumTasks)
  BY <1>8
<1>10. \A s \in All : g[s] \in Nat /\ g[s] = def(g, s)
  BY <1>3, <1>9, TasksFinite
<1>11. \E f : f = [s \in All |-> def(f, s)]
  <2> DEFINE f == [s \in All |-> g[s]]
  <2>1. \A s \in All : f[s] = def(f, s)
    BY <1>4, <1>10
  <2>2. f = [s \in All |-> def(f, s)]
    <3>1. f = [s \in All |-> f[s]]
      OBVIOUS
    <3> HIDE DEF f
    <3> QED
      BY <2>1, <3>1
  <2> QED
    BY <2>2
<1>12. iter = [s \in All |-> def(iter, s)]
  <2> DEFINE C(f) == f = [s \in All |-> def(f, s)]
  <2>1. \E f : C(f)
    BY <1>11
  <2>2. iter = CHOOSE f : C(f)
    BY <1>2
  <2> HIDE DEF C
  <2>3. C(iter)
    BY <2>1, <2>2
  <2> QED
    BY <2>3 DEF C
<1>13. \A s \in All : iter[s] = def(iter, s)
  BY <1>12
<1> DEFINE Q == {m \in Nat : \A s \in All : Cardinality(s) <= m => iter[s] \in Nat}
<1>14. 0 \in Q
  BY <1>3, <1>13, TasksFinite
<1>15. ASSUME NEW m \in Nat, m \in Q PROVE m + 1 \in Q
  <2> SUFFICES ASSUME NEW s \in All, Cardinality(s) <= m + 1 PROVE iter[s] \in Nat
    OBVIOUS
  <2>1. s # {} => rest(s) \in All /\ Cardinality(rest(s)) <= m /\ cost(s) \in Nat
    BY <1>3, <1>4, TasksFinite
  <2>2. s # {} => iter[rest(s)] \in Nat
    BY <1>15, <2>1
  <2> QED
    BY <1>13, <2>1, <2>2
<1>16. NumTasks \in Q
  <2> HIDE DEF Q
  <2>1. Nat \subseteq Q
    BY <1>14, <1>15, SetInduction
  <2> QED
    BY <2>1, TasksFinite
<1> QED
  BY <1>1, <1>3, <1>5, <1>16, TasksFinite

\* int(n / m + 0.5) keeps the order of counts.
LEMMA RoundedLemma ==
  ASSUME NEW n \in Nat, NEW k \in Nat, NEW m \in Nat \ {0}, k <= n
  PROVE  Rounded(n, m) \in Nat /\ Rounded(k, m) \in Nat /\ Rounded(k, m) <= Rounded(n, m)
<1> DEFINE d == 2 * m
           a == 2 * k + m
           b == 2 * n + m
<1>1. d \in Nat \ {0} /\ a \in Nat /\ b \in Nat /\ a <= b
  OBVIOUS
<1> HIDE DEF a, b, d
<1>2. a \div d \in Nat /\ b \div d \in Nat /\ a \div d <= b \div d
  BY <1>1, SMT
<1> QED
  BY <1>2 DEF Rounded, a, b, d

\* A round is not empty, and a round of each task fits the budget.
LEMMA RoundSizeLemma ==
  ASSUME NEW m \in Nat \ {0}
  PROVE  /\ RoundSize(m) \in Nat /\ RoundSize(m) >= 1
         /\ RoundSize(m) * NumTasks <= NumMeasureTrials
<1> DEFINE q == NumMeasureTrials \div NumTasks
<1>1. q \in Nat /\ q >= 1 /\ q * NumTasks <= NumMeasureTrials
  BY TasksFinite, SMT
<1>2. RoundSize(m) = IF m < q THEN m ELSE q
  BY DEF RoundSize, min
<1> HIDE DEF q
<1>3. RoundSize(m) \in Nat /\ RoundSize(m) >= 1 /\ RoundSize(m) <= q
  BY <1>1, <1>2
<1>4. RoundSize(m) * NumTasks <= q * NumTasks
  BY <1>1, <1>3, TasksFinite, SMT
<1>5. RoundSize(m) * NumTasks \in Nat /\ q * NumTasks \in Nat
  BY <1>1, <1>3, TasksFinite
<1> QED
  BY <1>1, <1>3, <1>4, <1>5, TasksFinite

\* The task after t, in a circle.
LEMMA NextOfLemma ==
  ASSUME NEW t \in -1..(NumTasks - 1)
  PROVE  NextOf(t) = IF t + 1 < NumTasks THEN t + 1 ELSE 0
<1>1. CASE t + 1 < NumTasks
  BY <1>1, TasksFinite, SMT DEF NextOf
<1>2. CASE t + 1 = NumTasks
  BY <1>2, TasksFinite, SMT DEF NextOf
<1> QED
  BY <1>1, <1>2, TasksFinite

\* While the loop keeps going some task is alive.
LEMMA SomeTaskLives ==
  ASSUME dead_tasks \subseteq Tasks, KeepsGoing
  PROVE  \E t \in Tasks : t \notin dead_tasks
<1> SUFFICES ASSUME dead_tasks = Tasks PROVE FALSE
  OBVIOUS
<1> QED
  BY TasksFinite DEF KeepsGoing

\* Round robin finds the next live task: those it passes, up to the end and
\* from the start again, are dead.  By induction on the steps of the search.
LEMMA RoundRobinNextLemma ==
  ASSUME NEW x \in -1..(NumTasks - 1), dead_tasks \subseteq Tasks,
         \E t \in Tasks : t \notin dead_tasks
  PROVE  LET r == RoundRobinNext(x) IN
         /\ r \in Tasks \ dead_tasks
         /\ \/ x < r /\ \A u \in Tasks : x < u /\ u < r => u \in dead_tasks
            \/ r <= x /\ \A u \in Tasks : x < u \/ u < r => u \in dead_tasks
<1> DEFINE N == NumTasks
           def(f, k) == IF k = 0 THEN NextOf(x)
                        ELSE IF f[k - 1] \in dead_tasks THEN NextOf(f[k - 1]) ELSE f[k - 1]
           skip[k \in 0..NumTasks] ==
             IF k = 0 THEN NextOf(x)
             ELSE IF skip[k - 1] \in dead_tasks THEN NextOf(skip[k - 1]) ELSE skip[k - 1]
<1>1. RoundRobinNext(x) = skip[NumTasks]
  BY DEF RoundRobinNext
<1>2. skip = CHOOSE f : f = [k \in 0..N |-> def(f, k)]
  OBVIOUS
<1> HIDE DEF skip
<1>3. N \in Nat \ {0}
  BY TasksFinite
<1> HIDE DEF N
<1> DEFINE P == {m \in Nat : \E f : \A k \in 0..m : f[k] = def(f, k)}
<1>4. 0 \in P
  <2> DEFINE f == [k \in 0..0 |-> NextOf(x)]
  <2>1. \A k \in 0..0 : f[k] = def(f, k)
    OBVIOUS
  <2> QED
    BY <2>1
<1>5. ASSUME NEW m \in Nat, m \in P PROVE m + 1 \in P
  <2>1. PICK f : \A k \in 0..m : f[k] = def(f, k)
    BY <1>5
  <2> DEFINE h == [k \in 0..(m + 1) |-> IF k <= m THEN f[k] ELSE def(f, k)]
  <2>2. ASSUME NEW k \in 0..(m + 1) PROVE h[k] = def(h, k)
    <3>1. k # 0 => k - 1 \in 0..(m + 1) /\ k - 1 <= m /\ h[k - 1] = f[k - 1]
      OBVIOUS
    <3>2. h[k] = def(f, k)
      BY <2>1
    <3> HIDE DEF h
    <3> QED
      BY <3>1, <3>2
  <2> HIDE DEF h
  <2> QED
    BY <2>2
<1>6. N \in P
  <2> HIDE DEF P
  <2>1. Nat \subseteq P
    BY <1>4, <1>5, SetInduction
  <2> QED
    BY <1>3, <2>1
<1>7. PICK g : \A k \in 0..N : g[k] = def(g, k)
  BY <1>6
<1>8. \E f : f = [k \in 0..N |-> def(f, k)]
  <2> DEFINE f == [k \in 0..N |-> g[k]]
  <2>1. ASSUME NEW k \in 0..N PROVE f[k] = def(f, k)
    <3>1. k # 0 => k - 1 \in 0..N
      BY <1>3
    <3> QED
      BY <1>7, <3>1
  <2>2. f = [k \in 0..N |-> f[k]]
    OBVIOUS
  <2> HIDE DEF f
  <2> QED
    BY <2>1, <2>2
<1>9. skip = [k \in 0..N |-> def(skip, k)]
  <2> DEFINE C(f) == f = [k \in 0..N |-> def(f, k)]
  <2>1. \E f : C(f)
    BY <1>8
  <2>2. skip = CHOOSE f : C(f)
    BY <1>2
  <2> HIDE DEF C
  <2>3. C(skip)
    BY <2>1, <2>2
  <2> QED
    BY <2>3 DEF C
<1>10. \A k \in 0..N : skip[k] = def(skip, k)
  BY <1>9
<1> DEFINE ahead(r, k) == /\ x < r /\ \A u \in Tasks : x < u /\ u < r => u \in dead_tasks
                          /\ r \in dead_tasks => r >= x + 1 + k
           wrapped(r, k) == /\ r <= x /\ \A u \in Tasks : x < u \/ u < r => u \in dead_tasks
                            /\ r \in dead_tasks => r >= x + 1 + k - N
           found(k) == skip[k] \in Tasks /\ (ahead(skip[k], k) \/ wrapped(skip[k], k))
           Q == {k \in Nat : k <= N => found(k)}
<1>11. 0 \in Q
  <2>1. skip[0] = IF x + 1 < N THEN x + 1 ELSE 0
    BY <1>3, <1>10, NextOfLemma DEF N
  <2>2. found(0)
    BY <1>3, <2>1 DEF Tasks, N
  <2> QED
    BY <2>2
<1>12. ASSUME NEW k \in Nat, k \in Q PROVE k + 1 \in Q
  <2> SUFFICES ASSUME k + 1 <= N PROVE found(k + 1)
    OBVIOUS
  <2>1. found(k) /\ k \in 0..N /\ k + 1 \in 0..N /\ k + 1 # 0 /\ (k + 1) - 1 = k
    BY <1>3, <1>12
  <2> DEFINE r == skip[k]
             s == skip[k + 1]
  <2>2. s = IF r \in dead_tasks THEN NextOf(r) ELSE r
    BY <1>10, <2>1
  <2>3. r \in 0..(N - 1)
    BY <2>1 DEF Tasks, N
  <2> HIDE DEF r, s
  <2>4. CASE r \notin dead_tasks
    BY <1>3, <2>1, <2>2, <2>4 DEF r, s
  <2>5. CASE r \in dead_tasks
    <3>1. s = IF r + 1 < N THEN r + 1 ELSE 0
      BY <1>3, <2>2, <2>3, <2>5, NextOfLemma DEF N
    <3>2. s \in Tasks
      BY <1>3, <2>3, <3>1 DEF Tasks, N
    <3>3. CASE ahead(r, k)
      <4>1. CASE r + 1 < N
        <5>1. ahead(s, k + 1)
          BY <1>3, <2>3, <2>5, <3>1, <3>3, <4>1 DEF Tasks, N
        <5> QED
          BY <3>2, <5>1 DEF s
      <4>2. CASE r + 1 = N
        <5>1. \A u \in Tasks : x < u => u \in dead_tasks
          BY <1>3, <2>3, <2>5, <3>3, <4>2 DEF Tasks, N
        <5>2. x # -1
          BY <5>1 DEF Tasks
        <5>3. wrapped(s, k + 1)
          BY <1>3, <2>3, <2>5, <3>1, <3>3, <4>2, <5>1, <5>2 DEF Tasks, N
        <5> QED
          BY <3>2, <5>3 DEF s
      <4> QED
        BY <1>3, <2>3, <4>1, <4>2
    <3>4. CASE wrapped(r, k)
      <4>1. r # x
        <5> SUFFICES ASSUME r = x PROVE FALSE
          OBVIOUS
        <5>1. \A u \in Tasks : u \in dead_tasks
          BY <2>3, <2>5, <3>4 DEF Tasks, N
        <5> QED
          BY <5>1
      <4>2. r + 1 < N /\ r + 1 <= x
        BY <1>3, <2>3, <3>4, <4>1 DEF N
      <4>3. wrapped(s, k + 1)
        BY <1>3, <2>3, <2>5, <3>1, <3>4, <4>2 DEF Tasks, N
      <4> QED
        BY <3>2, <4>3 DEF s
    <3> QED
      BY <2>1, <3>3, <3>4 DEF r
  <2> QED
    BY <2>4, <2>5
<1>13. found(N)
  <2> HIDE DEF Q
  <2>1. N \in Q
    BY <1>3, <1>11, <1>12, SetInduction
  <2> QED
    BY <1>3, <2>1 DEF Q
<1>14. skip[N] \notin dead_tasks
  BY <1>3, <1>13 DEF Tasks, N
<1> QED
  BY <1>1, <1>13, <1>14 DEF N

----------------------------------------------------------------------------
(***************************************************************************)
(* The steps preserve the invariant.                                       *)
(***************************************************************************)
\* The types of what is kept of each task.
TaskTypes ==
  /\ task_cts \in [Tasks -> Nat] /\ task_best_cts \in [Tasks -> Nat]
  /\ best_costs \in [Tasks -> 1..Infinity]
  /\ task_costs_history \in [Tasks -> Seq(1..Infinity)]
  /\ dead_tasks \subseteq Tasks
  /\ log \in [Tasks -> [len : Nat, best : 1..Infinity, at : Nat]]

LEMMA InitInv == Init => Inv
<1> SUFFICES ASSUME Init PROVE Inv
  OBVIOUS
<1> USE TasksFinite DEF Init, Zero, NoHistory, NoCosts
<1>1. 0 \in Nat /\ Infinity \in 1..Infinity /\ <<>> \in Seq(1..Infinity)
  OBVIOUS
<1>2. log \in [Tasks -> [len : Nat, best : 1..Infinity, at : Nat]]
  BY <1>1
<1>3. TypeOK
  BY <1>1 DEF TypeOK
<1>4. Types
  BY <1>2, <1>3 DEF Types
<1>5. LogInv /\ CostInv /\ HistoryInv /\ BestNotInFuture
  BY DEF LogInv, CostInv, HistoryInv, Falling, BestNotInFuture
<1>6. TunedInv /\ SizeInv /\ BudgetInv /\ TurnsInv
  BY DEF TunedInv, EveryTaskTuned, SizeInv, BudgetInv, TurnsInv, RoundRobinFair
<1> QED
  BY <1>4, <1>5, <1>6 DEF Inv

\* A history stays in order when the new best cost is appended to it.
LEMMA HistoryGrows ==
  ASSUME NEW h \in Seq(1..Infinity), NEW old \in 1..Infinity, NEW new \in 1..Infinity,
         new <= old, Falling(h, old)
  PROVE  Append(h, new) \in Seq(1..Infinity) /\ Falling(Append(h, new), new)
<1> DEFINE h2 == Append(h, new)
<1>0. h2 \in Seq(1..Infinity) /\ Len(h2) = Len(h) + 1
  OBVIOUS
<1>1. /\ Len(h) \in Nat /\ DOMAIN h = 1..Len(h)
      /\ DOMAIN h2 = 1..(Len(h) + 1) /\ h2[Len(h) + 1] = new
      /\ \A b \in 1..Len(h) : h2[b] = h[b] /\ h[b] \in 1..Infinity
  <2>1. Len(h) \in Nat /\ DOMAIN h = 1..Len(h)
    OBVIOUS
  <2>2. DOMAIN h2 = 1..(Len(h) + 1)
    BY <1>0
  <2>3. h2[Len(h) + 1] = new /\ \A b \in 1..Len(h) : h2[b] = h[b]
    OBVIOUS
  <2>4. \A b \in 1..Len(h) : h[b] \in 1..Infinity
    <3> DEFINE costs == 1..Infinity
    <3>1. h \in Seq(costs)
      OBVIOUS
    <3> HIDE DEF costs
    <3>2. \A b \in 1..Len(h) : h[b] \in costs
      BY <3>1
    <3> QED
      BY <3>2 DEF costs
  <2> QED
    BY <2>1, <2>2, <2>3, <2>4
<1> HIDE DEF h2
<1>2. \A b \in 1..Len(h) : new <= h2[b]
  BY <1>1, TasksFinite, SMTT(30) DEF Falling
<1>3. ASSUME NEW b \in DOMAIN h2 PROVE new <= h2[b] /\ \A a \in 1..b : h2[b] <= h2[a]
  <2>1. CASE b = Len(h) + 1
    <3>1. \A a \in 1..b : a \in 1..Len(h) \/ a = b
      BY <1>1, <2>1
    <3> QED
      BY <1>1, <1>2, <2>1, <3>1, TasksFinite
  <2>2. CASE b \in 1..Len(h)
    <3>1. \A a \in 1..b : a \in 1..Len(h)
      BY <1>1, <2>2
    <3> QED
      BY <1>1, <1>2, <2>2, <3>1 DEF Falling
  <2> QED
    BY <1>1, <2>1, <2>2
<1>4. Falling(h2, new)
  BY <1>3 DEF Falling
<1> QED
  BY <1>0, <1>4 DEF h2

\* A round of a task: the best cost stays that of the log, whose records the
\* round has joined.
LEMMA TuneTaskStep ==
  ASSUME Inv, pc # "idle", NEW t \in Tasks, SearchRound(t)
  PROVE  /\ TaskTypes' /\ LogInv' /\ HistoryInv' /\ BestNotInFuture'
         /\ \A u \in Tasks : best_costs'[u] = log'[u].best
         /\ ct' \in ct..(ct + num_measures_per_round)
         /\ dead_tasks \subseteq dead_tasks' /\ dead_tasks' \subseteq dead_tasks \cup {t}
         /\ \A u \in Tasks : task_cts'[u] = IF u = t THEN task_cts[u] + 1 ELSE task_cts[u]
<1>1. /\ num_measures_per_round \in Nat /\ ct \in Nat /\ TaskTypes
      /\ LogInv /\ HistoryInv /\ BestNotInFuture /\ \A u \in Tasks : best_costs[u] = log[u].best
  BY DEF Inv, Types, TypeOK, TaskTypes, CostInv
<1>2. PICK m \in 0..num_measures_per_round, cost \in 1..Infinity, at \in Nat :
        at <= m /\ TuneTask(t, m, cost, at)
  <2>1. CASE TuneTask(t, 0, Infinity, 0)
    <3>1. 0 \in 0..num_measures_per_round /\ Infinity \in 1..Infinity /\ 0 <= 0
      BY <1>1, TasksFinite
    <3> QED
      BY <2>1, <3>1
  <2>2. CASE \E m \in 1..num_measures_per_round, cost \in 1..Infinity :
               \E at \in 1..m : TuneTask(t, m, cost, at)
    <3>1. PICK m \in 1..num_measures_per_round, cost \in 1..Infinity :
            \E at \in 1..m : TuneTask(t, m, cost, at)
      BY <2>2
    <3>2. PICK at \in 1..m : TuneTask(t, m, cost, at)
      BY <3>1
    <3>3. m \in 0..num_measures_per_round /\ at \in Nat /\ at <= m
      BY <1>1
    <3> QED
      BY <3>2, <3>3
  <2> QED
    BY <2>1, <2>2 DEF SearchRound
<1> DEFINE cts == task_cts[t] + 1
           better == Improves(cost, best_costs[t])
           best == IF better THEN cost ELSE best_costs[t]
           best_cts == IF better THEN cts ELSE task_best_cts[t]
           rec == Logged(log[t], m, cost, at)
<1>3. /\ task_cts' = [task_cts EXCEPT ![t] = cts]
      /\ best_costs' = [best_costs EXCEPT ![t] = best]
      /\ task_best_cts' = [task_best_cts EXCEPT ![t] = best_cts]
      /\ dead_tasks' \in {dead_tasks, dead_tasks \cup {t}}
      /\ task_costs_history' =
           [task_costs_history EXCEPT ![t] = Append(task_costs_history[t], best)]
      /\ ct' = ct + m /\ log' = [log EXCEPT ![t] = rec]
  BY <1>2 DEF TuneTask
<1>4. log[t] \in [len : Nat, best : 1..Infinity, at : Nat] /\ log[t].at <= log[t].len
  BY <1>1 DEF TaskTypes, LogInv
<1>5. /\ best_costs[t] \in 1..Infinity /\ task_cts[t] \in Nat /\ task_best_cts[t] \in Nat
      /\ task_best_cts[t] <= task_cts[t] /\ best_costs[t] = log[t].best
  BY <1>1 DEF TaskTypes, BestNotInFuture
<1>6. best \in 1..Infinity /\ best <= best_costs[t]
  BY <1>5, TasksFinite DEF Improves
<1>7. cts \in Nat /\ best_cts \in Nat /\ best_cts <= cts
  BY <1>5
<1>8. /\ rec.len = log[t].len + m /\ rec.best = best
      /\ rec.at = IF cost < log[t].best THEN log[t].len + at ELSE log[t].at
  BY <1>5 DEF Logged, min, Improves
<1>9. rec \in [len : Nat, best : 1..Infinity, at : Nat] /\ rec.at <= rec.len
  <2>1. m \in Nat /\ at <= m /\ log[t].len \in Nat /\ log[t].at \in Nat
    BY <1>1, <1>2, <1>4
  <2>2. rec.len \in Nat /\ rec.at \in Nat /\ rec.at <= rec.len
    BY <1>4, <1>8, <2>1
  <2>3. rec = [len |-> rec.len, best |-> rec.best, at |-> rec.at]
    BY DEF Logged
  <2> QED
    BY <1>6, <1>8, <2>2, <2>3
<1> HIDE DEF best, rec, cts, best_cts
<1>10. \A u \in Tasks :
         IF u = t
           THEN /\ task_cts'[u] = cts /\ best_costs'[u] = best /\ task_best_cts'[u] = best_cts
                /\ task_costs_history'[u] = Append(task_costs_history[u], best)
                /\ log'[u] = rec
           ELSE /\ task_cts'[u] = task_cts[u] /\ best_costs'[u] = best_costs[u]
                /\ task_best_cts'[u] = task_best_cts[u]
                /\ task_costs_history'[u] = task_costs_history[u] /\ log'[u] = log[u]
  BY <1>1, <1>3 DEF TaskTypes
<1>11. ASSUME NEW u \in Tasks
       PROVE  /\ task_costs_history'[u] \in Seq(1..Infinity)
              /\ Falling(task_costs_history'[u], best_costs'[u])
  <2>1. /\ task_costs_history[u] \in Seq(1..Infinity)
        /\ Falling(task_costs_history[u], best_costs[u])
    BY <1>1 DEF TaskTypes, HistoryInv
  <2>2. CASE u = t
    <3>1. /\ task_costs_history'[u] = Append(task_costs_history[u], best)
          /\ best_costs'[u] = best
      BY <1>10, <2>2
    <3> QED
      BY <1>5, <1>6, <2>1, <2>2, <3>1, HistoryGrows
  <2>3. CASE u # t
    BY <1>10, <2>1, <2>3
  <2> QED
    BY <2>2, <2>3
<1>12. TaskTypes'
  <2>1. task_costs_history' \in [Tasks -> Seq(1..Infinity)]
    BY <1>1, <1>3, <1>11 DEF TaskTypes
  <2>2. /\ task_cts' \in [Tasks -> Nat] /\ task_best_cts' \in [Tasks -> Nat]
        /\ best_costs' \in [Tasks -> 1..Infinity]
    BY <1>1, <1>3, <1>6, <1>7 DEF TaskTypes
  <2>3. log' \in [Tasks -> [len : Nat, best : 1..Infinity, at : Nat]]
    BY <1>1, <1>3, <1>9 DEF TaskTypes
  <2> QED
    BY <1>1, <1>3, <2>1, <2>2, <2>3 DEF TaskTypes
<1>13. LogInv' /\ BestNotInFuture'
  BY <1>1, <1>7, <1>9, <1>10 DEF LogInv, BestNotInFuture
<1>14. HistoryInv'
  BY <1>11 DEF HistoryInv
<1>15. \A u \in Tasks : best_costs'[u] = log'[u].best
  BY <1>1, <1>8, <1>10
<1>16. ct' \in ct..(ct + num_measures_per_round)
  BY <1>1, <1>3
<1> QED
  BY <1>3, <1>10, <1>12, <1>13, <1>14, <1>15, <1>16 DEF cts

\* The log is read: the best cost becomes that of the log, and the counts, in
\* rounds now, keep their order.
LEMMA RestoreStep ==
  ASSUME Inv, NEW n \in Nat \ {0}, RestoreStatus(n)
  PROVE  /\ task_cts' \in [Tasks -> Nat] /\ task_best_cts' \in [Tasks -> Nat]
         /\ best_costs' \in [Tasks -> 1..Infinity]
         /\ task_costs_history' \in [Tasks -> Seq(1..Infinity)]
         /\ dead_tasks' \subseteq Tasks
         /\ \A u \in Tasks : best_costs'[u] = log[u].best
         /\ HistoryInv' /\ BestNotInFuture'
<1> DEFINE cts(t) == task_cts[t] + log[t].len
           better(t) == log[t].best < best_costs[t]
           best_cts(t) == IF better(t) THEN task_cts[t] + log[t].at ELSE task_best_cts[t]
<1>1. /\ best_costs' = [t \in Tasks |-> RestoredCost(t)]
      /\ dead_tasks' = dead_tasks \cup {t \in Tasks : cts(t) - best_cts(t) > EarlyStopTask}
      /\ task_cts' = [t \in Tasks |-> Rounded(cts(t), n)]
      /\ task_best_cts' = [t \in Tasks |-> Rounded(best_cts(t), n)]
      /\ task_costs_history' =
           [t \in Tasks |-> Append(task_costs_history[t], best_costs'[t])]
  BY DEF RestoreStatus, BestRounds
<1>2. TaskTypes /\ HistoryInv /\ BestNotInFuture /\ LogInv /\ CostInv
  BY DEF Inv, Types, TypeOK, TaskTypes
<1>3. ASSUME NEW t \in Tasks
      PROVE  /\ task_cts[t] \in Nat /\ task_best_cts[t] \in Nat /\ best_costs[t] \in 1..Infinity
             /\ log[t].len \in Nat /\ log[t].at \in Nat /\ log[t].best \in 1..Infinity
             /\ task_best_cts[t] <= task_cts[t] /\ log[t].at <= log[t].len
             /\ log[t].best <= best_costs[t]
             /\ task_costs_history[t] \in Seq(1..Infinity)
             /\ Falling(task_costs_history[t], best_costs[t])
  <2>1. log[t] \in [len : Nat, best : 1..Infinity, at : Nat]
    BY <1>2 DEF TaskTypes
  <2> QED
    BY <1>2, <2>1 DEF TaskTypes, BestNotInFuture, LogInv, CostInv, HistoryInv
<1>4. \A t \in Tasks : best_costs'[t] = log[t].best
  BY <1>1, <1>3, TasksFinite DEF RestoredCost, min
<1>5. ASSUME NEW t \in Tasks
      PROVE  /\ task_cts'[t] \in Nat /\ task_best_cts'[t] \in Nat
             /\ task_best_cts'[t] <= task_cts'[t]
  <2>1. cts(t) \in Nat /\ best_cts(t) \in Nat /\ best_cts(t) <= cts(t)
    BY <1>3, SMTT(30)
  <2>2. task_cts'[t] = Rounded(cts(t), n) /\ task_best_cts'[t] = Rounded(best_cts(t), n)
    BY <1>1
  <2> HIDE DEF cts, best_cts
  <2> QED
    BY <2>1, <2>2, RoundedLemma
<1>6. ASSUME NEW t \in Tasks
      PROVE  /\ task_costs_history'[t] \in Seq(1..Infinity)
             /\ Falling(task_costs_history'[t], best_costs'[t])
  <2>1. task_costs_history'[t] = Append(task_costs_history[t], log[t].best)
    BY <1>1, <1>4
  <2>2. best_costs'[t] = log[t].best
    BY <1>4
  <2> QED
    BY <1>3, <2>1, <2>2, HistoryGrows
<1>7. /\ task_cts' \in [Tasks -> Nat] /\ task_best_cts' \in [Tasks -> Nat]
      /\ task_costs_history' \in [Tasks -> Seq(1..Infinity)]
  BY <1>1, <1>5, <1>6
<1>8. best_costs' \in [Tasks -> 1..Infinity]
  <2>1. \A t \in Tasks : best_costs'[t] \in 1..Infinity
    BY <1>3, <1>4
  <2> QED
    BY <1>1, <2>1
<1>9. dead_tasks' \subseteq Tasks
  BY <1>1, <1>2 DEF TaskTypes
<1>10. HistoryInv' /\ BestNotInFuture'
  BY <1>5, <1>6 DEF HistoryInv, BestNotInFuture
<1> QED
  BY <1>4, <1>7, <1>8, <1>9, <1>10

LEMMA StartInv ==
  ASSUME Inv, Start
  PROVE  Inv'
<1>1. /\ pc = "idle" /\ pc' = "warm" /\ task_idx' = 0 /\ ct' = 0 /\ best_ct' = 0
      /\ best_score' = best_score /\ turns' = [t \in Tasks |-> 0]
      /\ strategy' = strategy /\ load_log_file' = load_log_file /\ log' = log
      /\ restarts' = restarts
  BY DEF Start, BestCtAtStart
<1>2. PICK m \in MeasuresPerRound :
        /\ num_measures_per_round' = RoundSize(m)
        /\ IF load_log_file THEN RestoreStatus(RoundSize(m)) ELSE UNCHANGED taskVars
  BY DEF Start
<1>3. m \in Nat \ {0}
  BY SchedulerAssumption
<1>4. /\ num_measures_per_round' \in Nat /\ num_measures_per_round' >= 1
      /\ num_measures_per_round' * NumTasks <= NumMeasureTrials
      /\ RoundSize(m) \in Nat \ {0}
  BY <1>2, <1>3, RoundSizeLemma
<1>5. Types /\ LogInv /\ CostInv /\ HistoryInv /\ BestNotInFuture
  BY DEF Inv
<1>6. /\ task_cts' \in [Tasks -> Nat] /\ task_best_cts' \in [Tasks -> Nat]
      /\ best_costs' \in [Tasks -> 1..Infinity]
      /\ task_costs_history' \in [Tasks -> Seq(1..Infinity)]
      /\ dead_tasks' \subseteq Tasks
      /\ \A u \in Tasks : best_costs'[u] = log[u].best
      /\ HistoryInv' /\ BestNotInFuture'
  <2>1. CASE load_log_file
    BY <1>2, <1>4, <2>1, RestoreStep
  <2>2. CASE ~load_log_file
    BY <1>2, <1>5, <2>2
       DEF taskVars, Types, TypeOK, CostInv, HistoryInv, BestNotInFuture
  <2> QED
    BY <2>1, <2>2
<1>7. Types'
  <2>1. TypeOK'
    BY <1>1, <1>4, <1>5, <1>6, TasksFinite DEF Types, TypeOK
  <2>2. turns' \in [Tasks -> Nat]
    BY <1>1
  <2> QED
    BY <1>1, <1>5, <2>1, <2>2 DEF Types
<1>8. LogInv'
  BY <1>1, <1>5 DEF LogInv
<1>9. CostInv'
  <2>1. \A u \in Tasks : log[u].best \in 1..Infinity
    BY <1>5 DEF Types
  <2> QED
    BY <1>1, <1>6, <2>1, TasksFinite DEF CostInv
<1>10. TunedInv' /\ BudgetInv' /\ SizeInv' /\ TurnsInv'
  <2>1. TunedInv'
    BY <1>1, TasksFinite DEF TunedInv, EveryTaskTuned, Tasks
  <2>2. BudgetInv' /\ SizeInv'
    <3>1. \A k \in Nat : 0 * k = 0
      BY SMT
    <3>2. ct' <= task_idx' * num_measures_per_round'
      <4>1. num_measures_per_round' \in Nat
        BY <1>4
      <4>2. 0 * num_measures_per_round' = 0
        BY <3>1, <4>1, Zenon
      <4>3. task_idx' * num_measures_per_round' = 0
        BY <1>1, <4>2, Zenon
      <4> QED
        BY <1>1, <4>3
    <3>3. pc' = "warm"
      BY <1>1
    <3>4. SizeInv'
      BY <1>4 DEF SizeInv
    <3> QED
      BY <3>2, <3>3, <3>4 DEF BudgetInv
  <2>3. TurnsInv'
    BY <1>1 DEF TurnsInv, RoundRobinFair
  <2> QED
    BY <2>1, <2>2, <2>3
<1> QED
  BY <1>6, <1>7, <1>8, <1>9, <1>10 DEF Inv

LEMMA CrashInv ==
  ASSUME Inv, Crash
  PROVE  Inv'
<1>1. /\ pc' = "idle" /\ load_log_file' = TRUE
      /\ task_cts' = Zero /\ task_best_cts' = Zero /\ task_costs_history' = NoHistory
      /\ best_costs' = NoCosts /\ dead_tasks' = {}
      /\ ct' = 0 /\ best_ct' = 0 /\ best_score' = 0 /\ num_measures_per_round' = 0
      /\ task_idx' = 0 /\ turns' = Zero /\ strategy' = strategy /\ log' = log
      /\ restarts' = restarts + 1
  BY DEF Crash
<1>2. Types /\ LogInv
  BY DEF Inv
<1>3. 0 \in Nat /\ Infinity \in 1..Infinity /\ <<>> \in Seq(1..Infinity)
  BY TasksFinite
<1>4. Types'
  <2>1. TypeOK'
    BY <1>1, <1>2, <1>3, TasksFinite DEF Types, TypeOK, Zero, NoHistory, NoCosts
  <2>2. turns' \in [Tasks -> Nat]
    BY <1>1, <1>3 DEF Zero
  <2> QED
    BY <1>1, <1>2, <2>1, <2>2 DEF Types
<1>5. LogInv' /\ HistoryInv' /\ BestNotInFuture'
  BY <1>1, <1>2 DEF LogInv, HistoryInv, Falling, BestNotInFuture, Zero, NoHistory
<1>6. CostInv'
  <2>1. \A u \in Tasks : log[u].best \in 1..Infinity
    BY <1>2 DEF Types
  <2>2. \A u \in Tasks : best_costs'[u] = Infinity
    BY <1>1 DEF NoCosts
  <2> QED
    BY <1>1, <2>1, <2>2, TasksFinite DEF CostInv
<1>7. TunedInv' /\ BudgetInv' /\ SizeInv' /\ TurnsInv'
  BY <1>1 DEF TunedInv, EveryTaskTuned, BudgetInv, SizeInv, TurnsInv, RoundRobinFair, Zero
<1> QED
  BY <1>4, <1>5, <1>6, <1>7 DEF Inv

LEMMA WarmUpInv ==
  ASSUME Inv, WarmUp
  PROVE  Inv'
<1> DEFINE n == num_measures_per_round
<1>1. /\ pc = "warm" /\ pc' = "warm" /\ task_idx < NumTasks /\ task_idx' = task_idx + 1
      /\ strategy' = strategy /\ best_ct' = best_ct /\ best_score' = best_score
      /\ num_measures_per_round' = n /\ load_log_file' = load_log_file /\ turns' = turns
      /\ restarts' = restarts
  BY DEF WarmUp, AfterWarmUp
<1>2. /\ Types /\ LogInv /\ CostInv /\ HistoryInv /\ BestNotInFuture
      /\ TunedInv /\ SizeInv /\ BudgetInv /\ TurnsInv
  BY DEF Inv
<1>3. /\ task_idx \in Tasks /\ task_idx \in Nat /\ n \in Nat /\ ct \in Nat
      /\ best_ct \in 0..ct /\ ct <= task_idx * n
  BY <1>1, <1>2, TasksFinite DEF TunedInv, Types, TypeOK, BudgetInv, Tasks
<1>4. /\ TaskTypes' /\ LogInv' /\ HistoryInv' /\ BestNotInFuture'
      /\ \A u \in Tasks : best_costs'[u] = log'[u].best
      /\ ct' \in ct..(ct + n)
      /\ \A u \in Tasks : task_cts'[u] >= task_cts[u]
      /\ task_cts'[task_idx] >= 1
  <2>1. CASE NeedsWarmUp(task_idx) /\ SearchRound(task_idx)
    <3>1. \A u \in Tasks : task_cts[u] \in Nat
      BY <1>2 DEF Types, TypeOK
    <3> QED
      BY <1>1, <1>3, <2>1, <3>1, TuneTaskStep
  <2>2. CASE ~NeedsWarmUp(task_idx) /\ UNCHANGED <<taskVars, ct, log>>
    <3>1. /\ ct' = ct /\ log' = log /\ task_cts' = task_cts /\ task_best_cts' = task_best_cts
          /\ task_costs_history' = task_costs_history /\ best_costs' = best_costs
          /\ dead_tasks' = dead_tasks /\ task_cts[task_idx] # 0
      BY <2>2 DEF taskVars, NeedsWarmUp
    <3>2. TaskTypes' /\ LogInv' /\ HistoryInv' /\ BestNotInFuture'
      BY <1>2, <3>1 DEF Types, TypeOK, TaskTypes, LogInv, HistoryInv, BestNotInFuture
    <3>3. \A u \in Tasks : best_costs'[u] = log'[u].best
      BY <1>1, <1>2, <3>1 DEF CostInv
    <3>4. \A u \in Tasks : task_cts[u] \in Nat
      BY <1>2 DEF Types, TypeOK
    <3> QED
      BY <1>3, <3>1, <3>2, <3>3, <3>4
  <2> QED
    BY <2>1, <2>2 DEF WarmUp
<1>5. Types'
  <2>1. TypeOK'
    <3>1. ct' \in Nat /\ best_ct' \in 0..ct' /\ task_idx' \in -1..NumTasks
      BY <1>1, <1>3, <1>4, TasksFinite
    <3> QED
      BY <1>1, <1>2, <1>4, <3>1 DEF Types, TypeOK, TaskTypes
  <2> QED
    BY <1>1, <1>2, <1>4, <2>1 DEF Types, TaskTypes
<1>6. CostInv'
  <2>1. \A u \in Tasks : best_costs'[u] \in 1..Infinity
    BY <1>4 DEF TaskTypes
  <2> QED
    BY <1>4, <2>1, TasksFinite DEF CostInv
<1>7. TunedInv'
  <2>1. \A u \in Tasks : u < task_idx => task_cts[u] >= 1
    BY <1>1, <1>2 DEF TunedInv
  <2>2. \A u \in Tasks : task_cts[u] \in Nat /\ task_cts'[u] \in Nat /\ u \in Nat
    <3>1. \A u \in Tasks : task_cts[u] \in Nat /\ task_cts'[u] \in Nat
      BY <1>2, <1>4 DEF Types, TypeOK, TaskTypes
    <3>2. \A u \in Tasks : u \in Nat
      BY TasksFinite DEF Tasks
    <3> QED
      BY <3>1, <3>2
  <2>3. \A u \in Tasks : u < task_idx + 1 => task_cts'[u] >= 1
    BY <1>3, <1>4, <2>1, <2>2
  <2> QED
    BY <1>1, <1>3, <2>3, TasksFinite DEF TunedInv, EveryTaskTuned
<1>8. SizeInv' /\ TurnsInv'
  BY <1>1, <1>2 DEF SizeInv, TurnsInv, RoundRobinFair
<1>9. BudgetInv'
  <2>1. (task_idx + 1) * n = task_idx * n + n /\ task_idx * n \in Nat
    BY <1>3, SMT
  <2>2. ct' <= task_idx * n + n
    BY <1>3, <1>4, <2>1
  <2> QED
    BY <1>1, <2>1, <2>2 DEF BudgetInv
<1> QED
  BY <1>4, <1>5, <1>6, <1>7, <1>8, <1>9 DEF Inv

LEMMA WarmUpEndsInv ==
  ASSUME Inv, WarmUpEnds
  PROVE  Inv'
<1> DEFINE n == num_measures_per_round
<1>1. /\ pc = "warm" /\ pc' = "loop" /\ task_idx = NumTasks /\ task_idx' = -1
      /\ best_ct' = ct /\ best_score' = Score(best_costs) /\ ct' = ct
      /\ strategy' = strategy /\ num_measures_per_round' = n
      /\ load_log_file' = load_log_file /\ log' = log /\ turns' = turns /\ restarts' = restarts
      /\ task_cts' = task_cts /\ task_best_cts' = task_best_cts
      /\ task_costs_history' = task_costs_history /\ best_costs' = best_costs
      /\ dead_tasks' = dead_tasks
  BY DEF WarmUpEnds, taskVars
<1>2. /\ Types /\ LogInv /\ CostInv /\ HistoryInv /\ BestNotInFuture
      /\ TunedInv /\ SizeInv /\ BudgetInv /\ TurnsInv
  BY DEF Inv
<1>3. Score(best_costs) \in Nat
  <2>1. best_costs \in [Tasks -> Nat]
    BY <1>2, TasksFinite DEF Types, TypeOK
  <2> QED
    BY <2>1, ScoreType
<1>4. Types'
  <2>1. ct \in Nat /\ ct \in 0..ct /\ -1 \in -1..NumTasks
    BY <1>2, TasksFinite DEF Types, TypeOK
  <2> QED
    BY <1>1, <1>2, <1>3, <2>1 DEF Types, TypeOK
<1>5. LogInv' /\ CostInv' /\ HistoryInv' /\ BestNotInFuture' /\ SizeInv'
  BY <1>1, <1>2 DEF LogInv, CostInv, HistoryInv, BestNotInFuture, SizeInv
<1>6. TunedInv'
  BY <1>1, <1>2, TasksFinite DEF TunedInv, EveryTaskTuned, Tasks
<1>7. BudgetInv'
  <2>1. n \in Nat /\ n >= 1 /\ n * NumTasks <= NumMeasureTrials /\ ct <= NumTasks * n /\ ct \in Nat
    BY <1>1, <1>2 DEF Types, TypeOK, SizeInv, BudgetInv
  <2>2. NumTasks * n = n * NumTasks /\ n * NumTasks \in Nat
    <3>1. \A a, b \in Nat : a * b = b * a /\ a * b \in Nat
      BY SMT
    <3> QED
      BY <2>1, <3>1, TasksFinite
  <2>3. ct < NumMeasureTrials + n
    BY <2>1, <2>2, TasksFinite
  <2> QED
    BY <1>1, <2>3 DEF BudgetInv
<1>8. TurnsInv'
  <2>1. \A t \in Tasks : turns[t] = 0 /\ t > -1
    BY <1>1, <1>2, TasksFinite DEF TurnsInv, Tasks
  <2>2. -1 \in -1..(NumTasks - 1) /\ \A t \in Tasks : ~ (t <= -1)
    BY TasksFinite DEF Tasks
  <2> QED
    BY <1>1, <2>1, <2>2 DEF TurnsInv, RoundRobinFair
<1> QED
  BY <1>4, <1>5, <1>6, <1>7, <1>8 DEF Inv

LEMMA LoopEndsInv ==
  ASSUME Inv, LoopEnds
  PROVE  Inv'
<1>1. /\ pc = "loop" /\ pc' = "idle" /\ UNCHANGED <<task_idx, ct, best_ct, best_score, strategy,
            num_measures_per_round, load_log_file, log, turns, restarts, task_cts,
            task_best_cts, task_costs_history, best_costs, dead_tasks>>
  BY DEF LoopEnds, taskVars, tuneVars
<1>2. /\ Types /\ LogInv /\ CostInv /\ HistoryInv /\ BestNotInFuture
      /\ TunedInv /\ SizeInv /\ BudgetInv /\ TurnsInv
  BY DEF Inv
<1>3. Types'
  BY <1>1, <1>2 DEF Types, TypeOK
<1>4. LogInv' /\ CostInv' /\ HistoryInv' /\ BestNotInFuture'
  BY <1>1, <1>2 DEF LogInv, CostInv, HistoryInv, BestNotInFuture
<1>5. TunedInv' /\ SizeInv' /\ BudgetInv' /\ TurnsInv'
  BY <1>1, <1>2 DEF TunedInv, EveryTaskTuned, SizeInv, BudgetInv, TurnsInv, RoundRobinFair
<1> QED
  BY <1>3, <1>4, <1>5 DEF Inv

\* A round of the next live task keeps the rounds of the live tasks in step.
LEMMA TurnStep ==
  ASSUME Inv, pc = "loop", KeepsGoing, strategy = "round-robin",
         NEW t \in Tasks, t = RoundRobinNext(task_idx), task_idx' = t,
         turns' = [turns EXCEPT ![t] = @ + 1], dead_tasks \subseteq dead_tasks'
  PROVE  \A u, v \in Tasks \ dead_tasks' :
           /\ u <= task_idx' /\ v <= task_idx' => turns'[u] = turns'[v]
           /\ u > task_idx' /\ v > task_idx' => turns'[u] = turns'[v]
           /\ u <= task_idx' /\ v > task_idx' => turns'[u] = turns'[v] + 1
<1> DEFINE x == task_idx
           Live == Tasks \ dead_tasks
<1>1. /\ x \in -1..(NumTasks - 1) /\ dead_tasks \subseteq Tasks /\ turns \in [Tasks -> Nat]
      /\ \A u, v \in Live :
           /\ u <= x /\ v <= x => turns[u] = turns[v]
           /\ u > x /\ v > x => turns[u] = turns[v]
           /\ u <= x /\ v > x => turns[u] = turns[v] + 1
  BY DEF Inv, TurnsInv, Types, TypeOK
<1>2. /\ t \in Live
      /\ \/ x < t /\ \A u \in Tasks : x < u /\ u < t => u \in dead_tasks
         \/ t <= x /\ \A u \in Tasks : x < u \/ u < t => u \in dead_tasks
  BY <1>1, SomeTaskLives, RoundRobinNextLemma
<1>3. \A u \in Live : /\ turns[u] \in Nat /\ u \in Int
                      /\ turns'[u] = IF u = t THEN turns[u] + 1 ELSE turns[u]
  BY <1>1, TasksFinite DEF Tasks
<1>4. \A u \in Tasks \ dead_tasks' : u \in Live
  OBVIOUS
<1> SUFFICES ASSUME NEW u \in Live, NEW v \in Live
             PROVE  /\ u <= t /\ v <= t => turns'[u] = turns'[v]
                    /\ u > t /\ v > t => turns'[u] = turns'[v]
                    /\ u <= t /\ v > t => turns'[u] = turns'[v] + 1
  BY <1>4
<1>5. x \in Int /\ t \in Int /\ u \in Int /\ v \in Int
  BY <1>1, <1>2, <1>3
<1>6. CASE x < t /\ \A w \in Tasks : x < w /\ w < t => w \in dead_tasks
  <2>1. \A w \in Live : w <= t => w <= x \/ w = t
    BY <1>3, <1>5, <1>6
  <2>2. \A w \in Live : w <= x => turns'[w] = turns[t] + 1
    BY <1>1, <1>2, <1>3, <1>5, <1>6
  <2>3. turns'[t] = turns[t] + 1
    BY <1>2, <1>3
  <2>4. \A w \in Live : w > t => turns'[w] = turns[t]
    BY <1>1, <1>2, <1>3, <1>5, <1>6
  <2> QED
    BY <1>2, <1>3, <2>1, <2>2, <2>3, <2>4
<1>7. CASE t <= x /\ \A w \in Tasks : x < w \/ w < t => w \in dead_tasks
  <2>1. \A w \in Live : t <= w /\ w <= x
    BY <1>3, <1>5, <1>7
  <2>2. \A w \in Live : w > t => turns'[w] = turns[t]
    BY <1>1, <1>2, <1>3, <1>5, <1>7, <2>1
  <2>3. turns'[t] = turns[t] + 1
    BY <1>2, <1>3
  <2>4. \A w \in Live : w <= t => w = t
    BY <1>3, <1>5, <2>1
  <2> QED
    BY <1>2, <1>3, <2>2, <2>3, <2>4
<1> QED
  BY <1>2, <1>6, <1>7

LEMMA LoopRoundInv ==
  ASSUME Inv, NEW t \in Tasks, LoopRound(t)
  PROVE  Inv'
<1> DEFINE n == num_measures_per_round
           score == Score(best_costs')
<1>1. /\ pc = "loop" /\ KeepsGoing /\ Selected(t) /\ SearchRound(t) /\ task_idx' = t
      /\ turns' = [turns EXCEPT ![t] = @ + 1] /\ pc' \in {"loop", "idle"}
      /\ \/ best_score' = score /\ best_ct' = ct'
         \/ best_score' = best_score /\ best_ct' = best_ct
      /\ strategy' = strategy /\ num_measures_per_round' = n /\ load_log_file' = load_log_file
      /\ restarts' = restarts
  BY DEF LoopRound
<1>2. /\ Types /\ LogInv /\ CostInv /\ HistoryInv /\ BestNotInFuture
      /\ TunedInv /\ SizeInv /\ BudgetInv /\ TurnsInv
  BY DEF Inv
<1>3. /\ TaskTypes' /\ LogInv' /\ HistoryInv' /\ BestNotInFuture'
      /\ \A u \in Tasks : best_costs'[u] = log'[u].best
      /\ ct' \in ct..(ct + n)
      /\ dead_tasks \subseteq dead_tasks'
      /\ \A u \in Tasks : task_cts'[u] = IF u = t THEN task_cts[u] + 1 ELSE task_cts[u]
  BY <1>1, TuneTaskStep
<1>4. score \in Nat
  <2>1. best_costs' \in [Tasks -> Nat]
    BY <1>3, TasksFinite DEF TaskTypes
  <2> QED
    BY <2>1, ScoreType
<1> HIDE DEF score
<1>5. ct \in Nat /\ n \in Nat /\ best_ct \in 0..ct /\ best_score \in Nat
  BY <1>2 DEF Types, TypeOK
<1>6. Types'
  <2>1. ct' \in Nat /\ best_ct' \in 0..ct' /\ best_score' \in Nat
    BY <1>1, <1>3, <1>4, <1>5
  <2>2. t \in -1..NumTasks
    BY TasksFinite DEF Tasks
  <2>3. TypeOK'
    BY <1>1, <1>2, <1>3, <2>1, <2>2 DEF Types, TypeOK, TaskTypes
  <2>4. turns' \in [Tasks -> Nat]
    BY <1>1, <1>2 DEF Types
  <2> QED
    BY <1>1, <1>2, <1>3, <2>3, <2>4 DEF Types, TaskTypes
<1>7. CostInv'
  <2>1. \A u \in Tasks : best_costs'[u] \in 1..Infinity
    BY <1>3 DEF TaskTypes
  <2> QED
    BY <1>3, <2>1, TasksFinite DEF CostInv
<1>8. TunedInv'
  <2>1. \A u \in Tasks : task_cts[u] \in Nat /\ task_cts[u] >= 1
    BY <1>1, <1>2 DEF TunedInv, EveryTaskTuned, Types, TypeOK
  <2> QED
    BY <1>1, <1>3, <2>1 DEF TunedInv, EveryTaskTuned
<1>9. SizeInv'
  BY <1>1, <1>2 DEF SizeInv
<1>10. BudgetInv'
  <2>1. ct < NumMeasureTrials
    BY <1>1 DEF KeepsGoing
  <2>2. ct' < NumMeasureTrials + n
    BY <1>3, <1>5, <2>1, TasksFinite
  <2> QED
    BY <1>1, <2>2 DEF BudgetInv
<1>11. TurnsInv'
  <2>1. task_idx' \in -1..(NumTasks - 1)
    BY <1>1, TasksFinite DEF Tasks
  <2>2. CASE strategy = "round-robin"
    <3>1. t = RoundRobinNext(task_idx)
      BY <1>1, <2>2 DEF Selected
    <3>2. \A u, v \in Tasks \ dead_tasks' :
            /\ u <= task_idx' /\ v <= task_idx' => turns'[u] = turns'[v]
            /\ u > task_idx' /\ v > task_idx' => turns'[u] = turns'[v]
            /\ u <= task_idx' /\ v > task_idx' => turns'[u] = turns'[v] + 1
      BY <1>1, <1>3, <2>2, <3>1, TurnStep
    <3>3. \A u \in Tasks : turns'[u] \in Nat /\ u \in Int
      BY <1>6, TasksFinite, SMTT(30) DEF Types, Tasks
    <3>4. \A u, v \in Tasks \ dead_tasks' : turns'[u] <= turns'[v] + 1
      BY <2>1, <3>2, <3>3
    <3> QED
      BY <1>1, <2>1, <3>2, <3>4 DEF TurnsInv, RoundRobinFair
  <2>3. CASE strategy # "round-robin"
    BY <1>1, <2>1, <2>3 DEF TurnsInv, RoundRobinFair
  <2> QED
    BY <2>2, <2>3
<1> QED
  BY <1>3, <1>6, <1>7, <1>8, <1>9, <1>10, <1>11 DEF Inv

LEMMA NextInv == Inv /\ [Next]_vars => Inv'
<1> SUFFICES ASSUME Inv, [Next]_vars PROVE Inv'
  OBVIOUS
<1>1. CASE Start
  BY <1>1, StartInv
<1>2. CASE WarmUp
  BY <1>2, WarmUpInv
<1>3. CASE WarmUpEnds
  BY <1>3, WarmUpEndsInv
<1>4. CASE LoopEnds
  BY <1>4, LoopEndsInv
<1>5. ASSUME NEW t \in Tasks, LoopRound(t) PROVE Inv'
  BY <1>5, LoopRoundInv
<1>6. CASE Crash
  BY <1>6, CrashInv
<1>7. CASE UNCHANGED vars
  BY <1>7 DEF vars, taskVars, tuneVars, Inv, Types, TypeOK, LogInv, CostInv, HistoryInv,
       BestNotInFuture, TunedInv, EveryTaskTuned, SizeInv, BudgetInv, TurnsInv, RoundRobinFair
<1> QED
  BY <1>1, <1>2, <1>3, <1>4, <1>5, <1>6, <1>7 DEF Next, TuneStep

----------------------------------------------------------------------------
(***************************************************************************)
(* The theorems.                                                           *)
(***************************************************************************)
\* Tuning, crashes and restarts keep the inductive invariant.
THEOREM Invariance == Spec => []Inv
  BY InitInv, NextInv, PTL DEF Spec

\* The state always has its type; the sum of the best costs is a number.
THEOREM TypeCorrect == Spec => []TypeOK
<1>1. Inv => TypeOK
  BY DEF Inv, Types
<1> QED
  BY <1>1, Invariance, PTL

\* "make sure every task is tuned at least once": after the warm up no count
\* of rounds is 0, restored counts, which are rounded, included.
THEOREM TasksTuned == Spec => []EveryTaskTuned
<1>1. Inv => EveryTaskTuned
  BY DEF Inv, TunedInv
<1> QED
  BY <1>1, Invariance, PTL

\* "assert grad <= 0" of the gradients in tune never fails for the backward
\* difference: a history never rises, though a restart leaves it shorter than
\* the count of rounds that indexes it.
THEOREM Gradients == Spec => []GradientAssertion
<1>1. Inv => GradientAssertion
  <2> SUFFICES ASSUME Inv, pc = "loop", NEW t \in Tasks,
                      task_cts[t] - 1 < Len(task_costs_history[t]),
                      task_cts[t] - 1 - BackwardWindow >= 0
               PROVE  task_costs_history[t][task_cts[t] - 1 + 1]
                        <= task_costs_history[t][task_cts[t] - 1 - BackwardWindow + 1]
    BY DEF GradientAssertion
  <2> DEFINE h == task_costs_history[t]
             b == task_cts[t]
             a == task_cts[t] - BackwardWindow
  <2>1. b \in Nat /\ h \in Seq(1..Infinity) /\ Falling(h, best_costs[t])
    BY DEF Inv, Types, TypeOK, HistoryInv
  <2>2. BackwardWindow \in Nat \ {0} /\ Len(h) \in Nat /\ DOMAIN h = 1..Len(h)
    BY <2>1, SchedulerAssumption
  <2>3. b \in DOMAIN h /\ a \in 1..b
    BY <2>1, <2>2
  <2>4. h[b] <= h[a]
    BY <2>1, <2>3 DEF Falling
  <2>5. task_cts[t] - 1 + 1 = b /\ task_cts[t] - 1 - BackwardWindow + 1 = a
    BY <2>1, <2>2
  <2> QED
    BY <2>4, <2>5
<1> QED
  BY <1>1, Invariance, PTL

\* No improvement is dated later than the rounds there were: rounding the
\* restored counts keeps their order.
THEOREM NoFutureBest == Spec => []BestNotInFuture
<1>1. Inv => BestNotInFuture
  BY DEF Inv
<1> QED
  BY <1>1, Invariance, PTL

\* While it tunes, the best cost of every task is the best of all records of
\* the log, those of the processes that crashed included.
THEOREM NothingLost == Spec => []NothingLostInCrash
<1>1. Inv => NothingLostInCrash
  BY DEF Inv, CostInv, NothingLostInCrash
<1> QED
  BY <1>1, Invariance, PTL

\* The warm up stays inside the budget, and the loop exceeds it by less than
\* one round.
THEOREM Budget == Spec => []BudgetHolds
<1>1. Inv => BudgetHolds
  <2> SUFFICES ASSUME Inv PROVE BudgetHolds
    OBVIOUS
  <2> DEFINE n == num_measures_per_round
  <2>1. Types /\ TunedInv /\ SizeInv /\ BudgetInv
    BY DEF Inv
  <2>2. ASSUME pc = "warm" PROVE ct <= NumMeasureTrials
    <3>1. /\ task_idx \in 0..NumTasks /\ n \in Nat /\ n * NumTasks <= NumMeasureTrials
          /\ ct <= task_idx * n /\ ct \in Nat
      BY <2>1, <2>2 DEF Types, TypeOK, TunedInv, SizeInv, BudgetInv
    <3>2. \A i, j, k \in Nat : i <= j => i * k <= k * j /\ i * k \in Nat /\ k * j \in Nat
      BY SMT
    <3>3. task_idx * n <= n * NumTasks /\ task_idx * n \in Nat /\ n * NumTasks \in Nat
      BY <3>1, <3>2, TasksFinite
    <3> QED
      BY <3>1, <3>3, TasksFinite
  <2> QED
    BY <2>1, <2>2 DEF BudgetHolds, BudgetInv
<1> QED
  BY <1>1, Invariance, PTL

\* Round robin is fair: since the warm up no live task has had two rounds more
\* than another, whichever tasks were given up in between.
THEOREM TurnsFair == Spec => []RoundRobinFair
<1>1. Inv => RoundRobinFair
  BY DEF Inv, TurnsInv
<1> QED
  BY <1>1, Invariance, PTL

\* Round robin passes over a task that was given up: its loop over the indices
\* ends at a live one.  (By gradient a dead task may be drawn again: see
\* DeadInEveryStrategy.)
THEOREM DeadTasksRest == Spec => DeadStaysDead
<1>1. Inv /\ [Next]_vars =>
        [\A t \in dead_tasks :
           strategy = "round-robin" /\ pc = "loop" /\ restarts' = restarts =>
             task_cts'[t] = task_cts[t]]_vars
  <2> SUFFICES ASSUME Inv, Next, NEW d \in dead_tasks, strategy = "round-robin",
                      pc = "loop", restarts' = restarts
               PROVE  task_cts'[d] = task_cts[d]
    OBVIOUS
  <2>1. CASE Start \/ WarmUp \/ WarmUpEnds \/ LoopEnds
    BY <2>1 DEF Start, WarmUp, WarmUpEnds, LoopEnds, taskVars
  <2>2. ASSUME NEW t \in Tasks, LoopRound(t) PROVE task_cts'[d] = task_cts[d]
    <3>1. KeepsGoing /\ Selected(t) /\ SearchRound(t)
      BY <2>2 DEF LoopRound
    <3>2. dead_tasks \subseteq Tasks /\ task_idx \in -1..(NumTasks - 1)
      BY DEF Inv, Types, TypeOK, TurnsInv
    <3>3. RoundRobinNext(task_idx) \notin dead_tasks
      BY <3>1, <3>2, SomeTaskLives, RoundRobinNextLemma
    <3>4. t \notin dead_tasks
      BY <3>1, <3>3 DEF Selected
    <3>5. \A u \in Tasks : task_cts'[u] = IF u = t THEN task_cts[u] + 1 ELSE task_cts[u]
      BY <3>1, TuneTaskStep
    <3> QED
      BY <3>2, <3>4, <3>5
  <2>3. CASE Crash
    <3>1. restarts' # restarts
      BY <2>3 DEF Crash, Inv, Types
    <3> QED
      BY <3>1
  <2> QED
    BY <2>1, <2>2, <2>3 DEF Next, TuneStep
<1> QED
  BY <1>1, Invariance, PTL DEF Spec, DeadStaysDead
============================================================================
