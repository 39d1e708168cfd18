----------------------------- MODULE AutoTuner -----------------------------
(***************************************************************************)
(* The tuners of AutoTVM (python/tvm/autotvm/tuner): the loop of           *)
(* Tuner.tune, which measures batch after batch, and the four tuners that  *)
(* choose the batches: grid, random, genetic (ga) and model based.         *)
(*                                                                         *)
(* A config of the space is its index; the genes of GATuner are knobs.     *)
(* What a measurement returns, what cross over and mutation produce, and   *)
(* what the cost model thinks best, are any of the values the code allows: *)
(* a loop that draws until it finds an unvisited config is a choice of one.*)
(* tune may be called again on a tuner, with or without a reset.           *)
(***************************************************************************)
EXTENDS Integers, Sequences, FiniteSets, SequencesExt

CONSTANTS
  Kinds,        \* the tuners, among "grid", "random", "ga", "model"
  Dims,         \* the sizes of the knobs
  KnobShapes,   \* other sizes, for the conversions
  NParallel,    \* n_parallel of the measure option
  PopSize,      \* pop_size of GATuner; cross over takes two parents
  PlanSize,     \* plan_size of ModelBasedTuner
  Ranges,       \* the values of range_idx, first and last index
  Trials,       \* the values of n_trial
  Stops,        \* the values of early_stopping
  MaxFlops,     \* the best measurement; 0 is an error
  MaxCalls      \* bound: calls of tune

Prod(s) == FoldLeft(LAMBDA a, b : a * b, 1, s)
SpaceLen == Prod(Dims)

ASSUME TunerAssumption ==
  /\ Kinds \subseteq {"grid", "random", "ga", "model"}
  /\ Dims \in Seq(Nat \ {0}) /\ KnobShapes \subseteq Seq(Nat \ {0})
  /\ NParallel \in Nat \ {0} /\ PopSize \in Nat \ {0, 1}
  /\ PlanSize \in Nat \ {0} /\ MaxFlops \in Nat /\ MaxCalls \in Nat
  /\ \A r \in Ranges : r \in Nat \X Nat /\ r[1] < r[2] /\ r[2] < SpaceLen
  /\ Trials \subseteq Nat /\ Stops \subseteq Nat \ {0}

VARIABLES
  kind,                                \* the class of the tuner
  range_length, index_offset,          \* of IndexBaseTuner
  pc,                                  \* "idle", "loop", "measure", or "crashed"
  n_trial, early_stopping, i, calls,   \* the call of tune, and how many there were
  batch,                               \* the configs being measured
  best_config, best_flops, best_iter,
  counter, rand_state, rand_max,       \* IndexBaseTuner and RandomTuner
  genes, trial_pt, nscores,            \* GATuner; len(scores)
  trials, nxs, train_ct, flops_max,    \* ModelBasedTuner; len(xs)
  visited,                             \* of GATuner and ModelBasedTuner
  times,                               \* history: how often each config was measured
  results                              \* history: what was measured, since a reset

tunerVars == <<kind, range_length, index_offset>>
callVars == <<n_trial, early_stopping, i, calls>>
bestVars == <<best_config, best_flops, best_iter>>
indexVars == <<counter, rand_state, rand_max>>
gaVars == <<genes, nscores>>
modelVars == <<trials, nxs, train_ct, flops_max>>
histVars == <<times, results>>
vars == <<tunerVars, pc, callVars, batch, bestVars, indexVars, gaVars, modelVars, trial_pt,
          visited, histVars>>

Space == 0..(SpaceLen - 1)
None == -1
min(a, b) == IF a < b THEN a ELSE b

\* point2knob and knob2point: mixed radix, the first knob lowest.
point2knob(p, dims) ==
  LET q[j \in 1..Len(dims)] == IF j = 1 THEN p ELSE q[j - 1] \div dims[j - 1]
  IN [j \in 1..Len(dims) |-> q[j] % dims[j]]
knob2pointOff(knob, dims) ==  \* mutant: one factor too many
  FoldLeft(LAMBDA a, j : a + Prod(SubSeq(dims, 1, j)) * knob[j], 0, [j \in 1..Len(dims) |-> j])
knob2point(knob, dims) ==
  FoldLeft(LAMBDA a, j : a + Prod(SubSeq(dims, 1, j - 1)) * knob[j], 0,
           [j \in 1..Len(dims) |-> j])

\* Sequences without repetition over a set.
Arrangements(S, n) == {s \in UNION {[1..m -> S] : m \in 0..n} : IsInjective(s)}

pop_size == min(PopSize, SpaceLen)

\* The indices a grid or random tuner selects from: all, or those of range_idx.
IndexRange ==
  \/ range_length = SpaceLen /\ index_offset = 0
  \/ /\ kind \in {"grid", "random"}
     /\ \E r \in Ranges : range_length = r[2] - r[1] + 1 /\ index_offset = r[1]

Init ==
  /\ kind \in Kinds
  /\ IndexRange
  /\ pc = "idle" /\ n_trial = 0 /\ early_stopping = 1 /\ i = 0 /\ calls = 0 /\ batch = <<>>
  /\ best_config = None /\ best_flops = 0 /\ best_iter = 0
  /\ counter = 0 /\ rand_state = [x \in {} |-> 0] /\ rand_max = range_length
  /\ IF kind = "ga"
       THEN \E g \in [1..pop_size -> Space] :
              IsInjective(g) /\ genes = [k \in 1..pop_size |-> point2knob(g[k], Dims)]
       ELSE genes = <<>>
  /\ visited = {knob2point(g, Dims) : g \in ToSet(genes)}
  /\ trial_pt = 0 /\ nscores = 0
  /\ trials = <<>> /\ nxs = 0 /\ train_ct = 0 /\ flops_max = 0
  /\ times = [x \in Space |-> 0] /\ results = {}

----------------------------------------------------------------------------
(***************************************************************************)
(* has_next and next_batch of each tuner.                                  *)
(***************************************************************************)
GaHasNextOld == Cardinality(visited) < SpaceLen  \* mutant: the generation at hand is forgotten
GaHasNext == Cardinality(visited) - (Len(genes) - trial_pt) < SpaceLen

HasNextAlways == TRUE  \* mutant: only n_trial ends the loop
HasNext ==
  CASE kind \in {"grid", "random"} -> counter < range_length
    [] kind = "ga" -> GaHasNext
    [] kind = "model" -> Cardinality(visited) < SpaceLen

\* GridSearchTuner: the next indices in order.
GridBatch(n) ==
  /\ kind = "grid"
  /\ LET m == min(n, range_length - counter) IN
       /\ batch' = [k \in 1..m |-> counter + index_offset + k - 1]
       /\ counter' = counter + m
  /\ pc' = "measure"
  /\ UNCHANGED <<rand_state, rand_max, genes, trial_pt, visited>>

\* RandomTuner: rand_state stands for the list of what is left, the entries
\* i -> i not stored; a drawn entry is replaced by the last one.
Get(state, j) == IF j \in DOMAIN state THEN state[j] ELSE j
RestrictTo(f, D) == [x \in D |-> f[x]]
StateAfterLazy(state, drawn, last) ==  \* mutant: the last entry itself, not what it stands for
  LET put == [x \in DOMAIN state \cup {drawn} |-> IF x = drawn THEN last ELSE state[x]]
  IN RestrictTo(put, DOMAIN put \ {last})
StateAfter(state, drawn, last) ==
  LET put == [x \in DOMAIN state \cup {drawn} |->
                IF x = drawn THEN Get(state, last) ELSE state[x]]
  IN RestrictTo(put, DOMAIN put \ {last})

RandomBatch(n) ==
  /\ kind = "random"
  /\ LET m == min(n, rand_max) IN
     \E draws \in [1..m -> 0..(rand_max - 1)] :
       LET st[k \in 0..m] ==
             IF k = 0 THEN rand_state ELSE StateAfter(st[k - 1], draws[k], rand_max - k)
       IN
       /\ \A k \in 1..m : draws[k] <= rand_max - k
       /\ batch' = [k \in 1..m |-> Get(st[k - 1], draws[k]) + index_offset]
       /\ rand_state' = st[m]
       /\ rand_max' = rand_max - m
       /\ counter' = counter + m
  /\ pc' = "measure"
  /\ UNCHANGED <<genes, trial_pt, visited>>

\* GATuner: the genes in turn, from the first again after pop_size.  The last
\* generation may be shorter than pop_size: then the index is out of range.
GaIndex(k) == (trial_pt + k - 1) % pop_size
GaBatch(n) ==
  /\ kind = "ga"
  /\ IF \E k \in 1..n : GaIndex(k) >= Len(genes)
       THEN /\ pc' = "crashed" /\ UNCHANGED <<batch, trial_pt>>
       ELSE /\ pc' = "measure"
            /\ batch' = [k \in 1..n |-> knob2point(genes[GaIndex(k) + 1], Dims)]
            /\ trial_pt' = trial_pt + n
  /\ UNCHANGED <<indexVars, genes, visited>>

\* ModelBasedTuner: the planned trials that are not visited, in order, and
\* after them, or instead of the last 5 percent of a plan, unvisited configs
\* at random.  What trial_pt skips is visited for good.
Planned == SubSeq(trials, 1, Len(trials) - PlanSize \div 20)
PlanLeftAll(seen) == Planned  \* mutant: a visited trial is taken again
PlanLeft(seen) == SelectSeq(Planned, LAMBDA x : x \notin seen)
ModelBatch(n) ==
  /\ kind = "model"
  /\ \E b \in [1..min(n, SpaceLen - Cardinality(visited)) -> Space] :
       LET seen(k) == visited \cup {b[j] : j \in 1..(k - 1)} IN
       /\ \A k \in DOMAIN b :
            IF PlanLeft(seen(k)) # <<>> THEN b[k] = PlanLeft(seen(k))[1]
                                       ELSE b[k] \notin seen(k)
       /\ batch' = b
       /\ visited' = seen(Len(b) + 1)
  /\ pc' = "measure"
  /\ UNCHANGED <<indexVars, genes, trial_pt>>

----------------------------------------------------------------------------
(***************************************************************************)
(* update of the tuners that learn, from the results of a batch.           *)
(***************************************************************************)
\* GATuner: when a generation is scored and configs are left, the next one,
\* of unvisited configs only and as long as there are any.
GaUpdate(res) ==
  LET n == nscores + Len(res)
      left == Space \ visited
  IN
  /\ kind = "ga"
  /\ \/ /\ n >= Len(genes) /\ left # {}
        /\ \E g \in [1..min(pop_size, Cardinality(left)) -> left] :
             /\ IsInjective(g)
             /\ genes' = [k \in DOMAIN g |-> point2knob(g[k], Dims)]
             /\ visited' = visited \cup {knob2point(k, Dims) : k \in ToSet(genes')}
        /\ trial_pt' = 0 /\ nscores' = 0
     \/ /\ n < Len(genes) \/ left = {}
        /\ nscores' = n
        /\ UNCHANGED <<genes, visited, trial_pt>>
  /\ UNCHANGED modelVars

\* ModelBasedTuner: visited again (for records of an earlier run), and a new
\* plan of unvisited configs whenever plan_size more samples are there.
ModelUpdate(configs, res) ==
  LET seen == visited \cup ToSet(configs) IN
  /\ kind = "model"
  /\ visited' = seen
  /\ nxs' = nxs + Len(res)
  /\ flops_max' = Max({flops_max} \cup ToSet(res))
  /\ \/ /\ nxs' >= PlanSize * (train_ct + 1) /\ flops_max' > 0
        /\ trials' \in Arrangements(Space \ seen, PlanSize)
        /\ train_ct' = train_ct + 1
     \/ /\ nxs' < PlanSize * (train_ct + 1) \/ flops_max' = 0
        /\ UNCHANGED <<trials, train_ct>>
  /\ UNCHANGED <<gaVars, trial_pt>>

NoUpdate ==
  /\ kind \in {"grid", "random"}
  /\ UNCHANGED <<gaVars, modelVars, trial_pt, visited>>

----------------------------------------------------------------------------
(***************************************************************************)
(* tune.                                                                   *)
(***************************************************************************)
StartTune ==
  /\ pc = "idle" /\ calls < MaxCalls
  /\ n_trial' \in Trials /\ early_stopping' \in Stops
  /\ i' = 0 /\ calls' = calls + 1
  /\ pc' = "loop"
  /\ UNCHANGED <<tunerVars, batch, bestVars, indexVars, gaVars, modelVars, trial_pt, visited,
                 times, results>>

BatchSizeFull == NParallel  \* mutant: the last batch is not cut
BatchSize == min(NParallel, n_trial - i)
NextBatch ==
  /\ pc = "loop" /\ i < n_trial /\ HasNext
  /\ \/ GridBatch(BatchSize) \/ RandomBatch(BatchSize)
     \/ GaBatch(BatchSize) \/ ModelBatch(BatchSize)
  /\ UNCHANGED <<tunerVars, callVars, bestVars, nscores, modelVars, histVars>>

StopTune ==
  /\ pc = "loop" /\ (i >= n_trial \/ ~HasNext)
  /\ pc' = "idle"
  /\ UNCHANGED <<tunerVars, callVars, batch, bestVars, indexVars, gaVars, modelVars, trial_pt,
                 visited, histVars>>

\* The best of the results so far, result by result.
IsBetterLast(f, best) == f # 0  \* mutant: the last success is kept
IsBetter(f, best) == f > best
BestAfter(res) ==
  LET B[k \in 0..Len(res)] ==
        IF k = 0
          THEN [flops |-> best_flops, config |-> best_config, iter |-> best_iter]
          ELSE IF IsBetter(res[k], B[k - 1].flops)
            THEN [flops |-> res[k], config |-> batch[k], iter |-> i + k - 1]
            ELSE B[k - 1]
  IN B[Len(res)]

\* The batch is measured, the best kept, the tuner updated; then the loop
\* goes on, unless nothing better came for long enough.
Measure ==
  /\ pc = "measure"
  /\ \E res \in [1..Len(batch) -> 0..MaxFlops] :
       LET best == BestAfter(res) IN
       /\ best_flops' = best.flops /\ best_config' = best.config /\ best_iter' = best.iter
       /\ i' = i + Len(res)
       /\ GaUpdate(res) \/ ModelUpdate(batch, res) \/ NoUpdate
       /\ pc' = IF i' >= best.iter + early_stopping THEN "idle" ELSE "loop"
       /\ times' = [x \in Space |-> times[x] + Cardinality({k \in DOMAIN batch : batch[k] = x})]
       /\ results' = results \cup {<<batch[k], res[k]>> : k \in DOMAIN res}
  /\ batch' = <<>>
  /\ UNCHANGED <<tunerVars, n_trial, early_stopping, calls, indexVars>>

\* reset forgets the best config, and not the trial that found it.
Reset ==
  /\ pc = "idle" /\ calls > 0
  /\ best_config' = None /\ best_flops' = 0 /\ results' = {}
  /\ UNCHANGED <<tunerVars, pc, callVars, batch, best_iter, indexVars, gaVars, modelVars,
                 trial_pt, visited, times>>

\* Before the first call: update with the record of an earlier run, and
\* load_history, which plans the first trials.
Resume ==
  /\ pc = "idle" /\ calls = 0
  /\ \E x \in Space \ visited, f \in 0..MaxFlops :
       /\ ModelUpdate(<<x>>, <<f>>)
       /\ times' = [times EXCEPT ![x] = @ + 1]
  /\ UNCHANGED <<tunerVars, pc, callVars, batch, bestVars, indexVars, results>>

LoadHistory ==
  /\ pc = "idle" /\ calls = 0 /\ kind = "model" /\ trials = <<>>
  /\ trials' \in Arrangements(Space \ visited, PlanSize)
  /\ UNCHANGED <<tunerVars, pc, callVars, batch, bestVars, indexVars, gaVars, nxs, train_ct,
                 flops_max, trial_pt, visited, histVars>>

TuneStep == NextBatch \/ Measure \/ StopTune
Next == StartTune \/ TuneStep \/ Reset \/ Resume \/ LoadHistory

\* A call of tune that can go on does.
Spec == Init /\ [][Next]_vars /\ WF_vars(TuneStep)

----------------------------------------------------------------------------
\* The type of the state.
TypeOK ==
  /\ kind \in Kinds /\ pc \in {"idle", "loop", "measure", "crashed"}
  /\ i \in Nat /\ calls \in 0..MaxCalls /\ batch \in Seq(Space)
  /\ best_config \in Space \cup {None} /\ best_flops \in 0..MaxFlops /\ best_iter \in Nat
  /\ range_length \in 1..SpaceLen /\ index_offset \in Space
  /\ counter \in 0..SpaceLen /\ rand_max \in 0..SpaceLen
  /\ DOMAIN rand_state \subseteq 0..(SpaceLen - 1) /\ Range(rand_state) \subseteq Space
  /\ \A k \in DOMAIN genes : DOMAIN genes[k] = DOMAIN Dims
  /\ trials \in Seq(Space) /\ visited \subseteq Space
  /\ trial_pt \in Nat /\ nscores \in Nat /\ nxs \in Nat /\ train_ct \in Nat

\* The grid, random and model based tuners measure no config twice, over all
\* calls of tune and the records they resumed from.
NoConfigTwice == kind # "ga" => \A x \in Space : times[x] <= 1

\* The configs the tuner may choose from: those of range_idx, if it has one.
InRange == index_offset..(index_offset + range_length - 1)

\* has_next is right ("whether has next untried config in the space")
\* whenever tune asks it: for GATuner although a batch may wrap around its
\* generation, for RandomTuner although it counts and does not look; and
\* nothing outside range_idx is tried ("Tuner should only focus on the
\* specified range", test_autotvm_index_tuner.py).
UntriedIsExact ==
  /\ pc \in {"idle", "loop"} => (HasNext <=> \E x \in InRange : times[x] = 0)
  /\ \A x \in Space \ InRange : times[x] = 0

\* RandomTuner: the first rand_max entries of the list that rand_state
\* stands for are the configs not drawn yet, each once, and nothing is
\* stored beyond them.
RandStateIsRemaining ==
  kind = "random" /\ pc = "loop" =>
    LET left == {Get(rand_state, j) + index_offset : j \in 0..(rand_max - 1)} IN
    /\ left = {x \in InRange : times[x] = 0}
    /\ Cardinality(left) = rand_max
    /\ DOMAIN rand_state \subseteq 0..(rand_max - 1)

\* The config tune leaves as the best is one that was measured as the best.
BestIsBest ==
  IF best_config = None
    THEN best_flops = 0 /\ \A r \in results : r[2] = 0
    ELSE /\ <<best_config, best_flops>> \in results
         /\ \A r \in results : r[2] <= best_flops

\* "Maximum number of configs to try": a call measures no more than n_trial.
WithinBudget == pc # "idle" => i + Len(batch) <= n_trial

\* point2knob and knob2point are inverse to each other, for spaces of every
\* shape: a gene names one config, and every config is a gene.
KnobsRoundTrip ==
  kind = "ga" => \A dims \in KnobShapes \cup {Dims} :
    LET points == 0..(Prod(dims) - 1) IN
    /\ \A p \in points : knob2point(point2knob(p, dims), dims) = p
    /\ \A j \in DOMAIN dims : {point2knob(p, dims)[j] : p \in points} = 0..(dims[j] - 1)

\* A call of tune returns, or raises.
TuneEnds == pc = "loop" ~> pc \in {"idle", "crashed"}

\* next_batch gives "a batch of configs" as long as has_next says there is one.
NextBatchReturns == pc # "crashed"
============================================================================
