----------------------- MODULE ParallelBarrierProofs -----------------------
(***************************************************************************)
(* Proofs about ParallelBarrier, for any number of tasks and of rounds and *)
(* whichever tasks return early.                                           *)
(***************************************************************************)
EXTENDS ParallelBarrier, TLAPS

\* The invariant holds when the lambdas start.
LEMMA InitInv == Init => Inv
BY NumTaskAssumption, RoundsAssumption
   DEF Init, Inv, TypeOK, Synchronised, Passed, WaitInv, Tasks

\* Every step of a task preserves the invariant.
LEMMA NextInv == Inv /\ [Next]_vars => Inv'
<1> SUFFICES ASSUME Inv, [Next]_vars PROVE Inv'
  OBVIOUS
<1> USE NumTaskAssumption, RoundsAssumption
<1>1. ASSUME NEW t \in Tasks, Arrive(t) PROVE Inv'
  <2>1. TypeOK'
    BY <1>1 DEF Arrive, Inv, TypeOK
  <2>2. /\ \A u \in Tasks : sync_counter[u] <= sync_counter'[u]
        /\ sync_counter'[t] = old_counter'[t] + 1
        /\ old_counter'[t] = sync_counter[t]
        /\ i'[t] = 0
        /\ \A u \in Tasks \ {t} : /\ sync_counter'[u] = sync_counter[u]
                                  /\ old_counter'[u] = old_counter[u]
                                  /\ i'[u] = i[u] /\ pc'[u] = pc[u]
        /\ pc[t] = "work" /\ pc'[t] = "spin"
        /\ \A u \in Tasks : sync_counter[u] \in Int /\ old_counter[u] \in Int
    BY <1>1 DEF Arrive, Inv, TypeOK
  <2>3. \A u \in Tasks : Passed(u)' = Passed(u)
    BY <2>2 DEF Passed
  <2>4. Synchronised'
    BY <2>1, <2>2, <2>3 DEF Inv, TypeOK, Synchronised, Passed
  <2>5. ASSUME NEW u \in Tasks, pc'[u] = "spin", NEW v \in Tasks, v < i'[u]
        PROVE  sync_counter'[v] > old_counter'[u]
    <3>1. u # t
      BY <2>2, <2>5 DEF Tasks
    <3>2. sync_counter[v] > old_counter[u]
      BY <2>2, <2>5, <3>1 DEF Inv, WaitInv
    <3>3. /\ sync_counter[v] \in Int /\ sync_counter'[v] \in Int /\ old_counter[u] \in Int
          /\ sync_counter[v] <= sync_counter'[v] /\ old_counter'[u] = old_counter[u]
      BY <2>1, <2>2, <3>1 DEF TypeOK
    <3> QED
      BY <3>2, <3>3
  <2>6. ASSUME NEW u \in Tasks, pc'[u] = "spin"
        PROVE  sync_counter'[u] = old_counter'[u] + 1
    BY <2>2, <2>6 DEF Inv, WaitInv
  <2>7. WaitInv'
    BY <2>5, <2>6 DEF WaitInv
  <2> QED
    BY <2>1, <2>4, <2>7 DEF Inv
<1>2. ASSUME NEW t \in Tasks, Check(t) PROVE Inv'
  <2>1. TypeOK'
    BY <1>2 DEF Check, Inv, TypeOK
  <2>2. Synchronised'
    BY <1>2 DEF Check, Inv, Synchronised, Passed
  <2>3. ASSUME NEW u \in Tasks, u < i'[t] PROVE sync_counter[u] > old_counter[t]
    <3>1. i'[t] = i[t] + 1 /\ pc[t] = "spin" /\ i[t] \in Nat
      BY <1>2 DEF Check, Inv, TypeOK
    <3>2. CASE u < i[t]
      BY <3>1, <3>2 DEF Inv, WaitInv
    <3>3. CASE u = i[t]
      BY <1>2, <3>1, <3>3 DEF Check, Inv, TypeOK, WaitInv, Tasks
    <3> QED
      BY <2>3, <3>1, <3>2, <3>3 DEF Tasks
  <2>4. \A u \in Tasks \ {t} : i'[u] = i[u]
    BY <1>2 DEF Check, Inv, TypeOK
  <2>5. WaitInv'
    BY <1>2, <2>3, <2>4 DEF Check, Inv, WaitInv
  <2> QED
    BY <2>1, <2>2, <2>5 DEF Inv
<1>3. ASSUME NEW t \in Tasks, Pass(t) PROVE Inv'
  <2>1. TypeOK'
    BY <1>3 DEF Pass, Inv, TypeOK
  <2>2. \A u \in Tasks : sync_counter[t] <= sync_counter[u]
    <3> SUFFICES ASSUME NEW u \in Tasks PROVE sync_counter[t] <= sync_counter[u]
      OBVIOUS
    <3>1. /\ sync_counter[t] = old_counter[t] + 1
          /\ u < i[t] => sync_counter[u] > old_counter[t]
      BY <1>3 DEF Pass, Inv, WaitInv
    <3>2. u < i[t]
      BY <1>3 DEF Pass, Tasks
    <3>3. sync_counter[u] \in Int /\ sync_counter[t] \in Int /\ old_counter[t] \in Int
      BY DEF Inv, TypeOK
    <3> QED
      BY <3>1, <3>2, <3>3
  <2>3. Synchronised'
    BY <1>3, <2>2 DEF Pass, Inv, TypeOK, Synchronised, Passed
  <2>4. WaitInv'
    BY <1>3 DEF Pass, Inv, TypeOK, WaitInv
  <2> QED
    BY <2>1, <2>3, <2>4 DEF Inv
<1>4. ASSUME NEW t \in Tasks, Return(t) PROVE Inv'
  BY <1>4 DEF Return, Inv, TypeOK, Synchronised, Passed, WaitInv
<1>5. CASE UNCHANGED vars
  BY <1>5 DEF vars, Inv, TypeOK, Synchronised, Passed, WaitInv
<1> QED
  BY <1>1, <1>2, <1>3, <1>4, <1>5 DEF Next, TaskStep, AllReturned

\* No task of a launch, whatever their number, leaves a barrier before every
\* task has arrived at it; failing tasks included.
THEOREM BarrierSynchronises == Spec => []Synchronised
<1>1. Safety => []Inv
  BY InitInv, NextInv, PTL DEF Safety
<1>2. Inv => Synchronised
  BY DEF Inv
<1> QED
  BY <1>1, <1>2, PTL DEF Spec
=============================================================================
