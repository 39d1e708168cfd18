------------------------ MODULE SpscTaskQueueProofs ------------------------
(***************************************************************************)
(* Proofs about SpscTaskQueue, for every ring size and every set of tasks. *)
(***************************************************************************)
EXTENDS SpscTaskQueue, SequenceTheorems, TLAPS

\* The remainder for the numbers that indices are computed from.
LEMMA WrapLemma ==
  ASSUME NEW k \in Nat, k < 2 * kRingSize
  PROVE  k % kRingSize = IF k < kRingSize THEN k ELSE k - kRingSize
BY RingSizeAssumption, SMT

\* The slot after slot i, as Enqueue and Pop compute it.
LEMMA NextSlotLemma ==
  ASSUME NEW i \in Slots
  PROVE  (i + 1) % kRingSize = IF i + 1 = kRingSize THEN 0 ELSE i + 1
BY RingSizeAssumption, WrapLemma DEF Slots

\* The invariant holds in the initial state.
LEMMA InitInv == Init => Inv
<1> SUFFICES ASSUME Init PROVE Inv
  OBVIOUS
<1> USE RingSizeAssumption DEF Init
<1>1. buffer \in [Slots -> Task \cup {NoTask}]
  OBVIOUS
<1>2. TypeOK
  <2>1. head \in Slots /\ tail \in Slots /\ pending \in Int
    BY DEF Slots
  <2>2. opc \in OwnerPcs /\ wpc \in WorkerPcs
    BY DEF OwnerPcs, WorkerPcs
  <2> QED
    BY <1>1, <2>1, <2>2, Zenon DEF TypeOK
<1>3. CountInv /\ ClaimInv /\ RoomInv
  BY DEF CountInv, ClaimInv, RoomInv, Counted, Claimed, Length
<1>4. MutexInv /\ SleepInv
  BY DEF MutexInv, SleepInv
<1> QED
  BY <1>2, <1>3, <1>4 DEF Inv

\* Every step of the owner and of the worker preserves the invariant.
LEMMA NextInv == Inv /\ [Next]_vars => Inv'
<1> SUFFICES ASSUME Inv, [Next]_vars PROVE Inv'
  OBVIOUS
<1> USE RingSizeAssumption
    DEF Inv, TypeOK, CountInv, ClaimInv, RoomInv, MutexInv, SleepInv,
        Counted, Claimed, Length, OwnerPcs, WorkerPcs,
        vars, shared, ownerVars, workerVars
<1>tail. (tail + 1) % kRingSize = IF tail + 1 = kRingSize THEN 0 ELSE tail + 1
  BY NextSlotLemma
<1>head. (head + 1) % kRingSize = IF head + 1 = kRingSize THEN 0 ELSE head + 1
  BY NextSlotLemma
<1>1. ASSUME NEW t \in Task, PushCall(t) PROVE Inv'
  BY <1>1 DEF PushCall, Slots
<1>2. CASE EnqueueCheck
  BY <1>2, <1>tail DEF EnqueueCheck, Slots
<1>3. CASE EnqueueWrite
  BY <1>3 DEF EnqueueWrite, Slots
<1>4. CASE EnqueuePublish
  BY <1>4, <1>tail DEF EnqueuePublish, Slots
<1>5. CASE PushCount
  BY <1>5 DEF PushCount, Slots
<1>6. CASE PushLock
  BY <1>6 DEF PushLock, Slots
<1>7. CASE PushNotify
  BY <1>7 DEF PushNotify, Notified, Slots
<1>8. CASE KillCall
  BY <1>8 DEF KillCall, Slots
<1>9. CASE KillLock
  BY <1>9 DEF KillLock, Slots
<1>10. CASE SignalForKill
  BY <1>10 DEF SignalForKill, Notified, Slots
<1>11. CASE SpinEnd
  BY <1>11 DEF SpinEnd, Slots
<1>12. CASE PopClaim
  BY <1>12 DEF PopClaim, Slots
<1>13. CASE PopLock
  BY <1>13 DEF PopLock, Slots
<1>14. CASE PopTest
  BY <1>14 DEF PopTest, Slots
<1>15. CASE PopBlock
  BY <1>15 DEF PopBlock, Slots
<1>16. CASE SpuriousWakeup
  BY <1>16 DEF SpuriousWakeup, Slots
<1>17. CASE PopExitCheck
  BY <1>17 DEF PopExitCheck, Slots
<1>18. CASE PopRead
  BY <1>18 DEF PopRead, Slots
<1>19. CASE PopRelease
  BY <1>19, <1>head DEF PopRelease, Slots
<1>20. CASE TaskDone
  BY <1>20 DEF TaskDone, Slots
<1>21. CASE Joined
  BY <1>21 DEF Joined
<1>22. CASE UNCHANGED vars
  BY <1>22
<1>q. QED
  BY <1>1, <1>2, <1>3, <1>4, <1>5, <1>6, <1>7, <1>8, <1>9, <1>10, <1>11, <1>12, <1>13, <1>14, <1>15, <1>16, <1>17, <1>18, <1>19, <1>20, <1>21, <1>22
     DEF Next, OwnerStep, WorkerStep

\* The inductive invariant holds in every reachable state.
LEMMA Invariance == Safety => []Inv
BY InitInv, NextInv, PTL DEF Safety

\* Type correctness of the ring, the counter and the control state.
THEOREM TypeCorrect == Spec => []TypeOK
<1>1. Inv => TypeOK
  BY DEF Inv
<1> QED
  BY <1>1, Invariance, PTL DEF Spec

\* The ICHECK of Pop at thread_pool.cc:194 never fails.
THEOREM PopFindsATask == Spec => []SanityCheckHolds
<1>1. Inv => SanityCheckHolds
  BY DEF Inv, ClaimInv, SanityCheckHolds
<1> QED
  BY <1>1, Invariance, PTL DEF Spec

\* pending_ stays between -1 and the capacity of the ring: fetch_add and
\* fetch_sub never wrap the int8_t around for a ring of up to 128 slots.
THEOREM PendingBounded == Spec => []PendingInRange
<1>1. ASSUME Inv PROVE PendingInRange
  <2>1. Length \in 0 .. kRingSize - 1
    BY <1>1, RingSizeAssumption DEF Inv, TypeOK, Length, Slots
  <2>2. Counted \in Int /\ 0 <= Counted /\ Counted <= Length
    BY <1>1, <2>1, RingSizeAssumption DEF Inv, CountInv, Counted
  <2>3. pending = Counted \/ pending = Counted - 1
    BY <1>1 DEF Inv, CountInv
  <2> QED
    BY <2>1, <2>2, <2>3, RingSizeAssumption DEF PendingInRange
<1> QED
  BY <1>1, Invariance, PTL DEF Spec

\* Enqueue and Pop never access the same slot of buffer_ at the same time.
THEOREM NoSlotRace == Spec => []SlotNotShared
<1>1. Inv => SlotNotShared
  BY DEF Inv, TypeOK, ClaimInv, SlotNotShared, Counted, Length, Slots
<1> QED
  BY <1>1, Invariance, PTL DEF Spec

\* No wakeup is lost: a worker sleeps with a task in the ring only while the
\* owner is on its way to notify it.
THEOREM NoLostWakeup == Spec => []SleepIsSafe
<1>1. ASSUME Inv PROVE SleepIsSafe
  <2> SUFFICES ASSUME wpc = "wait", opc \notin {"count", "lock", "notify"}
               PROVE  tail = head /\ ~exit_now
    BY DEF SleepIsSafe
  <2>1. ~exit_now /\ pending = -1
    BY <1>1 DEF Inv, SleepInv
  <2>2. pending = Length - 1
    BY <1>1 DEF Inv, CountInv, Counted, Claimed
  <2>3. tail = head
    BY <1>1, <2>1, <2>2, RingSizeAssumption DEF Inv, TypeOK, Length, Slots
  <2> QED
    BY <2>1, <2>3
<1> QED
  BY <1>1, Invariance, PTL DEF Spec

----------------------------------------------------------------------------
(***************************************************************************)
(* The ring implements the safety part of BoundedFifo.                     *)
(***************************************************************************)
\* The slot i places after slot h.
LEMMA OffsetLemma ==
  ASSUME NEW h \in Slots, NEW i \in Nat, i <= kRingSize
  PROVE  (h + i) % kRingSize
           = IF h + i < kRingSize THEN h + i ELSE h + i - kRingSize
BY RingSizeAssumption, WrapLemma DEF Slots

\* The slot no place after slot h is h itself.
LEMMA ZeroOffset == \A h \in Slots : (h + 0) % kRingSize = h
<1> SUFFICES ASSUME NEW h \in Slots PROVE (h + 0) % kRingSize = h
  OBVIOUS
<1>1. h + 0 = h /\ h \in Nat /\ h < kRingSize
  BY RingSizeAssumption DEF Slots
<1> QED
  BY <1>1, WrapLemma, RingSizeAssumption

\* The slots that Length counts are different from the slot at the tail, which
\* follows the last of them.
LEMMA OccupiedSlots ==
  ASSUME TypeOK
  PROVE  /\ Length \in 0 .. kRingSize - 1
         /\ (head + Length) % kRingSize = tail
         /\ \A i \in 0 .. Length - 1 :
              /\ (head + i) % kRingSize \in Slots
              /\ (head + i) % kRingSize # tail
<1>1. Length \in 0 .. kRingSize - 1
  BY RingSizeAssumption DEF TypeOK, Length, Slots
<1>2. (head + Length) % kRingSize = IF head + Length < kRingSize
                                    THEN head + Length
                                    ELSE head + Length - kRingSize
  BY <1>1, OffsetLemma, RingSizeAssumption DEF TypeOK
<1>3. (head + Length) % kRingSize = tail
  BY <1>1, <1>2, RingSizeAssumption DEF TypeOK, Length, Slots
<1>4. ASSUME NEW i \in 0 .. Length - 1
      PROVE  (head + i) % kRingSize \in Slots /\ (head + i) % kRingSize # tail
  <2>1. i \in Nat /\ i < Length /\ i < kRingSize /\ head \in Slots
    BY <1>1, RingSizeAssumption DEF TypeOK
  <2>2. (head + i) % kRingSize
          = IF head + i < kRingSize THEN head + i ELSE head + i - kRingSize
    BY <2>1, OffsetLemma, RingSizeAssumption
  <2> QED
    BY <1>1, <2>1, <2>2, RingSizeAssumption DEF TypeOK, Length, Slots
<1> QED
  BY <1>1, <1>3, <1>4

\* Giving a slot back: the ring is one task shorter, and the i-th task after
\* the new head is the one after the i-th task of the old one.
LEMMA ReleaseLemma ==
  ASSUME TypeOK, Length >= 1, PopRelease
  PROVE  /\ Length' = Length - 1
         /\ \A i \in 0 .. Length - 1 :
              (head' + i) % kRingSize = (head + 1 + i) % kRingSize
<1>1. head' = IF head + 1 = kRingSize THEN 0 ELSE head + 1
  BY NextSlotLemma DEF TypeOK, PopRelease
<1>2. Length' = Length - 1
  BY <1>1, RingSizeAssumption DEF TypeOK, PopRelease, Length, Slots
<1>3. ASSUME NEW i \in 0 .. Length - 1
      PROVE  (head' + i) % kRingSize = (head + 1 + i) % kRingSize
  <2>1. i \in Nat /\ i < kRingSize
    BY OccupiedSlots, RingSizeAssumption
  <2>2. head \in Slots /\ head' \in Slots /\ i + 1 \in Nat /\ i + 1 <= kRingSize
    BY <1>1, <2>1, RingSizeAssumption DEF TypeOK, Slots
  <2>3. head + 1 + i = head + (i + 1)
    BY <2>1, <2>2 DEF Slots
  <2>4. (head + (i + 1)) % kRingSize
          = IF head + (i + 1) < kRingSize THEN head + (i + 1)
                                          ELSE head + (i + 1) - kRingSize
    BY <2>2, OffsetLemma, RingSizeAssumption
  <2>5. (head' + i) % kRingSize
          = IF head' + i < kRingSize THEN head' + i ELSE head' + i - kRingSize
    BY <2>1, <2>2, OffsetLemma, RingSizeAssumption
  <2> QED
    BY <1>1, <2>1, <2>2, <2>3, <2>4, <2>5, RingSizeAssumption DEF Slots
<1> QED
  BY <1>2, <1>3

\* Publishing a slot makes the ring one task longer.
LEMMA PublishLemma ==
  ASSUME TypeOK, Length < kRingSize - 1, EnqueuePublish
  PROVE  Length' = Length + 1
<1>1. tail' = IF tail + 1 = kRingSize THEN 0 ELSE tail + 1
  BY NextSlotLemma DEF TypeOK, EnqueuePublish
<1> QED
  BY <1>1, RingSizeAssumption DEF TypeOK, EnqueuePublish, Length, Slots

\* The actions that move tasks are the only ones that can disturb ContentInv.
LEMMA ContentNext == Inv /\ ContentInv /\ [Next]_vars => ContentInv'
<1> SUFFICES ASSUME Inv, ContentInv, [Next]_vars PROVE ContentInv'
  OBVIOUS
<1>t. TypeOK
  BY DEF Inv
<1>o. /\ Length \in 0 .. kRingSize - 1
      /\ (head + Length) % kRingSize = tail
      /\ \A i \in 0 .. Length - 1 :
           /\ (head + i) % kRingSize \in Slots
           /\ (head + i) % kRingSize # tail
  BY <1>t, OccupiedSlots
<1> USE DEF ContentInv, vars, shared, ownerVars, workerVars
<1>1. CASE EnqueueWrite
  <2>1. \A i \in 0 .. Length - 1 :
          buffer'[(head + i) % kRingSize] = buffer[(head + i) % kRingSize]
    BY <1>t, <1>o, <1>1 DEF EnqueueWrite, TypeOK
  <2>2. Length' = Length /\ head' = head
    BY <1>1 DEF EnqueueWrite, Length
  <2>3. buffer'[tail] = input
    BY <1>t, <1>1 DEF EnqueueWrite, TypeOK
  <2> QED
    BY <1>1, <2>1, <2>2, <2>3 DEF EnqueueWrite
<1>2. CASE EnqueuePublish
  <2>1. Length' = Length + 1
    BY <1>t, <1>2, PublishLemma DEF Inv, RoomInv, EnqueuePublish
  <2>2. buffer[(head + Length) % kRingSize] \in Task
    BY <1>o, <1>2 DEF EnqueuePublish
  <2>3. \A i \in 0 .. Length : buffer[(head + i) % kRingSize] \in Task
    BY <1>o, <2>2, RingSizeAssumption
  <2> QED
    BY <1>2, <1>o, <2>1, <2>3, RingSizeAssumption DEF EnqueuePublish
<1>3. CASE PopRelease
  <2>1. Length >= 1
    BY <1>t, <1>o, <1>3, RingSizeAssumption
    DEF PopRelease, Inv, ClaimInv, Counted
  <2>2. /\ Length' = Length - 1
        /\ \A i \in 0 .. Length - 1 :
             (head' + i) % kRingSize = (head + 1 + i) % kRingSize
    BY <1>t, <1>3, <2>1, ReleaseLemma
  <2>3. ASSUME NEW i \in 0 .. Length - 2
        PROVE  buffer[(head' + i) % kRingSize] \in Task
    <3>1. i + 1 \in 0 .. Length - 1 /\ i \in 0 .. Length - 1
      BY <1>o, RingSizeAssumption
    <3>2. head + 1 + i = head + (i + 1)
      BY <1>t, <1>o, RingSizeAssumption DEF TypeOK, Slots
    <3>3. (head' + i) % kRingSize = (head + (i + 1)) % kRingSize
      BY <2>2, <3>1, <3>2
    <3> QED
      BY <3>1, <3>3
  <2>4. Length' - 1 = Length - 2
    BY <1>o, <2>2, RingSizeAssumption
  <2>5. \A i \in 0 .. Length' - 1 : buffer'[(head' + i) % kRingSize] \in Task
    BY <1>3, <2>3, <2>4 DEF PopRelease
  <2> QED
    BY <1>3, <2>5 DEF PopRelease
<1>4. CASE PopRead
  <2>1. Length >= 1 /\ tail # head
    BY <1>t, <1>o, <1>4, RingSizeAssumption
    DEF PopRead, Inv, ClaimInv, Counted, Length, TypeOK, Slots
  <2>2. (head + 0) % kRingSize = head
    BY <1>t, ZeroOffset DEF TypeOK
  <2>3. buffer[head] \in Task
    BY <1>o, <2>1, <2>2, RingSizeAssumption
  <2> QED
    BY <1>4, <2>1, <2>3 DEF PopRead, Length
<1>5. ASSUME NEW t \in Task, PushCall(t) PROVE ContentInv'
  BY <1>5 DEF PushCall, Length
<1>6. CASE EnqueueCheck
  BY <1>6 DEF EnqueueCheck, Length
<1>7. CASE PushCount \/ PushLock \/ PushNotify \/ KillCall \/ KillLock \/ SignalForKill
  BY <1>7 DEF PushCount, PushLock, PushNotify, KillCall, KillLock, SignalForKill,
              Notified, Length
<1>8. CASE SpinEnd \/ PopClaim \/ PopLock \/ PopTest \/ PopBlock \/ SpuriousWakeup
  BY <1>8 DEF SpinEnd, PopClaim, PopLock, PopTest, PopBlock, SpuriousWakeup, Length
<1>9. CASE PopExitCheck \/ TaskDone \/ Joined \/ UNCHANGED vars
  BY <1>9 DEF PopExitCheck, TaskDone, Joined, Length
<1> QED
  BY <1>1, <1>2, <1>3, <1>4, <1>5, <1>6, <1>7, <1>8, <1>9
  DEF Next, OwnerStep, WorkerStep

\* The empty ring holds what ContentInv says.
LEMMA ContentInit == Init => ContentInv
BY DEF Init, ContentInv, Length

\* The mapped queue is a sequence of tasks.
LEMMA QueuedSeq ==
  Inv /\ ContentInv => /\ Length - Taken \in 0 .. kRingSize - 1
                       /\ Queued \in Seq(Task)
                       /\ Len(Queued) = Length - Taken
<1> SUFFICES ASSUME Inv, ContentInv
             PROVE  /\ Length - Taken \in 0 .. kRingSize - 1
                    /\ Queued \in Seq(Task)
                    /\ Len(Queued) = Length - Taken
  OBVIOUS
<1>1. Length \in 0 .. kRingSize - 1 /\ (wpc = "release" => Length >= 1)
  BY OccupiedSlots, RingSizeAssumption DEF Inv, ClaimInv, Counted
<1>2. Length - Taken \in 0 .. kRingSize - 1
  BY <1>1, RingSizeAssumption DEF Taken
<1>3. ASSUME NEW i \in 1 .. Length - Taken
      PROVE  buffer[(head + (Taken + i - 1)) % kRingSize] \in Task
  <2>1. Taken + i - 1 \in 0 .. Length - 1
    BY <1>1, RingSizeAssumption DEF Taken
  <2> QED
    BY <2>1 DEF ContentInv
<1>4. Queued \in [1 .. Length - Taken -> Task]
  BY <1>3 DEF Queued
<1>5. Queued \in Seq(Task)
  BY <1>2, <1>4, SeqDef
<1>6. Len(Queued) = Length - Taken
  BY <1>2, <1>4, <1>5, LenProperties
<1> QED
  BY <1>2, <1>5, <1>6

\* A step that moves no task leaves the mapped queue as it is.
LEMMA QueuedUnchanged ==
  ASSUME UNCHANGED <<buffer, head, tail>>, (wpc = "release") <=> (wpc = "release")'
  PROVE  UNCHANGED Queued
BY DEF Queued, Length, Taken

\* Every step of the ring is a step of the abstract channel or changes nothing
\* that the channel shows.
LEMMA FifoStep ==
  ASSUME Inv, ContentInv, Inv', ContentInv', [Next]_vars
  PROVE  [Fifo!Next]_Fifo!vars
<1>q. /\ Length - Taken \in 0 .. kRingSize - 1
      /\ Queued \in Seq(Task)
      /\ Len(Queued) = Length - Taken
  BY QueuedSeq
<1>p. (/\ Length - Taken \in 0 .. kRingSize - 1
       /\ Queued \in Seq(Task)
       /\ Len(Queued) = Length - Taken)'
  BY QueuedSeq, PTL
<1>qq. Queued' \in Seq(Task) /\ Len(Queued') = Length' - Taken'
  BY <1>p
<1>t. TypeOK
  BY DEF Inv
<1>o. /\ Length \in 0 .. kRingSize - 1
      /\ (head + Length) % kRingSize = tail
      /\ \A i \in 0 .. Length - 1 :
           /\ (head + i) % kRingSize \in Slots
           /\ (head + i) % kRingSize # tail
  BY <1>t, OccupiedSlots
<1> USE DEF Fifo!vars, vars, shared, ownerVars, workerVars
<1>1. CASE EnqueueWrite
  <2>1. \A i \in 0 .. Length - 1 :
          buffer'[(head + i) % kRingSize] = buffer[(head + i) % kRingSize]
    BY <1>t, <1>o, <1>1 DEF EnqueueWrite, TypeOK
  <2>2. Length' = Length /\ Taken' = Taken /\ head' = head
    BY <1>1 DEF EnqueueWrite, Length, Taken
  <2>3. \A i \in 1 .. Length - Taken : Taken + i - 1 \in 0 .. Length - 1
    BY <1>o, <1>q, RingSizeAssumption DEF Taken
  <2>4. Queued' = Queued
    BY <2>1, <2>2, <2>3 DEF Queued
  <2> QED
    BY <1>1, <2>4 DEF EnqueueWrite
<1>2. CASE EnqueuePublish
  <2>1. Length' = Length + 1 /\ Taken' = Taken /\ head' = head /\ buffer' = buffer
    BY <1>t, <1>2, PublishLemma DEF Inv, RoomInv, EnqueuePublish, Taken
  <2>2. input \in Task /\ buffer[tail] = input /\ ~exit_now
    BY <1>2 DEF ContentInv, EnqueuePublish
  <2>3. Len(Queued) < kRingSize - 1
    BY <1>q, <1>o, <1>2, RingSizeAssumption DEF Inv, RoomInv, EnqueuePublish, Taken
  <2>4. Queued' = Append(Queued, input)
    <3> DEFINE N == Length - Taken
    <3>1. N \in Nat /\ Length' - Taken' = N + 1 /\ Taken + (N + 1) - 1 = Length
      BY <1>q, <1>o, <2>1, RingSizeAssumption DEF Taken
    <3>2. \A i \in 1 .. N + 1 :
            Queued'[i] = buffer[(head + (Taken + i - 1)) % kRingSize]
      BY <2>1, <3>1 DEF Queued
    <3>3. Queued'[N + 1] = input
      BY <1>o, <2>2, <3>1, <3>2
    <3>4. \A i \in 1 .. N : Queued'[i] = Queued[i]
      <4>1. \A i \in 1 .. N : i \in 1 .. N + 1
        BY <3>1
      <4>2. \A i \in 1 .. N :
              Queued[i] = buffer[(head + (Taken + i - 1)) % kRingSize]
        BY DEF Queued
      <4> QED
        BY <3>2, <4>1, <4>2
    <3>5. /\ Append(Queued, input) \in Seq(Task)
          /\ Len(Append(Queued, input)) = N + 1
          /\ \A i \in 1 .. N : Append(Queued, input)[i] = Queued[i]
          /\ Append(Queued, input)[N + 1] = input
      BY <1>q, <2>2, AppendProperties
    <3>6. Len(Queued') = N + 1
      BY <1>qq, <3>1
    <3>7. \A i \in 1 .. N + 1 : Queued'[i] = Append(Queued, input)[i]
      <4>1. \A i \in 1 .. N + 1 : i = N + 1 \/ i \in 1 .. N
        BY <3>1
      <4> QED
        BY <4>1, <3>3, <3>4, <3>5
    <3> QED
      BY <1>qq, <3>5, <3>6, <3>7, SeqEqual
  <2>5. Fifo!Put(input)
    BY <1>2, <2>2, <2>3, <2>4 DEF EnqueuePublish, Fifo!Put
  <2> QED
    BY <2>2, <2>5 DEF Fifo!Next
<1>3. CASE PopRelease
  <2>1. Length >= 1 /\ Taken = 1 /\ Taken' = 0
    BY <1>o, <1>3, RingSizeAssumption DEF PopRelease, Inv, ClaimInv, Counted, Taken
  <2>2. /\ Length' = Length - 1
        /\ \A i \in 0 .. Length - 1 :
             (head' + i) % kRingSize = (head + 1 + i) % kRingSize
    BY <1>t, <1>3, <2>1, ReleaseLemma
  <2>3. Length' - Taken' = Length - Taken
    BY <1>o, <2>1, <2>2
  <2>4. ASSUME NEW i \in 1 .. Length - Taken
        PROVE  (head' + (Taken' + i - 1)) % kRingSize
                 = (head + (Taken + i - 1)) % kRingSize
    <3>1. Taken' + i - 1 = i - 1 /\ i - 1 \in 0 .. Length - 1 /\ Taken + i - 1 = i
      BY <1>o, <2>1, RingSizeAssumption
    <3>2. head + 1 + (i - 1) = head + i
      BY <1>t, <1>o, RingSizeAssumption DEF TypeOK, Slots
    <3> QED
      BY <2>2, <3>1, <3>2
  <2>5. Queued' = Queued
    BY <1>3, <2>3, <2>4 DEF Queued, PopRelease
  <2> QED
    BY <1>3, <2>5 DEF PopRelease
<1>4. CASE PopRead
  <2>1. Length >= 1 /\ tail # head
    BY <1>t, <1>o, <1>4, RingSizeAssumption
    DEF PopRead, Inv, ClaimInv, Counted, Length, TypeOK, Slots
  <2>2. /\ output = NoTask /\ output' = buffer[head]
        /\ Taken = 0 /\ Taken' = 1 /\ Length' = Length
        /\ UNCHANGED <<buffer, head, exit_now>>
    BY <1>4, <2>1 DEF PopRead, ContentInv, Taken, Length
  <2>3. Queued # <<>>
    BY <1>q, <1>o, <2>1, <2>2, EmptySeq
  <2>4. Head(Queued) = buffer[head]
    <3>1. 1 \in 1 .. Length - Taken /\ Taken + 1 - 1 = 0
      BY <1>o, <2>1, <2>2
    <3>2. Queued[1] = buffer[(head + 0) % kRingSize]
      BY <3>1 DEF Queued
    <3>3. Queued[1] = buffer[head]
      BY <3>2, <1>t, ZeroOffset DEF TypeOK
    <3> QED
      BY <1>q, <2>3, <3>3
  <2>5. Queued' = Tail(Queued)
    <3>1. /\ Tail(Queued) \in Seq(Task)
          /\ Len(Tail(Queued)) = Length - 1
          /\ \A i \in 1 .. Length - 1 : Tail(Queued)[i] = Queued[i + 1]
      BY <1>q, <1>o, <2>2, <2>3, HeadTailProperties
    <3>2. Len(Queued') = Length - 1
      BY <1>qq, <2>2
    <3>3. ASSUME NEW i \in 1 .. Length - 1
          PROVE  Queued'[i] = Queued[i + 1]
      <4>1. /\ i \in 1 .. Length' - Taken' /\ i + 1 \in 1 .. Length - Taken
            /\ Taken' + i - 1 = i /\ Taken + (i + 1) - 1 = i
        BY <1>o, <2>2
      <4>2. Queued'[i] = buffer[(head + i) % kRingSize]
        BY <2>2, <4>1 DEF Queued
      <4>3. Queued[i + 1] = buffer[(head + i) % kRingSize]
        BY <4>1 DEF Queued
      <4> QED
        BY <4>2, <4>3
    <3> QED
      BY <1>qq, <3>1, <3>2, <3>3, SeqEqual
  <2>6. Fifo!Take
    BY <2>2, <2>3, <2>4, <2>5 DEF Fifo!Take
  <2> QED
    BY <2>6 DEF Fifo!Next
<1>5. CASE TaskDone
  <2>1. UNCHANGED Queued
    BY <1>5, QueuedUnchanged DEF TaskDone
  <2>2. output # NoTask
    BY <1>5, NoTaskAssumption DEF ContentInv, TaskDone
  <2>3. Fifo!Finish
    BY <1>5, <2>1, <2>2 DEF TaskDone, Fifo!Finish
  <2> QED
    BY <2>3 DEF Fifo!Next
<1>6. CASE SignalForKill
  <2>1. UNCHANGED Queued
    BY <1>6, QueuedUnchanged DEF SignalForKill, Notified
  <2>2. Fifo!Close
    BY <1>6, <2>1 DEF SignalForKill, ContentInv, Fifo!Close
  <2> QED
    BY <2>2 DEF Fifo!Next
<1>7. ASSUME NEW t \in Task, PushCall(t) PROVE UNCHANGED Fifo!vars
  BY <1>7, QueuedUnchanged DEF PushCall
<1>8. CASE EnqueueCheck \/ PushCount \/ PushLock \/ PushNotify \/ KillCall \/ KillLock
  BY <1>8, QueuedUnchanged
  DEF EnqueueCheck, PushCount, PushLock, PushNotify, KillCall, KillLock, Notified
<1>9. CASE SpinEnd \/ PopClaim \/ PopLock \/ PopTest \/ PopBlock \/ SpuriousWakeup
  BY <1>9, QueuedUnchanged
  DEF SpinEnd, PopClaim, PopLock, PopTest, PopBlock, SpuriousWakeup
<1>10. CASE PopExitCheck \/ Joined \/ UNCHANGED vars
  BY <1>10, QueuedUnchanged DEF PopExitCheck, Joined
<1> QED
  BY <1>1, <1>2, <1>3, <1>4, <1>5, <1>6, <1>7, <1>8, <1>9, <1>10
  DEF Next, OwnerStep, WorkerStep

\* The ring buffer, for every size, implements the bounded FIFO channel: what
\* SpscTaskQueue delivers is what was pushed, once, in order, and never more
\* than its capacity.
THEOREM RingImplementsFifo == Spec => Fifo!Safety
<1>1. Init => Fifo!Init
  BY RingSizeAssumption, EmptySeq
  DEF Init, Fifo!Init, Queued, Length, Taken
<1>2. Safety => [](Inv /\ ContentInv)
  BY InitInv, NextInv, ContentInit, ContentNext, PTL DEF Safety
<1>3. Inv /\ ContentInv /\ (Inv /\ ContentInv)' /\ [Next]_vars
        => [Fifo!Next]_Fifo!vars
  BY FifoStep
<1> QED
  BY <1>1, <1>2, <1>3, PTL DEF Spec, Safety, Fifo!Safety
============================================================================
