-------------------------- MODULE PopenPoolProofs --------------------------
(***************************************************************************)
(* Proofs about PopenPool, for any number of threads, jobs, uses and       *)
(* crashes, with and without an initializer and a timeout.                 *)
(***************************************************************************)
EXTENDS PopenPool, TLAPS

ChildStates ==
  [alive : BOOLEAN, pc : {"read", "run", "cancel", "respond"}, req : Requests,
   ret : {"COMPLETE", "EXCEPTION"}, in : Seq(Requests), out : Seq(Answers),
   status : [Requests -> {"NEW", "RUNNING", "COMPLETE", "TIMEOUT"}],
   armed : SUBSET Jobs, fired : SUBSET Jobs]

\* TypeOK, with the types of the processes and of the history.
Types ==
  /\ TypeOK
  /\ child \in [Threads -> ChildStates]
  /\ uses \in [Threads -> Nat] /\ ready \in [Threads -> BOOLEAN]

(***************************************************************************)
(* Where a request is.  A process that is between requests reads, and no   *)
(* request of it is still RUNNING, so a timer that fired late finds its    *)
(* own request ended.  The request w that a thread waits for is unread, or *)
(* run, or answered, and never two of these; only after a TIMEOUT may the  *)
(* function still run.                                                     *)
(***************************************************************************)
NoneRunning(c) == \A r \in Requests : c.status[r] # "RUNNING"
AtRest(c) == c.alive => c.pc = "read" /\ NoneRunning(c)

Between(c) == c.in = <<>> /\ c.out = <<>> /\ AtRest(c)
Unread(c, w) == c.in = <<w>> /\ c.out = <<>> /\ AtRest(c)
Running(c, w) ==
  /\ c.in = <<>> /\ c.out = <<>>
  /\ c.alive =>
       /\ c.pc # "read" /\ c.req = w
       /\ \A r \in Requests : c.status[r] = "RUNNING" <=> r = w
Answered(c, w) ==
  /\ c.in = <<>> /\ AtRest(c)
  /\ \E k \in {"COMPLETE", "EXCEPTION", "TORN"} : c.out = <<Answer(k, w)>>
TimedOut(c, w) ==
  /\ c.in = <<>> /\ c.out = <<Answer("TIMEOUT", w)>> /\ w \in Jobs
  /\ c.alive => c.req = w /\ NoneRunning(c)
Waiting(c, w) == Unread(c, w) \/ Running(c, w) \/ Answered(c, w) \/ TimedOut(c, w)

\* The request a thread waits for.
Want(t) == IF tpc[t] = "init" THEN Init0 ELSE job[t]

PipeOK(t) ==
  IF tpc[t] \in {"idle", "send"} THEN Between(child[t]) ELSE Waiting(child[t], Want(t))
PipeInv == \A t \in Threads : PipeOK(t)

\* A job is in the queue once, or held by one thread, or has its result.
QueueOwns ==
  \A i \in DOMAIN queue :
    /\ queue[i] <= submitted /\ future[queue[i]] = Pending
    /\ \A k \in DOMAIN queue : queue[k] = queue[i] => k = i
    /\ \A t \in Threads : job[t] # queue[i]
ThreadOwns ==
  \A t \in Threads :
    /\ tpc[t] = "idle" <=> job[t] = Init0
    /\ job[t] # Init0 =>
         /\ job[t] <= submitted /\ future[job[t]] = Pending
         /\ \A u \in Threads : job[u] = job[t] => u = t

\* _remaining_uses and the uses of a process add up once it is ready.
CountInv ==
  MaximumUses # 0 =>
    \A t \in Threads : ready[t] =>
      /\ uses[t] <= MaximumUses
      /\ worker[t].proc => worker[t].remaining = MaximumUses - uses[t]

CloseInv ==
  closed => queue = <<>> /\ \A t \in Threads : tpc[t] = "idle" /\ ~child[t].alive

\* Jobs that are not submitted have no result.
FutureInv == \A j \in Jobs : j > submitted => future[j] = Pending

Inv ==
  /\ Types /\ PipeInv /\ QueueOwns /\ ThreadOwns /\ CountInv /\ CloseInv /\ FutureInv
  /\ ResultIsOwn

----------------------------------------------------------------------------
(***************************************************************************)
(* Lemmas.                                                                 *)
(***************************************************************************)
LEMMA Singletons ==
  ASSUME NEW x
  PROVE  /\ Append(<<>>, x) = <<x>> /\ Head(<<x>>) = x /\ Tail(<<x>>) = <<>>
         /\ <<x>> # <<>> /\ Len(<<x>>) = 1 /\ Len(<<>>) = 0
         /\ \A y : <<x>> = <<y>> => x = y
<1>1. \A y : <<x>> = <<y>> => x = y
  <2> SUFFICES ASSUME NEW y, <<x>> = <<y>> PROVE x = y
    OBVIOUS
  <2>1. <<x>>[1] = x /\ <<y>>[1] = y
    OBVIOUS
  <2> QED
    BY <2>1
<1> QED
  BY <1>1

\* A step of a process: nothing but the process changes, it does not come to
\* life, and its pipes stay in order.
LEMMA ChildStep ==
  ASSUME Inv, NEW t \in Threads, NEW d \in ChildStates,
         child' = [child EXCEPT ![t] = d], UNCHANGED <<poolVars, threadVars>>,
         crashes' \in 0..MaxCrash, d.alive => child[t].alive,
         IF tpc[t] \in {"idle", "send"} THEN Between(d) ELSE Waiting(d, Want(t))
  PROVE  Inv'
<1> USE DEF Inv, Types, poolVars, threadVars
<1>1. child' \in [Threads -> ChildStates] /\ child'[t] = d
  OBVIOUS
<1>2. \A u \in Threads \ {t} : child'[u] = child[u]
  OBVIOUS
<1>3. TypeOK'
  <2>1. \A u \in Threads :
          /\ child'[u].req \in Requests
          /\ child'[u].pc \in {"read", "run", "cancel", "respond"}
          /\ child'[u].in \in Seq(Requests) /\ child'[u].out \in Seq(Answers)
          /\ child'[u].armed \subseteq Jobs /\ child'[u].fired \subseteq Jobs
    BY <1>1 DEF ChildStates
  <2> QED
    BY <2>1 DEF TypeOK
<1>4. PipeInv'
  BY <1>1, <1>2 DEF PipeInv, PipeOK, Want
<1>5. CloseInv'
  BY <1>1, <1>2 DEF CloseInv
<1> QED
  BY <1>1, <1>3, <1>4, <1>5 DEF QueueOwns, ThreadOwns, CountInv, FutureInv, ResultIsOwn

\* A process that was just started, and none.
LEMMA NewChildren ==
  /\ \A r \in Requests : Started(r) \in ChildStates /\ Unread(Started(r), r)
  /\ NoChild \in ChildStates /\ Between(NoChild) /\ ~NoChild.alive
  /\ NoRequest \in ChildStates /\ Between(NoRequest)
<1>1. Init0 \in Requests
  BY DEF Requests
<1>2. ASSUME NEW r \in Requests
      PROVE  Started(r) \in ChildStates /\ Unread(Started(r), r)
  <2>1. <<r>> \in Seq(Requests) /\ <<>> \in Seq(Answers)
    OBVIOUS
  <2>2. Started(r) \in ChildStates
    BY <1>1, <2>1 DEF Started, ChildStates
  <2>3. Unread(Started(r), r)
    BY DEF Started, Unread, AtRest, NoneRunning
  <2> QED
    BY <2>2, <2>3
<1>3. NoChild \in ChildStates
  <2>1. Started(Init0) \in ChildStates /\ <<>> \in Seq(Requests)
    BY <1>1, <1>2
  <2> HIDE DEF Started
  <2> QED
    BY <2>1 DEF NoChild, ChildStates
<1>4. NoChild.in = <<>> /\ NoChild.out = <<>> /\ ~NoChild.alive
  BY DEF NoChild, Started
<1>5. NoRequest \in ChildStates
  <2>1. Started(Init0) \in ChildStates /\ <<>> \in Seq(Requests)
    BY <1>1, <1>2
  <2> HIDE DEF Started
  <2> QED
    BY <2>1 DEF NoRequest, ChildStates
<1>6. Between(NoRequest)
  BY DEF NoRequest, Started, Between, AtRest, NoneRunning
<1> QED
  BY <1>2, <1>3, <1>4, <1>5, <1>6 DEF Between, AtRest

LEMMA InitInv == Init => Inv
<1> SUFFICES ASSUME Init PROVE Inv
  OBVIOUS
<1> USE DEF Init
<1>1. NoChild \in ChildStates /\ Between(NoChild) /\ ~NoChild.alive
  BY NewChildren
<1>2. Pending \in Answers
  BY DEF Pending, Answer, Answers, Kinds, Requests
<1>3. child \in [Threads -> ChildStates]
  BY <1>1
<1>4. TypeOK
  <2>1. submitted \in 0..NumJobs /\ crashes \in 0..MaxCrash /\ queue \in Seq(Jobs)
    BY PopenAssumption
  <2>4. closed \in BOOLEAN
    OBVIOUS
  <2>2. /\ future \in [Jobs -> Answers] /\ job \in [Threads -> Requests]
        /\ tpc \in [Threads -> {"idle", "send", "init", "recv"}]
    BY <1>2 DEF Requests
  <2>3. worker \in [Threads -> [proc : BOOLEAN, remaining : -1..MaximumUses]]
    BY PopenAssumption DEF None
  <2> QED
    BY <1>3, <2>1, <2>2, <2>3, <2>4 DEF TypeOK, ChildStates
<1>5. PipeInv
  BY <1>1 DEF PipeInv, PipeOK
<1>6. FutureInv /\ ResultIsOwn /\ CountInv
  BY DEF FutureInv, ResultIsOwn, Pending, Answer, CountInv
<1>7. QueueOwns /\ ThreadOwns /\ CloseInv
  BY DEF QueueOwns, ThreadOwns, CloseInv
<1> QED
  BY <1>3, <1>4, <1>5, <1>6, <1>7 DEF Inv, Types

----------------------------------------------------------------------------
(***************************************************************************)
(* The steps of a process preserve the invariant.                          *)
(***************************************************************************)
LEMMA ChildReadInv ==
  ASSUME Inv, NEW t \in Threads, ChildRead(t)
  PROVE  Inv'
<1> DEFINE c == child[t]
           r == Head(c.in)
           d == [c EXCEPT !.in = Tail(@), !.req = r, !.pc = "run", !.status[r] = "RUNNING",
                          !.armed = IF Timeout /\ r # Init0 THEN {r} ELSE {}]
<1>1. /\ c \in ChildStates /\ c.alive /\ c.in # <<>> /\ c.pc = "read"
      /\ child' = [child EXCEPT ![t] = d] /\ UNCHANGED <<poolVars, threadVars, crashes>>
  BY DEF Inv, Types, ChildRead
<1>2. tpc[t] \notin {"idle", "send"} /\ Unread(c, Want(t))
  <2>1. PipeOK(t)
    BY DEF Inv, PipeInv
  <2> QED
    BY <1>1, <2>1 DEF PipeOK, Between, Waiting, Running, Answered, TimedOut
<1>3. /\ c.in = <<Want(t)>> /\ c.out = <<>> /\ r = Want(t) /\ r \in Requests
      /\ NoneRunning(c) /\ Tail(c.in) = <<>>
  <2>1. Want(t) \in Requests
    BY DEF Want, Requests, Inv, Types, TypeOK
  <2> QED
    BY <1>1, <1>2, <2>1, Singletons DEF Unread, AtRest
<1>4. d \in ChildStates
  <2>1. (IF Timeout /\ r # Init0 THEN {r} ELSE {}) \in SUBSET Jobs
    BY <1>3 DEF Requests
  <2>2. Tail(c.in) \in Seq(Requests)
    BY <1>3
  <2> HIDE DEF r
  <2> QED
    BY <1>1, <1>3, <2>1, <2>2 DEF ChildStates
<1>5. Running(d, Want(t))
  <2>1. d.in = <<>> /\ d.out = <<>> /\ d.req = r /\ d.pc = "run"
    BY <1>1, <1>3 DEF ChildStates
  <2>2. \A q \in Requests : d.status[q] = "RUNNING" <=> q = r
    BY <1>1, <1>3 DEF ChildStates, NoneRunning
  <2> HIDE DEF d, r
  <2> QED
    BY <1>3, <2>1, <2>2 DEF Running
<1>6. crashes' \in 0..MaxCrash
  BY <1>1 DEF Inv, Types, TypeOK
<1> HIDE DEF d
<1> QED
  BY <1>1, <1>2, <1>4, <1>5, <1>6, ChildStep DEF Waiting

LEMMA ChildRunInv ==
  ASSUME Inv, NEW t \in Threads, ChildRun(t)
  PROVE  Inv'
<1> DEFINE c == child[t]
<1>1. PICK ret \in {"COMPLETE", "EXCEPTION"} :
        child' = [child EXCEPT ![t].pc = "cancel", ![t].ret = ret]
  BY DEF ChildRun
<1> DEFINE d == [c EXCEPT !.pc = "cancel", !.ret = ret]
<1>2. /\ c \in ChildStates /\ c.alive /\ c.pc = "run"
      /\ child' = [child EXCEPT ![t] = d] /\ UNCHANGED <<poolVars, threadVars, crashes>>
  BY <1>1 DEF Inv, Types, ChildRun
<1>3. d \in ChildStates
  BY <1>2 DEF ChildStates
<1>4. /\ d.in = c.in /\ d.out = c.out /\ d.req = c.req /\ d.pc = "cancel"
      /\ d.status = c.status /\ d.alive = c.alive
  BY <1>2 DEF ChildStates
<1>5. PipeOK(t)
  BY DEF Inv, PipeInv
<1>6. crashes' \in 0..MaxCrash
  BY <1>2 DEF Inv, Types, TypeOK
<1> HIDE DEF d
<1>7. IF tpc[t] \in {"idle", "send"} THEN Between(d) ELSE Waiting(d, Want(t))
  BY <1>2, <1>4, <1>5 DEF PipeOK, Between, Waiting, Unread, Running, Answered, TimedOut,
       AtRest, NoneRunning
<1> QED
  BY <1>2, <1>3, <1>4, <1>6, <1>7, ChildStep

LEMMA ChildCancelInv ==
  ASSUME Inv, NEW t \in Threads, ChildCancel(t)
  PROVE  Inv'
<1> DEFINE c == child[t]
           d == [c EXCEPT !.pc = "respond", !.armed = {}]
<1>1. /\ c \in ChildStates /\ c.alive /\ c.pc = "cancel"
      /\ child' = [child EXCEPT ![t] = d] /\ UNCHANGED <<poolVars, threadVars, crashes>>
  BY DEF Inv, Types, ChildCancel
<1>2. d \in ChildStates
  BY <1>1 DEF ChildStates
<1>3. /\ d.in = c.in /\ d.out = c.out /\ d.req = c.req /\ d.pc = "respond"
      /\ d.status = c.status /\ d.alive = c.alive
  BY <1>1 DEF ChildStates
<1>4. PipeOK(t)
  BY DEF Inv, PipeInv
<1>5. crashes' \in 0..MaxCrash
  BY <1>1 DEF Inv, Types, TypeOK
<1> HIDE DEF d
<1>6. IF tpc[t] \in {"idle", "send"} THEN Between(d) ELSE Waiting(d, Want(t))
  BY <1>1, <1>3, <1>4 DEF PipeOK, Between, Waiting, Unread, Running, Answered, TimedOut,
       AtRest, NoneRunning
<1> QED
  BY <1>1, <1>2, <1>3, <1>5, <1>6, ChildStep

LEMMA TimerFiresInv ==
  ASSUME Inv, NEW t \in Threads, TimerFires(t)
  PROVE  Inv'
<1> DEFINE c == child[t]
           d == [c EXCEPT !.armed = {}, !.fired = @ \cup c.armed]
<1>1. /\ c \in ChildStates
      /\ child' = [child EXCEPT ![t] = d] /\ UNCHANGED <<poolVars, threadVars, crashes>>
  BY DEF Inv, Types, TimerFires
<1>2. d \in ChildStates
  BY <1>1 DEF ChildStates
<1>3. /\ d.in = c.in /\ d.out = c.out /\ d.req = c.req /\ d.pc = c.pc
      /\ d.status = c.status /\ d.alive = c.alive
  BY <1>1 DEF ChildStates
<1>4. PipeOK(t)
  BY DEF Inv, PipeInv
<1>5. crashes' \in 0..MaxCrash
  BY <1>1 DEF Inv, Types, TypeOK
<1> HIDE DEF d
<1>6. IF tpc[t] \in {"idle", "send"} THEN Between(d) ELSE Waiting(d, Want(t))
  BY <1>3, <1>4 DEF PipeOK, Between, Waiting, Unread, Running, Answered, TimedOut,
       AtRest, NoneRunning
<1> QED
  BY <1>1, <1>2, <1>3, <1>5, <1>6, ChildStep

\* A request that is RUNNING is the one its thread waits for, and neither pipe
\* holds anything.
LEMMA RunningIsWanted ==
  ASSUME Inv, NEW t \in Threads, child[t].alive,
         NEW r \in Requests, child[t].status[r] = "RUNNING"
  PROVE  /\ tpc[t] \notin {"idle", "send"}
         /\ r = Want(t) /\ Running(child[t], Want(t))
<1>1. PipeOK(t)
  BY DEF Inv, PipeInv
<1>2. ~NoneRunning(child[t])
  BY DEF NoneRunning
<1>3. tpc[t] \notin {"idle", "send"} /\ Running(child[t], Want(t))
  BY <1>1, <1>2 DEF PipeOK, Between, Waiting, Unread, Answered, TimedOut, AtRest
<1> QED
  BY <1>3 DEF Running

LEMMA ChildRespondInv ==
  ASSUME Inv, NEW t \in Threads, ChildRespond(t)
  PROVE  Inv'
<1> DEFINE c == child[t]
<1>1. /\ c \in ChildStates /\ c.alive /\ c.pc = "respond" /\ c.req \in Requests
      /\ c.ret \in {"COMPLETE", "EXCEPTION"}
      /\ UNCHANGED <<poolVars, threadVars, crashes>> /\ crashes' \in 0..MaxCrash
  BY DEF Inv, Types, TypeOK, ChildRespond, ChildStates
<1>2. CASE MayAnswer(c, c.req)
  <2> DEFINE a == Answer(c.ret, c.req)
             d == [c EXCEPT !.pc = "read", !.status[c.req] = "COMPLETE", !.out = Append(@, a)]
  <2>1. child' = [child EXCEPT ![t] = d]
    BY <1>2 DEF ChildRespond
  <2>2. tpc[t] \notin {"idle", "send"} /\ c.req = Want(t) /\ Running(c, Want(t))
    BY <1>1, <1>2, RunningIsWanted DEF MayAnswer
  <2>3. Append(c.out, a) = <<a>> /\ c.in = <<>>
    BY <2>2, Singletons DEF Running
  <2>4. a \in Answers
    BY <1>1 DEF Answer, Answers, Kinds
  <2>5. d \in ChildStates
    <3> HIDE DEF a
    <3>1. Append(c.out, a) \in Seq(Answers)
      BY <2>3, <2>4
    <3> QED
      BY <1>1, <3>1 DEF ChildStates
  <2>6. /\ d.in = <<>> /\ d.out = <<a>> /\ d.pc = "read" /\ d.alive
        /\ d.status = [c.status EXCEPT ![c.req] = "COMPLETE"]
    BY <1>1, <2>3 DEF ChildStates
  <2>7. NoneRunning(d)
    BY <1>1, <2>2, <2>6 DEF Running, NoneRunning, ChildStates
  <2> HIDE DEF d
  <2>8. Answered(d, Want(t))
    BY <1>1, <2>2, <2>6, <2>7 DEF Answered, AtRest
  <2> QED
    BY <1>1, <2>1, <2>2, <2>5, <2>8, ChildStep DEF Waiting
<1>3. CASE ~MayAnswer(c, c.req)
  <2> DEFINE d == [c EXCEPT !.pc = "read"]
  <2>1. child' = [child EXCEPT ![t] = d]
    BY <1>3 DEF ChildRespond
  <2>2. d \in ChildStates
    BY <1>1 DEF ChildStates
  <2>3. /\ d.in = c.in /\ d.out = c.out /\ d.req = c.req /\ d.pc = "read"
        /\ d.status = c.status /\ d.alive = c.alive
    BY <1>1 DEF ChildStates
  <2> HIDE DEF d
  <2>4. PipeOK(t)
    BY DEF Inv, PipeInv
  <2>5. tpc[t] \notin {"idle", "send"} /\ TimedOut(c, Want(t))
    BY <1>1, <1>3, <2>4
    DEF PipeOK, MayAnswer, Between, Waiting, Unread, Answered, Running, AtRest
  <2>6. TimedOut(d, Want(t))
    BY <2>3, <2>5 DEF TimedOut, NoneRunning
  <2> QED
    BY <1>1, <2>1, <2>2, <2>3, <2>5, <2>6, ChildStep DEF Waiting
<1> QED
  BY <1>2, <1>3

LEMMA CancelRunInv ==
  ASSUME Inv, NEW t \in Threads, NEW r \in Jobs, CancelRun(t, r)
  PROVE  Inv'
<1> DEFINE c == child[t]
<1>1. /\ c \in ChildStates /\ c.alive /\ r \in Requests
      /\ UNCHANGED <<poolVars, threadVars, crashes>> /\ crashes' \in 0..MaxCrash
  BY DEF Inv, Types, TypeOK, CancelRun, Requests
<1>2. CASE c.status[r] = "RUNNING"
  <2> DEFINE a == Answer("TIMEOUT", r)
             d == [c EXCEPT !.fired = @ \ {r}, !.status[r] = "TIMEOUT", !.out = Append(@, a)]
  <2>1. child' = [child EXCEPT ![t] = d]
    BY <1>2 DEF CancelRun, CancelTarget
  <2>2. tpc[t] \notin {"idle", "send"} /\ r = Want(t) /\ Running(c, Want(t))
    BY <1>1, <1>2, RunningIsWanted
  <2>3. Append(c.out, a) = <<a>> /\ c.in = <<>>
    BY <2>2, Singletons DEF Running
  <2>4. a \in Answers
    BY <1>1 DEF Answer, Answers, Kinds
  <2>5. d \in ChildStates
    <3> HIDE DEF a
    <3>1. Append(c.out, a) \in Seq(Answers)
      BY <2>3, <2>4
    <3> QED
      BY <1>1, <3>1 DEF ChildStates
  <2>6. /\ d.in = <<>> /\ d.out = <<a>> /\ d.alive /\ d.req = c.req
        /\ d.status = [c.status EXCEPT ![r] = "TIMEOUT"]
    BY <1>1, <2>3 DEF ChildStates
  <2>7. NoneRunning(d)
    BY <1>1, <2>2, <2>6 DEF Running, NoneRunning, ChildStates
  <2> HIDE DEF d
  <2>8. TimedOut(d, Want(t))
    BY <1>1, <2>2, <2>6, <2>7 DEF TimedOut, Running
  <2> QED
    BY <1>1, <2>1, <2>2, <2>5, <2>8, ChildStep DEF Waiting
<1>3. CASE c.status[r] # "RUNNING"
  <2> DEFINE d == [c EXCEPT !.fired = @ \ {r}]
  <2>1. child' = [child EXCEPT ![t] = d]
    BY <1>3 DEF CancelRun, CancelTarget
  <2>2. d \in ChildStates
    BY <1>1 DEF ChildStates
  <2>3. /\ d.in = c.in /\ d.out = c.out /\ d.req = c.req /\ d.pc = c.pc
        /\ d.status = c.status /\ d.alive = c.alive
    BY <1>1 DEF ChildStates
  <2> HIDE DEF d
  <2>4. PipeOK(t)
    BY DEF Inv, PipeInv
  <2>5. IF tpc[t] \in {"idle", "send"} THEN Between(d) ELSE Waiting(d, Want(t))
    BY <2>3, <2>4 DEF PipeOK, Between, Waiting, Unread, Running, Answered, TimedOut,
         AtRest, NoneRunning
  <2> QED
    BY <1>1, <2>1, <2>2, <2>3, <2>5, ChildStep
<1> QED
  BY <1>2, <1>3

LEMMA ChildDiesInv ==
  ASSUME Inv, NEW t \in Threads, ChildDies(t)
  PROVE  Inv'
<1> DEFINE c == child[t]
           d == [c EXCEPT !.alive = FALSE]
<1>1. /\ c \in ChildStates
      /\ child' = [child EXCEPT ![t] = d] /\ UNCHANGED <<poolVars, threadVars>>
  BY DEF Inv, Types, ChildDies
<1>2. crashes' \in 0..MaxCrash
  BY PopenAssumption DEF Inv, Types, TypeOK, ChildDies
<1>3. d \in ChildStates
  BY <1>1 DEF ChildStates
<1>4. d.in = c.in /\ d.out = c.out /\ ~d.alive
  BY <1>1 DEF ChildStates
<1>5. PipeOK(t)
  BY DEF Inv, PipeInv
<1> HIDE DEF d
<1>6. IF tpc[t] \in {"idle", "send"} THEN Between(d) ELSE Waiting(d, Want(t))
  BY <1>4, <1>5 DEF PipeOK, Between, Waiting, Unread, Running, Answered, TimedOut, AtRest
<1> QED
  BY <1>1, <1>2, <1>3, <1>4, <1>6, ChildStep

LEMMA ChildDiesWritingInv ==
  ASSUME Inv, NEW t \in Threads, NEW r \in Requests, ChildDiesWriting(t, r)
  PROVE  Inv'
<1> DEFINE c == child[t]
           a == Answer("TORN", r)
           d == [c EXCEPT !.alive = FALSE, !.out = Append(@, a)]
<1>1. /\ c \in ChildStates /\ c.alive /\ MayAnswer(c, r)
      /\ child' = [child EXCEPT ![t] = d] /\ UNCHANGED <<poolVars, threadVars>>
  BY DEF Inv, Types, TypeOK, ChildDiesWriting
<1>2. crashes' \in 0..MaxCrash
  BY PopenAssumption DEF Inv, Types, TypeOK, ChildDiesWriting
<1>3. tpc[t] \notin {"idle", "send"} /\ r = Want(t) /\ Running(c, Want(t))
  BY <1>1, RunningIsWanted DEF MayAnswer
<1>4. Append(c.out, a) = <<a>> /\ c.in = <<>>
  BY <1>3, Singletons DEF Running
<1>5. a \in Answers
  BY <1>1 DEF Answer, Answers, Kinds
<1>6. d \in ChildStates
  <2> HIDE DEF a
  <2>1. Append(c.out, a) \in Seq(Answers)
    BY <1>4, <1>5
  <2> QED
    BY <1>1, <2>1 DEF ChildStates
<1>7. d.in = <<>> /\ d.out = <<a>> /\ ~d.alive
  BY <1>1, <1>4 DEF ChildStates
<1> HIDE DEF d
<1>8. Answered(d, Want(t))
  BY <1>3, <1>7 DEF Answered, AtRest
<1> QED
  BY <1>1, <1>2, <1>3, <1>6, <1>7, <1>8, ChildStep DEF Waiting

----------------------------------------------------------------------------
(***************************************************************************)
(* The executor and its threads preserve the invariant.                    *)
(***************************************************************************)
\* The end of a job: its thread lets go of it with an answer that is the
\* job's own, and leaves a process between requests.
LEMMA JobEndsInv ==
  ASSUME Inv, NEW t \in Threads, NEW a \in Answers, NEW d \in ChildStates,
         tpc[t] # "idle", Resolve(t, a),
         child' = [child EXCEPT ![t] = d], Between(d),
         worker' \in [Threads -> [proc : BOOLEAN, remaining : -1..MaximumUses]],
         uses' \in [Threads -> Nat], ready' \in [Threads -> BOOLEAN], CountInv',
         \/ a.from = job[t]
         \/ a.from = Init0 /\ a.kind \in {"EXCEPTION", "TORN"},
         UNCHANGED <<poolVars, crashes>>
  PROVE  Inv'
<1> USE DEF Inv, Types, poolVars
<1>1. child' \in [Threads -> ChildStates] /\ child'[t] = d
  OBVIOUS
<1>2. \A u \in Threads \ {t} : child'[u] = child[u]
  OBVIOUS
<1>3. job[t] \in Jobs /\ job[t] # Init0 /\ future[job[t]] = Pending
  BY DEF ThreadOwns, TypeOK, Requests
<1>4. /\ tpc' = [tpc EXCEPT ![t] = "idle"] /\ job' = [job EXCEPT ![t] = Init0]
      /\ future' = [future EXCEPT ![job[t]] = a]
  BY DEF Resolve
<1>5. TypeOK'
  <2>1. \A u \in Threads :
          /\ child'[u].req \in Requests
          /\ child'[u].pc \in {"read", "run", "cancel", "respond"}
          /\ child'[u].in \in Seq(Requests) /\ child'[u].out \in Seq(Answers)
          /\ child'[u].armed \subseteq Jobs /\ child'[u].fired \subseteq Jobs
    BY <1>1 DEF ChildStates
  <2>2. future' \in [Jobs -> Answers] /\ job' \in [Threads -> Requests]
    BY <1>3, <1>4 DEF TypeOK, Requests
  <2>3. tpc' \in [Threads -> {"idle", "send", "init", "recv"}]
    BY <1>4 DEF TypeOK
  <2> QED
    BY <2>1, <2>2, <2>3 DEF TypeOK
<1>6. \A u \in Threads : IF u = t THEN tpc'[u] = "idle" /\ job'[u] = Init0
                                  ELSE tpc'[u] = tpc[u] /\ job'[u] = job[u]
  BY <1>4 DEF TypeOK
<1>7. \A j \in Jobs : future'[j] = IF j = job[t] THEN a ELSE future[j]
  BY <1>3, <1>4 DEF TypeOK
<1>8. PipeInv'
  BY <1>1, <1>2, <1>6 DEF PipeInv, PipeOK, Want
<1>9. QueueOwns'
  <2>1. \A i \in DOMAIN queue : queue[i] \in Jobs
    BY DEF TypeOK
  <2>2. \A i \in DOMAIN queue : queue[i] # job[t] /\ queue[i] # Init0
    BY <2>1, PopenAssumption DEF QueueOwns, Jobs, Init0
  <2> QED
    BY <1>6, <1>7, <2>1, <2>2 DEF QueueOwns
<1>10. ThreadOwns'
  <2>1. \A u \in Threads : job[u] \in Requests
    BY DEF TypeOK
  <2> QED
    BY <1>3, <1>6, <1>7, <2>1 DEF ThreadOwns, Requests
<1>11. CloseInv'
  BY DEF CloseInv
<1>12. FutureInv'
  <2>1. job[t] <= submitted /\ submitted \in Int /\ job[t] \in Int
    BY <1>3 DEF ThreadOwns, TypeOK, Jobs
  <2> QED
    BY <1>7, <2>1 DEF FutureInv, Jobs
<1>13. ResultIsOwn'
  BY <1>7 DEF ResultIsOwn
<1> QED
  BY <1>1, <1>5, <1>8, <1>9, <1>10, <1>11, <1>12, <1>13

\* The same when the worker keeps its count, or has lost its process.
LEMMA ResolveInv ==
  ASSUME Inv, NEW t \in Threads, NEW a \in Answers, NEW d \in ChildStates,
         tpc[t] # "idle", Resolve(t, a),
         child' = [child EXCEPT ![t] = d], Between(d),
         worker' \in [Threads -> [proc : BOOLEAN, remaining : -1..MaximumUses]],
         \A u \in Threads : worker'[u] = worker[u] \/ ~worker'[u].proc,
         \/ a.from = job[t]
         \/ a.from = Init0 /\ a.kind \in {"EXCEPTION", "TORN"},
         UNCHANGED <<poolVars, uses, ready, crashes>>
  PROVE  Inv'
<1>1. CountInv'
  BY DEF Inv, CountInv
<1>2. uses' \in [Threads -> Nat] /\ ready' \in [Threads -> BOOLEAN]
  BY DEF Inv, Types
<1> QED
  BY <1>1, <1>2, JobEndsInv

LEMMA RecvDiedInv ==
  ASSUME Inv, NEW t \in Threads, RecvDied(t)
  PROVE  Inv'
<1>1. NoChild \in ChildStates /\ Between(NoChild) /\ ~NoChild.alive
  BY NewChildren
<1>2. Answer("DIED", job[t]) \in Answers /\ Answer("DIED", job[t]).from = job[t]
  BY DEF Inv, Types, TypeOK, Answer, Answers, Kinds
<1>3. /\ worker' = [worker EXCEPT ![t] = [proc |-> FALSE, remaining |-> None]]
      /\ child' = [child EXCEPT ![t] = NoChild]
  BY DEF RecvDied, Kill
<1>4. /\ worker' \in [Threads -> [proc : BOOLEAN, remaining : -1..MaximumUses]]
      /\ \A u \in Threads : worker'[u] = worker[u] \/ ~worker'[u].proc
  BY <1>3, PopenAssumption DEF Inv, Types, TypeOK, None
<1>5. /\ tpc[t] \in {"init", "recv"} /\ Resolve(t, Answer("DIED", job[t]))
      /\ UNCHANGED <<poolVars, uses, ready, crashes>>
  BY DEF RecvDied
<1> QED
  BY <1>1, <1>2, <1>3, <1>4, <1>5, ResolveInv

\* What a thread that waits finds in the pipe.
LEMMA HeadIsAnswer ==
  ASSUME Inv, NEW t \in Threads, tpc[t] \in {"init", "recv"}, child[t].out # <<>>
  PROVE  /\ Head(child[t].out) \in Answers /\ Head(child[t].out).from = Want(t)
         /\ child[t].in = <<>> /\ Tail(child[t].out) = <<>>
         /\ \/ Head(child[t].out).kind = "TIMEOUT" /\ Want(t) \in Jobs
            \/ /\ Head(child[t].out).kind \in {"COMPLETE", "EXCEPTION", "TORN"}
               /\ AtRest(child[t])
<1>1. PipeOK(t)
  BY DEF Inv, PipeInv
<1>2. Want(t) \in Requests
  BY DEF Want, Requests, Inv, Types, TypeOK
<1>3. \A k : /\ Answer(k, Want(t)).kind = k /\ Answer(k, Want(t)).from = Want(t)
             /\ k \in Kinds => Answer(k, Want(t)) \in Answers
  BY <1>2 DEF Answer, Answers
<1>4. CASE TimedOut(child[t], Want(t))
  <2>1. child[t].out = <<Answer("TIMEOUT", Want(t))>> /\ Want(t) \in Jobs
    BY <1>4 DEF TimedOut
  <2>2. Head(child[t].out) = Answer("TIMEOUT", Want(t)) /\ Tail(child[t].out) = <<>>
    BY <2>1, Singletons
  <2> QED
    BY <1>3, <1>4, <2>1, <2>2 DEF TimedOut, Kinds
<1>5. CASE Answered(child[t], Want(t))
  <2>1. PICK k \in {"COMPLETE", "EXCEPTION", "TORN"} : child[t].out = <<Answer(k, Want(t))>>
    BY <1>5 DEF Answered
  <2>2. Head(child[t].out) = Answer(k, Want(t)) /\ Tail(child[t].out) = <<>>
    BY <2>1, Singletons
  <2> QED
    BY <1>3, <1>5, <2>2 DEF Answered, Kinds
<1> QED
  BY <1>1, <1>4, <1>5 DEF PipeOK, Waiting, Unread, Running

LEMMA RecvTimeoutInv ==
  ASSUME Inv, NEW t \in Threads, RecvTimeout(t)
  PROVE  Inv'
<1> DEFINE a == Head(child[t].out)
<1>1. NoChild \in ChildStates /\ Between(NoChild) /\ ~NoChild.alive
  BY NewChildren
<1>2. a \in Answers /\ a.from = job[t]
  BY HeadIsAnswer DEF RecvTimeout, Want
<1>3. /\ worker' = [worker EXCEPT ![t] = [proc |-> FALSE, remaining |-> None]]
      /\ child' = [child EXCEPT ![t] = NoChild]
  BY DEF RecvTimeout, KillOnTimeout, Kill
<1>4. /\ worker' \in [Threads -> [proc : BOOLEAN, remaining : -1..MaximumUses]]
      /\ \A u \in Threads : worker'[u] = worker[u] \/ ~worker'[u].proc
  BY <1>3, PopenAssumption DEF Inv, Types, TypeOK, None
<1>5. /\ tpc[t] \in {"init", "recv"} /\ Resolve(t, a)
      /\ UNCHANGED <<poolVars, uses, ready, crashes>>
  BY DEF RecvTimeout
<1> HIDE DEF a
<1> QED
  BY <1>1, <1>2, <1>3, <1>4, <1>5, ResolveInv

LEMMA RecvInv ==
  ASSUME Inv, NEW t \in Threads, Recv(t)
  PROVE  Inv'
<1> DEFINE c == child[t]
           a == Head(c.out)
           d == [c EXCEPT !.out = Tail(@)]
<1>1. /\ c \in ChildStates /\ c.out # <<>> /\ tpc[t] \in {"init", "recv"}
      /\ \/ tpc[t] = "recv" /\ a.kind # "TIMEOUT"
         \/ tpc[t] = "init" /\ a.kind # "COMPLETE"
      /\ Resolve(t, a) /\ child' = [child EXCEPT ![t] = d]
      /\ UNCHANGED <<poolVars, worker, uses, ready, crashes>>
  BY DEF Inv, Types, Recv
<1>2. /\ a \in Answers /\ a.from = Want(t) /\ c.in = <<>> /\ Tail(c.out) = <<>>
      /\ \/ a.kind = "TIMEOUT" /\ Want(t) \in Jobs
         \/ a.kind \in {"COMPLETE", "EXCEPTION", "TORN"} /\ AtRest(c)
  BY <1>1, HeadIsAnswer
<1> HIDE DEF a
<1>3. tpc[t] = "init" => Want(t) = Init0 /\ Init0 \notin Jobs
  BY PopenAssumption DEF Want, Init0, Jobs
<1>4. AtRest(c)
  BY <1>1, <1>2, <1>3
<1>5. d \in ChildStates
  <2>1. Tail(c.out) \in Seq(Answers)
    <3>1. <<>> \in Seq(Answers)
      OBVIOUS
    <3> QED
      BY <1>2, <3>1, Zenon
  <2> QED
    BY <1>1, <2>1 DEF ChildStates
<1>6. /\ d.in = <<>> /\ d.out = <<>> /\ d.alive = c.alive /\ d.pc = c.pc
      /\ d.status = c.status
  BY <1>1, <1>2 DEF ChildStates
<1> HIDE DEF d
<1>7. Between(d)
  BY <1>4, <1>6 DEF Between, AtRest, NoneRunning
<1>8. a.from = job[t] \/ (a.from = Init0 /\ a.kind \in {"EXCEPTION", "TORN"})
  BY <1>1, <1>2, <1>3 DEF Want
<1>9. worker' \in [Threads -> [proc : BOOLEAN, remaining : -1..MaximumUses]]
  BY <1>1 DEF Inv, Types, TypeOK
<1> QED
  BY <1>1, <1>2, <1>5, <1>6, <1>7, <1>8, <1>9, ResolveInv

\* A thread sends a request and waits for it, in a process that has it or is
\* dead; the uses stay counted.
LEMMA RequestInv ==
  ASSUME Inv, NEW t \in Threads, NEW q \in {"init", "recv"}, NEW d \in ChildStates,
         NEW w \in [proc : BOOLEAN, remaining : -1..MaximumUses],
         NEW n \in Nat, NEW b \in BOOLEAN,
         tpc[t] \in {"send", "init"}, tpc' = [tpc EXCEPT ![t] = q],
         child' = [child EXCEPT ![t] = d], Waiting(d, IF q = "init" THEN Init0 ELSE job[t]),
         worker' = [worker EXCEPT ![t] = w],
         uses' = [uses EXCEPT ![t] = n], ready' = [ready EXCEPT ![t] = b],
         MaximumUses # 0 /\ b => n <= MaximumUses /\ (w.proc => w.remaining = MaximumUses - n),
         UNCHANGED <<poolVars, job, future, crashes>>
  PROVE  Inv'
<1> USE DEF Inv, Types, poolVars
<1>1. child' \in [Threads -> ChildStates] /\ child'[t] = d
  OBVIOUS
<1>2. \A u \in Threads \ {t} : child'[u] = child[u]
  OBVIOUS
<1>3. TypeOK'
  <2>1. \A u \in Threads :
          /\ child'[u].req \in Requests
          /\ child'[u].pc \in {"read", "run", "cancel", "respond"}
          /\ child'[u].in \in Seq(Requests) /\ child'[u].out \in Seq(Answers)
          /\ child'[u].armed \subseteq Jobs /\ child'[u].fired \subseteq Jobs
    BY <1>1 DEF ChildStates
  <2>2. /\ tpc' \in [Threads -> {"idle", "send", "init", "recv"}]
        /\ worker' \in [Threads -> [proc : BOOLEAN, remaining : -1..MaximumUses]]
    BY DEF TypeOK
  <2> QED
    BY <2>1, <2>2 DEF TypeOK
<1>4. \A u \in Threads : tpc'[u] = IF u = t THEN q ELSE tpc[u]
  BY DEF TypeOK
<1>5. PipeInv'
  BY <1>1, <1>2, <1>4 DEF PipeInv, PipeOK, Want
<1>6. ThreadOwns'
  BY <1>4 DEF ThreadOwns
<1>7. CountInv'
  <2>1. \A u \in Threads :
          IF u = t THEN worker'[u] = w /\ uses'[u] = n /\ ready'[u] = b
                   ELSE worker'[u] = worker[u] /\ uses'[u] = uses[u] /\ ready'[u] = ready[u]
    BY DEF TypeOK
  <2> QED
    BY <2>1 DEF CountInv
<1>8. CloseInv'
  BY DEF CloseInv
<1>9. uses' \in [Threads -> Nat] /\ ready' \in [Threads -> BOOLEAN]
  OBVIOUS
<1> QED
  BY <1>1, <1>3, <1>5, <1>6, <1>7, <1>8, <1>9 DEF QueueOwns, FutureInv, ResultIsOwn

\* The counter of send, on its type.
LEMMA DecrementedType ==
  ASSUME NEW n \in -1..MaximumUses
  PROVE  /\ Decremented(n) \in -1..MaximumUses
         /\ n > 0 => Decremented(n) = n - 1
BY PopenAssumption DEF Decremented

LEMMA SendStartInv ==
  ASSUME Inv, NEW t \in Threads, SendStart(t)
  PROVE  Inv'
<1> DEFINE w == [proc |-> TRUE,
                 remaining |-> IF Initializer THEN None ELSE Decremented(MaximumUses)]
           r == IF Initializer THEN Init0 ELSE job[t]
           n == IF Initializer THEN 0 ELSE 1
           b == ~Initializer
           q == IF Initializer THEN "init" ELSE "recv"
<1>1. /\ tpc[t] = "send" /\ tpc' = [tpc EXCEPT ![t] = q]
      /\ child' = [child EXCEPT ![t] = Started(r)] /\ worker' = [worker EXCEPT ![t] = w]
      /\ uses' = [uses EXCEPT ![t] = n] /\ ready' = [ready EXCEPT ![t] = b]
      /\ UNCHANGED <<poolVars, job, future, crashes>>
  BY DEF SendStart
<1>2. r \in Requests
  BY DEF Inv, Types, TypeOK, Requests
<1>3. Started(r) \in ChildStates /\ Waiting(Started(r), r)
  <2> HIDE DEF r
  <2> QED
    BY <1>2, NewChildren DEF Waiting
<1>4. r = IF q = "init" THEN Init0 ELSE job[t]
  BY PopenAssumption
<1>5. /\ Decremented(MaximumUses) \in -1..MaximumUses
      /\ MaximumUses # 0 => Decremented(MaximumUses) = MaximumUses - 1
  BY PopenAssumption, DecrementedType
<1>6. w \in [proc : BOOLEAN, remaining : -1..MaximumUses]
  BY <1>5, PopenAssumption DEF None
<1>7. MaximumUses # 0 /\ b => n <= MaximumUses /\ (w.proc => w.remaining = MaximumUses - n)
  BY <1>5, PopenAssumption
<1>8. n \in Nat /\ b \in BOOLEAN /\ q \in {"init", "recv"}
  BY PopenAssumption
<1> HIDE DEF w, r, n, b, q
<1> QED
  BY <1>1, <1>3, <1>4, <1>6, <1>7, <1>8, RequestInv

\* A request written to a process that is between requests, or dead.
LEMMA WrittenWaits ==
  ASSUME NEW c \in ChildStates, Between(c), NEW r \in Requests
  PROVE  Written(c, r) \in ChildStates /\ Waiting(Written(c, r), r)
<1>1. CASE ~c.alive
  BY <1>1 DEF Written, Between, Waiting, Running
<1>2. CASE c.alive
  <2> DEFINE d == [c EXCEPT !.in = Append(@, r)]
  <2>1. Append(c.in, r) = <<r>> /\ c.out = <<>>
    BY Singletons DEF Between
  <2>2. d \in ChildStates
    <3>1. Append(c.in, r) \in Seq(Requests)
      BY <2>1
    <3> QED
      BY <3>1 DEF ChildStates
  <2>3. /\ d.in = <<r>> /\ d.out = <<>> /\ d.alive = c.alive /\ d.pc = c.pc
        /\ d.status = c.status
    BY <2>1 DEF ChildStates
  <2>4. Written(c, r) = d
    BY <1>2 DEF Written
  <2> HIDE DEF d
  <2>5. Unread(d, r)
    BY <2>3 DEF Unread, Between, AtRest, NoneRunning
  <2> QED
    BY <2>2, <2>4, <2>5 DEF Waiting
<1> QED
  BY <1>1, <1>2

LEMMA SendInv ==
  ASSUME Inv, NEW t \in Threads, Send(t)
  PROVE  Inv'
<1> DEFINE d == Written(child[t], job[t])
           w == [worker[t] EXCEPT !.remaining = Decremented(@)]
           n == uses[t] + 1
           b == ready[t]
<1>1. /\ tpc[t] = "send" /\ tpc' = [tpc EXCEPT ![t] = "recv"]
      /\ child' = [child EXCEPT ![t] = d] /\ worker' = [worker EXCEPT ![t] = w]
      /\ uses' = [uses EXCEPT ![t] = n] /\ ready' = [ready EXCEPT ![t] = b]
      /\ UNCHANGED <<poolVars, job, future, crashes>>
      /\ worker[t].proc /\ ~MustRecycle(t)
  BY DEF Inv, Types, TypeOK, Send
<1>2. d \in ChildStates /\ Waiting(d, job[t])
  <2>1. PipeOK(t)
    BY DEF Inv, PipeInv
  <2>2. child[t] \in ChildStates /\ Between(child[t]) /\ job[t] \in Requests
    BY <1>1, <2>1 DEF PipeOK, Inv, Types, TypeOK
  <2> QED
    BY <2>2, WrittenWaits
<1>3. worker[t] \in [proc : BOOLEAN, remaining : -1..MaximumUses] /\ uses[t] \in Nat
      /\ ready[t] \in BOOLEAN
  BY DEF Inv, Types, TypeOK
<1>4. /\ Decremented(worker[t].remaining) \in -1..MaximumUses
      /\ worker[t].remaining > 0 =>
           Decremented(worker[t].remaining) = worker[t].remaining - 1
  BY <1>3, DecrementedType
<1>5. /\ w \in [proc : BOOLEAN, remaining : -1..MaximumUses]
      /\ w.remaining = Decremented(worker[t].remaining)
  BY <1>3, <1>4
<1>6. MaximumUses # 0 /\ b => n <= MaximumUses /\ w.remaining = MaximumUses - n
  <2> SUFFICES ASSUME MaximumUses # 0, b PROVE n <= MaximumUses /\ w.remaining = MaximumUses - n
    OBVIOUS
  <2>1. uses[t] <= MaximumUses /\ worker[t].remaining = MaximumUses - uses[t]
    BY <1>1 DEF Inv, CountInv
  <2>2. worker[t].remaining # 0
    BY <1>1 DEF MustRecycle
  <2> QED
    BY <1>3, <1>4, <1>5, <2>1, <2>2, PopenAssumption
<1>7. n \in Nat
  BY <1>3
<1> HIDE DEF d, w, n
<1> QED
  BY <1>1, <1>2, <1>3, <1>5, <1>6, <1>7, RequestInv

LEMMA RecvInitInv ==
  ASSUME Inv, NEW t \in Threads, RecvInit(t)
  PROVE  Inv'
<1> DEFINE c == child[t]
           e == [c EXCEPT !.out = Tail(@)]
           d == Written(e, job[t])
           w == [worker[t] EXCEPT !.remaining = Decremented(MaximumUses)]
<1>1. /\ tpc[t] = "init" /\ tpc' = [tpc EXCEPT ![t] = "recv"]
      /\ child' = [child EXCEPT ![t] = d] /\ worker' = [worker EXCEPT ![t] = w]
      /\ uses' = [uses EXCEPT ![t] = 1] /\ ready' = [ready EXCEPT ![t] = TRUE]
      /\ UNCHANGED <<poolVars, job, future, crashes>>
      /\ c.out # <<>> /\ Head(c.out).kind = "COMPLETE"
  BY DEF Inv, Types, TypeOK, RecvInit
<1>2. c.in = <<>> /\ Tail(c.out) = <<>> /\ AtRest(c)
  BY <1>1, HeadIsAnswer
<1>3. c \in ChildStates /\ job[t] \in Requests
  BY DEF Inv, Types, TypeOK
<1>4. e \in ChildStates
  <2>1. Tail(c.out) \in Seq(Answers)
    <3>1. <<>> \in Seq(Answers)
      OBVIOUS
    <3> QED
      BY <1>2, <3>1, Zenon
  <2> QED
    BY <1>3, <2>1 DEF ChildStates
<1>5. /\ e.in = <<>> /\ e.out = <<>> /\ e.alive = c.alive /\ e.pc = c.pc
      /\ e.status = c.status
  BY <1>2, <1>3 DEF ChildStates
<1> HIDE DEF e
<1>6. Between(e)
  BY <1>2, <1>5 DEF Between, AtRest, NoneRunning
<1>7. d \in ChildStates /\ Waiting(d, job[t])
  BY <1>3, <1>4, <1>6, WrittenWaits
<1>8. /\ Decremented(MaximumUses) \in -1..MaximumUses
      /\ MaximumUses # 0 => Decremented(MaximumUses) = MaximumUses - 1
  BY PopenAssumption, DecrementedType
<1>9. /\ w \in [proc : BOOLEAN, remaining : -1..MaximumUses]
      /\ w.remaining = Decremented(MaximumUses)
  BY <1>8 DEF Inv, Types, TypeOK
<1>10. MaximumUses # 0 => 1 <= MaximumUses /\ w.remaining = MaximumUses - 1
  BY <1>8, <1>9, PopenAssumption
<1> HIDE DEF d, w
<1> QED
  BY <1>1, <1>7, <1>9, <1>10, RequestInv

\* A job that does not pickle ends where send raises.  The count of a process
\* that was started for it begins at maximum_uses.
LEMMA UnpicklableInv ==
  ASSUME Inv, NEW t \in Threads, NEW d \in ChildStates,
         NEW w \in [proc : BOOLEAN, remaining : -1..MaximumUses], NEW b \in BOOLEAN,
         tpc[t] # "idle", Unpicklable(t),
         child' = [child EXCEPT ![t] = d], Between(d),
         worker' = [worker EXCEPT ![t] = w],
         uses' = [uses EXCEPT ![t] = 0], ready' = [ready EXCEPT ![t] = b],
         b => w.remaining = MaximumUses,
         UNCHANGED <<poolVars, crashes>>
  PROVE  Inv'
<1> DEFINE a == Answer("EXCEPTION", job[t])
<1>1. a \in Answers /\ a.from = job[t] /\ Resolve(t, a)
  BY DEF Inv, Types, TypeOK, Answer, Answers, Kinds, Unpicklable
<1>2. /\ worker' \in [Threads -> [proc : BOOLEAN, remaining : -1..MaximumUses]]
      /\ uses' \in [Threads -> Nat] /\ ready' \in [Threads -> BOOLEAN]
  BY DEF Inv, Types, TypeOK
<1>3. \A u \in Threads :
        IF u = t THEN worker'[u] = w /\ uses'[u] = 0 /\ ready'[u] = b
                 ELSE worker'[u] = worker[u] /\ uses'[u] = uses[u] /\ ready'[u] = ready[u]
  BY DEF Inv, Types, TypeOK
<1>4. CountInv'
  BY <1>3, PopenAssumption DEF Inv, CountInv
<1> HIDE DEF a
<1> QED
  BY <1>1, <1>2, <1>4, JobEndsInv

LEMMA StartRaisesInv ==
  ASSUME Inv, NEW t \in Threads, StartRaises(t)
  PROVE  Inv'
<1> DEFINE w == [proc |-> TRUE, remaining |-> IF Initializer THEN None ELSE MaximumUses]
           b == ~Initializer
<1>1. /\ tpc[t] # "idle" /\ Unpicklable(t)
      /\ child' = [child EXCEPT ![t] = NoRequest] /\ worker' = [worker EXCEPT ![t] = w]
      /\ uses' = [uses EXCEPT ![t] = 0] /\ ready' = [ready EXCEPT ![t] = b]
      /\ UNCHANGED <<poolVars, crashes>>
  BY DEF StartRaises
<1>2. w \in [proc : BOOLEAN, remaining : -1..MaximumUses] /\ b \in BOOLEAN
  BY PopenAssumption DEF None
<1>3. b => w.remaining = MaximumUses
  OBVIOUS
<1>4. NoRequest \in ChildStates /\ Between(NoRequest)
  BY NewChildren
<1> HIDE DEF w, b
<1> QED
  BY <1>1, <1>2, <1>3, <1>4, UnpicklableInv

LEMMA SendRaisesInv ==
  ASSUME Inv, NEW t \in Threads, SendRaises(t)
  PROVE  Inv'
<1> DEFINE a == Answer("EXCEPTION", job[t])
<1>1. /\ tpc[t] = "send" /\ Resolve(t, a)
      /\ UNCHANGED <<poolVars, worker, child, uses, ready, crashes>>
  BY DEF SendRaises, Unpicklable
<1>2. a \in Answers /\ a.from = job[t]
  BY DEF Inv, Types, TypeOK, Answer, Answers, Kinds
<1>3. child[t] \in ChildStates /\ Between(child[t])
  <2>1. PipeOK(t)
    BY DEF Inv, PipeInv
  <2> QED
    BY <1>1, <2>1 DEF PipeOK, Inv, Types
<1>4. child' = [child EXCEPT ![t] = child[t]]
  BY <1>1 DEF Inv, Types
<1>5. worker' \in [Threads -> [proc : BOOLEAN, remaining : -1..MaximumUses]]
  BY <1>1 DEF Inv, Types, TypeOK
<1> HIDE DEF a
<1> QED
  BY <1>1, <1>2, <1>3, <1>4, <1>5, ResolveInv

LEMMA RecvInitRaisesInv ==
  ASSUME Inv, NEW t \in Threads, RecvInitRaises(t)
  PROVE  Inv'
<1> DEFINE c == child[t]
           e == [c EXCEPT !.out = Tail(@)]
           w == [worker[t] EXCEPT !.remaining = MaximumUses]
<1>1. /\ tpc[t] = "init" /\ Unpicklable(t)
      /\ child' = [child EXCEPT ![t] = e] /\ worker' = [worker EXCEPT ![t] = w]
      /\ uses' = [uses EXCEPT ![t] = 0] /\ ready' = [ready EXCEPT ![t] = TRUE]
      /\ UNCHANGED <<poolVars, crashes>>
      /\ c.out # <<>> /\ Head(c.out).kind = "COMPLETE"
  BY DEF Inv, Types, TypeOK, RecvInitRaises
<1>2. c.in = <<>> /\ Tail(c.out) = <<>> /\ AtRest(c) /\ c \in ChildStates
  BY <1>1, HeadIsAnswer DEF Inv, Types
<1>3. e \in ChildStates
  <2>1. Tail(c.out) \in Seq(Answers)
    <3>1. <<>> \in Seq(Answers)
      OBVIOUS
    <3> QED
      BY <1>2, <3>1, Zenon
  <2> QED
    BY <1>2, <2>1 DEF ChildStates
<1>4. /\ e.in = <<>> /\ e.out = <<>> /\ e.alive = c.alive /\ e.pc = c.pc
      /\ e.status = c.status
  BY <1>2 DEF ChildStates
<1> HIDE DEF e
<1>5. Between(e)
  BY <1>2, <1>4 DEF Between, AtRest, NoneRunning
<1>6. w \in [proc : BOOLEAN, remaining : -1..MaximumUses] /\ w.remaining = MaximumUses
  <2>1. worker[t] \in [proc : BOOLEAN, remaining : -1..MaximumUses]
    BY DEF Inv, Types, TypeOK
  <2>2. MaximumUses \in -1..MaximumUses
    BY PopenAssumption
  <2> QED
    BY <2>1, <2>2
<1> HIDE DEF w
<1> QED
  BY <1>1, <1>3, <1>5, <1>6, UnpicklableInv

LEMMA SubmitInv ==
  ASSUME Inv, Submit
  PROVE  Inv'
<1> USE DEF Inv, Types, threadVars
<1>1. /\ ~closed /\ submitted < NumJobs /\ submitted' = submitted + 1
      /\ queue' = Append(queue, submitted + 1)
      /\ UNCHANGED <<closed, tpc, job, worker, future, uses, ready, child, crashes>>
  BY DEF Submit
<1>2. submitted \in 0..NumJobs /\ queue \in Seq(Jobs) /\ NumJobs \in Nat
  BY PopenAssumption DEF TypeOK
<1>3. submitted' \in 0..NumJobs /\ submitted + 1 \in Jobs /\ queue' \in Seq(Jobs)
  BY <1>1, <1>2 DEF Jobs
<1>4. TypeOK'
  BY <1>1, <1>3 DEF TypeOK
<1>5. QueueOwns'
  <2>1. /\ DOMAIN queue' = 1..(Len(queue) + 1) /\ DOMAIN queue = 1..Len(queue)
        /\ Len(queue) \in Nat /\ queue'[Len(queue) + 1] = submitted + 1
        /\ \A i \in 1..Len(queue) : queue'[i] = queue[i]
    BY <1>1, <1>2
  <2>2. \A i \in 1..Len(queue) : queue[i] \in Jobs /\ queue[i] <= submitted
    BY <1>2, <2>1 DEF QueueOwns
  <2>3. future[submitted + 1] = Pending
    BY <1>2, <1>3 DEF FutureInv
  <2>4. ASSUME NEW u \in Threads PROVE job[u] # submitted + 1
    <3>1. job[u] = 0 \/ job[u] \in Jobs
      BY DEF TypeOK, Requests, Init0
    <3>2. job[u] # 0 => job[u] <= submitted
      BY DEF ThreadOwns, Init0
    <3> QED
      BY <1>2, <3>1, <3>2 DEF Jobs
  <2>5. ASSUME NEW i \in DOMAIN queue'
        PROVE  /\ queue'[i] <= submitted' /\ future'[queue'[i]] = Pending
               /\ \A u \in Threads : job'[u] # queue'[i]
    <3>1. CASE i \in 1..Len(queue)
      BY <1>1, <1>2, <2>1, <2>2, <3>1 DEF QueueOwns, Jobs
    <3>2. CASE i = Len(queue) + 1
      BY <1>1, <1>2, <2>1, <2>3, <2>4, <3>2
    <3> QED
      BY <2>1, <3>1, <3>2
  <2>6. ASSUME NEW i \in DOMAIN queue', NEW k \in DOMAIN queue', queue'[k] = queue'[i]
        PROVE  k = i
    <3>1. CASE i \in 1..Len(queue) /\ k \in 1..Len(queue)
      BY <2>1, <2>6, <3>1 DEF QueueOwns
    <3>2. CASE i = Len(queue) + 1 /\ k \in 1..Len(queue)
      BY <1>2, <2>1, <2>2, <2>6, <3>2 DEF Jobs
    <3>3. CASE i \in 1..Len(queue) /\ k = Len(queue) + 1
      BY <1>2, <2>1, <2>2, <2>6, <3>3 DEF Jobs
    <3> QED
      BY <2>1, <3>1, <3>2, <3>3
  <2> QED
    BY <2>5, <2>6 DEF QueueOwns
<1>6. ThreadOwns'
  BY <1>1, <1>2 DEF ThreadOwns, TypeOK, Requests, Jobs, Init0
<1>7. FutureInv'
  BY <1>1, <1>2 DEF FutureInv, Jobs
<1>8. PipeInv' /\ CloseInv' /\ CountInv' /\ ResultIsOwn'
  BY <1>1 DEF PipeInv, PipeOK, Want, CloseInv, CountInv, ResultIsOwn
<1> QED
  BY <1>1, <1>4, <1>5, <1>6, <1>7, <1>8

LEMMA TakeInv ==
  ASSUME Inv, NEW t \in Threads, Take(t)
  PROVE  Inv'
<1> USE DEF Inv, Types
<1>1. /\ tpc[t] = "idle" /\ queue # <<>> /\ queue' = Tail(queue)
      /\ job' = [job EXCEPT ![t] = Head(queue)] /\ tpc' = [tpc EXCEPT ![t] = "send"]
      /\ UNCHANGED <<submitted, closed, worker, future, uses, ready, child, crashes>>
  BY DEF Take
<1>2. /\ queue \in Seq(Jobs) /\ Head(queue) = queue[1] /\ Len(queue) \in Nat
      /\ 1 \in DOMAIN queue /\ queue' \in Seq(Jobs) /\ DOMAIN queue = 1..Len(queue)
      /\ DOMAIN queue' = 1..(Len(queue) - 1)
      /\ \A i \in DOMAIN queue' : i + 1 \in DOMAIN queue /\ queue'[i] = queue[i + 1]
  BY <1>1 DEF TypeOK
<1>3. /\ queue[1] \in Jobs /\ queue[1] # Init0 /\ queue[1] <= submitted
      /\ future[queue[1]] = Pending /\ \A u \in Threads : job[u] # queue[1]
      /\ \A i \in DOMAIN queue : queue[i] = queue[1] => i = 1
  <2>1. queue[1] \in Jobs
    BY <1>2
  <2>2. queue[1] # Init0
    BY <2>1, PopenAssumption DEF Jobs, Init0
  <2> QED
    BY <1>2, <2>1, <2>2 DEF QueueOwns
<1>4. \A u \in Threads : IF u = t THEN job'[u] = queue[1] /\ tpc'[u] = "send"
                                  ELSE job'[u] = job[u] /\ tpc'[u] = tpc[u]
  BY <1>1, <1>2 DEF TypeOK
<1>5. TypeOK'
  <2>1. job' \in [Threads -> Requests] /\ tpc' \in [Threads -> {"idle", "send", "init", "recv"}]
    BY <1>1, <1>2, <1>3 DEF TypeOK, Requests
  <2> QED
    BY <1>1, <1>2, <2>1 DEF TypeOK
<1>6. QueueOwns'
  <2> SUFFICES ASSUME NEW i \in DOMAIN queue'
               PROVE  /\ queue'[i] <= submitted' /\ future'[queue'[i]] = Pending
                      /\ \A k \in DOMAIN queue' : queue'[k] = queue'[i] => k = i
                      /\ \A u \in Threads : job'[u] # queue'[i]
    BY DEF QueueOwns
  <2>1. i \in Nat /\ i + 1 \in DOMAIN queue /\ queue'[i] = queue[i + 1] /\ i + 1 # 1
    BY <1>2
  <2>2. queue'[i] <= submitted' /\ future'[queue'[i]] = Pending
    BY <1>1, <2>1 DEF QueueOwns
  <2>3. \A k \in DOMAIN queue' : queue'[k] = queue'[i] => k = i
    <3> SUFFICES ASSUME NEW k \in DOMAIN queue', queue'[k] = queue'[i] PROVE k = i
      OBVIOUS
    <3>1. k \in Nat /\ k + 1 \in DOMAIN queue /\ queue[k + 1] = queue[i + 1]
      BY <1>2, <2>1
    <3>2. k + 1 = i + 1
      BY <2>1, <3>1 DEF QueueOwns
    <3> QED
      BY <2>1, <3>1, <3>2
  <2>4. queue[1] # queue'[i]
    BY <1>3, <2>1
  <2>5. \A u \in Threads : job'[u] # queue'[i]
    BY <1>4, <2>1, <2>4 DEF QueueOwns
  <2> QED
    BY <2>2, <2>3, <2>5
<1>7. ThreadOwns'
  BY <1>1, <1>3, <1>4 DEF ThreadOwns
<1>8. PipeInv'
  BY <1>1, <1>4 DEF PipeInv, PipeOK, Want
<1>9. CloseInv'
  BY <1>1 DEF CloseInv
<1>10. FutureInv' /\ CountInv' /\ ResultIsOwn'
  BY <1>1 DEF FutureInv, CountInv, ResultIsOwn
<1> QED
  BY <1>1, <1>5, <1>6, <1>7, <1>8, <1>9, <1>10

LEMMA DelInv ==
  ASSUME Inv, Del
  PROVE  Inv'
<1> USE DEF Inv, Types
<1>1. /\ queue = <<>> /\ \A t \in Threads : tpc[t] = "idle"
      /\ worker' = [t \in Threads |-> [proc |-> FALSE, remaining |-> None]]
      /\ child' = [t \in Threads |-> NoChild] /\ closed' = TRUE
      /\ UNCHANGED <<submitted, queue, tpc, job, future, uses, ready, crashes>>
  BY DEF Del, KillWorkers
<1>2. NoChild \in ChildStates /\ Between(NoChild) /\ ~NoChild.alive
  BY NewChildren
<1>3. child' \in [Threads -> ChildStates] /\ \A t \in Threads : child'[t] = NoChild
  BY <1>1, <1>2
<1>4. worker' \in [Threads -> [proc : BOOLEAN, remaining : -1..MaximumUses]]
  BY <1>1, PopenAssumption DEF None
<1>5. TypeOK'
  <2>1. closed' \in BOOLEAN
    BY <1>1
  <2> QED
    BY <1>1, <1>3, <1>4, <2>1 DEF TypeOK, ChildStates
<1>6. PipeInv' /\ CloseInv'
  BY <1>1, <1>2, <1>3 DEF PipeInv, PipeOK, CloseInv
<1>7. CountInv'
  BY <1>1 DEF CountInv
<1> QED
  BY <1>1, <1>3, <1>5, <1>6, <1>7 DEF QueueOwns, ThreadOwns, FutureInv, ResultIsOwn

\* Every step preserves the invariant.
LEMMA NextInv == Inv /\ [Next]_vars => Inv'
<1> SUFFICES ASSUME Inv, [Next]_vars PROVE Inv'
  OBVIOUS
<1>1. CASE Submit
  BY <1>1, SubmitInv
<1>2. CASE Del
  BY <1>2, DelInv
<1>3. ASSUME NEW t \in Threads, ThreadStep(t) PROVE Inv'
  BY <1>3, TakeInv, SendStartInv, SendInv, StartRaisesInv, SendRaisesInv,
     RecvDiedInv, RecvTimeoutInv, RecvInv, RecvInitInv, RecvInitRaisesInv
  DEF ThreadStep
<1>4. ASSUME NEW t \in Threads, MainStep(t) \/ ChildRun(t) PROVE Inv'
  BY <1>4, ChildReadInv, ChildRunInv, ChildCancelInv, ChildRespondInv DEF MainStep
<1>5. ASSUME NEW t \in Threads, TimerStep(t) PROVE Inv'
  BY <1>5, TimerFiresInv, CancelRunInv DEF TimerStep
<1>6. ASSUME NEW t \in Threads,
             ChildDies(t) \/ \E r \in Requests : ChildDiesWriting(t, r)
      PROVE  Inv'
  BY <1>6, ChildDiesInv, ChildDiesWritingInv
<1>7. CASE UNCHANGED vars
  BY <1>7 DEF vars, poolVars, threadVars, Inv, Types, TypeOK, PipeInv, PipeOK, Want,
       QueueOwns, ThreadOwns, CountInv, CloseInv, FutureInv, ResultIsOwn
<1> QED
  BY <1>1, <1>2, <1>3, <1>4, <1>5, <1>6, <1>7 DEF Next

\* The invariant holds in every reachable state.
THEOREM Invariance == Spec => []Inv
BY InitInv, NextInv, PTL DEF Spec

\* The type of the state.
THEOREM TypeCorrect == Spec => []TypeOK
<1>1. Inv => TypeOK
  BY DEF Inv, Types
<1> QED
  BY <1>1, Invariance, PTL

\* The result of every job is the answer to that job, for any number of
\* threads and jobs: PopenWorker.recv returns the result of the last send,
\* although timers fire late and timed-out processes have answered.
THEOREM ResultsAreOwn == Spec => []ResultIsOwn
<1>1. Inv => ResultIsOwn
  BY DEF Inv
<1> QED
  BY <1>1, Invariance, PTL

\* Both pipes of a worker hold at most one message, and none between two jobs.
THEOREM PipesInStep == Spec => []PipesAgree
<1>1. Inv => PipesAgree
  <2> SUFFICES ASSUME Inv, NEW t \in Threads
               PROVE  /\ Len(child[t].in) + Len(child[t].out) <= 1
                      /\ tpc[t] \in {"idle", "send"} =>
                           child[t].out = <<>> /\ (child[t].alive => child[t].in = <<>>)
    BY DEF PipesAgree
  <2>1. PipeOK(t)
    BY DEF Inv, PipeInv
  <2>2. child[t].in = <<>> \/ (\E x : child[t].in = <<x>> /\ child[t].out = <<>>)
    BY <2>1 DEF PipeOK, Between, Waiting, Unread, Running, Answered, TimedOut
  <2>3. child[t].out = <<>> \/ \E x : child[t].out = <<x>>
    BY <2>1 DEF PipeOK, Between, Waiting, Unread, Running, Answered, TimedOut
  <2>4. Len(child[t].in) + Len(child[t].out) <= 1
    <3>1. CASE child[t].in = <<>> /\ child[t].out = <<>>
      BY <3>1
    <3>2. CASE child[t].in = <<>> /\ \E x : child[t].out = <<x>>
      <4>1. Len(child[t].out) = 1 /\ Len(child[t].in) = 0
        BY <3>2, Singletons
      <4> QED
        BY <4>1
    <3>3. CASE child[t].out = <<>> /\ \E x : child[t].in = <<x>>
      <4>1. Len(child[t].in) = 1 /\ Len(child[t].out) = 0
        BY <3>3, Singletons
      <4> QED
        BY <4>1
    <3> QED
      BY <2>2, <2>3, <3>1, <3>2, <3>3
  <2> QED
    BY <2>1, <2>4 DEF PipeOK, Between
<1> QED
  BY <1>1, Invariance, PTL

\* No function runs on once its job has a result.
THEOREM NoRunaway == Spec => []NothingRunsOn
<1>1. Inv => NothingRunsOn
  <2> SUFFICES ASSUME Inv, NEW t \in Threads, child[t].alive, child[t].pc = "run",
                      child[t].req # Init0
               PROVE  future[child[t].req] = Pending /\ job[t] = child[t].req
    BY DEF NothingRunsOn
  <2>1. PipeOK(t)
    BY DEF Inv, PipeInv
  <2>2. child[t].req = Want(t)
    BY <2>1 DEF PipeOK, Between, Waiting, Unread, Running, Answered, TimedOut, AtRest
  <2>3. job[t] = child[t].req
    BY <2>2 DEF Want
  <2> QED
    BY <2>3 DEF Inv, ThreadOwns
<1> QED
  BY <1>1, Invariance, PTL

\* A process whose initializer returned serves at most maximum_uses jobs.
THEOREM Recycling == Spec => []RecycledInTime
<1>1. Inv => RecycledInTime
  BY DEF Inv, CountInv, RecycledInTime
<1> QED
  BY <1>1, Invariance, PTL

\* __del__ leaves no process behind.
THEOREM AllProcessesEnd == Spec => []NoProcessLeft
<1>1. Inv => NoProcessLeft
  BY DEF Inv, CloseInv, NoProcessLeft
<1> QED
  BY <1>1, Invariance, PTL

\* Every future is resolved once, for any number of threads and jobs.
THEOREM FuturesFinal == Spec => FutureSetOnce
<1> DEFINE Kept == \A j \in Jobs : future[j] # Pending => future'[j] = future[j]
<1>1. Inv /\ [Next]_vars => [Kept]_vars
  <2> SUFFICES ASSUME Inv, Next PROVE Kept
    BY DEF vars
  <2>1. ASSUME NEW t \in Threads, NEW a, tpc[t] # "idle", Resolve(t, a) PROVE Kept
    <3>1. future \in [Jobs -> Answers] /\ future[job[t]] = Pending
      BY <2>1 DEF Inv, Types, TypeOK, ThreadOwns
    <3> QED
      BY <2>1, <3>1 DEF Resolve
  <2>2. ASSUME NEW t \in Threads, ThreadStep(t) PROVE Kept
    BY <2>1, <2>2
    DEF ThreadStep, Take, SendStart, Send, StartRaises, SendRaises, Unpicklable,
        RecvDied, RecvTimeout, Recv, RecvInit, RecvInitRaises
  <2>3. ASSUME NEW t \in Threads,
               \/ MainStep(t) \/ ChildRun(t) \/ TimerStep(t) \/ ChildDies(t)
               \/ \E r \in Requests : ChildDiesWriting(t, r)
        PROVE  Kept
    BY <2>3 DEF MainStep, ChildRead, ChildRun, ChildCancel, ChildRespond, TimerStep,
         TimerFires, CancelRun, ChildDies, ChildDiesWriting, threadVars
  <2>4. CASE Submit \/ Del
    BY <2>4 DEF Submit, Del, threadVars
  <2> QED
    BY <2>2, <2>3, <2>4 DEF Next
<1> QED
  BY <1>1, Invariance, PTL DEF Spec, FutureSetOnce
============================================================================
