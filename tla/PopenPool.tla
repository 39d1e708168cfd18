----------------------------- MODULE PopenPool -----------------------------
(***************************************************************************)
(* PopenPoolExecutor and PopenWorker (python/tvm/contrib/popen_pool.py)    *)
(* with the process at the other end of their pipes                        *)
(* (python/tvm/exec/popen_worker.py): the pool that runs builds and        *)
(* measurements in processes that may hang, raise or crash.                *)
(*                                                                         *)
(* A thread of the executor takes a job, sends it to the worker it owns    *)
(* (starting or recycling the worker's process first) and blocks until an  *)
(* answer or the end of the pipe.  In the process a timer thread races     *)
(* with the main thread for the right to answer.  A timed-out process is   *)
(* killed and the next send starts another.                                *)
(*                                                                         *)
(* Jobs are numbered; request 0 is the initializer.  The function of a job *)
(* may return, raise, never return, or take its process with it.           *)
(***************************************************************************)
EXTENDS Integers, Sequences, FiniteSets

CONSTANTS
  Threads,       \* the threads of _threadpool, hence the workers
  NumJobs,       \* bound: how many jobs are submitted
  MaximumUses,   \* maximum_process_uses; 0 behaves as None does
  Initializer,   \* whether there is an initializer
  InitMayRaise,  \* whether the initializer may raise, or not pickle
  Timeout,       \* whether the executor has a timeout
  MaxCrash       \* bound: how many processes die by themselves

ASSUME PopenAssumption ==
  /\ NumJobs \in Nat /\ MaximumUses \in Nat /\ MaxCrash \in Nat
  /\ Initializer \in BOOLEAN /\ InitMayRaise \in BOOLEAN /\ Timeout \in BOOLEAN

VARIABLES
  submitted,  \* how many jobs have been submitted
  queue,      \* jobs no thread has taken
  future,     \* the result of each job and the request it answers
  closed,     \* __del__ ran
  tpc, job,   \* where each thread is, and its job
  worker,     \* _proc is not None, and _remaining_uses
  child,      \* the process of each worker, with its two pipes
  uses,       \* history: jobs written to the current process
  ready,      \* history: its initializer, if any, has returned
  crashes     \* processes that died by themselves

poolVars == <<submitted, queue, closed>>
threadVars == <<tpc, job, worker, future, uses, ready>>
vars == <<poolVars, threadVars, child, crashes>>

Jobs == 1..NumJobs
Init0 == 0
Requests == {Init0} \cup Jobs
None == -1

Answer(kind, r) == [kind |-> kind, from |-> r]
Pending == Answer("pending", Init0)

\* A process as _start leaves it, with a first request in its pipe.
Started(r) ==
  [alive |-> TRUE, pc |-> "read", req |-> Init0, ret |-> "COMPLETE",
   in |-> <<r>>, out |-> <<>>, status |-> [q \in Requests |-> "NEW"],
   armed |-> {}, fired |-> {}]
NoRequest == [Started(Init0) EXCEPT !.in = <<>>]
NoChild == [Started(Init0) EXCEPT !.alive = FALSE, !.in = <<>>]

Init ==
  /\ submitted = 0 /\ queue = <<>> /\ closed = FALSE /\ crashes = 0
  /\ future = [j \in Jobs |-> Pending]
  /\ tpc = [t \in Threads |-> "idle"] /\ job = [t \in Threads |-> Init0]
  /\ worker = [t \in Threads |-> [proc |-> FALSE, remaining |-> None]]
  /\ child = [t \in Threads |-> NoChild]
  /\ uses = [t \in Threads |-> 0] /\ ready = [t \in Threads |-> FALSE]

----------------------------------------------------------------------------
(***************************************************************************)
(* The executor.                                                           *)
(***************************************************************************)
Submit ==
  /\ ~closed /\ submitted < NumJobs
  /\ submitted' = submitted + 1
  /\ queue' = Append(queue, submitted + 1)
  /\ UNCHANGED <<closed, threadVars, child, crashes>>

\* A thread takes a job; _worker_run finds the thread's worker, or makes it.
Take(t) ==
  /\ tpc[t] = "idle" /\ queue # <<>>
  /\ job' = [job EXCEPT ![t] = Head(queue)]
  /\ tpc' = [tpc EXCEPT ![t] = "send"]
  /\ queue' = Tail(queue)
  /\ UNCHANGED <<submitted, closed, worker, future, uses, ready, child, crashes>>

\* Every queued job holds a reference to the executor: __del__ finds none.
DelKillsNone == UNCHANGED <<worker, child>>  \* mutant: the workers are left running
KillWorkers ==
  /\ worker' = [t \in Threads |-> [proc |-> FALSE, remaining |-> None]]
  /\ child' = [t \in Threads |-> NoChild]
Del ==
  /\ ~closed /\ queue = <<>> /\ \A t \in Threads : tpc[t] = "idle"
  /\ closed' = TRUE
  /\ KillWorkers
  /\ UNCHANGED <<submitted, queue, tpc, job, future, uses, ready, crashes>>

----------------------------------------------------------------------------
(***************************************************************************)
(* PopenWorker, called by the thread that owns it.                         *)
(***************************************************************************)
\* kill: both pipes are closed with what they hold, and the process is dead.
Kill(t) ==
  /\ worker' = [worker EXCEPT ![t] = [proc |-> FALSE, remaining |-> None]]
  /\ child' = [child EXCEPT ![t] = NoChild]

\* A write to a dead process fails, and the error is ignored.
Written(c, r) == IF c.alive THEN [c EXCEPT !.in = Append(@, r)] ELSE c

\* send decrements _remaining_uses unless it is None or 0.
DecrementedAlways(n) == n - 1  \* mutant: None and 0 as well
Decremented(n) == IF n > 0 THEN n - 1 ELSE n

\* send looks whether the process has to be replaced first.
MustRecycleNever(t) == FALSE  \* mutant: no recycling
MustRecycle(t) ==
  /\ worker[t].proc /\ MaximumUses # 0 /\ worker[t].remaining = 0

\* send with no process, or one to recycle: _start, then the initializer's
\* own send, or the job itself.
SendStart(t) ==
  /\ tpc[t] = "send"
  /\ ~worker[t].proc \/ MustRecycle(t)
  /\ worker' = [worker EXCEPT ![t] =
       [proc |-> TRUE,
        remaining |-> IF Initializer THEN None ELSE Decremented(MaximumUses)]]
  /\ child' = [child EXCEPT ![t] = Started(IF Initializer THEN Init0 ELSE job[t])]
  /\ uses' = [uses EXCEPT ![t] = IF Initializer THEN 0 ELSE 1]
  /\ ready' = [ready EXCEPT ![t] = ~Initializer]
  /\ tpc' = [tpc EXCEPT ![t] = IF Initializer THEN "init" ELSE "recv"]
  /\ UNCHANGED <<poolVars, job, future, crashes>>

\* send to the process that is there.
Send(t) ==
  /\ tpc[t] = "send"
  /\ worker[t].proc /\ ~MustRecycle(t)
  /\ child' = [child EXCEPT ![t] = Written(@, job[t])]
  /\ worker' = [worker EXCEPT ![t].remaining = Decremented(@)]
  /\ uses' = [uses EXCEPT ![t] = @ + 1]
  /\ tpc' = [tpc EXCEPT ![t] = "recv"]
  /\ UNCHANGED <<poolVars, job, future, ready, crashes>>

\* The thread is done with its job: the result, or the exception, is set.
Resolve(t, a) ==
  /\ future' = [future EXCEPT ![job[t]] = a]
  /\ tpc' = [tpc EXCEPT ![t] = "idle"]
  /\ job' = [job EXCEPT ![t] = Init0]

\* send when dumps raises, because the function or an argument does not
\* pickle: to a process that was just started (the initializer too may be
\* what does not pickle), or to the one that is there.  Nothing is written,
\* no use is counted, and the process is kept.
Unpicklable(t) == Resolve(t, Answer("EXCEPTION", job[t]))
StartRaises(t) ==
  /\ tpc[t] = "send"
  /\ ~worker[t].proc \/ MustRecycle(t)
  /\ Initializer => InitMayRaise
  /\ worker' = [worker EXCEPT ![t] =
       [proc |-> TRUE, remaining |-> IF Initializer THEN None ELSE MaximumUses]]
  /\ child' = [child EXCEPT ![t] = NoRequest]
  /\ uses' = [uses EXCEPT ![t] = 0]
  /\ ready' = [ready EXCEPT ![t] = ~Initializer]
  /\ Unpicklable(t)
  /\ UNCHANGED <<poolVars, crashes>>
SendRaises(t) ==
  /\ tpc[t] = "send"
  /\ worker[t].proc /\ ~MustRecycle(t)
  /\ Unpicklable(t)
  /\ UNCHANGED <<poolVars, worker, child, uses, ready, crashes>>

\* recv when the pipe is at its end: the process is gone.
RecvDied(t) ==
  /\ tpc[t] \in {"init", "recv"}
  /\ ~child[t].alive /\ child[t].out = <<>>
  /\ Kill(t)
  /\ Resolve(t, Answer("DIED", job[t]))
  /\ UNCHANGED <<poolVars, uses, ready, crashes>>

\* recv of TIMEOUT kills the process before it raises.
TimeoutKeepsProcess(t) ==  \* mutant: the process is kept
  child' = [child EXCEPT ![t].out = Tail(@)] /\ UNCHANGED worker
KillOnTimeout(t) == Kill(t)
RecvTimeout(t) ==
  /\ tpc[t] = "recv"
  /\ child[t].out # <<>> /\ Head(child[t].out).kind = "TIMEOUT"
  /\ KillOnTimeout(t)
  /\ Resolve(t, Head(child[t].out))
  /\ UNCHANGED <<poolVars, uses, ready, crashes>>

\* recv of a value, of an exception, or of an answer that was cut short: the
\* last makes loads raise, which is no IOError and kills nothing.  An
\* exception of the initializer leaves send the same way.
Recv(t) ==
  /\ child[t].out # <<>>
  /\ LET a == Head(child[t].out) IN
       /\ \/ tpc[t] = "recv" /\ a.kind # "TIMEOUT"
          \/ tpc[t] = "init" /\ a.kind # "COMPLETE"
       /\ Resolve(t, a)
  /\ child' = [child EXCEPT ![t].out = Tail(@)]
  /\ UNCHANGED <<poolVars, worker, uses, ready, crashes>>

\* The initializer returned: the uses are counted from here on, and the job
\* that started the process is sent.
RecvInit(t) ==
  /\ tpc[t] = "init"
  /\ child[t].out # <<>> /\ Head(child[t].out).kind = "COMPLETE"
  /\ worker' = [worker EXCEPT ![t].remaining = Decremented(MaximumUses)]
  /\ child' = [child EXCEPT ![t] = Written([child[t] EXCEPT !.out = Tail(@)], job[t])]
  /\ uses' = [uses EXCEPT ![t] = 1]
  /\ ready' = [ready EXCEPT ![t] = TRUE]
  /\ tpc' = [tpc EXCEPT ![t] = "recv"]
  /\ UNCHANGED <<poolVars, job, future, crashes>>

\* The same when the job then does not pickle.
RecvInitRaises(t) ==
  /\ tpc[t] = "init"
  /\ child[t].out # <<>> /\ Head(child[t].out).kind = "COMPLETE"
  /\ worker' = [worker EXCEPT ![t].remaining = MaximumUses]
  /\ child' = [child EXCEPT ![t].out = Tail(@)]
  /\ uses' = [uses EXCEPT ![t] = 0]
  /\ ready' = [ready EXCEPT ![t] = TRUE]
  /\ Unpicklable(t)
  /\ UNCHANGED <<poolVars, crashes>>

----------------------------------------------------------------------------
(***************************************************************************)
(* The process: its main loop, and the timer of each request.              *)
(***************************************************************************)
\* A request is read: a fresh status, and a timer if it has a timeout.  The
\* initializer is sent without one.
ChildRead(t) ==
  LET c == child[t]  r == Head(c.in) IN
  /\ c.alive /\ c.pc = "read" /\ c.in # <<>>
  /\ child' = [child EXCEPT ![t] =
       [c EXCEPT !.in = Tail(@), !.req = r, !.pc = "run", !.status[r] = "RUNNING",
                 !.armed = IF Timeout /\ r # Init0 THEN {r} ELSE {}]]
  /\ UNCHANGED <<poolVars, threadVars, crashes>>

\* The function returns or raises.
ChildRun(t) ==
  /\ child[t].alive /\ child[t].pc = "run"
  /\ \E ret \in {"COMPLETE", "EXCEPTION"} :
       /\ child[t].req = Init0 /\ ret = "EXCEPTION" => InitMayRaise
       /\ child' = [child EXCEPT ![t].pc = "cancel", ![t].ret = ret]
  /\ UNCHANGED <<poolVars, threadVars, crashes>>

\* watcher.cancel(): of no use once the timer has fired.
ChildCancel(t) ==
  /\ child[t].alive /\ child[t].pc = "cancel"
  /\ child' = [child EXCEPT ![t].pc = "respond", ![t].armed = {}]
  /\ UNCHANGED <<poolVars, threadVars, crashes>>

\* Under the lock: the main thread answers unless the timer did.
MayAnswerAlways(c, r) == TRUE  \* mutant: the status is not looked at
MayAnswer(c, r) == c.status[r] = "RUNNING"
ChildRespond(t) ==
  LET c == child[t] IN
  /\ c.alive /\ c.pc = "respond"
  /\ child' = [child EXCEPT ![t] =
       IF MayAnswer(c, c.req)
         THEN [c EXCEPT !.pc = "read", !.status[c.req] = "COMPLETE",
                        !.out = Append(@, Answer(c.ret, c.req))]
         ELSE [c EXCEPT !.pc = "read"]]
  /\ UNCHANGED <<poolVars, threadVars, crashes>>

\* The timer expires; _cancel_run has yet to get the lock, and may get it
\* when the main thread is in a later request.
TimerFires(t) ==
  /\ child[t].alive /\ child[t].armed # {}
  /\ child' = [child EXCEPT ![t].armed = {}, ![t].fired = @ \cup child[t].armed]
  /\ UNCHANGED <<poolVars, threadVars, crashes>>

\* _cancel_run, under the lock, with the status of its own request.
CancelTargetShared(c, r) == c.req  \* mutant: one status for all requests
CancelTarget(c, r) == r
CancelRun(t, r) ==
  LET c == child[t]  q == CancelTarget(c, r) IN
  /\ c.alive /\ r \in c.fired
  /\ child' = [child EXCEPT ![t] =
       IF c.status[q] = "RUNNING"
         THEN [c EXCEPT !.fired = @ \ {r}, !.status[q] = "TIMEOUT",
                        !.out = Append(@, Answer("TIMEOUT", r))]
         ELSE [c EXCEPT !.fired = @ \ {r}]]
  /\ UNCHANGED <<poolVars, threadVars, crashes>>

\* The process dies: the function exits or crashes, a result does not pickle,
\* the system kills it.  What it wrote can still be read.
ChildDies(t) ==
  /\ child[t].alive /\ crashes < MaxCrash
  /\ crashes' = crashes + 1
  /\ child' = [child EXCEPT ![t].alive = FALSE]
  /\ UNCHANGED <<poolVars, threadVars>>

\* The same half way through the answer of the main thread, or of _cancel_run.
ChildDiesWriting(t, r) ==
  LET c == child[t] IN
  /\ c.alive /\ crashes < MaxCrash
  /\ \/ c.pc = "respond" /\ r = c.req
     \/ r \in c.fired
  /\ MayAnswer(c, r)
  /\ crashes' = crashes + 1
  /\ child' = [child EXCEPT ![t] =
       [c EXCEPT !.alive = FALSE, !.out = Append(@, Answer("TORN", r))]]
  /\ UNCHANGED <<poolVars, threadVars>>

----------------------------------------------------------------------------
ThreadStep(t) ==
  \/ Take(t) \/ SendStart(t) \/ Send(t) \/ StartRaises(t) \/ SendRaises(t)
  \/ RecvDied(t) \/ RecvTimeout(t) \/ Recv(t) \/ RecvInit(t) \/ RecvInitRaises(t)
MainStep(t) == ChildRead(t) \/ ChildCancel(t) \/ ChildRespond(t)
TimerStep(t) == TimerFires(t) \/ \E r \in Jobs : CancelRun(t, r)

Next ==
  \/ Submit \/ Del
  \/ \E t \in Threads :
       \/ ThreadStep(t) \/ MainStep(t) \/ ChildRun(t) \/ TimerStep(t)
       \/ ChildDies(t) \/ \E r \in Requests : ChildDiesWriting(t, r)

\* Threads run, and so do the threads of a process; a function of a job may
\* hang, the initializer (which has no timeout) is taken to end.
Fairness ==
  \A t \in Threads :
    /\ WF_vars(ThreadStep(t)) /\ WF_vars(MainStep(t)) /\ WF_vars(TimerStep(t))
    /\ WF_vars(ChildRun(t) /\ child[t].req = Init0)

Spec == Init /\ [][Next]_vars /\ Fairness

----------------------------------------------------------------------------
Kinds == {"COMPLETE", "EXCEPTION", "TIMEOUT", "TORN", "DIED", "pending"}
Answers == [kind : Kinds, from : Requests]

\* The type of the state.
TypeOK ==
  /\ submitted \in 0..NumJobs /\ queue \in Seq(Jobs) /\ closed \in BOOLEAN
  /\ future \in [Jobs -> Answers]
  /\ tpc \in [Threads -> {"idle", "send", "init", "recv"}]
  /\ job \in [Threads -> Requests]
  /\ worker \in [Threads -> [proc : BOOLEAN, remaining : -1..MaximumUses]]
  /\ \A t \in Threads :
       /\ child[t].req \in Requests
       /\ child[t].pc \in {"read", "run", "cancel", "respond"}
       /\ child[t].in \in Seq(Requests) /\ child[t].out \in Seq(Answers)
       /\ child[t].armed \subseteq Jobs /\ child[t].fired \subseteq Jobs
  /\ crashes \in 0..MaxCrash

\* The result of a job is the answer to that job: a timer that fired as the
\* function ended, or an answer written after a timeout, never becomes the
\* result of a later job (recv returns "the result of the last send").  Only
\* an initializer that fails answers for the job that started the process.
ResultIsOwn ==
  \A j \in Jobs :
    future[j].kind # "pending" =>
      \/ future[j].from = j
      \/ future[j].from = Init0 /\ future[j].kind \in {"EXCEPTION", "TORN"}

\* Between two jobs both pipes are empty, so the next answer read is the
\* answer to the next request, however the last job ended.
PipesAgree ==
  \A t \in Threads :
    /\ Len(child[t].in) + Len(child[t].out) <= 1
    /\ tpc[t] \in {"idle", "send"} =>
         child[t].out = <<>> /\ (child[t].alive => child[t].in = <<>>)

\* A function does not run on once its job has a result: a timed-out process
\* is killed before the future is resolved.
NothingRunsOn ==
  \A t \in Threads :
    child[t].alive /\ child[t].pc = "run" /\ child[t].req # Init0 =>
      future[child[t].req] = Pending /\ job[t] = child[t].req

\* A process whose initializer returned serves at most maximum_uses jobs, and
\* no timeout or crash makes the worker forget the count.
RecycledInTime ==
  MaximumUses # 0 => \A t \in Threads : ready[t] => uses[t] <= MaximumUses

\* The doc of maximum_uses without that condition: "the maximum number of
\* times a process can be used before being recycled".  A process whose
\* initializer raised is kept, and its uses are never counted.
UsesBounded ==
  MaximumUses # 0 => \A t \in Threads : uses[t] <= MaximumUses

\* A future is resolved once: no two threads run the same job, and no late
\* answer replaces a result.
FutureSetOnce ==
  [][\A j \in Jobs : future[j] # Pending => future'[j] = future[j]]_vars

\* When the executor is gone no process of it is left.
NoProcessLeft == closed => \A t \in Threads : ~child[t].alive

\* Every submitted job gets a result, although functions hang and processes
\* die: the timer answers for the function, the end of the pipe for the
\* process, and a worker that killed its process starts another.
EveryJobEnds ==
  \A j \in Jobs : submitted >= j ~> future[j].kind # "pending"
============================================================================
