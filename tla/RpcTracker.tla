----------------------------- MODULE RpcTracker -----------------------------
(***************************************************************************)
(* The RPC tracker (python/tvm/rpc/tracker.py) with the servers that       *)
(* register with it (_listen_loop of server.py) and the clients that ask   *)
(* it for one of them (TrackerSession.request of client.py), for one       *)
(* device key, that is for one PriorityScheduler.                          *)
(*                                                                         *)
(* A server connects to the tracker, PUTs a fresh match key and listens;   *)
(* the tracker hands the key to one request; the client connects to the    *)
(* server with the key and is refused if it is not the current one.  While *)
(* it waits a server asks every two seconds whether its key is still       *)
(* pending, and PUTs a new one when the key was handed out and no client   *)
(* came for a while.                                                       *)
(*                                                                         *)
(* The tracker is a single-threaded event loop: what one message sets off  *)
(* runs to the end (tpc) before the next one is read.  Servers and clients *)
(* run beside it.  Connections break, and clients and servers die, at any  *)
(* time; the tracker sees that later, when it reads from the socket.       *)
(* Match keys are random and long (base.random_key): each one is fresh.    *)
(***************************************************************************)
EXTENDS Integers, Sequences, FiniteSets, Functions

CONSTANTS
  Servers, Clients,   \* the processes
  Priority,           \* the priority of each client's request
  MaxRetry,           \* max_retry of TrackerSession.request
  MayDie,             \* the servers and clients that may die
  MaxLost             \* bound: how many connections to the tracker break

ASSUME RetryAssumption == MaxRetry \in Nat \ {0} /\ MaxLost \in Nat
ASSUME ProcessAssumption ==
  Servers \cap Clients = {} /\ "none" \notin Servers \cup Clients
ASSUME PriorityAssumption == Priority \in [Clients -> Int]

VARIABLES
  \* the tracker: PriorityScheduler and the TCPEventHandlers
  values,       \* _values: the free servers, oldest first
  requests,     \* _requests: the heap of waiting requests
  request_cnt,  \* _request_cnt
  pending,      \* pending_matchkeys of all connections
  open,         \* _connections
  tpc,          \* "idle", or "schedule" while _schedule runs
  putter,       \* the connection whose PUT is being handled, if any
  \* the network
  inbox,        \* messages sent to the tracker and not read yet
  lost,         \* connections to the tracker that broke
  backlog,      \* connections to each server that it has not accepted yet
  \* the servers
  spc,          \* where each server is
  sconn,        \* how many connections to the tracker it has made
  matchkey,     \* its current match key
  unmatch,      \* unmatch_period_count
  \* the clients
  cpc,          \* where each client is
  cconn,        \* how many connections to the tracker it has made
  grant,        \* the server and the match key it was given
  tries         \* how many attempts of request() have failed

trackerVars == <<values, requests, request_cnt, pending, open, tpc, putter>>
netVars == <<inbox, lost, backlog>>
serverVars == <<spc, sconn, matchkey, unmatch>>
clientVars == <<cpc, cconn, grant, tries>>
vars == <<trackerVars, netVars, serverVars, clientVars>>

ping_period == 2
unmatch_timeout == 4

Conn(p, n) == [peer |-> p, num |-> n]
NoConn == [peer |-> "none", num |-> 0]
NoGrant == [conn |-> NoConn, key |-> 0]

\* A connection that its peer closed, lost or left behind when it died.
Gone(c) ==
  \/ c \in lost
  \/ c.peer \in Servers /\ (spc[c.peer] \in {"connect", "dead"} \/ c.num # sconn[c.peer])
  \/ c.peer \in Clients /\ (cpc[c.peer] \in {"connect", "failed", "done", "dead"}
                            \/ c.num # cconn[c.peer])

Init ==
  /\ values = <<>> /\ requests = {} /\ request_cnt = 0
  /\ pending = {} /\ open = {} /\ tpc = "idle" /\ putter = NoConn
  /\ inbox = {} /\ lost = {} /\ backlog = [s \in Servers |-> <<>>]
  /\ spc = [s \in Servers |-> "connect"] /\ sconn = [s \in Servers |-> 0]
  /\ matchkey = [s \in Servers |-> 0] /\ unmatch = [s \in Servers |-> 0]
  /\ cpc = [c \in Clients |-> "connect"] /\ cconn = [c \in Clients |-> 0]
  /\ grant = [c \in Clients |-> NoGrant] /\ tries = [c \in Clients |-> 0]

----------------------------------------------------------------------------
(***************************************************************************)
(* The tracker.                                                            *)
(***************************************************************************)
\* PUT: the key is pending and free; SUCCESS is returned after _schedule.
TrackerPut(m) ==
  /\ tpc = "idle"
  /\ m \in inbox /\ m.code = "PUT" /\ m.conn \in open
  /\ LET value == [conn |-> m.conn, key |-> m.key] IN
       /\ pending' = pending \cup {value}
       /\ values' = Append(values, value)
  /\ inbox' = inbox \ {m}
  /\ tpc' = "schedule" /\ putter' = m.conn
  /\ UNCHANGED <<requests, request_cnt, open, lost, backlog, serverVars, clientVars>>

\* REQUEST: the request joins the heap behind those of its priority.
TrackerRequest(m) ==
  /\ tpc = "idle"
  /\ m \in inbox /\ m.code = "REQUEST" /\ m.conn \in open
  /\ requests' = requests \cup
       {[conn |-> m.conn, priority |-> Priority[m.conn.peer], cnt |-> request_cnt]}
  /\ request_cnt' = request_cnt + 1
  /\ inbox' = inbox \ {m}
  /\ tpc' = "schedule"
  /\ UNCHANGED <<values, pending, open, putter, lost, backlog, serverVars, clientVars>>

\* The answer to GET_PENDING_MATCHKEYS on connection c.
PendingMatchkeys(c) == {v.key : v \in {p \in pending : p.conn = c}}

\* unmatch_period_count after a ping on connection c: the server's key is
\* pending, or one more period went by without it.
UnmatchCountBlind(c) == unmatch[c.peer] + 1  \* mutant: the answer is not looked at
UnmatchCountStuck(c) == 0                    \* mutant: the counter is never raised
UnmatchCount(c) ==
  IF matchkey[c.peer] \in PendingMatchkeys(c) THEN 0 ELSE unmatch[c.peer] + 1

\* GET_PENDING_MATCHKEYS, and what the server does with the answer: it
\* regenerates its key once the key was missing for long enough.  The answer
\* cannot go stale on its way: a key that is not pending never is again.
TrackerPing(m) ==
  LET s == m.conn.peer
      answered == ~Gone(m.conn) /\ spc[s] = "ping"
      count == UnmatchCount(m.conn)
      regenerate == count * ping_period > unmatch_timeout + ping_period
  IN
  /\ tpc = "idle"
  /\ m \in inbox /\ m.code = "PING" /\ m.conn \in open
  /\ IF answered /\ regenerate
       THEN /\ matchkey' = [matchkey EXCEPT ![s] = @ + 1]
            /\ inbox' = (inbox \ {m}) \cup
                 {[code |-> "PUT", conn |-> m.conn, key |-> matchkey[s] + 1]}
            /\ spc' = [spc EXCEPT ![s] = "put"]
            /\ unmatch' = [unmatch EXCEPT ![s] = 0]
       ELSE /\ inbox' = inbox \ {m}
            /\ spc' = IF answered THEN [spc EXCEPT ![s] = "listen"] ELSE spc
            /\ unmatch' = IF answered THEN [unmatch EXCEPT ![s] = count] ELSE unmatch
            /\ UNCHANGED matchkey
  /\ UNCHANGED <<trackerVars, lost, backlog, sconn, clientVars>>

\* heapq.heappop: the highest priority, and the oldest of that priority.
Before(r, q) ==
  r.priority > q.priority \/ (r.priority = q.priority /\ r.cnt < q.cnt)
FirstRequest == CHOOSE r \in requests : \A q \in requests \ {r} : Before(r, q)

\* The two ends of a round: the callback took the value, or it is put back.
HandOutKeepsValue(v) ==     \* mutant: the value is put back all the same
  values' = Append(Tail(values), v) /\ pending' = pending \ {v}
HandOutKeepsPending(v) ==   \* mutant: pending_matchkeys is not updated
  values' = Tail(values) /\ UNCHANGED pending
HandOut(v) == values' = Tail(values) /\ pending' = pending \ {v}
PutBack(v) == values' = Append(Tail(values), v) /\ UNCHANGED pending

\* What the callback of request r does with the value v.  It answers a client
\* that lives.
Answer(r, v) ==
  /\ r.conn \in open /\ ~Gone(r.conn)
  /\ HandOut(v)
  /\ grant' = [grant EXCEPT ![r.conn.peer] = v]
  /\ cpc' = [cpc EXCEPT ![r.conn.peer] = "granted"]
  /\ UNCHANGED open

\* It writes to a connection that is gone, and the kernel accepts the bytes:
\* they count as delivered.
AnswerNobody(r, v) ==
  /\ r.conn \in open /\ Gone(r.conn)
  /\ HandOut(v)
  /\ UNCHANGED <<grant, cpc, open>>

\* It returns False: the connection was closed before, or the first write
\* fails, which closes it, and the second one raises.
AnswerFails(r, v) ==
  /\ r.conn \in open => Gone(r.conn)
  /\ PutBack(v)
  /\ open' = open \ {r.conn}
  /\ UNCHANGED <<grant, cpc>>

\* One round of _schedule: the oldest value meets the first request.
Schedule ==
  /\ tpc = "schedule"
  /\ values # <<>> /\ requests # {}
  /\ requests' = requests \ {FirstRequest}
  /\ \/ Answer(FirstRequest, Head(values))
     \/ AnswerNobody(FirstRequest, Head(values))
     \/ AnswerFails(FirstRequest, Head(values))
  /\ UNCHANGED <<request_cnt, tpc, putter, netVars, serverVars, cconn, tries>>

\* The loop of _schedule ends; a server that has PUT its key gets SUCCESS.
ScheduleDone ==
  /\ tpc = "schedule"
  /\ values = <<>> \/ requests = {}
  /\ tpc' = "idle" /\ putter' = NoConn
  /\ spc' = [s \in Servers |->
               IF putter.peer = s /\ ~Gone(putter) /\ spc[s] = "put"
                 THEN "listen" ELSE spc[s]]
  /\ UNCHANGED <<values, requests, request_cnt, pending, open, netVars,
                 sconn, matchkey, unmatch, clientVars>>

\* remove() of every value in put_values.
WithValuesOf(c) == values   \* mutant: close() forgets put_values
WithoutValuesOf(c) ==
  LET kept[i \in 0 .. Len(values)] ==
        IF i = 0 THEN <<>>
        ELSE IF values[i].conn = c THEN kept[i - 1]
        ELSE Append(kept[i - 1], values[i])
  IN  kept[Len(values)]

\* The tracker reads the end of a connection: close() removes the values that
\* were PUT on it, each followed by _schedule.  What was sent and not read may
\* be lost with the connection.
TrackerClose(c) ==
  /\ tpc = "idle"
  /\ c \in open /\ Gone(c)
  /\ open' = open \ {c}
  /\ inbox' = {m \in inbox : m.conn # c}
  /\ values' = WithoutValuesOf(c)
  /\ pending' = {v \in pending : v.conn # c}
  /\ tpc' = "schedule"
  /\ UNCHANGED <<requests, request_cnt, putter, lost, backlog, serverVars, clientVars>>

----------------------------------------------------------------------------
(***************************************************************************)
(* A server: _listen_loop and _accept_conn.                                *)
(***************************************************************************)
\* The start of _accept_conn: a fresh key is PUT, and the answer awaited.
ReportResource(s, n) ==
  /\ matchkey' = [matchkey EXCEPT ![s] = @ + 1]
  /\ unmatch' = [unmatch EXCEPT ![s] = 0]
  /\ inbox' = inbox \cup {[code |-> "PUT", conn |-> Conn(s, n), key |-> matchkey[s] + 1]}
  /\ spc' = [spc EXCEPT ![s] = "put"]

\* Step 1: connect to the tracker, handshake and UPDATE_INFO.
ServerConnect(s) ==
  /\ spc[s] = "connect"
  /\ sconn' = [sconn EXCEPT ![s] = @ + 1]
  /\ open' = open \cup {Conn(s, sconn[s] + 1)}
  /\ ReportResource(s, sconn[s] + 1)
  /\ UNCHANGED <<values, requests, request_cnt, pending, tpc, putter,
                 lost, backlog, clientVars>>

\* select times out after ping_period and the server asks for its keys.
SelectTimeout(s) ==
  /\ spc[s] = "listen" /\ backlog[s] = <<>>
  /\ spc' = [spc EXCEPT ![s] = "ping"]
  /\ inbox' = inbox \cup {[code |-> "PING", conn |-> Conn(s, sconn[s]), key |-> 0]}
  /\ UNCHANGED <<trackerVars, lost, backlog, sconn, matchkey, unmatch, clientVars>>

\* Mutant: only an error of the PUT is caught.
ServerTrackerErrorInPut(s) ==
  /\ spc[s] = "put" /\ Conn(s, sconn[s]) \in lost
  /\ spc' = [spc EXCEPT ![s] = "connect"]
  /\ UNCHANGED <<trackerVars, netVars, sconn, matchkey, unmatch, clientVars>>

\* The tracker's answer never comes: the connection is dropped and made anew.
ServerTrackerError(s) ==
  /\ spc[s] \in {"put", "ping"} /\ Conn(s, sconn[s]) \in lost
  /\ spc' = [spc EXCEPT ![s] = "connect"]
  /\ UNCHANGED <<trackerVars, netVars, sconn, matchkey, unmatch, clientVars>>

\* Mutant: one attempt too many.
RetryOnceMore(c, pc) ==
  /\ tries' = [tries EXCEPT ![c] = @ + 1]
  /\ cpc' = [cpc EXCEPT ![c] = IF tries[c] + 1 > MaxRetry THEN "failed" ELSE pc]

\* An attempt of TrackerSession.request failed, and left the client at pc.
Retry(c, pc) ==
  /\ tries' = [tries EXCEPT ![c] = @ + 1]
  /\ cpc' = [cpc EXCEPT ![c] = IF tries[c] + 1 >= MaxRetry THEN "failed" ELSE pc]

KeyMatchesAny(s, k) == TRUE   \* mutant: the key is not compared
KeyMatches(s, k) == k = matchkey[s]

\* A connection is accepted and its key read: the current key starts the
\* session, any other one is answered with RPC_CODE_MISMATCH.  A client that
\* died in the middle of the handshake raises the error that is taken for a
\* dropped tracker, unless all it had to send had arrived.
ServerAccept(s) ==
  LET d == Head(backlog[s])
      c == d.client
      matches == KeyMatches(s, d.key)
  IN
  /\ spc[s] = "listen" /\ backlog[s] # <<>>
  /\ backlog' = [backlog EXCEPT ![s] = Tail(@)]
  /\ \/ /\ matches
        /\ spc' = [spc EXCEPT ![s] = "serve"]
        /\ cpc' = [cpc EXCEPT ![c] = IF @ = "dead" THEN @ ELSE "session"]
        /\ UNCHANGED tries
     \/ /\ ~matches
        /\ IF cpc[c] = "dead" THEN UNCHANGED <<cpc, tries>> ELSE Retry(c, "request")
        /\ UNCHANGED spc
     \/ /\ cpc[c] = "dead"
        /\ spc' = [spc EXCEPT ![s] = "connect"]
        /\ UNCHANGED <<cpc, tries>>
  /\ UNCHANGED <<trackerVars, inbox, lost, sconn, matchkey, unmatch, cconn, grant>>

InSession(c, s) == cpc[c] = "session" /\ grant[c].conn.peer = s

\* Step 3 ends: the client closed the session, or the server process was
\* killed at the session timeout; the server reports itself free again.  The
\* killed process is not joined; it is taken to end at once.
ServerDone(s) ==
  /\ spc[s] = "serve"
  /\ cpc' = [c \in Clients |-> IF InSession(c, s) THEN "done" ELSE cpc[c]]
  /\ ReportResource(s, sconn[s])
  /\ UNCHANGED <<trackerVars, lost, backlog, sconn, cconn, grant, tries>>

\* The process of a server dies; those who are talking to it notice.
ServerDie(s) ==
  LET refused == {c \in Clients : cpc[c] = "connecting" /\ grant[c].conn.peer = s}
      Failed(c) == tries[c] + 1 >= MaxRetry
  IN
  /\ s \in MayDie /\ spc[s] # "dead"
  /\ spc' = [spc EXCEPT ![s] = "dead"]
  /\ backlog' = [backlog EXCEPT ![s] = <<>>]
  /\ tries' = [c \in Clients |-> tries[c] + (IF c \in refused THEN 1 ELSE 0)]
  /\ cpc' = [c \in Clients |->
               CASE c \in refused /\ Failed(c) -> "failed"
                 [] c \in refused /\ ~Failed(c) -> "request"
                 [] InSession(c, s) -> "done"
                 [] OTHER -> cpc[c]]
  /\ UNCHANGED <<trackerVars, inbox, lost, sconn, matchkey, unmatch, cconn, grant>>

----------------------------------------------------------------------------
(***************************************************************************)
(* A client: TrackerSession.request.                                       *)
(***************************************************************************)
SendRequest(c, n) ==
  /\ inbox' = inbox \cup {[code |-> "REQUEST", conn |-> Conn(c, n), key |-> 0]}
  /\ cpc' = [cpc EXCEPT ![c] = "waiting"]

\* _connect, when there is no socket, and the REQUEST.
ClientConnect(c) ==
  /\ cpc[c] = "connect"
  /\ cconn' = [cconn EXCEPT ![c] = @ + 1]
  /\ open' = open \cup {Conn(c, cconn[c] + 1)}
  /\ SendRequest(c, cconn[c] + 1)
  /\ UNCHANGED <<values, requests, request_cnt, pending, tpc, putter,
                 lost, backlog, serverVars, grant, tries>>

\* Mutant: the client waits for an answer to the request it sent before.
ClientRequestNotSent(c) ==
  /\ cpc[c] = "request"
  /\ cpc' = [cpc EXCEPT ![c] = "waiting"]
  /\ UNCHANGED <<trackerVars, netVars, serverVars, cconn, grant, tries>>

\* The next attempt after a TVMError: the socket to the tracker is kept.
ClientRequest(c) ==
  /\ cpc[c] = "request"
  /\ SendRequest(c, cconn[c])
  /\ UNCHANGED <<trackerVars, lost, backlog, serverVars, cconn, grant, tries>>

\* socket.error: the connection is closed before the next attempt.
ClientTrackerError(c) ==
  /\ cpc[c] = "waiting" /\ Conn(c, cconn[c]) \in lost
  /\ Retry(c, "connect")
  /\ UNCHANGED <<trackerVars, netVars, serverVars, cconn, grant>>

\* connect(url, port, matchkey): a dead server refuses, which is a TVMError.
ClientDial(c) ==
  LET s == grant[c].conn.peer IN
  /\ cpc[c] = "granted"
  /\ IF spc[s] = "dead"
       THEN Retry(c, "request") /\ UNCHANGED backlog
       ELSE /\ cpc' = [cpc EXCEPT ![c] = "connecting"]
            /\ backlog' = [backlog EXCEPT ![s] =
                             Append(@, [client |-> c, key |-> grant[c].key])]
            /\ UNCHANGED tries
  /\ UNCHANGED <<trackerVars, inbox, lost, serverVars, cconn, grant>>

ClientDie(c) ==
  /\ c \in MayDie /\ cpc[c] \notin {"done", "failed", "dead"}
  /\ cpc' = [cpc EXCEPT ![c] = "dead"]
  /\ UNCHANGED <<trackerVars, netVars, serverVars, cconn, grant, tries>>

\* A connection between the tracker and a process that lives breaks.
ConnLost(c) ==
  /\ c \in open /\ ~Gone(c) /\ Cardinality(lost) < MaxLost
  /\ lost' = lost \cup {c}
  /\ UNCHANGED <<trackerVars, inbox, backlog, serverVars, clientVars>>

----------------------------------------------------------------------------
TrackerRead(p) ==
  \E m \in inbox : m.conn.peer = p /\ (TrackerPut(m) \/ TrackerRequest(m) \/ TrackerPing(m))

TrackerStep == Schedule \/ ScheduleDone \/ \E c \in open : TrackerClose(c)

ServerStep(s) ==
  ServerConnect(s) \/ SelectTimeout(s) \/ ServerTrackerError(s) \/ ServerAccept(s)
  \/ ServerDone(s)

ClientStep(c) ==
  ClientConnect(c) \/ ClientRequest(c) \/ ClientTrackerError(c) \/ ClientDial(c)

Failure ==
  \/ \E s \in Servers : ServerDie(s)
  \/ \E c \in Clients : ClientDie(c)
  \/ \E c \in open : ConnLost(c)

Next ==
  \/ \E p \in Servers \cup Clients : TrackerRead(p)
  \/ TrackerStep
  \/ \E s \in Servers : ServerStep(s)
  \/ \E c \in Clients : ClientStep(c)
  \/ Failure

(***************************************************************************)
(* The event loop serves every readable socket; a live server or client    *)
(* goes on, and its session ends.  Nothing has to fail.                    *)
(***************************************************************************)
Fairness ==
  /\ \A p \in Servers \cup Clients : WF_vars(TrackerRead(p))
  /\ WF_vars(TrackerStep)
  /\ \A s \in Servers : WF_vars(ServerStep(s))
  /\ \A c \in Clients : WF_vars(ClientStep(c))

Spec == Init /\ [][Next]_vars /\ Fairness

----------------------------------------------------------------------------
(***************************************************************************)
(* Properties.                                                             *)
(***************************************************************************)
Conns == [peer : Servers \cup Clients, num : Nat \ {0}]
Keys == [conn : [peer : Servers, num : Nat \ {0}], key : Nat \ {0}]
ServerUp(s) == spc[s] \notin {"connect", "dead"}

\* Every variable has its type, and no attempt is made beyond max_retry.
TypeOK ==
  /\ values \in Seq(Keys) /\ pending \subseteq Keys
  /\ \A r \in requests : r.conn \in Conns /\ r.cnt < request_cnt
  /\ open \subseteq Conns /\ lost \subseteq Conns
  /\ tpc \in {"idle", "schedule"} /\ putter \in Conns \cup {NoConn}
  /\ \A m \in inbox : m.code \in {"PUT", "REQUEST", "PING"} /\ m.conn \in Conns
  /\ \A s \in Servers : backlog[s] \in Seq([client : Clients, key : Nat \ {0}])
  /\ spc \in [Servers -> {"connect", "put", "listen", "ping", "serve", "dead"}]
  /\ sconn \in [Servers -> Nat] /\ matchkey \in [Servers -> Nat]
  /\ \A s \in Servers : unmatch[s] * ping_period <= unmatch_timeout + ping_period
  /\ cpc \in [Clients -> {"connect", "request", "waiting", "granted", "connecting",
                          "session", "done", "failed", "dead"}]
  /\ cconn \in [Clients -> Nat] /\ grant \in [Clients -> Keys \cup {NoGrant}]
  /\ \A c \in Clients : tries[c] \in 0 .. MaxRetry /\ (cpc[c] = "failed") = (tries[c] = MaxRetry)

\* No match key reaches two clients, and none that a client was given is
\* offered again, whatever connections break and however often
\* _schedule puts a value back (tracker.py, PriorityScheduler._schedule).
KeyHandedOutOnce ==
  \A c \in Clients : grant[c] # NoGrant =>
    /\ grant[c] \notin Range(values) \cup pending
    /\ \A d \in Clients \ {c} : grant[d] # grant[c]

\* The tracker never offers a server that is busy or that has moved on to
\* another key, as long as the server's connection to it stands; what a
\* dropped connection left behind is the only stale offer.
FreeEntryIsCurrent ==
  \A v \in Range(values) :
    LET s == v.conn.peer IN
    ServerUp(s) /\ v.conn.num = sconn[s] =>
      v.key = matchkey[s] /\ spc[s] \in {"put", "listen", "ping"}

\* Between two messages the keys a connection reports as pending are those
\* that are free in the scheduler: the servers decide on them whether their
\* key was taken (GET_PENDING_MATCHKEYS).
PendingIsFree == tpc = "idle" => pending = Range(values)

\* A client's session runs on a server that serves this client and no other.
OneClientPerServer ==
  \A c \in Clients : cpc[c] = "session" =>
    LET s == grant[c].conn.peer IN
    /\ spc[s] = "serve" /\ matchkey[s] = grant[c].key
    /\ \A d \in Clients \ {c} : ~InSession(d, s)

\* Once the tracker has noticed a dead server or a dropped connection, no
\* client is sent there: every free entry belongs to an open connection.
OffersAreOpen == \A v \in Range(values) : v.conn \in open

\* A server that is told that its key is not pending may act on that although
\* the tracker goes on meanwhile: the key never becomes pending again before
\* the server has read the answer (get_pending_matchkeys in _accept_conn).
AnswerIsFinal ==
  [][\A s \in Servers :
       LET key == [conn |-> Conn(s, sconn[s]), key |-> matchkey[s]] IN
       spc[s] = "ping" /\ key \notin pending => key \notin pending']_vars

\* While one server lives, request() returns: with a session, or with an
\* error after max_retry attempts.  A key that was handed to a client that
\* died is replaced by the server (regenerate in _accept_conn).
RequestReturns ==
  (Servers \ MayDie # {}) =>
    \A c \in Clients : <>(cpc[c] \in {"done", "failed", "dead"})

\* A server that lives always comes back to listening for clients.
ServerListens ==
  \A s \in Servers \ MayDie : []<>(spc[s] = "listen")
=============================================================================
