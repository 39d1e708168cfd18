------------------------------ MODULE RpcProxy ------------------------------
(***************************************************************************)
(* The RPC proxy (python/tvm/rpc/proxy.py) over its TCP handlers           *)
(* (python/tvm/rpc/tornado_util.py).  Servers and clients connect to it;   *)
(* it pairs a server with a client and forwards the bytes of each to the   *)
(* other until one side closes.                                            *)
(*                                                                         *)
(* In proxy mode the two that came with the same key are paired.  In       *)
(* tracker mode every server gets a random key, which the proxy reports to *)
(* an RPC tracker as if it were the server; a client comes with a key the  *)
(* tracker gave it.  The mode is chosen once, by tracker_addr.             *)
(*                                                                         *)
(* The proxy is an event loop: an event is handled to its end before the   *)
(* next.  A write may find the socket full; what is left of it waits in    *)
(* _pending_write.  The peers follow the protocol (they send data only     *)
(* after SUCCESS), close when they like, and are external, as the tracker  *)
(* is: both are modelled from how the proxy uses them.  A random key is    *)
(* one that occurs nowhere.                                                *)
(***************************************************************************)
EXTENDS Integers, Sequences, FiniteSets, SequencesExt

CONSTANTS
  Servers, Clients,  \* connections from servers and from clients
  NumKeys,           \* bound: enough keys that one is always unused
  MaxServerData, MaxClientData,  \* bound: messages a peer sends once paired
  MaxLost            \* bound: failures of the connection to the tracker

ASSUME ProxyAssumption ==
  /\ Servers \cap Clients = {}
  /\ NumKeys \in Nat \ {0} /\ MaxLost \in Nat
  /\ MaxServerData \in Nat /\ MaxClientData \in Nat

Conns == Servers \cup Clients
Keys == 1..NumKeys
DeviceKey == 1    \* the key of all connections in proxy mode
NoKey == 0
None == "none"

VARIABLES
  tracker_mode,  \* tracker_addr was given
  hs,            \* the handlers: socket, match_key, forward_proxy,
                 \* _pending_write, _signal_close, alloc_time in periods
  rx,            \* what each peer sent and the proxy has not read
  got,           \* what each peer received
  sent,          \* how many data messages each peer sent
  server_pool, client_pool,  \* entries [key, conn]
  timers,        \* connections whose cleanup callback is scheduled
  tconn,         \* _tracker_conn: "none", "up", or "broken" and not noticed
  pending_puts,  \* _tracker_pending_puts, and whether it is a view of the pool
  periodic,      \* the periodic _update_tracker is scheduled
  tkeys,         \* external: the keys the tracker can hand out
  offer,         \* external: the key the tracker gave each client
  lost           \* failures of the connection to the tracker so far

poolVars == <<server_pool, client_pool, timers>>
trackerVars == <<tconn, pending_puts, periodic, tkeys, lost>>
vars == <<tracker_mode, hs, rx, got, sent, poolVars, trackerVars, offer>>

Msg(code, from, n) == [code |-> code, from |-> from, n |-> n]
Entry(k, c) == [key |-> k, conn |-> c]
KeysOf(pool) == {e.key : e \in pool}
update_tracker_period == 2
timeout_alloc == 5
NoAlloc == -1

Init ==
  /\ tracker_mode \in BOOLEAN
  /\ hs = [c \in Conns |-> [sock |-> "new", match |-> NoKey, fwd |-> None,
                            pw |-> <<>>, sig |-> FALSE, alloc |-> NoAlloc]]
  /\ rx = [c \in Conns |-> <<>>] /\ got = [c \in Conns |-> <<>>]
  /\ sent = [c \in Conns |-> 0]
  /\ server_pool = {} /\ client_pool = {} /\ timers = {}
  /\ tconn = "none" /\ pending_puts = [view |-> FALSE, keys |-> {}]
  /\ periodic = tracker_mode
  /\ tkeys = {} /\ offer = [c \in Clients |-> NoKey] /\ lost = 0

----------------------------------------------------------------------------
(***************************************************************************)
(* The handlers.  Each operator takes the handlers and what the peers got  *)
(* (S.hs, S.got) and gives them as the call leaves them.                   *)
(***************************************************************************)
Now == [hs |-> hs, got |-> got]
IsOpen(S, c) == S.hs[c].sock = "open"

\* write_message to an open handler: the socket takes everything, or is full.
SendData(S, c, m, full) ==
  LET out == Append(S.hs[c].pw, m) IN
  IF full THEN [S EXCEPT !.hs[c].pw = out]
          ELSE [S EXCEPT !.hs[c].pw = <<>>, !.got[c] = @ \o out]

Shut(h) == [h EXCEPT !.sock = "closed", !.fwd = None, !.pw = <<>>]

\* close: the partner is closed too, after what it still has to write.
PartnerAfterLeft(h) == h  \* mutant: the partner is not told
PartnerAfter(h) == IF h.pw = <<>> THEN Shut(h) ELSE [h EXCEPT !.sig = TRUE]
Close(S, c) ==
  LET d == S.hs[c].fwd
      new(x) == IF x = c THEN Shut(S.hs[x])
                ELSE IF x = d /\ IsOpen(S, x) THEN PartnerAfter(S.hs[x])
                ELSE S.hs[x]
  IN IF IsOpen(S, c) THEN [S EXCEPT !.hs = [x \in Conns |-> new(x)]] ELSE S

SignalClose(S, c) ==
  IF S.hs[c].pw = <<>> THEN Close(S, c) ELSE [S EXCEPT !.hs[c].sig = TRUE]

\* on_close_event takes a handler out of the pools, where its match_key is.
PurgeNone(pool, S) == pool  \* mutant: it stays
Purge(pool, S) ==
  {e \in pool : ~(S.hs[e.conn].sock = "closed" /\ S.hs[e.conn].match = e.key)}

\* A code, and the end.  The socket is new: what is written first, fits.
Refuse(S, c, code) == SignalClose(SendData(S, c, Msg(code, c, 0), FALSE), c)

NotPopped(pool, e) == pool  \* mutant: a paired handler stays in the pool
Popped(pool, e) == pool \ {e}

\* _pair_up of a handler from the pool with the one that is ready.  The
\* write to a handler that is closed already raises, and the ready one is
\* closed by on_error.  A write that fails closes them both: the one to lhs
\* before anything is sent, the one to rhs after lhs was told.
PairUp(S, lhs, rhs, fails) ==
  LET P == [S EXCEPT !.hs[lhs].fwd = rhs, !.hs[rhs].fwd = lhs]
      told == SendData(P, lhs, Msg("SUCCESS", rhs, 0), FALSE)
  IN
  IF ~IsOpen(S, lhs) THEN Close(P, rhs)
  ELSE IF fails = lhs THEN Close(P, lhs)
  ELSE IF fails = rhs THEN Close(told, rhs)
  ELSE SendData(told, rhs, Msg("SUCCESS", lhs, 0), FALSE)

\* The handlers after an event, with the pools that follow from them.  Only
\* of a server in the pool is alloc_time ever read, so only there is it kept.
Become(S, servers, clients) ==
  /\ got' = S.got
  /\ server_pool' = Purge(servers, S)
  /\ hs' = [c \in Conns |->
             IF \E e \in server_pool' : e.conn = c THEN S.hs[c]
             ELSE [S.hs[c] EXCEPT !.alloc = NoAlloc]]
  /\ client_pool' = Purge(clients, S)

----------------------------------------------------------------------------
(***************************************************************************)
(* The peers and the tracker.                                              *)
(***************************************************************************)
\* A peer connects and sends its key; a client of the tracker has one.
Connect(c) ==
  /\ hs[c].sock = "new"
  /\ tracker_mode /\ c \in Clients => offer[c] # NoKey
  /\ hs' = [hs EXCEPT ![c].sock = "open"]
  /\ rx' = [rx EXCEPT ![c] = <<Msg("KEY", c, 0)>>]
  /\ UNCHANGED <<tracker_mode, got, sent, poolVars, trackerVars, offer>>

PeerOpen(c) == hs[c].sock = "open" /\ \A i \in DOMAIN rx[c] : rx[c][i].code # "EOF"

\* A write to a peer that has closed may fail; otherwise the kernel takes it.
WriteFails(c) == IF PeerOpen(c) THEN {FALSE} ELSE BOOLEAN
PairFails(lhs, rhs) == {None} \cup {c \in {lhs, rhs} : TRUE \in WriteFails(c)}

MaxData(c) == IF c \in Servers THEN MaxServerData ELSE MaxClientData
PeerSend(c) ==
  /\ PeerOpen(c) /\ sent[c] < MaxData(c)
  /\ got[c] # <<>> /\ got[c][1].code = "SUCCESS"
  /\ sent' = [sent EXCEPT ![c] = @ + 1]
  /\ rx' = [rx EXCEPT ![c] = Append(@, Msg("DATA", c, sent[c] + 1))]
  /\ UNCHANGED <<tracker_mode, hs, got, poolVars, trackerVars, offer>>

PeerClose(c) ==
  /\ PeerOpen(c)
  /\ rx' = [rx EXCEPT ![c] = Append(@, Msg("EOF", c, 0))]
  /\ UNCHANGED <<tracker_mode, hs, got, sent, poolVars, trackerVars, offer>>

TrackerHandsOut(c, k) ==
  /\ hs[c].sock = "new" /\ offer[c] = NoKey /\ k \in tkeys
  /\ offer' = [offer EXCEPT ![c] = k]
  /\ tkeys' = tkeys \ {k}
  /\ UNCHANGED <<tracker_mode, hs, rx, got, sent, poolVars, tconn, pending_puts,
                 periodic, lost>>

\* The tracker forgets what came over a connection that breaks.
TrackerLost ==
  /\ tconn = "up" /\ lost < MaxLost
  /\ tconn' = "broken" /\ tkeys' = {} /\ lost' = lost + 1
  /\ UNCHANGED <<tracker_mode, hs, rx, got, sent, poolVars, pending_puts, periodic, offer>>

----------------------------------------------------------------------------
(***************************************************************************)
(* _update_tracker.  The pool, the handlers and the other state it is      *)
(* called with are its arguments: the caller may have changed them.        *)
(***************************************************************************)
KeysInUse(pool) ==
  KeysOf(pool) \cup tkeys \cup pending_puts.keys
    \cup {offer[c] : c \in Clients} \cup {hs[c].match : c \in Conns}

\* _regenerate_server_keys: fresh keys for some entries of the pool.  The
\* handler keeps the match_key it had.
Regenerated(pool, old) ==
  LET fresh == Keys \ KeysInUse(pool)
      new == CHOOSE f \in [old -> fresh] : \A a, b \in old : a # b => f[a] # f[b]
  IN (pool \ old) \cup {Entry(new[e], e.conn) : e \in old}

\* A handler when the time of a periodic update has gone by.
Aged(h) ==
  IF h.alloc = NoAlloc \/ h.alloc * update_tracker_period > timeout_alloc
    THEN h ELSE [h EXCEPT !.alloc = @ + 1]

\* A pool entry at a periodic update: alloc_time is set when its key is not
\* with the tracker, and time goes on although the key is there again.
AllocRestarts(e, h, known) == 0  \* mutant: the time starts again at every update
AllocAfter(e, h, known) ==
  IF e.key \in known THEN Aged(h).alloc ELSE h.alloc + 1
TimedOutNever(e, h, known) == FALSE  \* mutant: no key is ever regenerated
TimedOut(e, h, known) ==
  e.key \notin known /\ AllocAfter(e, h, known) * update_tracker_period > timeout_alloc

\* The answer to GET_PENDING_MATCHKEYS: the handlers, the pool, and the keys
\* that are new because the old ones timed out.
Checked(S, pool, known, period) ==
  LET late == {e \in pool : period /\ TimedOut(e, S.hs[e.conn], known)}
      pool2 == Regenerated(pool, late)
      alloc(c) ==
        IF \E e \in late : e.conn = c THEN NoAlloc
        ELSE IF period /\ \E e \in pool : e.conn = c
          THEN AllocAfter(CHOOSE e \in pool : e.conn = c, S.hs[c], known)
          ELSE S.hs[c].alloc
  IN [hs   |-> [c \in Conns |-> [S.hs[c] EXCEPT !.alloc = alloc(c)]],
      pool |-> pool2,
      new  |-> KeysOf(pool2) \ KeysOf(pool)]

\* The except clause.  It regenerates while it iterates over the live keys of
\* the pool, deleting and inserting: depending on how the dictionary grows,
\* the loop raises or not, and goes over every entry or over some only.  A
\* periodic update that raises is not scheduled again.  The pending puts
\* stay as they are.
ConnectionFails(handlers, pool, puts, period) ==
  /\ tconn' = "none" /\ tkeys' = {}
  /\ hs' = handlers
  /\ pending_puts' = puts
  /\ \E old \in SUBSET pool, raises \in BOOLEAN :
       /\ pool # {} => old # {}
       /\ raises => pool # {}
       /\ server_pool' = Regenerated(pool, old)
       /\ periodic' = (periodic /\ ~(raises /\ period))

\* The connection fails before the tracker answered; the time of a periodic
\* update has gone by all the same.
UpdateFails(S, pool, puts, period) ==
  ConnectionFails(IF period THEN [c \in Conns |-> Aged(S.hs[c])] ELSE S.hs,
                  pool, puts, period)

\* It fails after the answer, while keys are put.  (With a view and new keys
\* none is put: see UpdateWorks.)
PutKeysLate(puts, pool) == puts.keys  \* mutant: a reconnect puts only the new keys
PutKeys(puts, pool) == IF puts.view THEN KeysOf(pool) ELSE puts.keys
PutsFail(S, pool, puts, known) ==
  LET C == Checked(S, pool, known, TRUE) IN
  /\ PutKeys(puts, pool) \cup C.new # {}
  /\ puts.view => C.new = {}
  /\ ConnectionFails(C.hs, C.pool, [puts EXCEPT !.keys = @ \cup C.new], TRUE)

\* The rest with a working connection: put every pending key.  Right after
\* connecting the pending puts are a view, and adding the new keys to it
\* raises: they are not put, the update not scheduled again.
UpdateWorks(S, pool, puts, known, period) ==
  LET C == Checked(S, pool, known, period) IN
  /\ tconn' = "up"
  /\ hs' = C.hs
  /\ server_pool' = C.pool
  /\ IF C.new # {} /\ puts.view
       THEN /\ periodic' = FALSE /\ pending_puts' = puts /\ tkeys' = known
       ELSE /\ tkeys' = known \cup PutKeys(puts, pool) \cup C.new
            /\ pending_puts' = [view |-> FALSE, keys |-> {}]
            /\ UNCHANGED periodic

View == [view |-> TRUE, keys |-> {}]
UpdateTracker(S, pool, puts, period) ==
  \/ /\ tconn = "broken"
     /\ UpdateFails(S, pool, puts, period) /\ UNCHANGED lost
  \/ /\ tconn = "none" /\ lost < MaxLost
     /\ \E p \in {puts, View} : UpdateFails(S, pool, p, period)
     /\ lost' = lost + 1
  \/ /\ tconn \in {"none", "up"} /\ period /\ lost < MaxLost
     /\ PutsFail(S, pool, IF tconn = "up" THEN puts ELSE View, tkeys)
     /\ lost' = lost + 1
  \/ /\ tconn = "none"
     /\ UpdateWorks(S, pool, View, {}, period) /\ UNCHANGED lost
  \/ /\ tconn = "up"
     /\ UpdateWorks(S, pool, puts, tkeys, period) /\ UNCHANGED lost

PeriodicUpdate ==
  /\ periodic
  /\ UpdateTracker(Now, server_pool, pending_puts, TRUE)
  /\ UNCHANGED <<tracker_mode, rx, got, sent, client_pool, timers, offer>>

----------------------------------------------------------------------------
(***************************************************************************)
(* handler_ready, when the key of a connection has been read.              *)
(***************************************************************************)
IsKey(c) == hs[c].sock = "open" /\ rx[c] # <<>> /\ Head(rx[c]).code = "KEY"
Consume(c) == rx' = [rx EXCEPT ![c] = Tail(@)]
Matched(c, k) == [Now EXCEPT !.hs[c].match = k]

\* The pool_src and pool_dst of a connection: what it can be paired with,
\* and what it would be a duplicate of.
PoolSrcOwn(c) == IF c \in Servers THEN server_pool ELSE client_pool  \* mutant: its own side
PoolSrc(c) == IF c \in Servers THEN client_pool ELSE server_pool
PoolDst(c) == IF c \in Servers THEN server_pool ELSE client_pool
With(pool, c, mine) == IF c \in mine THEN pool \cup {Entry(DeviceKey, c)} ELSE pool

ScheduleNothing(c) == UNCHANGED timers  \* mutant: nothing ends the wait
ScheduleCleanup(c) == timers' = timers \cup {c}

\* Proxy mode: pair, wait, or be refused as a duplicate.
ReadyProxy(c) ==
  LET S == Matched(c, DeviceKey) IN
  /\ ~tracker_mode /\ IsKey(c) /\ Consume(c)
  /\ \/ /\ \E e \in PoolSrc(c) : \E fails \in PairFails(e.conn, c) :
             Become(PairUp(S, e.conn, c, fails),
                    Popped(server_pool, e), Popped(client_pool, e))
        /\ UNCHANGED timers
     \/ /\ DeviceKey \notin KeysOf(PoolSrc(c)) \cup KeysOf(PoolDst(c))
        /\ Become(S, With(server_pool, c, Servers), With(client_pool, c, Clients))
        /\ ScheduleCleanup(c)
     \/ /\ DeviceKey \in KeysOf(PoolDst(c)) \ KeysOf(PoolSrc(c))
        /\ Become(Refuse(S, c, "DUPLICATE"), server_pool, client_pool)
        /\ UNCHANGED timers
  /\ UNCHANGED <<tracker_mode, sent, trackerVars, offer>>

\* cleanup, timeout_server or timeout_client seconds after the start of the wait.
Cleanup(c) ==
  LET mine == {e \in server_pool \cup client_pool : e.conn = c} IN
  /\ c \in timers
  /\ timers' = timers \ {c}
  /\ \/ /\ mine # {}
        /\ Become(Refuse(Now, c, "MISMATCH"), server_pool \ mine, client_pool \ mine)
     \/ mine = {} /\ UNCHANGED <<hs, got, server_pool, client_pool>>
  /\ UNCHANGED <<tracker_mode, rx, sent, trackerVars, offer>>

\* Tracker mode, a server: a fresh key, pending, and the tracker is told.
\* While the pending puts are a view, append raises and nothing is told.
ReadyServer(c) ==
  /\ tracker_mode /\ c \in Servers /\ IsKey(c) /\ Consume(c)
  /\ LET key == CHOOSE k \in Keys : k \notin KeysInUse(server_pool)
         pool == server_pool \cup {Entry(key, c)}
         S == Matched(c, key)
     IN
     \/ /\ pending_puts.view
        /\ hs' = S.hs /\ server_pool' = pool
        /\ UNCHANGED trackerVars
     \/ /\ ~pending_puts.view
        /\ UpdateTracker(S, pool, [pending_puts EXCEPT !.keys = @ \cup {key}], FALSE)
  /\ UNCHANGED <<tracker_mode, got, sent, client_pool, timers, offer>>

\* Tracker mode, a client: paired with the server that has its key.
ReadyClient(c) ==
  LET S == Matched(c, offer[c]) IN
  /\ tracker_mode /\ c \in Clients /\ IsKey(c) /\ Consume(c)
  /\ \/ \E e \in server_pool : \E fails \in PairFails(e.conn, c) :
          /\ e.key = offer[c]
          /\ Become(PairUp(S, e.conn, c, fails), Popped(server_pool, e), client_pool)
     \/ /\ offer[c] \notin KeysOf(server_pool)
        /\ Become(Refuse(S, c, "MISMATCH"), server_pool, client_pool)
  /\ UNCHANGED <<tracker_mode, sent, timers, trackerVars, offer>>

----------------------------------------------------------------------------
(***************************************************************************)
(* The other events of a connection.                                       *)
(***************************************************************************)
\* Data is forwarded.  If the partner is closed the write raises, and
\* on_error closes this end with whatever it still had to write; if the
\* write itself fails, on_error of the partner closes the pair.
ReadData(c) ==
  LET d == hs[c].fwd IN
  /\ hs[c].sock = "open" /\ rx[c] # <<>> /\ Head(rx[c]).code = "DATA"
  /\ Consume(c)
  /\ \/ /\ hs[d].sock = "open"
        /\ \E full \in BOOLEAN :
             Become(SendData(Now, d, Head(rx[c]), full), server_pool, client_pool)
     \/ /\ hs[d].sock = "open" /\ TRUE \in WriteFails(d)
        /\ Become(Close(Now, d), server_pool, client_pool)
     \/ /\ hs[d].sock # "open"
        /\ Become(Close(Now, c), server_pool, client_pool)
  /\ UNCHANGED <<tracker_mode, sent, timers, trackerVars, offer>>

\* The peer closed, or the connection broke.
ReadEnd(c) ==
  /\ hs[c].sock = "open" /\ rx[c] # <<>> /\ Head(rx[c]).code = "EOF"
  /\ Consume(c)
  /\ Become(Close(Now, c), server_pool, client_pool)
  /\ UNCHANGED <<tracker_mode, sent, timers, trackerVars, offer>>

\* The socket can be written again: everything goes out, then a close that
\* was asked for happens; or the write fails.
FlushForgetsClose(S, c) == S  \* mutant: _signal_close is not looked at
AfterFlush(S, c) == IF S.hs[c].sig THEN Close(S, c) ELSE S
Flush(c) ==
  LET S == [Now EXCEPT !.got[c] = @ \o hs[c].pw, !.hs[c].pw = <<>>] IN
  /\ hs[c].sock = "open" /\ hs[c].pw # <<>>
  /\ \E fails \in WriteFails(c) :
       Become(IF fails THEN Close(Now, c) ELSE AfterFlush(S, c), server_pool, client_pool)
  /\ UNCHANGED <<tracker_mode, rx, sent, timers, trackerVars, offer>>

Read(c) == ReadyProxy(c) \/ ReadyServer(c) \/ ReadyClient(c) \/ ReadData(c) \/ ReadEnd(c)

LoopEvent == \E c \in Conns : Read(c) \/ Flush(c) \/ Cleanup(c)

Next ==
  \/ LoopEvent
  \/ \E c \in Conns : Connect(c) \/ PeerSend(c) \/ PeerClose(c)
  \/ \E c \in Clients, k \in Keys : TrackerHandsOut(c, k)
  \/ TrackerLost \/ PeriodicUpdate

\* The event loop runs as long as a socket or a timer has something for it,
\* and the periodic update is called when it is scheduled; peers read what
\* is written to them.
Fairness == WF_vars(LoopEvent) /\ WF_vars(PeriodicUpdate)

Spec == Init /\ [][Next]_vars /\ Fairness

----------------------------------------------------------------------------
Messages == [code : {"KEY", "DATA", "EOF", "SUCCESS", "MISMATCH", "DUPLICATE"},
             from : Conns, n : Nat]
Entries == [key : Keys, conn : Conns]

\* The type of the state.
TypeOK ==
  /\ tracker_mode \in BOOLEAN /\ periodic \in BOOLEAN
  /\ \A c \in Conns :
       /\ hs[c].sock \in {"new", "open", "closed"} /\ hs[c].match \in Keys \cup {NoKey}
       /\ hs[c].fwd \in Conns \cup {None} /\ hs[c].pw \in Seq(Messages)
       /\ hs[c].sig \in BOOLEAN /\ hs[c].alloc \in NoAlloc..3
       /\ rx[c] \in Seq(Messages) /\ got[c] \in Seq(Messages) /\ sent[c] \in 0..MaxData(c)
  /\ server_pool \subseteq Entries /\ client_pool \subseteq Entries
  /\ timers \subseteq Conns
  /\ tconn \in {"none", "up", "broken"} /\ tkeys \subseteq Keys
  /\ pending_puts.view \in BOOLEAN /\ pending_puts.keys \subseteq Keys
  /\ offer \in [Clients -> Keys \cup {NoKey}] /\ lost \in 0..MaxLost

\* What a peer gets is a refusal, or SUCCESS and then the data its partner
\* sent, in order and without a gap, and the two are each other's partners:
\* no byte reaches a third party, whatever closes, blocks or times out.
BytesStayInPair ==
  \A c \in Conns :
    \/ got[c] = <<>>
    \/ got[c] \in {<<Msg("MISMATCH", c, 0)>>, <<Msg("DUPLICATE", c, 0)>>}
    \/ \E d \in Conns :
         /\ c \in Servers <=> d \in Clients
         /\ \A i \in DOMAIN got[c] :
              got[c][i] = Msg(IF i = 1 THEN "SUCCESS" ELSE "DATA", d, i - 1)
         /\ got[d] # <<>> => got[d][1] = Msg("SUCCESS", c, 0)

\* A paired handler has a living partner that points back at it, or is on
\* its way out with data still to write: no pair is left half closed.
NoHalfPair ==
  \A c \in Conns :
    hs[c].sock = "open" /\ hs[c].fwd # None =>
      \/ hs[hs[c].fwd].sock = "open" /\ hs[hs[c].fwd].fwd = c
      \/ hs[c].sig /\ hs[c].pw # <<>>

\* A server and a client that came with the same key never both wait, nor
\* two of a kind.
NoMissedPair ==
  /\ KeysOf(server_pool) \cap KeysOf(client_pool) = {}
  /\ \A pool \in {server_pool, client_pool} :
       \A a, b \in pool : a.key = b.key => a = b

\* A handler waits in a pool only while its connection is open, and unpaired:
\* on_close_event finds it by its match_key.  (A regenerated key is not the
\* match_key any more: then a closed handler stays.)
PoolIsOpen ==
  \A e \in server_pool \cup client_pool :
    /\ e.key = hs[e.conn].match => hs[e.conn].sock = "open"
    /\ hs[e.conn].fwd = None

\* While the proxy is connected and its pending puts are a list, the tracker
\* has the key of every waiting server, or gave it to a client: no server
\* drops out of the offer through a lost connection, a reconnect or a new
\* key.  Connected with a view, the proxy is stuck: an update raised when it
\* added a new key, none is scheduled, and every later server's append raises
\* too.  Then servers do drop out, which OfferedWhenConnected shows.
EveryServerOffered ==
  tconn = "up" /\ ~pending_puts.view =>
    \A e \in server_pool :
      e.key \in tkeys \/ \E c \in Clients : offer[c] = e.key

\* When one side of a pair is gone, the other side is closed in the end: again
\* and again there is no open handler at all with a partner that is closed.
PairEnds ==
  []<>(\A c \in Conns :
         hs[c].sock = "open" /\ hs[c].fwd # None => hs[hs[c].fwd].sock # "closed")

\* Proxy mode: nobody waits for ever; a connection is paired, refused, timed
\* out or closed.
WaitEnds ==
  \A c \in Conns :
    ~tracker_mode /\ hs[c].sock = "open" ~> hs[c].sock = "closed" \/ hs[c].fwd # None

\* Tracker mode: a key that was given to a client who never comes is
\* replaced, or on offer again (after a reconnect), as long as the periodic update is scheduled.
StuckKeyReplaced ==
  \A c \in Clients :
    offer[c] \in KeysOf(server_pool) ~>
      offer[c] \notin KeysOf(server_pool) \/ offer[c] \in tkeys \/ ~periodic

\* The log of _update_tracker: "Lost tracker connection: %s, try reconnect
\* in %g sec".
RejoinsTracker == tconn = "broken" ~> tconn = "up"

\* The comment where the proxy has connected: "just connect to tracker, need
\* to update all keys".
OfferedWhenConnected ==
  tconn = "up" =>
    \A e \in server_pool :
      e.key \in tkeys \/ \E c \in Clients : offer[c] = e.key

\* The doc of signal_close: "The handler will be closed after the existing
\* pending message are sent to the peer."
PendingIsSent ==
  [][\A c \in Conns :
       hs[c].sig /\ PeerOpen(c) /\ hs'[c].sock = "closed" =>
         got'[c] = got[c] \o hs[c].pw]_vars
=============================================================================
