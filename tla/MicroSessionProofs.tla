------------------------- MODULE MicroSessionProofs -------------------------
(***************************************************************************)
(* Proofs about MicroSession, for every set of nonces and any number of    *)
(* channels, retries, resets, calls and logs.                              *)
(***************************************************************************)
EXTENDS MicroSession, TLAPS

Nonces == 1 .. 255
Bare == {"kTerminateSession", "kLog", "kLongLog"}  \* packets without a session

(***************************************************************************)
(* What is old.  The nonce of the host's last start tells the packets and  *)
(* the session of the device that belong to it from the older ones; 0, the *)
(* nonce of a packet without a session, is none of a session.              *)
(***************************************************************************)
Dated(m) ==
  m.type \notin Bare =>
    /\ m.id.initiator # kInvalidNonce
    /\ m.old <=> m.id.initiator # sess["host"].local_nonce
AgeInv ==
  /\ \A p \in Peer : \A k \in DOMAIN wire[p] : Dated(wire[p][k])
  /\ IsEstablished("device") =>
       /\ sess["device"].id.initiator # kInvalidNonce
       /\ stale <=> sess["device"].id.initiator # sess["host"].local_nonce

\* Only the host starts sessions, only the device answers a start or logs.
RolesInv ==
  /\ \A k \in DOMAIN wire["host"] : wire["host"][k].type # "kStartSessionInit"
  /\ \A k \in DOMAIN wire["device"] :
       wire["device"][k].type \in {"kStartSessionInit", "kTerminateSession", "kNormal"}
  /\ sess["device"].state \in {"kNoSessionEstablished", "kSessionEstablished"}

\* Where the host is, and the state of its session.
HostInv ==
  /\ IF chan = "off" THEN sess["host"].state = "kReset"
                     ELSE sess["host"].local_nonce # kInvalidNonce
  /\ chan = "connecting" => sess["host"].state = "kStartSessionSent"
  /\ chan \in {"idle", "waiting", "received"} => IsEstablished("host")
  /\ NeverBackToReset
  /\ IsEstablished("host") => sess["host"].id.initiator = sess["host"].local_nonce

(***************************************************************************)
(* A start that the device has not read is the last packet on its way, and *)
(* no reply to it is there yet.  Everything after it is in the session.    *)
(***************************************************************************)
Unanswered == \E k \in DOMAIN wire["device"] : wire["device"][k].type # "kNormal"
IsStart(m) == m.type = "kStartSessionInit" /\ ~m.old
IsReply(m) == m.type = "kStartSessionReply" /\ ~m.old
StartInv ==
  Unanswered =>
    /\ \A k \in DOMAIN wire["device"] : IsStart(wire["device"][k]) <=> k = Len(wire["device"])
    /\ \A k \in DOMAIN wire["host"] : ~IsReply(wire["host"][k])
    /\ sess["host"].state = "kStartSessionSent"
    /\ IsEstablished("device") => stale

\* From position k on, the host will be told that the device has reset.
EndFollows(k) ==
  \E j \in DOMAIN wire["host"] : j > k /\ wire["host"][j].type = "kTerminateSession"
DeviceIn(id) == IsEstablished("device") /\ sess["device"].id = id

\* The reply to the last start is the last reply, comes while the host waits for
\* it, and names the session of the device.
ReplyInv ==
  \A k \in DOMAIN wire["host"] :
    IsReply(wire["host"][k]) =>
      /\ sess["host"].state = "kStartSessionSent"
      /\ \A j \in DOMAIN wire["host"] : wire["host"][j].type = "kStartSessionReply" => j <= k
      /\ DeviceIn(wire["host"][k].id) \/ EndFollows(k)

\* Once the host has its session there is no reply left that could end it, and
\* the device is in the session, unless it has reset.
SharedInv ==
  IsEstablished("host") =>
    /\ ~Unanswered
    /\ \A k \in DOMAIN wire["host"] : wire["host"][k].type # "kStartSessionReply"
    /\ chan \in {"idle", "waiting", "received"} =>
         DeviceIn(sess["host"].id) \/ EndFollows(0) \/ Deaf("host")

Inv ==
  /\ TypeOK /\ AgeInv /\ RolesInv /\ HostInv /\ StartInv /\ ReplyInv /\ SharedInv
  /\ NoStaleDelivery

----------------------------------------------------------------------------
(***************************************************************************)
(* The member functions of Session.                                        *)
(***************************************************************************)
Sessions == [local_nonce : Nonce, id : Ids, state : States, complete : BOOLEAN,
             filled : 0 .. BufferPackets]
Packets == [type : Types, id : Ids, old : BOOLEAN]

\* A new nonce fits in eight bits and is not the reserved one.
LEMMA NonceLemma ==
  ASSUME NEW n \in Nonce
  PROVE  RegenerateNonce(n) \in Nonces
BY DEF RegenerateNonce, Nonce, Nonces, kInvalidNonce

LEMMA SessionTypes ==
  /\ NewSession \in Sessions /\ NoSession \in Ids
  /\ NewSession.state = "kReset" /\ NewSession.local_nonce = kInvalidNonce
  /\ NoSession.initiator = kInvalidNonce
  /\ \A i, r \in Nonce : SessionId(i, r) \in Ids /\ SessionId(i, r).initiator = i
                         /\ SessionId(i, r).responder = r
<1>1. 0 \in Nonce /\ BufferPackets \in Nat /\ 0 \in 0 .. BufferPackets
  BY BoundsAssumption DEF Nonce
<1>2. \A i, r \in Nonce : SessionId(i, r) \in Ids /\ SessionId(i, r).initiator = i
                          /\ SessionId(i, r).responder = r
  BY DEF SessionId, Ids
<1>3. NoSession \in Ids /\ NoSession.initiator = kInvalidNonce
  BY <1>1, <1>2 DEF NoSession, kInvalidNonce
<1> QED
  BY <1>1, <1>2, <1>3 DEF NewSession, Sessions, States, kInvalidNonce

\* What a device makes of a packet that its buffer takes.
LEMMA DeviceEffect ==
  ASSUME TypeOK, RolesInv, NEW m \in Packets, ~Refuses(sess["device"]),
         m.type \in {"kStartSessionInit", "kTerminateSession", "kNormal"},
         m.type = "kStartSessionInit" => m.id.initiator # kInvalidNonce,
         NEW s, s = sess["device"], NEW e, e = Answer(PacketDone(s, "device", m))
  PROVE  /\ e.s \in Sessions /\ e.s.state \in {"kNoSessionEstablished", "kSessionEstablished"}
         /\ \/ /\ m.type = "kStartSessionInit" /\ e.event = "established"
               /\ e.s.state = "kSessionEstablished" /\ e.s.id.initiator = m.id.initiator
               /\ e.sent = <<[type |-> "kStartSessionReply", id |-> e.s.id, old |-> m.old]>>
            \/ /\ m.type # "kStartSessionInit" /\ e.event \in {"none", "terminated"}
               /\ e.sent = <<>> /\ e.s.id = s.id
               /\ e.s.state = s.state \/ (m.type = "kTerminateSession"
                                           /\ e.s.state = "kNoSessionEstablished")
            \/ /\ m.type = "kNormal" /\ e.event = "normal" /\ m.id = s.id
               /\ s.state = "kSessionEstablished" /\ e.s.state = s.state /\ e.s.id = s.id
               /\ e.sent = <<[type |-> "kNormal", id |-> s.id, old |-> stale]>>
<1> DEFINE r == [s EXCEPT !.filled = @ + 1]
<1>1. s \in Sessions /\ s.state \in {"kNoSessionEstablished", "kSessionEstablished"}
  BY DEF TypeOK, RolesInv, Peer, Sessions
<1>2. s.filled + 1 \in 0 .. BufferPackets
  BY <1>1, BoundsAssumption DEF Refuses, Sessions
<1>3. /\ r \in Sessions /\ r.state = s.state /\ r.id = s.id
      /\ r.state \in {"kNoSessionEstablished", "kSessionEstablished"}
  BY <1>1, <1>2 DEF Sessions
<1> HIDE DEF r
<1>4. stale \in BOOLEAN /\ m.id \in Ids /\ m.id.initiator \in Nonce
  BY DEF TypeOK, Packets, Ids
<1>5. CASE m.type = "kStartSessionInit"
  <2> DEFINE n == RegenerateNonce(r.local_nonce)
             id == SessionId(m.id.initiator, n)
             t == [r EXCEPT !.local_nonce = n, !.id = id, !.state = "kSessionEstablished"]
  <2>0. r.local_nonce \in Nonce
    BY <1>3 DEF Sessions
  <2>1. n \in Nonce
    <3>1. RegenerateNonce(r.local_nonce) \in Nonces
      BY <2>0, NonceLemma
    <3> QED
      BY <3>1 DEF Nonce, Nonces
  <2>2. id \in Ids /\ id.initiator = m.id.initiator
    BY <1>4, <2>1, SessionTypes
  <2> HIDE DEF id, n
  <2>3. t \in Sessions /\ t.state = "kSessionEstablished" /\ t.id = id
    BY <1>3, <2>1, <2>2 DEF Sessions, States
  <2>4. PacketDone(s, "device", m) = SendSessionStartReply(r, "device", m)
    BY <1>3, <1>5 DEF PacketDone, ProcessStartSessionInit, r
  <2>5. e = Effect(t, <<[Packet("kStartSessionReply", t, "device") EXCEPT !.old = m.old]>>,
                   "established")
    BY <2>4 DEF SendSessionStartReply, Answer, Effect, n, id
  <2>6. [Packet("kStartSessionReply", t, "device") EXCEPT !.old = m.old]
          = [type |-> "kStartSessionReply", id |-> t.id, old |-> m.old]
    BY DEF Packet
  <2> HIDE DEF t
  <2> QED
    BY <1>5, <2>2, <2>3, <2>5, <2>6 DEF Effect
<1>6. CASE m.type = "kTerminateSession"
  <2>1. e = IF r.state = "kSessionEstablished"
              THEN Effect([r EXCEPT !.state = "kNoSessionEstablished"], <<>>, "terminated")
              ELSE Effect(r, <<>>, "none")
    BY <1>6 DEF PacketDone, ProcessTerminate, Answer, Effect, r
  <2>2. [r EXCEPT !.state = "kNoSessionEstablished"] \in Sessions
    BY <1>3 DEF Sessions, States
  <2> QED
    BY <1>3, <1>6, <2>1, <2>2 DEF Effect, Sessions
<1>7. CASE m.type = "kNormal"
  <2> DEFINE c == [r EXCEPT !.complete = TRUE]
             d == ClearReceiveBuffer(c)
  <2>1. c \in Sessions /\ c.state = s.state /\ c.id = s.id
    BY <1>3 DEF Sessions
  <2>2. d \in Sessions /\ d.state = s.state /\ d.id = s.id
    <3>1. 0 \in 0 .. BufferPackets
      BY BoundsAssumption
    <3> QED
      BY <1>3, <3>1 DEF Sessions, ClearReceiveBuffer
  <2>3. PacketDone(s, "device", m) =
          Effect(c, <<>>, IF r.state = "kSessionEstablished" /\ m.id = r.id
                          THEN "normal" ELSE "none")
    BY <1>7 DEF PacketDone, ProcessNormal, r
  <2> HIDE DEF c
  <2>4. Packet("kNormal", c, "device") = [type |-> "kNormal", id |-> s.id, old |-> stale]
    BY <1>4, <2>1 DEF Packet
  <2>5. e = IF r.state = "kSessionEstablished" /\ m.id = r.id
              THEN Effect(d, <<Packet("kNormal", c, "device")>>, "normal")
              ELSE Effect(c, <<>>, "none")
    BY <2>3 DEF Answer, Effect
  <2> HIDE DEF d
  <2> QED
    BY <1>1, <1>3, <1>7, <2>1, <2>2, <2>4, <2>5 DEF Effect
<1> QED
  BY <1>5, <1>6, <1>7

\* What the host makes of a packet that its buffer takes: it answers none.
LEMMA HostEffect ==
  ASSUME TypeOK, NEW m \in Packets, ~Refuses(sess["host"]), m.type # "kStartSessionInit",
         NEW s, s = sess["host"], NEW e, e = PacketDone(s, "host", m)
  PROVE  /\ e.s \in Sessions /\ e.s.local_nonce = s.local_nonce /\ e.sent = <<>>
         /\ \/ /\ m.type = "kStartSessionReply" /\ m.id.initiator = s.local_nonce
               /\ s.state = "kStartSessionSent" /\ e.s.state = "kSessionEstablished"
               /\ e.event = "established" /\ e.s.id = m.id
            \/ m.type = "kStartSessionReply" /\ s.state = "kSessionEstablished"
            \/ /\ m.type = "kTerminateSession" /\ e.event = "terminated"
               /\ s.state = "kSessionEstablished" /\ e.s.state = "kNoSessionEstablished"
            \/ /\ m.type = "kNormal" /\ e.event = "normal" /\ m.id = s.id
               /\ s.state = "kSessionEstablished" /\ e.s.state = s.state /\ e.s.id = s.id
            \/ /\ e.event \in {"none", "log"} /\ e.s.state = s.state /\ e.s.id = s.id
               /\ m.type = "kTerminateSession" => s.state # "kSessionEstablished"
               /\ m.type = "kStartSessionReply" => s.state # "kSessionEstablished"
<1> DEFINE r == [s EXCEPT !.filled = @ + 1]
<1>1. s \in Sessions
  BY DEF TypeOK, Peer, Sessions
<1>2. s.filled + 1 \in 0 .. BufferPackets
  BY <1>1, BoundsAssumption DEF Refuses, Sessions
<1>3. r \in Sessions /\ r.state = s.state /\ r.id = s.id /\ r.local_nonce = s.local_nonce
  BY <1>1, <1>2 DEF Sessions
<1> HIDE DEF r
<1>4. m.id \in Ids /\ m.id.initiator \in Nonce /\ m.id.responder \in Nonce
  BY DEF Packets, Ids
<1>5. CASE m.type = "kStartSessionReply"
  <2> DEFINE t == [r EXCEPT !.id = SessionId(r.local_nonce, m.id.responder),
                            !.state = "kSessionEstablished"]
             u == [r EXCEPT !.state = "kReset"]
  <2>1. m.id.initiator = r.local_nonce => SessionId(r.local_nonce, m.id.responder) = m.id
    BY <1>4 DEF SessionId, Ids
  <2>2. SessionId(r.local_nonce, m.id.responder) \in Ids
    BY <1>3, <1>4, SessionTypes DEF Sessions
  <2>3. /\ t \in Sessions /\ t.local_nonce = s.local_nonce /\ t.state = "kSessionEstablished"
        /\ m.id.initiator = r.local_nonce => t.id = m.id
        /\ u \in Sessions /\ u.local_nonce = s.local_nonce
    BY <1>3, <2>1, <2>2 DEF Sessions, States
  <2> HIDE DEF t, u
  <2>4. e = IF m.id.responder = kInvalidNonce THEN Effect(r, <<>>, "none")
            ELSE IF r.state = "kStartSessionSent" /\ m.id.initiator = r.local_nonce
              THEN Effect(t, <<>>, "established")
            ELSE IF r.state = "kSessionEstablished" THEN Effect(u, <<>>, "none")
            ELSE Effect(r, <<>>, "none")
    <3>1. e = ProcessStartSessionReply(r, m)
      BY <1>5 DEF PacketDone, r
    <3> QED
      BY <3>1 DEF ProcessStartSessionReply, t, u
  <2> QED
    BY <1>3, <1>5, <2>3, <2>4 DEF Effect
<1>6. CASE m.type = "kTerminateSession"
  <2>1. e = IF r.state = "kSessionEstablished"
              THEN Effect([r EXCEPT !.state = "kNoSessionEstablished"], <<>>, "terminated")
              ELSE Effect(r, <<>>, "none")
    BY <1>6 DEF PacketDone, ProcessTerminate, r
  <2>2. [r EXCEPT !.state = "kNoSessionEstablished"] \in Sessions
    BY <1>3 DEF Sessions, States
  <2> QED
    BY <1>3, <1>6, <2>1, <2>2 DEF Effect, Sessions
<1>7. CASE m.type = "kNormal"
  <2>1. e = Effect([r EXCEPT !.complete = TRUE], <<>>,
                   IF r.state = "kSessionEstablished" /\ m.id = r.id THEN "normal" ELSE "none")
    BY <1>7 DEF PacketDone, ProcessNormal, r
  <2> DEFINE c == [r EXCEPT !.complete = TRUE]
  <2>2. /\ c \in Sessions /\ c.state = s.state /\ c.id = s.id
        /\ c.local_nonce = s.local_nonce
    BY <1>3 DEF Sessions
  <2> HIDE DEF c
  <2>3. e = Effect(c, <<>>, IF r.state = "kSessionEstablished" /\ m.id = r.id
                            THEN "normal" ELSE "none")
    BY <2>1 DEF c
  <2> QED
    BY <1>3, <1>7, <2>2, <2>3 DEF Effect
<1>8. CASE m.type \in {"kLog", "kLongLog"}
  <2>1. e = Effect(IF m.type = "kLog" THEN [r EXCEPT !.complete = FALSE, !.filled = 0]
                                      ELSE [r EXCEPT !.complete = TRUE], <<>>, "log")
    BY <1>8 DEF PacketDone, HandleLog, r
  <2> DEFINE c == [r EXCEPT !.complete = FALSE, !.filled = 0]
             d == [r EXCEPT !.complete = TRUE]
  <2>2. 0 \in 0 .. BufferPackets
    BY BoundsAssumption
  <2>3. /\ c \in Sessions /\ c.state = s.state /\ c.id = s.id
        /\ c.local_nonce = s.local_nonce
        /\ d \in Sessions /\ d.state = s.state /\ d.id = s.id
        /\ d.local_nonce = s.local_nonce
    BY <1>3, <2>2 DEF Sessions
  <2> HIDE DEF c, d
  <2>4. e = Effect(IF m.type = "kLog" THEN c ELSE d, <<>>, "log")
    BY <2>1 DEF c, d
  <2> QED
    BY <1>3, <1>8, <2>3, <2>4 DEF Effect
<1>9. m.type \in Types
  BY DEF Packets
<1> QED
  BY <1>5, <1>6, <1>7, <1>8, <1>9 DEF Types

----------------------------------------------------------------------------
(***************************************************************************)
(* The line.                                                               *)
(***************************************************************************)
LEMMA Lines ==
  ASSUME TypeOK
  PROVE  /\ wire["host"] \in Seq(Packets) /\ wire["device"] \in Seq(Packets)
         /\ sess["host"] \in Sessions /\ sess["device"] \in Sessions
         /\ DOMAIN wire = Peer /\ DOMAIN sess = Peer
         /\ sess \in [Peer -> Sessions] /\ wire \in [Peer -> Seq(Packets)]
BY DEF TypeOK, Peer, Sessions, Packets

\* The same, with the names of the types.
LEMMA TypesSuffice ==
  ASSUME sess \in [Peer -> Sessions], wire \in [Peer -> Seq(Packets)],
         chan \in {"off", "connecting", "idle", "waiting", "received", "failed"},
         resets \in 0 .. MaxResets, connects \in 0 .. MaxConnects,
         retries \in 0 .. MaxRetries, early \in 0 .. MaxEarlyRetries,
         stale \in BOOLEAN, misled \in BOOLEAN
  PROVE  TypeOK
BY DEF TypeOK, Sessions, Packets

\* A record with a field for each peer is a function of the peers.
LEMMA PeerRecord ==
  ASSUME NEW S, NEW a \in S, NEW b \in S
  PROVE  /\ [host |-> a, device |-> b] \in [Peer -> S]
         /\ [host |-> a, device |-> b]["host"] = a /\ [host |-> a, device |-> b]["device"] = b
         /\ [device |-> b, host |-> a] \in [Peer -> S]
         /\ [device |-> b, host |-> a]["host"] = a /\ [device |-> b, host |-> a]["device"] = b
<1>1. [host |-> a, device |-> b] \in [Peer -> S]
  BY DEF Peer
<1>2. [host |-> a, device |-> b]["host"] = a /\ [host |-> a, device |-> b]["device"] = b
  OBVIOUS
<1>3. [device |-> b, host |-> a] \in [Peer -> S]
  BY DEF Peer
<1>4. [device |-> b, host |-> a]["host"] = a /\ [device |-> b, host |-> a]["device"] = b
  OBVIOUS
<1> QED
  BY <1>1, <1>2, <1>3, <1>4

LEMMA PeerUpdate ==
  ASSUME NEW S, NEW w \in [Peer -> S], NEW p \in Peer, NEW x \in S
  PROVE  /\ [w EXCEPT ![p] = x] \in [Peer -> S] /\ [w EXCEPT ![p] = x][p] = x
         /\ \A q \in Peer : q # p => [w EXCEPT ![p] = x][q] = w[q]
OBVIOUS

LEMMA TailLemma ==
  ASSUME NEW S, NEW q \in Seq(S), q # <<>>
  PROVE  /\ Head(q) \in S /\ Head(q) = q[1] /\ Tail(q) \in Seq(S) /\ 1 \in DOMAIN q
         /\ Len(q) \in Nat \ {0} /\ Len(Tail(q)) = Len(q) - 1 /\ Len(Tail(q)) \in Nat
         /\ \A k \in DOMAIN Tail(q) :
              /\ Tail(q)[k] = q[k + 1] /\ k \in Nat \ {0}
              /\ k + 1 \in DOMAIN q
         /\ \A k \in DOMAIN q : k = 1 \/ (k - 1 \in DOMAIN Tail(q) /\ Tail(q)[k - 1] = q[k]
                                          /\ k \in Nat)
         /\ DOMAIN q = 1 .. Len(q) /\ DOMAIN Tail(q) = 1 .. Len(q) - 1
OBVIOUS

LEMMA AppendLemma ==
  ASSUME NEW S, NEW q \in Seq(S), NEW x \in S
  PROVE  /\ q \o <<x>> = Append(q, x) /\ Append(q, x) \in Seq(S)
         /\ Len(q) \in Nat /\ Len(Append(q, x)) = Len(q) + 1 /\ Append(q, x)[Len(q) + 1] = x
         /\ DOMAIN q = 1 .. Len(q) /\ DOMAIN Append(q, x) = 1 .. Len(q) + 1
         /\ \A k \in DOMAIN q : k \in DOMAIN Append(q, x) /\ Append(q, x)[k] = q[k]
         /\ \A k \in DOMAIN Append(q, x) : k = Len(q) + 1 \/ k \in DOMAIN q
         /\ q \o <<>> = q
OBVIOUS

\* Old packets keep what they are apart from their age.
LEMMA AgedLemma ==
  ASSUME NEW q \in Seq(Packets)
  PROVE  /\ Aged(q) \in Seq(Packets) /\ Len(Aged(q)) = Len(q) /\ DOMAIN Aged(q) = DOMAIN q
         /\ \A k \in DOMAIN q :
              /\ Aged(q)[k].type = q[k].type /\ Aged(q)[k].id = q[k].id
              /\ Aged(q)[k].old = TRUE
<1>1. \A m \in Packets : [m EXCEPT !.old = TRUE] \in Packets
  BY DEF Packets
<1>2. DOMAIN q = 1 .. Len(q) /\ Len(q) \in Nat /\ \A k \in 1 .. Len(q) : q[k] \in Packets
  OBVIOUS
<1>3. Aged(q) = [k \in 1 .. Len(q) |-> [q[k] EXCEPT !.old = TRUE]]
  BY <1>2 DEF Aged
<1>4. Aged(q) \in Seq(Packets) /\ Len(Aged(q)) = Len(q)
  BY <1>1, <1>2, <1>3
<1>5. ASSUME NEW m \in Packets
      PROVE  /\ [m EXCEPT !.old = TRUE].type = m.type /\ [m EXCEPT !.old = TRUE].id = m.id
             /\ [m EXCEPT !.old = TRUE].old = TRUE
  BY DEF Packets
<1>6. ASSUME NEW k \in DOMAIN q
      PROVE  /\ Aged(q)[k].type = q[k].type /\ Aged(q)[k].id = q[k].id
             /\ Aged(q)[k].old = TRUE
  <2>1. Aged(q)[k] = [q[k] EXCEPT !.old = TRUE] /\ q[k] \in Packets
    BY <1>2, <1>3
  <2> QED
    BY <1>5, <2>1
<1>7. DOMAIN Aged(q) = DOMAIN q
  BY <1>2, <1>3
<1> QED
  BY <1>4, <1>6, <1>7

----------------------------------------------------------------------------
(***************************************************************************)
(* The actions that leave the line alone.                                  *)
(***************************************************************************)
LEMMA InitInv == Init => Inv
<1> SUFFICES ASSUME Init PROVE Inv
  OBVIOUS
<1>1. PICK nonce \in DeviceNonces :
        LET s == Initialize(NewSession, nonce) IN
        /\ sess = [host |-> NewSession, device |-> s]
        /\ wire = [host |-> <<[type |-> "kTerminateSession", id |-> s.id, old |-> TRUE]>>,
                   device |-> <<>>]
        /\ chan = "off"
        /\ resets = 0 /\ connects = 0 /\ retries = 0 /\ early = 0
        /\ stale = TRUE /\ misled = FALSE
  BY DEF Init
<1> DEFINE s == Initialize(NewSession, nonce)
           m == [type |-> "kTerminateSession", id |-> s.id, old |-> TRUE]
<1>2. nonce \in Nonce
  BY NoncesAssumption DEF Nonce
<1>3. s \in Sessions /\ s.state = "kNoSessionEstablished" /\ s.id = NoSession
  BY <1>2, SessionTypes DEF Initialize, TerminateSession, Sessions, States
<1>4. m \in Packets /\ m.type = "kTerminateSession"
  BY <1>3, SessionTypes DEF Packets, Types
<1> HIDE DEF s, m
<1>5. /\ sess["host"] = NewSession /\ sess["device"] = s
      /\ wire["host"] = <<m>> /\ wire["device"] = <<>>
      /\ sess \in [Peer -> Sessions] /\ wire \in [Peer -> Seq(Packets)]
  <2>1. sess = [host |-> NewSession, device |-> s] /\ wire = [host |-> <<m>>, device |-> <<>>]
    BY <1>1 DEF s, m
  <2>2. <<m>> \in Seq(Packets) /\ <<>> \in Seq(Packets) /\ NewSession \in Sessions
    BY <1>4, SessionTypes
  <2>3. sess["host"] = NewSession /\ sess["device"] = s /\ sess \in [Peer -> Sessions]
    BY <1>3, <2>1, <2>2 DEF Peer
  <2>4. wire["host"] = <<m>> /\ wire["device"] = <<>> /\ wire \in [Peer -> Seq(Packets)]
    BY <2>1, <2>2, PeerRecord
  <2> QED
    BY <2>3, <2>4
<1>6. TypeOK
  <2>1. \A n \in Nat : 0 \in 0 .. n
    OBVIOUS
  <2>2. resets \in 0 .. MaxResets /\ connects \in 0 .. MaxConnects
        /\ retries \in 0 .. MaxRetries /\ early \in 0 .. MaxEarlyRetries
    BY <1>1, <2>1, BoundsAssumption
  <2> QED
    BY <1>1, <1>5, <2>2, TypesSuffice
<1>7. DOMAIN wire["host"] = {1} /\ wire["host"][1] = m /\ DOMAIN wire["device"] = {}
  BY <1>5
<1>8. sess["host"].state = "kReset"
  BY <1>5, SessionTypes
<1> QED
  BY <1>1, <1>3, <1>4, <1>5, <1>6, <1>7, <1>8
     DEF Inv, AgeInv, Dated, Bare, RolesInv, HostInv, NeverBackToReset, IsEstablished, StartInv,
         Unanswered, ReplyInv, IsReply, SharedInv, NoStaleDelivery, Peer

\* The timeouts that give up.
LEMMA TimeOutInv == Inv /\ TimeOut => Inv'
<1> SUFFICES ASSUME Inv, TimeOut PROVE Inv'
  OBVIOUS
<1>1. chan' = "failed" /\ chan \in {"connecting", "waiting"}
      /\ UNCHANGED <<sess, wire, resets, connects, retries, early, stale, misled>>
  BY DEF TimeOut
<1> QED
  BY <1>1, ZenonT(60) DEF Inv, TypeOK, AgeInv, Dated, RolesInv, HostInv, NeverBackToReset,
       IsEstablished, StartInv, Unanswered, IsStart, IsReply, ReplyInv, EndFollows, DeviceIn,
       SharedInv, NoStaleDelivery

\* Recv clears the buffer of the host.
LEMMA RecvInv == Inv /\ Recv => Inv'
<1> SUFFICES ASSUME Inv, Recv PROVE Inv'
  OBVIOUS
<1>1. /\ chan = "received" /\ chan' = "idle"
      /\ sess' = [sess EXCEPT !["host"] = ClearReceiveBuffer(@)]
      /\ UNCHANGED <<wire, resets, connects, retries, early, stale, misled>>
  BY DEF Recv
<1> DEFINE s == sess["host"]
           t == ClearReceiveBuffer(s)
<1>2. 0 \in 0 .. BufferPackets
  BY BoundsAssumption
<1>3. s \in Sessions /\ sess \in [Peer -> Sessions] /\ wire \in [Peer -> Seq(Packets)]
  BY Lines DEF Inv
<1>4. /\ t \in Sessions /\ t.state = s.state /\ t.id = s.id
      /\ t.local_nonce = s.local_nonce
  BY <1>2, <1>3 DEF Sessions, ClearReceiveBuffer
<1> HIDE DEF t
<1>5. sess'["host"] = t /\ sess'["device"] = sess["device"] /\ sess' \in [Peer -> Sessions]
  BY <1>1, <1>3, <1>4 DEF Peer, t
<1>6. TypeOK'
  BY <1>1, <1>3, <1>5 DEF Inv, TypeOK, Sessions, Packets
<1>7. ~Deaf("host")
  BY <1>1 DEF Deaf
<1> QED
  BY <1>1, <1>4, <1>5, <1>6, <1>7 DEF Inv, AgeInv, Dated, RolesInv, HostInv,
     NeverBackToReset, IsEstablished, StartInv, Unanswered, IsStart, IsReply, ReplyInv,
     EndFollows, DeviceIn, SharedInv, NoStaleDelivery

----------------------------------------------------------------------------
(***************************************************************************)
(* Send and the log.                                                       *)
(***************************************************************************)
LEMMA SendInv == Inv /\ Send => Inv'
<1> SUFFICES ASSUME Inv, Send PROVE Inv'
  OBVIOUS
<1> DEFINE D == wire["device"]
           s == sess["host"]
           m == Packet("kNormal", s, "host")
<1>1. /\ chan = "idle" /\ IsEstablished("host")
      /\ wire' = [wire EXCEPT !["device"] = Append(@, m)] /\ chan' = "waiting"
      /\ UNCHANGED <<sess, resets, connects, retries, early, stale, misled>>
  BY DEF Send, Inv, HostInv
<1>2. /\ s \in Sessions /\ D \in Seq(Packets) /\ wire \in [Peer -> Seq(Packets)]
      /\ sess \in [Peer -> Sessions]
  BY Lines DEF Inv
<1>3. s.id.initiator = s.local_nonce /\ s.local_nonce # kInvalidNonce
  BY <1>1 DEF Inv, HostInv
<1>4. m \in Packets /\ m.type = "kNormal" /\ m.id = s.id /\ ~m.old /\ m.old \in BOOLEAN
  BY <1>2 DEF Packet, Packets, Sessions, Types
<1> HIDE DEF m
<1>5. Append(D, m) \in Seq(Packets)
  BY <1>2, <1>4
<1>6. /\ wire'["device"] = Append(D, m) /\ wire'["host"] = wire["host"]
      /\ wire' \in [Peer -> Seq(Packets)]
  BY <1>1, <1>2, <1>5 DEF Peer
<1> HIDE DEF D
<1>7. \A k \in DOMAIN wire'["device"] : wire'["device"][k] = m \/
        (k \in DOMAIN D /\ wire'["device"][k] = D[k])
  BY <1>2, <1>4, <1>6, AppendLemma
<1>8. TypeOK'
  BY <1>1, <1>2, <1>6 DEF Inv, TypeOK, Sessions, Packets
<1>9. AgeInv'
  BY <1>1, <1>3, <1>4, <1>6, <1>7 DEF Inv, AgeInv, Dated, IsEstablished, Peer, D
<1>10. RolesInv'
  BY <1>1, <1>4, <1>6, <1>7 DEF Inv, RolesInv, D
<1>11. ~Unanswered'
  <2>1. \A k \in DOMAIN D : D[k].type = "kNormal"
    BY <1>1 DEF Inv, SharedInv, Unanswered, D
  <2> QED
    BY <1>4, <1>6, <1>7, <2>1 DEF Unanswered
<1>12. ReplyInv' /\ HostInv'
  BY <1>1, <1>6 DEF Inv, ReplyInv, HostInv, NeverBackToReset, IsReply, IsEstablished,
       DeviceIn, EndFollows
<1>13. SharedInv'
  BY <1>1, <1>6, <1>11 DEF Inv, SharedInv, IsEstablished, DeviceIn, EndFollows, Deaf
<1> QED
  BY <1>1, <1>8, <1>9, <1>10, <1>11, <1>12, <1>13 DEF Inv, StartInv, NoStaleDelivery

\* What the device sends without a session, at any time: what was on the line
\* stays there, and so do the sessions.
LEMMA DeviceLogInv == Inv /\ DeviceLog => Inv'
<1> SUFFICES ASSUME Inv, DeviceLog PROVE Inv'
  OBVIOUS
<1> DEFINE H == wire["host"]
<1>1. PICK size \in LogSizes :
        wire' = [wire EXCEPT !["host"] =
                   Append(@, Packet(IF size = "shown" THEN "kLog" ELSE "kLongLog",
                                    sess["device"], "device"))]
  BY DEF DeviceLog
<1> DEFINE m == Packet(IF size = "shown" THEN "kLog" ELSE "kLongLog", sess["device"], "device")
<1>2. UNCHANGED <<sess, chan, resets, connects, retries, early, stale, misled>>
  BY DEF DeviceLog
<1>3. /\ sess["device"] \in Sessions /\ H \in Seq(Packets)
      /\ wire \in [Peer -> Seq(Packets)] /\ sess \in [Peer -> Sessions] /\ stale \in BOOLEAN
  BY Lines DEF Inv, TypeOK
<1>4. m \in Packets /\ m.type \in {"kLog", "kLongLog"}
  BY <1>3, SessionTypes DEF Packet, Packets, Types
<1>5. wire' = [wire EXCEPT !["host"] = Append(H, m)]
  BY <1>1
<1> HIDE DEF m
<1>6. Append(H, m) \in Seq(Packets)
  BY <1>3, <1>4
<1>7. /\ wire'["host"] = Append(H, m) /\ wire'["device"] = wire["device"]
      /\ wire' \in [Peer -> Seq(Packets)]
  BY <1>3, <1>5, <1>6 DEF Peer
<1> HIDE DEF H
<1>8. /\ \A k \in DOMAIN wire'["host"] : wire'["host"][k] = m \/
           (k \in DOMAIN H /\ wire'["host"][k] = H[k])
      /\ \A k \in DOMAIN H : k \in DOMAIN wire'["host"] /\ wire'["host"][k] = H[k]
  BY <1>3, <1>4, <1>7, AppendLemma
<1>9. TypeOK'
  BY <1>2, <1>3, <1>7 DEF Inv, TypeOK, Sessions, Packets
<1>10. AgeInv' /\ RolesInv' /\ HostInv'
  <2>1. AgeInv'
    <3>1. \A k \in DOMAIN wire["device"] : Dated(wire["device"][k])'
      BY <1>2, <1>7 DEF Inv, AgeInv, Dated, Peer
    <3>2. \A k \in DOMAIN H : Dated(H[k])
      BY DEF Inv, AgeInv, Peer, H
    <3>3. \A k \in DOMAIN wire'["host"] : Dated(wire["host"][k])'
      BY <1>2, <1>4, <1>8, <3>2 DEF Dated, Bare
    <3> QED
      BY <1>2, <1>7, <3>1, <3>3 DEF Inv, AgeInv, IsEstablished, Peer
  <2>2. RolesInv'
    BY <1>2, <1>4, <1>7, <1>8 DEF Inv, RolesInv, H
  <2> QED
    BY <1>2, <2>1, <2>2 DEF Inv, HostInv, NeverBackToReset, IsEstablished
<1>11. StartInv'
  BY <1>2, <1>4, <1>7, <1>8 DEF Inv, StartInv, Unanswered, IsStart, IsReply, IsEstablished, H
<1>12. \A k : EndFollows(k) => EndFollows(k)'
  BY <1>8 DEF EndFollows, H
<1>13. ReplyInv'
  <2> SUFFICES ASSUME NEW k \in DOMAIN wire'["host"], IsReply(wire'["host"][k])
               PROVE  /\ sess'["host"].state = "kStartSessionSent"
                      /\ \A j \in DOMAIN wire'["host"] :
                           wire'["host"][j].type = "kStartSessionReply" => j <= k
                      /\ DeviceIn(wire["host"][k].id)' \/ EndFollows(k)'
    BY DEF ReplyInv, IsReply
  <2>1. k \in DOMAIN H /\ wire'["host"][k] = H[k] /\ IsReply(H[k])
    BY <1>4, <1>8 DEF IsReply
  <2>2. \A j \in DOMAIN H : H[j].type = "kStartSessionReply" => j <= k
    BY <2>1 DEF Inv, ReplyInv, H
  <2>3. DeviceIn(H[k].id) \/ EndFollows(k)
    BY <2>1 DEF Inv, ReplyInv, H
  <2> QED
    BY <1>2, <1>4, <1>8, <1>12, <2>1, <2>2, <2>3 DEF Inv, ReplyInv, DeviceIn, IsEstablished, H
<1>14. SharedInv'
  BY <1>2, <1>4, <1>7, <1>8, <1>12 DEF Inv, SharedInv, Unanswered, DeviceIn, IsEstablished,
       Deaf, H
<1> QED
  BY <1>2, <1>9, <1>10, <1>11, <1>13, <1>14 DEF Inv, NoStaleDelivery

----------------------------------------------------------------------------
(***************************************************************************)
(* A reset of the device.                                                  *)
(***************************************************************************)
LEMMA SuffixLemma ==
  ASSUME NEW S, NEW q \in Seq(S), NEW n \in 0 .. Len(q), NEW r, r = SubSeq(q, n + 1, Len(q))
  PROVE  /\ r \in Seq(S) /\ Len(r) = Len(q) - n /\ DOMAIN r = 1 .. Len(q) - n
         /\ \A k \in DOMAIN r : k \in Nat /\ k + n \in DOMAIN q /\ r[k] = q[k + n]
OBVIOUS

LEMMA DeviceResetInv == Inv /\ DeviceReset => Inv'
<1> SUFFICES ASSUME Inv, DeviceReset PROVE Inv'
  OBVIOUS
<1> DEFINE H == wire["host"]
           D == wire["device"]
<1>1. PICK nonce \in DeviceNonces, lost \in 0 .. Len(D) :
        /\ sess' = [sess EXCEPT !["device"] = Initialize(NewSession, nonce)]
        /\ wire' = [host |-> Append(H, Packet("kTerminateSession",
                                              Initialize(NewSession, nonce), "device")),
                    device |-> SubSeq(D, lost + 1, Len(D))]
  BY DEF DeviceReset
<1> DEFINE t == Initialize(NewSession, nonce)
           m == Packet("kTerminateSession", t, "device")
           E == SubSeq(D, lost + 1, Len(D))
<1>2. /\ resets < MaxResets /\ resets' = resets + 1
      /\ UNCHANGED <<chan, connects, retries, early, stale, misled>>
  BY DEF DeviceReset
<1>3. /\ H \in Seq(Packets) /\ D \in Seq(Packets) /\ wire \in [Peer -> Seq(Packets)]
      /\ sess \in [Peer -> Sessions] /\ stale \in BOOLEAN
  BY Lines DEF Inv, TypeOK
<1>4. t \in Sessions /\ t.state = "kNoSessionEstablished" /\ t.id = NoSession
  <2>1. nonce \in Nonce
    BY NoncesAssumption DEF Nonce
  <2> QED
    BY <2>1, SessionTypes DEF Initialize, TerminateSession, Sessions, States
<1>5. sess' = [sess EXCEPT !["device"] = t]
  BY <1>1
<1> HIDE DEF t
<1>6. m \in Packets /\ m.type = "kTerminateSession"
  BY <1>3, <1>4, SessionTypes DEF Packet, Packets, Types
<1>7. wire' = [host |-> Append(H, m), device |-> E]
  BY <1>1 DEF t
<1> HIDE DEF m
<1>8. sess' \in [Peer -> Sessions] /\ sess'["device"] = t /\ sess'["host"] = sess["host"]
  BY <1>3, <1>4, <1>5 DEF Peer
<1>9. /\ E \in Seq(Packets) /\ Len(E) = Len(D) - lost
      /\ \A k \in DOMAIN E : k \in Nat /\ k + lost \in DOMAIN D /\ E[k] = D[k + lost]
  BY <1>3, SuffixLemma
<1> HIDE DEF E
<1>10. Append(H, m) \in Seq(Packets)
  BY <1>3, <1>6
<1>11. wire'["host"] = Append(H, m) /\ wire'["device"] = E /\ wire' \in [Peer -> Seq(Packets)]
  <2> DEFINE F == Append(H, m)
  <2>1. F \in Seq(Packets) /\ wire' = [host |-> F, device |-> E]
    BY <1>7, <1>10
  <2> HIDE DEF F
  <2>2. E \in Seq(Packets)
    BY <1>9
  <2>3. wire'["host"] = F /\ wire'["device"] = E /\ wire' \in [Peer -> Seq(Packets)]
    BY <2>1, <2>2, PeerRecord, Zenon
  <2> QED
    BY <2>3 DEF F
<1> HIDE DEF H, D
<1>12. /\ \A k \in DOMAIN wire'["host"] : wire'["host"][k] = m \/
            (k \in DOMAIN H /\ wire'["host"][k] = H[k])
       /\ \A k \in DOMAIN H : k \in DOMAIN wire'["host"] /\ wire'["host"][k] = H[k]
       /\ \A k \in DOMAIN H \cup {0} : EndFollows(k)'
  <2>1. /\ Len(H) + 1 \in DOMAIN Append(H, m) /\ Append(H, m)[Len(H) + 1] = m
        /\ \A k \in DOMAIN H \cup {0} : Len(H) + 1 > k
    BY <1>3, <1>6, AppendLemma
  <2>2. \A k \in DOMAIN H \cup {0} : EndFollows(k)'
    BY <1>6, <1>11, <2>1 DEF EndFollows
  <2> QED
    BY <1>3, <1>6, <1>11, <2>2, AppendLemma
<1>13. TypeOK'
  <2>1. resets' \in 0 .. MaxResets
    BY <1>2, BoundsAssumption DEF Inv, TypeOK
  <2> QED
    BY <1>2, <1>8, <1>11, <2>1 DEF Inv, TypeOK, Sessions, Packets
<1>14. ~IsEstablished("device")'
  BY <1>4, <1>8 DEF IsEstablished
<1>15. AgeInv'
  <2>1. \A k \in DOMAIN D : Dated(D[k])
    BY DEF Inv, AgeInv, Peer, D
  <2>2. \A k \in DOMAIN H : Dated(H[k])
    BY DEF Inv, AgeInv, Peer, H
  <2>3. \A k \in DOMAIN wire'["device"] : Dated(wire["device"][k])'
    BY <1>8, <1>9, <1>11, <2>1 DEF Dated
  <2>4. \A k \in DOMAIN wire'["host"] : Dated(wire["host"][k])'
    BY <1>6, <1>8, <1>12, <2>2 DEF Dated, Bare
  <2> QED
    BY <1>11, <1>14, <2>3, <2>4 DEF AgeInv, Peer
<1>16. RolesInv'
  BY <1>4, <1>6, <1>8, <1>9, <1>11, <1>12 DEF Inv, RolesInv, H, D
<1>17. HostInv'
  BY <1>2, <1>8 DEF Inv, HostInv, NeverBackToReset, IsEstablished
<1>18. Unanswered' => Unanswered
  BY <1>9, <1>11 DEF Unanswered, D
<1>19. StartInv'
  <2> SUFFICES ASSUME Unanswered' PROVE StartInv'
    BY DEF StartInv
  <2>1. /\ \A k \in DOMAIN D : IsStart(D[k]) <=> k = Len(D)
        /\ \A k \in DOMAIN H : ~IsReply(H[k])
        /\ sess["host"].state = "kStartSessionSent"
    BY <1>18 DEF Inv, StartInv, H, D
  <2>2. \A k \in DOMAIN E : IsStart(E[k]) <=> k = Len(E)
    <3>1. Len(D) \in Nat /\ lost \in Nat
      BY <1>3
    <3> QED
      BY <1>9, <2>1, <3>1
  <2>3. \A k \in DOMAIN wire'["host"] : ~IsReply(wire'["host"][k])
    BY <1>6, <1>12, <2>1 DEF IsReply
  <2> QED
    BY <1>8, <1>11, <1>14, <2>1, <2>2, <2>3 DEF StartInv, IsStart, IsReply
<1>20. ReplyInv'
  <2> SUFFICES ASSUME NEW k \in DOMAIN wire'["host"], IsReply(wire'["host"][k])
               PROVE  /\ sess'["host"].state = "kStartSessionSent"
                      /\ \A j \in DOMAIN wire'["host"] :
                           wire'["host"][j].type = "kStartSessionReply" => j <= k
                      /\ EndFollows(k)'
    BY DEF ReplyInv, IsReply
  <2>1. k \in DOMAIN H /\ wire'["host"][k] = H[k] /\ IsReply(H[k])
    BY <1>6, <1>12 DEF IsReply
  <2>2. /\ \A j \in DOMAIN H : H[j].type = "kStartSessionReply" => j <= k
        /\ sess["host"].state = "kStartSessionSent"
    BY <2>1 DEF Inv, ReplyInv, H
  <2> QED
    BY <1>6, <1>8, <1>12, <2>1, <2>2
<1>21. SharedInv'
  BY <1>6, <1>8, <1>12, <1>18 DEF Inv, SharedInv, IsEstablished, H
<1> QED
  BY <1>2, <1>13, <1>15, <1>16, <1>17, <1>19, <1>20, <1>21 DEF Inv, NoStaleDelivery

----------------------------------------------------------------------------
(***************************************************************************)
(* The device reads a packet.                                              *)
(***************************************************************************)
\* What is left on the way to the device, when it has read one packet.
LEMMA DeviceReads ==
  ASSUME Inv, wire["device"] # <<>>, wire'["device"] = Tail(wire["device"])
  PROVE  /\ Unanswered' => /\ Unanswered /\ ~IsStart(Head(wire["device"]))
                           /\ \A k \in DOMAIN wire'["device"] :
                                IsStart(wire'["device"][k]) <=> k = Len(wire'["device"])
         /\ \A k \in DOMAIN wire'["device"] : \E j \in DOMAIN wire["device"] :
              wire'["device"][k] = wire["device"][j]
         /\ Head(wire["device"]) \in Packets /\ Dated(Head(wire["device"]))
         /\ Head(wire["device"]).type \in {"kStartSessionInit", "kTerminateSession", "kNormal"}
         /\ Head(wire["device"]).type # "kNormal" => Unanswered
<1> DEFINE D == wire["device"]
           E == Tail(D)
<1>1. D \in Seq(Packets) /\ D # <<>>
  BY Lines DEF Inv
<1>2. /\ Head(D) \in Packets /\ Head(D) = D[1] /\ 1 \in DOMAIN D
      /\ Len(D) \in Nat /\ Len(E) = Len(D) - 1 /\ DOMAIN E = 1 .. Len(D) - 1
      /\ \A k \in DOMAIN E : E[k] = D[k + 1] /\ k \in Nat /\ k + 1 \in DOMAIN D
  BY <1>1, TailLemma
<1>3. Dated(Head(D)) /\ Head(D).type \in {"kStartSessionInit", "kTerminateSession", "kNormal"}
  BY <1>2 DEF Inv, AgeInv, RolesInv, Peer
<1> HIDE DEF D, E
<1>4. wire["device"] = D /\ wire'["device"] = E
  BY DEF D, E
<1>5. ASSUME Unanswered'
      PROVE  /\ Unanswered /\ ~IsStart(Head(D))
             /\ \A k \in DOMAIN E : IsStart(E[k]) <=> k = Len(E)
  <2>1. PICK k \in DOMAIN E : E[k].type # "kNormal"
    BY <1>4, <1>5 DEF Unanswered
  <2>2. Unanswered
    BY <1>2, <1>4, <2>1 DEF Unanswered
  <2>3. \A j \in DOMAIN D : IsStart(D[j]) <=> j = Len(D)
    BY <1>4, <2>2 DEF Inv, StartInv
  <2>4. Len(D) # 1
    BY <1>2, <2>1
  <2> QED
    BY <1>2, <2>2, <2>3, <2>4
<1>6. Head(D).type # "kNormal" => Unanswered
  BY <1>2, <1>4 DEF Unanswered
<1> QED
  BY <1>2, <1>3, <1>4, <1>5, <1>6

\* The device refuses the packet, or makes nothing of it that it would answer.
LEMMA SilentDevice ==
  ASSUME Inv, wire["device"] # <<>>, wire' = [wire EXCEPT !["device"] = Tail(@)],
         NEW t \in Sessions, sess' = [sess EXCEPT !["device"] = t],
         t.id = sess["device"].id,
         t.state = sess["device"].state \/
           (Head(wire["device"]).type = "kTerminateSession"
             /\ t.state = "kNoSessionEstablished"),
         UNCHANGED <<chan, resets, connects, retries, early, stale, misled>>
  PROVE  Inv'
<1> DEFINE D == wire["device"]
           m == Head(D)
<1>1. wire \in [Peer -> Seq(Packets)] /\ sess \in [Peer -> Sessions] /\ D \in Seq(Packets)
  BY Lines DEF Inv
<1>2. Tail(D) \in Seq(Packets)
  BY <1>1, TailLemma
<1>3. /\ wire' \in [Peer -> Seq(Packets)] /\ wire'["device"] = Tail(D)
      /\ wire'["host"] = wire["host"]
  BY <1>1, <1>2 DEF Peer
<1>4. sess' \in [Peer -> Sessions] /\ sess'["device"] = t /\ sess'["host"] = sess["host"]
  BY <1>1 DEF Peer
<1>5. /\ Unanswered' => /\ Unanswered
                        /\ \A k \in DOMAIN wire'["device"] :
                             IsStart(wire'["device"][k]) <=> k = Len(wire'["device"])
      /\ \A k \in DOMAIN wire'["device"] : \E j \in DOMAIN D : wire'["device"][k] = D[j]
      /\ m.type # "kNormal" => Unanswered
  BY <1>3, DeviceReads
<1> HIDE DEF D, m
<1>6. IsEstablished("device")' => IsEstablished("device")
  BY <1>4 DEF IsEstablished
<1>7. ~Unanswered => \A id : DeviceIn(id) => DeviceIn(id)'
  <2>1. ~Unanswered => t.state = sess["device"].state
    BY <1>5 DEF m, D
  <2> QED
    BY <1>4, <2>1 DEF DeviceIn, IsEstablished
<1>8. TypeOK'
  BY <1>3, <1>4 DEF Inv, TypeOK, Sessions, Packets
<1>9. AgeInv'
  <2>1. \A k \in DOMAIN D : Dated(D[k])
    BY DEF Inv, AgeInv, Peer, D
  <2>2. \A k \in DOMAIN wire'["device"] : Dated(wire["device"][k])'
    BY <1>4, <1>5, <2>1 DEF Dated
  <2>3. \A k \in DOMAIN wire'["host"] : Dated(wire["host"][k])'
    BY <1>3, <1>4 DEF Inv, AgeInv, Dated, Peer
  <2> QED
    BY <1>4, <1>6, <2>2, <2>3 DEF Inv, AgeInv, Peer
<1>10. RolesInv'
  BY <1>3, <1>4, <1>5 DEF Inv, RolesInv, D
<1>11. HostInv'
  BY <1>4 DEF Inv, HostInv, NeverBackToReset, IsEstablished
<1>12. StartInv'
  <2> SUFFICES ASSUME Unanswered' PROVE StartInv'
    BY DEF StartInv
  <2> QED
    BY <1>3, <1>4, <1>5, <1>6 DEF Inv, StartInv, IsStart, IsReply
<1>13. \A k : EndFollows(k)' <=> EndFollows(k)
  BY <1>3 DEF EndFollows
<1>14. ReplyInv'
  <2> SUFFICES ASSUME NEW k \in DOMAIN wire["host"], IsReply(wire["host"][k])
               PROVE  /\ sess["host"].state = "kStartSessionSent"
                      /\ \A j \in DOMAIN wire["host"] :
                           wire["host"][j].type = "kStartSessionReply" => j <= k
                      /\ DeviceIn(wire["host"][k].id)' \/ EndFollows(k)'
    BY <1>3, <1>4 DEF ReplyInv, IsReply
  <2>1. ~Unanswered
    BY DEF Inv, StartInv
  <2> QED
    BY <1>3, <1>7, <1>13, <2>1 DEF Inv, ReplyInv
<1>15. SharedInv'
  <2>1. IsEstablished("host")' <=> IsEstablished("host")
    BY <1>4 DEF IsEstablished
  <2>2. Deaf("host")' <=> Deaf("host")
    BY <1>4 DEF Deaf
  <2> QED
    BY <1>3, <1>4, <1>5, <1>7, <1>13, <2>1, <2>2 DEF Inv, SharedInv
<1> QED
  BY <1>8, <1>9, <1>10, <1>11, <1>12, <1>14, <1>15 DEF Inv, NoStaleDelivery

\* The device answers, in its session or with the session it has just begun.
LEMMA AnsweringDevice ==
  ASSUME Inv, wire["device"] # <<>>, NEW t \in Sessions, NEW x \in Packets, NEW m,
         m = Head(wire["device"]),
         wire' = [device |-> Tail(wire["device"]), host |-> Append(wire["host"], x)],
         sess' = [sess EXCEPT !["device"] = t], t.state = "kSessionEstablished",
         x.id = t.id, x.old = stale', stale' \in BOOLEAN,
         \/ /\ m.type = "kStartSessionInit" /\ t.id.initiator = m.id.initiator
            /\ stale' = m.old /\ x.type = "kStartSessionReply"
         \/ /\ m.type = "kNormal" /\ t.id = sess["device"].id /\ IsEstablished("device")
            /\ stale' = stale /\ x.type = "kNormal",
         misled' = misled, UNCHANGED <<chan, resets, connects, retries, early>>
  PROVE  Inv'
<1> DEFINE D == wire["device"]
           H == wire["host"]
<1>1. /\ wire \in [Peer -> Seq(Packets)] /\ sess \in [Peer -> Sessions]
      /\ D \in Seq(Packets) /\ H \in Seq(Packets)
  BY Lines DEF Inv
<1>2. /\ wire' \in [Peer -> Seq(Packets)] /\ wire'["device"] = Tail(D)
      /\ wire'["host"] = Append(H, x)
  <2> DEFINE E == Tail(D)
             F == Append(H, x)
  <2>1. E \in Seq(Packets) /\ F \in Seq(Packets)
    BY <1>1, TailLemma, AppendLemma
  <2>2. wire' = [device |-> E, host |-> F]
    OBVIOUS
  <2> HIDE DEF E, F, D, H
  <2>3. wire'["host"] = F /\ wire'["device"] = E /\ wire' \in [Peer -> Seq(Packets)]
    <3>1. [device |-> E, host |-> F] \in [Peer -> Seq(Packets)]
      BY <2>1, PeerRecord, Zenon
    <3>2. [device |-> E, host |-> F]["host"] = F /\ [device |-> E, host |-> F]["device"] = E
      OBVIOUS
    <3> QED
      BY <2>2, <3>1, <3>2
  <2> QED
    BY <2>3 DEF E, F
<1>3. sess' \in [Peer -> Sessions] /\ sess'["device"] = t /\ sess'["host"] = sess["host"]
  BY <1>1 DEF Peer
<1>4. /\ Unanswered' => /\ Unanswered /\ ~IsStart(m)
                        /\ \A k \in DOMAIN wire'["device"] :
                             IsStart(wire'["device"][k]) <=> k = Len(wire'["device"])
      /\ \A k \in DOMAIN wire'["device"] : \E j \in DOMAIN D : wire'["device"][k] = D[j]
      /\ m.type # "kNormal" => Unanswered
      /\ m \in Packets /\ Dated(m)
  BY <1>2, DeviceReads
<1> HIDE DEF D, H
<1>5. /\ \A k \in DOMAIN wire'["host"] : (k = Len(H) + 1 /\ wire'["host"][k] = x) \/
           (k \in DOMAIN H /\ wire'["host"][k] = H[k])
      /\ \A k \in DOMAIN H : k \in DOMAIN wire'["host"] /\ wire'["host"][k] = H[k]
      /\ \A k \in DOMAIN wire'["host"] : k <= Len(H) + 1
  BY <1>1, <1>2, AppendLemma
<1>6. TypeOK'
  BY <1>2, <1>3 DEF Inv, TypeOK, Sessions, Packets
<1>7. IsEstablished("device")' /\ (IsEstablished("host")' <=> IsEstablished("host"))
  BY <1>3 DEF IsEstablished
<1>8. /\ t.id.initiator # kInvalidNonce
      /\ stale' <=> t.id.initiator # sess["host"].local_nonce
  BY <1>4 DEF Inv, AgeInv, Dated, Bare
<1>9. AgeInv'
  <2>1. \A k \in DOMAIN D : Dated(D[k])
    BY DEF Inv, AgeInv, Peer, D
  <2>2. \A k \in DOMAIN wire'["device"] : Dated(wire["device"][k])'
    BY <1>3, <1>4, <2>1 DEF Dated
  <2>3. \A k \in DOMAIN H : Dated(H[k])
    BY DEF Inv, AgeInv, Peer, H
  <2>4. \A k \in DOMAIN wire'["host"] : Dated(wire["host"][k])'
    BY <1>3, <1>5, <1>8, <2>3 DEF Dated
  <2> QED
    BY <1>3, <1>8, <2>2, <2>4 DEF AgeInv, Peer
<1>10. RolesInv'
  <2>1. \A k \in DOMAIN H : H[k].type # "kStartSessionInit"
    BY DEF Inv, RolesInv, H
  <2>2. \A k \in DOMAIN wire'["host"] : wire'["host"][k].type # "kStartSessionInit"
    BY <1>5, <2>1
  <2> QED
    BY <1>3, <1>4, <2>2 DEF Inv, RolesInv, D
<1>11. HostInv'
  BY <1>3 DEF Inv, HostInv, NeverBackToReset, IsEstablished
<1>12. StartInv'
  <2> SUFFICES ASSUME Unanswered' PROVE StartInv'
    BY DEF StartInv
  <2>1. /\ \A k \in DOMAIN H : ~IsReply(H[k])
        /\ sess["host"].state = "kStartSessionSent" /\ (IsEstablished("device") => stale)
    BY <1>4 DEF Inv, StartInv, H
  <2>2. stale' /\ ~IsReply(x)
    BY <1>4, <2>1 DEF IsStart, IsReply
  <2>3. \A k \in DOMAIN wire'["host"] : ~IsReply(wire'["host"][k])
    BY <1>5, <2>1, <2>2
  <2> QED
    BY <1>3, <1>4, <2>1, <2>2, <2>3 DEF StartInv, IsStart, IsReply
<1>13. \A k : EndFollows(k) => EndFollows(k)'
  BY <1>5 DEF EndFollows, H
<1>14. ReplyInv'
  <2> SUFFICES ASSUME NEW k \in DOMAIN wire'["host"], IsReply(wire'["host"][k])
               PROVE  /\ sess'["host"].state = "kStartSessionSent"
                      /\ \A j \in DOMAIN wire'["host"] :
                           wire'["host"][j].type = "kStartSessionReply" => j <= k
                      /\ DeviceIn(wire["host"][k].id)' \/ EndFollows(k)'
    BY DEF ReplyInv, IsReply
  <2>1. CASE k \in DOMAIN H /\ wire'["host"][k] = H[k]
    <3>1. IsReply(H[k])
      BY <2>1
    <3>2. ~Unanswered
      BY <2>1, <3>1 DEF Inv, StartInv, H
    <3>3. m.type = "kNormal"
      BY <1>4, <3>2
    <3>4. /\ \A j \in DOMAIN H : H[j].type = "kStartSessionReply" => j <= k
          /\ sess["host"].state = "kStartSessionSent"
          /\ DeviceIn(H[k].id) \/ EndFollows(k)
      BY <2>1, <3>1 DEF Inv, ReplyInv, H
    <3>5. \A id : DeviceIn(id) => DeviceIn(id)'
      BY <1>3, <1>7, <3>3 DEF DeviceIn
    <3>6. DeviceIn(wire["host"][k].id)' \/ EndFollows(k)'
      BY <1>13, <2>1, <3>4, <3>5
    <3>7. \A j \in DOMAIN wire'["host"] : wire'["host"][j].type = "kStartSessionReply" => j <= k
      BY <1>5, <3>3, <3>4
    <3> QED
      BY <1>3, <3>4, <3>6, <3>7
  <2>2. CASE k = Len(H) + 1 /\ wire'["host"][k] = x
    <3>1. m.type = "kStartSessionInit" /\ Unanswered
      BY <1>4, <2>2 DEF IsReply
    <3>2. sess["host"].state = "kStartSessionSent"
      BY <3>1 DEF Inv, StartInv
    <3>3. DeviceIn(wire["host"][k].id)'
      BY <1>3, <1>7, <2>2 DEF DeviceIn
    <3> QED
      BY <1>3, <1>5, <2>2, <3>2, <3>3
  <2> QED
    BY <1>5, <2>1, <2>2
<1>15. SharedInv'
  <2> SUFFICES ASSUME IsEstablished("host") PROVE SharedInv'
    BY <1>7 DEF SharedInv
  <2>1. /\ ~Unanswered /\ \A k \in DOMAIN H : H[k].type # "kStartSessionReply"
        /\ chan \in {"idle", "waiting", "received"} =>
             DeviceIn(sess["host"].id) \/ EndFollows(0) \/ Deaf("host")
    BY DEF Inv, SharedInv, H
  <2>2. m.type = "kNormal"
    BY <1>4, <2>1
  <2>3. DeviceIn(sess["host"].id) => DeviceIn(sess["host"].id)'
    BY <1>3, <1>7, <2>2 DEF DeviceIn
  <2>4. Deaf("host")' <=> Deaf("host")
    BY <1>3 DEF Deaf
  <2>5. \A k \in DOMAIN wire'["host"] : wire'["host"][k].type # "kStartSessionReply"
    BY <1>5, <2>1, <2>2
  <2> QED
    BY <1>3, <1>4, <1>13, <2>1, <2>3, <2>4, <2>5 DEF SharedInv
<1> QED
  BY <1>6, <1>9, <1>10, <1>11, <1>12, <1>14, <1>15 DEF Inv, NoStaleDelivery

\* The device reads a packet; one of an older session reaches no callback.
LEMMA DeviceReceiveInv == Inv /\ DeviceReceive => Inv'
<1> SUFFICES ASSUME Inv, DeviceReceive PROVE Inv'
  OBVIOUS
<1> DEFINE D == wire["device"]
           H == wire["host"]
           s == sess["device"]
           m == Head(D)
           e == Answer(PacketDone(s, "device", m))
<1>1. D # <<>> /\ UNCHANGED <<chan, resets, connects, retries, early>>
  BY DEF DeviceReceive
<1>2. /\ wire \in [Peer -> Seq(Packets)] /\ sess \in [Peer -> Sessions] /\ s \in Sessions
      /\ H \in Seq(Packets) /\ D \in Seq(Packets) /\ stale \in BOOLEAN /\ misled \in BOOLEAN
  BY Lines DEF Inv, TypeOK
<1>3. m \in Packets /\ m = D[1] /\ 1 \in DOMAIN D
  BY <1>1, <1>2, TailLemma
<1>4. Dated(m) /\ m.type \in {"kStartSessionInit", "kTerminateSession", "kNormal"}
  BY <1>3 DEF Inv, AgeInv, RolesInv, Peer
<1>5. CASE Refuses(s)
  <2>1. wire' = [wire EXCEPT !["device"] = Tail(@)] /\ UNCHANGED <<sess, stale, misled>>
    BY <1>5 DEF DeviceReceive
  <2>2. sess' = [sess EXCEPT !["device"] = s]
    BY <1>2, <2>1
  <2> HIDE DEF e
  <2> QED
    BY <1>1, <1>2, <2>1, <2>2, SilentDevice
<1>6. CASE ~Refuses(s)
  <2>1. /\ sess' = [sess EXCEPT !["device"] = e.s]
        /\ wire' = [device |-> Tail(D), host |-> H \o e.sent]
        /\ stale' = IF e.event = "established" THEN m.old ELSE stale
        /\ misled' = (misled \/ (e.event = "normal" /\ m.old # stale))
    BY <1>6 DEF DeviceReceive
  <2> HIDE DEF e
  <2>2. m.type = "kStartSessionInit" => m.id.initiator # kInvalidNonce
    BY <1>4 DEF Dated, Bare
  <2>3. e = Answer(PacketDone(s, "device", m)) /\ TypeOK /\ RolesInv
    BY DEF e, Inv
  <2> HIDE DEF s, m, D, H
  <2>4. sess["device"] = s /\ wire["device"] = D /\ wire["host"] = H /\ Head(D) = m
    BY DEF s, D, H, m
  <2>5. /\ e.s \in Sessions /\ e.s.state \in {"kNoSessionEstablished", "kSessionEstablished"}
        /\ \/ /\ m.type = "kStartSessionInit" /\ e.event = "established"
              /\ e.s.state = "kSessionEstablished" /\ e.s.id.initiator = m.id.initiator
              /\ e.sent = <<[type |-> "kStartSessionReply", id |-> e.s.id, old |-> m.old]>>
           \/ /\ m.type # "kStartSessionInit" /\ e.event \in {"none", "terminated"}
              /\ e.sent = <<>> /\ e.s.id = s.id
              /\ e.s.state = s.state \/ (m.type = "kTerminateSession"
                                          /\ e.s.state = "kNoSessionEstablished")
           \/ /\ m.type = "kNormal" /\ e.event = "normal" /\ m.id = s.id
              /\ s.state = "kSessionEstablished" /\ e.s.state = s.state /\ e.s.id = s.id
              /\ e.sent = <<[type |-> "kNormal", id |-> s.id, old |-> stale]>>
    BY <1>3, <1>4, <1>6, <2>2, <2>3, <2>4, DeviceEffect
  <2>6. CASE /\ m.type = "kStartSessionInit" /\ e.event = "established"
             /\ e.s.state = "kSessionEstablished" /\ e.s.id.initiator = m.id.initiator
             /\ e.sent = <<[type |-> "kStartSessionReply", id |-> e.s.id, old |-> m.old]>>
    <3> DEFINE x == [type |-> "kStartSessionReply", id |-> e.s.id, old |-> m.old]
    <3>1. m.old \in BOOLEAN /\ e.s.id \in Ids
      BY <1>3, <2>5 DEF Packets, Sessions
    <3>2. /\ x \in Packets /\ x.id = e.s.id /\ x.old = m.old /\ x.type = "kStartSessionReply"
      BY <3>1 DEF Packets, Types
    <3>3. e.sent = <<x>>
      BY <2>6
    <3> HIDE DEF x
    <3>4. wire' = [device |-> Tail(D), host |-> Append(H, x)]
      <4>1. H \o <<x>> = Append(H, x)
        BY <1>2, <3>2, AppendLemma
      <4> QED
        BY <2>1, <3>3, <4>1
    <3>5. stale' = m.old /\ misled' = misled
      BY <1>2, <2>1, <2>6
    <3> QED
      BY <1>1, <2>1, <2>4, <2>5, <2>6, <3>1, <3>2, <3>4, <3>5, AnsweringDevice
  <2>7. CASE /\ m.type # "kStartSessionInit" /\ e.event \in {"none", "terminated"}
             /\ e.sent = <<>> /\ e.s.id = s.id
             /\ e.s.state = s.state \/ (m.type = "kTerminateSession"
                                         /\ e.s.state = "kNoSessionEstablished")
    <3>1. wire' = [wire EXCEPT !["device"] = Tail(D)]
      <4>1. H \o <<>> = H
        BY <1>2
      <4>2. wire' = [device |-> Tail(D), host |-> H]
        BY <2>1, <2>7, <4>1
      <4>3. Tail(D) \in Seq(Packets)
        BY <1>1, <1>2, TailLemma
      <4>4. wire' \in [Peer -> Seq(Packets)] /\ wire'["host"] = H /\ wire'["device"] = Tail(D)
        BY <1>2, <4>2, <4>3, PeerRecord, Zenon
      <4> QED
        BY <1>2, <2>4, <4>4 DEF Peer
    <3>2. stale' = stale /\ misled' = misled
      BY <1>2, <2>1, <2>7
    <3> QED
      BY <1>1, <2>1, <2>4, <2>5, <2>7, <3>1, <3>2, SilentDevice
  <2>8. CASE /\ m.type = "kNormal" /\ e.event = "normal" /\ m.id = s.id
             /\ s.state = "kSessionEstablished" /\ e.s.state = s.state /\ e.s.id = s.id
             /\ e.sent = <<[type |-> "kNormal", id |-> s.id, old |-> stale]>>
    <3> DEFINE x == [type |-> "kNormal", id |-> s.id, old |-> stale]
    <3>1. s.id \in Ids
      BY <1>2 DEF Sessions
    <3>2. x \in Packets /\ x.id = e.s.id /\ x.old = stale /\ x.type = "kNormal"
      BY <1>2, <2>8, <3>1 DEF Packets, Types
    <3>3. e.sent = <<x>>
      BY <2>8
    <3> HIDE DEF x
    <3>4. wire' = [device |-> Tail(D), host |-> Append(H, x)]
      <4>1. H \o <<x>> = Append(H, x)
        BY <1>2, <3>2, AppendLemma
      <4> QED
        BY <2>1, <3>3, <4>1
    <3>5. IsEstablished("device")
      BY <2>4, <2>8 DEF IsEstablished
    <3>6. m.old = stale
      <4>1. /\ m.old <=> m.id.initiator # sess["host"].local_nonce
            /\ stale <=> s.id.initiator # sess["host"].local_nonce
        BY <1>4, <2>4, <2>8, <3>5 DEF Dated, Bare, Inv, AgeInv
      <4>2. m.old \in BOOLEAN
        BY <1>3 DEF Packets
      <4> QED
        BY <1>2, <2>8, <4>1, <4>2
    <3>7. stale' = stale /\ misled' = misled
      BY <1>2, <2>1, <2>8, <3>6
    <3> QED
      BY <1>1, <1>2, <2>1, <2>4, <2>5, <2>8, <3>2, <3>4, <3>5, <3>7, AnsweringDevice
  <2> QED
    BY <2>5, <2>6, <2>7, <2>8
<1> QED
  BY <1>5, <1>6

----------------------------------------------------------------------------
(***************************************************************************)
(* The host reads a packet.                                                *)
(***************************************************************************)
\* The host has read a packet: the rest, and what the invariant says of it.
LEMMA HostReads ==
  ASSUME Inv, wire["host"] # <<>>, wire'["host"] = Tail(wire["host"]), NEW m,
         m = Head(wire["host"])
  PROVE  /\ m \in Packets /\ Dated(m) /\ m.type # "kStartSessionInit"
         /\ m = wire["host"][1] /\ 1 \in DOMAIN wire["host"]
         /\ \A k \in DOMAIN wire'["host"] :
              /\ wire'["host"][k] = wire["host"][k + 1] /\ k + 1 \in DOMAIN wire["host"]
              /\ k \in Nat \ {0}
         /\ \A k \in DOMAIN wire'["host"] \cup {0} : EndFollows(k + 1) => EndFollows(k)'
         /\ m.type # "kTerminateSession" => (EndFollows(0) => EndFollows(0)')
<1> DEFINE H == wire["host"]
<1>1. H \in Seq(Packets) /\ H # <<>>
  BY Lines DEF Inv
<1>2. /\ m \in Packets /\ m = H[1] /\ 1 \in DOMAIN H
      /\ \A k \in DOMAIN Tail(H) : Tail(H)[k] = H[k + 1] /\ k \in Nat \ {0} /\ k + 1 \in DOMAIN H
      /\ \A k \in DOMAIN H : k = 1 \/ (k - 1 \in DOMAIN Tail(H) /\ Tail(H)[k - 1] = H[k]
                                       /\ k \in Nat)
  BY <1>1, TailLemma
<1>3. Dated(m) /\ m.type # "kStartSessionInit"
  BY <1>2 DEF Inv, AgeInv, RolesInv, Peer
<1> HIDE DEF H
<1>4. wire["host"] = H /\ wire'["host"] = Tail(H)
  BY DEF H
<1>5. ASSUME NEW k \in DOMAIN Tail(H) \cup {0}, EndFollows(k + 1) PROVE EndFollows(k)'
  <2>1. PICK j \in DOMAIN H : j > k + 1 /\ H[j].type = "kTerminateSession"
    BY <1>4, <1>5 DEF EndFollows
  <2>2. k \in Nat
    BY <1>2
  <2>3. j \in Int /\ j # 1
    BY <1>1, <2>1, <2>2
  <2>4. j - 1 \in DOMAIN Tail(H) /\ Tail(H)[j - 1] = H[j]
    BY <1>2, <2>3
  <2> QED
    BY <1>4, <2>1, <2>2, <2>3, <2>4 DEF EndFollows
<1>6. ASSUME m.type # "kTerminateSession", EndFollows(0) PROVE EndFollows(0)'
  <2>1. PICK j \in DOMAIN H : j > 0 /\ H[j].type = "kTerminateSession"
    BY <1>4, <1>6 DEF EndFollows
  <2>2. j # 1 /\ j \in Int
    BY <1>1, <1>2, <1>6, <2>1
  <2>3. j - 1 \in DOMAIN Tail(H) /\ Tail(H)[j - 1] = H[j]
    BY <1>2, <2>2
  <2> QED
    BY <1>4, <2>1, <2>2, <2>3 DEF EndFollows
<1> QED
  BY <1>2, <1>3, <1>4, <1>5, <1>6

\* What a step of the host has to show that takes a packet and sends nothing.
LEMMA HostStep ==
  ASSUME Inv, wire["host"] # <<>>,
         wire' = [wire EXCEPT !["host"] = Tail(@)],
         NEW t \in Sessions, sess' = [sess EXCEPT !["host"] = t],
         t.local_nonce = sess["host"].local_nonce,
         chan' \in {"off", "connecting", "idle", "waiting", "received", "failed"},
         misled' = misled, UNCHANGED <<resets, connects, retries, early, stale>>,
         HostInv',
         sess["host"].state = "kStartSessionSent" =>
           \/ t.state = "kStartSessionSent"
           \/ /\ t.state = "kSessionEstablished" /\ t.id = Head(wire["host"]).id
              /\ IsReply(Head(wire["host"])) /\ chan' = "idle",
         t.state = "kSessionEstablished" /\ sess["host"].state # "kStartSessionSent" =>
           /\ sess["host"].state = "kSessionEstablished" /\ t.id = sess["host"].id
           /\ chan' \in {"idle", "waiting", "received"} =>
                \/ Deaf("host")'
                \/ /\ chan \in {"idle", "waiting", "received"} /\ ~Deaf("host")
                   /\ Head(wire["host"]).type # "kTerminateSession"
  PROVE  Inv'
<1> DEFINE H == wire["host"]
           m == Head(H)
<1>1. wire \in [Peer -> Seq(Packets)] /\ sess \in [Peer -> Sessions] /\ H \in Seq(Packets)
  BY Lines DEF Inv
<1>2. Tail(H) \in Seq(Packets)
  BY <1>1, TailLemma
<1>3. /\ wire' \in [Peer -> Seq(Packets)] /\ wire'["host"] = Tail(H)
      /\ wire'["device"] = wire["device"]
  BY <1>1, <1>2 DEF Peer
<1>4. sess' \in [Peer -> Sessions] /\ sess'["host"] = t /\ sess'["device"] = sess["device"]
  BY <1>1 DEF Peer
<1>5. /\ m \in Packets /\ Dated(m) /\ m.type # "kStartSessionInit"
      /\ m = H[1] /\ 1 \in DOMAIN H
      /\ \A k \in DOMAIN wire'["host"] :
           wire'["host"][k] = H[k + 1] /\ k + 1 \in DOMAIN H /\ k \in Nat \ {0}
      /\ \A k \in DOMAIN wire'["host"] \cup {0} : EndFollows(k + 1) => EndFollows(k)'
      /\ m.type # "kTerminateSession" => (EndFollows(0) => EndFollows(0)')
  BY <1>3, HostReads
<1> HIDE DEF H, m
<1>6. wire["host"] = H /\ Head(wire["host"]) = m
  BY DEF H, m
<1>7. TypeOK'
  BY <1>3, <1>4 DEF Inv, TypeOK, Sessions, Packets
<1>8. /\ Unanswered' <=> Unanswered
      /\ \A id : DeviceIn(id)' <=> DeviceIn(id)
      /\ IsEstablished("device")' <=> IsEstablished("device")
  BY <1>3, <1>4 DEF Unanswered, DeviceIn, IsEstablished
<1>9. AgeInv'
  <2>1. \A k \in DOMAIN wire'["device"] : Dated(wire["device"][k])'
    BY <1>3, <1>4 DEF Inv, AgeInv, Dated, Peer
  <2>2. \A k \in DOMAIN H : Dated(H[k])
    BY DEF Inv, AgeInv, Peer, H
  <2>3. \A k \in DOMAIN wire'["host"] : Dated(wire["host"][k])'
    BY <1>4, <1>5, <2>2 DEF Dated
  <2> QED
    BY <1>4, <1>8, <2>1, <2>3 DEF Inv, AgeInv, Peer
<1>10. RolesInv'
  <2>1. \A k \in DOMAIN wire'["host"] : wire'["host"][k].type # "kStartSessionInit"
    <3>1. \A k \in DOMAIN H : H[k].type # "kStartSessionInit"
      BY DEF Inv, RolesInv, H
    <3> QED
      BY <1>5, <3>1
  <2> QED
    BY <1>3, <1>4, <2>1 DEF Inv, RolesInv
<1>11. StartInv'
  <2> SUFFICES ASSUME Unanswered PROVE StartInv'
    BY <1>8 DEF StartInv
  <2>1. /\ \A k \in DOMAIN wire["device"] :
             IsStart(wire["device"][k]) <=> k = Len(wire["device"])
        /\ \A k \in DOMAIN H : ~IsReply(H[k])
        /\ sess["host"].state = "kStartSessionSent"
        /\ IsEstablished("device") => stale
    BY <1>6 DEF Inv, StartInv
  <2>2. ~IsReply(m)
    BY <1>5, <2>1
  <2>3. t.state = "kStartSessionSent"
    BY <1>6, <2>1, <2>2
  <2>4. \A k \in DOMAIN wire'["host"] : ~IsReply(wire'["host"][k])
    BY <1>5, <2>1
  <2> QED
    BY <1>3, <1>4, <1>8, <2>1, <2>3, <2>4 DEF StartInv, IsStart, IsReply
<1>12. ASSUME NEW k \in DOMAIN H, IsReply(H[k])
       PROVE  /\ sess["host"].state = "kStartSessionSent" /\ ~Unanswered
              /\ \A j \in DOMAIN H : H[j].type = "kStartSessionReply" => j <= k
              /\ DeviceIn(H[k].id) \/ EndFollows(k)
  BY <1>6, <1>12 DEF Inv, ReplyInv, StartInv
<1>13. ReplyInv'
  <2> SUFFICES ASSUME NEW k \in DOMAIN wire'["host"], IsReply(wire'["host"][k])
               PROVE  /\ t.state = "kStartSessionSent"
                      /\ \A j \in DOMAIN wire'["host"] :
                           wire'["host"][j].type = "kStartSessionReply" => j <= k
                      /\ DeviceIn(wire["host"][k].id)' \/ EndFollows(k)'
    BY <1>4 DEF ReplyInv, IsReply
  <2>1. k \in Nat \ {0} /\ k + 1 \in DOMAIN H /\ wire'["host"][k] = H[k + 1]
    BY <1>5
  <2>2. /\ sess["host"].state = "kStartSessionSent"
        /\ \A j \in DOMAIN H : H[j].type = "kStartSessionReply" => j <= k + 1
        /\ DeviceIn(H[k + 1].id) \/ EndFollows(k + 1)
    BY <1>12, <2>1
  <2>3. ~IsReply(m)
    <3>1. ASSUME IsReply(m) PROVE k + 1 <= 1
      <4>1. H[k + 1].type = "kStartSessionReply"
        BY <2>1 DEF IsReply
      <4> QED
        BY <1>5, <1>12, <2>1, <3>1, <4>1
    <3> QED
      BY <2>1, <3>1
  <2>4. \A j \in DOMAIN wire'["host"] : wire'["host"][j].type = "kStartSessionReply" => j <= k
    BY <1>5, <2>1, <2>2
  <2>5. DeviceIn(wire["host"][k].id)' \/ EndFollows(k)'
    BY <1>5, <1>8, <2>1, <2>2
  <2> QED
    BY <1>6, <2>2, <2>3, <2>4, <2>5
<1>14. SharedInv'
  <2> SUFFICES ASSUME t.state = "kSessionEstablished"
               PROVE  /\ ~Unanswered'
                      /\ \A k \in DOMAIN wire'["host"] :
                           wire'["host"][k].type # "kStartSessionReply"
                      /\ chan' \in {"idle", "waiting", "received"} =>
                           DeviceIn(t.id)' \/ EndFollows(0)' \/ Deaf("host")'
    BY <1>4 DEF SharedInv, IsEstablished, DeviceIn
  <2>1. CASE sess["host"].state = "kStartSessionSent"
    <3>1. t.id = m.id /\ IsReply(m) /\ chan' = "idle"
      BY <1>6, <2>1
    <3>2. /\ ~Unanswered /\ \A j \in DOMAIN H : H[j].type = "kStartSessionReply" => j <= 1
          /\ DeviceIn(m.id) \/ EndFollows(1)
      BY <1>5, <1>12, <3>1
    <3>3. \A k \in DOMAIN wire'["host"] : wire'["host"][k].type # "kStartSessionReply"
      <4> SUFFICES ASSUME NEW k \in DOMAIN wire'["host"],
                          wire'["host"][k].type = "kStartSessionReply"
                   PROVE  FALSE
        OBVIOUS
      <4>1. k \in Nat \ {0} /\ k + 1 <= 1
        BY <1>5, <3>2
      <4> QED
        BY <4>1
    <3>4. EndFollows(1) => EndFollows(0)'
      <4>1. 0 + 1 = 1
        OBVIOUS
      <4> QED
        BY <1>5, <4>1
    <3> QED
      BY <1>8, <3>1, <3>2, <3>3, <3>4
  <2>2. CASE sess["host"].state # "kStartSessionSent"
    <3>1. IsEstablished("host") /\ t.id = sess["host"].id
      BY <2>2 DEF IsEstablished
    <3>2. /\ ~Unanswered /\ \A k \in DOMAIN H : H[k].type # "kStartSessionReply"
          /\ chan \in {"idle", "waiting", "received"} =>
               DeviceIn(t.id) \/ EndFollows(0) \/ Deaf("host")
      BY <1>6, <3>1 DEF Inv, SharedInv
    <3>3. chan' \in {"idle", "waiting", "received"} =>
            DeviceIn(t.id)' \/ EndFollows(0)' \/ Deaf("host")'
      BY <1>5, <1>6, <1>8, <2>2, <3>2
    <3> QED
      BY <1>5, <1>8, <3>2, <3>3
  <2> QED
    BY <2>1, <2>2
<1> QED
  BY <1>7, <1>9, <1>10, <1>11, <1>13, <1>14 DEF Inv, NoStaleDelivery

\* The host reads a packet; a reply to an abandoned start changes nothing, and
\* no packet of an older session reaches Recv.
LEMMA HostReceiveInv == Inv /\ HostReceive => Inv'
<1> SUFFICES ASSUME Inv, HostReceive PROVE Inv'
  OBVIOUS
<1> DEFINE D == wire["device"]
           H == wire["host"]
           s == sess["host"]
           m == Head(H)
           e == PacketDone(s, "host", m)
<1>1. /\ chan \in {"connecting", "waiting"} /\ H # <<>>
      /\ UNCHANGED <<resets, connects, retries, early, stale>>
  BY DEF HostReceive
<1>2. /\ wire \in [Peer -> Seq(Packets)] /\ sess \in [Peer -> Sessions] /\ s \in Sessions
      /\ H \in Seq(Packets) /\ D \in Seq(Packets) /\ stale \in BOOLEAN /\ misled \in BOOLEAN
  BY Lines DEF Inv, TypeOK
<1>3. m \in Packets /\ m = H[1] /\ 1 \in DOMAIN H
  BY <1>1, <1>2, TailLemma
<1>4. Dated(m) /\ m.type # "kStartSessionInit" /\ m.old \in BOOLEAN
  BY <1>3 DEF Inv, AgeInv, RolesInv, Peer, Packets
<1>5. /\ chan = "connecting" => s.state = "kStartSessionSent"
      /\ chan = "waiting" => s.state = "kSessionEstablished"
      /\ s.local_nonce # kInvalidNonce
      /\ s.state = "kSessionEstablished" => s.id.initiator = s.local_nonce
  BY <1>1 DEF Inv, HostInv, IsEstablished
<1>6. CASE Refuses(s)
  <2>1. wire' = [wire EXCEPT !["host"] = Tail(@)] /\ UNCHANGED <<sess, chan, misled>>
    BY <1>6 DEF HostReceive
  <2> HIDE DEF e
  <2>2. sess' = [sess EXCEPT !["host"] = s]
    BY <1>2, <2>1
  <2>3. Deaf("host")'
    BY <1>1, <1>6, <2>1 DEF Deaf
  <2>4. HostInv'
    BY <2>1 DEF Inv, HostInv, NeverBackToReset, IsEstablished
  <2>5. chan' \in {"off", "connecting", "idle", "waiting", "received", "failed"}
    BY <1>1, <2>1
  <2>6. s.state = "kSessionEstablished" /\ s.state # "kStartSessionSent" =>
          s.state = "kSessionEstablished" /\ s.id = s.id
    OBVIOUS
  <2> QED
    BY <1>1, <1>2, <2>1, <2>2, <2>3, <2>4, <2>5, <2>6, HostStep
<1>7. CASE ~Refuses(s)
  <2>1. /\ sess' = [sess EXCEPT !["host"] = e.s]
        /\ wire' = [host |-> Tail(H), device |-> D \o e.sent]
        /\ chan' = Resume(e.event, e.s)
        /\ misled' = (misled \/ (e.event = "normal" /\ m.old))
    BY <1>7 DEF HostReceive
  <2> HIDE DEF e
  <2>2. e = PacketDone(s, "host", m) /\ TypeOK
    BY DEF e, Inv
  <2>3. ~Deaf("host")
    BY <1>7 DEF Deaf
  <2>4. s.state = "kSessionEstablished" => m.type # "kStartSessionReply"
    BY <1>3 DEF Inv, SharedInv, IsEstablished
  <2> HIDE DEF s, m, D, H
  <2>5. sess["host"] = s /\ wire["device"] = D /\ wire["host"] = H /\ Head(H) = m
    BY DEF s, D, H, m
  <2>6. /\ e.s \in Sessions /\ e.s.local_nonce = s.local_nonce /\ e.sent = <<>>
        /\ \/ /\ m.type = "kStartSessionReply" /\ m.id.initiator = s.local_nonce
              /\ s.state = "kStartSessionSent" /\ e.s.state = "kSessionEstablished"
              /\ e.event = "established" /\ e.s.id = m.id
           \/ m.type = "kStartSessionReply" /\ s.state = "kSessionEstablished"
           \/ /\ m.type = "kTerminateSession" /\ e.event = "terminated"
              /\ s.state = "kSessionEstablished" /\ e.s.state = "kNoSessionEstablished"
           \/ /\ m.type = "kNormal" /\ e.event = "normal" /\ m.id = s.id
              /\ s.state = "kSessionEstablished" /\ e.s.state = s.state /\ e.s.id = s.id
           \/ /\ e.event \in {"none", "log"} /\ e.s.state = s.state /\ e.s.id = s.id
              /\ m.type = "kTerminateSession" => s.state # "kSessionEstablished"
              /\ m.type = "kStartSessionReply" => s.state # "kSessionEstablished"
    BY <1>3, <1>4, <1>7, <2>2, <2>5, HostEffect
  <2>7. wire' = [wire EXCEPT !["host"] = Tail(H)]
    <3>1. D \o <<>> = D
      BY <1>2
    <3>2. wire' = [host |-> Tail(H), device |-> D]
      BY <2>1, <2>6, <3>1
    <3>3. Tail(H) \in Seq(Packets)
      BY <1>1, <1>2, TailLemma
    <3>4. wire' \in [Peer -> Seq(Packets)] /\ wire'["host"] = Tail(H) /\ wire'["device"] = D
      BY <1>2, <3>2, <3>3, PeerRecord, Zenon
    <3> QED
      BY <1>2, <2>5, <3>4 DEF Peer
  <2>8. sess'["host"] = e.s
    BY <1>2, <2>1 DEF Peer
  <2>9. CASE /\ m.type = "kStartSessionReply" /\ m.id.initiator = s.local_nonce
             /\ s.state = "kStartSessionSent" /\ e.s.state = "kSessionEstablished"
             /\ e.event = "established" /\ e.s.id = m.id
    <3>1. chan = "connecting" /\ chan' = "idle"
      BY <1>1, <1>5, <2>1, <2>9 DEF Resume
    <3>2. IsReply(m)
      BY <1>4, <2>5, <2>9 DEF Dated, Bare, IsReply
    <3>3. misled' = misled
      BY <1>2, <2>1, <2>9
    <3>4. HostInv'
      BY <1>5, <2>6, <2>8, <2>9, <3>1 DEF HostInv, NeverBackToReset, IsEstablished
    <3>5. chan' \in {"off", "connecting", "idle", "waiting", "received", "failed"}
      BY <3>1
    <3> QED
      BY <1>1, <2>1, <2>5, <2>6, <2>7, <2>9, <3>1, <3>2, <3>3, <3>4, <3>5, HostStep
  <2>10. CASE /\ m.type = "kTerminateSession" /\ e.event = "terminated"
              /\ s.state = "kSessionEstablished" /\ e.s.state = "kNoSessionEstablished"
    <3>1. chan' = "failed"
      BY <2>1, <2>10 DEF Resume
    <3>2. misled' = misled
      BY <1>2, <2>1, <2>10
    <3>3. HostInv'
      BY <1>5, <2>6, <2>8, <2>10, <3>1 DEF HostInv, NeverBackToReset, IsEstablished
    <3>4. chan' \in {"off", "connecting", "idle", "waiting", "received", "failed"}
      BY <3>1
    <3> QED
      BY <1>1, <2>1, <2>5, <2>6, <2>7, <2>10, <3>1, <3>2, <3>3, <3>4, HostStep
  <2>11. CASE /\ m.type = "kNormal" /\ e.event = "normal" /\ m.id = s.id
              /\ s.state = "kSessionEstablished" /\ e.s.state = s.state /\ e.s.id = s.id
    <3>1. chan' = "received" /\ chan = "waiting"
      BY <1>1, <1>5, <2>1, <2>11 DEF Resume
    <3>2. ~m.old
      BY <1>4, <1>5, <2>5, <2>11 DEF Dated, Bare
    <3>3. misled' = misled
      BY <1>2, <2>1, <3>2
    <3>4. HostInv'
      BY <1>5, <2>6, <2>8, <2>11, <3>1 DEF HostInv, NeverBackToReset, IsEstablished
    <3>5. chan' \in {"off", "connecting", "idle", "waiting", "received", "failed"}
      BY <3>1
    <3> QED
      BY <1>1, <2>1, <2>3, <2>5, <2>6, <2>7, <2>11, <3>1, <3>3, <3>4, <3>5, HostStep
  <2>12. CASE /\ e.event \in {"none", "log"} /\ e.s.state = s.state /\ e.s.id = s.id
              /\ m.type = "kTerminateSession" => s.state # "kSessionEstablished"
              /\ m.type = "kStartSessionReply" => s.state # "kSessionEstablished"
    <3>1. chan' = chan
      BY <1>1, <1>5, <2>1, <2>12 DEF Resume
    <3>2. misled' = misled
      BY <1>2, <2>1, <2>12
    <3>3. HostInv'
      BY <1>1, <1>5, <2>6, <2>8, <2>12, <3>1 DEF HostInv, NeverBackToReset, IsEstablished
    <3>4. chan' \in {"off", "connecting", "idle", "waiting", "received", "failed"}
      BY <1>1, <3>1
    <3>5. s.state = "kSessionEstablished" => chan = "waiting"
      BY <1>1, <1>5
    <3> QED
      BY <1>1, <2>1, <2>3, <2>5, <2>6, <2>7, <2>12, <3>1, <3>2, <3>3, <3>4, <3>5, HostStep
  <2> QED
    BY <2>4, <2>6, <2>9, <2>10, <2>11, <2>12
<1> QED
  BY <1>6, <1>7

----------------------------------------------------------------------------
(***************************************************************************)
(* The host starts a session.                                              *)
(***************************************************************************)
\* Line r is line q with the packets x and y behind it.
Extended(r, q, x, y) ==
  /\ r \in Seq(Packets) /\ Len(r) = Len(q) + 2 /\ Len(q) \in Nat /\ DOMAIN q = 1 .. Len(q)
  /\ DOMAIN r = 1 .. Len(q) + 2 /\ r[Len(q) + 1] = x /\ r[Len(q) + 2] = y
  /\ \A k \in DOMAIN q : r[k] = q[k]
  /\ \A k \in DOMAIN r : k \in DOMAIN q \/ k = Len(q) + 1 \/ k = Len(q) + 2

LEMMA TwoMore ==
  ASSUME NEW q \in Seq(Packets), NEW x \in Packets, NEW y \in Packets, NEW r, r = q \o <<x, y>>
  PROVE  Extended(r, q, x, y)
<1>1. <<x, y>> \in Seq(Packets) /\ Len(<<x, y>>) = 2 /\ <<x, y>>[1] = x /\ <<x, y>>[2] = y
  OBVIOUS
<1>2. Len(q) \in Nat /\ DOMAIN q = 1 .. Len(q)
  OBVIOUS
<1> DEFINE p == <<x, y>>
<1> HIDE DEF p
<1>3. /\ r \in Seq(Packets) /\ Len(r) = Len(q) + Len(p)
      /\ \A k \in 1 .. Len(q) + Len(p) : r[k] = IF k <= Len(q) THEN q[k] ELSE p[k - Len(q)]
  BY <1>1 DEF p
<1>4. Len(p) = 2 /\ p[1] = x /\ p[2] = y
  BY <1>1 DEF p
<1>5. DOMAIN r = 1 .. Len(q) + 2
  BY <1>3, <1>4
<1>6. r[Len(q) + 1] = x /\ r[Len(q) + 2] = y
  <2>1. Len(q) + 1 - Len(q) = 1 /\ Len(q) + 2 - Len(q) = 2
    BY <1>2
  <2>2. Len(q) + 1 \in 1 .. Len(q) + 2 /\ Len(q) + 2 \in 1 .. Len(q) + 2
    BY <1>2
  <2> QED
    BY <1>2, <1>3, <1>4, <2>1, <2>2
<1> QED
  BY <1>2, <1>3, <1>4, <1>5, <1>6 DEF Extended

\* Everything on the line becomes old, and the new nonce is on none of it.
LEMMA StartLemma ==
  ASSUME Inv, NEW s \in Sessions, Start(s),
         connects' \in 0 .. MaxConnects, retries' \in 0 .. MaxRetries,
         early' \in 0 .. MaxEarlyRetries
  PROVE  Inv'
<1> DEFINE H == wire["host"]
           D == wire["device"]
<1>1. PICK nonce \in FreshNonces :
        LET t == Initialize(s, nonce)
            u == StartSession(t)
        IN  /\ sess' = [sess EXCEPT !["host"] = u]
            /\ wire' = [host |-> Aged(H),
                        device |-> Aged(D) \o
                          <<Packet("kTerminateSession", t, "host"),
                            Packet("kStartSessionInit", u, "host")>>]
  BY DEF Start
<1> DEFINE i == RegenerateNonce(nonce)
           t == Initialize(s, nonce)
           u == StartSession(t)
           x == Packet("kTerminateSession", t, "host")
           y == Packet("kStartSessionInit", u, "host")
<1>2. chan' = "connecting" /\ stale' = TRUE /\ UNCHANGED <<resets, misled>>
  BY DEF Start
<1>3. /\ H \in Seq(Packets) /\ D \in Seq(Packets) /\ wire \in [Peer -> Seq(Packets)]
      /\ sess \in [Peer -> Sessions]
  BY Lines DEF Inv
<1>4. /\ nonce \in Nonce /\ i # sess["device"].id.initiator
      /\ \A p \in Peer : \A k \in DOMAIN wire[p] : wire[p][k].id.initiator # i
  <2>1. nonce \in HostNonces /\ HostNonces \subseteq 1 .. 255
    BY NoncesAssumption DEF FreshNonces
  <2>2. nonce \in Nonce
    BY <2>1 DEF Nonce
  <2>3. /\ RegenerateNonce(nonce) # sess["device"].id.initiator
        /\ \A p \in Peer : \A k \in DOMAIN wire[p] :
             wire[p][k].id.initiator # RegenerateNonce(nonce)
    BY Zenon DEF FreshNonces
  <2> QED
    BY <2>2, <2>3, Zenon
<1>5. i \in Nonce /\ i # kInvalidNonce
  <2>1. RegenerateNonce(nonce) \in Nonces
    BY <1>4, NonceLemma
  <2>2. \A n \in Nonces : n \in Nonce /\ n # kInvalidNonce
    BY DEF Nonce, Nonces, kInvalidNonce
  <2> QED
    BY <2>1, <2>2, Zenon
<1>6. t \in Sessions /\ t.local_nonce = nonce /\ t.id = NoSession
  BY <1>4, SessionTypes DEF Initialize, TerminateSession, Sessions, States
<1> HIDE DEF i, t
<1>7. SessionId(i, 0) \in Ids /\ SessionId(i, 0).initiator = i
  <2>1. 0 \in Nonce
    BY DEF Nonce
  <2> QED
    BY <1>5, <2>1, SessionTypes, Zenon
<1>8. /\ u \in Sessions /\ u.local_nonce = i /\ u.id = SessionId(i, 0)
      /\ u.state = "kStartSessionSent"
  <2>1. RegenerateNonce(t.local_nonce) = i
    BY <1>6 DEF i
  <2> QED
    BY <1>5, <1>6, <1>7, <2>1 DEF StartSession, Sessions, States
<1> HIDE DEF u
<1>9. x \in Packets /\ x.type = "kTerminateSession"
  BY <1>6, SessionTypes DEF Packet, Packets, Types
<1>10. y \in Packets /\ y.type = "kStartSessionInit" /\ y.id.initiator = i /\ y.old = FALSE
  BY <1>7, <1>8 DEF Packet, Packets, Types
<1>11. sess' = [sess EXCEPT !["host"] = u] /\ wire' = [host |-> Aged(H), device |-> Aged(D) \o <<x, y>>]
  BY <1>1 DEF t, u
<1> HIDE DEF x, y
<1>12. sess' \in [Peer -> Sessions] /\ sess'["host"] = u /\ sess'["device"] = sess["device"]
  BY <1>3, <1>8, <1>11 DEF Peer
<1> DEFINE E == Aged(D) \o <<x, y>>
           F == Aged(H)
<1>13. /\ F \in Seq(Packets) /\ DOMAIN F = DOMAIN H
       /\ \A k \in DOMAIN H : F[k].type = H[k].type /\ F[k].id = H[k].id /\ F[k].old = TRUE
  BY <1>3, AgedLemma
<1>14. /\ E \in Seq(Packets) /\ Len(D) \in Nat /\ DOMAIN D = 1 .. Len(D)
       /\ DOMAIN E = 1 .. Len(D) + 2 /\ Len(E) = Len(D) + 2
       /\ E[Len(D) + 1] = x /\ E[Len(D) + 2] = y
       /\ \A k \in DOMAIN D : E[k].type = D[k].type /\ E[k].id = D[k].id /\ E[k].old = TRUE
       /\ \A k \in DOMAIN E : k \in DOMAIN D \/ k = Len(D) + 1 \/ k = Len(D) + 2
  <2> DEFINE A == Aged(D)
  <2>1. /\ A \in Seq(Packets) /\ Len(A) = Len(D) /\ DOMAIN A = DOMAIN D
        /\ \A k \in DOMAIN D : A[k].type = D[k].type /\ A[k].id = D[k].id /\ A[k].old = TRUE
    BY <1>3, AgedLemma
  <2> HIDE DEF A
  <2>2. E = A \o <<x, y>>
    BY DEF A
  <2> HIDE DEF E
  <2>3. A \in Seq(Packets) /\ x \in Packets /\ y \in Packets
    BY <1>9, <1>10, <2>1
  <2>4. Extended(E, A, x, y)
    BY <2>2, <2>3, TwoMore
  <2> QED
    BY <2>1, <2>4 DEF Extended
<1>15. wire' = [host |-> F, device |-> E]
  BY <1>11
<1> HIDE DEF E, F
<1>16. wire'["host"] = F /\ wire'["device"] = E /\ wire' \in [Peer -> Seq(Packets)]
  <2>1. E \in Seq(Packets) /\ F \in Seq(Packets)
    BY <1>13, <1>14
  <2> QED
    BY <1>15, <2>1, PeerRecord, Zenon
<1>17. TypeOK'
  BY <1>2, <1>12, <1>16 DEF Inv, TypeOK, Sessions, Packets
<1>18. \A k \in DOMAIN F : Dated(wire["host"][k])'
  <2> SUFFICES ASSUME NEW k \in DOMAIN H PROVE Dated(wire["host"][k])'
    BY <1>13
  <2>1. Dated(H[k]) /\ H[k].id.initiator # i
    BY <1>4 DEF Inv, AgeInv, Peer
  <2> QED
    BY <1>8, <1>12, <1>13, <1>16, <2>1 DEF Dated
<1>19. \A k \in DOMAIN E : Dated(wire["device"][k])'
  <2> SUFFICES ASSUME NEW k \in DOMAIN E PROVE Dated(wire["device"][k])'
    OBVIOUS
  <2>1. CASE k \in DOMAIN D
    <3>1. Dated(D[k]) /\ D[k].id.initiator # i
      BY <1>4, <2>1 DEF Inv, AgeInv, Peer
    <3> QED
      BY <1>8, <1>12, <1>14, <1>16, <2>1, <3>1 DEF Dated
  <2>2. CASE k = Len(D) + 1
    BY <1>9, <1>14, <1>16, <2>2 DEF Dated, Bare
  <2>3. CASE k = Len(D) + 2
    BY <1>5, <1>8, <1>10, <1>12, <1>14, <1>16, <2>3 DEF Dated, Bare
  <2> QED
    BY <1>14, <2>1, <2>2, <2>3
<1>20. AgeInv'
  <2>1. IsEstablished("device")' => IsEstablished("device")
    BY <1>12 DEF IsEstablished
  <2>2. IsEstablished("device") => sess["device"].id.initiator # kInvalidNonce
    BY DEF Inv, AgeInv
  <2> QED
    BY <1>2, <1>4, <1>8, <1>12, <1>16, <1>18, <1>19, <2>1, <2>2 DEF AgeInv, Peer
<1>21. RolesInv'
  <2>1. \A k \in DOMAIN F : F[k].type # "kStartSessionInit"
    BY <1>13 DEF Inv, RolesInv
  <2>2. \A k \in DOMAIN E :
          E[k].type \in {"kStartSessionInit", "kTerminateSession", "kNormal"}
    BY <1>9, <1>10, <1>14 DEF Inv, RolesInv
  <2> QED
    BY <1>12, <1>16, <2>1, <2>2 DEF Inv, RolesInv
<1>22. HostInv'
  BY <1>2, <1>5, <1>8, <1>12 DEF HostInv, NeverBackToReset, IsEstablished
<1> HIDE DEF H, D
<1>23. \A k \in DOMAIN F : ~IsReply(F[k])
  BY <1>13 DEF IsReply
<1>24. StartInv'
  <2>1. \A k \in DOMAIN E : IsStart(E[k]) <=> k = Len(E)
    <3> SUFFICES ASSUME NEW k \in DOMAIN E PROVE IsStart(E[k]) <=> k = Len(E)
      OBVIOUS
    <3>1. CASE k \in DOMAIN D
      BY <1>14, <3>1 DEF IsStart
    <3>2. CASE k = Len(D) + 1
      BY <1>9, <1>14, <3>2 DEF IsStart
    <3>3. CASE k = Len(D) + 2
      BY <1>10, <1>14, <3>3 DEF IsStart
    <3> QED
      BY <1>14, <3>1, <3>2, <3>3
  <2> QED
    BY <1>2, <1>8, <1>12, <1>16, <1>23, <2>1 DEF StartInv, IsStart, IsReply
<1>25. ReplyInv'
  BY <1>16, <1>23 DEF ReplyInv, IsReply
<1>26. SharedInv'
  BY <1>8, <1>12 DEF SharedInv, IsEstablished
<1> QED
  BY <1>2, <1>17, <1>20, <1>21, <1>22, <1>24, <1>25, <1>26 DEF Inv, NoStaleDelivery

\* A new channel, and the two kinds of retries.
LEMMA StartsInv == Inv /\ (Connect \/ RetryEarly \/ Retry) => Inv'
<1> SUFFICES ASSUME Inv, Connect \/ RetryEarly \/ Retry PROVE Inv'
  OBVIOUS
<1>1. /\ connects \in 0 .. MaxConnects /\ retries \in 0 .. MaxRetries
      /\ early \in 0 .. MaxEarlyRetries /\ sess["host"] \in Sessions
  BY Lines DEF Inv, TypeOK
<1>2. \A n \in Nat : \A k \in 0 .. n : k < n => k + 1 \in 0 .. n
  OBVIOUS
<1>3. /\ MaxConnects \in Nat /\ MaxRetries \in Nat /\ MaxEarlyRetries \in Nat
      /\ 0 \in 0 .. MaxRetries
  BY BoundsAssumption
<1>4. CASE Connect
  <2>1. /\ Start(NewSession) /\ connects < MaxConnects /\ connects' = connects + 1
        /\ retries' = 0 /\ early' = early
    BY <1>4 DEF Connect
  <2> QED
    BY <1>1, <1>2, <1>3, <2>1, StartLemma, SessionTypes
<1>5. CASE RetryEarly
  <2>1. /\ Start(sess["host"]) /\ early < MaxEarlyRetries /\ early' = early + 1
        /\ connects' = connects /\ retries' = retries
    BY <1>5 DEF RetryEarly
  <2> QED
    BY <1>1, <1>2, <1>3, <2>1, StartLemma
<1>6. CASE Retry
  <2>1. /\ Start(sess["host"]) /\ retries < MaxRetries /\ retries' = retries + 1
        /\ connects' = connects /\ early' = early
    BY <1>6 DEF Retry
  <2> QED
    BY <1>1, <1>2, <1>3, <2>1, StartLemma
<1> QED
  BY <1>4, <1>5, <1>6

LEMMA NextInv == Inv /\ [Next]_vars => Inv'
<1>1. ASSUME Inv, UNCHANGED vars PROVE Inv'
  BY <1>1, ZenonT(60) DEF vars, Inv, TypeOK, AgeInv, Dated, RolesInv, HostInv, NeverBackToReset,
       IsEstablished, StartInv, Unanswered, IsStart, IsReply, ReplyInv, EndFollows, DeviceIn,
       SharedInv, Deaf, NoStaleDelivery
<1> QED
  BY <1>1, StartsInv, TimeOutInv, SendInv, HostReceiveInv, RecvInv, DeviceReceiveInv,
     DeviceLogInv, DeviceResetInv DEF Next

----------------------------------------------------------------------------
(***************************************************************************)
(* The theorems.                                                           *)
(***************************************************************************)
\* Starts, retries, timeouts, calls, logs and resets keep the inductive
\* invariant.
THEOREM Invariance == Spec => []Inv
  BY InitInv, NextInv, PTL DEF Spec

\* Every variable keeps its type; the nonces of RegenerateNonce fit in eight
\* bits, and no receive buffer takes more than it holds.
THEOREM TypeCorrect == Spec => []TypeOK
<1>1. Inv => TypeOK
  BY DEF Inv
<1> QED
  BY <1>1, Invariance, PTL

\* No packet of an older session is handed to Recv or to the server of the
\* device: PacketDone compares the session ids, and the ids differ as long as
\* no nonce repeats one that is still in use (FreshNonces).
THEOREM NothingStale == Spec => []NoStaleDelivery
<1>1. Inv => NoStaleDelivery
  BY DEF Inv
<1> QED
  BY <1>1, Invariance, PTL

\* The session that the host uses is that of the device, or the news that the
\* device has reset is on its way, or the host hears nothing any more.
THEOREM SessionShared == Spec => []SessionIsShared
<1>1. Inv => SessionIsShared
  <2> SUFFICES ASSUME Inv, InSession PROVE SessionIsShared
    BY DEF SessionIsShared
  <2>1. DeviceIn(sess["host"].id) \/ EndFollows(0) \/ Deaf("host")
    BY DEF Inv, SharedInv, InSession
  <2> QED
    BY <2>1 DEF SessionIsShared, DeviceIn, EndFollows
<1> QED
  BY <1>1, Invariance, PTL

\* ProcessStartSessionReply never throws an established session of the host
\* back to kReset: by then every reply to an earlier start has been read.
THEOREM NoReset == Spec => []NeverBackToReset
<1>1. Inv => NeverBackToReset
  BY DEF Inv, HostInv
<1> QED
  BY <1>1, Invariance, PTL

=============================================================================
