---------------------------- MODULE MicroSession ----------------------------
(***************************************************************************)
(* A host and a microTVM device over a serial line: class Session          *)
(* (src/runtime/crt/microtvm_rpc_common/session.cc) on both sides, under   *)
(* MicroTransportChannel of src/runtime/micro/micro_session.cc on the host *)
(* and MicroRPCServer of src/runtime/crt/microtvm_rpc_server/rpc_server.cc *)
(* on the device.                                                          *)
(*                                                                         *)
(* As session.h assumes, the line loses and reorders nothing; but the      *)
(* device may reset at any time, which loses what it has not read, and a   *)
(* packet that its Session refuses is dropped by the Unframer.  Packets    *)
(* are atomic: framing and CRC are left out.  Both peers have the same     *)
(* kVersion.  The host starts the sessions, retries when its timeout       *)
(* expires, makes remote calls one at a time and may open a new channel    *)
(* over the same line after a failure.                                     *)
(***************************************************************************)
EXTENDS Integers, Sequences

CONSTANTS
  HostNonces,     \* what GenerateRandomNonce returns
  DeviceNonces,   \* what TVMPlatformGenerateRandom returns
  LogSizes,       \* subset of {"shown", "unshown"}: see HandleLog
  BufferPackets,  \* bound: packets that fill a receive buffer nobody clears
  MaxConnects,    \* bound: channels that the host opens
  MaxResets,      \* bound: resets of the device
  MaxRetries,     \* bound: retry timeouts of one channel on a quiet line
  MaxEarlyRetries \* bound: retry timeouts while packets are still on the line

ASSUME NoncesAssumption ==
  /\ HostNonces \subseteq 1 .. 255
  /\ DeviceNonces \subseteq 0 .. 255
ASSUME LogSizesAssumption == LogSizes \subseteq {"shown", "unshown"}
ASSUME BoundsAssumption ==
  /\ BufferPackets \in Nat /\ MaxConnects \in Nat /\ MaxResets \in Nat
  /\ MaxRetries \in Nat /\ MaxEarlyRetries \in Nat

VARIABLES
  sess,     \* the Session of each peer
  wire,     \* wire[p]: the packets on their way to p
  chan,     \* where the host is: "off", "connecting" (StartSessionInternal),
            \* "idle", "waiting" (Recv), "received", "failed" (an exception)
  resets,   \* resets so far
  connects, \* channels opened so far
  retries,  \* retries of this channel on a quiet line
  early,    \* early retries so far
  stale,    \* history: the device's session is older than the host's channel
  misled    \* history: a peer was handed a packet of an older session

vars == <<sess, wire, chan, resets, connects, retries, early, stale, misled>>

Peer == {"host", "device"}
Other(p) == IF p = "host" THEN "device" ELSE "host"

kInvalidNonce == 0
SessionId(i, r) == [initiator |-> i, responder |-> r]
NoSession == SessionId(0, 0)

NewSession == [local_nonce |-> kInvalidNonce, id |-> NoSession, state |-> "kReset",
               complete |-> FALSE,   \* receive_buffer_has_complete_message_
               filled |-> 0]         \* packets in receive_buffer_ since Clear()

IsEstablished(p) == sess[p].state = "kSessionEstablished"

\* Mutant: the result is not cut to eight bits.
RegenerateNonceWide(n) == n * 32 + n \div 32 + 1

\* Shifts of an int, cut to the eight bits of a nonce.
RegenerateNonce(n) ==
  LET m == (n * 32 + n \div 32 + 1) % 256 IN IF m = kInvalidNonce THEN 1 ELSE m

\* A packet with the header that StartMessage gives it.  It is an old one if
\* the host has opened or restarted its channel since.
Packet(type, s, p) ==
  [type |-> type, id |-> IF type \in {"kLog", "kLongLog"} THEN NoSession ELSE s.id,
   old |-> p = "device" /\ stale]

(***************************************************************************)
(* The member functions of Session: what becomes of the session, what it   *)
(* sends, and which callback it makes.                                     *)
(***************************************************************************)
Effect(s, sent, event) == [s |-> s, sent |-> sent, event |-> event]

TerminateSession(s) == [s EXCEPT !.id = NoSession, !.state = "kNoSessionEstablished"]
Initialize(s, nonce) == TerminateSession([s EXCEPT !.local_nonce = nonce])

\* Mutant: the state is not changed.
StartSessionUnnoticed(s) ==
  LET nonce == RegenerateNonce(s.local_nonce) IN
  [s EXCEPT !.local_nonce = nonce, !.id = SessionId(nonce, 0)]

StartSession(s) ==
  LET nonce == RegenerateNonce(s.local_nonce) IN
  [s EXCEPT !.local_nonce = nonce, !.id = SessionId(nonce, 0),
            !.state = "kStartSessionSent"]

SendSessionStartReply(s, p, m) ==
  LET nonce == RegenerateNonce(s.local_nonce)
      t == [s EXCEPT !.local_nonce = nonce, !.id = SessionId(m.id.initiator, nonce),
                     !.state = "kSessionEstablished"]
  IN  Effect(t, <<[Packet("kStartSessionReply", t, p) EXCEPT !.old = m.old]>>,
             "established")

\* When two StartSessionInit packets cross, the lowest nonce wins.
ProcessStartSessionInit(s, p, m) ==
  IF m.id.initiator = kInvalidNonce THEN Effect(s, <<>>, "none")
  ELSE
    CASE s.state # "kStartSessionSent" \/ m.id.initiator < s.local_nonce ->
           SendSessionStartReply(s, p, m)
      [] s.state = "kStartSessionSent" /\ m.id.initiator = s.local_nonce ->
           LET t == StartSession(s)
           IN  Effect(t, <<Packet("kStartSessionInit", t, p)>>, "none")
      [] OTHER -> Effect(s, <<>>, "none")

\* Mutant: any reply counts.
ProcessStartSessionReplyAny(s, m) ==
  CASE s.state = "kStartSessionSent" ->
         Effect([s EXCEPT !.id = m.id, !.state = "kSessionEstablished"], <<>>,
                "established")
    [] s.state = "kSessionEstablished" -> Effect([s EXCEPT !.state = "kReset"], <<>>, "none")
    [] OTHER -> Effect(s, <<>>, "none")

\* Only the reply to the last StartSessionInit counts.
ProcessStartSessionReply(s, m) ==
  IF m.id.responder = kInvalidNonce THEN Effect(s, <<>>, "none")
  ELSE
    CASE s.state = "kStartSessionSent" /\ m.id.initiator = s.local_nonce ->
           Effect([s EXCEPT !.id = SessionId(s.local_nonce, m.id.responder),
                            !.state = "kSessionEstablished"], <<>>, "established")
      [] s.state = "kSessionEstablished" ->
           Effect([s EXCEPT !.state = "kReset"], <<>>, "none")
      [] OTHER -> Effect(s, <<>>, "none")

ProcessTerminate(s) ==
  IF s.state = "kSessionEstablished"
  THEN Effect([s EXCEPT !.state = "kNoSessionEstablished"], <<>>, "terminated")
  ELSE Effect(s, <<>>, "none")

\* Mutant: neither the state nor the session id is looked at.
ProcessNormalUnchecked(s, m) == Effect([s EXCEPT !.complete = TRUE], <<>>, "normal")

\* A normal packet of another session reaches no callback, but the buffer
\* counts as occupied all the same.
ProcessNormal(s, m) ==
  Effect([s EXCEPT !.complete = TRUE], <<>>,
         IF s.state = "kSessionEstablished" /\ m.id = s.id THEN "normal" ELSE "none")

\* HandleMessageReceived prints a log and clears the buffer, unless the log is
\* empty or too long.  The host sends no logs.
HandleLog(s, m) ==
  Effect(IF m.type = "kLog" THEN [s EXCEPT !.complete = FALSE, !.filled = 0]
                            ELSE [s EXCEPT !.complete = TRUE], <<>>, "log")

ClearReceiveBuffer(s) == [s EXCEPT !.complete = FALSE, !.filled = 0]

\* SessionReceiver::Write refuses a packet, and the Unframer drops it.
Refuses(s) == s.complete \/ s.filled = BufferPackets

PacketDone(s, p, m) ==
  LET r == [s EXCEPT !.filled = @ + 1] IN
  CASE m.type = "kStartSessionInit" -> ProcessStartSessionInit(r, p, m)
    [] m.type = "kStartSessionReply" -> ProcessStartSessionReply(r, m)
    [] m.type = "kTerminateSession" -> ProcessTerminate(r)
    [] m.type = "kNormal" -> ProcessNormal(r, m)
    [] m.type \in {"kLog", "kLongLog"} -> HandleLog(r, m)

(***************************************************************************)
(* The host.                                                               *)
(***************************************************************************)
\* The nonce is random.  That it repeats none that is still in use is an
\* assumption: the code does not check it, and one in 255 may.
FreshNonces ==
  {n \in HostNonces :
     LET i == RegenerateNonce(n) IN
     /\ i # sess["device"].id.initiator
     /\ \A p \in Peer : \A k \in DOMAIN wire[p] : wire[p][k].id.initiator # i}

Aged(packets) == [k \in DOMAIN packets |-> [packets[k] EXCEPT !.old = TRUE]]

\* Initialize and StartSession; every packet on the line is now an old one.
Start(s) ==
  /\ \E nonce \in FreshNonces :
       LET t == Initialize(s, nonce)
           u == StartSession(t)
       IN  /\ sess' = [sess EXCEPT !["host"] = u]
           /\ wire' = [host |-> Aged(wire["host"]),
                       device |-> Aged(wire["device"]) \o
                         <<Packet("kTerminateSession", t, "host"),
                           Packet("kStartSessionInit", u, "host")>>]
  /\ chan' = "connecting"
  /\ stale' = TRUE
  /\ UNCHANGED <<resets, misled>>

\* micro._rpc_connect makes a new channel.
Connect ==
  /\ chan \in {"off", "failed"}
  /\ connects < MaxConnects
  /\ Start(NewSession)
  /\ connects' = connects + 1
  /\ retries' = 0
  /\ UNCHANGED early

\* The retry timeout of StartSessionInternal, with or without an answer to wait
\* for on the line.
Quiet == /\ wire["device"] = <<>>
         /\ \A k \in DOMAIN wire["host"] : wire["host"][k].type \in {"kLog", "kLongLog"}

RetryEarly ==
  /\ chan = "connecting"
  /\ ~ Quiet
  /\ early < MaxEarlyRetries
  /\ Start(sess["host"])
  /\ early' = early + 1
  /\ UNCHANGED <<connects, retries>>
Retry ==
  /\ chan = "connecting"
  /\ Quiet
  /\ retries < MaxRetries
  /\ Start(sess["host"])
  /\ retries' = retries + 1
  /\ UNCHANGED <<connects, early>>

\* The timeout of the whole start, and that of Recv.
TimeOut ==
  /\ chan \in {"connecting", "waiting"}
  /\ chan' = "failed"
  /\ UNCHANGED <<sess, wire, resets, connects, retries, early, stale, misled>>

\* SendMessage refuses when there is no session, and Send throws.
Send ==
  /\ chan = "idle"
  /\ IF IsEstablished("host")
     THEN /\ wire' = [wire EXCEPT !["device"] =
                        Append(@, Packet("kNormal", sess["host"], "host"))]
          /\ chan' = "waiting"
     ELSE chan' = "failed" /\ UNCHANGED wire
  /\ UNCHANGED <<sess, resets, connects, retries, early, stale, misled>>

\* Where the host goes on after a callback, or a packet without one.
Resume(event, s) ==
  CASE event = "terminated" -> "failed"   \* LOG(FATAL)
    [] event = "normal" -> "received"
    [] /\ event \notin {"terminated", "normal"}
       /\ chan = "connecting" /\ s.state = "kSessionEstablished" -> "idle"
    [] OTHER -> chan

HostReceive ==
  /\ chan \in {"connecting", "waiting"}    \* ReceiveUntil
  /\ wire["host"] # <<>>
  /\ LET m == Head(wire["host"])
         e == PacketDone(sess["host"], "host", m)
     IN  IF Refuses(sess["host"])
         THEN /\ wire' = [wire EXCEPT !["host"] = Tail(@)]
              /\ UNCHANGED <<sess, chan, misled>>
         ELSE /\ sess' = [sess EXCEPT !["host"] = e.s]
              /\ wire' = [host |-> Tail(wire["host"]),
                          device |-> wire["device"] \o e.sent]
              /\ chan' = Resume(e.event, e.s)
              /\ misled' = (misled \/ (e.event = "normal" /\ m.old))
  /\ UNCHANGED <<resets, connects, retries, early, stale>>

\* Recv hands the message out and clears the buffer.
Recv ==
  /\ chan = "received"
  /\ sess' = [sess EXCEPT !["host"] = ClearReceiveBuffer(@)]
  /\ chan' = "idle"
  /\ UNCHANGED <<wire, resets, connects, retries, early, stale, misled>>

(***************************************************************************)
(* The device.                                                             *)
(***************************************************************************)
\* ProcessOnePacket runs the call and answers; then the buffer is cleared.
Answer(e) ==
  IF e.event = "normal"
  THEN Effect(ClearReceiveBuffer(e.s), <<Packet("kNormal", e.s, "device")>>, "normal")
  ELSE e

DeviceReceive ==
  /\ wire["device"] # <<>>
  /\ LET m == Head(wire["device"])
         e == Answer(PacketDone(sess["device"], "device", m))
     IN  IF Refuses(sess["device"])
         THEN /\ wire' = [wire EXCEPT !["device"] = Tail(@)]
              /\ UNCHANGED <<sess, stale, misled>>
         ELSE /\ sess' = [sess EXCEPT !["device"] = e.s]
              /\ wire' = [device |-> Tail(wire["device"]),
                          host |-> wire["host"] \o e.sent]
              /\ stale' = IF e.event = "established" THEN m.old ELSE stale
              /\ misled' = (misled \/ (e.event = "normal" /\ m.old # stale))
  /\ UNCHANGED <<chan, resets, connects, retries, early>>

\* MicroRPCServer::Log
DeviceLog ==
  /\ \A k \in DOMAIN wire["host"] : wire["host"][k].type \notin {"kLog", "kLongLog"}
  /\ \E size \in LogSizes :
       wire' = [wire EXCEPT !["host"] =
                  Append(@, Packet(IF size = "shown" THEN "kLog" ELSE "kLongLog",
                                   sess["device"], "device"))]
  /\ UNCHANGED <<sess, chan, resets, connects, retries, early, stale, misled>>

\* Mutant: the device comes up without a word.
DeviceResetSilent ==
  /\ resets < MaxResets
  /\ \E nonce \in DeviceNonces, lost \in 0 .. Len(wire["device"]) :
       /\ sess' = [sess EXCEPT !["device"] = Initialize(NewSession, nonce)]
       /\ wire' = [wire EXCEPT !["device"] = SubSeq(@, lost + 1, Len(@))]
  /\ resets' = resets + 1
  /\ UNCHANGED <<chan, connects, retries, early, stale, misled>>

\* MicroRPCServer::Initialize after a reset, which loses some packets.
DeviceReset ==
  /\ resets < MaxResets
  /\ \E nonce \in DeviceNonces, lost \in 0 .. Len(wire["device"]) :
       LET s == Initialize(NewSession, nonce) IN
       /\ sess' = [sess EXCEPT !["device"] = s]
       /\ wire' = [host |-> Append(wire["host"], Packet("kTerminateSession", s, "device")),
                   device |-> SubSeq(wire["device"], lost + 1, Len(wire["device"]))]
  /\ resets' = resets + 1
  /\ UNCHANGED <<chan, connects, retries, early, stale, misled>>

\* The device is up and has sent its first kTerminateSession.
Init ==
  \E nonce \in DeviceNonces :
    LET s == Initialize(NewSession, nonce) IN
    /\ sess = [host |-> NewSession, device |-> s]
    /\ wire = [host |-> <<[type |-> "kTerminateSession", id |-> s.id, old |-> TRUE]>>,
               device |-> <<>>]
    /\ chan = "off"
    /\ resets = 0 /\ connects = 0 /\ retries = 0 /\ early = 0
    /\ stale = TRUE /\ misled = FALSE

Next ==
  \/ Connect \/ RetryEarly \/ Retry \/ TimeOut \/ Send \/ HostReceive \/ Recv
  \/ DeviceReceive \/ DeviceLog \/ DeviceReset

Spec ==
  /\ Init /\ [][Next]_vars
  /\ WF_vars(HostReceive) /\ WF_vars(DeviceReceive)
  /\ WF_vars(Retry) /\ WF_vars(Recv)

(***************************************************************************)
(* Properties.                                                             *)
(***************************************************************************)
States == {"kReset", "kNoSessionEstablished", "kStartSessionSent", "kSessionEstablished"}
Types == {"kStartSessionInit", "kStartSessionReply", "kTerminateSession", "kLog",
          "kLongLog", "kNormal"}
Nonce == 0 .. 255
Ids == [initiator : Nonce, responder : Nonce]

\* Every variable has its type; nonces fit in eight bits.
TypeOK ==
  /\ sess \in [Peer -> [local_nonce : Nonce, id : Ids, state : States,
                        complete : BOOLEAN, filled : 0 .. BufferPackets]]
  /\ wire \in [Peer -> Seq([type : Types, id : Ids, old : BOOLEAN])]
  /\ chan \in {"off", "connecting", "idle", "waiting", "received", "failed"}
  /\ resets \in 0 .. MaxResets /\ connects \in 0 .. MaxConnects
  /\ retries \in 0 .. MaxRetries /\ early \in 0 .. MaxEarlyRetries
  /\ stale \in BOOLEAN /\ misled \in BOOLEAN

\* Neither peer is handed a packet that was sent in an earlier session, however
\* many starts, timeouts and resets came in between: a late answer to a call
\* that timed out never becomes the answer to the next one (PacketDone).
NoStaleDelivery == ~ misled

\* A receiver that drops every packet from now on, because its buffer holds one
\* that no callback was made for, or is full.
Deaf(p) == Refuses(sess[p]) /\ ~ (p = "host" /\ chan = "received")

InSession == chan \in {"idle", "waiting", "received"} /\ IsEstablished("host")

\* A session that the host uses is the device's session too, unless the device
\* has reset, and then a kTerminateSession is on its way that says so, or was
\* refused (ProcessStartSessionInit, ProcessStartSessionReply).
SessionIsShared ==
  InSession =>
    \/ IsEstablished("device") /\ sess["device"].id = sess["host"].id
    \/ \E k \in DOMAIN wire["host"] : wire["host"][k].type = "kTerminateSession"
    \/ Deaf("host")

\* No stray reply throws an established session back to kReset
\* (ProcessStartSessionReply).
NeverBackToReset == chan # "off" => sess["host"].state # "kReset"

\* The start of a session comes to an end: the retries of StartSessionInternal
\* make up for what resets lose, as long as both peers listen.
StartEnds == chan = "connecting" ~> chan # "connecting" \/ \E p \in Peer : Deaf(p)

\* A remote call comes to an end without the timeout of Recv, which the caller
\* may turn off: with its answer, or with the news that the device has reset.
CallEnds == chan = "waiting" ~> chan # "waiting" \/ \E p \in Peer : Deaf(p)

\* StartSession starts "a new session regardless of state" (session.h): when the
\* reply to the host's last kStartSessionInit arrives, the session is established,
\* whatever happened on the line before.
StartsRegardless ==
  [][LET reply == Head(wire["host"]) IN
     (/\ chan = "connecting"
      /\ wire["host"] # <<>>
      /\ reply.type = "kStartSessionReply"
      /\ reply.id.initiator = sess["host"].local_nonce
      /\ wire'["host"] = Tail(wire["host"]))
     => IsEstablished("host")']_vars
=============================================================================
