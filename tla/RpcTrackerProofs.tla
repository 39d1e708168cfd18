-------------------------- MODULE RpcTrackerProofs --------------------------
(***************************************************************************)
(* Proofs about RpcTracker, for any number of servers and clients, any     *)
(* priorities, and any sequence of deaths and broken connections.          *)
(***************************************************************************)
EXTENDS RpcTracker, FiniteSetTheorems, WellFoundedInduction, TLAPS

ServerConns == [peer : Servers, num : Nat \ {0}]
ClientConns == [peer : Clients, num : Nat \ {0}]
Dials == [client : Clients, key : Nat \ {0}]
Requests == [conn : ClientConns, priority : Int, cnt : Nat]
Messages ==
  [code : {"PUT"}, conn : ServerConns, key : Nat \ {0}]
    \cup [code : {"PING"}, conn : ServerConns, key : {0}]
    \cup [code : {"REQUEST"}, conn : ClientConns, key : {0}]
Away == {"connect", "failed", "done", "dead"}  \* clients without a connection
Value(m) == [conn |-> m.conn, key |-> m.key]

\* The parts of TypeOK, with the types of what it leaves open.
TrackerTypes ==
  /\ values \in Seq(Keys) /\ requests \subseteq Requests /\ request_cnt \in Nat
  /\ open \subseteq Conns /\ tpc \in {"idle", "schedule"} /\ putter \in Conns \cup {NoConn}
  /\ inbox \subseteq Messages /\ lost \subseteq Conns
ServerTypes ==
  /\ backlog \in [Servers -> Seq(Dials)]
  /\ spc \in [Servers -> {"connect", "put", "listen", "ping", "serve", "dead"}]
  /\ sconn \in [Servers -> Nat] /\ matchkey \in [Servers -> Nat]
  /\ unmatch \in [Servers -> 0 .. 3]
  /\ \A s \in Servers : ServerUp(s) => sconn[s] # 0
ClientTypes ==
  /\ cpc \in [Clients -> {"connect", "request", "waiting", "granted", "connecting",
                          "session", "done", "failed", "dead"}]
  /\ cconn \in [Clients -> Nat] /\ grant \in [Clients -> Keys \cup {NoGrant}]
  /\ tries \in [Clients -> Nat]
  /\ \A c \in Clients :
       /\ tries[c] <= MaxRetry /\ (cpc[c] = "failed" <=> tries[c] = MaxRetry)
       /\ cpc[c] \notin Away => cconn[c] # 0

(***************************************************************************)
(* Keys.  A server has made every key that is on its way, free or granted, *)
(* and the current one on its current connection.                          *)
(***************************************************************************)
Known(v) ==
  LET s == v.conn.peer IN
  /\ v \in Keys /\ v.conn.num <= sconn[s] /\ v.key <= matchkey[s]
  /\ v.key = matchkey[s] => v.conn.num = sconn[s]
KeysInv ==
  /\ \A v \in Range(values) : Known(v)
  /\ \A m \in inbox : m.code = "PUT" => Known(Value(m))
  /\ \A c \in Clients : grant[c] # NoGrant => Known(grant[c])

\* A key is in one place at a time: on its way, free, or with one client.
Distinct(seq) == \A i, j \in DOMAIN seq : seq[i] = seq[j] => i = j
OnceInv ==
  /\ Distinct(values)
  /\ pending = Range(values)
  /\ \A m \in inbox : m.code = "PUT" =>
       Value(m) \notin Range(values) /\ \A c \in Clients : grant[c] # Value(m)
  /\ KeyHandedOutOnce

\* A server whose PUT is on its way, or being handled, awaits the answer.
Current(c) == ServerUp(c.peer) /\ c.num = sconn[c.peer]
PutInv ==
  \A m \in inbox : m.code = "PUT" /\ Current(m.conn) =>
    m.key = matchkey[m.conn.peer] /\ spc[m.conn.peer] = "put"
PutterInv ==
  putter # NoConn =>
    /\ tpc = "schedule" /\ putter \in ServerConns /\ putter.num <= sconn[putter.peer]
    /\ Current(putter) =>
         spc[putter.peer] = "put" /\ \A m \in inbox : m.code = "PUT" => m.conn # putter

(***************************************************************************)
(* Requests.  A client has one request under way on a connection that      *)
(* stands, and then it waits.  The requests of the heap are totally        *)
(* ordered.                                                                *)
(***************************************************************************)
Asking(c) == cpc[c.peer] \notin Away /\ c.num = cconn[c.peer]
HeapInv ==
  /\ IsFiniteSet(requests)
  /\ \A r \in requests : r.cnt < request_cnt
  /\ \A q, r \in requests : q.cnt = r.cnt => q = r
RequestInv ==
  /\ \A r \in requests :
       /\ r.conn.num <= cconn[r.conn.peer]
       /\ Asking(r.conn) =>
            cpc[r.conn.peer] = "waiting" /\ \A q \in requests : q.conn = r.conn => q = r
  /\ \A m \in inbox : m.code = "REQUEST" =>
       /\ m.conn.num <= cconn[m.conn.peer]
       /\ Asking(m.conn) =>
            cpc[m.conn.peer] = "waiting" /\ \A q \in requests : q.conn # m.conn

\* A client that dialled a server still holds the key it dialled with, and
\* waits for the server, once.
BacklogInv ==
  \A s \in Servers : \A i \in DOMAIN backlog[s] :
    LET d == backlog[s][i] IN
    /\ grant[d.client] # NoGrant /\ grant[d.client].conn.peer = s /\ grant[d.client].key = d.key
    /\ cpc[d.client] \in {"connecting", "dead"}
    /\ \A j \in DOMAIN backlog[s] : backlog[s][j].client = d.client => j = i
GrantInv ==
  \A c \in Clients : cpc[c] \in {"granted", "connecting", "session"} => grant[c] # NoGrant

Inv ==
  /\ TrackerTypes /\ ServerTypes /\ ClientTypes /\ KeysInv /\ OnceInv /\ PutInv /\ PutterInv
  /\ FreeEntryIsCurrent /\ OffersAreOpen /\ HeapInv /\ RequestInv /\ BacklogInv /\ GrantInv /\ OneClientPerServer

----------------------------------------------------------------------------
(***************************************************************************)
(* Induction over the natural numbers, from the well-foundedness of <.     *)
(***************************************************************************)
LEMMA LeastElement ==
  ASSUME NEW T, T \subseteq Nat, T # {}
  PROVE  \E n \in T : \A m \in T : n <= m
<1> DEFINE R == OpToRel(<, Nat)
<1>1. IsWellFoundedOn(R, Nat)
  BY NatLessThanWellFounded
<1>2. \A x, y \in Nat : y < x => <<y, x>> \in R
  BY DEF OpToRel
<1> HIDE DEF R
<1>3. PICK n \in T : \A m \in T : ~ (<<m, n>> \in R)
  BY <1>1, WFMin
<1>4. \A m \in T : m \in Nat /\ n \in Nat /\ ~ (m < n)
  BY <1>2, <1>3
<1> QED
  BY <1>4

LEMMA SetInduction ==
  ASSUME NEW S, 0 \in S, \A n \in Nat : n \in S => n + 1 \in S
  PROVE  Nat \subseteq S
<1> DEFINE T == Nat \ S
<1> SUFFICES ASSUME T # {} PROVE FALSE
  OBVIOUS
<1>1. PICK n \in T : \A m \in T : n <= m
  BY LeastElement
<1>2. n # 0 /\ n - 1 \in Nat /\ n - 1 \notin T
  BY <1>1
<1> QED
  BY <1>1, <1>2

----------------------------------------------------------------------------
(***************************************************************************)
(* Sequences without duplicates.                                           *)
(***************************************************************************)
LEMMA AppendLemma ==
  ASSUME NEW S, NEW seq \in Seq(S), NEW v \in S
  PROVE  /\ Append(seq, v) \in Seq(S) /\ Range(Append(seq, v)) = Range(seq) \cup {v}
         /\ Distinct(seq) /\ v \notin Range(seq) => Distinct(Append(seq, v))
<1> DEFINE w == Append(seq, v)
<1>1. /\ w \in Seq(S) /\ Len(seq) \in Nat /\ DOMAIN seq = 1 .. Len(seq)
      /\ DOMAIN w = 1 .. Len(seq) + 1 /\ w[Len(seq) + 1] = v
      /\ \A i \in 1 .. Len(seq) : w[i] = seq[i]
  OBVIOUS
<1>2. \A i \in DOMAIN w : i \in DOMAIN seq \/ i = Len(seq) + 1
  BY <1>1
<1>3. \A i \in DOMAIN seq : i \in DOMAIN w /\ w[i] = seq[i]
  BY <1>1
<1>4. Len(seq) + 1 \in DOMAIN w /\ Len(seq) + 1 \notin DOMAIN seq
  BY <1>1
<1> HIDE DEF w
<1>5. Range(w) = Range(seq) \cup {v}
  BY <1>1, <1>2, <1>3, <1>4 DEF Range
<1>6. ASSUME Distinct(seq), v \notin Range(seq) PROVE Distinct(w)
  BY <1>1, <1>2, <1>3, <1>4, <1>6 DEF Distinct, Range
<1> QED
  BY <1>1, <1>5, <1>6 DEF w

LEMMA TailLemma ==
  ASSUME NEW S, NEW seq \in Seq(S), seq # <<>>, Distinct(seq)
  PROVE  /\ Head(seq) \in Range(seq) /\ Head(seq) \in S /\ Tail(seq) \in Seq(S)
         /\ Range(Tail(seq)) = Range(seq) \ {Head(seq)} /\ Distinct(Tail(seq))
<1> DEFINE w == Tail(seq)
<1>1. /\ w \in Seq(S) /\ Len(seq) \in Nat /\ Len(seq) >= 1 /\ DOMAIN seq = 1 .. Len(seq)
      /\ DOMAIN w = 1 .. Len(seq) - 1 /\ Head(seq) = seq[1]
      /\ \A i \in 1 .. Len(seq) - 1 : w[i] = seq[i + 1]
  OBVIOUS
<1>2. 1 \in DOMAIN seq /\ seq[1] \in S
  BY <1>1
<1>3. \A i \in DOMAIN w : i + 1 \in DOMAIN seq /\ i + 1 # 1 /\ w[i] = seq[i + 1]
  BY <1>1
<1>4. \A i \in DOMAIN seq : i # 1 => \E k \in DOMAIN w : w[k] = seq[i]
  <2> SUFFICES ASSUME NEW i \in DOMAIN seq, i # 1 PROVE \E k \in DOMAIN w : w[k] = seq[i]
    OBVIOUS
  <2>1. i - 1 \in 1 .. Len(seq) - 1 /\ (i - 1) + 1 = i
    BY <1>1
  <2> QED
    BY <1>1, <2>1
<1> HIDE DEF w
<1>5. Range(w) = Range(seq) \ {seq[1]}
  BY <1>2, <1>3, <1>4 DEF Range, Distinct
<1>6. Distinct(w)
  <2> SUFFICES ASSUME NEW i \in DOMAIN w, NEW j \in DOMAIN w, w[i] = w[j] PROVE i = j
    BY DEF Distinct
  <2>1. i + 1 = j + 1 /\ i \in Int /\ j \in Int
    BY <1>1, <1>3 DEF Distinct
  <2> QED
    BY <2>1
<1> QED
  BY <1>1, <1>2, <1>5, <1>6 DEF w, Range

\* What close() leaves of the values: by induction on the length of the list.
LEMMA WithoutLemma ==
  ASSUME values \in Seq(Keys), Distinct(values), NEW c
  PROVE  /\ WithoutValuesOf(c) \in Seq(Keys) /\ Distinct(WithoutValuesOf(c))
         /\ Range(WithoutValuesOf(c)) = {v \in Range(values) : v.conn # c}
<1> DEFINE L == Len(values)
           D == 0 .. L
           def(g, i) == IF i = 0 THEN <<>>
                        ELSE IF values[i].conn = c THEN g[i - 1]
                        ELSE Append(g[i - 1], values[i])
           kept[i \in 0 .. Len(values)] ==
             IF i = 0 THEN <<>>
             ELSE IF values[i].conn = c THEN kept[i - 1]
             ELSE Append(kept[i - 1], values[i])
<1>1. WithoutValuesOf(c) = kept[L]
  BY DEF WithoutValuesOf
<1>2. kept = CHOOSE g : g = [i \in D |-> def(g, i)]
  OBVIOUS
<1>3. /\ L \in Nat /\ DOMAIN values = 1 .. L /\ L \in D
      /\ \A i \in DOMAIN values : values[i] \in Keys
  OBVIOUS
<1> HIDE DEF kept, L, D
<1>4. /\ \A i \in D : i \in Nat /\ i <= L /\ (i # 0 => i - 1 \in D /\ i \in DOMAIN values)
      /\ \A i \in Nat : i + 1 \in D => i \in D /\ i + 1 \in DOMAIN values
      /\ 0 \in D
  BY <1>3 DEF D
<1> DEFINE partial(g, m) == \A i \in D : i <= m => g[i] = def(g, i)
           P == {m \in Nat : \E g : partial(g, m)}
<1>5. 0 \in P
  <2> DEFINE g == [i \in D |-> <<>>]
  <2>1. \A i \in D : i <= 0 => i = 0
    BY <1>3 DEF D
  <2>2. partial(g, 0)
    BY <2>1
  <2> QED
    BY <2>2
<1>6. ASSUME NEW m \in Nat, m \in P PROVE m + 1 \in P
  <2>1. PICK g : partial(g, m)
    BY <1>6
  <2> DEFINE h == [i \in D |-> def(g, i)]
  <2>2. \A i \in D : i <= m => h[i] = g[i]
    BY <2>1
  <2>3. ASSUME NEW i \in D, i <= m + 1 PROVE h[i] = def(h, i)
    <3>1. CASE i = 0
      BY <3>1
    <3>2. CASE i # 0
      <4>1. i - 1 \in D /\ i - 1 <= m
        BY <1>4, <2>3, <3>2
      <4>2. h[i - 1] = g[i - 1]
        BY <2>2, <4>1
      <4>3. h[i] = def(g, i)
        OBVIOUS
      <4> HIDE DEF h
      <4> QED
        BY <3>2, <4>2, <4>3
    <3> QED
      BY <3>1, <3>2
  <2> HIDE DEF h
  <2>4. partial(h, m + 1)
    BY <2>3
  <2> QED
    BY <2>4
<1>7. L \in P
  <2> HIDE DEF P
  <2>1. Nat \subseteq P
    BY <1>5, <1>6, SetInduction
  <2> QED
    BY <1>3, <2>1
<1>8. PICK g : partial(g, L)
  BY <1>7
<1>9. \E f : f = [i \in D |-> def(f, i)]
  <2> DEFINE f == [i \in D |-> g[i]]
  <2>1. \A i \in D : f[i] = def(f, i)
    BY <1>4, <1>8
  <2>2. f = [i \in D |-> f[i]]
    OBVIOUS
  <2> HIDE DEF f
  <2>3. f = [i \in D |-> def(f, i)]
    BY <2>1, <2>2
  <2> QED
    BY <2>3
<1>10. \A i \in D : kept[i] = def(kept, i)
  <2> DEFINE C(f) == f = [i \in D |-> def(f, i)]
  <2>1. \E f : C(f)
    BY <1>9
  <2>2. kept = CHOOSE f : C(f)
    BY <1>2
  <2> HIDE DEF C
  <2>3. C(kept)
    BY <2>1, <2>2
  <2>4. kept = [i \in D |-> def(kept, i)]
    BY <2>3 DEF C
  <2> QED
    BY <2>4
<1> DEFINE first(m) == {values[i] : i \in {j \in DOMAIN values : j <= m /\ values[j].conn # c}}
           good(w, m) == w \in Seq(Keys) /\ Distinct(w) /\ Range(w) = first(m)
           Q == {m \in Nat : m \in D => good(kept[m], m)}
<1>11. 0 \in Q
  <2>1. kept[0] = <<>> /\ first(0) = {}
    BY <1>3, <1>4, <1>10
  <2>2. <<>> \in Seq(Keys) /\ Distinct(<<>>) /\ Range(<<>>) = {}
    BY DEF Distinct, Range
  <2> QED
    BY <2>1, <2>2
<1>12. ASSUME NEW m \in Nat, m \in Q PROVE m + 1 \in Q
  <2> SUFFICES ASSUME m + 1 \in D PROVE good(kept[m + 1], m + 1)
    OBVIOUS
  <2>1. m \in D /\ m + 1 \in DOMAIN values /\ m + 1 # 0 /\ (m + 1) - 1 = m
    BY <1>4
  <2>2. good(kept[m], m)
    BY <1>12, <2>1
  <2>3. \A j \in DOMAIN values : j <= m + 1 <=> j <= m \/ j = m + 1
    BY <1>3
  <2>4. \A j \in DOMAIN values : j <= m => j # m + 1
    BY <1>3
  <2>5. CASE values[m + 1].conn = c
    <3>1. kept[m + 1] = kept[m]
      BY <1>10, <2>1, <2>5
    <3>2. first(m + 1) = first(m)
      BY <2>3, <2>5
    <3> HIDE DEF first
    <3> QED
      BY <2>2, <3>1, <3>2
  <2>6. CASE values[m + 1].conn # c
    <3>1. kept[m + 1] = Append(kept[m], values[m + 1])
      BY <1>10, <2>1, <2>6
    <3>2. first(m + 1) = first(m) \cup {values[m + 1]}
      BY <2>1, <2>3, <2>6
    <3>3. values[m + 1] \notin first(m)
      BY <2>1, <2>4 DEF Distinct
    <3> HIDE DEF first
    <3>4. values[m + 1] \in Keys /\ kept[m] \in Seq(Keys)
      BY <1>3, <2>1, <2>2
    <3>5. Distinct(kept[m]) /\ Range(kept[m]) = first(m)
      BY <2>2
    <3>6. /\ Append(kept[m], values[m + 1]) \in Seq(Keys)
          /\ Distinct(Append(kept[m], values[m + 1]))
          /\ Range(Append(kept[m], values[m + 1])) = Range(kept[m]) \cup {values[m + 1]}
      BY <3>3, <3>4, <3>5, AppendLemma
    <3> QED
      BY <3>1, <3>2, <3>5, <3>6
  <2> QED
    BY <2>5, <2>6
<1>13. good(kept[L], L)
  <2> HIDE DEF Q
  <2>1. Nat \subseteq Q
    BY <1>11, <1>12, SetInduction
  <2>2. L \in Q
    BY <1>3, <2>1
  <2> QED
    BY <1>3, <2>2 DEF Q
<1>14. first(L) = {v \in Range(values) : v.conn # c}
  BY <1>3 DEF Range
<1> HIDE DEF first
<1> QED
  BY <1>1, <1>13, <1>14

\* The heap has a first request: one that fewest others come before has none
\* before it.
LEMMA FirstRequestLemma ==
  ASSUME HeapInv, requests \subseteq Requests, requests # {}
  PROVE  FirstRequest \in requests
<1> DEFINE earlier(r) == {q \in requests : Before(q, r)}
           T == {Cardinality(earlier(r)) : r \in requests}
<1>1. \A r \in requests : IsFiniteSet(earlier(r)) /\ Cardinality(earlier(r)) \in Nat
  BY FS_Subset, FS_CardinalityType DEF HeapInv
<1>2. PICK r \in requests : \A q \in requests : Cardinality(earlier(r)) <= Cardinality(earlier(q))
  <2> HIDE DEF earlier
  <2>1. T \subseteq Nat /\ T # {}
    BY <1>1
  <2>2. PICK n \in T : \A m \in T : n <= m
    BY <2>1, LeastElement
  <2> QED
    BY <2>2
<1>3. \A q \in requests : q.priority \in Int /\ q.cnt \in Nat
  BY DEF Requests
<1>4. \A q \in requests : ~Before(q, r)
  <2> SUFFICES ASSUME NEW q \in requests, Before(q, r) PROVE FALSE
    OBVIOUS
  <2>1. earlier(q) \in SUBSET earlier(r)
    BY <1>3 DEF Before
  <2>2. q \in earlier(r) /\ q \notin earlier(q)
    BY <1>3 DEF Before
  <2> HIDE DEF earlier
  <2>3. Cardinality(earlier(q)) <= Cardinality(earlier(r)) /\ Cardinality(earlier(q)) # Cardinality(earlier(r))
    BY <1>1, <2>1, <2>2, FS_Subset
  <2> QED
    BY <1>1, <1>2, <2>3
<1>5. \A q \in requests \ {r} : Before(r, q)
  BY <1>3, <1>4 DEF Before, HeapInv
<1> QED
  BY <1>5 DEF FirstRequest

----------------------------------------------------------------------------
(***************************************************************************)
(* Types.                                                                  *)
(***************************************************************************)
LEMMA MessageTypes ==
  ASSUME NEW m \in Messages
  PROVE  /\ m.code \in {"PUT", "PING", "REQUEST"} /\ m.conn \in Conns
         /\ m = [code |-> m.code, conn |-> m.conn, key |-> m.key]
         /\ m.code \in {"PUT", "PING"} =>
              m.conn \in ServerConns /\ m.conn.peer \in Servers /\ m.conn.num \in Nat \ {0}
         /\ m.code = "PUT" => m.key \in Nat \ {0} /\ Value(m) \in Keys
         /\ m.code = "REQUEST" =>
              /\ m.conn \in ClientConns /\ m.conn.peer \in Clients
              /\ m.conn.num \in Nat \ {0} /\ m.key = 0
BY DEF Messages, ServerConns, ClientConns, Conns, Value, Keys

LEMMA Processes ==
  /\ \A s \in Servers : s \notin Clients /\ s # "none"
  /\ \A c \in Clients : c \notin Servers /\ c # "none"
BY ProcessAssumption

LEMMA TypesImply == Inv => TypeOK
<1> SUFFICES ASSUME Inv PROVE TypeOK
  OBVIOUS
<1> USE DEF Inv
<1>1. /\ values \in Seq(Keys) /\ open \subseteq Conns /\ lost \subseteq Conns
      /\ tpc \in {"idle", "schedule"} /\ putter \in Conns \cup {NoConn}
  BY DEF TrackerTypes
<1>2. pending \subseteq Keys
  BY <1>1 DEF OnceInv, Range
<1>3. \A r \in requests : r.conn \in Conns /\ r.cnt < request_cnt
  BY DEF TrackerTypes, HeapInv, Requests, ClientConns, Conns
<1>4. \A m \in inbox : m.code \in {"PUT", "REQUEST", "PING"} /\ m.conn \in Conns
  BY MessageTypes DEF TrackerTypes
<1>5. /\ \A s \in Servers : backlog[s] \in Seq([client : Clients, key : Nat \ {0}])
      /\ spc \in [Servers -> {"connect", "put", "listen", "ping", "serve", "dead"}]
      /\ sconn \in [Servers -> Nat] /\ matchkey \in [Servers -> Nat]
  BY DEF ServerTypes, Dials
<1>6. \A s \in Servers : unmatch[s] * ping_period <= unmatch_timeout + ping_period
  <2> SUFFICES ASSUME NEW s \in Servers PROVE unmatch[s] * 2 <= 4 + 2
    BY DEF ping_period, unmatch_timeout
  <2>1. unmatch[s] \in 0 .. 3
    BY DEF ServerTypes
  <2> QED
    BY <2>1
<1>7. /\ cpc \in [Clients -> {"connect", "request", "waiting", "granted", "connecting",
                              "session", "done", "failed", "dead"}]
      /\ cconn \in [Clients -> Nat] /\ grant \in [Clients -> Keys \cup {NoGrant}]
  BY DEF ClientTypes
<1>8. \A c \in Clients : tries[c] \in 0 .. MaxRetry /\ (cpc[c] = "failed") = (tries[c] = MaxRetry)
  BY RetryAssumption DEF ClientTypes
<1> QED
  BY <1>1, <1>2, <1>3, <1>4, <1>5, <1>6, <1>7, <1>8 DEF TypeOK

LEMMA KeyTypes ==
  ASSUME NEW v \in Keys
  PROVE  /\ v.conn \in ServerConns /\ v.conn.peer \in Servers /\ v.conn.num \in Nat \ {0}
         /\ v.key \in Nat \ {0} /\ v # NoGrant
         /\ v.conn = Conn(v.conn.peer, v.conn.num) /\ v = [conn |-> v.conn, key |-> v.key]
BY DEF Keys, ServerConns, Conn, NoGrant

----------------------------------------------------------------------------
(***************************************************************************)
(* What a step that leaves most of the state alone preserves.              *)
(***************************************************************************)
KeySide == KeysInv /\ OnceInv /\ PutInv /\ PutterInv /\ FreeEntryIsCurrent /\ OffersAreOpen

\* Values and messages disappear; servers disconnect, die, ask for their keys or
\* begin to serve when they are not free any more.
LEMMA KeySideKept ==
  ASSUME Inv, UNCHANGED <<grant, sconn, matchkey, putter>>,
         Distinct(values'), Range(values') \subseteq Range(values), pending' = Range(values'),
         \A m \in inbox' : m.code = "PUT" => m \in inbox,
         \A v \in Range(values') : v.conn \in open',
         tpc' \in {tpc, "schedule"},
         \A s \in Servers :
           \/ spc'[s] = spc[s] \/ spc'[s] \in {"connect", "dead"}
           \/ spc[s] \in {"listen", "ping"} /\ spc'[s] \in {"listen", "ping"}
           \/ /\ spc[s] = "listen" /\ spc'[s] = "serve"
              /\ \A v \in Range(values) : v.conn # Conn(s, sconn[s])
  PROVE  KeySide'
<1> USE DEF Inv
<1>1. \A v : Known(v)' <=> Known(v)
  BY DEF Known
<1>2. KeysInv'
  BY <1>1 DEF KeysInv
<1>3. OnceInv'
  BY DEF OnceInv, KeyHandedOutOnce
<1>4. \A c : c.peer \in Servers /\ Current(c)' => Current(c)
  BY DEF Current, ServerUp
<1>5. \A m \in inbox : m.code = "PUT" => m.conn.peer \in Servers
  BY MessageTypes DEF TrackerTypes
<1>6. PutInv'
  <2> SUFFICES ASSUME NEW m \in inbox', m.code = "PUT", Current(m.conn)'
               PROVE  m.key = matchkey'[m.conn.peer] /\ spc'[m.conn.peer] = "put"
    BY DEF PutInv
  <2>1. m \in inbox /\ m.conn.peer \in Servers /\ Current(m.conn)
    BY <1>4, <1>5
  <2>2. m.key = matchkey[m.conn.peer] /\ spc[m.conn.peer] = "put"
    BY <2>1 DEF PutInv
  <2> QED
    BY <2>1, <2>2 DEF Current, ServerUp
<1>7. PutterInv'
  <2> SUFFICES ASSUME putter # NoConn
               PROVE  /\ tpc' = "schedule" /\ putter \in ServerConns /\ putter.num <= sconn[putter.peer]
                      /\ Current(putter)' =>
                           /\ spc'[putter.peer] = "put"
                           /\ \A m \in inbox' : m.code = "PUT" => m.conn # putter
    BY DEF PutterInv
  <2>1. tpc = "schedule" /\ putter \in ServerConns /\ putter.num <= sconn[putter.peer]
    BY DEF PutterInv
  <2>2. putter.peer \in Servers
    BY <2>1 DEF ServerConns
  <2>3. ASSUME Current(putter)'
        PROVE  /\ spc'[putter.peer] = "put"
               /\ \A m \in inbox' : m.code = "PUT" => m.conn # putter
    <3>1. Current(putter)
      BY <1>4, <2>2, <2>3
    <3>2. spc[putter.peer] = "put" /\ \A m \in inbox : m.code = "PUT" => m.conn # putter
      BY <3>1 DEF PutterInv
    <3> QED
      BY <2>2, <2>3, <3>2 DEF Current, ServerUp
  <2> QED
    BY <2>1, <2>3
<1>8. FreeEntryIsCurrent'
  <2> SUFFICES ASSUME NEW v \in Range(values'), ServerUp(v.conn.peer)', v.conn.num = sconn[v.conn.peer]
               PROVE  v.key = matchkey[v.conn.peer] /\ spc'[v.conn.peer] \in {"put", "listen", "ping"}
    BY DEF FreeEntryIsCurrent
  <2>1. v \in Range(values) /\ v.conn.peer \in Servers /\ v.conn = Conn(v.conn.peer, v.conn.num)
    BY KeyTypes DEF KeysInv, Known
  <2>2. ServerUp(v.conn.peer)
    BY <2>1 DEF ServerUp
  <2>3. v.key = matchkey[v.conn.peer] /\ spc[v.conn.peer] \in {"put", "listen", "ping"}
    BY <2>1, <2>2 DEF FreeEntryIsCurrent
  <2> QED
    BY <2>1, <2>3 DEF ServerUp
<1>9. OffersAreOpen'
  BY DEF OffersAreOpen
<1> QED
  BY <1>2, <1>3, <1>6, <1>7, <1>8, <1>9 DEF KeySide

\* A server makes a new key on a new connection, or on one on which nothing is
\* free any more.
LEMMA Reported ==
  ASSUME Inv, NEW s \in Servers, NEW n \in Nat \ {0}, spc[s] # "put",
         \/ n = sconn[s] + 1
         \/ n = sconn[s] /\ ServerUp(s) /\ \A v \in Range(values) : v.conn # Conn(s, n),
         UNCHANGED <<values, pending, grant, putter, tpc>>,
         open \subseteq open',
         sconn' = [sconn EXCEPT ![s] = n],
         matchkey' = [matchkey EXCEPT ![s] = @ + 1],
         spc' = [spc EXCEPT ![s] = "put"],
         \A m \in inbox' :
           m \in inbox \/ m = [code |-> "PUT", conn |-> Conn(s, n), key |-> matchkey[s] + 1]
  PROVE  KeySide'
<1> USE DEF Inv
<1>0. PICK x : x = [code |-> "PUT", conn |-> Conn(s, n), key |-> matchkey[s] + 1]
  OBVIOUS
<1>1. /\ sconn \in [Servers -> Nat] /\ matchkey \in [Servers -> Nat]
      /\ spc \in [Servers -> {"connect", "put", "listen", "ping", "serve", "dead"}]
      /\ inbox \subseteq Messages /\ values \in Seq(Keys)
  BY DEF TrackerTypes, ServerTypes
<1>2. /\ x.code = "PUT" /\ x.conn = Conn(s, n) /\ x.key = matchkey[s] + 1
      /\ Value(x) = [conn |-> Conn(s, n), key |-> matchkey[s] + 1]
      /\ Conn(s, n).peer = s /\ Conn(s, n).num = n
      /\ Value(x).conn = Conn(s, n) /\ Value(x).key = matchkey[s] + 1
      /\ Value(x) \in Keys
  BY <1>0, <1>1 DEF Conn, Value, Keys
<1>3. \A m \in inbox' : m \in inbox \/ m = x
  BY <1>0
<1>4. /\ sconn'[s] = n /\ matchkey'[s] = matchkey[s] + 1 /\ spc'[s] = "put" /\ sconn[s] <= n
      /\ sconn[s] \in Nat /\ matchkey[s] \in Nat
      /\ \A t \in Servers : t # s => sconn'[t] = sconn[t] /\ matchkey'[t] = matchkey[t] /\ spc'[t] = spc[t]
  BY <1>1
<1>5. \A v : Known(v) => Known(v)' /\ v # Value(x)
  <2> SUFFICES ASSUME NEW v, Known(v) PROVE Known(v)' /\ v # Value(x)
    OBVIOUS
  <2>1. /\ v \in Keys /\ v.conn.peer \in Servers /\ v.conn.num \in Nat /\ v.key \in Nat
        /\ v.conn.num <= sconn[v.conn.peer] /\ v.key <= matchkey[v.conn.peer]
        /\ v.key = matchkey[v.conn.peer] => v.conn.num = sconn[v.conn.peer]
    BY KeyTypes DEF Known
  <2>2. CASE v.conn.peer = s
    <3>1. v.conn.num <= n /\ v.key <= matchkey[s] + 1 /\ v.key # matchkey[s] + 1
      BY <1>4, <2>1, <2>2
    <3> QED
      BY <1>2, <1>4, <2>1, <2>2, <3>1 DEF Known
  <2>3. CASE v.conn.peer # s
    BY <1>2, <1>4, <2>1, <2>3 DEF Known
  <2> QED
    BY <2>2, <2>3
<1>6. Known(Value(x))'
  BY <1>2, <1>4 DEF Known
<1>7. KeysInv'
  BY <1>3, <1>5, <1>6 DEF KeysInv
<1>8. OnceInv'
  <2>1. Value(x) \notin Range(values) /\ \A c \in Clients : grant[c] # Value(x)
    BY <1>2, <1>5, KeyTypes DEF KeysInv
  <2> QED
    BY <1>3, <2>1 DEF OnceInv, KeyHandedOutOnce
<1>9. ASSUME NEW c, c.peer \in Servers, c.num \in Nat, c.num <= sconn[c.peer], Current(c)'
      PROVE  Current(c) /\ (c.peer = s => n = sconn[s] /\ c.num = n)
  <2>1. CASE c.peer = s
    BY <1>4, <1>9, <2>1 DEF Current, ServerUp
  <2>2. CASE c.peer # s
    BY <1>4, <1>9, <2>2 DEF Current, ServerUp
  <2> QED
    BY <2>1, <2>2
<1>10. PutInv'
  <2> SUFFICES ASSUME NEW m \in inbox', m.code = "PUT", Current(m.conn)'
               PROVE  m.key = matchkey'[m.conn.peer] /\ spc'[m.conn.peer] = "put"
    BY DEF PutInv
  <2>1. CASE m = x
    BY <1>2, <1>4, <2>1
  <2>2. CASE m \in inbox
    <3>1. m.conn.peer \in Servers /\ m.conn.num \in Nat /\ m.conn.num <= sconn[m.conn.peer]
      BY <1>1, <2>2, MessageTypes DEF KeysInv, Known, Value
    <3>2. Current(m.conn)
      BY <1>9, <3>1
    <3>3. m.key = matchkey[m.conn.peer] /\ spc[m.conn.peer] = "put"
      BY <2>2, <3>2 DEF PutInv
    <3> QED
      BY <1>4, <3>1, <3>3
  <2> QED
    BY <1>3, <2>1, <2>2
<1>11. PutterInv'
  <2> SUFFICES ASSUME putter # NoConn
               PROVE  /\ tpc = "schedule" /\ putter \in ServerConns /\ putter.num <= sconn'[putter.peer]
                      /\ Current(putter)' =>
                           /\ spc'[putter.peer] = "put"
                           /\ \A m \in inbox' : m.code = "PUT" => m.conn # putter
    BY DEF PutterInv
  <2>1. /\ tpc = "schedule" /\ putter \in ServerConns /\ putter.num <= sconn[putter.peer]
        /\ Current(putter) =>
             spc[putter.peer] = "put" /\ \A m \in inbox : m.code = "PUT" => m.conn # putter
    BY DEF PutterInv
  <2>2. putter.peer \in Servers /\ putter.num \in Nat
    BY <2>1 DEF ServerConns
  <2>3. putter.num <= sconn'[putter.peer]
    BY <1>4, <2>1, <2>2
  <2>4. ASSUME Current(putter)' PROVE putter.peer # s /\ Current(putter)
    BY <1>9, <2>1, <2>2, <2>4
  <2> QED
    BY <1>2, <1>3, <1>4, <2>1, <2>2, <2>3, <2>4
<1>12. FreeEntryIsCurrent'
  <2> SUFFICES ASSUME NEW v \in Range(values), ServerUp(v.conn.peer)', v.conn.num = sconn'[v.conn.peer]
               PROVE  v.key = matchkey'[v.conn.peer] /\ spc'[v.conn.peer] \in {"put", "listen", "ping"}
    BY DEF FreeEntryIsCurrent
  <2>1. /\ v.conn.peer \in Servers /\ v.conn.num \in Nat /\ v.conn.num <= sconn[v.conn.peer]
        /\ v.conn = Conn(v.conn.peer, v.conn.num)
    BY KeyTypes DEF KeysInv, Known
  <2>2. v.conn.peer # s
    BY <1>4, <2>1
  <2> QED
    BY <1>4, <2>1, <2>2 DEF FreeEntryIsCurrent, ServerUp
<1>13. OffersAreOpen'
  BY DEF OffersAreOpen
<1> QED
  BY <1>7, <1>8, <1>10, <1>11, <1>12, <1>13 DEF KeySide

LEMMA HeapKept ==
  ASSUME Inv, requests' \subseteq requests, UNCHANGED request_cnt
  PROVE  HeapInv'
BY FS_Subset DEF Inv, HeapInv

\* Requests disappear; a client moves on that has none under way, or leaves.
LEMMA RequestKept ==
  ASSUME Inv, UNCHANGED cconn, requests' \subseteq requests,
         \A m \in inbox' : m.code = "REQUEST" => m \in inbox,
         \A c \in Clients : \/ cpc'[c] = cpc[c] \/ cpc'[c] \in Away
                            \/ cpc[c] \in {"request", "granted", "connecting", "session"}
  PROVE  RequestInv'
<1> USE DEF Inv
<1>1. ASSUME NEW c, c.peer \in Clients, Asking(c)'
      PROVE  Asking(c) /\ (cpc[c.peer] = "waiting" => cpc'[c.peer] = "waiting")
  BY <1>1 DEF Asking, Away
<1>2. ASSUME NEW r \in requests'
      PROVE  /\ r.conn.num <= cconn[r.conn.peer]
             /\ Asking(r.conn)' =>
                  cpc'[r.conn.peer] = "waiting" /\ \A q \in requests' : q.conn = r.conn => q = r
  <2>1. r \in requests /\ r.conn.peer \in Clients
    BY DEF TrackerTypes, Requests, ClientConns
  <2>2. Asking(r.conn)' => Asking(r.conn) /\ (cpc[r.conn.peer] = "waiting" => cpc'[r.conn.peer] = "waiting")
    BY <1>1, <2>1
  <2> QED
    BY <2>1, <2>2 DEF RequestInv
<1>3. ASSUME NEW m \in inbox', m.code = "REQUEST"
      PROVE  /\ m.conn.num <= cconn[m.conn.peer]
             /\ Asking(m.conn)' =>
                  cpc'[m.conn.peer] = "waiting" /\ \A q \in requests' : q.conn # m.conn
  <2>1. m \in inbox /\ m.conn.peer \in Clients
    BY <1>3, MessageTypes DEF TrackerTypes
  <2>2. Asking(m.conn)' => Asking(m.conn) /\ (cpc[m.conn.peer] = "waiting" => cpc'[m.conn.peer] = "waiting")
    BY <1>1, <2>1
  <2> QED
    BY <1>3, <2>1, <2>2 DEF RequestInv
<1> QED
  BY <1>2, <1>3 DEF RequestInv

LEMMA BacklogTypes ==
  ASSUME Inv, NEW s \in Servers, NEW i \in DOMAIN backlog[s]
  PROVE  /\ backlog[s][i].client \in Clients /\ backlog[s][i].key \in Nat \ {0}
         /\ backlog[s][i] \in Dials
<1>1. backlog[s] \in Seq(Dials)
  BY DEF Inv, ServerTypes
<1>2. backlog[s][i] \in Dials
  BY <1>1
<1> QED
  BY <1>2 DEF Dials

\* A client that dialled waits, or dies.
LEMMA BacklogKept ==
  ASSUME Inv, UNCHANGED backlog,
         \A c \in Clients : cpc[c] \in {"connecting", "dead"} =>
           grant'[c] = grant[c] /\ cpc'[c] \in {cpc[c], "dead"}
  PROVE  BacklogInv'
<1> SUFFICES ASSUME NEW s \in Servers, NEW i \in DOMAIN backlog[s]
             PROVE  LET d == backlog[s][i] IN
                    /\ grant'[d.client] # NoGrant /\ grant'[d.client].conn.peer = s
                    /\ grant'[d.client].key = d.key
                    /\ cpc'[d.client] \in {"connecting", "dead"}
                    /\ \A j \in DOMAIN backlog[s] : backlog[s][j].client = d.client => j = i
  BY DEF BacklogInv
<1> QED
  BY BacklogTypes DEF Inv, BacklogInv

\* No session begins; one that goes on keeps its server.
LEMMA SessionKept ==
  ASSUME Inv,
         \A c \in Clients : cpc'[c] = "session" =>
           /\ cpc[c] = "session" /\ grant'[c] = grant[c]
           /\ spc'[grant[c].conn.peer] = "serve"
           /\ matchkey'[grant[c].conn.peer] = matchkey[grant[c].conn.peer]
  PROVE  OneClientPerServer'
<1>1. \A d \in Clients : \A s : InSession(d, s)' => InSession(d, s)
  BY DEF InSession
<1> SUFFICES ASSUME NEW c \in Clients, cpc'[c] = "session"
             PROVE  /\ spc'[grant'[c].conn.peer] = "serve"
                    /\ matchkey'[grant'[c].conn.peer] = grant'[c].key
                    /\ \A d \in Clients \ {c} : ~InSession(d, grant[c].conn.peer)'
  BY DEF OneClientPerServer, InSession
<1> QED
  BY <1>1 DEF Inv, OneClientPerServer

ClientSide == HeapInv /\ RequestInv /\ BacklogInv /\ GrantInv /\ OneClientPerServer

\* Clients do nothing, and servers in a session stay in it.
LEMMA ClientSideKept ==
  ASSUME Inv, UNCHANGED <<request_cnt, cpc, cconn, grant, backlog>>, requests' \subseteq requests,
         \A m \in inbox' : m.code = "REQUEST" => m \in inbox,
         \A s \in Servers : spc[s] = "serve" => spc'[s] = "serve" /\ matchkey'[s] = matchkey[s]
  PROVE  ClientSide'
<1>1. HeapInv' /\ RequestInv' /\ BacklogInv'
  BY HeapKept, RequestKept, BacklogKept
<1>2. GrantInv'
  BY DEF Inv, GrantInv
<1>3. \A c \in Clients : cpc[c] = "session" => grant[c].conn.peer \in Servers
  BY KeyTypes DEF Inv, GrantInv, ClientTypes
<1>4. OneClientPerServer'
  BY <1>3, SessionKept DEF Inv, OneClientPerServer
<1> QED
  BY <1>1, <1>2, <1>4 DEF ClientSide

LEMMA Standing ==
  ASSUME NEW c, c.peer \in Servers, ~Gone(c)
  PROVE  Current(c)
BY DEF Gone, Current, ServerUp

LEMMA Calling ==
  ASSUME NEW c, c.peer \in Clients, ~Gone(c)
  PROVE  Asking(c)
BY DEF Gone, Asking, Away

----------------------------------------------------------------------------
(***************************************************************************)
(* The steps of the tracker.                                               *)
(***************************************************************************)
LEMMA InitInv == Init => Inv
<1> SUFFICES ASSUME Init PROVE Inv
  OBVIOUS
<1> USE DEF Init
<1>1. Range(values) = {} /\ Distinct(values) /\ values \in Seq(Keys)
  BY DEF Range, Distinct
<1>2. TrackerTypes
  BY <1>1 DEF TrackerTypes
<1>3. ServerTypes
  <2>1. <<>> \in Seq(Dials)
    OBVIOUS
  <2> QED
    BY <2>1 DEF ServerTypes, ServerUp
<1>4. ClientTypes
  BY RetryAssumption DEF ClientTypes, Away
<1>5. KeySide
  BY <1>1 DEF KeySide, KeysInv, OnceInv, PutInv, PutterInv, FreeEntryIsCurrent, OffersAreOpen,
              KeyHandedOutOnce
<1>6. IsFiniteSet(requests)
  BY FS_EmptySet
<1>7. ClientSide
  BY <1>6 DEF ClientSide, HeapInv, RequestInv, BacklogInv, GrantInv, OneClientPerServer
<1> QED
  BY <1>2, <1>3, <1>4, <1>5, <1>7 DEF Inv, KeySide, ClientSide

LEMMA TrackerPutInv == \A m \in inbox : Inv /\ TrackerPut(m) => Inv'
<1> SUFFICES ASSUME NEW m \in inbox, Inv, TrackerPut(m) PROVE Inv'
  OBVIOUS
<1>1. PICK v : v = Value(m)
  OBVIOUS
<1>2. /\ m.code = "PUT" /\ m.conn \in open /\ pending' = pending \cup {v}
      /\ values' = Append(values, v) /\ inbox' = inbox \ {m} /\ tpc' = "schedule"
      /\ putter' = m.conn /\ tpc = "idle"
      /\ UNCHANGED <<requests, request_cnt, open, lost, backlog, serverVars, clientVars>>
  BY <1>1 DEF TrackerPut, Value
<1>3. UNCHANGED <<spc, sconn, matchkey, unmatch, cpc, cconn, grant, tries>>
  BY <1>2 DEF serverVars, clientVars
<1>4. /\ m \in Messages /\ m.conn \in ServerConns /\ m.conn.peer \in Servers /\ m.conn \in Conns
      /\ v \in Keys /\ v.conn = m.conn /\ v.key = m.key /\ values \in Seq(Keys)
      /\ inbox \subseteq Messages
  BY <1>1, <1>2, MessageTypes DEF Inv, TrackerTypes, Value
<1>5. /\ v \notin Range(values) /\ Known(v) /\ \A c \in Clients : grant[c] # v
      /\ Distinct(values) /\ pending = Range(values)
  BY <1>1, <1>2 DEF Inv, OnceInv, KeysInv
<1>6. /\ values' \in Seq(Keys) /\ Range(values') = Range(values) \cup {v} /\ Distinct(values')
  BY <1>2, <1>4, <1>5, AppendLemma
<1>7. \A k \in inbox : k.code = "PUT" /\ Value(k) = v => k = m
  BY <1>1, <1>2, <1>4, MessageTypes DEF Value
<1>8. TrackerTypes'
  BY <1>2, <1>4, <1>6 DEF Inv, TrackerTypes
<1>9. ServerTypes' /\ ClientTypes'
  BY <1>2, <1>3 DEF Inv, ServerTypes, ClientTypes, ServerUp
<1>10. \A w : Known(w)' <=> Known(w)
  BY <1>3 DEF Known
<1>11. KeysInv'
  BY <1>2, <1>3, <1>5, <1>6, <1>10 DEF Inv, KeysInv
<1>12. OnceInv'
  <2>1. KeyHandedOutOnce'
    BY <1>2, <1>3, <1>5, <1>6 DEF Inv, OnceInv, KeyHandedOutOnce
  <2>2. \A k \in inbox' : k.code = "PUT" =>
          Value(k) \notin Range(values') /\ \A c \in Clients : grant[c] # Value(k)
    BY <1>2, <1>6, <1>7 DEF Inv, OnceInv
  <2> QED
    BY <1>2, <1>3, <1>5, <1>6, <2>1, <2>2 DEF OnceInv
<1>13. \A c : Current(c)' <=> Current(c)
  BY <1>3 DEF Current, ServerUp
<1>14. PutInv'
  BY <1>2, <1>3, <1>13 DEF Inv, PutInv
<1>15. PutterInv'
  <2>1. m.conn.num <= sconn[m.conn.peer]
    BY <1>4, <1>5 DEF Known
  <2>2. ASSUME Current(m.conn)
        PROVE  spc[m.conn.peer] = "put" /\ \A k \in inbox \ {m} : k.code = "PUT" => k.conn # m.conn
    <3>1. m.key = matchkey[m.conn.peer] /\ spc[m.conn.peer] = "put"
      BY <1>2, <2>2 DEF Inv, PutInv
    <3>2. ASSUME NEW k \in inbox, k.code = "PUT", k.conn = m.conn PROVE k = m
      <4>1. k.key = m.key
        BY <2>2, <3>1, <3>2 DEF Inv, PutInv
      <4> QED
        BY <1>1, <1>7, <3>2, <4>1 DEF Value
    <3> QED
      BY <3>1, <3>2
  <2> QED
    BY <1>2, <1>3, <1>4, <1>13, <2>1, <2>2 DEF PutterInv
<1>16. FreeEntryIsCurrent'
  <2>1. ASSUME ServerUp(v.conn.peer), v.conn.num = sconn[v.conn.peer]
        PROVE  v.key = matchkey[v.conn.peer] /\ spc[v.conn.peer] \in {"put", "listen", "ping"}
    BY <1>2, <1>4, <2>1 DEF Inv, PutInv, Current
  <2> QED
    BY <1>3, <1>6, <2>1 DEF Inv, FreeEntryIsCurrent, ServerUp
<1>17. OffersAreOpen'
  BY <1>2, <1>4, <1>6 DEF Inv, OffersAreOpen
<1>18. ClientSide'
  BY <1>2, <1>3, ClientSideKept
<1> QED
  BY <1>8, <1>9, <1>11, <1>12, <1>14, <1>15, <1>16, <1>17, <1>18 DEF Inv, ClientSide

LEMMA TrackerRequestInv == \A m \in inbox : Inv /\ TrackerRequest(m) => Inv'
<1> SUFFICES ASSUME NEW m \in inbox, Inv, TrackerRequest(m) PROVE Inv'
  OBVIOUS
<1>1. PICK x : x = [conn |-> m.conn, priority |-> Priority[m.conn.peer], cnt |-> request_cnt]
  OBVIOUS
<1>2. /\ tpc = "idle" /\ m.code = "REQUEST" /\ m.conn \in open /\ requests' = requests \cup {x}
      /\ request_cnt' = request_cnt + 1 /\ inbox' = inbox \ {m} /\ tpc' = "schedule"
      /\ UNCHANGED <<values, pending, open, putter, lost, backlog, serverVars, clientVars>>
  BY <1>1 DEF TrackerRequest
<1>3. UNCHANGED <<spc, sconn, matchkey, unmatch, cpc, cconn, grant, tries>>
  BY <1>2 DEF serverVars, clientVars
<1>4. /\ m.conn \in ClientConns /\ m.conn.peer \in Clients /\ request_cnt \in Nat
      /\ requests \subseteq Requests /\ inbox \subseteq Messages
  BY <1>2, MessageTypes DEF Inv, TrackerTypes
<1>5. x \in Requests /\ x.conn = m.conn /\ x.cnt = request_cnt
  BY <1>1, <1>4, PriorityAssumption DEF Requests
<1>6. TrackerTypes'
  BY <1>2, <1>4, <1>5 DEF Inv, TrackerTypes
<1>7. ServerTypes' /\ ClientTypes'
  BY <1>2, <1>3 DEF Inv, ServerTypes, ClientTypes, ServerUp
<1>8. KeySide'
  <2>1. Distinct(values) /\ pending = Range(values) /\ \A v \in Range(values) : v.conn \in open
    BY DEF Inv, OnceInv, OffersAreOpen
  <2> QED
    BY <1>2, <1>3, <2>1, KeySideKept
<1>9. HeapInv'
  <2>1. \A r \in requests : r.cnt \in Nat /\ r.cnt < request_cnt
    BY <1>4 DEF Inv, HeapInv, Requests
  <2>2. IsFiniteSet(requests')
    BY <1>2, FS_AddElement DEF Inv, HeapInv
  <2>3. \A r \in requests' : r.cnt < request_cnt'
    BY <1>2, <1>4, <1>5, <2>1
  <2>4. \A q, r \in requests' : q.cnt = r.cnt => q = r
    BY <1>2, <1>4, <1>5, <2>1 DEF Inv, HeapInv
  <2> QED
    BY <2>2, <2>3, <2>4 DEF HeapInv
<1>10. RequestInv'
  <2>1. \A c : Asking(c)' <=> Asking(c)
    BY <1>3 DEF Asking
  <2>2. /\ m.conn.num <= cconn[m.conn.peer]
        /\ Asking(m.conn) => cpc[m.conn.peer] = "waiting" /\ \A q \in requests : q.conn # m.conn
    BY <1>2 DEF Inv, RequestInv
  <2>3. \A k \in inbox : k.code = "REQUEST" /\ k.conn = m.conn => k = m
    BY <1>2, <1>4, MessageTypes
  <2>4. ASSUME NEW r \in requests'
        PROVE  /\ r.conn.num <= cconn[r.conn.peer]
               /\ Asking(r.conn) =>
                    cpc[r.conn.peer] = "waiting" /\ \A q \in requests' : q.conn = r.conn => q = r
    BY <1>2, <1>5, <2>2 DEF Inv, RequestInv
  <2>5. ASSUME NEW k \in inbox', k.code = "REQUEST"
        PROVE  /\ k.conn.num <= cconn[k.conn.peer]
               /\ Asking(k.conn) =>
                    cpc[k.conn.peer] = "waiting" /\ \A q \in requests' : q.conn # k.conn
    BY <1>2, <1>5, <2>3, <2>5 DEF Inv, RequestInv
  <2> QED
    BY <1>3, <2>1, <2>4, <2>5 DEF RequestInv
<1>11. BacklogInv' /\ GrantInv' /\ OneClientPerServer'
  BY <1>2, <1>3 DEF Inv, BacklogInv, GrantInv, OneClientPerServer, InSession
<1> QED
  BY <1>6, <1>7, <1>8, <1>9, <1>10, <1>11 DEF Inv, KeySide

\* A key that is missing for so long is not free, or the tracker would have
\* reported it: the server may make a new one.
LEMMA TrackerPingInv == \A m \in inbox : Inv /\ TrackerPing(m) => Inv'
<1> SUFFICES ASSUME NEW m \in inbox, Inv, TrackerPing(m) PROVE Inv'
  OBVIOUS
<1> DEFINE s == m.conn.peer
           answered == ~Gone(m.conn) /\ spc[s] = "ping"
           count == UnmatchCount(m.conn)
           regenerate == count * 2 > 4 + 2
<1>1. /\ m.code = "PING" /\ m.conn \in open
      /\ UNCHANGED <<trackerVars, lost, backlog, sconn, clientVars>>
  BY DEF TrackerPing
<1>2. UNCHANGED <<values, requests, request_cnt, pending, open, tpc, putter, cpc, cconn, grant, tries>>
  BY <1>1 DEF trackerVars, clientVars
<1>3. /\ s \in Servers /\ m.conn.num \in Nat \ {0} /\ m.conn = Conn(s, m.conn.num)
      /\ inbox \subseteq Messages
  BY <1>1, MessageTypes DEF Inv, TrackerTypes, ServerConns, Conn
<1>4. /\ unmatch \in [Servers -> 0 .. 3] /\ matchkey \in [Servers -> Nat] /\ sconn \in [Servers -> Nat]
      /\ spc \in [Servers -> {"connect", "put", "listen", "ping", "serve", "dead"}]
      /\ \A t \in Servers : ServerUp(t) => sconn[t] # 0
  BY DEF Inv, ServerTypes
<1>5. count \in 0 .. 4 /\ (regenerate <=> count = 4)
  <2>1. unmatch[s] \in 0 .. 3
    BY <1>3, <1>4
  <2>2. count = 0 \/ count = unmatch[s] + 1
    BY DEF UnmatchCount
  <2> QED
    BY <2>1, <2>2
<1>6. Distinct(values) /\ pending = Range(values) /\ \A v \in Range(values) : v.conn \in open
  BY DEF Inv, OnceInv, OffersAreOpen
<1>7. TrackerTypes => open \subseteq Conns /\ lost \subseteq Conns
  BY DEF TrackerTypes
<1>8. ClientTypes'
  BY <1>2 DEF Inv, ClientTypes
<1>9. CASE answered /\ regenerate
  <2>1. /\ matchkey' = [matchkey EXCEPT ![s] = @ + 1]
        /\ inbox' = (inbox \ {m}) \cup {[code |-> "PUT", conn |-> m.conn, key |-> matchkey[s] + 1]}
        /\ spc' = [spc EXCEPT ![s] = "put"] /\ unmatch' = [unmatch EXCEPT ![s] = 0]
    BY <1>9 DEF TrackerPing, ping_period, unmatch_timeout
  <2>2. Current(m.conn) /\ spc[s] = "ping" /\ count # 0
    BY <1>3, <1>5, <1>9, Standing
  <2>3. m.conn.num = sconn[s] /\ ServerUp(s) /\ matchkey[s] \notin PendingMatchkeys(m.conn)
    BY <2>2 DEF Current, UnmatchCount
  <2>4. ASSUME NEW v \in Range(values) PROVE v.conn # m.conn
    <3> SUFFICES ASSUME v.conn = m.conn PROVE FALSE
      OBVIOUS
    <3>1. v.key = matchkey[s]
      BY <2>3 DEF Inv, FreeEntryIsCurrent
    <3> QED
      BY <1>6, <2>3, <3>1 DEF PendingMatchkeys
  <2>5. KeySide'
    <3>1. PICK n : n = m.conn.num
      OBVIOUS
    <3>2. /\ n \in Nat \ {0} /\ n = sconn[s] /\ m.conn = Conn(s, n) /\ spc[s] # "put"
          /\ \A v \in Range(values) : v.conn # Conn(s, n)
      BY <1>3, <2>2, <2>3, <2>4, <3>1
    <3>3. sconn' = [sconn EXCEPT ![s] = n]
      BY <1>1, <1>3, <1>4, <3>2
    <3>4. /\ open \subseteq open'
          /\ \A k \in inbox' :
               k \in inbox \/ k = [code |-> "PUT", conn |-> Conn(s, n), key |-> matchkey[s] + 1]
      BY <1>1, <1>2, <2>1, <3>2
    <3> HIDE DEF s
    <3> QED
      BY <1>2, <1>3, <2>1, <2>3, <3>2, <3>3, <3>4, Reported
  <2>6. ClientSide'
    <3>1. \A k \in inbox' : k.code = "REQUEST" => k \in inbox
      BY <2>1
    <3>2. \A t \in Servers : spc[t] = "serve" => spc'[t] = "serve" /\ matchkey'[t] = matchkey[t]
      BY <1>4, <2>1, <2>2
    <3> QED
      BY <1>1, <1>2, <3>1, <3>2, ClientSideKept
  <2>7. TrackerTypes'
    <3>1. [code |-> "PUT", conn |-> m.conn, key |-> matchkey[s] + 1] \in Messages
      <4>1. m.conn \in ServerConns /\ matchkey[s] + 1 \in Nat \ {0}
        BY <1>1, <1>3, <1>4, MessageTypes
      <4> QED
        BY <4>1 DEF Messages
    <3> QED
      BY <1>1, <1>2, <2>1, <3>1 DEF Inv, TrackerTypes
  <2>8. ServerTypes'
    BY <1>1, <1>3, <1>4, <2>1, <2>3 DEF Inv, ServerTypes, ServerUp
  <2> QED
    BY <1>8, <2>5, <2>6, <2>7, <2>8 DEF Inv, KeySide, ClientSide
<1>10. CASE ~(answered /\ regenerate)
  <2>1. /\ inbox' = inbox \ {m}
        /\ spc' = IF answered THEN [spc EXCEPT ![s] = "listen"] ELSE spc
        /\ unmatch' = IF answered THEN [unmatch EXCEPT ![s] = count] ELSE unmatch
        /\ UNCHANGED matchkey
    BY <1>10 DEF TrackerPing, ping_period, unmatch_timeout
  <2>2. \A t \in Servers :
          spc'[t] = spc[t] \/ (spc[t] \in {"listen", "ping"} /\ spc'[t] \in {"listen", "ping"})
    <3>1. CASE answered
      <4>1. spc[s] = "ping" /\ spc' = [spc EXCEPT ![s] = "listen"]
        BY <2>1, <3>1
      <4> HIDE DEF answered, s
      <4> QED
        BY <1>3, <1>4, <4>1
    <3>2. CASE ~answered
      <4>1. spc' = spc
        BY <2>1, <3>2
      <4> QED
        BY <4>1
    <3> QED
      BY <3>1, <3>2
  <2>3. KeySide'
    BY <1>1, <1>2, <1>6, <2>1, <2>2, KeySideKept
  <2>4. ClientSide'
    BY <1>1, <1>2, <2>1, <2>2, ClientSideKept
  <2>5. TrackerTypes'
    BY <1>1, <1>2, <2>1 DEF Inv, TrackerTypes
  <2>6. ServerTypes'
    <3>1. answered => count \in 0 .. 3
      BY <1>5, <1>10
    <3>2. /\ unmatch' \in [Servers -> 0 .. 3]
          /\ spc' \in [Servers -> {"connect", "put", "listen", "ping", "serve", "dead"}]
      BY <1>3, <1>4, <2>1, <3>1
    <3> QED
      BY <1>1, <1>4, <2>1, <2>2, <3>2 DEF Inv, ServerTypes, ServerUp
  <2> QED
    BY <1>8, <2>3, <2>4, <2>5, <2>6 DEF Inv, KeySide, ClientSide
<1> QED
  BY <1>9, <1>10

\* One round of _schedule.  The value that is put back or handed out is the
\* oldest one; the request is one of the heap.
LEMMA ScheduleInv == Inv /\ Schedule => Inv'
<1> SUFFICES ASSUME Inv, Schedule PROVE Inv'
  OBVIOUS
<1>1. PICK r, v : r = FirstRequest /\ v = Head(values)
  OBVIOUS
<1>2. /\ tpc = "schedule" /\ values # <<>> /\ requests # {} /\ requests' = requests \ {r}
      /\ Answer(r, v) \/ AnswerNobody(r, v) \/ AnswerFails(r, v)
      /\ UNCHANGED <<request_cnt, tpc, putter, netVars, serverVars, cconn, tries>>
  BY <1>1 DEF Schedule
<1>3. UNCHANGED <<inbox, lost, backlog, spc, sconn, matchkey, unmatch, cconn, tries, tpc, putter, request_cnt>>
  BY <1>2 DEF netVars, serverVars
<1>4. /\ values \in Seq(Keys) /\ requests \subseteq Requests /\ Distinct(values)
      /\ pending = Range(values) /\ \A w \in Range(values) : w.conn \in open
  BY DEF Inv, TrackerTypes, OnceInv, OffersAreOpen
<1>5. r \in requests /\ r \in Requests /\ r.conn.peer \in Clients
  <2>1. r \in requests
    BY <1>1, <1>2, <1>4, FirstRequestLemma DEF Inv
  <2> QED
    BY <1>4, <2>1 DEF Requests, ClientConns
<1>6. /\ v \in Range(values) /\ v \in Keys /\ Tail(values) \in Seq(Keys)
      /\ Range(Tail(values)) = Range(values) \ {v} /\ Distinct(Tail(values))
  BY <1>1, <1>2, <1>4, TailLemma
<1>7. ServerTypes'
  BY <1>3 DEF Inv, ServerTypes, ServerUp
<1>8. CASE AnswerFails(r, v)
  <2>1. /\ values' = Append(Tail(values), v) /\ pending' = pending /\ open' = open \ {r.conn}
        /\ UNCHANGED <<grant, cpc>>
    BY <1>8 DEF AnswerFails, PutBack
  <2>2. values' \in Seq(Keys) /\ Range(values') = Range(values) /\ Distinct(values')
    <3>1. v \notin Range(Tail(values)) /\ Range(values) = Range(Tail(values)) \cup {v}
      BY <1>6
    <3>2. PICK w \in Seq(Keys) : w = Tail(values)
      BY <1>6
    <3>3. Distinct(w) /\ v \notin Range(w)
      BY <1>6, <3>1, <3>2
    <3>4. /\ Append(w, v) \in Seq(Keys) /\ Range(Append(w, v)) = Range(w) \cup {v}
          /\ Distinct(Append(w, v))
      BY <1>6, <3>3, AppendLemma
    <3> QED
      BY <2>1, <3>1, <3>2, <3>4
  <2>3. \A w \in Range(values') : w.conn \in open'
    <3> SUFFICES ASSUME NEW w \in Range(values) PROVE w.conn # r.conn
      BY <1>4, <2>1, <2>2
    <3>1. w.conn.peer \in Servers
      BY KeyTypes DEF Inv, KeysInv, Known
    <3> QED
      BY <1>5, <3>1, Processes
  <2>4. KeySide'
    BY <1>3, <1>4, <2>1, <2>2, <2>3, KeySideKept
  <2>5. ClientSide'
    BY <1>2, <1>3, <2>1, ClientSideKept
  <2>6. TrackerTypes' /\ ClientTypes'
    BY <1>2, <1>3, <2>1, <2>2 DEF Inv, TrackerTypes, ClientTypes
  <2> QED
    BY <1>7, <2>4, <2>5, <2>6 DEF Inv, KeySide, ClientSide
<1>9. CASE AnswerNobody(r, v)
  <2>1. /\ values' = Tail(values) /\ pending' = pending \ {v} /\ UNCHANGED <<grant, cpc, open>>
    BY <1>9 DEF AnswerNobody, HandOut
  <2>2. /\ Range(values') \subseteq Range(values) /\ Distinct(values') /\ pending' = Range(values')
        /\ \A w \in Range(values') : w.conn \in open'
    BY <1>4, <1>6, <2>1
  <2>3. KeySide'
    BY <1>3, <2>1, <2>2, KeySideKept
  <2>4. ClientSide'
    BY <1>2, <1>3, <2>1, ClientSideKept
  <2>5. TrackerTypes' /\ ClientTypes'
    BY <1>2, <1>3, <1>6, <2>1 DEF Inv, TrackerTypes, ClientTypes
  <2> QED
    BY <1>7, <2>3, <2>4, <2>5 DEF Inv, KeySide, ClientSide
<1>10. CASE Answer(r, v)
  <2>1. PICK c \in Clients : c = r.conn.peer
    BY <1>5
  <2>2. /\ values' = Tail(values) /\ pending' = pending \ {v} /\ open' = open
        /\ grant' = [grant EXCEPT ![c] = v] /\ cpc' = [cpc EXCEPT ![c] = "granted"]
        /\ ~Gone(r.conn)
    BY <1>10, <2>1 DEF Answer, HandOut
  <2>3. /\ grant \in [Clients -> Keys \cup {NoGrant}]
        /\ cpc \in [Clients -> {"connect", "request", "waiting", "granted", "connecting",
                                "session", "done", "failed", "dead"}]
    BY DEF Inv, ClientTypes
  <2>4. /\ grant'[c] = v /\ cpc'[c] = "granted"
        /\ \A d \in Clients : d # c => grant'[d] = grant[d] /\ cpc'[d] = cpc[d]
    BY <2>2, <2>3
  <2>5. Asking(r.conn)
    BY <1>5, <2>2, Calling
  <2>6. /\ cpc[c] = "waiting" /\ r.conn.num = cconn[c]
        /\ \A q \in requests : q.conn = r.conn => q = r
    BY <1>5, <2>1, <2>5 DEF Inv, RequestInv, Asking
  <2>7. Range(values') = Range(values) \ {v} /\ Distinct(values') /\ pending' = Range(values')
    BY <1>4, <1>6, <2>2
  <2>8. TrackerTypes'
    BY <1>2, <1>3, <1>6, <2>2 DEF Inv, TrackerTypes
  <2>9. ClientTypes'
    <3>1. /\ grant' \in [Clients -> Keys \cup {NoGrant}]
          /\ cpc' \in [Clients -> {"connect", "request", "waiting", "granted", "connecting",
                                   "session", "done", "failed", "dead"}]
      BY <1>6, <2>2, <2>3
    <3> QED
      BY <1>3, <2>4, <2>6, <3>1 DEF Inv, ClientTypes, Away
  <2>10. \A w : Known(w)' <=> Known(w)
    BY <1>3 DEF Known
  <2>11. KeysInv'
    <3>1. Known(v)
      BY <1>6 DEF Inv, KeysInv
    <3> QED
      BY <1>3, <2>4, <2>7, <2>10, <3>1 DEF Inv, KeysInv
  <2>12. OnceInv'
    <3>1. ASSUME NEW m \in inbox, m.code = "PUT"
          PROVE  Value(m) \notin Range(values') /\ \A d \in Clients : grant'[d] # Value(m)
      BY <1>6, <2>4, <2>7, <3>1 DEF Inv, OnceInv
    <3>2. \A d \in Clients : grant[d] # v
      BY <1>6, KeyTypes DEF Inv, OnceInv, KeyHandedOutOnce
    <3>3. KeyHandedOutOnce'
      <4> SUFFICES ASSUME NEW d \in Clients, grant'[d] # NoGrant
                   PROVE  /\ grant'[d] \notin Range(values') \cup pending'
                          /\ \A e \in Clients \ {d} : grant'[e] # grant'[d]
        BY DEF KeyHandedOutOnce
      <4>1. CASE d = c
        BY <2>4, <2>7, <3>2, <4>1
      <4>2. CASE d # c
        BY <2>4, <2>7, <3>2, <4>2 DEF Inv, OnceInv, KeyHandedOutOnce
      <4> QED
        BY <4>1, <4>2
    <3> QED
      BY <1>3, <2>7, <3>1, <3>3 DEF OnceInv
  <2>13. \A x : Current(x)' <=> Current(x)
    BY <1>3 DEF Current, ServerUp
  <2>14. PutInv' /\ PutterInv'
    BY <1>3, <2>13 DEF Inv, PutInv, PutterInv
  <2>15. FreeEntryIsCurrent' /\ OffersAreOpen'
    BY <1>3, <2>2, <2>7 DEF Inv, FreeEntryIsCurrent, OffersAreOpen, ServerUp
  <2>16. HeapInv'
    BY <1>2, <1>3, HeapKept
  <2>17. RequestInv'
    <3>1. ASSUME NEW x, x.peer \in Clients, Asking(x)'
          PROVE  Asking(x) /\ (x.peer = c => x.num = cconn[c])
      BY <1>3, <2>4, <2>6, <3>1 DEF Asking, Away
    <3>2. ASSUME NEW x \in ClientConns, x.peer = c, x.num = cconn[c] PROVE x = r.conn
      BY <1>5, <2>1, <2>6, <3>2 DEF Requests, ClientConns
    <3>3. ASSUME NEW q \in requests', Asking(q.conn)'
          PROVE  /\ cpc'[q.conn.peer] = "waiting"
                 /\ \A p \in requests' : p.conn = q.conn => p = q
      <4>1. q \in requests /\ q # r /\ q.conn \in ClientConns /\ q.conn.peer \in Clients
        BY <1>2, <1>4 DEF Requests, ClientConns
      <4>2. q.conn.peer # c
        BY <2>6, <3>1, <3>2, <3>3, <4>1
      <4>3. Asking(q.conn)
        BY <3>1, <3>3, <4>1
      <4> QED
        BY <1>2, <2>4, <4>1, <4>2, <4>3 DEF Inv, RequestInv
    <3>4. ASSUME NEW m \in inbox, m.code = "REQUEST", Asking(m.conn)'
          PROVE  cpc'[m.conn.peer] = "waiting" /\ \A q \in requests' : q.conn # m.conn
      <4>1. m.conn \in ClientConns /\ m.conn.peer \in Clients
        BY <3>4, MessageTypes DEF Inv, TrackerTypes
      <4>2. Asking(m.conn)
        BY <3>1, <3>4, <4>1
      <4>3. cpc[m.conn.peer] = "waiting" /\ \A q \in requests : q.conn # m.conn
        BY <3>4, <4>2 DEF Inv, RequestInv
      <4>4. m.conn.peer # c
        BY <1>5, <3>1, <3>2, <3>4, <4>1, <4>3
      <4> QED
        BY <1>2, <2>4, <4>1, <4>3, <4>4
    <3> QED
      BY <1>2, <1>3, <3>3, <3>4 DEF Inv, RequestInv
  <2>18. BacklogInv'
    BY <1>3, <2>4, <2>6, BacklogKept
  <2>19. GrantInv'
    BY <1>6, <2>4, KeyTypes DEF Inv, GrantInv
  <2>20. OneClientPerServer'
    <3>1. \A d \in Clients : cpc'[d] = "session" => d # c
      BY <2>4
    <3> QED
      BY <1>3, <2>4, <3>1, SessionKept DEF Inv, OneClientPerServer
  <2> QED
    BY <1>7, <2>8, <2>9, <2>11, <2>12, <2>14, <2>15, <2>16, <2>17, <2>18, <2>19, <2>20 DEF Inv
<1> QED
  BY <1>2, <1>8, <1>9, <1>10

\* SUCCESS reaches the server whose PUT was handled, and no other PUT of it is
\* on its way.
LEMMA ScheduleDoneInv == Inv /\ ScheduleDone => Inv'
<1> SUFFICES ASSUME Inv, ScheduleDone PROVE Inv'
  OBVIOUS
<1>1. /\ tpc' = "idle" /\ putter' = NoConn
      /\ spc' = [s \in Servers |->
                   IF putter.peer = s /\ ~Gone(putter) /\ spc[s] = "put" THEN "listen" ELSE spc[s]]
      /\ UNCHANGED <<values, requests, request_cnt, pending, open, netVars,
                     sconn, matchkey, unmatch, clientVars>>
  BY DEF ScheduleDone
<1>2. UNCHANGED <<inbox, lost, backlog, cpc, cconn, grant, tries>>
  BY <1>1 DEF netVars, clientVars
<1>3. /\ spc \in [Servers -> {"connect", "put", "listen", "ping", "serve", "dead"}]
      /\ \A s \in Servers : spc'[s] = spc[s] \/
           (/\ spc[s] = "put" /\ spc'[s] = "listen" /\ putter.peer = s /\ ~Gone(putter))
  BY <1>1 DEF Inv, ServerTypes
<1>4. ASSUME NEW s \in Servers, spc'[s] # spc[s]
      PROVE  \A m \in inbox : m.code = "PUT" /\ m.conn.peer = s => m.conn.num # sconn[s]
  <2>1. putter.peer = s /\ ~Gone(putter)
    BY <1>3, <1>4
  <2>2. putter # NoConn
    BY <2>1, Processes DEF NoConn
  <2>3. Current(putter) /\ putter \in ServerConns
    BY <2>1, <2>2, Standing DEF Inv, PutterInv
  <2>4. putter.num = sconn[s] /\ \A m \in inbox : m.code = "PUT" => m.conn # putter
    BY <2>1, <2>2, <2>3 DEF Inv, PutterInv, Current
  <2>5. ASSUME NEW m \in inbox, m.code = "PUT", m.conn.peer = s, m.conn.num = sconn[s]
        PROVE  m.conn = putter
    <3>1. m.conn \in ServerConns
      BY <2>5, MessageTypes DEF Inv, TrackerTypes
    <3> QED
      BY <2>1, <2>3, <2>4, <2>5, <3>1 DEF ServerConns
  <2> QED
    BY <2>4, <2>5
<1>5. TrackerTypes' /\ ClientTypes'
  BY <1>1, <1>2 DEF Inv, TrackerTypes, ClientTypes
<1>6. ServerTypes'
  <2>1. spc' \in [Servers -> {"connect", "put", "listen", "ping", "serve", "dead"}]
    BY <1>1, <1>3
  <2>2. \A s \in Servers : ServerUp(s)' => ServerUp(s)
    BY <1>3 DEF ServerUp
  <2> QED
    BY <1>1, <1>2, <2>1, <2>2 DEF Inv, ServerTypes
<1>7. \A v : Known(v)' <=> Known(v)
  BY <1>1 DEF Known
<1>8. KeysInv' /\ OnceInv' /\ OffersAreOpen'
  BY <1>1, <1>2, <1>7 DEF Inv, KeysInv, OnceInv, OffersAreOpen, KeyHandedOutOnce
<1>9. PutInv'
  <2> SUFFICES ASSUME NEW m \in inbox, m.code = "PUT", Current(m.conn)'
               PROVE  m.key = matchkey[m.conn.peer] /\ spc'[m.conn.peer] = "put"
    BY <1>1, <1>2 DEF PutInv
  <2>1. m.conn.peer \in Servers
    BY MessageTypes DEF Inv, TrackerTypes
  <2>2. spc'[m.conn.peer] = spc[m.conn.peer]
    BY <1>1, <1>4, <2>1 DEF Current
  <2>3. Current(m.conn)
    BY <1>1, <2>2 DEF Current, ServerUp
  <2> QED
    BY <2>2, <2>3 DEF Inv, PutInv
<1>10. PutterInv'
  BY <1>1 DEF PutterInv
<1>11. FreeEntryIsCurrent'
  <2> SUFFICES ASSUME NEW v \in Range(values), ServerUp(v.conn.peer)', v.conn.num = sconn[v.conn.peer]
               PROVE  v.key = matchkey[v.conn.peer] /\ spc'[v.conn.peer] \in {"put", "listen", "ping"}
    BY <1>1 DEF FreeEntryIsCurrent
  <2>1. v.conn.peer \in Servers
    BY KeyTypes DEF Inv, KeysInv, Known
  <2> QED
    BY <1>3, <2>1 DEF Inv, FreeEntryIsCurrent, ServerUp
<1>12. ClientSide'
  BY <1>1, <1>2, <1>3, ClientSideKept
<1> QED
  BY <1>5, <1>6, <1>8, <1>9, <1>10, <1>11, <1>12 DEF Inv, ClientSide

LEMMA TrackerCloseInv == \A c \in open : Inv /\ TrackerClose(c) => Inv'
<1> SUFFICES ASSUME NEW c \in open, Inv, TrackerClose(c) PROVE Inv'
  OBVIOUS
<1>1. /\ open' = open \ {c} /\ inbox' = {m \in inbox : m.conn # c}
      /\ values' = WithoutValuesOf(c) /\ pending' = {v \in pending : v.conn # c}
      /\ tpc' = "schedule"
      /\ UNCHANGED <<requests, request_cnt, putter, lost, backlog, serverVars, clientVars>>
  BY DEF TrackerClose
<1>2. UNCHANGED <<spc, sconn, matchkey, unmatch, cpc, cconn, grant, tries>>
  BY <1>1 DEF serverVars, clientVars
<1>3. /\ values \in Seq(Keys) /\ Distinct(values) /\ pending = Range(values)
      /\ \A v \in Range(values) : v.conn \in open
  BY DEF Inv, TrackerTypes, OnceInv, OffersAreOpen
<1>4. /\ values' \in Seq(Keys) /\ Distinct(values')
      /\ Range(values') = {v \in Range(values) : v.conn # c}
  BY <1>1, <1>3, WithoutLemma
<1>5. TrackerTypes'
  BY <1>1, <1>4 DEF Inv, TrackerTypes
<1>6. ServerTypes' /\ ClientTypes'
  BY <1>1, <1>2 DEF Inv, ServerTypes, ClientTypes, ServerUp
<1>7. KeySide'
  BY <1>1, <1>2, <1>3, <1>4, KeySideKept
<1>8. ClientSide'
  BY <1>1, <1>2, ClientSideKept
<1> QED
  BY <1>5, <1>6, <1>7, <1>8 DEF Inv, KeySide, ClientSide

----------------------------------------------------------------------------
(***************************************************************************)
(* The steps of a server.                                                  *)
(***************************************************************************)
LEMMA ServerConnectInv == \A s \in Servers : Inv /\ ServerConnect(s) => Inv'
<1> SUFFICES ASSUME NEW s \in Servers, Inv, ServerConnect(s) PROVE Inv'
  OBVIOUS
<1>1. PICK n : n = sconn[s] + 1
  OBVIOUS
<1>2. PICK x : x = [code |-> "PUT", conn |-> Conn(s, n), key |-> matchkey[s] + 1]
  OBVIOUS
<1>3. /\ spc[s] = "connect" /\ sconn' = [sconn EXCEPT ![s] = n] /\ open' = open \cup {Conn(s, n)}
      /\ matchkey' = [matchkey EXCEPT ![s] = @ + 1] /\ unmatch' = [unmatch EXCEPT ![s] = 0]
      /\ inbox' = inbox \cup {x} /\ spc' = [spc EXCEPT ![s] = "put"]
      /\ UNCHANGED <<values, requests, request_cnt, pending, tpc, putter, lost, backlog, clientVars>>
  BY <1>1, <1>2 DEF ServerConnect, ReportResource
<1>4. UNCHANGED <<cpc, cconn, grant, tries>>
  BY <1>3 DEF clientVars
<1>5. /\ sconn \in [Servers -> Nat] /\ matchkey \in [Servers -> Nat] /\ unmatch \in [Servers -> 0 .. 3]
      /\ spc \in [Servers -> {"connect", "put", "listen", "ping", "serve", "dead"}]
      /\ backlog \in [Servers -> Seq(Dials)] /\ \A t \in Servers : ServerUp(t) => sconn[t] # 0
  BY DEF Inv, ServerTypes
<1>6. n \in Nat \ {0}
  BY <1>1, <1>5
<1>7. KeySide'
  BY <1>1, <1>2, <1>3, <1>4, <1>6, Reported
<1>8. ClientSide'
  <2>1. \A m \in inbox' : m.code = "REQUEST" => m \in inbox
    BY <1>2, <1>3
  <2>2. \A t \in Servers : spc[t] = "serve" => spc'[t] = "serve" /\ matchkey'[t] = matchkey[t]
    BY <1>3, <1>5
  <2> QED
    BY <1>3, <1>4, <2>1, <2>2, ClientSideKept
<1>9. TrackerTypes'
  <2>1. x \in Messages /\ Conn(s, n) \in Conns
    <3>1. Conn(s, n) \in ServerConns /\ Conn(s, n) \in Conns /\ matchkey[s] + 1 \in Nat \ {0}
      BY <1>5, <1>6 DEF Conn, ServerConns, Conns
    <3> QED
      BY <1>2, <3>1 DEF Messages
  <2> QED
    BY <1>3, <2>1 DEF Inv, TrackerTypes
<1>10. ServerTypes'
  BY <1>3, <1>5, <1>6 DEF ServerTypes, ServerUp
<1>11. ClientTypes'
  BY <1>4 DEF Inv, ClientTypes
<1> QED
  BY <1>7, <1>8, <1>9, <1>10, <1>11 DEF Inv, KeySide, ClientSide

LEMMA SelectTimeoutInv == \A s \in Servers : Inv /\ SelectTimeout(s) => Inv'
<1> SUFFICES ASSUME NEW s \in Servers, Inv, SelectTimeout(s) PROVE Inv'
  OBVIOUS
<1>1. PICK x : x = [code |-> "PING", conn |-> Conn(s, sconn[s]), key |-> 0]
  OBVIOUS
<1>2. /\ spc[s] = "listen" /\ spc' = [spc EXCEPT ![s] = "ping"] /\ inbox' = inbox \cup {x}
      /\ UNCHANGED <<trackerVars, lost, backlog, sconn, matchkey, unmatch, clientVars>>
  BY <1>1 DEF SelectTimeout
<1>3. UNCHANGED <<values, requests, request_cnt, pending, open, tpc, putter, cpc, cconn, grant, tries>>
  BY <1>2 DEF trackerVars, clientVars
<1>4. /\ sconn \in [Servers -> Nat]
      /\ spc \in [Servers -> {"connect", "put", "listen", "ping", "serve", "dead"}]
      /\ sconn[s] # 0
  BY <1>2 DEF Inv, ServerTypes, ServerUp
<1>5. Distinct(values) /\ pending = Range(values) /\ \A v \in Range(values) : v.conn \in open
  BY DEF Inv, OnceInv, OffersAreOpen
<1>6. /\ \A m \in inbox' : m.code \in {"PUT", "REQUEST"} => m \in inbox
      /\ \A t \in Servers : t # s => spc'[t] = spc[t]
      /\ spc'[s] = "ping"
  BY <1>1, <1>2, <1>4
<1>7. KeySide'
  BY <1>2, <1>3, <1>5, <1>6, KeySideKept
<1>8. ClientSide'
  BY <1>2, <1>3, <1>6, ClientSideKept
<1>9. TrackerTypes'
  <2>1. x \in Messages
    <3>1. Conn(s, sconn[s]) \in ServerConns
      BY <1>4 DEF Conn, ServerConns
    <3> QED
      BY <1>1, <3>1 DEF Messages
  <2> QED
    BY <1>2, <1>3, <2>1 DEF Inv, TrackerTypes
<1>10. ServerTypes'
  BY <1>2, <1>4 DEF Inv, ServerTypes, ServerUp
<1>11. ClientTypes'
  BY <1>3 DEF Inv, ClientTypes
<1> QED
  BY <1>7, <1>8, <1>9, <1>10, <1>11 DEF Inv, KeySide, ClientSide

LEMMA ServerTrackerErrorInv == \A s \in Servers : Inv /\ ServerTrackerError(s) => Inv'
<1> SUFFICES ASSUME NEW s \in Servers, Inv, ServerTrackerError(s) PROVE Inv'
  OBVIOUS
<1>1. /\ spc[s] \in {"put", "ping"} /\ spc' = [spc EXCEPT ![s] = "connect"]
      /\ UNCHANGED <<trackerVars, netVars, sconn, matchkey, unmatch, clientVars>>
  BY DEF ServerTrackerError
<1>2. UNCHANGED <<values, requests, request_cnt, pending, open, tpc, putter, inbox, lost, backlog,
                  cpc, cconn, grant, tries>>
  BY <1>1 DEF trackerVars, netVars, clientVars
<1>3. spc \in [Servers -> {"connect", "put", "listen", "ping", "serve", "dead"}]
  BY DEF Inv, ServerTypes
<1>4. \A t \in Servers : spc'[t] = (IF t = s THEN "connect" ELSE spc[t])
  BY <1>1, <1>3
<1>5. Distinct(values) /\ pending = Range(values) /\ \A v \in Range(values) : v.conn \in open
  BY DEF Inv, OnceInv, OffersAreOpen
<1>6. KeySide'
  BY <1>1, <1>2, <1>4, <1>5, KeySideKept
<1>7. ClientSide'
  BY <1>1, <1>2, <1>4, ClientSideKept
<1>8. TrackerTypes' /\ ClientTypes'
  BY <1>2 DEF Inv, TrackerTypes, ClientTypes
<1>9. ServerTypes'
  BY <1>1, <1>2, <1>3, <1>4 DEF Inv, ServerTypes, ServerUp
<1> QED
  BY <1>6, <1>7, <1>8, <1>9 DEF Inv, KeySide, ClientSide

LEMMA ServerDoneInv == \A s \in Servers : Inv /\ ServerDone(s) => Inv'
<1> SUFFICES ASSUME NEW s \in Servers, Inv, ServerDone(s) PROVE Inv'
  OBVIOUS
<1>1. PICK n : n = sconn[s]
  OBVIOUS
<1>2. PICK x : x = [code |-> "PUT", conn |-> Conn(s, n), key |-> matchkey[s] + 1]
  OBVIOUS
<1>3. /\ spc[s] = "serve" /\ cpc' = [c \in Clients |-> IF InSession(c, s) THEN "done" ELSE cpc[c]]
      /\ matchkey' = [matchkey EXCEPT ![s] = @ + 1] /\ unmatch' = [unmatch EXCEPT ![s] = 0]
      /\ inbox' = inbox \cup {x} /\ spc' = [spc EXCEPT ![s] = "put"]
      /\ UNCHANGED <<trackerVars, lost, backlog, sconn, cconn, grant, tries>>
  BY <1>1, <1>2 DEF ServerDone, ReportResource
<1>4. UNCHANGED <<values, requests, request_cnt, pending, open, tpc, putter>>
  BY <1>3 DEF trackerVars
<1>5. /\ sconn \in [Servers -> Nat] /\ matchkey \in [Servers -> Nat] /\ unmatch \in [Servers -> 0 .. 3]
      /\ spc \in [Servers -> {"connect", "put", "listen", "ping", "serve", "dead"}]
      /\ backlog \in [Servers -> Seq(Dials)] /\ \A t \in Servers : ServerUp(t) => sconn[t] # 0
      /\ ServerUp(s)
  BY <1>3 DEF Inv, ServerTypes, ServerUp
<1>6. n \in Nat \ {0} /\ sconn' = [sconn EXCEPT ![s] = n]
  BY <1>1, <1>3, <1>5
<1>7. \A v \in Range(values) : v.conn # Conn(s, n)
  <2> SUFFICES ASSUME NEW v \in Range(values), v.conn = Conn(s, n) PROVE FALSE
    OBVIOUS
  <2>1. v.conn.peer = s /\ v.conn.num = sconn[s]
    BY <1>1 DEF Conn
  <2> QED
    BY <1>3, <1>5, <2>1 DEF Inv, FreeEntryIsCurrent
<1>8. Conn(s, n) \in Conns /\ Conn(s, n) \in ServerConns
  BY <1>6 DEF Conn, Conns, ServerConns
<1>9. KeySide'
  BY <1>1, <1>2, <1>3, <1>4, <1>5, <1>6, <1>7, Reported
<1>10. TrackerTypes'
  <2>1. x \in Messages
    BY <1>2, <1>5, <1>8 DEF Messages
  <2> QED
    BY <1>3, <1>4, <2>1 DEF Inv, TrackerTypes
<1>11. ServerTypes'
  BY <1>3, <1>5 DEF ServerTypes, ServerUp
<1>12. /\ cpc \in [Clients -> {"connect", "request", "waiting", "granted", "connecting",
                               "session", "done", "failed", "dead"}]
       /\ \A c \in Clients : (cpc'[c] = cpc[c] \/ (cpc[c] = "session" /\ cpc'[c] = "done"))
                             /\ (cpc'[c] = "session" => grant[c].conn.peer # s)
  BY <1>3 DEF Inv, ClientTypes, InSession
<1>13. ClientTypes'
  <2>1. cpc' \in [Clients -> {"connect", "request", "waiting", "granted", "connecting",
                              "session", "done", "failed", "dead"}]
    BY <1>3, <1>12
  <2> QED
    BY <1>3, <1>12, <2>1 DEF Inv, ClientTypes, Away
<1>14. HeapInv' /\ GrantInv'
  BY <1>3, <1>4, <1>12 DEF Inv, HeapInv, GrantInv
<1>15. RequestInv'
  <2>1. \A m \in inbox' : m.code = "REQUEST" => m \in inbox
    BY <1>2, <1>3
  <2> QED
    BY <1>3, <1>4, <1>12, <2>1, RequestKept DEF Away
<1>16. BacklogInv'
  BY <1>3, <1>12, BacklogKept
<1>17. OneClientPerServer'
  <2>1. \A t \in Servers \ {s} : spc'[t] = spc[t] /\ matchkey'[t] = matchkey[t]
    BY <1>3, <1>5
  <2>2. \A c \in Clients : cpc[c] = "session" => grant[c].conn.peer \in Servers
    BY KeyTypes DEF Inv, GrantInv, ClientTypes
  <2>3. \A c \in Clients : cpc[c] = "session" => spc[grant[c].conn.peer] = "serve"
    BY DEF Inv, OneClientPerServer
  <2> QED
    BY <1>3, <1>12, <2>1, <2>2, <2>3, SessionKept
<1> QED
  BY <1>9, <1>10, <1>11, <1>13, <1>14, <1>15, <1>16, <1>17 DEF Inv, KeySide

\* The first connection is accepted: its client is in no other backlog.
LEMMA BacklogTaken ==
  ASSUME Inv, NEW s \in Servers, NEW b, b = backlog[s], b # <<>>, backlog'[s] = Tail(b),
         \A t \in Servers : t # s => backlog'[t] = backlog[t], UNCHANGED grant,
         \A e \in Clients : e # Head(b).client => cpc'[e] = cpc[e]
  PROVE  BacklogInv'
<1>1. b \in Seq(Dials)
  BY DEF Inv, ServerTypes
<1>2. /\ Len(b) \in Nat /\ DOMAIN b = 1 .. Len(b) /\ Head(b) = b[1] /\ 1 \in DOMAIN b
      /\ DOMAIN Tail(b) = 1 .. Len(b) - 1 /\ \A i \in 1 .. Len(b) - 1 : Tail(b)[i] = b[i + 1]
  BY <1>1
<1>3. \A i \in DOMAIN Tail(b) : i \in Int /\ i + 1 \in DOMAIN b /\ i + 1 # 1 /\ Tail(b)[i] = b[i + 1]
  BY <1>2
<1>4. PICK c : c = Head(b).client /\ c = b[1].client /\ grant[c].conn.peer = s
  BY <1>2 DEF Inv, BacklogInv
<1> SUFFICES ASSUME NEW t \in Servers, NEW i \in DOMAIN backlog'[t]
             PROVE  LET d == backlog'[t][i] IN
                    /\ grant[d.client] # NoGrant /\ grant[d.client].conn.peer = t
                    /\ grant[d.client].key = d.key
                    /\ cpc'[d.client] \in {"connecting", "dead"}
                    /\ \A j \in DOMAIN backlog'[t] : backlog'[t][j].client = d.client => j = i
  BY DEF BacklogInv
<1>5. CASE t = s
  <2>1. i \in DOMAIN Tail(b) /\ backlog'[t] = Tail(b) /\ backlog'[t][i] = b[i + 1]
        /\ i + 1 \in DOMAIN b /\ i + 1 # 1
    BY <1>3, <1>5
  <2>2. PICK e \in Clients : e = b[i + 1].client /\ e # c
    BY <1>2, <1>4, <2>1, BacklogTypes DEF Inv, BacklogInv
  <2>3. \A j \in DOMAIN Tail(b) : Tail(b)[j].client = e => j + 1 = i + 1
    BY <1>3, <2>1, <2>2 DEF Inv, BacklogInv
  <2>4. \A j \in DOMAIN Tail(b) : Tail(b)[j].client = e => j = i
    BY <1>3, <2>1, <2>3
  <2>5. /\ grant[e] # NoGrant /\ grant[e].conn.peer = s /\ grant[e].key = b[i + 1].key
        /\ cpc[e] \in {"connecting", "dead"}
    BY <2>1, <2>2 DEF Inv, BacklogInv
  <2>6. cpc'[e] = cpc[e]
    BY <1>4, <2>2
  <2> QED
    BY <1>5, <2>1, <2>2, <2>4, <2>5, <2>6
<1>6. CASE t # s
  <2>1. backlog'[t] = backlog[t] /\ i \in DOMAIN backlog[t]
    BY <1>6
  <2>2. backlog[t][i].client \in Clients /\ backlog[t][i].client # c
    BY <1>4, <1>6, <2>1, BacklogTypes DEF Inv, BacklogInv
  <2>3. PICK e \in Clients : e = backlog[t][i].client /\ e # c
    BY <2>2
  <2>4. /\ grant[e] # NoGrant /\ grant[e].conn.peer = t /\ grant[e].key = backlog[t][i].key
        /\ cpc[e] \in {"connecting", "dead"}
        /\ \A j \in DOMAIN backlog[t] : backlog[t][j].client = e => j = i
    BY <2>1, <2>3 DEF Inv, BacklogInv
  <2>5. cpc'[e] = cpc[e]
    BY <1>4, <2>3
  <2> QED
    BY <2>1, <2>3, <2>4, <2>5
<1> QED
  BY <1>5, <1>6

\* The key that a client brings and that the server still has is not free: it
\* is the key of that client.
LEMMA ServerAcceptInv == \A s \in Servers : Inv /\ ServerAccept(s) => Inv'
<1> SUFFICES ASSUME NEW s \in Servers, Inv, ServerAccept(s) PROVE Inv'
  OBVIOUS
<1>1. PICK d : d = Head(backlog[s])
  OBVIOUS
<1>2. PICK c : c = d.client
  OBVIOUS
<1>3. /\ spc[s] = "listen" /\ backlog[s] # <<>> /\ backlog' = [backlog EXCEPT ![s] = Tail(@)]
      /\ UNCHANGED <<trackerVars, inbox, lost, sconn, matchkey, unmatch, cconn, grant>>
      /\ \/ /\ d.key = matchkey[s] /\ spc' = [spc EXCEPT ![s] = "serve"]
            /\ cpc' = [cpc EXCEPT ![c] = IF @ = "dead" THEN @ ELSE "session"]
            /\ UNCHANGED tries
         \/ /\ d.key # matchkey[s]
            /\ IF cpc[c] = "dead" THEN UNCHANGED <<cpc, tries>> ELSE Retry(c, "request")
            /\ UNCHANGED spc
         \/ /\ cpc[c] = "dead" /\ spc' = [spc EXCEPT ![s] = "connect"]
            /\ UNCHANGED <<cpc, tries>>
  BY <1>1, <1>2 DEF ServerAccept, KeyMatches
<1>4. UNCHANGED <<values, requests, request_cnt, pending, open, tpc, putter>>
  BY <1>3 DEF trackerVars
<1>5. /\ backlog \in [Servers -> Seq(Dials)] /\ backlog[s] \in Seq(Dials)
      /\ spc \in [Servers -> {"connect", "put", "listen", "ping", "serve", "dead"}]
      /\ ServerUp(s)
  BY <1>3 DEF Inv, ServerTypes, ServerUp
<1>6. 1 \in DOMAIN backlog[s] /\ d = backlog[s][1] /\ Tail(backlog[s]) \in Seq(Dials)
  BY <1>1, <1>3, <1>5
<1>7. /\ c \in Clients /\ grant[c] # NoGrant /\ grant[c].conn.peer = s /\ grant[c].key = d.key
      /\ cpc[c] \in {"connecting", "dead"}
  BY <1>2, <1>6, BacklogTypes DEF Inv, BacklogInv
<1>8. /\ cpc \in [Clients -> {"connect", "request", "waiting", "granted", "connecting",
                              "session", "done", "failed", "dead"}]
      /\ tries \in [Clients -> Nat] /\ MaxRetry \in Nat \ {0}
      /\ \A e \in Clients : tries[e] <= MaxRetry /\ (cpc[e] = "failed" <=> tries[e] = MaxRetry)
  BY RetryAssumption DEF Inv, ClientTypes
<1>9. Distinct(values) /\ pending = Range(values) /\ \A v \in Range(values) : v.conn \in open
  BY DEF Inv, OnceInv, OffersAreOpen
<1>10. ASSUME d.key = matchkey[s], NEW v \in Range(values) PROVE v.conn # Conn(s, sconn[s])
  <2> SUFFICES ASSUME v.conn = Conn(s, sconn[s]) PROVE FALSE
    OBVIOUS
  <2>0. v.conn.peer = s /\ v.conn.num = sconn[s]
    BY DEF Conn
  <2>1. v.key = matchkey[s]
    BY <1>5, <2>0 DEF Inv, FreeEntryIsCurrent
  <2>2. v \in Keys /\ Known(grant[c]) /\ grant[c] \in Keys
    BY <1>7 DEF Inv, KeysInv, Known
  <2>3. grant[c].conn.num = sconn[s]
    BY <1>7, <1>10, <2>2 DEF Known
  <2>4. grant[c].conn = v.conn /\ grant[c].key = v.key
    BY <1>7, <1>10, <2>1, <2>2, <2>3, KeyTypes
  <2>5. grant[c] = v
    BY <2>2, <2>4, KeyTypes
  <2> QED
    BY <1>7, <2>5 DEF Inv, OnceInv, KeyHandedOutOnce
<1>11. \A e \in Clients : e # c => cpc'[e] = cpc[e] /\ tries'[e] = tries[e]
  BY <1>3, <1>7, <1>8 DEF Retry
<1>12. \/ d.key = matchkey[s] /\ cpc'[c] = (IF cpc[c] = "dead" THEN "dead" ELSE "session")
          /\ tries' = tries /\ spc' = [spc EXCEPT ![s] = "serve"]
       \/ /\ cpc[c] # "dead" /\ tries'[c] = tries[c] + 1 /\ spc' = spc
          /\ cpc'[c] = IF tries[c] + 1 >= MaxRetry THEN "failed" ELSE "request"
       \/ /\ cpc'[c] = cpc[c] /\ tries' = tries
          /\ spc' \in {spc, [spc EXCEPT ![s] = "connect"]}
  BY <1>3, <1>7, <1>8 DEF Retry
<1>13. \A t \in Servers : \/ spc'[t] = spc[t] \/ (t = s /\ spc'[t] = "connect")
                          \/ t = s /\ spc'[t] = "serve" /\ d.key = matchkey[s]
  BY <1>5, <1>12
<1>14. KeySide'
  <2>1. \A t \in Servers :
          \/ spc'[t] = spc[t] \/ spc'[t] \in {"connect", "dead"}
          \/ /\ spc[t] = "listen" /\ spc'[t] = "serve"
             /\ \A v \in Range(values) : v.conn # Conn(t, sconn[t])
    BY <1>3, <1>10, <1>13
  <2> QED
    BY <1>3, <1>4, <1>9, <2>1, KeySideKept
<1>15. TrackerTypes'
  BY <1>3, <1>4 DEF Inv, TrackerTypes
<1>16. ServerTypes'
  <2>1. spc' \in [Servers -> {"connect", "put", "listen", "ping", "serve", "dead"}]
    BY <1>5, <1>12
  <2>2. backlog' \in [Servers -> Seq(Dials)]
    BY <1>3, <1>5, <1>6
  <2>3. \A t \in Servers : ServerUp(t)' => ServerUp(t)
    BY <1>3, <1>13 DEF ServerUp
  <2> QED
    BY <1>3, <2>1, <2>2, <2>3 DEF Inv, ServerTypes
<1>17. ClientTypes'
  <2>1. /\ cpc' \in [Clients -> {"connect", "request", "waiting", "granted", "connecting",
                                 "session", "done", "failed", "dead"}]
        /\ tries' \in [Clients -> Nat]
    BY <1>3, <1>7, <1>8 DEF Retry
  <2>2. tries'[c] <= MaxRetry /\ (cpc'[c] = "failed" <=> tries'[c] = MaxRetry)
    BY <1>7, <1>8, <1>12
  <2>3. cpc[c] \notin Away \/ cpc'[c] \in Away
    BY <1>7, <1>12 DEF Away
  <2>4. /\ cconn' = cconn /\ grant' = grant /\ cconn \in [Clients -> Nat]
        /\ grant \in [Clients -> Keys \cup {NoGrant}]
    BY <1>3 DEF Inv, ClientTypes
  <2>5. ASSUME NEW e \in Clients
        PROVE  /\ tries'[e] <= MaxRetry /\ (cpc'[e] = "failed" <=> tries'[e] = MaxRetry)
               /\ cpc'[e] \notin Away => cconn[e] # 0
    <3>1. cpc[e] \notin Away => cconn[e] # 0
      BY DEF Inv, ClientTypes
    <3>2. CASE e = c
      BY <2>2, <2>3, <3>1, <3>2
    <3>3. CASE e # c
      BY <1>8, <1>11, <3>1, <3>3
    <3> QED
      BY <3>2, <3>3
  <2> QED
    BY <2>1, <2>4, <2>5 DEF ClientTypes
<1>18. HeapInv'
  BY <1>4 DEF Inv, HeapInv
<1>19. RequestInv'
  BY <1>3, <1>4, <1>7, <1>11, <1>12, RequestKept DEF Away
<1>20. BacklogInv'
  <2>1. backlog'[s] = Tail(backlog[s]) /\ \A t \in Servers : t # s => backlog'[t] = backlog[t]
    BY <1>3, <1>5
  <2>2. PICK b : b = backlog[s]
    OBVIOUS
  <2>3. b # <<>> /\ backlog'[s] = Tail(b) /\ UNCHANGED grant
        /\ \A e \in Clients : e # Head(b).client => cpc'[e] = cpc[e]
    BY <1>1, <1>2, <1>3, <1>11, <2>1, <2>2
  <2> QED
    BY <2>1, <2>2, <2>3, BacklogTaken
<1>21. GrantInv'
  BY <1>3, <1>7, <1>11 DEF Inv, GrantInv
<1>22. OneClientPerServer'
  <2>1. \A e \in Clients : cpc[e] = "session" =>
          /\ grant[e].conn.peer \in Servers /\ spc[grant[e].conn.peer] = "serve"
          /\ matchkey[grant[e].conn.peer] = grant[e].key
    BY KeyTypes DEF Inv, GrantInv, ClientTypes, OneClientPerServer
  <2>2. CASE cpc'[c] # "session"
    BY <1>3, <1>11, <1>13, <2>1, <2>2, SessionKept
  <2>3. CASE cpc'[c] = "session"
    <3>1. d.key = matchkey[s] /\ spc'[s] = "serve"
      BY <1>5, <1>7, <1>12, <2>3
    <3>2. \A e \in Clients : e # c /\ cpc'[e] = "session" => cpc[e] = "session" /\ grant[e].conn.peer # s
      BY <1>3, <1>11, <2>1
    <3> SUFFICES ASSUME NEW e \in Clients, cpc'[e] = "session"
                 PROVE  /\ spc'[grant[e].conn.peer] = "serve"
                        /\ matchkey[grant[e].conn.peer] = grant[e].key
                        /\ \A f \in Clients \ {e} : ~(cpc'[f] = "session" /\ grant[f].conn.peer = grant[e].conn.peer)
      BY <1>3 DEF OneClientPerServer, InSession
    <3>3. CASE e = c
      BY <1>7, <3>1, <3>2, <3>3
    <3>4. CASE e # c
      <4>1. cpc[e] = "session" /\ grant[e].conn.peer # s
        BY <3>2, <3>4
      <4>2. \A f \in Clients \ {e} : ~(cpc[f] = "session" /\ grant[f].conn.peer = grant[e].conn.peer)
        BY <4>1 DEF Inv, OneClientPerServer, InSession
      <4> QED
        BY <1>7, <1>13, <2>1, <3>2, <4>1, <4>2
    <3> QED
      BY <3>3, <3>4
  <2> QED
    BY <2>2, <2>3
<1> QED
  BY <1>14, <1>15, <1>16, <1>17, <1>18, <1>19, <1>20, <1>21, <1>22 DEF Inv, KeySide

LEMMA ServerDieInv == \A s \in Servers : Inv /\ ServerDie(s) => Inv'
<1> SUFFICES ASSUME NEW s \in Servers, Inv, ServerDie(s) PROVE Inv'
  OBVIOUS
<1> DEFINE Refused(c) == cpc[c] = "connecting" /\ grant[c].conn.peer = s
           Failed(c) == tries[c] + 1 >= MaxRetry
<1>1. /\ spc' = [spc EXCEPT ![s] = "dead"] /\ backlog' = [backlog EXCEPT ![s] = <<>>]
      /\ UNCHANGED <<trackerVars, inbox, lost, sconn, matchkey, unmatch, cconn, grant>>
  BY DEF ServerDie
<1>2. \A c \in Clients :
        /\ tries'[c] = tries[c] + (IF Refused(c) THEN 1 ELSE 0)
        /\ cpc'[c] = (IF Refused(c) THEN IF Failed(c) THEN "failed" ELSE "request"
                      ELSE IF InSession(c, s) THEN "done" ELSE cpc[c])
  <2> SUFFICES ASSUME NEW c \in Clients
               PROVE  /\ tries'[c] = tries[c] + (IF Refused(c) THEN 1 ELSE 0)
                      /\ cpc'[c] = (IF Refused(c) THEN IF Failed(c) THEN "failed" ELSE "request"
                                    ELSE IF InSession(c, s) THEN "done" ELSE cpc[c])
    OBVIOUS
  <2>1. /\ tries'[c] = tries[c] + (IF Refused(c) THEN 1 ELSE 0)
        /\ cpc'[c] = CASE Refused(c) /\ Failed(c) -> "failed"
                       [] Refused(c) /\ ~Failed(c) -> "request"
                       [] InSession(c, s) -> "done"
                       [] OTHER -> cpc[c]
    BY DEF ServerDie
  <2> HIDE DEF Failed
  <2>2. Refused(c) => ~InSession(c, s)
    BY DEF InSession
  <2> HIDE DEF Refused
  <2> QED
    BY <2>1, <2>2
<1>3. UNCHANGED <<values, requests, request_cnt, pending, open, tpc, putter>>
  BY <1>1 DEF trackerVars
<1>4. /\ backlog \in [Servers -> Seq(Dials)]
      /\ spc \in [Servers -> {"connect", "put", "listen", "ping", "serve", "dead"}]
  BY DEF Inv, ServerTypes
<1>5. /\ spc'[s] = "dead" /\ backlog'[s] = <<>>
      /\ \A t \in Servers : t # s => spc'[t] = spc[t] /\ backlog'[t] = backlog[t]
  BY <1>1, <1>4
<1>6. Distinct(values) /\ pending = Range(values) /\ \A v \in Range(values) : v.conn \in open
  BY DEF Inv, OnceInv, OffersAreOpen
<1>7. KeySide'
  BY <1>1, <1>3, <1>5, <1>6, KeySideKept
<1>8. TrackerTypes'
  BY <1>1, <1>3 DEF Inv, TrackerTypes
<1>9. ServerTypes'
  <2>1. /\ spc' \in [Servers -> {"connect", "put", "listen", "ping", "serve", "dead"}]
        /\ backlog' \in [Servers -> Seq(Dials)]
    BY <1>1, <1>4
  <2>2. \A t \in Servers : ServerUp(t)' => ServerUp(t)
    BY <1>5 DEF ServerUp
  <2> QED
    BY <1>1, <2>1, <2>2 DEF Inv, ServerTypes
<1>10. /\ cpc \in [Clients -> {"connect", "request", "waiting", "granted", "connecting",
                               "session", "done", "failed", "dead"}]
       /\ tries \in [Clients -> Nat] /\ MaxRetry \in Nat \ {0}
       /\ \A e \in Clients : /\ tries[e] <= MaxRetry /\ (cpc[e] = "failed" <=> tries[e] = MaxRetry)
                             /\ cpc[e] \notin Away => cconn[e] # 0
  BY RetryAssumption DEF Inv, ClientTypes
<1>11. \A c \in Clients : \/ cpc'[c] = cpc[c]
                          \/ cpc[c] = "connecting" /\ cpc'[c] \in {"failed", "request"}
                                                   /\ grant[c].conn.peer = s
                          \/ cpc[c] = "session" /\ cpc'[c] = "done"
  BY <1>2 DEF InSession
<1>12. ClientTypes'
  <2>1. /\ cpc' \in [Clients -> {"connect", "request", "waiting", "granted", "connecting",
                                 "session", "done", "failed", "dead"}]
        /\ tries' \in [Clients -> Nat]
    <3>1. /\ DOMAIN cpc' = Clients /\ cpc' = [c \in Clients |-> cpc'[c]]
          /\ DOMAIN tries' = Clients /\ tries' = [c \in Clients |-> tries'[c]]
      BY DEF ServerDie
    <3>2. \A c \in Clients :
            /\ tries'[c] \in Nat
            /\ cpc'[c] \in {"connect", "request", "waiting", "granted", "connecting",
                            "session", "done", "failed", "dead"}
      BY <1>2, <1>10, <1>11
    <3> QED
      BY <3>1, <3>2
  <2>2. ASSUME NEW c \in Clients
        PROVE  /\ tries'[c] <= MaxRetry /\ (cpc'[c] = "failed" <=> tries'[c] = MaxRetry)
               /\ cpc'[c] \notin Away => cconn[c] # 0
    <3>1. CASE Refused(c)
      BY <1>2, <1>10, <3>1 DEF Away
    <3>2. CASE ~Refused(c)
      BY <1>2, <1>10, <3>2 DEF Away, InSession
    <3> QED
      BY <3>1, <3>2
  <2> QED
    BY <1>1, <2>1, <2>2 DEF Inv, ClientTypes
<1>13. HeapInv'
  BY <1>3 DEF Inv, HeapInv
<1>14. RequestInv'
  BY <1>1, <1>3, <1>11, RequestKept
<1>15. BacklogInv'
  <2> SUFFICES ASSUME NEW t \in Servers, NEW i \in DOMAIN backlog'[t]
               PROVE  LET d == backlog'[t][i] IN
                      /\ grant[d.client] # NoGrant /\ grant[d.client].conn.peer = t
                      /\ grant[d.client].key = d.key
                      /\ cpc'[d.client] \in {"connecting", "dead"}
                      /\ \A j \in DOMAIN backlog'[t] : backlog'[t][j].client = d.client => j = i
    BY <1>1 DEF BacklogInv
  <2>1. t # s
    BY <1>5
  <2>2. i \in DOMAIN backlog[t] /\ backlog'[t] = backlog[t]
    BY <1>5, <2>1
  <2>3. PICK e \in Clients : e = backlog[t][i].client
    BY <2>2, BacklogTypes
  <2>4. grant[e].conn.peer = t /\ cpc[e] \in {"connecting", "dead"}
    BY <2>2, <2>3 DEF Inv, BacklogInv
  <2>5. cpc'[e] = cpc[e]
    BY <1>11, <2>1, <2>4
  <2> QED
    BY <2>2, <2>3, <2>5 DEF Inv, BacklogInv
<1>16. GrantInv'
  BY <1>1, <1>11 DEF Inv, GrantInv
<1>17. OneClientPerServer'
  <2>1. \A c \in Clients : cpc[c] = "session" => grant[c].conn.peer \in Servers /\ spc[grant[c].conn.peer] = "serve"
    BY KeyTypes DEF Inv, GrantInv, ClientTypes, OneClientPerServer
  <2>2. \A c \in Clients : cpc'[c] = "session" => cpc[c] = "session" /\ grant[c].conn.peer # s
    BY <1>2 DEF InSession
  <2> QED
    BY <1>1, <1>5, <2>1, <2>2, SessionKept
<1> QED
  BY <1>7, <1>8, <1>9, <1>12, <1>13, <1>14, <1>15, <1>16, <1>17 DEF Inv, KeySide

----------------------------------------------------------------------------
(***************************************************************************)
(* The steps of a client.                                                  *)
(***************************************************************************)
States == {"connect", "request", "waiting", "granted", "connecting",
           "session", "done", "failed", "dead"}

\* What does not depend on where client c is, unless its session begins.
LEMMA ClientMoves ==
  ASSUME Inv, NEW c \in Clients, NEW pc \in States \ {"session"},
         cpc' = [cpc EXCEPT ![c] = pc],
         UNCHANGED <<values, pending, tpc, putter, spc, sconn, matchkey, grant>>,
         open \subseteq open', \A m \in inbox' : m.code = "PUT" => m \in inbox,
         requests' = requests, request_cnt' = request_cnt,
         pc \in {"granted", "connecting"} => cpc[c] \in {"granted", "connecting"}
  PROVE  /\ cpc' \in [Clients -> States] /\ cpc'[c] = pc /\ \A e \in Clients : e # c => cpc'[e] = cpc[e]
         /\ KeySide' /\ HeapInv' /\ GrantInv' /\ OneClientPerServer'
<1>1. cpc \in [Clients -> States]
  BY DEF Inv, ClientTypes, States
<1>2. cpc' \in [Clients -> States] /\ cpc'[c] = pc /\ \A e \in Clients : e # c => cpc'[e] = cpc[e]
  BY <1>1
<1>3. KeySide'
  <2>1. Distinct(values) /\ pending = Range(values) /\ \A v \in Range(values) : v.conn \in open
    BY DEF Inv, OnceInv, OffersAreOpen
  <2> QED
    BY <2>1, KeySideKept
<1>4. HeapInv'
  BY DEF Inv, HeapInv
<1>5. GrantInv'
  BY <1>2 DEF Inv, GrantInv
<1>6. OneClientPerServer'
  <2>1. \A e \in Clients : cpc'[e] = "session" => cpc[e] = "session"
    BY <1>2
  <2> QED
    BY <2>1, SessionKept DEF Inv, OneClientPerServer
<1> QED
  BY <1>2, <1>3, <1>4, <1>5, <1>6

\* A client asks on a new connection, or on one on which nothing is under way.
LEMMA Asked ==
  ASSUME Inv, NEW c \in Clients, NEW n \in Nat \ {0},
         n = cconn[c] + 1 \/ (n = cconn[c] /\ cpc[c] = "request"),
         cconn' = [cconn EXCEPT ![c] = n], cpc' = [cpc EXCEPT ![c] = "waiting"],
         inbox' = inbox \cup {[code |-> "REQUEST", conn |-> Conn(c, n), key |-> 0]},
         requests' = requests
  PROVE  RequestInv'
<1>0. PICK x : x = [code |-> "REQUEST", conn |-> Conn(c, n), key |-> 0]
  OBVIOUS
<1>1. /\ cconn \in [Clients -> Nat] /\ cpc \in [Clients -> States]
      /\ requests \subseteq Requests /\ inbox \subseteq Messages
  BY DEF Inv, TrackerTypes, ClientTypes, States
<1>2. /\ cconn'[c] = n /\ cpc'[c] = "waiting" /\ cconn[c] <= n /\ cconn[c] \in Nat
      /\ \A e \in Clients : e # c => cconn'[e] = cconn[e] /\ cpc'[e] = cpc[e]
  BY <1>1
<1>3. x.conn.peer = c /\ x.conn.num = n /\ x.conn = Conn(c, n)
  BY <1>0 DEF Conn
<1>4. ASSUME NEW k \in ClientConns, k.num <= cconn[k.peer],
             Asking(k) => cpc[k.peer] = "waiting"
      PROVE  k.num <= cconn'[k.peer] /\ k # Conn(c, n) /\ (Asking(k)' => Asking(k) /\ cpc'[k.peer] = "waiting")
  <2>1. k.peer \in Clients /\ k.num \in Nat
    BY DEF ClientConns
  <2>2. CASE k.peer = c
    <3>1. k.num # n
      <4> SUFFICES ASSUME k.num = n PROVE FALSE
        OBVIOUS
      <4>1. n = cconn[c] /\ cpc[c] = "request"
        BY <1>2, <1>4, <2>2
      <4> QED
        BY <1>4, <2>2, <4>1 DEF Asking, Away
    <3>2. k.num <= n
      BY <1>2, <1>4, <2>1, <2>2
    <3> QED
      BY <1>2, <2>2, <3>1, <3>2 DEF Asking, Conn
  <2>3. CASE k.peer # c
    BY <1>2, <1>4, <2>1, <2>3 DEF Asking, Conn
  <2> QED
    BY <2>2, <2>3
<1>5. ASSUME NEW r \in requests
      PROVE  /\ r.conn.num <= cconn'[r.conn.peer] /\ r.conn # Conn(c, n)
             /\ Asking(r.conn)' =>
                  cpc'[r.conn.peer] = "waiting" /\ \A q \in requests : q.conn = r.conn => q = r
  <2>1. r.conn \in ClientConns
    BY <1>1 DEF Requests
  <2>2. /\ r.conn.num <= cconn[r.conn.peer]
        /\ Asking(r.conn) =>
             cpc[r.conn.peer] = "waiting" /\ \A q \in requests : q.conn = r.conn => q = r
    BY DEF Inv, RequestInv
  <2> QED
    BY <1>4, <2>1, <2>2
<1>6. ASSUME NEW m \in inbox', m.code = "REQUEST"
      PROVE  /\ m.conn.num <= cconn'[m.conn.peer]
             /\ Asking(m.conn)' => cpc'[m.conn.peer] = "waiting" /\ \A q \in requests : q.conn # m.conn
  <2>1. CASE m = x
    BY <1>2, <1>3, <1>5, <2>1
  <2>2. CASE m \in inbox
    <3>1. m.conn \in ClientConns
      BY <1>1, <1>6, <2>2, MessageTypes
    <3>2. /\ m.conn.num <= cconn[m.conn.peer]
          /\ Asking(m.conn) => cpc[m.conn.peer] = "waiting" /\ \A q \in requests : q.conn # m.conn
      BY <1>6, <2>2 DEF Inv, RequestInv
    <3> QED
      BY <1>4, <3>1, <3>2
  <2> QED
    BY <1>0, <2>1, <2>2
<1> QED
  BY <1>5, <1>6 DEF RequestInv

\* The REQUEST, on connection n of the client.
LEMMA SendRequestInv ==
  ASSUME Inv, NEW c \in Clients, NEW n \in Nat \ {0},
         n = cconn[c] + 1 \/ (n = cconn[c] /\ cpc[c] = "request"),
         cpc[c] \in {"connect", "request"}, SendRequest(c, n),
         cconn' = [cconn EXCEPT ![c] = n], open' = open \cup {Conn(c, n)} \/ open' = open,
         UNCHANGED <<values, requests, request_cnt, pending, tpc, putter, lost, backlog,
                     serverVars, grant, tries>>
  PROVE  Inv'
<1>1. PICK x : x = [code |-> "REQUEST", conn |-> Conn(c, n), key |-> 0]
  OBVIOUS
<1>2. inbox' = inbox \cup {x} /\ cpc' = [cpc EXCEPT ![c] = "waiting"]
  BY <1>1 DEF SendRequest
<1>3. UNCHANGED <<spc, sconn, matchkey, unmatch>>
  BY DEF serverVars
<1>4. "waiting" \in States \ {"session"} /\ (\A m \in inbox' : m.code = "PUT" => m \in inbox)
  BY <1>1, <1>2 DEF States
<1>5. /\ cpc' \in [Clients -> States] /\ cpc'[c] = "waiting"
      /\ \A e \in Clients : e # c => cpc'[e] = cpc[e]
      /\ KeySide' /\ HeapInv' /\ GrantInv' /\ OneClientPerServer'
  BY <1>2, <1>3, <1>4, ClientMoves
<1>6. TrackerTypes'
  <2>1. Conn(c, n) \in ClientConns /\ Conn(c, n) \in Conns
    BY DEF Conn, ClientConns, Conns
  <2>2. x \in Messages
    BY <1>1, <2>1 DEF Messages
  <2> QED
    BY <1>2, <2>1, <2>2 DEF Inv, TrackerTypes
<1>7. ServerTypes'
  BY <1>3 DEF Inv, ServerTypes, ServerUp
<1>8. ClientTypes'
  <2>1. cconn \in [Clients -> Nat] /\ cpc[c] # "failed"
    BY DEF Inv, ClientTypes
  <2>2. cconn' \in [Clients -> Nat] /\ cconn'[c] = n /\ \A e \in Clients : e # c => cconn'[e] = cconn[e]
    BY <2>1
  <2> QED
    BY <1>5, <2>1, <2>2 DEF Inv, ClientTypes, States
<1>9. RequestInv'
  BY <1>1, <1>2, Asked
<1>10. BacklogInv'
  BY <1>5, BacklogKept
<1> QED
  BY <1>5, <1>6, <1>7, <1>8, <1>9, <1>10 DEF Inv, KeySide

LEMMA ClientConnectInv == \A c \in Clients : Inv /\ ClientConnect(c) => Inv'
<1> SUFFICES ASSUME NEW c \in Clients, Inv, ClientConnect(c) PROVE Inv'
  OBVIOUS
<1>1. PICK n : n = cconn[c] + 1
  OBVIOUS
<1>2. cconn \in [Clients -> Nat]
  BY DEF Inv, ClientTypes
<1>3. n \in Nat \ {0}
  BY <1>1, <1>2
<1>4. /\ cpc[c] = "connect" /\ cconn' = [cconn EXCEPT ![c] = n] /\ open' = open \cup {Conn(c, n)}
      /\ SendRequest(c, n)
      /\ UNCHANGED <<values, requests, request_cnt, pending, tpc, putter,
                     lost, backlog, serverVars, grant, tries>>
  BY <1>1 DEF ClientConnect
<1> QED
  BY <1>1, <1>3, <1>4, SendRequestInv

LEMMA ClientRequestInv == \A c \in Clients : Inv /\ ClientRequest(c) => Inv'
<1> SUFFICES ASSUME NEW c \in Clients, Inv, ClientRequest(c) PROVE Inv'
  OBVIOUS
<1>1. PICK n : n = cconn[c]
  OBVIOUS
<1>2. cpc[c] = "request" /\ SendRequest(c, n)
      /\ UNCHANGED <<trackerVars, lost, backlog, serverVars, cconn, grant, tries>>
  BY <1>1 DEF ClientRequest
<1>3. cconn \in [Clients -> Nat] /\ n \in Nat \ {0}
  BY <1>1, <1>2 DEF Inv, ClientTypes, Away
<1>4. cconn' = [cconn EXCEPT ![c] = n]
  BY <1>1, <1>2, <1>3
<1>5. UNCHANGED <<values, requests, request_cnt, pending, open, tpc, putter>>
  BY <1>2 DEF trackerVars
<1> QED
  BY <1>1, <1>2, <1>3, <1>4, <1>5, SendRequestInv

\* A failed attempt is counted, and the last one ends the request.
LEMMA Retried ==
  ASSUME Inv, NEW c \in Clients, NEW pc \in {"connect", "request"},
         cpc[c] \in {"waiting", "granted"}, Retry(c, pc), UNCHANGED <<cconn, grant>>
  PROVE  ClientTypes' /\ \E q \in {pc, "failed"} : cpc' = [cpc EXCEPT ![c] = q]
<1>1. /\ cpc \in [Clients -> States] /\ tries \in [Clients -> Nat] /\ MaxRetry \in Nat \ {0}
      /\ \A e \in Clients : tries[e] <= MaxRetry /\ (cpc[e] = "failed" <=> tries[e] = MaxRetry)
      /\ cconn[c] # 0
  BY RetryAssumption DEF Inv, ClientTypes, States, Away
<1>2. PICK q : q = IF tries[c] + 1 >= MaxRetry THEN "failed" ELSE pc
  OBVIOUS
<1>3. q \in {pc, "failed"} /\ q \in States
  BY <1>2 DEF States
<1>4. tries' = [tries EXCEPT ![c] = tries[c] + 1] /\ cpc' = [cpc EXCEPT ![c] = q]
  BY <1>2 DEF Retry
<1>5. /\ cpc' \in [Clients -> States] /\ tries' \in [Clients -> Nat]
      /\ cpc'[c] = q /\ tries'[c] = tries[c] + 1 /\ tries[c] \in Nat
      /\ \A e \in Clients : e # c => cpc'[e] = cpc[e] /\ tries'[e] = tries[e]
  BY <1>1, <1>3, <1>4
<1>6. tries[c] # MaxRetry /\ tries[c] <= MaxRetry
  BY <1>1
<1>7. tries'[c] <= MaxRetry /\ (cpc'[c] = "failed" <=> tries'[c] = MaxRetry)
  BY <1>1, <1>2, <1>5, <1>6
<1>8. ClientTypes'
  BY <1>1, <1>5, <1>7 DEF Inv, ClientTypes, States
<1> QED
  BY <1>3, <1>4, <1>8

LEMMA ClientTrackerErrorInv == \A c \in Clients : Inv /\ ClientTrackerError(c) => Inv'
<1> SUFFICES ASSUME NEW c \in Clients, Inv, ClientTrackerError(c) PROVE Inv'
  OBVIOUS
<1>1. /\ cpc[c] = "waiting" /\ Retry(c, "connect")
      /\ UNCHANGED <<trackerVars, netVars, serverVars, cconn, grant>>
  BY DEF ClientTrackerError
<1>2. UNCHANGED <<values, requests, request_cnt, pending, open, tpc, putter,
                  inbox, lost, backlog, spc, sconn, matchkey, unmatch>>
  BY <1>1 DEF trackerVars, netVars, serverVars
<1>3. ClientTypes' /\ \E q \in {"connect", "failed"} : cpc' = [cpc EXCEPT ![c] = q]
  BY <1>1, Retried
<1>4. PICK q \in {"connect", "failed"} : cpc' = [cpc EXCEPT ![c] = q]
  BY <1>3
<1>5. q \in States \ {"session"}
  BY DEF States
<1>6. /\ cpc'[c] = q /\ \A e \in Clients : e # c => cpc'[e] = cpc[e]
      /\ KeySide' /\ HeapInv' /\ GrantInv' /\ OneClientPerServer'
  BY <1>1, <1>2, <1>4, <1>5, ClientMoves
<1>7. TrackerTypes' /\ ServerTypes'
  BY <1>2 DEF Inv, TrackerTypes, ServerTypes, ServerUp
<1>8. RequestInv'
  <2>1. \A e \in Clients : cpc'[e] = cpc[e] \/ cpc'[e] \in Away
    BY <1>6 DEF Away
  <2> QED
    BY <1>1, <1>2, <2>1, RequestKept
<1>9. BacklogInv'
  BY <1>1, <1>2, <1>6, BacklogKept
<1> QED
  BY <1>3, <1>6, <1>7, <1>8, <1>9 DEF Inv, KeySide

\* Connection d joins the backlog of server s, in position n.
Joins(s, d, n) ==
  /\ \A i \in DOMAIN backlog'[s] : \/ i \in DOMAIN backlog[s] /\ backlog'[s][i] = backlog[s][i]
                                   \/ i = n /\ backlog'[s][i] = d
  /\ \A t \in Servers : t # s => backlog'[t] = backlog[t]

\* A client that was given a key is in no backlog: it joins one, once.
LEMMA Dialled ==
  ASSUME Inv, NEW c \in Clients, NEW s \in Servers, NEW d, NEW n, cpc[c] = "granted",
         grant[c] # NoGrant, s = grant[c].conn.peer, d.client = c, d.key = grant[c].key,
         Joins(s, d, n), cpc'[c] = "connecting", \A e \in Clients : e # c => cpc'[e] = cpc[e],
         UNCHANGED grant
  PROVE  BacklogInv'
<1>1. \A t \in Servers : \A i \in DOMAIN backlog[t] :
        backlog[t][i].client \in Clients /\ backlog[t][i].client # c
  BY BacklogTypes DEF Inv, BacklogInv
<1> SUFFICES ASSUME NEW t \in Servers, NEW i \in DOMAIN backlog'[t]
             PROVE  LET e == backlog'[t][i] IN
                    /\ grant[e.client] # NoGrant /\ grant[e.client].conn.peer = t
                    /\ grant[e.client].key = e.key
                    /\ cpc'[e.client] \in {"connecting", "dead"}
                    /\ \A j \in DOMAIN backlog'[t] : backlog'[t][j].client = e.client => j = i
  BY DEF BacklogInv
<1>2. CASE t = s /\ i = n /\ backlog'[t][i] = d
  <2>1. \A j \in DOMAIN backlog'[s] : backlog'[s][j].client = c => j = n
    BY <1>1 DEF Joins
  <2> QED
    BY <1>2, <2>1
<1>3. CASE i \in DOMAIN backlog[t] /\ backlog'[t][i] = backlog[t][i]
  <2>1. PICK e \in Clients : e = backlog[t][i].client /\ e # c
    BY <1>1, <1>3
  <2>2. /\ grant[e] # NoGrant /\ grant[e].conn.peer = t /\ grant[e].key = backlog[t][i].key
        /\ cpc[e] \in {"connecting", "dead"}
        /\ \A j \in DOMAIN backlog[t] : backlog[t][j].client = e => j = i
    BY <1>3, <2>1 DEF Inv, BacklogInv
  <2>3. \A j \in DOMAIN backlog'[t] :
          backlog'[t][j].client = e => j \in DOMAIN backlog[t] /\ backlog'[t][j] = backlog[t][j]
    BY <2>1 DEF Joins
  <2>4. \A j \in DOMAIN backlog'[t] : backlog'[t][j].client = e => j = i
    BY <2>2, <2>3
  <2> QED
    BY <1>3, <2>1, <2>2, <2>4
<1> QED
  BY <1>2, <1>3 DEF Joins

LEMMA ClientDialInv == \A c \in Clients : Inv /\ ClientDial(c) => Inv'
<1> SUFFICES ASSUME NEW c \in Clients, Inv, ClientDial(c) PROVE Inv'
  OBVIOUS
<1>1. PICK s : s = grant[c].conn.peer
  OBVIOUS
<1>2. /\ cpc[c] = "granted"
      /\ IF spc[s] = "dead"
           THEN Retry(c, "request") /\ UNCHANGED backlog
           ELSE /\ cpc' = [cpc EXCEPT ![c] = "connecting"]
                /\ backlog' = [backlog EXCEPT ![s] =
                                 Append(@, [client |-> c, key |-> grant[c].key])]
                /\ UNCHANGED tries
      /\ UNCHANGED <<trackerVars, inbox, lost, serverVars, cconn, grant>>
  BY <1>1 DEF ClientDial
<1>3. UNCHANGED <<values, requests, request_cnt, pending, open, tpc, putter,
                  spc, sconn, matchkey, unmatch>>
  BY <1>2 DEF trackerVars, serverVars
<1>4. grant[c] # NoGrant /\ grant[c] \in Keys
  BY <1>2 DEF Inv, GrantInv, ClientTypes
<1>5. s \in Servers /\ grant[c].key \in Nat \ {0}
  BY <1>1, <1>4, KeyTypes
<1>6. TrackerTypes'
  BY <1>2, <1>3 DEF Inv, TrackerTypes
<1>7. CASE spc[s] = "dead"
  <2>1. ClientTypes' /\ \E q \in {"request", "failed"} : cpc' = [cpc EXCEPT ![c] = q]
    BY <1>2, <1>7, Retried
  <2>2. PICK q \in {"request", "failed"} : cpc' = [cpc EXCEPT ![c] = q]
    BY <2>1
  <2>3. q \in States \ {"session"}
    BY DEF States
  <2>4. /\ cpc'[c] = q /\ \A e \in Clients : e # c => cpc'[e] = cpc[e]
        /\ KeySide' /\ HeapInv' /\ GrantInv' /\ OneClientPerServer'
    BY <1>2, <1>3, <2>2, <2>3, ClientMoves
  <2>5. ServerTypes'
    BY <1>2, <1>3, <1>7 DEF Inv, ServerTypes, ServerUp
  <2>6. RequestInv'
    BY <1>2, <1>3, <2>4, RequestKept
  <2>7. BacklogInv'
    BY <1>2, <1>7, <2>4, BacklogKept
  <2> QED
    BY <1>6, <2>1, <2>4, <2>5, <2>6, <2>7 DEF Inv, KeySide
<1>8. CASE spc[s] # "dead"
  <2>1. "connecting" \in States \ {"session"}
    BY DEF States
  <2>2. /\ cpc' \in [Clients -> States] /\ cpc'[c] = "connecting"
        /\ \A e \in Clients : e # c => cpc'[e] = cpc[e]
        /\ KeySide' /\ HeapInv' /\ GrantInv' /\ OneClientPerServer'
    BY <1>2, <1>3, <1>8, <2>1, ClientMoves
  <2>3. ServerTypes'
    <3>1. [client |-> c, key |-> grant[c].key] \in Dials
      BY <1>5 DEF Dials
    <3>2. backlog \in [Servers -> Seq(Dials)]
      BY DEF Inv, ServerTypes
    <3>3. Append(backlog[s], [client |-> c, key |-> grant[c].key]) \in Seq(Dials)
      BY <1>5, <3>1, <3>2, AppendLemma
    <3>4. backlog' \in [Servers -> Seq(Dials)]
      BY <1>2, <1>8, <3>2, <3>3
    <3> QED
      BY <1>3, <3>4 DEF Inv, ServerTypes, ServerUp
  <2>4. ClientTypes'
    BY <1>2, <1>8, <2>2 DEF Inv, ClientTypes, States, Away
  <2>5. RequestInv'
    BY <1>2, <1>3, <2>2, RequestKept
  <2>6. BacklogInv'
    <3>1. PICK d : d = [client |-> c, key |-> grant[c].key]
      OBVIOUS
    <3>2. backlog \in [Servers -> Seq(Dials)] /\ backlog' = [backlog EXCEPT ![s] = Append(@, d)]
      BY <1>2, <1>8, <3>1 DEF Inv, ServerTypes
    <3>3. /\ d.client = c /\ d.key = grant[c].key /\ backlog'[s] = Append(backlog[s], d)
          /\ backlog[s] \in Seq(Dials) /\ \A t \in Servers : t # s => backlog'[t] = backlog[t]
      BY <1>5, <3>1, <3>2
    <3>4. \A i \in DOMAIN Append(backlog[s], d) :
            \/ i \in DOMAIN backlog[s] /\ Append(backlog[s], d)[i] = backlog[s][i]
            \/ i = Len(backlog[s]) + 1 /\ Append(backlog[s], d)[i] = d
      BY <3>3
    <3>5. Joins(s, d, Len(backlog[s]) + 1)
      BY <3>3, <3>4 DEF Joins
    <3>6. PICK n : Joins(s, d, n)
      BY <3>5
    <3>7. cpc[c] = "granted" /\ UNCHANGED grant
      BY <1>2
    <3> QED
      BY <1>1, <1>4, <1>5, <2>2, <3>3, <3>6, <3>7, Dialled
  <2> QED
    BY <1>6, <2>2, <2>3, <2>4, <2>5, <2>6 DEF Inv, KeySide
<1> QED
  BY <1>7, <1>8

LEMMA ClientDieInv == \A c \in Clients : Inv /\ ClientDie(c) => Inv'
<1> SUFFICES ASSUME NEW c \in Clients, Inv, ClientDie(c) PROVE Inv'
  OBVIOUS
<1>1. /\ cpc[c] \notin {"done", "failed", "dead"} /\ cpc' = [cpc EXCEPT ![c] = "dead"]
      /\ UNCHANGED <<trackerVars, netVars, serverVars, cconn, grant, tries>>
  BY DEF ClientDie
<1>2. UNCHANGED <<values, requests, request_cnt, pending, open, tpc, putter,
                  inbox, lost, backlog, spc, sconn, matchkey, unmatch>>
  BY <1>1 DEF trackerVars, netVars, serverVars
<1>3. "dead" \in States \ {"session"}
  BY DEF States
<1>4. /\ cpc' \in [Clients -> States] /\ cpc'[c] = "dead"
      /\ \A e \in Clients : e # c => cpc'[e] = cpc[e]
      /\ KeySide' /\ HeapInv' /\ GrantInv' /\ OneClientPerServer'
  BY <1>1, <1>2, <1>3, ClientMoves
<1>5. TrackerTypes' /\ ServerTypes'
  BY <1>2 DEF Inv, TrackerTypes, ServerTypes, ServerUp
<1>6. ClientTypes'
  BY <1>1, <1>4 DEF Inv, ClientTypes, States, Away
<1>7. RequestInv'
  <2>1. \A e \in Clients : cpc'[e] = cpc[e] \/ cpc'[e] \in Away
    BY <1>4 DEF Away
  <2> QED
    BY <1>1, <1>2, <2>1, RequestKept
<1>8. BacklogInv'
  BY <1>1, <1>2, <1>4, BacklogKept
<1> QED
  BY <1>4, <1>5, <1>6, <1>7, <1>8 DEF Inv, KeySide

LEMMA ConnLostInv == \A c \in open : Inv /\ ConnLost(c) => Inv'
<1> SUFFICES ASSUME NEW c \in open, Inv, ConnLost(c) PROVE Inv'
  OBVIOUS
<1>1. /\ lost' = lost \cup {c}
      /\ UNCHANGED <<trackerVars, inbox, backlog, serverVars, clientVars>>
  BY DEF ConnLost
<1>2. UNCHANGED <<values, requests, request_cnt, pending, open, tpc, putter,
                  spc, sconn, matchkey, unmatch, cpc, cconn, grant, tries>>
  BY <1>1 DEF trackerVars, serverVars, clientVars
<1>3. TrackerTypes' /\ ServerTypes' /\ ClientTypes'
  BY <1>1, <1>2 DEF Inv, TrackerTypes, ServerTypes, ClientTypes, ServerUp
<1>4. Distinct(values) /\ pending = Range(values) /\ \A v \in Range(values) : v.conn \in open
  BY DEF Inv, OnceInv, OffersAreOpen
<1>5. KeySide'
  BY <1>1, <1>2, <1>4, KeySideKept
<1>6. ClientSide'
  BY <1>1, <1>2, ClientSideKept
<1> QED
  BY <1>3, <1>5, <1>6 DEF Inv, KeySide, ClientSide

----------------------------------------------------------------------------
(***************************************************************************)
(* The theorems.                                                           *)
(***************************************************************************)
LEMMA NextInv == Inv /\ [Next]_vars => Inv'
<1> SUFFICES ASSUME Inv, [Next]_vars PROVE Inv'
  OBVIOUS
<1>1. CASE \E p \in Servers \cup Clients : TrackerRead(p)
  BY <1>1, TrackerPutInv, TrackerRequestInv, TrackerPingInv DEF TrackerRead
<1>2. CASE TrackerStep
  BY <1>2, ScheduleInv, ScheduleDoneInv, TrackerCloseInv DEF TrackerStep
<1>3. CASE \E s \in Servers : ServerStep(s)
  BY <1>3, ServerConnectInv, SelectTimeoutInv, ServerTrackerErrorInv, ServerAcceptInv,
     ServerDoneInv DEF ServerStep
<1>4. CASE \E c \in Clients : ClientStep(c)
  BY <1>4, ClientConnectInv, ClientRequestInv, ClientTrackerErrorInv, ClientDialInv DEF ClientStep
<1>5. CASE Failure
  BY <1>5, ServerDieInv, ClientDieInv, ConnLostInv DEF Failure
<1>6. CASE UNCHANGED vars
  <2>1. UNCHANGED <<values, requests, request_cnt, pending, open, tpc, putter, inbox, lost, backlog,
                    spc, sconn, matchkey, unmatch, cpc, cconn, grant, tries>>
    BY <1>6 DEF vars, trackerVars, netVars, serverVars, clientVars
  <2>2. TrackerTypes' /\ ServerTypes' /\ ClientTypes'
    BY <2>1 DEF Inv, TrackerTypes, ServerTypes, ClientTypes, ServerUp
  <2>3. Distinct(values) /\ pending = Range(values) /\ \A v \in Range(values) : v.conn \in open
    BY DEF Inv, OnceInv, OffersAreOpen
  <2>4. KeySide' /\ ClientSide'
    BY <2>1, <2>3, KeySideKept, ClientSideKept
  <2> QED
    BY <2>2, <2>4 DEF Inv, KeySide, ClientSide
<1> QED
  BY <1>1, <1>2, <1>3, <1>4, <1>5, <1>6 DEF Next

\* The inductive invariant of the tracker with its servers and clients holds
\* in every reachable state (tracker.py, server.py, client.py).
THEOREM Invariance == Spec => []Inv
BY InitInv, NextInv, PTL DEF Spec

\* Every variable has its type, and request() makes no attempt beyond
\* max_retry (client.py, TrackerSession.request).
THEOREM TypeCorrect == Spec => []TypeOK
BY Invariance, TypesImply, PTL

\* No match key reaches two clients, and none that a client was given is
\* offered again, however often _schedule puts a value back (tracker.py,
\* PriorityScheduler._schedule).
THEOREM KeysHandedOutOnce == Spec => []KeyHandedOutOnce
<1>1. Inv => KeyHandedOutOnce
  BY DEF Inv, OnceInv
<1> QED
  BY <1>1, Invariance, PTL

\* While a server's connection to the tracker stands, a free entry on it has
\* the server's current key, and the server is not busy: the PUT after a
\* session and the PUT of a regenerated key never meet an older entry
\* (server.py, _accept_conn).
THEOREM FreeEntriesCurrent == Spec => []FreeEntryIsCurrent
<1>1. Inv => FreeEntryIsCurrent
  BY DEF Inv
<1> QED
  BY <1>1, Invariance, PTL

\* A client's session runs on a server that serves this client and no other
\* (the comparison of match keys in _accept_conn of server.py).
THEOREM OneClient == Spec => []OneClientPerServer
<1>1. Inv => OneClientPerServer
  BY DEF Inv
<1> QED
  BY <1>1, Invariance, PTL

\* Every free entry belongs to a connection the tracker has not closed
\* (tracker.py, close of TCPEventHandler).
THEOREM OffersOpen == Spec => []OffersAreOpen
<1>1. Inv => OffersAreOpen
  BY DEF Inv
<1> QED
  BY <1>1, Invariance, PTL

\* The keys that the connections report as pending are those that are free in
\* the scheduler, inside _schedule too (tracker.py, pending_matchkeys).
THEOREM PendingFree == Spec => [](pending = Range(values)) /\ []PendingIsFree
<1>1. Inv => pending = Range(values) /\ PendingIsFree
  BY DEF Inv, OnceInv, PendingIsFree
<1> QED
  BY <1>1, Invariance, PTL
\* A key that is not pending when its server asks is not pending when the
\* server reads the answer: only a PUT makes a key pending, and a server that
\* asks has none on its way on this connection (server.py, _accept_conn).
THEOREM AnswersFinal == Spec => AnswerIsFinal
<1> DEFINE Final(s) ==
      LET key == [conn |-> Conn(s, sconn[s]), key |-> matchkey[s]] IN
      spc[s] = "ping" /\ key \notin pending => key \notin pending'
<1>1. ASSUME Inv, [Next]_vars PROVE \A s \in Servers : Final(s)
  <2>1. \/ pending' \subseteq pending
        \/ \E m \in inbox : m.code = "PUT" /\ pending' = pending \cup {Value(m)}
    <3>1. CASE \E p \in Servers \cup Clients : TrackerRead(p)
      BY <3>1 DEF TrackerRead, TrackerPut, TrackerRequest, TrackerPing, Value, trackerVars
    <3>2. CASE TrackerStep
      BY <3>2 DEF TrackerStep, Schedule, Answer, AnswerNobody, AnswerFails, HandOut, PutBack,
                  ScheduleDone, TrackerClose
    <3>3. CASE \E s \in Servers : ServerStep(s)
      BY <3>3 DEF ServerStep, ServerConnect, SelectTimeout, ServerTrackerError, ServerAccept,
                  ServerDone, trackerVars
    <3>4. CASE \E c \in Clients : ClientStep(c)
      BY <3>4 DEF ClientStep, ClientConnect, ClientRequest, ClientTrackerError, ClientDial,
                  trackerVars
    <3>5. CASE Failure
      BY <3>5 DEF Failure, ServerDie, ClientDie, ConnLost, trackerVars
    <3>6. CASE UNCHANGED vars
      BY <3>6 DEF vars, trackerVars
    <3> QED
      BY <1>1, <3>1, <3>2, <3>3, <3>4, <3>5, <3>6 DEF Next
  <2> SUFFICES ASSUME NEW s \in Servers, spc[s] = "ping",
                      NEW m \in inbox, m.code = "PUT",
                      Value(m) = [conn |-> Conn(s, sconn[s]), key |-> matchkey[s]]
               PROVE  FALSE
    BY <2>1
  <2>2. m.conn.peer = s /\ m.conn.num = sconn[s]
    BY DEF Value, Conn
  <2>3. Current(m.conn)
    BY <2>2 DEF Current, ServerUp
  <2> QED
    BY <1>1, <2>2, <2>3 DEF Inv, PutInv
<1> QED
  BY <1>1, Invariance, PTL DEF Spec, AnswerIsFinal
=============================================================================
