---------------------------- MODULE InPageProofs ----------------------------
(* For any finite set of ports and any number of messages: a port is told of *)
(* its end once, and what arrives over it is what was posted, from the first *)
(* message on and without a gap; what is on the window stays well formed.    *)
EXTENDS InPage, FiniteSetTheorems, TLAPS

USE InPageAssumption

LEMMA Sides ==
    /\ Connects \in Side /\ Accepts \in Side /\ Connects # Accepts /\ Side = {Connects, Accepts}
    /\ \A s \in Side : Other(s) \in Side /\ Other(s) # s /\ Other(Other(s)) = s
<1>1. PICK t \in Side : t # Connects /\ Side = {Connects, t}
    OBVIOUS
<1>2. Other(Connects) = t /\ Other(t) = Connects
    BY <1>1 DEF Other
<1> QED BY <1>1, <1>2 DEF Accepts

-----------------------------------------------------------------------------
(* The invariant.                                                            *)

Request == {openPort, message, disconnectRequest}
WindowPacket == [id : Port, recipient : Side, request : Request, data : Nat]

\* The places in w of the requests r for the port p of s.
Of(w, s, p, r) == {i \in DOMAIN w : w[i].recipient = s /\ w[i].id = p /\ w[i].request = r}

\* No message is in w twice, and none has a number beyond n.
Unique(w, s, p, n) ==
    \A i \in Of(w, s, p, message) :
        /\ w[i].data <= n
        /\ \A j \in Of(w, s, p, message) : w[j].data = w[i].data => i = j

\* The messages in w go on from number k to number n.
GapFree(w, s, p, k, n) ==
    /\ \A i \in Of(w, s, p, message) :
           \/ w[i].data = k + 1
           \/ \E j \in Of(w, s, p, message) : j < i /\ w[j].data = w[i].data - 1
    /\ n = k \/ \E j \in Of(w, s, p, message) : w[j].data = n

StateOK ==
    /\ ports \in [Side -> SUBSET Port] /\ port \in [Side -> [Port -> {"none", "connected", "gone"}]]
    /\ \A s \in Side : ports[s] = {p \in Port : port[s][p] = "connected"}
    /\ disconnecting \in [Side -> SUBSET Port]
    /\ channel \in [Side -> {"open", "closing", "closed"}]
    /\ window \in Seq(WindowPacket)
    /\ posted \in [Side -> [Port -> Nat]]
    /\ received \in [Side -> [Port -> Seq(Nat)]]
    /\ told \in [Side -> [Port -> Nat]]

\* A port nobody has opened is unknown to the other end and to the window.
Unopened ==
    \A p \in Port : port[Connects][p] = "none" =>
        /\ port[Accepts][p] = "none"
        /\ \A s \in Side, r \in Request : Of(window, s, p, r) = {}

\* The request for a port is in the window once, for an end that does not have it.
OpenedOnce ==
    \A p \in Port :
        /\ Of(window, Connects, p, openPort) = {}
        /\ \A i, j \in Of(window, Accepts, p, openPort) : i = j /\ port[Accepts][p] = "none"

\* Until the other end has the port, its messages are behind that request.
OpenedFirst ==
    \A p \in Port :
        port[Connects][p] # "none" /\ port[Accepts][p] = "none" /\ channel[Accepts] # "closed" =>
            \E j \in Of(window, Accepts, p, openPort) :
                \A i \in Of(window, Accepts, p, message) : j < i

Numbered == \A s \in Side : \A p \in Port : Unique(window, s, p, posted[Other(s)][p])

Listens(s, p) == channel[s] # "closed" /\ port[s][p] # "gone"

\* What a port that listens has not received is in the window, in order.
NoGap ==
    \A s \in Side : \A p \in Port : Listens(s, p) =>
        GapFree(window, s, p, Len(received[s][p]), posted[Other(s)][p])

WindowOK == Unopened /\ OpenedOnce /\ OpenedFirst /\ Numbered /\ NoGap

IInv == StateOK /\ WindowOK /\ ReceivedInOrder /\ ToldOnce

LEMMA InitIInv == Init => IInv
<1> SUFFICES ASSUME Init PROVE IInv
    OBVIOUS
<1>1. StateOK
    BY Sides DEF Init, StateOK
<1>2. \A s, p, r : Of(window, s, p, r) = {}
    BY DEF Init, Of
<1>3. WindowOK
    BY <1>2, Sides DEF Init, WindowOK, Unopened, OpenedOnce, OpenedFirst, Numbered, NoGap, Unique,
                       GapFree
<1>4. ReceivedInOrder /\ ToldOnce
    BY DEF Init, ReceivedInOrder, ToldOnce
<1> QED BY <1>1, <1>3, <1>4 DEF IInv

-----------------------------------------------------------------------------
(* The window.                                                               *)

LEMMA PacketType ==
    ASSUME NEW w \in Seq(WindowPacket), NEW i \in DOMAIN w
    PROVE  i \in Nat /\ i >= 1 /\ w[i] \in WindowPacket /\ w[i].data \in Nat
<1>1. i \in Nat /\ i >= 1 /\ w[i] \in WindowPacket
    OBVIOUS
<1> QED BY <1>1 DEF WindowPacket

\* The ways the window changes.
Joins(v, w, t) == v = w \o t
Gains(v, w, e) == v = Append(w, e)
Loses(v, w) == v = Tail(w)

\* The places in a window that grows by t, or loses its first packet.
LEMMA OfConcat ==
    ASSUME NEW w \in Seq(WindowPacket), NEW t \in Seq(WindowPacket), NEW v, Joins(v, w, t),
           NEW s, NEW p, NEW r, Of(t, s, p, r) = {}
    PROVE  /\ Of(v, s, p, r) = Of(w, s, p, r)
           /\ \A i \in Of(w, s, p, r) : v[i] = w[i]
<1>1. /\ DOMAIN v = 1..(Len(w) + Len(t)) /\ DOMAIN w = 1..Len(w) /\ DOMAIN t = 1..Len(t)
      /\ Len(w) \in Nat /\ Len(t) \in Nat
      /\ \A i \in 1..(Len(w) + Len(t)) : v[i] = IF i <= Len(w) THEN w[i] ELSE t[i - Len(w)]
    BY DEF Joins
<1>2. \A i \in 1..(Len(w) + Len(t)) : i <= Len(w) \/ i - Len(w) \in 1..Len(t)
    BY <1>1
<1> QED BY <1>1, <1>2 DEF Of

LEMMA OfAppend ==
    ASSUME NEW w \in Seq(WindowPacket), NEW e \in WindowPacket, NEW v, Gains(v, w, e)
    PROVE  LET S == Of(w, e.recipient, e.id, e.request)
           IN  /\ Of(v, e.recipient, e.id, e.request) = S \cup {Len(w) + 1}
               /\ v[Len(w) + 1] = e
               /\ \A i \in S : i \in Nat /\ i < Len(w) + 1 /\ v[i] = w[i]
BY DEF Of, Gains

LEMMA OfTail ==
    ASSUME NEW w \in Seq(WindowPacket), w # <<>>, NEW v, Loses(v, w), NEW s, NEW p, NEW r
    PROVE  /\ \A i \in Of(v, s, p, r) :
                  i \in Nat /\ i + 1 \in Of(w, s, p, r) /\ v[i] = w[i + 1]
           /\ \A i \in Of(w, s, p, r) :
                  \/ i = 1
                  \/ (i - 1 \in Of(v, s, p, r) /\ v[i - 1] = w[i] /\ i \in Nat)
           /\ 1 \in Of(w, s, p, r)
                  <=> Head(w).recipient = s /\ Head(w).id = p /\ Head(w).request = r
<1>1. /\ DOMAIN w = 1..Len(w) /\ Len(w) \in Nat \ {0} /\ DOMAIN v = 1..(Len(w) - 1)
      /\ Head(w) = w[1] /\ \A i \in 1..(Len(w) - 1) : v[i] = w[i + 1]
    BY DEF Loses
<1>2. \A i \in 1..Len(w) : i = 1 \/ (i - 1 \in 1..(Len(w) - 1) /\ v[i - 1] = w[i])
    BY <1>1
<1> QED BY <1>1, <1>2 DEF Of

\* The messages of a port, when others come,
LEMMA GapConcat ==
    ASSUME NEW w \in Seq(WindowPacket), NEW t \in Seq(WindowPacket), NEW v, Joins(v, w, t),
           NEW s, NEW p, Of(t, s, p, message) = {}, NEW k, NEW n
    PROVE  /\ Unique(w, s, p, n) => Unique(v, s, p, n)
           /\ GapFree(w, s, p, k, n) => GapFree(v, s, p, k, n)
<1>1. /\ Of(v, s, p, message) = Of(w, s, p, message)
      /\ \A i \in Of(w, s, p, message) : v[i] = w[i]
    BY OfConcat
<1> QED BY <1>1 DEF Unique, GapFree

\* when one is posted,
LEMMA GapAppend ==
    ASSUME NEW w \in Seq(WindowPacket), NEW e \in WindowPacket, e.request = message,
           NEW k \in Nat, NEW n \in Nat, e.data = n + 1, NEW v, Gains(v, w, e)
    PROVE  /\ Unique(w, e.recipient, e.id, n) => Unique(v, e.recipient, e.id, n + 1)
           /\ GapFree(w, e.recipient, e.id, k, n) => GapFree(v, e.recipient, e.id, k, n + 1)
<1> DEFINE S == Of(w, e.recipient, e.id, message)
           L == Len(w) + 1
<1>1. /\ Of(v, e.recipient, e.id, message) = S \cup {L} /\ v[L] = e
      /\ \A i \in S : i \in Nat /\ i < L /\ v[i] = w[i] /\ w[i].data \in Nat
    <2>1. /\ Of(v, e.recipient, e.id, message) = S \cup {L} /\ v[L] = e
          /\ \A i \in S : i \in Nat /\ i < L /\ v[i] = w[i]
        BY OfAppend
    <2>2. \A i \in S : w[i].data \in Nat
        BY PacketType DEF Of
    <2> QED BY <2>1, <2>2
<1>2. L \in Nat
    OBVIOUS
<1> HIDE DEF S, L
<1>3. ASSUME Unique(w, e.recipient, e.id, n) PROVE Unique(v, e.recipient, e.id, n + 1)
    <2>1. \A i \in S : /\ w[i].data <= n /\ w[i].data \in Nat
                       /\ \A j \in S : w[j].data = w[i].data => i = j
        BY <1>1, <1>3 DEF Unique, S
    <2>2. \A i \in S : v[i].data # v[L].data /\ v[i].data <= n + 1
        BY <1>1, <2>1
    <2> QED BY <1>1, <2>1, <2>2 DEF Unique
<1>4. ASSUME GapFree(w, e.recipient, e.id, k, n) PROVE GapFree(v, e.recipient, e.id, k, n + 1)
    <2>1. /\ \A i \in S : w[i].data = k + 1 \/ \E j \in S : j < i /\ w[j].data = w[i].data - 1
          /\ n = k \/ \E j \in S : w[j].data = n
        BY <1>4 DEF GapFree, S
    <2>2. \A i \in S : v[i].data = k + 1 \/ \E j \in S : j < i /\ v[j].data = v[i].data - 1
        BY <1>1, <2>1
    <2>3. v[L].data = k + 1 \/ \E j \in S : j < L /\ v[j].data = v[L].data - 1
        BY <1>1, <2>1
    <2>4. v[L].data = n + 1
        BY <1>1
    <2> QED BY <1>1, <2>2, <2>3, <2>4 DEF GapFree
<1> QED BY <1>3, <1>4

\* when the first packet is another one,
LEMMA GapTailOther ==
    ASSUME NEW w \in Seq(WindowPacket), w # <<>>, NEW v, Loses(v, w),
           NEW s, NEW p, NEW k \in Nat, NEW n \in Nat,
           ~(Head(w).recipient = s /\ Head(w).id = p /\ Head(w).request = message)
    PROVE  GapFree(w, s, p, k, n) => GapFree(v, s, p, k, n)
<1> DEFINE S == Of(w, s, p, message)
           T == Of(v, s, p, message)
<1>1. /\ \A i \in T : i \in Nat /\ i + 1 \in S /\ v[i] = w[i + 1]
      /\ \A i \in S : i - 1 \in T /\ v[i - 1] = w[i] /\ i \in Nat
    BY OfTail
<1> HIDE DEF S, T
<1> SUFFICES ASSUME GapFree(w, s, p, k, n) PROVE GapFree(v, s, p, k, n)
    OBVIOUS
<1>2. /\ \A i \in S : w[i].data = k + 1 \/ \E j \in S : j < i /\ w[j].data = w[i].data - 1
      /\ n = k \/ \E j \in S : w[j].data = n
    BY DEF GapFree, S
<1>3. ASSUME NEW i \in T
      PROVE  v[i].data = k + 1 \/ \E j \in T : j < i /\ v[j].data = v[i].data - 1
    <2>1. w[i + 1].data = k + 1 \/ \E j \in S : j < i + 1 /\ w[j].data = w[i + 1].data - 1
        BY <1>1, <1>2
    <2>2. ASSUME NEW j \in S, j < i + 1 PROVE j - 1 \in T /\ j - 1 < i /\ v[j - 1] = w[j]
        BY <1>1, <2>2
    <2> QED BY <1>1, <2>1, <2>2, ZenonT(40)
<1>4. n = k \/ \E j \in T : v[j].data = n
    BY <1>1, <1>2
<1> QED BY <1>3, <1>4 DEF GapFree, T

\* and when it is the next message.
LEMMA GapTailNext ==
    ASSUME NEW w \in Seq(WindowPacket), w # <<>>, NEW v, Loses(v, w),
           NEW s, NEW p, NEW k \in Nat, NEW n \in Nat,
           Head(w).recipient = s /\ Head(w).id = p /\ Head(w).request = message,
           Unique(w, s, p, n), GapFree(w, s, p, k, n)
    PROVE  Head(w).data = k + 1 /\ GapFree(v, s, p, k + 1, n)
<1> DEFINE S == Of(w, s, p, message)
           T == Of(v, s, p, message)
<1>1. /\ \A i \in T : i \in Nat /\ i + 1 \in S /\ v[i] = w[i + 1]
      /\ \A i \in S : i = 1 \/ (i - 1 \in T /\ v[i - 1] = w[i] /\ i \in Nat)
      /\ 1 \in S /\ Head(w) = w[1]
      /\ \A i \in S : i \in Nat /\ i >= 1 /\ w[i].data \in Nat
      /\ \A i \in T : i >= 1
    <2>1. \A i \in T : i \in Nat /\ i + 1 \in S /\ v[i] = w[i + 1]
        BY OfTail
    <2>2. \A i \in S : i = 1 \/ (i - 1 \in T /\ v[i - 1] = w[i] /\ i \in Nat)
        BY OfTail
    <2>3. 1 \in S
        BY OfTail
    <2>4. \A i \in S : i \in Nat /\ i >= 1 /\ w[i].data \in Nat
        BY PacketType DEF Of
    <2>5. \A i \in T : i >= 1
        BY DEF Of, Loses
    <2> QED BY <2>1, <2>2, <2>3, <2>4, <2>5
<1>2. /\ \A i \in S : w[i].data = k + 1 \/ \E j \in S : j < i /\ w[j].data = w[i].data - 1
      /\ n = k \/ \E j \in S : w[j].data = n
      /\ \A i \in S : w[i].data <= n /\ \A j \in S : w[j].data = w[i].data => i = j
    BY DEF GapFree, Unique, S
<1> HIDE DEF S, T
<1>3. w[1].data = k + 1
    BY <1>1, <1>2
<1>4. ASSUME NEW i \in T
      PROVE  v[i].data = k + 2 \/ \E j \in T : j < i /\ v[j].data = v[i].data - 1
    <2>1. i + 1 \in S /\ v[i] = w[i + 1] /\ i + 1 # 1
        BY <1>1
    <2>2. w[i + 1].data # k + 1
        BY <1>1, <1>2, <1>3, <2>1
    <2>3. PICK j \in S : j < i + 1 /\ w[j].data = w[i + 1].data - 1
        BY <1>2, <2>1, <2>2
    <2>4. CASE j = 1
        BY <1>1, <1>3, <2>1, <2>3, <2>4
    <2>5. CASE j # 1
        <3>1. j - 1 \in T /\ j - 1 < i /\ v[j - 1] = w[j]
            BY <1>1, <2>3, <2>5
        <3> QED BY <2>1, <2>3, <3>1
    <2> QED BY <2>4, <2>5
<1>5. n = k + 1 \/ \E j \in T : v[j].data = n
    <2>1. CASE n = k + 1
        BY <2>1
    <2>2. CASE n # k + 1
        <3>1. PICK j \in S : w[j].data = n
            BY <1>1, <1>2, <1>3
        <3>2. j # 1
            BY <1>3, <2>2, <3>1
        <3> QED BY <1>1, <3>1, <3>2
    <2> QED BY <2>1, <2>2
<1> QED BY <1>1, <1>3, <1>4, <1>5 DEF GapFree, T

LEMMA UniqueTail ==
    ASSUME NEW w \in Seq(WindowPacket), w # <<>>, NEW v, Loses(v, w),
           NEW s, NEW p, NEW n, Unique(w, s, p, n)
    PROVE  Unique(v, s, p, n)
<1> DEFINE S == Of(w, s, p, message)
           T == Of(v, s, p, message)
<1>1. \A i \in T : i \in Nat /\ i + 1 \in S /\ v[i] = w[i + 1]
    BY OfTail
<1>2. \A i \in S : w[i].data <= n /\ \A j \in S : w[j].data = w[i].data => i = j
    BY DEF Unique
<1> HIDE DEF S, T
<1>3. \A i \in T : v[i].data <= n
    BY <1>1, <1>2
<1>4. ASSUME NEW i \in T, NEW j \in T, v[j].data = v[i].data PROVE i = j
    <2>1. i + 1 = j + 1 /\ i \in Nat /\ j \in Nat
        BY <1>1, <1>2, <1>4
    <2> QED BY <2>1
<1> QED BY <1>3, <1>4 DEF Unique, T

-----------------------------------------------------------------------------
(* The steps.                                                                *)

\* The window gets nothing but disconnect requests for ports it knows, ports and
\* channels only end.
LEMMA EndsKeep ==
    ASSUME IInv, NEW t \in Seq(WindowPacket), Joins(window', window, t),
           \A s \in Side, p \in Port, r \in Request :
               Of(t, s, p, r) # {} => r = disconnectRequest /\ port[Connects][p] # "none",
           StateOK', UNCHANGED <<posted, received>>,
           \A s \in Side : channel[s] = "closed" => channel'[s] = "closed",
           \A s \in Side, p \in Port : /\ port[s][p] = "none" <=> port'[s][p] = "none"
                                       /\ port[s][p] = "gone" => port'[s][p] = "gone"
    PROVE  WindowOK' /\ ReceivedInOrder'
<1>1. window \in Seq(WindowPacket) /\ openPort # disconnectRequest /\ message # disconnectRequest
      /\ openPort \in Request /\ message \in Request
    BY DEF IInv, StateOK, openPort, message, disconnectRequest, Request
<1>2. \A s \in Side, p \in Port, r \in Request :
          (r # disconnectRequest \/ port[Connects][p] = "none") =>
              /\ Of(window', s, p, r) = Of(window, s, p, r)
              /\ \A i \in Of(window, s, p, r) : window'[i] = window[i]
    BY <1>1, OfConcat
<1>3. Unopened'
    BY <1>2, Sides DEF IInv, WindowOK, Unopened
<1>4. OpenedOnce'
    BY <1>1, <1>2, Sides DEF IInv, WindowOK, OpenedOnce
<1>5. OpenedFirst'
    BY <1>1, <1>2, Sides DEF IInv, WindowOK, OpenedFirst
<1>6. Numbered'
    <2>1. \A s \in Side, p \in Port : Unique(window, s, p, posted[Other(s)][p])
        BY DEF IInv, WindowOK, Numbered
    <2>2. \A s \in Side, p \in Port : Unique(window', s, p, posted[Other(s)][p])
        BY <1>1, <2>1, GapConcat
    <2> QED BY <2>2 DEF Numbered
<1>7. NoGap'
    <2>1. \A s \in Side, p \in Port : Listens(s, p)' =>
              GapFree(window, s, p, Len(received[s][p]), posted[Other(s)][p])
        BY DEF IInv, WindowOK, NoGap, Listens
    <2>2. \A s \in Side, p \in Port : Of(t, s, p, message) = {}
        BY <1>1
    <2>3. \A s \in Side, p \in Port : Listens(s, p)' =>
              GapFree(window', s, p, Len(received[s][p]), posted[Other(s)][p])
        BY <1>1, <2>1, <2>2, GapConcat
    <2> QED BY <2>3 DEF NoGap
<1>8. ReceivedInOrder'
    BY DEF IInv, ReceivedInOrder
<1> QED BY <1>3, <1>4, <1>5, <1>6, <1>7, <1>8 DEF WindowOK

\* A message is posted.
LEMMA PostKeeps ==
    ASSUME IInv, NEW s \in Side, NEW p \in Port, postMessage(s, p)
    PROVE  IInv'
<1> DEFINE e == Packet(s, p, message, posted[s][p] + 1)
           u == Other(s)
<1>1. /\ port[s][p] # "none" /\ Gains(window', window, e)
      /\ posted' = [posted EXCEPT ![s][p] = @ + 1]
      /\ UNCHANGED <<ports, port, disconnecting, channel, received, told>>
    BY DEF postMessage, Gains
<1>2. posted[s][p] \in Nat /\ \A x \in Side : \A q \in Port :
          posted'[x][q] = IF x = s /\ q = p THEN posted[s][p] + 1 ELSE posted[x][q]
    BY <1>1 DEF IInv, StateOK
<1>3. /\ e \in WindowPacket /\ e.recipient = u /\ e.id = p /\ e.request = message
      /\ e.data = posted[s][p] + 1 /\ u \in Side /\ Other(u) = s /\ <<e>> \in Seq(WindowPacket)
      /\ message \in Request /\ openPort \in Request /\ openPort # message
    BY <1>2, Sides DEF Packet, WindowPacket, openPort, message, disconnectRequest, Request
<1>4. window \in Seq(WindowPacket) /\ window' \in Seq(WindowPacket) /\ Joins(window', window, <<e>>)
    <2> HIDE DEF e
    <2> QED BY <1>1, <1>3 DEF IInv, StateOK, Gains, Joins
<1> HIDE DEF e, u
<1>5. StateOK'
    <2>1. posted' \in [Side -> [Port -> Nat]]
        BY <1>1, <1>2 DEF IInv, StateOK
    <2> QED BY <1>1, <1>4, <2>1 DEF IInv, StateOK
<1>6. \A x \in Side, q \in Port, r \in Request :
          ~(x = u /\ q = p /\ r = message) =>
              /\ Of(<<e>>, x, q, r) = {}
              /\ Of(window', x, q, r) = Of(window, x, q, r)
              /\ \A i \in Of(window, x, q, r) : window'[i] = window[i]
    <2>1. \A x \in Side, q \in Port, r \in Request :
              ~(x = u /\ q = p /\ r = message) => Of(<<e>>, x, q, r) = {}
        BY <1>3 DEF Of
    <2> DEFINE d == <<e>>
    <2>2. d \in Seq(WindowPacket) /\ Joins(window', window, d)
        BY <1>3, <1>4
    <2>3. \A x \in Side, q \in Port, r \in Request :
              ~(x = u /\ q = p /\ r = message) => Of(d, x, q, r) = {}
        BY <2>1
    <2> HIDE DEF d
    <2>4. \A x, q, r : Of(d, x, q, r) = {} =>
              /\ Of(window', x, q, r) = Of(window, x, q, r)
              /\ \A i \in Of(window, x, q, r) : window'[i] = window[i]
        BY <1>4, <2>2, OfConcat
    <2> QED BY <2>1, <2>3, <2>4
<1>7. Of(window', u, p, message) = Of(window, u, p, message) \cup {Len(window) + 1}
      /\ \A i \in Of(window, u, p, message) : i \in Nat /\ i < Len(window) + 1
    BY <1>1, <1>3, <1>4, OfAppend
<1>8. Unopened'
    <2>1. port[Connects][p] # "none"
        BY <1>1, Sides DEF IInv, WindowOK, Unopened
    <2> QED BY <1>1, <1>6, <2>1, Sides DEF IInv, WindowOK, Unopened
<1>9. OpenedOnce'
    BY <1>1, <1>3, <1>6, Sides DEF IInv, WindowOK, OpenedOnce
<1>10. OpenedFirst'
    <2> SUFFICES ASSUME NEW q \in Port, port[Connects][q] # "none", port[Accepts][q] = "none",
                        channel[Accepts] # "closed"
                 PROVE  \E j \in Of(window', Accepts, q, openPort) :
                            \A i \in Of(window', Accepts, q, message) : j < i
        BY <1>1 DEF OpenedFirst
    <2>1. PICK j \in Of(window, Accepts, q, openPort) :
              \A i \in Of(window, Accepts, q, message) : j < i
        BY DEF IInv, WindowOK, OpenedFirst
    <2>2. j \in Of(window', Accepts, q, openPort)
        BY <1>3, <1>6, <2>1, Sides
    <2>3. j \in Nat /\ j < Len(window) + 1
        BY <1>4, <2>1 DEF Of
    <2> QED BY <1>3, <1>6, <1>7, <2>1, <2>2, <2>3, Sides
<1>11. Numbered'
    <2> SUFFICES ASSUME NEW x \in Side, NEW q \in Port
                 PROVE  Unique(window', x, q, posted'[Other(x)][q])
        BY DEF Numbered
    <2>1. Unique(window, x, q, posted[Other(x)][q])
        BY DEF IInv, WindowOK, Numbered
    <2>2. CASE x = u /\ q = p
        <3>1. posted[Other(x)][q] = posted[s][p] /\ posted'[Other(x)][q] = posted[s][p] + 1
            BY <1>2, <1>3, <2>2
        <3> QED BY <1>1, <1>2, <1>3, <1>4, <2>1, <2>2, <3>1, GapAppend
    <2>3. CASE ~(x = u /\ q = p)
        <3>1. posted'[Other(x)][q] = posted[Other(x)][q] /\ Of(<<e>>, x, q, message) = {}
            BY <1>2, <1>3, <1>6, <2>3, Sides
        <3> QED BY <1>3, <1>4, <2>1, <3>1, GapConcat
    <2> QED BY <2>2, <2>3
<1>12. NoGap'
    <2> SUFFICES ASSUME NEW x \in Side, NEW q \in Port, Listens(x, q)
                 PROVE  GapFree(window', x, q, Len(received[x][q]), posted'[Other(x)][q])
        BY <1>1 DEF NoGap, Listens
    <2>1. GapFree(window, x, q, Len(received[x][q]), posted[Other(x)][q])
        BY DEF IInv, WindowOK, NoGap
    <2>2. CASE x = u /\ q = p
        <3>1. posted[Other(x)][q] = posted[s][p] /\ posted'[Other(x)][q] = posted[s][p] + 1
            BY <1>2, <1>3, <2>2
        <3>2. Len(received[x][q]) \in Nat
            BY DEF IInv, StateOK
        <3>3. GapFree(window, e.recipient, e.id, Len(received[x][q]), posted[s][p])
            BY <1>3, <2>1, <2>2, <3>1
        <3>4. GapFree(window', e.recipient, e.id, Len(received[x][q]), posted[s][p] + 1)
            BY <1>1, <1>2, <1>3, <1>4, <3>2, <3>3, GapAppend
        <3> QED BY <1>3, <2>2, <3>1, <3>4
    <2>3. CASE ~(x = u /\ q = p)
        <3>1. posted'[Other(x)][q] = posted[Other(x)][q] /\ Of(<<e>>, x, q, message) = {}
            BY <1>2, <1>3, <1>6, <2>3, Sides
        <3> QED BY <1>3, <1>4, <2>1, <3>1, GapConcat
    <2> QED BY <2>2, <2>3
<1>13. ReceivedInOrder' /\ ToldOnce'
    BY <1>1 DEF IInv, ReceivedInOrder, ToldOnce
<1> QED BY <1>5, <1>8, <1>9, <1>10, <1>11, <1>12, <1>13 DEF IInv, WindowOK

\* A port is opened.
LEMMA ConnectKeeps ==
    ASSUME IInv, NEW p \in Port, connect(p)
    PROVE  IInv'
<1> DEFINE e == Packet(Connects, p, openPort, 0)
           d == <<e>>
<1>1. /\ port[Connects][p] = "none" /\ channel[Connects] = "open"
      /\ ports' = [ports EXCEPT ![Connects] = @ \cup {p}]
      /\ port' = [port EXCEPT ![Connects][p] = "connected"]
      /\ Gains(window', window, e)
      /\ UNCHANGED <<disconnecting, channel, posted, received, told>>
    BY DEF connect, Registered, Gains
<1>2. \A s \in Side : \A q \in Port :
          port'[s][q] = IF s = Connects /\ q = p THEN "connected" ELSE port[s][q]
    BY <1>1 DEF IInv, StateOK
<1>3. /\ e \in WindowPacket /\ e.recipient = Accepts /\ e.id = p /\ e.request = openPort
      /\ d \in Seq(WindowPacket)
      /\ message \in Request /\ openPort \in Request /\ openPort # message
    BY Sides DEF Packet, WindowPacket, openPort, message, disconnectRequest, Request, Accepts
<1>4. window \in Seq(WindowPacket) /\ window' \in Seq(WindowPacket) /\ Joins(window', window, d)
    <2> HIDE DEF e
    <2> QED BY <1>1, <1>3 DEF IInv, StateOK, Gains, Joins
<1>5. \A x \in Side, q \in Port, r \in Request :
          ~(x = Accepts /\ q = p /\ r = openPort) => Of(d, x, q, r) = {}
    <2> HIDE DEF e
    <2> QED BY <1>3 DEF Of
<1> HIDE DEF e, d
<1>6. StateOK'
    <2>1. ports' \in [Side -> SUBSET Port] /\ port' \in [Side -> [Port -> {"none", "connected", "gone"}]]
        BY <1>1 DEF IInv, StateOK
    <2>2. \A s \in Side : ports'[s] = {q \in Port : port'[s][q] = "connected"}
        BY <1>1, <1>2 DEF IInv, StateOK
    <2> QED BY <1>1, <1>4, <2>1, <2>2 DEF IInv, StateOK
<1>7. \A x \in Side, q \in Port, r \in Request :
          ~(x = Accepts /\ q = p /\ r = openPort) =>
              /\ Of(window', x, q, r) = Of(window, x, q, r)
              /\ \A i \in Of(window, x, q, r) : window'[i] = window[i]
    BY <1>3, <1>4, <1>5, OfConcat
<1>8. port[Accepts][p] = "none" /\ \A s \in Side, r \in Request : Of(window, s, p, r) = {}
    BY <1>1 DEF IInv, WindowOK, Unopened
<1>9. Of(window', Accepts, p, openPort) = {Len(window) + 1}
    <2>1. Of(window', Accepts, p, openPort) = Of(window, Accepts, p, openPort) \cup {Len(window) + 1}
        BY <1>1, <1>3, <1>4, OfAppend
    <2> QED BY <1>3, <1>8, <2>1, Sides
<1>10. Unopened'
    BY <1>2, <1>7, Sides DEF IInv, WindowOK, Unopened
<1>11. OpenedOnce'
    <2> SUFFICES ASSUME NEW q \in Port
                 PROVE  /\ Of(window', Connects, q, openPort) = {}
                        /\ \A i, j \in Of(window', Accepts, q, openPort) :
                               i = j /\ port'[Accepts][q] = "none"
        BY DEF OpenedOnce
    <2>1. Of(window', Connects, q, openPort) = {}
        BY <1>3, <1>7, Sides DEF IInv, WindowOK, OpenedOnce
    <2>2. CASE q = p
        BY <1>2, <1>8, <1>9, <2>1, <2>2, Sides
    <2>3. CASE q # p
        BY <1>2, <1>3, <1>7, <2>1, <2>3, Sides DEF IInv, WindowOK, OpenedOnce
    <2> QED BY <2>2, <2>3
<1>12. OpenedFirst'
    <2> SUFFICES ASSUME NEW q \in Port, port'[Connects][q] # "none", port'[Accepts][q] = "none",
                        channel[Accepts] # "closed"
                 PROVE  \E j \in Of(window', Accepts, q, openPort) :
                            \A i \in Of(window', Accepts, q, message) : j < i
        BY <1>1 DEF OpenedFirst
    <2>1. CASE q = p
        <3>1. Of(window', Accepts, p, message) = {}
            BY <1>3, <1>7, <1>8, Sides
        <3> QED BY <1>9, <2>1, <3>1
    <2>2. CASE q # p
        BY <1>2, <1>3, <1>7, <2>2, Sides DEF IInv, WindowOK, OpenedFirst
    <2> QED BY <2>1, <2>2
<1>13. \A s \in Side, q \in Port : Of(d, s, q, message) = {}
    BY <1>3, <1>5
<1>14. Numbered'
    <2>1. \A s \in Side, q \in Port : Unique(window', s, q, posted[Other(s)][q])
        BY <1>3, <1>4, <1>13, GapConcat DEF IInv, WindowOK, Numbered
    <2> QED BY <1>1, <2>1 DEF Numbered
<1>15. NoGap'
    <2>1. \A s \in Side, q \in Port : Listens(s, q)' => Listens(s, q)
        BY <1>1, <1>2 DEF Listens
    <2>2. \A s \in Side, q \in Port : Listens(s, q) =>
              GapFree(window', s, q, Len(received[s][q]), posted[Other(s)][q])
        BY <1>3, <1>4, <1>13, GapConcat DEF IInv, WindowOK, NoGap
    <2> QED BY <1>1, <2>1, <2>2 DEF NoGap
<1>16. ReceivedInOrder' /\ ToldOnce'
    BY <1>1, <1>2 DEF IInv, ReceivedInOrder, ToldOnce
<1> QED BY <1>6, <1>10, <1>11, <1>12, <1>14, <1>15, <1>16 DEF IInv, WindowOK

\* Head(window) is the request r for the port p of s.
First(s, p, r) == 1 \in Of(window, s, p, r)

\* The window dispatches a packet.
LEMMA DispatchKeeps ==
    ASSUME IInv, window # <<>>, Loses(window', window), StateOK', UNCHANGED <<channel, posted>>,
           \A q \in Port : port'[Connects][q] = "none" <=> port[Connects][q] = "none",
           \A q \in Port : port'[Accepts][q] = "none" <=>
               /\ port[Accepts][q] = "none"
               /\ ~(First(Accepts, q, openPort) /\ channel[Accepts] # "closed"),
           \A s \in Side, q \in Port : port[s][q] = "gone" => port'[s][q] = "gone",
           \A s \in Side, q \in Port :
               received'[s][q] = IF First(s, q, message) /\ port[s][q] = "connected" /\ channel[s] # "closed"
                                 THEN Append(received[s][q], Head(window).data) ELSE received[s][q]
    PROVE  WindowOK' /\ ReceivedInOrder'
<1>1. window \in Seq(WindowPacket) /\ openPort # message /\ openPort \in Request /\ message \in Request
    BY DEF IInv, StateOK, openPort, message, Request
<1>2. \A s, q, r : /\ \A i \in Of(window', s, q, r) : i \in Nat /\ i + 1 \in Of(window, s, q, r)
                   /\ \A i \in Of(window, s, q, r) : i = 1 \/ (i \in Nat /\ i - 1 \in Of(window', s, q, r))
    BY <1>1, OfTail
<1>3. \A s, q, r : \A i \in Of(window', s, q, r) : i + 1 # 1
    BY <1>2 DEF Of, Loses
<1>4. Unopened'
    <2>1. \A q \in Port : port[Connects][q] = "none" =>
              port[Accepts][q] = "none" /\ \A s \in Side, r \in Request : Of(window, s, q, r) = {}
        BY DEF IInv, WindowOK, Unopened
    <2>2. \A q \in Port : port[Connects][q] = "none" => ~First(Accepts, q, openPort)
        BY <1>1, <2>1, Sides DEF First
    <2> QED BY <1>2, <2>1, <2>2 DEF Unopened
<1>5. OpenedOnce'
    <2> SUFFICES ASSUME NEW q \in Port
                 PROVE  /\ Of(window', Connects, q, openPort) = {}
                        /\ \A i, j \in Of(window', Accepts, q, openPort) :
                               i = j /\ port'[Accepts][q] = "none"
        BY DEF OpenedOnce
    <2>1. /\ Of(window, Connects, q, openPort) = {}
          /\ \A i, j \in Of(window, Accepts, q, openPort) : i = j /\ port[Accepts][q] = "none"
        BY DEF IInv, WindowOK, OpenedOnce
    <2>2. \A i \in Of(window', Accepts, q, openPort) :
              i \in Nat /\ i + 1 \in Of(window, Accepts, q, openPort) /\ i + 1 # 1
        BY <1>2, <1>3
    <2>3. \A i \in Of(window', Accepts, q, openPort) : ~First(Accepts, q, openPort)
        BY <2>1, <2>2 DEF First
    <2>4. \A i, j \in Of(window', Accepts, q, openPort) : i + 1 = j + 1 /\ i \in Nat /\ j \in Nat
        BY <2>1, <2>2
    <2> QED BY <1>2, <2>1, <2>2, <2>3, <2>4
<1>6. OpenedFirst'
    <2> SUFFICES ASSUME NEW q \in Port, port'[Connects][q] # "none", port'[Accepts][q] = "none",
                        channel[Accepts] # "closed"
                 PROVE  \E j \in Of(window', Accepts, q, openPort) :
                            \A i \in Of(window', Accepts, q, message) : j < i
        BY DEF OpenedFirst
    <2>1. PICK j \in Of(window, Accepts, q, openPort) :
              \A i \in Of(window, Accepts, q, message) : j < i
        BY DEF IInv, WindowOK, OpenedFirst
    <2>2. j # 1
        BY <2>1 DEF First
    <2>3. j - 1 \in Of(window', Accepts, q, openPort) /\ j \in Nat
        BY <1>2, <2>1, <2>2
    <2>4. \A i \in Of(window', Accepts, q, message) : i \in Nat /\ j < i + 1
        BY <1>2, <2>1
    <2>5. \A i \in Of(window', Accepts, q, message) : j - 1 < i
        BY <2>3, <2>4
    <2> QED BY <2>3, <2>5
<1>7. Numbered'
    <2>1. \A s \in Side, q \in Port : Unique(window, s, q, posted[Other(s)][q])
        BY DEF IInv, WindowOK, Numbered
    <2>2. \A s \in Side, q \in Port : Unique(window', s, q, posted[Other(s)][q])
        BY <1>1, <2>1, UniqueTail
    <2> QED BY <2>2 DEF Numbered
<1>8. ASSUME NEW s \in Side, NEW q \in Port
      PROVE  First(s, q, message) <=> /\ Head(window).recipient = s /\ Head(window).id = q
                                      /\ Head(window).request = message
    BY <1>1, OfTail DEF First
\* A port that listens and is not connected yet is not sent the first packet.
<1>9. ASSUME NEW s \in Side, NEW q \in Port, Listens(s, q), First(s, q, message)
      PROVE  port[s][q] = "connected" /\ channel[s] # "closed"
    <2>1. port[Connects][q] # "none"
        BY <1>1, <1>9 DEF First, IInv, WindowOK, Unopened
    <2>2. s = Accepts => port[Accepts][q] # "none"
        <3> SUFFICES ASSUME s = Accepts, port[Accepts][q] = "none" PROVE FALSE
            OBVIOUS
        <3>1. PICK j \in Of(window, Accepts, q, openPort) :
                  \A i \in Of(window, Accepts, q, message) : j < i
            BY <1>9, <2>1 DEF IInv, WindowOK, OpenedFirst, Listens
        <3>2. j \in Nat /\ j >= 1
            BY <1>1, PacketType DEF Of
        <3> QED BY <1>9, <3>1, <3>2 DEF First
    <2>3. port[s][q] \in {"none", "connected", "gone"}
        BY DEF IInv, StateOK
    <2> QED BY <1>9, <2>1, <2>2, <2>3, Sides DEF Listens
<1>10. ASSUME NEW s \in Side, NEW q \in Port, Listens(s, q)
       PROVE  /\ First(s, q, message) => Head(window).data = Len(received[s][q]) + 1
              /\ GapFree(window', s, q, Len(received'[s][q]), posted[Other(s)][q])
    <2>1. /\ GapFree(window, s, q, Len(received[s][q]), posted[Other(s)][q])
          /\ Unique(window, s, q, posted[Other(s)][q])
        BY <1>10 DEF IInv, WindowOK, NoGap, Numbered
    <2>2. received[s][q] \in Seq(Nat) /\ Len(received[s][q]) \in Nat /\ posted[Other(s)][q] \in Nat
        BY Sides DEF IInv, StateOK
    <2>3. CASE First(s, q, message)
        <3>1. received'[s][q] = Append(received[s][q], Head(window).data)
            BY <1>9, <1>10, <2>3
        <3>2. Len(received'[s][q]) = Len(received[s][q]) + 1
            BY <2>2, <3>1
        <3> QED BY <1>1, <1>8, <2>1, <2>2, <2>3, <3>2, GapTailNext
    <2>4. CASE ~First(s, q, message)
        BY <1>1, <1>8, <2>1, <2>2, <2>4, GapTailOther
    <2> QED BY <2>3, <2>4
<1>11. NoGap'
    <2>1. \A s \in Side, q \in Port : Listens(s, q)' => Listens(s, q)
        BY DEF Listens
    <2> QED BY <1>10, <2>1 DEF NoGap
<1>12. ReceivedInOrder'
    <2> SUFFICES ASSUME NEW s \in Side, NEW q \in Port
                 PROVE  \A i \in DOMAIN received'[s][q] : received'[s][q][i] = i
        BY DEF ReceivedInOrder
    <2>1. /\ \A i \in DOMAIN received[s][q] : received[s][q][i] = i
          /\ received[s][q] \in Seq(Nat)
        BY DEF IInv, ReceivedInOrder, StateOK
    <2>2. CASE First(s, q, message) /\ port[s][q] = "connected" /\ channel[s] # "closed"
        <3>1. Head(window).data = Len(received[s][q]) + 1
            BY <1>10, <2>2 DEF Listens
        <3>2. received'[s][q] = Append(received[s][q], Len(received[s][q]) + 1)
            <4>1. received'[s][q] = Append(received[s][q], Head(window).data)
                BY <2>2
            <4> QED BY <3>1, <4>1
        <3> QED BY <2>1, <3>2
    <2>3. CASE ~(First(s, q, message) /\ port[s][q] = "connected" /\ channel[s] # "closed")
        BY <2>1, <2>3
    <2> QED BY <2>2, <2>3
<1> QED BY <1>4, <1>5, <1>6, <1>7, <1>11, <1>12 DEF WindowOK

LEMMA MessageKeeps ==
    ASSUME IInv, messageListener
    PROVE  IInv'
<1> DEFINE m == Head(window)
           s == m.recipient
           p == m.id
<1>1. /\ window # <<>> /\ window' = Tail(window) /\ UNCHANGED <<disconnecting, channel, posted>>
      /\ window \in Seq(WindowPacket) /\ StateOK
    BY DEF messageListener, IInv, StateOK
<1>2. m \in WindowPacket /\ window' \in Seq(WindowPacket) /\ Loses(window', window)
    BY <1>1 DEF Loses
<1>3. s \in Side /\ p \in Port /\ m.request \in Request /\ m.data \in Nat
    BY <1>2 DEF WindowPacket
<1>4. /\ openPort # message /\ openPort # disconnectRequest /\ message # disconnectRequest
      /\ openPort \in Request /\ message \in Request /\ Request = {openPort, message, disconnectRequest}
    BY DEF openPort, message, disconnectRequest, Request
<1>5. \A x, q, r : First(x, q, r) <=> s = x /\ p = q /\ m.request = r
    BY <1>1, <1>2, OfTail DEF First
<1> HIDE DEF m
\* What is left alone when the packet is not for a port that takes it.
<1>6. ASSUME UNCHANGED <<ports, port, told, received>>,
             ~(m.request = openPort /\ channel[s] # "closed"),
             ~(m.request = message /\ port[s][p] = "connected" /\ channel[s] # "closed")
      PROVE  IInv'
    <2>1. StateOK'
        BY <1>1, <1>2, <1>6 DEF StateOK
    <2>2. WindowOK' /\ ReceivedInOrder'
        BY <1>1, <1>2, <1>5, <1>6, <2>1, DispatchKeeps
    <2>3. ToldOnce'
        BY <1>6 DEF IInv, ToldOnce
    <2> QED BY <2>1, <2>2, <2>3 DEF IInv
<1>7. CASE channel[s] = "closed"
    BY <1>6, <1>7 DEF messageListener, m
<1>8. CASE channel[s] # "closed" /\ m.request = openPort
    <2>1. /\ ports' = [ports EXCEPT ![s] = @ \cup {p}] /\ port' = [port EXCEPT ![s][p] = "connected"]
          /\ UNCHANGED <<told, received>>
        BY <1>8 DEF messageListener, Registered, m
    <2>2. s = Accepts /\ port[s][p] = "none"
        <3>1. First(s, p, openPort)
            BY <1>5, <1>8
        <3> QED BY <1>3, <3>1, Sides DEF First, IInv, WindowOK, OpenedOnce
    <2>3. \A x \in Side : \A q \in Port :
              port'[x][q] = IF x = s /\ q = p THEN "connected" ELSE port[x][q]
        BY <1>1, <2>1 DEF StateOK
    <2>4. StateOK'
        <3>1. ports' \in [Side -> SUBSET Port]
              /\ port' \in [Side -> [Port -> {"none", "connected", "gone"}]]
            BY <1>1, <1>3, <2>1 DEF StateOK
        <3>2. \A x \in Side : ports'[x] = {q \in Port : port'[x][q] = "connected"}
            BY <1>1, <1>3, <2>1, <2>3 DEF StateOK
        <3> QED BY <1>1, <1>2, <2>1, <3>1, <3>2 DEF StateOK
    <2>5. \A q \in Port : port'[Connects][q] = "none" <=> port[Connects][q] = "none"
        BY <2>2, <2>3, Sides
    <2>6. \A q \in Port : port'[Accepts][q] = "none" <=>
              /\ port[Accepts][q] = "none"
              /\ ~(First(Accepts, q, openPort) /\ channel[Accepts] # "closed")
        BY <1>5, <1>8, <2>2, <2>3, Sides
    <2>7. WindowOK' /\ ReceivedInOrder'
        <3>1. \A x \in Side, q \in Port : port[x][q] = "gone" => port'[x][q] = "gone"
            BY <2>2, <2>3
        <3>2. \A x \in Side, q \in Port : received'[x][q] = received[x][q] /\ ~First(x, q, message)
            BY <1>4, <1>5, <1>8, <2>1
        <3> QED BY <1>1, <1>2, <2>4, <2>5, <2>6, <3>1, <3>2, DispatchKeeps
    <2>8. ToldOnce'
        BY <2>1, <2>2, <2>3 DEF IInv, ToldOnce
    <2> QED BY <2>4, <2>7, <2>8 DEF IInv
<1>9. CASE channel[s] # "closed" /\ m.request # openPort /\ p \notin ports[s]
    <2>1. UNCHANGED <<ports, port, told, received>>
        BY <1>9 DEF messageListener, handleIncomingMessage, m
    <2>2. port[s][p] # "connected"
        BY <1>1, <1>3, <1>9 DEF StateOK
    <2> QED BY <1>6, <1>9, <2>1, <2>2
<1>10. CASE channel[s] # "closed" /\ m.request = message /\ p \in ports[s]
    <2>1. /\ received' = [received EXCEPT ![s][p] = Append(@, m.data)]
          /\ UNCHANGED <<ports, port, told>>
        BY <1>4, <1>10 DEF messageListener, handleIncomingMessage, m
    <2>2. port[s][p] = "connected"
        BY <1>1, <1>3, <1>10 DEF StateOK
    <2>3. StateOK'
        <3>1. received[s][p] \in Seq(Nat) /\ Append(received[s][p], m.data) \in Seq(Nat)
            BY <1>1, <1>3 DEF StateOK
        <3> DEFINE a == Append(received[s][p], m.data)
        <3>2. received' = [received EXCEPT ![s][p] = a]
            BY <2>1
        <3>3. a \in Seq(Nat)
            BY <3>1
        <3> HIDE DEF a
        <3>4. received' \in [Side -> [Port -> Seq(Nat)]]
            BY <1>1, <1>3, <3>2, <3>3 DEF StateOK
        <3> QED BY <1>1, <1>2, <2>1, <3>4 DEF StateOK
    <2>4. \A x \in Side, q \in Port :
              received'[x][q] = IF First(x, q, message) /\ port[x][q] = "connected" /\ channel[x] # "closed"
                                THEN Append(received[x][q], m.data) ELSE received[x][q]
        BY <1>1, <1>3, <1>5, <1>10, <2>1, <2>2 DEF StateOK
    <2>5. ~First(Accepts, p, openPort) /\ \A q : ~First(Accepts, q, openPort)
        BY <1>4, <1>5, <1>10
    <2>6. WindowOK' /\ ReceivedInOrder'
        BY <1>1, <1>2, <2>1, <2>3, <2>4, <2>5, DispatchKeeps DEF m
    <2>7. ToldOnce'
        BY <2>1 DEF IInv, ToldOnce
    <2> QED BY <2>3, <2>6, <2>7 DEF IInv
<1>11. CASE channel[s] # "closed" /\ m.request = disconnectRequest /\ p \in ports[s]
    <2>1. /\ port' = [port EXCEPT ![s][p] = "gone"] /\ ports' = [ports EXCEPT ![s] = @ \ {p}]
          /\ told' = [told EXCEPT ![s][p] = @ + 1] /\ UNCHANGED received
        BY <1>4, <1>11 DEF messageListener, handleIncomingMessage, Disconnected, m
    <2>2. port[s][p] = "connected"
        BY <1>1, <1>3, <1>11 DEF StateOK
    <2>3. \A x \in Side : \A q \in Port :
              /\ port'[x][q] = IF x = s /\ q = p THEN "gone" ELSE port[x][q]
              /\ told'[x][q] = IF x = s /\ q = p THEN told[s][p] + 1 ELSE told[x][q]
        BY <1>1, <2>1 DEF StateOK
    <2>4. StateOK'
        <3>1. /\ ports' \in [Side -> SUBSET Port] /\ told' \in [Side -> [Port -> Nat]]
              /\ port' \in [Side -> [Port -> {"none", "connected", "gone"}]]
            BY <1>1, <1>3, <2>1, SMTT(40) DEF StateOK
        <3>2. \A x \in Side : ports'[x] = {q \in Port : port'[x][q] = "connected"}
            BY <1>1, <1>3, <2>1, <2>3 DEF StateOK
        <3> QED BY <1>1, <1>2, <2>1, <3>1, <3>2 DEF StateOK
    <2>5. \A x, q : ~First(x, q, openPort) /\ ~First(x, q, message)
        BY <1>4, <1>5, <1>11
    <2>6. WindowOK' /\ ReceivedInOrder'
        BY <1>1, <1>2, <2>1, <2>2, <2>3, <2>4, <2>5, Sides, DispatchKeeps
    <2>7. ToldOnce'
        <3>1. \A x \in Side : \A q \in Port :
                  told[x][q] = IF port[x][q] = "gone" THEN 1 ELSE 0
            BY DEF IInv, ToldOnce
        <3>2. told[s][p] = 0
            BY <1>3, <2>2, <3>1
        <3>3. \A x \in Side : \A q \in Port :
                  told'[x][q] = IF port'[x][q] = "gone" THEN 1 ELSE 0
            BY <2>3, <3>1, <3>2
        <3> QED BY <3>3 DEF ToldOnce
    <2> QED BY <2>4, <2>6, <2>7 DEF IInv
<1> QED BY <1>3, <1>4, <1>7, <1>8, <1>9, <1>10, <1>11

\* One end calls disconnect.
LEMMA DisconnectKeeps ==
    ASSUME IInv, NEW s \in Side, NEW p \in Port, disconnect(s, p)
    PROVE  IInv'
<1> DEFINE e == Packet(s, p, disconnectRequest, 0)
           d == <<e>>
<1>1. /\ port[s][p] # "none" /\ disconnecting' = [disconnecting EXCEPT ![s] = @ \cup {p}]
      /\ window' = Append(window, e)
      /\ UNCHANGED <<ports, port, channel, posted, received, told>>
    BY DEF disconnect
<1>2. e \in WindowPacket /\ e.id = p /\ e.request = disconnectRequest
    BY Sides DEF Packet, WindowPacket, Request
<1> HIDE DEF e
<1>3. d \in Seq(WindowPacket) /\ window' \in Seq(WindowPacket) /\ Joins(window', window, d)
    BY <1>1, <1>2 DEF IInv, StateOK, Joins
<1>4. StateOK'
    BY <1>1, <1>3 DEF IInv, StateOK
<1>5. port[Connects][p] # "none"
    BY <1>1, Sides DEF IInv, WindowOK, Unopened
<1>6. \A x \in Side, q \in Port, r \in Request :
          Of(d, x, q, r) # {} => r = disconnectRequest /\ port[Connects][q] # "none"
    BY <1>2, <1>5 DEF Of
<1> HIDE DEF d
<1>7. WindowOK' /\ ReceivedInOrder'
    BY <1>1, <1>3, <1>4, <1>6, EndsKeep
<1>8. ToldOnce'
    BY <1>1 DEF IInv, ToldOnce
<1> QED BY <1>4, <1>7, <1>8 DEF IInv

\* One end closes its channel.
LEMMA SetToSeqType ==
    ASSUME NEW S, IsFiniteSet(S)
    PROVE  Cardinality(S) \in Nat /\ SetToSeq(S) \in [1..Cardinality(S) -> S]
<1>1. Cardinality(S) \in Nat /\ ExistsBijection(1..Cardinality(S), S)
    BY FS_CardinalityType
<1>2. \E f \in [1..Cardinality(S) -> S] : IsInjective(f)
    BY <1>1 DEF ExistsBijection, Bijection, Injection
<1> QED BY <1>1, <1>2 DEF SetToSeq

LEMMA CloseOutgoingKeeps ==
    ASSUME IInv, NEW s \in Side, channel[s] = "open", closeOutgoing(s), UNCHANGED <<posted, received>>
    PROVE  IInv'
<1>1. PICK reached \in SUBSET ports[s] :
          /\ disconnecting' = [disconnecting EXCEPT ![s] = @ \cup reached]
          /\ window' = window \o [i \in DOMAIN SetToSeq(reached) |->
                                      Packet(s, SetToSeq(reached)[i], disconnectRequest, 0)]
    BY DEF closeOutgoing
<1>2. s = Connects /\ UNCHANGED <<ports, port, told>>
    BY DEF closeOutgoing
<1>3. /\ channel' \in [Side -> {"open", "closing", "closed"}]
      /\ \A x \in Side : channel[x] = "closed" => channel'[x] = "closed"
    BY DEF closeOutgoing, IInv, StateOK
<1>4. reached \subseteq Port /\ \A p \in reached : port[s][p] = "connected"
    BY DEF IInv, StateOK
<1> DEFINE order == SetToSeq(reached)
           n == Cardinality(reached)
           t == [i \in DOMAIN order |-> Packet(s, order[i], disconnectRequest, 0)]
<1>5. n \in Nat /\ order \in [1..n -> reached]
    <2>1. IsFiniteSet(reached)
        BY <1>4, FS_Subset
    <2> QED BY <2>1, SetToSeqType
<1>6. window' = window \o t
    BY <1>1
<1> HIDE DEF n, order
<1>7. \A i \in 1..n : order[i] \in reached
    BY <1>5
<1>8. /\ DOMAIN t = 1..n
      /\ \A i \in 1..n : /\ t[i] \in WindowPacket /\ t[i].id \in reached
                         /\ t[i].request = disconnectRequest
    BY <1>4, <1>5, <1>7, Sides DEF Packet, WindowPacket, Request
<1>9. t \in Seq(WindowPacket)
    <2>1. t \in [1..n -> WindowPacket]
        BY <1>5, <1>8
    <2> QED BY <1>5, <2>1
<1> HIDE DEF t
<1>10. StateOK'
    <2>1. window' \in Seq(WindowPacket)
        BY <1>6, <1>9 DEF IInv, StateOK
    <2>2. disconnecting' \in [Side -> SUBSET Port]
        BY <1>1, <1>4 DEF IInv, StateOK
    <2> QED BY <1>2, <1>3, <2>1, <2>2 DEF IInv, StateOK
<1>11. \A x \in Side, p \in Port, r \in Request :
          Of(t, x, p, r) # {} => r = disconnectRequest /\ port[Connects][p] # "none"
    BY <1>2, <1>4, <1>8 DEF Of
<1>12. WindowOK' /\ ReceivedInOrder'
    BY <1>2, <1>3, <1>6, <1>9, <1>10, <1>11, EndsKeep DEF Joins
<1>13. ToldOnce'
    BY <1>2 DEF IInv, ToldOnce
<1> QED BY <1>10, <1>12, <1>13 DEF IInv

LEMMA CloseIncomingKeeps ==
    ASSUME IInv, NEW s \in Side, channel[s] = "open", closeIncoming(s), UNCHANGED <<posted, received>>
    PROVE  IInv'
<1>1. /\ ports' = [ports EXCEPT ![s] = {}] /\ channel' = [channel EXCEPT ![s] = "closed"]
      /\ port' = [port EXCEPT ![s] = [p \in Port |-> IF p \in ports[s] THEN "gone" ELSE @[p]]]
      /\ told' = [told EXCEPT ![s] = [p \in Port |-> @[p] + (IF p \in ports[s] THEN 1 ELSE 0)]]
      /\ UNCHANGED <<disconnecting, window>>
    BY DEF closeIncoming
<1>2. \A x \in Side : \A p \in Port : p \in ports[x] <=> port[x][p] = "connected"
    BY DEF IInv, StateOK
<1>3. \A x \in Side : \A p \in Port :
          port'[x][p] = IF x = s /\ port[s][p] = "connected" THEN "gone" ELSE port[x][p]
    BY <1>1, <1>2 DEF IInv, StateOK
<1>4. \A x \in Side : \A p \in Port :
          told'[x][p] = told[x][p] + (IF x = s /\ port[s][p] = "connected" THEN 1 ELSE 0)
    <2>1. ASSUME NEW p \in Port
          PROVE  told'[s][p] = told[s][p] + (IF port[s][p] = "connected" THEN 1 ELSE 0)
        BY <1>1, <1>2 DEF IInv, StateOK
    <2>2. ASSUME NEW x \in Side, x # s, NEW p \in Port
          PROVE  told'[x][p] = told[x][p] /\ told[x][p] \in Nat
        BY <1>1, <2>2 DEF IInv, StateOK
    <2> QED BY <2>1, <2>2
<1>5. StateOK'
    <2>1. /\ ports' \in [Side -> SUBSET Port] /\ told' \in [Side -> [Port -> Nat]]
          /\ channel' \in [Side -> {"open", "closing", "closed"}]
        BY <1>1 DEF IInv, StateOK
    <2>2. port' \in [Side -> [Port -> {"none", "connected", "gone"}]]
        BY <1>1 DEF IInv, StateOK
    <2>3. \A x \in Side : ports'[x] = {p \in Port : port'[x][p] = "connected"}
        BY <1>1, <1>3 DEF IInv, StateOK
    <2> QED BY <1>1, <2>1, <2>2, <2>3 DEF IInv, StateOK
<1>6. /\ <<>> \in Seq(WindowPacket) /\ Joins(window', window, <<>>)
      /\ \A x, p, r : Of(<<>>, x, p, r) = {}
    BY <1>1 DEF IInv, StateOK, Joins, Of
<1>7. \A x \in Side : channel[x] = "closed" => channel'[x] = "closed"
    BY <1>1 DEF IInv, StateOK
<1>8. \A x \in Side, p \in Port : /\ port[x][p] = "none" <=> port'[x][p] = "none"
                                  /\ port[x][p] = "gone" => port'[x][p] = "gone"
    BY <1>3
<1>9. WindowOK' /\ ReceivedInOrder'
    BY <1>5, <1>6, <1>7, <1>8, EndsKeep
<1>10. ToldOnce'
    <2>1. \A x \in Side : \A p \in Port : told[x][p] = IF port[x][p] = "gone" THEN 1 ELSE 0
        BY DEF IInv, ToldOnce
    <2>2. \A x \in Side : \A p \in Port : told'[x][p] = IF port'[x][p] = "gone" THEN 1 ELSE 0
        BY <1>3, <1>4, <2>1
    <2> QED BY <2>2 DEF ToldOnce
<1> QED BY <1>5, <1>9, <1>10 DEF IInv

-----------------------------------------------------------------------------

LEMMA NextIInv == IInv /\ [Next]_vars => IInv'
<1> SUFFICES ASSUME IInv, [Next]_vars PROVE IInv'
    OBVIOUS
<1>1. CASE messageListener
    BY <1>1, MessageKeeps
<1>2. ASSUME NEW p \in Port, connect(p) PROVE IInv'
    BY <1>2, ConnectKeeps
<1>3. ASSUME NEW p \in Port, NEW s \in Side, postMessage(s, p) PROVE IInv'
    BY <1>3, PostKeeps
<1>4. ASSUME NEW p \in Port, NEW s \in Side, disconnect(s, p) PROVE IInv'
    BY <1>4, DisconnectKeeps
<1>5. ASSUME NEW s \in Side, close(s) PROVE IInv'
    BY <1>5, CloseOutgoingKeeps, CloseIncomingKeeps DEF close
<1>6. CASE UNCHANGED vars
    BY <1>6 DEF vars, IInv, StateOK, WindowOK, Unopened, OpenedOnce, OpenedFirst, Numbered, NoGap,
                Listens, ReceivedInOrder, ToldOnce
<1> QED BY <1>1, <1>2, <1>3, <1>4, <1>5, <1>6 DEF Next

LEMMA SpecIInv == Spec => []IInv
BY InitIInv, NextIInv, PTL DEF Spec

-----------------------------------------------------------------------------
(* Types; the number of messages is bounded over all ports.                  *)

\* A message that is posted still counts.
LEMMA PostedBound ==
    ASSUME posted \in [Side -> [Port -> 0..MaxMessages]], Posted < MaxMessages,
           NEW s \in Side, NEW p \in Port
    PROVE  posted[s][p] < MaxMessages
<1> DEFINE k == posted[s][p]
           All == (Side \X Port) \X (1..MaxMessages)
           S == {m \in All : m[2] <= posted[m[1][1]][m[1][2]]}
           f == [i \in 1..k |-> <<<<s, p>>, i>>]
<1>1. k \in 0..MaxMessages /\ MaxMessages \in Nat
    OBVIOUS
<1>2. IsFiniteSet(All)
    <2>1. Side = {Connects} \cup {Accepts}
        BY Sides
    <2>2. IsFiniteSet(Side)
        BY <2>1, FS_Singleton, FS_Union
    <2>3. IsFiniteSet(1..MaxMessages)
        BY FS_Interval
    <2>4. IsFiniteSet(Side \X Port)
        BY <2>2, FS_Product
    <2> QED BY <2>3, <2>4, FS_Product
<1>3. IsFiniteSet(S)
    BY <1>2, FS_Subset
<1>4. f \in Injection(1..k, S)
    <2>1. ASSUME NEW i \in 1..k PROVE <<<<s, p>>, i>> \in S
        BY <1>1
    <2>2. f \in [1..k -> S]
        BY <2>1
    <2> QED BY <2>2 DEF Injection, IsInjective
<1>5. Cardinality(1..k) <= Cardinality(S)
    BY <1>3, <1>4, FS_Injection
<1>6. Cardinality(1..k) = k
    <2>1. 1 \in Int /\ k \in Int /\ (1 > k <=> k = 0)
        BY <1>1
    <2> HIDE DEF k
    <2>2. Cardinality(1..k) = IF 1 > k THEN 0 ELSE k - 1 + 1
        BY <2>1, FS_Interval
    <2> QED BY <1>1, <2>1, <2>2
<1>7. Cardinality(S) < MaxMessages
    BY DEF Posted
<1>8. Cardinality(S) \in Nat
    BY <1>3, FS_CardinalityType
<1>9. k < MaxMessages
    <2> HIDE DEF S, k
    <2> QED BY <1>1, <1>5, <1>6, <1>7, <1>8
<1> QED BY <1>9

LEMMA PacketIn ==
    ASSUME NEW s \in Side, NEW p \in Port, NEW r \in Request, NEW n \in 0..MaxMessages
    PROVE  Packet(s, p, r, n) \in InPagePacket
BY Sides DEF Packet, InPagePacket, Request

LEMMA NextTypeOK == IInv /\ IInv' /\ TypeOK /\ [Next]_vars => TypeOK'
<1> SUFFICES ASSUME IInv, IInv', TypeOK, [Next]_vars PROVE TypeOK'
    OBVIOUS
<1>1. StateOK' /\ ReceivedInOrder'
    BY DEF IInv
<1>2. ASSUME window' \in Seq(InPagePacket), posted' \in [Side -> [Port -> 0..MaxMessages]],
             received' \in [Side -> [Port -> Seq(1..MaxMessages)]], failed' \subseteq Side
      PROVE  TypeOK'
    BY <1>1, <1>2 DEF StateOK, TypeOK
<1>3. CASE messageListener
    <2>1. window # <<>> /\ window' = Tail(window) /\ posted' = posted /\ failed' = failed
        BY <1>3 DEF messageListener
    <2>2. window' \in Seq(InPagePacket) /\ Head(window) \in InPagePacket
        BY <2>1 DEF TypeOK
    <2>3. \/ received' = received
          \/ \E s \in Side, p \in Port, n \in 0..MaxMessages :
                 received' = [received EXCEPT ![s][p] = Append(@, n)]
        BY <1>3, <2>2 DEF messageListener, handleIncomingMessage, InPagePacket
    <2>4. received' \in [Side -> [Port -> Seq(1..MaxMessages)]]
        <3>1. SUFFICES ASSUME NEW s \in Side, NEW p \in Port, NEW n \in 0..MaxMessages,
                              received' = [received EXCEPT ![s][p] = Append(@, n)]
                       PROVE  received' \in [Side -> [Port -> Seq(1..MaxMessages)]]
            BY <2>3 DEF TypeOK
        <3>2. received \in [Side -> [Port -> Seq(1..MaxMessages)]]
            BY DEF TypeOK
        <3>3. received[s][p] \in Seq(1..MaxMessages) /\ received'[s][p] = Append(received[s][p], n)
            BY <3>1, <3>2
        <3>4. LET k == Len(received[s][p]) + 1
              IN  k \in DOMAIN received'[s][p] /\ received'[s][p][k] = n /\ k \in Nat /\ k >= 1
            BY <3>3
        <3>5. n \in 1..MaxMessages
            BY <1>1, <3>4 DEF ReceivedInOrder
        <3> QED BY <3>1, <3>2, <3>3, <3>5
    <2> QED BY <1>2, <2>1, <2>2, <2>4 DEF TypeOK
<1>4. ASSUME NEW p \in Port, connect(p) PROVE TypeOK'
    <2>1. Packet(Connects, p, openPort, 0) \in InPagePacket
        BY Sides, PacketIn DEF Request
    <2> QED BY <1>2, <1>4, <2>1 DEF connect, TypeOK
<1>5. ASSUME NEW p \in Port, NEW s \in Side, postMessage(s, p) PROVE TypeOK'
    <2>1. posted[s][p] \in 0..MaxMessages /\ posted[s][p] < MaxMessages
        BY <1>5, PostedBound DEF postMessage, TypeOK
    <2>2. posted[s][p] + 1 \in 0..MaxMessages
        BY <2>1
    <2>3. Packet(s, p, message, posted[s][p] + 1) \in InPagePacket
        BY <2>2, PacketIn DEF Request
    <2>4. window' \in Seq(InPagePacket) /\ UNCHANGED <<received, failed>>
        BY <1>5, <2>3 DEF postMessage, TypeOK
    <2>5. posted' \in [Side -> [Port -> 0..MaxMessages]]
        BY <1>5, <2>2 DEF postMessage, TypeOK
    <2> QED BY <1>2, <2>4, <2>5 DEF TypeOK
<1>6. ASSUME NEW p \in Port, NEW s \in Side, disconnect(s, p) PROVE TypeOK'
    <2>1. Packet(s, p, disconnectRequest, 0) \in InPagePacket
        BY PacketIn DEF Request
    <2> QED BY <1>2, <1>6, <2>1 DEF disconnect, TypeOK
<1>7. ASSUME NEW s \in Side, close(s), closeOutgoing(s) PROVE TypeOK'
    <2>1. PICK reached \in SUBSET (ports[s] \ (ports[s] \cap disconnecting[s])) :
              LET order == SetToSeq(reached)
              IN  window' = window \o
                      [i \in DOMAIN order |-> Packet(s, order[i], disconnectRequest, 0)]
        BY <1>7 DEF closeOutgoing
    <2> DEFINE order == SetToSeq(reached)
               t == [i \in DOMAIN order |-> Packet(s, order[i], disconnectRequest, 0)]
    <2>2. reached \subseteq Port /\ IsFiniteSet(reached)
        BY FS_Subset DEF TypeOK
    <2>3. Cardinality(reached) \in Nat /\ order \in [1..Cardinality(reached) -> Port]
        BY <2>2, SetToSeqType
    <2>4. \A i \in DOMAIN order : Packet(s, order[i], disconnectRequest, 0) \in InPagePacket
        BY <2>3, PacketIn DEF Request
    <2>5. t \in Seq(InPagePacket)
        BY <2>3, <2>4
    <2>6. window' \in Seq(InPagePacket)
        BY <2>1, <2>5 DEF TypeOK
    <2> QED BY <1>2, <1>7, <2>6 DEF close, closeOutgoing, TypeOK
<1>8. ASSUME NEW s \in Side, close(s), closeIncoming(s) PROVE TypeOK'
    BY <1>2, <1>8 DEF close, closeIncoming, TypeOK
<1>9. CASE UNCHANGED vars
    BY <1>9 DEF vars, TypeOK
<1> QED BY <1>3, <1>4, <1>5, <1>6, <1>7, <1>8, <1>9 DEF Next, close

-----------------------------------------------------------------------------
(* The theorems.                                                             *)

\* The variables keep their types, with no more than MaxMessages messages posted.
THEOREM SpecTypeOK == Spec => []TypeOK
<1>1. Init => TypeOK
    BY DEF Init, TypeOK
<1> QED BY <1>1, SpecIInv, NextTypeOK, PTL DEF Spec

\* A port is told of its end once, whoever ends it and however often
\* (WindowMessagePort._handleIncomingMessage and WindowMessageChannel.close).
THEOREM SpecToldOnce == Spec => []ToldOnce
<1>1. IInv => ToldOnce
    BY DEF IInv
<1> QED BY <1>1, SpecIInv, PTL

\* What reaches a port is what was posted over it, from the first message on
\* (WindowMessagePort.postMessage and the listener of the window).
THEOREM SpecReceivedInOrder == Spec => []ReceivedInOrder
<1>1. IInv => ReceivedInOrder
    BY DEF IInv
<1> QED BY <1>1, SpecIInv, PTL
=============================================================================
