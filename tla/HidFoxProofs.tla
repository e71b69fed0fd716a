---------------------------- MODULE HidFoxProofs ----------------------------
(* For any number of calls of the page, whatever times out, fails or is      *)
(* dismissed: on every link of the deployed extension the announcements      *)
(* under way bring a routing table to what the neighbour can reach, and a    *)
(* route is known before the first packet that needs it.  So no packet is    *)
(* turned back but for a popup that is gone, and when the links are empty    *)
(* every node has a way to every node that is there.  hid() has no more than *)
(* one exchange under way, the one it awaits.                                *)
EXTENDS HidFox, FiniteSetTheorems, SequenceTheorems, TLAPS

LEMMA Nodes ==
    /\ Address = {Injected, Content, Background, Native, Popup}
    /\ Injected # Content /\ Injected # Background /\ Injected # Native /\ Injected # Popup
    /\ Content # Background /\ Content # Native /\ Content # Popup
    /\ Background # Native /\ Background # Popup /\ Native # Popup
    /\ None \notin Address /\ Direct \notin Address
<1> DEFINE s == <<Injected, Content, Background, Native, Popup>>
<1>1. \A i, j \in 1..5 : s[i] = s[j] => i = j
    BY HidFoxAssumption DEF IsInjective
<1>2. s[1] = Injected /\ s[2] = Content /\ s[3] = Background /\ s[4] = Native /\ s[5] = Popup
    OBVIOUS
<1> HIDE DEF s
<1> QED BY <1>1, <1>2, HidFoxAssumption, DirectAssumption

-----------------------------------------------------------------------------
(* Who announces what: x may tell y of a.  Only the native process tells the *)
(* background page of itself.                                                *)

Announces(x, y, a) ==
    \/ x = Content /\ y = Background /\ a = Injected
    \/ x = Background /\ y = Content /\ a \in {Background, Native, Popup}
    \/ x = Content /\ y = Injected /\ a \in {Background, Native, Popup}
    \/ x = Background /\ y = Native /\ a \in {Injected, Content, Popup}
    \/ x = Native /\ y = Background /\ a = Background
    \/ x = Background /\ y = Popup /\ a \in {Injected, Content, Background, Native}

Adds(p, a) == p = AddForwarded(a, LinkRtt)
Drops(p, a) == p = RemoveForwarded(a)

\* Only the popup goes again.
Announcements(x, y) ==
    {p \in [kind : {"AddForwarded"}, to : Address, rtt : {LinkRtt}] : Announces(x, y, p.to)}
    \cup {p \in [kind : {"RemoveForwarded"}, to : {Popup}] : Announces(x, y, p.to)}

\* And what else is under way from x to y.
PageIds == {i \in [caller : Caller, at : DOMAIN Following] : i.at = "RequestDevice" => i.caller # 0}
RequestNames == {"OpenNative", "SubscribeHid", "PollRefresh", "RequestDevice"}
PageRequests ==
    {p \in [kind : {"Request"}, name : RequestNames, sender : {Injected},
            receiver : {Background, Native}, id : PageIds, arg : {FALSE}] :
        p.name = RequestOf(p.id.at) /\ (p.name = "OpenNative" <=> p.receiver = Background)}
PageResponses ==
    [kind : {"Response"}, name : RequestNames, receiver : {Injected}, id : PageIds,
     ok : BOOLEAN, arg : {FALSE}]
Notices ==
    [kind : {"Notification"}, name : {"AddedDevice", "RemovedDevice"}, sender : {Native},
     receiver : {Injected}]
AccessRequests ==
    [kind : {"Request"}, name : {"RequestAccess"}, sender : {Native}, receiver : {Popup},
     id : {0}, arg : BOOLEAN]
NativeRequests ==
    LET of(name, args) == [kind : {"Request"}, name : {name}, sender : {Native},
                           receiver : {Background}, id : {0}, arg : args]
    IN  of("StorageGet", {"helo", "allowed"}) \cup of("StorageSet", BOOLEAN)
        \cup of("OpenPopup", {"popup"})
NativeResponses ==
    [kind : {"Response"}, name : {"StorageGet", "StorageSet", "OpenPopup", "RequestAccess"},
     receiver : {Native}, id : {0}, ok : BOOLEAN, arg : BOOLEAN]
Greetings ==
    [kind : {"Notification"}, name : {"OpenFromInject"}, sender : {Background}, receiver : {Native}]

FromBackground == PageResponses \cup Notices
Data(x, y) ==
    CASE x = Injected /\ y = Content -> PageRequests
      [] x = Content /\ y = Background -> PageRequests
      [] x = Background /\ y = Native ->
             {p \in PageRequests : p.receiver = Native} \cup NativeResponses \cup Greetings
      [] x = Native /\ y = Background -> NativeRequests \cup AccessRequests \cup FromBackground
      [] x = Background /\ y = Popup -> AccessRequests
      [] x = Popup /\ y = Background -> NativeResponses \cup {Closed}
      [] x = Background /\ y = Content -> FromBackground
      [] x = Content /\ y = Injected -> FromBackground
      [] OTHER -> {}

PacketsOn(x, y) == Announcements(x, y) \cup Data(x, y)

-----------------------------------------------------------------------------
(* The invariant of the network.                                             *)

ChanOK ==
    /\ chan = [x \in Address |-> [y \in Address |-> chan[x][y]]]
    /\ \A x, y \in Address : chan[x][y] \in Seq(PacketsOn(x, y))

ConnOK ==
    /\ conn \in [Address -> SUBSET Address]
    /\ conn[Injected] = {Content}
    /\ conn[Content] \in {{}, {Background, Injected}}
    /\ conn[Background] \in {{}, {Content}, {Content, Native}, {Content, Native, Popup}}
    /\ conn[Native] \in {{}, {Background}} /\ conn[Popup] \in {{}, {Background}}
    /\ conn[Background] # {} => conn[Content] # {}
    /\ conn[Native] # {} => Native \in conn[Background]
    /\ conn[Popup] # {} => Popup \in conn[Background]

\* A table knows one way to each node, but those of the content script and of the
\* popup may know two to the background page.
RouteOK(x, a) ==
    IF a \in conn[x]
    THEN \/ routes[x][a] = <<Direct>>
         \/ routes[x][a] = <<Direct, Background>> /\ a = Background /\ x \in {Content, Popup}
    ELSE \/ routes[x][a] = <<>>
         \/ \E v \in conn[x] : routes[x][a] = <<v>> /\ Announces(v, x, a)
RoutesOK ==
    /\ routes = [x \in Address |-> [a \in Address |-> routes[x][a]]]
    /\ \A x, a \in Address : RouteOK(x, a)

\* Whether the receiver of q, for whom r are the vias of a, will have x among them.
Believes(q, a, r, x) ==
    \/ \E i \in 1..Len(q) : Adds(q[i], a) /\ \A j \in 1..Len(q) : j > i => ~Drops(q[j], a)
    \/ Contains(r, x) /\ \A j \in 1..Len(q) : ~Drops(q[j], a)

\* What is under way brings y to what x can reach.  The native process does not
\* forget.
Linked(x, y) == y \in conn[x] /\ (y = Popup => conn[Popup] # {})
Agree(x, y, a) ==
    /\ Linked(x, y) /\ routes[x][a] # <<>> => Believes(chan[x][y], a, routes[y][a], x)
    /\ Believes(chan[x][y], a, routes[y][a], x) => routes[x][a] # <<>> \/ (y = Native /\ a = Popup)
AgreeOK == \A x, y, a \in Address : Announces(x, y, a) => Agree(x, y, a)

\* Nothing is sent over a port that is not there.
QuietOK == \A x, y \in Address \ {Popup} : y \notin conn[x] => chan[x][y] = <<>>

\* y hears of s before the first packet that comes from s, or from behind it.
Needs(s) == IF s = Injected THEN {"Request"} ELSE {"Response", "Notification"}
First(q, s) ==
    \A i \in 1..Len(q) : q[i].kind \in Needs(s) => \E j \in 1..Len(q) : j < i /\ Adds(q[j], s)
KnownFirst ==
    \A s \in {Injected, Native} : \A x, y \in Address \ {Popup} :
        Announces(x, y, s) /\ ~Contains(routes[y][s], x) => First(chan[x][y], s)

\* The end of the popup is the last the background page hears of it.
CloseOK ==
    LET q == chan[Popup][Background]
        Closing == \E i \in 1..Len(q) : q[i] = Closed
    IN  /\ \A i \in 1..Len(q) : q[i] = Closed => i = Len(q)
        /\ Closing <=> Popup \in conn[Background] /\ conn[Popup] = {}
        /\ Popup \notin conn[Background] => q = <<>>

Types == ChanOK /\ ConnOK /\ RoutesOK
Net == Types /\ AgreeOK /\ QuietOK /\ KnownFirst /\ CloseOK

-----------------------------------------------------------------------------
(* The invariant of the page, the native process and the popup.              *)

IdsAt(P) == {i \in PageIds : i.at \in P}
Queue(P) == Seq([id : IdsAt(P), refreshed : BOOLEAN])
QueuesOK ==
    /\ subscribe \in Queue({"SubscribeHid"}) /\ request_device \in Queue({"RequestDevice"})
    /\ poll_refresh \in Queue({"PollRefresh", "PollRefresh1", "PollRefresh2"})
    /\ hid \in {"OpenPopup", "wait_for_connection_to", "RequestAccess", "approved", "rejected",
                "StorageSet"} => request_device # <<>>

\* The page has heard of the native process before it asks it for something, and
\* that of the page before it answers.  The page asks for a device or a refresh
\* when hid() has registered its handlers.
Early == hid \in {"none", "helo", "select"}
Fine(x, p) ==
    /\ p.kind = "Request" => (p.receiver = Native => routes[Injected][Native] # <<>>)
    /\ x = Native /\ p.kind \in {"Response", "Notification"} => routes[Native][Injected] # <<>>
    /\ Early /\ p.kind = "Request" => (p.sender = Injected => p.id.at \in {"OpenNative", "SubscribeHid"})
    /\ Early /\ p.kind = "Response" => (p.receiver = Injected => p.id.at = "OpenNative")
FineOK == \A x, y \in Address : \A i \in 1..Len(chan[x][y]) : Fine(x, chan[x][y][i])

AskedOK ==
    /\ hid = "none" <=> conn[Native] = {}
    /\ page[0] = "ready" => routes[Injected][Native] # <<>>
    /\ subscribe # <<>> \/ ~Early => routes[Native][Injected] # <<>>
    /\ Early => page[0] \notin {"ready", "PollRefresh"} /\ request_device = <<>> /\ poll_refresh = <<>>

PopupOK ==
    /\ popup \in PopupPlaces /\ (popup = "open" <=> conn[Popup] # {})
    /\ popup # "none" => Native \in conn[Background]

PlacesOK ==
    /\ page \in [Caller -> PagePlaces] /\ granted \subseteq Caller \ {0} /\ hid \in HidPlaces
    /\ {devices, storage, listed, elapsed, plugged, seen} \subseteq BOOLEAN

App == QueuesOK /\ FineOK /\ AskedOK /\ PopupOK /\ PlacesOK /\ NothingLost
IInv == Net /\ App

-----------------------------------------------------------------------------
(* Lemmas about one port.                                                    *)

LEMMA ContainsShort ==
    ASSUME NEW e
    PROVE  /\ ~Contains(<<>>, e)
           /\ \A u : Contains(<<u>>, e) <=> u = e
           /\ \A u, v : Contains(<<u, v>>, e) <=> u = e \/ v = e
BY DEF Contains

\* s, then t.
Joined(s, t) == s \o t

LEMMA JoinedIs ==
    ASSUME NEW S, NEW q \in Seq(S), NEW o \in Seq(S)
    PROVE  /\ Joined(q, o) \in Seq(S)
           /\ o = <<>> => Joined(q, o) = q
           /\ q = <<>> => Joined(q, o) = o
BY DEF Joined

LEMMA JoinedNothing ==
    ASSUME NEW S, NEW q \in Seq(S)
    PROVE  Joined(q, <<>>) = q
BY DEF Joined

LEMMA JoinedElements ==
    ASSUME NEW S, NEW q \in Seq(S), NEW o \in Seq(S)
    PROVE  /\ Len(Joined(q, o)) = Len(q) + Len(o) /\ Len(q) \in Nat /\ Len(o) \in Nat
           /\ \A i \in 1..Len(q) : i \in 1..Len(Joined(q, o)) /\ Joined(q, o)[i] = q[i]
           /\ \A i \in 1..Len(o) :
                  i + Len(q) \in 1..Len(Joined(q, o)) /\ Joined(q, o)[i + Len(q)] = o[i]
           /\ \A i \in 1..Len(Joined(q, o)) :
                  i > Len(q) => i - Len(q) \in 1..Len(o) /\ Joined(q, o)[i] = o[i - Len(q)]
BY DEF Joined

Rest(s) == Tail(s)

LEMMA RestElements ==
    ASSUME NEW S, NEW q \in Seq(S), q # <<>>
    PROVE  /\ Rest(q) \in Seq(S)
           /\ Len(q) \in Nat /\ Len(q) > 0 /\ Len(Rest(q)) = Len(q) - 1 /\ Head(q) = q[1]
           /\ \A i \in 1..Len(Rest(q)) : i + 1 \in 1..Len(q) /\ Rest(q)[i] = q[i + 1]
           /\ \A i \in 1..Len(q) : i # 1 => i - 1 \in 1..Len(Rest(q)) /\ Rest(q)[i - 1] = q[i]
BY DEF Rest

\* Nothing in o is about a.
Silent(o, a) == \A i \in 1..Len(o) : ~Adds(o[i], a) /\ ~Drops(o[i], a)

LEMMA AddsIsNoDrop == ASSUME NEW p, NEW a, NEW b PROVE ~(Adds(p, a) /\ Drops(p, b))
BY DEF Adds, Drops, AddForwarded, RemoveForwarded

LEMMA BelievesSilent ==
    ASSUME NEW S, NEW q \in Seq(S), NEW o \in Seq(S), NEW a, NEW r, NEW x, Silent(o, a)
    PROVE  Believes(Joined(q, o), a, r, x) <=> Believes(q, a, r, x)
<1>1. /\ Len(Joined(q, o)) = Len(q) + Len(o) /\ Len(q) \in Nat /\ Len(o) \in Nat
      /\ \A i \in 1..Len(q) : Joined(q, o)[i] = q[i]
      /\ \A i \in 1..Len(Joined(q, o)) : i > Len(q) => i - Len(q) \in 1..Len(o) /\ Joined(q, o)[i] = o[i - Len(q)]
    BY JoinedElements
<1>2. \A i \in 1..Len(Joined(q, o)) : i > Len(q) => ~Adds(Joined(q, o)[i], a) /\ ~Drops(Joined(q, o)[i], a)
    BY <1>1 DEF Silent
<1>3. \A i \in 1..Len(q) : i \in 1..Len(Joined(q, o))
    BY <1>1
<1>4. \A i \in 1..Len(Joined(q, o)) : i > Len(q) \/ i \in 1..Len(q)
    BY <1>1
<1> QED BY <1>1, <1>2, <1>3, <1>4 DEF Believes

LEMMA BelievesAdd ==
    ASSUME NEW S, NEW q \in Seq(S), NEW o \in Seq(S), NEW a, NEW r, NEW x,
           \E i \in 1..Len(o) : Adds(o[i], a), \A i \in 1..Len(o) : ~Drops(o[i], a)
    PROVE  Believes(Joined(q, o), a, r, x)
<1>1. /\ Len(Joined(q, o)) = Len(q) + Len(o) /\ Len(q) \in Nat /\ Len(o) \in Nat
      /\ \A i \in 1..Len(o) : i + Len(q) \in 1..Len(Joined(q, o)) /\ Joined(q, o)[i + Len(q)] = o[i]
      /\ \A i \in 1..Len(Joined(q, o)) : i > Len(q) => i - Len(q) \in 1..Len(o) /\ Joined(q, o)[i] = o[i - Len(q)]
    BY JoinedElements
<1>2. PICK i \in 1..Len(o) : Adds(o[i], a)
    OBVIOUS
<1>3. Adds(Joined(q, o)[i + Len(q)], a) /\ i + Len(q) \in 1..Len(Joined(q, o))
    BY <1>1, <1>2
<1>4. ASSUME NEW j \in 1..Len(Joined(q, o)), j > i + Len(q) PROVE ~Drops(Joined(q, o)[j], a)
    <2>1. j > Len(q)
        BY <1>1, <1>4
    <2> QED BY <1>1, <2>1
<1> QED BY <1>3, <1>4 DEF Believes

LEMMA BelievesDrop ==
    ASSUME NEW S, NEW q \in Seq(S), NEW o \in Seq(S), NEW a, NEW r, NEW x,
           \E i \in 1..Len(o) : Drops(o[i], a), \A i \in 1..Len(o) : ~Adds(o[i], a)
    PROVE  ~Believes(Joined(q, o), a, r, x)
<1>1. /\ Len(Joined(q, o)) = Len(q) + Len(o) /\ Len(q) \in Nat /\ Len(o) \in Nat
      /\ \A i \in 1..Len(o) : i + Len(q) \in 1..Len(Joined(q, o)) /\ Joined(q, o)[i + Len(q)] = o[i]
      /\ \A i \in 1..Len(Joined(q, o)) : i > Len(q) => i - Len(q) \in 1..Len(o) /\ Joined(q, o)[i] = o[i - Len(q)]
    BY JoinedElements
<1>2. PICK i \in 1..Len(o) : Drops(o[i], a)
    OBVIOUS
<1>3. Drops(Joined(q, o)[i + Len(q)], a) /\ i + Len(q) \in 1..Len(Joined(q, o))
    BY <1>1, <1>2
<1>4. ASSUME NEW j \in 1..Len(Joined(q, o)), Adds(Joined(q, o)[j], a) PROVE j < i + Len(q)
    <2>1. ~(j > Len(q))
        BY <1>1, <1>4
    <2> QED BY <1>1, <2>1
<1> QED BY <1>3, <1>4 DEF Believes

\* Taking the first packet and following it.
LEMMA BelievesTail ==
    ASSUME NEW S, NEW q \in Seq(S), q # <<>>, NEW a, NEW r, NEW s, NEW x,
           Contains(s, x) <=> Adds(Head(q), a) \/ (Contains(r, x) /\ ~Drops(Head(q), a))
    PROVE  Believes(Rest(q), a, s, x) <=> Believes(q, a, r, x)
<1>1. /\ Len(q) \in Nat /\ Len(q) > 0 /\ Len(Rest(q)) = Len(q) - 1 /\ Head(q) = q[1]
      /\ \A i \in 1..Len(Rest(q)) : i + 1 \in 1..Len(q) /\ Rest(q)[i] = q[i + 1]
      /\ \A i \in 1..Len(q) : i # 1 => i - 1 \in 1..Len(Rest(q)) /\ Rest(q)[i - 1] = q[i]
    BY RestElements
<1>2. ASSUME Believes(Rest(q), a, s, x) PROVE Believes(q, a, r, x)
    <2>1. CASE \E i \in 1..Len(Rest(q)) : Adds(Rest(q)[i], a) /\ \A j \in 1..Len(Rest(q)) : j > i => ~Drops(Rest(q)[j], a)
        <3>1. PICK i \in 1..Len(Rest(q)) : Adds(Rest(q)[i], a) /\ \A j \in 1..Len(Rest(q)) : j > i => ~Drops(Rest(q)[j], a)
            BY <2>1
        <3>2. i + 1 \in 1..Len(q) /\ Adds(q[i + 1], a)
            BY <1>1, <3>1
        <3>3. \A j \in 1..Len(q) : j > i + 1 => ~Drops(q[j], a)
            BY <1>1, <3>1
        <3> QED BY <3>2, <3>3 DEF Believes
    <2>2. CASE Contains(s, x) /\ \A j \in 1..Len(Rest(q)) : ~Drops(Rest(q)[j], a)
        <3>1. \A j \in 1..Len(q) : j # 1 => ~Drops(q[j], a)
            BY <1>1, <2>2
        <3>2. CASE Adds(q[1], a)
            BY <1>1, <3>1, <3>2 DEF Believes
        <3>3. CASE Contains(r, x) /\ ~Drops(q[1], a)
            BY <3>1, <3>3 DEF Believes
        <3> QED BY <1>1, <2>2, <3>2, <3>3
    <2> QED BY <1>2, <2>1, <2>2 DEF Believes
<1>3. ASSUME Believes(q, a, r, x) PROVE Believes(Rest(q), a, s, x)
    <2>1. CASE \E i \in 1..Len(q) : Adds(q[i], a) /\ \A j \in 1..Len(q) : j > i => ~Drops(q[j], a)
        <3>1. PICK i \in 1..Len(q) : Adds(q[i], a) /\ \A j \in 1..Len(q) : j > i => ~Drops(q[j], a)
            BY <2>1
        <3>2. \A j \in 1..Len(Rest(q)) : j + 1 > i => ~Drops(Rest(q)[j], a)
            BY <1>1, <3>1
        <3>3. CASE i = 1
            <4>1. Contains(s, x)
                BY <1>1, <3>1, <3>3
            <4> QED BY <3>2, <3>3, <4>1 DEF Believes
        <3>4. CASE i # 1
            <4>1. i - 1 \in 1..Len(Rest(q)) /\ Adds(Rest(q)[i - 1], a)
                BY <1>1, <3>1, <3>4
            <4>2. \A j \in 1..Len(Rest(q)) : j > i - 1 => ~Drops(Rest(q)[j], a)
                BY <1>1, <3>2
            <4> QED BY <4>1, <4>2 DEF Believes
        <3> QED BY <3>3, <3>4
    <2>2. CASE Contains(r, x) /\ \A j \in 1..Len(q) : ~Drops(q[j], a)
        <3>1. Contains(s, x) /\ \A j \in 1..Len(Rest(q)) : ~Drops(Rest(q)[j], a)
            BY <1>1, <2>2
        <3> QED BY <3>1 DEF Believes
    <2> QED BY <1>3, <2>1, <2>2 DEF Believes
<1> QED BY <1>2, <1>3

\* Taking a packet that drops a and not following it.
LEMMA BelievesIgnored ==
    ASSUME NEW S, NEW q \in Seq(S), q # <<>>, NEW a, NEW r, NEW x, Drops(Head(q), a),
           Believes(q, a, r, x)
    PROVE  Believes(Rest(q), a, r, x)
<1>1. /\ Len(q) \in Nat /\ Len(q) > 0 /\ Len(Rest(q)) = Len(q) - 1 /\ Head(q) = q[1]
      /\ \A i \in 1..Len(Rest(q)) : i + 1 \in 1..Len(q) /\ Rest(q)[i] = q[i + 1]
      /\ \A i \in 1..Len(q) : i # 1 => i - 1 \in 1..Len(Rest(q)) /\ Rest(q)[i - 1] = q[i]
    BY RestElements
<1>2. PICK i \in 1..Len(q) : Adds(q[i], a) /\ \A j \in 1..Len(q) : j > i => ~Drops(q[j], a)
    BY <1>1 DEF Believes
<1>3. i # 1
    BY <1>1, <1>2, AddsIsNoDrop
<1>4. i - 1 \in 1..Len(Rest(q)) /\ Adds(Rest(q)[i - 1], a)
    BY <1>1, <1>2, <1>3
<1>5. \A j \in 1..Len(Rest(q)) : j > i - 1 => ~Drops(Rest(q)[j], a)
    BY <1>1, <1>2
<1> QED BY <1>4, <1>5 DEF Believes

\* An announcement that is not yet known is under way.
LEMMA BelievesUnknown ==
    ASSUME NEW q, NEW a, NEW r, NEW x, Believes(q, a, r, x), ~Contains(r, x)
    PROVE  \E i \in 1..Len(q) : Adds(q[i], a)
BY DEF Believes

LEMMA FirstSent ==
    ASSUME NEW S, NEW q \in Seq(S), NEW o \in Seq(S), NEW s, First(q, s),
           \/ \E i \in 1..Len(q) : Adds(q[i], s)
           \/ First(o, s)
    PROVE  First(Joined(q, o), s)
<1>1. /\ Len(Joined(q, o)) = Len(q) + Len(o) /\ Len(q) \in Nat /\ Len(o) \in Nat
      /\ \A i \in 1..Len(q) : i \in 1..Len(Joined(q, o)) /\ Joined(q, o)[i] = q[i]
      /\ \A i \in 1..Len(o) : i + Len(q) \in 1..Len(Joined(q, o)) /\ Joined(q, o)[i + Len(q)] = o[i]
      /\ \A i \in 1..Len(Joined(q, o)) : i \in 1..Len(q) \/ i > Len(q)
      /\ \A i \in 1..Len(Joined(q, o)) : i > Len(q) => i - Len(q) \in 1..Len(o) /\ Joined(q, o)[i] = o[i - Len(q)]
    BY JoinedElements
<1>2. SUFFICES ASSUME NEW i \in 1..Len(Joined(q, o)), Joined(q, o)[i].kind \in Needs(s)
               PROVE  \E j \in 1..Len(Joined(q, o)) : j < i /\ Adds(Joined(q, o)[j], s)
    BY DEF First
<1>3. CASE i \in 1..Len(q)
    <2>1. PICK j \in 1..Len(q) : j < i /\ Adds(q[j], s)
        BY <1>1, <1>2, <1>3 DEF First
    <2> QED BY <1>1, <2>1
<1>4. CASE i > Len(q)
    <2>1. CASE \E k \in 1..Len(q) : Adds(q[k], s)
        <3>1. PICK k \in 1..Len(q) : Adds(q[k], s)
            BY <2>1
        <3>2. k < i
            BY <1>1, <1>4
        <3> QED BY <1>1, <3>1, <3>2
    <2>2. CASE First(o, s)
        <3>1. i - Len(q) \in 1..Len(o) /\ o[i - Len(q)].kind \in Needs(s)
            BY <1>1, <1>2, <1>4
        <3>2. PICK k \in 1..Len(o) : k < i - Len(q) /\ Adds(o[k], s)
            BY <2>2, <3>1 DEF First
        <3>3. k + Len(q) \in 1..Len(Joined(q, o)) /\ k + Len(q) < i /\ Adds(Joined(q, o)[k + Len(q)], s)
            BY <1>1, <3>2
        <3> QED BY <3>3
    <2> QED BY <2>1, <2>2
<1> QED BY <1>1, <1>3, <1>4

LEMMA FirstTaken ==
    ASSUME NEW S, NEW q \in Seq(S), q # <<>>, NEW s, First(q, s)
    PROVE  /\ Head(q).kind \notin Needs(s)
           /\ First(Rest(q), s) \/ Adds(Head(q), s)
<1>1. /\ Len(q) \in Nat /\ Len(q) > 0 /\ Len(Rest(q)) = Len(q) - 1 /\ Head(q) = q[1]
      /\ \A i \in 1..Len(Rest(q)) : i + 1 \in 1..Len(q) /\ Rest(q)[i] = q[i + 1]
      /\ \A i \in 1..Len(q) : i # 1 => i - 1 \in 1..Len(Rest(q)) /\ Rest(q)[i - 1] = q[i]
    BY RestElements
<1>2. q[1].kind \notin Needs(s)
    BY <1>1 DEF First
<1>3. ASSUME ~Adds(q[1], s), NEW i \in 1..Len(Rest(q)), Rest(q)[i].kind \in Needs(s)
      PROVE  \E j \in 1..Len(Rest(q)) : j < i /\ Adds(Rest(q)[j], s)
    <2>1. PICK j \in 1..Len(q) : j < i + 1 /\ Adds(q[j], s)
        BY <1>1, <1>3 DEF First
    <2>2. j # 1
        BY <1>3, <2>1
    <2>3. j - 1 \in 1..Len(Rest(q)) /\ j - 1 < i /\ Adds(Rest(q)[j - 1], s)
        BY <1>1, <2>1, <2>2
    <2> QED BY <2>3
<1> QED BY <1>1, <1>2, <1>3 DEF First

-----------------------------------------------------------------------------
(* Lemmas about the operators of the model.                                  *)

LEMMA EmitLinks ==
    ASSUME NEW z \in Address, NEW f, f # z, NEW out, Emit(z, f, out)
    PROVE  /\ \A y \in Address : chan'[z][y] = Joined(chan[z][y], out[y])
           /\ f \in Address => chan'[f][z] = Rest(chan[f][z])
           /\ \A x, y \in Address : x # z /\ ~(x = f /\ y = z) => chan'[x][y] = chan[x][y]
<1> DEFINE p(m, n) == CASE m = z -> Joined(chan[m][n], out[n])
                        [] m = f /\ n = z -> Rest(chan[m][n])
                        [] OTHER -> chan[m][n]
<1>1. chan' = [m \in Address |-> [n \in Address |-> p(m, n)]]
    BY DEF Emit, Joined, Rest
<1>2. \A x, y \in Address : chan'[x][y] = p(x, y)
    <2> HIDE DEF p
    <2> QED BY <1>1
<1>3. \A y \in Address : p(z, y) = Joined(chan[z][y], out[y])
    OBVIOUS
<1>4. p(f, z) = Rest(chan[f][z])
    OBVIOUS
<1>5. \A x, y \in Address : x # z /\ ~(x = f /\ y = z) => p(x, y) = chan[x][y]
    OBVIOUS
<1> HIDE DEF p
<1> QED BY <1>2, <1>3, <1>4, <1>5

LEMMA EmitSent ==
    ASSUME NEW z \in Address, NEW f, f # z, NEW out, Emit(z, f, out), NEW y \in Address
    PROVE  chan'[z][y] = Joined(chan[z][y], out[y])
BY EmitLinks

LEMMA EmitTable ==
    ASSUME NEW z, NEW f, NEW out, Emit(z, f, out)
    PROVE  chan' = [x \in Address |-> [y \in Address |-> chan'[x][y]]]
<1> DEFINE p(m, n) == CASE m = z -> chan[m][n] \o out[n]
                        [] m = f /\ n = z -> Tail(chan[m][n])
                        [] OTHER -> chan[m][n]
<1>1. chan' = [m \in Address |-> [n \in Address |-> p(m, n)]]
    BY DEF Emit
<1> HIDE DEF p
<1> QED BY <1>1

LEMMA NextHop ==
    ASSUME NEW x, NEW a, NEW from
    PROVE  /\ a \in conn[x] => nextHop(x, a, from) = a
           /\ a \notin conn[x] /\ routes[x][a] = <<>> => nextHop(x, a, from) = None
           /\ \A v : a \notin conn[x] /\ routes[x][a] = <<v>> =>
                  nextHop(x, a, from) = IF v \in {Direct, from} THEN None ELSE v
<1> DEFINE at(s) == SelectInSeq(s, LAMBDA v : v \notin {Direct, from})
<1>1. at(<<>>) = 0
    BY DEF SelectInSeq
<1>2. ASSUME NEW v PROVE at(<<v>>) = IF v \in {Direct, from} THEN 0 ELSE 1
    <2>1. CASE v \in {Direct, from}
        <3>1. {i \in 1..Len(<<v>>) : <<v>>[i] \notin {Direct, from}} = {}
            BY <2>1
        <3> QED BY <2>1, <3>1 DEF SelectInSeq
    <2>2. CASE v \notin {Direct, from}
        <3>1. {i \in 1..Len(<<v>>) : <<v>>[i] \notin {Direct, from}} = {1}
            BY <2>2
        <3>2. Min({1}) = 1
            BY DEF Min
        <3> QED BY <2>2, <3>1, <3>2 DEF SelectInSeq
    <2> QED BY <2>1, <2>2
<1>3. nextHop(x, a, from) =
        CASE a \in conn[x] -> a
          [] a \notin conn[x] /\ at(routes[x][a]) # 0 -> routes[x][a][at(routes[x][a])]
          [] OTHER -> None
    BY DEF nextHop
<1> HIDE DEF at
<1>4. a \in conn[x] => nextHop(x, a, from) = a
    BY <1>3
<1>5. a \notin conn[x] /\ routes[x][a] = <<>> => nextHop(x, a, from) = None
    BY <1>1, <1>3
<1>6. ASSUME NEW v, a \notin conn[x], routes[x][a] = <<v>>
      PROVE  nextHop(x, a, from) = IF v \in {Direct, from} THEN None ELSE v
    BY <1>2, <1>3, <1>6
<1> QED BY <1>4, <1>5, <1>6

LEMMA Outs ==
    ASSUME NEW n \in Address
    PROVE  /\ Nothing[n] = <<>>
           /\ \A m, p : To(m, p)[n] = IF n = m THEN <<p>> ELSE <<>>
           /\ \A o, q : (o ++ q)[n] = Joined(o[n], q[n])
BY DEF Nothing, To, ++, Joined

LEMMA RoutedIs ==
    ASSUME NEW x, NEW p, NEW from, NEW n \in Address
    PROVE  Routed(x, p, from)[n] = IF n = nextHop(x, p.receiver, from) THEN <<p>> ELSE <<>>
BY Outs, Nodes DEF Routed

LEMMA ToldAdded ==
    ASSUME NEW C, NEW a \in Address, NEW v, NEW n \in Address
    PROVE  LET told == n \in C /\ n # a /\ n # v
           IN  /\ told => Told(C, ConnectionAdded(a, v, LinkRtt))[n] = <<AddForwarded(a, LinkRtt)>>
               /\ ~told => Told(C, ConnectionAdded(a, v, LinkRtt))[n] = <<>>
<1> DEFINE e == ConnectionAdded(a, v, LinkRtt)
<1>1. NotificationFor(n, e) = IF n # a /\ n # v THEN AddForwarded(a, LinkRtt) ELSE NoMessage
    BY DEF NotificationFor, ConnectionAdded, Concerns
<1>2. AddForwarded(a, LinkRtt) # NoMessage
    BY DEF AddForwarded, NoMessage
<1> HIDE DEF e
<1> QED BY <1>1, <1>2 DEF Told, e

LEMMA ToldRemoved ==
    ASSUME NEW C, NEW a \in Address, NEW v, NEW n \in Address
    PROVE  LET told == n \in C /\ n # a /\ n # v
           IN  /\ told => Told(C, ConnectionRemoved(a, v))[n] = <<RemoveForwarded(a)>>
               /\ ~told => Told(C, ConnectionRemoved(a, v))[n] = <<>>
<1> DEFINE e == ConnectionRemoved(a, v)
<1>1. NotificationFor(n, e) = IF n # a /\ n # v THEN RemoveForwarded(a) ELSE NoMessage
    BY DEF NotificationFor, ConnectionRemoved, Concerns
<1>2. RemoveForwarded(a) # NoMessage
    BY DEF RemoveForwarded, NoMessage
<1> HIDE DEF e
<1> QED BY <1>1, <1>2 DEF Told, e

\* A second route besides a direct one is nobody's news.
LEMMA ToldSeconded ==
    ASSUME NEW C, NEW a, NEW n \in Address
    PROVE  Told(C, ViaListSeconded(a, Direct, LinkRtt))[n] = <<>>
<1>1. NotificationFor(n, ViaListSeconded(a, Direct, LinkRtt)) = NoMessage
    BY Nodes DEF NotificationFor, ViaListSeconded, Concerns
<1> QED BY <1>1 DEF Told

LEMMA RemoveFirstOnly == ASSUME NEW d PROVE RemoveFirst(<<d>>, d) = <<>>
<1>1. \E i \in 1..Len(<<d>>) : <<d>>[i] = d
    OBVIOUS
<1>2. SelectInSeq(<<d>>, LAMBDA v : v = d) = 1
    <2>1. {i \in 1..Len(<<d>>) : <<d>>[i] = d} = {1}
        OBVIOUS
    <2>2. Min({1}) = 1
        BY DEF Min
    <2> QED BY <2>1, <2>2 DEF SelectInSeq
<1>3. RemoveAt(<<d>>, 1) = <<>>
    BY DEF RemoveAt
<1> QED BY <1>1, <1>2, <1>3 DEF RemoveFirst

\* The sequence of a finite set has its elements.
LEMMA SetToSeqIs ==
    ASSUME NEW T, IsFiniteSet(T)
    PROVE  SetToSeq(T) \in Seq(T) /\ \A e \in T : \E i \in 1..Len(SetToSeq(T)) : SetToSeq(T)[i] = e
<1> DEFINE n == Cardinality(T)
<1>1. n \in Nat /\ \E g : g \in Bijection(1..n, T)
    BY FS_CardinalityType DEF ExistsBijection
<1>2. \E g \in [1..n -> T] : IsInjective(g)
    BY <1>1 DEF Bijection, Injection
<1>3. SetToSeq(T) \in [1..n -> T] /\ IsInjective(SetToSeq(T))
    BY <1>2 DEF SetToSeq
<1>4. SetToSeq(T) \in Injection(1..n, T)
    BY <1>3 DEF Injection
<1>5. Cardinality(1..n) = n
    BY <1>1, FS_Interval
<1>6. SetToSeq(T) \in Surjection(1..n, T)
    BY <1>4, <1>5, FS_Injection
<1>7. SetToSeq(T) \in Seq(T) /\ Len(SetToSeq(T)) = n
    BY <1>1, <1>3
<1> QED BY <1>6, <1>7 DEF Surjection

LEMMA ListIs ==
    ASSUME NEW r, NEW to \in Address
    PROVE  /\ \A n \in Address : n # to => List(r, to)[n] = <<>>
           /\ List(r, to)[to] \in Seq({AddForwarded(a, LinkRtt) : a \in {b \in Address : r[b] # <<>> /\ r[b][1] # to}})
           /\ \A a \in Address : r[a] # <<>> /\ r[a][1] # to =>
                  \E i \in 1..Len(List(r, to)[to]) : Adds(List(r, to)[to][i], a)
<1> DEFINE offered == {b \in Address : r[b] # <<>> /\ r[b][1] # to}
           T == {AddForwarded(a, LinkRtt) : a \in offered}
           g == [a \in offered |-> AddForwarded(a, LinkRtt)]
<1>1. IsFiniteSet(Address)
    <2>1. IsFiniteSet({Injected} \cup {Content} \cup {Background} \cup {Native} \cup {Popup})
        <3>1. IsFiniteSet({Injected})
            BY FS_Singleton
        <3>2. IsFiniteSet({Injected} \cup {Content})
            BY <3>1, FS_AddElement
        <3>3. IsFiniteSet({Injected} \cup {Content} \cup {Background})
            BY <3>2, FS_AddElement
        <3>4. IsFiniteSet({Injected} \cup {Content} \cup {Background} \cup {Native})
            BY <3>3, FS_AddElement
        <3> QED BY <3>4, FS_AddElement
    <2>2. Address = {Injected} \cup {Content} \cup {Background} \cup {Native} \cup {Popup}
        BY Nodes
    <2> QED BY <2>1, <2>2
<1>2. IsFiniteSet(offered)
    BY <1>1, FS_Subset
<1>3. g \in Surjection(offered, T)
    BY DEF Surjection
<1>4. IsFiniteSet(T)
    BY <1>2, <1>3, FS_Surjection
<1>5. List(r, to) = [Nothing EXCEPT ![to] = SetToSeq(T)]
    BY DEF List
<1>6. SetToSeq(T) \in Seq(T) /\ \A e \in T : \E i \in 1..Len(SetToSeq(T)) : SetToSeq(T)[i] = e
    BY <1>4, SetToSeqIs
<1>7. List(r, to)[to] = SetToSeq(T) /\ \A n \in Address : n # to => List(r, to)[n] = <<>>
    BY <1>5 DEF Nothing
<1>8. \A a \in offered : AddForwarded(a, LinkRtt) \in T
    OBVIOUS
<1> QED BY <1>6, <1>7, <1>8 DEF Adds

LEMMA AppendSecond == ASSUME NEW u, NEW v PROVE Append(<<u>>, v) = <<u, v>>
<1> DEFINE s == <<u>>
           t == <<u, v>>
<1>1. s \in Seq({u, v}) /\ Len(s) = 1 /\ s[1] = u
    OBVIOUS
<1>2. t \in Seq({u, v}) /\ Len(t) = 2 /\ t[1] = u /\ t[2] = v
    OBVIOUS
<1> HIDE DEF s, t
<1>3. /\ Append(s, v) \in Seq({u, v}) /\ Len(Append(s, v)) = Len(s) + 1
      /\ \A i \in 1..Len(s) : Append(s, v)[i] = s[i]
      /\ Append(s, v)[Len(s) + 1] = v
    <2> DEFINE S == {u, v}
    <2>1. s \in Seq(S) /\ v \in S
        BY <1>1
    <2> HIDE DEF S
    <2>2. /\ Append(s, v) \in Seq(S) /\ Len(Append(s, v)) = Len(s) + 1
          /\ \A i \in 1..Len(s) : Append(s, v)[i] = s[i]
          /\ Append(s, v)[Len(s) + 1] = v
        BY <2>1, AppendProperties
    <2> QED BY <2>2 DEF S
<1>4. \A i \in 1..2 : i = 1 \/ i = 2
    OBVIOUS
<1> DEFINE q == Append(s, v)
<1>5. q \in Seq({u, v}) /\ Len(q) = 2 /\ q[1] = u /\ q[2] = v
    BY <1>1, <1>3
<1> HIDE DEF q
<1>6. q = t
    BY <1>2, <1>4, <1>5, SeqEqual
<1>7. Append(s, v) = t
    BY <1>6 DEF q
<1> QED BY <1>7 DEF s, t

LEMMA IncIs ==
    ASSUME NEW r, r = [b \in Address |-> r[b]], NEW a \in Address, NEW v
    PROVE  /\ inc(r, a, v) = [b \in Address |-> inc(r, a, v)[b]]
           /\ \A b \in Address : b # a \/ Contains(r[a], v) => inc(r, a, v)[b] = r[b]
           /\ ~Contains(r[a], v) => inc(r, a, v)[a] = Append(r[a], v)
<1>1. inc(r, a, v) = [b \in Address |-> inc(r, a, v)[b]]
    BY DEF inc
<1>2. \A b \in Address : b # a \/ Contains(r[a], v) => inc(r, a, v)[b] = r[b]
    BY DEF inc
<1>3. ~Contains(r[a], v) => inc(r, a, v)[a] = Append(r[a], v)
    BY DEF inc
<1> QED BY <1>1, <1>2, <1>3

LEMMA IncOne ==
    ASSUME NEW r, r = [b \in Address |-> r[b]], NEW a \in Address, NEW v, r[a] = <<>>
    PROVE  inc(r, a, v)[a] = <<v>>
<1>1. ~Contains(r[a], v)
    BY ContainsShort
<1>2. inc(r, a, v)[a] = Append(r[a], v)
    BY <1>1, IncIs, ZenonT(40)
<1>3. Append(<<>>, v) = <<v>>
    OBVIOUS
<1> QED BY <1>2, <1>3

LEMMA IncTwo ==
    ASSUME NEW r, r = [b \in Address |-> r[b]], NEW a \in Address, NEW v, r[a] = <<Direct>>, v # Direct
    PROVE  inc(r, a, v)[a] = <<Direct, v>>
<1>1. ~Contains(r[a], v)
    <2>1. ~Contains(<<Direct>>, v)
        BY ContainsShort
    <2> QED BY <2>1
<1>2. inc(r, a, v)[a] = Append(r[a], v)
    BY <1>1, IncIs, ZenonT(40)
<1>3. Append(<<Direct>>, v) = <<Direct, v>>
    BY AppendSecond
<1> QED BY <1>2, <1>3

-----------------------------------------------------------------------------
(* Lemmas about the packets.                                                 *)

DataKinds == {"Request", "Response", "Notification", "Closed"}

LEMMA DataKind == ASSUME NEW x, NEW y, NEW p \in Data(x, y) PROVE p.kind \in DataKinds
<1>1. \A q \in PageRequests \cup AccessRequests \cup NativeRequests : q.kind = "Request"
    BY DEF PageRequests, AccessRequests, NativeRequests
<1>2. \A q \in PageResponses \cup NativeResponses : q.kind = "Response"
    BY DEF PageResponses, NativeResponses
<1>3. \A q \in Notices \cup Greetings : q.kind = "Notification"
    BY DEF Notices, Greetings
<1>4. Closed.kind = "Closed"
    BY DEF Closed
<1> QED BY <1>1, <1>2, <1>3, <1>4 DEF Data, DataKinds, FromBackground

LEMMA AnnouncementIs ==
    ASSUME NEW x, NEW y, NEW p \in Announcements(x, y)
    PROVE  /\ p.kind \in {"AddForwarded", "RemoveForwarded"} /\ p.to \in Address
           /\ Announces(x, y, p.to)
           /\ p.kind = "AddForwarded" => p = AddForwarded(p.to, LinkRtt)
           /\ p.kind = "RemoveForwarded" => p = RemoveForwarded(p.to) /\ p.to = Popup
BY Nodes DEF Announcements, AddForwarded, RemoveForwarded

LEMMA AnnouncementsAre ==
    ASSUME NEW x, NEW y, NEW a \in Address, Announces(x, y, a)
    PROVE  /\ AddForwarded(a, LinkRtt) \in Announcements(x, y)
           /\ a = Popup => RemoveForwarded(a) \in Announcements(x, y)
BY DEF Announcements, AddForwarded, RemoveForwarded

\* A packet that is no announcement says nothing about routes.
LEMMA DataSilent ==
    ASSUME NEW p, p.kind \in DataKinds, NEW a
    PROVE  ~Adds(p, a) /\ ~Drops(p, a)
BY DEF Adds, Drops, AddForwarded, RemoveForwarded, DataKinds

-----------------------------------------------------------------------------
(* Steps of the network.                                                     *)

LEMMA ChanStep ==
    ASSUME ChanOK, NEW z \in Address, NEW f, f # z, NEW out, Emit(z, f, out),
           f \in Address => chan[f][z] # <<>>,
           \A y \in Address : out[y] \in Seq(PacketsOn(z, y))
    PROVE  ChanOK'
<1>1. ASSUME NEW y \in Address PROVE chan'[z][y] \in Seq(PacketsOn(z, y))
    <2>1. chan'[z][y] = Joined(chan[z][y], out[y])
        BY EmitLinks
    <2> QED BY <2>1, JoinedIs DEF ChanOK
<1>2. ASSUME NEW x \in Address, NEW y \in Address, x # z
      PROVE  chan'[x][y] \in Seq(PacketsOn(x, y))
    <2>1. chan[x][y] \in Seq(PacketsOn(x, y)) /\ (x = f /\ y = z => chan[x][y] # <<>>)
        BY DEF ChanOK
    <2>2. CASE x = f /\ y = z
        <3>1. chan'[x][y] = Rest(chan[x][y])
            BY EmitLinks, <2>2
        <3> QED BY <2>1, <2>2, <3>1, RestElements
    <2>3. CASE ~(x = f /\ y = z)
        BY EmitLinks, <1>2, <2>1, <2>3
    <2> QED BY <2>2, <2>3
<1>3. \A x, y \in Address : chan'[x][y] \in Seq(PacketsOn(x, y))
    BY <1>1, <1>2
<1> QED BY <1>3, EmitTable DEF ChanOK

\* What z may send y: with the port, and knowing the node it comes from.
MaySend(z, y, p) ==
    /\ p \in Data(z, y) /\ p # Closed /\ y \in conn[z] /\ z # Popup
    /\ y # Popup => \A s \in {Injected, Native} :
                        Announces(z, y, s) /\ p.kind \in Needs(s) => routes[z][s] # <<>>
Sendable(z, y) == {p \in Data(z, y) : MaySend(z, y, p)}
Sends(z, out) == \A y \in Address : out[y] \in Seq(Sendable(z, y))
\* What x may take.
MayTake(z, f) == f \in conn[z] /\ chan[f][z] # <<>> /\ Head(chan[f][z]).kind \in DataKinds \ {"Closed"}

LEMMA SendsNothing == ASSUME NEW z PROVE Sends(z, Nothing)
<1>1. ASSUME NEW y \in Address PROVE Nothing[y] \in Seq(Sendable(z, y))
    <2>1. Nothing[y] = <<>>
        BY Outs
    <2>2. <<>> \in Seq(Sendable(z, y))
        OBVIOUS
    <2> QED BY <2>1, <2>2, Zenon
<1> QED BY <1>1, Zenon DEF Sends

LEMMA SendsTo ==
    ASSUME NEW z, NEW h, NEW p, h \in Address => MaySend(z, h, p)
    PROVE  Sends(z, To(h, p))
<1>1. ASSUME NEW y \in Address PROVE To(h, p)[y] \in Seq(Sendable(z, y))
    <2>1. To(h, p)[y] = IF y = h THEN <<p>> ELSE <<>>
        BY Outs
    <2>2. y = h => p \in Sendable(z, y)
        BY DEF MaySend, Sendable
    <2> QED BY <2>1, <2>2
<1> QED BY <1>1 DEF Sends

LEMMA SendsRouted ==
    ASSUME NEW z, NEW from, NEW p, LET h == nextHop(z, p.receiver, from) IN h \in Address => MaySend(z, h, p)
    PROVE  Sends(z, Routed(z, p, from))
BY SendsTo, SendsNothing DEF Routed

LEMMA SendsBoth ==
    ASSUME NEW z, NEW o, NEW q, Sends(z, o), Sends(z, q)
    PROVE  Sends(z, o ++ q)
<1>1. ASSUME NEW y \in Address PROVE (o ++ q)[y] \in Seq(Sendable(z, y))
    <2>1. (o ++ q)[y] = Joined(o[y], q[y])
        BY Outs
    <2> QED BY <2>1, JoinedIs DEF Sends
<1> QED BY <1>1 DEF Sends

LEMMA SendsIs ==
    ASSUME NEW z, NEW out, Sends(z, out), NEW y \in Address
    PROVE  /\ out[y] \in Seq(PacketsOn(z, y)) /\ \A a : Silent(out[y], a)
           /\ \A i \in 1..Len(out[y]) : MaySend(z, y, out[y][i])
           /\ y \notin conn[z] \/ z = Popup => out[y] = <<>>
<1> DEFINE o == out[y]
<1>1. o \in Seq(Sendable(z, y))
    BY DEF Sends
<1> HIDE DEF o
<1>2. Len(o) \in Nat /\ \A i \in 1..Len(o) : o[i] \in Sendable(z, y)
    BY <1>1
<1>3. \A i \in 1..Len(o) : MaySend(z, y, o[i]) /\ o[i] \in PacketsOn(z, y)
    BY <1>2 DEF Sendable, PacketsOn
<1>4. o \in Seq(PacketsOn(z, y))
    BY <1>1, <1>3
<1>5. \A i \in 1..Len(o) : o[i].kind \in DataKinds
    BY <1>2, DataKind DEF Sendable
<1>6. \A a : Silent(o, a)
    BY <1>5, DataSilent DEF Silent
<1>7. y \notin conn[z] \/ z = Popup => o = <<>>
    <2>1. y \notin conn[z] \/ z = Popup => \A i \in 1..Len(o) : FALSE
        BY <1>3 DEF MaySend
    <2> QED BY <1>1, <1>2, <2>1
<1> QED BY <1>3, <1>4, <1>6, <1>7 DEF o

LEMMA DataStep ==
    ASSUME Net, NEW z \in Address, NEW f, f # z, NEW out, Emit(z, f, out), Sends(z, out),
           f \in Address => MayTake(z, f), UNCHANGED <<conn, routes>>
    PROVE  Net'
<1> USE DEF Net, Types
<1>1. ASSUME NEW y \in Address
      PROVE  /\ out[y] \in Seq(PacketsOn(z, y)) /\ chan[z][y] \in Seq(PacketsOn(z, y))
             /\ \A a : Silent(out[y], a)
             /\ \A i \in 1..Len(out[y]) : MaySend(z, y, out[y][i])
             /\ y \notin conn[z] \/ z = Popup => out[y] = <<>>
             /\ chan'[z][y] = Joined(chan[z][y], out[y])
    <2>1. chan'[z][y] = Joined(chan[z][y], out[y])
        BY EmitLinks
    <2>2. chan[z][y] \in Seq(PacketsOn(z, y))
        BY DEF ChanOK
    <2> QED BY <2>1, <2>2, SendsIs
<1>2. f \in Address => /\ chan[f][z] \in Seq(PacketsOn(f, z)) /\ chan[f][z] # <<>> /\ z \in Address
                       /\ chan'[f][z] = Rest(chan[f][z])
                       /\ \A a : ~Adds(Head(chan[f][z]), a) /\ ~Drops(Head(chan[f][z]), a)
                       /\ Head(chan[f][z]) # Closed
    <2>1. f \in Address => chan'[f][z] = Rest(chan[f][z])
        BY EmitLinks
    <2>2. \A p : p.kind # "Closed" => p # Closed
        BY DEF Closed
    <2> QED BY <2>1, <2>2, DataSilent DEF MayTake, ChanOK
<1>3. \A x, y \in Address : x # z /\ ~(x = f /\ y = z) => chan'[x][y] = chan[x][y]
    BY EmitLinks
<1>4. ChanOK'
    BY <1>1, <1>2, ChanStep
<1>5. ConnOK' /\ RoutesOK'
    BY DEF ConnOK, RoutesOK, RouteOK
<1>6. AgreeOK'
    <2>1. ASSUME NEW x \in Address, NEW y \in Address, NEW a \in Address
          PROVE  Believes(chan'[x][y], a, routes[y][a], x) <=> Believes(chan[x][y], a, routes[y][a], x)
        <3>1. CASE x = z
            <4> DEFINE S == PacketsOn(z, y)
            <4>1. chan[z][y] \in Seq(S) /\ out[y] \in Seq(S) /\ Silent(out[y], a)
                BY <1>1
            <4> HIDE DEF S
            <4>2. Believes(Joined(chan[z][y], out[y]), a, routes[y][a], z)
                      <=> Believes(chan[z][y], a, routes[y][a], z)
                BY <4>1, BelievesSilent
            <4> QED BY <1>1, <3>1, <4>2
        <3>2. CASE x = f /\ y = z
            BY <1>2, <3>2, BelievesTail
        <3>3. CASE x # z /\ ~(x = f /\ y = z)
            BY <1>3, <3>3
        <3> QED BY <3>1, <3>2, <3>3
    <2>2. \A x, y, a \in Address : Announces(x, y, a) => Agree(x, y, a)'
        BY <2>1 DEF AgreeOK, Agree, Linked
    <2> QED BY <2>2 DEF AgreeOK
<1>7. QuietOK'
    <2>1. ASSUME NEW x \in Address, NEW y \in Address, chan[x][y] = <<>>, y \notin conn[x]
          PROVE  chan'[x][y] = <<>>
        BY <1>1, <1>2, <1>3, <2>1, JoinedIs DEF MayTake
    <2> QED BY <2>1 DEF QuietOK
<1>8. KnownFirst'
    <2>1. ASSUME NEW s \in {Injected, Native}, NEW x \in Address \ {Popup}, NEW y \in Address \ {Popup},
                 Announces(x, y, s), ~Contains(routes[y][s], x)
          PROVE  First(chan'[x][y], s)
        <3>1. First(chan[x][y], s)
            BY <2>1 DEF KnownFirst
        <3>2. CASE x = z
            <4>1. CASE \E i \in 1..Len(out[y]) : out[y][i].kind \in Needs(s)
                <5>1. routes[z][s] # <<>> /\ y \in conn[z]
                    BY <1>1, <2>1, <3>2, <4>1 DEF MaySend
                <5>2. Believes(chan[z][y], s, routes[y][s], z)
                    BY <2>1, <3>2, <5>1, Nodes DEF AgreeOK, Agree, Linked
                <5>3. \E i \in 1..Len(chan[z][y]) : Adds(chan[z][y][i], s)
                    BY <2>1, <3>2, <5>2, BelievesUnknown
                <5> QED BY <1>1, <3>1, <3>2, <5>3, FirstSent
            <4>2. CASE ~\E i \in 1..Len(out[y]) : out[y][i].kind \in Needs(s)
                <5>1. First(out[y], s)
                    BY <4>2 DEF First
                <5> QED BY <1>1, <3>1, <3>2, <5>1, FirstSent
            <4> QED BY <4>1, <4>2
        <3>3. CASE x = f /\ y = z
            BY <1>2, <3>1, <3>3, FirstTaken
        <3>4. CASE x # z /\ ~(x = f /\ y = z)
            BY <1>3, <3>1, <3>4
        <3> QED BY <3>2, <3>3, <3>4
    <2> QED BY <2>1 DEF KnownFirst
<1>9. CloseOK'
    <2> DEFINE q == chan[Popup][Background]
    <2>1. chan'[Popup][Background] = q \/ (f = Popup /\ z = Background /\ chan'[Popup][Background] = Rest(q))
        BY <1>1, <1>2, <1>3, Nodes, JoinedIs
    <2>2. CASE f = Popup /\ z = Background /\ chan'[Popup][Background] = Rest(q)
        <3>1. /\ Len(q) \in Nat /\ Len(q) > 0 /\ Len(Rest(q)) = Len(q) - 1 /\ Head(q) = q[1]
              /\ \A i \in 1..Len(Rest(q)) : i + 1 \in 1..Len(q) /\ Rest(q)[i] = q[i + 1]
              /\ \A i \in 1..Len(q) : i # 1 => i - 1 \in 1..Len(Rest(q)) /\ Rest(q)[i - 1] = q[i]
            BY <1>2, <2>2, Nodes, RestElements
        <3>2. q[1] # Closed /\ Popup \in conn[Background]
            BY <1>2, <2>2, <3>1, Nodes DEF MayTake
        <3>3. \A i \in 1..Len(Rest(q)) : Rest(q)[i] = Closed => i = Len(Rest(q))
            BY <3>1 DEF CloseOK
        <3>4. (\E i \in 1..Len(Rest(q)) : Rest(q)[i] = Closed) <=> \E i \in 1..Len(q) : q[i] = Closed
            BY <3>1, <3>2, ZenonT(40)
        <3> QED BY <2>2, <3>2, <3>3, <3>4 DEF CloseOK
    <2>3. CASE chan'[Popup][Background] = q
        BY <2>3 DEF CloseOK
    <2> QED BY <2>1, <2>2, <2>3
<1> QED BY <1>4, <1>5, <1>6, <1>7, <1>8, <1>9

-----------------------------------------------------------------------------
(* Steps that change a routing table.                                        *)

\* Announcements spread away from where they come from.
LEMMA Spreads ==
    ASSUME ConnOK, NEW f \in Address, NEW z \in Address, NEW a \in Address, Announces(f, z, a)
    PROVE  /\ f # z /\ f # Popup
           /\ \A y \in Address : y \in conn[z] /\ y # a /\ y # f => Announces(z, y, a)
           /\ \A y \in Address : Announces(z, y, a) => y # a /\ y # f
           /\ \A g \in Address : Announces(g, z, a) => g = f
           /\ a \in conn[z] => a = Background /\ z \in {Content, Popup} /\ f = Background
<1> USE Nodes DEF ConnOK, Announces
<1>1. f # z /\ f # Popup
    OBVIOUS
<1>2. \A y \in Address : y \in conn[z] /\ y # a /\ y # f => Announces(z, y, a)
    OBVIOUS
<1>3. \A y \in Address : Announces(z, y, a) => y # a /\ y # f
    OBVIOUS
<1>4. \A g \in Address : Announces(g, z, a) => g = f
    OBVIOUS
<1>5. a \in conn[z] => a = Background /\ z \in {Content, Popup} /\ f = Background
    OBVIOUS
<1> QED BY <1>1, <1>2, <1>3, <1>4, <1>5

\* z does what the packet says it takes from f.
Follows(z, f) ==
    f \in Address =>
        /\ chan[f][z] # <<>>
        /\ \A a \in Address : Announces(f, z, a) =>
              \/ Contains(routes'[z][a], f) <=>
                     \/ Adds(Head(chan[f][z]), a)
                     \/ Contains(routes[z][a], f) /\ ~Drops(Head(chan[f][z]), a)
              \/ z = Native /\ Drops(Head(chan[f][z]), a) /\ routes'[z][a] = routes[z][a]
\* Nothing else changes but at the popup, when the background page opens it.
OthersKept(z, f) ==
    /\ \A x, a \in Address : x # z /\ x # Popup => routes'[x][a] = routes[x][a]
    /\ \A a \in Address : z # Background /\ z # Popup => routes'[Popup][a] = routes[Popup][a]
    /\ \A x, a \in Address : x # f /\ Announces(x, z, a) =>
           (Contains(routes'[z][a], x) <=> Contains(routes[z][a], x))
    /\ \A x, y \in Address : x # z /\ x # Popup /\ Linked(x, y)' => Linked(x, y)

LEMMA DropsPopup ==
    ASSUME ChanOK, NEW x \in Address, NEW y \in Address, NEW a, chan[x][y] # <<>>,
           Drops(Head(chan[x][y]), a)
    PROVE  a = Popup
<1> DEFINE p == Head(chan[x][y])
<1>1. p \in PacketsOn(x, y)
    BY DEF ChanOK
<1> HIDE DEF p
<1>2. p = RemoveForwarded(a)
    BY DEF p, Drops
<1>3. p \in Announcements(x, y)
    BY <1>1, <1>2, DataKind DEF PacketsOn, RemoveForwarded, DataKinds
<1> QED BY <1>2, <1>3, AnnouncementIs DEF RemoveForwarded

LEMMA AgreeStep ==
    ASSUME Net, NEW z \in Address, NEW f, f # z, NEW out, Emit(z, f, out),
           Follows(z, f), OthersKept(z, f),
           \A y, a \in Address : Announces(z, y, a) => Agree(z, y, a)'
    PROVE  AgreeOK'
<1> USE DEF Net, Types
<1>1. \A x, y \in Address : x # z /\ ~(x = f /\ y = z) => chan'[x][y] = chan[x][y]
    BY EmitLinks
<1>2. ASSUME NEW x \in Address, NEW y \in Address, NEW a \in Address, Announces(x, y, a), x # z
      PROVE  Agree(x, y, a)'
    <2>1. Agree(x, y, a) /\ routes'[x][a] = routes[x][a] /\ (Linked(x, y)' => Linked(x, y))
        BY <1>2, Nodes DEF AgreeOK, OthersKept, Announces
    <2>2. CASE x = f /\ y = z
        <3>1. chan'[f][z] = Rest(chan[f][z]) /\ chan[f][z] # <<>> /\ chan[f][z] \in Seq(PacketsOn(f, z))
            BY <2>2, EmitLinks DEF Follows, ChanOK
        <3>2. CASE Contains(routes'[z][a], f) <=> \/ Adds(Head(chan[f][z]), a)
                                                  \/ Contains(routes[z][a], f) /\ ~Drops(Head(chan[f][z]), a)
            <4>1. Believes(chan'[f][z], a, routes'[z][a], f) <=> Believes(chan[f][z], a, routes[z][a], f)
                BY <3>1, <3>2, BelievesTail
            <4> QED BY <2>1, <2>2, <4>1 DEF Agree
        <3>3. CASE z = Native /\ Drops(Head(chan[f][z]), a) /\ routes'[z][a] = routes[z][a]
            <4>1. a = Popup
                BY <2>2, <3>1, <3>3, DropsPopup
            <4>2. Believes(chan[f][z], a, routes[z][a], f) => Believes(chan'[f][z], a, routes'[z][a], f)
                BY <3>1, <3>3, BelievesIgnored
            <4> QED BY <2>1, <2>2, <3>3, <4>1, <4>2 DEF Agree
        <3> QED BY <1>2, <2>2, <3>2, <3>3 DEF Follows
    <2>3. CASE ~(x = f /\ y = z)
        <3>1. chan'[x][y] = chan[x][y]
            BY <1>1, <1>2, <2>3
        <3>2. Contains(routes'[y][a], x) <=> Contains(routes[y][a], x)
            BY <1>2, <2>3, Nodes DEF OthersKept, Announces
        <3>3. Believes(chan'[x][y], a, routes'[y][a], x) <=> Believes(chan[x][y], a, routes[y][a], x)
            BY <3>1, <3>2 DEF Believes
        <3> QED BY <2>1, <3>3 DEF Agree
    <2> QED BY <2>2, <2>3
<1> QED BY <1>2 DEF AgreeOK

LEMMA FirstStep ==
    ASSUME Net, NEW z \in Address, NEW f, f # z, NEW out, Emit(z, f, out),
           Follows(z, f), OthersKept(z, f), \A y \in Address : out[y] \in Seq(PacketsOn(z, y)),
           \A y \in Address \ {Popup} : \A s \in {Injected, Native} : Announces(z, y, s) => First(out[y], s)
    PROVE  KnownFirst'
<1>a. ASSUME NEW y \in Address PROVE chan'[z][y] = Joined(chan[z][y], out[y])
    BY EmitSent
<1>b. \A x, y \in Address : x # z /\ ~(x = f /\ y = z) => chan'[x][y] = chan[x][y]
    BY EmitLinks
<1> USE DEF Net, Types
<1> SUFFICES ASSUME NEW s \in {Injected, Native}, NEW x \in Address \ {Popup},
                    NEW y \in Address \ {Popup}, Announces(x, y, s), ~Contains(routes'[y][s], x)
             PROVE  First(chan'[x][y], s)
    BY DEF KnownFirst
<1>0. x \in Address /\ y \in Address /\ s \in Address /\ x # Popup /\ y # Popup /\ s # Popup
    BY Nodes
<1>1. CASE x = z
    <2>1. chan'[z][y] = Joined(chan[z][y], out[y])
        BY <1>0, <1>a
    <2>2. routes'[y][s] = routes[y][s]
        BY <1>0, <1>1, Nodes DEF OthersKept, Announces
    <2>3. First(chan[z][y], s)
        BY <1>1, <2>2 DEF KnownFirst
    <2>4. chan[z][y] \in Seq(PacketsOn(z, y)) /\ out[y] \in Seq(PacketsOn(z, y)) /\ First(out[y], s)
        BY <1>0, <1>1 DEF ChanOK
    <2> QED BY <1>1, <2>1, <2>3, <2>4, FirstSent
<1>2. CASE x = f /\ y = z
    <2>1. chan'[f][z] = Rest(chan[f][z]) /\ chan[f][z] # <<>> /\ chan[f][z] \in Seq(PacketsOn(f, z))
        BY <1>2, EmitLinks DEF Follows, ChanOK
    <2>2. ~Drops(Head(chan[f][z]), s)
        BY <1>0, <1>2, <2>1, DropsPopup
    <2>3. ~Adds(Head(chan[f][z]), s) /\ ~Contains(routes[z][s], f)
        BY <1>0, <1>2, <2>2 DEF Follows
    <2>4. First(chan[f][z], s)
        BY <1>2, <2>3 DEF KnownFirst
    <2> QED BY <1>2, <2>1, <2>3, <2>4, FirstTaken
<1>3. CASE x # z /\ ~(x = f /\ y = z)
    <2>1. chan'[x][y] = chan[x][y]
        BY <1>0, <1>3, <1>b
    <2>2. Contains(routes'[y][s], x) <=> Contains(routes[y][s], x)
        BY <1>0, <1>3 DEF OthersKept
    <2> QED BY <2>1, <2>2 DEF KnownFirst
<1> QED BY <1>1, <1>2, <1>3

LEMMA TableStep ==
    ASSUME Net, NEW z \in Address, NEW f, f # z, NEW out, Emit(z, f, out),
           Follows(z, f), OthersKept(z, f), ConnOK', RoutesOK', CloseOK',
           \A y \in Address : out[y] \in Seq(PacketsOn(z, y)),
           \A y, a \in Address : Announces(z, y, a) => Agree(z, y, a)',
           \A y \in Address \ {Popup} : \A s \in {Injected, Native} : Announces(z, y, s) => First(out[y], s),
           \A x, y \in Address \ {Popup} :
               y \notin conn'[x] => y \notin conn[x] /\ (x = z => out[y] = <<>>)
    PROVE  Net'
<1>1. ChanOK'
    BY ChanStep DEF Net, Types, Follows
<1>2. AgreeOK'
    BY AgreeStep
<1>3. KnownFirst'
    BY FirstStep
<1>4. ASSUME NEW x \in Address \ {Popup}, NEW y \in Address \ {Popup}, y \notin conn'[x]
      PROVE  chan'[x][y] = <<>>
    <2>1. chan[x][y] = <<>> /\ x \in Address /\ y \in Address
        BY <1>4 DEF Net, QuietOK
    <2>2. CASE x = z
        <3>1. chan'[z][y] = Joined(chan[z][y], out[y])
            BY <2>1, EmitSent
        <3>2. out[y] = <<>>
            BY <1>4, <2>2
        <3> QED BY <2>1, <2>2, <3>1, <3>2 DEF Joined
    <2>3. CASE x # z
        <3>1. ~(x = f /\ y = z)
            BY <2>1 DEF Follows
        <3> QED BY <2>1, <2>3, <3>1, EmitLinks
    <2> QED BY <2>2, <2>3
<1>5. QuietOK'
    BY <1>4 DEF QuietOK
<1> QED BY <1>1, <1>2, <1>3, <1>5 DEF Net, Types

LEMMA CloseKept ==
    ASSUME CloseOK, chan'[Popup][Background] = chan[Popup][Background],
           conn'[Popup] = conn[Popup], Popup \in conn'[Background] <=> Popup \in conn[Background]
    PROVE  CloseOK'
BY DEF CloseOK

\* z tells y of a what is true of it.
LEMMA AgreeTold ==
    ASSUME NEW S, NEW z \in Address, NEW y \in Address, NEW a \in Address, NEW o \in Seq(S),
           chan[z][y] \in Seq(S), Agree(z, y, a), chan'[z][y] = Joined(chan[z][y], o),
           Contains(routes'[y][a], z) <=> Contains(routes[y][a], z),
           \/ /\ Silent(o, a) /\ (routes[z][a] # <<>> => routes'[z][a] # <<>>)
              /\ Linked(z, y)' /\ routes'[z][a] # <<>> => Linked(z, y) /\ routes[z][a] # <<>>
           \/ (\E i \in 1..Len(o) : Adds(o[i], a)) /\ (\A i \in 1..Len(o) : ~Drops(o[i], a)) /\ routes'[z][a] # <<>>
           \/ (\E i \in 1..Len(o) : Drops(o[i], a)) /\ (\A i \in 1..Len(o) : ~Adds(o[i], a)) /\ routes'[z][a] = <<>>
    PROVE  Agree(z, y, a)'
<1>1. CASE Silent(o, a)
    <2>1. Believes(Joined(chan[z][y], o), a, routes[y][a], z) <=> Believes(chan[z][y], a, routes[y][a], z)
        BY <1>1, BelievesSilent
    <2>2. ~\E i \in 1..Len(o) : Adds(o[i], a) \/ Drops(o[i], a)
        BY <1>1 DEF Silent
    <2>3. Believes(Joined(chan[z][y], o), a, routes'[y][a], z)
              <=> Believes(Joined(chan[z][y], o), a, routes[y][a], z)
        BY DEF Believes
    <2> QED BY <2>1, <2>2, <2>3 DEF Agree
<1>2. CASE (\E i \in 1..Len(o) : Adds(o[i], a)) /\ (\A i \in 1..Len(o) : ~Drops(o[i], a)) /\ routes'[z][a] # <<>>
    <2>1. Believes(Joined(chan[z][y], o), a, routes'[y][a], z)
        BY <1>2, BelievesAdd
    <2> QED BY <1>2, <2>1 DEF Agree
<1>3. CASE (\E i \in 1..Len(o) : Drops(o[i], a)) /\ (\A i \in 1..Len(o) : ~Adds(o[i], a)) /\ routes'[z][a] = <<>>
    <2>1. ~Believes(Joined(chan[z][y], o), a, routes'[y][a], z)
        BY <1>3, BelievesDrop
    <2> QED BY <1>3, <2>1 DEF Agree
<1> QED BY <1>1, <1>2, <1>3

\* What one notification, or none, says.
LEMMA Notified ==
    ASSUME NEW a, NEW b
    PROVE  /\ Silent(<<>>, a)
           /\ b # a => Silent(<<AddForwarded(b, LinkRtt)>>, a) /\ Silent(<<RemoveForwarded(b)>>, a)
           /\ LET o == <<AddForwarded(a, LinkRtt)>>
              IN  (\E i \in 1..Len(o) : Adds(o[i], a)) /\ (\A i \in 1..Len(o) : ~Drops(o[i], a))
           /\ LET o == <<RemoveForwarded(a)>>
              IN  (\E i \in 1..Len(o) : Drops(o[i], a)) /\ (\A i \in 1..Len(o) : ~Adds(o[i], a))
           /\ \A s : /\ First(<<>>, s) /\ First(<<AddForwarded(b, LinkRtt)>>, s)
                     /\ First(<<RemoveForwarded(b)>>, s)
<1>1. Silent(<<>>, a) /\ \A s : First(<<>>, s)
    BY DEF Silent, First
<1>2. b # a => Silent(<<AddForwarded(b, LinkRtt)>>, a) /\ Silent(<<RemoveForwarded(b)>>, a)
    BY DEF Silent, Adds, Drops, AddForwarded, RemoveForwarded
<1>3. /\ Adds(<<AddForwarded(a, LinkRtt)>>[1], a) /\ ~Drops(<<AddForwarded(a, LinkRtt)>>[1], a)
      /\ Drops(<<RemoveForwarded(a)>>[1], a) /\ ~Adds(<<RemoveForwarded(a)>>[1], a)
    BY DEF Adds, Drops, AddForwarded, RemoveForwarded
<1>4. \A p : Len(<<p>>) = 1
    OBVIOUS
<1>5. \A s : First(<<AddForwarded(b, LinkRtt)>>, s) /\ First(<<RemoveForwarded(b)>>, s)
    BY DEF First, Needs, AddForwarded, RemoveForwarded
<1> QED BY <1>1, <1>2, <1>3, <1>4, <1>5

\* What a table that takes up a route, or drops the only one, makes its node say.
Takes(r, a, v) == r[a] = <<>> \/ (r[a] = <<Direct>> /\ v # Direct) \/ Contains(r[a], v)
SaysOfInc(C, r, a, v, n) ==
    LET told == r[a] = <<>> /\ n \in C /\ n # a /\ n # v
    IN  /\ told => ToldOfInc(C, r, a, v)[n] = <<AddForwarded(a, LinkRtt)>>
        /\ ~told => ToldOfInc(C, r, a, v)[n] = <<>>
SaysOfDec(C, r, a, v, n) ==
    LET told == r[a] # <<>> /\ n \in C /\ n # a /\ n # v
    IN  /\ told => ToldOfDec(C, r, a, v)[n] = <<RemoveForwarded(a)>>
        /\ ~told => ToldOfDec(C, r, a, v)[n] = <<>>

LEMMA IncSays ==
    ASSUME NEW C, NEW r, NEW a \in Address, NEW v, NEW n \in Address, Takes(r, a, v)
    PROVE  SaysOfInc(C, r, a, v, n)
<1> USE DEF SaysOfInc
<1>1. CASE Contains(r[a], v)
    <2>1. r[a] # <<>>
        BY <1>1, ContainsShort
    <2> QED BY <1>1, <2>1, Outs DEF ToldOfInc
<1>2. CASE r[a] = <<>>
    <2>1. ~Contains(r[a], v)
        BY <1>2, ContainsShort
    <2>2. IncEvent(r, a, v) = ConnectionAdded(a, v, LinkRtt)
        BY <1>2 DEF IncEvent
    <2>3. LET told == n \in C /\ n # a /\ n # v
          IN  /\ told => Told(C, ConnectionAdded(a, v, LinkRtt))[n] = <<AddForwarded(a, LinkRtt)>>
              /\ ~told => Told(C, ConnectionAdded(a, v, LinkRtt))[n] = <<>>
        BY ToldAdded, Zenon
    <2> QED BY <1>2, <2>1, <2>2, <2>3 DEF ToldOfInc
<1>3. CASE r[a] = <<Direct>> /\ v # Direct
    <2>1. ~Contains(r[a], v)
        BY <1>3, ContainsShort
    <2>2. IncEvent(r, a, v) = ViaListSeconded(a, Direct, LinkRtt)
        BY <1>3 DEF IncEvent
    <2> QED BY <1>3, <2>1, <2>2, ToldSeconded DEF ToldOfInc
<1> QED BY <1>1, <1>2, <1>3 DEF Takes

LEMMA DecSays ==
    ASSUME NEW C, NEW r, NEW a \in Address, NEW v, NEW n \in Address, r[a] = <<>> \/ r[a] = <<v>>
    PROVE  SaysOfDec(C, r, a, v, n)
<1> USE DEF SaysOfDec
<1>1. CASE r[a] = <<>>
    <2>1. ~Contains(r[a], v)
        BY <1>1, ContainsShort
    <2> QED BY <1>1, <2>1, Outs DEF ToldOfDec
<1>2. CASE r[a] = <<v>>
    <2>1. Contains(r[a], v)
        BY <1>2, ContainsShort
    <2>2. DecEvent(r, a, v) = ConnectionRemoved(a, v)
        BY <1>2, RemoveFirstOnly DEF DecEvent
    <2>3. LET told == n \in C /\ n # a /\ n # v
          IN  /\ told => Told(C, ConnectionRemoved(a, v))[n] = <<RemoveForwarded(a)>>
              /\ ~told => Told(C, ConnectionRemoved(a, v))[n] = <<>>
        BY ToldRemoved, Zenon
    <2> QED BY <1>2, <2>1, <2>2, <2>3 DEF ToldOfDec
<1> QED BY <1>1, <1>2

\* r has no way to a but by v.
Only(r, a, v) == r[a] \in {<<>>, <<v>>}
\* d is r without a.
Without(d, r, a) ==
    /\ d = [b \in Address |-> d[b]] /\ d[a] = <<>>
    /\ \A b \in Address : b # a => d[b] = r[b]

LEMMA DecIs ==
    ASSUME NEW r, r = [b \in Address |-> r[b]], NEW a \in Address, NEW v, Only(r, a, v)
    PROVE  Without(dec(r, a, v), r, a)
<1>1. RemoveFirst(<<>>, v) = <<>>
    BY DEF RemoveFirst
<1>2. RemoveFirst(r[a], v) = <<>>
    BY <1>1, RemoveFirstOnly DEF Only
<1> QED BY <1>2 DEF dec, Without

\* The announcement that arrives at z from f.
LEMMA Announced ==
    ASSUME ChanOK, NEW z \in Address, NEW f \in Address, NEW kind \in {"AddForwarded", "RemoveForwarded"},
           Arrives(z, f, kind)
    PROVE  LET p == Head(chan[f][z])
           IN  /\ chan[f][z] # <<>> /\ p.to \in Address /\ Announces(f, z, p.to)
               /\ kind = "AddForwarded" => p = AddForwarded(p.to, LinkRtt)
               /\ kind = "RemoveForwarded" => p = RemoveForwarded(Popup) /\ p.to = Popup
<1> DEFINE p == Head(chan[f][z])
<1>1. p \in PacketsOn(f, z) /\ chan[f][z] # <<>> /\ p.kind = kind
    BY DEF ChanOK, Arrives
<1> HIDE DEF p
<1>2. p \in Announcements(f, z)
    BY <1>1, DataKind DEF PacketsOn, DataKinds
<1> QED BY <1>1, <1>2, AnnouncementIs DEF p

LEMMA TableAt ==
    ASSUME RoutesOK, NEW z \in Address
    PROVE  routes[z] = [a \in Address |-> routes[z][a]]
BY DEF RoutesOK

LEMMA TableInc ==
    ASSUME RoutesOK, NEW z \in Address, NEW a \in Address, NEW v \in Address
    PROVE  LET r == routes[z]
           IN  /\ inc(r, a, v) = [b \in Address |-> inc(r, a, v)[b]]
               /\ \A b \in Address : b # a \/ Contains(r[a], v) => inc(r, a, v)[b] = r[b]
               /\ r[a] = <<>> => inc(r, a, v)[a] = <<v>>
               /\ r[a] = <<Direct>> => inc(r, a, v)[a] = <<Direct, v>>
<1> DEFINE r == routes[z]
<1>1. r = [b \in Address |-> r[b]] /\ v # Direct
    BY TableAt, Nodes
<1> HIDE DEF r
<1>2. inc(r, a, v) = [b \in Address |-> inc(r, a, v)[b]]
    BY <1>1, IncIs, ZenonT(40)
<1>3. \A b \in Address : b # a \/ Contains(r[a], v) => inc(r, a, v)[b] = r[b]
    BY <1>1, IncIs
<1>4. r[a] = <<>> => inc(r, a, v)[a] = <<v>>
    BY <1>1, IncOne
<1>5. r[a] = <<Direct>> => inc(r, a, v)[a] = <<Direct, v>>
    BY <1>1, IncTwo
<1> QED BY <1>2, <1>3, <1>4, <1>5 DEF r

LEMMA OnAddForwardedNet ==
    ASSUME Net, NEW z \in Address, NEW f \in Address, OnAddForwarded(z, f)
    PROVE  Net'
<1> DEFINE p == Head(chan[f][z])
           a == p.to
           out == ToldOfInc(conn[z], routes[z], a, f)
<1>1. /\ Emit(z, f, out) /\ routes' = [routes EXCEPT ![z] = inc(@, a, f)] /\ conn' = conn
      /\ Arrives(z, f, "AddForwarded")
    BY DEF OnAddForwarded
<1>2. /\ chan[f][z] # <<>> /\ a \in Address /\ Announces(f, z, a) /\ p = AddForwarded(a, LinkRtt)
      /\ f \in conn[z]
    BY <1>1, Announced DEF Net, Types, Arrives
<1> HIDE DEF p, a
<1>3. /\ f # z /\ f # Popup
      /\ \A y \in Address : y \in conn[z] /\ y # a /\ y # f => Announces(z, y, a)
      /\ \A y \in Address : Announces(z, y, a) => y # a /\ y # f
      /\ \A g \in Address : Announces(g, z, a) => g = f
      /\ a \in conn[z] => a = Background /\ z \in {Content, Popup} /\ f = Background
    BY <1>2, Spreads DEF Net, Types
<1> DEFINE r == routes[z][a]
<1>4. /\ r = <<>> \/ r = <<Direct>> \/ Contains(r, f)
      /\ r = <<>> => a \notin conn[z]
      /\ r = <<Direct>> => a \in conn[z]
    <2>1. RouteOK(z, a)
        BY <1>2 DEF Net, Types, RoutesOK
    <2>2. CASE a \in conn[z]
        <3>1. r = <<Direct>> \/ r = <<Direct, f>>
            BY <1>3, <2>1, <2>2 DEF RouteOK
        <3> HIDE DEF r
        <3> QED BY <2>2, <3>1, ContainsShort, SMTT(40)
    <2>3. CASE a \notin conn[z]
        <3>1. \A v \in conn[z] : v \in Address
            BY DEF Net, Types, ConnOK
        <3>2. r = <<>> \/ r = <<f>>
            BY <1>3, <2>1, <2>3, <3>1 DEF RouteOK
        <3>3. f # Direct
            BY Nodes
        <3> HIDE DEF r
        <3> QED BY <2>3, <3>2, <3>3, ContainsShort
    <2> QED BY <2>2, <2>3
<1> DEFINE r1 == routes'[z][a]
<1>5. /\ routes' = [x \in Address |-> [b \in Address |-> routes'[x][b]]]
      /\ \A x, b \in Address : x # z \/ b # a => routes'[x][b] = routes[x][b]
    <2>1. routes' = [x \in Address |-> IF x = z THEN inc(routes[z], a, f) ELSE routes[x]]
        BY <1>1 DEF Net, Types, RoutesOK
    <2>2. /\ inc(routes[z], a, f) = [b \in Address |-> inc(routes[z], a, f)[b]]
          /\ \A b \in Address : b # a => inc(routes[z], a, f)[b] = routes[z][b]
        <3>1. RoutesOK
            BY DEF Net, Types
        <3>2. inc(routes[z], a, f) = [b \in Address |-> inc(routes[z], a, f)[b]]
            BY <1>2, <3>1, TableInc, ZenonT(40)
        <3>3. \A b \in Address : b # a \/ Contains(routes[z][a], f) => inc(routes[z], a, f)[b] = routes[z][b]
            BY <1>2, <3>1, TableInc, ZenonT(40)
        <3> QED BY <3>2, <3>3
    <2>3. routes' = [x \in Address |-> [b \in Address |-> routes'[x][b]]]
        BY <2>1, <2>2, TableAt DEF Net, Types
    <2> QED BY <2>1, <2>2, <2>3
<1>16. /\ Contains(r1, f) /\ r1 # <<>>
       /\ \A x : x # f => (Contains(r1, x) <=> Contains(r, x))
       /\ \/ r1 = r
          \/ r1 = <<f>> /\ a \notin conn[z]
          \/ r1 = <<Direct, f>> /\ a \in conn[z]
    <2>1. /\ Contains(r, f) => r1 = r
          /\ r = <<>> => r1 = <<f>>
          /\ r = <<Direct>> => r1 = <<Direct, f>>
        <3>1. r1 = inc(routes[z], a, f)[a]
            BY <1>1, <1>2 DEF Net, Types, RoutesOK
        <3> QED BY <1>2, <3>1, TableInc, ZenonT(40) DEF Net, Types
    <2> HIDE DEF r, r1
    <2>2. CASE Contains(r, f)
        BY <2>1, <2>2, ContainsShort
    <2>3. CASE r = <<>>
        <3>1. \A x : ~Contains(<<>>, x) /\ (Contains(<<f>>, x) <=> f = x)
            BY ContainsShort, Zenon
        <3> QED BY <1>4, <2>1, <2>3, <3>1
    <2>4. CASE r = <<Direct>>
        <3>1. \A x : /\ Contains(<<Direct>>, x) <=> Direct = x
                     /\ Contains(<<Direct, f>>, x) <=> Direct = x \/ f = x
            BY ContainsShort, Zenon
        <3> QED BY <1>4, <2>1, <2>4, <3>1
    <2> QED BY <1>4, <2>2, <2>3, <2>4
<1>6. \A y \in Address : out[y] =
          IF routes[z][a] = <<>> /\ y \in conn[z] /\ y # a /\ y # f THEN <<AddForwarded(a, LinkRtt)>> ELSE <<>>
    <2>1. f # Direct
        BY Nodes
    <2>2. ASSUME NEW y \in Address
          PROVE  LET told == r = <<>> /\ y \in conn[z] /\ y # a /\ y # f
                 IN  /\ told => out[y] = <<AddForwarded(a, LinkRtt)>>
                     /\ ~told => out[y] = <<>>
        <3>1. r = <<>> \/ (r = <<Direct>> /\ f # Direct) \/ Contains(r, f)
            BY <1>4, <2>1
        <3>2. Takes(routes[z], a, f)
            BY <3>1 DEF Takes
        <3>3. SaysOfInc(conn[z], routes[z], a, f, y)
            BY <1>2, <3>2, IncSays
        <3> QED BY <3>3 DEF SaysOfInc
    <2> QED BY <2>2
<1> HIDE DEF out
<1>7. Follows(z, f)
    <2>1. ASSUME NEW b \in Address, Announces(f, z, b)
          PROVE  Contains(routes'[z][b], f) <=> Adds(p, b) \/ (Contains(routes[z][b], f) /\ ~Drops(p, b))
        <3>1. ~Drops(p, b) /\ (Adds(p, b) <=> b = a)
            BY <1>2 DEF Adds, Drops, AddForwarded, RemoveForwarded
        <3> QED BY <1>5, <1>16, <3>1 DEF r, r1
    <2> QED BY <1>2, <2>1 DEF Follows, p
<1>8. OthersKept(z, f)
    BY <1>1, <1>2, <1>5, <1>16 DEF OthersKept, Linked, r, r1
<1>9. ConnOK'
    BY <1>1 DEF Net, Types, ConnOK
<1>10. RoutesOK'
    <2>1. ASSUME NEW x \in Address, NEW b \in Address PROVE RouteOK(x, b)'
        <3>1. RouteOK(x, b)
            BY DEF Net, Types, RoutesOK
        <3>2. CASE x # z \/ b # a
            BY <1>1, <1>5, <3>1, <3>2 DEF RouteOK
        <3>3. CASE x = z /\ b = a
            BY <1>1, <1>2, <1>3, <1>16, <3>1, <3>3 DEF RouteOK, r, r1
        <3> QED BY <3>2, <3>3
    <2> QED BY <1>5, <2>1 DEF RoutesOK
<1>11. CloseOK'
    <2>1. ~(f = Popup) /\ (z = Popup => out[Background] = <<>>)
        BY <1>2, <1>3, <1>6, Nodes DEF Announces
    <2>2. chan'[Popup][Background] = chan[Popup][Background]
        <3>1. CASE z = Popup
            <4>1. chan'[z][Background] = Joined(chan[z][Background], out[Background])
                BY <1>1, <1>3, EmitSent, Nodes
            <4>2. chan[z][Background] \in Seq(PacketsOn(z, Background))
                BY Nodes DEF Net, Types, ChanOK
            <4>3. out[Background] = <<>>
                BY <2>1, <3>1
            <4>4. Joined(chan[z][Background], <<>>) = chan[z][Background]
                BY <4>2, JoinedNothing
            <4> QED BY <3>1, <4>1, <4>3, <4>4
        <3>2. CASE z # Popup
            BY <1>1, <1>3, <2>1, <3>2, EmitLinks, Nodes
        <3> QED BY <3>1, <3>2
    <2> QED BY <1>1, <2>2, CloseKept DEF Net
<1>12. \A y \in Address : out[y] \in Seq(PacketsOn(z, y))
    <2>1. ASSUME NEW y \in Address, y \in conn[z], y # a, y # f PROVE AddForwarded(a, LinkRtt) \in PacketsOn(z, y)
        BY <1>2, <1>3, <2>1, AnnouncementsAre DEF PacketsOn
    <2>2. ASSUME NEW y \in Address PROVE out[y] \in Seq(PacketsOn(z, y))
        <3>1. CASE out[y] = <<>>
            BY <3>1
        <3>2. CASE out[y] = <<AddForwarded(a, LinkRtt)>> /\ y \in conn[z] /\ y # a /\ y # f
            BY <2>1, <3>2
        <3> QED BY <1>6, <3>1, <3>2
    <2> QED BY <2>2
<1>13. ASSUME NEW y \in Address, NEW b \in Address, Announces(z, y, b) PROVE Agree(z, y, b)'
    <2>1. /\ Agree(z, y, b) /\ chan[z][y] \in Seq(PacketsOn(z, y)) /\ out[y] \in Seq(PacketsOn(z, y))
          /\ y # z
        BY <1>12, <1>13, Nodes DEF Net, AgreeOK, Types, ChanOK, Announces
    <2>2. chan'[z][y] = Joined(chan[z][y], out[y])
        BY <1>1, <1>3, EmitSent
    <2>3. routes'[y][b] = routes[y][b] /\ (Linked(z, y)' <=> Linked(z, y))
        BY <1>1, <1>5, <2>1 DEF Linked
    <2>4. CASE b # a \/ out[y] = <<>>
        <3>1. Silent(out[y], b)
            BY <1>6, <2>4, Notified, ZenonT(40)
        <3>2. CASE b = a /\ routes[z][a] = <<>>
            <4>1. y # a /\ y # f /\ out[y] = <<>>
                BY <1>3, <1>13, <2>4, <3>2
            <4>2. y \notin conn[z]
                BY <1>6, <3>2, <4>1
            <4>3. ~Linked(z, y)'
                BY <1>1, <4>2 DEF Linked
            <4> QED BY <1>16, <2>1, <2>2, <2>3, <3>1, <3>2, <4>3, AgreeTold
        <3>3. CASE ~(b = a /\ routes[z][a] = <<>>)
            <4>1. routes'[z][b] = <<>> <=> routes[z][b] = <<>>
                BY <1>5, <1>16, <3>3, <1>13
            <4> QED BY <2>1, <2>2, <2>3, <3>1, <4>1, AgreeTold
        <3> QED BY <3>2, <3>3
    <2>5. CASE b = a /\ out[y] # <<>>
        <3>1. out[y] = <<AddForwarded(a, LinkRtt)>>
            BY <1>6, <2>5
        <3> QED BY <1>16, <2>1, <2>2, <2>3, <2>5, <3>1, Notified, AgreeTold
    <2> QED BY <2>4, <2>5
<1>14. \A y \in Address : \A s : First(out[y], s)
    BY <1>6, Notified
<1>15. \A x, y \in Address \ {Popup} : y \notin conn'[x] => y \notin conn[x] /\ (x = z => out[y] = <<>>)
    BY <1>1, <1>6
<1> QED BY <1>1, <1>3, <1>7, <1>8, <1>9, <1>10, <1>11, <1>12, <1>13, <1>14, <1>15, TableStep

LEMMA TableDec ==
    ASSUME RoutesOK, NEW z \in Address, NEW a \in Address, NEW v, Only(routes[z], a, v)
    PROVE  Without(dec(routes[z], a, v), routes[z], a)
<1> DEFINE r == routes[z]
<1>1. r = [b \in Address |-> r[b]] /\ Only(r, a, v)
    BY TableAt
<1> HIDE DEF r
<1>2. Without(dec(r, a, v), r, a)
    BY <1>1, DecIs
<1> QED BY <1>2 DEF r

\* A route to the popup that is dropped was the only one.
LEMMA OnRemoveForwardedNet ==
    ASSUME Net, NEW z \in Address, NEW f \in Address, OnRemoveForwarded(z, f)
    PROVE  Net'
<1> DEFINE p == Head(chan[f][z])
           r == routes[z][Popup]
           out == IF z = Native THEN Nothing ELSE ToldOfDec(conn[z], routes[z], Popup, f)
<1>1. Arrives(z, f, "RemoveForwarded") /\ conn' = conn
    BY DEF OnRemoveForwarded
<1>2. /\ chan[f][z] # <<>> /\ Announces(f, z, Popup) /\ p = RemoveForwarded(Popup) /\ p.to = Popup
      /\ f \in conn[z] /\ Popup \in Address
    <2>1. ChanOK
        BY DEF Net, Types
    <2>2. chan[f][z] # <<>> /\ p = RemoveForwarded(Popup) /\ p.to = Popup /\ Announces(f, z, p.to)
        BY <1>1, <2>1, Announced
    <2>3. f \in conn[z]
        BY <1>1 DEF Arrives
    <2> QED BY <2>2, <2>3, Nodes
<1>3. /\ f # z /\ f # Popup
      /\ \A y \in Address : y \in conn[z] /\ y # Popup /\ y # f => Announces(z, y, Popup)
      /\ \A y \in Address : Announces(z, y, Popup) => y # Popup /\ y # f
      /\ \A g \in Address : Announces(g, z, Popup) => g = f
      /\ Popup \notin conn[z]
    BY <1>2, Spreads, Nodes DEF Net, Types
<1>4. r = <<>> \/ r = <<f>>
    <2>1. RouteOK(z, Popup)
        BY <1>2 DEF Net, Types, RoutesOK
    <2>2. \A v \in conn[z] : v \in Address
        BY DEF Net, Types, ConnOK
    <2> QED BY <1>3, <2>1, <2>2 DEF RouteOK
<1>5. /\ Emit(z, f, out)
      /\ routes' = IF z = Native THEN routes ELSE [routes EXCEPT ![z] = dec(@, Popup, f)]
    BY <1>2 DEF OnRemoveForwarded
<1>6. /\ routes' = [x \in Address |-> [b \in Address |-> routes'[x][b]]]
      /\ \A x, b \in Address : x # z \/ b # Popup => routes'[x][b] = routes[x][b]
      /\ routes'[z][Popup] = IF z = Native THEN r ELSE <<>>
    <2>1. CASE z = Native
        BY <1>5, <2>1 DEF Net, Types, RoutesOK
    <2>2. CASE z # Native
        <3>1. routes' = [x \in Address |-> IF x = z THEN dec(routes[z], Popup, f) ELSE routes[x]]
            BY <1>5, <2>2 DEF Net, Types, RoutesOK
        <3>2. /\ dec(routes[z], Popup, f) = [b \in Address |-> dec(routes[z], Popup, f)[b]]
              /\ \A b \in Address : b # Popup => dec(routes[z], Popup, f)[b] = routes[z][b]
              /\ dec(routes[z], Popup, f)[Popup] = <<>>
            <4>1. RoutesOK /\ Popup \in Address /\ Only(routes[z], Popup, f)
                BY <1>2, <1>4 DEF Net, Types, Only
            <4>2. Without(dec(routes[z], Popup, f), routes[z], Popup)
                BY <4>1, TableDec
            <4> QED BY <4>2 DEF Without
        <3>3. routes' = [x \in Address |-> [b \in Address |-> routes'[x][b]]]
            BY <3>1, <3>2, TableAt DEF Net, Types
        <3> QED BY <1>2, <2>2, <3>1, <3>2, <3>3
    <2> QED BY <2>1, <2>2
<1>7. \A y \in Address :
          LET told == r # <<>> /\ y \in conn[z] /\ y # Popup /\ y # f /\ z # Native
          IN  /\ told => out[y] = <<RemoveForwarded(Popup)>>
              /\ ~told => out[y] = <<>>
    <2>1. ASSUME NEW y \in Address, z # Native PROVE SaysOfDec(conn[z], routes[z], Popup, f, y)
        <3>1. routes[z][Popup] = <<>> \/ routes[z][Popup] = <<f>>
            BY <1>4
        <3> QED BY <1>2, <3>1, DecSays
    <2>2. ASSUME NEW y \in Address, z = Native PROVE out[y] = <<>>
        BY <2>2, Outs
    <2> QED BY <2>1, <2>2 DEF SaysOfDec
<1> HIDE DEF out
<1>8. Follows(z, f)
    <2>1. ASSUME NEW b \in Address, Announces(f, z, b)
          PROVE  \/ Contains(routes'[z][b], f) <=> Adds(p, b) \/ (Contains(routes[z][b], f) /\ ~Drops(p, b))
                 \/ z = Native /\ Drops(p, b) /\ routes'[z][b] = routes[z][b]
        <3>1. ~Adds(p, b) /\ (Drops(p, b) <=> b = Popup)
            BY <1>2 DEF Adds, Drops, AddForwarded, RemoveForwarded
        <3> QED BY <1>6, <3>1, ContainsShort
    <2> QED BY <1>2, <2>1 DEF Follows, p
<1> HIDE DEF p
<1>9. OthersKept(z, f)
    <2>1. \A x \in Address : x # f => (Contains(routes'[z][Popup], x) <=> Contains(r, x))
        <3> DEFINE r1 == routes'[z][Popup]
        <3>1. r1 = r \/ (r1 = <<>> /\ r \in {<<>>, <<f>>})
            BY <1>4, <1>6
        <3> HIDE DEF r, r1
        <3>2. \A x : x # f => (Contains(r1, x) <=> Contains(r, x))
            BY <3>1, ContainsShort
        <3> QED BY <3>2 DEF r, r1
    <2>2. \A x, a \in Address : x # f /\ Announces(x, z, a) =>
              (Contains(routes'[z][a], x) <=> Contains(routes[z][a], x))
        BY <1>2, <1>6, <2>1
    <2>3. \A x, y \in Address : x # z /\ Linked(x, y)' => Linked(x, y)
        BY <1>1 DEF Linked
    <2>4. \A x, a \in Address : x # z => routes'[x][a] = routes[x][a]
        BY <1>6
    <2>5. Popup \in Address
        BY <1>2
    <2> QED BY <2>2, <2>3, <2>4, <2>5 DEF OthersKept
<1>10. ConnOK'
    BY <1>1 DEF Net, Types, ConnOK
<1>11. RoutesOK'
    <2>1. ASSUME NEW x \in Address, NEW b \in Address PROVE RouteOK(x, b)'
        <3>1. RouteOK(x, b)
            BY DEF Net, Types, RoutesOK
        <3>2. CASE routes'[x][b] = routes[x][b]
            BY <1>1, <3>1, <3>2 DEF RouteOK
        <3>3. CASE x = z /\ b = Popup /\ routes'[x][b] = <<>>
            BY <1>1, <1>3, <3>3 DEF RouteOK
        <3> QED BY <1>6, <3>2, <3>3
    <2> QED BY <1>6, <2>1 DEF RoutesOK
<1>12. z # Popup
    BY <1>2, Nodes DEF Announces
<1>13. CloseOK'
    <2>1. chan'[Popup][Background] = chan[Popup][Background]
        BY <1>3, <1>5, <1>12, EmitLinks, Nodes
    <2> QED BY <1>1, <2>1, CloseKept DEF Net
<1>14. \A y \in Address : out[y] \in Seq(PacketsOn(z, y))
    <2>1. ASSUME NEW y \in Address, y \in conn[z], y # Popup, y # f PROVE RemoveForwarded(Popup) \in PacketsOn(z, y)
        BY <1>2, <1>3, <2>1, AnnouncementsAre DEF PacketsOn
    <2>2. ASSUME NEW y \in Address PROVE out[y] \in Seq(PacketsOn(z, y))
        <3>1. CASE out[y] = <<>>
            BY <3>1
        <3>2. CASE out[y] = <<RemoveForwarded(Popup)>> /\ y \in conn[z] /\ y # Popup /\ y # f
            BY <2>1, <3>2
        <3> QED BY <1>7, <3>1, <3>2
    <2> QED BY <2>2
<1>15. ASSUME NEW y \in Address, NEW b \in Address, Announces(z, y, b) PROVE Agree(z, y, b)'
    <2>1. /\ Agree(z, y, b) /\ chan[z][y] \in Seq(PacketsOn(z, y)) /\ out[y] \in Seq(PacketsOn(z, y))
          /\ y # z
        BY <1>14, <1>15, Nodes DEF Net, AgreeOK, Types, ChanOK, Announces
    <2>2. chan'[z][y] = Joined(chan[z][y], out[y])
        BY <1>3, <1>5, EmitSent
    <2>3. routes'[y][b] = routes[y][b] /\ (Linked(z, y)' <=> Linked(z, y))
        BY <1>1, <1>6, <2>1 DEF Linked
    <2>4. CASE b # Popup \/ out[y] = <<>>
        <3>1. Silent(out[y], b)
            <4>1. out[y] = <<>> \/ (out[y] = <<RemoveForwarded(Popup)>> /\ b # Popup)
                BY <1>7, <2>4
            <4> QED BY <4>1, Notified
        <3>2. CASE b = Popup /\ z # Native
            <4>1. y # Popup /\ y # f /\ out[y] = <<>>
                BY <1>3, <1>15, <2>4, <3>2
            <4>2. y \in conn[z]
                BY <1>2, <1>15, <3>2, Nodes DEF Announces, Net, Types, ConnOK
            <4>3. r = <<>>
                <5>1. <<RemoveForwarded(Popup)>> # <<>>
                    OBVIOUS
                <5> HIDE DEF r
                <5> QED BY <1>7, <3>2, <4>1, <4>2, <5>1
            <4>4. routes'[z][b] = <<>> /\ routes[z][b] = <<>>
                BY <1>6, <3>2, <4>3
            <4> QED BY <2>1, <2>2, <2>3, <3>1, <4>4, AgreeTold
        <3>3. CASE ~(b = Popup /\ z # Native)
            <4>1. routes'[z][b] = routes[z][b]
                BY <1>6, <3>3, <1>15
            <4> QED BY <2>1, <2>2, <2>3, <3>1, <4>1, AgreeTold
        <3> QED BY <3>2, <3>3
    <2>5. CASE b = Popup /\ out[y] # <<>>
        <3>1. out[y] = <<RemoveForwarded(Popup)>> /\ z # Native
            BY <1>7, <2>5
        <3> QED BY <1>6, <2>1, <2>2, <2>3, <2>5, <3>1, Notified, AgreeTold
    <2> QED BY <2>4, <2>5
<1>16. \A y \in Address : \A s : First(out[y], s)
    BY <1>7, Notified
<1>17. \A x, y \in Address \ {Popup} : y \notin conn'[x] => y \notin conn[x] /\ (x = z => out[y] = <<>>)
    BY <1>1, <1>7
<1> QED BY <1>3, <1>5, <1>8, <1>9, <1>10, <1>11, <1>13, <1>14, <1>15, <1>16, <1>17, TableStep

-----------------------------------------------------------------------------
(* Steps in which a node adds neighbours.                                    *)

\* o announces the nodes A and says nothing else about routes.
Brings(o, A) ==
    /\ \A a \in A : \E i \in 1..Len(o) : Adds(o[i], a)
    /\ \A i \in 1..Len(o) : \A b : ~Drops(o[i], b) /\ (Adds(o[i], b) => b \in A)

LEMMA BringsIs ==
    ASSUME NEW o, NEW A, Brings(o, A)
    PROVE  /\ \A a : a \notin A => Silent(o, a)
           /\ \A a \in A : (\E i \in 1..Len(o) : Adds(o[i], a)) /\ \A i \in 1..Len(o) : ~Drops(o[i], a)
BY DEF Brings, Silent

LEMMA BringsBoth ==
    ASSUME NEW S, NEW o \in Seq(S), NEW q \in Seq(S), NEW A, Brings(o, A), \A a : Silent(q, a)
    PROVE  Brings(Joined(o, q), A)
<1>1. /\ \A i \in 1..Len(o) : i \in 1..Len(Joined(o, q)) /\ Joined(o, q)[i] = o[i]
      /\ \A i \in 1..Len(Joined(o, q)) : i \in 1..Len(o) \/ i > Len(o)
      /\ \A i \in 1..Len(Joined(o, q)) : i > Len(o) => i - Len(o) \in 1..Len(q) /\ Joined(o, q)[i] = q[i - Len(o)]
    BY JoinedElements
<1>2. ASSUME NEW a \in A PROVE \E i \in 1..Len(Joined(o, q)) : Adds(Joined(o, q)[i], a)
    <2>1. PICK i \in 1..Len(o) : Adds(o[i], a)
        BY DEF Brings
    <2> QED BY <1>1, <2>1
<1>3. ASSUME NEW i \in 1..Len(Joined(o, q)), NEW b
      PROVE  ~Drops(Joined(o, q)[i], b) /\ (Adds(Joined(o, q)[i], b) => b \in A)
    <2>1. CASE i \in 1..Len(o)
        BY <1>1, <2>1 DEF Brings
    <2>2. CASE i > Len(o)
        BY <1>1, <2>2 DEF Silent
    <2> QED BY <1>1, <2>1, <2>2
<1> QED BY <1>2, <1>3 DEF Brings

\* z adds the neighbours D.
Grows(z, D) ==
    /\ \A x, a \in Address : x # z /\ x # Popup => conn'[x] = conn[x] /\ routes'[x][a] = routes[x][a]
    /\ conn'[z] = conn[z] \cup D /\ D \cap conn[z] = {}
    /\ \A a \in Address : a \in D => routes[z][a] = <<>> /\ routes'[z][a] = <<Direct>>
    /\ \A a \in Address : a \notin D => routes'[z][a] = routes[z][a]
    /\ routes' = [x \in Address |-> [a \in Address |-> routes'[x][a]]]
    /\ \/ Popup \notin D /\ conn'[Popup] = conn[Popup] /\ \A a \in Address : routes'[Popup][a] = routes[Popup][a]
       \/ /\ z = Background /\ Popup \in D /\ conn[Popup] = {} /\ conn'[Popup] = {Background}
          /\ \A a \in Address : routes'[Popup][a] = IF a = Background THEN <<Direct>> ELSE <<>>

LEMMA GrowsKeeps ==
    ASSUME Net, NEW z \in Address, z # Popup, NEW D, Grows(z, D)
    PROVE  /\ \A x, a \in Address : Contains(routes[z][a], x) <=> Contains(routes'[z][a], x)
           /\ \A a \in Address : Contains(routes[Popup][a], z) <=> Contains(routes'[Popup][a], z)
           /\ RoutesOK'
<1>1. \A x, a \in Address : Contains(routes[z][a], x) <=> Contains(routes'[z][a], x)
    <2>1. ASSUME NEW x \in Address PROVE ~Contains(<<>>, x) /\ ~Contains(<<Direct>>, x)
        BY ContainsShort, Nodes
    <2> QED BY <2>1 DEF Grows
<1>2. \A a \in Address : Contains(routes[Popup][a], z) <=> Contains(routes'[Popup][a], z)
    <2>1. ~Contains(<<>>, z) /\ ~Contains(<<Direct>>, z)
        BY ContainsShort, Nodes
    <2>2. CASE conn[Popup] = {}
        <3>1. \A a \in Address : routes[Popup][a] = <<>>
            BY <2>2, Nodes DEF Net, Types, RoutesOK, RouteOK
        <3> QED BY <2>1, <3>1 DEF Grows
    <2>3. CASE conn[Popup] # {}
        BY <2>3 DEF Grows
    <2> QED BY <2>2, <2>3
<1>3. ASSUME NEW x \in Address, NEW a \in Address PROVE RouteOK(x, a)'
    <2>1. RouteOK(x, a)
        BY DEF Net, Types, RoutesOK
    <2>2. CASE x # z /\ x # Popup
        BY <2>1, <2>2 DEF RouteOK, Grows
    <2>3. CASE x = z
        BY <2>1, <2>3 DEF RouteOK, Grows
    <2>4. CASE x = Popup
        <3>1. CASE conn'[Popup] = conn[Popup] /\ \A b \in Address : routes'[Popup][b] = routes[Popup][b]
            BY <2>1, <2>4, <3>1 DEF RouteOK
        <3>2. CASE conn'[Popup] = {Background} /\ \A b \in Address : routes'[Popup][b] = IF b = Background THEN <<Direct>> ELSE <<>>
            BY <2>4, <3>2 DEF RouteOK
        <3> QED BY <3>1, <3>2 DEF Grows
    <2> QED BY <2>2, <2>3, <2>4
<1> QED BY <1>1, <1>2, <1>3 DEF RoutesOK, Grows

LEMMA GrowingStep ==
    ASSUME Net, NEW z \in Address, z # Popup, NEW f, f # z, NEW out, Emit(z, f, out),
           f \in Address => f # Popup /\ MayTake(z, f),
           NEW D, Grows(z, D), ConnOK', NEW A,
           \A y \in Address : Brings(out[y], A[y]) /\ out[y] \in Seq(PacketsOn(z, y)),
           \A y, a \in Address : a \in A[y] => routes'[z][a] # <<>>,
           \A y, a \in Address : Announces(z, y, a) /\ Linked(z, y)' /\ routes'[z][a] # <<>> /\ a \notin A[y]
               => Linked(z, y) /\ routes[z][a] # <<>>,
           \A y \in Address \ {Popup} : \A s \in {Injected, Native} : Announces(z, y, s) => First(out[y], s),
           \A y \in Address : y \notin conn'[z] => out[y] = <<>>
    PROVE  Net'
<1>1. /\ \A x, a \in Address : Contains(routes[z][a], x) <=> Contains(routes'[z][a], x)
      /\ \A a \in Address : Contains(routes[Popup][a], z) <=> Contains(routes'[Popup][a], z)
      /\ RoutesOK'
    BY GrowsKeeps
<1>2. Follows(z, f)
    <2>1. ASSUME f \in Address, NEW a \in Address
          PROVE  Contains(routes'[z][a], f) <=>
                    \/ Adds(Head(chan[f][z]), a)
                    \/ Contains(routes[z][a], f) /\ ~Drops(Head(chan[f][z]), a)
        <3>1. ~Adds(Head(chan[f][z]), a) /\ ~Drops(Head(chan[f][z]), a)
            BY <2>1, DataSilent DEF MayTake
        <3> QED BY <1>1, <2>1, <3>1
    <2> QED BY <2>1 DEF Follows, MayTake
<1>3. OthersKept(z, f)
    <2>1. \A x, y \in Address : x # z /\ x # Popup /\ Linked(x, y)' => Linked(x, y)
        <3>1. ASSUME NEW x \in Address, x # z, x # Popup, Popup \in conn'[x] PROVE x = Background
            BY <3>1, Nodes DEF ConnOK
        <3>2. \A x \in Address : x # z /\ x # Popup => conn'[x] = conn[x]
            BY DEF Grows
        <3>3. z # Background => conn'[Popup] = conn[Popup]
            BY DEF Grows
        <3> QED BY <3>1, <3>2, <3>3 DEF Linked
    <2>2. \A a \in Address : z # Background /\ z # Popup => routes'[Popup][a] = routes[Popup][a]
        BY DEF Grows
    <2> QED BY <1>1, <2>1, <2>2 DEF OthersKept, Grows
<1>4. CloseOK'
    <2>1. chan'[Popup][Background] = chan[Popup][Background]
        BY EmitLinks, Nodes
    <2>2. CASE conn'[Popup] = conn[Popup] /\ (Popup \in conn'[Background] <=> Popup \in conn[Background])
        BY <2>1, <2>2, CloseKept DEF Net
    <2>3. CASE z = Background /\ Popup \in D /\ conn'[Popup] = {Background}
        <3>1. Popup \notin conn[Background]
            BY <2>3 DEF Grows
        <3>2. chan[Popup][Background] = <<>>
            BY <3>1 DEF Net, CloseOK
        <3>3. \A i \in 1..Len(chan'[Popup][Background]) : FALSE
            BY <2>1, <3>2
        <3> QED BY <2>1, <2>3, <3>2, <3>3 DEF CloseOK
    <2> QED BY <2>2, <2>3, Nodes DEF Grows
<1>5. ASSUME NEW y \in Address, NEW a \in Address, Announces(z, y, a) PROVE Agree(z, y, a)'
    <2>1. /\ Agree(z, y, a) /\ chan[z][y] \in Seq(PacketsOn(z, y)) /\ out[y] \in Seq(PacketsOn(z, y))
          /\ y # z /\ chan'[z][y] = Joined(chan[z][y], out[y])
        <3>1. Agree(z, y, a) /\ chan[z][y] \in Seq(PacketsOn(z, y))
            BY <1>5 DEF Net, AgreeOK, Types, ChanOK
        <3>2. y # z
            BY <1>5, Nodes DEF Announces
        <3>3. chan'[z][y] = Joined(chan[z][y], out[y])
            BY EmitSent
        <3> QED BY <3>1, <3>2, <3>3
    <2>2. Contains(routes'[y][a], z) <=> Contains(routes[y][a], z)
        BY <1>1, <2>1 DEF Grows
    <2>3. routes[z][a] # <<>> => routes'[z][a] # <<>>
        BY DEF Grows
    <2>4. CASE a \in A[y]
        <3>1. (\E i \in 1..Len(out[y]) : Adds(out[y][i], a)) /\ (\A i \in 1..Len(out[y]) : ~Drops(out[y][i], a))
            BY <2>4, BringsIs
        <3>2. routes'[z][a] # <<>>
            BY <2>4
        <3> QED BY <2>1, <2>2, <3>1, <3>2, AgreeTold
    <2>5. CASE a \notin A[y]
        <3>1. Silent(out[y], a)
            BY <2>5, BringsIs
        <3>2. Linked(z, y)' /\ routes'[z][a] # <<>> => Linked(z, y) /\ routes[z][a] # <<>>
            BY <1>5, <2>5
        <3> QED BY <2>1, <2>2, <2>3, <3>1, <3>2, AgreeTold
    <2> QED BY <2>4, <2>5
<1>6. \A x, y \in Address \ {Popup} : y \notin conn'[x] => y \notin conn[x] /\ (x = z => out[y] = <<>>)
    BY DEF Grows
<1> QED BY <1>1, <1>2, <1>3, <1>4, <1>5, <1>6, TableStep

\* A sequence of announcements of nodes of A.
Adding(A) == {AddForwarded(a, LinkRtt) : a \in A}

LEMMA AddingIs ==
    ASSUME NEW A, A \subseteq Address, NEW o \in Seq(Adding(A))
    PROVE  /\ (\A a \in A : \E i \in 1..Len(o) : Adds(o[i], a)) => Brings(o, A)
           /\ \A s : First(o, s)
           /\ A = {} => o = <<>>
           /\ \A z, y : (\A a \in A : Announces(z, y, a)) => o \in Seq(PacketsOn(z, y))
<1>1. \A i \in 1..Len(o) : o[i] \in Adding(A)
    OBVIOUS
<1>2. \A p \in Adding(A) : p.kind = "AddForwarded" /\ \A b : ~Drops(p, b) /\ (Adds(p, b) => b \in A)
    BY DEF Adding, Adds, Drops, AddForwarded, RemoveForwarded
<1>3. (\A a \in A : \E i \in 1..Len(o) : Adds(o[i], a)) => Brings(o, A)
    BY <1>1, <1>2 DEF Brings
<1>4. ASSUME NEW s PROVE First(o, s)
    <2>1. \A i \in 1..Len(o) : o[i].kind = "AddForwarded"
        BY <1>1, <1>2
    <2> QED BY <2>1 DEF First, Needs
<1>5. A = {} => o = <<>>
    <2>1. A = {} => Adding(A) = {}
        BY DEF Adding
    <2> QED BY <2>1
<1>6. ASSUME NEW z, NEW y, \A a \in A : Announces(z, y, a) PROVE o \in Seq(PacketsOn(z, y))
    <2>1. \A p \in Adding(A) : p \in PacketsOn(z, y)
        BY <1>6, AnnouncementsAre DEF Adding, PacketsOn
    <2> QED BY <1>1, <2>1
<1> QED BY <1>3, <1>4, <1>5, <1>6

\* What a node with the neighbours C and the routes r tells y when it adds n.
Telling(C, r, n, y) ==
    IF y = n THEN {a \in Address : r[a] # <<>> /\ r[a][1] # n}
    ELSE IF y \in C THEN {n} ELSE {}

LEMMA AddedSays ==
    ASSUME NEW C, NEW r, NEW n \in Address, n \notin C, r[n] = <<>>, NEW y \in Address
    PROVE  /\ AddedDirect(C, r, n)[y] \in Seq(Adding(Telling(C, r, n, y)))
           /\ Brings(AddedDirect(C, r, n)[y], Telling(C, r, n, y))
           /\ Telling(C, r, n, y) \subseteq Address
<1> DEFINE l == List(r, n)[y]
           t == ToldOfInc(C \cup {n}, r, n, Direct)[y]
           A == Telling(C, r, n, y)
           o == AddedDirect(C, r, n)[y]
<1>1. o = Joined(l, t)
    BY Outs DEF AddedDirect
<1>2. SaysOfInc(C \cup {n}, r, n, Direct, y)
    BY IncSays DEF Takes
<1>3. /\ y \in C /\ y # n => t = <<AddForwarded(n, LinkRtt)>>
      /\ ~(y \in C /\ y # n) => t = <<>>
    BY <1>2, Nodes DEF SaysOfInc
<1>4. A \subseteq Address
    BY DEF Telling
<1>5. CASE y = n
    <2>1. l \in Seq(Adding(A)) /\ \A a \in A : \E i \in 1..Len(l) : Adds(l[i], a)
        BY <1>5, ListIs DEF Telling, Adding
    <2> HIDE DEF l, t, A, o
    <2>2. o = l
        BY <1>1, <1>3, <1>5, <2>1, JoinedNothing
    <2> QED BY <1>4, <2>1, <2>2, AddingIs DEF A, o
<1>6. CASE y # n
    <2>1. l = <<>>
        BY <1>6, ListIs
    <2> HIDE DEF l, t, o
    <2>2. o = t
        BY <1>1, <1>3, <2>1 DEF Joined
    <2>3. CASE y \in C
        <3>1. A = {n} /\ o = <<AddForwarded(n, LinkRtt)>>
            BY <1>3, <1>6, <2>2, <2>3 DEF Telling
        <3> HIDE DEF A
        <3>2. o \in Seq(Adding(A))
            BY <3>1 DEF Adding
        <3>3. \A a \in A : \E i \in 1..Len(o) : Adds(o[i], a)
            BY <3>1, Notified
        <3> QED BY <1>4, <3>2, <3>3, AddingIs DEF A, o
    <2>4. CASE y \notin C
        <3>1. A = {} /\ o = <<>>
            BY <1>3, <1>6, <2>2, <2>4 DEF Telling
        <3> HIDE DEF A
        <3>2. o \in Seq(Adding(A)) /\ \A a \in A : \E i \in 1..Len(o) : Adds(o[i], a)
            BY <3>1
        <3> QED BY <1>4, <3>2, AddingIs DEF A, o
    <2> QED BY <2>3, <2>4
<1> QED BY <1>5, <1>6

LEMMA NoNeighbours ==
    ASSUME RoutesOK, NEW z \in Address, conn[z] = {}, NEW a \in Address
    PROVE  routes[z][a] = <<>>
BY DEF RoutesOK, RouteOK

LEMMA OpensGrows ==
    ASSUME Net, NEW z \in Address, z # Popup, NEW C \in SUBSET Address, Popup \notin C, NEW out,
           Opens(z, C, out)
    PROVE  Grows(z, C)
<1>1. \A a \in Address : routes[z][a] = <<>>
    BY NoNeighbours DEF Opens, Net, Types
<1>2. routes' = [x \in Address |-> IF x = z THEN [a \in Address |-> IF a \in C THEN <<Direct>> ELSE <<>>]
                                   ELSE routes[x]]
    BY DEF Opens, Net, Types, RoutesOK
<1>3. /\ routes' = [x \in Address |-> [a \in Address |-> routes'[x][a]]]
      /\ \A x, a \in Address : x # z => routes'[x][a] = routes[x][a]
      /\ \A a \in Address : routes'[z][a] = IF a \in C THEN <<Direct>> ELSE <<>>
    BY <1>2, TableAt DEF Net, Types
<1>4. /\ \A x \in Address : x # z => conn'[x] = conn[x]
      /\ conn'[z] = C /\ conn[z] = {}
    BY DEF Opens, Net, Types, ConnOK
<1> QED BY <1>1, <1>3, <1>4, Nodes DEF Grows

LEMMA BackgroundOnConnectNet ==
    ASSUME Net, BackgroundOnConnect
    PROVE  Net'
<1> DEFINE z == Background
           D == {Content}
           out == AddedDirect({}, routes[Background], Content)
           A == [y \in Address |-> {}]
<1>1. Opens(z, D, out) /\ conn[Content] # {} /\ conn[z] = {}
    BY DEF BackgroundOnConnect, Opens
<1>2. Emit(z, None, out) /\ conn' = [conn EXCEPT ![z] = D]
    BY <1>1 DEF Opens
<1>3. Grows(z, D)
    BY <1>1, OpensGrows, Nodes
<1>4. ConnOK'
    BY <1>1, <1>2, Nodes DEF Net, Types, ConnOK
<1>5. ASSUME NEW y \in Address
      PROVE  out[y] \in Seq(Adding({})) /\ Brings(out[y], {})
    <2>1. routes[z][Content] = <<>> /\ Content \in Address
        BY <1>1, NoNeighbours, Nodes DEF Net, Types
    <2>2. Telling({}, routes[z], Content, y) = {}
        BY <1>1, NoNeighbours, Nodes DEF Net, Types, Telling
    <2>3. /\ out[y] \in Seq(Adding(Telling({}, routes[z], Content, y)))
          /\ Brings(out[y], Telling({}, routes[z], Content, y))
        BY <2>1, AddedSays
    <2> QED BY <2>2, <2>3
<1> HIDE DEF out
<1>6. \A y \in Address : /\ Brings(out[y], A[y]) /\ out[y] \in Seq(PacketsOn(z, y)) /\ out[y] = <<>>
                         /\ \A s : First(out[y], s)
    <2> DEFINE E == {}
    <2>1. E \subseteq Address /\ E = {}
        OBVIOUS
    <2>2. ASSUME NEW y \in Address PROVE out[y] \in Seq(Adding(E)) /\ Brings(out[y], E) /\ A[y] = E
        BY <1>5, <2>2
    <2> HIDE DEF E, A
    <2>3. ASSUME NEW y \in Address
          PROVE  out[y] \in Seq(PacketsOn(z, y)) /\ out[y] = <<>> /\ \A s : First(out[y], s)
        <3> DEFINE o == out[y]
        <3>1. o \in Seq(Adding(E))
            BY <2>2
        <3> HIDE DEF o
        <3>2. o \in Seq(PacketsOn(z, y)) /\ o = <<>> /\ \A s : First(o, s)
            BY <2>1, <3>1, AddingIs
        <3> QED BY <3>2 DEF o
    <2> QED BY <2>2, <2>3
<1>7. \A y, a \in Address : ~(Announces(z, y, a) /\ Linked(z, y)' /\ routes'[z][a] # <<>>)
    <2>1. \A y \in Address : Linked(z, y)' => y = Content
        BY <1>1, <1>2, Nodes DEF Linked, Net, Types, ConnOK
    <2>2. \A a \in Address : routes'[z][a] # <<>> => a = Content
        BY <1>1, <1>3, NoNeighbours, Nodes DEF Grows, Net, Types
    <2> QED BY <2>1, <2>2, Nodes DEF Announces
<1>8. z \in Address /\ z # Popup /\ None \notin Address /\ z # None
    BY Nodes
<1> HIDE DEF z, D, A
<1>9. \A y, a \in Address : a \in A[y] => routes'[z][a] # <<>>
    BY DEF A
<1> QED BY <1>2, <1>3, <1>4, <1>6, <1>7, <1>8, <1>9, GrowingStep

\* The announcements of o are those a node may send y.
LEMMA AddingSends ==
    ASSUME NEW A, A \subseteq Address, NEW o \in Seq(Adding(A)), NEW z, NEW y,
           \A a \in A : Announces(z, y, a)
    PROVE  o \in Seq(PacketsOn(z, y)) /\ \A s : First(o, s)
BY AddingIs

LEMMA AddFirst ==
    ASSUME RoutesOK, NEW z \in Address, conn[z] = {}, NEW a \in Address
    PROVE  \A b \in Address : inc(routes[z], a, Direct)[b] = IF b = a THEN <<Direct>> ELSE <<>>
<1> DEFINE r == routes[z]
<1>1. r = [b \in Address |-> r[b]] /\ \A b \in Address : r[b] = <<>>
    BY TableAt, NoNeighbours
<1> HIDE DEF r
<1>2. inc(r, a, Direct)[a] = <<Direct>>
    BY <1>1, IncOne
<1>3. \A b \in Address : b # a => inc(r, a, Direct)[b] = r[b]
    BY <1>1, IncIs
<1> QED BY <1>1, <1>2, <1>3 DEF r

LEMMA ContentOnConnectNet ==
    ASSUME Net, ContentOnConnect
    PROVE  Net'
<1> DEFINE z == Content
           D == {Background, Injected}
           r == routes[Content]
           r1 == inc(r, Background, Direct)
           o1 == AddedDirect({}, r, Background)
           o2 == AddedDirect({Background}, r1, Injected)
           out == o1 ++ o2
           A == [y \in Address |-> Telling({Background}, r1, Injected, y)]
<1>1. Opens(z, D, out) /\ conn[z] = {}
    BY DEF ContentOnConnect, Opens
<1>2. Emit(z, None, out) /\ conn' = [conn EXCEPT ![z] = D]
    BY <1>1 DEF Opens
<1>3. Grows(z, D)
    BY <1>1, OpensGrows, Nodes
<1>4. ConnOK'
    BY <1>1, <1>2, Nodes DEF Net, Types, ConnOK
<1>5. /\ \A a \in Address : r[a] = <<>>
      /\ \A a \in Address : r1[a] = IF a = Background THEN <<Direct>> ELSE <<>>
    BY <1>1, NoNeighbours, AddFirst, Nodes DEF Net, Types
<1>6. \A y \in Address : A[y] = IF y = Injected THEN {Background} ELSE IF y = Background THEN {Injected} ELSE {}
    <2>1. <<Direct>> # <<>> /\ <<Direct>>[1] = Direct /\ Direct # Injected
        BY Nodes
    <2> HIDE DEF r1
    <2> QED BY <1>5, <2>1, Nodes DEF Telling
<1>7. ASSUME NEW y \in Address
      PROVE  out[y] = o2[y] /\ o2[y] \in Seq(Adding(A[y])) /\ Brings(o2[y], A[y]) /\ A[y] \subseteq Address
    <2>1. o2[y] \in Seq(Adding(A[y])) /\ Brings(o2[y], A[y]) /\ A[y] \subseteq Address
        <3>1. Injected \in Address /\ Injected \notin {Background} /\ r1[Injected] = <<>>
            BY <1>5, Nodes
        <3> HIDE DEF r1
        <3> QED BY <3>1, AddedSays
    <2>2. o1[y] = <<>>
        <3>1. Background \in Address /\ Background \notin {} /\ r[Background] = <<>>
            BY <1>5, Nodes
        <3>2. Telling({}, r, Background, y) = {}
            BY <1>5 DEF Telling
        <3> HIDE DEF r
        <3>3. o1[y] \in Seq(Adding(Telling({}, r, Background, y)))
            BY <3>1, AddedSays
        <3> HIDE DEF o1
        <3> QED BY <3>2, <3>3 DEF Adding
    <2>3. out[y] = Joined(o1[y], o2[y])
        BY Outs
    <2> HIDE DEF out, o1, o2, A
    <2>4. Joined(<<>>, o2[y]) = o2[y]
        BY <2>1 DEF Joined
    <2> QED BY <2>1, <2>2, <2>3, <2>4
<1> HIDE DEF out, o2, A
<1>8. \A y, a \in Address : a \in A[y] => Announces(z, y, a)
    BY <1>6, Nodes DEF Announces
<1>9. ASSUME NEW y \in Address
      PROVE  /\ Brings(out[y], A[y]) /\ out[y] \in Seq(PacketsOn(z, y)) /\ \A s : First(out[y], s)
             /\ y \notin D => out[y] = <<>>
    <2>1. out[y] \in Seq(PacketsOn(z, y)) /\ \A s : First(out[y], s)
        <3> DEFINE o == out[y]
                   B == A[y]
        <3>1. B \subseteq Address /\ o \in Seq(Adding(B)) /\ \A a \in B : Announces(z, y, a)
            BY <1>7, <1>8
        <3> HIDE DEF o, B
        <3>2. o \in Seq(PacketsOn(z, y)) /\ \A s : First(o, s)
            BY <3>1, AddingSends
        <3> QED BY <3>2 DEF o
    <2>2. y \notin D => out[y] = <<>>
        <3>1. y \notin D => A[y] = {}
            BY <1>6
        <3>2. y \notin D => out[y] \in Seq(Adding({}))
            BY <1>7, <3>1
        <3>3. Adding({}) = {}
            BY DEF Adding
        <3> HIDE DEF D
        <3> QED BY <3>2, <3>3
    <2> QED BY <1>7, <2>1, <2>2
<1>10. \A a \in Address : routes'[z][a] = IF a \in D THEN <<Direct>> ELSE <<>>
    BY <1>3, <1>5 DEF Grows
<1>11. \A y, a \in Address : a \in A[y] => routes'[z][a] # <<>>
    BY <1>6, <1>10
<1>12. \A y, a \in Address : Announces(z, y, a) /\ Linked(z, y)' /\ routes'[z][a] # <<>> => a \in A[y]
    BY <1>6, <1>10, Nodes DEF Announces
<1>13. z \in Address /\ z # Popup /\ None \notin Address /\ z # None /\ conn'[z] = D
    BY <1>2, Nodes DEF Net, Types, ConnOK
<1> HIDE DEF z, D
<1>14. \A y, a \in Address : Announces(z, y, a) /\ Linked(z, y)' /\ routes'[z][a] # <<>> /\ a \notin A[y]
           => Linked(z, y) /\ routes[z][a] # <<>>
    BY <1>12
<1>15. /\ \A y \in Address : Brings(out[y], A[y]) /\ out[y] \in Seq(PacketsOn(z, y))
       /\ \A y \in Address \ {Popup} : \A s \in {Injected, Native} : Announces(z, y, s) => First(out[y], s)
       /\ \A y \in Address : y \notin conn'[z] => out[y] = <<>>
    BY <1>9, <1>13
<1>16. Emit(z, None, out) /\ None # z /\ None \notin Address
    BY <1>2, <1>13
<1> QED BY <1>3, <1>4, <1>11, <1>13, <1>14, <1>15, <1>16, GrowingStep

\* Announcements, then data.
LEMMA AddingThenData ==
    ASSUME NEW z, NEW y, NEW A, A \subseteq Address, NEW o \in Seq(Adding(A)), Brings(o, A),
           \A a \in A : Announces(z, y, a), NEW q \in Seq(Data(z, y))
    PROVE  /\ Joined(o, q) \in Seq(PacketsOn(z, y)) /\ Brings(Joined(o, q), A)
           /\ \A s : s \in A \/ First(q, s) => First(Joined(o, q), s)
           /\ A = {} /\ q = <<>> => Joined(o, q) = <<>>
<1>1. o \in Seq(PacketsOn(z, y)) /\ (\A s : First(o, s)) /\ (A = {} => o = <<>>)
    BY AddingIs
<1>2. q \in Seq(PacketsOn(z, y)) /\ \A a : Silent(q, a)
    <2>1. \A i \in 1..Len(q) : q[i] \in Data(z, y)
        OBVIOUS
    <2>2. \A i \in 1..Len(q) : q[i].kind \in DataKinds
        BY <2>1, DataKind
    <2>3. \A a : Silent(q, a)
        BY <2>2, DataSilent DEF Silent
    <2>4. Data(z, y) \subseteq PacketsOn(z, y)
        BY DEF PacketsOn
    <2> QED BY <2>3, <2>4
<1>3. Joined(o, q) \in Seq(PacketsOn(z, y))
    BY <1>1, <1>2, JoinedIs
<1>4. Brings(Joined(o, q), A)
    BY <1>1, <1>2, BringsBoth
<1>5. ASSUME NEW s, s \in A \/ First(q, s) PROVE First(Joined(o, q), s)
    <2>1. First(o, s) /\ (s \in A => \E i \in 1..Len(o) : Adds(o[i], s))
        BY <1>1 DEF Brings
    <2> QED BY <1>1, <1>2, <1>5, <2>1, FirstSent
<1>6. A = {} /\ q = <<>> => Joined(o, q) = <<>>
    BY <1>1 DEF Joined
<1> QED BY <1>3, <1>4, <1>5, <1>6

LEMMA NativeMainNet ==
    ASSUME Net, AskedOK, NativeMain
    PROVE  Net'
<1> DEFINE z == Native
           D == {Background}
           p == Request("StorageGet", Native, Background, 0, "helo")
           o1 == To(Background, AddForwarded(Background, LinkRtt))
           o2 == To(Background, p)
           out == o1 ++ o2
           A == [y \in Address |-> IF y = Background THEN {Background} ELSE {}]
<1>1. /\ Emit(z, None, out) /\ conn' = [conn EXCEPT ![Native] = {Background}]
      /\ routes' = [routes EXCEPT ![Native][Background] = <<Direct>>]
      /\ Native \in conn[Background] /\ conn[z] = {}
    BY DEF NativeMain, AskedOK
<1>2. \A a \in Address : routes[z][a] = <<>>
    BY <1>1, NoNeighbours, Nodes DEF Net, Types
<1>3. Grows(z, D)
    <2>1. routes' = [x \in Address |-> IF x = z THEN [routes[z] EXCEPT ![Background] = <<Direct>>] ELSE routes[x]]
        BY <1>1 DEF Net, Types, RoutesOK
    <2>2. routes'[z] = [a \in Address |-> IF a = Background THEN <<Direct>> ELSE routes[z][a]]
        BY <2>1, TableAt, Nodes DEF Net, Types
    <2>3. /\ routes' = [x \in Address |-> [a \in Address |-> routes'[x][a]]]
          /\ \A x, a \in Address : x # z => routes'[x][a] = routes[x][a]
          /\ \A a \in Address : routes'[z][a] = IF a \in D THEN <<Direct>> ELSE routes[z][a]
        BY <2>1, <2>2, TableAt DEF Net, Types
    <2>4. (\A x \in Address : x # z => conn'[x] = conn[x]) /\ conn'[z] = D
        BY <1>1, Nodes DEF Net, Types, ConnOK
    <2> QED BY <1>1, <1>2, <2>3, <2>4, Nodes DEF Grows
<1>4. ConnOK'
    BY <1>1, Nodes DEF Net, Types, ConnOK
<1>5. p \in Data(z, Background)
    BY Nodes DEF Data, NativeRequests, Request
<1>6. ASSUME NEW y \in Address
      PROVE  /\ Brings(out[y], A[y]) /\ out[y] \in Seq(PacketsOn(z, y))
             /\ \A s : First(out[y], s) \/ ~Announces(z, y, s) \/ s \notin {Injected, Native}
             /\ y \notin D => out[y] = <<>>
    <2> DEFINE o == o1[y]
               q == o2[y]
               B == A[y]
    <2>1. out[y] = Joined(o, q)
        BY Outs
    <2>2. /\ o = IF y = Background THEN <<AddForwarded(Background, LinkRtt)>> ELSE <<>>
          /\ q = IF y = Background THEN <<p>> ELSE <<>>
          /\ B = IF y = Background THEN {Background} ELSE {}
        BY Outs
    <2> HIDE DEF o, q, B, out, p
    <2>3. o \in Seq(Adding(B)) /\ \A a \in B : \E i \in 1..Len(o) : Adds(o[i], a)
        <3>1. CASE y = Background
            <4>1. B = {Background} /\ o = <<AddForwarded(Background, LinkRtt)>>
                BY <2>2, <3>1
            <4>2. \E i \in 1..Len(o) : Adds(o[i], Background)
                BY <4>1, Notified
            <4>3. AddForwarded(Background, LinkRtt) \in Adding(B)
                BY <4>1 DEF Adding
            <4> QED BY <4>1, <4>2, <4>3
        <3>2. CASE y # Background
            BY <2>2, <3>2
        <3> QED BY <3>1, <3>2
    <2>4. B \subseteq Address /\ (\A a \in B : Announces(z, y, a)) /\ q \in Seq(Data(z, y))
        BY <1>5, <2>2, Nodes DEF Announces
    <2>5. Brings(o, B)
        BY <2>3, <2>4, AddingIs
    <2>6. /\ Joined(o, q) \in Seq(PacketsOn(z, y)) /\ Brings(Joined(o, q), B)
          /\ B = {} /\ q = <<>> => Joined(o, q) = <<>>
        BY <2>3, <2>4, <2>5, AddingThenData
    <2>7. \A s \in {Injected, Native} : ~Announces(z, y, s)
        BY Nodes DEF Announces
    <2>8. y \notin D => B = {} /\ q = <<>>
        BY <2>2
    <2> QED BY <2>1, <2>6, <2>7, <2>8 DEF B
<1> HIDE DEF out, p
<1>7. \A a \in Address : routes'[z][a] = IF a \in D THEN <<Direct>> ELSE <<>>
    BY <1>2, <1>3 DEF Grows
<1>8. \A y, a \in Address : a \in A[y] => routes'[z][a] # <<>>
    BY <1>7
<1>9. \A y, a \in Address : Announces(z, y, a) /\ Linked(z, y)' /\ routes'[z][a] # <<>> /\ a \notin A[y]
           => Linked(z, y) /\ routes[z][a] # <<>>
    BY Nodes DEF Announces
<1>10. z \in Address /\ z # Popup /\ conn'[z] = D /\ None # z /\ None \notin Address
    BY <1>1, Nodes DEF Net, Types, ConnOK
<1> HIDE DEF z, D, A
<1>11. /\ \A y \in Address : Brings(out[y], A[y]) /\ out[y] \in Seq(PacketsOn(z, y))
       /\ \A y \in Address \ {Popup} : \A s \in {Injected, Native} : Announces(z, y, s) => First(out[y], s)
       /\ \A y \in Address : y \notin conn'[z] => out[y] = <<>>
    BY <1>6, <1>10
<1> QED BY <1>1, <1>3, <1>4, <1>8, <1>9, <1>10, <1>11, GrowingStep

\* The background page adds the native process or the popup, and sends q as well.
LEMMA BackgroundAdds ==
    ASSUME Net, NEW n \in {Native, Popup}, n \notin conn[Background],
           Grows(Background, {n}), ConnOK', NEW f, f # Background,
           f \in Address => f # Popup /\ MayTake(Background, f),
           NEW out, NEW q, Emit(Background, f, out),
           \A y \in Address :
               /\ out[y] = Joined(AddedDirect(conn[Background], routes[Background], n)[y], q[y])
               /\ q[y] \in Seq(Data(Background, y))
               /\ y \notin conn[Background] \cup {n} => q[y] = <<>>,
           \A y \in Address \ {Popup} : \A s \in {Injected, Native} : Announces(Background, y, s) =>
               First(q[y], s) \/ s \in Telling(conn[Background], routes[Background], n, y)
    PROVE  Net'
<1> DEFINE z == Background
           r == routes[Background]
           C == conn[Background]
           D == {n}
           A == [y \in Address |-> Telling(C, r, n, y)]
<1>1. /\ z \in Address /\ n \in Address /\ z # n /\ C \subseteq {Content, Native, Popup}
      /\ n = Native => C \subseteq {Content}
      /\ r[n] = <<>> /\ n # Direct
    <2>1. C \subseteq {Content, Native, Popup} /\ (n = Native => C \subseteq {Content})
        BY Nodes DEF Net, Types, ConnOK
    <2>2. n \in Address /\ z \in Address /\ n # z /\ n # Direct
        BY Nodes
    <2>3. r[n] = <<>>
        BY <2>2 DEF Grows
    <2> QED BY <2>1, <2>2, <2>3
<1>2. ASSUME NEW a \in Address, r[a] # <<>>
      PROVE  /\ r[a][1] # n /\ a # n
             /\ a \in {Content, Native, Injected, Background}
             /\ n = Native => a \in {Content, Injected}
    <2>1. RouteOK(z, a)
        BY <1>1 DEF Net, Types, RoutesOK
    <2>2. CASE a \in C
        <3>1. r[a] = <<Direct>>
            BY <2>1, <2>2, Nodes DEF RouteOK
        <3>2. r[a][1] = Direct
            BY <3>1
        <3> HIDE DEF r
        <3> QED BY <1>1, <2>2, <3>2
    <2>3. CASE a \notin C
        <3>1. PICK v \in C : r[a] = <<v>> /\ Announces(v, z, a)
            BY <1>2, <2>1, <2>3 DEF RouteOK
        <3>2. r[a][1] = v
            BY <3>1
        <3> HIDE DEF r, C
        <3> QED BY <1>1, <3>1, <3>2, Nodes DEF Announces, C
    <2> QED BY <2>2, <2>3
<1>3. ASSUME NEW y \in Address, NEW a \in A[y]
      PROVE  a \in Address /\ Announces(z, y, a) /\ routes'[z][a] # <<>>
    <2>1. CASE y = n
        <3>1. a \in Address /\ r[a] # <<>>
            BY <2>1 DEF Telling
        <3>2. Announces(z, y, a)
            BY <1>2, <2>1, <3>1, Nodes DEF Announces
        <3>3. routes'[z][a] = r[a]
            BY <1>2, <3>1 DEF Grows
        <3> QED BY <3>1, <3>2, <3>3
    <2>2. CASE y # n
        <3>1. y \in C /\ a = n
            BY <2>2 DEF Telling
        <3>2. Announces(z, y, a)
            BY <1>1, <2>2, <3>1, Nodes DEF Announces
        <3>3. routes'[z][a] = <<Direct>>
            BY <1>1, <3>1 DEF Grows
        <3> QED BY <1>1, <3>1, <3>2, <3>3
    <2> QED BY <2>1, <2>2
<1>4. ASSUME NEW y \in Address, NEW a \in Address,
             Announces(z, y, a), Linked(z, y)', routes'[z][a] # <<>>, a \notin A[y]
      PROVE  Linked(z, y) /\ routes[z][a] # <<>>
    <2>1. CASE y = n
        <3>1. a # n
            BY <1>4, <2>1, Nodes DEF Announces
        <3>2. r[a] # <<>>
            BY <1>4, <3>1 DEF Grows
        <3> QED BY <1>2, <1>4, <2>1, <3>2 DEF Telling
    <2>2. CASE y # n
        <3>1. y \in C
            BY <1>4, <2>2 DEF Grows, Linked
        <3>2. a # n
            BY <1>4, <2>2, <3>1 DEF Telling
        <3>3. y # Popup
            BY <1>1, <2>2, <3>1, Nodes
        <3>4. Linked(z, y)
            BY <3>1, <3>3 DEF Linked
        <3>5. routes'[z][a] = routes[z][a]
            BY <3>2 DEF Grows
        <3> QED BY <1>4, <3>4, <3>5
    <2> QED BY <2>1, <2>2
<1>5. ASSUME NEW y \in Address
      PROVE  /\ Brings(out[y], A[y]) /\ out[y] \in Seq(PacketsOn(z, y))
             /\ \A s : s \in A[y] \/ First(q[y], s) => First(out[y], s)
             /\ y \notin conn'[z] => out[y] = <<>>
    <2> DEFINE o == AddedDirect(C, r, n)[y]
               d == q[y]
               B == A[y]
    <2>1. o \in Seq(Adding(B)) /\ Brings(o, B) /\ B \subseteq Address
        BY <1>1, AddedSays
    <2>2. out[y] = Joined(o, d) /\ d \in Seq(Data(z, y)) /\ \A a \in B : Announces(z, y, a)
        BY <1>3
    <2>3. y \notin conn'[z] => B = {} /\ d = <<>>
        BY DEF Grows, Telling
    <2> HIDE DEF o, d, B, A
    <2>4. /\ Joined(o, d) \in Seq(PacketsOn(z, y)) /\ Brings(Joined(o, d), B)
          /\ \A s : s \in B \/ First(d, s) => First(Joined(o, d), s)
          /\ B = {} /\ d = <<>> => Joined(o, d) = <<>>
        BY <2>1, <2>2, AddingThenData
    <2> QED BY <2>2, <2>3, <2>4 DEF B, d
<1>6. /\ \A y \in Address : Brings(out[y], A[y]) /\ out[y] \in Seq(PacketsOn(z, y))
      /\ \A y \in Address \ {Popup} : \A s \in {Injected, Native} : Announces(z, y, s) => First(out[y], s)
      /\ \A y \in Address : y \notin conn'[z] => out[y] = <<>>
    BY <1>5
<1>7. \A y, a \in Address : a \in A[y] => routes'[z][a] # <<>>
    BY <1>3
<1>8. \A y, a \in Address : Announces(z, y, a) /\ Linked(z, y)' /\ routes'[z][a] # <<>> /\ a \notin A[y]
           => Linked(z, y) /\ routes[z][a] # <<>>
    BY <1>4
<1>9. Grows(z, D) /\ Emit(z, f, out) /\ f # z /\ (f \in Address => f # Popup /\ MayTake(z, f))
    OBVIOUS
<1>10. z \in Address /\ z # Popup
    BY Nodes
<1> HIDE DEF z, D, A, r, C
<1> QED BY <1>6, <1>7, <1>8, <1>9, <1>10, GrowingStep

\* Taking a packet that is no announcement.
LEMMA DataHead ==
    ASSUME ChanOK, NEW z \in Address, NEW f \in Address, NEW kind \in DataKinds, Arrives(z, f, kind)
    PROVE  /\ Head(chan[f][z]) \in Data(f, z) /\ Head(chan[f][z]).kind = kind
           /\ f \in conn[z] /\ (kind # "Closed" => MayTake(z, f))
<1> DEFINE p == Head(chan[f][z])
<1>1. p \in PacketsOn(f, z) /\ chan[f][z] # <<>> /\ p.kind = kind /\ f \in conn[z]
    BY DEF ChanOK, Arrives
<1> HIDE DEF p
<1>2. p \in Data(f, z)
    BY <1>1, AnnouncementIs DEF PacketsOn, DataKinds
<1> QED BY <1>1, <1>2 DEF p, MayTake

\* A request of the page that the background page handles has come by the way to
\* the page.
LEMMA OpenNativeRequest ==
    ASSUME Net, Received(Background, Content, "Request", "OpenNative")
    PROVE  LET p == Packet(Background, Content)
               answer == Response("OpenNative", p.sender, p.id, TRUE, FALSE)
           IN  /\ MayTake(Background, Content) /\ Content \in conn[Background]
               /\ p \in PageRequests /\ p.sender = Injected
               /\ answer \in Data(Background, Content) /\ answer.kind = "Response"
               /\ \A y \in Address : Routed(Background, answer, None)[y] = IF y = Content THEN <<answer>> ELSE <<>>
<1> DEFINE p == Packet(Background, Content)
           answer == Response("OpenNative", p.sender, p.id, TRUE, FALSE)
<1>1. /\ p \in Data(Content, Background) /\ MayTake(Background, Content) /\ Content \in conn[Background]
      /\ mayBeForwarderFor(Background, Content, p.sender)
    <2>1. /\ Arrives(Background, Content, "Request")
          /\ mayBeForwarderFor(Background, Content, p.sender)
        BY DEF Received, Packet
    <2>2. Background \in Address /\ Content \in Address /\ "Request" \in DataKinds /\ ChanOK
        BY Nodes DEF DataKinds, Net, Types
    <2> QED BY <2>1, <2>2, DataHead DEF Packet
<1> HIDE DEF p
<1>2. p \in PageRequests
    BY <1>1, Nodes DEF Data
<1>3. p.sender = Injected /\ p.id \in PageIds
    BY <1>2 DEF PageRequests
<1>4. answer \in PageResponses /\ answer.kind = "Response" /\ answer.receiver = Injected
    BY <1>3 DEF PageResponses, Response, RequestNames
<1>5. answer \in Data(Background, Content)
    BY <1>4, Nodes DEF Data, FromBackground
<1>6. nextHop(Background, Injected, None) = Content
    <2> DEFINE r == routes[Background][Injected]
    <2>1. RouteOK(Background, Injected) /\ Injected \notin conn[Background]
        BY Nodes DEF Net, Types, RoutesOK, ConnOK
    <2>2. r = <<>> \/ r = <<Content>>
        BY <2>1, Nodes DEF RouteOK, Announces, Net, Types, ConnOK
    <2>3. Contains(r, Content)
        BY <1>1, <1>3, Nodes DEF mayBeForwarderFor
    <2>4. r = <<Content>>
        <3> HIDE DEF r
        <3> QED BY <2>2, <2>3, ContainsShort
    <2>5. Content \notin {Direct, None}
        BY Nodes
    <2> QED BY <2>1, <2>4, <2>5, NextHop
<1>7. \A y \in Address : Routed(Background, answer, None)[y] = IF y = Content THEN <<answer>> ELSE <<>>
    <2> HIDE DEF answer
    <2> QED BY <1>4, <1>6, RoutedIs
<1> QED BY <1>1, <1>2, <1>3, <1>4, <1>5, <1>7 DEF p

LEMMA NotYetAdded ==
    ASSUME Net, NEW n \in {Native, Popup}, n \notin conn[Background]
    PROVE  routes[Background][n] = <<>>
<1>1. RouteOK(Background, n)
    BY Nodes DEF Net, Types, RoutesOK
<1>2. \A v \in conn[Background] : ~Announces(v, Background, n)
    BY Nodes DEF Announces
<1> QED BY <1>1, <1>2 DEF RouteOK

LEMMA OpenNativeNet ==
    ASSUME Net, OpenNative
    PROVE  Net'
<1> DEFINE z == Background
           p == Packet(Background, Content)
           greeting == Notification("OpenFromInject", Background, Native)
           answer == Response("OpenNative", p.sender, p.id, TRUE, FALSE)
           o1 == AddedDirect(conn[Background], routes[Background], Native)
           o2 == To(Native, greeting)
           o3 == Routed(Background, answer, None)
           out == o1 ++ o2 ++ o3
<1>1. /\ Emit(z, Content, out)
      /\ conn' = [conn EXCEPT ![z] = @ \cup {Native}]
      /\ routes' = [routes EXCEPT ![z] = inc(routes[z], Native, Direct)]
      /\ Received(Background, Content, "Request", "OpenNative")
    BY DEF OpenNative
<1>2. /\ MayTake(z, Content) /\ Content \in conn[z]
      /\ answer \in Data(z, Content) /\ answer.kind = "Response"
      /\ \A y \in Address : o3[y] = IF y = Content THEN <<answer>> ELSE <<>>
    BY <1>1, OpenNativeRequest
<1>3. greeting \in Data(z, Native) /\ greeting.kind = "Notification"
    BY Nodes DEF Greetings, Data, Notification
<1> HIDE DEF p, greeting, answer
<1>4. \A y \in Address : /\ out[y] = Joined(Joined(o1[y], o2[y]), o3[y])
                         /\ o2[y] = IF y = Native THEN <<greeting>> ELSE <<>>
    BY Outs
<1>5. CASE Native \in conn[z]
    <2>1. conn' = conn
        BY <1>1, <1>5 DEF Net, Types, ConnOK
    <2>2. routes[z][Native] = <<Direct>>
        BY <1>5, Nodes DEF Net, Types, RoutesOK, RouteOK
    <2>3. routes' = routes
        <3>1. Contains(routes[z][Native], Direct)
            BY <2>2, ContainsShort
        <3> QED BY <1>1, <3>1 DEF inc, Net, Types, RoutesOK
    <2>4. Sends(z, out)
        <3>1. o1 = Nothing
            BY <1>5 DEF AddedDirect
        <3>2. MaySend(z, Native, greeting)
            BY <1>3, <1>5, Nodes DEF MaySend, Needs, Announces, Notification, Closed
        <3>3. MaySend(z, Content, answer)
            <4>1. answer # Closed
                BY <1>2 DEF Closed
            <4>2. \A s \in {Injected, Native} : Announces(z, Content, s) => routes[z][s] # <<>>
                BY <2>2, Nodes DEF Announces
            <4> QED BY <1>2, <4>1, <4>2, Nodes DEF MaySend
        <3>4. Sends(z, o1)
            BY <3>1, SendsNothing
        <3>5. Sends(z, o2)
            BY <3>2, SendsTo
        <3>6. Sends(z, o3)
            <4>1. ASSUME NEW y \in Address PROVE o3[y] \in Seq(Sendable(z, y))
                <5> DEFINE o == o3[y]
                           S == Sendable(z, y)
                <5>1. (y = Content => answer \in S) /\ o = IF y = Content THEN <<answer>> ELSE <<>>
                    BY <1>2, <3>3 DEF Sendable
                <5> HIDE DEF o, S
                <5>2. o \in Seq(S)
                    BY <5>1
                <5> QED BY <5>2 DEF o, S
            <4> QED BY <4>1 DEF Sends
        <3> HIDE DEF o1, o2, o3
        <3> QED BY <3>4, <3>5, <3>6, SendsBoth
    <2> HIDE DEF out
    <2> QED BY <1>1, <1>2, <2>1, <2>3, <2>4, DataStep, Nodes
<1>6. CASE Native \notin conn[z]
    <2> DEFINE q == [y \in Address |-> IF y = Native THEN <<greeting>> ELSE IF y = Content THEN <<answer>> ELSE <<>>]
    <2>1. routes[z][Native] = <<>>
        BY <1>6, NotYetAdded
    <2>2. Grows(z, {Native})
        <3> DEFINE r == routes[z]
                   r1 == inc(r, Native, Direct)
        <3>1. r = [b \in Address |-> r[b]] /\ r[Native] = <<>> /\ Native \in Address
            BY <2>1, TableAt, Nodes DEF Net, Types
        <3> HIDE DEF r
        <3>2. r1[Native] = <<Direct>>
            BY <3>1, IncOne
        <3>3. \A b \in Address : b # Native => r1[b] = r[b]
            BY <3>1, IncIs
        <3>4. r1 = [b \in Address |-> r1[b]]
            BY <3>1, IncIs
        <3> HIDE DEF r1
        <3>5. routes' = [x \in Address |-> IF x = z THEN r1 ELSE routes[x]]
            BY <1>1 DEF Net, Types, RoutesOK, r, r1
        <3>6. routes' = [x \in Address |-> [a \in Address |-> routes'[x][a]]]
            BY <3>4, <3>5, TableAt DEF Net, Types
        <3>7. /\ \A x, a \in Address : x # z => routes'[x][a] = routes[x][a]
              /\ \A a \in Address : routes'[z][a] = r1[a]
            BY <3>5, Nodes
        <3>8. (\A x \in Address : x # z => conn'[x] = conn[x]) /\ conn'[z] = conn[z] \cup {Native}
            BY <1>1, Nodes DEF Net, Types, ConnOK
        <3> QED BY <1>6, <2>1, <3>2, <3>3, <3>6, <3>7, <3>8, Nodes DEF Grows, r
    <2>3. ConnOK'
        BY <1>1, <1>2, <1>6, Nodes DEF Net, Types, ConnOK
    <2>4. ASSUME NEW y \in Address
          PROVE  /\ out[y] = Joined(o1[y], q[y]) /\ q[y] \in Seq(Data(z, y))
                 /\ y \notin conn[z] \cup {Native} => q[y] = <<>>
        <3>1. o1[y] \in Seq(Adding(Telling(conn[z], routes[z], Native, y)))
            BY <1>6, <2>1, AddedSays, Nodes
        <3>2. q[y] \in Seq(Data(z, y)) /\ (y \notin conn[z] \cup {Native} => q[y] = <<>>)
            BY <1>2, <1>3
        <3>3. out[y] = Joined(Joined(o1[y], o2[y]), o3[y])
            BY <1>4
        <3> DEFINE o == o1[y]
                   g == o2[y]
                   w == o3[y]
        <3>4. \/ w = <<>> /\ g = q[y]
              \/ g = <<>> /\ w = q[y]
            BY <1>2, <1>4, Nodes
        <3>5. Joined(Joined(o, g), w) = Joined(o, q[y])
            <4> HIDE DEF o, g, w, q
            <4>1. CASE w = <<>> /\ g = q[y]
                BY <3>1, <3>2, <4>1 DEF Joined, o
            <4>2. CASE g = <<>> /\ w = q[y]
                BY <3>1, <4>2, JoinedNothing DEF o
            <4> QED BY <3>4, <4>1, <4>2
        <3> QED BY <3>2, <3>3, <3>5
    <2>5. ASSUME NEW y \in Address \ {Popup}, NEW s \in {Injected, Native}, Announces(z, y, s)
          PROVE  First(q[y], s) \/ s \in Telling(conn[z], routes[z], Native, y)
        <3>1. CASE y = Native
            <4>1. s = Injected /\ q[y] = <<greeting>>
                BY <2>5, <3>1, Nodes DEF Announces
            <4> HIDE DEF q
            <4> QED BY <1>3, <4>1 DEF First, Needs
        <3>2. CASE y = Content
            BY <1>2, <2>5, <3>2, Nodes DEF Announces, Telling
        <3>3. CASE y # Native /\ y # Content
            <4>1. q[y] = <<>>
                BY <3>3
            <4> QED BY <4>1, Notified
        <3> QED BY <3>1, <3>2, <3>3
    <2> HIDE DEF out, q
    <2>6. Native \in {Native, Popup} /\ Content # z /\ Content # Popup
        BY Nodes
    <2> QED BY <1>1, <1>2, <1>6, <2>2, <2>3, <2>4, <2>5, <2>6, BackgroundAdds
<1> QED BY <1>5, <1>6

LEMMA TakeNet ==
    ASSUME Net, NEW z \in Address, NEW f \in Address, f # z, MayTake(z, f), Take(z, f)
    PROVE  Net'
BY SendsNothing, DataStep DEF Take

LEMMA AnswerNet ==
    ASSUME Net, NEW z \in Address, NEW f, f # z, f \in Address => MayTake(z, f), NEW p, Answer(z, f, p),
           LET h == nextHop(z, p.receiver, None) IN h \in Address => MaySend(z, h, p)
    PROVE  Net'
<1>1. Sends(z, Routed(z, p, None))
    BY SendsRouted
<1> QED BY <1>1, DataStep DEF Answer

LEMMA SendNet ==
    ASSUME Net, NEW z \in Address, NEW p, Send(z, p),
           LET h == nextHop(z, p.receiver, None) IN h \in Address => MaySend(z, h, p)
    PROVE  Net'
<1>1. Answer(z, None, p) /\ None # z /\ None \notin Address
    BY Nodes DEF Send, Answer
<1> QED BY <1>1, AnswerNet

\* The background page answers the native process.
LEMMA MaySendToNative ==
    ASSUME Net, NEW p \in NativeResponses, Native \in conn[Background]
    PROVE  nextHop(Background, p.receiver, None) = Native /\ MaySend(Background, Native, p)
<1>1. p.receiver = Native /\ p.kind = "Response"
    BY DEF NativeResponses
<1>2. p \in Data(Background, Native)
    BY Nodes DEF Data
<1>3. nextHop(Background, p.receiver, None) = Native
    BY <1>1, NextHop
<1>4. p # Closed
    BY <1>1 DEF Closed
<1> QED BY <1>1, <1>2, <1>3, <1>4, Nodes DEF MaySend, Needs, Announces

LEMMA PopupAnswerIs ==
    ASSUME NEW ok \in BOOLEAN
    PROVE  PopupAnswer(ok) \in NativeResponses
BY DEF PopupAnswer, NativeResponses, Response

LEMMA PopupOnConnectNet ==
    ASSUME Net, PopupOK, PopupOnConnect
    PROVE  Net'
<1> DEFINE z == Background
           p == PopupAnswer(TRUE)
<1>1. p \in NativeResponses /\ Native \in conn[z] /\ p.kind = "Response"
    BY PopupAnswerIs DEF PopupOnConnect, PopupOK, NativeResponses
<1> HIDE DEF p
<1>2. MaySend(z, Native, p) /\ nextHop(z, p.receiver, None) = Native
    BY <1>1, MaySendToNative
<1>3. CASE Popup \in conn[z]
    <2>1. Send(z, p)
        BY <1>3 DEF PopupOnConnect, p
    <2> QED BY <1>2, <2>1, SendNet, Nodes
<1>4. CASE Popup \notin conn[z]
    <2> DEFINE o1 == AddedDirect(conn[Background], routes[Background], Popup)
               o2 == To(Native, p)
               out == o1 ++ o2
    <2>1. /\ conn' = [conn EXCEPT ![Background] = @ \cup {Popup}, ![Popup] = {Background}]
          /\ routes' = [routes EXCEPT ![Background] = inc(@, Popup, Direct), ![Popup][Background] = <<Direct>>]
          /\ Emit(z, None, out)
        BY <1>4 DEF PopupOnConnect, p
    <2>2. routes[z][Popup] = <<>> /\ conn[Popup] = {} /\ \A a \in Address : routes[Popup][a] = <<>>
        <3>1. conn[Popup] = {}
            BY <1>4 DEF Net, Types, ConnOK
        <3> QED BY <1>4, <3>1, NotYetAdded, NoNeighbours, Nodes DEF Net, Types
    <2>3. Grows(z, {Popup})
        <3> DEFINE r == routes[z]
                   r1 == inc(r, Popup, Direct)
                   rp == [routes[Popup] EXCEPT ![Background] = <<Direct>>]
        <3>1. r = [b \in Address |-> r[b]] /\ r[Popup] = <<>> /\ Popup \in Address
            BY <2>2, TableAt, Nodes DEF Net, Types
        <3>2. rp = [a \in Address |-> IF a = Background THEN <<Direct>> ELSE <<>>]
            BY <2>2, TableAt, Nodes DEF Net, Types
        <3> HIDE DEF r
        <3>3. r1[Popup] = <<Direct>>
            BY <3>1, IncOne
        <3>4. \A b \in Address : b # Popup => r1[b] = r[b]
            BY <3>1, IncIs
        <3>5. r1 = [b \in Address |-> r1[b]]
            BY <3>1, IncIs
        <3>6. routes' = [x \in Address |-> IF x = Popup THEN rp ELSE IF x = z THEN r1 ELSE routes[x]]
            BY <2>1, Nodes DEF Net, Types, RoutesOK, r
        <3> HIDE DEF r1, rp
        <3>7. /\ \A x, a \in Address : x # z /\ x # Popup => routes'[x][a] = routes[x][a]
              /\ \A a \in Address : routes'[z][a] = r1[a] /\ routes'[Popup][a] = rp[a]
            BY <3>6, Nodes
        <3>8. routes' = [x \in Address |-> [a \in Address |-> routes'[x][a]]]
            BY <3>2, <3>5, <3>6, TableAt DEF Net, Types
        <3>9. /\ \A x \in Address : x # z /\ x # Popup => conn'[x] = conn[x]
              /\ conn'[z] = conn[z] \cup {Popup} /\ conn'[Popup] = {Background}
            BY <2>1, Nodes DEF Net, Types, ConnOK
        <3> QED BY <1>4, <2>2, <3>2, <3>3, <3>4, <3>7, <3>8, <3>9, Nodes DEF Grows, r
    <2>4. ConnOK'
        BY <1>1, <1>4, <2>1, Nodes DEF Net, Types, ConnOK
    <2>5. ASSUME NEW y \in Address
          PROVE  /\ out[y] = Joined(o1[y], o2[y]) /\ o2[y] \in Seq(Data(z, y))
                 /\ y \notin conn[z] \cup {Popup} => o2[y] = <<>>
                 /\ o2[y] = IF y = Native THEN <<p>> ELSE <<>>
        <3>1. out[y] = Joined(o1[y], o2[y]) /\ o2[y] = IF y = Native THEN <<p>> ELSE <<>>
            BY Outs
        <3>2. p \in Data(z, Native)
            BY <1>2 DEF MaySend
        <3> HIDE DEF out, o1, o2
        <3> QED BY <1>1, <3>1, <3>2
    <2>6. ASSUME NEW y \in Address \ {Popup}, NEW s \in {Injected, Native}, Announces(z, y, s)
          PROVE  First(o2[y], s) \/ s \in Telling(conn[z], routes[z], Popup, y)
        <3>1. CASE y = Native
            <4>1. s = Injected /\ o2[y] = <<p>>
                BY <2>5, <2>6, <3>1, Nodes DEF Announces
            <4> HIDE DEF o2
            <4> QED BY <1>1, <4>1 DEF First, Needs
        <3>2. CASE y # Native
            <4>1. o2[y] = <<>>
                BY <2>5, <3>2
            <4> QED BY <4>1, Notified
        <3> QED BY <3>1, <3>2
    <2> HIDE DEF out, o2
    <2>7. Popup \in {Native, Popup} /\ None # z /\ None \notin Address
        BY Nodes
    <2> QED BY <1>4, <2>1, <2>3, <2>4, <2>5, <2>6, <2>7, BackgroundAdds
<1> QED BY <1>3, <1>4

-----------------------------------------------------------------------------
(* The end of the popup.                                                     *)

LEMMA RemovePopupNet ==
    ASSUME Net, RemovePopup
    PROVE  Net'
<1> DEFINE z == Background
           C == conn[z] \ {Popup}
           r == routes[z]
           out == ToldOfDec(C, r, Popup, Direct)
           q == chan[Popup][z]
<1>1. /\ Arrives(z, Popup, "Closed") /\ Emit(z, Popup, out)
      /\ conn' = [conn EXCEPT ![z] = C]
      /\ routes' = [routes EXCEPT ![z] = dec(r, Popup, Direct)]
    BY DEF RemovePopup
<1>2. z \in Address /\ Popup \in Address /\ z # Popup /\ Popup # Direct /\ Popup # None
    BY Nodes
<1>3. Popup \in conn[z] /\ q # <<>> /\ q \in Seq(PacketsOn(Popup, z)) /\ Head(q).kind = "Closed"
    BY <1>1, <1>2 DEF Arrives, Net, Types, ChanOK
<1>4. Rest(q) = <<>> /\ conn[Popup] = {}
    <2>1. Head(q) = Closed
        <3>1. Head(q) \in Data(Popup, z) /\ Head(q).kind = "Closed"
            BY <1>1, <1>2, DataHead DEF DataKinds, Net, Types
        <3>2. \A p \in NativeResponses : p.kind = "Response"
            BY DEF NativeResponses
        <3> HIDE DEF q
        <3> QED BY <3>1, <3>2, Nodes DEF Data
    <2>2. Len(q) \in Nat /\ Len(q) > 0 /\ Head(q) = q[1] /\ Rest(q) \in Seq(PacketsOn(Popup, z)) /\ Len(Rest(q)) = Len(q) - 1
        BY <1>3, RestElements
    <2>3. q[1] = Closed /\ 1 \in 1..Len(q)
        BY <2>1, <2>2
    <2>4. Len(q) = 1 /\ conn[Popup] = {}
        BY <2>3 DEF Net, CloseOK
    <2> HIDE DEF q
    <2>5. Len(Rest(q)) = 0
        BY <2>2, <2>4
    <2> QED BY <2>2, <2>4, <2>5
<1>5. conn[z] = {Content, Native, Popup} /\ C = {Content, Native}
    BY <1>3, Nodes DEF Net, Types, ConnOK
<1>6. r[Popup] = <<Direct>>
    BY <1>2, <1>3, Nodes DEF Net, Types, RoutesOK, RouteOK
<1>7. /\ routes' = [x \in Address |-> [a \in Address |-> routes'[x][a]]]
      /\ \A x, a \in Address : x # z \/ a # Popup => routes'[x][a] = routes[x][a]
      /\ routes'[z][Popup] = <<>>
    <2> DEFINE d == dec(r, Popup, Direct)
    <2>1. Only(r, Popup, Direct)
        BY <1>6 DEF Only
    <2>2. Without(d, r, Popup)
        BY <1>2, <2>1, TableDec DEF Net, Types
    <2>3. routes' = [x \in Address |-> IF x = z THEN d ELSE routes[x]]
        BY <1>1 DEF Net, Types, RoutesOK
    <2> HIDE DEF d
    <2>4. routes' = [x \in Address |-> [a \in Address |-> routes'[x][a]]]
        BY <2>2, <2>3, TableAt DEF Net, Types, Without
    <2> QED BY <1>2, <2>2, <2>3, <2>4 DEF Without
<1>8. \A y \in Address : /\ y \in C => out[y] = <<RemoveForwarded(Popup)>>
                         /\ y \notin C => out[y] = <<>>
    <2>1. ASSUME NEW y \in Address PROVE SaysOfDec(C, r, Popup, Direct, y)
        BY <1>2, <1>6, DecSays
    <2>2. r[Popup] # <<>>
        BY <1>6
    <2>3. \A y \in C : y # Popup /\ y # Direct
        BY <1>5, Nodes
    <2> HIDE DEF out, C, r
    <2>4. ASSUME NEW y \in Address
          PROVE  /\ y \in C => ToldOfDec(C, r, Popup, Direct)[y] = <<RemoveForwarded(Popup)>>
                 /\ y \notin C => ToldOfDec(C, r, Popup, Direct)[y] = <<>>
        BY <2>1, <2>2, <2>3 DEF SaysOfDec
    <2> QED BY <2>4 DEF out
<1> HIDE DEF out
<1>9. conn'[z] = C /\ \A x \in Address : x # z => conn'[x] = conn[x]
    BY <1>1, <1>2 DEF Net, Types, ConnOK
<1>10. Follows(z, Popup)
    BY <1>3, Nodes DEF Follows, Announces
<1>11. OthersKept(z, Popup)
    <2>1. \A x, a \in Address : Announces(x, z, a) => a # Popup
        BY Nodes DEF Announces
    <2> QED BY <1>2, <1>7, <1>9, <2>1 DEF OthersKept, Linked
<1>12. ConnOK'
    BY <1>1, <1>4, <1>5, <1>9, Nodes DEF Net, Types, ConnOK
<1>13. RoutesOK'
    <2>1. ASSUME NEW x \in Address, NEW a \in Address PROVE RouteOK(x, a)'
        <3>1. RouteOK(x, a)
            BY DEF Net, Types, RoutesOK
        <3>2. CASE x # z
            BY <1>7, <1>9, <3>1, <3>2 DEF RouteOK
        <3>3. CASE x = z /\ a = Popup
            BY <1>7, <1>9, <3>3 DEF RouteOK
        <3>4. CASE x = z /\ a # Popup
            <4>1. \A v : Announces(v, z, a) => v # Popup
                BY Nodes DEF Announces
            <4> QED BY <1>7, <1>9, <3>1, <3>4, <4>1 DEF RouteOK
        <3> QED BY <3>2, <3>3, <3>4
    <2> QED BY <1>7, <2>1 DEF RoutesOK
<1>14. CloseOK'
    <2>1. chan'[Popup][z] = <<>>
        BY <1>1, <1>2, <1>4, EmitLinks
    <2>2. Popup \notin conn'[z]
        BY <1>9
    <2>3. \A i \in 1..Len(chan'[Popup][z]) : FALSE
        BY <2>1
    <2> QED BY <2>1, <2>2, <2>3 DEF CloseOK
<1>15. \A y \in Address : out[y] \in Seq(PacketsOn(z, y))
    <2>1. \A y \in C : Announces(z, y, Popup)
        BY <1>5, Nodes DEF Announces
    <2>2. \A y \in C : RemoveForwarded(Popup) \in PacketsOn(z, y)
        BY <1>2, <2>1, AnnouncementsAre DEF PacketsOn
    <2>3. ASSUME NEW y \in Address PROVE out[y] \in Seq(PacketsOn(z, y))
        <3> DEFINE o == out[y]
        <3>1. o = <<>> \/ (o = <<RemoveForwarded(Popup)>> /\ RemoveForwarded(Popup) \in PacketsOn(z, y))
            BY <1>8, <2>2
        <3> HIDE DEF o
        <3>2. o \in Seq(PacketsOn(z, y))
            <4>1. CASE o = <<>>
                BY <4>1
            <4>2. CASE o = <<RemoveForwarded(Popup)>> /\ RemoveForwarded(Popup) \in PacketsOn(z, y)
                BY <4>2
            <4> QED BY <3>1, <4>1, <4>2
        <3> QED BY <3>2 DEF o
    <2> QED BY <2>3
<1>16. ASSUME NEW y \in Address, NEW a \in Address, Announces(z, y, a) PROVE Agree(z, y, a)'
    <2>1. /\ Agree(z, y, a) /\ chan[z][y] \in Seq(PacketsOn(z, y)) /\ out[y] \in Seq(PacketsOn(z, y))
        BY <1>2, <1>15, <1>16 DEF Net, AgreeOK, Types, ChanOK
    <2>2. chan'[z][y] = Joined(chan[z][y], out[y])
        BY <1>1, <1>2, EmitSent
    <2>3. y # z
        BY <1>16, Nodes DEF Announces
    <2>4. routes'[y][a] = routes[y][a]
        BY <1>7, <2>3
    <2>5. CASE a = Popup
        <3>1. y \in C
            BY <1>5, <1>16, <2>5, Nodes DEF Announces
        <3>2. /\ \E i \in 1..Len(out[y]) : Drops(out[y][i], a)
              /\ \A i \in 1..Len(out[y]) : ~Adds(out[y][i], a)
            BY <1>8, <2>5, <3>1, Notified
        <3>3. routes'[z][a] = <<>>
            BY <1>7, <2>5
        <3> QED BY <1>2, <2>1, <2>2, <2>4, <3>2, <3>3, AgreeTold
    <2>6. CASE a # Popup
        <3>1. Silent(out[y], a)
            <4>1. out[y] = <<>> \/ out[y] = <<RemoveForwarded(Popup)>>
                BY <1>8
            <4> QED BY <2>6, <4>1, Notified
        <3>2. routes'[z][a] = routes[z][a]
            BY <1>2, <1>7, <2>6
        <3>3. Linked(z, y)' => Linked(z, y)
            BY <1>2, <1>9 DEF Linked
        <3> QED BY <1>2, <2>1, <2>2, <2>4, <3>1, <3>2, <3>3, AgreeTold
    <2> QED BY <2>5, <2>6
<1>17. \A y \in Address : \A s : First(out[y], s)
    <2>1. \A y \in Address : out[y] = <<>> \/ out[y] = <<RemoveForwarded(Popup)>>
        BY <1>8
    <2> QED BY <2>1, Notified
<1>18. \A x, y \in Address \ {Popup} : y \notin conn'[x] => y \notin conn[x] /\ (x = z => out[y] = <<>>)
    BY <1>8, <1>9
<1> HIDE DEF z, C
<1> QED BY <1>1, <1>2, <1>10, <1>11, <1>12, <1>13, <1>14, <1>15, <1>16, <1>17, <1>18, TableStep

\* Nothing of the popup is left but what it has sent.
LEMMA PopupCut ==
    ASSUME Net, \A x \in Address : x # Popup => conn'[x] = conn[x], conn'[Popup] = {}, ConnOK',
           routes' = [x \in Address |-> [a \in Address |-> routes'[x][a]]],
           \A x, a \in Address : x # Popup => routes'[x][a] = routes[x][a],
           \A a \in Address : routes'[Popup][a] = <<>>,
           chan' = [x \in Address |-> [y \in Address |-> chan'[x][y]]],
           \A x, y \in Address : x # Popup /\ y # Popup => chan'[x][y] = chan[x][y],
           \A x \in Address : x # Background => chan'[x][Popup] = chan[x][Popup] /\ chan'[Popup][x] = chan[Popup][x],
           chan'[Background][Popup] = <<>>,
           chan'[Popup][Background] \in Seq(PacketsOn(Popup, Background)), CloseOK'
    PROVE  Net'
<1> USE Nodes
<1>1. ChanOK'
    <2>1. ASSUME NEW x \in Address, NEW y \in Address PROVE chan'[x][y] \in Seq(PacketsOn(x, y))
        <3>1. chan[x][y] \in Seq(PacketsOn(x, y))
            BY DEF Net, Types, ChanOK
        <3>2. CASE x = Background /\ y = Popup
            <4>1. <<>> \in Seq(PacketsOn(x, y))
                OBVIOUS
            <4> QED BY <3>2, <4>1
        <3>3. CASE x = Popup /\ y = Background
            BY <3>3
        <3>4. CASE ~(x = Background /\ y = Popup) /\ ~(x = Popup /\ y = Background)
            <4>1. chan'[x][y] = chan[x][y]
                BY <3>4
            <4> QED BY <3>1, <4>1
        <3> QED BY <3>2, <3>3, <3>4
    <2> QED BY <2>1 DEF ChanOK
<1>2. RoutesOK'
    <2>1. ASSUME NEW x \in Address, NEW a \in Address PROVE RouteOK(x, a)'
        BY DEF Net, Types, RoutesOK, RouteOK
    <2> QED BY <2>1 DEF RoutesOK
<1>3. AgreeOK'
    <2>1. ASSUME NEW x \in Address, NEW y \in Address, NEW a \in Address, Announces(x, y, a) PROVE Agree(x, y, a)'
        <3>1. Agree(x, y, a) /\ x # Popup
            BY <2>1 DEF Net, AgreeOK, Announces
        <3>2. CASE y = Popup
            <4>1. x = Background
                BY <2>1, <3>2 DEF Announces
            <4>2. ~Believes(<<>>, a, <<>>, x)
                <5>1. ~Contains(<<>>, x)
                    BY ContainsShort
                <5> QED BY <5>1 DEF Believes
            <4> QED BY <3>2, <4>1, <4>2 DEF Agree, Linked
        <3>3. CASE y # Popup
            <4>1. /\ chan'[x][y] = chan[x][y] /\ routes'[y][a] = routes[y][a] /\ routes'[x][a] = routes[x][a]
                  /\ Linked(x, y)' <=> Linked(x, y)
                BY <3>1, <3>3 DEF Linked
            <4> QED BY <3>1, <4>1 DEF Agree
        <3> QED BY <3>2, <3>3
    <2> QED BY <2>1 DEF AgreeOK
<1>4. QuietOK'
    BY DEF Net, QuietOK
<1>5. KnownFirst'
    <2>1. ASSUME NEW s \in {Injected, Native}, NEW x \in Address \ {Popup}, NEW y \in Address \ {Popup},
                 Announces(x, y, s), ~Contains(routes'[y][s], x)
          PROVE  First(chan'[x][y], s)
        <3>1. chan'[x][y] = chan[x][y] /\ routes'[y][s] = routes[y][s]
            OBVIOUS
        <3>2. ~Contains(routes[y][s], x)
            BY <2>1, <3>1
        <3> QED BY <2>1, <3>1, <3>2 DEF Net, KnownFirst
    <2> QED BY <2>1 DEF KnownFirst
<1> QED BY <1>1, <1>2, <1>3, <1>4, <1>5 DEF Net, Types

LEMMA DiscardForPopupNet ==
    ASSUME Net, DiscardForPopup
    PROVE  Net'
<1>1. /\ conn[Popup] = {} /\ conn' = conn /\ routes' = routes
      /\ chan' = [chan EXCEPT ![Background][Popup] = <<>>]
    BY DEF DiscardForPopup
<1>2. \A a \in Address : routes[Popup][a] = <<>>
    BY <1>1, NoNeighbours, Nodes DEF Net, Types
<1>3. chan' = [x \in Address |-> [y \in Address |-> IF x = Background /\ y = Popup THEN <<>> ELSE chan[x][y]]]
    <2>1. chan' = [x \in Address |-> IF x = Background THEN [chan[Background] EXCEPT ![Popup] = <<>>] ELSE chan[x]]
        BY <1>1 DEF Net, Types, ChanOK
    <2>2. ASSUME NEW x \in Address PROVE chan[x] = [y \in Address |-> chan[x][y]]
        BY DEF Net, Types, ChanOK
    <2> QED BY <2>1, <2>2, Nodes
<1>4. chan' = [x \in Address |-> [y \in Address |-> chan'[x][y]]]
    BY <1>3
<1>5. /\ \A x, y \in Address : ~(x = Background /\ y = Popup) => chan'[x][y] = chan[x][y]
      /\ chan'[Background][Popup] = <<>>
    BY <1>3, Nodes
<1>6. chan'[Popup][Background] = chan[Popup][Background] /\ chan[Popup][Background] \in Seq(PacketsOn(Popup, Background))
    BY <1>5, Nodes DEF Net, Types, ChanOK
<1>7. CloseOK' /\ ConnOK' /\ RoutesOK'
    BY <1>1, <1>6, CloseKept DEF Net, Types, ConnOK, RoutesOK, RouteOK
<1> QED BY <1>1, <1>2, <1>4, <1>5, <1>6, <1>7, Nodes, PopupCut DEF RoutesOK

LEMMA ClosesNet ==
    ASSUME Net, PopupOK, popup = "open", NEW answer \in Seq(NativeResponses), Closes(answer)
    PROVE  Net'
<1> DEFINE q == chan[Popup][Background]
           end == Joined(Joined(q, answer), <<Closed>>)
           S == PacketsOn(Popup, Background)
<1>1. /\ conn' = [conn EXCEPT ![Popup] = {}] /\ routes' = [routes EXCEPT ![Popup] = [a \in Address |-> <<>>]]
      /\ chan' = [chan EXCEPT ![Background][Popup] = <<>>, ![Popup][Background] = end]
      /\ conn[Popup] # {} /\ Popup \in conn[Background]
    BY DEF Closes, Joined, PopupOK, Net, Types, ConnOK
<1>2. /\ \A x \in Address : x # Popup => conn'[x] = conn[x]
      /\ conn'[Popup] = {}
    BY <1>1, Nodes DEF Net, Types, ConnOK
<1>3. ConnOK'
    BY <1>1, <1>2, Nodes DEF Net, Types, ConnOK
<1>4. routes' = [x \in Address |-> IF x = Popup THEN [a \in Address |-> <<>>] ELSE routes[x]]
    BY <1>1 DEF Net, Types, RoutesOK
<1>5. /\ routes' = [x \in Address |-> [a \in Address |-> routes'[x][a]]]
      /\ \A x, a \in Address : x # Popup => routes'[x][a] = routes[x][a]
      /\ \A a \in Address : routes'[Popup][a] = <<>>
    <2>1. \A x \in Address : routes[x] = [a \in Address |-> routes[x][a]]
        BY TableAt DEF Net, Types
    <2> QED BY <1>4, <2>1, Nodes
<1> HIDE DEF end
<1>6. chan' = [x \in Address |-> [y \in Address |->
                  IF x = Background /\ y = Popup THEN <<>>
                  ELSE IF x = Popup /\ y = Background THEN end ELSE chan[x][y]]]
    <2>1. chan' = [x \in Address |-> IF x = Background THEN [chan[Background] EXCEPT ![Popup] = <<>>]
                                     ELSE IF x = Popup THEN [chan[Popup] EXCEPT ![Background] = end]
                                     ELSE chan[x]]
        BY <1>1, Nodes DEF Net, Types, ChanOK
    <2>2. ASSUME NEW x \in Address PROVE chan[x] = [y \in Address |-> chan[x][y]]
        BY DEF Net, Types, ChanOK
    <2> QED BY <2>1, <2>2, Nodes
<1>7. chan' = [x \in Address |-> [y \in Address |-> chan'[x][y]]]
    BY <1>6
<1>8. /\ \A x, y \in Address : x # Popup /\ y # Popup => chan'[x][y] = chan[x][y]
      /\ \A x \in Address : x # Background => chan'[x][Popup] = chan[x][Popup] /\ chan'[Popup][x] = chan[Popup][x]
      /\ chan'[Background][Popup] = <<>> /\ chan'[Popup][Background] = end
    BY <1>6, Nodes
<1>9. q \in Seq(S) /\ answer \in Seq(S) /\ <<Closed>> \in Seq(S) /\ \A i \in 1..Len(answer) : answer[i] # Closed
    <2>1. NativeResponses \cup {Closed} \subseteq S
        BY Nodes DEF PacketsOn, Data
    <2>2. q \in Seq(S)
        BY Nodes DEF Net, Types, ChanOK
    <2>3. \A p \in NativeResponses : p # Closed
        BY DEF NativeResponses, Closed
    <2> HIDE DEF S, q
    <2> QED BY <2>1, <2>2, <2>3
<1>10. \A i \in 1..Len(q) : q[i] # Closed
    BY <1>1 DEF Net, CloseOK
<1> HIDE DEF q, S
<1>11. /\ Joined(q, answer) \in Seq(S)
       /\ \A i \in 1..Len(Joined(q, answer)) : Joined(q, answer)[i] # Closed
    <2>1. Joined(q, answer) \in Seq(S)
        BY <1>9, JoinedIs
    <2>2. /\ \A i \in 1..Len(q) : Joined(q, answer)[i] = q[i]
          /\ \A i \in 1..Len(Joined(q, answer)) : i \in 1..Len(q) \/ i > Len(q)
          /\ \A i \in 1..Len(Joined(q, answer)) :
                 i > Len(q) => i - Len(q) \in 1..Len(answer) /\ Joined(q, answer)[i] = answer[i - Len(q)]
        BY <1>9, JoinedElements
    <2> QED BY <1>9, <1>10, <2>1, <2>2
<1>12. /\ end \in Seq(S)
       /\ \A i \in 1..Len(end) : end[i] = Closed => i = Len(end)
       /\ \E i \in 1..Len(end) : end[i] = Closed
    <2> DEFINE h == Joined(q, answer)
    <2>1. h \in Seq(S) /\ \A i \in 1..Len(h) : h[i] # Closed
        BY <1>11
    <2>2. <<Closed>> \in Seq(S) /\ Len(<<Closed>>) = 1 /\ <<Closed>>[1] = Closed
        BY <1>9
    <2> DEFINE l == <<Closed>>
    <2>3. l \in Seq(S) /\ Len(l) = 1 /\ l[1] = Closed
        BY <2>2
    <2> HIDE DEF h, l
    <2>4. Joined(h, l) \in Seq(S)
        BY <2>1, <2>3, JoinedIs
    <2>5. /\ Len(Joined(h, l)) = Len(h) + Len(l) /\ Len(h) \in Nat /\ Len(l) \in Nat
          /\ \A i \in 1..Len(h) : i \in 1..Len(Joined(h, l)) /\ Joined(h, l)[i] = h[i]
          /\ \A i \in 1..Len(l) :
                 i + Len(h) \in 1..Len(Joined(h, l)) /\ Joined(h, l)[i + Len(h)] = l[i]
          /\ \A i \in 1..Len(Joined(h, l)) :
                 i > Len(h) => i - Len(h) \in 1..Len(l) /\ Joined(h, l)[i] = l[i - Len(h)]
        <3>1. h \in Seq(S) /\ l \in Seq(S)
            BY <2>1, <2>3
        <3> QED BY <3>1, JoinedElements
    <2>6. \A i \in 1..Len(Joined(h, l)) : Joined(h, l)[i] = Closed => i = Len(Joined(h, l))
        BY <2>1, <2>3, <2>5
    <2>7. \E i \in 1..Len(Joined(h, l)) : Joined(h, l)[i] = Closed
        BY <2>3, <2>5
    <2>8. end = Joined(h, l)
        BY DEF end, h, l
    <2> QED BY <2>4, <2>6, <2>7, <2>8
<1>13. CloseOK'
    <2>1. Popup \in conn'[Background] /\ conn'[Popup] = {}
        BY <1>1, <1>2, Nodes
    <2> QED BY <1>8, <1>12, <2>1 DEF CloseOK
<1>14. chan'[Popup][Background] \in Seq(PacketsOn(Popup, Background))
    BY <1>8, <1>12 DEF S
<1> QED BY <1>2, <1>3, <1>5, <1>7, <1>8, <1>13, <1>14, PopupCut

-----------------------------------------------------------------------------
(* What a node knows when a packet reaches it.                               *)

\* Nothing but the popup is ever dropped.
LEMMA Reaches ==
    ASSUME Net, NEW x \in Address, NEW y \in Address, NEW a \in Address, Announces(x, y, a), a # Popup,
           Contains(routes[y][a], x)
    PROVE  routes[x][a] # <<>>
<1>1. \A j \in 1..Len(chan[x][y]) : ~Drops(chan[x][y][j], a)
    <2>1. ASSUME NEW p \in PacketsOn(x, y) PROVE ~Drops(p, a)
        <3>1. CASE p \in Data(x, y)
            BY <3>1, DataKind, DataSilent
        <3>2. CASE p \in Announcements(x, y)
            BY <3>2, AnnouncementIs, AddsIsNoDrop DEF Drops, RemoveForwarded
        <3> QED BY <3>1, <3>2 DEF PacketsOn
    <2>2. chan[x][y] \in Seq(PacketsOn(x, y))
        BY DEF Net, Types, ChanOK
    <2>3. \A j \in 1..Len(chan[x][y]) : chan[x][y][j] \in PacketsOn(x, y)
        BY <2>2
    <2> QED BY <2>1, <2>3
<1>2. Believes(chan[x][y], a, routes[y][a], x)
    BY <1>1 DEF Believes
<1> QED BY <1>2 DEF Net, AgreeOK, Agree

\* The only way to a leads over who announces it.
LEMMA Way ==
    ASSUME Net, NEW x \in Address, NEW y \in Address, NEW a \in Address, Announces(x, y, a),
           a \notin conn[y], routes[y][a] # <<>>
    PROVE  /\ routes[y][a] = <<x>> /\ Contains(routes[y][a], x) /\ x \in conn[y]
           /\ \A from : from # x => nextHop(y, a, from) = x
<1>1. RouteOK(y, a)
    BY DEF Net, Types, RoutesOK
<1>2. \A v \in conn[y] : v \in Address
    BY DEF Net, Types, ConnOK
<1>3. \A v \in Address : Announces(v, y, a) => v = x
    BY Spreads DEF Net, Types
<1>4. routes[y][a] = <<x>> /\ x \in conn[y]
    BY <1>1, <1>2, <1>3 DEF RouteOK
<1>5. Contains(<<x>>, x)
    BY ContainsShort
<1>6. x # Direct
    BY Nodes
<1>7. \A from : from # x => nextHop(y, a, from) = x
    BY <1>4, <1>6, NextHop
<1> QED BY <1>4, <1>5, <1>7

\* The first packet that needs a route finds it.
LEMMA Arrived ==
    ASSUME Net, NEW s \in {Injected, Native}, NEW x \in Address \ {Popup}, NEW y \in Address \ {Popup},
           Announces(x, y, s), chan[x][y] # <<>>, Head(chan[x][y]).kind \in Needs(s)
    PROVE  Contains(routes[y][s], x) /\ routes[y][s] # <<>>
<1>1. chan[x][y] \in Seq(PacketsOn(x, y))
    BY DEF Net, Types, ChanOK
<1>2. Contains(routes[y][s], x)
    <2>1. SUFFICES ASSUME ~Contains(routes[y][s], x) PROVE FALSE
        OBVIOUS
    <2>2. First(chan[x][y], s)
        BY <2>1 DEF Net, KnownFirst
    <2> QED BY <1>1, <2>2, FirstTaken
<1> QED BY <1>2, ContainsShort

\* What the page has heard of.
LEMMA PageKnows ==
    ASSUME Net, routes[Injected][Native] # <<>>
    PROVE  /\ routes[Content][Native] # <<>> /\ Native \in conn[Background]
           /\ nextHop(Injected, Native, None) = Content
<1>1. Native \notin conn[Injected] /\ Native \notin conn[Content]
    BY Nodes DEF Net, Types, ConnOK
<1>2. Announces(Content, Injected, Native) /\ Announces(Background, Content, Native)
    BY Nodes DEF Announces
<1>3. Contains(routes[Injected][Native], Content) /\ nextHop(Injected, Native, None) = Content
    BY <1>1, <1>2, Way, Nodes
<1>4. routes[Content][Native] # <<>>
    BY <1>2, <1>3, Reaches, Nodes
<1>5. Contains(routes[Content][Native], Background)
    BY <1>1, <1>2, <1>4, Way, Nodes
<1>6. routes[Background][Native] # <<>>
    BY <1>2, <1>5, Reaches, Nodes
<1>7. Native \in conn[Background]
    BY <1>6, NotYetAdded
<1> QED BY <1>3, <1>4, <1>7

\* What the native process has heard of.
LEMMA NativeKnows ==
    ASSUME Net, routes[Native][Injected] # <<>>
    PROVE  /\ nextHop(Native, Injected, None) = Background /\ Background \in conn[Native]
           /\ routes[Background][Injected] # <<>>
           /\ \A from : from # Content => nextHop(Background, Injected, from) = Content
<1>1. Injected \notin conn[Native] /\ Injected \notin conn[Background]
    BY Nodes DEF Net, Types, ConnOK
<1>2. Announces(Background, Native, Injected) /\ Announces(Content, Background, Injected)
    BY Nodes DEF Announces
<1>3. Contains(routes[Native][Injected], Background) /\ nextHop(Native, Injected, None) = Background
      /\ Background \in conn[Native]
    BY <1>1, <1>2, Way, Nodes
<1>4. routes[Background][Injected] # <<>>
    BY <1>2, <1>3, Reaches, Nodes
<1>5. \A from : from # Content => nextHop(Background, Injected, from) = Content
    BY <1>1, <1>2, <1>4, Way, Nodes
<1> QED BY <1>3, <1>4, <1>5

-----------------------------------------------------------------------------
(* What a step sends is fine.                                                *)

\* Fine as it will be after the step.
FineNext(x, p) ==
    /\ p.kind = "Request" => (p.receiver = Native => routes'[Injected][Native] # <<>>)
    /\ x = Native /\ p.kind \in {"Response", "Notification"} => routes'[Native][Injected] # <<>>
    /\ Early' /\ p.kind = "Request" => (p.sender = Injected => p.id.at \in {"OpenNative", "SubscribeHid"})
    /\ Early' /\ p.kind = "Response" => (p.receiver = Injected => p.id.at = "OpenNative")
FineOut(z, o) == \A i \in 1..Len(o) : FineNext(z, o[i])
IsSequence(o) == \E T : o \in Seq(T)

\* The routes a packet needs stay, and hid() does not start over.
Onward ==
    /\ routes[Injected][Native] # <<>> => routes'[Injected][Native] # <<>>
    /\ routes[Native][Injected] # <<>> => routes'[Native][Injected] # <<>>
    /\ Early' => Early

LEMMA FineStays == ASSUME Onward, NEW x, NEW p, Fine(x, p) PROVE FineNext(x, p)
BY DEF Onward, Fine, FineNext

LEMMA FineIsNext ==
    ASSUME \A x, y \in Address : \A i \in 1..Len(chan'[x][y]) : FineNext(x, chan'[x][y][i])
    PROVE  FineOK'
BY DEF FineOK, Fine, FineNext, Early

\* Announcements and the end of a port need nothing.
LEMMA FineElse ==
    ASSUME NEW x, NEW p, p.kind \notin {"Request", "Response", "Notification"}
    PROVE  FineNext(x, p)
BY DEF FineNext

LEMMA FineJoined ==
    ASSUME NEW S, NEW q \in Seq(S), NEW T, NEW o \in Seq(T), NEW z, FineOut(z, q), FineOut(z, o)
    PROVE  FineOut(z, Joined(q, o))
<1>0. q \in Seq(S \cup T) /\ o \in Seq(S \cup T)
    OBVIOUS
<1>1. /\ \A i \in 1..Len(Joined(q, o)) : i \in 1..Len(q) \/ i > Len(q)
      /\ \A i \in 1..Len(q) : Joined(q, o)[i] = q[i]
      /\ \A i \in 1..Len(Joined(q, o)) : i > Len(q) => i - Len(q) \in 1..Len(o) /\ Joined(q, o)[i] = o[i - Len(q)]
    BY <1>0, JoinedElements
<1> QED BY <1>1 DEF FineOut

LEMMA FineStep ==
    ASSUME Net, FineOK, Onward, NEW z \in Address, NEW f, f # z, NEW out, Emit(z, f, out),
           f \in Address => chan[f][z] # <<>>,
           \A y \in Address : FineOut(z, out[y]) /\ IsSequence(out[y])
    PROVE  FineOK'
<1>1. ASSUME NEW x \in Address, NEW y \in Address PROVE FineOut(x, chan'[x][y])
    <2> DEFINE q == chan[x][y]
    <2>1. q \in Seq(PacketsOn(x, y)) /\ FineOut(x, q)
        <3>1. q \in Seq(PacketsOn(x, y))
            BY DEF Net, Types, ChanOK
        <3>2. \A i \in 1..Len(q) : Fine(x, q[i])
            BY DEF FineOK
        <3> QED BY <3>1, <3>2, FineStays DEF FineOut
    <2>2. CASE x = z
        <3>1. chan'[x][y] = Joined(q, out[y])
            BY <2>2, EmitLinks
        <3>2. PICK T : out[y] \in Seq(T)
            BY DEF IsSequence
        <3> QED BY <2>1, <2>2, <3>1, <3>2, FineJoined
    <2>3. CASE x = f /\ y = z
        <3>1. chan'[x][y] = Rest(q) /\ q # <<>>
            BY <2>3, EmitLinks
        <3> HIDE DEF q
        <3>2. \A i \in 1..Len(Rest(q)) : i + 1 \in 1..Len(q) /\ Rest(q)[i] = q[i + 1]
            BY <2>1, <3>1, RestElements
        <3> QED BY <2>1, <3>1, <3>2 DEF FineOut
    <2>4. CASE x # z /\ ~(x = f /\ y = z)
        <3>1. chan'[x][y] = q
            BY <2>4, EmitLinks
        <3> QED BY <2>1, <3>1
    <2> QED BY <2>2, <2>3, <2>4
<1> QED BY <1>1, FineIsNext DEF FineOut

\* z may send p to y, and it is fine.
Proper(z, y) == {p \in Data(z, y) : MaySend(z, y, p) /\ FineNext(z, p)}
Says(z, out) == \A y \in Address : out[y] \in Seq(Proper(z, y))

LEMMA SaysNothing == ASSUME NEW z PROVE Says(z, Nothing)
<1>1. ASSUME NEW y \in Address PROVE Nothing[y] \in Seq(Proper(z, y))
    <2>1. Nothing[y] = <<>>
        BY Outs
    <2>2. <<>> \in Seq(Proper(z, y))
        OBVIOUS
    <2> QED BY <2>1, <2>2, Zenon
<1> QED BY <1>1, Zenon DEF Says

LEMMA SaysTo ==
    ASSUME NEW z, NEW h \in Address, NEW p \in Proper(z, h)
    PROVE  Says(z, To(h, p))
<1>1. ASSUME NEW y \in Address PROVE To(h, p)[y] \in Seq(Proper(z, y))
    <2>1. To(h, p)[y] = IF y = h THEN <<p>> ELSE <<>>
        BY Outs
    <2> QED BY <2>1
<1> QED BY <1>1 DEF Says

LEMMA SaysBoth ==
    ASSUME NEW z, NEW o, NEW q, Says(z, o), Says(z, q)
    PROVE  Says(z, o ++ q)
<1>1. ASSUME NEW y \in Address PROVE (o ++ q)[y] \in Seq(Proper(z, y))
    <2>1. (o ++ q)[y] = Joined(o[y], q[y])
        BY Outs
    <2> QED BY <2>1, JoinedIs DEF Says
<1> QED BY <1>1 DEF Says

LEMMA SaysIs ==
    ASSUME NEW z, NEW out, Says(z, out)
    PROVE  Sends(z, out) /\ \A y \in Address : FineOut(z, out[y])
<1>1. ASSUME NEW y \in Address PROVE out[y] \in Seq(Sendable(z, y)) /\ FineOut(z, out[y])
    <2> DEFINE o == out[y]
    <2>1. o \in Seq(Proper(z, y))
        BY DEF Says
    <2> HIDE DEF o
    <2>2. \A i \in 1..Len(o) : o[i] \in Proper(z, y)
        BY <2>1
    <2>3. o \in Seq(Sendable(z, y))
        BY <2>1, <2>2 DEF Proper, Sendable
    <2>4. FineOut(z, o)
        BY <2>2 DEF Proper, FineOut
    <2> QED BY <2>3, <2>4 DEF o
<1> QED BY <1>1 DEF Sends

\* z takes a packet of f, if f is a node, and says out.
LEMMA SayingStep ==
    ASSUME Net, FineOK, Onward, NEW z \in Address, NEW f, f # z, f \in Address => MayTake(z, f),
           NEW out, Emit(z, f, out), Says(z, out), UNCHANGED <<conn, routes>>
    PROVE  Net' /\ FineOK'
<1>1. Sends(z, out) /\ \A y \in Address : FineOut(z, out[y])
    BY SaysIs
<1>2. Net'
    BY <1>1, DataStep
<1>3. \A y \in Address : IsSequence(out[y])
    <2>1. \A y \in Address : out[y] \in Seq(PacketsOn(z, y))
        BY <1>1, SendsIs
    <2> QED BY <2>1, Zenon DEF IsSequence
<1>4. FineOK'
    BY <1>1, <1>3, FineStep DEF MayTake
<1> QED BY <1>2, <1>4

LEMMA TakeSays ==
    ASSUME Net, FineOK, Early' => Early, NEW z \in Address, NEW f \in Address, f # z, MayTake(z, f),
           Take(z, f)
    PROVE  Net' /\ FineOK' /\ UNCHANGED <<conn, routes, lost>>
<1>1. Onward
    BY DEF Onward, Take
<1> QED BY <1>1, SaysNothing, SayingStep DEF Take

LEMMA RoutedSays ==
    ASSUME NEW z, NEW from, NEW h \in Address, NEW p, nextHop(z, p.receiver, from) = h, p \in Proper(z, h)
    PROVE  Routed(z, p, from) = To(h, p) /\ Says(z, Routed(z, p, from)) /\ Undelivered(z, p, from) = {}
<1>1. h # None
    BY Nodes
<1> QED BY <1>1, SaysTo DEF Routed, Undelivered

LEMMA AnswerSays ==
    ASSUME Net, FineOK, Early' => Early, NEW z \in Address, NEW f, f # z, f \in Address => MayTake(z, f),
           NEW h \in Address, NEW p, nextHop(z, p.receiver, None) = h, p \in Proper(z, h), Answer(z, f, p)
    PROVE  Net' /\ FineOK' /\ UNCHANGED <<conn, routes, lost>>
<1>1. Onward
    BY DEF Onward, Answer
<1>2. Says(z, Routed(z, p, None)) /\ lost' = lost
    BY RoutedSays DEF Answer
<1> QED BY <1>1, <1>2, SayingStep DEF Answer

LEMMA SendSays ==
    ASSUME Net, FineOK, Early' => Early, NEW z \in Address, NEW h \in Address, NEW p,
           nextHop(z, p.receiver, None) = h, p \in Proper(z, h), Send(z, p)
    PROVE  Net' /\ FineOK' /\ UNCHANGED <<conn, routes, lost>>
<1>1. Answer(z, None, p) /\ None # z /\ None \notin Address
    BY Nodes DEF Send, Answer
<1> QED BY <1>1, AnswerSays

-----------------------------------------------------------------------------
(* What a node may send, and what it takes.                                  *)

\* What the background page tells the native process.
LEMMA BackgroundAnswers ==
    ASSUME Net, NEW p \in NativeResponses, Native \in conn[Background]
    PROVE  nextHop(Background, p.receiver, None) = Native /\ p \in Proper(Background, Native)
<1>1. nextHop(Background, p.receiver, None) = Native /\ MaySend(Background, Native, p)
    BY MaySendToNative
<1>2. FineNext(Background, p)
    BY Nodes DEF FineNext, NativeResponses
<1> QED BY <1>1, <1>2 DEF Proper, MaySend

\* What the native process asks the background page.
LEMMA NativeAsks ==
    ASSUME Net, NEW p \in NativeRequests, conn[Native] # {}
    PROVE  nextHop(Native, p.receiver, None) = Background /\ p \in Proper(Native, Background)
<1>1. p.receiver = Background /\ p.kind = "Request" /\ p.sender = Native
    BY DEF NativeRequests
<1>2. p \in Data(Native, Background)
    BY Nodes DEF Data
<1>3. Background \in conn[Native]
    BY DEF Net, Types, ConnOK
<1>4. MaySend(Native, Background, p)
    BY <1>1, <1>2, <1>3, Nodes DEF MaySend, Needs, Announces, Closed
<1>5. FineNext(Native, p)
    BY <1>1, Nodes DEF FineNext
<1> QED BY <1>1, <1>2, <1>3, <1>4, <1>5, NextHop DEF Proper

\* And what it asks the popup.
LEMMA NativeAsksPopup ==
    ASSUME Net, NEW p \in AccessRequests, routes[Native][Popup] # <<>>
    PROVE  nextHop(Native, p.receiver, None) = Background /\ p \in Proper(Native, Background)
<1>1. p.receiver = Popup /\ p.kind = "Request" /\ p.sender = Native
    BY DEF AccessRequests
<1>2. p \in Data(Native, Background)
    BY Nodes DEF Data
<1>3. Popup \notin conn[Native] /\ Announces(Background, Native, Popup)
    BY Nodes DEF Net, Types, ConnOK, Announces
<1>4. Background \in conn[Native] /\ nextHop(Native, Popup, None) = Background
    BY <1>3, Way, Nodes
<1>5. MaySend(Native, Background, p)
    BY <1>1, <1>2, <1>4, Nodes DEF MaySend, Needs, Announces, Closed
<1>6. FineNext(Native, p)
    BY <1>1, Nodes DEF FineNext
<1> QED BY <1>1, <1>2, <1>4, <1>5, <1>6 DEF Proper

\* And what it tells the page.
LEMMA NativeTells ==
    ASSUME Net, NEW p \in FromBackground, routes[Native][Injected] # <<>>,
           routes' = routes, Early' => p.kind # "Response" \/ p.id.at = "OpenNative"
    PROVE  nextHop(Native, p.receiver, None) = Background /\ p \in Proper(Native, Background)
<1>1. p.receiver = Injected /\ p.kind \in {"Response", "Notification"}
    BY DEF FromBackground, PageResponses, Notices
<1>2. p \in Data(Native, Background)
    BY Nodes DEF Data
<1>3. nextHop(Native, Injected, None) = Background /\ Background \in conn[Native]
    BY NativeKnows
<1>4. MaySend(Native, Background, p)
    BY <1>1, <1>2, <1>3, Nodes DEF MaySend, Needs, Announces, Closed
<1>5. FineNext(Native, p)
    BY <1>1, Nodes DEF FineNext
<1> QED BY <1>1, <1>2, <1>3, <1>4, <1>5 DEF Proper

\* And what the page asks.
LEMMA PageAsks ==
    ASSUME Net, NEW p \in PageRequests, routes' = routes,
           p.receiver = Native => routes[Injected][Native] # <<>>,
           p.receiver = Background => routes[Injected][Background] # <<>>,
           Early' => p.id.at \in {"OpenNative", "SubscribeHid"}
    PROVE  nextHop(Injected, p.receiver, None) = Content /\ p \in Proper(Injected, Content)
<1>1. p.receiver \in {Background, Native} /\ p.kind = "Request"
    BY DEF PageRequests
<1>2. p \in Data(Injected, Content)
    BY Nodes DEF Data
<1>3. nextHop(Injected, p.receiver, None) = Content
    <2>1. CASE p.receiver = Native
        BY <2>1, PageKnows
    <2>2. CASE p.receiver = Background
        <3>1. Background \notin conn[Injected] /\ Announces(Content, Injected, Background)
            BY Nodes DEF Net, Types, ConnOK, Announces
        <3> QED BY <2>2, <3>1, Way, Nodes
    <2> QED BY <1>1, <2>1, <2>2
<1>4. Content \in conn[Injected]
    BY DEF Net, Types, ConnOK
<1>5. MaySend(Injected, Content, p)
    BY <1>1, <1>2, <1>4, Nodes DEF MaySend, Needs, Announces, Closed
<1>6. FineNext(Injected, p)
    BY <1>1, Nodes DEF FineNext
<1> QED BY <1>2, <1>3, <1>5, <1>6 DEF Proper

LEMMA FromNative ==
    ASSUME Net, NEW name, Received(Background, Native, "Request", name)
    PROVE  LET p == Packet(Background, Native)
           IN  /\ p \in NativeRequests /\ p.name = name /\ p.sender = Native /\ p.id = 0
               /\ MayTake(Background, Native) /\ Native \in conn[Background] /\ Native # Background
<1> DEFINE p == Packet(Background, Native)
<1>1. p \in Data(Native, Background) /\ p.kind = "Request" /\ MayTake(Background, Native)
    BY DataHead, Nodes DEF Received, Packet, DataKinds, Net, Types
<1>2. p.receiver = Background /\ p.name = name
    BY DEF Received, Packet
<1> HIDE DEF p
<1>3. p \in NativeRequests \cup AccessRequests \cup FromBackground
    BY <1>1, Nodes DEF Data
<1>4. p \in NativeRequests
    BY <1>1, <1>2, <1>3, Nodes DEF AccessRequests, FromBackground, PageResponses, Notices
<1>5. p.sender = Native /\ p.id = 0
    BY <1>4 DEF NativeRequests
<1> QED BY <1>1, <1>2, <1>4, <1>5, Nodes DEF MayTake, p

LEMMA AnswerToNative ==
    ASSUME Net, NEW name, Received(Native, Background, "Response", name)
    PROVE  LET p == Packet(Native, Background)
           IN  p \in NativeResponses /\ MayTake(Native, Background) /\ Native # Background
<1> DEFINE p == Packet(Native, Background)
<1>1. p \in Data(Background, Native) /\ p.kind = "Response" /\ MayTake(Native, Background)
    BY DataHead, Nodes DEF Received, Packet, DataKinds, Net, Types
<1> HIDE DEF p
<1>2. p \in PageRequests \cup NativeResponses \cup Greetings
    BY <1>1, Nodes DEF Data
<1>3. p \in NativeResponses
    BY <1>1, <1>2 DEF PageRequests, Greetings
<1> QED BY <1>1, <1>3, Nodes DEF p

\* What the page asks the native process arrives when it can be answered.
LEMMA RequestToNative ==
    ASSUME Net, FineOK, NEW name, Received(Native, Background, "Request", name)
    PROVE  LET p == Packet(Native, Background)
           IN  /\ p \in PageRequests /\ p.name = name /\ MayTake(Native, Background) /\ Native # Background
               /\ routes[Native][Injected] # <<>>
               /\ Early => p.id.at \in {"OpenNative", "SubscribeHid"}
<1> DEFINE q == chan[Background][Native]
           p == Packet(Native, Background)
<1>1. /\ p \in Data(Background, Native) /\ p.kind = "Request" /\ MayTake(Native, Background)
      /\ q # <<>> /\ p = Head(q) /\ p.name = name
    BY DataHead, Nodes DEF Received, Packet, DataKinds, Net, Types, Arrives
<1>2. q \in Seq(PacketsOn(Background, Native)) /\ \A i \in 1..Len(q) : Fine(Background, q[i])
    BY Nodes DEF Net, Types, ChanOK, FineOK
<1> HIDE DEF p, q
<1>3. p \in PageRequests \cup NativeResponses \cup Greetings
    BY <1>1, Nodes DEF Data
<1>4. p \in PageRequests
    BY <1>1, <1>3 DEF NativeResponses, Greetings
<1>5. p.sender = Injected
    BY <1>4 DEF PageRequests
<1>6. Fine(Background, p)
    <2>1. p = q[1] /\ 1 \in 1..Len(q)
        BY <1>1, <1>2
    <2> QED BY <1>2, <2>1
<1>7. routes[Native][Injected] # <<>>
    <2>1. mayBeForwarderFor(Native, Background, Injected)
        BY <1>5 DEF Received, Packet, p
    <2> QED BY <2>1, Nodes, ContainsShort DEF mayBeForwarderFor
<1> QED BY <1>1, <1>4, <1>5, <1>6, <1>7, Nodes DEF Fine, p

\* What arrives at the page comes from the native process.
LEMMA AtPage ==
    ASSUME Net, FineOK, NEW kind \in {"Response", "Notification"}, Arrives(Injected, Content, kind)
    PROVE  LET p == Packet(Injected, Content)
           IN  /\ p \in FromBackground /\ p.kind = kind /\ MayTake(Injected, Content) /\ Injected # Content
               /\ routes[Injected][Native] # <<>> /\ Fine(Content, p)
<1> DEFINE q == chan[Content][Injected]
           p == Packet(Injected, Content)
<1>1. /\ p \in Data(Content, Injected) /\ p.kind = kind /\ MayTake(Injected, Content)
      /\ q # <<>> /\ p = Head(q)
    BY DataHead, Nodes DEF Packet, DataKinds, Net, Types, Arrives
<1>2. q \in Seq(PacketsOn(Content, Injected)) /\ \A i \in 1..Len(q) : Fine(Content, q[i])
    BY Nodes DEF Net, Types, ChanOK, FineOK
<1>3. routes[Injected][Native] # <<>>
    <2>1. Announces(Content, Injected, Native) /\ Head(q).kind \in Needs(Native)
        BY <1>1, Nodes DEF Announces, Needs
    <2> QED BY <1>1, <2>1, Arrived, Nodes
<1> HIDE DEF p, q
<1>4. p \in FromBackground
    BY <1>1, Nodes DEF Data
<1>5. Fine(Content, p)
    <2>1. p = q[1] /\ 1 \in 1..Len(q)
        BY <1>1, <1>2
    <2> QED BY <1>2, <2>1
<1> QED BY <1>1, <1>3, <1>4, <1>5, Nodes DEF p

LEMMA AppKept ==
    ASSUME IInv, FineOK', Onward, NothingLost', UNCHANGED <<pageVars, storage, popup, nativeVars, usb>>,
           conn'[Native] = conn[Native], conn'[Popup] = conn[Popup],
           Native \in conn[Background] => Native \in conn'[Background]
    PROVE  App'
<1> USE DEF IInv, App, pageVars, nativeVars, usb
<1>1. QueuesOK'
    BY DEF QueuesOK
<1>2. AskedOK'
    BY DEF AskedOK, Onward, Early
<1>3. PopupOK' /\ PlacesOK'
    BY DEF PopupOK, PlacesOK
<1> QED BY <1>1, <1>2, <1>3

-----------------------------------------------------------------------------
(* A packet for another node.                                                *)

LEMMA HeadFine ==
    ASSUME Net, FineOK, NEW x \in Address, NEW y \in Address, chan[x][y] # <<>>
    PROVE  Fine(x, Head(chan[x][y]))
<1> DEFINE q == chan[x][y]
<1>1. q \in Seq(PacketsOn(x, y)) /\ \A i \in 1..Len(q) : Fine(x, q[i])
    BY DEF Net, Types, ChanOK, FineOK
<1> HIDE DEF q
<1>2. q # <<>> => Head(q) = q[1] /\ 1 \in 1..Len(q)
    BY <1>1
<1> QED BY <1>1, <1>2 DEF q

Passed(x, n) ==
    LET p == Head(chan[n][x])
    IN  p.kind = "Response" \/ mayBeForwarderFor(x, n, p.sender)

LEMMA PassedOn ==
    ASSUME IInv, NEW x \in Address, NEW n \in Address, Forward(x, n), UNCHANGED usb, x # Native,
           NEW h \in Address, nextHop(x, Head(chan[n][x]).receiver, n) = h,
           MaySend(x, h, Head(chan[n][x])), Passed(x, n)
    PROVE  IInv'
<1> DEFINE p == Head(chan[n][x])
<1>1. MayTake(x, n) /\ p \in Data(n, x) /\ x # n
    <2>1. PICK kind \in {"Request", "Response", "Notification"} : Arrives(x, n, kind)
        BY DEF Forward
    <2>2. x \notin conn[x]
        BY Nodes DEF IInv, Net, Types, ConnOK
    <2> QED BY <2>1, <2>2, DataHead DEF DataKinds, IInv, Net, Types, MayTake
<1>2. Emit(x, n, Routed(x, p, n)) /\ lost' = lost /\ UNCHANGED <<conn, routes, pageVars, storage, popup, nativeVars>>
    <2>1. h # None
        BY Nodes
    <2>2. p.receiver # x
        BY Zenon DEF Forward, Passed
    <2> QED BY <2>1 DEF Forward, Passed
<1>3. Onward
    BY <1>2 DEF Onward, Early, nativeVars
<1>4. Fine(n, p)
    BY <1>1, HeadFine DEF IInv, App, MayTake
<1>5. FineNext(n, p)
    BY <1>3, <1>4, FineStays
<1>6. FineNext(x, p)
    BY <1>5 DEF FineNext
<1>7. p \in Proper(x, h)
    BY <1>6 DEF Proper, MaySend
<1> HIDE DEF p
<1>8. Says(x, Routed(x, p, n))
    BY <1>7, RoutedSays DEF p
<1>9. Net' /\ FineOK'
    BY <1>1, <1>2, <1>3, <1>8, SayingStep DEF IInv, App
<1>10. NothingLost'
    BY <1>2 DEF IInv, App, NothingLost
<1>11. App'
    BY <1>2, <1>3, <1>9, <1>10, AppKept
<1> QED BY <1>9, <1>11 DEF IInv

\* What a packet on its way may be, and how it comes to be passed on.
LEMMA Underway ==
    ASSUME IInv, NEW x \in Address, NEW n \in Address, Forward(x, n)
    PROVE  LET p == Head(chan[n][x])
           IN  /\ p \in Data(n, x) /\ p.kind \in {"Request", "Response", "Notification"}
               /\ Fine(n, p) /\ n \in conn[x] /\ MayTake(x, n)
               /\ p.receiver # x \/ ~Passed(x, n)
<1> DEFINE p == Head(chan[n][x])
<1>1. PICK kind \in {"Request", "Response", "Notification"} : Arrives(x, n, kind)
    BY DEF Forward
<1>2. p \in Data(n, x) /\ p.kind = kind /\ n \in conn[x] /\ MayTake(x, n)
    BY <1>1, DataHead DEF DataKinds, IInv, Net, Types
<1>3. Fine(n, p)
    BY <1>2, HeadFine DEF IInv, App, MayTake
<1>4. p.receiver # x \/ ~Passed(x, n)
    BY Zenon DEF Forward, Passed
<1> QED BY <1>2, <1>3, <1>4

\* A packet of s that has come from n, who announces s, is not dropped.
LEMMA SenderKnown ==
    ASSUME IInv, NEW s \in {Injected, Native}, NEW n \in Address \ {Popup}, NEW x \in Address \ {Popup},
           Forward(x, n), Announces(n, x, s), Head(chan[n][x]).kind \in Needs(s)
    PROVE  /\ routes[x][s] # <<>>
           /\ Head(chan[n][x]).sender = s => Passed(x, n)
<1>1. chan[n][x] # <<>>
    BY Underway DEF MayTake
<1>2. Contains(routes[x][s], n) /\ routes[x][s] # <<>>
    BY <1>1, Arrived DEF IInv
<1> QED BY <1>2 DEF Passed, mayBeForwarderFor

LEMMA Neighbours ==
    ASSUME ConnOK
    PROVE  /\ conn[Injected] = {Content} /\ conn[Content] \subseteq {Background, Injected}
           /\ conn[Background] \subseteq {Content, Native, Popup}
           /\ conn[Native] \subseteq {Background} /\ conn[Popup] \subseteq {Background}
BY DEF ConnOK

\* x may pass on the packet of n to h.
Hop(x, n, h) ==
    /\ nextHop(x, Head(chan[n][x]).receiver, n) = h
    /\ MaySend(x, h, Head(chan[n][x])) /\ Passed(x, n)

LEMMA HopIInv ==
    ASSUME IInv, NEW x \in Address, NEW n \in Address, Forward(x, n), UNCHANGED usb, x # Native,
           NEW h \in Address, Hop(x, n, h)
    PROVE  IInv'
BY PassedOn DEF Hop

LEMMA ContentHop ==
    ASSUME IInv, NEW n \in Address, Forward(Content, n)
    PROVE  \/ n = Injected /\ Hop(Content, n, Background) /\ Head(chan[n][Content]) \in PageRequests
           \/ n = Background /\ Hop(Content, n, Injected) /\ Head(chan[n][Content]) \in FromBackground
<1> DEFINE p == Head(chan[n][Content])
<1>1. /\ p \in Data(n, Content) /\ Fine(n, p) /\ n \in conn[Content] /\ n \in {Background, Injected}
    BY Underway, Neighbours, Nodes DEF IInv, Net, Types
<1>2. conn[Content] = {Background, Injected} /\ routes[Content][Injected] = <<Direct>>
    <2>1. conn[Content] = {Background, Injected}
        BY <1>1 DEF IInv, Net, Types, ConnOK
    <2>2. RouteOK(Content, Injected)
        BY Nodes DEF IInv, Net, Types, RoutesOK
    <2> QED BY <2>1, <2>2, Nodes DEF RouteOK
<1> HIDE DEF p
<1>3. CASE n = Injected
    <2>1. p \in PageRequests
        BY <1>1, <1>3, Nodes DEF Data
    <2>2. p.receiver \in {Background, Native} /\ p.kind = "Request" /\ p.sender = Injected
        BY <2>1 DEF PageRequests
    <2>3. nextHop(Content, p.receiver, n) = Background
        <3>1. CASE p.receiver = Background
            BY <1>2, <3>1, NextHop
        <3>2. CASE p.receiver = Native
            <4>1. routes[Content][Native] # <<>>
                BY <1>1, <2>2, <3>2, PageKnows DEF IInv, Fine
            <4>2. Announces(Background, Content, Native) /\ Native \notin conn[Content]
                BY <1>2, Nodes DEF Announces
            <4> QED BY <1>3, <3>2, <4>1, <4>2, Way, Nodes DEF IInv
        <3> QED BY <2>2, <3>1, <3>2
    <2>4. MaySend(Content, Background, p)
        <3>1. p \in Data(Content, Background)
            BY <2>1, Nodes DEF Data
        <3>2. \A s : Announces(Content, Background, s) => routes[Content][s] # <<>>
            BY <1>2, Nodes DEF Announces
        <3> QED BY <1>2, <2>2, <3>1, <3>2, Nodes DEF MaySend, Closed
    <2>5. Passed(Content, n)
        BY <1>3, <2>2 DEF Passed, mayBeForwarderFor, p
    <2>6. Hop(Content, n, Background)
        BY <2>3, <2>4, <2>5 DEF Hop, p
    <2> QED BY <1>3, <2>1, <2>6 DEF p
<1>4. CASE n = Background
    <2>1. p \in FromBackground
        BY <1>1, <1>4, Nodes DEF Data
    <2>2. p.receiver = Injected /\ p.kind \in {"Response", "Notification"} /\ (p.kind = "Notification" => p.sender = Native)
        BY <2>1 DEF FromBackground, PageResponses, Notices
    <2>3. nextHop(Content, p.receiver, n) = Injected
        BY <1>2, <2>2, NextHop
    <2>4. Announces(n, Content, Native) /\ p.kind \in Needs(Native) /\ Content # Popup /\ n # Popup
        BY <1>4, <2>2, Nodes DEF Announces, Needs
    <2>5. routes[Content][Native] # <<>> /\ (p.sender = Native => Passed(Content, n))
        BY <2>4, SenderKnown, Nodes DEF p
    <2>6. Passed(Content, n)
        BY <2>2, <2>5 DEF Passed, p
    <2>7. MaySend(Content, Injected, p)
        <3>1. p \in Data(Content, Injected)
            BY <2>1, Nodes DEF Data
        <3> QED BY <1>2, <2>2, <2>5, <3>1, Nodes DEF MaySend, Needs, Announces, Closed
    <2> QED BY <1>4, <2>1, <2>3, <2>6, <2>7 DEF Hop, p
<1> QED BY <1>1, <1>3, <1>4

LEMMA AtContent ==
    ASSUME IInv, NEW n \in Address, Forward(Content, n), UNCHANGED usb
    PROVE  IInv'
BY ContentHop, HopIInv, Nodes

\* Nothing is passed on, or dropped, where it ends.
LEMMA NotAtTheEnds ==
    ASSUME IInv, NEW n \in Address
    PROVE  ~Forward(Injected, n) /\ ~Forward(Native, n)
<1>1. ASSUME Forward(Injected, n) PROVE FALSE
    <2> DEFINE p == Head(chan[n][Injected])
    <2>1. n = Content /\ p \in Data(n, Injected) /\ (p.receiver # Injected \/ ~Passed(Injected, n))
        BY <1>1, Underway, Neighbours, Nodes DEF IInv, Net, Types
    <2> HIDE DEF p
    <2>2. p \in FromBackground
        BY <2>1, Nodes DEF Data
    <2>3. p.receiver = Injected /\ p.kind \in {"Response", "Notification"} /\ (p.kind = "Notification" => p.sender = Native)
        BY <2>2 DEF FromBackground, PageResponses, Notices
    <2>4. Announces(n, Injected, Native) /\ p.kind \in Needs(Native) /\ n \in Address \ {Popup} /\ Injected \in Address \ {Popup}
        BY <2>1, <2>3, Nodes DEF Announces, Needs
    <2>5. p.sender = Native => Passed(Injected, n)
        BY <1>1, <2>4, SenderKnown DEF p
    <2> QED BY <2>1, <2>3, <2>5 DEF Passed, p
<1>2. ASSUME Forward(Native, n) PROVE FALSE
    <2> DEFINE p == Head(chan[n][Native])
    <2>1. n = Background /\ p \in Data(n, Native) /\ (p.receiver # Native \/ ~Passed(Native, n))
        BY <1>2, Underway, Neighbours, Nodes DEF IInv, Net, Types
    <2> HIDE DEF p
    <2>2. p \in {q \in PageRequests : q.receiver = Native} \cup NativeResponses \cup Greetings
        BY <2>1, Nodes DEF Data
    <2>3. /\ p.receiver = Native /\ p.kind \in {"Request", "Response", "Notification"}
          /\ p.kind = "Request" => p.sender = Injected
          /\ p.kind = "Notification" => p.sender = Background
        BY <2>2 DEF PageRequests, NativeResponses, Greetings
    <2>4. CASE p.kind = "Request"
        <3>1. Announces(n, Native, Injected) /\ p.kind \in Needs(Injected) /\ n \in Address \ {Popup} /\ Native \in Address \ {Popup}
            BY <2>1, <2>4, Nodes DEF Announces, Needs
        <3>2. p.sender = Injected => Passed(Native, n)
            BY <1>2, <3>1, SenderKnown DEF p
        <3> QED BY <2>1, <2>3, <2>4, <3>2
    <2>5. CASE p.kind # "Request"
        BY <2>1, <2>3, <2>5 DEF Passed, mayBeForwarderFor, p
    <2> QED BY <2>4, <2>5
<1> QED BY <1>1, <1>2

\* A request for access that has no way on is answered with an error.
AccessFailed == Response("RequestAccess", Native, 0, FALSE, FALSE)

LEMMA AccessStuckIs ==
    ASSUME IInv, Forward(Background, Native),
           Head(chan[Native][Background]) \in AccessRequests, Popup \notin conn[Background]
    PROVE  /\ Emit(Background, Native, Routed(Background, AccessFailed, None))
           /\ lost' = lost \cup {<<"Request", "RequestAccess">>}
           /\ UNCHANGED <<conn, routes, pageVars, storage, popup, nativeVars>>
           /\ MayTake(Background, Native) /\ Native \in conn[Background]
<1> DEFINE p == Head(chan[Native][Background])
<1>1. /\ p.kind = "Request" /\ p.name = "RequestAccess" /\ p.sender = Native /\ p.id = 0 /\ p.receiver = Popup
    BY DEF AccessRequests
<1>2. MayTake(Background, Native) /\ Native \in conn[Background]
    BY Underway, Nodes
<1>3. Passed(Background, Native)
    BY <1>1 DEF Passed, mayBeForwarderFor
<1>4. nextHop(Background, Popup, Native) = None
    BY NotYetAdded, NextHop DEF IInv
<1>5. /\ Emit(Background, Native, Routed(Background, AccessFailed, None))
      /\ lost' = lost \cup {<<"Request", "RequestAccess">>}
      /\ UNCHANGED <<conn, routes, pageVars, storage, popup, nativeVars>>
    BY <1>1, <1>3, <1>4, Nodes DEF Forward, Passed, AccessFailed
<1> QED BY <1>2, <1>5

LEMMA AccessStuck ==
    ASSUME IInv, Forward(Background, Native), UNCHANGED usb,
           Head(chan[Native][Background]) \in AccessRequests, Popup \notin conn[Background]
    PROVE  IInv'
<1>1. MayTake(Background, Native) /\ Native \in conn[Background]
    BY AccessStuckIs
<1>2. /\ Emit(Background, Native, Routed(Background, AccessFailed, None))
      /\ lost' = lost \cup {<<"Request", "RequestAccess">>}
      /\ UNCHANGED <<conn, routes, pageVars, storage, popup, nativeVars>>
    BY AccessStuckIs
<1>3. AccessFailed \in NativeResponses
    BY DEF NativeResponses, Response, AccessFailed
<1>4. Says(Background, Routed(Background, AccessFailed, None))
    BY <1>1, <1>3, BackgroundAnswers, RoutedSays, Nodes DEF IInv
<1>5. Onward
    BY <1>2 DEF Onward, Early, nativeVars
<1>6. Net' /\ FineOK'
    BY <1>1, <1>2, <1>4, <1>5, SayingStep, Nodes DEF IInv, App
<1>7. NothingLost'
    BY <1>2 DEF IInv, App, NothingLost
<1>8. App'
    BY <1>2, <1>5, <1>6, <1>7, AppKept
<1> QED BY <1>6, <1>8 DEF IInv

LEMMA BackgroundHop ==
    ASSUME IInv, NEW n \in Address, Forward(Background, n)
    PROVE  LET p == Head(chan[n][Background])
           IN  \/ n = Content /\ p \in PageRequests /\ Hop(Background, n, Native)
               \/ n = Native /\ p \in AccessRequests /\ Popup \notin conn[Background]
               \/ n = Native /\ p \in AccessRequests /\ Hop(Background, n, Popup)
               \/ n = Native /\ p \in FromBackground /\ Hop(Background, n, Content)
               \/ n = Popup /\ p \in NativeResponses /\ Hop(Background, n, Native)
<1> DEFINE p == Head(chan[n][Background])
<1>1. /\ p \in Data(n, Background) /\ Fine(n, p) /\ n \in conn[Background] /\ n \in {Content, Native, Popup}
      /\ p.kind \in {"Request", "Response", "Notification"}
      /\ p.receiver # Background \/ ~Passed(Background, n)
    BY Underway, Neighbours, Nodes DEF IInv, Net, Types
<1> HIDE DEF p
<1>2. CASE n = Content
    <2>1. p \in PageRequests
        BY <1>1, <1>2, Nodes DEF Data
    <2>2. p.receiver \in {Background, Native} /\ p.kind = "Request" /\ p.sender = Injected
        BY <2>1 DEF PageRequests
    <2>3. Announces(n, Background, Injected) /\ p.kind \in Needs(Injected) /\ n \in Address \ {Popup} /\ Background \in Address \ {Popup}
        BY <1>2, <2>2, Nodes DEF Announces, Needs
    <2>4. routes[Background][Injected] # <<>> /\ (p.sender = Injected => Passed(Background, n))
        BY <2>3, SenderKnown DEF p
    <2>5. p.receiver = Native
        BY <1>1, <2>2, <2>4
    <2>6. Native \in conn[Background]
        BY <1>1, <2>2, <2>5, PageKnows DEF IInv, Fine
    <2>7. nextHop(Background, p.receiver, n) = Native
        BY <2>5, <2>6, NextHop
    <2>8. MaySend(Background, Native, p)
        <3>1. p \in Data(Background, Native)
            BY <2>1, <2>5, Nodes DEF Data
        <3> QED BY <2>2, <2>4, <2>6, <3>1, Nodes DEF MaySend, Needs, Announces, Closed
    <2> QED BY <1>2, <2>1, <2>2, <2>4, <2>7, <2>8 DEF Hop, p
<1>3. CASE n = Native
    <2>1. p \in NativeRequests \cup AccessRequests \cup FromBackground
        BY <1>1, <1>3, Nodes DEF Data
    <2>2. CASE p \in NativeRequests
        <3>1. p.receiver = Background /\ p.sender = Native
            BY <2>2 DEF NativeRequests
        <3> QED BY <1>1, <1>3, <3>1 DEF Passed, mayBeForwarderFor, p
    <2>3. CASE p \in AccessRequests
        <3>1. p.receiver = Popup /\ p.sender = Native /\ p.kind = "Request"
            BY <2>3 DEF AccessRequests
        <3>2. CASE Popup \in conn[Background]
            <4>1. Passed(Background, n)
                BY <1>3, <3>1 DEF Passed, mayBeForwarderFor, p
            <4>2. nextHop(Background, p.receiver, n) = Popup
                BY <3>1, <3>2, NextHop
            <4>3. MaySend(Background, Popup, p)
                <5>1. p \in Data(Background, Popup)
                    BY <2>3, Nodes DEF Data
                <5> QED BY <3>1, <3>2, <5>1, Nodes DEF MaySend, Closed
            <4> QED BY <1>3, <2>3, <4>1, <4>2, <4>3 DEF Hop, p
        <3>3. CASE Popup \notin conn[Background]
            BY <1>3, <2>3, <3>3 DEF p
        <3> QED BY <3>2, <3>3
    <2>4. CASE p \in FromBackground
        <3>1. /\ p.receiver = Injected /\ p.kind \in {"Response", "Notification"}
              /\ p.kind = "Notification" => p.sender = Native
            BY <2>4 DEF FromBackground, PageResponses, Notices
        <3>2. Passed(Background, n)
            BY <1>3, <3>1 DEF Passed, mayBeForwarderFor, p
        <3>3. routes[Native][Injected] # <<>>
            BY <1>1, <1>3, <3>1 DEF Fine
        <3>4. nextHop(Background, p.receiver, n) = Content
            BY <1>3, <3>1, <3>3, NativeKnows, Nodes DEF IInv
        <3>5. routes[Background][Native] # <<>> /\ Content \in conn[Background]
            <4>1. RouteOK(Background, Native)
                BY Nodes DEF IInv, Net, Types, RoutesOK
            <4> QED BY <1>1, <1>3, <4>1, Nodes DEF RouteOK, IInv, Net, Types, ConnOK
        <3>6. MaySend(Background, Content, p)
            <4>1. p \in Data(Background, Content)
                BY <2>4, Nodes DEF Data
            <4> QED BY <3>1, <3>5, <4>1, Nodes DEF MaySend, Needs, Announces, Closed
        <3> QED BY <1>3, <2>4, <3>2, <3>4, <3>6 DEF Hop, p
    <2> QED BY <2>1, <2>2, <2>3, <2>4
<1>4. CASE n = Popup
    <2>1. p \in NativeResponses \cup {Closed}
        BY <1>1, <1>4, Nodes DEF Data
    <2>2. p \in NativeResponses
        BY <1>1, <2>1 DEF Closed
    <2>3. p.kind = "Response" /\ p.receiver = Native
        BY <2>2 DEF NativeResponses
    <2>4. Native \in conn[Background]
        BY <1>1, <1>4, Nodes DEF IInv, Net, Types, ConnOK
    <2>5. nextHop(Background, p.receiver, n) = Native /\ MaySend(Background, Native, p)
        BY <2>2, <2>3, <2>4, NextHop, MaySendToNative DEF IInv
    <2>6. Passed(Background, n)
        BY <2>3 DEF Passed, p
    <2> QED BY <1>4, <2>2, <2>5, <2>6 DEF Hop, p
<1> QED BY <1>1, <1>2, <1>3, <1>4

LEMMA AtBackground ==
    ASSUME IInv, NEW n \in Address, Forward(Background, n), UNCHANGED usb
    PROVE  IInv'
<1>1. CASE n = Native /\ Head(chan[n][Background]) \in AccessRequests /\ Popup \notin conn[Background]
    BY <1>1, AccessStuck
<1>2. CASE \E h \in {Native, Popup, Content} : Hop(Background, n, h)
    BY <1>2, HopIInv, Nodes
<1> QED BY <1>1, <1>2, BackgroundHop

\* A popup that does not know the native process yet drops its request.
LEMMA AtPopup ==
    ASSUME IInv, NEW n \in Address, Forward(Popup, n), UNCHANGED usb
    PROVE  IInv'
<1> DEFINE p == Head(chan[n][Popup])
<1>1. /\ p \in Data(n, Popup) /\ n = Background /\ MayTake(Popup, n)
      /\ p.receiver # Popup \/ ~Passed(Popup, n)
    BY Underway, Neighbours, Nodes DEF IInv, Net, Types
<1>2. p \in AccessRequests
    BY <1>1, Nodes DEF Data
<1>3. p.receiver = Popup /\ p.kind = "Request" /\ p.name = "RequestAccess"
    BY <1>2 DEF AccessRequests
<1>4. ~mayBeForwarderFor(Popup, n, p.sender)
    BY <1>1, <1>3 DEF Passed
<1>5. /\ Emit(Popup, n, Nothing)
      /\ lost' = lost \cup {<<"Request", "RequestAccess">>}
      /\ UNCHANGED <<conn, routes, pageVars, storage, popup, nativeVars>>
    BY <1>3, <1>4, Nodes DEF Forward
<1>6. Onward
    BY <1>5 DEF Onward, Early, nativeVars
<1>7. Net' /\ FineOK'
    BY <1>1, <1>5, <1>6, SaysNothing, SayingStep, Nodes DEF IInv, App
<1>8. NothingLost'
    BY <1>5 DEF IInv, App, NothingLost
<1>9. App'
    BY <1>5, <1>6, <1>7, <1>8, AppKept
<1> QED BY <1>7, <1>9 DEF IInv

LEMMA ForwardIInv ==
    ASSUME IInv, NEW x \in Address, NEW n \in Address, Forward(x, n), UNCHANGED usb
    PROVE  IInv'
BY AtContent, AtBackground, AtPopup, NotAtTheEnds, Nodes

-----------------------------------------------------------------------------
(* The other steps that change a table.                                      *)

LEMMA FineNone == ASSUME NEW z PROVE FineOut(z, <<>>) /\ IsSequence(<<>>)
<1>1. <<>> \in Seq({})
    OBVIOUS
<1>2. IsSequence(<<>>)
    BY <1>1, Zenon DEF IsSequence
<1> QED BY <1>2 DEF FineOut

LEMMA FineOne ==
    ASSUME NEW z, NEW p, FineNext(z, p)
    PROVE  FineOut(z, <<p>>) /\ IsSequence(<<p>>)
<1>1. <<p>> \in Seq({p})
    OBVIOUS
<1>2. IsSequence(<<p>>)
    BY <1>1, Zenon DEF IsSequence
<1> QED BY <1>2 DEF FineOut

\* What a node announces.
Announcing(o) == IsSequence(o) /\ \A i \in 1..Len(o) : o[i].kind \in {"AddForwarded", "RemoveForwarded"}

LEMMA AnnouncingIs ==
    /\ Announcing(<<>>)
    /\ \A p : p.kind \in {"AddForwarded", "RemoveForwarded"} => Announcing(<<p>>)
    /\ \A z, o : Announcing(o) => FineOut(z, o) /\ IsSequence(o)
<1>1. Announcing(<<>>)
    BY FineNone DEF Announcing
<1>2. ASSUME NEW p, p.kind \in {"AddForwarded", "RemoveForwarded"} PROVE Announcing(<<p>>)
    <2>1. <<p>> \in Seq({p})
        OBVIOUS
    <2>2. IsSequence(<<p>>)
        BY <2>1, Zenon DEF IsSequence
    <2> QED BY <1>2, <2>2 DEF Announcing
<1>3. ASSUME NEW z, NEW o, Announcing(o) PROVE FineOut(z, o) /\ IsSequence(o)
    <2>1. \A i \in 1..Len(o) : o[i].kind \notin {"Request", "Response", "Notification"}
        BY <1>3 DEF Announcing
    <2> QED BY <1>3, <2>1, FineElse DEF Announcing, FineOut
<1> QED BY <1>1, <1>2, <1>3

LEMMA ToldAnnounces ==
    ASSUME NEW C, NEW e, NEW n \in Address,
           e.kind \in {"ConnectionAdded", "ConnectionRemoved", "ViaListSeconded", "ViaListUnseconded", "NoEvent"}
    PROVE  Announcing(Told(C, e)[n])
<1> DEFINE p == NotificationFor(n, e)
<1>1. Told(C, e)[n] = IF n \in C /\ p # NoMessage THEN <<p>> ELSE <<>>
    BY DEF Told
<1>2. p = NoMessage \/ p.kind \in {"AddForwarded", "RemoveForwarded"}
    BY DEF NotificationFor, AddForwarded, RemoveForwarded
<1> HIDE DEF p
<1> QED BY <1>1, <1>2, AnnouncingIs

LEMMA ToldOfIncAnnounces ==
    ASSUME NEW C, NEW r, NEW a, NEW v, NEW n \in Address
    PROVE  Announcing(ToldOfInc(C, r, a, v)[n])
<1> DEFINE e == IncEvent(r, a, v)
<1>1. e.kind \in {"ConnectionAdded", "ViaListSeconded", "NoEvent"}
    BY DEF IncEvent, ConnectionAdded, ViaListSeconded, NoEvent
<1>2. Nothing[n] = <<>>
    BY Outs
<1>3. ToldOfInc(C, r, a, v)[n] \in {<<>>, Told(C, e)[n]}
    BY <1>2 DEF ToldOfInc
<1> HIDE DEF e
<1>4. e.kind \in {"ConnectionAdded", "ConnectionRemoved", "ViaListSeconded", "ViaListUnseconded", "NoEvent"}
    BY <1>1
<1>5. Announcing(Told(C, e)[n])
    BY <1>4, ToldAnnounces
<1> QED BY <1>3, <1>5, AnnouncingIs

LEMMA ToldOfDecAnnounces ==
    ASSUME NEW C, NEW r, NEW a, NEW v, NEW n \in Address
    PROVE  Announcing(ToldOfDec(C, r, a, v)[n])
<1> DEFINE e == DecEvent(r, a, v)
<1>1. e.kind \in {"ConnectionRemoved", "ViaListUnseconded", "NoEvent"}
    BY DEF DecEvent, ConnectionRemoved, ViaListUnseconded, NoEvent
<1>2. Nothing[n] = <<>>
    BY Outs
<1>3. ToldOfDec(C, r, a, v)[n] \in {<<>>, Told(C, e)[n]}
    BY <1>2 DEF ToldOfDec
<1> HIDE DEF e
<1>4. e.kind \in {"ConnectionAdded", "ConnectionRemoved", "ViaListSeconded", "ViaListUnseconded", "NoEvent"}
    BY <1>1
<1>5. Announcing(Told(C, e)[n])
    BY <1>4, ToldAnnounces
<1> QED BY <1>3, <1>5, AnnouncingIs

LEMMA IncKeeps ==
    ASSUME RoutesOK, NEW x \in Address, NEW a \in Address, NEW v
    PROVE  \A b \in Address : routes[x][b] # <<>> => inc(routes[x], a, v)[b] # <<>>
<1> DEFINE r == routes[x]
           r1 == inc(r, a, v)
<1>1. r = [b \in Address |-> r[b]]
    BY TableAt
<1> HIDE DEF r
<1>2. \A b \in Address : b # a \/ Contains(r[a], v) => r1[b] = r[b]
    BY <1>1, IncIs
<1>3. ~Contains(r[a], v) => r1[a] = Append(r[a], v)
    BY <1>1, IncIs, ZenonT(40)
<1> HIDE DEF r1
<1>4. \A s : Append(s, v) # <<>>
    OBVIOUS
<1> QED BY <1>2, <1>3, <1>4 DEF r, r1

LEMMA OnAddForwardedIInv ==
    ASSUME IInv, NEW x \in Address, NEW n \in Address, OnAddForwarded(x, n), UNCHANGED usb
    PROVE  IInv'
<1> DEFINE a == Head(chan[n][x]).to
           out == ToldOfInc(conn[x], routes[x], a, n)
<1>1. Net'
    BY OnAddForwardedNet DEF IInv
<1>2. /\ Emit(x, n, out) /\ routes' = [routes EXCEPT ![x] = inc(@, a, n)]
      /\ UNCHANGED <<conn, lost, pageVars, storage, popup, nativeVars>> /\ chan[n][x] # <<>> /\ n \in conn[x]
    BY DEF OnAddForwarded, Arrives
<1>3. a \in Address
    BY Announced DEF OnAddForwarded, IInv, Net, Types
<1>4. x # n
    BY <1>2, Neighbours, Nodes DEF IInv, Net, Types
<1>5. \A y \in Address : FineOut(x, out[y]) /\ IsSequence(out[y])
    BY ToldOfIncAnnounces, AnnouncingIs
<1> HIDE DEF out, a
<1>6. Onward
    <2> DEFINE r == routes[x]
               r1 == inc(r, a, n)
    <2>1. \A b \in Address : r[b] # <<>> => r1[b] # <<>>
        BY <1>3, IncKeeps DEF IInv, Net, Types
    <2>2. \A z \in Address : routes'[z] = IF z = x THEN r1 ELSE routes[z]
        BY <1>2 DEF IInv, Net, Types, RoutesOK
    <2> HIDE DEF r1
    <2>3. \A z, b \in Address : routes[z][b] # <<>> => routes'[z][b] # <<>>
        BY <2>1, <2>2
    <2> QED BY <1>2, <2>3, Nodes DEF Onward, Early, nativeVars
<1>7. FineOK'
    BY <1>2, <1>4, <1>5, <1>6, FineStep DEF IInv, App
<1>8. NothingLost'
    BY <1>2 DEF IInv, App, NothingLost
<1>9. App'
    BY <1>2, <1>6, <1>7, <1>8, AppKept
<1> QED BY <1>1, <1>9 DEF IInv

LEMMA OnRemoveForwardedIInv ==
    ASSUME IInv, NEW x \in Address, NEW n \in Address, OnRemoveForwarded(x, n), UNCHANGED usb
    PROVE  IInv'
<1> DEFINE a == Head(chan[n][x]).to
           out == IF x = Native THEN Nothing ELSE ToldOfDec(conn[x], routes[x], a, n)
<1>1. Net'
    BY OnRemoveForwardedNet DEF IInv
<1>2. /\ Emit(x, n, out) /\ routes' = IF x = Native THEN routes ELSE [routes EXCEPT ![x] = dec(@, a, n)]
      /\ UNCHANGED <<conn, lost, pageVars, storage, popup, nativeVars>> /\ chan[n][x] # <<>> /\ n \in conn[x]
    BY DEF OnRemoveForwarded, Arrives
<1>3. a = Popup
    BY Announced DEF OnRemoveForwarded, IInv, Net, Types
<1>4. x # n
    BY <1>2, Neighbours, Nodes DEF IInv, Net, Types
<1>5. ASSUME NEW y \in Address PROVE FineOut(x, out[y]) /\ IsSequence(out[y])
    <2>1. CASE x = Native
        BY <2>1, Outs, FineNone
    <2>2. CASE x # Native
        BY <2>2, ToldOfDecAnnounces, AnnouncingIs
    <2> QED BY <2>1, <2>2
<1> HIDE DEF out, a
<1>6. Onward
    <2>1. ASSUME NEW b \in Address, b # Popup PROVE dec(routes[x], a, n)[b] = routes[x][b]
        <3>1. routes[x] = [c \in Address |-> routes[x][c]]
            BY TableAt DEF IInv, Net, Types
        <3> QED BY <1>3, <2>1, <3>1 DEF dec
    <2>2. \A z \in Address : routes'[z] = IF z = x /\ x # Native THEN dec(routes[x], a, n) ELSE routes[z]
        BY <1>2 DEF IInv, Net, Types, RoutesOK
    <2>3. \A z, b \in Address : b # Popup => routes'[z][b] = routes[z][b]
        BY <2>1, <2>2
    <2> QED BY <1>2, <2>3, Nodes DEF Onward, Early, nativeVars
<1>7. FineOK'
    BY <1>2, <1>4, <1>5, <1>6, FineStep DEF IInv, App
<1>8. NothingLost'
    BY <1>2 DEF IInv, App, NothingLost
<1>9. App'
    BY <1>2, <1>6, <1>7, <1>8, AppKept
<1> QED BY <1>1, <1>9 DEF IInv

LEMMA AddedAnnounces ==
    ASSUME NEW C, NEW r, NEW n \in Address, NEW y \in Address
    PROVE  Announcing(AddedDirect(C, r, n)[y])
<1> DEFINE l == List(r, n)[y]
           t == ToldOfInc(C \cup {n}, r, n, Direct)[y]
           S == {AddForwarded(a, LinkRtt) : a \in Address}
<1>1. l \in Seq(S)
    <2>1. CASE y # n
        <3>1. l = <<>>
            BY <2>1, ListIs
        <3> HIDE DEF l, S
        <3> QED BY <3>1
    <2>2. CASE y = n
        <3> DEFINE T == {AddForwarded(a, LinkRtt) : a \in {b \in Address : r[b] # <<>> /\ r[b][1] # n}}
        <3>1. l \in Seq(T)
            BY <2>2, ListIs
        <3>2. T \subseteq S
            OBVIOUS
        <3> HIDE DEF S, T, l
        <3> QED BY <3>1, <3>2
    <2> QED BY <2>1, <2>2
<1>2. \A p \in S : p.kind = "AddForwarded"
    BY DEF AddForwarded
<1>3. AddedDirect(C, r, n)[y] \in {<<>>, Joined(l, t)}
    <2>1. (List(r, n) ++ ToldOfInc(C \cup {n}, r, n, Direct))[y] = Joined(l, t) /\ Nothing[y] = <<>>
        BY Outs
    <2> QED BY <2>1 DEF AddedDirect
<1>4. Announcing(t)
    BY ToldOfIncAnnounces
<1> HIDE DEF l, t, S
<1>5. PICK T : t \in Seq(T)
    BY <1>4 DEF Announcing, IsSequence
<1>6. l \in Seq(S \cup T) /\ t \in Seq(S \cup T)
    BY <1>1, <1>5
<1>7. IsSequence(Joined(l, t))
    <2>1. Joined(l, t) \in Seq(S \cup T)
        BY <1>6, JoinedIs
    <2> QED BY <2>1, Zenon DEF IsSequence
<1>8. \A i \in 1..Len(l) : l[i].kind \in {"AddForwarded", "RemoveForwarded"}
    <2>1. \A i \in 1..Len(l) : l[i] \in S
        BY <1>1
    <2> QED BY <1>2, <2>1
<1>9. \A i \in 1..Len(Joined(l, t)) : Joined(l, t)[i].kind \in {"AddForwarded", "RemoveForwarded"}
    <2> SUFFICES ASSUME NEW i \in 1..Len(Joined(l, t))
                 PROVE  Joined(l, t)[i].kind \in {"AddForwarded", "RemoveForwarded"}
        OBVIOUS
    <2>1. /\ Len(l) \in Nat
          /\ i \in 1..Len(l) => Joined(l, t)[i] = l[i]
          /\ i > Len(l) => i - Len(l) \in 1..Len(t) /\ Joined(l, t)[i] = t[i - Len(l)]
        BY <1>6, JoinedElements
    <2>2. CASE i \in 1..Len(l)
        BY <1>8, <2>1, <2>2
    <2>3. CASE i > Len(l)
        BY <1>4, <2>1, <2>3 DEF Announcing
    <2> QED BY <2>1, <2>2, <2>3
<1> QED BY <1>3, <1>7, <1>9, AnnouncingIs DEF Announcing

LEMMA FineBoth ==
    ASSUME NEW z, NEW o, NEW q, NEW y \in Address, FineOut(z, o[y]), IsSequence(o[y]),
           FineOut(z, q[y]), IsSequence(q[y])
    PROVE  FineOut(z, (o ++ q)[y]) /\ IsSequence((o ++ q)[y])
<1> DEFINE s == o[y]
           t == q[y]
<1>1. (o ++ q)[y] = Joined(s, t) /\ FineOut(z, s) /\ FineOut(z, t)
    BY Outs
<1>2. PICK S : s \in Seq(S)
    BY DEF IsSequence
<1>3. PICK T : t \in Seq(T)
    BY DEF IsSequence
<1> HIDE DEF s, t
<1>4. FineOut(z, Joined(s, t))
    BY <1>1, <1>2, <1>3, FineJoined
<1>5. IsSequence(Joined(s, t))
    <2>1. s \in Seq(S \cup T) /\ t \in Seq(S \cup T)
        BY <1>2, <1>3
    <2>2. Joined(s, t) \in Seq(S \cup T)
        BY <2>1, JoinedIs
    <2> QED BY <2>2, Zenon DEF IsSequence
<1> QED BY <1>1, <1>4, <1>5

LEMMA FineTo ==
    ASSUME NEW z, NEW h, NEW p, FineNext(z, p), NEW y \in Address
    PROVE  FineOut(z, To(h, p)[y]) /\ IsSequence(To(h, p)[y])
<1>1. To(h, p)[y] \in {<<>>, <<p>>}
    BY Outs
<1> QED BY <1>1, FineOne, FineNone

LEMMA FineRouted ==
    ASSUME NEW z, NEW from, NEW p, FineNext(z, p), NEW y \in Address
    PROVE  FineOut(z, Routed(z, p, from)[y]) /\ IsSequence(Routed(z, p, from)[y])
<1>1. Routed(z, p, from)[y] \in {<<>>, <<p>>}
    BY RoutedIs
<1> QED BY <1>1, FineOne, FineNone

LEMMA GrowsOnward ==
    ASSUME IInv, NEW z \in Address, z # Popup, NEW D, Grows(z, D), Early' => Early
    PROVE  Onward
<1>1. \A x, a \in Address : x # Popup /\ routes[x][a] # <<>> => routes'[x][a] # <<>>
    BY DEF Grows
<1> QED BY <1>1, Nodes DEF Onward

LEMMA OpensFine ==
    ASSUME IInv, Net', NEW z \in {Content, Background}, NEW C \in SUBSET Address, Popup \notin C, NEW out, Opens(z, C, out),
           \A y \in Address : FineOut(z, out[y]) /\ IsSequence(out[y]),
           UNCHANGED <<pageVars, storage, popup, nativeVars, usb>>
    PROVE  IInv'
<1>1. Emit(z, None, out) /\ None # z /\ None \notin Address /\ z \in Address /\ z # Popup /\ z # Native /\ lost' = lost
    BY Nodes DEF Opens
<1>2. Onward
    <2>1. Grows(z, C)
        BY <1>1, OpensGrows DEF IInv
    <2> QED BY <1>1, <2>1, GrowsOnward DEF Early, nativeVars
<1>3. FineOK'
    BY <1>1, <1>2, FineStep DEF IInv, App
<1>4. /\ conn'[Native] = conn[Native] /\ conn'[Popup] = conn[Popup]
      /\ Native \in conn[Background] => Native \in conn'[Background]
    BY <1>1, Nodes DEF Opens, IInv, Net, Types, ConnOK
<1>5. NothingLost'
    BY <1>1 DEF IInv, App, NothingLost
<1>6. App'
    BY <1>2, <1>3, <1>4, <1>5, AppKept
<1> QED BY <1>6 DEF IInv

LEMMA ContentOnConnectIInv ==
    ASSUME IInv, ContentOnConnect, UNCHANGED usb
    PROVE  IInv'
<1> DEFINE r == routes[Content]
           o1 == AddedDirect({}, r, Background)
           o2 == AddedDirect({Background}, inc(r, Background, Direct), Injected)
           out == o1 ++ o2
<1>1. Net'
    BY ContentOnConnectNet DEF IInv
<1>2. Opens(Content, {Background, Injected}, out) /\ UNCHANGED <<pageVars, storage, popup, nativeVars>>
    BY DEF ContentOnConnect
<1>3. ASSUME NEW y \in Address PROVE FineOut(Content, out[y]) /\ IsSequence(out[y])
    <2>1. FineOut(Content, o1[y]) /\ IsSequence(o1[y]) /\ FineOut(Content, o2[y]) /\ IsSequence(o2[y])
        BY AddedAnnounces, AnnouncingIs, Nodes
    <2> HIDE DEF o1, o2
    <2> QED BY <2>1, FineBoth
<1> HIDE DEF out
<1> QED BY <1>1, <1>2, <1>3, OpensFine, Nodes

LEMMA BackgroundOnConnectIInv ==
    ASSUME IInv, BackgroundOnConnect, UNCHANGED usb
    PROVE  IInv'
<1> DEFINE out == AddedDirect({}, routes[Background], Content)
<1>1. Net'
    BY BackgroundOnConnectNet DEF IInv
<1>2. Opens(Background, {Content}, out) /\ UNCHANGED <<pageVars, storage, popup, nativeVars>>
    BY DEF BackgroundOnConnect
<1>3. \A y \in Address : FineOut(Background, out[y]) /\ IsSequence(out[y])
    BY AddedAnnounces, AnnouncingIs, Nodes
<1> HIDE DEF out
<1> QED BY <1>1, <1>2, <1>3, OpensFine, Nodes

LEMMA NativeMainIInv ==
    ASSUME IInv, NativeMain, UNCHANGED usb
    PROVE  IInv'
<1> DEFINE ask == Request("StorageGet", Native, Background, 0, "helo")
           news == AddForwarded(Background, LinkRtt)
           o1 == To(Background, news)
           o2 == To(Background, ask)
           out == o1 ++ o2
<1>1. Net'
    BY NativeMainNet DEF IInv, App
<1>2. /\ Native \in conn[Background] /\ hid = "none" /\ hid' = "helo" /\ Emit(Native, None, out)
      /\ conn' = [conn EXCEPT ![Native] = {Background}]
      /\ routes' = [routes EXCEPT ![Native][Background] = <<Direct>>]
      /\ UNCHANGED <<lost, pageVars, storage, popup, listed, elapsed, subscribe, request_device, poll_refresh, seen>>
    BY DEF NativeMain
<1>3. \A x, a \in Address : a # Background => routes'[x][a] = routes[x][a]
    BY <1>2 DEF IInv, Net, Types, RoutesOK
<1>4. Onward
    BY <1>2, <1>3, Nodes DEF Onward, Early
<1>5. FineOK'
    <2>1. ASSUME NEW y \in Address PROVE FineOut(Native, out[y]) /\ IsSequence(out[y])
        <3>1. FineNext(Native, ask) /\ FineNext(Native, news)
            BY Nodes DEF FineNext, Request, AddForwarded
        <3> HIDE DEF ask, news
        <3>2. FineOut(Native, o1[y]) /\ IsSequence(o1[y]) /\ FineOut(Native, o2[y]) /\ IsSequence(o2[y])
            BY <3>1, FineTo
        <3> HIDE DEF o1, o2
        <3> QED BY <3>2, FineBoth
    <2> HIDE DEF out
    <2> QED BY <1>2, <1>4, <2>1, FineStep, Nodes DEF IInv, App
<1>6. QueuesOK' /\ PlacesOK' /\ NothingLost'
    BY <1>2 DEF IInv, App, QueuesOK, PlacesOK, NothingLost, pageVars, usb, HidPlaces
<1>7. PopupOK'
    <2>1. conn'[Popup] = conn[Popup] /\ conn'[Background] = conn[Background]
        BY <1>2, Nodes DEF IInv, Net, Types, ConnOK
    <2> QED BY <1>2, <2>1 DEF IInv, App, PopupOK
<1>8. AskedOK'
    <2>1. conn'[Native] # {}
        BY <1>2, Nodes DEF IInv, Net, Types, ConnOK
    <2> QED BY <1>2, <1>4, <2>1 DEF IInv, App, AskedOK, Onward, Early, pageVars
<1> QED BY <1>1, <1>5, <1>6, <1>7, <1>8 DEF IInv, App

LEMMA OpenNativeIInv ==
    ASSUME IInv, OpenNative, UNCHANGED usb
    PROVE  IInv'
<1> DEFINE p == Packet(Background, Content)
           greeting == Notification("OpenFromInject", Background, Native)
           answer == Response("OpenNative", p.sender, p.id, TRUE, FALSE)
           o1 == AddedDirect(conn[Background], routes[Background], Native)
           o2 == To(Native, greeting)
           o3 == Routed(Background, answer, None)
           out == (o1 ++ o2) ++ o3
<1>1. Net'
    BY OpenNativeNet DEF IInv
<1>2. /\ Emit(Background, Content, out)
      /\ conn' = [conn EXCEPT ![Background] = @ \cup {Native}]
      /\ routes' = [routes EXCEPT ![Background] = inc(@, Native, Direct)]
      /\ UNCHANGED <<lost, pageVars, storage, popup, nativeVars>>
    BY DEF OpenNative
<1>3. MayTake(Background, Content) /\ p \in PageRequests /\ p.sender = Injected /\ p.name = "OpenNative" /\ p.kind = "Request"
    <2>1. p.name = "OpenNative"
        BY DEF OpenNative, Received, Packet
    <2> QED BY <2>1, OpenNativeRequest DEF IInv, OpenNative, PageRequests
<1>4. Onward
    <2>1. \A b \in Address : routes[Background][b] # <<>> => inc(routes[Background], Native, Direct)[b] # <<>>
        BY IncKeeps, Nodes DEF IInv, Net, Types
    <2>2. \A z \in Address : routes'[z] = IF z = Background THEN inc(routes[Background], Native, Direct) ELSE routes[z]
        BY <1>2 DEF IInv, Net, Types, RoutesOK
    <2>3. \A z, b \in Address : routes[z][b] # <<>> => routes'[z][b] # <<>>
        BY <2>1, <2>2
    <2> QED BY <1>2, <2>3, Nodes DEF Onward, Early, nativeVars
<1>5. FineNext(Background, greeting)
    BY Nodes DEF FineNext, Notification
<1>6. p.id.at = "OpenNative"
    BY <1>3 DEF PageRequests, PageIds, RequestOf
<1>7. FineNext(Background, answer)
    BY <1>6, Nodes DEF FineNext, Response
<1> HIDE DEF p, greeting, answer
<1>8. FineOK'
    <2>1. ASSUME NEW y \in Address PROVE FineOut(Background, out[y]) /\ IsSequence(out[y])
        <3>1. FineOut(Background, o1[y]) /\ IsSequence(o1[y])
            BY AddedAnnounces, AnnouncingIs, Nodes
        <3>2. FineOut(Background, o2[y]) /\ IsSequence(o2[y]) /\ FineOut(Background, o3[y]) /\ IsSequence(o3[y])
            BY <1>5, <1>7, FineTo, FineRouted
        <3> HIDE DEF o1, o2, o3
        <3>3. FineOut(Background, (o1 ++ o2)[y]) /\ IsSequence((o1 ++ o2)[y])
            BY <3>1, <3>2, FineBoth
        <3> QED BY <3>2, <3>3, FineBoth
    <2> HIDE DEF out
    <2> QED BY <1>2, <1>3, <1>4, <2>1, FineStep, Nodes DEF IInv, App, MayTake
<1>9. NothingLost'
    BY <1>2 DEF IInv, App, NothingLost
<1>10. /\ conn'[Native] = conn[Native] /\ conn'[Popup] = conn[Popup]
       /\ Native \in conn[Background] => Native \in conn'[Background]
    BY <1>2, Nodes DEF IInv, Net, Types, ConnOK
<1>11. App'
    BY <1>2, <1>4, <1>8, <1>9, <1>10, AppKept
<1> QED BY <1>1, <1>11 DEF IInv

LEMMA PopupOnConnectIInv ==
    ASSUME IInv, PopupOnConnect, UNCHANGED usb
    PROVE  IInv'
<1> DEFINE p == PopupAnswer(TRUE)
<1>1. Net'
    BY PopupOnConnectNet DEF IInv, App
<1>2. /\ popup = "opening" /\ UNCHANGED <<pageVars, storage, nativeVars, usb>>
      /\ Native \in conn[Background] /\ conn[Popup] = {}
    BY DEF PopupOnConnect, IInv, App, PopupOK, Net, Types, ConnOK
<1>3. p \in NativeResponses
    BY PopupAnswerIs
<1> HIDE DEF p
<1>4. nextHop(Background, p.receiver, None) = Native /\ p \in Proper(Background, Native)
    BY <1>2, <1>3, BackgroundAnswers DEF IInv
<1>5. Early' => Early
    BY <1>2 DEF Early, nativeVars
<1>6. CASE Popup \in conn[Background]
    <2>1. popup' = "closing" /\ Send(Background, p)
        BY <1>6 DEF PopupOnConnect, p
    <2>2. FineOK' /\ UNCHANGED <<conn, routes, lost>>
        BY <1>4, <1>5, <2>1, SendSays, Nodes DEF IInv, App
    <2>3. QueuesOK' /\ PlacesOK' /\ NothingLost' /\ AskedOK' /\ PopupOK'
        BY <1>2, <2>1, <2>2 DEF IInv, App, QueuesOK, PlacesOK, NothingLost, AskedOK, PopupOK, PopupPlaces,
               Early, pageVars, nativeVars, usb
    <2> QED BY <1>1, <2>2, <2>3 DEF IInv, App
<1>7. CASE Popup \notin conn[Background]
    <2> DEFINE o1 == AddedDirect(conn[Background], routes[Background], Popup)
               o2 == To(Native, p)
               out == o1 ++ o2
    <2>1. /\ popup' = "open" /\ Emit(Background, None, out) /\ lost' = lost
          /\ conn' = [conn EXCEPT ![Background] = @ \cup {Popup}, ![Popup] = {Background}]
          /\ routes' = [routes EXCEPT ![Background] = inc(@, Popup, Direct), ![Popup][Background] = <<Direct>>]
        BY <1>7 DEF PopupOnConnect, p
    <2>2. Onward
        <3>1. \A b \in Address : routes[Background][b] # <<>> => inc(routes[Background], Popup, Direct)[b] # <<>>
            BY IncKeeps, Nodes DEF IInv, Net, Types
        <3>2. \A z \in Address : z # Background /\ z # Popup => routes'[z] = routes[z]
            BY <2>1 DEF IInv, Net, Types, RoutesOK
        <3> QED BY <1>5, <3>2, Nodes DEF Onward
    <2>3. FineOK'
        <3>1. ASSUME NEW y \in Address PROVE FineOut(Background, out[y]) /\ IsSequence(out[y])
            <4>1. FineOut(Background, o1[y]) /\ IsSequence(o1[y])
                BY AddedAnnounces, AnnouncingIs, Nodes
            <4>2. FineOut(Background, o2[y]) /\ IsSequence(o2[y])
                BY <1>4, FineTo DEF Proper
            <4> HIDE DEF o1, o2
            <4> QED BY <4>1, <4>2, FineBoth
        <3> HIDE DEF out
        <3> QED BY <2>1, <2>2, <3>1, FineStep, Nodes DEF IInv, App
    <2>4. conn'[Native] = conn[Native] /\ conn'[Popup] = {Background} /\ Native \in conn'[Background]
        BY <1>2, <2>1, Nodes DEF IInv, Net, Types, ConnOK
    <2>5. QueuesOK' /\ PlacesOK' /\ NothingLost' /\ PopupOK'
        BY <1>2, <2>1, <2>4 DEF IInv, App, QueuesOK, PlacesOK, NothingLost, PopupOK, PopupPlaces,
               pageVars, nativeVars, usb
    <2>6. AskedOK'
        BY <1>2, <2>2, <2>4 DEF IInv, App, AskedOK, Onward, Early, pageVars, nativeVars
    <2> QED BY <1>1, <2>3, <2>5, <2>6 DEF IInv, App
<1> QED BY <1>6, <1>7

LEMMA RemovePopupIInv ==
    ASSUME IInv, RemovePopup, UNCHANGED usb
    PROVE  IInv'
<1> DEFINE out == ToldOfDec(conn[Background] \ {Popup}, routes[Background], Popup, Direct)
<1>1. Net'
    BY RemovePopupNet DEF IInv
<1>2. /\ Emit(Background, Popup, out) /\ chan[Popup][Background] # <<>>
      /\ conn' = [conn EXCEPT ![Background] = @ \ {Popup}]
      /\ routes' = [routes EXCEPT ![Background] = dec(@, Popup, Direct)]
      /\ popup' = IF popup = "closing" THEN "none" ELSE popup
      /\ UNCHANGED <<lost, pageVars, storage, nativeVars, usb>>
    BY DEF RemovePopup, Arrives
<1>3. \A y \in Address : FineOut(Background, out[y]) /\ IsSequence(out[y])
    BY ToldOfDecAnnounces, AnnouncingIs
<1> HIDE DEF out
<1>4. Onward
    <2>1. \A z \in Address : z # Background => routes'[z] = routes[z]
        BY <1>2 DEF IInv, Net, Types, RoutesOK
    <2> QED BY <1>2, <2>1, Nodes DEF Onward, Early, nativeVars
<1>5. FineOK'
    BY <1>2, <1>3, <1>4, FineStep, Nodes DEF IInv, App
<1>6. /\ conn'[Native] = conn[Native] /\ conn'[Popup] = conn[Popup]
      /\ Native \in conn[Background] => Native \in conn'[Background]
    BY <1>2, Nodes DEF IInv, Net, Types, ConnOK
<1>7. conn[Popup] = {}
    <2>1. Popup \notin conn'[Background]
        BY <1>2, Nodes DEF IInv, Net, Types, ConnOK
    <2> QED BY <1>1, <1>6, <2>1 DEF Net, Types, ConnOK
<1>8. QueuesOK' /\ PlacesOK' /\ NothingLost' /\ PopupOK'
    BY <1>2, <1>6, <1>7 DEF IInv, App, QueuesOK, PlacesOK, NothingLost, PopupOK, PopupPlaces,
           pageVars, nativeVars, usb
<1>9. AskedOK'
    BY <1>2, <1>4, <1>6 DEF IInv, App, AskedOK, Onward, Early, pageVars, nativeVars
<1> QED BY <1>1, <1>5, <1>8, <1>9 DEF IInv, App

LEMMA DiscardForPopupIInv ==
    ASSUME IInv, DiscardForPopup, UNCHANGED usb
    PROVE  IInv'
<1>1. Net'
    BY DiscardForPopupNet DEF IInv
<1>2. /\ chan' = [chan EXCEPT ![Background][Popup] = <<>>]
      /\ UNCHANGED <<conn, routes, lost, pageVars, storage, popup, nativeVars>>
    BY DEF DiscardForPopup
<1>3. Onward
    BY <1>2 DEF Onward, Early, nativeVars
<1>4. \A x, y \in Address : chan'[x][y] \in {<<>>, chan[x][y]}
    BY <1>2 DEF IInv, Net, Types, ChanOK
<1>5. FineOK'
    <2>1. ASSUME NEW x \in Address, NEW y \in Address, NEW i \in 1..Len(chan'[x][y])
          PROVE  FineNext(x, chan'[x][y][i])
        <3>1. chan'[x][y] = chan[x][y]
            BY <1>4, <2>1
        <3>2. Fine(x, chan[x][y][i])
            BY <2>1, <3>1 DEF IInv, App, FineOK
        <3> QED BY <1>3, <3>1, <3>2, FineStays
    <2> QED BY <2>1, FineIsNext
<1>6. NothingLost'
    BY <1>2 DEF IInv, App, NothingLost
<1>7. App'
    BY <1>2, <1>3, <1>5, <1>6, AppKept
<1> QED BY <1>1, <1>7 DEF IInv

LEMMA ClosesIInv ==
    ASSUME IInv, popup = "open", NEW answer \in Seq(NativeResponses), Closes(answer), UNCHANGED usb
    PROVE  IInv'
<1> DEFINE q == chan[Popup][Background]
           end == Joined(Joined(q, answer), <<Closed>>)
<1>1. Net'
    BY ClosesNet DEF IInv, App
<1>2. /\ popup' = "closing" /\ UNCHANGED <<lost, pageVars, storage, nativeVars, usb>>
      /\ conn' = [conn EXCEPT ![Popup] = {}]
      /\ routes' = [routes EXCEPT ![Popup] = [a \in Address |-> <<>>]]
      /\ chan' = [chan EXCEPT ![Background][Popup] = <<>>, ![Popup][Background] = end]
    BY DEF Closes, Joined
<1>3. Onward
    <2>1. \A z \in Address : z # Popup => routes'[z] = routes[z]
        BY <1>2 DEF IInv, Net, Types, RoutesOK
    <2> QED BY <1>2, <2>1, Nodes DEF Onward, Early, nativeVars
<1>4. ASSUME NEW x \in Address, NEW y \in Address PROVE FineOut(x, chan[x][y])
    <2>1. \A i \in 1..Len(chan[x][y]) : Fine(x, chan[x][y][i])
        BY DEF IInv, App, FineOK
    <2> QED BY <1>3, <2>1, FineStays DEF FineOut
<1>5. FineOut(Popup, end)
    <2>1. q \in Seq(PacketsOn(Popup, Background)) /\ FineOut(Popup, q)
        BY <1>4, Nodes DEF IInv, Net, Types, ChanOK
    <2>2. FineOut(Popup, answer)
        <3>1. \A i \in 1..Len(answer) : answer[i].kind = "Response" /\ answer[i].receiver = Native
            <4>1. \A i \in 1..Len(answer) : answer[i] \in NativeResponses
                OBVIOUS
            <4> QED BY <4>1 DEF NativeResponses
        <3> QED BY <3>1, Nodes DEF FineOut, FineNext
    <2>3. FineOut(Popup, <<Closed>>) /\ <<Closed>> \in Seq({Closed})
        <3>1. FineNext(Popup, Closed)
            BY FineElse DEF Closed
        <3>2. <<Closed>> \in Seq({Closed})
            OBVIOUS
        <3> QED BY <3>1, <3>2, FineOne
    <2> HIDE DEF q
    <2> DEFINE S == PacketsOn(Popup, Background) \cup NativeResponses
    <2>4. q \in Seq(S) /\ answer \in Seq(S)
        BY <2>1
    <2> HIDE DEF S
    <2>5. Joined(q, answer) \in Seq(S)
        BY <2>4, JoinedIs
    <2>6. FineOut(Popup, Joined(q, answer))
        BY <2>1, <2>2, <2>4, FineJoined
    <2>7. FineOut(Popup, Joined(Joined(q, answer), <<Closed>>))
        BY <2>3, <2>5, <2>6, FineJoined
    <2> QED BY <2>7
<1> HIDE DEF end
<1>6. /\ chan'[Popup][Background] = end
      /\ \A x, y \in Address : ~(x = Popup /\ y = Background) => chan'[x][y] \in {<<>>, chan[x][y]}
    BY <1>2, Nodes, ZenonT(40) DEF IInv, Net, Types, ChanOK
<1>7. FineOK'
    <2>1. ASSUME NEW x \in Address, NEW y \in Address PROVE FineOut(x, chan'[x][y])
        BY <1>4, <1>5, <1>6, FineNone
    <2> QED BY <2>1, FineIsNext DEF FineOut
<1>8. conn'[Native] = conn[Native] /\ conn'[Popup] = {} /\ conn'[Background] = conn[Background]
    BY <1>2, Nodes DEF IInv, Net, Types, ConnOK
<1>9. QueuesOK' /\ PlacesOK' /\ NothingLost' /\ PopupOK'
    BY <1>2, <1>8 DEF IInv, App, QueuesOK, PlacesOK, NothingLost, PopupOK, PopupPlaces,
           pageVars, nativeVars, usb
<1>10. AskedOK'
    BY <1>2, <1>3, <1>8 DEF IInv, App, AskedOK, Onward, Early, pageVars, nativeVars
<1> QED BY <1>1, <1>7, <1>9, <1>10 DEF IInv, App

LEMMA AnswerAccessIInv ==
    ASSUME IInv, AnswerAccess, UNCHANGED usb
    PROVE  IInv'
<1> DEFINE p == Packet(Popup, Background)
<1>1. p \in AccessRequests
    <2>1. p \in Data(Background, Popup)
        BY DataHead, Nodes DEF AnswerAccess, Received, Packet, DataKinds, IInv, Net, Types
    <2> QED BY <2>1, Nodes DEF Data
<1>2. PICK approved \in {FALSE, p.arg} : Closes(<<Response("RequestAccess", Native, 0, TRUE, approved)>>)
    BY DEF AnswerAccess
<1>3. approved \in BOOLEAN
    BY <1>1 DEF AccessRequests
<1> DEFINE answer == Response("RequestAccess", Native, 0, TRUE, approved)
<1>4. answer \in NativeResponses
    BY <1>3 DEF NativeResponses, Response
<1>5. Closes(<<answer>>)
    BY <1>2
<1> HIDE DEF answer
<1>6. <<answer>> \in Seq(NativeResponses)
    BY <1>4
<1>7. popup = "open"
    BY DEF AnswerAccess
<1> QED BY <1>5, <1>6, <1>7, ClosesIInv

LEMMA DismissPopupIInv ==
    ASSUME IInv, DismissPopup, UNCHANGED usb
    PROVE  IInv'
<1>1. <<>> \in Seq(NativeResponses)
    OBVIOUS
<1> QED BY <1>1, ClosesIInv DEF DismissPopup

-----------------------------------------------------------------------------
(* The background page serves the native process.                            *)

LEMMA StorageGetIInv ==
    ASSUME IInv, StorageGet, UNCHANGED usb
    PROVE  IInv'
<1> DEFINE p == Packet(Background, Native)
           found == p.arg = "allowed" /\ storage
           answer == Response("StorageGet", p.sender, p.id, TRUE, found)
<1>1. /\ p.sender = Native /\ p.id = 0 /\ MayTake(Background, Native) /\ Native \in conn[Background]
    BY FromNative DEF StorageGet, IInv
<1>2. found \in BOOLEAN
    OBVIOUS
<1> HIDE DEF found
<1>3. answer \in NativeResponses
    BY <1>1, <1>2 DEF NativeResponses, Response
<1>4. Answer(Background, Native, answer) /\ UNCHANGED <<pageVars, storage, popup, nativeVars, usb>>
    BY DEF StorageGet, found
<1> HIDE DEF p, answer
<1>5. nextHop(Background, answer.receiver, None) = Native /\ answer \in Proper(Background, Native)
    BY <1>1, <1>3, BackgroundAnswers DEF IInv
<1>6. Early' => Early
    BY <1>4 DEF Early, nativeVars
<1>7. Net' /\ FineOK' /\ UNCHANGED <<conn, routes, lost>>
    BY <1>1, <1>4, <1>5, <1>6, AnswerSays, Nodes DEF IInv, App
<1>8. App'
    BY <1>4, <1>6, <1>7, AppKept DEF IInv, App, NothingLost, Onward
<1> QED BY <1>7, <1>8 DEF IInv

LEMMA StorageSetIInv ==
    ASSUME IInv, StorageSet, UNCHANGED usb
    PROVE  IInv'
<1> DEFINE p == Packet(Background, Native)
           answer == Response("StorageSet", p.sender, p.id, TRUE, FALSE)
<1>1. /\ p \in NativeRequests /\ p.name = "StorageSet" /\ p.sender = Native /\ p.id = 0
      /\ MayTake(Background, Native) /\ Native \in conn[Background]
    BY FromNative DEF StorageSet, IInv
<1>2. p.arg \in BOOLEAN
    BY <1>1 DEF NativeRequests
<1>3. answer \in NativeResponses
    BY <1>1 DEF NativeResponses, Response
<1>4. Answer(Background, Native, answer) /\ storage' = p.arg /\ UNCHANGED <<pageVars, popup, nativeVars, usb>>
    BY DEF StorageSet
<1> HIDE DEF p, answer
<1>5. nextHop(Background, answer.receiver, None) = Native /\ answer \in Proper(Background, Native)
    BY <1>1, <1>3, BackgroundAnswers DEF IInv
<1>6. Early' => Early
    BY <1>4 DEF Early, nativeVars
<1>7. Net' /\ FineOK' /\ UNCHANGED <<conn, routes, lost>>
    BY <1>1, <1>4, <1>5, <1>6, AnswerSays, Nodes DEF IInv, App
<1>8. QueuesOK' /\ PlacesOK' /\ NothingLost' /\ PopupOK' /\ AskedOK'
    BY <1>2, <1>4, <1>7 DEF IInv, App, QueuesOK, PlacesOK, NothingLost, PopupOK, AskedOK, Early,
           pageVars, nativeVars, usb
<1> QED BY <1>7, <1>8 DEF IInv, App

LEMMA OpenPopupIInv ==
    ASSUME IInv, OpenPopup, UNCHANGED usb
    PROVE  IInv'
<1>1. MayTake(Background, Native) /\ Native \in conn[Background]
    BY FromNative DEF OpenPopup, IInv
<1>2. /\ popup \in {"none", "closing"} /\ popup' = "opening" /\ Take(Background, Native)
      /\ UNCHANGED <<pageVars, storage, nativeVars, usb>>
    BY DEF OpenPopup
<1>3. Net' /\ FineOK' /\ UNCHANGED <<conn, routes, lost>>
    BY <1>1, <1>2, TakeSays, Nodes DEF IInv, App, Early, nativeVars
<1>4. QueuesOK' /\ PlacesOK' /\ NothingLost' /\ PopupOK' /\ AskedOK'
    BY <1>1, <1>2, <1>3 DEF IInv, App, QueuesOK, PlacesOK, NothingLost, PopupOK, PopupPlaces, AskedOK, Early,
           pageVars, nativeVars, usb
<1> QED BY <1>3, <1>4 DEF IInv, App

LEMMA PopupOpeningTimeoutIInv ==
    ASSUME IInv, PopupOpeningTimeout, UNCHANGED usb
    PROVE  IInv'
<1> DEFINE p == PopupAnswer(FALSE)
<1>1. /\ popup = "opening" /\ popup' = "none" /\ Send(Background, p) /\ Native \in conn[Background]
      /\ UNCHANGED <<pageVars, storage, nativeVars, usb>>
    BY DEF PopupOpeningTimeout, IInv, App, PopupOK
<1>2. p \in NativeResponses
    BY PopupAnswerIs
<1> HIDE DEF p
<1>3. nextHop(Background, p.receiver, None) = Native /\ p \in Proper(Background, Native)
    BY <1>1, <1>2, BackgroundAnswers DEF IInv
<1>4. Net' /\ FineOK' /\ UNCHANGED <<conn, routes, lost>>
    BY <1>1, <1>3, SendSays, Nodes DEF IInv, App, Early, nativeVars
<1>5. QueuesOK' /\ PlacesOK' /\ NothingLost' /\ PopupOK' /\ AskedOK'
    BY <1>1, <1>4 DEF IInv, App, QueuesOK, PlacesOK, NothingLost, PopupOK, PopupPlaces, AskedOK, Early,
           pageVars, nativeVars, usb
<1> QED BY <1>4, <1>5 DEF IInv, App

-----------------------------------------------------------------------------
(* The native process.                                                       *)

LEMMA ProcessKept ==
    ASSUME IInv, Net', FineOK', QueuesOK', UNCHANGED <<conn, routes, lost, page, devices, storage, popup, usb>>,
           granted' \subseteq Caller \ {0}, hid # "none", hid' \in HidPlaces \ {"none"}, Early' => Early,
           {listed', elapsed', seen'} \subseteq BOOLEAN,
           subscribe' # <<>> \/ ~Early' => routes[Native][Injected] # <<>>,
           Early' => request_device' = <<>> /\ poll_refresh' = <<>>
    PROVE  IInv'
<1> USE DEF IInv, App
<1>1. AskedOK'
    BY DEF AskedOK, Early
<1>2. PopupOK' /\ PlacesOK' /\ NothingLost'
    BY DEF PopupOK, PlacesOK, NothingLost, usb
<1> QED BY <1>1, <1>2

LEMMA RunsOn ==
    ASSUME IInv
    PROVE  /\ Background \in conn[Native] => hid # "none"
           /\ hid # "none" => conn[Native] # {}
           /\ {listed, elapsed, seen, plugged} \subseteq BOOLEAN /\ granted \subseteq Caller \ {0}
           /\ subscribe # <<>> \/ ~Early => routes[Native][Injected] # <<>>
           /\ Early => request_device = <<>> /\ poll_refresh = <<>>
BY DEF IInv, App, AskedOK, PlacesOK

LEMMA TailOf ==
    ASSUME NEW S, NEW q \in Seq(S), q # <<>>
    PROVE  Tail(q) \in Seq(S) /\ Head(q) \in S
OBVIOUS

LEMMA AppendOf ==
    ASSUME NEW S, NEW q \in Seq(S), NEW e \in S
    PROVE  Append(q, e) \in Seq(S) /\ Append(q, e) # <<>>
<1>1. Append(q, e) \in Seq(S)
    OBVIOUS
<1>2. Append(q, e) # <<>>
    <2>1. Len(Append(q, e)) = Len(q) + 1 /\ Len(q) \in Nat /\ Len(<<>>) = 0
        OBVIOUS
    <2> QED BY <2>1
<1> QED BY <1>1, <1>2

LEMMA FollowingIs ==
    /\ DOMAIN Following = {"OpenNative", "SubscribeHid", "PollRefresh", "RequestDevice", "PollRefresh1", "PollRefresh2"}
    /\ Following["OpenNative"] = "SubscribeHid"
    /\ \A pc \in DOMAIN Following :
          Following[pc] \in {"SubscribeHid", "PollRefresh", "PollRefresh1", "PollRefresh2", "ready"}
    /\ \A pc \in DOMAIN Following : RequestOf(pc) \in RequestNames
BY DEF Following, RequestOf, RequestNames

LEMMA OpenFromInjectIInv ==
    ASSUME IInv, OpenFromInject, UNCHANGED usb
    PROVE  IInv'
<1>1. /\ Emit(Native, Background, Nothing) /\ lost' = lost \cup {<<"Notification", "OpenFromInject">>}
      /\ UNCHANGED <<conn, routes, pageVars, storage, popup, nativeVars>>
    BY DEF OpenFromInject
<1>2. MayTake(Native, Background)
    BY DataHead, Nodes DEF OpenFromInject, Received, DataKinds, IInv, Net, Types
<1>3. Onward
    BY <1>1 DEF Onward, Early, nativeVars
<1>4. Net' /\ FineOK'
    BY <1>1, <1>2, <1>3, SaysNothing, SayingStep, Nodes DEF IInv, App
<1>5. NothingLost'
    BY <1>1 DEF IInv, App, NothingLost
<1>6. App'
    BY <1>1, <1>3, <1>4, <1>5, AppKept
<1> QED BY <1>4, <1>6 DEF IInv

LEMMA PolledIInv ==
    ASSUME IInv, NEW name \in {"SubscribeHid", "RequestDevice", "PollRefresh"},
           Received(Native, Background, "Request", name),
           name = "SubscribeHid" => Polled(name, subscribe) /\ UNCHANGED <<request_device, poll_refresh>>,
           name = "RequestDevice" => Polled(name, request_device) /\ UNCHANGED <<subscribe, poll_refresh>>,
           name = "PollRefresh" => Polled(name, poll_refresh) /\ UNCHANGED <<subscribe, request_device>>,
           UNCHANGED <<pageVars, storage, popup, hid, listed, elapsed, seen, usb>>
    PROVE  IInv'
<1> DEFINE p == Packet(Native, Background)
           e == [id |-> p.id, refreshed |-> FALSE]
<1>1. /\ p \in PageRequests /\ p.name = name /\ MayTake(Native, Background) /\ Native # Background
      /\ routes[Native][Injected] # <<>>
      /\ Early => p.id.at \in {"OpenNative", "SubscribeHid"}
    BY RequestToNative DEF IInv, App
<1>2. p.id \in PageIds /\ RequestOf(p.id.at) = name
    BY <1>1 DEF PageRequests
<1>3. name \in Registered
    BY <1>1, <1>2 DEF Registered, Early, RequestOf
<1>4. /\ name = "SubscribeHid" => subscribe' = Append(subscribe, e)
      /\ name = "RequestDevice" => request_device' = Append(request_device, e)
      /\ name = "PollRefresh" => poll_refresh' = Append(poll_refresh, e)
      /\ Take(Native, Background)
    BY <1>3 DEF Polled
<1>5. /\ name = "SubscribeHid" => e \in [id : IdsAt({"SubscribeHid"}), refreshed : BOOLEAN]
      /\ name = "RequestDevice" => e \in [id : IdsAt({"RequestDevice"}), refreshed : BOOLEAN]
      /\ name = "PollRefresh" => e \in [id : IdsAt({"PollRefresh", "PollRefresh1", "PollRefresh2"}), refreshed : BOOLEAN]
    BY <1>2 DEF IdsAt, PageIds, RequestOf
<1>6. name # "SubscribeHid" => ~Early
    BY <1>1, <1>2 DEF RequestOf
<1> HIDE DEF p, e
<1>7. Net' /\ FineOK' /\ UNCHANGED <<conn, routes, lost>>
    BY <1>1, <1>4, TakeSays, Nodes DEF IInv, App, Early
<1>8. QueuesOK'
    <2> DEFINE S == [id : IdsAt({"SubscribeHid"}), refreshed : BOOLEAN]
               D == [id : IdsAt({"RequestDevice"}), refreshed : BOOLEAN]
               R == [id : IdsAt({"PollRefresh", "PollRefresh1", "PollRefresh2"}), refreshed : BOOLEAN]
               asked == hid \in {"OpenPopup", "wait_for_connection_to", "RequestAccess", "approved", "rejected",
                                 "StorageSet"}
    <2>1. subscribe \in Seq(S) /\ request_device \in Seq(D) /\ poll_refresh \in Seq(R) /\ (asked => request_device # <<>>)
        BY DEF IInv, App, QueuesOK, Queue
    <2>2. /\ subscribe' \in Seq(S) /\ request_device' \in Seq(D) /\ poll_refresh' \in Seq(R)
          /\ asked => request_device' # <<>>
        <3> HIDE DEF S, D, R, asked
        <3>1. CASE name = "SubscribeHid"
            <4>1. e \in S
                BY <1>5, <3>1 DEF S
            <4> QED BY <1>4, <2>1, <3>1, <4>1, AppendOf
        <3>2. CASE name = "RequestDevice"
            <4>1. e \in D
                BY <1>5, <3>2 DEF D
            <4> QED BY <1>4, <2>1, <3>2, <4>1, AppendOf
        <3>3. CASE name = "PollRefresh"
            <4>1. e \in R
                BY <1>5, <3>3 DEF R
            <4> QED BY <1>4, <2>1, <3>3, <4>1, AppendOf
        <3> QED BY <3>1, <3>2, <3>3
    <2> QED BY <2>2 DEF QueuesOK, Queue, IdsAt
<1>9. hid # "none" /\ hid \in HidPlaces
    BY <1>1, RunsOn DEF MayTake, IInv, App, PlacesOK
<1>10. Early' => request_device' = <<>> /\ poll_refresh' = <<>>
    BY <1>6, RunsOn DEF Early
<1> QED BY <1>1, <1>7, <1>8, <1>9, <1>10, RunsOn, ProcessKept DEF pageVars, Early

LEMMA NativeRequestIInv ==
    ASSUME IInv, NativeRequest, UNCHANGED usb
    PROVE  IInv'
<1>1. UNCHANGED <<pageVars, storage, popup, hid, listed, elapsed, seen>>
    BY DEF NativeRequest
<1>2. CASE Polled("SubscribeHid", subscribe) /\ UNCHANGED <<request_device, poll_refresh>>
    BY <1>1, <1>2, PolledIInv DEF Polled
<1>3. CASE Polled("RequestDevice", request_device) /\ UNCHANGED <<subscribe, poll_refresh>>
    BY <1>1, <1>3, PolledIInv DEF Polled
<1>4. CASE Polled("PollRefresh", poll_refresh) /\ UNCHANGED <<subscribe, request_device>>
    BY <1>1, <1>4, PolledIInv DEF Polled
<1> QED BY <1>2, <1>3, <1>4 DEF NativeRequest

\* hid() goes on when it has got the answer it awaits.
LEMMA AwaitedIs ==
    ASSUME IInv, NEW pc, NEW name, Awaited(pc, name)
    PROVE  /\ Packet(Native, Background) \in NativeResponses /\ MayTake(Native, Background) /\ Native # Background
           /\ hid = pc /\ hid # "none" /\ conn[Native] # {}
BY AnswerToNative, RunsOn DEF Awaited, MayTake, IInv

LEMMA HeloIInv ==
    ASSUME IInv, Helo, UNCHANGED usb
    PROVE  IInv'
<1>1. /\ hid = "helo" /\ hid' = "select" /\ MayTake(Native, Background) /\ Take(Native, Background)
      /\ UNCHANGED <<pageVars, storage, popup, listed, elapsed, subscribe, request_device, poll_refresh, seen>>
    BY AwaitedIs DEF Helo
<1>2. Early /\ Early'
    BY <1>1 DEF Early
<1>3. Net' /\ FineOK' /\ UNCHANGED <<conn, routes, lost>>
    BY <1>1, <1>2, TakeSays, Nodes DEF IInv, App
<1>4. QueuesOK'
    BY <1>1 DEF IInv, App, QueuesOK
<1> QED BY <1>1, <1>2, <1>3, <1>4, RunsOn, ProcessKept DEF pageVars, HidPlaces

LEMMA AsksIs ==
    ASSUME NEW allowed \in BOOLEAN
    PROVE  /\ Ask("StorageGet", Background, "allowed") \in NativeRequests
           /\ Ask("OpenPopup", Background, "popup") \in NativeRequests
           /\ Ask("StorageSet", Background, allowed) \in NativeRequests
           /\ Ask("RequestAccess", Popup, allowed) \in AccessRequests
BY DEF Ask, Request, NativeRequests, AccessRequests

LEMMA ReplyIs ==
    ASSUME NEW name \in RequestNames, NEW id \in PageIds, NEW ok \in BOOLEAN
    PROVE  Reply(name, id, ok) \in PageResponses /\ Reply(name, id, ok) \in FromBackground
BY DEF Reply, Response, PageResponses, FromBackground

LEMMA SubscribeHidIInv ==
    ASSUME IInv, SubscribeHid, UNCHANGED usb
    PROVE  IInv'
<1> DEFINE reply == Reply("SubscribeHid", Head(subscribe).id, TRUE)
           ask == Ask("StorageGet", Background, "allowed")
           out == Routed(Native, reply, None) ++ To(Background, ask)
<1>1. /\ hid = "select" /\ subscribe # <<>> /\ hid' = "watch" /\ subscribe' = Tail(subscribe) /\ seen' = plugged
      /\ Emit(Native, None, out) /\ lost' = lost \cup Undelivered(Native, Reply("SubscribeHid", 0, TRUE), None)
      /\ UNCHANGED <<conn, routes, pageVars, storage, popup, listed, elapsed, request_device, poll_refresh, usb>>
    BY DEF SubscribeHid
<1>2. /\ Tail(subscribe) \in Queue({"SubscribeHid"})
      /\ Head(subscribe) \in [id : IdsAt({"SubscribeHid"}), refreshed : BOOLEAN]
    BY <1>1, TailOf DEF IInv, App, QueuesOK, Queue
<1>3. reply \in FromBackground /\ reply.receiver = Injected
    <2>1. Head(subscribe).id \in PageIds
        BY <1>2 DEF IdsAt
    <2> QED BY <2>1, ReplyIs DEF RequestNames, Reply, Response
<1>4. routes[Native][Injected] # <<>> /\ ~Early' /\ conn[Native] # {} /\ routes' = routes
    BY <1>1, RunsOn DEF Early
<1> HIDE DEF reply
<1>5. nextHop(Native, reply.receiver, None) = Background /\ reply \in Proper(Native, Background)
    BY <1>3, <1>4, NativeTells DEF IInv
<1>6. ask \in Proper(Native, Background)
    BY <1>4, AsksIs, NativeAsks DEF IInv
<1> HIDE DEF ask
<1>7. Says(Native, out)
    BY <1>5, <1>6, RoutedSays, SaysTo, SaysBoth, Nodes
<1> HIDE DEF out
<1>8. lost' = lost
    BY <1>1, <1>3, <1>5, Nodes DEF Undelivered, Reply, Response
<1>9. Onward
    BY <1>1, <1>4 DEF Onward
<1>10. Net' /\ FineOK'
    BY <1>1, <1>7, <1>9, SayingStep, Nodes DEF IInv, App
<1>11. QueuesOK'
    BY <1>1, <1>2 DEF IInv, App, QueuesOK
<1>12. hid # "none" /\ hid' \in HidPlaces \ {"none"}
    BY <1>1 DEF HidPlaces
<1> QED BY <1>1, <1>4, <1>8, <1>10, <1>11, <1>12, RunsOn, ProcessKept DEF pageVars

LEMMA SelectDelayIInv ==
    ASSUME IInv, SelectDelay, UNCHANGED usb
    PROVE  IInv'
<1> DEFINE ask == Ask("StorageGet", Background, "allowed")
<1>1. /\ hid = "process_requests" /\ hid' = "watch" /\ Send(Native, ask)
      /\ UNCHANGED <<pageVars, storage, popup, listed, elapsed, subscribe, request_device, poll_refresh, seen>>
    BY DEF SelectDelay
<1>2. ~Early /\ ~Early' /\ hid # "none" /\ hid' \in HidPlaces \ {"none"}
    BY <1>1 DEF Early, HidPlaces
<1>3. nextHop(Native, ask.receiver, None) = Background /\ ask \in Proper(Native, Background)
    BY <1>2, AsksIs, NativeAsks, RunsOn DEF IInv
<1> HIDE DEF ask
<1>4. Net' /\ FineOK' /\ UNCHANGED <<conn, routes, lost>>
    BY <1>1, <1>2, <1>3, SendSays, Nodes DEF IInv, App
<1>5. QueuesOK'
    BY <1>1 DEF IInv, App, QueuesOK
<1> QED BY <1>1, <1>2, <1>4, <1>5, RunsOn, ProcessKept DEF pageVars

LEMMA SelectRequestDeviceIInv ==
    ASSUME IInv, SelectRequestDevice, UNCHANGED usb
    PROVE  IInv'
<1> DEFINE ask == Ask("OpenPopup", Background, "popup")
<1>1. /\ hid = "process_requests" /\ hid' = "OpenPopup" /\ request_device # <<>> /\ Send(Native, ask)
      /\ UNCHANGED <<pageVars, storage, popup, listed, elapsed, subscribe, request_device, poll_refresh, seen>>
    BY DEF SelectRequestDevice
<1>2. ~Early /\ ~Early' /\ hid # "none" /\ hid' \in HidPlaces \ {"none"}
    BY <1>1 DEF Early, HidPlaces
<1>3. nextHop(Native, ask.receiver, None) = Background /\ ask \in Proper(Native, Background)
    BY <1>2, AsksIs, NativeAsks, RunsOn DEF IInv
<1> HIDE DEF ask
<1>4. Net' /\ FineOK' /\ UNCHANGED <<conn, routes, lost>>
    BY <1>1, <1>2, <1>3, SendSays, Nodes DEF IInv, App
<1>5. QueuesOK'
    BY <1>1 DEF IInv, App, QueuesOK
<1> QED BY <1>1, <1>2, <1>4, <1>5, RunsOn, ProcessKept DEF pageVars

LEMMA NetworkKept ==
    ASSUME Net, UNCHANGED network
    PROVE  Net' /\ (FineOK /\ (Early' => Early) => FineOK')
<1> USE DEF network
<1>1. Types'
    <2>1. ChanOK'
        BY DEF Net, Types, ChanOK
    <2>2. ConnOK' /\ RoutesOK'
        BY DEF Net, Types, ConnOK, RoutesOK, RouteOK
    <2> QED BY <2>1, <2>2 DEF Types
<1>2. AgreeOK'
    BY DEF Net, AgreeOK, Agree, Linked
<1>3. QuietOK' /\ KnownFirst' /\ CloseOK'
    BY DEF Net, QuietOK, KnownFirst, CloseOK
<1>4. FineOK /\ (Early' => Early) => FineOK'
    <2>1. SUFFICES ASSUME FineOK, Early' => Early PROVE FineOK'
        OBVIOUS
    <2>2. Onward
        BY <2>1 DEF Onward
    <2>3. ASSUME NEW x \in Address, NEW y \in Address, NEW i \in 1..Len(chan'[x][y])
          PROVE  FineNext(x, chan'[x][y][i])
        BY <2>1, <2>2, FineStays DEF FineOK
    <2> QED BY <2>3, FineIsNext
<1> QED BY <1>1, <1>2, <1>3, <1>4 DEF Net

LEMMA DelayIInv ==
    ASSUME IInv, Delay, UNCHANGED usb
    PROVE  IInv'
<1>1. /\ elapsed' = TRUE /\ UNCHANGED <<network, pageVars, storage, popup, hid, listed, subscribe, request_device, poll_refresh, seen, usb>>
    BY DEF Delay
<1>2. Net' /\ FineOK'
    BY <1>1, NetworkKept DEF IInv, App, Early
<1> USE <1>1 DEF network, pageVars, usb, IInv, App
<1>3. QueuesOK'
    BY DEF QueuesOK
<1>4. AskedOK' /\ PopupOK' /\ PlacesOK' /\ NothingLost'
    BY DEF AskedOK, PopupOK, PlacesOK, NothingLost, Early
<1> QED BY <1>2, <1>3, <1>4

LEMMA WatchDevicesIInv ==
    ASSUME IInv, WatchDevices, UNCHANGED usb
    PROVE  IInv'
<1> DEFINE p == Packet(Native, Background)
           added == Notification("AddedDevice", Native, Injected)
           removed == Notification("RemovedDevice", Native, Injected)
<1>1. /\ p \in NativeResponses /\ MayTake(Native, Background) /\ Native # Background /\ hid = "watch"
    BY AwaitedIs DEF WatchDevices
<1>2. /\ \/ Answer(Native, Background, added)
         \/ Answer(Native, Background, removed)
         \/ Take(Native, Background)
      /\ listed' = (p.arg /\ seen) /\ seen' = plugged /\ elapsed' = FALSE /\ hid' = "process_requests"
      /\ poll_refresh' = [k \in DOMAIN poll_refresh |-> [poll_refresh[k] EXCEPT !.refreshed = TRUE]]
      /\ UNCHANGED <<pageVars, storage, popup, subscribe, request_device, usb>>
    BY DEF WatchDevices
<1>3. listed' \in BOOLEAN
    BY <1>2
<1>4. ~Early /\ ~Early' /\ hid # "none" /\ hid' \in HidPlaces \ {"none"} /\ routes[Native][Injected] # <<>>
    BY <1>1, <1>2, RunsOn DEF Early, HidPlaces
<1>5. added \in FromBackground /\ removed \in FromBackground /\ added.kind = "Notification" /\ removed.kind = "Notification"
    BY DEF FromBackground, Notices, Notification
<1>6. Net' /\ FineOK' /\ UNCHANGED <<conn, routes, lost>>
    <2>1. CASE Take(Native, Background)
        BY <1>1, <1>4, <2>1, TakeSays, Nodes DEF IInv, App
    <2>2. ASSUME NEW n \in {added, removed}, Answer(Native, Background, n)
          PROVE  Net' /\ FineOK' /\ UNCHANGED <<conn, routes, lost>>
        <3>1. n \in FromBackground /\ n.kind = "Notification" /\ routes' = routes
            BY <1>5, <2>2 DEF Answer
        <3>2. nextHop(Native, n.receiver, None) = Background /\ n \in Proper(Native, Background)
            BY <1>4, <3>1, NativeTells DEF IInv
        <3> QED BY <1>1, <1>4, <2>2, <3>2, AnswerSays, Nodes DEF IInv, App
    <2> HIDE DEF added, removed
    <2> QED BY <1>2, <2>1, <2>2
<1>7. QueuesOK'
    <2> DEFINE S == [id : IdsAt({"PollRefresh", "PollRefresh1", "PollRefresh2"}), refreshed : BOOLEAN]
               q == poll_refresh
    <2>1. q \in Seq(S) /\ \A e \in S : [e EXCEPT !.refreshed = TRUE] \in S
        BY DEF IInv, App, QueuesOK, Queue
    <2> HIDE DEF S, q
    <2>2. [k \in DOMAIN q |-> [q[k] EXCEPT !.refreshed = TRUE]] \in Seq(S)
        BY <2>1
    <2>3. poll_refresh' \in Queue({"PollRefresh", "PollRefresh1", "PollRefresh2"})
        BY <1>2, <2>2 DEF q, S, Queue
    <2> QED BY <1>2, <2>3 DEF IInv, App, QueuesOK
<1>8. {listed', elapsed', seen'} \subseteq BOOLEAN
    BY <1>2, <1>3, RunsOn
<1> QED BY <1>2, <1>4, <1>6, <1>7, <1>8, RunsOn, ProcessKept DEF pageVars

LEMMA PopupOpenedIInv ==
    ASSUME IInv, PopupOpened, UNCHANGED usb
    PROVE  IInv'
<1>1. /\ hid = "OpenPopup" /\ hid' = "wait_for_connection_to" /\ MayTake(Native, Background) /\ Take(Native, Background)
      /\ UNCHANGED <<pageVars, storage, popup, listed, elapsed, subscribe, request_device, poll_refresh, seen>>
    BY AwaitedIs DEF PopupOpened
<1>2. ~Early /\ ~Early' /\ hid # "none" /\ hid' \in HidPlaces \ {"none"}
    BY <1>1 DEF Early, HidPlaces
<1>3. Net' /\ FineOK' /\ UNCHANGED <<conn, routes, lost>>
    BY <1>1, <1>2, TakeSays, Nodes DEF IInv, App
<1>4. QueuesOK'
    BY <1>1 DEF IInv, App, QueuesOK
<1> QED BY <1>1, <1>2, <1>3, <1>4, RunsOn, ProcessKept DEF pageVars

LEMMA RequestAccessIInv ==
    ASSUME IInv, RequestAccess, UNCHANGED usb
    PROVE  IInv'
<1> DEFINE ask == Ask("RequestAccess", Popup, seen)
<1>1. /\ hid = "wait_for_connection_to" /\ hid' = "RequestAccess" /\ Send(Native, ask) /\ routes[Native][Popup] # <<>>
      /\ UNCHANGED <<pageVars, storage, popup, listed, elapsed, subscribe, request_device, poll_refresh, seen>>
    BY DEF RequestAccess
<1>2. ~Early /\ ~Early' /\ hid # "none" /\ hid' \in HidPlaces \ {"none"} /\ seen \in BOOLEAN
    BY <1>1, RunsOn DEF Early, HidPlaces
<1>3. ask \in AccessRequests
    BY <1>2, AsksIs
<1> HIDE DEF ask
<1>4. nextHop(Native, ask.receiver, None) = Background /\ ask \in Proper(Native, Background)
    BY <1>1, <1>3, NativeAsksPopup DEF IInv
<1>5. Net' /\ FineOK' /\ UNCHANGED <<conn, routes, lost>>
    BY <1>1, <1>2, <1>4, SendSays, Nodes DEF IInv, App
<1>6. QueuesOK'
    BY <1>1 DEF IInv, App, QueuesOK
<1> QED BY <1>1, <1>2, <1>5, <1>6, RunsOn, ProcessKept DEF pageVars

LEMMA AccessGivenIInv ==
    ASSUME IInv, AccessGiven, UNCHANGED usb
    PROVE  IInv'
<1> DEFINE ask == Ask("StorageGet", Background, "allowed")
<1>1. /\ hid = "RequestAccess" /\ hid' \in {"approved", "rejected"} /\ elapsed' \in {TRUE, elapsed}
      /\ MayTake(Native, Background) /\ Native # Background /\ Answer(Native, Background, ask) /\ conn[Native] # {}
      /\ UNCHANGED <<pageVars, storage, popup, listed, subscribe, request_device, poll_refresh, seen>>
    BY AwaitedIs DEF AccessGiven
<1>2. ~Early /\ ~Early' /\ hid # "none" /\ hid' \in HidPlaces \ {"none"}
    BY <1>1 DEF Early, HidPlaces
<1>3. ask \in NativeRequests
    BY AsksIs
<1> HIDE DEF ask
<1>4. nextHop(Native, ask.receiver, None) = Background /\ ask \in Proper(Native, Background)
    BY <1>1, <1>3, NativeAsks DEF IInv
<1>5. Net' /\ FineOK' /\ UNCHANGED <<conn, routes, lost>>
    BY <1>1, <1>2, <1>4, AnswerSays, Nodes DEF IInv, App
<1>6. QueuesOK'
    BY <1>1 DEF IInv, App, QueuesOK
<1> QED BY <1>1, <1>2, <1>5, <1>6, RunsOn, ProcessKept DEF pageVars

LEMMA ExtendAllowedIInv ==
    ASSUME IInv, ExtendAllowed, UNCHANGED usb
    PROVE  IInv'
<1> DEFINE p == Packet(Native, Background)
<1>1. PICK pc \in {"approved", "rejected"} :
          /\ Awaited(pc, "StorageGet")
          /\ Answer(Native, Background, Ask("StorageSet", Background, p.arg \/ pc = "approved"))
          /\ granted' = granted \cup {c \in {Head(request_device).id.caller} : pc = "approved"}
    BY DEF ExtendAllowed
<1> DEFINE allowed == p.arg \/ pc = "approved"
           ask == Ask("StorageSet", Background, allowed)
<1>2. /\ hid = pc /\ MayTake(Native, Background) /\ Native # Background /\ conn[Native] # {}
      /\ hid' = "StorageSet" /\ Answer(Native, Background, ask)
      /\ UNCHANGED <<page, devices, storage, popup, listed, elapsed, subscribe, request_device, poll_refresh, seen>>
    BY <1>1, AwaitedIs DEF ExtendAllowed
<1>3. ~Early /\ ~Early' /\ hid # "none" /\ hid' \in HidPlaces \ {"none"}
    BY <1>2 DEF Early, HidPlaces
<1>4. allowed \in BOOLEAN
    OBVIOUS
<1>5. ask \in NativeRequests
    BY <1>4, AsksIs
<1> HIDE DEF ask, allowed
<1>6. nextHop(Native, ask.receiver, None) = Background /\ ask \in Proper(Native, Background)
    BY <1>2, <1>5, NativeAsks DEF IInv
<1>7. Net' /\ FineOK' /\ UNCHANGED <<conn, routes, lost>>
    BY <1>2, <1>3, <1>6, AnswerSays, Nodes DEF IInv, App
<1>8. request_device # <<>> /\ request_device \in Queue({"RequestDevice"})
    BY <1>2 DEF IInv, App, QueuesOK
<1>9. QueuesOK'
    BY <1>2, <1>8 DEF IInv, App, QueuesOK
<1>10. granted' \subseteq Caller \ {0}
    <2>1. Head(request_device) \in [id : IdsAt({"RequestDevice"}), refreshed : BOOLEAN]
        BY <1>8, TailOf DEF Queue
    <2>2. Head(request_device).id.caller \in Caller \ {0}
        BY <2>1 DEF IdsAt, PageIds
    <2> QED BY <1>1, <2>2, RunsOn
<1> QED BY <1>2, <1>3, <1>7, <1>9, <1>10, RunsOn, ProcessKept

\* hid() answers the page and goes on, answering more and asking if the delay is over.
LEMMA ToPageSays ==
    ASSUME Net, routes[Native][Injected] # <<>>, routes' = routes, ~Early', NEW q \in Seq(PageResponses)
    PROVE  Says(Native, ToPage(q))
<1>1. nextHop(Native, Injected, None) = Background /\ Background # None /\ Background \in Address
    BY NativeKnows, Nodes
<1>2. ToPage(q) = [Nothing EXCEPT ![Background] = q]
    BY <1>1 DEF ToPage
<1>3. \A p \in PageResponses : p \in Proper(Native, Background)
    <2>1. \A p \in PageResponses : p \in FromBackground
        BY DEF FromBackground
    <2> QED BY <2>1, NativeTells
<1>4. q \in Seq(Proper(Native, Background))
    <2>1. PageResponses \subseteq Proper(Native, Background)
        BY <1>3
    <2> HIDE DEF PageResponses
    <2> QED BY <2>1
<1>5. ASSUME NEW y \in Address PROVE ToPage(q)[y] \in Seq(Proper(Native, y))
    <2>1. ToPage(q)[y] = IF y = Background THEN q ELSE <<>>
        BY <1>2 DEF Nothing
    <2> QED BY <1>4, <2>1
<1> QED BY <1>5 DEF Says

PollQueue == Queue({"PollRefresh", "PollRefresh1", "PollRefresh2"})

LEMMA ResumeIInv ==
    ASSUME IInv, ~Early, NEW reply \in PageResponses, NEW from \in {None, Background}, NEW late,
           late \in BOOLEAN, NEW waiting, waiting \in PollQueue, Resume(reply, from, late, waiting),
           from = Background => MayTake(Native, Background),
           request_device' \in Queue({"RequestDevice"}),
           UNCHANGED <<pageVars, storage, popup, listed, subscribe, seen, usb>>
    PROVE  IInv'
<1> DEFINE answers(n) == [k \in 1..n |-> Reply("PollRefresh", waiting[k].id, TRUE)]
           ask == Ask("StorageGet", Background, "allowed")
           open == Ask("OpenPopup", Background, "popup")
           goes(pc, n, out) == /\ hid' = pc
                               /\ poll_refresh' = SubSeq(waiting, n + 1, Len(waiting))
                               /\ Emit(Native, from, ToPage(<<reply>> \o answers(n)) ++ out)
<1>1. /\ elapsed' = late /\ lost' = lost \cup Undelivered(Native, reply, None) /\ UNCHANGED <<conn, routes>>
      /\ \/ ~late /\ goes("process_requests", 0, Nothing)
         \/ \E n \in 0..Len(waiting) :
               \/ goes("watch", n, To(Background, ask))
               \/ request_device' # <<>> /\ goes("OpenPopup", n, To(Background, open))
    BY DEF Resume
<1>2. Len(waiting) \in Nat /\ \A k \in 1..Len(waiting) : waiting[k].id \in PageIds
    <2> DEFINE S == [id : IdsAt({"PollRefresh", "PollRefresh1", "PollRefresh2"}), refreshed : BOOLEAN]
    <2>1. waiting \in Seq(S)
        BY DEF PollQueue, Queue
    <2>2. \A e \in S : e.id \in PageIds
        BY DEF IdsAt
    <2> HIDE DEF S
    <2>3. Len(waiting) \in Nat /\ \A k \in 1..Len(waiting) : waiting[k] \in S
        BY <2>1
    <2> QED BY <2>2, <2>3
<1>3. PICK n \in 0..Len(waiting), out \in {Nothing, To(Background, ask), To(Background, open)},
           pc \in {"process_requests", "watch", "OpenPopup"} :
          goes(pc, n, out) /\ (pc = "OpenPopup" => request_device' # <<>>)
    <2>1. CASE goes("process_requests", 0, Nothing)
        <3>1. 0 \in 0..Len(waiting)
            BY <1>2
        <3> HIDE DEF goes, ask, open
        <3> QED BY <2>1, <3>1
    <2>2. CASE \E n \in 0..Len(waiting) :
                   \/ goes("watch", n, To(Background, ask))
                   \/ request_device' # <<>> /\ goes("OpenPopup", n, To(Background, open))
        <3> HIDE DEF goes, ask, open
        <3> QED BY <2>2
    <2> QED BY <1>1, <2>1, <2>2
<1>4. ~Early' /\ routes[Native][Injected] # <<>> /\ routes' = routes /\ conn[Native] # {} /\ hid # "none"
    BY <1>1, <1>3, RunsOn DEF Early
<1>5. <<reply>> \o answers(n) \in Seq(PageResponses)
    <2> DEFINE P == PageResponses
               s == answers(n)
    <2>1. n \in Nat /\ "PollRefresh" \in RequestNames /\ TRUE \in BOOLEAN
        BY <1>2 DEF RequestNames
    <2>2. ASSUME NEW k \in 1..n PROVE s[k] \in P
        <3>1. waiting[k].id \in PageIds
            BY <1>2, <2>1
        <3> QED BY <2>1, <3>1, ReplyIs
    <2>3. s = [k \in 1..n |-> s[k]]
        OBVIOUS
    <2>4. reply \in P
        OBVIOUS
    <2> HIDE DEF P, s
    <2>5. s \in Seq(P)
        BY <2>1, <2>2, <2>3
    <2>6. <<reply>> \in Seq(P)
        BY <2>4
    <2>7. <<reply>> \o s \in Seq(P)
        BY <2>5, <2>6
    <2> QED BY <2>7 DEF P, s
<1> DEFINE replies == <<reply>> \o answers(n)
<1>6. Emit(Native, from, ToPage(replies) ++ out) /\ hid' = pc /\ poll_refresh' = SubSeq(waiting, n + 1, Len(waiting))
    BY <1>3
<1>7. Says(Native, out)
    <2>1. ask \in Proper(Native, Background) /\ open \in Proper(Native, Background)
        BY <1>4, AsksIs, NativeAsks DEF IInv
    <2> HIDE DEF ask, open
    <2> QED BY <2>1, SaysTo, SaysNothing, Nodes
<1> HIDE DEF ask, open, goes, answers, replies
<1>8. Says(Native, ToPage(replies) ++ out)
    <2>1. Says(Native, ToPage(replies))
        BY <1>4, <1>5, ToPageSays DEF IInv, replies
    <2> QED BY <1>7, <2>1, SaysBoth
<1>9. Onward /\ from # Native /\ (from \in Address => MayTake(Native, from))
    BY <1>4, Nodes DEF Onward
<1>10. Net' /\ FineOK'
    BY <1>1, <1>6, <1>8, <1>9, SayingStep, Nodes DEF IInv, App
<1>11. lost' = lost
    <2>1. reply.receiver = Injected
        BY DEF PageResponses
    <2>2. nextHop(Native, Injected, None) # None
        BY <1>4, NativeKnows, Nodes DEF IInv
    <2> QED BY <1>1, <2>1, <2>2 DEF Undelivered
<1>12. poll_refresh' \in PollQueue
    <2> DEFINE S == [id : IdsAt({"PollRefresh", "PollRefresh1", "PollRefresh2"}), refreshed : BOOLEAN]
    <2>1. waiting \in Seq(S) /\ n \in 0..Len(waiting)
        BY DEF PollQueue, Queue
    <2> HIDE DEF S
    <2>2. SubSeq(waiting, n + 1, Len(waiting)) \in Seq(S)
        BY <2>1
    <2> QED BY <1>6, <2>2 DEF S, PollQueue, Queue
<1>13. QueuesOK'
    BY <1>3, <1>6, <1>12 DEF IInv, App, QueuesOK, PollQueue
<1>14. hid' \in HidPlaces \ {"none"} /\ {listed', elapsed', seen'} \subseteq BOOLEAN
    BY <1>1, <1>6, RunsOn DEF HidPlaces
<1> QED BY <1>1, <1>4, <1>10, <1>11, <1>13, <1>14, RunsOn, ProcessKept DEF pageVars

LEMMA SelectPollRefreshIInv ==
    ASSUME IInv, SelectPollRefresh, UNCHANGED usb
    PROVE  IInv'
<1> DEFINE reply == Reply("PollRefresh", Head(poll_refresh).id, TRUE)
<1>1. /\ hid = "process_requests" /\ poll_refresh # <<>> /\ request_device' = request_device
      /\ Resume(reply, None, elapsed, Tail(poll_refresh))
      /\ UNCHANGED <<pageVars, storage, popup, listed, subscribe, seen>>
    BY DEF SelectPollRefresh
<1>2. /\ Tail(poll_refresh) \in PollQueue
      /\ Head(poll_refresh) \in [id : IdsAt({"PollRefresh", "PollRefresh1", "PollRefresh2"}), refreshed : BOOLEAN]
    BY <1>1, TailOf DEF IInv, App, QueuesOK, Queue, PollQueue
<1>3. reply \in PageResponses
    <2>1. Head(poll_refresh).id \in PageIds
        BY <1>2 DEF IdsAt
    <2> QED BY <2>1, ReplyIs DEF RequestNames
<1>4. ~Early /\ elapsed \in BOOLEAN /\ None # Background /\ request_device' \in Queue({"RequestDevice"})
    BY <1>1, RunsOn, Nodes DEF Early, IInv, App, QueuesOK
<1> HIDE DEF reply
<1> QED BY <1>1, <1>2, <1>3, <1>4, ResumeIInv

LEMMA AnsweredIInv ==
    ASSUME IInv, ~Early, request_device # <<>>, NEW ok \in BOOLEAN, NEW late, late \in BOOLEAN, Answered(ok, late),
           MayTake(Native, Background), UNCHANGED <<pageVars, storage, popup, listed, subscribe, seen, usb>>
    PROVE  IInv'
<1> DEFINE reply == Reply("RequestDevice", Head(request_device).id, ok)
<1>1. request_device' = Tail(request_device) /\ Resume(reply, Background, late, poll_refresh)
    BY DEF Answered
<1>2. /\ Tail(request_device) \in Queue({"RequestDevice"})
      /\ Head(request_device) \in [id : IdsAt({"RequestDevice"}), refreshed : BOOLEAN]
      /\ poll_refresh \in PollQueue
    BY TailOf DEF IInv, App, QueuesOK, Queue, PollQueue
<1>3. reply \in PageResponses
    <2>1. Head(request_device).id \in PageIds
        BY <1>2 DEF IdsAt
    <2> QED BY <2>1, ReplyIs DEF RequestNames
<1> HIDE DEF reply
<1> QED BY <1>1, <1>2, <1>3, ResumeIInv

LEMMA PopupFailedIInv ==
    ASSUME IInv, PopupFailed, UNCHANGED usb
    PROVE  IInv'
<1>1. hid \in {"OpenPopup", "RequestAccess"} /\ MayTake(Native, Background)
    BY AwaitedIs DEF PopupFailed
<1>2. PICK late \in {elapsed, TRUE} : Answered(FALSE, late)
    BY DEF PopupFailed
<1>3. late \in BOOLEAN /\ ~Early /\ request_device # <<>>
    BY <1>1, RunsOn DEF Early, IInv, App, QueuesOK
<1> QED BY <1>1, <1>2, <1>3, AnsweredIInv DEF PopupFailed

LEMMA AllowedStoredIInv ==
    ASSUME IInv, AllowedStored, UNCHANGED usb
    PROVE  IInv'
<1>1. hid = "StorageSet" /\ MayTake(Native, Background)
    BY AwaitedIs DEF AllowedStored
<1>2. ~Early /\ request_device # <<>> /\ elapsed \in BOOLEAN
    BY <1>1, RunsOn DEF Early, IInv, App, QueuesOK
<1> QED BY <1>1, <1>2, AnsweredIInv DEF AllowedStored

-----------------------------------------------------------------------------
(* The page.                                                                 *)

LEMMA PageKept ==
    ASSUME IInv, Net', FineOK', UNCHANGED <<conn, routes, lost, granted, storage, popup, nativeVars, usb>>,
           page' \in [Caller -> PagePlaces], devices' \in BOOLEAN,
           page'[0] = "ready" => routes[Injected][Native] # <<>>,
           Early => page'[0] \notin {"ready", "PollRefresh"}
    PROVE  IInv'
<1> USE DEF IInv, App, nativeVars
<1>1. AskedOK'
    BY DEF AskedOK, Early
<1>2. QueuesOK' /\ PopupOK' /\ PlacesOK' /\ NothingLost'
    BY DEF QueuesOK, PopupOK, PlacesOK, NothingLost, usb
<1> QED BY <1>1, <1>2

LEMMA PageIs ==
    ASSUME IInv
    PROVE  /\ page \in [Caller -> PagePlaces] /\ devices \in BOOLEAN /\ 0 \in Caller
           /\ page[0] = "ready" => routes[Injected][Native] # <<>>
           /\ Early => page[0] \notin {"ready", "PollRefresh"}
BY HidFoxAssumption DEF IInv, App, AskedOK, PlacesOK, Caller

\* The page asks, from being the node whose packet it handles.
LEMMA AsksIInv ==
    ASSUME IInv, NEW c \in Caller, NEW pc \in DOMAIN Following, NEW to \in {Background, Native},
           NEW from \in {None, Content}, Asks(c, pc, to, from),
           from = Content => MayTake(Injected, Content),
           pc = "OpenNative" <=> to = Background, pc = "RequestDevice" => c # 0,
           to = Native => routes[Injected][Native] # <<>>,
           to = Background => routes[Injected][Background] # <<>>,
           Early => pc \in {"OpenNative", "SubscribeHid"},
           UNCHANGED <<devices, granted, storage, popup, nativeVars, usb>>
    PROVE  IInv'
<1> DEFINE i == [caller |-> c, at |-> pc]
           p == Request(RequestOf(pc), Injected, to, i, FALSE)
<1>1. Answer(Injected, from, p) /\ page' = [page EXCEPT ![c] = pc] /\ routes' = routes
    BY DEF Asks, Answer
<1>2. Early' => Early
    BY DEF Early, nativeVars
<1>3. i \in PageIds
    BY DEF PageIds
<1>4. RequestOf(pc) \in RequestNames /\ (RequestOf(pc) = "OpenNative" <=> pc = "OpenNative")
    BY FollowingIs DEF RequestOf
<1>5. p \in PageRequests /\ p.receiver = to /\ p.id = i /\ i.at = pc
    <2> HIDE DEF i
    <2>1. i.at = pc
        BY DEF i
    <2> QED BY <1>3, <1>4, <2>1, Nodes DEF PageRequests, Request
<1> HIDE DEF p, i
<1>6. nextHop(Injected, p.receiver, None) = Content /\ p \in Proper(Injected, Content)
    BY <1>1, <1>2, <1>5, PageAsks DEF IInv
<1>7. from # Injected /\ (from \in Address => MayTake(Injected, from))
    BY Nodes
<1>8. Net' /\ FineOK' /\ UNCHANGED <<conn, routes, lost>>
    BY <1>1, <1>2, <1>6, <1>7, AnswerSays, Nodes DEF IInv, App
<1>9. page' \in [Caller -> PagePlaces]
    BY <1>1, PageIs DEF PagePlaces
<1>10. page'[0] = "ready" => page[0] = "ready"
    BY <1>1, PageIs, FollowingIs
<1>11. Early => page'[0] \notin {"ready", "PollRefresh"}
    BY <1>1, PageIs
<1> QED BY <1>8, <1>9, <1>10, <1>11, PageIs, PageKept

LEMMA WaitForBackgroundIInv ==
    ASSUME IInv, WaitForBackground, UNCHANGED usb
    PROVE  IInv'
<1>1. "OpenNative" \in DOMAIN Following
    BY FollowingIs
<1>2. 0 \in Caller /\ None # Content /\ Background # Native
    BY PageIs, Nodes
<1>3. routes[Injected][Background] # <<>> /\ Asks(0, "OpenNative", Background, None)
      /\ UNCHANGED <<devices, granted, storage, popup, nativeVars>>
    BY DEF WaitForBackground
<1> QED BY <1>1, <1>2, <1>3, AsksIInv

LEMMA requestDeviceIInv ==
    ASSUME IInv, NEW c \in Caller, requestDevice(c), UNCHANGED usb
    PROVE  IInv'
<1>1. "RequestDevice" \in DOMAIN Following
    BY FollowingIs
<1>2. routes[Injected][Native] # <<>> /\ ~Early
    BY PageIs DEF requestDevice
<1>3. c # 0 /\ Asks(c, "RequestDevice", Native, None) /\ UNCHANGED <<devices, granted, storage, popup, nativeVars>>
    BY DEF requestDevice
<1>4. None # Content /\ Background # Native
    BY Nodes
<1> QED BY <1>1, <1>2, <1>3, <1>4, AsksIInv

LEMMA PageAnswerIInv ==
    ASSUME IInv, PageAnswer, UNCHANGED usb
    PROVE  IInv'
<1> DEFINE p == Packet(Injected, Content)
           c == p.id.caller
           next == Following[p.id.at]
<1>1. /\ p \in FromBackground /\ p.kind = "Response" /\ MayTake(Injected, Content)
      /\ routes[Injected][Native] # <<>> /\ Fine(Content, p) /\ p.receiver = Injected
    BY AtPage DEF PageAnswer, IInv, App
<1>2. UNCHANGED <<devices, granted, storage, popup, nativeVars, usb>>
    BY DEF PageAnswer
<1>3. \/ page' = page /\ Take(Injected, Content)
      \/ page' = [page EXCEPT ![c] = "failed"] /\ Take(Injected, Content)
      \/ next # "ready" /\ Asks(c, next, Native, Content)
      \/ next = "ready" /\ page' = [page EXCEPT ![c] = "ready"] /\ Take(Injected, Content)
    BY DEF PageAnswer
<1> HIDE DEF p
<1>4. p.id \in PageIds
    BY <1>1 DEF FromBackground, PageResponses, Notices
<1>5. c \in Caller /\ p.id.at \in DOMAIN Following
    BY <1>4 DEF PageIds
<1>6. Early => next = "SubscribeHid"
    BY <1>1, FollowingIs DEF Fine
<1>7. next \in {"SubscribeHid", "PollRefresh", "PollRefresh1", "PollRefresh2", "ready"}
    BY <1>5, FollowingIs
<1> HIDE DEF c, next
<1>8. ASSUME Take(Injected, Content), NEW pc \in PagePlaces, page' \in {page, [page EXCEPT ![c] = pc]},
             pc \in {"failed", "ready"}, Early => pc # "ready"
      PROVE  IInv'
    <2>1. Net' /\ FineOK' /\ UNCHANGED <<conn, routes, lost>>
        BY <1>1, <1>2, <1>8, TakeSays, Nodes DEF IInv, App, Early, nativeVars
    <2>2. page' \in [Caller -> PagePlaces] /\ (Early => page'[0] \notin {"ready", "PollRefresh"})
        BY <1>8, PageIs
    <2> QED BY <1>1, <1>2, <2>1, <2>2, PageIs, PageKept
<1>9. CASE page' \in {page, [page EXCEPT ![c] = "failed"]} /\ Take(Injected, Content)
    <2>1. "failed" \in PagePlaces
        BY DEF PagePlaces
    <2> QED BY <1>8, <1>9, <2>1
<1>10. CASE next = "ready" /\ page' = [page EXCEPT ![c] = "ready"] /\ Take(Injected, Content)
    <2>1. "ready" \in PagePlaces
        BY DEF PagePlaces
    <2> QED BY <1>6, <1>8, <1>10, <2>1
<1>11. CASE next # "ready" /\ Asks(c, next, Native, Content)
    <2>1. next \in DOMAIN Following /\ next \notin {"OpenNative", "RequestDevice"}
        BY <1>7, <1>11, FollowingIs
    <2>2. (next = "OpenNative" <=> Native = Background) /\ Content \in {None, Content} /\ Native \in {Background, Native}
        BY <2>1, Nodes
    <2> QED BY <1>1, <1>2, <1>5, <1>6, <1>11, <2>1, <2>2, AsksIInv, Nodes
<1> QED BY <1>3, <1>9, <1>10, <1>11

LEMMA NoticedIInv ==
    ASSUME IInv, NEW name, Received(Injected, Content, "Notification", name), Take(Injected, Content),
           devices' \in BOOLEAN, UNCHANGED <<page, granted, storage, popup, nativeVars, usb>>
    PROVE  IInv'
<1>1. MayTake(Injected, Content)
    BY AtPage DEF Received, IInv, App
<1>2. Net' /\ FineOK' /\ UNCHANGED <<conn, routes, lost>>
    BY <1>1, TakeSays, Nodes DEF IInv, App, Early, nativeVars
<1> QED BY <1>2, PageIs, PageKept

LEMMA PageTimeoutIInv ==
    ASSUME IInv, NEW c \in Caller, PageTimeout(c), UNCHANGED usb
    PROVE  IInv'
<1>1. page' = [page EXCEPT ![c] = "failed"] /\ UNCHANGED <<network, devices, granted, storage, popup, nativeVars>>
    BY DEF PageTimeout
<1>2. Net' /\ FineOK'
    BY <1>1, NetworkKept DEF IInv, App, Early, nativeVars
<1>3. page' \in [Caller -> PagePlaces] /\ page'[0] \in {page[0], "failed"}
    BY <1>1, PageIs DEF PagePlaces
<1> QED BY <1>1, <1>2, <1>3, PageIs, PageKept DEF network

LEMMA UnchangedIInv ==
    ASSUME IInv, UNCHANGED <<network, pageVars, storage, popup, nativeVars, seen>>, plugged' \in BOOLEAN
    PROVE  IInv'
<1>1. Net' /\ FineOK'
    BY NetworkKept DEF IInv, App, Early, nativeVars
<1>2. QueuesOK' /\ AskedOK' /\ PopupOK' /\ PlacesOK' /\ NothingLost'
    BY DEF IInv, App, QueuesOK, AskedOK, PopupOK, PlacesOK, NothingLost, Early, network, pageVars, nativeVars
<1> QED BY <1>1, <1>2 DEF IInv, App

-----------------------------------------------------------------------------
(* The invariant of the whole.                                               *)

LEMMA InitIInv == Init => IInv
<1> SUFFICES ASSUME Init PROVE IInv
    OBVIOUS
<1> USE DEF Init
<1>1. /\ \A x \in Address : conn[x] = IF x = Injected THEN {Content} ELSE {}
      /\ \A x, a \in Address : routes[x][a] = IF x = Injected /\ a = Content THEN <<Direct>> ELSE <<>>
      /\ \A x, y \in Address : chan[x][y] = <<>>
    BY DEF Nothing
<1>2. Types
    <2>1. ChanOK
        <3>1. \A x, y \in Address : <<>> \in Seq(PacketsOn(x, y))
            OBVIOUS
        <3>2. chan = [x \in Address |-> [y \in Address |-> <<>>]]
            BY DEF Nothing
        <3>3. chan = [x \in Address |-> [y \in Address |-> chan[x][y]]]
            BY <3>2
        <3> QED BY <1>1, <3>1, <3>3 DEF ChanOK
    <2>2. ConnOK
        BY <1>1, Nodes DEF ConnOK
    <2>3. RoutesOK
        <3>1. routes = [x \in Address |-> [a \in Address |-> routes[x][a]]]
            OBVIOUS
        <3>2. \A x, a \in Address : RouteOK(x, a)
            BY <1>1, Nodes DEF RouteOK
        <3> QED BY <3>1, <3>2 DEF RoutesOK
    <2> QED BY <2>1, <2>2, <2>3 DEF Types
<1>3. AgreeOK
    <2>1. ASSUME NEW x \in Address, NEW y \in Address, NEW a \in Address, Announces(x, y, a) PROVE Agree(x, y, a)
        <3>1. ~Believes(<<>>, a, <<>>, x)
            BY ContainsShort DEF Believes
        <3>2. routes[x][a] = <<>> /\ routes[y][a] = <<>> /\ chan[x][y] = <<>>
            BY <1>1, <2>1, Nodes DEF Announces
        <3> QED BY <3>1, <3>2 DEF Agree
    <2> QED BY <2>1 DEF AgreeOK
<1>4. QuietOK /\ KnownFirst /\ CloseOK
    <2>1. QuietOK
        BY <1>1 DEF QuietOK
    <2>2. KnownFirst
        <3>1. \A s : First(<<>>, s)
            BY Notified
        <3> QED BY <1>1, <3>1 DEF KnownFirst
    <2>3. CloseOK
        BY <1>1, Nodes DEF CloseOK
    <2> QED BY <2>1, <2>2, <2>3
<1>5. QueuesOK
    <2>1. \A S : <<>> \in Seq(S)
        OBVIOUS
    <2> QED BY <2>1 DEF QueuesOK, Queue
<1>6. FineOK
    BY <1>1 DEF FineOK
<1>7. AskedOK /\ PopupOK
    BY <1>1, Nodes, HidFoxAssumption DEF AskedOK, PopupOK, PopupPlaces, Early, Caller
<1>8. PlacesOK /\ NothingLost
    BY DEF PlacesOK, NothingLost, PagePlaces, HidPlaces
<1> QED BY <1>2, <1>3, <1>4, <1>5, <1>6, <1>7, <1>8 DEF IInv, Net, App

LEMMA NextIInv == IInv /\ [Next]_vars => IInv'
<1> SUFFICES ASSUME IInv, [Next]_vars PROVE IInv'
    OBVIOUS
<1>1. CASE Network /\ UNCHANGED usb
    <2>1. PICK x \in Address, n \in Address : OnAddForwarded(x, n) \/ OnRemoveForwarded(x, n) \/ Forward(x, n)
        BY <1>1 DEF Network
    <2> QED BY <1>1, <2>1, OnAddForwardedIInv, OnRemoveForwardedIInv, ForwardIInv
<1>2. CASE Browser /\ UNCHANGED usb
    BY <1>2, ContentOnConnectIInv, BackgroundOnConnectIInv, OpenNativeIInv, StorageGetIInv, StorageSetIInv,
       OpenPopupIInv, PopupOnConnectIInv, PopupOpeningTimeoutIInv, RemovePopupIInv, AnswerAccessIInv,
       DismissPopupIInv, DiscardForPopupIInv DEF Browser
<1>3. CASE Process /\ UNCHANGED usb
    BY <1>3, NativeMainIInv, NativeRequestIInv, OpenFromInjectIInv, HeloIInv, SubscribeHidIInv, WatchDevicesIInv,
       SelectDelayIInv, SelectPollRefreshIInv, SelectRequestDeviceIInv, PopupFailedIInv, PopupOpenedIInv,
       RequestAccessIInv, AccessGivenIInv, ExtendAllowedIInv, AllowedStoredIInv DEF Process
<1>4. CASE Page /\ UNCHANGED usb
    <2>1. CASE AddedDevice
        BY <1>4, <2>1, NoticedIInv DEF AddedDevice
    <2>2. CASE RemovedDevice
        BY <1>4, <2>2, NoticedIInv DEF RemovedDevice
    <2> QED BY <1>4, <2>1, <2>2, WaitForBackgroundIInv, PageAnswerIInv DEF Page
<1>5. CASE Delay /\ UNCHANGED usb
    BY <1>5, DelayIInv
<1>6. CASE (\E c \in Caller : PageTimeout(c) \/ requestDevice(c)) /\ UNCHANGED usb
    BY <1>6, PageTimeoutIInv, requestDeviceIInv
<1>7. CASE Plug
    <2>1. plugged' \in BOOLEAN
        BY <1>7 DEF Plug
    <2> QED BY <1>7, <2>1, UnchangedIInv DEF Plug, nativeVars
<1>8. CASE UNCHANGED vars
    <2>1. plugged' \in BOOLEAN
        BY <1>8 DEF vars, usb, IInv, App, PlacesOK
    <2> QED BY <1>8, <2>1, UnchangedIInv DEF vars, nativeVars
<1> QED BY <1>1, <1>2, <1>3, <1>4, <1>5, <1>6, <1>7, <1>8 DEF Next

\* Of every state of the extension: what is on its way on each link, the tables at
\* its ends and what the processes wait for agree (src/addon/rpc.ts, src/src/main.rs).
THEOREM SpecIInv == Spec => []IInv
<1> QED BY InitIInv, NextIInv, PTL DEF Spec

\* The types, and that packets are only on the links there are.
THEOREM SpecTypeOK == Spec => []TypeOK
<1>1. ASSUME IInv PROVE TypeOK
    <2>1. ASSUME NEW x \in Address, NEW a \in Address
          PROVE  /\ routes[x][a] \in Seq(Via) /\ IsInjective(routes[x][a])
                 /\ chan[x][a] # <<>> => {x, a} \in Links
        <3>1. routes[x][a] = <<>> \/ (\E v \in Via : routes[x][a] = <<v>>) \/ routes[x][a] = <<Direct, Background>>
            <4>1. RouteOK(x, a) /\ conn[x] \subseteq Address
                BY <1>1 DEF IInv, Net, Types, RoutesOK, ConnOK
            <4> QED BY <4>1 DEF RouteOK, Via
        <3>2. \A v \in Via : <<v>> \in Seq(Via) /\ IsInjective(<<v>>)
            BY DEF IsInjective
        <3>3. <<Direct, Background>> \in Seq(Via) /\ IsInjective(<<Direct, Background>>)
            BY Nodes DEF IsInjective, Via
        <3>4. <<>> \in Seq(Via) /\ IsInjective(<<>>)
            BY DEF IsInjective
        <3>5. {x, a} \notin Links => chan[x][a] = <<>>
            <4>1. {x, a} \notin Links => PacketsOn(x, a) = {}
                <5>1. SUFFICES ASSUME {x, a} \notin Links PROVE PacketsOn(x, a) = {}
                    OBVIOUS
                <5>2. \A b : ~Announces(x, a, b)
                    BY <5>1 DEF Announces, Links
                <5>3. Data(x, a) = {}
                    BY <5>1 DEF Data, Links
                <5> QED BY <5>2, <5>3 DEF PacketsOn, Announcements
            <4>2. chan[x][a] \in Seq(PacketsOn(x, a))
                BY <1>1 DEF IInv, Net, Types, ChanOK
            <4>3. \A s \in Seq({}) : s = <<>>
                OBVIOUS
            <4> QED BY <4>1, <4>2, <4>3
        <3> QED BY <3>1, <3>2, <3>3, <3>4, <3>5
    <2>2. conn \in [Address -> SUBSET Address]
        BY <1>1 DEF IInv, Net, Types, ConnOK
    <2> QED BY <1>1, <2>1, <2>2 DEF TypeOK, IInv, App, PlacesOK, PopupOK
<1> QED BY SpecIInv, <1>1, PTL

\* Only the greeting nobody handles and what is meant for a popup that is gone is
\* lost.
THEOREM SpecNothingLost == Spec => []NothingLost
<1>1. IInv => NothingLost
    BY DEF IInv, App
<1> QED BY SpecIInv, <1>1, PTL

\* With nothing under way the tables of neighbours agree.
LEMMA Quiet ==
    ASSUME IInv, \A x \in Address : chan[x] = Nothing, NEW x \in Address, NEW y \in Address, NEW a \in Address,
           Announces(x, y, a)
    PROVE  /\ y \in conn[x] /\ routes[x][a] # <<>> => routes[y][a] # <<>>
           /\ a # Popup \/ y # Native => (Contains(routes[y][a], x) => routes[x][a] # <<>>)
<1>1. chan[x][y] = <<>> /\ chan[Popup][Background] = <<>>
    BY Nodes DEF Nothing
<1>2. Believes(<<>>, a, routes[y][a], x) <=> Contains(routes[y][a], x)
    BY DEF Believes
<1>3. Agree(x, y, a)
    BY DEF IInv, Net, AgreeOK
<1>4. y \in conn[x] => Linked(x, y)
    <2>1. Popup \in conn[Background] => conn[Popup] # {}
        BY <1>1 DEF IInv, Net, CloseOK
    <2>2. y = Popup => x = Background
        BY Nodes DEF Announces
    <2> QED BY <2>1, <2>2 DEF Linked
<1> QED BY <1>1, <1>2, <1>3, <1>4, ContainsShort DEF Agree

\* Once nothing is under way each JavaScript node has a route to exactly the nodes
\* that are there.
THEOREM SpecConverged == Spec => []Converged
<1>1. ASSUME IInv PROVE Converged
    <2> DEFINE linked == {n \in Address : conn[n] # {}}
    <2>1. SUFFICES ASSUME conn[Content] # {}, \A x \in Address : chan[x] = Nothing
          PROVE  /\ \A x \in linked : \A a \in linked \ {x} : routes[x][a] # <<>>
                 /\ \A x \in linked \ {Native} : \A a \in Address \ linked : routes[x][a] = <<>>
        BY DEF Converged
    <2>2. ASSUME NEW x \in Address, NEW a \in conn[x] PROVE a \in Address /\ routes[x][a] # <<>>
        <3>1. a \in Address
            BY <1>1, <2>2 DEF IInv, Net, Types, ConnOK
        <3>2. RouteOK(x, a)
            BY <1>1, <3>1 DEF IInv, Net, Types, RoutesOK
        <3> QED BY <2>2, <3>1, <3>2 DEF RouteOK
    <2>3. \A x, a \in Address : routes[x][a] # <<>> => conn[x] # {}
        BY <1>1, NoNeighbours DEF IInv, Net, Types
    <2>4. conn[Content] = {Background, Injected} /\ conn[Injected] = {Content}
        BY <1>1, <2>1 DEF IInv, Net, Types, ConnOK
    <2>5. routes[Background][Injected] # <<>> /\ conn[Background] # {} /\ Content \in conn[Background]
        <3>1. Announces(Content, Background, Injected) /\ routes[Content][Injected] # <<>>
            BY <2>2, <2>4, Nodes DEF Announces
        <3>2. routes[Background][Injected] # <<>>
            BY <1>1, <2>1, <2>4, <3>1, Quiet, Nodes
        <3> QED BY <1>1, <2>3, <3>2, Nodes DEF IInv, Net, Types, ConnOK
    <2>6. \A y, a \in Address : Announces(Background, y, a) /\ y \in conn[Background] /\ routes[Background][a] # <<>>
              => routes[y][a] # <<>>
        BY <1>1, <2>1, Quiet, Nodes
    <2>7. /\ Native \in linked <=> Native \in conn[Background]
          /\ Popup \in linked <=> Popup \in conn[Background]
        <3>1. Native \in linked => Native \in conn[Background]
            BY <1>1 DEF IInv, Net, Types, ConnOK
        <3>2. Popup \in linked => Popup \in conn[Background]
            BY <1>1 DEF IInv, Net, Types, ConnOK
        <3>3. ASSUME NEW n \in {Native, Popup}, n \in conn[Background] PROVE n \in linked
            <4>1. Announces(Background, n, Content) /\ routes[Background][Content] # <<>>
                BY <2>2, <2>5, Nodes DEF Announces
            <4>2. routes[n][Content] # <<>>
                BY <2>6, <3>3, <4>1, Nodes
            <4> QED BY <2>3, <4>2, Nodes
        <3> QED BY <3>1, <3>2, <3>3
    <2>8. {Injected, Content, Background} \subseteq linked
        BY <2>4, <2>5, Nodes
    \* What the background page has a route to the content script and the page have.
    <2>9. ASSUME NEW a \in {Background, Native, Popup}, a \in linked
          PROVE  routes[Content][a] # <<>> /\ routes[Injected][a] # <<>>
        <3>1. routes[Content][a] # <<>>
            <4>1. CASE a = Background
                BY <2>2, <2>4, <4>1, Nodes
            <4>2. CASE a # Background
                <5>1. routes[Background][a] # <<>> /\ Announces(Background, Content, a)
                    BY <2>2, <2>7, <2>9, <4>2, Nodes DEF Announces
                <5> QED BY <2>5, <2>6, <5>1, Nodes
            <4> QED BY <4>1, <4>2
        <3>2. Announces(Content, Injected, a)
            BY Nodes DEF Announces
        <3> QED BY <1>1, <2>1, <2>4, <3>1, <3>2, Quiet, Nodes
    <2>10. ASSUME NEW x \in linked, NEW a \in linked \ {x} PROVE routes[x][a] # <<>>
        <3>1. CASE x = Injected
            BY <2>2, <2>4, <2>9, <2>10, <3>1, Nodes
        <3>2. CASE x = Content
            BY <2>2, <2>4, <2>9, <2>10, <3>2, Nodes
        <3>3. CASE x = Background
            BY <2>2, <2>5, <2>7, <2>10, <3>3, Nodes
        <3>4. CASE x \in {Native, Popup}
            <4>1. x \in conn[Background]
                BY <2>7, <2>10, <3>4
            <4>2. CASE a = Background
                <5>1. Background \in conn[x]
                    BY <1>1, <2>10, <3>4, Nodes DEF IInv, Net, Types, ConnOK
                <5> QED BY <2>2, <4>2, <5>1
            <4>3. CASE a # Background
                <5>1. routes[Background][a] # <<>>
                    BY <2>2, <2>5, <2>7, <2>10, <4>3, Nodes
                <5>2. Announces(Background, x, a)
                    BY <2>10, <3>4, <4>3, Nodes DEF Announces
                <5> QED BY <2>6, <2>10, <4>1, <5>1, <5>2
            <4> QED BY <4>2, <4>3
        <3> QED BY <3>1, <3>2, <3>3, <3>4, Nodes
    <2>11. ASSUME NEW x \in linked \ {Native}, NEW a \in Address \ linked PROVE routes[x][a] = <<>>
        <3>1. a \in {Native, Popup} /\ a \notin conn[Background]
            BY <2>7, <2>8, <2>11, Nodes
        <3>2. routes[Background][a] = <<>>
            BY <1>1, <3>1, NotYetAdded DEF IInv
        <3>3. routes[Content][a] = <<>>
            <4>1. SUFFICES ASSUME routes[Content][a] # <<>> PROVE FALSE
                OBVIOUS
            <4>2. Announces(Background, Content, a) /\ a \notin conn[Content]
                BY <2>4, <3>1, Nodes DEF Announces
            <4>3. Contains(routes[Content][a], Background)
                BY <1>1, <4>1, <4>2, Way, Nodes DEF IInv
            <4> QED BY <1>1, <2>1, <3>2, <4>2, <4>3, Quiet, Nodes
        <3>4. routes[Injected][a] = <<>>
            <4>1. SUFFICES ASSUME routes[Injected][a] # <<>> PROVE FALSE
                OBVIOUS
            <4>2. Announces(Content, Injected, a) /\ a \notin conn[Injected]
                BY <2>4, <3>1, Nodes DEF Announces
            <4>3. Contains(routes[Injected][a], Content)
                BY <1>1, <4>1, <4>2, Way, Nodes DEF IInv
            <4> QED BY <1>1, <2>1, <3>3, <4>2, <4>3, Quiet, Nodes
        <3>5. x # Popup
            <4>1. x = Popup => Native \in conn[Background]
                BY <1>1, <2>7, <2>11, Nodes DEF IInv, Net, Types, ConnOK
            <4> QED BY <2>7, <2>11, <3>1, <4>1
        <3> QED BY <2>11, <3>2, <3>3, <3>4, <3>5, Nodes
    <2> QED BY <2>10, <2>11
<1> QED BY SpecIInv, <1>1, PTL

-----------------------------------------------------------------------------
(* From here on: what hid() waits for, in which order the calls of the page  *)
(* are answered, and when the page hears of the device.  Three kinds of      *)
(* packets matter for that.                                                  *)

AskPackets == NativeRequests \cup AccessRequests \cup NativeResponses
CallIds == {i \in PageIds : i.caller # 0 /\ i.at \in {"RequestDevice", "PollRefresh1", "PollRefresh2"}}
CallPackets == {p \in PageRequests \cup PageResponses : p.id \in CallIds}
Matters == AskPackets \cup CallPackets \cup Notices

LEMMA MattersIs ==
    ASSUME NEW p \in Matters
    PROVE  /\ p.kind \in {"Request", "Response", "Notification"}
           /\ p \in AskPackets <=> \/ p.kind = "Request" /\ p.sender = Native
                                   \/ p.kind = "Response" /\ p.receiver = Native
           /\ p \in CallPackets <=> \/ p.kind = "Request" /\ p.sender = Injected
                                    \/ p.kind = "Response" /\ p.receiver = Injected
           /\ p \in Notices <=> p.kind = "Notification"
<1>1. ASSUME p \in AskPackets
      PROVE  \/ p.kind = "Request" /\ p.sender = Native
             \/ p.kind = "Response" /\ p.receiver = Native
    BY <1>1 DEF AskPackets, NativeRequests, AccessRequests, NativeResponses
<1>2. ASSUME p \in CallPackets
      PROVE  \/ p.kind = "Request" /\ p.sender = Injected
             \/ p.kind = "Response" /\ p.receiver = Injected
    BY <1>2 DEF CallPackets, PageRequests, PageResponses
<1>3. ASSUME p \in Notices PROVE p.kind = "Notification"
    BY <1>3 DEF Notices
<1>4. p \in AskPackets \/ p \in CallPackets \/ p \in Notices
    BY DEF Matters
<1> QED BY <1>1, <1>2, <1>3, <1>4, Nodes

\* On a port with the packets q before a step and r after it, those of K stay, in
\* their order.
SameOn(K, q, r) ==
    \E s \in {0, 1} :
        /\ \A i \in 1..Len(r) : r[i] \in K => i + s \in 1..Len(q) /\ q[i + s] = r[i]
        /\ \A i \in 1..Len(q) : q[i] \in K => i - s \in 1..Len(r) /\ r[i - s] = q[i]
Same(K) == \A x, y \in Address : SameOn(K, chan[x][y], chan'[x][y])

\* A step sends nothing of K.
Lacks(K, out) ==
    \A y \in Address : IsSequence(out[y]) /\ \A i \in 1..Len(out[y]) : out[y][i] \notin K

LEMMA SameNone ==
    ASSUME NEW S, NEW q \in Seq(S), NEW K
    PROVE  SameOn(K, q, q)
<1>1. \A i \in 1..Len(q) : i + 0 = i /\ i - 0 = i
    OBVIOUS
<1> QED BY <1>1 DEF SameOn

LEMMA SameRest ==
    ASSUME NEW S, NEW q \in Seq(S), q # <<>>, NEW K, Head(q) \notin K
    PROVE  SameOn(K, q, Rest(q))
<1>1. \A i \in 1..Len(Rest(q)) : i + 1 \in 1..Len(q) /\ q[i + 1] = Rest(q)[i]
    BY RestElements
<1>2. \A i \in 1..Len(q) : q[i] \in K => i - 1 \in 1..Len(Rest(q)) /\ Rest(q)[i - 1] = q[i]
    BY RestElements
<1> QED BY <1>1, <1>2 DEF SameOn

LEMMA SameJoined ==
    ASSUME NEW S, NEW q \in Seq(S), NEW o, IsSequence(o), NEW K, \A i \in 1..Len(o) : o[i] \notin K
    PROVE  SameOn(K, q, Joined(q, o))
<1>1. PICK T : o \in Seq(T)
    BY DEF IsSequence
<1>2. q \in Seq(S \cup T) /\ o \in Seq(S \cup T)
    BY <1>1
<1>3. /\ Len(q) \in Nat /\ Len(Joined(q, o)) = Len(q) + Len(o) /\ Len(o) \in Nat
      /\ \A i \in 1..Len(q) : i \in 1..Len(Joined(q, o)) /\ Joined(q, o)[i] = q[i]
      /\ \A i \in 1..Len(Joined(q, o)) : i > Len(q) => Joined(q, o)[i] \notin K
    BY <1>2, JoinedElements
<1>4. \A i \in 1..Len(Joined(q, o)) : Joined(q, o)[i] \in K => i + 0 \in 1..Len(q) /\ q[i + 0] = Joined(q, o)[i]
    BY <1>3
<1>5. \A i \in 1..Len(q) : q[i] \in K => i - 0 \in 1..Len(Joined(q, o)) /\ Joined(q, o)[i - 0] = q[i]
    BY <1>3
<1> QED BY <1>4, <1>5 DEF SameOn

LEMMA JoinedHas ==
    ASSUME NEW S, NEW q \in Seq(S), NEW o, IsSequence(o)
    PROVE  /\ Len(q) \in Nat /\ Len(o) \in Nat
           /\ \A i \in 1..Len(q) : i \in 1..Len(Joined(q, o)) /\ Joined(q, o)[i] = q[i]
           /\ \A i \in 1..Len(o) : i + Len(q) \in 1..Len(Joined(q, o)) /\ Joined(q, o)[i + Len(q)] = o[i]
           /\ \A i \in 1..Len(Joined(q, o)) :
                  i > Len(q) => i - Len(q) \in 1..Len(o) /\ Joined(q, o)[i] = o[i - Len(q)]
<1>1. PICK T : o \in Seq(T)
    BY DEF IsSequence
<1>2. q \in Seq(S \cup T) /\ o \in Seq(S \cup T)
    BY <1>1
<1> QED BY <1>2, JoinedElements

LEMMA PortIs ==
    ASSUME ChanOK, NEW x \in Address, NEW y \in Address
    PROVE  chan[x][y] \in Seq(PacketsOn(x, y))
BY DEF ChanOK

LEMMA SameEmit ==
    ASSUME ChanOK, NEW z \in Address, NEW f, f # z, NEW out, Emit(z, f, out), NEW K, Lacks(K, out),
           f \in Address => chan[f][z] # <<>> /\ Head(chan[f][z]) \notin K
    PROVE  Same(K)
<1> SUFFICES ASSUME NEW x \in Address, NEW y \in Address PROVE SameOn(K, chan[x][y], chan'[x][y])
    BY DEF Same
<1> DEFINE q == chan[x][y]
<1>1. q \in Seq(PacketsOn(x, y))
    BY PortIs
<1>2. CASE x = z
    <2>1. chan'[x][y] = Joined(q, out[y])
        BY <1>2, EmitLinks
    <2> QED BY <1>1, <2>1, SameJoined DEF Lacks
<1>3. CASE x = f /\ y = z
    <2>1. chan'[x][y] = Rest(q)
        BY <1>3, EmitLinks
    <2> QED BY <1>1, <1>3, <2>1, SameRest
<1>4. CASE x # z /\ ~(x = f /\ y = z)
    <2>1. chan'[x][y] = q
        BY <1>4, EmitLinks
    <2> QED BY <1>1, <2>1, SameNone
<1> QED BY <1>2, <1>3, <1>4

LEMMA SameUnchanged ==
    ASSUME ChanOK, NEW K, chan' = chan
    PROVE  Same(K)
BY PortIs, SameNone DEF Same

LEMMA SamePart ==
    ASSUME NEW K, NEW L, L \subseteq K, Same(K)
    PROVE  Same(L)
<1> SUFFICES ASSUME NEW x \in Address, NEW y \in Address PROVE SameOn(L, chan[x][y], chan'[x][y])
    BY DEF Same
<1>1. SameOn(K, chan[x][y], chan'[x][y])
    BY DEF Same
<1> QED BY <1>1 DEF SameOn

\* What is under way.
Carried(x, y) == {chan[x][y][i] : i \in 1..Len(chan[x][y])}

LEMMA SameCarried ==
    ASSUME NEW K, Same(K), NEW x \in Address, NEW y \in Address
    PROVE  \A p \in K : p \in Carried(x, y)' <=> p \in Carried(x, y)
<1>1. PICK s \in {0, 1} :
        /\ \A i \in 1..Len(chan'[x][y]) : chan'[x][y][i] \in K => i + s \in 1..Len(chan[x][y]) /\ chan[x][y][i + s] = chan'[x][y][i]
        /\ \A i \in 1..Len(chan[x][y]) : chan[x][y][i] \in K => i - s \in 1..Len(chan'[x][y]) /\ chan'[x][y][i - s] = chan[x][y][i]
    BY DEF Same, SameOn
<1>2. ASSUME NEW p \in K, p \in Carried(x, y)' PROVE p \in Carried(x, y)
    <2>1. PICK i \in 1..Len(chan'[x][y]) : chan'[x][y][i] = p
        BY <1>2 DEF Carried
    <2>2. i + s \in 1..Len(chan[x][y]) /\ chan[x][y][i + s] = p
        BY <1>1, <1>2, <2>1
    <2> QED BY <2>2 DEF Carried
<1>3. ASSUME NEW p \in K, p \in Carried(x, y) PROVE p \in Carried(x, y)'
    <2>1. PICK i \in 1..Len(chan[x][y]) : chan[x][y][i] = p
        BY <1>3 DEF Carried
    <2>2. i - s \in 1..Len(chan'[x][y]) /\ chan'[x][y][i - s] = p
        BY <1>1, <1>3, <2>1
    <2> QED BY <2>2 DEF Carried
<1> QED BY <1>2, <1>3

\* What a step that takes a packet of f and sends out makes of it.
LEMMA EmitCarried ==
    ASSUME ChanOK, NEW z \in Address, NEW f, f # z, NEW out, Emit(z, f, out),
           f \in Address => chan[f][z] # <<>>, \A y \in Address : IsSequence(out[y])
    PROVE  /\ \A x, y \in Address : \A p \in Carried(x, y)' :
                  p \in Carried(x, y) \/ (x = z /\ \E i \in 1..Len(out[y]) : p = out[y][i])
           /\ \A x, y \in Address : \A p \in Carried(x, y) :
                  p \in Carried(x, y)' \/ (x = f /\ y = z /\ p = Head(chan[f][z]))
           /\ \A y \in Address : \A i \in 1..Len(out[y]) : out[y][i] \in Carried(z, y)'
<1>1. ASSUME NEW y \in Address
      PROVE  /\ \A p \in Carried(z, y)' : p \in Carried(z, y) \/ \E i \in 1..Len(out[y]) : p = out[y][i]
             /\ \A p \in Carried(z, y) : p \in Carried(z, y)'
             /\ \A i \in 1..Len(out[y]) : out[y][i] \in Carried(z, y)'
    <2> DEFINE q == chan[z][y]
               r == Joined(q, out[y])
    <2>1. chan'[z][y] = r
        BY EmitLinks
    <2>2. q \in Seq(PacketsOn(z, y)) /\ IsSequence(out[y])
        BY PortIs
    <2>4. /\ Len(q) \in Nat
          /\ \A i \in 1..Len(q) : i \in 1..Len(r) /\ r[i] = q[i]
          /\ \A i \in 1..Len(out[y]) : i + Len(q) \in 1..Len(r) /\ r[i + Len(q)] = out[y][i]
          /\ \A i \in 1..Len(r) : i > Len(q) => i - Len(q) \in 1..Len(out[y]) /\ r[i] = out[y][i - Len(q)]
        <3> HIDE DEF q
        <3> QED BY <2>2, JoinedHas
    <2> HIDE DEF r
    <2>5. \A p \in Carried(z, y)' : p \in Carried(z, y) \/ \E i \in 1..Len(out[y]) : p = out[y][i]
        <3> SUFFICES ASSUME NEW i \in 1..Len(r)
                     PROVE  r[i] \in Carried(z, y) \/ \E j \in 1..Len(out[y]) : r[i] = out[y][j]
            BY <2>1 DEF Carried
        <3>1. CASE i \in 1..Len(q)
            BY <2>4, <3>1 DEF Carried
        <3>2. CASE i > Len(q)
            BY <2>4, <3>2
        <3> QED BY <2>4, <3>1, <3>2
    <2>6. \A p \in Carried(z, y) : p \in Carried(z, y)'
        BY <2>1, <2>4 DEF Carried
    <2>7. \A i \in 1..Len(out[y]) : out[y][i] \in Carried(z, y)'
        <3> SUFFICES ASSUME NEW i \in 1..Len(out[y]) PROVE out[y][i] \in Carried(z, y)'
            OBVIOUS
        <3>1. i + Len(q) \in 1..Len(r) /\ r[i + Len(q)] = out[y][i]
            BY <2>4
        <3> QED BY <2>1, <3>1 DEF Carried
    <2> QED BY <2>5, <2>6, <2>7
<1>2. ASSUME f \in Address
      PROVE  /\ \A p \in Carried(f, z)' : p \in Carried(f, z)
             /\ \A p \in Carried(f, z) : p \in Carried(f, z)' \/ p = Head(chan[f][z])
    <2> DEFINE q == chan[f][z]
    <2>1. chan'[f][z] = Rest(q)
        BY <1>2, EmitLinks
    <2>2. q \in Seq(PacketsOn(f, z)) /\ q # <<>>
        BY <1>2, PortIs
    <2>3. /\ \A i \in 1..Len(Rest(q)) : i + 1 \in 1..Len(q) /\ Rest(q)[i] = q[i + 1]
          /\ \A i \in 1..Len(q) : i # 1 => i - 1 \in 1..Len(Rest(q)) /\ Rest(q)[i - 1] = q[i]
          /\ Head(q) = q[1]
        BY <2>2, RestElements
    <2>4. \A p \in Carried(f, z)' : p \in Carried(f, z)
        BY <2>1, <2>3 DEF Carried
    <2>5. \A p \in Carried(f, z) : p \in Carried(f, z)' \/ p = Head(q)
        <3> SUFFICES ASSUME NEW i \in 1..Len(q), i # 1 PROVE q[i] \in Carried(f, z)'
            BY <2>3 DEF Carried
        <3>1. i - 1 \in 1..Len(Rest(q)) /\ Rest(q)[i - 1] = q[i]
            BY <2>3
        <3> QED BY <2>1, <3>1 DEF Carried
    <2> QED BY <2>4, <2>5
<1>3. \A x, y \in Address : x # z /\ ~(x = f /\ y = z) => Carried(x, y)' = Carried(x, y)
    BY EmitLinks DEF Carried
<1> QED BY <1>1, <1>2, <1>3

LEMMA LacksNothing == ASSUME NEW K PROVE Lacks(K, Nothing)
BY Outs, FineNone DEF Lacks

LEMMA LacksOne ==
    ASSUME NEW K, NEW p, p \notin K
    PROVE  IsSequence(<<p>>) /\ \A i \in 1..Len(<<p>>) : <<p>>[i] \notin K
<1>1. <<p>> \in Seq({p})
    OBVIOUS
<1>2. IsSequence(<<p>>)
    BY <1>1, Zenon DEF IsSequence
<1> QED BY <1>2

LEMMA LacksTo ==
    ASSUME NEW K, NEW h, NEW p, p \notin K
    PROVE  Lacks(K, To(h, p))
<1> SUFFICES ASSUME NEW y \in Address
             PROVE  IsSequence(To(h, p)[y]) /\ \A i \in 1..Len(To(h, p)[y]) : To(h, p)[y][i] \notin K
    BY DEF Lacks
<1>1. To(h, p)[y] \in {<<>>, <<p>>}
    BY Outs
<1> QED BY <1>1, FineNone, LacksOne

LEMMA LacksRouted ==
    ASSUME NEW K, NEW x, NEW p, NEW from, p \notin K
    PROVE  Lacks(K, Routed(x, p, from))
<1>1. Routed(x, p, from) = Nothing \/ \E h : Routed(x, p, from) = To(h, p)
    BY DEF Routed
<1> QED BY <1>1, LacksNothing, LacksTo

LEMMA LacksBoth ==
    ASSUME NEW K, NEW o, NEW q, Lacks(K, o), Lacks(K, q)
    PROVE  Lacks(K, o ++ q)
<1> SUFFICES ASSUME NEW y \in Address
             PROVE  IsSequence((o ++ q)[y]) /\ \A i \in 1..Len((o ++ q)[y]) : (o ++ q)[y][i] \notin K
    BY DEF Lacks
<1> DEFINE s == o[y]
           t == q[y]
           r == Joined(s, t)
<1>1. (o ++ q)[y] = r
    BY Outs
<1>2. /\ IsSequence(s) /\ \A i \in 1..Len(s) : s[i] \notin K
      /\ IsSequence(t) /\ \A i \in 1..Len(t) : t[i] \notin K
    BY DEF Lacks
<1> HIDE DEF s, t
<1>3. PICK S : s \in Seq(S)
    BY <1>2 DEF IsSequence
<1>4. PICK T : t \in Seq(T)
    BY <1>2 DEF IsSequence
<1>5. s \in Seq(S \cup T) /\ t \in Seq(S \cup T)
    BY <1>3, <1>4
<1>6. r \in Seq(S \cup T)
    BY <1>5, JoinedIs
<1>7. IsSequence(r)
    BY <1>6, Zenon DEF IsSequence
<1>8. /\ Len(s) \in Nat
      /\ \A i \in 1..Len(s) : r[i] = s[i]
      /\ \A i \in 1..Len(r) : i > Len(s) => i - Len(s) \in 1..Len(t) /\ r[i] = t[i - Len(s)]
    BY <1>3, <1>2, JoinedHas
<1> HIDE DEF r
<1>9. \A i \in 1..Len(r) : r[i] \notin K
    <2> SUFFICES ASSUME NEW i \in 1..Len(r) PROVE r[i] \notin K
        OBVIOUS
    <2>1. CASE i \in 1..Len(s)
        BY <1>2, <1>8, <2>1
    <2>2. CASE i > Len(s)
        BY <1>2, <1>8, <2>2
    <2> QED BY <1>8, <2>1, <2>2
<1> QED BY <1>1, <1>7, <1>9

LEMMA LacksPart ==
    ASSUME NEW K, NEW L, L \subseteq K, NEW out, Lacks(K, out)
    PROVE  Lacks(L, out)
BY DEF Lacks

\* An announcement does not matter.
LEMMA LacksAnnounced ==
    ASSUME NEW out, \A y \in Address : Announcing(out[y])
    PROVE  Lacks(Matters, out)
<1>1. \A p \in Matters : p.kind \notin {"AddForwarded", "RemoveForwarded"}
    BY MattersIs
<1> QED BY <1>1 DEF Lacks, Announcing

LEMMA Elsewhere ==
    ASSUME NEW p
    PROVE  /\ p.kind = "Request" /\ p.sender # Native => p \notin AskPackets
           /\ p.kind = "Response" /\ p.receiver # Native => p \notin AskPackets
           /\ p.kind \notin {"Request", "Response"} => p \notin AskPackets
           /\ p.kind \notin {"Request", "Response", "Notification"} => p \notin Matters
           /\ p.kind = "Request" /\ p.sender # Injected => p \notin CallPackets \cup Notices
           /\ p.kind = "Response" /\ p.receiver # Injected => p \notin CallPackets \cup Notices
           /\ p.kind # "Notification" => p \notin Notices
           /\ p.kind = "Notification" => p \notin CallPackets
           /\ p.kind \in {"Request", "Response"} /\ p.id \notin CallIds => p \notin CallPackets \cup Notices
<1>1. p \in Matters => p.kind \in {"Request", "Response", "Notification"}
    BY MattersIs
<1>2. p \in AskPackets => \/ p.kind = "Request" /\ p.sender = Native
                          \/ p.kind = "Response" /\ p.receiver = Native
    BY MattersIs DEF Matters
<1>3. p \in CallPackets => \/ p.kind = "Request" /\ p.sender = Injected /\ p.id \in CallIds
                           \/ p.kind = "Response" /\ p.receiver = Injected /\ p.id \in CallIds
    BY MattersIs DEF Matters, CallPackets
<1>4. p \in Notices => p.kind = "Notification"
    BY DEF Notices
<1> QED BY <1>1, <1>2, <1>3, <1>4, Nodes

-----------------------------------------------------------------------------
(* What hid() asks and is answered: one request or answer at a time.         *)

\* Nothing is under way; or only p; or only the packet that the step takes.
NoAsk == \A x, y \in Address : \A i \in 1..Len(chan[x][y]) : chan[x][y][i] \notin AskPackets
OnlyAsk(x, y, p) ==
    /\ p \in AskPackets
    /\ \E i \in 1..Len(chan[x][y]) :
          /\ chan[x][y][i] = p
          /\ \A u, v \in Address : \A j \in 1..Len(chan[u][v]) :
                chan[u][v][j] \in AskPackets => u = x /\ v = y /\ j = i
Clear(z, f) ==
    \A x, y \in Address : \A i \in 1..Len(chan[x][y]) :
        chan[x][y][i] \in AskPackets => x = f /\ y = z /\ i = 1

LEMMA NoAskClear == ASSUME NoAsk, NEW z, NEW f PROVE Clear(z, f)
BY DEF NoAsk, Clear

LEMMA HeadClear ==
    ASSUME ChanOK, NEW x \in Address, NEW y \in Address, NEW p, OnlyAsk(x, y, p),
           NEW z \in Address, NEW f \in Address, chan[f][z] # <<>>, Head(chan[f][z]) \in AskPackets
    PROVE  Clear(z, f) /\ x = f /\ y = z /\ p = Head(chan[f][z])
<1>1. chan[f][z] \in Seq(PacketsOn(f, z))
    BY PortIs
<1>2. 1 \in 1..Len(chan[f][z]) /\ Head(chan[f][z]) = chan[f][z][1]
    BY <1>1, RestElements
<1>3. PICK i \in 1..Len(chan[x][y]) :
          /\ chan[x][y][i] = p
          /\ \A u, v \in Address : \A j \in 1..Len(chan[u][v]) :
                chan[u][v][j] \in AskPackets => u = x /\ v = y /\ j = i
    BY DEF OnlyAsk
<1>4. f = x /\ z = y /\ 1 = i
    BY <1>2, <1>3
<1> QED BY <1>2, <1>3, <1>4 DEF Clear

LEMMA AsksSame ==
    ASSUME Same(AskPackets)
    PROVE  /\ NoAsk => NoAsk'
           /\ \A x, y \in Address : \A p : OnlyAsk(x, y, p) => OnlyAsk(x, y, p)'
<1>1. ASSUME NoAsk PROVE NoAsk'
    <2> SUFFICES ASSUME NEW x \in Address, NEW y \in Address, NEW i \in 1..Len(chan'[x][y]),
                        chan'[x][y][i] \in AskPackets
                 PROVE  FALSE
        BY DEF NoAsk
    <2>1. \E s \in {0, 1} : i + s \in 1..Len(chan[x][y]) /\ chan[x][y][i + s] = chan'[x][y][i]
        BY DEF Same, SameOn
    <2> QED BY <1>1, <2>1 DEF NoAsk
<1>2. ASSUME NEW x \in Address, NEW y \in Address, NEW p, OnlyAsk(x, y, p)
      PROVE  OnlyAsk(x, y, p)'
    <2>1. PICK i \in 1..Len(chan[x][y]) :
              /\ chan[x][y][i] = p
              /\ \A u, v \in Address : \A j \in 1..Len(chan[u][v]) :
                    chan[u][v][j] \in AskPackets => u = x /\ v = y /\ j = i
        BY <1>2 DEF OnlyAsk
    <2>2. PICK s \in {0, 1} :
              /\ \A j \in 1..Len(chan'[x][y]) : chan'[x][y][j] \in AskPackets =>
                     j + s \in 1..Len(chan[x][y]) /\ chan[x][y][j + s] = chan'[x][y][j]
              /\ \A j \in 1..Len(chan[x][y]) : chan[x][y][j] \in AskPackets =>
                     j - s \in 1..Len(chan'[x][y]) /\ chan'[x][y][j - s] = chan[x][y][j]
        BY DEF Same, SameOn
    <2>3. p \in AskPackets
        BY <1>2 DEF OnlyAsk
    <2>4. i - s \in 1..Len(chan'[x][y]) /\ chan'[x][y][i - s] = p
        BY <2>1, <2>2, <2>3
    <2>5. ASSUME NEW u \in Address, NEW v \in Address, NEW j \in 1..Len(chan'[u][v]),
                 chan'[u][v][j] \in AskPackets
          PROVE  u = x /\ v = y /\ j = i - s
        <3>1. \E t \in {0, 1} : j + t \in 1..Len(chan[u][v]) /\ chan[u][v][j + t] = chan'[u][v][j]
            BY <2>5 DEF Same, SameOn
        <3>2. u = x /\ v = y
            BY <2>1, <2>5, <3>1
        <3>3. j + s \in 1..Len(chan[x][y]) /\ chan[x][y][j + s] \in AskPackets
            BY <2>2, <2>5, <3>2
        <3>4. j + s = i
            BY <2>1, <3>3
        <3> QED BY <3>2, <3>4
    <2> QED BY <2>3, <2>4, <2>5 DEF OnlyAsk
<1> QED BY <1>1, <1>2

\* Of K a step sends only p, to h.
Single(K, out, h, p) ==
    /\ p \in K /\ h \in Address
    /\ \A y \in Address : IsSequence(out[y])
    /\ \E k \in 1..Len(out[h]) :
          /\ out[h][k] = p
          /\ \A y \in Address : \A i \in 1..Len(out[y]) : out[y][i] \in K => y = h /\ i = k

LEMMA SingleTo ==
    ASSUME NEW K, NEW h \in Address, NEW p \in K
    PROVE  Single(K, To(h, p), h, p)
<1>1. \A y \in Address : To(h, p)[y] = IF y = h THEN <<p>> ELSE <<>>
    BY Outs
<1>2. \A y \in Address : IsSequence(To(h, p)[y])
    <2>1. <<p>> \in Seq({p})
        OBVIOUS
    <2>2. IsSequence(<<p>>)
        BY <2>1, Zenon DEF IsSequence
    <2> QED BY <1>1, <2>2, FineNone
<1>3. 1 \in 1..Len(To(h, p)[h]) /\ To(h, p)[h][1] = p
    BY <1>1
<1>4. ASSUME NEW y \in Address, NEW i \in 1..Len(To(h, p)[y])
      PROVE  y = h /\ i = 1
    <2>1. Len(<<p>>) = 1 /\ Len(<<>>) = 0
        OBVIOUS
    <2>2. CASE y = h
        <3>1. To(h, p)[y] = <<p>>
            BY <1>1, <2>2
        <3>2. i \in 1..1
            BY <2>1, <3>1
        <3> QED BY <2>2, <3>2
    <2>3. CASE y # h
        BY <1>1, <2>1, <2>3
    <2> QED BY <2>2, <2>3
<1> QED BY <1>2, <1>3, <1>4 DEF Single

LEMMA SingleBoth ==
    ASSUME NEW K, NEW o, NEW q, NEW h, NEW p, Lacks(K, o), Single(K, q, h, p)
    PROVE  Single(K, o ++ q, h, p)
<1>1. ASSUME NEW y \in Address
      PROVE  /\ (o ++ q)[y] = Joined(o[y], q[y]) /\ IsSequence((o ++ q)[y])
             /\ Len(o[y]) \in Nat
             /\ \A i \in 1..Len(o[y]) : (o ++ q)[y][i] \notin K
             /\ \A i \in 1..Len(q[y]) :
                    i + Len(o[y]) \in 1..Len((o ++ q)[y]) /\ (o ++ q)[y][i + Len(o[y])] = q[y][i]
             /\ \A i \in 1..Len((o ++ q)[y]) :
                    i > Len(o[y]) => i - Len(o[y]) \in 1..Len(q[y]) /\ (o ++ q)[y][i] = q[y][i - Len(o[y])]
    <2> DEFINE s == o[y]
               t == q[y]
               r == Joined(s, t)
    <2>1. (o ++ q)[y] = r
        BY Outs
    <2>2. IsSequence(s) /\ IsSequence(t) /\ \A i \in 1..Len(s) : s[i] \notin K
        BY DEF Lacks, Single
    <2> HIDE DEF s, t
    <2>3. PICK S : s \in Seq(S)
        BY <2>2 DEF IsSequence
    <2>4. PICK T : t \in Seq(T)
        BY <2>2 DEF IsSequence
    <2>5. s \in Seq(S \cup T) /\ t \in Seq(S \cup T)
        BY <2>3, <2>4
    <2>6. r \in Seq(S \cup T)
        BY <2>5, JoinedIs
    <2>7. IsSequence(r)
        BY <2>6, Zenon DEF IsSequence
    <2>8. /\ Len(s) \in Nat
          /\ \A i \in 1..Len(s) : r[i] = s[i]
          /\ \A i \in 1..Len(t) : i + Len(s) \in 1..Len(r) /\ r[i + Len(s)] = t[i]
          /\ \A i \in 1..Len(r) : i > Len(s) => i - Len(s) \in 1..Len(t) /\ r[i] = t[i - Len(s)]
        BY <2>2, <2>3, JoinedHas
    <2> HIDE DEF r
    <2>9. \A i \in 1..Len(s) : r[i] \notin K
        BY <2>2, <2>8
    <2> QED BY <2>1, <2>7, <2>8, <2>9 DEF s, t, r
<1>2. PICK k \in 1..Len(q[h]) :
          /\ q[h][k] = p
          /\ \A y \in Address : \A i \in 1..Len(q[y]) : q[y][i] \in K => y = h /\ i = k
    BY DEF Single
<1>3. p \in K /\ h \in Address
    BY DEF Single
<1> DEFINE m == k + Len(o[h])
<1>4. m \in 1..Len((o ++ q)[h]) /\ (o ++ q)[h][m] = p
    BY <1>1, <1>2, <1>3
<1>5. ASSUME NEW y \in Address, NEW i \in 1..Len((o ++ q)[y]), (o ++ q)[y][i] \in K
      PROVE  y = h /\ i = m
    <2> DEFINE l == Len(o[y])
    <2>1. l \in Nat /\ ~(i \in 1..l)
        BY <1>1, <1>5
    <2>2. i > l
        BY <2>1
    <2>3. i - l \in 1..Len(q[y]) /\ q[y][i - l] \in K
        BY <1>1, <1>5, <2>2
    <2>4. y = h /\ i - l = k
        BY <1>2, <2>3
    <2> HIDE DEF l
    <2>5. i = k + l
        BY <2>1, <2>4
    <2> QED BY <2>4, <2>5 DEF l
<1> QED BY <1>1, <1>3, <1>4, <1>5 DEF Single

LEMMA AskGone ==
    ASSUME ChanOK, NEW z \in Address, NEW f, f # z, NEW out, Emit(z, f, out),
           f \in Address => chan[f][z] # <<>>, Clear(z, f), Lacks(AskPackets, out)
    PROVE  NoAsk'
<1> SUFFICES ASSUME NEW x \in Address, NEW y \in Address, NEW i \in 1..Len(chan'[x][y])
             PROVE  chan'[x][y][i] \notin AskPackets
    BY DEF NoAsk
<1> DEFINE q == chan[x][y]
<1>1. q \in Seq(PacketsOn(x, y))
    BY PortIs
<1>2. CASE x = z
    <2>1. chan'[x][y] = Joined(q, out[y]) /\ IsSequence(out[y])
        BY <1>2, EmitLinks DEF Lacks
    <2>2. \A j \in 1..Len(q) : q[j] \notin AskPackets
        BY <1>2 DEF Clear
    <2>3. \A j \in 1..Len(out[y]) : out[y][j] \notin AskPackets
        BY DEF Lacks
    <2> HIDE DEF q
    <2>4. /\ Len(q) \in Nat
          /\ i \in 1..Len(q) => chan'[x][y][i] = q[i]
          /\ i > Len(q) => i - Len(q) \in 1..Len(out[y]) /\ chan'[x][y][i] = out[y][i - Len(q)]
        BY <1>1, <2>1, JoinedHas
    <2>5. CASE i \in 1..Len(q)
        BY <2>2, <2>4, <2>5
    <2>6. CASE i > Len(q)
        BY <2>3, <2>4, <2>6
    <2> QED BY <2>4, <2>5, <2>6
<1>3. CASE x = f /\ y = z
    <2>1. chan'[x][y] = Rest(q) /\ q # <<>>
        BY <1>3, EmitLinks
    <2>2. i + 1 \in 1..Len(q) /\ Rest(q)[i] = q[i + 1] /\ i + 1 # 1
        BY <1>1, <2>1, RestElements
    <2>3. q[i + 1] \notin AskPackets
        BY <2>2 DEF Clear
    <2> QED BY <2>1, <2>2, <2>3
<1>4. CASE x # z /\ ~(x = f /\ y = z)
    BY <1>4, EmitLinks DEF Clear
<1> QED BY <1>2, <1>3, <1>4

LEMMA AskNew ==
    ASSUME ChanOK, NEW z \in Address, NEW f, f # z, NEW out, Emit(z, f, out),
           f \in Address => chan[f][z] # <<>>, Clear(z, f), NEW h, NEW p, Single(AskPackets, out, h, p)
    PROVE  OnlyAsk(z, h, p)'
<1>1. PICK k \in 1..Len(out[h]) :
          /\ out[h][k] = p
          /\ \A y \in Address : \A i \in 1..Len(out[y]) : out[y][i] \in AskPackets => y = h /\ i = k
    BY DEF Single
<1>2. p \in AskPackets /\ h \in Address /\ \A y \in Address : IsSequence(out[y])
    BY DEF Single
<1> DEFINE m == k + Len(chan[z][h])
<1>3. m \in 1..Len(chan'[z][h]) /\ chan'[z][h][m] = p
    <2> DEFINE q == chan[z][h]
    <2>1. chan'[z][h] = Joined(q, out[h]) /\ q \in Seq(PacketsOn(z, h)) /\ IsSequence(out[h])
        BY <1>2, EmitLinks, PortIs
    <2> HIDE DEF q
    <2>2. k + Len(q) \in 1..Len(Joined(q, out[h])) /\ Joined(q, out[h])[k + Len(q)] = out[h][k]
        BY <2>1, JoinedHas
    <2> QED BY <1>1, <2>1, <2>2 DEF q
<1>4. ASSUME NEW x \in Address, NEW y \in Address, NEW i \in 1..Len(chan'[x][y]), chan'[x][y][i] \in AskPackets
      PROVE  x = z /\ y = h /\ i = m
    <2> DEFINE q == chan[x][y]
    <2>1. q \in Seq(PacketsOn(x, y))
        BY PortIs
    <2>2. CASE x = z
        <3>1. chan'[x][y] = Joined(q, out[y]) /\ IsSequence(out[y])
            BY <1>2, <2>2, EmitLinks
        <3>2. \A j \in 1..Len(q) : q[j] \notin AskPackets
            BY <2>2 DEF Clear
        <3> HIDE DEF q
        <3>3. /\ Len(q) \in Nat
              /\ i \in 1..Len(q) => chan'[x][y][i] = q[i]
              /\ i > Len(q) => i - Len(q) \in 1..Len(out[y]) /\ chan'[x][y][i] = out[y][i - Len(q)]
            BY <2>1, <3>1, JoinedHas
        <3>4. ~(i \in 1..Len(q))
            BY <1>4, <3>2, <3>3
        <3>5. i - Len(q) \in 1..Len(out[y]) /\ out[y][i - Len(q)] \in AskPackets
            BY <1>4, <3>3, <3>4
        <3>6. y = h /\ i - Len(q) = k
            BY <1>1, <3>5
        <3>7. i = k + Len(q)
            BY <3>3, <3>6
        <3> QED BY <2>2, <3>6, <3>7 DEF q
    <2>3. CASE x = f /\ y = z
        <3>1. chan'[x][y] = Rest(q) /\ q # <<>>
            BY <2>3, EmitLinks
        <3>2. i + 1 \in 1..Len(q) /\ Rest(q)[i] = q[i + 1] /\ i + 1 # 1
            BY <2>1, <3>1, RestElements
        <3>3. q[i + 1] \notin AskPackets
            BY <3>2 DEF Clear
        <3> QED BY <1>4, <3>1, <3>2, <3>3
    <2>4. CASE x # z /\ ~(x = f /\ y = z)
        <3>1. chan'[x][y] = q
            BY <2>4, EmitLinks
        <3>2. x = f /\ y = z
            BY <1>4, <3>1 DEF Clear
        <3> QED BY <2>4, <3>2
    <2> QED BY <2>2, <2>3, <2>4
<1> QED BY <1>2, <1>3, <1>4 DEF OnlyAsk

-----------------------------------------------------------------------------
(* The steps that leave those packets alone, and those that leave alone what *)
(* goes to and from the page.                                                *)

PageTraffic == CallPackets \cup Notices

LEMMA IInvChan == ASSUME IInv PROVE ChanOK /\ ConnOK /\ RoutesOK
BY DEF IInv, Net, Types

LEMMA SameParts ==
    ASSUME Same(Matters)
    PROVE  Same(AskPackets) /\ Same(PageTraffic)
<1>1. AskPackets \subseteq Matters /\ PageTraffic \subseteq Matters
    BY DEF Matters, PageTraffic
<1> QED BY <1>1, SamePart

LEMMA TrafficElsewhere ==
    ASSUME NEW p
    PROVE  /\ p.kind = "Request" /\ p.sender # Injected => p \notin PageTraffic
           /\ p.kind = "Response" /\ p.receiver # Injected => p \notin PageTraffic
           /\ p.kind \notin {"Request", "Response", "Notification"} => p \notin PageTraffic
           /\ p.kind \in {"Request", "Response"} /\ p.id \notin CallIds => p \notin PageTraffic
           /\ p \in AskPackets => p \notin PageTraffic
<1>1. p \in PageTraffic => p \in Matters
    BY DEF PageTraffic, Matters
<1>2. p \in AskPackets => /\ p \in Matters
                          /\ \/ p.kind = "Request" /\ p.sender = Native
                             \/ p.kind = "Response" /\ p.receiver = Native
    BY MattersIs DEF Matters
<1>3. /\ p.kind = "Request" /\ p.sender # Injected => p \notin PageTraffic
      /\ p.kind = "Response" /\ p.receiver # Injected => p \notin PageTraffic
      /\ p.kind \notin {"Request", "Response", "Notification"} => p \notin PageTraffic
      /\ p.kind \in {"Request", "Response"} /\ p.id \notin CallIds => p \notin PageTraffic
    BY <1>1, Elsewhere, MattersIs DEF PageTraffic
<1> QED BY <1>2, <1>3, Nodes

LEMMA OnAddForwardedSame ==
    ASSUME IInv, NEW x \in Address, NEW n \in Address, OnAddForwarded(x, n)
    PROVE  Same(Matters)
<1> DEFINE p == Head(chan[n][x])
           out == ToldOfInc(conn[x], routes[x], p.to, n)
<1>1. chan[n][x] # <<>> /\ p.kind = "AddForwarded" /\ Emit(x, n, out)
    BY DEF OnAddForwarded, Arrives
<1>2. n # x
    <2>1. Announces(n, x, p.to) /\ p.to \in Address
        BY Announced, IInvChan DEF OnAddForwarded
    <2> QED BY <2>1, Spreads, IInvChan
<1>3. Lacks(Matters, out)
    BY ToldOfIncAnnounces, LacksAnnounced
<1>4. p \notin Matters
    BY <1>1, Elsewhere
<1> HIDE DEF p, out
<1> QED BY <1>1, <1>2, <1>3, <1>4, SameEmit, IInvChan DEF p

LEMMA OnRemoveForwardedSame ==
    ASSUME IInv, NEW x \in Address, NEW n \in Address, OnRemoveForwarded(x, n)
    PROVE  Same(Matters)
<1> DEFINE p == Head(chan[n][x])
           out == IF x = Native THEN Nothing ELSE ToldOfDec(conn[x], routes[x], p.to, n)
<1>1. chan[n][x] # <<>> /\ p.kind = "RemoveForwarded" /\ Emit(x, n, out)
    BY DEF OnRemoveForwarded, Arrives
<1>2. n # x
    <2>1. Announces(n, x, p.to) /\ p.to \in Address
        BY Announced, IInvChan DEF OnRemoveForwarded
    <2> QED BY <2>1, Spreads, IInvChan
<1>3. Lacks(Matters, out)
    <2>1. Lacks(Matters, ToldOfDec(conn[x], routes[x], p.to, n))
        BY ToldOfDecAnnounces, LacksAnnounced
    <2> QED BY <2>1, LacksNothing
<1>4. p \notin Matters
    BY <1>1, Elsewhere
<1> HIDE DEF p, out
<1> QED BY <1>1, <1>2, <1>3, <1>4, SameEmit, IInvChan DEF p

LEMMA LacksAdded == ASSUME NEW C, NEW r, NEW n \in Address PROVE Lacks(Matters, AddedDirect(C, r, n))
BY AddedAnnounces, LacksAnnounced

LEMMA OnConnectSame ==
    ASSUME IInv, ContentOnConnect \/ BackgroundOnConnect
    PROVE  Same(Matters)
<1>1. PICK z, out : z \in {Content, Background} /\ Emit(z, None, out) /\ Lacks(Matters, out)
    <2>1. CASE ContentOnConnect
        <3> DEFINE out == AddedDirect({}, routes[Content], Background)
                          ++ AddedDirect({Background}, inc(routes[Content], Background, Direct), Injected)
        <3>1. Emit(Content, None, out)
            BY <2>1 DEF ContentOnConnect, Opens
        <3>2. Lacks(Matters, out)
            BY LacksAdded, LacksBoth, Nodes
        <3> HIDE DEF out
        <3> QED BY <3>1, <3>2
    <2>2. CASE BackgroundOnConnect
        <3>1. Emit(Background, None, AddedDirect({}, routes[Background], Content))
            BY <2>2 DEF BackgroundOnConnect, Opens
        <3>2. Lacks(Matters, AddedDirect({}, routes[Background], Content))
            BY LacksAdded, Nodes
        <3> QED BY <3>1, <3>2
    <2> QED BY <2>1, <2>2
<1>2. z \in Address /\ None \notin Address
    BY <1>1, Nodes
<1> QED BY <1>1, <1>2, SameEmit, IInvChan

LEMMA OpenNativeSame ==
    ASSUME IInv, OpenNative
    PROVE  Same(Matters)
<1> DEFINE p == Packet(Background, Content)
           answer == Response("OpenNative", p.sender, p.id, TRUE, FALSE)
           greeting == Notification("OpenFromInject", Background, Native)
           out == AddedDirect(conn[Background], routes[Background], Native)
                  ++ To(Native, greeting) ++ Routed(Background, answer, None)
<1>1. Emit(Background, Content, out) /\ Received(Background, Content, "Request", "OpenNative")
    BY DEF OpenNative
<1>2. /\ p = Head(chan[Content][Background]) /\ chan[Content][Background] # <<>>
      /\ p \in PageRequests /\ p.name = "OpenNative" /\ p.sender = Injected /\ p.kind = "Request"
    BY <1>1, OpenNativeRequest DEF IInv, Received, Arrives, Packet
<1>3. p.id \notin CallIds
    <2>1. p.name = RequestOf(p.id.at)
        BY <1>2 DEF PageRequests
    <2> QED BY <1>2, <2>1 DEF CallIds, RequestOf
<1>4. p \notin Matters /\ answer \notin Matters /\ greeting \notin Matters
    <2>1. p \notin AskPackets /\ p \notin CallPackets \cup Notices
        BY <1>2, <1>3, Elsewhere, Nodes
    <2>2. answer.kind = "Response" /\ answer.receiver = Injected /\ answer.id = p.id
        BY <1>2 DEF Response
    <2>3. answer \notin AskPackets /\ answer \notin CallPackets \cup Notices
        BY <1>3, <2>2, Elsewhere, Nodes
    <2>4. greeting.kind = "Notification" /\ greeting.name = "OpenFromInject"
        BY DEF Notification
    <2>5. greeting \notin AskPackets /\ greeting \notin CallPackets \cup Notices
        BY <2>4, Elsewhere DEF Notices
    <2> QED BY <2>1, <2>3, <2>5 DEF Matters
<1>5. Lacks(Matters, out)
    BY <1>4, LacksAdded, LacksTo, LacksRouted, LacksBoth, Nodes
<1> HIDE DEF p, answer, greeting, out
<1> QED BY <1>1, <1>2, <1>4, <1>5, SameEmit, IInvChan, Nodes

LEMMA RemovePopupSame ==
    ASSUME IInv, RemovePopup
    PROVE  Same(Matters)
<1> DEFINE out == ToldOfDec(conn[Background] \ {Popup}, routes[Background], Popup, Direct)
<1>1. /\ Emit(Background, Popup, out) /\ chan[Popup][Background] # <<>>
      /\ Head(chan[Popup][Background]).kind = "Closed"
    BY DEF RemovePopup, Arrives
<1>2. Lacks(Matters, out)
    BY ToldOfDecAnnounces, LacksAnnounced
<1>3. Head(chan[Popup][Background]) \notin Matters
    BY <1>1, Elsewhere
<1> HIDE DEF out
<1> QED BY <1>1, <1>2, <1>3, SameEmit, IInvChan, Nodes

LEMMA OpenFromInjectSame ==
    ASSUME IInv, OpenFromInject
    PROVE  Same(Matters)
<1>1. /\ Emit(Native, Background, Nothing) /\ chan[Background][Native] # <<>>
      /\ Head(chan[Background][Native]).kind = "Notification"
      /\ Head(chan[Background][Native]).name = "OpenFromInject"
    BY DEF OpenFromInject, Received, Arrives
<1>2. Head(chan[Background][Native]) \notin Matters
    BY <1>1, Elsewhere DEF Matters, Notices
<1> QED BY <1>1, <1>2, LacksNothing, SameEmit, IInvChan, Nodes

LEMMA WaitForBackgroundSame ==
    ASSUME IInv, WaitForBackground
    PROVE  Same(Matters)
<1> DEFINE p == Request(RequestOf("OpenNative"), Injected, Background, [caller |-> 0, at |-> "OpenNative"], FALSE)
<1>1. Emit(Injected, None, Routed(Injected, p, None))
    BY DEF WaitForBackground, Asks, Answer
<1>2. p.kind = "Request" /\ p.sender = Injected /\ p.id.at = "OpenNative"
    BY DEF Request
<1>3. p \notin Matters
    BY <1>2, Elsewhere, Nodes DEF Matters, CallIds
<1> HIDE DEF p
<1> QED BY <1>1, <1>3, LacksRouted, SameEmit, IInvChan, Nodes

-----------------------------------------------------------------------------
(* OneAnswer.  For what the page is told it also matters what the answers    *)
(* say: a device approved is listed in localStorage or about to be.          *)

\* p is the request hid() is waiting with, or the answer to it.
Fits(p) ==
    /\ hid \in DOMAIN Awaits /\ p.name = Awaits[hid]
    /\ p.kind = "Request" /\ p.name = "StorageGet" => (p.arg = "helo" <=> hid = "helo")
    /\ storage /\ p.kind = "Response" /\ p.name = "StorageGet" /\ hid # "helo" => p.arg = TRUE
    /\ p.kind = "Response" /\ p.name = "StorageGet" /\ p.arg = TRUE => storage
    /\ storage /\ p.kind = "Request" /\ p.name = "StorageSet" => p.arg = TRUE
    /\ granted # {} /\ ~storage => p.kind = "Request" /\ p.name = "StorageSet" /\ p.arg = TRUE

Silence ==
    /\ NoAsk /\ (granted # {} => storage)
    /\ \/ hid \notin DOMAIN Awaits /\ popup # "opening"
       \/ hid = "OpenPopup" /\ popup = "opening"
       \/ hid = "RequestAccess" /\ popup \in {"closing", "none"}
Exchange ==
    /\ popup # "opening"
    /\ \E x, y \in Address : \E p \in AskPackets : OnlyAsk(x, y, p) /\ Fits(p)
AsksOK == Silence \/ Exchange

LEMMA AwaitsIs ==
    /\ DOMAIN Awaits = {"helo", "watch", "OpenPopup", "RequestAccess", "approved", "rejected", "StorageSet"}
    /\ Awaits["helo"] = "StorageGet" /\ Awaits["watch"] = "StorageGet"
    /\ Awaits["OpenPopup"] = "OpenPopup" /\ Awaits["RequestAccess"] = "RequestAccess"
    /\ Awaits["approved"] = "StorageGet" /\ Awaits["rejected"] = "StorageGet"
    /\ Awaits["StorageSet"] = "StorageSet"
BY DEF Awaits

\* The packet at the head of a port.
LEMMA AskHead ==
    ASSUME IInv, AsksOK, NEW z \in Address, NEW f \in Address, chan[f][z] # <<>>, Head(chan[f][z]) \in AskPackets
    PROVE  Clear(z, f) /\ Fits(Head(chan[f][z])) /\ popup # "opening"
<1>1. Exchange
    <2>1. chan[f][z] \in Seq(PacketsOn(f, z))
        BY PortIs, IInvChan
    <2>2. 1 \in 1..Len(chan[f][z]) /\ Head(chan[f][z]) = chan[f][z][1]
        BY <2>1, RestElements
    <2> QED BY <2>2 DEF AsksOK, Silence, NoAsk
<1>2. PICK x \in Address, y \in Address, p \in AskPackets : OnlyAsk(x, y, p) /\ Fits(p)
    BY <1>1 DEF Exchange
<1>3. Clear(z, f) /\ p = Head(chan[f][z])
    BY <1>2, HeadClear, IInvChan
<1> QED BY <1>1, <1>2, <1>3 DEF Exchange

LEMMA AsksKept ==
    ASSUME AsksOK, Same(AskPackets), UNCHANGED <<hid, storage, granted>>,
           popup' = popup \/ (popup = "closing" /\ popup' = "none")
    PROVE  AsksOK'
<1>1. CASE Silence
    BY <1>1, AsksSame DEF Silence, AsksOK
<1>2. CASE Exchange
    <2>1. PICK x \in Address, y \in Address, p \in AskPackets : OnlyAsk(x, y, p) /\ Fits(p)
        BY <1>2 DEF Exchange
    <2>2. OnlyAsk(x, y, p)'
        BY <2>1, AsksSame
    <2>3. Fits(p)' /\ popup' # "opening"
        BY <1>2, <2>1 DEF Fits, Exchange
    <2> QED BY <2>2, <2>3 DEF Exchange, AsksOK
<1> QED BY <1>1, <1>2 DEF AsksOK

\* A step that takes nothing else and sends p.
LEMMA AskSent ==
    ASSUME IInv, NEW z \in Address, NEW f, f # z, NEW out, Emit(z, f, out), Clear(z, f),
           f \in Address => chan[f][z] # <<>> /\ Head(chan[f][z]) \in AskPackets,
           NEW h, NEW p, Single(AskPackets, out, h, p), Lacks(PageTraffic, out),
           Fits(p)', popup' # "opening"
    PROVE  AsksOK' /\ Same(PageTraffic)
<1>1. OnlyAsk(z, h, p)'
    BY AskNew, IInvChan
<1>2. p \in AskPackets /\ h \in Address
    BY DEF Single
<1>3. AsksOK'
    BY <1>1, <1>2 DEF AsksOK, Exchange
<1>4. f \in Address => Head(chan[f][z]) \notin PageTraffic
    BY TrafficElsewhere
<1> QED BY <1>3, <1>4, SameEmit, IInvChan

LEMMA AskAnswered ==
    ASSUME IInv, NEW z \in Address, NEW f \in Address, f # z, Take(z, f), Clear(z, f), chan[f][z] # <<>>,
           Head(chan[f][z]) \in AskPackets
    PROVE  NoAsk' /\ Same(PageTraffic)
<1>1. Emit(z, f, Nothing)
    BY DEF Take
<1>2. Head(chan[f][z]) \notin PageTraffic
    BY TrafficElsewhere
<1> QED BY <1>1, <1>2, AskGone, SameEmit, LacksNothing, IInvChan

\* The same for a packet that is sent alone.
LEMMA AskSentAlone ==
    ASSUME IInv, NEW z \in Address, NEW f, f # z, NEW p \in AskPackets, NEW h \in Address, Emit(z, f, To(h, p)),
           Clear(z, f), f \in Address => chan[f][z] # <<>> /\ Head(chan[f][z]) \in AskPackets,
           Fits(p)', popup' # "opening"
    PROVE  AsksOK' /\ Same(PageTraffic)
<1>1. Lacks(PageTraffic, To(h, p))
    BY TrafficElsewhere, LacksTo
<1> QED BY <1>1, SingleTo, AskSent

\* An answer of the background page or of the popup to hid().
LEMMA StorageGetAsks ==
    ASSUME IInv, AsksOK, StorageGet
    PROVE  AsksOK' /\ Same(PageTraffic)
<1> DEFINE q == Packet(Background, Native)
<1>1. /\ q \in NativeRequests /\ q.name = "StorageGet" /\ q.sender = Native /\ q.id = 0
      /\ chan[Native][Background] # <<>> /\ q = Head(chan[Native][Background]) /\ Native \in conn[Background]
    BY FromNative DEF StorageGet, Received, Arrives, IInv, Packet
<1>2. q.arg \in {"helo", "allowed"} /\ q.kind = "Request"
    BY <1>1 DEF NativeRequests
<1>3. PICK p : p = Response("StorageGet", Native, 0, TRUE, q.arg = "allowed" /\ storage)
    OBVIOUS
<1>4. p \in NativeResponses /\ p.receiver = Native
    BY <1>3 DEF NativeResponses, Response
<1>5. nextHop(Background, p.receiver, None) = Native
    BY <1>1, <1>4, BackgroundAnswers DEF IInv
<1>6. Emit(Background, Native, To(Native, p))
    BY <1>1, <1>3, <1>5, Nodes DEF StorageGet, Answer, Routed
<1>7. Clear(Background, Native) /\ Fits(q) /\ popup # "opening"
    BY <1>1, AskHead, Nodes DEF AskPackets
<1>8. UNCHANGED <<hid, storage, granted, popup>>
    BY DEF StorageGet, pageVars, nativeVars
<1>9. Fits(p)'
    <2>1. p.kind = "Response" /\ p.name = "StorageGet" /\ p.arg = (q.arg = "allowed" /\ storage)
        BY <1>3 DEF Response
    <2>2. /\ hid \in DOMAIN Awaits /\ Awaits[hid] = "StorageGet" /\ (granted # {} => storage)
          /\ hid # "helo" => q.arg = "allowed"
        BY <1>1, <1>2, <1>7 DEF Fits
    <2> HIDE DEF q
    <2>3. storage /\ hid # "helo" => p.arg = TRUE
        BY <2>1, <2>2
    <2> QED BY <1>8, <2>1, <2>2, <2>3 DEF Fits
<1> HIDE DEF q
<1> QED BY <1>1, <1>4, <1>6, <1>7, <1>8, <1>9, AskSentAlone, Nodes DEF AskPackets

LEMMA StorageSetAsks ==
    ASSUME IInv, AsksOK, StorageSet
    PROVE  AsksOK' /\ Same(PageTraffic)
<1> DEFINE q == Packet(Background, Native)
<1>1. /\ q \in NativeRequests /\ q.name = "StorageSet" /\ q.sender = Native /\ q.id = 0
      /\ chan[Native][Background] # <<>> /\ q = Head(chan[Native][Background]) /\ Native \in conn[Background]
    BY FromNative DEF StorageSet, Received, Arrives, IInv, Packet
<1>2. q.kind = "Request"
    BY <1>1 DEF NativeRequests
<1>3. PICK p : p = Response("StorageSet", Native, 0, TRUE, FALSE)
    OBVIOUS
<1>4. p \in NativeResponses /\ p.receiver = Native
    BY <1>3 DEF NativeResponses, Response
<1>5. nextHop(Background, p.receiver, None) = Native
    BY <1>1, <1>4, BackgroundAnswers DEF IInv
<1>6. Emit(Background, Native, To(Native, p))
    BY <1>1, <1>3, <1>5, Nodes DEF StorageSet, Answer, Routed
<1>7. Clear(Background, Native) /\ Fits(q) /\ popup # "opening"
    BY <1>1, AskHead, Nodes DEF AskPackets
<1>8. UNCHANGED <<hid, granted, popup>> /\ storage' = q.arg
    BY DEF StorageSet, pageVars, nativeVars
<1>9. Fits(p)'
    <2>1. p.kind = "Response" /\ p.name = "StorageSet"
        BY <1>3 DEF Response
    <2>2. /\ hid \in DOMAIN Awaits /\ Awaits[hid] = "StorageSet"
          /\ storage => q.arg = TRUE
          /\ granted # {} /\ ~storage => q.arg = TRUE
        BY <1>1, <1>2, <1>7 DEF Fits
    <2>3. granted' # {} => storage'
        BY <1>8, <2>2
    <2> QED BY <1>8, <2>1, <2>2, <2>3 DEF Fits
<1> HIDE DEF q
<1> QED BY <1>1, <1>4, <1>6, <1>7, <1>8, <1>9, AskSentAlone, Nodes DEF AskPackets

LEMMA OpenPopupAsks ==
    ASSUME IInv, AsksOK, OpenPopup
    PROVE  AsksOK' /\ Same(PageTraffic)
<1> DEFINE q == Packet(Background, Native)
<1>1. /\ q \in NativeRequests /\ q.name = "OpenPopup"
      /\ chan[Native][Background] # <<>> /\ q = Head(chan[Native][Background])
    BY FromNative DEF OpenPopup, Received, Arrives, IInv, Packet
<1>2. Clear(Background, Native) /\ Fits(q)
    BY <1>1, AskHead, Nodes DEF AskPackets
<1>3. hid = "OpenPopup" /\ (granted # {} => storage)
    BY <1>1, <1>2, AwaitsIs DEF Fits
<1>4. Take(Background, Native) /\ popup' = "opening" /\ UNCHANGED <<hid, granted, storage>>
    BY DEF OpenPopup, pageVars, nativeVars
<1> HIDE DEF q
<1>5. NoAsk' /\ Same(PageTraffic)
    BY <1>1, <1>2, <1>4, AskAnswered, Nodes DEF AskPackets
<1> QED BY <1>3, <1>4, <1>5 DEF AsksOK, Silence

LEMMA Opening ==
    ASSUME AsksOK, popup = "opening"
    PROVE  NoAsk /\ hid = "OpenPopup" /\ (granted # {} => storage) /\ hid \in DOMAIN Awaits
BY AwaitsIs DEF AsksOK, Silence, Exchange

LEMMA PopupAnswerFits ==
    ASSUME AsksOK, popup = "opening", UNCHANGED <<hid, granted, storage>>, NEW ok \in BOOLEAN
    PROVE  Fits(PopupAnswer(ok))'
<1>1. PopupAnswer(ok).kind = "Response" /\ PopupAnswer(ok).name = "OpenPopup"
    BY DEF PopupAnswer, Response
<1> QED BY <1>1, Opening, AwaitsIs DEF Fits

LEMMA PopupOpenedAsks ==
    ASSUME IInv, AsksOK, PopupOnConnect \/ PopupOpeningTimeout
    PROVE  AsksOK' /\ Same(PageTraffic)
<1>1. popup = "opening" /\ popup' # "opening" /\ UNCHANGED <<hid, granted, storage>>
    BY DEF PopupOnConnect, PopupOpeningTimeout, pageVars, nativeVars
<1>2. Clear(Background, None) /\ Native \in conn[Background]
    BY <1>1, Opening, NoAskClear DEF IInv, App, PopupOK
<1>3. PICK ok, out : /\ ok \in BOOLEAN /\ Emit(Background, None, out)
                     /\ \/ out = To(Native, PopupAnswer(ok))
                        \/ \E C, r : out = AddedDirect(C, r, Popup) ++ To(Native, PopupAnswer(ok))
    <2>1. ASSUME NEW ok \in BOOLEAN, Send(Background, PopupAnswer(ok))
          PROVE  Emit(Background, None, To(Native, PopupAnswer(ok)))
        <3>1. nextHop(Background, PopupAnswer(ok).receiver, None) = Native
            BY <1>2, PopupAnswerIs, BackgroundAnswers DEF IInv
        <3> QED BY <2>1, <3>1, Nodes DEF Send, Routed
    <2> QED BY <2>1 DEF PopupOnConnect, PopupOpeningTimeout
<1>4. PopupAnswer(ok) \in AskPackets
    BY <1>3, PopupAnswerIs DEF AskPackets
<1>5. Single(AskPackets, out, Native, PopupAnswer(ok)) /\ Lacks(PageTraffic, out)
    <2>1. Single(AskPackets, To(Native, PopupAnswer(ok)), Native, PopupAnswer(ok))
        BY <1>4, SingleTo, Nodes
    <2>2. Lacks(PageTraffic, To(Native, PopupAnswer(ok)))
        BY <1>4, TrafficElsewhere, LacksTo
    <2>3. \A C, r : Lacks(AskPackets, AddedDirect(C, r, Popup)) /\ Lacks(PageTraffic, AddedDirect(C, r, Popup))
        BY LacksAdded, LacksPart, Nodes DEF Matters, PageTraffic
    <2> QED BY <1>3, <2>1, <2>2, <2>3, SingleBoth, LacksBoth
<1>6. Fits(PopupAnswer(ok))'
    BY <1>1, <1>3, PopupAnswerFits
<1> QED BY <1>1, <1>2, <1>3, <1>5, <1>6, AskSent, Nodes

LEMMA Waiting ==
    ASSUME AsksOK, hid \notin DOMAIN Awaits
    PROVE  NoAsk /\ popup # "opening" /\ (granted # {} => storage)
BY AwaitsIs DEF AsksOK, Silence, Exchange, Fits

LEMMA NativeMainAsks ==
    ASSUME IInv, AsksOK, NativeMain
    PROVE  AsksOK' /\ Same(PageTraffic)
<1> DEFINE p == Request("StorageGet", Native, Background, 0, "helo")
           out == To(Background, AddForwarded(Background, LinkRtt)) ++ To(Background, p)
<1>1. Emit(Native, None, out) /\ hid = "none" /\ hid' = "helo" /\ UNCHANGED <<granted, storage, popup>>
    BY DEF NativeMain, pageVars
<1>2. NoAsk /\ popup # "opening" /\ (granted # {} => storage)
    BY <1>1, Waiting, AwaitsIs
<1>3. p \in AskPackets
    BY DEF AskPackets, NativeRequests, Request
<1>4. Lacks(Matters, To(Background, AddForwarded(Background, LinkRtt)))
    BY Elsewhere, LacksTo DEF AddForwarded
<1>5. Single(AskPackets, out, Background, p) /\ Lacks(PageTraffic, out)
    <2>1. Single(AskPackets, To(Background, p), Background, p) /\ Lacks(PageTraffic, To(Background, p))
        BY <1>3, SingleTo, TrafficElsewhere, LacksTo, Nodes
    <2> QED BY <1>4, <2>1, SingleBoth, LacksBoth, LacksPart DEF Matters, PageTraffic
<1>6. Fits(p)'
    <2>1. p.kind = "Request" /\ p.name = "StorageGet" /\ p.arg = "helo"
        BY DEF Request
    <2> QED BY <1>1, <1>2, <2>1, AwaitsIs DEF Fits
<1> HIDE DEF p, out
<1> QED BY <1>1, <1>2, <1>5, <1>6, NoAskClear, AskSent, Nodes

\* What hid() gets when it goes on.
LEMMA AwaitedAsks ==
    ASSUME IInv, AsksOK, NEW pc, NEW name, Awaited(pc, name)
    PROVE  /\ chan[Background][Native] # <<>> /\ Head(chan[Background][Native]) = Packet(Native, Background)
           /\ Packet(Native, Background) \in NativeResponses /\ Packet(Native, Background) \in AskPackets
           /\ Packet(Native, Background).kind = "Response" /\ Packet(Native, Background).name = name
           /\ hid = pc /\ Clear(Native, Background) /\ Fits(Packet(Native, Background)) /\ popup # "opening"
           /\ conn[Native] # {}
<1>1. /\ chan[Background][Native] # <<>> /\ Head(chan[Background][Native]) = Packet(Native, Background)
      /\ Packet(Native, Background).kind = "Response" /\ Packet(Native, Background).name = name
    BY DEF Awaited, Received, Arrives, Packet
<1>2. Packet(Native, Background) \in NativeResponses /\ hid = pc /\ conn[Native] # {}
    BY AwaitedIs
<1> QED BY <1>1, <1>2, AskHead, Nodes DEF AskPackets

LEMMA HeloAsks ==
    ASSUME IInv, AsksOK, Helo \/ PopupOpened
    PROVE  AsksOK' /\ Same(PageTraffic)
<1>1. PICK pc \in {"helo", "OpenPopup"}, name \in {"StorageGet", "OpenPopup"} : Awaited(pc, name)
    BY DEF Helo, PopupOpened
<1>2. Take(Native, Background) /\ hid' \notin DOMAIN Awaits /\ UNCHANGED <<granted, storage, popup>>
    BY AwaitsIs DEF Helo, PopupOpened, pageVars
<1>3. NoAsk' /\ Same(PageTraffic)
    BY <1>1, <1>2, AwaitedAsks, AskAnswered, Nodes
<1>4. popup # "opening" /\ (granted # {} => storage)
    BY <1>1, AwaitedAsks DEF Fits
<1> QED BY <1>2, <1>3, <1>4 DEF AsksOK, Silence

\* A request of hid() on its way.
LEMMA NativeSends ==
    ASSUME IInv, NEW p, p \in NativeRequests \/ (p \in AccessRequests /\ routes[Native][Popup] # <<>>),
           conn[Native] # {}
    PROVE  Routed(Native, p, None) = To(Background, p) /\ p \in AskPackets /\ nextHop(Native, p.receiver, None) = Background
<1>1. nextHop(Native, p.receiver, None) = Background
    BY NativeAsks, NativeAsksPopup DEF IInv
<1> QED BY <1>1, Nodes DEF Routed, AskPackets

LEMMA AskFits ==
    ASSUME hid' \in DOMAIN Awaits, granted' # {} => storage'
    PROVE  /\ hid' \in {"watch", "approved", "rejected"} => Fits(Ask("StorageGet", Background, "allowed"))'
           /\ hid' = "OpenPopup" => Fits(Ask("OpenPopup", Background, "popup"))'
           /\ hid' = "RequestAccess" => \A arg : Fits(Ask("RequestAccess", Popup, arg))'
<1>1. /\ \A name, to, arg : Ask(name, to, arg).kind = "Request" /\ Ask(name, to, arg).name = name /\ Ask(name, to, arg).arg = arg
    BY DEF Ask, Request
<1> QED BY <1>1, AwaitsIs DEF Fits

LEMMA SelectAsks ==
    ASSUME IInv, AsksOK, SelectDelay \/ SelectRequestDevice \/ RequestAccess
    PROVE  AsksOK' /\ Same(PageTraffic)
<1>1. hid \notin DOMAIN Awaits /\ hid' \in DOMAIN Awaits /\ UNCHANGED <<granted, storage, popup>> /\ hid # "none"
    BY AwaitsIs DEF SelectDelay, SelectRequestDevice, RequestAccess, pageVars
<1>2. NoAsk /\ popup # "opening" /\ (granted # {} => storage) /\ conn[Native] # {}
    BY <1>1, Waiting, RunsOn
<1>3. PICK p : /\ p \in NativeRequests \/ (p \in AccessRequests /\ routes[Native][Popup] # <<>>)
               /\ Emit(Native, None, Routed(Native, p, None)) /\ Fits(p)'
    <2>1. CASE SelectDelay
        <3>1. Ask("StorageGet", Background, "allowed") \in NativeRequests
            BY AsksIs
        <3>2. hid' = "watch" /\ Emit(Native, None, Routed(Native, Ask("StorageGet", Background, "allowed"), None))
            BY <2>1 DEF SelectDelay, Send
        <3>3. Fits(Ask("StorageGet", Background, "allowed"))'
            BY <1>1, <1>2, <3>2, AskFits
        <3> QED BY <3>1, <3>2, <3>3
    <2>2. CASE SelectRequestDevice
        <3>1. Ask("OpenPopup", Background, "popup") \in NativeRequests
            BY AsksIs
        <3>2. hid' = "OpenPopup" /\ Emit(Native, None, Routed(Native, Ask("OpenPopup", Background, "popup"), None))
            BY <2>2 DEF SelectRequestDevice, Send
        <3>3. Fits(Ask("OpenPopup", Background, "popup"))'
            BY <1>1, <1>2, <3>2, AskFits
        <3> QED BY <3>1, <3>2, <3>3
    <2>3. CASE RequestAccess
        <3>1. PICK arg \in BOOLEAN : arg = seen
            BY RunsOn
        <3>2. Ask("RequestAccess", Popup, arg) \in AccessRequests /\ Fits(Ask("RequestAccess", Popup, arg))'
            BY <1>1, <1>2, <2>3, AsksIs, AskFits DEF RequestAccess
        <3> QED BY <2>3, <3>1, <3>2 DEF RequestAccess, Send
    <2> QED BY <2>1, <2>2, <2>3
<1>4. Emit(Native, None, To(Background, p)) /\ p \in AskPackets
    BY <1>2, <1>3, NativeSends
<1> QED BY <1>1, <1>2, <1>3, <1>4, NoAskClear, AskSentAlone, Nodes

LEMMA AccessGivenAsks ==
    ASSUME IInv, AsksOK, AccessGiven
    PROVE  AsksOK' /\ Same(PageTraffic)
<1> DEFINE p == Ask("StorageGet", Background, "allowed")
<1>1. Awaited("RequestAccess", "RequestAccess") /\ hid' \in {"approved", "rejected"} /\ UNCHANGED <<granted, storage, popup>>
    BY DEF AccessGiven, pageVars
<1>2. /\ chan[Background][Native] # <<>> /\ Head(chan[Background][Native]) \in AskPackets
      /\ Clear(Native, Background) /\ popup # "opening" /\ conn[Native] # {}
      /\ granted # {} => storage
    BY <1>1, AwaitedAsks DEF Fits
<1>3. p \in NativeRequests
    BY AsksIs
<1>4. Emit(Native, Background, To(Background, p)) /\ p \in AskPackets
    <2>1. Emit(Native, Background, Routed(Native, p, None))
        BY DEF AccessGiven, Answer
    <2> QED BY <1>2, <1>3, <2>1, NativeSends
<1>5. Fits(p)'
    BY <1>1, <1>2, AwaitsIs, AskFits
<1> HIDE DEF p
<1> QED BY <1>1, <1>2, <1>4, <1>5, AskSentAlone, Nodes

LEMMA ExtendAllowedAsks ==
    ASSUME IInv, AsksOK, ExtendAllowed
    PROVE  AsksOK' /\ Same(PageTraffic)
<1> DEFINE q == Packet(Native, Background)
<1>1. PICK pc \in {"approved", "rejected"} :
          /\ Awaited(pc, "StorageGet")
          /\ Answer(Native, Background, Ask("StorageSet", Background, q.arg \/ pc = "approved"))
          /\ granted' = granted \cup {c \in {Head(request_device).id.caller} : pc = "approved"}
    BY DEF ExtendAllowed
<1>2. /\ chan[Background][Native] # <<>> /\ Head(chan[Background][Native]) = q /\ q \in AskPackets
      /\ q.kind = "Response" /\ q.name = "StorageGet" /\ q \in NativeResponses
      /\ Clear(Native, Background) /\ Fits(q) /\ popup # "opening" /\ conn[Native] # {} /\ hid = pc
    BY <1>1, AwaitedAsks
<1>3. q.arg \in BOOLEAN
    BY <1>2 DEF NativeResponses
<1>4. hid' = "StorageSet" /\ UNCHANGED <<storage, popup>> /\ storage \in BOOLEAN
    BY DEF ExtendAllowed, IInv, App, PlacesOK
<1>5. (storage => q.arg) /\ (granted # {} => storage)
    BY <1>2, Zenon DEF Fits
<1>6. PICK allowed \in BOOLEAN : allowed = (q.arg \/ pc = "approved")
    BY <1>3
<1>7. granted' # {} \/ storage' => allowed = TRUE
    <2>1. granted' # {} => granted # {} \/ pc = "approved"
        BY <1>1
    <2> QED BY <1>4, <1>5, <1>6, <2>1
<1>8. PICK p : p = Ask("StorageSet", Background, allowed)
    OBVIOUS
<1>9. p \in NativeRequests /\ p.kind = "Request" /\ p.name = "StorageSet" /\ p.arg = allowed
    <2>1. p \in NativeRequests
        BY <1>8, AsksIs
    <2> QED BY <1>8, <2>1 DEF Ask, Request
<1>10. Fits(p)'
    BY <1>4, <1>7, <1>9, AwaitsIs DEF Fits
<1>11. Emit(Native, Background, To(Background, p)) /\ p \in AskPackets
    <2>1. Emit(Native, Background, Routed(Native, p, None))
        BY <1>1, <1>6, <1>8 DEF Answer
    <2> QED BY <1>2, <1>9, <2>1, NativeSends
<1> HIDE DEF q
<1> QED BY <1>2, <1>4, <1>10, <1>11, AskSentAlone, Nodes

LEMMA WatchDevicesAsks ==
    ASSUME IInv, AsksOK, WatchDevices
    PROVE  AsksOK'
<1>1. Awaited("watch", "StorageGet") /\ hid' = "process_requests" /\ UNCHANGED <<granted, storage, popup>>
    BY DEF WatchDevices, pageVars
<1>2. /\ chan[Background][Native] # <<>> /\ Head(chan[Background][Native]) \in AskPackets
      /\ Clear(Native, Background) /\ popup # "opening"
      /\ granted # {} => storage
    BY <1>1, AwaitedAsks DEF Fits
<1>3. PICK out : Emit(Native, Background, out) /\ Lacks(AskPackets, out)
    <2>1. ASSUME NEW name \in {"AddedDevice", "RemovedDevice"}, Answer(Native, Background, Notification(name, Native, Injected))
          PROVE  \E out : Emit(Native, Background, out) /\ Lacks(AskPackets, out)
        <3>1. Notification(name, Native, Injected) \notin AskPackets
            BY Elsewhere DEF Notification
        <3> QED BY <2>1, <3>1, LacksRouted DEF Answer
    <2>2. ASSUME Take(Native, Background)
          PROVE  \E out : Emit(Native, Background, out) /\ Lacks(AskPackets, out)
        BY <2>2, LacksNothing DEF Take
    <2> QED BY <2>1, <2>2 DEF WatchDevices
<1>4. NoAsk'
    BY <1>2, <1>3, AskGone, IInvChan, Nodes
<1> QED BY <1>1, <1>2, <1>4, AwaitsIs DEF AsksOK, Silence

-----------------------------------------------------------------------------
(* The popup closes.                                                         *)

\* What is under way to the popup is lost; the popup sends more.
Cuts(more) ==
    /\ chan'[Background][Popup] = <<>>
    /\ chan'[Popup][Background] = Joined(chan[Popup][Background], more)
    /\ \A x, y \in Address : {x, y} # {Background, Popup} => chan'[x][y] = chan[x][y]

LEMMA ClosesCuts ==
    ASSUME ChanOK, NEW answer \in Seq(NativeResponses), Closes(answer)
    PROVE  /\ Cuts(Joined(answer, <<Closed>>)) /\ popup' = "closing"
           /\ UNCHANGED <<hid, storage, granted>>
<1> DEFINE q == chan[Popup][Background]
           S == PacketsOn(Popup, Background)
           end == Joined(Joined(q, answer), <<Closed>>)
<1>1. chan' = [chan EXCEPT ![Background][Popup] = <<>>, ![Popup][Background] = end]
    BY DEF Closes, Joined
<1>2. chan = [x \in Address |-> [y \in Address |-> chan[x][y]]]
    BY DEF ChanOK
<1>3. /\ chan'[Background][Popup] = <<>> /\ chan'[Popup][Background] = end
      /\ \A x, y \in Address : {x, y} # {Background, Popup} => chan'[x][y] = chan[x][y]
    <2> HIDE DEF end
    <2>1. chan'[Background][Popup] = <<>> /\ chan'[Popup][Background] = end
        BY <1>1, <1>2, Nodes
    <2>2. ASSUME NEW x \in Address, NEW y \in Address, {x, y} # {Background, Popup}
          PROVE  chan'[x][y] = chan[x][y]
        <3>1. ~(x = Background /\ y = Popup) /\ ~(x = Popup /\ y = Background)
            BY <2>2
        <3> QED BY <1>1, <1>2, <3>1, Nodes
    <2> QED BY <2>1, <2>2
<1>4. end = Joined(q, Joined(answer, <<Closed>>))
    <2>1. q \in Seq(S) /\ <<Closed>> \in Seq({Closed})
        BY PortIs, Nodes
    <2>2. PICK T : T = S \cup NativeResponses \cup {Closed}
        OBVIOUS
    <2>3. q \in Seq(T) /\ answer \in Seq(T) /\ <<Closed>> \in Seq(T)
        BY <2>1, <2>2
    <2> HIDE DEF q
    <2> QED BY <2>3 DEF Joined
<1>5. popup' = "closing" /\ UNCHANGED <<hid, storage, granted>>
    BY DEF Closes, nativeVars, pageVars
<1> QED BY <1>3, <1>4, <1>5 DEF Cuts

LEMMA DiscardCuts ==
    ASSUME ChanOK, DiscardForPopup
    PROVE  Cuts(<<>>) /\ UNCHANGED <<hid, storage, granted, popup>>
<1>1. chan' = [chan EXCEPT ![Background][Popup] = <<>>]
    BY DEF DiscardForPopup
<1>2. chan = [x \in Address |-> [y \in Address |-> chan[x][y]]]
    BY DEF ChanOK
<1>3. chan'[Background][Popup] = <<>>
    BY <1>1, <1>2, Nodes
<1>4. ASSUME NEW x \in Address, NEW y \in Address, ~(x = Background /\ y = Popup)
      PROVE  chan'[x][y] = chan[x][y]
    BY <1>1, <1>2, <1>4, Nodes
<1>5. Joined(chan[Popup][Background], <<>>) = chan[Popup][Background]
    BY PortIs, JoinedNothing, Nodes
<1>6. chan'[Popup][Background] = chan[Popup][Background]
    BY <1>4, Nodes
<1>7. \A x, y \in Address : {x, y} # {Background, Popup} => chan'[x][y] = chan[x][y]
    BY <1>4
<1>8. UNCHANGED <<hid, storage, granted, popup>>
    BY DEF DiscardForPopup, nativeVars, pageVars
<1> QED BY <1>3, <1>5, <1>6, <1>7, <1>8 DEF Cuts

LEMMA CutsSame ==
    ASSUME ChanOK, NEW more \in Seq(NativeResponses \cup {Closed}), Cuts(more)
    PROVE  Same(PageTraffic)
<1> SUFFICES ASSUME NEW x \in Address, NEW y \in Address
             PROVE  SameOn(PageTraffic, chan[x][y], chan'[x][y])
    BY DEF Same
<1>1. chan[x][y] \in Seq(PacketsOn(x, y))
    BY PortIs
<1>2. CASE {x, y} = {Background, Popup}
    <2>1. \A p \in PacketsOn(x, y) \cup NativeResponses \cup {Closed} : p \notin PageTraffic
        <3>1. PacketsOn(x, y) \subseteq Announcements(x, y) \cup AccessRequests \cup NativeResponses \cup {Closed}
            BY <1>2, Nodes DEF PacketsOn, Data
        <3>2. \A p \in Announcements(x, y) : p.kind \in {"AddForwarded", "RemoveForwarded"}
            BY AnnouncementIs
        <3>3. \A p \in AccessRequests \cup NativeResponses : p \in AskPackets
            BY DEF AskPackets
        <3>4. Closed.kind = "Closed"
            BY DEF Closed
        <3> QED BY <3>1, <3>2, <3>3, <3>4, TrafficElsewhere
    <2>2. PICK T : T = PacketsOn(x, y) \cup NativeResponses \cup {Closed}
        OBVIOUS
    <2>3. chan[x][y] \in Seq(T) /\ more \in Seq(T)
        BY <1>1, <2>2
    <2>4. chan'[x][y] = <<>> \/ chan'[x][y] = Joined(chan[x][y], more)
        BY <1>2 DEF Cuts
    <2>5. chan'[x][y] \in Seq(T)
        <3>1. <<>> \in Seq(T)
            OBVIOUS
        <3>2. Joined(chan[x][y], more) \in Seq(T)
            BY <2>3, JoinedIs
        <3> QED BY <2>4, <3>1, <3>2, Zenon
    <2>6. \A i \in 1..Len(chan[x][y]) : chan[x][y][i] \notin PageTraffic
        BY <2>1, <2>2, <2>3
    <2>7. \A i \in 1..Len(chan'[x][y]) : chan'[x][y][i] \notin PageTraffic
        BY <2>1, <2>2, <2>5
    <2> QED BY <2>6, <2>7 DEF SameOn
<1>3. CASE {x, y} # {Background, Popup}
    <2>1. chan'[x][y] = chan[x][y]
        BY <1>3 DEF Cuts
    <2> QED BY <1>1, <2>1, SameNone
<1> QED BY <1>2, <1>3

\* What hid() asks is lost if it is on the way to the popup.
LEMMA CutsAsks ==
    ASSUME ChanOK, NEW more, IsSequence(more), \A i \in 1..Len(more) : more[i] \notin AskPackets, Cuts(more)
    PROVE  /\ NoAsk => NoAsk'
           /\ \A x, y \in Address : \A p : OnlyAsk(x, y, p) =>
                  OnlyAsk(x, y, p)' \/ (x = Background /\ y = Popup /\ NoAsk')
<1>1. ASSUME NEW x \in Address, NEW y \in Address
      PROVE  /\ \A i \in 1..Len(chan'[x][y]) : chan'[x][y][i] \in AskPackets =>
                    i \in 1..Len(chan[x][y]) /\ chan[x][y][i] = chan'[x][y][i]
             /\ \A i \in 1..Len(chan[x][y]) :
                    ~(x = Background /\ y = Popup) => i \in 1..Len(chan'[x][y]) /\ chan'[x][y][i] = chan[x][y][i]
    <2> DEFINE q == chan[x][y]
    <2>1. q \in Seq(PacketsOn(x, y))
        BY PortIs
    <2>2. CASE x = Background /\ y = Popup
        BY <2>2 DEF Cuts
    <2>3. CASE x = Popup /\ y = Background
        <3>1. chan'[x][y] = Joined(q, more)
            BY <2>3 DEF Cuts
        <3> HIDE DEF q
        <3>2. /\ Len(q) \in Nat
              /\ \A i \in 1..Len(q) : i \in 1..Len(chan'[x][y]) /\ chan'[x][y][i] = q[i]
              /\ \A i \in 1..Len(chan'[x][y]) :
                  i > Len(q) => i - Len(q) \in 1..Len(more) /\ chan'[x][y][i] = more[i - Len(q)]
            BY <2>1, <3>1, JoinedHas
        <3>3. \A i \in 1..Len(chan'[x][y]) : chan'[x][y][i] \in AskPackets =>
                    i \in 1..Len(q) /\ q[i] = chan'[x][y][i]
            <4>1. \A i \in 1..Len(chan'[x][y]) : i > Len(q) \/ i \in 1..Len(q)
                BY <3>2
            <4> QED BY <3>2, <4>1
        <3> QED BY <3>2, <3>3 DEF q
    <2>4. CASE ~(x = Background /\ y = Popup) /\ ~(x = Popup /\ y = Background)
        <3>1. {x, y} # {Background, Popup}
            BY <2>4, Nodes
        <3>2. chan'[x][y] = chan[x][y]
            BY <3>1 DEF Cuts
        <3> QED BY <3>2
    <2> QED BY <2>2, <2>3, <2>4
<1>2. ASSUME NoAsk PROVE NoAsk'
    BY <1>1, <1>2 DEF NoAsk
<1>3. ASSUME NEW x \in Address, NEW y \in Address, NEW p, OnlyAsk(x, y, p)
      PROVE  OnlyAsk(x, y, p)' \/ (x = Background /\ y = Popup /\ NoAsk')
    <2>1. PICK i \in 1..Len(chan[x][y]) :
              /\ chan[x][y][i] = p
              /\ \A u, v \in Address : \A j \in 1..Len(chan[u][v]) :
                    chan[u][v][j] \in AskPackets => u = x /\ v = y /\ j = i
        BY <1>3 DEF OnlyAsk
    <2>2. \A u, v \in Address : \A j \in 1..Len(chan'[u][v]) :
              chan'[u][v][j] \in AskPackets => u = x /\ v = y /\ j = i
        <3> SUFFICES ASSUME NEW u \in Address, NEW v \in Address, NEW j \in 1..Len(chan'[u][v]),
                            chan'[u][v][j] \in AskPackets
                     PROVE  u = x /\ v = y /\ j = i
            OBVIOUS
        <3>1. j \in 1..Len(chan[u][v]) /\ chan[u][v][j] \in AskPackets
            BY <1>1
        <3> QED BY <2>1, <3>1
    <2>3. CASE x = Background /\ y = Popup
        <3>1. chan'[x][y] = <<>>
            BY <2>3 DEF Cuts
        <3>2. NoAsk'
            BY <2>2, <3>1 DEF NoAsk
        <3> QED BY <2>3, <3>2
    <2>4. CASE ~(x = Background /\ y = Popup)
        <3>1. i \in 1..Len(chan'[x][y]) /\ chan'[x][y][i] = p /\ p \in AskPackets
            BY <1>1, <1>3, <2>1, <2>4 DEF OnlyAsk
        <3> QED BY <2>2, <3>1 DEF OnlyAsk
    <2> QED BY <2>3, <2>4
<1> QED BY <1>2, <1>3

LEMMA CutOff ==
    ASSUME IInv, AsksOK, NEW more, IsSequence(more), \A i \in 1..Len(more) : more[i] \notin AskPackets,
           Cuts(more), UNCHANGED <<hid, storage, granted>>, popup # "opening" => popup' \in {"none", "closing"},
           popup = "opening" => popup' = popup
    PROVE  AsksOK'
<1>1. CASE Silence
    <2>1. NoAsk'
        BY <1>1, CutsAsks, IInvChan DEF Silence
    <2> QED BY <1>1, <2>1, AwaitsIs DEF AsksOK, Silence
<1>2. CASE Exchange
    <2>1. PICK x \in Address, y \in Address, p \in AskPackets : OnlyAsk(x, y, p) /\ Fits(p) /\ popup # "opening"
        BY <1>2 DEF Exchange
    <2>2. Fits(p)'
        BY <2>1 DEF Fits
    <2>3. CASE OnlyAsk(x, y, p)'
        BY <2>1, <2>2, <2>3 DEF AsksOK, Exchange
    <2>4. CASE x = Background /\ y = Popup /\ NoAsk'
        <3>1. PICK i \in 1..Len(chan[x][y]) : chan[x][y][i] = p
            BY <2>1 DEF OnlyAsk
        <3>2. p \in PacketsOn(Background, Popup)
            BY <2>4, <3>1, PortIs, IInvChan
        <3>3. p \in Announcements(Background, Popup) \/ p \in AccessRequests
            BY <3>2, Nodes DEF PacketsOn, Data
        <3>4. p \in AccessRequests
            BY <3>3, AnnouncementIs, Elsewhere, <2>1
        <3>5. p.name = "RequestAccess" /\ p.kind = "Request"
            BY <3>4 DEF AccessRequests
        <3>6. hid = "RequestAccess" /\ (granted # {} => storage)
            BY <2>1, <3>5, AwaitsIs DEF Fits
        <3> QED BY <2>1, <2>4, <3>6 DEF AsksOK, Silence
    <2> QED BY <2>1, <2>3, <2>4, CutsAsks, IInvChan
<1> QED BY <1>1, <1>2 DEF AsksOK

LEMMA NothingIsSequence == IsSequence(<<>>) /\ Len(<<>>) = 0
<1>1. <<>> \in Seq({}) /\ Len(<<>>) = 0
    OBVIOUS
<1> QED BY <1>1, Zenon DEF IsSequence

LEMMA ClosedNoAsk == Closed \notin AskPackets /\ Closed \notin PageTraffic
<1>1. Closed.kind = "Closed"
    BY DEF Closed
<1> QED BY <1>1, Elsewhere, TrafficElsewhere

LEMMA DiscardForPopupAsks ==
    ASSUME IInv, AsksOK, DiscardForPopup
    PROVE  AsksOK' /\ Same(PageTraffic)
<1>1. Cuts(<<>>) /\ UNCHANGED <<hid, storage, granted, popup>> /\ conn[Popup] = {}
    BY DiscardCuts, IInvChan DEF DiscardForPopup
<1>2. popup # "opening" => popup \in {"none", "closing"}
    BY <1>1 DEF IInv, App, PopupOK, PopupPlaces
<1>3. AsksOK'
    BY <1>1, <1>2, NothingIsSequence, CutOff
<1>4. <<>> \in Seq(NativeResponses \cup {Closed})
    OBVIOUS
<1> QED BY <1>1, <1>3, <1>4, CutsSame, IInvChan

LEMMA DismissPopupAsks ==
    ASSUME IInv, AsksOK, DismissPopup
    PROVE  AsksOK' /\ Same(PageTraffic)
<1>1. <<>> \in Seq(NativeResponses) /\ Joined(<<>>, <<Closed>>) = <<Closed>> /\ <<Closed>> \in Seq({Closed})
    BY DEF Joined
<1>2. Closes(<<>>) /\ popup = "open"
    BY DEF DismissPopup
<1>3. Cuts(<<Closed>>) /\ popup' = "closing" /\ UNCHANGED <<hid, storage, granted>>
    BY <1>1, <1>2, ClosesCuts, IInvChan
<1>4. IsSequence(<<Closed>>) /\ \A i \in 1..Len(<<Closed>>) : <<Closed>>[i] \notin AskPackets
    BY ClosedNoAsk, LacksOne
<1>5. AsksOK'
    BY <1>2, <1>3, <1>4, CutOff
<1>6. <<Closed>> \in Seq(NativeResponses \cup {Closed})
    BY <1>1
<1> QED BY <1>3, <1>5, <1>6, CutsSame, IInvChan

LEMMA AnswerAccessAsks ==
    ASSUME IInv, AsksOK, AnswerAccess
    PROVE  AsksOK' /\ Same(PageTraffic)
<1> DEFINE p == Packet(Popup, Background)
<1>1. p \in AccessRequests /\ chan[Background][Popup] # <<>> /\ p = Head(chan[Background][Popup])
    <2>1. p \in Data(Background, Popup)
        BY DataHead, Nodes DEF AnswerAccess, Received, Packet, DataKinds, IInv, Net, Types
    <2> QED BY <2>1, Nodes DEF Data, AnswerAccess, Received, Arrives, Packet
<1>2. PICK approved \in {FALSE, p.arg} : Closes(<<Response("RequestAccess", Native, 0, TRUE, approved)>>)
    BY DEF AnswerAccess
<1>3. approved \in BOOLEAN /\ p.kind = "Request" /\ p.name = "RequestAccess"
    BY <1>1, <1>2 DEF AccessRequests
<1>4. PICK a : a = Response("RequestAccess", Native, 0, TRUE, approved)
    OBVIOUS
<1>5. a \in NativeResponses /\ a \in AskPackets /\ a.kind = "Response" /\ a.name = "RequestAccess"
    BY <1>3, <1>4 DEF NativeResponses, Response, AskPackets
<1>6. Clear(Popup, Background) /\ Fits(p)
    BY <1>1, AskHead, Nodes DEF AskPackets
<1>7. <<a>> \in Seq(NativeResponses) /\ Closes(<<a>>)
    <2>1. <<a>> \in Seq(NativeResponses)
        BY <1>5
    <2> QED BY <1>2, <1>4, <2>1
<1>8. Cuts(Joined(<<a>>, <<Closed>>)) /\ popup' = "closing" /\ UNCHANGED <<hid, storage, granted>>
    BY <1>7, ClosesCuts, IInvChan
<1>9. Fits(a)'
    BY <1>3, <1>5, <1>6, <1>8, AwaitsIs DEF Fits
<1> HIDE DEF p
<1>10. PICK more : more = Joined(<<a>>, <<Closed>>)
    OBVIOUS
<1>11. more \in Seq(NativeResponses \cup {Closed}) /\ Len(more) = 2 /\ more[1] = a /\ more[2] = Closed
    BY <1>5, <1>10 DEF Joined
<1>12. IsSequence(more)
    BY <1>11, Zenon DEF IsSequence
<1> DEFINE q == chan[Popup][Background]
<1>13. q \in Seq(PacketsOn(Popup, Background)) /\ \A i \in 1..Len(q) : q[i] \notin AskPackets
    BY <1>6, PortIs, IInvChan, Nodes DEF Clear
<1>14. chan'[Popup][Background] = Joined(q, more)
    BY <1>8, <1>10 DEF Cuts
<1>15. PICK r : r = chan'[Popup][Background]
    OBVIOUS
<1>16. /\ Len(q) + 1 \in 1..Len(r) /\ r[Len(q) + 1] = a
       /\ \A i \in 1..Len(r) : r[i] \in AskPackets => i = Len(q) + 1
    <2> HIDE DEF q
    <2>1. /\ Len(q) \in Nat
          /\ \A i \in 1..Len(q) : i \in 1..Len(r) /\ r[i] = q[i]
          /\ \A i \in 1..Len(more) : i + Len(q) \in 1..Len(r) /\ r[i + Len(q)] = more[i]
          /\ \A i \in 1..Len(r) :
                i > Len(q) => i - Len(q) \in 1..Len(more) /\ r[i] = more[i - Len(q)]
        BY <1>12, <1>13, <1>14, <1>15, JoinedHas
    <2>2. 1 + Len(q) \in 1..Len(r) /\ r[1 + Len(q)] = a
        BY <1>11, <2>1
    <2>3. ASSUME NEW i \in 1..Len(r), r[i] \in AskPackets PROVE i = Len(q) + 1
        <3>1. i > Len(q)
            BY <1>13, <2>1, <2>3
        <3>2. i - Len(q) \in 1..2 /\ r[i] = more[i - Len(q)]
            BY <1>11, <2>1, <3>1
        <3>3. i - Len(q) # 2
            BY <1>11, <2>3, <3>2, ClosedNoAsk
        <3> QED BY <2>1, <3>2, <3>3
    <2> QED BY <2>1, <2>2, <2>3
<1>17. ASSUME NEW u \in Address, NEW v \in Address, ~(u = Popup /\ v = Background)
       PROVE  \A j \in 1..Len(chan'[u][v]) : chan'[u][v][j] \notin AskPackets
    <2>1. CASE u = Background /\ v = Popup
        BY <1>8, <2>1 DEF Cuts
    <2>2. CASE {u, v} # {Background, Popup}
        <3>1. chan'[u][v] = chan[u][v] /\ ~(u = Background /\ v = Popup)
            BY <1>8, <2>2 DEF Cuts
        <3> QED BY <1>6, <3>1 DEF Clear
    <2> QED BY <1>17, <2>1, <2>2
<1>18. OnlyAsk(Popup, Background, a)'
    <2>1. PICK m \in 1..Len(r) : m = Len(q) + 1
        BY <1>16
    <2>2. chan'[Popup][Background][m] = a /\ m \in 1..Len(chan'[Popup][Background])
        BY <1>15, <1>16, <2>1
    <2>3. \A u, v \in Address : \A j \in 1..Len(chan'[u][v]) :
              chan'[u][v][j] \in AskPackets => u = Popup /\ v = Background /\ j = m
        <3> SUFFICES ASSUME NEW u \in Address, NEW v \in Address, NEW j \in 1..Len(chan'[u][v]),
                            chan'[u][v][j] \in AskPackets
                     PROVE  u = Popup /\ v = Background /\ j = m
            OBVIOUS
        <3>1. u = Popup /\ v = Background
            BY <1>17
        <3> QED BY <1>15, <1>16, <2>1, <3>1
    <2> QED BY <1>5, <2>2, <2>3, Nodes DEF OnlyAsk
<1>19. AsksOK'
    BY <1>5, <1>8, <1>9, <1>18, Nodes DEF AsksOK, Exchange
<1> QED BY <1>8, <1>10, <1>11, <1>19, CutsSame, IInvChan

-----------------------------------------------------------------------------
(* hid() answers the page and goes on.                                       *)

LEMMA SubscribeHidAsks ==
    ASSUME IInv, AsksOK, SubscribeHid
    PROVE  AsksOK' /\ Same(PageTraffic)
<1> DEFINE reply == Reply("SubscribeHid", Head(subscribe).id, TRUE)
           ask == Ask("StorageGet", Background, "allowed")
           out == Routed(Native, reply, None) ++ To(Background, ask)
<1>1. /\ hid = "select" /\ subscribe # <<>> /\ hid' = "watch" /\ Emit(Native, None, out)
      /\ UNCHANGED <<granted, storage, popup>>
    BY DEF SubscribeHid, pageVars
<1>2. NoAsk /\ popup # "opening" /\ (granted # {} => storage)
    BY <1>1, Waiting, AwaitsIs
<1>3. Head(subscribe).id.at = "SubscribeHid"
    <2>1. Head(subscribe) \in [id : IdsAt({"SubscribeHid"}), refreshed : BOOLEAN]
        BY <1>1, TailOf DEF IInv, App, QueuesOK, Queue
    <2> QED BY <2>1 DEF IdsAt
<1>4. reply \notin AskPackets /\ reply \notin PageTraffic
    <2>1. reply.kind = "Response" /\ reply.receiver = Injected /\ reply.id = Head(subscribe).id
        BY DEF Reply, Response
    <2>2. reply.id \notin CallIds
        BY <1>3, <2>1 DEF CallIds
    <2> QED BY <2>1, <2>2, Elsewhere, TrafficElsewhere, Nodes
<1>5. ask \in AskPackets /\ Fits(ask)'
    BY <1>1, <1>2, AsksIs, AskFits, AwaitsIs DEF AskPackets
<1> HIDE DEF reply, ask
<1>6. Single(AskPackets, out, Background, ask) /\ Lacks(PageTraffic, out)
    <2>1. Single(AskPackets, To(Background, ask), Background, ask) /\ Lacks(PageTraffic, To(Background, ask))
        BY <1>5, SingleTo, TrafficElsewhere, LacksTo, Nodes
    <2>2. Lacks(AskPackets, Routed(Native, reply, None)) /\ Lacks(PageTraffic, Routed(Native, reply, None))
        BY <1>4, LacksRouted
    <2> QED BY <2>1, <2>2, SingleBoth, LacksBoth
<1> HIDE DEF out
<1> QED BY <1>1, <1>2, <1>5, <1>6, NoAskClear, AskSent, Nodes

\* What is answered, and where hid() goes on: n more of those waiting are answered.
Goes(n, late) ==
    \/ ~late /\ n = 0 /\ hid' = "process_requests"
    \/ late /\ hid' = "watch"
    \/ late /\ hid' = "OpenPopup" /\ request_device' # <<>>
AskedThen ==
    CASE hid' = "watch" -> To(Background, Ask("StorageGet", Background, "allowed"))
      [] hid' = "OpenPopup" -> To(Background, Ask("OpenPopup", Background, "popup"))
      [] OTHER -> Nothing
Refreshes(waiting, n) == [k \in 1..n |-> Reply("PollRefresh", waiting[k].id, TRUE)]

Resumes(reply, from, late, waiting) ==
    \E n \in 0..Len(waiting), replies \in Seq(PageResponses) :
        /\ replies = <<reply>> \o Refreshes(waiting, n)
        /\ Emit(Native, from, ToPage(replies) ++ AskedThen) /\ Goes(n, late)
        /\ poll_refresh' = SubSeq(waiting, n + 1, Len(waiting))
        /\ ToPage(replies) = [Nothing EXCEPT ![Background] = replies]

LEMMA ResumeIs ==
    ASSUME IInv, ~Early, NEW reply \in PageResponses, NEW from \in {None, Background}, NEW late,
           NEW waiting \in PollQueue, Resume(reply, from, late, waiting)
    PROVE  elapsed' = late /\ UNCHANGED <<conn, routes>> /\ Resumes(reply, from, late, waiting)
<1> DEFINE ask == Ask("StorageGet", Background, "allowed")
           open == Ask("OpenPopup", Background, "popup")
           goes(pc, n, out) == /\ hid' = pc
                               /\ poll_refresh' = SubSeq(waiting, n + 1, Len(waiting))
                               /\ Emit(Native, from, ToPage(<<reply>> \o Refreshes(waiting, n)) ++ out)
<1>1. /\ elapsed' = late /\ UNCHANGED <<conn, routes>>
      /\ \/ ~late /\ goes("process_requests", 0, Nothing)
         \/ \E n \in 0..Len(waiting) :
               /\ late
               /\ \/ goes("watch", n, To(Background, ask))
                  \/ request_device' # <<>> /\ goes("OpenPopup", n, To(Background, open))
    BY DEF Resume, Refreshes
<1>2. Len(waiting) \in Nat /\ \A k \in 1..Len(waiting) : waiting[k].id \in PageIds
    <2> DEFINE S == [id : IdsAt({"PollRefresh", "PollRefresh1", "PollRefresh2"}), refreshed : BOOLEAN]
    <2>1. waiting \in Seq(S)
        BY DEF PollQueue, Queue
    <2>2. \A e \in S : e.id \in PageIds
        BY DEF IdsAt
    <2> HIDE DEF S
    <2>3. Len(waiting) \in Nat /\ \A k \in 1..Len(waiting) : waiting[k] \in S
        BY <2>1
    <2> QED BY <2>2, <2>3
<1>3. PICK n \in 0..Len(waiting) :
          /\ Emit(Native, from, ToPage(<<reply>> \o Refreshes(waiting, n)) ++ AskedThen) /\ Goes(n, late)
          /\ poll_refresh' = SubSeq(waiting, n + 1, Len(waiting))
    <2>1. CASE ~late /\ goes("process_requests", 0, Nothing)
        <3>1. 0 \in 0..Len(waiting)
            BY <1>2
        <3>2. Goes(0, late) /\ AskedThen = Nothing
            BY <2>1 DEF Goes, AskedThen
        <3> QED BY <2>1, <3>1, <3>2
    <2>2. CASE \E n \in 0..Len(waiting) : late /\ goes("watch", n, To(Background, ask))
        <3>1. PICK n \in 0..Len(waiting) : late /\ goes("watch", n, To(Background, ask))
            BY <2>2
        <3>2. Goes(n, late) /\ AskedThen = To(Background, ask)
            BY <3>1 DEF Goes, AskedThen
        <3> QED BY <3>1, <3>2
    <2>3. CASE \E n \in 0..Len(waiting) : late /\ request_device' # <<>> /\ goes("OpenPopup", n, To(Background, open))
        <3>1. PICK n \in 0..Len(waiting) : late /\ request_device' # <<>> /\ goes("OpenPopup", n, To(Background, open))
            BY <2>3
        <3>2. Goes(n, late) /\ AskedThen = To(Background, open)
            BY <3>1 DEF Goes, AskedThen
        <3> QED BY <3>1, <3>2
    <2> HIDE DEF goes, ask, open
    <2> QED BY <1>1, <2>1, <2>2, <2>3
<1>4. <<reply>> \o Refreshes(waiting, n) \in Seq(PageResponses)
    <2> DEFINE P == PageResponses
               s == Refreshes(waiting, n)
    <2>1. n \in Nat /\ "PollRefresh" \in RequestNames /\ TRUE \in BOOLEAN
        BY <1>2 DEF RequestNames
    <2>2. ASSUME NEW k \in 1..n PROVE s[k] \in P
        <3>1. waiting[k].id \in PageIds
            BY <1>2, <2>1
        <3> QED BY <2>1, <3>1, ReplyIs DEF Refreshes
    <2>3. s = [k \in 1..n |-> s[k]]
        BY DEF Refreshes
    <2>4. reply \in P
        OBVIOUS
    <2> HIDE DEF P, s
    <2>5. s \in Seq(P)
        BY <2>1, <2>2, <2>3
    <2>6. <<reply>> \in Seq(P)
        BY <2>4
    <2>7. <<reply>> \o s \in Seq(P)
        BY <2>5, <2>6
    <2> QED BY <2>7 DEF P, s
<1>5. PICK replies : replies = <<reply>> \o Refreshes(waiting, n)
    OBVIOUS
<1>6. nextHop(Native, Injected, None) = Background /\ Background # None
    BY RunsOn, NativeKnows, Nodes DEF IInv
<1>7. ToPage(replies) = [Nothing EXCEPT ![Background] = replies]
    BY <1>6 DEF ToPage
<1>8. replies \in Seq(PageResponses) /\ Emit(Native, from, ToPage(replies) ++ AskedThen)
    BY <1>3, <1>4, <1>5, Zenon
<1> QED BY <1>1, <1>3, <1>5, <1>7, <1>8 DEF Resumes

\* Replies are no answers to hid().
LEMMA RepliesLackAsks ==
    ASSUME NEW replies \in Seq(PageResponses), ToPage(replies) = [Nothing EXCEPT ![Background] = replies]
    PROVE  Lacks(AskPackets, ToPage(replies))
<1>1. IsSequence(replies) /\ \A i \in 1..Len(replies) : replies[i] \notin AskPackets
    <2>1. \A p \in PageResponses : p \notin AskPackets
        <3>1. \A p \in PageResponses : p.kind = "Response" /\ p.receiver = Injected
            BY DEF PageResponses
        <3> QED BY <3>1, Elsewhere, Nodes
    <2> HIDE DEF PageResponses
    <2>2. \A i \in 1..Len(replies) : replies[i] \notin AskPackets
        BY <2>1
    <2> QED BY <2>2, Zenon DEF IsSequence
<1>2. ASSUME NEW y \in Address PROVE ToPage(replies)[y] = IF y = Background THEN replies ELSE <<>>
    BY DEF Nothing
<1>3. ASSUME NEW y \in Address
      PROVE  IsSequence(ToPage(replies)[y]) /\ \A i \in 1..Len(ToPage(replies)[y]) : ToPage(replies)[y][i] \notin AskPackets
    <2>1. CASE y = Background
        <3>1. ToPage(replies)[y] = replies
            BY <1>2, <2>1
        <3> QED BY <1>1, <3>1
    <2>2. CASE y # Background
        <3>1. ToPage(replies)[y] = <<>>
            BY <1>2, <2>2
        <3>2. 1..Len(<<>>) = {}
            BY NothingIsSequence
        <3> QED BY <3>1, <3>2, NothingIsSequence
    <2> QED BY <2>1, <2>2
<1> QED BY <1>3 DEF Lacks

LEMMA ResumeAsks ==
    ASSUME IInv, ~Early, NEW reply \in PageResponses, NEW from \in {None, Background}, NEW late,
           NEW waiting \in PollQueue, Resume(reply, from, late, waiting), Clear(Native, from),
           from = Background => chan[from][Native] # <<>> /\ Head(chan[from][Native]) \in AskPackets,
           granted # {} => storage, popup # "opening", UNCHANGED <<granted, storage, popup>>
    PROVE  AsksOK'
<1>1. Resumes(reply, from, late, waiting)
    BY ResumeIs
<1>2. PICK n \in 0..Len(waiting), replies \in Seq(PageResponses) :
          /\ replies = <<reply>> \o Refreshes(waiting, n)
          /\ Emit(Native, from, ToPage(replies) ++ AskedThen) /\ Goes(n, late)
          /\ poll_refresh' = SubSeq(waiting, n + 1, Len(waiting))
          /\ ToPage(replies) = [Nothing EXCEPT ![Background] = replies]
    BY <1>1 DEF Resumes
<1>3. PICK out : out = AskedThen
    OBVIOUS
<1>4. /\ Emit(Native, from, ToPage(replies) ++ out) /\ Goes(n, late)
      /\ ToPage(replies) = [Nothing EXCEPT ![Background] = replies]
    BY <1>2, <1>3
<1>5. Lacks(AskPackets, ToPage(replies))
    BY <1>4, RepliesLackAsks
<1>6. from # Native /\ (from \in Address => chan[from][Native] # <<>>)
    BY Nodes
<1>7. CASE hid' = "process_requests"
    <2>1. out = Nothing
        BY <1>3, <1>7 DEF AskedThen
    <2>3. Lacks(AskPackets, ToPage(replies) ++ out)
        BY <1>5, <2>1, LacksNothing, LacksBoth
    <2>2. NoAsk'
        BY <1>4, <1>6, <2>3, AskGone, IInvChan, Nodes
    <2> QED BY <1>7, <2>2, AwaitsIs DEF AsksOK, Silence
<1>8. ASSUME NEW p, p \in NativeRequests, out = To(Background, p), Fits(p)'
      PROVE  AsksOK'
    <2>1. p \in AskPackets
        BY <1>8 DEF AskPackets
    <2>2. Single(AskPackets, ToPage(replies) ++ out, Background, p)
        BY <1>5, <1>8, <2>1, SingleTo, SingleBoth, Nodes
    <2>3. OnlyAsk(Native, Background, p)'
        BY <1>4, <1>6, <2>2, AskNew, IInvChan, Nodes
    <2> QED BY <1>8, <2>1, <2>3, Nodes DEF AsksOK, Exchange
<1>9. CASE hid' = "watch"
    <2>1. out = To(Background, Ask("StorageGet", Background, "allowed"))
        BY <1>3, <1>9 DEF AskedThen
    <2> QED BY <1>8, <1>9, <2>1, AsksIs, AskFits, AwaitsIs
<1>10. CASE hid' = "OpenPopup"
    <2>1. out = To(Background, Ask("OpenPopup", Background, "popup"))
        BY <1>3, <1>10 DEF AskedThen
    <2> QED BY <1>8, <1>10, <2>1, AsksIs, AskFits, AwaitsIs
<1> QED BY <1>4, <1>7, <1>9, <1>10 DEF Goes

LEMMA SelectPollRefreshAsks ==
    ASSUME IInv, AsksOK, SelectPollRefresh
    PROVE  AsksOK'
<1> DEFINE reply == Reply("PollRefresh", Head(poll_refresh).id, TRUE)
<1>1. /\ hid = "process_requests" /\ poll_refresh # <<>>
      /\ Resume(reply, None, elapsed, Tail(poll_refresh))
      /\ UNCHANGED <<granted, storage, popup>>
    BY DEF SelectPollRefresh, pageVars
<1>2. /\ Tail(poll_refresh) \in PollQueue
      /\ Head(poll_refresh) \in [id : IdsAt({"PollRefresh", "PollRefresh1", "PollRefresh2"}), refreshed : BOOLEAN]
    BY <1>1, TailOf DEF IInv, App, QueuesOK, Queue, PollQueue
<1>3. reply \in PageResponses
    <2>1. Head(poll_refresh).id \in PageIds
        BY <1>2 DEF IdsAt
    <2> QED BY <2>1, ReplyIs DEF RequestNames
<1>4. ~Early /\ None # Background
    BY <1>1, Nodes DEF Early
<1>5. NoAsk /\ popup # "opening" /\ (granted # {} => storage)
    BY <1>1, Waiting, AwaitsIs
<1>6. Clear(Native, None)
    BY <1>5, NoAskClear
<1> HIDE DEF reply
<1> QED BY <1>1, <1>2, <1>3, <1>4, <1>5, <1>6, ResumeAsks

LEMMA AnsweredAsks ==
    ASSUME IInv, AsksOK, NEW ok \in BOOLEAN, NEW late, NEW pc \in {"OpenPopup", "RequestAccess", "StorageSet"},
           NEW name \in {"OpenPopup", "RequestAccess", "StorageSet"}, Awaited(pc, name), Answered(ok, late),
           UNCHANGED <<granted, storage, popup>>
    PROVE  AsksOK'
<1> DEFINE reply == Reply("RequestDevice", Head(request_device).id, ok)
<1>1. Resume(reply, Background, late, poll_refresh)
    BY DEF Answered
<1>2. /\ chan[Background][Native] # <<>> /\ Head(chan[Background][Native]) \in AskPackets
      /\ Clear(Native, Background) /\ popup # "opening" /\ hid = pc /\ (granted # {} => storage)
    BY AwaitedAsks DEF Fits
<1>3. request_device # <<>> /\ ~Early
    BY <1>2 DEF IInv, App, QueuesOK, Early
<1>4. poll_refresh \in PollQueue
    BY DEF IInv, App, QueuesOK, PollQueue
<1>5. reply \in PageResponses
    <2>1. Head(request_device) \in [id : IdsAt({"RequestDevice"}), refreshed : BOOLEAN]
        BY <1>3, TailOf DEF IInv, App, QueuesOK, Queue
    <2>2. Head(request_device).id \in PageIds
        BY <2>1 DEF IdsAt
    <2> QED BY <2>2, ReplyIs DEF RequestNames
<1> HIDE DEF reply
<1> QED BY <1>1, <1>2, <1>3, <1>4, <1>5, ResumeAsks

LEMMA AnsweringAsks ==
    ASSUME IInv, AsksOK, PopupFailed \/ AllowedStored
    PROVE  AsksOK'
<1>1. CASE PopupFailed
    <2>1. PICK pc \in {"OpenPopup", "RequestAccess"} : Awaited(pc, pc)
        BY <1>1 DEF PopupFailed
    <2>2. PICK late \in {elapsed, TRUE} : Answered(FALSE, late)
        BY <1>1 DEF PopupFailed
    <2> QED BY <1>1, <2>1, <2>2, AnsweredAsks DEF PopupFailed, pageVars
<1>2. CASE AllowedStored
    BY <1>2, AnsweredAsks DEF AllowedStored, pageVars
<1> QED BY <1>1, <1>2

-----------------------------------------------------------------------------
(* The page and what it asks.                                                *)

LEMMA PageLeavesAsks ==
    ASSUME IInv, AsksOK, NEW z \in Address, NEW f, f # z, NEW out, Emit(z, f, out), Lacks(AskPackets, out),
           f \in Address => chan[f][z] # <<>> /\ Head(chan[f][z]) \notin AskPackets,
           UNCHANGED <<hid, storage, granted, popup>>
    PROVE  AsksOK'
<1>1. Same(AskPackets)
    BY SameEmit, IInvChan
<1> QED BY <1>1, AsksKept

\* A request of the page is queued: hid() has registered its handlers.
NativeRequestIs(p) ==
    /\ p \in PageRequests /\ p.id \in PageIds /\ p.name = RequestOf(p.id.at)
    /\ chan[Background][Native] # <<>> /\ p = Head(chan[Background][Native])
    /\ Emit(Native, Background, Nothing)
    /\ \/ /\ p.name = "SubscribeHid" /\ UNCHANGED <<request_device, poll_refresh>>
       \/ /\ p.name = "RequestDevice" /\ UNCHANGED <<subscribe, poll_refresh>> /\ ~Early
          /\ request_device' = Append(request_device, [id |-> p.id, refreshed |-> FALSE])
       \/ /\ p.name = "PollRefresh" /\ UNCHANGED <<subscribe, request_device>> /\ ~Early
          /\ poll_refresh' = Append(poll_refresh, [id |-> p.id, refreshed |-> FALSE])

LEMMA NativeRequested ==
    ASSUME IInv, NativeRequest
    PROVE  NativeRequestIs(Packet(Native, Background))
<1> DEFINE p == Packet(Native, Background)
<1>1. ASSUME NEW name \in {"SubscribeHid", "RequestDevice", "PollRefresh"},
             Received(Native, Background, "Request", name)
      PROVE  /\ p \in PageRequests /\ p.id \in PageIds /\ p.name = RequestOf(p.id.at) /\ p.name = name
             /\ chan[Background][Native] # <<>> /\ p = Head(chan[Background][Native])
             /\ name \in Registered /\ (name # "SubscribeHid" => ~Early)
    <2>1. /\ p \in PageRequests /\ p.name = name /\ (Early => p.id.at \in {"OpenNative", "SubscribeHid"})
        BY <1>1, RequestToNative DEF IInv, App
    <2>2. p.id \in PageIds /\ RequestOf(p.id.at) = name /\ p.name = RequestOf(p.id.at)
        BY <2>1 DEF PageRequests
    <2>3. name \in Registered /\ (name # "SubscribeHid" => ~Early)
        BY <2>1, <2>2 DEF Registered, Early, RequestOf
    <2> QED BY <1>1, <2>1, <2>2, <2>3 DEF Received, Arrives, Packet
<1>2. CASE Polled("SubscribeHid", subscribe) /\ UNCHANGED <<request_device, poll_refresh>>
    <2>1. Received(Native, Background, "Request", "SubscribeHid")
        BY <1>2 DEF Polled
    <2>2. Emit(Native, Background, Nothing)
        BY <1>1, <1>2, <2>1 DEF Polled, Take
    <2> QED BY <1>1, <1>2, <2>1, <2>2 DEF NativeRequestIs
<1>3. CASE Polled("RequestDevice", request_device) /\ UNCHANGED <<subscribe, poll_refresh>>
    <2>1. Received(Native, Background, "Request", "RequestDevice")
        BY <1>3 DEF Polled
    <2>2. Emit(Native, Background, Nothing) /\ request_device' = Append(request_device, [id |-> p.id, refreshed |-> FALSE])
        BY <1>1, <1>3, <2>1 DEF Polled, Take
    <2> QED BY <1>1, <1>3, <2>1, <2>2 DEF NativeRequestIs
<1>4. CASE Polled("PollRefresh", poll_refresh) /\ UNCHANGED <<subscribe, request_device>>
    <2>1. Received(Native, Background, "Request", "PollRefresh")
        BY <1>4 DEF Polled
    <2>2. Emit(Native, Background, Nothing) /\ poll_refresh' = Append(poll_refresh, [id |-> p.id, refreshed |-> FALSE])
        BY <1>1, <1>4, <2>1 DEF Polled, Take
    <2> QED BY <1>1, <1>4, <2>1, <2>2 DEF NativeRequestIs
<1> QED BY <1>2, <1>3, <1>4 DEF NativeRequest

LEMMA PageRequestIs ==
    ASSUME NEW p \in PageRequests
    PROVE  /\ p.kind = "Request" /\ p.sender = Injected /\ p.id \in PageIds /\ p.arg = FALSE
           /\ p \notin AskPackets /\ p \notin Notices /\ (p \in CallPackets <=> p.id \in CallIds)
<1>1. p.kind = "Request" /\ p.sender = Injected /\ p.id \in PageIds /\ p.arg = FALSE
    BY DEF PageRequests
<1> QED BY <1>1, Elsewhere, Nodes DEF CallPackets

LEMMA PageResponseIs ==
    ASSUME NEW p \in PageResponses
    PROVE  /\ p.kind = "Response" /\ p.receiver = Injected /\ p.id \in PageIds
           /\ p \notin AskPackets /\ p \notin Notices /\ (p \in CallPackets <=> p.id \in CallIds)
<1>1. p.kind = "Response" /\ p.receiver = Injected /\ p.id \in PageIds
    BY DEF PageResponses
<1> QED BY <1>1, Elsewhere, Nodes DEF CallPackets

LEMMA NoticeIs ==
    ASSUME NEW p \in Notices
    PROVE  p.kind = "Notification" /\ p.sender = Native /\ p.receiver = Injected /\ p \notin AskPackets /\ p \notin CallPackets
<1>1. p.kind = "Notification" /\ p.sender = Native /\ p.receiver = Injected
    BY DEF Notices
<1> QED BY <1>1, Elsewhere

LEMMA NativeRequestAsks ==
    ASSUME IInv, AsksOK, NativeRequest
    PROVE  AsksOK'
<1>1. /\ chan[Background][Native] # <<>> /\ Head(chan[Background][Native]) \in PageRequests
      /\ Emit(Native, Background, Nothing)
    BY NativeRequested DEF NativeRequestIs
<1>2. UNCHANGED <<hid, storage, granted, popup>>
    BY DEF NativeRequest, pageVars
<1> QED BY <1>1, <1>2, PageRequestIs, LacksNothing, PageLeavesAsks, Nodes

\* The request of a call of the page.
CallRequest(c, pc) == Request(RequestOf(pc), Injected, Native, [caller |-> c, at |-> pc], FALSE)

LEMMA CallRequestIs ==
    ASSUME NEW c \in Caller, NEW pc \in DOMAIN Following \ {"OpenNative"}, pc = "RequestDevice" => c # 0
    PROVE  /\ CallRequest(c, pc) \in PageRequests /\ CallRequest(c, pc).id = [caller |-> c, at |-> pc]
           /\ CallRequest(c, pc).receiver = Native
<1> DEFINE i == [caller |-> c, at |-> pc]
<1>1. i \in PageIds /\ i.at = pc
    BY DEF PageIds
<1>2. RequestOf(pc) \in RequestNames /\ RequestOf(pc) # "OpenNative"
    BY FollowingIs DEF RequestOf
<1> HIDE DEF i
<1>3. Request(RequestOf(pc), Injected, Native, i, FALSE) \in PageRequests
    BY <1>1, <1>2, Nodes DEF PageRequests, Request
<1> QED BY <1>3 DEF CallRequest, Request, i

\* The page asks over the content script.
LEMMA CallSent ==
    ASSUME IInv, NEW c \in Caller, NEW pc \in DOMAIN Following \ {"OpenNative"}, pc = "RequestDevice" => c # 0,
           NEW from \in {None, Content}, Asks(c, pc, Native, from), routes[Injected][Native] # <<>>,
           Early => pc \in {"OpenNative", "SubscribeHid"}
    PROVE  Emit(Injected, from, To(Content, CallRequest(c, pc))) /\ page' = [page EXCEPT ![c] = pc]
<1>1. /\ Answer(Injected, from, CallRequest(c, pc)) /\ page' = [page EXCEPT ![c] = pc]
    BY DEF Asks, CallRequest
<1>2. CallRequest(c, pc).receiver = Native /\ CallRequest(c, pc) \in PageRequests
    BY CallRequestIs
<1>3. nextHop(Injected, Native, None) = Content
    BY PageKnows, Nodes DEF IInv
<1> QED BY <1>1, <1>2, <1>3, Nodes DEF Answer, Routed

\* An answer to the page.
PageAnswerIs(p) ==
    LET c == p.id.caller
        next == Following[p.id.at]
    IN  /\ p \in PageResponses /\ c \in Caller /\ p.id.at \in DOMAIN Following
        /\ chan[Content][Injected] # <<>> /\ p = Head(chan[Content][Injected])
        /\ \/ /\ Emit(Injected, Content, Nothing)
              /\ \/ page[c] # p.id.at /\ page' = page
                 \/ page[c] = p.id.at /\ page' = [page EXCEPT ![c] = "failed"]
                 \/ page[c] = p.id.at /\ next = "ready" /\ page' = [page EXCEPT ![c] = "ready"]
           \/ /\ page[c] = p.id.at /\ next \in {"SubscribeHid", "PollRefresh", "PollRefresh1", "PollRefresh2"}
              /\ Emit(Injected, Content, To(Content, CallRequest(c, next)))
              /\ page' = [page EXCEPT ![c] = next]

LEMMA PageAnswered ==
    ASSUME IInv, PageAnswer
    PROVE  PageAnswerIs(Packet(Injected, Content))
<1> DEFINE p == Packet(Injected, Content)
           c == p.id.caller
           next == Following[p.id.at]
<1>1. /\ p \in FromBackground /\ p.kind = "Response"
      /\ routes[Injected][Native] # <<>> /\ Fine(Content, p) /\ p.receiver = Injected
      /\ chan[Content][Injected] # <<>> /\ p = Head(chan[Content][Injected])
    BY AtPage DEF PageAnswer, IInv, App, Arrives, Packet
<1>2. \/ page[c] # p.id.at /\ page' = page /\ Take(Injected, Content)
      \/ page[c] = p.id.at /\ page' = [page EXCEPT ![c] = "failed"] /\ Take(Injected, Content)
      \/ page[c] = p.id.at /\ next # "ready" /\ Asks(c, next, Native, Content)
      \/ page[c] = p.id.at /\ next = "ready" /\ page' = [page EXCEPT ![c] = "ready"] /\ Take(Injected, Content)
    BY DEF PageAnswer
<1> HIDE DEF p
<1>3. p \in PageResponses
    BY <1>1 DEF FromBackground, Notices
<1>4. p.id \in PageIds
    BY <1>3 DEF PageResponses
<1>5. c \in Caller /\ p.id.at \in DOMAIN Following
    BY <1>4 DEF PageIds
<1>6. Early => next = "SubscribeHid"
    BY <1>1, FollowingIs DEF Fine
<1>7. next \in {"SubscribeHid", "PollRefresh", "PollRefresh1", "PollRefresh2", "ready"}
    BY <1>5, FollowingIs
<1>8. CASE page[c] = p.id.at /\ next # "ready" /\ Asks(c, next, Native, Content)
    <2>1. PICK pc \in {"SubscribeHid", "PollRefresh", "PollRefresh1", "PollRefresh2"} : pc = next
        BY <1>7, <1>8
    <2>2. pc \in DOMAIN Following \ {"OpenNative"} /\ pc # "RequestDevice" /\ (Early => pc = "SubscribeHid")
        BY <1>6, <2>1, FollowingIs
    <2>3. Asks(c, pc, Native, Content) /\ Content \in {None, Content}
        BY <1>8, <2>1
    <2> HIDE DEF c, next
    <2>4. Emit(Injected, Content, To(Content, CallRequest(c, pc))) /\ page' = [page EXCEPT ![c] = pc]
        BY <1>1, <1>5, <2>2, <2>3, CallSent
    <2>5. Emit(Injected, Content, To(Content, CallRequest(c, next))) /\ page' = [page EXCEPT ![c] = next]
        BY <2>1, <2>4
    <2>6. next \in {"SubscribeHid", "PollRefresh", "PollRefresh1", "PollRefresh2"}
        BY <2>1
    <2> USE DEF c, next
    <2> QED BY <1>1, <1>3, <1>5, <1>8, <2>5, <2>6 DEF PageAnswerIs, p
<1> QED BY <1>1, <1>2, <1>3, <1>5, <1>8 DEF PageAnswerIs, Take, p

LEMMA PageAnswerAsks ==
    ASSUME IInv, AsksOK, PageAnswer
    PROVE  AsksOK'
<1>1. PageAnswerIs(Packet(Injected, Content))
    BY PageAnswered
<1>2. PICK out : Emit(Injected, Content, out) /\ Lacks(AskPackets, out)
    <2>1. CASE Emit(Injected, Content, Nothing)
        BY <2>1, LacksNothing
    <2>2. ASSUME NEW c \in Caller, NEW pc \in {"SubscribeHid", "PollRefresh", "PollRefresh1", "PollRefresh2"},
                 Emit(Injected, Content, To(Content, CallRequest(c, pc)))
          PROVE  Lacks(AskPackets, To(Content, CallRequest(c, pc)))
        <3>1. CallRequest(c, pc) \in PageRequests
            BY CallRequestIs, FollowingIs
        <3> QED BY <3>1, PageRequestIs, LacksTo
    <2> QED BY <1>1, <2>1, <2>2 DEF PageAnswerIs
<1>3. chan[Content][Injected] # <<>> /\ Head(chan[Content][Injected]) \notin AskPackets
    BY <1>1, PageResponseIs DEF PageAnswerIs
<1>4. UNCHANGED <<hid, storage, granted, popup>>
    BY DEF PageAnswer, nativeVars
<1> QED BY <1>2, <1>3, <1>4, PageLeavesAsks, Nodes

LEMMA requestDeviceIs ==
    ASSUME IInv, NEW c \in Caller, requestDevice(c)
    PROVE  /\ Emit(Injected, None, To(Content, CallRequest(c, "RequestDevice")))
           /\ page' = [page EXCEPT ![c] = "RequestDevice"] /\ c # 0 /\ "RequestDevice" \in DOMAIN Following
<1>1. "RequestDevice" \in DOMAIN Following \ {"OpenNative"}
    BY FollowingIs
<1>2. routes[Injected][Native] # <<>> /\ ~Early
    BY PageIs DEF requestDevice
<1>3. c # 0 /\ Asks(c, "RequestDevice", Native, None) /\ None \in {None, Content}
    BY DEF requestDevice
<1> QED BY <1>1, <1>2, <1>3, CallSent

LEMMA requestDeviceAsks ==
    ASSUME IInv, AsksOK, NEW c \in Caller, requestDevice(c)
    PROVE  AsksOK'
<1>1. Emit(Injected, None, To(Content, CallRequest(c, "RequestDevice"))) /\ c # 0 /\ "RequestDevice" \in DOMAIN Following \ {"OpenNative"}
    BY requestDeviceIs
<1>2. Lacks(AskPackets, To(Content, CallRequest(c, "RequestDevice")))
    BY <1>1, CallRequestIs, PageRequestIs, LacksTo
<1>3. UNCHANGED <<hid, storage, granted, popup>>
    BY DEF requestDevice, nativeVars
<1> QED BY <1>1, <1>2, <1>3, PageLeavesAsks, Nodes

LEMMA NoticedIs ==
    ASSUME IInv, NEW name, Received(Injected, Content, "Notification", name), Take(Injected, Content)
    PROVE  /\ chan[Content][Injected] # <<>> /\ Head(chan[Content][Injected]) \in Notices
           /\ Head(chan[Content][Injected]).name = name /\ Emit(Injected, Content, Nothing)
<1> DEFINE p == Packet(Injected, Content)
<1>1. p \in FromBackground /\ p.kind = "Notification"
    BY AtPage DEF Received, IInv, App
<1>2. p \in Notices
    BY <1>1 DEF FromBackground, PageResponses
<1> QED BY <1>2 DEF Received, Arrives, Packet, Take

LEMMA NoticedAsks ==
    ASSUME IInv, AsksOK, AddedDevice \/ RemovedDevice
    PROVE  AsksOK'
<1>1. UNCHANGED <<hid, storage, granted, popup>> /\ Take(Injected, Content)
      /\ \E name \in {"AddedDevice", "RemovedDevice"} : Received(Injected, Content, "Notification", name)
    BY DEF AddedDevice, RemovedDevice, nativeVars
<1> QED BY <1>1, NoticedIs, NoticeIs, LacksNothing, PageLeavesAsks, Nodes

LEMMA QuietAsks ==
    ASSUME IInv, AsksOK, chan' = chan, UNCHANGED <<hid, storage, granted, popup>>
    PROVE  AsksOK'
BY SameUnchanged, AsksKept, IInvChan

-----------------------------------------------------------------------------
(* A popup that is there does not drop what hid() asks it: it has heard of   *)
(* the native process before.                                                *)

FirstAsk(q) ==
    \A i \in 1..Len(q) : q[i] \in AskPackets => \E j \in 1..Len(q) : j < i /\ Adds(q[j], Native)
PopupFirst ==
    conn[Popup] # {} /\ ~Contains(routes[Popup][Native], Background) => FirstAsk(chan[Background][Popup])

LEMMA AddsNoAsk == ASSUME NEW p, NEW a, Adds(p, a) PROVE p \notin AskPackets
<1>1. p.kind = "AddForwarded"
    BY DEF Adds, AddForwarded
<1> QED BY <1>1, Elsewhere

LEMMA FirstAskJoined ==
    ASSUME NEW S, NEW q \in Seq(S), NEW o, IsSequence(o), FirstAsk(q),
           \/ \A i \in 1..Len(o) : o[i] \notin AskPackets
           \/ \E j \in 1..Len(q) : Adds(q[j], Native)
    PROVE  FirstAsk(Joined(q, o))
<1> DEFINE r == Joined(q, o)
<1>1. /\ Len(q) \in Nat
      /\ \A i \in 1..Len(q) : i \in 1..Len(r) /\ r[i] = q[i]
      /\ \A i \in 1..Len(r) : i > Len(q) => i - Len(q) \in 1..Len(o) /\ r[i] = o[i - Len(q)]
    BY JoinedHas
<1> HIDE DEF r
<1>2. SUFFICES ASSUME NEW i \in 1..Len(r), r[i] \in AskPackets
               PROVE  \E j \in 1..Len(r) : j < i /\ Adds(r[j], Native)
    BY DEF FirstAsk, r
<1>3. CASE i \in 1..Len(q)
    <2>1. PICK j \in 1..Len(q) : j < i /\ Adds(q[j], Native)
        BY <1>1, <1>2, <1>3 DEF FirstAsk
    <2> QED BY <1>1, <2>1
<1>4. CASE i > Len(q)
    <2>1. PICK j \in 1..Len(q) : Adds(q[j], Native)
        BY <1>1, <1>2, <1>4
    <2>2. j < i
        BY <1>1, <1>4
    <2> QED BY <1>1, <2>1, <2>2
<1>5. i \in 1..Len(q) \/ i > Len(q)
    BY <1>1
<1> QED BY <1>3, <1>4, <1>5

LEMMA FirstAskRest ==
    ASSUME NEW S, NEW q \in Seq(S), q # <<>>, FirstAsk(q)
    PROVE  Head(q) \notin AskPackets /\ (FirstAsk(Rest(q)) \/ Adds(Head(q), Native))
<1>1. /\ Len(q) \in Nat /\ Len(q) > 0 /\ Len(Rest(q)) = Len(q) - 1 /\ Head(q) = q[1]
      /\ \A i \in 1..Len(Rest(q)) : i + 1 \in 1..Len(q) /\ Rest(q)[i] = q[i + 1]
      /\ \A i \in 1..Len(q) : i # 1 => i - 1 \in 1..Len(Rest(q)) /\ Rest(q)[i - 1] = q[i]
    BY RestElements
<1>2. q[1] \notin AskPackets
    BY <1>1 DEF FirstAsk
<1>3. ASSUME ~Adds(q[1], Native), NEW i \in 1..Len(Rest(q)), Rest(q)[i] \in AskPackets
      PROVE  \E j \in 1..Len(Rest(q)) : j < i /\ Adds(Rest(q)[j], Native)
    <2>1. PICK j \in 1..Len(q) : j < i + 1 /\ Adds(q[j], Native)
        BY <1>1, <1>3 DEF FirstAsk
    <2>2. j # 1
        BY <1>3, <2>1
    <2>3. j - 1 \in 1..Len(Rest(q)) /\ j - 1 < i /\ Adds(Rest(q)[j - 1], Native)
        BY <1>1, <2>1, <2>2
    <2> QED BY <2>3
<1> QED BY <1>1, <1>2, <1>3 DEF FirstAsk

\* If hid() does not wait for the popup to be answered nothing is under way to it.
LEMMA NotToPopup ==
    ASSUME ChanOK, AsksOK, hid # "RequestAccess"
    PROVE  PopupFirst
<1>1. \A i \in 1..Len(chan[Background][Popup]) : chan[Background][Popup][i] \notin AskPackets
    <2>1. CASE Silence
        BY <2>1, Nodes DEF Silence, NoAsk
    <2>2. CASE Exchange
        <3>1. SUFFICES ASSUME NEW i \in 1..Len(chan[Background][Popup]), chan[Background][Popup][i] \in AskPackets
                       PROVE  FALSE
            OBVIOUS
        <3>2. PICK x \in Address, y \in Address, p \in AskPackets : OnlyAsk(x, y, p) /\ Fits(p)
            BY <2>2 DEF Exchange
        <3>3. p = chan[Background][Popup][i]
            BY <3>1, <3>2, Nodes DEF OnlyAsk
        <3>4. p \in PacketsOn(Background, Popup)
            BY <3>1, <3>3, PortIs, Nodes
        <3>5. p \in AccessRequests
            BY <3>2, <3>4, AnnouncementIs, Elsewhere, Nodes DEF PacketsOn, Data
        <3>6. p.kind = "Request" /\ p.name = "RequestAccess"
            BY <3>5 DEF AccessRequests
        <3> QED BY <3>2, <3>6, AwaitsIs DEF Fits
    <2> QED BY <2>1, <2>2 DEF AsksOK
<1> QED BY <1>1 DEF PopupFirst, FirstAsk

LEMMA NoAskToPopup ==
    ASSUME chan'[Background][Popup] = <<>>
    PROVE  PopupFirst'
BY NothingIsSequence DEF PopupFirst, FirstAsk

\* Elsewhere, or nothing that hid() asks.
LEMMA PopupFirstEmit ==
    ASSUME ChanOK, PopupFirst, NEW z \in Address, z # Popup, NEW f, f # z, NEW out, Emit(z, f, out),
           conn'[Popup] = conn[Popup], routes'[Popup][Native] = routes[Popup][Native],
           z # Background \/ Lacks(AskPackets, out)
    PROVE  PopupFirst'
<1>0. \A y \in Address : chan'[z][y] = Joined(chan[z][y], out[y])
    BY EmitSent, Zenon
<1>1. CASE z # Background
    <2>1. ~(Background = f /\ Popup = z) /\ Background # z
        BY <1>1
    <2>2. chan'[Background][Popup] = chan[Background][Popup]
        BY <2>1, EmitLinks, Nodes
    <2> QED BY <2>2 DEF PopupFirst, FirstAsk
<1>2. CASE z = Background
    <2>1. chan'[z][Popup] = Joined(chan[z][Popup], out[Popup])
        BY <1>0, Nodes
    <2>2. IsSequence(out[Popup]) /\ \A i \in 1..Len(out[Popup]) : out[Popup][i] \notin AskPackets
        <3>1. Lacks(AskPackets, out)
            BY <1>2
        <3> QED BY <3>1, Nodes DEF Lacks
    <2>3. chan[Background][Popup] \in Seq(PacketsOn(Background, Popup))
        BY PortIs, Nodes
    <2>4. FirstAsk(chan[Background][Popup]) => FirstAsk(Joined(chan[Background][Popup], out[Popup]))
        BY <2>2, <2>3, FirstAskJoined
    <2> QED BY <1>2, <2>1, <2>4 DEF PopupFirst
<1> QED BY <1>1, <1>2

LEMMA PopupFirstKept ==
    ASSUME PopupFirst, UNCHANGED <<conn, routes, chan>>
    PROVE  PopupFirst'
BY DEF PopupFirst, FirstAsk

PopupUnasked == ChanOK /\ AsksOK /\ hid # "RequestAccess"

LEMMA NotToPopupIs == PopupUnasked => PopupFirst
BY NotToPopup DEF PopupUnasked

LEMMA NotToPopupThen == PopupUnasked' => PopupFirst'
BY NotToPopupIs, PTL

LEMMA NotToPopupNext ==
    ASSUME ChanOK', AsksOK', hid' # "RequestAccess"
    PROVE  PopupFirst'
BY NotToPopupThen DEF PopupUnasked

LEMMA PopupFirstElsewhere ==
    ASSUME IInv, PopupFirst, NEW z \in Address, z \notin {Background, Popup}, NEW f, f # z, NEW out, Emit(z, f, out),
           UNCHANGED <<conn, routes>>
    PROVE  PopupFirst'
BY PopupFirstEmit, IInvChan

LEMMA ConnectPopupFirst ==
    ASSUME IInv, PopupFirst, ContentOnConnect \/ BackgroundOnConnect
    PROVE  PopupFirst'
<1>1. CASE ContentOnConnect
    <2>1. PICK out : Opens(Content, {Background, Injected}, out)
        BY <1>1 DEF ContentOnConnect
    <2>2. conn'[Popup] = conn[Popup] /\ routes'[Popup][Native] = routes[Popup][Native]
        BY <2>1, Nodes, IInvChan DEF Opens, ConnOK, RoutesOK
    <2> QED BY <2>1, <2>2, PopupFirstEmit, IInvChan, Nodes DEF Opens
<1>2. CASE BackgroundOnConnect
    <2> DEFINE out == AddedDirect({}, routes[Background], Content)
    <2>1. Opens(Background, {Content}, out)
        BY <1>2 DEF BackgroundOnConnect
    <2>2. conn'[Popup] = conn[Popup] /\ routes'[Popup][Native] = routes[Popup][Native]
        BY <2>1, Nodes, IInvChan DEF Opens, ConnOK, RoutesOK
    <2>3. Lacks(AskPackets, out)
        BY LacksAdded, LacksPart, Nodes DEF Matters
    <2> HIDE DEF out
    <2>4. Emit(Background, None, out)
        BY <2>1 DEF Opens
    <2> QED BY <2>2, <2>3, <2>4, PopupFirstEmit, IInvChan, Nodes
<1> QED BY <1>1, <1>2

LEMMA OpenNativePopupFirst ==
    ASSUME IInv, PopupFirst, OpenNative
    PROVE  PopupFirst'
<1> DEFINE p == Packet(Background, Content)
           answer == Response("OpenNative", p.sender, p.id, TRUE, FALSE)
           greeting == Notification("OpenFromInject", Background, Native)
           out == AddedDirect(conn[Background], routes[Background], Native)
                  ++ To(Native, greeting) ++ Routed(Background, answer, None)
<1>1. /\ Emit(Background, Content, out) /\ Received(Background, Content, "Request", "OpenNative")
      /\ conn' = [conn EXCEPT ![Background] = @ \cup {Native}]
      /\ routes' = [routes EXCEPT ![Background] = inc(routes[Background], Native, Direct)]
    BY DEF OpenNative
<1>2. p \in PageRequests /\ p.sender = Injected
    BY <1>1, OpenNativeRequest DEF IInv, Received, Arrives, Packet
<1>3. answer \notin AskPackets /\ greeting \notin AskPackets
    <2>1. answer.kind = "Response" /\ answer.receiver = Injected
        BY <1>2 DEF Response
    <2>2. greeting.kind = "Notification"
        BY DEF Notification
    <2> QED BY <2>1, <2>2, Elsewhere, Nodes
<1>4. Lacks(AskPackets, AddedDirect(conn[Background], routes[Background], Native))
    BY LacksAdded, LacksPart, Nodes DEF Matters
<1>5. Lacks(AskPackets, out)
    BY <1>3, <1>4, LacksTo, LacksRouted, LacksBoth, Nodes
<1> HIDE DEF out
<1>6. conn'[Popup] = conn[Popup] /\ routes'[Popup][Native] = routes[Popup][Native]
    BY <1>1, Nodes, IInvChan DEF ConnOK, RoutesOK
<1> QED BY <1>1, <1>5, <1>6, PopupFirstEmit, IInvChan, Nodes

LEMMA RemovePopupPopupFirst ==
    ASSUME IInv, PopupFirst, RemovePopup
    PROVE  PopupFirst'
<1> DEFINE out == ToldOfDec(conn[Background] \ {Popup}, routes[Background], Popup, Direct)
<1>1. /\ Emit(Background, Popup, out)
      /\ conn' = [conn EXCEPT ![Background] = @ \ {Popup}]
      /\ routes' = [routes EXCEPT ![Background] = dec(routes[Background], Popup, Direct)]
    BY DEF RemovePopup
<1>2. Lacks(AskPackets, out)
    BY ToldOfDecAnnounces, LacksAnnounced, LacksPart DEF Matters
<1> HIDE DEF out
<1>3. conn'[Popup] = conn[Popup] /\ routes'[Popup][Native] = routes[Popup][Native]
    BY <1>1, Nodes, IInvChan DEF ConnOK, RoutesOK
<1> QED BY <1>1, <1>2, <1>3, PopupFirstEmit, IInvChan, Nodes

\* A route the popup learns of is the one to the native process, or no matter.
LEMMA OnAddForwardedPopupFirst ==
    ASSUME IInv, PopupFirst, NEW x \in Address, NEW n \in Address, OnAddForwarded(x, n)
    PROVE  PopupFirst'
<1> DEFINE p == Head(chan[n][x])
           out == ToldOfInc(conn[x], routes[x], p.to, n)
<1>1. /\ chan[n][x] # <<>> /\ Emit(x, n, out) /\ UNCHANGED conn
      /\ routes' = [routes EXCEPT ![x] = inc(routes[x], p.to, n)] /\ n \in conn[x]
    BY DEF OnAddForwarded, Arrives
<1>2. Announces(n, x, p.to) /\ p.to \in Address /\ p = AddForwarded(p.to, LinkRtt) /\ x # n
    BY Announced, Spreads, IInvChan DEF OnAddForwarded
<1>3. Lacks(AskPackets, out)
    BY ToldOfIncAnnounces, LacksAnnounced, LacksPart DEF Matters
<1>4. \A z \in Address : routes'[z] = IF z = x THEN inc(routes[x], p.to, n) ELSE routes[z]
    BY <1>1, IInvChan DEF RoutesOK
<1> HIDE DEF out, p
<1>9. RoutesOK
    BY IInvChan
<1>7. \A b \in Address : b # p.to \/ Contains(routes[x][p.to], n) => inc(routes[x], p.to, n)[b] = routes[x][b]
    BY <1>2, <1>9, TableInc, ZenonT(40)
<1>8. routes[x][p.to] = <<>> => inc(routes[x], p.to, n)[p.to] = <<n>>
    BY <1>2, <1>9, TableInc, ZenonT(40)
<1>5. CASE x # Popup
    <2>1. routes'[Popup][Native] = routes[Popup][Native]
        BY <1>4, <1>5, Nodes
    <2> QED BY <1>1, <1>2, <1>3, <1>5, <2>1, PopupFirstEmit, IInvChan
<1>6. CASE x = Popup
    <2> DEFINE q == chan[Background][Popup]
    <2>1. n = Background
        BY <1>2, <1>6, Nodes DEF Announces
    <2>2. q \in Seq(PacketsOn(Background, Popup)) /\ q # <<>> /\ Head(q) = p
        BY <1>1, <1>6, <2>1, PortIs, IInvChan, Nodes DEF p
    <2>3. chan'[n][x] = Rest(chan[n][x])
        BY <1>1, <1>2, EmitLinks, Zenon
    <2>4. routes'[Popup] = inc(routes[Popup], p.to, Background)
        BY <1>4, <1>6, <2>1
    <2>5. chan'[Background][Popup] = Rest(q)
        BY <1>6, <2>1, <2>3
    <2> HIDE DEF q
    <2>8. /\ \A b \in Address : b # p.to \/ Contains(routes[Popup][p.to], Background) =>
                 inc(routes[Popup], p.to, Background)[b] = routes[Popup][b]
          /\ routes[Popup][p.to] = <<>> => inc(routes[Popup], p.to, Background)[p.to] = <<Background>>
        BY <1>6, <1>7, <1>8, <2>1
    <2>6. CASE p.to = Native
        <3>1. routes'[Popup][Native] = <<Background>> \/ Contains(routes[Popup][Native], Background)
            <4>1. Native \notin conn[Popup] /\ RouteOK(Popup, Native)
                BY IInvChan, Nodes DEF ConnOK, RoutesOK
            <4>2. routes[Popup][Native] = <<>> \/ routes[Popup][Native] = <<Background>>
                BY <4>1, IInvChan, Neighbours DEF RouteOK
            <4> QED BY <2>4, <2>6, <2>8, <4>2, ContainsShort, Nodes
        <3>2. Contains(routes[Popup][Native], Background) => routes'[Popup][Native] = routes[Popup][Native]
            BY <2>4, <2>6, <2>8, Nodes
        <3>3. Contains(routes'[Popup][Native], Background)
            BY <3>1, <3>2, ContainsShort
        <3> QED BY <3>3 DEF PopupFirst
    <2>7. CASE p.to # Native
        <3>1. routes'[Popup][Native] = routes[Popup][Native]
            BY <2>4, <2>7, <2>8, Nodes
        <3>2. ~Adds(p, Native)
            BY <1>2, <2>7 DEF Adds, AddForwarded
        <3>3. FirstAsk(q) => FirstAsk(Rest(q))
            BY <2>2, <3>2, FirstAskRest
        <3> QED BY <1>1, <2>5, <3>1, <3>3 DEF PopupFirst, q
    <2> QED BY <2>6, <2>7
<1> QED BY <1>5, <1>6

LEMMA OnRemoveForwardedPopupFirst ==
    ASSUME IInv, PopupFirst, NEW x \in Address, NEW n \in Address, OnRemoveForwarded(x, n)
    PROVE  PopupFirst'
<1> DEFINE p == Head(chan[n][x])
           out == IF x = Native THEN Nothing ELSE ToldOfDec(conn[x], routes[x], p.to, n)
<1>1. /\ chan[n][x] # <<>> /\ Emit(x, n, out) /\ UNCHANGED conn
      /\ routes' = IF x = Native THEN routes ELSE [routes EXCEPT ![x] = dec(routes[x], p.to, n)]
    BY DEF OnRemoveForwarded, Arrives
<1>2. Announces(n, x, p.to) /\ p = RemoveForwarded(Popup) /\ p.to = Popup /\ x # n
    BY Announced, Spreads, IInvChan DEF OnRemoveForwarded
<1>3. x # Popup
    BY <1>2, Nodes DEF Announces
<1>4. Lacks(AskPackets, out)
    <2>1. Lacks(AskPackets, ToldOfDec(conn[x], routes[x], p.to, n))
        BY ToldOfDecAnnounces, LacksAnnounced, LacksPart DEF Matters
    <2> QED BY <2>1, LacksNothing
<1>5. routes'[Popup][Native] = routes[Popup][Native]
    BY <1>1, <1>3, Nodes, IInvChan DEF RoutesOK
<1> HIDE DEF out, p
<1> QED BY <1>1, <1>2, <1>3, <1>4, <1>5, PopupFirstEmit, IInvChan

-----------------------------------------------------------------------------
(* Packets on their way through a node.                                      *)

LEMMA HopEmits ==
    ASSUME IInv, NEW x \in Address, NEW n \in Address, Forward(x, n), x # Native, NEW h \in Address, Hop(x, n, h)
    PROVE  /\ Emit(x, n, To(h, Head(chan[n][x]))) /\ x # n /\ chan[n][x] # <<>>
           /\ UNCHANGED <<conn, routes, pageVars, storage, popup, nativeVars>>
<1> DEFINE p == Head(chan[n][x])
<1>1. MayTake(x, n) /\ p \in Data(n, x) /\ x # n
    <2>1. PICK kind \in {"Request", "Response", "Notification"} : Arrives(x, n, kind)
        BY DEF Forward
    <2>2. x \notin conn[x]
        BY Nodes DEF IInv, Net, Types, ConnOK
    <2> QED BY <2>1, <2>2, DataHead DEF DataKinds, IInv, Net, Types, MayTake
<1>2. Emit(x, n, Routed(x, p, n)) /\ UNCHANGED <<conn, routes, pageVars, storage, popup, nativeVars>>
    <2>1. h # None
        BY Nodes
    <2>2. nextHop(x, p.receiver, n) = h /\ Passed(x, n)
        BY DEF Hop
    <2>3. p.receiver # x
        BY <2>2, Zenon DEF Forward, Passed
    <2> QED BY <2>1, <2>2 DEF Forward, Passed
<1>3. Routed(x, p, n) = To(h, p)
    <2>1. h # None /\ nextHop(x, p.receiver, n) = h
        BY Nodes DEF Hop
    <2> QED BY <2>1 DEF Routed
<1>4. chan[n][x] # <<>>
    BY <1>1 DEF MayTake
<1> QED BY <1>1, <1>2, <1>3, <1>4

\* What a node of the chain passes on is not of hid(), and it stays in the order.
LEMMA HopAlong ==
    ASSUME IInv, AsksOK, PopupFirst, NEW x \in Address, NEW n \in Address, Forward(x, n), x # Native,
           NEW h \in Address, Hop(x, n, h), x # Popup, Head(chan[n][x]) \in PageRequests \cup FromBackground
    PROVE  AsksOK' /\ PopupFirst'
<1> DEFINE p == Head(chan[n][x])
<1>1. /\ Emit(x, n, To(h, p)) /\ x # n /\ chan[n][x] # <<>>
      /\ UNCHANGED <<conn, routes, pageVars, storage, popup, nativeVars>>
    BY HopEmits
<1>2. p \notin AskPackets
    <2>1. CASE p \in PageRequests
        BY <2>1, PageRequestIs
    <2>2. CASE p \in PageResponses
        BY <2>2, PageResponseIs
    <2>3. CASE p \in Notices
        BY <2>3, NoticeIs
    <2>4. CASE p \in FromBackground \ (PageResponses \cup Notices)
        BY <2>4 DEF FromBackground
    <2> QED BY <2>1, <2>2, <2>3, <2>4
<1> HIDE DEF p
<1>3. Lacks(AskPackets, To(h, p))
    BY <1>2, LacksTo
<1>4. AsksOK'
    <2>1. Same(AskPackets)
        BY <1>1, <1>2, <1>3, SameEmit, IInvChan DEF p
    <2> QED BY <1>1, <2>1, AsksKept DEF pageVars, nativeVars
<1>5. PopupFirst'
    BY <1>1, <1>3, PopupFirstEmit, IInvChan
<1> QED BY <1>4, <1>5

LEMMA OneIsSequence == ASSUME NEW p PROVE IsSequence(<<p>>)
<1>1. <<p>> \in Seq({p})
    OBVIOUS
<1> QED BY <1>1, Zenon DEF IsSequence

\* The request for access on its way to the popup.
LEMMA HopToPopup ==
    ASSUME IInv, AsksOK, PopupFirst, Forward(Background, Native), Hop(Background, Native, Popup),
           Head(chan[Native][Background]) \in AccessRequests
    PROVE  AsksOK' /\ PopupFirst' /\ Same(PageTraffic)
<1> DEFINE q == chan[Background][Popup]
<1>0. PICK p : p = Head(chan[Native][Background])
    OBVIOUS
<1>1. /\ Emit(Background, Native, To(Popup, p)) /\ chan[Native][Background] # <<>>
      /\ UNCHANGED <<conn, routes, pageVars, storage, popup, nativeVars>>
    BY <1>0, HopEmits, Nodes
<1>2. p \in AskPackets
    BY <1>0 DEF AskPackets
<1>3. Clear(Background, Native) /\ Fits(p) /\ popup # "opening"
    BY <1>0, <1>1, <1>2, AskHead, Nodes
<1>4. Fits(p)' /\ popup' # "opening"
    BY <1>1, <1>3 DEF Fits, pageVars, nativeVars
<1>5. AsksOK' /\ Same(PageTraffic)
    BY <1>0, <1>1, <1>2, <1>3, <1>4, AskSentAlone, Nodes
<1>6. q \in Seq(PacketsOn(Background, Popup)) /\ IsSequence(<<p>>)
    BY PortIs, IInvChan, OneIsSequence, Nodes
<1>7. chan'[Background][Popup] = Joined(q, <<p>>)
    <2>1. chan'[Background][Popup] = Joined(q, To(Popup, p)[Popup])
        BY <1>1, EmitSent, Nodes
    <2> QED BY <2>1, Outs, Nodes
<1>8. ASSUME conn[Popup] # {}, ~Contains(routes[Popup][Native], Background)
      PROVE  FirstAsk(q) /\ \E j \in 1..Len(q) : Adds(q[j], Native)
    <2>1. FirstAsk(q)
        BY <1>8 DEF PopupFirst
    <2>2. Popup \in conn[Background] /\ Native \in conn[Background]
        BY <1>8, IInvChan, Nodes DEF ConnOK
    <2>3. routes[Background][Native] # <<>>
        BY <2>2, IInvChan, Nodes DEF RoutesOK, RouteOK
    <2>4. Announces(Background, Popup, Native) /\ Linked(Background, Popup)
        BY <1>8, <2>2 DEF Announces, Linked
    <2>5. Believes(q, Native, routes[Popup][Native], Background)
        BY <2>3, <2>4, Nodes DEF IInv, Net, AgreeOK, Agree
    <2> QED BY <1>8, <2>1, <2>5, BelievesUnknown
<1> HIDE DEF q
<1>9. ASSUME conn[Popup] # {}, ~Contains(routes[Popup][Native], Background)
      PROVE  FirstAsk(Joined(q, <<p>>))
    BY <1>6, <1>8, <1>9, FirstAskJoined
<1>10. PopupFirst'
    BY <1>1, <1>7, <1>9 DEF PopupFirst
<1> QED BY <1>5, <1>10

\* The answer to hid(), from the popup or because there is none.
LEMMA HopToNative ==
    ASSUME IInv, AsksOK, PopupFirst,
           \/ /\ Forward(Background, Popup) /\ Hop(Background, Popup, Native)
              /\ Head(chan[Popup][Background]) \in NativeResponses
           \/ /\ Forward(Background, Native) /\ Popup \notin conn[Background]
              /\ Head(chan[Native][Background]) \in AccessRequests
    PROVE  AsksOK' /\ PopupFirst' /\ Same(PageTraffic)
<1>1. PICK f \in {Popup, Native}, q \in NativeResponses :
          /\ Emit(Background, f, To(Native, q)) /\ chan[f][Background] # <<>> /\ Head(chan[f][Background]) \in AskPackets
          /\ Fits(Head(chan[f][Background])) => Fits(q)
          /\ UNCHANGED <<conn, routes, pageVars, storage, popup, nativeVars>>
    <2>1. CASE /\ Forward(Background, Popup) /\ Hop(Background, Popup, Native)
               /\ Head(chan[Popup][Background]) \in NativeResponses
        <3> DEFINE q == Head(chan[Popup][Background])
        <3>1. /\ Emit(Background, Popup, To(Native, q)) /\ chan[Popup][Background] # <<>>
              /\ UNCHANGED <<conn, routes, pageVars, storage, popup, nativeVars>>
            BY <2>1, HopEmits, Nodes
        <3>2. q \in AskPackets /\ q \in NativeResponses
            BY <2>1 DEF AskPackets
        <3> HIDE DEF q
        <3> QED BY <3>1, <3>2 DEF q
    <2>2. CASE /\ Forward(Background, Native) /\ Popup \notin conn[Background]
               /\ Head(chan[Native][Background]) \in AccessRequests
        <3> DEFINE p == Head(chan[Native][Background])
        <3>1. /\ Emit(Background, Native, Routed(Background, AccessFailed, None))
              /\ UNCHANGED <<conn, routes, pageVars, storage, popup, nativeVars>>
              /\ chan[Native][Background] # <<>> /\ Native \in conn[Background]
            BY <2>2, AccessStuckIs DEF MayTake
        <3>2. AccessFailed \in NativeResponses /\ p \in AskPackets
            BY <2>2 DEF NativeResponses, Response, AccessFailed, AskPackets
        <3>3. Routed(Background, AccessFailed, None) = To(Native, AccessFailed)
            <4>1. AccessFailed.receiver = Native
                BY DEF AccessFailed, Response
            <4>2. nextHop(Background, Native, None) = Native /\ Native # None
                BY <3>1, NextHop, Nodes
            <4> QED BY <4>1, <4>2 DEF Routed
        <3>4. Fits(p) => Fits(AccessFailed)
            <4>1. p.name = "RequestAccess"
                BY <2>2 DEF AccessRequests
            <4>2. AccessFailed.kind = "Response" /\ AccessFailed.name = "RequestAccess"
                BY DEF AccessFailed, Response
            <4> QED BY <4>1, <4>2 DEF Fits
        <3> QED BY <3>1, <3>2, <3>3, <3>4
    <2> QED BY <2>1, <2>2
<1>2. Clear(Background, f) /\ Fits(Head(chan[f][Background])) /\ popup # "opening" /\ f # Background /\ f \in Address
    BY <1>1, AskHead, Nodes
<1>3. Fits(q)' /\ popup' # "opening"
    BY <1>1, <1>2 DEF Fits, pageVars, nativeVars
<1>4. q \in AskPackets
    BY <1>1 DEF AskPackets
<1>5. AsksOK' /\ Same(PageTraffic)
    BY <1>1, <1>2, <1>3, <1>4, AskSentAlone, Nodes
<1>6. PopupFirst'
    <2>1. chan'[Background][Popup] = chan[Background][Popup]
        <3>1. chan'[Background][Popup] = Joined(chan[Background][Popup], To(Native, q)[Popup])
            BY <1>1, <1>2, EmitSent, Nodes
        <3>2. To(Native, q)[Popup] = <<>>
            BY Outs, Nodes
        <3>3. Joined(chan[Background][Popup], <<>>) = chan[Background][Popup]
            BY PortIs, IInvChan, JoinedNothing, Nodes
        <3> QED BY <3>1, <3>2, <3>3
    <2> QED BY <1>1, <2>1 DEF PopupFirst, FirstAsk
<1> QED BY <1>5, <1>6

\* Nothing ends at the popup but the request it is asked to answer.
LEMMA NotAtPopup ==
    ASSUME IInv, PopupFirst, NEW n \in Address, Forward(Popup, n)
    PROVE  FALSE
<1> DEFINE p == Head(chan[n][Popup])
<1>1. /\ p \in Data(n, Popup) /\ n = Background /\ MayTake(Popup, n) /\ n \in conn[Popup]
      /\ p.receiver # Popup \/ ~Passed(Popup, n)
    BY Underway, Neighbours, Nodes DEF IInv, Net, Types
<1>2. p \in AccessRequests
    BY <1>1, Nodes DEF Data
<1>3. p.receiver = Popup /\ p.kind = "Request" /\ p.sender = Native /\ p \in AskPackets
    BY <1>2 DEF AccessRequests, AskPackets
<1>4. ~Contains(routes[Popup][Native], Background)
    BY <1>1, <1>3 DEF Passed, mayBeForwarderFor
<1>5. FirstAsk(chan[Background][Popup]) /\ chan[Background][Popup] # <<>>
    BY <1>1, <1>4 DEF PopupFirst, MayTake
<1>6. chan[Background][Popup] \in Seq(PacketsOn(Background, Popup))
    BY PortIs, IInvChan, Nodes
<1> QED BY <1>1, <1>3, <1>5, <1>6, FirstAskRest

LEMMA ForwardAsks ==
    ASSUME IInv, AsksOK, PopupFirst, NEW x \in Address, NEW n \in Address, Forward(x, n)
    PROVE  AsksOK' /\ PopupFirst'
<1>1. CASE x = Content
    <2>1. PICK h \in Address : Hop(Content, n, h) /\ Head(chan[n][Content]) \in PageRequests \cup FromBackground
        BY <1>1, ContentHop, Nodes
    <2>2. Content \in Address /\ Content # Native /\ Content # Popup /\ Forward(Content, n)
        BY <1>1, Nodes
    <2> QED BY <2>1, <2>2, HopAlong
<1>2. CASE x = Background
    <2>1. Background \in Address /\ Background # Native /\ Background # Popup /\ Forward(Background, n)
        BY <1>2, Nodes
    <2>2. CASE \E h \in Address : Hop(Background, n, h) /\ Head(chan[n][Background]) \in PageRequests \cup FromBackground
        BY <2>1, <2>2, HopAlong
    <2>3. CASE \/ n = Popup /\ Hop(Background, Popup, Native) /\ Head(chan[Popup][Background]) \in NativeResponses
               \/ n = Native /\ Popup \notin conn[Background] /\ Head(chan[Native][Background]) \in AccessRequests
        BY <2>1, <2>3, HopToNative
    <2>4. CASE n = Native /\ Hop(Background, Native, Popup) /\ Head(chan[Native][Background]) \in AccessRequests
        BY <2>1, <2>4, HopToPopup
    <2> QED BY <2>1, <2>2, <2>3, <2>4, BackgroundHop, Nodes
<1> QED BY <1>1, <1>2, NotAtTheEnds, NotAtPopup, Nodes

-----------------------------------------------------------------------------
(* Together: what hid() asks is under way once, and gets to where it is to.  *)

AsksInv == AsksOK /\ PopupFirst

LEMMA NetworkAsks ==
    ASSUME IInv, AsksInv, Network
    PROVE  AsksInv'
<1>1. PICK x \in Address, n \in Address : OnAddForwarded(x, n) \/ OnRemoveForwarded(x, n) \/ Forward(x, n)
    BY DEF Network
<1>2. CASE OnAddForwarded(x, n)
    <2>1. UNCHANGED <<pageVars, storage, popup, nativeVars>>
        BY <1>2 DEF OnAddForwarded
    <2>2. Same(AskPackets)
        BY <1>2, OnAddForwardedSame, SameParts
    <2>3. AsksOK'
        BY <2>1, <2>2, AsksKept DEF AsksInv, pageVars, nativeVars
    <2> QED BY <1>2, <2>3, OnAddForwardedPopupFirst DEF AsksInv
<1>3. CASE OnRemoveForwarded(x, n)
    <2>1. UNCHANGED <<pageVars, storage, popup, nativeVars>>
        BY <1>3 DEF OnRemoveForwarded
    <2>2. Same(AskPackets)
        BY <1>3, OnRemoveForwardedSame, SameParts
    <2>3. AsksOK'
        BY <2>1, <2>2, AsksKept DEF AsksInv, pageVars, nativeVars
    <2> QED BY <1>3, <2>3, OnRemoveForwardedPopupFirst DEF AsksInv
<1>4. CASE Forward(x, n)
    BY <1>4, ForwardAsks DEF AsksInv
<1> QED BY <1>1, <1>2, <1>3, <1>4

LEMMA BrowserAsks ==
    ASSUME IInv, ChanOK', AsksInv, Browser
    PROVE  AsksInv'
<1> USE DEF AsksInv
<1>1. CASE ContentOnConnect \/ BackgroundOnConnect
    <2>1. UNCHANGED <<pageVars, storage, popup, nativeVars>>
        BY <1>1 DEF ContentOnConnect, BackgroundOnConnect
    <2>2. AsksOK'
        BY <1>1, <2>1, OnConnectSame, SameParts, AsksKept DEF pageVars, nativeVars
    <2> QED BY <1>1, <2>2, ConnectPopupFirst
<1>2. CASE OpenNative
    <2>1. UNCHANGED <<pageVars, storage, popup, nativeVars>>
        BY <1>2 DEF OpenNative
    <2>2. AsksOK'
        BY <1>2, <2>1, OpenNativeSame, SameParts, AsksKept DEF pageVars, nativeVars
    <2> QED BY <1>2, <2>2, OpenNativePopupFirst
<1>3. CASE RemovePopup
    <2>1. UNCHANGED <<pageVars, storage, nativeVars>> /\ (popup' = popup \/ (popup = "closing" /\ popup' = "none"))
        BY <1>3 DEF RemovePopup
    <2>2. AsksOK'
        BY <1>3, <2>1, RemovePopupSame, SameParts, AsksKept DEF pageVars, nativeVars
    <2> QED BY <1>3, <2>2, RemovePopupPopupFirst
<1>4. CASE StorageGet \/ StorageSet \/ OpenPopup
    <2>1. PICK name \in {"StorageGet", "StorageSet", "OpenPopup"} : Received(Background, Native, "Request", name)
        BY <1>4 DEF StorageGet, StorageSet, OpenPopup
    <2> DEFINE p == Head(chan[Native][Background])
    <2>2. /\ chan[Native][Background] # <<>> /\ p.kind = "Request" /\ p.name = name /\ p.receiver = Background
          /\ Native \in conn[Background]
        BY <2>1 DEF Received, Arrives
    <2>3. p \in NativeRequests
        BY <2>2, DataHead, Nodes, IInvChan DEF Arrives, DataKinds, Data, FromBackground, PageResponses, Notices, AccessRequests
    <2>4. p \in AskPackets
        BY <2>3 DEF AskPackets
    <2>5. hid # "RequestAccess"
        BY <2>2, <2>4, AskHead, AwaitsIs, Nodes DEF Fits
    <2>6. hid' = hid
        BY <1>4 DEF StorageGet, StorageSet, OpenPopup, nativeVars
    <2>7. AsksOK'
        BY <1>4, StorageGetAsks, StorageSetAsks, OpenPopupAsks
    <2> QED BY <2>5, <2>6, <2>7, NotToPopupNext
<1>5. CASE PopupOnConnect \/ PopupOpeningTimeout
    <2>1. popup = "opening" /\ hid' = hid
        BY <1>5 DEF PopupOnConnect, PopupOpeningTimeout, nativeVars
    <2>2. hid # "RequestAccess"
        BY <2>1, Opening
    <2> QED BY <1>5, <2>1, <2>2, PopupOpenedAsks, NotToPopupNext
<1>6. CASE AnswerAccess \/ DismissPopup \/ DiscardForPopup
    <2>1. chan'[Background][Popup] = <<>>
        <3>1. chan = [x \in Address |-> [y \in Address |-> chan[x][y]]]
            BY IInvChan DEF ChanOK
        <3> QED BY <1>6, <3>1, Nodes DEF AnswerAccess, DismissPopup, DiscardForPopup, Closes
    <2>2. AsksOK'
        BY <1>6, AnswerAccessAsks, DismissPopupAsks, DiscardForPopupAsks
    <2> QED BY <2>1, <2>2, NoAskToPopup
<1> QED BY <1>1, <1>2, <1>3, <1>4, <1>5, <1>6 DEF Browser

LEMMA ProcessAsks ==
    ASSUME IInv, ChanOK', AsksInv, Process
    PROVE  AsksInv'
<1> USE DEF AsksInv
<1>1. CASE NativeMain \/ Helo \/ PopupOpened \/ SubscribeHid \/ SelectDelay \/ SelectRequestDevice
           \/ AccessGiven \/ ExtendAllowed \/ WatchDevices
    <2>1. hid' # "RequestAccess"
        BY <1>1 DEF NativeMain, Helo, PopupOpened, SubscribeHid, SelectDelay, SelectRequestDevice, AccessGiven,
                    ExtendAllowed, WatchDevices
    <2>2. AsksOK'
        BY <1>1, NativeMainAsks, HeloAsks, SubscribeHidAsks, SelectAsks, AccessGivenAsks, ExtendAllowedAsks, WatchDevicesAsks
    <2> QED BY <2>1, <2>2, NotToPopupNext
<1>2. CASE SelectPollRefresh \/ PopupFailed \/ AllowedStored
    <2>1. \E reply, from, late, waiting : Resume(reply, from, late, waiting)
        BY <1>2, Zenon DEF SelectPollRefresh, PopupFailed, AllowedStored, Answered
    <2>2. hid' # "RequestAccess"
        BY <2>1 DEF Resume
    <2>3. AsksOK'
        BY <1>2, SelectPollRefreshAsks, AnsweringAsks
    <2> QED BY <2>2, <2>3, NotToPopupNext
<1>3. CASE NativeRequest
    <2>1. \E out : Emit(Native, Background, out)
        BY <1>3, NativeRequested DEF NativeRequest, Polled, Take
    <2>2. UNCHANGED <<conn, routes>>
        BY <1>3 DEF NativeRequest, Polled, Take
    <2> QED BY <1>3, <2>1, <2>2, NativeRequestAsks, PopupFirstElsewhere, Nodes
<1>4. CASE OpenFromInject
    <2>1. Emit(Native, Background, Nothing) /\ UNCHANGED <<conn, routes, pageVars, storage, popup, nativeVars>>
        BY <1>4 DEF OpenFromInject
    <2>2. AsksOK'
        BY <1>4, <2>1, OpenFromInjectSame, SameParts, AsksKept DEF pageVars, nativeVars
    <2> QED BY <2>1, <2>2, PopupFirstElsewhere, Nodes
<1>5. CASE RequestAccess
    <2>1. PICK out : Emit(Native, None, out)
        BY <1>5 DEF RequestAccess, Send
    <2>2. UNCHANGED <<conn, routes>>
        BY <1>5 DEF RequestAccess, Send
    <2> QED BY <1>5, <2>1, <2>2, SelectAsks, PopupFirstElsewhere, Nodes
<1> QED BY <1>1, <1>2, <1>3, <1>4, <1>5 DEF Process

LEMMA PageAsksInv ==
    ASSUME IInv, AsksInv, Page \/ \E c \in Caller : PageTimeout(c) \/ requestDevice(c)
    PROVE  AsksInv'
<1> USE DEF AsksInv
<1>1. CASE WaitForBackground
    <2>1. PICK out : Emit(Injected, None, out)
        BY <1>1 DEF WaitForBackground, Asks, Answer
    <2>2. UNCHANGED <<conn, routes, granted, storage, popup, nativeVars>>
        BY <1>1 DEF WaitForBackground, Asks, Answer
    <2>3. AsksOK'
        BY <1>1, <2>2, WaitForBackgroundSame, SameParts, AsksKept DEF nativeVars
    <2> QED BY <2>1, <2>2, <2>3, PopupFirstElsewhere, Nodes
<1>2. CASE PageAnswer
    <2>1. PICK out : Emit(Injected, Content, out)
        BY <1>2, Zenon DEF PageAnswer, Asks, Answer, Take
    <2>2. UNCHANGED <<conn, routes>>
        BY <1>2 DEF PageAnswer, Asks, Answer, Take
    <2> QED BY <1>2, <2>1, <2>2, PageAnswerAsks, PopupFirstElsewhere, Nodes
<1>3. CASE AddedDevice \/ RemovedDevice
    <2>1. Take(Injected, Content)
        BY <1>3 DEF AddedDevice, RemovedDevice
    <2>2. Emit(Injected, Content, Nothing) /\ UNCHANGED <<conn, routes>>
        BY <2>1 DEF Take
    <2> QED BY <1>3, <2>2, NoticedAsks, PopupFirstElsewhere, Nodes
<1>4. ASSUME NEW c \in Caller, PageTimeout(c)
      PROVE  AsksInv'
    <2>1. chan' = chan /\ UNCHANGED <<conn, routes, hid, storage, granted, popup>>
        BY <1>4 DEF PageTimeout, network, nativeVars
    <2> QED BY <2>1, QuietAsks, PopupFirstKept
<1>5. ASSUME NEW c \in Caller, requestDevice(c)
      PROVE  AsksInv'
    <2>1. PICK out : Emit(Injected, None, out)
        BY <1>5 DEF requestDevice, Asks, Answer
    <2>2. UNCHANGED <<conn, routes>>
        BY <1>5 DEF requestDevice, Asks, Answer
    <2> QED BY <1>5, <2>1, <2>2, requestDeviceAsks, PopupFirstElsewhere, Nodes
<1> QED BY <1>1, <1>2, <1>3, <1>4, <1>5 DEF Page

LEMMA InitAsksInv == Init => AsksInv
<1> SUFFICES ASSUME Init PROVE AsksInv
    OBVIOUS
<1>1. \A x, y \in Address : chan[x][y] = <<>>
    BY DEF Init, Nothing
<1>2. NoAsk
    BY <1>1 DEF NoAsk
<1>3. Silence
    BY <1>2, AwaitsIs DEF Init, Silence
<1>4. PopupFirst
    BY Nodes DEF Init, PopupFirst
<1> QED BY <1>3, <1>4 DEF AsksInv, AsksOK

LEMMA NextAsksInv == IInv /\ IInv' /\ AsksInv /\ [Next]_vars => AsksInv'
<1> SUFFICES ASSUME IInv, IInv', AsksInv, [Next]_vars PROVE AsksInv'
    OBVIOUS
<1>1. ChanOK'
    BY DEF IInv, Net, Types
<1>2. ASSUME chan' = chan, UNCHANGED <<conn, routes, hid, storage, granted, popup>>
      PROVE  AsksInv'
    BY <1>2, QuietAsks, PopupFirstKept DEF AsksInv
<1>3. CASE Delay \/ Plug \/ UNCHANGED vars
    <2>1. chan' = chan /\ UNCHANGED <<conn, routes, hid, storage, granted, popup>>
        BY <1>3 DEF Delay, Plug, vars, network, pageVars, nativeVars
    <2> QED BY <1>2, <2>1
<1> QED BY <1>1, <1>3, NetworkAsks, BrowserAsks, ProcessAsks, PageAsksInv DEF Next

\* Of every state: what hid() asks is under way once and fits what it awaits (main.rs
\* 289-431).
THEOREM SpecAsksInv == Spec => [](IInv /\ AsksInv)
<1>1. Init => IInv /\ AsksInv
    BY InitIInv, InitAsksInv
<1>2. (IInv /\ AsksInv) /\ [Next]_vars => (IInv /\ AsksInv)'
    BY NextIInv, NextAsksInv
<1> QED BY <1>1, <1>2, PTL DEF Spec

\* hid() asks one thing at a time, and what is under way is what it awaits, once.
THEOREM SpecOneAnswer == Spec => []OneAnswer
<1>1. ASSUME IInv, AsksInv PROVE OneAnswer
    <2>1. \A x, y \in Address : \A i \in 1..Len(chan[x][y]) : OfHid(chan[x][y][i]) <=> chan[x][y][i] \in AskPackets
        <3>1. SUFFICES ASSUME NEW x \in Address, NEW y \in Address, NEW i \in 1..Len(chan[x][y])
                       PROVE  OfHid(chan[x][y][i]) <=> chan[x][y][i] \in AskPackets
            OBVIOUS
        <3> DEFINE p == chan[x][y][i]
        <3>2. p \in PacketsOn(x, y)
            BY <1>1, IInvChan, PortIs
        <3> HIDE DEF p
        <3>3. p \in AskPackets => OfHid(p)
            BY MattersIs DEF OfHid, Matters
        <3>4. OfHid(p) => p \in AskPackets
            <4>1. CASE p \in Announcements(x, y)
                BY <4>1, AnnouncementIs DEF OfHid
            <4>2. CASE p \in Data(x, y)
                <5>1. p \in AskPackets \cup PageRequests \cup FromBackground \cup Greetings \cup {Closed}
                    BY <4>2 DEF Data, AskPackets
                <5>2. p \in PageRequests => p.kind = "Request" /\ p.sender # Native
                    BY PageRequestIs, Nodes
                <5>3. p \in PageResponses => p.kind = "Response" /\ p.receiver # Native
                    BY PageResponseIs, Nodes
                <5>4. p \in Notices \cup Greetings \cup {Closed} => p.kind \in {"Notification", "Closed"}
                    BY NoticeIs DEF Greetings, Closed
                <5> QED BY <5>1, <5>2, <5>3, <5>4 DEF OfHid, FromBackground
            <4> QED BY <3>2, <4>1, <4>2 DEF PacketsOn
        <3> QED BY <3>3, <3>4 DEF p
    <2>2. \A s : s \in OnTheWay <=> \E x, y \in Address : \E i \in 1..Len(chan[x][y]) :
                                        s = <<x, y, i>> /\ chan[x][y][i] \in AskPackets
        <3> DEFINE at(x, y) == {<<x, y, i>> : i \in {j \in 1..Len(chan[x][y]) : OfHid(chan[x][y][j])}}
        <3>1. \A s : s \in OnTheWay <=> \E x, y \in Address : s \in at(x, y)
            <4> DEFINE S == {at(x, y) : x \in Address, y \in Address}
            <4>1. OnTheWay = UNION S
                BY DEF OnTheWay
            <4>2. \A t : t \in S <=> \E x, y \in Address : t = at(x, y)
                <5> HIDE DEF at
                <5> QED OBVIOUS
            <4> HIDE DEF S, at
            <4> QED BY <4>1, <4>2
        <3>2. \A x, y \in Address : \A s : s \in at(x, y) <=>
                  \E i \in 1..Len(chan[x][y]) : s = <<x, y, i>> /\ chan[x][y][i] \in AskPackets
            BY <2>1
        <3> HIDE DEF at
        <3> QED BY <3>1, <3>2
    <2>3. CASE Silence
        <3>1. OnTheWay = {}
            BY <2>2, <2>3 DEF Silence, NoAsk
        <3> QED BY <2>3, <3>1 DEF OneAnswer, Silence
    <2>4. CASE Exchange
        <3>1. PICK x \in Address, y \in Address, p \in AskPackets : OnlyAsk(x, y, p) /\ Fits(p)
            BY <2>4 DEF Exchange
        <3>2. PICK i \in 1..Len(chan[x][y]) :
                  /\ chan[x][y][i] = p
                  /\ \A u, v \in Address : \A j \in 1..Len(chan[u][v]) :
                        chan[u][v][j] \in AskPackets => u = x /\ v = y /\ j = i
            BY <3>1 DEF OnlyAsk
        <3>3. OnTheWay = {<<x, y, i>>}
            BY <2>2, <3>1, <3>2
        <3>4. chan[<<x, y, i>>[1]][<<x, y, i>>[2]][<<x, y, i>>[3]].name = p.name
            BY <3>2
        <3> QED BY <2>4, <3>1, <3>3, <3>4 DEF OneAnswer, Fits, Exchange
    <2> QED BY <1>1, <2>3, <2>4 DEF AsksInv, AsksOK
<1> QED BY SpecAsksInv, <1>1, PTL
=============================================================================
