------------------------- MODULE HidFoxListedProofs -------------------------
(* For any number of calls of requestDevice(), as long as no three of them   *)
(* are pending at once: one that returns has the device that was approved    *)
(* for it or for one before it.                                              *)
EXTENDS HidFoxProofs

-----------------------------------------------------------------------------
(* The calls are those of requestDevice(), and CallIds the ids of what they  *)
(* send; PageTraffic holds what is on the way for them.                      *)

Calls == Caller \ {0}
CallPlaces == {"none", "RequestDevice", "PollRefresh1", "PollRefresh2", "ready", "failed"}
CallId(c, at) == [caller |-> c, at |-> at]

\* A packet of the set K is on its way from x to y, or anywhere.
On(x, y, K) == \E p \in K : p \in Carried(x, y)
Anywhere(K) == \E x, y \in Address : On(x, y, K)

Of(i) == {p \in CallPackets : p.id = i}
Answers(c, at) == {p \in PageResponses : p.id = CallId(c, at)}
Queued(i) == \/ \E k \in 1..Len(request_device) : request_device[k].id = i
             \/ \E k \in 1..Len(poll_refresh) : poll_refresh[k].id = i
Pursued(i) == Queued(i) \/ Anywhere(Of(i))

\* What a call has sent it has sent: no packet is of a place it has yet to reach.
Reached(i) ==
    /\ i.at = "RequestDevice" => page[i.caller] # "none"
    /\ i.at = "PollRefresh1" => page[i.caller] \notin {"none", "RequestDevice"}
    /\ i.at = "PollRefresh2" => page[i.caller] \in {"PollRefresh2", "ready", "failed"}
CallsOK ==
    /\ \A c \in Calls : page[c] \in CallPlaces
    /\ \A b, c \in Calls : b < c /\ page[b] = "none" => page[c] = "none"
    /\ \A i \in CallIds : Pursued(i) => Reached(i)

\* The calls are served in turn: those that have been are the first ones, then come
\* those that wait in hid(), then those whose requests are on the way.
DeviceRequests == {p \in CallPackets : p.kind = "Request" /\ p.id.at = "RequestDevice"}
From(c) == {p \in DeviceRequests : p.id.caller = c}
Served == {c \in Calls : page[c] \in {"PollRefresh1", "PollRefresh2", "ready"}
                         \/ Anywhere(Answers(c, "RequestDevice"))}
Waiters == {request_device[k].id.caller : k \in 1..Len(request_device)}
Asking(x, y) == {c \in Calls : On(x, y, From(c))}
Stage(k) == CASE k = 0 -> Served
              [] k = 1 -> Waiters
              [] k = 2 -> Asking(Background, Native)
              [] k = 3 -> Asking(Content, Background)
              [] k = 4 -> Asking(Injected, Content)
Sorted(q) == \A i, j \in 1..Len(q) :
    i < j /\ q[i] \in DeviceRequests /\ q[j] \in DeviceRequests => q[i].id.caller < q[j].id.caller
InTurn(q) == \A i, j \in 1..Len(q) : i < j => q[i].id.caller < q[j].id.caller
TurnOK ==
    /\ \A j, k \in 0..4 : j < k => \A c \in Stage(j), d \in Stage(k) : c < d
    /\ Sorted(chan[Background][Native]) /\ Sorted(chan[Content][Background])
    /\ Sorted(chan[Injected][Content]) /\ InTurn(request_device)

PlugsOK == plugs \in Nat /\ (plugs = 0 => plugged = TRUE /\ seen = TRUE)

\* While the device stays, the list of allowed devices is what listed follows, and
\* the page hears of it.
Added == {Notification("AddedDevice", Native, Injected)}
Removed == {Notification("RemovedDevice", Native, Injected)}
Hears == \/ On(Native, Background, Added) \/ On(Background, Content, Added)
         \/ On(Content, Injected, Added)
ListedOK == plugs = 0 =>
    /\ ~Anywhere(Removed)
    /\ listed = TRUE => storage = TRUE /\ (devices = TRUE \/ Hears)

\* A call the approved device concerns; it is due while the page is not told of it.
Concerned(c) == c \in Calls /\ \E a \in granted : a <= c
Due == granted # {} /\ plugs = 0 /\ listed = FALSE
AfterSelect == {"watch", "OpenPopup", "wait_for_connection_to", "RequestAccess", "approved",
                "rejected", "StorageSet"}
DueOK ==
    /\ hid = "approved" => elapsed = TRUE
    /\ Due => /\ elapsed = TRUE /\ hid \in AfterSelect
              /\ \A c \in Calls : Concerned(c) =>
                    /\ page[c] # "ready"
                    /\ page[c] = "PollRefresh2" => ~Anywhere(Answers(c, "PollRefresh2"))
                    /\ hid # "watch" =>
                          /\ page[c] # "PollRefresh2"
                          /\ page[c] = "PollRefresh1" => ~Anywhere(Answers(c, "PollRefresh1"))

\* In q, the packets of K come after one of L.
Behind(q, K, L) == \A i \in 1..Len(q) : q[i] \in K => \E j \in 1..Len(q) : j < i /\ q[j] \in L
Behinds(K) ==
    /\ Behind(chan[Content][Injected], K, Added)
    /\ On(Content, Injected, Added) \/ Behind(chan[Background][Content], K, Added)
    /\ \/ On(Content, Injected, Added) \/ On(Background, Content, Added)
       \/ Behind(chan[Native][Background], K, Added)
AheadOK == plugs = 0 /\ listed = TRUE /\ devices # TRUE =>
    \A c \in Calls : Concerned(c) /\ page[c] = "PollRefresh2" => Behinds(Answers(c, "PollRefresh2"))

ToldOK == plugs = 0 => \A c \in Calls : Concerned(c) /\ page[c] = "ready" => devices = TRUE

Pending(c) == \/ page[c] \in {"RequestDevice", "PollRefresh1", "PollRefresh2"}
              \/ c \in Waiters
\* No three calls of requestDevice() are pending.
TwoAtOnce == \A a, b, c \in Calls : Pending(a) /\ Pending(b) /\ Pending(c) => a = b \/ b = c \/ a = c

CallInv == CallsOK /\ TurnOK /\ PlugsOK /\ ListedOK /\ DueOK /\ AheadOK /\ ToldOK

\* A step that leaves the packets of K alone leaves them where they are.
LEMMA OnSame ==
    ASSUME NEW K, NEW L, L \subseteq K, Same(K)
    PROVE  /\ \A x, y \in Address : On(x, y, L)' <=> On(x, y, L)
           /\ Anywhere(L)' <=> Anywhere(L)
<1>1. ASSUME NEW x \in Address, NEW y \in Address
      PROVE  On(x, y, L)' <=> On(x, y, L)
    BY <1>1, SameCarried DEF On
<1> QED BY <1>1 DEF Anywhere

\* What a step that sends out makes of them.
LEMMA OnEmit ==
    ASSUME ChanOK, NEW z \in Address, NEW f, f # z, NEW out, Emit(z, f, out),
           f \in Address => chan[f][z] # <<>>, \A y \in Address : IsSequence(out[y]), NEW K
    PROVE  /\ \A x, y \in Address : On(x, y, K)' =>
                  On(x, y, K) \/ (x = z /\ \E i \in 1..Len(out[y]) : out[y][i] \in K)
           /\ \A x, y \in Address : On(x, y, K) =>
                  On(x, y, K)' \/ (x = f /\ y = z /\ Head(chan[f][z]) \in K)
           /\ \A y \in Address : \A i \in 1..Len(out[y]) : out[y][i] \in K => On(z, y, K)'
<1>1. /\ \A x, y \in Address : \A p \in Carried(x, y)' :
             p \in Carried(x, y) \/ (x = z /\ \E i \in 1..Len(out[y]) : p = out[y][i])
      /\ \A x, y \in Address : \A p \in Carried(x, y) :
             p \in Carried(x, y)' \/ (x = f /\ y = z /\ p = Head(chan[f][z]))
      /\ \A y \in Address : \A i \in 1..Len(out[y]) : out[y][i] \in Carried(z, y)'
    BY EmitCarried
<1>2. \A x, y \in Address : On(x, y, K)' <=> \E p \in K : p \in Carried(x, y)'
    BY DEF On
<1>3. \A x, y \in Address : On(x, y, K) <=> \E p \in K : p \in Carried(x, y)
    BY DEF On
<1>4. ASSUME NEW x \in Address, NEW y \in Address, On(x, y, K)'
      PROVE  On(x, y, K) \/ (x = z /\ \E i \in 1..Len(out[y]) : out[y][i] \in K)
    BY <1>1, <1>2, <1>3, <1>4
<1>5. ASSUME NEW x \in Address, NEW y \in Address, On(x, y, K)
      PROVE  On(x, y, K)' \/ (x = f /\ y = z /\ Head(chan[f][z]) \in K)
    BY <1>1, <1>2, <1>3, <1>5
<1>6. ASSUME NEW y \in Address, NEW i \in 1..Len(out[y]), out[y][i] \in K
      PROVE  On(z, y, K)'
    BY <1>1, <1>2, <1>6
<1> QED BY <1>4, <1>5, <1>6

LEMMA ToIs ==
    ASSUME NEW h, NEW p, NEW y \in Address
    PROVE  /\ IsSequence(To(h, p)[y])
           /\ y = h => To(h, p)[y] = <<p>> /\ Len(To(h, p)[y]) = 1 /\ To(h, p)[y][1] = p
           /\ y # h => Len(To(h, p)[y]) = 0
<1>1. To(h, p)[y] = IF y = h THEN <<p>> ELSE <<>>
    BY Outs
<1> QED BY <1>1, OneIsSequence, NothingIsSequence

\* The packet p goes from f over z to h.
Moved(z, f, h, p, K) ==
    /\ \A x, y \in Address : On(x, y, K)' => On(x, y, K) \/ (x = z /\ y = h /\ p \in K)
    /\ \A x, y \in Address : On(x, y, K) => On(x, y, K)' \/ (x = f /\ y = z /\ p \in K)
    /\ p \in K => On(z, h, K)'

LEMMA OnHop ==
    ASSUME ChanOK, NEW z \in Address, NEW f, f # z, NEW h \in Address, NEW p, Emit(z, f, To(h, p)),
           f \in Address => chan[f][z] # <<>> /\ p = Head(chan[f][z]), NEW K
    PROVE  Moved(z, f, h, p, K)
<1> DEFINE out == To(h, p)
<1>1. \A y \in Address : IsSequence(out[y]) /\ \A i \in 1..Len(out[y]) : y = h /\ out[y][i] = p
    BY ToIs
<1>2. 1 \in 1..Len(out[h]) /\ out[h][1] = p
    BY ToIs
<1>3. Emit(z, f, out)
    OBVIOUS
<1>4. (f \in Address => chan[f][z] # <<>>) /\ \A y \in Address : IsSequence(out[y])
    BY <1>1
<1> HIDE DEF out
<1>5. /\ \A x, y \in Address : On(x, y, K)' =>
             On(x, y, K) \/ (x = z /\ \E i \in 1..Len(out[y]) : out[y][i] \in K)
      /\ \A x, y \in Address : On(x, y, K) =>
             On(x, y, K)' \/ (x = f /\ y = z /\ Head(chan[f][z]) \in K)
      /\ \A y \in Address : \A i \in 1..Len(out[y]) : out[y][i] \in K => On(z, y, K)'
    BY <1>3, <1>4, OnEmit, Zenon
<1> QED BY <1>1, <1>2, <1>5 DEF Moved

\* Only the head of a port goes.
LEMMA OnTaken ==
    ASSUME ChanOK, NEW z \in Address, NEW f \in Address, f # z, Emit(z, f, Nothing), chan[f][z] # <<>>, NEW K
    PROVE  /\ \A x, y \in Address : On(x, y, K)' => On(x, y, K)
           /\ \A x, y \in Address : On(x, y, K) => On(x, y, K)' \/ (x = f /\ y = z /\ Head(chan[f][z]) \in K)
<1>1. \A y \in Address : Nothing[y] = <<>>
    BY Outs
<1>2. \A y \in Address : IsSequence(Nothing[y]) /\ Len(Nothing[y]) = 0
    BY <1>1, NothingIsSequence
<1>3. \A y \in Address : \A i \in 1..Len(Nothing[y]) : FALSE
    BY <1>2
<1>4. /\ \A x, y \in Address : On(x, y, K)' =>
             On(x, y, K) \/ (x = z /\ \E i \in 1..Len(Nothing[y]) : Nothing[y][i] \in K)
      /\ \A x, y \in Address : On(x, y, K) =>
             On(x, y, K)' \/ (x = f /\ y = z /\ Head(chan[f][z]) \in K)
    <2> DEFINE out == Nothing
    <2>1. Emit(z, f, out) /\ (f \in Address => chan[f][z] # <<>>) /\ \A y \in Address : IsSequence(out[y])
        BY <1>2
    <2> HIDE DEF out
    <2>2. /\ \A x, y \in Address : On(x, y, K)' =>
                 On(x, y, K) \/ (x = z /\ \E i \in 1..Len(out[y]) : out[y][i] \in K)
          /\ \A x, y \in Address : On(x, y, K) =>
                 On(x, y, K)' \/ (x = f /\ y = z /\ Head(chan[f][z]) \in K)
          /\ \A y \in Address : \A i \in 1..Len(out[y]) : out[y][i] \in K => On(z, y, K)'
        BY <2>1, OnEmit, Zenon
    <2> QED BY <2>2 DEF out
<1> QED BY <1>3, <1>4

LEMMA OnAt ==
    ASSUME NEW x, NEW y, NEW K, NEW i \in 1..Len(chan[x][y]), chan[x][y][i] \in K
    PROVE  On(x, y, K)
BY DEF On, Carried

LEMMA OnHead ==
    ASSUME ChanOK, NEW x \in Address, NEW y \in Address, chan[x][y] # <<>>, NEW K, Head(chan[x][y]) \in K
    PROVE  On(x, y, K) /\ Anywhere(K) /\ 1 \in 1..Len(chan[x][y]) /\ chan[x][y][1] = Head(chan[x][y])
<1> DEFINE q == chan[x][y]
<1>1. q \in Seq(PacketsOn(x, y)) /\ q # <<>> /\ Head(q) \in K
    BY PortIs
<1> HIDE DEF q
<1>2. 1 \in 1..Len(q) /\ q[1] = Head(q)
    BY <1>1, RestElements
<1> QED BY <1>1, <1>2, OnAt DEF q, Anywhere

-----------------------------------------------------------------------------
(* Orders within a port.                                                     *)

LEMMA SortedSame ==
    ASSUME NEW q, NEW r, SameOn(DeviceRequests, q, r), NEW S, q \in Seq(S), NEW T, r \in Seq(T), Sorted(q)
    PROVE  Sorted(r)
<1>1. PICK s \in {0, 1} : \A i \in 1..Len(r) : r[i] \in DeviceRequests => i + s \in 1..Len(q) /\ q[i + s] = r[i]
    BY DEF SameOn
<1>2. ASSUME NEW i \in 1..Len(r), NEW j \in 1..Len(r), i < j, r[i] \in DeviceRequests, r[j] \in DeviceRequests
      PROVE  r[i].id.caller < r[j].id.caller
    <2>1. i + s \in 1..Len(q) /\ j + s \in 1..Len(q) /\ q[i + s] = r[i] /\ q[j + s] = r[j]
        BY <1>1, <1>2
    <2>2. i + s < j + s
        BY <1>2
    <2> QED BY <1>2, <2>1, <2>2 DEF Sorted
<1> QED BY <1>2 DEF Sorted

LEMMA SortedRest ==
    ASSUME NEW S, NEW q \in Seq(S), q # <<>>, Sorted(q)
    PROVE  /\ Sorted(Rest(q))
           /\ Head(q) \in DeviceRequests => \A i \in 1..Len(Rest(q)) :
                  Rest(q)[i] \in DeviceRequests => Head(q).id.caller < Rest(q)[i].id.caller
<1>1. /\ Head(q) = q[1] /\ 1 \in 1..Len(q) /\ Len(Rest(q)) \in Nat
      /\ \A i \in 1..Len(Rest(q)) : i + 1 \in 1..Len(q) /\ Rest(q)[i] = q[i + 1]
    BY RestElements
<1>2. ASSUME NEW i \in 1..Len(Rest(q)), NEW j \in 1..Len(Rest(q)), i < j
      PROVE  i + 1 < j + 1
    BY <1>2
<1>3. Sorted(Rest(q))
    BY <1>1, <1>2 DEF Sorted
<1>4. ASSUME NEW i \in 1..Len(Rest(q))
      PROVE  1 < i + 1
    BY <1>4
<1> QED BY <1>1, <1>3, <1>4 DEF Sorted

LEMMA SortedJoined ==
    ASSUME NEW S, NEW q \in Seq(S), NEW p, Sorted(q),
           \A i \in 1..Len(q) : q[i] \in DeviceRequests => q[i].id.caller < p.id.caller
    PROVE  Sorted(Joined(q, <<p>>))
<1> DEFINE r == Joined(q, <<p>>)
<1>1. /\ Len(q) \in Nat
      /\ \A i \in 1..Len(q) : r[i] = q[i]
      /\ \A i \in 1..Len(r) : i > Len(q) => i - Len(q) \in 1..Len(<<p>>) /\ r[i] = <<p>>[i - Len(q)]
    BY OneIsSequence, JoinedHas
<1>2. Len(<<p>>) = 1 /\ <<p>>[1] = p
    OBVIOUS
<1> HIDE DEF r
<1>3. \A i \in 1..Len(r) : \/ i \in 1..Len(q) /\ r[i] = q[i]
                           \/ i = Len(q) + 1 /\ r[i] = p
    <2> TAKE i \in 1..Len(r)
    <2>1. CASE i > Len(q)
        <3>1. i - Len(q) = 1
            BY <1>1, <1>2, <2>1
        <3> QED BY <1>1, <1>2, <2>1, <3>1
    <2> QED BY <1>1, <2>1
<1>4. ASSUME NEW i \in 1..Len(r), NEW j \in 1..Len(r), i < j, r[i] \in DeviceRequests, r[j] \in DeviceRequests
      PROVE  r[i].id.caller < r[j].id.caller
    <2>1. i \in 1..Len(q) /\ r[i] = q[i]
        BY <1>1, <1>3, <1>4
    <2>2. CASE j \in 1..Len(q) /\ r[j] = q[j]
        BY <1>4, <2>1, <2>2 DEF Sorted
    <2>3. CASE r[j] = p
        BY <1>4, <2>1, <2>3
    <2> QED BY <1>3, <2>2, <2>3
<1> QED BY <1>4 DEF Sorted, r

LEMMA BehindSame ==
    ASSUME NEW K, NEW L, NEW M, K \subseteq M, L \subseteq M, NEW q, NEW r, SameOn(M, q, r),
           NEW S, q \in Seq(S), NEW T, r \in Seq(T), Behind(q, K, L)
    PROVE  Behind(r, K, L)
<1>1. PICK s \in {0, 1} :
          /\ \A i \in 1..Len(r) : r[i] \in M => i + s \in 1..Len(q) /\ q[i + s] = r[i]
          /\ \A i \in 1..Len(q) : q[i] \in M => i - s \in 1..Len(r) /\ r[i - s] = q[i]
    BY DEF SameOn
<1>2. ASSUME NEW i \in 1..Len(r), r[i] \in K
      PROVE  \E j \in 1..Len(r) : j < i /\ r[j] \in L
    <2>1. i + s \in 1..Len(q) /\ q[i + s] \in K
        BY <1>1, <1>2
    <2>2. PICK j \in 1..Len(q) : j < i + s /\ q[j] \in L
        BY <2>1 DEF Behind
    <2>3. j - s \in 1..Len(r) /\ r[j - s] \in L
        BY <1>1, <2>2
    <2>4. j - s < i
        BY <2>2
    <2> QED BY <2>3, <2>4
<1> QED BY <1>2 DEF Behind

\* The head is none of K then; and unless it is of L, the rest is as before.
LEMMA BehindRest ==
    ASSUME NEW S, NEW q \in Seq(S), q # <<>>, NEW K, NEW L, Behind(q, K, L)
    PROVE  /\ Head(q) \notin K
           /\ Head(q) \notin L => Behind(Rest(q), K, L)
<1>1. /\ Head(q) = q[1] /\ 1 \in 1..Len(q)
      /\ \A i \in 1..Len(Rest(q)) : i + 1 \in 1..Len(q) /\ Rest(q)[i] = q[i + 1]
      /\ \A i \in 1..Len(q) : i # 1 => i - 1 \in 1..Len(Rest(q)) /\ Rest(q)[i - 1] = q[i]
    BY RestElements
<1>2. Head(q) \notin K
    BY <1>1 DEF Behind
<1>3. ASSUME Head(q) \notin L, NEW i \in 1..Len(Rest(q)), Rest(q)[i] \in K
      PROVE  \E j \in 1..Len(Rest(q)) : j < i /\ Rest(q)[j] \in L
    <2>1. PICK j \in 1..Len(q) : j < i + 1 /\ q[j] \in L
        BY <1>1, <1>3 DEF Behind
    <2>2. j # 1
        BY <1>1, <1>3, <2>1
    <2>3. j - 1 \in 1..Len(Rest(q)) /\ Rest(q)[j - 1] \in L /\ j - 1 < i
        BY <1>1, <2>1, <2>2
    <2> QED BY <2>3
<1> QED BY <1>2, <1>3 DEF Behind

LEMMA BehindJoined ==
    ASSUME NEW S, NEW q \in Seq(S), NEW o, IsSequence(o), NEW K, NEW L, Behind(q, K, L),
           \/ \A i \in 1..Len(o) : o[i] \notin K
           \/ \E i \in 1..Len(q) : q[i] \in L
    PROVE  Behind(Joined(q, o), K, L)
<1> DEFINE r == Joined(q, o)
<1>1. /\ Len(q) \in Nat
      /\ \A i \in 1..Len(q) : i \in 1..Len(r) /\ r[i] = q[i]
      /\ \A i \in 1..Len(r) : i > Len(q) => i - Len(q) \in 1..Len(o) /\ r[i] = o[i - Len(q)]
    BY JoinedHas
<1> HIDE DEF r
<1>2. ASSUME NEW i \in 1..Len(r), r[i] \in K
      PROVE  \E j \in 1..Len(r) : j < i /\ r[j] \in L
    <2>1. CASE i \in 1..Len(q)
        <3>1. PICK j \in 1..Len(q) : j < i /\ q[j] \in L
            BY <1>1, <1>2, <2>1 DEF Behind
        <3> QED BY <1>1, <3>1
    <2>2. CASE i > Len(q)
        <3>1. i - Len(q) \in 1..Len(o) /\ o[i - Len(q)] \in K
            BY <1>1, <1>2, <2>2
        <3>2. PICK j \in 1..Len(q) : q[j] \in L
            BY <3>1
        <3>3. j < i
            BY <1>1, <2>2
        <3> QED BY <1>1, <3>2, <3>3
    <2> QED BY <1>1, <2>1, <2>2
<1> QED BY <1>2 DEF Behind, r

-----------------------------------------------------------------------------
(* What keeps the parts of CallInv.                                          *)

LEMMA CallIdIs ==
    ASSUME NEW i \in CallIds
    PROVE  /\ i.caller \in Calls /\ i.at \in {"RequestDevice", "PollRefresh1", "PollRefresh2"}
           /\ Of(i) \subseteq CallPackets /\ Of(i) \subseteq PageTraffic
BY DEF CallIds, PageIds, Calls, Of, PageTraffic

LEMMA TrafficIs ==
    ASSUME NEW c \in Calls
    PROVE  /\ \A at \in {"RequestDevice", "PollRefresh1", "PollRefresh2"} :
                  /\ CallId(c, at) \in CallIds /\ CallId(c, at).caller = c /\ CallId(c, at).at = at
                  /\ Answers(c, at) \subseteq Of(CallId(c, at)) /\ Answers(c, at) \subseteq PageTraffic
           /\ From(c) \subseteq Of(CallId(c, "RequestDevice")) /\ From(c) \subseteq PageTraffic
           /\ From(c) \subseteq DeviceRequests
           /\ Added \subseteq Notices /\ Removed \subseteq Notices /\ Notices \subseteq PageTraffic
           /\ DeviceRequests \subseteq PageTraffic
<1>1. \A at \in {"RequestDevice", "PollRefresh1", "PollRefresh2"} :
          CallId(c, at) \in CallIds /\ CallId(c, at).caller = c /\ CallId(c, at).at = at
    BY FollowingIs DEF CallId, CallIds, PageIds, Calls
<1>2. ASSUME NEW at \in {"RequestDevice", "PollRefresh1", "PollRefresh2"}, NEW p \in Answers(c, at)
      PROVE  p \in CallPackets /\ p.id = CallId(c, at)
    <2>1. p \in PageResponses /\ p.id = CallId(c, at)
        BY <1>2 DEF Answers
    <2> QED BY <1>1, <2>1 DEF CallPackets
<1>3. ASSUME NEW p \in From(c)
      PROVE  p \in CallPackets /\ p.id = CallId(c, "RequestDevice") /\ p \in DeviceRequests
    <2>1. p \in CallPackets /\ p.id.at = "RequestDevice" /\ p.id.caller = c /\ p \in DeviceRequests
        BY <1>3 DEF From, DeviceRequests
    <2>2. p.id \in PageIds
        BY <2>1 DEF CallPackets, CallIds
    <2> QED BY <2>1, <2>2 DEF PageIds, CallId
<1>4. Added \subseteq Notices /\ Removed \subseteq Notices
    BY DEF Added, Removed, Notices, Notification
<1>5. DeviceRequests \subseteq PageTraffic /\ Notices \subseteq PageTraffic /\ CallPackets \subseteq PageTraffic
    BY DEF DeviceRequests, PageTraffic
<1> QED BY <1>1, <1>2, <1>3, <1>4, <1>5 DEF Of

\* Where a call may go in a step.
PagesMove == \A c \in Calls :
    \/ page'[c] = page[c]
    \/ page'[c] = "failed" /\ page[c] # "none"
    \/ page'[c] = "RequestDevice" /\ page[c] = "none"
    \/ page'[c] = "PollRefresh1" /\ page[c] = "RequestDevice"
    \/ page'[c] = "PollRefresh2" /\ page[c] = "PollRefresh1"
    \/ page'[c] = "ready" /\ page[c] = "PollRefresh2"
InOrder == \A b, c \in Calls : b < c /\ page[b] = "none" => page[c] = "none"

LEMMA CallsStep ==
    ASSUME CallsOK, PagesMove, InOrder', \A i \in CallIds : Pursued(i)' => Pursued(i) \/ Reached(i)'
    PROVE  CallsOK'
<1>1. ASSUME NEW i \in CallIds, Reached(i)
      PROVE  Reached(i)'
    BY <1>1, CallIdIs DEF Reached, PagesMove
<1>2. \A c \in Calls : page'[c] \in CallPlaces
    BY DEF CallsOK, PagesMove, CallPlaces
<1>3. \A i \in CallIds : Pursued(i)' => Reached(i)'
    BY <1>1 DEF CallsOK
<1> QED BY <1>2, <1>3 DEF CallsOK, InOrder

\* Calls may fail, and nothing new is sent for any.
PagesStay == \A c \in Calls : page'[c] = page[c] \/ (page'[c] = "failed" /\ page[c] # "none")

LEMMA CallsStay ==
    ASSUME CallsOK, PagesStay, \A i \in CallIds : Pursued(i)' => Pursued(i)
    PROVE  CallsOK'
<1>1. PagesMove
    BY DEF PagesStay, PagesMove
<1>2. InOrder'
    BY DEF PagesStay, InOrder, CallsOK
<1> QED BY <1>1, <1>2, CallsStep

SortedPorts ==
    /\ Sorted(chan[Background][Native]) /\ Sorted(chan[Content][Background])
    /\ Sorted(chan[Injected][Content]) /\ InTurn(request_device)
Precedes == \A j, k \in 0..4 : j < k => \A c \in Stage(j), d \in Stage(k) : c < d

LEMMA TurnIs == TurnOK <=> Precedes /\ SortedPorts
BY DEF TurnOK, Precedes, SortedPorts

LEMMA TurnThen == (TurnOK <=> Precedes /\ SortedPorts)'
BY TurnIs, PTL

LEMMA TurnShrinks ==
    ASSUME TurnOK, \A k \in 0..4 : Stage(k)' \subseteq Stage(k), SortedPorts'
    PROVE  TurnOK'
<1>1. Precedes
    BY TurnIs
<1>2. ASSUME NEW j \in 0..4, NEW k \in 0..4, j < k, NEW c \in Stage(j)', NEW d \in Stage(k)'
      PROVE  c < d
    BY <1>1, <1>2 DEF Precedes
<1>3. Precedes'
    BY <1>2 DEF Precedes
<1> QED BY <1>3, TurnThen

\* The first of a stage comes to the one before.
LEMMA TurnMoves ==
    ASSUME TurnOK, NEW l \in 1..4, NEW b \in Stage(l), \A c \in Stage(l)' : c \in Stage(l) /\ b < c,
           Stage(l - 1)' \subseteq Stage(l - 1) \cup {b},
           \A k \in 0..4 : k # l /\ k # l - 1 => Stage(k)' \subseteq Stage(k), SortedPorts'
    PROVE  TurnOK'
<1>1. Precedes
    BY TurnIs
<1>2. ASSUME NEW j \in 0..4, NEW k \in 0..4, j < k, NEW c \in Stage(j)', NEW d \in Stage(k)'
      PROVE  c < d
    <2>1. \A m, n \in 0..4 : m < n => \A e \in Stage(m), g \in Stage(n) : e < g
        BY <1>1 DEF Precedes
    <2>2. l \in 0..4 /\ l - 1 \in 0..4 /\ l - 1 < l
        OBVIOUS
    <2>3. CASE c = b /\ j = l - 1
        <3>1. CASE k = l
            BY <1>2, <2>3, <3>1
        <3>2. CASE k # l
            <4>1. d \in Stage(k) /\ l < k
                BY <1>2, <2>3, <3>2
            <4> QED BY <2>1, <2>2, <2>3, <4>1
        <3> QED BY <3>1, <3>2
    <2>4. CASE d = b /\ k = l - 1
        <3>1. c \in Stage(j) /\ j < l
            BY <1>2, <2>4
        <3> QED BY <2>1, <2>2, <2>4, <3>1
    <2>5. CASE c \in Stage(j) /\ d \in Stage(k)
        BY <1>2, <2>1, <2>5
    <2>6. c \in Stage(j) \/ (c = b /\ j = l - 1)
        BY <1>2
    <2>7. d \in Stage(k) \/ (d = b /\ k = l - 1)
        BY <1>2
    <2> QED BY <2>3, <2>4, <2>5, <2>6, <2>7
<1>3. Precedes'
    BY <1>2 DEF Precedes
<1> QED BY <1>3, TurnThen

\* A call comes to the last stage, later than all there are.
LEMMA TurnEnters ==
    ASSUME TurnOK, NEW b, \A k \in 0..4 : \A c \in Stage(k) : c < b,
           Stage(4)' \subseteq Stage(4) \cup {b}, \A k \in 0..3 : Stage(k)' \subseteq Stage(k), SortedPorts'
    PROVE  TurnOK'
<1>1. Precedes
    BY TurnIs
<1>2. ASSUME NEW j \in 0..4, NEW k \in 0..4, j < k, NEW c \in Stage(j)', NEW d \in Stage(k)'
      PROVE  c < d
    <2>1. \A m, n \in 0..4 : m < n => \A e \in Stage(m), g \in Stage(n) : e < g
        BY <1>1 DEF Precedes
    <2>2. j \in 0..3 /\ c \in Stage(j)
        BY <1>2
    <2>3. d \in Stage(k) \/ d = b
        BY <1>2
    <2> QED BY <1>2, <2>1, <2>2, <2>3
<1>3. Precedes'
    BY <1>2 DEF Precedes
<1> QED BY <1>3, TurnThen

StagesAre ==
    /\ Stage(0) = Served /\ Stage(1) = Waiters /\ Stage(2) = Asking(Background, Native)
    /\ Stage(3) = Asking(Content, Background) /\ Stage(4) = Asking(Injected, Content)

LEMMA StageIs == StagesAre
BY DEF StagesAre, Stage

LEMMA StageThen == StagesAre'
BY StageIs, PTL

LEMMA PortThen ==
    ASSUME ChanOK', NEW x \in Address, NEW y \in Address
    PROVE  chan'[x][y] \in Seq(PacketsOn(x, y))
BY DEF ChanOK

LEMMA SortedStays ==
    ASSUME ChanOK, ChanOK', Same(DeviceRequests), NEW x \in Address, NEW y \in Address, Sorted(chan[x][y])
    PROVE  Sorted(chan'[x][y])
<1>1. SameOn(DeviceRequests, chan[x][y], chan'[x][y])
    BY DEF Same
<1> QED BY <1>1, SortedSame, PortIs, PortThen

LEMMA AskingStays ==
    ASSUME Same(DeviceRequests), NEW x \in Address, NEW y \in Address
    PROVE  Asking(x, y)' = Asking(x, y)
<1>1. \A c \in Calls : On(x, y, From(c))' <=> On(x, y, From(c))
    BY TrafficIs, OnSame
<1> QED BY <1>1 DEF Asking

\* No call asks for the device or waits for it that did not before.
LEMMA TurnStays ==
    ASSUME ChanOK, ChanOK', TurnOK, Same(DeviceRequests), UNCHANGED request_device,
           Served' \subseteq Served
    PROVE  TurnOK'
<1>2. Waiters' = Waiters
    BY DEF Waiters
<1>3. \A k \in 0..4 : Stage(k)' \subseteq Stage(k)
    BY <1>2, AskingStays, StageIs, StageThen, Nodes DEF StagesAre
<1>4. SortedPorts
    BY TurnIs
<1>5. /\ Sorted(chan'[Background][Native]) /\ Sorted(chan'[Content][Background])
      /\ Sorted(chan'[Injected][Content])
    BY <1>4, SortedStays, Nodes DEF SortedPorts
<1>6. SortedPorts'
    BY <1>4, <1>5 DEF SortedPorts, Sorted, InTurn
<1> QED BY <1>3, <1>6, TurnShrinks

LEMMA ListedStays ==
    ASSUME ListedOK, UNCHANGED <<plugs, listed, devices>>, storage = TRUE => storage' = TRUE,
           Anywhere(Removed)' => Anywhere(Removed), Hears => Hears'
    PROVE  ListedOK'
BY DEF ListedOK

HidStep ==
    /\ hid' = "approved" => elapsed' = TRUE
    /\ Due => elapsed' = TRUE /\ hid' \in AfterSelect /\ (hid' # "watch" => hid # "watch")

LEMMA DueStays ==
    ASSUME DueOK, UNCHANGED <<granted, plugs, listed>>, HidStep, PagesStay,
           \A c \in Calls : \A at \in {"PollRefresh1", "PollRefresh2"} :
               Anywhere(Answers(c, at))' => Anywhere(Answers(c, at))
    PROVE  DueOK'
<1>1. Due' <=> Due
    BY DEF Due
<1>2. \A c : Concerned(c)' <=> Concerned(c)
    BY DEF Concerned
<1> QED BY <1>1, <1>2 DEF DueOK, HidStep, PagesStay

LEMMA AheadStays ==
    ASSUME AheadOK, UNCHANGED <<granted, plugs, listed, devices>>, PagesStay,
           \A c \in Calls : Behinds(Answers(c, "PollRefresh2")) => Behinds(Answers(c, "PollRefresh2"))'
    PROVE  AheadOK'
<1>1. \A c : Concerned(c)' <=> Concerned(c)
    BY DEF Concerned
<1> QED BY <1>1 DEF AheadOK, PagesStay

LEMMA ToldStays ==
    ASSUME ToldOK, UNCHANGED <<granted, plugs, devices>>, PagesStay
    PROVE  ToldOK'
<1>1. \A c : Concerned(c)' <=> Concerned(c)
    BY DEF Concerned
<1> QED BY <1>1 DEF ToldOK, PagesStay

LEMMA BehindsSame ==
    ASSUME ChanOK, ChanOK', NEW M, Same(M), NEW K, K \subseteq M, Added \subseteq M, Behinds(K)
    PROVE  Behinds(K)'
<1>1. \A x, y \in Address : On(x, y, Added)' <=> On(x, y, Added)
    BY OnSame
<1>2. ASSUME NEW x \in Address, NEW y \in Address, Behind(chan[x][y], K, Added)
      PROVE  Behind(chan'[x][y], K, Added)
    <2>1. SameOn(M, chan[x][y], chan'[x][y])
        BY DEF Same
    <2> QED BY <1>2, <2>1, BehindSame, PortIs, PortThen
<1> QED BY <1>1, <1>2, Nodes DEF Behinds, Behind

LEMMA HearsSame ==
    ASSUME Same(PageTraffic)
    PROVE  (Hears' <=> Hears) /\ (Anywhere(Removed)' <=> Anywhere(Removed))
<1>1. Added \subseteq PageTraffic /\ Removed \subseteq PageTraffic
    BY DEF Added, Removed, PageTraffic, Notices, Notification
<1> QED BY <1>1, OnSame, Nodes DEF Hears

-----------------------------------------------------------------------------
(* Steps that have nothing to do with the calls.                             *)

MostCallInv == CallsOK /\ TurnOK /\ ListedOK /\ DueOK /\ AheadOK /\ ToldOK

LEMMA Unpursued ==
    ASSUME Same(PageTraffic), NEW i \in CallIds
    PROVE  Anywhere(Of(i))' <=> Anywhere(Of(i))
BY CallIdIs, OnSame

Aside ==
    /\ Same(PageTraffic) /\ PagesStay
    /\ UNCHANGED <<granted, devices, plugs, listed, request_device, poll_refresh>>
    /\ storage = TRUE => storage' = TRUE

LEMMA AsideKeeps ==
    ASSUME ChanOK, ChanOK', MostCallInv, Aside, HidStep
    PROVE  MostCallInv'
<1> USE DEF MostCallInv, Aside
<1>1. \A i \in CallIds : Pursued(i)' <=> Pursued(i)
    BY Unpursued DEF Pursued, Queued
<1>2. CallsOK'
    BY <1>1, CallsStay
<1>3. Same(DeviceRequests)
    <2>1. DeviceRequests \subseteq PageTraffic
        BY DEF DeviceRequests, PageTraffic
    <2> QED BY <2>1, SamePart
<1>4. \A c \in Calls : \A at \in {"RequestDevice", "PollRefresh1", "PollRefresh2"} :
          Anywhere(Answers(c, at))' <=> Anywhere(Answers(c, at))
    BY TrafficIs, OnSame
<1>5. TurnOK'
    <2>1. Served' \subseteq Served
        BY <1>4 DEF PagesStay, Served
    <2> QED BY <1>3, <2>1, TurnStays
<1>6. ListedOK'
    BY HearsSame, ListedStays
<1>7. DueOK'
    BY <1>4, DueStays
<1>8. AheadOK'
    <2>1. Added \subseteq PageTraffic
        BY DEF Added, PageTraffic, Notices, Notification
    <2>2. \A c \in Calls : Behinds(Answers(c, "PollRefresh2")) => Behinds(Answers(c, "PollRefresh2"))'
        BY <2>1, TrafficIs, BehindsSame
    <2> QED BY <2>2, AheadStays
<1>9. ToldOK'
    BY ToldStays
<1> QED BY <1>2, <1>5, <1>6, <1>7, <1>8, <1>9

-----------------------------------------------------------------------------
(* What the nodes between the page and hid() pass on.                        *)

\* x passes the packet p of n on to h.
Passes(x, n, h, p) ==
    /\ Emit(x, n, To(h, p)) /\ x # n /\ chan[n][x] # <<>> /\ p = Head(chan[n][x])
    /\ UNCHANGED <<page, granted, devices, storage, hid, elapsed, listed, request_device, poll_refresh, plugs>>

\* It is where it was or one port further, and all else where it was.
LEMMA PassesOn ==
    ASSUME ChanOK, NEW x \in Address, NEW n \in Address, NEW h \in Address, NEW p, Passes(x, n, h, p), NEW K
    PROVE  /\ \A u, v \in Address : On(u, v, K)' => On(u, v, K) \/ (u = x /\ v = h /\ p \in K)
           /\ \A u, v \in Address : On(u, v, K) => On(u, v, K)' \/ (u = n /\ v = x /\ p \in K)
           /\ p \in K => On(x, h, K)' /\ On(n, x, K)
           /\ Anywhere(K)' <=> Anywhere(K)
           /\ p \notin K => Same(K)
<1>1. Emit(x, n, To(h, p)) /\ n # x /\ chan[n][x] # <<>> /\ p = Head(chan[n][x])
    BY DEF Passes
<1>2. /\ \A u, v \in Address : On(u, v, K)' => On(u, v, K) \/ (u = x /\ v = h /\ p \in K)
      /\ \A u, v \in Address : On(u, v, K) => On(u, v, K)' \/ (u = n /\ v = x /\ p \in K)
      /\ p \in K => On(x, h, K)'
    <2>1. n # x /\ (n \in Address => chan[n][x] # <<>> /\ p = Head(chan[n][x]))
        BY <1>1
    <2>2. Moved(x, n, h, p, K)
        BY <1>1, <2>1, OnHop
    <2> QED BY <2>2 DEF Moved
<1>3. p \in K => On(n, x, K)
    BY <1>1, OnHead
<1>4. Anywhere(K)' <=> Anywhere(K)
    BY <1>2, <1>3 DEF Anywhere
<1>5. p \notin K => Same(K)
    <2>1. p \notin K => Lacks(K, To(h, p))
        BY LacksTo
    <2> QED BY <1>1, <2>1, SameEmit
<1> QED BY <1>2, <1>3, <1>4, <1>5

\* The calls are no further, hid() is where it was.
LEMMA PassesKeeps ==
    ASSUME ChanOK, ChanOK', MostCallInv, NEW x \in Address, NEW n \in Address, NEW h \in Address, NEW p,
           Passes(x, n, h, p)
    PROVE  CallsOK' /\ DueOK' /\ ToldOK' /\ Served' = Served /\ PagesStay
<1> USE DEF MostCallInv
<1>1. UNCHANGED <<page, granted, devices, storage, hid, elapsed, listed, request_device, poll_refresh, plugs>>
    BY DEF Passes
<1>2. PagesStay
    BY <1>1 DEF PagesStay
<1>3. \A i \in CallIds : Pursued(i)' <=> Pursued(i)
    <2>1. \A i \in CallIds : Anywhere(Of(i))' <=> Anywhere(Of(i))
        BY PassesOn
    <2> QED BY <1>1, <2>1 DEF Pursued, Queued
<1>4. CallsOK'
    BY <1>2, <1>3, CallsStay
<1>5. \A c, at : Anywhere(Answers(c, at))' <=> Anywhere(Answers(c, at))
    BY PassesOn
<1>6. HidStep
    BY <1>1 DEF HidStep, DueOK
<1>7. DueOK'
    BY <1>1, <1>2, <1>5, <1>6, DueStays
<1>8. ToldOK'
    BY <1>1, <1>2, ToldStays
<1>9. Served' = Served
    BY <1>1, <1>5 DEF Served
<1> QED BY <1>2, <1>4, <1>7, <1>8, <1>9

LEMMA BehindsHop ==
    ASSUME ChanOK, NEW x \in Address, NEW n \in Address, NEW h \in Address, NEW p, Passes(x, n, h, p),
           \/ x = Background /\ n = Native /\ h = Content
           \/ x = Content /\ n = Background /\ h = Injected,
           NEW K, Behinds(K)
    PROVE  Behinds(K)'
<1>1. Emit(x, n, To(h, p)) /\ x # n /\ chan[n][x] # <<>> /\ p = Head(chan[n][x])
    BY DEF Passes
<1>2. /\ \A y \in Address : chan'[x][y] = Joined(chan[x][y], To(h, p)[y])
      /\ chan'[n][x] = Rest(chan[n][x])
      /\ \A u, v \in Address : u # x /\ ~(u = n /\ v = x) => chan'[u][v] = chan[u][v]
    BY <1>1, EmitLinks
<1>3. chan'[x][h] = Joined(chan[x][h], <<p>>) /\ IsSequence(<<p>>)
    BY <1>2, ToIs, Outs, OneIsSequence
<1>4. /\ \A u, v \in Address : On(u, v, Added) => On(u, v, Added)' \/ (u = n /\ v = x /\ p \in Added)
      /\ p \in Added => On(x, h, Added)'
    BY PassesOn
<1>5. \A u, v \in Address : On(u, v, Added) => \E i \in 1..Len(chan[u][v]) : chan[u][v][i] \in Added
    BY DEF On, Carried
<1>6. \A u, v \in Address : \E S : chan[u][v] \in Seq(S)
    BY PortIs
<1>7. ASSUME Behind(chan[n][x], K, Added)
      PROVE  p \notin K /\ (On(x, h, Added)' \/ Behind(chan'[n][x], K, Added))
    <2> DEFINE q == chan[n][x]
    <2>1. q # <<>> /\ p = Head(q) /\ Behind(q, K, Added) /\ \E S : q \in Seq(S)
        BY <1>1, <1>6, <1>7
    <2> HIDE DEF q
    <2>2. Head(q) \notin K /\ (Head(q) \in Added \/ Behind(Rest(q), K, Added))
        BY <2>1, BehindRest
    <2> QED BY <1>2, <1>4, <2>1, <2>2 DEF q
<1>8. ASSUME Behind(chan[x][h], K, Added), p \notin K \/ On(x, h, Added)
      PROVE  Behind(chan'[x][h], K, Added)
    <2> DEFINE q == chan[x][h]
    <2>1. /\ Behind(q, K, Added) /\ chan'[x][h] = Joined(q, <<p>>)
          /\ (\A i \in 1..Len(<<p>>) : <<p>>[i] \notin K) \/ (\E i \in 1..Len(q) : q[i] \in Added)
        BY <1>3, <1>5, <1>8
    <2>2. PICK S : q \in Seq(S)
        BY <1>6
    <2> HIDE DEF q
    <2>3. Behind(Joined(q, <<p>>), K, Added)
        BY <1>3, <2>1, <2>2, BehindJoined
    <2> QED BY <2>1, <2>3
<1>9. Behinds(K)' <=>
          /\ Behind(chan'[Content][Injected], K, Added)
          /\ On(Content, Injected, Added)' \/ Behind(chan'[Background][Content], K, Added)
          /\ \/ On(Content, Injected, Added)' \/ On(Background, Content, Added)'
             \/ Behind(chan'[Native][Background], K, Added)
    BY DEF Behinds, Behind
<1>10. CASE x = Background /\ n = Native /\ h = Content
    <2>1. /\ chan'[Content][Injected] = chan[Content][Injected]
          /\ On(Content, Injected, Added) => On(Content, Injected, Added)'
          /\ On(Background, Content, Added) => On(Background, Content, Added)'
        BY <1>2, <1>4, <1>10, Nodes
    <2>2. On(Content, Injected, Added) \/ Behind(chan'[Background][Content], K, Added)
        BY <1>7, <1>8, <1>10 DEF Behinds
    <2>3. \/ On(Content, Injected, Added) \/ On(Background, Content, Added)'
          \/ Behind(chan'[Native][Background], K, Added)
        BY <1>7, <1>10, <2>1 DEF Behinds
    <2> QED BY <1>9, <2>1, <2>2, <2>3 DEF Behinds
<1>11. CASE x = Content /\ n = Background /\ h = Injected
    <2>1. /\ chan'[Native][Background] = chan[Native][Background]
          /\ On(Content, Injected, Added) => On(Content, Injected, Added)'
          /\ On(Background, Content, Added) => On(Background, Content, Added)' \/ On(Content, Injected, Added)'
        BY <1>2, <1>4, <1>11, Nodes
    <2>2. Behind(chan'[Content][Injected], K, Added)
        BY <1>7, <1>8, <1>11 DEF Behinds
    <2>3. On(Content, Injected, Added)' \/ Behind(chan'[Background][Content], K, Added)
        BY <1>7, <1>11, <2>1 DEF Behinds
    <2> QED BY <1>9, <2>1, <2>2, <2>3 DEF Behinds
<1> QED BY <1>10, <1>11

\* A packet for the page.
LEMMA PassedBack ==
    ASSUME ChanOK, ChanOK', MostCallInv, NEW x \in Address, NEW n \in Address, NEW h \in Address,
           NEW p \in FromBackground, Passes(x, n, h, p),
           \/ x = Background /\ n = Native /\ h = Content
           \/ x = Content /\ n = Background /\ h = Injected
    PROVE  MostCallInv'
<1> USE DEF MostCallInv
<1>1. CallsOK' /\ DueOK' /\ ToldOK' /\ Served' = Served /\ PagesStay
    BY PassesKeeps
<1>2. UNCHANGED <<page, granted, devices, storage, hid, elapsed, listed, request_device, poll_refresh, plugs>>
    BY DEF Passes
<1>3. p \notin DeviceRequests
    <2>1. p.kind # "Request"
        BY PageResponseIs, NoticeIs DEF FromBackground
    <2> QED BY <2>1 DEF DeviceRequests
<1>4. TurnOK'
    BY <1>1, <1>2, <1>3, PassesOn, TurnStays
<1>5. ListedOK'
    <2>1. Anywhere(Removed)' <=> Anywhere(Removed)
        BY PassesOn
    <2>2. Hears => Hears'
        <3>1. /\ \A u, v \in Address : On(u, v, Added) => On(u, v, Added)' \/ (u = n /\ v = x /\ p \in Added)
              /\ p \in Added => On(x, h, Added)'
            BY PassesOn
        <3> QED BY <3>1, Nodes DEF Hears
    <2> QED BY <1>2, <2>1, <2>2, ListedStays
<1>6. AheadOK'
    BY <1>1, <1>2, BehindsHop, AheadStays
<1> QED BY <1>1, <1>4, <1>5, <1>6

LEMMA DeviceRequestIs ==
    ASSUME NEW p \in DeviceRequests
    PROVE  /\ p.id.caller \in Calls /\ p \in From(p.id.caller) /\ p \in CallPackets /\ p.kind = "Request"
           /\ p.id = CallId(p.id.caller, "RequestDevice") /\ p \notin FromBackground
           /\ \A c : p \in From(c) => c = p.id.caller
<1>1. p \in CallPackets /\ p.kind = "Request" /\ p.id.at = "RequestDevice" /\ p.id \in CallIds
    BY DEF DeviceRequests, CallPackets
<1>2. p \notin FromBackground
    BY <1>1, PageResponseIs, NoticeIs DEF FromBackground
<1>3. p.id = CallId(p.id.caller, "RequestDevice")
    BY <1>1 DEF CallIds, PageIds, CallId
<1> QED BY <1>1, <1>2, <1>3, CallIdIs DEF From

\* A port the first request to be served is taken from.
LEMMA DeviceTaken ==
    ASSUME ChanOK, NEW x \in Address, NEW y \in Address, chan[x][y] # <<>>, NEW p, p = Head(chan[x][y]),
           p \in DeviceRequests, chan'[x][y] = Rest(chan[x][y]), Sorted(chan[x][y])
    PROVE  /\ Sorted(chan'[x][y]) /\ p.id.caller \in Asking(x, y)
           /\ \A c \in Asking(x, y)' : c \in Asking(x, y) /\ p.id.caller < c
<1> DEFINE q == chan[x][y]
<1>1. q \in Seq(PacketsOn(x, y)) /\ q # <<>> /\ Head(q) = p /\ Sorted(q)
    BY PortIs
<1>2. p.id.caller \in Asking(x, y)
    BY OnHead, DeviceRequestIs DEF Asking
<1> HIDE DEF q
<1>3. /\ Sorted(Rest(q))
      /\ \A i \in 1..Len(Rest(q)) : Rest(q)[i] \in DeviceRequests => p.id.caller < Rest(q)[i].id.caller
      /\ \A i \in 1..Len(Rest(q)) : i + 1 \in 1..Len(q) /\ Rest(q)[i] = q[i + 1]
    BY <1>1, SortedRest, RestElements
<1>4. ASSUME NEW c \in Asking(x, y)'
      PROVE  c \in Asking(x, y) /\ p.id.caller < c
    <2>1. c \in Calls /\ \E i \in 1..Len(Rest(q)) : Rest(q)[i] \in From(c)
        BY <1>4 DEF Asking, On, Carried, q
    <2>2. PICK i \in 1..Len(Rest(q)) : Rest(q)[i] \in From(c)
        BY <2>1
    <2>3. Rest(q)[i] \in DeviceRequests /\ Rest(q)[i].id.caller = c
        BY <2>2 DEF From
    <2>4. i + 1 \in 1..Len(q) /\ q[i + 1] \in From(c)
        BY <1>3, <2>2
    <2>5. On(x, y, From(c))
        BY <2>4, OnAt DEF q
    <2> QED BY <1>3, <2>1, <2>3, <2>5 DEF Asking
<1> QED BY <1>2, <1>3, <1>4 DEF q

\* A port a request later than those in it is sent to.
LEMMA DeviceSent ==
    ASSUME ChanOK, NEW x \in Address, NEW y \in Address, NEW p \in DeviceRequests,
           chan'[x][y] = Joined(chan[x][y], <<p>>), Sorted(chan[x][y]), \A c \in Asking(x, y) : c < p.id.caller
    PROVE  Sorted(chan'[x][y])
<1> DEFINE q == chan[x][y]
<1>1. q \in Seq(PacketsOn(x, y)) /\ Sorted(q)
    BY PortIs
<1>2. ASSUME NEW i \in 1..Len(q), q[i] \in DeviceRequests
      PROVE  q[i].id.caller < p.id.caller
    <2>1. q[i] \in From(q[i].id.caller) /\ q[i].id.caller \in Calls
        BY <1>2, DeviceRequestIs
    <2>2. On(x, y, From(q[i].id.caller))
        BY <2>1, OnAt
    <2> QED BY <2>1, <2>2 DEF Asking
<1> HIDE DEF q
<1>3. Sorted(Joined(q, <<p>>))
    BY <1>1, <1>2, SortedJoined
<1> QED BY <1>3 DEF q

LEMMA BackIs ==
    /\ \A c, at : Answers(c, at) \subseteq FromBackground
    /\ Added \subseteq FromBackground /\ Removed \subseteq FromBackground
BY DEF Answers, Added, Removed, FromBackground, Notices, Notification

\* What goes the other way has no part in it.
LEMMA BackStays ==
    ASSUME ChanOK, ChanOK', Same(FromBackground)
    PROVE  /\ Hears' <=> Hears
           /\ Anywhere(Removed)' <=> Anywhere(Removed)
           /\ \A c, at : Anywhere(Answers(c, at))' <=> Anywhere(Answers(c, at))
           /\ \A c, at : Behinds(Answers(c, at)) => Behinds(Answers(c, at))'
<1>1. Hears' <=> Hears
    BY BackIs, OnSame, Nodes DEF Hears
<1>2. Anywhere(Removed)' <=> Anywhere(Removed)
    BY BackIs, OnSame
<1>3. \A c, at : Anywhere(Answers(c, at))' <=> Anywhere(Answers(c, at))
    BY BackIs, OnSame
<1>4. \A c, at : Behinds(Answers(c, at)) => Behinds(Answers(c, at))'
    BY BackIs, BehindsSame
<1> QED BY <1>1, <1>2, <1>3, <1>4

\* A request of the page.
LEMMA PassedForth ==
    ASSUME ChanOK, ChanOK', MostCallInv, NEW x \in Address, NEW n \in Address, NEW h \in Address,
           NEW p \in PageRequests, Passes(x, n, h, p),
           \/ x = Content /\ n = Injected /\ h = Background
           \/ x = Background /\ n = Content /\ h = Native
    PROVE  MostCallInv'
<1> USE DEF MostCallInv
<1>1. CallsOK' /\ DueOK' /\ ToldOK' /\ Served' = Served /\ PagesStay
    BY PassesKeeps
<1>2. UNCHANGED <<page, granted, devices, storage, hid, elapsed, listed, request_device, poll_refresh, plugs>>
    BY DEF Passes
<1>3. Same(FromBackground)
    <2>1. p \notin FromBackground
        BY PageRequestIs, PageResponseIs, NoticeIs DEF FromBackground
    <2> QED BY <2>1, PassesOn
<1>4. ListedOK' /\ AheadOK'
    BY <1>1, <1>2, <1>3, BackStays, ListedStays, AheadStays
<1>5. CASE p \notin DeviceRequests
    <2>1. TurnOK'
        BY <1>1, <1>2, <1>5, PassesOn, TurnStays
    <2> QED BY <1>1, <1>4, <2>1
<1>6. CASE p \in DeviceRequests
    <2> DEFINE b == p.id.caller
    <2>1. Emit(x, n, To(h, p)) /\ x # n /\ chan[n][x] # <<>> /\ p = Head(chan[n][x])
        BY DEF Passes
    <2>2. /\ \A y \in Address : chan'[x][y] = Joined(chan[x][y], To(h, p)[y])
          /\ chan'[n][x] = Rest(chan[n][x])
          /\ \A u, v \in Address : u # x /\ ~(u = n /\ v = x) => chan'[u][v] = chan[u][v]
        BY <2>1, EmitLinks
    <2>3. chan'[x][h] = Joined(chan[x][h], <<p>>)
        BY <2>2, ToIs, Outs
    <2>4. Precedes /\ SortedPorts
        BY TurnIs
    <2>5. /\ Sorted(chan'[n][x]) /\ b \in Asking(n, x)
          /\ \A c \in Asking(n, x)' : c \in Asking(n, x) /\ b < c
        BY <1>6, <2>1, <2>2, <2>4, DeviceTaken DEF SortedPorts
    <2>6. \A c \in Asking(x, h)' : c \in Asking(x, h) \/ c = b
        <3>1. ASSUME NEW c \in Calls, On(x, h, From(c))'
              PROVE  On(x, h, From(c)) \/ c = b
            BY <1>6, <3>1, PassesOn, DeviceRequestIs
        <3> QED BY <3>1 DEF Asking
    <2>7. \A u, v \in Address : ~(u = x /\ v = h) /\ ~(u = n /\ v = x) => Asking(u, v)' \subseteq Asking(u, v)
        <3>1. ASSUME NEW c, NEW u \in Address, NEW v \in Address, ~(u = x /\ v = h), On(u, v, From(c))'
              PROVE  On(u, v, From(c))
            <4> DEFINE K == From(c)
            <4>1. \A y, z \in Address : On(y, z, K)' => On(y, z, K) \/ (y = x /\ z = h /\ p \in K)
                BY PassesOn
            <4> QED BY <3>1, <4>1
        <3> QED BY <3>1 DEF Asking
    <2>8. Waiters' = Waiters /\ InTurn(request_device')
        BY <1>2, <2>4 DEF Waiters, SortedPorts
    <2>9. CASE x = Content /\ n = Injected /\ h = Background
        <3>1. Sorted(chan'[x][h])
            <4>1. \A c \in Asking(x, h) : c < b
                <5>1. b \in Stage(4) /\ Stage(3) = Asking(x, h)
                    BY <2>5, <2>9, StageIs DEF StagesAre
                <5>2. 3 \in 0..4 /\ 4 \in 0..4 /\ 3 < 4
                    OBVIOUS
                <5> HIDE DEF b
                <5> QED BY <2>4, <5>1, <5>2 DEF Precedes
            <4> QED BY <1>6, <2>3, <2>4, <2>9, <4>1, DeviceSent DEF SortedPorts
        <3>2. chan'[Background][Native] = chan[Background][Native]
            BY <2>2, <2>9, Nodes
        <3>3. SortedPorts'
            BY <2>4, <2>5, <2>8, <2>9, <3>1, <3>2 DEF SortedPorts, Sorted, InTurn
        <3>4. /\ b \in Stage(4) /\ \A c \in Stage(4)' : c \in Stage(4) /\ b < c
              /\ Stage(3)' \subseteq Stage(3) \cup {b}
              /\ \A k \in 0..2 : Stage(k)' \subseteq Stage(k)
            <4> HIDE DEF b
            <4> QED BY <1>1, <2>5, <2>6, <2>7, <2>8, <2>9, StageIs, StageThen, Nodes DEF StagesAre
        <3>5. 4 \in 1..4 /\ 4 - 1 = 3 /\ \A k \in 0..4 : k # 4 /\ k # 3 => k \in 0..2
            OBVIOUS
        <3> HIDE DEF b
        <3>6. TurnOK'
            BY <3>3, <3>4, <3>5, TurnMoves
        <3> QED BY <1>1, <1>4, <3>6
    <2>10. CASE x = Background /\ n = Content /\ h = Native
        <3>1. Sorted(chan'[x][h])
            <4>1. \A c \in Asking(x, h) : c < b
                <5>1. b \in Stage(3) /\ Stage(2) = Asking(x, h)
                    BY <2>5, <2>10, StageIs DEF StagesAre
                <5>2. 2 \in 0..4 /\ 3 \in 0..4 /\ 2 < 3
                    OBVIOUS
                <5> HIDE DEF b
                <5> QED BY <2>4, <5>1, <5>2 DEF Precedes
            <4> QED BY <1>6, <2>3, <2>4, <2>10, <4>1, DeviceSent DEF SortedPorts
        <3>2. chan'[Injected][Content] = chan[Injected][Content]
            BY <2>2, <2>10, Nodes
        <3>3. SortedPorts'
            BY <2>4, <2>5, <2>8, <2>10, <3>1, <3>2 DEF SortedPorts, Sorted, InTurn
        <3>4. /\ b \in Stage(3) /\ \A c \in Stage(3)' : c \in Stage(3) /\ b < c
              /\ Stage(2)' \subseteq Stage(2) \cup {b}
              /\ \A k \in {0, 1, 4} : Stage(k)' \subseteq Stage(k)
            <4> HIDE DEF b
            <4> QED BY <1>1, <2>5, <2>6, <2>7, <2>8, <2>10, StageIs, StageThen, Nodes DEF StagesAre
        <3>5. 3 \in 1..4 /\ 3 - 1 = 2 /\ \A k \in 0..4 : k # 3 /\ k # 2 => k \in {0, 1, 4}
            OBVIOUS
        <3> HIDE DEF b
        <3>6. TurnOK'
            BY <3>3, <3>4, <3>5, TurnMoves
        <3> QED BY <1>1, <1>4, <3>6
    <2> QED BY <2>9, <2>10
<1> QED BY <1>5, <1>6

-----------------------------------------------------------------------------
(* The actions.                                                              *)

LEMMA HidStays ==
    ASSUME DueOK, UNCHANGED <<hid, elapsed>>
    PROVE  HidStep
BY DEF DueOK, HidStep

LEMMA PagesQuiet ==
    ASSUME UNCHANGED page
    PROVE  PagesStay
BY DEF PagesStay

\* The rest of the program does not move.
LEMMA QuietCalls ==
    ASSUME ChanOK, ChanOK', MostCallInv, Same(PageTraffic), UNCHANGED <<pageVars, storage, nativeVars, usb>>
    PROVE  MostCallInv'
<1>1. HidStep
    BY HidStays DEF MostCallInv, nativeVars
<1>2. Aside
    BY PagesQuiet DEF Aside, pageVars, nativeVars, usb
<1> QED BY <1>1, <1>2, AsideKeeps

LEMMA HopPasses ==
    ASSUME IInv, NEW x \in Address, NEW n \in Address, Forward(x, n), UNCHANGED usb, x # Native,
           NEW h \in Address, Hop(x, n, h)
    PROVE  Passes(x, n, h, Head(chan[n][x]))
BY HopEmits DEF Passes, pageVars, nativeVars, usb

LEMMA ForwardCalls ==
    ASSUME IInv, ChanOK', AsksInv, MostCallInv, NEW x \in Address, NEW n \in Address, Forward(x, n), UNCHANGED usb
    PROVE  MostCallInv'
<1> USE DEF AsksInv
<1>1. CASE x = Content
    <2>1. Content \in Address /\ Content # Native /\ Forward(Content, n)
        BY <1>1, Nodes
    <2>2. CASE n = Injected /\ Hop(Content, n, Background) /\ Head(chan[n][Content]) \in PageRequests
        <3>1. Passes(Content, n, Background, Head(chan[n][Content]))
            BY <2>1, <2>2, HopPasses, Nodes
        <3> QED BY <2>2, <3>1, PassedForth, IInvChan, Nodes
    <2>3. CASE n = Background /\ Hop(Content, n, Injected) /\ Head(chan[n][Content]) \in FromBackground
        <3>1. Passes(Content, n, Injected, Head(chan[n][Content]))
            BY <2>1, <2>3, HopPasses, Nodes
        <3> QED BY <2>3, <3>1, PassedBack, IInvChan, Nodes
    <2> QED BY <2>1, <2>2, <2>3, ContentHop
<1>2. CASE x = Background
    <2>1. Background \in Address /\ Background # Native /\ Forward(Background, n)
        BY <1>2, Nodes
    <2>2. CASE n = Content /\ Hop(Background, n, Native) /\ Head(chan[n][Background]) \in PageRequests
        <3>1. Passes(Background, n, Native, Head(chan[n][Background]))
            BY <2>1, <2>2, HopPasses, Nodes
        <3> QED BY <2>2, <3>1, PassedForth, IInvChan, Nodes
    <2>3. CASE n = Native /\ Hop(Background, n, Content) /\ Head(chan[n][Background]) \in FromBackground
        <3>1. Passes(Background, n, Content, Head(chan[n][Background]))
            BY <2>1, <2>3, HopPasses, Nodes
        <3> QED BY <2>3, <3>1, PassedBack, IInvChan, Nodes
    <2>4. ASSUME Same(PageTraffic) PROVE MostCallInv'
        <3>1. UNCHANGED <<pageVars, storage, nativeVars>>
            BY DEF Forward
        <3> QED BY <2>4, <3>1, QuietCalls, IInvChan
    <2>5. CASE \/ n = Popup /\ Hop(Background, Popup, Native) /\ Head(chan[Popup][Background]) \in NativeResponses
               \/ n = Native /\ Popup \notin conn[Background] /\ Head(chan[Native][Background]) \in AccessRequests
        BY <2>1, <2>4, <2>5, HopToNative
    <2>6. CASE n = Native /\ Hop(Background, Native, Popup) /\ Head(chan[Native][Background]) \in AccessRequests
        BY <2>1, <2>4, <2>6, HopToPopup
    <2> QED BY <2>1, <2>2, <2>3, <2>5, <2>6, BackgroundHop
<1> QED BY <1>1, <1>2, NotAtTheEnds, NotAtPopup, Nodes

LEMMA NetworkCalls ==
    ASSUME IInv, ChanOK', AsksInv, MostCallInv, Network, UNCHANGED usb
    PROVE  MostCallInv'
<1>1. PICK x \in Address : \E n \in Address : OnAddForwarded(x, n) \/ OnRemoveForwarded(x, n) \/ Forward(x, n)
    BY DEF Network
<1>2. PICK n \in Address : OnAddForwarded(x, n) \/ OnRemoveForwarded(x, n) \/ Forward(x, n)
    BY <1>1
<1>3. CASE OnAddForwarded(x, n) \/ OnRemoveForwarded(x, n)
    <2>1. Same(PageTraffic)
        BY <1>3, OnAddForwardedSame, OnRemoveForwardedSame, SameParts
    <2>2. UNCHANGED <<pageVars, storage, nativeVars>>
        BY <1>3 DEF OnAddForwarded, OnRemoveForwarded
    <2> QED BY <2>1, <2>2, QuietCalls, IInvChan
<1> QED BY <1>2, <1>3, ForwardCalls

LEMMA BrowserCalls ==
    ASSUME IInv, ChanOK', AsksInv, MostCallInv, Browser, UNCHANGED usb
    PROVE  MostCallInv'
<1> USE DEF AsksInv
<1>1. ASSUME Same(PageTraffic), UNCHANGED <<pageVars, nativeVars>>, storage' = storage
      PROVE  MostCallInv'
    BY <1>1, QuietCalls, IInvChan
<1>2. CASE ContentOnConnect \/ BackgroundOnConnect \/ OpenNative \/ RemovePopup
    <2>1. Same(PageTraffic)
        BY <1>2, OnConnectSame, OpenNativeSame, RemovePopupSame, SameParts
    <2>2. UNCHANGED <<pageVars, nativeVars>> /\ storage' = storage
        BY <1>2 DEF ContentOnConnect, BackgroundOnConnect, OpenNative, RemovePopup
    <2> QED BY <1>1, <2>1, <2>2
<1>3. CASE StorageGet \/ OpenPopup \/ PopupOnConnect \/ PopupOpeningTimeout
    <2>1. Same(PageTraffic)
        BY <1>3, StorageGetAsks, OpenPopupAsks, PopupOpenedAsks
    <2>2. UNCHANGED <<pageVars, nativeVars>> /\ storage' = storage
        BY <1>3 DEF StorageGet, OpenPopup, PopupOnConnect, PopupOpeningTimeout
    <2> QED BY <1>1, <2>1, <2>2
<1>4. CASE AnswerAccess \/ DismissPopup \/ DiscardForPopup
    <2>1. Same(PageTraffic)
        BY <1>4, AnswerAccessAsks, DismissPopupAsks, DiscardForPopupAsks
    <2>2. UNCHANGED <<pageVars, nativeVars>> /\ storage' = storage
        BY <1>4 DEF AnswerAccess, DismissPopup, DiscardForPopup, Closes
    <2> QED BY <1>1, <2>1, <2>2
<1>5. CASE StorageSet
    <2>1. Same(PageTraffic) /\ UNCHANGED <<pageVars, nativeVars>>
        BY <1>5, StorageSetAsks DEF StorageSet
    <2>2. storage = TRUE => storage' = TRUE
        <3> DEFINE q == Packet(Background, Native)
        <3>1. /\ q \in NativeRequests /\ q.name = "StorageSet"
              /\ chan[Native][Background] # <<>> /\ q = Head(chan[Native][Background])
            BY <1>5, FromNative DEF StorageSet, Received, Arrives, IInv, Packet
        <3>2. q.kind = "Request" /\ Fits(q)
            BY <3>1, AskHead, Nodes DEF AskPackets, NativeRequests
        <3>3. storage' = q.arg
            BY <1>5 DEF StorageSet
        <3> HIDE DEF q
        <3> QED BY <3>1, <3>2, <3>3 DEF Fits
    <2>3. HidStep /\ PagesStay
        BY <2>1, HidStays, PagesQuiet DEF MostCallInv, nativeVars, pageVars
    <2>4. Aside
        BY <2>1, <2>2, <2>3 DEF Aside, pageVars, nativeVars, usb
    <2> QED BY <2>3, <2>4, AsideKeeps, IInvChan
<1> QED BY <1>2, <1>3, <1>4, <1>5 DEF Browser

LEMMA NoDueElsewhere ==
    ASSUME DueOK, hid \in {"none", "helo", "select", "process_requests"}
    PROVE  ~Due
BY DEF DueOK, AfterSelect

\* hid() goes on without a reply to the page.
LEMMA ProcessAside ==
    ASSUME IInv, ChanOK', AsksInv, MostCallInv, UNCHANGED usb,
           \/ NativeMain \/ OpenFromInject \/ Helo \/ SubscribeHid \/ SelectDelay \/ SelectRequestDevice
           \/ PopupOpened \/ RequestAccess \/ AccessGiven
    PROVE  MostCallInv'
<1> USE DEF AsksInv
<1>1. Same(PageTraffic)
    BY NativeMainAsks, OpenFromInjectSame, SameParts, HeloAsks, SubscribeHidAsks, SelectAsks, AccessGivenAsks
<1>2. UNCHANGED <<page, granted, devices, storage, listed, request_device, poll_refresh>>
    BY DEF NativeMain, OpenFromInject, Helo, SubscribeHid, SelectDelay, SelectRequestDevice, PopupOpened,
           RequestAccess, AccessGiven, pageVars, nativeVars
<1>3. Aside
    BY <1>1, <1>2, PagesQuiet DEF Aside, usb
<1>4. CASE OpenFromInject
    BY <1>1, <1>4, QuietCalls, IInvChan DEF OpenFromInject
<1>5. CASE NativeMain \/ Helo \/ SubscribeHid \/ SelectDelay \/ SelectRequestDevice
    <2>1. hid \in {"none", "helo", "select", "process_requests"} /\ hid' # "approved"
        BY <1>5 DEF NativeMain, Helo, Awaited, SubscribeHid, SelectDelay, SelectRequestDevice
    <2>2. HidStep
        BY <2>1, NoDueElsewhere DEF HidStep, MostCallInv
    <2> QED BY <1>3, <2>2, AsideKeeps, IInvChan
<1>6. CASE PopupOpened \/ RequestAccess
    <2>1. hid' \in {"wait_for_connection_to", "RequestAccess"} /\ elapsed' = elapsed /\ hid # "watch"
        BY <1>6 DEF PopupOpened, RequestAccess, Awaited
    <2>2. HidStep
        BY <2>1 DEF HidStep, MostCallInv, DueOK, AfterSelect
    <2> QED BY <1>3, <2>2, AsideKeeps, IInvChan
<1>7. CASE AccessGiven
    <2> DEFINE given == Packet(Native, Background).arg
    <2>1. /\ hid' = IF given THEN "approved" ELSE "rejected"
          /\ elapsed' \in IF given THEN {TRUE} ELSE {elapsed, TRUE}
          /\ hid = "RequestAccess"
        BY <1>7 DEF AccessGiven, Awaited
    <2> HIDE DEF given
    <2>2. HidStep
        BY <2>1 DEF HidStep, MostCallInv, DueOK, AfterSelect
    <2> QED BY <1>3, <2>2, AsideKeeps, IInvChan
<1> QED BY <1>4, <1>5, <1>6, <1>7

LEMMA DelayCalls ==
    ASSUME IInv, ChanOK', MostCallInv, Delay, UNCHANGED usb
    PROVE  MostCallInv'
<1>1. Same(PageTraffic)
    BY SameUnchanged, IInvChan DEF Delay, network
<1>2. Aside
    BY <1>1, PagesQuiet DEF Aside, Delay, pageVars, usb
<1>3. HidStep
    BY NoDueElsewhere DEF HidStep, MostCallInv, Delay
<1> QED BY <1>2, <1>3, AsideKeeps, IInvChan

LEMMA PageTimeoutCalls ==
    ASSUME IInv, ChanOK', MostCallInv, NEW c \in Caller, PageTimeout(c), UNCHANGED usb
    PROVE  MostCallInv'
<1>1. Same(PageTraffic)
    BY SameUnchanged, IInvChan DEF PageTimeout, network
<1>2. PagesStay
    <2>1. page \in [Caller -> PagePlaces] /\ page' = [page EXCEPT ![c] = "failed"] /\ page[c] # "none"
        BY DEF PageTimeout, IInv, App, PlacesOK
    <2> QED BY <2>1 DEF PagesStay, Calls
<1>3. Aside /\ HidStep
    BY <1>1, <1>2, HidStays DEF Aside, MostCallInv, PageTimeout, nativeVars, usb
<1> QED BY <1>3, AsideKeeps, IInvChan

LEMMA WaitForBackgroundCalls ==
    ASSUME IInv, ChanOK', MostCallInv, WaitForBackground, UNCHANGED usb
    PROVE  MostCallInv'
<1>1. Same(PageTraffic)
    BY WaitForBackgroundSame, SameParts
<1>2. PagesStay
    <2>1. page \in [Caller -> PagePlaces] /\ page' = [page EXCEPT ![0] = "OpenNative"]
        BY DEF WaitForBackground, Asks, IInv, App, PlacesOK
    <2> QED BY <2>1 DEF PagesStay, Calls
<1>3. Aside /\ HidStep
    BY <1>1, <1>2, HidStays DEF Aside, MostCallInv, WaitForBackground, nativeVars, usb
<1> QED BY <1>3, AsideKeeps, IInvChan

-----------------------------------------------------------------------------
(* An approval, and the list.                                                *)

\* The request at hand is the first of those that wait.
LEMMA AtHandIs ==
    ASSUME IInv, request_device # <<>>
    PROVE  /\ Head(request_device).id.caller \in Waiters /\ Head(request_device).id.caller \in Calls
           /\ Head(request_device).id = CallId(Head(request_device).id.caller, "RequestDevice")
           /\ 1 \in 1..Len(request_device) /\ request_device[1] = Head(request_device)
<1> DEFINE S == [id : IdsAt({"RequestDevice"}), refreshed : BOOLEAN]
           q == request_device
<1>1. q \in Seq(S) /\ q # <<>>
    BY DEF IInv, App, QueuesOK, Queue
<1>2. \A e \in S : e.id \in IdsAt({"RequestDevice"})
    OBVIOUS
<1> HIDE DEF S, q
<1>3. 1 \in 1..Len(q) /\ q[1] = Head(q) /\ Head(q) \in S
    BY <1>1
<1>4. Head(q).id \in PageIds /\ Head(q).id.at = "RequestDevice"
    BY <1>2, <1>3 DEF IdsAt
<1>5. Head(q).id.caller \in Calls /\ Head(q).id = CallId(Head(q).id.caller, "RequestDevice")
    BY <1>4 DEF PageIds, Calls, CallId
<1>6. Head(q).id.caller \in Waiters
    BY <1>3 DEF Waiters, q
<1> QED BY <1>3, <1>5, <1>6 DEF q

\* Those served came before it, so the device is due for the others alone.
LEMMA ExtendAllowedCalls ==
    ASSUME IInv, ChanOK', AsksInv, MostCallInv, ExtendAllowed, UNCHANGED usb
    PROVE  MostCallInv'
<1> USE DEF AsksInv, MostCallInv
<1>1. Same(PageTraffic)
    BY ExtendAllowedAsks
<1> DEFINE a == Head(request_device).id.caller
<1>2. PICK pc \in {"approved", "rejected"} : hid = pc /\ granted' = granted \cup {c \in {a} : pc = "approved"}
    BY DEF ExtendAllowed, Awaited
<1>3. /\ hid' = "StorageSet"
      /\ UNCHANGED <<page, devices, storage, listed, elapsed, request_device, poll_refresh, plugs>>
    BY DEF ExtendAllowed, usb
<1>4. granted' = granted \/ (hid = "approved" /\ granted' = granted \cup {a})
    BY <1>2
<1>5. a \in Waiters /\ a \in Calls
    <2>1. request_device # <<>>
        BY <1>2 DEF IInv, App, QueuesOK
    <2> QED BY <2>1, AtHandIs
<1>6. CASE granted' = granted
    <2>1. Aside
        BY <1>1, <1>3, <1>6, PagesQuiet DEF Aside
    <2>2. HidStep
        BY <1>2, <1>3 DEF HidStep, DueOK, AfterSelect
    <2> QED BY <2>1, <2>2, AsideKeeps, IInvChan
<1>7. CASE hid = "approved" /\ granted' = granted \cup {a}
    <2>1. PagesStay
        BY <1>3, PagesQuiet
    <2>2. \A i \in CallIds : Pursued(i)' <=> Pursued(i)
        BY <1>1, <1>3, Unpursued DEF Pursued, Queued
    <2>3. CallsOK'
        BY <2>1, <2>2, CallsStay
    <2>4. \A c \in Calls : \A at \in {"RequestDevice", "PollRefresh1", "PollRefresh2"} :
              Anywhere(Answers(c, at))' <=> Anywhere(Answers(c, at))
        BY <1>1, TrafficIs, OnSame
    <2>5. TurnOK'
        <3>1. DeviceRequests \subseteq PageTraffic
            BY DEF DeviceRequests, PageTraffic
        <3>2. Same(DeviceRequests)
            BY <1>1, <3>1, SamePart
        <3>3. Served' \subseteq Served
            BY <1>3, <2>4 DEF Served
        <3> QED BY <1>3, <3>2, <3>3, TurnStays, IInvChan
    <2>6. ListedOK'
        BY <1>1, <1>3, HearsSame, ListedStays
    <2>7. \A c \in Calls : Concerned(c)' /\ ~Concerned(c) => c \notin Served
        <3>1. ASSUME NEW c \in Calls, Concerned(c)', ~Concerned(c)
              PROVE  a <= c
            BY <1>7, <3>1 DEF Concerned
        <3>2. Precedes
            BY TurnIs
        <3>3. \A c \in Served : c < a
            <4>1. 0 \in 0..4 /\ 1 \in 0..4 /\ 0 < 1
                OBVIOUS
            <4> HIDE DEF a
            <4> QED BY <1>5, <3>2, <4>1, StageIs DEF Precedes, StagesAre
        <3>4. \A c \in Calls : c \in Nat
            BY DEF Calls, Caller
        <3> HIDE DEF a
        <3>5. \A c \in Calls : ~(c < a /\ a <= c)
            BY <1>5, <3>4
        <3> QED BY <3>1, <3>3, <3>5
    <2>8. \A c \in Calls : c \notin Served =>
              /\ page[c] \notin {"PollRefresh1", "PollRefresh2", "ready"}
              /\ page'[c] \notin {"PollRefresh1", "PollRefresh2", "ready"}
        BY <1>3 DEF Served
    <2>9. DueOK'
        <3>1. hid = "approved" /\ elapsed = TRUE /\ "approved" # "watch" /\ "StorageSet" \in AfterSelect
            BY <1>7 DEF DueOK, AfterSelect
        <3>2. Due' => plugs = 0 /\ listed = FALSE /\ (granted # {} => Due)
            BY <1>3 DEF Due
        <3>3. \A c \in Calls : Concerned(c) => granted # {}
            BY DEF Concerned
        <3>4. ASSUME NEW c \in Calls, Due', Concerned(c)'
              PROVE  page'[c] \notin {"ready", "PollRefresh2"} /\ (page'[c] = "PollRefresh1" => ~Anywhere(Answers(c, "PollRefresh1"))')
            <4>1. CASE Concerned(c)
                <5>1. Due
                    BY <3>2, <3>3, <3>4, <4>1
                <5> QED BY <1>3, <2>4, <3>1, <4>1, <5>1 DEF DueOK
            <4>2. CASE ~Concerned(c)
                BY <2>7, <2>8, <3>4, <4>2
            <4> QED BY <4>1, <4>2
        <3> QED BY <1>3, <3>1, <3>4 DEF DueOK
    <2>10. AheadOK'
        <3>1. Added \subseteq PageTraffic
            BY DEF Added, PageTraffic, Notices, Notification
        <3>2. \A c \in Calls : Behinds(Answers(c, "PollRefresh2")) => Behinds(Answers(c, "PollRefresh2"))'
            BY <1>1, <3>1, TrafficIs, BehindsSame, IInvChan
        <3> QED BY <1>3, <2>7, <2>8, <3>2 DEF AheadOK
    <2>11. ToldOK'
        BY <1>3, <2>7, <2>8 DEF ToldOK
    <2> QED BY <2>3, <2>5, <2>6, <2>9, <2>10, <2>11
<1> QED BY <1>4, <1>6, <1>7

LEMMA NoneBehind ==
    ASSUME NEW K, ~Anywhere(K)'
    PROVE  Behinds(K)'
<1>1. \A x, y \in Address : ~On(x, y, K)'
    BY DEF Anywhere
<1>2. ASSUME NEW x \in Address, NEW y \in Address, NEW i \in 1..Len(chan'[x][y]), chan'[x][y][i] \in K
      PROVE  FALSE
    BY <1>1, <1>2 DEF On, Carried
<1>3. \A x, y \in Address : Behind(chan'[x][y], K, Added)
    BY <1>2 DEF Behind
<1> QED BY <1>3, Nodes DEF Behinds, Behind

\* The list as hid() reads it is what localStorage has.
LEMMA ReadIs ==
    ASSUME IInv, AsksInv, WatchDevices
    PROVE  LET p == Packet(Native, Background)
           IN  /\ chan[Background][Native] # <<>> /\ p = Head(chan[Background][Native]) /\ p \in AskPackets
               /\ p.arg \in BOOLEAN /\ (p.arg = TRUE <=> storage = TRUE) /\ (granted # {} => storage = TRUE)
               /\ hid = "watch" /\ hid' = "process_requests" /\ elapsed' = FALSE
<1>1. Awaited("watch", "StorageGet") /\ hid' = "process_requests" /\ elapsed' = FALSE
    BY DEF WatchDevices
<1> DEFINE p == Packet(Native, Background)
<1>2. /\ chan[Background][Native] # <<>> /\ Head(chan[Background][Native]) = p
      /\ p \in NativeResponses /\ p \in AskPackets /\ p.kind = "Response" /\ p.name = "StorageGet"
      /\ hid = "watch" /\ Fits(p)
    BY <1>1, AwaitedAsks DEF AsksInv
<1>3. p.arg \in BOOLEAN /\ storage \in BOOLEAN
    BY <1>2 DEF NativeResponses, IInv, App, PlacesOK
<1> HIDE DEF p
<1>4. (p.arg = TRUE <=> storage = TRUE) /\ (granted # {} => storage = TRUE)
    BY <1>2, <1>3 DEF Fits
<1> QED BY <1>1, <1>2, <1>3, <1>4 DEF p

LEMMA WatchDevicesCalls ==
    ASSUME IInv, ChanOK', AsksInv, PlugsOK, MostCallInv, WatchDevices, UNCHANGED usb
    PROVE  MostCallInv'
<1> USE DEF MostCallInv
<1> DEFINE p == Packet(Native, Background)
<1>1. /\ chan[Background][Native] # <<>> /\ p = Head(chan[Background][Native]) /\ p \in AskPackets
      /\ p.arg \in BOOLEAN /\ (p.arg = TRUE <=> storage = TRUE) /\ (granted # {} => storage = TRUE)
      /\ hid = "watch" /\ hid' = "process_requests" /\ elapsed' = FALSE
    BY ReadIs
<1>2. /\ UNCHANGED <<page, granted, devices, storage, plugs, request_device>>
      /\ listed' = (p.arg /\ seen) /\ seen \in BOOLEAN /\ listed \in BOOLEAN
      /\ poll_refresh' = [k \in DOMAIN poll_refresh |-> [poll_refresh[k] EXCEPT !.refreshed = TRUE]]
    BY DEF WatchDevices, pageVars, usb, IInv, App, PlacesOK
<1> DEFINE added == Notification("AddedDevice", Native, Injected)
           removed == Notification("RemovedDevice", Native, Injected)
<1>3. /\ added \in Added /\ removed \in Removed /\ added \notin Removed /\ added \in Notices /\ removed \in Notices
      /\ added.receiver = Injected /\ removed.receiver = Injected
    BY DEF Added, Removed, Notification, Notices
<1>4. /\ listed' /\ ~listed => Emit(Native, Background, To(Background, added))
      /\ ~listed' /\ listed => Emit(Native, Background, To(Background, removed))
      /\ (listed' <=> listed) => Emit(Native, Background, Nothing)
    <2>1. nextHop(Native, Injected, None) = Background /\ Background # None
        <3>1. routes[Native][Injected] # <<>>
            BY <1>1 DEF Early, IInv, App, AskedOK
        <3> QED BY <3>1, NativeKnows, Nodes DEF IInv
    <2>2. \A q : q.receiver = Injected => Routed(Native, q, None) = To(Background, q)
        BY <2>1 DEF Routed
    <2>3. /\ listed' /\ ~listed => Answer(Native, Background, added)
          /\ ~listed' /\ listed => Answer(Native, Background, removed)
          /\ ~(listed' /\ ~listed) /\ ~(~listed' /\ listed) => Take(Native, Background)
        BY DEF WatchDevices
    <2> HIDE DEF added, removed, p
    <2> QED BY <1>3, <2>2, <2>3 DEF Answer, Take
<1>5. ASSUME NEW K, K \subseteq CallPackets
      PROVE  Same(K)
    <2>1. p \notin K /\ added \notin K /\ removed \notin K
        <3>1. p \notin CallPackets
            BY <1>1, TrafficElsewhere DEF PageTraffic
        <3>2. added \notin CallPackets /\ removed \notin CallPackets
            BY <1>3, NoticeIs
        <3> QED BY <1>5, <3>1, <3>2
    <2>2. Lacks(K, Nothing) /\ Lacks(K, To(Background, added)) /\ Lacks(K, To(Background, removed))
        BY <2>1, LacksNothing, LacksTo
    <2>3. PICK out : Emit(Native, Background, out) /\ Lacks(K, out)
        BY <1>4, <2>2
    <2> QED BY <1>1, <2>1, <2>3, SameEmit, IInvChan, Nodes
<1> HIDE DEF added, removed, p
<1>6. PagesStay
    BY <1>2, PagesQuiet
<1>7. CallsOK'
    <2>1. Len(poll_refresh') = Len(poll_refresh) /\ \A k \in 1..Len(poll_refresh) : poll_refresh'[k].id = poll_refresh[k].id
        <3> DEFINE S == [id : IdsAt({"PollRefresh", "PollRefresh1", "PollRefresh2"}), refreshed : BOOLEAN]
        <3>1. poll_refresh \in Seq(S) /\ \A e \in S : [e EXCEPT !.refreshed = TRUE] \in S /\ [e EXCEPT !.refreshed = TRUE].id = e.id
            BY DEF IInv, App, QueuesOK, Queue
        <3> HIDE DEF S
        <3>2. /\ DOMAIN poll_refresh = 1..Len(poll_refresh) /\ Len(poll_refresh) \in Nat
              /\ \A k \in 1..Len(poll_refresh) : poll_refresh[k] \in S
            BY <3>1
        <3>3. poll_refresh' \in Seq(S) /\ Len(poll_refresh') = Len(poll_refresh)
            BY <1>2, <3>1, <3>2
        <3> QED BY <1>2, <3>1, <3>2, <3>3
    <2>2. \A i \in CallIds : Anywhere(Of(i))' <=> Anywhere(Of(i))
        <3> TAKE i \in CallIds
        <3>1. Of(i) \subseteq CallPackets
            BY DEF Of
        <3> QED BY <1>5, <3>1, OnSame
    <2>3. \A i \in CallIds : Pursued(i)' <=> Pursued(i)
        BY <1>2, <2>1, <2>2 DEF Pursued, Queued
    <2> QED BY <1>6, <2>3, CallsStay
<1>8. \A c \in Calls : \A at \in {"RequestDevice", "PollRefresh1", "PollRefresh2"} :
          /\ Answers(c, at) \subseteq CallPackets
          /\ Anywhere(Answers(c, at))' <=> Anywhere(Answers(c, at))
    <2> TAKE c \in Calls
    <2> TAKE at \in {"RequestDevice", "PollRefresh1", "PollRefresh2"}
    <2>1. Answers(c, at) \subseteq CallPackets
        BY TrafficIs DEF Of
    <2> QED BY <1>5, <2>1, OnSame
<1>9. TurnOK'
    <2>1. Same(DeviceRequests)
        BY <1>5 DEF DeviceRequests
    <2>2. Served' \subseteq Served
        BY <1>2, <1>8 DEF Served
    <2> QED BY <1>2, <2>1, <2>2, TurnStays, IInvChan
<1>10. plugs = 0 => /\ listed' = p.arg /\ (listed = TRUE => listed' = TRUE)
                    /\ (listed' <=> listed) \/ (listed' /\ ~listed)
    BY <1>1, <1>2 DEF PlugsOK, ListedOK
<1>11. p \notin Notices /\ Native # Background
    BY <1>1, TrafficElsewhere, Nodes DEF PageTraffic
<1>12. CASE plugs # 0
    <2>1. ListedOK' /\ AheadOK' /\ ToldOK' /\ DueOK'
        BY <1>1, <1>2, <1>12 DEF ListedOK, AheadOK, ToldOK, DueOK, Due
    <2> QED BY <1>7, <1>9, <2>1
<1>13. CASE plugs = 0 /\ (listed' <=> listed)
    <2>1. Emit(Native, Background, Nothing)
        BY <1>4, <1>13
    <2>2. p \notin PageTraffic
        BY <1>1, TrafficElsewhere
    <2>3. Same(PageTraffic)
        BY <1>1, <1>11, <2>1, <2>2, LacksNothing, SameEmit, IInvChan, Nodes
    <2>4. listed' = listed
        BY <1>2, <1>10, <1>13, <1>1
    <2>5. ListedOK'
        BY <1>2, <2>3, <2>4, HearsSame, ListedStays
    <2>6. DueOK'
        <3>1. ~Due'
            BY <1>1, <1>2, <1>10, <1>13 DEF Due
        <3> QED BY <1>1, <3>1 DEF DueOK
    <2>7. AheadOK'
        <3>1. Added \subseteq PageTraffic
            BY DEF Added, PageTraffic, Notices, Notification
        <3>2. \A c \in Calls : Behinds(Answers(c, "PollRefresh2")) => Behinds(Answers(c, "PollRefresh2"))'
            BY <2>3, <3>1, TrafficIs, BehindsSame, IInvChan
        <3> QED BY <1>2, <1>6, <2>4, <3>2, AheadStays
    <2>8. ToldOK'
        BY <1>2, <1>6, ToldStays
    <2> QED BY <1>7, <1>9, <2>5, <2>6, <2>7, <2>8
<1>14. CASE plugs = 0 /\ listed' /\ ~listed
    <2>1. Emit(Native, Background, To(Background, added)) /\ listed = FALSE /\ listed' = TRUE /\ storage = TRUE
        BY <1>1, <1>2, <1>4, <1>10, <1>14
    <2>3. ListedOK'
        <3> DEFINE out == To(Background, added)
        <3>1. \A y \in Address : IsSequence(out[y]) /\ \A i \in 1..Len(out[y]) : out[y][i] = added
            BY ToIs
        <3>2. 1 \in 1..Len(out[Background]) /\ out[Background][1] = added
            BY ToIs, Nodes
        <3>3. Emit(Native, Background, out) /\ (Background \in Address => chan[Background][Native] # <<>>)
            BY <1>1, <2>1
        <3> HIDE DEF out
        <3>4. ASSUME NEW K
              PROVE  /\ \A x, y \in Address : On(x, y, K)' =>
                            On(x, y, K) \/ (x = Native /\ \E i \in 1..Len(out[y]) : out[y][i] \in K)
                     /\ \A x, y \in Address : On(x, y, K) =>
                            On(x, y, K)' \/ (x = Background /\ y = Native /\ Head(chan[Background][Native]) \in K)
                     /\ \A y \in Address : \A i \in 1..Len(out[y]) : out[y][i] \in K => On(Native, y, K)'
            <4>1. ChanOK /\ Native \in Address /\ Background # Native /\ \A y \in Address : IsSequence(out[y])
                BY <3>1, IInvChan, Nodes
            <4> QED BY <3>3, <4>1, OnEmit, Zenon
        <3>5. Anywhere(Removed)' => Anywhere(Removed)
            BY <1>3, <3>1, <3>4 DEF Anywhere
        <3>6. On(Native, Background, Added)'
            BY <1>3, <3>2, <3>4, Nodes
        <3> QED BY <1>2, <2>1, <3>5, <3>6 DEF ListedOK, Hears
    <2>4. DueOK'
        BY <1>1, <2>1 DEF DueOK, Due
    <2>5. AheadOK'
        <3> SUFFICES ASSUME NEW c \in Calls, Concerned(c)', page'[c] = "PollRefresh2"
                     PROVE  Behinds(Answers(c, "PollRefresh2"))'
            BY DEF AheadOK
        <3>1. Concerned(c) /\ page[c] = "PollRefresh2" /\ Due
            BY <1>2, <1>14, <2>1 DEF Concerned, Due
        <3>2. ~Anywhere(Answers(c, "PollRefresh2"))'
            BY <1>8, <3>1 DEF DueOK
        <3> QED BY <3>2, NoneBehind
    <2>6. ToldOK'
        BY <1>2, <1>6, ToldStays
    <2> QED BY <1>7, <1>9, <2>3, <2>4, <2>5, <2>6
<1> QED BY <1>10, <1>12, <1>13, <1>14 DEF PlugsOK

-----------------------------------------------------------------------------
(* hid() takes a request of the page.                                        *)

LEMMA Appended ==
    ASSUME NEW S, NEW q \in Seq(S), NEW e
    PROVE  /\ Len(q) \in Nat /\ Len(Append(q, e)) = Len(q) + 1
           /\ \A k \in 1..Len(q) : k \in 1..Len(Append(q, e)) /\ Append(q, e)[k] = q[k]
           /\ \A k \in 1..Len(Append(q, e)) : (k \in 1..Len(q) /\ Append(q, e)[k] = q[k])
                                              \/ (k = Len(q) + 1 /\ Append(q, e)[k] = e)
<1> DEFINE T == S \cup {e}
<1>1. q \in Seq(T) /\ e \in T
    OBVIOUS
<1> HIDE DEF T
<1>2. Len(q) \in Nat /\ Len(Append(q, e)) = Len(q) + 1
    BY <1>1
<1>3. \A k \in 1..Len(Append(q, e)) : Append(q, e)[k] = IF k = Len(q) + 1 THEN e ELSE q[k]
    BY <1>1
<1> QED BY <1>2, <1>3

LEMMA InTurnAppended ==
    ASSUME NEW S, NEW q \in Seq(S), NEW e, InTurn(q), \A k \in 1..Len(q) : q[k].id.caller < e.id.caller
    PROVE  InTurn(Append(q, e))
<1> DEFINE r == Append(q, e)
<1>1. /\ Len(q) \in Nat
      /\ \A k \in 1..Len(r) : (k \in 1..Len(q) /\ r[k] = q[k]) \/ (k = Len(q) + 1 /\ r[k] = e)
    BY Appended
<1> HIDE DEF r
<1>2. ASSUME NEW i \in 1..Len(r), NEW j \in 1..Len(r), i < j
      PROVE  r[i].id.caller < r[j].id.caller
    <2>1. CASE i \in 1..Len(q) /\ r[i] = q[i] /\ j \in 1..Len(q) /\ r[j] = q[j]
        BY <1>2, <2>1 DEF InTurn
    <2>2. CASE i \in 1..Len(q) /\ r[i] = q[i] /\ r[j] = e
        BY <2>2
    <2>3. ~(i = Len(q) + 1 /\ j \in 1..Len(q)) /\ ~(i = Len(q) + 1 /\ j = Len(q) + 1)
        BY <1>1, <1>2
    <2> QED BY <1>1, <2>1, <2>2, <2>3
<1> QED BY <1>2 DEF InTurn, r

LEMMA QueuesAre ==
    ASSUME IInv
    PROVE  (\E S : request_device \in Seq(S)) /\ (\E S : poll_refresh \in Seq(S))
BY Zenon DEF IInv, App, QueuesOK, Queue

LEMMA NativeRequestCalls ==
    ASSUME IInv, ChanOK', AsksInv, MostCallInv, NativeRequest, UNCHANGED usb
    PROVE  MostCallInv'
<1> USE DEF MostCallInv
<1>1. PICK p : p = Packet(Native, Background)
    OBVIOUS
<1>2. NativeRequestIs(p)
    BY <1>1, NativeRequested
<1>3. UNCHANGED <<page, granted, devices, storage, hid, elapsed, listed, plugs>>
    BY DEF NativeRequest, pageVars, usb
<1>4. /\ p \in PageRequests /\ p.id \in PageIds /\ p.name = RequestOf(p.id.at)
      /\ chan[Background][Native] # <<>> /\ p = Head(chan[Background][Native])
      /\ Emit(Native, Background, Nothing) /\ Background \in Address /\ Native \in Address /\ Background # Native
    BY <1>2, Nodes DEF NativeRequestIs
<1>5. ASSUME NEW K, p \notin K PROVE Same(K)
    BY <1>4, <1>5, LacksNothing, SameEmit, IInvChan
<1>6. Same(FromBackground)
    <2>1. p \notin FromBackground
        BY <1>4, PageRequestIs, PageResponseIs, NoticeIs DEF FromBackground
    <2> QED BY <1>5, <2>1
<1>7. HidStep /\ PagesStay
    BY <1>3, HidStays, PagesQuiet
<1>8. ListedOK' /\ DueOK' /\ AheadOK' /\ ToldOK'
    BY <1>3, <1>6, <1>7, BackStays, ListedStays, DueStays, AheadStays, ToldStays, IInvChan
<1>9. Served' = Served
    BY <1>3, <1>6, BackStays, IInvChan DEF Served
<1>10. ASSUME NEW K, NEW x \in Address, NEW y \in Address, On(x, y, K)'
       PROVE  On(x, y, K)
    BY <1>4, <1>10, OnTaken, IInvChan
<1>11. p.id \in CallIds => p \in Of(p.id) /\ p \in CallPackets
    BY <1>4, PageRequestIs DEF Of
<1>12. ASSUME \A i \in CallIds : Queued(i)' => Queued(i) \/ i = p.id
       PROVE  CallsOK'
    <2>1. ASSUME NEW i \in CallIds, Pursued(i)'
          PROVE  Pursued(i)
        <3>1. Anywhere(Of(i))' => Anywhere(Of(i))
            BY <1>10 DEF Anywhere
        <3>2. i = p.id => Anywhere(Of(i))
            BY <1>4, <1>11, <2>1, OnHead, IInvChan
        <3> QED BY <1>12, <2>1, <3>1, <3>2 DEF Pursued
    <2> QED BY <1>7, <2>1, CallsStay
<1> DEFINE e == [id |-> p.id, refreshed |-> FALSE]
<1>13. e.id = p.id
    OBVIOUS
<1>14. CASE p.name = "SubscribeHid" /\ UNCHANGED <<request_device, poll_refresh>>
    <2>1. p.id \notin CallIds
        BY <1>4, <1>14 DEF CallIds, RequestOf
    <2>2. p \notin PageTraffic
        BY <1>4, <2>1, PageRequestIs DEF PageTraffic
    <2>3. Aside
        BY <1>3, <1>5, <1>7, <1>14, <2>2 DEF Aside
    <2> QED BY <1>7, <2>3, AsideKeeps, IInvChan
<1>15. CASE /\ p.name = "PollRefresh" /\ UNCHANGED request_device
            /\ poll_refresh' = Append(poll_refresh, e)
    <2>1. p \notin DeviceRequests
        BY <1>4, <1>15 DEF DeviceRequests, RequestOf
    <2>2. TurnOK'
        BY <1>5, <1>9, <1>15, <2>1, TurnStays, IInvChan
    <2>3. PICK S : poll_refresh \in Seq(S)
        BY QueuesAre
    <2> HIDE DEF e
    <2>4. \A k \in 1..Len(poll_refresh') : (k \in 1..Len(poll_refresh) /\ poll_refresh'[k] = poll_refresh[k])
                                           \/ poll_refresh'[k] = e
        BY <1>15, <2>3, Appended
    <2>5. \A i \in CallIds : Queued(i)' => Queued(i) \/ i = p.id
        BY <1>13, <1>15, <2>4 DEF Queued
    <2> QED BY <1>8, <1>12, <2>2, <2>5
<1>16. CASE /\ p.name = "RequestDevice" /\ UNCHANGED poll_refresh
            /\ request_device' = Append(request_device, e)
    <2>1. p.id.at = "RequestDevice" /\ p.id \in CallIds
        BY <1>4, <1>16 DEF RequestOf, PageIds, CallIds
    <2>2. p \in DeviceRequests
        BY <1>4, <1>11, <2>1, PageRequestIs DEF DeviceRequests
    <2>3. PICK S : request_device \in Seq(S)
        BY QueuesAre
    <2> HIDE DEF e
    <2>4. \A k \in 1..Len(request_device') : (k \in 1..Len(request_device) /\ request_device'[k] = request_device[k])
                                             \/ request_device'[k] = e
        BY <1>16, <2>3, Appended
    <2>5. \A i \in CallIds : Queued(i)' => Queued(i) \/ i = p.id
        BY <1>13, <1>16, <2>4 DEF Queued
    <2>6. PICK b : b = p.id.caller
        OBVIOUS
    <2>7. /\ \A y \in Address : chan'[Native][y] = Joined(chan[Native][y], Nothing[y])
          /\ chan'[Background][Native] = Rest(chan[Background][Native])
          /\ \A u, v \in Address : u # Native /\ ~(u = Background /\ v = Native) => chan'[u][v] = chan[u][v]
        BY <1>4, EmitLinks
    <2>8. Precedes /\ SortedPorts
        BY TurnIs
    <2>9. /\ Sorted(chan'[Background][Native]) /\ b \in Asking(Background, Native)
          /\ \A c \in Asking(Background, Native)' : c \in Asking(Background, Native) /\ b < c
        BY <1>4, <2>2, <2>6, <2>7, <2>8, DeviceTaken, IInvChan DEF SortedPorts
    <2>10. \A c \in Waiters : c < b
        <3>1. b \in Stage(2) /\ Stage(1) = Waiters
            BY <2>9, StageIs DEF StagesAre
        <3>2. 1 \in 0..4 /\ 2 \in 0..4 /\ 1 < 2
            OBVIOUS
        <3> QED BY <2>8, <3>1, <3>2 DEF Precedes
    <2>11. InTurn(request_device')
        <3>1. \A k \in 1..Len(request_device) : request_device[k].id.caller < e.id.caller
            BY <1>13, <2>6, <2>10 DEF Waiters
        <3>2. InTurn(Append(request_device, e))
            BY <2>3, <2>8, <3>1, InTurnAppended DEF SortedPorts
        <3> QED BY <1>16, <3>2
    <2>12. SortedPorts'
        <3>1. chan'[Content][Background] = chan[Content][Background] /\ chan'[Injected][Content] = chan[Injected][Content]
            BY <2>7, Nodes
        <3> QED BY <2>8, <2>9, <2>11, <3>1 DEF SortedPorts, Sorted, InTurn
    <2>13. Waiters' \subseteq Waiters \cup {b}
        BY <1>13, <2>4, <2>6 DEF Waiters
    <2>14. \A x, y \in Address : Asking(x, y)' \subseteq Asking(x, y)
        BY <1>10 DEF Asking
    <2>15. /\ b \in Stage(2) /\ \A c \in Stage(2)' : c \in Stage(2) /\ b < c
           /\ Stage(1)' \subseteq Stage(1) \cup {b}
           /\ \A k \in {0, 3, 4} : Stage(k)' \subseteq Stage(k)
        BY <1>9, <2>9, <2>13, <2>14, StageIs, StageThen, Nodes DEF StagesAre
    <2>16. 2 \in 1..4 /\ 2 - 1 = 1 /\ \A k \in 0..4 : k # 2 /\ k # 1 => k \in {0, 3, 4}
        OBVIOUS
    <2>17. TurnOK'
        BY <2>12, <2>15, <2>16, TurnMoves
    <2> QED BY <1>8, <1>12, <2>5, <2>17
<1> QED BY <1>2, <1>14, <1>15, <1>16 DEF NativeRequestIs

-----------------------------------------------------------------------------
(* The page.                                                                 *)

\* A call that waits or has been served has been made.
LEMMA StagedIs ==
    ASSUME IInv, CallsOK, NEW k \in 0..4, NEW c \in Stage(k)
    PROVE  c \in Calls /\ page[c] # "none"
<1>1. ASSUME NEW d \in Calls, NEW i \in CallIds, i.caller = d, Pursued(i)
      PROVE  page[d] # "none"
    <2>1. Reached(i)
        BY <1>1 DEF CallsOK
    <2> QED BY <1>1, <2>1, CallIdIs DEF Reached
<1>2. ASSUME NEW d \in Calls, NEW K, K \subseteq Of(CallId(d, "RequestDevice")), Anywhere(K)
      PROVE  page[d] # "none"
    <2>1. Anywhere(Of(CallId(d, "RequestDevice")))
        BY <1>2 DEF Anywhere, On
    <2> QED BY <1>1, <1>2, <2>1, TrafficIs DEF Pursued
<1>3. ASSUME NEW d \in Served PROVE d \in Calls /\ page[d] # "none"
    <2>1. Answers(d, "RequestDevice") \subseteq Of(CallId(d, "RequestDevice")) /\ d \in Calls
        BY <1>3, TrafficIs DEF Served
    <2> QED BY <1>2, <1>3, <2>1 DEF Served
<1>4. ASSUME NEW d \in Waiters PROVE d \in Calls /\ page[d] # "none"
    <2>1. PICK m \in 1..Len(request_device) : d = request_device[m].id.caller
        BY <1>4 DEF Waiters
    <2>2. request_device[m].id \in IdsAt({"RequestDevice"})
        <3> DEFINE S == [id : IdsAt({"RequestDevice"}), refreshed : BOOLEAN]
        <3>1. request_device \in Seq(S) /\ \A e \in S : e.id \in IdsAt({"RequestDevice"})
            BY DEF IInv, App, QueuesOK, Queue
        <3> HIDE DEF S
        <3> QED BY <3>1
    <2>3. request_device[m].id \in CallIds
        BY <2>2 DEF IdsAt, PageIds, CallIds
    <2>4. Pursued(request_device[m].id)
        BY DEF Pursued, Queued
    <2>5. d \in Calls
        BY <2>1, <2>3, CallIdIs
    <2> QED BY <1>1, <2>1, <2>3, <2>4, <2>5
<1>5. ASSUME NEW x \in Address, NEW y \in Address, NEW d \in Asking(x, y)
      PROVE  d \in Calls /\ page[d] # "none"
    <2>1. d \in Calls /\ Anywhere(From(d))
        BY <1>5 DEF Asking, Anywhere
    <2>2. From(d) \subseteq Of(CallId(d, "RequestDevice"))
        BY <2>1, TrafficIs
    <2> QED BY <1>2, <2>1, <2>2
<1> QED BY <1>3, <1>4, <1>5, StageIs, Nodes DEF StagesAre

LEMMA requestDeviceCalls ==
    ASSUME IInv, ChanOK', MostCallInv, NEW c \in Caller, requestDevice(c), UNCHANGED usb
    PROVE  MostCallInv'
<1> USE DEF MostCallInv
<1>1. PICK p : p = CallRequest(c, "RequestDevice")
    OBVIOUS
<1>2. /\ Emit(Injected, None, To(Content, p)) /\ page' = [page EXCEPT ![c] = "RequestDevice"] /\ c # 0
      /\ "RequestDevice" \in DOMAIN Following
    BY <1>1, requestDeviceIs
<1>3. /\ UNCHANGED <<granted, devices, storage, hid, elapsed, listed, plugs, request_device, poll_refresh>>
      /\ page[c] = "none" /\ \A b \in 1..(c - 1) : page[b] # "none"
    BY DEF requestDevice, nativeVars, usb
<1>4. /\ c \in Calls /\ page \in [Caller -> PagePlaces] /\ Calls \subseteq Caller
      /\ \A d \in Calls : d \in Nat /\ d # 0
    BY <1>2 DEF Calls, Caller, IInv, App, PlacesOK
<1>5. /\ page'[c] = "RequestDevice" /\ \A d \in Calls : d # c => page'[d] = page[d]
    BY <1>2, <1>4
<1>6. /\ p \in PageRequests /\ p.id = CallId(c, "RequestDevice") /\ p.id \in CallIds
      /\ p \in DeviceRequests /\ p \notin FromBackground /\ p.id.caller = c
    <2>1. p \in PageRequests /\ p.id = CallId(c, "RequestDevice")
        BY <1>1, <1>2, CallRequestIs DEF CallId
    <2>2. p.id \in CallIds /\ p.id.caller = c /\ p.id.at = "RequestDevice"
        BY <1>4, <2>1, TrafficIs
    <2>3. p \in DeviceRequests
        BY <2>1, <2>2, PageRequestIs DEF DeviceRequests
    <2> QED BY <2>1, <2>2, <2>3, DeviceRequestIs
<1>7. Injected \in Address /\ Content \in Address /\ None \notin Address /\ None # Injected
    BY Nodes
<1>8. ASSUME NEW K, p \notin K PROVE Same(K)
    BY <1>2, <1>7, <1>8, LacksTo, SameEmit, IInvChan
<1>9. Same(FromBackground)
    BY <1>6, <1>8
<1>10. ASSUME NEW K, NEW x \in Address, NEW y \in Address, On(x, y, K)'
       PROVE  On(x, y, K) \/ (p \in K /\ x = Injected /\ y = Content)
    <2>1. Moved(Injected, None, Content, p, K)
        BY <1>2, <1>7, OnHop, IInvChan
    <2> QED BY <1>10, <2>1 DEF Moved
<1>11. CallsOK'
    <2>1. PagesMove
        BY <1>3, <1>5 DEF PagesMove
    <2>2. InOrder'
        <3> SUFFICES ASSUME NEW b \in Calls, NEW d \in Calls, b < d, page'[b] = "none"
                     PROVE  page'[d] = "none"
            BY DEF InOrder
        <3>1. b # c /\ page[b] = "none" /\ b \notin 1..(c - 1)
            BY <1>3, <1>5
        <3>2. d # c
            BY <1>4, <3>1
        <3>3. page[d] = "none"
            BY <3>1 DEF CallsOK
        <3> QED BY <1>5, <3>2, <3>3
    <2>3. ASSUME NEW i \in CallIds, Pursued(i)'
          PROVE  Pursued(i) \/ Reached(i)'
        <3>1. Queued(i)' <=> Queued(i)
            BY <1>3 DEF Queued
        <3>2. Anywhere(Of(i))' => Anywhere(Of(i)) \/ p \in Of(i)
            BY <1>10 DEF Anywhere
        <3>3. p \in Of(i) => Reached(i)'
            BY <1>4, <1>5, <1>6, TrafficIs DEF Of, Reached
        <3> QED BY <2>3, <3>1, <3>2, <3>3 DEF Pursued
    <2> QED BY <2>1, <2>2, <2>3, CallsStep
<1>12. TurnOK'
    <2>1. ASSUME NEW k \in 0..4, NEW d \in Stage(k)
          PROVE  d < c
        <3>1. d \in Calls /\ page[d] # "none"
            BY <2>1, StagedIs
        <3>2. ~(c < d) /\ c # d
            BY <1>3, <1>4, <3>1 DEF CallsOK
        <3> QED BY <1>4, <3>1, <3>2
    <2>2. Precedes /\ SortedPorts
        BY TurnIs
    <2>3. /\ \A y \in Address : chan'[Injected][y] = Joined(chan[Injected][y], To(Content, p)[y])
          /\ \A u, v \in Address : u # Injected /\ ~(u = None /\ v = Injected) => chan'[u][v] = chan[u][v]
        BY <1>2, <1>7, EmitLinks
    <2>4. chan'[Injected][Content] = Joined(chan[Injected][Content], <<p>>)
        BY <2>3, ToIs, Outs, Nodes
    <2>5. Sorted(chan'[Injected][Content])
        <3>1. \A d \in Asking(Injected, Content) : d < p.id.caller
            <4>1. 4 \in 0..4
                OBVIOUS
            <4> QED BY <1>6, <2>1, <4>1, StageIs DEF StagesAre
        <3> QED BY <1>6, <1>7, <2>2, <2>4, <3>1, DeviceSent, IInvChan DEF SortedPorts
    <2>6. SortedPorts'
        <3>1. chan'[Background][Native] = chan[Background][Native] /\ chan'[Content][Background] = chan[Content][Background]
            BY <2>3, Nodes
        <3> QED BY <1>3, <2>2, <2>5, <3>1 DEF SortedPorts, Sorted, InTurn
    <2>7. Served' \subseteq Served
        <3>1. \A d \in Calls : Anywhere(Answers(d, "RequestDevice"))' <=> Anywhere(Answers(d, "RequestDevice"))
            BY <1>9, BackStays, IInvChan
        <3> QED BY <1>5, <3>1 DEF Served
    <2>8. Waiters' = Waiters
        BY <1>3 DEF Waiters
    <2>9. ASSUME NEW x \in Address, NEW y \in Address, NEW d \in Asking(x, y)'
          PROVE  d \in Asking(x, y) \/ (d = c /\ x = Injected /\ y = Content)
        <3>1. d \in Calls /\ On(x, y, From(d))'
            BY <2>9 DEF Asking
        <3>2. p \in From(d) => d = c
            BY <1>6, DeviceRequestIs
        <3> QED BY <1>10, <3>1, <3>2 DEF Asking
    <2>10. Stage(4)' \subseteq Stage(4) \cup {c} /\ \A k \in 0..3 : Stage(k)' \subseteq Stage(k)
        <3>1. Stage(4)' \subseteq Stage(4) \cup {c} /\ Stage(3)' \subseteq Stage(3) /\ Stage(2)' \subseteq Stage(2)
            BY <2>9, StageIs, StageThen, Nodes DEF StagesAre
        <3>2. Stage(1)' \subseteq Stage(1) /\ Stage(0)' \subseteq Stage(0)
            BY <2>7, <2>8, StageIs, StageThen DEF StagesAre
        <3>3. \A k \in 0..3 : k \in {0, 1, 2, 3}
            OBVIOUS
        <3> QED BY <3>1, <3>2, <3>3
    <2> QED BY <2>1, <2>6, <2>10, TurnEnters
<1>13. ListedOK'
    BY <1>3, <1>9, BackStays, ListedStays, IInvChan
<1>14. \A d \in Calls : Concerned(d)' <=> Concerned(d)
    BY <1>3 DEF Concerned
<1>15. DueOK'
    <2>1. Due' <=> Due
        BY <1>3 DEF Due
    <2>2. \A d \in Calls : \A at \in {"PollRefresh1", "PollRefresh2"} : Anywhere(Answers(d, at))' <=> Anywhere(Answers(d, at))
        BY <1>9, BackStays, IInvChan
    <2> QED BY <1>3, <1>5, <1>14, <2>1, <2>2 DEF DueOK
<1>16. AheadOK'
    <2>1. \A d \in Calls : Behinds(Answers(d, "PollRefresh2")) => Behinds(Answers(d, "PollRefresh2"))'
        BY <1>9, BackStays, IInvChan
    <2> QED BY <1>3, <1>5, <1>14, <2>1 DEF AheadOK
<1>17. ToldOK'
    BY <1>3, <1>5, <1>14 DEF ToldOK
<1> QED BY <1>11, <1>12, <1>13, <1>15, <1>16, <1>17

\* A notice of the device.
LEMMA NoticedCalls ==
    ASSUME IInv, ChanOK', MostCallInv, AddedDevice \/ RemovedDevice, UNCHANGED usb
    PROVE  MostCallInv'
<1> USE DEF MostCallInv
<1>1. PICK p : p = Head(chan[Content][Injected])
    OBVIOUS
<1>2. /\ chan[Content][Injected] # <<>> /\ p \in Notices /\ Emit(Injected, Content, Nothing)
      /\ \/ p.name = "AddedDevice" /\ devices' = TRUE
         \/ p.name = "RemovedDevice"
    BY <1>1, NoticedIs DEF AddedDevice, RemovedDevice
<1>3. UNCHANGED <<page, granted, storage, hid, elapsed, listed, plugs, request_device, poll_refresh>>
    BY DEF AddedDevice, RemovedDevice, nativeVars, usb
<1>4. ASSUME NEW K, p \notin K PROVE Same(K)
    BY <1>1, <1>2, <1>4, LacksNothing, SameEmit, IInvChan, Nodes
<1>5. Same(CallPackets) /\ Same(DeviceRequests)
    <2>1. p \notin CallPackets
        BY <1>2, NoticeIs
    <2> QED BY <1>4, <2>1 DEF DeviceRequests
<1>6. HidStep /\ PagesStay
    BY <1>3, HidStays, PagesQuiet
<1>7. \A c \in Calls : \A at \in {"RequestDevice", "PollRefresh1", "PollRefresh2"} :
          Anywhere(Answers(c, at))' <=> Anywhere(Answers(c, at))
    <2> TAKE c \in Calls
    <2> TAKE at \in {"RequestDevice", "PollRefresh1", "PollRefresh2"}
    <2>1. Answers(c, at) \subseteq CallPackets
        BY TrafficIs DEF Of
    <2> QED BY <1>5, <2>1, OnSame
<1>8. CallsOK'
    <2>1. \A i \in CallIds : Anywhere(Of(i))' <=> Anywhere(Of(i))
        <3> TAKE i \in CallIds
        <3>1. Of(i) \subseteq CallPackets
            BY DEF Of
        <3> QED BY <1>5, <3>1, OnSame
    <2>2. \A i \in CallIds : Pursued(i)' <=> Pursued(i)
        BY <1>3, <2>1 DEF Pursued, Queued
    <2> QED BY <1>6, <2>2, CallsStay
<1>9. TurnOK'
    <2>1. Served' \subseteq Served
        BY <1>3, <1>7 DEF Served
    <2> QED BY <1>3, <1>5, <2>1, TurnStays, IInvChan
<1>10. DueOK'
    BY <1>3, <1>6, <1>7, DueStays
<1>11. \A x, y \in Address : On(x, y, Removed)' => On(x, y, Removed)
    BY <1>2, OnTaken, IInvChan, Nodes
<1>12. CASE p.name = "AddedDevice" /\ devices' = TRUE
    BY <1>3, <1>8, <1>9, <1>10, <1>11, <1>12 DEF ListedOK, AheadOK, ToldOK, Anywhere
<1>13. CASE p.name = "RemovedDevice"
    <2>1. p \in Removed
        BY <1>2, <1>13 DEF Notices, Removed, Notification
    <2>2. Anywhere(Removed)
        BY <1>1, <1>2, <2>1, OnHead, IInvChan, Nodes
    <2>3. plugs' # 0
        BY <1>3, <2>2 DEF ListedOK
    <2> QED BY <1>8, <1>9, <1>10, <2>3 DEF ListedOK, AheadOK, ToldOK
<1> QED BY <1>2, <1>12, <1>13

\* The page takes an answer, and may ask again with r.
Replied(p, r) ==
    /\ p \in PageResponses /\ chan[Content][Injected] # <<>> /\ p = Head(chan[Content][Injected])
    /\ Emit(Injected, Content, Nothing) \/ Emit(Injected, Content, To(Content, r))

LEMMA RepliedOn ==
    ASSUME ChanOK, NEW p, NEW r, Replied(p, r), NEW K
    PROVE  /\ p \notin K /\ r \notin K => Same(K)
           /\ Anywhere(K)' => Anywhere(K) \/ r \in K
<1>1. /\ p \in PageResponses /\ chan[Content][Injected] # <<>> /\ p = Head(chan[Content][Injected])
      /\ Content # Injected /\ Content \in Address /\ Injected \in Address
    BY Nodes DEF Replied
<1>2. CASE Emit(Injected, Content, Nothing)
    <2>1. p \notin K => Same(K)
        BY <1>1, <1>2, LacksNothing, SameEmit
    <2>2. \A x, y \in Address : On(x, y, K)' => On(x, y, K)
        BY <1>1, <1>2, OnTaken
    <2> QED BY <2>1, <2>2 DEF Anywhere
<1>3. CASE Emit(Injected, Content, To(Content, r))
    <2>1. p \notin K /\ r \notin K => Same(K)
        BY <1>1, <1>3, LacksTo, SameEmit
    <2> DEFINE out == To(Content, r)
    <2>2. \A y \in Address : IsSequence(out[y]) /\ \A i \in 1..Len(out[y]) : out[y][i] = r
        BY ToIs
    <2>3. /\ Emit(Injected, Content, out) /\ (Content \in Address => chan[Content][Injected] # <<>>)
          /\ \A y \in Address : IsSequence(out[y])
        BY <1>1, <1>3, <2>2
    <2> HIDE DEF out
    <2>4. /\ \A x, y \in Address : On(x, y, K)' =>
                 On(x, y, K) \/ (x = Injected /\ \E i \in 1..Len(out[y]) : out[y][i] \in K)
          /\ \A x, y \in Address : On(x, y, K) =>
                 On(x, y, K)' \/ (x = Content /\ y = Injected /\ Head(chan[Content][Injected]) \in K)
          /\ \A y \in Address : \A i \in 1..Len(out[y]) : out[y][i] \in K => On(Injected, y, K)'
        BY <1>1, <2>3, OnEmit, Zenon
    <2> QED BY <2>1, <2>2, <2>4 DEF Anywhere
<1> QED BY <1>2, <1>3 DEF Replied

\* Nothing gets ahead of a notice.
LEMMA RepliedBehind ==
    ASSUME ChanOK, ChanOK', NEW p, NEW r \in PageRequests, Replied(p, r), NEW K, Behinds(K)
    PROVE  Behinds(K)' /\ p \notin K
<1>1. p \notin Added /\ r \notin Added
    <2>1. p \in PageResponses
        BY DEF Replied
    <2>2. p \notin Notices /\ r \notin Notices
        BY <2>1, PageRequestIs, PageResponseIs
    <2>3. Added \subseteq Notices
        BY DEF Added, Notices, Notification
    <2> QED BY <2>2, <2>3
<1>2. \A x, y \in Address : On(x, y, Added)' <=> On(x, y, Added)
    <2>1. Same(Added)
        BY <1>1, RepliedOn
    <2> QED BY <2>1, OnSame
<1>3. /\ chan[Content][Injected] # <<>> /\ p = Head(chan[Content][Injected])
      /\ chan'[Content][Injected] = Rest(chan[Content][Injected])
      /\ chan'[Background][Content] = chan[Background][Content]
      /\ chan'[Native][Background] = chan[Native][Background]
    <2>1. PICK out : Emit(Injected, Content, out)
        BY DEF Replied
    <2> QED BY <2>1, EmitLinks, Nodes DEF Replied
<1> DEFINE q == chan[Content][Injected]
<1>4. q # <<>> /\ p = Head(q) /\ q \in Seq(PacketsOn(Content, Injected)) /\ Behind(q, K, Added)
    BY <1>3, PortIs, Nodes DEF Behinds
<1> HIDE DEF q
<1>5. p \notin K /\ Behind(Rest(q), K, Added)
    BY <1>1, <1>4, BehindRest
<1> QED BY <1>2, <1>3, <1>5, Nodes DEF Behinds, Behind, q

\* An answer to the constructor, or one nobody waits for.
LEMMA OtherAnswer ==
    ASSUME IInv, ChanOK', MostCallInv, NEW p, PageAnswerIs(p), p.id \notin CallIds,
           UNCHANGED <<granted, devices, storage, hid, elapsed, listed, plugs, request_device, poll_refresh>>
    PROVE  MostCallInv'
<1> USE DEF MostCallInv
<1>1. PICK c : c = p.id.caller
    OBVIOUS
<1>2. PICK next : next = Following[p.id.at]
    OBVIOUS
<1>3. /\ p \in PageResponses /\ c \in Caller /\ p.id.at \in DOMAIN Following /\ p.id \in PageIds
      /\ chan[Content][Injected] # <<>> /\ p = Head(chan[Content][Injected])
      /\ \/ /\ Emit(Injected, Content, Nothing)
            /\ page' = page \/ (page[c] = p.id.at /\ \E pc : page' = [page EXCEPT ![c] = pc])
         \/ /\ page[c] = p.id.at /\ next \in {"SubscribeHid", "PollRefresh", "PollRefresh1", "PollRefresh2"}
            /\ Emit(Injected, Content, To(Content, CallRequest(c, next)))
            /\ page' = [page EXCEPT ![c] = next]
    BY <1>1, <1>2, PageResponseIs DEF PageAnswerIs
<1>4. c # 0 => page[c] # p.id.at
    <2> SUFFICES ASSUME c # 0, page[c] = p.id.at PROVE FALSE
        OBVIOUS
    <2>1. c \in Calls /\ page[c] \in CallPlaces
        BY <1>3 DEF Calls, CallsOK
    <2>2. p.id.at \in {"RequestDevice", "PollRefresh1", "PollRefresh2"}
        BY <1>3, <2>1, FollowingIs DEF CallPlaces
    <2> QED BY <1>1, <1>3, <2>2 DEF CallIds
<1>5. PagesStay
    <2>1. page \in [Caller -> PagePlaces]
        BY DEF IInv, App, PlacesOK
    <2>2. page' = page \/ \E pc : page' = [page EXCEPT ![0] = pc]
        BY <1>3, <1>4
    <2> QED BY <2>1, <2>2 DEF PagesStay, Calls
<1>6. Same(PageTraffic)
    <2>1. p \notin PageTraffic
        BY <1>3, PageResponseIs DEF PageTraffic
    <2>2. CASE Emit(Injected, Content, Nothing)
        BY <1>3, <2>1, <2>2, LacksNothing, SameEmit, IInvChan, Nodes
    <2>3. CASE /\ page[c] = p.id.at /\ next \in {"SubscribeHid", "PollRefresh", "PollRefresh1", "PollRefresh2"}
               /\ Emit(Injected, Content, To(Content, CallRequest(c, next)))
        <3>1. c = 0 /\ next \in DOMAIN Following \ {"OpenNative"} /\ next # "RequestDevice"
            BY <1>4, <2>3, FollowingIs
        <3>2. PICK r : r = CallRequest(c, next)
            OBVIOUS
        <3>3. r \in PageRequests /\ r.id = [caller |-> c, at |-> next]
            BY <1>3, <3>1, <3>2, CallRequestIs
        <3>4. r \notin PageTraffic
            <4>1. r.id \notin CallIds
                BY <3>1, <3>3 DEF CallIds
            <4>2. r \notin CallPackets /\ r \notin Notices
                BY <3>3, <4>1, PageRequestIs
            <4> QED BY <4>2 DEF PageTraffic
        <3> QED BY <1>3, <2>1, <2>3, <3>2, <3>4, LacksTo, SameEmit, IInvChan, Nodes
    <2> QED BY <1>3, <2>2, <2>3
<1>7. Aside /\ HidStep
    BY <1>5, <1>6, HidStays DEF Aside
<1> QED BY <1>7, AsideKeeps, IInvChan

LEMMA PageAnswerCalls ==
    ASSUME IInv, ChanOK', MostCallInv, PageAnswer, UNCHANGED usb
    PROVE  MostCallInv'
<1> USE DEF MostCallInv
<1>1. PICK p : p = Packet(Injected, Content)
    OBVIOUS
<1>2. PageAnswerIs(p)
    BY <1>1, PageAnswered
<1>3. UNCHANGED <<granted, devices, storage, hid, elapsed, listed, plugs, request_device, poll_refresh>>
    BY DEF PageAnswer, nativeVars, usb
<1>4. CASE p.id \notin CallIds
    BY <1>2, <1>3, <1>4, OtherAnswer
<1>5. CASE p.id \in CallIds
    <2>1. PICK c \in Calls : c = p.id.caller
        BY <1>5, CallIdIs
    <2>2. PICK at \in {"RequestDevice", "PollRefresh1", "PollRefresh2"} : at = p.id.at
        BY <1>5, CallIdIs
    <2>3. PICK next : next = Following[at]
        OBVIOUS
    <2>4. /\ at = "RequestDevice" => next = "PollRefresh1"
          /\ at = "PollRefresh1" => next = "PollRefresh2"
          /\ at = "PollRefresh2" => next = "ready"
        BY <2>3 DEF Following
    <2>5. PICK r : r = CallRequest(c, IF next = "ready" THEN "PollRefresh1" ELSE next)
        OBVIOUS
    <2>6. /\ r \in PageRequests /\ r \notin DeviceRequests /\ (next # "ready" => r.id = CallId(c, next))
          /\ r.kind = "Request"
        <3>1. PICK pc \in {"PollRefresh1", "PollRefresh2"} : pc = IF next = "ready" THEN "PollRefresh1" ELSE next
            BY <2>4
        <3>2. r \in PageRequests /\ r.id = [caller |-> c, at |-> pc]
            BY <2>5, <3>1, CallRequestIs, FollowingIs DEF Calls
        <3>3. r.kind = "Request" /\ r.id.at = pc
            <4>1. r.kind = "Request"
                BY <3>2, PageRequestIs
            <4>2. r.id.at = pc
                BY <3>2
            <4> QED BY <4>1, <4>2
        <3>4. r \notin DeviceRequests
            BY <3>1, <3>3 DEF DeviceRequests
        <3>5. next # "ready" => r.id = CallId(c, next)
            BY <3>1, <3>2 DEF CallId
        <3> QED BY <3>2, <3>3, <3>4, <3>5
    <2>7. /\ p \in PageResponses /\ chan[Content][Injected] # <<>> /\ p = Head(chan[Content][Injected])
          /\ \/ /\ Emit(Injected, Content, Nothing)
                /\ \/ page' = page
                   \/ page[c] = at /\ page' = [page EXCEPT ![c] = "failed"]
                   \/ page[c] = at /\ next = "ready" /\ page' = [page EXCEPT ![c] = "ready"]
             \/ /\ page[c] = at /\ next # "ready"
                /\ Emit(Injected, Content, To(Content, r))
                /\ page' = [page EXCEPT ![c] = next]
        BY <1>2, <2>1, <2>2, <2>3, <2>5 DEF PageAnswerIs
    <2>8. Replied(p, r)
        BY <2>7 DEF Replied
    <2>9. /\ \/ PagesStay
             \/ page[c] = at /\ page'[c] = next /\ (next # "ready" => Emit(Injected, Content, To(Content, r)))
          /\ \A d \in Calls : d # c => page'[d] = page[d]
          /\ PagesStay => Emit(Injected, Content, Nothing)
        <3>1. page \in [Caller -> PagePlaces] /\ Calls \subseteq Caller
            BY DEF IInv, App, PlacesOK, Calls
        <3>2. /\ page' = page => PagesStay
              /\ page[c] = at /\ page' = [page EXCEPT ![c] = "failed"] => PagesStay /\ \A d \in Calls : d # c => page'[d] = page[d]
            BY <3>1 DEF PagesStay
        <3>3. ASSUME page[c] = at, page' = [page EXCEPT ![c] = next]
              PROVE  page'[c] = next /\ (\A d \in Calls : d # c => page'[d] = page[d]) /\ ~PagesStay
            BY <2>4, <3>1, <3>3 DEF PagesStay
        <3> QED BY <2>7, <3>2, <3>3
    <2>10. p \in Answers(c, at) /\ p \in Of(p.id) /\ p.id = CallId(c, at)
        <3>1. p.id = CallId(c, at)
            BY <1>5, <2>1, <2>2 DEF CallIds, PageIds, CallId
        <3>2. p \in CallPackets
            BY <1>5, <2>7, PageResponseIs
        <3> QED BY <2>7, <3>1, <3>2 DEF Answers, Of
    <2>11. Anywhere(Answers(c, at))
        BY <2>7, <2>10, OnHead, IInvChan, Nodes
    <2>12. Same(Notices) /\ Same(DeviceRequests)
        <3>1. p \notin Notices /\ r \notin Notices /\ p \notin DeviceRequests
            BY <2>6, <2>7, PageRequestIs, PageResponseIs DEF DeviceRequests
        <3> QED BY <2>6, <2>8, <3>1, RepliedOn, IInvChan
    <2>13. ListedOK'
        <3>1. Hears => Hears'
            BY <2>12, TrafficIs, OnSame, Nodes DEF Hears
        <3>2. Anywhere(Removed)' => Anywhere(Removed)
            BY <2>12, TrafficIs, OnSame
        <3> QED BY <1>3, <3>1, <3>2, ListedStays
    <2>14. \A d, a : Anywhere(Answers(d, a))' => Anywhere(Answers(d, a))
        <3>1. ASSUME NEW d, NEW a PROVE r \notin Answers(d, a)
            BY <2>6, PageResponseIs DEF Answers
        <3> QED BY <2>8, <3>1, RepliedOn, IInvChan
    <2>15. \A i \in CallIds : Pursued(i)' => Pursued(i) \/ r.id = i
        <3>1. ASSUME NEW i \in CallIds PROVE Anywhere(Of(i))' => Anywhere(Of(i)) \/ r.id = i
            BY <2>8, RepliedOn, IInvChan DEF Of
        <3> QED BY <1>3, <3>1 DEF Pursued, Queued
    <2>16. Served' \subseteq Served
        BY <2>4, <2>9, <2>11, <2>14 DEF Served, PagesStay
    <2>17. TurnOK'
        BY <1>3, <2>12, <2>16, TurnStays, IInvChan
    <2>18. CallsOK'
        <3>1. CASE PagesStay
            <4>1. \A i \in CallIds : Pursued(i)' => Pursued(i)
                <5>1. Emit(Injected, Content, Nothing)
                    BY <2>9, <3>1
                <5>2. ASSUME NEW i \in CallIds PROVE Anywhere(Of(i))' => Anywhere(Of(i))
                    BY <2>7, <5>1, OnTaken, IInvChan, Nodes DEF Anywhere
                <5> QED BY <1>3, <5>2 DEF Pursued, Queued
            <4> QED BY <3>1, <4>1, CallsStay
        <3>2. CASE page[c] = at /\ page'[c] = next /\ (next # "ready" => Emit(Injected, Content, To(Content, r)))
            <4>1. PagesMove
                BY <2>4, <2>9, <3>2 DEF PagesMove
            <4>2. InOrder'
                <5>1. page[c] # "none" /\ page'[c] # "none"
                    BY <2>4, <3>2
                <5> QED BY <2>9, <5>1 DEF InOrder, CallsOK
            <4>3. ASSUME NEW i \in CallIds, Pursued(i)'
                  PROVE  Pursued(i) \/ Reached(i)'
                <5>1. CASE next = "ready"
                    <6>1. PICK m : m = r.id
                        OBVIOUS
                    <6>2. r \notin Of(i) \/ i = m
                        BY <6>1 DEF Of
                    <6>3. Emit(Injected, Content, Nothing)
                        BY <2>7, <2>9, <3>2, <5>1
                    <6>4. Anywhere(Of(i))' => Anywhere(Of(i))
                        BY <2>7, <6>3, OnTaken, IInvChan, Nodes DEF Anywhere
                    <6> QED BY <1>3, <4>3, <6>4 DEF Pursued, Queued
                <5>2. CASE next # "ready"
                    <6>1. next \in {"PollRefresh1", "PollRefresh2"} /\ r.id = CallId(c, next)
                        BY <2>4, <2>6, <5>2
                    <6>2. r.id = i => Reached(i)'
                        <7>1. PICK n \in {"PollRefresh1", "PollRefresh2"} : n = next
                            BY <6>1
                        <7>2. CallId(c, n).caller = c /\ CallId(c, n).at = n
                            BY TrafficIs
                        <7>3. ASSUME r.id = i PROVE i.caller = c /\ i.at = n
                            BY <6>1, <7>1, <7>2, <7>3
                        <7>4. page'[c] = n
                            BY <3>2, <7>1
                        <7> QED BY <7>3, <7>4 DEF Reached
                    <6> QED BY <2>15, <4>3, <6>2
                <5> QED BY <5>1, <5>2
            <4> QED BY <4>1, <4>2, <4>3, CallsStep
        <3> QED BY <2>9, <3>1, <3>2
    <2>19. \A d \in Calls : Behinds(Answers(d, "PollRefresh2")) => Behinds(Answers(d, "PollRefresh2"))' /\ p \notin Answers(d, "PollRefresh2")
        BY <2>6, <2>8, RepliedBehind, IInvChan
    <2>20. CASE PagesStay
        <3>1. HidStep
            BY <1>3, HidStays
        <3> QED BY <1>3, <2>13, <2>14, <2>17, <2>18, <2>19, <2>20, <3>1, DueStays, AheadStays, ToldStays
    <2>21. CASE page[c] = at /\ page'[c] = next
        <3>1. \A d \in Calls : Concerned(d)' <=> Concerned(d)
            BY <1>3 DEF Concerned
        <3>2. Due' <=> Due
            BY <1>3 DEF Due
        \* What the call sends next it has not sent yet.
        <3>3. next # "ready" => ~Anywhere(Answers(c, next))
            <4> SUFFICES ASSUME next # "ready", Anywhere(Answers(c, next)) PROVE FALSE
                OBVIOUS
            <4>1. PICK n \in {"PollRefresh1", "PollRefresh2"} : n = next
                BY <2>4
            <4>2. CallId(c, n) \in CallIds /\ Answers(c, n) \subseteq Of(CallId(c, n))
                BY TrafficIs
            <4>3. Anywhere(Of(CallId(c, n)))
                BY <4>1, <4>2 DEF Anywhere, On
            <4>4. Reached(CallId(c, n))
                BY <4>2, <4>3 DEF CallsOK, Pursued
            <4>5. CallId(c, n).caller = c /\ CallId(c, n).at = n
                BY TrafficIs
            <4> QED BY <2>4, <2>21, <4>1, <4>4, <4>5 DEF Reached
        <3>4. DueOK'
            <4>1. ASSUME NEW d \in Calls, Due, Concerned(d)
                  PROVE  /\ page'[d] # "ready"
                         /\ page'[d] = "PollRefresh2" => ~Anywhere(Answers(d, "PollRefresh2"))'
                         /\ hid # "watch" => /\ page'[d] # "PollRefresh2"
                                             /\ page'[d] = "PollRefresh1" => ~Anywhere(Answers(d, "PollRefresh1"))'
                <5>1. CASE d # c
                    BY <2>9, <2>14, <4>1, <5>1 DEF DueOK
                <5>2. CASE d = c
                    <6>1. at # "PollRefresh2" /\ (hid # "watch" => at # "PollRefresh1")
                        BY <2>11, <2>21, <4>1, <5>2 DEF DueOK
                    <6> QED BY <2>4, <2>14, <2>21, <3>3, <5>2, <6>1
                <5> QED BY <5>1, <5>2
            <4> QED BY <1>3, <3>1, <3>2, <4>1 DEF DueOK
        <3>5. AheadOK'
            <4> SUFFICES ASSUME plugs' = 0 /\ listed' = TRUE /\ devices' # TRUE,
                                NEW d \in Calls, Concerned(d)', page'[d] = "PollRefresh2"
                         PROVE  Behinds(Answers(d, "PollRefresh2"))'
                BY DEF AheadOK
            <4>1. CASE d # c
                <5>1. Behinds(Answers(d, "PollRefresh2"))
                    BY <1>3, <2>9, <3>1, <4>1 DEF AheadOK
                <5> QED BY <2>19, <5>1
            <4>2. CASE d = c
                <5>1. ~Anywhere(Answers(d, "PollRefresh2"))'
                    BY <2>14, <2>21, <3>3, <4>2
                <5> QED BY <5>1, NoneBehind
            <4> QED BY <4>1, <4>2
        <3>6. ToldOK'
            <4> SUFFICES ASSUME plugs' = 0, NEW d \in Calls, Concerned(d)', page'[d] = "ready"
                         PROVE  devices' = TRUE
                BY DEF ToldOK
            <4>1. CASE d # c
                BY <1>3, <2>9, <3>1, <4>1 DEF ToldOK
            <4>2. CASE d = c
                <5>1. at = "PollRefresh2" /\ page[c] = "PollRefresh2" /\ Concerned(c) /\ granted # {}
                    BY <2>4, <2>21, <3>1, <4>2 DEF Concerned
                <5>2. ~Due
                    BY <2>11, <5>1 DEF DueOK
                <5>3. listed = TRUE
                    BY <1>3, <5>1, <5>2 DEF Due, IInv, App, PlacesOK
                <5>4. devices = TRUE
                    <6>1. ~Behinds(Answers(c, "PollRefresh2"))
                        BY <2>10, <2>19, <5>1
                    <6> QED BY <1>3, <5>1, <5>3, <6>1 DEF AheadOK
                <5> QED BY <1>3, <5>4
            <4> QED BY <4>1, <4>2
        <3> QED BY <2>13, <2>17, <2>18, <3>4, <3>5, <3>6
    <2> QED BY <2>9, <2>20, <2>21
<1> QED BY <1>4, <1>5

-----------------------------------------------------------------------------
(* hid() answers the page and goes on.                                       *)

\* It sends the replies to the background page, and out, which are no packets of the calls.
RepliesWith(from, replies, out) ==
    /\ replies \in Seq(PageResponses) /\ from \in {None, Background}
    /\ from = Background => chan[from][Native] # <<>> /\ Head(chan[from][Native]) \notin PageTraffic
    /\ Emit(Native, from, ToPage(replies) ++ out)
    /\ ToPage(replies) = [Nothing EXCEPT ![Background] = replies]
    /\ Lacks(PageTraffic, out)

LEMMA JoinedIsSequence ==
    ASSUME NEW s, NEW t, IsSequence(s), IsSequence(t)
    PROVE  /\ IsSequence(Joined(s, t))
           /\ \A i \in 1..Len(Joined(s, t)) :
                  \/ i \in 1..Len(s) /\ Joined(s, t)[i] = s[i]
                  \/ i - Len(s) \in 1..Len(t) /\ Joined(s, t)[i] = t[i - Len(s)]
<1>1. PICK S : s \in Seq(S)
    BY Zenon DEF IsSequence
<1>2. PICK T : t \in Seq(T)
    BY Zenon DEF IsSequence
<1> DEFINE U == S \cup T
<1>3. s \in Seq(U) /\ t \in Seq(U)
    BY <1>1, <1>2
<1> HIDE DEF U
<1>4. Joined(s, t) \in Seq(U)
    BY <1>3, JoinedIs
<1>5. IsSequence(Joined(s, t))
    BY <1>4, Zenon DEF IsSequence
<1>6. /\ Len(Joined(s, t)) = Len(s) + Len(t) /\ Len(s) \in Nat /\ Len(t) \in Nat
      /\ \A i \in 1..Len(s) : Joined(s, t)[i] = s[i]
      /\ \A i \in 1..Len(Joined(s, t)) :
             i > Len(s) => i - Len(s) \in 1..Len(t) /\ Joined(s, t)[i] = t[i - Len(s)]
    BY <1>3, JoinedElements
<1> QED BY <1>5, <1>6

LEMMA RepliesAre ==
    ASSUME NEW from, NEW replies, NEW out, RepliesWith(from, replies, out)
    PROVE  /\ \A y \in Address : IsSequence(ToPage(replies)[y])
           /\ \A y \in Address : \A i \in 1..Len(ToPage(replies)[y]) : y = Background /\ ToPage(replies)[y] = replies
           /\ IsSequence(replies) /\ \A i \in 1..Len(replies) : replies[i] \in PageResponses
<1> DEFINE P == PageResponses
<1>1. replies \in Seq(P) /\ ToPage(replies) = [Nothing EXCEPT ![Background] = replies]
    BY DEF RepliesWith
<1> HIDE DEF P
<1>2. IsSequence(replies)
    BY <1>1, Zenon DEF IsSequence
<1>3. \A i \in 1..Len(replies) : replies[i] \in P
    BY <1>1
<1>4. \A y \in Address : ToPage(replies)[y] = IF y = Background THEN replies ELSE <<>>
    BY <1>1 DEF Nothing
<1>5. IsSequence(<<>>) /\ \A i \in 1..Len(<<>>) : FALSE
    BY NothingIsSequence
<1> QED BY <1>2, <1>3, <1>4, <1>5 DEF P

LEMMA RepliesOn ==
    ASSUME ChanOK, NEW from, NEW replies, NEW out, RepliesWith(from, replies, out), NEW K, K \subseteq PageTraffic
    PROVE  /\ \A x, y \in Address : On(x, y, K)' =>
                  On(x, y, K) \/ (x = Native /\ y = Background /\ \E i \in 1..Len(replies) : replies[i] \in K)
           /\ \A x, y \in Address : On(x, y, K) => On(x, y, K)'
           /\ (\A i \in 1..Len(replies) : replies[i] \notin K) => Same(K)
<1> DEFINE all == ToPage(replies) ++ out
<1>1. /\ from # Native /\ Native \in Address /\ Emit(Native, from, all)
      /\ from \in Address => chan[from][Native] # <<>> /\ Head(chan[from][Native]) \notin K
    BY Nodes DEF RepliesWith
<1>2. ASSUME NEW y \in Address
      PROVE  /\ IsSequence(all[y])
             /\ \A i \in 1..Len(all[y]) : all[y][i] \in K =>
                    y = Background /\ \E j \in 1..Len(replies) : replies[j] \in K
    <2> DEFINE s == ToPage(replies)[y]
               t == out[y]
    <2>1. all[y] = Joined(s, t)
        BY Outs
    <2>2. IsSequence(s) /\ \A i \in 1..Len(s) : y = Background /\ s = replies
        BY RepliesAre
    <2>3. IsSequence(t) /\ \A i \in 1..Len(t) : t[i] \notin K
        BY DEF RepliesWith, Lacks
    <2> HIDE DEF s, t
    <2>4. IsSequence(Joined(s, t))
        BY <2>2, <2>3, JoinedIsSequence
    <2>5. \A i \in 1..Len(Joined(s, t)) : Joined(s, t)[i] \in K => y = Background /\ \E j \in 1..Len(replies) : replies[j] \in K
        BY <2>2, <2>3, JoinedIsSequence
    <2> QED BY <2>1, <2>4, <2>5
<1> HIDE DEF all
<1>3. /\ \A x, y \in Address : On(x, y, K)' =>
             On(x, y, K) \/ (x = Native /\ \E i \in 1..Len(all[y]) : all[y][i] \in K)
      /\ \A x, y \in Address : On(x, y, K) =>
             On(x, y, K)' \/ (x = from /\ y = Native /\ Head(chan[from][Native]) \in K)
      /\ \A y \in Address : \A i \in 1..Len(all[y]) : all[y][i] \in K => On(Native, y, K)'
    <2>1. (from \in Address => chan[from][Native] # <<>>) /\ \A y \in Address : IsSequence(all[y])
        BY <1>1, <1>2
    <2> QED BY <1>1, <2>1, OnEmit, Zenon
<1>4. ASSUME \A i \in 1..Len(replies) : replies[i] \notin K
      PROVE  Same(K)
    <2>1. Lacks(K, all)
        BY <1>2, <1>4 DEF Lacks
    <2> QED BY <1>1, <2>1, SameEmit
<1> QED BY <1>1, <1>2, <1>3, <1>4

\* The page hears of the device before it gets the replies.
LEMMA RepliesBehind ==
    ASSUME ChanOK, NEW from, NEW replies, NEW out, RepliesWith(from, replies, out), NEW K, K \subseteq PageTraffic,
           Behinds(K), Hears
    PROVE  Behinds(K)'
<1>1. \A x, y \in Address : On(x, y, Added) => On(x, y, Added)'
    <2>1. Added \subseteq PageTraffic
        BY DEF Added, PageTraffic, Notices, Notification
    <2> QED BY <2>1, RepliesOn
<1>2. PICK all : all = ToPage(replies) ++ out
    OBVIOUS
<1>3. /\ \A y \in Address : chan'[Native][y] = Joined(chan[Native][y], all[y])
      /\ \A x, y \in Address : x # Native /\ ~(x = from /\ y = Native) => chan'[x][y] = chan[x][y]
    <2>1. from # Native /\ Native \in Address /\ Emit(Native, from, all)
        BY <1>2, Nodes DEF RepliesWith
    <2>2. ASSUME NEW f, f = from
          PROVE  /\ \A y \in Address : chan'[Native][y] = Joined(chan[Native][y], all[y])
                 /\ f \in Address => chan'[f][Native] = Rest(chan[f][Native])
                 /\ \A x, y \in Address : x # Native /\ ~(x = f /\ y = Native) => chan'[x][y] = chan[x][y]
        <3>1. f # Native /\ Native \in Address /\ Emit(Native, f, all)
            BY <2>1, <2>2
        <3> QED BY <3>1, EmitLinks, Zenon
    <2> QED BY <2>2
<1>4. chan'[Content][Injected] = chan[Content][Injected] /\ chan'[Background][Content] = chan[Background][Content]
    BY <1>3, Nodes
<1>5. \/ On(Content, Injected, Added) \/ On(Background, Content, Added)
      \/ Behind(chan'[Native][Background], K, Added)
    <2>1. CASE On(Content, Injected, Added) \/ On(Background, Content, Added)
        BY <2>1
    <2>2. CASE On(Native, Background, Added) /\ Behind(chan[Native][Background], K, Added)
        <3> DEFINE q == chan[Native][Background]
                   o == all[Background]
        <3>1. q \in Seq(PacketsOn(Native, Background)) /\ Behind(q, K, Added)
            BY <2>2, PortIs, Nodes
        <3>2. \E i \in 1..Len(q) : q[i] \in Added
            BY <2>2 DEF On, Carried
        <3>3. IsSequence(o)
            <4>1. IsSequence(ToPage(replies)[Background]) /\ IsSequence(out[Background])
                BY RepliesAre, Nodes DEF RepliesWith, Lacks
            <4>2. o = Joined(ToPage(replies)[Background], out[Background])
                BY <1>2, Outs, Nodes
            <4> HIDE DEF o
            <4> QED BY <4>1, <4>2, JoinedIsSequence
        <3>4. chan'[Native][Background] = Joined(q, o)
            BY <1>3, Nodes
        <3> HIDE DEF q, o
        <3>5. Behind(Joined(q, o), K, Added)
            BY <3>1, <3>2, <3>3, BehindJoined
        <3> QED BY <3>4, <3>5
    <2> QED BY <2>1, <2>2 DEF Hears, Behinds
<1> QED BY <1>1, <1>4, <1>5, Nodes DEF Behinds, Behind

LEMMA SubSeqIs ==
    ASSUME NEW S, NEW q \in Seq(S), NEW n \in 0..Len(q)
    PROVE  \A k \in 1..Len(SubSeq(q, n + 1, Len(q))) : \E m \in 1..Len(q) : SubSeq(q, n + 1, Len(q))[k] = q[m]
<1>1. Len(q) \in Nat /\ n \in Nat /\ n <= Len(q)
    OBVIOUS
<1> DEFINE r == SubSeq(q, n + 1, Len(q))
<1>2. r = [k \in 1..(Len(q) - n) |-> q[n + k]]
    BY <1>1
<1>3. Len(r) = Len(q) - n
    BY <1>1, <1>2
<1>4. ASSUME NEW k \in 1..Len(r) PROVE n + k \in 1..Len(q) /\ r[k] = q[n + k]
    BY <1>1, <1>2, <1>3
<1> QED BY <1>4

\* Each reply answers a request that waits.
Repays(reply, late, waiting, replies) ==
    /\ \A i \in 1..Len(replies) : replies[i] = reply \/ \E k \in 1..Len(waiting) : replies[i].id = waiting[k].id
    /\ \A k \in 1..Len(poll_refresh') : \E m \in 1..Len(waiting) : poll_refresh'[k] = waiting[m]
    /\ elapsed' = late /\ hid' # "approved" /\ (late => hid' \in {"watch", "OpenPopup"})
    /\ hid' = "OpenPopup" => request_device' # <<>>

LEMMA ResumedIs ==
    ASSUME IInv, ~Early, NEW reply \in PageResponses, NEW from \in {None, Background}, NEW late,
           NEW waiting \in PollQueue, Resume(reply, from, late, waiting),
           from = Background => chan[from][Native] # <<>> /\ Head(chan[from][Native]) \in AskPackets
    PROVE  \E replies, out : RepliesWith(from, replies, out) /\ Repays(reply, late, waiting, replies)
<1>1. elapsed' = late /\ Resumes(reply, from, late, waiting)
    BY ResumeIs
<1>2. PICK n \in 0..Len(waiting), replies \in Seq(PageResponses) :
          /\ replies = <<reply>> \o Refreshes(waiting, n)
          /\ Emit(Native, from, ToPage(replies) ++ AskedThen) /\ Goes(n, late)
          /\ poll_refresh' = SubSeq(waiting, n + 1, Len(waiting))
          /\ ToPage(replies) = [Nothing EXCEPT ![Background] = replies]
    BY <1>1 DEF Resumes
<1>3. PICK out : out = AskedThen
    OBVIOUS
<1>4. Lacks(PageTraffic, out)
    <2>1. \A p : p \in NativeRequests => p \notin PageTraffic
        BY TrafficElsewhere DEF AskPackets
    <2>2. /\ Ask("StorageGet", Background, "allowed") \in NativeRequests
          /\ Ask("OpenPopup", Background, "popup") \in NativeRequests
        BY AsksIs
    <2> QED BY <1>3, <2>1, <2>2, LacksNothing, LacksTo DEF AskedThen
<1>5. RepliesWith(from, replies, out)
    <2>1. from = Background => chan[from][Native] # <<>> /\ Head(chan[from][Native]) \notin PageTraffic
        BY TrafficElsewhere
    <2> QED BY <1>2, <1>3, <1>4, <2>1 DEF RepliesWith
<1>6. Len(waiting) \in Nat /\ \E S : waiting \in Seq(S)
    BY DEF PollQueue, Queue
<1>7. \A i \in 1..Len(replies) : replies[i] = reply \/ \E k \in 1..Len(waiting) : replies[i].id = waiting[k].id
    <2> DEFINE s == Refreshes(waiting, n)
    <2>1. n \in Nat /\ s = [k \in 1..n |-> Reply("PollRefresh", waiting[k].id, TRUE)]
        BY <1>6 DEF Refreshes
    <2>2. \A k \in 1..n : s[k].id = waiting[k].id /\ k \in 1..Len(waiting)
        BY <1>6, <2>1 DEF Reply, Response
    <2>3. Len(s) = n /\ IsSequence(s)
        <3>1. PICK T : T = {Reply("PollRefresh", waiting[k].id, TRUE) : k \in 1..n}
            OBVIOUS
        <3>2. s \in Seq(T)
            <4>1. n \in Nat /\ s = [k \in 1..n |-> s[k]]
                BY <2>1
            <4>2. ASSUME NEW k \in 1..n PROVE s[k] \in T
                BY <2>1, <3>1
            <4> HIDE DEF s
            <4> QED BY <4>1, <4>2
        <3>3. Len(s) = n
            BY <2>1
        <3>4. IsSequence(s)
            BY <3>2, Zenon DEF IsSequence
        <3> QED BY <3>3, <3>4
    <2>4. IsSequence(<<reply>>) /\ \A i \in 1..Len(<<reply>>) : <<reply>>[i] = reply
        BY OneIsSequence
    <2> HIDE DEF s
    <2>5. \A i \in 1..Len(Joined(<<reply>>, s)) :
              \/ i \in 1..Len(<<reply>>) /\ Joined(<<reply>>, s)[i] = <<reply>>[i]
              \/ i - Len(<<reply>>) \in 1..Len(s) /\ Joined(<<reply>>, s)[i] = s[i - Len(<<reply>>)]
        BY <2>3, <2>4, JoinedIsSequence
    <2>6. replies = Joined(<<reply>>, s)
        BY <1>2 DEF Joined, s
    <2> QED BY <2>2, <2>3, <2>4, <2>5, <2>6
<1>8. \A k \in 1..Len(poll_refresh') : \E m \in 1..Len(waiting) : poll_refresh'[k] = waiting[m]
    <2>1. PICK S : waiting \in Seq(S)
        BY <1>6
    <2>2. \A k \in 1..Len(SubSeq(waiting, n + 1, Len(waiting))) :
              \E m \in 1..Len(waiting) : SubSeq(waiting, n + 1, Len(waiting))[k] = waiting[m]
        BY <2>1, SubSeqIs
    <2> QED BY <1>2, <2>2
<1>9. hid' # "approved" /\ (late => hid' \in {"watch", "OpenPopup"}) /\ (hid' = "OpenPopup" => request_device' # <<>>)
    BY <1>2 DEF Goes
<1> QED BY <1>1, <1>5, <1>7, <1>8, <1>9 DEF Repays

\* What does not depend on which of those that wait are answered.
LEMMA RepliesKeep ==
    ASSUME IInv, ChanOK', MostCallInv, NEW from, NEW replies, NEW out, RepliesWith(from, replies, out),
           UNCHANGED <<page, granted, devices, storage, listed, plugs>>,
           \A i \in 1..Len(replies) : Queued(replies[i].id), \A i : Queued(i)' => Queued(i)
    PROVE  CallsOK' /\ ListedOK' /\ AheadOK' /\ ToldOK' /\ Same(DeviceRequests) /\ PagesStay
<1> USE DEF MostCallInv
<1>1. PagesStay
    BY PagesQuiet
<1>2. ASSUME NEW i \in CallIds, Pursued(i)'
      PROVE  Pursued(i)
    <2>1. Anywhere(Of(i))' => Anywhere(Of(i)) \/ \E j \in 1..Len(replies) : replies[j] \in Of(i)
        <3>1. Of(i) \subseteq PageTraffic
            BY CallIdIs
        <3> QED BY <3>1, RepliesOn, IInvChan DEF Anywhere
    <2>2. ASSUME NEW j \in 1..Len(replies), replies[j] \in Of(i) PROVE Queued(i)
        <3>1. replies[j].id = i
            BY <2>2 DEF Of
        <3> QED BY <3>1
    <2> QED BY <1>2, <2>1, <2>2 DEF Pursued
<1>3. CallsOK'
    BY <1>1, <1>2, CallsStay
<1>4. /\ Notices \subseteq PageTraffic /\ DeviceRequests \subseteq PageTraffic
      /\ Added \subseteq Notices /\ Removed \subseteq Notices
    BY DEF DeviceRequests, PageTraffic, Added, Removed, Notices, Notification
<1>5. \A i \in 1..Len(replies) : replies[i] \notin Notices /\ replies[i] \notin DeviceRequests
    <2>1. \A p \in PageResponses : p \notin Notices /\ p \notin DeviceRequests
        BY PageResponseIs DEF DeviceRequests
    <2> QED BY <2>1, RepliesAre
<1>6. Same(Notices) /\ Same(DeviceRequests)
    BY <1>4, <1>5, RepliesOn, IInvChan
<1>7. ListedOK'
    <2>1. Hears' <=> Hears
        BY <1>4, <1>6, OnSame, Nodes DEF Hears
    <2>2. Anywhere(Removed)' <=> Anywhere(Removed)
        BY <1>4, <1>6, OnSame
    <2> QED BY <2>1, <2>2, ListedStays
<1>8. AheadOK'
    <2> SUFFICES ASSUME plugs' = 0 /\ listed' = TRUE /\ devices' # TRUE,
                        NEW c \in Calls, Concerned(c)', page'[c] = "PollRefresh2"
                 PROVE  Behinds(Answers(c, "PollRefresh2"))'
        BY DEF AheadOK
    <2>1. Concerned(c) /\ plugs = 0 /\ listed = TRUE /\ devices # TRUE /\ page[c] = "PollRefresh2"
        BY DEF Concerned
    <2>2. Behinds(Answers(c, "PollRefresh2"))
        BY <2>1 DEF AheadOK
    <2>3. Hears
        BY <2>1 DEF ListedOK
    <2>4. Answers(c, "PollRefresh2") \subseteq PageTraffic
        BY TrafficIs
    <2> QED BY <2>2, <2>3, <2>4, RepliesBehind, IInvChan
<1>9. ToldOK'
    BY <1>1, ToldStays
<1> QED BY <1>1, <1>3, <1>6, <1>7, <1>8, <1>9

LEMMA PollsAre ==
    ASSUME IInv, NEW k \in 1..Len(poll_refresh)
    PROVE  poll_refresh[k].id \in PageIds /\ poll_refresh[k].id.at \in {"PollRefresh", "PollRefresh1", "PollRefresh2"}
<1> DEFINE S == [id : IdsAt({"PollRefresh", "PollRefresh1", "PollRefresh2"}), refreshed : BOOLEAN]
<1>1. poll_refresh \in Seq(S) /\ \A e \in S : e.id \in IdsAt({"PollRefresh", "PollRefresh1", "PollRefresh2"})
    BY DEF IInv, App, QueuesOK, Queue
<1> HIDE DEF S
<1>2. poll_refresh[k] \in S
    BY <1>1
<1> QED BY <1>1, <1>2 DEF IdsAt

\* A reply to a PollRefresh is not the one to a RequestDevice.
LEMMA NoneServed ==
    ASSUME ChanOK, NEW from, NEW replies, NEW out, RepliesWith(from, replies, out), UNCHANGED page,
           NEW b, \A i \in 1..Len(replies) : replies[i].id.at = "RequestDevice" => replies[i].id.caller = b
    PROVE  Served' \subseteq Served \cup {b}
<1>1. ASSUME NEW c \in Calls, Anywhere(Answers(c, "RequestDevice"))'
      PROVE  Anywhere(Answers(c, "RequestDevice")) \/ c = b
    <2>1. \/ Anywhere(Answers(c, "RequestDevice"))
          \/ \E i \in 1..Len(replies) : replies[i] \in Answers(c, "RequestDevice")
        <3>1. Answers(c, "RequestDevice") \subseteq PageTraffic
            BY TrafficIs
        <3> QED BY <1>1, <3>1, RepliesOn DEF Anywhere
    <2>2. ASSUME NEW i \in 1..Len(replies), replies[i] \in Answers(c, "RequestDevice")
          PROVE  c = b
        <3>1. replies[i].id = CallId(c, "RequestDevice")
            BY <2>2 DEF Answers
        <3>2. CallId(c, "RequestDevice").caller = c /\ CallId(c, "RequestDevice").at = "RequestDevice"
            BY TrafficIs
        <3> QED BY <3>1, <3>2
    <2> QED BY <2>1, <2>2
<1> QED BY <1>1 DEF Served

LEMMA SelectPollRefreshCalls ==
    ASSUME IInv, ChanOK', MostCallInv, SelectPollRefresh, UNCHANGED usb
    PROVE  MostCallInv'
<1> USE DEF MostCallInv
<1>1. PICK reply : reply = Reply("PollRefresh", Head(poll_refresh).id, TRUE)
    OBVIOUS
<1>2. PICK waiting : waiting = Tail(poll_refresh)
    OBVIOUS
<1>3. /\ hid = "process_requests" /\ poll_refresh # <<>> /\ Resume(reply, None, elapsed, waiting)
      /\ UNCHANGED <<page, granted, devices, storage, listed, plugs, request_device>>
    BY <1>1, <1>2 DEF SelectPollRefresh, pageVars, usb
<1>4. /\ Len(poll_refresh) \in Nat /\ 1 \in 1..Len(poll_refresh) /\ poll_refresh[1] = Head(poll_refresh)
      /\ \A k \in 1..Len(waiting) : k + 1 \in 1..Len(poll_refresh) /\ waiting[k] = poll_refresh[k + 1]
    <2>1. PICK S : poll_refresh \in Seq(S)
        BY QueuesAre
    <2> QED BY <1>2, <1>3, <2>1, RestElements DEF Rest
<1>5. waiting \in PollQueue
    BY <1>2, <1>3, TailOf DEF IInv, App, QueuesOK, Queue, PollQueue
<1>6. reply \in PageResponses /\ reply.id = poll_refresh[1].id
    <2>1. Head(poll_refresh).id \in PageIds
        BY <1>4, PollsAre
    <2>2. reply \in PageResponses
        BY <1>1, <2>1, ReplyIs DEF RequestNames
    <2> QED BY <1>1, <1>4, <2>2 DEF Reply, Response
<1>7. ~Early /\ None # Background
    BY <1>3, Nodes DEF Early
<1>8. PICK replies, out : RepliesWith(None, replies, out) /\ Repays(reply, elapsed, waiting, replies)
    BY <1>3, <1>5, <1>6, <1>7, ResumedIs
<1>9. \A i \in 1..Len(replies) : \E k \in 1..Len(poll_refresh) : replies[i].id = poll_refresh[k].id
    BY <1>4, <1>6, <1>8 DEF Repays
<1>10. \A i : Queued(i)' => Queued(i)
    <2>1. \A k \in 1..Len(poll_refresh') : \E m \in 1..Len(waiting) : poll_refresh'[k] = waiting[m]
        BY <1>8 DEF Repays
    <2>2. \A k \in 1..Len(poll_refresh') : \E m \in 1..Len(poll_refresh) : poll_refresh'[k] = poll_refresh[m]
        BY <1>4, <2>1
    <2>3. request_device' = request_device
        BY <1>3
    <2> QED BY <2>2, <2>3 DEF Queued
<1>11. CallsOK' /\ ListedOK' /\ AheadOK' /\ ToldOK' /\ Same(DeviceRequests)
    <2>1. \A i \in 1..Len(replies) : Queued(replies[i].id)
        BY <1>9 DEF Queued
    <2> QED BY <1>3, <1>8, <1>10, <2>1, RepliesKeep
<1>12. TurnOK'
    <2>1. \A i \in 1..Len(replies) : replies[i].id.at # "RequestDevice"
        BY <1>9, PollsAre
    <2>2. \A b : Served' \subseteq Served \cup {b}
        BY <1>3, <1>8, <2>1, NoneServed, IInvChan
    <2>3. Served' \subseteq Served \cup {Native} /\ Served' \subseteq Served \cup {None} /\ Native # None
        BY <2>2, Nodes
    <2>4. Served' \subseteq Served
        BY <2>3
    <2> QED BY <1>3, <1>11, <2>4, TurnStays, IInvChan
<1>13. DueOK'
    <2>1. ~Due' /\ hid' # "approved"
        BY <1>3, <1>8, NoDueElsewhere DEF Due, Repays
    <2> QED BY <2>1 DEF DueOK
<1> QED BY <1>11, <1>12, <1>13

\* The request at hand is answered; while the device is due, another popup cannot
\* be next unless three calls are pending.
LEMMA AnsweredCalls ==
    ASSUME IInv, ChanOK', AsksInv, TwoAtOnce, MostCallInv, NEW ok \in BOOLEAN, NEW late,
           NEW pc \in {"OpenPopup", "RequestAccess", "StorageSet"}, NEW name, Awaited(pc, name),
           Answered(ok, late), elapsed = TRUE => late = TRUE,
           UNCHANGED <<page, granted, devices, storage, listed, plugs>>
    PROVE  MostCallInv'
<1> USE DEF MostCallInv, AsksInv
<1>1. PICK reply : reply = Reply("RequestDevice", Head(request_device).id, ok)
    OBVIOUS
<1>2. Resume(reply, Background, late, poll_refresh) /\ request_device' = Tail(request_device)
    BY <1>1 DEF Answered
<1>3. chan[Background][Native] # <<>> /\ Head(chan[Background][Native]) \in AskPackets /\ hid = pc
    BY AwaitedAsks
<1>4. request_device # <<>> /\ ~Early
    BY <1>3 DEF IInv, App, QueuesOK, Early
<1>5. PICK b : b = Head(request_device).id.caller
    OBVIOUS
<1>6. /\ b \in Waiters /\ b \in Calls /\ Head(request_device).id = CallId(b, "RequestDevice")
      /\ 1 \in 1..Len(request_device) /\ request_device[1] = Head(request_device)
      /\ CallId(b, "RequestDevice").caller = b /\ CallId(b, "RequestDevice").at = "RequestDevice"
      /\ CallId(b, "RequestDevice") \in CallIds
    BY <1>4, <1>5, AtHandIs, TrafficIs
<1>7. reply \in PageResponses /\ reply.id = CallId(b, "RequestDevice")
    <2>1. Head(request_device).id \in PageIds
        BY <1>6 DEF CallIds
    <2>2. reply \in PageResponses
        BY <1>1, <2>1, ReplyIs DEF RequestNames
    <2> QED BY <1>1, <1>6, <2>2 DEF Reply, Response
<1>8. poll_refresh \in PollQueue
    BY DEF IInv, App, QueuesOK, PollQueue
<1>9. PICK replies, out : RepliesWith(Background, replies, out) /\ Repays(reply, late, poll_refresh, replies)
    BY <1>2, <1>3, <1>4, <1>7, <1>8, ResumedIs
<1>10. \A i \in 1..Len(replies) :
           replies[i] = reply \/ \E k \in 1..Len(poll_refresh) : replies[i].id = poll_refresh[k].id
    BY <1>9 DEF Repays
<1>11. PICK S : request_device \in Seq(S)
    BY QueuesAre
<1>12. /\ Rest(request_device) = request_device' /\ request_device' \in Seq(S) /\ Len(request_device) \in Nat
       /\ Len(request_device') = Len(request_device) - 1
       /\ \A k \in 1..Len(request_device') :
              k + 1 \in 1..Len(request_device) /\ request_device'[k] = request_device[k + 1]
    BY <1>2, <1>4, <1>11, RestElements DEF Rest
<1>13. \A i : Queued(i)' => Queued(i)
    BY <1>9, <1>12 DEF Queued, Repays
<1>14. CallsOK' /\ ListedOK' /\ AheadOK' /\ ToldOK' /\ Same(DeviceRequests)
    <2>1. \A i \in 1..Len(replies) : Queued(replies[i].id)
        BY <1>6, <1>7, <1>10 DEF Queued
    <2> QED BY <1>9, <1>13, <2>1, RepliesKeep
<1>15. Precedes /\ SortedPorts
    BY TurnIs
<1>16. \A k \in 1..Len(request_device') : request_device'[k].id.caller \in Waiters /\ b < request_device'[k].id.caller
    <2> TAKE k \in 1..Len(request_device')
    <2>1. k + 1 \in 1..Len(request_device) /\ request_device'[k] = request_device[k + 1] /\ 1 < k + 1
        BY <1>12
    <2>2. request_device[1].id.caller < request_device[k + 1].id.caller
        BY <1>6, <1>15, <2>1 DEF SortedPorts, InTurn
    <2> QED BY <1>5, <1>6, <2>1, <2>2 DEF Waiters
<1>17. TurnOK'
    <2>1. SortedPorts'
        <3>1. InTurn(request_device')
            <4>1. ASSUME NEW i \in 1..Len(request_device'), NEW j \in 1..Len(request_device'), i < j
                  PROVE  request_device'[i].id.caller < request_device'[j].id.caller
                <5>1. /\ i + 1 \in 1..Len(request_device) /\ request_device'[i] = request_device[i + 1]
                      /\ j + 1 \in 1..Len(request_device) /\ request_device'[j] = request_device[j + 1] /\ i + 1 < j + 1
                    BY <1>12, <4>1
                <5> QED BY <1>15, <5>1 DEF SortedPorts, InTurn
            <4> QED BY <4>1 DEF InTurn
        <3>2. /\ Sorted(chan'[Background][Native]) /\ Sorted(chan'[Content][Background])
              /\ Sorted(chan'[Injected][Content])
            BY <1>14, <1>15, SortedStays, IInvChan, Nodes DEF SortedPorts
        <3> QED BY <3>1, <3>2 DEF SortedPorts, Sorted, InTurn
    <2>2. Served' \subseteq Served \cup {b}
        <3>1. \A i \in 1..Len(replies) : replies[i].id.at = "RequestDevice" => replies[i].id.caller = b
            BY <1>6, <1>7, <1>10, PollsAre
        <3> QED BY <1>9, <3>1, NoneServed, IInvChan
    <2>3. \A c \in Waiters' : c \in Waiters /\ b < c
        BY <1>16 DEF Waiters
    <2>4. \A x, y \in Address : Asking(x, y)' = Asking(x, y)
        BY <1>14, AskingStays
    <2>5. /\ b \in Stage(1) /\ \A c \in Stage(1)' : c \in Stage(1) /\ b < c
          /\ Stage(0)' \subseteq Stage(0) \cup {b}
          /\ \A k \in {2, 3, 4} : Stage(k)' \subseteq Stage(k)
        BY <1>6, <2>2, <2>3, <2>4, StageIs, StageThen, Nodes DEF StagesAre
    <2>6. 1 \in 1..4 /\ 1 - 1 = 0 /\ \A k \in 0..4 : k # 1 /\ k # 0 => k \in {2, 3, 4}
        OBVIOUS
    <2> QED BY <2>1, <2>5, <2>6, TurnMoves
<1>18. ASSUME Due
       PROVE  late = TRUE /\ hid' \in {"watch", "OpenPopup"} /\ hid # "watch"
    BY <1>3, <1>9, <1>18 DEF DueOK, Repays
\* Were a second call waiting, a third is concerned.
<1>19. ASSUME hid' = "OpenPopup", NEW c \in Calls, page[c] = "PollRefresh1"
       PROVE  FALSE
    <2>1. request_device' # <<>>
        BY <1>9, <1>19 DEF Repays
    <2>2. 1 \in 1..Len(request_device')
        BY <1>12, <2>1
    <2>3. PICK s : s = request_device'[1].id.caller
        OBVIOUS
    <2>4. s \in Waiters /\ b < s
        BY <1>16, <2>2, <2>3
    <2>5. c \in Served
        BY <1>19 DEF Served
    <2>6. c < b /\ c < s
        <3>1. 0 \in 0..4 /\ 1 \in 0..4 /\ 0 < 1
            OBVIOUS
        <3> QED BY <1>6, <1>15, <2>4, <2>5, <3>1, StageIs DEF Precedes, StagesAre
    <2>7. s \in Calls
        <3>1. 1 \in 0..4 /\ s \in Stage(1)
            BY <2>4, StageIs DEF StagesAre
        <3> QED BY <3>1, StagedIs
    <2>8. Pending(b) /\ Pending(s) /\ Pending(c)
        BY <1>6, <1>19, <2>4 DEF Pending
    <2>9. b = s \/ s = c \/ b = c
        BY <1>6, <1>19, <2>7, <2>8 DEF TwoAtOnce
    <2>10. b \in Int /\ s \in Int /\ c \in Int
        BY <1>6, <2>7 DEF Calls, Caller
    <2> QED BY <2>4, <2>6, <2>9, <2>10
<1>20. DueOK'
    <2>1. (Due' <=> Due) /\ \A c \in Calls : Concerned(c)' <=> Concerned(c)
        BY DEF Due, Concerned
    <2>2. ASSUME NEW c \in Calls, Due, Concerned(c)
          PROVE  page'[c] \notin {"ready", "PollRefresh2"}
        BY <1>18, <2>2 DEF DueOK
    <2>3. Due => elapsed' = TRUE /\ hid' \in AfterSelect
        BY <1>9, <1>18 DEF Repays, AfterSelect
    <2>4. ASSUME NEW c \in Calls, Due, hid' # "watch" PROVE page'[c] # "PollRefresh1"
        BY <1>18, <1>19, <2>4
    <2>5. hid' # "approved"
        BY <1>9 DEF Repays
    <2> QED BY <2>1, <2>2, <2>3, <2>4, <2>5 DEF DueOK
<1> QED BY <1>14, <1>17, <1>20

LEMMA AnsweringCalls ==
    ASSUME IInv, ChanOK', AsksInv, TwoAtOnce, MostCallInv, PopupFailed \/ AllowedStored, UNCHANGED usb
    PROVE  MostCallInv'
<1>1. UNCHANGED <<page, granted, devices, storage, listed, plugs>>
    BY DEF PopupFailed, AllowedStored, pageVars, usb
<1>2. CASE PopupFailed
    <2>1. PICK pc \in {"OpenPopup", "RequestAccess"} : Awaited(pc, pc)
        BY <1>2 DEF PopupFailed
    <2>2. PICK late \in {elapsed, TRUE} : Answered(FALSE, late)
        BY <1>2 DEF PopupFailed
    <2> QED BY <1>1, <2>1, <2>2, AnsweredCalls
<1>3. CASE AllowedStored
    BY <1>1, <1>3, AnsweredCalls DEF AllowedStored
<1> QED BY <1>2, <1>3

-----------------------------------------------------------------------------
(* All steps.                                                                *)

LEMMA PlugsKept ==
    ASSUME IInv, PlugsOK, [Next]_vars
    PROVE  PlugsOK'
<1>1. seen' = seen \/ seen' = plugged
    <2>1. CASE Network
        BY <2>1 DEF Network, OnAddForwarded, OnRemoveForwarded, Forward, nativeVars
    <2>2. CASE Browser
        <3>1. CASE ContentOnConnect \/ BackgroundOnConnect \/ OpenNative \/ StorageGet \/ StorageSet \/ OpenPopup
            BY <3>1 DEF ContentOnConnect, BackgroundOnConnect, OpenNative, StorageGet, StorageSet, OpenPopup, nativeVars
        <3>2. CASE PopupOnConnect \/ PopupOpeningTimeout \/ RemovePopup
            BY <3>2 DEF PopupOnConnect, PopupOpeningTimeout, RemovePopup, nativeVars
        <3>3. CASE AnswerAccess \/ DismissPopup \/ DiscardForPopup
            BY <3>3 DEF AnswerAccess, DismissPopup, Closes, DiscardForPopup, nativeVars
        <3> QED BY <2>2, <3>1, <3>2, <3>3 DEF Browser
    <2>3. CASE Process
        BY <2>3 DEF Process, NativeMain, NativeRequest, OpenFromInject, Helo, SubscribeHid, WatchDevices, SelectDelay,
                    SelectPollRefresh, SelectRequestDevice, PopupFailed, PopupOpened, RequestAccess, AccessGiven,
                    ExtendAllowed, AllowedStored, nativeVars
    <2>4. CASE Page \/ Delay \/ \E c \in Caller : PageTimeout(c) \/ requestDevice(c)
        BY <2>4 DEF Page, Delay, WaitForBackground, PageAnswer, AddedDevice, RemovedDevice, PageTimeout,
                    requestDevice, nativeVars
    <2>5. CASE Plug \/ UNCHANGED vars
        BY <2>5 DEF Plug, vars, nativeVars
    <2> QED BY <2>1, <2>2, <2>3, <2>4, <2>5 DEF Next
<1>2. CASE UNCHANGED usb
    BY <1>1, <1>2 DEF PlugsOK, usb
<1>3. CASE Plug
    BY <1>3 DEF Plug, PlugsOK
<1> QED BY <1>2, <1>3 DEF Next, vars

\* Nothing but the device, or nothing at all, changes.
LEMMA StillCalls ==
    ASSUME IInv, ChanOK', PlugsOK, PlugsOK', MostCallInv, UNCHANGED <<network, pageVars, storage, nativeVars>>,
           plugs' = plugs \/ plugs' = plugs + 1
    PROVE  MostCallInv'
<1> USE DEF MostCallInv
<1>1. Same(PageTraffic) /\ Same(DeviceRequests)
    BY SameUnchanged, IInvChan DEF network
<1>2. PagesStay /\ HidStep
    BY PagesQuiet, HidStays DEF pageVars, nativeVars
<1>3. CASE plugs' = plugs
    <2>1. Aside
        BY <1>1, <1>2, <1>3 DEF Aside, pageVars, nativeVars
    <2> QED BY <1>2, <2>1, AsideKeeps, IInvChan
<1>4. CASE plugs' # plugs
    <2>1. plugs' # 0
        BY <1>4 DEF PlugsOK
    <2>2. CallsOK'
        <3>1. \A i \in CallIds : Pursued(i)' <=> Pursued(i)
            BY <1>1, Unpursued DEF Pursued, Queued, nativeVars
        <3> QED BY <1>2, <3>1, CallsStay
    <2>3. TurnOK'
        <3>1. \A c \in Calls : Anywhere(Answers(c, "RequestDevice"))' <=> Anywhere(Answers(c, "RequestDevice"))
            BY <1>1, TrafficIs, OnSame
        <3>2. Served' \subseteq Served
            BY <3>1 DEF Served, pageVars
        <3> QED BY <1>1, <3>2, TurnStays, IInvChan DEF nativeVars
    <2>4. ListedOK' /\ AheadOK' /\ ToldOK'
        BY <2>1 DEF ListedOK, AheadOK, ToldOK
    <2>5. DueOK'
        BY <2>1 DEF DueOK, Due, nativeVars
    <2> QED BY <2>2, <2>3, <2>4, <2>5
<1> QED BY <1>3, <1>4

LEMMA InitCallInv == Init => CallInv
<1> SUFFICES ASSUME Init PROVE CallInv
    OBVIOUS
<1>1. \A x, y \in Address : chan[x][y] = <<>>
    BY DEF Init, Nothing
<1>2. \A x, y \in Address : \A K : ~On(x, y, K)
    BY <1>1 DEF On, Carried
<1>3. \A K : ~Anywhere(K)
    BY <1>2 DEF Anywhere
<1>4. \A c \in Calls : page[c] = "none"
    BY DEF Init, Calls
<1>5. request_device = <<>> /\ poll_refresh = <<>> /\ Len(<<>>) = 0
    BY DEF Init
<1>6. CallsOK
    BY <1>3, <1>4, <1>5 DEF CallsOK, CallPlaces, Pursued, Queued
<1>7. TurnOK
    <2>1. Served = {} /\ Waiters = {} /\ \A x, y \in Address : Asking(x, y) = {}
        BY <1>2, <1>3, <1>4, <1>5 DEF Served, Waiters, Asking
    <2>2. \A k \in 0..4 : Stage(k) = {}
        BY <2>1, StageIs, Nodes DEF StagesAre
    <2>3. Precedes
        BY <2>2 DEF Precedes
    <2>4. SortedPorts
        BY <1>1, <1>5, Nodes DEF SortedPorts, Sorted, InTurn
    <2> QED BY <2>3, <2>4, TurnIs
<1>8. PlugsOK /\ ListedOK
    BY <1>3 DEF Init, PlugsOK, ListedOK
<1>9. DueOK /\ AheadOK /\ ToldOK
    BY <1>4 DEF Init, DueOK, Due, AheadOK, ToldOK
<1> QED BY <1>6, <1>7, <1>8, <1>9 DEF CallInv

LEMMA NextCallInv == IInv /\ IInv' /\ AsksInv /\ TwoAtOnce /\ CallInv /\ [Next]_vars => CallInv'
<1> SUFFICES ASSUME IInv, IInv', AsksInv, TwoAtOnce, CallInv, [Next]_vars PROVE CallInv'
    OBVIOUS
<1>1. ChanOK'
    BY DEF IInv, Net, Types
<1>2. MostCallInv /\ PlugsOK
    BY DEF CallInv, MostCallInv
<1>3. PlugsOK'
    BY <1>2, PlugsKept
<1>4. MostCallInv'
    <2>1. CASE Network /\ UNCHANGED usb
        BY <1>1, <1>2, <2>1, NetworkCalls
    <2>2. CASE Browser /\ UNCHANGED usb
        BY <1>1, <1>2, <2>2, BrowserCalls
    <2>3. CASE Process /\ UNCHANGED usb
        BY <1>1, <1>2, <2>3, ProcessAside, NativeRequestCalls, WatchDevicesCalls, SelectPollRefreshCalls,
           AnsweringCalls, ExtendAllowedCalls DEF Process
    <2>4. CASE Page /\ UNCHANGED usb
        BY <1>1, <1>2, <2>4, WaitForBackgroundCalls, PageAnswerCalls, NoticedCalls DEF Page
    <2>5. CASE Delay /\ UNCHANGED usb
        BY <1>1, <1>2, <2>5, DelayCalls
    <2>6. CASE (\E c \in Caller : PageTimeout(c) \/ requestDevice(c)) /\ UNCHANGED usb
        BY <1>1, <1>2, <2>6, PageTimeoutCalls, requestDeviceCalls
    <2>7. CASE Plug
        BY <1>1, <1>2, <1>3, <2>7, StillCalls DEF Plug
    <2>8. CASE UNCHANGED vars
        BY <1>1, <1>2, <1>3, <2>8, StillCalls DEF vars, usb
    <2> QED BY <2>1, <2>2, <2>3, <2>4, <2>5, <2>6, <2>7, <2>8 DEF Next
<1> QED BY <1>3, <1>4 DEF CallInv, MostCallInv

\* As long as no three calls of requestDevice() are pending, one that returns has the
\* device that was approved for it or for one before it (injected.ts 239-263,
\* main.rs 321-431), whatever the number of calls in all.
THEOREM SpecApprovedIsListed == Spec /\ []TwoAtOnce => []ApprovedIsListed
<1>1. Init => IInv /\ AsksInv /\ CallInv
    BY InitIInv, InitAsksInv, InitCallInv
<1>2. (IInv /\ AsksInv /\ CallInv) /\ TwoAtOnce /\ [Next]_vars => (IInv /\ AsksInv /\ CallInv)'
    BY NextIInv, NextAsksInv, NextCallInv
<1>3. IInv /\ CallInv => ApprovedIsListed
    <2> SUFFICES ASSUME IInv, CallInv, NEW a \in granted, NEW c \in a..MaxRequests, page[c] = "ready", plugs = 0
                 PROVE  devices
        BY DEF ApprovedIsListed
    <2>1. a \in Calls /\ a \in 1..MaxRequests
        BY HidFoxAssumption DEF IInv, App, PlacesOK, Calls, Caller
    <2>2. c \in Calls /\ a <= c
        BY <2>1, HidFoxAssumption DEF Calls, Caller
    <2>3. Concerned(c)
        BY <2>2 DEF Concerned
    <2> QED BY <2>2, <2>3 DEF CallInv, ToldOK
<1> QED BY <1>1, <1>2, <1>3, PTL DEF Spec

\* In particular if the page makes no more than two calls.
THEOREM SpecTwoCallsListed == MaxRequests <= 2 => (Spec => []ApprovedIsListed)
<1> SUFFICES ASSUME MaxRequests <= 2 PROVE Spec => []ApprovedIsListed
    OBVIOUS
<1>1. TwoAtOnce
    <2>1. \A c \in Calls : c = 1 \/ c = 2
        BY HidFoxAssumption DEF Calls, Caller
    <2> QED BY <2>1 DEF TwoAtOnce
<1>2. []TwoAtOnce
    BY <1>1, PTL
<1> QED BY <1>2, SpecApprovedIsListed, PTL
=============================================================================
