--------------------------- MODULE PollingProofs ---------------------------
(* For any number of requests and registrations, whatever is malformed or    *)
(* has a callback handler: a request is in one place until it is answered    *)
(* once, the streams keep the order, and Polling implements Answering as far *)
(* as safety goes.                                                           *)
EXTENDS Polling, SequenceTheorems, TLAPS

-----------------------------------------------------------------------------
(* What the queues contain.                                                  *)

Increasing(s) == \A j, k \in 1..Len(s) : j < k => s[j] < s[k]

LEMMA AppendContains ==
    ASSUME NEW S, NEW s \in Seq(S), NEW e \in S
    PROVE  /\ Append(s, e) \in Seq(S)
           /\ \A x : Contains(Append(s, e), x) <=> Contains(s, x) \/ x = e
<1>1. Append(s, e) \in Seq(S) /\ Len(Append(s, e)) = Len(s) + 1 /\ Len(s) \in Nat
    OBVIOUS
<1>2. \A j \in 1..Len(s) : Append(s, e)[j] = s[j]
    OBVIOUS
<1>3. Append(s, e)[Len(s) + 1] = e
    OBVIOUS
<1> QED BY <1>1, <1>2, <1>3 DEF Contains

\* The head of an increasing queue leaves it for good.
LEMMA TailContains ==
    ASSUME NEW s \in Seq(Int), s # <<>>, Increasing(s)
    PROVE  /\ Increasing(Tail(s))
           /\ Contains(s, Head(s))
           /\ \A x : Contains(Tail(s), x) <=> Contains(s, x) /\ x # Head(s)
           /\ \A x : Contains(Tail(s), x) => Head(s) < x
<1>1. Len(s) \in Nat \ {0} /\ Head(s) = s[1] /\ Len(Tail(s)) = Len(s) - 1
    OBVIOUS
<1>2. \A j \in 1..Len(Tail(s)) : Tail(s)[j] = s[j + 1]
    OBVIOUS
<1>3. \A j \in 1..Len(s) : s[j] \in Int
    OBVIOUS
<1>4. \A j \in 2..Len(s) : s[j] = Tail(s)[j - 1]
    BY <1>1, <1>2
<1> QED BY <1>1, <1>2, <1>3, <1>4 DEF Contains, Increasing

LEMMA TailType ==
    ASSUME NEW S, NEW s \in Seq(S), s # <<>>
    PROVE  Tail(s) \in Seq(S) /\ Head(s) \in S
OBVIOUS

LEMMA AppendIncreasing ==
    ASSUME NEW s \in Seq(Int), Increasing(s), NEW e \in Int,
           \A x : Contains(s, x) => x < e
    PROVE  Increasing(Append(s, e))
<1>1. Len(Append(s, e)) = Len(s) + 1 /\ Len(s) \in Nat
    OBVIOUS
<1>2. \A j \in 1..Len(s) : Append(s, e)[j] = s[j] /\ s[j] < e
    BY DEF Contains
<1>3. Append(s, e)[Len(s) + 1] = e
    OBVIOUS
<1> QED BY <1>1, <1>2, <1>3 DEF Increasing

LEMMA EmptyContains == Increasing(<<>>) /\ \A x : ~Contains(<<>>, x)
BY DEF Contains, Increasing

LEMMA ToSetContains ==
    ASSUME NEW S, NEW s \in Seq(S)
    PROVE  \A x : x \in ToSet(s) <=> Contains(s, x)
BY DEF ToSet, Contains

-----------------------------------------------------------------------------
(* The inductive invariant.                                                  *)

Queued(i) == \E g \in Gen : Contains(orx[g], i) \/ Contains(channel[g], i)

\* A request is queued once.
QueuedOnce(i) ==
    \A g, h \in Gen :
        /\ Contains(orx[g], i) /\ Contains(orx[h], i) => g = h
        /\ Contains(channel[g], i) /\ Contains(channel[h], i) => g = h
        /\ ~(Contains(orx[g], i) /\ Contains(channel[h], i))

\* What has become of a request that is not queued.
Later(i) ==
    \/ /\ i \in held /\ i \notin running /\ respond[i] = "none" /\ answers[i] = <<>>
    \/ /\ i \notin held /\ i \in running /\ respond[i] = "none" /\ answers[i] = <<>>
    \/ /\ i \notin held /\ i \notin running /\ respond[i] # "none" /\ answers[i] = <<>>
    \/ /\ i \notin held /\ i \notin running /\ respond[i] = "none" /\ Len(answers[i]) = 1

Nowhere(i) == i \notin held /\ i \notin running /\ respond[i] = "none" /\ answers[i] = <<>>

Exclusive ==
    \A i \in Id :
        /\ QueuedOnce(i)
        /\ Queued(i) => i <= arrived /\ Nowhere(i)
        /\ ~Queued(i) => IF i <= arrived THEN Later(i) ELSE Nowhere(i)

\* The two queues of a registration, and what has left them, are in order.
Ordered ==
    /\ taken \in Seq([id : Id, from : Gen])
    /\ \A k \in DOMAIN taken : taken[k].id <= arrived
    /\ \A g \in Gen :
        /\ Increasing(orx[g]) /\ Increasing(channel[g])
        /\ \A x, y \in Id : Contains(channel[g], x) /\ Contains(orx[g], y) => x < y
        /\ \A k \in DOMAIN taken : \A x \in Id :
               taken[k].from = g /\ (Contains(channel[g], x) \/ Contains(orx[g], x))
               => taken[k].id < x

IInv == TypeOK /\ Exclusive /\ Ordered /\ InOrder

LEMMA InitIInv == Init => IInv
<1> SUFFICES ASSUME Init PROVE IInv
    OBVIOUS
<1> USE PollingAssumption
<1>1. TypeOK
    BY DEF Init, TypeOK, Gen, Id, Outcome
<1>2. \A g \in Gen : orx[g] = <<>> /\ channel[g] = <<>>
    BY DEF Init
<1>3. \A g \in Gen : \A x : ~Contains(orx[g], x) /\ ~Contains(channel[g], x)
    BY <1>2, EmptyContains
<1>4. Exclusive
    BY <1>3 DEF Exclusive, Queued, QueuedOnce, Nowhere, Init, Id
<1>5. taken = <<>>
    BY DEF Init
<1>6. Ordered
    BY <1>2, <1>3, <1>5, EmptyContains DEF Ordered
<1>7. InOrder
    BY <1>5 DEF InOrder
<1> QED BY <1>1, <1>4, <1>6, <1>7 DEF IInv

-----------------------------------------------------------------------------
(* One lemma for each action, or for several that touch the same places.     *)

USE PollingAssumption

LEMMA IdInt == Id \subseteq Int /\ Gen \subseteq Int
BY DEF Id, Gen

LEMMA QueuesInt ==
    ASSUME TypeOK
    PROVE  \A g \in Gen : orx[g] \in Seq(Int) /\ channel[g] \in Seq(Int)
                          /\ orx[g] \in Seq(Id) /\ channel[g] \in Seq(Id)
<1>1. \A s \in Seq(Id \ Malformed) : s \in Seq(Id)
    OBVIOUS
<1>2. \A s \in Seq(Id) : s \in Seq(Int)
    <2> SUFFICES ASSUME NEW s \in Seq(Id) PROVE s \in Seq(Int)
        OBVIOUS
    <2>1. Len(s) \in Nat /\ s \in [1..Len(s) -> Id]
        OBVIOUS
    <2>2. s \in [1..Len(s) -> Int]
        BY <2>1, IdInt
    <2> QED BY <2>1, <2>2, SeqDef
<1> QED BY <1>1, <1>2 DEF TypeOK

\* What the application has got is known in type and arrival.
LEMMA TakenType ==
    ASSUME Ordered
    PROVE  \A k \in DOMAIN taken : /\ taken[k].id \in Id /\ taken[k].from \in Gen
                                   /\ taken[k].id <= arrived
<1>1. taken \in Seq([id : Id, from : Gen]) /\ DOMAIN taken = 1..Len(taken)
    BY DEF Ordered
<1>2. \A k \in DOMAIN taken : taken[k] \in [id : Id, from : Gen]
    BY <1>1, ElementOfSeq
<1>3. \A r \in [id : Id, from : Gen] : r.id \in Id /\ r.from \in Gen
    OBVIOUS
<1> QED BY <1>2, <1>3 DEF Ordered

\* Nothing that is queued or taken is touched.
LEMMA OrderedKept ==
    ASSUME TypeOK, Ordered, InOrder, UNCHANGED <<orx, channel, taken>>,
           arrived' \in Nat, arrived <= arrived'
    PROVE  Ordered' /\ InOrder'
<1>1. InOrder'
    BY DEF InOrder
<1>2. \A x \in Id : x <= arrived => x <= arrived'
    BY IdInt DEF TypeOK
<1>3. \A k \in DOMAIN taken' : taken'[k].id <= arrived'
    BY <1>2, TakenType
<1> QED BY <1>1, <1>3 DEF Ordered

\* The next request to arrive has been nowhere.
LEMMA PolledIInv == ASSUME IInv, NEW i \in Id, Polled(i) PROVE IInv'
<1> USE DEF IInv
<1>0. /\ i = arrived + 1 /\ arrived' = i /\ arrived \in Nat /\ i \in Int
      /\ UNCHANGED <<handler, streams, stream, decoding, channel, held, respond, taken>>
    BY DEF Polled, streamVars, TypeOK, Id
<1>1. /\ ~Queued(i) /\ Nowhere(i)
      /\ \A g \in Gen : \A x \in Id : Contains(orx[g], x) \/ Contains(channel[g], x) => x < i
    <2>1. ~(i <= arrived) /\ \A x \in Id : x <= arrived => x < i
        BY <1>0, IdInt
    <2> QED BY <2>1 DEF Exclusive, Queued
<1>5. \A k \in DOMAIN taken : taken[k].id \in Int /\ taken[k].id < i
    <2>1. \A x \in Id : x <= arrived => x < i /\ x \in Int
        BY <1>0, IdInt
    <2> QED BY <2>1, TakenType
<1>6. InOrder' /\ (UNCHANGED orx => Ordered')
    BY <1>0, OrderedKept DEF InOrder
<1>2. CASE i \in Callback /\ running' = running \cup {i} /\ UNCHANGED <<orx, answers>>
    <2>1. TypeOK'
        BY <1>0, <1>2 DEF TypeOK, Id
    <2>2. Exclusive'
        BY <1>0, <1>1, <1>2, IdInt DEF Exclusive, Queued, QueuedOnce, Later, Nowhere
    <2> QED BY <1>2, <1>6, <2>1, <2>2
<1>3. CASE /\ i \notin Callback /\ handler # 0
           /\ orx' = [orx EXCEPT ![handler] = Append(@, i)] /\ UNCHANGED <<running, answers>>
    <2>0. handler \in Gen /\ orx \in [Gen -> Seq(Id)]
        BY <1>3 DEF TypeOK, Gen
    <2>1. TypeOK'
        BY <1>0, <1>3, <2>0, AppendContains DEF TypeOK, Id
    <2>2. \A g \in Gen : \A x : Contains(orx'[g], x) <=> Contains(orx[g], x) \/ (g = handler /\ x = i)
        BY <1>3, <2>0, AppendContains
    <2>3. Exclusive'
        BY <1>0, <1>1, <1>3, <2>0, <2>2, IdInt DEF Exclusive, Queued, QueuedOnce, Later, Nowhere
    <2>4. \A g \in Gen : Increasing(orx'[g])
        <3>1. Increasing(Append(orx[handler], i))
            <4>1. \A x : Contains(orx[handler], x) => x \in Id
                BY <2>0 DEF Contains
            <4> QED BY <1>0, <1>1, <2>0, <4>1, QueuesInt, AppendIncreasing DEF Ordered
        <3> QED BY <1>3, <2>0, <3>1 DEF Ordered
    <2>5. Ordered'
        BY <1>0, <1>1, <1>5, <2>0, <2>2, <2>4, IdInt DEF Ordered
    <2> QED BY <1>6, <2>1, <2>3, <2>5
<1>4. CASE i \notin Callback /\ handler = 0 /\ Sends(i, "error") /\ UNCHANGED <<orx, running>>
    <2>1. answers' = [answers EXCEPT ![i] = Append(@, "error")]
        BY <1>4 DEF Sends
    <2>2. TypeOK'
        BY <1>0, <1>4, <2>1 DEF TypeOK, Id, Outcome
    <2>3. Len(answers'[i]) = 1
        BY <1>1, <2>1 DEF Nowhere, TypeOK
    <2>4. Exclusive'
        BY <1>0, <1>1, <1>4, <2>1, <2>3, IdInt DEF Exclusive, Queued, QueuedOnce, Later, Nowhere, TypeOK
    <2> QED BY <1>4, <1>6, <2>2, <2>4
<1> QED BY <1>2, <1>3, <1>4 DEF Polled

\* An answer is sent for a request that was elsewhere.
LEMMA SendsIInv ==
    ASSUME IInv, NEW i \in Id, NEW how \in Outcome, Sends(i, how),
           UNCHANGED <<streamVars, orx, channel, held, arrived, taken>>,
           running' = running \ {i}, i \in running \/ respond[i] # "none",
           respond' \in [Id -> Outcome \cup {"none"}], respond'[i] = "none",
           \A x \in Id : x # i => respond'[x] = respond[x]
    PROVE  IInv'
<1> USE DEF IInv
<1>1. answers' = [answers EXCEPT ![i] = Append(@, how)]
    BY DEF Sends
<1>2. ~Queued(i) /\ Later(i) /\ answers[i] = <<>> /\ i <= arrived
    BY DEF Exclusive, Later, Nowhere
<1>3. answers'[i] = <<how>> /\ Len(answers'[i]) = 1
    BY <1>1, <1>2 DEF TypeOK
<1>4. TypeOK'
    BY <1>1, <1>3 DEF TypeOK, streamVars
<1>5. Exclusive'
    BY <1>1, <1>2, <1>3 DEF Exclusive, Queued, QueuedOnce, Later, Nowhere, TypeOK
<1>6. Ordered' /\ InOrder'
    BY OrderedKept DEF TypeOK
<1> QED BY <1>4, <1>5, <1>6

LEMMA HandledIInv ==
    ASSUME IInv, NEW i \in Id, NEW how \in Outcome, Handled(i, how) PROVE IInv'
<1>1. i \in running /\ respond[i] = "none" /\ respond \in [Id -> Outcome \cup {"none"}]
    BY DEF IInv, Handled, Exclusive, Later, Nowhere, TypeOK
<1> QED BY <1>1, SendsIInv DEF Handled

LEMMA RelayIInv == ASSUME IInv, NEW i \in Id, Relay(i) PROVE IInv'
<1>1. respond[i] # "none" /\ i \notin running /\ respond[i] \in Outcome
      /\ respond \in [Id -> Outcome \cup {"none"}]
    BY DEF IInv, Relay, Exclusive, Later, Nowhere, TypeOK
<1>2. respond' = [respond EXCEPT ![i] = "none"] /\ running' = running \ {i}
    BY <1>1 DEF Relay
<1>3. Sends(i, respond[i]) /\ UNCHANGED <<streamVars, orx, channel, held, arrived, taken>>
    BY DEF Relay
<1> QED BY <1>1, <1>2, <1>3, SendsIInv

\* What the application does with a request it has got.
LEMMA FinishIInv ==
    ASSUME IInv, NEW i \in Id, NEW how \in Outcome, Finish(i, how) PROVE IInv'
<1> USE DEF IInv, Finish
<1>1. i \in held /\ ~Queued(i) /\ i \notin running /\ answers[i] = <<>> /\ i <= arrived
    BY DEF Exclusive, Later, Nowhere
<1>2. how # "none" /\ respond' = [x \in Id |-> IF x \in {i} THEN how ELSE respond[x]]
    BY DEF Outcome, Responds
<1>3. TypeOK'
    BY <1>2 DEF TypeOK, streamVars
<1>4. Exclusive'
    BY <1>1, <1>2 DEF Exclusive, Queued, QueuedOnce, Later, Nowhere
<1>5. Ordered' /\ InOrder'
    BY OrderedKept DEF TypeOK
<1> QED BY <1>3, <1>4, <1>5

\* Registrations come and go, what is queued stays.
LEMMA RegistrationIInv ==
    ASSUME IInv, Register \/ Unregister \/ \E g \in Gen : DropStream(g)
    PROVE  IInv'
<1> USE DEF IInv
<1>1. TypeOK'
    <2>1. CASE Register
        <3>1. /\ streams \in 0..MaxStreams /\ streams' = streams + 1 /\ handler' = streams + 1
              /\ streams + 1 \in Gen
            BY <2>1 DEF TypeOK, Register, Gen
        <3> QED BY <2>1, <3>1 DEF TypeOK, Register
    <2>2. CASE Unregister \/ \E g \in Gen : DropStream(g)
        BY <2>2 DEF TypeOK, Unregister, DropStream
    <2> QED BY <2>1, <2>2
<1>2. UNCHANGED <<orx, channel, held, running, respond, answers, arrived, taken>>
    BY DEF Register, Unregister, DropStream
<1>3. Exclusive'
    BY <1>2 DEF Exclusive, Queued, QueuedOnce, Later, Nowhere
<1>4. Ordered' /\ InOrder'
    BY <1>2, OrderedKept DEF TypeOK
<1> QED BY <1>1, <1>3, <1>4

\* Requests leave the queues.
LEMMA OrderedFewer ==
    ASSUME Ordered, InOrder, UNCHANGED <<arrived, taken>>,
           \A g \in Gen : Increasing(orx'[g]) /\ Increasing(channel'[g]),
           \A g \in Gen : \A x : Contains(orx'[g], x) => Contains(orx[g], x),
           \A g \in Gen : \A x : Contains(channel'[g], x) => Contains(channel[g], x)
    PROVE  Ordered' /\ InOrder'
BY DEF Ordered, InOrder

\* The requests of S leave the queues and are given a response.
LEMMA RespondsIInv ==
    ASSUME IInv, TypeOK', NEW S \in SUBSET Id, Responds(S, "error"),
           UNCHANGED <<held, running, answers, arrived, taken>>,
           \A x \in S : Queued(x),
           \A g \in Gen : Increasing(orx'[g]) /\ Increasing(channel'[g]),
           \A g \in Gen : \A x : Contains(orx'[g], x) <=> Contains(orx[g], x) /\ x \notin S,
           \A g \in Gen : \A x : Contains(channel'[g], x) <=> Contains(channel[g], x) /\ x \notin S
    PROVE  IInv'
<1> USE DEF IInv
<1>1. \A x \in Id : respond'[x] = IF x \in S THEN "error" ELSE respond[x]
    BY DEF Responds
<1>2. Exclusive'
    BY <1>1 DEF Exclusive, Queued, QueuedOnce, Later, Nowhere
<1>3. Ordered' /\ InOrder'
    BY OrderedFewer
<1> QED BY <1>2, <1>3

LEMMA EndsIInv ==
    ASSUME IInv, NEW g \in Gen, Ends(g),
           UNCHANGED <<handler, streams, stream, channel, held, running, answers, arrived, taken>>
    PROVE  IInv'
<1> USE DEF IInv
<1> DEFINE S == ToSet(orx[g])
<1>1. orx[g] \in Seq(Id) /\ orx' = [orx EXCEPT ![g] = <<>>] /\ orx \in [Gen -> Seq(Id)]
    BY DEF TypeOK, Ends
<1>2. \A x : x \in S <=> Contains(orx[g], x)
    BY <1>1, ToSetContains
<1>3. S \in SUBSET Id
    BY <1>1, <1>2 DEF Contains
<1>4. \A h \in Gen : orx'[h] = IF h = g THEN <<>> ELSE orx[h]
    BY <1>1
<1>5. TypeOK'
    BY <1>1, <1>3 DEF TypeOK, Ends, Responds, Outcome
<1>6. \A x \in S : Queued(x)
    BY <1>2 DEF Queued
<1>7. \A h \in Gen : Increasing(orx'[h]) /\ Increasing(channel'[h])
    BY <1>4, EmptyContains DEF Ordered
<1>8. \A h \in Gen : \A x : Contains(orx[h], x) \/ Contains(channel[h], x) => x \in Id
    BY QueuesInt DEF Contains
<1>9. \A h \in Gen : \A x : Contains(orx'[h], x) <=> Contains(orx[h], x) /\ x \notin S
    BY <1>2, <1>4, <1>8, EmptyContains DEF Exclusive, QueuedOnce
<1>10. \A h \in Gen : \A x : Contains(channel'[h], x) <=> Contains(channel[h], x) /\ x \notin S
    BY <1>2, <1>8 DEF Exclusive, QueuedOnce
<1>11. Responds(S, "error")
    BY DEF Ends
<1> QED BY ONLY IInv, <1>3, <1>5, <1>6, <1>7, <1>9, <1>10, <1>11, RespondsIInv,
                UNCHANGED <<held, running, answers, arrived, taken>>

LEMMA DropChannelIInv == ASSUME IInv, NEW g \in Gen, DropChannel(g) PROVE IInv'
<1> USE DEF IInv
<1> DEFINE S == ToSet(channel[g])
<1>1. /\ channel[g] \in Seq(Id) /\ channel' = [channel EXCEPT ![g] = <<>>]
      /\ channel \in [Gen -> Seq(Id \ Malformed)]
      /\ UNCHANGED <<orx, held, running, answers, arrived, taken>>
    BY QueuesInt DEF TypeOK, DropChannel
<1>2. \A x : x \in S <=> Contains(channel[g], x)
    BY <1>1, ToSetContains
<1>3. S \in SUBSET Id
    BY <1>1, <1>2 DEF Contains
<1>4. \A h \in Gen : channel'[h] = IF h = g THEN <<>> ELSE channel[h]
    BY <1>1
<1>5. TypeOK'
    BY <1>1, <1>3 DEF TypeOK, DropChannel, Responds, Outcome
<1>6. \A x \in S : Queued(x)
    BY <1>2 DEF Queued
<1>7. \A h \in Gen : Increasing(orx'[h]) /\ Increasing(channel'[h])
    BY <1>1, <1>4, EmptyContains DEF Ordered
<1>8. \A h \in Gen : \A x : Contains(orx[h], x) \/ Contains(channel[h], x) => x \in Id
    BY QueuesInt DEF Contains
<1>9. \A h \in Gen : \A x : Contains(channel'[h], x) <=> Contains(channel[h], x) /\ x \notin S
    BY <1>2, <1>4, <1>8, EmptyContains DEF Exclusive, QueuedOnce
<1>10. \A h \in Gen : \A x : Contains(orx'[h], x) <=> Contains(orx[h], x) /\ x \notin S
    BY <1>1, <1>2, <1>8 DEF Exclusive, QueuedOnce
<1>11. Responds(S, "error")
    BY DEF DropChannel
<1>12. UNCHANGED <<held, running, answers, arrived, taken>>
    BY <1>1
<1> QED BY ONLY IInv, <1>3, <1>5, <1>6, <1>7, <1>9, <1>10, <1>11, <1>12, RespondsIInv

LEMMA DecodeIInv == ASSUME IInv, NEW g \in Gen, Decode(g) PROVE IInv'
<1> USE DEF IInv
<1> DEFINE i == Head(orx[g])
<1>1. /\ orx[g] \in Seq(Id) /\ orx[g] \in Seq(Int) /\ orx[g] # <<>> /\ Increasing(orx[g])
      /\ i \in Id /\ Tail(orx[g]) \in Seq(Id) /\ orx \in [Gen -> Seq(Id)]
    BY QueuesInt, TailType DEF Decode, Ordered, TypeOK
<1>2. /\ Increasing(Tail(orx[g])) /\ Contains(orx[g], i)
      /\ \A x : Contains(Tail(orx[g]), x) <=> Contains(orx[g], x) /\ x # i
      /\ \A x : Contains(Tail(orx[g]), x) => i < x
    BY <1>1, TailContains
<1>3. \A h \in Gen : \A x : Contains(orx[h], x) \/ Contains(channel[h], x) => x \in Id
    BY QueuesInt DEF Contains
<1>4. UNCHANGED <<handler, streams, stream, held, running, answers, arrived, taken>>
    BY DEF Decode
<1>5. CASE i \in Malformed /\ orx' = [orx EXCEPT ![g] = Tail(@)] /\ Responds({i}, "error")
           /\ UNCHANGED <<decoding, channel>>
    <2>1. TypeOK'
        BY <1>1, <1>4, <1>5 DEF TypeOK, Responds, Outcome
    <2>2. \A h \in Gen : orx'[h] = IF h = g THEN Tail(orx[g]) ELSE orx[h]
        BY <1>1, <1>5
    <2>3. \A h \in Gen : \A x : Contains(orx'[h], x) <=> Contains(orx[h], x) /\ x \notin {i}
        BY <1>1, <1>2, <1>3, <2>2 DEF Exclusive, QueuedOnce
    <2>4. \A h \in Gen : \A x : Contains(channel'[h], x) <=> Contains(channel[h], x) /\ x \notin {i}
        BY <1>1, <1>2, <1>3, <1>5 DEF Exclusive, QueuedOnce
    <2>5. \A h \in Gen : Increasing(orx'[h]) /\ Increasing(channel'[h])
        BY <1>2, <1>5, <2>2 DEF Ordered
    <2>6. \A x \in {i} : Queued(x)
        BY <1>2 DEF Queued
    <2>7. {i} \in SUBSET Id /\ Responds({i}, "error") /\ UNCHANGED <<held, running, answers, arrived, taken>>
        BY <1>1, <1>4, <1>5
    <2> QED BY ONLY IInv, <2>1, <2>3, <2>4, <2>5, <2>6, <2>7, RespondsIInv
<1>6. CASE Ends(g) /\ UNCHANGED channel
    BY <1>4, <1>6, EndsIInv
<1>7. CASE /\ i \notin Malformed /\ channel' = [channel EXCEPT ![g] = Append(@, i)]
           /\ orx' = [orx EXCEPT ![g] = Tail(@)] /\ UNCHANGED <<decoding, respond>>
    <2>1. channel[g] \in Seq(Id \ Malformed) /\ i \in Id \ Malformed /\ channel[g] \in Seq(Int)
          /\ channel \in [Gen -> Seq(Id \ Malformed)]
        BY <1>1, <1>7, QueuesInt DEF TypeOK
    <2>2. Append(channel[g], i) \in Seq(Id \ Malformed)
          /\ \A x : Contains(Append(channel[g], i), x) <=> Contains(channel[g], x) \/ x = i
        BY ONLY <2>1, AppendContains
    <2>3. TypeOK'
        BY <1>1, <1>4, <1>7, <2>1, <2>2 DEF TypeOK
    <2>4. \A h \in Gen : /\ orx'[h] = IF h = g THEN Tail(orx[g]) ELSE orx[h]
                         /\ channel'[h] = IF h = g THEN Append(channel[g], i) ELSE channel[h]
        BY <1>1, <1>7, <2>1
    <2>5. \A h \in Gen : \A x :
              /\ Contains(orx'[h], x) <=> Contains(orx[h], x) /\ ~(h = g /\ x = i)
              /\ Contains(channel'[h], x) <=> Contains(channel[h], x) \/ (h = g /\ x = i)
        BY <1>2, <2>2, <2>4
    <2>6. Exclusive'
        BY <1>1, <1>2, <1>4, <1>7, <2>5 DEF Exclusive, Queued, QueuedOnce, Later, Nowhere
    <2>7. Increasing(Append(channel[g], i))
        <3>1. \A x : Contains(channel[g], x) => x < i
            BY <1>1, <1>2, <1>3 DEF Ordered
        <3> QED BY <1>1, <2>1, <3>1, IdInt, AppendIncreasing DEF Ordered
    <2>8. \A h \in Gen : Increasing(orx'[h]) /\ Increasing(channel'[h])
        BY <1>2, <2>4, <2>7 DEF Ordered
    <2>9. \A h \in Gen : \A x, y \in Id : Contains(channel'[h], x) /\ Contains(orx'[h], y) => x < y
        BY <1>2, <2>4, <2>5 DEF Ordered
    <2>10. \A h \in Gen : \A k \in DOMAIN taken : \A x \in Id :
               taken[k].from = h /\ (Contains(channel'[h], x) \/ Contains(orx'[h], x))
               => taken[k].id < x
        BY <1>2, <2>5 DEF Ordered
    <2>11. Ordered'
        BY <1>4, <2>8, <2>9, <2>10 DEF Ordered
    <2>12. InOrder'
        BY <1>4 DEF InOrder
    <2> QED BY <2>3, <2>6, <2>11, <2>12
<1> QED BY <1>5, <1>6, <1>7 DEF Decode

LEMMA PollNextIInv == ASSUME IInv, NEW g \in Gen, poll_next(g) PROVE IInv'
<1> USE DEF IInv
<1> DEFINE i == Head(channel[g])
           entry == [id |-> i, from |-> g]
<1>1. /\ channel[g] \in Seq(Id \ Malformed) /\ channel[g] \in Seq(Int) /\ channel[g] # <<>>
      /\ Increasing(channel[g]) /\ i \in Id /\ Tail(channel[g]) \in Seq(Id \ Malformed)
      /\ channel \in [Gen -> Seq(Id \ Malformed)]
    <2>1. channel[g] \in Seq(Id \ Malformed) /\ channel[g] \in Seq(Int) /\ channel[g] # <<>>
          /\ Increasing(channel[g]) /\ channel \in [Gen -> Seq(Id \ Malformed)]
        BY QueuesInt DEF poll_next, Ordered, TypeOK
    <2> QED BY ONLY <2>1, TailType
<1>2. /\ Increasing(Tail(channel[g])) /\ Contains(channel[g], i)
      /\ \A x : Contains(Tail(channel[g]), x) <=> Contains(channel[g], x) /\ x # i
      /\ \A x : Contains(Tail(channel[g]), x) => i < x
    BY <1>1, TailContains
<1>3. /\ held' = held \cup {i} /\ taken' = Append(taken, entry)
      /\ channel' = [channel EXCEPT ![g] = Tail(@)]
      /\ UNCHANGED <<streamVars, orx, running, respond, answers, arrived>>
    BY DEF poll_next
<1>4. TypeOK'
    BY <1>1, <1>3 DEF TypeOK, streamVars
<1>5. \A h \in Gen : channel'[h] = IF h = g THEN Tail(channel[g]) ELSE channel[h]
    BY <1>1, <1>3
<1>6. \A h \in Gen : \A x :
          Contains(channel'[h], x) <=> Contains(channel[h], x) /\ ~(h = g /\ x = i)
    BY <1>2, <1>5
<1>7. Exclusive'
    BY <1>1, <1>2, <1>3, <1>6 DEF Exclusive, Queued, QueuedOnce, Later, Nowhere
<1>8. /\ taken' \in Seq([id : Id, from : Gen]) /\ Len(taken') = Len(taken) + 1
      /\ DOMAIN taken = 1..Len(taken) /\ DOMAIN taken' = 1..(Len(taken) + 1) /\ Len(taken) \in Nat
      /\ taken'[Len(taken) + 1] = entry /\ \A k \in 1..Len(taken) : taken'[k] = taken[k]
    BY <1>1, <1>3 DEF Ordered
<1>9. /\ i <= arrived /\ entry.id = i /\ entry.from = g
      /\ \A k \in DOMAIN taken : taken[k].from = g => taken[k].id < i
    BY <1>1, <1>2 DEF Exclusive, Queued, Ordered
<1>10. Ordered'
    <2>1. \A h \in Gen : Increasing(orx'[h]) /\ Increasing(channel'[h])
        BY <1>2, <1>3, <1>5 DEF Ordered
    <2>2. \A h \in Gen : \A x, y \in Id : Contains(channel'[h], x) /\ Contains(orx'[h], y) => x < y
        BY <1>3, <1>6 DEF Ordered
    <2>3. \A x \in Id : Contains(channel'[g], x) \/ Contains(orx'[g], x) => i < x
        BY <1>1, <1>2, <1>3, <1>5 DEF Ordered
    <2>4. \A k \in DOMAIN taken' : taken'[k].id <= arrived'
        BY <1>3, <1>8, <1>9 DEF Ordered
    <2>5. \A h \in Gen : \A k \in DOMAIN taken' : \A x \in Id :
               taken'[k].from = h /\ (Contains(channel'[h], x) \/ Contains(orx'[h], x))
               => taken'[k].id < x
        <3> SUFFICES ASSUME NEW h \in Gen, NEW k \in DOMAIN taken', NEW x \in Id,
                            taken'[k].from = h, Contains(channel'[h], x) \/ Contains(orx'[h], x)
                     PROVE  taken'[k].id < x
            OBVIOUS
        <3>1. CASE k = Len(taken) + 1
            BY <1>8, <1>9, <2>3, <3>1
        <3>2. CASE k \in DOMAIN taken
            BY <1>3, <1>6, <1>8, <3>2 DEF Ordered
        <3> QED BY <1>8, <3>1, <3>2
    <2> QED BY <1>8, <2>1, <2>2, <2>4, <2>5 DEF Ordered
<1>11. InOrder'
    <2> SUFFICES ASSUME NEW j \in DOMAIN taken', NEW k \in 1..(j - 1),
                        taken'[k].from = taken'[j].from
                 PROVE  taken'[k].id < taken'[j].id
        BY DEF InOrder
    <2>1. k \in DOMAIN taken
        BY <1>8
    <2>2. CASE j = Len(taken) + 1
        BY <1>8, <1>9, <2>1, <2>2
    <2>3. CASE j \in DOMAIN taken
        BY <1>8, <2>1, <2>3 DEF InOrder
    <2> QED BY <1>8, <2>2, <2>3
<1> QED BY <1>4, <1>7, <1>10, <1>11

LEMMA NextIInv == ASSUME IInv, [Next]_vars PROVE IInv'
<1>1. CASE Register \/ Unregister
    BY <1>1, RegistrationIInv
<1>2. ASSUME NEW i \in Id, Polled(i) PROVE IInv'
    BY <1>2, PolledIInv
<1>3. ASSUME NEW i \in Id, Relay(i) PROVE IInv'
    BY <1>3, RelayIInv
<1>4. ASSUME NEW i \in Id, NEW how \in Outcome, Finish(i, how) \/ Handled(i, how) PROVE IInv'
    BY <1>4, FinishIInv, HandledIInv
<1>5. ASSUME NEW g \in Gen, TaskEnds(g) PROVE IInv'
    BY <1>5, EndsIInv DEF TaskEnds
<1>6. ASSUME NEW g \in Gen, Decode(g) \/ DropChannel(g) \/ poll_next(g) PROVE IInv'
    BY <1>6, DecodeIInv, DropChannelIInv, PollNextIInv
<1>7. ASSUME NEW g \in Gen, DropStream(g) PROVE IInv'
    BY <1>7, RegistrationIInv
<1>8. CASE UNCHANGED vars
    <2>1. UNCHANGED <<handler, streams, stream, decoding, orx, channel, held, running, respond,
                      answers, arrived, taken>>
        BY <1>8 DEF vars, streamVars
    <2>2. TypeOK'
        BY <2>1 DEF IInv, TypeOK
    <2>3. Exclusive'
        BY <2>1 DEF IInv, Exclusive, Queued, QueuedOnce, Later, Nowhere
    <2>4. Ordered' /\ InOrder'
        BY <2>1, OrderedKept DEF IInv, TypeOK
    <2> QED BY <2>2, <2>3, <2>4 DEF IInv
<1> QED BY <1>1, <1>2, <1>3, <1>4, <1>5, <1>6, <1>7, <1>8 DEF Next, Task

\* The invariant holds throughout.
THEOREM SpecIInv == Spec => []IInv
<1>1. Init => IInv
    BY InitIInv
<1>2. IInv /\ [Next]_vars => IInv'
    BY NextIInv
<1> QED BY <1>1, <1>2, PTL DEF Spec

\* Types: what is passed on to a stream can be decoded.
THEOREM SpecTypeOK == Spec => []TypeOK
<1>1. IInv => TypeOK
    BY DEF IInv
<1> QED BY <1>1, SpecIInv, PTL

\* Every stream returns requests in the order they arrive (request.rs 185-215).
THEOREM SpecInOrder == Spec => []InOrder
<1>1. IInv => InOrder
    BY DEF IInv
<1> QED BY <1>1, SpecIInv, PTL

-----------------------------------------------------------------------------
(* AnsweredOnce, by the place a request is in.                               *)

LEMMA PlacesOf ==
    ASSUME NEW i \in Id
    PROVE  \A p : p \in Places(i) <=>
               \/ \E g \in Gen : p = <<"orx", g>> /\ Contains(orx[g], i)
               \/ \E g \in Gen : p = <<"channel", g>> /\ Contains(channel[g], i)
               \/ p = <<"held", 0>> /\ i \in held
               \/ p = <<"running", 0>> /\ i \in running
               \/ p = <<"respond", 0>> /\ respond[i] # "none"
               \/ \E j \in DOMAIN answers[i] : p = <<"answers", j>>
BY DEF Places

LEMMA ExclusivePlaces ==
    ASSUME TypeOK, Exclusive, NEW i \in Id
    PROVE  IF i <= arrived THEN \E p \in Places(i) : Places(i) = {p} ELSE Places(i) = {}
<1>1. CASE i <= arrived
    <2>1. CASE Queued(i)
        <3>1. QueuedOnce(i) /\ Nowhere(i) /\ DOMAIN answers[i] = {}
            BY <2>1 DEF Exclusive, Nowhere
        <3>2. PICK g \in Gen : Contains(orx[g], i) \/ Contains(channel[g], i)
            BY <2>1 DEF Queued
        <3>3. CASE Contains(orx[g], i)
            <4>1. \A p : p \in Places(i) <=> p = <<"orx", g>>
                BY <3>1, <3>2, <3>3, PlacesOf DEF QueuedOnce, Nowhere
            <4>2. Places(i) = {<<"orx", g>>}
                BY <4>1
            <4> QED BY <1>1, <4>2
        <3>4. CASE Contains(channel[g], i)
            <4>1. \A p : p \in Places(i) <=> p = <<"channel", g>>
                BY <3>1, <3>2, <3>4, PlacesOf DEF QueuedOnce, Nowhere
            <4>2. Places(i) = {<<"channel", g>>}
                BY <4>1
            <4> QED BY <1>1, <4>2
        <3> QED BY <3>2, <3>3, <3>4
    <2>2. CASE ~Queued(i)
        <3>1. Later(i) /\ \A g \in Gen : ~Contains(orx[g], i) /\ ~Contains(channel[g], i)
            BY <1>1, <2>2 DEF Exclusive, Queued
        <3>2. CASE answers[i] = <<>>
            <4>1. DOMAIN answers[i] = {}
                BY <3>2
            <4>2. PICK q \in {<<"held", 0>>, <<"running", 0>>, <<"respond", 0>>} :
                      \A p : p \in Places(i) <=> p = q
                BY <3>1, <3>2, <4>1, PlacesOf DEF Later
            <4>3. Places(i) = {q}
                BY <4>2
            <4> QED BY <1>1, <4>3
        <3>3. CASE answers[i] # <<>>
            <4>1. Len(answers[i]) = 1 /\ i \notin held /\ i \notin running /\ respond[i] = "none"
                BY <3>1, <3>3 DEF Later
            <4>2. DOMAIN answers[i] = {1}
                BY <4>1 DEF TypeOK
            <4>3. \A p : p \in Places(i) <=> p = <<"answers", 1>>
                BY <3>1, <4>1, <4>2, PlacesOf
            <4>4. Places(i) = {<<"answers", 1>>}
                BY <4>3
            <4> QED BY <1>1, <4>4
        <3> QED BY <3>2, <3>3
    <2> QED BY <2>1, <2>2
<1>2. CASE ~(i <= arrived)
    <2>1. Nowhere(i) /\ \A g \in Gen : ~Contains(orx[g], i) /\ ~Contains(channel[g], i)
        BY <1>2 DEF Exclusive, Queued
    <2>2. DOMAIN answers[i] = {}
        BY <2>1 DEF Nowhere
    <2>3. \A p : p \notin Places(i)
        BY <2>1, <2>2, PlacesOf DEF Nowhere
    <2> QED BY <1>2, <2>3
<1> QED BY <1>1, <1>2

\* However tasks, streams and the application come and go, a request that has
\* arrived is in one place or has been answered, once (request.rs 82-93 and 191-216,
\* rpc.rs 317-387).
THEOREM SpecAnsweredOnce == Spec => []AnsweredOnce
<1>1. IInv => AnsweredOnce
    BY ExclusivePlaces DEF IInv, AnsweredOnce
<1> QED BY <1>1, SpecIInv, PTL

-----------------------------------------------------------------------------
(* Polling implements Answering, safety only.                                *)

LEMMA InitImplements == Init => Promise!Init
BY DEF Init, Promise!Init, Id

LEMMA StepImplements == ASSUME IInv, IInv', [Next]_vars PROVE [Promise!Next]_(Promise!vars)
<1> USE DEF IInv
<1>1. arrived \in Nat /\ 1..(arrived + 1) = (1..arrived) \cup {arrived + 1}
    BY DEF TypeOK
<1>2. Outcome = Promise!Outcome
    BY DEF Outcome, Promise!Outcome
<1>3. ASSUME NEW i \in Id, Polled(i) PROVE Promise!Next
    <2>1. i \notin 1..arrived /\ 1..arrived' = (1..arrived) \cup {i}
        BY <1>1, <1>3 DEF Polled
    <2>2. answers[i] = <<>> /\ ~(i <= arrived)
        BY <1>1, <1>3 DEF Polled, Exclusive, Nowhere
    <2>3. UNCHANGED answers \/ answers' = [answers EXCEPT ![i] = <<"error">>]
        BY <1>3, <2>2 DEF Polled, Sends
    <2> QED BY <2>1, <2>3 DEF Promise!Next, Promise!Ask, Promise!Refuse
<1>4. ASSUME NEW i \in Id, NEW how \in Outcome, Sends(i, how), UNCHANGED arrived,
             i \in running \/ respond[i] # "none"
      PROVE  Promise!Next
    <2>1. answers[i] = <<>> /\ i <= arrived /\ i \in 1..arrived
        BY <1>4 DEF Exclusive, Later, Nowhere, Id, TypeOK
    <2>2. answers' = [answers EXCEPT ![i] = <<how>>]
        BY <1>4, <2>1 DEF Sends
    <2> QED BY <1>2, <1>4, <2>1, <2>2 DEF Promise!Next, Promise!Answer
<1>5. ASSUME NEW i \in Id, NEW how \in Outcome, Handled(i, how) PROVE Promise!Next
    BY <1>4, <1>5 DEF Handled
<1>6. ASSUME NEW i \in Id, Relay(i) PROVE Promise!Next
    <2>1. respond[i] \in Outcome
        BY <1>6 DEF Relay, TypeOK
    <2> QED BY <1>4, <1>6, <2>1 DEF Relay
<1>7. CASE \/ Register \/ Unregister
           \/ \E i \in Id : \E how \in Outcome : Finish(i, how)
           \/ \E g \in Gen : Task(g) \/ DropStream(g) \/ DropChannel(g) \/ poll_next(g)
           \/ UNCHANGED vars
    <2>1. UNCHANGED <<arrived, answers>>
        BY <1>7 DEF Register, Unregister, Finish, Task, Decode, TaskEnds, DropStream, DropChannel,
                    poll_next, vars
    <2> QED BY <2>1 DEF Promise!vars
<1> QED BY <1>3, <1>5, <1>6, <1>7 DEF Next

\* A node never answers what it was not asked, nor twice, whichever way a request
\* takes.  That it answers in the end is checked by TLC.
THEOREM SpecImplementsAnswering == Spec => Promise!Spec
<1>1. Init => Promise!Init
    BY InitImplements
<1>2. IInv /\ IInv' /\ [Next]_vars => [Promise!Next]_(Promise!vars)
    BY StepImplements
<1> QED BY <1>1, <1>2, SpecIInv, PTL DEF Spec, Promise!Spec
=============================================================================
