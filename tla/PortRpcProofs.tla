--------------------------- MODULE PortRpcProofs ---------------------------
(* For any set of addresses, round-trip times and waiters: the tables of the *)
(* JavaScript node stay consistent, and no neighbour holds an offer that     *)
(* leads back through it.  The loop of #updateMinRtt may miss a second best  *)
(* route; that it never invents one is all that is needed.  Every address    *)
(* that is reachable around a neighbour is offered to it, no wait is cleaned *)
(* up twice, and no wait misses its route unless another listener removes    *)
(* itself before it in the same dispatch.                                    *)
EXTENDS PortRpc, RouteEventProofs

\* There is a route of r that does not lead through n.
Around(r, n) == \E v \in Via \ {n} : r[v] # None

USE RttAssumption, NoneAssumption, DirectAssumption, PortRpcAssumption

-----------------------------------------------------------------------------
(* What a neighbour holds after the notifications of one operation.          *)

\* A changed minimum makes no offer to a neighbour that has none.
LEMMA HearNone ==
    ASSUME NEW n, NEW a, NEW old, NEW m
    PROVE  Hear(None, NotificationFor(n, MinRttUpdated(a, old, m))) = None
<1>1. CASE m = old
    BY <1>1 DEF MinRttUpdated, NoEvent, NotificationFor, Concerns, NoMessage, Hear
<1>2. CASE m # old
    <2>1. NotificationFor(n, MinRttUpdated(a, old, m)) = update_for(n, MinRttUpdated(a, old, m))
        BY <1>2 DEF MinRttUpdated, NotificationFor
    <2>2. \A e : \/ update_for(n, e) = NoMessage
                 \/ update_for(n, e) = UpdatedForwardedRtt(e.to, OfferedTo(n, e.rtt))
        BY DEF update_for
    <2>3. \A x, d : Hear(None, UpdatedForwardedRtt(x, d)) = None
        BY DEF Hear, UpdatedForwardedRtt
    <2>4. Hear(None, NoMessage) = None
        BY DEF Hear, NoMessage
    <2> QED BY <2>1, <2>2, <2>3, <2>4
<1> QED BY <1>1, <1>2

\* The offer a neighbour holds after inc is backed by a route around it.
LEMMA IncHeard ==
    ASSUME NEW n \in Address, NEW a \in Address, n # a, NEW r \in RouteMap, NEW v \in Via,
           NEW d \in Rtt, r[v] = None, NEW old, NEW m, NEW h, h # None => Around(r, n),
           HearEvents(n, h, IncEvents(a, r, v, d, old, m)) # None
    PROVE  Around([r EXCEPT ![v] = d], n)
<1> DEFINE q == [r EXCEPT ![v] = d]
           ev == IncEvents(a, r, v, d, old, m)
           x == Hear(h, NotificationFor(n, ev.list))
<1>1. \A w \in Via : q[w] = IF w = v THEN d ELSE r[w]
    BY DEF RouteMap
<1>2. Around(r, n) => Around(q, n)
    BY <1>1, NoneNotRtt DEF Around
<1>3. v # n => Around(q, n)
    BY <1>1, NoneNotRtt DEF Around
<1>4. ev.min = NoEvent \/ ev.min = MinRttUpdated(a, old, m)
    BY DEF IncEvents
<1>5. x # None
    <2>1. Hear(x, NotificationFor(n, ev.min)) # None
        BY DEF HearEvents
    <2> HIDE DEF x, ev
    <2> QED BY <1>4, <2>1, HearNone, HearNoEvent
<1>6. CASE h # None
    BY <1>2, <1>6
<1>7. CASE h = None /\ Vias(r) = {}
    <2>1. ev.list = ConnectionAdded(a, v, d)
        BY <1>7 DEF IncEvents
    <2> QED BY <1>3, <1>5, <1>7, <2>1, HearConnectionAdded, HearViaListSeconded
<1>8. CASE h = None /\ Vias(r) # {} /\ IsSingle(r)
    <2>1. ev.list = ViaListSeconded(a, OnlyVia(r), Least(d, r[OnlyVia(r)]))
        BY <1>8 DEF IncEvents
    <2>2. OnlyVia(r) # v
        BY <1>8 DEF OnlyVia, Vias, IsSingle
    <2> QED BY <1>3, <1>5, <1>8, <2>1, <2>2, HearConnectionAdded, HearViaListSeconded
<1>9. CASE h = None /\ Vias(r) # {} /\ ~IsSingle(r)
    <2>1. ev.list = NoEvent
        BY <1>9 DEF IncEvents
    <2> QED BY <1>5, <1>9, <2>1, HearNoEvent
<1> QED BY <1>6, <1>7, <1>8, <1>9

\* And after dec.
LEMMA DecHeard ==
    ASSUME NEW n \in Address, NEW a \in Address, n # a, NEW r \in RouteMap, NEW v \in Via,
           r[v] # None, NEW old, NEW m, NEW h, h # None => Around(r, n),
           HearEvents(n, h, DecEvents(a, r, v, old, m)) # None
    PROVE  Around([r EXCEPT ![v] = None], n)
<1> DEFINE q == [r EXCEPT ![v] = None]
           ev == DecEvents(a, r, v, old, m)
           x == Hear(h, NotificationFor(n, ev.list))
<1>1. \A w \in Via : q[w] = IF w = v THEN None ELSE r[w]
    BY DEF RouteMap
<1>2. ev.min = NoEvent \/ ev.min = MinRttUpdated(a, old, m)
    BY DEF DecEvents
<1>3. x # None
    <2>1. Hear(x, NotificationFor(n, ev.min)) # None
        BY DEF HearEvents
    <2> HIDE DEF x, ev
    <2> QED BY <1>2, <2>1, HearNone, HearNoEvent
<1>4. CASE Vias(q) = {}
    <2>1. ev.list = ConnectionRemoved(a, v)
        BY <1>4 DEF DecEvents
    <2>2. n = v /\ h # None
        BY <1>3, <2>1, HearConnectionRemoved, HearViaListUnseconded
    <2>3. PICK w \in Via \ {n} : r[w] # None
        BY <2>2 DEF Around
    <2> QED BY <1>1, <1>4, <2>2, <2>3 DEF Vias
<1>5. CASE Vias(q) # {} /\ IsSingle(q)
    <2>1. ev.list = ViaListUnseconded(a, OnlyVia(q))
        BY <1>5 DEF DecEvents
    <2>2. OnlyVia(q) \in Via /\ q[OnlyVia(q)] # None
        BY <1>5 DEF OnlyVia, Vias
    <2>3. n # OnlyVia(q)
        BY <1>3, <2>1, HearConnectionRemoved, HearViaListUnseconded
    <2> QED BY <2>2, <2>3 DEF Around
<1>6. CASE Vias(q) # {} /\ ~IsSingle(q)
    BY <1>6 DEF Around, Vias, IsSingle
<1> QED BY <1>4, <1>5, <1>6

\* And after update, which makes no new offer.
LEMMA UpdateHeard ==
    ASSUME NEW n, NEW a, NEW old, NEW m, NEW h,
           HearEvents(n, h, UpdateEvents(a, old, m)) # None
    PROVE  h # None
BY HearNone, HearNoEvent DEF HearEvents, UpdateEvents

-----------------------------------------------------------------------------
(* The table.                                                                *)

\* m does not promise more than the routes r hold.
MinOf(r, m) ==
    /\ IF Vias(r) = {} THEN m = NoMin ELSE m.rtt = r[m.via] /\ m.rtt # None
    /\ m.second_best # None => Around(r, m.via)

Irreflexive(o) == \A v \in Via : <<v, v>> \notin o

TableOK ==
    /\ routes \in [Address -> RouteMap]
    /\ older \in [Address -> SUBSET (Via \X Via)]
    /\ minRtt \in [Address -> MinRtt]
    /\ inverse \in [Via -> SUBSET Address]
    /\ imbalance = FALSE
    /\ \A v \in Via : inverse[v] = {a \in Address : routes[a][v] # None}
    /\ \A a \in Address : Irreflexive(older[a]) /\ MinOf(routes[a], minRtt[a])

\* Every offer in h to a neighbour of C is backed by a route of R around it.
Sound(C, h, R) ==
    /\ h \in [Address -> [Address -> RttOption]]
    /\ \A n \in C : \A a \in Address \ {n} : h[n][a] # None => Around(R[a], n)

\* An offer made from a cached minimum is backed.
LEMMA OfferSound ==
    ASSUME NEW r \in RouteMap, NEW m \in MinRtt, MinOf(r, m), NEW n \in Address
    PROVE  OfferedTo(n, m) \in RttOption /\ (OfferedTo(n, m) # None => Around(r, n))
BY DEF MinOf, OfferedTo, Around, MinRtt, NoMin

LEMMA LoopSound ==
    ASSUME NEW r \in RouteMap, Vias(r) # {}, NEW o, Irreflexive(o), NEW m \in LoopMinRtts(r, o)
    PROVE  m \in MinRtt /\ MinOf(r, m)
<1>1. m \in MinRtt /\ m.rtt = r[m.via] /\ IsBest(r, Via, m.rtt)
    BY DEF LoopMinRtts
<1>2. m.rtt # None
    BY <1>1 DEF IsBest, Vias
<1>3. IsBest(r, {v \in Via : <<v, m.via>> \in o}, m.second_best)
    BY DEF LoopMinRtts
<1>4. m.via \in Via
    BY <1>1 DEF MinRtt
<1>5. m.second_best # None => Around(r, m.via)
    BY <1>3, <1>4 DEF IsBest, Irreflexive, Around
<1> QED BY <1>1, <1>2, <1>5 DEF MinOf

LEMMA TableSet ==
    ASSUME TableOK, NEW a \in Address, NEW r \in RouteMap, NEW o \in SUBSET (Via \X Via),
           NEW m \in MinRtt, SetRoutes(a, r, o, m), Irreflexive(o), MinOf(r, m),
           inverse' \in [Via -> SUBSET Address], imbalance' = FALSE,
           \A v \in Via : inverse'[v] = {b \in Address : routes'[b][v] # None}
    PROVE  TableOK'
<1>1. \A b \in Address : /\ routes'[b] = IF b = a THEN r ELSE routes[b]
                         /\ older'[b] = IF b = a THEN o ELSE older[b]
                         /\ minRtt'[b] = IF b = a THEN m ELSE minRtt[b]
    BY DEF SetRoutes, TableOK
<1>2. routes' \in [Address -> RouteMap] /\ older' \in [Address -> SUBSET (Via \X Via)]
      /\ minRtt' \in [Address -> MinRtt]
    BY DEF SetRoutes, TableOK
<1>3. \A b \in Address : Irreflexive(older'[b]) /\ MinOf(routes'[b], minRtt'[b])
    BY <1>1 DEF TableOK
<1> QED BY <1>2, <1>3 DEF TableOK

\* One address is announced anew.
LEMMA ToldSound ==
    ASSUME NEW h, NEW R, NEW a \in Address, NEW ev, NEW r,
           R \in [Address -> RouteMap], r \in RouteMap,
           Sound(Connected', h, R), heard' = Told(h, a, ev),
           Connected' \subseteq Address,
           \A n \in Connected' : HearEvents(n, h[n][a], ev) \in RttOption,
           \A n \in Connected' \ {a} : HearEvents(n, h[n][a], ev) # None => Around(r, n)
    PROVE  Sound(Connected', heard', [R EXCEPT ![a] = r])
<1>1. heard' = [n \in Address |-> IF n \in Connected' THEN [h[n] EXCEPT ![a] = HearEvents(n, @, ev)]
                                                     ELSE h[n]]
    BY DEF Told
<1>2. \A n \in Address : h[n] \in [Address -> RttOption]
    BY DEF Sound
<1>3. \A n \in Connected' : heard'[n] = [h[n] EXCEPT ![a] = HearEvents(n, h[n][a], ev)]
    BY <1>1
<1>4. \A n \in Address : heard'[n] \in [Address -> RttOption]
    BY <1>1, <1>2, <1>3
<1>5. \A n \in Connected' : \A b \in Address :
          heard'[n][b] = IF b = a THEN HearEvents(n, h[n][a], ev) ELSE h[n][b]
    <2> SUFFICES ASSUME NEW n \in Connected', NEW b \in Address
                 PROVE  heard'[n][b] = IF b = a THEN HearEvents(n, h[n][a], ev) ELSE h[n][b]
        OBVIOUS
    <2>1. n \in Address
        OBVIOUS
    <2> QED BY <1>2, <1>3, <2>1
<1>6. heard' \in [Address -> [Address -> RttOption]]
    BY <1>1, <1>4
<1> QED BY <1>5, <1>6 DEF Sound

\* The routes of every address but a, via v, are there as before.
OnlyChanges(a, v, there) ==
    \A b \in Address : \A w \in Via :
        routes'[b][w] # None <=> IF b = a /\ w = v THEN there ELSE routes[b][w] # None

LEMMA IncSound ==
    ASSUME TableOK, NEW a \in Address, NEW v \in Via, NEW d \in Rtt, NEW h,
           Connected' \subseteq Address, Sound(Connected', h, routes), inc(a, v, d, h)
    PROVE  TableOK' /\ Sound(Connected', heard', routes') /\ OnlyChanges(a, v, TRUE)
<1>1. CASE routes[a][v] # None
    <2>1. UNCHANGED routeVars /\ heard' = h
        BY <1>1 DEF inc
    <2> QED BY <1>1, <2>1 DEF routeVars, TableOK, OnlyChanges
<1>2. CASE routes[a][v] = None
    <2> DEFINE r == [routes[a] EXCEPT ![v] = d]
               o == older[a] \cup {<<w, v>> : w \in Vias(routes[a])}
    <2>1. PICK m \in LoopMinRtts(r, o) :
              /\ SetRoutes(a, r, o, m)
              /\ heard' = Told(h, a, IncEvents(a, routes[a], v, d, minRtt[a], m))
        BY <1>2 DEF inc
    <2>2. inverse' = [inverse EXCEPT ![v] = @ \cup {a}] /\ imbalance' = imbalance
        BY <1>2 DEF inc
    <2>3. routes[a] \in RouteMap /\ minRtt[a] \in MinRtt /\ r \in RouteMap /\ r[v] = d /\ o \in SUBSET (Via \X Via)
        BY DEF TableOK, RouteMap, RttOption, Vias
    <2>4. Vias(r) # {} /\ Irreflexive(o)
        BY <1>2, <2>3, NoneNotRtt DEF Vias, Irreflexive, TableOK
    <2>5. m \in MinRtt /\ MinOf(r, m)
        BY <2>3, <2>4, LoopSound
    <2>6. routes' = [routes EXCEPT ![a] = r]
        BY <2>1 DEF SetRoutes
    <2>7. OnlyChanges(a, v, TRUE)
        BY <1>2, <2>6, NoneNotRtt DEF OnlyChanges, TableOK, RouteMap
    <2>8. TableOK'
        <3>1. \A w \in Via : inverse'[w] = {b \in Address : routes'[b][w] # None}
            BY <2>2, <2>7 DEF TableOK, OnlyChanges
        <3>2. inverse' \in [Via -> SUBSET Address] /\ imbalance' = FALSE
            BY <2>2 DEF TableOK
        <3> HIDE DEF r, o
        <3> QED BY <2>1, <2>3, <2>4, <2>5, <3>1, <3>2, TableSet
    <2>9. Sound(Connected', heard', routes')
        <3> DEFINE ev == IncEvents(a, routes[a], v, d, minRtt[a], m)
        <3>0. \A n \in Connected' : /\ n \in Address /\ h[n][a] \in RttOption
                                    /\ n # a /\ h[n][a] # None => Around(routes[a], n)
            BY DEF Sound
        <3>1. \A n \in Connected' : HearEvents(n, h[n][a], ev) \in RttOption
            BY <2>3, <2>5, <3>0, HearEventsType
        <3>2. \A n \in Connected' \ {a} : HearEvents(n, h[n][a], ev) # None => Around(r, n)
            BY <1>2, <2>3, <3>0, IncHeard
        <3> HIDE DEF r, o, ev
        <3>3. heard' = Told(h, a, ev)
            BY <2>1 DEF ev
        <3>4. routes \in [Address -> RouteMap]
            BY DEF TableOK
        <3> QED BY <2>3, <2>6, <3>1, <3>2, <3>3, <3>4, ToldSound
    <2> QED BY <2>7, <2>8, <2>9
<1> QED BY <1>1, <1>2

LEMMA DecSound ==
    ASSUME TableOK, NEW a \in Address, NEW v \in Via, NEW h,
           Connected' \subseteq Address, Sound(Connected', h, routes), dec(a, v, h)
    PROVE  TableOK' /\ Sound(Connected', heard', routes') /\ OnlyChanges(a, v, FALSE)
<1>1. CASE routes[a][v] = None
    <2>1. UNCHANGED routeVars /\ heard' = h
        BY <1>1 DEF dec
    <2> QED BY <1>1, <2>1 DEF routeVars, TableOK, OnlyChanges
<1>2. CASE routes[a][v] # None
    <2> DEFINE r == [routes[a] EXCEPT ![v] = None]
               o == {p \in older[a] : p[1] # v /\ p[2] # v}
    <2>1. PICK m \in IF Vias(r) = {} THEN {NoMin} ELSE LoopMinRtts(r, o) :
              /\ SetRoutes(a, r, o, m)
              /\ heard' = Told(h, a, DecEvents(a, routes[a], v, minRtt[a], m))
        BY <1>2 DEF dec
    <2>2. /\ inverse' = [inverse EXCEPT ![v] = @ \ {a}]
          /\ imbalance' = (imbalance \/ a \notin inverse[v])
        BY <1>2 DEF dec
    <2>3. routes[a] \in RouteMap /\ minRtt[a] \in MinRtt /\ r \in RouteMap /\ o \in SUBSET (Via \X Via)
        BY DEF TableOK, RouteMap, RttOption
    <2>4. Irreflexive(o)
        BY DEF Irreflexive, TableOK
    <2>5. m \in MinRtt /\ MinOf(r, m)
        <3>1. CASE Vias(r) = {}
            BY <2>1, <3>1 DEF MinOf, NoMin, MinRtt, RttOption, Via
        <3>2. CASE Vias(r) # {}
            BY <2>1, <2>3, <2>4, <3>2, LoopSound
        <3> QED BY <3>1, <3>2
    <2>6. routes' = [routes EXCEPT ![a] = r]
        BY <2>1 DEF SetRoutes
    <2>7. OnlyChanges(a, v, FALSE)
        BY <1>2, <2>6 DEF OnlyChanges, TableOK, RouteMap
    <2>8. TableOK'
        <3>1. \A w \in Via : inverse'[w] = {b \in Address : routes'[b][w] # None}
            BY <2>2, <2>7 DEF TableOK, OnlyChanges
        <3>2. inverse' \in [Via -> SUBSET Address] /\ imbalance' = FALSE
            BY <1>2, <2>2 DEF TableOK
        <3> HIDE DEF r, o
        <3> QED BY <2>1, <2>3, <2>4, <2>5, <3>1, <3>2, TableSet
    <2>9. Sound(Connected', heard', routes')
        <3> DEFINE ev == DecEvents(a, routes[a], v, minRtt[a], m)
        <3>0. \A n \in Connected' : /\ n \in Address /\ h[n][a] \in RttOption
                                    /\ n # a /\ h[n][a] # None => Around(routes[a], n)
            BY DEF Sound
        <3>1. \A n \in Connected' : HearEvents(n, h[n][a], ev) \in RttOption
            <4>1. routes[a][v] \in Rtt
                BY <1>2, <2>3 DEF RouteMap, RttOption
            <4> QED BY <2>3, <2>5, <3>0, <4>1, HearEventsType
        <3>2. \A n \in Connected' \ {a} : HearEvents(n, h[n][a], ev) # None => Around(r, n)
            BY <1>2, <2>3, <3>0, DecHeard
        <3> HIDE DEF r, o, ev
        <3>3. heard' = Told(h, a, ev)
            BY <2>1 DEF ev
        <3>4. routes \in [Address -> RouteMap]
            BY DEF TableOK
        <3> QED BY <2>3, <2>6, <3>1, <3>2, <3>3, <3>4, ToldSound
    <2> QED BY <2>7, <2>8, <2>9
<1> QED BY <1>1, <1>2

LEMMA UpdateSound ==
    ASSUME TableOK, NEW a \in Address, NEW v \in Via, NEW d \in Rtt, NEW h,
           Connected' \subseteq Address, Sound(Connected', h, routes), update(a, v, d, h)
    PROVE  /\ TableOK' /\ Sound(Connected', heard', routes')
           /\ OnlyChanges(a, v, routes[a][v] # None)
<1>1. CASE routes[a][v] = None
    <2>1. UNCHANGED routeVars /\ heard' = h
        BY <1>1 DEF update
    <2> QED BY <1>1, <2>1 DEF routeVars, TableOK, OnlyChanges
<1>2. CASE routes[a][v] # None
    <2> DEFINE r == [routes[a] EXCEPT ![v] = d]
    <2>1. PICK m \in LoopMinRtts(r, older[a]) :
              /\ SetRoutes(a, r, older[a], m)
              /\ heard' = Told(h, a, UpdateEvents(a, minRtt[a], m))
        BY <1>2 DEF update
    <2>2. inverse' = inverse /\ imbalance' = imbalance
        BY <1>2 DEF update
    <2>3. /\ routes[a] \in RouteMap /\ minRtt[a] \in MinRtt /\ r \in RouteMap /\ r[v] = d
          /\ older[a] \in SUBSET (Via \X Via) /\ Irreflexive(older[a])
        BY DEF TableOK, RouteMap, RttOption
    <2>4. Vias(r) # {}
        BY <2>3, NoneNotRtt DEF Vias
    <2>5. m \in MinRtt /\ MinOf(r, m)
        BY <2>3, <2>4, LoopSound
    <2>6. routes' = [routes EXCEPT ![a] = r]
        BY <2>1 DEF SetRoutes
    <2>7. OnlyChanges(a, v, TRUE)
        BY <1>2, <2>6, NoneNotRtt DEF OnlyChanges, TableOK, RouteMap
    <2>8. TableOK'
        <3>1. \A w \in Via : inverse'[w] = {b \in Address : routes'[b][w] # None}
            BY <1>2, <2>2, <2>7 DEF TableOK, OnlyChanges
        <3>2. inverse' \in [Via -> SUBSET Address] /\ imbalance' = FALSE
            BY <2>2 DEF TableOK
        <3> HIDE DEF r
        <3> QED BY <2>1, <2>3, <2>5, <3>1, <3>2, TableSet
    <2>9. Sound(Connected', heard', routes')
        <3> DEFINE ev == UpdateEvents(a, minRtt[a], m)
        <3>0. \A n \in Connected' : /\ n \in Address /\ h[n][a] \in RttOption
                                    /\ n # a /\ h[n][a] # None => Around(routes[a], n)
            BY DEF Sound
        <3>1. \A n \in Connected' : HearEvents(n, h[n][a], ev) \in RttOption
            BY <2>3, <2>5, <3>0, HearEventsType
        <3>2. \A n \in Connected' \ {a} : HearEvents(n, h[n][a], ev) # None => Around(r, n)
            <4>1. \A n : Around(routes[a], n) => Around(r, n)
                BY <2>3, NoneNotRtt DEF Around, RouteMap
            <4> QED BY <3>0, <4>1, UpdateHeard
        <3> HIDE DEF r, ev
        <3>3. heard' = Told(h, a, ev)
            BY <2>1 DEF ev
        <3>4. routes \in [Address -> RouteMap]
            BY DEF TableOK
        <3> QED BY <2>3, <2>6, <3>1, <3>2, <3>3, <3>4, ToldSound
    <2> QED BY <1>2, <2>7, <2>8, <2>9
<1> QED BY <1>1, <1>2

-----------------------------------------------------------------------------
(* The steps.                                                                *)

WaitOK ==
    /\ timers \subseteq Waiter /\ waiting \in [Waiter -> SUBSET Address]
    /\ notFound \in BOOLEAN /\ skipped \subseteq Waiter

\* A direct route goes with every connection, and each neighbour's offers are backed.
IInv ==
    /\ TableOK
    /\ rtts \in [Address -> RttOption]
    /\ fresh \subseteq Address
    /\ WaitOK
    /\ \A n \in Address : routes[n][Direct] # None <=> rtts[n] # None
    /\ Sound(Connected, heard, routes)

LEMMA InitIInv == Init => IInv
<1> SUFFICES ASSUME Init PROVE IInv
    OBVIOUS
<1>1. \A a \in Address : /\ routes[a] = NoRoutes /\ older[a] = {} /\ minRtt[a] = NoMin
                         /\ rtts[a] = None
    BY DEF Init
<1>2. NoRoutes \in RouteMap /\ NoMin \in MinRtt /\ \A v \in Via : NoRoutes[v] = None
    BY DEF NoRoutes, RouteMap, RttOption, NoMin, MinRtt, Via
<1>3. \A a \in Address : Irreflexive(older[a]) /\ MinOf(routes[a], minRtt[a])
    <2>1. \A a \in Address : Vias(routes[a]) = {}
        BY <1>1, <1>2 DEF Vias
    <2>2. \A a \in Address : MinOf(routes[a], minRtt[a])
        <3>1. NoMin.second_best = None
            BY DEF NoMin
        <3>2. \A a \in Address : minRtt[a] = NoMin /\ minRtt[a].second_best = None
            BY <1>1, <3>1
        <3> QED BY <2>1, <3>2 DEF MinOf
    <2> QED BY <1>1, <2>2 DEF Irreflexive
<1>4. TableOK
    <2>1. /\ routes \in [Address -> RouteMap] /\ older \in [Address -> SUBSET (Via \X Via)]
          /\ minRtt \in [Address -> MinRtt] /\ inverse \in [Via -> SUBSET Address]
          /\ imbalance = FALSE
        BY <1>2 DEF Init
    <2>2. \A v \in Via : inverse[v] = {a \in Address : routes[a][v] # None}
        BY <1>1, <1>2 DEF Init
    <2> QED BY <1>3, <2>1, <2>2 DEF TableOK
<1>5. Connected = {}
    BY <1>1 DEF Connected
<1>6. Sound(Connected, heard, routes)
    BY <1>5 DEF Init, Sound, RttOption
<1>7. \A n \in Address : routes[n][Direct] # None <=> rtts[n] # None
    BY <1>1, <1>2 DEF Via
<1> QED BY <1>4, <1>6, <1>7 DEF Init, IInv, WaitOK, RttOption

LEMMA SettlesType ==
    ASSUME WaitOK, NEW W, Settles(W), skipped' \subseteq Waiter
    PROVE  WaitOK'
BY DEF WaitOK, Settles, cleanup, removeListeners

LEMMA IncWait ==
    ASSUME WaitOK, NEW a, NEW v, NEW d, NEW h, inc(a, v, d, h)
    PROVE  WaitOK'
<1>1. UNCHANGED waitVars \/ CallWaiters(a)
    BY DEF inc
<1>2. CASE UNCHANGED waitVars
    BY <1>2 DEF waitVars, WaitOK
<1>3. CASE CallWaiters(a)
    <2>1. skipped' \subseteq Waiter
        BY <1>3 DEF CallWaiters, Behind, Waits, WaitOK
    <2> QED BY <1>3, <2>1, SettlesType DEF CallWaiters
<1> QED BY <1>1, <1>2, <1>3

\* The table is left alone.
LEMMA TableKept ==
    ASSUME IInv, UNCHANGED <<routeVars, rtts, heard, fresh>>, WaitOK'
    PROVE  IInv'
<1>1. TableOK' /\ Connected' = Connected
    BY DEF IInv, TableOK, routeVars, Connected
<1>2. Sound(Connected', heard', routes')
    BY <1>1 DEF IInv, routeVars
<1> QED BY <1>1, <1>2 DEF IInv, WaitOK, routeVars

LEMMA AddDirectKeeps ==
    ASSUME IInv, NEW n \in Address, NEW d \in Rtt, addDirect(n, d)
    PROVE  IInv'
<1> DEFINE listed == [a \in Address |-> OfferedTo(n, minRtt[a])]
           h == [heard EXCEPT ![n] = listed]
<1>1. rtts' = [rtts EXCEPT ![n] = d] /\ inc(n, Direct, d, h)
    BY DEF addDirect
<1>2. Connected' = Connected \cup {n} /\ Connected' \subseteq Address
    BY <1>1, NoneNotRtt DEF Connected, IInv
<1>3. \A a \in Address : OfferedTo(n, minRtt[a]) \in RttOption
                         /\ (OfferedTo(n, minRtt[a]) # None => Around(routes[a], n))
    <2> SUFFICES ASSUME NEW a \in Address
                 PROVE  OfferedTo(n, minRtt[a]) \in RttOption
                        /\ (OfferedTo(n, minRtt[a]) # None => Around(routes[a], n))
        OBVIOUS
    <2>1. routes[a] \in RouteMap /\ minRtt[a] \in MinRtt /\ MinOf(routes[a], minRtt[a])
        BY DEF IInv, TableOK
    <2> QED BY <2>1, OfferSound
<1>4. Sound(Connected', h, routes)
    <2>1. \A m \in Address : h[m] = IF m = n THEN listed ELSE heard[m]
        BY DEF IInv, Sound
    <2>2. \A a \in Address : listed[a] = OfferedTo(n, minRtt[a])
        OBVIOUS
    <2>3. listed \in [Address -> RttOption]
        BY <1>3
    <2> HIDE DEF listed
    <2>4. h \in [Address -> [Address -> RttOption]]
        BY <2>3 DEF IInv, Sound
    <2> QED BY <1>2, <1>3, <2>1, <2>2, <2>4 DEF IInv, Sound
<1> HIDE DEF h
<1>5. TableOK' /\ Sound(Connected', heard', routes') /\ OnlyChanges(n, Direct, TRUE)
    BY <1>1, <1>2, <1>4, IncSound DEF IInv, Via
<1>6. WaitOK'
    BY <1>1, IncWait DEF IInv, WaitOK
<1>7. \A m \in Address : routes'[m][Direct] # None <=> rtts'[m] # None
    BY <1>1, <1>5, NoneNotRtt DEF IInv, OnlyChanges, Via
<1>8. rtts' \in [Address -> RttOption] /\ fresh' \subseteq Address
    BY <1>1 DEF addDirect, IInv, RttOption
<1> QED BY <1>5, <1>6, <1>7, <1>8 DEF IInv, WaitOK

LEMMA RemoveDirectKeeps ==
    ASSUME IInv, NEW n \in Address, removeDirect(n)
    PROVE  IInv'
<1>1. rtts' = [rtts EXCEPT ![n] = None] /\ dec(n, Direct, heard)
    BY DEF removeDirect
<1>2. Connected' \subseteq Connected /\ Connected' \subseteq Address
    BY <1>1 DEF Connected, IInv
<1>3. Sound(Connected', heard, routes)
    BY <1>2 DEF IInv, Sound
<1>4. TableOK' /\ Sound(Connected', heard', routes') /\ OnlyChanges(n, Direct, FALSE)
    BY <1>1, <1>2, <1>3, DecSound DEF IInv, Via
<1>5. \A m \in Address : routes'[m][Direct] # None <=> rtts'[m] # None
    BY <1>1, <1>4 DEF IInv, OnlyChanges, Via
<1>6. /\ rtts' \in [Address -> RttOption] /\ fresh' \subseteq Address
      /\ UNCHANGED <<timers, waiting, notFound, skipped>>
    BY <1>1 DEF removeDirect, IInv, RttOption, waitVars
<1> QED BY <1>4, <1>5, <1>6 DEF IInv, WaitOK

\* A notification of a neighbour changes a route over that neighbour, and no
\* connection.
LEMMA NotificationKeeps ==
    ASSUME IInv, NEW n \in Address, NEW a \in Address, NEW b, UNCHANGED <<rtts, fresh>>,
           TableOK', Sound(Connected, heard', routes'), OnlyChanges(a, n, b), WaitOK'
    PROVE  IInv'
<1>1. Connected' = Connected
    BY DEF Connected
<1>2. \A m \in Address : routes'[m][Direct] # None <=> rtts'[m] # None
    BY DEF IInv, OnlyChanges, Via
<1> QED BY <1>1, <1>2 DEF IInv, WaitOK

LEMMA NextIInv == IInv /\ [Next]_vars => IInv'
<1> SUFFICES ASSUME IInv, [Next]_vars PROVE IInv'
    OBVIOUS
<1>1. WaitOK /\ TableOK /\ Sound(Connected, heard, routes) /\ Connected \subseteq Address
    BY DEF IInv, WaitOK, Connected
<1>2. ASSUME NEW n \in Neighbour, NEW d \in Rtt, addDirect(n, d) PROVE IInv'
    BY <1>2, AddDirectKeeps
<1>3. ASSUME NEW n \in Neighbour, removeDirect(n) PROVE IInv'
    BY <1>3, RemoveDirectKeeps
<1>4. ASSUME NEW n \in Neighbour, NEW a \in Target, OnAddForwarded(n, a) PROVE IInv'
    <2>1. rtts[n] \in Rtt /\ inc(a, n, rtts[n], heard) /\ UNCHANGED <<rtts, fresh>>
        BY <1>4 DEF OnAddForwarded, IInv, RttOption
    <2>2. Connected' = Connected
        BY <2>1 DEF Connected
    <2>3. TableOK' /\ Sound(Connected, heard', routes') /\ OnlyChanges(a, n, TRUE)
        BY <1>1, <2>1, <2>2, IncSound DEF Via
    <2>4. WaitOK'
        BY <1>1, <2>1, IncWait
    <2> QED BY <2>1, <2>3, <2>4, NotificationKeeps
<1>5. ASSUME NEW n \in Neighbour, NEW a \in Target, OnRemoveForwarded(n, a) PROVE IInv'
    <2>1. dec(a, n, heard) /\ UNCHANGED <<rtts, fresh, waitVars>>
        BY <1>5 DEF OnRemoveForwarded
    <2>2. Connected' = Connected
        BY <2>1 DEF Connected
    <2>3. TableOK' /\ Sound(Connected, heard', routes') /\ OnlyChanges(a, n, FALSE)
        BY <1>1, <2>1, <2>2, DecSound DEF Via
    <2>4. WaitOK'
        BY <1>1, <2>1 DEF waitVars, WaitOK
    <2> QED BY <2>1, <2>3, <2>4, NotificationKeeps
<1>6. ASSUME NEW n \in Neighbour, NEW a \in Target, NEW d \in Rtt, OnUpdatedForwardedRtt(n, a, d)
      PROVE  IInv'
    <2>1. update(n, a, d, heard) /\ UNCHANGED <<rtts, fresh, waitVars>>
        BY <1>6 DEF OnUpdatedForwardedRtt
    <2>2. Connected' = Connected
        BY <2>1 DEF Connected
    <2>3. TableOK' /\ Sound(Connected, heard', routes') /\ OnlyChanges(n, a, routes[n][a] # None)
        BY <1>1, <2>1, <2>2, UpdateSound DEF Via
    <2>4. WaitOK'
        BY <1>1, <2>1 DEF waitVars, WaitOK
    <2> QED BY <2>1, <2>3, <2>4, NotificationKeeps
<1>7. ASSUME NEW w \in Waiter, Timeout(w) PROVE IInv'
    <2>1. WaitOK' /\ UNCHANGED <<routeVars, rtts, heard, fresh>>
        <3>1. skipped' \subseteq Waiter
            BY <1>1, <1>7 DEF Timeout, WaitOK
        <3> QED BY <1>1, <1>7, <3>1, SettlesType DEF Timeout
    <2> QED BY <2>1, TableKept
<1>8. ASSUME NEW w \in Waiter, NEW a \in Address, waitForConnectionTo(w, a) PROVE IInv'
    <2>1. WaitOK' /\ UNCHANGED <<routeVars, rtts, heard, fresh>>
        BY <1>1, <1>8 DEF waitForConnectionTo, WaitOK
    <2> QED BY <2>1, TableKept
<1>9. CASE UNCHANGED vars
    <2>1. WaitOK' /\ UNCHANGED <<routeVars, rtts, heard, fresh>>
        BY <1>1, <1>9 DEF vars, waitVars, WaitOK
    <2> QED BY <2>1, TableKept
<1> QED BY <1>2, <1>3, <1>4, <1>5, <1>6, <1>7, <1>8, <1>9 DEF Next

-----------------------------------------------------------------------------
(* What is reachable around a neighbour is offered to it.                    *)

\* The neighbours of C hold an offer of every address with a route of R around them.
Offered(C, h, R) == \A n \in C : \A a \in Address \ {n} : Around(R[a], n) => h[n][a] # None

LEMMA IncOffers ==
    ASSUME NEW n \in Address, NEW a \in Address, n # a, NEW r \in RouteMap, NEW v \in Via,
           NEW d \in Rtt, r[v] = None, NEW old \in MinRtt, NEW m \in MinRtt, NEW h,
           Around(r, n) <=> h # None, Around([r EXCEPT ![v] = d], n)
    PROVE  HearEvents(n, h, IncEvents(a, r, v, d, old, m)) # None
<1> DEFINE q == [r EXCEPT ![v] = d]
           ev == IncEvents(a, r, v, d, old, m)
           x == Hear(h, NotificationFor(n, ev.list))
<1>1. \A w \in Via : q[w] = IF w = v THEN d ELSE r[w]
    BY DEF RouteMap
<1>2. n # v \/ Around(r, n)
    BY <1>1 DEF Around
<1>3. x # None => Hear(x, NotificationFor(n, ev.min)) # None
    <2>1. ev.min = NoEvent \/ ev.min = MinRttUpdated(a, old, m)
        BY DEF IncEvents
    <2> HIDE DEF x, ev
    <2> QED BY <2>1, HearMinKeeps, HearNoEvent
<1>4. x # None
    <2>1. CASE Vias(r) = {}
        <3>1. ev.list = ConnectionAdded(a, v, d)
            BY <2>1 DEF IncEvents
        <3>2. ~Around(r, n)
            BY <2>1 DEF Around, Vias
        <3> QED BY <1>2, <3>1, <3>2, HearConnectionAdded, NoneNotRtt
    <2>2. CASE Vias(r) # {} /\ IsSingle(r)
        <3>1. ev.list = ViaListSeconded(a, OnlyVia(r), Least(d, r[OnlyVia(r)]))
            BY <2>2 DEF IncEvents
        <3>2. OnlyVia(r) \in Via /\ Vias(r) = {OnlyVia(r)} /\ r[OnlyVia(r)] \in Rtt
            <4>1. PICK u \in Via : Vias(r) = {u}
                BY <2>2 DEF IsSingle
            <4>2. OnlyVia(r) = u
                BY <4>1, OnlyViaIs
            <4> QED BY <4>1, <4>2 DEF Vias, RouteMap, RttOption
        <3>3. Least(d, r[OnlyVia(r)]) # None
            BY <3>2, NoneNotRtt DEF Least
        <3>4. ~Around(r, n) => n = OnlyVia(r)
            BY <3>2 DEF Around, Vias
        <3> QED BY <3>1, <3>3, <3>4, HearViaListSeconded
    <2>3. CASE Vias(r) # {} /\ ~IsSingle(r)
        <3>1. ev.list = NoEvent
            BY <2>3 DEF IncEvents
        <3>2. Around(r, n)
            BY <2>3 DEF Around, Vias, IsSingle
        <3> QED BY <3>1, <3>2, HearNoEvent
    <2> QED BY <2>1, <2>2, <2>3
<1> QED BY <1>3, <1>4 DEF HearEvents

LEMMA DecOffers ==
    ASSUME NEW n \in Address, NEW a \in Address, n # a, NEW r \in RouteMap, NEW v \in Via,
           NEW old \in MinRtt, NEW m \in MinRtt, NEW h,
           Around(r, n) => h # None, Around([r EXCEPT ![v] = None], n)
    PROVE  HearEvents(n, h, DecEvents(a, r, v, old, m)) # None
<1> DEFINE q == [r EXCEPT ![v] = None]
           ev == DecEvents(a, r, v, old, m)
           x == Hear(h, NotificationFor(n, ev.list))
<1>1. \A w \in Via : q[w] = IF w = v THEN None ELSE r[w]
    BY DEF RouteMap
<1>2. h # None
    BY <1>1 DEF Around
<1>3. x # None => Hear(x, NotificationFor(n, ev.min)) # None
    <2>1. ev.min = NoEvent \/ ev.min = MinRttUpdated(a, old, m)
        BY DEF DecEvents
    <2> HIDE DEF x, ev
    <2> QED BY <2>1, HearMinKeeps, HearNoEvent
<1>4. x # None
    <2>1. Vias(q) # {}
        BY DEF Around, Vias
    <2>2. CASE IsSingle(q)
        <3>1. ev.list = ViaListUnseconded(a, OnlyVia(q))
            BY <2>1, <2>2 DEF DecEvents
        <3>2. n # OnlyVia(q)
            <4>1. PICK u \in Via : Vias(q) = {u}
                BY <2>2 DEF IsSingle
            <4>2. OnlyVia(q) = u
                BY <4>1, OnlyViaIs
            <4> QED BY <4>1, <4>2 DEF Around, Vias
        <3> QED BY <1>2, <3>1, <3>2, HearViaListUnseconded
    <2>3. CASE ~IsSingle(q)
        <3>1. ev.list = NoEvent
            BY <2>1, <2>3 DEF DecEvents
        <3> QED BY <1>2, <3>1, HearNoEvent
    <2> QED BY <2>2, <2>3
<1> QED BY <1>3, <1>4 DEF HearEvents

LEMMA UpdateOffers ==
    ASSUME NEW n, NEW a, NEW old \in MinRtt, NEW m \in MinRtt, NEW h, h # None
    PROVE  HearEvents(n, h, UpdateEvents(a, old, m)) # None
BY HearMinKeeps, HearNoEvent DEF HearEvents, UpdateEvents

\* One address is announced anew to the neighbours of C, among others.
LEMMA ToldOffered ==
    ASSUME NEW h \in [Address -> [Address -> RttOption]], NEW R \in [Address -> RouteMap],
           NEW a \in Address, NEW ev, NEW r, NEW C, C \subseteq Connected' \cap Address,
           Offered(C, h, R), heard' = Told(h, a, ev),
           \A n \in C \ {a} : Around(r, n) => HearEvents(n, h[n][a], ev) # None
    PROVE  Offered(C, heard', [R EXCEPT ![a] = r])
<1> SUFFICES ASSUME NEW n \in C, NEW b \in Address \ {n}, Around([R EXCEPT ![a] = r][b], n)
             PROVE  heard'[n][b] # None
    BY DEF Offered
<1>1. n \in Address /\ n \in Connected' /\ h[n] \in [Address -> RttOption]
    OBVIOUS
<1>2. heard'[n] = [h[n] EXCEPT ![a] = HearEvents(n, h[n][a], ev)]
    BY <1>1 DEF Told
<1>3. CASE b = a
    <2>1. heard'[n][b] = HearEvents(n, h[n][a], ev)
        BY <1>1, <1>2, <1>3
    <2>2. Around(r, n)
        BY <1>3
    <2> QED BY <1>3, <2>1, <2>2
<1>4. CASE b # a
    <2>1. heard'[n][b] = h[n][b]
        BY <1>1, <1>2, <1>4
    <2>2. Around(R[b], n)
        BY <1>4
    <2> QED BY <2>1, <2>2 DEF Offered
<1> QED BY <1>3, <1>4

LEMMA IncOffered ==
    ASSUME TableOK, TableOK', NEW a \in Address, NEW v \in Via, NEW d \in Rtt, NEW h, NEW C,
           Connected' \subseteq Address, Sound(Connected', h, routes), inc(a, v, d, h),
           C \subseteq Connected', Offered(C, h, routes)
    PROVE  Offered(C, heard', routes')
<1>1. CASE routes[a][v] # None
    <2>1. UNCHANGED routeVars /\ heard' = h
        BY <1>1 DEF inc
    <2> QED BY <2>1 DEF routeVars
<1>2. CASE routes[a][v] = None
    <2> DEFINE r == [routes[a] EXCEPT ![v] = d]
               o == older[a] \cup {<<w, v>> : w \in Vias(routes[a])}
    <2>1. PICK m \in LoopMinRtts(r, o) :
              /\ SetRoutes(a, r, o, m)
              /\ heard' = Told(h, a, IncEvents(a, routes[a], v, d, minRtt[a], m))
        BY <1>2 DEF inc
    <2> DEFINE ev == IncEvents(a, routes[a], v, d, minRtt[a], m)
    <2>2. routes' = [routes EXCEPT ![a] = r] /\ m \in MinRtt
        BY <2>1 DEF SetRoutes, LoopMinRtts
    <2>3. routes[a] \in RouteMap /\ minRtt[a] \in MinRtt /\ routes \in [Address -> RouteMap]
        BY DEF TableOK
    <2>4. ASSUME NEW n \in C \ {a}, Around(r, n) PROVE HearEvents(n, h[n][a], ev) # None
        <3>1. n \in Address /\ (Around(routes[a], n) <=> h[n][a] # None)
            BY DEF Sound, Offered
        <3> QED BY <1>2, <2>2, <2>3, <2>4, <3>1, IncOffers
    <2>5. heard' = Told(h, a, ev)
        BY <2>1
    <2> HIDE DEF r, o, ev
    <2>6. Offered(C, heard', [routes EXCEPT ![a] = r])
        BY <2>3, <2>4, <2>5, ToldOffered DEF Sound
    <2> QED BY <2>2, <2>6
<1> QED BY <1>1, <1>2

LEMMA DecOffered ==
    ASSUME TableOK, TableOK', NEW a \in Address, NEW v \in Via, NEW h, NEW C,
           Connected' \subseteq Address, Sound(Connected', h, routes), dec(a, v, h),
           C \subseteq Connected', Offered(C, h, routes)
    PROVE  Offered(C, heard', routes')
<1>1. CASE routes[a][v] = None
    <2>1. UNCHANGED routeVars /\ heard' = h
        BY <1>1 DEF dec
    <2> QED BY <2>1 DEF routeVars
<1>2. CASE routes[a][v] # None
    <2> DEFINE r == [routes[a] EXCEPT ![v] = None]
               o == {p \in older[a] : p[1] # v /\ p[2] # v}
    <2>1. PICK m \in IF Vias(r) = {} THEN {NoMin} ELSE LoopMinRtts(r, o) :
              /\ SetRoutes(a, r, o, m)
              /\ heard' = Told(h, a, DecEvents(a, routes[a], v, minRtt[a], m))
        BY <1>2 DEF dec
    <2> DEFINE ev == DecEvents(a, routes[a], v, minRtt[a], m)
    <2>2. routes' = [routes EXCEPT ![a] = r] /\ m \in MinRtt
        BY <2>1 DEF SetRoutes, LoopMinRtts, NoMin, MinRtt, RttOption, Via
    <2>3. routes[a] \in RouteMap /\ minRtt[a] \in MinRtt /\ routes \in [Address -> RouteMap]
        BY DEF TableOK
    <2>4. ASSUME NEW n \in C \ {a}, Around(r, n) PROVE HearEvents(n, h[n][a], ev) # None
        <3>1. n \in Address /\ (Around(routes[a], n) => h[n][a] # None)
            BY DEF Offered
        <3> QED BY <2>2, <2>3, <2>4, <3>1, DecOffers
    <2>5. heard' = Told(h, a, ev)
        BY <2>1
    <2> HIDE DEF r, o, ev
    <2>6. Offered(C, heard', [routes EXCEPT ![a] = r])
        BY <2>3, <2>4, <2>5, ToldOffered DEF Sound
    <2> QED BY <2>2, <2>6
<1> QED BY <1>1, <1>2

LEMMA UpdateOffered ==
    ASSUME TableOK, TableOK', NEW a \in Address, NEW v \in Via, NEW d \in Rtt, NEW h, NEW C,
           Connected' \subseteq Address, Sound(Connected', h, routes), update(a, v, d, h),
           C \subseteq Connected', Offered(C, h, routes)
    PROVE  Offered(C, heard', routes')
<1>1. CASE routes[a][v] = None
    <2>1. UNCHANGED routeVars /\ heard' = h
        BY <1>1 DEF update
    <2> QED BY <2>1 DEF routeVars
<1>2. CASE routes[a][v] # None
    <2> DEFINE r == [routes[a] EXCEPT ![v] = d]
    <2>1. PICK m \in LoopMinRtts(r, older[a]) :
              /\ SetRoutes(a, r, older[a], m)
              /\ heard' = Told(h, a, UpdateEvents(a, minRtt[a], m))
        BY <1>2 DEF update
    <2> DEFINE ev == UpdateEvents(a, minRtt[a], m)
    <2>2. routes' = [routes EXCEPT ![a] = r] /\ m \in MinRtt
        BY <2>1 DEF SetRoutes, LoopMinRtts
    <2>3. routes[a] \in RouteMap /\ minRtt[a] \in MinRtt /\ routes \in [Address -> RouteMap]
        BY DEF TableOK
    <2>4. ASSUME NEW n \in C \ {a}, Around(r, n) PROVE HearEvents(n, h[n][a], ev) # None
        <3>1. Around(routes[a], n)
            BY <1>2, <2>3, <2>4 DEF Around, RouteMap
        <3>2. h[n][a] # None
            BY <3>1 DEF Offered
        <3> QED BY <2>2, <2>3, <3>2, UpdateOffers
    <2>5. heard' = Told(h, a, ev)
        BY <2>1
    <2> HIDE DEF r, ev
    <2>6. Offered(C, heard', [routes EXCEPT ![a] = r])
        BY <2>3, <2>4, <2>5, ToldOffered DEF Sound
    <2> QED BY <2>2, <2>6
<1> QED BY <1>1, <1>2

\* Every neighbour without leftovers is offered what it can reach.
OIInv == Offered(Connected \cap fresh, heard, routes)

\* Without a route over n the list that n is sent has every address with a route:
\* whatever the loop of #updateMinRtt took for the second best is not asked for.
LEMMA AddDirectOffered ==
    ASSUME IInv, IInv', OIInv, NEW n \in Address, NEW d \in Rtt, addDirect(n, d)
    PROVE  OIInv'
<1> DEFINE listed == [a \in Address |-> OfferedTo(n, minRtt[a])]
           h == [heard EXCEPT ![n] = listed]
           C == Connected' \cap fresh'
<1>1. rtts' = [rtts EXCEPT ![n] = d] /\ inc(n, Direct, d, h)
    BY DEF addDirect
<1>2. fresh' = IF \E a \in Address : routes[a][n] # None THEN fresh \ {n} ELSE fresh \cup {n}
    BY DEF addDirect
<1>3. Connected' = Connected \cup {n} /\ Connected' \subseteq Address
    BY <1>1, NoneNotRtt DEF Connected, IInv
<1>4. \A a \in Address : /\ routes[a] \in RouteMap /\ minRtt[a] \in MinRtt
                         /\ MinOf(routes[a], minRtt[a])
    BY DEF IInv, TableOK
<1>5. \A m \in Address : h[m] = IF m = n THEN listed ELSE heard[m]
    BY DEF IInv, Sound
<1>6. \A a \in Address : listed[a] = OfferedTo(n, minRtt[a])
    OBVIOUS
<1> HIDE DEF listed
<1>7. Sound(Connected', h, routes)
    <2>1. \A a \in Address : listed[a] \in RttOption /\ (listed[a] # None => Around(routes[a], n))
        <3> SUFFICES ASSUME NEW a \in Address
                     PROVE  listed[a] \in RttOption /\ (listed[a] # None => Around(routes[a], n))
            OBVIOUS
        <3> QED BY <1>4, <1>6, OfferSound
    <2>2. listed \in [Address -> RttOption]
        BY <2>1 DEF listed
    <2>3. h \in [Address -> [Address -> RttOption]]
        BY <2>2 DEF IInv, Sound
    <2> QED BY <1>3, <1>5, <2>1, <2>3 DEF IInv, Sound
<1>8. Offered(C, h, routes)
    <2> SUFFICES ASSUME NEW m \in C, NEW a \in Address \ {m}, Around(routes[a], m)
                 PROVE  h[m][a] # None
        BY DEF Offered
    <2>1. m \in Address
        BY <1>3
    <2>2. CASE m # n
        <3>1. m \in Connected \cap fresh /\ h[m][a] = heard[m][a]
            BY <1>2, <1>3, <1>5, <2>1, <2>2
        <3> QED BY <3>1 DEF OIInv, Offered
    <2>3. CASE m = n
        <3>1. routes[a][n] = None
            BY <1>2, <2>3
        <3>2. Vias(routes[a]) # {}
            BY DEF Around, Vias
        <3>3. minRtt[a].rtt = routes[a][minRtt[a].via] /\ minRtt[a].rtt # None
            BY <1>4, <3>2 DEF MinOf
        <3>4. OfferedTo(n, minRtt[a]) # None
            BY <3>1, <3>3 DEF OfferedTo
        <3> QED BY <1>5, <1>6, <2>1, <2>3, <3>4
    <2> QED BY <2>2, <2>3
<1> HIDE DEF h, C
<1>9. C \subseteq Connected' /\ Direct \in Via /\ TableOK /\ TableOK'
    BY DEF C, Via, IInv
<1>10. Offered(C, heard', routes')
    BY <1>1, <1>3, <1>7, <1>8, <1>9, IncOffered
<1> QED BY <1>10 DEF OIInv, C

LEMMA NextOffered == IInv /\ IInv' /\ OIInv /\ [Next]_vars => OIInv'
<1> SUFFICES ASSUME IInv, IInv', OIInv, [Next]_vars PROVE OIInv'
    OBVIOUS
<1>1. /\ TableOK /\ TableOK' /\ Connected \subseteq Address /\ Connected' \subseteq Address
      /\ Sound(Connected, heard, routes)
    BY DEF IInv, Connected
<1> DEFINE C == Connected' \cap fresh'
<1>2. C \subseteq Connected' /\ OIInv' = Offered(C, heard', routes')
    BY DEF OIInv
<1>3. ASSUME Connected' \subseteq Connected, fresh' = fresh
      PROVE  Sound(Connected', heard, routes) /\ Offered(C, heard, routes)
    BY <1>1, <1>3 DEF Sound, OIInv, Offered
<1>4. rtts' = rtts => Connected' = Connected
    BY DEF Connected
<1>5. ASSUME NEW n \in Neighbour, NEW d \in Rtt, addDirect(n, d) PROVE OIInv'
    BY <1>5, AddDirectOffered
<1>6. ASSUME NEW n \in Neighbour, removeDirect(n) PROVE OIInv'
    <2>1. dec(n, Direct, heard) /\ rtts' = [rtts EXCEPT ![n] = None] /\ fresh' = fresh
        BY <1>6 DEF removeDirect
    <2>2. Connected' \subseteq Connected
        BY <2>1 DEF Connected, IInv
    <2>3. n \in Address /\ Direct \in Via
        BY DEF Via
    <2> HIDE DEF C
    <2> QED BY <1>1, <1>2, <1>3, <2>1, <2>2, <2>3, DecOffered
<1>7. ASSUME NEW n \in Neighbour, NEW a \in Target, OnAddForwarded(n, a) PROVE OIInv'
    <2>1. rtts[n] \in Rtt /\ inc(a, n, rtts[n], heard) /\ UNCHANGED <<rtts, fresh>>
        BY <1>7 DEF OnAddForwarded, IInv, RttOption
    <2>2. a \in Address /\ n \in Via /\ Connected' \subseteq Connected
        BY <1>4, <2>1 DEF Via
    <2> HIDE DEF C
    <2> QED BY <1>1, <1>2, <1>3, <2>1, <2>2, IncOffered
<1>8. ASSUME NEW n \in Neighbour, NEW a \in Target, OnRemoveForwarded(n, a) PROVE OIInv'
    <2>1. dec(a, n, heard) /\ UNCHANGED <<rtts, fresh>>
        BY <1>8 DEF OnRemoveForwarded
    <2>2. a \in Address /\ n \in Via /\ Connected' \subseteq Connected
        BY <1>4, <2>1 DEF Via
    <2> HIDE DEF C
    <2> QED BY <1>1, <1>2, <1>3, <2>1, <2>2, DecOffered
<1>9. ASSUME NEW n \in Neighbour, NEW a \in Target, NEW d \in Rtt, OnUpdatedForwardedRtt(n, a, d)
      PROVE  OIInv'
    <2>1. update(n, a, d, heard) /\ UNCHANGED <<rtts, fresh>>
        BY <1>9 DEF OnUpdatedForwardedRtt
    <2>2. n \in Address /\ a \in Via /\ Connected' \subseteq Connected
        BY <1>4, <2>1 DEF Via
    <2> HIDE DEF C
    <2> QED BY <1>1, <1>2, <1>3, <2>1, <2>2, UpdateOffered
<1>10. ASSUME UNCHANGED <<routeVars, rtts, heard, fresh>> PROVE OIInv'
    BY <1>4, <1>10 DEF OIInv, routeVars
<1>11. ASSUME NEW w \in Waiter, Timeout(w) PROVE OIInv'
    BY <1>10, <1>11 DEF Timeout
<1>12. ASSUME NEW w \in Waiter, NEW a \in Address, waitForConnectionTo(w, a) PROVE OIInv'
    BY <1>10, <1>12 DEF waitForConnectionTo
<1>13. CASE UNCHANGED vars
    BY <1>10, <1>13 DEF vars
<1> QED BY <1>5, <1>6, <1>7, <1>8, <1>9, <1>11, <1>12, <1>13 DEF Next

-----------------------------------------------------------------------------
(* The listeners and timeouts of those who wait.                             *)

\* The recursion of Spliced, on the places up to k.
Splices(s, W, k, f) ==
    f = [i \in 0..k |-> IF i = 0 THEN <<>>
                        ELSE IF s[i] \in W THEN f[i - 1] ELSE Append(f[i - 1], s[i])]

LEMMA SplicesExists ==
    ASSUME NEW s, NEW W, NEW k \in Nat
    PROVE  \E f : Splices(s, W, k, f)
<1> DEFINE S == {j \in Nat : ~\E f : Splices(s, W, j, f)}
<1> SUFFICES ASSUME k \in S PROVE FALSE
    OBVIOUS
<1>1. PICK j \in S : \A l \in S : j <= l
    BY Smallest
<1>2. CASE j = 0
    <2> DEFINE f == [i \in 0..0 |-> <<>>]
    <2>1. Splices(s, W, 0, f)
        BY DEF Splices
    <2> QED BY <1>2, <2>1
<1>3. CASE j # 0
    <2>1. j - 1 \in Nat /\ ~(j <= j - 1)
        BY <1>3
    <2>2. PICK g : Splices(s, W, j - 1, g)
        BY <1>1, <2>1
    <2> DEFINE f == [i \in 0..j |-> IF i = j THEN IF s[j] \in W THEN g[j - 1]
                                                  ELSE Append(g[j - 1], s[j])
                                    ELSE g[i]]
               h == [i \in 0..j |-> IF i = 0 THEN <<>>
                                    ELSE IF s[i] \in W THEN f[i - 1] ELSE Append(f[i - 1], s[i])]
    <2>3. ASSUME NEW i \in 0..j PROVE f[i] = h[i]
        <3>1. \A l \in 0..(j - 1) : f[l] = g[l]
            BY <2>1
        <3>2. CASE i = j
            <4>1. j - 1 \in 0..(j - 1) /\ j \in 0..j
                BY <2>1
            <4>2. f[j - 1] = g[j - 1]
                BY <3>1, <4>1
            <4> QED BY <1>3, <3>2, <4>1, <4>2
        <3>3. CASE i # j /\ i # 0
            <4>1. i \in 0..(j - 1) /\ i - 1 \in 0..(j - 1)
                BY <2>1, <3>3
            <4>2. g[i] = IF s[i] \in W THEN g[i - 1] ELSE Append(g[i - 1], s[i])
                BY <2>2, <3>3, <4>1 DEF Splices
            <4>3. f[i] = g[i] /\ f[i - 1] = g[i - 1]
                BY <3>1, <4>1
            <4> HIDE DEF f
            <4> QED BY <3>3, <4>2, <4>3
        <3>4. CASE i = 0
            <4>1. 0 \in 0..(j - 1) /\ 0 \in 0..j
                BY <2>1
            <4>2. g[0] = <<>>
                BY <2>2, <4>1 DEF Splices
            <4> QED BY <1>3, <3>4, <4>1, <4>2
        <3> QED BY <3>2, <3>3, <3>4
    <2>4. f = h
        <3>1. f = [i \in 0..j |-> f[i]] /\ h = [i \in 0..j |-> h[i]]
            OBVIOUS
        <3> HIDE DEF f, h
        <3> QED BY <2>3, <3>1
    <2>5. Splices(s, W, j, f)
        BY <2>4 DEF Splices
    <2> QED BY <2>5
<1> QED BY <1>2, <1>3

\* What is spliced out is gone, and nothing else.
LEMMA SplicedFacts ==
    ASSUME NEW S, NEW s \in Seq(S), NEW W
    PROVE  /\ Spliced(s, W) \in Seq(S) /\ Len(Spliced(s, W)) <= Len(s)
           /\ ToSet(Spliced(s, W)) = ToSet(s) \ W
<1> DEFINE f == CHOOSE g : Splices(s, W, Len(s), g)
<1>1. Len(s) \in Nat /\ DOMAIN s = 1..Len(s) /\ \A i \in 1..Len(s) : s[i] \in S
    OBVIOUS
<1>2. Splices(s, W, Len(s), f)
    BY <1>1, SplicesExists
<1>3. Spliced(s, W) = f[Len(s)]
    BY DEF Spliced, Splices
<1> HIDE DEF f
<1>4. /\ f[0] = <<>>
      /\ \A i \in 1..Len(s) : f[i] = IF s[i] \in W THEN f[i - 1] ELSE Append(f[i - 1], s[i])
    <2>1. \A i \in 0..Len(s) : f[i] = IF i = 0 THEN <<>>
                               ELSE IF s[i] \in W THEN f[i - 1] ELSE Append(f[i - 1], s[i])
        BY <1>2 DEF Splices
    <2> QED BY <1>1, <2>1
<1> DEFINE Good(i) == /\ f[i] \in Seq(S) /\ Len(f[i]) <= i
                      /\ {f[i][j] : j \in 1..Len(f[i])} = {s[j] : j \in 1..i} \ W
           Bad == {i \in 0..Len(s) : ~Good(i)}
<1>5. ASSUME NEW i \in Bad PROVE FALSE
    <2>1. Bad \in SUBSET Nat
        BY <1>1
    <2>2. PICK k \in Bad : \A l \in Bad : k <= l
        BY <2>1, Smallest
    <2>3. k # 0
        <3>1. Good(0)
            <4>1. f[0] \in Seq(S) /\ Len(f[0]) = 0
                BY <1>4
            <4>2. {s[j] : j \in 1..0} = {} /\ {f[0][j] : j \in 1..0} = {}
                OBVIOUS
            <4> QED BY <4>1, <4>2
        <3> QED BY <2>2, <3>1
    <2>4. k \in 1..Len(s) /\ k - 1 \in 0..Len(s) /\ ~(k <= k - 1)
        BY <1>1, <2>2, <2>3
    <2>5. Good(k - 1)
        BY <2>2, <2>4
    <2>6. {s[j] : j \in 1..k} = {s[j] : j \in 1..(k - 1)} \cup {s[k]}
        BY <2>4
    <2>7. CASE s[k] \in W
        <3>1. f[k] = f[k - 1]
            BY <1>4, <2>4, <2>7
        <3>2. Good(k)
            BY <2>4, <2>5, <2>6, <2>7, <3>1
        <3> QED BY <2>2, <3>2
    <2>8. CASE s[k] \notin W
        <3> DEFINE p == f[k - 1]
        <3>1. f[k] = Append(p, s[k])
            BY <1>4, <2>4, <2>8
        <3>2. p \in Seq(S) /\ Len(p) <= k - 1 /\ s[k] \in S
              /\ {p[j] : j \in 1..Len(p)} = {s[j] : j \in 1..(k - 1)} \ W
            BY <1>1, <2>4, <2>5
        <3> HIDE DEF p
        <3>3. /\ Append(p, s[k]) \in Seq(S) /\ Len(Append(p, s[k])) = Len(p) + 1 /\ Len(p) \in Nat
              /\ \A j \in 1..Len(p) : Append(p, s[k])[j] = p[j]
              /\ Append(p, s[k])[Len(p) + 1] = s[k]
            BY <3>2
        <3>4. {Append(p, s[k])[j] : j \in 1..(Len(p) + 1)} = {p[j] : j \in 1..Len(p)} \cup {s[k]}
            BY <3>3
        <3>5. Len(p) + 1 <= k
            BY <2>4, <3>2, <3>3
        <3>6. Good(k)
            BY <2>6, <2>8, <3>1, <3>2, <3>3, <3>4, <3>5
        <3> QED BY <2>2, <3>6
    <2> QED BY <2>7, <2>8
<1>6. Good(Len(s))
    <2>1. Len(s) \in 0..Len(s)
        BY <1>1
    <2> SUFFICES ASSUME ~Good(Len(s)) PROVE FALSE
        OBVIOUS
    <2>2. Len(s) \in Bad
        BY <2>1
    <2> HIDE DEF Bad
    <2> QED BY <1>5, <2>2
<1>7. DOMAIN f[Len(s)] = 1..Len(f[Len(s)])
    BY <1>6
<1> QED BY <1>1, <1>3, <1>6, <1>7 DEF ToSet

LEMMA AppendToSet ==
    ASSUME NEW S, NEW s \in Seq(S), NEW e \in S
    PROVE  Append(s, e) \in Seq(S) /\ ToSet(Append(s, e)) = ToSet(s) \cup {e}
<1>1. /\ Len(s) \in Nat /\ DOMAIN s = 1..Len(s)
      /\ DOMAIN Append(s, e) = 1..(Len(s) + 1)
      /\ \A i \in 1..Len(s) : Append(s, e)[i] = s[i]
      /\ Append(s, e)[Len(s) + 1] = e
      /\ Append(s, e) \in Seq(S)
    OBVIOUS
<1>2. 1..(Len(s) + 1) = (1..Len(s)) \cup {Len(s) + 1}
    BY <1>1
<1> QED BY <1>1, <1>2 DEF ToSet

\* The waiters listening are those with a timeout, and those who wait.
WaitInv ==
    /\ listeners \in Seq(Waiter)
    /\ ~notFound /\ ToSet(listeners) = timers
    /\ waiting \in [Waiter -> SUBSET Address]
    /\ \A w \in Waiter : waiting[w] # {} <=> w \in timers
    /\ \A w \in Waiter : \A a, b \in waiting[w] : a = b

LEMMA SettlesKeeps ==
    ASSUME WaitInv, NEW W, W \subseteq timers, Settles(W)
    PROVE  /\ WaitInv' /\ Len(listeners') <= Len(listeners)
           /\ waiting' = [w \in Waiter |-> IF w \in W THEN {} ELSE waiting[w]]
<1>1. /\ listeners' = Spliced(listeners, W) /\ notFound' = (notFound \/ ~(W \subseteq ToSet(listeners)))
      /\ timers' = timers \ W /\ waiting' = [w \in Waiter |-> IF w \in W THEN {} ELSE waiting[w]]
    BY DEF Settles, cleanup, removeListeners
<1>2. /\ listeners' \in Seq(Waiter) /\ Len(listeners') <= Len(listeners)
      /\ ToSet(listeners') = ToSet(listeners) \ W
    BY <1>1, SplicedFacts DEF WaitInv
<1>3. ~notFound'
    BY <1>1 DEF WaitInv
<1>4. \A w \in Waiter : waiting'[w] # {} <=> w \in timers'
    BY <1>1 DEF WaitInv
<1>5. \A w \in Waiter : \A a, b \in waiting'[w] : a = b
    BY <1>1 DEF WaitInv
<1>6. waiting' \in [Waiter -> SUBSET Address]
    BY <1>1 DEF WaitInv
<1> QED BY <1>1, <1>2, <1>3, <1>4, <1>5, <1>6 DEF WaitInv

LEMMA ResolvedListens ==
    ASSUME WaitInv, NEW a
    PROVE  Resolved(a) \subseteq timers /\ \A w \in Resolved(a) : Guard(w, a)
<1> DEFINE J == {j \in DOMAIN listeners : Called(a)[j] /\ Guard(listeners[j], a)}
<1>1. Resolved(a) = {listeners[i] : i \in J}
    BY DEF Resolved
<1>2. timers = {listeners[i] : i \in DOMAIN listeners}
    BY DEF WaitInv, ToSet
<1> QED BY <1>1, <1>2

\* A step of the table leaves those who wait alone, or wakes some of them.
LEMMA NextWait == ASSUME WaitInv, Next PROVE WaitInv'
<1>1. ASSUME UNCHANGED waitVars PROVE WaitInv'
    BY <1>1 DEF waitVars, WaitInv
<1>2. ASSUME NEW a, NEW v, NEW d, NEW h, inc(a, v, d, h) PROVE WaitInv'
    <2>1. UNCHANGED waitVars \/ CallWaiters(a)
        BY <1>2 DEF inc
    <2> QED BY <1>1, <2>1, ResolvedListens, SettlesKeeps DEF CallWaiters
<1>3. ASSUME NEW n \in Neighbour, NEW d \in Rtt, addDirect(n, d) PROVE WaitInv'
    BY <1>2, <1>3 DEF addDirect
<1>4. ASSUME NEW n \in Neighbour, removeDirect(n) PROVE WaitInv'
    BY <1>1, <1>4 DEF removeDirect
<1>5. ASSUME NEW n \in Neighbour, NEW a \in Target, OnAddForwarded(n, a) PROVE WaitInv'
    BY <1>2, <1>5 DEF OnAddForwarded
<1>6. ASSUME NEW n \in Neighbour, NEW a \in Target, OnRemoveForwarded(n, a) PROVE WaitInv'
    BY <1>1, <1>6 DEF OnRemoveForwarded
<1>7. ASSUME NEW n \in Neighbour, NEW a \in Target, NEW d \in Rtt, OnUpdatedForwardedRtt(n, a, d)
      PROVE  WaitInv'
    BY <1>1, <1>7 DEF OnUpdatedForwardedRtt
<1>8. ASSUME NEW w \in Waiter, Timeout(w) PROVE WaitInv'
    BY <1>8, SettlesKeeps DEF Timeout
<1>9. ASSUME NEW w \in Waiter, NEW a \in Address, waitForConnectionTo(w, a) PROVE WaitInv'
    <2>1. /\ waiting[w] = {} /\ waiting' = [waiting EXCEPT ![w] = {a}]
          /\ listeners' = Append(listeners, w) /\ timers' = timers \cup {w}
          /\ notFound' = notFound
        BY <1>9 DEF waitForConnectionTo
    <2>2. listeners' \in Seq(Waiter) /\ ToSet(listeners') = timers'
        BY <2>1, AppendToSet DEF WaitInv
    <2>3. /\ waiting' \in [Waiter -> SUBSET Address]
          /\ \A u \in Waiter : waiting'[u] = IF u = w THEN {a} ELSE waiting[u]
        BY <2>1 DEF WaitInv
    <2> QED BY <2>1, <2>2, <2>3 DEF WaitInv
<1> QED BY <1>3, <1>4, <1>5, <1>6, <1>7, <1>8, <1>9 DEF Next

-----------------------------------------------------------------------------
(* Which connection is missed.                                               *)

\* The recursion of Called, on the first k listeners.
Calls(a, k, f) ==
    f = [i \in 1..k |-> i = 1 \/ ~(f[i - 1] /\ Guard(listeners[i - 1], a))]

LEMMA CallsExists ==
    ASSUME NEW a, NEW k \in Nat
    PROVE  \E f : Calls(a, k, f)
<1> DEFINE S == {j \in Nat : ~\E f : Calls(a, j, f)}
<1> SUFFICES ASSUME k \in S PROVE FALSE
    OBVIOUS
<1>1. PICK j \in S : \A l \in S : j <= l
    BY Smallest
<1>2. CASE j = 0
    <2> DEFINE f == [i \in 1..0 |-> TRUE]
    <2>1. Calls(a, 0, f)
        BY DEF Calls
    <2> QED BY <1>2, <2>1
<1>3. CASE j # 0
    <2>1. j - 1 \in Nat /\ ~(j <= j - 1)
        BY <1>3
    <2>2. PICK g : Calls(a, j - 1, g)
        BY <1>1, <2>1
    <2> DEFINE last == j = 1 \/ ~(g[j - 1] /\ Guard(listeners[j - 1], a))
               f == [i \in 1..j |-> IF i = j THEN last ELSE g[i]]
               h == [i \in 1..j |-> i = 1 \/ ~(f[i - 1] /\ Guard(listeners[i - 1], a))]
    <2>3. ASSUME NEW i \in 1..j PROVE f[i] = h[i]
        <3>1. \A l \in 1..(j - 1) : f[l] = g[l]
            BY <2>1
        <3>2. i = 1 \/ f[i - 1] = g[i - 1]
            BY <2>1, <3>1
        <3>3. h[i] = (i = 1 \/ ~(g[i - 1] /\ Guard(listeners[i - 1], a)))
            BY <3>2
        <3>4. CASE i = j
            <4>1. f[i] = last
                BY <3>4
            <4> HIDE DEF f, h
            <4> QED BY <3>3, <3>4, <4>1
        <3>5. CASE i # j
            <4>1. i \in 1..(j - 1)
                BY <2>1, <3>5
            <4>2. g[i] = (i = 1 \/ ~(g[i - 1] /\ Guard(listeners[i - 1], a)))
                BY <2>2, <4>1 DEF Calls
            <4>3. f[i] = g[i]
                BY <3>1, <4>1
            <4> HIDE DEF f, h
            <4> QED BY <3>3, <4>2, <4>3
        <3> QED BY <3>4, <3>5
    <2>4. f = h
        <3>1. f = [i \in 1..j |-> f[i]] /\ h = [i \in 1..j |-> h[i]]
            OBVIOUS
        <3> HIDE DEF f, h
        <3> QED BY <2>3, <3>1
    <2>5. Calls(a, j, f)
        BY <2>4 DEF Calls
    <2> QED BY <2>5
<1> QED BY <1>2, <1>3

\* Whoever waits for a is called, or stands right behind one that is called for a
\* and removes itself.
LEMMA WaiterCalled ==
    ASSUME WaitInv, NEW a, NEW w \in Waiter, a \in waiting[w]
    PROVE  w \in Resolved(a) \cup Behind(a)
<1>1. /\ Len(listeners) \in Nat /\ DOMAIN listeners = 1..Len(listeners)
      /\ \A i \in 1..Len(listeners) : listeners[i] \in Waiter
    BY DEF WaitInv
<1> DEFINE c == CHOOSE f : Calls(a, Len(listeners), f)
<1>2. Calls(a, Len(listeners), c)
    BY <1>1, CallsExists
<1>3. Called(a) = c
    BY <1>1 DEF Called, Calls
<1> HIDE DEF c
<1>4. \A i \in 1..Len(listeners) : c[i] = (i = 1 \/ ~(c[i - 1] /\ Guard(listeners[i - 1], a)))
    BY <1>2 DEF Calls
<1>5. Guard(w, a)
    BY DEF Guard, WaitInv
<1>6. PICK j \in 1..Len(listeners) : listeners[j] = w
    BY <1>1 DEF WaitInv, ToSet
<1>7. CASE c[j]
    BY <1>1, <1>3, <1>5, <1>6, <1>7 DEF Resolved
<1>8. CASE ~c[j]
    <2>1. j # 1 /\ c[j - 1] /\ Guard(listeners[j - 1], a)
        BY <1>4, <1>6, <1>8
    <2>2. j - 1 \in 1..Len(listeners) /\ j \in 2..Len(listeners)
        BY <1>1, <1>6, <2>1
    <2>3. listeners[j - 1] \in Resolved(a)
        BY <1>1, <1>3, <2>1, <2>2 DEF Resolved
    <2> QED BY <1>5, <1>6, <2>2, <2>3 DEF Behind, Waits
<1> QED BY <1>7, <1>8

LEMMA IncNoMissed ==
    ASSUME WaitInv, NoMissedConnection, routes \in [Address -> RouteMap],
           NEW a \in Address, NEW v \in Via, NEW d \in Rtt, NEW h, inc(a, v, d, h)
    PROVE  NoMissedConnection'
<1>1. CASE UNCHANGED routes /\ UNCHANGED waitVars
    BY <1>1 DEF waitVars, NoMissedConnection, has
<1>2. CASE routes[a][v] = None
    <2>1. routes' = [routes EXCEPT ![a] = [routes[a] EXCEPT ![v] = d]]
        BY <1>2 DEF inc, SetRoutes
    <2>2. \A b \in Address \ {a} : routes'[b] = routes[b]
        BY <2>1
    <2>3. CASE has(a)
        <3>1. UNCHANGED waitVars
            BY <1>2, <2>3 DEF inc
        <3> QED BY <2>2, <2>3, <3>1 DEF NoMissedConnection, has, waitVars, WaitInv
    <2>4. CASE ~has(a)
        <3>1. /\ waiting' = [u \in Waiter |-> IF u \in Resolved(a) THEN {} ELSE waiting[u]]
              /\ skipped' = (skipped \ Waits(a)) \cup Behind(a)
            BY <1>2, <2>4 DEF inc, CallWaiters, Settles
        <3>2. ASSUME NEW w \in Waiter, NEW b \in waiting'[w], has(b)' PROVE w \in skipped'
            <4>1. b \in waiting[w] /\ w \notin Resolved(a)
                BY <3>1
            <4>2. CASE b = a
                BY <3>1, <4>1, <4>2, WaiterCalled
            <4>3. CASE b # a
                <5>1. has(b)
                    BY <2>2, <3>2, <4>1, <4>3 DEF has, WaitInv
                <5>2. w \in skipped /\ ~Guard(w, a)
                    BY <4>1, <4>3, <5>1 DEF NoMissedConnection, Guard
                <5> QED BY <3>1, <5>2 DEF Waits
            <4> QED BY <4>2, <4>3
        <3> QED BY <3>2 DEF NoMissedConnection
    <2> QED BY <2>3, <2>4
<1> QED BY <1>1, <1>2 DEF inc, routeVars, waitVars

\* No other operation finds a first route.
LEMMA LessRoutes ==
    ASSUME WaitInv, NoMissedConnection,
           \A w \in Waiter : \/ waiting'[w] = {}
                             \/ waiting'[w] = waiting[w] /\ (w \in skipped => w \in skipped'),
           \A b \in Address : Vias(routes'[b]) \subseteq Vias(routes[b])
    PROVE  NoMissedConnection'
BY DEF NoMissedConnection, has, WaitInv

LEMMA DecNoMissed ==
    ASSUME routes \in [Address -> RouteMap], NEW a \in Address, NEW v \in Via, NEW h, dec(a, v, h)
    PROVE  \A b \in Address : Vias(routes'[b]) \subseteq Vias(routes[b])
<1>1. CASE routes' = routes
    BY <1>1
<1>2. CASE routes[a][v] # None
    <2>1. routes' = [routes EXCEPT ![a] = [routes[a] EXCEPT ![v] = None]]
        BY <1>2 DEF dec, SetRoutes
    <2>2. \A b \in Address \ {a} : routes'[b] = routes[b]
        BY <2>1
    <2>3. \A w \in Via : routes'[a][w] # None => routes[a][w] # None
        BY <2>1 DEF RouteMap
    <2> QED BY <2>2, <2>3 DEF Vias
<1> QED BY <1>1, <1>2 DEF dec, routeVars

LEMMA UpdateNoMissed ==
    ASSUME routes \in [Address -> RouteMap], NEW a \in Address, NEW v \in Via, NEW d \in Rtt, NEW h,
           update(a, v, d, h)
    PROVE  \A b \in Address : Vias(routes'[b]) \subseteq Vias(routes[b])
BY DEF update, SetRoutes, routeVars, RouteMap, Vias

LEMMA NextNoMissed ==
    ASSUME IInv, WaitInv, NoMissedConnection, [Next]_vars
    PROVE  NoMissedConnection'
<1>1. routes \in [Address -> RouteMap]
    BY DEF IInv, TableOK
<1>2. Address \subseteq Via /\ Direct \in Via
    BY DEF Via
<1>3. ASSUME NEW n \in Neighbour, NEW d \in Rtt, addDirect(n, d) PROVE NoMissedConnection'
    BY <1>1, <1>2, <1>3, IncNoMissed DEF addDirect
<1>4. ASSUME NEW n \in Neighbour, removeDirect(n) PROVE NoMissedConnection'
    BY <1>1, <1>2, <1>4, DecNoMissed, LessRoutes DEF removeDirect, waitVars
<1>5. ASSUME NEW n \in Neighbour, NEW a \in Target, OnAddForwarded(n, a) PROVE NoMissedConnection'
    <2>1. rtts[n] \in Rtt /\ inc(a, n, rtts[n], heard)
        BY <1>5 DEF OnAddForwarded, IInv, RttOption
    <2> QED BY <1>1, <1>2, <2>1, IncNoMissed
<1>6. ASSUME NEW n \in Neighbour, NEW a \in Target, OnRemoveForwarded(n, a)
      PROVE  NoMissedConnection'
    BY <1>1, <1>2, <1>6, DecNoMissed, LessRoutes DEF OnRemoveForwarded, waitVars
<1>7. ASSUME NEW n \in Neighbour, NEW a \in Target, NEW d \in Rtt, OnUpdatedForwardedRtt(n, a, d)
      PROVE  NoMissedConnection'
    BY <1>1, <1>2, <1>7, UpdateNoMissed, LessRoutes DEF OnUpdatedForwardedRtt, waitVars
<1>8. ASSUME NEW w \in Waiter, Timeout(w) PROVE NoMissedConnection'
    <2>1. /\ routes' = routes /\ skipped' = skipped \ {w}
          /\ \A u \in Waiter : waiting'[u] = IF u = w THEN {} ELSE waiting[u]
        BY <1>8 DEF Timeout, Settles, routeVars
    <2> QED BY <2>1, LessRoutes
<1>9. ASSUME NEW w \in Waiter, NEW a \in Address, waitForConnectionTo(w, a)
      PROVE  NoMissedConnection'
    <2>1. /\ routes' = routes /\ skipped' = skipped
          /\ ~has(a) /\ waiting' = [waiting EXCEPT ![w] = {a}]
        BY <1>9 DEF waitForConnectionTo, routeVars
    <2>2. \A u \in Waiter : waiting'[u] = IF u = w THEN {a} ELSE waiting[u]
        BY <2>1 DEF WaitInv
    <2> QED BY <2>1, <2>2 DEF NoMissedConnection, has
<1>10. CASE UNCHANGED vars
    BY <1>10 DEF vars, routeVars, waitVars, NoMissedConnection, has
<1> QED BY <1>3, <1>4, <1>5, <1>6, <1>7, <1>8, <1>9, <1>10 DEF Next

\* With one waiter there is one listener at most, and none behind it.
LEMMA NextOne ==
    ASSUME \A v, w \in Waiter : v = w, WaitInv, [Next]_vars,
           Len(listeners) <= 1, skipped = {}
    PROVE  (Len(listeners) <= 1 /\ skipped = {})'
<1> DEFINE Goal == Len(listeners') <= 1 /\ skipped' = {}
<1> SUFFICES Goal
    OBVIOUS
<1>1. ASSUME UNCHANGED waitVars PROVE Goal
    BY <1>1 DEF waitVars
<1>2. Len(listeners) \in Nat /\ Len(listeners') \in Nat
    <2>1. CASE Next
        BY <2>1, NextWait DEF WaitInv
    <2> QED BY <2>1 DEF vars, waitVars, WaitInv
<1>3. ASSUME NEW a, NEW v, NEW d, NEW h, inc(a, v, d, h) PROVE Goal
    <2>1. UNCHANGED waitVars \/ CallWaiters(a)
        BY <1>3 DEF inc
    <2>2. CASE CallWaiters(a)
        <3>1. Len(listeners') <= Len(listeners)
            BY <2>2, ResolvedListens, SettlesKeeps DEF CallWaiters
        <3>2. 2..Len(listeners) = {}
            BY <1>2
        <3>3. Behind(a) = {}
            BY <3>2 DEF Behind
        <3> QED BY <1>2, <2>2, <3>1, <3>3 DEF CallWaiters
    <2> QED BY <1>1, <2>1, <2>2
<1>4. ASSUME NEW n \in Neighbour, NEW d \in Rtt, addDirect(n, d) PROVE Goal
    BY <1>3, <1>4 DEF addDirect
<1>5. ASSUME NEW n \in Neighbour, NEW a \in Target, OnAddForwarded(n, a) PROVE Goal
    BY <1>3, <1>5 DEF OnAddForwarded
<1>6. ASSUME NEW n \in Neighbour,
             \/ removeDirect(n)
             \/ \E a \in Target : \/ OnRemoveForwarded(n, a)
                                 \/ \E d \in Rtt : OnUpdatedForwardedRtt(n, a, d)
      PROVE  Goal
    BY <1>1, <1>6 DEF removeDirect, OnRemoveForwarded, OnUpdatedForwardedRtt
<1>7. ASSUME NEW w \in Waiter, Timeout(w) PROVE Goal
    <2>1. Len(listeners') <= Len(listeners)
        BY <1>7, SettlesKeeps DEF Timeout
    <2> QED BY <1>2, <1>7, <2>1 DEF Timeout
<1>8. ASSUME NEW w \in Waiter, NEW a \in Address, waitForConnectionTo(w, a) PROVE Goal
    <2>1. waiting[w] = {} /\ listeners' = Append(listeners, w) /\ skipped' = skipped
        BY <1>8 DEF waitForConnectionTo
    <2>2. ToSet(listeners) = {}
        <3>1. \A i \in DOMAIN listeners : listeners[i] \in Waiter
            BY DEF WaitInv
        <3>2. ToSet(listeners) \subseteq {w}
            BY <3>1 DEF ToSet
        <3> QED BY <2>1, <3>2 DEF WaitInv
    <2>3. Len(listeners) = 0
        <3> SUFFICES ASSUME Len(listeners) # 0 PROVE FALSE
            OBVIOUS
        <3>1. 1 \in DOMAIN listeners
            BY <1>2 DEF WaitInv
        <3> QED BY <2>2, <3>1 DEF ToSet
    <2>4. Len(listeners') = Len(listeners) + 1
        <3>1. listeners \in Seq(Waiter)
            BY DEF WaitInv
        <3> QED BY <2>1, <3>1
    <2> QED BY <2>1, <2>3, <2>4
<1> QED BY <1>1, <1>4, <1>5, <1>6, <1>7, <1>8 DEF Next, vars

-----------------------------------------------------------------------------
(* The theorems.                                                             *)

LEMMA SpecIInv == Spec => []IInv
BY InitIInv, NextIInv, PTL DEF Spec

LEMMA SpecWaitInv == Spec => []WaitInv
<1>1. Init => WaitInv
    BY DEF Init, WaitInv, ToSet
<1>2. WaitInv /\ UNCHANGED vars => WaitInv'
    BY DEF vars, waitVars, WaitInv
<1> QED BY <1>1, <1>2, NextWait, PTL DEF Spec

\* The variables keep their types.
THEOREM SpecTypeOK == Spec => []TypeOK
<1>1. IInv => TypeOK
    BY DEF IInv, WaitOK, TableOK, Sound, TypeOK
<1> QED BY <1>1, SpecIInv, PTL

\* The inverse index of RouteSet lists exactly the routes there are, a direct route
\* goes with a connection, and dec never throws (rpc.ts 83-96, 161-197, 435-453).
THEOREM SpecTableConsistent == Spec => []TableConsistent
<1>1. IInv => TableConsistent
    BY DEF IInv, TableOK, TableConsistent
<1> QED BY <1>1, SpecIInv, PTL

\* No neighbour holds an offer of a route that leads back through it, whatever
\* neighbours announce and in whatever order (rpc.ts 299-337 and 448-451).
THEOREM SpecNoPhantomOffer == Spec => []NoPhantomOffer
<1>1. IInv => NoPhantomOffer
    BY DEF IInv, Sound, Around, NoPhantomOffer
<1> QED BY <1>1, SpecIInv, PTL

\* A neighbour that had no route over it left over when it connected is offered every
\* address that can be reached without it (rpc.ts 299-337 and 448-451): the list it
\* is sent, and the events of the vias alone, keep the offers complete.
THEOREM SpecReachableIsOffered == Spec => []ReachableIsOffered
<1>1. Init => OIInv
    <2>1. Init => Connected \cap fresh = {}
        BY DEF Init
    <2> QED BY <2>1 DEF OIInv, Offered
<1>2. OIInv => ReachableIsOffered
    BY DEF OIInv, Offered, Around, ReachableIsOffered
<1>3. Spec => []OIInv
    BY <1>1, NextOffered, SpecIInv, PTL DEF Spec
<1> QED BY <1>2, <1>3, PTL

\* Whoever waits, for however many addresses: a wait ends once, by its event or by its
\* timeout, and never looks for a listener that the other of the two has removed
\* (listener.ts 17-21 and 62-85).
THEOREM SpecCleanupOnce == Spec => []CleanupOnce
<1>1. WaitInv => CleanupOnce
    BY DEF WaitInv, CleanupOnce
<1> QED BY <1>1, SpecWaitInv, PTL

\* However many callers wait and for whatever addresses: a wait misses the route it
\* waits for only as the one right behind another wait for the same address, which has
\* heard of that route and removed itself (rpc.ts 498-503, listener.ts 22-38).
THEOREM SpecNoMissedConnection == Spec => []NoMissedConnection
<1>1. Init => NoMissedConnection
    BY DEF Init, NoMissedConnection
<1> QED BY <1>1, NextNoMissed, SpecIInv, SpecWaitInv, PTL DEF Spec

\* A node where one caller waits at a time, as each node of the addon is, misses none:
\* nobody waits there for an address there is a route to.
THEOREM SpecOneWaiterNoMissed ==
    ASSUME \A v, w \in Waiter : v = w
    PROVE  Spec => [](\A w \in Waiter : \A a \in waiting[w] : ~has(a))
<1>1. Init => Len(listeners) <= 1 /\ skipped = {}
    BY DEF Init
<1>2. Spec => [](Len(listeners) <= 1 /\ skipped = {})
    BY <1>1, NextOne, SpecWaitInv, PTL DEF Spec
<1>3. NoMissedConnection /\ skipped = {} => \A w \in Waiter : \A a \in waiting[w] : ~has(a)
    BY DEF NoMissedConnection
<1> QED BY <1>2, <1>3, SpecNoMissedConnection, PTL
=============================================================================
