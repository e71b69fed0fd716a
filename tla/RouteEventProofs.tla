-------------------------- MODULE RouteEventProofs --------------------------
(* For any set of addresses and any round-trip times: what the events of a   *)
(* change, turned into notifications and heard by a neighbour one by one, do *)
(* to what the neighbour believes.  Lemmas only; the proofs of Announce,     *)
(* RpcNode and PortRpc rest on them.                                         *)
EXTENDS RouteEvents, WellFoundedInduction, TLAPS

-----------------------------------------------------------------------------
(* Facts about the minimum of a route map.                                   *)

LEMMA NoneNotRtt == None \notin Rtt
BY NoneAssumption, RttAssumption

\* A cached minimum offers each neighbour its best route around itself.
LEMMA OfferedIsBest ==
    ASSUME NEW r \in RouteMap, NEW m \in MinRttsOf(r), NEW n \in Via
    PROVE  IsBest(r, Via \ {n}, OfferedTo(n, m))
BY RttAssumption, NoneAssumption
DEF RouteMap, RttOption, MinRttsOf, MinRtt, IsBest, OfferedTo

\* Without routes there is one possible minimum up to its via, and it offers
\* nothing.
LEMMA EmptyMin ==
    ASSUME NEW r \in RouteMap, Vias(r) = {}
    PROVE  /\ NoMin \in MinRttsOf(r)
           /\ \A m \in MinRttsOf(r) : m.rtt = None /\ m.second_best = None
BY NoneAssumption, RttAssumption
DEF RouteMap, RttOption, MinRttsOf, MinRtt, IsBest, NoMin, Vias, Via

\* With a single via, that via is the minimum and there is no second best.
LEMMA SingleMin ==
    ASSUME NEW r \in RouteMap, NEW u \in Via, Vias(r) = {u}, NEW m \in MinRttsOf(r)
    PROVE  m.via = u /\ m.rtt = r[u] /\ m.rtt # None /\ m.second_best = None
BY NoneAssumption, RttAssumption
DEF RouteMap, RttOption, MinRttsOf, MinRtt, IsBest, Vias

\* With two vias or more both figures of the minimum are there.
LEMMA ManyMin ==
    ASSUME NEW r \in RouteMap, Vias(r) # {}, ~IsSingle(r), NEW m \in MinRttsOf(r)
    PROVE  m.rtt # None /\ m.second_best # None
BY NoneAssumption, RttAssumption
DEF RouteMap, RttOption, MinRttsOf, MinRtt, IsBest, Vias, IsSingle

LEMMA OnlyViaIs ==
    ASSUME NEW r, NEW u \in Via, Vias(r) = {u}
    PROVE  OnlyVia(r) = u
BY DEF Vias, OnlyVia

-----------------------------------------------------------------------------
(* One operation, seen by one neighbour.                                     *)

\* The worker's five cases, one event at a time.
LEMMA HearNoEvent ==
    ASSUME NEW n, NEW h
    PROVE  Hear(h, NotificationFor(n, NoEvent))
               = h
BY DEF Hear, NotificationFor, Concerns, NoEvent, NoMessage

LEMMA HearConnectionAdded ==
    ASSUME NEW n, NEW h, NEW a, NEW v, NEW d
    PROVE  Hear(h, NotificationFor(n, ConnectionAdded(a, v, d)))
               = IF n # a /\ n # v /\ h = None THEN d ELSE h
BY DEF Hear, NotificationFor, Concerns, ConnectionAdded, NoMessage,
       AddForwarded

LEMMA HearConnectionRemoved ==
    ASSUME NEW n, NEW h, NEW a, NEW v
    PROVE  Hear(h, NotificationFor(n, ConnectionRemoved(a, v)))
               = IF n # a /\ n # v THEN None ELSE h
BY DEF Hear, NotificationFor, Concerns, ConnectionRemoved, NoMessage,
       RemoveForwarded

LEMMA HearViaListSeconded ==
    ASSUME NEW n, NEW h, NEW a, NEW v, NEW d
    PROVE  Hear(h, NotificationFor(n, ViaListSeconded(a, v, d)))
               = IF n = v /\ h = None THEN d ELSE h
BY DEF Hear, NotificationFor, Concerns, ViaListSeconded, NoMessage,
       AddForwarded

LEMMA HearViaListUnseconded ==
    ASSUME NEW n, NEW h, NEW a, NEW v
    PROVE  Hear(h, NotificationFor(n, ViaListUnseconded(a, v)))
               = IF n = v THEN None ELSE h
BY DEF Hear, NotificationFor, Concerns, ViaListUnseconded, NoMessage,
       RemoveForwarded

\* Hearing of a changed minimum moves a neighbour that holds an offer h, be it
\* the old one or the new one, to the new offer; it does not move without one.
LEMMA HearMinRttUpdated ==
    ASSUME NEW n, NEW a, NEW old \in MinRtt, NEW m \in MinRtt, NEW h
    PROVE  /\ h # None /\ OfferedTo(n, m) # None
                 /\ (h = OfferedTo(n, old) \/ h = OfferedTo(n, m)
                         \/ OfferedTo(n, m) # OfferedTo(n, old))
               => Hear(h, NotificationFor(n, MinRttUpdated(a, old, m))) = OfferedTo(n, m)
           /\ h = None \/ OfferedTo(n, m) = None
               => Hear(h, NotificationFor(n, MinRttUpdated(a, old, m))) = h
<1> DEFINE e == MinRttUpdated(a, old, m)
<1> SUFFICES /\ h # None /\ OfferedTo(n, m) # None
                   /\ (h = OfferedTo(n, old) \/ h = OfferedTo(n, m)
                           \/ OfferedTo(n, m) # OfferedTo(n, old))
                 => Hear(h, NotificationFor(n, e)) = OfferedTo(n, m)
             /\ h = None \/ OfferedTo(n, m) = None
                 => Hear(h, NotificationFor(n, e)) = h
      OBVIOUS
<1>1. CASE m = old
  <2>1. e = NoEvent
        BY <1>1 DEF MinRttUpdated
  <2> QED
        BY <1>1, <2>1, HearNoEvent
<1>2. CASE m # old
  <2>1. NotificationFor(n, e) = update_for(n, e)
        BY <1>2 DEF NotificationFor, MinRttUpdated
  <2>2. \/ /\ OfferedTo(n, m) # None
           /\ update_for(n, e) = UpdatedForwardedRtt(a, OfferedTo(n, m))
        \/ /\ OfferedTo(n, m) = None \/ OfferedTo(n, m) = OfferedTo(n, old)
           /\ update_for(n, e) = NoMessage
        BY <1>2 DEF MinRttUpdated, update_for, OfferedTo
  <2>3. Hear(h, UpdatedForwardedRtt(a, OfferedTo(n, m)))
            = IF h = None THEN None ELSE OfferedTo(n, m)
        BY DEF Hear, UpdatedForwardedRtt
  <2>4. Hear(h, NoMessage) = h
        BY DEF Hear, NoMessage
  <2> HIDE DEF e
  <2> QED
        BY <2>1, <2>2, <2>3, <2>4
<1> QED
      BY <1>1, <1>2

\* After a new route every neighbour holds the new offer.
LEMMA HearInc ==
    ASSUME NEW n \in Address, NEW a \in Address, n # a,
           NEW r \in RouteMap, NEW v \in Via, NEW d \in Rtt, r[v] = None,
           NEW old \in MinRttsOf(r), NEW m \in MinRttsOf([r EXCEPT ![v] = d])
    PROVE  HearEvents(n, OfferedTo(n, old), IncEvents(a, r, v, d, old, m))
               = OfferedTo(n, m)
<1> DEFINE q == [r EXCEPT ![v] = d]
<1> DEFINE ev == IncEvents(a, r, v, d, old, m)
<1>1. q \in RouteMap /\ Vias(q) = Vias(r) \cup {v} /\ v \notin Vias(r)
      BY NoneNotRtt DEF q, RouteMap, RttOption, Vias
<1>2. old \in MinRtt /\ m \in MinRtt
      BY DEF MinRttsOf
<1>0. m \in MinRttsOf(q)
      OBVIOUS
<1> SUFFICES HearEvents(n, OfferedTo(n, old), ev) = OfferedTo(n, m)
      OBVIOUS
<1> HIDE DEF q, ev
<1>3. CASE Vias(r) = {}
  <2>1. OfferedTo(n, old) = None
        BY <1>3, EmptyMin DEF OfferedTo
  <2>2. m.via = v /\ m.rtt = d /\ m.second_best = None
    <3>1. Vias(q) = {v} /\ q[v] = d
          BY <1>1, <1>3 DEF q, RouteMap
    <3> QED
          BY <1>0, <1>1, <3>1, SingleMin
  <2>3. ev.list = ConnectionAdded(a, v, d) /\ ev.min = NoEvent
        BY <1>3 DEF ev, IncEvents
  <2> QED
        BY <2>1, <2>2, <2>3, HearConnectionAdded, HearNoEvent DEF HearEvents, OfferedTo
<1>4. CASE IsSingle(r)
  <2>1. PICK u \in Via : Vias(r) = {u}
        BY <1>4 DEF IsSingle
  <2>2. OnlyVia(r) = u /\ u # v /\ r[u] \in Rtt
        BY <1>1, <2>1, OnlyViaIs DEF Vias, RouteMap, RttOption
  <2>3. old.via = u /\ old.rtt = r[u] /\ old.second_best = None
        BY <2>1, SingleMin
  <2>4. m.rtt # None /\ m.second_best # None
        BY <1>0, <1>1, <2>1, <2>2, ManyMin DEF IsSingle
  <2>5. OfferedTo(n, m) # None
        BY <2>4 DEF OfferedTo
  <2>6. /\ ev.list = ViaListSeconded(a, u, Least(d, r[u]))
        /\ ev.min = MinRttUpdated(a, old, m)
        BY <1>4, <2>1, <2>2 DEF ev, IncEvents
  <2>7. CASE n = u
    <3>1. Hear(OfferedTo(n, old), NotificationFor(n, ev.list)) = Least(d, r[u])
          BY <2>3, <2>6, <2>7, HearViaListSeconded DEF OfferedTo
    <3>3. Least(d, r[u]) # None
          BY <2>2, NoneNotRtt DEF Least
    <3>4. OfferedTo(n, m) # OfferedTo(n, old)
          BY <2>3, <2>5, <2>7 DEF OfferedTo
    <3> QED
          BY <1>2, <2>5, <2>6, <3>1, <3>3, <3>4, HearMinRttUpdated DEF HearEvents
  <2>8. CASE n # u
    <3>1. OfferedTo(n, old) = r[u] /\ r[u] # None
          BY <2>2, <2>3, <2>8, NoneNotRtt DEF OfferedTo
    <3>2. Hear(OfferedTo(n, old), NotificationFor(n, ev.list)) = OfferedTo(n, old)
          BY <2>6, <2>8, HearViaListSeconded
    <3> QED
          BY <1>2, <2>5, <2>6, <3>1, <3>2, HearMinRttUpdated DEF HearEvents
  <2> QED
        BY <2>7, <2>8
<1>5. CASE Vias(r) # {} /\ ~IsSingle(r)
  <2>1. OfferedTo(n, old) # None
        BY <1>5, ManyMin DEF OfferedTo
  <2>2. Vias(q) # {} /\ ~IsSingle(q)
        BY <1>1, <1>5 DEF IsSingle, Vias
  <2>3. OfferedTo(n, m) # None
        BY <1>0, <1>1, <2>2, ManyMin DEF OfferedTo
  <2>4. ev.list = NoEvent /\ ev.min = MinRttUpdated(a, old, m)
        BY <1>5 DEF ev, IncEvents
  <2> QED
        BY <1>2, <2>1, <2>3, <2>4, HearNoEvent, HearMinRttUpdated DEF HearEvents
<1> QED
      BY <1>3, <1>4, <1>5

\* After the loss of a route every neighbour holds the new offer.
LEMMA HearDec ==
    ASSUME NEW n \in Address, NEW a \in Address, n # a,
           NEW r \in RouteMap, NEW v \in Via, r[v] # None,
           NEW old \in MinRttsOf(r), NEW m \in MinRttsOf([r EXCEPT ![v] = None])
    PROVE  HearEvents(n, OfferedTo(n, old), DecEvents(a, r, v, old, m)) = OfferedTo(n, m)
<1> DEFINE q == [r EXCEPT ![v] = None]
<1> DEFINE ev == DecEvents(a, r, v, old, m)
<1>1. q \in RouteMap /\ Vias(q) = Vias(r) \ {v} /\ v \in Vias(r)
      BY DEF RouteMap, RttOption, Vias
<1>2. old \in MinRtt /\ m \in MinRtt /\ m \in MinRttsOf(q)
      BY DEF MinRttsOf
<1> SUFFICES HearEvents(n, OfferedTo(n, old), ev) = OfferedTo(n, m)
      OBVIOUS
<1>3. IsSingle(r) => Vias(r) = {v}
      BY <1>1 DEF IsSingle
<1> HIDE DEF q, ev
<1>4. CASE Vias(q) = {}
  <2>1. Vias(r) = {v}
        BY <1>1, <1>4
  <2>2. old.via = v /\ old.second_best = None
        BY <2>1, SingleMin
  <2>3. OfferedTo(n, m) = None
        BY <1>1, <1>2, <1>4, EmptyMin DEF OfferedTo
  <2>4. ev.list = ConnectionRemoved(a, v) /\ ev.min = NoEvent
        BY <1>4 DEF ev, q, DecEvents
  <2> QED
        BY <2>2, <2>3, <2>4, HearConnectionRemoved, HearNoEvent DEF HearEvents, OfferedTo
<1>5. CASE IsSingle(q)
  <2>1. PICK u \in Via : Vias(q) = {u}
        BY <1>5 DEF IsSingle
  <2>2. OnlyVia(q) = u /\ ~IsSingle(r) /\ Vias(r) # {}
        BY <1>1, <1>3, <2>1, OnlyViaIs
  <2>3. m.via = u /\ m.rtt # None /\ m.second_best = None
        BY <1>1, <1>2, <2>1, SingleMin
  <2>4. OfferedTo(n, old) # None
        BY <2>2, ManyMin DEF OfferedTo
  <2>5. ev.list = ViaListUnseconded(a, u) /\ ev.min = MinRttUpdated(a, old, m)
        BY <1>5, <2>1, <2>2 DEF ev, q, DecEvents
  <2> QED
        BY <1>2, <2>3, <2>4, <2>5, HearViaListUnseconded, HearMinRttUpdated
        DEF HearEvents, OfferedTo
<1>6. CASE Vias(q) # {} /\ ~IsSingle(q)
  <2>1. Vias(r) # {} /\ ~IsSingle(r)
        BY <1>1, <1>3, <1>6
  <2>2. OfferedTo(n, old) # None /\ OfferedTo(n, m) # None
        BY <1>1, <1>2, <1>6, <2>1, ManyMin DEF OfferedTo
  <2>3. ev.list = NoEvent /\ ev.min = MinRttUpdated(a, old, m)
        BY <1>6 DEF ev, q, DecEvents
  <2> QED
        BY <1>2, <2>2, <2>3, HearNoEvent, HearMinRttUpdated DEF HearEvents
<1> QED
      BY <1>4, <1>5, <1>6

\* After a new rtt every neighbour holds the new offer.
LEMMA HearUpdate ==
    ASSUME NEW n \in Address, NEW a \in Address, n # a,
           NEW r \in RouteMap, NEW v \in Via, r[v] # None, NEW d \in Rtt,
           NEW old \in MinRttsOf(r), NEW m \in MinRttsOf([r EXCEPT ![v] = d])
    PROVE  HearEvents(n, OfferedTo(n, old), UpdateEvents(a, old, m)) = OfferedTo(n, m)
<1> DEFINE q == [r EXCEPT ![v] = d]
<1>1. q \in RouteMap /\ Vias(q) = Vias(r) /\ Vias(r) # {}
      BY NoneNotRtt DEF RouteMap, RttOption, Vias
<1>2. old \in MinRtt /\ m \in MinRtt /\ m \in MinRttsOf(q)
      BY DEF MinRttsOf
<1> HIDE DEF q
<1>3. \/ OfferedTo(n, old) # None /\ OfferedTo(n, m) # None
      \/ OfferedTo(n, old) = None /\ OfferedTo(n, m) = None
  <2>1. CASE IsSingle(r)
    <3>1. PICK u \in Via : Vias(r) = {u}
          BY <2>1 DEF IsSingle
    <3>2. old.via = u /\ old.rtt # None /\ old.second_best = None
          BY <3>1, SingleMin
    <3>3. m.via = u /\ m.rtt # None /\ m.second_best = None
          BY <1>1, <1>2, <3>1, SingleMin
    <3> QED
          BY <3>2, <3>3 DEF OfferedTo
  <2>2. CASE ~IsSingle(r)
        BY <1>1, <1>2, <2>2, ManyMin DEF OfferedTo, IsSingle
  <2> QED
        BY <2>1, <2>2
<1> QED
      BY <1>2, <1>3, HearNoEvent, HearMinRttUpdated DEF HearEvents, UpdateEvents

\* Whatever a neighbour hears is a round-trip time or nothing.
LEMMA HearMinType ==
    ASSUME NEW n, NEW h \in RttOption, NEW a, NEW old \in MinRtt, NEW m \in MinRtt
    PROVE  Hear(h, NotificationFor(n, MinRttUpdated(a, old, m))) \in RttOption
BY DEF Hear, NotificationFor, Concerns, MinRttUpdated, NoEvent, update_for,
       OfferedTo, UpdatedForwardedRtt, NoMessage, MinRtt, RttOption

LEMMA HearListType ==
    ASSUME NEW n, NEW h \in RttOption, NEW a, NEW v \in Via, NEW e,
           \/ e = NoEvent
           \/ \E d \in Rtt : e = ConnectionAdded(a, v, d) \/ e = ViaListSeconded(a, v, d)
           \/ e = ConnectionRemoved(a, v) \/ e = ViaListUnseconded(a, v)
    PROVE  Hear(h, NotificationFor(n, e)) \in RttOption
BY HearNoEvent, HearConnectionAdded, HearViaListSeconded, HearConnectionRemoved,
   HearViaListUnseconded DEF RttOption

LEMMA HearEventsType ==
    ASSUME NEW n, NEW h \in RttOption, NEW a, NEW r \in RouteMap, NEW v \in Via,
           NEW old \in MinRtt, NEW m \in MinRtt
    PROVE  /\ \A d \in Rtt : HearEvents(n, h, IncEvents(a, r, v, d, old, m)) \in RttOption
           /\ HearEvents(n, h, DecEvents(a, r, v, old, m)) \in RttOption
           /\ HearEvents(n, h, UpdateEvents(a, old, m)) \in RttOption
<1>1. \A q : IsSingle(q) => OnlyVia(q) \in Via /\ q[OnlyVia(q)] # None
      BY OnlyViaIs DEF IsSingle, Vias
<1>2. ASSUME NEW d \in Rtt
      PROVE  HearEvents(n, h, IncEvents(a, r, v, d, old, m)) \in RttOption
  <2> DEFINE ev == IncEvents(a, r, v, d, old, m)
  <2>1. \/ ev.list = ConnectionAdded(a, v, d) /\ ev.min = NoEvent
        \/ \E u \in Via, x \in Rtt : /\ ev.list = ViaListSeconded(a, u, x)
                                    /\ ev.min = MinRttUpdated(a, old, m)
        \/ ev.list = NoEvent /\ ev.min = MinRttUpdated(a, old, m)
    <3>1. IsSingle(r) => OnlyVia(r) \in Via /\ Least(d, r[OnlyVia(r)]) \in Rtt
          BY <1>1 DEF Least, RouteMap, RttOption
    <3> QED
          BY <3>1 DEF IncEvents
  <2> SUFFICES HearEvents(n, h, ev) \in RttOption
        OBVIOUS
  <2> HIDE DEF ev
  <2>2. Hear(h, NotificationFor(n, ev.list)) \in RttOption
        BY <2>1, HearListType
  <2> QED
        BY <2>1, <2>2, HearMinType, HearNoEvent DEF HearEvents
<1>3. HearEvents(n, h, DecEvents(a, r, v, old, m)) \in RttOption
  <2> DEFINE ev == DecEvents(a, r, v, old, m)
  <2>1. \/ ev.list = ConnectionRemoved(a, v) /\ ev.min = NoEvent
        \/ \E u \in Via : /\ ev.list = ViaListUnseconded(a, u)
                         /\ ev.min = MinRttUpdated(a, old, m)
        \/ ev.list = NoEvent /\ ev.min = MinRttUpdated(a, old, m)
        BY <1>1 DEF DecEvents
  <2> SUFFICES HearEvents(n, h, ev) \in RttOption
        OBVIOUS
  <2> HIDE DEF ev
  <2>2. Hear(h, NotificationFor(n, ev.list)) \in RttOption
        BY <2>1, HearListType
  <2> QED
        BY <2>1, <2>2, HearMinType, HearNoEvent DEF HearEvents
<1>4. HearEvents(n, h, UpdateEvents(a, old, m)) \in RttOption
      BY HearMinType, HearNoEvent DEF HearEvents, UpdateEvents
<1> QED
      BY <1>2, <1>3, <1>4

-----------------------------------------------------------------------------
(* A neighbour that has not heard all of it.                                 *)

\* o is the old offer, p the new one, and h whatever the neighbour believes.  One
\* that holds the old offer is brought to the new one; one that holds nothing or
\* something else, because the events before these overtook or missed it, gets as
\* close as it can.
Heals(n, o, p, ev) ==
    /\ \A h :
           /\ h = o => HearEvents(n, h, ev) = p
           /\ o = None /\ p = None => HearEvents(n, h, ev) = h
           /\ o # None /\ p = None => HearEvents(n, h, ev) = None
           /\ o = None /\ p # None =>
                  /\ HearEvents(n, h, ev) # None
                  /\ h \in {None, p} => HearEvents(n, h, ev) = p
           /\ o # None /\ p # None /\ h # None =>
                  /\ HearEvents(n, h, ev) # None
                  /\ o # p => HearEvents(n, h, ev) = p
    /\ \A h :
           /\ h = p => Hear(h, NotificationFor(n, ev.min)) = p
           /\ p = None => Hear(h, NotificationFor(n, ev.min)) = h
           /\ h # None => Hear(h, NotificationFor(n, ev.min)) # None

\* The update of a minimum takes no route from anybody.
LEMMA HearMinKeeps ==
    ASSUME NEW n, NEW a, NEW old \in MinRtt, NEW m \in MinRtt, NEW h, h # None
    PROVE  Hear(h, NotificationFor(n, MinRttUpdated(a, old, m))) # None
BY DEF Hear, NotificationFor, Concerns, MinRttUpdated, NoEvent, update_for, UpdatedForwardedRtt,
       NoMessage

LEMMA MinHeals ==
    ASSUME NEW n, NEW a, NEW old \in MinRtt, NEW m \in MinRtt, NEW h,
           NEW e, e = NoEvent \/ e = MinRttUpdated(a, old, m)
    PROVE  /\ h = OfferedTo(n, m) => Hear(h, NotificationFor(n, e)) = OfferedTo(n, m)
           /\ OfferedTo(n, m) = None => Hear(h, NotificationFor(n, e)) = h
           /\ h # None => Hear(h, NotificationFor(n, e)) # None
BY HearNoEvent, HearMinRttUpdated, HearMinKeeps

LEMMA HealsInc ==
    ASSUME NEW n \in Address, NEW a \in Address, n # a,
           NEW r \in RouteMap, NEW v \in Via, NEW d \in Rtt, r[v] = None,
           NEW old \in MinRttsOf(r), NEW m \in MinRttsOf([r EXCEPT ![v] = d])
    PROVE  Heals(n, OfferedTo(n, old), OfferedTo(n, m), IncEvents(a, r, v, d, old, m))
<1> DEFINE q == [r EXCEPT ![v] = d]
           ev == IncEvents(a, r, v, d, old, m)
           o == OfferedTo(n, old)
           p == OfferedTo(n, m)
<1>1. q \in RouteMap /\ Vias(q) = Vias(r) \cup {v} /\ v \notin Vias(r)
    BY NoneNotRtt DEF RouteMap, RttOption, Vias
<1>2. old \in MinRtt /\ m \in MinRtt /\ m \in MinRttsOf(q)
    BY DEF MinRttsOf
<1>3. HearEvents(n, o, ev) = p
    BY HearInc
<1>4. ev.min = NoEvent \/ ev.min = MinRttUpdated(a, old, m)
    BY DEF IncEvents
<1>5. ASSUME NEW h
      PROVE  /\ o = None /\ p = None => HearEvents(n, h, ev) = h
             /\ o # None => p # None
             /\ o = None /\ p # None =>
                    /\ HearEvents(n, h, ev) # None
                    /\ h \in {None, p} => HearEvents(n, h, ev) = p
             /\ o # None /\ p # None /\ h # None =>
                    /\ HearEvents(n, h, ev) # None
                    /\ o # p => HearEvents(n, h, ev) = p
    <2> HIDE DEF q, ev
    <2>1. CASE Vias(r) = {}
        <3>1. old.rtt = None /\ old.second_best = None
            BY <2>1, EmptyMin
        <3>2. m.via = v /\ m.rtt = d /\ m.second_best = None
            <4>1. Vias(q) = {v} /\ q[v] = d
                BY <1>1, <2>1 DEF q, RouteMap
            <4> QED BY <1>1, <1>2, <4>1, SingleMin
        <3>3. ev.list = ConnectionAdded(a, v, d) /\ ev.min = NoEvent
            BY <2>1 DEF ev, IncEvents
        <3>4. HearEvents(n, h, ev) = IF n # v /\ h = None THEN d ELSE h
            BY <3>3, HearConnectionAdded, HearNoEvent DEF HearEvents
        <3> QED BY <3>1, <3>2, <3>4, NoneNotRtt DEF OfferedTo
    <2>2. CASE IsSingle(r)
        <3>1. PICK u \in Via : Vias(r) = {u}
            BY <2>2 DEF IsSingle
        <3>2. OnlyVia(r) = u /\ u # v /\ r[u] \in Rtt
            BY <1>1, <3>1, OnlyViaIs DEF Vias, RouteMap, RttOption
        <3>3. old.via = u /\ old.rtt = r[u] /\ old.second_best = None
            BY <3>1, SingleMin
        <3>4. m.rtt # None /\ m.second_best # None
            BY <1>1, <1>2, <3>1, <3>2, ManyMin DEF IsSingle
        <3>5. p # None
            BY <3>4 DEF OfferedTo
        <3>6. /\ ev.list = ViaListSeconded(a, u, Least(d, r[u]))
              /\ ev.min = MinRttUpdated(a, old, m)
            BY <2>2, <3>1, <3>2 DEF ev, IncEvents
        <3>7. Least(d, r[u]) # None
            BY <3>2, NoneNotRtt DEF Least
        <3>8. Hear(h, NotificationFor(n, ev.list)) = IF n = u /\ h = None THEN Least(d, r[u]) ELSE h
            BY <3>6, HearViaListSeconded
        <3>9. CASE n = u
            <4>1. o = None /\ Hear(h, NotificationFor(n, ev.list)) # None
                BY <3>3, <3>7, <3>8, <3>9 DEF OfferedTo
            <4>2. HearEvents(n, h, ev) = p
                BY <1>2, <3>5, <3>6, <4>1, HearMinRttUpdated DEF HearEvents
            <4> QED BY <3>5, <4>1, <4>2
        <3>10. CASE n # u
            <4>1. o = r[u] /\ o # None /\ Hear(h, NotificationFor(n, ev.list)) = h
                BY <3>2, <3>3, <3>8, <3>10, NoneNotRtt DEF OfferedTo
            <4>2. h # None => HearEvents(n, h, ev) # None /\ (o # p => HearEvents(n, h, ev) = p)
                BY <1>2, <3>5, <3>6, <4>1, HearMinRttUpdated, HearMinKeeps DEF HearEvents
            <4> QED BY <3>5, <4>1, <4>2
        <3> QED BY <3>9, <3>10
    <2>3. CASE Vias(r) # {} /\ ~IsSingle(r)
        <3>1. o # None
            BY <2>3, ManyMin DEF OfferedTo
        <3>2. Vias(q) # {} /\ ~IsSingle(q)
            BY <1>1, <2>3 DEF IsSingle, Vias
        <3>3. p # None
            BY <1>1, <1>2, <3>2, ManyMin DEF OfferedTo
        <3>4. ev.list = NoEvent /\ ev.min = MinRttUpdated(a, old, m)
            BY <2>3 DEF ev, IncEvents
        <3>5. h # None => HearEvents(n, h, ev) # None /\ (o # p => HearEvents(n, h, ev) = p)
            BY <1>2, <3>3, <3>4, HearNoEvent, HearMinRttUpdated, HearMinKeeps DEF HearEvents
        <3> QED BY <3>1, <3>3, <3>5
    <2> QED BY <2>1, <2>2, <2>3
<1> HIDE DEF ev, q
<1>6. ASSUME NEW h
      PROVE  /\ h = p => Hear(h, NotificationFor(n, ev.min)) = p
             /\ p = None => Hear(h, NotificationFor(n, ev.min)) = h
             /\ h # None => Hear(h, NotificationFor(n, ev.min)) # None
    <2> DEFINE e == ev.min
    <2>1. e = NoEvent \/ e = MinRttUpdated(a, old, m)
        BY <1>4
    <2> HIDE DEF e
    <2>2. /\ h = p => Hear(h, NotificationFor(n, e)) = p
          /\ p = None => Hear(h, NotificationFor(n, e)) = h
          /\ h # None => Hear(h, NotificationFor(n, e)) # None
        BY <1>2, <2>1, MinHeals
    <2> QED BY <2>2 DEF e
<1> HIDE DEF o, p
<1>7. Heals(n, o, p, ev)
    BY <1>3, <1>5, <1>6 DEF Heals
<1> QED BY <1>7 DEF o, p, ev

LEMMA HealsDec ==
    ASSUME NEW n \in Address, NEW a \in Address, n # a,
           NEW r \in RouteMap, NEW v \in Via, r[v] # None,
           NEW old \in MinRttsOf(r), NEW m \in MinRttsOf([r EXCEPT ![v] = None])
    PROVE  Heals(n, OfferedTo(n, old), OfferedTo(n, m), DecEvents(a, r, v, old, m))
<1> DEFINE q == [r EXCEPT ![v] = None]
           ev == DecEvents(a, r, v, old, m)
           o == OfferedTo(n, old)
           p == OfferedTo(n, m)
<1>1. q \in RouteMap /\ Vias(q) = Vias(r) \ {v} /\ v \in Vias(r)
    BY DEF RouteMap, RttOption, Vias
<1>2. old \in MinRtt /\ m \in MinRtt /\ m \in MinRttsOf(q)
    BY DEF MinRttsOf
<1>3. HearEvents(n, o, ev) = p
    BY HearDec
<1>4. ev.min = NoEvent \/ ev.min = MinRttUpdated(a, old, m)
    BY DEF DecEvents
<1>5. IsSingle(r) => Vias(r) = {v}
    BY <1>1 DEF IsSingle
<1>6. ASSUME NEW h
      PROVE  /\ o = None => p = None /\ HearEvents(n, h, ev) = h
             /\ o # None /\ p = None => HearEvents(n, h, ev) = None
             /\ o # None /\ p # None /\ h # None =>
                    /\ HearEvents(n, h, ev) # None
                    /\ o # p => HearEvents(n, h, ev) = p
    <2> HIDE DEF q, ev
    <2>1. CASE Vias(q) = {}
        <3>1. Vias(r) = {v}
            BY <1>1, <2>1
        <3>2. old.via = v /\ old.second_best = None /\ old.rtt # None
            BY <3>1, SingleMin
        <3>3. p = None
            BY <1>1, <1>2, <2>1, EmptyMin DEF OfferedTo
        <3>4. ev.list = ConnectionRemoved(a, v) /\ ev.min = NoEvent
            BY <2>1 DEF ev, q, DecEvents
        <3>5. HearEvents(n, h, ev) = IF n # v THEN None ELSE h
            BY <3>4, HearConnectionRemoved, HearNoEvent DEF HearEvents
        <3> QED BY <3>2, <3>3, <3>5 DEF OfferedTo
    <2>2. CASE IsSingle(q)
        <3>1. PICK u \in Via : Vias(q) = {u}
            BY <2>2 DEF IsSingle
        <3>2. OnlyVia(q) = u /\ ~IsSingle(r) /\ Vias(r) # {}
            BY <1>1, <1>5, <3>1, OnlyViaIs
        <3>3. m.via = u /\ m.rtt # None /\ m.second_best = None
            BY <1>1, <1>2, <3>1, SingleMin
        <3>4. o # None
            BY <3>2, ManyMin DEF OfferedTo
        <3>5. ev.list = ViaListUnseconded(a, u) /\ ev.min = MinRttUpdated(a, old, m)
            BY <2>2, <3>1, <3>2 DEF ev, q, DecEvents
        <3>6. Hear(h, NotificationFor(n, ev.list)) = IF n = u THEN None ELSE h
            BY <3>5, HearViaListUnseconded
        <3>7. CASE n = u
            <4>1. p = None
                BY <3>3, <3>7 DEF OfferedTo
            <4>2. HearEvents(n, h, ev) = None
                BY <1>2, <3>5, <3>6, <3>7, HearMinRttUpdated DEF HearEvents
            <4> QED BY <3>4, <4>1, <4>2
        <3>8. CASE n # u
            <4>1. p # None
                BY <3>3, <3>8 DEF OfferedTo
            <4>2. h # None => HearEvents(n, h, ev) # None /\ (o # p => HearEvents(n, h, ev) = p)
                BY <1>2, <3>5, <3>6, <3>8, <4>1, HearMinRttUpdated, HearMinKeeps DEF HearEvents
            <4> QED BY <3>4, <4>1, <4>2
        <3> QED BY <3>7, <3>8
    <2>3. CASE Vias(q) # {} /\ ~IsSingle(q)
        <3>1. Vias(r) # {} /\ ~IsSingle(r)
            BY <1>1, <1>5, <2>3
        <3>2. o # None /\ p # None
            BY <1>1, <1>2, <2>3, <3>1, ManyMin DEF OfferedTo
        <3>3. ev.list = NoEvent /\ ev.min = MinRttUpdated(a, old, m)
            BY <2>3 DEF ev, q, DecEvents
        <3>4. h # None => HearEvents(n, h, ev) # None /\ (o # p => HearEvents(n, h, ev) = p)
            BY <1>2, <3>2, <3>3, HearNoEvent, HearMinRttUpdated, HearMinKeeps DEF HearEvents
        <3> QED BY <3>2, <3>4
    <2> QED BY <2>1, <2>2, <2>3
<1> HIDE DEF ev, q
<1>7. ASSUME NEW h
      PROVE  /\ h = p => Hear(h, NotificationFor(n, ev.min)) = p
             /\ p = None => Hear(h, NotificationFor(n, ev.min)) = h
             /\ h # None => Hear(h, NotificationFor(n, ev.min)) # None
    <2> DEFINE e == ev.min
    <2>1. e = NoEvent \/ e = MinRttUpdated(a, old, m)
        BY <1>4
    <2> HIDE DEF e
    <2>2. /\ h = p => Hear(h, NotificationFor(n, e)) = p
          /\ p = None => Hear(h, NotificationFor(n, e)) = h
          /\ h # None => Hear(h, NotificationFor(n, e)) # None
        BY <1>2, <2>1, MinHeals
    <2> QED BY <2>2 DEF e
<1> HIDE DEF o, p
<1>8. Heals(n, o, p, ev)
    BY <1>3, <1>6, <1>7 DEF Heals
<1> QED BY <1>8 DEF o, p, ev

-----------------------------------------------------------------------------
(* For arguments along a sequence: the first place where something fails.    *)

\* A set of numbers has a smallest member.
LEMMA Smallest ==
    ASSUME NEW S \in SUBSET Nat, NEW x \in S
    PROVE  \E n \in S : \A m \in S : n <= m
<1> DEFINE R == OpToRel(<, Nat)
<1>1. IsWellFoundedOn(R, Nat)
    BY NatLessThanWellFounded
<1>2. \A m, n \in Nat : m < n => <<m, n>> \in R
    BY DEF OpToRel
<1> HIDE DEF R
<1>3. PICK n \in S : \A m \in S : ~(<<m, n>> \in R)
    BY <1>1, WFMin
<1>4. \A m \in S : ~(m < n)
    BY <1>2, <1>3
<1> QED BY <1>4
=============================================================================
