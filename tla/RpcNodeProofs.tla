--------------------------- MODULE RpcNodeProofs ---------------------------
(* First a table whose neighbours hear every event at once (Announce), for   *)
(* any set of addresses and any round-trip times: it stays consistent, and   *)
(* every neighbour is offered exactly the best route that does not lead back *)
(* through it.  Then the node with its queue (RpcNode), for finitely many    *)
(* addresses and any bound of the queue: the table, its inverse index and    *)
(* the connections agree whatever callers, readers and the worker do in      *)
(* between, nobody waits for a route that is there without a wake-up on its  *)
(* way, and when the queue is drained each neighbour holds the best route    *)
(* around itself.                                                            *)
EXTENDS RpcNode, RouteEventProofs, FiniteSetTheorems

Exact == AnnounceTypeOK /\ InverseBalanced /\ MinExact /\ LateJoinerAgrees

-----------------------------------------------------------------------------
(* Announce: the inductive invariant.  MinExact makes the cached minimum     *)
(* mean what the Hear lemmas assume of it; LateJoinerAgrees is the exact     *)
(* value of heard, of which HeardExact is the meaning; InverseBalanced keeps *)
(* the asserts from failing.                                                 *)

LEMMA InitExact == AnnounceInit => Exact
<1> SUFFICES ASSUME AnnounceInit PROVE Exact
      OBVIOUS
<1> USE DEF AnnounceInit, RouteInit
<1>1. AnnounceTypeOK
      BY DEF AnnounceTypeOK, RouteTypeOK, RouteMap, MinRtt, RttOption, NoRoutes, NoMin, Via
<1>2. InverseBalanced
      BY DEF InverseBalanced, NoRoutes
<1>3. MinExact
      BY DEF MinExact, MinRttsOf, MinRtt, RttOption, NoRoutes, NoMin, IsBest, Via
<1>4. LateJoinerAgrees
      BY DEF LateJoinerAgrees, OfferedTo, NoMin
<1> QED
      BY <1>1, <1>2, <1>3, <1>4 DEF Exact

\* What an operation makes of one address's routes decides the whole invariant.
LEMMA ExactStep ==
    ASSUME Exact, NEW a \in Address, NEW v \in Via, NEW x \in RttOption,
           NEW m \in MinRttsOf([via[a] EXCEPT ![v] = x]), NEW ev,
           via' = [via EXCEPT ![a] = [via[a] EXCEPT ![v] = x]],
           min_rtt' = [min_rtt EXCEPT ![a] = m],
           inverse' = [inverse EXCEPT ![v] = IF x = None THEN @ \ {a} ELSE @ \cup {a}],
           panicked' = FALSE,
           Announced(a, ev),
           \A n \in Address : HearEvents(n, heard[n][a], ev) \in RttOption,
           \A n \in Address \ {a} : HearEvents(n, heard[n][a], ev) = OfferedTo(n, m)
    PROVE  Exact'
<1>1. AnnounceTypeOK'
      BY DEF Exact, AnnounceTypeOK, RouteTypeOK, RouteMap, MinRttsOf, Announced
<1>2. InverseBalanced'
      BY DEF Exact, AnnounceTypeOK, RouteTypeOK, RouteMap, InverseBalanced
<1>3. MinExact'
      BY DEF Exact, AnnounceTypeOK, RouteTypeOK, MinExact
<1>4. LateJoinerAgrees'
      BY DEF Exact, AnnounceTypeOK, RouteTypeOK, LateJoinerAgrees, Announced
<1> QED
      BY <1>1, <1>2, <1>3, <1>4 DEF Exact

LEMMA IncExact ==
    ASSUME Exact, NEW a \in Address, NEW v \in Via, NEW d \in Rtt, Inc(a, v, d)
    PROVE  Exact'
<1>1. PICK m \in MinRtt : /\ IncRoute(a, v, d, m)
                          /\ Announced(a, IncEvents(a, via[a], v, d, min_rtt[a], m))
      BY DEF Inc
<1> DEFINE ev == IncEvents(a, via[a], v, d, min_rtt[a], m)
<1>2. /\ via[a] \in RouteMap /\ via[a][v] = None
      /\ min_rtt[a] \in MinRttsOf(via[a]) /\ min_rtt[a] \in MinRtt
      /\ m \in MinRttsOf([via[a] EXCEPT ![v] = d])
      /\ \A n \in Address : heard[n][a] \in RttOption
      /\ d \in RttOption /\ d # None
      BY <1>1, NoneNotRtt DEF Exact, AnnounceTypeOK, RouteTypeOK, MinExact, IncRoute, RttOption
<1>3. \A n \in Address : HearEvents(n, heard[n][a], ev) \in RttOption
      BY <1>2, HearEventsType
<1>4. ASSUME NEW n \in Address \ {a}
      PROVE  HearEvents(n, heard[n][a], ev) = OfferedTo(n, m)
  <2>1. heard[n][a] = OfferedTo(n, min_rtt[a]) /\ n # a
        BY DEF Exact, LateJoinerAgrees
  <2> QED
        BY <1>2, <2>1, HearInc
<1>5. /\ panicked' = FALSE
      /\ inverse' = [inverse EXCEPT ![v] = IF d = None THEN @ \ {a} ELSE @ \cup {a}]
      BY <1>1, <1>2 DEF Exact, AnnounceTypeOK, RouteTypeOK, InverseBalanced, IncRoute, InverseInc
<1> QED
      BY <1>1, <1>2, <1>3, <1>4, <1>5, ExactStep DEF IncRoute

LEMMA DecExact ==
    ASSUME Exact, NEW a \in Address, NEW v \in Via, Dec(a, v)
    PROVE  Exact'
<1>1. PICK m \in MinRtt : /\ DecRoute(a, v, m)
                          /\ Announced(a, DecEvents(a, via[a], v, min_rtt[a], m))
      BY DEF Dec
<1> DEFINE ev == DecEvents(a, via[a], v, min_rtt[a], m)
<1>2. /\ via[a] \in RouteMap /\ via[a][v] # None
      /\ min_rtt[a] \in MinRttsOf(via[a]) /\ min_rtt[a] \in MinRtt
      /\ \A n \in Address : heard[n][a] \in RttOption
      /\ None \in RttOption
      BY <1>1 DEF Exact, AnnounceTypeOK, RouteTypeOK, MinExact, DecRoute, RttOption
<1>3. m \in MinRttsOf([via[a] EXCEPT ![v] = None])
  <2>1. [via[a] EXCEPT ![v] = None] \in RouteMap
        BY <1>2 DEF RouteMap, RttOption
  <2> QED
        BY <1>1, <2>1, EmptyMin DEF DecRoute
<1>4. \A n \in Address : HearEvents(n, heard[n][a], ev) \in RttOption
      BY <1>2, HearEventsType
<1>5. ASSUME NEW n \in Address \ {a}
      PROVE  HearEvents(n, heard[n][a], ev) = OfferedTo(n, m)
  <2>1. heard[n][a] = OfferedTo(n, min_rtt[a]) /\ n # a
        BY DEF Exact, LateJoinerAgrees
  <2> QED
        BY <1>2, <1>3, <2>1, HearDec
<1>6. /\ panicked' = FALSE
      /\ inverse' = [inverse EXCEPT ![v] = IF None = None THEN @ \ {a} ELSE @ \cup {a}]
      BY <1>1, <1>2 DEF Exact, AnnounceTypeOK, RouteTypeOK, InverseBalanced, DecRoute, InverseDec
<1> QED
      BY <1>1, <1>2, <1>3, <1>4, <1>5, <1>6, ExactStep DEF DecRoute

LEMMA UpdateExact ==
    ASSUME Exact, NEW a \in Address, NEW v \in Via, NEW d \in Rtt, Update(a, v, d)
    PROVE  Exact'
<1>1. PICK m \in MinRtt : /\ UpdateRoute(a, v, d, m)
                          /\ Announced(a, UpdateEvents(a, min_rtt[a], m))
      BY DEF Update
<1> DEFINE ev == UpdateEvents(a, min_rtt[a], m)
<1>2. /\ via[a] \in RouteMap /\ via[a][v] # None
      /\ min_rtt[a] \in MinRttsOf(via[a]) /\ min_rtt[a] \in MinRtt
      /\ m \in MinRttsOf([via[a] EXCEPT ![v] = d])
      /\ \A n \in Address : heard[n][a] \in RttOption
      /\ d \in RttOption /\ d # None
      BY <1>1, NoneNotRtt
      DEF Exact, AnnounceTypeOK, RouteTypeOK, MinExact, UpdateRoute, RttOption
<1>3. \A n \in Address : HearEvents(n, heard[n][a], ev) \in RttOption
      BY <1>2, HearEventsType
<1>4. ASSUME NEW n \in Address \ {a}
      PROVE  HearEvents(n, heard[n][a], ev) = OfferedTo(n, m)
  <2>1. heard[n][a] = OfferedTo(n, min_rtt[a]) /\ n # a
        BY DEF Exact, LateJoinerAgrees
  <2> QED
        BY <1>2, <2>1, HearUpdate
<1>5. /\ panicked' = FALSE
      /\ inverse' = [inverse EXCEPT ![v] = IF d = None THEN @ \ {a} ELSE @ \cup {a}]
      BY <1>1, <1>2 DEF Exact, AnnounceTypeOK, RouteTypeOK, InverseBalanced, UpdateRoute
<1> QED
      BY <1>1, <1>2, <1>3, <1>4, <1>5, ExactStep DEF UpdateRoute

LEMMA NextExact == Exact /\ [AnnounceNext]_announceVars => Exact'
<1> SUFFICES ASSUME Exact, [AnnounceNext]_announceVars PROVE Exact'
      OBVIOUS
<1>1. CASE UNCHANGED announceVars
      BY <1>1 DEF announceVars, Exact, AnnounceTypeOK, RouteTypeOK, InverseBalanced, MinExact,
                  LateJoinerAgrees
<1>2. CASE AnnounceNext
      BY <1>2, IncExact, DecExact, UpdateExact, DestinationAssumption DEF AnnounceNext
<1> QED
      BY <1>1, <1>2

THEOREM SpecExact == AnnounceSpec => []Exact
BY InitExact, NextExact, PTL DEF AnnounceSpec

-----------------------------------------------------------------------------
(* What is proved of Announce.                                               *)

\* The types of the table and of what the neighbours hold, for any set of
\* addresses and round-trip times (route.rs 72-76 and 154-158).
THEOREM SpecAnnounceTypeOK == AnnounceSpec => []AnnounceTypeOK
<1>1. Exact => AnnounceTypeOK
      BY DEF Exact
<1> QED
      BY <1>1, SpecExact, PTL

\* No sequence of inc, dec and update makes an "inverse imbalance" assert! of
\* InverseRouteSet fail (route.rs 134-147).
THEOREM SpecInverseBalanced == AnnounceSpec => []InverseBalanced
<1>1. Exact => InverseBalanced
      BY DEF Exact
<1> QED
      BY <1>1, SpecExact, PTL

\* The list add_direct sends a new neighbour is what an old one has heard event
\* by event (rpc.rs 239-249 against 567-657).
THEOREM SpecLateJoinerAgrees == AnnounceSpec => []LateJoinerAgrees
<1>1. Exact => LateJoinerAgrees
      BY DEF Exact
<1> QED
      BY <1>1, SpecExact, PTL

LEMMA ExactHeard == Exact => HeardExact
<1> SUFFICES ASSUME Exact, NEW n \in Address, NEW a \in Address \ {n}
             PROVE  IsBest(via[a], Via \ {n}, heard[n][a])
      BY DEF HeardExact
<1>1. /\ via[a] \in RouteMap /\ min_rtt[a] \in MinRttsOf(via[a]) /\ n \in Via
      /\ heard[n][a] = OfferedTo(n, min_rtt[a])
      BY DEF Exact, AnnounceTypeOK, RouteTypeOK, MinExact, LateJoinerAgrees, Via
<1> QED
      BY <1>1, OfferedIsBest

\* Split horizon with exact round-trip times: what every neighbour has heard is
\* the best route not through itself (rpc.rs 567-657, route.rs 105-119).
THEOREM SpecHeardExact == AnnounceSpec => []HeardExact
BY ExactHeard, SpecExact, PTL

-----------------------------------------------------------------------------
(* Announce implements SplitHorizon.                                         *)

LEMMA OfferedAt ==
    ASSUME NEW n \in Address, NEW a \in Address \ {n}
    PROVE  offered[n][a] = heard[n][a] /\ (offered[n][a])' = heard'[n][a]
BY DEF offered

LEMMA InitOffered == AnnounceInit => SH!Init
BY DEF AnnounceInit, RouteInit, SH!Init, offered, NoRoutes, SH!NoRoutes, Via, SH!Via

\* A step that changes one route and keeps Exact is a step of SplitHorizon.
LEMMA StepImplements ==
    ASSUME Exact, Exact', HeardExact',
           NEW a \in Address, NEW v \in Via, NEW d \in RttOption,
           via' = [via EXCEPT ![a][v] = d],
           NEW ev, Announced(a, ev)
    PROVE  SH!Change(a, v, d)
<1>1. offered' \in [Address -> [Address -> RttOption]]
      BY DEF offered, Exact, AnnounceTypeOK, RttOption
<1>2. ASSUME NEW n \in Address, NEW b \in Address, b = a, n # a
      PROVE  IsBest(via'[a], Via \ {n}, offered'[n][a])
  <2>1. a \in Address \ {n}
        BY <1>2
  <2>2. IsBest(via'[a], Via \ {n}, heard'[n][a])
        BY <2>1 DEF HeardExact
  <2> QED
        BY <2>1, <2>2, OfferedAt
<1>3. ASSUME NEW n \in Address, NEW b \in Address, ~(b = a /\ n # a)
      PROVE  offered'[n][b] = offered[n][b]
  <2>1. CASE n = b
        BY <2>1 DEF offered
  <2>2. CASE b # a
        BY <2>2 DEF offered, Announced, Exact, AnnounceTypeOK
  <2> QED
        BY <1>3, <2>1, <2>2
<1> QED
      BY <1>1, <1>2, <1>3
      DEF SH!Change, SH!IsBest, IsBest, SH!Via, Via, SH!RttOption, RttOption

LEMMA NextImplements ==
    Exact /\ Exact' /\ HeardExact' /\ [AnnounceNext]_announceVars => [SH!Next]_(SH!vars)
<1> SUFFICES ASSUME Exact, Exact', HeardExact', [AnnounceNext]_announceVars PROVE [SH!Next]_(SH!vars)
      OBVIOUS
<1> USE DEF RttOption
<1>1. ASSUME NEW a \in Destination, NEW v \in Via, NEW d \in Rtt, Inc(a, v, d)
      PROVE  SH!Next
  <2>1. PICK m \in MinRtt :
            /\ IncRoute(a, v, d, m)
            /\ Announced(a, IncEvents(a, via[a], v, d, min_rtt[a], m))
        BY <1>1 DEF Inc
  <2>2. a \in Address /\ d \in RttOption
        BY DestinationAssumption
  <2>3. via' = [via EXCEPT ![a][v] = d]
        BY <2>1 DEF IncRoute
  <2> QED
        BY <2>1, <2>2, <2>3, StepImplements DEF SH!Next, SH!Via, Via, SH!RttOption
<1>2. ASSUME NEW a \in Destination, NEW v \in Via, Dec(a, v)
      PROVE  SH!Next
  <2>1. PICK m \in MinRtt :
            /\ DecRoute(a, v, m)
            /\ Announced(a, DecEvents(a, via[a], v, min_rtt[a], m))
        BY <1>2 DEF Dec
  <2>2. a \in Address /\ None \in RttOption
        BY DestinationAssumption
  <2>3. via' = [via EXCEPT ![a][v] = None]
        BY <2>1 DEF DecRoute
  <2> QED
        BY <2>1, <2>2, <2>3, StepImplements DEF SH!Next, SH!Via, Via, SH!RttOption
<1>3. ASSUME NEW a \in Destination, NEW v \in Via, NEW d \in Rtt, Update(a, v, d)
      PROVE  SH!Next
  <2>1. PICK m \in MinRtt :
            /\ UpdateRoute(a, v, d, m)
            /\ Announced(a, UpdateEvents(a, min_rtt[a], m))
        BY <1>3 DEF Update
  <2>2. a \in Address /\ d \in RttOption
        BY DestinationAssumption
  <2>3. via' = [via EXCEPT ![a][v] = d]
        BY <2>1 DEF UpdateRoute
  <2> QED
        BY <2>1, <2>2, <2>3, StepImplements DEF SH!Next, SH!Via, Via, SH!RttOption
<1>4. CASE UNCHANGED announceVars
      BY <1>4 DEF announceVars, SH!vars, offered
<1> QED
      BY <1>1, <1>2, <1>3, <1>4 DEF AnnounceNext

\* The node's announcements implement split horizon, for any addresses and
\* round-trip times: every change of a route is, for the neighbours, one step from
\* exact offers to exact offers (route.rs 171-274, rpc.rs 567-657).
THEOREM SpecImplementsSplitHorizon == AnnounceSpec => ImplementsSplitHorizon
<1> QED
      BY InitOffered, NextImplements, SpecExact, SpecHeardExact, PTL
      DEF AnnounceSpec, ImplementsSplitHorizon, SH!Spec

-----------------------------------------------------------------------------
(* RpcNode: the assumptions.                                                 *)

USE RttAssumption, NoneAssumption, DirectAssumption, DestinationAssumption, NodeAssumption

-----------------------------------------------------------------------------
(* The table.                                                                *)

\* The routes of every address but a, via v, are there as before.
OnlyChanges(a, v, there) ==
    \A b \in Address : \A w \in Via :
        via'[b][w] # None <=> IF b = a /\ w = v THEN there ELSE via[b][w] # None

LEMMA IncTable ==
    ASSUME RouteTypeOK, InverseBalanced, NEW a \in Address, NEW v \in Via, NEW d \in Rtt,
           NEW m \in MinRtt, IncRoute(a, v, d, m)
    PROVE  RouteTypeOK' /\ InverseBalanced' /\ OnlyChanges(a, v, TRUE)
<1> DEFINE r == [via[a] EXCEPT ![v] = d]
<1>1. /\ via' = [via EXCEPT ![a] = r] /\ min_rtt' = [min_rtt EXCEPT ![a] = m]
      /\ inverse' = [inverse EXCEPT ![v] = @ \cup {a}] /\ panicked' = (a \in inverse[v])
      /\ via[a][v] = None
    BY DEF IncRoute, InverseInc
<1>2. via[a] \in RouteMap /\ r \in RouteMap /\ \A w \in Via : r[w] = IF w = v THEN d ELSE via[a][w]
    BY DEF RouteTypeOK, RouteMap, RttOption
<1>3. OnlyChanges(a, v, TRUE)
    <2> HIDE DEF r
    <2>1. \A b \in Address : via'[b] = IF b = a THEN r ELSE via[b]
        BY <1>1 DEF RouteTypeOK
    <2> QED BY <1>2, <2>1, NoneNotRtt DEF OnlyChanges
<1>4. panicked' = FALSE
    <2>1. a \notin inverse[v]
        BY <1>1 DEF InverseBalanced
    <2>2. panicked' = (a \in inverse[v])
        BY DEF IncRoute, InverseInc
    <2>3. (a \in inverse[v]) = FALSE
        BY <2>1
    <2> QED BY <2>2, <2>3, Zenon
<1>5. RouteTypeOK'
    <2> HIDE DEF r
    <2> QED BY <1>1, <1>2, <1>4 DEF RouteTypeOK
<1>6. \A w \in Via : inverse'[w] = {b \in Address : via'[b][w] # None}
    <2>1. \A w \in Via : inverse'[w] = IF w = v THEN inverse[v] \cup {a} ELSE inverse[w]
        BY <1>1 DEF RouteTypeOK
    <2> QED BY <1>3, <2>1 DEF InverseBalanced, OnlyChanges
<1> QED BY <1>3, <1>4, <1>5, <1>6 DEF InverseBalanced

LEMMA DecTable ==
    ASSUME RouteTypeOK, InverseBalanced, NEW a \in Address, NEW v \in Via,
           NEW m \in MinRtt, DecRoute(a, v, m)
    PROVE  RouteTypeOK' /\ InverseBalanced' /\ OnlyChanges(a, v, FALSE)
<1> DEFINE r == [via[a] EXCEPT ![v] = None]
<1>1. /\ via' = [via EXCEPT ![a] = r] /\ min_rtt' = [min_rtt EXCEPT ![a] = m]
      /\ inverse' = [inverse EXCEPT ![v] = @ \ {a}] /\ panicked' = (a \notin inverse[v])
      /\ via[a][v] # None
    BY DEF DecRoute, InverseDec
<1>2. via[a] \in RouteMap /\ r \in RouteMap
      /\ \A w \in Via : r[w] = IF w = v THEN None ELSE via[a][w]
    BY DEF RouteTypeOK, RouteMap, RttOption
<1>3. OnlyChanges(a, v, FALSE)
    <2> HIDE DEF r
    <2>1. \A b \in Address : via'[b] = IF b = a THEN r ELSE via[b]
        BY <1>1 DEF RouteTypeOK
    <2> QED BY <1>2, <2>1 DEF OnlyChanges
<1>4. panicked' = FALSE
    <2>1. a \in inverse[v]
        BY <1>1 DEF InverseBalanced
    <2>2. panicked' = (a \notin inverse[v])
        BY DEF DecRoute, InverseDec
    <2> QED BY <2>1, <2>2, Zenon
<1>5. RouteTypeOK'
    <2> HIDE DEF r
    <2> QED BY <1>1, <1>2, <1>4 DEF RouteTypeOK
<1>6. \A w \in Via : inverse'[w] = {b \in Address : via'[b][w] # None}
    <2>1. \A w \in Via : inverse'[w] = IF w = v THEN inverse[v] \ {a} ELSE inverse[w]
        BY <1>1 DEF RouteTypeOK
    <2> QED BY <1>3, <2>1 DEF InverseBalanced, OnlyChanges
<1> QED BY <1>3, <1>4, <1>5, <1>6 DEF InverseBalanced

-----------------------------------------------------------------------------
(* The queue.                                                                *)

Message == {AddForwarded(a, d) : a \in Address, d \in Rtt}
               \cup {UpdatedForwardedRtt(a, d) : a \in Address, d \in Rtt}
               \cup {RemoveForwarded(a) : a \in Address}

Changed == {MinRttUpdated(a, old, m) : a \in Address, old \in MinRtt, m \in MinRtt} \ {NoEvent}

RouteEvent == {ConnectionAdded(a, v, d) : a \in Address, v \in Via, d \in Rtt}
                  \cup {ConnectionRemoved(a, v) : a \in Address, v \in Via}
                  \cup {ViaListSeconded(a, v, d) : a \in Address, v \in Via, d \in Rtt}
                  \cup {ViaListUnseconded(a, v) : a \in Address, v \in Via}
                  \cup Changed

Outgoing == {OutgoingMessage(n, msg) : n \in Neighbour, msg \in Message}
Incoming == {ConnectionMessage(n, msg) : n \in Neighbour, msg \in Message}
Ending == {ConnectionEnding(n) : n \in Neighbour}
RootEvent == RouteEvent \cup Outgoing \cup Incoming \cup Ending

\* The wake-up for a is in q.
Wakes(q, a) == \E i \in DOMAIN q : q[i].kind = "ConnectionAdded" /\ q[i].to = a

LEMMA WakesConcat ==
    ASSUME NEW S, NEW q \in Seq(S), NEW t \in Seq(S), NEW a
    PROVE  Wakes(q \o t, a) <=> Wakes(q, a) \/ Wakes(t, a)
<1>1. /\ Len(q) \in Nat /\ Len(t) \in Nat /\ Len(q \o t) = Len(q) + Len(t)
      /\ DOMAIN q = 1..Len(q) /\ DOMAIN t = 1..Len(t) /\ DOMAIN (q \o t) = 1..(Len(q) + Len(t))
    OBVIOUS
<1>2. \A i \in 1..(Len(q) + Len(t)) : (q \o t)[i] = IF i <= Len(q) THEN q[i] ELSE t[i - Len(q)]
    OBVIOUS
<1>3. ASSUME Wakes(q, a) PROVE Wakes(q \o t, a)
    BY <1>1, <1>2, <1>3 DEF Wakes
<1>4. ASSUME Wakes(t, a) PROVE Wakes(q \o t, a)
    <2>1. PICK i \in 1..Len(t) : t[i].kind = "ConnectionAdded" /\ t[i].to = a
        BY <1>1, <1>4 DEF Wakes
    <2>2. Len(q) + i \in DOMAIN (q \o t) /\ (q \o t)[Len(q) + i] = t[i]
        BY <1>1, <1>2
    <2> QED BY <2>1, <2>2 DEF Wakes
<1>5. ASSUME Wakes(q \o t, a) PROVE Wakes(q, a) \/ Wakes(t, a)
    <2>1. PICK i \in 1..(Len(q) + Len(t)) :
              (q \o t)[i].kind = "ConnectionAdded" /\ (q \o t)[i].to = a
        BY <1>1, <1>5 DEF Wakes
    <2>2. CASE i <= Len(q)
        <3>1. i \in DOMAIN q /\ (q \o t)[i] = q[i]
            BY <1>1, <1>2, <2>2
        <3> QED BY <2>1, <3>1 DEF Wakes
    <2>3. CASE i > Len(q)
        <3>1. i - Len(q) \in DOMAIN t /\ (q \o t)[i] = t[i - Len(q)]
            BY <1>1, <1>2, <2>3
        <3> QED BY <2>1, <3>1 DEF Wakes
    <2> QED BY <1>1, <2>2, <2>3
<1> QED BY <1>3, <1>4, <1>5

LEMMA WakesOne ==
    ASSUME NEW e, NEW a
    PROVE  Wakes(<<e>>, a) <=> e.kind = "ConnectionAdded" /\ e.to = a
BY DEF Wakes

LEMMA WakesHeadTail ==
    ASSUME NEW S, NEW q \in Seq(S), q # <<>>, NEW a
    PROVE  Wakes(q, a) <=> Wakes(<<Head(q)>>, a) \/ Wakes(Tail(q), a)
<1>1. q = <<Head(q)>> \o Tail(q) /\ <<Head(q)>> \in Seq(S) /\ Tail(q) \in Seq(S)
    OBVIOUS
<1> DEFINE h == <<Head(q)>>
           t == Tail(q)
<1>2. q = h \o t /\ h \in Seq(S) /\ t \in Seq(S)
    BY <1>1
<1> HIDE DEF h, t
<1>3. Wakes(h \o t, a) <=> Wakes(h, a) \/ Wakes(t, a)
    BY <1>2, WakesConcat
<1> QED BY <1>2, <1>3 DEF h, t

LEMMA SetToSeqOnto ==
    ASSUME NEW S, IsFiniteSet(S)
    PROVE  /\ Cardinality(S) \in Nat /\ SetToSeq(S) \in [1..Cardinality(S) -> S]
           /\ \A i, j \in 1..Cardinality(S) : SetToSeq(S)[i] = SetToSeq(S)[j] => i = j
           /\ \A x \in S : \E i \in 1..Cardinality(S) : SetToSeq(S)[i] = x
<1> DEFINE c == Cardinality(S)
           f == SetToSeq(S)
<1>1. c \in Nat /\ ExistsBijection(1..c, S)
    BY FS_CardinalityType
<1>2. \E g \in [1..c -> S] : IsInjective(g)
    BY <1>1 DEF ExistsBijection, Bijection, Injection
<1>3. f \in [1..c -> S] /\ IsInjective(f)
    BY <1>2 DEF SetToSeq
<1> HIDE DEF f
<1>4. f \in Injection(1..c, S)
    BY <1>3 DEF Injection
<1>5. Cardinality(1..c) = c
    BY <1>1, FS_Interval
<1>6. f \in Surjection(1..c, S)
    <2> HIDE DEF c
    <2>1. Cardinality(1..c) = Cardinality(S)
        BY <1>5 DEF c
    <2> QED BY <1>4, <2>1, FS_Injection
<1>7. \A x \in S : \E i \in 1..c : f[i] = x
    BY <1>6 DEF Surjection
<1>8. \A i, j \in 1..c : f[i] = f[j] => i = j
    BY <1>3 DEF IsInjective
<1> QED BY <1>1, <1>3, <1>7, <1>8 DEF f

-----------------------------------------------------------------------------
(* Events and messages.                                                      *)

LEMMA NotificationType ==
    ASSUME NEW n, NEW e \in RouteEvent, NotificationFor(n, e) # NoMessage
    PROVE  NotificationFor(n, e) \in Message
<1>1. CASE \E a \in Address, v \in Via, d \in Rtt :
               e = ConnectionAdded(a, v, d) \/ e = ViaListSeconded(a, v, d)
    BY <1>1 DEF NotificationFor, Message, ConnectionAdded, ViaListSeconded
<1>2. CASE \E a \in Address, v \in Via :
               e = ConnectionRemoved(a, v) \/ e = ViaListUnseconded(a, v)
    BY <1>2 DEF NotificationFor, Message, ConnectionRemoved, ViaListUnseconded
<1>3. CASE e \in Changed
    <2>1. PICK a \in Address, old \in MinRtt, m \in MinRtt : e = MinRttUpdated(a, old, m) /\ m # old
        BY <1>3 DEF Changed, MinRttUpdated
    <2>2. e.kind = "MinRttUpdated" /\ e.to = a /\ e.rtt = m
        BY <2>1 DEF MinRttUpdated
    <2>3. NotificationFor(n, e) = UpdatedForwardedRtt(a, OfferedTo(n, m)) /\ OfferedTo(n, m) # None
        BY <2>2 DEF NotificationFor, update_for
    <2>4. OfferedTo(n, m) \in Rtt
        BY <2>3 DEF OfferedTo, MinRtt, RttOption
    <2> QED BY <2>3, <2>4 DEF Message
<1> QED BY <1>1, <1>2, <1>3 DEF RouteEvent

LEMMA LeastType == ASSUME NEW x \in Rtt, NEW y \in Rtt PROVE Least(x, y) \in Rtt
BY DEF Least

LEMMA IncEventsType ==
    ASSUME NEW a \in Address, NEW r \in RouteMap, NEW v \in Via, NEW d \in Rtt,
           NEW old \in MinRtt, NEW m \in MinRtt
    PROVE  /\ IncEvents(a, r, v, d, old, m).list \in RouteEvent \cup {NoEvent}
           /\ IncEvents(a, r, v, d, old, m).min \in Changed \cup {NoEvent}
           /\ Vias(r) = {} => IncEvents(a, r, v, d, old, m).list = ConnectionAdded(a, v, d)
<1>1. MinRttUpdated(a, old, m) \in Changed \cup {NoEvent}
    BY DEF Changed
<1>2. CASE Vias(r) = {}
    BY <1>2 DEF IncEvents, RouteEvent
<1>3. CASE Vias(r) # {} /\ IsSingle(r)
    <2>1. OnlyVia(r) \in Via /\ r[OnlyVia(r)] # None
        BY <1>3 DEF OnlyVia, Vias
    <2>2. Least(d, r[OnlyVia(r)]) \in Rtt
        BY <2>1, LeastType DEF RouteMap, RttOption
    <2>3. ViaListSeconded(a, OnlyVia(r), Least(d, r[OnlyVia(r)])) \in RouteEvent
        BY <2>1, <2>2 DEF RouteEvent
    <2> QED BY <1>1, <1>3, <2>3 DEF IncEvents
<1>4. CASE Vias(r) # {} /\ ~IsSingle(r)
    BY <1>1, <1>4 DEF IncEvents
<1> QED BY <1>2, <1>3, <1>4

LEMMA DecEventsType ==
    ASSUME NEW a \in Address, NEW r \in RouteMap, NEW v \in Via, NEW old \in MinRtt, NEW m \in MinRtt
    PROVE  /\ DecEvents(a, r, v, old, m).list \in RouteEvent \cup {NoEvent}
           /\ DecEvents(a, r, v, old, m).min \in Changed \cup {NoEvent}
<1> DEFINE q == [r EXCEPT ![v] = None]
<1>1. MinRttUpdated(a, old, m) \in Changed \cup {NoEvent}
    BY DEF Changed
<1>2. CASE Vias(q) = {}
    BY <1>2 DEF DecEvents, RouteEvent
<1>3. CASE Vias(q) # {} /\ IsSingle(q)
    <2>1. OnlyVia(q) \in Via
        BY <1>3 DEF OnlyVia, Vias
    <2>2. ViaListUnseconded(a, OnlyVia(q)) \in RouteEvent
        <3>1. \A w \in Via : ViaListUnseconded(a, w) \in RouteEvent
            BY DEF RouteEvent
        <3> QED BY <2>1, <3>1
    <2> QED BY <1>1, <1>3, <2>2 DEF DecEvents
<1>4. CASE Vias(q) # {} /\ ~IsSingle(q)
    BY <1>1, <1>4 DEF DecEvents
<1> QED BY <1>2, <1>3, <1>4

LEMMA SentType ==
    ASSUME NEW ev, ev.list \in RouteEvent \cup {NoEvent}, ev.min \in Changed \cup {NoEvent}
    PROVE  /\ Sent(ev) \in Seq(RootEvent)
           /\ \A a \in Address : \A v \in Via : \A d \in Rtt :
                  ev.list = ConnectionAdded(a, v, d) => Wakes(Sent(ev), a)
<1> DEFINE sent(e) == IF e = NoEvent THEN <<>> ELSE <<e>>
<1>1. sent(ev.list) \in Seq(RootEvent) /\ sent(ev.min) \in Seq(RootEvent)
    <2>1. Changed \subseteq RouteEvent /\ RouteEvent \subseteq RootEvent
        BY DEF RootEvent, RouteEvent
    <2>2. \A e \in RouteEvent \cup {NoEvent} : sent(e) \in Seq(RootEvent)
        BY <2>1
    <2> QED BY <2>1, <2>2
<1>2. Sent(ev) = sent(ev.list) \o sent(ev.min)
    BY DEF Sent
<1>3. ASSUME NEW a \in Address, NEW v \in Via, NEW d \in Rtt, ev.list = ConnectionAdded(a, v, d)
      PROVE  Wakes(sent(ev.list), a)
    <2>1. ev.list.kind = "ConnectionAdded" /\ ev.list.to = a /\ ev.list # NoEvent
        BY <1>3 DEF ConnectionAdded, NoEvent
    <2> QED BY <2>1, WakesOne
<1> HIDE DEF sent
<1>4. Sent(ev) \in Seq(RootEvent)
    BY <1>1, <1>2
<1>5. ASSUME NEW a \in Address, NEW v \in Via, NEW d \in Rtt, ev.list = ConnectionAdded(a, v, d)
      PROVE  Wakes(Sent(ev), a)
    <2>1. Wakes(sent(ev.list), a)
        BY <1>3, <1>5
    <2> QED BY <1>1, <1>2, <2>1, WakesConcat
<1> QED BY <1>4, <1>5

\* Packets for the members of to.
LEMMA PacketsType ==
    ASSUME NEW to \in SUBSET Neighbour, NEW f, \A n \in to : f[n] \in Message
    PROVE  [i \in 1..Cardinality(to) |-> OutgoingMessage(SetToSeq(to)[i], f[SetToSeq(to)[i]])]
               \in Seq(RootEvent)
<1>1. IsFiniteSet(to)
    BY FS_Subset
<1>2. Cardinality(to) \in Nat /\ SetToSeq(to) \in [1..Cardinality(to) -> to]
    BY <1>1, SetToSeqOnto
<1>3. \A n \in to : OutgoingMessage(n, f[n]) \in RootEvent
    <2>1. \A n \in Neighbour, msg \in Message : OutgoingMessage(n, msg) \in Outgoing
        BY DEF Outgoing
    <2> QED BY <2>1 DEF RootEvent
<1>4. \A i \in 1..Cardinality(to) : OutgoingMessage(SetToSeq(to)[i], f[SetToSeq(to)[i]]) \in RootEvent
    BY <1>2, <1>3
<1> QED BY <1>2, <1>4

-----------------------------------------------------------------------------
(* The steps.                                                                *)

\* The queue holds well-formed events, a direct route goes with every connection,
\* and a wake-up is on its way to whoever waits for a route that is there.
QueueOK ==
    /\ connections \subseteq Neighbour /\ ended \subseteq connections
    /\ waiting \subseteq Destination /\ fresh \subseteq Neighbour
    /\ heard \in [Address -> [Address -> RttOption]]
    /\ queue \in Seq(RootEvent)

IInv == RouteTypeOK /\ QueueOK /\ DirectIffConnected /\ NoLostWakeup

LEMMA InitIInv == Init => IInv
<1> SUFFICES ASSUME Init PROVE IInv
    OBVIOUS
<1>1. NoRoutes \in RouteMap /\ NoMin \in MinRtt /\ \A v \in Via : NoRoutes[v] = None
    BY DEF NoRoutes, RouteMap, RttOption, NoMin, MinRtt, Via
<1>2. RouteTypeOK
    BY <1>1 DEF Init, RouteInit, RouteTypeOK
<1>3. DirectIffConnected
    BY <1>1 DEF Init, RouteInit, DirectIffConnected, InverseBalanced, Via
<1>4. QueueOK
    BY DEF Init, QueueOK, RttOption
<1>5. NoLostWakeup
    BY DEF Init, NoLostWakeup
<1> QED BY <1>2, <1>3, <1>4, <1>5 DEF IInv

\* A new route puts its wake-up behind whatever stays in the queue.
LEMMA IncWakes ==
    ASSUME IInv, NEW a \in Address, NEW v \in Via, NEW d \in Rtt, NEW m \in MinRtt,
           OnlyChanges(a, v, TRUE), NEW q \in Seq(RootEvent),
           \A b \in Address : Wakes(queue, b) => Wakes(q, b)
    PROVE  LET s == Sent(IncEvents(a, via[a], v, d, min_rtt[a], m))
           IN  /\ s \in Seq(RootEvent) /\ q \o s \in Seq(RootEvent)
               /\ \A b \in waiting : has(b)' => Wakes(q \o s, b)
<1> DEFINE ev == IncEvents(a, via[a], v, d, min_rtt[a], m)
           s == Sent(ev)
<1>1. via[a] \in RouteMap /\ min_rtt[a] \in MinRtt
    BY DEF IInv, RouteTypeOK
<1>2. /\ ev.list \in RouteEvent \cup {NoEvent} /\ ev.min \in Changed \cup {NoEvent}
      /\ Vias(via[a]) = {} => ev.list = ConnectionAdded(a, v, d)
    BY <1>1, IncEventsType
<1> HIDE DEF ev
<1>3. s \in Seq(RootEvent) /\ (Vias(via[a]) = {} => Wakes(s, a))
    BY <1>2, SentType
<1> HIDE DEF s
<1>4. q \o s \in Seq(RootEvent) /\ \A b : Wakes(q \o s, b) <=> Wakes(q, b) \/ Wakes(s, b)
    BY <1>3, WakesConcat
<1>5. ASSUME NEW b \in waiting, has(b)' PROVE Wakes(q \o s, b)
    <2>1. b \in Address
        BY DEF IInv, QueueOK
    <2>2. CASE has(b)
        <3>1. Wakes(queue, b)
            BY <2>2 DEF IInv, NoLostWakeup, Wakes
        <3> QED BY <1>4, <2>1, <3>1
    <2>3. CASE ~has(b)
        <3>1. b = a /\ Vias(via[a]) = {}
            BY <1>5, <2>1, <2>3 DEF has, Vias, OnlyChanges
        <3> QED BY <1>3, <1>4, <3>1
    <2> QED BY <2>2, <2>3
<1> QED BY <1>3, <1>4, <1>5 DEF s, ev

\* No route is new: every wake-up that has to be there is there.
LEMMA KeepsWakes ==
    ASSUME IInv, \A b \in Address : has(b)' => has(b),
           \A b \in waiting' : b \in Address /\ has(b)' => b \in waiting /\ (Wakes(queue, b) => Wakes(queue', b))
    PROVE  \A b \in waiting' : b \in Address /\ has(b)' => Wakes(queue', b)
BY DEF IInv, NoLostWakeup, Wakes

LEMMA WakesIsNoLost ==
    ASSUME waiting' \subseteq Address, \A b \in waiting' : b \in Address /\ has(b)' => Wakes(queue', b)
    PROVE  NoLostWakeup'
BY DEF NoLostWakeup, Wakes

LEMMA AddDirectKeeps ==
    ASSUME IInv, NEW n \in Neighbour, NEW d \in Rtt, add_direct(n, d)
    PROVE  IInv'
<1> DEFINE listed(a) == LET rtt == OfferedTo(n, min_rtt'[a])
                        IN  IF rtt = None THEN NoMessage ELSE AddForwarded(a, rtt)
           known == SetToSeq({a \in Address : listed(a) # NoMessage})
           t == [i \in DOMAIN known |-> OutgoingMessage(n, listed(known[i]))]
<1>1. PICK m \in MinRtt :
          /\ IncRoute(n, Direct, d, m)
          /\ queue' = queue \o Sent(IncEvents(n, via[n], Direct, d, min_rtt[n], m)) \o t
    BY DEF add_direct
<1>2. /\ connections' = connections \cup {n} /\ ended' = ended \ {n} /\ waiting' = waiting
      /\ heard' = [heard EXCEPT ![n] = [a \in Address |-> None]]
      /\ fresh' \subseteq fresh \cup {n}
    BY DEF add_direct
<1>3. RouteTypeOK' /\ InverseBalanced' /\ OnlyChanges(n, Direct, TRUE)
    BY <1>1, IncTable DEF IInv, DirectIffConnected, Via
<1>4. t \in Seq(RootEvent)
    <2> DEFINE S == {a \in Address : listed(a) # NoMessage}
    <2>1. IsFiniteSet(S)
        BY FS_Subset
    <2>2. Cardinality(S) \in Nat /\ known \in [1..Cardinality(S) -> S]
        <3> HIDE DEF S
        <3>1. Cardinality(S) \in Nat /\ SetToSeq(S) \in [1..Cardinality(S) -> S]
            BY <2>1, SetToSeqOnto
        <3> QED BY <3>1 DEF S
    <2>3. \A a \in S : OutgoingMessage(n, listed(a)) \in RootEvent
        <3> SUFFICES ASSUME NEW a \in S PROVE OutgoingMessage(n, listed(a)) \in RootEvent
            OBVIOUS
        <3>1. min_rtt'[a] \in MinRtt
            BY <1>3 DEF RouteTypeOK
        <3>2. OfferedTo(n, min_rtt'[a]) \in Rtt /\ listed(a) = AddForwarded(a, OfferedTo(n, min_rtt'[a]))
            BY <3>1 DEF OfferedTo, MinRtt, RttOption
        <3>3. listed(a) \in Message
            BY <3>2 DEF Message
        <3> HIDE DEF listed
        <3>4. OutgoingMessage(n, listed(a)) \in Outgoing
            BY <3>3 DEF Outgoing
        <3> QED BY <3>4 DEF RootEvent
    <2> HIDE DEF known, S
    <2>4. \A i \in DOMAIN known : known[i] \in S
        BY <2>2
    <2>5. DOMAIN known = 1..Cardinality(S)
        BY <2>2
    <2> HIDE DEF listed
    <2> QED BY <2>2, <2>3, <2>4, <2>5
<1> HIDE DEF t
<1>5. LET s == Sent(IncEvents(n, via[n], Direct, d, min_rtt[n], m))
      IN  /\ s \in Seq(RootEvent) /\ queue \o s \in Seq(RootEvent)
          /\ \A b \in waiting : has(b)' => Wakes(queue \o s, b)
    BY <1>3, IncWakes DEF IInv, QueueOK, Via
<1>6. queue' \in Seq(RootEvent) /\ \A b \in waiting : has(b)' => Wakes(queue', b)
    <2> DEFINE p == queue \o Sent(IncEvents(n, via[n], Direct, d, min_rtt[n], m))
    <2>1. /\ p \in Seq(RootEvent) /\ queue' = p \o t
          /\ \A b \in waiting : has(b)' => Wakes(p, b)
        BY <1>1, <1>5
    <2> HIDE DEF p
    <2>2. \A b : Wakes(p \o t, b) <=> Wakes(p, b) \/ Wakes(t, b)
        BY <1>4, <2>1, WakesConcat
    <2> QED BY <1>4, <2>1, <2>2
<1>7. QueueOK'
    BY <1>2, <1>6 DEF QueueOK, IInv, RttOption
<1>8. DirectIffConnected'
    BY <1>2, <1>3 DEF DirectIffConnected, OnlyChanges, IInv, Via
<1>9. NoLostWakeup'
    BY <1>2, <1>6, <1>7, WakesIsNoLost DEF QueueOK
<1> QED BY <1>3, <1>7, <1>8, <1>9 DEF IInv

\* The caller of remove_direct and the end of a port, with q left in the queue.
LEMMA RemoveDirectKeeps ==
    ASSUME IInv, NEW n \in Neighbour, NEW q \in Seq(RootEvent), RemoveDirect(n, q),
           \A b \in Address : Wakes(queue, b) => Wakes(q, b)
    PROVE  IInv'
<1>1. PICK m \in MinRtt :
          /\ DecRoute(n, Direct, m)
          /\ queue' = q \o Sent(DecEvents(n, via[n], Direct, min_rtt[n], m))
    BY DEF RemoveDirect
<1>2. /\ connections' = connections \ {n} /\ ended' = ended \ {n}
      /\ UNCHANGED <<waiting, heard, fresh>>
    BY DEF RemoveDirect
<1>3. RouteTypeOK' /\ InverseBalanced' /\ OnlyChanges(n, Direct, FALSE)
    BY <1>1, DecTable DEF IInv, DirectIffConnected, Via
<1> DEFINE ev == DecEvents(n, via[n], Direct, min_rtt[n], m)
<1>4. ev.list \in RouteEvent \cup {NoEvent} /\ ev.min \in Changed \cup {NoEvent}
    <2>1. via[n] \in RouteMap /\ min_rtt[n] \in MinRtt /\ n \in Address /\ Direct \in Via
        BY DEF IInv, RouteTypeOK, Via
    <2> QED BY <2>1, DecEventsType
<1> HIDE DEF ev
<1>5. Sent(ev) \in Seq(RootEvent)
    BY <1>4, SentType
<1>6. queue' \in Seq(RootEvent) /\ \A b \in Address : Wakes(queue, b) => Wakes(queue', b)
    BY <1>1, <1>5, WakesConcat DEF ev
<1>7. QueueOK'
    BY <1>2, <1>6 DEF QueueOK, IInv
<1>8. DirectIffConnected'
    BY <1>2, <1>3 DEF DirectIffConnected, OnlyChanges, IInv, Via
<1>9. NoLostWakeup'
    <2>1. \A b \in Address : has(b)' => has(b)
        BY <1>3 DEF has, Vias, OnlyChanges
    <2> QED BY <1>2, <1>6, <1>7, <2>1, KeepsWakes, WakesIsNoLost DEF QueueOK
<1> QED BY <1>3, <1>7, <1>8, <1>9 DEF IInv

\* Nothing but the queue and the waiters changes, and the queue grows by an event
\* of a reader.
LEMMA ReaderKeeps ==
    ASSUME IInv, NEW e \in RootEvent, queue' = Append(queue, e),
           UNCHANGED <<routeVars, connections, waiting, heard, fresh>>, ended' \subseteq connections
    PROVE  IInv'
<1>1. queue \in Seq(RootEvent) /\ <<e>> \in Seq(RootEvent) /\ queue' = queue \o <<e>>
    BY DEF IInv, QueueOK
<1>2. queue' \in Seq(RootEvent) /\ \A b : Wakes(queue, b) => Wakes(queue', b)
    <2> DEFINE t == <<e>>
    <2>1. t \in Seq(RootEvent) /\ queue' = queue \o t
        BY <1>1
    <2> HIDE DEF t
    <2>2. \A b : Wakes(queue \o t, b) <=> Wakes(queue, b) \/ Wakes(t, b)
        BY <1>1, <2>1, WakesConcat
    <2> QED BY <1>1, <2>1, <2>2
<1>3. QueueOK'
    BY <1>2 DEF IInv, QueueOK
<1>4. RouteTypeOK' /\ DirectIffConnected' /\ \A b \in Address : has(b)' => has(b)
    BY DEF IInv, RouteTypeOK, DirectIffConnected, InverseBalanced, has, Vias, routeVars
<1>5. NoLostWakeup'
    BY <1>2, <1>3, <1>4, KeepsWakes, WakesIsNoLost DEF QueueOK
<1> QED BY <1>3, <1>4, <1>5 DEF IInv

LEMMA WaitKeeps ==
    ASSUME IInv, NEW a \in Destination, wait_for_connection_to(a)
    PROVE  IInv'
<1>1. /\ waiting' = waiting \cup {a} /\ ~has(a)
      /\ UNCHANGED <<routeVars, connections, ended, queue, heard, fresh>>
    BY DEF wait_for_connection_to
<1>2. QueueOK'
    BY <1>1 DEF IInv, QueueOK
<1>3. RouteTypeOK' /\ DirectIffConnected' /\ \A b \in Address : has(b)' <=> has(b)
    BY <1>1 DEF IInv, RouteTypeOK, DirectIffConnected, InverseBalanced, has, Vias, routeVars
<1>4. NoLostWakeup'
    BY <1>1, <1>2, <1>3, KeepsWakes, WakesIsNoLost DEF QueueOK
<1> QED BY <1>2, <1>3, <1>4 DEF IInv

\* The worker takes an event that is no wake-up for a waiter.
LEMMA WorkerKeeps ==
    ASSUME IInv, NEW t \in Seq(RootEvent), queue # <<>>, queue' = Tail(queue) \o t,
           UNCHANGED <<routeVars, connections, ended, fresh>>,
           heard' \in [Address -> [Address -> RttOption]],
           waiting' \subseteq waiting, \A b \in waiting' : ~Wakes(<<Head(queue)>>, b)
    PROVE  IInv'
<1>1. queue \in Seq(RootEvent) /\ Tail(queue) \in Seq(RootEvent)
    BY DEF IInv, QueueOK
<1>2. queue' \in Seq(RootEvent) /\ \A b \in waiting' : Wakes(queue, b) => Wakes(queue', b)
    <2>1. \A b : Wakes(queue, b) <=> Wakes(<<Head(queue)>>, b) \/ Wakes(Tail(queue), b)
        BY <1>1, WakesHeadTail
    <2>2. \A b : Wakes(Tail(queue) \o t, b) <=> Wakes(Tail(queue), b) \/ Wakes(t, b)
        BY <1>1, WakesConcat
    <2>3. queue' \in Seq(RootEvent)
        BY <1>1
    <2> QED BY <2>1, <2>2, <2>3
<1>3. QueueOK'
    BY <1>2 DEF IInv, QueueOK
<1>4. RouteTypeOK' /\ DirectIffConnected' /\ \A b \in Address : has(b)' => has(b)
    BY DEF IInv, RouteTypeOK, DirectIffConnected, InverseBalanced, has, Vias, routeVars
<1>5. NoLostWakeup'
    BY <1>2, <1>3, <1>4, KeepsWakes, WakesIsNoLost DEF QueueOK
<1> QED BY <1>3, <1>4, <1>5 DEF IInv

LEMMA KindOf ==
    ASSUME NEW e \in RootEvent
    PROVE  /\ e.kind = "ConnectionMessage" => \E n \in Neighbour, msg \in Message : e = ConnectionMessage(n, msg)
           /\ e.kind = "OutgoingMessage" => \E n \in Neighbour, msg \in Message : e = OutgoingMessage(n, msg)
           /\ e.kind = "ConnectionEnding" => \E n \in Neighbour : e = ConnectionEnding(n)
           /\ e.kind \in {"ConnectionAdded", "ConnectionRemoved", "ViaListSeconded",
                          "ViaListUnseconded", "MinRttUpdated"} => e \in RouteEvent
<1>1. CASE e \in Outgoing
    BY <1>1 DEF Outgoing, OutgoingMessage
<1>2. CASE e \in Incoming
    BY <1>2 DEF Incoming, ConnectionMessage
<1>3. CASE e \in Ending
    BY <1>3 DEF Ending, ConnectionEnding
<1>4. CASE e \in RouteEvent
    <2>1. e.kind \in {"ConnectionAdded", "ConnectionRemoved", "ViaListSeconded",
                      "ViaListUnseconded", "MinRttUpdated"}
        <3>1. CASE e \in Changed
            BY <3>1 DEF Changed, MinRttUpdated
        <3>2. CASE e \notin Changed
            BY <1>4, <3>2 DEF RouteEvent, ConnectionAdded, ConnectionRemoved, ViaListSeconded,
                              ViaListUnseconded
        <3> QED BY <3>1, <3>2
    <2> QED BY <1>4, <2>1
<1> QED BY <1>1, <1>2, <1>3, <1>4 DEF RootEvent

LEMMA ConnectionMessageKeeps ==
    ASSUME IInv, OnConnectionMessage
    PROVE  IInv'
<1>1. queue # <<>> /\ Head(queue).kind = "ConnectionMessage" /\ queue \in Seq(RootEvent)
    BY DEF OnConnectionMessage, Received, IInv, QueueOK
<1>2. Head(queue) \in RootEvent /\ Tail(queue) \in Seq(RootEvent)
    BY <1>1
<1>3. PICK n \in Neighbour, msg \in Message : Head(queue) = ConnectionMessage(n, msg)
    BY <1>1, <1>2, KindOf
<1>4. Head(queue).from = n /\ Head(queue).message = msg
    BY <1>3 DEF ConnectionMessage
<1>5. \A b : ~Wakes(<<Head(queue)>>, b)
    BY <1>1, WakesOne
<1>6. UNCHANGED <<connections, ended, waiting, heard, fresh>>
    BY DEF OnConnectionMessage
<1>7. CASE n \in connections /\ msg.kind = "AddForwarded" /\ via[msg.to][n] = None
    <2>1. PICK m \in MinRtt :
              /\ IncRoute(msg.to, n, msg.rtt, m)
              /\ queue' = Tail(queue) \o
                   Sent(IncEvents(msg.to, via[msg.to], n, msg.rtt, min_rtt[msg.to], m))
        BY <1>4, <1>7 DEF OnConnectionMessage
    <2>2. msg.to \in Address /\ msg.rtt \in Rtt
        BY <1>7 DEF Message, AddForwarded, UpdatedForwardedRtt, RemoveForwarded
    <2>3. RouteTypeOK' /\ InverseBalanced' /\ OnlyChanges(msg.to, n, TRUE)
        BY <2>1, <2>2, IncTable DEF IInv, DirectIffConnected, Via
    <2>4. \A b \in Address : Wakes(queue, b) => Wakes(Tail(queue), b)
        BY <1>1, <1>5, WakesHeadTail
    <2>5. LET s == Sent(IncEvents(msg.to, via[msg.to], n, msg.rtt, min_rtt[msg.to], m))
          IN  /\ s \in Seq(RootEvent) /\ Tail(queue) \o s \in Seq(RootEvent)
              /\ \A b \in waiting : has(b)' => Wakes(Tail(queue) \o s, b)
        BY <1>2, <2>2, <2>3, <2>4, IncWakes DEF Via
    <2>6. queue' \in Seq(RootEvent) /\ \A b \in waiting : has(b)' => Wakes(queue', b)
        BY <2>1, <2>5
    <2>7. QueueOK'
        BY <1>6, <2>6 DEF QueueOK, IInv
    <2>8. DirectIffConnected'
        BY <1>6, <2>3 DEF DirectIffConnected, OnlyChanges, IInv, Via
    <2>9. NoLostWakeup'
        BY <1>6, <2>6, <2>7, WakesIsNoLost DEF QueueOK
    <2> QED BY <2>3, <2>7, <2>8, <2>9 DEF IInv
<1>8. CASE ~(n \in connections /\ msg.kind = "AddForwarded" /\ via[msg.to][n] = None)
    <2>1. queue' = Tail(queue) /\ UNCHANGED routeVars
        BY <1>4, <1>8 DEF OnConnectionMessage
    <2>2. queue' = Tail(queue) \o <<>> /\ <<>> \in Seq(RootEvent)
        BY <1>2, <2>1
    <2>3. heard' \in [Address -> [Address -> RttOption]]
        BY <1>6 DEF IInv, QueueOK
    <2> QED BY <1>1, <1>5, <1>6, <2>1, <2>2, <2>3, WorkerKeeps
<1> QED BY <1>7, <1>8

LEMMA ConnectionEndingKeeps ==
    ASSUME IInv, OnConnectionEnding
    PROVE  IInv'
<1>1. queue # <<>> /\ Head(queue).kind = "ConnectionEnding" /\ queue \in Seq(RootEvent)
    BY DEF OnConnectionEnding, Received, IInv, QueueOK
<1>2. Tail(queue) \in Seq(RootEvent)
    BY <1>1
<1>3. \A b : ~Wakes(<<Head(queue)>>, b)
    BY <1>1, WakesOne
<1>4. CASE Head(queue).from \in connections
    <2>1. RemoveDirect(Head(queue).from, Tail(queue)) /\ Head(queue).from \in Neighbour
        BY <1>4 DEF OnConnectionEnding, IInv, QueueOK
    <2>2. \A b \in Address : Wakes(queue, b) => Wakes(Tail(queue), b)
        BY <1>1, <1>3, WakesHeadTail
    <2> QED BY <1>2, <2>1, <2>2, RemoveDirectKeeps
<1>5. CASE Head(queue).from \notin connections
    <2>1. queue' = Tail(queue) /\ UNCHANGED <<routeVars, connections, ended, waiting, heard, fresh>>
        BY <1>5 DEF OnConnectionEnding
    <2>2. queue' = Tail(queue) \o <<>> /\ <<>> \in Seq(RootEvent)
        BY <1>2, <2>1
    <2>3. heard' \in [Address -> [Address -> RttOption]]
        BY <2>1 DEF IInv, QueueOK
    <2> QED BY <1>1, <1>3, <2>1, <2>2, <2>3, WorkerKeeps
<1> QED BY <1>4, <1>5

LEMMA OutgoingMessageKeeps ==
    ASSUME IInv, OnOutgoingMessage
    PROVE  IInv'
<1>1. queue # <<>> /\ Head(queue).kind = "OutgoingMessage" /\ queue \in Seq(RootEvent)
    BY DEF OnOutgoingMessage, Received, IInv, QueueOK
<1>2. Head(queue) \in RootEvent /\ Tail(queue) \in Seq(RootEvent)
    BY <1>1
<1>3. PICK n \in Neighbour, msg \in Message : Head(queue) = OutgoingMessage(n, msg)
    BY <1>1, <1>2, KindOf
<1>4. Head(queue).to = n /\ Head(queue).message = msg
    BY <1>3 DEF OutgoingMessage
<1>5. \A b : ~Wakes(<<Head(queue)>>, b)
    BY <1>1, WakesOne
<1>6. queue' = Tail(queue) /\ UNCHANGED <<routeVars, connections, ended, waiting, fresh>>
    BY DEF OnOutgoingMessage
<1>7. heard' \in [Address -> [Address -> RttOption]]
    <2>1. heard \in [Address -> [Address -> RttOption]]
        BY DEF IInv, QueueOK
    <2>2. heard' = heard \/ heard' = [heard EXCEPT ![n][msg.to] = Hear(@, msg)]
        BY <1>4 DEF OnOutgoingMessage
    <2>3. \A h \in RttOption : Hear(h, msg) \in RttOption
        BY DEF Hear, Message, AddForwarded, UpdatedForwardedRtt, RemoveForwarded, RttOption
    <2>4. msg.to \in Address /\ n \in Address
        BY DEF Message, AddForwarded, UpdatedForwardedRtt, RemoveForwarded
    <2> QED BY <2>1, <2>2, <2>3, <2>4
<1>8. queue' = Tail(queue) \o <<>> /\ <<>> \in Seq(RootEvent)
    BY <1>2, <1>6
<1> QED BY <1>1, <1>5, <1>6, <1>7, <1>8, WorkerKeeps

LEMMA RouteEventKeeps ==
    ASSUME IInv, OnRouteEvent
    PROVE  IInv'
<1> DEFINE e == Head(queue)
           told(n) == NotificationFor(n, e)
           to == {n \in connections : told(n) # NoMessage}
           f == [n \in to |-> told(n)]
           t == [i \in 1..Cardinality(to) |-> OutgoingMessage(SetToSeq(to)[i], told(SetToSeq(to)[i]))]
           p == [i \in 1..Cardinality(to) |-> OutgoingMessage(SetToSeq(to)[i], f[SetToSeq(to)[i]])]
<1>1. /\ queue # <<>> /\ queue \in Seq(RootEvent)
      /\ e.kind \in {"ConnectionAdded", "ConnectionRemoved", "ViaListSeconded",
                     "ViaListUnseconded", "MinRttUpdated"}
    BY DEF OnRouteEvent, IInv, QueueOK
<1>2. e \in RouteEvent
    BY <1>1, KindOf
<1>3. queue' = Tail(queue) \o t
    BY DEF OnRouteEvent, Notified
<1>4. /\ UNCHANGED <<routeVars, connections, ended, heard, fresh>>
      /\ waiting' = IF e.kind = "ConnectionAdded" THEN waiting \ {e.to} ELSE waiting
    BY DEF OnRouteEvent
<1>5. to \in SUBSET Neighbour /\ \A n \in to : f[n] \in Message
    BY <1>2, NotificationType DEF IInv, QueueOK
<1>6. t = p
    <2>1. IsFiniteSet(to)
        BY <1>5, FS_Subset
    <2>2. SetToSeq(to) \in [1..Cardinality(to) -> to]
        <3> HIDE DEF to
        <3> QED BY <2>1, SetToSeqOnto
    <2>3. \A i \in 1..Cardinality(to) : f[SetToSeq(to)[i]] = told(SetToSeq(to)[i])
        BY <2>2
    <2> HIDE DEF f, to, told
    <2> QED BY <2>3
<1>7. t \in Seq(RootEvent)
    <2> HIDE DEF f, to, told
    <2>1. p \in Seq(RootEvent)
        BY <1>5, PacketsType
    <2> QED BY <1>6, <2>1
<1>8. \A b \in waiting' : ~Wakes(<<e>>, b)
    BY <1>4, WakesOne
<1>9. waiting' \subseteq waiting /\ heard' \in [Address -> [Address -> RttOption]]
    BY <1>4 DEF IInv, QueueOK
<1> HIDE DEF t
<1> QED BY <1>1, <1>3, <1>4, <1>7, <1>8, <1>9, WorkerKeeps

LEMMA NextIInv == IInv /\ [Next]_vars => IInv'
<1> SUFFICES ASSUME IInv, [Next]_vars PROVE IInv'
    OBVIOUS
<1>1. ASSUME NEW n \in Neighbour, NEW d \in Rtt, add_direct(n, d) PROVE IInv'
    BY <1>1, AddDirectKeeps
<1>2. ASSUME NEW n \in Neighbour, remove_direct(n) PROVE IInv'
    <2>1. RemoveDirect(n, queue) /\ queue \in Seq(RootEvent)
        BY <1>2 DEF remove_direct, IInv, QueueOK
    <2> QED BY <2>1, RemoveDirectKeeps
<1>3. ASSUME NEW n \in Neighbour, NEW msg \in Message, PortMessage(n, msg) PROVE IInv'
    <2>1. ConnectionMessage(n, msg) \in Incoming
        BY DEF Incoming
    <2>2. ConnectionMessage(n, msg) \in RootEvent
        BY <2>1 DEF RootEvent
    <2>3. /\ queue' = Append(queue, ConnectionMessage(n, msg)) /\ ended' \subseteq connections
          /\ UNCHANGED <<routeVars, connections, waiting, heard, fresh>>
        BY <1>3 DEF PortMessage, IInv, QueueOK
    <2> QED BY <2>2, <2>3, ReaderKeeps
<1>4. ASSUME NEW n \in Neighbour, PortEnds(n) PROVE IInv'
    <2>1. ConnectionEnding(n) \in Ending
        BY DEF Ending
    <2>2. ConnectionEnding(n) \in RootEvent
        BY <2>1 DEF RootEvent
    <2>3. /\ queue' = Append(queue, ConnectionEnding(n)) /\ ended' \subseteq connections
          /\ UNCHANGED <<routeVars, connections, waiting, heard, fresh>>
        BY <1>4 DEF PortEnds, IInv, QueueOK
    <2> QED BY <2>2, <2>3, ReaderKeeps
<1>5. ASSUME NEW a \in Destination, wait_for_connection_to(a) PROVE IInv'
    BY <1>5, WaitKeeps
<1>6. CASE Worker
    BY <1>6, ConnectionMessageKeeps, ConnectionEndingKeeps, OutgoingMessageKeeps, RouteEventKeeps
       DEF Worker
<1>7. CASE UNCHANGED vars
    BY <1>7 DEF vars, routeVars, nodeVars, IInv, QueueOK, RouteTypeOK, DirectIffConnected,
                InverseBalanced, NoLostWakeup, has
<1>8. \A a \in Destination, d \in Rtt : AddForwarded(a, d) \in Message
    BY DEF Message
<1>9. \A a \in Destination : RemoveForwarded(a) \in Message
    BY DEF Message
<1> QED BY <1>1, <1>2, <1>3, <1>4, <1>5, <1>6, <1>7, <1>8, <1>9 DEF Next

-----------------------------------------------------------------------------
(* What a neighbour will have heard when the queue is drained.               *)

\* What does not change from one place to the next does not change at all.
LEMMA Constant ==
    ASSUME NEW r, NEW i \in Nat, NEW j \in Nat, i <= j, \A l \in (i + 1)..j : r[l] = r[l - 1]
    PROVE  r[j] = r[i]
<1> SUFFICES ASSUME r[j] # r[i] PROVE FALSE
    OBVIOUS
<1> DEFINE S == {l \in i..j : r[l] # r[i]}
<1>1. S \in SUBSET Nat /\ j \in S
    OBVIOUS
<1>2. PICK l \in S : \A k \in S : l <= k
    BY <1>1, Smallest
<1>3. l \in (i + 1)..j /\ r[l] # r[i] /\ l - 1 \in i..j
    OBVIOUS
<1>4. r[l - 1] # r[i]
    BY <1>3
<1>5. l - 1 \in S /\ ~(l <= l - 1)
    BY <1>3, <1>4
<1> QED BY <1>2, <1>5

RouteKind == {"ConnectionAdded", "ConnectionRemoved", "ViaListSeconded", "ViaListUnseconded",
              "MinRttUpdated"}

\* What e makes of n's belief h about a: as a packet that goes out, or as an event
\* whose notification has still to be made.
After(as, n, a, h, e) ==
    IF as = "packet"
    THEN IF e.kind = "OutgoingMessage" /\ e.to = n /\ e.message.to = a THEN Hear(h, e.message) ELSE h
    ELSE IF e.kind \in RouteKind /\ e.to = a THEN Hear(h, NotificationFor(n, e)) ELSE h

\* r is the belief about a after every element of q behind place k.
Along(as, n, a, r, q, k) ==
    \A i \in (k + 1)..Len(q) : r[i] = After(as, n, a, r[i - 1], q[i])

Quiet(as, n, a, e) == \A h : After(as, n, a, h, e) = h
AllQuiet(as, n, a, q) == \A i \in 1..Len(q) : Quiet(as, n, a, q[i])

\* First the packets of q go out, then those that the events of q still have to
\* make, whatever their order in q: in the end n believes o of a.
Told(q, n, a, h, o) ==
    \A p, r : /\ p[0] = h /\ Along("packet", n, a, p, q, 0)
              /\ r[0] = p[Len(q)] /\ Along("event", n, a, r, q, 0)
              => r[Len(q)] = o

\* From any place on, the events of q leave a neighbour that has the offer o with
\* it; without an offer they invent none, and with one they take none away.
Healed(q, n, a, o) ==
    \A k \in 0..Len(q) : \A r : Along("event", n, a, r, q, k) =>
        /\ r[k] = o => r[Len(q)] = o
        /\ o = None => r[Len(q)] = r[k] \/ r[Len(q)] = None
        /\ o # None /\ r[k] # None => r[Len(q)] # None

LEMMA ConcatFacts ==
    ASSUME NEW q \in Seq(RootEvent), NEW t \in Seq(RootEvent)
    PROVE  /\ Len(q) \in Nat /\ Len(t) \in Nat /\ Len(q \o t) = Len(q) + Len(t)
           /\ \A i \in 1..Len(q) : (q \o t)[i] = q[i]
           /\ \A i \in 1..Len(t) : (q \o t)[Len(q) + i] = t[i]
OBVIOUS

LEMMA TailFacts ==
    ASSUME NEW q \in Seq(RootEvent), q # <<>>
    PROVE  /\ Len(q) \in Nat /\ Len(q) >= 1 /\ Len(Tail(q)) = Len(q) - 1 /\ q[1] = Head(q)
           /\ Tail(q) \in Seq(RootEvent) /\ Head(q) \in RootEvent
           /\ \A i \in 2..Len(q) : Tail(q)[i - 1] = q[i]
OBVIOUS

\* The way along q \o t goes along q and then along t.
LEMMA AlongConcat ==
    ASSUME NEW q \in Seq(RootEvent), NEW t \in Seq(RootEvent), NEW as, NEW n, NEW a, NEW r,
           NEW k \in 0..Len(q), Along(as, n, a, r, q \o t, k)
    PROVE  /\ Along(as, n, a, r, q, k)
           /\ Along(as, n, a, [i \in 0..Len(t) |-> r[Len(q) + i]], t, 0)
<1>1. Along(as, n, a, r, q, k)
    <2>1. ASSUME NEW i \in (k + 1)..Len(q) PROVE r[i] = After(as, n, a, r[i - 1], q[i])
        <3>1. i \in (k + 1)..Len(q \o t) /\ i \in 1..Len(q)
            BY ConcatFacts
        <3> QED BY <3>1, ConcatFacts DEF Along
    <2> QED BY <2>1 DEF Along
<1> DEFINE w == [i \in 0..Len(t) |-> r[Len(q) + i]]
<1>2. ASSUME NEW i \in 1..Len(t) PROVE w[i] = After(as, n, a, w[i - 1], t[i])
    <2>1. /\ Len(q) + i \in (k + 1)..Len(q \o t) /\ i \in 0..Len(t) /\ i - 1 \in 0..Len(t)
          /\ (Len(q) + i) - 1 = Len(q) + (i - 1)
        BY ConcatFacts
    <2>2. w[i] = r[Len(q) + i] /\ w[i - 1] = r[(Len(q) + i) - 1]
        BY <2>1
    <2>3. r[Len(q) + i] = After(as, n, a, r[(Len(q) + i) - 1], (q \o t)[Len(q) + i])
        BY <2>1 DEF Along
    <2> HIDE DEF w
    <2> QED BY <2>2, <2>3, ConcatFacts
<1> HIDE DEF w
<1>3. Along(as, n, a, w, t, 0)
    <2>1. 0 + 1 = 1
        OBVIOUS
    <2> QED BY <1>2, <2>1 DEF Along
<1> QED BY <1>1, <1>3 DEF w

\* Quiet elements change nothing.
LEMMA AlongQuiet ==
    ASSUME NEW q \in Seq(RootEvent), NEW t \in Seq(RootEvent), NEW as, NEW n, NEW a, NEW r,
           AllQuiet(as, n, a, t),
           NEW k \in 0..Len(q \o t), Along(as, n, a, r, q \o t, k)
    PROVE  r[Len(q \o t)] = r[IF k <= Len(q) THEN Len(q) ELSE k]
<1> DEFINE j == IF k <= Len(q) THEN Len(q) ELSE k
<1>1. j \in Nat /\ Len(q \o t) \in Nat /\ j <= Len(q \o t) /\ k <= j /\ Len(q) <= j
    BY ConcatFacts
<1> HIDE DEF j
<1>2. ASSUME NEW l \in (j + 1)..Len(q \o t) PROVE r[l] = r[l - 1]
    <2>1. l \in (k + 1)..Len(q \o t) /\ l - Len(q) \in 1..Len(t) /\ Len(q) + (l - Len(q)) = l
        BY <1>1, ConcatFacts
    <2>2. (q \o t)[l] = t[l - Len(q)]
        BY <2>1, ConcatFacts
    <2>3. r[l] = After(as, n, a, r[l - 1], t[l - Len(q)])
        BY <2>1, <2>2 DEF Along
    <2> QED BY <2>1, <2>3 DEF AllQuiet, Quiet
<1>3. r[Len(q \o t)] = r[j]
    BY <1>1, <1>2, Constant
<1> QED BY <1>3 DEF j

\* A way along the tail of q, and a first step, make a way along q.
LEMMA AlongTail ==
    ASSUME NEW q \in Seq(RootEvent), q # <<>>, NEW as, NEW n, NEW a, NEW r,
           NEW k \in 0..Len(Tail(q)), Along(as, n, a, r, Tail(q), k), NEW h
    PROVE  LET w == [i \in 0..Len(q) |-> IF i = 0 THEN h ELSE r[i - 1]]
           IN  /\ Along(as, n, a, w, q, k + 1) /\ w[0] = h /\ w[k + 1] = r[k]
               /\ w[Len(q)] = r[Len(Tail(q))]
               /\ k = 0 /\ r[0] = After(as, n, a, h, Head(q)) => Along(as, n, a, w, q, 0)
<1> DEFINE w == [i \in 0..Len(q) |-> IF i = 0 THEN h ELSE r[i - 1]]
<1>1. /\ Len(q) \in Nat /\ Len(q) >= 1 /\ Len(Tail(q)) = Len(q) - 1 /\ q[1] = Head(q)
      /\ \A i \in 2..Len(q) : Tail(q)[i - 1] = q[i]
    BY TailFacts
<1>2. w[0] = h /\ \A i \in 1..Len(q) : w[i] = r[i - 1]
    BY <1>1
<1> HIDE DEF w
<1>3. ASSUME NEW i \in ((k + 1) + 1)..Len(q) PROVE w[i] = After(as, n, a, w[i - 1], q[i])
    <2>1. i \in 2..Len(q) /\ i - 1 \in (k + 1)..Len(Tail(q)) /\ i - 1 \in 1..Len(q) /\ i \in 1..Len(q)
        BY <1>1
    <2>2. r[i - 1] = After(as, n, a, r[(i - 1) - 1], Tail(q)[i - 1])
        BY <2>1 DEF Along
    <2> QED BY <1>1, <1>2, <2>1, <2>2
<1>4. Along(as, n, a, w, q, k + 1)
    BY <1>3 DEF Along
<1>5. w[k + 1] = r[k] /\ w[Len(q)] = r[Len(Tail(q))]
    <2>1. k + 1 \in 1..Len(q) /\ (k + 1) - 1 = k /\ Len(q) \in 1..Len(q)
        BY <1>1
    <2> QED BY <1>1, <1>2, <2>1
<1>6. ASSUME k = 0, r[0] = After(as, n, a, h, Head(q)) PROVE Along(as, n, a, w, q, 0)
    <2>1. ASSUME NEW i \in 1..Len(q) PROVE w[i] = After(as, n, a, w[i - 1], q[i])
        <3>1. CASE i = 1
            <4>1. 1 \in 1..Len(q) /\ 1 - 1 = 0
                BY <1>1
            <4>2. w[1] = r[0] /\ w[1 - 1] = h
                BY <1>2, <4>1
            <4> QED BY <1>1, <1>6, <3>1, <4>2
        <3>2. CASE i # 1
            <4>1. i \in ((k + 1) + 1)..Len(q)
                BY <1>1, <1>6, <3>2
            <4> QED BY <1>3, <4>1
        <3> QED BY <3>1, <3>2
    <2>2. 0 + 1 = 1
        OBVIOUS
    <2> QED BY <2>1, <2>2 DEF Along
<1> QED BY <1>2, <1>4, <1>5, <1>6 DEF w

\* Of the packets of t one at most is for n and about a.
LEMMA AlongOnce ==
    ASSUME NEW t \in Seq(RootEvent), NEW as, NEW n, NEW a, NEW r, Along(as, n, a, r, t, 0),
           NEW i \in 1..Len(t), \A j \in 1..Len(t) : j # i => Quiet(as, n, a, t[j])
    PROVE  r[Len(t)] = After(as, n, a, r[0], t[i])
<1>1. Len(t) \in Nat /\ i \in Nat /\ i - 1 \in Nat /\ 0 <= i - 1 /\ i <= Len(t) /\ (i - 1) + 1 = i
    OBVIOUS
<1>2. \A l \in 1..Len(t) : r[l] = After(as, n, a, r[l - 1], t[l])
    <2>1. 0 + 1 = 1
        OBVIOUS
    <2> QED BY <2>1 DEF Along
<1>3. \A l \in 1..Len(t) : l # i => r[l] = r[l - 1]
    BY <1>2 DEF Quiet
<1>4. r[i - 1] = r[0]
    <2>1. \A l \in (0 + 1)..(i - 1) : l \in 1..Len(t) /\ l # i
        BY <1>1
    <2>2. \A l \in (0 + 1)..(i - 1) : r[l] = r[l - 1]
        BY <1>3, <2>1
    <2> QED BY <1>1, <2>2, Constant
<1>5. r[Len(t)] = r[i]
    <2>1. \A l \in (i + 1)..Len(t) : l \in 1..Len(t) /\ l # i
        BY <1>1
    <2>2. \A l \in (i + 1)..Len(t) : r[l] = r[l - 1]
        BY <1>3, <2>1
    <2> QED BY <1>1, <2>2, Constant
<1> QED BY <1>2, <1>4, <1>5

LEMMA RouteEventKind ==
    ASSUME NEW e \in RouteEvent
    PROVE  e.kind \in RouteKind
<1>1. CASE e \in Changed
    BY <1>1 DEF Changed, MinRttUpdated, RouteKind
<1>2. CASE e \notin Changed
    BY <1>2 DEF RouteEvent, ConnectionAdded, ConnectionRemoved, ViaListSeconded,
                ViaListUnseconded, RouteKind
<1> QED BY <1>1, <1>2

\* Quiet events behind the queue leave a healed neighbour healed.
LEMMA HealedQuiet ==
    ASSUME NEW q \in Seq(RootEvent), NEW t \in Seq(RootEvent), NEW n, NEW a, NEW o,
           Healed(q, n, a, o), AllQuiet("event", n, a, t)
    PROVE  Healed(q \o t, n, a, o)
<1> SUFFICES ASSUME NEW k \in 0..Len(q \o t), NEW r, Along("event", n, a, r, q \o t, k)
             PROVE  /\ r[k] = o => r[Len(q \o t)] = o
                    /\ o = None => r[Len(q \o t)] = r[k] \/ r[Len(q \o t)] = None
                    /\ o # None /\ r[k] # None => r[Len(q \o t)] # None
    BY DEF Healed
<1>1. r[Len(q \o t)] = r[IF k <= Len(q) THEN Len(q) ELSE k]
    BY AlongQuiet
<1>2. CASE k <= Len(q)
    <2>1. k \in 0..Len(q)
        BY <1>2, ConcatFacts
    <2>2. Along("event", n, a, r, q, k)
        BY <2>1, AlongConcat
    <2> QED BY <1>1, <1>2, <2>1, <2>2 DEF Healed
<1>3. CASE ~(k <= Len(q))
    BY <1>1, <1>3
<1> QED BY <1>2, <1>3

LEMMA HealedTail ==
    ASSUME NEW q \in Seq(RootEvent), q # <<>>, NEW n, NEW a, NEW o, Healed(q, n, a, o)
    PROVE  Healed(Tail(q), n, a, o)
<1> SUFFICES ASSUME NEW k \in 0..Len(Tail(q)), NEW r, Along("event", n, a, r, Tail(q), k)
             PROVE  /\ r[k] = o => r[Len(Tail(q))] = o
                    /\ o = None => r[Len(Tail(q))] = r[k] \/ r[Len(Tail(q))] = None
                    /\ o # None /\ r[k] # None => r[Len(Tail(q))] # None
    BY DEF Healed
<1> DEFINE w == [i \in 0..Len(q) |-> IF i = 0 THEN None ELSE r[i - 1]]
<1>1. /\ Along("event", n, a, w, q, k + 1) /\ w[k + 1] = r[k] /\ w[Len(q)] = r[Len(Tail(q))]
    BY AlongTail
<1> HIDE DEF w
<1>2. k + 1 \in 0..Len(q)
    BY TailFacts
<1> QED BY <1>1, <1>2 DEF Healed

\* What the one or two events of a change make of a belief on their way.
LEMMA SentWay ==
    ASSUME NEW n, NEW a, NEW ev, ev.list \in RouteEvent \cup {NoEvent},
           ev.min \in Changed \cup {NoEvent},
           ev.list # NoEvent => ev.list.to = a, ev.min # NoEvent => ev.min.to = a,
           NEW k \in 0..Len(Sent(ev)), NEW w, Along("event", n, a, w, Sent(ev), k)
    PROVE  /\ k = 0 => w[Len(Sent(ev))] = HearEvents(n, w[0], ev)
           /\ k > 0 => \/ w[Len(Sent(ev))] = w[k]
                       \/ w[Len(Sent(ev))] = Hear(w[k], NotificationFor(n, ev.min))
<1> DEFINE s == Sent(ev)
<1>1. \A e \in RouteEvent : e.to = a => \A h : After("event", n, a, h, e) = Hear(h, NotificationFor(n, e))
    BY RouteEventKind DEF After
<1>2. \A e \in Changed : e \in RouteEvent
    BY DEF RouteEvent
<1>3. \A i \in (k + 1)..Len(s) : w[i] = After("event", n, a, w[i - 1], s[i])
    BY DEF Along
<1>4. CASE ev.list = NoEvent /\ ev.min = NoEvent
    <2>1. s = <<>>
        BY <1>4 DEF Sent
    <2>2. Len(s) = 0 /\ k = 0
        BY <2>1
    <2> QED BY <1>4, <2>2, HearNoEvent DEF HearEvents
<1>5. CASE ev.list # NoEvent /\ ev.min = NoEvent
    <2>1. s = <<ev.list>>
        BY <1>5 DEF Sent
    <2>2. Len(s) = 1 /\ s[1] = ev.list /\ k \in {0, 1}
        BY <2>1
    <2> HIDE DEF s
    <2>3. CASE k = 0
        <3>1. w[1] = After("event", n, a, w[0], ev.list)
            BY <1>3, <2>2, <2>3
        <3> QED BY <1>1, <1>5, <2>2, <2>3, <3>1, HearNoEvent DEF HearEvents, s
    <2> QED BY <2>2, <2>3 DEF s
<1>6. CASE ev.list = NoEvent /\ ev.min # NoEvent
    <2>1. s = <<ev.min>>
        BY <1>6 DEF Sent
    <2>2. Len(s) = 1 /\ s[1] = ev.min /\ k \in {0, 1}
        BY <2>1
    <2> HIDE DEF s
    <2>3. CASE k = 0
        <3>1. w[1] = After("event", n, a, w[0], ev.min)
            BY <1>3, <2>2, <2>3
        <3> QED BY <1>1, <1>2, <1>6, <2>2, <2>3, <3>1, HearNoEvent DEF HearEvents, s
    <2> QED BY <2>2, <2>3 DEF s
<1>7. CASE ev.list # NoEvent /\ ev.min # NoEvent
    <2> DEFINE u == <<ev.list>>
               v == <<ev.min>>
    <2>1. u \in Seq(RootEvent) /\ v \in Seq(RootEvent)
        BY <1>2, <1>7 DEF RootEvent
    <2>2. Len(u) = 1 /\ Len(v) = 1 /\ u[1] = ev.list /\ v[1] = ev.min /\ s = u \o v
        BY <1>7 DEF Sent
    <2> HIDE DEF s, u, v
    <2>3. Len(s) = 2 /\ s[1] = ev.list /\ s[2] = ev.min /\ k \in {0, 1, 2}
        <3>1. Len(s) = 2 /\ s[1] = u[1] /\ s[1 + 1] = v[1]
            BY <2>1, <2>2, ConcatFacts
        <3> QED BY <2>2, <3>1 DEF s
    <2> HIDE DEF s
    <2>4. k < 2 => w[2] = Hear(w[1], NotificationFor(n, ev.min))
        <3>1. k < 2 => w[2] = After("event", n, a, w[1], ev.min)
            BY <1>3, <2>3
        <3> QED BY <1>1, <1>2, <1>7, <3>1
    <2>5. k = 0 => w[1] = Hear(w[0], NotificationFor(n, ev.list))
        <3>1. k = 0 => w[1] = After("event", n, a, w[0], ev.list)
            BY <1>3, <2>3
        <3> QED BY <1>1, <1>7, <3>1
    <2> QED BY <2>3, <2>4, <2>5 DEF HearEvents, s
<1> QED BY <1>4, <1>5, <1>6, <1>7

\* The events of a change from the offer o to the offer p.
LEMMA HealedSent ==
    ASSUME NEW q \in Seq(RootEvent), NEW n, NEW a, NEW o, NEW p, NEW ev, Healed(q, n, a, o),
           Heals(n, o, p, ev), ev.list \in RouteEvent \cup {NoEvent},
           ev.min \in Changed \cup {NoEvent},
           ev.list # NoEvent => ev.list.to = a, ev.min # NoEvent => ev.min.to = a
    PROVE  Healed(q \o Sent(ev), n, a, p)
<1> DEFINE t == Sent(ev)
<1>1. t \in Seq(RootEvent)
    BY SentType
<1>2. ASSUME NEW k \in 0..Len(t), NEW w, Along("event", n, a, w, t, k)
      PROVE  /\ k = 0 => w[Len(t)] = HearEvents(n, w[0], ev)
             /\ k > 0 => w[Len(t)] = w[k] \/ w[Len(t)] = Hear(w[k], NotificationFor(n, ev.min))
    BY <1>2, SentWay
<1> SUFFICES ASSUME NEW k \in 0..Len(q \o t), NEW r, Along("event", n, a, r, q \o t, k)
             PROVE  /\ r[k] = p => r[Len(q \o t)] = p
                    /\ p = None => r[Len(q \o t)] = r[k] \/ r[Len(q \o t)] = None
                    /\ p # None /\ r[k] # None => r[Len(q \o t)] # None
    BY DEF Healed
<1> HIDE DEF t
<1> DEFINE w == [i \in 0..Len(t) |-> r[Len(q) + i]]
<1>3. /\ Len(q) \in Nat /\ Len(t) \in Nat /\ Len(q \o t) = Len(q) + Len(t)
    BY <1>1, ConcatFacts
<1>4. \A i \in 0..Len(t) : w[i] = r[Len(q) + i]
    OBVIOUS
<1>5. w[0] = r[Len(q)] /\ w[Len(t)] = r[Len(q \o t)]
    BY <1>3, <1>4
<1>6. CASE k <= Len(q)
    <2>1. k \in 0..Len(q)
        BY <1>3, <1>6
    <2>2. Along("event", n, a, r, q, k) /\ Along("event", n, a, w, t, 0)
        BY <1>1, <2>1, AlongConcat
    <2> HIDE DEF w
    <2>3. w[Len(t)] = HearEvents(n, w[0], ev)
        BY <1>2, <1>3, <2>2
    <2>4. r[Len(q \o t)] = HearEvents(n, r[Len(q)], ev)
        BY <1>5, <2>3
    <2>5. /\ r[k] = o => r[Len(q)] = o
          /\ o = None => r[Len(q)] = r[k] \/ r[Len(q)] = None
          /\ o # None /\ r[k] # None => r[Len(q)] # None
        BY <2>1, <2>2 DEF Healed
    <2>6. CASE p = None
        BY <2>4, <2>5, <2>6 DEF Heals
    <2>7. CASE p # None /\ o = None
        BY <2>4, <2>5, <2>7 DEF Heals
    <2>8. CASE p # None /\ o # None
        BY <2>4, <2>5, <2>8 DEF Heals
    <2> QED BY <2>6, <2>7, <2>8
<1>7. CASE k > Len(q)
    <2> DEFINE j == k - Len(q)
    <2>1. j \in 1..Len(t) /\ Len(q) + j = k /\ j \in 0..Len(t)
        BY <1>3, <1>7
    <2>2. Along("event", n, a, w, t, j)
        <3>1. ASSUME NEW i \in (j + 1)..Len(t) PROVE w[i] = After("event", n, a, w[i - 1], t[i])
            <4>1. /\ Len(q) + i \in (k + 1)..Len(q \o t) /\ i \in 1..Len(t)
                  /\ (Len(q) + i) - 1 = Len(q) + (i - 1) /\ i \in 0..Len(t) /\ i - 1 \in 0..Len(t)
                BY <1>3, <2>1
            <4>2. w[i] = r[Len(q) + i] /\ w[i - 1] = r[(Len(q) + i) - 1]
                BY <1>4, <4>1
            <4>3. (q \o t)[Len(q) + i] = t[i]
                BY <1>1, <4>1, ConcatFacts
            <4>4. r[Len(q) + i] = After("event", n, a, r[(Len(q) + i) - 1], (q \o t)[Len(q) + i])
                BY <4>1 DEF Along
            <4> HIDE DEF w
            <4> QED BY <4>2, <4>3, <4>4
        <3> HIDE DEF w, j
        <3> QED BY <3>1 DEF Along
    <2>3. w[j] = r[k]
        BY <1>4, <2>1
    <2> HIDE DEF w, j
    <2>4. w[Len(t)] = w[j] \/ w[Len(t)] = Hear(w[j], NotificationFor(n, ev.min))
        BY <1>2, <2>1, <2>2
    <2>5. r[Len(q \o t)] = r[k] \/ r[Len(q \o t)] = Hear(r[k], NotificationFor(n, ev.min))
        BY <1>5, <2>3, <2>4
    <2> QED BY <2>5 DEF Heals
<1> QED BY <1>3, <1>6, <1>7

LEMMA ToldQuiet ==
    ASSUME NEW q \in Seq(RootEvent), NEW t \in Seq(RootEvent), NEW n, NEW a, NEW h, NEW o,
           Told(q, n, a, h, o), AllQuiet("packet", n, a, t), AllQuiet("event", n, a, t)
    PROVE  Told(q \o t, n, a, h, o)
<1> SUFFICES ASSUME NEW p, NEW r, p[0] = h, Along("packet", n, a, p, q \o t, 0),
                    r[0] = p[Len(q \o t)], Along("event", n, a, r, q \o t, 0)
             PROVE  r[Len(q \o t)] = o
    BY DEF Told
<1>1. 0 \in 0..Len(q) /\ 0 \in 0..Len(q \o t) /\ 0 <= Len(q)
    BY ConcatFacts
<1>2. Along("packet", n, a, p, q, 0) /\ Along("event", n, a, r, q, 0)
    BY <1>1, AlongConcat
<1>3. p[Len(q \o t)] = p[Len(q)]
    BY <1>1, AlongQuiet
<1>4. r[Len(q \o t)] = r[Len(q)]
    BY <1>1, AlongQuiet
<1> QED BY <1>2, <1>3, <1>4 DEF Told

\* The neighbour that would hold o hears of the change to p.
LEMMA ToldSent ==
    ASSUME NEW q \in Seq(RootEvent), NEW n, NEW a, NEW h, NEW o, NEW p, NEW ev, Told(q, n, a, h, o),
           Heals(n, o, p, ev), ev.list \in RouteEvent \cup {NoEvent},
           ev.min \in Changed \cup {NoEvent},
           ev.list # NoEvent => ev.list.to = a, ev.min # NoEvent => ev.min.to = a,
           AllQuiet("packet", n, a, Sent(ev))
    PROVE  Told(q \o Sent(ev), n, a, h, p)
<1> DEFINE t == Sent(ev)
<1>1. t \in Seq(RootEvent)
    BY SentType
<1> SUFFICES ASSUME NEW f, NEW r, f[0] = h, Along("packet", n, a, f, q \o t, 0),
                    r[0] = f[Len(q \o t)], Along("event", n, a, r, q \o t, 0)
             PROVE  r[Len(q \o t)] = p
    BY DEF Told
<1>2. ASSUME NEW w, Along("event", n, a, w, t, 0)
      PROVE  w[Len(t)] = HearEvents(n, w[0], ev)
    <2>1. 0 \in 0..Len(t)
        BY <1>1
    <2> QED BY <1>2, <2>1, SentWay
<1>3. AllQuiet("packet", n, a, t)
    OBVIOUS
<1> HIDE DEF t
<1>4. 0 \in 0..Len(q) /\ 0 \in 0..Len(q \o t) /\ 0 <= Len(q)
      /\ Len(q) \in Nat /\ Len(t) \in Nat /\ Len(q \o t) = Len(q) + Len(t)
    BY <1>1, ConcatFacts
<1>5. Along("packet", n, a, f, q, 0) /\ Along("event", n, a, r, q, 0)
    BY <1>1, <1>4, AlongConcat
<1>6. f[Len(q \o t)] = f[Len(q)]
    BY <1>1, <1>3, <1>4, AlongQuiet
<1>7. r[Len(q)] = o
    BY <1>5, <1>6 DEF Told
<1> DEFINE w == [i \in 0..Len(t) |-> r[Len(q) + i]]
<1>8. Along("event", n, a, w, t, 0)
    <2>1. 0 \in 0..Len(q)
        BY <1>4
    <2> QED BY <1>1, <2>1, AlongConcat, SMTT(40)
<1>9. w[0] = r[Len(q)] /\ w[Len(t)] = r[Len(q \o t)]
    <2>1. \A i \in 0..Len(t) : w[i] = r[Len(q) + i]
        OBVIOUS
    <2> QED BY <1>4, <2>1
<1> HIDE DEF w
<1> QED BY <1>2, <1>7, <1>8, <1>9 DEF Heals

\* The packet at the head goes out.
LEMMA ToldHead ==
    ASSUME NEW q \in Seq(RootEvent), q # <<>>, NEW n, NEW a, NEW h, NEW o,
           Told(q, n, a, h, o), Quiet("event", n, a, Head(q))
    PROVE  Told(Tail(q), n, a, After("packet", n, a, h, Head(q)), o)
<1> SUFFICES ASSUME NEW p, NEW r, p[0] = After("packet", n, a, h, Head(q)),
                    Along("packet", n, a, p, Tail(q), 0),
                    r[0] = p[Len(Tail(q))], Along("event", n, a, r, Tail(q), 0)
             PROVE  r[Len(Tail(q))] = o
    BY DEF Told
<1>1. 0 \in 0..Len(Tail(q))
    BY TailFacts
<1> DEFINE f == [i \in 0..Len(q) |-> IF i = 0 THEN h ELSE p[i - 1]]
           w == [i \in 0..Len(q) |-> IF i = 0 THEN r[0] ELSE r[i - 1]]
<1>2. Along("packet", n, a, f, q, 0) /\ f[0] = h /\ f[Len(q)] = p[Len(Tail(q))]
    <2>1. Along("packet", n, a, p, Tail(q), 0) /\ p[0] = After("packet", n, a, h, Head(q))
        OBVIOUS
    <2>2. f[0] = h /\ f[Len(q)] = p[Len(Tail(q))]
        BY <1>1, <2>1, AlongTail
    <2>3. Along("packet", n, a, f, q, 0)
        BY <1>1, <2>1, AlongTail
    <2> QED BY <2>2, <2>3
<1>3. Along("event", n, a, w, q, 0) /\ w[0] = r[0] /\ w[Len(q)] = r[Len(Tail(q))]
    <2>1. r[0] = After("event", n, a, r[0], Head(q))
        BY DEF Quiet
    <2> QED BY <1>1, <2>1, AlongTail
<1> HIDE DEF f, w
<1> QED BY <1>2, <1>3 DEF Told

\* The event at the head turns into packets at the end.
LEMMA ToldEvent ==
    ASSUME NEW q \in Seq(RootEvent), q # <<>>, NEW t \in Seq(RootEvent), NEW n, NEW a, NEW h, NEW o,
           Told(q, n, a, h, o), Quiet("packet", n, a, Head(q)), AllQuiet("event", n, a, t),
           \A w : Along("packet", n, a, w, t, 0) =>
               w[Len(t)] = After("event", n, a, w[0], Head(q))
    PROVE  Told(Tail(q) \o t, n, a, h, o)
<1> DEFINE u == Tail(q)
<1> SUFFICES ASSUME NEW p, NEW r, p[0] = h, Along("packet", n, a, p, u \o t, 0),
                    r[0] = p[Len(u \o t)], Along("event", n, a, r, u \o t, 0)
             PROVE  r[Len(u \o t)] = o
    BY DEF Told
<1>1. u \in Seq(RootEvent) /\ 0 \in 0..Len(u)
    BY TailFacts
<1> DEFINE f == [i \in 0..Len(q) |-> IF i = 0 THEN h ELSE p[i - 1]]
           g == [i \in 0..Len(q) |-> IF i = 0 THEN p[Len(u)] ELSE r[i - 1]]
           v == [i \in 0..Len(t) |-> p[Len(u) + i]]
<1>2. Along("packet", n, a, p, u, 0) /\ Along("packet", n, a, v, t, 0)
    <2> HIDE DEF u
    <2> QED BY <1>1, AlongConcat
<1>3. v[0] = p[Len(u)] /\ v[Len(t)] = p[Len(u \o t)] /\ 0 \in 0..Len(u \o t) /\ 0 <= Len(u)
    <2> HIDE DEF u
    <2>1. /\ Len(u) \in Nat /\ Len(t) \in Nat /\ Len(u \o t) = Len(u) + Len(t)
        BY <1>1, ConcatFacts
    <2>2. \A i \in 0..Len(t) : v[i] = p[Len(u) + i]
        OBVIOUS
    <2> QED BY <2>1, <2>2
<1>4. Along("event", n, a, r, u, 0) /\ r[Len(u \o t)] = r[Len(u)]
    <2> HIDE DEF u, v
    <2>1. Along("event", n, a, r, u, 0)
        BY <1>1, AlongConcat
    <2> QED BY <1>1, <1>3, <2>1, AlongQuiet
<1>5. Along("packet", n, a, f, q, 0) /\ f[0] = h /\ f[Len(q)] = p[Len(u)]
    <2>1. p[0] = After("packet", n, a, h, Head(q))
        BY DEF Quiet
    <2> QED BY <1>1, <1>2, <2>1, AlongTail
<1>6. Along("event", n, a, g, q, 0) /\ g[0] = p[Len(u)] /\ g[Len(q)] = r[Len(u)]
    <2>1. r[0] = After("event", n, a, p[Len(u)], Head(q))
        <3> HIDE DEF u, v
        <3> QED BY <1>2, <1>3
    <2> QED BY <1>1, <1>4, <2>1, AlongTail
<1> HIDE DEF u, f, g, v
<1> QED BY <1>4, <1>5, <1>6 DEF Told

\* A connection that is new, with no packet for an earlier one before its list.
LEMMA NewTold ==
    ASSUME NEW q \in Seq(RootEvent), NEW t \in Seq(RootEvent), NEW n, NEW a, NEW o,
           AllQuiet("packet", n, a, q), Healed(q, n, a, o), AllQuiet("event", n, a, t),
           \A w : w[0] = None /\ Along("packet", n, a, w, t, 0) => w[Len(t)] = o
    PROVE  Told(q \o t, n, a, None, o)
<1> SUFFICES ASSUME NEW p, NEW r, p[0] = None, Along("packet", n, a, p, q \o t, 0),
                    r[0] = p[Len(q \o t)], Along("event", n, a, r, q \o t, 0)
             PROVE  r[Len(q \o t)] = o
    BY DEF Told
<1> DEFINE w == [i \in 0..Len(t) |-> p[Len(q) + i]]
<1>1. /\ Len(q) \in Nat /\ Len(t) \in Nat /\ Len(q \o t) = Len(q) + Len(t)
      /\ 0 \in 0..Len(q) /\ 0 \in 0..Len(q \o t) /\ 0 <= Len(q)
    BY ConcatFacts
<1>2. w[0] = p[Len(q)] /\ w[Len(t)] = p[Len(q \o t)]
    <2>1. \A i \in 0..Len(t) : w[i] = p[Len(q) + i]
        OBVIOUS
    <2> QED BY <1>1, <2>1
<1>3. Along("packet", n, a, p, q, 0) /\ Along("packet", n, a, w, t, 0)
    BY <1>1, AlongConcat, SMTT(40)
<1> HIDE DEF w
<1>4. p[Len(q)] = None
    <2>1. \A l \in (0 + 1)..Len(q) : l \in 1..Len(q) /\ p[l] = After("packet", n, a, p[l - 1], q[l])
        BY <1>1, <1>3 DEF Along
    <2>2. \A l \in (0 + 1)..Len(q) : p[l] = p[l - 1]
        BY <2>1 DEF AllQuiet, Quiet
    <2> QED BY <1>1, <2>2, Constant
<1>5. r[0] = o
    BY <1>2, <1>3, <1>4
<1>6. Along("event", n, a, r, q, 0) /\ r[Len(q \o t)] = r[Len(q)]
    <2>1. Along("event", n, a, r, q, 0)
        BY <1>1, AlongConcat
    <2> QED BY <1>1, <2>1, AlongQuiet
<1> QED BY <1>1, <1>5, <1>6 DEF Healed

-----------------------------------------------------------------------------
(* The table, the queue and what the neighbours have heard, together.        *)

AllHealed(q, m) ==
    \A n \in Address : \A a \in Address \ {n} : Healed(q, n, a, OfferedTo(n, m[a]))

AllTold(q) ==
    \A n \in connections \cap fresh : \A a \in Address \ {n} :
        Told(q, n, a, heard[n][a], OfferedTo(n, min_rtt[a]))

\* What SettledExact says of the drained queue, said of a queue that is not: what is
\* in it will take every neighbour to what it is offered now.
Settling == MinExact /\ AllHealed(queue, min_rtt) /\ AllTold(queue)

LEMMA QuietKind ==
    ASSUME NEW e, NEW n, NEW a
    PROVE  /\ e.kind # "OutgoingMessage" => Quiet("packet", n, a, e)
           /\ e.kind \notin RouteKind => Quiet("event", n, a, e)
           /\ e.kind = "OutgoingMessage" /\ (e.to # n \/ e.message.to # a) => Quiet("packet", n, a, e)
           /\ e.kind \in RouteKind => Quiet("packet", n, a, e)
           /\ e.kind \in RouteKind /\ e.to # a => Quiet("event", n, a, e)
BY DEF Quiet, After, RouteKind

LEMMA PacketsQuiet ==
    ASSUME NEW t \in Seq(RootEvent), \A i \in 1..Len(t) : t[i].kind = "OutgoingMessage", NEW n, NEW a
    PROVE  AllQuiet("event", n, a, t)
<1>1. \A i \in 1..Len(t) : t[i].kind \notin RouteKind
    BY DEF RouteKind
<1> QED BY <1>1, QuietKind DEF AllQuiet

LEMMA SentQuiet ==
    ASSUME NEW ev, ev.list \in RouteEvent \cup {NoEvent}, ev.min \in Changed \cup {NoEvent}, NEW b,
           ev.list # NoEvent => ev.list.to = b, ev.min # NoEvent => ev.min.to = b, NEW n, NEW a
    PROVE  /\ AllQuiet("packet", n, a, Sent(ev))
           /\ a # b => AllQuiet("event", n, a, Sent(ev))
<1> DEFINE u == IF ev.list = NoEvent THEN <<>> ELSE <<ev.list>>
           v == IF ev.min = NoEvent THEN <<>> ELSE <<ev.min>>
<1>1. Changed \subseteq RouteEvent /\ RouteEvent \subseteq RootEvent
    BY DEF RootEvent, RouteEvent
<1>2. u \in Seq(RootEvent) /\ v \in Seq(RootEvent) /\ Sent(ev) = u \o v
    BY <1>1 DEF Sent
<1>3. ASSUME NEW i \in 1..Len(u) PROVE u[i] \in RouteEvent /\ u[i].to = b
    <2>1. CASE ev.list = NoEvent
        <3>1. u = <<>>
            BY <2>1
        <3> QED BY <1>3, <3>1
    <2>2. CASE ev.list # NoEvent
        <3>1. u = <<ev.list>>
            BY <2>2
        <3> QED BY <1>3, <2>2, <3>1
    <2> QED BY <2>1, <2>2
<1>4. ASSUME NEW i \in 1..Len(v) PROVE v[i] \in RouteEvent /\ v[i].to = b
    <2>1. CASE ev.min = NoEvent
        <3>1. v = <<>>
            BY <2>1
        <3> QED BY <1>4, <3>1
    <2>2. CASE ev.min # NoEvent
        <3>1. v = <<ev.min>>
            BY <2>2
        <3> QED BY <1>1, <1>4, <2>2, <3>1
    <2> QED BY <2>1, <2>2
<1> HIDE DEF u, v
<1>5. ASSUME NEW i \in 1..Len(Sent(ev)) PROVE Sent(ev)[i].kind \in RouteKind /\ Sent(ev)[i].to = b
    <2>1. CASE i <= Len(u)
        <3>1. i \in 1..Len(u) /\ Sent(ev)[i] = u[i]
            BY <1>2, <2>1, ConcatFacts
        <3> QED BY <1>3, <3>1, RouteEventKind
    <2>2. CASE ~(i <= Len(u))
        <3>1. i - Len(u) \in 1..Len(v) /\ i = Len(u) + (i - Len(u))
            BY <1>2, <2>2, ConcatFacts
        <3>2. Sent(ev)[i] = v[i - Len(u)]
            BY <1>2, <3>1, ConcatFacts
        <3> QED BY <1>4, <3>1, <3>2, RouteEventKind
    <2> QED BY <2>1, <2>2
<1> QED BY <1>5, QuietKind DEF AllQuiet

\* The events of a change of the routes to b are about b.
LEMMA EventsAbout ==
    ASSUME NEW b, NEW r, NEW v, NEW d, NEW old, NEW m
    PROVE  /\ IncEvents(b, r, v, d, old, m).list # NoEvent => IncEvents(b, r, v, d, old, m).list.to = b
           /\ IncEvents(b, r, v, d, old, m).min # NoEvent => IncEvents(b, r, v, d, old, m).min.to = b
           /\ DecEvents(b, r, v, old, m).list # NoEvent => DecEvents(b, r, v, old, m).list.to = b
           /\ DecEvents(b, r, v, old, m).min # NoEvent => DecEvents(b, r, v, old, m).min.to = b
<1>1. MinRttUpdated(b, old, m) # NoEvent => MinRttUpdated(b, old, m).to = b
    BY DEF MinRttUpdated
<1>2. /\ IncEvents(b, r, v, d, old, m).list # NoEvent => IncEvents(b, r, v, d, old, m).list.to = b
      /\ DecEvents(b, r, v, old, m).list # NoEvent => DecEvents(b, r, v, old, m).list.to = b
    BY DEF IncEvents, DecEvents, ConnectionAdded, ConnectionRemoved, ViaListSeconded, ViaListUnseconded
<1>3. /\ IncEvents(b, r, v, d, old, m).min # NoEvent => IncEvents(b, r, v, d, old, m).min.to = b
      /\ DecEvents(b, r, v, old, m).min # NoEvent => DecEvents(b, r, v, old, m).min.to = b
    BY <1>1 DEF IncEvents, DecEvents
<1> QED BY <1>2, <1>3

LEMMA IncHeals ==
    ASSUME RouteTypeOK, MinExact, NEW b \in Address, NEW v \in Via, NEW d \in Rtt,
           NEW m \in MinRtt, IncRoute(b, v, d, m)
    PROVE  /\ MinExact' /\ min_rtt' = [min_rtt EXCEPT ![b] = m]
           /\ \A n \in Address \ {b} :
                  Heals(n, OfferedTo(n, min_rtt[b]), OfferedTo(n, m),
                        IncEvents(b, via[b], v, d, min_rtt[b], m))
<1> DEFINE r == [via[b] EXCEPT ![v] = d]
<1>1. /\ via' = [via EXCEPT ![b] = r] /\ min_rtt' = [min_rtt EXCEPT ![b] = m]
      /\ via[b][v] = None /\ m \in MinRttsOf(r)
    BY DEF IncRoute
<1>2. via[b] \in RouteMap /\ min_rtt[b] \in MinRttsOf(via[b])
    BY DEF RouteTypeOK, MinExact
<1>3. MinExact'
    <2> HIDE DEF r
    <2> QED BY <1>1 DEF MinExact, RouteTypeOK
<1>4. ASSUME NEW n \in Address \ {b}
      PROVE  Heals(n, OfferedTo(n, min_rtt[b]), OfferedTo(n, m), IncEvents(b, via[b], v, d, min_rtt[b], m))
    BY <1>1, <1>2, HealsInc
<1> QED BY <1>1, <1>3, <1>4

LEMMA DecHeals ==
    ASSUME RouteTypeOK, MinExact, NEW b \in Address, NEW v \in Via,
           NEW m \in MinRtt, DecRoute(b, v, m)
    PROVE  /\ MinExact' /\ min_rtt' = [min_rtt EXCEPT ![b] = m]
           /\ \A n \in Address \ {b} :
                  Heals(n, OfferedTo(n, min_rtt[b]), OfferedTo(n, m),
                        DecEvents(b, via[b], v, min_rtt[b], m))
<1> DEFINE r == [via[b] EXCEPT ![v] = None]
<1>1. /\ via' = [via EXCEPT ![b] = r] /\ min_rtt' = [min_rtt EXCEPT ![b] = m]
      /\ via[b][v] # None /\ m \in IF Vias(r) = {} THEN {NoMin} ELSE MinRttsOf(r)
    BY DEF DecRoute
<1>2. via[b] \in RouteMap /\ min_rtt[b] \in MinRttsOf(via[b]) /\ r \in RouteMap
    BY DEF RouteTypeOK, MinExact, RouteMap, RttOption
<1>3. m \in MinRttsOf(r)
    <2> HIDE DEF r
    <2> QED BY <1>1, <1>2, EmptyMin
<1>4. MinExact'
    <2> HIDE DEF r
    <2> QED BY <1>1, <1>3 DEF MinExact, RouteTypeOK
<1>5. ASSUME NEW n \in Address \ {b}
      PROVE  Heals(n, OfferedTo(n, min_rtt[b]), OfferedTo(n, m), DecEvents(b, via[b], v, min_rtt[b], m))
    BY <1>1, <1>2, <1>3, HealsDec
<1> QED BY <1>1, <1>4, <1>5

\* A change of the routes to b, with its events behind q.
LEMMA ChangeHeals ==
    ASSUME NEW q \in Seq(RootEvent), NEW b \in Address, NEW m, RouteTypeOK,
           min_rtt' = [min_rtt EXCEPT ![b] = m], NEW ev,
           ev.list \in RouteEvent \cup {NoEvent}, ev.min \in Changed \cup {NoEvent},
           ev.list # NoEvent => ev.list.to = b, ev.min # NoEvent => ev.min.to = b,
           \A n \in Address \ {b} : Heals(n, OfferedTo(n, min_rtt[b]), OfferedTo(n, m), ev),
           AllHealed(q, min_rtt)
    PROVE  /\ AllHealed(q \o Sent(ev), min_rtt')
           /\ \A n \in Address : \A a \in Address \ {n} : \A h :
                  Told(q, n, a, h, OfferedTo(n, min_rtt[a]))
                      => Told(q \o Sent(ev), n, a, h, OfferedTo(n, min_rtt'[a]))
<1>1. Sent(ev) \in Seq(RootEvent)
    BY SentType
<1>2. ASSUME NEW n \in Address, NEW a \in Address \ {n}
      PROVE  /\ Healed(q \o Sent(ev), n, a, OfferedTo(n, min_rtt'[a]))
             /\ \A h : Told(q, n, a, h, OfferedTo(n, min_rtt[a]))
                           => Told(q \o Sent(ev), n, a, h, OfferedTo(n, min_rtt'[a]))
    <2>1. Healed(q, n, a, OfferedTo(n, min_rtt[a]))
        BY DEF AllHealed
    <2>2. AllQuiet("packet", n, a, Sent(ev)) /\ (a # b => AllQuiet("event", n, a, Sent(ev)))
        BY SentQuiet
    <2>3. CASE a = b
        <3>1. min_rtt'[a] = m /\ n \in Address \ {b}
            BY <2>3 DEF RouteTypeOK
        <3>2. Heals(n, OfferedTo(n, min_rtt[a]), OfferedTo(n, m), ev)
            BY <2>3, <3>1
        <3>3. Healed(q \o Sent(ev), n, a, OfferedTo(n, m))
            BY <2>1, <2>3, <3>2, HealedSent
        <3>4. ASSUME NEW h, Told(q, n, a, h, OfferedTo(n, min_rtt[a]))
              PROVE  Told(q \o Sent(ev), n, a, h, OfferedTo(n, m))
            BY <2>2, <2>3, <3>2, <3>4, ToldSent
        <3> QED BY <3>1, <3>3, <3>4
    <2>4. CASE a # b
        <3>1. min_rtt'[a] = min_rtt[a]
            BY <2>4 DEF RouteTypeOK
        <3>2. Healed(q \o Sent(ev), n, a, OfferedTo(n, min_rtt[a]))
            BY <1>1, <2>1, <2>2, <2>4, HealedQuiet
        <3>3. ASSUME NEW h, Told(q, n, a, h, OfferedTo(n, min_rtt[a]))
              PROVE  Told(q \o Sent(ev), n, a, h, OfferedTo(n, min_rtt[a]))
            BY <1>1, <2>2, <2>4, <3>3, ToldQuiet
        <3> QED BY <3>1, <3>2, <3>3
    <2> QED BY <2>3, <2>4
<1> QED BY <1>2 DEF AllHealed

\* The worker takes an event of a reader from the head of the queue.
LEMMA HeadHeals ==
    ASSUME queue # <<>>, queue \in Seq(RootEvent), Settling
    PROVE  /\ AllHealed(Tail(queue), min_rtt)
           /\ Head(queue).kind \in {"ConnectionMessage", "ConnectionEnding"} => AllTold(Tail(queue))
<1>1. AllHealed(Tail(queue), min_rtt)
    BY HealedTail DEF Settling, AllHealed
<1>2. ASSUME Head(queue).kind \in {"ConnectionMessage", "ConnectionEnding"},
             NEW n \in connections \cap fresh, NEW a \in Address \ {n}
      PROVE  Told(Tail(queue), n, a, heard[n][a], OfferedTo(n, min_rtt[a]))
    <2>1. Head(queue).kind # "OutgoingMessage" /\ Head(queue).kind \notin RouteKind
        BY <1>2 DEF RouteKind
    <2>2. Quiet("packet", n, a, Head(queue)) /\ Quiet("event", n, a, Head(queue))
        BY <2>1, QuietKind
    <2>3. After("packet", n, a, heard[n][a], Head(queue)) = heard[n][a]
        BY <2>2 DEF Quiet
    <2>4. Told(queue, n, a, heard[n][a], OfferedTo(n, min_rtt[a]))
        BY DEF Settling, AllTold
    <2>5. Told(Tail(queue), n, a, After("packet", n, a, heard[n][a], Head(queue)), OfferedTo(n, min_rtt[a]))
        BY <2>2, <2>4, ToldHead
    <2> QED BY <2>3, <2>5
<1> QED BY <1>1, <1>2 DEF AllTold

LEMMA RemoveDirectSettles ==
    ASSUME IInv, MinExact, NEW b \in Neighbour, NEW q \in Seq(RootEvent), RemoveDirect(b, q),
           AllHealed(q, min_rtt), AllTold(q)
    PROVE  Settling'
<1>1. PICK m \in MinRtt :
          /\ DecRoute(b, Direct, m)
          /\ queue' = q \o Sent(DecEvents(b, via[b], Direct, min_rtt[b], m))
    BY DEF RemoveDirect
<1>2. connections' = connections \ {b} /\ UNCHANGED <<heard, fresh>>
    BY DEF RemoveDirect
<1> DEFINE ev == DecEvents(b, via[b], Direct, min_rtt[b], m)
<1>3. b \in Address /\ Direct \in Via /\ RouteTypeOK /\ via[b] \in RouteMap /\ min_rtt[b] \in MinRtt
    BY DEF IInv, RouteTypeOK, Via
<1>4. ev.list \in RouteEvent \cup {NoEvent} /\ ev.min \in Changed \cup {NoEvent}
      /\ (ev.list # NoEvent => ev.list.to = b) /\ (ev.min # NoEvent => ev.min.to = b)
    <2>1. ev.list \in RouteEvent \cup {NoEvent} /\ ev.min \in Changed \cup {NoEvent}
        BY <1>3, DecEventsType
    <2>2. (ev.list # NoEvent => ev.list.to = b) /\ (ev.min # NoEvent => ev.min.to = b)
        BY EventsAbout
    <2> QED BY <2>1, <2>2
<1>5. /\ MinExact' /\ min_rtt' = [min_rtt EXCEPT ![b] = m]
      /\ \A n \in Address \ {b} : Heals(n, OfferedTo(n, min_rtt[b]), OfferedTo(n, m), ev)
    BY <1>1, <1>3, DecHeals
<1> HIDE DEF ev
<1>6. /\ AllHealed(q \o Sent(ev), min_rtt')
      /\ \A n \in Address : \A a \in Address \ {n} : \A h :
             Told(q, n, a, h, OfferedTo(n, min_rtt[a]))
                 => Told(q \o Sent(ev), n, a, h, OfferedTo(n, min_rtt'[a]))
    BY <1>3, <1>4, <1>5, ChangeHeals
<1>7. queue' = q \o Sent(ev)
    BY <1>1 DEF ev
<1>8. AllTold(queue)'
    <2>1. connections \subseteq Address
        BY DEF IInv, QueueOK
    <2> QED BY <1>2, <1>6, <1>7, <2>1 DEF AllTold
<1>9. AllHealed(queue, min_rtt)'
    BY <1>6, <1>7 DEF AllHealed
<1> QED BY <1>5, <1>8, <1>9 DEF Settling

LEMMA ReaderSettles ==
    ASSUME IInv, Settling, NEW e \in RootEvent, e.kind \in {"ConnectionMessage", "ConnectionEnding"},
           queue' = Append(queue, e), UNCHANGED <<routeVars, connections, heard, fresh>>
    PROVE  Settling'
<1> DEFINE t == <<e>>
<1>1. queue \in Seq(RootEvent) /\ t \in Seq(RootEvent) /\ queue' = queue \o t /\ Len(t) = 1 /\ t[1] = e
    BY DEF IInv, QueueOK
<1>2. \A n, a : AllQuiet("packet", n, a, t) /\ AllQuiet("event", n, a, t)
    <2>1. e.kind # "OutgoingMessage" /\ e.kind \notin RouteKind
        BY DEF RouteKind
    <2> HIDE DEF t
    <2> QED BY <1>1, <2>1, QuietKind DEF AllQuiet
<1> HIDE DEF t
<1>3. AllHealed(queue \o t, min_rtt)
    BY <1>1, <1>2, HealedQuiet DEF Settling, AllHealed
<1>4. AllTold(queue \o t)
    BY <1>1, <1>2, ToldQuiet DEF Settling, AllTold
<1>5. MinExact' /\ AllHealed(queue, min_rtt)' /\ AllTold(queue)'
    BY <1>1, <1>3, <1>4 DEF routeVars, MinExact, Settling, AllHealed, AllTold
<1> QED BY <1>5 DEF Settling

LEMMA ConnectionMessageSettles ==
    ASSUME IInv, Settling, OnConnectionMessage
    PROVE  Settling'
<1>1. queue # <<>> /\ Head(queue).kind = "ConnectionMessage" /\ queue \in Seq(RootEvent)
    BY DEF OnConnectionMessage, Received, IInv, QueueOK
<1>2. Head(queue) \in RootEvent /\ Tail(queue) \in Seq(RootEvent)
    BY <1>1
<1>3. PICK n \in Neighbour, msg \in Message : Head(queue) = ConnectionMessage(n, msg)
    BY <1>1, <1>2, KindOf
<1>4. Head(queue).from = n /\ Head(queue).message = msg
    BY <1>3 DEF ConnectionMessage
<1>5. AllHealed(Tail(queue), min_rtt) /\ AllTold(Tail(queue)) /\ MinExact
    BY <1>1, HeadHeals DEF Settling
<1>6. UNCHANGED <<connections, heard, fresh>>
    BY DEF OnConnectionMessage
<1> DEFINE b == msg.to
           q == Tail(queue)
<1>7. CASE n \in connections /\ msg.kind = "AddForwarded" /\ via[msg.to][n] = None
    <2>1. PICK m \in MinRtt :
              /\ IncRoute(b, n, msg.rtt, m)
              /\ queue' = q \o Sent(IncEvents(b, via[b], n, msg.rtt, min_rtt[b], m))
        BY <1>4, <1>7 DEF OnConnectionMessage
    <2> DEFINE ev == IncEvents(b, via[b], n, msg.rtt, min_rtt[b], m)
    <2>2. b \in Address /\ msg.rtt \in Rtt
        BY <1>7 DEF Message, AddForwarded, UpdatedForwardedRtt, RemoveForwarded
    <2>3. n \in Via /\ RouteTypeOK /\ via[b] \in RouteMap /\ min_rtt[b] \in MinRtt
        BY <2>2 DEF IInv, RouteTypeOK, Via
    <2>4. ev.list \in RouteEvent \cup {NoEvent} /\ ev.min \in Changed \cup {NoEvent}
          /\ (ev.list # NoEvent => ev.list.to = b) /\ (ev.min # NoEvent => ev.min.to = b)
        <3>1. ev.list \in RouteEvent \cup {NoEvent} /\ ev.min \in Changed \cup {NoEvent}
            BY <2>2, <2>3, IncEventsType
        <3>2. (ev.list # NoEvent => ev.list.to = b) /\ (ev.min # NoEvent => ev.min.to = b)
            BY EventsAbout
        <3> QED BY <3>1, <3>2
    <2>5. /\ MinExact' /\ min_rtt' = [min_rtt EXCEPT ![b] = m]
          /\ \A k \in Address \ {b} : Heals(k, OfferedTo(k, min_rtt[b]), OfferedTo(k, m), ev)
        BY <1>5, <2>1, <2>2, <2>3, IncHeals
    <2>6. q \in Seq(RootEvent) /\ AllHealed(q, min_rtt) /\ AllTold(q)
        BY <1>2, <1>5
    <2>7. queue' = q \o Sent(ev)
        BY <2>1
    <2> HIDE DEF ev, b, q
    <2>8. /\ AllHealed(q \o Sent(ev), min_rtt')
          /\ \A k \in Address : \A a \in Address \ {k} : \A h :
                 Told(q, k, a, h, OfferedTo(k, min_rtt[a]))
                     => Told(q \o Sent(ev), k, a, h, OfferedTo(k, min_rtt'[a]))
        BY <2>2, <2>3, <2>4, <2>5, <2>6, ChangeHeals
    <2>9. AllTold(queue)'
        <3>1. connections \subseteq Address
            BY DEF IInv, QueueOK
        <3> QED BY <1>6, <2>6, <2>7, <2>8, <3>1 DEF AllTold
    <2>10. AllHealed(queue, min_rtt)'
        BY <2>7, <2>8 DEF AllHealed
    <2> QED BY <2>5, <2>9, <2>10 DEF Settling
<1>8. CASE ~(n \in connections /\ msg.kind = "AddForwarded" /\ via[msg.to][n] = None)
    <2>1. queue' = Tail(queue) /\ UNCHANGED routeVars
        BY <1>4, <1>8 DEF OnConnectionMessage
    <2> QED BY <1>5, <1>6, <2>1 DEF routeVars, Settling, MinExact, AllHealed, AllTold
<1> QED BY <1>7, <1>8

LEMMA ConnectionEndingSettles ==
    ASSUME IInv, Settling, OnConnectionEnding
    PROVE  Settling'
<1>1. queue # <<>> /\ Head(queue).kind = "ConnectionEnding" /\ queue \in Seq(RootEvent)
    BY DEF OnConnectionEnding, Received, IInv, QueueOK
<1>2. AllHealed(Tail(queue), min_rtt) /\ AllTold(Tail(queue)) /\ MinExact /\ Tail(queue) \in Seq(RootEvent)
    BY <1>1, HeadHeals DEF Settling
<1>3. CASE Head(queue).from \in connections
    <2>1. RemoveDirect(Head(queue).from, Tail(queue)) /\ Head(queue).from \in Neighbour
        BY <1>3 DEF OnConnectionEnding, IInv, QueueOK
    <2> QED BY <1>2, <2>1, RemoveDirectSettles
<1>4. CASE Head(queue).from \notin connections
    <2>1. queue' = Tail(queue) /\ UNCHANGED <<routeVars, connections, heard, fresh>>
        BY <1>4 DEF OnConnectionEnding
    <2> QED BY <1>2, <2>1 DEF routeVars, Settling, MinExact, AllHealed, AllTold
<1> QED BY <1>3, <1>4

\* A packet for a connection that is there goes out on it: the table has its direct
\* route.
LEMMA OutgoingMessageSettles ==
    ASSUME IInv, Settling, OnOutgoingMessage
    PROVE  Settling'
<1>1. queue # <<>> /\ Head(queue).kind = "OutgoingMessage" /\ queue \in Seq(RootEvent)
    BY DEF OnOutgoingMessage, Received, IInv, QueueOK
<1>2. Head(queue) \in RootEvent /\ Tail(queue) \in Seq(RootEvent)
    BY <1>1
<1>3. PICK b \in Neighbour, msg \in Message : Head(queue) = OutgoingMessage(b, msg)
    BY <1>1, <1>2, KindOf
<1>4. Head(queue).to = b /\ Head(queue).message = msg /\ msg.to \in Address
    BY <1>3 DEF OutgoingMessage, Message, AddForwarded, UpdatedForwardedRtt, RemoveForwarded
<1>5. queue' = Tail(queue) /\ UNCHANGED <<routeVars, connections, fresh>>
    BY DEF OnOutgoingMessage
<1>6. heard' = IF b \in connections THEN [heard EXCEPT ![b][msg.to] = Hear(@, msg)] ELSE heard
    <2>1. b \in connections => forwarder_for(b, {}) = {Direct}
        BY DEF IInv, DirectIffConnected, forwarder_for
    <2> QED BY <1>4, <2>1 DEF OnOutgoingMessage
<1>7. ASSUME NEW n \in connections, NEW a \in Address
      PROVE  heard'[n][a] = After("packet", n, a, heard[n][a], Head(queue))
    <2>1. n \in Address /\ heard \in [Address -> [Address -> RttOption]]
        BY DEF IInv, QueueOK
    <2>2. CASE n = b
        <3>1. heard' = [heard EXCEPT ![n][msg.to] = Hear(@, msg)]
            BY <1>6, <2>2
        <3> QED BY <1>1, <1>4, <2>1, <2>2, <3>1 DEF After
    <2>3. CASE n # b
        <3>1. heard'[n][a] = heard[n][a]
            BY <1>4, <1>6, <2>1, <2>3
        <3> QED BY <1>4, <2>3, <3>1 DEF After
    <2> QED BY <2>2, <2>3
<1>8. AllTold(queue)'
    <2>1. ASSUME NEW n \in connections \cap fresh, NEW a \in Address \ {n}
          PROVE  Told(Tail(queue), n, a, heard'[n][a], OfferedTo(n, min_rtt[a]))
        <3>1. Quiet("event", n, a, Head(queue))
            BY <1>1, QuietKind DEF RouteKind
        <3>2. Told(queue, n, a, heard[n][a], OfferedTo(n, min_rtt[a]))
            BY DEF Settling, AllTold
        <3> QED BY <1>1, <1>7, <3>1, <3>2, ToldHead
    <2> QED BY <1>5, <2>1 DEF AllTold, routeVars
<1>9. AllHealed(queue, min_rtt)' /\ MinExact'
    <2>1. AllHealed(Tail(queue), min_rtt)
        BY <1>1, HeadHeals
    <2> QED BY <1>5, <2>1 DEF AllHealed, MinExact, Settling, routeVars
<1> QED BY <1>8, <1>9 DEF Settling

\* The packets an event makes are one for each neighbour that it is news to.
LEMMA RouteEventSettles ==
    ASSUME IInv, IInv', Settling, OnRouteEvent
    PROVE  Settling'
<1> DEFINE e == Head(queue)
           told(n) == NotificationFor(n, e)
           to == {n \in connections : told(n) # NoMessage}
           to_ == SetToSeq(to)
           t == [i \in 1..Cardinality(to) |-> OutgoingMessage(to_[i], told(to_[i]))]
<1>1. queue # <<>> /\ queue \in Seq(RootEvent) /\ e.kind \in RouteKind
    BY DEF OnRouteEvent, IInv, QueueOK, RouteKind
<1>2. e \in RouteEvent
    BY <1>1, KindOf, TailFacts DEF RouteKind
<1>3. queue' = Tail(queue) \o t /\ UNCHANGED <<routeVars, connections, heard, fresh>>
    BY DEF OnRouteEvent, Notified
<1>4. IsFiniteSet(to)
    <2>1. to \in SUBSET Address /\ IsFiniteSet(Address)
        BY DEF IInv, QueueOK
    <2> QED BY <2>1, FS_Subset
<1>5. /\ Cardinality(to) \in Nat /\ to_ \in [1..Cardinality(to) -> to]
      /\ \A i, j \in 1..Cardinality(to) : to_[i] = to_[j] => i = j
      /\ \A x \in to : \E i \in 1..Cardinality(to) : to_[i] = x
    <2> HIDE DEF to
    <2> QED BY <1>4, SetToSeqOnto
<1>6. \A n \in to : told(n) \in Message /\ told(n).to = e.to /\ n \in Neighbour
    <2>1. \A n \in to : told(n) \in Message /\ n \in Neighbour
        BY <1>2, NotificationType DEF IInv, QueueOK
    <2>2. \A n \in to : told(n).to = e.to
        BY DEF NotificationFor, update_for, AddForwarded, RemoveForwarded, UpdatedForwardedRtt
    <2> QED BY <2>1, <2>2
<1> HIDE DEF told, to_, e
<1>7. /\ Len(t) = Cardinality(to)
      /\ \A i \in 1..Len(t) : /\ t[i] = OutgoingMessage(to_[i], told(to_[i])) /\ to_[i] \in to
    <2> HIDE DEF to
    <2>1. Len(t) = Cardinality(to) /\ DOMAIN t = 1..Cardinality(to)
        BY <1>5
    <2> QED BY <1>5, <2>1
<1>8. t \in Seq(RootEvent)
    <2>1. \A i \in 1..Cardinality(to) : OutgoingMessage(to_[i], told(to_[i])) \in RootEvent
        <3>1. \A i \in 1..Cardinality(to) : to_[i] \in to
            BY <1>5
        <3>2. \A n \in Neighbour, msg \in Message : OutgoingMessage(n, msg) \in RootEvent
            BY DEF Outgoing, RootEvent
        <3> QED BY <1>6, <3>1, <3>2
    <2> HIDE DEF to
    <2> QED BY <1>5, <2>1
<1> HIDE DEF t, to
<1>9. \A i \in 1..Len(t) : t[i].kind = "OutgoingMessage" /\ t[i].to = to_[i] /\ t[i].message = told(to_[i])
    BY <1>7 DEF OutgoingMessage
<1>10. \A n, a : AllQuiet("event", n, a, t)
    BY <1>8, <1>9, PacketsQuiet
<1>11. ASSUME NEW n \in connections, NEW a, NEW w, Along("packet", n, a, w, t, 0)
       PROVE  w[Len(t)] = After("event", n, a, w[0], e)
    <2>1. \A i \in 1..Len(t) : t[i].message.to = e.to
        BY <1>6, <1>7, <1>9
    <2>2. After("event", n, a, w[0], e) = IF e.to = a THEN Hear(w[0], told(n)) ELSE w[0]
        BY <1>1 DEF After, told, e
    <2>3. CASE e.to = a /\ n \in to
        <3>1. PICK i \in 1..Len(t) : to_[i] = n
            BY <1>5, <1>7, <2>3
        <3>2. \A j \in 1..Len(t) : j # i => t[j].to # n
            BY <1>5, <1>7, <1>9, <3>1
        <3>3. \A j \in 1..Len(t) : j # i => Quiet("packet", n, a, t[j])
            BY <1>9, <3>2, QuietKind
        <3>4. w[Len(t)] = After("packet", n, a, w[0], t[i])
            BY <1>8, <1>11, <3>3, AlongOnce
        <3>5. After("packet", n, a, w[0], t[i]) = Hear(w[0], told(n))
            BY <1>9, <2>1, <2>3, <3>1 DEF After
        <3> QED BY <2>2, <2>3, <3>4, <3>5
    <2>4. CASE ~(e.to = a /\ n \in to)
        <3>1. ASSUME NEW i \in 1..Len(t) PROVE Quiet("packet", n, a, t[i])
            <4>1. t[i].to # n \/ t[i].message.to # a
                BY <1>7, <1>9, <2>1, <2>4
            <4> QED BY <1>9, <4>1, QuietKind
        <3>2. \A l \in (0 + 1)..Len(t) : l \in 1..Len(t) /\ w[l] = After("packet", n, a, w[l - 1], t[l])
            BY <1>11 DEF Along
        <3>3. \A l \in (0 + 1)..Len(t) : w[l] = w[l - 1]
            BY <3>1, <3>2 DEF Quiet
        <3>4. w[Len(t)] = w[0]
            <4>1. Len(t) \in Nat /\ 0 <= Len(t)
                BY <1>8
            <4> QED BY <3>3, <4>1, Constant
        <3>5. e.to = a => Hear(w[0], told(n)) = w[0]
            <4>1. e.to = a => told(n) = NoMessage
                BY <2>4 DEF to
            <4> QED BY <4>1 DEF Hear, NoMessage
        <3> QED BY <2>2, <3>4, <3>5
    <2> QED BY <2>3, <2>4
<1>12. AllTold(queue)'
    <2>1. ASSUME NEW n \in connections \cap fresh, NEW a \in Address \ {n}
          PROVE  Told(Tail(queue) \o t, n, a, heard[n][a], OfferedTo(n, min_rtt[a]))
        <3>1. Quiet("packet", n, a, Head(queue))
            BY <1>1, QuietKind DEF e
        <3>2. Told(queue, n, a, heard[n][a], OfferedTo(n, min_rtt[a]))
            BY DEF Settling, AllTold
        <3>3. \A w : Along("packet", n, a, w, t, 0) => w[Len(t)] = After("event", n, a, w[0], Head(queue))
            BY <1>11 DEF e
        <3> QED BY <1>1, <1>8, <1>10, <3>1, <3>2, <3>3, ToldEvent
    <2> QED BY <1>3, <2>1 DEF AllTold, routeVars
<1>13. AllHealed(queue, min_rtt)' /\ MinExact'
    <2>1. AllHealed(Tail(queue), min_rtt) /\ Tail(queue) \in Seq(RootEvent)
        BY <1>1, HeadHeals
    <2>2. AllHealed(Tail(queue) \o t, min_rtt)
        BY <1>8, <1>10, <2>1, HealedQuiet DEF AllHealed
    <2> QED BY <1>3, <2>2 DEF AllHealed, MinExact, Settling, routeVars
<1> QED BY <1>12, <1>13 DEF Settling

\* A new neighbour b gets a list of the routes there are now, behind events of the
\* past that it has yet to be told of.
LEMMA AddDirectSettles ==
    ASSUME IInv, IInv', Settling, NEW b \in Neighbour, NEW d \in Rtt, add_direct(b, d)
    PROVE  Settling'
<1> DEFINE listed(a) == LET rtt == OfferedTo(b, min_rtt'[a])
                        IN  IF rtt = None THEN NoMessage ELSE AddForwarded(a, rtt)
           S == {a \in Address : listed(a) # NoMessage}
           known == SetToSeq(S)
           t == [i \in DOMAIN known |-> OutgoingMessage(b, listed(known[i]))]
<1>1. PICK m \in MinRtt :
          /\ IncRoute(b, Direct, d, m)
          /\ queue' = queue \o Sent(IncEvents(b, via[b], Direct, d, min_rtt[b], m)) \o t
    BY DEF add_direct
<1>2. /\ connections' = connections \cup {b} /\ heard' = [heard EXCEPT ![b] = [a \in Address |-> None]]
      /\ fresh' \subseteq fresh \cup {b}
      /\ b \in fresh' => \A i \in DOMAIN queue : queue[i].kind = "OutgoingMessage" => queue[i].to # b
    BY DEF add_direct
<1> DEFINE ev == IncEvents(b, via[b], Direct, d, min_rtt[b], m)
           q == queue \o Sent(ev)
<1>3. /\ b \in Address /\ Direct \in Via /\ RouteTypeOK /\ RouteTypeOK' /\ via[b] \in RouteMap
      /\ min_rtt[b] \in MinRtt /\ queue \in Seq(RootEvent) /\ connections \subseteq Address
      /\ heard \in [Address -> [Address -> RttOption]]
    BY DEF IInv, RouteTypeOK, QueueOK, Via
<1>4. ev.list \in RouteEvent \cup {NoEvent} /\ ev.min \in Changed \cup {NoEvent}
      /\ (ev.list # NoEvent => ev.list.to = b) /\ (ev.min # NoEvent => ev.min.to = b)
    <2>1. ev.list \in RouteEvent \cup {NoEvent} /\ ev.min \in Changed \cup {NoEvent}
        BY <1>3, IncEventsType
    <2>2. (ev.list # NoEvent => ev.list.to = b) /\ (ev.min # NoEvent => ev.min.to = b)
        BY EventsAbout
    <2> QED BY <2>1, <2>2
<1>5. /\ MinExact' /\ min_rtt' = [min_rtt EXCEPT ![b] = m]
      /\ \A n \in Address \ {b} : Heals(n, OfferedTo(n, min_rtt[b]), OfferedTo(n, m), ev)
    BY <1>1, <1>3, IncHeals DEF Settling
<1>6. queue' = q \o t
    BY <1>1
<1> HIDE DEF ev
<1>7. Sent(ev) \in Seq(RootEvent) /\ q \in Seq(RootEvent)
    BY <1>3, <1>4, SentType
<1>8. /\ AllHealed(q, min_rtt')
      /\ \A n \in Address : \A a \in Address \ {n} : \A h :
             Told(queue, n, a, h, OfferedTo(n, min_rtt[a])) => Told(q, n, a, h, OfferedTo(n, min_rtt'[a]))
    BY <1>3, <1>4, <1>5, ChangeHeals DEF Settling
<1>9. \A a \in S : /\ listed(a) = AddForwarded(a, OfferedTo(b, min_rtt'[a]))
                   /\ listed(a) \in Message /\ OutgoingMessage(b, listed(a)) \in RootEvent
    <2> SUFFICES ASSUME NEW a \in S
                 PROVE  /\ listed(a) = AddForwarded(a, OfferedTo(b, min_rtt'[a]))
                        /\ listed(a) \in Message /\ OutgoingMessage(b, listed(a)) \in RootEvent
        OBVIOUS
    <2>1. min_rtt'[a] \in MinRtt
        BY <1>3 DEF RouteTypeOK
    <2>2. OfferedTo(b, min_rtt'[a]) \in Rtt /\ listed(a) = AddForwarded(a, OfferedTo(b, min_rtt'[a]))
        BY <2>1 DEF OfferedTo, MinRtt, RttOption
    <2>3. listed(a) \in Message
        BY <2>2 DEF Message
    <2>4. \A msg \in Message : OutgoingMessage(b, msg) \in RootEvent
        BY DEF Outgoing, RootEvent
    <2> HIDE DEF listed
    <2> QED BY <2>2, <2>3, <2>4
<1>10. \A a \in Address \ S : OfferedTo(b, min_rtt'[a]) = None
    BY DEF AddForwarded, NoMessage
<1>11. /\ Cardinality(S) \in Nat /\ known \in [1..Cardinality(S) -> S]
       /\ \A i, j \in 1..Cardinality(S) : known[i] = known[j] => i = j
       /\ \A x \in S : \E i \in 1..Cardinality(S) : known[i] = x
    <2>1. IsFiniteSet(S)
        <3>1. S \in SUBSET Address /\ IsFiniteSet(Address)
            OBVIOUS
        <3> QED BY <3>1, FS_Subset
    <2> HIDE DEF S
    <2> QED BY <2>1, SetToSeqOnto
<1> HIDE DEF listed, known, S
<1>12. DOMAIN known = 1..Cardinality(S) /\ Len(t) = Cardinality(S) /\ t \in Seq(RootEvent)
    <2>1. DOMAIN known = 1..Cardinality(S) /\ \A i \in DOMAIN known : known[i] \in S
        BY <1>11
    <2> QED BY <1>9, <1>11, <2>1
<1>13. \A i \in 1..Len(t) : /\ t[i].kind = "OutgoingMessage" /\ t[i].to = b /\ known[i] \in S
                            /\ t[i].message = AddForwarded(known[i], OfferedTo(b, min_rtt'[known[i]]))
    <2>1. \A i \in 1..Len(t) : t[i] = OutgoingMessage(b, listed(known[i])) /\ known[i] \in S
        BY <1>11, <1>12
    <2> SUFFICES ASSUME NEW i \in 1..Len(t)
                 PROVE  /\ t[i].kind = "OutgoingMessage" /\ t[i].to = b /\ known[i] \in S
                        /\ t[i].message = AddForwarded(known[i], OfferedTo(b, min_rtt'[known[i]]))
        OBVIOUS
    <2>2. t[i] = OutgoingMessage(b, listed(known[i])) /\ known[i] \in S
        BY <2>1
    <2>3. listed(known[i]) = AddForwarded(known[i], OfferedTo(b, min_rtt'[known[i]]))
        BY <1>9, <2>2
    <2> QED BY <2>2, <2>3 DEF OutgoingMessage
<1> HIDE DEF t
<1>14. \A i \in 1..Len(t) : t[i].message.to = known[i]
    <2>1. \A a, h : AddForwarded(a, h).to = a
        BY DEF AddForwarded
    <2> QED BY <1>13, <2>1
<1>15. \A n, a : AllQuiet("event", n, a, t)
    BY <1>12, <1>13, PacketsQuiet
<1>16. \A n, a : n # b => AllQuiet("packet", n, a, t)
    BY <1>13, QuietKind DEF AllQuiet
<1> HIDE DEF q
<1>17. AllHealed(queue, min_rtt)'
    <2>1. AllHealed(q \o t, min_rtt')
        BY <1>7, <1>8, <1>12, <1>15, HealedQuiet DEF AllHealed
    <2> QED BY <1>6, <2>1 DEF AllHealed
<1>18. ASSUME NEW n \in connections' \cap fresh', NEW a \in Address \ {n}
       PROVE  Told(q \o t, n, a, heard'[n][a], OfferedTo(n, min_rtt'[a]))
    <2>1. CASE n # b
        <3>1. n \in connections \cap fresh /\ n \in Address /\ heard'[n][a] = heard[n][a]
            BY <1>2, <1>3, <1>18, <2>1
        <3>2. Told(queue, n, a, heard[n][a], OfferedTo(n, min_rtt[a]))
            BY <3>1 DEF Settling, AllTold
        <3>3. Told(q, n, a, heard[n][a], OfferedTo(n, min_rtt'[a]))
            BY <1>8, <3>1, <3>2
        <3> QED BY <1>7, <1>12, <1>15, <1>16, <2>1, <3>1, <3>3, ToldQuiet
    <2>2. CASE n = b
        <3>1. heard'[n][a] = None
            BY <1>2, <1>3, <2>2
        <3>2. AllQuiet("packet", n, a, q)
            <4>1. AllQuiet("packet", n, a, Sent(ev))
                BY <1>4, SentQuiet
            <4>2. ASSUME NEW i \in 1..Len(queue) PROVE Quiet("packet", n, a, queue[i])
                <5>1. queue[i].kind = "OutgoingMessage" => queue[i].to # n
                    BY <1>2, <1>3, <1>18, <2>2
                <5> QED BY <5>1, QuietKind
            <4>3. ASSUME NEW i \in 1..Len(q) PROVE Quiet("packet", n, a, q[i])
                <5>1. CASE i <= Len(queue)
                    <6>1. i \in 1..Len(queue) /\ q[i] = queue[i]
                        BY <1>3, <1>7, <5>1, ConcatFacts DEF q
                    <6> QED BY <4>2, <6>1
                <5>2. CASE ~(i <= Len(queue))
                    <6>1. i - Len(queue) \in 1..Len(Sent(ev)) /\ i = Len(queue) + (i - Len(queue))
                        BY <1>3, <1>7, <5>2, ConcatFacts DEF q
                    <6>2. q[i] = Sent(ev)[i - Len(queue)]
                        BY <1>3, <1>7, <6>1, ConcatFacts DEF q
                    <6> QED BY <4>1, <6>1, <6>2 DEF AllQuiet
                <5> QED BY <5>1, <5>2
            <4> QED BY <4>3 DEF AllQuiet
        <3>3. Healed(q, n, a, OfferedTo(n, min_rtt'[a]))
            BY <1>3, <1>8, <2>2 DEF AllHealed
        <3>4. ASSUME NEW w, w[0] = None, Along("packet", n, a, w, t, 0)
              PROVE  w[Len(t)] = OfferedTo(n, min_rtt'[a])
            <4>1. CASE a \in S
                <5>1. PICK i \in 1..Len(t) : known[i] = a
                    BY <1>11, <1>12, <4>1
                <5>2. \A j \in 1..Len(t) : j # i => known[j] # a /\ t[j].message.to # a
                    BY <1>11, <1>12, <1>14, <5>1
                <5>3. \A j \in 1..Len(t) : j # i => Quiet("packet", n, a, t[j])
                    BY <1>13, <5>2, QuietKind
                <5>4. w[Len(t)] = After("packet", n, a, w[0], t[i])
                    BY <1>12, <3>4, <5>3, AlongOnce
                <5>5. t[i].message = AddForwarded(a, OfferedTo(b, min_rtt'[a])) /\ t[i].to = n
                      /\ t[i].kind = "OutgoingMessage"
                    BY <1>13, <2>2, <5>1
                <5>6. After("packet", n, a, w[0], t[i]) = OfferedTo(b, min_rtt'[a])
                    BY <3>4, <5>5 DEF After, Hear, AddForwarded
                <5> QED BY <2>2, <5>4, <5>6
            <4>2. CASE a \notin S
                <5>1. \A i \in 1..Len(t) : t[i].message.to # a
                    BY <1>13, <1>14, <4>2
                <5>2. \A i \in 1..Len(t) : Quiet("packet", n, a, t[i])
                    BY <1>13, <5>1, QuietKind
                <5>3. \A l \in (0 + 1)..Len(t) : l \in 1..Len(t) /\ w[l] = After("packet", n, a, w[l - 1], t[l])
                    BY <3>4 DEF Along
                <5>4. \A l \in (0 + 1)..Len(t) : w[l] = w[l - 1]
                    BY <5>2, <5>3 DEF Quiet
                <5>5. w[Len(t)] = w[0]
                    <6>1. Len(t) \in Nat /\ 0 <= Len(t)
                        BY <1>12
                    <6> QED BY <5>4, <6>1, Constant
                <5> QED BY <1>10, <2>2, <3>4, <4>2, <5>5
            <4> QED BY <4>1, <4>2
        <3>5. Told(q \o t, n, a, None, OfferedTo(n, min_rtt'[a]))
            BY <1>7, <1>12, <1>15, <3>2, <3>3, <3>4, NewTold
        <3> QED BY <3>1, <3>5
    <2> QED BY <2>1, <2>2
<1>19. AllTold(queue)'
    BY <1>6, <1>18 DEF AllTold
<1> QED BY <1>5, <1>17, <1>19 DEF Settling

LEMMA InitSettles == Init => Settling
<1> SUFFICES ASSUME Init PROVE Settling
    OBVIOUS
<1>1. queue = <<>> /\ connections = {} /\ Len(queue) = 0
    BY DEF Init
<1>2. MinExact
    <2>1. NoRoutes \in RouteMap /\ Vias(NoRoutes) = {}
        BY DEF NoRoutes, RouteMap, RttOption, Vias
    <2>2. NoMin \in MinRttsOf(NoRoutes)
        BY <2>1, EmptyMin
    <2> QED BY <2>2 DEF Init, RouteInit, MinExact
<1>3. AllHealed(queue, min_rtt)
    BY <1>1 DEF AllHealed, Healed
<1> QED BY <1>1, <1>2, <1>3 DEF Settling, AllTold

LEMMA NextSettles == IInv /\ IInv' /\ Settling /\ [Next]_vars => Settling'
<1> SUFFICES ASSUME IInv, IInv', Settling, [Next]_vars PROVE Settling'
    OBVIOUS
<1>1. ASSUME NEW n \in Neighbour, NEW d \in Rtt, add_direct(n, d) PROVE Settling'
    BY <1>1, AddDirectSettles
<1>2. ASSUME NEW n \in Neighbour, remove_direct(n) PROVE Settling'
    <2>1. RemoveDirect(n, queue) /\ queue \in Seq(RootEvent)
        BY <1>2 DEF remove_direct, IInv, QueueOK
    <2> QED BY <2>1, RemoveDirectSettles DEF Settling
<1>3. ASSUME NEW n \in Neighbour, NEW msg \in Message, PortMessage(n, msg) PROVE Settling'
    <2>1. ConnectionMessage(n, msg) \in RootEvent
        BY DEF Incoming, RootEvent
    <2>2. ConnectionMessage(n, msg).kind = "ConnectionMessage"
        BY DEF ConnectionMessage
    <2>3. /\ queue' = Append(queue, ConnectionMessage(n, msg))
          /\ UNCHANGED <<routeVars, connections, heard, fresh>>
        BY <1>3 DEF PortMessage
    <2> QED BY <2>1, <2>2, <2>3, ReaderSettles
<1>4. ASSUME NEW n \in Neighbour, PortEnds(n) PROVE Settling'
    <2>1. ConnectionEnding(n) \in RootEvent
        BY DEF Ending, RootEvent
    <2>2. ConnectionEnding(n).kind = "ConnectionEnding"
        BY DEF ConnectionEnding
    <2>3. /\ queue' = Append(queue, ConnectionEnding(n))
          /\ UNCHANGED <<routeVars, connections, heard, fresh>>
        BY <1>4 DEF PortEnds
    <2> QED BY <2>1, <2>2, <2>3, ReaderSettles
<1>5. ASSUME UNCHANGED <<routeVars, connections, queue, heard, fresh>> PROVE Settling'
    BY <1>5 DEF Settling, MinExact, AllHealed, AllTold, routeVars
<1>6. ASSUME NEW a \in Destination, wait_for_connection_to(a) PROVE Settling'
    BY <1>5, <1>6 DEF wait_for_connection_to
<1>7. CASE Worker
    BY <1>7, ConnectionMessageSettles, ConnectionEndingSettles, OutgoingMessageSettles,
       RouteEventSettles DEF Worker
<1>8. CASE UNCHANGED vars
    BY <1>5, <1>8 DEF vars, nodeVars
<1>9. \A a \in Destination, d \in Rtt : AddForwarded(a, d) \in Message
    BY DEF Message
<1>10. \A a \in Destination : RemoveForwarded(a) \in Message
    BY DEF Message
<1> QED BY <1>1, <1>2, <1>3, <1>4, <1>6, <1>7, <1>8, <1>9, <1>10 DEF Next

\* With nothing left in the queue the neighbour holds what it is offered.
LEMMA SettlingSettled == IInv /\ Settling => SettledExact
<1> SUFFICES ASSUME IInv, Settling, queue = <<>>,
                    NEW n \in connections \cap fresh, NEW a \in Address \ {n}
             PROVE  IsBest(via[a], Via \ {n}, heard[n][a])
    BY DEF SettledExact
<1> DEFINE o == OfferedTo(n, min_rtt[a])
           r == [i \in {0} |-> heard[n][a]]
<1>1. Told(queue, n, a, heard[n][a], o)
    BY DEF Settling, AllTold
<1>2. Len(queue) = 0 /\ r[0] = heard[n][a]
    OBVIOUS
<1> HIDE DEF r, o
<1>3. Along("packet", n, a, r, queue, 0) /\ Along("event", n, a, r, queue, 0)
    BY <1>2 DEF Along
<1>4. heard[n][a] = o
    BY <1>1, <1>2, <1>3 DEF Told
<1>5. via[a] \in RouteMap /\ min_rtt[a] \in MinRttsOf(via[a]) /\ n \in Via
    BY DEF IInv, RouteTypeOK, Settling, MinExact, QueueOK, Via
<1> QED BY <1>4, <1>5, OfferedIsBest DEF o

-----------------------------------------------------------------------------
(* The theorems.                                                             *)

LEMMA SpecIInv == Spec => []IInv
BY InitIInv, NextIInv, PTL DEF Spec

\* The variables keep their types, and every packet of the queue goes to a neighbour.
THEOREM SpecTypeOK == Spec => []TypeOK
<1>1. ASSUME IInv PROVE TypeOK
    <2>1. \A i \in DOMAIN queue : queue[i] \in RootEvent
        BY <1>1 DEF IInv, QueueOK
    <2>2. \A i \in DOMAIN queue : queue[i].kind = "OutgoingMessage" => queue[i].to \in Neighbour
        BY <2>1, KindOf DEF OutgoingMessage
    <2> QED BY <1>1, <2>2 DEF IInv, QueueOK, TypeOK
<1>2. IInv => TypeOK
    BY <1>1
<1> QED BY <1>2, SpecIInv, PTL

\* Connections, direct routes and the inverse index agree after every step of a
\* caller, a reader or the worker: no assert! of route.rs fails (rpc.rs 165-172 and
\* 226-237).
THEOREM SpecDirectIffConnected == Spec => []DirectIffConnected
<1>1. IInv => DirectIffConnected
    BY DEF IInv
<1> QED BY <1>1, SpecIInv, PTL

\* Whoever waits for an address with a route has the wake-up in the queue (rpc.rs
\* 742-758).
THEOREM SpecNoLostWakeup == Spec => []NoLostWakeup
<1>1. IInv => NoLostWakeup
    BY DEF IInv
<1> QED BY <1>1, SpecIInv, PTL

\* A neighbour whose connection began with no packet for an earlier one under way
\* holds, once the queue is drained, the best route around itself to every address,
\* in whatever order add_direct's list and the events overtook each other (rpc.rs
\* 150-200 and 567-657).
THEOREM SpecSettledExact == Spec => []SettledExact
<1>1. Spec => []Settling
    BY InitSettles, NextSettles, SpecIInv, PTL DEF Spec
<1> QED BY <1>1, SettlingSettled, SpecIInv, PTL
=============================================================================
