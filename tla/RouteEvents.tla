---------------------------- MODULE RouteEvents ----------------------------
(* The routes a bifrostlink node keeps to one address (AddressData of        *)
(* bifrostlink/src/route.rs), the events a change of them raises, and the    *)
(* notification the worker of rpc.rs sends a neighbour for each event.       *)
(* Everything here is a constant-level operator: r is the `via` map of one   *)
(* address (None marks a missing key), old and m are its cached MinRtt       *)
(* before and after the change.                                              *)
EXTENDS Integers

CONSTANTS Address,   \* the nodes that can be named
          Direct,    \* Via::Direct
          Rtt,       \* the round-trip times in use
          None       \* Option::None, and a missing map entry

ASSUME RttAssumption == Rtt \subseteq Nat
ASSUME NoneAssumption == None \notin Nat
ASSUME DirectAssumption == Direct \notin Address

Via == Address \cup {Direct}
RttOption == Rtt \cup {None}
RouteMap == [Via -> RttOption]
MinRtt == [via : Via, rtt : RttOption, second_best : RttOption]

NoRoutes == [v \in Via |-> None]
\* What stands for the cached MinRtt of an address with no AddressData.
NoMin == [via |-> Direct, rtt |-> None, second_best |-> None]

Vias(r) == {v \in Via : r[v] # None}
IsSingle(r) == \E v \in Via : Vias(r) = {v}
OnlyVia(r) == CHOOSE v \in Via : r[v] # None

\* s is the least round-trip time of r over the vias in S, None if there is none.
IsBest(r, S, s) ==
    IF s = None THEN \A v \in S : r[v] = None
    ELSE /\ \E v \in S : r[v] = s
         /\ \A v \in S : r[v] # None => s <= r[v]

\* update_min_rtt takes the first minimum in the order of a HashMap, so any of
\* the vias that tie for it may be the one that is cached.
MinRttsOf(r) ==
    {m \in MinRtt : /\ m.rtt = r[m.via]
                    /\ IsBest(r, Via, m.rtt)
                    /\ IsBest(r, Via \ {m.via}, m.second_best)}

-----------------------------------------------------------------------------
(* The events (route.rs 38-70).                                              *)

NoEvent == [kind |-> "NoEvent"]
ConnectionAdded(a, v, d) == [kind |-> "ConnectionAdded", to |-> a, via |-> v, rtt |-> d]
ConnectionRemoved(a, v) == [kind |-> "ConnectionRemoved", to |-> a, via |-> v]
ViaListSeconded(a, v, d) ==
    [kind |-> "ViaListSeconded", to |-> a, via |-> v, rtt |-> d]
ViaListUnseconded(a, v) == [kind |-> "ViaListUnseconded", to |-> a, via |-> v]
MinRttUpdated(a, old, m) ==
    IF m = old THEN NoEvent
    ELSE [kind |-> "MinRttUpdated", to |-> a, rtt |-> m,
          first_changed |-> m.rtt # old.rtt \/ m.via # old.via,
          second_changed |-> m.second_best # old.second_best \/ m.via # old.via]

Least(x, y) == IF x <= y THEN x ELSE y

\* An operation raises at most one event about the list of vias and, after it,
\* at most one about the minimum.
\* Mutant: the second via is told of itself instead of the first.
IncEventsToAdded(a, r, v, d, old, m) ==
    IF Vias(r) = {}
    THEN [list |-> ConnectionAdded(a, v, d), min |-> NoEvent]
    ELSE [list |-> IF IsSingle(r)
                   THEN ViaListSeconded(a, v, Least(d, r[OnlyVia(r)]))
                   ELSE NoEvent,
          min |-> MinRttUpdated(a, old, m)]

IncEvents(a, r, v, d, old, m) ==
    IF Vias(r) = {}
    THEN [list |-> ConnectionAdded(a, v, d), min |-> NoEvent]
    ELSE [list |-> IF IsSingle(r)
                   THEN ViaListSeconded(a, OnlyVia(r), Least(d, r[OnlyVia(r)]))
                   ELSE NoEvent,
          min |-> MinRttUpdated(a, old, m)]

\* Mutant: the minimum is not looked at again when a route goes.
DecEventsKeepMin(a, r, v, old, m) ==
    LET left == [r EXCEPT ![v] = None]
    IN  IF Vias(left) = {}
        THEN [list |-> ConnectionRemoved(a, v), min |-> NoEvent]
        ELSE [list |-> IF IsSingle(left) THEN ViaListUnseconded(a, OnlyVia(left))
                                         ELSE NoEvent,
              min |-> NoEvent]

DecEvents(a, r, v, old, m) ==
    LET left == [r EXCEPT ![v] = None]
    IN  IF Vias(left) = {}
        THEN [list |-> ConnectionRemoved(a, v), min |-> NoEvent]
        ELSE [list |-> IF IsSingle(left) THEN ViaListUnseconded(a, OnlyVia(left))
                                         ELSE NoEvent,
              min |-> MinRttUpdated(a, old, m)]

UpdateEvents(a, old, m) == [list |-> NoEvent, min |-> MinRttUpdated(a, old, m)]

-----------------------------------------------------------------------------
(* What the worker tells a neighbour (rpc.rs 567-657), and what a neighbour  *)
(* that follows the protocol then believes.                                  *)

NoMessage == [kind |-> "NoMessage"]
AddForwarded(a, d) == [kind |-> "AddForwarded", to |-> a, rtt |-> d]
RemoveForwarded(a) == [kind |-> "RemoveForwarded", to |-> a]
UpdatedForwardedRtt(a, d) == [kind |-> "UpdatedForwardedRtt", to |-> a, rtt |-> d]

\* Mutant: the best route, through n or not.
OfferedAnyway(n, m) == m.rtt

\* The route a neighbour n is offered: the best one that does not go through n.
OfferedTo(n, m) == IF m.via = n THEN m.second_best ELSE m.rtt

\* Mutant: only a change of the first best counts.
update_for_first(n, e) ==
    IF OfferedTo(n, e.rtt) # None /\ e.first_changed
    THEN UpdatedForwardedRtt(e.to, OfferedTo(n, e.rtt))
    ELSE NoMessage

update_for(n, e) ==
    IF /\ OfferedTo(n, e.rtt) # None
       /\ IF e.rtt.via = n THEN e.second_changed ELSE e.first_changed
    THEN UpdatedForwardedRtt(e.to, OfferedTo(n, e.rtt))
    ELSE NoMessage

\* Mutants: the neighbour a route leads through is told of it; nobody is told of
\* a second route.
ConcernsVia(n, e) ==
    \/ e.kind \in {"ConnectionAdded", "ConnectionRemoved"} /\ n # e.to
    \/ e.kind \in {"ViaListSeconded", "ViaListUnseconded"} /\ n = e.via
ConcernsFirst(n, e) ==
    e.kind \in {"ConnectionAdded", "ConnectionRemoved"} /\ n # e.to /\ n # e.via

\* A first or last route is news to everyone but its target and the neighbour it
\* leads through; a second route or the loss of it only to the one neighbour the
\* other route leads through.
Concerns(n, e) ==
    \/ e.kind \in {"ConnectionAdded", "ConnectionRemoved"} /\ n # e.to /\ n # e.via
    \/ e.kind \in {"ViaListSeconded", "ViaListUnseconded"} /\ n = e.via

NotificationFor(n, e) ==
    IF e.kind = "MinRttUpdated" THEN update_for(n, e)
    ELSE IF ~Concerns(n, e) THEN NoMessage
    ELSE IF e.kind \in {"ConnectionAdded", "ViaListSeconded"} THEN AddForwarded(e.to, e.rtt)
    ELSE RemoveForwarded(e.to)

\* Mutant: round-trip times are added up.
HearSum(h, msg) ==
    IF msg.kind = "RemoveForwarded" THEN None
    ELSE IF msg.kind = "AddForwarded" /\ h = None THEN msg.rtt
    ELSE IF msg.kind = "UpdatedForwardedRtt" /\ h # None THEN h + msg.rtt
    ELSE h

\* The receiver's belief h (a Rtt, or None) about the announced address: its
\* inc ignores a second announcement, its update an unknown route.
Hear(h, msg) ==
    IF msg.kind = "RemoveForwarded" THEN None
    ELSE IF \/ msg.kind = "AddForwarded" /\ h = None
            \/ msg.kind = "UpdatedForwardedRtt" /\ h # None
         THEN msg.rtt
         ELSE h

HearEvents(n, h, ev) ==
    Hear(Hear(h, NotificationFor(n, ev.list)), NotificationFor(n, ev.min))
=============================================================================
