------------------------------ MODULE Announce ------------------------------
(* What a bifrostlink node's neighbours know of its routes.  Every change of *)
(* the table raises events, and the worker turns each into notifications for *)
(* some of the neighbours; heard[n][a] is what a neighbour n that receives   *)
(* them all, in order, believes about reaching a through this node.  RpcNode *)
(* has the same routes and the queue in between.                             *)
EXTENDS RouteSet

CONSTANT Destination   \* the addresses this node learns routes to
ASSUME DestinationAssumption == Destination \subseteq Address

VARIABLE heard   \* ghost: the routes each neighbour holds over this node

announceVars == <<via, min_rtt, inverse, panicked, heard>>

AnnounceInit ==
    /\ RouteInit
    /\ heard = [n \in Address |-> [a \in Address |-> None]]

Announced(a, ev) ==
    heard' = [n \in Address |->
                [heard[n] EXCEPT ![a] = HearEvents(n, heard[n][a], ev)]]

Inc(a, v, d) ==
    \E m \in MinRtt : /\ IncRoute(a, v, d, m)
                      /\ Announced(a, IncEvents(a, via[a], v, d, min_rtt[a], m))

Dec(a, v) ==
    \E m \in MinRtt : /\ DecRoute(a, v, m)
                      /\ Announced(a, DecEvents(a, via[a], v, min_rtt[a], m))

Update(a, v, d) ==
    \E m \in MinRtt : /\ UpdateRoute(a, v, d, m)
                      /\ Announced(a, UpdateEvents(a, min_rtt[a], m))

AnnounceNext == \E a \in Destination, v \in Via :
            \/ \E d \in Rtt : Inc(a, v, d)
            \/ Dec(a, v)
            \/ \E d \in Rtt : Update(a, v, d)

AnnounceSpec == AnnounceInit /\ [][AnnounceNext]_announceVars

-----------------------------------------------------------------------------

AnnounceTypeOK == /\ RouteTypeOK
          /\ heard \in [Address -> [Address -> RttOption]]

\* Split horizon: every neighbour is offered the best route to each address
\* other than itself that does not lead back through that neighbour, with its
\* exact rtt, and no route when there is none.  (rpc.rs 567-657 with the
\* first_changed/second_changed flags of route.rs 105-115: an event too many or
\* too few leaves a neighbour with a stale or a missing route.)
HeardExact ==
    \A n \in Address : \A a \in Address \ {n} :
        IsBest(via[a], Via \ {n}, heard[n][a])

\* add_direct (rpc.rs 239-249) tells a new neighbour, from the cached minimum
\* alone, what a neighbour that was there all along has heard event by event.
LateJoinerAgrees ==
    \A n \in Address : \A a \in Address \ {n} :
        heard[n][a] = OfferedTo(n, min_rtt[a])

-----------------------------------------------------------------------------
(* What a node hears of itself it has no use for.                            *)

offered == [n \in Address |-> [a \in Address |-> IF n = a THEN None ELSE heard[n][a]]]

SH == INSTANCE SplitHorizon WITH offer <- offered

\* The table with its cached minima, its five kinds of event and the notifications
\* derived from them implements split horizon: every single change of a route
\* brings each neighbour from one exact offer to the next and tells nobody
\* anything about other addresses (route.rs 171-274, rpc.rs 567-657).
ImplementsSplitHorizon == SH!Spec
=============================================================================
