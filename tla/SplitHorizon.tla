---------------------------- MODULE SplitHorizon ----------------------------
(* What a bifrostlink node promises its neighbours: whatever happens to its  *)
(* routes, each neighbour is offered the best route to every address that    *)
(* does not lead back through that neighbour.  There are no events, no       *)
(* cached minimum and no notifications here; Announce implements it.         *)
EXTENDS RouteEvents

VARIABLES via,     \* via[a][v]: the rtt of the route to a over v
          offer    \* offer[n][a]: the route to a that n knows of through this node

vars == <<via, offer>>

Init == /\ via = [a \in Address |-> NoRoutes]
        /\ offer = [n \in Address |-> [a \in Address |-> None]]

\* One route to a is found, changed or lost, and in the same step every
\* neighbour but a itself holds what is now best.  Nothing is heard of any other
\* address.
Change(a, v, d) ==
    /\ via' = [via EXCEPT ![a][v] = d]
    /\ offer' \in [Address -> [Address -> RttOption]]
    /\ \A n \in Address : \A b \in Address :
           IF b = a /\ n # a THEN IsBest(via'[a], Via \ {n}, offer'[n][a])
                             ELSE offer'[n][b] = offer[n][b]

Next == \E a \in Address, v \in Via, d \in RttOption : Change(a, v, d)

Spec == Init /\ [][Next]_vars
=============================================================================
