------------------------------ MODULE RouteSet ------------------------------
(* The routing table of one bifrostlink node: RouteSet and InverseRouteSet   *)
(* of bifrostlink/src/route.rs.                                              *)
EXTENDS RouteEvents

VARIABLES via,       \* via[a][v]: the rtt of the route to a over v (AddressData.via)
          min_rtt,   \* min_rtt[a]: the cached AddressData.min_rtt
          inverse,   \* inverse[v]: the addresses routed over v (InverseRouteSet)
          panicked   \* an assert! of InverseRouteSet has failed

routeVars == <<via, min_rtt, inverse, panicked>>

RouteInit ==
    /\ via = [a \in Address |-> NoRoutes]
    /\ min_rtt = [a \in Address |-> NoMin]
    /\ inverse = [v \in Via |-> {}]
    /\ panicked = FALSE

\* InverseRouteSet::inc and ::dec with their assert!s.
InverseInc(v, a) ==
    /\ panicked' = (a \in inverse[v])
    /\ inverse' = [inverse EXCEPT ![v] = @ \cup {a}]

InverseDec(v, a) ==
    /\ panicked' = (a \notin inverse[v])
    /\ inverse' = [inverse EXCEPT ![v] = @ \ {a}]

\* A new route; m is the minimum update_min_rtt settles on.  A route that is
\* already there is only reported, and nothing changes.
IncRoute(a, v, d, m) ==
    LET r == [via[a] EXCEPT ![v] = d]
    IN  /\ ~panicked
        /\ via[a][v] = None
        /\ m \in MinRttsOf(r)
        /\ via' = [via EXCEPT ![a] = r]
        /\ min_rtt' = [min_rtt EXCEPT ![a] = m]
        /\ InverseInc(v, a)

\* Mutant: the inverse index is forgotten.
DecRouteOnly(a, v, m) ==
    LET r == [via[a] EXCEPT ![v] = None]
    IN  /\ ~panicked
        /\ via[a][v] # None
        /\ m \in IF Vias(r) = {} THEN {NoMin} ELSE MinRttsOf(r)
        /\ via' = [via EXCEPT ![a] = r]
        /\ min_rtt' = [min_rtt EXCEPT ![a] = m]
        /\ UNCHANGED <<inverse, panicked>>

\* A route that is there is removed, with the AddressData when it was the last.
DecRoute(a, v, m) ==
    LET r == [via[a] EXCEPT ![v] = None]
    IN  /\ ~panicked
        /\ via[a][v] # None
        /\ m \in IF Vias(r) = {} THEN {NoMin} ELSE MinRttsOf(r)
        /\ via' = [via EXCEPT ![a] = r]
        /\ min_rtt' = [min_rtt EXCEPT ![a] = m]
        /\ InverseDec(v, a)

\* A new rtt for a route that is there.
UpdateRoute(a, v, d, m) ==
    LET r == [via[a] EXCEPT ![v] = d]
    IN  /\ ~panicked
        /\ via[a][v] # None
        /\ m \in MinRttsOf(r)
        /\ via' = [via EXCEPT ![a] = r]
        /\ min_rtt' = [min_rtt EXCEPT ![a] = m]
        /\ UNCHANGED <<inverse, panicked>>

has(a) == Vias(via[a]) # {}

-----------------------------------------------------------------------------
(* Forwarding decisions.                                                     *)

may_be_forwarder_for(forwarder, sender) ==
    forwarder = sender \/ via[sender][forwarder] # None

\* Direct wins whatever its rtt; else any of the fastest vias not in blacklist.
forwarder_for(a, blacklist) ==
    IF via[a][Direct] # None THEN {Direct}
    ELSE LET open == Vias(via[a]) \ blacklist
         IN  {v \in open : \A w \in open : via[a][v] <= via[a][w]}

-----------------------------------------------------------------------------

RouteTypeOK ==
    /\ via \in [Address -> RouteMap]
    /\ min_rtt \in [Address -> MinRtt]
    /\ inverse \in [Via -> SUBSET Address]
    /\ panicked \in BOOLEAN

\* The inverse index lists exactly the routes of the table, so that none of the
\* "inverse imbalance" assert!s of route.rs can fail.
InverseBalanced ==
    /\ ~panicked
    /\ \A v \in Via : inverse[v] = {a \in Address : via[a][v] # None}

\* The cached minimum (a via, its rtt, and the best rtt over the other vias) is
\* the one update_min_rtt would compute from the routes there are.
MinExact == \A a \in Address : min_rtt[a] \in MinRttsOf(via[a])
=============================================================================
