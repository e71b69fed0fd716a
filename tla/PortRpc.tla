------------------------------ MODULE PortRpc ------------------------------
(* One JavaScript node of the extension (addon/rpc.ts): RouteSet,            *)
(* InverseRouteSet, the connection part of PortRpc, and the listener lists   *)
(* and waitForEvent of addon/listener.ts under waitForConnectionTo.          *)
(* Listeners are called synchronously, so a port event, with every           *)
(* notification it causes, is one step.  The routes of an address are a Map, *)
(* whose loop order (the order of insertion) #updateMinRtt depends on.       *)
EXTENDS RouteEvents, Sequences, SequencesExt

CONSTANTS Neighbour,   \* the addresses a port may be opened to
          Target,      \* the addresses neighbours announce
          Waiter       \* the callers of waitForConnectionTo

ASSUME PortRpcAssumption == Neighbour \subseteq Address /\ Target \subseteq Address

VARIABLES routes,      \* routes[a][via]: the rtt of the route to a; Direct is via null
          older,       \* older[a]: the pairs <<v, w>> with v inserted before w
          minRtt,      \* minRtt[a]: None stands for the secondBest Infinity
          inverse,     \* inverse[via]: the addresses routed over via
          imbalance,   \* an 'inverse imbalance' error has been thrown
          rtts,        \* rtts[n]: the rtt of the connection to n, None without one
          heard,       \* ghost: the routes n was told of on its connection
          fresh,       \* ghost: the neighbours that had no route through them
                       \* left over when they connected
          listeners,   \* connectionListChange: the waiters listening, in order, after
                       \* the listener of the constructor
          timers,      \* the waiters whose timeout is set
          waiting,     \* waiting[w]: the addresses (one at most) w waits for
          notFound,    \* removeListener has thrown 'listener not found'
          skipped      \* ghost: the waiters that were not called when the route came
                       \* they wait for, as the listener before them removed itself

routeVars == <<routes, older, minRtt, inverse, imbalance>>
waitVars == <<listeners, timers, waiting, notFound, skipped>>
vars == <<routeVars, rtts, heard, fresh, waitVars>>

Connected == {n \in Address : rtts[n] # None}

Init ==
    /\ routes = [a \in Address |-> NoRoutes]
    /\ older = [a \in Address |-> {}]
    /\ minRtt = [a \in Address |-> NoMin]
    /\ inverse = [v \in Via |-> {}]
    /\ imbalance = FALSE
    /\ rtts = [n \in Address |-> None]
    /\ heard = [n \in Address |-> [a \in Address |-> None]]
    /\ fresh = {}
    /\ listeners = <<>>
    /\ timers = {}
    /\ waiting = [w \in Waiter |-> {}]
    /\ notFound = FALSE /\ skipped = {}

-----------------------------------------------------------------------------
(* Waiting for a connection.                                                 *)

has(a) == Vias(routes[a]) # {}

\* The guard of waitForConnectionTo for a connection that is added.
Guard(w, a) == waiting[w] = {a}

\* The listeners of s that stay when those of W are spliced out.
Spliced(s, W) ==
    LET left[i \in 0..Len(s)] ==
            IF i = 0 THEN <<>>
            ELSE IF s[i] \in W THEN left[i - 1] ELSE Append(left[i - 1], s[i])
    IN  left[Len(s)]

\* removeListener throws for a listener that is gone.
removeListeners(W) ==
    /\ listeners' = Spliced(listeners, W)
    /\ notFound' = (notFound \/ ~(W \subseteq ToSet(listeners)))

\* Mutant: the timeout stays set.
cleanupKeepsTimer(W) == removeListeners(W) /\ UNCHANGED timers

cleanup(W) == removeListeners(W) /\ timers' = timers \ W

\* The caller goes on, and may wait again.
Settles(W) ==
    /\ cleanup(W)
    /\ waiting' = [w \in Waiter |-> IF w \in W THEN {} ELSE waiting[w]]

\* callListeners goes by index: the listener after one that has removed itself is
\* not called.
Called(a) ==
    LET called[i \in DOMAIN listeners] ==
            i = 1 \/ ~(called[i - 1] /\ Guard(listeners[i - 1], a))
    IN  called

Resolved(a) ==
    LET called == Called(a)
    IN  {listeners[i] : i \in {j \in DOMAIN listeners : called[j] /\ Guard(listeners[j], a)}}

Waits(a) == {w \in Waiter : Guard(w, a)}

\* Those who wait for a and stand right behind one that has heard of it.
Behind(a) ==
    {listeners[i] : i \in {j \in 2..Len(listeners) : listeners[j - 1] \in Resolved(a)}}
        \cap Waits(a)

\* The waiters hear of the first route to a.
CallWaiters(a) ==
    /\ Settles(Resolved(a))
    /\ skipped' = (skipped \ Waits(a)) \cup Behind(a)

\* Mutant: the check for the route is left out.
waitForEvent(w, a) ==
    /\ waiting[w] = {}
    /\ waiting' = [waiting EXCEPT ![w] = {a}]
    /\ listeners' = Append(listeners, w) /\ timers' = timers \cup {w}
    /\ UNCHANGED <<routeVars, rtts, heard, fresh, notFound, skipped>>

\* The route is looked for and the listener added in one task; with a route the
\* call returns at once.
waitForConnectionTo(w, a) ==
    /\ waiting[w] = {} /\ ~has(a)
    /\ waiting' = [waiting EXCEPT ![w] = {a}]
    /\ listeners' = Append(listeners, w) /\ timers' = timers \cup {w}
    /\ UNCHANGED <<routeVars, rtts, heard, fresh, notFound, skipped>>

Timeout(w) ==
    /\ w \in timers
    /\ Settles({w}) /\ skipped' = skipped \ {w}
    /\ UNCHANGED <<routeVars, rtts, heard, fresh>>

-----------------------------------------------------------------------------
(* The table of routes.                                                      *)

\* The loop of #updateMinRtt over the routes r inserted in the order o finds the
\* first least one, and the least of those inserted before it.
LoopMinRtts(r, o) ==
    LET before(w) == {v \in Via : <<v, w>> \in o}
    IN  {m \in MinRtt : /\ m.rtt = r[m.via]
                        /\ IsBest(r, Via, m.rtt)
                        /\ \A v \in before(m.via) : r[v] # m.rtt
                        /\ IsBest(r, before(m.via), m.second_best)}

\* A listener tells every connection there is at that moment.
Told(h, a, ev) ==
    [n \in Address |-> IF n \in Connected' THEN [h[n] EXCEPT ![a] = HearEvents(n, @, ev)]
                                            ELSE h[n]]

\* The routes r of a, inserted in the order o, with their minimum m.
SetRoutes(a, r, o, m) ==
    /\ routes' = [routes EXCEPT ![a] = r]
    /\ older' = [older EXCEPT ![a] = o]
    /\ minRtt' = [minRtt EXCEPT ![a] = m]

\* RouteSet.inc, .dec and .update; h is what the neighbours hold before.  A
\* duplicate or an unknown route is only reported.
inc(a, v, d, h) ==
    IF routes[a][v] # None THEN UNCHANGED <<routeVars, waitVars>> /\ heard' = h
    ELSE LET r == [routes[a] EXCEPT ![v] = d]
             o == older[a] \cup {<<w, v>> : w \in Vias(routes[a])}
         IN  /\ \E m \in LoopMinRtts(r, o) :
                  /\ SetRoutes(a, r, o, m)
                  /\ heard' = Told(h, a, IncEvents(a, routes[a], v, d, minRtt[a], m))
             \* Set.add returns the set, so a double inc goes unnoticed.
             /\ inverse' = [inverse EXCEPT ![v] = @ \cup {a}]
             /\ IF has(a) THEN UNCHANGED waitVars ELSE CallWaiters(a)
             /\ UNCHANGED imbalance

dec(a, v, h) ==
    IF routes[a][v] = None THEN UNCHANGED routeVars /\ heard' = h
    ELSE LET r == [routes[a] EXCEPT ![v] = None]
             o == {p \in older[a] : p[1] # v /\ p[2] # v}
         IN  /\ \E m \in IF Vias(r) = {} THEN {NoMin} ELSE LoopMinRtts(r, o) :
                  /\ SetRoutes(a, r, o, m)
                  /\ heard' = Told(h, a, DecEvents(a, routes[a], v, minRtt[a], m))
             /\ inverse' = [inverse EXCEPT ![v] = @ \ {a}]
             /\ imbalance' = (imbalance \/ a \notin inverse[v])

update(a, v, d, h) ==
    IF routes[a][v] = None THEN UNCHANGED routeVars /\ heard' = h
    ELSE LET r == [routes[a] EXCEPT ![v] = d]
         IN  /\ \E m \in LoopMinRtts(r, older[a]) :
                  /\ SetRoutes(a, r, older[a], m)
                  /\ heard' = Told(h, a, UpdateEvents(a, minRtt[a], m))
             /\ UNCHANGED <<inverse, imbalance>>

-----------------------------------------------------------------------------
(* Connections.                                                              *)

\* The new neighbour is sent the list of routes before it is one of them.
addDirect(n, d) ==
    LET listed == [a \in Address |-> OfferedTo(n, minRtt[a])]
    IN  /\ rtts[n] = None
        /\ rtts' = [rtts EXCEPT ![n] = d]
        /\ inc(n, Direct, d, [heard EXCEPT ![n] = listed])
        /\ fresh' = IF \E a \in Address : routes[a][n] # None
                    THEN fresh \ {n} ELSE fresh \cup {n}

\* Mutant: the connection goes, the direct route stays.
removeConnection(n) ==
    rtts[n] # None /\ rtts' = [rtts EXCEPT ![n] = None]
    /\ UNCHANGED <<routeVars, heard, fresh, waitVars>>

\* Only the direct route goes: those through n, and those to n through others,
\* stay.
removeDirect(n) ==
    /\ rtts[n] # None
    /\ rtts' = [rtts EXCEPT ![n] = None]
    /\ dec(n, Direct, heard)
    /\ UNCHANGED <<fresh, waitVars>>

-----------------------------------------------------------------------------
(* The notifications of a neighbour n that is connected.                     *)

\* Mutant: the link's rtt is counted for both hops.
OnAddForwardedTwice(n, a) ==
    rtts[n] # None /\ UNCHANGED <<rtts, fresh>> /\ inc(a, n, 2 * rtts[n], heard)

\* The route gets the rtt of the connection, not the announced one.
OnAddForwarded(n, a) ==
    rtts[n] # None /\ UNCHANGED <<rtts, fresh>> /\ inc(a, n, rtts[n], heard)

OnRemoveForwarded(n, a) ==
    rtts[n] # None /\ UNCHANGED <<rtts, fresh, waitVars>> /\ dec(a, n, heard)

\* update is called with the sender for the address and the announced address
\* for the via.
OnUpdatedForwardedRtt(n, a, d) ==
    rtts[n] # None /\ UNCHANGED <<rtts, fresh, waitVars>> /\ update(n, a, d, heard)

Next == \/ \E n \in Neighbour :
               \/ \E d \in Rtt : addDirect(n, d)
               \/ removeDirect(n)
               \/ \E a \in Target : \/ OnAddForwarded(n, a)
                                    \/ OnRemoveForwarded(n, a)
                                    \/ \E d \in Rtt : OnUpdatedForwardedRtt(n, a, d)
        \/ \E w \in Waiter : Timeout(w) \/ \E a \in Address : waitForConnectionTo(w, a)

Spec == Init /\ [][Next]_vars

-----------------------------------------------------------------------------

TypeOK ==
    /\ routes \in [Address -> RouteMap]
    /\ older \in [Address -> SUBSET (Via \X Via)]
    /\ minRtt \in [Address -> MinRtt]
    /\ inverse \in [Via -> SUBSET Address]
    /\ imbalance \in BOOLEAN
    /\ rtts \in [Address -> RttOption]
    /\ heard \in [Address -> [Address -> RttOption]]
    /\ fresh \subseteq Address
    /\ timers \subseteq Waiter
    /\ waiting \in [Waiter -> SUBSET Address] /\ notFound \in BOOLEAN /\ skipped \subseteq Waiter

\* The inverse index lists exactly the routes there are and a direct route goes
\* with a connection, in spite of the double inc check that can not fire
\* (rpc.ts 83-96, 161-197, 435-453): dec never throws.
TableConsistent ==
    /\ ~imbalance
    /\ \A v \in Via : inverse[v] = {a \in Address : routes[a][v] # None}
    /\ \A n \in Address : routes[n][Direct] # None <=> rtts[n] # None

\* A neighbour holds an offer only while there is a route that does not lead
\* back through it: no two nodes offer each other the same dead address
\* (rpc.ts 299-337 and 448-451).
NoPhantomOffer ==
    \A n \in Connected : \A a \in Address \ {n} :
        heard[n][a] # None => \E v \in Via \ {n} : routes[a][v] # None

\* And a neighbour without leftovers of an earlier connection is offered every
\* address that can be reached without it.
ReachableIsOffered ==
    \A n \in Connected \cap fresh : \A a \in Address \ {n} :
        (\E v \in Via \ {n} : routes[a][v] # None) => heard[n][a] # None

\* Between the look at the routes, the listener and the dispatch to a list that
\* changes under it, a wait misses the route it waits for in one way only: the
\* listener right before its own waited for the same address, heard of the route and
\* removed itself, so that the loop went past (rpc.ts 498-503, listener.ts 22-38).
\* Then it waits on beside the route, until its timeout or until the route has gone
\* and come back, though listener.ts 47 says "waiting for either matching guard, or
\* timeout".
NoMissedConnection == \A w \in Waiter : \A a \in waiting[w] : has(a) => w \in skipped

\* A wait ends once, by its event or by its timeout, and never looks for a
\* listener that the other of the two has removed (listener.ts 17-21 and 62-85).
CleanupOnce == ~notFound /\ ToSet(listeners) = timers
=============================================================================
