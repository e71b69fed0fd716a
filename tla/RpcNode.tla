------------------------------ MODULE RpcNode ------------------------------
(* One Rust bifrostlink node (bifrostlink/src/rpc.rs): the routing table     *)
(* behind its lock, the worker that drains the queue of RootEvents, the      *)
(* reader task of each connection, and the callers of add_direct,            *)
(* remove_direct and wait_for_connection_to on other threads.  Neighbours    *)
(* announce the addresses in Destination, and callers wait for them.         *)
EXTENDS Announce, Sequences, SequencesExt

CONSTANTS Neighbour,   \* the addresses a port can be opened to
          MaxQueue     \* bound: callers and readers wait while the queue is longer

ASSUME NodeAssumption == /\ IsFiniteSet(Address)
                         /\ Neighbour \subseteq Address
                         /\ MaxQueue \in Nat

VARIABLES connections,  \* the addresses in RpcInner.connections
          ended,        \* those whose port has ended
          queue,        \* the worker's channel of RootEvents
          waiting,      \* the addresses wait_for_connection_to is pending for
          fresh         \* ghost: the neighbours whose connection began with no
                        \* packet for an earlier one still in the queue

nodeVars == <<connections, ended, queue, waiting, heard, fresh>>
vars == <<routeVars, nodeVars>>

OutgoingMessage(n, msg) == [kind |-> "OutgoingMessage", to |-> n, message |-> msg]
ConnectionMessage(n, msg) == [kind |-> "ConnectionMessage", from |-> n, message |-> msg]
ConnectionEnding(n) == [kind |-> "ConnectionEnding", from |-> n]

Sent(ev) ==
    LET sent(e) == IF e = NoEvent THEN <<>> ELSE <<e>> IN sent(ev.list) \o sent(ev.min)

\* The packets of notify for the members n of S that f(n) is a message for.
Notified(S, f(_)) ==
    LET to == {n \in S : f(n) # NoMessage}
    IN  [i \in 1..Cardinality(to) |->
            OutgoingMessage(SetToSeq(to)[i], f(SetToSeq(to)[i]))]

HasRoom == Len(queue) < MaxQueue

Init ==
    /\ RouteInit
    /\ connections = {} /\ ended = {} /\ waiting = {} /\ fresh = {}
    /\ queue = <<>>
    /\ heard = [n \in Address |-> [a \in Address |-> None]]

-----------------------------------------------------------------------------
(* Callers on other threads, each under the write lock.                      *)

\* The table is changed first, so the list sent to the new neighbour n has n
\* itself in it.
add_direct(n, d) ==
    /\ HasRoom
    /\ n \notin connections
    /\ \E m \in MinRtt :
        /\ IncRoute(n, Direct, d, m)
        /\ LET listed(a) == LET rtt == OfferedTo(n, min_rtt'[a])
                            IN  IF rtt = None THEN NoMessage ELSE AddForwarded(a, rtt)
               known == SetToSeq({a \in Address : listed(a) # NoMessage})
           IN  queue' = queue \o Sent(IncEvents(n, via[n], Direct, d, min_rtt[n], m))
                              \o [i \in DOMAIN known |-> OutgoingMessage(n, listed(known[i]))]
    /\ connections' = connections \cup {n}
    /\ ended' = ended \ {n}
    /\ heard' = [heard EXCEPT ![n] = [a \in Address |-> None]]
    /\ fresh' = IF \E i \in DOMAIN queue : /\ queue[i].kind = "OutgoingMessage"
                                           /\ queue[i].to = n
                THEN fresh \ {n} ELSE fresh \cup {n}
    /\ UNCHANGED waiting

\* Mutants: the reader stays; the direct route stays.
RemoveDirectOnly(n, q) ==
    /\ \E m \in MinRtt :
        /\ DecRoute(n, Direct, m)
        /\ queue' = q \o Sent(DecEvents(n, via[n], Direct, min_rtt[n], m))
    /\ connections' = connections \ {n}
    /\ UNCHANGED <<ended, waiting, heard, fresh>>
RemoveConnectionOnly(n, q) ==
    /\ queue' = q
    /\ connections' = connections \ {n}
    /\ ended' = ended \ {n}
    /\ UNCHANGED <<routeVars, waiting, heard, fresh>>

\* Drops the connection, and with it its reader; q is the queue it reports to.
RemoveDirect(n, q) ==
    /\ \E m \in MinRtt :
        /\ DecRoute(n, Direct, m)
        /\ queue' = q \o Sent(DecEvents(n, via[n], Direct, min_rtt[n], m))
    /\ connections' = connections \ {n}
    /\ ended' = ended \ {n}
    /\ UNCHANGED <<waiting, heard, fresh>>

remove_direct(n) == HasRoom /\ n \in connections /\ RemoveDirect(n, queue)

\* Mutant: the caller subscribes without asking.
SubscribeOnly(a) ==
    /\ waiting' = waiting \cup {a}
    /\ UNCHANGED <<routeVars, connections, ended, queue, heard, fresh>>

\* Subscribing and asking for a route happen under one lock.
wait_for_connection_to(a) ==
    /\ ~has(a)
    /\ waiting' = waiting \cup {a}
    /\ UNCHANGED <<routeVars, connections, ended, queue, heard, fresh>>

-----------------------------------------------------------------------------
(* The reader task of a connection.                                          *)

PortMessage(n, msg) ==
    /\ HasRoom
    /\ n \in connections \ ended
    /\ queue' = Append(queue, ConnectionMessage(n, msg))
    /\ UNCHANGED <<routeVars, connections, ended, waiting, heard, fresh>>

PortEnds(n) ==
    /\ HasRoom
    /\ n \in connections \ ended
    /\ ended' = ended \cup {n}
    /\ queue' = Append(queue, ConnectionEnding(n))
    /\ UNCHANGED <<routeVars, connections, waiting, heard, fresh>>

-----------------------------------------------------------------------------
(* The worker, one RootEvent at a time.                                      *)

Received(kind) == queue # <<>> /\ Head(queue).kind = kind

\* AddForwarded, from a connection that is still there, for a route that is new.
OnConnectionMessage ==
    /\ Received("ConnectionMessage")
    /\ LET n == Head(queue).from
           msg == Head(queue).message
       IN  IF n \in connections /\ msg.kind = "AddForwarded" /\ via[msg.to][n] = None
           THEN \E m \in MinRtt :
                  /\ IncRoute(msg.to, n, msg.rtt, m)
                  /\ queue' = Tail(queue) \o
                       Sent(IncEvents(msg.to, via[msg.to], n, msg.rtt, min_rtt[msg.to], m))
           ELSE queue' = Tail(queue) /\ UNCHANGED routeVars
    /\ UNCHANGED <<connections, ended, waiting, heard, fresh>>

\* Mutant: the end of a port is only logged.
IgnoreEnding ==
    /\ Received("ConnectionEnding")
    /\ queue' = Tail(queue)
    /\ UNCHANGED <<routeVars, connections, ended, waiting, heard, fresh>>

OnConnectionEnding ==
    /\ Received("ConnectionEnding")
    /\ IF Head(queue).from \in connections
       THEN RemoveDirect(Head(queue).from, Tail(queue))
       ELSE /\ queue' = Tail(queue)
            /\ UNCHANGED <<routeVars, connections, ended, waiting, heard, fresh>>

\* The packet goes out on the connection of its receiver if the table has a
\* direct route; a packet for anyone else leaves by a relay, or is dropped.
OnOutgoingMessage ==
    /\ Received("OutgoingMessage")
    /\ queue' = Tail(queue)
    /\ LET n == Head(queue).to
           msg == Head(queue).message
       IN  heard' = IF n \in connections /\ forwarder_for(n, {}) = {Direct}
                    THEN [heard EXCEPT ![n][msg.to] = Hear(@, msg)] ELSE heard
    /\ UNCHANGED <<routeVars, connections, ended, waiting, fresh>>

\* Mutant: ConnectionAdded is not broadcast.
OnRouteEventQuiet ==
    /\ queue # <<>>
    /\ Head(queue).kind \in {"ConnectionAdded", "ConnectionRemoved", "ViaListSeconded",
                             "ViaListUnseconded", "MinRttUpdated"}
    /\ LET told(n) == NotificationFor(n, Head(queue))
       IN  queue' = Tail(queue) \o Notified(connections, told)
    /\ UNCHANGED <<routeVars, connections, ended, waiting, heard, fresh>>

OnRouteEvent ==
    /\ queue # <<>>
    /\ Head(queue).kind \in {"ConnectionAdded", "ConnectionRemoved", "ViaListSeconded",
                             "ViaListUnseconded", "MinRttUpdated"}
    /\ LET e == Head(queue)
           told(n) == NotificationFor(n, e)
       IN  /\ queue' = Tail(queue) \o Notified(connections, told)
           /\ waiting' = IF e.kind = "ConnectionAdded" THEN waiting \ {e.to} ELSE waiting
    /\ UNCHANGED <<routeVars, connections, ended, heard, fresh>>

Worker == OnConnectionMessage \/ OnConnectionEnding \/ OnOutgoingMessage \/ OnRouteEvent

Next ==
    \/ \E n \in Neighbour : \/ \E d \in Rtt : add_direct(n, d)
                            \/ remove_direct(n)
                            \/ \E a \in Destination, d \in Rtt : PortMessage(n, AddForwarded(a, d))
                            \/ \E a \in Destination : PortMessage(n, RemoveForwarded(a))
                            \/ PortEnds(n)
    \/ \E a \in Destination : wait_for_connection_to(a)
    \/ Worker

Spec == Init /\ [][Next]_vars
FairSpec == Spec /\ WF_vars(Worker)

-----------------------------------------------------------------------------

TypeOK ==
    /\ RouteTypeOK
    /\ connections \subseteq Neighbour /\ ended \subseteq connections
    /\ waiting \subseteq Destination /\ fresh \subseteq Neighbour
    /\ heard \in [Address -> [Address -> RttOption]]
    /\ \A i \in DOMAIN queue : queue[i].kind = "OutgoingMessage" => queue[i].to \in Neighbour

\* The connection list, the direct routes and the inverse index agree after
\* every step, so that no route is added twice, none is removed twice and no
\* assert! of route.rs can fail under the lock (rpc.rs 165-172 and 226-237).
DirectIffConnected ==
    /\ InverseBalanced
    /\ \A n \in Address : via[n][Direct] # None <=> n \in connections

\* Once the queue is drained every connected neighbour holds the best route
\* around itself to every other address, whatever add_direct's own list and the
\* events it overtook told it twice or in another order.
SettledExact ==
    queue = <<>> =>
        \A n \in connections \cap fresh : \A a \in Address \ {n} :
            IsBest(via[a], Via \ {n}, heard[n][a])

\* A caller that waits for an address with a route has its wake-up in the queue
\* (rpc.rs 742-758: subscribe, then has, under the write lock).
NoLostWakeup ==
    \A a \in waiting : has(a) =>
        \E i \in DOMAIN queue : queue[i].kind = "ConnectionAdded" /\ queue[i].to = a

\* A port that has ended takes its connection with it (connection.rs 38-46).
EndedIsRemoved ==
    \A n \in Neighbour : (n \in ended) ~> (n \notin connections)

\* A caller that waits for an address with a route does return.
WaiterReturns ==
    \A a \in Destination : (a \in waiting /\ has(a)) ~> (a \notin waiting)
=============================================================================
