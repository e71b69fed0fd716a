------------------------------- MODULE HidFox -------------------------------
(* The deployed extension: one page's chain                                  *)
(*     Injected -- Content -- Background -- Native,  Background -- Popup     *)
(* from the construction of navigator.hid to the end of requestDevice().     *)
(* Ports are FIFO, a JavaScript node handles one packet at a time, and the   *)
(* native process is its rpc worker and the hid() task.  Every link has the  *)
(* round-trip time 50, so a routing table is the order its vias were         *)
(* inserted in and UpdatedForwardedRtt, which then changes nothing, is left  *)
(* out.  One HID device stands for all.                                      *)
EXTENDS RouteEvents, Sequences, SequencesExt

CONSTANTS Injected, Content, Background, Native, Popup,
          MaxRequests,     \* bound: how often the page calls requestDevice()
          Timeouts,        \* whether the requests of the page may time out
          PopupFails,      \* whether the popup may fail to open in time
          Dismisses,       \* whether the user may close it instead of answering
          MaxPlugs         \* bound: how often the device is unplugged or plugged in

ASSUME HidFoxAssumption ==
    /\ Address = {Injected, Content, Background, Native, Popup}
    /\ IsInjective(<<Injected, Content, Background, Native, Popup>>) /\ None \notin Address
    /\ MaxRequests \in Nat /\ MaxPlugs \in Nat
    /\ Timeouts \in BOOLEAN /\ PopupFails \in BOOLEAN /\ Dismisses \in BOOLEAN

VARIABLES conn,       \* conn[x]: the neighbours x has added
          routes,     \* routes[x][a]: the vias of a at x, the oldest first
          chan,       \* chan[x][y]: the packets from x to y
          lost,       \* the packets some node gave up on
          page,       \* page[c]: where a caller of the page is
          devices,    \* whether the page knows the device
          granted,    \* ghost: the calls for which the user has approved the device
          storage,    \* whether localStorage lists the device as allowed
          popup,      \* the window OpenPopup opens
          hid,        \* where the native process is
          listed,     \* its device_list: whether the page was told of the device
          elapsed,    \* the refresh delay of hid() is over
          subscribe, request_device, poll_refresh, \* its polling queues
          plugged,    \* whether the device is there
          plugs,      \* the times that has changed
          seen        \* whether it was at the last refresh_devices()

Caller == 0..MaxRequests   \* the constructor of Hid and the calls of requestDevice()

network == <<conn, routes, chan, lost>>
pageVars == <<page, devices, granted>>
nativeVars == <<hid, listed, elapsed, subscribe, request_device, poll_refresh, seen>>
usb == <<plugged, plugs>>
vars == <<network, pageVars, storage, popup, nativeVars, usb>>

-----------------------------------------------------------------------------
(* Packets: Request and Response, and Notification for everything without a  *)
(* response but the routing notifications of RouteEvents.                    *)

LinkRtt == 50
Request(name, s, r, id, arg) ==
    [kind |-> "Request", name |-> name, sender |-> s, receiver |-> r, id |-> id, arg |-> arg]
Response(name, to, id, ok, arg) ==
    [kind |-> "Response", name |-> name, receiver |-> to, id |-> id, ok |-> ok, arg |-> arg]
Notification(name, s, r) ==
    [kind |-> "Notification", name |-> name, sender |-> s, receiver |-> r]
Closed == [kind |-> "Closed"]

\* What a step sends: a sequence of packets for each neighbour.
Nothing == [n \in Address |-> <<>>]
To(n, p) == [Nothing EXCEPT ![n] = <<p>>]
o ++ q == [n \in Address |-> o[n] \o q[n]]

\* The node x, having taken packet Head(chan[from][x]) if from is a node, sends out.
Emit(x, from, out) ==
    chan' = [m \in Address |->
                [n \in Address |->
                    CASE m = x -> chan[m][n] \o out[n]
                      [] m = from /\ n = x -> Tail(chan[m][n])
                      [] OTHER -> chan[m][n]]]

Arrives(x, n, kind) == n \in conn[x] /\ chan[n][x] # <<>> /\ Head(chan[n][x]).kind = kind

-----------------------------------------------------------------------------
(* Routing.                                                                  *)

IncEvent(r, a, v) ==
    CASE r[a] = <<>> -> ConnectionAdded(a, v, LinkRtt)
      [] Len(r[a]) = 1 -> ViaListSeconded(a, r[a][1], LinkRtt)
      [] OTHER -> NoEvent
DecEvent(r, a, v) ==
    LET left == RemoveFirst(r[a], v)
    IN  CASE left = <<>> -> ConnectionRemoved(a, v)
          [] Len(left) = 1 -> ViaListUnseconded(a, left[1])
          [] OTHER -> NoEvent

\* Mutant: a route that is known is added again.
incAgain(r, a, v) == [r EXCEPT ![a] = Append(@, v)]

\* r with the route to a via v added or removed, and what that makes a node with
\* the neighbours C tell them.
inc(r, a, v) == IF Contains(r[a], v) THEN r ELSE [r EXCEPT ![a] = Append(@, v)]
dec(r, a, v) == [r EXCEPT ![a] = RemoveFirst(@, v)]
Told(C, e) ==
    [n \in Address |-> IF n \in C /\ NotificationFor(n, e) # NoMessage
                       THEN <<NotificationFor(n, e)>> ELSE <<>>]
ToldOfInc(C, r, a, v) == IF Contains(r[a], v) THEN Nothing ELSE Told(C, IncEvent(r, a, v))
ToldOfDec(C, r, a, v) == IF Contains(r[a], v) THEN Told(C, DecEvent(r, a, v)) ELSE Nothing

\* The list a new neighbour is sent; no route has a second best, and the order
\* of the list does not matter.
List(r, to) ==
    LET offered == {a \in Address : r[a] # <<>> /\ r[a][1] # to}
    IN  [Nothing EXCEPT ![to] = SetToSeq({AddForwarded(a, LinkRtt) : a \in offered})]

\* addDirect with the neighbours C and the routes r; a second time is an error.
AddedDirect(C, r, n) ==
    IF n \in C THEN Nothing ELSE List(r, n) ++ ToldOfInc(C \cup {n}, r, n, Direct)

mayBeForwarderFor(x, n, s) == n = s \/ x = s \/ Contains(routes[x][s], n)

\* The neighbour a packet for a goes to next, None if there is none.
nextHop(x, a, from) ==
    LET open == SelectInSeq(routes[x][a], LAMBDA v : v \notin {Direct, from})
    IN  CASE a \in conn[x] -> a
          [] a \notin conn[x] /\ open # 0 -> routes[x][a][open]
          [] OTHER -> None

\* p on its way from x, having come from there (or from x itself).
Routed(x, p, from) ==
    LET h == nextHop(x, p.receiver, from)
    IN  IF h = None THEN Nothing ELSE To(h, p)
Undelivered(x, p, from) ==
    IF nextHop(x, p.receiver, from) = None THEN {<<p.kind, p.name>>} ELSE {}

\* x sends p of its own accord.
Send(x, p) ==
    /\ Emit(x, None, Routed(x, p, None))
    /\ lost' = lost \cup Undelivered(x, p, None)
    /\ UNCHANGED <<conn, routes>>

\* A port takes out the packet and nothing else happens on the network.
Take(x, n) == Emit(x, n, Nothing) /\ UNCHANGED <<conn, routes, lost>>
\* x takes the packet of n and answers it, or asks something in turn, with p.
Answer(x, n, p) ==
    /\ Emit(x, n, Routed(x, p, None))
    /\ lost' = lost \cup Undelivered(x, p, None)
    /\ UNCHANGED <<conn, routes>>

OnAddForwarded(x, n) ==
    /\ Arrives(x, n, "AddForwarded")
    /\ LET a == Head(chan[n][x]).to
       IN  /\ Emit(x, n, ToldOfInc(conn[x], routes[x], a, n))
           /\ routes' = [routes EXCEPT ![x] = inc(@, a, n)]
    /\ UNCHANGED <<conn, lost, pageVars, storage, popup, nativeVars>>

\* Mutant: the JavaScript nodes ignore it as well.
OnRemoveForwardedIgnored(x, n) ==
    Arrives(x, n, "RemoveForwarded") /\ Take(x, n)
    /\ UNCHANGED <<pageVars, storage, popup, nativeVars>>

\* The native process has no handler for it (rpc.rs registers AddForwarded only).
OnRemoveForwarded(x, n) ==
    /\ Arrives(x, n, "RemoveForwarded")
    /\ LET a == Head(chan[n][x]).to
       IN  IF x = Native THEN Emit(x, n, Nothing) /\ UNCHANGED routes
           ELSE /\ Emit(x, n, ToldOfDec(conn[x], routes[x], a, n))
                /\ routes' = [routes EXCEPT ![x] = dec(@, a, n)]
    /\ UNCHANGED <<conn, lost, pageVars, storage, popup, nativeVars>>

\* A packet for another node, or from one that is not known to be behind n: it
\* is dropped, answered with an error if there is no way on, or forwarded.  The
\* native process has a todo!() for a response that is not its own.
Forward(x, n) ==
    /\ \E kind \in {"Request", "Response", "Notification"} : Arrives(x, n, kind)
    /\ LET p == Head(chan[n][x])
           dropped == IF p.kind = "Response" THEN x = Native
                      ELSE ~mayBeForwarderFor(x, n, p.sender)
           avoid == IF x = Native THEN None ELSE n
           stuck == nextHop(x, p.receiver, avoid) = None
       IN  /\ p.receiver # x \/ (dropped /\ p.kind # "Response")
           /\ Emit(x, n, IF dropped THEN Nothing
                         ELSE IF stuck /\ p.kind = "Request"
                         THEN Routed(x, Response(p.name, p.sender, p.id, FALSE, FALSE), None)
                         ELSE Routed(x, p, avoid))
           /\ lost' = IF dropped \/ stuck THEN lost \cup {<<p.kind, p.name>>} ELSE lost
    /\ UNCHANGED <<conn, routes, pageVars, storage, popup, nativeVars>>

\* A packet that has arrived where it is meant for.
Received(x, n, kind, name) ==
    /\ Arrives(x, n, kind)
    /\ LET p == Head(chan[n][x])
       IN  /\ p.name = name /\ p.receiver = x
           /\ kind # "Response" => mayBeForwarderFor(x, n, p.sender)
Packet(x, n) == Head(chan[n][x])

-----------------------------------------------------------------------------
(* Starting up: the page opens a port (already in Init), the content script  *)
(* and the background page answer with theirs.                               *)

Init ==
    /\ conn = [x \in Address |-> IF x = Injected THEN {Content} ELSE {}]
    /\ routes = [x \in Address |-> [a \in Address |->
                    IF x = Injected /\ a = Content THEN <<Direct>> ELSE <<>>]]
    /\ chan = [x \in Address |-> Nothing]
    /\ lost = {}
    /\ page = [c \in Caller |-> IF c = 0 THEN "waitForConnectionTo" ELSE "none"]
    /\ devices = FALSE /\ granted = {}
    /\ storage = FALSE /\ popup = "none"
    /\ hid = "none" /\ listed = FALSE /\ elapsed = FALSE
    /\ subscribe = <<>> /\ request_device = <<>> /\ poll_refresh = <<>>
    /\ plugged = TRUE /\ plugs = 0 /\ seen = TRUE

\* x opens its ports and adds the nodes C behind them, sending out.
Opens(x, C, out) ==
    /\ conn[x] = {}
    /\ conn' = [conn EXCEPT ![x] = C]
    /\ routes' = [routes EXCEPT ![x] = [a \in Address |-> IF a \in C THEN <<Direct>> ELSE <<>>]]
    /\ Emit(x, None, out)
    /\ UNCHANGED lost

\* The background page first, then the page.
ContentOnConnect ==
    LET r == routes[Content]
    IN  /\ Opens(Content, {Background, Injected},
                 AddedDirect({}, r, Background)
                 ++ AddedDirect({Background}, inc(r, Background, Direct), Injected))
        /\ UNCHANGED <<pageVars, storage, popup, nativeVars>>

BackgroundOnConnect ==
    /\ conn[Content] # {}
    /\ Opens(Background, {Content}, AddedDirect({}, routes[Background], Content))
    /\ UNCHANGED <<pageVars, storage, popup, nativeVars>>

\* The native process adds its direct route before it lists its routes, so the
\* background page is told that the way to it leads over the native process.
NativeMain ==
    /\ Native \in conn[Background] /\ hid = "none"
    /\ hid' = "helo"
    /\ conn' = [conn EXCEPT ![Native] = {Background}]
    /\ routes' = [routes EXCEPT ![Native][Background] = <<Direct>>]
    /\ Emit(Native, None,
            To(Background, AddForwarded(Background, LinkRtt))
            ++ To(Background, Request("StorageGet", Native, Background, 0, "helo")))
    /\ UNCHANGED <<lost, pageVars, storage, popup, listed, elapsed, subscribe,
                   request_device, poll_refresh, seen>>

-----------------------------------------------------------------------------
(* The background page (background.ts).                                      *)

\* Mutant: the answer is sent, then the process is added.
OpenNativeAnsweredFirst ==
    /\ Received(Background, Content, "Request", "OpenNative")
    /\ LET p == Packet(Background, Content)
       IN  /\ conn' = [conn EXCEPT ![Background] = @ \cup {Native}]
           /\ routes' = [routes EXCEPT ![Background] = inc(@, Native, Direct)]
           /\ Emit(Background, Content,
                   Routed(Background, Response("OpenNative", p.sender, p.id, TRUE, FALSE), None)
                   ++ AddedDirect(conn[Background], routes[Background], Native))
    /\ UNCHANGED <<lost, pageVars, storage, popup, nativeVars>>

\* The route to the new process is announced before the answer is sent.
OpenNative ==
    /\ Received(Background, Content, "Request", "OpenNative")
    /\ LET p == Packet(Background, Content)
           r == inc(routes[Background], Native, Direct)
           greeting == Notification("OpenFromInject", Background, Native)
       IN  /\ conn' = [conn EXCEPT ![Background] = @ \cup {Native}]
           /\ routes' = [routes EXCEPT ![Background] = r]
           /\ Emit(Background, Content,
                   AddedDirect(conn[Background], routes[Background], Native)
                   ++ To(Native, greeting)
                   ++ Routed(Background, Response("OpenNative", p.sender, p.id, TRUE, FALSE), None))
    /\ UNCHANGED <<lost, pageVars, storage, popup, nativeVars>>

StorageGet ==
    /\ Received(Background, Native, "Request", "StorageGet")
    /\ LET p == Packet(Background, Native)
       IN  Answer(Background, Native,
                  Response("StorageGet", p.sender, p.id, TRUE, p.arg = "allowed" /\ storage))
    /\ UNCHANGED <<pageVars, storage, popup, nativeVars>>

StorageSet ==
    /\ Received(Background, Native, "Request", "StorageSet")
    /\ LET p == Packet(Background, Native)
       IN  /\ storage' = p.arg
           /\ Answer(Background, Native, Response("StorageSet", p.sender, p.id, TRUE, FALSE))
    /\ UNCHANGED <<pageVars, popup, nativeVars>>

OpenPopup ==
    /\ Received(Background, Native, "Request", "OpenPopup")
    /\ popup \in {"none", "closing"}
    /\ popup' = "opening"
    /\ Take(Background, Native)
    /\ UNCHANGED <<pageVars, storage, nativeVars>>

PopupAnswer(ok) == Response("OpenPopup", Native, 0, ok, FALSE)

\* The window loads and connects, and its port is added, unless that of the popup
\* before it is still there: nobody listens to the new one then.
PopupOnConnect ==
    /\ popup = "opening"
    /\ \/ /\ Popup \in conn[Background]
          /\ popup' = "closing"
          /\ Send(Background, PopupAnswer(TRUE))
       \/ /\ Popup \notin conn[Background] /\ chan[Background][Popup] = <<>>
          /\ popup' = "open"
          /\ conn' = [conn EXCEPT ![Background] = @ \cup {Popup}, ![Popup] = {Background}]
          /\ routes' = [routes EXCEPT ![Background] = inc(@, Popup, Direct),
                                      ![Popup][Background] = <<Direct>>]
          /\ Emit(Background, None, AddedDirect(conn[Background], routes[Background], Popup)
                                    ++ To(Native, PopupAnswer(TRUE)))
          /\ UNCHANGED lost
    /\ UNCHANGED <<pageVars, storage, nativeVars>>

\* Mutant: the native process is not told.
PopupOpeningTimeoutSilent ==
    /\ PopupFails /\ popup = "opening"
    /\ popup' = "none"
    /\ UNCHANGED <<network, pageVars, storage, nativeVars>>

PopupOpeningTimeout ==
    /\ PopupFails /\ popup = "opening"
    /\ popup' = "none"
    /\ Send(Background, PopupAnswer(FALSE))
    /\ UNCHANGED <<pageVars, storage, nativeVars>>

\* The port of the popup has ended.
RemovePopup ==
    /\ Arrives(Background, Popup, "Closed")
    /\ conn' = [conn EXCEPT ![Background] = @ \ {Popup}]
    /\ routes' = [routes EXCEPT ![Background] = dec(@, Popup, Direct)]
    /\ Emit(Background, Popup, ToldOfDec(conn[Background] \ {Popup}, routes[Background], Popup, Direct))
    /\ popup' = IF popup = "closing" THEN "none" ELSE popup
    /\ UNCHANGED <<lost, pageVars, storage, nativeVars>>

-----------------------------------------------------------------------------
(* The popup (popup.tsx): the user answers the only request and the window   *)
(* closes, or the user closes it.  What is sent to it from then on is lost   *)
(* with it.                                                                  *)

Closes(answer) ==
    /\ popup' = "closing"
    /\ conn' = [conn EXCEPT ![Popup] = {}]
    /\ routes' = [routes EXCEPT ![Popup] = [a \in Address |-> <<>>]]
    /\ chan' = [chan EXCEPT ![Background][Popup] = <<>>,
                            ![Popup][Background] = @ \o answer \o <<Closed>>]
    /\ UNCHANGED <<lost, pageVars, storage, nativeVars>>

\* Only a device that was offered can be approved.
AnswerAccess ==
    /\ popup = "open"
    /\ Received(Popup, Background, "Request", "RequestAccess")
    /\ \E approved \in {FALSE, Packet(Popup, Background).arg} :
           Closes(<<Response("RequestAccess", Native, 0, TRUE, approved)>>)

DismissPopup == Dismisses /\ popup = "open" /\ Closes(<<>>)

\* A closed window takes nothing.
DiscardForPopup ==
    /\ conn[Popup] = {} /\ chan[Background][Popup] # <<>>
    /\ chan' = [chan EXCEPT ![Background][Popup] = <<>>]
    /\ UNCHANGED <<conn, routes, lost, pageVars, storage, popup, nativeVars>>

-----------------------------------------------------------------------------
(* The native process: hid() of main.rs.                                     *)

Ask(name, to, arg) == Request(name, Native, to, 0, arg)
Reply(name, id, ok) == Response(name, Injected, id, ok, FALSE)
ToPage(replies) ==
    LET h == nextHop(Native, Injected, None)
    IN  IF h = None THEN Nothing ELSE [Nothing EXCEPT ![h] = replies]

\* A request goes to the queue of its polling handler, or is answered with an
\* error while hid() has not registered one.
Registered == {"SubscribeHid"} \cup
    IF hid \in {"none", "helo", "select"} THEN {} ELSE {"RequestDevice", "PollRefresh"}

Polled(name, q) ==
    /\ Received(Native, Background, "Request", name)
    /\ LET p == Packet(Native, Background)
       IN  IF name \in Registered
           THEN /\ q' = Append(q, [id |-> p.id, refreshed |-> FALSE])
                /\ Take(Native, Background)
           ELSE /\ Emit(Native, Background, Routed(Native, Reply(name, p.id, FALSE), None))
                /\ lost' = lost \cup {<<p.kind, p.name>>}
                /\ UNCHANGED <<conn, routes, q>>

NativeRequest ==
    /\ \/ Polled("SubscribeHid", subscribe) /\ UNCHANGED <<request_device, poll_refresh>>
       \/ Polled("RequestDevice", request_device) /\ UNCHANGED <<subscribe, poll_refresh>>
       \/ Polled("PollRefresh", poll_refresh) /\ UNCHANGED <<subscribe, request_device>>
    /\ UNCHANGED <<pageVars, storage, popup, hid, listed, elapsed, seen>>

\* main() has a request handler for it, the background page sends a notification.
OpenFromInject ==
    /\ Received(Native, Background, "Notification", "OpenFromInject")
    /\ Emit(Native, Background, Nothing)
    /\ lost' = lost \cup {<<"Notification", "OpenFromInject">>}
    /\ UNCHANGED <<conn, routes, pageVars, storage, popup, nativeVars>>

\* The task is at pc and gets the answer it awaits.
Awaited(pc, name) == hid = pc /\ Received(Native, Background, "Response", name)

Helo ==
    /\ Awaited("helo", "StorageGet")
    /\ hid' = "select"
    /\ Take(Native, Background)
    /\ UNCHANGED <<pageVars, storage, popup, listed, elapsed, subscribe, request_device, poll_refresh, seen>>

\* hid() registers its handlers, answers, and starts with the list of allowed
\* devices.
SubscribeHid ==
    /\ hid = "select" /\ subscribe # <<>>
    /\ hid' = "watch"
    /\ subscribe' = Tail(subscribe)
    /\ Emit(Native, None, Routed(Native, Reply("SubscribeHid", Head(subscribe).id, TRUE), None)
                          ++ To(Background, Ask("StorageGet", Background, "allowed")))
    /\ lost' = lost \cup Undelivered(Native, Reply("SubscribeHid", 0, TRUE), None)
    /\ seen' = plugged   \* HidApi::new
    /\ UNCHANGED <<conn, routes, pageVars, storage, popup, listed, elapsed,
                   request_device, poll_refresh>>

\* The page hears of a device that is now listed and allowed or no longer is;
\* then the devices are refreshed and a new delay starts.
WatchDevices ==
    /\ Awaited("watch", "StorageGet")
    /\ listed' = (Packet(Native, Background).arg /\ seen)
    /\ CASE listed' /\ ~listed -> Answer(Native, Background, Notification("AddedDevice", Native, Injected))
         [] ~listed' /\ listed -> Answer(Native, Background, Notification("RemovedDevice", Native, Injected))
         [] OTHER -> Take(Native, Background)
    /\ seen' = plugged
    /\ hid' = "process_requests" /\ elapsed' = FALSE
    /\ poll_refresh' = [k \in DOMAIN poll_refresh |-> [poll_refresh[k] EXCEPT !.refreshed = TRUE]]
    /\ UNCHANGED <<pageVars, storage, popup, subscribe, request_device>>

Delay ==
    /\ hid = "process_requests" /\ ~elapsed
    /\ elapsed' = TRUE
    /\ UNCHANGED <<network, pageVars, storage, popup, hid, listed, subscribe,
                   request_device, poll_refresh, seen>>

\* select! takes any branch that is ready.
SelectDelay ==
    /\ hid = "process_requests" /\ elapsed
    /\ hid' = "watch"
    /\ Send(Native, Ask("StorageGet", Background, "allowed"))
    /\ UNCHANGED <<pageVars, storage, popup, listed, elapsed, subscribe, request_device, poll_refresh, seen>>

\* reply is sent (the packet of the background page, if from is it, is taken)
\* and select! entered again.  With the delay over (late) it does not pause there:
\* some more of the requests to refresh are answered, then the list is read or, if
\* one waits, a request for a device taken up.
Resume(reply, from, late, waiting) ==
    LET answers(n) == [k \in 1..n |-> Reply("PollRefresh", waiting[k].id, TRUE)]
        goes(pc, n, out) == /\ hid' = pc
                            /\ poll_refresh' = SubSeq(waiting, n + 1, Len(waiting))
                            /\ Emit(Native, from, ToPage(<<reply>> \o answers(n)) ++ out)
    IN  /\ elapsed' = late
        /\ \/ ~late /\ goes("process_requests", 0, Nothing)
           \/ \E n \in 0..Len(waiting) :
                 /\ late
                 /\ \/ goes("watch", n, To(Background, Ask("StorageGet", Background, "allowed")))
                    \/ /\ request_device' # <<>>
                       /\ goes("OpenPopup", n, To(Background, Ask("OpenPopup", Background, "popup")))
        /\ lost' = lost \cup Undelivered(Native, reply, None)
        /\ UNCHANGED <<conn, routes>>

SelectPollRefresh ==
    /\ hid = "process_requests" /\ poll_refresh # <<>>
    /\ UNCHANGED request_device
    /\ Resume(Reply("PollRefresh", Head(poll_refresh).id, TRUE), None, elapsed, Tail(poll_refresh))
    /\ UNCHANGED <<pageVars, storage, popup, listed, subscribe, seen>>

SelectRequestDevice ==
    /\ hid = "process_requests" /\ request_device # <<>>
    /\ hid' = "OpenPopup"
    /\ Send(Native, Ask("OpenPopup", Background, "popup"))
    /\ UNCHANGED <<pageVars, storage, popup, listed, elapsed, subscribe, request_device, poll_refresh, seen>>

\* The request at hand is answered.
Answered(ok, late) ==
    /\ request_device' = Tail(request_device)
    /\ Resume(Reply("RequestDevice", Head(request_device).id, ok), Background, late, poll_refresh)

\* Mutant: the page is not told.
PopupFailedSilently ==
    /\ \/ Awaited("OpenPopup", "OpenPopup")
       \/ Awaited("RequestAccess", "RequestAccess")
    /\ ~Packet(Native, Background).ok
    /\ request_device' = Tail(request_device) /\ hid' = "process_requests"
    /\ Take(Native, Background)
    /\ UNCHANGED <<pageVars, storage, popup, listed, elapsed, subscribe, poll_refresh, seen>>

PopupFailed ==
    /\ \/ Awaited("OpenPopup", "OpenPopup")
       \/ Awaited("RequestAccess", "RequestAccess")
    /\ ~Packet(Native, Background).ok
    /\ \E late \in {elapsed, TRUE} : Answered(FALSE, late)
    /\ UNCHANGED <<pageVars, storage, popup, listed, subscribe, seen>>

PopupOpened ==
    /\ Awaited("OpenPopup", "OpenPopup") /\ Packet(Native, Background).ok
    /\ hid' = "wait_for_connection_to"
    /\ Take(Native, Background)
    /\ UNCHANGED <<pageVars, storage, popup, listed, elapsed, subscribe, request_device, poll_refresh, seen>>

RequestAccess ==
    /\ hid = "wait_for_connection_to" /\ routes[Native][Popup] # <<>>
    /\ hid' = "RequestAccess"
    /\ Send(Native, Ask("RequestAccess", Popup, seen))
    /\ UNCHANGED <<pageVars, storage, popup, listed, elapsed, subscribe, request_device, poll_refresh, seen>>

\* Mutant: the popup can be answered as fast as one can click.
AccessGivenAtOnce ==
    /\ Awaited("RequestAccess", "RequestAccess") /\ Packet(Native, Background).ok
    /\ hid' = IF Packet(Native, Background).arg THEN "approved" ELSE "rejected"
    /\ Answer(Native, Background, Ask("StorageGet", Background, "allowed"))
    /\ UNCHANGED <<pageVars, storage, popup, listed, elapsed, subscribe, request_device, poll_refresh, seen>>

\* The accept button waits five seconds, the delay 400 ms: an approval is late.
AccessGiven ==
    /\ Awaited("RequestAccess", "RequestAccess") /\ Packet(Native, Background).ok
    /\ hid' = IF Packet(Native, Background).arg THEN "approved" ELSE "rejected"
    /\ elapsed' \in IF Packet(Native, Background).arg THEN {TRUE} ELSE {elapsed, TRUE}
    /\ Answer(Native, Background, Ask("StorageGet", Background, "allowed"))
    /\ UNCHANGED <<pageVars, storage, popup, listed, subscribe, request_device, poll_refresh, seen>>

ExtendAllowed ==
    /\ \E pc \in {"approved", "rejected"} :
          /\ Awaited(pc, "StorageGet")
          /\ LET allowed == Packet(Native, Background).arg \/ pc = "approved"
             IN  Answer(Native, Background, Ask("StorageSet", Background, allowed))
          /\ granted' = granted \cup {c \in {Head(request_device).id.caller} : pc = "approved"}
    /\ hid' = "StorageSet"
    /\ UNCHANGED <<page, devices, storage, popup, listed, elapsed, subscribe, request_device,
                   poll_refresh, seen>>

AllowedStored ==
    /\ Awaited("StorageSet", "StorageSet")
    /\ Answered(TRUE, elapsed)
    /\ UNCHANGED <<pageVars, storage, popup, listed, subscribe, seen>>

-----------------------------------------------------------------------------
(* The page: the constructor of Hid and requestDevice() of injected.ts.      *)

\* Where the answer to a request leads.
Following == [OpenNative |-> "SubscribeHid", SubscribeHid |-> "PollRefresh",
              PollRefresh |-> "ready", RequestDevice |-> "PollRefresh1",
              PollRefresh1 |-> "PollRefresh2", PollRefresh2 |-> "ready"]
RequestOf(pc) == IF pc \in {"PollRefresh1", "PollRefresh2"} THEN "PollRefresh" ELSE pc

\* The caller c goes to pc and asks, from being the node whose packet it handles.
\* A request has an id of its own, here its place in the script.
Asks(c, pc, to, from) ==
    /\ page' = [page EXCEPT ![c] = pc]
    /\ Answer(Injected, from, Request(RequestOf(pc), Injected, to, [caller |-> c, at |-> pc], FALSE))

WaitForBackground ==
    /\ page[0] = "waitForConnectionTo" /\ routes[Injected][Background] # <<>>
    /\ Asks(0, "OpenNative", Background, None)
    /\ UNCHANGED <<devices, granted, storage, popup, nativeVars>>

\* A failure of the initialisation is final, so is that of a call for the call.
PageAnswer ==
    /\ Arrives(Injected, Content, "Response")
    /\ LET p == Packet(Injected, Content)
           c == p.id.caller
           next == Following[p.id.at]
       IN  /\ p.receiver = Injected
           /\ \/ /\ page[c] # p.id.at   \* it has timed out
                 /\ Take(Injected, Content) /\ UNCHANGED page
              \/ /\ page[c] = p.id.at /\ ~p.ok
                 /\ page' = [page EXCEPT ![c] = "failed"]
                 /\ Take(Injected, Content)
              \/ /\ page[c] = p.id.at /\ p.ok /\ next # "ready"
                 /\ Asks(c, next, Native, Content)
              \/ /\ page[c] = p.id.at /\ p.ok /\ next = "ready"
                 /\ page' = [page EXCEPT ![c] = "ready"]
                 /\ Take(Injected, Content)
    /\ UNCHANGED <<devices, granted, storage, popup, nativeVars>>

PageTimeout(c) ==
    /\ Timeouts /\ page[c] \notin {"none", "ready", "failed"}
    /\ page' = [page EXCEPT ![c] = "failed"]
    /\ UNCHANGED <<network, devices, granted, storage, popup, nativeVars>>

AddedDevice ==
    /\ Received(Injected, Content, "Notification", "AddedDevice")
    /\ devices' = TRUE
    /\ Take(Injected, Content)
    /\ UNCHANGED <<page, granted, storage, popup, nativeVars>>

\* Mutant: the device stays.
RemovedDeviceKept ==
    /\ Received(Injected, Content, "Notification", "RemovedDevice")
    /\ Take(Injected, Content)
    /\ UNCHANGED <<pageVars, storage, popup, nativeVars>>

RemovedDevice ==
    /\ Received(Injected, Content, "Notification", "RemovedDevice")
    /\ devices' = FALSE
    /\ Take(Injected, Content)
    /\ UNCHANGED <<page, granted, storage, popup, nativeVars>>

\* The page may call it again while it waits for an earlier call.
requestDevice(c) ==
    /\ page[0] = "ready" /\ c # 0 /\ page[c] = "none"
    /\ \A b \in 1..(c - 1) : page[b] # "none"
    /\ Asks(c, "RequestDevice", Native, None)
    /\ UNCHANGED <<devices, granted, storage, popup, nativeVars>>

-----------------------------------------------------------------------------

Network == \E x \in Address : \E n \in Address :
    OnAddForwarded(x, n) \/ OnRemoveForwarded(x, n) \/ Forward(x, n)
Browser ==
    \/ ContentOnConnect \/ BackgroundOnConnect \/ OpenNative \/ StorageGet \/ StorageSet
    \/ OpenPopup \/ PopupOnConnect \/ PopupOpeningTimeout \/ RemovePopup
    \/ AnswerAccess \/ DismissPopup \/ DiscardForPopup
Process ==
    \/ NativeMain \/ NativeRequest \/ OpenFromInject \/ Helo \/ SubscribeHid
    \/ WatchDevices \/ SelectDelay \/ SelectPollRefresh \/ SelectRequestDevice
    \/ PopupFailed \/ PopupOpened \/ RequestAccess \/ AccessGiven \/ ExtendAllowed
    \/ AllowedStored
Page == WaitForBackground \/ PageAnswer \/ AddedDevice \/ RemovedDevice

Plug ==
    /\ plugs < MaxPlugs
    /\ plugged' = ~plugged /\ plugs' = plugs + 1
    /\ UNCHANGED <<network, pageVars, storage, popup, nativeVars>>

Next == \/ /\ \/ Network \/ Browser \/ Process \/ Page \/ Delay
              \/ \E c \in Caller : PageTimeout(c) \/ requestDevice(c)
           /\ UNCHANGED usb
        \/ Plug

Spec == Init /\ [][Next]_vars

\* Every port delivers, every task is scheduled, a window that opens connects,
\* the user answers it, and select!, which starts with a random branch, does not
\* pass over one that is ready for ever.
Step(A) == A /\ UNCHANGED usb
FairSpec ==
    /\ Spec
    /\ \A x \in Address : \A n \in Address :
          WF_vars(Step(OnAddForwarded(x, n) \/ OnRemoveForwarded(x, n) \/ Forward(x, n)))
    /\ WF_vars(Step(Page)) /\ WF_vars(Step(Process)) /\ WF_vars(Step(Delay))
    /\ WF_vars(Step(ContentOnConnect)) /\ WF_vars(Step(BackgroundOnConnect))
    /\ WF_vars(Step(OpenNative \/ StorageGet \/ StorageSet \/ OpenPopup))
    /\ WF_vars(Step(PopupOnConnect)) /\ WF_vars(Step(RemovePopup))
    /\ WF_vars(Step(AnswerAccess)) /\ WF_vars(Step(DiscardForPopup))
    /\ SF_vars(Step(SelectPollRefresh)) /\ SF_vars(Step(SelectRequestDevice))

-----------------------------------------------------------------------------

PagePlaces == DOMAIN Following \cup {"none", "waitForConnectionTo", "ready", "failed"}
PopupPlaces == {"none", "opening", "open", "closing"}
HidPlaces == {"none", "helo", "select", "watch", "process_requests", "OpenPopup",
              "wait_for_connection_to", "RequestAccess", "approved", "rejected", "StorageSet"}
Links == {{Injected, Content}, {Content, Background}, {Background, Native}, {Background, Popup}}

\* Types; packets are only on the links there are, and a via is in a table once.
TypeOK ==
    /\ conn \in [Address -> SUBSET Address]
    /\ \A x \in Address : \A a \in Address :
          /\ routes[x][a] \in Seq(Via) /\ IsInjective(routes[x][a])
          /\ chan[x][a] # <<>> => {x, a} \in Links
    /\ page \in [Caller -> PagePlaces] /\ granted \subseteq Caller \ {0}
    /\ popup \in PopupPlaces /\ hid \in HidPlaces
    /\ {devices, storage, listed, elapsed, plugged, seen} \subseteq BOOLEAN

\* Every node learns of a route before the first packet that needs it, and hid()
\* registers a handler before the page can call it: besides the OpenFromInject
\* nobody handles, only what is meant for a popup that is gone is lost, and the
\* popup goes when the user closes it or, its port still there, the next one opens
\* (rpc.ts 351-415, background.ts 46-51, main.rs 312-319).
NothingLost ==
    lost \subseteq {<<"Notification", "OpenFromInject">>, <<"Request", "RequestAccess">>}

\* What hid() awaits at each of its places, and the packets of these exchanges.
Awaits == [helo |-> "StorageGet", watch |-> "StorageGet", OpenPopup |-> "OpenPopup",
           RequestAccess |-> "RequestAccess", approved |-> "StorageGet", rejected |-> "StorageGet",
           StorageSet |-> "StorageSet"]
OfHid(p) == \/ p.kind = "Request" /\ p.sender = Native
            \/ p.kind = "Response" /\ p.receiver = Native
OnTheWay == UNION {{<<x, y, i>> : i \in {j \in 1..Len(chan[x][y]) : OfHid(chan[x][y][j])}} :
                       x \in Address, y \in Address}

\* hid() has no timeouts and asks one thing at a time: what is under way is what
\* it awaits, a request or its answer, once; and unless the popup is about to open
\* or has gone with the request it is under way (main.rs 289-431, background.ts
\* 34-80, rpc.ts 351-415).
OneAnswer ==
    /\ \A s, t \in OnTheWay : s = t
    /\ \A s \in OnTheWay :
          /\ hid \in DOMAIN Awaits /\ chan[s[1]][s[2]][s[3]].name = Awaits[hid]
          /\ popup # "opening"
    /\ hid \in DOMAIN Awaits /\ OnTheWay = {} =>
          \/ hid = "OpenPopup" /\ popup = "opening"
          \/ hid = "RequestAccess" /\ popup \in {"closing", "none"}

\* Once the ports are empty each JavaScript node has a route to exactly the nodes
\* that are there, the popup that has come and gone included; the native process
\* has one at least (rpc.ts 299-349 and 435-453, rpc.rs 684-702).
Converged ==
    LET linked == {n \in Address : conn[n] # {}}
    IN  (conn[Content] # {} /\ \A x \in Address : chan[x] = Nothing) =>
            /\ \A x \in linked : \A a \in linked \ {x} : routes[x][a] # <<>>
            /\ \A x \in linked \ {Native} : \A a \in Address \ linked : routes[x][a] = <<>>

\* A call of requestDevice() returns with the device that was approved for it, or
\* for one before it, if it has been there all the time (injected.ts 239-263,
\* main.rs 321-431): PollRefresh does not wait for a refresh, but by the time the
\* user can accept the delay is over, and the list is read before the second
\* PollRefresh is answered, also when a second call waits for its popup meanwhile.
\* (With three calls at once it may not be: two popups that are rejected in less
\* than the second a PollRefresh may take can go before the list.)
ApprovedIsListed ==
    \A a \in granted : \A c \in a..MaxRequests :
        page[c] = "ready" /\ plugs = 0 => devices

\* The user has closed the popup that hid() waits for.
Abandoned == hid = "RequestAccess" /\ popup = "none"

\* A call of requestDevice() ends without its timeout, the popup failing to open
\* or not, unless hid() is left waiting for an answer for ever (main.rs 355-423,
\* background.ts 52-77).
CallReturns ==
    <>[]Abandoned \/ \A c \in Caller \ {0} :
        page[c] = "RequestDevice" ~> page[c] \in {"ready", "failed"}

\* The page ends up with the device if and only if it is there and allowed, with
\* the same exception (main.rs 321-340, injected.ts 212-222).
WatcherConverges == <>[]Abandoned \/ <>[](devices <=> storage /\ plugged)

\* README.adoc 77-78: "B->>+N: OpenFromInject", "N->>-B: [response]".
OpenFromInjectHandled == <<"Notification", "OpenFromInject">> \notin lost

\* main.rs 299 of PollRefresh: "This request will be completed after device
\* refresh".
CompletedAfterRefresh ==
    [][Len(poll_refresh') < Len(poll_refresh) => poll_refresh[1].refreshed]_vars
=============================================================================
