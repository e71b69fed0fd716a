------------------------------- MODULE InPage -------------------------------
(* The ports between the injected script and the content script of a page    *)
(* (addon/inpage.ts): two WindowMessageChannels over the messages of one     *)
(* window, and the ports that one of them opens and the other accepts.  The  *)
(* injected script connects, disconnects when a HidDevice is closed, and     *)
(* closes its channel when the extension is reloaded (addon/injected.ts).    *)
EXTENDS Naturals, Sequences, FiniteSets, SequencesExt

CONSTANTS Port,        \* the ids generateId returns
          Side,        \* the two ends of the channel
          Connects,    \* the end that opens ports
          Disconnects, \* the ends that call disconnect and close
          MaxMessages  \* bound: messages posted over all ports

ASSUME InPageAssumption ==
    /\ \E s \in Side : s # Connects /\ Side = {Connects, s}
    /\ Disconnects \subseteq Side /\ IsFiniteSet(Port) /\ MaxMessages \in Nat

VARIABLES ports,          \* ports[s]: the map of the channel of s
          port,           \* port[s][p]: "none", "connected" or "gone"
          disconnecting,  \* disconnecting[s]: its ports on which disconnect was called
          channel,        \* channel[s]: "open", "closing" or "closed"
          window,         \* the messages the window has not dispatched
          posted,         \* posted[s][p]: how many messages s has posted over p
          received,       \* received[s][p]: those that have reached s
          told,           \* told[s][p]: how often onDisconnect has been called at s
          failed          \* the calls that have thrown

vars == <<ports, port, disconnecting, channel, window, posted, received, told, failed>>

Other(s) == CHOOSE t \in Side : t # s
Accepts == Other(Connects)

openPort == "openPort"
message == "message"
disconnectRequest == "disconnect"
InPagePacket == [id : Port, recipient : Side, request : {openPort, message, disconnectRequest},
                 data : 0..MaxMessages]
Packet(s, p, r, n) == [id |-> p, recipient |-> Other(s), request |-> r, data |-> n]

Init ==
    /\ ports = [s \in Side |-> {}]
    /\ port = [s \in Side |-> [p \in Port |-> "none"]]
    /\ disconnecting = [s \in Side |-> {}]
    /\ channel = [s \in Side |-> "open"]
    /\ window = <<>>
    /\ posted = [s \in Side |-> [p \in Port |-> 0]]
    /\ received = [s \in Side |-> [p \in Port |-> <<>>]]
    /\ told = [s \in Side |-> [p \in Port |-> 0]]
    /\ failed = {}

-----------------------------------------------------------------------------
(* WindowMessagePort.                                                        *)

Posted ==
    Cardinality({m \in (Side \X Port) \X (1..MaxMessages) : m[2] <= posted[m[1][1]][m[1][2]]})

Registered(s, p) ==
    /\ ports' = [ports EXCEPT ![s] = @ \cup {p}]
    /\ port' = [port EXCEPT ![s][p] = "connected"]

\* Mutant: the port stays in the map of the channel.
DisconnectedKept(s, p) ==
    /\ port' = [port EXCEPT ![s][p] = "gone"]
    /\ told' = [told EXCEPT ![s][p] = @ + 1]
    /\ UNCHANGED ports

\* A disconnect request of the other end.
Disconnected(s, p) ==
    /\ port' = [port EXCEPT ![s][p] = "gone"]
    /\ ports' = [ports EXCEPT ![s] = @ \ {p}]
    /\ told' = [told EXCEPT ![s][p] = @ + 1]

\* Mutant: the message goes before those that wait.
postMessageAhead(s, p) ==
    /\ port[s][p] # "none" /\ Posted < MaxMessages
    /\ posted' = [posted EXCEPT ![s][p] = @ + 1]
    /\ window' = <<Packet(s, p, message, posted[s][p] + 1)>> \o window
    /\ UNCHANGED <<ports, port, disconnecting, channel, received, told, failed>>

\* Neither postMessage nor disconnect looks whether the port is still connected.
postMessage(s, p) ==
    /\ port[s][p] # "none"
    /\ Posted < MaxMessages
    /\ posted' = [posted EXCEPT ![s][p] = @ + 1]
    /\ window' = Append(window, Packet(s, p, message, posted[s][p] + 1))
    /\ UNCHANGED <<ports, port, disconnecting, channel, received, told, failed>>

\* Mutant: a disconnect that is not sent.
disconnectSilently(s, p) ==
    /\ s \in Disconnects /\ port[s][p] # "none" /\ p \notin disconnecting[s]
    /\ disconnecting' = [disconnecting EXCEPT ![s] = @ \cup {p}]
    /\ UNCHANGED <<window, ports, port, channel, posted, received, told, failed>>

\* The own port is told nothing: it stays in the map and connected.
disconnect(s, p) ==
    /\ s \in Disconnects
    /\ port[s][p] # "none" /\ p \notin disconnecting[s]
    /\ disconnecting' = [disconnecting EXCEPT ![s] = @ \cup {p}]
    /\ window' = Append(window, Packet(s, p, disconnectRequest, 0))
    /\ UNCHANGED <<ports, port, channel, posted, received, told, failed>>

-----------------------------------------------------------------------------
(* WindowMessageChannel.                                                     *)

connect(p) ==
    /\ channel[Connects] = "open"
    /\ port[Connects][p] = "none"
    /\ Registered(Connects, p)
    /\ window' = Append(window, Packet(Connects, p, openPort, 0))
    /\ UNCHANGED <<disconnecting, channel, posted, received, told, failed>>

handleIncomingMessage(s, m) ==
    IF m.id \notin ports[s] THEN UNCHANGED <<ports, port, told, received>>
    ELSE IF m.request = message
    THEN received' = [received EXCEPT ![s][m.id] = Append(@, m.data)]
         /\ UNCHANGED <<ports, port, told>>
    ELSE Disconnected(s, m.id) /\ UNCHANGED received

\* The listener of the channel is removed only at the end of close.
messageListener ==
    /\ window # <<>>
    /\ window' = Tail(window)
    /\ LET m == Head(window)
           s == m.recipient
       IN  IF channel[s] = "closed" THEN UNCHANGED <<ports, port, told, received>>
           ELSE IF m.request = openPort
           THEN Registered(s, m.id) /\ UNCHANGED <<told, received>>
           ELSE handleIncomingMessage(s, m)
    /\ UNCHANGED <<disconnecting, channel, posted, failed>>

\* close of the end that opened the ports goes through them and calls disconnect,
\* which throws for a port that is disconnecting: the ports after it, and the
\* listener, are left as they are.  The other end tells its own ports.
closeOutgoing(s) ==
    LET busy == ports[s] \cap disconnecting[s]
    IN  /\ s = Connects
        /\ \E reached \in SUBSET (ports[s] \ busy) :
               /\ busy = {} => reached = ports[s]
               /\ disconnecting' = [disconnecting EXCEPT ![s] = @ \cup reached]
               /\ LET order == SetToSeq(reached)
                  IN  window' = window \o
                          [i \in DOMAIN order |-> Packet(s, order[i], disconnectRequest, 0)]
        /\ channel' = [channel EXCEPT ![s] = IF busy = {} THEN "closed" ELSE "closing"]
        /\ failed' = IF busy = {} THEN failed ELSE failed \cup {s}
        /\ UNCHANGED <<ports, port, told>>

\* Mutant: ports are told and stay in the map.
closeIncomingKeeps(s) ==
    /\ s = Accepts
    /\ port' = [port EXCEPT ![s] = [p \in Port |-> IF p \in ports[s] THEN "gone" ELSE @[p]]]
    /\ told' = [told EXCEPT ![s] = [p \in Port |-> @[p] + (IF p \in ports[s] THEN 1 ELSE 0)]]
    /\ channel' = [channel EXCEPT ![s] = "closed"]
    /\ UNCHANGED <<ports, disconnecting, window, failed>>

closeIncoming(s) ==
    /\ s = Accepts
    /\ ports' = [ports EXCEPT ![s] = {}]
    /\ port' = [port EXCEPT ![s] = [p \in Port |-> IF p \in ports[s] THEN "gone" ELSE @[p]]]
    /\ told' = [told EXCEPT ![s] = [p \in Port |-> @[p] + (IF p \in ports[s] THEN 1 ELSE 0)]]
    /\ channel' = [channel EXCEPT ![s] = "closed"]
    /\ UNCHANGED <<disconnecting, window, failed>>

close(s) ==
    /\ s \in Disconnects /\ channel[s] = "open"
    /\ closeOutgoing(s) \/ closeIncoming(s)
    /\ UNCHANGED <<posted, received>>

-----------------------------------------------------------------------------

Next ==
    \/ messageListener
    \/ \E p \in Port : connect(p) \/ \E s \in Side : postMessage(s, p) \/ disconnect(s, p)
    \/ \E s \in Side : close(s)

Spec == Init /\ [][Next]_vars

\* The window dispatches its messages.
FairSpec == Spec /\ WF_vars(messageListener)

-----------------------------------------------------------------------------

TypeOK ==
    /\ ports \in [Side -> SUBSET Port] /\ disconnecting \in [Side -> SUBSET Port]
    /\ port \in [Side -> [Port -> {"none", "connected", "gone"}]]
    /\ channel \in [Side -> {"open", "closing", "closed"}]
    /\ window \in Seq(InPagePacket)
    /\ posted \in [Side -> [Port -> 0..MaxMessages]]
    /\ received \in [Side -> [Port -> Seq(1..MaxMessages)]]
    /\ failed \subseteq Side
    /\ \A s \in Side : ports[s] = {p \in Port : port[s][p] = "connected"}

\* A message reaches the port it was posted over, once and in order; what is lost
\* is lost from some message on, never between two that arrive, also when both ends
\* disconnect at once (inpage.ts 37-57 and 114-136).
ReceivedInOrder ==
    \A s \in Side : \A p \in Port :
        \A i \in DOMAIN received[s][p] : received[s][p][i] = i

\* A port is told of its end at most once, and never throws 'already disconnected':
\* not when the two ends disconnect at once and not when a channel closes under it
\* (inpage.ts 73-84 and 117-122).
ToldOnce ==
    \A s \in Side : \A p \in Port :
        told[s][p] = IF port[s][p] = "gone" THEN 1 ELSE 0

\* A disconnect is heard: the other end is told unless it has closed for itself
\* (inpage.ts 117-122 and 128-132).
DisconnectHeard ==
    \A s \in Side : \A p \in Port :
        p \in disconnecting[s] ~>
            (told[Other(s)][p] = 1 \/ channel[Other(s)] = "closed")

\* injected.ts 36 "If not polyfilled/on reload": the script of a reloaded extension
\* calls cleanup of the one before and takes its place, so close() has to end.
CloseEnds == failed = {}
=============================================================================
