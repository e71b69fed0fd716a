------------------------------- MODULE Device -------------------------------
(* A HidDevice of the page (addon/injected.ts) and the native processes its  *)
(* open() starts: main() and device() of src/main.rs, with the polling       *)
(* notifications of bifrostlink/src/polling/notification.rs between them.    *)
(* Each call of open() has a chain of ports of its own to a native process   *)
(* of its own, here one FIFO in each direction; HidFox models the hops.      *)
EXTENDS AllowedList, Sequences, SequencesExt

CONSTANTS Dev,          \* the serial number of the device
          MaxOpens,     \* bound: calls of open()
          Script,       \* bound: the calls the page makes in each session, in this order
          MaxReports,   \* bound: input reports of the device
          Odd           \* the input reports that are not 64 or 65 bytes long

ASSUME DeviceAssumption ==
    Dev \in Serial /\ MaxOpens \in Nat /\ MaxReports \in Nat

Session == 1..MaxOpens
Output == {"SendReport", "SendFeatureReport"}
Call == DOMAIN Script   \* a call is named by its place in the script

ASSUME ScriptAssumption == Script \in Seq(Output \cup {"ReceiveFeatureReport"})

VARIABLES plugged,    \* whether the device is plugged in
          emitted,    \* how many input reports it has sent
          object,     \* the HidDevice in Hid: "none", "listed" or "removed"
          rpc,        \* HidDevice.#_rpc: a session, or 0
          opening,    \* opening[s]: "none", "connecting", "asked", "open" or "failed"
          port,       \* port[s]: the in-page port is "up", "disconnecting" or "down"
          toNative,   \* toNative[s]: packets of the page on their way
          toPage,     \* toPage[s]: packets of the native process on their way
          task,       \* task[s]: where main() of the native process is
          selecting,  \* selecting[s]: device() is at its select!
          input,      \* input[s]: input reports the system holds for device()
          channel,    \* channel[s][k]: notifications device() has not received
          requests,   \* requests[s]: the ReceiveFeatureReports device() has not got
          calls,      \* calls[s]: how many calls the page has made
          written,    \* written[s]: ghost, the calls that reached the device, in order
          waiting,    \* waiting[s]: the calls whose answer the page awaits
          first,      \* first[s]: ghost, the first input report after device() opened
          since,      \* since[s]: ghost, the first call after it registered its handlers
          received    \* received[s]: ghost, the input reports the page has got

pageVars == <<object, rpc, opening, port, calls, waiting, received>>
nativeVars == <<task, selecting, input, channel, requests, written, first, since>>
vars == <<listVars, plugged, emitted, toNative, toPage, pageVars, nativeVars>>

Init ==
    /\ ListInit
    /\ plugged = TRUE /\ emitted = 0 /\ object = "none" /\ rpc = 0
    /\ opening = [s \in Session |-> "none"] /\ port = [s \in Session |-> "down"]
    /\ toNative = [s \in Session |-> <<>>] /\ toPage = [s \in Session |-> <<>>]
    /\ task = [s \in Session |-> "none"] /\ selecting = [s \in Session |-> FALSE]
    /\ input = [s \in Session |-> <<>>]
    /\ channel = [s \in Session |-> [k \in Output |-> <<>>]]
    /\ requests = [s \in Session |-> <<>>]
    /\ calls = [s \in Session |-> 0] /\ written = [s \in Session |-> <<>>]
    /\ waiting = [s \in Session |-> {}]
    /\ first = [s \in Session |-> 0] /\ since = [s \in Session |-> 0]
    /\ received = [s \in Session |-> <<>>]

Packet(kind, n) == [kind |-> kind, n |-> n]
ToPage(s, q) == toPage' = [toPage EXCEPT ![s] = @ \o q]

-----------------------------------------------------------------------------
(* The device and the device watcher of the page.                            *)

\* Every native process that has the device open gets a copy.
Emits ==
    /\ plugged /\ emitted < MaxReports
    /\ emitted' = emitted + 1
    /\ input' = [s \in Session |-> IF task[s] = "device" THEN Append(input[s], emitted + 1)
                                                        ELSE input[s]]
    /\ UNCHANGED <<listVars, plugged, toNative, toPage, pageVars, task, selecting, channel,
                   requests, written, first, since>>

Unplugs ==
    /\ plugged /\ plugged' = FALSE
    /\ UNCHANGED <<listVars, emitted, toNative, toPage, pageVars, nativeVars>>

AddedDevice ==
    /\ object = "none" /\ plugged /\ Dev \in allowed
    /\ object' = "listed"
    /\ UNCHANGED <<listVars, plugged, emitted, toNative, toPage, rpc, opening, port, calls,
                   waiting, received, nativeVars>>

\* close() and [onDisconnect](): only the in-page port hears of it.
Closes ==
    /\ rpc' = 0
    /\ port' = IF rpc = 0 THEN port ELSE [port EXCEPT ![rpc] = "disconnecting"]

RemovedDevice ==
    /\ object = "listed" /\ (~plugged \/ Dev \notin allowed)
    /\ object' = "removed"
    /\ Closes
    /\ UNCHANGED <<listVars, plugged, emitted, toNative, toPage, opening, calls, waiting,
                   received, nativeVars>>

-----------------------------------------------------------------------------
(* The page.  It keeps a HidDevice as long as it likes and may open it twice. *)

open(s) ==
    /\ object # "none" /\ opening[s] = "none"
    /\ \A r \in 1..(s - 1) : opening[r] # "none"
    /\ opening' = [opening EXCEPT ![s] = "connecting"]
    /\ port' = [port EXCEPT ![s] = "up"]
    /\ UNCHANGED <<listVars, plugged, emitted, toNative, toPage, object, rpc, calls,
                   waiting, received, nativeVars>>

\* The answer to OpenNative: the native process runs, and ConnectHid is sent.
OpenNativeAnswered(s) ==
    /\ opening[s] = "connecting"
    /\ opening' = [opening EXCEPT ![s] = "asked"]
    /\ task' = [task EXCEPT ![s] = "main"]
    /\ toNative' = [toNative EXCEPT ![s] = Append(@, Packet("ConnectHid", 0))]
    /\ UNCHANGED <<listVars, plugged, emitted, toPage, object, rpc, port, calls, waiting,
                   received, selecting, input, channel, requests, written, first, since>>

\* Only the timeout of ConnectHid is caught and disconnects the port.
OpenTimesOut(s) ==
    /\ opening[s] \in {"connecting", "asked"}
    /\ opening' = [opening EXCEPT ![s] = "failed"]
    /\ port' = IF opening[s] = "asked" THEN [port EXCEPT ![s] = "disconnecting"] ELSE port
    /\ UNCHANGED <<listVars, plugged, emitted, toNative, toPage, object, rpc, calls, waiting,
                   received, nativeVars>>

\* sendReport, sendFeatureReport and receiveFeatureReport of an opened device.  A
\* packet for a native process that has ended is given up on the way, a request
\* with an error.  The timeout of a request changes nothing here but waiting.
Calls(n) ==
    /\ rpc # 0 /\ n = calls[rpc] + 1
    /\ calls' = [calls EXCEPT ![rpc] = n]
    /\ toNative' = [toNative EXCEPT ![rpc] = Append(@, Packet(Script[n], n))]
    /\ waiting' = IF Script[n] \in Output THEN waiting
                  ELSE [waiting EXCEPT ![rpc] = @ \cup {n}]
    /\ UNCHANGED <<listVars, plugged, emitted, toPage, object, rpc, opening, port, received,
                   nativeVars>>

close ==
    /\ rpc # 0
    /\ Closes
    /\ UNCHANGED <<listVars, plugged, emitted, toNative, toPage, object, opening, calls,
                   waiting, received, nativeVars>>

\* The content script hears that the port is disconnected.
Disconnected(s) ==
    /\ port[s] = "disconnecting"
    /\ port' = [port EXCEPT ![s] = "down"]
    /\ UNCHANGED <<listVars, plugged, emitted, toNative, toPage, object, rpc, opening, calls,
                   waiting, received, nativeVars>>

\* From then on it does not forward to the page; until then the page hears what
\* its port brings.
Hears(s) ==
    /\ toPage[s] # <<>>
    /\ toPage' = [toPage EXCEPT ![s] = Tail(@)]
    /\ LET m == Head(toPage[s])
       IN  \/ /\ port[s] # "down" /\ m.kind = "Connected" /\ opening[s] = "asked"
              /\ opening' = [opening EXCEPT ![s] = "open"] /\ rpc' = s
              /\ UNCHANGED <<waiting, received>>
           \/ /\ port[s] # "down" /\ m.kind = "Report"
              /\ received' = [received EXCEPT ![s] = Append(@, m.n)]
              /\ UNCHANGED <<opening, rpc, waiting>>
           \/ /\ port[s] # "down" /\ m.kind \in {"FeatureReport", "Error"}
              /\ waiting' = [waiting EXCEPT ![s] = @ \ {m.n}]
              /\ UNCHANGED <<opening, rpc, received>>
           \/ /\ port[s] = "down" \/ (m.kind = "Connected" /\ opening[s] # "asked")
              /\ UNCHANGED <<opening, rpc, waiting, received>>
    /\ UNCHANGED <<listVars, plugged, emitted, toNative, object, port, calls, nativeVars>>

-----------------------------------------------------------------------------
(* The worker of a native process takes a packet.                            *)

\* ConnectHid is answered before device() has looked for the device.
ConnectHid(s) ==
    /\ task' = [task EXCEPT ![s] = "listing"]
    /\ ToPage(s, <<Packet("Connected", 0)>>)
    /\ UNCHANGED <<channel, requests>>

\* The handlers, the tasks that decode and the receivers of device() are there while
\* it runs, and come and go together for all that it sees.
Registered(s) == task[s] = "device"

\* Mutant: both kinds of reports go into one channel.
NotifiedMixed(s, m) ==
    /\ channel' = IF Registered(s)
                  THEN [channel EXCEPT ![s]["SendFeatureReport"] = Append(@, m.n)]
                  ELSE channel
    /\ UNCHANGED <<task, toPage, requests>>

\* Without a handler, or with one whose receiver has been dropped, a notification
\* is lost.
Notified(s, m) ==
    /\ channel' = IF Registered(s) THEN [channel EXCEPT ![s][m.kind] = Append(@, m.n)]
                                   ELSE channel
    /\ UNCHANGED <<task, toPage, requests>>

\* A request without a handler, or to a process that has ended, is refused.
Requested(s, m) ==
    /\ IF Registered(s)
       THEN requests' = [requests EXCEPT ![s] = Append(@, m.n)] /\ UNCHANGED toPage
       ELSE ToPage(s, <<Packet("Error", m.n)>>) /\ UNCHANGED requests
    /\ UNCHANGED <<task, channel>>

\* A process that has panicked but still reads its port takes a packet with it.
Swallowed(s) ==
    /\ task' = [task EXCEPT ![s] = "dead"]
    /\ UNCHANGED <<toPage, channel, requests>>

Worker(s) ==
    /\ toNative[s] # <<>>
    /\ toNative' = [toNative EXCEPT ![s] = Tail(@)]
    /\ LET m == Head(toNative[s])
       IN  \/ task[s] # "panicked" /\ m.kind = "ConnectHid" /\ ConnectHid(s)
           \/ task[s] # "panicked" /\ m.kind \in Output /\ Notified(s, m)
           \/ task[s] # "panicked" /\ m.kind = "ReceiveFeatureReport" /\ Requested(s, m)
           \/ task[s] = "panicked" /\ Swallowed(s)
    /\ UNCHANGED <<listVars, plugged, emitted, pageVars, selecting, input, written, first, since>>

-----------------------------------------------------------------------------
(* device().                                                                 *)

\* The list is read, the device looked for and opened, and the handlers are
\* registered, with no await after the first of these.
Starts(s) ==
    /\ task[s] = "listing"
    /\ \E read \in Lists :
          \/ /\ Dev \in read /\ plugged
             /\ task' = [task EXCEPT ![s] = "device"]
             /\ first' = [first EXCEPT ![s] = emitted + 1]
             /\ since' = [since EXCEPT ![s] = calls[s] - Len(toNative[s]) + 1]
          \/ /\ task' = [task EXCEPT ![s] = "over"]   \* not found, or it can not be opened
             /\ UNCHANGED <<first, since>>
    /\ UNCHANGED <<listVars, plugged, emitted, toNative, toPage, pageVars, selecting, input,
                   channel, requests, written>>

NoChannels == [k \in Output |-> <<>>]
ErrorsFor(q) == [j \in DOMAIN q |-> Packet("Error", q[j])]
ReportsOf(q) == [j \in DOMAIN q |-> Packet("Report", q[j])]

\* device() returns: the receivers and the stream of requests are dropped, and the
\* requests in it answer for themselves.
Returns(s, sent) ==
    /\ task' = [task EXCEPT ![s] = "over"]
    /\ channel' = [channel EXCEPT ![s] = NoChannels]
    /\ requests' = [requests EXCEPT ![s] = <<>>]
    /\ input' = [input EXCEPT ![s] = <<>>]
    /\ ToPage(s, ReportsOf(sent) \o ErrorsFor(requests[s]))
    /\ UNCHANGED selecting

\* A panic ends main().  What the worker has not written is lost with it.
Panics(s) ==
    /\ task' = [task EXCEPT ![s] = "panicked"]
    /\ channel' = [channel EXCEPT ![s] = NoChannels]
    /\ requests' = [requests EXCEPT ![s] = <<>>]
    /\ input' = [input EXCEPT ![s] = <<>>]
    /\ \E n \in 0..Len(toPage[s]) : toPage' = [toPage EXCEPT ![s] = SubSeq(@, 1, n)]
    /\ UNCHANGED selecting

\* Mutant: only the latest report is of interest.
ReadsLatest(s) ==
    /\ task[s] = "device" /\ ~selecting[s]
    /\ selecting' = [selecting EXCEPT ![s] = TRUE]
    /\ input' = [input EXCEPT ![s] = <<>>]
    /\ IF input[s] = <<>> THEN UNCHANGED toPage ELSE ToPage(s, ReportsOf(<<Last(input[s])>>))
    /\ UNCHANGED <<listVars, plugged, emitted, toNative, pageVars, task, channel,
                   requests, written, first, since>>

\* The inner loop reads until nothing is there.  A report of another length ends in
\* unreachable!, a device that is gone in a return.
Reads(s) ==
    /\ task[s] = "device" /\ ~selecting[s]
    /\ \/ /\ plugged /\ ToSet(input[s]) \cap Odd = {}
          /\ selecting' = [selecting EXCEPT ![s] = TRUE]
          /\ input' = [input EXCEPT ![s] = <<>>]
          /\ ToPage(s, ReportsOf(input[s]))
          /\ UNCHANGED <<task, channel, requests>>
       \/ ToSet(input[s]) \cap Odd # {} /\ Panics(s)
       \/ /\ ~plugged
          /\ \E n \in 0..Len(input[s]) :
                /\ ToSet(SubSeq(input[s], 1, n)) \cap Odd = {}
                /\ Returns(s, SubSeq(input[s], 1, n))
    /\ UNCHANGED <<listVars, plugged, emitted, toNative, pageVars, written, first, since>>

\* Mutant: what waits is skipped for the latest report.
WritesLatest(s, k) ==
    /\ task[s] = "device" /\ selecting[s] /\ channel[s][k] # <<>>
    /\ selecting' = [selecting EXCEPT ![s] = FALSE]
    /\ channel' = [channel EXCEPT ![s][k] = <<>>]
    /\ written' = [written EXCEPT ![s] = Append(@, Last(channel[s][k]))]
    /\ UNCHANGED <<listVars, plugged, emitted, toNative, toPage, pageVars, task, input,
                   requests, first, since>>

\* select!: a branch that is ready is taken.  A report the device does not take
\* ends in a panic, also when it was unplugged since the last read.
WritesReport(s, k) ==
    /\ task[s] = "device" /\ selecting[s] /\ channel[s][k] # <<>>
    /\ \/ /\ plugged
          /\ selecting' = [selecting EXCEPT ![s] = FALSE]
          /\ channel' = [channel EXCEPT ![s][k] = Tail(@)]
          /\ written' = [written EXCEPT ![s] = Append(@, Head(channel[s][k]))]
          /\ UNCHANGED <<task, input, requests, toPage>>
       \/ Panics(s) /\ UNCHANGED written
    /\ UNCHANGED <<listVars, plugged, emitted, toNative, pageVars, first, since>>

\* Mutant: a device that does not answer is nothing to tell.
ReceivesFeatureReportSilently(s) ==
    /\ task[s] = "device" /\ selecting[s] /\ requests[s] # <<>>
    /\ selecting' = [selecting EXCEPT ![s] = FALSE]
    /\ requests' = [requests EXCEPT ![s] = Tail(@)]
    /\ \/ plugged /\ ToPage(s, <<Packet("FeatureReport", Head(requests[s]))>>)
       \/ UNCHANGED toPage
    /\ UNCHANGED <<listVars, plugged, emitted, toNative, pageVars, task, input, channel,
                   written, first, since>>

ReceivesFeatureReport(s) ==
    /\ task[s] = "device" /\ selecting[s] /\ requests[s] # <<>>
    /\ selecting' = [selecting EXCEPT ![s] = FALSE]
    /\ requests' = [requests EXCEPT ![s] = Tail(@)]
    /\ \/ plugged /\ ToPage(s, <<Packet("FeatureReport", Head(requests[s]))>>)
       \/ ToPage(s, <<Packet("Error", Head(requests[s]))>>)
    /\ UNCHANGED <<listVars, plugged, emitted, toNative, pageVars, task, input, channel,
                   written, first, since>>

Delay(s) ==
    /\ task[s] = "device" /\ selecting[s]
    /\ selecting' = [selecting EXCEPT ![s] = FALSE]
    /\ UNCHANGED <<listVars, plugged, emitted, toNative, toPage, pageVars, task, input, channel,
                   requests, written, first, since>>

-----------------------------------------------------------------------------

ListStep == ListNext /\ UNCHANGED <<plugged, emitted, toNative, toPage, pageVars, nativeVars>>

Page(s) ==
    \/ open(s) \/ OpenNativeAnswered(s) \/ OpenTimesOut(s) \/ Disconnected(s) \/ Hears(s)
Native(s) ==
    \/ Worker(s) \/ Starts(s) \/ Reads(s) \/ ReceivesFeatureReport(s) \/ Delay(s)
    \/ \E k \in Output : WritesReport(s, k)

Next ==
    \/ ListStep \/ Emits \/ Unplugs \/ AddedDevice \/ RemovedDevice \/ close
    \/ \E n \in Call : Calls(n)
    \/ \E s \in Session : Page(s) \/ Native(s)

Spec == Init /\ [][Next]_vars

\* Ports deliver, tasks are scheduled, and select! takes a random branch.
FairSpec ==
    /\ Spec
    /\ \A s \in Session :
          /\ WF_vars(OpenNativeAnswered(s)) /\ WF_vars(Hears(s)) /\ WF_vars(Worker(s))
          /\ WF_vars(Starts(s)) /\ WF_vars(Reads(s)) /\ WF_vars(Delay(s))
          /\ SF_vars(ReceivesFeatureReport(s))

-----------------------------------------------------------------------------

TypeOK ==
    /\ ListTypeOK
    /\ plugged \in BOOLEAN /\ emitted \in 0..MaxReports /\ rpc \in 0..MaxOpens
    /\ object \in {"none", "listed", "removed"}
    /\ opening \in [Session -> {"none", "connecting", "asked", "open", "failed"}]
    /\ port \in [Session -> {"up", "disconnecting", "down"}]
    /\ task \in [Session -> {"none", "main", "listing", "device", "over", "panicked", "dead"}]
    /\ selecting \in [Session -> BOOLEAN]
    /\ \A s \in Session :
          /\ input[s] \in Seq(1..MaxReports) /\ requests[s] \in Seq(Call)
          /\ calls[s] \in 0..Len(Script) /\ waiting[s] \subseteq 1..calls[s]
          /\ \A k \in Output : \A n \in ToSet(channel[s][k]) : n \in Call /\ Script[n] = k

\* A device is opened only after the user has approved it in the popup of some
\* page: the list the popup's answer ends up in is read again by every process
\* (main.rs 466-475).
OnlyApprovedOpened == \A s \in Session : task[s] = "device" => Dev \in stored

\* What the page gets from one session are the input reports of the device from
\* the moment it was opened, in order and without a gap, however device(), the
\* page and the unplugging of the device interleave (main.rs 498-534).
InputWithoutGap ==
    \A s \in Session : \A j \in DOMAIN received[s] : received[s][j] = first[s] + j - 1

\* Of the output reports of a kind, those that reach the device are the first that
\* come after device() has registered its handlers, in the order of the calls and
\* without a gap: some may be lost before that and some after it has ended, none in
\* between (main.rs 126, 489-494 and 537-557, notification.rs 79-117).
OutputWithoutGap ==
    \A s \in Session : \A j \in DOMAIN written[s] :
        LET n == written[s][j]
        IN  /\ since[s] <= n
            /\ \A i \in 1..(j - 1) : written[s][i] # n
            /\ \A c \in since[s]..(n - 1) : Script[c] = Script[n] =>
                   \E i \in 1..(j - 1) : written[s][i] = c

\* receiveFeatureReport() is answered without its timeout, with a report or an error,
\* also when device() has not found the device, has not come that far or has
\* returned; unless the native process panics or the page closes the device
\* (main.rs 469-487, 558-573, request.rs 82-93).
FeatureReportAnswered ==
    \A s \in Session : \A n \in Call :
        n \in waiting[s] ~> (n \notin waiting[s] \/ port[s] # "up" \/ task[s] \in {"panicked", "dead"})
=============================================================================
