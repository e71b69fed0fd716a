---------------------------- MODULE DeviceProofs ----------------------------
(* For any processes, devices, sessions and script of calls: what the list   *)
(* of allowed devices can lose and what it can not, that device() opens      *)
(* nothing the user has not approved, and that reports pass an opened device *)
(* in both directions without a gap.                                         *)
EXTENDS Device, TLAPS

-----------------------------------------------------------------------------
(* The list.  A process that is about to write holds what it will write.     *)

\* What a process that is about to write lacks of the approvals is dropped already,
\* or it could not have seen it.
LacksUnseen ==
    \A p \in Process :
        step[p] = "writing" => stored \ list[p] \subseteq dropped \cup unseen[p]

\* What is written is what the list had or the user has approved.
Extended ==
    \A p \in Process :
        step[p] = "writing" => /\ approved[p] \subseteq list[p]
                               /\ list[p] \subseteq stored \cup approved[p]

OnlyApprovals == allowed \subseteq stored /\ dropped \cap allowed = {}

ListIInv == ListTypeOK /\ ApprovalsKept /\ LacksUnseen /\ Extended /\ OnlyApprovals

LEMMA ListInitIInv == ListInit => ListIInv
BY DEF ListInit, ListIInv, ListTypeOK, ApprovalsKept, LacksUnseen, Extended, OnlyApprovals

LEMMA AccessAnsweredIInv ==
    ASSUME ListIInv, NEW p \in Process, NEW S \in SUBSET Serial, AccessAnswered(p, S)
    PROVE  ListIInv'
BY DEF AccessAnswered, ghosts, ListIInv, ListTypeOK, ApprovalsKept, LacksUnseen, Extended, OnlyApprovals

LEMMA ReadsAndExtendsIInv ==
    ASSUME ListIInv, NEW p \in Process, ReadsAndExtends(p)
    PROVE  ListIInv'
<1> USE DEF ListIInv
<1>1. PICK read \in Lists :
          /\ list' = [list EXCEPT ![p] = read \cup approved[p]]
          /\ unseen' = [unseen EXCEPT ![p] = allowed \ read]
    BY DEF ReadsAndExtends
<1>2. /\ step' = [step EXCEPT ![p] = "writing"] /\ step[p] = "reading"
      /\ UNCHANGED <<allowed, approved, stored, dropped>>
    BY DEF ReadsAndExtends
<1>3. read \subseteq allowed /\ read \subseteq Serial
    BY DEF Lists, ListTypeOK
<1>4. ListTypeOK'
    BY <1>1, <1>2, <1>3 DEF ListTypeOK
<1>5. ApprovalsKept' /\ OnlyApprovals'
    BY <1>2 DEF ApprovalsKept, OnlyApprovals
<1>6. LacksUnseen'
    <2> SUFFICES ASSUME NEW q \in Process, step'[q] = "writing"
                 PROVE  stored \ list'[q] \subseteq dropped \cup unseen'[q]
        BY <1>2 DEF LacksUnseen
    <2>1. CASE q = p
        <3>1. list'[p] = read \cup approved[p] /\ unseen'[p] = allowed \ read
            BY <1>1 DEF ListTypeOK
        <3> QED BY <2>1, <3>1 DEF ApprovalsKept
    <2>2. CASE q # p
        <3>1. list'[q] = list[q] /\ unseen'[q] = unseen[q] /\ step[q] = "writing"
            BY <1>1, <1>2, <2>2 DEF ListTypeOK
        <3> QED BY <3>1 DEF LacksUnseen
    <2> QED BY <2>1, <2>2
<1>7. Extended'
    BY <1>1, <1>2, <1>3 DEF Extended, OnlyApprovals, ListTypeOK
<1> QED BY <1>4, <1>5, <1>6, <1>7

LEMMA WritesIInv ==
    ASSUME ListIInv, NEW p \in Process, Writes(p)
    PROVE  ListIInv'
<1> USE DEF ListIInv
<1>1. /\ step[p] = "writing" /\ step' = [step EXCEPT ![p] = "idle"]
      /\ approved' = [approved EXCEPT ![p] = {}] /\ list' = [list EXCEPT ![p] = {}]
    BY DEF Writes
<1>2. CASE unseen' = [unseen EXCEPT ![p] = {}] /\ UNCHANGED <<allowed, stored, dropped>>
    BY <1>1, <1>2 DEF ListTypeOK, ApprovalsKept, LacksUnseen, Extended, OnlyApprovals
<1>3. CASE Stores(p)
    <2>1. /\ allowed' = list[p] /\ stored' = stored \cup approved[p]
          /\ dropped' = (dropped \cup unseen[p]) \ list[p]
          /\ unseen' = [q \in Process |-> IF q = p \/ step[q] # "writing" THEN {}
                                          ELSE unseen[q] \cup (list[p] \ allowed)]
        BY <1>3 DEF Stores
    <2>2. approved[p] \subseteq list[p] /\ list[p] \subseteq stored \cup approved[p]
        BY <1>1 DEF Extended
    <2>3. stored \ list[p] \subseteq dropped \cup unseen[p]
        BY <1>1 DEF LacksUnseen
    <2>4. ListTypeOK'
        BY <1>1, <2>1 DEF ListTypeOK
    <2>5. ApprovalsKept' /\ OnlyApprovals'
        BY <2>1, <2>2, <2>3 DEF ApprovalsKept, OnlyApprovals
    <2>6. LacksUnseen'
        <3> SUFFICES ASSUME NEW q \in Process, step'[q] = "writing"
                     PROVE  stored' \ list'[q] \subseteq dropped' \cup unseen'[q]
            BY DEF LacksUnseen
        <3>1. q # p /\ step[q] = "writing" /\ list'[q] = list[q]
            BY <1>1 DEF ListTypeOK
        <3>2. stored \ list[q] \subseteq dropped \cup unseen[q]
            BY <3>1 DEF LacksUnseen
        <3>3. unseen'[q] = unseen[q] \cup (list[p] \ allowed)
            BY <2>1, <3>1
        <3> QED BY <2>1, <2>2, <3>1, <3>2, <3>3 DEF OnlyApprovals
    <2>7. Extended'
        BY <1>1, <2>1 DEF Extended, ListTypeOK
    <2> QED BY <2>4, <2>5, <2>6, <2>7
<1> QED BY <1>2, <1>3 DEF Writes

LEMMA ListNextIInv == ASSUME ListIInv, [ListNext]_listVars PROVE ListIInv'
<1>1. CASE UNCHANGED listVars
    BY <1>1 DEF listVars, ghosts, ListIInv, ListTypeOK, ApprovalsKept, LacksUnseen, Extended, OnlyApprovals
<1> QED BY <1>1, AccessAnsweredIInv, ReadsAndExtendsIInv, WritesIInv DEF ListNext

-----------------------------------------------------------------------------
(* Device leaves the list alone but for the steps of its processes.          *)

IInv ==
    /\ ListIInv
    /\ DOMAIN task = Session
    /\ OnlyApprovedOpened

LEMMA InitIInv == Init => IInv
BY ListInitIInv DEF Init, IInv, OnlyApprovedOpened

\* Only device() comes to have the device, and only with a list that has it.
LEMMA NextTask ==
    ASSUME IInv, Next
    PROVE  /\ DOMAIN task' = Session
           /\ \A s \in Session : task'[s] = "device" => task[s] = "device" \/ Dev \in allowed
           /\ [ListNext]_listVars
<1>1. CASE ListStep
    BY <1>1 DEF IInv, ListStep, nativeVars
<1>2. CASE Emits \/ Unplugs \/ AddedDevice \/ RemovedDevice \/ close \/ \E n \in Call : Calls(n)
    BY <1>2 DEF IInv, Emits, Unplugs, AddedDevice, RemovedDevice, close, Calls, nativeVars
<1>3. ASSUME NEW s \in Session, Page(s)
      PROVE  /\ UNCHANGED listVars
             /\ UNCHANGED task \/ task' = [task EXCEPT ![s] = "main"]
    BY <1>3 DEF Page, open, OpenNativeAnswered, OpenTimesOut, Disconnected, Hears, nativeVars
<1>4. ASSUME NEW s \in Session, Worker(s)
      PROVE  /\ UNCHANGED listVars
             /\ \/ UNCHANGED task
                \/ \E t \in {"listing", "dead"} : task' = [task EXCEPT ![s] = t]
    BY <1>4 DEF Worker, ConnectHid, Notified, Requested, Swallowed
<1>5. ASSUME NEW s \in Session, Starts(s)
      PROVE  /\ UNCHANGED listVars
             /\ \/ task' = [task EXCEPT ![s] = "device"] /\ Dev \in allowed
                \/ task' = [task EXCEPT ![s] = "over"]
    BY <1>5 DEF Starts, Lists
<1>6. ASSUME NEW s \in Session,
             \/ Reads(s) \/ ReceivesFeatureReport(s) \/ Delay(s)
             \/ \E k \in Output : WritesReport(s, k)
      PROVE  /\ UNCHANGED listVars
             /\ \/ UNCHANGED task
                \/ \E t \in {"over", "panicked"} : task' = [task EXCEPT ![s] = t]
    BY <1>6 DEF Reads, ReceivesFeatureReport, Delay, WritesReport, Panics, Returns
<1>7. ASSUME NEW s \in Session, Native(s)
      PROVE  /\ UNCHANGED listVars
             /\ \/ UNCHANGED task
                \/ task' = [task EXCEPT ![s] = "device"] /\ Dev \in allowed
                \/ \E t \in {"listing", "dead", "over", "panicked"} : task' = [task EXCEPT ![s] = t]
    BY <1>4, <1>5, <1>6, <1>7 DEF Native
<1> QED BY <1>1, <1>2, <1>3, <1>7 DEF Next, IInv

LEMMA NextIInv == ASSUME IInv, [Next]_vars PROVE IInv'
<1>1. CASE Next
    <2>1. ListIInv'
        BY <1>1, NextTask, ListNextIInv DEF IInv
    <2>2. \A s \in Session : task'[s] = "device" => Dev \in stored
        BY <1>1, NextTask DEF IInv, OnlyApprovedOpened, ListIInv, OnlyApprovals
    <2>3. stored \subseteq stored'
        BY <1>1, NextTask DEF ListNext, listVars, AccessAnswered, ReadsAndExtends, Writes, Stores, ghosts
    <2> QED BY <1>1, <2>1, <2>2, <2>3, NextTask DEF IInv, OnlyApprovedOpened
<1>2. CASE UNCHANGED vars
    <2>1. ListIInv'
        BY <1>2, ListNextIInv DEF IInv, vars
    <2> QED BY <1>2, <2>1 DEF IInv, OnlyApprovedOpened, vars, nativeVars, listVars, ghosts
<1> QED BY <1>1, <1>2

\* The invariant holds throughout.
THEOREM SpecIInv == Spec => []IInv
<1>1. Init => IInv
    BY InitIInv
<1>2. IInv /\ [Next]_vars => IInv'
    BY NextIInv
<1> QED BY <1>1, <1>2, PTL DEF Spec

\* However many native processes extend the list at once and whatever reads or writes
\* fail, an approval is missing from it only if a process that could not have seen it
\* has written the list and nobody has put it back (main.rs 155-162 and 415-418).
THEOREM ListSpecApprovalsKept == ListSpec => []ApprovalsKept
<1>1. ListIInv => ApprovalsKept
    BY DEF ListIInv
<1> QED BY <1>1, ListInitIInv, ListNextIInv, PTL DEF ListSpec

\* The same of the processes that extend the list while pages open their device.
THEOREM SpecApprovalsKept == Spec => []ApprovalsKept
<1>1. IInv => ApprovalsKept
    BY DEF IInv, ListIInv
<1> QED BY <1>1, SpecIInv, PTL

\* However many native processes a page has, device() opens a device only after
\* an approval of the user has been stored for it (main.rs 466-475).
THEOREM SpecOnlyApprovedOpened == Spec => []OnlyApprovedOpened
<1>1. IInv => OnlyApprovedOpened
    BY DEF IInv
<1> QED BY <1>1, SpecIInv, PTL

-----------------------------------------------------------------------------
(* The sessions.                                                             *)

NativePacket == [kind : Output \cup {"ConnectHid", "ReceiveFeatureReport"}, n : Nat]
PagePacket == [kind : {"Connected", "Report", "FeatureReport", "Error"}, n : Nat]

Opening == {"none", "connecting", "asked", "open", "failed"}
Task == {"none", "main", "listing", "device", "over", "panicked", "dead"}

StateOK ==
    /\ plugged \in BOOLEAN /\ emitted \in 0..MaxReports /\ rpc \in 0..MaxOpens
    /\ object \in {"none", "listed", "removed"}
    /\ opening \in [Session -> Opening]
    /\ port \in [Session -> {"up", "disconnecting", "down"}]
    /\ toNative \in [Session -> Seq(NativePacket)] /\ toPage \in [Session -> Seq(PagePacket)]
    /\ task \in [Session -> Task] /\ selecting \in [Session -> BOOLEAN]
    /\ input \in [Session -> Seq(1..MaxReports)]
    /\ channel \in [Session -> [Output -> Seq(Call)]] /\ requests \in [Session -> Seq(Call)]
    /\ calls \in [Session -> 0..Len(Script)]
    /\ written \in [Session -> Seq(Call)] /\ waiting \in [Session -> SUBSET Call]
    /\ first \in [Session -> Nat] /\ since \in [Session -> Nat]
    /\ received \in [Session -> Seq(Nat)]

\* The next call the worker of s takes.
NextCall(s) == calls[s] - Len(toNative[s]) + 1

\* The packets on their way to s are the last calls of the page, in order.
CallsInOrder(s) ==
    \A i \in DOMAIN toNative[s] :
        /\ toNative[s][i].n = calls[s] - Len(toNative[s]) + i
        /\ toNative[s][i].n \in Call /\ toNative[s][i].kind = Script[toNative[s][i].n]

\* Before device() has opened the device nothing has come through.
Early == {"none", "main", "listing"}
Idle(s) ==
    /\ task[s] \in Early => /\ received[s] = <<>> /\ written[s] = <<>>
                            /\ \A i \in DOMAIN toPage[s] : toPage[s][i].kind # "Report"
    /\ task[s] # "device" => input[s] = <<>> /\ channel[s] = NoChannels /\ requests[s] = <<>>

Handshake(s) ==
    /\ opening[s] \in {"none", "connecting"} => task[s] = "none"
    /\ task[s] \in {"none", "main"} => toPage[s] = <<>> /\ calls[s] = 0 /\ opening[s] # "open"
    /\ task[s] = "none" => toNative[s] = <<>>
    /\ task[s] = "main" => toNative[s] = <<Packet("ConnectHid", 0)>>
    /\ task[s] # "main" => Len(toNative[s]) <= calls[s] /\ CallsInOrder(s)
    /\ opening[s] \in {"connecting", "asked"} => port[s] = "up"
    /\ rpc = s => opening[s] = "open" /\ port[s] = "up"
    /\ \A n \in waiting[s] : n <= calls[s]

\* The reports in q go on from number x to the one before y.
Chain(q, x, y) ==
    \E f \in [0..Len(q) -> Nat] :
        /\ f[0] = x /\ f[Len(q)] = y
        /\ \A i \in 1..Len(q) :
               IF q[i].kind = "Report" THEN q[i].n = f[i - 1] /\ f[i] = f[i - 1] + 1
                                       ELSE f[i] = f[i - 1]

\* What the page has not received is on its way, and what device() has not read
\* comes next.
ReportsInOrder(s) ==
    /\ \A j \in DOMAIN received[s] : received[s][j] = first[s] + j - 1
    /\ port[s] # "down" =>
           \E y \in Nat :
               /\ Chain(toPage[s], first[s] + Len(received[s]), y)
               /\ task[s] = "device" => /\ y + Len(input[s]) = emitted + 1
                                        /\ \A j \in DOMAIN input[s] : input[s][j] = y + j - 1

\* n has reached the device before the place j.
WrittenBefore(s, n, j) == \E i \in 1..(j - 1) : written[s][i] = n

WritesInOrder(s) ==
    \A j \in DOMAIN written[s] :
        LET n == written[s][j]
        IN  /\ since[s] <= n
            /\ \A i \in 1..(j - 1) : written[s][i] # n
            /\ \A c \in since[s]..(n - 1) : Script[c] = Script[n] => WrittenBefore(s, c, j)

\* What the device has not got of a kind is in the channel, in order.
ChannelInOrder(s, k) ==
    /\ \A i \in DOMAIN channel[s][k] :
           /\ Script[channel[s][k][i]] = k
           /\ since[s] <= channel[s][k][i] /\ channel[s][k][i] < NextCall(s)
           /\ \A j \in DOMAIN channel[s][k] : i < j => channel[s][k][i] < channel[s][k][j]
           /\ \A j \in DOMAIN written[s] : written[s][j] # channel[s][k][i]
    /\ task[s] = "device" =>
           \A c \in since[s]..(NextCall(s) - 1) : Script[c] = k =>
               \/ \E i \in DOMAIN channel[s][k] : channel[s][k][i] = c
               \/ WrittenBefore(s, c, Len(written[s]) + 1)

CallsReach(s) ==
    /\ task[s] = "device" => since[s] >= 1 /\ since[s] <= NextCall(s)
    /\ \A j \in DOMAIN written[s] : written[s][j] < NextCall(s)
    /\ WritesInOrder(s)
    /\ \A k \in Output : ChannelInOrder(s, k)

SessionOK(s) == Handshake(s) /\ Idle(s) /\ ReportsInOrder(s) /\ CallsReach(s)

SessionIInv == StateOK /\ \A s \in Session : SessionOK(s)

LEMMA SeqElements ==
    ASSUME NEW S, NEW q \in Seq(S)
    PROVE  /\ Len(q) \in Nat /\ DOMAIN q = 1..Len(q)
           /\ \A i \in 1..Len(q) : q[i] \in S
OBVIOUS

LEMMA SeqHeadTail ==
    ASSUME NEW S, NEW q \in Seq(S), q # <<>>
    PROVE  /\ Head(q) \in S /\ Head(q) = q[1] /\ Tail(q) \in Seq(S) /\ Len(q) >= 1
           /\ Len(Tail(q)) = Len(q) - 1
           /\ \A i \in 1..(Len(q) - 1) : Tail(q)[i] = q[i + 1] /\ i + 1 \in 1..Len(q)
OBVIOUS

LEMMA SessionInit == Init => SessionIInv
<1> SUFFICES ASSUME Init PROVE SessionIInv
    OBVIOUS
<1> USE DeviceAssumption, ScriptAssumption
<1>1. StateOK
    BY DEF Init, StateOK, Opening, Task, Session, Call
<1>2. ASSUME NEW s \in Session PROVE SessionOK(s)
    <2>1. Handshake(s) /\ Idle(s) /\ CallsReach(s)
        BY DEF Init, Handshake, Idle, CallsReach, WritesInOrder, ChannelInOrder, CallsInOrder, Early,
               NoChannels, Session
    <2>2. ReportsInOrder(s)
        BY DEF Init, ReportsInOrder
    <2> QED BY <2>1, <2>2 DEF SessionOK
<1> QED BY <1>1, <1>2 DEF SessionIInv

\* What a step does not touch stays in order.
Same(t) ==
    /\ opening'[t] = opening[t] /\ port'[t] = port[t] /\ task'[t] = task[t]
    /\ toNative'[t] = toNative[t] /\ toPage'[t] = toPage[t] /\ input'[t] = input[t]
    /\ channel'[t] = channel[t] /\ requests'[t] = requests[t] /\ calls'[t] = calls[t]
    /\ written'[t] = written[t] /\ waiting'[t] = waiting[t] /\ first'[t] = first[t]
    /\ since'[t] = since[t] /\ received'[t] = received[t]
    /\ rpc' = t => rpc = t
    /\ task[t] = "device" => emitted' = emitted

LEMMA SameOK == ASSUME NEW t \in Session, SessionOK(t), Same(t) PROVE SessionOK(t)'
<1>1. Handshake(t)'
    BY DEF SessionOK, Same, Handshake, CallsInOrder
<1>2. Idle(t)'
    BY DEF SessionOK, Same, Idle
<1>3. ReportsInOrder(t)'
    BY DEF SessionOK, Same, ReportsInOrder
<1>4. CallsReach(t)'
    BY DEF SessionOK, Same, CallsReach, WritesInOrder, WrittenBefore, ChannelInOrder, NextCall
<1> QED BY <1>1, <1>2, <1>3, <1>4 DEF SessionOK

-----------------------------------------------------------------------------
(* The device and the page.                                                  *)

LEMMA EmitsOK == ASSUME SessionIInv, Emits PROVE SessionIInv'
<1> USE DeviceAssumption DEF SessionIInv
<1>1. StateOK'
    <2>1. emitted + 1 \in 1..MaxReports /\ emitted' = emitted + 1
        BY DEF Emits, StateOK
    <2>2. ASSUME NEW s \in Session PROVE input'[s] \in Seq(1..MaxReports)
        <3>1. input[s] \in Seq(1..MaxReports)
            BY DEF StateOK
        <3>2. Append(input[s], emitted + 1) \in Seq(1..MaxReports)
            BY <2>1, <3>1
        <3> QED BY <3>1, <3>2 DEF Emits
    <2>3. input' \in [Session -> Seq(1..MaxReports)]
        BY <2>2 DEF Emits
    <2> QED BY <2>1, <2>3 DEF Emits, StateOK, pageVars
<1>2. ASSUME NEW s \in Session PROVE SessionOK(s)'
    <2>1. CASE task[s] # "device"
        <3>1. Same(s)
            BY <2>1 DEF Emits, Same, pageVars
        <3> QED BY <3>1, SameOK
    <2>2. CASE task[s] = "device"
        <3>1. Handshake(s)' /\ Idle(s)' /\ CallsReach(s)'
            BY <2>2 DEF SessionOK, Emits, pageVars, Handshake, CallsInOrder, Idle, Early, CallsReach,
               WritesInOrder, WrittenBefore, ChannelInOrder, NextCall
        <3>2. ASSUME NEW y \in Nat, y + Len(input[s]) = emitted + 1,
                     \A j \in DOMAIN input[s] : input[s][j] = y + j - 1
              PROVE  /\ y + Len(input'[s]) = emitted' + 1
                     /\ \A j \in DOMAIN input'[s] : input'[s][j] = y + j - 1
            BY <2>2, <3>2, SMTT(40) DEF Emits, StateOK
        <3>3. ReportsInOrder(s)'
            BY <2>2, <3>2 DEF SessionOK, Emits, pageVars, ReportsInOrder
        <3> QED BY <3>1, <3>3 DEF SessionOK
    <2> QED BY <2>1, <2>2
<1> QED BY <1>1, <1>2

\* Neither the list nor the plug nor the object of the page touches a session.
LEMMA ElsewhereOK ==
    ASSUME SessionIInv, ListStep \/ Unplugs \/ AddedDevice
    PROVE  SessionIInv'
<1>1. StateOK'
    BY DEF SessionIInv, StateOK, ListStep, Unplugs, AddedDevice, pageVars, nativeVars
<1>2. \A s \in Session : Same(s)
    BY DEF Same, ListStep, Unplugs, AddedDevice, pageVars, nativeVars
<1> QED BY <1>1, <1>2, SameOK DEF SessionIInv

LEMMA ClosesOK == ASSUME SessionIInv, RemovedDevice \/ close PROVE SessionIInv'
<1> USE DeviceAssumption DEF SessionIInv
<1>1. /\ rpc' = 0 /\ port' = IF rpc = 0 THEN port ELSE [port EXCEPT ![rpc] = "disconnecting"]
      /\ object' \in {object, "removed"}
      /\ UNCHANGED <<plugged, emitted, toNative, toPage, opening, calls, waiting, received,
                     nativeVars>>
    BY DEF RemovedDevice, close, Closes
<1>2. StateOK'
    <2>1. port' \in [Session -> {"up", "disconnecting", "down"}]
        BY <1>1 DEF StateOK
    <2>2. object' \in {"none", "listed", "removed"} /\ rpc' \in 0..MaxOpens
        BY <1>1 DEF StateOK
    <2> QED BY <1>1, <2>1, <2>2 DEF StateOK, nativeVars
<1>3. ASSUME NEW s \in Session PROVE SessionOK(s)'
    <2>1. CASE rpc # s
        <3>1. port'[s] = port[s]
            BY <1>1, <2>1 DEF StateOK, Session
        <3>2. Same(s)
            BY <1>1, <3>1 DEF Same, nativeVars, Session
        <3> QED BY <3>2, SameOK
    <2>2. CASE rpc = s
        <3>1. port[s] = "up" /\ opening[s] = "open" /\ port'[s] = "disconnecting"
            BY <1>1, <2>2 DEF SessionOK, Handshake, StateOK, Session
        <3>2. Handshake(s)' /\ Idle(s)' /\ CallsReach(s)'
            BY <1>1, <2>2, <3>1 DEF nativeVars, SessionOK, Handshake, CallsInOrder, Idle, Early,
               CallsReach, WritesInOrder, WrittenBefore, ChannelInOrder, NextCall, Session
        <3>3. ReportsInOrder(s)'
            BY <1>1, <3>1 DEF SessionOK, nativeVars, ReportsInOrder
        <3> QED BY <3>2, <3>3 DEF SessionOK
    <2> QED BY <2>1, <2>2
<1> QED BY <1>2, <1>3

LEMMA CallsOK == ASSUME SessionIInv, NEW n \in Call, Calls(n) PROVE SessionIInv'
<1> USE DeviceAssumption, ScriptAssumption DEF SessionIInv
<1>1. /\ rpc \in Session /\ n = calls[rpc] + 1 /\ n \in 1..Len(Script)
      /\ Packet(Script[n], n) \in NativePacket /\ Packet(Script[n], n).n = n
      /\ Packet(Script[n], n).kind = Script[n]
    <2>1. rpc # 0 /\ rpc \in Session /\ n = calls[rpc] + 1
        BY DEF Calls, StateOK, Session
    <2>2. n \in 1..Len(Script) /\ Script[n] \in Output \cup {"ReceiveFeatureReport"} /\ n \in Nat
        BY DEF Call
    <2>3. Packet(Script[n], n) \in NativePacket
        BY <2>2 DEF Packet, NativePacket
    <2> QED BY <2>1, <2>2, <2>3 DEF Packet
<1>2. StateOK'
    <2>1. calls' \in [Session -> 0..Len(Script)]
        BY <1>1 DEF Calls, StateOK
    <2>2. toNative' \in [Session -> Seq(NativePacket)]
        BY <1>1 DEF Calls, StateOK
    <2>3. waiting' \in [Session -> SUBSET Call]
        BY <1>1 DEF Calls, StateOK
    <2> QED BY <2>1, <2>2, <2>3 DEF Calls, StateOK, nativeVars
<1>3. ASSUME NEW s \in Session, s # rpc PROVE SessionOK(s)'
    <2>1. Same(s)
        BY <1>1, <1>3 DEF Calls, StateOK, Same, nativeVars
    <2> QED BY <2>1, SameOK
<1>4. ASSUME NEW s \in Session, s = rpc PROVE SessionOK(s)'
    <2>1. /\ calls'[s] = n /\ toNative'[s] = Append(toNative[s], Packet(Script[n], n))
          /\ waiting'[s] \subseteq waiting[s] \cup {n} /\ calls[s] = n - 1
          /\ toNative[s] \in Seq(NativePacket)
        <3>1. toNative \in [Session -> Seq(NativePacket)] /\ calls \in [Session -> 0..Len(Script)]
              /\ waiting \in [Session -> SUBSET Call]
            BY DEF StateOK
        <3>2. calls[s] = n - 1
            <4>1. calls[s] \in Int
                BY <3>1
            <4> QED BY <1>1, <1>4, <4>1
        <3>3. calls'[s] = n /\ toNative'[s] = Append(toNative[s], Packet(Script[n], n))
            BY <1>4, <3>1 DEF Calls
        <3>4. waiting'[s] \subseteq waiting[s] \cup {n}
            BY <1>4, <3>1 DEF Calls
        <3> QED BY <3>1, <3>2, <3>3, <3>4
    <2>2. opening[s] = "open" /\ port[s] = "up" /\ task[s] \notin {"none", "main"}
        BY <1>1, <1>4 DEF SessionOK, Handshake
    <2>3. Len(toNative'[s]) = Len(toNative[s]) + 1 /\ Len(toNative[s]) \in Nat
        BY <2>1
    <2>4. CallsInOrder(s)'
        <3>1. CallsInOrder(s)
            BY <1>1, <2>2 DEF SessionOK, Handshake
        <3>2. ASSUME NEW i \in DOMAIN toNative'[s]
              PROVE  /\ toNative'[s][i].n = n - (Len(toNative[s]) + 1) + i
                     /\ toNative'[s][i].n \in Call
                     /\ toNative'[s][i].kind = Script[toNative'[s][i].n]
            <4>1. CASE i = Len(toNative[s]) + 1
                BY <1>1, <2>1, <4>1
            <4>2. CASE i \in DOMAIN toNative[s]
                <5>1. toNative'[s][i] = toNative[s][i]
                    BY <2>1, <4>2
                <5>2. i \in Int /\ n \in Int /\ Len(toNative[s]) \in Int
                    BY <1>1, <2>1, <4>2
                <5>3. /\ toNative[s][i].n = calls[s] - Len(toNative[s]) + i
                      /\ toNative[s][i].n \in Call /\ toNative[s][i].kind = Script[toNative[s][i].n]
                    BY <3>1, <4>2 DEF CallsInOrder
                <5>4. (n - 1) - Len(toNative[s]) + i = n - (Len(toNative[s]) + 1) + i
                    <6>1. \A a, b, c \in Int : (a - 1) - b + c = a - (b + 1) + c
                        OBVIOUS
                    <6> QED BY <5>2, <6>1
                <5>5. toNative'[s][i].n = n - (Len(toNative[s]) + 1) + i
                    BY <2>1, <5>1, <5>3, <5>4
                <5> QED BY <5>1, <5>3, <5>5
            <4> QED BY <2>1, <4>1, <4>2
        <3> QED BY <2>1, <2>3, <3>2 DEF CallsInOrder, Calls
    <2>5. Handshake(s)'
        <3>1. UNCHANGED <<task, toPage, opening, port, rpc>>
            BY DEF Calls, nativeVars
        <3>2. Len(toNative[s]) <= calls[s] /\ calls[s] \in Nat /\ \A w \in waiting[s] : w <= calls[s]
            BY <2>2 DEF SessionOK, Handshake, StateOK
        <3>3. Len(toNative'[s]) <= calls'[s]
            BY <1>1, <2>1, <2>3, <3>2
        <3>4. \A w \in waiting'[s] : w <= calls'[s]
            <4>1. waiting[s] \subseteq Nat
                BY DEF StateOK, Call
            <4> QED BY <1>1, <2>1, <3>2, <4>1, SMTT(40)
        <3> QED BY <1>4, <2>2, <2>4, <3>1, <3>3, <3>4 DEF Handshake, Opening
    <2>6. NextCall(s)' = NextCall(s)
        BY <1>1, <1>4, <2>1, <2>3 DEF NextCall, Calls
    <2>7. Idle(s)' /\ CallsReach(s)'
        <3>1. Idle(s)'
            BY DEF SessionOK, Calls, nativeVars, Idle
        <3>2. CallsReach(s)'
            <4>1. CallsReach(s) /\ UNCHANGED <<task, channel, written, since>>
                BY DEF SessionOK, Calls, nativeVars
            <4>2. \A k \in Output : ChannelInOrder(s, k)'
                BY <2>6, <4>1 DEF CallsReach, ChannelInOrder, WrittenBefore
            <4>3. WritesInOrder(s)'
                BY <4>1 DEF CallsReach, WritesInOrder, WrittenBefore
            <4> QED BY <2>6, <4>1, <4>2, <4>3 DEF CallsReach
        <3> QED BY <3>1, <3>2
    <2>8. ReportsInOrder(s)'
        BY <1>1, <1>4 DEF SessionOK, Calls, nativeVars, ReportsInOrder
    <2> QED BY <2>5, <2>7, <2>8 DEF SessionOK
<1> QED BY <1>2, <1>3, <1>4

LEMMA OpenOK == ASSUME SessionIInv, NEW s \in Session, open(s) PROVE SessionIInv'
<1> USE DEF SessionIInv
<1>1. StateOK'
    BY DEF open, StateOK, nativeVars, Opening
<1>2. ASSUME NEW t \in Session, t # s PROVE SessionOK(t)'
    <2>1. Same(t)
        BY <1>2 DEF open, StateOK, Same, nativeVars
    <2> QED BY <2>1, SameOK
<1>3. /\ opening[s] = "none" /\ opening'[s] = "connecting" /\ port'[s] = "up" /\ task[s] = "none"
      /\ UNCHANGED <<emitted, toNative, toPage, rpc, calls, waiting, received, nativeVars>>
    BY DEF open, StateOK, SessionOK, Handshake
<1>4. Handshake(s)' /\ Idle(s)' /\ CallsReach(s)'
    BY <1>3 DEF nativeVars, SessionOK, Handshake, CallsInOrder, Idle, Early,
       CallsReach, WritesInOrder, WrittenBefore, ChannelInOrder, NextCall
<1>5. ReportsInOrder(s)'
    <2>1. toPage'[s] = <<>> /\ received'[s] = <<>> /\ task'[s] = "none" /\ first'[s] \in Nat
        BY <1>3 DEF SessionOK, Handshake, Idle, Early, nativeVars, StateOK
    <2>2. Chain(<<>>, first'[s], first'[s])
        <3> DEFINE f == [i \in 0..0 |-> first'[s]]
        <3>1. f \in [0..Len(<<>>) -> Nat] /\ f[0] = first'[s] /\ f[Len(<<>>)] = first'[s]
            BY <2>1
        <3> HIDE DEF f
        <3> QED BY <3>1 DEF Chain
    <2> QED BY <2>1, <2>2 DEF ReportsInOrder
<1>6. SessionOK(s)'
    BY <1>4, <1>5 DEF SessionOK
<1> QED BY <1>1, <1>2, <1>6

LEMMA OpenNativeAnsweredOK ==
    ASSUME SessionIInv, NEW s \in Session, OpenNativeAnswered(s)
    PROVE  SessionIInv'
<1> USE DEF SessionIInv
<1>1. /\ opening[s] = "connecting" /\ task[s] = "none" /\ toNative[s] = <<>> /\ port[s] = "up"
      /\ calls[s] = 0 /\ toPage[s] = <<>>
    BY DEF OpenNativeAnswered, SessionOK, Handshake
<1>2. /\ opening'[s] = "asked" /\ task'[s] = "main"
      /\ toNative'[s] = <<Packet("ConnectHid", 0)>> /\ Packet("ConnectHid", 0) \in NativePacket
      /\ UNCHANGED <<emitted, toPage, rpc, port, calls, waiting, received, input, channel,
                     requests, written, first, since>>
    BY <1>1 DEF OpenNativeAnswered, StateOK, Packet, NativePacket
<1>3. StateOK'
    <2>1. toNative' \in [Session -> Seq(NativePacket)]
        BY <1>2 DEF OpenNativeAnswered, StateOK
    <2> QED BY <2>1 DEF OpenNativeAnswered, StateOK, Opening, Task
<1>4. ASSUME NEW t \in Session, t # s PROVE SessionOK(t)'
    <2>1. Same(t)
        BY <1>4 DEF OpenNativeAnswered, StateOK, Same
    <2> QED BY <2>1, SameOK
<1>5. Handshake(s)' /\ Idle(s)'
    BY <1>1, <1>2 DEF SessionOK, Handshake, Idle, Early
<1>6. CallsReach(s)'
    BY <1>1, <1>2 DEF SessionOK, Idle, Early, CallsReach, WritesInOrder, WrittenBefore, ChannelInOrder,
       NoChannels
<1>7. ReportsInOrder(s)'
    BY <1>1, <1>2 DEF SessionOK, ReportsInOrder
<1> QED BY <1>3, <1>4, <1>5, <1>6, <1>7 DEF SessionOK

LEMMA OpenEndsOK ==
    ASSUME SessionIInv, NEW s \in Session, OpenTimesOut(s) \/ Disconnected(s)
    PROVE  SessionIInv'
<1> USE DEF SessionIInv
<1>1. /\ \/ opening[s] \in {"connecting", "asked"} /\ opening'[s] = "failed" /\ port[s] = "up"
         \/ opening' = opening /\ port[s] = "disconnecting"
      /\ port'[s] \in {port[s], "disconnecting", "down"}
      /\ \A t \in Session \ {s} : port'[t] = port[t] /\ opening'[t] = opening[t]
      /\ UNCHANGED <<emitted, toNative, toPage, rpc, calls, waiting, received, nativeVars>>
    BY DEF OpenTimesOut, Disconnected, StateOK, SessionOK, Handshake
<1>2. StateOK'
    BY DEF OpenTimesOut, Disconnected, StateOK, Opening, nativeVars
<1>3. ASSUME NEW t \in Session, t # s PROVE SessionOK(t)'
    <2>1. Same(t)
        BY <1>1, <1>3 DEF Same, nativeVars
    <2> QED BY <2>1, SameOK
<1>4. Handshake(s)' /\ Idle(s)' /\ CallsReach(s)'
    BY <1>1 DEF nativeVars, SessionOK, Handshake, CallsInOrder, Idle, Early,
       CallsReach, WritesInOrder, WrittenBefore, ChannelInOrder, NextCall
<1>5. ReportsInOrder(s)'
    BY <1>1 DEF SessionOK, nativeVars, ReportsInOrder
<1> QED BY <1>2, <1>3, <1>4, <1>5 DEF SessionOK

\* The chain of reports, when its first packet is taken and when others come.
LEMMA ChainTail ==
    ASSUME NEW q \in Seq(PagePacket), q # <<>>, NEW x \in Nat, NEW y \in Nat, Chain(q, x, y)
    PROVE  IF Head(q).kind = "Report" THEN Head(q).n = x /\ Chain(Tail(q), x + 1, y)
                                      ELSE Chain(Tail(q), x, y)
<1>1. PICK f \in [0..Len(q) -> Nat] :
          /\ f[0] = x /\ f[Len(q)] = y
          /\ \A i \in 1..Len(q) :
                 IF q[i].kind = "Report" THEN q[i].n = f[i - 1] /\ f[i] = f[i - 1] + 1
                                         ELSE f[i] = f[i - 1]
    BY DEF Chain
<1>2. /\ Len(q) \in Nat /\ Len(q) >= 1 /\ Head(q) = q[1] /\ Len(Tail(q)) = Len(q) - 1
      /\ \A i \in 1..Len(Tail(q)) : Tail(q)[i] = q[i + 1]
    OBVIOUS
<1> DEFINE g == [i \in 0..Len(Tail(q)) |-> f[i + 1]]
<1>3. /\ g \in [0..Len(Tail(q)) -> Nat] /\ g[0] = f[1] /\ g[Len(Tail(q))] = y
    BY <1>1, <1>2
<1>4. ASSUME NEW i \in 1..Len(Tail(q))
      PROVE  IF Tail(q)[i].kind = "Report" THEN Tail(q)[i].n = g[i - 1] /\ g[i] = g[i - 1] + 1
                                           ELSE g[i] = g[i - 1]
    <2>1. i \in Nat /\ i + 1 \in 1..Len(q) /\ i \in 0..Len(Tail(q)) /\ i - 1 \in 0..Len(Tail(q))
        BY <1>2
    <2>2. g[i] = f[i + 1] /\ g[i - 1] = f[i] /\ (i + 1) - 1 = i /\ (i - 1) + 1 = i
        BY <2>1
    <2> HIDE DEF g
    <2> QED BY <1>1, <1>2, <2>1, <2>2
<1> HIDE DEF g
<1>5. Chain(Tail(q), f[1], y)
    BY <1>3, <1>4 DEF Chain
<1>6. IF q[1].kind = "Report" THEN q[1].n = x /\ f[1] = x + 1 ELSE f[1] = x
    <2>1. 1 \in 1..Len(q) /\ 1 - 1 = 0
        BY <1>2
    <2> QED BY <1>1, <2>1
<1> QED BY <1>2, <1>5, <1>6

LEMMA ChainConcat ==
    ASSUME NEW q \in Seq(PagePacket), NEW t \in Seq(PagePacket),
           NEW x \in Nat, NEW y \in Nat, NEW z \in Nat, Chain(q, x, y), Chain(t, y, z)
    PROVE  Chain(q \o t, x, z)
<1>1. PICK f \in [0..Len(q) -> Nat] :
          /\ f[0] = x /\ f[Len(q)] = y
          /\ \A i \in 1..Len(q) :
                 IF q[i].kind = "Report" THEN q[i].n = f[i - 1] /\ f[i] = f[i - 1] + 1
                                         ELSE f[i] = f[i - 1]
    BY DEF Chain
<1>2. PICK g \in [0..Len(t) -> Nat] :
          /\ g[0] = y /\ g[Len(t)] = z
          /\ \A i \in 1..Len(t) :
                 IF t[i].kind = "Report" THEN t[i].n = g[i - 1] /\ g[i] = g[i - 1] + 1
                                         ELSE g[i] = g[i - 1]
    BY DEF Chain
<1> DEFINE h == [i \in 0..(Len(q) + Len(t)) |-> IF i <= Len(q) THEN f[i] ELSE g[i - Len(q)]]
<1>3. /\ Len(q) \in Nat /\ Len(t) \in Nat /\ Len(q \o t) = Len(q) + Len(t)
      /\ \A i \in 1..(Len(q) + Len(t)) : (q \o t)[i] = IF i <= Len(q) THEN q[i] ELSE t[i - Len(q)]
    OBVIOUS
<1>4. \A i \in 0..(Len(q) + Len(t)) : i > Len(q) => i - Len(q) \in 1..Len(t)
    BY <1>3
<1>5. h \in [0..Len(q \o t) -> Nat]
    BY <1>3, <1>4
<1>6. h[0] = x /\ h[Len(q \o t)] = z
    <2>1. CASE Len(t) = 0
        BY <1>1, <1>2, <1>3, <2>1
    <2>2. CASE Len(t) # 0
        BY <1>1, <1>2, <1>3, <2>2
    <2> QED BY <2>1, <2>2
<1>7. ASSUME NEW i \in 1..Len(q \o t)
      PROVE  IF (q \o t)[i].kind = "Report" THEN (q \o t)[i].n = h[i - 1] /\ h[i] = h[i - 1] + 1
                                            ELSE h[i] = h[i - 1]
    <2>1. i \in Nat /\ i - 1 \in 0..(Len(q) + Len(t)) /\ i \in 1..(Len(q) + Len(t))
        BY <1>3
    <2>2. CASE i <= Len(q)
        <3>1. (q \o t)[i] = q[i] /\ h[i] = f[i] /\ h[i - 1] = f[i - 1] /\ i \in 1..Len(q)
            BY <1>3, <2>1, <2>2
        <3> HIDE DEF h
        <3> QED BY <1>1, <3>1
    <2>3. CASE i > Len(q)
        <3>1. (q \o t)[i] = t[i - Len(q)] /\ i - Len(q) \in 1..Len(t) /\ h[i] = g[i - Len(q)]
            BY <1>3, <2>1, <2>3
        <3>2. h[i - 1] = g[(i - Len(q)) - 1]
            <4>1. CASE i - 1 = Len(q)
                BY <1>1, <1>2, <1>3, <2>1, <4>1
            <4>2. CASE i - 1 # Len(q)
                BY <1>3, <2>1, <2>3, <4>2
            <4> QED BY <4>1, <4>2
        <3> HIDE DEF h
        <3> QED BY <1>2, <3>1, <3>2
    <2> QED BY <1>3, <2>1, <2>2, <2>3
<1> HIDE DEF h
<1> QED BY <1>5, <1>6, <1>7 DEF Chain

\* Packets without a report.
LEMMA ChainSame ==
    ASSUME NEW t \in Seq(PagePacket), \A i \in DOMAIN t : t[i].kind # "Report", NEW x \in Nat
    PROVE  Chain(t, x, x)
<1> DEFINE f == [i \in 0..Len(t) |-> x]
<1>1. /\ f \in [0..Len(t) -> Nat] /\ f[0] = x /\ f[Len(t)] = x
      /\ \A i \in 1..Len(t) : f[i] = f[i - 1] /\ t[i].kind # "Report"
    OBVIOUS
<1> HIDE DEF f
<1> QED BY <1>1 DEF Chain

\* The reports that device() has read.
LEMMA ReportsType ==
    ASSUME NEW q \in Seq(1..MaxReports)
    PROVE  /\ ReportsOf(q) \in Seq(PagePacket) /\ Len(ReportsOf(q)) = Len(q)
           /\ \A j \in 1..Len(q) : ReportsOf(q)[j] = Packet("Report", q[j])
<1>1. /\ Len(q) \in Nat /\ DOMAIN q = 1..Len(q)
      /\ \A j \in 1..Len(q) : Packet("Report", q[j]) \in PagePacket
    <2>1. /\ Len(q) \in Nat /\ DOMAIN q = 1..Len(q)
          /\ \A j \in 1..Len(q) : q[j] \in 1..MaxReports
        BY SeqElements
    <2>2. \A r \in 1..MaxReports : r \in Nat
        BY DeviceAssumption
    <2> QED BY <2>1, <2>2 DEF Packet, PagePacket
<1> QED BY <1>1 DEF ReportsOf

LEMMA ChainReports ==
    ASSUME NEW q \in Seq(1..MaxReports), NEW y \in Nat, \A j \in DOMAIN q : q[j] = y + j - 1
    PROVE  ReportsOf(q) \in Seq(PagePacket) /\ Chain(ReportsOf(q), y, y + Len(q))
<1>1. Len(q) \in Nat /\ DOMAIN q = 1..Len(q)
    OBVIOUS
<1>2. ReportsOf(q) \in Seq(PagePacket) /\ Len(ReportsOf(q)) = Len(q)
      /\ \A j \in 1..Len(q) : ReportsOf(q)[j] = Packet("Report", q[j])
    BY ReportsType
<1> DEFINE f == [i \in 0..Len(q) |-> y + i]
<1>3. /\ f \in [0..Len(q) -> Nat] /\ f[0] = y /\ f[Len(q)] = y + Len(q)
      /\ \A i \in 1..Len(q) : f[i - 1] = y + i - 1 /\ f[i] = f[i - 1] + 1
    BY <1>1
<1>4. \A i \in 1..Len(q) : ReportsOf(q)[i].kind = "Report" /\ ReportsOf(q)[i].n = f[i - 1]
    <2>1. \A i \in 1..Len(q) : /\ ReportsOf(q)[i].kind = "Report" /\ ReportsOf(q)[i].n = q[i]
                               /\ q[i] = y + i - 1
        <3>1. \A i \in 1..Len(q) : q[i] = y + i - 1
            BY <1>1
        <3>2. \A i \in 1..Len(q) : ReportsOf(q)[i] = [kind |-> "Report", n |-> q[i]]
            BY <1>2 DEF Packet
        <3> HIDE DEF f
        <3> QED
            <4> SUFFICES ASSUME NEW i \in 1..Len(q)
                         PROVE  /\ ReportsOf(q)[i].kind = "Report" /\ ReportsOf(q)[i].n = q[i]
                                /\ q[i] = y + i - 1
                OBVIOUS
            <4>1. ReportsOf(q)[i] = [kind |-> "Report", n |-> q[i]]
                BY <3>2
            <4> QED BY <3>1, <4>1
    <2> HIDE DEF f
    <2> QED BY <1>3, <2>1
<1> HIDE DEF f
<1> QED BY <1>2, <1>3, <1>4 DEF Chain

\* What is left when the last packets are lost.
LEMMA ChainPrefix ==
    ASSUME NEW q \in Seq(PagePacket), NEW x \in Nat, NEW y \in Nat, Chain(q, x, y), NEW n \in 0..Len(q)
    PROVE  SubSeq(q, 1, n) \in Seq(PagePacket) /\ \E z \in Nat : Chain(SubSeq(q, 1, n), x, z)
<1>1. PICK f \in [0..Len(q) -> Nat] :
          /\ f[0] = x /\ f[Len(q)] = y
          /\ \A i \in 1..Len(q) :
                 IF q[i].kind = "Report" THEN q[i].n = f[i - 1] /\ f[i] = f[i - 1] + 1
                                         ELSE f[i] = f[i - 1]
    BY DEF Chain
<1> DEFINE g == [i \in 0..n |-> f[i]]
           t == SubSeq(q, 1, n)
<1>2. n \in Nat /\ Len(q) \in Nat /\ Len(t) = n /\ t \in Seq(PagePacket)
      /\ \A i \in 1..n : t[i] = q[i] /\ i \in 1..Len(q) /\ i - 1 \in 0..n /\ i \in 0..n
    OBVIOUS
<1>3. g \in [0..n -> Nat] /\ g[0] = x /\ g[n] = f[n] /\ f[n] \in Nat
    <2>1. \A i \in 0..n : i \in 0..Len(q) /\ f[i] \in Nat
        BY <1>2
    <2>2. 0 \in 0..n /\ n \in 0..n
        BY <1>2
    <2>3. g \in [0..n -> Nat] /\ \A i \in 0..n : g[i] = f[i]
        BY <2>1
    <2> HIDE DEF g
    <2> QED BY <1>1, <2>1, <2>2, <2>3
<1>4. \A i \in 1..n : g[i] = f[i] /\ g[i - 1] = f[i - 1]
    BY <1>2
<1> HIDE DEF g, t
<1>5. ASSUME NEW i \in 1..n
      PROVE  IF t[i].kind = "Report" THEN t[i].n = g[i - 1] /\ g[i] = g[i - 1] + 1
                                     ELSE g[i] = g[i - 1]
    BY <1>1, <1>2, <1>4
<1>6. Chain(t, x, f[n])
    BY <1>2, <1>3, <1>5 DEF Chain
<1> QED BY <1>2, <1>3, <1>6 DEF t

LEMMA HearsOK == ASSUME SessionIInv, NEW s \in Session, Hears(s) PROVE SessionIInv'
<1> USE DEF SessionIInv
<1> DEFINE m == Head(toPage[s])
<1>1. /\ toPage[s] \in Seq(PagePacket) /\ toPage[s] # <<>> /\ m \in PagePacket
      /\ toPage'[s] = Tail(toPage[s]) /\ Tail(toPage[s]) \in Seq(PagePacket)
      /\ \A i \in DOMAIN Tail(toPage[s]) : \E j \in DOMAIN toPage[s] : Tail(toPage[s])[i] = toPage[s][j]
      /\ 1 \in DOMAIN toPage[s] /\ m = toPage[s][1]
    BY DEF Hears, StateOK
<1>2. /\ UNCHANGED <<emitted, plugged, object, port, calls, nativeVars, toNative>>
      /\ \A t \in Session \ {s} : toPage'[t] = toPage[t]
    BY DEF Hears, StateOK
<1>3. task[s] \notin {"none", "main"}
    BY <1>1 DEF SessionOK, Handshake
<1>4. \/ /\ port[s] # "down" /\ m.kind = "Connected" /\ opening[s] = "asked"
         /\ opening' = [opening EXCEPT ![s] = "open"] /\ rpc' = s
         /\ UNCHANGED <<waiting, received>>
      \/ /\ port[s] # "down" /\ m.kind = "Report"
         /\ received' = [received EXCEPT ![s] = Append(@, m.n)]
         /\ UNCHANGED <<opening, rpc, waiting>>
      \/ /\ m.kind \in {"FeatureReport", "Error"}
         /\ waiting' = [waiting EXCEPT ![s] = @ \ {m.n}]
         /\ UNCHANGED <<opening, rpc, received>>
      \/ /\ port[s] = "down" \/ m.kind = "Connected"
         /\ UNCHANGED <<opening, rpc, waiting, received>>
    BY DEF Hears
<1> HIDE DEF m
<1>5. StateOK'
    <2>1. toPage' \in [Session -> Seq(PagePacket)]
        BY <1>1 DEF Hears, StateOK
    <2>2. m.n \in Nat
        BY <1>1 DEF PagePacket
    <2>3. /\ opening' \in [Session -> Opening] /\ rpc' \in 0..MaxOpens
          /\ waiting' \in [Session -> SUBSET Call]
        <3>1. /\ opening' = opening \/ opening' = [opening EXCEPT ![s] = "open"]
              /\ rpc' = rpc \/ rpc' = s
              /\ waiting' = waiting \/ waiting' = [waiting EXCEPT ![s] = @ \ {m.n}]
            BY <1>4
        <3>2. opening' \in [Session -> Opening]
            BY <3>1 DEF StateOK, Opening
        <3>3. rpc' \in 0..MaxOpens
            BY <3>1 DEF StateOK, Session
        <3>4. waiting' \in [Session -> SUBSET Call]
            <4>1. waiting \in [Session -> SUBSET Call]
                BY DEF StateOK
            <4>2. [waiting EXCEPT ![s] = @ \ {m.n}] \in [Session -> SUBSET Call]
                BY <4>1
            <4> QED BY <3>1, <4>1, <4>2
        <3> QED BY <3>2, <3>3, <3>4
    <2>4. received' \in [Session -> Seq(Nat)]
        <3>1. received' = received \/ received' = [received EXCEPT ![s] = Append(@, m.n)]
            BY <1>4
        <3>2. Append(received[s], m.n) \in Seq(Nat)
            BY <2>2 DEF StateOK
        <3> QED BY <3>1, <3>2 DEF StateOK
    <2> QED BY <1>2, <2>1, <2>3, <2>4 DEF Hears, StateOK, nativeVars
<1>6. ASSUME NEW t \in Session, t # s PROVE SessionOK(t)'
    <2>1. Same(t)
        BY <1>2, <1>4, <1>6 DEF StateOK, Same, nativeVars
    <2> QED BY <2>1, SameOK
<1>7. Handshake(s)' /\ CallsReach(s)'
    <2>1. /\ opening'[s] = opening[s] \/ (opening'[s] = "open" /\ opening[s] = "asked")
          /\ rpc' = s => opening'[s] = "open" /\ port[s] = "up"
          /\ waiting'[s] \subseteq waiting[s]
        BY <1>4 DEF StateOK, SessionOK, Handshake
    <2> QED BY <1>2, <1>3, <2>1 DEF nativeVars, SessionOK, Handshake, CallsInOrder, CallsReach, WritesInOrder,
               WrittenBefore, ChannelInOrder, NextCall
<1>8. Idle(s)'
    <2>1. task[s] \in Early => received'[s] = received[s]
        BY <1>1, <1>4 DEF SessionOK, Idle
    <2> QED BY <1>1, <1>2, <2>1 DEF SessionOK, Idle, nativeVars
<1>9. ReportsInOrder(s)'
    <2>1. first[s] \in Nat /\ Len(received[s]) \in Nat /\ first[s] + Len(received[s]) \in Nat
          /\ received[s] \in Seq(Nat)
        BY DEF StateOK
    <2>2. CASE port[s] # "down" /\ m.kind = "Report"
        <3>1. received'[s] = Append(received[s], m.n)
            BY <1>4, <2>2 DEF StateOK
        <3>2. PICK y \in Nat :
                  /\ Chain(toPage[s], first[s] + Len(received[s]), y)
                  /\ task[s] = "device" => /\ y + Len(input[s]) = emitted + 1
                                           /\ \A j \in DOMAIN input[s] : input[s][j] = y + j - 1
            BY <2>2 DEF SessionOK, ReportsInOrder
        <3>3. m.n = first[s] + Len(received[s])
              /\ Chain(Tail(toPage[s]), (first[s] + Len(received[s])) + 1, y)
            BY <1>1, <2>1, <2>2, <3>2, ChainTail DEF m
        <3>4. /\ Len(received'[s]) = Len(received[s]) + 1
              /\ \A j \in DOMAIN received'[s] : received'[s][j] = first[s] + j - 1
            <4>1. \A j \in DOMAIN received[s] : received[s][j] = first[s] + j - 1
                BY DEF SessionOK, ReportsInOrder
            <4>2. m.n \in Nat
                BY <1>1 DEF PagePacket
            <4> QED BY <2>1, <3>1, <3>3, <4>1, <4>2, SMTT(40)
        <3>5. first[s] + Len(received'[s]) = (first[s] + Len(received[s])) + 1
            BY <2>1, <3>4
        <3> QED BY <1>1, <1>2, <3>2, <3>3, <3>4, <3>5 DEF ReportsInOrder, nativeVars
    <2>3. CASE port[s] # "down" /\ m.kind # "Report"
        <3>1. received'[s] = received[s]
            BY <1>4, <2>3
        <3>2. PICK y \in Nat :
                  /\ Chain(toPage[s], first[s] + Len(received[s]), y)
                  /\ task[s] = "device" => /\ y + Len(input[s]) = emitted + 1
                                           /\ \A j \in DOMAIN input[s] : input[s][j] = y + j - 1
            BY <2>3 DEF SessionOK, ReportsInOrder
        <3>3. Chain(Tail(toPage[s]), first[s] + Len(received[s]), y)
            BY <1>1, <2>1, <2>3, <3>2, ChainTail DEF m
        <3> QED BY <1>1, <1>2, <3>1, <3>2, <3>3 DEF SessionOK, ReportsInOrder, nativeVars
    <2>4. CASE port[s] = "down"
        <3>1. received'[s] = received[s]
            BY <1>4, <2>4
        <3> QED BY <1>2, <2>4, <3>1 DEF SessionOK, ReportsInOrder, nativeVars
    <2> QED BY <2>2, <2>3, <2>4
<1> QED BY <1>5, <1>6, <1>7, <1>8, <1>9 DEF SessionOK

-----------------------------------------------------------------------------
(* The worker.                                                               *)

LEMMA NativeElsewhere ==
    ASSUME SessionIInv, NEW s \in Session, Native(s), NEW t \in Session, t # s
    PROVE  SessionOK(t)'
<1> USE DEF SessionIInv
<1>1. CASE Worker(s)
    <2>1. Same(t)
        BY <1>1 DEF Worker, ConnectHid, Notified, Requested, Swallowed, ToPage, StateOK, Same, pageVars
    <2> QED BY <2>1, SameOK
<1>2. CASE Starts(s)
    <2>1. Same(t)
        BY <1>2 DEF Starts, StateOK, Same, pageVars
    <2> QED BY <2>1, SameOK
<1>3. CASE Reads(s)
    <2>1. Same(t)
        BY <1>3 DEF Reads, Panics, Returns, ToPage, StateOK, Same, pageVars
    <2> QED BY <2>1, SameOK
<1>4. CASE ReceivesFeatureReport(s) \/ Delay(s)
    <2>1. Same(t)
        BY <1>4 DEF ReceivesFeatureReport, Delay, ToPage, StateOK, Same, pageVars
    <2> QED BY <2>1, SameOK
<1>5. ASSUME NEW k \in Output, WritesReport(s, k) PROVE SessionOK(t)'
    <2>1. Same(t)
        BY <1>5 DEF WritesReport, Panics, StateOK, Same, pageVars
    <2> QED BY <2>1, SameOK
<1> QED BY <1>1, <1>2, <1>3, <1>4, <1>5 DEF Native

\* The worker takes the call that comes next.
LEMMA TakesCall ==
    ASSUME SessionIInv, NEW s \in Session, task[s] # "main", toNative[s] # <<>>,
           toNative'[s] = Tail(toNative[s]), calls'[s] = calls[s]
    PROVE  LET m == Head(toNative[s])
           IN  /\ m = toNative[s][1] /\ m.n = NextCall(s) /\ m.n \in Call /\ m.kind = Script[m.n]
               /\ NextCall(s)' = NextCall(s) + 1 /\ NextCall(s) \in Nat
               /\ Len(toNative'[s]) <= calls'[s] /\ CallsInOrder(s)'
               /\ toNative'[s] \in Seq(NativePacket)
<1> USE DEF SessionIInv
<1>1. /\ toNative[s] \in Seq(NativePacket) /\ calls[s] \in Nat
      /\ Len(toNative[s]) <= calls[s] /\ CallsInOrder(s)
    BY DEF StateOK, SessionOK, Handshake
<1>2. /\ Len(toNative[s]) \in Nat /\ Len(toNative[s]) >= 1 /\ Head(toNative[s]) = toNative[s][1]
      /\ toNative'[s] \in Seq(NativePacket)
      /\ Len(toNative'[s]) = Len(toNative[s]) - 1
      /\ \A i \in 1..(Len(toNative[s]) - 1) : toNative'[s][i] = toNative[s][i + 1]
    BY <1>1
<1>3. /\ toNative[s][1].n = calls[s] - Len(toNative[s]) + 1
      /\ toNative[s][1].n \in Call /\ toNative[s][1].kind = Script[toNative[s][1].n]
    BY <1>1, <1>2 DEF CallsInOrder
<1>4. NextCall(s)' = NextCall(s) + 1 /\ NextCall(s) \in Nat
    BY <1>1, <1>2 DEF NextCall
<1>5. ASSUME NEW i \in DOMAIN toNative'[s]
      PROVE  /\ toNative'[s][i].n = calls'[s] - Len(toNative'[s]) + i
             /\ toNative'[s][i].n \in Call /\ toNative'[s][i].kind = Script[toNative'[s][i].n]
    <2>1. i \in Nat /\ i + 1 \in DOMAIN toNative[s] /\ toNative'[s][i] = toNative[s][i + 1]
        BY <1>1, <1>2
    <2>2. calls'[s] - Len(toNative'[s]) + i = calls[s] - Len(toNative[s]) + (i + 1)
        <3>1. \A c, l, j \in Int : c - (l - 1) + j = c - l + (j + 1)
            OBVIOUS
        <3>2. calls[s] \in Int /\ Len(toNative[s]) \in Int /\ i \in Int
            BY <1>1, <1>2, <2>1
        <3>3. calls[s] - (Len(toNative[s]) - 1) + i = calls[s] - Len(toNative[s]) + (i + 1)
            BY <3>1, <3>2
        <3> QED BY <1>2, <3>3
    <2> QED BY <1>1, <2>1, <2>2 DEF CallsInOrder
<1> QED BY <1>1, <1>2, <1>3, <1>4, <1>5, SMTT(40) DEF CallsInOrder, NextCall
\* Nothing of a session but the two chains, the worker's part of it and the task.
WorkerFrame(s) ==
    /\ \A t \in Session \ {s} : toNative'[t] = toNative[t]
    /\ toNative'[s] = Tail(toNative[s])
    /\ UNCHANGED <<listVars, plugged, emitted, pageVars, selecting, input, written, first, since>>

\* More packets without a report leave the reports in order.
LEMMA MoreErrors ==
    ASSUME StateOK, NEW s \in Session, ReportsInOrder(s), NEW q \in Seq(PagePacket),
           \A i \in DOMAIN q : q[i].kind # "Report",
           toPage'[s] = toPage[s] \o q, received'[s] = received[s], first'[s] = first[s],
           port'[s] = port[s], task'[s] = "device" => task[s] = "device",
           input'[s] = input[s], emitted' = emitted
    PROVE  ReportsInOrder(s)'
<1>1. /\ toPage[s] \in Seq(PagePacket) /\ first[s] + Len(received[s]) \in Nat
    BY DEF StateOK
<1>2. ASSUME NEW y \in Nat, Chain(toPage[s], first[s] + Len(received[s]), y)
      PROVE  Chain(toPage[s] \o q, first[s] + Len(received[s]), y)
    <2>1. Chain(q, y, y)
        BY ChainSame
    <2> QED BY <1>1, <1>2, <2>1, ChainConcat
<1> QED BY <1>2 DEF ReportsInOrder

LEMMA ConnectHidOK ==
    ASSUME SessionIInv, NEW s \in Session, Worker(s), task[s] = "main"
    PROVE  SessionIInv'
<1> USE DEF SessionIInv
<1>1. /\ toNative[s] = <<Packet("ConnectHid", 0)>> /\ toPage[s] = <<>> /\ calls[s] = 0
      /\ opening[s] # "open"
    BY DEF SessionOK, Handshake
<1>2. /\ task' = [task EXCEPT ![s] = "listing"]
      /\ toPage' = [toPage EXCEPT ![s] = @ \o <<Packet("Connected", 0)>>]
      /\ toNative' = [toNative EXCEPT ![s] = Tail(@)]
      /\ UNCHANGED <<listVars, plugged, emitted, pageVars, selecting, input, written, first, since,
                     channel, requests>>
    BY <1>1 DEF Worker, ConnectHid, ToPage, Packet, Output
<1>3. toPage[s] \o <<Packet("Connected", 0)>> = <<Packet("Connected", 0)>>
    BY <1>1 DEF Packet
<1>4. /\ toPage'[s] = <<Packet("Connected", 0)>> /\ toNative'[s] = <<>> /\ task'[s] = "listing"
      /\ Packet("Connected", 0) \in PagePacket /\ Packet("Connected", 0).kind = "Connected"
    BY <1>1, <1>2, <1>3 DEF StateOK, Packet, PagePacket
<1>5. StateOK'
    <2>1. toPage' \in [Session -> Seq(PagePacket)]
        BY <1>2, <1>3, <1>4 DEF StateOK
    <2>2. toNative' \in [Session -> Seq(NativePacket)] /\ task' \in [Session -> Task]
        BY <1>1, <1>2, <1>4, SMTT(40) DEF StateOK, Task
    <2> QED BY <1>2, <2>1, <2>2 DEF StateOK, pageVars
<1>6. Handshake(s)' /\ CallsReach(s)'
    <2>1. calls'[s] = 0 /\ waiting'[s] = waiting[s] /\ port'[s] = port[s]
          /\ opening'[s] = opening[s] /\ rpc' = rpc
        BY <1>1, <1>2 DEF pageVars
    <2>2. CallsInOrder(s)'
        BY <1>4 DEF CallsInOrder
    <2>3. Handshake(s)'
        BY <1>1, <1>4, <2>1, <2>2 DEF SessionOK, Handshake
    <2>4. CallsReach(s)'
        BY <1>2, <1>4 DEF SessionOK, Idle, Early, CallsReach, WritesInOrder, WrittenBefore,
           ChannelInOrder, NoChannels
    <2> QED BY <2>3, <2>4
<1>7. Idle(s)'
    BY <1>2, <1>4 DEF SessionOK, Idle, Early, pageVars
<1>8. ReportsInOrder(s)'
    <2> DEFINE q == <<Packet("Connected", 0)>>
    <2>1. q \in Seq(PagePacket) /\ \A i \in DOMAIN q : q[i].kind # "Report"
        BY <1>4
    <2>2. toPage'[s] = toPage[s] \o q
        BY <1>3, <1>4
    <2>3. /\ received'[s] = received[s] /\ first'[s] = first[s] /\ port'[s] = port[s]
          /\ task'[s] # "device" /\ input'[s] = input[s] /\ emitted' = emitted
        BY <1>2, <1>4 DEF pageVars
    <2> HIDE DEF q
    <2> QED BY <2>1, <2>2, <2>3, MoreErrors DEF SessionOK
<1>9. ASSUME NEW t \in Session, t # s PROVE SessionOK(t)'
    BY <1>9, NativeElsewhere DEF Native
<1> QED BY <1>5, <1>6, <1>7, <1>8, <1>9 DEF SessionOK

LEMMA SwallowedOK ==
    ASSUME SessionIInv, NEW s \in Session, Worker(s), task[s] = "panicked"
    PROVE  SessionIInv'
<1> USE DEF SessionIInv
<1>1. /\ toNative[s] # <<>> /\ task' = [task EXCEPT ![s] = "dead"]
      /\ toNative' = [toNative EXCEPT ![s] = Tail(@)]
      /\ UNCHANGED <<listVars, plugged, emitted, pageVars, selecting, input, written, first, since,
                     toPage, channel, requests>>
    BY DEF Worker, Swallowed
<1>2. /\ NextCall(s)' = NextCall(s) + 1 /\ NextCall(s) \in Nat /\ Len(toNative'[s]) <= calls'[s]
      /\ CallsInOrder(s)' /\ toNative'[s] \in Seq(NativePacket)
    BY <1>1, TakesCall DEF StateOK, pageVars
<1>3. StateOK'
    BY <1>1, <1>2 DEF StateOK, Task, pageVars
<1>4. task'[s] = "dead"
    BY <1>1 DEF StateOK
<1>5. Handshake(s)' /\ Idle(s)' /\ ReportsInOrder(s)'
    BY <1>1, <1>2, <1>4 DEF SessionOK, Handshake, Idle, Early, ReportsInOrder, pageVars
<1>6. CallsReach(s)'
    <2>1. \A k \in Output : ChannelInOrder(s, k)'
        BY <1>1, <1>4 DEF SessionOK, Idle, ChannelInOrder, NoChannels
    <2>2. WritesInOrder(s)'
        BY <1>1 DEF SessionOK, CallsReach, WritesInOrder, WrittenBefore
    <2>3. \A j \in DOMAIN written[s] : written[s][j] \in Nat
        BY DEF StateOK, Call
    <2>4. \A j \in DOMAIN written[s] : written[s][j] < NextCall(s)'
        BY <1>2, <2>3 DEF SessionOK, CallsReach
    <2> QED BY <1>1, <1>4, <2>1, <2>2, <2>4 DEF CallsReach
<1>7. ASSUME NEW t \in Session, t # s PROVE SessionOK(t)'
    BY <1>7, NativeElsewhere DEF Native
<1> QED BY <1>3, <1>5, <1>6, <1>7 DEF SessionOK
\* A call of kind k is handed over, or one that is no output report is taken.
LEMMA CallTaken ==
    ASSUME SessionIInv, NEW s \in Session, task[s] = "device", UNCHANGED <<task, written, since>>,
           NextCall(s)' = NextCall(s) + 1, NextCall(s) \in Nat, NextCall(s) \in Call,
           channel' = IF Script[NextCall(s)] \in Output
                      THEN [channel EXCEPT ![s][Script[NextCall(s)]] = Append(@, NextCall(s))] ELSE channel
    PROVE  CallsReach(s)'
<1> DEFINE n == NextCall(s)
<1>0. Call \subseteq Nat
    BY ScriptAssumption DEF Call
<1>1. /\ CallsReach(s) /\ n \in Nat /\ since[s] \in Nat /\ since[s] <= n /\ since[s] >= 1
      /\ \A k \in Output : channel[s][k] \in Seq(Call)
      /\ \A j \in DOMAIN written[s] : written[s][j] \in Nat
    <2>1. CallsReach(s) /\ since[s] <= n /\ since[s] >= 1
        BY DEF SessionIInv, SessionOK, CallsReach
    <2>2. /\ since[s] \in Nat /\ written[s] \in Seq(Call)
          /\ \A k \in Output : channel[s][k] \in Seq(Call)
        BY DEF SessionIInv, StateOK
    <2> QED BY <1>0, <2>1, <2>2
<1>2. \A j \in DOMAIN written[s] : written[s][j] < n /\ written[s][j] # n
    BY <1>1 DEF CallsReach
<1>3. ASSUME NEW k \in Output PROVE ChannelInOrder(s, k)'
    <2> DEFINE q == channel[s][k]
    <2>1. ChannelInOrder(s, k) /\ q \in Seq(Call)
        BY <1>1 DEF CallsReach
    <2>2. CASE Script[n] = k
        <3>1. channel'[s][k] = Append(q, n)
            BY <2>2 DEF SessionIInv, StateOK
        <3>2. /\ Len(q) \in Nat /\ DOMAIN q = 1..Len(q) /\ DOMAIN Append(q, n) = 1..(Len(q) + 1)
              /\ Append(q, n)[Len(q) + 1] = n
              /\ \A i \in 1..Len(q) : Append(q, n)[i] = q[i] /\ q[i] \in Nat
            BY <1>0, <2>1
        <3> HIDE DEF q
        <3>3. ASSUME NEW i \in DOMAIN channel'[s][k]
              PROVE  /\ Script[channel'[s][k][i]] = k
                     /\ since[s] <= channel'[s][k][i] /\ channel'[s][k][i] < n + 1
                     /\ \A j \in DOMAIN channel'[s][k] : i < j => channel'[s][k][i] < channel'[s][k][j]
                     /\ \A j \in DOMAIN written[s] : written[s][j] # channel'[s][k][i]
            <4>1. CASE i = Len(q) + 1
                BY <1>1, <1>2, <2>2, <3>1, <3>2, <4>1
            <4>2. CASE i \in 1..Len(q)
                <5>1. /\ Script[q[i]] = k /\ since[s] <= q[i] /\ q[i] < n
                      /\ \A j \in 1..Len(q) : i < j => q[i] < q[j]
                      /\ \A j \in DOMAIN written[s] : written[s][j] # q[i]
                    BY <2>1, <3>2, <4>2 DEF ChannelInOrder, q
                <5>2. channel'[s][k][i] = q[i] /\ q[i] \in Nat
                    BY <3>1, <3>2, <4>2
                <5>3. ASSUME NEW j \in DOMAIN channel'[s][k], i < j
                      PROVE  q[i] < channel'[s][k][j]
                    <6>1. j \in 1..Len(q) \/ j = Len(q) + 1
                        BY <3>1, <3>2
                    <6> QED BY <3>1, <3>2, <5>1, <5>3, <6>1
                <5> HIDE DEF n
                <5> QED BY <1>1, <5>1, <5>2, <5>3, SMTT(40)
            <4> QED BY <3>1, <3>2, <4>1, <4>2
        <3>4. ASSUME NEW c \in since[s]..n, Script[c] = k
              PROVE  \/ \E i \in DOMAIN channel'[s][k] : channel'[s][k][i] = c
                     \/ WrittenBefore(s, c, Len(written[s]) + 1)
            <4>1. CASE c = n
                <5>1. Len(q) + 1 \in DOMAIN channel'[s][k]
                    BY <3>1, <3>2
                <5> QED BY <3>1, <3>2, <4>1, <5>1
            <4>2. CASE c # n
                <5>1. c \in since[s]..(n - 1)
                    BY <1>1, <4>2
                <5>2. \/ \E i \in 1..Len(q) : q[i] = c
                      \/ WrittenBefore(s, c, Len(written[s]) + 1)
                    BY <2>1, <3>2, <3>4, <5>1 DEF ChannelInOrder, q
                <5> QED BY <3>1, <3>2, <5>2
            <4> QED BY <4>1, <4>2
        <3>5. (n + 1) - 1 = n
            BY <1>1
        <3> QED BY <3>3, <3>4, <3>5 DEF ChannelInOrder, WrittenBefore
    <2>3. CASE Script[n] # k
        <3>1. channel'[s][k] = channel[s][k]
            BY <2>3 DEF SessionIInv, StateOK
        <3>2. \A i \in DOMAIN channel[s][k] : channel[s][k][i] \in Nat
            BY <1>0, <2>1
        <3>3. \A c \in since[s]..((n + 1) - 1) : Script[c] = k => c \in since[s]..(n - 1)
            BY <1>1, <2>3
        <3> QED BY <1>1, <2>1, <3>1, <3>2, <3>3 DEF ChannelInOrder, WrittenBefore
    <2> QED BY <2>2, <2>3
<1>4. WritesInOrder(s)'
    BY <1>1 DEF CallsReach, WritesInOrder, WrittenBefore
<1>5. /\ \A j \in DOMAIN written[s] : written[s][j] < n + 1
      /\ since[s] >= 1 /\ since[s] <= n + 1
    BY <1>1, <1>2 DEF CallsReach
<1> QED BY <1>3, <1>4, <1>5 DEF CallsReach

\* A call comes to nothing.
LEMMA CallLost ==
    ASSUME SessionIInv, NEW s \in Session, task'[s] # "device", UNCHANGED <<written, since>>,
           NextCall(s)' \in {NextCall(s), NextCall(s) + 1}, NextCall(s) \in Int,
           channel'[s] = NoChannels
    PROVE  CallsReach(s)'
<1> USE DEF SessionIInv
<1>1. \A k \in Output : ChannelInOrder(s, k)'
    BY DEF SessionOK, Idle, ChannelInOrder, NoChannels
<1>2. WritesInOrder(s)'
    BY DEF SessionOK, CallsReach, WritesInOrder, WrittenBefore
<1>3. \A j \in DOMAIN written[s] : written[s][j] \in Nat
    BY DEF StateOK, Call
<1>4. \A j \in DOMAIN written[s] : written[s][j] < NextCall(s)'
    BY <1>3 DEF SessionOK, CallsReach
<1> QED BY <1>1, <1>2, <1>4 DEF CallsReach

LEMMA NotifiedOrRequestedOK ==
    ASSUME SessionIInv, NEW s \in Session, Worker(s), task[s] \notin {"main", "panicked"}
    PROVE  SessionIInv'
<1> USE DEF SessionIInv
<1> DEFINE m == Head(toNative[s])
<1>1. /\ toNative[s] # <<>> /\ toNative' = [toNative EXCEPT ![s] = Tail(@)]
      /\ \/ m.kind = "ConnectHid"
         \/ m.kind \in Output /\ Notified(s, m)
         \/ m.kind = "ReceiveFeatureReport" /\ Requested(s, m)
      /\ UNCHANGED <<listVars, plugged, emitted, pageVars, selecting, input, written, first, since>>
    BY DEF Worker, Notified, Requested
<1>2. /\ m.n = NextCall(s) /\ m.n \in Call /\ m.kind = Script[m.n]
      /\ NextCall(s)' = NextCall(s) + 1 /\ NextCall(s) \in Nat /\ Len(toNative'[s]) <= calls'[s]
      /\ CallsInOrder(s)' /\ toNative'[s] \in Seq(NativePacket)
    BY <1>1, TakesCall DEF StateOK, pageVars
<1>3. m.kind \in Output \cup {"ReceiveFeatureReport"} /\ m.kind # "ConnectHid" /\ m.n \in Nat
    BY <1>2, ScriptAssumption DEF Call, Output
<1> HIDE DEF m
<1>4. /\ \/ m.kind \in Output /\ Notified(s, m)
         \/ m.kind = "ReceiveFeatureReport" /\ m.kind \notin Output /\ Requested(s, m)
      /\ UNCHANGED task
    BY <1>1, <1>3 DEF Output, Notified, Requested
<1> DEFINE error == <<Packet("Error", m.n)>>
<1>5. Packet("Error", m.n) \in PagePacket /\ error \in Seq(PagePacket)
      /\ \A i \in DOMAIN error : error[i].kind # "Report"
    BY <1>3 DEF Packet, PagePacket
<1>6. /\ toPage' = toPage \/ toPage' = [toPage EXCEPT ![s] = @ \o error]
      /\ \/ channel' = channel
         \/ channel' = [channel EXCEPT ![s][m.kind] = Append(@, m.n)] /\ m.kind \in Output
      /\ requests' = requests \/ requests' = [requests EXCEPT ![s] = Append(@, m.n)]
    BY <1>4 DEF Notified, Requested, ToPage
<1> HIDE DEF error
<1>7. StateOK'
    <2>1. toNative' \in [Session -> Seq(NativePacket)]
        BY <1>1, <1>2 DEF StateOK
    <2>2. toPage' \in [Session -> Seq(PagePacket)]
        <3>1. toPage[s] \o error \in Seq(PagePacket)
            BY <1>5 DEF StateOK
        <3> QED BY <1>6, <3>1 DEF StateOK
    <2>3. channel' \in [Session -> [Output -> Seq(Call)]]
        <3>1. CASE channel' = channel
            BY <3>1 DEF StateOK
        <3>2. CASE channel' = [channel EXCEPT ![s][m.kind] = Append(@, m.n)] /\ m.kind \in Output
            <4>1. Append(channel[s][m.kind], m.n) \in Seq(Call)
                BY <1>2, <3>2 DEF StateOK
            <4> QED BY <3>2, <4>1 DEF StateOK
        <3> QED BY <1>6, <3>1, <3>2
    <2>4. requests' \in [Session -> Seq(Call)]
        <3>1. Append(requests[s], m.n) \in Seq(Call)
            BY <1>2 DEF StateOK
        <3> QED BY <1>6, <3>1 DEF StateOK
    <2> QED BY <1>1, <1>4, <2>1, <2>2, <2>3, <2>4 DEF StateOK, pageVars
<1>8. toPage' = toPage \/ task[s] # "none"
    BY <1>1 DEF SessionOK, Handshake
<1>9. Handshake(s)'
    BY <1>1, <1>4, <1>2, <1>8 DEF SessionOK, Handshake, pageVars
<1>10. task[s] # "device" => channel' = channel /\ requests' = requests
    BY <1>4 DEF Notified, Requested, Registered
<1>11. ReportsInOrder(s)'
    <2>1. CASE toPage' = toPage
        BY <1>1, <1>4, <2>1 DEF SessionOK, ReportsInOrder, pageVars
    <2>2. CASE toPage'[s] = toPage[s] \o error
        BY <1>1, <1>4, <1>5, <2>2, MoreErrors DEF SessionOK, pageVars
    <2> QED BY <1>6, <2>1, <2>2 DEF StateOK
<1>12. Idle(s)'
    <2>1. ASSUME task[s] \in Early, NEW i \in DOMAIN toPage'[s] PROVE toPage'[s][i].kind # "Report"
        <3>1. \A j \in DOMAIN toPage[s] : toPage[s][j].kind # "Report"
            BY <2>1 DEF SessionOK, Idle
        <3>2. CASE toPage' = toPage
            BY <2>1, <3>1, <3>2
        <3>3. CASE toPage'[s] = toPage[s] \o error
            <4>1. toPage[s] \in Seq(PagePacket)
                BY DEF StateOK
            <4> QED BY <1>5, <2>1, <3>1, <3>3, <4>1
        <3> QED BY <1>6, <3>2, <3>3 DEF StateOK
    <2> QED BY <1>1, <1>4, <1>10, <2>1 DEF SessionOK, Idle, pageVars
<1>13. CallsReach(s)'
    <2>1. CASE task[s] = "device"
        <3>1. channel' = IF Script[NextCall(s)] \in Output
                         THEN [channel EXCEPT ![s][Script[NextCall(s)]] = Append(@, NextCall(s))] ELSE channel
            BY <1>2, <1>4, <2>1 DEF Notified, Requested, Registered
        <3> QED BY <1>1, <1>4, <1>2, <2>1, <3>1, CallTaken
    <2>2. CASE task[s] # "device"
        BY <1>1, <1>4, <1>2, <1>10, <2>2, CallLost DEF SessionOK, Idle
    <2> QED BY <2>1, <2>2
<1>14. ASSUME NEW t \in Session, t # s PROVE SessionOK(t)'
    BY <1>14, NativeElsewhere DEF Native
<1> QED BY <1>7, <1>9, <1>11, <1>12, <1>13, <1>14 DEF SessionOK
-----------------------------------------------------------------------------
(* device().                                                                 *)

LEMMA StartsOK == ASSUME SessionIInv, NEW s \in Session, Starts(s) PROVE SessionIInv'
<1> USE DEF SessionIInv
<1>1. /\ task[s] = "listing" /\ plugged' = plugged
      /\ UNCHANGED <<emitted, toNative, toPage, pageVars, selecting, input, channel, requests, written>>
      /\ \/ /\ task' = [task EXCEPT ![s] = "device"]
            /\ first' = [first EXCEPT ![s] = emitted + 1]
            /\ since' = [since EXCEPT ![s] = NextCall(s)]
         \/ task' = [task EXCEPT ![s] = "over"] /\ UNCHANGED <<first, since>>
    BY DEF Starts, NextCall
<1>2. /\ received[s] = <<>> /\ written[s] = <<>> /\ input[s] = <<>> /\ channel[s] = NoChannels
      /\ requests[s] = <<>> /\ \A i \in DOMAIN toPage[s] : toPage[s][i].kind # "Report"
    BY <1>1 DEF SessionOK, Idle, Early
<1>3. /\ Len(toNative[s]) <= calls[s] /\ Len(toNative[s]) \in Nat /\ calls[s] \in Nat
      /\ NextCall(s) \in Nat /\ NextCall(s) >= 1 /\ toPage[s] \in Seq(PagePacket)
      /\ emitted + 1 \in Nat
    <2>1. Len(toNative[s]) <= calls[s] /\ toNative[s] \in Seq(NativePacket) /\ calls[s] \in Nat
        BY <1>1 DEF SessionOK, Handshake, StateOK
    <2> QED BY <2>1, DeviceAssumption DEF StateOK, NextCall
<1>4. StateOK'
    <2>1. task' \in [Session -> Task]
        BY <1>1 DEF StateOK, Task
    <2>2. first' \in [Session -> Nat] /\ since' \in [Session -> Nat]
        <3>1. first \in [Session -> Nat] /\ since \in [Session -> Nat]
            BY DEF StateOK
        <3>2. [first EXCEPT ![s] = emitted + 1] \in [Session -> Nat]
            BY <1>3, <3>1
        <3>3. [since EXCEPT ![s] = NextCall(s)] \in [Session -> Nat]
            BY <1>3, <3>1
        <3> QED BY <1>1, <3>1, <3>2, <3>3
    <2> QED BY <1>1, <2>1, <2>2 DEF StateOK, pageVars
<1>5. ASSUME NEW t \in Session, t # s PROVE SessionOK(t)'
    BY <1>5, NativeElsewhere DEF Native
<1>6. task'[s] \in {"device", "over"}
    BY <1>1 DEF StateOK
<1>7. Handshake(s)' /\ Idle(s)'
    BY <1>1, <1>2, <1>6 DEF SessionOK, Handshake, CallsInOrder, Idle, Early, pageVars
<1>8. NextCall(s)' = NextCall(s)
    BY <1>1 DEF NextCall, pageVars
<1>9. CallsReach(s)'
    <2>1. task'[s] = "device" => since'[s] = NextCall(s)
        BY <1>1 DEF StateOK
    <2>2. \A k \in Output : ChannelInOrder(s, k)'
        BY <1>1, <1>2, <1>3, <1>8, <2>1 DEF ChannelInOrder, NoChannels
    <2> QED BY <1>1, <1>2, <1>3, <1>8, <2>1, <2>2 DEF CallsReach, WritesInOrder
<1>10. ReportsInOrder(s)'
    <2>1. first'[s] \in Nat /\ received'[s] = <<>> /\ first'[s] + Len(received'[s]) = first'[s]
        BY <1>1, <1>2, <1>4 DEF StateOK, pageVars
    <2>2. Chain(toPage'[s], first'[s], first'[s])
        BY <1>1, <1>2, <1>3, <2>1, ChainSame
    <2>3. task'[s] = "device" => first'[s] + Len(input'[s]) = emitted' + 1
        BY <1>1, <1>2, <1>3 DEF StateOK
    <2> QED BY <1>1, <1>2, <2>1, <2>2, <2>3 DEF ReportsInOrder
<1> QED BY <1>4, <1>5, <1>7, <1>9, <1>10 DEF SessionOK

\* The device is no longer read, and what the page has yet to receive still goes on
\* from what it has got.
LEMMA EndsOK ==
    ASSUME SessionIInv, NEW s \in Session, Native(s), task[s] = "device", StateOK',
           task'[s] \in {"over", "panicked"}, channel'[s] = NoChannels, requests'[s] = <<>>, input'[s] = <<>>,
           UNCHANGED <<emitted, toNative, pageVars, written, first, since>>,
           \A x \in Nat, y \in Nat :
               (/\ Chain(toPage[s], x, y) /\ \A j \in DOMAIN input[s] : input[s][j] = y + j - 1)
                   => \E z \in Nat : Chain(toPage'[s], x, z)
    PROVE  SessionIInv'
<1> USE DEF SessionIInv
<1>1. Handshake(s)' /\ Idle(s)'
    BY DEF SessionOK, Handshake, CallsInOrder, Idle, Early, pageVars
<1>2. CallsReach(s)'
    <2>1. NextCall(s)' = NextCall(s) /\ NextCall(s) \in Int
        BY DEF NextCall, pageVars, StateOK
    <2> QED BY <2>1, CallLost
<1>3. ReportsInOrder(s)'
    <2>1. first[s] + Len(received[s]) \in Nat
        BY DEF StateOK
    <2> QED BY <2>1 DEF SessionOK, ReportsInOrder, pageVars
<1>4. ASSUME NEW t \in Session, t # s PROVE SessionOK(t)'
    BY <1>4, NativeElsewhere
<1> QED BY <1>1, <1>2, <1>3, <1>4 DEF SessionOK

LEMMA PanicsOK ==
    ASSUME SessionIInv, NEW s \in Session, Native(s), task[s] = "device", Panics(s),
           UNCHANGED <<listVars, plugged, emitted, toNative, pageVars, written, first, since>>
    PROVE  SessionIInv'
<1> USE DEF SessionIInv
<1>1. PICK n \in 0..Len(toPage[s]) : toPage' = [toPage EXCEPT ![s] = SubSeq(@, 1, n)]
    BY DEF Panics
<1>2. toPage[s] \in Seq(PagePacket) /\ toPage'[s] = SubSeq(toPage[s], 1, n)
      /\ SubSeq(toPage[s], 1, n) \in Seq(PagePacket)
    BY <1>1 DEF StateOK
<1>3. /\ task' = [task EXCEPT ![s] = "panicked"] /\ channel' = [channel EXCEPT ![s] = NoChannels]
      /\ requests' = [requests EXCEPT ![s] = <<>>] /\ input' = [input EXCEPT ![s] = <<>>]
      /\ UNCHANGED selecting
    BY DEF Panics
<1>4. StateOK'
    <2>1. toPage' \in [Session -> Seq(PagePacket)]
        BY <1>1, <1>2 DEF StateOK
    <2>2. NoChannels \in [Output -> Seq(Call)]
        BY DEF NoChannels
    <2>3. /\ task' \in [Session -> Task] /\ channel' \in [Session -> [Output -> Seq(Call)]]
          /\ requests' \in [Session -> Seq(Call)] /\ input' \in [Session -> Seq(1..MaxReports)]
        BY <1>3, <2>2 DEF StateOK, Task
    <2> QED BY <1>3, <2>1, <2>3 DEF StateOK, pageVars
<1>5. /\ task'[s] = "panicked" /\ channel'[s] = NoChannels /\ requests'[s] = <<>> /\ input'[s] = <<>>
    BY <1>3 DEF StateOK
<1>6. ASSUME NEW x \in Nat, NEW y \in Nat, Chain(toPage[s], x, y)
      PROVE  \E z \in Nat : Chain(toPage'[s], x, z)
    BY <1>2, <1>6, ChainPrefix
<1> QED BY <1>4, <1>5, <1>6, EndsOK

LEMMA ReadsOK == ASSUME SessionIInv, NEW s \in Session, Reads(s) PROVE SessionIInv'
<1> USE DEF SessionIInv
<1>1. /\ task[s] = "device" /\ toPage[s] \in Seq(PagePacket) /\ input[s] \in Seq(1..MaxReports)
      /\ UNCHANGED <<listVars, plugged, emitted, toNative, pageVars, written, first, since>>
    BY DEF Reads, StateOK
<1>2. CASE Panics(s)
    BY <1>1, <1>2, PanicsOK DEF Native
<1>3. ASSUME input' = [input EXCEPT ![s] = <<>>], ToPage(s, ReportsOf(input[s])),
             UNCHANGED <<task, channel, requests>>, selecting' = [selecting EXCEPT ![s] = TRUE]
      PROVE  SessionIInv'
    <2>1. toPage'[s] = toPage[s] \o ReportsOf(input[s]) /\ input'[s] = <<>>
        BY <1>3 DEF ToPage, StateOK
    <2>2. ReportsOf(input[s]) \in Seq(PagePacket)
        BY <1>1, ReportsType
    <2>3. StateOK'
        <3>1. toPage' \in [Session -> Seq(PagePacket)]
            BY <1>1, <1>3, <2>2 DEF ToPage, StateOK
        <3>2. input' \in [Session -> Seq(1..MaxReports)] /\ selecting' \in [Session -> BOOLEAN]
            BY <1>3 DEF StateOK
        <3> QED BY <1>1, <1>3, <3>1, <3>2 DEF StateOK, pageVars
    <2>4. Handshake(s)' /\ Idle(s)' /\ CallsReach(s)'
        <3>1. CallsReach(s)'
            BY <1>1, <1>3 DEF SessionOK, pageVars, CallsReach, WritesInOrder, WrittenBefore,
               ChannelInOrder, NextCall
        <3> QED BY <1>1, <1>3, <2>1, <3>1 DEF SessionOK, pageVars, Handshake, CallsInOrder, Idle, Early
    <2>5. ReportsInOrder(s)'
        <3>1. CASE port[s] = "down"
            BY <1>1, <3>1 DEF SessionOK, ReportsInOrder, pageVars
        <3>2. CASE port[s] # "down"
            <4>1. PICK y \in Nat :
                      /\ Chain(toPage[s], first[s] + Len(received[s]), y)
                      /\ y + Len(input[s]) = emitted + 1
                      /\ \A j \in DOMAIN input[s] : input[s][j] = y + j - 1
                BY <1>1, <3>2 DEF SessionOK, ReportsInOrder
            <4>2. first[s] + Len(received[s]) \in Nat /\ y + Len(input[s]) \in Nat
                BY <1>1 DEF StateOK
            <4>3. Chain(ReportsOf(input[s]), y, y + Len(input[s]))
                BY <1>1, <4>1, ChainReports
            <4>4. Chain(toPage'[s], first[s] + Len(received[s]), y + Len(input[s]))
                BY <1>1, <2>1, <2>2, <4>1, <4>2, <4>3, ChainConcat
            <4>5. (y + Len(input[s])) + Len(input'[s]) = emitted' + 1
                BY <1>1, <2>1, <4>1, <4>2
            <4> QED BY <1>1, <2>1, <4>2, <4>4, <4>5 DEF SessionOK, ReportsInOrder, pageVars
        <3> QED BY <3>1, <3>2
    <2>6. ASSUME NEW t \in Session, t # s PROVE SessionOK(t)'
        BY <2>6, NativeElsewhere DEF Native
    <2> QED BY <2>3, <2>4, <2>5, <2>6 DEF SessionOK
<1>4. ASSUME NEW n \in 0..Len(input[s]), Returns(s, SubSeq(input[s], 1, n)) PROVE SessionIInv'
    <2> DEFINE sent == SubSeq(input[s], 1, n)
               errors == ErrorsFor(requests[s])
    <2>1. /\ sent \in Seq(1..MaxReports) /\ Len(sent) = n /\ n \in Nat
          /\ \A j \in DOMAIN sent : j \in DOMAIN input[s] /\ sent[j] = input[s][j]
        <3>1. Len(input[s]) \in Nat /\ n \in 0..Len(input[s]) /\ DOMAIN input[s] = 1..Len(input[s])
            BY <1>1
        <3>2. \A i \in 1..n : input[s][i] \in 1..MaxReports
            <4>1. \A i \in 1..Len(input[s]) : input[s][i] \in 1..MaxReports
                BY <1>1, SeqElements
            <4> QED BY <3>1, <4>1
        <3> QED BY <1>1, <3>1, <3>2
    <2>2. errors \in Seq(PagePacket) /\ \A i \in DOMAIN errors : errors[i].kind # "Report"
        <3>1. requests[s] \in Seq(Call) /\ \A j \in DOMAIN requests[s] : requests[s][j] \in Nat
            <4>1. Call \subseteq Nat
                BY ScriptAssumption DEF Call
            <4>2. requests[s] \in Seq(Call)
                BY DEF StateOK
            <4> QED BY <4>1, <4>2, SeqElements
        <3>2. \A j \in DOMAIN requests[s] :
                  Packet("Error", requests[s][j]) \in PagePacket /\ Packet("Error", requests[s][j]).kind # "Report"
            BY <3>1 DEF Packet, PagePacket
        <3> QED BY <3>1, <3>2 DEF ErrorsFor
    <2>3. ReportsOf(sent) \in Seq(PagePacket)
        BY <2>1, ReportsType
    <2>4. /\ task' = [task EXCEPT ![s] = "over"] /\ channel' = [channel EXCEPT ![s] = NoChannels]
          /\ requests' = [requests EXCEPT ![s] = <<>>] /\ input' = [input EXCEPT ![s] = <<>>]
          /\ toPage' = [toPage EXCEPT ![s] = @ \o (ReportsOf(sent) \o errors)] /\ UNCHANGED selecting
        BY <1>4 DEF Returns, ToPage
    <2> HIDE DEF sent, errors
    <2>5. /\ ReportsOf(sent) \o errors \in Seq(PagePacket)
          /\ toPage[s] \o (ReportsOf(sent) \o errors) \in Seq(PagePacket)
        BY <1>1, <2>2, <2>3
    <2>6. StateOK'
        <3>1. toPage' \in [Session -> Seq(PagePacket)]
            BY <2>4, <2>5 DEF StateOK
        <3>2. NoChannels \in [Output -> Seq(Call)]
            BY DEF NoChannels
        <3>3. /\ task' \in [Session -> Task] /\ channel' \in [Session -> [Output -> Seq(Call)]]
              /\ requests' \in [Session -> Seq(Call)] /\ input' \in [Session -> Seq(1..MaxReports)]
            BY <2>4, <3>2 DEF StateOK, Task
        <3> QED BY <1>1, <2>4, <3>1, <3>3 DEF StateOK, pageVars
    <2>7. /\ task'[s] = "over" /\ channel'[s] = NoChannels /\ requests'[s] = <<>> /\ input'[s] = <<>>
          /\ toPage'[s] = toPage[s] \o (ReportsOf(sent) \o errors)
        BY <2>4 DEF StateOK
    <2>8. ASSUME NEW x \in Nat, NEW y \in Nat, Chain(toPage[s], x, y),
                 \A j \in DOMAIN input[s] : input[s][j] = y + j - 1
          PROVE  \E z \in Nat : Chain(toPage'[s], x, z)
        <3>1. \A j \in DOMAIN sent : sent[j] = y + j - 1
            BY <2>1, <2>8
        <3>2. Chain(ReportsOf(sent), y, y + Len(sent)) /\ y + Len(sent) \in Nat
            BY <2>1, <3>1, ChainReports
        <3>3. Chain(errors, y + Len(sent), y + Len(sent))
            BY <2>2, <3>2, ChainSame
        <3>4. Chain(ReportsOf(sent) \o errors, y, y + Len(sent))
            BY <2>2, <2>3, <3>2, <3>3, ChainConcat
        <3>5. Chain(toPage'[s], x, y + Len(sent))
            BY <1>1, <2>5, <2>7, <2>8, <3>2, <3>4, ChainConcat
        <3> QED BY <3>2, <3>5
    <2>9. Native(s)
        BY DEF Native
    <2> QED BY <1>1, <2>6, <2>7, <2>8, <2>9, EndsOK
<1> QED BY <1>2, <1>3, <1>4 DEF Reads
LEMMA DelayOK == ASSUME SessionIInv, NEW s \in Session, Delay(s) PROVE SessionIInv'
<1> USE DEF SessionIInv
<1>1. StateOK'
    BY DEF Delay, StateOK, pageVars
<1>2. Same(s)
    BY DEF Delay, Same, pageVars
<1>3. ASSUME NEW t \in Session, t # s PROVE SessionOK(t)'
    BY <1>3, NativeElsewhere DEF Native
<1> QED BY <1>1, <1>2, <1>3, SameOK

LEMMA ReceivesFeatureReportOK ==
    ASSUME SessionIInv, NEW s \in Session, ReceivesFeatureReport(s)
    PROVE  SessionIInv'
<1> USE DEF SessionIInv
<1> DEFINE n == Head(requests[s])
<1>1. PICK kind \in {"FeatureReport", "Error"} : ToPage(s, <<Packet(kind, n)>>)
    BY DEF ReceivesFeatureReport
<1>2. /\ task[s] = "device" /\ requests[s] # <<>> /\ requests' = [requests EXCEPT ![s] = Tail(@)]
      /\ selecting' = [selecting EXCEPT ![s] = FALSE]
      /\ UNCHANGED <<listVars, plugged, emitted, toNative, pageVars, task, input, channel,
                     written, first, since>>
    BY DEF ReceivesFeatureReport
<1>3. /\ requests[s] \in Seq(Call) /\ n \in Call /\ n \in Nat /\ Tail(requests[s]) \in Seq(Call)
      /\ toPage[s] \in Seq(PagePacket)
    <2>1. Call \subseteq Nat
        BY ScriptAssumption DEF Call
    <2>2. requests[s] \in Seq(Call) /\ toPage[s] \in Seq(PagePacket)
        BY DEF StateOK
    <2> QED BY <1>2, <2>1, <2>2, SeqHeadTail
<1> HIDE DEF n
<1> DEFINE q == <<Packet(kind, n)>>
<1>4. q \in Seq(PagePacket) /\ \A i \in DOMAIN q : q[i].kind # "Report"
    <2>1. Packet(kind, n) \in PagePacket /\ Packet(kind, n).kind # "Report"
        BY <1>1, <1>3 DEF Packet, PagePacket
    <2> QED BY <2>1
<1>5. toPage' = [toPage EXCEPT ![s] = @ \o q] /\ toPage'[s] = toPage[s] \o q
    BY <1>1 DEF ToPage, StateOK
<1> HIDE DEF q
<1>6. StateOK'
    <2>1. toPage' \in [Session -> Seq(PagePacket)]
        BY <1>3, <1>4, <1>5 DEF StateOK
    <2>2. requests' \in [Session -> Seq(Call)] /\ selecting' \in [Session -> BOOLEAN]
        BY <1>2, <1>3 DEF StateOK
    <2> QED BY <1>2, <2>1, <2>2 DEF StateOK, pageVars
<1>7. Handshake(s)' /\ Idle(s)' /\ CallsReach(s)'
    <2>1. CallsReach(s)'
        BY <1>2 DEF SessionOK, pageVars, CallsReach, WritesInOrder, WrittenBefore, ChannelInOrder,
           NextCall
    <2> QED BY <1>2, <2>1 DEF SessionOK, pageVars, Handshake, CallsInOrder, Idle, Early
<1>8. ReportsInOrder(s)'
    BY <1>2, <1>4, <1>5, MoreErrors DEF SessionOK, pageVars
<1>9. ASSUME NEW t \in Session, t # s PROVE SessionOK(t)'
    BY <1>9, NativeElsewhere DEF Native
<1> QED BY <1>6, <1>7, <1>8, <1>9 DEF SessionOK

\* The first of a channel is the smallest that has not been written.
LEMMA WrittenNext ==
    ASSUME SessionIInv, NEW s \in Session, NEW k \in Output, task[s] = "device", channel[s][k] # <<>>,
           UNCHANGED <<task, calls, toNative, since>>,
           channel' = [channel EXCEPT ![s][k] = Tail(@)],
           written' = [written EXCEPT ![s] = Append(@, Head(channel[s][k]))]
    PROVE  CallsReach(s)'
<1> USE DEF SessionIInv
<1> DEFINE q == channel[s][k]
           w == written[s]
           n == Head(q)
<1>1. /\ q \in Seq(Call) /\ w \in Seq(Call) /\ since[s] \in Nat /\ CallsReach(s)
      /\ ChannelInOrder(s, k)
    BY DEF StateOK, SessionOK, CallsReach
<1>2. Call \subseteq Nat
    BY ScriptAssumption DEF Call
<1>3. /\ Len(q) \in Nat /\ Len(q) >= 1 /\ n = q[1] /\ n \in Call /\ n \in Nat
      /\ Tail(q) \in Seq(Call) /\ DOMAIN q = 1..Len(q) /\ DOMAIN Tail(q) = 1..(Len(q) - 1)
      /\ \A i \in 1..(Len(q) - 1) : Tail(q)[i] = q[i + 1] /\ i + 1 \in 1..Len(q)
    BY <1>1, <1>2, SMTT(40)
<1>4. /\ Len(w) \in Nat /\ DOMAIN w = 1..Len(w) /\ DOMAIN Append(w, n) = 1..(Len(w) + 1)
      /\ Append(w, n)[Len(w) + 1] = n /\ Len(Append(w, n)) = Len(w) + 1
      /\ \A i \in 1..Len(w) : Append(w, n)[i] = w[i] /\ w[i] \in Nat
    BY <1>1, <1>2, <1>3
<1>5. /\ channel'[s][k] = Tail(q) /\ written'[s] = Append(w, n)
      /\ \A l \in Output : l # k => channel'[s][l] = channel[s][l]
    BY DEF StateOK
<1>6. NextCall(s)' = NextCall(s)
    BY DEF NextCall
<1>7. /\ Script[n] = k /\ since[s] <= n /\ n < NextCall(s)
      /\ \A j \in 1..Len(q) : 1 < j => n < q[j]
      /\ \A j \in 1..Len(w) : w[j] # n
    BY <1>1, <1>3, <1>4 DEF ChannelInOrder
<1>8. NextCall(s) \in Int
    BY DEF NextCall, StateOK
<1>9. ASSUME NEW c, WrittenBefore(s, c, Len(w) + 1)
      PROVE  \E i \in 1..Len(w) : Append(w, n)[i] = c
    BY <1>4, <1>9 DEF WrittenBefore
<1> HIDE DEF q, w, n
<1>10. ASSUME NEW c \in since[s]..(n - 1), Script[c] = k
       PROVE  \E i \in 1..Len(w) : Append(w, n)[i] = c
    <2>1. c \in since[s]..(NextCall(s) - 1) /\ c < n
        BY <1>1, <1>3, <1>7, <1>8
    <2>2. \/ \E i \in 1..Len(q) : q[i] = c
          \/ WrittenBefore(s, c, Len(w) + 1)
        BY <1>1, <1>3, <1>10, <2>1 DEF ChannelInOrder, q, w
    <2>3. \A i \in 1..Len(q) : q[i] # c
        <3>1. \A i \in 1..Len(q) : q[i] \in Nat /\ (i = 1 \/ 1 < i)
            BY <1>1, <1>2, <1>3
        <3> QED BY <1>3, <1>7, <2>1, <3>1
    <2> QED BY <1>9, <2>2, <2>3
<1>11. WritesInOrder(s)'
    <2>1. ASSUME NEW j \in 1..(Len(w) + 1)
          PROVE  LET m == Append(w, n)[j]
                 IN  /\ since[s] <= m
                     /\ \A i \in 1..(j - 1) : Append(w, n)[i] # m
                     /\ \A c \in since[s]..(m - 1) : Script[c] = Script[m] =>
                            \E i \in 1..(j - 1) : Append(w, n)[i] = c
        <3>1. CASE j = Len(w) + 1
            BY <1>4, <1>7, <1>10, <3>1
        <3>2. CASE j \in 1..Len(w)
            <4>1. /\ since[s] <= w[j] /\ \A i \in 1..(j - 1) : w[i] # w[j]
                  /\ \A c \in since[s]..(w[j] - 1) : Script[c] = Script[w[j]] =>
                         \E i \in 1..(j - 1) : w[i] = c
                BY <1>1, <1>4, <3>2 DEF CallsReach, WritesInOrder, WrittenBefore, w
            <4>2. \A i \in 1..(j - 1) : i \in 1..Len(w)
                BY <1>4, <3>2
            <4> QED BY <1>4, <3>2, <4>1, <4>2
        <3> QED BY <1>4, <3>1, <3>2
    <2>2. DOMAIN written'[s] = 1..(Len(w) + 1) /\ since' = since
        BY <1>4, <1>5
    <2>3. ASSUME NEW j \in DOMAIN written'[s]
          PROVE  LET m == written'[s][j]
                 IN  /\ since'[s] <= m
                     /\ \A i \in 1..(j - 1) : written'[s][i] # m
                     /\ \A c \in since'[s]..(m - 1) : Script[c] = Script[m] =>
                            \E i \in 1..(j - 1) : written'[s][i] = c
        <3>1. j \in 1..(Len(w) + 1)
            BY <2>2
        <3> QED BY <1>5, <2>1, <2>2, <3>1
    <2> QED BY <2>3 DEF WritesInOrder, WrittenBefore
<1>12. ASSUME NEW l \in Output PROVE ChannelInOrder(s, l)'
    <2>0. ChannelInOrder(s, l)
        BY <1>1 DEF CallsReach
    <2>1. ASSUME NEW c, WrittenBefore(s, c, Len(w) + 1) \/ c = n
          PROVE  WrittenBefore(s, c, Len(written[s]) + 1)'
        <3>1. (Len(w) + 1) + 1 - 1 = Len(w) + 1
            BY <1>4
        <3> QED BY <1>4, <1>5, <1>9, <2>1, <3>1 DEF WrittenBefore
    <2>2. CASE l # k
        <3>1. \A i \in DOMAIN channel[s][l] :
                  Script[channel[s][l][i]] = l /\ \A j \in 1..Len(w) : w[j] # channel[s][l][i]
            BY <1>4, <2>0 DEF ChannelInOrder, w
        <3>2. \A i \in DOMAIN channel[s][l] : \A j \in DOMAIN written'[s] :
                  written'[s][j] # channel[s][l][i]
            BY <1>4, <1>5, <1>7, <2>2, <3>1
        <3>3. \A c \in since[s]..(NextCall(s) - 1) : Script[c] = l =>
                  \/ \E i \in DOMAIN channel[s][l] : channel[s][l][i] = c
                  \/ WrittenBefore(s, c, Len(written[s]) + 1)'
            BY <2>0, <2>1 DEF ChannelInOrder, w
        <3>4. channel'[s][l] = channel[s][l]
            BY <1>5, <2>2
        <3>5. \A i \in DOMAIN channel[s][l] :
                  /\ since[s] <= channel[s][l][i] /\ channel[s][l][i] < NextCall(s)
                  /\ \A j \in DOMAIN channel[s][l] : i < j => channel[s][l][i] < channel[s][l][j]
            BY <2>0 DEF ChannelInOrder
        <3> QED BY <1>6, <3>1, <3>2, <3>3, <3>4, <3>5 DEF ChannelInOrder
    <2>3. CASE l = k
        <3>1. \A i \in 1..Len(q) :
                  /\ Script[q[i]] = k /\ since[s] <= q[i] /\ q[i] < NextCall(s)
                  /\ \A j \in 1..Len(q) : i < j => q[i] < q[j]
                  /\ \A j \in 1..Len(w) : w[j] # q[i]
                  /\ q[i] \in Nat
            BY <1>1, <1>2, <1>3, <1>4 DEF ChannelInOrder, q, w
        <3>2. ASSUME NEW i \in 1..(Len(q) - 1)
              PROVE  /\ Script[Tail(q)[i]] = k /\ since[s] <= Tail(q)[i] /\ Tail(q)[i] < NextCall(s)
                     /\ \A j \in 1..(Len(q) - 1) : i < j => Tail(q)[i] < Tail(q)[j]
                     /\ \A j \in 1..(Len(w) + 1) : Append(w, n)[j] # Tail(q)[i]
            <4>1. Tail(q)[i] = q[i + 1] /\ i + 1 \in 1..Len(q) /\ 1 < i + 1 /\ i \in Nat
                BY <1>3
            <4>2. \A j \in 1..(Len(q) - 1) : i < j => i + 1 < j + 1
                BY <1>3
            <4>3. n < q[i + 1] /\ n # q[i + 1]
                BY <1>3, <1>7, <3>1, <4>1
            <4>4. \A j \in 1..(Len(w) + 1) : Append(w, n)[j] # q[i + 1]
                BY <1>4, <3>1, <4>1, <4>3
            <4> QED BY <1>3, <3>1, <4>1, <4>2, <4>4
        <3>3. ASSUME NEW c \in since[s]..(NextCall(s) - 1), Script[c] = k
              PROVE  \/ \E i \in 1..(Len(q) - 1) : Tail(q)[i] = c
                     \/ WrittenBefore(s, c, Len(written[s]) + 1)'
            <4>1. \/ \E i \in 1..Len(q) : q[i] = c
                  \/ WrittenBefore(s, c, Len(w) + 1)
                BY <1>1, <1>3, <3>3 DEF ChannelInOrder, q, w
            <4>2. ASSUME NEW i \in 1..Len(q), q[i] = c, i # 1
                  PROVE  \E j \in 1..(Len(q) - 1) : Tail(q)[j] = c
                <5>1. i - 1 \in 1..(Len(q) - 1) /\ (i - 1) + 1 = i
                    BY <1>3, <4>2
                <5> QED BY <1>3, <4>2, <5>1
            <4> QED BY <1>3, <2>1, <4>1, <4>2
        <3>4. channel'[s][l] = Tail(q) /\ DOMAIN Tail(q) = 1..(Len(q) - 1)
            BY <1>3, <1>5, <2>3
        <3>5. DOMAIN written'[s] = 1..(Len(w) + 1) /\ written'[s] = Append(w, n)
            BY <1>4, <1>5
        <3>6. ASSUME NEW i \in DOMAIN channel'[s][l]
              PROVE  /\ Script[channel'[s][l][i]] = l
                     /\ since'[s] <= channel'[s][l][i] /\ channel'[s][l][i] < NextCall(s)'
                     /\ \A j \in DOMAIN channel'[s][l] : i < j => channel'[s][l][i] < channel'[s][l][j]
                     /\ \A j \in DOMAIN written'[s] : written'[s][j] # channel'[s][l][i]
            BY <1>6, <2>3, <3>2, <3>4, <3>5
        <3>7. ASSUME NEW c \in since[s]..(NextCall(s) - 1), Script[c] = l
              PROVE  \/ \E i \in DOMAIN channel'[s][l] : channel'[s][l][i] = c
                     \/ WrittenBefore(s, c, Len(written[s]) + 1)'
            BY <2>3, <3>3, <3>4, <3>7
        <3> QED BY <1>6, <3>6, <3>7 DEF ChannelInOrder
    <2> QED BY <2>2, <2>3
<1>13. \A j \in DOMAIN written'[s] : written'[s][j] < NextCall(s)
    BY <1>1, <1>4, <1>5, <1>7 DEF CallsReach, w
<1>14. since[s] >= 1 /\ since[s] <= NextCall(s)
    BY <1>1 DEF CallsReach
<1> QED BY <1>6, <1>11, <1>12, <1>13, <1>14 DEF CallsReach

LEMMA WritesReportOK ==
    ASSUME SessionIInv, NEW s \in Session, NEW k \in Output, WritesReport(s, k)
    PROVE  SessionIInv'
<1> USE DEF SessionIInv
<1>1. /\ task[s] = "device" /\ channel[s][k] # <<>>
      /\ UNCHANGED <<listVars, plugged, emitted, toNative, pageVars, first, since>>
    BY DEF WritesReport
<1>2. CASE Panics(s) /\ UNCHANGED written
    BY <1>1, <1>2, PanicsOK DEF Native
<1>3. ASSUME selecting' = [selecting EXCEPT ![s] = FALSE], channel' = [channel EXCEPT ![s][k] = Tail(@)],
             written' = [written EXCEPT ![s] = Append(@, Head(channel[s][k]))],
             UNCHANGED <<task, input, requests, toPage>>
      PROVE  SessionIInv'
    <2>1. /\ channel[s][k] \in Seq(Call) /\ Tail(channel[s][k]) \in Seq(Call)
          /\ Head(channel[s][k]) \in Call
          /\ written[s] \in Seq(Call) /\ Append(written[s], Head(channel[s][k])) \in Seq(Call)
        BY <1>1 DEF StateOK
    <2>2. StateOK'
        <3>1. /\ channel' \in [Session -> [Output -> Seq(Call)]] /\ written' \in [Session -> Seq(Call)]
              /\ selecting' \in [Session -> BOOLEAN]
            BY <1>3, <2>1 DEF StateOK
        <3> QED BY <1>1, <1>3, <3>1 DEF StateOK, pageVars
    <2>3. Handshake(s)' /\ Idle(s)' /\ ReportsInOrder(s)'
        BY <1>1, <1>3 DEF SessionOK, pageVars, Handshake, CallsInOrder, Idle, Early, ReportsInOrder
    <2>4. CallsReach(s)'
        BY <1>1, <1>3, WrittenNext DEF pageVars
    <2>5. ASSUME NEW t \in Session, t # s PROVE SessionOK(t)'
        BY <2>5, NativeElsewhere DEF Native
    <2> QED BY <2>2, <2>3, <2>4, <2>5 DEF SessionOK
<1> QED BY <1>2, <1>3 DEF WritesReport

-----------------------------------------------------------------------------

LEMMA SessionNext == SessionIInv /\ [Next]_vars => SessionIInv'
<1> SUFFICES ASSUME SessionIInv, [Next]_vars PROVE SessionIInv'
    OBVIOUS
<1>1. CASE ListStep \/ Unplugs \/ AddedDevice
    BY <1>1, ElsewhereOK
<1>2. CASE Emits
    BY <1>2, EmitsOK
<1>3. CASE RemovedDevice \/ close
    BY <1>3, ClosesOK
<1>4. CASE \E n \in Call : Calls(n)
    BY <1>4, CallsOK
<1>5. ASSUME NEW s \in Session, Page(s) PROVE SessionIInv'
    BY <1>5, OpenOK, OpenNativeAnsweredOK, OpenEndsOK, HearsOK DEF Page
<1>6. ASSUME NEW s \in Session, Native(s) PROVE SessionIInv'
    <2>1. CASE Worker(s)
        BY <2>1, ConnectHidOK, SwallowedOK, NotifiedOrRequestedOK
    <2>2. ASSUME NEW k \in Output, WritesReport(s, k) PROVE SessionIInv'
        BY <2>2, WritesReportOK
    <2> QED BY <1>6, <2>1, <2>2, StartsOK, ReadsOK, ReceivesFeatureReportOK, DelayOK DEF Native
<1>7. CASE UNCHANGED vars
    <2>1. StateOK'
        BY <1>7 DEF SessionIInv, StateOK, vars, pageVars, nativeVars
    <2>2. \A s \in Session : Same(s)
        BY <1>7 DEF Same, vars, pageVars, nativeVars
    <2> QED BY <2>1, <2>2, SameOK DEF SessionIInv
<1> QED BY <1>1, <1>2, <1>3, <1>4, <1>5, <1>6, <1>7 DEF Next

\* What is on its way in each session, in both directions, and what device() holds of
\* it: the order of the polling loop, the channels and the ports.
THEOREM SpecSessionIInv == Spec => []SessionIInv
BY SessionInit, SessionNext, PTL DEF Spec

\* The type invariant.
THEOREM SpecTypeOK == Spec => []TypeOK
<1>1. ListTypeOK /\ SessionIInv => TypeOK
    <2> SUFFICES ASSUME ListTypeOK, SessionIInv PROVE TypeOK
        OBVIOUS
    <2>1. ASSUME NEW s \in Session
          PROVE  /\ input[s] \in Seq(1..MaxReports) /\ requests[s] \in Seq(Call)
                 /\ calls[s] \in 0..Len(Script) /\ waiting[s] \subseteq 1..calls[s]
        <3>1. waiting[s] \subseteq Call /\ calls[s] \in 0..Len(Script)
            BY DEF SessionIInv, StateOK
        <3>2. \A n \in waiting[s] : n <= calls[s]
            BY DEF SessionIInv, SessionOK, Handshake
        <3>3. \A n \in Call : n \in Nat /\ 1 <= n
            BY ScriptAssumption DEF Call
        <3> QED BY <3>1, <3>2, <3>3 DEF SessionIInv, StateOK
    <2>2. ASSUME NEW s \in Session, NEW k \in Output, NEW n \in ToSet(channel[s][k])
          PROVE  n \in Call /\ Script[n] = k
        <3>1. PICK i \in DOMAIN channel[s][k] : channel[s][k][i] = n
            BY DEF ToSet
        <3>2. channel[s][k] \in Seq(Call)
            BY DEF SessionIInv, StateOK
        <3> QED BY <3>1, <3>2 DEF SessionIInv, SessionOK, CallsReach, ChannelInOrder
    <2> QED BY <2>1, <2>2 DEF TypeOK, SessionIInv, StateOK, Opening, Task
<1>2. IInv => ListTypeOK
    BY DEF IInv, ListIInv
<1> QED BY <1>1, <1>2, SpecIInv, SpecSessionIInv, PTL

\* What the page gets are the input reports from the moment the device was opened,
\* in order and without a gap (main.rs 498-534).
THEOREM SpecInputWithoutGap == Spec => []InputWithoutGap
<1>1. SessionIInv => InputWithoutGap
    BY DEF SessionIInv, SessionOK, ReportsInOrder, InputWithoutGap
<1> QED BY <1>1, SpecSessionIInv, PTL

\* Of the output reports of a kind those that reach the device are the first after the
\* handlers are registered, in order and without a gap (main.rs 489-494 and 537-557).
THEOREM SpecOutputWithoutGap == Spec => []OutputWithoutGap
<1>1. SessionIInv => OutputWithoutGap
    BY DEF SessionIInv, SessionOK, CallsReach, WritesInOrder, WrittenBefore, OutputWithoutGap
<1> QED BY <1>1, SpecSessionIInv, PTL
=============================================================================
