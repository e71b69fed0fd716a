# TLA+ models of HidFox

HidFox gives pages in Firefox the WebHID API.  A script injected into the page
talks over a content script and the background page of the extension to a
native process, which opens the devices.  All of them are nodes of one small
packet network ("bifrostlink"), written twice: in Rust (`bifrostlink/`, used by
`src/main.rs`) and in TypeScript (`addon/rpc.ts`).

The modules here model that network, the transport under it and the protocol on
top of it; TLC checks them on small instances, and TLAPS proves for every
instance every safety invariant of the runs: those of the routing, of the
answering of requests, of the in-page ports, of the deployed chain of nodes and of
the access to devices.  One of them, `ApprovedIsListed`, is proved as long as no
three calls of `requestDevice()` are pending at once, since with three it fails.
Paths below are relative to the root of the repository.

## 1. The system

### 1.1 Parts

| part | source | state it keeps | operations |
|---|---|---|---|
| routing table (Rust) | `bifrostlink/src/route.rs` | per address the routes by via, the cached minimum and second best, an inverse index | `inc`, `dec`, `update`, `forwarder_for`, `may_be_forwarder_for`, `list`; raises events |
| rpc node (Rust) | `bifrostlink/src/{rpc,connection,event,internal_handlers}.rs` | connections, table, handlers, pending responses, the root queue | `add_direct`, `remove_direct`, `notify`, `request`, `wait_for_connection_to`; worker; one reader task for each connection |
| polling requests (Rust) | `bifrostlink/src/polling/request.rs` | a handler for each name, two channels and a task | register, unregister, poll, respond, the destructors |
| polling notifications (Rust) | `bifrostlink/src/polling/notification.rs` | the same for notifications | register, unregister, receive |
| rpc node (TypeScript) | `addon/rpc.ts` | connections, `RouteSet`, pending requests with timeouts, listeners | `addDirect`, `removeDirect`, `request`, `notify`, `waitForConnectionTo`, forwarding |
| listener lists | `addon/listener.ts` | an array of listeners, a timer for each wait | `addListener`, `removeListener`, `callListeners`, `waitForEvent` |
| in-page channel | `addon/inpage.ts` | a map of ports on either side of `window` | `connect`, `postMessage`, `disconnect`, `close` |
| injected script | `addon/injected.ts` | `Hid` (devices, initialisation), `HidDevice` | `getDevices`, `requestDevice`, `open`, `close`, reports |
| content script | `addon/content.ts` | one node for each port of the page | `onConnect` |
| background page | `addon/background.ts` | one node for each content port, popups that are awaited, `localStorage` | `OpenNative`, `OpenPopup`, `StorageGet`, `StorageSet`, `StorageRemove` |
| popup | `addon/popup.tsx` | the list of pending access requests | `RequestAccess`, the user's answer |
| native process | `src/main.rs` | `hid()`: the device list, the refresh interval; `device()`: an open device | `SubscribeHid`, `RequestDevice`, `PollRefresh`, `ConnectHid`, reports |
| transport of the native process | `bifrostlink/src/port.rs` | two channels over stdin and stdout | send, receive, end |

### 1.2 How they interact

A *connection* is a FIFO port with a neighbour.  When a neighbour is added, the
node sends it the list of what it can reach (`AddForwarded`), and from then on
whatever its route events call for: the first route to an address, the loss of
the last one, a second one (then the neighbour the first one leads through has
to hear of it too), a new minimum.  A packet goes to the direct neighbour if
there is one, and else over the best route that does not lead back.

On top of this the page calls `OpenNative` on the background page, `SubscribeHid`,
`RequestDevice` and `PollRefresh` on the native process; the native process calls
`StorageGet`, `StorageSet` and `OpenPopup` on the background page and
`RequestAccess` on the popup; and it tells the page of devices with `AddedDevice`
and `RemovedDevice`.

### 1.3 What is hard here

* *Ordering.* Nothing waits for an announcement to arrive: the page sends a
  request to the native process as soon as `OpenNative` is answered, and only the
  order of packets on each hop lets every node know the way by then.
* *Interleaving.* In the Rust node callers, readers and the worker share the
  table under a lock and the root queue without one: `add_direct` writes a list of
  routes behind events the table has raised before, and the new neighbour hears
  both.
* *Split horizon with two figures.* What a neighbour is told depends on the
  best and the second best route, on which neighbour each leads through and on
  which of them has changed.
* *Popups come and go*, time out, are closed by the user in the middle of a
  request, and are opened again while the last one is still closing.
* *Intervals.* A device approved now is seen one refresh later, and `PollRefresh`
  does not wait for that refresh.
* *Destructors that answer.* A polling request may be dropped in five places and
  has to be answered exactly once.
* *Read, extend, write.* Every page has a native process of its own, and all of
  them keep the list of allowed devices in one key of `localStorage`, with requests
  that may fail.
* *A task that ends in the middle.* `device()` returns when its device is gone and
  panics on a report it does not know, with reports and requests in its queues.
* *Listeners that remove themselves* from the array that is being walked, and
  timers that race events.

`PROJECT.json` lists these as hazards, each at the line where it bites, with the
properties that cover it or the reason why none does.

### 1.4 What makes each part correct

* Table: the inverse index agrees with the routes and no assertion fails
  (`InverseBalanced`); the cached minimum is a minimum (`MinExact`, part of the
  proof).
* Announcements: a neighbour holds the best route around itself, neither too few
  nor too many (`HeardExact`), and one that joins late holds the same
  (`LateJoinerAgrees`); all in all the node keeps the promise `SplitHorizon`.
* Rust node: the same once its queue is drained, in spite of the interleavings
  (`SettledExact`); list and table agree (`DirectIffConnected`); waiters are woken
  (`NoLostWakeup`, `WaiterReturns`); dead ports leave (`EndedIsRemoved`).
* TypeScript node: consistent tables and no phantom routes (`TableConsistent`,
  `NoPhantomOffer`, `ReachableIsOffered`); a wait misses its route in no way but
  one, right behind another wait for it (`NoMissedConnection`), and its cleanup runs
  once (`CleanupOnce`).
* Deployed chain: no packet overtakes the announcement it needs (`NothingLost`),
  routes settle after a popup (`Converged`), `hid()` has one exchange under way, the
  one it awaits (`OneAnswer`), an approved device is listed (`ApprovedIsListed`), calls return and the page's view converges (`CallReturns`,
  `WatcherConverges`).
* Requests: one answer for each and order within a stream (`AnsweredOnce`,
  `InOrder`); all in all the promise `Answering`.
* In-page ports: order, one end for each port, disconnects heard
  (`ReceivedInOrder`, `ToldOnce`, `DisconnectHeard`).
* Allowed list and opened device: an approval is lost only to a process that could
  not have seen it when it read the list (`ApprovalsKept`), and nothing is opened that
  was not approved (`OnlyApprovedOpened`);
  reports have no gaps in either direction (`InputWithoutGap`,
  `OutputWithoutGap`), and a feature report is answered (`FeatureReportAnswered`).

## 2. Modules

| module | models | uses |
|---|---|---|
| `RouteEvents` | the minimum of a route map, the five route events, which of them concerns whom and the notification it becomes; pure operators | |
| `RouteSet` | `RouteSet` and `InverseRouteSet` of `route.rs` as actions | `RouteEvents` |
| `SplitHorizon` | abstract: what a node promises its neighbours, without events, cached minimum or notifications | `RouteEvents` |
| `Announce` | a table and neighbours that hear every event at once: what the announcements *mean*, with the queue abstracted away; implements `SplitHorizon` | `RouteSet` |
| `RpcNode` | a Rust node: root queue, worker, reader tasks, callers | `Announce`, for its table and `heard` |
| `PortRpc` | a TypeScript node: `RouteSet` with its insertion order, connections, listener lists, `waitForConnectionTo` | `RouteEvents` |
| `HidFox` | the five nodes of one page and the WebHID protocol between them | `RouteEvents` |
| `Answering` | abstract: every request is answered in the end, once | |
| `Polling` | requests on a Rust node: callback and polling handlers; implements `Answering` | |
| `InPage` | the two ends of a `WindowMessageChannel` | |
| `AllowedList` | the allowed list and the processes that extend it | |
| `Device` | a `HidDevice`, `ConnectHid` and `device()` | `AllowedList` |
| `PortRpcMC` | the symmetry of the waiters for the run of `PortRpc` | `PortRpc` |
| `DeviceMC` | the script of calls for the run of `Device` | `Device` |
| `RpcNodeProofs` (with `Announce`), `PortRpcProofs`, `HidFoxProofs` and `HidFoxListedProofs`, `PollingProofs`, `InPageProofs`, `DeviceProofs` | the theorems, see 6 | the module, `TLAPS` |
| `RouteEventProofs` | lemmas on what the notifications of a change do to what a neighbour holds | `RouteEvents` |

Definitions whose comment begins with "Mutant:" are wrong versions of the
definition they stand before, each of them a bug one could write there; no
specification uses them.  They serve to show that a property can fail.

### 2.1 State and actions against the code

*RouteEvents, RouteSet.* A route map `via[a]` is a function from `Via` (the
addresses and `Direct`) to an rtt or `None`, `min_rtt[a]` the cached `MinRtt`
record, `inverse[v]` the inverse index.  `IncRoute`, `DecRoute` and `UpdateRoute`
are `inc`, `dec` and `update`.  `update_min_rtt` finds a minimum by iterating a
HashMap: any of several equal ones may be found, so `MinRttsOf` is the *set* of
the possible results and an action picks one.  `panicked` is set where an
`assert!` of `InverseRouteSet` would fail.

*Announce.* `heard[n][a]` is the route to `a` that a neighbour `n` believes in
after every notification so far.  It is a ghost of the receiver, whose own
`inc`, `dec` and `update` are `Hear`: a route that is known is not added again.
Its definitions carry the name of the module (`AnnounceInit`, `AnnounceSpec`), since
`RpcNode` extends it.

*RpcNode.* `queue` is the channel of `RootEvent`s.  A caller's action is one
critical section under the write lock; a worker action is one iteration of its
loop; a reader's actions are `PortMessage` and `PortEnds`.  `add_direct` and
`remove_direct` append the events the table raises, in their order.
`fresh` is a ghost: the neighbours whose connection was added with no packet for
an earlier connection still queued (see 4, `SettledExact`).

*PortRpc.* The listeners of `RouteSet` are called synchronously, so an event of a
port with everything it causes is one step.  `#updateMinRtt` loops over a Map in
the order of insertion, and takes for the second best only what was the best
before; `older` keeps that order and `LoopMinRtts` is the loop.
`OnUpdatedForwardedRtt` passes its arguments in the order the code does
(`addon/rpc.ts:296`, the sender where the address belongs).  `listeners` is the
array of `connectionListChange` behind the listener of the constructor: an event
calls it by index while the waiters it wakes take themselves out, and `timers` are
the timeouts that are set.  `skipped` is a ghost: the waiters that stood right behind one
that such an event, which they waited for too, has woken.

*HidFox.* `chan[x][y]` is the FIFO of packets on a link, `conn` and `routes` the
connections and tables of all nodes, in the representation that is left when
every link has the rtt 50 (which is so: `addon/content.ts:11-12`,
`addon/background.ts:48,74,79`, `src/main.rs:117`).  `page[c]`, `hid` and `popup` say
where the callers in the injected script (the constructor of `Hid` and every call
of `requestDevice()`), the `hid()` task and the popup window are; `page[c]` is named
for the request that is awaited, and a request is identified by its caller and
that name.  An action takes one packet at one node, with the forwarding, the
answers and the announcements that follow, or is one step of the `hid()` task
between two awaits: with its delay over the task does not pause at `select!`, so
`Resume` answers a number of waiting refreshes and then goes on, all in one step
(the runtime has one thread).  `lost` collects what some node gave up on ("could not
forward", "no handler").

*Polling.* `orx[g]` and `channel[g]` are the two channels of registration `g`,
`decoding` the tasks between them, `held` the requests the application has,
`running` those a callback handler is at work on, `respond[i]` the oneshot channel
of request `i` and `answers[i]` what it has been answered.  `Ends` is the drop of a
task with all it holds, `DropStream` and `DropChannel` that of a stream.  `Places`
lists where a request is.

*InPage.* `window` is the queue of messages both ends see, `ports[s]` the map of
each channel.  `disconnect` changes nothing at the end that calls it but the flag,
as in the code.  `close` of the end that opened the ports stops at a port that is
disconnecting already.

*AllowedList, Device.* `allowed` is the list in `localStorage`, `step[p]` and
`list[p]` where process `p` is between reading and writing it and what it will
write.  Two ghosts keep account of what overlaps: `unseen[p]` is what has come into the list
since `p` read it (all that was in it, if the read failed), `dropped` what some process has
written the list without as it had not seen it, and nobody has put back.  A session `s` is a call of `open()`: `opening[s]` and `port[s]` are what the
page sees of it, `task[s]` is `main()` and `device()` of its native process,
`toNative[s]` and `toPage[s]` the chain of ports between them, one FIFO in each
direction.  `channel[s][k]` holds the polling notifications `device()` has not
received (registered handler, decoding task and receiver in one queue, since they
come and go together for all that `device()` does).  `Starts`, `Reads` and the
branches of `select!` are the steps of `device()` between two awaits, with every
return (`Returns`) and every `unreachable!` and `expect` (`Panics`); a packet may
still be swallowed by the thread that reads stdin (`Swallowed`).

## 3. Runs

All bounds are constants of the modules and are given values in the `.cfg` files.

| run | instance | states | shows |
|---|---|---|---|
| `announce` | 3 addresses, routes to one of them, rtts 1 to 3 | 1 396 | the table and what neighbours hear, for all sequences of `inc`, `dec`, `update`; the refinement of `SplitHorizon` |
| `rpc_node` | 2 neighbours, 1 address behind them, rtts 1 and 2, callers wait while 2 events are queued | 41 976 | the queued node agrees with `Announce` once it is idle; waiters and dead ports |
| `port_rpc` | 2 neighbours that announce a third address and one of themselves, rtts 1 and 2, 2 callers that wait, for any addresses | 791 967 (up to the symmetry of the callers) | the TypeScript table under all orders of its events; how a wait can miss its event, and that it does not clean up twice |
| `hidfox` | the chain, two calls of `requestDevice()` in turn or at once, with timeouts of the page, a popup that fails and a user who closes it | 936 705 | safety of the protocol |
| `hidfox_live` | one call, a device that is plugged in or out once, a popup that may fail or be closed | 14 487 | liveness of the protocol |
| `hidfox_open`, `hidfox_refresh` | one call, nothing fails | | *violated*: see 5 |
| `polling` | 4 requests, 1 of them malformed, 1 for a callback handler, 2 registrations | 68 779 | every request is answered once and in the end; order; the refinement of `Answering` |
| `in_page` | 2 ports, 2 messages, both ends disconnect and close | 261 713 | in-page ports |
| `in_page_close` | the page disconnects and closes | | *violated*: see 5 |
| `allowed_list` | 3 processes that extend the list at once, 2 devices, reads and writes that fail | 128 567 | what overlapping updates of the list lose, and that they lose nothing else |
| `device` | one opened device, 2 input reports, 1 of an odd length, 3 calls, one process that extends the list | 407 190 | reports, feature reports; nothing is opened that was not approved |

Why the bounds are enough.  A routing decision compares the best route, the
second best and the neighbour that is told, so three vias (two neighbours and
`Direct`) and two or three rtts, with ties, bring up every comparison; more
vias are what the proofs are for.  In `rpc_node` the queue may grow past
`MaxQueue` by everything one step appends: an event of each kind meets the list
of `add_direct` in it.  In `hidfox` the second call of `requestDevice()` meets the
popup, the allowed list and the late answers of the first, or waits behind it;
liveness with two calls is beyond five minutes.  `polling` needs two registrations
for the drop of an old one to meet a new one, a request that is malformed between
two that are not, and one that does not go through a stream at all.  Two waiters in
`port_rpc` are what it takes for one to be skipped behind the other; the callers differ
by their names only, so the run takes them for symmetric (all it checks are invariants).  In `in_page` two ports let
`close` fail at one of them, and two messages are the least that can arrive in a
wrong order; any number of both is proved.  In `device` two reports of one kind with
a request between them are the least that can have a gap or change places; one of
two input reports is of the length that panics.  Its list is extended by one process,
which is enough for a device to be approved late, or dropped after a failed read while it
is open; several processes at work on the list are the question of `allowed_list`: there
one of three can write back what the second has just dropped, while the third still holds
a list without it, and of two devices one can be lost while the other stays.

Deadlock is checked except where the system may stop: in `announce`, `polling` and
`device` when the operations are used up or none is enabled, in `in_page` when
both channels are closed, in `hidfox` when the page has given up after a timeout
of its initialisation, in `hidfox_live` when `hid()` waits for a popup that is gone.

### 3.1 Fairness

* `RpcNode`: weak fairness of the worker, a task of the runtime that is ready
  while the queue is not empty.
* `Polling`: the task of a handler is scheduled, a drop that has begun ends, a
  callback handler returns; the application polls its streams and finishes what it
  has, which `hid()` does: it awaits `next()` in a loop and answers on every branch.
* `Device`: the chain delivers, `OpenNative` is answered, and the tasks of the native
  process are scheduled; strong fairness for the branch of `select!` that receives
  feature reports, for the reason given below.  None for calls, for plugging, for
  timeouts or for what users approve.
* `InPage`: the window dispatches its messages.
* `HidFox`: each port delivers, each task is scheduled, a window that is being
  opened connects (or fails, which the background page notices), the user
  answers or closes the popup.  Strong fairness for the two branches of `select!`
  that receive requests: `tokio::select!` starts at a random branch, so a branch that is ready
  again and again is not passed over for ever.  There is none for the timeouts of
  the page, for plugging and for a new call.

## 4. What the properties say

`HeardExact` is the specification of announcements: for each address, a neighbour
holds the rtt of the best route that does not lead through itself, and nothing if
there is none.  It fails when any of the five kinds of event is raised once too
often or too rarely.  `LateJoinerAgrees` says that the cached minimum suffices to
tell a newcomer the same.

`SettledExact` carries it to the node with its queue.  It is stated for
connections in `fresh`: a packet that was queued for a neighbour before it was
removed is delivered on the next connection to it, if that is added before the
worker gets there, and may tell it of a route that is gone.  (In the deployed
system a native process adds each neighbour once.)

`NothingLost` allows exactly two packets to be given up: the notification
`OpenFromInject`, which nobody handles (see 5), and the `RequestAccess` meant for a
popup that is gone: closed by the user, or replaced by the next one, for with two
calls at once `OpenPopup` may be answered for a second popup while the port of the
first has not ended.  One that is on its way to a popup that closes is not even
given up: nobody answers, the Rust side has no timeouts, and
`hid()` waits for ever, which ends the device watcher of the page as well.
`CallReturns` and `WatcherConverges` say that this state (`Abandoned`) is the only
reason why a call does not return or the page's view stays wrong.  It is reached
by a user who closes the popup, and with two calls at once also by a second popup
that connects before the port of the first has ended.

`OneAnswer` says that of the requests `hid()` makes (`StorageGet`, `StorageSet`,
`OpenPopup`, `RequestAccess`) no more than one is under way, as a request or as its
answer, and that it is the one the task waits for.  The model identifies an answer by
the name of its request (the code by a number); that is sound because of it, whatever
popups open, close and are replaced in the meantime.

`ApprovedIsListed` is the reason `requestDevice()` polls twice
(`addon/injected.ts:250-253`).  It holds although `PollRefresh` is answered at
once: between the start of the refresh delay and the answer of a user lies more
than the 400 ms of that delay, as the button for it is disabled for 5 seconds
(`addon/popup.tsx`), so that the delay is over when the answer arrives.  The model
assumes this order, and no other timing.  With a second call waiting, `hid()` may
take that up before it reads the list; the first `PollRefresh` then waits behind the
popup and the list is still read before the second.  With a third call it need not
be: TLC finds the run in which both refreshes are answered between popups.  The user
has to reject each of these within the second a `PollRefresh` may take.  The theorem
(`SpecApprovedIsListed`) shows that three calls pending at once is all it takes: however many
calls there are, the property holds while there are never three.

`NoMissedConnection` says of a caller that waits for an address there is a route to that it
is in `skipped`: when the route came, the listener right before its own waited for the same
address, heard of it and took itself out of the array, so that the loop of
`callListeners` (`addon/listener.ts:25`) went past.  Without that exception it fails, with two
callers, in five states: `addDirect`, two waits for one address, the announcement of it.
`listener.ts:47` makes no such exception ("waiting for either matching guard, or timeout").
The one that was skipped ends by its timeout, or when the route goes and comes back.  A node of
the addon never has two waiters, and then nobody is skipped (`SpecOneWaiterNoMissed`).

`ApprovalsKept` says exactly what the read, extend and write of `src/main.rs:415-418` can
lose.  Two processes that overlap do lose an approval (six steps: both are approved
something, both read, one writes, the other writes), and so does a read that fails, since it is
taken for an empty list.  An approval is `dropped` only if a process stores its own list that
could not have seen it; the property says that any other approval that was ever written is
in the list.  So a process never undoes what it has read or what it is approved itself,
what was in the list when nobody was at work on it can be lost to a failed read only, and
an approval that is put back counts again.

`OnlyApprovedOpened` is about `device()`: it reads the list again and opens nothing the user
has not approved.

`OutputWithoutGap` does not say that every report arrives: one that is sent
before `device()` has registered its handlers is lost (`ConnectHid` is answered
first, `src/main.rs:126`), and so are those after it has ended.  It says that
nothing is lost in between, that order is kept and that no report is written twice.  `FeatureReportAnswered` excepts
a process that has panicked: the page then waits for its timeout.

## 5. Disagreements between the code and what it says

* `hidfox_open`: the README's sequence diagram has `OpenFromInject` answered by
  the native process; the background page sends it as a notification
  (`addon/background.ts:49`), the native process registers a request
  (`src/main.rs:105`), and the packet ends in "no handler found".
* `hidfox_refresh`: `src/main.rs:299` says of `PollRefresh` "This request will be
  completed after device refresh"; it is completed before.
* `in_page_close`: after the page has closed a device, the cleanup of a reloaded
  extension throws, and the new script that calls it with it.

Two more are parts of the model with no run of their own, as properties of passing runs
are stated around them:

* `addon/rpc.ts:112` says that `secondBest` is Infinity if there is no second best route;
  by the loop of `#updateMinRtt` (`LoopMinRtts`) it is so also when there is one that was
  inserted after the best.  `ReachableIsOffered` leaves out the neighbours that come back
  while routes over them are left, which are not told of the other route for this reason.
* `addon/listener.ts:47` promises the event or the timeout; see `NoMissedConnection` in 4.

## 6. Proofs

TLAPS proves the following for every value of the constants, from the assumptions
the modules name: rtts are natural numbers, `None` is none of them and `Direct` no
address (`RttAssumption`, `NoneAssumption`, `DirectAssumption`), the bounds are
natural numbers, the sets of neighbours and destinations are sets of addresses, and in
`RpcNode` and `InPage` the addresses and the ports are finitely many, because lists
are made of them.  In `HidFox` the five addresses differ from one another
(`HidFoxAssumption`); the number of calls is any.

| module | theorems |
|---|---|
| `RpcNodeProofs` | of `Announce`: `SpecAnnounceTypeOK`, `SpecInverseBalanced`, `SpecLateJoinerAgrees`, `SpecHeardExact`, `SpecImplementsSplitHorizon`; of `RpcNode`: `SpecTypeOK`, `SpecDirectIffConnected`, `SpecNoLostWakeup`, `SpecSettledExact` |
| `PortRpcProofs` | `SpecTypeOK`, `SpecTableConsistent`, `SpecNoPhantomOffer`, `SpecReachableIsOffered`, `SpecCleanupOnce`, `SpecNoMissedConnection`, `SpecOneWaiterNoMissed` |
| `HidFoxProofs` | `SpecTypeOK`, `SpecNothingLost`, `SpecConverged`, `SpecOneAnswer` |
| `HidFoxListedProofs` | `SpecApprovedIsListed`, `SpecTwoCallsListed` |
| `PollingProofs` | `SpecTypeOK`, `SpecAnsweredOnce`, `SpecInOrder`, `SpecImplementsAnswering` |
| `InPageProofs` | `SpecTypeOK`, `SpecToldOnce`, `SpecReceivedInOrder` |
| `DeviceProofs` | of `AllowedList`: `ListSpecApprovalsKept`; of `Device`: `SpecTypeOK`, `SpecApprovalsKept`, `SpecOnlyApprovedOpened`, `SpecInputWithoutGap`, `SpecOutputWithoutGap` |

Each rests on an inductive invariant, `IInv` where there is one (`Exact` of `Announce`), with lemmas like
`InitIInv` and `NextIInv`, and the latter on one lemma for each action.

Where an argument runs along a queue or a list there is no induction rule to cite.
It is made with the least counterexample instead (`Smallest`: a set of numbers has a
smallest member, from `WFMin` of the library): of the places where a statement fails
take the first, and look at the one before it.

*Announce.* `HeardExact` is not inductive.  What a neighbour does with a
notification depends on what it holds, and which notifications are sent depends on
the cached minimum; so the invariant has to tie both together:

    Exact == AnnounceTypeOK /\ InverseBalanced /\ MinExact /\ LateJoinerAgrees

`MinExact` says that `min_rtt[a]` is among the minima of `via[a]`.
`LateJoinerAgrees` says what each neighbour holds as a function of that minimum.
`HeardExact` then follows by the lemma `OfferedIsBest`.  The heart of the proof are
`HearInc`, `HearDec` and `HearUpdate`: for one neighbour, hearing the events of an
operation turns the old offer into the new one.  Each is a case distinction over
the number of vias before and after (none, one, more) and over who leads the
route; the lemmas `EmptyMin`, `SingleMin` and `ManyMin` say what a minimum is in
each of these, and `RouteEventProofs` has all of them, for the proofs of the two nodes
cite them too.  The refinement maps `offer` to `heard`; a step of one address is a
`Change` because `HeardExact` holds after it.

*RpcNode.* A waiter's wake-up is the `ConnectionAdded` event for its address in the
queue, which an operation of the table puts there when it adds the route.  So
`NoLostWakeup` needs that what is in the queue is well-formed (`QueueOK`) and that
connections and direct routes agree (`DirectIffConnected`).  `WakesConcat` and
`WakesHeadTail` say how wake-ups survive what is appended to the queue and what the
worker takes out of it.

`SettledExact` speaks of an empty queue only, so its invariant `Settling` has to say
what a queue that is not empty will come to: `Told` replays, from what a fresh neighbour
holds now, first the packets of the queue and then the notifications its route events
have still to make, and asserts that the outcome is what the cached minimum offers.
(The two may be taken one after the other though they are mixed in the queue, since the
worker puts every notification behind all packets that are there.)  That is not
inductive when a neighbour is added: the list it is sent is read from the
table of this moment, and the events of earlier changes follow it.  `Healed` says that
this does no harm: from any place in the queue on, the events that are left take a
neighbour that holds the present offer nowhere else, give none to one for which there is
none, and never take away what it holds while there is an offer.  `HealsInc` and
`HealsDec` (in `RouteEventProofs`) are the steps of it, one event at a time.

*PortRpc.* `Sound` says that an offer is only held where there is a route around the
neighbour.  It is inductive together with the fact that the cached best and second
best of an address belong to routes there are (`MinOf` in `TableOK`, kept by
`LoopSound`): the loop of `#updateMinRtt` may miss a second best, and it never invents one.  `ToldSound` says
that whatever event the change of a table raises leaves the offers sound.

`Offered` is the converse for the neighbours in `fresh`: where there is a route around one
of them, it holds some offer.  It is kept although a second best route may be missed,
because the first route and the second one are told apart by the set of vias and not by
the minimum (`IncOffered`, `DecOffered`, `UpdateOffered`).  `WaitInv` says that a waiter
is in the list of listeners exactly if its timer is set and if it waits for something;
`CleanupOnce` follows.  `NoMissedConnection` needs it together with what `Called` makes of
the list (`WaiterCalled`): a listener that waits for the route and is not called stands right
behind one that is called and waits for it too, which is what `skipped` records.  No hypothesis
is left about who waits for what.  `SpecOneWaiterNoMissed` draws the conclusion for nodes
where one caller waits at a time: there is one listener at most (`NextOne`), so nobody stands
behind it.

*HidFox.* The tables of five nodes and the packets between them are proved correct at
once, by an invariant of two halves, `IInv == Net /\ App`.

`Net` is about the network.  `Announces(x, y, a)` lists which node tells which neighbour of
which address, and `PacketsOn` which other packets a link can carry.  `AgreeOK` is
what makes `Converged` inductive: if the announcements on their way from `x` to `y` are
taken into account (`Believes`), `y` has a route to `a` over `x` exactly if `x` has one
itself; the exception is the native process, which ignores `RemoveForwarded` and goes on
believing in a popup.  With empty links that is the agreement of neighbours' tables, and
`Converged` follows along the chain.  `KnownFirst` is what makes `NothingLost` inductive:
as long as `y` does not know the page, or the native process, an announcement of it stands
on the link before the first packet that needs it.  `FirstSent` and `FirstTaken` carry it
over sending and receiving; that a node passes an announcement on
before the packet behind it is where the order of `addDirect` and the answer to
`OpenNative` (`addon/background.ts:48`) enters.  `CloseOK` says that the end of the
popup's port is the last the background page hears of it, so that what it has announced is
taken back once and after everything else.

`App` is about who asks what and when.  `Fine` states of each packet on a link that whoever
will have to answer it knows the way back, and that nothing but `OpenNative` and
`SubscribeHid` is asked while `hid()` has not registered its other handlers; `AskedOK` and
`QueuesOK` tie that to the steps of `hid()` and of the page.  `PassedOn`, `AtContent` and
`AtBackground` then show for a packet that is to be forwarded that the next hop is there.
Each action has one lemma for either half (`OpenNativeNet`, `OpenNativeIInv`, ...), from
general ones on a step that sends (`DataStep`), that changes a table (`TableStep`) and that adds
neighbours (`GrowingStep`).

`OneAnswer` and `ApprovedIsListed` are about what is under way anywhere in the chain, and
most steps move packets they do not care for.  `Same(K)` says of a step that it leaves the
packets of `K` where they are on each link, at most one place nearer to the front; `SameEmit`
gives it for a step from the packet it takes and those it sends, and `SameCarried`, `OnSame`,
`SortedSame` and `BehindSame` are what follows for the packets that are there, their order and
what they are behind.

`AsksInv` is the invariant for `OneAnswer`: either nothing of `hid()` is under way and it
waits for nothing, for a window that is being opened or for a popup that is gone (`Silence`),
or there is exactly one such packet, in one place on one link, and it is the request that
`hid()` waits with or the answer to it (`Exchange`, with `OnlyAsk` and `Fits`).  `Fits` also says
what the answers of the storage are worth: a device that was approved is stored or about to be.
`PopupFirst` is needed for the one node that would drop the request otherwise: a popup hears of
the native process before it is asked.

`CallInv` is the invariant for `ApprovedIsListed` (in `HidFoxListedProofs`), on top of both:

* `CallsOK`: no packet under way belongs to a place its call has yet to reach;
* `TurnOK`: calls are served in turn.  Those that have been answered come before those that
  wait in `hid()`, these before the ones whose requests are on the way, hop by hop, and on
  each hop and in the queue they are sorted;
* `ListedOK`: a device in the list is stored, and the page knows of it or an `AddedDevice`
  is on its way (`Hears`);
* `DueOK`: while an approved device is not in the list, the delay of the refresh is over, and
  no call it concerns has an answer to its second `PollRefresh`, nor to its first
  one unless `hid()` is about to read the list;
* `AheadOK`: once the device is listed, an answer to the second `PollRefresh` is behind the
  `AddedDevice`, on the same hop or on an earlier one;
* `ToldOK` is `ApprovedIsListed` itself, and `PlugsOK` keeps apart the behaviours in which the device
  has been plugged out, of which nothing is claimed.

Most steps keep these because they leave the packets alone of which they speak (`QuietCalls`,
`NetworkCalls`, `StillCalls`).  Where `DueOK` could fail is the end of an access request
(`AnsweredCalls`): `hid()` answers the call, `b`, and the refreshes that wait, and may go on in the same
step with another popup before it reads the list.  If the device is due then and a call `c` that it
concerns is still at its first refresh, the popup is for a third call `s`, behind `b` in the
queue, and by `TurnOK` `c` has been served before `b`.  So `c`, `b` and `s` are pending at once, which
is what the hypothesis `TwoAtOnce` of `SpecApprovedIsListed` excludes and what TLC finds with
three calls.  `SpecTwoCallsListed` draws the conclusion for a page that makes two calls.

*Polling.* `Exclusive` states that a request is queued at most once, that one that is
queued is nowhere else, that any other that has arrived is in one later place (held,
being run, responding, answered), and that one that has not arrived is in none; `Ordered` that the queues of a
registration, one behind the other, increase and are above everything its stream
has returned.  `ExclusivePlaces` turns the former into the cardinality-free
`AnsweredOnce`.

*InPage.* Both theorems come out of one invariant about the window: the request
that opens a port is in it once and before every message of the port (`Unopened`,
`OpenedOnce`, `OpenedFirst`), no message is in it twice (`Numbered`), and for a port
that still listens the messages in it begin with the one after the last received and
end with the last posted (`NoGap`).  `GapAppend`, `GapTailNext` and `GapTailOther` are
what posting and dispatching do to that; `EndsKeep` covers every step that only ends
ports.  `TypeOK` bounds the numbers of one port by `MaxMessages`, which the guard of
`postMessage` compares with the messages of all ports; `PostedBound` has the reason why that
is enough (what a port has posted is part of what `Posted` counts).

*Device.* `ListIInv` adds to `ApprovalsKept` what makes it inductive: of all that was ever
written, a process that is about to write lacks only what is dropped already or what it could
not have seen (`LacksUnseen`), and nothing that is dropped is in the list (`OnlyApprovals`).
The former is kept when another process writes, because what that one adds to the list is
unseen by all others that have read it.  `OnlyApprovedOpened` follows since `allowed` is always
part of `stored`.

`SessionIInv` is the invariant behind the two gap properties.  `Chain(q, x, y)` says that the
reports among the packets of `q` go on from number `x` to the one before `y`; `ReportsInOrder`
that the page has received the first ones without a gap, that those in the chain of ports follow
on them, and those `device()` has not read on these.  In the other direction
`CallsInOrder` says that what is on its way to the native process are the last calls of the
page, so that the next one has the number `NextCall`; `ChannelInOrder` that every call since
the registration of the handlers is in its channel, in order, or has been written.
`Handshake` is what keeps the start apart: which packets there can be before `device()` runs.

Only model-checked:

* liveness, which like `ENABLED` is beyond the prover: of the refinement of `Answering`, the
  theorem has the safety part and the run the whole.

## 7. What is not modelled

* The end of a page, of the background page or of the native process in `HidFox`.
  (`RpcNode` has the end of a port, `InPage` that of a channel, `Device` that of a
  process.)
* `Device` with more than one session at a time in its run (the module has them);
  timeouts of the calls of an opened device, which change nothing but what the page
  waits for.  Nothing closes a chain but the process: `HidDevice.close` disconnects
  the in-page port only.
* Forwarding by a Rust node: the native process is always an end.
* `CriticalSection` (constructed, never entered), `PortRpc.disconnect` beyond the
  port it calls, `StorageRemove`, `unregister_polling_notification_handler` and
  `PollingNotificationStream` (no caller), the cancellation of a wait (no caller).
* Runtimes with several threads for `Polling`: the look-up of a handler and the
  send to it are one step, as on the one thread of the native process.
* Data: JSON, the bytes of reports, filters and identifiers of devices (one device
  stands for all in `HidFox`), rendering.  Framing on stdin and stdout.
* The `Lagged` error of a waiter's subscription (`bifrostlink/src/rpc.rs:753-755`): the
  waiter of `RpcNode` hears of every connection.
* In `Device`, a panic of the read loop for another reason than an odd report: an unexpected
  error of `read` (`src/main.rs:515`), or a device that can not be set non-blocking (`:496`).
  `Starts` has the `StorageGet` of `device()` and the opening of the device in one step; what
  happens to the list in between can only make the list that was read an older one.
* The task that relays the answer of a polling request, outside `Polling`: in `HidFox` and
  `Device` an answer is sent in the step that gives it, and could be sent a little later.
* `enum_variants` (compile time), build files, manifests, empty files.

In `HidFox` a packet of the native process is routed when it is queued rather than
when the worker gets to it; `RpcNode` has that queue.  The delay between the user's
click and the end of the popup's port is any, but a window is not opened twice by
`hid()`, which asks for one at a time.

## 8. How the parts fit together

The proofs and the runs meet at the seams: `Announce` assumes that every event is
heard at once, and `SettledExact` shows that a node with its queue agrees with it
whenever the queue is drained; `HidFox` takes from there that a table settles and
checks the orders of packets over five tables; `Polling` is what a request meets in
the native process of `HidFox` and `Device`, which take from it that a queue keeps its
order and that what is dropped is answered; `InPage` justifies the FIFO between
injected script and content script.

What would come next: a refinement of `Announce` by `RpcNode` with what the queue holds
applied to what neighbours hold, which `Told` of `RpcNodeProofs` already says for a
drained queue; the end of the page in `HidFox`.
