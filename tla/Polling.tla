------------------------------ MODULE Polling ------------------------------
(* How a Rust node answers requests (handle_connection_message of rpc.rs and *)
(* bifrostlink/src/polling/request.rs).  A name has a callback handler, whose *)
(* task answers, or at times a polling handler, or none.  A request to a     *)
(* polling handler goes from the worker over the channel of the registration *)
(* to a task that decodes it, over a second channel to the stream, and to    *)
(* the code that answers it, each of which may be gone by then; its response *)
(* goes over a oneshot channel to a last task that sends it.                 *)
EXTENDS Integers, Sequences, SequencesExt

CONSTANTS Requests,      \* bound: how many requests arrive, of senders that are
                         \* known over their port
          Callback,      \* those whose name has a callback handler
          Malformed,     \* those that can not be decoded
          MaxStreams     \* bound: how often a polling handler is registered

ASSUME PollingAssumption ==
    /\ Requests \in Nat
    /\ MaxStreams \in Nat

Id == 1..Requests      \* the requests, in the order of their arrival
Gen == 1..MaxStreams   \* the registrations
Outcome == {"ok", "error"}

VARIABLES handler,     \* the registration in polling_request_handler, 0 if none
          streams,     \* how many have been registered
          stream,      \* stream[g]: "none", "open", "dropping" or "dropped"
          decoding,    \* the registrations whose task runs
          orx,         \* orx[g]: what its task has not read
          channel,     \* channel[g]: what its stream has not returned
          held,        \* the PollingRequests the application holds
          running,     \* the requests a callback handler is at work on
          respond,     \* respond[i]: what its oneshot channel holds, or "none"
          answers,     \* answers[i]: the responses sent to request i
          arrived,     \* how many requests have arrived
          taken        \* those the application has got, in order, and from
                       \* which registration

streamVars == <<handler, streams, stream, decoding>>
vars == <<streamVars, orx, channel, held, running, respond, answers, arrived, taken>>

Init ==
    /\ handler = 0 /\ streams = 0
    /\ stream = [g \in Gen |-> "none"] /\ decoding = {}
    /\ orx = [g \in Gen |-> <<>>] /\ channel = [g \in Gen |-> <<>>]
    /\ held = {} /\ running = {}
    /\ respond = [i \in Id |-> "none"]
    /\ answers = [i \in Id |-> <<>>]
    /\ arrived = 0 /\ taken = <<>>

Sends(i, how) == answers' = [answers EXCEPT ![i] = Append(@, how)]

\* The requests of S are given a response.
Responds(S, how) ==
    respond' = [i \in Id |-> IF i \in S THEN how ELSE respond[i]]

-----------------------------------------------------------------------------
(* The worker.                                                               *)

\* Mutant: no answer when there is no handler.
PolledInVain(i) ==
    /\ i = arrived + 1
    /\ arrived' = i
    /\ IF i \in Callback THEN running' = running \cup {i} /\ UNCHANGED orx
       ELSE /\ orx' = IF handler = 0 THEN orx ELSE [orx EXCEPT ![handler] = Append(@, i)]
            /\ UNCHANGED running
    /\ UNCHANGED <<streamVars, channel, held, respond, answers, taken>>

\* The worker looks the handler up and sends to it in one step: the native
\* process has one thread.  On it the task of the handler is still there, since
\* the drop of its stream takes the handler with it.
Polled(i) ==
    /\ i = arrived + 1
    /\ arrived' = i
    /\ \/ /\ i \in Callback
          /\ running' = running \cup {i}
          /\ UNCHANGED <<orx, answers>>
       \/ /\ i \notin Callback /\ handler # 0
          /\ orx' = [orx EXCEPT ![handler] = Append(@, i)]
          /\ UNCHANGED <<running, answers>>
       \/ /\ i \notin Callback /\ handler = 0
          /\ Sends(i, "error")
          /\ UNCHANGED <<orx, running>>
    /\ UNCHANGED <<streamVars, channel, held, respond, taken>>

\* The task of a callback handler.
Handled(i, how) ==
    /\ i \in running
    /\ i \in Malformed => how = "error"
    /\ running' = running \ {i}
    /\ Sends(i, how)
    /\ UNCHANGED <<streamVars, orx, channel, held, respond, arrived, taken>>

\* The task that waits for the response of a polling request.
Relay(i) ==
    /\ respond[i] # "none"
    /\ respond' = [respond EXCEPT ![i] = "none"]
    /\ Sends(i, respond[i])
    /\ UNCHANGED <<streamVars, orx, channel, held, running, arrived, taken>>

-----------------------------------------------------------------------------
(* The task between the two channels.  Its end drops what is still in orx,   *)
(* and a request that is dropped answers for itself.                         *)

\* Mutant: what is dropped is forgotten.
EndsSilently(g) ==
    decoding' = decoding \ {g} /\ orx' = [orx EXCEPT ![g] = <<>>] /\ UNCHANGED respond

Ends(g) ==
    /\ decoding' = decoding \ {g}
    /\ orx' = [orx EXCEPT ![g] = <<>>]
    /\ Responds(ToSet(orx[g]), "error")

\* Mutant: what can not be decoded is passed on.
DecodeAny(g) ==
    /\ g \in decoding /\ orx[g] # <<>> /\ stream[g] # "dropped"
    /\ channel' = [channel EXCEPT ![g] = Append(@, Head(orx[g]))]
    /\ orx' = [orx EXCEPT ![g] = Tail(@)]
    /\ UNCHANGED <<streamVars, held, running, respond, answers, arrived, taken>>

Decode(g) ==
    /\ g \in decoding /\ orx[g] # <<>>
    /\ LET i == Head(orx[g])
       IN  \/ /\ i \in Malformed
              /\ orx' = [orx EXCEPT ![g] = Tail(@)]
              /\ Responds({i}, "error")
              /\ UNCHANGED <<decoding, channel>>
           \/ /\ i \notin Malformed /\ stream[g] = "dropped"
              /\ Ends(g)
              /\ UNCHANGED channel
           \/ /\ i \notin Malformed /\ stream[g] # "dropped"
              /\ channel' = [channel EXCEPT ![g] = Append(@, i)]
              /\ orx' = [orx EXCEPT ![g] = Tail(@)]
              /\ UNCHANGED <<decoding, respond>>
    /\ UNCHANGED <<handler, streams, stream, held, running, answers, arrived, taken>>

\* tx.closed(), or every sender of orx gone and orx empty.
TaskEnds(g) ==
    /\ g \in decoding
    /\ \/ stream[g] = "dropped"
       \/ handler # g /\ orx[g] = <<>>
    /\ Ends(g)
    /\ UNCHANGED <<handler, streams, stream, channel, held, running, answers, arrived, taken>>

-----------------------------------------------------------------------------
(* The application.                                                          *)

\* With a handler registered, register_polling_request_handler returns None.
Register ==
    /\ handler = 0 /\ streams < MaxStreams
    /\ streams' = streams + 1 /\ handler' = streams + 1
    /\ stream' = [stream EXCEPT ![streams + 1] = "open"]
    /\ decoding' = decoding \cup {streams + 1}
    /\ UNCHANGED <<orx, channel, held, running, respond, answers, arrived, taken>>

\* Also a call of its own: by name, whichever registration that is.
Unregister ==
    /\ handler # 0 /\ handler' = 0
    /\ UNCHANGED <<streams, stream, decoding, orx, channel, held, running, respond,
                   answers, arrived, taken>>

\* Dropping the stream unregisters first and drops the channel after that.
DropStream(g) ==
    /\ stream[g] = "open"
    /\ handler' = 0
    /\ stream' = [stream EXCEPT ![g] = "dropping"]
    /\ UNCHANGED <<streams, decoding, orx, channel, held, running, respond, answers,
                   arrived, taken>>

DropChannel(g) ==
    /\ stream[g] = "dropping"
    /\ stream' = [stream EXCEPT ![g] = "dropped"]
    /\ channel' = [channel EXCEPT ![g] = <<>>]
    /\ Responds(ToSet(channel[g]), "error")
    /\ UNCHANGED <<handler, streams, decoding, orx, held, running, answers, arrived, taken>>

\* Mutant: the latest request is the next.
poll_last(g) ==
    /\ stream[g] = "open" /\ channel[g] # <<>>
    /\ held' = held \cup {Last(channel[g])}
    /\ taken' = Append(taken, [id |-> Last(channel[g]), from |-> g])
    /\ channel' = [channel EXCEPT ![g] = Front(@)]
    /\ UNCHANGED <<streamVars, orx, running, respond, answers, arrived>>

poll_next(g) ==
    /\ stream[g] = "open" /\ channel[g] # <<>>
    /\ held' = held \cup {Head(channel[g])}
    /\ taken' = Append(taken, [id |-> Head(channel[g]), from |-> g])
    /\ channel' = [channel EXCEPT ![g] = Tail(@)]
    /\ UNCHANGED <<streamVars, orx, running, respond, answers, arrived>>

\* respond_ok and respond_err consume the request; a request that is dropped is
\* answered with an error.
Finish(i, how) ==
    /\ i \in held
    /\ held' = held \ {i}
    /\ Responds({i}, how)
    /\ UNCHANGED <<streamVars, orx, channel, running, answers, arrived, taken>>

-----------------------------------------------------------------------------

Task(g) == Decode(g) \/ TaskEnds(g)

Next ==
    \/ Register \/ Unregister
    \/ \E i \in Id : \/ Polled(i) \/ Relay(i)
                     \/ \E how \in Outcome : Finish(i, how) \/ Handled(i, how)
    \/ \E g \in Gen : Task(g) \/ DropStream(g) \/ DropChannel(g) \/ poll_next(g)

Spec == Init /\ [][Next]_vars

\* Tasks are scheduled, a drop that has begun ends, callback handlers return, and
\* the application keeps polling its streams and finishes what it has got.
FairSpec ==
    /\ Spec
    /\ \A g \in Gen : WF_vars(Task(g)) /\ WF_vars(DropChannel(g)) /\ WF_vars(poll_next(g))
    /\ \A i \in Id : /\ WF_vars(\E how \in Outcome : Finish(i, how))
                     /\ WF_vars(\E how \in Outcome : Handled(i, how))
                     /\ WF_vars(Relay(i))

-----------------------------------------------------------------------------

TypeOK ==
    /\ streams \in 0..MaxStreams /\ handler \in 0..streams
    /\ stream \in [Gen -> {"none", "open", "dropping", "dropped"}]
    /\ decoding \subseteq Gen /\ held \subseteq Id /\ running \subseteq Id
    /\ orx \in [Gen -> Seq(Id)]
    /\ channel \in [Gen -> Seq(Id \ Malformed)]
    /\ respond \in [Id -> Outcome \cup {"none"}]
    /\ answers \in [Id -> Seq(Outcome)]
    /\ arrived \in 0..Requests

\* The places a request can be in while it is not answered, and its answer.
Places(i) ==
    {<<"orx", g>> : g \in {g \in Gen : Contains(orx[g], i)}}
    \cup {<<"channel", g>> : g \in {g \in Gen : Contains(channel[g], i)}}
    \cup {p \in {<<"held", 0>>} : i \in held}
    \cup {p \in {<<"running", 0>>} : i \in running}
    \cup {p \in {<<"respond", 0>>} : respond[i] # "none"}
    \cup {<<"answers", j>> : j \in DOMAIN answers[i]}

\* A request that has arrived is in one place or has been answered, once: neither
\* the end of a task, nor that of a stream, nor an application that forgets it
\* leaves the one who asks without an answer or with two (request.rs 82-93 and
\* 191-216, rpc.rs 317-387).
AnsweredOnce ==
    \A i \in Id : IF i <= arrived THEN \E p \in Places(i) : Places(i) = {p}
                                          ELSE Places(i) = {}

\* The stream of a registration returns requests in the order they arrive, across
\* the two channels and the ones that can not be decoded in between
\* (request.rs 185-215).
InOrder ==
    \A j \in DOMAIN taken : \A k \in 1..(j - 1) :
        taken[k].from = taken[j].from => taken[k].id < taken[j].id

Promise == INSTANCE Answering WITH asked <- 1..arrived

\* All of it together keeps the promise to answer every request once and in the end
\* (request.rs 82-93, rpc.rs 317-387).
ImplementsAnswering == Promise!FairSpec
=============================================================================
