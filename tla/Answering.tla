----------------------------- MODULE Answering ------------------------------
(* What a node owes those who send it requests: every request is answered in *)
(* the end, once, with a result or an error, and nothing is answered that    *)
(* was not asked.  Polling implements it.                                    *)
CONSTANT Id   \* the requests

VARIABLES asked,    \* the requests that have arrived
          answers   \* answers[i]: the responses to request i that have been sent

vars == <<asked, answers>>

Outcome == {"ok", "error"}

Init == asked = {} /\ answers = [i \in Id |-> <<>>]

Ask(i) ==
    /\ i \notin asked /\ asked' = asked \cup {i}
    /\ UNCHANGED answers

\* Nobody is there to handle it.
Refuse(i) ==
    /\ i \notin asked /\ asked' = asked \cup {i}
    /\ answers' = [answers EXCEPT ![i] = <<"error">>]

Answer(i, how) ==
    /\ i \in asked /\ answers[i] = <<>>
    /\ answers' = [answers EXCEPT ![i] = <<how>>]
    /\ UNCHANGED asked

Next == \E i \in Id : Ask(i) \/ Refuse(i) \/ \E how \in Outcome : Answer(i, how)

Spec == Init /\ [][Next]_vars

FairSpec == Spec /\ \A i \in Id : WF_vars(\E how \in Outcome : Answer(i, how))
=============================================================================
