---------------------------- MODULE AllowedList -----------------------------
(* The list of allowed devices in the localStorage of the background page,   *)
(* and the native processes that extend it: hid() of src/main.rs once the    *)
(* user has answered a request for access.  Every page with a Hid object has *)
(* a native process of its own, and all of them share the one key.           *)
EXTENDS Integers

CONSTANTS Process,   \* the native processes that run hid()
          Serial     \* the serial numbers of devices

VARIABLES allowed,   \* the devices of the stored list, in whatever order and number
          step,      \* step[p]: "idle", "reading" or "writing"
          approved,  \* approved[p]: what the user has approved for p
          list,      \* list[p]: the list p has read and extended
          stored,    \* ghost: the approvals that have been written, ever
          unseen,    \* unseen[p]: ghost, what has come into the list since p has read
                     \* it, with all that was in it if that has failed
          dropped    \* ghost: what a process that had not seen it has written the list
                     \* without, as long as no process has put it back

ghosts == <<stored, unseen, dropped>>
listVars == <<allowed, step, approved, list, ghosts>>

ListInit ==
    /\ allowed = {} /\ stored = {} /\ dropped = {}
    /\ step = [p \in Process |-> "idle"]
    /\ approved = [p \in Process |-> {}]
    /\ list = [p \in Process |-> {}]
    /\ unseen = [p \in Process |-> {}]

\* RequestAccess is answered; only devices that were proposed are taken over.
AccessAnswered(p, S) ==
    /\ step[p] = "idle"
    /\ step' = [step EXCEPT ![p] = "reading"]
    /\ approved' = [approved EXCEPT ![p] = S]
    /\ UNCHANGED <<allowed, list, ghosts>>

\* What get_allowed_persistent returns: the stored list, or none if the storage
\* request fails.
Lists == {allowed, {}}

\* Mutant: the list is written with the new devices only.
Replaces(p) ==
    /\ step[p] = "reading"
    /\ step' = [step EXCEPT ![p] = "writing"]
    /\ list' = [list EXCEPT ![p] = approved[p]]
    /\ UNCHANGED <<allowed, approved, ghosts>>

\* Mutant: everything that was proposed is taken over.
ExtendsWithProposed(p) ==
    /\ step[p] = "reading"
    /\ step' = [step EXCEPT ![p] = "writing"]
    /\ list' = [list EXCEPT ![p] = allowed \cup Serial]
    /\ UNCHANGED <<allowed, approved, ghosts>>

ReadsAndExtends(p) ==
    /\ step[p] = "reading"
    /\ step' = [step EXCEPT ![p] = "writing"]
    /\ \E read \in Lists :
          /\ list' = [list EXCEPT ![p] = read \cup approved[p]]
          /\ unseen' = [unseen EXCEPT ![p] = allowed \ read]
    /\ UNCHANGED <<allowed, approved, stored, dropped>>

\* The others that have read the list do not see what p adds to it.
Stores(p) ==
    /\ allowed' = list[p]
    /\ stored' = stored \cup approved[p]
    /\ unseen' = [q \in Process |-> IF q = p \/ step[q] # "writing" THEN {}
                                    ELSE unseen[q] \cup (list[p] \ allowed)]
    /\ dropped' = (dropped \cup unseen[p]) \ list[p]

\* RequestDevice is answered with success whether the list could be written or not.
Writes(p) ==
    /\ step[p] = "writing"
    /\ step' = [step EXCEPT ![p] = "idle"]
    /\ \/ Stores(p)
       \/ unseen' = [unseen EXCEPT ![p] = {}] /\ UNCHANGED <<allowed, stored, dropped>>
    /\ approved' = [approved EXCEPT ![p] = {}]
    /\ list' = [list EXCEPT ![p] = {}]

ListNext ==
    \E p \in Process :
        \/ \E S \in SUBSET Serial : AccessAnswered(p, S)
        \/ ReadsAndExtends(p) \/ Writes(p)

ListSpec == ListInit /\ [][ListNext]_listVars

-----------------------------------------------------------------------------

ListTypeOK ==
    /\ allowed \subseteq Serial /\ stored \subseteq Serial /\ dropped \subseteq Serial
    /\ step \in [Process -> {"idle", "reading", "writing"}]
    /\ approved \in [Process -> SUBSET Serial]
    /\ list \in [Process -> SUBSET Serial]
    /\ unseen \in [Process -> SUBSET Serial]

\* However many processes read, extend and write the list at once, an approval that
\* has been written is missing from it for one reason only: a process has stored its
\* own list that could not have seen it, as it had read the list before the approval
\* came into it or its read had failed, and nobody has put the approval back.  So two
\* overlapping updates do lose approvals, but a write takes nothing out of the list
\* that its process has read, and nothing that it approves (main.rs 415-418).
ApprovalsKept == stored \ allowed \subseteq dropped
=============================================================================
