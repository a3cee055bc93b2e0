---------------------------- MODULE TaskDelivery ----------------------------
(***************************************************************************)
(* What the upload queue of open-epark promises to a parking domain whose  *)
(* customData message was answered "message send success": the message is  *)
(* offered to the epark platform at least once before it is forgotten.     *)
(* Nothing here speaks of lists, counters, threads or processes; TaskQueue *)
(* implements this module.                                                 *)
(***************************************************************************)
EXTENDS Naturals

CONSTANT Tasks              \* the messages that may be handed to the queue

VARIABLES
    status,                 \* where each message stands in its life
    accepted                \* how often epark took it: 0, 1, or 2 for "more"

vars == <<status, accepted>>

Statuses == {"new", "pending", "done"}

(* One more acceptance; only none, one and more than one are told apart. *)
More(n) == IF n = 0 THEN 1 ELSE 2

Init ==
    /\ status = [t \in Tasks |-> "new"]
    /\ accepted = [t \in Tasks |-> 0]

(* The caller is told that its message was sent. *)
Submit(t) ==
    /\ status[t] = "new"
    /\ status' = [status EXCEPT ![t] = "pending"]
    /\ UNCHANGED accepted

(* Epark takes the message, possibly not for the first time. *)
Accept(t) ==
    /\ status[t] # "new"
    /\ accepted' = [accepted EXCEPT ![t] = More(@)]
    /\ UNCHANGED status

(* The queue forgets the message, which epark must have taken by then. *)
Retire(t) ==
    /\ status[t] = "pending"
    /\ accepted[t] > 0
    /\ status' = [status EXCEPT ![t] = "done"]
    /\ UNCHANGED accepted

Next == \E t \in Tasks : Submit(t) \/ Accept(t) \/ Retire(t)

Spec == Init /\ [][Next]_vars

-----------------------------------------------------------------------------

TypeOK ==
    /\ status \in [Tasks -> Statuses]
    /\ accepted \in [Tasks -> 0..2]
=============================================================================
