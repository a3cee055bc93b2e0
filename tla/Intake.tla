------------------------------- MODULE Intake -------------------------------
(***************************************************************************)
(* transferCustomData from the request to the queue: the look-ups of       *)
(* DevConfigCache decide whether the message of a domain is handed to the  *)
(* queue, of which only the promise counts here (TaskDelivery). A task is  *)
(* sent with what was found at that moment, not with what holds later.     *)
(***************************************************************************)
EXTENDS DevConfigCache

CONSTANT Tasks      \* messages the queue knows; one that is done may be reused

VARIABLES
    status, accepted,   \* of TaskDelivery
    source              \* the domain and the row with which a task was queued

queue == <<status, accepted, source>>
intakeVars == <<vars, queue>>

Queue == INSTANCE TaskDelivery
             WITH Tasks <- Tasks, status <- status, accepted <- accepted

NoSource == [domain |-> NoRow, row |-> NoRow]

IntakeInit ==
    /\ Init
    /\ Queue!Init
    /\ source = [k \in Tasks |-> NoSource]

-----------------------------------------------------------------------------

(* Mutated form of Enabled: the message is queued if there is a row. *)
EnabledIfFound(t) == config[t] # NoRow

(* "0101".equals(config.getServEnable()) *)
Enabled(t) == config[t] # NoRow /\ config[t].servEnable = "0101"

(* Mutated form of Offer: the task is given no address. *)
OfferUnaddressed(t, k) == Enabled(t) /\ Queue!Submit(k) /\ UNCHANGED source

(* this.queue.offer(task), with the address of the row *)
Offer(t, k) ==
    /\ Enabled(t)
    /\ Queue!Submit(k)
    /\ source' = [source EXCEPT ![k] = [domain |-> domain[t], row |-> config[t]]]

(* The message is queued and its caller told "message send success". *)
SendMessage(t) == Serve(t) /\ \E k \in Tasks : Offer(t, k)

(* "Server is disabled." *)
TurnAway(t) == Serve(t) /\ ~Enabled(t) /\ UNCHANGED queue

(* The message is queued, and then the request breaks off. *)
SendUntold(t) ==
    /\ t \in Senders /\ pc[t] = "found" /\ checked[t]
    /\ \E k \in Tasks : Offer(t, k)
    /\ BreakOff(t)

(* What does not touch the queue *)
CacheStep(t) ==
    /\ \/ LookUp(t) \/ Reject(t) \/ Accept(t)
       \/ Check(t) \/ Ask(t) \/ Write(t) \/ Update(t) \/ Commit(t)
    /\ UNCHANGED queue

Elsewhere ==
    /\ \/ \E t \in Threads : Begin(t) \/ BreakOff(t)
       \/ TimeOut
       \/ \E d \in Domains : Edit(d)
    /\ UNCHANGED queue

(* The queue delivers, and a value of Tasks stands for a new message after  *)
(* that.                                                                   *)
Deliver(k) ==
    /\ \/ Queue!Accept(k) /\ UNCHANGED source
       \/ Queue!Retire(k) /\ UNCHANGED source
       \/ /\ status[k] = "done"
          /\ status' = [status EXCEPT ![k] = "new"]
          /\ accepted' = [accepted EXCEPT ![k] = 0]
          /\ source' = [source EXCEPT ![k] = NoSource]
    /\ UNCHANGED vars

IntakeStep(t) == CacheStep(t) \/ SendMessage(t) \/ TurnAway(t)

IntakeNext ==
    \/ \E t \in Threads : IntakeStep(t) \/ SendUntold(t)
    \/ Elsewhere
    \/ \E k \in Tasks : Deliver(k)

IntakeSpec == IntakeInit /\ [][IntakeNext]_intakeVars

(* Requests come to an end and Redis drops what has expired. *)
IntakeFairSpec ==
    /\ IntakeSpec
    /\ WF_intakeVars(TimeOut /\ UNCHANGED queue)
    /\ \A t \in Threads : WF_intakeVars(IntakeStep(t))

-----------------------------------------------------------------------------
(* Properties *)

IntakeTypeOK ==
    /\ TypeOK
    /\ Queue!TypeOK
    /\ source \in [Tasks -> {NoSource} \cup [domain : Domains, row : Rows]]
    /\ \A k \in Tasks : status[k] = "new" <=> source[k] = NoSource

(* Unless a request breaks off, a message is in the queue only for a domain *)
(* whose server was enabled in a row that the table has held, or that a    *)
(* verification is about to store.                                         *)
QueuedWasEnabled ==
    faults = 0 =>
        \A k \in Tasks : status[k] # "new" =>
            LET s == source[k] IN
            /\ s.row.servEnable = "0101"
            /\ \/ s.row \in past[s.domain]
               \/ \E t \in Verifiers : Storing(t, s.domain) /\ s.row = config[t]

(* With the exceptions of StaleExpires, once verifications have ceased      *)
(* messages come to be queued only with the row that is in the table: a    *)
(* server that was disabled gets no more of them, although the hash and     *)
(* requests under way may still hold the row that enabled it.              *)
QueuedAsStored ==
    [](faults = 0 /\ edits = 0 /\ ~overlapped)
        /\ <>[](\A v \in Verifiers : pc[v] = "idle")
    => <>[][\A k \in Tasks : status[k] = "new" /\ status'[k] # "new" =>
               source'[k].row = table[source'[k].domain]]_intakeVars
=============================================================================
