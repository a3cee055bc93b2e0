------------------------------- MODULE Relays -------------------------------
(***************************************************************************)
(* The calls that open-epark passes on to the epark platform while their   *)
(* caller waits: the charge of a member (parkLeaguerCharge), the query for  *)
(* a member (getLeaguerInfo) and custom data sent synchronously            *)
(* (synchronousTransferCustomData). Each is a servlet thread that holds a   *)
(* database connection from its first line to its last, the post included. *)
(* A caller that is not told what it wants may make the same call again.   *)
(***************************************************************************)
EXTENDS Naturals, FiniteSets

CONSTANTS
    Requests,       \* what callers want done or told
    MaxTries,       \* bound: calls made for one request
    PoolSize        \* jdbc.pool.maxActive

ASSUME ConstantsAssumption ==
    /\ IsFiniteSet(Requests)
    /\ MaxTries \in Nat
    /\ PoolSize \in Nat \ {0}

Kinds == {"charge", "info", "sync"}
Tries == 1..MaxTries

(* What a call can come to. *)
Words == {"success", "info", "fail", "noMember", "null", "error"}

VARIABLES
    kind,           \* which of the three calls a request makes
    pc,             \* where its current call is
    tries,          \* how many calls were made for it, the current one included
    answer,         \* what epark has answered to the current call
    reply,          \* what the method has returned, or what it threw comes to
    told,           \* what the caller was told of it, "lost" if no reply came
    atEpark,        \* the calls of a request that epark has yet to serve
    did,            \* history: the calls that epark has carried out
    heard,          \* history: the calls whose answer the program has read
    unsaid,         \* history: the calls whose reply the caller was not told
    free            \* idle connections of the pool

caller == <<kind, tries>>
epark == <<atEpark, did>>
outcome == <<told, unsaid>>
vars == <<caller, pc, answer, reply, outcome, epark, heard, free>>

Holding == {"check", "config", "post", "sent", "answered", "commit"}

Init ==
    /\ kind \in [Requests -> Kinds]
    /\ pc = [r \in Requests |-> "idle"]
    /\ tries = [r \in Requests |-> 0]
    /\ answer = [r \in Requests |-> "none"]
    /\ reply = [r \in Requests |-> "none"]
    /\ told = [r \in Requests |-> "none"]
    /\ atEpark = [r \in Requests |-> {}]
    /\ did = [r \in Requests |-> {}]
    /\ heard = [r \in Requests |-> {}]
    /\ unsaid = [r \in Requests |-> {}]
    /\ free = PoolSize

-----------------------------------------------------------------------------
(* The caller *)

(* The first call for a request, or one more after a call that failed or    *)
(* whose reply did not come.                                               *)
Ask(r) ==
    /\ pc[r] = "idle"
    /\ tries[r] < MaxTries
    /\ told[r] \notin {"success", "info"}
    /\ tries' = [tries EXCEPT ![r] = @ + 1]
    /\ pc' = [pc EXCEPT ![r] = "enter"]
    /\ told' = [told EXCEPT ![r] = "none"]
    /\ UNCHANGED <<kind, answer, reply, unsaid, epark, heard, free>>

-----------------------------------------------------------------------------
(* The servlet thread *)

Goto(r, place) == pc' = [pc EXCEPT ![r] = place]

(* The transaction is opened and takes a connection; with no maxWait it     *)
(* waits for one as long as it takes.                                      *)
Enter(r) ==
    /\ pc[r] = "enter"
    /\ free > 0
    /\ free' = free - 1
    /\ Goto(r, "check")
    /\ UNCHANGED <<caller, answer, reply, outcome, epark, heard>>

(* What the caller is told of an exception that leaves the service: of the  *)
(* three only the controller of the charge catches it.                     *)
Broken(k) == IF k = "charge" THEN "fail" ELSE "error"

(* The method returns the word, or throws what comes to it in the end. *)
Finish(r, word) ==
    /\ Goto(r, "commit")
    /\ reply' = [reply EXCEPT ![r] = word]
    /\ answer' = [answer EXCEPT ![r] = "none"]
    /\ UNCHANGED <<caller, epark, outcome, free>>

(* The proxy ends the transaction and gives the connection back, and the    *)
(* caller is told the reply. If the commit throws it is told of that       *)
(* instead, and what is sent to it may be lost on the way.                 *)
Return(r) ==
    /\ pc[r] = "commit"
    /\ Goto(r, "idle")
    /\ \E word \in {reply[r], Broken(kind[r]), "lost"} :
          /\ told' = [told EXCEPT ![r] = word]
          /\ unsaid' = IF word = reply[r] THEN unsaid
                       ELSE [unsaid EXCEPT ![r] = @ \cup {tries[r]}]
    /\ reply' = [reply EXCEPT ![r] = "none"]
    /\ free' = free + 1
    /\ UNCHANGED <<caller, answer, epark, heard>>

(* What a call says when its post has thrown or was refused: "fail", which  *)
(* parkLeaguerCharge leaves to its controller when it has thrown, or, from *)
(* getLeaguerInfo, null with the log that the car is no member's.          *)
Failed(k) == IF k = "info" THEN "noMember" ELSE "fail"

(* commonRequestValid, with the cached row of the domain; the look-up may   *)
(* throw.                                                                  *)
Check(r) ==
    /\ pc[r] = "check"
    /\ \/ /\ Goto(r, "config")
          /\ UNCHANGED <<caller, answer, reply, outcome, epark, free>>
       \/ Finish(r, IF kind[r] = "info" THEN "null" ELSE "fail")
       \/ Finish(r, Broken(kind[r]))
    /\ UNCHANGED heard

(* The row is read again, from the table or, by "sync", from the cache. By  *)
(* then it may be gone: config.getPostUrl() throws, outside the try block, *)
(* as a failing look-up does. "sync" also asks whether the server is       *)
(* enabled.                                                                *)
Configure(r) ==
    /\ pc[r] = "config"
    /\ \/ /\ Goto(r, "post")
          /\ UNCHANGED <<caller, answer, reply, outcome, epark, free>>
       \/ Finish(r, Broken(kind[r]))
       \/ kind[r] = "sync" /\ Finish(r, "fail")
    /\ UNCHANGED heard

(* HttpUtils.sendPost has written the request. *)
Send(r) ==
    /\ pc[r] = "post"
    /\ Goto(r, "sent")
    /\ atEpark' = [atEpark EXCEPT ![r] = @ \cup {tries[r]}]
    /\ UNCHANGED <<caller, answer, reply, outcome, did, heard, free>>

(* No connection to epark within 5 s, or an address that is none. *)
Unreachable(r) ==
    /\ pc[r] = "post"
    /\ Finish(r, Failed(kind[r]))
    /\ UNCHANGED heard

(* Mutated form of TimeOut: the request is posted again until it is heard. *)
TimeOutRepeats(r) ==
    /\ pc[r] = "sent"
    /\ Goto(r, "post")
    /\ UNCHANGED <<caller, answer, reply, outcome, epark, heard, free>>

(* Mutated form of TimeOut: the connection is given back here already. *)
TimeOutTwice(r) ==
    /\ pc[r] = "sent"
    /\ Goto(r, "commit")
    /\ reply' = [reply EXCEPT ![r] = Failed(kind[r])]
    /\ free' = free + 1
    /\ UNCHANGED <<caller, answer, outcome, epark, heard>>

(* Nothing is read for 5 s or the connection breaks: epark may still carry  *)
(* the call out, or may have done so.                                      *)
TimeOut(r) ==
    /\ pc[r] = "sent"
    /\ Finish(r, Failed(kind[r]))
    /\ UNCHANGED heard

(* Mutated form of Said: any answer passes for a success. *)
SaidAnything(k, a) == IF k = "info" THEN "info" ELSE "success"

(* Mutated form of Said: the test of the answer is the wrong way round. *)
SaidReversed(k, a) ==
    IF a # "done" THEN (IF k = "info" THEN "info" ELSE "success") ELSE Failed(k)

(* "success".equals(respStr), code "0" or, of a query, an answer that is a  *)
(* JSON object, whatever it says.                                          *)
Said(k, a) ==
    IF a = "done" THEN (IF k = "info" THEN "info" ELSE "success") ELSE Failed(k)

(* The answer is read. One that cannot be understood is no answer; that of  *)
(* a query may also throw after the try block, at currSum.                 *)
Read(r) ==
    /\ pc[r] = "answered"
    /\ \/ Finish(r, Said(kind[r], answer[r]))
       \/ kind[r] = "info" /\ answer[r] = "garbled" /\ Finish(r, Broken("info"))
    /\ heard' = [heard EXCEPT ![r] = IF answer[r] = "garbled" THEN @ ELSE @ \cup {tries[r]}]

-----------------------------------------------------------------------------
(* epark, which is no part of this program *)

(* It carries a call out or refuses it, maybe long after the caller has     *)
(* been answered. Its answer, which may be garbled, reaches only a thread  *)
(* that still waits for it. It is taken that epark answers as these        *)
(* methods expect: a query it refuses not by a JSON object.                *)
Serve(r, k) ==
    /\ k \in atEpark[r]
    /\ atEpark' = [atEpark EXCEPT ![r] = @ \ {k}]
    /\ \E a \in {"done", "refused", "garbled"}, carried \in BOOLEAN :
          /\ (a = "done" => carried) /\ (a = "refused" => ~carried)
          /\ did' = IF carried THEN [did EXCEPT ![r] = @ \cup {k}] ELSE did
          /\ IF pc[r] = "sent" /\ k = tries[r]
             THEN Goto(r, "answered") /\ answer' = [answer EXCEPT ![r] = a]
             ELSE UNCHANGED <<pc, answer>>
    /\ UNCHANGED <<caller, reply, outcome, heard, free>>

Finished ==
    /\ \A r \in Requests :
          /\ pc[r] = "idle" /\ atEpark[r] = {}
          /\ tries[r] = MaxTries \/ told[r] \in {"success", "info"}
    /\ UNCHANGED vars

-----------------------------------------------------------------------------

Step(r) ==
    \/ Enter(r) \/ Check(r) \/ Configure(r)
    \/ Send(r) \/ Unreachable(r) \/ TimeOut(r) \/ Read(r) \/ Return(r)

Next ==
    \/ \E r \in Requests : Ask(r) \/ Step(r) \/ \E k \in Tries : Serve(r, k)
    \/ Finished

Spec == Init /\ [][Next]_vars

(* A thread runs on, and the 5 s of a post pass; epark need not answer. The *)
(* 5 s are for each read: an answer that trickles in for ever is left out. *)
FairSpec == Spec /\ \A r \in Requests : WF_vars(Step(r))

-----------------------------------------------------------------------------
(* Properties *)

TypeOK ==
    /\ kind \in [Requests -> Kinds]
    /\ pc \in [Requests -> Holding \cup {"idle", "enter"}]
    /\ tries \in [Requests -> 0..MaxTries]
    /\ answer \in [Requests -> {"none", "done", "refused", "garbled"}]
    /\ reply \in [Requests -> {"none"} \cup Words]
    /\ told \in [Requests -> {"none", "lost"} \cup Words]
    /\ atEpark \in [Requests -> SUBSET Tries]
    /\ did \in [Requests -> SUBSET Tries]
    /\ heard \in [Requests -> SUBSET Tries]
    /\ unsaid \in [Requests -> SUBSET Tries]
    /\ free \in 0..PoolSize

(* A caller is told "success", or given a member's data, only when epark    *)
(* has carried out this very call, not an earlier one of its retries.      *)
SuccessIsThisCall ==
    \A r \in Requests :
        pc[r] = "idle" /\ told[r] \in {"success", "info"} => tries[r] \in did[r]

(* A request that epark carries out more than once (a member is charged     *)
(* twice) was repeated after a call whose answer did not come in or could  *)
(* not be read, or whose caller was not told what had been made of the     *)
(* answer, because the commit failed or the reply was lost. The tests of   *)
(* the answers alone never make a caller repeat what was carried out.      *)
RepeatedOnlyUntold ==
    \A r \in Requests : \A k \in did[r] :
        k < tries[r] => k \notin heard[r] \/ k \in unsaid[r]

(* Every call is answered although each holds a connection while it waits   *)
(* for epark and the pool may be empty.                                    *)
EveryRelayAnswered == \A r \in Requests : pc[r] = "enter" ~> pc[r] = "idle"
=============================================================================
