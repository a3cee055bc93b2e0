------------------------------ MODULE ParkInvoke ------------------------------
(***************************************************************************)
(* One call of /parkServiceInvoke.do: the platform sends a list of         *)
(* requests, each for one parking lot; the servlet thread looks their      *)
(* addresses up, starts a HttpTaskManager thread that starts one HttpTask  *)
(* thread per request, polls the shared result queue until everything has  *)
(* come in or 5 s are over, and merges what it finds. Calls share nothing, *)
(* each has a manager of its own.                                          *)
(***************************************************************************)
EXTENDS Naturals, FiniteSets

CONSTANTS
    MaxRequests,    \* bound: requests in the platform's message
    Capacity        \* capacity of the result queue, 200 in the code

ASSUME ConstantsAssumption ==
    /\ MaxRequests \in Nat
    /\ Capacity \in Nat

Requests == 1..MaxRequests

(* What a park can answer: success with a responseBody that is an array, or *)
(* without one, anything else that is a JSON object, and what is none.      *)
Answers == {"success", "bodiless", "fail", "garbage"}

VARIABLES
    main,           \* the servlet thread: the next step of the call
    total,          \* jsonArray.size(), the requests of the message
    known,          \* the requests for which a server address was found
    taskLength,     \* HttpTaskManager.taskLength
    manager,        \* HttpTaskManager.run: "new", "running", "ended"
    http,           \* the HttpTask thread of each request
    results,        \* the requests whose answers are in the result queue
    answer,         \* what the queued answer of a request says
    begun,          \* beginTimeMillis has been written
    visible,        \* that write happens-before what the servlet thread reads
    late,           \* more than the timeout has passed since the write
    size,           \* length of the array that getResult allocates
    outstanding,    \* the known requests not in the queue at that moment
    gathered,       \* what the array holds, the rest of it being null
    reply           \* what the platform gets

callVars == <<total, known, taskLength>>
clock == <<begun, visible, late>>
harvest == <<size, outstanding, gathered, reply>>
vars == <<main, callVars, manager, http, results, answer, clock, harvest>>

NoReply == [result |-> "none", threw |-> FALSE, values |-> {}]
Failure == [result |-> "fail", threw |-> TRUE, values |-> {}]

(* A call arrives with a message of any length that the bound allows. *)
Init ==
    /\ main = "prepare"
    /\ total \in 0..MaxRequests
    /\ known = {}
    /\ taskLength = 0
    /\ manager = "new"
    /\ http = [i \in Requests |-> "none"]
    /\ results = {}
    /\ answer = [i \in Requests |-> "none"]
    /\ begun = FALSE
    /\ visible = FALSE
    /\ late = FALSE
    /\ size = 0
    /\ outstanding = {}
    /\ gathered = {}
    /\ reply = NoReply

-----------------------------------------------------------------------------
(* The servlet thread: ParkServiceInvokeImpl.parkServiceInvoke *)

(* Mutated form of TaskLength: requests without an address count as tasks. *)
TaskLengthOfAll(found) == total

(* HttpTaskManager.setTask counts the requests that have an address. *)
TaskLength(found) == Cardinality(found)

(* The addresses are looked up, a park without one is skipped, and the     *)
(* manager gets the requests and is started.                               *)
Prepare ==
    /\ main = "prepare"
    /\ \E found \in SUBSET (1..total) :
          /\ known' = found
          /\ taskLength' = TaskLength(found)
    /\ manager' = "running"
    /\ main' = "time"
    /\ UNCHANGED <<total, http, results, answer, clock, harvest>>

(* A message that is no JSON array of objects with a park code, or a       *)
(* failing look-up, ends the call before anything is started.              *)
PrepareError ==
    /\ main = "prepare"
    /\ reply' = Failure
    /\ main' = "done"
    /\ UNCHANGED <<callVars, manager, http, results, answer, clock, size,
                   outstanding, gathered>>

(* What a read of beginTimeMillis may give this thread. The field is       *)
(* plain: until the write happens-before the read, 0 is a legal value.     *)
Reads == (IF visible THEN {} ELSE {"zero"}) \cup (IF begun THEN {"begin"} ELSE {})

(* Mutated form of Expired: the elapsed time is not compared. *)
ExpiredNever(read) == read = "zero"

(* now - beginTimeMillis > timeOut; no time is within 5 s of 0. *)
Expired(read) == read = "zero" \/ late

(* getResult wakes up from its 20 ms and evaluates the left-hand side of   *)
(* the condition.                                                          *)
ReadTime ==
    /\ main = "time"
    /\ \E read \in Reads :
          main' = IF Expired(read) THEN "allocate" ELSE "compare"
    /\ UNCHANGED <<callVars, manager, http, results, answer, clock, harvest>>

(* taskLength == results.size(), and another 20 ms if not. The lock of the *)
(* queue orders this thread after the write if it holds any answer.        *)
Compare ==
    /\ main = "compare"
    /\ visible' = (visible \/ results # {})
    /\ main' = IF taskLength = Cardinality(results) THEN "allocate" ELSE "time"
    /\ UNCHANGED <<callVars, manager, http, results, answer, begun, late, harvest>>

(* Mutated form of Allocate: room for one answer less. *)
AllocateShort ==
    /\ main = "allocate"
    /\ size' = IF results = {} THEN 0 ELSE Cardinality(results) - 1
    /\ outstanding' = known \ results
    /\ main' = "copy"
    /\ UNCHANGED <<callVars, manager, http, results, answer, clock, gathered, reply>>

(* new String[this.results.size()] *)
Allocate ==
    /\ main = "allocate"
    /\ size' = Cardinality(results)
    /\ outstanding' = known \ results
    /\ main' = "copy"
    /\ UNCHANGED <<callVars, manager, http, results, answer, clock, gathered, reply>>

(* results.toArray(res): when an answer has come in since, toArray returns *)
(* a longer array of its own, which the code drops, and res stays empty.   *)
Copy ==
    /\ main = "copy"
    /\ gathered' = IF Cardinality(results) > size THEN {} ELSE results
    /\ main' = "merge"
    /\ UNCHANGED <<callVars, manager, http, results, answer, clock, size,
                   outstanding, reply>>

(* A null or an answer that is no JSON object throws, and the controller   *)
(* then answers {'result':'fail'} without any value.                       *)
Unreadable ==
    \/ size # Cardinality(gathered)
    \/ \E i \in gathered : answer[i] = "garbage"

(* Mutated form of AllGood: the number of answers is not compared. *)
AllGoodSoFar == \A i \in gathered : answer[i] \in {"success", "bodiless"}

(* Every answer says success, and there are as many as requests. *)
AllGood ==
    /\ total = size
    /\ \A i \in gathered : answer[i] \in {"success", "bodiless"}

(* The loop over the answers and the final comparison of the lengths. A    *)
(* success without an array is logged and adds no value.                   *)
Merge ==
    /\ main = "merge"
    /\ \/ Unreadable /\ reply' = Failure
       \/ /\ ~Unreadable
          /\ reply' = [result |-> IF AllGood THEN "success" ELSE "fail",
                       threw |-> FALSE,
                       values |-> {i \in gathered : answer[i] = "success"}]
    /\ main' = "done"
    /\ UNCHANGED <<callVars, manager, http, results, answer, clock, size,
                   outstanding, gathered>>

-----------------------------------------------------------------------------
(* HttpTaskManager.run, the HttpTask threads and the clock *)

(* this.beginTimeMillis = System.currentTimeMillis() *)
Begin ==
    /\ manager = "running"
    /\ ~begun
    /\ begun' = TRUE
    /\ UNCHANGED <<main, callVars, manager, http, results, answer, visible, late,
                   harvest>>

(* The manager starts the thread of the next request with an address. *)
Spawn(i) ==
    /\ manager = "running"
    /\ begun
    /\ i \in known /\ http[i] = "none"
    /\ \A j \in known : j < i => http[j] # "none"
    /\ http' = [http EXCEPT ![i] = "running"]
    /\ UNCHANGED <<main, callVars, manager, results, answer, clock, harvest>>

(* run() of the manager returns. *)
EndRun ==
    /\ manager = "running"
    /\ begun
    /\ \A i \in known : http[i] # "none"
    /\ manager' = "ended"
    /\ UNCHANGED <<main, callVars, http, results, answer, clock, harvest>>

(* Mutated form of Deliver: the capacity is not enforced. *)
DeliverUnbounded(i) ==
    /\ http[i] = "running"
    /\ \E a \in Answers : answer' = [answer EXCEPT ![i] = a]
    /\ results' = results \cup {i}
    /\ http' = [http EXCEPT ![i] = "ended"]
    /\ UNCHANGED <<main, callVars, manager, clock, harvest>>

(* The park answers and results.offer takes the answer if there is room. *)
Deliver(i) ==
    /\ http[i] = "running"
    /\ \/ /\ Cardinality(results) < Capacity
          /\ results' = results \cup {i}
          /\ \E a \in Answers : answer' = [answer EXCEPT ![i] = a]
       \/ /\ Cardinality(results) >= Capacity
          /\ UNCHANGED <<results, answer>>
    /\ http' = [http EXCEPT ![i] = "ended"]
    /\ UNCHANGED <<main, callVars, manager, clock, harvest>>

(* The post fails or times out; the exception is logged and nothing else. *)
FailPost(i) ==
    /\ http[i] = "running"
    /\ http' = [http EXCEPT ![i] = "ended"]
    /\ UNCHANGED <<main, callVars, manager, results, answer, clock, harvest>>

(* 5 s have passed since beginTimeMillis was taken. *)
Tick ==
    /\ begun /\ ~late
    /\ late' = TRUE
    /\ UNCHANGED <<main, callVars, manager, http, results, answer, begun, visible,
                   harvest>>

(* The call has been answered and its threads have ended. *)
Finished ==
    /\ main = "done"
    /\ manager # "running"
    /\ \A i \in Requests : http[i] # "running"
    /\ UNCHANGED vars

-----------------------------------------------------------------------------

Main == Prepare \/ PrepareError \/ ReadTime \/ Compare \/ Allocate \/ Copy \/ Merge

Manager == Begin \/ EndRun \/ \E i \in Requests : Spawn(i)

Next ==
    \/ Main
    \/ Manager
    \/ \E i \in Requests : Deliver(i) \/ FailPost(i)
    \/ Tick
    \/ Finished

Spec == Init /\ [][Next]_vars

(* The threads run. That the parks answer, or that 5 s pass, is not        *)
(* assumed: the liveness properties say what follows when they do.         *)
FairSpec == Spec /\ WF_vars(Main) /\ WF_vars(Manager)

-----------------------------------------------------------------------------
(* Properties *)

TypeOK ==
    /\ main \in {"prepare", "time", "compare", "allocate", "copy", "merge", "done"}
    /\ total \in 0..MaxRequests
    /\ known \in SUBSET (1..total)
    /\ taskLength \in 0..total
    /\ manager \in {"new", "running", "ended"}
    /\ http \in [Requests -> {"none", "running", "ended"}]
    /\ results \in SUBSET known
    /\ Cardinality(results) <= Capacity
    /\ answer \in [Requests -> Answers \cup {"none"}]
    /\ begun \in BOOLEAN /\ visible \in BOOLEAN /\ late \in BOOLEAN
    /\ size \in 0..Cardinality(results)
    /\ outstanding \in SUBSET known
    /\ gathered \in SUBSET results
    /\ reply \in [result : {"none", "success", "fail"}, threw : BOOLEAN,
                  values : SUBSET results]

(* The platform is told "success" only when every request of its message,  *)
(* also one whose park has no address, was answered with success, and then *)
(* it gets all the values there are: early wake-ups, late answers, a full  *)
(* queue and lost answers can make a call fail, never pass.                *)
HonestSuccess ==
    reply.result = "success" =>
        \A i \in 1..total : \/ answer[i] = "bodiless"
                            \/ answer[i] = "success" /\ i \in reply.values

(* When every answer was in the queue before the array was sized, none of  *)
(* them is lost: only an answer that is no JSON object fails the call with *)
(* an exception.                                                           *)
NothingLostWhenAllIn ==
    main = "done" /\ manager # "new" /\ outstanding = {}
    /\ (\A i \in known : answer[i] # "garbage") =>
        /\ ~reply.threw
        /\ reply.values = {i \in known : answer[i] = "success"}

(* The call does not sit out its timeout when every answer has come in. *)
PromptWhenAllIn ==
    (manager = "ended" /\ results = known) ~> main = "done"

(* Once the timeout is over the call is answered, whatever is missing. *)
AnsweredWhenLate == late ~> main = "done"
=============================================================================
