------------------------------ MODULE TaskQueue ------------------------------
(***************************************************************************)
(* The persistent upload queue of open-epark: two Redis lists and a retry  *)
(* counter per task (RedisQueue, FailCache), filled by the customData web  *)
(* service and drained by one consumer thread per open-epark process       *)
(* (EventQueueThread), which posts every task to the epark platform.       *)
(*                                                                         *)
(* Each Redis command, each HTTP post and each sleep is one action, since  *)
(* the processes share nothing but Redis and a process can die, lose an    *)
(* answer or be closed between any two of them.                            *)
(***************************************************************************)
EXTENDS Naturals, Sequences, Functions

CONSTANTS
    Workers,        \* the open-epark processes that share the Redis server
    MaxTasks,       \* bound: tasks offered in a behaviour
    Rejected,       \* the tasks that epark answers without "success" for ever
    MaxFaults,      \* bound: crashes, failed Redis commands and lost answers
    MaxCloses       \* bound: orderly shutdowns of a process

(* A task is named by its place in the order of arrival, the code's UUID. *)
Tasks == 1..MaxTasks
NoTask == 0

ASSUME ConstantsAssumption ==
    /\ MaxTasks \in Nat
    /\ Rejected \subseteq Tasks
    /\ MaxFaults \in Nat
    /\ MaxCloses \in Nat

FAIL_TRY_COUNT == 2

VARIABLES
    \* Redis
    wait,           \* upperTaskQueue-wait-queue: LPUSH appends, RPOP takes the head
    processing,     \* upperTaskQueue-processing-queue: copies of each task in it
    failCount,      \* String:taskfailCount:<id>, 0 when the key is absent
    expiring,       \* the tasks whose counter key has a time to live
    \* the consumer thread of each process
    pc,             \* the next step of its run() loop
    task,           \* the task in hand
    tries,          \* fail()'s local tryTimes
    inCatch,        \* the threads in run()'s catch block, where nothing catches again
    closing,        \* how far the process's shutdown has come
    \* epark, and the history of the behaviour
    offered,        \* tasks 1..offered have been pushed
    accepted,       \* how often epark took a task: 0, 1, or 2 for "more"
    popped,         \* the tasks some consumer has taken at least once
    faults,         \* faults so far
    closes          \* shutdowns begun so far

redis == <<wait, processing, failCount, expiring>>
thread == <<pc, task, tries, inCatch>>
history == <<offered, accepted, popped, closes>>
vars == <<redis, thread, closing, history, faults>>

PCs == {"off", "loop", "take", "post", "remove", "clear", "count", "requeue",
        "reset", "sleep", "dead", "stopped"}
ClosingStages == {"no", "stopping", "closed", "destroyed"}
Outcomes == {"ok", "error", "lost"}

(* Counters beyond these caps behave as at the cap: the code only compares *)
(* the retry counter with FAIL_TRY_COUNT, the properties only tell none,   *)
(* one and more acceptances apart.                                         *)
Increment(n) == IF n < FAIL_TRY_COUNT THEN n + 1 ELSE n
More(n) == IF n = 0 THEN 1 ELSE 2

Init ==
    /\ wait = <<>>
    /\ processing = [t \in Tasks |-> 0]
    /\ failCount = [t \in Tasks |-> 0]
    /\ expiring = {}
    /\ pc = [w \in Workers |-> "off"]
    /\ task = [w \in Workers |-> NoTask]
    /\ tries = [w \in Workers |-> 0]
    /\ inCatch = {}
    /\ closing = [w \in Workers |-> "no"]
    /\ offered = 0
    /\ accepted = [t \in Tasks |-> 0]
    /\ popped = {}
    /\ faults = 0
    /\ closes = 0

-----------------------------------------------------------------------------
(* Steps shared by the actions of a consumer thread *)

Fault == faults < MaxFaults /\ faults' = faults + 1

(* A Redis command of process w: it succeeds, fails before it is applied,  *)
(* or is applied and its answer lost. Once Spring has destroyed the        *)
(* connection factory it can only fail.                                    *)
RedisCall(w, out) ==
    \/ /\ closing[w] # "destroyed"
       /\ \/ out = "ok" /\ UNCHANGED faults
          \/ out \in {"error", "lost"} /\ Fault
    \/ /\ closing[w] = "destroyed"
       /\ out = "error"
       /\ UNCHANGED faults

Goto(w, label) ==
    /\ pc' = [pc EXCEPT ![w] = label]
    /\ UNCHANGED <<task, tries, inCatch>>

(* The thread lets go of its task and continues at label. *)
Release(w, label) ==
    /\ pc' = [pc EXCEPT ![w] = label]
    /\ task' = [task EXCEPT ![w] = NoTask]
    /\ tries' = [tries EXCEPT ![w] = 0]
    /\ inCatch' = inCatch \ {w}

(* An exception in run(): the catch block sleeps 40 s and calls fail(); an *)
(* exception of that call ends the thread for good.                        *)
Throw(w) ==
    \/ w \in inCatch /\ Release(w, "dead")
    \/ /\ w \notin inCatch
       /\ pc' = [pc EXCEPT ![w] = "sleep"]
       /\ tries' = [tries EXCEPT ![w] = 0]
       /\ inCatch' = inCatch \cup {w}
       /\ UNCHANGED task

(* FailCache.invalidate: EXPIRE does nothing to a key that is absent. *)
Invalidate(t) ==
    expiring' = IF failCount[t] > 0 THEN expiring \cup {t} ELSE expiring

-----------------------------------------------------------------------------
(* The producer and the Redis server *)

(* Mutated form of Offer: the task is pushed at the end that is popped. *)
OfferAtHead ==
    /\ offered < MaxTasks
    /\ offered' = offered + 1
    /\ wait' = <<offered + 1>> \o wait
    /\ UNCHANGED <<processing, failCount, expiring, thread, closing, accepted,
                   popped, closes, faults>>

(* transferCustomData hands a task with a fresh id to RedisQueue.offer. *)
Offer ==
    /\ offered < MaxTasks
    /\ offered' = offered + 1
    /\ wait' = Append(wait, offered + 1)
    /\ UNCHANGED <<processing, failCount, expiring, thread, closing, accepted,
                   popped, closes, faults>>

(* Redis drops a counter whose time to live has run out. *)
Expire(t) ==
    /\ t \in expiring
    /\ expiring' = expiring \ {t}
    /\ failCount' = [failCount EXCEPT ![t] = 0]
    /\ UNCHANGED <<wait, processing, thread, closing, history, faults>>

-----------------------------------------------------------------------------
(* EventQueueThread.run and the RedisQueue operations it calls *)

(* Mutated form of Start: a starting process takes the processing list for *)
(* the remains of a crash and pushes an entry of it back to the wait list. *)
StartRecovers(w) ==
    /\ pc[w] = "off"
    /\ Goto(w, "loop")
    /\ \/ /\ \A t \in Tasks : processing[t] = 0
          /\ UNCHANGED <<wait, processing>>
       \/ \E t \in Tasks :
             /\ processing[t] > 0
             /\ processing' = [processing EXCEPT ![t] = @ - 1]
             /\ wait' = Append(wait, t)
    /\ UNCHANGED <<failCount, expiring, closing, history, faults>>

(* The process comes up and init() starts the thread. *)
Start(w) ==
    /\ pc[w] = "off"
    /\ Goto(w, "loop")
    /\ UNCHANGED <<redis, closing, history, faults>>

(* while (!this.stop) of run() *)
Loop(w) ==
    /\ pc[w] = "loop"
    /\ Goto(w, IF closing[w] = "no" THEN "take" ELSE "stopped")
    /\ UNCHANGED <<redis, closing, history, faults>>

(* while (!this.stop) of take(), which returns null once it sees the flag; *)
(* the flag is a plain field, so a set flag may also go unseen.            *)
TakeNothing(w) ==
    /\ pc[w] = "take"
    /\ closing[w] \in {"closed", "destroyed"}
    /\ Goto(w, "loop")
    /\ UNCHANGED <<redis, closing, history, faults>>

(* RPOPLPUSH of an empty list, then 5 s of sleep. *)
EmptyPoll(w) ==
    /\ pc[w] = "take"
    /\ wait = <<>>
    /\ UNCHANGED vars

(* Mutated form of Take: RPOP, with no copy in the processing list. *)
TakeDestructive(w) ==
    /\ pc[w] = "take"
    /\ wait # <<>>
    /\ RedisCall(w, "ok")
    /\ wait' = Tail(wait)
    /\ popped' = popped \cup {Head(wait)}
    /\ pc' = [pc EXCEPT ![w] = "post"]
    /\ task' = [task EXCEPT ![w] = Head(wait)]
    /\ UNCHANGED <<processing, failCount, expiring, tries, inCatch, closing,
                   offered, accepted, closes>>

(* RPOPLPUSH of the oldest waiting task. When the answer is lost, take()   *)
(* sleeps and tries again: the task stays in the processing list and no    *)
(* thread has it.                                                          *)
Take(w) ==
    /\ pc[w] = "take"
    /\ wait # <<>>
    /\ \E out \in {"ok", "lost"} :
          /\ RedisCall(w, out)
          /\ wait' = Tail(wait)
          /\ processing' = [processing EXCEPT ![Head(wait)] = @ + 1]
          /\ popped' = popped \cup {Head(wait)}
          /\ IF out = "ok"
             THEN /\ pc' = [pc EXCEPT ![w] = "post"]
                  /\ task' = [task EXCEPT ![w] = Head(wait)]
                  /\ UNCHANGED <<tries, inCatch>>
             ELSE UNCHANGED thread
    /\ UNCHANGED <<failCount, expiring, closing, offered, accepted, closes>>

(* RPOPLPUSH that fails: take() sleeps 5 s and tries again. *)
TakeError(w) ==
    /\ pc[w] = "take"
    /\ RedisCall(w, "error")
    /\ UNCHANGED <<redis, thread, closing, history>>

(* Mutated form of PostSuccess: the test of the answer is negated. *)
PostSuccessFails(w) ==
    /\ pc[w] = "post"
    /\ task[w] \notin Rejected
    /\ accepted' = [accepted EXCEPT ![task[w]] = More(@)]
    /\ Goto(w, "count")
    /\ UNCHANGED <<redis, closing, offered, popped, closes, faults>>

(* Epark takes the task and the answer contains "success". *)
PostSuccess(w) ==
    /\ pc[w] = "post"
    /\ task[w] \notin Rejected
    /\ accepted' = [accepted EXCEPT ![task[w]] = More(@)]
    /\ Goto(w, "remove")
    /\ UNCHANGED <<redis, closing, offered, popped, closes, faults>>

(* Mutated form of PostRefused: any answer counts as success. *)
PostRefusedSucceeds(w) ==
    /\ pc[w] = "post"
    /\ Goto(w, "remove")
    /\ UNCHANGED <<redis, closing, history, faults>>

(* Epark answers without "success": queue.fail inside the try block. *)
PostRefused(w) ==
    /\ pc[w] = "post"
    /\ Goto(w, "count")
    /\ UNCHANGED <<redis, closing, history, faults>>

(* The post fails before epark has taken the task. *)
PostError(w) ==
    /\ pc[w] = "post"
    /\ Throw(w)
    /\ UNCHANGED <<redis, closing, history, faults>>

(* Epark takes the task and its answer is lost or later than the timeout. *)
PostLost(w) ==
    /\ pc[w] = "post"
    /\ task[w] \notin Rejected
    /\ Fault
    /\ accepted' = [accepted EXCEPT ![task[w]] = More(@)]
    /\ Throw(w)
    /\ UNCHANGED <<redis, closing, offered, popped, closes>>

(* Mutated form of Remove: the value sent to LREM is not the one listed. *)
RemoveNothing(w) ==
    /\ pc[w] = "remove"
    /\ RedisCall(w, "ok")
    /\ Goto(w, "clear")
    /\ UNCHANGED <<redis, closing, history>>

(* success(): LREM of every copy in the processing list *)
Remove(w) ==
    /\ pc[w] = "remove"
    /\ \E out \in Outcomes :
          /\ RedisCall(w, out)
          /\ IF out = "error" THEN UNCHANGED processing
             ELSE processing' = [processing EXCEPT ![task[w]] = 0]
          /\ IF out = "ok" THEN Goto(w, "clear") ELSE Throw(w)
    /\ UNCHANGED <<wait, failCount, expiring, closing, history>>

(* Mutated form of Clear: success() leaves the retry counter alone. *)
ClearNothing(w) ==
    /\ pc[w] = "clear"
    /\ Release(w, "loop")
    /\ UNCHANGED <<redis, closing, history, faults>>

(* success(): failCache.invalidate *)
Clear(w) ==
    /\ pc[w] = "clear"
    /\ \E out \in Outcomes :
          /\ RedisCall(w, out)
          /\ IF out = "error" THEN UNCHANGED expiring ELSE Invalidate(task[w])
          /\ IF out = "ok" THEN Release(w, "loop") ELSE Throw(w)
    /\ UNCHANGED <<wait, processing, failCount, closing, history>>

(* The catch block's 40 s are over. *)
Wake(w) ==
    /\ pc[w] = "sleep"
    /\ Goto(w, "count")
    /\ UNCHANGED <<redis, closing, history, faults>>

(* fail(): failCache.increaseAndGet; INCR keeps the key's time to live *)
Count(w) ==
    /\ pc[w] = "count"
    /\ \E out \in Outcomes :
          /\ RedisCall(w, out)
          /\ IF out = "error" THEN UNCHANGED failCount
             ELSE failCount' = [failCount EXCEPT ![task[w]] = Increment(@)]
          /\ IF out = "ok"
             THEN /\ pc' = [pc EXCEPT ![w] = "requeue"]
                  /\ tries' = [tries EXCEPT ![w] = failCount'[task[w]]]
                  /\ UNCHANGED <<task, inCatch>>
             ELSE Throw(w)
    /\ UNCHANGED <<wait, processing, expiring, closing, history>>

(* Mutated forms of MoveBack: the push does not depend on LREM's count; the *)
(* removal is not guarded; the task goes back to the end that is popped.    *)
MoveBackAlways(t) ==
    /\ processing' = [processing EXCEPT ![t] = IF @ > 0 THEN @ - 1 ELSE @]
    /\ wait' = Append(wait, t)

MoveBackUnguarded(t) ==
    /\ processing' = [processing EXCEPT ![t] = @ - 1]
    /\ wait' = Append(wait, t)

MoveBackToHead(t) ==
    IF processing[t] > 0
    THEN /\ processing' = [processing EXCEPT ![t] = @ - 1]
         /\ wait' = <<t>> \o wait
    ELSE UNCHANGED <<wait, processing>>

(* The script of fail(): one copy goes from the processing list back to    *)
(* the wait list, if there is one.                                         *)
MoveBack(t) ==
    IF processing[t] > 0
    THEN /\ processing' = [processing EXCEPT ![t] = @ - 1]
         /\ wait' = Append(wait, t)
    ELSE UNCHANGED <<wait, processing>>

(* fail(): both branches run the script; the second also drops the counter *)
Requeue(w) ==
    /\ pc[w] = "requeue"
    /\ \E out \in Outcomes :
          /\ RedisCall(w, out)
          /\ IF out = "error" THEN UNCHANGED <<wait, processing>>
             ELSE MoveBack(task[w])
          /\ \/ out # "ok" /\ Throw(w)
             \/ out = "ok" /\ tries[w] < FAIL_TRY_COUNT /\ Release(w, "loop")
             \/ out = "ok" /\ tries[w] >= FAIL_TRY_COUNT /\ Goto(w, "reset")
    /\ UNCHANGED <<failCount, expiring, closing, history>>

(* fail(), second branch: failCache.invalidate *)
Reset(w) ==
    /\ pc[w] = "reset"
    /\ \E out \in Outcomes :
          /\ RedisCall(w, out)
          /\ IF out = "error" THEN UNCHANGED expiring ELSE Invalidate(task[w])
          /\ IF out = "ok" THEN Release(w, "loop") ELSE Throw(w)
    /\ UNCHANGED <<wait, processing, failCount, closing, history>>

-----------------------------------------------------------------------------
(* The life of a process: EventQueueThread.close, the Spring context, crashes *)

(* close(): this.stop = true *)
MarkStop(w) ==
    /\ pc[w] # "off"
    /\ closing[w] = "no"
    /\ closes < MaxCloses
    /\ closes' = closes + 1
    /\ closing' = [closing EXCEPT ![w] = "stopping"]
    /\ UNCHANGED <<redis, thread, offered, accepted, popped, faults>>

(* close(): this.queue.close(), then an interrupt() that reaches no thread *)
MarkQueueStop(w) ==
    /\ closing[w] = "stopping"
    /\ closing' = [closing EXCEPT ![w] = "closed"]
    /\ UNCHANGED <<redis, thread, history, faults>>

(* Spring destroys the connection factory after the consumer bean. *)
DestroyPool(w) ==
    /\ closing[w] = "closed"
    /\ closing' = [closing EXCEPT ![w] = "destroyed"]
    /\ UNCHANGED <<redis, thread, history, faults>>

(* The process ends in the middle of whatever it was doing. *)
Crash(w) ==
    /\ pc[w] # "off"
    /\ Fault
    /\ Release(w, "off")
    /\ closing' = [closing EXCEPT ![w] = "no"]
    /\ UNCHANGED <<redis, history>>

(* A process whose consumer has ended is stopped, to be started again. *)
Exit(w) ==
    /\ pc[w] \in {"dead", "stopped"}
    /\ Goto(w, "off")
    /\ closing' = [closing EXCEPT ![w] = "no"]
    /\ UNCHANGED <<redis, history, faults>>

-----------------------------------------------------------------------------

(* The steps a running consumer takes by itself. *)
Step(w) ==
    \/ Loop(w) \/ TakeNothing(w) \/ EmptyPoll(w) \/ Take(w) \/ TakeError(w)
    \/ PostSuccess(w) \/ PostRefused(w) \/ PostError(w) \/ PostLost(w)
    \/ Remove(w) \/ Clear(w) \/ Wake(w) \/ Count(w) \/ Requeue(w) \/ Reset(w)

Process(w) ==
    \/ Start(w) \/ Step(w) \/ MarkStop(w) \/ MarkQueueStop(w) \/ DestroyPool(w)
    \/ Crash(w) \/ Exit(w)

Next ==
    \/ Offer
    \/ \E t \in Tasks : Expire(t)
    \/ \E w \in Workers : Process(w)

Spec == Init /\ [][Next]_vars

(* A started thread keeps running, an operator starts what is down, Redis  *)
(* expires keys, and epark, asked again and again for a task it can take,  *)
(* takes it some time.                                                     *)
EparkTakes(t) == \E w \in Workers : task[w] = t /\ PostSuccess(w)

Fairness ==
    /\ \A w \in Workers : WF_vars(Start(w)) /\ WF_vars(Step(w))
    /\ \A t \in Tasks : WF_vars(Expire(t)) /\ SF_vars(EparkTakes(t))

FairSpec == Spec /\ Fairness

-----------------------------------------------------------------------------
(* Properties *)

Waiting(t) == t \in Range(wait)
Listed(t) == Waiting(t) \/ processing[t] > 0
Held(t) == \E w \in Workers : task[w] = t

TypeOK ==
    /\ wait \in Seq(Tasks)
    /\ processing \in [Tasks -> Nat]
    /\ failCount \in [Tasks -> 0..FAIL_TRY_COUNT]
    /\ expiring \in SUBSET Tasks
    /\ pc \in [Workers -> PCs]
    /\ task \in [Workers -> Tasks \cup {NoTask}]
    /\ tries \in [Workers -> 0..FAIL_TRY_COUNT]
    /\ inCatch \in SUBSET Workers
    /\ closing \in [Workers -> ClosingStages]
    /\ offered \in 0..MaxTasks
    /\ accepted \in [Tasks -> 0..2]
    /\ popped \in SUBSET Tasks
    /\ faults \in 0..MaxFaults
    /\ closes \in 0..MaxCloses

(* However posts, scripts, crashes and retries interleave, Redis holds at  *)
(* most one copy of a task over both lists: a retry moves the entry and    *)
(* never doubles it, also when the worker that fails it no longer owns it. *)
SingleCopy ==
    /\ IsInjective(wait)
    /\ \A t \in Tasks : /\ processing[t] <= 1
                        /\ Waiting(t) => processing[t] = 0

(* A task answered "message send success" stays in one of the two lists    *)
(* until epark has taken it.                                               *)
NotLost == \A t \in 1..offered : Listed(t) \/ accepted[t] > 0

(* The worker works on the task under the protection of its entry in the   *)
(* processing list: it has not yet removed or moved that entry.            *)
Owns(w, t) ==
    /\ task[w] = t
    /\ \/ pc[w] \in {"post", "remove"}
       \/ pc[w] \in {"sleep", "count", "requeue"} /\ closing[w] # "destroyed"

(* As long as no crash, no Redis error and no lost answer has occurred, no *)
(* two processes work on the same task.                                    *)
ExclusiveUnlessFault ==
    faults = 0 => \A v, w \in Workers, t \in Tasks :
                     Owns(v, t) /\ Owns(w, t) => v = w

(* Without a fault epark takes no task twice, also across shutdowns that   *)
(* cut a consumer off between the post and the removal.                    *)
AcceptedOnceUnlessFault == faults = 0 => \A t \in Tasks : accepted[t] <= 1

(* Without faults and shutdowns the processing list is exactly the work in *)
(* progress: what no worker will remove or move back is not in it.         *)
ProcessingOwned ==
    faults = 0 /\ closes = 0 =>
        \A t \in Tasks : processing[t] > 0 <=> \E w \in Workers : Owns(w, t)

(* Without faults and shutdowns no retry counter outlives its task: the    *)
(* counter of a task that is in no list and no hand is about to expire.    *)
CounterCollected ==
    faults = 0 /\ closes = 0 =>
        \A t \in Tasks : ~Listed(t) /\ ~Held(t) /\ failCount[t] > 0
                            => t \in expiring

(* Tasks are taken for the first time in the order of arrival, whatever is *)
(* retried meanwhile; with two processes epark may get the later one first.*)
FirstTakeInOrder ==
    [][\A t \in popped' \ popped : 1..(t - 1) \subseteq popped]_vars

(* The refinement mapping to TaskDelivery *)
status == [t \in Tasks |-> IF t > offered THEN "new"
                           ELSE IF Listed(t) THEN "pending" ELSE "done"]

Delivery == INSTANCE TaskDelivery
                WITH Tasks <- Tasks, status <- status, accepted <- accepted

(* The queue implements at-least-once delivery under every fault modelled. *)
ImplementsDelivery == Delivery!Spec

(* An entry in the processing list that no thread will ever touch again:   *)
(* nothing in the code reads that list but for a task in hand.             *)
Stranded(t) == processing[t] > 0 /\ ~Held(t)
NoConsumer == \A w \in Workers : pc[w] \in {"dead", "stopped"}

(* A task epark can take is taken and forgotten in the end, although a     *)
(* task it never takes circulates in the same queue. Only after a fault or  *)
(* a shutdown it may be stranded, or every consumer may have ended.        *)
DeliveredOrStranded ==
    \A t \in Tasks \ Rejected :
        t <= offered ~> \/ status[t] = "done"
                        \/ Stranded(t) /\ faults + closes > 0
                        \/ [](NoConsumer /\ faults + closes > 0)

(* RedisQueue.fail logs "Discard to fail queue" when the tries are used    *)
(* up: by then the task has left the wait list.                            *)
DiscardedAfterTries == \A w \in Workers : pc[w] = "reset" => ~Waiting(task[w])

(* EventQueueThread.close prints "Redis Queue has Stopped": by then the    *)
(* consumer has no task in hand.                                           *)
StoppedMeansIdle ==
    \A w \in Workers : closing[w] \in {"closed", "destroyed"} => task[w] = NoTask
=============================================================================
