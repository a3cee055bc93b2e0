--------------------------- MODULE TaskQueueProofs ---------------------------
(***************************************************************************)
(* Theorems about TaskQueue for every set of processes, every number of    *)
(* tasks and every bound on faults and shutdowns; the last ones are about   *)
(* the order of first takes under every fault, about the list and the      *)
(* counters as long as nothing fails and no process is shut down, about    *)
(* consumers that come to let go of what they hold, and about tasks that    *)
(* move up in the list until epark takes them.                             *)
(***************************************************************************)
EXTENDS TaskQueue, TLAPS

-----------------------------------------------------------------------------
(* Sequences *)

(* LPUSH adds the pushed task to the list and nothing else. *)
LEMMA RangeOfAppend ==
    ASSUME NEW S, NEW s \in Seq(S), NEW e \in S
    PROVE  /\ Append(s, e) \in Seq(S)
           /\ Range(Append(s, e)) = Range(s) \cup {e}
<1>1. /\ Append(s, e) \in Seq(S)
      /\ Len(Append(s, e)) = Len(s) + 1
      /\ \A i \in 1..Len(s) : Append(s, e)[i] = s[i]
      /\ Append(s, e)[Len(s) + 1] = e
      /\ Len(s) \in Nat
  OBVIOUS
<1>2. DOMAIN Append(s, e) = 1..(Len(s) + 1) /\ DOMAIN s = 1..Len(s)
  BY <1>1
<1>3. Range(Append(s, e)) \subseteq Range(s) \cup {e}
  BY <1>1, <1>2 DEF Range
<1>4. Range(s) \cup {e} \subseteq Range(Append(s, e))
  BY <1>1, <1>2 DEF Range
<1>5. QED  BY <1>1, <1>3, <1>4

(* LPUSH of a task that is not listed keeps the list free of duplicates. *)
LEMMA InjectiveAppend ==
    ASSUME NEW S, NEW s \in Seq(S), NEW e \in S, IsInjective(s), e \notin Range(s)
    PROVE  IsInjective(Append(s, e))
<1>1. /\ Len(Append(s, e)) = Len(s) + 1
      /\ \A i \in 1..Len(s) : Append(s, e)[i] = s[i]
      /\ Append(s, e)[Len(s) + 1] = e
      /\ Len(s) \in Nat
  OBVIOUS
<1>2. DOMAIN Append(s, e) = 1..(Len(s) + 1) /\ DOMAIN s = 1..Len(s)
  BY <1>1
<1>3. \A i \in 1..Len(s) : s[i] # e
  BY <1>2 DEF Range
<1>4. QED  BY <1>1, <1>2, <1>3 DEF IsInjective

(* RPOP takes the popped task from the list and nothing else. *)
LEMMA RangeOfTail ==
    ASSUME NEW S, NEW s \in Seq(S), s # <<>>
    PROVE  /\ Tail(s) \in Seq(S)
           /\ Head(s) \in S
           /\ Range(s) = Range(Tail(s)) \cup {Head(s)}
<1>1. /\ Tail(s) \in Seq(S)
      /\ Head(s) \in S
      /\ Head(s) = s[1]
      /\ Len(s) \in Nat \ {0}
      /\ Len(Tail(s)) = Len(s) - 1
      /\ \A i \in 1..Len(Tail(s)) : Tail(s)[i] = s[i + 1]
  OBVIOUS
<1>2. DOMAIN Tail(s) = 1..(Len(s) - 1) /\ DOMAIN s = 1..Len(s)
  BY <1>1
<1>3. ASSUME NEW i \in 1..Len(s)
      PROVE  s[i] \in Range(Tail(s)) \cup {Head(s)}
  <2>1. CASE i = 1  BY <2>1, <1>1
  <2>2. CASE i # 1
    <3>1. i - 1 \in 1..Len(Tail(s)) /\ Tail(s)[i - 1] = s[i]
      BY <2>2, <1>1
    <3>2. QED  BY <3>1, <1>1, <1>2 DEF Range
  <2>3. QED  BY <2>1, <2>2
<1>4. Range(s) \subseteq Range(Tail(s)) \cup {Head(s)}
  BY <1>2, <1>3 DEF Range
<1>5. ASSUME NEW i \in 1..Len(Tail(s))
      PROVE  Tail(s)[i] \in Range(s)
  <2>1. i + 1 \in 1..Len(s) /\ Tail(s)[i] = s[i + 1]  BY <1>1
  <2>2. QED  BY <2>1, <1>2 DEF Range
<1>6. Range(Tail(s)) \subseteq Range(s)
  BY <1>1, <1>2, <1>5 DEF Range
<1>7. Head(s) \in Range(s)
  BY <1>1, <1>2 DEF Range
<1>8. QED  BY <1>1, <1>4, <1>6, <1>7

(* RPOP of a list without duplicates leaves no copy of the popped task. *)
LEMMA InjectiveTail ==
    ASSUME NEW S, NEW s \in Seq(S), s # <<>>, IsInjective(s)
    PROVE  IsInjective(Tail(s)) /\ Head(s) \notin Range(Tail(s))
<1>1. /\ Head(s) = s[1]
      /\ Len(s) \in Nat \ {0}
      /\ Len(Tail(s)) = Len(s) - 1
      /\ \A i \in 1..Len(Tail(s)) : Tail(s)[i] = s[i + 1]
  OBVIOUS
<1>2. DOMAIN Tail(s) = 1..(Len(s) - 1) /\ DOMAIN s = 1..Len(s)
  BY <1>1
<1>3. ASSUME NEW i \in DOMAIN Tail(s), NEW j \in DOMAIN Tail(s), Tail(s)[i] = Tail(s)[j]
      PROVE  i = j
  <2>1. i + 1 \in DOMAIN s /\ j + 1 \in DOMAIN s /\ s[i + 1] = s[j + 1]
    BY <1>1, <1>2, <1>3
  <2>2. i + 1 = j + 1  BY <2>1 DEF IsInjective
  <2>3. QED  BY <2>2, <1>2
<1>4. ASSUME NEW i \in DOMAIN Tail(s) PROVE Tail(s)[i] # Head(s)
  <2>1. i + 1 \in DOMAIN s /\ 1 \in DOMAIN s /\ i + 1 # 1 /\ Tail(s)[i] = s[i + 1]
    BY <1>1, <1>2
  <2>2. QED  BY <2>1, <1>1 DEF IsInjective
<1>5. QED  BY <1>3, <1>4 DEF IsInjective, Range

-----------------------------------------------------------------------------
(* Types *)

(* A consumer has a task in hand exactly in these places of its loop. *)
Busy == {"post", "remove", "clear", "count", "requeue", "reset", "sleep"}

(* The type of the consumer threads, with the place of their task. *)
ThreadOK ==
    /\ pc \in [Workers -> PCs]
    /\ task \in [Workers -> Tasks \cup {NoTask}]
    /\ tries \in [Workers -> 0..FAIL_TRY_COUNT]
    /\ inCatch \in SUBSET Workers
    /\ \A w \in Workers : pc[w] \in Busy <=> task[w] \in Tasks

(* TypeOK is not inductive: EXPIRE for a thread without a task would type  *)
(* nothing, so that the place of the task has to be known.                 *)
TypeInv == TypeOK /\ ThreadOK

(* The mark for an empty hand is no task. *)
LEMMA NoTaskIsNone == NoTask \notin Tasks
BY DEF NoTask, Tasks

(* A consumer that moves on in its loop keeps its type. *)
LEMMA GotoType ==
    ASSUME ThreadOK, NEW w \in Workers, NEW label \in PCs,
           pc[w] \in Busy <=> label \in Busy, Goto(w, label)
    PROVE  ThreadOK'
BY DEF ThreadOK, Goto

(* A consumer that lets go of its task keeps its type. *)
LEMMA ReleaseType ==
    ASSUME ThreadOK, NEW w \in Workers, NEW label \in PCs \ Busy,
           Release(w, label)
    PROVE  ThreadOK'
BY NoTaskIsNone DEF ThreadOK, Release, FAIL_TRY_COUNT

(* A consumer that throws, into the catch block or to death, keeps its type. *)
LEMMA ThrowType ==
    ASSUME ThreadOK, NEW w \in Workers, pc[w] \in Busy, Throw(w)
    PROVE  ThreadOK'
<1>1. "dead" \in PCs \ Busy /\ "sleep" \in PCs \cap Busy  BY DEF PCs, Busy
<1>2. CASE Release(w, "dead")  BY <1>1, <1>2, ReleaseType
<1>3. CASE ~Release(w, "dead")
  BY <1>1, <1>3 DEF Throw, ThreadOK, FAIL_TRY_COUNT
<1>4. QED  BY <1>2, <1>3

(* A Redis command, failing or not, keeps within the bound on faults. *)
LEMMA RedisCallType ==
    ASSUME faults \in 0..MaxFaults, NEW w, NEW out, RedisCall(w, out)
    PROVE  faults' \in 0..MaxFaults
BY ConstantsAssumption DEF RedisCall, Fault

(* One more acceptance by epark keeps the type of the acceptances. *)
LEMMA AcceptType ==
    ASSUME accepted \in [Tasks -> 0..2], NEW t \in Tasks,
           accepted' = [accepted EXCEPT ![t] = More(@)]
    PROVE  accepted' \in [Tasks -> 0..2]
<1>1. More(accepted[t]) \in 0..2  BY DEF More
<1>2. QED  BY <1>1

(* EXPIRE marks nothing but counters of tasks. *)
LEMMA InvalidateType ==
    ASSUME expiring \in SUBSET Tasks, NEW t \in Tasks, Invalidate(t)
    PROVE  expiring' \in SUBSET Tasks
BY DEF Invalidate

(* INCR keeps the saturating counter within its range. *)
LEMMA CountType ==
    ASSUME failCount \in [Tasks -> 0..FAIL_TRY_COUNT], NEW t \in Tasks,
           failCount' = [failCount EXCEPT ![t] = Increment(@)]
    PROVE  failCount' \in [Tasks -> 0..FAIL_TRY_COUNT]
BY DEF Increment, FAIL_TRY_COUNT

(* The script of fail() keeps the types of both lists. *)
LEMMA MoveBackType ==
    ASSUME wait \in Seq(Tasks), processing \in [Tasks -> Nat], NEW t \in Tasks,
           MoveBack(t)
    PROVE  wait' \in Seq(Tasks) /\ processing' \in [Tasks -> Nat]
<1>1. CASE processing[t] > 0
  <2>1. wait' = Append(wait, t) /\ processing' = [processing EXCEPT ![t] = @ - 1]
    BY <1>1 DEF MoveBack
  <2>2. processing[t] - 1 \in Nat  BY <1>1
  <2>3. Append(wait, t) \in Seq(Tasks)  BY RangeOfAppend
  <2>4. QED  BY <2>1, <2>2, <2>3
<1>2. CASE ~(processing[t] > 0)  BY <1>2 DEF MoveBack
<1>3. QED  BY <1>1, <1>2

(* The empty queue is well typed. *)
LEMMA TypeInit == Init => TypeInv
<1> SUFFICES ASSUME Init PROVE TypeInv
  OBVIOUS
<1>1. TypeOK
  BY ConstantsAssumption
  DEF Init, TypeOK, Tasks, PCs, ClosingStages, FAIL_TRY_COUNT, NoTask
<1>2. ThreadOK
  BY NoTaskIsNone DEF Init, ThreadOK, PCs, Busy, FAIL_TRY_COUNT
<1>3. QED  BY <1>1, <1>2 DEF TypeInv

(* Every variable keeps its type under every step of the system. *)
LEMMA TypeStep == TypeInv /\ [Next]_vars => TypeInv'
<1> SUFFICES ASSUME TypeInv, [Next]_vars PROVE TypeInv'
  OBVIOUS
<1> USE ConstantsAssumption DEF redis, thread, history
<1>a. TypeOK /\ ThreadOK  BY DEF TypeInv
<1>b. ASSUME ThreadOK',
             UNCHANGED <<wait, processing, failCount, expiring, closing,
                         offered, popped, closes>>,
             accepted' \in [Tasks -> 0..2], faults' \in 0..MaxFaults
      PROVE  TypeInv'
  BY <1>a, <1>b DEF TypeInv, TypeOK, ThreadOK
<1>1. CASE UNCHANGED vars
  BY <1>1, <1>a DEF vars, TypeInv, TypeOK, ThreadOK
<1>2. CASE Offer
  <2>1. offered + 1 \in Tasks  BY <1>2, <1>a DEF Offer, Tasks, TypeOK
  <2>2. wait' \in Seq(Tasks)  BY <1>2, <1>a, <2>1, RangeOfAppend DEF Offer, TypeOK
  <2>3. QED  BY <1>2, <1>a, <2>2 DEF Offer, TypeInv, TypeOK, ThreadOK
<1>3. ASSUME NEW t \in Tasks, Expire(t) PROVE TypeInv'
  BY <1>3, <1>a DEF Expire, TypeInv, TypeOK, ThreadOK, FAIL_TRY_COUNT
<1>4. ASSUME NEW w \in Workers, Process(w) PROVE TypeInv'
  <2>a. /\ Busy \subseteq PCs
        /\ {"off", "loop", "take", "dead", "stopped"} \subseteq PCs \ Busy
        /\ Busy = Busy \cup {"post", "remove", "clear", "count", "requeue",
                             "reset", "sleep"}
    BY DEF PCs, Busy
  <2>b. ASSUME NEW label \in PCs, pc[w] \in Busy <=> label \in Busy, Goto(w, label)
        PROVE ThreadOK'
    BY <1>a, <2>b, GotoType
  <2>c. ASSUME NEW label \in PCs \ Busy, Release(w, label) PROVE ThreadOK'
    BY <1>a, <2>c, ReleaseType
  <2>d. ASSUME pc[w] \in Busy, Throw(w) PROVE ThreadOK'
    BY <1>a, <2>d, ThrowType
  <2>e. ASSUME NEW out, RedisCall(w, out) PROVE faults' \in 0..MaxFaults
    BY <1>a, <2>e, RedisCallType DEF TypeOK
  <2>f. pc[w] \in Busy => task[w] \in Tasks  BY <1>a DEF ThreadOK
  <2>g. UNCHANGED <<accepted, faults>> =>
            accepted' \in [Tasks -> 0..2] /\ faults' \in 0..MaxFaults
    BY <1>a DEF TypeOK
  <2>1. CASE Start(w)  BY <2>1, <1>b, <2>a, <2>b, <2>g DEF Start
  <2>2. CASE Loop(w)  BY <2>2, <1>b, <2>a, <2>b, <2>g DEF Loop
  <2>3. CASE TakeNothing(w)  BY <2>3, <1>b, <2>a, <2>b, <2>g DEF TakeNothing
  <2>4. CASE EmptyPoll(w)
    BY <2>4, <1>a DEF EmptyPoll, vars, TypeInv, TypeOK, ThreadOK
  <2>5. CASE Take(w)
    <3>1. wait' \in Seq(Tasks) /\ Head(wait) \in Tasks
      BY <2>5, <1>a, RangeOfTail DEF Take, TypeOK
    <3>2. ThreadOK'
      BY <2>5, <3>1, <1>a, <2>a DEF Take, ThreadOK
    <3>3. faults' \in 0..MaxFaults  BY <2>5, <2>e DEF Take
    <3>4. QED  BY <2>5, <1>a, <3>1, <3>2, <3>3 DEF Take, TypeInv, TypeOK, ThreadOK
  <2>6. CASE TakeError(w)
    <3>1. faults' \in 0..MaxFaults  BY <2>6, <2>e DEF TakeError
    <3>2. QED  BY <2>6, <1>a, <3>1 DEF TakeError, TypeInv, TypeOK, ThreadOK
  <2>7. CASE PostSuccess(w)
    <3>1. accepted' \in [Tasks -> 0..2]
      BY <2>7, <1>a, <2>a, <2>f, AcceptType DEF PostSuccess, TypeOK
    <3>2. QED  BY <2>7, <3>1, <1>b, <2>a, <2>b, <1>a DEF PostSuccess, TypeOK
  <2>8. CASE PostRefused(w)  BY <2>8, <1>b, <2>a, <2>b, <2>g DEF PostRefused
  <2>9. CASE PostError(w)  BY <2>9, <1>b, <2>a, <2>d, <2>g DEF PostError
  <2>10. CASE PostLost(w)
    <3>1. accepted' \in [Tasks -> 0..2]
      BY <2>10, <1>a, <2>a, <2>f, AcceptType DEF PostLost, TypeOK
    <3>2. faults' \in 0..MaxFaults  BY <2>10, <1>a DEF PostLost, Fault, TypeOK
    <3>3. QED  BY <2>10, <3>1, <3>2, <1>b, <2>a, <2>d DEF PostLost
  <2>11. CASE Remove(w)
    <3>1. ThreadOK' /\ faults' \in 0..MaxFaults
      BY <2>11, <2>a, <2>b, <2>d, <2>e DEF Remove
    <3>2. processing' \in [Tasks -> Nat]  BY <2>11, <1>a DEF Remove, TypeOK
    <3>3. QED  BY <2>11, <1>a, <3>1, <3>2 DEF Remove, TypeInv, TypeOK, ThreadOK
  <2>12. CASE Clear(w)
    <3>1. ThreadOK' /\ faults' \in 0..MaxFaults
      BY <2>12, <2>a, <2>c, <2>d, <2>e DEF Clear
    <3>2. expiring' \in SUBSET Tasks
      BY <2>12, <1>a, <2>a, <2>f, InvalidateType DEF Clear, TypeOK
    <3>3. QED  BY <2>12, <1>a, <3>1, <3>2 DEF Clear, TypeInv, TypeOK, ThreadOK
  <2>13. CASE Wake(w)  BY <2>13, <1>b, <2>a, <2>b, <2>g DEF Wake
  <2>14. CASE Count(w)
    <3>1. faults' \in 0..MaxFaults  BY <2>14, <2>e DEF Count
    <3>2. failCount' \in [Tasks -> 0..FAIL_TRY_COUNT]
      BY <2>14, <1>a, <2>a, <2>f, CountType DEF Count, TypeOK
    <3>3. failCount'[task[w]] \in 0..FAIL_TRY_COUNT
      BY <2>14, <2>a, <2>f, <3>2 DEF Count
    <3>4. CASE Throw(w)
      <4>1. ThreadOK'  BY <2>14, <3>4, <2>a, <2>d DEF Count
      <4>2. QED  BY <2>14, <1>a, <3>1, <3>2, <4>1 DEF Count, TypeInv, TypeOK, ThreadOK
    <3>5. CASE ~Throw(w)
      <4>1. ThreadOK'  BY <2>14, <3>5, <1>a, <2>a, <3>3 DEF Count, ThreadOK
      <4>2. QED  BY <2>14, <1>a, <3>1, <3>2, <4>1 DEF Count, TypeInv, TypeOK, ThreadOK
    <3>6. QED  BY <3>4, <3>5
  <2>15. CASE Requeue(w)
    <3>1. ThreadOK' /\ faults' \in 0..MaxFaults
      BY <2>15, <2>a, <2>b, <2>c, <2>d, <2>e DEF Requeue
    <3>2. wait' \in Seq(Tasks) /\ processing' \in [Tasks -> Nat]
      BY <2>15, <1>a, <2>a, <2>f, MoveBackType DEF Requeue, TypeOK
    <3>3. QED  BY <2>15, <1>a, <3>1, <3>2 DEF Requeue, TypeInv, TypeOK, ThreadOK
  <2>16. CASE Reset(w)
    <3>1. ThreadOK' /\ faults' \in 0..MaxFaults
      BY <2>16, <2>a, <2>c, <2>d, <2>e DEF Reset
    <3>2. expiring' \in SUBSET Tasks
      BY <2>16, <1>a, <2>a, <2>f, InvalidateType DEF Reset, TypeOK
    <3>3. QED  BY <2>16, <1>a, <3>1, <3>2 DEF Reset, TypeInv, TypeOK, ThreadOK
  <2>17. CASE MarkStop(w)
    BY <2>17, <1>a DEF MarkStop, TypeInv, TypeOK, ThreadOK, ClosingStages
  <2>18. CASE MarkQueueStop(w)
    BY <2>18, <1>a DEF MarkQueueStop, TypeInv, TypeOK, ThreadOK, ClosingStages
  <2>19. CASE DestroyPool(w)
    BY <2>19, <1>a DEF DestroyPool, TypeInv, TypeOK, ThreadOK, ClosingStages
  <2>20. CASE Crash(w)
    <3>1. ThreadOK'  BY <2>20, <2>a, <2>c DEF Crash
    <3>2. faults' \in 0..MaxFaults  BY <2>20, <1>a DEF Crash, Fault, TypeOK
    <3>3. QED
      BY <2>20, <1>a, <3>1, <3>2 DEF Crash, TypeInv, TypeOK, ThreadOK, ClosingStages
  <2>21. CASE Exit(w)
    <3>1. ThreadOK'  BY <2>21, <2>a, <2>b DEF Exit
    <3>2. QED
      BY <2>21, <1>a, <3>1 DEF Exit, TypeInv, TypeOK, ThreadOK, ClosingStages
  <2>22. QED
    BY <1>4, <2>1, <2>2, <2>3, <2>4, <2>5, <2>6, <2>7, <2>8, <2>9, <2>10, <2>11,
       <2>12, <2>13, <2>14, <2>15, <2>16, <2>17, <2>18, <2>19, <2>20, <2>21
    DEF Process, Step
<1>5. QED  BY <1>1, <1>2, <1>3, <1>4 DEF Next

(* Every variable of the queue keeps its type in every behaviour. *)
THEOREM TypeCorrect == Spec => []TypeOK
<1>1. TypeInv => TypeOK  BY DEF TypeInv
<1>2. QED  BY <1>1, TypeInit, TypeStep, PTL DEF Spec

-----------------------------------------------------------------------------
(* What a step does to the lists, to epark and to the task in hand *)

(* The five things that can happen to the two lists. *)
ListStep ==
    \/ UNCHANGED <<wait, processing, offered>>
    \/ /\ offered < MaxTasks
       /\ offered' = offered + 1
       /\ wait' = Append(wait, offered + 1)
       /\ UNCHANGED processing
    \/ /\ wait # <<>>
       /\ wait' = Tail(wait)
       /\ processing' = [processing EXCEPT ![Head(wait)] = @ + 1]
       /\ UNCHANGED offered
    \/ \E w \in Workers : /\ pc[w] = "remove"
                          /\ processing' = [processing EXCEPT ![task[w]] = 0]
                          /\ UNCHANGED <<wait, offered>>
    \/ \E w \in Workers : /\ pc[w] = "requeue"
                          /\ MoveBack(task[w])
                          /\ UNCHANGED offered

(* Every step of the system treats the two lists in one of these ways. *)
LEMMA ListSteps == [Next]_vars => ListStep
<1> SUFFICES ASSUME [Next]_vars PROVE ListStep
  OBVIOUS
<1> USE DEF ListStep, redis, history
<1>1. CASE UNCHANGED vars  BY <1>1 DEF vars
<1>2. CASE Offer  BY <1>2 DEF Offer
<1>3. ASSUME NEW t \in Tasks, Expire(t) PROVE ListStep
  BY <1>3 DEF Expire
<1>4. ASSUME NEW w \in Workers, Process(w) PROVE ListStep
  <2>1. CASE Take(w)  BY <2>1 DEF Take
  <2>2. CASE Remove(w)  BY <2>2 DEF Remove
  <2>3. CASE Requeue(w)  BY <2>3 DEF Requeue
  <2>4. CASE ~(Take(w) \/ Remove(w) \/ Requeue(w))
    <3>1. UNCHANGED <<wait, processing, offered>>
      BY <1>4, <2>4
      DEF Process, Step, Start, Loop, TakeNothing, EmptyPoll, TakeError,
          PostSuccess, PostRefused, PostError, PostLost, Clear, Wake, Count,
          Reset, MarkStop, MarkQueueStop, DestroyPool, Crash, Exit, vars
    <3>2. QED  BY <3>1
  <2>5. QED  BY <2>1, <2>2, <2>3, <2>4
<1>5. QED  BY <1>1, <1>2, <1>3, <1>4 DEF Next

(* Epark takes a task only out of the hand of a consumer that posts it. *)
AcceptStep ==
    \/ UNCHANGED accepted
    \/ \E w \in Workers :
          /\ pc[w] = "post"
          /\ accepted' = [accepted EXCEPT ![task[w]] = More(@)]
          /\ UNCHANGED <<wait, processing, offered>>

(* Every step of the system treats the acceptances in one of these ways. *)
LEMMA AcceptSteps == [Next]_vars => AcceptStep
<1> SUFFICES ASSUME [Next]_vars PROVE AcceptStep
  OBVIOUS
<1> USE DEF AcceptStep, redis, history
<1>1. CASE UNCHANGED vars  BY <1>1 DEF vars
<1>2. CASE Offer  BY <1>2 DEF Offer
<1>3. ASSUME NEW t \in Tasks, Expire(t) PROVE AcceptStep
  BY <1>3 DEF Expire
<1>4. ASSUME NEW w \in Workers, Process(w) PROVE AcceptStep
  <2>1. CASE PostSuccess(w)  BY <2>1 DEF PostSuccess
  <2>2. CASE PostLost(w)  BY <2>2 DEF PostLost
  <2>3. CASE ~(PostSuccess(w) \/ PostLost(w))
    <3>1. UNCHANGED accepted
      BY <1>4, <2>3
      DEF Process, Step, Start, Loop, TakeNothing, EmptyPoll, Take, TakeError,
          PostRefused, PostError, Remove, Clear, Wake, Count, Requeue,
          Reset, MarkStop, MarkQueueStop, DestroyPool, Crash, Exit, vars
    <3>2. QED  BY <3>1
  <2>4. QED  BY <2>1, <2>2, <2>3
<1>5. QED  BY <1>1, <1>2, <1>3, <1>4 DEF Next

(* A consumer gets its task from the head of the wait list, and comes to   *)
(* the removal only after epark has taken that task.                       *)
HandStep(w) ==
    /\ \/ task'[w] = task[w]
       \/ task'[w] = NoTask
       \/ wait # <<>> /\ task'[w] = Head(wait)
    /\ pc'[w] \in {"remove", "clear"} =>
          /\ task'[w] = task[w]
          /\ \/ pc[w] \in {"remove", "clear"}
             \/ /\ pc[w] = "post"
                /\ accepted' = [accepted EXCEPT ![task[w]] = More(@)]

(* Every step treats the task in the hand of a consumer in this way. *)
LEMMA HandSteps ==
    ASSUME TypeInv, [Next]_vars, NEW v \in Workers
    PROVE  HandStep(v)
<1> USE DEF HandStep, redis, thread, history
<1>a. pc \in [Workers -> PCs] /\ task \in [Workers -> Tasks \cup {NoTask}]
  BY DEF TypeInv, TypeOK
<1>1. CASE UNCHANGED thread  BY <1>1
<1>2. CASE Offer  BY <1>1, <1>2 DEF Offer
<1>3. ASSUME NEW t \in Tasks, Expire(t) PROVE HandStep(v)
  BY <1>1, <1>3 DEF Expire
<1>4. ASSUME NEW w \in Workers, Process(w) PROVE HandStep(v)
  <2>a. ASSUME NEW label, label \notin {"remove", "clear"},
               Goto(w, label) \/ Release(w, label)
        PROVE  HandStep(v)
    BY <1>a, <2>a DEF Goto, Release
  <2>b. ASSUME Throw(w) PROVE HandStep(v)
    <3>1. CASE Release(w, "dead")  BY <2>a, <3>1
    <3>2. CASE ~Release(w, "dead")  BY <1>a, <2>b, <3>2 DEF Throw
    <3>3. QED  BY <3>1, <3>2
  <2>1. CASE Start(w)  BY <2>1, <2>a DEF Start
  <2>2. CASE Loop(w)  BY <2>2, <2>a DEF Loop
  <2>3. CASE TakeNothing(w)  BY <2>3, <2>a DEF TakeNothing
  <2>4. CASE EmptyPoll(w)  BY <2>4, <1>1 DEF EmptyPoll, vars
  <2>5. CASE Take(w)  BY <2>5, <1>1, <1>a DEF Take
  <2>6. CASE TakeError(w)  BY <2>6, <1>1 DEF TakeError
  <2>7. CASE PostSuccess(w)  BY <2>7, <1>a DEF PostSuccess, Goto
  <2>8. CASE PostRefused(w)  BY <2>8, <2>a DEF PostRefused
  <2>9. CASE PostError(w)  BY <2>9, <2>b DEF PostError
  <2>10. CASE PostLost(w)  BY <2>10, <2>b DEF PostLost
  <2>11. CASE Remove(w)
    <3>1. CASE Goto(w, "clear")  BY <2>11, <3>1, <1>a DEF Remove, Goto
    <3>2. CASE ~Goto(w, "clear")  BY <2>11, <3>2, <2>b DEF Remove
    <3>3. QED  BY <3>1, <3>2
  <2>12. CASE Clear(w)  BY <2>12, <2>a, <2>b DEF Clear
  <2>13. CASE Wake(w)  BY <2>13, <2>a DEF Wake
  <2>14. CASE Count(w)
    <3>1. CASE Throw(w)  BY <3>1, <2>b
    <3>2. CASE ~Throw(w)  BY <2>14, <3>2, <1>a DEF Count
    <3>3. QED  BY <3>1, <3>2
  <2>15. CASE Requeue(w)  BY <2>15, <2>a, <2>b DEF Requeue
  <2>16. CASE Reset(w)  BY <2>16, <2>a, <2>b DEF Reset
  <2>17. CASE MarkStop(w)  BY <2>17, <1>1 DEF MarkStop
  <2>18. CASE MarkQueueStop(w)  BY <2>18, <1>1 DEF MarkQueueStop
  <2>19. CASE DestroyPool(w)  BY <2>19, <1>1 DEF DestroyPool
  <2>20. CASE Crash(w)  BY <2>20, <2>a DEF Crash
  <2>21. CASE Exit(w)  BY <2>21, <2>a DEF Exit
  <2>22. QED
    BY <1>4, <2>1, <2>2, <2>3, <2>4, <2>5, <2>6, <2>7, <2>8, <2>9, <2>10, <2>11,
       <2>12, <2>13, <2>14, <2>15, <2>16, <2>17, <2>18, <2>19, <2>20, <2>21
    DEF Process, Step
<1>5. CASE UNCHANGED vars  BY <1>1, <1>5 DEF vars
<1>6. QED  BY <1>2, <1>3, <1>4, <1>5 DEF Next

-----------------------------------------------------------------------------
(* One copy of each task, and none lost *)

(* What is in a list or in a hand, or was taken by epark, has been offered. *)
Arrived ==
    /\ \A t \in Tasks : Listed(t) \/ accepted[t] > 0 => t <= offered
    /\ \A w \in Workers : task[w] <= offered

(* A consumer that removes its task does so after epark has taken it. *)
Earned ==
    \A w \in Workers : pc[w] \in {"remove", "clear"} => accepted[task[w]] > 0

(* SingleCopy needs Arrived, or an offered task might be listed already;   *)
(* NotLost needs Earned, or a removal might come too early.                *)
LifeInv == TypeInv /\ SingleCopy /\ Arrived /\ Earned /\ NotLost

(* LPUSH and RPOP in terms of the tasks that wait. *)
LEMMA WaitingAfterPush ==
    ASSUME TypeInv, NEW x \in Tasks, wait' = Append(wait, x), NEW t \in Tasks
    PROVE  Waiting(t)' <=> Waiting(t) \/ t = x
<1>1. wait \in Seq(Tasks)  BY DEF TypeInv, TypeOK
<1>2. Range(wait') = Range(wait) \cup {x}  BY <1>1, RangeOfAppend
<1>3. QED  BY <1>2 DEF Waiting

(* RPOP in terms of the tasks that wait. *)
LEMMA WaitingAfterPop ==
    ASSUME TypeInv, SingleCopy, wait # <<>>, wait' = Tail(wait), NEW t \in Tasks
    PROVE  /\ Head(wait) \in Tasks
           /\ Waiting(Head(wait))
           /\ Waiting(t)' <=> Waiting(t) /\ t # Head(wait)
<1>1. wait \in Seq(Tasks) /\ IsInjective(wait)
  BY DEF TypeInv, TypeOK, SingleCopy
<1>2. /\ Head(wait) \in Tasks
      /\ Range(wait) = Range(wait') \cup {Head(wait)}
      /\ Head(wait) \notin Range(wait')
  BY <1>1, RangeOfTail, InjectiveTail
<1>3. QED  BY <1>2 DEF Waiting

(* A task comes to the lists when it is offered, leaves them when a        *)
(* consumer that has it in hand removes it, and never gets a second copy.  *)
ListedStep ==
    /\ SingleCopy'
    /\ \/ /\ offered' = offered
          /\ \A t \in Tasks : Listed(t)' <=> Listed(t)
       \/ /\ offered' = offered + 1
          /\ offered + 1 \in Tasks
          /\ \A t \in Tasks : Listed(t)' <=> Listed(t) \/ t = offered + 1
       \/ \E w \in Workers :
             /\ pc[w] = "remove"
             /\ offered' = offered
             /\ \A t \in Tasks : Listed(t)' <=> Listed(t) /\ t # task[w]

(* From a state with single copies a step lists or unlists at most one task. *)
LEMMA ListedSteps ==
    ASSUME TypeInv, SingleCopy, Arrived, [Next]_vars
    PROVE  ListedStep
<1>a. /\ wait \in Seq(Tasks) /\ IsInjective(wait)
      /\ processing \in [Tasks -> Nat]
      /\ offered \in 0..MaxTasks /\ MaxTasks \in Nat
      /\ \A t \in Tasks : processing[t] <= 1 /\ (Waiting(t) => processing[t] = 0)
      /\ \A t \in Tasks : Waiting(t) \/ processing[t] > 0 => t <= offered
      /\ \A w \in Workers : pc[w] \in Busy => task[w] \in Tasks
  BY ConstantsAssumption DEF TypeInv, TypeOK, ThreadOK, SingleCopy, Arrived, Listed
<1>b. ListStep  BY ListSteps
<1>1. CASE UNCHANGED <<wait, processing, offered>>
  <2>1. \A t \in Tasks : (Waiting(t)' <=> Waiting(t)) /\ (Listed(t)' <=> Listed(t))
    BY <1>1 DEF Waiting, Listed
  <2>2. SingleCopy'  BY <1>1, <2>1, <1>a DEF SingleCopy
  <2>3. QED  BY <1>1, <2>1, <2>2, <1>a DEF ListedStep
<1>2. CASE /\ offered < MaxTasks
           /\ offered' = offered + 1
           /\ wait' = Append(wait, offered + 1)
           /\ UNCHANGED processing
  <2>1. offered + 1 \in Tasks /\ ~Waiting(offered + 1) /\ processing[offered + 1] = 0
    BY <1>2, <1>a DEF Tasks
  <2>2. \A t \in Tasks : Waiting(t)' <=> Waiting(t) \/ t = offered + 1
    BY <1>2, <2>1, WaitingAfterPush
  <2>3. IsInjective(wait')
    BY <1>2, <1>a, <2>1, InjectiveAppend DEF Waiting
  <2>4. SingleCopy'  BY <1>2, <1>a, <2>1, <2>2, <2>3 DEF SingleCopy
  <2>5. \A t \in Tasks : Listed(t)' <=> Listed(t) \/ t = offered + 1
    BY <1>2, <2>2 DEF Listed
  <2>6. QED  BY <1>2, <2>1, <2>4, <2>5 DEF ListedStep
<1>3. CASE /\ wait # <<>>
           /\ wait' = Tail(wait)
           /\ processing' = [processing EXCEPT ![Head(wait)] = @ + 1]
           /\ UNCHANGED offered
  <2>a. Head(wait) \in Tasks  BY <1>3, <1>a, RangeOfTail
  <2>1. /\ Head(wait) \in Tasks /\ Waiting(Head(wait))
        /\ \A t \in Tasks : Waiting(t)' <=> Waiting(t) /\ t # Head(wait)
    BY <1>3, <2>a, WaitingAfterPop
  <2>2. IsInjective(wait')  BY <1>3, <1>a, InjectiveTail
  <2>3. \A t \in Tasks : processing'[t] = IF t = Head(wait) THEN 1 ELSE processing[t]
    BY <1>3, <1>a, <2>1
  <2>4. SingleCopy'  BY <1>a, <2>1, <2>2, <2>3 DEF SingleCopy
  <2>5. \A t \in Tasks : Listed(t)' <=> Listed(t)
    BY <2>1, <2>3 DEF Listed
  <2>6. QED  BY <1>3, <1>a, <2>4, <2>5 DEF ListedStep
<1>4. ASSUME NEW w \in Workers, pc[w] = "remove",
             processing' = [processing EXCEPT ![task[w]] = 0],
             UNCHANGED <<wait, offered>>
      PROVE  ListedStep
  <2>1. task[w] \in Tasks  BY <1>4, <1>a DEF Busy
  <2>2. \A t \in Tasks : /\ Waiting(t)' <=> Waiting(t)
                         /\ processing'[t] = IF t = task[w] THEN 0 ELSE processing[t]
    BY <1>4, <1>a DEF Waiting
  <2>3. SingleCopy'  BY <1>4, <1>a, <2>2 DEF SingleCopy
  <2>4. CASE Waiting(task[w])
    <3>1. \A t \in Tasks : Listed(t)' <=> Listed(t)
      BY <1>a, <2>2, <2>4 DEF Listed
    <3>2. QED  BY <1>4, <2>3, <3>1 DEF ListedStep
  <2>5. CASE ~Waiting(task[w])
    <3>1. \A t \in Tasks : Listed(t)' <=> Listed(t) /\ t # task[w]
      BY <1>a, <2>2, <2>5 DEF Listed
    <3>2. QED  BY <1>4, <2>3, <3>1 DEF ListedStep
  <2>6. QED  BY <2>4, <2>5
<1>5. ASSUME NEW w \in Workers, pc[w] = "requeue", MoveBack(task[w]),
             UNCHANGED offered
      PROVE  ListedStep
  <2>1. task[w] \in Tasks  BY <1>5, <1>a DEF Busy
  <2>2. CASE processing[task[w]] > 0
    <3>1. /\ processing' = [processing EXCEPT ![task[w]] = @ - 1]
          /\ wait' = Append(wait, task[w])
      BY <1>5, <2>2 DEF MoveBack
    <3>2. \A t \in Tasks : Waiting(t)' <=> Waiting(t) \/ t = task[w]
      BY <3>1, <2>1, WaitingAfterPush
    <3>3. ~Waiting(task[w]) /\ processing[task[w]] = 1
      BY <1>a, <2>1, <2>2
    <3>4. \A t \in Tasks :
             processing'[t] = IF t = task[w] THEN 0 ELSE processing[t]
      BY <1>a, <2>1, <3>1, <3>3
    <3>5. IsInjective(wait')
      BY <1>a, <2>1, <3>1, <3>3, InjectiveAppend DEF Waiting
    <3>6. SingleCopy'  BY <1>a, <3>2, <3>4, <3>5 DEF SingleCopy
    <3>7. \A t \in Tasks : Listed(t)' <=> Listed(t)
      BY <1>a, <2>1, <3>2, <3>3, <3>4 DEF Listed
    <3>8. QED  BY <1>5, <1>a, <3>6, <3>7 DEF ListedStep
  <2>3. CASE ~(processing[task[w]] > 0)
    BY <1>1, <1>5, <2>3 DEF MoveBack
  <2>4. QED  BY <2>2, <2>3
<1>6. QED  BY <1>b, <1>1, <1>2, <1>3, <1>4, <1>5 DEF ListStep

(* The empty queue satisfies the invariant on the life of tasks. *)
LEMMA LifeInit == Init => LifeInv
<1> SUFFICES ASSUME Init PROVE LifeInv
  OBVIOUS
<1>1. TypeInv  BY TypeInit
<1>2. wait = <<>> /\ Range(wait) = {} /\ DOMAIN wait = {}
  BY DEF Init, Range
<1>3. \A t \in Tasks : ~Waiting(t) /\ processing[t] = 0
  BY <1>2 DEF Init, Waiting
<1>4. SingleCopy  BY <1>2, <1>3 DEF SingleCopy, IsInjective
<1>5. Arrived  BY <1>3 DEF Arrived, Listed, Init, NoTask
<1>6. Earned  BY DEF Earned, Init
<1>7. NotLost  BY DEF NotLost, Init
<1>8. QED  BY <1>1, <1>4, <1>5, <1>6, <1>7 DEF LifeInv

(* Every step keeps the invariant on the life of tasks. *)
LEMMA LifeStep == LifeInv /\ [Next]_vars => LifeInv'
<1> SUFFICES ASSUME LifeInv, [Next]_vars PROVE LifeInv'
  OBVIOUS
<1>a. TypeInv /\ SingleCopy /\ Arrived /\ Earned /\ NotLost  BY DEF LifeInv
<1>b. TypeInv'  BY <1>a, TypeStep
<1>c. ListedStep  BY <1>a, ListedSteps
<1>d. AcceptStep  BY AcceptSteps
<1>e. \A w \in Workers : HandStep(w)  BY <1>a, HandSteps
<1>f. /\ offered \in 0..MaxTasks /\ MaxTasks \in Nat
      /\ accepted \in [Tasks -> 0..2]
      /\ task \in [Workers -> Tasks \cup {NoTask}]
      /\ \A w \in Workers : pc[w] \in Busy => task[w] \in Tasks
  BY <1>a, ConstantsAssumption DEF TypeInv, TypeOK, ThreadOK
<1>1. Arrived'
  <2>1. ASSUME NEW t \in Tasks, Listed(t)' \/ accepted'[t] > 0
        PROVE  t <= offered'
    <3>1. CASE Listed(t)'
      BY <1>a, <1>c, <1>f, <3>1 DEF ListedStep, Arrived, Tasks
    <3>2. CASE accepted'[t] > 0
      <4>1. accepted[t] > 0 \/ \E w \in Workers : task[w] = t
        BY <1>d, <1>f, <3>2 DEF AcceptStep
      <4>2. t <= offered  BY <1>a, <4>1 DEF Arrived
      <4>3. QED  BY <1>c, <1>f, <4>2 DEF ListedStep, Tasks
    <3>3. QED  BY <2>1, <3>1, <3>2
  <2>2. ASSUME NEW w \in Workers PROVE task'[w] <= offered'
    <3>1. CASE task'[w] = task[w]
      BY <1>a, <1>c, <1>f, <3>1 DEF Arrived, ListedStep, Tasks, NoTask
    <3>2. CASE task'[w] = NoTask
      BY <1>c, <1>f, <3>2 DEF ListedStep, NoTask
    <3>3. CASE wait # <<>> /\ task'[w] = Head(wait)
      <4>1. wait \in Seq(Tasks)  BY <1>a DEF TypeInv, TypeOK
      <4>2. Head(wait) \in Tasks /\ Waiting(Head(wait))
        BY <3>3, <4>1, RangeOfTail DEF Waiting
      <4>3. Head(wait) <= offered  BY <1>a, <4>2 DEF Arrived, Listed
      <4>4. QED  BY <1>c, <1>f, <3>3, <4>2, <4>3 DEF ListedStep, Tasks
    <3>4. QED  BY <1>e, <3>1, <3>2, <3>3 DEF HandStep
  <2>3. QED  BY <2>1, <2>2 DEF Arrived
<1>2. ASSUME NEW t \in Tasks, accepted[t] > 0 PROVE accepted'[t] > 0
  BY <1>2, <1>d, <1>f DEF AcceptStep, More
<1>3. Earned'
  <2> SUFFICES ASSUME NEW w \in Workers, pc'[w] \in {"remove", "clear"}
               PROVE  accepted'[task'[w]] > 0
    BY DEF Earned
  <2>1. task'[w] = task[w]  BY <1>e DEF HandStep
  <2>2. CASE pc[w] \in {"remove", "clear"}
    BY <1>2, <1>a, <1>f, <2>1, <2>2 DEF Earned, Busy
  <2>3. CASE pc[w] = "post" /\ accepted' = [accepted EXCEPT ![task[w]] = More(@)]
    BY <1>f, <2>1, <2>3 DEF Busy, More
  <2>4. QED  BY <1>e, <2>2, <2>3 DEF HandStep
<1>4. NotLost'
  <2> SUFFICES ASSUME NEW t \in 1..offered'
               PROVE  Listed(t)' \/ accepted'[t] > 0
    BY DEF NotLost
  <2>1. t \in Tasks  BY <1>b, <1>f DEF TypeInv, TypeOK, Tasks
  <2>2. CASE t > offered
    BY <1>c, <1>f, <2>1, <2>2 DEF ListedStep, Tasks
  <2>3. CASE ~(t > offered)
    <3>1. t \in 1..offered  BY <1>f, <2>1, <2>3 DEF Tasks
    <3>2. CASE accepted[t] > 0  BY <1>2, <2>1, <3>2
    <3>3. CASE Listed(t) /\ ~Listed(t)'
      <4>1. \E w \in Workers : pc[w] = "remove" /\ task[w] = t
        BY <1>c, <2>1, <3>3 DEF ListedStep
      <4>2. accepted[t] > 0  BY <1>a, <4>1 DEF Earned
      <4>3. QED  BY <1>2, <2>1, <4>2
    <3>4. QED  BY <1>a, <3>1, <3>2, <3>3 DEF NotLost
  <2>4. QED  BY <2>2, <2>3
<1>5. QED  BY <1>b, <1>c, <1>1, <1>3, <1>4 DEF LifeInv, ListedStep

(* The invariant on the life of tasks holds in every behaviour. *)
LEMMA LifeInvariant == Spec => []LifeInv
<1>1. QED  BY LifeInit, LifeStep, PTL DEF Spec

(* However posts, retries, crashes and lost answers of any number of       *)
(* processes interleave, Redis holds at most one copy of a task.           *)
THEOREM SingleCopyHolds == Spec => []SingleCopy
<1>1. LifeInv => SingleCopy  BY DEF LifeInv
<1>2. QED  BY <1>1, LifeInvariant, PTL

(* Whatever fails, an offered task stays listed until epark has taken it. *)
THEOREM NotLostHolds == Spec => []NotLost
<1>1. LifeInv => NotLost  BY DEF LifeInv
<1>2. QED  BY <1>1, LifeInvariant, PTL

-----------------------------------------------------------------------------
(* The queue implements at-least-once delivery *)

(* The empty queue maps to the initial state of TaskDelivery. *)
LEMMA DeliveryInit == Init => Delivery!Init
<1> SUFFICES ASSUME Init PROVE Delivery!Init
  OBVIOUS
<1>1. offered = 0 /\ accepted = [t \in Tasks |-> 0]  BY DEF Init
<1>2. \A t \in Tasks : t > 0  BY DEF Tasks
<1>3. status = [t \in Tasks |-> "new"]  BY <1>1, <1>2 DEF status
<1>4. QED  BY <1>1, <1>3 DEF Delivery!Init

(* Every step of the queue submits, accepts or retires one task, or changes *)
(* nothing that TaskDelivery speaks of.                                     *)
LEMMA DeliveryStep == LifeInv /\ [Next]_vars => [Delivery!Next]_(Delivery!vars)
<1> SUFFICES ASSUME LifeInv, [Next]_vars
             PROVE  [Delivery!Next]_(Delivery!vars)
  OBVIOUS
<1> DEFINE Place(t) == IF t > offered THEN "new"
                       ELSE IF Listed(t) THEN "pending" ELSE "done"
<1>a. TypeInv /\ SingleCopy /\ Arrived /\ Earned /\ NotLost  BY DEF LifeInv
<1>b. ListedStep  BY <1>a, ListedSteps
<1>c. AcceptStep  BY AcceptSteps
<1>d. /\ offered \in 0..MaxTasks /\ MaxTasks \in Nat
      /\ accepted \in [Tasks -> 0..2]
      /\ \A w \in Workers : pc[w] \in Busy => task[w] \in Tasks
      /\ \A w \in Workers : task[w] <= offered
      /\ \A t \in Tasks : Listed(t) => t <= offered
  BY <1>a, ConstantsAssumption DEF TypeInv, TypeOK, ThreadOK, Arrived
<1>e. status = [t \in Tasks |-> Place(t)] /\ status' = [t \in Tasks |-> Place(t)']
  BY DEF status
<1> HIDE DEF Place
<1>1. CASE ~UNCHANGED accepted
  <2>1. PICK w \in Workers : /\ pc[w] = "post"
                             /\ accepted' = [accepted EXCEPT ![task[w]] = More(@)]
                             /\ UNCHANGED <<wait, processing, offered>>
    BY <1>1, <1>c DEF AcceptStep
  <2>2. task[w] \in Tasks /\ task[w] <= offered  BY <1>d, <2>1 DEF Busy
  <2>3. \A t \in Tasks : Place(t)' = Place(t)
    BY <2>1 DEF Place, Listed, Waiting
  <2>4. status' = status  BY <1>e, <2>3
  <2>5. status[task[w]] # "new"
    BY <1>e, <1>d, <2>2 DEF Place, Tasks
  <2>6. accepted' = [accepted EXCEPT ![task[w]] = Delivery!More(@)]
    BY <2>1 DEF More, Delivery!More
  <2>7. Delivery!Accept(task[w])
    BY <2>4, <2>5, <2>6 DEF Delivery!Accept
  <2>8. QED  BY <2>2, <2>7 DEF Delivery!Next
<1>2. CASE UNCHANGED accepted
  <2>1. CASE /\ offered' = offered
             /\ \A t \in Tasks : Listed(t)' <=> Listed(t)
    <3>1. \A t \in Tasks : Place(t)' = Place(t)  BY <2>1 DEF Place
    <3>2. status' = status  BY <1>e, <3>1
    <3>3. QED  BY <1>2, <3>2 DEF Delivery!vars
  <2>2. CASE /\ offered' = offered + 1
             /\ offered + 1 \in Tasks
             /\ \A t \in Tasks : Listed(t)' <=> Listed(t) \/ t = offered + 1
    <3>1. \A t \in Tasks :
             Place(t)' = IF t = offered + 1 THEN "pending" ELSE Place(t)
      BY <1>d, <2>2 DEF Place, Tasks
    <3>2. status[offered + 1] = "new"
      BY <1>d, <1>e, <2>2 DEF Place
    <3>3. status' = [status EXCEPT ![offered + 1] = "pending"]
      BY <1>e, <2>2, <3>1
    <3>4. Delivery!Submit(offered + 1)
      BY <1>2, <3>2, <3>3 DEF Delivery!Submit
    <3>5. QED  BY <2>2, <3>4 DEF Delivery!Next
  <2>3. ASSUME NEW w \in Workers,
               pc[w] = "remove",
               offered' = offered,
               \A t \in Tasks : Listed(t)' <=> Listed(t) /\ t # task[w]
        PROVE  [Delivery!Next]_(Delivery!vars)
    <3>1. task[w] \in Tasks /\ task[w] <= offered  BY <1>d, <2>3 DEF Busy
    <3>2. accepted[task[w]] > 0  BY <1>a, <2>3 DEF Earned
    <3>3. CASE Listed(task[w])
      <4>1. \A t \in Tasks : Place(t)' = IF t = task[w] THEN "done" ELSE Place(t)
        BY <1>d, <2>3, <3>1 DEF Place, Tasks
      <4>2. status[task[w]] = "pending"
        BY <1>d, <1>e, <3>1, <3>3 DEF Place, Tasks
      <4>3. status' = [status EXCEPT ![task[w]] = "done"]
        BY <1>e, <3>1, <4>1
      <4>4. Delivery!Retire(task[w])
        BY <1>2, <3>2, <4>2, <4>3 DEF Delivery!Retire
      <4>5. QED  BY <3>1, <4>4 DEF Delivery!Next
    <3>4. CASE ~Listed(task[w])
      <4>1. \A t \in Tasks : Listed(t)' <=> Listed(t)
        BY <2>3, <3>4
      <4>2. QED  BY <2>1, <2>3, <4>1
    <3>5. QED  BY <3>3, <3>4
  <2>4. QED  BY <1>b, <2>1, <2>2, <2>3 DEF ListedStep
<1>3. QED  BY <1>1, <1>2

(* Under every fault modelled the queue keeps the promise of TaskDelivery: *)
(* a task is forgotten only after epark has taken it at least once.        *)
THEOREM QueueImplementsDelivery == Spec => ImplementsDelivery
<1>1. QED
  BY DeliveryInit, DeliveryStep, LifeInvariant, PTL
  DEF Spec, ImplementsDelivery, Delivery!Spec

-----------------------------------------------------------------------------
(* Exclusive work and single acceptance while nothing has failed *)

(* What has to hold of the lists, the owners and epark for a fault-free    *)
(* behaviour to stay free of duplicates: an owner's entry is listed, so    *)
(* that no one else can pop it, and what epark has taken is owned by none  *)
(* but the consumer about to remove it.                                    *)
Sole ==
    \A t \in Tasks :
        /\ \A w \in Workers : Owns(w, t) => processing[t] > 0
        /\ \A v, w \in Workers : Owns(v, t) /\ Owns(w, t) => v = w
        /\ accepted[t] > 0 =>
              /\ accepted[t] = 1
              /\ ~Waiting(t)
              /\ \A w \in Workers : Owns(w, t) => pc[w] = "remove"

SoleInv == LifeInv /\ (faults = 0 => Sole)

(* The consumer gains no ownership and does not leave the removal with it. *)
Keeps(v) ==
    \A t \in Tasks : Owns(v, t)' =>
        Owns(v, t) /\ (pc[v] = "remove" => pc'[v] = "remove")

(* The consumer owns nothing. *)
Free(v) == \A t \in Tasks : ~Owns(v, t)

(* The kinds of step that occur while nothing fails. *)
QuietStep ==
    /\ wait' = wait \/ (offered < MaxTasks /\ offered' = offered + 1
                         /\ wait' = Append(wait, offered + 1))
    /\ UNCHANGED <<processing, accepted>>
    /\ \A v \in Workers : Keeps(v)

PopStep(w) ==
    /\ wait # <<>>
    /\ wait' = Tail(wait)
    /\ processing' = [processing EXCEPT ![Head(wait)] = @ + 1]
    /\ \A t \in Tasks : Owns(w, t)' => t = Head(wait)
    /\ \A v \in Workers \ {w} : Keeps(v)
    /\ UNCHANGED accepted

TakenStep(w) ==
    /\ pc[w] = "post"
    /\ pc'[w] = "remove"
    /\ accepted' = [accepted EXCEPT ![task[w]] = More(@)]
    /\ \A v \in Workers : Keeps(v)
    /\ UNCHANGED <<wait, processing>>

RemovalStep(w) ==
    /\ pc[w] = "remove"
    /\ processing' = [processing EXCEPT ![task[w]] = 0]
    /\ Free(w)'
    /\ \A v \in Workers : Keeps(v)
    /\ UNCHANGED <<wait, accepted>>

ReturnStep(w) ==
    /\ pc[w] = "requeue"
    /\ closing[w] # "destroyed"
    /\ MoveBack(task[w])
    /\ Free(w)'
    /\ \A v \in Workers : Keeps(v)
    /\ UNCHANGED accepted

FaultFreeStep ==
    \/ QuietStep
    \/ \E w \in Workers : PopStep(w) \/ TakenStep(w) \/ RemovalStep(w) \/ ReturnStep(w)

(* A step after which nothing has failed is of one of these kinds. *)
LEMMA FaultFreeSteps ==
    ASSUME TypeInv, [Next]_vars, faults' = 0
    PROVE  faults = 0 /\ FaultFreeStep
<1> USE DEF redis, thread, history
<1>a. /\ pc \in [Workers -> PCs]
      /\ task \in [Workers -> Tasks \cup {NoTask}]
      /\ closing \in [Workers -> ClosingStages]
      /\ faults \in 0..MaxFaults /\ MaxFaults \in Nat
      /\ offered \in 0..MaxTasks
      /\ \A v \in Workers : pc[v] \in Busy <=> task[v] \in Tasks
  BY ConstantsAssumption DEF TypeInv, TypeOK, ThreadOK
<1>b. ASSUME NEW v \in Workers,
             pc'[v] = pc[v], task'[v] = task[v], closing'[v] = closing[v]
      PROVE  Keeps(v)
  BY <1>b DEF Keeps, Owns
<1>1. CASE UNCHANGED vars
  <2>1. \A v \in Workers : Keeps(v)  BY <1>1, <1>b DEF vars
  <2>2. QED  BY <1>1, <2>1 DEF vars, FaultFreeStep, QuietStep
<1>2. CASE Offer
  <2>1. \A v \in Workers : Keeps(v)  BY <1>2, <1>b DEF Offer
  <2>2. QED  BY <1>2, <2>1 DEF Offer, FaultFreeStep, QuietStep
<1>3. ASSUME NEW t \in Tasks, Expire(t) PROVE faults = 0 /\ FaultFreeStep
  <2>1. \A v \in Workers : Keeps(v)  BY <1>3, <1>b DEF Expire
  <2>2. QED  BY <1>3, <2>1 DEF Expire, FaultFreeStep, QuietStep
<1>4. ASSUME NEW w \in Workers, Process(w) PROVE faults = 0 /\ FaultFreeStep
  <2>a. ~Fault  BY <1>a DEF Fault
  <2>b. ASSUME NEW out, RedisCall(w, out)
        PROVE  /\ UNCHANGED faults
               /\ out = "ok" \/ (out = "error" /\ closing[w] = "destroyed")
               /\ out = "ok" => closing[w] # "destroyed"
    BY <2>a, <2>b DEF RedisCall
  <2>c. ASSUME NEW label, Goto(w, label) \/ Release(w, label),
               label \in {"off", "loop", "take", "clear", "dead", "stopped", "reset"}
        PROVE  Free(w)'
    BY <1>a, <2>c DEF Goto, Release, Free, Owns
  <2>d. ASSUME NEW v \in Workers, Free(v)' PROVE Keeps(v)
    BY <2>d DEF Free, Keeps
  <2>e. ASSUME Throw(w), closing[w] = "destroyed", closing' = closing
        PROVE  Free(w)'
    <3>1. CASE Release(w, "dead")  BY <2>c, <3>1
    <3>2. CASE ~Release(w, "dead")
      BY <1>a, <2>e, <3>2 DEF Throw, Free, Owns
    <3>3. QED  BY <3>1, <3>2
  <2>f. ASSUME NEW v \in Workers, v # w, closing'[v] = closing[v],
               pc'[v] = pc[v], task'[v] = task[v]
        PROVE  Keeps(v)
    BY <1>b, <2>f
  <2>g. ASSUME NEW label, Goto(w, label) \/ Release(w, label) \/ Throw(w),
               NEW v \in Workers, v # w
        PROVE  pc'[v] = pc[v] /\ task'[v] = task[v]
    BY <1>a, <2>g DEF Goto, Release, Throw
  <2>h. ASSUME NEW label, Goto(w, label) \/ Release(w, label) \/ Throw(w),
               \A v \in Workers : v # w => closing'[v] = closing[v], Keeps(w)
        PROVE  \A v \in Workers : Keeps(v)
    BY <2>f, <2>g, <2>h
  <2>i. ASSUME UNCHANGED <<wait, processing, accepted, faults>>,
               \A v \in Workers : Keeps(v)
        PROVE  faults = 0 /\ FaultFreeStep
    BY <2>i DEF FaultFreeStep, QuietStep
  <2>1. CASE Start(w)  BY <2>1, <2>c, <2>d, <2>h, <2>i DEF Start
  <2>2. CASE Loop(w)  BY <2>2, <2>c, <2>d, <2>h, <2>i DEF Loop
  <2>3. CASE TakeNothing(w)  BY <2>3, <2>c, <2>d, <2>h, <2>i DEF TakeNothing
  <2>4. CASE EmptyPoll(w)  BY <2>4, <1>1 DEF EmptyPoll
  <2>5. CASE Take(w)
    <3>1. /\ UNCHANGED faults
          /\ pc' = [pc EXCEPT ![w] = "post"]
          /\ task' = [task EXCEPT ![w] = Head(wait)]
      BY <2>5, <2>b DEF Take
    <3>2. \A v \in Workers \ {w} : Keeps(v)
      BY <2>5, <3>1, <2>f, <1>a DEF Take
    <3>3. \A t \in Tasks : Owns(w, t)' => t = Head(wait)
      BY <3>1, <1>a DEF Owns
    <3>4. PopStep(w)  BY <2>5, <3>2, <3>3 DEF Take, PopStep
    <3>5. QED  BY <3>1, <3>4 DEF FaultFreeStep
  <2>6. CASE TakeError(w)
    <3>1. UNCHANGED faults  BY <2>6, <2>b DEF TakeError
    <3>2. UNCHANGED vars  BY <2>6, <3>1 DEF TakeError, vars
    <3>3. QED  BY <3>2, <1>1
  <2>7. CASE PostSuccess(w)
    <3>1. pc'[w] = "remove" /\ task'[w] = task[w] /\ closing' = closing
      BY <2>7, <1>a DEF PostSuccess, Goto
    <3>2. Keeps(w)  BY <2>7, <3>1 DEF PostSuccess, Keeps, Owns
    <3>3. \A v \in Workers : Keeps(v)  BY <2>7, <3>1, <3>2, <2>h DEF PostSuccess
    <3>4. TakenStep(w)  BY <2>7, <3>1, <3>3 DEF PostSuccess, TakenStep
    <3>5. QED  BY <2>7, <3>4 DEF PostSuccess, FaultFreeStep
  <2>8. CASE PostRefused(w)
    <3>1. Keeps(w)  BY <2>8, <1>a DEF PostRefused, Goto, Keeps, Owns
    <3>2. QED  BY <2>8, <3>1, <2>h, <2>i DEF PostRefused
  <2>9. CASE PostError(w)
    <3>1. Keeps(w)
      <4>1. CASE Release(w, "dead")  BY <4>1, <2>c, <2>d
      <4>2. CASE ~Release(w, "dead")
        BY <2>9, <4>2, <1>a DEF PostError, Throw, Keeps, Owns
      <4>3. QED  BY <4>1, <4>2
    <3>2. QED  BY <2>9, <3>1, <2>h, <2>i DEF PostError
  <2>10. CASE PostLost(w)  BY <2>10, <2>a DEF PostLost
  <2>11. CASE Remove(w)
    <3>1. CASE closing[w] = "destroyed"
      <4>1. Throw(w) /\ UNCHANGED <<wait, processing, accepted, faults, closing>>
        BY <2>11, <3>1, <2>b DEF Remove
      <4>2. QED  BY <3>1, <4>1, <2>d, <2>e, <2>h, <2>i
    <3>2. CASE closing[w] # "destroyed"
      <4>1. /\ Goto(w, "clear") /\ UNCHANGED <<wait, accepted, faults, closing>>
            /\ processing' = [processing EXCEPT ![task[w]] = 0]
        BY <2>11, <3>2, <2>b DEF Remove
      <4>2. Free(w)' /\ \A v \in Workers : Keeps(v)
        BY <4>1, <2>c, <2>d, <2>h
      <4>3. RemovalStep(w)  BY <2>11, <4>1, <4>2 DEF Remove, RemovalStep
      <4>4. QED  BY <4>1, <4>3 DEF FaultFreeStep
    <3>3. QED  BY <3>1, <3>2
  <2>12. CASE Clear(w)
    <3>1. /\ UNCHANGED <<wait, processing, accepted, faults, closing>>
          /\ Release(w, "loop") \/ (Throw(w) /\ closing[w] = "destroyed")
      BY <2>12, <2>b DEF Clear
    <3>2. Free(w)'  BY <3>1, <2>c, <2>e
    <3>3. QED  BY <3>1, <3>2, <2>d, <2>h, <2>i
  <2>13. CASE Wake(w)
    <3>1. Keeps(w)  BY <2>13, <1>a DEF Wake, Goto, Keeps, Owns
    <3>2. QED  BY <2>13, <3>1, <2>h, <2>i DEF Wake
  <2>14. CASE Count(w)
    <3>1. UNCHANGED <<wait, processing, accepted, faults, closing>>
      BY <2>14, <2>b DEF Count
    <3>2. CASE closing[w] = "destroyed"
      <4>1. Throw(w)  BY <2>14, <3>2, <2>b DEF Count
      <4>2. QED  BY <3>1, <3>2, <4>1, <2>d, <2>e, <2>h, <2>i
    <3>3. CASE closing[w] # "destroyed"
      <4>1. pc' = [pc EXCEPT ![w] = "requeue"] /\ task' = task
        BY <2>14, <3>3, <2>b DEF Count
      <4>2. Keeps(w)  BY <2>14, <3>1, <4>1, <1>a DEF Count, Keeps, Owns
      <4>3. \A v \in Workers : Keeps(v)  BY <3>1, <4>1, <4>2, <2>f, <1>a
      <4>4. QED  BY <3>1, <4>3, <2>i
    <3>4. QED  BY <3>2, <3>3
  <2>15. CASE Requeue(w)
    <3>1. CASE closing[w] = "destroyed"
      <4>1. Throw(w) /\ UNCHANGED <<wait, processing, accepted, faults, closing>>
        BY <2>15, <3>1, <2>b DEF Requeue
      <4>2. QED  BY <3>1, <4>1, <2>d, <2>e, <2>h, <2>i
    <3>2. CASE closing[w] # "destroyed"
      <4>1. /\ MoveBack(task[w]) /\ UNCHANGED <<accepted, faults, closing>>
            /\ Release(w, "loop") \/ Goto(w, "reset")
        BY <2>15, <3>2, <2>b DEF Requeue
      <4>2. Free(w)' /\ \A v \in Workers : Keeps(v)
        BY <4>1, <2>c, <2>d, <2>h
      <4>3. ReturnStep(w)  BY <2>15, <3>2, <4>1, <4>2 DEF Requeue, ReturnStep
      <4>4. QED  BY <4>1, <4>3 DEF FaultFreeStep
    <3>3. QED  BY <3>1, <3>2
  <2>16. CASE Reset(w)
    <3>1. /\ UNCHANGED <<wait, processing, accepted, faults, closing>>
          /\ Release(w, "loop") \/ (Throw(w) /\ closing[w] = "destroyed")
      BY <2>16, <2>b DEF Reset
    <3>2. Free(w)'  BY <3>1, <2>c, <2>e
    <3>3. QED  BY <3>1, <3>2, <2>d, <2>h, <2>i
  <2>17. CASE MarkStop(w) \/ MarkQueueStop(w) \/ DestroyPool(w)
    <3>1. UNCHANGED <<wait, processing, accepted, faults, pc, task>>
      BY <2>17 DEF MarkStop, MarkQueueStop, DestroyPool
    <3>2. /\ \A v \in Workers : v # w => closing'[v] = closing[v]
          /\ closing[w] # "destroyed"
      BY <2>17, <1>a DEF MarkStop, MarkQueueStop, DestroyPool
    <3>3. Keeps(w)  BY <3>1, <3>2 DEF Keeps, Owns
    <3>4. \A v \in Workers : Keeps(v)  BY <3>1, <3>2, <3>3, <2>f
    <3>5. QED  BY <3>1, <3>4, <2>i
  <2>18. CASE Crash(w)  BY <2>18, <2>a DEF Crash
  <2>19. CASE Exit(w)
    <3>1. \A v \in Workers : v # w => closing'[v] = closing[v]
      BY <2>19, <1>a DEF Exit
    <3>2. QED  BY <2>19, <3>1, <2>c, <2>d, <2>h, <2>i DEF Exit
  <2>20. QED
    BY <1>4, <2>1, <2>2, <2>3, <2>4, <2>5, <2>6, <2>7, <2>8, <2>9, <2>10, <2>11,
       <2>12, <2>13, <2>14, <2>15, <2>16, <2>17, <2>18, <2>19
    DEF Process, Step
<1>5. QED  BY <1>1, <1>2, <1>3, <1>4 DEF Next

(* The empty queue satisfies the invariant on ownership. *)
LEMMA SoleInit == Init => SoleInv
<1> SUFFICES ASSUME Init PROVE SoleInv
  OBVIOUS
<1>1. LifeInv  BY LifeInit
<1>2. Sole  BY NoTaskIsNone DEF Init, Sole, Owns
<1>3. QED  BY <1>1, <1>2 DEF SoleInv

(* Every step keeps the invariant on ownership. *)
LEMMA SoleStep == SoleInv /\ [Next]_vars => SoleInv'
<1> SUFFICES ASSUME SoleInv, [Next]_vars PROVE SoleInv'
  OBVIOUS
<1>a. LifeInv /\ TypeInv /\ SingleCopy  BY DEF SoleInv, LifeInv
<1>b. LifeInv'  BY <1>a, LifeStep
<1>1. ASSUME faults' = 0 PROVE Sole'
  <2>a. faults = 0 /\ FaultFreeStep  BY <1>a, <1>1, FaultFreeSteps
  <2>b. Sole  BY <2>a DEF SoleInv
  <2>c. /\ processing \in [Tasks -> Nat] /\ accepted \in [Tasks -> 0..2]
        /\ wait \in Seq(Tasks)
        /\ offered \in 0..MaxTasks /\ MaxTasks \in Nat
        /\ \A w \in Workers : pc[w] \in Busy => task[w] \in Tasks
        /\ \A t \in Tasks : Waiting(t) => processing[t] = 0
        /\ \A t \in Tasks : Waiting(t) => t <= offered
        /\ \A t \in Tasks : processing[t] > 0 => t <= offered
    BY <1>a, ConstantsAssumption
    DEF TypeInv, TypeOK, ThreadOK, SingleCopy, LifeInv, Arrived, Listed
  <2>d. /\ \A t \in Tasks, v \in Workers : Owns(v, t) => processing[t] > 0
        /\ \A t \in Tasks : \A v, w \in Workers : Owns(v, t) /\ Owns(w, t) => v = w
        /\ \A t \in Tasks : accepted[t] > 0 =>
              /\ accepted[t] = 1
              /\ ~Waiting(t)
              /\ \A w \in Workers : Owns(w, t) => pc[w] = "remove"
    BY <2>b DEF Sole
  <2>e. ASSUME NEW w \in Workers, NEW t \in Tasks, pc[w] \in {"post", "remove"}
        PROVE  Owns(w, t) <=> task[w] = t
    BY <2>e DEF Owns
  <2>1. CASE QuietStep
    <3>1. ASSUME NEW t \in Tasks, accepted[t] > 0 PROVE ~Waiting(t)'
      <4>1. CASE wait' = wait  BY <2>d, <3>1, <4>1 DEF Waiting
      <4>2. CASE /\ offered < MaxTasks /\ offered' = offered + 1
                 /\ wait' = Append(wait, offered + 1)
        <5>1. offered + 1 \in Tasks  BY <2>c, <4>2 DEF Tasks
        <5>2. t <= offered  BY <1>a, <3>1 DEF LifeInv, Arrived
        <5>3. Waiting(t)' <=> Waiting(t) \/ t = offered + 1
          BY <1>a, <4>2, <5>1, WaitingAfterPush
        <5>4. QED  BY <2>c, <2>d, <3>1, <5>2, <5>3
      <4>3. QED  BY <2>1, <4>1, <4>2 DEF QuietStep
    <3>2. QED  BY <2>1, <2>d, <3>1 DEF QuietStep, Keeps, Sole
  <2>2. ASSUME NEW w \in Workers, PopStep(w) PROVE Sole'
    <3> DEFINE h == Head(wait)
    <3>1. h \in Tasks  BY <2>c, <2>2, RangeOfTail DEF PopStep
    <3>2. Waiting(h) /\ \A t \in Tasks : Waiting(t)' <=> Waiting(t) /\ t # h
      BY <1>a, <2>2, <3>1, WaitingAfterPop DEF PopStep
    <3>3. processing[h] = 0 /\ accepted[h] = 0 /\ accepted' = accepted
      BY <2>c, <2>d, <2>2, <3>1, <3>2 DEF PopStep
    <3>4. \A t \in Tasks :
             processing'[t] = IF t = h THEN processing[t] + 1 ELSE processing[t]
      BY <2>c, <2>2, <3>1 DEF PopStep
    <3>5. \A v \in Workers : ~Owns(v, h)
      BY <2>c, <2>d, <3>1, <3>3
    <3>6. /\ \A t \in Tasks : Owns(w, t)' => t = h
          /\ \A v \in Workers \ {w} : Keeps(v)
      BY <2>2 DEF PopStep
    <3> HIDE DEF h
    <3>7. ASSUME NEW t \in Tasks
          PROVE  /\ \A v \in Workers : Owns(v, t)' => processing'[t] > 0
                 /\ \A u, v \in Workers : Owns(u, t)' /\ Owns(v, t)' => u = v
                 /\ accepted'[t] > 0 =>
                       /\ accepted'[t] = 1
                       /\ ~Waiting(t)'
                       /\ \A v \in Workers : Owns(v, t)' => pc'[v] = "remove"
      <4>1. CASE t = h
        <5>1. processing'[t] > 0 /\ ~(accepted'[t] > 0)
          BY <2>c, <3>1, <3>3, <3>4, <4>1
        <5>2. \A v \in Workers : Owns(v, t)' => v = w
          BY <3>1, <3>5, <3>6, <4>1 DEF Keeps
        <5>3. QED  BY <5>1, <5>2
      <4>2. CASE t # h
        <5>1. processing'[t] = processing[t] /\ accepted'[t] = accepted[t]
          BY <3>3, <3>4, <4>2
        <5>2. \A v \in Workers : Owns(v, t)' =>
                 Owns(v, t) /\ (pc[v] = "remove" => pc'[v] = "remove")
          BY <3>6, <4>2 DEF Keeps
        <5>3. Waiting(t)' => Waiting(t)  BY <3>2
        <5>4. QED  BY <2>d, <5>1, <5>2, <5>3
      <4>3. QED  BY <4>1, <4>2
    <3>8. QED  BY <3>7 DEF Sole
  <2>3. ASSUME NEW w \in Workers, TakenStep(w) PROVE Sole'
    <3>1. task[w] \in Tasks /\ Owns(w, task[w])
      BY <2>c, <2>3 DEF TakenStep, Busy, Owns
    <3>2. /\ processing' = processing /\ \A v \in Workers : Keeps(v)
          /\ \A t \in Tasks : Waiting(t)' <=> Waiting(t)
          /\ pc[w] = "post" /\ pc'[w] = "remove"
      BY <2>3 DEF TakenStep, Waiting
    <3>3. accepted[task[w]] = 0 /\ ~Waiting(task[w])
      BY <2>c, <2>d, <3>1, <3>2
    <3>4. \A t \in Tasks : accepted'[t] = IF t = task[w] THEN 1 ELSE accepted[t]
      BY <2>c, <2>3, <3>1, <3>3 DEF TakenStep, More
    <3>5. ASSUME NEW v \in Workers, NEW t \in Tasks, Owns(v, t)', t = task[w]
          PROVE  v = w
      BY <2>d, <3>1, <3>2, <3>5 DEF Keeps
    <3>6. \A v \in Workers, t \in Tasks : Owns(v, t)' =>
             Owns(v, t) /\ (pc[v] = "remove" => pc'[v] = "remove")
      BY <3>2 DEF Keeps
    <3>7. ASSUME NEW t \in Tasks
          PROVE  /\ \A v \in Workers : Owns(v, t)' => processing'[t] > 0
                 /\ \A u, v \in Workers : Owns(u, t)' /\ Owns(v, t)' => u = v
                 /\ accepted'[t] > 0 =>
                       /\ accepted'[t] = 1
                       /\ ~Waiting(t)'
                       /\ \A v \in Workers : Owns(v, t)' => pc'[v] = "remove"
      BY <2>d, <3>2, <3>3, <3>4, <3>5, <3>6
    <3>8. QED  BY <3>7 DEF Sole
  <2>4. ASSUME NEW w \in Workers, RemovalStep(w) PROVE Sole'
    <3>1. task[w] \in Tasks /\ Owns(w, task[w])
      BY <2>c, <2>4 DEF RemovalStep, Busy, Owns
    <3>2. /\ accepted' = accepted
          /\ \A t \in Tasks : Waiting(t)' <=> Waiting(t)
          /\ \A t \in Tasks : t # task[w] => processing'[t] = processing[t]
      BY <2>c, <2>4 DEF RemovalStep, Waiting
    <3>3. \A v \in Workers, t \in Tasks : Owns(v, t)' =>
             Owns(v, t) /\ (pc[v] = "remove" => pc'[v] = "remove") /\ v # w
      BY <2>4 DEF RemovalStep, Keeps, Free
    <3>4. \A v \in Workers, t \in Tasks : Owns(v, t)' => t # task[w]
      BY <2>d, <3>1, <3>3
    <3>5. QED  BY <2>d, <3>2, <3>3, <3>4 DEF Sole
  <2>5. ASSUME NEW w \in Workers, ReturnStep(w) PROVE Sole'
    <3>1. task[w] \in Tasks /\ Owns(w, task[w]) /\ pc[w] # "remove"
      BY <2>c, <2>5 DEF ReturnStep, Busy, Owns
    <3>2. processing[task[w]] > 0 /\ accepted[task[w]] = 0
      BY <2>c, <2>d, <3>1
    <3>3. /\ accepted' = accepted
          /\ wait' = Append(wait, task[w])
          /\ \A t \in Tasks : t # task[w] => processing'[t] = processing[t]
      BY <2>c, <2>5, <3>1, <3>2 DEF ReturnStep, MoveBack
    <3>4. \A t \in Tasks : Waiting(t)' <=> Waiting(t) \/ t = task[w]
      BY <1>a, <3>1, <3>3, WaitingAfterPush
    <3>5. \A v \in Workers, t \in Tasks : Owns(v, t)' =>
             Owns(v, t) /\ (pc[v] = "remove" => pc'[v] = "remove") /\ v # w
      BY <2>5 DEF ReturnStep, Keeps, Free
    <3>6. \A v \in Workers, t \in Tasks : Owns(v, t)' => t # task[w]
      BY <2>d, <3>1, <3>5
    <3>7. QED  BY <2>d, <3>2, <3>3, <3>4, <3>5, <3>6 DEF Sole
  <2>6. QED  BY <2>a, <2>1, <2>2, <2>3, <2>4, <2>5 DEF FaultFreeStep
<1>2. QED  BY <1>b, <1>1 DEF SoleInv

(* The invariant on ownership holds in every behaviour. *)
LEMMA SoleInvariant == Spec => []SoleInv
<1>1. QED  BY SoleInit, SoleStep, PTL DEF Spec

(* While nothing has failed, no two of any number of processes work on the *)
(* same task, whatever is retried, refused or shut down.                   *)
THEOREM ExclusiveHolds == Spec => []ExclusiveUnlessFault
<1>1. SoleInv => ExclusiveUnlessFault
  BY DEF SoleInv, Sole, ExclusiveUnlessFault
<1>2. QED  BY <1>1, SoleInvariant, PTL

(* While nothing has failed, epark takes no task twice. *)
THEOREM AcceptedOnceHolds == Spec => []AcceptedOnceUnlessFault
<1>1. SoleInv => AcceptedOnceUnlessFault
  <2> SUFFICES ASSUME SoleInv, faults = 0, NEW t \in Tasks
               PROVE  accepted[t] <= 1
    BY DEF AcceptedOnceUnlessFault
  <2>1. accepted[t] \in 0..2
    BY DEF SoleInv, LifeInv, TypeInv, TypeOK
  <2>2. accepted[t] > 0 => accepted[t] = 1  BY DEF SoleInv, Sole
  <2>3. QED  BY <2>1, <2>2
<1>2. QED  BY <1>1, SoleInvariant, PTL

-----------------------------------------------------------------------------
(* The order of first takes *)

(* What a step does to the wait list and to the set of tasks once taken. *)
PushStep(t) == wait' = Append(wait, t) /\ UNCHANGED popped

OrderStep ==
    \/ UNCHANGED <<wait, offered, popped>>
    \/ offered < MaxTasks /\ offered' = offered + 1 /\ PushStep(offered + 1)
    \/ /\ wait # <<>>
       /\ wait' = Tail(wait)
       /\ popped' = popped \cup {Head(wait)}
       /\ UNCHANGED offered
    \/ \E w \in Workers : pc[w] = "requeue" /\ PushStep(task[w]) /\ UNCHANGED offered

(* Every step is of one of these kinds. *)
LEMMA OrderSteps == [Next]_vars => OrderStep
<1> SUFFICES ASSUME [Next]_vars PROVE OrderStep
  OBVIOUS
<1> USE DEF OrderStep, PushStep, redis, history
<1>1. CASE UNCHANGED vars  BY <1>1 DEF vars
<1>2. CASE Offer  BY <1>2 DEF Offer
<1>3. ASSUME NEW t \in Tasks, Expire(t) PROVE OrderStep
  BY <1>3 DEF Expire
<1>4. ASSUME NEW w \in Workers, Process(w) PROVE OrderStep
  <2>1. CASE Take(w)  BY <2>1 DEF Take
  <2>2. CASE Requeue(w)
    <3>1. pc[w] = "requeue" /\ UNCHANGED <<offered, popped>>  BY <2>2 DEF Requeue
    <3>2. wait' = wait \/ wait' = Append(wait, task[w])
      BY <2>2 DEF Requeue, MoveBack
    <3>3. QED  BY <3>1, <3>2
  <2>3. CASE ~(Take(w) \/ Requeue(w))
    <3>1. UNCHANGED <<wait, offered, popped>>
      BY <1>4, <2>3
      DEF Process, Step, Start, Loop, TakeNothing, EmptyPoll, TakeError,
          PostSuccess, PostRefused, PostError, PostLost, Remove, Clear, Wake, Count,
          Reset, MarkStop, MarkQueueStop, DestroyPool, Crash, Exit, vars
    <3>2. QED  BY <3>1
  <2>4. QED  BY <2>1, <2>2, <2>3
<1>5. QED  BY <1>1, <1>2, <1>3, <1>4 DEF Next

(* What comes into a hand has been taken once. *)
LEMMA TakenHands ==
    ASSUME TypeInv, [Next]_vars, NEW v \in Workers
    PROVE  task'[v] \in {task[v], NoTask} \cup popped'
<1>a. task \in [Workers -> Tasks \cup {NoTask}]  BY DEF TypeInv, TypeOK
<1>1. CASE task' = task  BY <1>1
<1>2. ASSUME NEW w \in Workers, Take(w)
      PROVE  task'[v] \in {task[v], NoTask} \cup popped'
  BY <1>a, <1>2 DEF Take, thread
<1>3. ASSUME NEW w \in Workers, task' = [task EXCEPT ![w] = NoTask]
      PROVE  task'[v] \in {task[v], NoTask} \cup popped'
  BY <1>a, <1>3
<1>4. ASSUME NEW w \in Workers, Process(w), ~Take(w)
      PROVE  task' = task \/ task' = [task EXCEPT ![w] = NoTask]
  BY <1>4
  DEF Process, Step, Start, Loop, TakeNothing, EmptyPoll, TakeError, PostSuccess,
      PostRefused, PostError, PostLost, Remove, Clear, Wake, Count, Requeue, Reset,
      MarkStop, MarkQueueStop, DestroyPool, Crash, Exit, Goto, Release, Throw,
      vars, thread
<1>5. Offer \/ (\E t \in Tasks : Expire(t)) \/ UNCHANGED vars => task' = task
  BY DEF Offer, Expire, vars, thread
<1>6. QED  BY <1>1, <1>2, <1>3, <1>4, <1>5 DEF Next

(* A task never taken is in the wait list, behind it is no older one that   *)
(* was never taken, and only tasks once taken are in a hand.               *)
InOrder ==
    /\ popped \subseteq 1..offered
    /\ \A t \in 1..offered : t \notin popped => Waiting(t)
    /\ \A i, j \in DOMAIN wait :
          i < j /\ wait[i] \notin popped /\ wait[j] \notin popped => wait[i] < wait[j]
    /\ \A w \in Workers : task[w] # NoTask => task[w] \in popped

OrderInv == LifeInv /\ InOrder

(* The order holds of the empty queue. *)
LEMMA OrderInit == Init => OrderInv
<1> SUFFICES ASSUME Init PROVE OrderInv
  OBVIOUS
<1>1. LifeInv  BY LifeInit
<1>2. InOrder  BY DEF Init, InOrder
<1>3. QED  BY <1>1, <1>2 DEF OrderInv

(* A push behind the list of a task that was taken before, or that is       *)
(* younger than all that wait.                                             *)
LEMMA PushInOrder ==
    ASSUME wait \in Seq(Tasks), NEW t \in Tasks, wait' = Append(wait, t),
           NEW P, NEW Q,
           \A i, j \in DOMAIN wait :
               i < j /\ wait[i] \notin P /\ wait[j] \notin P => wait[i] < wait[j],
           P = Q,
           t \in P \/ \A i \in DOMAIN wait : wait[i] < t
    PROVE  \A i, j \in DOMAIN wait' :
               i < j /\ wait'[i] \notin Q /\ wait'[j] \notin Q => wait'[i] < wait'[j]
<1>1. /\ Len(wait') = Len(wait) + 1 /\ Len(wait) \in Nat
      /\ \A i \in 1..Len(wait) : wait'[i] = wait[i]
      /\ wait'[Len(wait) + 1] = t
      /\ DOMAIN wait' = 1..(Len(wait) + 1) /\ DOMAIN wait = 1..Len(wait)
  OBVIOUS
<1>2. SUFFICES ASSUME NEW i \in DOMAIN wait', NEW j \in DOMAIN wait', i < j,
                      wait'[i] \notin Q, wait'[j] \notin Q
               PROVE  wait'[i] < wait'[j]
  OBVIOUS
<1>3. i \in DOMAIN wait /\ wait'[i] = wait[i]  BY <1>1, <1>2
<1>4. CASE j \in DOMAIN wait  BY <1>1, <1>2, <1>3, <1>4
<1>5. CASE j = Len(wait) + 1  BY <1>1, <1>2, <1>3, <1>5
<1>6. QED  BY <1>1, <1>4, <1>5

(* A pop of the head, which is then among the tasks once taken. *)
LEMMA PopInOrder ==
    ASSUME wait \in Seq(Tasks), wait # <<>>, wait' = Tail(wait),
           NEW P, NEW Q, Q = P \cup {Head(wait)},
           \A i, j \in DOMAIN wait :
               i < j /\ wait[i] \notin P /\ wait[j] \notin P => wait[i] < wait[j]
    PROVE  \A i, j \in DOMAIN wait' :
               i < j /\ wait'[i] \notin Q /\ wait'[j] \notin Q => wait'[i] < wait'[j]
<1>1. /\ Len(wait') = Len(wait) - 1 /\ Len(wait) \in Nat \ {0}
      /\ \A i \in 1..Len(wait') : wait'[i] = wait[i + 1]
      /\ DOMAIN wait' = 1..(Len(wait) - 1) /\ DOMAIN wait = 1..Len(wait)
  OBVIOUS
<1>2. SUFFICES ASSUME NEW i \in DOMAIN wait', NEW j \in DOMAIN wait', i < j,
                      wait'[i] \notin Q, wait'[j] \notin Q
               PROVE  wait'[i] < wait'[j]
  OBVIOUS
<1>3. /\ i + 1 \in DOMAIN wait /\ j + 1 \in DOMAIN wait /\ i + 1 < j + 1
      /\ wait'[i] = wait[i + 1] /\ wait'[j] = wait[j + 1]
  BY <1>1, <1>2
<1>4. QED  BY <1>2, <1>3

(* The head of the list, if it was never taken, is the oldest such task. *)
LEMMA HeadIsOldest ==
    ASSUME OrderInv, wait # <<>>, Head(wait) \notin popped
    PROVE  1..(Head(wait) - 1) \subseteq popped
<1>1. /\ wait \in Seq(Tasks) /\ offered \in 0..MaxTasks /\ MaxTasks \in Nat
  BY ConstantsAssumption DEF OrderInv, LifeInv, TypeInv, TypeOK
<1>2. /\ 1 \in DOMAIN wait /\ Head(wait) = wait[1] /\ Head(wait) \in Tasks
      /\ DOMAIN wait = 1..Len(wait) /\ Len(wait) \in Nat
  BY <1>1
<1>3. Waiting(Head(wait))  BY <1>2 DEF Waiting, Range
<1>4. Head(wait) <= offered
  BY <1>2, <1>3 DEF OrderInv, LifeInv, Arrived, Listed
<1>5. SUFFICES ASSUME NEW u \in 1..(Head(wait) - 1), u \notin popped PROVE FALSE
  OBVIOUS
<1>6. u \in 1..offered /\ u < Head(wait)  BY <1>1, <1>2, <1>4 DEF Tasks
<1>7. PICK j \in DOMAIN wait : wait[j] = u
  BY <1>5, <1>6 DEF OrderInv, InOrder, Waiting, Range
<1>8. 1 < j  BY <1>2, <1>6, <1>7
<1>9. wait[1] < u  BY <1>2, <1>5, <1>7, <1>8 DEF OrderInv, InOrder
<1>10. QED  BY <1>1, <1>2, <1>6, <1>9 DEF Tasks

(* Every step keeps the order. *)
LEMMA OrderInvStep == OrderInv /\ [Next]_vars => OrderInv'
<1> SUFFICES ASSUME OrderInv, [Next]_vars PROVE OrderInv'
  OBVIOUS
<1>a. LifeInv /\ InOrder /\ TypeInv /\ LifeInv'
  BY LifeStep DEF OrderInv, LifeInv
<1>b. /\ wait \in Seq(Tasks) /\ offered \in 0..MaxTasks /\ MaxTasks \in Nat
      /\ popped \subseteq 1..offered
      /\ \A w \in Workers : pc[w] \in Busy => task[w] \in Tasks
      /\ \A t \in Tasks : Waiting(t) => t <= offered
      /\ task \in [Workers -> Tasks \cup {NoTask}]
  BY <1>a, ConstantsAssumption
  DEF TypeInv, TypeOK, ThreadOK, InOrder, LifeInv, Arrived, Listed
<1>c. popped \subseteq popped'
  BY OrderSteps DEF OrderStep, PushStep
<1>e. OrderStep  BY OrderSteps
<1>f. \A i \in DOMAIN wait : wait[i] \in Tasks /\ wait[i] <= offered
  <2> SUFFICES ASSUME NEW i \in DOMAIN wait
               PROVE  wait[i] \in Tasks /\ wait[i] <= offered
    OBVIOUS
  <2>1. wait[i] \in Tasks  BY <1>b
  <2>2. Waiting(wait[i])  BY DEF Waiting, Range
  <2>3. QED  BY <1>b, <2>1, <2>2
<1>1. \A w \in Workers : task'[w] # NoTask => task'[w] \in popped'
  <2> SUFFICES ASSUME NEW w \in Workers, task'[w] # NoTask PROVE task'[w] \in popped'
    OBVIOUS
  <2>1. CASE task'[w] = task[w]  BY <1>a, <1>c, <2>1 DEF InOrder
  <2>2. CASE task'[w] \in popped'  BY <2>2
  <2>3. QED  BY <1>a, <2>1, <2>2, TakenHands
<1>2. CASE UNCHANGED <<wait, offered, popped>>
  <2>1. InOrder'  BY <1>a, <1>1, <1>2 DEF InOrder, Waiting
  <2>2. QED  BY <1>a, <2>1 DEF OrderInv
<1>3. CASE offered < MaxTasks /\ offered' = offered + 1 /\ PushStep(offered + 1)
  <2>1. offered + 1 \in Tasks  BY <1>b, <1>3 DEF Tasks
  <2>2. \A i \in DOMAIN wait : wait[i] < offered + 1  BY <1>b, <1>f DEF Tasks
  <2>3. \A i, j \in DOMAIN wait' :
           i < j /\ wait'[i] \notin popped' /\ wait'[j] \notin popped' => wait'[i] < wait'[j]
    BY <1>a, <1>b, <1>3, <2>1, <2>2, PushInOrder DEF InOrder, PushStep
  <2>4. \A t \in Tasks : Waiting(t)' <=> Waiting(t) \/ t = offered + 1
    BY <1>a, <1>3, <2>1, WaitingAfterPush DEF PushStep
  <2>5. \A t \in 1..offered' : t \notin popped' => Waiting(t)'
    BY <1>a, <1>b, <1>3, <2>4 DEF InOrder, PushStep, Tasks
  <2>6. popped' \subseteq 1..offered'  BY <1>b, <1>3 DEF PushStep
  <2>7. QED  BY <1>a, <1>1, <2>3, <2>5, <2>6 DEF OrderInv, InOrder
<1>4. CASE /\ wait # <<>> /\ wait' = Tail(wait)
           /\ popped' = popped \cup {Head(wait)} /\ UNCHANGED offered
  <2>1. Head(wait) \in Tasks /\ Head(wait) <= offered
    <3>1. 1 \in DOMAIN wait /\ Head(wait) = wait[1]  BY <1>b, <1>4
    <3>2. QED  BY <1>f, <3>1
  <2>2. \A i, j \in DOMAIN wait' :
           i < j /\ wait'[i] \notin popped' /\ wait'[j] \notin popped' => wait'[i] < wait'[j]
    BY <1>a, <1>b, <1>4, PopInOrder DEF InOrder
  <2>3. \A t \in Tasks : Waiting(t)' <=> Waiting(t) /\ t # Head(wait)
    BY <1>a, <1>4, <2>1, WaitingAfterPop DEF LifeInv
  <2>4. \A t \in 1..offered' : t \notin popped' => Waiting(t)'
    BY <1>a, <1>b, <1>4, <2>3 DEF InOrder, Tasks
  <2>5. popped' \subseteq 1..offered'
    <3>1. Head(wait) \in 1..offered  BY <1>b, <2>1 DEF Tasks
    <3>2. QED  BY <1>b, <1>4, <3>1
  <2>6. QED  BY <1>a, <1>1, <2>2, <2>4, <2>5 DEF OrderInv, InOrder
<1>5. ASSUME NEW w \in Workers, pc[w] = "requeue", PushStep(task[w]), UNCHANGED offered
      PROVE  OrderInv'
  <2>1. task[w] \in Tasks  BY <1>b, <1>5 DEF Busy
  <2>2. task[w] \in popped  BY <1>a, <2>1, NoTaskIsNone DEF InOrder
  <2>3. \A i, j \in DOMAIN wait' :
           i < j /\ wait'[i] \notin popped' /\ wait'[j] \notin popped' => wait'[i] < wait'[j]
    BY <1>a, <1>b, <1>5, <2>1, <2>2, PushInOrder DEF InOrder, PushStep
  <2>4. \A t \in Tasks : Waiting(t)' <=> Waiting(t) \/ t = task[w]
    BY <1>a, <1>5, <2>1, WaitingAfterPush DEF PushStep
  <2>5. \A t \in 1..offered' : t \notin popped' => Waiting(t)'
    BY <1>a, <1>b, <1>5, <2>4 DEF InOrder, PushStep, Tasks
  <2>6. QED  BY <1>a, <1>1, <1>5, <2>3, <2>5 DEF OrderInv, InOrder, PushStep
<1>6. QED  BY <1>e, <1>2, <1>3, <1>4, <1>5 DEF OrderStep

(* The order holds in every behaviour. *)
LEMMA OrderInvariant == Spec => []OrderInv
BY OrderInit, OrderInvStep, PTL DEF Spec

(* With any number of processes, retries and faults, a task is taken for    *)
(* the first time only after every task that came before it.               *)
THEOREM FirstTakeOrder == Spec => FirstTakeInOrder
<1>1. OrderInv /\ [Next]_vars =>
         [\A t \in popped' \ popped : 1..(t - 1) \subseteq popped]_vars
  <2> SUFFICES ASSUME OrderInv, [Next]_vars, NEW t \in popped' \ popped
               PROVE  1..(t - 1) \subseteq popped
    OBVIOUS
  <2>1. wait # <<>> /\ t = Head(wait)
    BY OrderSteps DEF OrderStep, PushStep
  <2>2. QED  BY <2>1, HeadIsOldest
<1>2. QED  BY <1>1, OrderInvariant, PTL DEF Spec, FirstTakeInOrder

-----------------------------------------------------------------------------
(* The processing list and the counters while nothing fails or is closed *)

(* The catch block is left with the task. *)
CatchPlaces == {"sleep", "count", "requeue", "reset"}
Catches == \A w \in inCatch : pc[w] \in CatchPlaces

(* Nothing has failed and no process was ever told to stop. *)
Calm == faults = 0 /\ closes = 0

Open == \A w \in Workers : closing[w] = "no"

(* ProcessingOwned, in the direction that Sole leaves open. *)
Claimed ==
    \A t \in Tasks : processing[t] > 0 => \E w \in Workers : Owns(w, t)

(* CounterCollected. *)
Collected ==
    \A t \in Tasks : ~Listed(t) /\ ~Held(t) /\ failCount[t] > 0 => t \in expiring

CalmInv == SoleInv /\ Catches /\ (Calm => Open /\ Claimed /\ Collected)

(* The places where an open process owns the task in its hand. *)
Working == {"post", "remove", "sleep", "count", "requeue"}

(* Nothing is processed and nothing counted at first. *)
LEMMA CalmInit == Init => CalmInv
<1> SUFFICES ASSUME Init PROVE CalmInv
  OBVIOUS
<1>1. SoleInv  BY SoleInit
<1>2. Catches /\ Open /\ Claimed /\ Collected
  BY DEF Init, Catches, Open, Claimed, Collected
<1>3. QED  BY <1>1, <1>2 DEF CalmInv

(* A thread is in the catch block only where the block has it. *)
LEMMA CatchStep ==
    ASSUME TypeInv, Catches, [Next]_vars
    PROVE  Catches'
<1>a. pc \in [Workers -> PCs] /\ inCatch \in SUBSET Workers
  BY DEF TypeInv, TypeOK
<1>1. CASE UNCHANGED thread  BY <1>1 DEF Catches, thread
<1>2. CASE Offer \/ (\E t \in Tasks : Expire(t)) \/ UNCHANGED vars
  BY <1>1, <1>2 DEF Offer, Expire, vars
<1>3. ASSUME NEW w \in Workers, Process(w) PROVE Catches'
  <2>a. ASSUME NEW label, Goto(w, label), w \notin inCatch \/ label \in CatchPlaces
        PROVE  Catches'
    BY <1>a, <2>a DEF Goto, Catches
  <2>b. ASSUME NEW label, Release(w, label) PROVE Catches'
    BY <1>a, <2>b DEF Release, Catches
  <2>c. ASSUME Throw(w) PROVE Catches'
    <3>1. CASE Release(w, "dead")  BY <2>b, <3>1
    <3>2. CASE ~Release(w, "dead")
      BY <1>a, <2>c, <3>2 DEF Throw, Catches, CatchPlaces
    <3>3. QED  BY <3>1, <3>2
  <2>d. pc[w] \notin CatchPlaces => w \notin inCatch  BY DEF Catches
  <2>1. CASE Start(w) \/ Loop(w) \/ TakeNothing(w) \/ Exit(w)
    BY <2>1, <2>a, <2>d DEF Start, Loop, TakeNothing, Exit, CatchPlaces
  <2>2. CASE EmptyPoll(w) \/ TakeError(w) \/ MarkStop(w) \/ MarkQueueStop(w) \/ DestroyPool(w)
    BY <2>2, <1>1 DEF EmptyPoll, TakeError, MarkStop, MarkQueueStop, DestroyPool, vars
  <2>3. CASE Take(w)
    BY <2>3, <1>1, <1>a, <2>d DEF Take, Catches, CatchPlaces
  <2>4. CASE PostSuccess(w) \/ PostRefused(w) \/ Wake(w)
    BY <2>4, <2>a, <2>d DEF PostSuccess, PostRefused, Wake, CatchPlaces
  <2>5. CASE PostError(w) \/ PostLost(w)  BY <2>5, <2>c DEF PostError, PostLost
  <2>6. CASE Remove(w)  BY <2>6, <2>a, <2>c, <2>d DEF Remove, CatchPlaces
  <2>7. CASE Clear(w) \/ Reset(w)  BY <2>7, <2>b, <2>c DEF Clear, Reset
  <2>8. CASE Count(w)
    <3>1. CASE Throw(w)  BY <2>c, <3>1
    <3>2. CASE ~Throw(w)
      BY <2>8, <3>2, <1>a DEF Count, Catches, CatchPlaces
    <3>3. QED  BY <3>1, <3>2
  <2>9. CASE Requeue(w)
    BY <2>9, <2>a, <2>b, <2>c DEF Requeue, CatchPlaces
  <2>10. CASE Crash(w)  BY <2>10, <2>b DEF Crash
  <2>11. QED
    BY <1>3, <2>1, <2>2, <2>3, <2>4, <2>5, <2>6, <2>7, <2>8, <2>9, <2>10
    DEF Process, Step
<1>4. QED  BY <1>2, <1>3 DEF Next

-----------------------------------------------------------------------------
(* The kinds of step that occur while the system is calm *)

(* No thread's work changes hands. *)
SameWork(v) ==
    task'[v] = task[v] /\ (pc[v] \in Working => pc'[v] \in Working)

(* Nothing changes for a thread but w. *)
OthersRest(w) ==
    \A v \in Workers \ {w} : task'[v] = task[v] /\ pc'[v] = pc[v]

(* Lists, counters and work stay, but for a new task that is pushed, a      *)
(* counter that is raised for a task in hand, or one that expires.         *)
RestStep ==
    /\ \A v \in Workers : SameWork(v)
    /\ UNCHANGED processing
    /\ \/ UNCHANGED <<wait, failCount, expiring>>
       \/ /\ offered < MaxTasks /\ wait' = Append(wait, offered + 1)
          /\ UNCHANGED <<failCount, expiring>>
       \/ \E t \in Tasks :
             /\ failCount' = [failCount EXCEPT ![t] = 0]
             /\ expiring' = expiring \ {t}
             /\ UNCHANGED wait
       \/ \E w \in Workers :
             /\ pc[w] = "count"
             /\ failCount' = [failCount EXCEPT ![task[w]] = Increment(@)]
             /\ UNCHANGED <<wait, expiring>>

TakeStep(w) ==
    /\ wait # <<>> /\ wait' = Tail(wait)
    /\ processing' = [processing EXCEPT ![Head(wait)] = @ + 1]
    /\ pc[w] = "take" /\ pc'[w] = "post" /\ task'[w] = Head(wait)
    /\ OthersRest(w)
    /\ UNCHANGED <<failCount, expiring>>

RemoveStep(w) ==
    /\ pc[w] = "remove"
    /\ processing' = [processing EXCEPT ![task[w]] = 0]
    /\ task'[w] = task[w]
    /\ OthersRest(w)
    /\ UNCHANGED <<wait, failCount, expiring>>

EndStep(w) ==
    /\ pc[w] \in {"clear", "reset"}
    /\ Invalidate(task[w])
    /\ OthersRest(w)
    /\ UNCHANGED <<wait, processing, failCount>>

RequeueStep(w) ==
    /\ pc[w] = "requeue"
    /\ MoveBack(task[w])
    /\ OthersRest(w)
    /\ UNCHANGED <<failCount, expiring>>

CalmStep ==
    \/ RestStep
    \/ \E w \in Workers : TakeStep(w) \/ RemoveStep(w) \/ EndStep(w) \/ RequeueStep(w)

(* A step after which the system is calm found it calm. *)
LEMMA CalmBefore ==
    ASSUME TypeInv, [Next]_vars, Calm'
    PROVE  Calm
<1>1. faults = 0  BY FaultFreeSteps DEF Calm
<1>2. closes \in Nat /\ (closes' = closes \/ closes' = closes + 1)
  <2>1. closes \in Nat  BY ConstantsAssumption DEF TypeInv, TypeOK
  <2>2. ASSUME NEW w \in Workers, Process(w) PROVE closes' = closes \/ closes' = closes + 1
    BY <2>2
    DEF Process, Step, Start, Loop, TakeNothing, EmptyPoll, Take, TakeError,
        PostSuccess, PostRefused, PostError, PostLost, Remove, Clear, Wake, Count,
        Requeue, Reset, MarkStop, MarkQueueStop, DestroyPool, Crash, Exit, vars, history
  <2>3. QED  BY <2>1, <2>2 DEF Next, Offer, Expire, vars, history
<1>3. QED  BY <1>1, <1>2 DEF Calm

(* A step that leaves a calm system calm is of one of these kinds. *)
LEMMA CalmSteps ==
    ASSUME TypeInv, Catches, Open, [Next]_vars, Calm, Calm'
    PROVE  CalmStep /\ Open'
<1> USE DEF redis, thread, history
<1>a. /\ pc \in [Workers -> PCs]
      /\ task \in [Workers -> Tasks \cup {NoTask}]
      /\ closing \in [Workers -> ClosingStages]
      /\ faults = 0 /\ faults' = 0 /\ closes = 0 /\ closes' = 0
      /\ \A v \in Workers : pc[v] \in Busy <=> task[v] \in Tasks
  BY DEF TypeInv, TypeOK, ThreadOK, Calm
<1>b. UNCHANGED thread => \A v \in Workers : SameWork(v)  BY DEF SameWork
<1>c. UNCHANGED closing => Open'  BY DEF Open
<1>1. CASE UNCHANGED vars  BY <1>1, <1>b, <1>c DEF vars, CalmStep, RestStep
<1>2. CASE Offer  BY <1>2, <1>b, <1>c DEF Offer, CalmStep, RestStep
<1>3. ASSUME NEW t \in Tasks, Expire(t) PROVE CalmStep /\ Open'
  BY <1>3, <1>b, <1>c DEF Expire, CalmStep, RestStep
<1>4. ASSUME NEW w \in Workers, Process(w) PROVE CalmStep /\ Open'
  <2>a. ~Fault  BY <1>a DEF Fault
  <2>b. closing[w] = "no" /\ \A out : RedisCall(w, out) => out = "ok"
    BY <2>a DEF RedisCall, Open
  <2>c. ASSUME NEW label, Goto(w, label)
        PROVE  /\ OthersRest(w) /\ task'[w] = task[w] /\ pc'[w] = label
               /\ pc[w] \notin Working \/ label \in Working =>
                     \A v \in Workers : SameWork(v)
    BY <1>a, <2>c DEF Goto, OthersRest, SameWork
  <2>d. ASSUME NEW label, Release(w, label) PROVE OthersRest(w)
    BY <1>a, <2>d DEF Release, OthersRest
  <2>e. ASSUME UNCHANGED redis, \A v \in Workers : SameWork(v) PROVE CalmStep
    BY <2>e DEF CalmStep, RestStep
  <2>1. CASE Start(w) \/ Loop(w) \/ TakeNothing(w)
    BY <2>1, <1>c, <2>c, <2>e DEF Start, Loop, TakeNothing, Working
  <2>2. CASE EmptyPoll(w)  BY <2>2, <1>1 DEF EmptyPoll
  <2>3. CASE Take(w)
    <3>1. /\ pc' = [pc EXCEPT ![w] = "post"] /\ task' = [task EXCEPT ![w] = Head(wait)]
          /\ UNCHANGED closing
      BY <2>3, <2>b DEF Take
    <3>2. OthersRest(w) /\ pc'[w] = "post" /\ task'[w] = Head(wait)
      BY <1>a, <3>1 DEF OthersRest
    <3>3. QED  BY <2>3, <3>1, <3>2, <1>c DEF Take, TakeStep, CalmStep
  <2>4. CASE TakeError(w)  BY <2>4, <2>b DEF TakeError
  <2>5. CASE PostSuccess(w) \/ PostRefused(w) \/ Wake(w)
    BY <2>5, <1>c, <2>c, <2>e DEF PostSuccess, PostRefused, Wake, Working
  <2>6. CASE PostError(w)
    <3>1. w \notin inCatch  BY <2>6 DEF PostError, Catches, CatchPlaces
    <3>2. /\ pc' = [pc EXCEPT ![w] = "sleep"] /\ task' = task
          /\ UNCHANGED redis /\ UNCHANGED closing
      BY <2>6, <3>1 DEF PostError, Throw
    <3>3. \A v \in Workers : SameWork(v)  BY <1>a, <3>2 DEF SameWork, Working
    <3>4. QED  BY <3>2, <3>3, <1>c, <2>e
  <2>7. CASE PostLost(w)  BY <2>7, <2>a DEF PostLost
  <2>8. CASE Remove(w)
    <3>1. /\ Goto(w, "clear") /\ processing' = [processing EXCEPT ![task[w]] = 0]
          /\ UNCHANGED closing
      BY <2>8, <2>b DEF Remove
    <3>2. QED  BY <2>8, <3>1, <1>c, <2>c DEF Remove, RemoveStep, CalmStep
  <2>9. CASE Clear(w) \/ Reset(w)
    <3>1. Release(w, "loop") /\ Invalidate(task[w]) /\ UNCHANGED closing
      BY <2>9, <2>b DEF Clear, Reset
    <3>2. QED  BY <2>9, <3>1, <1>c, <2>d DEF Clear, Reset, EndStep, CalmStep
  <2>10. CASE Count(w)
    <3>1. /\ pc' = [pc EXCEPT ![w] = "requeue"] /\ task' = task
          /\ failCount' = [failCount EXCEPT ![task[w]] = Increment(@)]
          /\ UNCHANGED closing
      BY <2>10, <2>b DEF Count
    <3>2. \A v \in Workers : SameWork(v)  BY <1>a, <3>1 DEF SameWork, Working
    <3>3. QED  BY <2>10, <3>1, <3>2, <1>c DEF Count, RestStep, CalmStep
  <2>11. CASE Requeue(w)
    <3>1. /\ MoveBack(task[w]) /\ UNCHANGED closing
          /\ Release(w, "loop") \/ Goto(w, "reset")
      BY <2>11, <2>b DEF Requeue
    <3>2. QED  BY <2>11, <3>1, <1>c, <2>c, <2>d DEF Requeue, RequeueStep, CalmStep
  <2>12. CASE MarkStop(w) \/ MarkQueueStop(w) \/ DestroyPool(w)
    BY <2>12, <1>a, <2>b DEF MarkStop, MarkQueueStop, DestroyPool
  <2>13. CASE Crash(w)  BY <2>13, <2>a DEF Crash
  <2>14. CASE Exit(w)
    <3>1. Open'  BY <2>14, <1>a DEF Exit, Open
    <3>2. QED  BY <2>14, <3>1, <2>c, <2>e DEF Exit, Working
  <2>15. QED
    BY <1>4, <2>1, <2>2, <2>3, <2>4, <2>5, <2>6, <2>7, <2>8, <2>9, <2>10, <2>11,
       <2>12, <2>13, <2>14
    DEF Process, Step
<1>5. QED  BY <1>1, <1>2, <1>3, <1>4 DEF Next

(* Every kind of step keeps a calm system's list and counters in order. *)
LEMMA CalmInvStep == CalmInv /\ [Next]_vars => CalmInv'
<1> SUFFICES ASSUME CalmInv, [Next]_vars PROVE CalmInv'
  OBVIOUS
<1>a. SoleInv /\ LifeInv /\ TypeInv /\ SingleCopy /\ Catches
  BY DEF CalmInv, SoleInv, LifeInv
<1>b. SoleInv' /\ Catches'  BY <1>a, SoleStep, CatchStep
<1>1. ASSUME Calm' PROVE Open' /\ Claimed' /\ Collected'
  <2>a. Calm  BY <1>a, <1>1, CalmBefore
  <2>b. Open /\ Claimed /\ Collected  BY <2>a DEF CalmInv
  <2>c. CalmStep /\ Open'  BY <1>a, <1>1, <2>a, <2>b, CalmSteps
  <2>d. /\ \A w \in Workers, t \in Tasks : Owns(w, t) <=> task[w] = t /\ pc[w] \in Working
        /\ \A w \in Workers, t \in Tasks :
              Owns(w, t)' <=> task'[w] = t /\ pc'[w] \in Working
    BY <2>b, <2>c DEF Open, Owns, Working
  <2>e. /\ processing \in [Tasks -> Nat] /\ failCount \in [Tasks -> 0..FAIL_TRY_COUNT]
        /\ wait \in Seq(Tasks) /\ offered \in 0..MaxTasks /\ MaxTasks \in Nat
        /\ \A w \in Workers : pc[w] \in Busy => task[w] \in Tasks
        /\ \A t \in Tasks : processing[t] <= 1 /\ (Waiting(t) => processing[t] = 0)
    BY <1>a, ConstantsAssumption DEF TypeInv, TypeOK, ThreadOK, SingleCopy
  <2>f. \A t \in Tasks : processing[t] > 0 =>
           \E w \in Workers : task[w] = t /\ pc[w] \in Working
    BY <2>b, <2>d DEF Claimed
  <2>g. ASSUME NEW t \in Tasks, ~Listed(t), ~Held(t), failCount[t] > 0
        PROVE  t \in expiring
    BY <2>b, <2>g DEF Collected
  <2>1. CASE RestStep
    <3>1. \A v \in Workers : SameWork(v) /\ UNCHANGED processing
      BY <2>1 DEF RestStep
    <3>2. Claimed'
      BY <2>d, <2>f, <3>1, <2>1 DEF Claimed, SameWork, RestStep
    <3>3. \A t \in Tasks : Held(t)' <=> Held(t)  BY <3>1 DEF Held, SameWork
    <3>4. \A t \in Tasks : Waiting(t) => Waiting(t)'
      <4>1. CASE UNCHANGED wait  BY <4>1 DEF Waiting
      <4>2. CASE offered < MaxTasks /\ wait' = Append(wait, offered + 1)
        <5>1. offered + 1 \in Tasks  BY <2>e, <4>2 DEF Tasks
        <5>2. QED  BY <1>a, <4>2, <5>1, WaitingAfterPush
      <4>3. QED  BY <2>1, <4>1, <4>2 DEF RestStep
    <3>5. \A t \in Tasks : Listed(t) => Listed(t)'
      BY <2>1, <3>4 DEF Listed, RestStep
    <3>6. ASSUME NEW t \in Tasks, ~Listed(t)', ~Held(t)', failCount'[t] > 0
          PROVE  t \in expiring'
      <4>1. ~Listed(t) /\ ~Held(t)  BY <3>3, <3>5, <3>6
      <4>2. CASE UNCHANGED <<failCount, expiring>>  BY <2>g, <3>6, <4>1, <4>2
      <4>3. ASSUME NEW u \in Tasks, failCount' = [failCount EXCEPT ![u] = 0],
                   expiring' = expiring \ {u}
            PROVE  t \in expiring'
        BY <2>e, <2>g, <3>6, <4>1, <4>3
      <4>4. ASSUME NEW w \in Workers, pc[w] = "count", UNCHANGED expiring,
                   failCount' = [failCount EXCEPT ![task[w]] = Increment(@)]
            PROVE  t \in expiring'
        <5>1. task[w] # t  BY <4>1 DEF Held
        <5>2. QED  BY <2>e, <2>g, <3>6, <4>1, <4>4, <5>1
      <4>5. QED  BY <2>1, <4>2, <4>3, <4>4 DEF RestStep
    <3>7. QED  BY <2>c, <3>2, <3>6 DEF Collected
  <2>2. ASSUME NEW w \in Workers, TakeStep(w) PROVE Claimed' /\ Collected'
    <3> DEFINE h == Head(wait)
    <3>1. h \in Tasks /\ \A t \in Tasks : Waiting(t)' <=> Waiting(t) /\ t # h
      <4>1. h \in Tasks  BY <2>2, <2>e, RangeOfTail DEF TakeStep
      <4>2. QED  BY <1>a, <2>2, <4>1, WaitingAfterPop DEF TakeStep
    <3>2. /\ \A t \in Tasks :
                processing'[t] = IF t = h THEN processing[t] + 1 ELSE processing[t]
          /\ task'[w] = h /\ pc'[w] = "post" /\ OthersRest(w) /\ pc[w] = "take"
          /\ UNCHANGED <<failCount, expiring>>
      BY <2>2, <2>e, <3>1 DEF TakeStep
    <3> HIDE DEF h
    <3>3. Claimed'
      <4> SUFFICES ASSUME NEW t \in Tasks, processing'[t] > 0
                   PROVE  \E v \in Workers : task'[v] = t /\ pc'[v] \in Working
        BY <2>d DEF Claimed
      <4>1. CASE t = h  BY <3>2, <4>1 DEF Working
      <4>2. CASE t # h
        <5>1. PICK v \in Workers : task[v] = t /\ pc[v] \in Working
          BY <2>f, <3>2, <4>2
        <5>2. v # w  BY <3>2, <5>1 DEF Working
        <5>3. QED  BY <3>2, <5>1, <5>2 DEF OthersRest
      <4>3. QED  BY <4>1, <4>2
    <3>4. task[w] \notin Tasks
      BY <1>a, <3>2 DEF TypeInv, ThreadOK, Busy
    <3>5. ASSUME NEW t \in Tasks, ~Listed(t)', ~Held(t)', failCount'[t] > 0
          PROVE  t \in expiring'
      <4>1. t # h  BY <3>2, <3>5 DEF Held
      <4>2. ~Listed(t)  BY <3>1, <3>2, <3>5, <4>1 DEF Listed
      <4>3. ~Held(t)  BY <3>2, <3>4, <3>5 DEF Held, OthersRest
      <4>4. QED  BY <2>g, <3>2, <3>5, <4>2, <4>3
    <3>6. QED  BY <3>3, <3>5 DEF Collected
  <2>3. ASSUME NEW w \in Workers, RemoveStep(w) PROVE Claimed' /\ Collected'
    <3>1. task[w] \in Tasks  BY <2>3, <2>e DEF RemoveStep, Busy
    <3>2. /\ \A t \in Tasks : processing'[t] = IF t = task[w] THEN 0 ELSE processing[t]
          /\ task'[w] = task[w] /\ OthersRest(w) /\ UNCHANGED <<wait, failCount, expiring>>
      BY <2>3, <2>e, <3>1 DEF RemoveStep
    <3>3. Claimed'
      <4> SUFFICES ASSUME NEW t \in Tasks, processing'[t] > 0
                   PROVE  \E v \in Workers : task'[v] = t /\ pc'[v] \in Working
        BY <2>d DEF Claimed
      <4>1. t # task[w] /\ processing[t] > 0  BY <3>2
      <4>2. PICK v \in Workers : task[v] = t /\ pc[v] \in Working  BY <2>f, <4>1
      <4>3. QED  BY <3>2, <4>1, <4>2 DEF OthersRest
    <3>4. ASSUME NEW t \in Tasks, ~Listed(t)', ~Held(t)', failCount'[t] > 0
          PROVE  t \in expiring'
      <4>1. ~Held(t) /\ t # task[w]  BY <3>2, <3>4 DEF Held, OthersRest
      <4>2. ~Listed(t)  BY <3>2, <3>4, <4>1 DEF Listed, Waiting
      <4>3. QED  BY <2>g, <3>2, <3>4, <4>1, <4>2
    <3>5. QED  BY <3>3, <3>4 DEF Collected
  <2>4. ASSUME NEW w \in Workers, EndStep(w) PROVE Claimed' /\ Collected'
    <3>1. task[w] \in Tasks  BY <2>4, <2>e DEF EndStep, Busy
    <3>2. /\ OthersRest(w) /\ UNCHANGED <<wait, processing, failCount>>
          /\ pc[w] \notin Working
          /\ expiring \subseteq expiring'
          /\ failCount[task[w]] > 0 => task[w] \in expiring'
      BY <2>4 DEF EndStep, Invalidate, Working
    <3>3. Claimed'
      <4> SUFFICES ASSUME NEW t \in Tasks, processing'[t] > 0
                   PROVE  \E v \in Workers : task'[v] = t /\ pc'[v] \in Working
        BY <2>d DEF Claimed
      <4>1. PICK v \in Workers : task[v] = t /\ pc[v] \in Working  BY <2>f, <3>2
      <4>2. QED  BY <3>2, <4>1 DEF OthersRest
    <3>4. ASSUME NEW t \in Tasks, ~Listed(t)', ~Held(t)', failCount'[t] > 0
          PROVE  t \in expiring'
      <4>1. CASE t = task[w]  BY <3>2, <3>4, <4>1
      <4>2. CASE t # task[w]
        <5>1. ~Held(t)  BY <3>2, <3>4, <4>2 DEF Held, OthersRest
        <5>2. ~Listed(t)  BY <3>2, <3>4 DEF Listed, Waiting
        <5>3. QED  BY <2>g, <3>2, <3>4, <5>1, <5>2
      <4>3. QED  BY <4>1, <4>2
    <3>5. QED  BY <3>3, <3>4 DEF Collected
  <2>5. ASSUME NEW w \in Workers, RequeueStep(w) PROVE Claimed' /\ Collected'
    <3>1. task[w] \in Tasks  BY <2>5, <2>e DEF RequeueStep, Busy
    <3>2. processing[task[w]] = 1
      <4>1. Owns(w, task[w])  BY <2>5, <2>d, <3>1 DEF RequeueStep, Working
      <4>2. Sole  BY <1>a, <2>a DEF SoleInv, Calm
      <4>3. QED  BY <2>e, <3>1, <4>1, <4>2 DEF Sole
    <3>3. /\ \A t \in Tasks : processing'[t] = IF t = task[w] THEN 0 ELSE processing[t]
          /\ wait' = Append(wait, task[w])
          /\ OthersRest(w) /\ UNCHANGED <<failCount, expiring>>
      BY <2>5, <2>e, <3>1, <3>2 DEF RequeueStep, MoveBack
    <3>4. \A t \in Tasks : Waiting(t)' <=> Waiting(t) \/ t = task[w]
      BY <1>a, <3>1, <3>3, WaitingAfterPush
    <3>5. Claimed'
      <4> SUFFICES ASSUME NEW t \in Tasks, processing'[t] > 0
                   PROVE  \E v \in Workers : task'[v] = t /\ pc'[v] \in Working
        BY <2>d DEF Claimed
      <4>1. t # task[w] /\ processing[t] > 0  BY <3>3
      <4>2. PICK v \in Workers : task[v] = t /\ pc[v] \in Working  BY <2>f, <4>1
      <4>3. QED  BY <3>3, <4>1, <4>2 DEF OthersRest
    <3>6. ASSUME NEW t \in Tasks, ~Listed(t)', ~Held(t)', failCount'[t] > 0
          PROVE  t \in expiring'
      <4>1. t # task[w]  BY <3>4, <3>6 DEF Listed
      <4>2. ~Listed(t)  BY <3>3, <3>4, <3>6, <4>1 DEF Listed
      <4>3. ~Held(t)  BY <3>3, <3>6, <4>1 DEF Held, OthersRest
      <4>4. QED  BY <2>g, <3>3, <3>6, <4>2, <4>3
    <3>7. QED  BY <3>5, <3>6 DEF Collected
  <2>6. QED  BY <2>c, <2>1, <2>2, <2>3, <2>4, <2>5 DEF CalmStep
<1>2. QED  BY <1>b, <1>1 DEF CalmInv

(* The calm invariant holds in every behaviour. *)
LEMMA CalmInvariant == Spec => []CalmInv
BY CalmInit, CalmInvStep, PTL DEF Spec

(* Until something fails or a process is told to stop, the processing list  *)
(* is exactly the work that some process is going to remove or move back.  *)
THEOREM OwnedHolds == Spec => []ProcessingOwned
<1>1. CalmInv => ProcessingOwned
  BY DEF CalmInv, SoleInv, Sole, Calm, Claimed, ProcessingOwned
<1>2. QED  BY <1>1, CalmInvariant, PTL

(* Until then, too, a retry counter is left behind by no task. *)
THEOREM CollectedHolds == Spec => []CounterCollected
<1>1. CalmInv => CounterCollected
  BY DEF CalmInv, Calm, Collected, CounterCollected
<1>2. QED  BY <1>1, CalmInvariant, PTL

-----------------------------------------------------------------------------
(* A task in hand is let go *)

(* The thread runs while its process does, and its posts and Redis commands *)
(* end, well or not.                                                       *)
ThreadRuns(w) == [](pc[w] \in Busy => <><<Step(w) \/ Crash(w)>>_vars)

(* A consumer that throws goes to the catch block, but only once. *)
Thrown(w) ==
    \/ pc'[w] \notin Busy
    \/ w \notin inCatch /\ pc'[w] = "sleep" /\ w \in inCatch'

(* What a busy consumer's own step comes to. *)
LEMMA WorkSteps ==
    ASSUME TypeInv, Catches, NEW w \in Workers, Step(w), pc[w] \in Busy
    PROVE  \/ Thrown(w)
           \/ /\ w \in inCatch' <=> w \in inCatch
              /\ \/ pc[w] = "post" /\ pc'[w] \in {"remove", "count"}
                 \/ pc[w] = "remove" /\ pc'[w] = "clear"
                 \/ pc[w] = "sleep" /\ pc'[w] = "count"
                 \/ pc[w] = "count" /\ pc'[w] = "requeue"
                 \/ pc[w] = "requeue" /\ pc'[w] = "reset"
<1>a. pc \in [Workers -> PCs] /\ inCatch \in SUBSET Workers
  BY DEF TypeInv, TypeOK
<1>t. ASSUME Throw(w) PROVE Thrown(w)
  BY <1>a, <1>t DEF Throw, Release, Thrown, Busy
<1>r. ASSUME Release(w, "loop") PROVE Thrown(w)
  BY <1>a, <1>r DEF Release, Thrown, Busy
<1>g. ASSUME NEW label, Goto(w, label)
      PROVE  pc'[w] = label /\ (w \in inCatch' <=> w \in inCatch)
  BY <1>a, <1>g DEF Goto
<1>1. CASE PostSuccess(w) \/ PostRefused(w) \/ Wake(w)
  BY <1>1, <1>g DEF PostSuccess, PostRefused, Wake
<1>2. CASE PostError(w) \/ PostLost(w)  BY <1>2, <1>t DEF PostError, PostLost
<1>3. CASE Remove(w) \/ Clear(w) \/ Reset(w)
  BY <1>3, <1>t, <1>r, <1>g DEF Remove, Clear, Reset
<1>4. CASE Count(w)
  <2>1. CASE Throw(w)  BY <1>t, <2>1
  <2>2. CASE ~Throw(w)  BY <1>4, <1>a, <2>2 DEF Count
  <2>3. QED  BY <2>1, <2>2
<1>5. CASE Requeue(w)  BY <1>5, <1>t, <1>r, <1>g DEF Requeue
<1>6. CASE Loop(w) \/ TakeNothing(w) \/ EmptyPoll(w) \/ Take(w) \/ TakeError(w)
  BY <1>6 DEF Loop, TakeNothing, EmptyPoll, Take, TakeError, Busy
<1>7. QED  BY <1>1, <1>2, <1>3, <1>4, <1>5, <1>6 DEF Step

(* Nobody else moves a consumer that has not ended, except that its process *)
(* may be started or crash.                                                *)
LEMMA OthersSpare ==
    ASSUME TypeInv, NEW v \in Workers, [Next]_vars, ~Step(v),
           pc[v] \notin {"dead", "stopped"}, pc[v] = "off" => ~Start(v)
    PROVE  Crash(v) \/ (pc'[v] = pc[v] /\ (v \in inCatch' <=> v \in inCatch))
<1> USE DEF redis, thread, history
<1>a. pc \in [Workers -> PCs] /\ inCatch \in SUBSET Workers
  BY DEF TypeInv, TypeOK
<1>1. CASE UNCHANGED thread  BY <1>1
<1>2. CASE Offer \/ (\E t \in Tasks : Expire(t)) \/ UNCHANGED vars
  BY <1>1, <1>2 DEF Offer, Expire, vars
<1>3. ASSUME NEW w \in Workers, MarkStop(w) \/ MarkQueueStop(w) \/ DestroyPool(w)
      PROVE  UNCHANGED thread
  BY <1>3 DEF MarkStop, MarkQueueStop, DestroyPool
<1>g. ASSUME NEW w \in Workers \ {v}, NEW label, Goto(w, label) \/ Release(w, label)
      PROVE  pc'[v] = pc[v] /\ (v \in inCatch' <=> v \in inCatch)
  BY <1>a, <1>g DEF Goto, Release
<1>t. ASSUME NEW w \in Workers \ {v}, Throw(w)
      PROVE  pc'[v] = pc[v] /\ (v \in inCatch' <=> v \in inCatch)
  <2>1. CASE Release(w, "dead")  BY <1>g, <2>1
  <2>2. CASE ~Release(w, "dead")  BY <1>a, <1>t, <2>2 DEF Throw
  <2>3. QED  BY <2>1, <2>2
<1>4. ASSUME NEW w \in Workers \ {v}, Step(w)
      PROVE  pc'[v] = pc[v] /\ (v \in inCatch' <=> v \in inCatch)
  <2>1. CASE Loop(w) \/ TakeNothing(w) \/ PostSuccess(w) \/ PostRefused(w) \/ Wake(w)
    BY <1>g, <2>1 DEF Loop, TakeNothing, PostSuccess, PostRefused, Wake
  <2>2. CASE EmptyPoll(w) \/ TakeError(w)  BY <1>1, <2>2 DEF EmptyPoll, TakeError, vars
  <2>3. CASE Take(w)  BY <1>1, <1>a, <2>3 DEF Take
  <2>4. CASE PostError(w) \/ PostLost(w)  BY <1>t, <2>4 DEF PostError, PostLost
  <2>5. CASE Remove(w) \/ Clear(w) \/ Requeue(w) \/ Reset(w)
    BY <1>g, <1>t, <2>5 DEF Remove, Clear, Requeue, Reset
  <2>6. CASE Count(w)
    <3>1. CASE Throw(w)  BY <1>t, <3>1
    <3>2. CASE ~Throw(w)  BY <1>a, <2>6, <3>2 DEF Count
    <3>3. QED  BY <3>1, <3>2
  <2>7. QED  BY <1>4, <2>1, <2>2, <2>3, <2>4, <2>5, <2>6 DEF Step
<1>5. ASSUME NEW w \in Workers, Start(w) \/ Crash(w) \/ Exit(w)
      PROVE  Crash(v) \/ (pc'[v] = pc[v] /\ (v \in inCatch' <=> v \in inCatch))
  <2>1. CASE w = v
    BY <1>5, <2>1 DEF Start, Exit
  <2>2. CASE w # v
    BY <1>g, <1>5, <2>2 DEF Start, Crash, Exit
  <2>3. QED  BY <2>1, <2>2
<1>6. QED  BY <1>1, <1>2, <1>3, <1>4, <1>5 DEF Next, Process

HandInv == TypeInv /\ Catches

(* A thread that runs comes to the end of what it does with a task. *)
LEMMA HandEmpties ==
    ASSUME NEW w \in Workers
    PROVE  []HandInv /\ [][Next]_vars /\ ThreadRuns(w)
               => (task[w] # NoTask ~> task[w] = NoTask)
<1> DEFINE Hand == pc[w] \in Busy
           Post == pc[w] = "post"
           Rem == pc[w] = "remove"
           Clr == pc[w] = "clear"
           Sleep == pc[w] = "sleep"
           Cnt == pc[w] = "count"
           Req == pc[w] = "requeue"
           Rst == pc[w] = "reset"
           Catch == w \in inCatch
           Full == task[w] # NoTask
           Empty == task[w] = NoTask
<1>1. Hand <=> Post \/ Rem \/ Clr \/ Sleep \/ Cnt \/ Req \/ Rst
  BY DEF Busy
<1>2. HandInv => (Full <=> Hand) /\ (Empty <=> ~Hand)
  BY NoTaskIsNone DEF HandInv, TypeInv, ThreadOK
<1>c. HandInv /\ Crash(w) => ~Hand'
  BY DEF HandInv, TypeInv, TypeOK, Crash, Release, Busy
<1>3. HandInv /\ [Next]_vars /\ Hand /\ ~Step(w) =>
         \/ ~Hand'
         \/ /\ Catch' <=> Catch
            /\ (Post => Post') /\ (Rem => Rem') /\ (Clr => Clr') /\ (Sleep => Sleep')
            /\ (Cnt => Cnt') /\ (Req => Req') /\ (Rst => Rst')
  BY <1>c, OthersSpare DEF HandInv, Busy
<1>4. HandInv /\ Step(w) /\ Hand =>
         \/ ~Hand'
         \/ ~Catch /\ Sleep' /\ Catch'
         \/ /\ Catch' <=> Catch
            /\ Post => Rem' \/ Cnt'
            /\ Rem => Clr'
            /\ Sleep => Cnt'
            /\ Cnt => Req'
            /\ Req => Rst'
            /\ ~Clr /\ ~Rst
  BY WorkSteps DEF HandInv, Thrown
<1> HIDE DEF Hand, Post, Rem, Clr, Sleep, Cnt, Req, Rst, Catch, Full, Empty
<1>6. ThreadRuns(w) => [](Hand => <><<Step(w) \/ Crash(w)>>_vars)
  BY PTL DEF ThreadRuns, Hand
<1>7. []HandInv /\ [][Next]_vars /\ ThreadRuns(w) => (Hand ~> ~Hand)
  BY <1>c, <1>1, <1>3, <1>4, <1>6, PTL
<1>8. []HandInv /\ [][Next]_vars /\ ThreadRuns(w) => (Full ~> Empty)
  BY <1>2, <1>7, PTL
<1>9. QED  BY <1>8, PTL DEF Full, Empty

(* Whatever epark and Redis answer, or do not, a consumer that has a task   *)
(* in hand comes to have none: no failure makes it go round for ever, for   *)
(* one that fails in the catch block ends.                                 *)
THEOREM HandsAreFreed ==
    ASSUME NEW w \in Workers
    PROVE  Spec /\ ThreadRuns(w) => (task[w] # NoTask ~> task[w] = NoTask)
<1>1. CalmInv => HandInv  BY DEF CalmInv, SoleInv, LifeInv, HandInv
<1>2. QED  BY <1>1, CalmInvariant, HandEmpties, PTL DEF Spec

(* The conjunct of Fairness for a process gives ThreadRuns, if Step(w) is    *)
(* enabled where a task is in hand: a premise here, for the provers have no *)
(* rules for ENABLED; the guards of the steps at the seven places say it.   *)
LEMMA FairnessRuns ==
    ASSUME NEW w \in Workers
    PROVE  Spec /\ WF_vars(Step(w)) /\ [](pc[w] \in Busy => ENABLED <<Step(w)>>_vars)
               => ThreadRuns(w)
<1> DEFINE Hand == pc[w] \in Busy
<1>1. TypeInv /\ [Next]_vars /\ Hand => Hand' \/ <<Step(w) \/ Crash(w)>>_vars
  <2> SUFFICES ASSUME TypeInv, [Next]_vars, Hand, ~Hand'
               PROVE  <<Step(w) \/ Crash(w)>>_vars
    OBVIOUS
  <2>1. Step(w) \/ Crash(w)  BY OthersSpare DEF Busy
  <2>2. vars' # vars  BY DEF vars, thread
  <2>3. QED  BY <2>1, <2>2
<1>2. <<Step(w)>>_vars => <<Step(w) \/ Crash(w)>>_vars
  OBVIOUS
<1>3. Spec => []TypeInv
  <2>1. LifeInv => TypeInv  BY DEF LifeInv
  <2>2. QED  BY <2>1, LifeInvariant, PTL
<1> HIDE DEF Hand
<1>4. Spec /\ WF_vars(Step(w)) /\ [](Hand => ENABLED <<Step(w)>>_vars)
         => [](Hand => <><<Step(w) \/ Crash(w)>>_vars)
  BY <1>1, <1>2, <1>3, PTL DEF Spec
<1>5. QED  BY <1>4, PTL DEF Hand, ThreadRuns

-----------------------------------------------------------------------------
(* A waiting task moves up *)

(* Where a thread waits for nothing: with a task in hand, on its way to the *)
(* list, or at a list that is not empty.                                   *)
Ready(w) ==
    \/ pc[w] \in Busy \cup {"loop"}
    \/ pc[w] = "take" /\ wait # <<>>

(* A process that is down is started, and its thread runs on where it waits *)
(* for nothing: the weak fairness of FairSpec, with guards for ENABLED.     *)
RunsOn(w) ==
    /\ [](pc[w] = "off" => <><<Start(w)>>_vars)
    /\ [](Ready(w) => <>(~Ready(w)) \/ <><<Step(w)>>_vars)

(* The thread that took task t posts it. *)
Posted(t) == \E w \in Workers : task[w] = t /\ pc[w] = "post"

AtPlace(t, k) == k \in 1..Len(wait) /\ wait[k] = t

(* Some thread takes the head of the list. *)
Pop == \E w \in Workers : TakeStep(w)

(* In a calm system no thread ever ends. *)
Alive == \A w \in Workers : pc[w] \in Busy \cup {"off", "loop", "take"}

(* How a thread of a calm system goes round. *)
Round(w) ==
    \/ pc'[w] = pc[w]
    \/ pc[w] = "off" /\ pc'[w] = "loop"
    \/ pc[w] = "loop" /\ pc'[w] = "take"
    \/ pc[w] = "take" /\ pc'[w] = "post"
    \/ pc[w] \in Busy /\ pc'[w] \in Busy \cup {"loop"}

LEMMA CalmRounds ==
    ASSUME TypeInv, Catches, Open, Alive, [Next]_vars, Calm, Calm', NEW v \in Workers
    PROVE  Round(v)
<1> USE DEF Round, redis, thread, history
<1>a. /\ pc \in [Workers -> PCs] /\ faults = 0 /\ faults' = 0
  BY DEF TypeInv, TypeOK, Calm
<1>f. ~Fault  BY <1>a DEF Fault
<1>1. CASE UNCHANGED vars  BY <1>1 DEF vars
<1>2. CASE Offer \/ \E t \in Tasks : Expire(t)  BY <1>2 DEF Offer, Expire
<1>3. ASSUME NEW w \in Workers, Process(w) PROVE Round(v)
  <2>a. closing[w] = "no" /\ \A out : RedisCall(w, out) => out = "ok"
    BY <1>f DEF RedisCall, Open
  <2>b. ASSUME NEW label, Goto(w, label) \/ Release(w, label)
        PROVE  IF v = w THEN pc'[v] = label ELSE pc'[v] = pc[v]
    <3>1. pc' = [pc EXCEPT ![w] = label]  BY <2>b DEF Goto, Release
    <3>2. QED  BY <1>a, <3>1
  <2>1. CASE Start(w)  BY <2>1, <2>b DEF Start
  <2>2. CASE Loop(w)  BY <2>2, <2>a, <2>b DEF Loop
  <2>3. CASE TakeNothing(w) \/ EmptyPoll(w) \/ TakeError(w)
    BY <2>3, <2>a, <1>1 DEF TakeNothing, EmptyPoll, TakeError
  <2>4. CASE Take(w)
    <3>1. pc' = [pc EXCEPT ![w] = "post"] /\ pc[w] = "take"  BY <2>4, <2>a DEF Take
    <3>2. QED  BY <3>1, <1>a
  <2>5. CASE PostSuccess(w) \/ PostRefused(w) \/ Wake(w)
    BY <2>5, <2>b DEF PostSuccess, PostRefused, Wake, Busy
  <2>6. CASE PostError(w)
    <3>1. w \notin inCatch  BY <2>6 DEF PostError, Catches, CatchPlaces
    <3>2. pc' = [pc EXCEPT ![w] = "sleep"] /\ pc[w] = "post"
      BY <2>6, <3>1 DEF PostError, Throw
    <3>3. QED  BY <3>2, <1>a DEF Busy
  <2>7. CASE PostLost(w) \/ Crash(w)  BY <2>7, <1>f DEF PostLost, Crash
  <2>8. CASE Remove(w)  BY <2>8, <2>a, <2>b DEF Remove, Busy
  <2>9. CASE Clear(w) \/ Reset(w)  BY <2>9, <2>a, <2>b DEF Clear, Reset, Busy
  <2>10. CASE Count(w)
    <3>1. pc' = [pc EXCEPT ![w] = "requeue"] /\ pc[w] = "count"  BY <2>10, <2>a DEF Count
    <3>2. QED  BY <3>1, <1>a DEF Busy
  <2>11. CASE Requeue(w)  BY <2>11, <2>a, <2>b DEF Requeue, Busy
  <2>12. CASE MarkStop(w) \/ MarkQueueStop(w) \/ DestroyPool(w)
    BY <2>12 DEF MarkStop, MarkQueueStop, DestroyPool
  <2>13. CASE Exit(w)  BY <2>13 DEF Exit, Alive, Busy
  <2>14. QED
    BY <1>3, <2>1, <2>2, <2>3, <2>4, <2>5, <2>6, <2>7, <2>8, <2>9, <2>10, <2>11,
       <2>12, <2>13 DEF Process, Step
<1>4. QED  BY <1>1, <1>2, <1>3 DEF Next

(* A calm system stays calm in the sense of Open and Alive too. *)
RoundInv == CalmInv /\ (Calm => Alive)

LEMMA RoundInvariant == Spec => []RoundInv
<1>1. Init => Alive  BY DEF Init, Alive
<1>2. RoundInv /\ [Next]_vars => (Calm => Alive)'
  <2> SUFFICES ASSUME RoundInv, [Next]_vars, Calm' PROVE Alive'
    OBVIOUS
  <2>1. TypeInv /\ Catches /\ CalmInv  BY DEF RoundInv, CalmInv, SoleInv, LifeInv
  <2>2. Calm  BY <2>1, CalmBefore
  <2>3. Open /\ Alive  BY <2>1, <2>2 DEF RoundInv, CalmInv
  <2>4. \A v \in Workers : Round(v)  BY <2>1, <2>2, <2>3, CalmRounds
  <2>5. QED  BY <2>3, <2>4 DEF Alive, Round, Busy
<1>3. QED  BY <1>1, <1>2, CalmInvariant, PTL DEF Spec, RoundInv

(* What an idle thread's own step does in a calm system. *)
LEMMA IdleSteps ==
    ASSUME TypeInv, Open, Calm, Calm', NEW w \in Workers, <<Step(w)>>_vars
    PROVE  /\ pc[w] = "loop" => pc'[w] = "take"
           /\ pc[w] = "take" => Pop
<1>a. pc \in [Workers -> PCs] /\ task \in [Workers -> Tasks \cup {NoTask}]
  BY DEF TypeInv, TypeOK
<1>b. closing[w] = "no" /\ \A out : RedisCall(w, out) => out = "ok"
  BY DEF RedisCall, Open, Fault, Calm
<1>1. CASE pc[w] = "loop"
  <2>1. Loop(w)
    BY <1>1 DEF Step, Loop, TakeNothing, EmptyPoll, Take, TakeError, PostSuccess,
       PostRefused, PostError, PostLost, Remove, Clear, Wake, Count, Requeue, Reset
  <2>2. QED  BY <1>1, <1>a, <1>b, <2>1 DEF Loop, Goto
<1>2. CASE pc[w] = "take"
  <2>1. TakeNothing(w) \/ EmptyPoll(w) \/ Take(w) \/ TakeError(w)
    BY <1>2 DEF Step, Loop, PostSuccess,
       PostRefused, PostError, PostLost, Remove, Clear, Wake, Count, Requeue, Reset
  <2>2. Take(w)  BY <1>b, <2>1 DEF TakeNothing, EmptyPoll, TakeError
  <2>3. pc' = [pc EXCEPT ![w] = "post"] /\ task' = [task EXCEPT ![w] = Head(wait)]
    BY <1>b, <2>2 DEF Take
  <2>4. OthersRest(w) /\ pc'[w] = "post" /\ task'[w] = Head(wait)
    BY <1>a, <2>3 DEF OthersRest
  <2>5. QED  BY <2>2, <2>4 DEF Take, TakeStep, Pop
<1>3. QED  BY <1>1, <1>2

(* Where the tasks of the list are after a calm step. *)
LEMMA PlaceSteps ==
    ASSUME TypeInv, CalmStep, NEW t \in Tasks, NEW k \in Nat \ {0}, AtPlace(t, k)
    PROVE  IF ~Pop THEN AtPlace(t, k)'
           ELSE IF k = 1 THEN Posted(t)' ELSE AtPlace(t, k - 1)'
<1>a. wait \in Seq(Tasks) /\ k \in 1..Len(wait) /\ wait[k] = t
  BY DEF TypeInv, TypeOK, AtPlace
<1>1. ASSUME NEW w \in Workers, TakeStep(w)
      PROVE  IF k = 1 THEN Posted(t)' ELSE AtPlace(t, k - 1)'
  <2>1. CASE k = 1  BY <1>a, <1>1, <2>1 DEF TakeStep, Posted
  <2>2. CASE k # 1  BY <1>a, <1>1, <2>2 DEF TakeStep, AtPlace
  <2>3. QED  BY <2>1, <2>2
<1>2. CASE Pop  BY <1>1, <1>2 DEF Pop
<1>3. CASE ~Pop
  <2>1. ASSUME NEW u, u \in Tasks, wait' = Append(wait, u) PROVE AtPlace(t, k)'
    BY <1>a, <2>1 DEF AtPlace
  <2>2. wait' = wait => AtPlace(t, k)'  BY <1>a DEF AtPlace
  <2>3. CASE RestStep
    <3>1. offered < MaxTasks => offered + 1 \in Tasks
      BY ConstantsAssumption DEF TypeInv, TypeOK, Tasks
    <3>2. QED  BY <1>3, <2>1, <2>2, <2>3, <3>1 DEF RestStep
  <2>4. ASSUME NEW w \in Workers, RemoveStep(w) \/ EndStep(w) PROVE AtPlace(t, k)'
    BY <2>2, <2>4 DEF RemoveStep, EndStep
  <2>5. ASSUME NEW w \in Workers, RequeueStep(w) PROVE AtPlace(t, k)'
    <3>1. task[w] \in Tasks
      BY <2>5 DEF RequeueStep, TypeInv, ThreadOK, Busy
    <3>2. QED  BY <2>1, <2>2, <2>5, <3>1 DEF RequeueStep, MoveBack
  <2>6. QED  BY <1>3, <2>3, <2>4, <2>5 DEF CalmStep, Pop
<1>4. QED  BY <1>2, <1>1, <1>3 DEF Pop

CalmRoundInv == RoundInv /\ Calm

LEMMA CalmRoundInvs == CalmRoundInv => HandInv /\ Open /\ Alive /\ Calm
BY DEF CalmRoundInv, RoundInv, CalmInv, SoleInv, LifeInv, HandInv

(* In a calm system RunsOn gives ThreadRuns. *)
LEMMA RunsOnWithTask ==
    ASSUME NEW w \in Workers
    PROVE  []CalmRoundInv /\ [][Next]_vars /\ RunsOn(w) => ThreadRuns(w)
<1> DEFINE Hand == pc[w] \in Busy
           Go == Ready(w)
<1>1. CalmRoundInv /\ [Next]_vars /\ Hand => Hand' \/ <<Step(w) \/ Crash(w)>>_vars
  <2> SUFFICES ASSUME CalmRoundInv, [Next]_vars, Hand, ~Hand'
               PROVE  <<Step(w) \/ Crash(w)>>_vars
    OBVIOUS
  <2>1. Step(w) \/ Crash(w)  BY OthersSpare, CalmRoundInvs DEF HandInv, Busy
  <2>2. vars' # vars  BY DEF vars, thread
  <2>3. QED  BY <2>1, <2>2
<1>2. <<Step(w)>>_vars => <<Step(w) \/ Crash(w)>>_vars
  OBVIOUS
<1>3. Hand => Go  BY DEF Ready
<1> HIDE DEF Hand, Go
<1>4. RunsOn(w) => [](Go => <>(~Go) \/ <><<Step(w)>>_vars)
  BY PTL DEF RunsOn, Go
<1>5. []CalmRoundInv /\ [][Next]_vars /\ RunsOn(w)
          => [](Hand => <><<Step(w) \/ Crash(w)>>_vars)
  BY <1>1, <1>2, <1>3, <1>4, PTL
<1>6. QED  BY <1>5, PTL DEF ThreadRuns, Hand

(* As long as one thread runs on, the list does not stand still. *)
LEMMA ListIsPopped ==
    ASSUME NEW w \in Workers
    PROVE  []CalmRoundInv /\ [][Next]_vars /\ RunsOn(w)
               => [](wait # <<>> => <><<Pop>>_vars)
<1> DEFINE Inv == TypeInv /\ Catches /\ Open /\ Alive /\ Calm
           Some == wait # <<>>
           Off == pc[w] = "off"
           Back == pc[w] = "loop"
           Takes == pc[w] = "take"
           Hand == pc[w] \in Busy
           Go == Ready(w)
           Full == task[w] # NoTask
           Empty == task[w] = NoTask
<1>1. CalmRoundInv => Inv  BY CalmRoundInvs DEF HandInv
<1>2. Inv => /\ Off \/ Back \/ Takes \/ Hand
             /\ ~(Hand /\ Back) /\ ~(Hand /\ Takes) /\ ~(Back /\ Takes)
             /\ ~(Off /\ Hand) /\ ~(Off /\ Back) /\ ~(Off /\ Takes)
             /\ Go <=> Hand \/ Back \/ (Takes /\ Some)
             /\ Full <=> Hand
             /\ Empty <=> ~Hand
  BY NoTaskIsNone DEF Alive, Busy, Ready, TypeInv, ThreadOK
<1>3. Inv /\ Inv' /\ [Next]_vars /\ ~<<Pop>>_vars =>
         /\ Some => Some'
         /\ Hand => Hand' \/ Back'
         /\ Back => Back' \/ Takes'
         /\ Off => Off' \/ Back'
         /\ Some /\ Takes => Takes'
  <2> SUFFICES ASSUME Inv, Inv', [Next]_vars, ~<<Pop>>_vars
               PROVE  /\ Some => Some'
                      /\ Hand => Hand' \/ Back'
                      /\ Back => Back' \/ Takes'
                      /\ Off => Off' \/ Back'
                      /\ Some /\ Takes => Takes'
    OBVIOUS
  <2>1. Round(w)  BY CalmRounds
  <2>2. CalmStep  BY CalmSteps
  <2>3. ~Pop
    <3>1. Pop => vars' # vars  BY DEF Pop, TakeStep, vars, thread
    <3>2. QED  BY <3>1
  <2>4. Some => Some'
    <3>1. SUFFICES ASSUME Some PROVE Some'
      OBVIOUS
    <3>2. Head(wait) \in Tasks /\ AtPlace(Head(wait), 1)
      BY <3>1 DEF TypeInv, TypeOK, AtPlace
    <3>3. PICK t \in Tasks : AtPlace(t, 1)'  BY <2>2, <2>3, <3>2, PlaceSteps
    <3>4. QED  BY <3>3 DEF AtPlace
  <2>5. Takes => Takes'
    <3>1. SUFFICES ASSUME Takes, pc'[w] = "post" PROVE FALSE
      BY <2>1 DEF Round, Busy
    <3>2. task[w] \notin Tasks /\ task'[w] \in Tasks
      BY <3>1 DEF TypeInv, ThreadOK, Busy
    <3>3. QED
      BY <2>2, <2>3, <3>1, <3>2
      DEF CalmStep, RestStep, SameWork, Pop, RemoveStep, EndStep, RequeueStep, OthersRest
  <2>6. QED  BY <2>1, <2>4, <2>5 DEF Round, Busy
<1>4. Inv /\ Inv' /\ <<Step(w)>>_vars => (Back => Takes') /\ (Takes => <<Pop>>_vars)
  BY IdleSteps
<1>5. Inv /\ Inv' /\ Off /\ <<Start(w)>>_vars => Back'
  BY DEF Start, Goto, TypeInv, TypeOK
<1> HIDE DEF Inv, Some, Off, Back, Takes, Hand, Go, Full, Empty
<1>6. []CalmRoundInv /\ [][Next]_vars /\ RunsOn(w) => (Hand ~> ~Hand)
  <2>1. []HandInv /\ [][Next]_vars /\ ThreadRuns(w) => (Full ~> Empty)
    BY HandEmpties DEF Full, Empty
  <2>2. CalmRoundInv => HandInv  BY CalmRoundInvs
  <2>3. QED  BY <1>1, <1>2, <2>1, <2>2, RunsOnWithTask, PTL
<1>7. RunsOn(w) => /\ [](Off => <><<Start(w)>>_vars)
                   /\ [](Go => <>(~Go) \/ <><<Step(w)>>_vars)
  BY PTL DEF RunsOn, Off, Go
<1>8. []CalmRoundInv /\ [][Next]_vars /\ RunsOn(w) => [](Some => <><<Pop>>_vars)
  BY <1>1, <1>2, <1>3, <1>4, <1>5, <1>6, <1>7, PTL
<1>9. QED  BY <1>8, PTL DEF Some

PopsGoOn == [](wait # <<>> => <><<Pop>>_vars)

(* One place of the list. *)
LEMMA PlaceIsLeft ==
    ASSUME NEW t \in Tasks, NEW k \in Nat \ {0}
    PROVE  []CalmRoundInv /\ [][Next]_vars /\ PopsGoOn =>
               /\ AtPlace(t, 1) ~> Posted(t)
               /\ AtPlace(t, k + 1) ~> AtPlace(t, k)
<1> DEFINE Some == wait # <<>>
           First == AtPlace(t, 1)
           Here == AtPlace(t, k + 1)
           Higher == AtPlace(t, k)
           Gone == Posted(t)
<1>1. CalmRoundInv /\ CalmRoundInv' /\ [Next]_vars =>
          /\ First => First' \/ Gone'
          /\ First /\ <<Pop>>_vars => Gone'
          /\ Here => Here' \/ Higher'
          /\ Here /\ <<Pop>>_vars => Higher'
  <2> SUFFICES ASSUME CalmRoundInv, CalmRoundInv', [Next]_vars
               PROVE  /\ First => First' \/ Gone'
                      /\ First /\ <<Pop>>_vars => Gone'
                      /\ Here => Here' \/ Higher'
                      /\ Here /\ <<Pop>>_vars => Higher'
    OBVIOUS
  <2>0. TypeInv /\ Catches /\ Open /\ Calm /\ Calm'
    BY DEF CalmRoundInv, RoundInv, CalmInv, SoleInv, LifeInv
  <2>1. CalmStep  BY <2>0, CalmSteps
  <2>2. First => IF ~Pop THEN First' ELSE Gone'  BY <2>0, <2>1, PlaceSteps
  <2>3. Here => IF ~Pop THEN Here' ELSE Higher'
    <3>1. k + 1 \in Nat \ {0} /\ k + 1 # 1 /\ (k + 1) - 1 = k
      OBVIOUS
    <3>2. Here => IF ~Pop THEN AtPlace(t, k + 1)' ELSE AtPlace(t, (k + 1) - 1)'
      BY <2>0, <2>1, <3>1, PlaceSteps
    <3>3. QED  BY <3>1, <3>2
  <2>4. QED  BY <2>2, <2>3
<1>2. (First => Some) /\ (Here => Some)  BY DEF AtPlace
<1> HIDE DEF Some, First, Here, Higher, Gone
<1>3. PopsGoOn => [](Some => <><<Pop>>_vars)  BY PTL DEF PopsGoOn, Some
<1>4. []CalmRoundInv /\ [][Next]_vars /\ PopsGoOn => (First ~> Gone) /\ (Here ~> Higher)
  BY <1>1, <1>2, <1>3, PTL
<1>5. QED  BY <1>4, PTL DEF First, Here, Higher, Gone

(* A task that waits moves up in the list, place by place, and is posted    *)
(* from the first one: what is pushed, pushed back or refused meanwhile     *)
(* comes behind it, however often epark turns other tasks away.             *)
THEOREM WaitingMovesUp ==
    ASSUME NEW w \in Workers, NEW t \in Tasks, NEW k \in Nat \ {0}
    PROVE  Spec /\ []Calm /\ RunsOn(w) =>
               /\ AtPlace(t, 1) ~> Posted(t)
               /\ AtPlace(t, k + 1) ~> AtPlace(t, k)
<1>1. RoundInv /\ Calm => CalmRoundInv  BY DEF CalmRoundInv
<1>2. []CalmRoundInv /\ [][Next]_vars /\ RunsOn(w) => PopsGoOn
  BY ListIsPopped DEF PopsGoOn
<1>3. []CalmRoundInv /\ [][Next]_vars /\ PopsGoOn =>
          /\ AtPlace(t, 1) ~> Posted(t)
          /\ AtPlace(t, k + 1) ~> AtPlace(t, k)
  BY PlaceIsLeft
<1>4. QED  BY <1>1, <1>2, <1>3, RoundInvariant, PTL DEF Spec

(* If a task is posted from the first place, and from each place if it is   *)
(* from the one before it, it is posted from all: an instance of induction  *)
(* over the natural numbers. It is named as a premise below, for the       *)
(* provers have no induction on temporal formulas.                         *)
PostedFrom(t, k) == AtPlace(t, k) ~> Posted(t)

PlaceInduction(t) ==
    LET Places == Nat \ {0} IN
    [](PostedFrom(t, 1) /\ (\A k \in Places : PostedFrom(t, k) => PostedFrom(t, k + 1))
           => \A k \in Places : PostedFrom(t, k))

(* So every task that waits is posted. *)
LEMMA WaitingIsPosted ==
    ASSUME NEW t \in Tasks
    PROVE  []CalmRoundInv /\ [][Next]_vars /\ PopsGoOn /\ PlaceInduction(t)
               => (Waiting(t) ~> Posted(t))
<1> DEFINE Base == PostedFrom(t, 1)
           Induct == \A k \in Nat \ {0} : PostedFrom(t, k) => PostedFrom(t, k + 1)
           All == \A k \in Nat \ {0} : PostedFrom(t, k)
           Waits == Waiting(t)
           Gone == Posted(t)
<1>1. []CalmRoundInv /\ [][Next]_vars /\ PopsGoOn => Base /\ Induct
  <2>1. ASSUME NEW k \in Nat \ {0}
        PROVE  []CalmRoundInv /\ [][Next]_vars /\ PopsGoOn
                   => PostedFrom(t, 1) /\ (PostedFrom(t, k) => PostedFrom(t, k + 1))
    <3>1. []CalmRoundInv /\ [][Next]_vars /\ PopsGoOn =>
              /\ AtPlace(t, 1) ~> Posted(t)
              /\ AtPlace(t, k + 1) ~> AtPlace(t, k)
      BY PlaceIsLeft
    <3>2. QED  BY <3>1, PTL DEF PostedFrom
  <2>2. QED  BY <2>1
<1>2. CalmRoundInv /\ All => (Waits => <>Gone)
  <2>1. CalmRoundInv /\ Waits => \E k \in Nat \ {0} : AtPlace(t, k)
    <3> SUFFICES ASSUME CalmRoundInv, Waits PROVE \E k \in Nat \ {0} : AtPlace(t, k)
      OBVIOUS
    <3>1. wait \in Seq(Tasks)
      BY DEF CalmRoundInv, RoundInv, CalmInv, SoleInv, LifeInv, TypeInv, TypeOK
    <3>2. PICK k \in 1..Len(wait) : wait[k] = t  BY <3>1 DEF Waiting, Range
    <3>3. QED  BY <3>1, <3>2 DEF AtPlace
  <2>2. ASSUME NEW k \in Nat \ {0}
        PROVE  PostedFrom(t, k) => (AtPlace(t, k) => <>Gone)
    BY PTL DEF PostedFrom
  <2> HIDE DEF Waits, Gone
  <2>3. QED  BY <2>1, <2>2
<1>3. PlaceInduction(t) => [](Base /\ Induct => All)
  BY PTL DEF PlaceInduction
<1> HIDE DEF Base, Induct, All, Waits, Gone
<1>4. []CalmRoundInv /\ [][Next]_vars /\ PopsGoOn /\ PlaceInduction(t) => (Waits ~> Gone)
  <2>1. PopsGoOn => []PopsGoOn  BY PTL DEF PopsGoOn
  <2>2. QED  BY <1>1, <1>2, <1>3, <2>1, PTL
<1>5. QED  BY <1>4, PTL DEF Waits, Gone

(* Epark, asked for a task again and again, takes it some time: the strong  *)
(* fairness of FairSpec, with the guard for ENABLED.                       *)
EparkAnswers(t) == []<>Posted(t) => []<><<EparkTakes(t)>>_vars

AllRunOn == \A w \in Workers : RunsOn(w)

Done(t) == t <= offered /\ ~Listed(t)

(* A thread keeps the task it works on until it moves it back or removes it. *)
LEMMA OwnerSteps ==
    ASSUME CalmRoundInv, CalmRoundInv', [Next]_vars,
           NEW w \in Workers, NEW t \in Tasks, Owns(w, t), t <= offered
    PROVE  Owns(w, t)' \/ Waiting(t)' \/ Done(t)'
<1>a. /\ TypeInv /\ SingleCopy /\ Sole /\ Open /\ Open'
      /\ HandInv /\ Calm /\ Calm'
  BY CalmRoundInvs DEF CalmRoundInv, RoundInv, CalmInv, SoleInv, LifeInv, Calm
<1>b. CalmStep  BY <1>a, CalmSteps DEF HandInv
<1>c. closing[w] = "no" /\ closing'[w] = "no"  BY <1>a DEF Open
<1>d. task[w] = t /\ pc[w] \in Working  BY DEF Owns, Working
<1>e. task'[w] = t /\ pc'[w] \in Working => Owns(w, t)'  BY <1>c DEF Owns, Working
<1>f. processing[t] = 1 /\ ~Waiting(t) /\ wait \in Seq(Tasks)
      /\ processing \in [Tasks -> Nat]
  BY <1>a DEF Sole, SingleCopy, TypeInv, TypeOK
<1>1. ASSUME NEW v \in Workers \ {w}, OthersRest(v) PROVE Owns(w, t)'
  BY <1>d, <1>e, <1>1 DEF OthersRest
<1>2. CASE RestStep  BY <1>2, <1>d, <1>e DEF RestStep, SameWork
<1>3. ASSUME NEW v \in Workers, TakeStep(v) \/ EndStep(v) PROVE Owns(w, t)'
  BY <1>1, <1>3, <1>d DEF TakeStep, EndStep, Working
<1>4. ASSUME NEW v \in Workers, RemoveStep(v)
      PROVE  Owns(w, t)' \/ Done(t)'
  <2>1. CASE v # w  BY <1>1, <1>4, <2>1 DEF RemoveStep
  <2>2. CASE v = w
    <3>1. processing'[t] = 0 /\ ~Waiting(t)'
      BY <1>4, <1>d, <1>f, <2>2 DEF RemoveStep, Waiting
    <3>2. t <= offered'
      <4>1. offered \in Nat /\ offered' \in Nat /\ (offered' = offered \/ offered' = offered + 1)
        BY <1>a, ListSteps, ConstantsAssumption DEF ListStep, MoveBack, TypeInv, TypeOK
      <4>2. QED  BY <4>1 DEF Tasks
    <3>3. QED  BY <3>1, <3>2 DEF Done, Listed
  <2>3. QED  BY <2>1, <2>2
<1>5. ASSUME NEW v \in Workers, RequeueStep(v)
      PROVE  Owns(w, t)' \/ Waiting(t)'
  <2>1. CASE v # w  BY <1>1, <1>5, <2>1 DEF RequeueStep
  <2>2. CASE v = w
    <3>1. wait' = Append(wait, t)  BY <1>5, <1>d, <1>f, <2>2 DEF RequeueStep, MoveBack
    <3>2. QED  BY <1>f, <3>1, RangeOfAppend DEF Waiting
  <2>3. QED  BY <2>1, <2>2
<1>6. QED  BY <1>b, <1>2, <1>3, <1>4, <1>5 DEF CalmStep

(* What a step does to a task that has arrived: it has arrived for ever, and *)
(* what epark once took it has taken.                                      *)
LEMMA ForGood ==
    ASSUME TypeInv, TypeInv', [Next]_vars, NEW t \in Tasks
    PROVE  /\ t <= offered => t <= offered'
           /\ accepted[t] > 0 => accepted'[t] > 0
<1>1. offered \in Nat /\ offered' \in Nat /\ (offered' = offered \/ offered' = offered + 1)
  BY ListSteps, ConstantsAssumption DEF ListStep, MoveBack, TypeInv, TypeOK
<1>2. accepted \in [Tasks -> 0..2]  BY DEF TypeInv, TypeOK
<1>3. accepted[t] > 0 => accepted'[t] > 0
  <2>1. ASSUME NEW w \in Workers, accepted' = [accepted EXCEPT ![task[w]] = More(@)]
        PROVE  accepted[t] > 0 => accepted'[t] > 0
    BY <1>2, <2>1 DEF More
  <2>2. QED  BY <2>1, AcceptSteps DEF AcceptStep
<1>4. QED  BY <1>1, <1>3 DEF Tasks

(* The fairness of FairSpec gives both, if the actions it names are enabled *)
(* where RunsOn and EparkAnswers say so: a premise again, for ENABLED.      *)
LEMMA FairnessRunsOn ==
    ASSUME NEW w \in Workers
    PROVE  Spec /\ WF_vars(Start(w)) /\ WF_vars(Step(w))
               /\ [](pc[w] = "off" => ENABLED <<Start(w)>>_vars)
               /\ [](Ready(w) => ENABLED <<Step(w)>>_vars)
               => RunsOn(w)
<1> DEFINE Off == pc[w] = "off"
           Go == Ready(w)
<1>1. TypeInv /\ [Next]_vars /\ Off => Off' \/ <<Start(w)>>_vars
  <2> SUFFICES ASSUME TypeInv, [Next]_vars, Off, ~Off'
               PROVE  <<Start(w)>>_vars
    OBVIOUS
  <2>1. ~Step(w)
    BY DEF Step, Loop, TakeNothing, EmptyPoll, Take, TakeError, PostSuccess,
       PostRefused, PostError, PostLost, Remove, Clear, Wake, Count, Requeue, Reset
  <2>2. Start(w)  BY <2>1, OthersSpare DEF Crash
  <2>3. vars' # vars  BY DEF vars, thread
  <2>4. QED  BY <2>2, <2>3
<1>2. Spec => []TypeInv
  <2>1. LifeInv => TypeInv  BY DEF LifeInv
  <2>2. QED  BY <2>1, LifeInvariant, PTL
<1> HIDE DEF Off, Go
<1>3. Spec /\ WF_vars(Start(w)) /\ WF_vars(Step(w))
          /\ [](Off => ENABLED <<Start(w)>>_vars) /\ [](Go => ENABLED <<Step(w)>>_vars)
          => [](Off => <><<Start(w)>>_vars) /\ [](Go => <>(~Go) \/ <><<Step(w)>>_vars)
  BY <1>1, <1>2, PTL DEF Spec
<1>4. QED  BY <1>3, PTL DEF Off, Go, RunsOn

LEMMA FairnessAnswers ==
    ASSUME NEW t \in Tasks
    PROVE  SF_vars(EparkTakes(t)) /\ [](Posted(t) => ENABLED <<EparkTakes(t)>>_vars)
               => EparkAnswers(t)
<1> DEFINE Post == Posted(t)
<1> HIDE DEF Post
<1>1. SF_vars(EparkTakes(t)) /\ [](Post => ENABLED <<EparkTakes(t)>>_vars)
          => ([]<>Post => []<><<EparkTakes(t)>>_vars)
  BY PTL
<1>2. QED  BY <1>1, PTL DEF Post, EparkAnswers

(* Without faults and shutdowns, every task that epark takes when it is asked *)
(* often enough is delivered and forgotten, although others that epark never *)
(* takes go round in the same list: none is starved. (For a task that epark *)
(* never takes, EparkAnswers would say that it is not asked often enough.)  *)
THEOREM NoneStarves ==
    ASSUME NEW t \in Tasks, Workers # {}
    PROVE  Spec /\ []Calm /\ []AllRunOn /\ EparkAnswers(t) /\ PlaceInduction(t)
               => (t <= offered ~> status[t] = "done")
<1> DEFINE Arr == t <= offered
           Waits == Waiting(t)
           Works == \E w \in Workers : Owns(w, t)
           End == Done(t)
           Post == Posted(t)
           Took == accepted[t] > 0
<1>1. PICK v \in Workers : TRUE
  OBVIOUS
<1>2. AllRunOn => RunsOn(v)  BY DEF AllRunOn
<1>3. []CalmRoundInv /\ [][Next]_vars /\ RunsOn(v) => PopsGoOn
  BY ListIsPopped DEF PopsGoOn
<1>4. []CalmRoundInv /\ [][Next]_vars /\ PopsGoOn /\ PlaceInduction(t) => (Waits ~> Post)
  BY WaitingIsPosted
<1>5. CalmRoundInv /\ Arr => Waits \/ Works \/ End
  BY DEF CalmRoundInv, RoundInv, CalmInv, Claimed, Done, Listed
<1>6. CalmRoundInv /\ Took => ~Waits
  BY DEF CalmRoundInv, RoundInv, CalmInv, SoleInv, Sole, Calm
<1>7. CalmRoundInv /\ CalmRoundInv' /\ [Next]_vars => /\ Arr => Arr'
                                                      /\ Took => Took'
                                                      /\ <<EparkTakes(t)>>_vars => Took'
  <2>1. TypeInv /\ <<EparkTakes(t)>>_vars => Took'
    BY DEF EparkTakes, PostSuccess, More, TypeInv, TypeOK
  <2> SUFFICES ASSUME CalmRoundInv, CalmRoundInv', [Next]_vars
               PROVE  /\ Arr => Arr'
                      /\ Took => Took'
                      /\ <<EparkTakes(t)>>_vars => Took'
    OBVIOUS
  <2>2. TypeInv /\ TypeInv'
    BY DEF CalmRoundInv, RoundInv, CalmInv, SoleInv, LifeInv
  <2>3. QED  BY <2>1, <2>2, ForGood
<1>8. []CalmRoundInv /\ [][Next]_vars /\ []AllRunOn => (Arr /\ Works => <>(Waits \/ End))
  <2>1. ASSUME NEW w \in Workers
        PROVE  []CalmRoundInv /\ [][Next]_vars /\ RunsOn(w)
                   => (Arr /\ Owns(w, t) => <>(Waits \/ End))
    <3> DEFINE Own == Owns(w, t)
               Full == task[w] # NoTask
               Empty == task[w] = NoTask
    <3>1. CalmRoundInv /\ CalmRoundInv' /\ [Next]_vars /\ Arr /\ Own => Own' \/ Waits' \/ End'
      BY OwnerSteps
    <3>2. []HandInv /\ [][Next]_vars /\ ThreadRuns(w) => (Full ~> Empty)
      BY HandEmpties
    <3>3. CalmRoundInv => HandInv  BY CalmRoundInvs
    <3>4. (Own => Full) /\ (Empty => ~Own)  BY NoTaskIsNone DEF Owns
    <3> HIDE DEF Own, Full, Empty, Arr, Waits, End
    <3>5. []CalmRoundInv /\ [][Next]_vars /\ RunsOn(w) => (Arr /\ Own => <>(Waits \/ End))
      BY <1>7, <3>1, <3>2, <3>3, <3>4, RunsOnWithTask, PTL
    <3>6. QED  BY <3>5, PTL DEF Own
  <2>2. AllRunOn /\ []CalmRoundInv /\ [][Next]_vars => (Arr /\ Works => <>(Waits \/ End))
    BY <2>1 DEF AllRunOn
  <2> HIDE DEF Arr, Works, Waits, End
  <2>3. QED  BY <2>2, PTL
<1> HIDE DEF Arr, Waits, Works, End, Post, Took
<1>9. EparkAnswers(t) => ([]<>Post => []<><<EparkTakes(t)>>_vars)
  BY PTL DEF EparkAnswers, Post
<1>10. Spec /\ []Calm => []CalmRoundInv /\ [][Next]_vars
  <2>1. RoundInv /\ Calm => CalmRoundInv  BY DEF CalmRoundInv
  <2>2. QED  BY <2>1, RoundInvariant, PTL DEF Spec
<1>11. Spec /\ []Calm /\ []AllRunOn /\ EparkAnswers(t) /\ PlaceInduction(t) => (Arr ~> End)
  BY <1>2, <1>3, <1>4, <1>5, <1>6, <1>7, <1>8, <1>9, <1>10, PTL
<1>12. CalmRoundInv /\ Done(t) => status[t] = "done"
  <2> SUFFICES ASSUME CalmRoundInv, Done(t) PROVE status[t] = "done"
    OBVIOUS
  <2>1. t \in Nat /\ offered \in Nat
    BY ConstantsAssumption DEF Tasks, CalmRoundInv, RoundInv, CalmInv, SoleInv, LifeInv, TypeInv, TypeOK
  <2>2. QED  BY <2>1 DEF Done, status
<1> DEFINE Over == status[t] = "done"
<1>13. Spec /\ []Calm => [](End => Over)
  <2>1. CalmRoundInv /\ End => Over  BY <1>12 DEF End
  <2> HIDE DEF Over
  <2>2. QED  BY <1>10, <2>1, PTL
<1> HIDE DEF Over
<1>14. Spec /\ []Calm /\ []AllRunOn /\ EparkAnswers(t) /\ PlaceInduction(t) => (Arr ~> Over)
  BY <1>11, <1>13, PTL
<1>15. QED  BY <1>14, PTL DEF Arr, Over

(* DeliveredOrStranded of a calm system, where its exceptions are no matter. *)
THEOREM CalmDelivery ==
    ASSUME Workers # {}
    PROVE  Spec /\ []Calm /\ []AllRunOn
               /\ (\A t \in Tasks \ Rejected : EparkAnswers(t) /\ PlaceInduction(t))
               => DeliveredOrStranded
<1>1. ASSUME NEW t \in Tasks \ Rejected
      PROVE  Spec /\ []Calm /\ []AllRunOn /\ EparkAnswers(t) /\ PlaceInduction(t)
                 => (t <= offered ~> \/ status[t] = "done"
                                     \/ Stranded(t) /\ faults + closes > 0
                                     \/ [](NoConsumer /\ faults + closes > 0))
  <2> DEFINE Arr == t <= offered
             Over == status[t] = "done"
             Lost == Stranded(t) /\ faults + closes > 0
             Ended == NoConsumer /\ faults + closes > 0
  <2>1. t \in Tasks  OBVIOUS
  <2>2. Spec /\ []Calm /\ []AllRunOn /\ EparkAnswers(t) /\ PlaceInduction(t) => (Arr ~> Over)
    BY <2>1, NoneStarves
  <2> HIDE DEF Arr, Over, Lost, Ended
  <2>3. Spec /\ []Calm /\ []AllRunOn /\ EparkAnswers(t) /\ PlaceInduction(t)
            => (Arr ~> Over \/ Lost \/ []Ended)
    BY <2>2, PTL
  <2>4. QED  BY <2>3, PTL DEF Arr, Over, Lost, Ended
<1>2. QED  BY <1>1 DEF DeliveredOrStranded
=============================================================================
