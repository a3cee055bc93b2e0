-------------------------- MODULE ParkInvokeProofs --------------------------
(***************************************************************************)
(* Theorems about ParkInvoke for messages of every length and every        *)
(* capacity of the result queue. The last three are about the end of a     *)
(* call, on condition that the servlet's thread runs.                      *)
(***************************************************************************)
EXTENDS ParkInvoke, FiniteSetTheorems, TLAPS

Types ==
    /\ main \in {"prepare", "time", "compare", "allocate", "copy", "merge", "done"}
    /\ total \in 0..MaxRequests
    /\ known \in SUBSET (1..total)
    /\ taskLength \in 0..total
    /\ manager \in {"new", "running", "ended"}
    /\ http \in [Requests -> {"none", "running", "ended"}]
    /\ results \in SUBSET known
    /\ answer \in [Requests -> Answers \cup {"none"}]
    /\ begun \in BOOLEAN /\ visible \in BOOLEAN /\ late \in BOOLEAN
    /\ outstanding \in SUBSET known
    /\ gathered \in SUBSET results
    /\ reply \in [result : {"none", "success", "fail"}, threw : BOOLEAN,
                  values : SUBSET results]

(* The queue only grows, so the array is never longer than what it holds. *)
Measures ==
    /\ Cardinality(results) <= Capacity
    /\ size \in 0..Cardinality(results)

(* A thread runs for a request with an address, and what a request was      *)
(* answered does not change once it is in the queue.                       *)
Threads == \A i \in Requests :
    /\ http[i] # "none" => i \in known
    /\ i \in results => http[i] = "ended" /\ answer[i] \in Answers

(* Where the call is, what was started and whether there is a reply. *)
Course ==
    /\ main = "prepare" => manager = "new" /\ results = {} /\ outstanding = {}
    /\ main = "prepare" => \A i \in Requests : http[i] = "none"
    /\ manager = "new" => main \in {"prepare", "done"}
    /\ main # "done" => reply = NoReply

(* HonestSuccess, with the answers still in the queue. *)
Backed ==
    reply.result = "success" =>
        \A i \in 1..total : /\ i \in results
                            /\ \/ answer[i] = "bodiless"
                               \/ answer[i] = "success" /\ i \in reply.values

(* When everything was in at the allocation, the queue does not change and  *)
(* the array takes all of it.                                              *)
Complete ==
    manager # "new" /\ outstanding = {} /\ main \in {"copy", "merge", "done"} =>
        /\ results = known /\ size = Cardinality(known)
        /\ main \in {"merge", "done"} => gathered = known

InvokeInv ==
    Types /\ Measures /\ Threads /\ Course /\ Backed /\ Complete /\ NothingLostWhenAllIn

-----------------------------------------------------------------------------
(* The sets that are counted are finite, and a subset has no more members. *)
LEMMA Counting ==
    ASSUME Types
    PROVE  /\ IsFiniteSet(known) /\ IsFiniteSet(results)
           /\ Cardinality(known) \in Nat /\ Cardinality(results) \in Nat
           /\ known \subseteq Requests
           /\ \A S \in SUBSET known : IsFiniteSet(S) /\ Cardinality(S) \in Nat
           /\ \A i \in known \ results :
                 Cardinality(results \cup {i}) = Cardinality(results) + 1
           /\ \A S \in SUBSET (1..total) :
                 /\ Cardinality(S) \in 0..total
                 /\ Cardinality(S) = total => S = 1..total
<1>1. total \in Nat /\ total <= MaxRequests  BY ConstantsAssumption DEF Types
<1>2. IsFiniteSet(1..total) /\ Cardinality(1..total) = total
  BY <1>1, FS_Interval
<1>3. \A S \in SUBSET (1..total) : IsFiniteSet(S) /\ Cardinality(S) \in Nat
  BY <1>2, FS_Subset, FS_CardinalityType
<1>4. \A S \in SUBSET (1..total) :
         Cardinality(S) <= total /\ (Cardinality(S) = total => S = 1..total)
  BY <1>2, FS_Subset
<1>5. known \subseteq Requests  BY <1>1, ConstantsAssumption DEF Types, Requests
<1>6. IsFiniteSet(known) /\ IsFiniteSet(results)  BY <1>3 DEF Types
<1>7. \A i \in known \ results : Cardinality(results \cup {i}) = Cardinality(results) + 1
  BY <1>6, FS_AddElement
<1>8. \A S \in SUBSET (1..total) : Cardinality(S) \in 0..total
  BY <1>1, <1>3, <1>4
<1>9. QED  BY <1>3, <1>4, <1>5, <1>6, <1>7, <1>8 DEF Types

(* The call begins with nothing sent and nothing told. *)
LEMMA InvokeInit == Init => InvokeInv
<1> SUFFICES ASSUME Init PROVE InvokeInv
  OBVIOUS
<1>1. Types
  <2>1. known \in SUBSET (1..total) /\ results \in SUBSET known
    BY DEF Init
  <2>2. taskLength \in 0..total  BY ConstantsAssumption DEF Init
  <2>3. reply \in [result : {"none", "success", "fail"}, threw : BOOLEAN,
                   values : SUBSET results]
    BY DEF Init, NoReply
  <2>4. QED  BY <2>1, <2>2, <2>3 DEF Init, Types
<1>2. Measures
  BY FS_EmptySet, ConstantsAssumption DEF Init, Measures
<1>3. Threads /\ Course /\ Backed /\ Complete /\ NothingLostWhenAllIn
  BY DEF Init, Threads, Course, Backed, Complete, NothingLostWhenAllIn, NoReply
<1>4. QED  BY <1>1, <1>2, <1>3 DEF InvokeInv

-----------------------------------------------------------------------------
(* The steps of the servlet thread leave the queue and the threads alone. *)
LEMMA MainStep == InvokeInv /\ Main => InvokeInv'
<1> SUFFICES ASSUME InvokeInv, Main PROVE InvokeInv'
  OBVIOUS
<1>0. Types /\ Measures /\ Threads /\ Course /\ Backed /\ Complete /\ NothingLostWhenAllIn
  BY DEF InvokeInv
<1>1. CASE Prepare
  <2>1. \A S \in SUBSET (1..total) : Cardinality(S) \in 0..total
    BY <1>0, Counting
  <2>2. Types'
    <3>1. PICK found \in SUBSET (1..total) :
             known' = found /\ taskLength' = TaskLength(found)
      BY <1>1 DEF Prepare
    <3>2. results = {} /\ outstanding \subseteq known /\ outstanding = {}
      BY <1>0, <1>1 DEF Types, Course, Prepare
    <3>3. QED
      BY <1>0, <1>1, <2>1, <3>1, <3>2 DEF Types, Prepare, TaskLength, clock, harvest
  <2>3. Measures'  BY <1>0, <1>1 DEF Measures, Prepare, harvest
  <2>4. Threads' /\ Course' /\ Backed'
    BY <1>0, <1>1 DEF Threads, Course, Backed, Prepare, harvest, NoReply
  <2>5. Complete' /\ NothingLostWhenAllIn'
    BY <1>1 DEF Complete, NothingLostWhenAllIn, Prepare
  <2>6. QED  BY <2>2, <2>3, <2>4, <2>5 DEF InvokeInv
<1>2. CASE PrepareError
  <2>1. manager' = "new" /\ reply' = Failure  BY <1>0, <1>2 DEF Course, PrepareError
  <2>2. Types'  BY <1>0, <1>2, <2>1 DEF Types, PrepareError, Failure, callVars, clock
  <2>3. Measures'  BY <1>0, <1>2 DEF Measures, PrepareError
  <2>4. Threads'  BY <1>0, <1>2 DEF Threads, PrepareError, callVars
  <2>5. Course' /\ Backed' /\ Complete' /\ NothingLostWhenAllIn'
    BY <1>0, <1>2, <2>1 DEF Course, Backed, Complete, NothingLostWhenAllIn, PrepareError, Failure
  <2>6. QED  BY <2>2, <2>3, <2>4, <2>5 DEF InvokeInv
<1>3. CASE ReadTime \/ Compare
  <2>1. /\ main \in {"time", "compare"} /\ main' \in {"time", "compare", "allocate"}
        /\ visible' \in BOOLEAN
        /\ UNCHANGED <<callVars, manager, http, results, answer, begun, late, harvest>>
    BY <1>0, <1>3 DEF Types, ReadTime, Compare, clock
  <2>2. Types'  BY <1>0, <2>1 DEF Types, callVars, harvest
  <2>3. Measures' /\ Threads' /\ Backed'
    BY <1>0, <2>1 DEF Measures, Threads, Backed, callVars, harvest
  <2>4. Course' /\ Complete' /\ NothingLostWhenAllIn'
    BY <1>0, <2>1 DEF Course, Complete, NothingLostWhenAllIn, harvest
  <2>5. QED  BY <2>2, <2>3, <2>4 DEF InvokeInv
<1>4. CASE Allocate
  <2>1. Cardinality(results) \in Nat  BY <1>0, Counting
  <2>2. Types'  BY <1>0, <1>4 DEF Types, Allocate, callVars, clock
  <2>3. Measures'  BY <1>0, <1>4, <2>1 DEF Measures, Allocate
  <2>4. Threads' /\ Course' /\ Backed'
    BY <1>0, <1>4 DEF Threads, Course, Backed, Allocate, callVars
  <2>5. Complete'
    BY <1>0, <1>4 DEF Complete, Allocate, callVars, Types
  <2>6. NothingLostWhenAllIn'  BY <1>4 DEF NothingLostWhenAllIn, Allocate
  <2>7. QED  BY <2>2, <2>3, <2>4, <2>5, <2>6 DEF InvokeInv
<1>5. CASE Copy
  <2>1. Types'  BY <1>0, <1>5 DEF Types, Copy, callVars, clock
  <2>2. Measures' /\ Threads' /\ Course' /\ Backed'
    BY <1>0, <1>5 DEF Measures, Threads, Course, Backed, Copy, callVars
  <2>3. Complete'
    <3>1. Cardinality(results) \in Nat  BY <1>0, Counting
    <3>2. QED  BY <1>0, <1>5, <3>1 DEF Complete, Copy, callVars
  <2>4. NothingLostWhenAllIn'  BY <1>5 DEF NothingLostWhenAllIn, Copy
  <2>5. QED  BY <2>1, <2>2, <2>3, <2>4 DEF InvokeInv
<1>6. CASE Merge
  <2>1. CASE Unreadable /\ reply' = Failure
    <3>1. Types' /\ Backed'
      BY <1>0, <1>6, <2>1 DEF Types, Backed, Merge, Failure, callVars, clock
    <3>2. Measures' /\ Threads' /\ Course' /\ Complete'
      BY <1>0, <1>6 DEF Measures, Threads, Course, Complete, Merge, callVars
    <3>3. NothingLostWhenAllIn'
      BY <1>0, <1>6, <2>1
      DEF NothingLostWhenAllIn, Complete, Merge, Unreadable, callVars
    <3>4. QED  BY <3>1, <3>2, <3>3 DEF InvokeInv
  <2>2. CASE /\ ~Unreadable
             /\ reply' = [result |-> IF AllGood THEN "success" ELSE "fail",
                          threw |-> FALSE,
                          values |-> {i \in gathered : answer[i] = "success"}]
    <3>1. Types'
      BY <1>0, <1>6, <2>2 DEF Types, Merge, callVars, clock
    <3>2. Measures' /\ Threads' /\ Course' /\ Complete'
      BY <1>0, <1>6 DEF Measures, Threads, Course, Complete, Merge, callVars
    <3>3. Backed'
      <4>1. SUFFICES ASSUME AllGood PROVE Backed'
        BY <2>2 DEF Backed
      <4>2. gathered \subseteq 1..total /\ gathered \subseteq results
        BY <1>0 DEF Types
      <4>3. Cardinality(gathered) = total  BY <2>2, <4>1 DEF Unreadable, AllGood
      <4>4. gathered = 1..total  BY <1>0, <4>2, <4>3, Counting
      <4>5. QED
        BY <1>6, <2>2, <4>1, <4>2, <4>4 DEF Backed, AllGood, Merge, callVars
    <3>4. NothingLostWhenAllIn'
      BY <1>0, <1>6, <2>2 DEF NothingLostWhenAllIn, Complete, Merge, callVars
    <3>5. QED  BY <3>1, <3>2, <3>3, <3>4 DEF InvokeInv
  <2>3. QED  BY <1>6, <2>1, <2>2 DEF Merge
<1>7. QED  BY <1>1, <1>2, <1>3, <1>4, <1>5, <1>6 DEF Main

(* A step of the manager that starts at most one thread. *)
LEMMA ManagerStep == InvokeInv /\ Manager => InvokeInv'
<1> SUFFICES ASSUME InvokeInv, Manager PROVE InvokeInv'
  OBVIOUS
<1>0. Types /\ Measures /\ Threads /\ Course /\ Backed /\ Complete /\ NothingLostWhenAllIn
  BY DEF InvokeInv
<1>1. CASE Begin
  <2>1. Types'  BY <1>0, <1>1 DEF Types, Begin, callVars, harvest
  <2>2. Measures' /\ Threads' /\ Course' /\ Backed' /\ Complete' /\ NothingLostWhenAllIn'
    BY <1>0, <1>1 DEF Measures, Threads, Course, Backed, Complete, NothingLostWhenAllIn,
                      Begin, callVars, harvest
  <2>3. QED  BY <2>1, <2>2 DEF InvokeInv
<1>2. CASE EndRun
  <2>1. manager = "running" /\ manager' = "ended"  BY <1>2 DEF EndRun
  <2>2. Types'  BY <1>0, <1>2 DEF Types, EndRun, callVars, clock, harvest
  <2>3. Measures' /\ Threads' /\ Course' /\ Backed' /\ Complete' /\ NothingLostWhenAllIn'
    BY <1>0, <1>2, <2>1 DEF Measures, Threads, Course, Backed, Complete,
                            NothingLostWhenAllIn, EndRun, callVars, harvest
  <2>4. QED  BY <2>2, <2>3 DEF InvokeInv
<1>3. ASSUME NEW i \in Requests, Spawn(i) PROVE InvokeInv'
  <2>1. Types'  BY <1>0, <1>3 DEF Types, Spawn, callVars, clock, harvest
  <2>2. Threads'
    BY <1>0, <1>3 DEF Threads, Spawn, Types, callVars
  <2>3. main # "prepare"  BY <1>0, <1>3 DEF Course, Spawn
  <2>4. Measures' /\ Course' /\ Backed' /\ Complete' /\ NothingLostWhenAllIn'
    BY <1>0, <1>3, <2>3 DEF Measures, Course, Backed, Complete, NothingLostWhenAllIn,
                            Spawn, callVars, harvest
  <2>5. QED  BY <2>1, <2>2, <2>4 DEF InvokeInv
<1>4. QED  BY <1>1, <1>2, <1>3 DEF Manager

(* An answer comes in for a request that has none in the queue; it finds    *)
(* room, or is dropped.                                                     *)
LEMMA DeliverStep ==
    ASSUME InvokeInv, NEW i \in Requests, Deliver(i)
    PROVE  InvokeInv'
<1>0. Types /\ Measures /\ Threads /\ Course /\ Backed /\ Complete /\ NothingLostWhenAllIn
  BY DEF InvokeInv
<1>1. i \in known /\ i \notin results /\ main # "prepare"
  BY <1>0 DEF Threads, Course, Deliver
<1>2. CASE Cardinality(results) < Capacity /\ results' = results \cup {i}
           /\ \E a \in Answers : answer' = [answer EXCEPT ![i] = a]
  <2>1. PICK a \in Answers : answer' = [answer EXCEPT ![i] = a]
    BY <1>2
  <2>2. \A j \in Requests : j # i => answer'[j] = answer[j]
    BY <1>0, <2>1 DEF Types
  <2>3. Types'
    <3>1. answer' \in [Requests -> Answers \cup {"none"}]  BY <1>0, <2>1 DEF Types
    <3>2. http' \in [Requests -> {"none", "running", "ended"}]
      BY <1>0 DEF Types, Deliver
    <3>3. reply' \in [result : {"none", "success", "fail"}, threw : BOOLEAN,
                      values : SUBSET results']
      BY <1>0, <1>2 DEF Types, Deliver, harvest
    <3>4. QED  BY <1>0, <1>1, <1>2, <3>1, <3>2, <3>3 DEF Types, Deliver, callVars, clock, harvest
  <2>4. Measures'
    <3>1. Cardinality(results') = Cardinality(results) + 1 /\ Cardinality(results) \in Nat
      BY <1>0, <1>1, <1>2, Counting
    <3>2. QED  BY <1>0, <1>2, <3>1, ConstantsAssumption DEF Measures, Deliver, harvest
  <2>5. Threads'
    BY <1>0, <1>1, <1>2, <2>1 DEF Threads, Deliver, Types, callVars
  <2>6. Course'  BY <1>0, <1>1 DEF Course, Deliver, harvest
  <2>7. Backed'
    <3>1. SUFFICES ASSUME reply.result = "success" PROVE Backed'
      BY DEF Backed, Deliver, harvest
    <3>2. i \in 1..total  BY <1>0, <1>1 DEF Types
    <3>3. QED  BY <1>0, <1>1, <3>1, <3>2 DEF Backed
  <2>8. Complete'
    <3>1. SUFFICES ASSUME manager # "new", outstanding = {}, main \in {"copy", "merge", "done"}
                   PROVE  FALSE
      BY DEF Complete, Deliver, callVars, harvest
    <3>2. QED  BY <1>0, <1>1, <3>1 DEF Complete
  <2>9. NothingLostWhenAllIn'
    <3>1. SUFFICES ASSUME manager # "new", outstanding = {}, main = "done"
                   PROVE  FALSE
      BY DEF NothingLostWhenAllIn, Deliver, callVars, harvest
    <3>2. QED  BY <1>0, <1>1, <3>1 DEF Complete
  <2>10. QED  BY <2>3, <2>4, <2>5, <2>6, <2>7, <2>8, <2>9 DEF InvokeInv
<1>3. CASE UNCHANGED <<results, answer>>
  <2>1. Types'  BY <1>0, <1>3 DEF Types, Deliver, callVars, clock, harvest
  <2>2. Threads'  BY <1>0, <1>1, <1>3 DEF Threads, Deliver, Types, callVars
  <2>3. Measures' /\ Course' /\ Backed' /\ Complete' /\ NothingLostWhenAllIn'
    BY <1>0, <1>1, <1>3 DEF Measures, Course, Backed, Complete, NothingLostWhenAllIn,
                            Deliver, callVars, harvest
  <2>4. QED  BY <2>1, <2>2, <2>3 DEF InvokeInv
<1>4. QED  BY <1>2, <1>3 DEF Deliver

(* Every step of the threads keeps the invariant. *)
LEMMA InvokeStep == InvokeInv /\ [Next]_vars => InvokeInv'
<1> SUFFICES ASSUME InvokeInv, [Next]_vars PROVE InvokeInv'
  OBVIOUS
<1>0. Types /\ Measures /\ Threads /\ Course /\ Backed /\ Complete /\ NothingLostWhenAllIn
  BY DEF InvokeInv
<1>1. CASE Main  BY <1>1, MainStep
<1>2. CASE Manager  BY <1>2, ManagerStep
<1>3. ASSUME NEW i \in Requests, Deliver(i) PROVE InvokeInv'
  BY <1>3, DeliverStep
<1>4. ASSUME NEW i \in Requests, FailPost(i) PROVE InvokeInv'
  <2>1. Types'  BY <1>0, <1>4 DEF Types, FailPost, callVars, clock, harvest
  <2>2. Threads'  BY <1>0, <1>4 DEF Threads, FailPost, Types, callVars
  <2>3. main # "prepare"  BY <1>0, <1>4 DEF Course, FailPost
  <2>4. Measures' /\ Course' /\ Backed' /\ Complete' /\ NothingLostWhenAllIn'
    BY <1>0, <1>4, <2>3 DEF Measures, Course, Backed, Complete, NothingLostWhenAllIn,
                            FailPost, callVars, harvest
  <2>5. QED  BY <2>1, <2>2, <2>4 DEF InvokeInv
<1>5. CASE Tick
  <2>1. Types'  BY <1>0, <1>5 DEF Types, Tick, callVars, harvest
  <2>2. Measures' /\ Threads' /\ Course' /\ Backed' /\ Complete' /\ NothingLostWhenAllIn'
    BY <1>0, <1>5 DEF Measures, Threads, Course, Backed, Complete, NothingLostWhenAllIn,
                      Tick, callVars, harvest
  <2>3. QED  BY <2>1, <2>2 DEF InvokeInv
<1>6. CASE UNCHANGED vars
  BY <1>0, <1>6 DEF InvokeInv, Types, Measures, Threads, Course, Backed, Complete,
                    NothingLostWhenAllIn, vars, callVars, clock, harvest
<1>7. QED  BY <1>1, <1>2, <1>3, <1>4, <1>5, <1>6 DEF Next, Finished

(* The invariant holds in every behaviour. *)
LEMMA InvokeInvariance == Spec => []InvokeInv
BY InvokeInit, InvokeStep, PTL DEF Spec

-----------------------------------------------------------------------------
(* Whatever the message and the queue's capacity: no thread runs for a park *)
(* without an address, the queue never holds more than it may, and the      *)
(* array that is merged is never longer than what has come in.             *)
THEOREM Typing == Spec => []TypeOK
<1>1. InvokeInv => TypeOK  BY DEF InvokeInv, Types, Measures, TypeOK
<1>2. QED  BY <1>1, InvokeInvariance, PTL

(* "success" is only ever told when every request of the message was       *)
(* answered with success, for every interleaving of the threads.           *)
THEOREM Honesty == Spec => []HonestSuccess
<1>1. InvokeInv => HonestSuccess  BY DEF InvokeInv, Backed, HonestSuccess
<1>2. QED  BY <1>1, InvokeInvariance, PTL

(* The unsynchronised size and toArray lose nothing once all answers are in. *)
THEOREM NothingLost == Spec => []NothingLostWhenAllIn
<1>1. InvokeInv => NothingLostWhenAllIn  BY DEF InvokeInv
<1>2. QED  BY <1>1, InvokeInvariance, PTL
-----------------------------------------------------------------------------
(* When the call ends its waiting *)

(* The number compared with the size of the queue is that of the requests   *)
(* with an address, and the clock runs only once the manager does.         *)
Clocked ==
    /\ manager # "new" => taskLength = Cardinality(known)
    /\ late => begun
    /\ begun => manager # "new"
    /\ visible => begun
    /\ \A i \in Requests : http[i] # "none" => begun

LEMMA ClockedStep == InvokeInv /\ Clocked /\ [Next]_vars => Clocked'
<1> SUFFICES ASSUME InvokeInv, Clocked, [Next]_vars PROVE Clocked'
  OBVIOUS
<1> USE DEF Clocked, callVars, clock, harvest
<1>0. Types /\ Threads /\ Course  BY DEF InvokeInv
<1>1. CASE Prepare
  <2>1. taskLength' = Cardinality(known')  BY <1>1 DEF Prepare, TaskLength
  <2>2. QED  BY <1>1, <2>1 DEF Prepare
<1>2. CASE PrepareError \/ ReadTime \/ Allocate \/ Copy \/ Merge
  BY <1>2 DEF PrepareError, ReadTime, Allocate, Copy, Merge
<1>3. CASE Compare
  <2>1. results # {} => begun
    <3>1. ASSUME NEW i \in results PROVE begun
      BY <1>0, Counting DEF Threads, Types
    <3>2. QED  BY <3>1
  <2>2. QED  BY <1>3, <2>1 DEF Compare
<1>4. CASE Manager  BY <1>0, <1>4 DEF Manager, Begin, Spawn, EndRun, Types
<1>5. CASE Tick \/ Finished \/ UNCHANGED vars  BY <1>5 DEF Tick, Finished, vars
<1>6. ASSUME NEW i \in Requests, Deliver(i) \/ FailPost(i) PROVE Clocked'
  BY <1>0, <1>6 DEF Deliver, FailPost, Types
<1>7. QED  BY <1>1, <1>2, <1>3, <1>4, <1>5, <1>6 DEF Next, Main

LEMMA ClockedInvariance == Spec => [](InvokeInv /\ Clocked)
<1>1. Init => Clocked  BY DEF Init, Clocked
<1>2. QED  BY <1>1, InvokeInvariance, ClockedStep, PTL DEF Spec

(* Only the servlet thread moves itself. *)
LEMMA OnlyMainMoves == [Next]_vars => Main \/ main' = main
BY DEF Next, Manager, Begin, Spawn, EndRun, Deliver, FailPost, Tick, Finished, vars

(* Everything that was sent for is in the queue, and no thread is at work.  *)
AllIn == manager = "ended" /\ results = known

(* Nothing can be added or removed any more. *)
LEMMA AllInStays == InvokeInv /\ AllIn /\ [Next]_vars => AllIn'
<1> SUFFICES ASSUME InvokeInv, AllIn, [Next]_vars PROVE AllIn'
  OBVIOUS
<1> USE DEF AllIn, callVars, clock, harvest
<1>0. Types /\ Threads /\ Course  BY DEF InvokeInv
<1>1. CASE Main
  BY <1>0, <1>1 DEF Main, Prepare, PrepareError, ReadTime, Compare, Allocate, Copy, Merge, Course
<1>2. CASE Manager  BY <1>2 DEF Manager, Begin, Spawn, EndRun
<1>3. ASSUME NEW i \in Requests, Deliver(i) \/ FailPost(i) PROVE AllIn'
  <2>1. i \in results  BY <1>0, <1>3 DEF Threads, Deliver, FailPost
  <2>2. QED  BY <1>0, <1>3, <2>1 DEF Threads, Deliver, FailPost
<1>4. CASE Tick \/ Finished \/ UNCHANGED vars  BY <1>4 DEF Tick, Finished, vars
<1>5. QED  BY <1>1, <1>2, <1>3, <1>4 DEF Next

(* The array is sized only when everything has come in, when the time is    *)
(* over, or while the thread may still read beginTimeMillis as 0: no call   *)
(* gives up early otherwise.                                               *)
THEOREM NoEarlyEnd ==
    Spec => [][main # "allocate" /\ main' = "allocate"
                  => results = known \/ late \/ ~visible]_vars
<1>1. ASSUME InvokeInv, Clocked, [Next]_vars, main # "allocate", main' = "allocate"
      PROVE  results = known \/ late \/ ~visible
  <2>1. Main  BY <1>1, OnlyMainMoves
  <2>2. ReadTime \/ Compare
    BY <1>1, <2>1 DEF Main, Prepare, PrepareError, ReadTime, Compare, Allocate, Copy, Merge
  <2>3. CASE ReadTime  BY <1>1, <2>3 DEF ReadTime, Reads, Expired
  <2>4. CASE Compare
    <3>1. Types /\ Course  BY <1>1 DEF InvokeInv
    <3>2. taskLength = Cardinality(results)  BY <1>1, <2>4 DEF Compare
    <3>3. taskLength = Cardinality(known)  BY <1>1, <2>4, <3>1 DEF Clocked, Course, Compare
    <3>4. results = known
      BY <3>1, <3>2, <3>3, Counting, FS_Subset DEF Types
    <3>5. QED  BY <3>4
  <2>5. QED  BY <2>2, <2>3, <2>4
<1>2. QED  BY <1>1, ClockedInvariance, PTL DEF Spec

-----------------------------------------------------------------------------
(* The call ends *)

(* Until the call is answered its thread has a next step to take, ...       *)
MainReady ==
    \/ main \in {"prepare", "compare", "allocate", "copy", "merge"}
    \/ main = "time" /\ Reads # {}

LEMMA ReadyUntilDone == InvokeInv /\ Clocked => main = "done" \/ MainReady
BY DEF InvokeInv, Types, Clocked, MainReady, Reads

(* ... and if it is scheduled, takes it: all that is asked of the scheduler. *)
Answered == main = "done"
ThreadRuns == [](~Answered => <><<Main>>_vars)

(* Weak fairness of Main gives it, if Main is enabled where MainReady       *)
(* holds. The provers have no rules for ENABLED, so that this stays a       *)
(* premise here; it says what the guards of Main's actions say.             *)
LEMMA FairnessRuns ==
    FairSpec /\ [](MainReady => ENABLED <<Main>>_vars) => ThreadRuns
<1>1. InvokeInv /\ Clocked => Answered \/ MainReady
  BY ReadyUntilDone DEF Answered
<1>2. [Next]_vars /\ ~Answered => ~Answered' \/ <<Main>>_vars
  BY OnlyMainMoves DEF Answered, vars
<1>3. QED  BY <1>1, <1>2, ClockedInvariance, PTL DEF FairSpec, Spec, ThreadRuns

(* Where the thread is when everything is in, or when the time is over.     *)
LEMMA AllInMoves ==
    ASSUME InvokeInv, Clocked, AllIn, Main
    PROVE  \/ main = "time" /\ main' \in {"compare", "allocate"}
           \/ main = "compare" /\ main' = "allocate"
           \/ main = "allocate" /\ main' = "copy"
           \/ main = "copy" /\ main' = "merge"
           \/ main = "merge" /\ main' = "done"
<1>0. Course  BY DEF InvokeInv
<1>1. main # "prepare"  BY <1>0 DEF Course, AllIn
<1>2. taskLength = Cardinality(results)  BY DEF Clocked, AllIn
<1>3. QED
  BY <1>1, <1>2 DEF Main, Prepare, PrepareError, ReadTime, Compare, Allocate, Copy, Merge

LEMMA LateMoves ==
    ASSUME InvokeInv, Clocked, late, Main
    PROVE  \/ main = "compare" /\ main' \in {"time", "allocate"}
           \/ main = "time" /\ main' = "allocate"
           \/ main = "allocate" /\ main' = "copy"
           \/ main = "copy" /\ main' = "merge"
           \/ main = "merge" /\ main' = "done"
<1>0. Course  BY DEF InvokeInv
<1>1. main # "prepare"  BY <1>0 DEF Course, Clocked
<1>2. QED
  BY <1>1 DEF Main, Prepare, PrepareError, ReadTime, Expired, Compare, Allocate, Copy, Merge

(* A call that has everything is answered, without waiting for its timeout. *)
THEOREM Promptness == Spec /\ ThreadRuns => PromptWhenAllIn
<1> DEFINE Inv == InvokeInv /\ Clocked /\ AllIn
           Time == main = "time"
           Compares == main = "compare"
           Allocates == main = "allocate"
           Copies == main = "copy"
           Merges == main = "merge"
<1>1. Inv => Time \/ Compares \/ Allocates \/ Copies \/ Merges \/ Answered
  BY DEF InvokeInv, Types, Course, AllIn, Answered
<1>2. Inv /\ [Next]_vars =>
         /\ Time => Time' \/ Compares' \/ Allocates'
         /\ Compares => Compares' \/ Allocates'
         /\ Allocates => Allocates' \/ Copies'
         /\ Copies => Copies' \/ Merges'
         /\ Merges => Merges' \/ Answered'
  BY AllInMoves, OnlyMainMoves DEF Answered
<1>3. Inv /\ <<Main>>_vars =>
         /\ Time => Compares' \/ Allocates'
         /\ Compares => Allocates'
         /\ Allocates => Copies'
         /\ Copies => Merges'
         /\ Merges => Answered'
  BY AllInMoves DEF Answered
<1>4. (Time \/ Compares \/ Allocates \/ Copies \/ Merges) => ~Answered
  BY DEF Answered
<1>5. InvokeInv /\ Clocked /\ AllIn => Inv
  OBVIOUS
<1> HIDE DEF Inv, Time, Compares, Allocates, Copies, Merges
<1>6. Spec => [](AllIn => []Inv)
  BY <1>5, ClockedInvariance, AllInStays, PTL DEF Spec
<1>7. Spec /\ ThreadRuns => [](AllIn => <>Answered)
  BY <1>1, <1>2, <1>3, <1>4, <1>6, PTL DEF Spec, ThreadRuns
<1>8. QED  BY <1>7, PTL DEF PromptWhenAllIn, AllIn, Answered

(* Time does not run backwards. *)
LEMMA LateStays == InvokeInv /\ Clocked /\ late /\ [Next]_vars => late'
<1> SUFFICES ASSUME late, [Next]_vars PROVE late'
  OBVIOUS
<1> USE DEF clock, harvest
<1>1. CASE Main
  BY <1>1 DEF Main, Prepare, PrepareError, ReadTime, Compare, Allocate, Copy, Merge
<1>2. CASE Manager  BY <1>2 DEF Manager, Begin, Spawn, EndRun
<1>3. ASSUME NEW i \in Requests, Deliver(i) \/ FailPost(i) PROVE late'
  BY <1>3 DEF Deliver, FailPost
<1>4. CASE Tick \/ Finished \/ UNCHANGED vars  BY <1>4 DEF Tick, Finished, vars
<1>5. QED  BY <1>1, <1>2, <1>3, <1>4 DEF Next

(* A call whose timeout is over is answered, whatever has come in. *)
THEOREM Timeliness == Spec /\ ThreadRuns => AnsweredWhenLate
<1> DEFINE Inv == InvokeInv /\ Clocked /\ late
           Time == main = "time"
           Compares == main = "compare"
           Allocates == main = "allocate"
           Copies == main = "copy"
           Merges == main = "merge"
<1>1. Inv => Compares \/ Time \/ Allocates \/ Copies \/ Merges \/ Answered
  BY DEF InvokeInv, Types, Course, Clocked, Answered
<1>2. Inv /\ [Next]_vars =>
         /\ Compares => Compares' \/ Time' \/ Allocates'
         /\ Time => Time' \/ Allocates'
         /\ Allocates => Allocates' \/ Copies'
         /\ Copies => Copies' \/ Merges'
         /\ Merges => Merges' \/ Answered'
  BY LateMoves, OnlyMainMoves DEF Answered
<1>3. Inv /\ <<Main>>_vars =>
         /\ Compares => Time' \/ Allocates'
         /\ Time => Allocates'
         /\ Allocates => Copies'
         /\ Copies => Merges'
         /\ Merges => Answered'
  BY LateMoves DEF Answered
<1>4. (Compares \/ Time \/ Allocates \/ Copies \/ Merges) => ~Answered
  BY DEF Answered
<1>5. InvokeInv /\ Clocked /\ late => Inv
  OBVIOUS
<1> HIDE DEF Inv, Time, Compares, Allocates, Copies, Merges
<1>6. Spec => [](late => []Inv)
  BY <1>5, ClockedInvariance, LateStays, PTL DEF Spec
<1>7. Spec /\ ThreadRuns => [](late => <>Answered)
  BY <1>1, <1>2, <1>3, <1>4, <1>6, PTL DEF Spec, ThreadRuns
<1>8. QED  BY <1>7, PTL DEF AnsweredWhenLate, Answered

(* So under the weak fairness of FairSpec, with the premise of FairnessRuns,*)
(* no call is left unanswered once it has everything or its time is over.   *)
THEOREM CallsEnd ==
    FairSpec /\ [](MainReady => ENABLED <<Main>>_vars)
        => PromptWhenAllIn /\ AnsweredWhenLate
BY FairnessRuns, Promptness, Timeliness, PTL DEF FairSpec
=============================================================================
