---------------------------- MODULE RelaysProofs ----------------------------
(***************************************************************************)
(* Theorems about Relays for every set of requests, every number of calls  *)
(* made for one of them and every size of the pool. The last three are     *)
(* liveness, on condition that threads run which hold a connection.        *)
(***************************************************************************)
EXTENDS Relays, FiniteSetTheorems, TLAPS

(* The calls that hold a connection. *)
Holders == {r \in Requests : pc[r] \in Holding}

(* The pool never loses a connection and never gets one too many. *)
PoolBalance == free \in Nat /\ free + Cardinality(Holders) = PoolSize

Types ==
    /\ kind \in [Requests -> Kinds]
    /\ pc \in [Requests -> Holding \cup {"idle", "enter"}]
    /\ tries \in [Requests -> 0..MaxTries]
    /\ answer \in [Requests -> {"none", "done", "refused", "garbled"}]
    /\ reply \in [Requests -> {"none"} \cup Words]
    /\ told \in [Requests -> {"none", "lost"} \cup Words]
    /\ atEpark \in [Requests -> SUBSET Tries]
    /\ did \in [Requests -> SUBSET Tries]
    /\ heard \in [Requests -> SUBSET Tries]
    /\ unsaid \in [Requests -> SUBSET Tries]

(* What is known of the calls of a request, from the first to the current   *)
(* one: an answer was read only from a call that epark has served, and the *)
(* calls still to come have left no trace.                                 *)
Calls(r) ==
    /\ \A k \in atEpark[r] : k <= tries[r] /\ k \notin heard[r] /\ k \notin did[r]
    /\ \A k \in heard[r] \cup did[r] : k <= tries[r]
    /\ \A k \in did[r] : k < tries[r] => k \notin heard[r] \/ k \in unsaid[r]
    /\ pc[r] # "idle" => tries[r] \in Tries
    /\ pc[r] \notin {"idle", "commit"} => tries[r] \notin heard[r]
    /\ pc[r] \in {"enter", "check", "config", "post"} =>
          tries[r] \notin atEpark[r] /\ tries[r] \notin did[r]
    /\ pc[r] = "answered" =>
          /\ tries[r] \notin atEpark[r] /\ answer[r] # "none"
          /\ answer[r] = "done" => tries[r] \in did[r]
          /\ answer[r] = "refused" => tries[r] \notin did[r]
    /\ pc[r] = "commit" =>
          /\ reply[r] \in {"success", "info"} => tries[r] \in did[r]
          /\ tries[r] \in heard[r] /\ reply[r] \notin {"success", "info"} =>
                tries[r] \notin did[r]
    /\ pc[r] = "idle" =>
          /\ told[r] \in {"success", "info"} => tries[r] \in did[r]
          /\ tries[r] \in heard[r] /\ told[r] \notin {"success", "info"} =>
                tries[r] \notin did[r] \/ tries[r] \in unsaid[r]

History == \A r \in Requests : Calls(r)

RelayInv == Types /\ PoolBalance /\ History

-----------------------------------------------------------------------------
(* The holders of connections can be counted. *)
LEMMA HoldersFinite == IsFiniteSet(Holders) /\ Cardinality(Holders) \in Nat
BY FS_Subset, FS_CardinalityType, ConstantsAssumption DEF Holders

(* No call has been made and every connection is idle. *)
LEMMA RelayInit == Init => RelayInv
<1> SUFFICES ASSUME Init PROVE RelayInv
  OBVIOUS
<1>1. Types  BY ConstantsAssumption DEF Init, Types
<1>2. PoolBalance
  <2>1. Holders = {}  BY DEF Init, Holders, Holding
  <2>2. QED  BY <2>1, FS_EmptySet, ConstantsAssumption DEF Init, PoolBalance
<1>3. History  BY ConstantsAssumption DEF Init, History, Calls
<1>4. QED  BY <1>1, <1>2, <1>3 DEF RelayInv

(* A call that enters takes a connection. *)
LEMMA TakesOne ==
    ASSUME PoolBalance, NEW r \in Requests, r \notin Holders,
           Holders' = Holders \cup {r}, free > 0, free' = free - 1
    PROVE  PoolBalance'
<1>1. Cardinality(Holders') = Cardinality(Holders) + 1
  BY HoldersFinite, FS_AddElement
<1>2. QED  BY <1>1, HoldersFinite, ConstantsAssumption DEF PoolBalance

(* A call that ends gives back the connection it held. *)
LEMMA GivesOne ==
    ASSUME PoolBalance, NEW r \in Requests, r \in Holders,
           Holders' = Holders \ {r}, free' = free + 1
    PROVE  PoolBalance'
<1>1. Cardinality(Holders') = Cardinality(Holders) - 1
  BY HoldersFinite, FS_RemoveElement
<1>2. QED  BY <1>1, HoldersFinite, ConstantsAssumption DEF PoolBalance

(* A step on the way from one place to the next, with nothing else.        *)
Moves(r, from, to) ==
    /\ pc[r] = from /\ Goto(r, to)
    /\ UNCHANGED <<caller, answer, reply, outcome, epark, free, heard>>

(* The ends of a method that has read no answer. *)
Unanswered(r) ==
    /\ pc[r] \in {"check", "config", "post", "sent"}
    /\ \E w \in {"fail", "noMember", "null", "error"} : Finish(r, w)
    /\ UNCHANGED heard

(* Where a call goes whose answer has not come in. *)
LEMMA Ends ==
    ASSUME Types, NEW r \in Requests
    PROVE  /\ Unreachable(r) \/ TimeOut(r) => Unanswered(r)
           /\ Check(r) => Unanswered(r) \/ Moves(r, "check", "config")
           /\ Configure(r) => Unanswered(r) \/ Moves(r, "config", "post")
BY DEF Unreachable, TimeOut, Check, Configure, Unanswered, Moves, Failed, Broken,
       Types, Kinds

(* Every step of the callers, the threads and epark keeps the invariant. *)
LEMMA RelayStep == RelayInv /\ [Next]_vars => RelayInv'
<1> SUFFICES ASSUME RelayInv, [Next]_vars PROVE RelayInv'
  OBVIOUS
<1>0. Types /\ PoolBalance /\ History  BY DEF RelayInv
<1>1. ASSUME NEW r \in Requests, Ask(r) PROVE RelayInv'
  <2>1. Types'
    <3>1. tries' \in [Requests -> 0..MaxTries]
      BY <1>0, <1>1, ConstantsAssumption DEF Types, Ask
    <3>2. pc' \in [Requests -> Holding \cup {"idle", "enter"}]
      BY <1>0, <1>1 DEF Types, Ask
    <3>3. told' \in [Requests -> {"none", "lost"} \cup Words]
      BY <1>0, <1>1 DEF Types, Ask
    <3>4. QED  BY <1>0, <1>1, <3>1, <3>2, <3>3 DEF Types, Ask, epark
  <2>2. PoolBalance'
    <3>1. Holders' = Holders  BY <1>0, <1>1 DEF Types, Ask, Holders, Holding
    <3>2. QED  BY <1>0, <1>1, <3>1 DEF PoolBalance, Ask
  <2>3. History'
    <3>1. tries'[r] = tries[r] + 1 /\ tries[r] \in 0..MaxTries /\ tries'[r] \in Tries
      BY <1>0, <1>1, ConstantsAssumption DEF Types, Ask, Tries
    <3>2. atEpark[r] \cup did[r] \cup heard[r] \subseteq Nat
      BY <1>0 DEF Types, Tries
    <3>3. Calls(r)'
      BY <1>0, <1>1, <3>1, <3>2 DEF Types, Ask, History, Calls, epark
    <3>4. QED  BY <1>0, <1>1, <3>3 DEF Types, Ask, History, Calls, epark
  <2>4. QED  BY <2>1, <2>2, <2>3 DEF RelayInv
<1>2. ASSUME NEW r \in Requests, Enter(r) PROVE RelayInv'
  <2>1. Types'  BY <1>0, <1>2 DEF Types, Enter, Goto, Holding, caller, epark, outcome
  <2>2. PoolBalance'
    <3>1. r \notin Holders /\ Holders' = Holders \cup {r}
      BY <1>0, <1>2 DEF Types, Enter, Goto, Holders, Holding
    <3>2. QED  BY <1>0, <1>2, <3>1, TakesOne DEF Enter
  <2>3. History'
    BY <1>0, <1>2 DEF Types, Enter, Goto, History, Calls, caller, epark, outcome
  <2>4. QED  BY <2>1, <2>2, <2>3 DEF RelayInv
<1>3. ASSUME NEW r \in Requests, Unanswered(r) PROVE RelayInv'
  <2>1. PICK w \in {"fail", "noMember", "null", "error"} : Finish(r, w)
    BY <1>3 DEF Unanswered
  <2>2. Types'
    <3>1. pc' \in [Requests -> Holding \cup {"idle", "enter"}]
      BY <1>0, <2>1 DEF Types, Finish, Goto, Holding
    <3>2. reply' \in [Requests -> {"none"} \cup Words]
      BY <1>0, <2>1 DEF Types, Finish, Words
    <3>3. answer' \in [Requests -> {"none", "done", "refused", "garbled"}]
      BY <1>0, <2>1 DEF Types, Finish
    <3>4. QED
      BY <1>0, <1>3, <2>1, <3>1, <3>2, <3>3
      DEF Types, Unanswered, Finish, caller, epark, outcome
  <2>3. PoolBalance'
    <3>1. Holders' = Holders
      BY <1>0, <1>3, <2>1 DEF Types, Unanswered, Finish, Goto, Holders, Holding
    <3>2. QED  BY <1>0, <2>1, <3>1 DEF Finish, PoolBalance
  <2>4. History'
    BY <1>0, <1>3, <2>1
    DEF Types, Unanswered, Finish, Goto, History, Calls, caller, epark, outcome
  <2>5. QED  BY <2>2, <2>3, <2>4 DEF RelayInv
<1>4. ASSUME NEW r \in Requests, Moves(r, "check", "config") \/ Moves(r, "config", "post")
      PROVE  RelayInv'
  <2>1. Types'
    BY <1>0, <1>4 DEF Types, Moves, Goto, Holding, caller, epark, outcome
  <2>2. PoolBalance'
    <3>1. Holders' = Holders  BY <1>0, <1>4 DEF Types, Moves, Goto, Holders, Holding
    <3>2. QED  BY <1>0, <1>4, <3>1 DEF PoolBalance, Moves
  <2>3. History'
    BY <1>0, <1>4 DEF Types, Moves, Goto, History, Calls, caller, epark, outcome
  <2>4. QED  BY <2>1, <2>2, <2>3 DEF RelayInv
<1>5. ASSUME NEW r \in Requests, Send(r) PROVE RelayInv'
  <2>1. tries[r] \in Tries  BY <1>0, <1>5 DEF Send, History, Calls
  <2>2. Types'  BY <1>0, <1>5, <2>1 DEF Types, Send, Goto, Holding, caller, outcome
  <2>3. PoolBalance'
    <3>1. Holders' = Holders  BY <1>0, <1>5 DEF Types, Send, Goto, Holders, Holding
    <3>2. QED  BY <1>0, <1>5, <3>1 DEF PoolBalance, Send
  <2>4. History'
    BY <1>0, <1>5, <2>1 DEF Types, Send, Goto, History, Calls, caller, outcome, Tries
  <2>5. QED  BY <2>2, <2>3, <2>4 DEF RelayInv
<1>6. ASSUME NEW r \in Requests, Read(r) PROVE RelayInv'
  <2>1. PICK w \in Words :
            /\ Finish(r, w)
            /\ w \in {"success", "info"} <=> answer[r] = "done"
    BY <1>0, <1>6 DEF Read, Said, Failed, Broken, Types, Kinds, Words
  <2>2. tries[r] \in Tries  BY <1>0, <1>6 DEF Read, History, Calls
  <2>3. heard' \in [Requests -> SUBSET Tries]
    BY <1>0, <1>6, <2>2 DEF Types, Read
  <2>4. Types'
    BY <1>0, <2>1, <2>3 DEF Types, Finish, Goto, Holding, caller, epark, outcome
  <2>5. PoolBalance'
    <3>1. Holders' = Holders
      BY <1>0, <1>6, <2>1 DEF Types, Read, Finish, Goto, Holders, Holding
    <3>2. QED  BY <1>0, <2>1, <3>1 DEF Finish, PoolBalance
  <2>6. History'
    <3>1. Calls(r)'
      BY <1>0, <1>6, <2>1, <2>2
      DEF Types, Read, Finish, Goto, History, Calls, caller, epark, outcome, Tries, Words
    <3>2. QED
      BY <1>0, <1>6, <2>1, <3>1
      DEF Types, Read, Finish, Goto, History, Calls, caller, epark, outcome
  <2>7. QED  BY <2>4, <2>5, <2>6 DEF RelayInv
<1>7. ASSUME NEW r \in Requests, Return(r) PROVE RelayInv'
  <2>1. PICK w \in {reply[r], Broken(kind[r]), "lost"} :
            /\ told' = [told EXCEPT ![r] = w]
            /\ unsaid' = IF w = reply[r] THEN unsaid
                         ELSE [unsaid EXCEPT ![r] = @ \cup {tries[r]}]
    BY <1>7 DEF Return
  <2>2. tries[r] \in Tries /\ (w \in {"success", "info"} => w = reply[r])
    BY <1>0, <1>7 DEF Return, History, Calls, Broken
  <2>3. Types'
    <3>1. w \in {"none", "lost"} \cup Words
      BY <1>0 DEF Types, Broken, Words
    <3>2. unsaid' \in [Requests -> SUBSET Tries]
      BY <1>0, <2>1, <2>2 DEF Types
    <3>3. pc' \in [Requests -> Holding \cup {"idle", "enter"}]
      BY <1>0, <1>7 DEF Types, Return, Goto
    <3>4. QED
      BY <1>0, <1>7, <2>1, <3>1, <3>2, <3>3 DEF Types, Return, caller, epark
  <2>4. PoolBalance'
    <3>1. r \in Holders /\ Holders' = Holders \ {r}
      BY <1>0, <1>7 DEF Types, Return, Goto, Holders, Holding
    <3>2. QED  BY <1>0, <1>7, <3>1, GivesOne DEF Return
  <2>5. History'
    <3>1. Calls(r)'
      BY <1>0, <1>7, <2>1, <2>2
      DEF Types, Return, Goto, History, Calls, caller, epark
    <3>2. QED
      BY <1>0, <1>7, <2>1, <3>1 DEF Types, Return, Goto, History, Calls, caller, epark
  <2>6. QED  BY <2>3, <2>4, <2>5 DEF RelayInv
<1>8. ASSUME NEW r \in Requests, NEW k \in Tries, Serve(r, k) PROVE RelayInv'
  <2>1. PICK a \in {"done", "refused", "garbled"}, carried \in BOOLEAN :
          /\ (a = "done" => carried) /\ (a = "refused" => ~carried)
          /\ did' = IF carried THEN [did EXCEPT ![r] = @ \cup {k}] ELSE did
          /\ IF pc[r] = "sent" /\ k = tries[r]
             THEN Goto(r, "answered") /\ answer' = [answer EXCEPT ![r] = a]
             ELSE UNCHANGED <<pc, answer>>
    BY <1>8 DEF Serve
  <2>2. Types'
    BY <1>0, <1>8, <2>1 DEF Types, Serve, Goto, Holding, caller, outcome
  <2>3. PoolBalance'
    <3>1. Holders' = Holders  BY <1>0, <2>1 DEF Types, Goto, Holders, Holding
    <3>2. QED  BY <1>0, <1>8, <3>1 DEF PoolBalance, Serve
  <2>4. History'
    <3>1. Calls(r)'
      BY <1>0, <1>8, <2>1 DEF Types, Serve, Goto, History, Calls, caller, outcome, Tries
    <3>2. QED
      BY <1>0, <1>8, <2>1, <3>1 DEF Types, Serve, Goto, History, Calls, caller, outcome
  <2>5. QED  BY <2>2, <2>3, <2>4 DEF RelayInv
<1>9. CASE Finished \/ UNCHANGED vars
  BY <1>0, <1>9 DEF Finished, vars, caller, epark, outcome, RelayInv, Types, PoolBalance, Holders,
      History, Calls
<1>10. QED
  BY <1>0, <1>1, <1>2, <1>3, <1>4, <1>5, <1>6, <1>7, <1>8, <1>9, Ends DEF Next, Step

(* The invariant holds in every behaviour. *)
LEMMA Relayed == Spec => []RelayInv
BY RelayInit, RelayStep, PTL DEF Spec

-----------------------------------------------------------------------------
(* The variables keep their types; in particular the pool never gives out   *)
(* more connections than it has nor takes one back twice.                  *)
THEOREM Typing == Spec => []TypeOK
<1>1. RelayInv => TypeOK
  <2> SUFFICES ASSUME RelayInv PROVE TypeOK
    OBVIOUS
  <2>1. free \in Nat /\ free <= PoolSize
    BY HoldersFinite, ConstantsAssumption DEF RelayInv, PoolBalance
  <2>2. QED  BY <2>1, ConstantsAssumption DEF RelayInv, PoolBalance, Types, TypeOK
<1>2. QED  BY <1>1, Relayed, PTL

(* A caller that is told of success was served by epark in this very call. *)
THEOREM HonestRelay == Spec => []SuccessIsThisCall
<1>1. RelayInv => SuccessIsThisCall
  BY DEF RelayInv, History, Calls, SuccessIsThisCall
<1>2. QED  BY <1>1, Relayed, PTL

(* No call is repeated that epark has carried out, whose answer was read    *)
(* and whose caller was told what the method made of it: a member is       *)
(* charged twice only when an answer or a reply was lost or a commit       *)
(* failed.                                                                 *)
THEOREM RepetitionNeedsLoss == Spec => []RepeatedOnlyUntold
<1>1. RelayInv => RepeatedOnlyUntold
  BY DEF RelayInv, History, Calls, RepeatedOnlyUntold
<1>2. QED  BY <1>1, Relayed, PTL

-----------------------------------------------------------------------------
(* Waiting for a connection *)

(* A call that finds the pool empty waits for calls that hold connections,  *)
(* never for others that wait: the pool cannot stand still by itself.      *)
THEOREM WaitsForHolders ==
    Spec => [](\A r \in Requests : pc[r] = "enter" /\ free = 0
                  => \E s \in Requests \ {r} : pc[s] \in Holding)
<1>1. RelayInv => \A r \in Requests : pc[r] = "enter" /\ free = 0
                     => \E s \in Requests \ {r} : pc[s] \in Holding
  <2> SUFFICES ASSUME RelayInv, NEW r \in Requests, pc[r] = "enter", free = 0
               PROVE  \E s \in Requests \ {r} : pc[s] \in Holding
    OBVIOUS
  <2>1. Cardinality(Holders) # 0
    BY HoldersFinite, ConstantsAssumption DEF RelayInv, PoolBalance
  <2>2. PICK s \in Holders : TRUE
    BY <2>1, FS_EmptySet
  <2>3. s # r  BY DEF Holders, Holding
  <2>4. QED  BY <2>2, <2>3 DEF Holders
<1>2. QED  BY <1>1, Relayed, PTL

(* The thread of a call that holds a connection runs on; its post takes no  *)
(* longer than its timeouts. Weak fairness of Step(r) gives it, for no such *)
(* call waits for anything.                                                *)
CallRuns(r) == [](pc[r] \in Holding => <><<Step(r)>>_vars)

(* Where a call that holds a connection goes with its own step, ...         *)
LEMMA StepsOn ==
    ASSUME NEW r \in Requests, Types, Step(r), pc[r] \in Holding
    PROVE  \/ pc[r] # "commit" /\ pc'[r] = "commit"
           \/ pc[r] = "check" /\ pc'[r] = "config"
           \/ pc[r] = "config" /\ pc'[r] = "post"
           \/ pc[r] = "post" /\ pc'[r] = "sent"
           \/ pc[r] = "commit" /\ pc'[r] = "idle"
<1>1. ASSUME NEW w, Finish(r, w) PROVE pc'[r] = "commit"
  BY <1>1 DEF Finish, Goto, Types
<1>2. CASE Check(r) \/ Configure(r) \/ Send(r)
  BY <1>1, <1>2 DEF Check, Configure, Send, Goto, Types
<1>3. CASE Unreachable(r) \/ TimeOut(r) \/ Read(r)
  BY <1>1, <1>3 DEF Unreachable, TimeOut, Read
<1>4. CASE Return(r)
  BY <1>4 DEF Return, Goto, Types
<1>5. QED  BY <1>2, <1>3, <1>4 DEF Step, Enter, Holding

(* ... and with the steps of others: only epark's answer moves it. *)
LEMMA OthersLeave ==
    ASSUME NEW r \in Requests, Types, [Next]_vars, ~Step(r), pc[r] \in Holding
    PROVE  pc'[r] = pc[r] \/ (pc[r] = "sent" /\ pc'[r] = "answered")
<1>1. ASSUME NEW s \in Requests, Ask(s) PROVE pc'[r] = pc[r]
  BY <1>1 DEF Ask, Types, Holding
<1>2. ASSUME NEW s \in Requests \ {r}, Step(s) PROVE pc'[r] = pc[r]
  <2>1. ASSUME NEW q, Goto(s, q) PROVE pc'[r] = pc[r]
    BY <2>1 DEF Goto, Types
  <2>2. ASSUME NEW w, Finish(s, w) PROVE pc'[r] = pc[r]
    BY <2>1, <2>2 DEF Finish
  <2>3. QED
    BY <1>2, <2>1, <2>2
    DEF Step, Enter, Check, Configure, Send, Unreachable, TimeOut, Read, Return
<1>3. ASSUME NEW s \in Requests, NEW k \in Tries, Serve(s, k)
      PROVE  pc'[r] = pc[r] \/ (pc[r] = "sent" /\ pc'[r] = "answered")
  BY <1>3 DEF Serve, Goto, Types
<1>4. CASE Finished \/ UNCHANGED vars  BY <1>4 DEF Finished, vars
<1>5. QED  BY <1>1, <1>2, <1>3, <1>4 DEF Next

(* A call that holds a connection goes from place to place and ends. *)
LEMMA HolderEnds ==
    ASSUME NEW r \in Requests
    PROVE  []RelayInv /\ [][Next]_vars /\ CallRuns(r)
               => (pc[r] \in Holding ~> pc[r] = "idle")
<1> DEFINE Checks == pc[r] = "check"
           Configures == pc[r] = "config"
           Posts == pc[r] = "post"
           Waits == pc[r] = "sent"
           Reads == pc[r] = "answered"
           Commits == pc[r] = "commit"
           Held == pc[r] \in Holding
           Ended == pc[r] = "idle"
<1>0. RelayInv => Types  BY DEF RelayInv
<1>1. Held <=> Checks \/ Configures \/ Posts \/ Waits \/ Reads \/ Commits
  BY DEF Holding
<1>2. RelayInv /\ [Next]_vars =>
         /\ Checks => Checks' \/ Configures' \/ Commits'
         /\ Configures => Configures' \/ Posts' \/ Commits'
         /\ Posts => Posts' \/ Waits' \/ Commits'
         /\ Waits => Waits' \/ Reads' \/ Commits'
         /\ Reads => Reads' \/ Commits'
         /\ Commits => Commits' \/ Ended'
  BY <1>0, StepsOn, OthersLeave DEF Holding
<1>3. RelayInv /\ <<Step(r)>>_vars =>
         /\ Checks => Configures' \/ Commits'
         /\ Configures => Posts' \/ Commits'
         /\ Posts => Waits' \/ Commits'
         /\ Waits => Commits'
         /\ Reads => Commits'
         /\ Commits => Ended'
  BY <1>0, StepsOn DEF Holding
<1> HIDE DEF Checks, Configures, Posts, Waits, Reads, Commits, Ended, Held
<1>4. CallRuns(r) => [](Held => <><<Step(r)>>_vars)
  BY PTL DEF CallRuns, Held
<1>5. []RelayInv /\ [][Next]_vars /\ CallRuns(r) => (Held ~> Ended)
  BY <1>1, <1>2, <1>3, <1>4, PTL
<1>6. QED  BY <1>5, PTL DEF Held, Ended

(* Every connection that is taken is given back, whatever epark does: each  *)
(* call that holds one ends.                                               *)
THEOREM ConnectionsReturn ==
    ASSUME NEW r \in Requests
    PROVE  Spec /\ CallRuns(r) => (pc[r] \in Holding ~> pc[r] = "idle")
BY Relayed, HolderEnds, PTL DEF Spec

(* The conjunct of FairSpec for a request gives CallRuns, if Step(r) is      *)
(* enabled where a connection is held: a premise here, for the provers have *)
(* no rules for ENABLED; the guards of the six places say it.              *)
LEMMA FairnessRuns ==
    ASSUME NEW r \in Requests
    PROVE  Spec /\ WF_vars(Step(r)) /\ [](pc[r] \in Holding => ENABLED <<Step(r)>>_vars)
               => CallRuns(r)
<1> DEFINE Held == pc[r] \in Holding
<1>1. Types /\ [Next]_vars /\ Held => Held' \/ <<Step(r)>>_vars
  <2> SUFFICES ASSUME Types, [Next]_vars, Held, ~Held' PROVE <<Step(r)>>_vars
    OBVIOUS
  <2>1. Step(r)  BY OthersLeave DEF Holding
  <2>2. vars' # vars  BY DEF vars
  <2>3. QED  BY <2>1, <2>2
<1>2. Spec => []Types
  <2>1. RelayInv => Types  BY DEF RelayInv
  <2>2. QED  BY <2>1, Relayed, PTL
<1> HIDE DEF Held
<1>3. Spec /\ WF_vars(Step(r)) /\ [](Held => ENABLED <<Step(r)>>_vars)
         => [](Held => <><<Step(r)>>_vars)
  BY <1>1, <1>2, PTL DEF Spec
<1>4. QED  BY <1>3, PTL DEF Held, CallRuns

-----------------------------------------------------------------------------
(* Every call is answered *)

(* All threads that hold a connection run on. *)
AllRun == \A r \in Requests : CallRuns(r)
HoldersRun == []AllRun

(* The pool does not pass a waiting call over for ever while connections    *)
(* come free again and again. In the model the bound on the tries sees to   *)
(* that; without a bound it is for the pool to do.                         *)
Admitted(r) == []<>(free > 0) => (pc[r] = "enter" ~> pc[r] # "enter")

(* A call that stops holding a connection has put it back. *)
LEMMA LetsGo ==
    ASSUME NEW r \in Requests, RelayInv, [Next]_vars, pc[r] \in Holding,
           pc'[r] \notin Holding
    PROVE  free' > 0
<1>0. Types /\ free \in Nat  BY DEF RelayInv, PoolBalance
<1>1. Step(r)  BY <1>0, OthersLeave DEF Holding
<1>2. ASSUME NEW w, Finish(r, w) PROVE pc'[r] \in Holding
  BY <1>0, <1>2 DEF Finish, Goto, Types, Holding
<1>3. CASE Check(r) \/ Configure(r) \/ Send(r)
  BY <1>0, <1>2, <1>3 DEF Check, Configure, Send, Goto, Types, Holding
<1>4. CASE Unreachable(r) \/ TimeOut(r) \/ Read(r)
  BY <1>2, <1>4 DEF Unreachable, TimeOut, Read
<1>5. CASE Return(r)  BY <1>0, <1>5 DEF Return
<1>6. QED  BY <1>1, <1>3, <1>4, <1>5 DEF Step, Enter, Holding

(* Some connection is free again and again, however many calls want one. *)
THEOREM PoolRefills == Spec /\ HoldersRun => []<>(free > 0)
<1> DEFINE Free == free > 0
           Held(r) == pc[r] \in Holding
           Ended(r) == pc[r] = "idle"
<1>1. ASSUME NEW r \in Requests
      PROVE  []RelayInv /\ [][Next]_vars /\ CallRuns(r) => (Held(r) => <>Free)
  <2> DEFINE H == Held(r)
             E == Ended(r)
  <2>1. RelayInv /\ [Next]_vars /\ H => H' \/ Free'
    BY LetsGo
  <2>2. E => ~H
    BY DEF Holding
  <2>3. []RelayInv /\ [][Next]_vars /\ CallRuns(r) => (H ~> E)
    BY HolderEnds
  <2> HIDE DEF H, E, Free
  <2>4. []RelayInv /\ [][Next]_vars /\ CallRuns(r) => (H => <>Free)
    BY <2>1, <2>2, <2>3, PTL
  <2>5. QED  BY <2>4 DEF H
<1>2. RelayInv => Free \/ \E r \in Requests : Held(r)
  <2> SUFFICES ASSUME RelayInv, ~Free PROVE \E r \in Requests : Held(r)
    OBVIOUS
  <2>1. Cardinality(Holders) # 0
    BY HoldersFinite, ConstantsAssumption DEF RelayInv, PoolBalance
  <2>2. QED  BY <2>1, FS_EmptySet DEF Holders
<1> DEFINE Somebody == \E r \in Requests : Held(r)
<1> HIDE DEF Free
<1>3. []RelayInv /\ [][Next]_vars /\ AllRun => (Somebody => <>Free)
  BY <1>1 DEF AllRun
<1>4. RelayInv => Free \/ Somebody
  BY <1>2
<1> HIDE DEF Somebody
<1>5. Spec /\ HoldersRun => []<>Free
  BY <1>3, <1>4, Relayed, PTL DEF Spec, HoldersRun
<1>6. QED  BY <1>5, PTL DEF Free

(* Every call is answered, although each holds its connection while it      *)
(* waits for epark: for any size of the pool and without a bound on the     *)
(* calls that come, if the pool lets no call wait for ever.                *)
THEOREM AllAnswered ==
    Spec /\ HoldersRun /\ (\A r \in Requests : Admitted(r)) => EveryRelayAnswered
<1>1. ASSUME NEW r \in Requests
      PROVE  Spec /\ HoldersRun /\ Admitted(r) => (pc[r] = "enter" ~> pc[r] = "idle")
  <2> DEFINE Enters == pc[r] = "enter"
             Held == pc[r] \in Holding
             Ended == pc[r] = "idle"
             Free == free > 0
             Left == pc[r] # "enter"
  <2>1. RelayInv => Enters \/ Held \/ Ended
    BY DEF RelayInv, Types
  <2>2. HoldersRun => CallRuns(r)
    <3>1. AllRun => CallRuns(r)  BY DEF AllRun
    <3>2. QED  BY <3>1, PTL DEF HoldersRun
  <2>3. Spec /\ HoldersRun => (Held ~> Ended)
    BY <2>2, ConnectionsReturn, PTL
  <2>4. Spec /\ HoldersRun => []<>Free
    BY PoolRefills
  <2>5. Left => ~Enters
    OBVIOUS
  <2> HIDE DEF Enters, Held, Ended, Free, Left
  <2>6. Admitted(r) => ([]<>Free => (Enters ~> Left))
    BY PTL DEF Admitted, Free, Enters, Left
  <2>7. Spec /\ HoldersRun /\ Admitted(r) => (Enters ~> Ended)
    BY <2>1, <2>3, <2>4, <2>5, <2>6, Relayed, PTL
  <2>8. QED  BY <2>7, PTL DEF Enters, Ended
<1>2. QED  BY <1>1 DEF EveryRelayAnswered
=============================================================================
