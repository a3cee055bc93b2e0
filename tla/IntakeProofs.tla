----------------------------- MODULE IntakeProofs -----------------------------
(***************************************************************************)
(* Theorems about Intake for every set of domains, threads and messages.   *)
(* They rest on those about DevConfigCache, whose steps are the steps of   *)
(* Intake as far as its variables go. The last one is about what comes to   *)
(* hold once verifications have ceased.                                    *)
(***************************************************************************)
EXTENDS Intake, DevConfigCacheProofs

(* The table has held row r of domain d, or a verification will store it. *)
Legitimate(r, d) ==
    \/ r \in past[d]
    \/ \E v \in Verifiers : Storing(v, d) /\ r = config[v]

(* A thread keeps what it found while the table and the hash go on. *)
FoundInv ==
    faults = 0 => \A t \in Threads :
        pc[t] \in {"expire", "found"} /\ config[t] # NoRow
            => Legitimate(config[t], domain[t])

(* What a queued message was queued with. *)
SourceInv ==
    faults = 0 => \A k \in Tasks : status[k] # "new" =>
        /\ source[k].row.servEnable = "0101"
        /\ Legitimate(source[k].row, source[k].domain)

-----------------------------------------------------------------------------
(* The steps *)

(* A step of Intake is a step of DevConfigCache, or leaves it alone. *)
LEMMA CacheSteps == [IntakeNext]_intakeVars => [Next]_vars
<1> SUFFICES ASSUME [IntakeNext]_intakeVars PROVE [Next]_vars
  OBVIOUS
<1>1. ASSUME NEW t \in Threads, IntakeStep(t) \/ SendUntold(t) PROVE Next
  BY <1>1 DEF IntakeStep, CacheStep, SendMessage, TurnAway, SendUntold, Step, Next
<1>2. CASE Elsewhere  BY <1>2 DEF Elsewhere, Next
<1>3. ASSUME NEW k \in Tasks, Deliver(k) PROVE UNCHANGED vars  BY <1>3 DEF Deliver
<1>4. CASE UNCHANGED intakeVars  BY <1>4 DEF intakeVars
<1>5. QED  BY <1>1, <1>2, <1>3, <1>4 DEF IntakeNext

(* What the steps do to the queue. *)
LEMMA QueueSteps ==
    ASSUME [IntakeNext]_intakeVars
    PROVE  \/ UNCHANGED queue
           \/ \E t \in Threads, k \in Tasks : pc[t] = "found" /\ Offer(t, k)
           \/ \E k \in Tasks : Deliver(k)
<1>1. ASSUME NEW t \in Threads, CacheStep(t) \/ TurnAway(t) PROVE UNCHANGED queue
  BY <1>1 DEF CacheStep, TurnAway
<1>2. ASSUME NEW t \in Threads, SendMessage(t) \/ SendUntold(t)
      PROVE  pc[t] = "found" /\ \E k \in Tasks : Offer(t, k)
  BY <1>2 DEF SendMessage, SendUntold, Serve
<1>3. CASE Elsewhere  BY <1>3 DEF Elsewhere
<1>4. CASE UNCHANGED intakeVars  BY <1>4 DEF intakeVars
<1>5. QED  BY <1>1, <1>2, <1>3, <1>4 DEF IntakeNext, IntakeStep

-----------------------------------------------------------------------------
(* Types *)

(* Nothing is queued at first. *)
LEMMA IntakeTypeInit == IntakeInit => BaseInv /\ IntakeTypeOK
<1> SUFFICES ASSUME IntakeInit PROVE BaseInv /\ IntakeTypeOK
  OBVIOUS
<1>1. BaseInv  BY BaseInit DEF IntakeInit
<1>2. Queue!TypeOK  BY DEF IntakeInit, Queue!Init, Queue!TypeOK, Queue!Statuses
<1>3. /\ source \in [Tasks -> {NoSource} \cup [domain : Domains, row : Rows]]
      /\ \A k \in Tasks : status[k] = "new" <=> source[k] = NoSource
  BY DEF IntakeInit, Queue!Init
<1>4. QED  BY <1>1, <1>2, <1>3 DEF IntakeTypeOK, BaseInv

(* Every step keeps the types of both parts. *)
LEMMA IntakeTypeStep ==
    BaseInv /\ IntakeTypeOK /\ [IntakeNext]_intakeVars => BaseInv' /\ IntakeTypeOK'
<1> SUFFICES ASSUME BaseInv, IntakeTypeOK, [IntakeNext]_intakeVars
             PROVE  BaseInv' /\ IntakeTypeOK'
  OBVIOUS
<1> DEFINE Sources == {NoSource} \cup [domain : Domains, row : Rows]
           Fresh == \A k \in Tasks : status[k] = "new" <=> source[k] = NoSource
<1>b. BaseInv'  BY BaseStep, CacheSteps
<1>t. TypeOK /\ Queue!TypeOK /\ source \in [Tasks -> Sources] /\ Fresh
  BY DEF IntakeTypeOK
<1>q. SUFFICES Queue!TypeOK' /\ source' \in [Tasks -> Sources] /\ Fresh'
  BY <1>b DEF IntakeTypeOK, BaseInv
<1>1. CASE UNCHANGED queue
  BY <1>1, <1>t DEF queue, Queue!TypeOK, Queue!Statuses
<1>2. ASSUME NEW t \in Threads, NEW k \in Tasks, pc[t] = "found", Offer(t, k)
      PROVE  Queue!TypeOK' /\ source' \in [Tasks -> Sources] /\ Fresh'
  <2> DEFINE new == [domain |-> domain[t], row |-> config[t]]
  <2>1. config[t] \in Rows /\ domain[t] \in Domains
    BY <1>2, <1>t DEF Offer, Enabled, TypeOK
  <2>2. new \in Sources /\ new # NoSource
    BY <2>1, NoRowAssumption DEF NoSource
  <2>3. source' = [source EXCEPT ![k] = new] /\ Queue!Submit(k)  BY <1>2 DEF Offer
  <2>4. Queue!TypeOK'
    BY <2>3, <1>t DEF Queue!Submit, Queue!TypeOK, Queue!Statuses
  <2>5. source' \in [Tasks -> Sources]  BY <2>2, <2>3, <1>t
  <2> HIDE DEF new, Sources
  <2>6. status' = [status EXCEPT ![k] = "pending"] /\ status \in [Tasks -> Queue!Statuses]
    BY <2>3, <1>t DEF Queue!Submit, Queue!TypeOK
  <2>7. Fresh'  BY <2>2, <2>3, <2>6, <1>t
  <2>8. QED  BY <2>4, <2>5, <2>7
<1>3. ASSUME NEW k \in Tasks, Deliver(k)
      PROVE  Queue!TypeOK' /\ source' \in [Tasks -> Sources] /\ Fresh'
  <2>1. CASE Queue!Accept(k) /\ UNCHANGED source
    BY <2>1, <1>t DEF Queue!Accept, Queue!More, Queue!TypeOK, Queue!Statuses
  <2>2. CASE Queue!Retire(k) /\ UNCHANGED source
    BY <2>2, <1>t DEF Queue!Retire, Queue!TypeOK, Queue!Statuses
  <2>3. CASE /\ status' = [status EXCEPT ![k] = "new"]
             /\ accepted' = [accepted EXCEPT ![k] = 0]
             /\ source' = [source EXCEPT ![k] = NoSource]
    BY <2>3, <1>t DEF Queue!TypeOK, Queue!Statuses
  <2>4. QED  BY <1>3, <2>1, <2>2, <2>3 DEF Deliver
<1>4. QED  BY <1>1, <1>2, <1>3, QueueSteps

(* The types hold in every behaviour. *)
LEMMA IntakeTypeInvariant == IntakeSpec => [](BaseInv /\ IntakeTypeOK)
<1>1. QED  BY IntakeTypeInit, IntakeTypeStep, PTL DEF IntakeSpec

(* Every variable keeps its type, and a message has an address exactly     *)
(* while it is in the queue or has been.                                   *)
THEOREM IntakeTyping == IntakeSpec => []IntakeTypeOK
<1>1. QED  BY IntakeTypeInvariant, PTL

-----------------------------------------------------------------------------
(* Messages are queued with rows that the table has held or will hold *)

(* What was legitimate stays so: a verification that was about to store it  *)
(* goes on to, unless it breaks off.                                       *)
LEMMA LegitimateStays ==
    ASSUME BaseInv, [Next]_vars, faults' = 0, NEW d \in Domains, NEW r \in Rows,
           Legitimate(r, d)
    PROVE  \/ r \in past'[d]
           \/ \E v \in Verifiers : /\ domain'[v] = d /\ pc'[v] \in {"update", "commit"}
                                   /\ r = config'[v]
<1> USE DEF local, Goto, End, Storing
<1>a. TypeOK  BY DEF BaseInv
<1>v. Verifiers \subseteq Threads  BY DEF Threads
<1>1. past[d] \subseteq past'[d]
  <2>1. ASSUME NEW t \in Threads, Commit(t) PROVE past[d] \subseteq past'[d]
    BY <2>1, <1>a DEF Commit, TypeOK
  <2>2. ASSUME NEW e \in Domains, Edit(e) PROVE past[d] \subseteq past'[d]
    BY <2>2, <1>a DEF Edit, TypeOK
  <2>3. ASSUME NEW t \in Threads, Step(t), ~Commit(t) PROVE past' = past
    BY <2>3 DEF Step, LookUp, HGet, Select, HPut, Expire, Reject, Accept, Serve,
       Check, Ask, Write, Update
  <2>4. ASSUME NEW t \in Threads, Begin(t) \/ BreakOff(t) PROVE past' = past
    BY <2>4 DEF Begin, BreakOff
  <2>5. CASE TimeOut \/ UNCHANGED vars  BY <2>5 DEF TimeOut, vars
  <2>6. QED  BY <2>1, <2>2, <2>3, <2>4, <2>5 DEF Next
<1>2. ASSUME NEW v \in Verifiers, Storing(v, d), r = config[v]
      PROVE  \/ r \in past'[d]
             \/ domain'[v] = d /\ pc'[v] \in {"update", "commit"} /\ r = config'[v]
  <2>1. ASSUME NEW t \in Threads, BreakOff(t) PROVE FALSE
    BY <1>a, <2>1, ConstantsAssumption DEF BreakOff, TypeOK
  <2>2. ASSUME NEW t \in Threads, Begin(t) \/ LookUp(t) \/ Reject(t) \/ Accept(t)
                                  \/ Serve(t) \/ Check(t) \/ Ask(t) \/ Write(t)
        PROVE  domain'[v] = d /\ pc'[v] \in {"update", "commit"} /\ r = config'[v]
    BY <2>2, <1>2, <1>a, <1>v DEF Begin, LookUp, HGet, Select, HPut, Expire, Reject,
       Accept, Serve, Check, Ask, Write, TypeOK
  <2>3. ASSUME NEW t \in Threads, Update(t)
        PROVE  domain'[v] = d /\ pc'[v] \in {"update", "commit"} /\ r = config'[v]
    BY <2>3, <1>2, <1>a, <1>v DEF Update, TypeOK
  <2>4. ASSUME NEW t \in Threads, Commit(t)
        PROVE  \/ r \in past'[d]
               \/ domain'[v] = d /\ pc'[v] \in {"update", "commit"} /\ r = config'[v]
    BY <2>4, <1>2, <1>a, <1>v DEF Commit, TypeOK
  <2>5. CASE TimeOut \/ (\E e \in Domains : Edit(e)) \/ UNCHANGED vars
    BY <2>5, <1>2 DEF TimeOut, Edit, vars
  <2>6. QED  BY <2>1, <2>2, <2>3, <2>4, <2>5 DEF Next, Step
<1>3. QED  BY <1>1, <1>2 DEF Legitimate

(* A look-up finds only what is legitimate. *)
LEMMA FoundStep ==
    BaseInv /\ StoredInv /\ FoundInv /\ [Next]_vars => FoundInv'
<1> SUFFICES ASSUME BaseInv, StoredInv, FoundInv, [Next]_vars, faults' = 0,
                    NEW u \in Threads,
                    pc'[u] \in {"expire", "found"}, config'[u] # NoRow
             PROVE  \/ config'[u] \in past'[domain'[u]]
                    \/ \E v \in Verifiers :
                          /\ domain'[v] = domain'[u] /\ pc'[v] \in {"update", "commit"}
                          /\ config'[u] = config'[v]
  BY DEF FoundInv, Legitimate, Storing
<1> USE DEF local, Goto, End
<1>a. TypeOK /\ Existing  BY DEF BaseInv
<1>b. ASSUME NEW t \in Threads, BreakOff(t) PROVE FALSE
  BY <1>a, <1>b, ConstantsAssumption DEF BreakOff, TypeOK
<1>f. faults = 0
  BY <1>b DEF Next, Begin, Step, LookUp, HGet, Select, HPut, Expire, Reject, Accept,
       Serve, Check, Ask, Write, Update, Commit, TimeOut, Edit, vars
<1>s. /\ FoundWasStored
      /\ \A d \in Domains : table[d] \in past[d]
      /\ \A t \in Threads : HeldBy(t)
  BY <1>f DEF StoredInv
<1>d. domain[u] \in Domains  BY <1>a DEF TypeOK
(* It is enough that the row was legitimate before the step. *)
<1>q. ASSUME domain'[u] = domain[u], config'[u] \in Rows, Legitimate(config'[u], domain[u])
      PROVE  \/ config'[u] \in past'[domain'[u]]
             \/ \E v \in Verifiers :
                   /\ domain'[v] = domain'[u] /\ pc'[v] \in {"update", "commit"}
                   /\ config'[u] = config'[v]
  BY <1>q, <1>d, LegitimateStays
<1>r. config'[u] \in Rows
  <2>1. TypeOK'  BY BaseStep DEF BaseInv
  <2>2. QED  BY <2>1 DEF TypeOK
<1>1. CASE pc[u] \in {"expire", "found"} /\ config'[u] = config[u] /\ domain'[u] = domain[u]
  <2>1. Legitimate(config[u], domain[u])  BY <1>1, <1>f DEF FoundInv
  <2>2. QED  BY <1>1, <1>q, <1>r, <2>1
<1>2. CASE HGet(u)
  <2>1. config'[u] = hash[domain[u]] /\ domain'[u] = domain[u]
    BY <1>2, <1>a DEF HGet, TypeOK
  <2>2. Legitimate(hash[domain[u]], domain[u])
    BY <1>s, <1>d, <1>f, <2>1 DEF FoundWasStored, Legitimate
  <2>3. QED  BY <1>q, <1>r, <2>1, <2>2
<1>3. CASE Select(u)
  BY <1>3, <1>a DEF Select, TypeOK
<1>4. CASE HPut(u)
  <2>1. config'[u] = config[u] /\ domain'[u] = domain[u] /\ pc[u] = "hput"
    BY <1>4 DEF HPut
  <2>2. Legitimate(config[u], domain[u])  BY <1>s, <2>1 DEF HeldBy, Legitimate
  <2>3. QED  BY <1>q, <1>r, <2>1, <2>2
<1>5. ASSUME NEW t \in Threads, Begin(t) \/ Step(t)
      PROVE  \/ pc[u] \in {"expire", "found"} /\ config'[u] = config[u] /\ domain'[u] = domain[u]
             \/ HGet(u) \/ Select(u) \/ HPut(u)
  <2>1. CASE t # u
    BY <1>5, <2>1, <1>a DEF Begin, Step, LookUp, HGet, Select, HPut, Expire, Reject, Accept,
       Serve, Check, Ask, Write, Update, Commit, TypeOK
  <2>2. CASE t = u
    BY <1>5, <2>2, <1>a DEF Begin, Step, LookUp, Expire, Reject, Accept,
       Serve, Check, Ask, Write, Update, Commit, TypeOK
  <2>3. QED  BY <2>1, <2>2
<1>6. CASE TimeOut \/ (\E d \in Domains : Edit(d)) \/ UNCHANGED vars
  BY <1>1, <1>6 DEF TimeOut, Edit, vars
<1>7. QED  BY <1>1, <1>2, <1>3, <1>4, <1>5, <1>6, <1>b DEF Next

(* A message is queued with what was found, and keeps it. *)
LEMMA SourceStep ==
    BaseInv /\ IntakeTypeOK /\ FoundInv /\ SourceInv /\ [IntakeNext]_intakeVars
        => SourceInv'
<1> SUFFICES ASSUME BaseInv, IntakeTypeOK, FoundInv, SourceInv, [IntakeNext]_intakeVars,
                    faults' = 0, NEW j \in Tasks, status'[j] # "new"
             PROVE  /\ source'[j].row.servEnable = "0101"
                    /\ \/ source'[j].row \in past'[source'[j].domain]
                       \/ \E v \in Verifiers :
                             /\ domain'[v] = source'[j].domain
                             /\ pc'[v] \in {"update", "commit"}
                             /\ source'[j].row = config'[v]
  BY DEF SourceInv, Legitimate, Storing
<1>n. [Next]_vars  BY CacheSteps
<1>t. /\ TypeOK /\ Queue!TypeOK
      /\ source \in [Tasks -> {NoSource} \cup [domain : Domains, row : Rows]]
      /\ \A k \in Tasks : status[k] = "new" <=> source[k] = NoSource
  BY DEF IntakeTypeOK
<1>f. faults = 0
  <2>1. ASSUME NEW t \in Threads, BreakOff(t) PROVE FALSE
    BY <1>t, <2>1, ConstantsAssumption DEF BreakOff, TypeOK
  <2>2. QED
    BY <1>n, <2>1 DEF Next, Begin, Step, LookUp, HGet, Select, HPut, Expire, Reject, Accept,
       Serve, Check, Ask, Write, Update, Commit, TimeOut, Edit, vars
(* It is enough that the row was legitimate before the step. *)
<1>q. ASSUME NEW d \in Domains, NEW r \in Rows, Legitimate(r, d), r.servEnable = "0101",
             source'[j] = [domain |-> d, row |-> r]
      PROVE  /\ source'[j].row.servEnable = "0101"
             /\ \/ source'[j].row \in past'[source'[j].domain]
                \/ \E v \in Verifiers :
                      /\ domain'[v] = source'[j].domain
                      /\ pc'[v] \in {"update", "commit"}
                      /\ source'[j].row = config'[v]
  <2>1. source'[j].row = r /\ source'[j].domain = d  BY <1>q
  <2>2. \/ r \in past'[d]
        \/ \E v \in Verifiers : /\ domain'[v] = d /\ pc'[v] \in {"update", "commit"}
                                /\ r = config'[v]
    BY <1>q, <1>n, LegitimateStays
  <2>3. QED  BY <1>q, <2>1, <2>2
<1>1. CASE status[j] # "new" /\ source'[j] = source[j]
  <2>1. source[j] \in [domain : Domains, row : Rows]  BY <1>1, <1>t
  <2>2. source[j].row.servEnable = "0101" /\ Legitimate(source[j].row, source[j].domain)
    BY <1>1, <1>f DEF SourceInv
  <2>3. source'[j] = [domain |-> source[j].domain, row |-> source[j].row]
        /\ source[j].domain \in Domains /\ source[j].row \in Rows
    BY <1>1, <2>1
  <2>4. QED  BY <1>q, <2>2, <2>3
<1>2. ASSUME NEW t \in Threads, pc[t] = "found", Offer(t, j)
      PROVE  /\ source'[j].row.servEnable = "0101"
             /\ \/ source'[j].row \in past'[source'[j].domain]
                \/ \E v \in Verifiers :
                      /\ domain'[v] = source'[j].domain
                      /\ pc'[v] \in {"update", "commit"}
                      /\ source'[j].row = config'[v]
  <2>1. /\ source'[j] = [domain |-> domain[t], row |-> config[t]]
        /\ config[t] # NoRow /\ config[t].servEnable = "0101"
    BY <1>2, <1>t DEF Offer, Enabled
  <2>2. config[t] \in Rows /\ domain[t] \in Domains  BY <2>1, <1>t DEF TypeOK
  <2>3. Legitimate(config[t], domain[t])  BY <1>2, <1>f, <2>1 DEF FoundInv
  <2>4. QED  BY <1>q, <2>1, <2>2, <2>3
<1>3. ASSUME NEW t \in Threads, NEW k \in Tasks, k # j, Offer(t, k)
      PROVE  status[j] # "new" /\ source'[j] = source[j]
  BY <1>3, <1>t DEF Offer, Queue!Submit, Queue!TypeOK
<1>4. ASSUME NEW k \in Tasks, Deliver(k)
      PROVE  status[j] # "new" /\ source'[j] = source[j]
  BY <1>4, <1>t DEF Deliver, Queue!Accept, Queue!Retire, Queue!TypeOK
<1>5. CASE UNCHANGED queue
  BY <1>1, <1>5 DEF queue
<1>6. QED  BY <1>1, <1>2, <1>3, <1>4, <1>5, QueueSteps

(* Unless a request breaks off, no message is queued for a domain whose     *)
(* server was not enabled in a row the table has held or will hold.        *)
THEOREM QueuedWasEnabledHolds == IntakeSpec => []QueuedWasEnabled
<1> DEFINE Inv == StoredInv /\ FoundInv /\ SourceInv
<1>1. IntakeInit => Inv
  <2> SUFFICES ASSUME IntakeInit PROVE Inv  OBVIOUS
  <2>1. StoredInv  BY StoredInit DEF IntakeInit
  <2>2. FoundInv  BY DEF IntakeInit, Init, FoundInv
  <2>3. SourceInv  BY DEF IntakeInit, Queue!Init, SourceInv
  <2>4. QED  BY <2>1, <2>2, <2>3
<1>2. BaseInv /\ IntakeTypeOK /\ Inv /\ [IntakeNext]_intakeVars => Inv'
  BY CacheSteps, StoredStep, FoundStep, SourceStep
<1>3. Inv => QueuedWasEnabled
  BY DEF SourceInv, Legitimate, QueuedWasEnabled
<1> HIDE DEF Inv
<1>4. QED  BY <1>1, <1>2, <1>3, IntakeTypeInvariant, PTL DEF IntakeSpec

-----------------------------------------------------------------------------
(* The intake implements the cache *)

(* Whatever the queue does, the intake behaves as DevConfigCache says.      *)
THEOREM IntakeImplementsCache == IntakeSpec => Spec
<1>1. IntakeInit => Init  BY DEF IntakeInit
<1>2. QED  BY <1>1, CacheSteps, PTL DEF IntakeSpec, Spec

(* So what the cache promises holds of it where its rows are used.          *)
(* Unless a request breaks off, a row in the hash was in the table or is    *)
(* about to be.                                                            *)
THEOREM IntakeFindsStored == IntakeSpec => []FoundWasStored
BY IntakeImplementsCache, FoundWasStoredHolds, PTL

(* Unless a request breaks off, two verifications of a domain overlap or    *)
(* others change the table, an older row in the hash goes away by itself.  *)
THEOREM IntakeStaleExpires == IntakeSpec => []StaleExpires
BY IntakeImplementsCache, StaleExpiresHolds, PTL

-----------------------------------------------------------------------------
(* Once all copies agree with the table, they do for ever *)

(* No verification is under way, and whatever the hash and the threads hold *)
(* of a domain is its row in the table.                                    *)
Settled ==
    /\ \A v \in Verifiers : pc[v] = "idle"
    /\ \A d \in Domains : hash[d] \in {NoRow, table[d]}
    /\ \A t \in Threads : /\ config[t] \in {NoRow, table[domain[t]]}
                          /\ seen[t] \in {NoRow, table[domain[t]]}

(* No verification begins and nobody else changes the table. *)
Quiet == (\A v \in Verifiers : pc'[v] = "idle") /\ edits' = edits

(* What QueuedAsStored says of a step. *)
QueuesStored ==
    \A k \in Tasks : status[k] = "new" /\ status'[k] # "new" =>
        source'[k].row = table[source'[k].domain]

(* A look-up of settled copies finds the row of the table, a thread that    *)
(* misses the hash reads it, and the hash is given nothing else.           *)
LEMMA SettledStep ==
    ASSUME BaseInv, Settled, [Next]_vars, Quiet
    PROVE  Settled'
<1> USE DEF local, Goto, End
<1>a. TypeOK /\ Verifiers \subseteq Threads  BY DEF BaseInv, Threads
<1>b. /\ \A d \in Domains : hash[d] \in {NoRow, table[d]}
      /\ \A t \in Threads : /\ config[t] \in {NoRow, table[domain[t]]}
                            /\ seen[t] \in {NoRow, table[domain[t]]}
  BY DEF Settled
<1>q. SUFFICES ASSUME TRUE
               PROVE  /\ \A d \in Domains : hash'[d] \in {NoRow, table'[d]}
                      /\ \A t \in Threads : /\ config'[t] \in {NoRow, table'[domain'[t]]}
                                            /\ seen'[t] \in {NoRow, table'[domain'[t]]}
  BY DEF Settled, Quiet
<1>1. ASSUME NEW t \in Threads, Begin(t)
      PROVE  config[t] = NoRow /\ seen[t] = NoRow
  BY <1>1 DEF Begin, BaseInv, Existing, Known
<1>2. ASSUME NEW t \in Threads, Check(t) \/ Ask(t) \/ Write(t) \/ Update(t) \/ Commit(t)
      PROVE  FALSE
  <2>1. t \in Verifiers /\ pc[t] # "idle"
    BY <1>2, <1>a DEF Check, Ask, Write, Update, Commit, TypeOK, ThreadOK
  <2>2. QED  BY <2>1 DEF Settled
<1>3. ASSUME NEW d \in Domains, Edit(d) PROVE FALSE
  BY <1>3, <1>a DEF Edit, Quiet, TypeOK
<1>4. ASSUME NEW t \in Threads, Begin(t) \/ LookUp(t) \/ Reject(t) \/ Accept(t) \/ Serve(t)
                                \/ BreakOff(t)
      PROVE  /\ \A d \in Domains : hash'[d] \in {NoRow, table'[d]}
             /\ \A u \in Threads : /\ config'[u] \in {NoRow, table'[domain'[u]]}
                                   /\ seen'[u] \in {NoRow, table'[domain'[u]]}
  <2>1. Snapshot(t) \in {NoRow, table[domain[t]]}  BY <1>b DEF Snapshot
  <2>2. domain[t] \in Domains  BY <1>a DEF TypeOK
  <2>3. CASE Begin(t)  BY <1>a, <1>b, <1>1, <2>3 DEF Begin, TypeOK
  <2>4. CASE LookUp(t)
    BY <1>a, <1>b, <2>1, <2>2, <2>4 DEF LookUp, HGet, Select, HPut, Expire, TypeOK
  <2>5. CASE Accept(t)  BY <1>a, <1>b, <2>1, <2>5 DEF Accept, TypeOK
  <2>6. CASE Reject(t) \/ Serve(t) \/ BreakOff(t)
    BY <1>a, <1>b, <2>6 DEF Reject, Serve, BreakOff, TypeOK
  <2>7. QED  BY <1>4, <2>3, <2>4, <2>5, <2>6
<1>5. CASE TimeOut \/ UNCHANGED vars  BY <1>a, <1>b, <1>5 DEF TimeOut, vars, TypeOK
<1>6. QED  BY <1>2, <1>3, <1>4, <1>5 DEF Next, Step

(* A message is queued with the row that its thread holds. *)
LEMMA OfferedRow ==
    ASSUME IntakeTypeOK, NEW t \in Threads, NEW j \in Tasks, Offer(t, j),
           config[t] \in {NoRow, table[domain[t]]},
           NEW k \in Tasks, status[k] = "new", status'[k] # "new"
    PROVE  source'[k].row = table[source'[k].domain]
<1>a. Queue!TypeOK /\ source \in [Tasks -> {NoSource} \cup [domain : Domains, row : Rows]]
  BY DEF IntakeTypeOK
<1>1. j = k  BY <1>a DEF Offer, Queue!Submit, Queue!TypeOK
<1>2. source'[k] = [domain |-> domain[t], row |-> config[t]] /\ config[t] # NoRow
  BY <1>a, <1>1 DEF Offer, Enabled
<1>3. QED  BY <1>2

LEMMA SettledQueues ==
    ASSUME BaseInv, IntakeTypeOK, Settled, [IntakeNext]_intakeVars
    PROVE  QueuesStored
<1> SUFFICES ASSUME NEW k \in Tasks, status[k] = "new", status'[k] # "new"
             PROVE  source'[k].row = table[source'[k].domain]
  BY DEF QueuesStored
<1>a. Queue!TypeOK  BY DEF IntakeTypeOK
<1>1. ASSUME NEW t \in Threads, NEW j \in Tasks, Offer(t, j)
      PROVE  source'[k].row = table[source'[k].domain]
  <2>1. config[t] \in {NoRow, table[domain[t]]}  BY DEF Settled
  <2>2. QED  BY <1>1, <2>1, OfferedRow
<1>2. ASSUME NEW j \in Tasks, Deliver(j) PROVE FALSE
  BY <1>2, <1>a DEF Deliver, Queue!Accept, Queue!Retire, Queue!TypeOK
<1>3. CASE UNCHANGED queue  BY <1>3 DEF queue
<1>4. QED  BY <1>1, <1>2, <1>3, QueueSteps

(* Once the copies are settled, and as long as no verification begins and   *)
(* nobody changes the table, messages are queued only with the row in the   *)
(* table, whatever the requests do, break off or meet with Redis: a server  *)
(* that was disabled gets no more of them. That they come to be settled    *)
(* needs fairness: see QueuesSettle.                                       *)
THEOREM SettledForEver ==
    IntakeSpec => [](Settled /\ [][Quiet]_intakeVars
                       => []Settled /\ [][QueuesStored]_intakeVars)
<1>1. BaseInv /\ IntakeTypeOK /\ Settled /\ [IntakeNext]_intakeVars /\ [Quiet]_intakeVars
          => Settled' /\ [QueuesStored]_intakeVars
  <2> SUFFICES ASSUME BaseInv, IntakeTypeOK, Settled, [IntakeNext]_intakeVars,
                      [Quiet]_intakeVars
               PROVE  Settled' /\ QueuesStored
    OBVIOUS
  <2>1. QueuesStored  BY SettledQueues
  <2>2. ASSUME Quiet PROVE Settled'
    <3>1. [Next]_vars  BY CacheSteps
    <3>2. QED  BY <2>2, <3>1, SettledStep
  <2>3. ASSUME UNCHANGED intakeVars PROVE Settled'
    BY <2>3 DEF intakeVars, vars, local, Settled
  <2>4. QED  BY <2>1, <2>2, <2>3
<1>2. QED  BY <1>1, IntakeTypeInvariant, PTL DEF IntakeSpec

-----------------------------------------------------------------------------
(* Once verifications have ceased, the copies come to agree with the table *)

(* No verification is under way, and nothing happened of what QueuedAsStored *)
(* excepts.                                                                *)
Ceased ==
    /\ BaseInv /\ IntakeTypeOK /\ StaleExpires
    /\ faults = 0 /\ edits = 0 /\ ~overlapped
    /\ \A v \in Verifiers : pc[v] = "idle"

(* Nothing of what a thread holds changes. *)
Rests(t) == UNCHANGED <<pc[t], domain[t], checked[t], seen[t], config[t]>>

(* Then only requests of transferCustomData take steps, and none breaks off. *)
Serves(t) == LookUp(t) \/ Reject(t) \/ Accept(t) \/ Serve(t)

LEMMA OnlyServes ==
    ASSUME Ceased, NEW t \in Threads, IntakeStep(t)
    PROVE  Serves(t)
<1>a. TypeOK  BY DEF Ceased, BaseInv
<1>1. ASSUME Check(t) \/ Ask(t) \/ Write(t) \/ Update(t) \/ Commit(t) PROVE FALSE
  <2>1. t \in Verifiers /\ pc[t] # "idle"
    BY <1>1, <1>a DEF Check, Ask, Write, Update, Commit, TypeOK, ThreadOK
  <2>2. QED  BY <2>1 DEF Ceased
<1>2. QED  BY <1>1 DEF IntakeStep, CacheStep, SendMessage, TurnAway, Serves

LEMMA CeasedSteps ==
    ASSUME Ceased, Ceased', [IntakeNext]_intakeVars
    PROVE  \/ \E t \in Threads : Begin(t) \/ (IntakeStep(t) /\ Serves(t))
           \/ TimeOut
           \/ UNCHANGED vars
<1>a. faults = 0 /\ faults' = 0 /\ edits = 0 /\ edits' = 0  BY DEF Ceased
<1>1. ASSUME NEW t \in Threads, BreakOff(t) PROVE FALSE  BY <1>1, <1>a DEF BreakOff
<1>2. ASSUME NEW t \in Threads, SendUntold(t) PROVE FALSE  BY <1>1, <1>2 DEF SendUntold
<1>3. ASSUME NEW d \in Domains, Edit(d) PROVE FALSE  BY <1>3, <1>a DEF Edit
<1>4. CASE Elsewhere  BY <1>1, <1>3, <1>4 DEF Elsewhere
<1>5. ASSUME NEW k \in Tasks, Deliver(k) PROVE UNCHANGED vars  BY <1>5 DEF Deliver
<1>6. CASE UNCHANGED intakeVars  BY <1>6 DEF intakeVars
<1>7. QED  BY <1>2, <1>4, <1>5, <1>6, OnlyServes DEF IntakeNext

(* A thread changes by its own steps only, and the table not at all. *)
LEMMA ThreadSteps ==
    ASSUME Ceased, Ceased', [IntakeNext]_intakeVars, NEW t \in Threads
    PROVE  /\ table' = table
           /\ \/ Begin(t)
              \/ IntakeStep(t) /\ Serves(t)
              \/ Rests(t)
<1> USE DEF local, Goto, End
<1>a. TypeOK  BY DEF Ceased, BaseInv
<1>1. ASSUME NEW u \in Threads, Begin(u) \/ (IntakeStep(u) /\ Serves(u))
      PROVE  table' = table /\ (u # t => Rests(t))
  <2>1. CASE Begin(u)  BY <1>a, <2>1 DEF Begin, Rests, TypeOK
  <2>2. CASE LookUp(u)
    BY <1>a, <2>2 DEF LookUp, HGet, Select, HPut, Expire, Rests, TypeOK
  <2>3. CASE Reject(u) \/ Accept(u) \/ Serve(u)
    BY <1>a, <2>3 DEF Reject, Accept, Serve, Rests, TypeOK
  <2>4. QED  BY <1>1, <2>1, <2>2, <2>3 DEF Serves
<1>2. CASE TimeOut  BY <1>2 DEF TimeOut, Rests
<1>3. CASE UNCHANGED vars  BY <1>3 DEF vars, Rests
<1>4. QED  BY <1>1, <1>2, <1>3, CeasedSteps

(* Where a request waits for nothing. A message may have to wait for a value *)
(* of Tasks that is new, and nothing makes a request begin.                 *)
Going(t) ==
    \/ pc[t] \in {"hget", "select", "hput", "expire"}
    \/ pc[t] = "found" /\ ~checked[t]

(* Its thread goes on there: the weak fairness of IntakeFairSpec, with the  *)
(* guards for ENABLED.                                                     *)
GoesOn(t) == [](Going(t) => <>(~Going(t)) \/ <><<IntakeStep(t)>>_intakeVars)

AllGoOn == \A t \in Threads : GoesOn(t)

(* The places of a request, in their order. *)
Advances(t) ==
    \/ pc[t] = "hget" /\ pc'[t] \in {"select", "found"}
    \/ pc[t] = "select" /\ pc'[t] \in {"hput", "found"}
    \/ pc[t] = "hput" /\ pc'[t] = "expire"
    \/ pc[t] = "expire" /\ pc'[t] = "found"

LEMMA GoingSteps ==
    ASSUME Ceased, Ceased', [IntakeNext]_intakeVars, NEW t \in Threads, Going(t)
    PROVE  /\ ~IntakeStep(t) => pc'[t] = pc[t] /\ checked'[t] = checked[t]
           /\ IntakeStep(t) =>
                  \/ Advances(t) /\ checked'[t] = checked[t]
                  \/ pc[t] = "found" /\ pc'[t] = "hget" /\ checked'[t]
                  \/ ~Going(t)'
<1>a. TypeOK  BY DEF Ceased, BaseInv
<1>1. ASSUME ~IntakeStep(t) PROVE pc'[t] = pc[t] /\ checked'[t] = checked[t]
  BY <1>1, ThreadSteps DEF Rests, Begin, Going
<1>2. ASSUME IntakeStep(t)
      PROVE  \/ Advances(t) /\ checked'[t] = checked[t]
             \/ pc[t] = "found" /\ pc'[t] = "hget" /\ checked'[t]
             \/ ~Going(t)'
  <2>1. CASE LookUp(t)
    BY <1>a, <2>1 DEF LookUp, HGet, Select, HPut, Expire, Goto, Advances, TypeOK
  <2>2. CASE Reject(t) \/ Serve(t)
    BY <1>a, <2>2 DEF Reject, Serve, End, Goto, Going, TypeOK
  <2>3. CASE Accept(t)  BY <1>a, <2>3 DEF Accept, Goto, TypeOK
  <2>4. QED  BY <1>2, <2>1, <2>2, <2>3, OnlyServes DEF Serves
<1>3. QED  BY <1>1, <1>2

(* A request comes to its end or to a message that is to be queued. *)
LEMMA RequestsGoOn ==
    ASSUME NEW t \in Threads
    PROVE  []Ceased /\ [][IntakeNext]_intakeVars /\ GoesOn(t) => (Going(t) ~> ~Going(t))
<1> DEFINE Go == Going(t)
           Get == pc[t] = "hget"
           Sel == pc[t] = "select"
           Put == pc[t] = "hput"
           Exp == pc[t] = "expire"
           Fnd == pc[t] = "found"
           Chk == checked[t]
<1>1. /\ Go <=> Get \/ Sel \/ Put \/ Exp \/ (Fnd /\ ~Chk)
      /\ Get => ~Sel /\ ~Put /\ ~Exp /\ ~Fnd
      /\ Sel => ~Put /\ ~Exp /\ ~Fnd
      /\ Put => ~Exp /\ ~Fnd
      /\ Exp => ~Fnd
  BY DEF Going
<1>2. Ceased /\ Ceased' /\ [IntakeNext]_intakeVars /\ Go /\ IntakeStep(t) =>
          \/ ~Go'
          \/ Fnd /\ Get' /\ Chk'
          \/ /\ Chk' <=> Chk
             /\ Get => Sel' \/ Fnd'
             /\ Sel => Put' \/ Fnd'
             /\ Put => Exp'
             /\ Exp => Fnd'
             /\ ~Fnd
  BY GoingSteps DEF Advances
<1>3. Ceased /\ Ceased' /\ [IntakeNext]_intakeVars /\ Go /\ ~IntakeStep(t) =>
          /\ Chk' <=> Chk
          /\ Get' <=> Get
          /\ Sel' <=> Sel
          /\ Put' <=> Put
          /\ Exp' <=> Exp
          /\ Fnd' <=> Fnd
  BY GoingSteps
<1> HIDE DEF Go, Get, Sel, Put, Exp, Fnd, Chk
<1>4. GoesOn(t) => [](Go => <>(~Go) \/ <><<IntakeStep(t)>>_intakeVars)
  BY PTL DEF GoesOn, Go
<1>5. []Ceased /\ [][IntakeNext]_intakeVars /\ GoesOn(t) => (Go ~> ~Go)
  BY <1>1, <1>2, <1>3, <1>4, PTL
<1>6. QED  BY <1>5, PTL DEF Go

(* A request that reads the table after the last verification has stored,   *)
(* reads what will stay, and has nothing else for the hash. One with a      *)
(* message to be queued has done with both.                                *)
Renewed(t) ==
    \/ pc[t] = "found" /\ checked[t]
    \/ /\ seen[t] \in {NoRow, table[domain[t]]}
       /\ pc[t] = "hput" => config[t] = table[domain[t]]

LEMMA RenewedSteps ==
    ASSUME Ceased, NEW t \in Threads
    PROVE  /\ ~Going(t) => Renewed(t)
           /\ Ceased' /\ [IntakeNext]_intakeVars /\ Renewed(t) => Renewed(t)'
<1> USE DEF local, Goto, End
<1>a. TypeOK /\ Known(t)  BY DEF Ceased, BaseInv, Existing
<1>1. ASSUME ~Going(t) PROVE Renewed(t)
  <2>1. pc[t] \notin {"ask", "write", "update", "commit"}
    BY <1>a DEF TypeOK, ThreadOK, Ceased
  <2>2. pc[t] = "idle" \/ (pc[t] = "found" /\ checked[t])
    BY <1>a, <1>1, <2>1 DEF Going, TypeOK, PCs
  <2>3. QED  BY <1>a, <2>2 DEF Known, Renewed
<1>2. ASSUME Ceased', [IntakeNext]_intakeVars, Renewed(t) PROVE Renewed(t)'
  <2>a. table' = table /\ domain[t] \in Domains  BY <1>a, <1>2, ThreadSteps DEF TypeOK
  <2>b. seen[t] \in {NoRow, table[domain[t]]} => Snapshot(t) = table[domain[t]]
    BY DEF Snapshot
  <2>1. CASE Begin(t)  BY <1>a, <2>1 DEF Begin, Known, Renewed, TypeOK
  <2>2. CASE LookUp(t)
    BY <1>a, <1>2, <2>a, <2>b, <2>2
       DEF LookUp, HGet, Select, HPut, Expire, Renewed, TypeOK
  <2>3. CASE Accept(t)
    BY <1>a, <1>2, <2>a, <2>b, <2>3 DEF Accept, Renewed, TypeOK
  <2>4. CASE Reject(t) \/ Serve(t)
    BY <1>a, <2>a, <2>4 DEF Reject, Serve, Renewed, TypeOK
  <2>5. CASE Rests(t)  BY <1>2, <2>a, <2>5 DEF Rests, Renewed
  <2>6. QED  BY <1>2, <2>1, <2>2, <2>3, <2>4, <2>5, ThreadSteps DEF Serves
<1>3. QED  BY <1>1, <1>2

LEMMA Renews ==
    ASSUME NEW t \in Threads
    PROVE  []Ceased /\ [][IntakeNext]_intakeVars /\ GoesOn(t) => <>[]Renewed(t)
<1> DEFINE Go == Going(t)
           New == Renewed(t)
<1>1. Ceased => (~Go => New)  BY RenewedSteps
<1>2. Ceased /\ Ceased' /\ [IntakeNext]_intakeVars /\ New => New'  BY RenewedSteps
<1>3. []Ceased /\ [][IntakeNext]_intakeVars /\ GoesOn(t) => (Go ~> ~Go)
  BY RequestsGoOn
<1> HIDE DEF Go, New
<1>4. []Ceased /\ [][IntakeNext]_intakeVars /\ GoesOn(t) => <>[]New
  BY <1>1, <1>2, <1>3, PTL
<1>5. QED  BY <1>4, PTL DEF New

AllRenewed == \A t \in Threads : Renewed(t)

HashStored == \A d \in Domains : hash[d] \in {NoRow, table[d]}

(* Requests that are renewed put nothing else into the hash. *)
LEMMA HashSteps ==
    ASSUME Ceased, Ceased', [IntakeNext]_intakeVars, AllRenewed
    PROVE  /\ HashStored => HashStored'
           /\ ttl => HashStored' \/ ttl'
           /\ \A t \in Threads :
                 pc[t] = "expire" => HashStored' \/ ttl' \/ pc'[t] = "expire"
<1> USE DEF local, Goto, End
<1>a. TypeOK  BY DEF Ceased, BaseInv
<1>1. ASSUME NEW u \in Threads, Begin(u) \/ (IntakeStep(u) /\ Serves(u))
      PROVE  /\ HashStored => HashStored'
             /\ ttl' = ttl \/ Expire(u)
  <2>1. table' = table  BY <1>1, ThreadSteps
  <2>2. CASE HPut(u)
    <3>1. config[u] = table[domain[u]]  BY <2>2 DEF HPut, AllRenewed, Renewed
    <3>2. QED  BY <1>a, <2>1, <2>2, <3>1 DEF HPut, HashStored, TypeOK
  <2>3. CASE ~HPut(u)
    BY <1>1, <2>1, <2>3
       DEF Begin, Serves, LookUp, HGet, Select, Expire, Reject, Accept, Serve, HashStored
  <2>4. ttl' = ttl \/ Expire(u)
    BY <1>1 DEF Begin, Serves, LookUp, HGet, Select, HPut, Reject, Accept, Serve
  <2>5. QED  BY <2>2, <2>3, <2>4
<1>2. ASSUME NEW u \in Threads, Expire(u)
      PROVE  HashStored' \/ ttl'
  <2>1. hash' = hash /\ table' = table  BY <1>2, ThreadSteps DEF Expire
  <2>2. ttl' \/ \A d \in Domains : hash[d] = NoRow  BY <1>2 DEF Expire
  <2>3. QED  BY <2>1, <2>2 DEF HashStored
<1>3. CASE TimeOut  BY <1>3 DEF TimeOut, HashStored
<1>4. CASE UNCHANGED vars  BY <1>4 DEF vars, HashStored
<1>5. HashStored => HashStored'  BY <1>1, <1>3, <1>4, CeasedSteps
<1>6. ttl => HashStored' \/ ttl'  BY <1>1, <1>2, <1>3, <1>4, CeasedSteps DEF vars
<1>7. ASSUME NEW t \in Threads, pc[t] = "expire"
      PROVE  HashStored' \/ ttl' \/ pc'[t] = "expire"
  <2>1. CASE Expire(t)  BY <1>2, <2>1
  <2>2. CASE ~Expire(t)
    BY <1>7, <2>2, ThreadSteps
       DEF Begin, Serves, LookUp, HGet, Select, HPut, Reject, Accept, Serve, Rests
  <2>3. QED  BY <2>1, <2>2
<1>8. QED  BY <1>5, <1>6, <1>7

(* Redis drops a hash with a time to live. *)
TimesOut == [](ttl => <>(~ttl))

(* What the hash holds of older rows goes away, and does not come back. *)
LEMMA HashSettles ==
    []Ceased /\ [][IntakeNext]_intakeVars /\ []AllRenewed /\ []AllGoOn /\ TimesOut
        => <>[]HashStored
<1> DEFINE Due == \E t \in Threads : pc[t] = "expire"
<1>1. Ceased => HashStored \/ ttl \/ Due
  <2> SUFFICES ASSUME Ceased PROVE HashStored \/ ttl \/ Due
    OBVIOUS
  <2>1. ASSUME NEW t \in Threads, NEW d \in Domains PROVE ~Storing(t, d)
    BY DEF Ceased, BaseInv, TypeOK, ThreadOK, Storing
  <2>2. QED  BY <2>1 DEF Ceased, StaleExpires, HashStored
<1>2. Ceased /\ Ceased' /\ [IntakeNext]_intakeVars /\ AllRenewed =>
          /\ HashStored => HashStored'
          /\ ttl => HashStored' \/ ttl'
  BY HashSteps
<1>3. []Ceased /\ [][IntakeNext]_intakeVars /\ []AllRenewed /\ []AllGoOn
          => (Due => <>(HashStored \/ ttl))
  <2>1. ASSUME NEW t \in Threads
        PROVE  []Ceased /\ [][IntakeNext]_intakeVars /\ []AllRenewed /\ GoesOn(t)
                   => (pc[t] = "expire" => <>(HashStored \/ ttl))
    <3> DEFINE Here == pc[t] = "expire"
               Go == Going(t)
               Out == HashStored \/ ttl
    <3>1. Here => Go  BY DEF Going
    <3>2. Ceased /\ Ceased' /\ [IntakeNext]_intakeVars /\ AllRenewed /\ Here =>
              /\ Out' \/ Here'
              /\ IntakeStep(t) => Out' \/ ~Here'
      <4> SUFFICES ASSUME Ceased, Ceased', [IntakeNext]_intakeVars, AllRenewed, Here
                   PROVE  /\ Out' \/ Here'
                          /\ IntakeStep(t) => Out' \/ ~Here'
        OBVIOUS
      <4>1. Out' \/ Here'  BY HashSteps
      <4>2. IntakeStep(t) => ~Here'
        BY <3>1, GoingSteps DEF Advances, Going
      <4>3. QED  BY <4>1, <4>2
    <3> HIDE DEF Here, Go, Out
    <3>3. GoesOn(t) => [](Go => <>(~Go) \/ <><<IntakeStep(t)>>_intakeVars)
      BY PTL DEF GoesOn, Go
    <3>4. []Ceased /\ [][IntakeNext]_intakeVars /\ []AllRenewed /\ GoesOn(t)
              => (Here => <>Out)
      BY <3>1, <3>2, <3>3, PTL
    <3>5. QED  BY <3>4, PTL DEF Here, Out
  <2>2. []Ceased /\ [][IntakeNext]_intakeVars /\ []AllRenewed /\ AllGoOn
            => (Due => <>(HashStored \/ ttl))
    BY <2>1 DEF AllGoOn
  <2> HIDE DEF Due
  <2>3. QED  BY <2>2, PTL
<1> HIDE DEF Due
<1>4. QED  BY <1>1, <1>2, <1>3, PTL DEF TimesOut

(* What a thread has found last is the row in the table, or none. *)
Fresh(t) == config[t] \in {NoRow, table[domain[t]]}

(* A message is queued only with such a row. *)
SendsFresh(t) == SendMessage(t) => Fresh(t)

LEMMA FreshSteps ==
    ASSUME Ceased, Ceased', [IntakeNext]_intakeVars, AllRenewed, HashStored,
           NEW t \in Threads
    PROVE  /\ Fresh(t) => Fresh(t)'
           /\ SendMessage(t) => Fresh(t)'
<1> USE DEF local, Goto, End
<1>a. TypeOK /\ Known(t)  BY DEF Ceased, BaseInv, Existing
<1>b. table' = table /\ domain[t] \in Domains  BY <1>a, ThreadSteps DEF TypeOK
<1>1. CASE Begin(t)
  <2>1. Fresh(t)'  BY <1>a, <1>1 DEF Begin, Known, Fresh, TypeOK
  <2>2. QED  BY <2>1
<1>2. CASE HGet(t)
  <2>1. Fresh(t)'  BY <1>a, <1>b, <1>2 DEF HGet, HashStored, Fresh, TypeOK
  <2>2. QED  BY <2>1
<1>3. CASE Select(t)
  <2>1. Snapshot(t) = table[domain[t]]
    BY <1>3 DEF Select, AllRenewed, Renewed, Snapshot
  <2>2. Fresh(t)'  BY <1>a, <1>b, <1>3, <2>1 DEF Select, Fresh, TypeOK
  <2>3. QED  BY <2>2
<1>4. CASE HPut(t) \/ Expire(t)
  BY <1>b, <1>4 DEF HPut, Expire, SendMessage, Serve, Fresh
<1>5. CASE Reject(t) \/ Accept(t) \/ Serve(t)
  <2>1. Fresh(t)'  BY <1>a, <1>5 DEF Reject, Accept, Serve, Fresh, TypeOK
  <2>2. QED  BY <2>1
<1>6. CASE Rests(t) /\ ~Serve(t)
  BY <1>b, <1>6 DEF Rests, SendMessage, Fresh
<1>7. QED
  BY <1>1, <1>2, <1>3, <1>4, <1>5, <1>6, ThreadSteps DEF Serves, LookUp

(* A request that never finds the row in the table sends nothing. *)
LEMMA SendsSettle ==
    ASSUME NEW t \in Threads
    PROVE  []Ceased /\ [][IntakeNext]_intakeVars /\ []AllRenewed /\ []HashStored
               => <>[][SendsFresh(t)]_intakeVars
<1> DEFINE New == Fresh(t)
<1>1. Ceased /\ Ceased' /\ [IntakeNext]_intakeVars /\ AllRenewed /\ HashStored
          => /\ New => New' /\ [SendsFresh(t)]_intakeVars
             /\ New' \/ [SendsFresh(t)]_intakeVars
  BY FreshSteps DEF SendsFresh
<1> HIDE DEF New
<1>2. QED  BY <1>1, PTL

LEMMA FreshQueues ==
    ASSUME Ceased, Ceased', [IntakeNext]_intakeVars, \A t \in Threads : SendsFresh(t)
    PROVE  QueuesStored
<1> SUFFICES ASSUME NEW k \in Tasks, status[k] = "new", status'[k] # "new"
             PROVE  source'[k].row = table[source'[k].domain]
  BY DEF QueuesStored
<1>a. /\ IntakeTypeOK /\ Queue!TypeOK
      /\ faults = 0 /\ faults' = 0
  BY DEF Ceased, IntakeTypeOK
<1>1. ASSUME NEW t \in Threads, SendMessage(t)
      PROVE  source'[k].row = table[source'[k].domain]
  <2>1. PICK j \in Tasks : Offer(t, j)  BY <1>1 DEF SendMessage
  <2>2. config[t] \in {NoRow, table[domain[t]]}  BY <1>1 DEF SendsFresh, Fresh
  <2>3. QED  BY <1>a, <2>1, <2>2, OfferedRow
<1>2. ASSUME NEW t \in Threads, CacheStep(t) \/ TurnAway(t) PROVE FALSE
  BY <1>2 DEF CacheStep, TurnAway, queue
<1>3. ASSUME NEW t \in Threads, SendUntold(t) PROVE FALSE
  BY <1>a, <1>3 DEF SendUntold, BreakOff
<1>4. ASSUME NEW j \in Tasks, Deliver(j) PROVE FALSE
  BY <1>4, <1>a DEF Deliver, Queue!Accept, Queue!Retire, Queue!TypeOK
<1>5. CASE Elsewhere \/ UNCHANGED intakeVars
  BY <1>5 DEF Elsewhere, intakeVars, queue
<1>6. QED  BY <1>1, <1>2, <1>3, <1>4, <1>5 DEF IntakeNext, IntakeStep

(* What each of the threads does from some time on, they all do from some   *)
(* time on: true of finitely many, by an induction over their number. These *)
(* two instances are premises below, for the provers have no induction on  *)
(* temporal formulas.                                                      *)
RenewTogether == (\A t \in Threads : <>[]Renewed(t)) => <>[]AllRenewed

SendTogether ==
    (\A t \in Threads : <>[][SendsFresh(t)]_intakeVars)
        => <>[][\A t \in Threads : SendsFresh(t)]_intakeVars

(* The fairness of IntakeFairSpec gives the other two premises, if the       *)
(* actions are enabled there: one more premise, for ENABLED.               *)
LEMMA FairnessGoesOn ==
    ASSUME NEW t \in Threads
    PROVE  WF_intakeVars(IntakeStep(t)) /\ [](Going(t) => ENABLED <<IntakeStep(t)>>_intakeVars)
               => GoesOn(t)
<1> DEFINE Go == Going(t)
<1> HIDE DEF Go
<1>1. WF_intakeVars(IntakeStep(t)) /\ [](Go => ENABLED <<IntakeStep(t)>>_intakeVars)
          => [](Go => <>(~Go) \/ <><<IntakeStep(t)>>_intakeVars)
  BY PTL
<1>2. QED  BY <1>1, PTL DEF Go, GoesOn

LEMMA FairnessTimesOut ==
    /\ WF_intakeVars(TimeOut /\ UNCHANGED queue)
    /\ [](ttl => ENABLED <<TimeOut /\ UNCHANGED queue>>_intakeVars)
    => TimesOut
<1>1. <<TimeOut /\ UNCHANGED queue>>_intakeVars => ~ttl'  BY DEF TimeOut
<1>2. QED  BY <1>1, PTL DEF TimesOut

(* With the exceptions it names, QueuedAsStored holds if the threads of     *)
(* requests go on and Redis drops what has expired: once verifications have *)
(* ceased, what requests and hash hold of older rows is used up.           *)
THEOREM QueuesSettle ==
    IntakeSpec /\ []AllGoOn /\ TimesOut /\ RenewTogether /\ SendTogether
        => QueuedAsStored
<1> DEFINE Excepted == ~(faults = 0 /\ edits = 0 /\ ~overlapped)
           Idle == \A v \in Verifiers : pc[v] = "idle"
           Base == BaseInv /\ IntakeTypeOK /\ StaleExpires
           AllSend == [\A t \in Threads : SendsFresh(t)]_intakeVars
           Quiets == <>[]Ceased /\ [][IntakeNext]_intakeVars
<1>1. IntakeSpec /\ [](~Excepted) /\ <>[]Idle => Quiets
  <2>1. Base /\ ~Excepted /\ Idle => Ceased  BY DEF Ceased
  <2>2. IntakeSpec => []Base
    BY IntakeTypeInvariant, IntakeStaleExpires, PTL
  <2> HIDE DEF Excepted, Idle, Base
  <2>3. QED  BY <2>1, <2>2, PTL DEF IntakeSpec
<1>2. Quiets /\ AllGoOn => \A t \in Threads : <>[]Renewed(t)
  <2>1. ASSUME NEW t \in Threads
        PROVE  Quiets /\ GoesOn(t) => <>[]Renewed(t)
    <3> DEFINE New == Renewed(t)
               On == GoesOn(t)
    <3>1. On => []On  BY PTL DEF GoesOn
    <3>2. []Ceased /\ [][IntakeNext]_intakeVars /\ On => <>[]New  BY Renews
    <3> HIDE DEF New, On
    <3>3. Quiets /\ On => <>[]New  BY <3>1, <3>2, PTL
    <3>4. QED  BY <3>3, PTL DEF New, On
  <2> HIDE DEF Quiets
  <2>2. QED  BY <2>1 DEF AllGoOn
<1>3. Quiets /\ <>[]AllRenewed /\ []AllGoOn /\ TimesOut => <>[]HashStored
  <2>1. TimesOut => []TimesOut  BY PTL DEF TimesOut
  <2>2. QED  BY <2>1, HashSettles, PTL
<1>4. Quiets /\ <>[]AllRenewed /\ <>[]HashStored
          => \A t \in Threads : <>[][SendsFresh(t)]_intakeVars
  <2>1. ASSUME NEW t \in Threads
        PROVE  Quiets /\ <>[]AllRenewed /\ <>[]HashStored
                   => <>[][SendsFresh(t)]_intakeVars
    <3>1. []Ceased /\ [][IntakeNext]_intakeVars /\ []AllRenewed /\ []HashStored
              => <>[][SendsFresh(t)]_intakeVars
      BY SendsSettle
    <3>2. QED  BY <3>1, PTL
  <2> HIDE DEF Quiets
  <2>2. QED  BY <2>1
<1>5. Quiets /\ <>[][\A t \in Threads : SendsFresh(t)]_intakeVars
          => <>[][QueuesStored]_intakeVars
  <2>1. Ceased /\ Ceased' /\ [IntakeNext]_intakeVars /\ [\A t \in Threads : SendsFresh(t)]_intakeVars
            => [QueuesStored]_intakeVars
    BY FreshQueues
  <2>2. QED  BY <2>1, PTL
<1>6. RenewTogether /\ Quiets /\ []AllGoOn => <>[]AllRenewed
  <2>1. RenewTogether /\ Quiets /\ AllGoOn => <>[]AllRenewed  BY <1>2 DEF RenewTogether
  <2>2. QED  BY <2>1, PTL
<1>7. SendTogether /\ Quiets /\ <>[]AllRenewed /\ <>[]HashStored
          => <>[][\A t \in Threads : SendsFresh(t)]_intakeVars
  BY <1>4 DEF SendTogether
<1> HIDE DEF Quiets, Excepted, Idle
<1>8. IntakeSpec /\ []AllGoOn /\ TimesOut /\ RenewTogether /\ SendTogether
          => ([](~Excepted) /\ <>[]Idle => <>[][QueuesStored]_intakeVars)
  BY <1>1, <1>3, <1>5, <1>6, <1>7, PTL
<1>9. QED  BY <1>8, PTL DEF QueuedAsStored, QueuesStored, Excepted, Idle
=============================================================================
