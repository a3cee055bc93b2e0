------------------------- MODULE DevConfigCacheProofs -------------------------
(***************************************************************************)
(* Theorems about DevConfigCache for every set of domains and of threads   *)
(* and every bound on changes and faults.                                  *)
(***************************************************************************)
EXTENDS DevConfigCache, TLAPS

(* TypeOK needs to know that a row found anywhere exists in the table, and *)
(* what a thread has forgotten or kept between two lookups.                *)
Known(t) ==
    /\ config[t] # NoRow \/ seen[t] # NoRow \/ checked[t]
          => table[domain[t]] # NoRow
    /\ pc[t] = "idle" => config[t] = NoRow /\ seen[t] = NoRow /\ ~checked[t]
    /\ pc[t] = "found" /\ checked[t] => config[t] # NoRow
    /\ checked[t] /\ t \in Verifiers => seen[t] # NoRow

Existing ==
    /\ \A d \in Domains : hash[d] # NoRow => table[d] # NoRow
    /\ \A t \in Threads : Known(t)

BaseInv == TypeOK /\ Existing

(* A row found is one the table has held, as long as no request broke off. *)
HeldBy(t) ==
    /\ seen[t] = NoRow \/ seen[t] \in past[domain[t]]
    /\ pc[t] = "hput" => config[t] \in past[domain[t]]

StoredInv ==
    faults = 0 => /\ FoundWasStored
                  /\ \A d \in Domains : table[d] \in past[d]
                  /\ \A t \in Threads : HeldBy(t)

(* One verification of a domain at a time, and what it is about to store is *)
(* in the hash unless an older row is, which goes away.                     *)
Alone ==
    \A v, w \in Verifiers :
        pc[v] # "idle" /\ pc[w] # "idle" /\ domain[v] = domain[w] => v = w

GoesAway == ttl \/ \E t \in Threads : pc[t] = "expire"

AgreeInv ==
    faults = 0 /\ edits = 0 /\ ~overlapped =>
        /\ Alone
        /\ StaleExpires
        /\ \A v \in Verifiers, d \in Domains :
              Storing(v, d) => hash[d] \in {NoRow, config[v]} \/ GoesAway

-----------------------------------------------------------------------------
(* A row stays a row when servEnable or the version is changed. *)
LEMMA RowUpdates ==
    ASSUME NEW r \in Rows
    PROVE  /\ [r EXCEPT !.servEnable = "0101"] \in Rows
           /\ [r EXCEPT !.servEnable = "0102"] \in Rows
           /\ \A e \in 0..MaxEdits : [r EXCEPT !.version = e] \in Rows
BY DEF Rows

(* What the first read finds is a row or none. *)
LEMMA SnapshotType ==
    ASSUME BaseInv, NEW t \in Threads
    PROVE  /\ Snapshot(t) \in Rows \cup {NoRow}
           /\ Snapshot(t) # NoRow <=> table[domain[t]] # NoRow
BY DEF BaseInv, TypeOK, Existing, Known, Snapshot

(* The types hold as the requests begin. *)
LEMMA BaseInit == Init => BaseInv
<1> SUFFICES ASSUME Init PROVE BaseInv
  OBVIOUS
<1>1. [version |-> 0, servEnable |-> "0102"] \in Rows
  BY ConstantsAssumption DEF Rows
<1>2. TypeOK
  <2>1. table \in [Domains -> Rows \cup {NoRow}]  BY <1>1 DEF Init
  <2>2. past \in [Domains -> SUBSET (Rows \cup {NoRow})]  BY <2>1 DEF Init
  <2>3. ASSUME NEW t \in Threads PROVE ThreadOK(t)
    <3>1. pc[t] = "idle" /\ \A d \in Domains : lock[d] = NoThread  BY DEF Init
    <3>2. t # NoThread  BY ConstantsAssumption
    <3>3. QED  BY <3>1, <3>2 DEF ThreadOK
  <2>4. /\ hash \in [Domains -> Rows \cup {NoRow}]
        /\ lock \in [Domains -> Threads \cup {NoThread}]
    BY DEF Init
  <2>5. /\ pc \in [Threads -> PCs] /\ domain \in [Threads -> Domains]
        /\ checked \in [Threads -> BOOLEAN]
        /\ seen \in [Threads -> Rows \cup {NoRow}]
        /\ config \in [Threads -> Rows \cup {NoRow}]
    BY DEF Init, PCs
  <2>6. ttl \in BOOLEAN /\ overlapped \in BOOLEAN  BY DEF Init
  <2>7. edits \in 0..MaxEdits /\ faults \in 0..MaxFaults
    BY ConstantsAssumption DEF Init
  <2>8. QED  BY <2>1, <2>2, <2>3, <2>4, <2>5, <2>6, <2>7 DEF TypeOK
<1>3. Existing  BY DEF Init, Existing, Known
<1>4. QED  BY <1>2, <1>3 DEF BaseInv

(* Every step of a thread keeps the types. *)
LEMMA BaseThread ==
    ASSUME BaseInv, NEW t \in Threads, Begin(t) \/ Step(t) \/ BreakOff(t)
    PROVE  BaseInv'
<1> USE ConstantsAssumption, NoRowAssumption DEF Goto, End
<1>a. TypeOK /\ Existing  BY DEF BaseInv
<1>b. Snapshot(t) \in Rows \cup {NoRow} /\ (Snapshot(t) # NoRow <=> table[domain[t]] # NoRow)
  BY SnapshotType
<1>c. \A u \in Threads : ThreadOK(u) /\ Known(u)
  BY <1>a DEF TypeOK, Existing
<1>r. \A r \in Rows : /\ [r EXCEPT !.servEnable = "0101"] \in Rows
                     /\ [r EXCEPT !.servEnable = "0102"] \in Rows
  BY RowUpdates
<1>1. CASE Begin(t)
  <2>1. TypeOK'  BY <1>1, <1>a, <1>b, <1>c, <1>r DEF Begin, TypeOK, PCs, ThreadOK, Known
  <2>2. Existing'  BY <1>1, <1>a, <1>b, <1>c, <1>r DEF Begin, TypeOK, ThreadOK, Existing, Known
  <2>3. QED  BY <2>1, <2>2 DEF BaseInv
<1>2. CASE HGet(t)
  <2>1. TypeOK'  BY <1>2, <1>a, <1>b, <1>c, <1>r DEF HGet, TypeOK, PCs, ThreadOK, Known
  <2>2. Existing'  BY <1>2, <1>a, <1>b, <1>c, <1>r DEF HGet, TypeOK, ThreadOK, Existing, Known
  <2>3. QED  BY <2>1, <2>2 DEF BaseInv
<1>3. CASE Select(t)
  <2>1. TypeOK'  BY <1>3, <1>a, <1>b, <1>c, <1>r DEF Select, TypeOK, PCs, ThreadOK, Known
  <2>2. Existing'  BY <1>3, <1>a, <1>b, <1>c, <1>r DEF Select, TypeOK, ThreadOK, Existing, Known
  <2>3. QED  BY <2>1, <2>2 DEF BaseInv
<1>4. CASE HPut(t)
  <2>1. TypeOK'  BY <1>4, <1>a, <1>b, <1>c, <1>r DEF HPut, TypeOK, PCs, ThreadOK, Known
  <2>2. Existing'  BY <1>4, <1>a, <1>b, <1>c, <1>r DEF HPut, TypeOK, ThreadOK, Existing, Known
  <2>3. QED  BY <2>1, <2>2 DEF BaseInv
<1>5. CASE Expire(t)
  <2>1. TypeOK'  BY <1>5, <1>a, <1>b, <1>c, <1>r DEF Expire, TypeOK, PCs, ThreadOK, Known
  <2>2. Existing'  BY <1>5, <1>a, <1>b, <1>c, <1>r DEF Expire, TypeOK, ThreadOK, Existing, Known
  <2>3. QED  BY <2>1, <2>2 DEF BaseInv
<1>6. CASE Reject(t)
  <2>1. TypeOK'  BY <1>6, <1>a, <1>b, <1>c, <1>r DEF Reject, TypeOK, PCs, ThreadOK, Known
  <2>2. Existing'  BY <1>6, <1>a, <1>b, <1>c, <1>r DEF Reject, TypeOK, ThreadOK, Existing, Known
  <2>3. QED  BY <2>1, <2>2 DEF BaseInv
<1>7. CASE Accept(t)
  <2>1. TypeOK'  BY <1>7, <1>a, <1>b, <1>c, <1>r DEF Accept, TypeOK, PCs, ThreadOK, Known
  <2>2. Existing'  BY <1>7, <1>a, <1>b, <1>c, <1>r DEF Accept, TypeOK, ThreadOK, Existing, Known
  <2>3. QED  BY <2>1, <2>2 DEF BaseInv
<1>8. CASE Serve(t)
  <2>1. TypeOK'  BY <1>8, <1>a, <1>b, <1>c, <1>r DEF Serve, TypeOK, PCs, ThreadOK, Known
  <2>2. Existing'  BY <1>8, <1>a, <1>b, <1>c, <1>r DEF Serve, TypeOK, ThreadOK, Existing, Known
  <2>3. QED  BY <2>1, <2>2 DEF BaseInv
<1>9. CASE Check(t)
  <2>1. TypeOK'
    <3>1. seen[t] \in Rows  BY <1>9, <1>a, <1>c DEF Check, TypeOK, ThreadOK, Known
    <3>2. [seen[t] EXCEPT !.servEnable = "0102"] \in Rows  BY <3>1, <1>r
    <3>3. config' \in [Threads -> Rows \cup {NoRow}]  BY <1>9, <1>a, <3>2 DEF Check, TypeOK
    <3>4. \A u \in Threads : ThreadOK(u)'
      BY <1>9, <1>a, <1>c, <3>1, <3>2 DEF Check, TypeOK, ThreadOK, Known
    <3>5. QED  BY <1>9, <1>a, <3>3, <3>4 DEF Check, TypeOK, PCs
  <2>2. Existing'  BY <1>9, <1>a, <1>b, <1>c, <1>r DEF Check, TypeOK, ThreadOK, Existing, Known
  <2>3. QED  BY <2>1, <2>2 DEF BaseInv
<1>10. CASE Ask(t)
  <2>1. TypeOK'
    <3>1. seen[t] \in Rows  BY <1>10, <1>a, <1>c DEF Ask, TypeOK, ThreadOK, Known
    <3>2. [seen[t] EXCEPT !.servEnable = "0101"] \in Rows  BY <3>1, <1>r
    <3>3. config' \in [Threads -> Rows \cup {NoRow}]  BY <1>10, <1>a, <3>2 DEF Ask, TypeOK
    <3>4. \A u \in Threads : ThreadOK(u)'
      BY <1>10, <1>a, <1>c, <3>1, <3>2 DEF Ask, TypeOK, ThreadOK, Known
    <3>5. QED  BY <1>10, <1>a, <3>3, <3>4 DEF Ask, TypeOK, PCs
  <2>2. Existing'  BY <1>10, <1>a, <1>b, <1>c, <1>r DEF Ask, TypeOK, ThreadOK, Existing, Known
  <2>3. QED  BY <2>1, <2>2 DEF BaseInv
<1>11. CASE Write(t)
  <2>1. TypeOK'  BY <1>11, <1>a, <1>b, <1>c, <1>r DEF Write, TypeOK, PCs, ThreadOK, Known
  <2>2. Existing'  BY <1>11, <1>a, <1>b, <1>c, <1>r DEF Write, TypeOK, ThreadOK, Existing, Known
  <2>3. QED  BY <2>1, <2>2 DEF BaseInv
<1>12. CASE Update(t)
  <2>1. TypeOK'  BY <1>12, <1>a, <1>b, <1>c, <1>r DEF Update, TypeOK, PCs, ThreadOK, Known
  <2>2. Existing'  BY <1>12, <1>a, <1>b, <1>c, <1>r DEF Update, TypeOK, ThreadOK, Existing, Known
  <2>3. QED  BY <2>1, <2>2 DEF BaseInv
<1>13. CASE Commit(t)
  <2>1. TypeOK'  BY <1>13, <1>a, <1>b, <1>c, <1>r DEF Commit, TypeOK, PCs, ThreadOK, Known
  <2>2. Existing'  BY <1>13, <1>a, <1>b, <1>c, <1>r DEF Commit, TypeOK, ThreadOK, Existing, Known
  <2>3. QED  BY <2>1, <2>2 DEF BaseInv
<1>14. CASE BreakOff(t)
  <2>1. TypeOK'  BY <1>14, <1>a, <1>b, <1>c, <1>r DEF BreakOff, TypeOK, PCs, ThreadOK, Known
  <2>2. Existing'  BY <1>14, <1>a, <1>b, <1>c, <1>r DEF BreakOff, TypeOK, ThreadOK, Existing, Known
  <2>3. QED  BY <2>1, <2>2 DEF BaseInv
<1>15. QED
  BY <1>1, <1>2, <1>3, <1>4, <1>5, <1>6, <1>7, <1>8, <1>9, <1>10, <1>11, <1>12, <1>13, <1>14 DEF Step, LookUp

(* Every step of the system does. *)
LEMMA BaseStep == BaseInv /\ [Next]_vars => BaseInv'
<1> SUFFICES ASSUME BaseInv, [Next]_vars PROVE BaseInv'
  OBVIOUS
<1> USE DEF local
<1>a. TypeOK /\ Existing  BY DEF BaseInv
<1>1. ASSUME NEW t \in Threads, Begin(t) \/ Step(t) \/ BreakOff(t) PROVE BaseInv'
  BY <1>1, BaseThread
<1>2. CASE TimeOut
  <2>1. TypeOK'  BY <1>2, <1>a DEF TimeOut, TypeOK, ThreadOK
  <2>2. Existing'  BY <1>2, <1>a DEF TimeOut, Existing, Known
  <2>3. QED  BY <2>1, <2>2 DEF BaseInv
<1>3. ASSUME NEW d \in Domains, Edit(d) PROVE BaseInv'
  <2>1. edits' \in 0..MaxEdits
    BY <1>3, <1>a, ConstantsAssumption DEF Edit, TypeOK
  <2>2. table' = [table EXCEPT ![d] = [table[d] EXCEPT !.version = edits']]
        /\ table[d] \in Rows
    BY <1>3, <1>a DEF Edit, TypeOK
  <2>3. [table[d] EXCEPT !.version = edits'] \in Rows  BY <2>1, <2>2, RowUpdates
  <2>4. table' \in [Domains -> Rows \cup {NoRow}]  BY <1>a, <2>2, <2>3 DEF TypeOK
  <2>5. past' \in [Domains -> SUBSET (Rows \cup {NoRow})]
    BY <1>3, <1>a, <2>4 DEF Edit, TypeOK
  <2>6. TypeOK'  BY <1>3, <1>a, <2>1, <2>4, <2>5 DEF Edit, TypeOK, ThreadOK
  <2>7. table'[d] # NoRow /\ \A e \in Domains : e # d => table'[e] = table[e]
    BY <1>a, <2>2, <2>3, NoRowAssumption DEF TypeOK
  <2>8. Existing'
    BY <1>3, <1>a, <2>7 DEF Edit, TypeOK, Existing, Known
  <2>9. QED  BY <2>6, <2>8 DEF BaseInv
<1>4. CASE UNCHANGED vars
  <2>1. TypeOK'  BY <1>4, <1>a DEF vars, TypeOK, ThreadOK
  <2>2. Existing'  BY <1>4, <1>a DEF vars, Existing, Known
  <2>3. QED  BY <2>1, <2>2 DEF BaseInv
<1>5. QED  BY <1>1, <1>2, <1>3, <1>4 DEF Next

(* The types hold in every behaviour. *)
LEMMA BaseInvariant == Spec => []BaseInv
<1>1. QED  BY BaseInit, BaseStep, PTL DEF Spec

(* Every variable keeps its type, and no thread goes on without the row it *)
(* is going to write.                                                      *)
THEOREM CacheTypeCorrect == Spec => []TypeOK
<1>1. BaseInv => TypeOK  BY DEF BaseInv
<1>2. QED  BY <1>1, BaseInvariant, PTL

-----------------------------------------------------------------------------
(* Nothing but rows of the table. *)
LEMMA StoredInit == Init => StoredInv
<1> SUFFICES ASSUME Init PROVE StoredInv
  OBVIOUS
<1>1. FoundWasStored  BY DEF Init, FoundWasStored
<1>2. \A d \in Domains : table[d] \in past[d]  BY DEF Init
<1>3. \A t \in Threads : HeldBy(t)  BY DEF Init, HeldBy
<1>4. QED  BY <1>1, <1>2, <1>3 DEF StoredInv

(* Requests that do not break off keep to rows that were stored. *)
LEMMA StoredThread ==
    ASSUME BaseInv, StoredInv, faults = 0,
           NEW t \in Threads, Begin(t) \/ Step(t)
    PROVE  StoredInv'
<1> USE DEF Goto, End
<1>a. TypeOK /\ Existing  BY DEF BaseInv
<1>b. /\ \A d \in Domains : \/ hash[d] = NoRow
                           \/ hash[d] \in past[d]
                           \/ \E u \in Verifiers : Storing(u, d) /\ hash[d] = config[u]
      /\ \A d \in Domains : table[d] \in past[d]
      /\ \A u \in Threads : HeldBy(u)
  BY DEF StoredInv, FoundWasStored
<1>v. Verifiers \subseteq Threads  BY DEF Threads
<1>s. Snapshot(t) \in past[domain[t]]
  BY <1>a, <1>b DEF HeldBy, Snapshot, TypeOK
<1>1. CASE Begin(t)
  <2>1. FoundWasStored'
    BY <1>1, <1>a, <1>b, <1>v DEF Begin, TypeOK, ThreadOK, FoundWasStored, HeldBy, Storing
  <2>2. \A d \in Domains : table'[d] \in past'[d]  BY <1>1, <1>a, <1>b DEF Begin, TypeOK
  <2>3. \A u \in Threads : HeldBy(u)'
    BY <1>1, <1>a, <1>b, <1>s DEF Begin, TypeOK, HeldBy, Existing, Known
  <2>4. QED  BY <2>1, <2>2, <2>3 DEF StoredInv
<1>2. CASE HGet(t)
  <2>1. FoundWasStored'
    BY <1>2, <1>a, <1>b, <1>v DEF HGet, TypeOK, ThreadOK, FoundWasStored, HeldBy, Storing
  <2>2. \A d \in Domains : table'[d] \in past'[d]  BY <1>2, <1>a, <1>b DEF HGet, TypeOK
  <2>3. \A u \in Threads : HeldBy(u)'
    BY <1>2, <1>a, <1>b, <1>s DEF HGet, TypeOK, HeldBy, Existing, Known
  <2>4. QED  BY <2>1, <2>2, <2>3 DEF StoredInv
<1>3. CASE Select(t)
  <2>1. FoundWasStored'
    BY <1>3, <1>a, <1>b, <1>v DEF Select, TypeOK, ThreadOK, FoundWasStored, HeldBy, Storing
  <2>2. \A d \in Domains : table'[d] \in past'[d]  BY <1>3, <1>a, <1>b DEF Select, TypeOK
  <2>3. \A u \in Threads : HeldBy(u)'
    BY <1>3, <1>a, <1>b, <1>s DEF Select, TypeOK, HeldBy, Existing, Known
  <2>4. QED  BY <2>1, <2>2, <2>3 DEF StoredInv
<1>4. CASE HPut(t)
  <2>1. FoundWasStored'
    BY <1>4, <1>a, <1>b, <1>v DEF HPut, TypeOK, ThreadOK, FoundWasStored, HeldBy, Storing
  <2>2. \A d \in Domains : table'[d] \in past'[d]  BY <1>4, <1>a, <1>b DEF HPut, TypeOK
  <2>3. \A u \in Threads : HeldBy(u)'
    BY <1>4, <1>a, <1>b, <1>s DEF HPut, TypeOK, HeldBy, Existing, Known
  <2>4. QED  BY <2>1, <2>2, <2>3 DEF StoredInv
<1>5. CASE Expire(t)
  <2>1. FoundWasStored'
    BY <1>5, <1>a, <1>b, <1>v DEF Expire, TypeOK, ThreadOK, FoundWasStored, HeldBy, Storing
  <2>2. \A d \in Domains : table'[d] \in past'[d]  BY <1>5, <1>a, <1>b DEF Expire, TypeOK
  <2>3. \A u \in Threads : HeldBy(u)'
    BY <1>5, <1>a, <1>b, <1>s DEF Expire, TypeOK, HeldBy, Existing, Known
  <2>4. QED  BY <2>1, <2>2, <2>3 DEF StoredInv
<1>6. CASE Reject(t)
  <2>1. FoundWasStored'
    BY <1>6, <1>a, <1>b, <1>v DEF Reject, TypeOK, ThreadOK, FoundWasStored, HeldBy, Storing
  <2>2. \A d \in Domains : table'[d] \in past'[d]  BY <1>6, <1>a, <1>b DEF Reject, TypeOK
  <2>3. \A u \in Threads : HeldBy(u)'
    BY <1>6, <1>a, <1>b, <1>s DEF Reject, TypeOK, HeldBy, Existing, Known
  <2>4. QED  BY <2>1, <2>2, <2>3 DEF StoredInv
<1>7. CASE Accept(t)
  <2>1. FoundWasStored'
    BY <1>7, <1>a, <1>b, <1>v DEF Accept, TypeOK, ThreadOK, FoundWasStored, HeldBy, Storing
  <2>2. \A d \in Domains : table'[d] \in past'[d]  BY <1>7, <1>a, <1>b DEF Accept, TypeOK
  <2>3. \A u \in Threads : HeldBy(u)'
    BY <1>7, <1>a, <1>b, <1>s DEF Accept, TypeOK, HeldBy, Existing, Known
  <2>4. QED  BY <2>1, <2>2, <2>3 DEF StoredInv
<1>8. CASE Serve(t)
  <2>1. FoundWasStored'
    BY <1>8, <1>a, <1>b, <1>v DEF Serve, TypeOK, ThreadOK, FoundWasStored, HeldBy, Storing
  <2>2. \A d \in Domains : table'[d] \in past'[d]  BY <1>8, <1>a, <1>b DEF Serve, TypeOK
  <2>3. \A u \in Threads : HeldBy(u)'
    BY <1>8, <1>a, <1>b, <1>s DEF Serve, TypeOK, HeldBy, Existing, Known
  <2>4. QED  BY <2>1, <2>2, <2>3 DEF StoredInv
<1>9. CASE Check(t)
  <2>1. FoundWasStored'
    BY <1>9, <1>a, <1>b, <1>v DEF Check, TypeOK, ThreadOK, FoundWasStored, HeldBy, Storing
  <2>2. \A d \in Domains : table'[d] \in past'[d]  BY <1>9, <1>a, <1>b DEF Check, TypeOK
  <2>3. \A u \in Threads : HeldBy(u)'
    BY <1>9, <1>a, <1>b, <1>s DEF Check, TypeOK, HeldBy, Existing, Known
  <2>4. QED  BY <2>1, <2>2, <2>3 DEF StoredInv
<1>10. CASE Ask(t)
  <2>1. FoundWasStored'
    BY <1>10, <1>a, <1>b, <1>v DEF Ask, TypeOK, ThreadOK, FoundWasStored, HeldBy, Storing
  <2>2. \A d \in Domains : table'[d] \in past'[d]  BY <1>10, <1>a, <1>b DEF Ask, TypeOK
  <2>3. \A u \in Threads : HeldBy(u)'
    BY <1>10, <1>a, <1>b, <1>s DEF Ask, TypeOK, HeldBy, Existing, Known
  <2>4. QED  BY <2>1, <2>2, <2>3 DEF StoredInv
<1>11. CASE Write(t)
  <2>1. FoundWasStored'
    BY <1>11, <1>a, <1>b, <1>v DEF Write, TypeOK, ThreadOK, FoundWasStored, HeldBy, Storing
  <2>2. \A d \in Domains : table'[d] \in past'[d]  BY <1>11, <1>a, <1>b DEF Write, TypeOK
  <2>3. \A u \in Threads : HeldBy(u)'
    BY <1>11, <1>a, <1>b, <1>s DEF Write, TypeOK, HeldBy, Existing, Known
  <2>4. QED  BY <2>1, <2>2, <2>3 DEF StoredInv
<1>12. CASE Update(t)
  <2>1. FoundWasStored'
    BY <1>12, <1>a, <1>b, <1>v DEF Update, TypeOK, ThreadOK, FoundWasStored, HeldBy, Storing
  <2>2. \A d \in Domains : table'[d] \in past'[d]  BY <1>12, <1>a, <1>b DEF Update, TypeOK
  <2>3. \A u \in Threads : HeldBy(u)'
    BY <1>12, <1>a, <1>b, <1>s DEF Update, TypeOK, HeldBy, Existing, Known
  <2>4. QED  BY <2>1, <2>2, <2>3 DEF StoredInv
<1>13. CASE Commit(t)
  <2>1. FoundWasStored'
    BY <1>13, <1>a, <1>b, <1>v DEF Commit, TypeOK, ThreadOK, FoundWasStored, HeldBy, Storing
  <2>2. \A d \in Domains : table'[d] \in past'[d]  BY <1>13, <1>a, <1>b DEF Commit, TypeOK
  <2>3. \A u \in Threads : HeldBy(u)'
    BY <1>13, <1>a, <1>b, <1>s DEF Commit, TypeOK, HeldBy, Existing, Known
  <2>4. QED  BY <2>1, <2>2, <2>3 DEF StoredInv
<1>14. QED
  BY <1>1, <1>2, <1>3, <1>4, <1>5, <1>6, <1>7, <1>8, <1>9, <1>10, <1>11, <1>12, <1>13 DEF Step, LookUp

(* The other steps do as well, and a request that breaks off is a fault. *)
LEMMA StoredStep == BaseInv /\ StoredInv /\ [Next]_vars => StoredInv'
<1> SUFFICES ASSUME BaseInv, StoredInv, [Next]_vars, faults' = 0 PROVE StoredInv'
  BY DEF StoredInv
<1> USE DEF local
<1>a. TypeOK /\ Existing  BY DEF BaseInv
<1>b. ASSUME NEW t \in Threads, BreakOff(t) PROVE FALSE
  BY <1>a, <1>b, ConstantsAssumption DEF BreakOff, TypeOK
<1>c. ASSUME faults = 0
      PROVE  /\ FoundWasStored
             /\ \A d \in Domains : table[d] \in past[d]
             /\ \A t \in Threads : HeldBy(t)
  BY <1>c DEF StoredInv
<1>1. ASSUME NEW t \in Threads, Begin(t) \/ Step(t) PROVE StoredInv'
  <2>1. faults = 0
    BY <1>1 DEF Begin, Step, LookUp, HGet, Select, HPut, Expire, Reject, Accept,
                Serve, Check, Ask, Write, Update, Commit
  <2>2. QED  BY <1>1, <2>1, StoredThread
<1>2. CASE TimeOut
  BY <1>2, <1>c DEF TimeOut, StoredInv, FoundWasStored, HeldBy
<1>3. ASSUME NEW d \in Domains, Edit(d) PROVE StoredInv'
  <2>1. faults = 0  BY <1>3 DEF Edit
  <2>2. \A e \in Domains : past[e] \subseteq past'[e] /\ table'[e] \in past'[e]
    BY <1>3, <1>a, <1>c, <2>1 DEF Edit, TypeOK
  <2>3. FoundWasStored'
    BY <1>3, <1>c, <2>1, <2>2 DEF Edit, FoundWasStored, Storing
  <2>4. \A t \in Threads : HeldBy(t)'
    BY <1>3, <1>a, <1>c, <2>1, <2>2 DEF Edit, HeldBy, TypeOK
  <2>5. QED  BY <2>2, <2>3, <2>4 DEF StoredInv
<1>4. CASE UNCHANGED vars
  BY <1>4, <1>c DEF vars, StoredInv, FoundWasStored, Storing, HeldBy
<1>5. QED  BY <1>1, <1>2, <1>3, <1>4, <1>b DEF Next

(* Without faults every row found in the hash was, or is about to be, the  *)
(* table's: no message is queued for a domain that was never enabled.      *)
THEOREM FoundWasStoredHolds == Spec => []FoundWasStored
<1>1. StoredInv => FoundWasStored  BY DEF StoredInv, FoundWasStored
<1>2. QED  BY <1>1, BaseInvariant, StoredInit, StoredStep, PTL DEF Spec

-----------------------------------------------------------------------------
(* An older row in the hash goes away. *)
LEMMA AgreeInit == Init => AgreeInv
BY DEF Init, AgreeInv, Alone, StaleExpires, Storing, Threads

(* Requests one after the other leave no older row without a time to live. *)
LEMMA AgreeThread ==
    ASSUME BaseInv, AgreeInv, faults = 0, edits = 0, ~overlapped',
           NEW t \in Threads, Begin(t) \/ Step(t)
    PROVE  AgreeInv'
<1> USE DEF Goto, End
<1>a. TypeOK /\ Existing  BY DEF BaseInv
<1>o. ~overlapped
  BY <1>a DEF Begin, Step, LookUp, HGet, Select, HPut, Expire, Reject, Accept,
       Serve, Check, Ask, Write, Update, Commit, TypeOK
<1>b. /\ Alone
      /\ \A d \in Domains :
            hash[d] \notin {NoRow, table[d]} =>
                GoesAway \/ \E u \in Threads : Storing(u, d)
      /\ \A v \in Verifiers, d \in Domains :
            Storing(v, d) => hash[d] \in {NoRow, config[v]} \/ GoesAway
  BY <1>o DEF AgreeInv, StaleExpires, GoesAway
<1>v. Verifiers \subseteq Threads  BY DEF Threads
<1>q. ASSUME Alone',
             \A d \in Domains :
                hash'[d] \notin {NoRow, table'[d]} =>
                    GoesAway' \/ \E u \in Threads : Storing(u, d)',
             \A v \in Verifiers, d \in Domains :
                Storing(v, d)' => hash'[d] \in {NoRow, config'[v]} \/ GoesAway'
      PROVE  AgreeInv'
  BY <1>q DEF AgreeInv, StaleExpires, GoesAway
<1>1. CASE Begin(t)
  <2>1. Alone'  BY <1>1, <1>a, <1>b, <1>v DEF Begin, TypeOK, Alone
  <2>2. \A d \in Domains :
            hash'[d] \notin {NoRow, table'[d]} =>
                GoesAway' \/ \E u \in Threads : Storing(u, d)'
    BY <1>1, <1>a, <1>b, <1>v DEF Begin, TypeOK, ThreadOK, Alone, GoesAway, Storing
  <2>3. \A v \in Verifiers, d \in Domains :
            Storing(v, d)' => hash'[d] \in {NoRow, config'[v]} \/ GoesAway'
    BY <1>1, <1>a, <1>b, <1>v DEF Begin, TypeOK, ThreadOK, Alone, GoesAway, Storing
  <2>4. QED  BY <1>q, <2>1, <2>2, <2>3
<1>2. CASE HGet(t)
  <2>1. Alone'  BY <1>2, <1>a, <1>b, <1>v DEF HGet, TypeOK, Alone
  <2>2. \A d \in Domains :
            hash'[d] \notin {NoRow, table'[d]} =>
                GoesAway' \/ \E u \in Threads : Storing(u, d)'
    BY <1>2, <1>a, <1>b, <1>v DEF HGet, TypeOK, ThreadOK, Alone, GoesAway, Storing
  <2>3. \A v \in Verifiers, d \in Domains :
            Storing(v, d)' => hash'[d] \in {NoRow, config'[v]} \/ GoesAway'
    BY <1>2, <1>a, <1>b, <1>v DEF HGet, TypeOK, ThreadOK, Alone, GoesAway, Storing
  <2>4. QED  BY <1>q, <2>1, <2>2, <2>3
<1>3. CASE Select(t)
  <2>1. Alone'  BY <1>3, <1>a, <1>b, <1>v DEF Select, TypeOK, Alone
  <2>2. \A d \in Domains :
            hash'[d] \notin {NoRow, table'[d]} =>
                GoesAway' \/ \E u \in Threads : Storing(u, d)'
    BY <1>3, <1>a, <1>b, <1>v DEF Select, TypeOK, ThreadOK, Alone, GoesAway, Storing
  <2>3. \A v \in Verifiers, d \in Domains :
            Storing(v, d)' => hash'[d] \in {NoRow, config'[v]} \/ GoesAway'
    BY <1>3, <1>a, <1>b, <1>v DEF Select, TypeOK, ThreadOK, Alone, GoesAway, Storing
  <2>4. QED  BY <1>q, <2>1, <2>2, <2>3
<1>4. CASE HPut(t)
  <2>1. Alone'  BY <1>4, <1>a, <1>b, <1>v DEF HPut, TypeOK, Alone
  <2>2. \A d \in Domains :
            hash'[d] \notin {NoRow, table'[d]} =>
                GoesAway' \/ \E u \in Threads : Storing(u, d)'
    BY <1>4, <1>a, <1>b, <1>v DEF HPut, TypeOK, ThreadOK, Alone, GoesAway, Storing
  <2>3. \A v \in Verifiers, d \in Domains :
            Storing(v, d)' => hash'[d] \in {NoRow, config'[v]} \/ GoesAway'
    BY <1>4, <1>a, <1>b, <1>v DEF HPut, TypeOK, ThreadOK, Alone, GoesAway, Storing
  <2>4. QED  BY <1>q, <2>1, <2>2, <2>3
<1>5. CASE Expire(t)
  <2>1. Alone'  BY <1>5, <1>a, <1>b, <1>v DEF Expire, TypeOK, Alone
  <2>2. \A d \in Domains :
            hash'[d] \notin {NoRow, table'[d]} =>
                GoesAway' \/ \E u \in Threads : Storing(u, d)'
    BY <1>5, <1>a, <1>b, <1>v DEF Expire, TypeOK, ThreadOK, Alone, GoesAway, Storing
  <2>3. \A v \in Verifiers, d \in Domains :
            Storing(v, d)' => hash'[d] \in {NoRow, config'[v]} \/ GoesAway'
    BY <1>5, <1>a, <1>b, <1>v DEF Expire, TypeOK, ThreadOK, Alone, GoesAway, Storing
  <2>4. QED  BY <1>q, <2>1, <2>2, <2>3
<1>6. CASE Reject(t)
  <2>1. Alone'  BY <1>6, <1>a, <1>b, <1>v DEF Reject, TypeOK, Alone
  <2>2. \A d \in Domains :
            hash'[d] \notin {NoRow, table'[d]} =>
                GoesAway' \/ \E u \in Threads : Storing(u, d)'
    BY <1>6, <1>a, <1>b, <1>v DEF Reject, TypeOK, ThreadOK, Alone, GoesAway, Storing
  <2>3. \A v \in Verifiers, d \in Domains :
            Storing(v, d)' => hash'[d] \in {NoRow, config'[v]} \/ GoesAway'
    BY <1>6, <1>a, <1>b, <1>v DEF Reject, TypeOK, ThreadOK, Alone, GoesAway, Storing
  <2>4. QED  BY <1>q, <2>1, <2>2, <2>3
<1>7. CASE Accept(t)
  <2>1. Alone'  BY <1>7, <1>a, <1>b, <1>v DEF Accept, TypeOK, Alone
  <2>2. \A d \in Domains :
            hash'[d] \notin {NoRow, table'[d]} =>
                GoesAway' \/ \E u \in Threads : Storing(u, d)'
    BY <1>7, <1>a, <1>b, <1>v DEF Accept, TypeOK, ThreadOK, Alone, GoesAway, Storing
  <2>3. \A v \in Verifiers, d \in Domains :
            Storing(v, d)' => hash'[d] \in {NoRow, config'[v]} \/ GoesAway'
    BY <1>7, <1>a, <1>b, <1>v DEF Accept, TypeOK, ThreadOK, Alone, GoesAway, Storing
  <2>4. QED  BY <1>q, <2>1, <2>2, <2>3
<1>8. CASE Serve(t)
  <2>1. Alone'  BY <1>8, <1>a, <1>b, <1>v DEF Serve, TypeOK, Alone
  <2>2. \A d \in Domains :
            hash'[d] \notin {NoRow, table'[d]} =>
                GoesAway' \/ \E u \in Threads : Storing(u, d)'
    BY <1>8, <1>a, <1>b, <1>v DEF Serve, TypeOK, ThreadOK, Alone, GoesAway, Storing
  <2>3. \A v \in Verifiers, d \in Domains :
            Storing(v, d)' => hash'[d] \in {NoRow, config'[v]} \/ GoesAway'
    BY <1>8, <1>a, <1>b, <1>v DEF Serve, TypeOK, ThreadOK, Alone, GoesAway, Storing
  <2>4. QED  BY <1>q, <2>1, <2>2, <2>3
<1>9. CASE Check(t)
  <2>1. Alone'  BY <1>9, <1>a, <1>b, <1>v DEF Check, TypeOK, Alone
  <2>2. \A d \in Domains :
            hash'[d] \notin {NoRow, table'[d]} =>
                GoesAway' \/ \E u \in Threads : Storing(u, d)'
    BY <1>9, <1>a, <1>b, <1>v DEF Check, TypeOK, ThreadOK, Alone, GoesAway, Storing
  <2>3. \A v \in Verifiers, d \in Domains :
            Storing(v, d)' => hash'[d] \in {NoRow, config'[v]} \/ GoesAway'
    BY <1>9, <1>a, <1>b, <1>v DEF Check, TypeOK, ThreadOK, Alone, GoesAway, Storing
  <2>4. QED  BY <1>q, <2>1, <2>2, <2>3
<1>10. CASE Ask(t)
  <2>1. Alone'  BY <1>10, <1>a, <1>b, <1>v DEF Ask, TypeOK, Alone
  <2>2. \A d \in Domains :
            hash'[d] \notin {NoRow, table'[d]} =>
                GoesAway' \/ \E u \in Threads : Storing(u, d)'
    BY <1>10, <1>a, <1>b, <1>v DEF Ask, TypeOK, ThreadOK, Alone, GoesAway, Storing
  <2>3. \A v \in Verifiers, d \in Domains :
            Storing(v, d)' => hash'[d] \in {NoRow, config'[v]} \/ GoesAway'
    BY <1>10, <1>a, <1>b, <1>v DEF Ask, TypeOK, ThreadOK, Alone, GoesAway, Storing
  <2>4. QED  BY <1>q, <2>1, <2>2, <2>3
<1>11. CASE Write(t)
  <2>1. Alone'  BY <1>11, <1>a, <1>b, <1>v DEF Write, TypeOK, Alone
  <2>2. \A d \in Domains :
            hash'[d] \notin {NoRow, table'[d]} =>
                GoesAway' \/ \E u \in Threads : Storing(u, d)'
    BY <1>11, <1>a, <1>b, <1>v DEF Write, TypeOK, ThreadOK, Alone, GoesAway, Storing
  <2>3. \A v \in Verifiers, d \in Domains :
            Storing(v, d)' => hash'[d] \in {NoRow, config'[v]} \/ GoesAway'
    BY <1>11, <1>a, <1>b, <1>v DEF Write, TypeOK, ThreadOK, Alone, GoesAway, Storing
  <2>4. QED  BY <1>q, <2>1, <2>2, <2>3
<1>12. CASE Update(t)
  <2>1. Alone'  BY <1>12, <1>a, <1>b, <1>v DEF Update, TypeOK, Alone
  <2>2. \A d \in Domains :
            hash'[d] \notin {NoRow, table'[d]} =>
                GoesAway' \/ \E u \in Threads : Storing(u, d)'
    BY <1>12, <1>a, <1>b, <1>v DEF Update, TypeOK, ThreadOK, Alone, GoesAway, Storing
  <2>3. \A v \in Verifiers, d \in Domains :
            Storing(v, d)' => hash'[d] \in {NoRow, config'[v]} \/ GoesAway'
    BY <1>12, <1>a, <1>b, <1>v DEF Update, TypeOK, ThreadOK, Alone, GoesAway, Storing
  <2>4. QED  BY <1>q, <2>1, <2>2, <2>3
<1>13. CASE Commit(t)
  <2>1. Alone'  BY <1>13, <1>a, <1>b, <1>v DEF Commit, TypeOK, Alone
  <2>2. \A d \in Domains :
            hash'[d] \notin {NoRow, table'[d]} =>
                GoesAway' \/ \E u \in Threads : Storing(u, d)'
    BY <1>13, <1>a, <1>b, <1>v DEF Commit, TypeOK, ThreadOK, Alone, GoesAway, Storing
  <2>3. \A v \in Verifiers, d \in Domains :
            Storing(v, d)' => hash'[d] \in {NoRow, config'[v]} \/ GoesAway'
    BY <1>13, <1>a, <1>b, <1>v DEF Commit, TypeOK, ThreadOK, Alone, GoesAway, Storing
  <2>4. QED  BY <1>q, <2>1, <2>2, <2>3
<1>14. QED
  BY <1>1, <1>2, <1>3, <1>4, <1>5, <1>6, <1>7, <1>8, <1>9, <1>10, <1>11, <1>12, <1>13 DEF Step, LookUp

(* The other steps keep this too, unless they are the exceptions. *)
LEMMA AgreeStep == BaseInv /\ AgreeInv /\ [Next]_vars => AgreeInv'
<1> SUFFICES ASSUME BaseInv, AgreeInv, [Next]_vars,
                    faults' = 0, edits' = 0, ~overlapped'
             PROVE  AgreeInv'
  BY DEF AgreeInv
<1> USE DEF local
<1>a. TypeOK  BY DEF BaseInv
<1>1. ASSUME NEW t \in Threads, Begin(t) \/ Step(t) PROVE AgreeInv'
  <2>1. faults = 0 /\ edits = 0
    BY <1>1 DEF Begin, Step, LookUp, HGet, Select, HPut, Expire, Reject, Accept,
                Serve, Check, Ask, Write, Update, Commit
  <2>2. QED  BY <1>1, <2>1, AgreeThread
<1>2. ASSUME NEW t \in Threads, BreakOff(t) PROVE FALSE
  BY <1>2, <1>a, ConstantsAssumption DEF BreakOff, TypeOK
<1>3. ASSUME NEW d \in Domains, Edit(d) PROVE FALSE
  BY <1>3, <1>a, ConstantsAssumption DEF Edit, TypeOK
<1>4. CASE TimeOut
  <2>1. Alone'  BY <1>4 DEF TimeOut, AgreeInv, Alone
  <2>2. \A d \in Domains : hash'[d] = NoRow  BY <1>4 DEF TimeOut
  <2>3. QED  BY <2>1, <2>2 DEF AgreeInv, StaleExpires
<1>5. CASE UNCHANGED vars
  BY <1>5 DEF vars, AgreeInv, Alone, StaleExpires, GoesAway, Storing
<1>6. QED  BY <1>1, <1>2, <1>3, <1>4, <1>5 DEF Next

(* A row in the hash that is not the table's goes away by itself, however  *)
(* many requests race, as long as none breaks off, verifications of one    *)
(* domain do not overlap and nobody else changes the table.                *)
THEOREM StaleExpiresHolds == Spec => []StaleExpires
<1>1. AgreeInv => StaleExpires  BY DEF AgreeInv, StaleExpires
<1>2. QED  BY <1>1, BaseInvariant, AgreeInit, AgreeStep, PTL DEF Spec
===============================================================================
