-------------------------- MODULE ParkBindingProofs --------------------------
(***************************************************************************)
(* Theorems about ParkBinding for every set of calls, domains and parks,   *)
(* lists of every length, both isolation levels and every number of faults. *)
(***************************************************************************)
EXTENDS ParkBinding, FiniteSetTheorems, WellFoundedInduction, TLAPS

Bound(c) == pc[c] = "bound"
Writing(c) == pc[c] \in {"delete", "insert"}

(* The rows a call has read as its domain's own. *)
Picked(c) == {binds[c][i] : i \in DOMAIN binds[c]}

(* A call starts at the first entry; the counter of the deletes keeps within *)
(* the rows read, which are held only while the call writes.               *)
Places ==
    \A c \in Calls :
        /\ pc[c] = "new" => at[c] = 1
        /\ gone[c] \in 0..Len(binds[c])
        /\ pc[c] = "insert" => gone[c] = Len(binds[c])
        /\ ~Writing(c) => binds[c] = <<>> /\ gone[c] = 0

BaseInv == TypeOK /\ Places

-----------------------------------------------------------------------------
(* Lists, entries and rows *)

(* The positions of a list. *)
LEMMA ListDomain ==
    ASSUME NEW l \in Lists
    PROVE  /\ l \in Seq(Parks \cup {Blank})
           /\ DOMAIN l = 1..Len(l)
           /\ Len(l) \in 0..MaxLength
<1>1. PICK n \in 0..MaxLength : l \in [1..n -> Parks \cup {Blank}]
  BY DEF Lists
<1>2. n \in Nat /\ l \in Seq(Parks \cup {Blank})  BY <1>1, ConstantsAssumption
<1>3. Len(l) = n  BY <1>1, <1>2
<1>4. QED  BY <1>1, <1>2, <1>3

(* An entry is a row, of its own call and not blank. *)
LEMMA EntryFacts ==
    ASSUME TypeOK, NEW c \in Calls, NEW r \in Entries(c)
    PROVE  /\ r \in Rows /\ r[1] = c
           /\ r[2] \in DOMAIN parkArr[c]
           /\ parkArr[c][r[2]] # Blank
<1>1. PICK i \in DOMAIN parkArr[c] : r = <<c, i>> /\ parkArr[c][i] # Blank
  BY DEF Entries
<1>2. i \in 1..MaxLength
  BY ListDomain, ConstantsAssumption DEF TypeOK
<1>3. QED  BY <1>1, <1>2 DEF Rows

(* A row has a call. *)
LEMMA RowFacts == ASSUME NEW r \in Rows PROVE r[1] \in Calls /\ r[2] \in 1..MaxLength
BY DEF Rows

(* There are finitely many rows. *)
LEMMA RowsFinite == ASSUME NEW S \in SUBSET Rows PROVE IsFiniteSet(S) /\ Cardinality(S) \in Nat
<1>1. IsFiniteSet(1..MaxLength)  BY FS_Interval, ConstantsAssumption
<1>2. IsFiniteSet(Rows)  BY <1>1, FS_Product, ConstantsAssumption DEF Rows
<1>3. IsFiniteSet(S)  BY <1>2, FS_Subset
<1>4. QED  BY <1>3, FS_CardinalityType

(* An order of a set is a sequence of its members that leaves none out. *)
LEMMA OrderFacts ==
    ASSUME NEW S \in SUBSET Rows, NEW s \in Orders(S)
    PROVE  /\ s \in Seq(Rows)
           /\ {s[i] : i \in DOMAIN s} = S
<1>1. Cardinality(S) \in Nat  BY RowsFinite
<1>2. s \in [1..Cardinality(S) -> S] /\ \A r \in S : \E i \in DOMAIN s : s[i] = r
  BY DEF Orders
<1>3. s \in Seq(Rows)  BY <1>1, <1>2
<1>4. QED  BY <1>2, <1>3

(* What a call reads is a set of rows. *)
LEMMA SeenRows == ASSUME TypeOK, NEW c \in Calls PROVE Seen(c) \in SUBSET Rows
BY DEF TypeOK, Seen

(* The end of the two ways in which a call is given up. *)
LEMMA GivenUp ==
    ASSUME NEW c \in Calls, TypeOK, BreakOff(c) \/ Victim(c)
    PROVE  Open(c) /\ Rollback(c) /\ faults' \in 0..MaxFaults
<1>1. CASE BreakOff(c)
  BY <1>1, ConstantsAssumption DEF BreakOff, TypeOK
<1>2. CASE Victim(c)
  BY <1>2 DEF Victim, WaitsFor, Open, OpenPCs, TypeOK
<1>3. QED  BY <1>1, <1>2

-----------------------------------------------------------------------------
(* Typing and the places of the calls *)

(* Every call begins at the first entry of its list. *)
LEMMA BaseInit == Init => BaseInv
<1> SUFFICES ASSUME Init PROVE BaseInv
  OBVIOUS
<1>1. TypeOK
  BY ConstantsAssumption DEF Init, TypeOK
<1>2. Places
  BY DEF Init, Places, Writing
<1>3. QED  BY <1>1, <1>2 DEF BaseInv

(* A step of one call that leaves the others where they are. *)
LEMMA BaseStep == BaseInv /\ [Next]_vars => BaseInv'
<1> SUFFICES ASSUME BaseInv, [Next]_vars PROVE BaseInv'
  OBVIOUS
<1>0. TypeOK /\ Places  BY DEF BaseInv
<1>1. ASSUME NEW c \in Calls, Begin(c) PROVE BaseInv'
  <2>1. overlaps' \in SUBSET SUBSET Calls
    <3>1. {{c, o} : o \in {x \in Calls : Open(x)}} \in SUBSET SUBSET Calls
      OBVIOUS
    <3>2. QED  BY <1>0, <1>1, <3>1 DEF TypeOK, Begin
  <2>2. TypeOK'
    BY <1>0, <1>1, <2>1 DEF TypeOK, Begin, Goto, OpenPCs
  <2>3. Places'
    BY <1>0, <1>1 DEF TypeOK, Places, Begin, Goto, Writing
  <2>4. QED  BY <2>2, <2>3 DEF BaseInv
<1>2. ASSUME NEW c \in Calls, Invalid(c) PROVE BaseInv'
  <2>1. TypeOK'
    BY <1>0, <1>2 DEF TypeOK, Invalid, Goto
  <2>2. Places'
    BY <1>0, <1>2 DEF TypeOK, Places, Invalid, Goto, Writing
  <2>3. QED  BY <2>1, <2>2 DEF BaseInv
<1>3. ASSUME NEW c \in Calls, CheckEntry(c) PROVE BaseInv'
  <2>1. at[c] + 1 \in 1..(MaxLength + 1)
    BY <1>0, <1>3, ListDomain, ConstantsAssumption DEF TypeOK, CheckEntry
  <2>2. TypeOK'
    BY <1>0, <1>3, <2>1 DEF TypeOK, CheckEntry, Goto
  <2>3. Places'
    BY <1>0, <1>3 DEF TypeOK, Places, CheckEntry, Goto, Writing
  <2>4. QED  BY <2>2, <2>3 DEF BaseInv
<1>4. ASSUME NEW c \in Calls, SelectOwn(c) PROVE BaseInv'
  <2>1. PICK s \in Orders(OwnRows(c)) : binds' = [binds EXCEPT ![c] = s]
    BY <1>4 DEF SelectOwn
  <2>2. s \in Seq(Rows)
    BY <1>0, <2>1, SeenRows, OrderFacts DEF OwnRows
  <2>3. TypeOK'
    BY <1>0, <1>4, <2>1, <2>2 DEF TypeOK, SelectOwn, Goto, OpenPCs
  <2>4. Places'
    BY <1>0, <1>4, <2>1, <2>2 DEF TypeOK, Places, SelectOwn, Goto, Writing
  <2>5. QED  BY <2>3, <2>4 DEF BaseInv
<1>5. ASSUME NEW c \in Calls, Delete(c) PROVE BaseInv'
  <2>1. TypeOK'
    BY <1>0, <1>5 DEF TypeOK, Delete
  <2>2. Places'
    BY <1>0, <1>5 DEF TypeOK, Places, Delete, Writing
  <2>3. QED  BY <2>1, <2>2 DEF BaseInv
<1>6. ASSUME NEW c \in Calls, DeletesDone(c) PROVE BaseInv'
  <2>1. TypeOK'
    BY <1>0, <1>6, ConstantsAssumption DEF TypeOK, DeletesDone, Goto, OpenPCs
  <2>2. Places'
    BY <1>0, <1>6 DEF TypeOK, Places, DeletesDone, Goto, Writing
  <2>3. QED  BY <2>1, <2>2 DEF BaseInv
<1>7. ASSUME NEW c \in Calls, Insert(c) PROVE BaseInv'
  <2>1. at[c] + 1 \in 1..(MaxLength + 1)
    BY <1>0, <1>7, ListDomain, ConstantsAssumption DEF TypeOK, Insert
  <2>2. TypeOK'
    BY <1>0, <1>7, <2>1 DEF TypeOK, Insert
  <2>3. Places'
    BY <1>0, <1>7 DEF TypeOK, Places, Insert, Writing
  <2>4. QED  BY <2>2, <2>3 DEF BaseInv
<1>8. ASSUME NEW c \in Calls, Commit(c) PROVE BaseInv'
  <2>1. Inserted(c) \subseteq Rows
    BY <1>0, EntryFacts DEF Inserted
  <2>2. TypeOK'
    BY <1>0, <1>8, <2>1 DEF TypeOK, Commit, Release, Goto
  <2>3. Places'
    BY <1>0, <1>8 DEF TypeOK, Places, Commit, Release, Goto, Writing
  <2>4. QED  BY <2>2, <2>3 DEF BaseInv
<1>9. ASSUME NEW c \in Calls, BreakOff(c) \/ Victim(c) PROVE BaseInv'
  <2>1. Rollback(c) /\ faults' \in 0..MaxFaults  BY <1>0, <1>9, GivenUp
  <2>2. TypeOK'
    BY <1>0, <2>1 DEF TypeOK, Rollback, Release, Goto
  <2>3. Places'
    BY <1>0, <2>1 DEF TypeOK, Places, Rollback, Release, Goto, Writing
  <2>4. QED  BY <2>2, <2>3 DEF BaseInv
<1>10. CASE Finished \/ UNCHANGED vars
  BY <1>0, <1>10 DEF Finished, vars, call, BaseInv, TypeOK, Places, Writing
<1>11. QED
  BY <1>1, <1>2, <1>3, <1>4, <1>5, <1>6, <1>7, <1>8, <1>9, <1>10 DEF Next, Step

(* The variables keep their types and the counters their bounds. *)
THEOREM Typing == Spec => []TypeOK
<1>1. BaseInv => TypeOK  BY DEF BaseInv
<1>2. QED  BY BaseInit, BaseStep, <1>1, PTL DEF Spec

-----------------------------------------------------------------------------
(* The kinds of steps *)

Checked(c) == {i \in DOMAIN parkArr[c] : pc[c] = "check" => i < at[c]}

(* A step that reads and writes nothing of the table: it moves a call on   *)
(* or ends it without a trace.                                             *)
Quiet ==
    /\ UNCHANGED <<rows, latest, overlaps, domain, parkArr>>
    /\ \A x \in Calls :
          /\ Bound(x)' = Bound(x)
          /\ Open(x)' => Open(x) /\ Checked(x)' \subseteq Checked(x)
          /\ Writing(x)' => Writing(x) /\ binds'[x] = binds[x]
          /\ binds'[x] \in {binds[x], <<>>}
          /\ view'[x] \in {view[x], {}}
          /\ Open(x)' => view'[x] = view[x]

(* Lists and domains are those of the start, and overlaps are not forgotten. *)
LEMMA Frame ==
    ASSUME BaseInv, [Next]_vars
    PROVE  UNCHANGED <<domain, parkArr>> /\ overlaps \subseteq overlaps'
BY GivenUp DEF BaseInv, Next, Step, vars, call, Begin, Invalid, CheckEntry, SelectOwn,
    Delete, DeletesDone, Insert, Commit, Rollback, Release, Finished

(* Every step is a quiet one or one of four actions. *)
LEMMA StepKinds ==
    ASSUME BaseInv, [Next]_vars
    PROVE  Quiet \/ \E c \in Calls : Begin(c) \/ CheckEntry(c) \/ SelectOwn(c) \/ Commit(c)
<1>0. TypeOK /\ Places  BY DEF BaseInv
<1>1. ASSUME NEW c \in Calls, Invalid(c) PROVE Quiet
  BY <1>0, <1>1 DEF Quiet, Invalid, Goto, TypeOK, Bound, Open, OpenPCs, Writing, Checked
<1>2. ASSUME NEW c \in Calls, Delete(c) PROVE Quiet
  BY <1>0, <1>2 DEF Quiet, Delete, TypeOK, Bound, Open, OpenPCs, Writing, Checked
<1>3. ASSUME NEW c \in Calls, DeletesDone(c) PROVE Quiet
  BY <1>0, <1>3 DEF Quiet, DeletesDone, Goto, TypeOK, Bound, Open, OpenPCs, Writing, Checked
<1>4. ASSUME NEW c \in Calls, Insert(c) PROVE Quiet
  BY <1>0, <1>4 DEF Quiet, Insert, TypeOK, Bound, Open, OpenPCs, Writing, Checked
<1>5. ASSUME NEW c \in Calls, BreakOff(c) \/ Victim(c) PROVE Quiet
  <2>1. Open(c) /\ Rollback(c)  BY <1>0, <1>5, GivenUp
  <2>2. QED
    BY <1>0, <2>1 DEF Quiet, Rollback, Release, Goto, TypeOK, Bound, Open, OpenPCs,
        Writing, Checked
<1>6. CASE Finished \/ UNCHANGED vars
  BY <1>6 DEF Quiet, Finished, vars, call, Bound, Open, Writing, Checked
<1>7. QED  BY <1>1, <1>2, <1>3, <1>4, <1>5, <1>6 DEF Next, Step

(* What a call leaves in the table: its domain's rows that it has read are  *)
(* replaced by all its entries.                                            *)
LEMMA CommitRows ==
    ASSUME BaseInv, NEW c \in Calls, Commit(c)
    PROVE  rows' = (rows \ Picked(c)) \cup Entries(c)
<1>0. TypeOK /\ Places  BY DEF BaseInv
<1>1. Erased(c) = Picked(c)
  <2>1. binds[c] \in Seq(Rows) /\ gone[c] = Len(binds[c])
    BY <1>0 DEF TypeOK, Places, Commit
  <2>2. DOMAIN binds[c] = 1..gone[c]  BY <2>1
  <2>3. QED  BY <2>2 DEF Erased, Picked
<1>2. Inserted(c) = Entries(c)
  <2>1. ASSUME NEW r \in Entries(c) PROVE r[2] < at[c]
    <3>1. r[2] \in 1..Len(parkArr[c]) /\ at[c] \notin 1..Len(parkArr[c])
      BY <1>0, EntryFacts, ListDomain DEF Commit, TypeOK
    <3>2. Len(parkArr[c]) \in Nat /\ at[c] \in Nat \ {0}
      BY <1>0, ListDomain, ConstantsAssumption DEF TypeOK
    <3>3. QED  BY <3>1, <3>2
  <2>2. QED  BY <2>1 DEF Inserted
<1>3. QED  BY <1>1, <1>2 DEF Commit

-----------------------------------------------------------------------------
(* The invariant *)

(* A row is an entry of a call that was told "park bind success". *)
OfBound(S) == \A r \in S : r \in Entries(r[1]) /\ Bound(r[1])
Whole(S) == \A c \in Calls : Entries(c) \subseteq S \/ Entries(c) \cap S = {}

(* What a call has read or wants to delete are whole lists of such calls. *)
Lawful ==
    /\ OfBound(rows) /\ Whole(rows)
    /\ \A c \in Calls : /\ OfBound(view[c]) /\ Whole(view[c])
                        /\ OfBound(Picked(c)) /\ Whole(Picked(c))
                        /\ \A r \in Picked(c) : DomainOf(r) = domain[c]

(* Two calls that are open have been seen to overlap, and a row that an     *)
(* open call has not seen comes from a call that it overlaps.              *)
OpenPairs == \A c, o \in Calls : Open(c) /\ Open(o) /\ c # o => Overlap(c, o)
ViewCurrent ==
    \A c \in Calls : Open(c) => \A r \in rows : r \in view[c] \/ Overlap(c, r[1])

(* A park of another domain on the checked part of the list of an open call *)
(* was bound by a call that it overlaps.                                   *)
Ahead ==
    \A c \in Calls : Open(c) =>
        \A r \in rows : \A i \in Checked(c) :
            parkArr[c][i] = ParkOf(r) /\ DomainOf(r) # domain[c] => Overlap(c, r[1])

(* A row of its domain that a writing call will not delete likewise. *)
Behind ==
    \A c \in Calls : Writing(c) =>
        \A r \in rows : DomainOf(r) = domain[c] => r \in Picked(c) \/ Overlap(c, r[1])

(* The rows of a domain come from one call or from calls that overlapped. *)
OneListUnlessOverlap ==
    \A r, s \in rows : DomainOf(r) = DomainOf(s) /\ r[1] # s[1] => Overlap(r[1], s[1])

LatestBound ==
    \A d \in Domains : latest[d] # NoCall => Bound(latest[d]) /\ domain[latest[d]] = d

Order == OpenPairs /\ ViewCurrent /\ Ahead /\ Behind
Table == ExclusiveUnlessOverlap /\ OneListUnlessOverlap /\ LatestBound /\ LastListBound

SafeInv == BaseInv /\ Lawful /\ Order /\ Table

(* Of two calls that overlap each overlaps the other. *)
LEMMA OverlapSymmetric ==
    ASSUME NEW c, NEW o, Overlap(c, o) PROVE Overlap(o, c)
<1>1. {c, o} = {o, c}  OBVIOUS
<1>2. QED  BY <1>1 DEF Overlap

(* Nothing is bound, seen or open before the first call. *)
LEMMA SafeInit == Init => SafeInv
<1> SUFFICES ASSUME Init PROVE SafeInv
  OBVIOUS
<1>1. BaseInv  BY BaseInit
<1>2. \A c \in Calls : Picked(c) = {} /\ ~Open(c) /\ ~Writing(c)
  BY DEF Init, Picked, Open, OpenPCs, Writing
<1>3. Lawful  BY <1>2 DEF Init, Lawful, OfBound, Whole
<1>4. Order  BY <1>2 DEF Order, OpenPairs, ViewCurrent, Ahead, Behind
<1>5. Table
  BY DEF Init, Table, ExclusiveUnlessOverlap, OneListUnlessOverlap, LatestBound, LastListBound
<1>6. QED  BY <1>1, <1>3, <1>4, <1>5 DEF SafeInv

(* Entries, parks and domains of rows do not change. *)
LEMMA FrameRows ==
    ASSUME BaseInv, [Next]_vars
    PROVE  /\ \A c : Entries(c)' = Entries(c)
           /\ \A r : ParkOf(r)' = ParkOf(r) /\ DomainOf(r)' = DomainOf(r)
           /\ \A c, o : Overlap(c, o) => Overlap(c, o)'
BY Frame DEF Entries, ParkOf, DomainOf, Overlap

(* A call that was told its success stays so, and is not open. *)
LEMMA BoundStays ==
    ASSUME BaseInv, [Next]_vars, NEW c \in Calls, Bound(c)
    PROVE  Bound(c)' /\ ~Open(c) /\ ~Writing(c)
<1>0. TypeOK /\ Places  BY DEF BaseInv
<1>1. ~Open(c) /\ ~Writing(c)  BY DEF Bound, Open, OpenPCs, Writing
<1>2. CASE Quiet  BY <1>1, <1>2 DEF Quiet
<1>3. ASSUME NEW o \in Calls, Begin(o) \/ CheckEntry(o) \/ SelectOwn(o) \/ Commit(o)
      PROVE  Bound(c)'
  BY <1>0, <1>3 DEF Begin, CheckEntry, SelectOwn, Commit, Goto, Bound, TypeOK
<1>4. QED  BY <1>1, <1>2, <1>3, StepKinds

(* Wholeness goes through a replacement of whole lists by a whole list. *)
LEMMA WholeReplace ==
    ASSUME TypeOK, NEW S, NEW P, Whole(S), Whole(P), NEW c \in Calls
    PROVE  Whole((S \ P) \cup Entries(c))
<1> SUFFICES ASSUME NEW o \in Calls
             PROVE  \/ Entries(o) \subseteq (S \ P) \cup Entries(c)
                    \/ Entries(o) \cap ((S \ P) \cup Entries(c)) = {}
  BY DEF Whole
<1>1. CASE o = c  BY <1>1
<1>2. CASE o # c
  <2>1. Entries(o) \cap Entries(c) = {}  BY <1>2, EntryFacts
  <2>2. QED  BY <2>1 DEF Whole
<1>3. QED  BY <1>1, <1>2

(* The lists of a domain are a whole part of a whole set of rows. *)
LEMMA WholeOwn ==
    ASSUME TypeOK, NEW S, Whole(S), NEW d
    PROVE  Whole({r \in S : DomainOf(r) = d})
<1> DEFINE T == {r \in S : DomainOf(r) = d}
<1> SUFFICES ASSUME NEW o \in Calls
             PROVE  Entries(o) \subseteq T \/ Entries(o) \cap T = {}
  BY DEF Whole
<1>1. \A r \in Entries(o) : DomainOf(r) = domain[o]  BY EntryFacts DEF DomainOf
<1>2. QED  BY <1>1 DEF Whole

(* selectByDomainId leaves every other call's rows alone. *)
LEMMA SelectPicked ==
    ASSUME BaseInv, NEW c \in Calls, SelectOwn(c)
    PROVE  /\ Picked(c)' = OwnRows(c)
           /\ \A x \in Calls \ {c} : Picked(x)' = Picked(x)
<1>0. TypeOK  BY DEF BaseInv
<1>1. PICK s \in Orders(OwnRows(c)) : binds' = [binds EXCEPT ![c] = s]
  BY DEF SelectOwn
<1>2. OwnRows(c) \in SUBSET Rows  BY <1>0, SeenRows DEF OwnRows
<1>3. {s[i] : i \in DOMAIN s} = OwnRows(c)  BY <1>1, <1>2, OrderFacts
<1>4. binds'[c] = s  BY <1>0, <1>1 DEF TypeOK
<1>5. Picked(c)' = OwnRows(c)  BY <1>3, <1>4 DEF Picked
<1>6. \A x \in Calls \ {c} : Picked(x)' = Picked(x)
  BY <1>0, <1>1 DEF Picked, TypeOK
<1>7. QED  BY <1>5, <1>6

-----------------------------------------------------------------------------
(* The lists stay whole *)

(* Every step keeps the rows lawful. *)
LEMMA LawfulStep == SafeInv /\ [Next]_vars => Lawful'
<1> SUFFICES ASSUME SafeInv, [Next]_vars PROVE Lawful'
  OBVIOUS
<1>0. BaseInv /\ TypeOK /\ Places /\ Lawful  BY DEF SafeInv, BaseInv
<1>1. \A S : OfBound(S) /\ S \subseteq Rows => OfBound(S)'
  BY <1>0, FrameRows, BoundStays, RowFacts DEF OfBound
<1>2. \A S : Whole(S) => Whole(S)'
  BY <1>0, FrameRows DEF Whole
<1>3. OfBound({}) /\ Whole({})  BY DEF OfBound, Whole
<1>4. rows \subseteq Rows /\ \A c \in Calls : view[c] \subseteq Rows /\ Picked(c) \subseteq Rows
  BY <1>0 DEF TypeOK, Picked
<1>5. CASE Quiet
  <2>1. ASSUME NEW c \in Calls
        PROVE  /\ OfBound(view[c])' /\ Whole(view[c])'
               /\ OfBound(Picked(c))' /\ Whole(Picked(c))'
               /\ \A r \in Picked(c)' : DomainOf(r)' = domain'[c]
    <3>1. view'[c] \in {view[c], {}} /\ binds'[c] \in {binds[c], <<>>}
      BY <1>5 DEF Quiet
    <3>2. Picked(c)' \in {Picked(c), {}}  BY <3>1 DEF Picked
    <3>3. \A r \in Picked(c) : DomainOf(r)' = domain'[c]
      BY <1>0, <1>5, FrameRows DEF Lawful, Quiet
    <3>4. QED  BY <1>0, <1>1, <1>2, <1>3, <1>4, <3>1, <3>2, <3>3 DEF Lawful
  <2>2. OfBound(rows)' /\ Whole(rows)'
    BY <1>0, <1>1, <1>2, <1>4, <1>5 DEF Lawful, Quiet
  <2>3. QED  BY <2>1, <2>2 DEF Lawful
<1>6. ASSUME NEW c \in Calls, Begin(c) PROVE Lawful'
  <2>1. UNCHANGED <<rows, binds, domain>> /\ view' = [view EXCEPT ![c] = rows]
    BY <1>6 DEF Begin
  <2>2. \A x \in Calls : Picked(x)' = Picked(x)  BY <2>1 DEF Picked
  <2>3. \A x \in Calls : view'[x] \in {view[x], rows}
    BY <1>0, <2>1 DEF TypeOK
  <2>4. ASSUME NEW x \in Calls
        PROVE  /\ OfBound(view[x])' /\ Whole(view[x])'
               /\ OfBound(Picked(x))' /\ Whole(Picked(x))'
               /\ \A r \in Picked(x)' : DomainOf(r)' = domain'[x]
    BY <1>0, <1>1, <1>2, <1>4, <2>1, <2>2, <2>3, FrameRows DEF Lawful
  <2>5. QED  BY <1>0, <1>1, <1>2, <1>4, <2>1, <2>4 DEF Lawful
<1>7. ASSUME NEW c \in Calls, CheckEntry(c) PROVE Lawful'
  <2>1. UNCHANGED <<rows, binds, domain, view>>  BY <1>7 DEF CheckEntry
  <2>2. \A x \in Calls : Picked(x)' = Picked(x)  BY <2>1 DEF Picked
  <2>3. QED  BY <1>0, <1>1, <1>2, <1>4, <2>1, <2>2, FrameRows DEF Lawful
<1>8. ASSUME NEW c \in Calls, SelectOwn(c) PROVE Lawful'
  <2>1. UNCHANGED <<rows, domain, view>>  BY <1>8 DEF SelectOwn
  <2>3. Picked(c)' = OwnRows(c)  BY <1>0, <1>8, SelectPicked
  <2>4. \A x \in Calls \ {c} : Picked(x)' = Picked(x)  BY <1>0, <1>8, SelectPicked
  <2>5. OfBound(Seen(c)) /\ Whole(Seen(c))  BY <1>0 DEF Lawful, Seen
  <2>6. /\ OfBound(OwnRows(c)) /\ Whole(OwnRows(c))
        /\ OwnRows(c) \subseteq Rows
        /\ \A r \in OwnRows(c) : DomainOf(r) = domain[c]
    BY <1>0, <2>5, WholeOwn, SeenRows DEF OwnRows, OfBound
  <2>7. ASSUME NEW x \in Calls
        PROVE  /\ OfBound(view[x])' /\ Whole(view[x])'
               /\ OfBound(Picked(x))' /\ Whole(Picked(x))'
               /\ \A r \in Picked(x)' : DomainOf(r)' = domain'[x]
    <3>1. OfBound(view[x])' /\ Whole(view[x])'
      BY <1>0, <1>1, <1>2, <1>4, <2>1 DEF Lawful
    <3>2. CASE x = c
      BY <1>0, <1>1, <1>2, <2>1, <2>3, <2>6, <3>1, <3>2, FrameRows
    <3>3. CASE x # c
      BY <1>0, <1>1, <1>2, <1>4, <2>1, <2>4, <3>1, <3>3, FrameRows DEF Lawful
    <3>4. QED  BY <3>2, <3>3
  <2>8. QED  BY <1>0, <1>1, <1>2, <1>4, <2>1, <2>7 DEF Lawful
<1>9. ASSUME NEW c \in Calls, Commit(c) PROVE Lawful'
  <2>1. rows' = (rows \ Picked(c)) \cup Entries(c)  BY <1>0, <1>9, CommitRows
  <2>2. Bound(c)'
    BY <1>0, <1>9 DEF Commit, Goto, Bound, TypeOK
  <2>3. OfBound(rows)'
    BY <1>0, <1>4, <2>1, <2>2, FrameRows, BoundStays, RowFacts, EntryFacts DEF OfBound, Lawful
  <2>4. Whole(rows)'
    <3>1. Whole((rows \ Picked(c)) \cup Entries(c))
      BY <1>0, WholeReplace DEF Lawful
    <3>2. QED  BY <1>2, <2>1, <3>1
  <2>5. \A x \in Calls : view'[x] \in {view[x], {}} /\ binds'[x] \in {binds[x], <<>>}
    BY <1>0, <1>9 DEF Commit, Release, TypeOK
  <2>6. \A x \in Calls : Picked(x)' \in {Picked(x), {}}  BY <2>5 DEF Picked
  <2>7. \A x \in Calls : \A r \in Picked(x) : DomainOf(r)' = domain'[x]
    BY <1>0, Frame, FrameRows DEF Lawful
  <2>8. QED  BY <1>0, <1>1, <1>2, <1>3, <1>4, <2>3, <2>4, <2>5, <2>6, <2>7 DEF Lawful
<1>10. QED  BY <1>0, <1>5, <1>6, <1>7, <1>8, <1>9, StepKinds

-----------------------------------------------------------------------------
(* What an open call has not seen overlaps it *)

(* Every step keeps the calls in order. *)
LEMMA OrderStep == SafeInv /\ [Next]_vars => Order'
<1> SUFFICES ASSUME SafeInv, [Next]_vars PROVE Order'
  OBVIOUS
<1>0. BaseInv /\ TypeOK /\ Places /\ Lawful /\ Order  BY DEF SafeInv, BaseInv
<1>1. rows \subseteq Rows  BY <1>0 DEF TypeOK
<1>2. CASE Quiet
  <2>1. /\ rows' = rows /\ overlaps' = overlaps
        /\ \A x \in Calls : Open(x)' => Open(x) /\ Checked(x)' \subseteq Checked(x)
                                         /\ view'[x] = view[x]
        /\ \A x \in Calls : Writing(x)' => Writing(x) /\ Picked(x)' = Picked(x)
    BY <1>2 DEF Quiet, Picked
  <2>2. OpenPairs'  BY <1>0, <2>1 DEF Order, OpenPairs, Overlap
  <2>3. ViewCurrent'  BY <1>0, <2>1 DEF Order, ViewCurrent, Overlap
  <2>4. Ahead'
    BY <1>0, <2>1, Frame DEF Order, Ahead, Overlap, ParkOf, DomainOf
  <2>5. Behind'
    BY <1>0, <2>1, Frame DEF Order, Behind, Overlap, DomainOf
  <2>6. QED  BY <2>2, <2>3, <2>4, <2>5 DEF Order
<1>3. ASSUME NEW c \in Calls, Begin(c) PROVE Order'
  <2>1. /\ rows' = rows /\ overlaps \subseteq overlaps'
        /\ \A o \in Calls : Open(o) => Overlap(c, o)'
        /\ pc' = [pc EXCEPT ![c] = "check"] /\ view' = [view EXCEPT ![c] = rows]
        /\ UNCHANGED <<at, binds>> /\ ~Open(c)
    BY <1>3, Frame, <1>0 DEF Begin, Goto, Overlap, Open, OpenPCs
  <2>2. \A x \in Calls \ {c} : /\ Open(x)' = Open(x) /\ Writing(x)' = Writing(x)
                               /\ Checked(x)' = Checked(x) /\ view'[x] = view[x]
                               /\ Picked(x)' = Picked(x)
    BY <1>0, <2>1, Frame DEF TypeOK, Open, Writing, Checked, Picked
  <2>3. Open(c)' /\ ~Writing(c)' /\ view'[c] = rows /\ Checked(c)' = {}
    <3>1. at[c] = 1  BY <1>0, <1>3 DEF Begin, Places
    <3>2. \A i \in DOMAIN parkArr[c] : ~(i < 1)  BY <1>0, ListDomain DEF TypeOK
    <3>3. QED
      BY <1>0, <2>1, <3>1, <3>2, Frame DEF TypeOK, Open, OpenPCs, Writing, Checked
  <2>4. OpenPairs'
    BY <1>0, <2>1, <2>2, <2>3, OverlapSymmetric DEF Order, OpenPairs, Overlap
  <2>5. ViewCurrent'
    BY <1>0, <2>1, <2>2, <2>3 DEF Order, ViewCurrent, Overlap
  <2>6. Ahead'
    BY <1>0, <2>1, <2>2, <2>3, Frame DEF Order, Ahead, Overlap, ParkOf, DomainOf
  <2>7. Behind'
    BY <1>0, <2>1, <2>2, <2>3, Frame DEF Order, Behind, Overlap, DomainOf
  <2>8. QED  BY <2>4, <2>5, <2>6, <2>7 DEF Order
<1>4. ASSUME NEW c \in Calls, CheckEntry(c) PROVE Order'
  <2>1. UNCHANGED <<rows, view, binds, domain, parkArr, overlaps>> /\ Open(c)
    BY <1>4 DEF CheckEntry, Open, OpenPCs
  <2>2. \A x \in Calls : /\ Open(x)' => Open(x)
                         /\ Writing(x)' => Writing(x)
                         /\ Picked(x)' = Picked(x)
    BY <1>0, <1>4 DEF TypeOK, CheckEntry, Goto, Open, OpenPCs, Writing, Picked
  <2>3. OpenPairs'  BY <1>0, <2>1, <2>2 DEF Order, OpenPairs, Overlap
  <2>4. ViewCurrent'  BY <1>0, <2>1, <2>2 DEF Order, ViewCurrent, Overlap
  <2>5. Behind'  BY <1>0, <2>1, <2>2 DEF Order, Behind, Overlap, DomainOf
  <2>6. ASSUME NEW x \in Calls, Open(x)', NEW r \in rows, NEW i \in Checked(x)',
               parkArr[x][i] = ParkOf(r), DomainOf(r) # domain[x]
        PROVE  Overlap(x, r[1])
    <3>1. CASE i \in Checked(x)
      BY <1>0, <2>2, <2>6, <3>1 DEF Order, Ahead
    <3>2. CASE i \notin Checked(x)
      <4>1. x = c /\ i = at[c] /\ at'[c] = at[c] + 1
        <5>1. at[x] \in Nat /\ i \in Nat /\ i \in DOMAIN parkArr[x] /\ pc[x] = "check" /\ ~(i < at[x])
          BY <1>0, <2>1, <2>6, <3>2, ListDomain, ConstantsAssumption DEF TypeOK, Checked
        <5>2. CASE x # c
          BY <1>0, <1>4, <2>1, <2>6, <5>1, <5>2 DEF TypeOK, CheckEntry, Goto, Checked
        <5>3. CASE x = c /\ at' = at
          BY <1>0, <1>4, <2>1, <2>6, <5>1, <5>3 DEF TypeOK, CheckEntry, Goto, Checked, Open, OpenPCs
        <5>4. CASE x = c /\ at' = [at EXCEPT ![c] = @ + 1] /\ pc' = pc
          BY <1>0, <1>4, <2>1, <2>6, <5>1, <5>4 DEF TypeOK, CheckEntry, Checked
        <5>5. QED  BY <1>4, <5>2, <5>3, <5>4 DEF CheckEntry
      <4>2. at' # at  BY <1>0, <4>1 DEF TypeOK
      <4>3. parkArr[c][at[c]] = Blank \/ ~Taken(c, parkArr[c][at[c]])
        BY <1>4, <4>2 DEF CheckEntry
      <4>4. r \in Entries(r[1]) /\ r[1] \in Calls
        BY <1>0, <1>1, RowFacts DEF Lawful, OfBound
      <4>5. ParkOf(r) # Blank  BY <1>0, <4>4, EntryFacts DEF ParkOf
      <4>6. r \notin Seen(c)  BY <2>6, <4>1, <4>3, <4>5 DEF Taken
      <4>7. QED  BY <1>0, <2>1, <4>1, <4>6 DEF Seen, Order, ViewCurrent
    <3>3. QED  BY <3>1, <3>2
  <2>7. Ahead'  BY <2>1, <2>6 DEF Ahead, Overlap, ParkOf, DomainOf
  <2>8. QED  BY <2>3, <2>4, <2>5, <2>7 DEF Order
<1>5. ASSUME NEW c \in Calls, SelectOwn(c) PROVE Order'
  <2>1. UNCHANGED <<rows, view, at, domain, parkArr, overlaps>> /\ Open(c)
        /\ at[c] \notin DOMAIN parkArr[c] /\ pc[c] = "check"
        /\ pc' = [pc EXCEPT ![c] = "delete"]
    BY <1>5 DEF SelectOwn, Open, OpenPCs, Goto
  <2>2. \A x \in Calls : Open(x)' => Open(x)
    BY <1>0, <2>1 DEF TypeOK, Open
  <2>3. OpenPairs'  BY <1>0, <2>1, <2>2 DEF Order, OpenPairs, Overlap
  <2>4. ViewCurrent'  BY <1>0, <2>1, <2>2 DEF Order, ViewCurrent, Overlap
  <2>5. ASSUME NEW x \in Calls PROVE Checked(x)' \subseteq Checked(x)
    <3>1. CASE x # c  BY <1>0, <2>1, <3>1 DEF TypeOK, Checked
    <3>2. CASE x = c
      <4>1. DOMAIN parkArr[c] = 1..Len(parkArr[c]) /\ Len(parkArr[c]) \in Nat
            /\ at[c] \in Nat \ {0}
        BY <1>0, ListDomain, ConstantsAssumption DEF TypeOK
      <4>2. \A i \in DOMAIN parkArr[c] : i < at[c]  BY <2>1, <4>1
      <4>3. QED  BY <2>1, <3>2, <4>2 DEF Checked
    <3>3. QED  BY <3>1, <3>2
  <2>6. Ahead'
    BY <1>0, <2>1, <2>2, <2>5 DEF Order, Ahead, Overlap, ParkOf, DomainOf
  <2>7. ASSUME NEW x \in Calls, Writing(x)', NEW r \in rows, DomainOf(r) = domain[x]
        PROVE  r \in Picked(x)' \/ Overlap(x, r[1])
    <3>1. CASE x # c
      <4>1. Writing(x)  BY <1>0, <2>1, <2>7, <3>1 DEF TypeOK, Writing
      <4>2. QED  BY <1>0, <1>5, <2>7, <3>1, <4>1, SelectPicked DEF Order, Behind
    <3>2. CASE x = c
      <4>1. r \in Seen(c) \/ Overlap(c, r[1])
        BY <1>0, <2>1 DEF Seen, Order, ViewCurrent
      <4>2. QED  BY <1>0, <1>5, <2>7, <3>2, <4>1, SelectPicked DEF OwnRows
    <3>3. QED  BY <3>1, <3>2
  <2>8. Behind'  BY <2>1, <2>7 DEF Behind, Overlap, DomainOf
  <2>9. QED  BY <2>3, <2>4, <2>6, <2>8 DEF Order
<1>6. ASSUME NEW c \in Calls, Commit(c) PROVE Order'
  <2>1. UNCHANGED <<at, domain, parkArr, overlaps>> /\ Open(c)
        /\ rows' = (rows \ Picked(c)) \cup Entries(c)
    BY <1>0, <1>6, CommitRows DEF Commit, Release, Open, OpenPCs
  <2>2. \A x \in Calls : /\ Open(x)' => Open(x) /\ x # c /\ view'[x] = view[x]
                                          /\ Checked(x)' = Checked(x)
                         /\ Writing(x)' => Open(x)' /\ Writing(x) /\ Picked(x)' = Picked(x)
    BY <1>0, <1>6 DEF TypeOK, Commit, Release, Goto, Open, OpenPCs, Writing, Checked, Picked
  <2>3. ASSUME NEW x \in Calls, Open(x)', NEW r \in rows', r \notin rows
        PROVE  Overlap(x, r[1])
    <3>1. r[1] = c  BY <1>0, <2>1, <2>3, EntryFacts
    <3>2. QED  BY <1>0, <2>1, <2>2, <2>3, <3>1 DEF Order, OpenPairs
  <2>4. OpenPairs'  BY <1>0, <2>1, <2>2 DEF Order, OpenPairs, Overlap
  <2>5. ViewCurrent'  BY <1>0, <2>1, <2>2, <2>3 DEF Order, ViewCurrent, Overlap
  <2>6. Ahead'
    BY <1>0, <2>1, <2>2, <2>3 DEF Order, Ahead, Overlap, ParkOf, DomainOf
  <2>7. Behind'
    BY <1>0, <2>1, <2>2, <2>3 DEF Order, Behind, Overlap, DomainOf
  <2>8. QED  BY <2>4, <2>5, <2>6, <2>7 DEF Order
<1>7. QED  BY <1>0, <1>2, <1>3, <1>4, <1>5, <1>6, StepKinds

-----------------------------------------------------------------------------
(* The table *)

(* A step that is not a commit leaves the table and its history alone. *)
LEMMA TableSame ==
    ASSUME SafeInv, [Next]_vars, rows' = rows, latest' = latest
    PROVE  Table'
<1>0. BaseInv /\ TypeOK /\ Lawful /\ Table  BY DEF SafeInv, BaseInv
<1>1. UNCHANGED <<domain, parkArr>> /\ overlaps \subseteq overlaps'
  BY <1>0, Frame
<1>2. ExclusiveUnlessOverlap' /\ OneListUnlessOverlap'
  BY <1>0, <1>1 DEF Table, ExclusiveUnlessOverlap, OneListUnlessOverlap, Overlap, ParkOf,
      DomainOf
<1>3. LatestBound'
  <2>1. ASSUME NEW d \in Domains, latest[d] # NoCall
        PROVE  Bound(latest[d])' /\ domain[latest[d]] = d
    <3>1. latest[d] \in Calls  BY <1>0, <2>1 DEF TypeOK
    <3>2. QED  BY <1>0, <2>1, <3>1, BoundStays DEF Table, LatestBound
  <2>2. QED  BY <1>1, <2>1 DEF LatestBound, Bound
<1>4. LastListBound'
  <2>1. \A c : Entries(c)' = Entries(c)  BY <1>0, FrameRows
  <2>2. QED  BY <1>0, <1>1, <2>1 DEF Table, LastListBound, Overlap, DomainOf
<1>5. QED  BY <1>2, <1>3, <1>4 DEF Table

(* Every step keeps what is said of the table. *)
LEMMA TableStep == SafeInv /\ [Next]_vars => Table'
<1> SUFFICES ASSUME SafeInv, [Next]_vars PROVE Table'
  OBVIOUS
<1>0. BaseInv /\ TypeOK /\ Lawful /\ Order /\ Table  BY DEF SafeInv, BaseInv
<1>1. CASE Quiet  BY <1>1, TableSame DEF Quiet
<1>2. ASSUME NEW c \in Calls, Begin(c) \/ CheckEntry(c) \/ SelectOwn(c) PROVE Table'
  BY <1>2, TableSame DEF Begin, CheckEntry, SelectOwn
<1>3. ASSUME NEW c \in Calls, Commit(c) PROVE Table'
  <2>1. /\ UNCHANGED <<domain, parkArr, overlaps>> /\ Open(c) /\ Writing(c)
        /\ rows' = (rows \ Picked(c)) \cup Entries(c)
        /\ latest' = [latest EXCEPT ![domain[c]] = c]
        /\ Checked(c) = DOMAIN parkArr[c]
    BY <1>0, <1>3, CommitRows DEF Commit, Release, Open, OpenPCs, Writing, Checked
  <2>2. /\ \A r \in Entries(c) : r[1] = c /\ DomainOf(r) = domain[c]
        /\ \A r \in rows : r[1] \in Calls /\ Bound(r[1]) /\ r[1] # c
    BY <1>0, <2>1, EntryFacts, RowFacts
    DEF Lawful, OfBound, TypeOK, DomainOf, Bound, Open, OpenPCs
  <2>3. ASSUME NEW r \in Entries(c), NEW s \in rows \ Picked(c),
               ParkOf(r) = ParkOf(s) \/ DomainOf(r) = DomainOf(s)
        PROVE  Overlap(c, s[1])
    <3>1. CASE DomainOf(s) = domain[c]
      BY <1>0, <2>1, <3>1 DEF Order, Behind
    <3>2. CASE DomainOf(s) # domain[c]
      <4>1. r[2] \in Checked(c) /\ parkArr[c][r[2]] = ParkOf(s)
        BY <1>0, <2>1, <2>2, <2>3, <3>2, EntryFacts DEF ParkOf
      <4>2. QED  BY <1>0, <2>1, <3>2, <4>1 DEF Order, Ahead
    <3>3. QED  BY <3>1, <3>2
  <2>4. ASSUME NEW r \in rows', NEW s \in rows',
               \/ ParkOf(r) = ParkOf(s) /\ DomainOf(r) # DomainOf(s)
               \/ DomainOf(r) = DomainOf(s) /\ r[1] # s[1]
        PROVE  Overlap(r[1], s[1])
    <3>1. CASE r \in Entries(c) /\ s \in Entries(c)
      BY <2>2, <2>4, <3>1
    <3>2. CASE r \in Entries(c) /\ s \in rows \ Picked(c)
      BY <2>2, <2>3, <2>4, <3>2
    <3>3. CASE r \in rows \ Picked(c) /\ s \in Entries(c)
      BY <2>2, <2>3, <2>4, <3>3, OverlapSymmetric
    <3>4. CASE r \in rows /\ s \in rows
      BY <1>0, <2>4, <3>4 DEF Table, ExclusiveUnlessOverlap, OneListUnlessOverlap
    <3>5. QED  BY <2>1, <3>1, <3>2, <3>3, <3>4
  <2>5. ExclusiveUnlessOverlap' /\ OneListUnlessOverlap'
    BY <2>1, <2>4 DEF ExclusiveUnlessOverlap, OneListUnlessOverlap, Overlap, ParkOf, DomainOf
  <2>6. \A d \in Domains : latest'[d] = IF d = domain[c] THEN c ELSE latest[d]
    BY <1>0, <2>1 DEF TypeOK
  <2>7. LatestBound'
    <3>1. ASSUME NEW d \in Domains, latest'[d] # NoCall
          PROVE  pc'[latest'[d]] = "bound" /\ domain[latest'[d]] = d
      <4>1. CASE d = domain[c]
        BY <1>0, <1>3, <2>6, <4>1 DEF TypeOK, Commit, Goto
      <4>2. CASE d # domain[c]
        <5>1. latest[d] \in Calls /\ Bound(latest[d]) /\ domain[latest[d]] = d
              /\ latest'[d] = latest[d]
          BY <1>0, <2>6, <3>1, <4>2 DEF TypeOK, Table, LatestBound
        <5>2. Bound(latest[d])'  BY <1>0, <5>1, BoundStays
        <5>3. QED  BY <5>1, <5>2 DEF Bound
      <4>3. QED  BY <4>1, <4>2
    <3>2. QED  BY <2>1, <3>1 DEF LatestBound, Bound
  <2>8. ASSUME NEW d \in Domains, latest'[d] # NoCall
        PROVE  /\ Entries(latest'[d]) \subseteq rows'
               /\ \A r \in rows' :
                     DomainOf(r) = d /\ r[1] # latest'[d] => Overlap(r[1], latest'[d])
    <3>1. CASE d = domain[c]
      <4>1. latest'[d] = c  BY <2>6, <3>1
      <4>2. ASSUME NEW r \in rows', DomainOf(r) = d, r[1] # c
            PROVE  Overlap(r[1], c)
        <5>1. r \in rows /\ r \notin Picked(c)  BY <2>1, <2>2, <4>2
        <5>2. Overlap(c, r[1])
          BY <1>0, <2>1, <3>1, <4>2, <5>1 DEF Order, Behind
        <5>3. QED  BY <5>2, OverlapSymmetric
      <4>3. QED  BY <2>1, <4>1, <4>2
    <3>2. CASE d # domain[c]
      <4>1. latest'[d] = latest[d] /\ latest[d] \in Calls /\ domain[latest[d]] = d
            /\ Entries(latest[d]) \subseteq rows
        BY <1>0, <2>6, <2>8, <3>2 DEF TypeOK, Table, LatestBound, LastListBound
      <4>2. \A r \in Entries(latest[d]) : DomainOf(r) = d
        BY <1>0, <4>1, EntryFacts DEF DomainOf
      <4>3. \A r \in Picked(c) : DomainOf(r) = domain[c]  BY <1>0 DEF Lawful
      <4>4. Entries(latest[d]) \subseteq rows'  BY <2>1, <3>2, <4>1, <4>2, <4>3
      <4>5. ASSUME NEW r \in rows', DomainOf(r) = d, r[1] # latest[d]
            PROVE  Overlap(r[1], latest[d])
        <5>1. r \in rows  BY <2>1, <2>2, <3>2, <4>5
        <5>2. QED  BY <1>0, <2>8, <4>1, <4>5, <5>1 DEF Table, LastListBound
      <4>6. QED  BY <4>1, <4>4, <4>5
    <3>3. QED  BY <3>1, <3>2
  <2>9. LastListBound'
    <3>1. \A o : Entries(o)' = Entries(o)  BY <1>0, FrameRows
    <3>2. QED  BY <2>1, <2>8, <3>1 DEF LastListBound, Overlap, DomainOf
  <2>10. QED  BY <2>5, <2>7, <2>9 DEF Table
<1>4. QED  BY <1>0, <1>1, <1>2, <1>3, StepKinds

-----------------------------------------------------------------------------
(* The theorems *)

(* Every step keeps the invariant. *)
LEMMA SafeStep == SafeInv /\ [Next]_vars => SafeInv'
BY BaseStep, LawfulStep, OrderStep, TableStep DEF SafeInv

(* The invariant holds in every behaviour. *)
LEMMA Safe == Spec => []SafeInv
BY SafeInit, SafeStep, PTL DEF Spec

(* The list of a call is in the table as a whole or not at all, and only    *)
(* when the call was told so: addBindPark is one transaction.              *)
THEOREM Wholeness == Spec => []CallsStayWhole
<1>1. SafeInv => CallsStayWhole
  BY DEF SafeInv, Lawful, OfBound, Whole, Bound, CallsStayWhole
<1>2. QED  BY <1>1, Safe, PTL

(* The check for parks of other domains is enough among calls that do not   *)
(* overlap, under both isolation levels.                                   *)
THEOREM Exclusiveness == Spec => []ExclusiveUnlessOverlap
<1>1. SafeInv => ExclusiveUnlessOverlap  BY DEF SafeInv, Table
<1>2. QED  BY <1>1, Safe, PTL

(* The last list of a domain stands, and older ones are gone unless their   *)
(* calls overlapped it.                                                    *)
THEOREM LastListStands == Spec => []LastListBound
<1>1. SafeInv => LastListBound  BY DEF SafeInv, Table
<1>2. QED  BY <1>1, Safe, PTL

(* queryServUrlByParkCode finds more than one row only after calls that     *)
(* overlapped or a list that names the park twice.                         *)
THEOREM LookUp == Spec => []FoundUnlessOverlap
<1>1. ASSUME SafeInv, NEW park \in Parks, LookUpThrows(park)
      PROVE  \E r, s \in {t \in rows : ParkOf(t) = park} :
                r # s /\ (Overlap(r[1], s[1]) \/ r[1] = s[1])
  <2> DEFINE S == {t \in rows : ParkOf(t) = park}
  <2>1. PICK r, s \in S : r # s
    <3>1. SUFFICES ASSUME \A r, s \in S : r = s PROVE FALSE
      OBVIOUS
    <3>2. Cardinality(S) > 1  BY <1>1 DEF LookUpThrows
    <3>3. CASE S = {}  BY <3>2, <3>3, FS_EmptySet
    <3>4. CASE S # {}
      <4>1. PICK r \in S : TRUE  BY <3>4
      <4>2. S = {r}  BY <3>1, <4>1
      <4>3. Cardinality(S) = 1  BY <4>2, FS_Singleton
      <4>4. QED  BY <3>2, <4>3
    <3>5. QED  BY <3>3, <3>4
  <2>2. Overlap(r[1], s[1]) \/ r[1] = s[1]
    BY <1>1, <2>1 DEF SafeInv, Table, ExclusiveUnlessOverlap, OneListUnlessOverlap
  <2>3. QED  BY <2>1, <2>2
<1>2. SafeInv => FoundUnlessOverlap  BY <1>1 DEF FoundUnlessOverlap
<1>3. QED  BY <1>2, Safe, PTL
-----------------------------------------------------------------------------
(* What a step does to the table *)

(* Some call has just been told its success: its whole list is in, nothing  *)
(* else is, and what is out are lists of its own domain.                   *)
Replaces(c) ==
    /\ ~Bound(c) /\ Bound(c)'
    /\ Entries(c) \subseteq rows' /\ rows' \ rows \subseteq Entries(c)
    /\ \A r \in rows \ rows' : DomainOf(r) = domain[c]
    /\ \A o \in Calls : Entries(o) \subseteq rows' \/ Entries(o) \cap rows' = {}

(* However calls overlap, wait, break off or are rolled back, the table     *)
(* changes only where a call replaces lists of its own domain by its own:  *)
(* no call removes a park of another domain.                               *)
THEOREM OnlyOwnListsReplaced == Spec => [][rows' # rows => \E c \in Calls : Replaces(c)]_vars
<1>1. ASSUME SafeInv, [Next]_vars, rows' # rows PROVE \E c \in Calls : Replaces(c)
  <2>0. BaseInv /\ TypeOK /\ Lawful  BY <1>1 DEF SafeInv, BaseInv
  <2>1. PICK c \in Calls : Commit(c)
    BY <1>1, <2>0, StepKinds DEF Quiet, Begin, CheckEntry, SelectOwn
  <2>2. rows' = (rows \ Picked(c)) \cup Entries(c)  BY <2>0, <2>1, CommitRows
  <2>3. ~Bound(c) /\ Bound(c)'
    BY <2>0, <2>1 DEF Commit, Goto, Bound, TypeOK
  <2>4. \A r \in rows \ rows' : DomainOf(r) = domain[c]  BY <2>0, <2>2 DEF Lawful
  <2>5. Whole(rows')  BY <2>0, <2>2, WholeReplace DEF Lawful
  <2>6. QED  BY <2>2, <2>3, <2>4, <2>5 DEF Replaces, Whole
<1>2. QED  BY <1>1, Safe, PTL DEF Spec

-----------------------------------------------------------------------------
(* Calls that wait for each other *)

(* What the steps of an open call depend on; none of its other conjuncts    *)
(* restricts the state it is taken in.                                     *)
CanDelete(c) ==
    /\ pc[c] = "delete" /\ gone[c] < Len(binds[c])
    /\ \A o \in Calls \ {c} : ~Locks(o, binds[c][gone[c] + 1])

CanBeVictim(c) ==
    \E D \in SUBSET Calls :
        /\ c \in D
        /\ \A x \in D : (\E o \in D : WaitsFor(x, o)) /\ (\E o \in D : WaitsFor(o, x))

CanStep(c) ==
    \/ pc[c] = "check" /\ at[c] \in DOMAIN parkArr[c]
    \/ pc[c] = "check" /\ at[c] \notin DOMAIN parkArr[c] /\ Orders(OwnRows(c)) # {}
    \/ CanDelete(c)
    \/ pc[c] = "delete" /\ gone[c] = Len(binds[c])
    \/ pc[c] = "insert"
    \/ CanBeVictim(c)

(* There is an order in which a query can return its rows. *)
LEMMA SomeOrder == ASSUME NEW S \in SUBSET Rows PROVE Orders(S) # {}
<1>1. IsFiniteSet(S)  BY RowsFinite
<1>2. PICK s : s \in Bijection(1..Cardinality(S), S)
  BY <1>1, FS_CardinalityType DEF ExistsBijection
<1>3. s \in [1..Cardinality(S) -> S] /\ \A r \in S : \E i \in 1..Cardinality(S) : s[i] = r
  BY <1>2 DEF Bijection, Surjection, Injection
<1>4. s \in Orders(S)  BY <1>3 DEF Orders
<1>5. QED  BY <1>4

(* Where each of finitely many has a successor, some form circles: each of  *)
(* them has a successor and a predecessor among them.                      *)
LEMMA SomeCircle ==
    ASSUME NEW S, IsFiniteSet(S), S # {}, NEW f \in [S -> S]
    PROVE  \E D \in SUBSET S : /\ D # {}
                               /\ \A x \in D : f[x] \in D
                               /\ \A y \in D : \E x \in D : f[x] = y
<1> DEFINE Closed == {M \in SUBSET S : M # {} /\ \A x \in M : f[x] \in M}
<1>1. S \in Closed  OBVIOUS
<1>2. IsWellFoundedOn(StrictSubsetOrdering(S), SUBSET S)
  BY FS_StrictSubsetOrderingWellFounded, FS_FiniteSubsetsOfFinite
<1>3. PICK D \in Closed : \A M \in Closed : <<M, D>> \notin StrictSubsetOrdering(S)
  <2>1. Closed \subseteq SUBSET S /\ Closed # {}  BY <1>1
  <2> HIDE DEF Closed
  <2>2. QED  BY <1>2, <2>1, WFMin
<1> DEFINE Image == {f[x] : x \in D}
<1>4. Image \subseteq D /\ Image \in Closed  BY <1>3
<1>5. Image = D  BY <1>3, <1>4 DEF StrictSubsetOrdering
<1>6. QED  BY <1>3, <1>5

(* A call locks rows only between its first delete and its end. *)
LEMMA LockersWrite ==
    ASSUME BaseInv, NEW o \in Calls, NEW r, Locks(o, r)
    PROVE  Open(o)
<1>1. PICK i \in 1..gone[o] : r = binds[o][i]  BY DEF Locks, Erased
<1>2. gone[o] # 0
  <2>1. gone[o] \in Nat  BY DEF BaseInv, TypeOK
  <2>2. QED  BY <1>1, <2>1
<1>3. QED  BY <1>2 DEF BaseInv, Places, Writing, Open, OpenPCs

(* Calls that wait for each other's rows in circles do not stop the         *)
(* service: as long as a call is open, one that is open can check, read,   *)
(* delete, insert or commit, or the database can end one. It is the        *)
(* statement of NoStandstill with the guards written out.                  *)
THEOREM NoLockout == Spec => [](\A c \in Calls : Open(c) => \E o \in Calls : Open(o) /\ CanStep(o))
<1> DEFINE W == {x \in Calls : Open(x)}
<1>1. ASSUME BaseInv, NEW c \in Calls, Open(c), \A o \in W : ~CanStep(o) PROVE FALSE
  <2>0. TypeOK /\ Places  BY <1>1 DEF BaseInv
  <2>1. ASSUME NEW x \in W PROVE \E o \in W : WaitsFor(x, o)
    <3>1. pc[x] # "check"
      <4>1. OwnRows(x) \in SUBSET Rows  BY <2>0, SeenRows DEF OwnRows
      <4>2. QED  BY <1>1, <4>1, SomeOrder DEF CanStep
    <3>2. pc[x] = "delete" /\ gone[x] # Len(binds[x])
      BY <1>1, <3>1 DEF CanStep, Open, OpenPCs
    <3>3. gone[x] < Len(binds[x])
      <4>1. gone[x] \in 0..Len(binds[x]) /\ Len(binds[x]) \in Nat
        BY <2>0 DEF TypeOK, Places
      <4>2. QED  BY <3>2, <4>1
    <3>4. PICK o \in Calls \ {x} : Locks(o, binds[x][gone[x] + 1])
      BY <1>1, <3>2, <3>3 DEF CanStep, CanDelete
    <3>5. Open(o)  BY <1>1, <3>4, LockersWrite
    <3>6. QED  BY <3>2, <3>3, <3>4, <3>5 DEF WaitsFor
  <2> DEFINE f == [x \in W |-> CHOOSE o \in W : WaitsFor(x, o)]
  <2>2. f \in [W -> W] /\ \A x \in W : WaitsFor(x, f[x])  BY <2>1
  <2>3. IsFiniteSet(W) /\ W # {}  BY <1>1, FS_Subset, ConstantsAssumption
  <2> HIDE DEF f, W
  <2>4. PICK D \in SUBSET W : /\ D # {}
                              /\ \A x \in D : f[x] \in D
                              /\ \A y \in D : \E x \in D : f[x] = y
    BY <2>2, <2>3, SomeCircle
  <2>5. PICK x \in D : TRUE  BY <2>4
  <2>6. CanBeVictim(x)
    <3>1. D \in SUBSET Calls  BY DEF W
    <3>2. \A y \in D : (\E o \in D : WaitsFor(y, o)) /\ (\E o \in D : WaitsFor(o, y))
      BY <2>2, <2>4
    <3>3. QED  BY <2>5, <3>1, <3>2 DEF CanBeVictim
  <2>7. QED  BY <1>1, <2>4, <2>5, <2>6 DEF CanStep
<1>2. BaseInv => \A c \in Calls : Open(c) => \E o \in Calls : Open(o) /\ CanStep(o)
  BY <1>1
<1>3. QED  BY <1>2, BaseInit, BaseStep, PTL DEF Spec

(* That the guards of CanStep enable a step: not for the provers, which     *)
(* have no rules for ENABLED.                                              *)
GuardsEnable == \A o \in Calls : CanStep(o) => ENABLED <<Step(o)>>_vars

(* So open calls that wait for each other never stop the service, if a step *)
(* is enabled where its guards hold.                                       *)
THEOREM ServiceGoesOn == Spec /\ []GuardsEnable => []NoStandstill
<1> DEFINE Free == \A c \in Calls : Open(c) => \E o \in Calls : Open(o) /\ CanStep(o)
<1>1. Free /\ GuardsEnable => NoStandstill
  BY DEF GuardsEnable, NoStandstill
<1> HIDE DEF Free
<1>2. Spec => []Free
  BY NoLockout DEF Free
<1>3. QED  BY <1>1, <1>2, PTL
=============================================================================
