----------------------------- MODULE ParkBinding -----------------------------
(***************************************************************************)
(* /bindPark.do: a domain sends the list of its parks, and addBindPark     *)
(* replaces the domain's rows of third_domain_park_relat by the list,      *)
(* unless another domain has one of the parks. A call is one transaction;  *)
(* the table has no key but the nid of a row, which each insert makes new. *)
(* Calls run on servlet threads of their own and nothing orders them.      *)
(***************************************************************************)
EXTENDS Naturals, Sequences, FiniteSets

CONSTANTS
    Calls,          \* the calls of bindPark, each made once
    Domains,        \* the values of domainId
    Parks,          \* the values of parkCode
    Blank,          \* an empty entry of a list
    NoCall,
    MaxLength,      \* bound: entries of a list
    MaxFaults       \* bound: calls that break off

ASSUME ConstantsAssumption ==
    /\ Blank \notin Parks
    /\ IsFiniteSet(Calls) /\ NoCall \notin Calls
    /\ MaxLength \in Nat /\ MaxFaults \in Nat

(* What parks.split(",") can be: no blank entry ends it, but for "" alone. *)
Lists == {l \in UNION {[1..n -> Parks \cup {Blank}] : n \in 0..MaxLength} :
             Len(l) > 1 => l[Len(l)] # Blank}

(* A row is known by the call that inserts it and the entry it stands for. *)
Rows == Calls \X (1..MaxLength)

VARIABLES
    rows,           \* third_domain_park_relat, as committed
    pc,             \* where each call is
    domain,         \* its domainId
    parkArr,        \* its list
    repeatable,     \* isolation of the database, which the code leaves open
    at,             \* i, the entry to be checked or inserted next
    view,           \* the table its transaction has seen first
    binds,          \* what selectByDomainId has returned
    gone,           \* how many of these have been deleted
    latest,         \* history: the last call of a domain to be committed
    overlaps,       \* history: the pairs of calls that were open together
    faults

call == <<pc, domain, parkArr, repeatable, at, view, binds, gone>>
vars == <<rows, call, latest, overlaps, faults>>

OpenPCs == {"check", "delete", "insert"}
Open(c) == pc[c] \in OpenPCs

Entries(c) == {<<c, i>> : i \in {j \in DOMAIN parkArr[c] : parkArr[c][j] # Blank}}
DomainOf(r) == domain[r[1]]
ParkOf(r) == parkArr[r[1]][r[2]]

(* What a call has done to the table and not committed yet. *)
Erased(c) == {binds[c][i] : i \in 1..gone[c]}
Inserted(c) == {r \in Entries(c) : r[2] < at[c]}

(* What a query of the call reads; every one of them precedes its writes. *)
Seen(c) == IF repeatable THEN view[c] ELSE rows

Init ==
    /\ rows = {}
    /\ pc = [c \in Calls |-> "new"]
    /\ domain \in [Calls -> Domains]
    /\ parkArr \in [Calls -> Lists]
    /\ repeatable \in BOOLEAN
    /\ at = [c \in Calls |-> 1]
    /\ view = [c \in Calls |-> {}]
    /\ binds = [c \in Calls |-> <<>>]
    /\ gone = [c \in Calls |-> 0]
    /\ latest = [d \in Domains |-> NoCall]
    /\ overlaps = {}
    /\ faults = 0

-----------------------------------------------------------------------------
(* addBindPark *)

Goto(c, place) == pc' = [pc EXCEPT ![c] = place]

(* The call has passed commonRequestValid and its transaction is open. *)
Begin(c) ==
    /\ pc[c] = "new"
    /\ Goto(c, "check")
    /\ view' = [view EXCEPT ![c] = rows]
    /\ overlaps' = overlaps \cup {{c, o} : o \in {x \in Calls : Open(x)}}
    /\ UNCHANGED <<rows, domain, parkArr, repeatable, at, binds, gone, latest, faults>>

(* commonRequestValid has answered "fail". *)
Invalid(c) ==
    /\ pc[c] = "new"
    /\ Goto(c, "refused")
    /\ UNCHANGED <<rows, domain, parkArr, repeatable, at, view, binds, gone, latest, overlaps, faults>>

(* queryRecordCountExcept > 0 *)
Taken(c, park) == \E r \in Seen(c) : ParkOf(r) = park /\ DomainOf(r) # domain[c]

(* Mutated form of CheckEntry: the check starts at the second entry. *)
CheckEntryFromSecond(c) ==
    /\ pc[c] = "check"
    /\ at[c] \in DOMAIN parkArr[c]
    /\ LET entry == parkArr[c][at[c]] IN
          IF at[c] > 1 /\ entry # Blank /\ Taken(c, entry)
          THEN Goto(c, "refused") /\ UNCHANGED at
          ELSE at' = [at EXCEPT ![c] = @ + 1] /\ UNCHANGED pc
    /\ UNCHANGED <<rows, domain, parkArr, repeatable, view, binds, gone, latest, overlaps, faults>>

(* Mutated form of CheckEntry: i is not advanced at a blank entry. *)
CheckEntryStuck(c) ==
    /\ pc[c] = "check"
    /\ at[c] \in DOMAIN parkArr[c]
    /\ LET entry == parkArr[c][at[c]] IN
          \/ entry = Blank /\ UNCHANGED <<pc, at>>
          \/ entry # Blank /\ Taken(c, entry) /\ Goto(c, "refused") /\ UNCHANGED at
          \/ entry # Blank /\ ~Taken(c, entry) /\ at' = [at EXCEPT ![c] = @ + 1] /\ UNCHANGED pc
    /\ UNCHANGED <<rows, domain, parkArr, repeatable, view, binds, gone, latest, overlaps, faults>>

(* The first park that another domain has ends the call. *)
CheckEntry(c) ==
    /\ pc[c] = "check"
    /\ at[c] \in DOMAIN parkArr[c]
    /\ LET entry == parkArr[c][at[c]] IN
          IF entry # Blank /\ Taken(c, entry)
          THEN Goto(c, "refused") /\ UNCHANGED at
          ELSE at' = [at EXCEPT ![c] = @ + 1] /\ UNCHANGED pc
    /\ UNCHANGED <<rows, domain, parkArr, repeatable, view, binds, gone, latest, overlaps, faults>>

(* Mutated form of OwnRows: the parks that stay on the list keep their row. *)
OwnRowsDropped(c) ==
    {r \in Seen(c) : DomainOf(r) = domain[c] /\ \A e \in Entries(c) : ParkOf(e) # ParkOf(r)}

(* selectByDomainId *)
OwnRows(c) == {r \in Seen(c) : DomainOf(r) = domain[c]}

(* The rows of a set in some order. *)
Orders(S) == {s \in [1..Cardinality(S) -> S] : \A r \in S : \E i \in DOMAIN s : s[i] = r}

(* No entry is taken: the rows of the domain are read, in no given order. *)
SelectOwn(c) ==
    /\ pc[c] = "check"
    /\ at[c] \notin DOMAIN parkArr[c]
    /\ \E s \in Orders(OwnRows(c)) : binds' = [binds EXCEPT ![c] = s]
    /\ Goto(c, "delete")
    /\ UNCHANGED <<rows, domain, parkArr, repeatable, at, view, gone, latest, overlaps, faults>>

(* The open call o has deleted row r: until it ends the row is locked. *)
Locks(o, r) == r \in Erased(o) \cap rows

(* deleteByPrimaryKey waits for the lock; it deletes nothing and raises     *)
(* nothing when the row has gone.                                          *)
Delete(c) ==
    /\ pc[c] = "delete"
    /\ gone[c] < Len(binds[c])
    /\ \A o \in Calls \ {c} : ~Locks(o, binds[c][gone[c] + 1])
    /\ gone' = [gone EXCEPT ![c] = @ + 1]
    /\ UNCHANGED <<rows, pc, domain, parkArr, repeatable, at, view, binds, latest, overlaps, faults>>

(* The loop over the rows is over. *)
DeletesDone(c) ==
    /\ pc[c] = "delete"
    /\ gone[c] = Len(binds[c])
    /\ Goto(c, "insert")
    /\ at' = [at EXCEPT ![c] = 1]
    /\ UNCHANGED <<rows, domain, parkArr, repeatable, view, binds, gone, latest, overlaps, faults>>

(* Mutated form of Insert: the loop runs to i <= parkArr.length. *)
InsertOneTooMany(c) ==
    /\ pc[c] = "insert"
    /\ at[c] <= Len(parkArr[c]) + 1
    /\ at' = [at EXCEPT ![c] = @ + 1]
    /\ UNCHANGED <<rows, pc, domain, parkArr, repeatable, view, binds, gone, latest, overlaps, faults>>

(* insert, for an entry that is not blank: see Inserted. *)
Insert(c) ==
    /\ pc[c] = "insert"
    /\ at[c] \in DOMAIN parkArr[c]
    /\ at' = [at EXCEPT ![c] = @ + 1]
    /\ UNCHANGED <<rows, pc, domain, parkArr, repeatable, view, binds, gone, latest, overlaps, faults>>

(* The transaction is over: what it has seen and locked is let go. *)
Release(c) ==
    /\ view' = [view EXCEPT ![c] = {}]
    /\ binds' = [binds EXCEPT ![c] = <<>>]
    /\ gone' = [gone EXCEPT ![c] = 0]
    /\ UNCHANGED <<domain, parkArr, repeatable, at>>

(* "park bind success": the method returns and the proxy commits. *)
Commit(c) ==
    /\ pc[c] = "insert"
    /\ at[c] \notin DOMAIN parkArr[c]
    /\ rows' = (rows \ Erased(c)) \cup Inserted(c)
    /\ latest' = [latest EXCEPT ![domain[c]] = c]
    /\ Goto(c, "bound")
    /\ Release(c)
    /\ UNCHANGED <<overlaps, faults>>

(* Mutated form of Rollback: the exception is logged and not rethrown, so   *)
(* the proxy commits.                                                      *)
RollbackSwallowed(c) ==
    /\ rows' = (rows \ Erased(c)) \cup (IF pc[c] = "insert" THEN Inserted(c) ELSE {})
    /\ Goto(c, "failed")
    /\ Release(c)
    /\ UNCHANGED <<latest, overlaps>>

(* The exception is rethrown, and rollback-for="Exception". *)
Rollback(c) ==
    /\ Goto(c, "failed")
    /\ Release(c)
    /\ UNCHANGED <<rows, latest, overlaps>>

(* A statement fails, or the process dies, at any step of the call. *)
BreakOff(c) ==
    /\ Open(c)
    /\ faults < MaxFaults
    /\ faults' = faults + 1
    /\ Rollback(c)

WaitsFor(c, o) ==
    /\ o # c
    /\ pc[c] = "delete" /\ gone[c] < Len(binds[c])
    /\ Locks(o, binds[c][gone[c] + 1])

(* The database ends one of the transactions that wait in a circle. *)
Victim(c) ==
    /\ \E D \in SUBSET Calls :
          /\ c \in D
          /\ \A x \in D : (\E o \in D : WaitsFor(x, o)) /\ (\E o \in D : WaitsFor(o, x))
    /\ Rollback(c)
    /\ UNCHANGED faults

(* Every call has been answered. *)
Finished ==
    /\ \A c \in Calls : pc[c] # "new" /\ ~Open(c)
    /\ UNCHANGED vars

-----------------------------------------------------------------------------

Step(c) ==
    \/ CheckEntry(c) \/ SelectOwn(c)
    \/ Delete(c) \/ DeletesDone(c)
    \/ Insert(c) \/ Commit(c)
    \/ Victim(c)

Next ==
    \/ \E c \in Calls : Begin(c) \/ Invalid(c) \/ Step(c) \/ BreakOff(c)
    \/ Finished

Spec == Init /\ [][Next]_vars

-----------------------------------------------------------------------------
(* Properties *)

TypeOK ==
    /\ rows \in SUBSET Rows
    /\ pc \in [Calls -> OpenPCs \cup {"new", "refused", "failed", "bound"}]
    /\ domain \in [Calls -> Domains]
    /\ parkArr \in [Calls -> Lists]
    /\ repeatable \in BOOLEAN
    /\ at \in [Calls -> 1..(MaxLength + 1)]
    /\ view \in [Calls -> SUBSET Rows]
    /\ binds \in [Calls -> Seq(Rows)]
    /\ gone \in [Calls -> Nat]
    /\ latest \in [Domains -> Calls \cup {NoCall}]
    /\ overlaps \in SUBSET SUBSET Calls
    /\ faults \in 0..MaxFaults

Overlap(c, o) == {c, o} \in overlaps

(* The list of a call is in the table as a whole or not at all, however     *)
(* calls overlap, wait for each other and break off between two deletes or *)
(* two inserts; only a call that was told "park bind success" is in it.    *)
CallsStayWhole ==
    /\ \A r \in rows : pc[r[1]] = "bound"
    /\ \A c \in Calls : Entries(c) \subseteq rows \/ Entries(c) \cap rows = {}

(* Two domains have the same park only if their calls ran at the same time. *)
ExclusiveUnlessOverlap ==
    \A r, s \in rows :
        ParkOf(r) = ParkOf(s) /\ DomainOf(r) # DomainOf(s) => Overlap(r[1], s[1])

(* The last call of a domain to succeed has all its parks in the table, and *)
(* what else the domain has there comes from calls that ran beside it.     *)
LastListBound ==
    \A d \in Domains : latest[d] # NoCall =>
        /\ Entries(latest[d]) \subseteq rows
        /\ \A r \in rows : DomainOf(r) = d /\ r[1] # latest[d] => Overlap(r[1], latest[d])

(* queryServUrlByParkCode joins the rows of a park, and selectOne throws    *)
(* when there is more than one.                                            *)
LookUpThrows(park) == Cardinality({r \in rows : ParkOf(r) = park}) > 1

(* The address of a park can be looked up unless calls that bind it have    *)
(* overlapped or one list names it twice.                                  *)
FoundUnlessOverlap ==
    \A park \in Parks : LookUpThrows(park) =>
        \E r, s \in rows :
            /\ r # s
            /\ ParkOf(r) = park /\ ParkOf(s) = park
            /\ Overlap(r[1], s[1]) \/ r[1] = s[1]

(* Calls that wait for each other's rows in a circle do not stop the       *)
(* service: as long as a call is open, some open call can take a step.     *)
NoStandstill ==
    \A c \in Calls : Open(c) =>
        \E o \in Calls : Open(o) /\ ENABLED <<Step(o)>>_vars
=============================================================================
