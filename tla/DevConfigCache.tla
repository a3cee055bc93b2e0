---------------------------- MODULE DevConfigCache ----------------------------
(***************************************************************************)
(* The configuration of the domains: one database row for each, and a copy *)
(* of it in a Redis hash that all domains share (DevConfigServiceImpl,     *)
(* CommonCacheServiceImpl). Every request looks its domain up twice, first *)
(* to check the request and then to serve it. transferCustomData serves an *)
(* enabled domain; updateVerifyServer calls the domain's server and writes *)
(* what came of it to the hash and then to the table (updateValidServer).  *)
(* A request is one transaction, and reads of the table see the snapshot   *)
(* that its first read has taken. The hash is no part of it.               *)
(***************************************************************************)
EXTENDS Naturals

CONSTANTS
    Domains,        \* the values of domainId
    Senders,        \* threads with calls of transferCustomData
    Verifiers,      \* threads with calls of updateVerifyServer
    MaxEdits,       \* bound: changes of rows by others
    MaxFaults,      \* bound: requests that break off
    NoRow,          \* null
    NoThread

Threads == Senders \cup Verifiers

ASSUME ConstantsAssumption ==
    /\ Senders \cap Verifiers = {}
    /\ MaxEdits \in Nat /\ MaxFaults \in Nat
    /\ NoThread \notin Threads

(* A row: the version of what others enter, such as domain_key and post_url, *)
(* and serv_enable. NoRow is no record, as the model values it is given are. *)
Rows == [version : 0..MaxEdits, servEnable : {"0101", "0102"}]

ASSUME NoRowAssumption == NoRow \notin Rows

VARIABLES
    table,          \* third_dev_config, as committed
    lock,           \* the thread whose transaction has changed the row
    hash,           \* map:third_dev_config, NoRow for an absent field
    ttl,            \* whether the hash has a time to live
    pc,             \* where each thread is
    domain,         \* domainId of each thread's request
    checked,        \* the request has passed commonRequestValid
    seen,           \* the row in the snapshot of its transaction
    config,         \* the row found, later the one to be written
    past,           \* history: the rows the table has held
    overlapped,     \* history: two verifications of a domain overlapped
    edits, faults

local == <<pc, domain, checked, seen, config>>
vars == <<table, lock, hash, ttl, local, past, overlapped, edits, faults>>

PCs == {"idle", "hget", "select", "hput", "expire", "found", "ask",
        "write", "update", "commit"}

Init ==
    /\ table \in [Domains -> {[version |-> 0, servEnable |-> "0102"], NoRow}]
    /\ lock = [d \in Domains |-> NoThread]
    /\ hash = [d \in Domains |-> NoRow]
    /\ ttl = FALSE
    /\ pc = [t \in Threads |-> "idle"]
    /\ domain \in [Threads -> Domains]
    /\ checked = [t \in Threads |-> FALSE]
    /\ seen = [t \in Threads |-> NoRow]
    /\ config = [t \in Threads |-> NoRow]
    /\ past = [d \in Domains |-> {table[d]}]
    /\ overlapped = FALSE
    /\ edits = 0
    /\ faults = 0

-----------------------------------------------------------------------------
(* Requests *)

Goto(t, place) == pc' = [pc EXCEPT ![t] = place]

Begin(t) ==
    /\ pc[t] = "idle"
    /\ Goto(t, "hget")
    /\ \E d \in Domains : domain' = [domain EXCEPT ![t] = d]
    /\ overlapped' = (overlapped \/ /\ t \in Verifiers
                                    /\ \E v \in Verifiers : /\ pc[v] # "idle"
                                                            /\ domain[v] = domain'[t])
    /\ UNCHANGED <<table, lock, hash, ttl, checked, seen, config, past, edits, faults>>

(* The end of the request and of its transaction. *)
End(t) ==
    /\ Goto(t, "idle")
    /\ checked' = [checked EXCEPT ![t] = FALSE]
    /\ seen' = [seen EXCEPT ![t] = NoRow]
    /\ config' = [config EXCEPT ![t] = NoRow]
    /\ UNCHANGED domain

(* The snapshot is taken by the first read of the table. *)
Snapshot(t) == IF seen[t] = NoRow THEN table[domain[t]] ELSE seen[t]

-----------------------------------------------------------------------------
(* getByPrimaryKey *)

HGet(t) ==
    /\ pc[t] = "hget"
    /\ config' = [config EXCEPT ![t] = hash[domain[t]]]
    /\ Goto(t, IF config'[t] = NoRow THEN "select" ELSE "found")
    /\ UNCHANGED <<table, lock, hash, ttl, domain, checked, seen, past, overlapped,
                   edits, faults>>

(* A domain that does not exist is not cached. *)
Select(t) ==
    /\ pc[t] = "select"
    /\ seen' = [seen EXCEPT ![t] = Snapshot(t)]
    /\ config' = [config EXCEPT ![t] = Snapshot(t)]
    /\ Goto(t, IF config'[t] = NoRow THEN "found" ELSE "hput")
    /\ UNCHANGED <<table, lock, hash, ttl, domain, checked, past, overlapped,
                   edits, faults>>

HPut(t) ==
    /\ pc[t] = "hput"
    /\ hash' = [hash EXCEPT ![domain[t]] = config[t]]
    /\ Goto(t, "expire")
    /\ UNCHANGED <<table, lock, ttl, domain, checked, seen, config, past, overlapped,
                   edits, faults>>

(* Mutated form of Expire: the time to live is forgotten. *)
ExpireForgotten(t) ==
    /\ pc[t] = "expire"
    /\ Goto(t, "found")
    /\ UNCHANGED <<table, lock, hash, ttl, domain, checked, seen, config, past,
                   overlapped, edits, faults>>

(* Nothing comes of it if the hash has gone meanwhile. *)
Expire(t) ==
    /\ pc[t] = "expire"
    /\ ttl' = \E d \in Domains : hash[d] # NoRow
    /\ Goto(t, "found")
    /\ UNCHANGED <<table, lock, hash, domain, checked, seen, config, past, overlapped,
                   edits, faults>>

-----------------------------------------------------------------------------
(* commonRequestValid, transferCustomData and updateVerifyServer *)

(* The domain does not exist, or the request was signed with another key. *)
Reject(t) ==
    /\ pc[t] = "found"
    /\ ~checked[t]
    /\ End(t)
    /\ UNCHANGED <<table, lock, hash, ttl, past, overlapped, edits, faults>>

(* A verification goes on to read the protocol version from the database. *)
Accept(t) ==
    /\ pc[t] = "found"
    /\ ~checked[t]
    /\ config[t] # NoRow
    /\ checked' = [checked EXCEPT ![t] = TRUE]
    /\ seen' = [seen EXCEPT ![t] = IF t \in Verifiers THEN Snapshot(t) ELSE @]
    /\ config' = [config EXCEPT ![t] = NoRow]
    /\ Goto(t, "hget")
    /\ UNCHANGED <<table, lock, hash, ttl, domain, past, overlapped, edits, faults>>

(* The message is queued if the domain is enabled, and refused otherwise. *)
Serve(t) ==
    /\ t \in Senders
    /\ pc[t] = "found"
    /\ checked[t]
    /\ End(t)
    /\ UNCHANGED <<table, lock, hash, ttl, past, overlapped, edits, faults>>

(* Too high a version disables the server; otherwise it is called. *)
Check(t) ==
    /\ t \in Verifiers
    /\ pc[t] = "found"
    /\ checked[t]
    /\ \/ Goto(t, "ask") /\ UNCHANGED config
       \/ /\ config' = [config EXCEPT ![t] = [seen[t] EXCEPT !.servEnable = "0102"]]
          /\ Goto(t, "write")
    /\ UNCHANGED <<table, lock, hash, ttl, domain, checked, seen, past, overlapped,
                   edits, faults>>

(* Mutated form of Ask: the hash is told of the success that is hoped for. *)
AskHopefully(t) ==
    /\ pc[t] = "ask"
    /\ hash' = [hash EXCEPT ![domain[t]] = [seen[t] EXCEPT !.servEnable = "0101"]]
    /\ \/ /\ config' = [config EXCEPT ![t] = [seen[t] EXCEPT !.servEnable = "0101"]]
          /\ Goto(t, "write")
          /\ UNCHANGED <<domain, checked, seen>>
       \/ End(t)
    /\ UNCHANGED <<table, lock, ttl, past, overlapped, edits, faults>>

(* The server has 3 s to answer "success"; otherwise nothing is written. *)
Ask(t) ==
    /\ pc[t] = "ask"
    /\ \/ /\ config' = [config EXCEPT ![t] = [seen[t] EXCEPT !.servEnable = "0101"]]
          /\ Goto(t, "write")
          /\ UNCHANGED <<domain, checked, seen>>
       \/ End(t)
    /\ UNCHANGED <<table, lock, hash, ttl, past, overlapped, edits, faults>>

(* updateValidServer: the hash first, without a time to live *)
Write(t) ==
    /\ pc[t] = "write"
    /\ hash' = [hash EXCEPT ![domain[t]] = config[t]]
    /\ Goto(t, "update")
    /\ UNCHANGED <<table, lock, ttl, domain, checked, seen, config, past, overlapped,
                   edits, faults>>

(* The update waits for another transaction that has changed the row. *)
Update(t) ==
    /\ pc[t] = "update"
    /\ lock[domain[t]] = NoThread
    /\ lock' = [lock EXCEPT ![domain[t]] = t]
    /\ Goto(t, "commit")
    /\ UNCHANGED <<table, hash, ttl, domain, checked, seen, config, past, overlapped,
                   edits, faults>>

Commit(t) ==
    /\ pc[t] = "commit"
    /\ table' = [table EXCEPT ![domain[t]] = config[t]]
    /\ past' = [past EXCEPT ![domain[t]] = @ \cup {config[t]}]
    /\ lock' = [lock EXCEPT ![domain[t]] = NoThread]
    /\ End(t)
    /\ UNCHANGED <<hash, ttl, overlapped, edits, faults>>

(* An exception or the end of the process: the transaction is rolled back, *)
(* also where updateVerifyServer catches it, for it is marked by then.     *)
BreakOff(t) ==
    /\ pc[t] # "idle"
    /\ faults < MaxFaults
    /\ faults' = faults + 1
    /\ lock' = [d \in Domains |-> IF lock[d] = t THEN NoThread ELSE lock[d]]
    /\ End(t)
    /\ UNCHANGED <<table, hash, ttl, past, overlapped, edits>>

-----------------------------------------------------------------------------
(* Redis and the keepers of the table *)

TimeOut ==
    /\ ttl
    /\ ttl' = FALSE
    /\ hash' = [d \in Domains |-> NoRow]
    /\ UNCHANGED <<table, lock, local, past, overlapped, edits, faults>>

Edit(d) ==
    /\ edits < MaxEdits
    /\ edits' = edits + 1
    /\ table[d] # NoRow /\ lock[d] = NoThread
    /\ table' = [table EXCEPT ![d].version = edits']
    /\ past' = [past EXCEPT ![d] = @ \cup {table'[d]}]
    /\ UNCHANGED <<lock, hash, ttl, local, overlapped, faults>>

-----------------------------------------------------------------------------

LookUp(t) == HGet(t) \/ Select(t) \/ HPut(t) \/ Expire(t)

Step(t) ==
    \/ LookUp(t)
    \/ Reject(t) \/ Accept(t) \/ Serve(t)
    \/ Check(t) \/ Ask(t) \/ Write(t) \/ Update(t) \/ Commit(t)

Next ==
    \/ \E t \in Threads : Begin(t) \/ Step(t) \/ BreakOff(t)
    \/ TimeOut
    \/ \E d \in Domains : Edit(d)

Spec == Init /\ [][Next]_vars

-----------------------------------------------------------------------------
(* Properties *)

(* What a thread holds at each place: a row where it is going to write one, *)
(* and the lock of the row from its update to the end of the transaction.   *)
ThreadOK(t) ==
    /\ pc[t] \in {"hput", "expire", "ask", "write", "update", "commit"}
          => config[t] # NoRow
    /\ pc[t] \in {"ask", "write", "update", "commit"}
          => t \in Verifiers /\ checked[t] /\ seen[t] # NoRow
    /\ \A d \in Domains : lock[d] = t <=> pc[t] = "commit" /\ domain[t] = d

TypeOK ==
    /\ table \in [Domains -> Rows \cup {NoRow}]
    /\ lock \in [Domains -> Threads \cup {NoThread}]
    /\ hash \in [Domains -> Rows \cup {NoRow}]
    /\ ttl \in BOOLEAN
    /\ pc \in [Threads -> PCs]
    /\ domain \in [Threads -> Domains]
    /\ checked \in [Threads -> BOOLEAN]
    /\ seen \in [Threads -> Rows \cup {NoRow}]
    /\ config \in [Threads -> Rows \cup {NoRow}]
    /\ past \in [Domains -> SUBSET (Rows \cup {NoRow})]
    /\ overlapped \in BOOLEAN
    /\ edits \in 0..MaxEdits
    /\ faults \in 0..MaxFaults
    /\ \A t \in Threads : ThreadOK(t)

(* The verification of d that t is about to store is in the hash already. *)
Storing(t, d) == domain[t] = d /\ pc[t] \in {"update", "commit"}

(* Unless a request breaks off, no lookup ever finds a row that the table  *)
(* has not held, except the one that a verification is about to store: a   *)
(* message is queued for no domain that was not enabled.                   *)
FoundWasStored ==
    faults = 0 =>
        \A d \in Domains :
            \/ hash[d] = NoRow
            \/ hash[d] \in past[d]
            \/ \E t \in Verifiers : Storing(t, d) /\ hash[d] = config[t]

(* A row in the hash that is not the one in the table goes away by itself, *)
(* unless a request broke off, two verifications of a domain overlapped or *)
(* others changed the table: it has a time to live or is about to get one, *)
(* or to be stored.                                                        *)
StaleExpires ==
    faults = 0 /\ edits = 0 /\ ~overlapped =>
        \A d \in Domains :
            hash[d] \notin {NoRow, table[d]} =>
                \/ ttl
                \/ \E t \in Threads : pc[t] = "expire" \/ Storing(t, d)
=============================================================================
