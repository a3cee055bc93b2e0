----------------------------- MODULE ParkMonitor -----------------------------
(***************************************************************************)
(* The monitoring of the parks' servers (MaintServiceImpl, SchedulerTask): *)
(* each minute at second 0 one job probes the parks and writes their       *)
(* states, the history of states and the failures; each minute at second   *)
(* 30 another job has epark send a text message about every park whose     *)
(* count of successive faults is five; each night a third one empties the  *)
(* history. The jobs run in threads of their own and none overlaps itself. *)
(* A round of probes is one database transaction.                          *)
(***************************************************************************)
EXTENDS Naturals, FiniteSets

CONSTANTS
    Parks,          \* the rows of third_park_info
    Monitored,      \* the parks with a state row, which others have entered
    Coded,          \* those whose row has the device code park_code + "_10"
    MaxFaults       \* bound: crashes, failed transactions, lost messages

ASSUME ConstantsAssumption ==
    /\ Monitored \subseteq Parks /\ Coded \subseteq Monitored
    /\ MaxFaults \in Nat

ALARM_AT == 5       \* WHERE t.continue_fault_num = 5

VARIABLES
    up,             \* whether the park's server can answer the probe
    half,           \* the second of the last job time, "00" or "30"
    running,        \* the open-epark process is up
    \* executeMonitorParkState
    round,          \* "idle", "due", "probing"
    todo,           \* the parks of configList still to be probed
    health,         \* parkStateMap, "unknown" for a park that is not in it
    \* executeSendDeviceFaultSms
    alarm,          \* "idle", "due", "send"
    message,        \* the parks in the text message
    \* the tables
    state,          \* maint_third_device_state: state code and fault count
    info,           \* maint_third_device_state_info: the newest row's code
    failure,        \* maint_third_device_failure: newest row, open rows
    \* history of the behaviour
    streak,         \* successive rounds written in which the park was not well
    alarms,         \* messages about the park since it was last well: 0, 1, 2
    overrun,        \* some job was still at work at the time of the next
    faults

tables == <<state, info, failure>>
monitor == <<round, todo, health>>
sms == <<alarm, message>>
ghosts == <<streak, alarms>>
vars == <<up, half, running, monitor, sms, tables, ghosts, overrun, faults>>

NoHealth == [p \in Parks |-> "unknown"]

(* The count is compared with ALARM_AT alone: above it is one value. *)
OneMore(n) == IF n > ALARM_AT THEN n ELSE n + 1
More(n) == IF n = 0 THEN 1 ELSE 2

Init ==
    /\ up \in [Parks -> BOOLEAN]
    /\ half = "30"
    /\ running = TRUE
    /\ round = "idle" /\ todo = {} /\ health = NoHealth
    /\ alarm = "idle" /\ message = {}
    /\ state = [p \in Parks |-> [code |-> IF p \in Monitored THEN "000" ELSE "none",
                                 num |-> 0]]
    /\ info = [p \in Parks |-> "none"]
    /\ failure = [p \in Parks |-> [newest |-> "none", open |-> 0]]
    /\ streak = [p \in Parks |-> 0]
    /\ alarms = [p \in Parks |-> 0]
    /\ overrun = FALSE
    /\ faults = 0

-----------------------------------------------------------------------------
(* The parks, the scheduler and the process *)

Flip(p) ==
    /\ up' = [up EXCEPT ![p] = ~@]
    /\ UNCHANGED <<half, running, monitor, sms, tables, ghosts, overrun, faults>>

(* The next job time: a job that is still at work misses its turn. *)
Tick ==
    /\ half' = IF half = "00" THEN "30" ELSE "00"
    /\ overrun' = (overrun \/ round # "idle" \/ alarm # "idle")
    /\ round' = IF half' = "00" /\ round = "idle" /\ running THEN "due" ELSE round
    /\ alarm' = IF half' = "30" /\ alarm = "idle" /\ running THEN "due" ELSE alarm
    /\ UNCHANGED <<up, running, todo, health, message, tables, ghosts, faults>>

Fault == faults < MaxFaults /\ faults' = faults + 1

Crash ==
    /\ running
    /\ Fault
    /\ running' = FALSE
    /\ round' = "idle" /\ todo' = {} /\ health' = NoHealth
    /\ alarm' = "idle" /\ message' = {}
    /\ UNCHANGED <<up, half, tables, ghosts, overrun>>

Restart ==
    /\ ~running
    /\ running' = TRUE
    /\ UNCHANGED <<up, half, monitor, sms, tables, ghosts, overrun, faults>>

-----------------------------------------------------------------------------
(* executeMonitorParkState *)

(* queryAllDevConfig: the parks that are bound to a domain just now *)
BeginRound ==
    /\ round = "due"
    /\ round' = "probing"
    /\ \E bound \in SUBSET Parks : todo' = bound
    /\ UNCHANGED <<up, half, running, health, sms, tables, ghosts, overrun, faults>>

(* A GET with 200 ms to answer "success": one that is up may be too slow. *)
Probe(p) ==
    /\ round = "probing"
    /\ p \in todo
    /\ todo' = todo \ {p}
    /\ \E h \in {"fail"} \cup (IF up[p] THEN {"success"} ELSE {}) :
          health' = [health EXCEPT ![p] = h]
    /\ UNCHANGED <<up, half, running, round, sms, tables, ghosts, overrun, faults>>

(* queryAllThirdParkStateInfo: the WHERE on the joined table leaves out the *)
(* parks without a state row.                                               *)
Queried == {p \in Parks : state[p].code # "none"}

Well(p) == health[p] = "success"

(* Mutated form of Differs: the code of the row is translated first. *)
DiffersInMeaning(p) ==
    health[p] = "unknown" \/ (state[p].code = "000" <=> ~Well(p))

(* The code of the row is compared with the word for the probe's result. *)
Differs(p) == health[p] = "unknown" \/ state[p].code # health[p]

Code(p) == IF Well(p) THEN "000" ELSE "001"

StateAfter(p) ==
    [code |-> Code(p), num |-> IF Well(p) THEN 0 ELSE OneMore(state[p].num)]

(* The newest failure is looked for under the device code of the state row, *)
(* while failures are inserted under park_code + "_10": with a row of       *)
(* another code none is ever found.                                         *)
Newest(p) == IF p \in Coded THEN failure[p].newest ELSE "none"

Opened(p) == [newest |-> "9901", open |-> More(failure[p].open)]
Closed(p) == [newest |-> "9902", open |-> failure[p].open - 1]

(* Mutated forms of FailureAfter: a park outside the map is passed over; a *)
(* failure is inserted in every round; one that is closed is closed again. *)
FailureIfProbed(p) ==
    CASE health[p] = "fail" /\ Newest(p) # "9901" -> Opened(p)
      [] Well(p) /\ Newest(p) = "9901" -> Closed(p)
      [] OTHER -> failure[p]

FailureEachRound(p) ==
    CASE ~Well(p) -> Opened(p)
      [] Well(p) /\ Newest(p) = "9901" -> Closed(p)
      [] OTHER -> failure[p]

FailureClosedTwice(p) ==
    CASE ~Well(p) /\ Newest(p) # "9901" -> Opened(p)
      [] Well(p) /\ Newest(p) # "none" -> Closed(p)
      [] OTHER -> failure[p]

(* A failure is opened ("9901") for a park that is not well and has none   *)
(* open, and closed ("9902") for one that is well again, as far as the     *)
(* newest failure that is found tells.                                     *)
FailureAfter(p) ==
    CASE ~Well(p) /\ Newest(p) # "9901" -> Opened(p)
      [] Well(p) /\ Newest(p) = "9901" -> Closed(p)
      [] OTHER -> failure[p]

(* Everything is probed: the tables are written and committed. *)
CommitRound ==
    /\ round = "probing"
    /\ todo = {}
    /\ state' = [p \in Parks |-> IF p \in Queried /\ Differs(p) THEN StateAfter(p)
                                 ELSE state[p]]
    /\ info' = [p \in Parks |-> IF p \in Queried /\ Differs(p) THEN Code(p)
                                ELSE info[p]]
    /\ failure' = [p \in Parks |-> IF p \in Queried THEN FailureAfter(p)
                                   ELSE failure[p]]
    /\ streak' = [p \in Parks |-> IF p \notin Queried \/ Well(p) THEN 0
                                  ELSE OneMore(streak[p])]
    /\ alarms' = [p \in Parks |-> IF Well(p) THEN 0 ELSE alarms[p]]
    /\ round' = "idle" /\ health' = NoHealth
    /\ UNCHANGED <<up, half, running, todo, sms, overrun, faults>>

(* A failing statement or commit: the transaction is rolled back. *)
AbortRound ==
    /\ round # "idle"
    /\ Fault
    /\ round' = "idle" /\ todo' = {} /\ health' = NoHealth
    /\ UNCHANGED <<up, half, running, sms, tables, ghosts, overrun>>

-----------------------------------------------------------------------------
(* executeSendDeviceFaultSms and executeTruncateMaintThirdDeviceStateInfo *)

(* Mutated form of Alarming: the count has reached ALARM_AT. *)
AlarmingSince == {p \in Parks : state[p].num >= ALARM_AT}

(* queryMaintThirdDeviceStateByContinuFaultNum *)
Alarming == {p \in Parks : state[p].num = ALARM_AT}

(* Without such a park no message is sent. *)
ReadFaults ==
    /\ alarm = "due"
    /\ message' = Alarming
    /\ alarm' = IF message' = {} THEN "idle" ELSE "send"
    /\ UNCHANGED <<up, half, running, monitor, tables, ghosts, overrun, faults>>

(* HttpClientUtil.sendHttpPost reports no failure: the message is received *)
(* or lost, and the job ends.                                              *)
Send ==
    /\ alarm = "send"
    /\ \/ /\ alarms' = [p \in Parks |-> IF p \in message THEN More(alarms[p])
                                        ELSE alarms[p]]
          /\ UNCHANGED faults
       \/ Fault /\ UNCHANGED alarms
    /\ alarm' = "idle" /\ message' = {}
    /\ UNCHANGED <<up, half, running, monitor, tables, streak, overrun>>

(* The query fails. *)
AbortAlarm ==
    /\ alarm = "due"
    /\ Fault
    /\ alarm' = "idle"
    /\ UNCHANGED <<up, half, running, message, monitor, tables, ghosts, overrun>>

Truncate ==
    /\ running
    /\ info' = [p \in Parks |-> "none"]
    /\ UNCHANGED <<up, half, running, monitor, sms, state, failure, ghosts,
                   overrun, faults>>

-----------------------------------------------------------------------------

Next ==
    \/ Tick \/ Crash \/ Restart
    \/ BeginRound \/ CommitRound \/ AbortRound
    \/ ReadFaults \/ Send \/ AbortAlarm \/ Truncate
    \/ \E p \in Parks : Flip(p) \/ Probe(p)

Spec == Init /\ [][Next]_vars

(* Time passes, the jobs run, and an operator starts what is down. *)
Fairness ==
    /\ WF_vars(Tick) /\ WF_vars(Restart)
    /\ WF_vars(BeginRound) /\ WF_vars(CommitRound)
    /\ \A p \in Parks : WF_vars(Probe(p))
    /\ WF_vars(ReadFaults) /\ WF_vars(Send)

FairSpec == Spec /\ Fairness

-----------------------------------------------------------------------------
(* Properties *)

TypeOK ==
    /\ up \in [Parks -> BOOLEAN]
    /\ half \in {"00", "30"}
    /\ running \in BOOLEAN
    /\ round \in {"idle", "due", "probing"}
    /\ todo \in SUBSET Parks
    /\ health \in [Parks -> {"unknown", "success", "fail"}]
    /\ alarm \in {"idle", "due", "send"}
    /\ message \in SUBSET Parks
    /\ state \in [Parks -> [code : {"none", "000", "001"}, num : 0..(ALARM_AT + 1)]]
    /\ info \in [Parks -> {"none", "000", "001"}]
    /\ failure \in [Parks -> [newest : {"none", "9901", "9902"}, open : 0..2]]
    /\ streak \in [Parks -> 0..(ALARM_AT + 1)]
    /\ alarms \in [Parks -> 0..2]
    /\ overrun \in BOOLEAN
    /\ faults \in 0..MaxFaults

(* The three tables tell the same story of a park, whatever crashes, fails *)
(* or is truncated: the history ends with the state of the row and, if the *)
(* row has the device code under which failures are inserted, a failure is *)
(* open exactly while the row says so and there is never a second one. For *)
(* a row of another code every bad round opens one more and none is closed.*)
TablesAgree ==
    /\ \A p \in Coded :
          /\ failure[p].newest = "9901" <=> state[p].code = "001"
          /\ failure[p].open = IF state[p].code = "001" THEN 1 ELSE 0
    /\ \A p \in Parks : info[p] \in {"none", state[p].code}

(* The stored count is the number of successive rounds in which the park   *)
(* was not well, a park that is not bound to any domain included.          *)
CountIsStreak == \A p \in Parks : state[p].num = streak[p]

(* As long as nothing fails and every job ends before the next begins, a   *)
(* run of faults is reported once it has length five and never again; one  *)
(* that is shorter is not reported.                                        *)
AlarmedOnceWhenSteady ==
    faults = 0 /\ ~overrun =>
        \A p \in Parks : /\ streak[p] < ALARM_AT => alarms[p] = 0
                         /\ streak[p] = ALARM_AT => alarms[p] <= 1
                         /\ streak[p] > ALARM_AT => alarms[p] = 1

(* A monitored park that stays down has an open failure in the end. *)
DownIsRecorded ==
    \A p \in Monitored : <>[](~up[p]) => <>[](failure[p].newest = "9901")

(* A monitored park that stays down is reported if all goes in steady pace. *)
LongOutageReported ==
    \A p \in Monitored :
        <>[](~up[p]) => <>[](alarms[p] = 1) \/ <>(overrun \/ faults > 0)

(* ThirdParkInfoMapper.xml says of queryAllThirdParkStateInfo that it gives *)
(* all parks: once a round has been written every park has a state row.     *)
AllParksMonitored ==
    (\E p \in Parks : info[p] # "none") => \A p \in Parks : state[p].code # "none"
=============================================================================
