-------------------------- MODULE ParkMonitorProofs --------------------------
(***************************************************************************)
(* Theorems about ParkMonitor for every set of parks, every set of state   *)
(* rows and every number of faults. The last two are about outages that    *)
(* last, on condition that rounds of probes go on being written.           *)
(***************************************************************************)
EXTENDS ParkMonitor, TLAPS

Codes == {"none", "000", "001"}
Counts == 0..(ALARM_AT + 1)

(* CountIsStreak is not inductive: a row that does not exist counts none. *)
NoRowNoCount == \A p \in Parks : state[p].code = "none" => state[p].num = 0

TableInv == TypeOK /\ TablesAgree /\ CountIsStreak /\ NoRowNoCount

-----------------------------------------------------------------------------
(* The codes of the state table and the words of the probe never coincide, *)
(* so that every round writes every queried park.                          *)
LEMMA AlwaysDiffers == ASSUME TypeOK, NEW p \in Parks PROVE Differs(p)
<1>1. /\ state[p].code \in {"none", "000", "001"}
      /\ health[p] \in {"unknown", "success", "fail"}
  BY DEF TypeOK
<1>2. QED  BY <1>1 DEF Differs

(* One fault more stays within the values that are told apart. *)
LEMMA OneMoreCounts == ASSUME NEW n \in Counts PROVE OneMore(n) \in Counts
BY DEF OneMore, Counts, ALARM_AT

(* One alarm or one open failure more stays within its type. *)
LEMMA MoreCounts == ASSUME NEW n PROVE More(n) \in 1..2
BY DEF More

(* The tables as created agree with one another. *)
LEMMA TableInit == Init => TableInv
<1> SUFFICES ASSUME Init PROVE TableInv
  OBVIOUS
<1>1. TypeOK
  <2>1. state \in [Parks -> [code : Codes, num : Counts]]
    <3>1. ASSUME NEW p \in Parks
          PROVE  [code |-> IF p \in Monitored THEN "000" ELSE "none", num |-> 0]
                     \in [code : Codes, num : Counts]
      <4>1. (IF p \in Monitored THEN "000" ELSE "none") \in Codes  BY DEF Codes
      <4>2. 0 \in Counts  BY DEF Counts, ALARM_AT
      <4>3. QED  BY <4>1, <4>2
    <3>2. QED  BY <3>1 DEF Init
  <2>2. failure \in [Parks -> [newest : {"none", "9901", "9902"}, open : 0..2]]
    BY DEF Init
  <2>3. /\ streak \in [Parks -> 0..(ALARM_AT + 1)] /\ alarms \in [Parks -> 0..2]
        /\ info \in [Parks -> {"none", "000", "001"}]
        /\ health \in [Parks -> {"unknown", "success", "fail"}]
    BY DEF Init, NoHealth, ALARM_AT
  <2>4. faults \in 0..MaxFaults  BY ConstantsAssumption DEF Init
  <2>5. QED  BY <2>1, <2>2, <2>3, <2>4 DEF Init, TypeOK, Codes, Counts
<1>2. TablesAgree /\ CountIsStreak /\ NoRowNoCount
  BY ConstantsAssumption DEF Init, TablesAgree, CountIsStreak, NoRowNoCount
<1>3. QED  BY <1>1, <1>2 DEF TableInv

(* What a written round makes of one park, given that the tables agreed. *)
LEMMA CommitOne ==
    ASSUME TableInv, CommitRound, NEW p \in Parks
    PROVE  /\ state'[p] \in [code : Codes, num : Counts]
           /\ failure'[p] \in [newest : {"none", "9901", "9902"}, open : 0..2]
           /\ info'[p] \in Codes
           /\ streak'[p] \in Counts
           /\ alarms'[p] \in 0..2
           /\ p \in Coded =>
                 /\ failure'[p].newest = "9901" <=> state'[p].code = "001"
                 /\ failure'[p].open = IF state'[p].code = "001" THEN 1 ELSE 0
           /\ info'[p] \in {"none", state'[p].code}
           /\ state'[p].num = streak'[p]
           /\ state'[p].code = "none" => state'[p].num = 0
<1>a. /\ state[p] \in [code : Codes, num : Counts]
      /\ failure[p] \in [newest : {"none", "9901", "9902"}, open : 0..2]
      /\ info[p] \in Codes /\ streak[p] \in Counts /\ alarms[p] \in 0..2
      /\ p \in Coded =>
            /\ failure[p].newest = "9901" <=> state[p].code = "001"
            /\ failure[p].open = IF state[p].code = "001" THEN 1 ELSE 0
      /\ info[p] \in {"none", state[p].code}
      /\ state[p].num = streak[p]
      /\ state[p].code = "none" => state[p].num = 0
  BY DEF TableInv, TypeOK, TablesAgree, CountIsStreak, NoRowNoCount, Codes, Counts
<1>b. Differs(p)  BY AlwaysDiffers DEF TableInv
<1>c. alarms'[p] \in 0..2  BY <1>a DEF CommitRound
<1>1. CASE p \notin Queried
  <2>1. state'[p] = state[p] /\ info'[p] = info[p] /\ failure'[p] = failure[p]
        /\ streak'[p] = 0
    BY <1>1 DEF CommitRound
  <2>2. state[p].code = "none"  BY <1>1 DEF Queried
  <2>3. QED  BY <1>a, <1>c, <2>1, <2>2
<1>2. CASE p \in Queried
  <2>1. /\ state'[p] = StateAfter(p) /\ info'[p] = Code(p)
        /\ failure'[p] = FailureAfter(p)
        /\ streak'[p] = IF Well(p) THEN 0 ELSE OneMore(streak[p])
    BY <1>2, <1>b DEF CommitRound
  <2>2. OneMore(streak[p]) \in Counts  BY <1>a, OneMoreCounts
  <2>3. CASE Well(p)
    <3>1. /\ state'[p] = [code |-> "000", num |-> 0]
          /\ info'[p] = "000" /\ streak'[p] = 0
      BY <2>1, <2>3 DEF StateAfter, Code
    <3>2. 0 \in Counts /\ "000" \in Codes  BY DEF Counts, Codes, ALARM_AT
    <3>3. failure'[p] = IF p \in Coded /\ failure[p].newest = "9901"
                        THEN [newest |-> "9902", open |-> failure[p].open - 1]
                        ELSE failure[p]
      BY <2>1, <2>3 DEF FailureAfter, Newest, Closed
    <3>4. /\ p \in Coded => failure'[p].newest # "9901" /\ failure'[p].open = 0
          /\ failure'[p] \in [newest : {"none", "9901", "9902"}, open : 0..2]
      BY <1>a, <3>3
    <3>5. QED  BY <1>c, <3>1, <3>2, <3>4
  <2>4. CASE ~Well(p)
    <3>1. /\ state'[p] = [code |-> "001", num |-> OneMore(state[p].num)]
          /\ info'[p] = "001" /\ streak'[p] = OneMore(streak[p])
      BY <2>1, <2>4 DEF StateAfter, Code
    <3>2. "001" \in Codes  BY DEF Codes
    <3>3. failure'[p] = IF p \notin Coded \/ failure[p].newest # "9901"
                        THEN [newest |-> "9901", open |-> More(failure[p].open)]
                        ELSE failure[p]
      BY <2>1, <2>4 DEF FailureAfter, Newest, Opened
    <3>4. /\ p \in Coded => failure'[p].newest = "9901" /\ failure'[p].open = 1
          /\ failure'[p] \in [newest : {"none", "9901", "9902"}, open : 0..2]
      BY <1>a, <3>3 DEF More
    <3>5. QED  BY <1>a, <1>c, <2>2, <3>1, <3>2, <3>4
  <2>5. QED  BY <2>3, <2>4
<1>3. QED  BY <1>1, <1>2

(* Every step keeps the types and the agreement of the tables. *)
LEMMA TableStep == TableInv /\ [Next]_vars => TableInv'
<1> SUFFICES ASSUME TableInv, [Next]_vars PROVE TableInv'
  OBVIOUS
<1> USE ConstantsAssumption DEF tables, monitor, sms, ghosts
<1>a. TypeOK /\ TablesAgree /\ CountIsStreak /\ NoRowNoCount  BY DEF TableInv
<1>b. ASSUME TypeOK', UNCHANGED <<state, failure, streak>>,
             info' = info \/ info' = [p \in Parks |-> "none"]
      PROVE  TableInv'
  BY <1>a, <1>b DEF TableInv, TablesAgree, CountIsStreak, NoRowNoCount
<1>c. ASSUME Fault PROVE faults' \in 0..MaxFaults
  BY <1>a, <1>c DEF Fault, TypeOK
<1>d. NoHealth \in [Parks -> {"unknown", "success", "fail"}]  BY DEF NoHealth
<1>1. CASE UNCHANGED vars
  <2>1. TypeOK'  BY <1>1, <1>a DEF vars, TypeOK
  <2>2. QED  BY <1>1, <2>1, <1>b DEF vars
<1>2. CASE Tick
  <2>1. TypeOK'  BY <1>2, <1>a DEF Tick, TypeOK
  <2>2. QED  BY <1>2, <2>1, <1>b DEF Tick
<1>3. CASE Crash
  <2>1. TypeOK'  BY <1>3, <1>a, <1>c, <1>d DEF Crash, TypeOK
  <2>2. QED  BY <1>3, <2>1, <1>b DEF Crash
<1>4. CASE Restart
  <2>1. TypeOK'  BY <1>4, <1>a DEF Restart, TypeOK
  <2>2. QED  BY <1>4, <2>1, <1>b DEF Restart
<1>5. CASE BeginRound
  <2>1. TypeOK'  BY <1>5, <1>a DEF BeginRound, TypeOK
  <2>2. QED  BY <1>5, <2>1, <1>b DEF BeginRound
<1>6. CASE CommitRound
  <2>1. /\ state' \in [Parks -> [code : Codes, num : Counts]]
        /\ failure' \in [Parks -> [newest : {"none", "9901", "9902"}, open : 0..2]]
        /\ info' \in [Parks -> Codes]
        /\ streak' \in [Parks -> Counts]
        /\ alarms' \in [Parks -> 0..2]
    <3>1. /\ state' = [p \in Parks |-> state'[p]]
          /\ failure' = [p \in Parks |-> failure'[p]]
          /\ info' = [p \in Parks |-> info'[p]]
          /\ streak' = [p \in Parks |-> streak'[p]]
          /\ alarms' = [p \in Parks |-> alarms'[p]]
      BY <1>6 DEF CommitRound
    <3> HIDE DEF tables, monitor, sms, ghosts
    <3>2. \A p \in Parks : /\ state'[p] \in [code : Codes, num : Counts]
                           /\ failure'[p] \in [newest : {"none", "9901", "9902"},
                                               open : 0..2]
                           /\ info'[p] \in Codes
                           /\ streak'[p] \in Counts
                           /\ alarms'[p] \in 0..2
      BY <1>6, CommitOne
    <3>3. QED  BY <3>1, <3>2
  <2>2. TypeOK'
    BY <1>6, <1>a, <1>d, <2>1 DEF CommitRound, TypeOK, Codes, Counts
  <2>3. TablesAgree'
    BY <1>6, CommitOne, ConstantsAssumption DEF TablesAgree
  <2>4. CountIsStreak' /\ NoRowNoCount'
    BY <1>6, CommitOne DEF CountIsStreak, NoRowNoCount
  <2>5. QED  BY <2>2, <2>3, <2>4 DEF TableInv
<1>7. CASE AbortRound
  <2>1. TypeOK'  BY <1>7, <1>a, <1>c, <1>d DEF AbortRound, TypeOK
  <2>2. QED  BY <1>7, <2>1, <1>b DEF AbortRound
<1>8. CASE ReadFaults
  <2>1. TypeOK'  BY <1>8, <1>a DEF ReadFaults, Alarming, TypeOK
  <2>2. QED  BY <1>8, <2>1, <1>b DEF ReadFaults
<1>9. CASE Send
  <2>1. alarms' \in [Parks -> 0..2]
    BY <1>9, <1>a DEF Send, More, TypeOK
  <2>2. faults' \in 0..MaxFaults  BY <1>9, <1>a, <1>c DEF Send, TypeOK
  <2>3. TypeOK'  BY <1>9, <1>a, <2>1, <2>2 DEF Send, TypeOK
  <2>4. QED  BY <1>9, <2>3, <1>b DEF Send
<1>10. CASE AbortAlarm
  <2>1. TypeOK'  BY <1>10, <1>a, <1>c DEF AbortAlarm, TypeOK
  <2>2. QED  BY <1>10, <2>1, <1>b DEF AbortAlarm
<1>11. CASE Truncate
  <2>1. TypeOK'  BY <1>11, <1>a DEF Truncate, TypeOK
  <2>2. QED  BY <1>11, <2>1, <1>b DEF Truncate
<1>12. ASSUME NEW p \in Parks, Flip(p) PROVE TableInv'
  <2>1. TypeOK'  BY <1>12, <1>a DEF Flip, TypeOK
  <2>2. QED  BY <1>12, <2>1, <1>b DEF Flip
<1>13. ASSUME NEW p \in Parks, Probe(p) PROVE TableInv'
  <2>1. TypeOK'  BY <1>13, <1>a DEF Probe, TypeOK
  <2>2. QED  BY <1>13, <2>1, <1>b DEF Probe
<1>14. QED
  BY <1>1, <1>2, <1>3, <1>4, <1>5, <1>6, <1>7, <1>8, <1>9, <1>10, <1>11, <1>12,
     <1>13 DEF Next

(* The invariant on the tables holds in every behaviour. *)
LEMMA TableInvariant == Spec => []TableInv
<1>1. QED  BY TableInit, TableStep, PTL DEF Spec

(* Every variable of the monitor keeps its type. *)
THEOREM MonitorTypeCorrect == Spec => []TypeOK
<1>1. TableInv => TypeOK  BY DEF TableInv
<1>2. QED  BY <1>1, TableInvariant, PTL

(* State and history of every park, and the failures of every park whose   *)
(* row has the device code of its failures, tell the same story under any  *)
(* crashes, roll-backs, missed turns and truncations.                      *)
THEOREM TablesAgreeHolds == Spec => []TablesAgree
<1>1. TableInv => TablesAgree  BY DEF TableInv
<1>2. QED  BY <1>1, TableInvariant, PTL

(* The stored count is the number of successive bad rounds. *)
THEOREM CountIsStreakHolds == Spec => []CountIsStreak
<1>1. TableInv => CountIsStreak  BY DEF TableInv
<1>2. QED  BY <1>1, TableInvariant, PTL

-----------------------------------------------------------------------------
(* One alarm for a long outage. The two jobs take turns as long as nothing *)
(* fails and no turn is missed: a count of five is seen by exactly one     *)
(* alarm round before the next round of probes ends it.                    *)
Steady == faults = 0 /\ ~overrun

(* Probing belongs to the first half of the minute, alarms to the second. *)
TurnsTaken ==
    /\ running
    /\ round # "idle" => half = "00"
    /\ alarm # "idle" => half = "30"
    /\ alarm = "send" => message = Alarming

(* Whether a park's outage has been reported yet, by its count and the time. *)
Paced(p) ==
    /\ state[p].num < ALARM_AT => alarms[p] = 0
    /\ state[p].num = ALARM_AT =>
          \/ alarms[p] = 0 /\ half = "00" /\ round = "idle"
          \/ alarms[p] = 0 /\ half = "30" /\ alarm # "idle"
          \/ alarms[p] = 1 /\ half = "30" /\ alarm = "idle"
          \/ alarms[p] = 1 /\ half = "00" /\ round # "idle"
    /\ state[p].num > ALARM_AT => alarms[p] = 1

PaceInv == Steady => TurnsTaken /\ \A p \in Parks : Paced(p)

(* The pace as the process starts. *)
LEMMA PaceInit == Init => PaceInv
BY DEF Init, PaceInv, TurnsTaken, Paced, ALARM_AT

(* A written round keeps the pace: it raises the count by one at most. *)
LEMMA PaceCommit == TableInv /\ PaceInv /\ CommitRound => PaceInv'
<1> SUFFICES ASSUME TableInv, PaceInv, CommitRound, Steady'
             PROVE  TurnsTaken' /\ \A p \in Parks : Paced(p)'
  BY DEF PaceInv
<1>1. Steady  BY DEF CommitRound, Steady
<1>2. TurnsTaken /\ \A p \in Parks : Paced(p)  BY <1>1 DEF PaceInv
<1>3. half = "00" /\ alarm = "idle" /\ round = "probing"
  BY <1>2 DEF TurnsTaken, CommitRound
<1>4. half' = "00" /\ alarm' = "idle" /\ round' = "idle" /\ running'
  BY <1>2, <1>3 DEF TurnsTaken, CommitRound, sms
<1>5. ASSUME NEW p \in Parks PROVE Paced(p)'
  <2>1. /\ state[p].num \in 0..6
        /\ state[p].code = "none" => state[p].num = 0
        /\ state \in [Parks -> [code : Codes, num : Counts]]
    BY DEF TableInv, TypeOK, NoRowNoCount, ALARM_AT, Codes, Counts
  <2>2. alarms'[p] = IF Well(p) THEN 0 ELSE alarms[p]  BY DEF CommitRound
  <2>3. CASE p \notin Queried
    <3>1. state'[p] = state[p] /\ state[p].num = 0
      BY <2>1, <2>3 DEF CommitRound, Queried
    <3>2. alarms[p] = 0  BY <1>2, <3>1 DEF Paced, ALARM_AT
    <3>3. QED  BY <2>2, <3>1, <3>2 DEF Paced, ALARM_AT
  <2>4. CASE p \in Queried
    <3>1. state'[p] = StateAfter(p)
      BY <2>4, AlwaysDiffers DEF CommitRound, TableInv
    <3>2. CASE Well(p)
      <4>1. state'[p].num = 0 /\ alarms'[p] = 0
        BY <2>2, <3>1, <3>2 DEF StateAfter
      <4>2. QED  BY <4>1 DEF Paced, ALARM_AT
    <3>3. CASE ~Well(p)
      <4>1. state'[p].num = OneMore(state[p].num) /\ alarms'[p] = alarms[p]
        BY <2>2, <3>1, <3>3 DEF StateAfter
      <4>2. CASE state[p].num < 5
        <5>1. alarms[p] = 0 /\ state'[p].num = state[p].num + 1
          BY <1>2, <2>1, <4>1, <4>2 DEF Paced, ALARM_AT, OneMore
        <5>2. QED  BY <1>4, <2>1, <4>1, <4>2, <5>1 DEF Paced, ALARM_AT
      <4>3. CASE state[p].num \in {5, 6}
        <5>1. alarms[p] = 1 /\ state'[p].num = 6
          BY <1>2, <1>3, <4>1, <4>3 DEF Paced, ALARM_AT, OneMore
        <5>2. QED  BY <4>1, <5>1 DEF Paced, ALARM_AT
      <4>4. QED  BY <2>1, <4>2, <4>3
    <3>4. QED  BY <3>2, <3>3
  <2>5. QED  BY <2>3, <2>4
<1>6. QED  BY <1>4, <1>5 DEF TurnsTaken

(* Every other step keeps it too. *)
LEMMA PaceStep == TableInv /\ PaceInv /\ [Next]_vars => PaceInv'
<1> SUFFICES ASSUME TableInv, PaceInv, [Next]_vars, Steady'
             PROVE  TurnsTaken' /\ \A p \in Parks : Paced(p)'
  BY DEF PaceInv
<1> USE DEF tables, monitor, sms, ghosts
<1>t. TypeOK  BY DEF TableInv
<1>f. ASSUME Fault PROVE FALSE
  BY <1>f, <1>t, ConstantsAssumption DEF Fault, Steady, TypeOK
<1>p. ASSUME Steady PROVE TurnsTaken /\ \A p \in Parks : Paced(p)
  BY <1>p DEF PaceInv
<1>u. ASSUME UNCHANGED <<half, running, alarm, message, state, alarms, overrun, faults>>,
             round' = round \/ (round # "idle" /\ round' # "idle")
      PROVE  TurnsTaken' /\ \A p \in Parks : Paced(p)'
  <2>1. Steady  BY <1>u DEF Steady
  <2>2. Alarming' = Alarming  BY <1>u DEF Alarming
  <2>3. QED  BY <1>p, <1>u, <2>1, <2>2 DEF TurnsTaken, Paced
<1>1. CASE UNCHANGED vars  BY <1>1, <1>u DEF vars
<1>2. CASE Tick
  <2>1. Steady /\ round = "idle" /\ alarm = "idle"  BY <1>2 DEF Tick, Steady
  <2>2. TurnsTaken /\ \A p \in Parks : Paced(p)  BY <2>1, <1>p
  <2>3. CASE half = "00"
    <3>1. half' = "30" /\ round' = "idle" /\ alarm' = "due"
      BY <1>2, <2>1, <2>2, <2>3 DEF Tick, TurnsTaken
    <3>2. QED  BY <1>2, <2>1, <2>2, <2>3, <3>1 DEF Tick, TurnsTaken, Paced, ALARM_AT
  <2>4. CASE half = "30"
    <3>1. half' = "00" /\ round' = "due" /\ alarm' = "idle"
      BY <1>2, <2>1, <2>2, <2>4 DEF Tick, TurnsTaken
    <3>2. QED  BY <1>2, <2>1, <2>2, <2>4, <3>1 DEF Tick, TurnsTaken, Paced, ALARM_AT
  <2>5. QED  BY <1>t, <2>3, <2>4 DEF TypeOK
<1>3. CASE Crash  BY <1>3, <1>f DEF Crash
<1>4. CASE Restart
  <2>1. Steady /\ ~running  BY <1>4 DEF Restart, Steady
  <2>2. QED  BY <1>p, <2>1 DEF TurnsTaken
<1>5. CASE BeginRound  BY <1>5, <1>u DEF BeginRound
<1>6. CASE CommitRound  BY <1>6, PaceCommit DEF PaceInv
<1>7. CASE AbortRound  BY <1>7, <1>f DEF AbortRound
<1>8. CASE ReadFaults
  <2>1. Steady  BY <1>8 DEF ReadFaults, Steady
  <2>2. TurnsTaken /\ \A p \in Parks : Paced(p)  BY <2>1, <1>p
  <2>3. half = "30" /\ half' = "30"  BY <1>8, <2>2 DEF ReadFaults, TurnsTaken
  <2>4. message' = Alarming /\ Alarming' = Alarming  BY <1>8 DEF ReadFaults, Alarming
  <2>5. TurnsTaken'  BY <1>8, <2>2, <2>3, <2>4 DEF ReadFaults, TurnsTaken
  <2>6. ASSUME NEW p \in Parks PROVE Paced(p)'
    <3>1. state[p].num = ALARM_AT => alarm' = "send"
      BY <1>8 DEF ReadFaults, Alarming
    <3>2. QED  BY <1>8, <2>2, <2>3, <3>1 DEF ReadFaults, Paced
  <2>7. QED  BY <2>5, <2>6
<1>9. CASE Send
  <2>1. Steady /\ alarms' = [p \in Parks |-> IF p \in message THEN More(alarms[p])
                                             ELSE alarms[p]]
    BY <1>9, <1>f DEF Send, Steady
  <2>2. TurnsTaken /\ \A p \in Parks : Paced(p)  BY <2>1, <1>p
  <2>3. half = "30" /\ half' = "30" /\ message = Alarming
    BY <1>9, <2>2 DEF Send, TurnsTaken
  <2>4. TurnsTaken'  BY <1>9, <2>2, <2>3 DEF Send, TurnsTaken
  <2>5. ASSUME NEW p \in Parks PROVE Paced(p)'
    <3>1. CASE state[p].num = ALARM_AT
      <4>1. alarms[p] = 0 /\ p \in message
        BY <1>9, <2>2, <2>3, <3>1 DEF Send, Paced, Alarming, ALARM_AT
      <4>2. alarms'[p] = 1  BY <2>1, <4>1 DEF More
      <4>3. QED  BY <1>9, <2>3, <3>1, <4>2 DEF Send, Paced, ALARM_AT
    <3>2. CASE state[p].num # ALARM_AT
      <4>1. alarms'[p] = alarms[p]  BY <2>1, <2>3, <3>2 DEF Alarming
      <4>2. QED  BY <1>9, <2>2, <3>2, <4>1 DEF Send, Paced
    <3>3. QED  BY <3>1, <3>2
  <2>6. QED  BY <2>4, <2>5
<1>10. CASE AbortAlarm  BY <1>10, <1>f DEF AbortAlarm
<1>11. CASE Truncate  BY <1>11, <1>u DEF Truncate
<1>12. ASSUME NEW p \in Parks, Flip(p) PROVE TurnsTaken' /\ \A q \in Parks : Paced(q)'
  BY <1>12, <1>u DEF Flip
<1>13. ASSUME NEW p \in Parks, Probe(p) PROVE TurnsTaken' /\ \A q \in Parks : Paced(q)'
  BY <1>13, <1>u DEF Probe
<1>14. QED
  BY <1>1, <1>2, <1>3, <1>4, <1>5, <1>6, <1>7, <1>8, <1>9, <1>10, <1>11, <1>12,
     <1>13 DEF Next

(* While nothing fails and no job misses its turn, each outage of any park *)
(* is reported once when its fifth bad round is written, and never again.  *)
THEOREM AlarmedOnceHolds == Spec => []AlarmedOnceWhenSteady
<1>1. TableInv /\ PaceInv => AlarmedOnceWhenSteady
  <2> SUFFICES ASSUME TableInv, PaceInv, Steady, NEW p \in Parks
               PROVE  /\ streak[p] < ALARM_AT => alarms[p] = 0
                      /\ streak[p] = ALARM_AT => alarms[p] <= 1
                      /\ streak[p] > ALARM_AT => alarms[p] = 1
    BY DEF AlarmedOnceWhenSteady, Steady
  <2>1. state[p].num = streak[p]  BY DEF TableInv, CountIsStreak
  <2>2. Paced(p)  BY DEF PaceInv
  <2>3. QED  BY <2>1, <2>2 DEF Paced
<1>2. QED  BY <1>1, TableInvariant, PaceInit, PaceStep, PTL DEF Spec

-----------------------------------------------------------------------------
(* Outages are recorded and reported *)

(* The rounds go on: again and again one of them is written to the end.    *)
(* Fairness gives it, for only finitely many rounds can be broken off, and *)
(* only a lasting failure of the database or of the process denies it.     *)
RoundsGoOn == []<><<CommitRound>>_vars

(* A park with a state row, in the table and in what the last probe says.  *)
Rowed(p) == state[p].code # "none"
Recorded(p) == failure[p].newest = "9901"

(* Only a round that is written touches the states, the failures and, with *)
(* it, the alarms of a park that is well.                                  *)
LEMMA OnlyCommits ==
    TypeOK /\ [Next]_vars =>
        \/ CommitRound
        \/ UNCHANGED <<state, failure, streak>>
<1> USE DEF tables, monitor, sms, ghosts
<1> SUFFICES ASSUME TypeOK, [Next]_vars, ~CommitRound
             PROVE  UNCHANGED <<state, failure, streak>>
  OBVIOUS
<1>1. CASE Tick \/ Crash \/ Restart \/ BeginRound \/ AbortRound \/ UNCHANGED vars
  BY <1>1 DEF Tick, Crash, Restart, BeginRound, AbortRound, vars
<1>2. CASE ReadFaults \/ Send \/ AbortAlarm \/ Truncate
  BY <1>2 DEF ReadFaults, Send, AbortAlarm, Truncate
<1>3. ASSUME NEW p \in Parks, Flip(p) \/ Probe(p)
      PROVE  UNCHANGED <<state, failure, streak>>
  BY <1>3 DEF Flip, Probe
<1>4. QED  BY <1>1, <1>2, <1>3 DEF Next

(* What a written round does to a park with a row that was not found well. *)
LEMMA CommitUnwell ==
    ASSUME TypeOK, NEW p \in Parks, Rowed(p), ~Well(p), CommitRound
    PROVE  /\ Recorded(p)'
           /\ state'[p].num = OneMore(state[p].num)
<1>1. p \in Queried /\ Differs(p)  BY AlwaysDiffers DEF Queried, Rowed
<1>2. failure'[p] = FailureAfter(p) /\ state'[p] = StateAfter(p)
  BY <1>1 DEF CommitRound
<1>3. FailureAfter(p).newest = "9901"  BY DEF FailureAfter, Newest, Opened
<1>4. QED  BY <1>2, <1>3 DEF Recorded, StateAfter

(* A row stays: nothing of the program deletes one. *)
LEMMA RowStays ==
    ASSUME NEW p \in Parks
    PROVE  TypeOK /\ Rowed(p) /\ [Next]_vars => Rowed(p)'
<1> SUFFICES ASSUME TypeOK, Rowed(p), [Next]_vars PROVE Rowed(p)'
  OBVIOUS
<1>1. CASE CommitRound
  BY <1>1, AlwaysDiffers DEF CommitRound, Rowed, Queried, StateAfter, Code
<1>2. QED  BY <1>1, OnlyCommits DEF Rowed

(* A park that is down is not found well, once a round has begun anew ...  *)
LEMMA DownIsUnwell ==
    ASSUME NEW p \in Parks, TypeOK, ~up[p], [Next]_vars
    PROVE  /\ ~Well(p) => ~Well(p)'
           /\ CommitRound => ~Well(p)'
<1> USE DEF tables, monitor, sms, ghosts
<1>1. CASE CommitRound \/ Crash \/ AbortRound
  BY <1>1 DEF CommitRound, Crash, AbortRound, NoHealth, Well
<1>2. CASE UNCHANGED health
  BY <1>2 DEF Well, CommitRound, NoHealth
<1>3. ASSUME NEW q \in Parks, Probe(q) PROVE ~Well(p) => ~Well(p)'
  BY <1>3 DEF Probe, Well, TypeOK
<1>4. ASSUME NEW q \in Parks, Probe(q) PROVE ~CommitRound
  BY <1>4 DEF Probe, CommitRound
<1>5. ASSUME NEW q \in Parks, Flip(q) PROVE UNCHANGED health
  BY <1>5 DEF Flip
<1>6. CASE Tick \/ Restart \/ BeginRound \/ ReadFaults \/ Send \/ AbortAlarm \/ Truncate
  <2>1. UNCHANGED health
    BY <1>6 DEF Tick, Restart, BeginRound, ReadFaults, Send, AbortAlarm, Truncate
  <2>2. QED  BY <1>2, <2>1
<1>7. CASE UNCHANGED vars  BY <1>2, <1>7 DEF vars
<1>8. QED  BY <1>1, <1>2, <1>3, <1>4, <1>5, <1>6, <1>7 DEF Next

(* A failure that is open stays open while the park is not found well. *)
LEMMA RecordedStays ==
    ASSUME NEW p \in Parks, TypeOK, Rowed(p), ~Well(p), Recorded(p), [Next]_vars
    PROVE  Recorded(p)'
BY OnlyCommits, CommitUnwell DEF Recorded

(* As long as rounds go on, a monitored park that stays down has an open    *)
(* failure in the end: the first round begun after it went down writes it. *)
THEOREM OutageRecorded == Spec /\ RoundsGoOn => DownIsRecorded
<1>1. ASSUME NEW p \in Monitored
      PROVE  Spec /\ RoundsGoOn => (<>[](~up[p]) => <>[](failure[p].newest = "9901"))
  <2> DEFINE Down == ~up[p]
             Unwell == ~Well(p)
             Row == TypeOK /\ Rowed(p)
             Open == Recorded(p)
  <2>0. p \in Parks  BY ConstantsAssumption
  <2>1. Init => Row
    BY <2>0, TableInit DEF Init, Rowed, TableInv
  <2>2. Row /\ TypeOK' /\ [Next]_vars => Row'
    BY <2>0, RowStays
  <2>3. Row /\ Down /\ [Next]_vars => (Unwell => Unwell')
    BY <2>0, DownIsUnwell
  <2>4. Row /\ Down /\ <<CommitRound>>_vars => Unwell'
    BY <2>0, DownIsUnwell DEF Next
  <2>5. Row /\ Unwell /\ [Next]_vars => (Open => Open')
    BY <2>0, RecordedStays
  <2>6. Row /\ Unwell /\ <<CommitRound>>_vars => Open'
    BY <2>0, CommitUnwell
  <2> HIDE DEF Down, Unwell, Row, Open
  <2>7. Spec => []Row
    BY <2>1, <2>2, MonitorTypeCorrect, PTL DEF Spec
  <2>8. Spec /\ RoundsGoOn => (<>[]Down => <>[]Open)
    BY <2>3, <2>4, <2>5, <2>6, <2>7, PTL DEF Spec, RoundsGoOn
  <2>9. QED  BY <2>8, PTL DEF Down, Open, Recorded
<1>2. QED  BY <1>1 DEF DownIsRecorded

(* The count of a park that is not found well does not fall. *)
LEMMA CountKept ==
    ASSUME NEW p \in Parks, TypeOK, Rowed(p), ~Well(p), [Next]_vars
    PROVE  state'[p].num >= state[p].num /\ {state[p].num, state'[p].num} \subseteq Counts
<1>1. state[p].num \in 0..(ALARM_AT + 1)  BY DEF TypeOK
<1>2. CASE CommitRound
  <2>1. state'[p].num = OneMore(state[p].num)  BY <1>2, CommitUnwell
  <2>2. QED  BY <1>1, <2>1 DEF OneMore, ALARM_AT, Counts
<1>3. CASE ~CommitRound
  <2>1. state' = state  BY <1>3, OnlyCommits
  <2>2. QED  BY <1>1, <2>1 DEF ALARM_AT, Counts
<1>4. QED  BY <1>2, <1>3

(* As long as rounds go on, and unless something fails or a job misses its  *)
(* turn, a monitored park that stays down is reported exactly once.        *)
THEOREM OutageReported == Spec /\ RoundsGoOn => LongOutageReported
<1>0. Spec => [](TableInv /\ PaceInv)
  BY TableInvariant, PaceInit, PaceStep, PTL DEF Spec
<1>1. ASSUME NEW p \in Monitored
      PROVE  Spec /\ RoundsGoOn =>
                (<>[](~up[p]) => <>[](alarms[p] = 1) \/ <>(overrun \/ faults > 0))
  <2> DEFINE Down == ~up[p]
             Unwell == ~Well(p)
             Row == TypeOK /\ Rowed(p)
             Unsteady == overrun \/ faults > 0
             Reported == alarms[p] = 1
             One == state[p].num >= 1
             Two == state[p].num >= 2
             Three == state[p].num >= 3
             Four == state[p].num >= 4
             Five == state[p].num >= 5
             Above == state[p].num > ALARM_AT
  <2>0. p \in Parks  BY ConstantsAssumption
  <2>1. Init => Row
    BY <2>0, TableInit DEF Init, Rowed, TableInv
  <2>2. Row /\ TypeOK' /\ [Next]_vars => Row'
    BY <2>0, RowStays
  <2>3. Row /\ Down /\ [Next]_vars => (Unwell => Unwell')
    BY <2>0, DownIsUnwell
  <2>4. Row /\ Down /\ <<CommitRound>>_vars => Unwell'
    BY <2>0, DownIsUnwell DEF Next
  <2>5. Row /\ Unwell /\ [Next]_vars =>
           /\ One => One'
           /\ Two => Two'
           /\ Three => Three'
           /\ Four => Four'
           /\ Five => Five'
           /\ Above => Above'
    BY <2>0, CountKept DEF Counts, ALARM_AT
  <2>6. Row /\ Unwell /\ <<CommitRound>>_vars =>
           /\ One'
           /\ One => Two'
           /\ Two => Three'
           /\ Three => Four'
           /\ Four => Five'
           /\ Five => Above'
    <3> SUFFICES ASSUME Row, Unwell, <<CommitRound>>_vars
                 PROVE  /\ One' /\ (One => Two') /\ (Two => Three')
                        /\ (Three => Four') /\ (Four => Five') /\ (Five => Above')
      OBVIOUS
    <3>1. state[p].num \in 0..(ALARM_AT + 1)  BY <2>0 DEF TypeOK
    <3>2. state'[p].num = OneMore(state[p].num)  BY <2>0, CommitUnwell
    <3>3. QED  BY <3>1, <3>2 DEF OneMore, ALARM_AT
  <2>7. TableInv /\ PaceInv /\ Above => Reported \/ Unsteady
    BY <2>0 DEF TableInv, TypeOK, PaceInv, Steady, Paced
  <2> HIDE DEF Down, Unwell, Row, Unsteady, Reported, One, Two, Three, Four, Five, Above
  <2>8. Spec => []Row
    BY <2>1, <2>2, MonitorTypeCorrect, PTL DEF Spec
  <2>9. Spec /\ RoundsGoOn => (<>[]Down => <>[]Above)
    BY <2>3, <2>4, <2>5, <2>6, <2>8, PTL DEF Spec, RoundsGoOn
  <2>10. Spec /\ RoundsGoOn => (<>[]Down => <>[]Reported \/ <>Unsteady)
    BY <2>7, <2>9, <1>0, PTL
  <2>11. QED  BY <2>10, PTL DEF Down, Reported, Unsteady
<1>2. QED  BY <1>1 DEF LongOutageReported
=============================================================================
