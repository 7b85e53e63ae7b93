-------------------------- MODULE CompanionProofs --------------------------
(***************************************************************************)
(* Companion: types and safety, for any alarms, reminders, lengths of the  *)
(* hour and the day, and number of connections.                            *)
(***************************************************************************)
EXTENDS Companion, TLAPS

AlarmSets == [Slots -> Alarms]
MainType ==
  [pc : {"idle", "search", "take", "act", "finds", "stamp", "hour", "minute", "alarms"},
   data : Snapshots, taken : [kind : Kinds, link : Links], stamp : 0 .. MaxMinute,
   time : Times, due : SUBSET Slots]
LocalType ==
  [finding : BOOLEAN, findDue : BOOLEAN, acted : BOOLEAN,
   seen : 0 .. MaxFinds, alerted : BOOLEAN, fired : [Sources -> 0 .. MaxMinute]]

ActionType == [kind : Kinds, link : Links]
ClockType == [minute : Minutes, valid : BOOLEAN]
Counts(S) == [S -> 0 .. 2]

\* The phone can only have been made to ring by a connection there has been; a snapshot
\* without a connection was taken before the one that is up now.
LinkInv ==
  /\ ActionIsCurrent
  /\ RingKnown
  /\ phone <= state.link
  /\ state.connected => state.link > 0
  /\ main.pc = "search" /\ ~main.data.connected /\ state.connected => phone # state.link

\* A packet's alarm is in one slot, in the session's copy as in the poll's.
OfOnePacket(alarms, others) ==
  \A i, j \in Slots : alarms[i].set # 0 /\ alarms[i].set = others[j].set => i = j

\* An alarm that the poll has yet to examine or to ring.
Pending(i) ==
  /\ main.data.alarms[i].enabled
  /\ main.pc = "alarms" => i \in main.due

\* A one-shot alarm that has rung is neither enabled in the session's copy nor awaited in the
\* poll's; and an alarm that is awaited has not been given at the minute of the poll.
AlarmInv ==
  /\ OfOnePacket(state.alarms, state.alarms)
  /\ OfOnePacket(main.data.alarms, state.alarms)
  /\ OfOnePacket(main.data.alarms, main.data.alarms)
  /\ \A i \in Slots : state.alarms[i].set <= state.sets /\ main.data.alarms[i].set <= state.sets
  /\ \A s \in Sets : rung[s] > 0 => s <= state.sets
  /\ \A i \in Slots : state.alarms[i].enabled /\ state.alarms[i].once => rung[state.alarms[i].set] = 0
  /\ \A i \in Slots : Pending(i) /\ main.data.alarms[i].once => rung[main.data.alarms[i].set] = 0
  /\ \A i \in main.due :
       main.pc = "alarms" /\ main.data.alarms[i].enabled /\ local.fired[i] < main.stamp
  /\ OneShotOnce

IndInv == TypeOK /\ LinkInv /\ AlarmInv

-----------------------------------------------------------------------------
(* Types *)

\* An alarm after companion_alarm_used.
Disabled(a, used) == [a EXCEPT !.enabled = FALSE, !.used = used]

\* An alarm that is enabled was set by a packet.
LEMMA AlarmFacts ==
  /\ NoAlarm \in Alarms
  /\ \A a \in Alarms :
       /\ a.set \in Nat /\ a.once \in BOOLEAN
       /\ a.enabled \in BOOLEAN /\ a.used \in BOOLEAN
       /\ a.enabled => a.set \in Sets
       /\ a.once => a.set \in Sets /\ \A u \in BOOLEAN : Disabled(a, u) \in Alarms
  <1> DEFINE Given == [set : Sets, at : Times, once : BOOLEAN, enabled : BOOLEAN, used : BOOLEAN]
  <1>1. ASSUME NEW a \in Given
        PROVE  /\ a.set \in Sets /\ a.at \in Times /\ a.once \in BOOLEAN
               /\ a.enabled \in BOOLEAN /\ a.used \in BOOLEAN
    OBVIOUS
  <1>2. ASSUME NEW a \in Given, NEW u \in BOOLEAN
        PROVE  Disabled(a, u) \in Given
    BY DEF Disabled
  <1>3. Alarms = {NoAlarm} \cup Given /\ Sets \subseteq Nat
    BY CompanionConstants DEF Alarms, Sets
  <1> HIDE DEF Given
  <1>4. NoAlarm \in Alarms
    BY <1>3
  <1> SUFFICES ASSUME NEW a \in Alarms
               PROVE  /\ a.set \in Nat /\ a.once \in BOOLEAN
                      /\ a.enabled \in BOOLEAN /\ a.used \in BOOLEAN
                      /\ a.enabled => a.set \in Sets
                      /\ a.once => a.set \in Sets /\ \A u \in BOOLEAN : Disabled(a, u) \in Alarms
    BY <1>4
  <1>5. CASE a = NoAlarm
    BY <1>5 DEF NoAlarm
  <1>6. CASE a \in Given
    <2>1. \A u \in BOOLEAN : Disabled(a, u) \in Alarms
      BY <1>2, <1>3, <1>6
    <2> QED BY <1>1, <1>3, <1>6, <2>1
  <1> QED BY <1>3, <1>5, <1>6

LEMMA SnapshotType ==
  ASSUME state \in States
  PROVE  /\ Snapshot \in Snapshots
         /\ Snapshot.connected = state.connected /\ Snapshot.alarms = state.alarms
         /\ Snapshot.reminders = state.reminders /\ Snapshot.finds = state.finds
  <1>1. Snapshot = [connected |-> state.connected, alarms |-> state.alarms,
                    reminders |-> state.reminders, finds |-> state.finds]
    BY DEF Snapshot
  <1> QED BY <1>1 DEF Snapshots, States

LEMMA IdleFacts ==
  /\ Idle \in MainType
  /\ Idle.pc = "idle" /\ Idle.due = {}
  /\ \A i \in Slots : Idle.data.alarms[i] = NoAlarm
  <1>1. NoAction \in [kind : Kinds, link : Links]
    BY CompanionConstants DEF NoAction, Kinds, Links
  <1>2. <<0, 0>> \in Times
    BY CompanionConstants DEF Times
  <1> QED BY <1>1, <1>2, CompanionConstants, AlarmFacts DEF Idle, MainType, Snapshots, AlarmSets, Windows

\* The hour and the minute of the day that are read of any minute.
LEMMA TimesRead ==
  ASSUME NEW minute \in Nat
  PROVE  /\ HourOf(minute) \in 0 .. DayHours - 1
         /\ MinuteOf(minute) \in 0 .. HourMinutes - 1
  <1>1. minute \div HourMinutes \in Nat
    BY CompanionConstants
  <1> QED BY <1>1, CompanionConstants DEF HourOf, MinuteOf

LEMMA Bounds ==
  /\ MaxMinute \in Nat /\ MaxMinute > 0
  /\ MaxSets \in Nat /\ MaxLinks \in Nat /\ MaxFinds \in Nat
  /\ Slots \subseteq Nat /\ Reminders \subseteq Nat /\ Slots \cap Reminders = {}
  BY CompanionConstants

LEMMA TypeParts ==
  TypeOK <=> /\ state \in States /\ action \in ActionType /\ main \in MainType /\ local \in LocalType
             /\ clock \in ClockType /\ phone \in Links /\ ios \in BOOLEAN
             /\ rung \in Counts(Sets) /\ heard \in Counts(Reminders)
  BY DEF TypeOK, ActionType, MainType, LocalType, ClockType, Counts

LEMMA TypeInit == Init => TypeOK
  <1> SUFFICES ASSUME Init PROVE TypeOK
    OBVIOUS
  <1> USE Bounds
  <1>1. state \in States
    BY AlarmFacts DEF Init, States, Links, Windows
  <1>2. action \in ActionType /\ phone \in Links
    BY DEF Init, NoAction, ActionType, Kinds, Links
  <1>3. main \in MainType
    BY IdleFacts DEF Init
  <1>4. local \in LocalType
    BY DEF Init, LocalType
  <1>5. clock \in ClockType
    BY DEF Init, ClockType, Minutes
  <1>6. ios \in BOOLEAN
    BY DEF Init
  <1>7. rung \in Counts(Sets) /\ heard \in Counts(Reminders)
    BY DEF Init, Counts
  <1> QED BY <1>1, <1>2, <1>3, <1>4, <1>5, <1>6, <1>7, TypeParts

\* States stay states when fields that Connection writes are replaced.
LEMMA StateFields ==
  ASSUME NEW s \in States, NEW b \in BOOLEAN
  PROVE  /\ \A l \in Links : [s EXCEPT !.connected = b, !.link = l] \in States
         /\ [s EXCEPT !.connected = b, !.camera = FALSE, !.contents = FALSE] \in States
  BY DEF States

\* The BLE host task keeps the session's copy a copy.
LEMMA BleType == ASSUME TypeOK, Ble PROVE state' \in States /\ action' \in ActionType
  <1>1. state \in States /\ action \in ActionType
    BY TypeParts
  <1>2. ASSUME NEW connected \in BOOLEAN, Connection(connected)
        PROVE  state' \in States /\ action' \in ActionType
    <2>1. action' \in ActionType
      BY Bounds, <1>1, <1>2 DEF Connection, ActionType, NoAction, Kinds, Links
    <2>2. CASE connected
      <3>1. state.link < MaxLinks /\ state' = [state EXCEPT !.connected = TRUE, !.link = @ + 1]
        BY <1>2, <2>2 DEF Connection
      <3>2. state.link + 1 \in Links
        BY Bounds, <1>1, <3>1 DEF States, Links
      <3> QED BY <1>1, <2>1, <3>1, <3>2, StateFields
    <2>3. CASE ~connected
      <3>1. state' = [state EXCEPT !.connected = FALSE, !.camera = FALSE, !.contents = FALSE]
        BY <1>2, <2>3 DEF Connection
      <3> QED BY <1>1, <2>1, <3>1, StateFields
    <2> QED BY <2>1, <2>2, <2>3
  <1>3. CASE Packet
    <2>1. action' \in ActionType
      BY <1>1, <1>3 DEF Packet
    <2>2. ASSUME NEW i \in Slots, NEW at \in Times, NEW once \in BOOLEAN, NEW enabled \in BOOLEAN,
                 state.sets < MaxSets,
                 state' = [state EXCEPT !.sets = @ + 1,
                             !.alarms[i] = [set |-> state.sets + 1, at |-> at, once |-> once,
                                            enabled |-> enabled, used |-> FALSE]]
          PROVE  state' \in States
      <3> DEFINE alarm == [set |-> state.sets + 1, at |-> at, once |-> once,
                           enabled |-> enabled, used |-> FALSE]
      <3>1. state.sets + 1 \in Sets /\ state.sets + 1 \in 0 .. MaxSets
        BY Bounds, <1>1, <2>2 DEF States, Sets
      <3>2. alarm \in Alarms
        BY Bounds, <3>1 DEF Alarms
      <3>3. state.alarms \in [Slots -> Alarms]
        BY <1>1 DEF States
      <3>4. [state.alarms EXCEPT ![i] = alarm] \in [Slots -> Alarms]
        BY <3>2, <3>3
      <3>5. state' = [state EXCEPT !.sets = state.sets + 1, !.alarms = [state.alarms EXCEPT ![i] = alarm]]
        BY <1>1, <2>2 DEF States
      <3> HIDE DEF alarm
      <3> QED BY <1>1, <3>1, <3>4, <3>5 DEF States
    <2>3. ASSUME NEW r \in Reminders, NEW due \in Windows,
                 state' = [state EXCEPT !.reminders[r] = due]
          PROVE  state' \in States
      BY <1>1, <2>3 DEF States
    <2>4. ASSUME NEW b \in BOOLEAN,
                 \/ state' = [state EXCEPT !.camera = b]
                 \/ state' = [state EXCEPT !.contents = b]
                 \/ state.finds < MaxFinds /\ state' = [state EXCEPT !.finds = @ + 1]
          PROVE  state' \in States
      <3>1. state.finds < MaxFinds => state.finds + 1 \in 0 .. MaxFinds
        BY Bounds, <1>1 DEF States
      <3> QED BY <1>1, <2>4, <3>1 DEF States
    <2> QED BY <1>3, <2>1, <2>2, <2>3, <2>4 DEF Packet, Received
  <1> QED BY <1>2, <1>3 DEF Ble

LEMMA CountedType == \A n \in 0 .. 2 : Counted(n) \in 0 .. 2
  BY DEF Counted

\* companion_alarm_used disables a one-shot alarm, and changes nothing else of any alarm.
LEMMA UsedFacts ==
  ASSUME state \in States, NEW i \in Slots, Used(i)
  PROVE  /\ state' \in States
         /\ state'.sets = state.sets
         /\ \A j \in Slots : /\ state'.alarms[j].set = state.alarms[j].set
                             /\ state'.alarms[j].once = state.alarms[j].once
                             /\ state'.alarms[j].enabled => state.alarms[j].enabled
         /\ state'.alarms[i].once => ~state'.alarms[i].enabled
  <1>1. state.alarms \in [Slots -> Alarms] /\ state.alarms[i] \in Alarms
    BY DEF States
  <1>2. CASE state.alarms[i].once
    <2> DEFINE used == state.alarms[i].used \/ state.alarms[i].enabled
    <2>1. Disabled(state.alarms[i], used) \in Alarms
      BY <1>1, <1>2, AlarmFacts
    <2>2. state' = [state EXCEPT !.alarms = [state.alarms EXCEPT ![i] = Disabled(state.alarms[i], used)]]
      BY <1>1, <1>2 DEF Used, States, Disabled
    <2>3. /\ Disabled(state.alarms[i], used).set = state.alarms[i].set
          /\ Disabled(state.alarms[i], used).once = state.alarms[i].once
          /\ ~Disabled(state.alarms[i], used).enabled
      <3>1. state.alarms[i] # NoAlarm
        BY <1>2 DEF NoAlarm
      <3> QED BY <1>1, <3>1 DEF Disabled, Alarms
    <2> HIDE DEF used
    <2>4. state'.sets = state.sets /\ state'.alarms = [state.alarms EXCEPT ![i] = Disabled(state.alarms[i], used)]
      BY <2>2 DEF States
    <2>5. /\ state'.alarms[i] = Disabled(state.alarms[i], used)
          /\ \A j \in Slots : j # i => state'.alarms[j] = state.alarms[j]
      BY <1>1, <2>4
    <2>6. state' \in States
      BY <1>1, <2>1, <2>2 DEF States
    <2> QED BY <2>3, <2>4, <2>5, <2>6
  <1>3. CASE ~state.alarms[i].once
    BY <1>3 DEF Used
  <1> QED BY <1>2, <1>3

\* findPhone rings, or stops, the phone of a connection there has been.
LEMMA RingType ==
  ASSUME TypeOK, NEW active \in BOOLEAN, Ring(active)
  PROVE  phone' \in Links
  BY Bounds DEF TypeOK, Ring, States, Links

\* The poll, up to the schedules.
LEMMA CommandsType ==
  ASSUME TypeOK, PollBegin \/ EndSearch \/ Take \/ Act
  PROVE  action' \in ActionType /\ main' \in MainType /\ local' \in LocalType /\ phone' \in Links
  <1>1. /\ state \in States /\ action \in ActionType /\ main \in MainType /\ local \in LocalType
        /\ phone \in Links
    BY TypeParts
  <1>2. NoAction \in ActionType
    BY Bounds DEF ActionType, NoAction, Kinds, Links
  <1>3. ASSUME phone' = phone \/ Ring(TRUE) \/ Ring(FALSE)
        PROVE  phone' \in Links
    BY <1>1, <1>3, RingType
  <1>4. CASE PollBegin
    <2>1. main' \in MainType
      BY <1>1, <1>4, SnapshotType DEF PollBegin, MainType
    <2> QED BY <1>1, <1>4, <2>1 DEF PollBegin
  <1>5. CASE EndSearch
    <2>1. main' \in MainType
      BY <1>1, <1>5 DEF EndSearch, MainType
    <2>2. local' \in LocalType
      BY <1>1, <1>5 DEF EndSearch, LocalType
    <2> QED BY <1>1, <1>3, <1>5, <2>1, <2>2 DEF EndSearch
  <1>6. CASE Take
    <2>1. main' \in MainType
      BY <1>1, <1>2, <1>6, IdleFacts DEF Take, MainType, ActionType
    <2> QED BY <1>1, <1>2, <1>6, <2>1 DEF Take
  <1>7. CASE Act
    <2>1. main' \in MainType
      BY <1>1, <1>2, <1>7 DEF Act, MainType, ActionType
    <2>2. \/ local' = local \/ local' = [local EXCEPT !.finding = FALSE]
          \/ local' = [local EXCEPT !.finding = TRUE, !.findDue = FALSE, !.acted = TRUE]
          \/ local' = [local EXCEPT !.acted = TRUE]
      BY <1>7 DEF Act
    <2>3. local' \in LocalType
      BY <1>1, <2>2 DEF LocalType
    <2>4. phone' = phone \/ Ring(TRUE) \/ Ring(FALSE)
      BY <1>7 DEF Act
    <2> QED BY <1>1, <1>3, <1>7, <2>1, <2>3, <2>4 DEF Act
  <1> QED BY <1>4, <1>5, <1>6, <1>7

\* The rest of the poll.
LEMMA SchedulesType ==
  ASSUME TypeOK, Finds \/ Stamp \/ Hour \/ Minute \/ AlarmFires \/ PollEnd
  PROVE  /\ state' \in States /\ main' \in MainType /\ local' \in LocalType
         /\ rung' \in Counts(Sets) /\ heard' \in Counts(Reminders)
  <1>1. /\ state \in States /\ main \in MainType /\ local \in LocalType /\ clock \in ClockType
        /\ rung \in Counts(Sets) /\ heard \in Counts(Reminders)
    BY TypeParts
  <1>2. clock.minute \in 0 .. MaxMinute /\ main.stamp \in 0 .. MaxMinute
    BY <1>1, Bounds DEF ClockType, Minutes, MainType
  <1>3. CASE Finds
    <2>1. main' \in MainType
      BY <1>1, <1>3, IdleFacts DEF Finds, MainType
    <2>2. main.data.finds \in 0 .. MaxFinds
      BY <1>1 DEF MainType, Snapshots
    <2>3. local' \in LocalType
      BY <1>1, <1>3, <2>2 DEF Finds, LocalType
    <2> QED BY <1>1, <1>3, <2>1, <2>3 DEF Finds
  <1>4. CASE Stamp
    BY <1>1, <1>2, <1>4 DEF Stamp, MainType
  <1>5. CASE Hour \/ Minute
    <2>1. clock.minute \in Nat
      BY <1>2
    <2>2. /\ HourOf(clock.minute) \in 0 .. DayHours - 1
          /\ MinuteOf(clock.minute) \in 0 .. HourMinutes - 1
          /\ 0 \in 0 .. HourMinutes - 1 /\ main.time[1] \in 0 .. DayHours - 1
      BY <1>1, <2>1, TimesRead, CompanionConstants DEF MainType, Times
    <2>3. <<HourOf(clock.minute), 0>> \in Times /\ <<main.time[1], MinuteOf(clock.minute)>> \in Times
      BY <2>2 DEF Times
    <2>4. \A time : DueAlarms(main.data, time) \subseteq Slots
      BY DEF DueAlarms
    <2>5. CASE Hour
      <3>1. main' = [main EXCEPT !.pc = "minute", !.time = <<HourOf(clock.minute), 0>>]
        BY <2>5 DEF Hour
      <3>2. main' \in MainType
        BY <1>1, <2>3, <3>1 DEF MainType
      <3> QED BY <1>1, <2>5, <3>2 DEF Hour
    <2>6. CASE Minute
      <3> DEFINE time == <<main.time[1], MinuteOf(clock.minute)>>
      <3>1. main' = [main EXCEPT !.pc = "alarms", !.time = time, !.due = DueAlarms(main.data, time)]
        BY <2>6 DEF Minute
      <3>2. time \in Times /\ DueAlarms(main.data, time) \in SUBSET Slots
        BY <2>3, <2>4
      <3> HIDE DEF time
      <3>3. main' \in MainType
        BY <1>1, <3>1, <3>2 DEF MainType
      <3> QED BY <1>1, <2>6, <3>3 DEF Minute
    <2> QED BY <1>5, <2>5, <2>6
  <1>6. CASE AlarmFires
    <2> PICK i \in main.due :
          /\ local' = [local EXCEPT !.fired[i] = main.stamp]
          /\ main' = [main EXCEPT !.due = @ \ {i}]
          /\ Used(i)
          /\ rung' = IF main.data.alarms[i].once
                     THEN [rung EXCEPT ![main.data.alarms[i].set] = Counted(@)] ELSE rung
      BY <1>6 DEF AlarmFires
    <2>1. i \in Slots /\ main.data.alarms[i] \in Alarms
      BY <1>1 DEF MainType, Snapshots
    <2>2. state' \in States
      BY <1>1, <2>1, UsedFacts
    <2>3. main' \in MainType
      BY <1>1 DEF MainType
    <2>4. local' \in LocalType
      BY <1>1, <1>2, <2>1 DEF LocalType, Sources
    <2>5. rung' \in Counts(Sets)
      <3>1. main.data.alarms[i].once => main.data.alarms[i].set \in Sets
        BY <2>1, AlarmFacts
      <3>2. \A s \in Sets : rung[s] \in 0 .. 2 /\ Counted(rung[s]) \in 0 .. 2
        BY <1>1, CountedType DEF Counts
      <3> QED BY <1>1, <3>1, <3>2 DEF Counts
    <2>6. heard' \in Counts(Reminders)
      BY <1>1, <1>6 DEF AlarmFires
    <2> QED BY <2>2, <2>3, <2>4, <2>5, <2>6
  <1>7. CASE PollEnd
    <2> DEFINE due == {r \in Reminders : main.time \in main.data.reminders[r] /\ First(r)}
    <2>1. local' = [local EXCEPT !.fired = [s \in Sources |-> IF s \in due THEN main.stamp ELSE local.fired[s]]]
      BY <1>1, <1>7 DEF PollEnd, LocalType
    <2>2. heard' = [r \in Reminders |-> IF r \in due THEN Counted(heard[r]) ELSE heard[r]]
      BY <1>7 DEF PollEnd
    <2> HIDE DEF due
    <2>3. local' \in LocalType
      BY <1>1, <1>2, <2>1 DEF LocalType
    <2>4. heard' \in Counts(Reminders)
      <3>1. \A r \in Reminders : heard[r] \in 0 .. 2 /\ Counted(heard[r]) \in 0 .. 2
        BY <1>1, CountedType DEF Counts
      <3> QED BY <2>2, <3>1 DEF Counts
    <2> QED BY <1>1, <1>7, <2>3, <2>4, IdleFacts DEF PollEnd
  <1> QED BY <1>3, <1>4, <1>5, <1>6, <1>7

\* Types are inductive.
LEMMA TypeStep == TypeOK /\ [Next]_vars => TypeOK'
  <1> SUFFICES ASSUME TypeOK, [Next]_vars PROVE TypeOK'
    OBVIOUS
  <1>1. /\ state \in States /\ action \in ActionType /\ main \in MainType /\ local \in LocalType
        /\ clock \in ClockType /\ phone \in Links /\ ios \in BOOLEAN
        /\ rung \in Counts(Sets) /\ heard \in Counts(Reminders)
    BY TypeParts
  <1> SUFFICES /\ state' \in States /\ action' \in ActionType /\ main' \in MainType /\ local' \in LocalType
               /\ clock' \in ClockType /\ phone' \in Links /\ ios' \in BOOLEAN
               /\ rung' \in Counts(Sets) /\ heard' \in Counts(Reminders)
    BY DEF TypeOK, ActionType, MainType, LocalType, ClockType, Counts
  <1>2. CASE Ble
    BY <1>1, <1>2, BleType DEF Ble, Connection, Packet
  <1>3. CASE Request
    <2>1. PICK kind \in {IF local.finding THEN "StopFind" ELSE "FindPhone", "Camera"} :
            action' = [kind |-> kind, link |-> state.link]
      BY <1>3 DEF Request
    <2>2. kind \in Kinds /\ state.link \in Links
      BY <1>1 DEF Kinds, States
    <2> QED BY <1>1, <1>3, <2>1, <2>2 DEF Request, ActionType
  <1>4. CASE SetIos
    BY <1>1, <1>4 DEF SetIos
  <1>5. CASE PollBegin \/ EndSearch \/ Take \/ Act
    BY <1>1, <1>5, CommandsType DEF PollBegin, EndSearch, Take, Act
  <1>6. CASE Finds \/ Stamp \/ Hour \/ Minute \/ AlarmFires \/ PollEnd
    <2>1. UNCHANGED <<action, clock, phone, ios>>
      BY <1>6 DEF Finds, Stamp, Hour, Minute, AlarmFires, PollEnd
    <2> QED BY <1>1, <1>6, <2>1, SchedulesType
  <1>7. CASE ClockMoves
    <2>1. clock' \in ClockType
      BY <1>7 DEF ClockMoves, ClockType
    <2>2. heard' \in Counts(Reminders)
      BY <1>7 DEF ClockMoves, Counts
    <2> QED BY <1>1, <1>7, <2>1, <2>2 DEF ClockMoves
  <1>8. CASE FindAges \/ Ages
    <2>1. local' \in LocalType
      BY <1>1, <1>8 DEF FindAges, Ages, LocalType
    <2> QED BY <1>1, <1>8, <2>1 DEF FindAges, Ages
  <1>9. CASE PhoneStops
    BY Bounds, <1>1, <1>9 DEF PhoneStops, Links
  <1>10. CASE UNCHANGED vars
    BY <1>1, <1>10 DEF vars
  <1> QED BY <1>2, <1>3, <1>4, <1>5, <1>6, <1>7, <1>8, <1>9, <1>10 DEF Next, Poll

-----------------------------------------------------------------------------
(* The link and the search *)

LEMMA LinkInit == Init => LinkInv
  BY DEF Init, LinkInv, ActionIsCurrent, RingKnown, NoAction, Idle

\* A connection that comes up has a number that no phone rings for; one that is lost takes
\* the command that was queued for it.
LEMMA BleLink == ASSUME TypeOK, LinkInv, Ble PROVE LinkInv'
  <1>1. state.link \in Nat /\ phone \in Nat /\ state \in States
    BY Bounds DEF TypeOK, States, Links
  <1>2. ASSUME NEW connected \in BOOLEAN, Connection(connected)
        PROVE  LinkInv'
    <2>1. CASE connected
      <3>1. state'.connected /\ state'.link = state.link + 1 /\ ~state.connected
        BY <1>1, <1>2, <2>1 DEF Connection, States
      <3>2. UNCHANGED <<action, main, local, phone>>
        BY <1>2, <2>1 DEF Connection
      <3> QED BY <1>1, <3>1, <3>2 DEF LinkInv, ActionIsCurrent, RingKnown
    <2>2. CASE ~connected
      <3>1. ~state'.connected /\ state'.link = state.link
        BY <1>1, <1>2, <2>2 DEF Connection, States
      <3>2. action' = NoAction /\ UNCHANGED <<main, local, phone>>
        BY <1>2, <2>2 DEF Connection
      <3> QED BY <1>1, <3>1, <3>2 DEF LinkInv, ActionIsCurrent, RingKnown, NoAction
    <2> QED BY <2>1, <2>2
  <1>3. CASE Packet
    <2>1. state'.connected = state.connected /\ state'.link = state.link
      BY <1>1, <1>3 DEF Packet, Received, States
    <2>2. UNCHANGED <<action, main, local, phone>>
      BY <1>3 DEF Packet
    <2> QED BY <2>1, <2>2 DEF LinkInv, ActionIsCurrent, RingKnown
  <1> QED BY <1>2, <1>3 DEF Ble

\* The poll ends a search that is over, and a search that it begins makes this connection's phone
\* ring; on a snapshot without a connection no phone of this connection rings.
LEMMA CommandsLink == ASSUME TypeOK, LinkInv, PollBegin \/ EndSearch \/ Take \/ Act PROVE LinkInv'
  <1>1. /\ state.link \in Nat /\ phone \in Nat /\ state \in States /\ local \in LocalType
        /\ main \in MainType
    BY Bounds, TypeParts DEF States, Links
  <1>2. NoAction.kind = "None"
    BY DEF NoAction
  <1>3. CASE PollBegin
    <2>1. UNCHANGED <<state, action, local, phone>>
      BY <1>3 DEF PollBegin
    <2>2. main'.data.connected = state.connected
      BY <1>1, <1>3, SnapshotType DEF PollBegin, MainType
    <2> QED BY <1>1, <2>1, <2>2 DEF LinkInv, ActionIsCurrent, RingKnown
  <1>4. CASE EndSearch
    <2>1. UNCHANGED <<state, action>> /\ main.pc = "search" /\ main'.pc = "take"
      BY <1>1, <1>4 DEF EndSearch, MainType
    <2>2. \/ phone' = 0
          \/ ~state.connected /\ phone' = phone
          \/ phone' = phone /\ ~main.data.connected
      BY <1>4 DEF EndSearch, Ring
    <2> QED BY <1>1, <2>1, <2>2 DEF LinkInv, ActionIsCurrent, RingKnown
  <1>5. CASE Take
    <2>1. UNCHANGED <<state, local, phone>> /\ action' = NoAction
      BY <1>5 DEF Take
    <2>2. main'.pc # "search"
      BY <1>1, <1>5, IdleFacts DEF Take, MainType
    <2> QED BY <1>1, <1>2, <2>1, <2>2 DEF LinkInv, ActionIsCurrent, RingKnown
  <1>6. CASE Act
    <2>1. UNCHANGED <<state, action>> /\ main'.pc = "finds"
      BY <1>1, <1>6 DEF Act, MainType
    <2>2. CASE main.taken.kind = "StopFind"
      <3>1. phone' = IF state.connected THEN 0 ELSE phone
        BY <1>6, <2>2 DEF Act, Ring
      <3> QED BY <1>1, <2>1, <3>1 DEF LinkInv, ActionIsCurrent, RingKnown
    <2>3. CASE main.taken.kind = "FindPhone" /\ ~local.acted
      <3>1. /\ phone' = IF state.connected THEN state.link ELSE phone
            /\ local' = [local EXCEPT !.finding = TRUE, !.findDue = FALSE, !.acted = TRUE]
        BY <1>6, <2>3 DEF Act, Ring
      <3>2. local'.finding
        BY <1>1, <3>1 DEF LocalType
      <3> QED BY <1>1, <2>1, <3>1, <3>2 DEF LinkInv, ActionIsCurrent, RingKnown
    <2>4. CASE main.taken.kind # "StopFind" /\ (main.taken.kind # "FindPhone" \/ local.acted)
      <3>1. phone' = phone /\ (local' = [local EXCEPT !.acted = TRUE] \/ local' = local)
        BY <1>6, <2>4, Zenon DEF Act
      <3>2. local'.finding = local.finding
        BY <1>1, <3>1 DEF LocalType
      <3> QED BY <1>1, <2>1, <3>1, <3>2 DEF LinkInv, ActionIsCurrent, RingKnown
    <2> QED BY <2>2, <2>3, <2>4
  <1> QED BY <1>3, <1>4, <1>5, <1>6

LEMMA LinkStep == TypeOK /\ LinkInv /\ [Next]_vars => LinkInv'
  <1> SUFFICES ASSUME TypeOK, LinkInv, [Next]_vars PROVE LinkInv'
    OBVIOUS
  <1>1. /\ state.link \in Nat /\ phone \in Nat /\ state \in States /\ local \in LocalType
        /\ main \in MainType /\ action \in ActionType
    BY Bounds, TypeParts DEF States, Links
  <1>2. CASE Request
    BY <1>2 DEF Request, LinkInv, ActionIsCurrent, RingKnown
  <1>3. CASE SetIos \/ ClockMoves \/ UNCHANGED vars
    <2>1. UNCHANGED <<state, action, main, local, phone>>
      BY <1>3 DEF SetIos, ClockMoves, vars
    <2> QED BY <2>1 DEF LinkInv, ActionIsCurrent, RingKnown
  <1>4. CASE Finds \/ Stamp \/ Hour \/ Minute \/ AlarmFires \/ PollEnd
    <2>1. state'.connected = state.connected /\ state'.link = state.link
      BY <1>1, <1>4, Zenon DEF Finds, Stamp, Hour, Minute, AlarmFires, PollEnd, Used, States
    <2>2. main'.pc # "search"
      BY <1>1, <1>4, IdleFacts DEF Finds, Stamp, Hour, Minute, AlarmFires, PollEnd, MainType
    <2>3. local'.finding = local.finding
      BY <1>1, <1>4 DEF Finds, Stamp, Hour, Minute, AlarmFires, PollEnd, LocalType
    <2>4. UNCHANGED <<action, phone>>
      BY <1>4 DEF Finds, Stamp, Hour, Minute, AlarmFires, PollEnd
    <2> QED BY <2>1, <2>2, <2>3, <2>4 DEF LinkInv, ActionIsCurrent, RingKnown
  <1>5. CASE FindAges \/ Ages
    <2>1. local'.finding = local.finding /\ UNCHANGED <<state, action, main, phone>>
      BY <1>1, <1>5 DEF FindAges, Ages, LocalType
    <2> QED BY <2>1 DEF LinkInv, ActionIsCurrent, RingKnown
  <1>6. CASE PhoneStops
    <2>1. phone' = 0 /\ UNCHANGED <<state, action, main, local>>
      BY <1>6 DEF PhoneStops
    <2> QED BY <1>1, <2>1 DEF LinkInv, ActionIsCurrent, RingKnown
  <1> QED BY <1>2, <1>3, <1>4, <1>5, <1>6, BleLink, CommandsLink DEF Next, Poll

-----------------------------------------------------------------------------
(* The alarms *)

\* What AlarmInv speaks of, and the types of it.
LEMMA AlarmTypes ==
  ASSUME TypeOK
  PROVE  /\ \A i \in Slots : state.alarms[i] \in Alarms /\ main.data.alarms[i] \in Alarms
         /\ state.sets \in Nat /\ main.due \subseteq Slots
         /\ main.stamp \in Nat /\ \A i \in Slots : local.fired[i] \in Nat
         /\ \A s \in Sets : rung[s] \in 0 .. 2
         /\ DOMAIN rung = Sets
  <1>1. state \in States /\ main \in MainType /\ local \in LocalType /\ rung \in Counts(Sets)
    BY TypeParts
  <1> QED BY <1>1, Bounds DEF States, MainType, Snapshots, LocalType, Sources, Counts

LEMMA AlarmInit == Init => AlarmInv
  <1> SUFFICES ASSUME Init PROVE AlarmInv
    OBVIOUS
  <1>1. /\ \A i \in Slots : state.alarms[i] = NoAlarm
        /\ state.sets = 0 /\ \A s \in Sets : rung[s] = 0
        /\ DOMAIN rung = Sets
    BY DEF Init
  <1>2. main = Idle
    BY DEF Init
  <1>3. NoAlarm.set = 0 /\ ~NoAlarm.enabled
    BY DEF NoAlarm
  <1> QED BY <1>1, <1>2, <1>3, IdleFacts DEF AlarmInv, OfOnePacket, Pending, OneShotOnce

\* Steps that leave the alarms, the rings and what is due alone.
LEMMA AlarmFrame ==
  ASSUME AlarmInv, state'.alarms = state.alarms, state'.sets = state.sets,
         main'.data.alarms = main.data.alarms, main'.due = main.due,
         main.pc = "alarms" <=> main'.pc = "alarms", main'.stamp = main.stamp \/ main.due = {},
         local'.fired = local.fired, rung' = rung
  PROVE  AlarmInv'
  BY DEF AlarmInv, OfOnePacket, Pending, OneShotOnce

\* Steps after which there is no poll, or one that has just taken its copy.
LEMMA AlarmCopy ==
  ASSUME TypeOK, AlarmInv, state' = state, rung' = rung, main'.due = {}, main'.pc # "alarms",
         main' = Idle \/ main'.data.alarms = state.alarms
  PROVE  AlarmInv'
  <1>1. NoAlarm.set = 0 /\ ~NoAlarm.enabled
    BY DEF NoAlarm
  <1>2. CASE main' = Idle
    BY <1>1, <1>2, IdleFacts, AlarmTypes DEF AlarmInv, OfOnePacket, Pending, OneShotOnce
  <1>3. CASE main'.data.alarms = state.alarms
    BY <1>3 DEF AlarmInv, OfOnePacket, Pending, OneShotOnce
  <1> QED BY <1>2, <1>3

\* A packet's number is that of no alarm before it, and has not rung.
LEMMA PacketAlarm ==
  ASSUME TypeOK, AlarmInv, Packet
  PROVE  AlarmInv'
  <1>1. state \in States /\ UNCHANGED <<main, local, rung>>
    BY TypeParts DEF Packet
  <1>2. CASE state'.alarms = state.alarms /\ state'.sets = state.sets
    BY <1>1, <1>2, AlarmFrame
  <1>3. ASSUME NEW i \in Slots, NEW at \in Times, NEW once \in BOOLEAN, NEW enabled \in BOOLEAN,
               state.sets < MaxSets,
               state' = [state EXCEPT !.sets = @ + 1,
                           !.alarms[i] = [set |-> state.sets + 1, at |-> at, once |-> once,
                                          enabled |-> enabled, used |-> FALSE]]
        PROVE  AlarmInv'
    <2> DEFINE s == state.sets + 1
    <2>1. state'.sets = s /\ state'.alarms[i].set = s
      BY <1>1, <1>3 DEF States
    <2>2. \A j \in Slots : j # i => state'.alarms[j] = state.alarms[j]
      BY <1>1, <1>3 DEF States
    <2>3. s \in Sets /\ s > state.sets /\ s # 0
      BY <1>1, <1>3, Bounds DEF States, Sets
    <2>4. rung[s] = 0
      BY <2>3, AlarmTypes DEF AlarmInv
    <2>5. \A j \in Slots : state.alarms[j].set # s /\ main.data.alarms[j].set # s
      BY <2>3, AlarmTypes, AlarmFacts DEF AlarmInv
    <2>6. /\ \A j \in Slots : state'.alarms[j].set <= s /\ main.data.alarms[j].set <= s
          /\ \A r \in Sets : rung[r] > 0 => r <= s
      <3>1. \A j \in Slots : /\ state.alarms[j].set \in Nat /\ state.alarms[j].set <= state.sets
                             /\ main.data.alarms[j].set \in Nat /\ main.data.alarms[j].set <= state.sets
        BY AlarmTypes, AlarmFacts DEF AlarmInv
      <3>2. state.sets \in Nat /\ \A r \in Sets : r \in Nat
        BY AlarmTypes, Bounds DEF Sets
      <3>3. \A j \in Slots : state'.alarms[j].set <= s
        <4> SUFFICES ASSUME NEW j \in Slots PROVE state'.alarms[j].set <= s
          OBVIOUS
        <4> QED BY <2>1, <2>2, <3>1, <3>2
      <3> QED BY <3>1, <3>2, <3>3 DEF AlarmInv
    <2> HIDE DEF s
    <2>7. /\ OfOnePacket(state'.alarms, state'.alarms)
          /\ OfOnePacket(main.data.alarms, state'.alarms)
      BY <2>1, <2>2, <2>5 DEF AlarmInv, OfOnePacket
    <2>8. \A j \in Slots : state'.alarms[j].enabled /\ state'.alarms[j].once => rung[state'.alarms[j].set] = 0
      BY <2>1, <2>2, <2>4 DEF AlarmInv
    <2> QED BY <1>1, <2>1, <2>6, <2>7, <2>8 DEF AlarmInv, OfOnePacket, Pending, OneShotOnce
  <1>4. ASSUME \/ \E ready \in BOOLEAN : state' = [state EXCEPT !.camera = ready]
               \/ \E any \in BOOLEAN : state' = [state EXCEPT !.contents = any]
               \/ state.finds < MaxFinds /\ state' = [state EXCEPT !.finds = @ + 1]
               \/ \E r \in Reminders, due \in Windows : state' = [state EXCEPT !.reminders[r] = due]
        PROVE  state'.alarms = state.alarms /\ state'.sets = state.sets
    BY <1>1, <1>4 DEF States
  <1> QED BY <1>2, <1>3, <1>4 DEF Packet, Received

\* An alarm that is given is one that had not been; after it, a one-shot alarm is enabled neither
\* in the slot, whatever is in it by then, nor in the poll's copy.
LEMMA FiredAlarm ==
  ASSUME TypeOK, AlarmInv, AlarmFires
  PROVE  AlarmInv'
  <1> PICK i \in main.due :
        /\ local' = [local EXCEPT !.fired[i] = main.stamp]
        /\ main' = [main EXCEPT !.due = @ \ {i}]
        /\ Used(i)
        /\ rung' = IF main.data.alarms[i].once
                   THEN [rung EXCEPT ![main.data.alarms[i].set] = Counted(@)] ELSE rung
    BY DEF AlarmFires
  <1>1. state \in States /\ main \in MainType /\ local \in LocalType /\ rung \in Counts(Sets)
    BY TypeParts
  <1>2. /\ i \in Slots /\ main.pc = "alarms" /\ main.data.alarms[i].enabled
        /\ main.data.alarms[i].set \in Sets /\ main.data.alarms[i].set # 0
    BY AlarmTypes, AlarmFacts, Bounds DEF AlarmInv, Sets
  <1>3. /\ main'.data = main.data /\ main'.pc = "alarms" /\ main'.due = main.due \ {i}
        /\ main'.stamp = main.stamp
    BY <1>1, <1>2 DEF MainType
  <1>4. \A j \in main'.due : j # i /\ local'.fired[j] = local.fired[j]
    <2>1. local'.fired = [local.fired EXCEPT ![i] = main.stamp]
      BY <1>1 DEF LocalType
    <2>2. local.fired \in [Sources -> 0 .. MaxMinute] /\ \A j \in Slots : j \in Sources
      BY <1>1 DEF LocalType, Sources
    <2> QED BY <1>2, <1>3, <2>1, <2>2, AlarmTypes
  <1>5. /\ state'.sets = state.sets
        /\ \A j \in Slots : /\ state'.alarms[j].set = state.alarms[j].set
                            /\ state'.alarms[j].once = state.alarms[j].once
                            /\ state'.alarms[j].enabled => state.alarms[j].enabled
        /\ state'.alarms[i].once => ~state'.alarms[i].enabled
    BY <1>1, <1>2, UsedFacts
  <1>6. CASE ~main.data.alarms[i].once
    <2>1. rung' = rung
      BY <1>6
    <2> QED BY <1>2, <1>3, <1>4, <1>5, <2>1 DEF AlarmInv, OfOnePacket, Pending, OneShotOnce
  <1>7. CASE main.data.alarms[i].once
    <2> DEFINE s == main.data.alarms[i].set
    <2>1. rung[s] = 0
      BY <1>2, <1>7 DEF AlarmInv, Pending
    <2>2. rung'[s] = 1 /\ DOMAIN rung' = Sets /\ \A r \in Sets : r # s => rung'[r] = rung[r]
      BY <1>1, <1>2, <1>7, <2>1 DEF Counts, Counted
    <2>3. s \in Sets /\ s # 0 /\ s <= state.sets
      BY <1>2 DEF AlarmInv
    <2>4. \A j \in Slots : j # i => state.alarms[j].set # s /\ main.data.alarms[j].set # s
      BY <1>2, <2>3 DEF AlarmInv, OfOnePacket
    <2> HIDE DEF s
    <2>5. OneShotOnce' /\ \A r \in Sets : rung'[r] > 0 => r <= state'.sets
      BY <1>5, <2>2, <2>3, AlarmTypes DEF AlarmInv, OneShotOnce
    <2>6. \A j \in Slots : state'.alarms[j].enabled /\ state'.alarms[j].once => rung'[state'.alarms[j].set] = 0
      <3> SUFFICES ASSUME NEW j \in Slots, state'.alarms[j].enabled, state'.alarms[j].once
                   PROVE  rung'[state'.alarms[j].set] = 0
        OBVIOUS
      <3>1. j # i /\ state.alarms[j].enabled /\ state.alarms[j].once
        BY <1>5
      <3>2. state.alarms[j].set \in Sets /\ state.alarms[j].set # s /\ rung[state.alarms[j].set] = 0
        BY <2>4, <3>1, AlarmTypes, AlarmFacts DEF AlarmInv
      <3> QED BY <1>5, <2>2, <3>2
    <2>7. \A j \in Slots : Pending(j)' /\ main'.data.alarms[j].once => rung'[main'.data.alarms[j].set] = 0
      <3> SUFFICES ASSUME NEW j \in Slots, Pending(j)', main'.data.alarms[j].once
                   PROVE  rung'[main'.data.alarms[j].set] = 0
        OBVIOUS
      <3>1. j # i /\ main.data.alarms[j].enabled /\ j \in main.due /\ main.data.alarms[j].once
        BY <1>3 DEF Pending
      <3>2. /\ main.data.alarms[j].set \in Sets /\ main.data.alarms[j].set # s
            /\ rung[main.data.alarms[j].set] = 0
        BY <2>4, <3>1, AlarmTypes, AlarmFacts DEF AlarmInv, Pending
      <3> QED BY <1>3, <2>2, <3>2
    <2>8. /\ OfOnePacket(state'.alarms, state'.alarms) /\ OfOnePacket(main'.data.alarms, state'.alarms)
          /\ OfOnePacket(main'.data.alarms, main'.data.alarms)
          /\ \A j \in Slots : state'.alarms[j].set <= state'.sets /\ main'.data.alarms[j].set <= state'.sets
      BY <1>3, <1>5 DEF AlarmInv, OfOnePacket
    <2>9. \A j \in main'.due : /\ main'.pc = "alarms" /\ main'.data.alarms[j].enabled
                               /\ local'.fired[j] < main'.stamp
      BY <1>3, <1>4 DEF AlarmInv
    <2> QED BY <2>5, <2>6, <2>7, <2>8, <2>9 DEF AlarmInv, OfOnePacket, Pending
  <1> QED BY <1>6, <1>7

LEMMA AlarmStep == TypeOK /\ AlarmInv /\ [Next]_vars => AlarmInv'
  <1> SUFFICES ASSUME TypeOK, AlarmInv, [Next]_vars PROVE AlarmInv'
    OBVIOUS
  <1>1. state \in States /\ main \in MainType /\ local \in LocalType
    BY TypeParts
  <1>2. main.pc # "alarms" => main.due = {}
    BY DEF AlarmInv
  <1>3. ASSUME NEW connected \in BOOLEAN, Connection(connected)
        PROVE  AlarmInv'
    <2>1. state'.alarms = state.alarms /\ state'.sets = state.sets /\ UNCHANGED <<main, local, rung>>
      BY <1>1, <1>3 DEF Connection, States
    <2> QED BY <2>1, AlarmFrame
  <1>4. CASE \/ Request \/ SetIos \/ EndSearch \/ Act \/ Stamp \/ Hour \/ ClockMoves \/ FindAges \/ Ages
             \/ PhoneStops \/ UNCHANGED vars
    <2>1. UNCHANGED <<state, rung>> /\ local'.fired = local.fired
      BY <1>1, <1>4 DEF Request, SetIos, EndSearch, Act, Stamp, Hour, ClockMoves, FindAges, Ages, PhoneStops,
                        vars, LocalType
    <2>2. /\ main'.data = main.data /\ main'.due = main.due
          /\ main.pc = "alarms" <=> main'.pc = "alarms"
          /\ main'.stamp = main.stamp \/ main.pc # "alarms"
      BY <1>1, <1>4 DEF Request, SetIos, EndSearch, Act, Stamp, Hour, ClockMoves, FindAges, Ages, PhoneStops,
                        vars, MainType
    <2> QED BY <1>2, <2>1, <2>2, AlarmFrame
  <1>5. CASE PollBegin
    <2>1. UNCHANGED <<state, rung, local>>
      BY <1>5 DEF PollBegin
    <2>2. main'.pc # "alarms" /\ main'.data = Snapshot /\ main'.due = {}
      BY <1>1, <1>2, <1>5 DEF PollBegin, MainType
    <2> QED BY <1>1, <2>1, <2>2, SnapshotType, AlarmCopy
  <1>9. CASE Take
    <2>1. UNCHANGED <<state, rung, local>>
      BY <1>9 DEF Take
    <2>2. CASE main' = Idle
      BY <2>1, <2>2, IdleFacts, AlarmCopy
    <2>3. CASE main' # Idle
      <3>1. /\ main'.data = main.data /\ main'.due = main.due /\ main'.stamp = main.stamp
            /\ main.pc # "alarms" /\ main'.pc # "alarms"
        BY <1>1, <1>9, <2>3 DEF Take, MainType
      <3> QED BY <2>1, <3>1, AlarmFrame
    <2> QED BY <2>2, <2>3
  <1>6. CASE Finds
    <2>1. UNCHANGED <<state, rung>> /\ local'.fired = local.fired
      BY <1>1, <1>6 DEF Finds, LocalType
    <2>2. CASE main' = Idle
      BY <2>1, <2>2, IdleFacts, AlarmCopy
    <2>3. CASE main' = [main EXCEPT !.pc = "stamp"]
      BY <1>1, <1>6, <2>1, <2>3, AlarmFrame DEF Finds, MainType
    <2> QED BY <1>6, <2>2, <2>3 DEF Finds
  <1>7. CASE Minute
    <2>1. UNCHANGED <<state, rung, local>> /\ main.pc = "minute"
      BY <1>7 DEF Minute
    <2>2. main'.data = main.data /\ main'.pc = "alarms" /\ main'.stamp = main.stamp
      BY <1>1, <1>7 DEF Minute, MainType
    <2>3. \A i \in main'.due : main.data.alarms[i].enabled /\ local.fired[i] < main.stamp
      BY <1>1, <1>7 DEF Minute, MainType, DueAlarms, First
    <2>4. \A i \in Slots : Pending(i)' => Pending(i)
      BY <2>1, <2>2 DEF Pending
    <2> QED BY <2>1, <2>2, <2>3, <2>4 DEF AlarmInv, OneShotOnce
  <1>8. CASE PollEnd
    <2>1. UNCHANGED <<state, rung>> /\ main' = Idle
      BY <1>8 DEF PollEnd
    <2> QED BY <2>1, IdleFacts, AlarmCopy
  <1> QED BY <1>3, <1>4, <1>5, <1>6, <1>7, <1>8, <1>9, PacketAlarm, FiredAlarm DEF Next, Ble, Poll

-----------------------------------------------------------------------------
(* What the runs check *)

THEOREM Inductive == Spec => []IndInv
  <1>1. Init => IndInv
    BY TypeInit, LinkInit, AlarmInit DEF IndInv
  <1>2. IndInv /\ [Next]_vars => IndInv'
    BY TypeStep, LinkStep, AlarmStep DEF IndInv
  <1> QED BY <1>1, <1>2, PTL DEF Spec

\* What the two tasks hold of the link: no command of an earlier connection is still queued in the
\* next, and a phone that rings at this connection's request is known to ring.
THEOREM LinkCorrect == Spec => []LinkRight
  <1>1. IndInv => LinkRight
    BY DEF IndInv, LinkInv, LinkRight
  <1> QED BY <1>1, Inductive, PTL

\* A one-shot alarm rings at most once for each time that the phone sets it: AlarmFires and
\* companion_alarm_used, with the phone and the clock at work between any two steps of a poll.
THEOREM OneShotRings == Spec => []OneShotOnce
  <1>1. IndInv => OneShotOnce
    BY DEF IndInv, AlarmInv
  <1> QED BY <1>1, Inductive, PTL

\* No minute that was read is given twice or replayed: only an alert at a later minute than the
\* source's last moves it, also when the clock goes back within a poll.
THEOREM MinutesAdvance == Spec => AlertsAdvance
  <1>1. IndInv /\ [Next]_vars => [\A s \in DOMAIN local.fired : local'.fired[s] >= local.fired[s]]_vars
    <2> SUFFICES ASSUME IndInv, Next, ~UNCHANGED vars
                 PROVE  \A s \in DOMAIN local.fired : local'.fired[s] >= local.fired[s]
      OBVIOUS
    <2>1. /\ local \in LocalType /\ main \in MainType
          /\ local.fired \in [Sources -> 0 .. MaxMinute] /\ DOMAIN local.fired = Sources
          /\ \A s \in Sources : local.fired[s] \in Nat
          /\ main.stamp \in Nat /\ main.due \subseteq Slots
      BY Bounds, TypeParts DEF IndInv, LocalType, MainType
    <2>2. CASE AlarmFires
      <3>1. PICK i \in main.due : local' = [local EXCEPT !.fired[i] = main.stamp]
        BY <2>2 DEF AlarmFires
      <3>2. local'.fired = [local.fired EXCEPT ![i] = main.stamp] /\ local.fired[i] < main.stamp
        BY <2>1, <3>1 DEF LocalType, IndInv, AlarmInv
      <3> QED BY <2>1, <3>2 DEF Sources
    <2>3. CASE PollEnd
      <3> DEFINE due == {r \in Reminders : main.time \in main.data.reminders[r] /\ First(r)}
      <3>1. local'.fired = [s \in Sources |-> IF s \in due THEN main.stamp ELSE local.fired[s]]
        BY <2>1, <2>3 DEF PollEnd, LocalType
      <3>2. \A s \in due : local.fired[s] < main.stamp
        BY DEF First
      <3> HIDE DEF due
      <3> QED BY <2>1, <3>1, <3>2
    <2>4. CASE ~AlarmFires /\ ~PollEnd
      <3>1. local'.fired = local.fired
        BY <2>1, <2>4 DEF Next, Ble, Connection, Packet, Request, SetIos, Poll, PollBegin, EndSearch, Take,
                          Act, Finds, Stamp, Hour, Minute, ClockMoves, FindAges, Ages, PhoneStops, LocalType
      <3> QED BY <2>1, <3>1
    <2> QED BY <2>2, <2>3, <2>4
  <1> QED BY <1>1, Inductive, PTL DEF Spec, AlertsAdvance
=============================================================================
