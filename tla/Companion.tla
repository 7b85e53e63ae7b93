------------------------------ MODULE Companion ------------------------------
(***************************************************************************)
(* companion/: what the Chronos app sends, shared under a mutex between    *)
(* the BLE host task and the main task (companion_state.cpp), and the main *)
(* task's commands, alarms and reminders (companion_service.cpp).          *)
(*                                                                         *)
(* A poll is several steps, one per use of the mutex or of the clock, with *)
(* BLE packets and the clock free to move between them.  Minutes are       *)
(* absolute; the hour and the minute of the day are read from them apart.  *)
(* Spans of time (15 s, 5 s, 500 ms) are either over or not.               *)
(***************************************************************************)
EXTENDS Naturals, FiniteSets

CONSTANTS
  Slots,        \* alarm slots, of the eight
  Reminders,    \* water and movement, the sources 8 and 9
  DayHours,     \* hours in a day
  HourMinutes,  \* minutes in an hour
  MaxMinute,    \* bound: the clock's last minute
  MaxSets,      \* bound: alarms sent by the phone
  MaxLinks,     \* bound: connections
  MaxFinds      \* bound: find requests of the phone

ASSUME CompanionConstants ==
  /\ Slots \subseteq Nat /\ Reminders \subseteq Nat /\ Slots \cap Reminders = {}
  /\ {DayHours, HourMinutes, MaxMinute} \subseteq Nat \ {0}
  /\ {MaxSets, MaxLinks, MaxFinds} \subseteq Nat

VARIABLES
  state,   \* companion_state.cpp: state; link counts its connections
  action,  \* companion_state.cpp: action, and the connection it was requested in
  main,    \* where companion_poll is: its snapshot, the action it took, the time it read
  local,   \* companion_service.cpp: finding, find_at, seen_finds, fired, ...
  clock,   \* the watch's clock: the absolute minute, and clock_valid
  phone,   \* the connection that made the phone ring, 0 if it does not
  ios,     \* settings: phone_ios
  rung,    \* history: how often each one-shot alarm has rung
  heard    \* history: alerts of each reminder since the clock last changed

vars == <<state, action, main, local, clock, phone, ios, rung, heard>>

Sources == Slots \cup Reminders
Minutes == 1 .. MaxMinute
Sets == 1 .. MaxSets
Links == 0 .. MaxLinks

\* Times of the day: the hour and the minute in it.
Times == (0 .. DayHours - 1) \X (0 .. HourMinutes - 1)
HourOf(minute) == (minute \div HourMinutes) % DayHours
MinuteOf(minute) == minute % HourMinutes

\* An alarm, with the packet that set it; used once it was disabled locally.
NoAlarm == [set |-> 0, at |-> 0, once |-> FALSE, enabled |-> FALSE, used |-> FALSE]
Alarms == {NoAlarm} \cup
  [set : Sets, at : Times, once : BOOLEAN, enabled : BOOLEAN, used : BOOLEAN]

\* A reminder is the times of the day at which it is due.
Windows == SUBSET Times

\* contents: any of battery, contacts, QR codes and forecast is present.
States ==
  [connected : BOOLEAN, link : Links, camera : BOOLEAN, contents : BOOLEAN,
   alarms : [Slots -> Alarms], reminders : [Reminders -> Windows],
   finds : 0 .. MaxFinds, sets : 0 .. MaxSets]

\* CompanionSnapshot, as far as a poll uses it.
Snapshots ==
  [connected : BOOLEAN, alarms : [Slots -> Alarms], reminders : [Reminders -> Windows],
   finds : 0 .. MaxFinds]

Snapshot == [field \in {"connected", "alarms", "reminders", "finds"} |-> state[field]]

Kinds == {"None", "FindPhone", "StopFind", "Camera"}
NoAction == [kind |-> "None", link |-> 0]

TypeOK ==
  /\ state \in States
  /\ action \in [kind : Kinds, link : Links]
  /\ main \in [pc : {"idle", "search", "take", "act", "finds", "stamp", "hour", "minute", "alarms"},
               data : Snapshots, taken : [kind : Kinds, link : Links], stamp : 0 .. MaxMinute,
               time : Times, due : SUBSET Slots]
  /\ local \in [finding : BOOLEAN, findDue : BOOLEAN, acted : BOOLEAN,
                seen : 0 .. MaxFinds, alerted : BOOLEAN, fired : [Sources -> 0 .. MaxMinute]]
  /\ clock \in [minute : Minutes, valid : BOOLEAN]
  /\ phone \in Links /\ ios \in BOOLEAN
  /\ rung \in [Sets -> 0 .. 2] /\ heard \in [Reminders -> 0 .. 2]

\* No poll: its locals are gone.
Idle ==
  [pc |-> "idle", taken |-> NoAction, stamp |-> 0, time |-> <<0, 0>>, due |-> {},
   data |-> [connected |-> FALSE, alarms |-> [i \in Slots |-> NoAlarm],
             reminders |-> [r \in Reminders |-> {}], finds |-> 0]]

-----------------------------------------------------------------------------
(* The BLE host task *)

\* Mutant of Connection: what was asked of the last connection stays queued.
ConnectionKeepsAction(connected) ==
  /\ state.connected # connected
  /\ IF connected
     THEN /\ state.link < MaxLinks
          /\ state' = [state EXCEPT !.connected = TRUE, !.link = @ + 1]
     ELSE state' = [state EXCEPT !.connected = FALSE, !.camera = FALSE, !.contents = FALSE]
  /\ UNCHANGED <<action, main, local, clock, phone, ios, rung, heard>>

\* companion_connection.
Connection(connected) ==
  /\ state.connected # connected
  /\ IF connected
     THEN /\ state.link < MaxLinks
          /\ state' = [state EXCEPT !.connected = TRUE, !.link = @ + 1]
          /\ UNCHANGED action
     ELSE /\ state' = [state EXCEPT !.connected = FALSE, !.camera = FALSE, !.contents = FALSE]
          /\ action' = NoAction
  /\ UNCHANGED <<main, local, clock, phone, ios, rung, heard>>

Received ==
  \/ \E ready \in BOOLEAN : state' = [state EXCEPT !.camera = ready]
  \/ \E any \in BOOLEAN : state' = [state EXCEPT !.contents = any]
  \/ state.finds < MaxFinds /\ state' = [state EXCEPT !.finds = @ + 1]
  \/ \E r \in Reminders, due \in Windows : state' = [state EXCEPT !.reminders[r] = due]
  \/ /\ state.sets < MaxSets
     /\ \E i \in Slots, at \in Times, once, enabled \in BOOLEAN :
          state' = [state EXCEPT !.sets = @ + 1,
                      !.alarms[i] = [set |-> state.sets + 1, at |-> at, once |-> once,
                                     enabled |-> enabled, used |-> FALSE]]

\* companion_config and companion_data: nothing without a connection, since a
\* packet that was received before the link was lost may be handled after it.
Packet ==
  /\ state.connected /\ Received
  /\ UNCHANGED <<action, main, local, clock, phone, ios, rung, heard>>

Ble == (\E connected \in BOOLEAN : Connection(connected)) \/ Packet

-----------------------------------------------------------------------------
(* The main task outside a poll *)

\* companion_request, as phone_view_tap calls it.
Request ==
  /\ main.pc = "idle"
  /\ state.connected /\ action.kind = "None"
  /\ \E kind \in {IF local.finding THEN "StopFind" ELSE "FindPhone", "Camera"} :
       /\ kind = "Camera" => state.camera
       /\ action' = [kind |-> kind, link |-> state.link]
  /\ UNCHANGED <<state, main, local, clock, phone, ios, rung, heard>>

\* settings: the phone mode is changed, before the restart that follows it.
SetIos ==
  /\ main.pc = "idle" /\ ios' = ~ios
  /\ UNCHANGED <<state, action, main, local, clock, phone, rung, heard>>

-----------------------------------------------------------------------------
(* companion_poll *)

\* findPhone(active): a command without a connection is lost.
Ring(active) ==
  phone' = IF ~state.connected THEN phone ELSE IF active THEN state.link ELSE 0

\* Mutant of SearchOver: a search has no time of its own.
SearchUnbounded == local.finding /\ (ios \/ ~state.connected)

\* A search ends with its connection, after fifteen seconds, and in iPhone mode:
\* judged by the snapshot and the time of the poll, with which it begins.
SearchOver == local.finding /\ (ios \/ ~state.connected \/ local.findDue)

\* companion_snapshot.
PollBegin ==
  /\ main.pc = "idle"
  /\ main' = [main EXCEPT !.pc = IF SearchOver THEN "search" ELSE "take", !.data = Snapshot]
  /\ UNCHANGED <<state, action, local, clock, phone, ios, rung, heard>>

\* The search is ended, in commands() or in iPhone mode, before companion_take.
EndSearch ==
  /\ main.pc = "search"
  /\ main' = [main EXCEPT !.pc = "take"]
  /\ local' = [local EXCEPT !.finding = FALSE]
  /\ IF main.data.connected THEN Ring(FALSE) ELSE UNCHANGED phone
  /\ UNCHANGED <<state, action, clock, ios, rung, heard>>

\* companion_take empties the queue, also when what it held will not be done: in
\* iPhone mode, which ends the poll, and within 500 ms of the last action.
Take ==
  /\ main.pc = "take"
  /\ LET taken == IF state.connected THEN action ELSE NoAction
     IN main' = IF ios THEN Idle
                ELSE [main EXCEPT !.pc = IF taken.kind = "None" THEN "finds" ELSE "act",
                                  !.taken = taken]
  /\ action' = NoAction
  /\ UNCHANGED <<state, local, clock, phone, ios, rung, heard>>

\* The rest of commands: the link may be another by now.
Act ==
  /\ main.pc = "act"
  /\ main' = [main EXCEPT !.pc = "finds", !.taken = NoAction]
  /\ LET kind == main.taken.kind
     IN \/ /\ kind = "StopFind"
           /\ local' = [local EXCEPT !.finding = FALSE] /\ Ring(FALSE)
        \/ /\ kind = "FindPhone" /\ ~local.acted
           /\ local' = [local EXCEPT !.finding = TRUE, !.findDue = FALSE, !.acted = TRUE]
           /\ Ring(TRUE)
        \/ /\ kind = "Camera" /\ ~local.acted
           /\ local' = [local EXCEPT !.acted = TRUE] /\ UNCHANGED phone
        \/ /\ kind # "StopFind" /\ local.acted
           /\ UNCHANGED <<local, phone>>
  /\ UNCHANGED <<state, action, clock, ios, rung, heard>>

\* A find request of the phone; then the schedules, if the clock is trusted.
Finds ==
  /\ main.pc = "finds"
  /\ local' = [local EXCEPT !.seen = main.data.finds,
                 !.alerted = @ \/ (main.data.finds # local.seen /\ main.data.connected)]
  /\ main' = IF clock.valid THEN [main EXCEPT !.pc = "stamp"] ELSE Idle
  /\ UNCHANGED <<state, action, clock, phone, ios, rung, heard>>

\* getEpoch, and after it getHour and getMinute; the weekday is CompanionPolicy's.
Stamp ==
  /\ main.pc = "stamp"
  /\ main' = [main EXCEPT !.pc = "hour", !.stamp = clock.minute]
  /\ UNCHANGED <<state, action, local, clock, phone, ios, rung, heard>>

Hour ==
  /\ main.pc = "hour"
  /\ main' = [main EXCEPT !.pc = "minute", !.time = <<HourOf(clock.minute), 0>>]
  /\ UNCHANGED <<state, action, local, clock, phone, ios, rung, heard>>

\* Mutant of First: only a repeated minute is refused.
FirstOther(source) == local.fired[source] # main.stamp

\* once: the source has not fired at this minute or at a later one.
First(source) == local.fired[source] < main.stamp

DueAlarms(data, time) ==
  {i \in Slots : data.alarms[i].enabled /\ data.alarms[i].at = time /\ First(i)}

Minute ==
  /\ main.pc = "minute"
  /\ LET time == <<main.time[1], MinuteOf(clock.minute)>>
     IN main' = [main EXCEPT !.pc = "alarms", !.time = time, !.due = DueAlarms(main.data, time)]
  /\ UNCHANGED <<state, action, local, clock, phone, ios, rung, heard>>

\* Mutant of Used: an alarm that has rung stays enabled.
NotUsed(i) == UNCHANGED state

\* companion_alarm_used.
Used(i) ==
  IF state.alarms[i].once
  THEN state' = [state EXCEPT !.alarms[i].enabled = FALSE,
                              !.alarms[i].used = @ \/ state.alarms[i].enabled]
  ELSE UNCHANGED state

Counted(n) == IF n = 2 THEN 2 ELSE n + 1

\* The next alarm that is due, in the order of the slots.
AlarmFires ==
  /\ main.pc = "alarms"
  /\ \E i \in main.due :
       /\ \A j \in main.due : i <= j
       /\ local' = [local EXCEPT !.fired[i] = main.stamp]
       /\ main' = [main EXCEPT !.due = @ \ {i}]
       /\ Used(i)
       /\ LET alarm == main.data.alarms[i]
          IN rung' = IF alarm.once THEN [rung EXCEPT ![alarm.set] = Counted(@)] ELSE rung
  /\ UNCHANGED <<action, clock, phone, ios, heard>>

\* The reminders, which need nothing but the snapshot.
PollEnd ==
  /\ main.pc = "alarms" /\ main.due = {}
  /\ LET due == {r \in Reminders : main.time \in main.data.reminders[r] /\ First(r)}
     IN /\ local' = [local EXCEPT !.fired =
                       [s \in Sources |-> IF s \in due THEN main.stamp ELSE @[s]]]
        /\ heard' = [r \in Reminders |-> IF r \in due THEN Counted(heard[r]) ELSE heard[r]]
  /\ main' = Idle
  /\ UNCHANGED <<state, action, clock, phone, ios, rung>>

Poll ==
  \/ PollBegin \/ EndSearch \/ Take \/ Act \/ Finds
  \/ Stamp \/ Hour \/ Minute \/ AlarmFires \/ PollEnd

-----------------------------------------------------------------------------
(* The clock and the phone *)

\* A minute passes, or the phone or the network sets the clock.
ClockMoves ==
  /\ \E minute \in Minutes :
       /\ minute # clock.minute /\ clock' = [minute |-> minute, valid |-> TRUE]
  /\ heard' = [r \in Reminders |-> 0]
  /\ UNCHANGED <<state, action, main, local, phone, ios, rung>>

\* Fifteen seconds since find_at.
FindAges ==
  /\ local.finding /\ ~local.findDue
  /\ local' = [local EXCEPT !.findDue = TRUE]
  /\ UNCHANGED <<state, action, main, clock, phone, ios, rung, heard>>

\* Half a second since action_at, and five seconds since last_find_alert.
Ages ==
  /\ \/ local.acted /\ local' = [local EXCEPT !.acted = FALSE]
     \/ local.alerted /\ local' = [local EXCEPT !.alerted = FALSE]
  /\ UNCHANGED <<state, action, main, clock, phone, ios, rung, heard>>

\* The user stops the phone, or the app's own time is over.
PhoneStops ==
  /\ phone # 0 /\ phone' = 0
  /\ UNCHANGED <<state, action, main, local, clock, ios, rung, heard>>

-----------------------------------------------------------------------------

Init ==
  /\ state = [connected |-> FALSE, link |-> 0, camera |-> FALSE, contents |-> FALSE,
              alarms |-> [i \in Slots |-> NoAlarm], reminders |-> [r \in Reminders |-> {}],
              finds |-> 0, sets |-> 0]
  /\ action = NoAction
  /\ main = Idle
  /\ local = [finding |-> FALSE, findDue |-> FALSE, acted |-> FALSE, seen |-> 0,
              alerted |-> FALSE, fired |-> [s \in Sources |-> 0]]
  /\ clock = [minute |-> 1, valid |-> FALSE] /\ phone = 0 /\ ios = FALSE
  /\ rung = [s \in Sets |-> 0] /\ heard = [r \in Reminders |-> 0]

Next ==
  \/ Ble \/ Request \/ SetIos \/ Poll
  \/ ClockMoves \/ FindAges \/ Ages \/ PhoneStops

Spec == Init /\ [][Next]_vars

\* The loop polls, and time passes.
FairSpec == Spec /\ WF_vars(Poll) /\ WF_vars(FindAges)

-----------------------------------------------------------------------------
(* Safety *)

\* docs/CHRONOS.md:16: a one-shot alarm rings at most once for each time the
\* phone sets it, whatever the phone, the clock and the link do meanwhile.
OneShotOnce == \A s \in DOMAIN rung : rung[s] <= 1

\* A queued command is of the connection that is up: none that was asked for
\* before a link was lost is still to be taken in the next.
ActionIsCurrent == action.kind # "None" => state.connected /\ action.link = state.link

\* While the phone rings at the request of this connection the search is known,
\* so that the screen offers to stop it.
RingKnown == state.connected /\ phone = state.link => local.finding

\* What the two tasks hold of the link and of the search.
LinkRight == ActionIsCurrent /\ RingKnown

\* "Missed minutes are not replayed after a clock jump": docs/CHRONOS.md:26, so
\* the minute of a source's last alert never goes back.
AlertsAdvance == [][\A s \in DOMAIN local.fired : local'.fired[s] >= local.fired[s]]_vars

\* What was taken is sent on the connection it was asked for in.  It does not hold:
\* README.md, section 7.
SentIsCurrent == main.taken.kind # "None" /\ state.connected => main.taken.link = state.link

\* companion_state.h:46: "Disable a fired one-shot in the owned session copy":
\* a one-shot that was disabled has rung.
DisabledHasRung ==
  \A i \in Slots : state.alarms[i].used => rung[state.alarms[i].set] > 0

\* docs/CHRONOS.md:17: "Alerts fire once per due absolute minute."  It does not
\* hold: README.md, section 7.
OncePerMinute == \A r \in Reminders : heard[r] <= 1

-----------------------------------------------------------------------------
(* Liveness *)

\* "The local search stops after fifteen seconds while connected":
\* docs/CHRONOS.md:13.
SearchEnds ==
  state.connected /\ phone = state.link ~> ~(state.connected /\ phone = state.link)
=============================================================================
