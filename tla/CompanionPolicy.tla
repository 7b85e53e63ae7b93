-------------------------- MODULE CompanionPolicy --------------------------
(***************************************************************************)
(* companion_policy.h: when a window is active and when an alarm or a      *)
(* reminder is due, against the times that a phone's user means by them.   *)
(* The clock runs through a week for every window and every repeat mask.   *)
(***************************************************************************)
EXTENDS Integers

CONSTANT Day  \* minutes in a day

VARIABLE s  \* [window: CompanionWindow, repeat: Alarm.repeat, which companion_config accepts up to 128,
            \*  minute: the local minute of the day, weekday: getDayofWeek, where Sunday is 0]

DayMinutes == 0 .. Day - 1
Windows == [enabled : BOOLEAN, start : DayMinutes, end : DayMinutes, interval : 0 .. Day]
Repeats == 0 .. 128

\* companion_window_active.
Active(w, m) ==
  /\ w.enabled
  /\ \/ w.start = w.end
     \/ w.start < w.end /\ m >= w.start /\ m < w.end
     \/ w.start > w.end /\ (m >= w.start \/ m < w.end)

\* Mutant of ReminderDue: intervals are counted from midnight.
ReminderDueFromMidnight(w, m) == w.interval # 0 /\ Active(w, m) /\ m % w.interval = 0

\* companion_reminder_due.
ReminderDue(w, m) ==
  w.interval # 0 /\ Active(w, m) /\ ((m + Day - w.start) % Day) % w.interval = 0

Bit(mask, n) == (mask \div 2 ^ n) % 2 = 1

\* companion_alarm_due, of an enabled alarm at its hour and minute.
AlarmDue(mask, day) == mask \in {127, 128} \/ Bit(mask, IF day = 0 THEN 6 ELSE day - 1)

Init ==
  \E window \in Windows, repeat \in Repeats :
    /\ repeat = 0 \/ window = [enabled |-> FALSE, start |-> 0, end |-> 0, interval |-> 0]
    /\ s = [window |-> window, repeat |-> repeat, minute |-> 0, weekday |-> 1]

\* The minute passes, and with the last one the day.
Next ==
  LET minute == (s.minute + 1) % Day
  IN s' = [s EXCEPT !.minute = minute, !.weekday = IF minute = 0 THEN (@ + 1) % 7 ELSE @]

-----------------------------------------------------------------------------

\* How long a window lasts, and how long ago it began, going forward in time.
Length == IF s.window.start = s.window.end THEN Day ELSE (s.window.end - s.window.start) % Day
SinceStart == CHOOSE k \in DayMinutes : (s.window.start + k) % Day = s.minute

\* "Evaluate a window including midnight wrap; identical endpoints mean all day":
\* a window is active from its start for its length, wherever midnight falls.
ActiveForItsLength == Active(s.window, s.minute) <=> s.window.enabled /\ SinceStart < Length

\* A reminder is due at its start and at every interval after it that the window
\* still contains, also beyond midnight: docs/CHRONOS.md:17.
DueAtIntervals ==
  ReminderDue(s.window, s.minute) <=>
    /\ s.window.enabled
    /\ \E n \in 0 .. Day : /\ n * s.window.interval < Length
                           /\ SinceStart = n * s.window.interval
                           /\ s.window.interval # 0

\* docs/CHRONOS.md:16: "Monday-Saturday use bits 0-5, Sunday bit 6; 127 is daily";
\* a one-shot, 128, is due on whatever day comes first.
DaysOfMask ==
  AlarmDue(s.repeat, s.weekday) <=>
    \/ s.repeat = 128
    \/ \E bit \in 0 .. 6 : (bit + 1) % 7 = s.weekday /\ s.repeat % 2 ^ (bit + 1) >= 2 ^ bit

(***************************************************************************)
(* Windows, reminders and alarms are right at every minute of a week.      *)
(***************************************************************************)
SchedulesRight == ActiveForItsLength /\ DueAtIntervals /\ DaysOfMask
=============================================================================
