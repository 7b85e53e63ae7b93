---------------------------- MODULE Orientation ----------------------------
(***************************************************************************)
(* imu_orientation.h, imu_calibration_store.h and their callers: the       *)
(* calibration of the accelerometer, its record in flash, and the turning  *)
(* of the display by 180 degrees.  Time is counted in polls of 50 ms; a    *)
(* gravity vector is one of a few poses.  The sensor is there.             *)
(***************************************************************************)
EXTENDS Integers

CONSTANTS
  Samples,  \* that a calibration averages (20)
  Settle,   \* polls for which a pose must last to turn the display (12)
  Timeout,  \* polls after which a calibration gives up (100)
  Gap       \* polls between two samples that belong together (3)

VARIABLE s  \* ImuOrientation: [status, count, first, age: since started, lag: since previous,
            \*  since: since pending_since, reference, flip: reference_flip, wanted, pending, tracking, enabled,
            \*  applied, persisted, manual_at]; manual: the setting, record: in flash; pose: how the device is
            \*  held; history: held, polls in a row that had a sample in time and no finger

\* Two opposite poses in the plane of the display; a pose across it, as one flat on its back; and
\* movement, which no vector of about 1 g stands for.
Upright == {"up", "down"}
Poses == Upright \cup {"across"}
Opposite(p, q) == {p, q} = {"up", "down"}
NoRecord == [pose |-> "none", flip |-> FALSE]

AtMost(n, bound) == IF n < bound THEN n ELSE bound

\* Time passes for what is under way.
Elapsed(x, polls) ==
  IF x.status = "Sampling" THEN [x EXCEPT !.age = AtMost(@ + polls, Timeout), !.lag = AtMost(@ + polls, Gap + 1)]
  ELSE IF x.tracking THEN [x EXCEPT !.lag = AtMost(@ + polls, Gap + 1), !.since = AtMost(@ + polls, Settle)]
  ELSE x

\* The next sample begins a pose, whatever it is.
Untracked(x) == [x EXCEPT !.tracking = FALSE, !.pending = FALSE, !.since = 0, !.lag = 0]

\* Without a reference: what is left of one is not looked at any more.
Unused(x, status) ==
  [Untracked(x) EXCEPT !.status = status, !.count = 0, !.first = "none", !.age = 0, !.reference = "none",
                       !.flip = FALSE, !.wanted = FALSE, !.persisted = FALSE, !.manual_at = FALSE, !.held = 0]

\* ImuOrientation::tick.
Tick(x) == IF x.status = "Sampling" /\ x.age >= Timeout THEN Unused(x, "Failed") ELSE x

\* ImuOrientation::target: a manual turn ends the use of the reference.
Checked(x) == IF x.status = "Ready" /\ x.manual # x.manual_at THEN Unused(x, "Idle") ELSE x
Target(x) == IF x.enabled /\ x.status = "Ready" THEN x.wanted ELSE x.manual

\* Mutant of Calibrating: the record says how the screen flip is set.
CalibratingManual(x) ==
  LET stable == x.pose \in Poses /\ (x.count = 0 \/ x.pose = x.first)
      kept == IF stable /\ x.lag <= Gap THEN x.count ELSE 0
      next == [x EXCEPT !.lag = 0, !.count = IF stable THEN kept + 1 ELSE 0,
                        !.first = IF stable THEN x.pose ELSE "none"]
      ready == [next EXCEPT !.status = "Ready", !.reference = x.pose, !.persisted = FALSE, !.count = 0, !.first = "none", !.age = 0]
  IN IF next.count < Samples THEN {next}
     ELSE {ready, [ready EXCEPT !.persisted = TRUE, !.record = [pose |-> x.pose, flip |-> x.manual]]}

\* ImuOrientation::sample while calibrating: a sample that differs, or that is late, starts again;
\* the last one makes a reference, which eyes_imu_poll saves if it can.
Calibrating(x) ==
  LET stable == x.pose \in Poses /\ (x.count = 0 \/ x.pose = x.first)
      kept == IF stable /\ x.lag <= Gap THEN x.count ELSE 0
      next == [x EXCEPT !.lag = 0, !.count = IF stable THEN kept + 1 ELSE 0,
                        !.first = IF stable THEN x.pose ELSE "none"]
      ready == [next EXCEPT !.status = "Ready", !.reference = x.pose, !.persisted = FALSE, !.count = 0, !.first = "none", !.age = 0]
  IN IF next.count < Samples THEN {next}
     ELSE {ready, [ready EXCEPT !.persisted = TRUE, !.record = [pose |-> x.pose, flip |-> x.flip]]}

\* A pose along the reference, in the plane of the display.
Known(x) == {x.pose, x.reference} \subseteq Upright

\* ImuOrientation::sample with a reference: its pose, or the opposite one, for long enough.
Following(x) ==
  LET candidate == x.flip # Opposite(x.pose, x.reference)
      begins == ~x.tracking \/ x.pending # candidate \/ x.lag > Gap
      next == [x EXCEPT !.tracking = TRUE, !.pending = candidate, !.lag = 0, !.since = IF begins THEN 0 ELSE @]
  IN IF ~x.enabled \/ x.status # "Ready" \/ ~Known(x) THEN Untracked(x)
     ELSE [next EXCEPT !.wanted = IF next.since >= Settle THEN candidate ELSE @]

Sampled(x) == IF x.status = "Sampling" THEN Calibrating(x) ELSE {Following(x)}

\* The loop: eyes_imu_poll, which may fail to read, then the display, while no finger is on it.
Poll(polls, reads, touched) ==
  LET ticked == Tick(Elapsed(s, polls))
  IN \E x \in IF reads THEN Sampled(Checked(ticked)) ELSE {ticked} :
       LET done == Checked(x)
           steady == done.status = "Ready" /\ done.enabled /\ Known(done) /\ reads /\ ~touched /\ polls <= Gap
       IN s' = [done EXCEPT !.applied = IF touched THEN @ ELSE Target(done),
                            !.held = IF steady THEN AtMost(@ + 1, Settle + 1) ELSE 0]

Polls == \E polls \in {1, Gap + 1}, reads, touched \in BOOLEAN : Poll(polls, reads, touched)

\* eyes_imu_calibrate: the reference will be of what is displayed.  The calibration is as old as
\* millis() says, and the poll that follows has an earlier now: if a millisecond has ended between
\* them its tick takes the age, which is unsigned, for a timeout.
Calibrate ==
  \/ s' = [Unused(s, "Sampling") EXCEPT !.manual_at = s.manual, !.flip = s.applied, !.wanted = s.applied]
  \/ s' = Unused(s, "Failed")

\* The rows of the menu, and the hand that holds the device.
ManualFlip == s' = [s EXCEPT !.manual = ~@, !.held = 0]
AutoRotate == s' = [s EXCEPT !.enabled = ~@, !.held = 0]
Moves == \E pose \in (Poses \cup {"moving"}) \ {s.pose} : s' = [s EXCEPT !.pose = pose, !.held = 0]

Booted(record, manual) ==
  [status |-> IF record = NoRecord THEN "Idle" ELSE "Ready", count |-> 0, first |-> "none", age |-> 0, lag |-> 0,
   since |-> 0, reference |-> record.pose, flip |-> record.flip, wanted |-> record.flip, pending |-> FALSE,
   tracking |-> FALSE, enabled |-> TRUE, applied |-> manual, persisted |-> record # NoRecord, manual_at |-> manual,
   manual |-> manual, record |-> record, pose |-> "up", held |-> 0]

\* init_screen and eyes_imu_init, which restores the record; the setting may not have been saved.
Reboot ==
  \E manual \in BOOLEAN : s' = [Booted(s.record, manual) EXCEPT !.pose = s.pose]

Init == s = Booted(NoRecord, FALSE)
Next == Polls \/ Calibrate \/ ManualFlip \/ AutoRotate \/ Moves \/ Reboot

-----------------------------------------------------------------------------

\* The reference that the menu calls saved is the one that the next boot restores.
RecordKept == s.status = "Ready" /\ s.persisted => s.record = [pose |-> s.reference, flip |-> s.flip]

\* "A stable upside-down pose for 600ms rotates the entire UI and touch mapping by 180 degrees;
\* returning upright restores it" (docs/SETTINGS.md:92), whatever went before.
Turned == s.held > Settle => s.applied = (s.flip # Opposite(s.pose, s.reference))

(***************************************************************************)
(* Calibrations that are repeated, time out or are not saved, manual turns *)
(* and reboots leave a reference, a record and a display that agree.       *)
(***************************************************************************)
OrientationRight == RecordKept /\ Turned
=============================================================================
