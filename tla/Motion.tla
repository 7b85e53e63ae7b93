------------------------------ MODULE Motion ------------------------------
(***************************************************************************)
(* MotionFilter::detect and PickupPolicy::update: which accelerations are a*)
(* shake and which a lift.  A sample is read every 50 ms, or later when    *)
(* the loop or the sensor is late.  An acceleration is one of the classes  *)
(* that the comparisons tell apart; the pose is a place on a line.         *)
(***************************************************************************)
EXTENDS Integers, Sequences, FiniteSets

CONSTANTS
  Between,     \* samples between two impulses of a shake (800 ms)
  ShakePause,  \* samples between two shakes (5 s)
  Impulses,    \* bound: impulses without a pause
  Gap,         \* samples after which a lift begins again (150 ms)
  RestAge,     \* samples at rest before a lift (1.2 s)
  Window,      \* samples from the impulse of a lift to its end (1.5 s)
  Settle,      \* samples at rest after it (200 ms)
  LiftPause    \* samples between two lifts (6 s)

VARIABLE s

\* Ages are counted up to one more than the limit that they are compared with.
Older(age, samples, limit) == IF age + samples > limit THEN limit + 1 ELSE age + samples

(***************************************************************************)
(* Shakes: [strong, reversals, previous: fields of MotionFilter; strongAge,*)
(* shakeAge: its times, the latter -1 when it is not cooling; shake: what  *)
(* the last sample returned].  History: impulses, those that count, as     *)
(* <<direction, more than 800 ms after the one before>>; last, the samples *)
(* since the last shake, or -1; replaced, whether the filter is another    *)
(* one since.                                                              *)
(***************************************************************************)
Directions == {"left", "right", "side"}
Opposed(a, b) == {a, b} = {"left", "right"}

Cools(x) == x.shakeAge >= 0 /\ x.shakeAge < ShakePause

\* detect, of an impulse of at least 1.2 g.
Impulse(x, d) ==
  LET reversals == IF ~x.strong \/ x.strongAge > Between THEN 0
                   ELSE x.reversals + (IF Opposed(d, x.previous) THEN 1 ELSE 0)
      y == [x EXCEPT !.previous = d, !.strongAge = 0, !.strong = reversals < 3,
                     !.reversals = IF reversals < 3 THEN reversals ELSE 0]
  IN IF reversals < 3 THEN y ELSE [y EXCEPT !.shake = TRUE, !.shakeAge = 0]

\* detect, of a sample that is weak ("") or an impulse.
Detect(x, d, enabled) ==
  IF ~enabled THEN [x EXCEPT !.strong = FALSE, !.reversals = 0]
  ELSE IF Cools(x) \/ d = "" THEN x
  ELSE Impulse(x, d)

\* The history begins again when shakes are off, and after a shake.
Recorded(d, enabled, cools, since) ==
  LET impulses == IF s.shake THEN <<>> ELSE s.impulses
  IN IF ~enabled THEN <<>>
     ELSE IF d = "" \/ cools THEN impulses
     ELSE Append(impulses, <<d, since > Between>>)

\* What is recorded of the time since the last event.
Since(event, age, samples, limit) == IF event THEN samples ELSE IF age < 0 THEN -1 ELSE Older(age, samples, limit)

Shaken(samples, d, enabled) ==
  LET x == [s EXCEPT !.shake = FALSE, !.strongAge = IF s.strong THEN Older(@, samples, Between) ELSE 0,
                     !.shakeAge = IF @ < 0 THEN @ ELSE Older(@, samples, ShakePause)]
      impulses == Recorded(d, enabled, Cools(x), x.strongAge)
  IN /\ Len(impulses) <= Impulses
     /\ s' = [Detect(x, d, enabled) EXCEPT !.impulses = impulses, !.last = Since(s.shake, @, samples, ShakePause),
                                          !.replaced = @ /\ ~s.shake]

\* eyes_imu_poll, when the display has turned or a calibration has ended: the filter is replaced, and
\* with it the cooldown.  The sample is the new baseline or near it, so it is weak.
Replaced(samples) ==
  s' = [s EXCEPT !.strong = FALSE, !.reversals = 0, !.previous = "side", !.strongAge = 0, !.shakeAge = -1, !.shake = FALSE,
                 !.impulses = <<>>, !.last = Since(s.shake, @, samples, ShakePause), !.replaced = TRUE]

ShakeInit ==
  s = [unit |-> "shake", strong |-> FALSE, reversals |-> 0, previous |-> "side", strongAge |-> 0, shakeAge |-> -1,
       shake |-> FALSE, impulses |-> <<>>, last |-> -1, replaced |-> FALSE]

ShakeNext ==
  \/ \E samples \in {1, Between}, d \in Directions \cup {""}, enabled \in BOOLEAN : Shaken(samples, d, enabled)
  \/ \E samples \in {1, Between} : Replaced(samples)

(***************************************************************************)
(* Lifts: [sampled, quiet, armed, moving, previous, parked: fields of      *)
(* PickupPolicy; quietAge, motionAge, liftAge: its times; lift: what the   *)
(* last sample returned].  History: calm, for how long the samples have    *)
(* been like the ones before; rests, where the device has rested for long  *)
(* enough, as <<pose, samples since the impulse that ended it or -1>>.     *)
(***************************************************************************)
\* Two neighbours are more than 0.1 g apart, and others more than 0.15 g.
Poses == 0 .. 3
Apart(a, b) == IF a < b THEN b - a ELSE a - b

\* The difference of the magnitude from 1 g: below 0.08 g, below 0.18 g, below the limits, beyond.
\* After a strong one, no sample is like the one before.
Forces == {"calm", "slight", "strong", "violent"}

\* A field that is set before it is read again is kept at 0.
Forgot(x) ==
  [x EXCEPT !.quietAge = IF x.quiet THEN @ ELSE 0, !.motionAge = IF x.moving THEN @ ELSE 0,
            !.parked = IF x.armed \/ x.moving THEN @ ELSE 0]

Halted(x) == [x EXCEPT !.quiet = FALSE, !.armed = FALSE, !.moving = FALSE]
Reset == [Halted(s) EXCEPT !.sampled = FALSE, !.previous = -1, !.liftAge = -1, !.lift = FALSE]

\* A strong acceleration of a device at rest, or a slow turn of it, ends the rest.
Moved(x, pose, force) ==
  LET hit == x.armed /\ force = "strong"
      y == IF hit THEN [x EXCEPT !.moving = TRUE, !.armed = FALSE, !.quiet = FALSE, !.motionAge = 0] ELSE x
      z == IF y.moving /\ y.motionAge > Window THEN [y EXCEPT !.moving = FALSE, !.quiet = FALSE] ELSE y
  IN IF z.armed /\ Apart(pose, z.parked) >= 1 THEN [z EXCEPT !.armed = FALSE, !.quiet = FALSE] ELSE z

\* A sample that is like the one before.
Stilled(x, pose) ==
  LET y == IF x.quiet THEN x ELSE [x EXCEPT !.quiet = TRUE, !.quietAge = 0]
  IN IF y.moving /\ y.quietAge >= Settle /\ Apart(pose, y.parked) >= 2
     THEN [Halted(y) EXCEPT !.liftAge = 0, !.lift = TRUE]
     ELSE IF ~y.moving /\ ~y.armed /\ y.quietAge >= RestAge THEN [y EXCEPT !.armed = TRUE, !.parked = pose]
     ELSE y

Still(pose, force) == force = "calm" /\ pose = s.previous

\* PickupPolicy::update, when enabled.
Sampled(x, samples, pose, force) ==
  LET moved == Moved(x, pose, force)
  IN IF ~s.sampled \/ samples > Gap THEN [Halted(x) EXCEPT !.sampled = TRUE]
     ELSE IF (x.liftAge >= 0 /\ x.liftAge < LiftPause) \/ force = "violent" THEN Halted(x)
     ELSE IF Still(pose, force) THEN Stilled(moved, pose) ELSE [moved EXCEPT !.quiet = FALSE]

\* The history begins again after a gap, a violent sample and a lift.
Held(x, samples, pose, force) ==
  LET broken == ~s.sampled \/ samples > Gap \/ force = "violent" \/ s.lift
      calm == IF ~broken /\ Still(pose, force) THEN Older(s.calm, samples, RestAge) ELSE 0
      ended == {<<r[1], IF r[2] >= 0 THEN r[2] + samples ELSE 0>> :
                  r \in {q \in s.rests : (q[2] < 0 => force = "strong") /\ q[2] + samples <= Window}}
      lasting == {r \in s.rests : r[2] < 0 /\ force # "strong" /\ r[1] = pose}
  IN [x EXCEPT !.calm = calm, !.previous = IF force \in {"calm", "slight"} THEN pose ELSE -1,
               !.rests = (IF broken THEN {} ELSE ended \cup lasting) \cup (IF calm >= RestAge THEN {<<pose, -1>>} ELSE {})]

\* A sample; what is forgotten when lifts are off is so too by eyes_imu_poll when the display has turned,
\* and while a calibration goes on.
Lifted(samples, pose, force, enabled) ==
  LET x == [s EXCEPT !.quietAge = Older(@, samples, RestAge), !.motionAge = Older(@, samples, Window), !.lift = FALSE,
                     !.liftAge = IF @ < 0 THEN @ ELSE Older(@, samples, LiftPause),
                     !.last = Since(s.lift, @, samples, LiftPause)]
  IN s' = IF enabled THEN Forgot(Held(Sampled(x, samples, pose, force), samples, pose, force))
          ELSE [Forgot(Reset) EXCEPT !.calm = 0, !.rests = {}, !.last = -1]

LiftInit ==
  s = [unit |-> "lift", sampled |-> FALSE, quiet |-> FALSE, armed |-> FALSE, moving |-> FALSE, previous |-> -1, parked |-> 0,
       quietAge |-> 0, motionAge |-> 0, liftAge |-> -1, lift |-> FALSE, calm |-> 0, rests |-> {}, last |-> -1]

LiftNext ==
  \E samples \in {1, Gap + 1}, pose \in Poses, force \in Forces, enabled \in BOOLEAN : Lifted(samples, pose, force, enabled)

Init == ShakeInit \/ LiftInit

Next ==
  \/ s.unit = "shake" /\ ShakeNext
  \/ s.unit = "lift" /\ LiftNext

-----------------------------------------------------------------------------

\* Impulses without a break in time, and those of them against the one before.
Unbroken(i) == \A j \in i + 1 .. Len(s.impulses) : ~s.impulses[j][2]
Reversals == {i \in 2 .. Len(s.impulses) : Unbroken(i - 1) /\ Opposed(s.impulses[i - 1][1], s.impulses[i][1])}

\* "Shake-to-dizzy is opt-in and requires three opposing strong impulses within 800ms between
\* impulses, followed by a five-second cooldown." (docs/UI.md:369)  The cooldown is not longer than
\* the filter's life: two shakes that are closer have a turn of the display or a calibration between
\* them, and the impulses of the second all came after it.
ShakesDeliberate ==
  /\ s.shake <=> Cardinality(Reversals) >= 3
  /\ s.shake => s.last < 0 \/ s.last >= ShakePause \/ s.replaced

\* The five-second cooldown of docs/UI.md:369 without that exception.  It does not hold: README.md, section 7.
ShakesApart == s.shake => s.last < 0 \/ s.last >= ShakePause

\* "a stable 1.2-second rest, a moderate impulse, a changed pose settled for 200 ms within 1.5
\* seconds, and a six-second cooldown" (docs/TESTING.md:80)
LiftsSettle ==
  s.lift =>
    /\ \E r \in s.rests : r[2] >= 0 /\ Apart(s.previous, r[1]) >= 2
    /\ s.calm >= Settle
    /\ s.last < 0 \/ s.last >= LiftPause

MotionRight ==
  /\ s.unit = "shake" => ShakesDeliberate
  /\ s.unit = "lift" => LiftsSettle
=============================================================================
