----------------------------- MODULE Backlight -----------------------------
(***************************************************************************)
(* brightness_policy.h, backlight.cpp and night_policy.h, with those of    *)
(* settings.cpp, of the companion and of the loop that set the brightness: *)
(* the profile, the clock, the phone's quiet and sleep windows and the     *)
(* idle time each change one value in steps of their own.                  *)
(***************************************************************************)
EXTENDS Integers

CONSTANTS
  ProfileDays, ProfileNights, \* levels of the profile
  Windows,       \* night_start and night_end
  Hours,         \* that the clock shows
  Idle           \* iterations after which the screen is dimmed (a minute)

\* profile; valid, hour: night_clock_valid, night_hour; remote: remote_night; brightness, dim, age:
\* BrightnessPolicy, the age of last_activity at the now of the iteration; applied: the duty cycle
VARIABLE s

Profiles == [brightness : ProfileDays, night_brightness : ProfileNights, dim : BOOLEAN, night : BOOLEAN,
             night_auto : BOOLEAN, window : Windows]

\* night_active.
NightActive(p, valid, hour) ==
  LET start == p.window[1]
      end == p.window[2]
  IN \/ p.night
     \/ /\ p.night_auto /\ valid /\ start # end
        /\ IF start < end THEN hour >= start /\ hour < end ELSE hour >= start \/ hour < end

SettingsNight(x) == x.remote \/ NightActive(x.profile, x.valid, x.hour)
Level(x) == IF SettingsNight(x) THEN x.profile.night_brightness ELSE x.profile.brightness

\* backlight_configure, whose stamp may be later than the now of the iteration: the age is -1.
Configured(x, age) ==
  [x EXCEPT !.brightness = Level(x), !.dim = x.profile.dim, !.age = age, !.applied = Level(x)]

\* settings_clock and settings_remote_night act on edges.
Edge(before, after) == IF SettingsNight(before) = SettingsNight(after) THEN after ELSE Configured(after, 0)
Clock(x) ==
  {Edge(x, [x EXCEPT !.valid = TRUE, !.hour = hour]) : hour \in Hours} \cup {Edge(x, [x EXCEPT !.valid = FALSE])}
Remote(x) == {Edge(x, [x EXCEPT !.remote = active]) : active \in BOOLEAN}

\* The profiles with one other value.
Others == [p \in Profiles |-> {q \in Profiles \ {p} : \E field \in DOMAIN p : q = [p EXCEPT ![field] = q[field]]}]

\* settings_update of one of them; of the same profile it does nothing.
Edits(x, ages) ==
  {x} \cup {Configured([x EXCEPT !.profile = q], age) : q \in Others[x.profile], age \in ages}

\* BrightnessPolicy::output: the age is unsigned.
Output(x) ==
  IF x.dim /\ (x.age < 0 \/ x.age >= Idle) THEN (IF x.brightness < 3 THEN x.brightness ELSE 3) ELSE x.brightness

\* update_backlight: touch, calls and routes, the shutdown, and what the phone brings.
Updated(x, active) ==
  LET next == [x EXCEPT !.age = IF active THEN 0 ELSE @] IN [next EXCEPT !.applied = Output(next)]

Older(x, iterations) == [x EXCEPT !.age = IF @ + iterations > Idle THEN Idle ELSE @ + iterations]

\* An iteration: settings_clock, companion_poll, the menu or the terminal, update_backlight.
Loop ==
  \E iterations \in {1, Idle}, active \in BOOLEAN :
    \E x \in Clock(Older(s, iterations)) : \E y \in Remote(x) : \E z \in Edits(y, {0, -1}) : s' = Updated(z, active)

\* An iteration of a maintenance session: settings_clock and a page.
Session == \E x \in Clock(s) : \E y \in Edits(x, {0}) : s' = y

\* setup: settings_init and settings_apply, without a clock; also where power was lost.
Init ==
  \E p \in Profiles :
    s = [profile |-> p, valid |-> FALSE, hour |-> 0, remote |-> FALSE, age |-> 0, dim |-> p.dim,
         brightness |-> IF p.night THEN p.night_brightness ELSE p.brightness,
         applied |-> IF p.night THEN p.night_brightness ELSE p.brightness]
Next == Loop \/ Session

-----------------------------------------------------------------------------

\* The hours from the first to before the second, around midnight.
Within(window, hour) == \E k \in 0..23 : hour = (window[1] + k) % 24 /\ k < (window[2] - window[1]) % 24

\* What the display should show, from the settings, the clock and the windows themselves.
Wanted ==
  IF s.remote \/ s.profile.night \/ (s.profile.night_auto /\ s.valid /\ Within(s.profile.window, s.hour))
  THEN s.profile.night_brightness ELSE s.profile.brightness

(***************************************************************************)
(* No edge is missed, in whatever order the profile, the clock and the     *)
(* windows change; and idle dimming "caps brightness at 3% after a minute, *)
(* never increasing an already lower night setting" (docs/UI.md:238).  The *)
(* iteration in which the menu has just set the brightness is left out: a  *)
(* stamp later than its now dims for that one.                             *)
(***************************************************************************)
LevelCurrent ==
  s.age >= 0 =>
    s.applied = IF s.profile.dim /\ s.age >= Idle /\ Wanted > 3 THEN 3 ELSE Wanted
=============================================================================
