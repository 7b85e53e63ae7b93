------------------------------ MODULE Buttons ------------------------------
(***************************************************************************)
(* power_button_policy.h and boot_button.h: the hold of the power key of   *)
(* the LCD board and the click of the BOOT key of the AMOLED board, polled *)
(* every 10 ms except while a maintenance session runs.  Contacts bounce.  *)
(***************************************************************************)
EXTENDS Integers

CONSTANTS
  Debounce,  \* polls for which a level must last (30 ms)
  Hold,      \* polls from press to release that ask for a shutdown (4 s)
  Away       \* polls that a session lasts

\* key: which of the two; raw, stable, armed, changed, pressed: the fields of its class, times as
\* ages; answer: what the last poll returned.  History, in the age of readings or -1: press: the
\* first one down of this press; run: the first of those down without a break; up: the first up
\* since.  length: of the press, when it was let go; clear: no poll was blocked since the press
\* settled; away: a session fell into it; fresh: it began after the start
VARIABLE s

\* Ages are counted up to the limit that they are compared with.
Older(age, polls, limit) == IF age + polls > limit THEN limit ELSE age + polls

\* The level that has lasted, if it is another one than before.
Settled(x) == x.changed >= Debounce /\ x.raw # x.stable

Sampled(polls, down) ==
  [s EXCEPT !.raw = down, !.changed = IF down # s.raw THEN 0 ELSE Older(@, polls, Debounce),
            !.pressed = Older(@, polls, Hold), !.answer = FALSE]

\* PowerButtonHold::update.
PowerKey(polls, down) ==
  LET x == Sampled(polls, down) IN
  IF ~Settled(x) THEN x
  ELSE IF x.raw THEN [x EXCEPT !.stable = TRUE, !.pressed = 0]
  ELSE [x EXCEPT !.stable = FALSE, !.armed = TRUE, !.answer = x.armed /\ x.pressed >= Hold]

\* BootPageButton::poll.
BootKey(polls, down, blocked) ==
  LET sampled == Sampled(polls, down)
      x == [sampled EXCEPT !.armed = @ /\ ~blocked]
  IN IF ~Settled(x) THEN x
     ELSE IF x.raw THEN [x EXCEPT !.stable = TRUE, !.armed = ~blocked]
     ELSE [x EXCEPT !.stable = FALSE, !.armed = FALSE, !.answer = x.armed]

\* The history: a press ends when it has been let go for long enough.
Pressed(x, polls, blocked) ==
  IF s.press < 0 \/ s.up >= Debounce
  THEN [x EXCEPT !.press = 0, !.run = 0, !.up = -1, !.length = 0, !.clear = ~blocked, !.away = polls > 1, !.fresh = TRUE]
  ELSE [x EXCEPT !.press = Older(@, polls, Hold), !.run = IF s.up < 0 THEN Older(@, polls, Debounce) ELSE 0, !.up = -1,
                 !.clear = ~blocked /\ (@ \/ s.run < Debounce), !.away = @ \/ polls > 1]

LetGo(x, polls, blocked) ==
  IF s.press < 0 THEN x
  ELSE [x EXCEPT !.press = Older(@, polls, Hold), !.clear = @ /\ ~blocked, !.away = @ \/ polls > 1,
                 !.up = IF @ < 0 THEN 0 ELSE Older(@, polls, Debounce),
                 !.length = IF s.up < 0 THEN Older(s.press, polls, Hold) ELSE @]

Noted(x, polls, down, blocked) == IF down THEN Pressed(x, polls, blocked) ELSE LetGo(x, polls, blocked)

Poll(polls, down, blocked) ==
  s' = Noted(IF s.key = "power" THEN PowerKey(polls, down) ELSE BootKey(polls, down, blocked), polls, down, blocked)

\* begin: a key that is down then is the one that has started the device.
Init ==
  \E key \in {"power", "boot"}, down \in BOOLEAN :
    s = [key |-> key, raw |-> down, stable |-> down, armed |-> key = "power" /\ ~down, changed |-> 0, pressed |-> 0,
         answer |-> FALSE, press |-> IF down THEN 0 ELSE -1, run |-> 0, up |-> -1, length |-> 0, clear |-> TRUE,
         away |-> FALSE, fresh |-> FALSE]

Next == \E polls \in {1, Away}, down, blocked \in BOOLEAN : Poll(polls, down, blocked)

-----------------------------------------------------------------------------

\* "Hold PWR for 4 seconds, then release to shut down. The startup press is ignored until release;
\* short clicks and contact bounce do not shut down." (docs/BOARDS.md:147)  A session, in which the
\* key is not polled, makes a press of any length a long one.
OnlyHolds == s.key = "power" /\ s.answer => s.fresh /\ s.up >= Debounce /\ (s.length >= Hold \/ s.away)

\* "Clicks during startup, shutdown, a visible call overlay or a held touch are discarded. Holding
\* BOOT during reset still selects the chip's firmware download mode" (docs/UI.md:184).
OnlyClearClicks == s.key = "boot" /\ s.answer => s.fresh /\ s.up >= Debounce /\ s.clear

(***************************************************************************)
(* Bounces, presses at the start, blocked polls and sessions, in any order *)
(***************************************************************************)
ButtonsRight == OnlyHolds /\ OnlyClearClicks

\* The hold that asks for a shutdown is one of the key itself, whatever ran meanwhile.
OnlyTrueHolds == s.key = "power" /\ s.answer => s.length >= Hold /\ ~s.away
=============================================================================
