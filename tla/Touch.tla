------------------------------- MODULE Touch -------------------------------
(***************************************************************************)
(* touch.cpp, touch_actions.h and swipe.h: the gesture that the samples of *)
(* one contact make.  Two trackers look at the same samples, one for taps, *)
(* holds, scrolls and petting and one for swipes.  A position is relative  *)
(* to where the contact began, and the age of a contact is the number of   *)
(* the code's limits (120, 800, 1000 and 1200 ms) that it has reached.     *)
(***************************************************************************)
EXTENDS Integers

CONSTANTS
  Xs, Ys  \* where a finger may be, in pixels from where it began

VARIABLE s  \* [active, x, y, age, moved, held, vertical, horizontal, tapped: tap_armed within 350 ms,
            \*  stroke: pet_sample's, swiping: SwipeTracker is active, swiped: its consumed,
            \*  kinds: history, what this contact has been taken for]

Abs(n) == IF n < 0 THEN -n ELSE n
Sign(n) == IF n < 0 THEN -1 ELSE 1

\* Where a stroke is measured from, how far it has come, and whether one was petting 400 ms ago.
NoStroke(y, recent) == [anchor |-> y, last |-> y, dir |-> 0, travel |-> 0, displaced |-> FALSE, recent |-> recent]
NoContact == [active |-> FALSE, x |-> 0, y |-> 0, age |-> 0, moved |-> FALSE, held |-> FALSE, vertical |-> FALSE,
              horizontal |-> FALSE, tapped |-> FALSE, stroke |-> NoStroke(0, FALSE), swiping |-> FALSE,
              swiped |-> FALSE, kinds |-> {}]

\* The direction and travel of TouchActions::pet_sample: turning back counts from 12 pixels.
Travelled(k, y) ==
  LET turns == (y - k.last) * k.dir
  IN CASE k.dir = 0 /\ Abs(y - k.anchor) < 12 -> k
       [] k.dir = 0 /\ Abs(y - k.anchor) >= 12 ->
            [k EXCEPT !.dir = Sign(y - k.anchor), !.travel = Abs(y - k.anchor), !.last = y]
       [] k.dir # 0 /\ (turns > 0 \/ turns <= -12) ->
            [k EXCEPT !.dir = IF turns < 0 THEN -@ ELSE @, !.last = y,
                      !.travel = IF @ + Abs(turns) > 32 THEN 32 ELSE @ + Abs(turns)]
       [] OTHER -> k

\* TouchActions::pet_sample of a sample c.
Petted(c) ==
  LET k == Travelled(c.stroke, c.y)
      t == [k EXCEPT !.displaced = @ \/ Abs(c.y) >= 20]
      small == k.dir = 0
      unfit == c.held \/ c.horizontal \/ Abs(c.x) >= 64 \/ Abs(c.y - c.stroke.last) > 80
      pet == ~small /\ t.displaced /\ t.travel >= 32 /\ c.age >= 1 /\ ~t.recent
  IN IF unfit THEN [c EXCEPT !.stroke = NoStroke(c.y, c.stroke.recent)]
     ELSE IF pet THEN [c EXCEPT !.moved = TRUE, !.vertical = TRUE, !.tapped = FALSE,
                                !.stroke = [t EXCEPT !.recent = TRUE, !.travel = 0], !.kinds = @ \cup {"vertical"}]
     ELSE [c EXCEPT !.stroke = IF small THEN k ELSE t]

\* TouchActions::update, the directions: 28 pixels upwards or downwards, or 40 to a side.
Directed(c) ==
  IF c.held \/ c.vertical \/ c.horizontal THEN c
  ELSE IF Abs(c.y) >= 28 /\ Abs(c.y) >= Abs(c.x) * 2 THEN [c EXCEPT !.vertical = TRUE, !.kinds = @ \cup {"vertical"}]
  ELSE [c EXCEPT !.horizontal = Abs(c.x) >= 40 /\ Abs(c.x) >= Abs(c.y) * 2]

\* TouchActions::update, a hold: the finger has not left its place.
Held(c) == IF ~c.moved /\ ~c.held /\ c.age = 4 THEN [c EXCEPT !.held = TRUE, !.kinds = @ \cup {"hold"}] ELSE c

Moved(c) == LET m == c.moved \/ Abs(c.x) > 18 \/ Abs(c.y) > 18 IN [c EXCEPT !.moved = m, !.tapped = @ /\ ~m]

\* TouchActions::update of a finger that stays; it begins where it is.
Actions(c) ==
  IF ~c.active THEN [NoContact EXCEPT !.active = TRUE, !.tapped = c.tapped, !.stroke.recent = c.stroke.recent]
  ELSE Held(Directed(Moved(Petted(c))))

\* Mutant of Swipes: a vertical movement does not end the look for a swipe.
SwipesBeside(c, began) ==
  IF ~began \/ ~c.swiping THEN [c EXCEPT !.swiping = TRUE, !.swiped = FALSE]
  ELSE IF c.swiped \/ c.age >= 3 \/ Abs(c.x) < 40 \/ Abs(c.y) * 2 > Abs(c.x) THEN c
  ELSE [c EXCEPT !.swiped = TRUE, !.kinds = @ \cup {"swipe"}]

\* SwipeTracker::update, which touch_poll resets for a vertical movement.
Swipes(c, began) ==
  IF c.vertical THEN [c EXCEPT !.swiping = FALSE]
  ELSE IF ~began \/ ~c.swiping THEN [c EXCEPT !.swiping = TRUE, !.swiped = FALSE]
  ELSE IF c.swiped \/ c.age >= 3 \/ Abs(c.x) < 40 \/ Abs(c.y) * 2 > Abs(c.x) THEN c
  ELSE [c EXCEPT !.swiped = TRUE, !.kinds = @ \cup {"swipe"}]

\* touch_poll of one finger on the panel.
Touches ==
  \E x \in Xs, y \in Ys :
    s' = Swipes(Actions([s EXCEPT !.x = x, !.y = y]), s.active)

\* touch_poll without a finger, or of two: a short contact that stayed is a tap, and the second
\* within 350 ms and 30 pixels a double tap.
Lifts ==
  /\ s.active
  /\ LET tap == ~s.moved /\ ~s.held /\ s.age <= 1
     IN \E near \in BOOLEAN :
          s' = [s EXCEPT !.active = FALSE, !.swiping = FALSE, !.tapped = IF tap THEN ~(@ /\ near) ELSE @,
                         !.kinds = IF tap THEN @ \cup {"tap"} ELSE @]

\* touch_poll when the controller does not answer, or with a position off the panel.
Invalid == s' = [NoContact EXCEPT !.kinds = s.kinds]

\* Time passes: the contact grows old, the last tap and the last petting too.
Time ==
  \/ s.active /\ s.age < 4 /\ s' = [s EXCEPT !.age = @ + 1]
  \/ s.tapped /\ s' = [s EXCEPT !.tapped = FALSE]
  \/ s.stroke.recent /\ s' = [s EXCEPT !.stroke.recent = FALSE]

Init == s = NoContact
Next == Touches \/ Lifts \/ Invalid \/ Time

(***************************************************************************)
(* The two trackers see the same samples and never agree with each other   *)
(* explicitly; yet a contact is one of a tap, a hold, a swipe or an        *)
(* up-and-down movement, whichever way the finger goes and however long    *)
(* it takes.                                                               *)
(***************************************************************************)
OneGesture == \A a, b \in s.kinds : a = b
=============================================================================
