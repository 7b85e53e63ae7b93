----------------------------- MODULE DeskTools -----------------------------
(***************************************************************************)
(* The desk tools that keep a state: the timer (view_state.h), the game of *)
(* tic-tac-toe against the device (tic_tac_toe.h) and the dice (dice.h).   *)
(* They do not share any; s.tool says whose state s is.                    *)
(***************************************************************************)
EXTENDS Integers, FiniteSets

CONSTANT MaxLag  \* bound: the most minutes between two ticks, when a session stops the loop

VARIABLE s

(***************************************************************************)
(* The timer, in minutes.  lag is the time since its last tick, and ran is *)
(* history: how long it has run since it was reset.                        *)
(***************************************************************************)
Rest == 5
Length(mode) == CASE mode = 0 -> 5 [] mode = 1 -> 15 [] OTHER -> 25

\* DeskTimer::reset.
TimerReset(t) == [t EXCEPT !.remaining = Length(t.mode), !.running = FALSE, !.finished = FALSE, !.resting = FALSE,
                           !.lag = 0, !.ran = 0]

Finished(t) == [t EXCEPT !.remaining = 0, !.running = FALSE, !.finished = TRUE, !.lag = 0, !.ran = @ + t.lag]

\* Mutant of TimerTick: the rest begins at the tick that notices it.
TimerTickLate(t) ==
  LET over == t.lag - t.remaining
      ticked == [t EXCEPT !.lag = 0, !.ran = @ + t.lag]
  IN CASE ~t.running -> [t EXCEPT !.lag = 0]
       [] t.running /\ over < 0 -> [ticked EXCEPT !.remaining = @ - t.lag]
       [] t.running /\ over >= 0 /\ t.mode = 2 /\ ~t.resting ->
            [ticked EXCEPT !.resting = TRUE, !.remaining = Rest]
       [] OTHER -> Finished(t)

\* DeskTimer::tick: work may end, and the rest after it too, between two ticks.
TimerTick(t) ==
  LET over == t.lag - t.remaining
      ticked == [t EXCEPT !.lag = 0, !.ran = @ + t.lag]
      rests == t.mode = 2 /\ ~t.resting
  IN CASE ~t.running -> [t EXCEPT !.lag = 0]
       [] t.running /\ over < 0 -> [ticked EXCEPT !.remaining = @ - t.lag]
       [] t.running /\ over >= 0 /\ rests /\ over < Rest ->
            [ticked EXCEPT !.resting = TRUE, !.remaining = Rest - over]
       [] OTHER -> [Finished(t) EXCEPT !.resting = @ \/ rests]

\* DeskTimer::toggle.
TimerToggle(t) ==
  LET ticked == IF TimerTick(t).finished THEN TimerReset(t) ELSE TimerTick(t)
  IN [ticked EXCEPT !.running = ~@]

\* DeskTimer::cycle.
TimerCycle(t) == TimerReset([t EXCEPT !.mode = (@ + 1) % 3])

TimerInit == [tool |-> "timer", mode |-> 2, remaining |-> Length(2), running |-> FALSE, finished |-> FALSE,
              resting |-> FALSE, lag |-> 0, ran |-> 0]

Timer ==
  /\ s.tool = "timer"
  /\ \/ \E lag \in {s.lag + 1, MaxLag} : lag <= MaxLag /\ s' = [s EXCEPT !.lag = lag]
     \/ s' \in {TimerTick(s), TimerToggle(s), TimerCycle(s), TimerReset(s), TimerInit}

(***************************************************************************)
(* Tic-tac-toe: the player's crosses are 1, the device's noughts 2.        *)
(***************************************************************************)
Cells == 0 .. 8

\* line_cell: rows, columns, and the two diagonals.
Line(line) == CASE line \in 0 .. 2 -> [step \in 0 .. 2 |-> line * 3 + step]
                [] line \in 3 .. 5 -> [step \in 0 .. 2 |-> line - 3 + step * 3]
                [] line = 6 -> [step \in 0 .. 2 |-> step * 4]
                [] OTHER -> [step \in 0 .. 2 |-> 2 + step * 2]

Wins(cells, mark) == \E line \in 0 .. 7 : \A step \in 0 .. 2 : cells[Line(line)[step]] = mark

\* result: 0 while the game goes on, and 3 for a draw.
Result(cells) ==
  IF Wins(cells, 1) THEN 1 ELSE IF Wins(cells, 2) THEN 2 ELSE IF \E c \in Cells : cells[c] = 0 THEN 0 ELSE 3

\* play.
Play(g, cell) ==
  IF g.cells[cell] # 0 \/ g.thinking \/ Result(g.cells) # 0 THEN g
  ELSE LET cells == [g.cells EXCEPT ![cell] = 1] IN [g EXCEPT !.cells = cells, !.thinking = Result(cells) = 0]

\* finishing: the cell that completes the first line of two, or none.
Finishing(cells, mark) ==
  LET count(line) == Cardinality({step \in 0 .. 2 : cells[Line(line)[step]] = mark})
      empty(line) == {step \in 0 .. 2 : cells[Line(line)[step]] = 0}
      open == {line \in 0 .. 7 : count(line) = 2 /\ empty(line) # {}}
      first == CHOOSE line \in open : \A other \in open : line <= other
  IN IF open = {} THEN {} ELSE {Line(first)[step] : step \in empty(first)}

Preferred == <<4, 0, 2, 6, 8, 1, 3, 5, 7>>

\* tick, after the thinking pause: win, else block, else the first free cell of the order.
Reply(g) ==
  LET free == {i \in DOMAIN Preferred : g.cells[Preferred[i]] = 0}
      moves == IF Finishing(g.cells, 2) # {} THEN Finishing(g.cells, 2)
               ELSE IF Finishing(g.cells, 1) # {} THEN Finishing(g.cells, 1)
               ELSE {Preferred[CHOOSE i \in free : \A j \in free : i <= j]}
  IN IF Result(g.cells) # 0 THEN [g EXCEPT !.thinking = FALSE]
     ELSE [g EXCEPT !.thinking = FALSE, !.cells = [c \in Cells |-> IF c \in moves THEN 2 ELSE @[c]]]

TrisInit == [tool |-> "tris", cells |-> [c \in Cells |-> 0], thinking |-> FALSE]

Tris ==
  /\ s.tool = "tris"
  /\ \/ \E cell \in Cells : s' = Play(s, cell)
     \/ s.thinking /\ s' = Reply(s)
     \/ s' = TrisInit

(***************************************************************************)
(* The dice.  The values are left out; thrown is history: the number and   *)
(* type of the dice that the values are of.                                *)
(***************************************************************************)
MaxDice == 100
PerPage == 12

Pages(d) == (d.count + PerPage - 1) \div PerPage

\* clear.
Cleared(d) == [d EXCEPT !.rolled = FALSE, !.page = 0, !.thrown = <<>>]

\* adjust_count.
AdjustCount(d, delta) ==
  LET next == IF d.count + delta < 1 THEN 1 ELSE IF d.count + delta > MaxDice THEN MaxDice ELSE d.count + delta
  IN IF next = d.count THEN d ELSE Cleared([d EXCEPT !.count = next])

\* cycle_type, one of seven.
CycleType(d, step) == Cleared([d EXCEPT !.type = (@ + (IF step > 0 THEN 1 ELSE 6)) % 7])

\* roll.
Roll(d) == [d EXCEPT !.rolled = TRUE, !.page = 0, !.thrown = <<d.count, d.type>>]

\* move_page.
MovePage(d, step) ==
  CASE d.rolled /\ step > 0 /\ d.page + 1 < Pages(d) -> [d EXCEPT !.page = @ + 1]
    [] d.rolled /\ step < 0 /\ d.page > 0 -> [d EXCEPT !.page = @ - 1]
    [] OTHER -> d

DiceInit == [tool |-> "dice", count |-> 1, type |-> 5, page |-> 0, rolled |-> FALSE, thrown |-> <<>>]

\* desk_dice_tap.
Dice ==
  /\ s.tool = "dice"
  /\ \/ \E delta \in {-10, -1, 1, 10} : s' = AdjustCount(s, delta)
     \/ \E step \in {-1, 1} : s' = CycleType(s, step)
     \/ \E step \in {-1, 1} : s' = MovePage(s, step)
     \/ s' = Roll(s)

Init == s \in {TimerInit, TrisInit, DiceInit}
Next == Timer \/ Tris \/ Dice

(***************************************************************************)
(* The timer shows what is left of the work and of the rest, however far   *)
(* apart the ticks were.                                                   *)
(***************************************************************************)
TimerExact ==
  LET work == Length(s.mode)
      whole == IF s.mode = 2 THEN work + Rest ELSE work
  IN CASE s.ran < work -> s.remaining = work - s.ran /\ ~s.resting /\ ~s.finished
       [] s.ran >= work /\ s.ran < whole -> s.remaining = whole - s.ran /\ s.resting /\ ~s.finished
       [] OTHER -> s.remaining = 0 /\ s.finished /\ ~s.running

\* Taps that come while the device thinks, or after the end, leave a board that two players
\* taking turns can have reached, with one winner at most and a turn for someone till the end.
BoardLawful ==
  LET marks(m) == {c \in Cells : s.cells[c] = m}
  IN /\ Cardinality(marks(1)) = Cardinality(marks(2)) + (IF s.thinking \/ Result(s.cells) \in {1, 3} THEN 1 ELSE 0)
     /\ ~(Wins(s.cells, 1) /\ Wins(s.cells, 2))
     /\ s.thinking => Result(s.cells) = 0

\* The page of results exists, and the results are of the dice that are selected.
DiceCurrent == s.rolled => s.thrown = <<s.count, s.type>> /\ s.page * PerPage < s.count

\* Each tool shows what was done with it.
ToolsCorrect ==
  CASE s.tool = "timer" -> TimerExact
    [] s.tool = "tris" -> BoardLawful
    [] s.tool = "dice" -> DiceCurrent
=============================================================================
