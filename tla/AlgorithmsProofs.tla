-------------------------- MODULE AlgorithmsProofs --------------------------
(***************************************************************************)
(* What the parts of the device that compute say is right: the tools of    *)
(* the desk, the lines and commands of a terminal, the records that are    *)
(* stored, and the sounds, texts and dates that others made, for any value *)
(* of the constants.  A recursive function is reasoned about by its least  *)
(* counterexample, an induction that the provers can follow.               *)
(***************************************************************************)
EXTENDS MCDevice, Sequences, FiniteSetTheorems, WellFoundedInduction, TLAPS

-----------------------------------------------------------------------------
(* The parts take steps of their own. *)

LEMMA AlgorithmsAlone ==
  ASSUME [DeviceNext]_deviceVars
  PROVE  /\ part' = part
         /\ part = "tools" => [Tools!Next]_s
         /\ part = "terminal" => [Terminal!Next]_s
         /\ part = "records" => [Records!Next]_s
         /\ part = "inputs" => [Inputs!Next]_s
  BY DEF DeviceNext, PartNext, deviceVars

LEMMA AlgorithmsBegin ==
  ASSUME DeviceInit
  PROVE  /\ part = "tools" => Tools!Init
         /\ part = "terminal" => Terminal!Init
         /\ part = "records" => Records!Init
         /\ part = "inputs" => Inputs!Init
  BY DEF DeviceInit, PartInit

-----------------------------------------------------------------------------
(* Numbers *)

LEMMA LeastOf ==
  ASSUME NEW f \in SUBSET Nat, f # {}
  PROVE  \E a \in f : \A b \in f : a <= b
  <1>1. \E a \in f : \A b \in f : ~(<<b, a>> \in OpToRel(<, Nat))
    BY NatLessThanWellFounded, WFMin
  <1>2. \E a \in f : \A b \in f : ~(b < a)
    BY <1>1 DEF OpToRel
  <1> QED BY <1>2

-----------------------------------------------------------------------------
(* DeskTools *)

TimerTyped(t) ==
  /\ DOMAIN t = {"tool", "mode", "remaining", "running", "finished", "resting", "lag", "ran"}
  /\ t.tool = "timer" /\ t.mode \in 0 .. 2 /\ t.remaining \in Int /\ t.lag \in Nat /\ t.ran \in Nat
  /\ t.running \in BOOLEAN /\ t.finished \in BOOLEAN /\ t.resting \in BOOLEAN

\* TimerExact, of any timer: the reset and the tick are steps of toggle and cycle.
ExactOf(t) ==
  LET work == Tools!Length(t.mode)
      whole == IF t.mode = 2 THEN work + 5 ELSE work
  IN CASE t.ran < work -> t.remaining = work - t.ran /\ ~t.resting /\ ~t.finished
       [] t.ran >= work /\ t.ran < whole -> t.remaining = whole - t.ran /\ t.resting /\ ~t.finished
       [] OTHER -> t.remaining = 0 /\ t.finished /\ ~t.running

TimerKept(t) == TimerTyped(t) /\ ExactOf(t)

LEMMA Lengths ==
  ASSUME NEW mode \in 0 .. 2
  PROVE  Tools!Length(mode) = IF mode = 0 THEN 5 ELSE IF mode = 1 THEN 15 ELSE 25
  BY DEF Tools!Length

LEMMA ResetRight ==
  ASSUME NEW t, TimerTyped(t)
  PROVE  TimerKept(Tools!TimerReset(t)) /\ ~Tools!TimerReset(t).finished
  <1>1. PICK length \in Nat : length = Tools!Length(t.mode) /\ length > 0
    BY Lengths DEF TimerTyped
  <1>2. PICK x : x = Tools!TimerReset(t)
    OBVIOUS
  <1>3. x = [t EXCEPT !.remaining = length, !.running = FALSE, !.finished = FALSE, !.resting = FALSE, !.lag = 0,
                      !.ran = 0]
    BY <1>1, <1>2 DEF Tools!TimerReset
  <1>4. TimerTyped(x) /\ x.mode = t.mode /\ x.remaining = length /\ ~x.finished /\ ~x.resting /\ x.ran = 0
    BY <1>1, <1>3 DEF TimerTyped
  <1>5. ExactOf(x)
    BY <1>1, <1>4 DEF ExactOf
  <1> QED BY <1>2, <1>4, <1>5 DEF TimerKept

LEMMA TimerTickRight ==
  ASSUME NEW t, TimerKept(t)
  PROVE  TimerKept(Tools!TimerTick(t))
  <1>1. TimerTyped(t) /\ ExactOf(t)
    BY DEF TimerKept
  <1>2. Tools!Length(t.mode) = IF t.mode = 0 THEN 5 ELSE IF t.mode = 1 THEN 15 ELSE 25
    BY <1>1, Lengths DEF TimerTyped
  <1>3. t.lag \in Nat /\ t.ran \in Nat /\ t.remaining \in Int /\ t.mode \in 0 .. 2 /\ t.resting \in BOOLEAN
    BY <1>1 DEF TimerTyped
  <1> DEFINE over == t.lag - t.remaining
             rests == t.mode = 2 /\ ~t.resting
             ticked == [t EXCEPT !.lag = 0, !.ran = @ + t.lag]
             stopped == [t EXCEPT !.lag = 0]
             counted == [ticked EXCEPT !.remaining = @ - t.lag]
             rested == [ticked EXCEPT !.resting = TRUE, !.remaining = 5 - over]
             done == [Tools!Finished(t) EXCEPT !.resting = @ \/ rests]
  <1>4. Tools!TimerTick(t) = CASE ~t.running -> stopped
                               [] t.running /\ over < 0 -> counted
                               [] t.running /\ over >= 0 /\ rests /\ over < 5 -> rested
                               [] OTHER -> done
    BY Zenon DEF Tools!TimerTick, Tools!Rest
  <1>5. over \in Int /\ t.ran + t.lag \in Nat
    BY <1>3
  <1>6. /\ TimerTyped(ticked) /\ ticked.mode = t.mode /\ ticked.remaining = t.remaining
        /\ ticked.running = t.running /\ ticked.finished = t.finished /\ ticked.resting = t.resting
        /\ ticked.lag = 0 /\ ticked.ran = t.ran + t.lag
    BY <1>1, <1>5 DEF TimerTyped
  <1>7. CASE ~t.running
    <2>1. /\ TimerTyped(stopped) /\ stopped.mode = t.mode /\ stopped.remaining = t.remaining
          /\ stopped.running = t.running /\ stopped.finished = t.finished /\ stopped.resting = t.resting
          /\ stopped.ran = t.ran
      BY <1>1 DEF TimerTyped
    <2> HIDE DEF stopped, counted, rested, done
    <2> QED BY <1>1, <1>4, <1>7, <2>1 DEF TimerKept, ExactOf
  <1>8. CASE t.running /\ over < 0
    <2> HIDE DEF ticked
    <2>1. /\ TimerTyped(counted) /\ counted.mode = t.mode /\ counted.remaining = t.remaining - t.lag
          /\ counted.running = t.running /\ counted.finished = t.finished /\ counted.resting = t.resting
          /\ counted.ran = t.ran + t.lag
      <3>1. t.remaining - t.lag \in Int
        BY <1>3
      <3> QED BY <1>6, <3>1 DEF TimerTyped
    <2> HIDE DEF stopped, counted, rested, done
    <2>2. Tools!TimerTick(t) = counted
      BY <1>4, <1>5, <1>8
    <2>3. ExactOf(counted)
      BY <1>1, <1>2, <1>3, <1>8, <2>1 DEF ExactOf
    <2> QED BY <2>1, <2>2, <2>3 DEF TimerKept
  <1>9. CASE t.running /\ over >= 0 /\ rests /\ over < 5
    <2> HIDE DEF ticked
    <2>1. /\ TimerTyped(rested) /\ rested.mode = t.mode /\ rested.remaining = 5 - over
          /\ rested.running = t.running /\ rested.finished = t.finished /\ rested.resting = TRUE
          /\ rested.ran = t.ran + t.lag
      <3>1. 5 - over \in Int
        BY <1>5
      <3> QED BY <1>6, <3>1 DEF TimerTyped
    <2> HIDE DEF stopped, counted, rested, done
    <2>2. Tools!TimerTick(t) = rested
      BY <1>4, <1>5, <1>9
    <2>3. ExactOf(rested)
      BY <1>1, <1>2, <1>3, <1>9, <2>1 DEF ExactOf
    <2> QED BY <2>1, <2>2, <2>3 DEF TimerKept
  <1>10. CASE t.running /\ over >= 0 /\ ~(rests /\ over < 5)
    <2>1. PICK resting \in BOOLEAN : resting = (t.resting \/ rests)
      BY <1>3
    <2>2. PICK f : f = Tools!Finished(t)
      OBVIOUS
    <2>3. /\ TimerTyped(f) /\ f.mode = t.mode /\ f.remaining = 0 /\ f.running = FALSE /\ f.finished = TRUE
          /\ f.resting = t.resting /\ f.ran = t.ran + t.lag
      BY <1>1, <1>5, <2>2 DEF TimerTyped, Tools!Finished
    <2>4. done = [f EXCEPT !.resting = resting]
      BY <2>1, <2>2, <2>3, Zenon
    <2> HIDE DEF done
    <2>5. /\ TimerTyped(done) /\ done.mode = t.mode /\ done.remaining = 0 /\ done.running = FALSE
          /\ done.finished = TRUE /\ done.ran = t.ran + t.lag
      BY <2>3, <2>4 DEF TimerTyped
    <2> HIDE DEF stopped, counted, rested
    <2>6. Tools!TimerTick(t) = done
      BY <1>4, <1>5, <1>10
    <2>7. ExactOf(done)
      BY <1>1, <1>2, <1>3, <1>10, <2>5 DEF ExactOf
    <2> QED BY <2>5, <2>6, <2>7 DEF TimerKept
  <1> QED BY <1>5, <1>7, <1>8, <1>9, <1>10

LEMMA ToggleRight ==
  ASSUME NEW t, TimerKept(t)
  PROVE  TimerKept(Tools!TimerToggle(t))
  <1>1. PICK y : y = IF Tools!TimerTick(t).finished THEN Tools!TimerReset(t) ELSE Tools!TimerTick(t)
    OBVIOUS
  <1>2. TimerTyped(t)
    BY DEF TimerKept
  <1>3. TimerKept(y) /\ ~y.finished
    BY <1>1, <1>2, ResetRight, TimerTickRight
  <1>4. PICK x : x = [y EXCEPT !.running = ~@]
    OBVIOUS
  <1>5. Tools!TimerToggle(t) = x
    BY <1>1, <1>4 DEF Tools!TimerToggle
  <1>6. PICK running \in BOOLEAN : running = ~y.running
    BY <1>3 DEF TimerKept, TimerTyped
  <1>7. x = [y EXCEPT !.running = running]
    BY <1>4, <1>6
  <1>8. /\ TimerTyped(x) /\ x.mode = y.mode /\ x.remaining = y.remaining /\ x.finished = y.finished
        /\ x.resting = y.resting /\ x.ran = y.ran
    BY <1>3, <1>7 DEF TimerKept, TimerTyped
  <1> QED BY <1>3, <1>5, <1>8 DEF TimerKept, ExactOf

LEMMA CycleRight ==
  ASSUME NEW t, TimerKept(t)
  PROVE  TimerKept(Tools!TimerCycle(t))
  <1>1. (t.mode + 1) % 3 \in 0 .. 2
    BY DEF TimerKept, TimerTyped
  <1>2. TimerTyped([t EXCEPT !.mode = (@ + 1) % 3])
    BY <1>1 DEF TimerKept, TimerTyped
  <1> QED BY <1>2, ResetRight DEF Tools!TimerCycle

LEMMA TimerBegins == TimerKept(Tools!TimerInit)
  BY DEF TimerKept, TimerTyped, ExactOf, Tools!TimerInit, Tools!Length

LEMMA TimerSteps ==
  ASSUME TimerKept(s), Tools!Timer
  PROVE  TimerKept(s)'
  <1>1. ASSUME NEW lag \in {s.lag + 1, MaxLag}, s' = [s EXCEPT !.lag = lag]
        PROVE  TimerKept(s)'
    <2>1. lag \in Nat
      BY <1>1, ToolsAssumption DEF TimerKept, TimerTyped
    <2>2. /\ TimerTyped(s') /\ s'.mode = s.mode /\ s'.remaining = s.remaining /\ s'.running = s.running
          /\ s'.finished = s.finished /\ s'.resting = s.resting /\ s'.ran = s.ran
      BY <1>1, <2>1 DEF TimerKept, TimerTyped
    <2> QED BY <2>2 DEF TimerKept, ExactOf
  <1>2. TimerTyped(s)
    BY DEF TimerKept
  <1>3. ASSUME s' \in {Tools!TimerTick(s), Tools!TimerToggle(s), Tools!TimerCycle(s), Tools!TimerReset(s),
                       Tools!TimerInit}
        PROVE  TimerKept(s')
    BY <1>2, <1>3, TimerTickRight, ToggleRight, CycleRight, ResetRight, TimerBegins
  <1>4. TimerKept(s') <=> TimerKept(s)'
    BY DEF TimerKept, ExactOf
  <1> QED BY <1>1, <1>3, <1>4 DEF Tools!Timer

\* The dice.  Each change of what is selected discards the results.
DiceTyped(d) ==
  /\ DOMAIN d = {"tool", "count", "type", "page", "rolled", "thrown"}
  /\ d.tool = "dice" /\ d.count \in 1 .. 100 /\ d.type \in 0 .. 6 /\ d.page \in Nat /\ d.rolled \in BOOLEAN

DiceKept(d) == DiceTyped(d) /\ (d.rolled => d.thrown = <<d.count, d.type>> /\ d.page * 12 < d.count)

LEMMA ClearedRight ==
  ASSUME NEW d, DiceTyped(d)
  PROVE  DiceKept(Tools!Cleared(d))
  BY DEF DiceKept, DiceTyped, Tools!Cleared

LEMMA AdjustRight ==
  ASSUME NEW d, DiceKept(d), NEW delta \in Int
  PROVE  DiceKept(Tools!AdjustCount(d, delta))
  <1>1. PICK next \in 1 .. 100 : next = IF d.count + delta < 1 THEN 1 ELSE IF d.count + delta > 100 THEN 100
                                       ELSE d.count + delta
    BY DEF DiceKept, DiceTyped
  <1>2. Tools!AdjustCount(d, delta) = IF next = d.count THEN d ELSE Tools!Cleared([d EXCEPT !.count = next])
    BY <1>1 DEF Tools!AdjustCount, Tools!MaxDice
  <1>3. DiceTyped([d EXCEPT !.count = next])
    BY DEF DiceKept, DiceTyped
  <1> QED BY <1>2, <1>3, ClearedRight

LEMMA CycleTypeRight ==
  ASSUME NEW d, DiceKept(d), NEW step \in {-1, 1}
  PROVE  DiceKept(Tools!CycleType(d, step))
  <1>1. PICK type \in 0 .. 6 : type = (d.type + (IF step > 0 THEN 1 ELSE 6)) % 7
    BY DEF DiceKept, DiceTyped
  <1>2. Tools!CycleType(d, step) = Tools!Cleared([d EXCEPT !.type = type])
    BY <1>1 DEF Tools!CycleType
  <1>3. DiceTyped([d EXCEPT !.type = type])
    BY DEF DiceKept, DiceTyped
  <1> QED BY <1>2, <1>3, ClearedRight

LEMMA MovePageRight ==
  ASSUME NEW d, DiceKept(d), NEW step \in {-1, 1}
  PROVE  DiceKept(Tools!MovePage(d, step))
  <1>1. d.page \in Nat /\ d.count \in 1 .. 100 /\ d.rolled \in BOOLEAN
    BY DEF DiceKept, DiceTyped
  <1>2. CASE d.rolled /\ step > 0 /\ d.page + 1 < Tools!Pages(d)
    <2>1. Tools!MovePage(d, step) = [d EXCEPT !.page = @ + 1]
      BY <1>1, <1>2 DEF Tools!MovePage
    <2>2. (d.page + 1) * 12 < d.count
      <3>1. PICK pages \in Nat : pages = Tools!Pages(d) /\ pages * 12 <= d.count + 11
        BY <1>1 DEF Tools!Pages, Tools!PerPage
      <3> QED BY <1>1, <1>2, <3>1
    <2> QED BY <1>1, <2>1, <2>2 DEF DiceKept, DiceTyped
  <1>3. CASE d.rolled /\ step < 0 /\ d.page > 0
    <2>1. Tools!MovePage(d, step) = [d EXCEPT !.page = @ - 1]
      BY <1>1, <1>3 DEF Tools!MovePage
    <2>2. d.page - 1 \in Nat /\ (d.page * 12 < d.count => (d.page - 1) * 12 < d.count)
      BY <1>1, <1>3
    <2> QED BY <1>1, <1>3, <2>1, <2>2 DEF DiceKept, DiceTyped
  <1>4. CASE Tools!MovePage(d, step) = d
    BY <1>4
  <1> QED BY <1>1, <1>2, <1>3, <1>4 DEF Tools!MovePage

LEMMA DiceSteps ==
  ASSUME DiceKept(s), Tools!Dice
  PROVE  DiceKept(s)'
  <1>1. ASSUME NEW delta \in {-10, -1, 1, 10}, s' = Tools!AdjustCount(s, delta)
        PROVE  DiceKept(s')
    BY <1>1, AdjustRight
  <1>2. ASSUME s' = Tools!Roll(s)
        PROVE  DiceKept(s')
    BY <1>2 DEF DiceKept, DiceTyped, Tools!Roll
  <1>3. DiceKept(s') <=> DiceKept(s)'
    BY DEF DiceKept, DiceTyped
  <1> QED BY <1>1, <1>2, <1>3, CycleTypeRight, MovePageRight DEF Tools!Dice

\* Tic-tac-toe.
TrisTyped ==
  /\ DOMAIN s = {"tool", "cells", "thinking"} /\ s.tool = "tris"
  /\ s.cells \in [0 .. 8 -> {0, 1, 2}] /\ s.thinking \in BOOLEAN

Marks(cells, m) == {c \in 0 .. 8 : cells[c] = m}

\* As many crosses as noughts, and one more while a reply is due or when the cross was the last.
TrisInv ==
  /\ TrisTyped
  /\ Cardinality(Marks(s.cells, 1))
       = Cardinality(Marks(s.cells, 2)) + (IF s.thinking \/ Tools!Result(s.cells) \in {1, 3} THEN 1 ELSE 0)
  /\ ~(Tools!Wins(s.cells, 1) /\ Tools!Wins(s.cells, 2))
  /\ s.thinking => Tools!Result(s.cells) = 0

LEMMA LinesOnBoard ==
  ASSUME NEW line \in 0 .. 7, NEW step \in 0 .. 2
  PROVE  Tools!Line(line)[step] \in 0 .. 8
  <1>1. CASE line \in 0 .. 2
    BY <1>1 DEF Tools!Line
  <1>2. CASE line \in 3 .. 5
    BY <1>2 DEF Tools!Line
  <1>3. CASE line = 6
    BY <1>3 DEF Tools!Line
  <1>4. CASE line = 7
    BY <1>4 DEF Tools!Line
  <1> QED BY <1>1, <1>2, <1>3, <1>4

\* A mark that is put elsewhere wins nothing for the other player.
LEMMA WinsOfMarks ==
  ASSUME NEW a, NEW b, NEW m, \A c \in 0 .. 8 : a[c] = m <=> b[c] = m
  PROVE  Tools!Wins(a, m) <=> Tools!Wins(b, m)
  BY LinesOnBoard DEF Tools!Wins

LEMMA MarksFinite ==
  ASSUME NEW cells, NEW m
  PROVE  IsFiniteSet(Marks(cells, m)) /\ Cardinality(Marks(cells, m)) \in Nat
  <1>1. IsFiniteSet(0 .. 8)
    <2>1. 0 \in Int /\ 8 \in Int
      OBVIOUS
    <2> QED BY <2>1, FS_Interval
  <1>2. Marks(cells, m) \subseteq 0 .. 8
    BY DEF Marks
  <1> QED BY <1>1, <1>2, FS_Subset, FS_CardinalityType

\* One cell more is one mark more.
LEMMA MarkPut ==
  ASSUME NEW cells \in [0 .. 8 -> {0, 1, 2}], NEW next \in [0 .. 8 -> {0, 1, 2}], NEW cell \in 0 .. 8,
         NEW m \in {1, 2}, cells[cell] = 0, next[cell] = m, \A c \in (0 .. 8) \ {cell} : next[c] = cells[c]
  PROVE  /\ Cardinality(Marks(next, m)) = Cardinality(Marks(cells, m)) + 1
         /\ \A n \in {1, 2} \ {m} : /\ Marks(next, n) = Marks(cells, n)
                                    /\ Tools!Wins(next, n) <=> Tools!Wins(cells, n)
  <1>1. Marks(next, m) = Marks(cells, m) \cup {cell} /\ cell \notin Marks(cells, m)
    <2>1. m # 0 /\ \A c \in 0 .. 8 : next[c] = m <=> c = cell \/ cells[c] = m
      OBVIOUS
    <2> QED BY <2>1 DEF Marks
  <1>2. Cardinality(Marks(next, m)) = Cardinality(Marks(cells, m)) + 1
    <2>1. IsFiniteSet(Marks(cells, m))
      BY MarksFinite
    <2>2. Cardinality(Marks(cells, m) \cup {cell})
            = IF cell \in Marks(cells, m) THEN Cardinality(Marks(cells, m)) ELSE Cardinality(Marks(cells, m)) + 1
      BY <2>1, FS_AddElement
    <2> QED BY <1>1, <2>2
  <1>3. ASSUME NEW n \in {1, 2} \ {m}
        PROVE  Marks(next, n) = Marks(cells, n) /\ (Tools!Wins(next, n) <=> Tools!Wins(cells, n))
    <2>1. \A c \in 0 .. 8 : next[c] = n <=> cells[c] = n
      BY <1>3
    <2> QED BY <2>1, WinsOfMarks DEF Marks
  <1> QED BY <1>2, <1>3

LEMMA Results ==
  ASSUME NEW cells
  PROVE  /\ Tools!Result(cells) \in {0, 1, 2, 3}
         /\ Tools!Result(cells) = 0 <=> /\ ~Tools!Wins(cells, 1) /\ ~Tools!Wins(cells, 2)
                                       /\ \E c \in 0 .. 8 : cells[c] = 0
         /\ Tools!Result(cells) = 1 <=> Tools!Wins(cells, 1)
         /\ Tools!Result(cells) = 3 => \A c \in 0 .. 8 : cells[c] # 0
         /\ Tools!Result(cells) = 2 => Tools!Wins(cells, 2)
  BY DEF Tools!Result, Tools!Cells

LEMMA PlayRight ==
  ASSUME TrisInv, NEW cell \in 0 .. 8, s' = Tools!Play(s, cell)
  PROVE  TrisInv'
  <1>1. CASE s' = s
    BY <1>1 DEF TrisInv, TrisTyped
  <1>2. CASE ~(s.cells[cell] # 0 \/ s.thinking \/ Tools!Result(s.cells) # 0)
    <2>1. PICK next : next = [s.cells EXCEPT ![cell] = 1]
      OBVIOUS
    <2>2. PICK thinking \in BOOLEAN : thinking = (Tools!Result(next) = 0)
      OBVIOUS
    <2>3. s' = [s EXCEPT !.cells = next, !.thinking = thinking]
      BY <1>2, <2>1, <2>2, Zenon DEF Tools!Play
    <2>4. next \in [0 .. 8 -> {0, 1, 2}] /\ next[cell] = 1 /\ \A c \in (0 .. 8) \ {cell} : next[c] = s.cells[c]
      BY <2>1 DEF TrisInv, TrisTyped
    <2>5. TrisTyped' /\ s'.cells = next /\ s'.thinking = thinking
      BY <2>3, <2>4 DEF TrisInv, TrisTyped
    <2>6. /\ Cardinality(Marks(next, 1)) = Cardinality(Marks(s.cells, 1)) + 1
          /\ Marks(next, 2) = Marks(s.cells, 2)
          /\ Tools!Wins(next, 2) <=> Tools!Wins(s.cells, 2)
      BY <1>2, <2>4, MarkPut DEF TrisInv, TrisTyped
    <2>7. ~Tools!Wins(s.cells, 1) /\ ~Tools!Wins(s.cells, 2) /\ Tools!Result(s.cells) = 0
      BY <1>2, Results
    <2>8. Cardinality(Marks(s.cells, 1)) = Cardinality(Marks(s.cells, 2)) /\ Cardinality(Marks(s.cells, 2)) \in Nat
      BY <1>2, <2>7, MarksFinite DEF TrisInv
    <2>9. Tools!Result(next) \in {0, 1, 3}
      BY <2>6, <2>7, Results
    <2> QED BY <2>2, <2>5, <2>6, <2>7, <2>8, <2>9 DEF TrisInv
  <1> QED BY <1>1, <1>2 DEF Tools!Play

LEMMA SameCountOfSteps == ASSUME NEW S PROVE Tools!Cardinality(S) = Cardinality(S)
  BY DEF Tools!Cardinality, Cardinality, Tools!IsFiniteSet, IsFiniteSet

\* Two of three are marked, so one at most is free.
LEMMA OneLeft ==
  ASSUME NEW marked \in SUBSET (0 .. 2), NEW free \in SUBSET (0 .. 2), marked \cap free = {},
         Cardinality(marked) = 2, NEW a \in free, NEW b \in free
  PROVE  a = b
  <1> SUFFICES ASSUME a # b PROVE FALSE
    OBVIOUS
  <1>1. \E c \in 0 .. 2 : (0 .. 2) \ {a, b} = {c}
    <2>1. a \in {0, 1, 2} /\ b \in {0, 1, 2} /\ 0 .. 2 = {0, 1, 2}
      OBVIOUS
    <2> QED BY <2>1
  <1>2. PICK c : marked \subseteq {c}
    BY <1>1
  <1>3. IsFiniteSet({c}) /\ Cardinality({c}) = 1
    BY FS_Singleton
  <1>4. marked \in SUBSET {c}
    BY <1>2
  <1>5. Cardinality(marked) <= Cardinality({c})
    BY <1>3, <1>4, FS_Subset
  <1> QED BY <1>3, <1>5

LEMMA FinishingRight ==
  ASSUME NEW cells \in [0 .. 8 -> {0, 1, 2}], NEW mark \in {1, 2}, Tools!Finishing(cells, mark) # {}
  PROVE  \E cell \in 0 .. 8 : Tools!Finishing(cells, mark) = {cell} /\ cells[cell] = 0
  <1> DEFINE Marked(line) == {step \in 0 .. 2 : cells[Tools!Line(line)[step]] = mark}
             Free(line) == {step \in 0 .. 2 : cells[Tools!Line(line)[step]] = 0}
             open == {line \in 0 .. 7 : Tools!Cardinality(Marked(line)) = 2 /\ Free(line) # {}}
             first == CHOOSE line \in open : \A other \in open : line <= other
  <1>1. Tools!Finishing(cells, mark) = IF open = {} THEN {} ELSE {Tools!Line(first)[step] : step \in Free(first)}
    BY Zenon DEF Tools!Finishing
  <1>2. open # {} /\ open \in SUBSET Nat
    <2>1. open # {}
      BY <1>1
    <2> QED BY <2>1
  <1>3. \E line \in open : \A other \in open : line <= other
    BY <1>2, LeastOf
  <1>4. first \in open
    BY <1>3
  <1>5. first \in 0 .. 7 /\ Cardinality(Marked(first)) = 2 /\ Free(first) # {}
    BY <1>4, SameCountOfSteps
  <1> HIDE DEF first, open
  <1>6. PICK step \in 0 .. 2 : step \in Free(first)
    BY <1>5
  <1>7. \A a, b \in Free(first) : a = b
    <2>1. Marked(first) \in SUBSET (0 .. 2) /\ Free(first) \in SUBSET (0 .. 2) /\ Marked(first) \cap Free(first) = {}
      OBVIOUS
    <2> HIDE DEF Marked, Free
    <2> QED BY <1>5, <2>1, OneLeft
  <1>8. Free(first) = {step}
    BY <1>6, <1>7
  <1>9. Tools!Line(first)[step] \in 0 .. 8 /\ cells[Tools!Line(first)[step]] = 0
    BY <1>5, <1>6, LinesOnBoard
  <1> HIDE DEF Free
  <1> QED BY <1>1, <1>2, <1>8, <1>9

LEMMA FirstFree ==
  ASSUME NEW cells \in [0 .. 8 -> {0, 1, 2}], \E c \in 0 .. 8 : cells[c] = 0
  PROVE  LET free == {i \in DOMAIN Tools!Preferred : cells[Tools!Preferred[i]] = 0}
             cell == Tools!Preferred[CHOOSE i \in free : \A j \in free : i <= j]
         IN cell \in 0 .. 8 /\ cells[cell] = 0
  <1> DEFINE free == {i \in DOMAIN Tools!Preferred : cells[Tools!Preferred[i]] = 0}
             least == CHOOSE i \in free : \A j \in free : i <= j
  <1>1. DOMAIN Tools!Preferred = 1 .. 9 /\ \A i \in 1 .. 9 : Tools!Preferred[i] \in 0 .. 8
    BY DEF Tools!Preferred
  <1>2. PICK c \in 0 .. 8 : cells[c] = 0
    OBVIOUS
  <1>3. \E i \in 1 .. 9 : Tools!Preferred[i] = c
    <2>1. c \in {0, 1, 2, 3, 4, 5, 6, 7, 8}
      OBVIOUS
    <2> QED BY <2>1 DEF Tools!Preferred
  <1>4. free # {} /\ free \in SUBSET Nat
    BY <1>1, <1>2, <1>3
  <1>5. \E i \in free : \A j \in free : i <= j
    BY <1>4, LeastOf
  <1>6. least \in free
    BY <1>5
  <1> HIDE DEF least
  <1>7. Tools!Preferred[least] \in 0 .. 8 /\ cells[Tools!Preferred[least]] = 0
    BY <1>1, <1>6
  <1> QED BY <1>7 DEF least

\* The device answers in one cell that is free.
LEMMA ReplyMoves ==
  ASSUME TrisInv, s.thinking
  PROVE  \E cell \in 0 .. 8 :
           /\ s.cells[cell] = 0
           /\ Tools!Reply(s) = [s EXCEPT !.thinking = FALSE, !.cells = [c \in 0 .. 8 |-> IF c = cell THEN 2 ELSE @[c]]]
  <1> DEFINE free == {i \in DOMAIN Tools!Preferred : s.cells[Tools!Preferred[i]] = 0}
             else == Tools!Preferred[CHOOSE i \in free : \A j \in free : i <= j]
             moves == IF Tools!Finishing(s.cells, 2) # {} THEN Tools!Finishing(s.cells, 2)
                      ELSE IF Tools!Finishing(s.cells, 1) # {} THEN Tools!Finishing(s.cells, 1)
                      ELSE {else}
  <1>1. s.cells \in [0 .. 8 -> {0, 1, 2}] /\ Tools!Result(s.cells) = 0
    BY DEF TrisInv, TrisTyped
  <1>2. Tools!Reply(s) = [s EXCEPT !.thinking = FALSE, !.cells = [c \in 0 .. 8 |-> IF c \in moves THEN 2 ELSE @[c]]]
    BY <1>1, Zenon DEF Tools!Reply, Tools!Cells
  <1>3. \E c \in 0 .. 8 : s.cells[c] = 0
    BY <1>1, Results
  <1>4. else \in 0 .. 8 /\ s.cells[else] = 0
    BY <1>1, <1>3, FirstFree
  <1> HIDE DEF else
  <1>5. \E cell \in 0 .. 8 : moves = {cell} /\ s.cells[cell] = 0
    BY <1>1, <1>4, FinishingRight
  <1> HIDE DEF moves
  <1>6. PICK cell \in 0 .. 8 : moves = {cell} /\ s.cells[cell] = 0
    BY <1>5
  <1>7. [c \in 0 .. 8 |-> IF c \in moves THEN 2 ELSE s.cells[c]] = [c \in 0 .. 8 |-> IF c = cell THEN 2 ELSE s.cells[c]]
    BY <1>6
  <1> QED BY <1>2, <1>6, <1>7, Zenon

LEMMA ReplyRight ==
  ASSUME TrisInv, s.thinking, s' = Tools!Reply(s)
  PROVE  TrisInv'
  <1>1. PICK cell \in 0 .. 8 :
          /\ s.cells[cell] = 0
          /\ s' = [s EXCEPT !.thinking = FALSE, !.cells = [c \in 0 .. 8 |-> IF c = cell THEN 2 ELSE @[c]]]
    BY ReplyMoves
  <1>2. PICK next : next = [c \in 0 .. 8 |-> IF c = cell THEN 2 ELSE s.cells[c]]
    OBVIOUS
  <1>3. s.cells \in [0 .. 8 -> {0, 1, 2}] /\ Tools!Result(s.cells) = 0
    BY DEF TrisInv, TrisTyped
  <1>4. next \in [0 .. 8 -> {0, 1, 2}] /\ next[cell] = 2 /\ \A c \in (0 .. 8) \ {cell} : next[c] = s.cells[c]
    BY <1>2, <1>3
  <1>5. s' = [s EXCEPT !.thinking = FALSE, !.cells = next]
    BY <1>1, <1>2, Zenon
  <1>6. TrisTyped' /\ s'.cells = next /\ s'.thinking = FALSE
    BY <1>4, <1>5 DEF TrisInv, TrisTyped
  <1>7. /\ Cardinality(Marks(next, 2)) = Cardinality(Marks(s.cells, 2)) + 1
        /\ Marks(next, 1) = Marks(s.cells, 1)
        /\ Tools!Wins(next, 1) <=> Tools!Wins(s.cells, 1)
    BY <1>1, <1>3, <1>4, MarkPut
  <1>8. ~Tools!Wins(next, 1)
    BY <1>3, <1>7, Results
  <1>9. /\ Cardinality(Marks(s.cells, 1)) = Cardinality(Marks(s.cells, 2)) + 1
        /\ Cardinality(Marks(s.cells, 2)) \in Nat
    BY MarksFinite DEF TrisInv
  \* Nine cells are an odd number.
  <1>10. Tools!Result(next) # 3
    <2> SUFFICES ASSUME Tools!Result(next) = 3 PROVE FALSE
      OBVIOUS
    <2>1. \A c \in 0 .. 8 : next[c] = 1 \/ next[c] = 2
      BY <1>4, Results
    <2>2. Marks(next, 1) \cup Marks(next, 2) = 0 .. 8 /\ Marks(next, 1) \cap Marks(next, 2) = {}
      BY <2>1 DEF Marks
    <2>3. Cardinality(0 .. 8) = 9
      <3>1. 0 \in Int /\ 8 \in Int
        OBVIOUS
      <3>2. Cardinality(0 .. 8) = IF 0 > 8 THEN 0 ELSE 8 - 0 + 1
        BY <3>1, FS_Interval
      <3> QED BY <3>2
    <2>4. Cardinality({}) = 0
      BY FS_EmptySet
    <2>5. IsFiniteSet(Marks(next, 1)) /\ IsFiniteSet(Marks(next, 2))
      BY MarksFinite
    <2>6. Cardinality(Marks(next, 1) \cup Marks(next, 2))
            = Cardinality(Marks(next, 1)) + Cardinality(Marks(next, 2))
                - Cardinality(Marks(next, 1) \cap Marks(next, 2))
      BY <2>5, FS_Union
    <2>7. Cardinality(Marks(next, 1)) = Cardinality(Marks(next, 2)) /\ Cardinality(Marks(next, 2)) \in Nat
      BY <1>7, <1>9
    <2>8. PICK k \in Nat : k = Cardinality(Marks(next, 1)) /\ k = Cardinality(Marks(next, 2))
      BY <2>7
    <2>9. 9 = k + k - 0
      BY <2>2, <2>3, <2>4, <2>6, <2>8, Zenon
    <2> QED BY <2>9
  <1>11. Tools!Result(next) \in {0, 2}
    BY <1>8, <1>10, Results
  <1> QED BY <1>6, <1>7, <1>8, <1>9, <1>11 DEF TrisInv

LEMMA TrisBegins == s = Tools!TrisInit => TrisInv
  <1> SUFFICES ASSUME s = Tools!TrisInit PROVE TrisInv
    OBVIOUS
  <1>1. TrisTyped /\ ~s.thinking /\ \A c \in 0 .. 8 : s.cells[c] = 0
    <2>1. PICK cells : cells = [c \in 0 .. 8 |-> 0]
      OBVIOUS
    <2>2. cells \in [0 .. 8 -> {0, 1, 2}] /\ \A c \in 0 .. 8 : cells[c] = 0
      BY <2>1
    <2>3. s = [tool |-> "tris", cells |-> cells, thinking |-> FALSE]
      BY <2>1, Zenon DEF Tools!TrisInit, Tools!Cells
    <2> QED BY <2>2, <2>3 DEF TrisTyped
  <1>2. Marks(s.cells, 1) = Marks(s.cells, 2)
    BY <1>1 DEF Marks
  <1>3. ~Tools!Wins(s.cells, 1) /\ ~Tools!Wins(s.cells, 2)
    <2>1. 0 \in 0 .. 2 /\ \A line \in 0 .. 7 : s.cells[Tools!Line(line)[0]] = 0
      <3>1. 0 \in 0 .. 2
        OBVIOUS
      <3>2. \A line \in 0 .. 7 : Tools!Line(line)[0] \in 0 .. 8
        BY <3>1, LinesOnBoard
      <3> QED BY <1>1, <3>1, <3>2
    <2>2. \A line \in 0 .. 7 : s.cells[Tools!Line(line)[0]] # 1 /\ s.cells[Tools!Line(line)[0]] # 2
      BY <2>1
    <2> QED BY <2>1, <2>2, Zenon DEF Tools!Wins
  <1>4. Tools!Result(s.cells) = 0
    BY <1>1, <1>3, Results
  <1> QED BY <1>1, <1>2, <1>3, <1>4, MarksFinite DEF TrisInv

LEMMA TrisBeginsAgain == (s = Tools!TrisInit)' => TrisInv'
  BY TrisBegins, PTL

LEMMA TrisSteps ==
  ASSUME TrisInv, Tools!Tris
  PROVE  TrisInv'
  <1>1. ASSUME s' = Tools!TrisInit PROVE TrisInv'
    BY <1>1, TrisBeginsAgain
  <1> QED BY <1>1, PlayRight, ReplyRight DEF Tools!Tris, Tools!Cells

ToolsInv ==
  CASE s.tool = "timer" -> TimerKept(s)
    [] s.tool = "tris" -> TrisInv
    [] s.tool = "dice" -> DiceKept(s)
    [] OTHER -> FALSE

LEMMA ToolsBegin == Tools!Init => ToolsInv
  <1>1. CASE s = Tools!TimerInit
    BY <1>1, TimerBegins DEF ToolsInv, Tools!TimerInit
  <1>2. CASE s = Tools!TrisInit
    BY <1>2, TrisBegins DEF ToolsInv, Tools!TrisInit
  <1>3. CASE s = Tools!DiceInit
    BY <1>3 DEF ToolsInv, DiceKept, DiceTyped, Tools!DiceInit
  <1> QED BY <1>1, <1>2, <1>3 DEF Tools!Init

LEMMA ToolsStep ==
  ASSUME ToolsInv, [Tools!Next]_s
  PROVE  ToolsInv'
  <1>1. CASE Tools!Timer
    <2>1. TimerKept(s)'
      BY <1>1, TimerSteps DEF ToolsInv, Tools!Timer
    <2> QED BY <2>1 DEF ToolsInv, TimerKept, TimerTyped
  <1>2. CASE Tools!Tris
    <2>1. TrisInv'
      BY <1>2, TrisSteps DEF ToolsInv, Tools!Tris
    <2> QED BY <2>1 DEF ToolsInv, TrisInv, TrisTyped
  <1>3. CASE Tools!Dice
    <2>1. DiceKept(s)'
      BY <1>3, DiceSteps DEF ToolsInv, Tools!Dice
    <2> QED BY <2>1 DEF ToolsInv, DiceKept, DiceTyped
  <1>4. CASE s' = s
    BY <1>4 DEF ToolsInv, TimerKept, TimerTyped, ExactOf, TrisInv, TrisTyped, DiceKept, DiceTyped
  <1> QED BY <1>1, <1>2, <1>3, <1>4 DEF Tools!Next

LEMMA ToolsRight == ToolsInv => Tools!ToolsCorrect
  <1> SUFFICES ASSUME ToolsInv PROVE Tools!ToolsCorrect
    OBVIOUS
  <1>1. CASE s.tool = "timer"
    <2>1. ExactOf(s)
      BY <1>1 DEF ToolsInv, TimerKept
    <2>2. Tools!TimerExact
      BY <2>1, Zenon DEF ExactOf, Tools!TimerExact, Tools!Rest
    <2> QED BY <1>1, <2>2 DEF Tools!ToolsCorrect
  <1>2. CASE s.tool = "tris"
    <2>1. TrisInv
      BY <1>2 DEF ToolsInv
    <2>2. \A S : Tools!Cardinality(S) = Cardinality(S)
      BY SameCountOfSteps
    <2>3. Tools!BoardLawful
      BY <2>1, <2>2 DEF TrisInv, Marks, Tools!BoardLawful, Tools!Cells
    <2> QED BY <1>2, <2>3 DEF Tools!ToolsCorrect
  <1>3. CASE s.tool = "dice"
    <2>1. Tools!DiceCurrent
      BY <1>3 DEF ToolsInv, DiceKept, Tools!DiceCurrent, Tools!PerPage
    <2> QED BY <1>3, <2>1 DEF Tools!ToolsCorrect
  <1> QED BY <1>1, <1>2, <1>3 DEF ToolsInv

\* However far apart the ticks are, the timer shows what is left of work and rest; whatever is
\* tapped while the device thinks, the board is one that two players can have reached; the page of
\* dice exists and is of the dice that are selected (view_state.h, tic_tac_toe.h, dice.h).
THEOREM ToolsKeep == DeviceSpec => [](part = "tools" => Tools!ToolsCorrect)
  <1> DEFINE Inv == part = "tools" => ToolsInv
  <1>1. DeviceInit => Inv
    BY AlgorithmsBegin, ToolsBegin
  <1>2. Inv /\ [DeviceNext]_deviceVars => Inv'
    BY AlgorithmsAlone, ToolsStep
  <1>3. Inv => (part = "tools" => Tools!ToolsCorrect)
    BY ToolsRight
  <1> QED BY <1>1, <1>2, <1>3, PTL DEF DeviceSpec

-----------------------------------------------------------------------------
(* Records: the languages *)

Numbered == AppLanguages \cup {255}

\* A number has one place at most; the record, once there is one, is what is bound.
LanguageInv ==
  /\ DOMAIN s = {"unit", "bound", "stored", "received", "locale", "meant"} /\ s.unit = "language"
  /\ s.bound \in Numbered \X Numbered /\ (s.bound[1] # 255 => s.bound[1] # s.bound[2])
  /\ s.received \in Numbered /\ DOMAIN s.meant = AppLanguages
  /\ s.bound = IF s.stored = <<>> THEN <<255, 255>> ELSE s.stored
  /\ Records!LanguageKept

LEMMA NumbersMeanOne ==
  ASSUME NEW a, NEW b, NEW l, l # 255
  PROVE  Records!Known(<<a, b>>, l) = IF l = a THEN 0 ELSE IF l = b THEN 1 ELSE 255
  BY DEF Records!Known, Records!None

LEMMA BindsRight ==
  ASSUME LanguageInv, NEW locale \in {0, 1}, Records!Binds(locale)
  PROVE  LanguageInv'
  <1>1. PICK a \in Numbered, b \in Numbered : s.bound = <<a, b>> /\ (a # 255 => a # b)
    BY DEF LanguageInv
  <1>2. PICK r \in AppLanguages : r = s.received
    BY DEF LanguageInv, Records!Binds, Records!None, Numbered
  <1>3. \A l \in AppLanguages : s.meant[l] = IF l = a THEN 0 ELSE IF l = b THEN 1 ELSE 255
    BY <1>1, NumbersMeanOne, RecordsAssumption DEF LanguageInv, Records!LanguageKept
  <1>4. PICK c, d : c = (IF locale = 0 THEN r ELSE IF a = r THEN 255 ELSE a)
                    /\ d = (IF locale = 1 THEN r ELSE IF b = r THEN 255 ELSE b)
    OBVIOUS
  <1>5. PICK meant : meant = [l \in AppLanguages |->
                               IF l = r THEN locale ELSE IF s.meant[l] = locale THEN 255 ELSE s.meant[l]]
    OBVIOUS
  <1>6. s' = [s EXCEPT !.bound = <<c, d>>, !.stored = <<c, d>>, !.meant = meant]
    <2> DEFINE other == IF s.bound[2 - locale] = s.received THEN 255 ELSE s.bound[2 - locale]
               next == IF locale = 0 THEN <<s.received, other>> ELSE <<other, s.received>>
    <2>1. next = <<c, d>>
      <3>1. CASE locale = 0
        BY <1>1, <1>2, <1>4, <3>1
      <3>2. CASE locale = 1
        BY <1>1, <1>2, <1>4, <3>2
      <3> QED BY <3>1, <3>2
    <2>2. s' = [s EXCEPT !.bound = next, !.stored = next,
                         !.meant = [l \in AppLanguages |->
                                      IF l = s.received THEN locale ELSE IF @[l] = locale THEN 255 ELSE @[l]]]
      BY Zenon DEF Records!Binds, Records!None
    <2> HIDE DEF next
    <2> QED BY <1>2, <1>5, <2>1, <2>2, Zenon
  <1>7. /\ DOMAIN s' = {"unit", "bound", "stored", "received", "locale", "meant"} /\ s'.unit = "language"
        /\ s'.bound = <<c, d>> /\ s'.stored = <<c, d>> /\ s'.received = s.received /\ s'.meant = meant
    BY <1>6 DEF LanguageInv
  <1>8. c \in Numbered /\ d \in Numbered /\ (c # 255 => c # d)
    BY <1>1, <1>4, RecordsAssumption DEF Numbered
  <1>9. ASSUME NEW l \in AppLanguages
        PROVE  Records!Known(<<c, d>>, l) = meant[l]
    <2>1. l # 255 /\ r # 255
      BY RecordsAssumption
    <2>2. Records!Known(<<c, d>>, l) = IF l = c THEN 0 ELSE IF l = d THEN 1 ELSE 255
      BY <2>1, NumbersMeanOne
    <2>3. meant[l] = IF l = r THEN locale ELSE IF s.meant[l] = locale THEN 255 ELSE s.meant[l]
      BY <1>5
    <2>4. s.meant[l] = IF l = a THEN 0 ELSE IF l = b THEN 1 ELSE 255
      BY <1>3
    <2> QED BY <1>1, <1>4, <2>1, <2>2, <2>3, <2>4
  <1>10. Records!LanguageKept'
    BY <1>7, <1>9 DEF Records!LanguageKept, Records!Known, Records!None
  <1>11. s'.received \in Numbered /\ DOMAIN s'.meant = AppLanguages
    BY <1>5, <1>7 DEF LanguageInv
  <1>12. s'.stored # <<>>
    BY <1>7
  <1> QED BY <1>7, <1>8, <1>10, <1>11, <1>12 DEF LanguageInv, Numbered

LEMMA LanguageBegins == s.unit = "language" /\ Records!Init => LanguageInv
  <1> SUFFICES ASSUME s.unit = "language", Records!Init PROVE LanguageInv
    OBVIOUS
  <1>1. Records!LanguageInit
    BY DEF Records!Init, Records!ProfileInit
  <1>2. /\ DOMAIN s = {"unit", "bound", "stored", "received", "locale", "meant"} /\ s.unit = "language"
        /\ s.bound = <<255, 255>> /\ s.stored = <<>> /\ s.received = 255
        /\ s.meant = [l \in AppLanguages |-> 255]
    BY <1>1 DEF Records!LanguageInit, Records!None
  <1>3. Records!LanguageKept
    BY <1>2, NumbersMeanOne, RecordsAssumption DEF Records!LanguageKept
  <1> QED BY <1>2, <1>3 DEF LanguageInv, Numbered

LEMMA LanguageSteps ==
  ASSUME LanguageInv, [Records!Next]_s
  PROVE  LanguageInv'
  <1>1. CASE Records!Restarts
    <2>1. PICK bound : bound = IF s.stored = <<>> THEN <<255, 255>> ELSE s.stored
      OBVIOUS
    <2>2. bound = s.bound
      BY <2>1 DEF LanguageInv
    <2>3. s' = [s EXCEPT !.bound = bound, !.received = 255, !.locale = 0]
      BY <1>1, <2>1, Zenon DEF Records!Restarts, Records!None
    <2>4. /\ DOMAIN s' = {"unit", "bound", "stored", "received", "locale", "meant"} /\ s'.unit = "language"
          /\ s'.bound = s.bound /\ s'.stored = s.stored /\ s'.received = 255 /\ s'.meant = s.meant
      BY <2>2, <2>3 DEF LanguageInv
    <2> QED BY <2>4 DEF LanguageInv, Numbered, Records!LanguageKept, Records!Known, Records!None
  <1>2. ASSUME NEW id \in AppLanguages, Records!Receives(id)
        PROVE  LanguageInv'
    <2>1. PICK locale : locale = IF Records!Known(s.bound, id) = 255 THEN s.locale ELSE Records!Known(s.bound, id)
      OBVIOUS
    <2>2. s' = [s EXCEPT !.received = id, !.locale = locale]
      BY <1>2, <2>1, Zenon DEF Records!Receives, Records!None
    <2>3. /\ DOMAIN s' = {"unit", "bound", "stored", "received", "locale", "meant"} /\ s'.unit = "language"
          /\ s'.bound = s.bound /\ s'.stored = s.stored /\ s'.received = id /\ s'.meant = s.meant
      BY <2>2 DEF LanguageInv
    <2> QED BY <2>3 DEF LanguageInv, Numbered, Records!LanguageKept, Records!Known, Records!None
  <1>3. CASE s' = s
    BY <1>3 DEF LanguageInv, Numbered, Records!LanguageKept, Records!Known, Records!None
  <1> QED BY <1>1, <1>2, <1>3, BindsRight DEF Records!Next, LanguageInv

-----------------------------------------------------------------------------
(* Records: the profile *)

\* A recursion from a value of a set, by steps that stay in it, has a result.
Goes(f, n, a, step) == f[0] = a /\ \A i \in 1 .. n : f[i] = step[i][f[i - 1]]

LEMMA Recursion ==
  ASSUME NEW S, NEW a \in S, NEW step \in [Nat -> [S -> S]], NEW n \in Nat
  PROVE  \E f \in [0 .. n -> S] : Goes(f, n, a, step)
  <1> DEFINE Follows(f, m) == f \in [0 .. m -> S] /\ f[0] = a /\ \A i \in 1 .. m : f[i] = step[i][f[i - 1]]
             without == {m \in Nat : ~\E f : Follows(f, m)}
  <1>1. SUFFICES ASSUME without # {} PROVE FALSE
    BY DEF Goes
  <1>2. without \in SUBSET Nat
    OBVIOUS
  <1>3. PICK m \in without : \A k \in without : m <= k
    <2> HIDE DEF without
    <2> QED BY <1>1, <1>2, LeastOf
  <1>4. m \in Nat /\ ~\E f : Follows(f, m)
    BY <1>3
  <1>5. m # 0
    <2>1. Follows([i \in 0 .. 0 |-> a], 0)
      OBVIOUS
    <2> QED BY <2>1, <1>4
  <1>6. m - 1 \in Nat /\ m - 1 \notin without
    <2> HIDE DEF without
    <2> QED BY <1>3, <1>4, <1>5
  <1>7. PICK f : Follows(f, m - 1)
    BY <1>6
  <1>8. f[m - 1] \in S /\ step[m] \in [S -> S] /\ step[m][f[m - 1]] \in S
    BY <1>4, <1>5, <1>7
  <1> DEFINE g == [i \in 0 .. m |-> IF i = m THEN step[m][f[m - 1]] ELSE f[i]]
  <1>9. Follows(g, m)
    <2>1. g \in [0 .. m -> S]
      BY <1>4, <1>5, <1>7, <1>8
    <2>2. g[0] = a
      BY <1>4, <1>5, <1>7
    <2>3. ASSUME NEW i \in 1 .. m PROVE g[i] = step[i][g[i - 1]]
      <3>1. CASE i = m
        BY <3>1, <1>4, <1>5
      <3>2. CASE i # m
        BY <3>2, <1>4, <1>5, <1>7
      <3> QED BY <3>1, <3>2
    <2> QED BY <2>1, <2>2, <2>3
  <1>10. FALSE
    BY <1>4, <1>9
  <1> QED BY <1>10

\* The bits of a number make the number again.
LEMMA NumberOf ==
  ASSUME NEW b
  PROVE  LET Bit(i) == IF i \in b THEN 2 ^ i ELSE 0
         IN Records!Number(b) = Bit(0) + Bit(1) + Bit(2) + Bit(3) + Bit(4) + Bit(5) + Bit(6) + Bit(7)
  <1> DEFINE Bit(i) == IF i \in b THEN 2 ^ i ELSE 0
             step == [i \in Nat |-> [z \in Int |-> IF i \in 1 .. 8 THEN z + Bit(i - 1) ELSE z]]
             Term(i) == IF i - 1 \in b THEN 2 ^ (i - 1) ELSE 0
             Is(f) == f = [i \in 0 .. 8 |-> IF i = 0 THEN 0 ELSE f[i - 1] + Term(i)]
             f == CHOOSE g : Is(g)
  <1>1. \A i \in Nat : Term(i) = Bit(i - 1)
    OBVIOUS
  <1> HIDE DEF Bit, Term
  <1>2. \A i \in 0 .. 7 : Bit(i) \in Int
    <2> SUFFICES ASSUME NEW i \in 0 .. 7 PROVE Bit(i) \in Int
      OBVIOUS
    <2>1. 2 ^ i \in Int
      OBVIOUS
    <2> QED BY <2>1 DEF Bit
  <1>3. step \in [Nat -> [Int -> Int]]
    <2>1. \A i \in Nat, z \in Int : (IF i \in 1 .. 8 THEN z + Bit(i - 1) ELSE z) \in Int
      BY <1>2
    <2> QED BY <2>1
  <1>4. PICK g \in [0 .. 8 -> Int] : g[0] = 0 /\ \A i \in 1 .. 8 : g[i] = step[i][g[i - 1]]
    <2> HIDE DEF step
    <2>1. PICK T : T = Int
      OBVIOUS
    <2>2. PICK zero \in T : zero = 0
      BY <2>1
    <2>3. PICK n \in Nat : n = 8
      OBVIOUS
    <2>4. step \in [Nat -> [T -> T]]
      BY <1>3, <2>1
    <2>5. PICK g \in [0 .. n -> T] : Goes(g, n, zero, step)
      BY <2>4, Recursion
    <2> QED BY <2>1, <2>2, <2>3, <2>5 DEF Goes
  <1>5. \A i \in 1 .. 8 : g[i] = g[i - 1] + Bit(i - 1)
    <2> SUFFICES ASSUME NEW i \in 1 .. 8 PROVE g[i] = g[i - 1] + Bit(i - 1)
      OBVIOUS
    <2>1. g[i - 1] \in Int /\ i \in Nat
      BY <1>4
    <2>2. g[i] = step[i][g[i - 1]]
      BY <1>4
    <2> QED BY <2>1, <2>2
  <1> HIDE DEF step
  <1>6. Is(g)
    <2>1. \A i \in 0 .. 8 : g[i] = IF i = 0 THEN 0 ELSE g[i - 1] + Term(i)
      <3> SUFFICES ASSUME NEW i \in 0 .. 8
                   PROVE  g[i] = IF i = 0 THEN 0 ELSE g[i - 1] + Term(i)
        OBVIOUS
      <3>1. CASE i = 0
        BY <3>1, <1>4
      <3>2. CASE i # 0
        BY <3>2, <1>1, <1>5
      <3> QED BY <3>1, <3>2
    <2> QED BY <2>1, <1>4
  <1>7. Is(f)
    <2> HIDE DEF Is
    <2> QED BY <1>6
  <1>8. Records!Number(b) = f[8]
    BY DEF Records!Number, Term
  <1> HIDE DEF f
  <1>9. f[0] = 0 /\ \A i \in 1 .. 8 : f[i] = f[i - 1] + Bit(i - 1)
    <2>1. \A i \in 0 .. 8 : f[i] = IF i = 0 THEN 0 ELSE f[i - 1] + Term(i)
      BY <1>7
    <2>2. \A i \in 1 .. 8 : f[i] = f[i - 1] + Term(i)
      BY <2>1
    <2> QED BY <2>1, <2>2, <1>1
  <1>10. f[8] = Bit(0) + Bit(1) + Bit(2) + Bit(3) + Bit(4) + Bit(5) + Bit(6) + Bit(7)
    <2>1. /\ f[1] = f[0] + Bit(0) /\ f[2] = f[1] + Bit(1) /\ f[3] = f[2] + Bit(2) /\ f[4] = f[3] + Bit(3)
          /\ f[5] = f[4] + Bit(4) /\ f[6] = f[5] + Bit(5) /\ f[7] = f[6] + Bit(6) /\ f[8] = f[7] + Bit(7)
      BY <1>9
    <2> QED BY <2>1, <1>9, <1>2
  <1> QED BY <1>8, <1>10 DEF Bit

LEMMA ByteOfNumber ==
  ASSUME NEW n \in 0 .. 255
  PROVE  Records!Byte(n) \subseteq 0 .. 7 /\ Records!Number(Records!Byte(n)) = n
  <1> DEFINE b == Records!Byte(n)
  <1>1. /\ b \subseteq 0 .. 7
        /\ 0 \in b <=> n % 2 = 1
        /\ 1 \in b <=> (n \div 2) % 2 = 1
        /\ 2 \in b <=> (n \div 4) % 2 = 1
        /\ 3 \in b <=> (n \div 8) % 2 = 1
        /\ 4 \in b <=> (n \div 16) % 2 = 1
        /\ 5 \in b <=> (n \div 32) % 2 = 1
        /\ 6 \in b <=> (n \div 64) % 2 = 1
        /\ 7 \in b <=> (n \div 128) % 2 = 1
    BY DEF Records!Byte
  <1> HIDE DEF b
  <1> DEFINE Bit(i) == IF i \in b THEN 2 ^ i ELSE 0
  <1>2. Records!Number(b) = Bit(0) + Bit(1) + Bit(2) + Bit(3) + Bit(4) + Bit(5) + Bit(6) + Bit(7)
    BY NumberOf
  <1>3. /\ Bit(0) = n % 2 /\ Bit(1) = 2 * ((n \div 2) % 2) /\ Bit(2) = 4 * ((n \div 4) % 2)
        /\ Bit(3) = 8 * ((n \div 8) % 2) /\ Bit(4) = 16 * ((n \div 16) % 2) /\ Bit(5) = 32 * ((n \div 32) % 2)
        /\ Bit(6) = 64 * ((n \div 64) % 2) /\ Bit(7) = 128 * ((n \div 128) % 2)
    BY <1>1
  <1>4. n = (n % 2) + 2 * ((n \div 2) % 2) + 4 * ((n \div 4) % 2) + 8 * ((n \div 8) % 2) + 16 * ((n \div 16) % 2)
            + 32 * ((n \div 32) % 2) + 64 * ((n \div 64) % 2) + 128 * ((n \div 128) % 2)
    OBVIOUS
  <1> HIDE DEF Bit
  <1> QED BY <1>1, <1>2, <1>3, <1>4 DEF b

-----------------------------------------------------------------------------
\* The checksum of a record, and of one of which a bit was lost.
Sums(f, c) == f[0] = Records!Byte(165) /\ \A n \in 1 .. Len(c) : f[n] = Records!Xor(f[n - 1], c[n])

LEMMA ChecksumSums ==
  ASSUME NEW c \in Seq(SUBSET Nat)
  PROVE  \E f \in [0 .. Len(c) -> SUBSET Nat] : Sums(f, c) /\ Records!Checksum(c) = f[Len(c)]
  <1> DEFINE S == SUBSET Nat
             step == [n \in Nat |-> [z \in S |-> IF n \in 1 .. Len(c) THEN Records!Xor(z, c[n]) ELSE z]]
             Is(f) == f = [n \in 0 .. Len(c) |-> IF n = 0 THEN Records!Byte(165) ELSE Records!Xor(f[n - 1], c[n])]
             f == CHOOSE g : Is(g)
  <1>1. Records!Byte(165) \in S /\ Len(c) \in Nat
    BY DEF Records!Byte
  <1>2. step \in [Nat -> [S -> S]]
    <2>1. ASSUME NEW n \in Nat, NEW z \in S PROVE (IF n \in 1 .. Len(c) THEN Records!Xor(z, c[n]) ELSE z) \in S
      <3>1. CASE n \in 1 .. Len(c)
        <4>1. c[n] \in SUBSET Nat
          BY <3>1
        <4> QED BY <3>1, <4>1 DEF Records!Xor
      <3>2. CASE n \notin 1 .. Len(c)
        BY <3>2
      <3> QED BY <3>1, <3>2
    <2> HIDE DEF S
    <2> QED BY <2>1
  <1>3. PICK g \in [0 .. Len(c) -> S] : Goes(g, Len(c), Records!Byte(165), step)
    <2> HIDE DEF S, step
    <2> QED BY <1>1, <1>2, Recursion
  <1>4. ASSUME NEW n \in 1 .. Len(c) PROVE g[n] = Records!Xor(g[n - 1], c[n])
    <2>1. g[n - 1] \in S /\ n \in Nat
      <3> HIDE DEF S, step
      <3>1. n - 1 \in 0 .. Len(c) /\ n \in Nat
        BY <1>1
      <3> QED BY <3>1, <1>3
    <2>2. g[n] = step[n][g[n - 1]]
      <3> HIDE DEF S, step
      <3> QED BY <1>3 DEF Goes
    <2>3. step[n][g[n - 1]] = Records!Xor(g[n - 1], c[n])
      <3>1. step[n] = [z \in S |-> IF n \in 1 .. Len(c) THEN Records!Xor(z, c[n]) ELSE z]
        BY <2>1
      <3> HIDE DEF S, step
      <3> QED BY <3>1, <2>1
    <2> QED BY <2>2, <2>3
  <1> HIDE DEF step, S
  <1>5. g[0] = Records!Byte(165)
    BY <1>3 DEF Goes
  <1>6. Is(g)
    <2>1. ASSUME NEW n \in 0 .. Len(c)
          PROVE  g[n] = IF n = 0 THEN Records!Byte(165) ELSE Records!Xor(g[n - 1], c[n])
      <3>1. CASE n = 0
        BY <3>1, <1>5
      <3>2. CASE n # 0
        BY <3>2, <1>1, <1>4
      <3> QED BY <3>1, <3>2
    <2> QED BY <2>1, <1>3
  <1>7. Is(f)
    <2> HIDE DEF Is
    <2> QED BY <1>6
  <1>8. Records!Checksum(c) = f[Len(c)]
    BY DEF Records!Checksum
  <1> HIDE DEF f
  <1>9. DOMAIN f = 0 .. Len(c) /\ Sums(f, c)
    <2>1. DOMAIN f = 0 .. Len(c)
          /\ \A n \in 0 .. Len(c) : f[n] = IF n = 0 THEN Records!Byte(165) ELSE Records!Xor(f[n - 1], c[n])
      BY <1>7
    <2>2. f[0] = Records!Byte(165)
      BY <2>1, <1>1
    <2>3. ASSUME NEW n \in 1 .. Len(c) PROVE f[n] = Records!Xor(f[n - 1], c[n])
      <3>1. n \in 0 .. Len(c) /\ n # 0
        BY <1>1
      <3> QED BY <2>1, <3>1
    <2> QED BY <2>1, <2>2, <2>3 DEF Sums
  <1>10. f \in [0 .. Len(c) -> SUBSET Nat]
    <2> DEFINE wrong == {n \in 0 .. Len(c) : f[n] \notin SUBSET Nat}
    <2>1. SUFFICES ASSUME wrong # {} PROVE FALSE
      BY <1>7
    <2>2. wrong \in SUBSET Nat
      BY <1>1
    <2>3. PICK n \in wrong : \A m \in wrong : n <= m
      <3> HIDE DEF wrong
      <3> QED BY <2>1, <2>2, LeastOf
    <2>4. n \in 0 .. Len(c) /\ f[n] \notin SUBSET Nat
      BY <2>3
    <2>5. n # 0
      BY <2>4, <1>9 DEF Sums, Records!Byte
    <2>6. n - 1 \in 0 .. Len(c) /\ n - 1 \notin wrong
      <3>1. n - 1 \in 0 .. Len(c)
        BY <2>4, <2>5, <1>1
      <3> HIDE DEF wrong
      <3> QED BY <3>1, <2>3, <2>4
    <2>7. f[n - 1] \in SUBSET Nat
      BY <2>6
    <2>8. f[n] = Records!Xor(f[n - 1], c[n]) /\ c[n] \in SUBSET Nat
      BY <2>4, <2>5, <1>1, <1>9 DEF Sums
    <2> QED BY <2>4, <2>7, <2>8 DEF Records!Xor
  <1> QED BY <1>8, <1>9, <1>10

LEMMA ChecksumChanges ==
  ASSUME NEW c \in Seq(SUBSET Nat), NEW i \in 1 .. Len(c), NEW bit \in Nat, NEW d \in Seq(SUBSET Nat), Len(d) = Len(c),
         d[i] = Records!Xor(c[i], {bit}), \A n \in 1 .. Len(c) : n # i => d[n] = c[n]
  PROVE  Records!Checksum(d) # Records!Checksum(c)
  <1>1. PICK f \in [0 .. Len(c) -> SUBSET Nat] : Sums(f, c) /\ Records!Checksum(c) = f[Len(c)]
    BY ChecksumSums
  <1>2. PICK g \in [0 .. Len(d) -> SUBSET Nat] : Sums(g, d) /\ Records!Checksum(d) = g[Len(d)]
    BY ChecksumSums
  <1> DEFINE wrong == {n \in 0 .. Len(c) : g[n] # IF n < i THEN f[n] ELSE Records!Xor(f[n], {bit})}
  <1>3. Len(c) \in Nat /\ wrong \in SUBSET Nat
    OBVIOUS
  <1>4. wrong = {}
    <2>1. SUFFICES ASSUME wrong # {} PROVE FALSE
      OBVIOUS
    <2>2. PICK n \in wrong : \A m \in wrong : n <= m
      <3> HIDE DEF wrong
      <3> QED BY <2>1, <1>3, LeastOf
    <2>3. n \in 0 .. Len(c) /\ g[n] # IF n < i THEN f[n] ELSE Records!Xor(f[n], {bit})
      BY <2>2
    <2>4. n # 0
      BY <2>3, <1>1, <1>2 DEF Sums
    <2>5. n - 1 \in 0 .. Len(c) /\ n - 1 \notin wrong
      <3>1. n - 1 \in 0 .. Len(c)
        BY <2>3, <2>4, <1>3
      <3> HIDE DEF wrong
      <3> QED BY <3>1, <2>2, <2>3
    <2>6. g[n - 1] = IF n - 1 < i THEN f[n - 1] ELSE Records!Xor(f[n - 1], {bit})
      BY <2>5
    <2>7. f[n] = Records!Xor(f[n - 1], c[n]) /\ g[n] = Records!Xor(g[n - 1], d[n])
      BY <1>1, <1>2, <2>3, <2>4, <1>3 DEF Sums
    <2>8. CASE n < i
      BY <2>3, <2>6, <2>7, <2>8, <2>4, <1>3
    <2>9. CASE n = i
      <3>1. g[n - 1] = f[n - 1] /\ d[n] = Records!Xor(c[n], {bit})
        BY <2>6, <2>9, <1>3, <2>3
      <3>2. g[n] # Records!Xor(f[n], {bit})
        BY <2>3, <2>9
      <3> QED BY <3>1, <3>2, <2>7 DEF Records!Xor
    <2>10. CASE n > i
      <3>1. g[n - 1] = Records!Xor(f[n - 1], {bit}) /\ d[n] = c[n]
        BY <2>6, <2>10, <1>3, <2>3
      <3>2. g[n] # Records!Xor(f[n], {bit})
        BY <2>3, <2>10
      <3> QED BY <3>1, <3>2, <2>7 DEF Records!Xor
    <2> QED BY <2>8, <2>9, <2>10, <2>3
  <1>5. g[Len(c)] = Records!Xor(f[Len(c)], {bit})
    <2>1. Len(c) \in 0 .. Len(c) /\ ~(Len(c) < i)
      BY <1>3
    <2>2. Len(c) \notin wrong
      <3> HIDE DEF wrong
      <3> QED BY <1>4
    <2> QED BY <2>1, <2>2
  <1>6. Records!Xor(f[Len(c)], {bit}) # f[Len(c)]
    BY DEF Records!Xor
  <1> QED BY <1>1, <1>2, <1>5, <1>6

AllFlags ==
  {"night", "dashboard", "shake", "dim", "random", "imu", "route", "ios",
   "sound", "soundFaces", "soundTimer", "soundAlerts", "soundAmbient", "nightMute", "sd",
   "flipped", "nightAuto", "soundCharging"}

\* A profile that settings_valid accepts.
Storable(p) ==
  /\ DOMAIN p = {"on", "number"} /\ p.on \subseteq AllFlags
  /\ DOMAIN p.number = DOMAIN Records!Limits /\ Records!Valid(p)

LEMMA NumbersFit ==
  ASSUME NEW p, Storable(p)
  PROVE  /\ p.number.style \in 0 .. 6 /\ p.number.color \in 0 .. 5 /\ p.number.mood \in 0 .. 145
         /\ p.number.brightness \in 5 .. 90 /\ p.number.nightBrightness \in 1 .. 20 /\ p.number.soundLevel \in 1 .. 30
         /\ p.number.animation \in 0 .. 2 /\ p.number.language \in 0 .. 1 /\ p.number.faceFlow \in 0 .. 3
         /\ p.number.nightStart \in 0 .. 23 /\ p.number.nightEnd \in 0 .. 23
         /\ p.number.nightStart # p.number.nightEnd
  BY DEF Storable, Records!Valid, Records!Limits

\* The two bits of a small number.
LEMMA SmallByte ==
  ASSUME NEW n \in 0 .. 3
  PROVE  Records!Byte(n) \subseteq 0 .. 1
  <1> DEFINE b == Records!Byte(n)
  <1>1. /\ b \subseteq 0 .. 7
        /\ 2 \in b <=> (n \div 4) % 2 = 1
        /\ 3 \in b <=> (n \div 8) % 2 = 1
        /\ 4 \in b <=> (n \div 16) % 2 = 1
        /\ 5 \in b <=> (n \div 32) % 2 = 1
        /\ 6 \in b <=> (n \div 64) % 2 = 1
        /\ 7 \in b <=> (n \div 128) % 2 = 1
    BY DEF Records!Byte
  <1> HIDE DEF b
  <1>2. 2 \notin b /\ 3 \notin b /\ 4 \notin b /\ 5 \notin b /\ 6 \notin b /\ 7 \notin b
    BY <1>1
  <1> QED BY <1>1, <1>2 DEF b

\* Sequences that are put together, by their lengths.
Starts(c, a, m) == \A i \in 1 .. m : c[i] = a[i]
GoesOn(c, b, m, n) == \A i \in 1 .. n : c[m + i] = b[i]

LEMMA Joined ==
  ASSUME NEW S, NEW a \in Seq(S), NEW b \in Seq(S), NEW m \in Nat, NEW n \in Nat, Len(a) = m, Len(b) = n
  PROVE  a \o b \in Seq(S) /\ Len(a \o b) = m + n /\ Starts(a \o b, a, m) /\ GoesOn(a \o b, b, m, n)
  <1>1. a \o b \in Seq(S) /\ Len(a \o b) = Len(a) + Len(b)
    OBVIOUS
  <1>2. \A i \in 1 .. Len(a) + Len(b) : (a \o b)[i] = IF i <= Len(a) THEN a[i] ELSE b[i - Len(a)]
    OBVIOUS
  <1> DEFINE c == a \o b
  <1> HIDE DEF c
  <1>3. \A i \in 1 .. m + n : c[i] = IF i <= m THEN a[i] ELSE b[i - m]
    BY <1>2 DEF c
  <1>4. ASSUME NEW i \in 1 .. m PROVE c[i] = a[i]
    BY <1>3
  <1>5. ASSUME NEW i \in 1 .. n PROVE c[m + i] = b[i]
    <2>1. m + i \in 1 .. m + n /\ ~(m + i <= m) /\ m + i - m = i
      OBVIOUS
    <2> QED BY <2>1, <1>3
  <1> QED BY <1>1, <1>4, <1>5 DEF c, Starts, GoesOn

LEMMA Extended ==
  ASSUME NEW S, NEW a \in Seq(S), NEW x \in S, NEW n \in Nat, Len(a) = n
  PROVE  /\ Append(a, x) \in Seq(S) /\ Len(Append(a, x)) = n + 1 /\ Append(a, x)[n + 1] = x
         /\ Starts(Append(a, x), a, n) /\ SubSeq(Append(a, x), 1, n) = a
  <1>1. /\ Append(a, x) \in Seq(S) /\ Len(Append(a, x)) = Len(a) + 1 /\ Append(a, x)[Len(a) + 1] = x
        /\ \A i \in 1 .. Len(a) : Append(a, x)[i] = a[i]
    OBVIOUS
  <1>2. SubSeq(Append(a, x), 1, Len(a)) = a
    OBVIOUS
  <1> DEFINE c == Append(a, x)
  <1> HIDE DEF c
  <1>3. c \in Seq(S) /\ Len(c) = n + 1 /\ c[n + 1] = x /\ (\A i \in 1 .. n : c[i] = a[i]) /\ SubSeq(c, 1, n) = a
    BY <1>1, <1>2 DEF c
  <1> QED BY <1>3 DEF c, Starts

\* The bytes of settings_encode before the checksum.
LEMMA BodyOf ==
  ASSUME NEW p, Storable(p)
  PROVE  \E b \in Seq(SUBSET Nat) :
           /\ Records!Encode(p) = Append(b, Records!Checksum(b)) /\ Len(b) = 16
           /\ b[1] = Records!Byte(10)
           /\ b[2] = Records!Byte(p.number.style) /\ b[3] = Records!Byte(p.number.color)
           /\ b[4] = Records!Byte(p.number.mood) /\ b[5] = Records!Byte(p.number.brightness)
           /\ b[6] = Records!Byte(p.number.nightBrightness)
           /\ b[7] = Records!Packed(p, Records!Display) /\ b[8] = Records!Packed(p, Records!Audible)
           /\ b[9] = Records!Byte(p.number.soundLevel) /\ b[10] = Records!Byte(p.number.animation)
           /\ b[11] = Records!Byte(p.number.language)
           /\ b[12] = Records!Bit(p, "flipped") \cup {i + 1 : i \in Records!Byte(p.number.faceFlow)}
           /\ b[13] = Records!Bit(p, "nightAuto")
           /\ b[14] = Records!Byte(p.number.nightStart) /\ b[15] = Records!Byte(p.number.nightEnd)
           /\ b[16] = Records!Bit(p, "soundCharging")
  <1> DEFINE first == <<Records!Byte(10)>>
             numbers == [i \in 1 .. 5 |-> Records!Byte(p.number[Records!Fields[i]])]
             rest == <<Records!Packed(p, Records!Display), Records!Packed(p, Records!Audible),
                       Records!Byte(p.number.soundLevel), Records!Byte(p.number.animation),
                       Records!Byte(p.number.language),
                       Records!Bit(p, "flipped") \cup {i + 1 : i \in Records!Byte(p.number.faceFlow)},
                       Records!Bit(p, "nightAuto"), Records!Byte(p.number.nightStart), Records!Byte(p.number.nightEnd),
                       Records!Bit(p, "soundCharging")>>
             b == first \o numbers \o rest
  <1>1. Records!Encode(p) = Append(b, Records!Checksum(b))
    BY DEF Records!Encode
  <1>2. \A n : Records!Byte(n) \in SUBSET Nat
    BY DEF Records!Byte
  <1>3. \A f : Records!Bit(p, f) \in SUBSET Nat
    BY DEF Records!Bit
  <1>4. /\ Records!Packed(p, Records!Display) \in SUBSET Nat /\ Records!Packed(p, Records!Audible) \in SUBSET Nat
    BY DEF Records!Packed, Records!Display, Records!Audible
  <1>5. {i + 1 : i \in Records!Byte(p.number.faceFlow)} \in SUBSET Nat
    BY DEF Records!Byte
  <1>6. first \in Seq(SUBSET Nat) /\ Len(first) = 1 /\ first[1] = Records!Byte(10)
    BY <1>2
  <1>7. /\ numbers \in Seq(SUBSET Nat) /\ Len(numbers) = 5
        /\ \A i \in 1 .. 5 : numbers[i] = Records!Byte(p.number[Records!Fields[i]])
    BY <1>2
  <1>8. /\ rest \in Seq(SUBSET Nat) /\ Len(rest) = 10
        /\ rest[1] = Records!Packed(p, Records!Display) /\ rest[2] = Records!Packed(p, Records!Audible)
        /\ rest[3] = Records!Byte(p.number.soundLevel) /\ rest[4] = Records!Byte(p.number.animation)
        /\ rest[5] = Records!Byte(p.number.language)
        /\ rest[6] = Records!Bit(p, "flipped") \cup {i + 1 : i \in Records!Byte(p.number.faceFlow)}
        /\ rest[7] = Records!Bit(p, "nightAuto")
        /\ rest[8] = Records!Byte(p.number.nightStart) /\ rest[9] = Records!Byte(p.number.nightEnd)
        /\ rest[10] = Records!Bit(p, "soundCharging")
    BY <1>2, <1>3, <1>4, <1>5
  <1> HIDE DEF first, numbers, rest
  <1>9. /\ b \in Seq(SUBSET Nat) /\ Len(b) = 16
        /\ b[1] = first[1] /\ \A i \in 1 .. 5 : b[1 + i] = numbers[i]
        /\ \A i \in 1 .. 10 : b[6 + i] = rest[i]
    <2> DEFINE S == SUBSET Nat
    <2>1. /\ first \in Seq(S) /\ Len(first) = 1 /\ numbers \in Seq(S) /\ Len(numbers) = 5
          /\ rest \in Seq(S) /\ Len(rest) = 10
      BY <1>6, <1>7, <1>8
    <2> DEFINE front == first \o numbers
    <2> HIDE DEF S
    <2>2. /\ front \in Seq(S) /\ Len(front) = 6 /\ front[1] = first[1]
          /\ \A i \in 1 .. 5 : front[1 + i] = numbers[i]
      <3>1. PICK m \in Nat, n \in Nat : m = 1 /\ n = 5
        OBVIOUS
      <3>2. Len(first) = m /\ Len(numbers) = n
        BY <2>1, <3>1
      <3> HIDE DEF front
      <3>3. /\ first \o numbers \in Seq(S) /\ Len(first \o numbers) = m + n
            /\ Starts(first \o numbers, first, m) /\ GoesOn(first \o numbers, numbers, m, n)
        BY <2>1, <3>2, Joined
      <3>4. /\ front \in Seq(S) /\ Len(front) = m + n /\ \A i \in 1 .. m : front[i] = first[i]
            /\ \A i \in 1 .. n : front[m + i] = numbers[i]
        BY <3>3 DEF front, Starts, GoesOn
      <3> QED BY <3>1, <3>4
    <2> HIDE DEF front
    <2> HIDE DEF b
    <2>3. /\ b \in Seq(S) /\ Len(b) = 16
          /\ \A i \in 1 .. 6 : b[i] = front[i]
          /\ \A i \in 1 .. 10 : b[6 + i] = rest[i]
      <3>1. PICK m \in Nat, n \in Nat : m = 6 /\ n = 10
        OBVIOUS
      <3>2. Len(front) = m /\ Len(rest) = n
        BY <2>1, <2>2, <3>1
      <3>3. /\ front \o rest \in Seq(S) /\ Len(front \o rest) = m + n
            /\ Starts(front \o rest, front, m) /\ GoesOn(front \o rest, rest, m, n)
        BY <2>1, <2>2, <3>2, Joined
      <3>4. b = front \o rest
        BY DEF front, b
      <3>5. /\ b \in Seq(S) /\ Len(b) = m + n /\ \A i \in 1 .. m : b[i] = front[i]
            /\ \A i \in 1 .. n : b[m + i] = rest[i]
        BY <3>3, <3>4 DEF Starts, GoesOn
      <3> QED BY <3>1, <3>5
    <2> QED BY <2>2, <2>3 DEF S
  <1> HIDE DEF b
  <1>10. /\ b[2] = numbers[1] /\ b[3] = numbers[2] /\ b[4] = numbers[3] /\ b[5] = numbers[4] /\ b[6] = numbers[5]
         /\ b[7] = rest[1] /\ b[8] = rest[2] /\ b[9] = rest[3] /\ b[10] = rest[4] /\ b[11] = rest[5]
         /\ b[12] = rest[6] /\ b[13] = rest[7] /\ b[14] = rest[8] /\ b[15] = rest[9] /\ b[16] = rest[10]
    BY <1>9
  <1>11. /\ numbers[1] = Records!Byte(p.number.style) /\ numbers[2] = Records!Byte(p.number.color)
         /\ numbers[3] = Records!Byte(p.number.mood) /\ numbers[4] = Records!Byte(p.number.brightness)
         /\ numbers[5] = Records!Byte(p.number.nightBrightness)
    BY <1>7 DEF Records!Fields
  <1>12. b \in Seq(SUBSET Nat) /\ Len(b) = 16
    BY <1>9
  <1>13. b[1] = Records!Byte(10)
    BY <1>6, <1>9
  <1> HIDE DEF b
  <1>14. /\ b[2] = Records!Byte(p.number.style) /\ b[3] = Records!Byte(p.number.color)
         /\ b[4] = Records!Byte(p.number.mood) /\ b[5] = Records!Byte(p.number.brightness)
         /\ b[6] = Records!Byte(p.number.nightBrightness)
    BY <1>10, <1>11
  <1>15. /\ b[7] = Records!Packed(p, Records!Display) /\ b[8] = Records!Packed(p, Records!Audible)
         /\ b[9] = Records!Byte(p.number.soundLevel) /\ b[10] = Records!Byte(p.number.animation)
         /\ b[11] = Records!Byte(p.number.language)
         /\ b[12] = Records!Bit(p, "flipped") \cup {i + 1 : i \in Records!Byte(p.number.faceFlow)}
         /\ b[13] = Records!Bit(p, "nightAuto")
         /\ b[14] = Records!Byte(p.number.nightStart) /\ b[15] = Records!Byte(p.number.nightEnd)
         /\ b[16] = Records!Bit(p, "soundCharging")
    BY <1>8, <1>10
  <1> QED BY <1>1, <1>12, <1>13, <1>14, <1>15

\* A record whose form is right: what it holds of a profile.
Holds(bytes, p, v) ==
  /\ bytes \in Seq(SUBSET Nat) /\ Len(bytes) = Records!Lengths(v)
  /\ bytes[Len(bytes)] = Records!Checksum(SubSeq(bytes, 1, Len(bytes) - 1))
  /\ bytes[1] = Records!Byte(v)
  /\ bytes[2] = Records!Byte(p.number.style) /\ bytes[3] = Records!Byte(p.number.color)
  /\ bytes[4] = Records!Byte(p.number.mood) /\ bytes[5] = Records!Byte(p.number.brightness)
  /\ bytes[6] = Records!Byte(p.number.nightBrightness)
  /\ bytes[7] = Records!Packed(p, Records!Display) \ Records!Unused(v).b6
  /\ v >= 4 => /\ bytes[8] = Records!Packed(p, Records!Audible) \ Records!Unused(v).b7
               /\ bytes[9] = Records!Byte(p.number.soundLevel) /\ bytes[10] = Records!Byte(p.number.animation)
               /\ bytes[11] = Records!Byte(p.number.language)
  /\ v >= 5 => bytes[12] = (Records!Bit(p, "flipped") \cup {i + 1 : i \in Records!Byte(p.number.faceFlow)})
                              \ Records!Unused(v).b11
  /\ v >= 9 => /\ bytes[13] = Records!Bit(p, "nightAuto")
               /\ bytes[14] = Records!Byte(p.number.nightStart) /\ bytes[15] = Records!Byte(p.number.nightEnd)
  /\ v >= 10 => bytes[16] = Records!Bit(p, "soundCharging")

LEMMA EncodedHolds ==
  ASSUME NEW p, Storable(p)
  PROVE  Holds(Records!Encode(p), p, 10)
  <1>1. PICK b \in Seq(SUBSET Nat) :
           /\ Records!Encode(p) = Append(b, Records!Checksum(b)) /\ Len(b) = 16
           /\ b[1] = Records!Byte(10)
           /\ b[2] = Records!Byte(p.number.style) /\ b[3] = Records!Byte(p.number.color)
           /\ b[4] = Records!Byte(p.number.mood) /\ b[5] = Records!Byte(p.number.brightness)
           /\ b[6] = Records!Byte(p.number.nightBrightness)
           /\ b[7] = Records!Packed(p, Records!Display) /\ b[8] = Records!Packed(p, Records!Audible)
           /\ b[9] = Records!Byte(p.number.soundLevel) /\ b[10] = Records!Byte(p.number.animation)
           /\ b[11] = Records!Byte(p.number.language)
           /\ b[12] = Records!Bit(p, "flipped") \cup {i + 1 : i \in Records!Byte(p.number.faceFlow)}
           /\ b[13] = Records!Bit(p, "nightAuto")
           /\ b[14] = Records!Byte(p.number.nightStart) /\ b[15] = Records!Byte(p.number.nightEnd)
           /\ b[16] = Records!Bit(p, "soundCharging")
    BY BodyOf
  <1> DEFINE sum == Records!Checksum(b)
             bytes == Append(b, sum)
  <1>2. sum \in SUBSET Nat
    <2>1. PICK f \in [0 .. Len(b) -> SUBSET Nat] : Records!Checksum(b) = f[Len(b)]
      BY ChecksumSums
    <2> QED BY <2>1, <1>1
  <1> HIDE DEF sum
  <1>3. /\ bytes \in Seq(SUBSET Nat) /\ Len(bytes) = 17 /\ bytes[17] = sum
        /\ \A i \in 1 .. 16 : bytes[i] = b[i]
        /\ SubSeq(bytes, 1, 16) = b
    <2> DEFINE S == SUBSET Nat
    <2>1. b \in Seq(S) /\ Len(b) = 16 /\ sum \in S
      BY <1>1, <1>2
    <2> HIDE DEF S
    <2>2. PICK n \in Nat : n = 16
      OBVIOUS
    <2>3. Len(b) = n
      BY <2>1, <2>2
    <2>4. /\ Append(b, sum) \in Seq(S) /\ Len(Append(b, sum)) = n + 1 /\ Append(b, sum)[n + 1] = sum
          /\ Starts(Append(b, sum), b, n) /\ SubSeq(Append(b, sum), 1, n) = b
      BY <2>1, <2>3, Extended
    <2> HIDE DEF bytes
    <2>5. /\ bytes \in Seq(S) /\ Len(bytes) = n + 1 /\ bytes[n + 1] = sum
          /\ (\A i \in 1 .. n : bytes[i] = b[i]) /\ SubSeq(bytes, 1, n) = b
      BY <2>4 DEF bytes, Starts
    <2> QED BY <2>2, <2>5 DEF S
  <1>4. Records!Encode(p) = bytes /\ bytes[17] = Records!Checksum(SubSeq(bytes, 1, 16))
    BY <1>1, <1>3 DEF sum
  <1> HIDE DEF bytes
  <1>5. Records!Lengths(10) = 17
    BY DEF Records!Lengths
  <1>6. /\ Records!Packed(p, Records!Display) \ Records!Unused(10).b6 = Records!Packed(p, Records!Display)
        /\ Records!Packed(p, Records!Audible) \ Records!Unused(10).b7 = Records!Packed(p, Records!Audible)
    BY DEF Records!Unused, Records!Packed, Records!Audible
  <1>7. b[12] \ Records!Unused(10).b11 = b[12]
    <2>1. p.number.faceFlow \in 0 .. 3
      BY NumbersFit
    <2>2. \A i \in Records!Byte(p.number.faceFlow) : i \in 0 .. 1
      BY <2>1, SmallByte
    <2>3. \A i \in b[12] : i \in 0 .. 2
      BY <1>1, <2>2 DEF Records!Bit
    <2> QED BY <2>3 DEF Records!Unused
  <1>8. \A i \in 1 .. 16 : bytes[i] = b[i]
    BY <1>3
  <1>9. /\ bytes[1] = b[1] /\ bytes[2] = b[2] /\ bytes[3] = b[3] /\ bytes[4] = b[4] /\ bytes[5] = b[5]
        /\ bytes[6] = b[6] /\ bytes[7] = b[7] /\ bytes[8] = b[8] /\ bytes[9] = b[9] /\ bytes[10] = b[10]
        /\ bytes[11] = b[11] /\ bytes[12] = b[12] /\ bytes[13] = b[13] /\ bytes[14] = b[14] /\ bytes[15] = b[15]
        /\ bytes[16] = b[16]
    BY <1>8
  <1>10. bytes \in Seq(SUBSET Nat) /\ Len(bytes) = 17
    BY <1>3
  <1> QED BY <1>1, <1>4, <1>5, <1>6, <1>7, <1>9, <1>10 DEF Holds

LEMMA ChecksumIsByte ==
  ASSUME NEW c \in Seq(SUBSET Nat)
  PROVE  Records!Checksum(c) \in SUBSET Nat
  <1>1. PICK f \in [0 .. Len(c) -> SUBSET Nat] : Records!Checksum(c) = f[Len(c)]
    BY ChecksumSums
  <1> QED BY <1>1

Follow(c, a) == \A i \in 1 .. Len(c) : c[i] = a[i + 1]

LEMMA Sliced ==
  ASSUME NEW S, NEW a \in Seq(S), NEW n \in Nat \ {0}, n <= Len(a)
  PROVE  SubSeq(a, 2, n) \in Seq(S) /\ Len(SubSeq(a, 2, n)) = n - 1 /\ Follow(SubSeq(a, 2, n), a)
  BY DEF Follow

\* What an older version wrote, before its checksum.
Head2(p, v) == <<Records!Byte(v)>> \o SubSeq(Records!Encode(p), 2, Records!Lengths(v) - 1)

SameAs(c, a, n) == \A i \in 2 .. n : c[i] = a[i]

LEMMA HeadOf ==
  ASSUME NEW p, Storable(p), NEW v \in 1 .. 9, NEW n \in Nat, n = Records!Lengths(v) - 1
  PROVE  /\ Head2(p, v) \in Seq(SUBSET Nat) /\ Len(Head2(p, v)) = n
         /\ Head2(p, v)[1] = Records!Byte(v)
         /\ SameAs(Head2(p, v), Records!Encode(p), n)
  <1> DEFINE S == SUBSET Nat
             e == Records!Encode(p)
             tail == SubSeq(e, 2, n)
             one == <<Records!Byte(v)>>
             head == one \o tail
  <1>1. /\ n \in {7, 11, 12, 15} /\ (v >= 4 => n >= 11) /\ (v >= 5 => n >= 12) /\ (v >= 9 => n >= 15)
        /\ v < 4 => n = 7
        /\ v < 5 => n <= 11
    BY DEF Records!Lengths
  <1>2. e \in Seq(S) /\ Len(e) = 17
    BY EncodedHolds DEF Holds, Records!Lengths
  <1>3. Records!Byte(v) \in S
    BY DEF Records!Byte
  <1> HIDE DEF S, e
  <1>4. one \in Seq(S) /\ Len(one) = 1 /\ one[1] = Records!Byte(v)
    BY <1>3
  <1>5. tail \in Seq(S) /\ Len(tail) = n - 1 /\ \A i \in 1 .. n - 1 : tail[i] = e[i + 1]
    <2>1. n \in Nat \ {0} /\ n <= Len(e)
      BY <1>1, <1>2
    <2>2. tail \in Seq(S) /\ Len(tail) = n - 1 /\ Follow(tail, e)
      BY <1>2, <2>1, Sliced
    <2> HIDE DEF tail
    <2> QED BY <2>2 DEF Follow
  <1> HIDE DEF one, tail
  <1>6. PICK m \in Nat, k \in Nat : m = 1 /\ k = n - 1
    BY <1>1
  <1>7. Len(one) = m /\ Len(tail) = k
    BY <1>4, <1>5, <1>6
  <1>8. head \in Seq(S) /\ Len(head) = m + k /\ Starts(head, one, m) /\ GoesOn(head, tail, m, k)
    BY <1>4, <1>5, <1>7, Joined
  <1> HIDE DEF head
  <1>9. head[1] = Records!Byte(v)
    BY <1>4, <1>6, <1>8 DEF Starts
  <1>10. ASSUME NEW i \in 2 .. n PROVE head[i] = e[i]
    <2>1. i - 1 \in 1 .. k /\ m + (i - 1) = i
      BY <1>6, <1>1
    <2>2. head[m + (i - 1)] = tail[i - 1]
      BY <2>1, <1>8 DEF GoesOn
    <2>3. tail[i - 1] = e[i - 1 + 1]
      BY <2>1, <1>5, <1>6
    <2> QED BY <2>1, <2>2, <2>3
  <1>11. Len(head) = n
    BY <1>6, <1>8
  <1>12. Head2(p, v) = head
    BY DEF Head2, head, one, tail, e
  <1> QED BY <1>1, <1>8, <1>9, <1>10, <1>11, <1>12 DEF S, e, SameAs

LEMMA OlderHolds ==
  ASSUME NEW p, Storable(p), NEW v \in 1 .. 9
  PROVE  Holds(Records!Older(p, v), p, v)
  <1>1. PICK n \in Nat : n = Records!Lengths(v) - 1
    BY DEF Records!Lengths
  <1>0. /\ Head2(p, v) \in Seq(SUBSET Nat) /\ Len(Head2(p, v)) = n /\ Head2(p, v)[1] = Records!Byte(v)
        /\ SameAs(Head2(p, v), Records!Encode(p), n)
    BY <1>1, HeadOf
  <1> DEFINE S == SUBSET Nat
             e == Records!Encode(p)
             head == Head2(p, v)
             u == Records!Unused(v)
             cleared == [i \in DOMAIN head |->
                          CASE i = 7 -> head[i] \ u.b6
                            [] i = 8 /\ v >= 4 -> head[i] \ u.b7
                            [] i = 12 /\ v >= 5 -> head[i] \ u.b11
                            [] OTHER -> head[i]]
             sum == Records!Checksum(cleared)
             bytes == Append(cleared, sum)
  <1>2. /\ n \in {7, 11, 12, 15} /\ (v >= 4 => n >= 11) /\ (v >= 5 => n >= 12) /\ (v >= 9 => n >= 15)
        /\ v < 4 => n = 7
        /\ v < 5 => n <= 11
        /\ head \in Seq(S) /\ Len(head) = n /\ head[1] = Records!Byte(v)
        /\ SameAs(head, e, n)
    <2>1. /\ n \in {7, 11, 12, 15} /\ (v >= 4 => n >= 11) /\ (v >= 5 => n >= 12) /\ (v >= 9 => n >= 15)
          /\ v < 4 => n = 7
          /\ v < 5 => n <= 11
      BY <1>1 DEF Records!Lengths
    <2> QED BY <1>0, <2>1
  <1>3. Holds(e, p, 10)
    BY EncodedHolds
  <1>4. Records!Older(p, v) = bytes
    BY DEF Records!Older, Head2
  <1> HIDE DEF head, u, e
  <1>5. DOMAIN head = 1 .. n
    BY <1>2
  <1>6. /\ DOMAIN cleared = 1 .. n /\ cleared[7] = head[7] \ u.b6
        /\ v >= 4 => cleared[8] = head[8] \ u.b7
        /\ v >= 5 => cleared[12] = head[12] \ u.b11
        /\ \A i \in 1 .. n : i \notin {7, 8, 12} => cleared[i] = head[i]
        /\ \A i \in 1 .. n : cleared[i] \in {head[i], head[i] \ u.b6, head[i] \ u.b7, head[i] \ u.b11}
    BY <1>2, <1>5
  <1>7. cleared \in Seq(S) /\ Len(cleared) = n
    <2>1. \A i \in 1 .. n : head[i] \in S
      BY <1>2
    <2>2. \A i \in 1 .. n : cleared[i] \in S
      <3> HIDE DEF cleared
      <3> QED BY <2>1, <1>6
    <2>3. cleared = [i \in 1 .. n |-> cleared[i]]
      BY <1>5
    <2> HIDE DEF cleared, S
    <2> QED BY <2>2, <2>3
  <1> HIDE DEF cleared
  <1>8. sum \in S
    BY <1>7, ChecksumIsByte
  <1> HIDE DEF sum, S
  <1>9. /\ bytes \in Seq(S) /\ Len(bytes) = n + 1 /\ bytes[n + 1] = sum
        /\ Starts(bytes, cleared, n) /\ SubSeq(bytes, 1, n) = cleared
    BY <1>7, <1>8, Extended
  <1> HIDE DEF bytes
  <1>10. \A i \in 1 .. n : bytes[i] = cleared[i]
    BY <1>9 DEF Starts
  <1>11. bytes[Len(bytes)] = Records!Checksum(SubSeq(bytes, 1, Len(bytes) - 1))
    <2>1. Len(bytes) = n + 1 /\ Len(bytes) - 1 = n
      BY <1>9
    <2>2. bytes[n + 1] = sum /\ SubSeq(bytes, 1, n) = cleared
      BY <1>9
    <2> QED BY <2>1, <2>2 DEF sum
  <1>12. Len(bytes) = Records!Lengths(v)
    <2>1. Records!Lengths(v) \in Nat
      BY DEF Records!Lengths
    <2> QED BY <1>1, <1>9, <2>1
  <1>13. /\ bytes[1] = Records!Byte(v) /\ bytes[2] = e[2] /\ bytes[3] = e[3] /\ bytes[4] = e[4] /\ bytes[5] = e[5]
         /\ bytes[6] = e[6] /\ bytes[7] = e[7] \ u.b6
    BY <1>2, <1>6, <1>10 DEF SameAs
  <1>14. v >= 4 => bytes[8] = e[8] \ u.b7 /\ bytes[9] = e[9] /\ bytes[10] = e[10] /\ bytes[11] = e[11]
    BY <1>2, <1>6, <1>10 DEF SameAs
  <1>15. v >= 5 => bytes[12] = e[12] \ u.b11
    BY <1>2, <1>6, <1>10 DEF SameAs
  <1>16. v >= 9 => bytes[13] = e[13] /\ bytes[14] = e[14] /\ bytes[15] = e[15]
    BY <1>2, <1>6, <1>10 DEF SameAs
  <1>17. e[7] \ u.b6 = Records!Packed(p, Records!Display) \ u.b6
    <2>1. e[7] = Records!Packed(p, Records!Display) \ Records!Unused(10).b6
      BY <1>3 DEF Holds
    <2>2. Records!Unused(10).b6 = {}
      BY DEF Records!Unused
    <2> QED BY <2>1, <2>2
  <1>18. e[8] \ u.b7 = Records!Packed(p, Records!Audible) \ u.b7
    <2>1. e[8] = Records!Packed(p, Records!Audible) \ Records!Unused(10).b7
      BY <1>3 DEF Holds
    <2>2. Records!Unused(10).b7 \subseteq u.b7
      BY DEF Records!Unused, u
    <2> QED BY <2>1, <2>2
  <1>19. e[12] \ u.b11 = (Records!Bit(p, "flipped") \cup {i + 1 : i \in Records!Byte(p.number.faceFlow)}) \ u.b11
    <2>1. e[12] = (Records!Bit(p, "flipped") \cup {i + 1 : i \in Records!Byte(p.number.faceFlow)}) \ Records!Unused(10).b11
      BY <1>3 DEF Holds
    <2>2. Records!Unused(10).b11 \subseteq u.b11
      BY DEF Records!Unused, u
    <2> QED BY <2>1, <2>2
  <1>20. /\ e[2] = Records!Byte(p.number.style) /\ e[3] = Records!Byte(p.number.color)
         /\ e[4] = Records!Byte(p.number.mood) /\ e[5] = Records!Byte(p.number.brightness)
         /\ e[6] = Records!Byte(p.number.nightBrightness)
         /\ e[9] = Records!Byte(p.number.soundLevel) /\ e[10] = Records!Byte(p.number.animation)
         /\ e[11] = Records!Byte(p.number.language)
         /\ e[13] = Records!Bit(p, "nightAuto")
         /\ e[14] = Records!Byte(p.number.nightStart) /\ e[15] = Records!Byte(p.number.nightEnd)
    BY <1>3 DEF Holds
  <1>21. bytes \in Seq(SUBSET Nat)
    BY <1>9 DEF S
  <1> QED BY <1>4, <1>11, <1>12, <1>13, <1>14, <1>15, <1>16, <1>17, <1>18, <1>19, <1>20, <1>21 DEF Holds, u

Kept(p, flags, U) == {j \in DOMAIN flags : flags[j] \in p.on /\ j - 1 \notin U}

KeptFlags(p, flags, U) == {flags[k] : k \in Kept(p, flags, U)}

LEMMA UnpackedAgain ==
  ASSUME NEW flags \in Seq(AllFlags), NEW p, NEW U
  PROVE  Records!Unpacked(Records!Packed(p, flags) \ U, flags) = KeptFlags(p, flags, U)
  <1> DEFINE packed == Records!Packed(p, flags)
             kept == Kept(p, flags, U)
  <1>1. Len(flags) \in Nat /\ DOMAIN flags = 1 .. Len(flags)
    OBVIOUS
  <1>2. \A i : i \in packed <=> \E j \in 1 .. Len(flags) : flags[j] \in p.on /\ i = j - 1
    BY <1>1 DEF Records!Packed
  <1> HIDE DEF packed
  <1>3. ASSUME NEW i \in (packed \ U) \cap (0 .. Len(flags) - 1) PROVE i + 1 \in kept
    <2>1. PICK j \in 1 .. Len(flags) : flags[j] \in p.on /\ i = j - 1
      BY <1>2
    <2> QED BY <2>1, <1>1 DEF Kept
  <1>4. ASSUME NEW k \in kept PROVE k - 1 \in (packed \ U) \cap (0 .. Len(flags) - 1) /\ flags[(k - 1) + 1] = flags[k]
    <2>1. k \in 1 .. Len(flags) /\ flags[k] \in p.on /\ k - 1 \notin U
      BY <1>1 DEF Kept
    <2>2. k - 1 \in packed
      BY <1>2, <2>1
    <2> QED BY <2>1, <2>2, <1>1
  <1> HIDE DEF kept
  <1>5. {flags[i + 1] : i \in (packed \ U) \cap (0 .. Len(flags) - 1)} = {flags[k] : k \in kept}
    BY <1>3, <1>4
  <1> QED BY <1>5 DEF Records!Unpacked, packed, kept, KeptFlags

LEMMA DisplayAgain ==
  ASSUME NEW p, NEW U
  PROVE  LET on == Records!Unpacked(Records!Packed(p, Records!Display) \ U, Records!Display)
         IN /\ on \subseteq {"night", "dashboard", "shake", "dim", "random", "imu", "route", "ios"}
            /\ "night" \in on <=> "night" \in p.on /\ 0 \notin U
            /\ "dashboard" \in on <=> "dashboard" \in p.on /\ 1 \notin U
            /\ "shake" \in on <=> "shake" \in p.on /\ 2 \notin U
            /\ "dim" \in on <=> "dim" \in p.on /\ 3 \notin U
            /\ "random" \in on <=> "random" \in p.on /\ 4 \notin U
            /\ "imu" \in on <=> "imu" \in p.on /\ 5 \notin U
            /\ "route" \in on <=> "route" \in p.on /\ 6 \notin U
            /\ "ios" \in on <=> "ios" \in p.on /\ 7 \notin U
  <1> DEFINE flags == Records!Display
             on == Records!Unpacked(Records!Packed(p, flags) \ U, flags)
             kept == Kept(p, flags, U)
  <1>1. /\ flags \in Seq(AllFlags) /\ Len(flags) = 8
        /\ flags[1] = "night" /\ flags[2] = "dashboard" /\ flags[3] = "shake" /\ flags[4] = "dim"
        /\ flags[5] = "random" /\ flags[6] = "imu" /\ flags[7] = "route" /\ flags[8] = "ios"
    BY DEF Records!Display, AllFlags
  <1> HIDE DEF flags
  <1>2. on = {flags[k] : k \in kept}
    <2>1. on = KeptFlags(p, flags, U)
      BY <1>1, UnpackedAgain
    <2> HIDE DEF on
    <2> QED BY <2>1 DEF KeptFlags
  <1> HIDE DEF on
  <1>3. \A k : k \in kept <=> k \in 1 .. 8 /\ flags[k] \in p.on /\ k - 1 \notin U
    <2>1. DOMAIN flags = 1 .. 8
      BY <1>1
    <2> QED BY <2>1 DEF Kept
  <1> HIDE DEF kept
  <1>4. \A x : x \in on <=> \E k \in 1 .. 8 : x = flags[k] /\ flags[k] \in p.on /\ k - 1 \notin U
    BY <1>2, <1>3
  <1>5. on \subseteq {"night", "dashboard", "shake", "dim", "random", "imu", "route", "ios"}
    BY <1>1, <1>4
  <1>6. ASSUME NEW k \in 1 .. 8 PROVE flags[k] \in on <=> flags[k] \in p.on /\ k - 1 \notin U
    <2>1. \A j \in 1 .. 8 : flags[j] = flags[k] => j = k
      BY <1>1
    <2> QED BY <2>1, <1>4
  <1>7. /\ flags[1] \in on <=> flags[1] \in p.on /\ 0 \notin U
        /\ flags[2] \in on <=> flags[2] \in p.on /\ 1 \notin U
        /\ flags[3] \in on <=> flags[3] \in p.on /\ 2 \notin U
        /\ flags[4] \in on <=> flags[4] \in p.on /\ 3 \notin U
        /\ flags[5] \in on <=> flags[5] \in p.on /\ 4 \notin U
        /\ flags[6] \in on <=> flags[6] \in p.on /\ 5 \notin U
        /\ flags[7] \in on <=> flags[7] \in p.on /\ 6 \notin U
        /\ flags[8] \in on <=> flags[8] \in p.on /\ 7 \notin U
    BY <1>6
  <1>8. /\ "night" \in on <=> "night" \in p.on /\ 0 \notin U
        /\ "dashboard" \in on <=> "dashboard" \in p.on /\ 1 \notin U
        /\ "shake" \in on <=> "shake" \in p.on /\ 2 \notin U
        /\ "dim" \in on <=> "dim" \in p.on /\ 3 \notin U
        /\ "random" \in on <=> "random" \in p.on /\ 4 \notin U
        /\ "imu" \in on <=> "imu" \in p.on /\ 5 \notin U
        /\ "route" \in on <=> "route" \in p.on /\ 6 \notin U
        /\ "ios" \in on <=> "ios" \in p.on /\ 7 \notin U
    BY <1>1, <1>7
  <1> QED BY <1>5, <1>8 DEF on, flags

LEMMA AudibleAgain ==
  ASSUME NEW p, NEW U
  PROVE  LET on == Records!Unpacked(Records!Packed(p, Records!Audible) \ U, Records!Audible)
         IN /\ on \subseteq {"sound", "soundFaces", "soundTimer", "soundAlerts", "soundAmbient", "nightMute", "sd"}
            /\ "sound" \in on <=> "sound" \in p.on /\ 0 \notin U
            /\ "soundFaces" \in on <=> "soundFaces" \in p.on /\ 1 \notin U
            /\ "soundTimer" \in on <=> "soundTimer" \in p.on /\ 2 \notin U
            /\ "soundAlerts" \in on <=> "soundAlerts" \in p.on /\ 3 \notin U
            /\ "soundAmbient" \in on <=> "soundAmbient" \in p.on /\ 4 \notin U
            /\ "nightMute" \in on <=> "nightMute" \in p.on /\ 5 \notin U
            /\ "sd" \in on <=> "sd" \in p.on /\ 6 \notin U
  <1> DEFINE flags == Records!Audible
             on == Records!Unpacked(Records!Packed(p, flags) \ U, flags)
             kept == Kept(p, flags, U)
  <1>1. /\ flags \in Seq(AllFlags) /\ Len(flags) = 7
        /\ flags[1] = "sound" /\ flags[2] = "soundFaces" /\ flags[3] = "soundTimer" /\ flags[4] = "soundAlerts"
        /\ flags[5] = "soundAmbient" /\ flags[6] = "nightMute" /\ flags[7] = "sd"
    BY DEF Records!Audible, AllFlags
  <1> HIDE DEF flags
  <1>2. on = {flags[k] : k \in kept}
    <2>1. on = KeptFlags(p, flags, U)
      BY <1>1, UnpackedAgain
    <2> HIDE DEF on
    <2> QED BY <2>1 DEF KeptFlags
  <1> HIDE DEF on
  <1>3. \A k : k \in kept <=> k \in 1 .. 7 /\ flags[k] \in p.on /\ k - 1 \notin U
    <2>1. DOMAIN flags = 1 .. 7
      BY <1>1
    <2> QED BY <2>1 DEF Kept
  <1> HIDE DEF kept
  <1>4. \A x : x \in on <=> \E k \in 1 .. 7 : x = flags[k] /\ flags[k] \in p.on /\ k - 1 \notin U
    BY <1>2, <1>3
  <1>5. on \subseteq {"sound", "soundFaces", "soundTimer", "soundAlerts", "soundAmbient", "nightMute", "sd"}
    BY <1>1, <1>4
  <1>6. ASSUME NEW k \in 1 .. 7 PROVE flags[k] \in on <=> flags[k] \in p.on /\ k - 1 \notin U
    <2>1. \A j \in 1 .. 7 : flags[j] = flags[k] => j = k
      BY <1>1
    <2> QED BY <2>1, <1>4
  <1>7. /\ flags[1] \in on <=> flags[1] \in p.on /\ 0 \notin U
        /\ flags[2] \in on <=> flags[2] \in p.on /\ 1 \notin U
        /\ flags[3] \in on <=> flags[3] \in p.on /\ 2 \notin U
        /\ flags[4] \in on <=> flags[4] \in p.on /\ 3 \notin U
        /\ flags[5] \in on <=> flags[5] \in p.on /\ 4 \notin U
        /\ flags[6] \in on <=> flags[6] \in p.on /\ 5 \notin U
        /\ flags[7] \in on <=> flags[7] \in p.on /\ 6 \notin U
    BY <1>6
  <1>8. /\ "sound" \in on <=> "sound" \in p.on /\ 0 \notin U
        /\ "soundFaces" \in on <=> "soundFaces" \in p.on /\ 1 \notin U
        /\ "soundTimer" \in on <=> "soundTimer" \in p.on /\ 2 \notin U
        /\ "soundAlerts" \in on <=> "soundAlerts" \in p.on /\ 3 \notin U
        /\ "soundAmbient" \in on <=> "soundAmbient" \in p.on /\ 4 \notin U
        /\ "nightMute" \in on <=> "nightMute" \in p.on /\ 5 \notin U
        /\ "sd" \in on <=> "sd" \in p.on /\ 6 \notin U
    BY <1>1, <1>7
  <1> QED BY <1>5, <1>8 DEF on, flags

\* The two bits beside the image's flag.
LEMMA FlowAgain ==
  ASSUME NEW n \in 0 .. 3, NEW p
  PROVE  Records!Number((Records!Bit(p, "flipped") \cup {i + 1 : i \in Records!Byte(n)}) \ 3 .. 7) \div 2 = n
  <1> DEFINE x == (Records!Bit(p, "flipped") \cup {i + 1 : i \in Records!Byte(n)}) \ 3 .. 7
             y == Records!Byte(n)
             Bit(i) == IF i \in x THEN 2 ^ i ELSE 0
             Two(i) == IF i \in y THEN 2 ^ i ELSE 0
  <1>1. y \subseteq 0 .. 1
    BY SmallByte
  <1>2. Records!Number(x) = Bit(0) + Bit(1) + Bit(2) + Bit(3) + Bit(4) + Bit(5) + Bit(6) + Bit(7)
    BY NumberOf
  <1>3. Records!Number(y) = Two(0) + Two(1) + Two(2) + Two(3) + Two(4) + Two(5) + Two(6) + Two(7)
    BY NumberOf
  <1>4. Records!Number(y) = n
    BY ByteOfNumber
  <1> HIDE DEF y
  <1>5. (1 \in x <=> 0 \in y) /\ (2 \in x <=> 1 \in y) /\ x \subseteq 0 .. 2
    BY <1>1 DEF Records!Bit, y
  <1> HIDE DEF x
  <1>6. /\ Bit(0) \in 0 .. 1 /\ Bit(1) = 2 * Two(0) /\ Bit(2) = 2 * Two(1)
        /\ Bit(3) = 0 /\ Bit(4) = 0 /\ Bit(5) = 0 /\ Bit(6) = 0 /\ Bit(7) = 0
        /\ Two(2) = 0 /\ Two(3) = 0 /\ Two(4) = 0 /\ Two(5) = 0 /\ Two(6) = 0 /\ Two(7) = 0
        /\ Two(0) \in Nat /\ Two(1) \in Nat
    BY <1>1, <1>5
  <1> HIDE DEF Bit, Two
  <1>7. Two(0) + Two(1) = n
    BY <1>3, <1>4, <1>6
  <1>8. Records!Number(x) = Bit(0) + 2 * n
    BY <1>2, <1>6, <1>7
  <1>9. Records!Number(x) \div 2 = n
    BY <1>6, <1>8
  <1> QED BY <1>9 DEF x, y

LEMMA FlagsOf ==
  /\ Records!Default.on = {"dashboard", "route", "soundFaces", "soundTimer", "soundAlerts", "soundAmbient", "nightMute",
                           "soundCharging"}
  /\ {Records!Audible[i] : i \in DOMAIN Records!Audible}
       = {"sound", "soundFaces", "soundTimer", "soundAlerts", "soundAmbient", "nightMute", "sd"}
  /\ {Records!Audible[i] : i \in 1 .. 6}
       = {"sound", "soundFaces", "soundTimer", "soundAlerts", "soundAmbient", "nightMute"}
  /\ {Records!Display[i] : i \in DOMAIN Records!Display}
       = {"night", "dashboard", "shake", "dim", "random", "imu", "route", "ios"}
  <1>1. Records!Default.on = {"dashboard", "route", "soundFaces", "soundTimer", "soundAlerts", "soundAmbient", "nightMute",
                           "soundCharging"}
    BY DEF Records!Default
  <1> DEFINE a == Records!Audible
             d == Records!Display
  <1>2. Len(a) = 7 /\ a[1] = "sound" /\ a[2] = "soundFaces" /\ a[3] = "soundTimer" /\ a[4] = "soundAlerts"
        /\ a[5] = "soundAmbient" /\ a[6] = "nightMute" /\ a[7] = "sd" /\ DOMAIN a = 1 .. 7
    BY DEF Records!Audible
  <1>3. /\ d[1] = "night" /\ d[2] = "dashboard" /\ d[3] = "shake" /\ d[4] = "dim"
        /\ d[5] = "random" /\ d[6] = "imu" /\ d[7] = "route" /\ d[8] = "ios" /\ DOMAIN d = 1 .. 8
    BY DEF Records!Display
  <1> HIDE DEF a, d
  <1>4. {a[i] : i \in 1 .. 7} = {"sound", "soundFaces", "soundTimer", "soundAlerts", "soundAmbient", "nightMute", "sd"}
    BY <1>2
  <1>5. {a[i] : i \in 1 .. 6} = {"sound", "soundFaces", "soundTimer", "soundAlerts", "soundAmbient", "nightMute"}
    BY <1>2
  <1>6. {d[i] : i \in 1 .. 8} = {"night", "dashboard", "shake", "dim", "random", "imu", "route", "ios"}
    BY <1>3
  <1> QED BY <1>1, <1>2, <1>3, <1>4, <1>5, <1>6 DEF a, d

LEMMA FlagsBegin ==
  /\ DOMAIN Records!FlagsSince = AllFlags
  /\ \A f \in {"night", "dashboard", "shake", "dim"} : Records!FlagsSince[f] = 1
  /\ Records!FlagsSince["random"] = 2 /\ Records!FlagsSince["imu"] = 2 /\ Records!FlagsSince["route"] = 3
  /\ Records!FlagsSince["ios"] = 7 /\ Records!FlagsSince["sd"] = 8 /\ Records!FlagsSince["flipped"] = 5
  /\ Records!FlagsSince["nightAuto"] = 9 /\ Records!FlagsSince["soundCharging"] = 10
  /\ \A f \in {"sound", "soundFaces", "soundTimer", "soundAlerts", "soundAmbient", "nightMute"} : Records!FlagsSince[f] = 4
  <1> DEFINE Since(f) == CASE f \in {"random", "imu"} -> 2 [] f = "route" -> 3 [] f = "ios" -> 7 [] f = "sd" -> 8
                           [] f = "flipped" -> 5 [] f = "nightAuto" -> 9 [] f = "soundCharging" -> 10
                           [] f \in {"sound", "soundFaces", "soundTimer", "soundAlerts", "soundAmbient", "nightMute"} -> 4
                           [] OTHER -> 1
  <1>1. Records!FlagsSince = [f \in AllFlags |-> Since(f)]
    <2>1. AllFlags = {Records!Display[i] : i \in DOMAIN Records!Display}
                       \cup {Records!Audible[i] : i \in DOMAIN Records!Audible} \cup {"flipped", "nightAuto", "soundCharging"}
      BY FlagsOf DEF AllFlags
    <2> QED BY <2>1, FlagsOf DEF Records!FlagsSince
  <1>2. \A f \in AllFlags : Records!FlagsSince[f] = Since(f)
    BY <1>1
  <1>3. DOMAIN Records!FlagsSince = AllFlags
    BY <1>1
  <1>4. /\ \A f \in {"night", "dashboard", "shake", "dim"} : Since(f) = 1
        /\ Since("random") = 2 /\ Since("imu") = 2 /\ Since("route") = 3 /\ Since("ios") = 7 /\ Since("sd") = 8
        /\ Since("flipped") = 5 /\ Since("nightAuto") = 9 /\ Since("soundCharging") = 10
        /\ \A f \in {"sound", "soundFaces", "soundTimer", "soundAlerts", "soundAmbient", "nightMute"} : Since(f) = 4
    OBVIOUS
  <1> HIDE DEF Since
  <1> QED BY <1>2, <1>3, <1>4 DEF AllFlags

LEMMA NumbersBegin ==
  /\ \A f \in {"style", "color", "mood", "brightness", "nightBrightness"} : Records!NumberSince[f] = 1
  /\ \A f \in {"soundLevel", "animation", "language"} : Records!NumberSince[f] = 4
  /\ Records!NumberSince["faceFlow"] = 6
  /\ \A f \in {"nightStart", "nightEnd"} : Records!NumberSince[f] = 9
  /\ DOMAIN Records!Limits = {"style", "color", "mood", "brightness", "nightBrightness", "soundLevel", "animation",
                              "language", "faceFlow", "nightStart", "nightEnd"}
  <1>1. DOMAIN Records!Limits = {"style", "color", "mood", "brightness", "nightBrightness", "soundLevel", "animation",
                                 "language", "faceFlow", "nightStart", "nightEnd"}
    BY DEF Records!Limits
  <1> QED BY <1>1 DEF Records!NumberSince

\* What settings_decode makes of a record that holds a profile.
LEMMA NumbersRead ==
  ASSUME NEW p, Storable(p), NEW v \in 1 .. 10, NEW bytes, Holds(bytes, p, v)
  PROVE  LET q == Records!Read(bytes, v).number
             d == Records!Default.number
         IN /\ q.style = p.number.style /\ q.color = p.number.color /\ q.mood = p.number.mood
            /\ q.brightness = p.number.brightness /\ q.nightBrightness = p.number.nightBrightness
            /\ q.soundLevel = IF v >= 4 THEN p.number.soundLevel ELSE d.soundLevel
            /\ q.animation = IF v >= 4 THEN p.number.animation ELSE d.animation
            /\ q.language = IF v >= 4 THEN p.number.language ELSE d.language
            /\ q.faceFlow = IF v >= 6 THEN p.number.faceFlow ELSE d.faceFlow
            /\ q.nightStart = IF v >= 9 THEN p.number.nightStart ELSE d.nightStart
            /\ q.nightEnd = IF v >= 9 THEN p.number.nightEnd ELSE d.nightEnd
  <1> DEFINE n(i) == Records!Number(bytes[i])
             d == Records!Default.number
             q == Records!Read(bytes, v).number
  <1>1. /\ n(2) = p.number.style /\ n(3) = p.number.color /\ n(4) = p.number.mood
        /\ n(5) = p.number.brightness /\ n(6) = p.number.nightBrightness
    <2>1. /\ bytes[2] = Records!Byte(p.number.style) /\ bytes[3] = Records!Byte(p.number.color)
          /\ bytes[4] = Records!Byte(p.number.mood) /\ bytes[5] = Records!Byte(p.number.brightness)
          /\ bytes[6] = Records!Byte(p.number.nightBrightness)
      BY DEF Holds
    <2>2. /\ p.number.style \in 0 .. 255 /\ p.number.color \in 0 .. 255 /\ p.number.mood \in 0 .. 255
          /\ p.number.brightness \in 0 .. 255 /\ p.number.nightBrightness \in 0 .. 255
      BY NumbersFit
    <2>3. /\ Records!Number(Records!Byte(p.number.style)) = p.number.style
          /\ Records!Number(Records!Byte(p.number.color)) = p.number.color
          /\ Records!Number(Records!Byte(p.number.mood)) = p.number.mood
          /\ Records!Number(Records!Byte(p.number.brightness)) = p.number.brightness
          /\ Records!Number(Records!Byte(p.number.nightBrightness)) = p.number.nightBrightness
      BY <2>2, ByteOfNumber
    <2> QED BY <2>1, <2>3
  <1>2. v >= 4 => n(9) = p.number.soundLevel /\ n(10) = p.number.animation /\ n(11) = p.number.language
    <2>1. v >= 4 => /\ bytes[9] = Records!Byte(p.number.soundLevel) /\ bytes[10] = Records!Byte(p.number.animation)
                    /\ bytes[11] = Records!Byte(p.number.language)
      BY DEF Holds
    <2>2. /\ p.number.soundLevel \in 0 .. 255 /\ p.number.animation \in 0 .. 255 /\ p.number.language \in 0 .. 255
      BY NumbersFit
    <2>3. /\ Records!Number(Records!Byte(p.number.soundLevel)) = p.number.soundLevel
          /\ Records!Number(Records!Byte(p.number.animation)) = p.number.animation
          /\ Records!Number(Records!Byte(p.number.language)) = p.number.language
      BY <2>2, ByteOfNumber
    <2> QED BY <2>1, <2>3
  <1>3. v >= 6 => n(12) \div 2 = p.number.faceFlow
    <2>1. Records!Unused(v).b11 = IF v = 5 THEN 1 .. 7 ELSE 3 .. 7
      BY DEF Records!Unused
    <2>2. v >= 6 => bytes[12] = (Records!Bit(p, "flipped") \cup {i + 1 : i \in Records!Byte(p.number.faceFlow)}) \ 3 .. 7
      BY <2>1 DEF Holds
    <2> QED BY <2>2, FlowAgain, NumbersFit
  <1>4. v >= 9 => n(14) = p.number.nightStart /\ n(15) = p.number.nightEnd
    <2>1. v >= 9 => /\ bytes[14] = Records!Byte(p.number.nightStart) /\ bytes[15] = Records!Byte(p.number.nightEnd)
      BY DEF Holds
    <2>2. p.number.nightStart \in 0 .. 255 /\ p.number.nightEnd \in 0 .. 255
      BY NumbersFit
    <2>3. /\ Records!Number(Records!Byte(p.number.nightStart)) = p.number.nightStart
          /\ Records!Number(Records!Byte(p.number.nightEnd)) = p.number.nightEnd
      BY <2>2, ByteOfNumber
    <2> QED BY <2>1, <2>3
  <1>5. /\ q.style = n(2) /\ q.color = n(3) /\ q.mood = n(4) /\ q.brightness = n(5) /\ q.nightBrightness = n(6)
        /\ q.soundLevel = IF v >= 4 THEN n(9) ELSE d.soundLevel
        /\ q.animation = IF v >= 4 THEN n(10) ELSE d.animation
        /\ q.language = IF v >= 4 THEN n(11) ELSE d.language
        /\ q.faceFlow = IF v >= 6 THEN n(12) \div 2 ELSE d.faceFlow
        /\ q.nightStart = IF v >= 9 THEN n(14) ELSE d.nightStart
        /\ q.nightEnd = IF v >= 9 THEN n(15) ELSE d.nightEnd
    BY DEF Records!Read
  <1> HIDE DEF n, d, q
  <1> QED BY <1>1, <1>2, <1>3, <1>4, <1>5 DEF d, q

\* The bits that a version leaves 0.
LEMMA UnusedBits ==
  ASSUME NEW v \in 1 .. 10
  PROVE  LET u == Records!Unused(v)
         IN /\ 0 \notin u.b6 /\ 1 \notin u.b6 /\ 2 \notin u.b6 /\ 3 \notin u.b6
            /\ 4 \in u.b6 <=> v < 2
            /\ 5 \in u.b6 <=> v < 2
            /\ 6 \in u.b6 <=> v < 3
            /\ 7 \in u.b6 <=> v < 7
            /\ 0 \notin u.b7 /\ 1 \notin u.b7 /\ 2 \notin u.b7 /\ 3 \notin u.b7 /\ 4 \notin u.b7 /\ 5 \notin u.b7
            /\ 6 \in u.b7 <=> v < 8
            /\ 0 \notin u.b11
  BY DEF Records!Unused

LEMMA FlagsRead ==
  ASSUME NEW p, Storable(p), NEW v \in 1 .. 10, NEW bytes, Holds(bytes, p, v)
  PROVE  \A f \in AllFlags :
           f \in Records!Read(bytes, v).on <=> f \in (IF v >= Records!FlagsSince[f] THEN p.on ELSE Records!Default.on)
  <1> DEFINE u == Records!Unused(v)
             a == Records!Unpacked(Records!Packed(p, Records!Display) \ u.b6, Records!Display)
             b == Records!Unpacked(Records!Packed(p, Records!Audible) \ u.b7, Records!Audible)
             c == IF v >= 4 THEN b ELSE Records!Default.on \cap {Records!Audible[i] : i \in DOMAIN Records!Audible}
             flipped == IF v >= 5 /\ 0 \in bytes[12] THEN {"flipped"} ELSE {}
             auto == IF v >= 9 /\ 0 \in bytes[13] THEN {"nightAuto"} ELSE {}
             charging == IF v >= 10 THEN (IF v >= 10 /\ 0 \in bytes[16] THEN {"soundCharging"} ELSE {}) ELSE {"soundCharging"}
             route == IF v >= 3 THEN {} ELSE {"route"}
             on == Records!Read(bytes, v).on
             d == Records!Default.on
             Shown(f) == f \in on <=> f \in (IF v >= Records!FlagsSince[f] THEN p.on ELSE d)
  <1>1. on = a \cup route \cup c \cup flipped \cup auto \cup charging
    <2>1. bytes[7] = Records!Packed(p, Records!Display) \ u.b6
      BY DEF Holds
    <2>2. v >= 4 => bytes[8] = Records!Packed(p, Records!Audible) \ u.b7
      BY DEF Holds
    <2>3. on = Records!Unpacked(bytes[7], Records!Display) \cup route
               \cup (IF v >= 4 THEN Records!Unpacked(bytes[8], Records!Audible)
                     ELSE Records!Default.on \cap {Records!Audible[i] : i \in DOMAIN Records!Audible})
               \cup flipped \cup auto \cup charging
      <3> DEFINE Flag(first, i, flag) == IF v >= first /\ 0 \in bytes[i + 1] THEN {flag} ELSE {}
      <3>1. on = Records!Unpacked(bytes[7], Records!Display) \cup route
                 \cup (IF v >= 4 THEN Records!Unpacked(bytes[8], Records!Audible)
                       ELSE Records!Default.on \cap {Records!Audible[i] : i \in DOMAIN Records!Audible})
                 \cup Flag(5, 11, "flipped") \cup Flag(9, 12, "nightAuto")
                 \cup (IF v >= 10 THEN Flag(10, 15, "soundCharging") ELSE {"soundCharging"})
        <4>1. \A x, y : [on |-> x, number |-> y].on = x
          OBVIOUS
        <4> QED BY <4>1, Zenon DEF Records!Read
      <3>2. Flag(5, 11, "flipped") = flipped /\ Flag(9, 12, "nightAuto") = auto
            /\ Flag(10, 15, "soundCharging") = IF v >= 10 /\ 0 \in bytes[16] THEN {"soundCharging"} ELSE {}
        BY 11 + 1 = 12, 12 + 1 = 13, 15 + 1 = 16
      <3> HIDE DEF Flag, flipped, auto, on, route
      <3> QED BY <3>1, <3>2
    <2>4. Records!Unpacked(bytes[7], Records!Display) = a
      BY <2>1
    <2>5. v >= 4 => Records!Unpacked(bytes[8], Records!Audible) = b
      BY <2>2
    <2> HIDE DEF a, b, flipped, auto, charging, route, on
    <2> QED BY <2>3, <2>4, <2>5
  <1>2. /\ a \subseteq {"night", "dashboard", "shake", "dim", "random", "imu", "route", "ios"}
        /\ "night" \in a <=> "night" \in p.on /\ 0 \notin u.b6
        /\ "dashboard" \in a <=> "dashboard" \in p.on /\ 1 \notin u.b6
        /\ "shake" \in a <=> "shake" \in p.on /\ 2 \notin u.b6
        /\ "dim" \in a <=> "dim" \in p.on /\ 3 \notin u.b6
        /\ "random" \in a <=> "random" \in p.on /\ 4 \notin u.b6
        /\ "imu" \in a <=> "imu" \in p.on /\ 5 \notin u.b6
        /\ "route" \in a <=> "route" \in p.on /\ 6 \notin u.b6
        /\ "ios" \in a <=> "ios" \in p.on /\ 7 \notin u.b6
    BY DisplayAgain
  <1>3. /\ b \subseteq {"sound", "soundFaces", "soundTimer", "soundAlerts", "soundAmbient", "nightMute", "sd"}
        /\ "sound" \in b <=> "sound" \in p.on /\ 0 \notin u.b7
        /\ "soundFaces" \in b <=> "soundFaces" \in p.on /\ 1 \notin u.b7
        /\ "soundTimer" \in b <=> "soundTimer" \in p.on /\ 2 \notin u.b7
        /\ "soundAlerts" \in b <=> "soundAlerts" \in p.on /\ 3 \notin u.b7
        /\ "soundAmbient" \in b <=> "soundAmbient" \in p.on /\ 4 \notin u.b7
        /\ "nightMute" \in b <=> "nightMute" \in p.on /\ 5 \notin u.b7
        /\ "sd" \in b <=> "sd" \in p.on /\ 6 \notin u.b7
    BY AudibleAgain
  <1>4. /\ v >= 5 => (0 \in bytes[12] <=> "flipped" \in p.on)
        /\ v >= 9 => (0 \in bytes[13] <=> "nightAuto" \in p.on)
        /\ v >= 10 => (0 \in bytes[16] <=> "soundCharging" \in p.on)
    <2>1. 0 \in {i + 1 : i \in Records!Byte(p.number.faceFlow)} => FALSE
      BY DEF Records!Byte
    <2>2. /\ v >= 5 => bytes[12] = (Records!Bit(p, "flipped") \cup {i + 1 : i \in Records!Byte(p.number.faceFlow)}) \ u.b11
          /\ v >= 9 => bytes[13] = Records!Bit(p, "nightAuto")
          /\ v >= 10 => bytes[16] = Records!Bit(p, "soundCharging")
      BY DEF Holds
    <2>3. 0 \notin u.b11
      BY UnusedBits
    <2> HIDE DEF u
    <2> QED BY <2>1, <2>2, <2>3 DEF Records!Bit
  <1>5. /\ 0 \notin u.b6 /\ 1 \notin u.b6 /\ 2 \notin u.b6 /\ 3 \notin u.b6
        /\ 4 \in u.b6 <=> v < 2
        /\ 5 \in u.b6 <=> v < 2
        /\ 6 \in u.b6 <=> v < 3
        /\ 7 \in u.b6 <=> v < 7
        /\ 0 \notin u.b7 /\ 1 \notin u.b7 /\ 2 \notin u.b7 /\ 3 \notin u.b7 /\ 4 \notin u.b7 /\ 5 \notin u.b7
        /\ 6 \in u.b7 <=> v < 8
    BY UnusedBits
  <1>6. /\ d = {"dashboard", "route", "soundFaces", "soundTimer", "soundAlerts", "soundAmbient", "nightMute", "soundCharging"}
        /\ v < 4 => c = {"soundFaces", "soundTimer", "soundAlerts", "soundAmbient", "nightMute"}
    <2>1. /\ d = {"dashboard", "route", "soundFaces", "soundTimer", "soundAlerts", "soundAmbient", "nightMute", "soundCharging"}
          /\ {Records!Audible[i] : i \in DOMAIN Records!Audible}
               = {"sound", "soundFaces", "soundTimer", "soundAlerts", "soundAmbient", "nightMute", "sd"}
      BY FlagsOf
    <2>2. v < 4 => c = d \cap {Records!Audible[i] : i \in DOMAIN Records!Audible}
      OBVIOUS
    <2> HIDE DEF c, d
    <2> QED BY <2>1, <2>2
  <1>7. v >= 4 => c = b
    OBVIOUS
  <1>8. /\ flipped \subseteq {"flipped"} /\ auto \subseteq {"nightAuto"} /\ charging \subseteq {"soundCharging"}
        /\ route \subseteq {"route"}
        /\ "flipped" \in flipped <=> v >= 5 /\ 0 \in bytes[12]
        /\ "nightAuto" \in auto <=> v >= 9 /\ 0 \in bytes[13]
        /\ "soundCharging" \in charging <=> (v < 10 \/ 0 \in bytes[16])
        /\ "route" \in route <=> v < 3
    OBVIOUS
  <1> HIDE DEF a, b, c, flipped, auto, charging, route, on, d, u
  <1>9. ASSUME NEW f \in {"night", "dashboard", "shake", "dim", "random", "imu", "route", "ios"}
        PROVE  f \in on <=> f \in a \/ f \in route
    <2>1. f \notin c
      BY <1>3, <1>6, <1>7
    <2>2. f \notin flipped \cup auto \cup charging
      BY <1>8
    <2> QED BY <2>1, <2>2, <1>1
  <1>10. ASSUME NEW f \in {"sound", "soundFaces", "soundTimer", "soundAlerts", "soundAmbient", "nightMute", "sd"}
         PROVE  f \in on <=> f \in c
    <2>1. f \notin a /\ f \notin flipped \cup auto \cup charging \cup route
      BY <1>2, <1>8
    <2> QED BY <2>1, <1>1
  <1>11. /\ "flipped" \in on <=> "flipped" \in flipped
         /\ "nightAuto" \in on <=> "nightAuto" \in auto
         /\ "soundCharging" \in on <=> "soundCharging" \in charging
    <2>1. ASSUME NEW f \in {"flipped", "nightAuto", "soundCharging"} PROVE f \notin a /\ f \notin c /\ f \notin route
      BY <1>2, <1>3, <1>6, <1>7, <1>8
    <2>2. \A f \in {"flipped", "nightAuto", "soundCharging"} : f \in on <=> f \in flipped \cup auto \cup charging
      BY <2>1, <1>1
    <2> QED BY <2>2, <1>8
  <1>12. \A f \in {"night", "dashboard", "shake", "dim"} : Shown(f)
    <2>1. ASSUME NEW f \in {"night", "dashboard", "shake", "dim"} PROVE Shown(f)
      <3>1. f \notin route /\ (f \in a <=> f \in p.on)
        BY <1>2, <1>5, <1>8
      <3>2. v >= Records!FlagsSince[f]
        BY FlagsBegin
      <3> QED BY <3>1, <3>2, <1>9
    <2> QED BY <2>1
  <1>13. Shown("random") /\ Shown("imu")
    <2>1. ASSUME NEW f \in {"random", "imu"} PROVE Shown(f)
      <3>1. f \notin route /\ (f \in a <=> f \in p.on /\ v >= 2) /\ f \notin d
        BY <1>2, <1>5, <1>6, <1>8
      <3>2. Records!FlagsSince[f] = 2
        BY FlagsBegin
      <3> QED BY <3>1, <3>2, <1>9
    <2> QED BY <2>1
  <1>14. Shown("route")
    <2>1. ("route" \in a <=> "route" \in p.on /\ v >= 3) /\ "route" \in d /\ ("route" \in route <=> v < 3)
      BY <1>2, <1>5, <1>6, <1>8
    <2> QED BY <2>1, <1>9, FlagsBegin
  <1>15. Shown("ios")
    <2>1. ("ios" \in a <=> "ios" \in p.on /\ v >= 7) /\ "ios" \notin d /\ "ios" \notin route
      BY <1>2, <1>5, <1>6, <1>8
    <2> QED BY <2>1, <1>9, FlagsBegin
  <1>16. \A f \in {"sound", "soundFaces", "soundTimer", "soundAlerts", "soundAmbient", "nightMute"} : Shown(f)
    <2>1. ASSUME NEW f \in {"sound", "soundFaces", "soundTimer", "soundAlerts", "soundAmbient", "nightMute"} PROVE Shown(f)
      <3>1. (v >= 4 => (f \in c <=> f \in p.on)) /\ (v < 4 => (f \in c <=> f \in d))
        BY <1>3, <1>5, <1>6, <1>7
      <3>2. Records!FlagsSince[f] = 4
        BY FlagsBegin
      <3> QED BY <3>1, <3>2, <1>10
    <2> QED BY <2>1
  <1>17. Shown("sd")
    <2>1. ("sd" \in c <=> "sd" \in p.on /\ v >= 8) /\ "sd" \notin d
      BY <1>3, <1>5, <1>6, <1>7
    <2> QED BY <2>1, <1>10, FlagsBegin
  <1>18. Shown("flipped") /\ Shown("nightAuto") /\ Shown("soundCharging")
    <2>1. "flipped" \notin d /\ "nightAuto" \notin d /\ "soundCharging" \in d
      BY <1>6
    <2> QED BY <2>1, <1>4, <1>8, <1>11, FlagsBegin
  <1> HIDE DEF Shown
  <1>19. \A f \in AllFlags : Shown(f)
    BY <1>12, <1>13, <1>14, <1>15, <1>16, <1>17, <1>18 DEF AllFlags
  <1> QED BY <1>19 DEF Shown, on, d

\* What the record holds is a profile that settings_valid accepts.
LEMMA ReadIsValid ==
  ASSUME NEW p, Storable(p), NEW v \in 1 .. 10, NEW bytes, Holds(bytes, p, v)
  PROVE  Records!Valid(Records!Read(bytes, v))
  <1> DEFINE q == Records!Read(bytes, v).number
             d == Records!Default.number
  <1>1. /\ q.style = p.number.style /\ q.color = p.number.color /\ q.mood = p.number.mood
        /\ q.brightness = p.number.brightness /\ q.nightBrightness = p.number.nightBrightness
        /\ q.soundLevel = IF v >= 4 THEN p.number.soundLevel ELSE d.soundLevel
        /\ q.animation = IF v >= 4 THEN p.number.animation ELSE d.animation
        /\ q.language = IF v >= 4 THEN p.number.language ELSE d.language
        /\ q.faceFlow = IF v >= 6 THEN p.number.faceFlow ELSE d.faceFlow
        /\ q.nightStart = IF v >= 9 THEN p.number.nightStart ELSE d.nightStart
        /\ q.nightEnd = IF v >= 9 THEN p.number.nightEnd ELSE d.nightEnd
    BY NumbersRead
  <1>2. /\ d.soundLevel = 10 /\ d.animation = 1 /\ d.language = 0 /\ d.faceFlow = 0 /\ d.nightStart = 22 /\ d.nightEnd = 7
    BY DEF Records!Default
  <1> HIDE DEF q, d
  <1>3. /\ q.style \in 0 .. 6 /\ q.color \in 0 .. 5 /\ q.mood \in 0 .. 145
        /\ q.brightness \in 5 .. 90 /\ q.nightBrightness \in 1 .. 20 /\ q.soundLevel \in 1 .. 30
        /\ q.animation \in 0 .. 2 /\ q.language \in 0 .. 1 /\ q.faceFlow \in 0 .. 3
        /\ q.nightStart \in 0 .. 23 /\ q.nightEnd \in 0 .. 23
        /\ q.nightStart # q.nightEnd
    BY <1>1, <1>2, NumbersFit
  <1>4. \A f \in DOMAIN Records!Limits : q[f] \in Records!Limits[f]
    BY <1>3 DEF Records!Limits
  <1> QED BY <1>3, <1>4 DEF Records!Valid, q

\* A record whose form is right is read.
LEMMA DecodedAgain ==
  ASSUME NEW p, Storable(p), NEW v \in 1 .. 10, NEW bytes, Holds(bytes, p, v)
  PROVE  Records!Decode(bytes) = {Records!Read(bytes, v)}
  <1> DEFINE version == Records!Number(bytes[1])
             unused == Records!Unused(version)
             good == /\ version \in 1 .. 10 /\ Len(bytes) = Records!Lengths(version)
                     /\ bytes[Len(bytes)] = Records!Checksum(SubSeq(bytes, 1, Len(bytes) - 1))
                     /\ bytes[7] \cap unused.b6 = {}
                     /\ version >= 4 => bytes[8] \cap unused.b7 = {}
                     /\ version >= 5 => bytes[12] \cap unused.b11 = {}
                     /\ version >= 9 => bytes[13] \subseteq {0}
                     /\ version >= 10 => bytes[16] \subseteq {0}
             read == Records!Read(bytes, version)
  <1>1. Records!Decode(bytes) = IF good /\ Records!Valid(read) THEN {read} ELSE {}
    BY Zenon DEF Records!Decode
  <1>2. version = v
    <2>1. bytes[1] = Records!Byte(v) /\ v \in 0 .. 255
      BY DEF Holds
    <2> QED BY <2>1, ByteOfNumber
  <1>3. /\ Len(bytes) = Records!Lengths(v)
        /\ bytes[Len(bytes)] = Records!Checksum(SubSeq(bytes, 1, Len(bytes) - 1))
    BY DEF Holds
  <1>4. bytes[7] \cap Records!Unused(v).b6 = {}
    <2>1. bytes[7] = Records!Packed(p, Records!Display) \ Records!Unused(v).b6
      BY DEF Holds
    <2> QED BY <2>1
  <1>5. v >= 4 => bytes[8] \cap Records!Unused(v).b7 = {}
    <2>1. v >= 4 => bytes[8] = Records!Packed(p, Records!Audible) \ Records!Unused(v).b7
      BY DEF Holds
    <2> QED BY <2>1
  <1>6. v >= 5 => bytes[12] \cap Records!Unused(v).b11 = {}
    <2> DEFINE x == Records!Bit(p, "flipped") \cup {i + 1 : i \in Records!Byte(p.number.faceFlow)}
    <2>1. v >= 5 => bytes[12] = x \ Records!Unused(v).b11
      BY DEF Holds
    <2> HIDE DEF x
    <2> QED BY <2>1
  <1>7. (v >= 9 => bytes[13] \subseteq {0}) /\ (v >= 10 => bytes[16] \subseteq {0})
    <2>1. (v >= 9 => bytes[13] = Records!Bit(p, "nightAuto")) /\ (v >= 10 => bytes[16] = Records!Bit(p, "soundCharging"))
      BY DEF Holds
    <2>2. \A f : Records!Bit(p, f) \subseteq {0}
      BY DEF Records!Bit
    <2> QED BY <2>1, <2>2
  <1>8. Records!Valid(Records!Read(bytes, v))
    BY ReadIsValid
  <1> HIDE DEF version
  <1>9. good
    BY <1>2, <1>3, <1>4, <1>5, <1>6, <1>7
  <1>10. read = Records!Read(bytes, v)
    BY <1>2
  <1> HIDE DEF good, read
  <1> QED BY <1>1, <1>8, <1>9, <1>10

Cut(c, a, n) == \A i \in 1 .. n : c[i] = a[i]

LEMMA Front ==
  ASSUME NEW S, NEW a \in Seq(S), NEW n \in Nat, n <= Len(a)
  PROVE  SubSeq(a, 1, n) \in Seq(S) /\ Len(SubSeq(a, 1, n)) = n /\ Cut(SubSeq(a, 1, n), a, n)
  BY DEF Cut

LEMMA ElementIn ==
  ASSUME NEW S, NEW a \in Seq(S), NEW i \in 1 .. Len(a)
  PROVE  a[i] \in S
  OBVIOUS

\* The checksum tells that a bit of a record was lost.
LEMMA LostIsRefused ==
  ASSUME NEW p, NEW e, Holds(e, p, 10), NEW i \in DOMAIN e, NEW bit \in 0 .. 7
  PROVE  Records!Decode([e EXCEPT ![i] = Records!Xor(@, {bit})]) = {}
  <1> DEFINE bytes == [e EXCEPT ![i] = Records!Xor(@, {bit})]
             S == SUBSET Nat
             c == SubSeq(e, 1, 16)
             d == SubSeq(bytes, 1, 16)
  <1>1. e \in Seq(S) /\ Len(e) = 17 /\ e[17] = Records!Checksum(c)
    BY DEF Holds, Records!Lengths
  <1>2. bit \in Nat /\ i \in 1 .. 17
    BY <1>1
  <1>3. \A x \in S : Records!Xor(x, {bit}) \in S /\ Records!Xor(x, {bit}) # x
    BY <1>2 DEF Records!Xor
  <1> HIDE DEF S
  <1>4. e[i] \in S
    <2> HIDE DEF bytes, c, d
    <2>1. e \in Seq(S)
      BY <1>1
    <2>2. i \in 1 .. Len(e)
      BY <1>1, <1>2
    <2> QED BY <2>1, <2>2, ElementIn
  <1> DEFINE y == Records!Xor(e[i], {bit})
  <1>5. y \in S /\ y # e[i] /\ bytes = [e EXCEPT ![i] = y]
    <2>1. y \in S /\ y # e[i]
      BY <1>3, <1>4
    <2>2. bytes = [e EXCEPT ![i] = y]
      BY Zenon
    <2> QED BY <2>1, <2>2
  <1> HIDE DEF y
  <1>6. /\ bytes \in Seq(S) /\ Len(bytes) = 17
        /\ bytes[i] = y
        /\ \A n \in 1 .. 17 : n # i => bytes[n] = e[n]
    <2> DEFINE z == [e EXCEPT ![i] = y]
    <2>1. z \in Seq(S) /\ Len(z) = Len(e) /\ z[i] = y /\ \A n \in 1 .. Len(e) : n # i => z[n] = e[n]
      BY <1>1, <1>2, <1>5
    <2> HIDE DEF z
    <2>2. bytes = z
      BY <1>5 DEF z
    <2> HIDE DEF bytes
    <2> QED BY <1>1, <2>1, <2>2
  <1> HIDE DEF bytes
  <1>7. bytes[17] # Records!Checksum(d)
    <2>1. c \in Seq(S) /\ Len(c) = 16 /\ \A n \in 1 .. 16 : c[n] = e[n]
      <3>1. PICK m \in Nat : m = 16
        OBVIOUS
      <3>2. SubSeq(e, 1, m) \in Seq(S) /\ Len(SubSeq(e, 1, m)) = m /\ Cut(SubSeq(e, 1, m), e, m)
        BY <1>1, <3>1, Front
      <3> QED BY <3>1, <3>2 DEF Cut
    <2>2. d \in Seq(S) /\ Len(d) = 16 /\ \A n \in 1 .. 16 : d[n] = bytes[n]
      <3>1. PICK m \in Nat : m = 16
        OBVIOUS
      <3> HIDE DEF c, d
      <3>a. bytes \in Seq(S) /\ m <= Len(bytes)
        BY <1>6, <3>1
      <3>2. SubSeq(bytes, 1, m) \in Seq(S) /\ Len(SubSeq(bytes, 1, m)) = m /\ Cut(SubSeq(bytes, 1, m), bytes, m)
        BY <3>a, Front
      <3> QED BY <3>1, <3>2 DEF Cut, d
    <2> HIDE DEF c, d
    <2>3. CASE i = 17
      <3>1. d = c
        <4>1. \A n \in 1 .. 16 : d[n] = c[n]
          BY <2>1, <2>2, <2>3, <1>6
        <4> QED BY <2>1, <2>2, <4>1
      <3> QED BY <3>1, <2>3, <1>1, <1>5, <1>6
    <2>4. CASE i # 17
      <3>1. i \in 1 .. Len(c) /\ Len(d) = Len(c)
        BY <2>1, <2>2, <2>4, <1>2
      <3>2. d[i] = Records!Xor(c[i], {bit}) /\ \A n \in 1 .. Len(c) : n # i => d[n] = c[n]
        <4>1. d[i] = y /\ c[i] = e[i]
          BY <2>1, <2>2, <2>4, <1>2, <1>6
        <4>2. \A n \in 1 .. 16 : n # i => d[n] = c[n]
          BY <2>1, <2>2, <1>6
        <4> QED BY <4>1, <4>2, <2>1 DEF y
      <3>3. Records!Checksum(d) # Records!Checksum(c)
        <4>1. c \in Seq(SUBSET Nat) /\ d \in Seq(SUBSET Nat)
          BY <2>1, <2>2 DEF S
        <4> QED BY <4>1, <3>1, <3>2, <1>2, ChecksumChanges
      <3>4. bytes[17] = e[17]
        BY <1>6, <2>4
      <3> QED BY <3>3, <3>4, <1>1
    <2> QED BY <2>3, <2>4
  <1>8. bytes[Len(bytes)] # Records!Checksum(SubSeq(bytes, 1, Len(bytes) - 1))
    BY <1>6, <1>7, 17 - 1 = 16
  <1> DEFINE version == Records!Number(bytes[1])
             unused == Records!Unused(version)
             rest == /\ bytes[7] \cap unused.b6 = {}
                     /\ version >= 4 => bytes[8] \cap unused.b7 = {}
                     /\ version >= 5 => bytes[12] \cap unused.b11 = {}
                     /\ version >= 9 => bytes[13] \subseteq {0}
                     /\ version >= 10 => bytes[16] \subseteq {0}
             sum == bytes[Len(bytes)] = Records!Checksum(SubSeq(bytes, 1, Len(bytes) - 1))
             good == /\ version \in 1 .. 10 /\ Len(bytes) = Records!Lengths(version)
                     /\ bytes[Len(bytes)] = Records!Checksum(SubSeq(bytes, 1, Len(bytes) - 1))
                     /\ bytes[7] \cap unused.b6 = {}
                     /\ version >= 4 => bytes[8] \cap unused.b7 = {}
                     /\ version >= 5 => bytes[12] \cap unused.b11 = {}
                     /\ version >= 9 => bytes[13] \subseteq {0}
                     /\ version >= 10 => bytes[16] \subseteq {0}
             read == Records!Read(bytes, version)
  <1>9. Records!Decode(bytes) = IF good /\ Records!Valid(read) THEN {read} ELSE {}
    BY Zenon DEF Records!Decode
  <1>10. ~good
    BY <1>8
  <1> HIDE DEF good, read
  <1> QED BY <1>9, <1>10 DEF bytes

\* Every profile that is written is one that settings_valid accepts.
LEMMA DefaultStorable ==
  /\ Storable(Records!Default)
  /\ Records!Valid(Records!Default)
  BY DEF Storable, Records!Default, Records!Valid, Records!Limits, AllFlags

\* The profiles, by how they differ from the default.
WithNumber(f, n) == [Records!Default EXCEPT !.number[f] = n]
WithFlow(on, n) == [Records!Flagged(on) EXCEPT !.number.faceFlow = n]

LEMMA OtherFlags ==
  ASSUME NEW on \in SUBSET AllFlags
  PROVE  Storable(Records!Flagged(on))
  <1> DEFINE d == Records!Default
             q == [d EXCEPT !.on = Records!Xor(@, on)]
  <1>1. Storable(d)
    BY DefaultStorable
  <1>2. DOMAIN q = DOMAIN d /\ q.number = d.number /\ q.on = Records!Xor(d.on, on)
    <2>1. DOMAIN d = {"on", "number"}
      BY <1>1 DEF Storable
    <2> HIDE DEF d
    <2> QED BY <2>1
  <1> HIDE DEF q, d
  <1>3. q.on \subseteq AllFlags
    BY <1>1, <1>2 DEF Storable, Records!Xor
  <1>4. Records!Valid(q)
    BY <1>1, <1>2 DEF Storable, Records!Valid
  <1>5. Storable(q)
    BY <1>1, <1>2, <1>3, <1>4 DEF Storable
  <1> QED BY <1>5 DEF q, d, Records!Flagged

LEMMA OtherNumber ==
  ASSUME NEW f \in DOMAIN Records!Limits, NEW n \in Records!Limit(Records!Limits[f])
  PROVE  Storable(WithNumber(f, n))
  <1> DEFINE d == Records!Default
             q == [d EXCEPT !.number[f] = n]
  <1>1. Storable(d)
    BY DefaultStorable
  <1>2. /\ DOMAIN q = DOMAIN d /\ q.on = d.on /\ DOMAIN q.number = DOMAIN d.number
        /\ q.number[f] = n /\ \A g \in DOMAIN d.number : g # f => q.number[g] = d.number[g]
    <2>1. DOMAIN d = {"on", "number"} /\ f \in DOMAIN d.number
      BY <1>1 DEF Storable
    <2> HIDE DEF d
    <2>2. q.number = [d.number EXCEPT ![f] = n] /\ DOMAIN q = DOMAIN d /\ q.on = d.on
      BY <2>1
    <2> QED BY <2>1, <2>2
  <1>3. d.number.nightStart = 22 /\ d.number.nightEnd = 7
    BY DEF Records!Default
  <1>4. n \in Records!Limits[f]
    BY DEF Records!Limit
  <1>5. f \in {"nightStart", "nightEnd"} => n \in {0, 23}
    <2>1. Records!Limits["nightStart"] = 0 .. 23 /\ Records!Limits["nightEnd"] = 0 .. 23
      BY DEF Records!Limits
    <2>2. f \in {"nightStart", "nightEnd"} => n \in 0 .. 23 /\ ((\A y \in 0 .. 23 : n <= y) \/ \A y \in 0 .. 23 : n >= y)
      BY <2>1 DEF Records!Limit
    <2> QED BY <2>2
  <1> HIDE DEF q, d
  <1>6. \A g \in DOMAIN Records!Limits : q.number[g] \in Records!Limits[g]
    BY <1>1, <1>2, <1>4 DEF Storable, Records!Valid
  <1>7. q.number.nightStart # q.number.nightEnd
    <2>1. DOMAIN d.number = DOMAIN Records!Limits /\ {"nightStart", "nightEnd"} \subseteq DOMAIN Records!Limits
      BY <1>1 DEF Storable, Records!Limits
    <2>2. CASE f = "nightStart"
      BY <2>1, <2>2, <1>2, <1>3, <1>5
    <2>3. CASE f = "nightEnd"
      BY <2>1, <2>3, <1>2, <1>3, <1>5
    <2>4. CASE f # "nightStart" /\ f # "nightEnd"
      BY <2>1, <2>4, <1>2, <1>3
    <2> QED BY <2>2, <2>3, <2>4
  <1>8. Records!Valid(q)
    BY <1>6, <1>7 DEF Records!Valid
  <1>9. Storable(q)
    BY <1>1, <1>2, <1>8 DEF Storable
  <1> QED BY <1>9 DEF q, d, WithNumber

LEMMA OtherFlow ==
  ASSUME NEW on \in SUBSET AllFlags, NEW n \in 0 .. 3
  PROVE  Storable(WithFlow(on, n))
  <1> DEFINE d == Records!Default
             r == [d EXCEPT !.on = Records!Xor(@, on)]
             q == [r EXCEPT !.number.faceFlow = n]
  <1>1. Storable(d)
    BY DefaultStorable
  <1>2. /\ DOMAIN q = DOMAIN d /\ q.on = Records!Xor(d.on, on) /\ q.number = [d.number EXCEPT !.faceFlow = n]
    <2>1. DOMAIN d = {"on", "number"}
      BY <1>1 DEF Storable
    <2> HIDE DEF d
    <2>2. DOMAIN r = DOMAIN d /\ r.on = Records!Xor(d.on, on) /\ r.number = d.number
      BY <2>1
    <2> HIDE DEF r
    <2> QED BY <2>1, <2>2
  <1>3. "faceFlow" \in DOMAIN d.number /\ Records!Limits["faceFlow"] = 0 .. 3 /\ DOMAIN d.number = DOMAIN Records!Limits
    BY <1>1 DEF Storable, Records!Limits
  <1> HIDE DEF q, r, d
  <1>4. \A g \in DOMAIN Records!Limits : q.number[g] \in Records!Limits[g]
    BY <1>1, <1>2, <1>3 DEF Storable, Records!Valid
  <1>5. q.number.nightStart # q.number.nightEnd
    BY <1>1, <1>2, <1>3 DEF Storable, Records!Valid
  <1>6. Records!Valid(q)
    BY <1>4, <1>5 DEF Records!Valid
  <1>7. q.on \subseteq AllFlags
    BY <1>1, <1>2 DEF Storable, Records!Xor
  <1>8. Storable(q)
    BY <1>1, <1>2, <1>6, <1>7 DEF Storable
  <1> QED BY <1>8 DEF q, r, d, WithFlow, Records!Flagged

LEMMA ProfilesStorable == \A p \in Records!Profiles : Storable(p)
  <1> DEFINE Ons == (SUBSET {Records!Display[i] : i \in 1 .. 8}) \cup (SUBSET {Records!Audible[i] : i \in 1 .. 7})
             a == {Records!Flagged(on) : on \in Ons}
             Numbers(f) == {[Records!Default EXCEPT !.number[f] = n] : n \in Records!Limit(Records!Limits[f])}
             b == UNION {Numbers(f) : f \in DOMAIN Records!Limits}
             Flows(on) == {[Records!Flagged(on) EXCEPT !.number.faceFlow = n] : n \in Records!Limits.faceFlow}
             c == UNION {Flows(on) : on \in SUBSET {"flipped", "nightAuto", "soundCharging"}}
  <1>1. Records!Profiles = a \cup b \cup c
    BY Zenon DEF Records!Profiles
  <1>2. \A on \in Ons : on \in SUBSET AllFlags
    <2>1. /\ {Records!Audible[i] : i \in 1 .. 7}
               = {"sound", "soundFaces", "soundTimer", "soundAlerts", "soundAmbient", "nightMute", "sd"}
          /\ {Records!Display[i] : i \in 1 .. 8}
               = {"night", "dashboard", "shake", "dim", "random", "imu", "route", "ios"}
      <3>1. DOMAIN Records!Audible = 1 .. 7 /\ DOMAIN Records!Display = 1 .. 8
        BY DEF Records!Audible, Records!Display
      <3> QED BY <3>1, FlagsOf
    <2> DEFINE x == {Records!Audible[i] : i \in 1 .. 7}
               y == {Records!Display[i] : i \in 1 .. 8}
    <2>2. x \subseteq AllFlags /\ y \subseteq AllFlags
      BY <2>1 DEF AllFlags
    <2> HIDE DEF x, y
    <2>3. Ons = (SUBSET y) \cup (SUBSET x)
      BY DEF x, y
    <2> HIDE DEF Ons
    <2>4. ASSUME NEW on \in (SUBSET y) \cup (SUBSET x) PROVE on \in SUBSET AllFlags
      <3>1. CASE on \in SUBSET y
        BY <3>1, <2>2
      <3>2. CASE on \in SUBSET x
        BY <3>2, <2>2
      <3> QED BY <3>1, <3>2
    <2> QED BY <2>3, <2>4
  <1> HIDE DEF Ons
  <1>3. ASSUME NEW p \in a PROVE Storable(p)
    <2>1. PICK on \in Ons : p = Records!Flagged(on)
      OBVIOUS
    <2>3. on \in SUBSET AllFlags
      BY <1>2
    <2> HIDE DEF a, b, c
    <2>4. Storable(Records!Flagged(on))
      BY <2>3, OtherFlags
    <2> QED BY <2>1, <2>4
  <1>4. ASSUME NEW p \in b PROVE Storable(p)
    <2>1. PICK f \in DOMAIN Records!Limits : p \in Numbers(f)
      <3> HIDE DEF Numbers
      <3> QED OBVIOUS
    <2>2. PICK n \in Records!Limit(Records!Limits[f]) : p = [Records!Default EXCEPT !.number[f] = n]
      BY <2>1
    <2>3. p = WithNumber(f, n)
      BY <2>2 DEF WithNumber
    <2> HIDE DEF a, b, c
    <2>4. Storable(WithNumber(f, n))
      BY OtherNumber
    <2> QED BY <2>3, <2>4
  <1>5. ASSUME NEW p \in c PROVE Storable(p)
    <2>1. PICK on \in SUBSET {"flipped", "nightAuto", "soundCharging"} : p \in Flows(on)
      <3> HIDE DEF Flows
      <3> QED OBVIOUS
    <2>2. PICK n \in Records!Limits.faceFlow : p = [Records!Flagged(on) EXCEPT !.number.faceFlow = n]
      BY <2>1
    <2>5. p = WithFlow(on, n)
      BY <2>2 DEF WithFlow
    <2> HIDE DEF a, b, c
    <2>3. on \in SUBSET AllFlags /\ n \in 0 .. 3
      BY DEF AllFlags, Records!Limits
    <2>4. Storable(WithFlow(on, n))
      BY <2>3, OtherFlow
    <2> QED BY <2>4, <2>5
  <1> HIDE DEF a, b, c
  <1> QED BY <1>1, <1>3, <1>4, <1>5

\* A record that is there holds the profile, unless a bit of it was lost: then it is refused.
ProfileInv ==
  /\ DOMAIN s = {"unit", "profile", "bytes", "version", "lost"} /\ s.unit = "profile"
  /\ Storable(s.profile) /\ s.lost \in BOOLEAN
  /\ s.bytes = <<>> => ~s.lost
  /\ s.bytes # <<>> /\ ~s.lost => s.version \in 1 .. 10 /\ Holds(s.bytes, s.profile, s.version)
  /\ s.lost => Records!Decode(s.bytes) = {}

LEMMA ProfileBegins == s.unit = "profile" /\ Records!Init => ProfileInv
  <1> SUFFICES ASSUME s.unit = "profile", Records!Init PROVE ProfileInv
    OBVIOUS
  <1>1. PICK p \in Records!Profiles : s = [unit |-> "profile", profile |-> p, bytes |-> <<>>, version |-> 0, lost |-> FALSE]
    BY DEF Records!Init, Records!ProfileInit, Records!LanguageInit
  <1>2. Storable(p)
    BY ProfilesStorable
  <1> QED BY <1>1, <1>2 DEF ProfileInv

LEMMA ProfileSteps ==
  ASSUME ProfileInv, [Records!Next]_s
  PROVE  ProfileInv'
  <1> DEFINE Fields == {"unit", "profile", "bytes", "version", "lost"}
             Is(p, b, v, l) ==
               /\ DOMAIN s' = Fields /\ s'.unit = "profile" /\ s'.profile = p /\ s'.bytes = b /\ s'.version = v /\ s'.lost = l
  <1>1. DOMAIN s = Fields /\ s.unit = "profile" /\ Storable(s.profile)
    BY DEF ProfileInv
  <1>2. CASE Records!Writes
    <2>1. s.bytes = <<>> /\ ~s.lost
      BY <1>2 DEF Records!Writes, ProfileInv
    <2>2. Is(s.profile, Records!Encode(s.profile), 10, s.lost)
      BY <1>1, <1>2 DEF Records!Writes
    <2>3. Holds(s'.bytes, s'.profile, s'.version)
      BY <2>2, <1>1, EncodedHolds
    <2> QED BY <2>1, <2>2, <2>3, <1>1 DEF ProfileInv
  <1>3. CASE Records!Upgrades
    <2>1. s.bytes = <<>> /\ ~s.lost
      BY <1>3 DEF Records!Upgrades, ProfileInv
    <2>2. PICK v \in 1 .. 9 : s' = [s EXCEPT !.bytes = Records!Older(s.profile, v), !.version = v]
      BY <1>3 DEF Records!Upgrades
    <2>3. Is(s.profile, Records!Older(s.profile, v), v, s.lost)
      BY <1>1, <2>2
    <2>4. Holds(s'.bytes, s'.profile, s'.version)
      BY <2>3, <1>1, OlderHolds
    <2> QED BY <2>1, <2>3, <2>4, <1>1 DEF ProfileInv
  <1>4. CASE Records!Loses
    <2>1. PICK i \in DOMAIN s.bytes, bit \in 0 .. 7 : s' = [s EXCEPT !.bytes[i] = Records!Xor(@, {bit}), !.lost = TRUE]
      BY <1>4 DEF Records!Loses
    <2>2. s.version = 10 /\ ~s.lost /\ s.bytes # <<>>
      BY <1>4, <2>1 DEF Records!Loses
    <2>3. Holds(s.bytes, s.profile, 10)
      BY <2>2 DEF ProfileInv
    <2>4. Is(s.profile, [s.bytes EXCEPT ![i] = Records!Xor(@, {bit})], 10, TRUE)
      <3>1. s' = [s EXCEPT !.bytes = [s.bytes EXCEPT ![i] = Records!Xor(@, {bit})], !.lost = TRUE]
        BY <2>1
      <3> DEFINE b == [s.bytes EXCEPT ![i] = Records!Xor(@, {bit})]
      <3> HIDE DEF b
      <3> QED BY <3>1, <1>1, <2>2 DEF b
    <2>5. Records!Decode(s'.bytes) = {}
      BY <2>3, <2>4, LostIsRefused
    <2>6. s'.bytes # <<>>
      <3>1. DOMAIN s'.bytes = DOMAIN s.bytes
        BY <2>4
      <3> QED BY <3>1, <2>1
    <2> QED BY <2>4, <2>5, <2>6, <1>1 DEF ProfileInv
  <1>5. CASE Records!Erases
    <2>1. Is(s.profile, <<>>, 0, FALSE)
      BY <1>1, <1>5 DEF Records!Erases
    <2> QED BY <2>1, <1>1 DEF ProfileInv
  <1>6. CASE UNCHANGED s
    BY <1>6 DEF ProfileInv, Storable, Holds
  <1> QED BY <1>1, <1>2, <1>3, <1>4, <1>5, <1>6 DEF Records!Next

\* What it holds is read again as it was written.
LEMMA ProfileIsKept == ProfileInv => Records!ProfileKept
  <1> SUFFICES ASSUME ProfileInv, s.bytes # <<>> PROVE Records!ProfileKept
    BY DEF Records!ProfileKept
  <1>1. CASE s.lost
    BY <1>1 DEF ProfileInv, Records!ProfileKept
  <1>2. CASE ~s.lost
    <2> DEFINE p == s.profile
               v == s.version
               q == Records!Read(s.bytes, v)
    <2>1. Storable(p) /\ v \in 1 .. 10 /\ Holds(s.bytes, p, v)
      BY <1>2 DEF ProfileInv
    <2> HIDE DEF p, v
    <2>2. Records!Decode(s.bytes) = {q}
      BY <2>1, DecodedAgain
    <2>3. \A f \in DOMAIN Records!Limits : q.number[f] = IF v >= Records!NumberSince[f] THEN p.number[f] ELSE Records!Default.number[f]
      <3> DEFINE n == q.number
                 d == Records!Default.number
      <3>1. /\ n.style = p.number.style /\ n.color = p.number.color /\ n.mood = p.number.mood
            /\ n.brightness = p.number.brightness /\ n.nightBrightness = p.number.nightBrightness
            /\ n.soundLevel = IF v >= 4 THEN p.number.soundLevel ELSE d.soundLevel
            /\ n.animation = IF v >= 4 THEN p.number.animation ELSE d.animation
            /\ n.language = IF v >= 4 THEN p.number.language ELSE d.language
            /\ n.faceFlow = IF v >= 6 THEN p.number.faceFlow ELSE d.faceFlow
            /\ n.nightStart = IF v >= 9 THEN p.number.nightStart ELSE d.nightStart
            /\ n.nightEnd = IF v >= 9 THEN p.number.nightEnd ELSE d.nightEnd
        BY <2>1, NumbersRead
      <3> HIDE DEF n, d
      <3> DEFINE since == Records!NumberSince
      <3>2. /\ \A f \in {"style", "color", "mood", "brightness", "nightBrightness"} : since[f] = 1
            /\ \A f \in {"soundLevel", "animation", "language"} : since[f] = 4
            /\ since["faceFlow"] = 6
            /\ \A f \in {"nightStart", "nightEnd"} : since[f] = 9
            /\ DOMAIN Records!Limits = {"style", "color", "mood", "brightness", "nightBrightness", "soundLevel", "animation",
                                        "language", "faceFlow", "nightStart", "nightEnd"}
        BY NumbersBegin
      <3> HIDE DEF since
      <3>3. \A f \in DOMAIN Records!Limits : n[f] = IF v >= since[f] THEN p.number[f] ELSE d[f]
        BY <2>1, <3>1, <3>2
      <3> QED BY <3>3 DEF n, d, since
    <2>4. \A f \in DOMAIN Records!FlagsSince : f \in q.on <=> f \in (IF v >= Records!FlagsSince[f] THEN p.on ELSE Records!Default.on)
      <3>1. DOMAIN Records!FlagsSince = AllFlags
        BY FlagsBegin
      <3> QED BY <3>1, <2>1, FlagsRead
    <2> HIDE DEF q
    <2> QED BY <1>2, <2>2, <2>3, <2>4 DEF Records!ProfileKept, p, v
  <1>3. s.lost \in BOOLEAN
    BY DEF ProfileInv
  <1> QED BY <1>1, <1>2, <1>3

RecordsInv == IF s.unit = "profile" THEN ProfileInv ELSE LanguageInv

\* A profile that was written is read again as it was, one of an older version keeps all that its
\* record holds, and a record that lost a bit is refused (settings_encode, settings_decode); the number
\* of an app's language means the locale that it was last saved for and no other, also after a restart
\* (companion_language.cpp).
THEOREM RecordsKept == DeviceSpec => [](part = "records" => Records!RecordsRight)
  <1> DEFINE Inv == part = "records" => RecordsInv
  <1>1. DeviceInit => Inv
    <2> SUFFICES ASSUME DeviceInit, part = "records" PROVE RecordsInv
      OBVIOUS
    <2>1. Records!Init
      BY AlgorithmsBegin
    <2>2. s.unit \in {"profile", "language"}
      BY <2>1 DEF Records!Init, Records!ProfileInit, Records!LanguageInit
    <2> QED BY <2>1, <2>2, ProfileBegins, LanguageBegins DEF RecordsInv
  <1>2. Inv /\ [DeviceNext]_deviceVars => Inv'
    <2> SUFFICES ASSUME part = "records", RecordsInv, [Records!Next]_s PROVE RecordsInv'
      BY AlgorithmsAlone
    <2>1. CASE s.unit = "profile"
      <3>1. ProfileInv'
        BY <2>1, ProfileSteps DEF RecordsInv
      <3>2. s'.unit = "profile"
        BY <3>1 DEF ProfileInv
      <3> QED BY <3>1, <3>2 DEF RecordsInv
    <2>2. CASE s.unit # "profile"
      <3>1. LanguageInv'
        BY <2>2, LanguageSteps DEF RecordsInv
      <3>2. s'.unit = "language"
        BY <3>1 DEF LanguageInv
      <3> QED BY <3>1, <3>2 DEF RecordsInv
    <2> QED BY <2>1, <2>2
  <1>3. Inv => (part = "records" => Records!RecordsRight)
    <2>1. LanguageInv => s.unit = "language" /\ Records!LanguageKept
      BY DEF LanguageInv
    <2> QED BY <2>1, ProfileIsKept DEF RecordsInv, Records!RecordsRight
  <1> QED BY <1>1, <1>2, <1>3, PTL DEF DeviceSpec

-----------------------------------------------------------------------------
(* Inputs: the sounds of a card *)

\* The chunks of a file of sounds, and where each of them begins.
Sized(c) == Len(c) \in Nat /\ \A i \in 1 .. Len(c) : c[i].size \in Nat

\* What a chunk takes: its header, its bytes and its padding.
Extent(chunk) == 8 + chunk.size + (chunk.size % 2)

Follows(o, c) ==
  /\ o \in [1 .. Len(c) + 1 -> Int] /\ o[1] = 12
  /\ \A i \in 1 .. Len(c) : o[i + 1] = o[i] + Extent(c[i])

LEMMA ExtentOf ==
  ASSUME NEW chunk, chunk.size \in Nat
  PROVE  /\ Extent(chunk) \in Int /\ Extent(chunk) >= 8 + chunk.size
         /\ \A x \in Int : x + 8 + chunk.size + (chunk.size % 2) = x + Extent(chunk)
  <1> PICK n \in Nat : n = chunk.size
    OBVIOUS
  <1> QED BY DEF Extent

LEMMA OffsetsFollow ==
  ASSUME NEW c, Sized(c)
  PROVE  Follows(Inputs!Offsets(c), c)
  <1>0. PICK n \in Nat : n = Len(c)
    BY DEF Sized
  <1> DEFINE step == [i \in Nat |-> [z \in Int |-> IF i \in 1 .. n THEN z + Extent(c[i]) ELSE z]]
             Next1(x, i) == x + 8 + c[i].size + (c[i].size % 2)
             Is(f) == f = [i \in 1 .. n + 1 |-> IF i = 1 THEN 12 ELSE f[i - 1] + 8 + c[i - 1].size + (c[i - 1].size % 2)]
             f == CHOOSE h : Is(h)
  <1>1. \A i \in 1 .. n : c[i].size \in Nat
    BY <1>0 DEF Sized
  <1>2. \A i \in 1 .. n : Extent(c[i]) \in Int /\ Extent(c[i]) >= 8 + c[i].size
    BY <1>1, ExtentOf
  <1>20. ASSUME NEW i \in 1 .. n, NEW x \in Int PROVE Next1(x, i) = x + Extent(c[i])
    <2>1. c[i].size \in Nat
      BY <1>1
    <2> QED BY <2>1, ExtentOf
  <1>3. step \in [Nat -> [Int -> Int]]
    <2>1. \A i \in Nat, z \in Int : (IF i \in 1 .. n THEN z + Extent(c[i]) ELSE z) \in Int
      BY <1>2
    <2> QED BY <2>1
  <1>4. PICK g \in [0 .. n -> Int] : Goes(g, n, 12, step)
    <2>1. 12 \in Int
      OBVIOUS
    <2> HIDE DEF step
    <2>2. PICK T : T = Int
      OBVIOUS
    <2>3. 12 \in T /\ step \in [Nat -> [T -> T]]
      BY <2>1, <2>2, <1>3
    <2>4. \E g \in [0 .. n -> T] : Goes(g, n, 12, step)
      BY <2>3, Recursion
    <2> QED BY <2>2, <2>4
  <1>5. g[0] = 12 /\ \A i \in 1 .. n : g[i] = step[i][g[i - 1]]
    <2> HIDE DEF step
    <2> QED BY <1>4 DEF Goes
  <1>6. ASSUME NEW i \in 1 .. n PROVE g[i] = g[i - 1] + Extent(c[i])
    <2>1. i \in Nat /\ g[i - 1] \in Int
      BY <1>4
    <2>2. step[i][g[i - 1]] = g[i - 1] + Extent(c[i])
      BY <2>1
    <2> HIDE DEF step
    <2> QED BY <2>2, <1>5
  <1> HIDE DEF step
  <1> DEFINE h == [i \in 1 .. n + 1 |-> g[i - 1]]
  <1>7. h \in [1 .. n + 1 -> Int] /\ h[1] = 12 /\ \A i \in 1 .. n : h[i + 1] = h[i] + Extent(c[i])
    BY <1>4, <1>5, <1>6
  <1> HIDE DEF Next1
  <1>8. Is(h)
    <2>1. ASSUME NEW i \in 1 .. n + 1
          PROVE  h[i] = IF i = 1 THEN 12 ELSE Next1(h[i - 1], i - 1)
      <3>1. CASE i = 1
        BY <3>1, <1>7
      <3>2. CASE i # 1
        <4> HIDE DEF h
        <4>1. PICK j \in 1 .. n : i = j + 1
          BY <3>2
        <4>2. h[j + 1] = h[j] + Extent(c[j]) /\ h[j] \in Int
          BY <4>1, <1>7
        <4>3. Next1(h[j], j) = h[j] + Extent(c[j])
          BY <4>2, <1>20
        <4>4. i - 1 = j
          BY <4>1
        <4> QED BY <3>2, <4>1, <4>2, <4>3, <4>4
      <3> QED BY <3>1, <3>2
    <2> HIDE DEF h
    <2> QED BY <2>1, <1>7 DEF Next1
  <1> HIDE DEF h
  <1>9. Is(f)
    <2> HIDE DEF Is
    <2> QED BY <1>8
  <1>10. Inputs!Offsets(c) = f
    BY <1>0 DEF Inputs!Offsets
  <1> HIDE DEF f
  <1>11. f = [i \in 1 .. n + 1 |-> IF i = 1 THEN 12 ELSE Next1(f[i - 1], i - 1)]
    BY <1>9, Zenon DEF Next1
  <1>12. f[1] = 12 /\ DOMAIN f = 1 .. n + 1
    BY <1>11
  <1>13. ASSUME NEW i \in 1 .. n PROVE f[i + 1] = Next1(f[i], i)
    <2>1. i + 1 \in 1 .. n + 1 /\ i + 1 # 1 /\ (i + 1) - 1 = i
      OBVIOUS
    <2>2. f[i + 1] = Next1(f[(i + 1) - 1], (i + 1) - 1)
      BY <2>1, <1>11
    <2> QED BY <2>1, <2>2
  <1> DEFINE wrong == {k \in 1 .. n + 1 : f[k] \notin Int}
  <1>14. wrong = {}
    <2>1. SUFFICES ASSUME wrong # {} PROVE FALSE
      OBVIOUS
    <2>2. wrong \in SUBSET Nat
      OBVIOUS
    <2>3. PICK k \in wrong : \A m \in wrong : k <= m
      <3> HIDE DEF wrong
      <3> QED BY <2>1, <2>2, LeastOf
    <2>4. k \in 1 .. n + 1 /\ f[k] \notin Int /\ k # 1
      BY <2>3, <1>12
    <2>5. PICK j \in 1 .. n : k = j + 1
      BY <2>4
    <2>6. j \notin wrong
      <3> HIDE DEF wrong
      <3> QED BY <2>3, <2>5
    <2>7. f[j] \in Int
      BY <2>6
    <2>8. f[k] = f[j] + Extent(c[j])
      BY <2>5, <2>7, <1>13, <1>20
    <2> QED BY <2>4, <2>7, <2>8, <1>2
  <1>15. \A i \in 1 .. n + 1 : f[i] \in Int
    BY <1>14
  <1>16. \A i \in 1 .. n : f[i + 1] = f[i] + Extent(c[i])
    <2> TAKE i \in 1 .. n
    <2>1. f[i] \in Int
      BY <1>15
    <2> QED BY <2>1, <1>13, <1>20
  <1>17. f \in [1 .. n + 1 -> Int]
    BY <1>11, <1>12, <1>15
  <1> QED BY <1>0, <1>10, <1>12, <1>16, <1>17 DEF Follows

LEMMA OffsetsRise ==
  ASSUME NEW c, Sized(c), NEW o, Follows(o, c), NEW n \in Nat, n = Len(c), NEW a \in 1 .. n, NEW b \in a + 1 .. n + 1
  PROVE  o[b] >= o[a] + 8 + c[a].size /\ o[a] \in Int /\ o[b] \in Int
  <1> DEFINE low == o[a] + 8 + c[a].size
             extent(i) == Extent(c[i])
             wrong == {k \in a + 1 .. n + 1 : ~(o[k] >= low)}
  <1>1. /\ \A i \in 1 .. n : extent(i) \in Nat
        /\ \A i \in 1 .. n + 1 : o[i] \in Int
        /\ \A i \in 1 .. n : o[i + 1] = o[i] + extent(i)
        /\ low \in Int /\ o[a + 1] >= low
    <2>1. \A i \in 1 .. n : c[i].size \in Nat
      BY DEF Sized
    <2>2. \A i \in 1 .. n : Extent(c[i]) \in Int /\ Extent(c[i]) >= 8 + c[i].size
      BY <2>1, ExtentOf
    <2>3. /\ \A i \in 1 .. n + 1 : o[i] \in Int
          /\ \A i \in 1 .. n : o[i + 1] = o[i] + Extent(c[i])
      BY DEF Follows
    <2>4. o[a] \in Int /\ c[a].size \in Nat /\ o[a + 1] = o[a] + Extent(c[a]) /\ Extent(c[a]) \in Int
          /\ Extent(c[a]) >= 8 + c[a].size
      BY <2>1, <2>2, <2>3
    <2>5. low \in Int /\ o[a + 1] >= low
      BY <2>4
    <2>6. \A i \in 1 .. n : extent(i) \in Nat
      BY <2>1, <2>2
    <2> HIDE DEF low
    <2> QED BY <2>3, <2>5, <2>6
  <1> HIDE DEF low, extent
  <1>2. wrong = {}
    <2>1. SUFFICES ASSUME wrong # {} PROVE FALSE
      OBVIOUS
    <2>2. wrong \in SUBSET Nat
      OBVIOUS
    <2>3. PICK k \in wrong : \A m \in wrong : k <= m
      <3> HIDE DEF wrong
      <3> QED BY <2>1, <2>2, LeastOf
    <2>4. k \in a + 1 .. n + 1 /\ ~(o[k] >= low)
      BY <2>3
    <2>5. PICK j \in 1 .. n : k = j + 1 /\ a <= j
      BY <2>4
    <2>6. j # a
      BY <2>4, <2>5, <1>1
    <2>7. j \notin wrong
      <3> HIDE DEF wrong
      <3> QED BY <2>3, <2>5
    <2>8. o[j] >= low
      BY <2>5, <2>6, <2>7
    <2>9. o[k] = o[j] + extent(j) /\ extent(j) \in Nat /\ o[j] \in Int
      BY <2>5, <1>1
    <2> QED BY <2>4, <2>8, <2>9, <1>1
  <1>3. b \notin wrong
    <2> HIDE DEF wrong
    <2> QED BY <1>2
  <1>4. o[b] >= low
    BY <1>3
  <1>5. o[a] \in Int /\ o[b] \in Int
    BY <1>1
  <1> QED BY <1>4, <1>5 DEF low

\* wav_open's loop: where it begins, and a pass of it.
WavStart == [at |-> 12, channels |-> 0, offset |-> 0, bytes |-> 0, over |-> FALSE]

PlacesOf(file, at) == {i \in 1 .. Len(file.chunks) : Inputs!Offsets(file.chunks)[i] = at}

PastChunk(c, at) == at + 8 + c.size + (c.size % 2)

Refused(file, x, c) == PastChunk(c, x.at) > file.riff \/ (c.kind = "fmt" /\ (c.size < 16 \/ c.channels = 0))

ReadChunk(file, x, c) ==
  IF Refused(file, x, c) THEN [x EXCEPT !.over = TRUE]
  ELSE [x EXCEPT !.at = PastChunk(c, @),
                 !.channels = IF c.kind = "fmt" THEN c.channels ELSE @,
                 !.offset = IF c.kind = "data" THEN x.at + 8 ELSE @,
                 !.bytes = IF c.kind = "data" THEN c.size ELSE @]

WavStep(file, x) ==
  IF x.over \/ (x.channels # 0 /\ x.offset # 0) THEN x
  ELSE IF PlacesOf(file, x.at) = {} THEN [x EXCEPT !.over = TRUE]
  ELSE ReadChunk(file, x, file.chunks[CHOOSE k \in PlacesOf(file, x.at) : TRUE])

IsUpTo(f, n) == f = [i \in 0 .. n |-> f[i]]

Loops(f, file, n) == IsUpTo(f, n) /\ f[0] = WavStart /\ \A i \in 1 .. n : f[i] = WavStep(file, f[i - 1])

LEMMA LoopsExist ==
  ASSUME NEW file, NEW n \in Nat
  PROVE  \E f : Loops(f, file, n)
  <1> DEFINE without == {m \in Nat : ~\E f : Loops(f, file, m)}
  <1>1. SUFFICES ASSUME without # {} PROVE FALSE
    OBVIOUS
  <1>2. without \in SUBSET Nat
    OBVIOUS
  <1>3. PICK m \in without : \A k \in without : m <= k
    <2> HIDE DEF without
    <2> QED BY <1>1, <1>2, LeastOf
  <1>4. m \in Nat /\ ~\E f : Loops(f, file, m)
    BY <1>3
  <1>5. m # 0
    <2>1. Loops([i \in 0 .. 0 |-> WavStart], file, 0)
      BY DEF Loops, IsUpTo
    <2> QED BY <2>1, <1>4
  <1>6. m - 1 \in Nat /\ m - 1 \notin without
    <2> HIDE DEF without
    <2> QED BY <1>3, <1>4, <1>5
  <1>7. PICK f : Loops(f, file, m - 1)
    BY <1>6
  <1> DEFINE g == [i \in 0 .. m |-> IF i = m THEN WavStep(file, f[m - 1]) ELSE f[i]]
  <1>8. Loops(g, file, m)
    <2>1. IsUpTo(g, m) /\ g[0] = WavStart
      <3>1. g[0] = WavStart
        BY <1>4, <1>5, <1>7 DEF Loops
      <3>2. IsUpTo(g, m)
        BY DEF IsUpTo
      <3> QED BY <3>1, <3>2
    <2>2. ASSUME NEW i \in 1 .. m PROVE g[i] = WavStep(file, g[i - 1])
      <3>1. CASE i = m
        BY <3>1, <1>4, <1>5
      <3>2. CASE i # m
        BY <3>2, <1>4, <1>5, <1>7 DEF Loops
      <3> QED BY <3>1, <3>2
    <2> HIDE DEF g
    <2> QED BY <2>1, <2>2 DEF Loops
  <1> QED BY <1>4, <1>8

LEMMA FoundLoops ==
  ASSUME NEW file, NEW n \in Nat
  PROVE  \E f : Loops(f, file, n) /\ Inputs!Found(file, n) = f[n]
  <1> DEFINE At(offset) == {i \in 1 .. Len(file.chunks) : Inputs!Offsets(file.chunks)[i] = offset}
             After(c, offset) == offset + 8 + c.size + (c.size % 2)
             Reads(x, c) ==
               IF After(c, x.at) > file.riff \/ (c.kind = "fmt" /\ (c.size < 16 \/ c.channels = 0)) THEN [x EXCEPT !.over = TRUE]
               ELSE [x EXCEPT !.at = After(c, @),
                              !.channels = IF c.kind = "fmt" THEN c.channels ELSE @,
                              !.offset = IF c.kind = "data" THEN x.at + 8 ELSE @,
                              !.bytes = IF c.kind = "data" THEN c.size ELSE @]
             Step(x) == IF x.over \/ (x.channels # 0 /\ x.offset # 0) THEN x
                        ELSE IF At(x.at) = {} THEN [x EXCEPT !.over = TRUE]
                        ELSE Reads(x, file.chunks[CHOOSE k \in At(x.at) : TRUE])
             Is(f) == f = [i \in 0 .. n |-> IF i = 0 THEN WavStart ELSE WavStep(file, f[i - 1])]
             f == CHOOSE h : Is(h)
  <1>1. PICK g : Loops(g, file, n)
    BY LoopsExist
  <1>2. Is(g)
    <2>1. ASSUME NEW i \in 0 .. n PROVE g[i] = IF i = 0 THEN WavStart ELSE WavStep(file, g[i - 1])
      BY <1>1 DEF Loops
    <2>2. g = [i \in 0 .. n |-> g[i]]
      BY <1>1 DEF Loops, IsUpTo
    <2> QED BY <2>1, <2>2
  <1>3. Is(f)
    <2> HIDE DEF Is
    <2> QED BY <1>2
  <1>4. \A x : WavStep(file, x) = Step(x)
    BY Zenon DEF WavStep, ReadChunk, Refused, PastChunk, PlacesOf
  <1>5. Inputs!Found(file, n) = f[n]
    <2> DEFINE Other(f1) == f1 = [i \in 0 .. n |-> IF i = 0 THEN WavStart
                                    ELSE IF f1[i - 1].over \/ (f1[i - 1].channels # 0 /\ f1[i - 1].offset # 0) THEN f1[i - 1]
                                    ELSE IF At(f1[i - 1].at) = {} THEN [f1[i - 1] EXCEPT !.over = TRUE]
                                    ELSE Reads(f1[i - 1], file.chunks[CHOOSE k \in At(f1[i - 1].at) : TRUE])]
    <2>1. Inputs!Found(file, n) = (CHOOSE f1 : Other(f1))[n]
      BY Zenon DEF Inputs!Found, WavStart
    <2>2. \A h : Other(h) <=> Is(h)
      <3> SUFFICES ASSUME NEW h PROVE Other(h) <=> Is(h)
        OBVIOUS
      <3>1. Other(h) <=> h = [i \in 0 .. n |-> IF i = 0 THEN WavStart ELSE Step(h[i - 1])]
        BY Zenon
      <3> HIDE DEF Other, Step
      <3> QED BY <3>1, <1>4
    <2>3. (CHOOSE f1 : Other(f1)) = (CHOOSE f1 : Is(f1))
      <3> HIDE DEF Other, Is
      <3> QED BY <2>2
    <2> QED BY <2>1, <2>3
  <1> HIDE DEF f
  <1>6. Loops(f, file, n)
    <2>1. \A i \in 0 .. n : f[i] = IF i = 0 THEN WavStart ELSE WavStep(file, f[i - 1])
      BY <1>3
    <2>0. IsUpTo(f, n)
      BY <1>3, <2>1 DEF IsUpTo
    <2>2. f[0] = WavStart
      BY <2>1
    <2>3. ASSUME NEW i \in 1 .. n PROVE f[i] = WavStep(file, f[i - 1])
      BY <2>1
    <2> QED BY <2>0, <2>2, <2>3 DEF Loops
  <1> QED BY <1>5, <1>6

\* A file of sounds: its chunks have sizes and channels, and its header says where it ends.
IsFile(file, o, n) ==
  /\ n \in Nat /\ n = Len(file.chunks) /\ Sized(file.chunks) /\ Follows(o, file.chunks)
  /\ o = Inputs!Offsets(file.chunks)
  /\ \A i \in 1 .. n : file.chunks[i].channels \in Nat
  /\ file.riff \in Int /\ file.length \in Int

WavFields == {"at", "channels", "offset", "bytes", "over"}

\* What the loop knows of the chunks before k.
Knows(file, o, x, k) ==
  /\ x.at = o[k]
  /\ IF x.channels = 0 THEN \A i \in 1 .. k - 1 : file.chunks[i].kind # "fmt"
     ELSE \E i \in 1 .. k - 1 : /\ file.chunks[i].kind = "fmt" /\ file.chunks[i].channels = x.channels
  /\ IF x.offset = 0 THEN \A j \in 1 .. k - 1 : file.chunks[j].kind # "data"
     ELSE \E j \in 1 .. k - 1 : /\ file.chunks[j].kind = "data" /\ o[j] + 8 = x.offset
                                /\ file.chunks[j].size = x.bytes
  /\ k > 1 => o[k] <= file.riff

\* After m passes: all of the first m chunks, unless it has found what it looked for, or was refused.
Passed(file, o, n, m, x) ==
  /\ DOMAIN x = WavFields /\ x.over \in BOOLEAN
  /\ ~x.over => \E k \in 1 .. n + 1 : Knows(file, o, x, k) /\ (x.channels = 0 \/ x.offset = 0 => k = m + 1)

LEMMA PlaceOf ==
  ASSUME NEW file, NEW o, NEW n, IsFile(file, o, n), NEW k \in 1 .. n + 1
  PROVE  PlacesOf(file, o[k]) = IF k <= n THEN {k} ELSE {}
  <1>1. n \in Nat /\ n = Len(file.chunks) /\ Sized(file.chunks) /\ Follows(o, file.chunks)
    BY DEF IsFile
  <1>2. ASSUME NEW a \in 1 .. n, NEW b \in a + 1 .. n + 1 PROVE o[a] # o[b]
    <2>1. o[b] >= o[a] + 8 + file.chunks[a].size /\ o[a] \in Int /\ o[b] \in Int
      BY <1>1, OffsetsRise
    <2>2. file.chunks[a].size \in Nat
      BY <1>1 DEF Sized
    <2> QED BY <2>1, <2>2
  <1>3. ASSUME NEW i \in 1 .. n PROVE o[i] = o[k] <=> i = k
    <2>1. CASE i < k
      BY <2>1, <1>1, <1>2
    <2>2. CASE i > k
      <3>1. k \in 1 .. n /\ i \in k + 1 .. n + 1
        BY <2>2, <1>1
      <3> QED BY <3>1, <2>2, <1>2
    <2> QED BY <2>1, <2>2, <1>1
  <1>4. \A i : i \in PlacesOf(file, o[k]) <=> i \in 1 .. n /\ o[i] = o[k]
    BY DEF PlacesOf, IsFile
  <1> DEFINE P == PlacesOf(file, o[k])
  <1>5. \A i : i \in P <=> i \in 1 .. n /\ i = k
    BY <1>3, <1>4
  <1> HIDE DEF P
  <1>6. CASE k <= n
    <2>1. k \in 1 .. n
      BY <1>1, <1>6
    <2>2. \A i : i \in P <=> i = k
      BY <2>1, <1>5
    <2>3. P = {k}
      BY <2>2
    <2> QED BY <2>3, <1>6 DEF P
  <1>7. CASE ~(k <= n)
    <2>1. k \notin 1 .. n
      BY <1>1, <1>7
    <2>2. \A i : i \notin P
      BY <2>1, <1>5
    <2>3. P = {}
      BY <2>2
    <2> QED BY <2>3, <1>7 DEF P
  <1> QED BY <1>6, <1>7

\* The pass that looks at chunk k.
Refuses(file, o, k) ==
  LET c == file.chunks[k] IN o[k + 1] > file.riff \/ (c.kind = "fmt" /\ (c.size < 16 \/ c.channels = 0))

Makes(file, o, k, x, y) ==
  LET c == file.chunks[k] IN
  /\ DOMAIN y = WavFields /\ y.over \in BOOLEAN
  /\ y.over <=> Refuses(file, o, k)
  /\ ~y.over => /\ y.at = o[k + 1]
                /\ y.channels = IF c.kind = "fmt" THEN c.channels ELSE x.channels
                /\ y.offset = IF c.kind = "data" THEN o[k] + 8 ELSE x.offset
                /\ y.bytes = IF c.kind = "data" THEN c.size ELSE x.bytes

LEMMA PassOf ==
  ASSUME NEW file, NEW o, NEW n, IsFile(file, o, n), NEW k \in 1 .. n, NEW x,
         DOMAIN x = WavFields, x.over = FALSE, x.at = o[k], x.channels = 0 \/ x.offset = 0
  PROVE  Makes(file, o, k, x, WavStep(file, x))
  <1> DEFINE c == file.chunks[k]
             y == WavStep(file, x)
  <1>1. n \in Nat /\ n = Len(file.chunks) /\ Sized(file.chunks) /\ Follows(o, file.chunks)
    BY DEF IsFile
  <1>2. PlacesOf(file, x.at) = {k}
    <2>1. k \in 1 .. n + 1 /\ k <= n
      BY <1>1
    <2>2. PlacesOf(file, o[k]) = IF k <= n THEN {k} ELSE {}
      BY <2>1, PlaceOf
    <2>3. PlacesOf(file, o[k]) = {k}
      BY <2>1, <2>2
    <2> QED BY <2>3
  <1>3. y = ReadChunk(file, x, c)
    <2>1. (CHOOSE i \in {k} : TRUE) = k
      OBVIOUS
    <2>2. ~(x.over \/ (x.channels # 0 /\ x.offset # 0))
      OBVIOUS
    <2> QED BY <1>2, <2>1, <2>2 DEF WavStep
  <1>4. PastChunk(c, x.at) = o[k + 1]
    <2>1. c.size \in Nat /\ o[k] \in Int /\ o[k + 1] = o[k] + Extent(c)
      BY <1>1 DEF Sized, Follows
    <2>2. o[k] + 8 + c.size + (c.size % 2) = o[k] + Extent(c)
      BY <2>1, ExtentOf
    <2> QED BY <2>1, <2>2 DEF PastChunk
  <1> DEFINE refused == PastChunk(c, x.at) > file.riff \/ (c.kind = "fmt" /\ (c.size < 16 \/ c.channels = 0))
  <1>5. CASE refused
    <2>1. y = [x EXCEPT !.over = TRUE]
      BY <1>3, <1>5 DEF ReadChunk, Refused
    <2> HIDE DEF y, c
    <2>2. DOMAIN y = WavFields /\ y.over = TRUE
      BY <2>1 DEF WavFields
    <2>3. Refuses(file, o, k)
      BY <1>4, <1>5 DEF Refuses, c
    <2>4. y.over \in BOOLEAN /\ (y.over <=> Refuses(file, o, k))
      BY <2>2, <2>3
    <2>5. y.over
      BY <2>2
    <2>6. Makes(file, o, k, x, y)
      BY <2>2, <2>4, <2>5 DEF Makes
    <2> QED BY <2>6 DEF y
  <1>6. CASE ~refused
    <2> DEFINE channels == IF c.kind = "fmt" THEN c.channels ELSE x.channels
               offset == IF c.kind = "data" THEN x.at + 8 ELSE x.offset
               bytes == IF c.kind = "data" THEN c.size ELSE x.bytes
    <2>1. y = [x EXCEPT !.at = PastChunk(c, x.at), !.channels = channels, !.offset = offset, !.bytes = bytes]
      BY <1>3, <1>6 DEF ReadChunk, Refused
    <2> HIDE DEF y, c, channels, offset, bytes
    <2>2. /\ DOMAIN y = WavFields /\ y.over = FALSE /\ y.at = PastChunk(c, x.at) /\ y.channels = channels /\ y.offset = offset
          /\ y.bytes = bytes
      BY <2>1 DEF WavFields
    <2>3. ~Refuses(file, o, k)
      BY <1>4, <1>6 DEF Refuses, c
    <2>4. y.over \in BOOLEAN /\ (y.over <=> Refuses(file, o, k))
      BY <2>2, <2>3
    <2>5. /\ y.at = o[k + 1]
          /\ y.channels = IF c.kind = "fmt" THEN c.channels ELSE x.channels
          /\ y.offset = IF c.kind = "data" THEN o[k] + 8 ELSE x.offset
          /\ y.bytes = IF c.kind = "data" THEN c.size ELSE x.bytes
      BY <2>2, <1>4 DEF channels, offset, bytes
    <2>6. Makes(file, o, k, x, y)
      <3>1. DOMAIN y = WavFields
        BY <2>2
      <3> HIDE DEF channels, offset, bytes
      <3> QED BY <3>1, <2>4, <2>5 DEF Makes, c
    <2> QED BY <2>6 DEF y
  <1> QED BY <1>5, <1>6

LEMMA KnowsNext ==
  ASSUME NEW file, NEW o, NEW n, IsFile(file, o, n), NEW k \in 1 .. n, NEW x, Knows(file, o, x, k),
         DOMAIN x = WavFields, x.over = FALSE, x.channels = 0 \/ x.offset = 0, WavStep(file, x).over = FALSE
  PROVE  Knows(file, o, WavStep(file, x), k + 1)
  <1> DEFINE c == file.chunks[k]
             y == WavStep(file, x)
  <1>1. x.at = o[k]
    BY DEF Knows
  <1>2. Makes(file, o, k, x, y)
    BY <1>1, PassOf
  <1>3. n \in Nat /\ o[k] \in Int /\ o[k + 1] \in Int /\ file.riff \in Int /\ o[k] >= 12
    <2>1. n \in Nat /\ n = Len(file.chunks) /\ Sized(file.chunks) /\ Follows(o, file.chunks)
      BY DEF IsFile
    <2>2. o[1] = 12 /\ \A i \in 1 .. n + 1 : o[i] \in Int
      BY <2>1 DEF Follows
    <2>3. file.riff \in Int
      BY DEF IsFile
    <2>4. k # 1 => o[k] >= o[1] + 8 + file.chunks[1].size
      <3>1. 1 \in 1 .. n /\ (k # 1 => k \in 1 + 1 .. n + 1)
        BY <2>1
      <3>2. PICK a \in 1 .. n : a = 1
        BY <3>1
      <3>3. k # 1 => k \in a + 1 .. n + 1
        BY <3>1, <3>2
      <3>4. k # 1 => o[k] >= o[a] + 8 + file.chunks[a].size
        BY <2>1, <3>3, OffsetsRise
      <3> QED BY <3>2, <3>4
    <2>5. file.chunks[1].size \in Nat
      BY <2>1 DEF Sized
    <2>6. o[k] \in Int /\ o[k + 1] \in Int
      BY <2>1, <2>2
    <2>7. k # 1 => o[k] >= 12
      BY <2>2, <2>4, <2>5, <2>6
    <2>8. k = 1 => o[k] >= 12
      BY <2>2
    <2> QED BY <2>1, <2>3, <2>6, <2>7, <2>8
  <1>4. /\ y.at = o[k + 1] /\ o[k + 1] <= file.riff
        /\ y.channels = IF c.kind = "fmt" THEN c.channels ELSE x.channels
        /\ y.offset = IF c.kind = "data" THEN o[k] + 8 ELSE x.offset
        /\ y.bytes = IF c.kind = "data" THEN c.size ELSE x.bytes
        /\ c.kind = "fmt" => c.channels # 0
    <2>1. ~y.over
      OBVIOUS
    <2> HIDE DEF y
    <2>2. ~Refuses(file, o, k)
      BY <1>2, <2>1 DEF Makes
    <2>3. o[k + 1] <= file.riff /\ (c.kind = "fmt" => c.channels # 0)
      BY <2>2, <1>3 DEF Refuses
    <2>4. /\ y.at = o[k + 1]
          /\ y.channels = IF c.kind = "fmt" THEN c.channels ELSE x.channels
          /\ y.offset = IF c.kind = "data" THEN o[k] + 8 ELSE x.offset
          /\ y.bytes = IF c.kind = "data" THEN c.size ELSE x.bytes
      BY <1>2, <2>1 DEF Makes
    <2> QED BY <2>3, <2>4
  <1> HIDE DEF y
  <1>5. IF x.channels = 0 THEN \A i \in 1 .. k - 1 : file.chunks[i].kind # "fmt"
        ELSE \E i \in 1 .. k - 1 : file.chunks[i].kind = "fmt" /\ file.chunks[i].channels = x.channels
    BY DEF Knows
  <1>6. IF x.offset = 0 THEN \A j \in 1 .. k - 1 : file.chunks[j].kind # "data"
        ELSE \E j \in 1 .. k - 1 : /\ file.chunks[j].kind = "data" /\ o[j] + 8 = x.offset
                                   /\ file.chunks[j].size = x.bytes
    BY DEF Knows
  <1>7. \A i : i \in 1 .. (k + 1) - 1 <=> i \in 1 .. k - 1 \/ i = k
    BY <1>3
  <1>8. IF y.channels = 0 THEN \A i \in 1 .. (k + 1) - 1 : file.chunks[i].kind # "fmt"
        ELSE \E i \in 1 .. (k + 1) - 1 : file.chunks[i].kind = "fmt" /\ file.chunks[i].channels = y.channels
    <2>1. CASE c.kind = "fmt"
      <3>1. y.channels = c.channels /\ y.channels # 0 /\ k \in 1 .. (k + 1) - 1
        BY <2>1, <1>4, <1>7
      <3> QED BY <3>1, <2>1
    <2>2. CASE c.kind # "fmt"
      BY <2>2, <1>4, <1>5, <1>7
    <2> QED BY <2>1, <2>2
  <1>9. IF y.offset = 0 THEN \A j \in 1 .. (k + 1) - 1 : file.chunks[j].kind # "data"
        ELSE \E j \in 1 .. (k + 1) - 1 : /\ file.chunks[j].kind = "data" /\ o[j] + 8 = y.offset
                                         /\ file.chunks[j].size = y.bytes
    <2>1. CASE c.kind = "data"
      <3>1. y.offset = o[k] + 8 /\ y.offset # 0 /\ y.bytes = c.size /\ k \in 1 .. (k + 1) - 1
        BY <2>1, <1>3, <1>4, <1>7
      <3> QED BY <3>1, <2>1
    <2>2. CASE c.kind # "data"
      BY <2>2, <1>4, <1>6, <1>7
    <2> QED BY <2>1, <2>2
  <1> HIDE DEF c
  <1>10. Knows(file, o, y, k + 1)
    BY <1>4, <1>8, <1>9 DEF Knows
  <1> QED BY <1>10 DEF y

LEMMA PassedNext ==
  ASSUME NEW file, NEW o, NEW n, IsFile(file, o, n), NEW m \in Nat, NEW x, Passed(file, o, n, m, x)
  PROVE  Passed(file, o, n, m + 1, WavStep(file, x))
  <1> DEFINE y == WavStep(file, x)
  <1>1. DOMAIN x = WavFields /\ x.over \in BOOLEAN /\ n \in Nat
    BY DEF Passed, IsFile
  <1>2. CASE x.over \/ (x.channels # 0 /\ x.offset # 0)
    <2>1. y = x
      BY <1>2 DEF WavStep
    <2> HIDE DEF y
    <2> QED BY <1>2, <2>1 DEF Passed, y
  <1>3. CASE ~x.over /\ (x.channels = 0 \/ x.offset = 0)
    <2>1. PICK k \in 1 .. n + 1 : Knows(file, o, x, k) /\ k = m + 1
      BY <1>3 DEF Passed
    <2>2. CASE k <= n
      <3>1. k \in 1 .. n /\ x.at = o[k] /\ x.over = FALSE
        BY <2>1, <2>2, <1>1, <1>3 DEF Knows
      <3>2. Makes(file, o, k, x, y)
        BY <3>1, <1>1, <1>3, PassOf
      <3>3. DOMAIN y = WavFields /\ y.over \in BOOLEAN
        BY <3>2 DEF Makes
      <3>4. ASSUME ~y.over PROVE Knows(file, o, y, k + 1)
        <4>1. WavStep(file, x).over = FALSE
          BY <3>3, <3>4
        <4> QED BY <4>1, <3>1, <2>1, <1>1, <1>3, KnowsNext
      <3> HIDE DEF y
      <3>5. k + 1 \in 1 .. n + 1 /\ k + 1 = (m + 1) + 1
        BY <2>1, <3>1, <1>1
      <3>6. Passed(file, o, n, m + 1, y)
        <4>1. DOMAIN y = WavFields
          BY <3>3
        <4>2. ~y.over => \E j \in 1 .. n + 1 : Knows(file, o, y, j) /\ (y.channels = 0 \/ y.offset = 0 => j = (m + 1) + 1)
          BY <3>4, <3>5
        <4> QED BY <4>1, <4>2, <3>3 DEF Passed
      <3> QED BY <3>6 DEF y
    <2>3. CASE ~(k <= n)
      <3>1. PlacesOf(file, x.at) = {}
        <4>1. PlacesOf(file, o[k]) = IF k <= n THEN {k} ELSE {}
          BY PlaceOf
        <4>2. x.at = o[k]
          BY <2>1 DEF Knows
        <4> QED BY <4>1, <4>2, <2>3
      <3>2. y = [x EXCEPT !.over = TRUE]
        BY <3>1, <1>3 DEF WavStep
      <3> HIDE DEF y
      <3>3. DOMAIN y = WavFields /\ y.over = TRUE
        BY <3>2, <1>1 DEF WavFields
      <3> QED BY <3>3 DEF Passed, y
    <2> QED BY <2>2, <2>3
  <1> QED BY <1>1, <1>2, <1>3

LEMMA FoundPassed ==
  ASSUME NEW file, NEW o, NEW n, IsFile(file, o, n), NEW M \in Nat, NEW f, Loops(f, file, M), NEW m \in 0 .. M
  PROVE  Passed(file, o, n, m, f[m])
  <1> DEFINE wrong == {i \in 0 .. M : ~Passed(file, o, n, i, f[i])}
  <1>1. SUFFICES ASSUME wrong # {} PROVE FALSE
    OBVIOUS
  <1>2. wrong \in SUBSET Nat
    OBVIOUS
  <1>3. PICK i \in wrong : \A j \in wrong : i <= j
    <2> HIDE DEF wrong
    <2> QED BY <1>1, <1>2, LeastOf
  <1>4. i \in 0 .. M /\ ~Passed(file, o, n, i, f[i])
    BY <1>3
  <1>5. i # 0
    <2>1. f[0] = WavStart
      BY DEF Loops
    <2>2. o[1] = 12 /\ n \in Nat
      BY DEF IsFile, Follows
    <2>3. 1 \in 1 .. n + 1 /\ Knows(file, o, WavStart, 1)
      BY <2>2 DEF Knows, WavStart
    <2>4. Passed(file, o, n, 0, WavStart)
      BY <2>3 DEF Passed, WavStart, WavFields
    <2> QED BY <2>1, <2>4, <1>4
  <1>6. PICK j \in 0 .. M : i = j + 1
    BY <1>4, <1>5
  <1>7. j \notin wrong
    <2> HIDE DEF wrong
    <2> QED BY <1>3, <1>6
  <1>8. Passed(file, o, n, j, f[j])
    BY <1>7
  <1>9. f[i] = WavStep(file, f[j])
    <2>1. i \in 1 .. M /\ i - 1 = j
      BY <1>4, <1>6
    <2> QED BY <2>1 DEF Loops
  <1>10. Passed(file, o, n, j + 1, WavStep(file, f[j]))
    BY <1>6, <1>8, PassedNext
  <1> QED BY <1>4, <1>6, <1>9, <1>10

\* A file of one format and one sound, both of which can be played.
OneSound(file, o, n, i, j) ==
  /\ i \in 1 .. n /\ j \in 1 .. n
  /\ \A k \in 1 .. n : (file.chunks[k].kind = "fmt" <=> k = i) /\ (file.chunks[k].kind = "data" <=> k = j)
  /\ file.chunks[i].size >= 16 /\ file.chunks[i].channels # 0
  /\ o[n + 1] <= file.riff

LEMMA NotRefused ==
  ASSUME NEW file, NEW o, NEW n, IsFile(file, o, n), NEW i, NEW j, OneSound(file, o, n, i, j), NEW k \in 1 .. n
  PROVE  ~Refuses(file, o, k)
  <1> DEFINE c == file.chunks[k]
  <1>1. n \in Nat /\ n = Len(file.chunks) /\ Sized(file.chunks) /\ Follows(o, file.chunks) /\ file.riff \in Int
    BY DEF IsFile
  <1>2. \A a \in 1 .. n + 1 : o[a] \in Int
    BY <1>1 DEF Follows
  <1>3. o[k + 1] <= o[n + 1] /\ o[k + 1] \in Int /\ o[n + 1] \in Int
    <2>1. CASE k = n
      BY <2>1, <1>1, <1>2
    <2>2. CASE k # n
      <3>1. PICK a \in 1 .. n : a = k + 1
        BY <2>2, <1>1
      <3>2. n + 1 \in a + 1 .. n + 1
        BY <1>1
      <3>3. PICK b \in a + 1 .. n + 1 : b = n + 1
        BY <3>2
      <3>4. o[b] >= o[a] + 8 + file.chunks[a].size
        BY <1>1, OffsetsRise
      <3>5. file.chunks[a].size \in Nat /\ o[a] \in Int /\ o[b] \in Int
        BY <1>1, <1>2, <3>3 DEF Sized
      <3> QED BY <3>1, <3>3, <3>4, <3>5
    <2> QED BY <2>1, <2>2
  <1>4. o[k + 1] <= file.riff
    BY <1>1, <1>3 DEF OneSound
  <1>5. c.kind = "fmt" => ~(c.size < 16) /\ c.channels # 0
    <2>1. c.kind = "fmt" => k = i
      BY DEF OneSound
    <2>2. c.size \in Nat
      BY <1>1 DEF Sized
    <2> QED BY <2>1, <2>2 DEF OneSound
  <1> QED BY <1>1, <1>3, <1>4, <1>5 DEF Refuses

LEMMA NeverOver ==
  ASSUME NEW file, NEW o, NEW n, IsFile(file, o, n), NEW M \in Nat, NEW f, Loops(f, file, M),
         NEW i, NEW j, OneSound(file, o, n, i, j), NEW m \in 0 .. M
  PROVE  ~f[m].over
  <1> DEFINE wrong == {k \in 0 .. M : f[k].over}
  <1>1. SUFFICES ASSUME wrong # {} PROVE FALSE
    OBVIOUS
  <1>2. wrong \in SUBSET Nat
    OBVIOUS
  <1>3. PICK k \in wrong : \A a \in wrong : k <= a
    <2> HIDE DEF wrong
    <2> QED BY <1>1, <1>2, LeastOf
  <1>4. k \in 0 .. M /\ f[k].over
    BY <1>3
  <1>5. k # 0
    <2>1. f[0] = WavStart
      BY DEF Loops
    <2> QED BY <2>1, <1>4 DEF WavStart
  <1>6. PICK a \in 0 .. M : k = a + 1
    BY <1>4, <1>5
  <1>7. a \notin wrong
    <2> HIDE DEF wrong
    <2> QED BY <1>3, <1>6
  <1> DEFINE x == f[a]
             y == WavStep(file, x)
  <1>8. ~x.over /\ Passed(file, o, n, a, x)
    BY <1>7, FoundPassed
  <1>9. y.over
    <2>1. k \in 1 .. M /\ k - 1 = a
      BY <1>4, <1>6
    <2>2. f[k] = WavStep(file, f[a])
      BY <2>1 DEF Loops
    <2> QED BY <2>2, <1>4
  <1> HIDE DEF x
  <1>10. CASE x.channels # 0 /\ x.offset # 0
    <2>1. y = x
      BY <1>10 DEF WavStep
    <2> QED BY <2>1, <1>8, <1>9
  <1>11. CASE x.channels = 0 \/ x.offset = 0
    <2>1. PICK b \in 1 .. n + 1 : Knows(file, o, x, b) /\ b = a + 1
      BY <1>8, <1>11 DEF Passed
    <2>2. DOMAIN x = WavFields /\ x.over = FALSE /\ x.at = o[b] /\ n \in Nat
      BY <1>8, <2>1 DEF Passed, Knows, IsFile
    <2>3. b \in 1 .. n
      <3>1. CASE x.channels = 0
        <4>1. \A c \in 1 .. b - 1 : file.chunks[c].kind # "fmt"
          BY <2>1, <3>1 DEF Knows
        <4>2. i \in 1 .. n /\ file.chunks[i].kind = "fmt"
          BY DEF OneSound
        <4>3. ~(i \in 1 .. b - 1)
          BY <4>1, <4>2
        <4> QED BY <4>2, <4>3, <2>2
      <3>2. CASE x.offset = 0
        <4>1. \A c \in 1 .. b - 1 : file.chunks[c].kind # "data"
          BY <2>1, <3>2 DEF Knows
        <4>2. j \in 1 .. n /\ file.chunks[j].kind = "data"
          BY DEF OneSound
        <4>3. ~(j \in 1 .. b - 1)
          BY <4>1, <4>2
        <4> QED BY <4>2, <4>3, <2>2
      <3> QED BY <3>1, <3>2, <1>11
    <2>4. Makes(file, o, b, x, y)
      BY <2>2, <2>3, <1>11, PassOf
    <2>5. ~Refuses(file, o, b)
      BY <2>3, NotRefused
    <2> HIDE DEF y
    <2> QED BY <2>4, <2>5, <1>9 DEF Makes
  <1> QED BY <1>10, <1>11

\* What the loop has found of such a file.
LEMMA FoundOne ==
  ASSUME NEW file, NEW o, NEW n, IsFile(file, o, n), NEW M \in Nat, NEW i \in 1 .. M, NEW j \in 1 .. M,
         OneSound(file, o, n, i, j)
  PROVE  LET x == Inputs!Found(file, M)
         IN /\ ~x.over /\ x.channels # 0 /\ x.channels = file.chunks[i].channels
            /\ x.offset # 0 /\ x.bytes = file.chunks[j].size
  <1>1. PICK f : Loops(f, file, M) /\ Inputs!Found(file, M) = f[M]
    BY FoundLoops
  <1> DEFINE x == f[M]
  <1>2. ~x.over /\ Passed(file, o, n, M, x)
    BY <1>1, NeverOver, FoundPassed
  <1> HIDE DEF x
  <1>3. PICK k \in 1 .. n + 1 : Knows(file, o, x, k) /\ (x.channels = 0 \/ x.offset = 0 => k = M + 1)
    BY <1>2 DEF Passed
  <1>4. /\ i \in 1 .. n /\ file.chunks[i].kind = "fmt" /\ j \in 1 .. n /\ file.chunks[j].kind = "data"
        /\ \A a \in 1 .. n : (file.chunks[a].kind = "fmt" => a = i) /\ (file.chunks[a].kind = "data" => a = j)
        /\ n \in Nat
    BY DEF OneSound, IsFile
  <1>5. x.channels # 0
    <2>1. SUFFICES ASSUME x.channels = 0 PROVE FALSE
      OBVIOUS
    <2>2. \A c \in 1 .. k - 1 : file.chunks[c].kind # "fmt"
      BY <1>3, <2>1 DEF Knows
    <2>3. k = M + 1
      BY <1>3, <2>1
    <2> QED BY <2>2, <2>3, <1>4
  <1>6. x.offset # 0
    <2>1. SUFFICES ASSUME x.offset = 0 PROVE FALSE
      OBVIOUS
    <2>2. \A c \in 1 .. k - 1 : file.chunks[c].kind # "data"
      BY <1>3, <2>1 DEF Knows
    <2>3. k = M + 1
      BY <1>3, <2>1
    <2> QED BY <2>2, <2>3, <1>4
  <1>7. x.channels = file.chunks[i].channels
    <2>1. PICK a \in 1 .. k - 1 : file.chunks[a].kind = "fmt" /\ file.chunks[a].channels = x.channels
      BY <1>3, <1>5 DEF Knows
    <2> QED BY <2>1, <1>4
  <1>8. x.bytes = file.chunks[j].size
    <2>1. PICK a \in 1 .. k - 1 : file.chunks[a].kind = "data" /\ file.chunks[a].size = x.bytes
      BY <1>3, <1>6 DEF Knows
    <2> QED BY <2>1, <1>4
  <1>9. Inputs!Found(file, M) = x
    BY <1>1 DEF x
  <1> QED BY <1>2, <1>5, <1>6, <1>7, <1>8, <1>9

\* What it says is found is there.
LEMMA FoundLies ==
  ASSUME NEW file, NEW o, NEW n, IsFile(file, o, n), NEW M \in Nat
  PROVE  LET x == Inputs!Found(file, M)
         IN ~x.over /\ x.channels # 0 /\ x.offset # 0 =>
              /\ \E i \in 1 .. n : file.chunks[i].kind = "fmt" /\ file.chunks[i].channels = x.channels
              /\ \E j \in 1 .. n : /\ file.chunks[j].kind = "data" /\ o[j] + 8 = x.offset
                                   /\ file.chunks[j].size = x.bytes /\ x.offset + x.bytes <= file.riff
  <1>1. PICK f : Loops(f, file, M) /\ Inputs!Found(file, M) = f[M]
    BY FoundLoops
  <1> DEFINE x == f[M]
  <1>2. Passed(file, o, n, M, x)
    BY <1>1, FoundPassed
  <1> HIDE DEF x
  <1> SUFFICES ASSUME ~x.over, x.channels # 0, x.offset # 0
               PROVE  /\ \E i \in 1 .. n : file.chunks[i].kind = "fmt" /\ file.chunks[i].channels = x.channels
                      /\ \E j \in 1 .. n : /\ file.chunks[j].kind = "data" /\ o[j] + 8 = x.offset
                                           /\ file.chunks[j].size = x.bytes /\ x.offset + x.bytes <= file.riff
    BY <1>1 DEF x
  <1>3. PICK k \in 1 .. n + 1 : Knows(file, o, x, k)
    BY <1>2 DEF Passed
  <1>4. n \in Nat /\ n = Len(file.chunks) /\ Sized(file.chunks) /\ Follows(o, file.chunks) /\ file.riff \in Int
    BY DEF IsFile
  <1>5. PICK i \in 1 .. k - 1 : file.chunks[i].kind = "fmt" /\ file.chunks[i].channels = x.channels
    BY <1>3 DEF Knows
  <1>6. PICK j \in 1 .. k - 1 : file.chunks[j].kind = "data" /\ o[j] + 8 = x.offset /\ file.chunks[j].size = x.bytes
    BY <1>3 DEF Knows
  <1>7. i \in 1 .. n /\ j \in 1 .. n /\ k \in j + 1 .. n + 1 /\ k > 1
    BY <1>4, <1>5, <1>6
  <1>8. o[k] >= o[j] + 8 + file.chunks[j].size /\ o[j] \in Int /\ o[k] \in Int
    BY <1>4, <1>7, OffsetsRise
  <1>9. o[k] <= file.riff
    BY <1>3, <1>7 DEF Knows
  <1>10. file.chunks[j].size \in Nat
    BY <1>4, <1>7 DEF Sized
  <1>11. x.offset + x.bytes <= file.riff
    BY <1>4, <1>6, <1>8, <1>9, <1>10
  <1> QED BY <1>5, <1>6, <1>7, <1>11

\* wav_open is right about every file.
LEMMA WavIsRight ==
  ASSUME NEW o, NEW n, IsFile(s.of, o, n), s.answer[1] = Inputs!WavOpen(s.of), CardChunks \in Nat, CardLimit \in Nat
  PROVE  Inputs!WavRight
  <1> DEFINE file == s.of
             x == Inputs!Found(file, CardChunks)
             whole == x.bytes > 0 /\ x.bytes % (2 * x.channels) = 0 /\ x.bytes <= CardLimit * x.channels
             opened == file.riff <= file.length /\ ~x.over /\ x.channels # 0 /\ x.offset # 0 /\ whole
             sound == [offset |-> x.offset, bytes |-> x.bytes, channels |-> x.channels]
             answer == s.answer[1]
  <1>1. answer = IF opened THEN sound ELSE Inputs!None
    BY Zenon DEF Inputs!WavOpen
  <1>2. sound # Inputs!None
    BY DEF Inputs!None
  <1>3. n \in Nat /\ n = Len(file.chunks) /\ Sized(file.chunks) /\ Follows(o, file.chunks) /\ o = Inputs!Offsets(file.chunks)
        /\ file.riff \in Int /\ file.length \in Int
    BY DEF IsFile
  <1>4. \A k \in 1 .. n : file.chunks[k].size \in Nat /\ file.chunks[k].channels \in Nat /\ o[k] \in Int
    <2>1. \A k \in 1 .. n : file.chunks[k].size \in Nat
      BY <1>3 DEF Sized
    <2>2. \A k \in 1 .. n : file.chunks[k].channels \in Nat
      BY DEF IsFile
    <2>3. \A k \in 1 .. n + 1 : o[k] \in Int
      BY <1>3 DEF Follows
    <2> QED BY <1>3, <2>1, <2>2, <2>3
  <1>5. \A kind : \A i : i \in Inputs!SoundChunks(kind) <=> i \in 1 .. n /\ file.chunks[i].kind = kind
    BY <1>3 DEF Inputs!SoundChunks
  <1>6. ASSUME answer # Inputs!None
        PROVE  /\ answer.offset + answer.bytes <= file.length /\ answer.offset + answer.bytes <= file.riff
               /\ \E i \in Inputs!SoundChunks("fmt") : file.chunks[i].channels = answer.channels
               /\ \E j \in Inputs!SoundChunks("data") :
                    /\ Inputs!Offsets(file.chunks)[j] + 8 = answer.offset /\ file.chunks[j].size = answer.bytes
                    /\ Inputs!Playable(j, answer.channels)
    <2>1. opened /\ answer = sound
      BY <1>1, <1>6
    <2>2. answer.offset = x.offset /\ answer.bytes = x.bytes /\ answer.channels = x.channels
      BY <2>1
    <2>3. /\ \E i \in 1 .. n : file.chunks[i].kind = "fmt" /\ file.chunks[i].channels = x.channels
          /\ \E j \in 1 .. n : /\ file.chunks[j].kind = "data" /\ o[j] + 8 = x.offset
                               /\ file.chunks[j].size = x.bytes /\ x.offset + x.bytes <= file.riff
      BY <2>1, FoundLies
    <2> HIDE DEF x, answer
    <2>4. PICK i \in 1 .. n : file.chunks[i].kind = "fmt" /\ file.chunks[i].channels = x.channels
      BY <2>3
    <2>5. PICK j \in 1 .. n : /\ file.chunks[j].kind = "data" /\ o[j] + 8 = x.offset
                              /\ file.chunks[j].size = x.bytes /\ x.offset + x.bytes <= file.riff
      BY <2>3
    <2>6. x.offset + x.bytes <= file.length
      BY <2>1, <2>5, <1>3, <1>4
    <2>7. Inputs!Playable(j, x.channels)
      <3>1. PICK limit \in Int : limit = CardLimit * x.channels
        BY <2>4, <1>4
      <3>2. x.bytes \in Nat /\ x.bytes > 0 /\ x.bytes <= limit /\ x.bytes % (2 * x.channels) = 0
        BY <2>1, <2>5, <1>4, <3>1
      <3>3. x.bytes \in 1 .. limit
        BY <3>1, <3>2
      <3> QED BY <2>5, <3>1, <3>2, <3>3 DEF Inputs!Playable
    <2> QED BY <2>2, <2>4, <2>5, <2>6, <2>7, <1>3, <1>5
  <1>7. ASSUME NEW i \in 1 .. Len(file.chunks), NEW j \in 1 .. Len(file.chunks), Inputs!Simple(i, j)
        PROVE  answer # Inputs!None
    <2>1. /\ Inputs!SoundChunks("fmt") = {i} /\ Inputs!SoundChunks("data") = {j} /\ i <= CardChunks /\ j <= CardChunks
          /\ file.chunks[i].size >= 16 /\ file.chunks[i].channels # 0
          /\ Inputs!Playable(j, file.chunks[i].channels)
          /\ Inputs!End(file.chunks) <= file.riff /\ file.riff <= file.length
      BY <1>7 DEF Inputs!Simple
    <2>2. OneSound(file, o, n, i, j)
      <3>1. \A k \in 1 .. n : (file.chunks[k].kind = "fmt" <=> k = i) /\ (file.chunks[k].kind = "data" <=> k = j)
        BY <2>1, <1>5
      <3>2. i \in 1 .. n /\ j \in 1 .. n /\ o[n + 1] <= file.riff
        BY <2>1, <1>3 DEF Inputs!End
      <3> QED BY <2>1, <3>1, <3>2 DEF OneSound
    <2>3. i \in 1 .. CardChunks /\ j \in 1 .. CardChunks /\ i \in 1 .. n /\ j \in 1 .. n
      BY <2>1, <1>3
    <2>4. /\ ~x.over /\ x.channels # 0 /\ x.channels = file.chunks[i].channels
          /\ x.offset # 0 /\ x.bytes = file.chunks[j].size
      BY <2>2, <2>3, FoundOne
    <2> HIDE DEF x
    <2>5. whole
      <3>1. x.bytes \in 1 .. CardLimit * x.channels /\ x.bytes % (2 * x.channels) = 0
        BY <2>1, <2>4 DEF Inputs!Playable
      <3>2. PICK limit \in Int : limit = CardLimit * x.channels
        BY <2>3, <2>4, <1>4
      <3> QED BY <3>1, <3>2
    <2>6. opened
      BY <2>1, <2>4, <2>5
    <2> HIDE DEF opened, answer, sound
    <2> QED BY <2>6, <1>1, <1>2
  <1> HIDE DEF answer, x
  <1>8. (\E i, j \in 1 .. Len(file.chunks) : Inputs!Simple(i, j)) => answer # Inputs!None
    BY <1>7
  <1> QED BY <1>6, <1>8 DEF Inputs!WavRight, answer

FileOf(c, d) ==
  [chunks |-> c, length |-> Inputs!End(c) + d[1], riff |-> Inputs!End(c) + d[2]]

LEMMA ChunksAre ==
  ASSUME CardLimit \in Nat, NEW c \in Seq(Inputs!Chunks)
  PROVE  Sized(c) /\ \A i \in 1 .. Len(c) : c[i].channels \in Nat
  <1>1. \A x \in Inputs!Chunks : x.size \in Nat /\ x.channels \in Nat
    <2> DEFINE given == {Inputs!Format(16, 1), Inputs!Format(18, 2), Inputs!Format(15, 1), Inputs!Other}
               sizes == {0, 2, 3, CardLimit, 2 * CardLimit, 2 * CardLimit + 4}
    <2>1. Inputs!Chunks = given \cup {Inputs!Data(n) : n \in sizes}
      BY DEF Inputs!Chunks
    <2>2. \A x \in given : x.size \in Nat /\ x.channels \in Nat
      BY DEF Inputs!Format, Inputs!Other
    <2>3. \A n \in sizes : n \in Nat
      OBVIOUS
    <2> HIDE DEF given, sizes
    <2>4. \A n \in sizes : Inputs!Data(n).size \in Nat /\ Inputs!Data(n).channels \in Nat
      BY <2>3 DEF Inputs!Data
    <2> QED BY <2>1, <2>2, <2>4
  <1> DEFINE S == Inputs!Chunks
  <1>2. c \in Seq(S) /\ \A x \in S : x.size \in Nat /\ x.channels \in Nat
    BY <1>1
  <1> HIDE DEF S
  <1>3. Len(c) \in Nat /\ \A i \in 1 .. Len(c) : c[i] \in S
    BY <1>2
  <1> QED BY <1>2, <1>3 DEF Sized

LEMMA FilesAre ==
  ASSUME CardLimit \in Nat, CardChunks \in Nat, NEW file \in Inputs!Files
  PROVE  IsFile(file, Inputs!Offsets(file.chunks), Len(file.chunks))
  <1> DEFINE Ends == {<<0, 0>>, <<0, -1>>, <<-1, 0>>, <<1, 0>>}
             Few == UNION {[1 .. n -> Inputs!Chunks] : n \in 1 .. CardChunks}
             Many == {<<Inputs!Other>> \o c : c \in [1 .. CardChunks -> Inputs!Chunks]}
             Of(c) == {FileOf(c, d) : d \in Ends}
  <1>1. Inputs!Files = UNION {Of(c) : c \in Few \cup Many}
    <2>1. Inputs!Files =
            UNION {{[chunks |-> c, length |-> Inputs!End(c) + d[1], riff |-> Inputs!End(c) + d[2]] :
                      d \in {<<0, 0>>, <<0, -1>>, <<-1, 0>>, <<1, 0>>}} :
                   c \in (UNION {[1 .. n -> Inputs!Chunks] : n \in 1 .. CardChunks})
                          \cup {<<Inputs!Other>> \o c : c \in [1 .. CardChunks -> Inputs!Chunks]}}
      BY DEF Inputs!Files
    <2> HIDE DEF Ends, Few, Many
    <2>2. \A c : Of(c) = {[chunks |-> c, length |-> Inputs!End(c) + d[1], riff |-> Inputs!End(c) + d[2]] : d \in Ends}
      BY Zenon DEF FileOf
    <2>3. Inputs!Files = UNION {{[chunks |-> c, length |-> Inputs!End(c) + d[1], riff |-> Inputs!End(c) + d[2]] :
                                    d \in Ends} : c \in Few \cup Many}
      BY <2>1, Zenon DEF Ends, Few, Many
    <2> HIDE DEF Of
    <2> QED BY <2>2, <2>3
  <1>2. Few \cup Many \subseteq Seq(Inputs!Chunks)
    <2> DEFINE S == Inputs!Chunks
    <2>1. Inputs!Other \in S
      BY DEF Inputs!Chunks
    <2> HIDE DEF S
    <2>2. \A n \in Nat : [1 .. n -> S] \subseteq Seq(S)
      OBVIOUS
    <2>3. Few \subseteq Seq(S)
      BY <2>2 DEF S
    <2>4. \A c \in Seq(S) : <<Inputs!Other>> \o c \in Seq(S)
      BY <2>1
    <2>5. Many \subseteq Seq(S)
      <3> SUFFICES ASSUME NEW c \in [1 .. CardChunks -> S] PROVE <<Inputs!Other>> \o c \in Seq(S)
        BY DEF S
      <3>1. c \in Seq(S)
        BY <2>2
      <3> QED BY <3>1, <2>4
    <2> HIDE DEF Few, Many
    <2> QED BY <2>3, <2>5 DEF S
  <1> HIDE DEF Few, Many
  <1>3. PICK c \in Few \cup Many : file \in Of(c)
    <2> HIDE DEF Of
    <2> QED BY <1>1
  <1>4. PICK d \in Ends : file = FileOf(c, d)
    BY <1>3
  <1>5. d[1] \in Int /\ d[2] \in Int
    BY <1>4
  <1>6. c \in Seq(Inputs!Chunks)
    BY <1>2, <1>3
  <1>7. Sized(c) /\ \A i \in 1 .. Len(c) : c[i].channels \in Nat
    BY <1>6, ChunksAre
  <1>8. Follows(Inputs!Offsets(c), c)
    BY <1>7, OffsetsFollow
  <1>9. Inputs!End(c) \in Int
    <2>1. PICK n \in Nat : n = Len(c)
      BY <1>7 DEF Sized
    <2>2. Inputs!Offsets(c)[n + 1] \in Int
      <3>1. n + 1 \in 1 .. n + 1
        OBVIOUS
      <3> QED BY <3>1, <2>1, <1>8 DEF Follows
    <2> QED BY <2>1, <2>2 DEF Inputs!End
  <1>10. file.chunks = c /\ file.riff \in Int /\ file.length \in Int
    <2>1. file.chunks = c /\ file.riff = Inputs!End(c) + d[2] /\ file.length = Inputs!End(c) + d[1]
      BY <1>4 DEF FileOf
    <2> QED BY <2>1, <1>5, <1>9
  <1>11. Len(c) \in Nat
    BY <1>7 DEF Sized
  <1> QED BY <1>7, <1>8, <1>10, <1>11 DEF IsFile

-----------------------------------------------------------------------------
(* Terminal: the commands *)

ProfileTyped(p) ==
  /\ DOMAIN p = {"mood", "brightness", "nightBrightness", "soundLevel", "nightStart", "nightEnd"}
  /\ Terminal!Valid(p) /\ p.mood \in UsbAllowed

RangesOf(p) ==
  [mood |-> UsbMoods \cap UsbAllowed, brightness |-> 5 .. 90, nightBrightness |-> 1 .. 20, soundLevel |-> 1 .. 30,
   nightStart |-> (0 .. 23) \ {p.nightEnd}, nightEnd |-> (0 .. 23) \ {p.nightStart}]

\* The command's field is set to the number, if it is in its range, and to nothing else.
Obeyed ==
  /\ ProfileTyped(s.profile)
  /\ s.accepted => \E c \in Terminal!Named : c[2] \in RangesOf(s.before)[c[1]]
                                         /\ s.profile = [s.before EXCEPT ![c[1]] = c[2]]
  /\ ~s.accepted => s.profile = s.before /\ \A c \in Terminal!Named : c[2] \notin RangesOf(s.before)[c[1]]

CommandsInv ==
  /\ DOMAIN s = {"unit", "profile", "before", "command", "accepted", "count"} /\ s.unit = "commands"
  /\ Obeyed

\* The range of a field is what the two checks of a candidate leave.
LEMMA Candidates ==
  ASSUME NEW p, ProfileTyped(p), NEW field \in DOMAIN Terminal!Default, NEW n \in Nat,
         NEW q, q = [p EXCEPT ![field] = n]
  PROVE  /\ \E fits \in BOOLEAN :
              /\ Terminal!Assigned(p, field, n) = <<q, fits>>
              /\ fits /\ q.mood \in UsbAllowed <=> n \in RangesOf(p)[field]
         /\ n \in RangesOf(p)[field] => ProfileTyped(q)
  <1>0. field \in {"mood", "brightness", "nightBrightness", "soundLevel", "nightStart", "nightEnd"}
    BY DEF Terminal!Default
  <1>1. CASE field = "mood"
    <2>1. Terminal!Assigned(p, field, n) = <<q, n \in UsbMoods \cap UsbAllowed>>
      BY <1>1, Zenon DEF Terminal!Assigned
    <2>2. PICK fits \in BOOLEAN : fits = (n \in UsbMoods \cap UsbAllowed)
      <3>1. (n \in UsbMoods \cap UsbAllowed) \in BOOLEAN
        OBVIOUS
      <3>2. \E fits : fits \in BOOLEAN /\ fits = (n \in UsbMoods \cap UsbAllowed)
        BY <3>1, Zenon
      <3> QED BY <3>2, Zenon
    <2>3. fits /\ q.mood \in UsbAllowed <=> n \in RangesOf(p)[field]
      BY <1>1, <2>2 DEF ProfileTyped, RangesOf
    <2>4. n \in RangesOf(p)[field] => ProfileTyped(q)
      BY <1>1 DEF ProfileTyped, RangesOf, Terminal!Valid
    <2> QED BY <2>1, <2>2, <2>3, <2>4
  <1>2. CASE field \in {"nightStart", "nightEnd"}
    <2>1. Terminal!Assigned(p, field, n) = <<q, n \in 0 .. 23 /\ Terminal!Valid(q)>>
      BY <1>2, Zenon DEF Terminal!Assigned
    <2>2. PICK fits \in BOOLEAN : fits = (n \in 0 .. 23 /\ Terminal!Valid(q))
      OBVIOUS
    <2>3. fits /\ q.mood \in UsbAllowed <=> n \in RangesOf(p)[field]
      <3>1. CASE field = "nightStart"
        BY <2>2, <3>1 DEF ProfileTyped, RangesOf, Terminal!Valid
      <3>2. CASE field = "nightEnd"
        BY <2>2, <3>2 DEF ProfileTyped, RangesOf, Terminal!Valid
      <3> QED BY <1>2, <3>1, <3>2
    <2>4. n \in RangesOf(p)[field] => ProfileTyped(q)
      BY <1>2 DEF ProfileTyped, RangesOf, Terminal!Valid
    <2> QED BY <2>1, <2>2, <2>3, <2>4
  <1>3. CASE field \in {"brightness", "nightBrightness", "soundLevel"}
    <2>1. Terminal!Assigned(p, field, n) = <<q, n \in 1 .. 90 /\ Terminal!Valid(q)>>
      BY <1>3, Zenon DEF Terminal!Assigned
    <2>2. PICK fits \in BOOLEAN : fits = (n \in 1 .. 90 /\ Terminal!Valid(q))
      OBVIOUS
    <2>3. fits /\ q.mood \in UsbAllowed <=> n \in RangesOf(p)[field]
      <3>1. CASE field = "brightness"
        <4>1. RangesOf(p)[field] = 5 .. 90
          BY <3>1 DEF RangesOf
        <4>2. /\ q.brightness = n
              /\ \A other \in DOMAIN p \ {field} : q[other] = p[other]
          BY <3>1 DEF ProfileTyped
        <4>3. Terminal!Valid(q) <=> n \in 5 .. 90
          BY <3>1, <4>2 DEF ProfileTyped, Terminal!Valid
        <4>4. q.mood = p.mood
          BY <3>1 DEF ProfileTyped
        <4>5. n \in 5 .. 90 => n \in 1 .. 90
          OBVIOUS
        <4> QED BY <2>2, <4>1, <4>3, <4>4, <4>5 DEF ProfileTyped
      <3>2. CASE field = "nightBrightness"
        <4>1. RangesOf(p)[field] = 1 .. 20
          BY <3>2 DEF RangesOf
        <4>2. /\ q.nightBrightness = n
              /\ \A other \in DOMAIN p \ {field} : q[other] = p[other]
          BY <3>2 DEF ProfileTyped
        <4>3. Terminal!Valid(q) <=> n \in 1 .. 20
          BY <3>2, <4>2 DEF ProfileTyped, Terminal!Valid
        <4>4. q.mood = p.mood
          BY <3>2 DEF ProfileTyped
        <4>5. n \in 1 .. 20 => n \in 1 .. 90
          OBVIOUS
        <4> QED BY <2>2, <4>1, <4>3, <4>4, <4>5 DEF ProfileTyped
      <3>3. CASE field = "soundLevel"
        <4>1. RangesOf(p)[field] = 1 .. 30
          BY <3>3 DEF RangesOf
        <4>2. /\ q.soundLevel = n
              /\ \A other \in DOMAIN p \ {field} : q[other] = p[other]
          BY <3>3 DEF ProfileTyped
        <4>3. Terminal!Valid(q) <=> n \in 1 .. 30
          BY <3>3, <4>2 DEF ProfileTyped, Terminal!Valid
        <4>4. q.mood = p.mood
          BY <3>3 DEF ProfileTyped
        <4>5. n \in 1 .. 30 => n \in 1 .. 90
          OBVIOUS
        <4> QED BY <2>2, <4>1, <4>3, <4>4, <4>5 DEF ProfileTyped
      <3> QED BY <1>3, <3>1, <3>2, <3>3
    <2>4. n \in RangesOf(p)[field] => ProfileTyped(q)
      BY <1>3 DEF ProfileTyped, RangesOf, Terminal!Valid
    <2> QED BY <2>1, <2>2, <2>3, <2>4
  <1> QED BY <1>0, <1>1, <1>2, <1>3

LEMMA ExecutesOne ==
  ASSUME CommandsInv, NEW field \in DOMAIN Terminal!Default, NEW n \in Nat, NEW words,
         Terminal!Parsed(words, s.profile) = Terminal!Assigned(s.profile, field, n),
         Terminal!Executes(words),
         \/ Len(words) = 3 /\ words[1] = "set" /\ words[2] = field /\ words[3] = n
         \/ Len(words) = 2 /\ words[1] = "mood" /\ field = "mood" /\ words[2] = n
  PROVE  CommandsInv'
  <1> DEFINE q == [s.profile EXCEPT ![field] = n]
  <1>1. ProfileTyped(s.profile)
    BY DEF CommandsInv, Obeyed
  <1>2. PICK fits \in BOOLEAN :
          /\ Terminal!Assigned(s.profile, field, n) = <<q, fits>>
          /\ fits /\ q.mood \in UsbAllowed <=> n \in RangesOf(s.profile)[field]
    BY <1>1, Candidates
  <1>3. n \in RangesOf(s.profile)[field] => ProfileTyped(q)
    BY <1>1, Candidates
  <1>4. PICK accepted \in BOOLEAN : accepted = (fits /\ q.mood \in UsbAllowed)
    OBVIOUS
  <1>5. PICK next : next = IF accepted THEN q ELSE s.profile
    OBVIOUS
  <1>6. Terminal!Parsed(words, s.profile)[1] = q /\ Terminal!Parsed(words, s.profile)[2] = fits
    BY <1>2
  <1>7. s' = [s EXCEPT !.count = @ + 1, !.command = words, !.accepted = accepted, !.before = s.profile,
                       !.profile = next]
    <2>1. s' = [s EXCEPT !.count = @ + 1, !.command = words, !.accepted = fits /\ q.mood \in UsbAllowed,
                         !.before = s.profile, !.profile = IF fits /\ q.mood \in UsbAllowed THEN q ELSE @]
      BY <1>6, Zenon DEF Terminal!Executes
    <2> QED BY <1>4, <1>5, <2>1, Zenon
  <1>8. /\ DOMAIN s' = {"unit", "profile", "before", "command", "accepted", "count"} /\ s'.unit = "commands"
        /\ s'.command = words /\ s'.accepted = accepted /\ s'.before = s.profile /\ s'.profile = next
    BY <1>7 DEF CommandsInv
  <1>9. Terminal!Named' = {<<field, n>>}
    BY <1>8 DEF Terminal!Named
  <1> HIDE DEF q
  <1>10. ProfileTyped(next)
    BY <1>1, <1>2, <1>3, <1>4, <1>5
  <1>11. accepted <=> n \in RangesOf(s.profile)[field]
    BY <1>2, <1>4
  <1>12. accepted => next = [s.profile EXCEPT ![field] = n]
    BY <1>5 DEF q
  <1>13. Obeyed'
    <2>1. /\ ProfileTyped(s'.profile)
          /\ s'.accepted => \E c \in Terminal!Named' : c[2] \in RangesOf(s'.before)[c[1]]
                                                    /\ s'.profile = [s'.before EXCEPT ![c[1]] = c[2]]
          /\ ~s'.accepted => s'.profile = s'.before /\ \A c \in Terminal!Named' : c[2] \notin RangesOf(s'.before)[c[1]]
      BY <1>5, <1>8, <1>9, <1>10, <1>11, <1>12
    <2> QED BY <2>1 DEF Obeyed, ProfileTyped, RangesOf, Terminal!Valid
  <1> QED BY <1>8, <1>13 DEF CommandsInv

LEMMA ExecutesNone ==
  ASSUME CommandsInv, NEW words, Terminal!Executes(words),
         ~(Len(words) = 3 /\ words[1] = "set"), ~(Len(words) = 2 /\ words[1] = "mood")
  PROVE  CommandsInv'
  <1>1. Terminal!Parsed(words, s.profile) = <<s.profile, FALSE>>
    BY DEF Terminal!Parsed
  <1>2. PICK next : s' = [s EXCEPT !.count = @ + 1, !.command = words, !.accepted = FALSE, !.before = s.profile,
                                   !.profile = next] /\ next = s.profile
    <2>1. Terminal!Parsed(words, s.profile)[1] = s.profile /\ Terminal!Parsed(words, s.profile)[2] = FALSE
      BY <1>1
    <2>2. PICK accepted : accepted = (Terminal!Parsed(words, s.profile)[2]
                                    /\ Terminal!Parsed(words, s.profile)[1].mood \in UsbAllowed)
      BY Zenon
    <2>3. accepted = FALSE
      BY <2>1, <2>2, Zenon
    <2>4. PICK next : next = IF accepted THEN Terminal!Parsed(words, s.profile)[1] ELSE s.profile
      BY Zenon
    <2>5. next = s.profile
      BY <2>3, <2>4
    <2>6. s' = [s EXCEPT !.count = @ + 1, !.command = words, !.accepted = accepted, !.before = s.profile,
                       !.profile = next]
      BY <2>2, <2>4, Zenon DEF Terminal!Executes
    <2> QED BY <2>3, <2>5, <2>6, Zenon
  <1>3. /\ DOMAIN s' = {"unit", "profile", "before", "command", "accepted", "count"} /\ s'.unit = "commands"
        /\ s'.command = words /\ s'.accepted = FALSE /\ s'.before = s.profile /\ s'.profile = s.profile
    BY <1>2 DEF CommandsInv
  <1>4. Terminal!Named' = {}
    BY <1>3 DEF Terminal!Named
  <1>5. Obeyed'
    BY <1>3, <1>4 DEF CommandsInv, Obeyed, ProfileTyped, Terminal!Valid
  <1> QED BY <1>3, <1>5 DEF CommandsInv

LEMMA FirstProfileObeys == s = Terminal!FirstProfile => CommandsInv
  <1> SUFFICES ASSUME s = Terminal!FirstProfile PROVE CommandsInv
    OBVIOUS
  <1>1. /\ DOMAIN s = {"unit", "profile", "before", "command", "accepted", "count"} /\ s.unit = "commands"
        /\ s.profile = Terminal!Default /\ s.before = Terminal!Default /\ s.accepted = FALSE /\ s.command = <<>>
    BY DEF Terminal!FirstProfile
  <1>2. Terminal!Named = {}
    BY <1>1 DEF Terminal!Named
  <1>3. ProfileTyped(Terminal!Default)
    BY TerminalAssumption DEF ProfileTyped, Terminal!Default, Terminal!Valid
  <1> QED BY <1>1, <1>2, <1>3 DEF CommandsInv, Obeyed

LEMMA FirstProfileAgain == (s = Terminal!FirstProfile)' => CommandsInv'
  BY FirstProfileObeys, PTL

LEMMA CommandsStep ==
  ASSUME CommandsInv, [Terminal!Next]_s
  PROVE  CommandsInv'
  <1>1. CASE Terminal!Reboots
    <2>1. (s = Terminal!FirstProfile)'
      BY <1>1 DEF Terminal!Reboots
    <2> QED BY <2>1, FirstProfileAgain
  <1>2. CASE \E words \in Terminal!Commands : Terminal!Executes(words)
    <2>1. PICK words \in Terminal!Commands : Terminal!Executes(words)
      BY <1>2
    <2>2. CASE words \in {<<"set", field, n>> : field \in DOMAIN Terminal!Default, n \in UsbNumbers}
      <3>1. PICK field \in DOMAIN Terminal!Default, n \in UsbNumbers : words = <<"set", field, n>>
        BY <2>2
      <3>2. Len(words) = 3 /\ words[1] = "set" /\ words[2] = field /\ words[3] = n
        BY <3>1
      <3>3. Terminal!Parsed(words, s.profile) = Terminal!Assigned(s.profile, field, n)
        BY <3>2 DEF Terminal!Parsed
      <3> QED BY <2>1, <3>2, <3>3, ExecutesOne, TerminalAssumption
    <2>3. CASE words \in {<<"mood", n>> : n \in UsbNumbers}
      <3>1. PICK n \in UsbNumbers : words = <<"mood", n>>
        BY <2>3
      <3>2. Len(words) = 2 /\ words[1] = "mood" /\ words[2] = n
        BY <3>1
      <3>3. Terminal!Parsed(words, s.profile) = Terminal!Assigned(s.profile, "mood", n)
        BY <3>2 DEF Terminal!Parsed
      <3>4. "mood" \in DOMAIN Terminal!Default
        BY DEF Terminal!Default
      <3> QED BY <2>1, <3>2, <3>3, <3>4, ExecutesOne, TerminalAssumption
    <2>4. CASE words \in {<<"set", "mood">>, <<"set", "mood", 0, "more">>, <<"mood", 0, "more">>}
      <3>1. ~(Len(words) = 3 /\ words[1] = "set") /\ ~(Len(words) = 2 /\ words[1] = "mood")
        BY <2>4
      <3> QED BY <2>1, <3>1, ExecutesNone
    <2> QED BY <2>1, <2>2, <2>3, <2>4 DEF Terminal!Commands
  <1>3. CASE s' = s
    BY <1>3 DEF CommandsInv, Obeyed, ProfileTyped, RangesOf, Terminal!Valid, Terminal!Named
  <1> QED BY <1>1, <1>2, <1>3 DEF Terminal!Next, CommandsInv

LEMMA CommandsBegin == Terminal!CommandsInit => CommandsInv
  BY FirstProfileObeys DEF Terminal!CommandsInit

LEMMA CommandsObeyed == CommandsInv => Terminal!OneField
  <1> SUFFICES ASSUME Obeyed PROVE Terminal!OneField
    BY DEF CommandsInv
  <1>1. Terminal!Ranges = RangesOf(s.before)
    BY Zenon DEF Terminal!Ranges, RangesOf
  <1> QED BY <1>1 DEF Obeyed, ProfileTyped, Terminal!OneField

-----------------------------------------------------------------------------
(* Terminal: the lines *)

\* The lines of a sequence of bytes, as Terminal has them of those that were read.
EndsIn(r) == {i \in 1 .. Len(r) : r[i] = "end"}
Starting(r, p, n) == p \in 0 .. n /\ (p = 0 \/ p \in EndsIn(r)) /\ \A j \in p + 1 .. n : j \notin EndsIn(r)
LineIn(r, e) == SubSeq(r, (CHOOSE p : Starting(r, p, e - 1)) + 1, e - 1)
Whole(r) == {e \in EndsIn(r) : LineIn(r, e) # <<>>}
Rank(r, e) == Cardinality({d \in Whole(r) : d <= e})

\* What is left of the bytes that were read, and what was said of the lines before.
Partial(x, r, p) ==
  /\ Starting(r, p, Len(r))
  /\ ~x.overflow => x.line = SubSeq(r, p + 1, Len(r))
  /\ x.overflow => p < Len(r) /\ (Len(r) - p > UsbLine \/ \E j \in p + 1 .. Len(r) : r[j] = "control")
Answers == Seq(Terminal!Characters) \cup {<<"too long">>}
Said(x, r) ==
  /\ x.said \in Seq(Answers) /\ Len(x.said) = Cardinality(Whole(r))
  /\ \A e \in Whole(r) : x.said[Rank(r, e)] = Terminal!Says(LineIn(r, e))
Taking(x, r) ==
  /\ r \in Seq(Terminal!Bytes)
  /\ x.line \in Seq(Terminal!Characters) /\ Len(x.line) <= UsbLine /\ x.overflow \in BOOLEAN
  /\ \E p : Partial(x, r, p)
  /\ Said(x, r)

LEMMA BeginsOnce ==
  ASSUME NEW r \in Seq(Terminal!Bytes), NEW n \in 0 .. Len(r), NEW p, NEW q, Starting(r, p, n), Starting(r, q, n)
  PROVE  p = q
  <1>1. p \in 0 .. n /\ q \in 0 .. n /\ EndsIn(r) \subseteq 1 .. Len(r)
    BY DEF Starting, EndsIn
  <1>2. ~(p < q)
    BY <1>1 DEF Starting
  <1>3. ~(q < p)
    BY <1>1 DEF Starting
  <1> QED BY <1>1, <1>2, <1>3

LEMMA LineBegins ==
  ASSUME NEW r \in Seq(Terminal!Bytes), NEW e \in 1 .. Len(r) + 1, NEW p, Starting(r, p, e - 1)
  PROVE  LineIn(r, e) = SubSeq(r, p + 1, e - 1)
  <1>1. \A q : Starting(r, q, e - 1) => q = p
    BY BeginsOnce
  <1>2. p = CHOOSE q : Starting(r, q, e - 1)
    BY <1>1
  <1> QED BY <1>2 DEF LineIn

LEMMA LineExists ==
  ASSUME NEW r \in Seq(Terminal!Bytes), NEW n \in 0 .. Len(r)
  PROVE  \E p : Starting(r, p, n)
  <1> DEFINE back == {n - i : i \in {j \in 0 .. n : j = 0 \/ j \in EndsIn(r)}}
  <1>1. back \in SUBSET Nat /\ n - 0 \in back
    OBVIOUS
  <1>2. PICK a \in back : \A b \in back : a <= b
    <2> HIDE DEF back
    <2> QED BY <1>1, LeastOf
  <1>3. PICK p \in 0 .. n : a = n - p /\ (p = 0 \/ p \in EndsIn(r))
    BY <1>2
  <1>4. ASSUME NEW j \in p + 1 .. n, j \in EndsIn(r) PROVE FALSE
    <2>1. n - j \in back
      BY <1>3, <1>4
    <2>2. a <= n - j
      <3> HIDE DEF back
      <3> QED BY <2>1, <1>2
    <2> QED BY <2>2, <1>3
  <1> QED BY <1>3, <1>4 DEF Starting

\* What follows does not change the lines that ended.
LEMMA LinesStay ==
  ASSUME NEW r \in Seq(Terminal!Bytes), NEW b \in Terminal!Bytes, NEW e \in 1 .. Len(r) + 1
  PROVE  /\ Append(r, b) \in Seq(Terminal!Bytes) /\ Len(Append(r, b)) = Len(r) + 1
         /\ LineIn(Append(r, b), e) = LineIn(r, e)
         /\ \A p : Starting(r, p, e - 1) => Starting(Append(r, b), p, e - 1)
  <1> DEFINE t == Append(r, b)
  <1>1. t \in Seq(Terminal!Bytes) /\ Len(t) = Len(r) + 1 /\ \A i \in 1 .. Len(r) : t[i] = r[i]
    OBVIOUS
  <1>2. \A i \in 0 .. Len(r) : i \in EndsIn(t) <=> i \in EndsIn(r)
    BY <1>1 DEF EndsIn
  <1>3. ASSUME NEW p, Starting(r, p, e - 1) PROVE Starting(t, p, e - 1)
    BY <1>2, <1>3 DEF Starting
  <1>4. PICK p : Starting(r, p, e - 1)
    BY LineExists
  <1>5. LineIn(r, e) = SubSeq(r, p + 1, e - 1) /\ LineIn(t, e) = SubSeq(t, p + 1, e - 1)
    <2>1. Starting(t, p, e - 1) /\ e \in 1 .. Len(t) + 1
      BY <1>1, <1>3, <1>4
    <2> HIDE DEF t
    <2> QED BY <1>1, <2>1, <1>4, LineBegins
  <1>6. p \in 0 .. e - 1
    BY <1>4 DEF Starting
  <1>7. SubSeq(r, p + 1, e - 1) = SubSeq(t, p + 1, e - 1)
    BY <1>1, <1>6
  <1> QED BY <1>1, <1>3, <1>5, <1>7

LEMMA WholeFinite ==
  ASSUME NEW r \in Seq(Terminal!Bytes)
  PROVE  /\ Whole(r) \subseteq 1 .. Len(r) /\ IsFiniteSet(Whole(r)) /\ Cardinality(Whole(r)) \in Nat
         /\ \A e \in Whole(r) : Rank(r, e) \in 1 .. Cardinality(Whole(r))
  <1>1. Whole(r) \in SUBSET (1 .. Len(r))
    BY DEF Whole, EndsIn
  <1>2. IsFiniteSet(1 .. Len(r))
    BY FS_Interval
  <1>3. IsFiniteSet(Whole(r)) /\ Cardinality(Whole(r)) \in Nat
    BY <1>1, <1>2, FS_Subset, FS_CardinalityType
  <1>4. ASSUME NEW e \in Whole(r) PROVE Rank(r, e) \in 1 .. Cardinality(Whole(r))
    <2> DEFINE before == {d \in Whole(r) : d <= e}
    <2>1. before \in SUBSET Whole(r) /\ before # {}
      BY <1>1, <1>4
    <2>2. IsFiniteSet(before) /\ Cardinality(before) <= Cardinality(Whole(r)) /\ Cardinality(before) \in Nat
      <3> HIDE DEF before
      <3>1. IsFiniteSet(before) /\ Cardinality(before) <= Cardinality(Whole(r))
        BY <2>1, <1>3, FS_Subset
      <3> QED BY <3>1, FS_CardinalityType
    <2>3. Cardinality(before) # 0
      <3> HIDE DEF before
      <3> QED BY <2>1, <2>2, FS_EmptySet
    <2> QED BY <2>2, <2>3, <1>3 DEF Rank
  <1> QED BY <1>1, <1>3, <1>4

\* A byte that ends no line leaves the lines as they are.
LEMMA NoLineEnds ==
  ASSUME NEW r \in Seq(Terminal!Bytes), NEW b \in Terminal!Bytes, b # "end"
  PROVE  /\ Whole(Append(r, b)) = Whole(r)
         /\ \A e \in Whole(r) : Rank(Append(r, b), e) = Rank(r, e) /\ LineIn(Append(r, b), e) = LineIn(r, e)
         /\ \A p : Starting(r, p, Len(r)) => Starting(Append(r, b), p, Len(r) + 1)
  <1> DEFINE t == Append(r, b)
  <1>1. t \in Seq(Terminal!Bytes) /\ Len(t) = Len(r) + 1 /\ t[Len(r) + 1] = b /\ \A i \in 1 .. Len(r) : t[i] = r[i]
    OBVIOUS
  <1>2. EndsIn(t) = EndsIn(r) /\ EndsIn(r) \subseteq 1 .. Len(r)
    BY <1>1 DEF EndsIn
  <1>3. \A e \in EndsIn(r) : LineIn(t, e) = LineIn(r, e)
    BY <1>2, LinesStay
  <1>4. Whole(t) = Whole(r)
    BY <1>2, <1>3 DEF Whole
  <1>5. \A p : Starting(r, p, Len(r)) => Starting(t, p, Len(r) + 1)
    BY <1>2 DEF Starting
  <1> QED BY <1>3, <1>4, <1>5 DEF Rank, Whole

\* One that does adds the line that was pending, if it is not empty.
LEMMA LineEnds ==
  ASSUME NEW r \in Seq(Terminal!Bytes), NEW p, Starting(r, p, Len(r))
  PROVE  LET t == Append(r, "end")
             line == SubSeq(r, p + 1, Len(r))
         IN /\ t \in Seq(Terminal!Bytes) /\ Len(t) = Len(r) + 1 /\ Starting(t, Len(t), Len(t))
            /\ LineIn(t, Len(t)) = line
            /\ Whole(t) = Whole(r) \cup (IF line = <<>> THEN {} ELSE {Len(t)})
            /\ Cardinality(Whole(t)) = Cardinality(Whole(r)) + (IF line = <<>> THEN 0 ELSE 1)
            /\ \A e \in Whole(r) : Rank(t, e) = Rank(r, e) /\ LineIn(t, e) = LineIn(r, e)
            /\ line # <<>> => Rank(t, Len(t)) = Cardinality(Whole(r)) + 1
  <1> DEFINE t == Append(r, "end")
             line == SubSeq(r, p + 1, Len(r))
             new == IF line = <<>> THEN {} ELSE {Len(t)}
  <1>1. /\ t \in Seq(Terminal!Bytes) /\ Len(t) = Len(r) + 1 /\ t[Len(r) + 1] = "end" /\ Len(r) \in Nat
        /\ \A i \in 1 .. Len(r) : t[i] = r[i]
    BY DEF Terminal!Bytes
  <1>2. EndsIn(t) = EndsIn(r) \cup {Len(t)} /\ EndsIn(r) \subseteq 1 .. Len(r)
    BY <1>1 DEF EndsIn
  <1>3. Starting(t, Len(t), Len(t))
    BY <1>1, <1>2 DEF Starting
  <1>4. p \in 0 .. Len(r)
    BY DEF Starting
  <1>5. LineIn(t, Len(t)) = line
    <2>1. LineIn(r, Len(r) + 1) = line
      BY LineBegins
    <2>2. "end" \in Terminal!Bytes
      BY DEF Terminal!Bytes
    <2>3. LineIn(t, Len(r) + 1) = LineIn(r, Len(r) + 1)
      BY <2>2, LinesStay
    <2> QED BY <2>1, <2>3, <1>1
  <1>6. \A e \in EndsIn(r) : LineIn(t, e) = LineIn(r, e)
    <2>2. "end" \in Terminal!Bytes
      BY DEF Terminal!Bytes
    <2> QED BY <1>2, <2>2, LinesStay
  <1> HIDE DEF t, line
  <1>7. Whole(t) = Whole(r) \cup new
    BY <1>2, <1>5, <1>6, <1>1 DEF Whole
  <1>8. Len(t) \notin Whole(r) /\ \A e \in Whole(r) : e \in 1 .. Len(r)
    BY <1>1, WholeFinite
  <1>9. Cardinality(Whole(t)) = Cardinality(Whole(r)) + (IF line = <<>> THEN 0 ELSE 1)
    <2>1. IsFiniteSet(Whole(r)) /\ Cardinality(Whole(r)) \in Nat
      BY WholeFinite
    <2>2. Cardinality(Whole(r) \cup {Len(t)}) = Cardinality(Whole(r)) + 1
      BY <2>1, <1>8, FS_AddElement
    <2>3. CASE line = <<>>
      BY <2>1, <1>7, <2>3
    <2>4. CASE line # <<>>
      BY <2>2, <1>7, <2>4
    <2> QED BY <2>3, <2>4
  <1>10. ASSUME NEW e \in Whole(r) PROVE Rank(t, e) = Rank(r, e)
    <2>1. {d \in Whole(t) : d <= e} = {d \in Whole(r) : d <= e}
      BY <1>1, <1>7, <1>8, <1>10
    <2> QED BY <2>1 DEF Rank
  <1>11. ASSUME line # <<>> PROVE Rank(t, Len(t)) = Cardinality(Whole(r)) + 1
    <2>1. {d \in Whole(t) : d <= Len(t)} = Whole(t)
      BY <1>1, <1>7, <1>8
    <2> QED BY <2>1, <1>9, <1>11 DEF Rank
  <1>12. \A e \in Whole(r) : e \in EndsIn(r)
    BY DEF Whole
  <1> QED BY <1>1, <1>3, <1>5, <1>6, <1>7, <1>9, <1>10, <1>11, <1>12 DEF t, line

LEMMA LongerLine ==
  ASSUME NEW S, NEW line \in Seq(S), NEW b \in S, Len(line) <= UsbLine, Len(line) # UsbLine
  PROVE  Append(line, b) \in Seq(S) /\ Len(Append(line, b)) <= UsbLine
  <1>1. Append(line, b) \in Seq(S) /\ Len(Append(line, b)) = Len(line) + 1
    OBVIOUS
  <1>2. PICK n \in Nat, m \in Nat : Len(line) = n /\ UsbLine = m
    BY TerminalAssumption
  <1>3. n + 1 <= m
    BY <1>2
  <1>4. Len(Append(line, b)) = n + 1
    BY <1>1, <1>2
  <1> QED BY <1>1, <1>2, <1>3, <1>4

\* settings_usb_poll's body keeps the account, of a byte more.
LEMMA TakingGoesOn ==
  ASSUME NEW x, NEW r, Taking(x, r), NEW b \in Terminal!Bytes,
         DOMAIN x = {"unit", "line", "overflow", "waiting", "said", "sent"}
  PROVE  /\ Taking(Terminal!Taken(x, b), Append(r, b))
         /\ DOMAIN Terminal!Taken(x, b) = DOMAIN x
         /\ \A f \in {"unit", "waiting", "sent"} : Terminal!Taken(x, b)[f] = x[f]
  <1> DEFINE y == Terminal!Taken(x, b)
             t == Append(r, b)
  <1>1. /\ r \in Seq(Terminal!Bytes) /\ t \in Seq(Terminal!Bytes) /\ Len(r) \in Nat
        /\ x.line \in Seq(Terminal!Characters) /\ Len(x.line) <= UsbLine /\ x.overflow \in BOOLEAN
        /\ x.said \in Seq(Answers) /\ Len(x.said) = Cardinality(Whole(r))
        /\ Len(t) = Len(r) + 1 /\ t[Len(t)] = b /\ \A i \in 1 .. Len(r) : t[i] = r[i]
    BY DEF Taking, Said
  <1>2. PICK p : Partial(x, r, p)
    BY DEF Taking
  <1>3. Starting(r, p, Len(r)) /\ p \in 0 .. Len(r)
    BY <1>2 DEF Partial, Starting
  <1>4. \A e \in Whole(r) : Rank(r, e) \in 1 .. Len(x.said)
    BY <1>1, WholeFinite
  <1>5. CASE b = "end"
    <2> DEFINE line == SubSeq(r, p + 1, Len(r))
    <2>1. /\ Starting(t, Len(t), Len(t)) /\ LineIn(t, Len(t)) = line
          /\ Whole(t) = Whole(r) \cup (IF line = <<>> THEN {} ELSE {Len(t)})
          /\ Cardinality(Whole(t)) = Cardinality(Whole(r)) + (IF line = <<>> THEN 0 ELSE 1)
          /\ \A e \in Whole(r) : Rank(t, e) = Rank(r, e) /\ LineIn(t, e) = LineIn(r, e)
          /\ line # <<>> => Rank(t, Len(t)) = Cardinality(Whole(r)) + 1
      BY <1>1, <1>3, <1>5, LineEnds
    <2>2. line \in Seq(Terminal!Bytes) /\ Len(line) = Len(r) - p /\ \A i \in 1 .. Len(line) : line[i] = r[p + i]
      BY <1>1, <1>3
    <2> HIDE DEF line, t
    <2>3. /\ y.line = <<>> /\ y.overflow = FALSE /\ DOMAIN y = DOMAIN x
          /\ y.unit = x.unit /\ y.waiting = x.waiting /\ y.sent = x.sent
          /\ x.overflow => y.said = Append(x.said, <<"too long">>)
          /\ ~x.overflow /\ x.line # <<>> => y.said = Append(x.said, x.line)
          /\ ~x.overflow /\ x.line = <<>> => y.said = x.said
      BY <1>5, Zenon DEF Terminal!Taken, Terminal!Terminated, Terminal!TooLong
    <2>b. y.line = <<>> /\ y.overflow = FALSE
      BY <2>3
    <2>a. x.overflow => p < Len(r) /\ (Len(r) - p > UsbLine \/ \E j \in p + 1 .. Len(r) : r[j] = "control")
      BY <1>2 DEF Partial
    <2>4. x.overflow => line # <<>> /\ Terminal!Says(line) = <<"too long">>
      <3>1. ASSUME x.overflow, NEW j \in p + 1 .. Len(r), r[j] = "control"
            PROVE  \E i \in 1 .. Len(line) : line[i] \notin Terminal!Characters
        <4>1. j - p \in 1 .. Len(line) /\ line[j - p] = "control"
          BY <2>2, <3>1, <1>3, <1>1
        <4> QED BY <4>1 DEF Terminal!Characters
      <3>2. ASSUME x.overflow PROVE Len(line) > UsbLine \/ \E i \in 1 .. Len(line) : line[i] \notin Terminal!Characters
        BY <3>1, <3>2, <2>a, <2>2, <1>1, <1>3
      <3>3. ASSUME x.overflow PROVE line # <<>>
        BY <3>3, <2>a, <2>2, <1>1, <1>3
      <3>4. x.overflow => ~(Len(line) <= UsbLine /\ \A i \in 1 .. Len(line) : line[i] \in Terminal!Characters)
        BY <3>2, <2>2, TerminalAssumption
      <3> QED BY <3>3, <3>4, Zenon DEF Terminal!Says, Terminal!TooLong
    <2>5. ~x.overflow => line = x.line /\ Terminal!Says(line) = x.line
      <3>1. ASSUME ~x.overflow PROVE line = x.line
        BY <1>2, <3>1 DEF Partial, line
      <3> QED BY <3>1, <1>1 DEF Terminal!Says
    <2>6. x.line \in Answers /\ <<"too long">> \in Answers
      BY <1>1 DEF Answers
    <2> HIDE DEF y
    <2>7. /\ y.said \in Seq(Answers) /\ Len(y.said) = Len(x.said) + (IF line = <<>> THEN 0 ELSE 1)
          /\ \A i \in 1 .. Len(x.said) : y.said[i] = x.said[i]
          /\ line # <<>> => y.said[Len(x.said) + 1] = Terminal!Says(line)
      <3>0. ASSUME NEW v \in Answers, y.said = Append(x.said, v), line # <<>>, Terminal!Says(line) = v
            PROVE  /\ y.said \in Seq(Answers) /\ Len(y.said) = Len(x.said) + 1
                   /\ \A i \in 1 .. Len(x.said) : y.said[i] = x.said[i]
                   /\ y.said[Len(x.said) + 1] = Terminal!Says(line)
        <4>1. x.said \in Seq(Answers)
          BY <1>1
        <4>2. /\ Append(x.said, v) \in Seq(Answers) /\ Len(Append(x.said, v)) = Len(x.said) + 1
              /\ \A i \in 1 .. Len(x.said) : Append(x.said, v)[i] = x.said[i]
              /\ Append(x.said, v)[Len(x.said) + 1] = v
          BY <4>1
        <4> QED BY <4>2, <3>0
      <3>1. CASE x.overflow
        <4>1. y.said = Append(x.said, <<"too long">>) /\ line # <<>> /\ Terminal!Says(line) = <<"too long">>
          BY <3>1, <2>3, <2>4
        <4> QED BY <4>1, <3>0, <2>6
      <3>2. CASE ~x.overflow /\ x.line # <<>>
        <4>1. y.said = Append(x.said, x.line) /\ line # <<>> /\ Terminal!Says(line) = x.line
          BY <3>2, <2>3, <2>5
        <4> QED BY <4>1, <3>0, <2>6
      <3>3. CASE ~x.overflow /\ x.line = <<>>
        <4>1. y.said = x.said /\ line = <<>>
          BY <3>3, <2>3, <2>5
        <4> QED BY <4>1, <1>1
      <3> QED BY <3>1, <3>2, <3>3
    <2>8. \A e \in Whole(r) : x.said[Rank(r, e)] = Terminal!Says(LineIn(r, e))
      BY DEF Taking, Said
    <2>9. \A e \in Whole(t) : y.said[Rank(t, e)] = Terminal!Says(LineIn(t, e))
      BY <2>1, <2>7, <2>8, <1>1, <1>4
    <2>10. Said(y, t)
      BY <2>1, <2>7, <2>9, <1>1 DEF Said
    <2>11. Partial(y, t, Len(t))
      BY <2>1, <2>b, <1>1 DEF Partial
    <2>12. y.line \in Seq(Terminal!Characters) /\ Len(y.line) <= UsbLine
      BY <2>b, TerminalAssumption
    <2> QED BY <2>3, <2>10, <2>11, <2>12, <1>1 DEF Taking, y, t
  <1>6. ASSUME b # "end", Starting(t, p, Len(t)),
               y.said = x.said, y.line \in Seq(Terminal!Characters), Len(y.line) <= UsbLine, y.overflow \in BOOLEAN,
               ~y.overflow => y.line = SubSeq(t, p + 1, Len(t)),
               y.overflow => p < Len(t) /\ (Len(t) - p > UsbLine \/ \E j \in p + 1 .. Len(t) : t[j] = "control")
        PROVE  Taking(y, t)
    <2>1. /\ Whole(t) = Whole(r)
          /\ \A e \in Whole(r) : Rank(t, e) = Rank(r, e) /\ LineIn(t, e) = LineIn(r, e)
      BY <1>1, <1>6, NoLineEnds
    <2>2. \A e \in Whole(r) : x.said[Rank(r, e)] = Terminal!Says(LineIn(r, e))
      BY DEF Taking, Said
    <2> HIDE DEF y, t
    <2>3. Said(y, t)
      BY <2>1, <2>2, <1>1, <1>6 DEF Said
    <2>4. Partial(y, t, p)
      BY <1>6 DEF Partial
    <2> QED BY <2>3, <2>4, <1>1, <1>6 DEF Taking
  <1>7. b # "end" => Starting(t, p, Len(t))
    BY <1>1, <1>3, NoLineEnds
  <1>8. CASE b # "end" /\ x.overflow
    <2>1. y = x
      BY <1>8, Zenon DEF Terminal!Taken
    <2>2. p < Len(r) /\ (Len(r) - p > UsbLine \/ \E j \in p + 1 .. Len(r) : r[j] = "control")
      BY <1>2, <1>8 DEF Partial
    <2>3. p < Len(t) /\ (Len(t) - p > UsbLine \/ \E j \in p + 1 .. Len(t) : t[j] = "control")
      <3> HIDE DEF t
      <3> QED BY <2>2, <1>1, <1>3, TerminalAssumption
    <2> HIDE DEF y, t
    <2>4. Taking(y, t)
      BY <1>6, <1>7, <1>8, <1>1, <2>1, <2>3
    <2> QED BY <2>1, <2>4 DEF y, t
  <1>9. CASE b # "end" /\ ~x.overflow /\ (b = "control" \/ Len(x.line) = UsbLine)
    <2>1. y = [x EXCEPT !.overflow = TRUE]
      BY <1>9, Zenon DEF Terminal!Taken
    <2>2. x.line = SubSeq(r, p + 1, Len(r))
      BY <1>2, <1>9 DEF Partial
    <2>3. Len(x.line) = Len(r) - p
      BY <2>2, <1>1, <1>3
    <2>4. p < Len(t) /\ (Len(t) - p > UsbLine \/ \E j \in p + 1 .. Len(t) : t[j] = "control")
      <3> HIDE DEF t
      <3>1. CASE b = "control"
        <4>1. Len(t) \in p + 1 .. Len(t) /\ t[Len(t)] = "control"
          BY <3>1, <1>1, <1>3
        <4> QED BY <4>1, <1>1, <1>3
      <3>2. CASE Len(x.line) = UsbLine
        <4>1. Len(r) \in Nat /\ Len(t) = Len(r) + 1
          BY <1>1
        <4>2. Len(t) - p > UsbLine /\ p < Len(t)
          BY <4>1, <3>2, <2>3, <1>3
        <4> QED BY <4>2
      <3> QED BY <3>1, <3>2, <1>9
    <2>5. /\ y.line = x.line /\ y.said = x.said /\ y.overflow = TRUE /\ DOMAIN y = DOMAIN x
          /\ y.unit = x.unit /\ y.waiting = x.waiting /\ y.sent = x.sent
      BY <2>1
    <2> HIDE DEF y, t
    <2>6. Taking(y, t)
      BY <1>6, <1>7, <1>9, <1>1, <2>4, <2>5
    <2> QED BY <2>5, <2>6 DEF y, t
  <1>10. CASE b # "end" /\ ~x.overflow /\ b # "control" /\ Len(x.line) # UsbLine
    <2>1. y = [x EXCEPT !.line = Append(@, b)]
      BY <1>10, Zenon DEF Terminal!Taken
    <2>2. x.line = SubSeq(r, p + 1, Len(r))
      BY <1>2, <1>10 DEF Partial
    <2>3. b \in Terminal!Characters
      BY <1>10 DEF Terminal!Bytes, Terminal!Characters
    <2>4. /\ y.line = Append(x.line, b) /\ y.said = x.said /\ y.overflow = x.overflow /\ DOMAIN y = DOMAIN x
          /\ y.unit = x.unit /\ y.waiting = x.waiting /\ y.sent = x.sent
      BY <2>1
    <2> HIDE DEF y
    <2>5. y.line \in Seq(Terminal!Characters) /\ Len(y.line) <= UsbLine
      <3>1. Len(x.line) <= UsbLine /\ Len(x.line) # UsbLine /\ x.line \in Seq(Terminal!Characters)
        BY <1>1, <1>10
      <3>2. Append(x.line, b) \in Seq(Terminal!Characters) /\ Len(Append(x.line, b)) <= UsbLine
        BY <2>3, <3>1, LongerLine
      <3> QED BY <2>4, <3>2, Zenon
    <2>6. y.line = SubSeq(t, p + 1, Len(t))
      <3> HIDE DEF t
      <3> DEFINE u == SubSeq(t, p + 1, Len(t))
      <3>1. /\ x.line \in Seq(Terminal!Bytes) /\ Len(x.line) = Len(r) - p
            /\ \A i \in 1 .. Len(x.line) : x.line[i] = r[p + i]
        BY <2>2, <1>1, <1>3
      <3>2. /\ u \in Seq(Terminal!Bytes) /\ Len(u) = Len(t) - p /\ \A i \in 1 .. Len(u) : u[i] = t[p + i]
        <4>1. t \in Seq(Terminal!Bytes) /\ Len(r) \in Nat /\ Len(t) = Len(r) + 1
          BY <1>1
        <4> QED BY <4>1, <1>3
      <3> HIDE DEF u
      <3>3. /\ y.line \in Seq(Terminal!Bytes) /\ Len(y.line) = Len(x.line) + 1 /\ y.line[Len(x.line) + 1] = b
            /\ \A i \in 1 .. Len(x.line) : y.line[i] = x.line[i]
        BY <3>1, <2>4
      <3>4. \A i \in 1 .. Len(u) : u[i] = y.line[i]
        <4>1. Len(r) \in Nat /\ Len(t) = Len(r) + 1 /\ t[Len(t)] = b /\ \A i \in 1 .. Len(r) : t[i] = r[i]
          BY <1>1
        <4>2. Len(x.line) \in Nat /\ Len(u) = Len(x.line) + 1
          BY <3>1, <3>2, <4>1, <1>3
        <4>3. SUFFICES ASSUME NEW i \in 1 .. Len(u) PROVE u[i] = y.line[i]
          OBVIOUS
        <4>4. u[i] = t[p + i]
          BY <3>2
        <4>5. CASE i = Len(x.line) + 1
          BY <4>1, <4>2, <4>4, <4>5, <3>1, <3>3, <1>3
        <4>6. CASE i # Len(x.line) + 1
          BY <4>1, <4>2, <4>4, <4>6, <3>1, <3>3, <1>3
        <4> QED BY <4>5, <4>6
      <3>5. Len(u) = Len(y.line)
        BY <3>1, <3>2, <3>3, <1>1, <1>3
      <3>6. u = y.line
        BY <3>2, <3>3, <3>4, <3>5
      <3> QED BY <3>6 DEF u
    <2> HIDE DEF t
    <2>7. Taking(y, t)
      BY <1>6, <1>7, <1>10, <1>1, <2>4, <2>5, <2>6
    <2> QED BY <2>4, <2>7 DEF y, t
  <1> QED BY <1>1, <1>5, <1>8, <1>9, <1>10

-----------------------------------------------------------------------------
\* settings_usb_poll: any number of bytes, or those that wait.
LinesOf(x) ==
  /\ DOMAIN x = {"unit", "line", "overflow", "waiting", "said", "sent"} /\ x.unit = "lines"
  /\ x.waiting \in Seq(Terminal!Bytes)
  /\ \E r \in Seq(Terminal!Bytes) : x.sent = r \o x.waiting /\ Taking(x, r)

LEMMA BodyKeeps ==
  ASSUME NEW x, LinesOf(x), x.waiting # <<>>
  PROVE  LinesOf([Terminal!Taken(x, Head(x.waiting)) EXCEPT !.waiting = Tail(@)])
  <1> DEFINE b == Head(x.waiting)
             y == Terminal!Taken(x, b)
             z == [y EXCEPT !.waiting = Tail(@)]
  <1>1. PICK r \in Seq(Terminal!Bytes) : x.sent = r \o x.waiting /\ Taking(x, r)
    BY DEF LinesOf
  <1>2. x.waiting \in Seq(Terminal!Bytes) /\ DOMAIN x = {"unit", "line", "overflow", "waiting", "said", "sent"} /\ x.unit = "lines"
    BY DEF LinesOf
  <1>3. b \in Terminal!Bytes /\ Tail(x.waiting) \in Seq(Terminal!Bytes)
    BY <1>2
  <1>4. /\ Append(r, b) \in Seq(Terminal!Bytes)
        /\ Append(r, b) \o Tail(x.waiting) = r \o x.waiting
    BY <1>1, <1>2, <1>3
  <1> HIDE DEF b
  <1>5. /\ Taking(y, Append(r, b)) /\ DOMAIN y = DOMAIN x
        /\ \A f \in {"unit", "waiting", "sent"} : y[f] = x[f]
    BY <1>1, <1>2, <1>3, TakingGoesOn
  <1> HIDE DEF y
  <1>6. /\ DOMAIN z = DOMAIN x /\ z.unit = "lines" /\ z.waiting = Tail(x.waiting) /\ z.sent = x.sent
        /\ z.line = y.line /\ z.overflow = y.overflow /\ z.said = y.said
    BY <1>2, <1>5
  <1> HIDE DEF z
  <1>7. Taking(z, Append(r, b))
    BY <1>5, <1>6 DEF Taking, Partial, Said
  <1>8. z.sent = Append(r, b) \o z.waiting
    BY <1>1, <1>4, <1>6
  <1>9. LinesOf(z)
    BY <1>2, <1>3, <1>4, <1>6, <1>7, <1>8 DEF LinesOf
  <1> QED BY <1>9 DEF z, y, b

\* A pass of it, and so many of them.
PollStep(x) == IF x.waiting = <<>> THEN x ELSE [Terminal!Taken(x, Head(x.waiting)) EXCEPT !.waiting = Tail(@)]
Polls(f, x, n) == IsUpTo(f, n) /\ f[0] = x /\ \A i \in 1 .. n : f[i] = PollStep(f[i - 1])

LEMMA PollsExist ==
  ASSUME NEW x, NEW n \in Nat
  PROVE  \E f : Polls(f, x, n)
  <1> DEFINE without == {m \in Nat : ~\E f : Polls(f, x, m)}
  <1>1. SUFFICES ASSUME without # {} PROVE FALSE
    OBVIOUS
  <1>2. without \in SUBSET Nat
    OBVIOUS
  <1>3. PICK m \in without : \A k \in without : m <= k
    <2> HIDE DEF without
    <2> QED BY <1>1, <1>2, LeastOf
  <1>4. m \in Nat /\ ~\E f : Polls(f, x, m)
    BY <1>3
  <1>5. m # 0
    <2>1. Polls([i \in 0 .. 0 |-> x], x, 0)
      BY DEF Polls, IsUpTo
    <2> QED BY <2>1, <1>4
  <1>6. m - 1 \in Nat /\ m - 1 \notin without
    <2> HIDE DEF without
    <2> QED BY <1>3, <1>4, <1>5
  <1>7. PICK f : Polls(f, x, m - 1)
    BY <1>6
  <1> DEFINE g == [i \in 0 .. m |-> IF i = m THEN PollStep(f[m - 1]) ELSE f[i]]
  <1>8. Polls(g, x, m)
    <2>1. g[0] = x
      BY <1>4, <1>5, <1>7 DEF Polls
    <2>2. IsUpTo(g, m)
      BY DEF IsUpTo
    <2>3. ASSUME NEW i \in 1 .. m PROVE g[i] = PollStep(g[i - 1])
      <3>1. CASE i = m
        BY <3>1, <1>4, <1>5
      <3>2. CASE i # m
        BY <3>2, <1>4, <1>5, <1>7 DEF Polls
      <3> QED BY <3>1, <3>2
    <2> HIDE DEF g
    <2> QED BY <2>1, <2>2, <2>3 DEF Polls
  <1> QED BY <1>4, <1>8

LEMMA PolledIs ==
  ASSUME NEW x, NEW n \in Nat
  PROVE  \E f : Polls(f, x, n) /\ Terminal!Polled(x, n) = f[n]
  <1> DEFINE Is(f) == f = [i \in 0 .. n |->
                             IF i = 0 \/ f[i - 1].waiting = <<>> THEN (IF i = 0 THEN x ELSE f[i - 1])
                             ELSE [Terminal!Taken(f[i - 1], Head(f[i - 1].waiting)) EXCEPT !.waiting = Tail(@)]]
             Go(z) == [Terminal!Taken(z, Head(z.waiting)) EXCEPT !.waiting = Tail(@)]
             f == CHOOSE f : Is(f)
  <1>1. PICK g : Polls(g, x, n)
    BY PollsExist
  <1>2. Is(g)
    <2>1. ASSUME NEW i \in 0 .. n
          PROVE  g[i] = IF i = 0 \/ g[i - 1].waiting = <<>> THEN (IF i = 0 THEN x ELSE g[i - 1]) ELSE Go(g[i - 1])
      <3> HIDE DEF Go
      <3>1. CASE i = 0
        BY <3>1, <1>1 DEF Polls
      <3>2. CASE i # 0
        <4>1. i \in 1 .. n
          BY <3>2
        <4>2. g[i] = PollStep(g[i - 1])
          BY <4>1, <1>1 DEF Polls
        <4> QED BY <4>2, <3>2 DEF PollStep, Go
      <3> QED BY <3>1, <3>2
    <2>2. g = [i \in 0 .. n |-> g[i]]
      BY <1>1 DEF Polls, IsUpTo
    <2> QED BY <2>1, <2>2
  <1>3. Is(f)
    <2> HIDE DEF Is
    <2> QED BY <1>2
  <1>4. Terminal!Polled(x, n) = f[n]
    BY DEF Terminal!Polled
  <1> HIDE DEF f
  <1>5. \A i \in 0 .. n : f[i] = IF i = 0 \/ f[i - 1].waiting = <<>> THEN (IF i = 0 THEN x ELSE f[i - 1]) ELSE Go(f[i - 1])
    BY <1>3
  <1>6. Polls(f, x, n)
    <2> HIDE DEF Go
    <2>1. f[0] = x
      BY <1>5
    <2>2. IsUpTo(f, n)
      BY <1>3, <1>5 DEF IsUpTo
    <2>3. ASSUME NEW i \in 1 .. n PROVE f[i] = PollStep(f[i - 1])
      <3>1. f[i] = IF f[i - 1].waiting = <<>> THEN f[i - 1] ELSE Go(f[i - 1])
        BY <1>5
      <3> QED BY <3>1 DEF PollStep, Go
    <2> QED BY <2>1, <2>2, <2>3 DEF Polls
  <1> QED BY <1>4, <1>6

LEMMA PollKeeps ==
  ASSUME NEW x, LinesOf(x), NEW n \in Nat
  PROVE  LinesOf(Terminal!Polled(x, n))
  <1>1. PICK f : Polls(f, x, n) /\ Terminal!Polled(x, n) = f[n]
    BY PolledIs
  <1> DEFINE wrong == {i \in 0 .. n : ~LinesOf(f[i])}
  <1>2. wrong = {}
    <2> SUFFICES ASSUME wrong # {} PROVE FALSE
      OBVIOUS
    <2>1. wrong \in SUBSET Nat
      OBVIOUS
    <2>2. PICK m \in wrong : \A k \in wrong : m <= k
      <3> HIDE DEF wrong
      <3> QED BY <2>1, LeastOf
    <2>3. m \in 0 .. n /\ ~LinesOf(f[m])
      BY <2>2
    <2>4. m # 0
      BY <1>1, <2>3 DEF Polls
    <2>5. m - 1 \in 0 .. n /\ ~(m <= m - 1) /\ m \in 1 .. n
      BY <2>3, <2>4
    <2>6. m - 1 \notin wrong
      <3> HIDE DEF wrong
      <3> QED BY <2>2, <2>5
    <2>7. LinesOf(f[m - 1]) /\ f[m] = PollStep(f[m - 1])
      BY <2>5, <2>6, <1>1 DEF Polls
    <2>8. LinesOf(PollStep(f[m - 1]))
      BY <2>7, BodyKeeps, Zenon DEF PollStep
    <2> QED BY <2>3, <2>7, <2>8
  <1> QED BY <1>1, <1>2

LinesInv == LinesOf(s)

LEMMA LinesBegin ==
  ASSUME s = [unit |-> "lines", line |-> <<>>, overflow |-> FALSE, waiting |-> <<>>, said |-> <<>>, sent |-> <<>>]
  PROVE  LinesOf(s)
  <1>1. <<>> \in Seq(Terminal!Bytes) /\ <<>> \in Seq(Terminal!Characters) /\ <<>> \in Seq(Answers) /\ Len(<<>>) = 0
    OBVIOUS
  <1>2. EndsIn(<<>>) = {} /\ Whole(<<>>) = {}
    BY DEF EndsIn, Whole
  <1>3. Starting(<<>>, 0, 0)
    BY <1>2 DEF Starting
  <1>4. SubSeq(<<>>, 1, 0) = <<>> /\ <<>> \o <<>> = <<>>
    OBVIOUS
  <1>5. s.line = <<>> /\ s.overflow = FALSE /\ s.said = <<>> /\ s.sent = <<>> /\ s.waiting = <<>> /\ s.unit = "lines"
    OBVIOUS
  <1>6. Partial(s, <<>>, 0)
    BY <1>1, <1>3, <1>4, <1>5 DEF Partial
  <1>7. Said(s, <<>>)
    BY <1>1, <1>2, <1>5, FS_EmptySet DEF Said
  <1>8. Taking(s, <<>>)
    BY <1>1, <1>5, <1>6, <1>7, TerminalAssumption DEF Taking
  <1>9. DOMAIN s = {"unit", "line", "overflow", "waiting", "said", "sent"}
    OBVIOUS
  <1> QED BY <1>1, <1>4, <1>5, <1>8, <1>9 DEF LinesOf

LEMMA AppendedLast ==
  ASSUME NEW S, NEW r \in Seq(S), NEW t \in Seq(S), NEW b \in S
  PROVE  Append(t, b) \in Seq(S) /\ Append(r \o t, b) = r \o Append(t, b)
  <1> DEFINE u == r \o t
             v == Append(t, b)
             x == Append(u, b)
             y == r \o v
  <1>1. /\ u \in Seq(S) /\ Len(u) = Len(r) + Len(t)
        /\ \A i \in 1 .. Len(u) : u[i] = IF i <= Len(r) THEN r[i] ELSE t[i - Len(r)]
    OBVIOUS
  <1>2. v \in Seq(S) /\ Len(v) = Len(t) + 1 /\ v[Len(t) + 1] = b /\ \A i \in 1 .. Len(t) : v[i] = t[i]
    OBVIOUS
  <1> HIDE DEF u, v
  <1>3. x \in Seq(S) /\ Len(x) = Len(u) + 1 /\ x[Len(u) + 1] = b /\ \A i \in 1 .. Len(u) : x[i] = u[i]
    BY <1>1
  <1>4. /\ y \in Seq(S) /\ Len(y) = Len(r) + Len(v)
        /\ \A i \in 1 .. Len(y) : y[i] = IF i <= Len(r) THEN r[i] ELSE v[i - Len(r)]
    BY <1>2
  <1> HIDE DEF x, y
  <1>5. PICK m \in Nat, n \in Nat : m = Len(r) /\ n = Len(t)
    OBVIOUS
  <1>6. Len(u) = m + n /\ Len(v) = n + 1 /\ Len(x) = m + n + 1 /\ Len(y) = m + n + 1
    BY <1>1, <1>2, <1>3, <1>4, <1>5
  <1>7. ASSUME NEW i \in 1 .. m + n + 1 PROVE x[i] = y[i]
    <2>1. CASE i <= m
      <3>1. x[i] = u[i] /\ u[i] = r[i]
        BY <2>1, <1>1, <1>3, <1>5, <1>6
      <3>2. y[i] = r[i]
        BY <2>1, <1>4, <1>5, <1>6
      <3> QED BY <3>1, <3>2
    <2>2. CASE i > m /\ i <= m + n
      <3>1. x[i] = t[i - m]
        BY <2>2, <1>1, <1>3, <1>5, <1>6
      <3>2. y[i] = v[i - m] /\ i - m \in 1 .. n
        BY <2>2, <1>4, <1>5, <1>6
      <3> QED BY <3>1, <3>2, <1>2, <1>5
    <2>3. CASE i = m + n + 1
      <3>1. x[i] = b
        BY <2>3, <1>3, <1>6
      <3>2. y[i] = v[n + 1]
        BY <2>3, <1>4, <1>5, <1>6
      <3> QED BY <3>1, <3>2, <1>2, <1>5
    <2> QED BY <2>1, <2>2, <2>3, <1>5
  <1>8. x = y
    BY <1>3, <1>4, <1>6, <1>7
  <1> QED BY <1>2, <1>8 DEF x, y, u, v

LEMMA LinesSteps ==
  ASSUME LinesInv, [Terminal!Next]_s
  PROVE  LinesInv'
  <1>1. CASE s' = s
    BY <1>1 DEF LinesInv, LinesOf, Taking, Partial, Said
  <1>2. ASSUME s' = Terminal!Polled(s, UsbBudget) PROVE LinesInv'
    <2>1. LinesOf(Terminal!Polled(s, UsbBudget))
      BY <1>2, PollKeeps, TerminalAssumption DEF LinesInv
    <2> QED BY <2>1, <1>2 DEF LinesInv, LinesOf, Taking, Partial, Said
  <1>3. ASSUME NEW byte \in Terminal!Bytes, Terminal!Sends(byte) PROVE LinesInv'
    <2>1. PICK r \in Seq(Terminal!Bytes) : s.sent = r \o s.waiting /\ Taking(s, r)
      BY <1>3 DEF LinesInv, LinesOf
    <2>2. /\ s.waiting \in Seq(Terminal!Bytes)
          /\ DOMAIN s = {"unit", "line", "overflow", "waiting", "said", "sent"}
      BY <1>3 DEF LinesInv, LinesOf
    <2>3. /\ DOMAIN s' = DOMAIN s /\ s'.unit = "lines" /\ s'.line = s.line /\ s'.overflow = s.overflow
          /\ s'.said = s.said /\ s'.waiting = Append(s.waiting, byte) /\ s'.sent = Append(s.sent, byte)
      <3>1. s' = [s EXCEPT !.waiting = Append(s.waiting, byte), !.sent = Append(s.sent, byte)]
        BY <1>3 DEF Terminal!Sends
      <3>2. s.unit = "lines"
        BY DEF LinesInv, LinesOf
      <3> DEFINE waiting == Append(s.waiting, byte)
                 sent == Append(s.sent, byte)
      <3>3. s' = [s EXCEPT !.waiting = waiting, !.sent = sent]
        BY <3>1
      <3> HIDE DEF waiting, sent
      <3>4. /\ DOMAIN s' = DOMAIN s /\ s'.unit = "lines" /\ s'.line = s.line /\ s'.overflow = s.overflow
            /\ s'.said = s.said /\ s'.waiting = waiting /\ s'.sent = sent
        BY <2>2, <3>2, <3>3
      <3> QED BY <3>4 DEF waiting, sent
    <2>4. Append(s.waiting, byte) \in Seq(Terminal!Bytes) /\ Append(r \o s.waiting, byte) = r \o Append(s.waiting, byte)
      <3> DEFINE t == s.waiting
      <3>1. t \in Seq(Terminal!Bytes)
        BY <2>2
      <3> HIDE DEF t
      <3>2. Append(t, byte) \in Seq(Terminal!Bytes) /\ Append(r \o t, byte) = r \o Append(t, byte)
        BY <2>1, <3>1, <1>3, AppendedLast
      <3> QED BY <3>2 DEF t
    <2>5. s'.waiting \in Seq(Terminal!Bytes) /\ s'.sent = r \o s'.waiting
      BY <2>1, <2>3, <2>4
    <2>6. Taking(s', r)
      BY <2>1, <2>3 DEF Taking, Partial, Said
    <2>7. LinesOf(s')
      BY <2>2, <2>3, <2>5, <2>6 DEF LinesOf
    <2> QED BY <2>7 DEF LinesInv, LinesOf, Taking, Partial, Said
  <1>4. s.unit = "lines"
    BY DEF LinesInv, LinesOf
  <1> QED BY <1>1, <1>2, <1>3, <1>4 DEF Terminal!Next, Terminal!Lines

\* What the property says of the state.
LEMMA LinesSaid ==
  ASSUME s.unit = "lines", LinesInv
  PROVE  Terminal!LinesOnce
  <1>1. PICK r \in Seq(Terminal!Bytes) : s.sent = r \o s.waiting /\ Taking(s, r)
    BY DEF LinesInv, LinesOf
  <1>2. s.waiting \in Seq(Terminal!Bytes)
    BY DEF LinesInv, LinesOf
  <1>3. SubSeq(r \o s.waiting, 1, Len(r \o s.waiting) - Len(s.waiting)) = r
    BY <1>1, <1>2
  <1>4. Terminal!Read = r
    BY <1>1, <1>3 DEF Terminal!Read
  <1>5. Terminal!Ends = EndsIn(r)
    BY <1>4 DEF Terminal!Ends, EndsIn
  <1>6. ASSUME NEW e \in EndsIn(r) PROVE Terminal!Line(e) = LineIn(r, e)
    <2>1. e \in 1 .. Len(r)
      BY DEF EndsIn
    <2>2. PICK p : Starting(r, p, e - 1)
      BY <2>1, LineExists
    <2>3. Terminal!Start(e) = p
      <3> DEFINE Begun(i) == (i = 0 \/ i \in EndsIn(r)) /\ \A j \in i + 1 .. e - 1 : j \notin EndsIn(r)
      <3>1. \A i \in 0 .. e - 1 : Begun(i) <=> Starting(r, i, e - 1)
        BY DEF Starting
      <3>2. p \in 0 .. e - 1
        BY <2>2 DEF Starting
      <3>3. \A i \in 0 .. e - 1 : Begun(i) => i = p
        BY <2>1, <2>2, <3>1, BeginsOnce
      <3>4. Begun(p)
        BY <2>2, <3>1, <3>2
      <3> HIDE DEF Begun
      <3>5. p = CHOOSE i \in 0 .. e - 1 : Begun(i)
        BY <3>2, <3>3, <3>4
      <3> QED BY <3>5, <1>5 DEF Terminal!Start, Begun
    <2> QED BY <1>4, <2>1, <2>2, <2>3, LineBegins DEF Terminal!Line
  <1>7. {e \in Terminal!Ends : Terminal!Line(e) # <<>>} = Whole(r)
    BY <1>5, <1>6 DEF Whole
  <1>8. Terminal!Cardinality(Whole(r)) = Cardinality(Whole(r))
    BY DEF Terminal!Cardinality, Cardinality, Terminal!IsFiniteSet, IsFiniteSet
  <1> DEFINE whole == {e \in Terminal!Ends : Terminal!Line(e) # <<>>}
  <1>9. Len(s.said) = Terminal!Cardinality(whole)
    <2> HIDE DEF whole
    <2> QED BY <1>1, <1>7, <1>8 DEF Taking, Said, whole
  <1>10. ASSUME NEW e \in Whole(r)
         PROVE  s.said[Terminal!Cardinality({d \in whole : d <= e})] = Terminal!Says(Terminal!Line(e))
    <2> DEFINE before == {d \in Whole(r) : d <= e}
    <2>1. {d \in whole : d <= e} = before
      BY <1>7
    <2>2. Terminal!Cardinality(before) = Cardinality(before)
      BY DEF Terminal!Cardinality, Cardinality, Terminal!IsFiniteSet, IsFiniteSet
    <2>3. Terminal!Line(e) = LineIn(r, e)
      BY <1>6 DEF Whole
    <2>4. s.said[Rank(r, e)] = Terminal!Says(LineIn(r, e))
      BY <1>1 DEF Taking, Said
    <2>5. Rank(r, e) = Cardinality(before)
      BY DEF Rank
    <2> HIDE DEF before, whole
    <2> QED BY <2>1, <2>2, <2>3, <2>4, <2>5
  <1>11. Len(s.line) <= UsbLine
    BY <1>1 DEF Taking
  <1>12. \A e \in whole : e \in Whole(r)
    BY <1>7
  <1> HIDE DEF whole
  <1>13. \A e \in whole : s.said[Terminal!Cardinality({d \in whole : d <= e})] = Terminal!Says(Terminal!Line(e))
    BY <1>10, <1>12
  <1> QED BY <1>9, <1>11, <1>13 DEF Terminal!LinesOnce, whole

TerminalInv == IF s.unit = "lines" THEN LinesInv ELSE CommandsInv

\* Each line that a terminal sends is carried out once, whole and in its order, or refused, however
\* its bytes are spread over the passes of the loop and for any budget and length of a line; a command
\* sets the field that it names to any value in its range, and nothing else (usb_commands.cpp).
THEOREM TerminalObeyed == DeviceSpec => [](part = "terminal" => Terminal!TerminalRight)
  <1> DEFINE Inv == part = "terminal" => TerminalInv
  <1>1. DeviceInit => Inv
    <2> SUFFICES ASSUME DeviceInit, part = "terminal" PROVE TerminalInv
      OBVIOUS
    <2>1. Terminal!LinesInit \/ Terminal!CommandsInit
      BY AlgorithmsBegin DEF Terminal!Init
    <2>2. Terminal!LinesInit => LinesInv /\ s.unit = "lines"
      BY LinesBegin DEF Terminal!LinesInit, LinesInv
    <2>3. Terminal!CommandsInit => CommandsInv /\ s.unit = "commands"
      BY CommandsBegin DEF Terminal!CommandsInit, Terminal!FirstProfile
    <2> QED BY <2>1, <2>2, <2>3 DEF TerminalInv
  <1>2. Inv /\ [DeviceNext]_deviceVars => Inv'
    <2> SUFFICES ASSUME part = "terminal", TerminalInv, [Terminal!Next]_s PROVE TerminalInv'
      BY AlgorithmsAlone
    <2>1. CASE s.unit = "lines"
      <3>1. LinesInv'
        BY <2>1, LinesSteps DEF TerminalInv
      <3>2. s'.unit = "lines"
        BY <3>1 DEF LinesInv, LinesOf
      <3> QED BY <3>1, <3>2 DEF TerminalInv
    <2>2. CASE s.unit # "lines"
      <3>1. CommandsInv'
        BY <2>2, CommandsStep DEF TerminalInv
      <3>2. s'.unit = "commands"
        BY <3>1 DEF CommandsInv
      <3> QED BY <3>1, <3>2 DEF TerminalInv
    <2> QED BY <2>1, <2>2
  <1>3. Inv => (part = "terminal" => Terminal!TerminalRight)
    <2>1. CommandsInv => s.unit = "commands"
      BY DEF CommandsInv
    <2> QED BY <2>1, LinesSaid, CommandsObeyed DEF TerminalInv, Terminal!TerminalRight
  <1> QED BY <1>1, <1>2, <1>3, PTL DEF DeviceSpec

-----------------------------------------------------------------------------
(* Inputs: texts in UTF-8 *)

\* The bytes of a text.
IsText(bytes, n) == n \in Nat /\ n = Len(bytes) /\ \A i \in 1 .. n : bytes[i] \in 0 .. 255

LEMMA SizeOf ==
  ASSUME NEW lead \in 0 .. 255
  PROVE  /\ Inputs!Size(lead) \in 0 .. 4
         /\ Inputs!Size(lead) = 1 <=> lead < 128
         /\ Inputs!Size(lead) = 2 <=> lead \in 194 .. 223
         /\ Inputs!Size(lead) = 3 <=> lead \in 224 .. 239
         /\ Inputs!Size(lead) = 4 <=> lead \in 240 .. 244
  <1> DEFINE size == Inputs!Size(lead)
  <1>1. /\ lead < 128 => size = 1
        /\ lead \in 194 .. 223 => size = 2
        /\ lead \in 224 .. 239 => size = 3
        /\ lead \in 240 .. 244 => size = 4
        /\ ~(lead < 128) /\ lead \notin 194 .. 223 /\ lead \notin 224 .. 239 /\ lead \notin 240 .. 244 => size = 0
    BY DEF Inputs!Size
  <1> HIDE DEF size
  <1>2. lead < 128 \/ lead \in 194 .. 223 \/ lead \in 224 .. 239 \/ lead \in 240 .. 244
        \/ (~(lead < 128) /\ lead \notin 194 .. 223 /\ lead \notin 224 .. 239 /\ lead \notin 240 .. 244)
    OBVIOUS
  <1>3. size \in 0 .. 4 /\ (size = 1 <=> lead < 128) /\ (size = 2 <=> lead \in 194 .. 223)
        /\ (size = 3 <=> lead \in 224 .. 239) /\ (size = 4 <=> lead \in 240 .. 244)
    BY <1>1, <1>2
  <1> QED BY <1>3 DEF size

\* The value of a code point, as the sum that the loop makes of its bytes.
LEMMA ValueOf ==
  ASSUME NEW bytes, NEW from \in Nat, NEW size \in 2 .. 4, \A i \in 0 .. size - 1 : bytes[from + i] \in 0 .. 255
  PROVE  LET a == bytes[from] % (2 ^ (7 - size))
             b == bytes[from + 1] % 64
             c == bytes[from + 2] % 64
             d == bytes[from + 3] % 64
         IN /\ size = 2 => Inputs!Value(bytes, from, size) = a * 64 + b
            /\ size = 3 => Inputs!Value(bytes, from, size) = (a * 64 + b) * 64 + c
            /\ size = 4 => Inputs!Value(bytes, from, size) = ((a * 64 + b) * 64 + c) * 64 + d
  <1> DEFINE n == size - 1
             first == bytes[from] % (2 ^ (7 - size))
             Bits(i) == bytes[from + i] % 64
             step == [i \in Nat |-> [z \in Int |-> IF i \in 1 .. n THEN z * 64 + Bits(i) ELSE z]]
             Is(f) == f = [i \in 0 .. size - 1 |-> IF i = 0 THEN bytes[from] % (2 ^ (7 - size)) ELSE f[i - 1] * 64 + (bytes[from + i] % 64)]
             f == CHOOSE h : Is(h)
  <1>1. n \in Nat /\ first \in Int /\ \A i \in 1 .. n : Bits(i) \in Int
    <2>1. n \in Nat
      OBVIOUS
    <2>2. first \in Int
      <3>1. bytes[from + 0] \in 0 .. 255 /\ from + 0 = from
        OBVIOUS
      <3>2. 2 ^ (7 - size) \in {32, 16, 8}
        <4>1. size = 2 => 2 ^ (7 - size) = 32
          OBVIOUS
        <4>2. size = 3 => 2 ^ (7 - size) = 16
          OBVIOUS
        <4>3. size = 4 => 2 ^ (7 - size) = 8
          OBVIOUS
        <4> QED BY <4>1, <4>2, <4>3
      <3> QED BY <3>1, <3>2
    <2>3. ASSUME NEW i \in 1 .. n PROVE Bits(i) \in Int
      <3>1. bytes[from + i] \in 0 .. 255
        OBVIOUS
      <3> QED BY <3>1
    <2> QED BY <2>1, <2>2, <2>3
  <1> HIDE DEF first, Bits
  <1>2. step \in [Nat -> [Int -> Int]]
    <2> HIDE DEF n
    <2>1. \A i \in Nat, z \in Int : (IF i \in 1 .. n THEN z * 64 + Bits(i) ELSE z) \in Int
      BY <1>1
    <2> QED BY <2>1
  <1>3. PICK g \in [0 .. n -> Int] : Goes(g, n, first, step)
    <2> HIDE DEF step, n
    <2>1. PICK T : T = Int
      OBVIOUS
    <2>2. first \in T /\ step \in [Nat -> [T -> T]]
      BY <2>1, <1>1, <1>2
    <2>3. \E g \in [0 .. n -> T] : Goes(g, n, first, step)
      BY <2>2, <1>1, Recursion
    <2> QED BY <2>1, <2>3
  <1>4. g[0] = first /\ \A i \in 1 .. n : g[i] = step[i][g[i - 1]]
    <2> HIDE DEF step, n
    <2> QED BY <1>3 DEF Goes
  <1>5. ASSUME NEW i \in 1 .. n PROVE g[i] = g[i - 1] * 64 + Bits(i)
    <2>1. i \in Nat /\ g[i - 1] \in Int
      BY <1>1, <1>3
    <2>2. step[i][g[i - 1]] = g[i - 1] * 64 + Bits(i)
      BY <2>1
    <2> HIDE DEF step, n
    <2> QED BY <2>2, <1>4
  <1> HIDE DEF step
  <1>6. Is(g)
    <2>1. g = [i \in 0 .. n |-> IF i = 0 THEN first ELSE g[i - 1] * 64 + Bits(i)]
      <3> HIDE DEF n
      <3>1. ASSUME NEW i \in 0 .. n PROVE g[i] = IF i = 0 THEN first ELSE g[i - 1] * 64 + Bits(i)
        <4>1. CASE i = 0
          BY <4>1, <1>4
        <4>2. CASE i # 0
          <5>1. i \in 1 .. n
            BY <4>2, <1>1
          <5> QED BY <5>1, <4>2, <1>5
        <4> QED BY <4>1, <4>2
      <3> QED BY <3>1, <1>3
    <2> QED BY <2>1 DEF first, Bits
  <1>7. Is(f)
    <2> HIDE DEF Is
    <2> QED BY <1>6
  <1>8. Inputs!Value(bytes, from, size) = f[n]
    BY DEF Inputs!Value
  <1> HIDE DEF f
  <1>9. \A i \in 0 .. n : f[i] = IF i = 0 THEN first ELSE f[i - 1] * 64 + Bits(i)
    BY <1>7 DEF first, Bits
  <1>10. f[0] = first /\ f[1] = f[0] * 64 + Bits(1)
    <2>1. 0 \in 0 .. n /\ 1 \in 0 .. n /\ 1 - 1 = 0
      OBVIOUS
    <2> HIDE DEF n
    <2> QED BY <2>1, <1>9
  <1>11. size >= 3 => f[2] = f[1] * 64 + Bits(2)
    <2>1. size >= 3 => 2 \in 0 .. n /\ 2 - 1 = 1
      OBVIOUS
    <2> HIDE DEF n
    <2> QED BY <2>1, <1>9
  <1>12. size >= 4 => f[3] = f[2] * 64 + Bits(3)
    <2>1. size >= 4 => 3 \in 0 .. n /\ 3 - 1 = 2
      OBVIOUS
    <2> HIDE DEF n
    <2> QED BY <2>1, <1>9
  <1> QED BY <1>8, <1>10, <1>11, <1>12 DEF first, Bits

\* The well-formed sequences, by the bytes of one: their number, and what the first four are.
Formed(size, a, b, c, d) ==
  \/ size = 1 /\ a \in 0 .. 127
  \/ size = 2 /\ a \in 194 .. 223 /\ b \in 128 .. 191
  \/ size = 3 /\ c \in 128 .. 191
              /\ \/ a = 224 /\ b \in 160 .. 191
                 \/ a \in (225 .. 236) \cup {238, 239} /\ b \in 128 .. 191
                 \/ a = 237 /\ b \in 128 .. 159
  \/ size = 4 /\ c \in 128 .. 191 /\ d \in 128 .. 191
              /\ \/ a = 240 /\ b \in 144 .. 191
                 \/ a \in 241 .. 243 /\ b \in 128 .. 191
                 \/ a = 244 /\ b \in 128 .. 143

InRow(bytes, from, to, row) == Len(row) = to - from + 1 /\ \A i \in 1 .. Len(row) : bytes[from + i - 1] \in row[i]

Rows1(row, A) == Len(row) = 1 /\ row[1] = A
Rows2(row, A, B) == Len(row) = 2 /\ row[1] = A /\ row[2] = B
Rows3(row, A, B, C) == Len(row) = 3 /\ row[1] = A /\ row[2] = B /\ row[3] = C
Rows4(row, A, B, C, D) == Len(row) = 4 /\ row[1] = A /\ row[2] = B /\ row[3] = C /\ row[4] = D

LEMMA RowOf ==
  ASSUME NEW bytes, NEW from \in Nat, NEW to \in Nat, NEW row
  PROVE  LET a == bytes[from]
             b == bytes[from + 1]
             c == bytes[from + 2]
             d == bytes[from + 3]
             n == to - from + 1
         IN /\ \A A : Rows1(row, A) => (InRow(bytes, from, to, row) <=> n = 1 /\ a \in A)
            /\ \A A, B : Rows2(row, A, B) => (InRow(bytes, from, to, row) <=> n = 2 /\ a \in A /\ b \in B)
            /\ \A A, B, C : Rows3(row, A, B, C) => (InRow(bytes, from, to, row) <=> n = 3 /\ a \in A /\ b \in B /\ c \in C)
            /\ \A A, B, C, D : Rows4(row, A, B, C, D) =>
                 (InRow(bytes, from, to, row) <=> n = 4 /\ a \in A /\ b \in B /\ c \in C /\ d \in D)
  <1> DEFINE x(i) == bytes[from + i - 1]
             m == Len(row)
             t == to - from + 1
  <1>1. x(1) = bytes[from] /\ x(2) = bytes[from + 1] /\ x(3) = bytes[from + 2] /\ x(4) = bytes[from + 3]
    <2>1. from + 1 - 1 = from /\ from + 2 - 1 = from + 1 /\ from + 3 - 1 = from + 2 /\ from + 4 - 1 = from + 3
      OBVIOUS
    <2> QED BY <2>1
  <1>2. InRow(bytes, from, to, row) <=> m = t /\ \A i \in 1 .. m : x(i) \in row[i]
    BY DEF InRow
  <1>3. t \in Int
    OBVIOUS
  <1> HIDE DEF x, m, t
  <1>4. ASSUME NEW A, Rows1(row, A) PROVE InRow(bytes, from, to, row) <=> t = 1 /\ x(1) \in A
    <2>1. m = 1 /\ row[1] = A
      BY <1>4 DEF Rows1, m
    <2>2. (\A i \in 1 .. m : x(i) \in row[i]) <=> x(1) \in row[1]
      BY <2>1
    <2> QED BY <1>2, <2>1, <2>2
  <1>5. ASSUME NEW A, NEW B, Rows2(row, A, B) PROVE InRow(bytes, from, to, row) <=> t = 2 /\ x(1) \in A /\ x(2) \in B
    <2>1. m = 2 /\ row[1] = A /\ row[2] = B
      BY <1>5 DEF Rows2, m
    <2>2. (\A i \in 1 .. m : x(i) \in row[i]) <=> x(1) \in row[1] /\ x(2) \in row[2]
      <3>1. \A i : i \in 1 .. m <=> i = 1 \/ i = 2
        BY <2>1
      <3> QED BY <3>1
    <2> QED BY <1>2, <2>1, <2>2
  <1>6. ASSUME NEW A, NEW B, NEW C, Rows3(row, A, B, C)
        PROVE  InRow(bytes, from, to, row) <=> t = 3 /\ x(1) \in A /\ x(2) \in B /\ x(3) \in C
    <2>1. m = 3 /\ row[1] = A /\ row[2] = B /\ row[3] = C
      BY <1>6 DEF Rows3, m
    <2>2. (\A i \in 1 .. m : x(i) \in row[i]) <=> x(1) \in row[1] /\ x(2) \in row[2] /\ x(3) \in row[3]
      <3>1. \A i : i \in 1 .. m <=> i = 1 \/ i = 2 \/ i = 3
        BY <2>1
      <3> QED BY <3>1
    <2> QED BY <1>2, <2>1, <2>2
  <1>7. ASSUME NEW A, NEW B, NEW C, NEW D, Rows4(row, A, B, C, D)
        PROVE  InRow(bytes, from, to, row) <=> t = 4 /\ x(1) \in A /\ x(2) \in B /\ x(3) \in C /\ x(4) \in D
    <2>1. m = 4 /\ row[1] = A /\ row[2] = B /\ row[3] = C /\ row[4] = D
      BY <1>7 DEF Rows4, m
    <2>2. (\A i \in 1 .. m : x(i) \in row[i]) <=> x(1) \in row[1] /\ x(2) \in row[2] /\ x(3) \in row[3] /\ x(4) \in row[4]
      <3>1. \A i : i \in 1 .. m <=> i = 1 \/ i = 2 \/ i = 3 \/ i = 4
        BY <2>1
      <3> QED BY <3>1
    <2> QED BY <1>2, <2>1, <2>2
  <1> QED BY <1>1, <1>4, <1>5, <1>6, <1>7 DEF t

LEMMA CharacterIs ==
  ASSUME NEW bytes, NEW from \in Nat, NEW to \in Nat
  PROVE  Inputs!Character(bytes, from, to) <=>
           Formed(to - from + 1, bytes[from], bytes[from + 1], bytes[from + 2], bytes[from + 3])
  <1> DEFINE T == Inputs!Trail
             r1 == <<0 .. 127>>
             r2 == <<194 .. 223, T>>
             r3 == <<{224}, 160 .. 191, T>>
             r4 == <<(225 .. 236) \cup {238, 239}, T, T>>
             r5 == <<{237}, 128 .. 159, T>>
             r6 == <<{240}, 144 .. 191, T, T>>
             r7 == <<241 .. 243, T, T, T>>
             r8 == <<{244}, 128 .. 143, T, T>>
             a == bytes[from]
             b == bytes[from + 1]
             c == bytes[from + 2]
             d == bytes[from + 3]
             n == to - from + 1
             In(row) == InRow(bytes, from, to, row)
  <1>1. Inputs!Table = {r1, r2, r3, r4, r5, r6, r7, r8}
    BY Zenon DEF Inputs!Table
  <1>20. Rows1(r1, 0 .. 127)
    BY DEF Rows1
  <1>21. Rows2(r2, 194 .. 223, T)
    BY DEF Rows2
  <1>22. Rows3(r3, {224}, 160 .. 191, T)
    BY DEF Rows3
  <1>23. Rows3(r4, (225 .. 236) \cup {238, 239}, T, T)
    BY DEF Rows3
  <1>24. Rows3(r5, {237}, 128 .. 159, T)
    BY DEF Rows3
  <1>25. Rows4(r6, {240}, 144 .. 191, T, T)
    BY DEF Rows4
  <1>26. Rows4(r7, 241 .. 243, T, T, T)
    BY DEF Rows4
  <1>27. Rows4(r8, {244}, 128 .. 143, T, T)
    BY DEF Rows4
  <1>3. Inputs!Character(bytes, from, to) <=> \E row \in Inputs!Table : In(row)
    BY DEF Inputs!Character, InRow
  <1> HIDE DEF r1, r2, r3, r4, r5, r6, r7, r8
  <1>4. In(r1) <=> n = 1 /\ a \in 0 .. 127
    <2>1. PICK A : A = 0 .. 127
      OBVIOUS
    <2>2. Rows1(r1, A)
      BY <1>20, <2>1
    <2>3. In(r1) <=> n = 1 /\ a \in A
      BY <2>2, RowOf
    <2> QED BY <2>1, <2>3
  <1>5. In(r2) <=> n = 2 /\ a \in 194 .. 223 /\ b \in T
    BY <1>21, RowOf
  <1>6. In(r3) <=> n = 3 /\ a \in {224} /\ b \in 160 .. 191 /\ c \in T
    BY <1>22, RowOf
  <1>7. In(r4) <=> n = 3 /\ a \in (225 .. 236) \cup {238, 239} /\ b \in T /\ c \in T
    BY <1>23, RowOf
  <1>8. In(r5) <=> n = 3 /\ a \in {237} /\ b \in 128 .. 159 /\ c \in T
    BY <1>24, RowOf
  <1>9. In(r6) <=> n = 4 /\ a \in {240} /\ b \in 144 .. 191 /\ c \in T /\ d \in T
    <2>1. PICK A, B : A = {240} /\ B = 144 .. 191
      OBVIOUS
    <2>2. Rows4(r6, A, B, T, T)
      BY <1>25, <2>1
    <2>3. In(r6) <=> n = 4 /\ a \in A /\ b \in B /\ c \in T /\ d \in T
      BY <2>2, RowOf
    <2> QED BY <2>1, <2>3
  <1>10. In(r7) <=> n = 4 /\ a \in 241 .. 243 /\ b \in T /\ c \in T /\ d \in T
    BY <1>26, RowOf
  <1>11. In(r8) <=> n = 4 /\ a \in {244} /\ b \in 128 .. 143 /\ c \in T /\ d \in T
    BY <1>27, RowOf
  <1>12. T = 128 .. 191
    BY DEF Inputs!Trail
  <1> HIDE DEF In, T, a, b, c, d, n
  <1>13. (\E row \in Inputs!Table : In(row)) <=>
           In(r1) \/ In(r2) \/ In(r3) \/ In(r4) \/ In(r5) \/ In(r6) \/ In(r7) \/ In(r8)
    BY <1>1
  <1>14. Inputs!Character(bytes, from, to) <=> Formed(n, a, b, c, d)
    BY <1>3, <1>4, <1>5, <1>6, <1>7, <1>8, <1>9, <1>10, <1>11, <1>12, <1>13 DEF Formed
  <1> QED BY <1>14 DEF a, b, c, d, n

\* What the loop accepts is a well-formed sequence, and all of it lies in the text.
Accepted(bytes, from, end) ==
  /\ Inputs!Size(bytes[from]) # 0 /\ Inputs!Size(bytes[from]) <= end - from + 1
  /\ Formed(Inputs!Size(bytes[from]), bytes[from], bytes[from + 1], bytes[from + 2], bytes[from + 3])

\* The second byte of three and of four, and the values of a size.
Third(a, b) ==
  \/ a = 224 /\ b \in 160 .. 191
  \/ a \in (225 .. 236) \cup {238, 239} /\ b \in 128 .. 191
  \/ a = 237 /\ b \in 128 .. 159
Fourth(a, b) ==
  \/ a = 240 /\ b \in 144 .. 191
  \/ a \in 241 .. 243 /\ b \in 128 .. 191
  \/ a = 244 /\ b \in 128 .. 143
InPlane(value, least) == value >= least /\ value <= 1114111 /\ value \notin 55296 .. 57343

\* The values of two, three and four bytes that are in range: the ranges of table 3-7.
ThreeOf(value, a, b, c) == value = ((a % 16) * 64 + (b % 64)) * 64 + (c % 64)
FourOf(value, a, b, c, d) == value = (((a % 8) * 64 + (b % 64)) * 64 + (c % 64)) * 64 + (d % 64)
ThirdIn(value, a, b) == InPlane(value, 2048) <=> Third(a, b)
FourthIn(value, a, b) == InPlane(value, 65536) <=> Fourth(a, b)

LEMMA TwoBytes ==
  ASSUME NEW a \in 194 .. 223, NEW b \in 128 .. 191, NEW value, value = (a % 32) * 64 + (b % 64)
  PROVE  InPlane(value, 128)
  <1>1. a % 32 = a - 192 /\ b % 64 = b - 128
    OBVIOUS
  <1> QED BY SMT, <1>1 DEF InPlane

LEMMA ThreeBytes ==
  ASSUME NEW a \in 224 .. 239, NEW b \in 128 .. 191, NEW c \in 128 .. 191,
         NEW value, ThreeOf(value, a, b, c)
  PROVE  ThirdIn(value, a, b)
  <1>1. a % 16 = a - 224 /\ b % 64 = b - 128 /\ c % 64 = c - 128
    OBVIOUS
  <1>2. value = (a - 224) * 4096 + (b - 128) * 64 + (c - 128)
    BY SMT, <1>1 DEF ThreeOf
  <1> QED BY SMT, <1>2 DEF InPlane, Third, ThirdIn

LEMMA FourBytes ==
  ASSUME NEW a \in 240 .. 244, NEW b \in 128 .. 191, NEW c \in 128 .. 191, NEW d \in 128 .. 191,
         NEW value, FourOf(value, a, b, c, d)
  PROVE  FourthIn(value, a, b)
  <1>1. a % 8 = a - 240 /\ b % 64 = b - 128 /\ c % 64 = c - 128 /\ d % 64 = d - 128
    OBVIOUS
  <1>2. value
          = (a - 240) * 262144 + (b - 128) * 4096 + (c - 128) * 64 + (d - 128)
    BY SMT, <1>1 DEF FourOf
  <1> DEFINE rest == (c - 128) * 64 + (d - 128)
             page == (a - 240) * 64 + (b - 128)
  <1>3. value = page * 4096 + rest /\ rest \in 0 .. 4095 /\ page \in Int
    BY SMT, <1>2
  <1>4. Fourth(a, b) <=> page >= 16 /\ page <= 271
    BY SMT DEF Fourth
  <1> HIDE DEF rest, page
  <1>5. InPlane(value, 65536) <=> page >= 16 /\ page <= 271
    <2>1. page <= 15 => value < 65536
      BY SMT, <1>3
    <2>2. page >= 16 => value >= 65536
      BY SMT, <1>3
    <2>3. page <= 271 => value <= 1114111
      BY SMT, <1>3
    <2>4. page >= 272 => value > 1114111
      BY SMT, <1>3
    <2>5. value \in Int /\ (page <= 15 \/ page >= 16) /\ (page <= 271 \/ page >= 272)
      BY SMT, <1>3
    <2> QED BY SMT, <2>1, <2>2, <2>3, <2>4, <2>5 DEF InPlane
  <1> QED BY SMT, <1>4, <1>5 DEF FourthIn

LEMMA RangeOf ==
  ASSUME NEW value, NEW size \in 2 .. 4
  PROVE  /\ size = 2 => (Inputs!InRange(value, size) <=> InPlane(value, 128))
         /\ size = 3 => (Inputs!InRange(value, size) <=> InPlane(value, 2048))
         /\ size = 4 => (Inputs!InRange(value, size) <=> InPlane(value, 65536))
  BY SMT DEF Inputs!InRange, InPlane

LEMMA CodePointIs ==
  ASSUME NEW bytes, NEW n \in Nat, IsText(bytes, n), NEW end \in 0 .. n, NEW from \in 1 .. end
  PROVE  Inputs!CodePoint(bytes, from, end) <=> Accepted(bytes, from, end)
  <1> DEFINE a == bytes[from]
             b == bytes[from + 1]
             c == bytes[from + 2]
             d == bytes[from + 3]
             size == Inputs!Size(a)
             room == end - from + 1
             value == Inputs!Value(bytes, from, size)
             follow == \A i \in from + 1 .. from + size - 1 : bytes[i] \in 128 .. 191
             good == Inputs!InRange(value, size)
  <1>1. Inputs!CodePoint(bytes, from, end) <=> size > 0 /\ size <= room /\ follow /\ (size > 1 => good)
    BY Zenon DEF Inputs!CodePoint
  <1>2. Accepted(bytes, from, end) <=> size # 0 /\ size <= room /\ Formed(size, a, b, c, d)
    BY DEF Accepted
  <1>3. /\ a \in 0 .. 255
        /\ \A i \in 1 .. n : bytes[i] \in 0 .. 255
    <2>1. \A i \in 1 .. n : bytes[i] \in 0 .. 255
      BY DEF IsText
    <2>2. from \in 1 .. n
      OBVIOUS
    <2> QED BY <2>1, <2>2
  <1>4. /\ size \in 0 .. 4
        /\ size = 1 <=> a < 128
        /\ size = 2 <=> a \in 194 .. 223
        /\ size = 3 <=> a \in 224 .. 239
        /\ size = 4 <=> a \in 240 .. 244
    <2> HIDE DEF a
    <2> QED BY <1>3, SizeOf
  <1>5. /\ size = 2 => (good <=> InPlane(value, 128))
        /\ size = 3 => (good <=> InPlane(value, 2048))
        /\ size = 4 => (good <=> InPlane(value, 65536))
    <2> HIDE DEF value, size
    <2>1. CASE size \in 2 .. 4
      BY SMT, <2>1, RangeOf
    <2>2. CASE size \notin 2 .. 4
      BY SMT, <2>2
    <2> QED BY SMT, <2>1, <2>2
  <1>6. room \in Nat /\ room >= 1
    OBVIOUS
  <1>7. ASSUME size \in 2 .. 4, size <= room
        PROVE  /\ size = 2 => value = (a % 32) * 64 + (b % 64)
               /\ size = 3 => value = ((a % 16) * 64 + (b % 64)) * 64 + (c % 64)
               /\ size = 4 => value = (((a % 8) * 64 + (b % 64)) * 64 + (c % 64)) * 64 + (d % 64)
    <2>1. from \in Nat
      OBVIOUS
    <2>2. ASSUME NEW i \in 0 .. size - 1 PROVE bytes[from + i] \in 0 .. 255
      <3> HIDE DEF size
      <3>1. from + i \in 1 .. n
        BY <1>7
      <3> QED BY <3>1, <1>3
    <2>3. PICK k \in 2 .. 4 : k = size
      BY <1>7
    <2>4. \A i \in 0 .. k - 1 : bytes[from + i] \in 0 .. 255
      BY <2>2, <2>3
    <2> DEFINE first == a % (2 ^ (7 - k))
    <2>5. /\ k = 2 => Inputs!Value(bytes, from, k) = first * 64 + (b % 64)
          /\ k = 3 => Inputs!Value(bytes, from, k) = (first * 64 + (b % 64)) * 64 + (c % 64)
          /\ k = 4 => Inputs!Value(bytes, from, k) = ((first * 64 + (b % 64)) * 64 + (c % 64)) * 64 + (d % 64)
      BY <2>1, <2>4, ValueOf
    <2>6. /\ k = 2 => first = a % 32
          /\ k = 3 => first = a % 16
          /\ k = 4 => first = a % 8
      <3>1. k = 2 => 2 ^ (7 - k) = 32
        OBVIOUS
      <3>2. k = 3 => 2 ^ (7 - k) = 16
        OBVIOUS
      <3>3. k = 4 => 2 ^ (7 - k) = 8
        OBVIOUS
      <3> QED BY <3>1, <3>2, <3>3
    <2> HIDE DEF first
    <2>7. value = Inputs!Value(bytes, from, k)
      BY <2>3
    <2> HIDE DEF value, size
    <2> QED BY <2>3, <2>5, <2>6, <2>7
  <1>8. /\ size = 1 => follow
        /\ size = 2 => (follow <=> b \in 128 .. 191)
        /\ size = 3 => (follow <=> b \in 128 .. 191 /\ c \in 128 .. 191)
        /\ size = 4 => (follow <=> b \in 128 .. 191 /\ c \in 128 .. 191 /\ d \in 128 .. 191)
    <2> HIDE DEF size
    <2>1. CASE size = 1
      BY <2>1
    <2>2. CASE size = 2
      <3>1. \A i : i \in from + 1 .. from + size - 1 <=> i = from + 1
        BY <2>2
      <3> QED BY <3>1, <2>2
    <2>3. CASE size = 3
      <3>1. \A i : i \in from + 1 .. from + size - 1 <=> i = from + 1 \/ i = from + 2
        BY <2>3
      <3> QED BY <3>1, <2>3
    <2>4. CASE size = 4
      <3>1. \A i : i \in from + 1 .. from + size - 1 <=> i = from + 1 \/ i = from + 2 \/ i = from + 3
        BY <2>4
      <3> QED BY <3>1, <2>4
    <2> QED BY <2>1, <2>2, <2>3, <2>4, <1>4
  <1> HIDE DEF size, room, value, follow, good, a, b, c, d
  <1>9. CASE size = 0 \/ ~(size <= room)
    <2>1. ~(size > 0) \/ ~(size <= room)
      BY <1>9
    <2> QED BY <2>1, <1>9, <1>1, <1>2
  <1>10. CASE size = 1
    BY <1>10, <1>1, <1>2, <1>3, <1>4, <1>6, <1>8 DEF Formed
  <1>11. CASE size = 2 /\ size <= room
    <2>1. a \in 194 .. 223 /\ (follow <=> b \in 128 .. 191)
      BY <1>11, <1>4, <1>8
    <2>2. b \in 128 .. 191 => good
      <3> SUFFICES ASSUME b \in 128 .. 191 PROVE good
        OBVIOUS
      <3>1. value = (a % 32) * 64 + (b % 64)
        BY <1>11, <1>7
      <3>2. InPlane(value, 128)
        BY <3>1, <2>1, TwoBytes
      <3> QED BY SMT, <3>2, <1>11, <1>5
    <2> QED BY <1>11, <1>1, <1>2, <2>1, <2>2 DEF Formed
  <1>12. CASE size = 3 /\ size <= room
    <2> DEFINE rows == Third(a, b)
    <2>1. a \in 224 .. 239 /\ (follow <=> b \in 128 .. 191 /\ c \in 128 .. 191)
      BY <1>12, <1>4, <1>8
    <2>2. follow => (good <=> rows)
      <3> SUFFICES ASSUME b \in 128 .. 191, c \in 128 .. 191 PROVE good <=> rows
        BY <2>1
      <3>1. value = ((a % 16) * 64 + (b % 64)) * 64 + (c % 64)
        BY <1>12, <1>7
      <3>2. a \in 224 .. 239
        BY <2>1
      <3>3. ThreeOf(value, a, b, c)
        BY <3>1 DEF ThreeOf
      <3>4. ThirdIn(value, a, b)
        BY <3>2, <3>3, ThreeBytes, Zenon
      <3> QED BY SMT, <3>4, <1>12, <1>5 DEF ThirdIn
    <2>3. Formed(size, a, b, c, d) <=> c \in 128 .. 191 /\ rows
      BY <1>12 DEF Formed, Third
    <2>4. rows => b \in 128 .. 191
      BY DEF Third
    <2> HIDE DEF rows
    <2> QED BY <1>12, <1>1, <1>2, <2>1, <2>2, <2>3, <2>4
  <1>13. CASE size = 4 /\ size <= room
    <2> DEFINE rows == Fourth(a, b)
    <2>1. a \in 240 .. 244 /\ (follow <=> b \in 128 .. 191 /\ c \in 128 .. 191 /\ d \in 128 .. 191)
      BY <1>13, <1>4, <1>8
    <2>2. follow => (good <=> rows)
      <3> SUFFICES ASSUME b \in 128 .. 191, c \in 128 .. 191, d \in 128 .. 191 PROVE good <=> rows
        BY <2>1
      <3>1. value = (((a % 8) * 64 + (b % 64)) * 64 + (c % 64)) * 64 + (d % 64)
        BY <1>13, <1>7
      <3>2. a \in 240 .. 244
        BY <2>1
      <3>3. FourOf(value, a, b, c, d)
        BY <3>1 DEF FourOf
      <3>4. FourthIn(value, a, b)
        BY <3>2, <3>3, FourBytes, Zenon
      <3> QED BY SMT, <3>4, <1>13, <1>5 DEF FourthIn
    <2>3. Formed(size, a, b, c, d) <=> c \in 128 .. 191 /\ d \in 128 .. 191 /\ rows
      BY <1>13 DEF Formed, Fourth
    <2>4. rows => b \in 128 .. 191
      BY DEF Fourth
    <2> HIDE DEF rows
    <2> QED BY <1>13, <1>1, <1>2, <2>1, <2>2, <2>3, <2>4
  <1> QED BY <1>4, <1>9, <1>10, <1>11, <1>12, <1>13

\* A set of numbers up to a bound has a largest one.
LEMMA GreatestOf ==
  ASSUME NEW n \in Nat, NEW S \in SUBSET (0 .. n), S # {}
  PROVE  \E a \in S : \A b \in S : b <= a
  <1> DEFINE T == {m \in Nat : n - m \in S}
  <1>1. T # {}
    <2>1. PICK x \in S : TRUE
      OBVIOUS
    <2>2. n - x \in Nat /\ n - (n - x) = x
      BY <2>1
    <2> QED BY <2>1, <2>2
  <1>2. T \in SUBSET Nat
    OBVIOUS
  <1>3. PICK m \in T : \A k \in T : m <= k
    <2> HIDE DEF T
    <2> QED BY <1>1, <1>2, LeastOf
  <1>4. ASSUME NEW b \in S PROVE b <= n - m
    <2>1. b \in 0 .. n
      BY <1>4
    <2>2. n - b \in Nat /\ n - (n - b) = b
      BY <2>1
    <2>3. n - b \in T
      BY <2>2
    <2>4. m <= n - b
      BY <1>3, <2>3
    <2>5. m \in Nat
      BY <1>3
    <2> QED BY <2>1, <2>4, <2>5
  <1>5. n - m \in S
    BY <1>3
  <1> QED BY <1>4, <1>5

\* f is where the jumps that begin at a place end.
Ends(f, jump, n) == \A a \in 0 .. n : f[a] = IF jump[a] = a THEN a ELSE f[jump[a]]
Up(jump, n) == \A a \in 0 .. n : jump[a] \in a .. n

LEMMA JumpsEnd ==
  ASSUME NEW n \in Nat, NEW jump, Up(jump, n)
  PROVE  \E f : f = [a \in 0 .. n |-> f[a]] /\ Ends(f, jump, n)
  <1> DEFINE From(f, m) == /\ f = [a \in 0 .. n |-> f[a]]
                           /\ \A a \in m .. n : f[a] = IF jump[a] = a THEN a ELSE f[jump[a]]
             some == {m \in 0 .. n : ~\E f : From(f, m)}
  <1>1. SUFFICES ASSUME some # {} PROVE FALSE
    <2>1. \E f : From(f, 0)
      BY <1>1
    <2> QED BY <2>1 DEF Ends
  <1>2. some \in SUBSET (0 .. n)
    OBVIOUS
  <1>3. PICK m \in some : \A k \in some : k <= m
    <2> HIDE DEF some
    <2> QED BY <1>1, <1>2, GreatestOf
  <1>4. m \in 0 .. n /\ ~\E f : From(f, m)
    BY <1>3
  <1>5. \E f : From(f, m + 1)
    <2>1. CASE m = n
      <3> DEFINE f == [a \in 0 .. n |-> a]
      <3>1. f = [a \in 0 .. n |-> f[a]]
        OBVIOUS
      <3>2. m + 1 .. n = {}
        BY <1>4, <2>1
      <3> HIDE DEF f
      <3>3. From(f, m + 1)
        BY <3>1, <3>2
      <3> HIDE DEF From
      <3> QED BY <3>3
    <2>2. CASE m # n
      <3>1. m + 1 \in 0 .. n /\ ~(m + 1 <= m)
        BY <1>4, <2>2
      <3>2. m + 1 \notin some
        <4> HIDE DEF some
        <4> QED BY <1>3, <3>1
      <3> QED BY <3>1, <3>2
    <2> QED BY <2>1, <2>2
  <1>6. PICK f : From(f, m + 1)
    BY <1>5
  <1> DEFINE g == [a \in 0 .. n |-> IF a = m THEN IF jump[m] = m THEN m ELSE f[jump[m]] ELSE f[a]]
  <1>7. From(g, m)
    <2>1. g = [a \in 0 .. n |-> g[a]]
      OBVIOUS
    <2>2. ASSUME NEW a \in m .. n PROVE g[a] = IF jump[a] = a THEN a ELSE g[jump[a]]
      <3>1. a \in 0 .. n /\ jump[a] \in a .. n /\ m \in 0 .. n
        BY <1>4 DEF Up
      <3>2. jump[a] # a => jump[a] \in 0 .. n /\ jump[a] # m
        BY <3>1
      <3>3. CASE a = m
        BY <3>1, <3>2, <3>3
      <3>4. CASE a # m
        <4>1. a \in m + 1 .. n
          BY <3>1, <3>4
        <4>2. f[a] = IF jump[a] = a THEN a ELSE f[jump[a]]
          BY <4>1, <1>6
        <4> QED BY <3>1, <3>2, <3>4, <4>2
      <3> QED BY <3>3, <3>4
    <2> HIDE DEF g
    <2> QED BY <2>1, <2>2
  <1> HIDE DEF From, g
  <1> QED BY <1>4, <1>7

LEMMA JumpsUp ==
  ASSUME NEW n \in Nat, NEW jump, Up(jump, n), NEW f, Ends(f, jump, n)
  PROVE  \A a \in 0 .. n : f[a] \in a .. n
  <1> DEFINE some == {m \in 0 .. n : ~(f[m] \in m .. n)}
  <1>1. SUFFICES ASSUME some # {} PROVE FALSE
    OBVIOUS
  <1>2. some \in SUBSET (0 .. n)
    OBVIOUS
  <1>3. PICK m \in some : \A k \in some : k <= m
    <2> HIDE DEF some
    <2> QED BY <1>1, <1>2, GreatestOf
  <1>4. m \in 0 .. n /\ ~(f[m] \in m .. n)
    BY <1>3
  <1>5. f[m] = IF jump[m] = m THEN m ELSE f[jump[m]]
    BY <1>4 DEF Ends
  <1>6. jump[m] \in m .. n
    BY <1>4 DEF Up
  <1>7. jump[m] # m
    BY <1>4, <1>5
  <1>8. jump[m] \in 0 .. n /\ ~(jump[m] <= m)
    BY <1>4, <1>6, <1>7
  <1>9. jump[m] \notin some
    <2> HIDE DEF some
    <2> QED BY <1>3, <1>8
  <1>10. f[jump[m]] \in jump[m] .. n
    BY <1>8, <1>9
  <1> QED BY <1>4, <1>5, <1>6, <1>7, <1>10

\* The places on the way from a to f[a].
Way(jump, a, b, cuts) ==
  /\ cuts \in SUBSET (a .. b) /\ {a, b} \subseteq cuts
  /\ \A c \in cuts \ {b} : jump[c] \in cuts /\ jump[c] > c /\ \A d \in cuts : ~(c < d /\ d < jump[c])

LEMMA WayToEnd ==
  ASSUME NEW n \in Nat, NEW jump, Up(jump, n), NEW f, Ends(f, jump, n)
  PROVE  \A a \in 0 .. n : \E cuts : Way(jump, a, f[a], cuts)
  <1> DEFINE some == {m \in 0 .. n : ~\E cuts : Way(jump, m, f[m], cuts)}
  <1>1. SUFFICES ASSUME some # {} PROVE FALSE
    OBVIOUS
  <1>2. some \in SUBSET (0 .. n)
    OBVIOUS
  <1>3. PICK m \in some : \A k \in some : k <= m
    <2> HIDE DEF some
    <2> QED BY <1>1, <1>2, GreatestOf
  <1>4. m \in 0 .. n /\ ~\E cuts : Way(jump, m, f[m], cuts)
    BY <1>3
  <1>5. f[m] = IF jump[m] = m THEN m ELSE f[jump[m]]
    BY <1>4 DEF Ends
  <1>6. jump[m] \in m .. n
    BY <1>4 DEF Up
  <1>7. CASE jump[m] = m
    <2>1. f[m] = m
      BY <1>5, <1>7
    <2>2. {m} \in SUBSET (m .. m) /\ {m, m} \subseteq {m} /\ {m} \ {m} = {}
      BY <1>4
    <2>3. Way(jump, m, m, {m})
      BY <2>2 DEF Way
    <2> QED BY <2>1, <2>3, <1>4
  <1>8. CASE jump[m] # m
    <2> DEFINE k == jump[m]
    <2>1. k \in 0 .. n /\ k > m /\ ~(k <= m)
      BY <1>4, <1>6, <1>8
    <2>2. k \notin some
      <3> HIDE DEF some
      <3> QED BY <1>3, <2>1
    <2>3. PICK cuts : Way(jump, k, f[k], cuts)
      BY <2>1, <2>2
    <2>4. f[m] = f[k]
      BY <1>5, <1>8
    <2>5. f[k] \in k .. n
      BY <2>1, JumpsUp
    <2> DEFINE more == {m} \cup cuts
    <2>6. more \in SUBSET (m .. f[k])
      BY <1>4, <2>1, <2>3, <2>5 DEF Way
    <2>7. {m, f[k]} \subseteq more
      BY <2>3 DEF Way
    <2>8. \A c \in cuts : c \in k .. f[k]
      BY <2>3 DEF Way
    <2>9. ASSUME NEW c \in more \ {f[k]}
          PROVE  jump[c] \in more /\ jump[c] > c /\ \A d \in more : ~(c < d /\ d < jump[c])
      <3>1. CASE c = m
        <4>1. jump[c] = k /\ k \in cuts
          BY <3>1, <2>3 DEF Way
        <4> HIDE DEF k
        <4> QED BY <4>1, <3>1, <2>1, <2>8, <2>5, <1>4
      <3>2. CASE c # m
        <4>1. c \in cuts \ {f[k]}
          BY <3>2
        <4>2. jump[c] \in cuts /\ jump[c] > c /\ \A d \in cuts : ~(c < d /\ d < jump[c])
          BY <4>1, <2>3 DEF Way
        <4>3. ~(c < m)
          BY <4>1, <2>8, <2>1, <2>5, <1>4
        <4> QED BY <4>2, <4>3
      <3> QED BY <3>1, <3>2
    <2>10. Way(jump, m, f[k], more)
      <3> HIDE DEF more, k
      <3> QED BY <2>6, <2>7, <2>9 DEF Way
    <2> HIDE DEF more, k
    <2> QED BY <1>4, <2>4, <2>10
  <1> QED BY <1>7, <1>8

\* The jumps from a place go on past every way from it that they could have taken.
LEMMA WayIsTaken ==
  ASSUME NEW n \in Nat, NEW jump, Up(jump, n), NEW f, Ends(f, jump, n), NEW i \in 0 .. n,
         NEW cuts \in SUBSET (0 .. i),
         \A a \in cuts \ {i} : jump[a] \in cuts /\ jump[a] > a
  PROVE  \A a \in cuts : f[a] >= i
  <1> DEFINE some == {m \in cuts : ~(f[m] >= i)}
  <1>1. SUFFICES ASSUME some # {} PROVE FALSE
    <2>1. some = {}
      BY <1>1
    <2>2. ASSUME NEW a \in cuts PROVE f[a] >= i
      <3>1. a \notin some
        BY <2>1
      <3> QED BY <3>1
    <2> QED BY <2>2
  <1>2. some \in SUBSET (0 .. n)
    <2>1. \A m \in cuts : m \in 0 .. n
      <3>1. \A m \in cuts : m \in 0 .. i
        OBVIOUS
      <3> QED BY <3>1
    <2>2. some \subseteq cuts
      OBVIOUS
    <2> HIDE DEF some
    <2> QED BY <2>1, <2>2
  <1>3. PICK m \in some : \A k \in some : k <= m
    <2> HIDE DEF some
    <2> QED BY <1>1, <1>2, GreatestOf
  <1>4. m \in cuts /\ ~(f[m] >= i) /\ m \in 0 .. n
    BY <1>3
  <1>5. f[m] \in m .. n
    BY <1>4, JumpsUp
  <1>6. m # i
    <2> HIDE DEF some
    <2>2. m = i => f[m] >= i
      BY <1>5
    <2> QED BY <1>4, <2>2
  <1>7. jump[m] \in cuts /\ jump[m] > m
    <2>1. m \in cuts \ {i}
      BY <1>4, <1>6
    <2> HIDE DEF some
    <2> QED BY <2>1
  <1>8. jump[m] \in 0 .. n /\ ~(jump[m] <= m)
    <2>1. jump[m] \in 0 .. i
      BY <1>7
    <2> HIDE DEF some
    <2> QED BY <2>1, <1>7, <1>4
  <1>9. jump[m] \notin some
    <2> HIDE DEF some
    <2> QED BY <1>3, <1>8
  <1>10. f[jump[m]] >= i
    BY <1>7, <1>9
  <1>11. f[m] = f[jump[m]]
    <2>1. jump[m] # m
      BY <1>7, <1>4, <1>8
    <2> QED BY <2>1, <1>4 DEF Ends
  <1> QED BY <1>4, <1>10, <1>11

\* Where the loop goes on from a place: the end of a code point, or the place itself.
Jump(bytes, n) ==
  [a \in 0 .. n |-> IF a < n /\ Accepted(bytes, a + 1, n) THEN a + Inputs!Size(bytes[a + 1]) ELSE a]

LEMMA FormedSize ==
  ASSUME NEW size \in Int, NEW a, NEW b, NEW c, NEW d, Formed(size, a, b, c, d)
  PROVE  a \in 0 .. 255 /\ size \in 1 .. 4 /\ Inputs!Size(a) = size
  <1>1. \/ size = 1 /\ a \in 0 .. 127
        \/ size = 2 /\ a \in 194 .. 223
        \/ size = 3 /\ a \in 224 .. 239
        \/ size = 4 /\ a \in 240 .. 244
    BY DEF Formed
  <1>2. a \in 0 .. 255 /\ size \in 1 .. 4
    BY <1>1
  <1>3. /\ Inputs!Size(a) = 1 <=> a < 128
        /\ Inputs!Size(a) = 2 <=> a \in 194 .. 223
        /\ Inputs!Size(a) = 3 <=> a \in 224 .. 239
        /\ Inputs!Size(a) = 4 <=> a \in 240 .. 244
    BY <1>2, SizeOf
  <1> QED BY <1>1, <1>2, <1>3

\* A jump goes over one character.
LEMMA JumpIs ==
  ASSUME NEW bytes, NEW m \in Nat, IsText(bytes, m), NEW n \in 0 .. m
  PROVE  /\ Up(Jump(bytes, n), n)
         /\ \A a \in 0 .. n, b \in 0 .. n : b > a => (Inputs!Character(bytes, a + 1, b) <=> Jump(bytes, n)[a] = b)
  <1> DEFINE jump == Jump(bytes, n)
  <1>1. ASSUME NEW a \in 0 .. n
        PROVE  /\ a < n /\ Accepted(bytes, a + 1, n) => jump[a] = a + Inputs!Size(bytes[a + 1])
               /\ ~(a < n /\ Accepted(bytes, a + 1, n)) => jump[a] = a
    BY DEF Jump
  <1> HIDE DEF jump
  <1>2. ASSUME NEW a \in 0 .. n PROVE jump[a] \in a .. n
    <2>1. CASE a < n /\ Accepted(bytes, a + 1, n)
      <3> DEFINE size == Inputs!Size(bytes[a + 1])
      <3>1. size <= n - (a + 1) + 1
        BY <2>1 DEF Accepted
      <3>2. bytes[a + 1] \in 0 .. 255
        <4>1. a + 1 \in 1 .. m
          BY <2>1
        <4> QED BY <4>1 DEF IsText
      <3>3. size \in 0 .. 4
        BY <3>2, SizeOf
      <3>4. jump[a] = a + size
        BY <1>1, <2>1
      <3> HIDE DEF size
      <3> QED BY <3>1, <3>3, <3>4
    <2>2. CASE ~(a < n /\ Accepted(bytes, a + 1, n))
      BY <1>1, <2>2
    <2> QED BY <2>1, <2>2
  <1>3. ASSUME NEW a \in 0 .. n, NEW b \in 0 .. n, b > a
        PROVE  Inputs!Character(bytes, a + 1, b) <=> jump[a] = b
    <2> DEFINE from == a + 1
               size == Inputs!Size(bytes[from])
               Is(k) == Formed(k, bytes[from], bytes[from + 1], bytes[from + 2], bytes[from + 3])
    <2>1. from \in Nat /\ b \in Nat /\ b - from + 1 = b - a /\ b - a \in Int
      OBVIOUS
    <2>2. Inputs!Character(bytes, from, b) <=> Is(b - a)
      <3>1. Inputs!Character(bytes, from, b) <=> Is(b - from + 1)
        <4> HIDE DEF from
        <4> QED BY <2>1, CharacterIs
      <3> HIDE DEF Is
      <3> QED BY <2>1, <3>1
    <2>3. Is(b - a) => size = b - a /\ b - a \in 1 .. 4
      <3> HIDE DEF from
      <3> QED BY <2>1, FormedSize
    <2>4. Accepted(bytes, from, n) <=> size # 0 /\ size <= n - from + 1 /\ Is(size)
      BY Zenon DEF Accepted
    <2>5. n - from + 1 = n - a
      OBVIOUS
    <2>6. size \in 0 .. 4
      <3>1. bytes[from] \in 0 .. 255
        <4>1. from \in 1 .. m
          BY <1>3
        <4> HIDE DEF from
        <4> QED BY <4>1 DEF IsText
      <3> HIDE DEF from
      <3> QED BY <3>1, SizeOf
    <2>7. /\ a < n /\ Accepted(bytes, from, n) => jump[a] = a + size
          /\ ~(a < n /\ Accepted(bytes, from, n)) => jump[a] = a
      BY <1>1
    <2> HIDE DEF from, size, Is
    <2>8. ASSUME Is(b - a) PROVE jump[a] = b
      <3>1. size = b - a /\ b - a \in 1 .. 4
        BY <2>3, <2>8
      <3>2. Is(size)
        BY <2>8, <3>1
      <3>3. size <= n - from + 1 /\ size # 0 /\ a < n
        BY <3>1, <2>5
      <3>4. jump[a] = a + size
        BY <2>4, <2>7, <3>2, <3>3
      <3> QED BY <3>1, <3>4
    <2>9. ASSUME jump[a] = b PROVE Is(b - a)
      <3>1. Accepted(bytes, from, n) /\ jump[a] = a + size
        BY <2>7, <2>9, <1>3
      <3>2. size = b - a
        BY <3>1, <2>9, <2>6
      <3> QED BY <2>4, <3>1, <3>2
    <2> QED BY <2>2, <2>8, <2>9 DEF from
  <1>4. Up(jump, n)
    BY <1>2 DEF Up
  <1> QED BY <1>3, <1>4 DEF jump

LEMMA SmallerIs ==
  ASSUME NEW n \in Nat, NEW limit \in Nat
  PROVE  LET m == Inputs!Smallest({n, limit}) IN m \in 0 .. n /\ m <= limit /\ (m = n \/ m = limit)
  <1>1. \E x \in {n, limit} : \A y \in {n, limit} : x <= y
    <2>1. n <= limit \/ limit <= n
      OBVIOUS
    <2> QED BY <2>1
  <1> DEFINE m == Inputs!Smallest({n, limit})
  <1>2. m \in {n, limit} /\ \A y \in {n, limit} : m <= y
    BY <1>1 DEF Inputs!Smallest
  <1> HIDE DEF m
  <1>3. m \in 0 .. n /\ m <= limit /\ (m = n \/ m = limit)
    BY <1>2
  <1> QED BY <1>3 DEF m

\* utf8_prefix is where its jumps end, and no text of whole characters is longer.
LEMMA PrefixIs ==
  ASSUME NEW bytes, NEW m \in Nat, IsText(bytes, m), NEW limit \in Nat
  PROVE  LET n == Inputs!Smallest({m, limit})
             x == Inputs!Prefix(bytes, limit)
         IN x \in 0 .. n /\ Inputs!WholeText(bytes, x) /\ \A i \in 0 .. n : Inputs!WholeText(bytes, i) => i <= x
  <1> DEFINE n == Inputs!Smallest({Len(bytes), limit})
             jump == Jump(bytes, n)
             Goal(f) == f = [at \in 0 .. n |-> IF at < n /\ Inputs!CodePoint(bytes, at + 1, n) THEN f[at + Inputs!Size(bytes[at + 1])] ELSE at]
             f == CHOOSE g : Goal(g)
  <1>1. m = Len(bytes)
    BY DEF IsText
  <1>2. n \in 0 .. m
    <2>1. Inputs!Smallest({m, limit}) \in 0 .. m
      BY SmallerIs
    <2> QED BY <1>1, <2>1
  <1>3. Inputs!Prefix(bytes, limit) = f[0]
    BY Zenon DEF Inputs!Prefix
  <1> HIDE DEF n
  <1>4. /\ Up(jump, n)
        /\ \A a \in 0 .. n, b \in 0 .. n : b > a => (Inputs!Character(bytes, a + 1, b) <=> jump[a] = b)
    <2>1. n \in 0 .. m
      BY <1>2
    <2> QED BY <2>1, JumpIs
  <1>5. ASSUME NEW a \in 0 .. n
        PROVE  /\ a < n /\ Inputs!CodePoint(bytes, a + 1, n) => jump[a] = a + Inputs!Size(bytes[a + 1]) /\ jump[a] # a
               /\ ~(a < n /\ Inputs!CodePoint(bytes, a + 1, n)) => jump[a] = a
    <2>1. CASE a < n
      <3>1. a + 1 \in 1 .. n
        BY <2>1, <1>2
      <3>2. Inputs!CodePoint(bytes, a + 1, n) <=> Accepted(bytes, a + 1, n)
        BY <3>1, <1>2, CodePointIs
      <3>3. bytes[a + 1] \in 0 .. 255
        <4>1. a + 1 \in 1 .. m
          BY <3>1, <1>2
        <4> QED BY <4>1 DEF IsText
      <3>4. Inputs!Size(bytes[a + 1]) \in 0 .. 4
        BY <3>3, SizeOf
      <3>5. Accepted(bytes, a + 1, n) => jump[a] = a + Inputs!Size(bytes[a + 1]) /\ Inputs!Size(bytes[a + 1]) # 0
        BY <2>1 DEF Jump, Accepted
      <3>6. ~Accepted(bytes, a + 1, n) => jump[a] = a
        BY DEF Jump
      <3> DEFINE size == Inputs!Size(bytes[a + 1])
      <3> HIDE DEF jump, size
      <3>7. a \in Int
        BY <1>2
      <3>8. Accepted(bytes, a + 1, n) => jump[a] = a + size /\ jump[a] # a
        BY <3>4, <3>5, <3>7 DEF size
      <3> QED BY <3>2, <3>6, <3>8, <2>1 DEF size
    <2>2. CASE ~(a < n)
      BY <2>2 DEF Jump
    <2> QED BY <2>1, <2>2
  <1> HIDE DEF jump
  <1>6. ASSUME NEW g, Goal(g) PROVE Ends(g, jump, n)
    <2>1. ASSUME NEW a \in 0 .. n PROVE g[a] = IF jump[a] = a THEN a ELSE g[jump[a]]
      <3>1. g[a] = IF a < n /\ Inputs!CodePoint(bytes, a + 1, n) THEN g[a + Inputs!Size(bytes[a + 1])] ELSE a
        BY <1>6
      <3> QED BY <3>1, <1>5
    <2> QED BY <2>1 DEF Ends
  <1>7. ASSUME NEW g, g = [a \in 0 .. n |-> g[a]], Ends(g, jump, n) PROVE Goal(g)
    <2> DEFINE Value(a) == IF a < n /\ Inputs!CodePoint(bytes, a + 1, n) THEN g[a + Inputs!Size(bytes[a + 1])] ELSE a
    <2>1. ASSUME NEW a \in 0 .. n PROVE g[a] = Value(a)
      <3>1. g[a] = IF jump[a] = a THEN a ELSE g[jump[a]]
        BY <1>7 DEF Ends
      <3> QED BY <3>1, <1>5
    <2>2. g = [a \in 0 .. n |-> Value(a)]
      <3> HIDE DEF Value
      <3> QED BY <1>7, <2>1
    <2> QED BY <2>2
  <1>8. Goal(f)
    <2>1. n \in Nat
      BY <1>2
    <2>2. PICK g : g = [a \in 0 .. n |-> g[a]] /\ Ends(g, jump, n)
      BY <2>1, <1>4, JumpsEnd
    <2>3. Goal(g)
      BY <2>2, <1>7
    <2> HIDE DEF Goal
    <2> QED BY <2>3
  <1>9. Ends(f, jump, n)
    <2> HIDE DEF Goal, f
    <2> QED BY <1>6, <1>8
  <1> HIDE DEF Goal, f
  <1> DEFINE x == f[0]
  <1>10. n \in Nat /\ 0 \in 0 .. n
    BY <1>2
  <1>11. x \in 0 .. n
    BY <1>4, <1>9, <1>10, JumpsUp
  <1>12. PICK cuts : Way(jump, 0, x, cuts)
    BY <1>4, <1>9, <1>10, WayToEnd
  <1>13. Inputs!WholeText(bytes, x)
    <2>1. cuts \in SUBSET (0 .. x) /\ {0, x} \subseteq cuts
      BY <1>12 DEF Way
    <2>2. ASSUME NEW a \in cuts \ {x}
          PROVE  \E b \in cuts : b > a /\ Inputs!Character(bytes, a + 1, b) /\ \A c \in cuts : ~(a < c /\ c < b)
      <3>1. jump[a] \in cuts /\ jump[a] > a /\ \A c \in cuts : ~(a < c /\ c < jump[a])
        BY <1>12 DEF Way
      <3>2. a \in 0 .. n /\ jump[a] \in 0 .. n
        <4>1. \A c \in cuts : c \in 0 .. x
          BY <2>1
        <4> HIDE DEF x
        <4>2. \A c \in cuts : c \in 0 .. n
          BY <4>1, <1>11, <1>10
        <4> QED BY <4>2, <3>1
      <3>3. Inputs!Character(bytes, a + 1, jump[a])
        BY <1>4, <3>1, <3>2
      <3> QED BY <3>1, <3>3
    <2> QED BY <2>1, <2>2 DEF Inputs!WholeText
  <1>14. ASSUME NEW i \in 0 .. n, Inputs!WholeText(bytes, i) PROVE i <= x
    <2>1. PICK way \in SUBSET (0 .. i) :
            /\ {0, i} \subseteq way
            /\ \A a \in way \ {i} : \E b \in way : b > a /\ Inputs!Character(bytes, a + 1, b) /\ \A c \in way : ~(a < c /\ c < b)
      BY <1>14 DEF Inputs!WholeText
    <2>2. ASSUME NEW a \in way \ {i} PROVE jump[a] \in way /\ jump[a] > a
      <3>1. PICK b \in way : b > a /\ Inputs!Character(bytes, a + 1, b)
        BY <2>1
      <3>2. a \in 0 .. n /\ b \in 0 .. n
        BY <1>10, <1>14
      <3>3. jump[a] = b
        BY <1>4, <3>1, <3>2
      <3> QED BY <3>1, <3>3
    <2>3. f[0] >= i
      BY <1>4, <1>9, <1>10, <2>1, <2>2, WayIsTaken
    <2> QED BY <2>3, <1>11, <1>10
  <1>15. n = Inputs!Smallest({m, limit})
    BY <1>1 DEF n
  <1> QED BY <1>3, <1>11, <1>13, <1>14, <1>15

\* Complete code points are kept, and a malformed or incomplete one ends the prefix that is retained.
LEMMA PrefixIsRight ==
  ASSUME NEW m \in Nat, IsText(s.of.bytes, m), s.of.limit \in Nat,
         s.answer[1] = [prefix |-> Inputs!Prefix(s.of.bytes, s.of.limit), plain |-> Inputs!PlainText(s.of.bytes)]
  PROVE  Inputs!PrefixRight
  <1> DEFINE bytes == s.of.bytes
             n == Inputs!Smallest({m, s.of.limit})
             x == Inputs!Prefix(bytes, s.of.limit)
             plain == \A i \in 1 .. m : bytes[i] >= 32 /\ bytes[i] # 127
             S == {i \in 0 .. n : Inputs!WholeText(bytes, i)}
             y == Inputs!Prefix(bytes, m)
  <1>1. m = Len(bytes) /\ \A i \in 1 .. m : bytes[i] \in 0 .. 255
    BY DEF IsText
  <1>2. x \in 0 .. n /\ Inputs!WholeText(bytes, x) /\ \A i \in 0 .. n : Inputs!WholeText(bytes, i) => i <= x
    BY PrefixIs
  <1>3. y \in 0 .. m /\ Inputs!WholeText(bytes, y) /\ (Inputs!WholeText(bytes, m) => m <= y)
    <2> DEFINE k == Inputs!Smallest({m, m})
    <2>1. k = m
      BY SmallerIs
    <2>2. y \in 0 .. k /\ Inputs!WholeText(bytes, y) /\ \A i \in 0 .. k : Inputs!WholeText(bytes, i) => i <= y
      BY PrefixIs
    <2> HIDE DEF k, y
    <2> QED BY <2>1, <2>2
  <1>4. n \in 0 .. m
    BY SmallerIs
  <1> HIDE DEF n, x, y
  <1>5. x = Inputs!Largest(S)
    <2>1. x \in S /\ \A i \in S : x >= i
      BY <1>2, <1>4
    <2>2. \A z \in S : (\A i \in S : z >= i) => z = x
      BY <2>1, <1>4
    <2> DEFINE z == CHOOSE z \in S : \A i \in S : z >= i
    <2>3. z \in S /\ \A i \in S : z >= i
      <3> HIDE DEF S
      <3> QED BY <2>1
    <2>4. z = Inputs!Largest(S)
      BY Zenon DEF Inputs!Largest
    <2> HIDE DEF z, S
    <2> QED BY <2>2, <2>3, <2>4
  <1>6. Inputs!PlainText(bytes) <=> Inputs!WholeText(bytes, m) /\ plain
    <2>1. Inputs!PlainText(bytes) <=> y = m /\ plain
      BY <1>1 DEF Inputs!PlainText, y
    <2>2. y = m <=> Inputs!WholeText(bytes, m)
      BY <1>3
    <2> QED BY <2>1, <2>2
  <1>7. plain <=> \A i \in 1 .. m : bytes[i] \notin (0 .. 31) \cup {127}
    <2> HIDE DEF bytes
    <2>1. ASSUME NEW i \in 1 .. m PROVE bytes[i] >= 32 /\ bytes[i] # 127 <=> bytes[i] \notin (0 .. 31) \cup {127}
      <3>1. bytes[i] \in 0 .. 255
        BY <1>1
      <3> QED BY <3>1
    <2> QED BY <2>1
  <1>8. s.answer[1].prefix = x /\ (s.answer[1].plain <=> Inputs!PlainText(bytes))
    BY DEF x
  <1> HIDE DEF S, plain
  <1>9. /\ s.answer[1].prefix = Inputs!Largest(S)
        /\ s.answer[1].plain <=> Inputs!WholeText(bytes, m) /\ \A i \in 1 .. m : bytes[i] \notin (0 .. 31) \cup {127}
    BY <1>5, <1>6, <1>7, <1>8
  <1> QED BY <1>9, <1>1 DEF Inputs!PrefixRight, S, n

-----------------------------------------------------------------------------
(* Inputs: texts that are wrapped *)

\* The characters of a text that is wrapped.
Letter(text, i) == text[i] = "a"
Space(text, i) == text[i] = " "
Newline(text, i) == text[i] = "\n"
IsLetters(text, n) ==
  /\ n \in Nat /\ n = Len(text)
  /\ \A i \in 1 .. n : /\ Letter(text, i) \/ Space(text, i) \/ Newline(text, i)
                       /\ ~(Letter(text, i) /\ Space(text, i)) /\ ~(Letter(text, i) /\ Newline(text, i))
                       /\ ~(Space(text, i) /\ Newline(text, i))

LEMMA SmallestOf ==
  ASSUME NEW S \in SUBSET Nat, S # {}
  PROVE  Inputs!Smallest(S) \in S /\ \A y \in S : Inputs!Smallest(S) <= y
  <1>1. \E x \in S : \A y \in S : x <= y
    BY LeastOf
  <1> QED BY <1>1 DEF Inputs!Smallest

LEMMA LargestOf ==
  ASSUME NEW n \in Nat, NEW S \in SUBSET (0 .. n), S # {}
  PROVE  Inputs!Largest(S) \in S /\ \A y \in S : Inputs!Largest(S) >= y
  <1>1. PICK x \in S : \A y \in S : y <= x
    BY GreatestOf
  <1>2. x \in S /\ \A y \in S : x >= y
    BY <1>1
  <1>3. \E z \in S : \A y \in S : z >= y
    BY <1>2
  <1> QED BY <1>3 DEF Inputs!Largest

\* The next line begins at the first character that is no space.
Skipped(text, a, b) == a <= b /\ \A i \in a .. b - 1 : Space(text, i)

LEMMA BeginsIs ==
  ASSUME NEW text, NEW n, IsLetters(text, n), NEW at \in 1 .. n + 1
  PROVE  LET from == Inputs!Begins(text, at)
         IN from \in at .. n + 1 /\ Skipped(text, at, from) /\ (from <= n => ~Space(text, from))
  <1> DEFINE S == {i \in at .. Len(text) : text[i] # " "} \cup {Len(text) + 1}
             T == {i \in at .. n : ~Space(text, i)} \cup {n + 1}
             from == Inputs!Begins(text, at)
  <1>1. n \in Nat /\ n = Len(text)
    BY DEF IsLetters
  <1>2. S = T
    BY <1>1 DEF Space
  <1>3. from = Inputs!Smallest(T)
    BY <1>2 DEF Inputs!Begins
  <1>4. T \in SUBSET Nat /\ T # {}
    BY <1>1
  <1>5. Inputs!Smallest(T) \in T /\ \A y \in T : Inputs!Smallest(T) <= y
    <2> HIDE DEF T
    <2> QED BY <1>4, SmallestOf
  <1>6. from \in T /\ \A y \in T : from <= y
    <2> HIDE DEF T, from
    <2> QED BY <1>3, <1>5
  <1> HIDE DEF S, from
  <1>7. from \in at .. n + 1 /\ (from <= n => ~Space(text, from))
    BY <1>1, <1>6
  <1>8. ASSUME NEW i \in at .. from - 1 PROVE Space(text, i)
    <2>1. i \in at .. n /\ ~(from <= i)
      BY <1>1, <1>7
    <2>2. i \notin T
      <3> HIDE DEF T
      <3> QED BY <1>6, <2>1
    <2> QED BY <2>1, <2>2
  <1>9. Skipped(text, at, from)
    BY <1>7, <1>8 DEF Skipped
  <1> QED BY <1>7, <1>9 DEF from

\* The characters that fit: those up to the terminator, the end or the last column.
LEMMA FitsIs ==
  ASSUME NEW text, NEW n, IsLetters(text, n), NEW columns \in Nat \ {0}, NEW from \in 1 .. n
  PROVE  LET length == Inputs!Fits(text, columns, from)
         IN /\ length \in 0 .. columns /\ from + length <= n + 1
            /\ \A i \in from .. from + length - 1 : ~Newline(text, i)
            /\ length = columns \/ from + length = n + 1 \/ Newline(text, from + length)
  <1> DEFINE S == {i \in from .. Len(text) : text[i] = "\n"} \cup {Len(text) + 1, from + columns}
             T == {i \in from .. n : Newline(text, i)} \cup {n + 1, from + columns}
             length == Inputs!Fits(text, columns, from)
             stop == Inputs!Smallest(T)
  <1>1. n \in Nat /\ n = Len(text)
    BY DEF IsLetters
  <1>2. S = T
    BY <1>1 DEF Newline
  <1>3. length = stop - from
    BY <1>2 DEF Inputs!Fits
  <1>4. T \in SUBSET Nat /\ T # {}
    BY <1>1
  <1>5. stop \in T /\ \A y \in T : stop <= y
    <2> HIDE DEF T
    <2> QED BY <1>4, SmallestOf
  <1> HIDE DEF S, length, stop
  <1>6. n + 1 \in T /\ from + columns \in T
    OBVIOUS
  <1>7. stop \in from .. n + 1 /\ stop <= from + columns
    <2>1. stop <= n + 1 /\ stop <= from + columns
      BY <1>5, <1>6
    <2>2. stop \in from .. n \/ stop = n + 1 \/ stop = from + columns
      BY <1>5
    <2> HIDE DEF T
    <2> QED BY <1>1, <2>1, <2>2
  <1>8. stop = from + columns \/ stop = n + 1 \/ Newline(text, stop)
    BY <1>5
  <1>9. ASSUME NEW i \in from .. stop - 1 PROVE ~Newline(text, i)
    <2>1. i \in from .. n /\ ~(stop <= i)
      BY <1>1, <1>7
    <2>2. i \notin T
      <3> HIDE DEF T
      <3> QED BY <1>5, <2>1
    <2> QED BY <2>1, <2>2
  <1> HIDE DEF T
  <1>10. from + length = stop /\ length \in 0 .. columns
    BY <1>1, <1>3, <1>7
  <1> QED BY <1>7, <1>8, <1>9, <1>10, <1>1 DEF length

\* A line of the places p to e - 1: none is a terminator, and a word is only cut by a line of its own.
LineIs(text, n, columns, p, e) ==
  /\ p \in 1 .. n /\ e \in p .. n + 1 /\ e <= p + columns
  /\ ~Space(text, p)
  /\ \A i \in p .. e - 1 : ~Newline(text, i)
  /\ e = p => Newline(text, p)
  /\ e <= n /\ Letter(text, e) => e = p + columns /\ \A i \in p .. e : Letter(text, i)
  /\ e <= n /\ Space(text, e) => \/ e = p + columns
                                 \/ p + columns <= n /\ \A i \in e + 1 .. p + columns : Letter(text, i)

LEMMA KeptIs ==
  ASSUME NEW text, NEW n, IsLetters(text, n), NEW columns \in Nat \ {0}, NEW p \in 1 .. n, ~Space(text, p)
  PROVE  LineIs(text, n, columns, p, p + Inputs!Kept(text, columns, p))
  <1> DEFINE length == Inputs!Fits(text, columns, p)
             kept == Inputs!Kept(text, columns, p)
             S == {i \in p + 1 .. p + length - 1 : text[i] = " "}
             cut == length = columns /\ p + length <= Len(text) /\ text[p + length] = "a"
             e == p + kept
  <1>1. /\ n \in Nat /\ n = Len(text)
        /\ \A i \in 1 .. n : /\ Letter(text, i) \/ Space(text, i) \/ Newline(text, i)
                             /\ ~(Letter(text, i) /\ Space(text, i)) /\ ~(Letter(text, i) /\ Newline(text, i))
                             /\ ~(Space(text, i) /\ Newline(text, i))
    BY DEF IsLetters
  <1>2. /\ length \in 0 .. columns /\ p + length <= n + 1
        /\ \A i \in p .. p + length - 1 : ~Newline(text, i)
        /\ length = columns \/ p + length = n + 1 \/ Newline(text, p + length)
    BY FitsIs
  <1>3. kept = IF cut /\ S # {} THEN Inputs!Largest(S) - p ELSE length
    BY DEF Inputs!Kept
  <1>4. cut <=> length = columns /\ p + length <= n /\ Letter(text, p + length)
    BY <1>1 DEF Letter
  <1>5. \A i : i \in S <=> i \in p + 1 .. p + length - 1 /\ Space(text, i)
    BY DEF Space
  <1> HIDE DEF length, kept, S, cut
  <1>6. CASE cut /\ S # {}
    <2> DEFINE last == Inputs!Largest(S)
    <2>1. S \in SUBSET (0 .. n + 1)
      BY <1>5, <1>1, <1>2
    <2>2. last \in S /\ \A y \in S : last >= y
      <3>1. n + 1 \in Nat
        BY <1>1
      <3> QED BY <2>1, <3>1, <1>6, LargestOf
    <2> HIDE DEF last
    <2>3. e = last
      <3>1. last \in Int
        BY <2>1, <2>2
      <3> QED BY <3>1, <1>3, <1>6 DEF last
    <2> HIDE DEF e
    <2>4. e \in p + 1 .. p + columns - 1 /\ Space(text, e) /\ p + columns <= n /\ Letter(text, p + columns)
      BY <2>2, <2>3, <1>5, <1>6, <1>4
    <2>5. ASSUME NEW i \in e + 1 .. p + columns PROVE Letter(text, i)
      <3>1. CASE i = p + columns
        BY <3>1, <2>4
      <3>2. CASE i # p + columns
        <4>1. i \in p + 1 .. p + length - 1 /\ i \in 1 .. n /\ ~(e >= i)
          BY <3>2, <2>4, <1>4, <1>6, <1>1
        <4>2. i \notin S
          BY <4>1, <2>2, <2>3
        <4>3. ~Space(text, i) /\ ~Newline(text, i)
          BY <4>1, <4>2, <1>5, <1>2
        <4> QED BY <4>1, <4>3, <1>1
      <3> QED BY <3>1, <3>2
    <2>6. \A i \in p .. e - 1 : ~Newline(text, i)
      BY <2>4, <1>2, <1>4, <1>6
    <2>7. e \in 1 .. n /\ ~Letter(text, e) /\ e # p
      BY <2>4, <1>1
    <2>8. e \in p .. n + 1 /\ e <= p + columns
      BY <2>4, <1>1
    <2>9. LineIs(text, n, columns, p, e)
      BY <2>4, <2>5, <2>6, <2>7, <2>8 DEF LineIs
    <2> QED BY <2>9 DEF e, kept
  <1>7. CASE ~(cut /\ S # {})
    <2>1. e = p + length
      BY <1>3, <1>7
    <2> HIDE DEF e
    <2>2. e \in p .. n + 1 /\ e <= p + columns /\ (\A i \in p .. e - 1 : ~Newline(text, i))
      BY <2>1, <1>1, <1>2
    <2>3. e = p + columns \/ e = n + 1 \/ Newline(text, e)
      BY <2>1, <1>2
    <2>4. e = p => Newline(text, p)
      BY <2>1, <2>3, <1>1
    <2>5. ASSUME e <= n, Letter(text, e) PROVE e = p + columns /\ \A i \in p .. e : Letter(text, i)
      <3>1. e \in 1 .. n
        BY <2>2, <2>5, <1>1
      <3>2. e = p + columns
        BY <3>1, <2>3, <2>5, <1>1
      <3>3. S = {}
        <4>1. length = columns
          BY <3>2, <2>1, <1>2
        <4> QED BY <4>1, <2>1, <2>5, <1>4, <1>7
      <3>4. ASSUME NEW i \in p .. e PROVE Letter(text, i)
        <4>1. i \in 1 .. n
          BY <3>1, <1>1
        <4>2. CASE i = e
          BY <4>2, <2>5
        <4>3. CASE i # e
          <5>1. i \in p .. e - 1
            BY <4>3, <3>1
          <5>2. ~Newline(text, i)
            BY <5>1, <2>2
          <5>3. ~Space(text, i)
            <6>1. CASE i = p
              BY <6>1
            <6>2. CASE i # p
              <7>1. i \in p + 1 .. p + length - 1
                <8>1. p + length - 1 = e - 1 /\ p \in Int /\ e \in Int /\ i \in Int
                  BY <2>1, <1>1, <1>2, <5>1
                <8> QED BY <8>1, <6>2, <5>1
              <7> QED BY <7>1, <3>3, <1>5
            <6> QED BY <6>1, <6>2
          <5> QED BY <4>1, <5>2, <5>3, <1>1
        <4> QED BY <4>2, <4>3
      <3> QED BY <3>2, <3>4
    <2>6. ASSUME e <= n, Space(text, e) PROVE e = p + columns
      <3>1. e \in 1 .. n
        BY <2>2, <2>6, <1>1
      <3> QED BY <3>1, <2>3, <2>6, <1>1
    <2>7. LineIs(text, n, columns, p, e)
      BY <2>2, <2>4, <2>5, <2>6 DEF LineIs
    <2> QED BY <2>7 DEF e, kept
  <1> QED BY <1>6, <1>7 DEF e, kept

\* wrap_text's loop: where it begins, and a pass of it.
WrapStart == [lines |-> <<>>, at |-> 1]

WrapLine(text, columns, x, from, after) ==
  [lines |-> Append(x.lines, <<from, after - 1>>),
   at |-> IF after <= Len(text) /\ text[after] = "\n" THEN after + 1 ELSE after]

WrapStep(text, columns, x) ==
  IF x.at > Len(text) THEN x
  ELSE IF Inputs!Begins(text, x.at) > Len(text) THEN [x EXCEPT !.at = Inputs!Begins(text, x.at)]
  ELSE WrapLine(text, columns, x, Inputs!Begins(text, x.at),
                Inputs!Begins(text, x.at) + Inputs!Kept(text, columns, Inputs!Begins(text, x.at)))

Wraps(f, text, columns, n) ==
  /\ IsUpTo(f, n) /\ f[0] = WrapStart
  /\ \A i \in 1 .. n : f[i] = WrapStep(text, columns, f[i - 1])

LEMMA WrapsExist ==
  ASSUME NEW text, NEW columns, NEW n \in Nat
  PROVE  \E f : Wraps(f, text, columns, n)
  <1> DEFINE without == {m \in Nat : ~\E f : Wraps(f, text, columns, m)}
  <1>1. SUFFICES ASSUME without # {} PROVE FALSE
    OBVIOUS
  <1>2. without \in SUBSET Nat
    OBVIOUS
  <1>3. PICK m \in without : \A k \in without : m <= k
    <2> HIDE DEF without
    <2> QED BY <1>1, <1>2, LeastOf
  <1>4. m \in Nat /\ ~\E f : Wraps(f, text, columns, m)
    BY <1>3
  <1>5. m # 0
    <2>1. Wraps([i \in 0 .. 0 |-> WrapStart], text, columns, 0)
      BY DEF Wraps, IsUpTo
    <2> QED BY <2>1, <1>4
  <1>6. m - 1 \in Nat /\ m - 1 \notin without
    <2> HIDE DEF without
    <2> QED BY <1>3, <1>4, <1>5
  <1>7. PICK f : Wraps(f, text, columns, m - 1)
    BY <1>6
  <1> DEFINE g == [i \in 0 .. m |-> IF i = m THEN WrapStep(text, columns, f[m - 1]) ELSE f[i]]
  <1>8. Wraps(g, text, columns, m)
    <2>1. IsUpTo(g, m) /\ g[0] = WrapStart
      <3>1. g[0] = WrapStart
        BY <1>4, <1>5, <1>7 DEF Wraps
      <3>2. IsUpTo(g, m)
        BY DEF IsUpTo
      <3> QED BY <3>1, <3>2
    <2>2. ASSUME NEW i \in 1 .. m PROVE g[i] = WrapStep(text, columns, g[i - 1])
      <3>1. CASE i = m
        BY <3>1, <1>4, <1>5
      <3>2. CASE i # m
        BY <3>2, <1>4, <1>5, <1>7 DEF Wraps
      <3> QED BY <3>1, <3>2
    <2> HIDE DEF g
    <2> QED BY <2>1, <2>2 DEF Wraps
  <1> QED BY <1>4, <1>8

LEMMA WrappedIs ==
  ASSUME NEW text, NEW columns, WrapLines \in Nat
  PROVE  \E f : Wraps(f, text, columns, WrapLines) /\ Inputs!Wrapped(text, columns) = f[WrapLines]
  <1> DEFINE n == WrapLines
             Is(f) == f = [i \in 0 .. n |-> IF i = 0 THEN WrapStart ELSE WrapStep(text, columns, f[i - 1])]
             f == CHOOSE h : Is(h)
  <1>1. PICK g : Wraps(g, text, columns, n)
    BY WrapsExist
  <1>2. Is(g)
    <2>1. ASSUME NEW i \in 0 .. n PROVE g[i] = IF i = 0 THEN WrapStart ELSE WrapStep(text, columns, g[i - 1])
      BY <1>1 DEF Wraps
    <2>2. g = [i \in 0 .. n |-> g[i]]
      BY <1>1 DEF Wraps, IsUpTo
    <2> QED BY <2>1, <2>2
  <1>3. Is(f)
    <2> HIDE DEF Is
    <2> QED BY <1>2
  <1>4. Inputs!Wrapped(text, columns) = f[n]
    BY Zenon DEF Inputs!Wrapped, WrapStart, WrapStep, WrapLine
  <1> HIDE DEF f
  <1>5. Wraps(f, text, columns, n)
    <2>1. \A i \in 0 .. n : f[i] = IF i = 0 THEN WrapStart ELSE WrapStep(text, columns, f[i - 1])
      BY <1>3
    <2>2. f = [i \in 0 .. n |-> f[i]]
      BY <1>3, <2>1
    <2>3. f[0] = WrapStart
      BY <2>1
    <2>4. ASSUME NEW i \in 1 .. n PROVE f[i] = WrapStep(text, columns, f[i - 1])
      BY <2>1
    <2> QED BY <2>2, <2>3, <2>4 DEF Wraps, IsUpTo
  <1> QED BY <1>4, <1>5

\* Where a line begins, and the place after it; and where the text goes on after it.
FirstOf(lines, k) == lines[k][1]
PastOf(lines, k) == lines[k][2] + 1
After(text, n, e) == IF e <= n /\ Newline(text, e) THEN e + 1 ELSE e

\* The lines that have been written after m passes, and the place that they go up to.
Written(text, n, columns, lines, at, m, l) ==
  /\ lines \in Seq(Int \X Int) /\ l \in 0 .. m /\ Len(lines) = l /\ at \in 1 .. n + 1
  /\ at <= n => l = m
  /\ \A k \in 1 .. l : LineIs(text, n, columns, FirstOf(lines, k), PastOf(lines, k))
  /\ \A k \in 1 .. l - 1 : Skipped(text, After(text, n, PastOf(lines, k)), FirstOf(lines, k + 1))
  /\ l = 0 => Skipped(text, 1, at)
  /\ l # 0 => Skipped(text, 1, FirstOf(lines, 1)) /\ Skipped(text, After(text, n, PastOf(lines, l)), at)

LEMMA GapsJoin ==
  ASSUME NEW text, NEW a \in Int, NEW b \in Int, NEW c \in Int, Skipped(text, a, b), Skipped(text, b, c)
  PROVE  Skipped(text, a, c)
  <1>1. a <= b /\ b <= c /\ (\A i \in a .. b - 1 : Space(text, i)) /\ \A i \in b .. c - 1 : Space(text, i)
    BY DEF Skipped
  <1>2. ASSUME NEW i \in a .. c - 1 PROVE Space(text, i)
    <2>1. i \in a .. b - 1 \/ i \in b .. c - 1
      OBVIOUS
    <2> QED BY <2>1, <1>1
  <1> QED BY <1>1, <1>2 DEF Skipped

\* A line that is added.
LEMMA LineWritten ==
  ASSUME NEW text, NEW n, IsLetters(text, n), NEW columns \in Nat \ {0}, NEW lines, NEW at, NEW m \in Nat,
         Written(text, n, columns, lines, at, m, m), at <= n,
         NEW p \in 1 .. n, Skipped(text, at, p), NEW e \in Int, LineIs(text, n, columns, p, e)
  PROVE  Written(text, n, columns, Append(lines, <<p, e - 1>>), After(text, n, e), m + 1, m + 1)
  <1> DEFINE more == Append(lines, <<p, e - 1>>)
  <1>1. /\ lines \in Seq(Int \X Int) /\ Len(lines) = m /\ at \in 1 .. n + 1 /\ n \in Nat
        /\ \A k \in 1 .. m : LineIs(text, n, columns, FirstOf(lines, k), PastOf(lines, k))
        /\ \A k \in 1 .. m - 1 : Skipped(text, After(text, n, PastOf(lines, k)), FirstOf(lines, k + 1))
        /\ m = 0 => Skipped(text, 1, at)
        /\ m # 0 => Skipped(text, 1, FirstOf(lines, 1)) /\ Skipped(text, After(text, n, PastOf(lines, m)), at)
    BY DEF Written, IsLetters
  <1>2. e \in p .. n + 1
    BY DEF LineIs
  <1>3. more \in Seq(Int \X Int) /\ Len(more) = m + 1 /\ more[m + 1] = <<p, e - 1>> /\ \A k \in 1 .. m : more[k] = lines[k]
    <2>1. PICK S : S = Int \X Int
      OBVIOUS
    <2>2. <<p, e - 1>> \in S
      BY <2>1, <1>1
    <2>3. /\ more \in Seq(S) /\ Len(more) = m + 1 /\ more[m + 1] = <<p, e - 1>>
          /\ Starts(more, lines, m)
      <3>1. lines \in Seq(S) /\ Len(lines) = m
        BY <1>1, <2>1
      <3> QED BY <2>2, <3>1, Extended
    <2> HIDE DEF more
    <2> QED BY <2>1, <2>3 DEF Starts
  <1> HIDE DEF more
  <1>4. FirstOf(more, m + 1) = p /\ PastOf(more, m + 1) = e
    BY <1>3 DEF FirstOf, PastOf
  <1>5. \A k \in 1 .. m : FirstOf(more, k) = FirstOf(lines, k) /\ PastOf(more, k) = PastOf(lines, k)
    BY <1>3 DEF FirstOf, PastOf
  <1>6. ASSUME NEW k \in 1 .. m + 1 PROVE LineIs(text, n, columns, FirstOf(more, k), PastOf(more, k))
    <2>1. CASE k = m + 1
      BY <2>1, <1>4
    <2>2. CASE k # m + 1
      <3>1. k \in 1 .. m
        BY <2>2
      <3> QED BY <3>1, <1>1, <1>5
    <2> QED BY <2>1, <2>2
  <1>7. ASSUME m # 0 PROVE After(text, n, PastOf(lines, m)) \in Int
    <2>1. m \in 1 .. m
      BY <1>7
    <2>2. LineIs(text, n, columns, FirstOf(lines, m), PastOf(lines, m))
      BY <2>1, <1>1
    <2>3. PastOf(lines, m) \in Int
      BY <2>2, <1>1 DEF LineIs
    <2> QED BY <2>3 DEF After
  <1>8. ASSUME NEW k \in 1 .. m PROVE Skipped(text, After(text, n, PastOf(more, k)), FirstOf(more, k + 1))
    <2>1. CASE k = m
      <3>1. Skipped(text, After(text, n, PastOf(lines, m)), p)
        <4>1. m # 0
          BY <2>1
        <4>2. After(text, n, PastOf(lines, m)) \in Int /\ at \in Int /\ p \in Int
          BY <4>1, <1>1, <1>7
        <4>3. Skipped(text, After(text, n, PastOf(lines, m)), at)
          BY <4>1, <1>1
        <4> QED BY <4>2, <4>3, GapsJoin
      <3> QED BY <2>1, <3>1, <1>4, <1>5
    <2>2. CASE k # m
      <3>1. k \in 1 .. m - 1 /\ k + 1 \in 1 .. m
        BY <2>2
      <3> QED BY <3>1, <1>1, <1>5
    <2> QED BY <2>1, <2>2
  <1>9. Skipped(text, 1, FirstOf(more, 1))
    <2>1. CASE m = 0
      <3>1. Skipped(text, 1, p)
        <4>1. 1 \in Int /\ at \in Int /\ p \in Int
          BY <1>1
        <4> QED BY <4>1, <2>1, <1>1, GapsJoin
      <3> QED BY <2>1, <3>1, <1>4
    <2>2. CASE m # 0
      BY <2>2, <1>1, <1>5
    <2> QED BY <2>1, <2>2
  <1>10. After(text, n, e) \in 1 .. n + 1 /\ Skipped(text, After(text, n, e), After(text, n, e))
    <2>1. After(text, n, e) \in 1 .. n + 1
      BY <1>1, <1>2 DEF After
    <2> HIDE DEF After
    <2> QED BY <2>1 DEF Skipped
  <1>11. m + 1 - 1 = m /\ m + 1 # 0 /\ m + 1 \in 0 .. m + 1
    OBVIOUS
  <1>12. Written(text, n, columns, more, After(text, n, e), m + 1, m + 1)
    BY <1>3, <1>4, <1>6, <1>8, <1>9, <1>10, <1>11 DEF Written
  <1> QED BY <1>12 DEF more

\* A pass of the loop goes on with what has been written.
LEMMA PassWritten ==
  ASSUME NEW text, NEW n, IsLetters(text, n), NEW columns \in Nat \ {0}, NEW x, NEW m \in Nat, NEW l,
         x = [lines |-> x.lines, at |-> x.at], Written(text, n, columns, x.lines, x.at, m, l)
  PROVE  LET y == WrapStep(text, columns, x)
         IN y = [lines |-> y.lines, at |-> y.at] /\ \E k : Written(text, n, columns, y.lines, y.at, m + 1, k)
  <1> DEFINE y == WrapStep(text, columns, x)
             at == x.at
             p == Inputs!Begins(text, at)
             e == p + Inputs!Kept(text, columns, p)
  <1>1. /\ x.lines \in Seq(Int \X Int) /\ l \in 0 .. m /\ Len(x.lines) = l /\ at \in 1 .. n + 1
        /\ at <= n => l = m
    BY DEF Written
  <1>2. n \in Nat /\ n = Len(text)
    BY DEF IsLetters
  <1>3. p \in at .. n + 1 /\ Skipped(text, at, p) /\ (p <= n => ~Space(text, p))
    BY <1>1, BeginsIs
  <1>4. /\ at > n => y = x
        /\ ~(at > n) /\ p > n => y = [x EXCEPT !.at = p]
        /\ ~(at > n) /\ ~(p > n) => y = WrapLine(text, columns, x, p, e)
    BY <1>2 DEF WrapStep
  <1>5. WrapLine(text, columns, x, p, e) = [lines |-> Append(x.lines, <<p, e - 1>>), at |-> After(text, n, e)]
    BY <1>2, Zenon DEF WrapLine, After, Newline
  <1> HIDE DEF y, p, e
  <1>6. CASE at > n
    <2>1. y = x
      BY <1>4, <1>6
    <2>2. ~(at <= n) /\ l \in 0 .. m + 1
      BY <1>1, <1>2, <1>6
    <2>3. Written(text, n, columns, x.lines, at, m + 1, l)
      BY <2>2 DEF Written
    <2> QED BY <2>1, <2>3 DEF y
  <1>7. CASE ~(at > n) /\ p > n
    <2>1. y = [lines |-> x.lines, at |-> p]
      BY <1>4, <1>7
    <2>2. ~(p <= n) /\ l \in 0 .. m + 1 /\ p \in 1 .. n + 1 /\ p \in Int /\ at \in Int
      BY <1>1, <1>2, <1>3, <1>7
    <2>3. l = 0 => Skipped(text, 1, p)
      <3>1. 1 \in Int
        OBVIOUS
      <3>2. l = 0 => Skipped(text, 1, at)
        BY DEF Written
      <3> QED BY <3>1, <3>2, <2>2, <1>3, GapsJoin
    <2>4. l # 0 => Skipped(text, After(text, n, PastOf(x.lines, l)), p)
      <3> SUFFICES ASSUME l # 0 PROVE Skipped(text, After(text, n, PastOf(x.lines, l)), p)
        OBVIOUS
      <3>1. l \in 1 .. l
        BY <1>1
      <3>2. LineIs(text, n, columns, FirstOf(x.lines, l), PastOf(x.lines, l)) /\ Skipped(text, After(text, n, PastOf(x.lines, l)), at)
        BY <3>1 DEF Written
      <3>3. PastOf(x.lines, l) \in Int
        BY <3>2, <1>2 DEF LineIs
      <3>4. After(text, n, PastOf(x.lines, l)) \in Int
        BY <3>3 DEF After
      <3> QED BY <3>2, <3>4, <2>2, <1>3, GapsJoin
    <2>5. Written(text, n, columns, x.lines, p, m + 1, l)
      BY <2>2, <2>3, <2>4 DEF Written
    <2>6. y.lines = x.lines /\ y.at = p
      BY <2>1
    <2>7. y = [lines |-> y.lines, at |-> y.at] /\ \E k : Written(text, n, columns, y.lines, y.at, m + 1, k)
      BY <2>1, <2>5, <2>6
    <2> QED BY <2>7 DEF y
  <1>8. CASE ~(at > n) /\ ~(p > n)
    <2>1. y = [lines |-> Append(x.lines, <<p, e - 1>>), at |-> After(text, n, e)]
      BY <1>4, <1>5, <1>8
    <2>2. at <= n /\ p \in 1 .. n /\ l = m /\ ~Space(text, p)
      BY <1>1, <1>2, <1>3, <1>8
    <2>3. LineIs(text, n, columns, p, e)
      BY <2>2, KeptIs DEF e
    <2>4. e \in Int
      BY <2>3, <1>2 DEF LineIs
    <2>5. Written(text, n, columns, Append(x.lines, <<p, e - 1>>), After(text, n, e), m + 1, m + 1)
      BY <2>2, <2>3, <2>4, <1>3, LineWritten
    <2>6. y.lines = Append(x.lines, <<p, e - 1>>) /\ y.at = After(text, n, e)
      BY <2>1
    <2>7. y = [lines |-> y.lines, at |-> y.at] /\ \E k : Written(text, n, columns, y.lines, y.at, m + 1, k)
      BY <2>1, <2>5, <2>6
    <2> QED BY <2>7 DEF y
  <1> QED BY <1>6, <1>7, <1>8 DEF y

LEMMA WrapsWritten ==
  ASSUME NEW text, NEW n, IsLetters(text, n), NEW columns \in Nat \ {0}, NEW M \in Nat, NEW f, Wraps(f, text, columns, M)
  PROVE  \E l : Written(text, n, columns, f[M].lines, f[M].at, M, l)
  <1> DEFINE Good(m) == f[m] = [lines |-> f[m].lines, at |-> f[m].at] /\ \E l : Written(text, n, columns, f[m].lines, f[m].at, m, l)
             wrong == {m \in 0 .. M : ~Good(m)}
  <1>1. f[0] = WrapStart /\ \A i \in 1 .. M : f[i] = WrapStep(text, columns, f[i - 1])
    BY DEF Wraps
  <1>2. SUFFICES ASSUME wrong # {} PROVE FALSE
    <2>1. M \in 0 .. M
      OBVIOUS
    <2> QED BY <2>1, <1>2
  <1>3. wrong \in SUBSET Nat
    OBVIOUS
  <1>4. PICK m \in wrong : \A k \in wrong : m <= k
    <2> HIDE DEF wrong
    <2> QED BY <1>2, <1>3, LeastOf
  <1>5. m \in 0 .. M /\ ~Good(m)
    BY <1>4
  <1>6. Good(0)
    <2>1. n \in Nat
      BY DEF IsLetters
    <2>2. f[0].lines = <<>> /\ f[0].at = 1 /\ f[0] = [lines |-> <<>>, at |-> 1]
      BY <1>1 DEF WrapStart
    <2>3. <<>> \in Seq(Int \X Int) /\ Len(<<>>) = 0
      OBVIOUS
    <2>4. Skipped(text, 1, 1)
      BY DEF Skipped
    <2>5. 0 \in 0 .. 0 /\ 1 \in 1 .. n + 1 /\ 1 .. 0 = {} /\ 1 .. 0 - 1 = {}
      BY <2>1
    <2>6. Written(text, n, columns, <<>>, 1, 0, 0)
      BY <2>3, <2>4, <2>5 DEF Written
    <2> QED BY <2>2, <2>6
  <1>7. m # 0
    <2> HIDE DEF Good
    <2> QED BY <1>5, <1>6
  <1>8. Good(m - 1)
    <2>1. m - 1 \in 0 .. M /\ ~(m <= m - 1)
      BY <1>5, <1>7
    <2>2. m - 1 \notin wrong
      <3> HIDE DEF wrong
      <3> QED BY <2>1, <1>4
    <2> HIDE DEF Good
    <2> QED BY <2>1, <2>2
  <1>9. Good(m)
    <2> DEFINE x == f[m - 1]
               k == m - 1
    <2>1. f[m] = WrapStep(text, columns, x)
      BY <1>1, <1>5, <1>7
    <2>2. PICK l : Written(text, n, columns, x.lines, x.at, k, l)
      BY <1>8
    <2>3. x = [lines |-> x.lines, at |-> x.at]
      BY <1>8
    <2>4. k \in Nat /\ k + 1 = m
      BY <1>5, <1>7
    <2> HIDE DEF x, k
    <2> DEFINE y == WrapStep(text, columns, x)
    <2>5. y = [lines |-> y.lines, at |-> y.at] /\ \E j : Written(text, n, columns, y.lines, y.at, k + 1, j)
      BY <2>2, <2>3, <2>4, PassWritten
    <2> HIDE DEF y
    <2>6. f[m] = y
      BY <2>1 DEF y
    <2> QED BY <2>4, <2>5, <2>6
  <1> HIDE DEF Good
  <1> QED BY <1>5, <1>9

\* Lines follow each other.
LEMMA LinesFollow ==
  ASSUME NEW text, NEW n, IsLetters(text, n), NEW columns \in Nat \ {0}, NEW lines, NEW at, NEW m \in Nat, NEW l \in Nat,
         Written(text, n, columns, lines, at, m, l)
  PROVE  \A k \in 1 .. l, j \in 1 .. l : k < j => PastOf(lines, k) <= FirstOf(lines, j)
  <1> DEFINE From(k) == FirstOf(lines, k)
             Past(k) == PastOf(lines, k)
  <1>1. n \in Nat
    BY DEF IsLetters
  <1>2. /\ \A k \in 1 .. l : LineIs(text, n, columns, From(k), Past(k))
        /\ \A k \in 1 .. l - 1 : Skipped(text, After(text, n, Past(k)), From(k + 1))
    BY DEF Written
  <1> HIDE DEF From, Past
  <1>3. \A k \in 1 .. l : From(k) \in 1 .. n /\ Past(k) \in From(k) .. n + 1
    BY <1>2 DEF LineIs
  <1>4. ASSUME NEW k \in 1 .. l - 1 PROVE Past(k) <= From(k + 1)
    <2>1. After(text, n, Past(k)) <= From(k + 1)
      BY <1>2 DEF Skipped
    <2>2. k \in 1 .. l /\ k + 1 \in 1 .. l
      OBVIOUS
    <2>3. Past(k) \in Int /\ From(k + 1) \in Int
      BY <2>2, <1>1, <1>3
    <2>4. After(text, n, Past(k)) \in Int /\ Past(k) <= After(text, n, Past(k))
      BY <2>3 DEF After
    <2> HIDE DEF After
    <2> QED BY <2>1, <2>3, <2>4
  <1>5. ASSUME NEW k \in 1 .. l, NEW j0 \in 1 .. l, k < j0 PROVE Past(k) <= From(j0)
    <2> DEFINE wrong == {j \in 0 .. l : k < j /\ ~(Past(k) <= From(j))}
    <2>1. SUFFICES ASSUME wrong # {} PROVE FALSE
      <3>1. j0 \in 0 .. l
        OBVIOUS
      <3> QED BY <3>1, <2>1, <1>5
    <2>2. wrong \in SUBSET Nat
      OBVIOUS
    <2>3. PICK j \in wrong : \A i \in wrong : j <= i
      <3> HIDE DEF wrong
      <3> QED BY <2>1, <2>2, LeastOf
    <2>4. j \in 0 .. l /\ k < j /\ ~(Past(k) <= From(j))
      BY <2>3
    <2>5. j - 1 \in 1 .. l - 1 /\ j - 1 + 1 = j /\ j - 1 \in 0 .. l /\ ~(j <= j - 1)
      BY <2>4
    <2>6. Past(j - 1) <= From(j)
      BY <2>5, <1>4
    <2>7. k # j - 1
      BY <2>4, <2>6
    <2>8. k < j - 1
      BY <2>4, <2>7
    <2>9. j - 1 \notin wrong
      <3> HIDE DEF wrong
      <3> QED BY <2>3, <2>5
    <2>10. Past(k) <= From(j - 1)
      BY <2>5, <2>8, <2>9
    <2>11. k \in 1 .. l /\ j - 1 \in 1 .. l /\ j \in 1 .. l
      BY <2>4, <2>5
    <2>12. Past(k) \in Int /\ From(j - 1) \in Int /\ Past(j - 1) \in From(j - 1) .. n + 1 /\ From(j) \in Int
      BY <2>11, <1>3, <1>1
    <2> QED BY <2>4, <2>6, <2>10, <2>12
  <1> QED BY <1>5 DEF From, Past

\* A place is in a line.
Within(lines, i, k) == FirstOf(lines, k) <= i /\ i < PastOf(lines, k)

\* Every letter is in one line when the text has been gone through.
LEMMA LetterWithin ==
  ASSUME NEW text, NEW n, IsLetters(text, n), NEW columns \in Nat \ {0}, NEW lines, NEW at, NEW m \in Nat, NEW l \in Nat,
         Written(text, n, columns, lines, at, m, l), at > n, NEW i \in 1 .. n, Letter(text, i)
  PROVE  \E k \in 1 .. l : Within(lines, i, k)
  <1> DEFINE From(k) == FirstOf(lines, k)
             Past(k) == PastOf(lines, k)
             S == {k \in 0 .. l : k # 0 /\ From(k) <= i}
  <1>1. n \in Nat /\ ~Space(text, i) /\ ~Newline(text, i)
    BY DEF IsLetters
  <1>2. /\ at \in 1 .. n + 1
        /\ \A k \in 1 .. l : LineIs(text, n, columns, From(k), Past(k))
        /\ \A k \in 1 .. l - 1 : Skipped(text, After(text, n, Past(k)), From(k + 1))
        /\ l = 0 => Skipped(text, 1, at)
        /\ l # 0 => Skipped(text, 1, From(1)) /\ Skipped(text, After(text, n, Past(l)), at)
    BY DEF Written
  <1>3. at = n + 1
    BY <1>1, <1>2
  <1> HIDE DEF From, Past
  <1>4. \A k \in 1 .. l : From(k) \in 1 .. n /\ Past(k) \in From(k) .. n + 1
    BY <1>2 DEF LineIs
  <1>5. l # 0
    <2> SUFFICES ASSUME l = 0 PROVE FALSE
      OBVIOUS
    <2>1. Skipped(text, 1, at)
      BY <1>2
    <2>2. i \in 1 .. at - 1
      BY <1>3, <1>1
    <2> QED BY <2>1, <2>2, <1>1 DEF Skipped
  <1>6. 1 \in S
    <2>1. 1 \in 1 .. l /\ From(1) \in 1 .. n
      BY <1>5, <1>4
    <2>2. Skipped(text, 1, From(1))
      BY <1>2, <1>5
    <2>3. i \in 1 .. From(1) - 1 => Space(text, i)
      BY <2>2 DEF Skipped
    <2>4. From(1) <= i
      BY <2>1, <2>3, <1>1
    <2> QED BY <2>1, <2>4
  <1>7. S \in SUBSET (0 .. l) /\ S # {}
    BY <1>6
  <1>8. PICK k \in S : \A j \in S : j <= k
    <2> HIDE DEF S
    <2> QED BY <1>7, GreatestOf
  <1>9. k \in 1 .. l /\ From(k) <= i
    BY <1>8
  <1>10. ASSUME ~(i < Past(k)) PROVE FALSE
    <2>1. Past(k) \in 1 .. n + 1 /\ Past(k) <= i
      BY <1>4, <1>9, <1>10, <1>1
    <2>2. After(text, n, Past(k)) \in 1 .. i
      <3>1. CASE Past(k) <= n /\ Newline(text, Past(k))
        <4>1. Past(k) # i
          BY <3>1, <1>1
        <4>2. After(text, n, Past(k)) = Past(k) + 1
          BY <3>1 DEF After
        <4> QED BY <4>1, <4>2, <2>1, <1>1
      <3>2. CASE ~(Past(k) <= n /\ Newline(text, Past(k)))
        <4>1. After(text, n, Past(k)) = Past(k)
          BY <3>2 DEF After
        <4> QED BY <4>1, <2>1, <1>1
      <3> QED BY <3>1, <3>2
    <2> DEFINE from == After(text, n, Past(k))
    <2> HIDE DEF from
    <2>3. from \in 1 .. i
      BY <2>2 DEF from
    <2>4. CASE k = l
      <3>1. Skipped(text, from, at)
        BY <2>4, <1>2, <1>5 DEF from
      <3>2. i \in from .. at - 1
        BY <2>3, <1>1, <1>3
      <3> QED BY <3>1, <3>2, <1>1 DEF Skipped
    <2>5. CASE k # l
      <3>1. k \in 1 .. l - 1 /\ k + 1 \in 1 .. l /\ k + 1 \in 0 .. l /\ ~(k + 1 <= k) /\ k + 1 # 0
        BY <2>5, <1>9
      <3>2. ~(From(k + 1) <= i)
        <4>1. k + 1 \notin S
          <5> HIDE DEF S
          <5>1. k + 1 \in S => k + 1 <= k
            BY <1>8
          <5> QED BY <3>1, <5>1
        <4> QED BY <4>1, <3>1
      <3>3. Skipped(text, from, From(k + 1))
        BY <3>1, <1>2 DEF from
      <3>4. From(k + 1) \in 1 .. n
        BY <3>1, <1>4
      <3>5. i \in from .. From(k + 1) - 1
        <4> DEFINE next == From(k + 1)
        <4>1. ~(next <= i) /\ next \in 1 .. n
          BY <3>2, <3>4
        <4> HIDE DEF next
        <4>2. i \in from .. next - 1
          BY <4>1, <2>3, <1>1
        <4> QED BY <4>2 DEF next
      <3> QED BY <3>3, <3>5, <1>1 DEF Skipped
    <2> QED BY <2>4, <2>5
  <1> QED BY <1>9, <1>10 DEF Within, From, Past

\* A line that follows another begins after a terminator, or with what did not fit.
BrokenAt(text, n, columns, p, e, q, r) ==
  LET newlines == {i \in e .. q - 1 : Newline(text, i)}
      word == Inputs!Smallest({i \in q .. n : ~Letter(text, i)} \cup {n + 1}) - 1
  IN /\ newlines = {} => word - p >= columns \/ (r - 1 < q /\ e - 1 - p = columns - 1)
     /\ newlines # {} => newlines = {e}

LEMMA BrokenIs ==
  ASSUME NEW text, NEW n, IsLetters(text, n), NEW columns \in Nat \ {0}, NEW p, NEW e, NEW q, NEW r,
         LineIs(text, n, columns, p, e), LineIs(text, n, columns, q, r), Skipped(text, After(text, n, e), q)
  PROVE  BrokenAt(text, n, columns, p, e, q, r)
  <1> DEFINE newlines == {i \in e .. q - 1 : Newline(text, i)}
             T == {i \in q .. n : ~Letter(text, i)} \cup {n + 1}
             stop == Inputs!Smallest(T)
  <1>1. /\ n \in Nat
        /\ \A i \in 1 .. n : /\ Letter(text, i) \/ Space(text, i) \/ Newline(text, i)
                             /\ ~(Letter(text, i) /\ Space(text, i)) /\ ~(Letter(text, i) /\ Newline(text, i))
                             /\ ~(Space(text, i) /\ Newline(text, i))
    BY DEF IsLetters
  <1>2. /\ p \in 1 .. n /\ e \in p .. n + 1 /\ e <= p + columns
        /\ e <= n /\ Letter(text, e) => e = p + columns /\ \A i \in p .. e : Letter(text, i)
        /\ e <= n /\ Space(text, e) => \/ e = p + columns
                                       \/ p + columns <= n /\ \A i \in e + 1 .. p + columns : Letter(text, i)
    BY DEF LineIs
  <1>3. /\ q \in 1 .. n /\ r \in q .. n + 1 /\ ~Space(text, q)
        /\ \A i \in q .. r - 1 : ~Newline(text, i)
    BY DEF LineIs
  <1>4. After(text, n, e) <= q /\ \A i \in After(text, n, e) .. q - 1 : Space(text, i)
    BY DEF Skipped
  <1>5. e \in 1 .. n /\ e <= q
    <2>1. After(text, n, e) \in {e, e + 1}
      BY DEF After
    <2> HIDE DEF newlines, T, stop
    <2> QED BY <2>1, <1>1, <1>2, <1>3, <1>4
  <1>6. stop \in T /\ \A y \in T : stop <= y
    <2>1. T \in SUBSET Nat /\ T # {}
      BY <1>1, <1>3
    <2> HIDE DEF T
    <2> QED BY <2>1, SmallestOf
  <1>7. stop \in q .. n + 1 /\ (stop <= n => ~Letter(text, stop))
    BY <1>1, <1>3, <1>6
  <1> HIDE DEF stop, T
  <1>8. CASE Newline(text, e)
    <2>1. After(text, n, e) = e + 1
      BY <1>5, <1>8 DEF After
    <2>2. ASSUME NEW i \in e .. q - 1, i # e PROVE ~Newline(text, i)
      <3>1. i \in e + 1 .. q - 1 /\ i \in 1 .. n
        BY <2>2, <1>5, <1>3, <1>1
      <3> QED BY <3>1, <2>1, <1>4, <1>1
    <2>3. e \in e .. q - 1
      BY <2>1, <1>4, <1>5, <1>3
    <2>4. newlines = {e}
      BY <2>2, <2>3, <1>8
    <2> HIDE DEF newlines
    <2>5. newlines # {}
      BY <2>4
    <2> QED BY <2>4, <2>5 DEF newlines, stop, T, BrokenAt
  <1>9. CASE ~Newline(text, e)
    <2>1. After(text, n, e) = e
      BY <1>9 DEF After
    <2>2. \A i \in e .. q - 1 : Space(text, i)
      BY <2>1, <1>4
    <2>3. ASSUME NEW i \in e .. q - 1 PROVE ~Newline(text, i)
      <3>1. i \in 1 .. n
        BY <1>5, <1>3, <1>1
      <3> QED BY <3>1, <2>2, <1>1
    <2>4. newlines = {}
      BY <2>3
    <2>5. stop - 1 - p >= columns \/ (r - 1 < q /\ e - 1 - p = columns - 1)
      <3> HIDE DEF newlines
      <3>1. CASE e = p + columns
        <4>1. CASE Letter(text, q)
          <5>1. stop # q
            BY <4>1, <1>7, <1>3
          <5> QED BY <5>1, <3>1, <1>1, <1>2, <1>3, <1>5, <1>7
        <4>2. CASE ~Letter(text, q)
          <5>1. Newline(text, q)
            BY <4>2, <1>1, <1>3
          <5>2. q \notin q .. r - 1
            BY <5>1, <1>3
          <5>3. r = q
            BY <5>2, <1>3, <1>1
          <5> QED BY <5>3, <3>1, <1>1, <1>2, <1>3
        <4> QED BY <4>1, <4>2
      <3>2. CASE e # p + columns
        <4>1. Space(text, e)
          BY <3>2, <1>1, <1>2, <1>5, <1>9
        <4>2. p + columns <= n /\ \A i \in e + 1 .. p + columns : Letter(text, i)
          BY <4>1, <3>2, <1>2, <1>5
        <4>3. e + 1 \in e + 1 .. p + columns /\ e + 1 \in 1 .. n
          BY <3>2, <4>2, <1>1, <1>2, <1>5
        <4>4. ~Space(text, e + 1)
          BY <4>2, <4>3, <1>1
        <4>5. q # e
          BY <4>1, <1>3
        <4>6. q = e + 1
          <5>1. e + 1 \notin e .. q - 1
            BY <4>4, <2>2
          <5> QED BY <5>1, <4>5, <1>5, <1>3, <1>1
        <4>7. stop \notin e + 1 .. p + columns
          <5>1. stop \in e + 1 .. p + columns => stop <= n /\ Letter(text, stop)
            BY <4>2, <1>1, <1>2, <1>5
          <5> QED BY <5>1, <1>7
        <4>8. stop > p + columns
          BY <4>6, <4>7, <1>7, <1>1, <1>2, <1>5
        <4> QED BY <4>8, <1>1, <1>2, <1>7, <1>3
      <3> QED BY <3>1, <3>2
    <2> QED BY <2>4, <2>5 DEF stop, T, BrokenAt
  <1> QED BY <1>8, <1>9

\* A word that two lines share is longer than a line.
LEMMA WordIsLong ==
  ASSUME NEW text, NEW n, IsLetters(text, n), NEW columns \in Nat \ {0}, NEW p, NEW e, LineIs(text, n, columns, p, e),
         NEW i \in 1 .. n, NEW j \in 1 .. n, p <= i, i < e, e <= j, Inputs!Together(text, i, j)
  PROVE  Letter(text, p) /\ j - p >= columns /\ Inputs!Together(text, p, j)
  <1>1. n \in Nat
    BY DEF IsLetters
  <1>2. /\ p \in 1 .. n /\ e \in p .. n + 1
        /\ e <= n /\ Letter(text, e) => e = p + columns /\ \A k \in p .. e : Letter(text, k)
    BY DEF LineIs
  <1>3. \A k \in i .. j : Letter(text, k)
    BY DEF Inputs!Together, Letter
  <1>4. e \in i .. j /\ e <= n
    BY <1>1, <1>2
  <1>5. e = p + columns /\ \A k \in p .. e : Letter(text, k)
    BY <1>2, <1>3, <1>4
  <1>6. ASSUME NEW k \in p .. j PROVE Letter(text, k)
    <2>1. k \in p .. e \/ k \in i .. j
      BY <1>1, <1>2, <1>4
    <2> QED BY <2>1, <1>3, <1>5
  <1>7. Inputs!Together(text, p, j)
    BY <1>6 DEF Inputs!Together, Letter
  <1>8. p \in p .. e /\ j - p >= columns
    BY <1>1, <1>2, <1>5
  <1> QED BY <1>5, <1>7, <1>8

\* wrap_text's lines, by what its loop has written.
LEMMA WrapIsRight ==
  ASSUME NEW n, IsLetters(s.of.text, n), s.of.columns \in Nat \ {0}, WrapLines \in Nat \ {0},
         s.answer[1] = Inputs!Wrap(s.of.text, s.of.columns)
  PROVE  Inputs!WrapRight
  <1> DEFINE text == s.of.text
             columns == s.of.columns
             x == s.answer[1]
             w == Inputs!Wrapped(text, columns)
             lines == w.lines
             From(k) == FirstOf(lines, k)
             Past(k) == PastOf(lines, k)
             places == {i \in 1 .. Len(text) : text[i] = "a"}
  <1>1. n \in Nat /\ n = Len(text)
    BY DEF IsLetters
  <1>2. PICK l : Written(text, n, columns, lines, w.at, WrapLines, l)
    <2>1. PICK f : Wraps(f, text, columns, WrapLines) /\ w = f[WrapLines]
      BY WrappedIs
    <2> HIDE DEF w, text, columns
    <2>2. \E l : Written(text, n, columns, f[WrapLines].lines, f[WrapLines].at, WrapLines, l)
      <3>1. IsLetters(text, n) /\ columns \in Nat \ {0} /\ WrapLines \in Nat
        BY DEF text, columns
      <3> QED BY <2>1, <3>1, WrapsWritten
    <2> QED BY <2>1, <2>2
  <1>3. x.lines = lines /\ (x.clipped <=> Len(lines) = WrapLines /\ w.at <= n)
    <2>1. x = [lines |-> lines, clipped |-> Len(lines) = WrapLines /\ w.at <= n]
      BY <1>1, Zenon DEF Inputs!Wrap
    <2> HIDE DEF x, w
    <2>2. x.clipped = (Len(lines) = WrapLines /\ w.at <= n)
      BY <2>1
    <2>3. x.lines = lines
      BY <2>1
    <2> QED BY <2>2, <2>3
  <1>4. IsLetters(text, n) /\ columns \in Nat \ {0} /\ WrapLines \in Nat
    OBVIOUS
  <1> HIDE DEF text, columns, x, w
  <1>5. /\ lines \in Seq(Int \X Int) /\ l \in Nat /\ Len(lines) = l /\ w.at \in 1 .. n + 1
        /\ w.at <= n => l = WrapLines
        /\ \A k \in 1 .. l : LineIs(text, n, columns, From(k), Past(k))
        /\ \A k \in 1 .. l - 1 : Skipped(text, After(text, n, Past(k)), From(k + 1))
    BY <1>2 DEF Written
  <1> DEFINE at == w.at
  <1> HIDE DEF lines, at
  <1>6. DOMAIN lines = 1 .. l /\ \A k \in 1 .. l : lines[k][1] \in Int /\ lines[k][2] \in Int
    <2>1. \A k \in 1 .. Len(lines) : lines[k] \in Int \X Int
      BY <1>5
    <2>2. DOMAIN lines = 1 .. Len(lines)
      BY <1>5
    <2> QED BY <2>1, <2>2, <1>5
  <1>7. \A k \in 1 .. l : /\ From(k) = lines[k][1] /\ Past(k) - 1 = lines[k][2] /\ lines[k][2] + 1 = Past(k)
                          /\ From(k) \in Int /\ Past(k) \in Int
    BY <1>6 DEF FirstOf, PastOf
  <1> HIDE DEF From, Past
  <1>8. \A k \in 1 .. l : From(k) \in 1 .. n /\ Past(k) \in From(k) .. n + 1 /\ Past(k) <= From(k) + columns
    BY <1>5 DEF LineIs
  <1>9. \A i : i \in places <=> i \in 1 .. n /\ Letter(text, i)
    BY <1>1 DEF Letter
  <1> HIDE DEF places
  <1>10. ASSUME NEW i \in 1 .. n, NEW k
         PROVE  k \in Inputs!LineOf(i, lines) <=> k \in 1 .. l /\ From(k) <= i /\ i < Past(k)
    <2>1. k \in Inputs!LineOf(i, lines) <=> k \in 1 .. l /\ i \in lines[k][1] .. lines[k][2]
      BY <1>6 DEF Inputs!LineOf
    <2>2. ASSUME k \in 1 .. l PROVE i \in lines[k][1] .. lines[k][2] <=> From(k) <= i /\ i < Past(k)
      <3>1. From(k) = lines[k][1] /\ Past(k) - 1 = lines[k][2] /\ From(k) \in Int /\ Past(k) \in Int
        BY <2>2, <1>7
      <3>2. i \in From(k) .. Past(k) - 1 <=> From(k) <= i /\ i < Past(k)
        BY <3>1
      <3> QED BY <3>1, <3>2
    <2> QED BY <2>1, <2>2
  <1>11. \A k \in 1 .. l, j \in 1 .. l : k < j => Past(k) <= From(j)
    <2>1. WrapLines \in Nat /\ l \in Nat /\ Written(text, n, columns, lines, at, WrapLines, l)
      BY <1>2, <1>4, <1>5 DEF at
    <2> QED BY <2>1, <1>4, LinesFollow DEF From, Past
  <1>12. ASSUME NEW k \in DOMAIN lines PROVE lines[k][2] - lines[k][1] < columns
    <2>1. k \in 1 .. l
      BY <1>6
    <2> QED BY <2>1, <1>4, <1>6, <1>7, <1>8
  <1>13. ASSUME NEW k \in 1 .. l - 1 PROVE Inputs!Broken(text, columns, lines[k], lines[k + 1])
    <2> DEFINE p == From(k)
               e == Past(k)
               q == From(k + 1)
               r == Past(k + 1)
               newlines == {i \in e .. q - 1 : Newline(text, i)}
               T == {i \in q .. n : ~Letter(text, i)} \cup {n + 1}
               word == Inputs!Smallest(T) - 1
    <2>1. k \in 1 .. l /\ k + 1 \in 1 .. l
      BY <1>5
    <2>2. LineIs(text, n, columns, p, e) /\ LineIs(text, n, columns, q, r) /\ Skipped(text, After(text, n, e), q)
      BY <2>1, <1>5
    <2>3. /\ newlines = {} => word - p >= columns \/ (r - 1 < q /\ e - 1 - p = columns - 1)
          /\ newlines # {} => newlines = {e}
      <3> HIDE DEF p, e, q, r
      <3>1. BrokenAt(text, n, columns, p, e, q, r)
        BY <2>2, <1>4, BrokenIs
      <3> QED BY <3>1 DEF BrokenAt
    <2>4. /\ lines[k][1] = p /\ lines[k][2] = e - 1 /\ lines[k][2] + 1 = e
          /\ lines[k + 1][1] = q /\ lines[k + 1][2] = r - 1
      BY <2>1, <1>7
    <2>5. newlines = {i \in lines[k][2] + 1 .. lines[k + 1][1] - 1 : text[i] = "\n"}
      BY <2>4 DEF Newline
    <2>6. T = {i \in lines[k + 1][1] .. Len(text) : text[i] # "a"} \cup {Len(text) + 1}
      BY <2>4, <1>1 DEF Letter
    <2>7. newlines # {} => Inputs!Cardinality(newlines) = 1
      <3> SUFFICES ASSUME newlines # {} PROVE Inputs!Cardinality(newlines) = 1
        OBVIOUS
      <3>1. newlines = {e}
        BY <2>3
      <3> HIDE DEF newlines
      <3>2. Cardinality(newlines) = 1
        BY <3>1, FS_Singleton
      <3>3. Inputs!Cardinality(newlines) = Cardinality(newlines)
        BY DEF Inputs!Cardinality, Cardinality, Inputs!IsFiniteSet, IsFiniteSet
      <3> QED BY <3>2, <3>3
    <2> HIDE DEF newlines, T
    <2>8. IF newlines = {} THEN word - lines[k][1] >= columns
                                \/ (lines[k + 1][2] < lines[k + 1][1] /\ lines[k][2] - lines[k][1] = columns - 1)
          ELSE Inputs!Cardinality(newlines) = 1
      BY <2>3, <2>4, <2>7
    <2> QED BY <2>5, <2>6, <2>8 DEF Inputs!Broken
  <1>14. ASSUME ~x.clipped, NEW i \in places PROVE Inputs!Cardinality(Inputs!LineOf(i, lines)) = 1
    <2>1. i \in 1 .. n /\ Letter(text, i)
      BY <1>9
    <2>2. at > n
      <3>1. ~(Len(lines) = WrapLines /\ at <= n)
        BY <1>3, <1>14 DEF at
      <3>2. ~(at <= n) /\ at \in Int
        BY <3>1, <1>5, <1>1 DEF at
      <3> QED BY <3>2, <1>1
    <2>3. \E k \in 1 .. l : Within(lines, i, k)
      <3>1. WrapLines \in Nat /\ l \in Nat /\ Written(text, n, columns, lines, at, WrapLines, l)
        BY <1>2, <1>4, <1>5 DEF at
      <3> QED BY <3>1, <2>1, <2>2, <1>4, LetterWithin
    <2>4. PICK k \in 1 .. l : From(k) <= i /\ i < Past(k)
      BY <2>3 DEF Within, From, Past
    <2>5. ASSUME NEW j \in Inputs!LineOf(i, lines), j # k PROVE FALSE
      <3>1. j \in 1 .. l /\ From(j) <= i /\ i < Past(j)
        BY <2>1, <1>10
      <3>2. CASE j < k
        <4>1. Past(j) <= From(k)
          BY <3>1, <3>2, <1>11
        <4> QED BY <4>1, <3>1, <2>1, <2>4, <1>7, <1>1
      <3>3. CASE k < j
        <4>1. Past(k) <= From(j)
          BY <3>1, <3>3, <1>11
        <4> QED BY <4>1, <3>1, <2>1, <2>4, <1>7, <1>1
      <3> QED BY <3>1, <3>2, <3>3, <2>5, <1>5
    <2>6. k \in Inputs!LineOf(i, lines)
      BY <2>1, <2>4, <1>10
    <2>7. Inputs!LineOf(i, lines) = {k}
      BY <2>5, <2>6
    <2> DEFINE S == Inputs!LineOf(i, lines)
    <2> HIDE DEF S
    <2>8. S = {k}
      BY <2>7 DEF S
    <2>9. Cardinality(S) = 1
      BY <2>8, FS_Singleton
    <2>10. Inputs!Cardinality(S) = Cardinality(S)
      BY DEF Inputs!Cardinality, Cardinality, Inputs!IsFiniteSet, IsFiniteSet
    <2> QED BY <2>9, <2>10 DEF S
  <1>15. ASSUME NEW i \in places, NEW j \in places, NEW a \in Inputs!LineOf(i, lines), NEW b \in Inputs!LineOf(j, lines)
         PROVE  /\ i <= j => a <= b
                /\ i < j /\ (\E k \in i .. j : text[k] = "\n") => a < b
                /\ i < j /\ a # b /\ Inputs!Together(text, i, j) =>
                     \E p, q \in places : p <= i /\ q >= j /\ q - p >= columns /\ Inputs!Together(text, p, q)
    <2>1. i \in 1 .. n /\ j \in 1 .. n /\ Letter(text, i) /\ Letter(text, j)
      BY <1>9
    <2>2. a \in 1 .. l /\ From(a) <= i /\ i < Past(a)
      BY <2>1, <1>10
    <2>3. b \in 1 .. l /\ From(b) <= j /\ j < Past(b)
      BY <2>1, <1>10
    <2>4. /\ From(a) \in Int /\ Past(a) \in Int /\ From(b) \in Int /\ Past(b) \in Int
          /\ i \in Int /\ j \in Int /\ a \in Int /\ b \in Int
      BY <2>1, <2>2, <2>3, <1>7, <1>1, <1>5
    <2>5. ASSUME i <= j PROVE a <= b
      <3>1. b < a => Past(b) <= From(a)
        BY <2>2, <2>3, <1>11
      <3> QED BY <3>1, <2>2, <2>3, <2>4, <2>5
    <2>6. ASSUME i < j, NEW k \in i .. j, Newline(text, k) PROVE a < b
      <3>1. a <= b
        BY <2>4, <2>5, <2>6
      <3>2. ASSUME a = b PROVE FALSE
        <4>1. k \in From(a) .. Past(a) - 1
          BY <3>2, <2>2, <2>3, <2>4, <2>6
        <4>2. ~Newline(text, k)
          BY <4>1, <2>2, <1>5 DEF LineIs
        <4> QED BY <4>2, <2>6
      <3> QED BY <3>1, <3>2, <2>4
    <2>7. ASSUME i < j, a # b, Inputs!Together(text, i, j)
          PROVE  \E p, q \in places : p <= i /\ q >= j /\ q - p >= columns /\ Inputs!Together(text, p, q)
      <3> DEFINE p == From(a)
                 e == Past(a)
      <3>1. a < b
        BY <2>4, <2>5, <2>7
      <3>2. e <= From(b)
        BY <3>1, <2>2, <2>3, <1>11
      <3>3. p <= i /\ i < e /\ e <= j
        BY <3>2, <2>2, <2>3, <2>4
      <3>4. LineIs(text, n, columns, p, e) /\ p \in 1 .. n
        BY <2>2, <1>5, <1>8
      <3> HIDE DEF p, e
      <3>5. Letter(text, p) /\ j - p >= columns /\ Inputs!Together(text, p, j)
        BY <3>3, <3>4, <2>1, <2>7, <1>4, WordIsLong
      <3>6. p \in places /\ j \in places /\ j >= j
        BY <3>4, <3>5, <2>4, <1>9
      <3> QED BY <3>3, <3>5, <3>6
    <2>8. (\E k \in i .. j : text[k] = "\n") => \E k \in i .. j : Newline(text, k)
      BY DEF Newline
    <2> QED BY <2>5, <2>6, <2>7, <2>8
  <1>16. l - 1 = Len(x.lines) - 1
    BY <1>3, <1>5
  <1>17. x.lines = lines
    BY <1>3
  <1> HIDE DEF From, Past
  <1>18. /\ \A k \in DOMAIN x.lines : x.lines[k][2] - x.lines[k][1] < columns
         /\ \A k \in 1 .. Len(x.lines) - 1 : Inputs!Broken(text, columns, x.lines[k], x.lines[k + 1])
         /\ ~x.clipped => \A i \in places : Inputs!Cardinality(Inputs!LineOf(i, x.lines)) = 1
         /\ \A i, j \in places : \A a \in Inputs!LineOf(i, x.lines), b \in Inputs!LineOf(j, x.lines) :
              /\ i <= j => a <= b
              /\ i < j /\ (\E k \in i .. j : text[k] = "\n") => a < b
              /\ i < j /\ a # b /\ Inputs!Together(text, i, j) =>
                   \E p, q \in places : p <= i /\ q >= j /\ q - p >= columns /\ Inputs!Together(text, p, q)
    BY <1>12, <1>13, <1>14, <1>15, <1>16, <1>17
  <1> QED BY Zenon, <1>18 DEF Inputs!WrapRight, x, text, columns, places

-----------------------------------------------------------------------------
(* Inputs: dates *)

\* The days before each year, as the equation of the recursive function says.
YearStart(y) ==
  \A n \in 2024 .. 2100 : y[n] = IF n = 2024 THEN 0 ELSE y[n - 1] + (IF Inputs!IsLeap(n - 1) THEN 366 ELSE 365)

LEMMA YearsOf ==
  ASSUME NEW y, YearStart(y), NEW year \in 2024 .. 2100
  PROVE  y[year] = 365 * (year - 2024) + ((year - 2021) \div 4)
  <1> DEFINE wrong == {n \in 2024 .. 2100 : y[n] # 365 * (n - 2024) + ((n - 2021) \div 4)}
  <1>1. SUFFICES ASSUME wrong # {} PROVE FALSE
    OBVIOUS
  <1>a. wrong \in SUBSET Nat
    OBVIOUS
  <1>2. PICK n \in wrong : \A m \in wrong : n <= m
    <2> HIDE DEF wrong
    <2> QED BY <1>1, <1>a, LeastOf
  <1>3. n \in 2024 .. 2100 /\ y[n] # 365 * (n - 2024) + ((n - 2021) \div 4)
    BY <1>2
  <1>4. CASE n = 2024
    BY <1>3, <1>4 DEF YearStart
  <1>5. CASE n # 2024
    <2>1. n - 1 \in 2024 .. 2100 /\ n - 1 \notin wrong
      BY <1>2, <1>3, <1>5
    <2>2. y[n - 1] = 365 * (n - 1 - 2024) + ((n - 1 - 2021) \div 4)
      BY <2>1
    <2>3. y[n] = y[n - 1] + (IF Inputs!IsLeap(n - 1) THEN 366 ELSE 365)
      BY <1>3, <1>5 DEF YearStart
    <2>4. Inputs!IsLeap(n - 1) <=> (n - 1) % 4 = 0
      BY <1>3, <1>5 DEF Inputs!IsLeap
    <2> QED BY <2>2, <2>3, <2>4, <1>3, <1>5
  <1> QED BY <1>4, <1>5

\* The days of the months before each, in a year that is no leap year.
Elapsed(month) == <<0, 31, 59, 90, 120, 151, 181, 212, 243, 273, 304, 334>>[month]

LEMMA DaysBeforeThem ==
  ASSUME NEW year \in 2024 .. 2099, NEW month \in 1 .. 12
  PROVE  Inputs!DaysBefore(year, month) =
           365 * (year - 2024) + ((year - 2021) \div 4) + Elapsed(month) + (IF month > 2 /\ year % 4 = 0 THEN 1 ELSE 0)
  <1> DEFINE
      Years(y) == y = [n \in 2024 .. 2100 |-> IF n = 2024 THEN 0
                         ELSE y[n - 1] + (IF Inputs!IsLeap(n - 1) THEN 366 ELSE 365)]
      years == CHOOSE y : Years(y)
      Months(m) == m = [n \in 1 .. 12 |-> IF n = 1 THEN years[year] ELSE m[n - 1] + Inputs!MonthDays(year, n - 1)]
      months == CHOOSE m : Months(m)
      start == 365 * (year - 2024) + ((year - 2021) \div 4)
      leap == IF year % 4 = 0 THEN 1 ELSE 0
  <1>1. Years([n \in 2024 .. 2100 |-> 365 * (n - 2024) + ((n - 2021) \div 4)])
    <2> SUFFICES ASSUME NEW n \in 2024 .. 2100
                 PROVE  365 * (n - 2024) + ((n - 2021) \div 4) = IF n = 2024 THEN 0
                          ELSE [m \in 2024 .. 2100 |-> 365 * (m - 2024) + ((m - 2021) \div 4)][n - 1]
                                 + (IF Inputs!IsLeap(n - 1) THEN 366 ELSE 365)
      OBVIOUS
    <2>1. n # 2024 => (Inputs!IsLeap(n - 1) <=> (n - 1) % 4 = 0)
      BY DEF Inputs!IsLeap
    <2> QED BY <2>1
  <1>2. Years(years)
    <2> HIDE DEF Years
    <2> QED BY <1>1 DEF years
  <1> HIDE DEF years
  <1>3. YearStart(years)
    BY <1>2 DEF YearStart
  <1>4. years[year] = start
    BY <1>3, YearsOf
  <1>5. Inputs!IsLeap(year) <=> year % 4 = 0
    BY DEF Inputs!IsLeap
  <1>6. \A n \in 1 .. 12 : Inputs!MonthDays(year, n) = Inputs!Days[n] + (IF n = 2 THEN leap ELSE 0)
    BY <1>5 DEF Inputs!MonthDays, Inputs!Days
  <1>7. Months([n \in 1 .. 12 |-> start + Elapsed(n) + (IF n > 2 THEN leap ELSE 0)])
    BY <1>4, <1>6 DEF Elapsed, Inputs!Days
  <1>8. Months(months)
    <2> HIDE DEF Months
    <2> QED BY <1>7 DEF months
  <1>9. Inputs!DaysBefore(year, month) = months[month]
    BY DEF Inputs!DaysBefore, years
  <1> HIDE DEF months
  <1>10. /\ months[1] = start
         /\ \A n \in 2 .. 12 : months[n] = months[n - 1] + Inputs!MonthDays(year, n - 1)
    BY <1>8, <1>4
  <1>11. \A n \in 1 .. 12 : months[n] = start + Elapsed(n) + (IF n > 2 THEN leap ELSE 0)
    BY <1>10, <1>6 DEF Elapsed, Inputs!Days
  <1> QED BY <1>9, <1>11

\* The two ways to count agree, up to whole weeks.
LEMMA SameRemainder ==
  ASSUME NEW a \in Int, NEW b \in Int, NEW k \in Int, a = b + 7 * k
  PROVE  a % 7 = b % 7
  OBVIOUS

LEMMA MonthsAgree ==
  ASSUME NEW month \in 1 .. 12
  PROVE  \E c \in Int : 7 * c = Elapsed(month) - Inputs!MonthOffset[month] + (IF month < 3 THEN 1 ELSE 0) - 1
  <1> DEFINE c == <<0, 4, 8, 12, 17, 21, 25, 30, 34, 38, 43, 47>>[month]
  <1>1. c \in Int /\ 7 * c = Elapsed(month) - Inputs!MonthOffset[month] + (IF month < 3 THEN 1 ELSE 0) - 1
    BY DEF Elapsed, Inputs!MonthOffset
  <1> QED BY <1>1

LEMMA WeekdayCorrect ==
  ASSUME NEW year \in Int, NEW month \in Int, NEW day \in Int,
         s.of = [year |-> year, month |-> month, day |-> day], s.answer[1] = Inputs!Weekday(s.of)
  PROVE  Inputs!WeekdayRight
  <1> DEFINE leap == IF year % 4 = 0 THEN 1 ELSE 0
             exists == year \in 2024 .. 2099 /\ month \in 1 .. 12 /\ day \in 1 .. Inputs!MonthDays(year, month)
             y == IF month < 3 THEN year - 1 ELSE year
  <1>1. SUFFICES Inputs!Weekday(s.of) = IF exists THEN (Inputs!DaysBefore(year, month) + day) % 7 ELSE -1
    BY DEF Inputs!WeekdayRight
  <1>2. CASE year \notin 2024 .. 2099 \/ month \notin 1 .. 12
    BY <1>2 DEF Inputs!Weekday
  <1>3. CASE year \in 2024 .. 2099 /\ month \in 1 .. 12
    <2>1. Inputs!IsLeap(year) <=> year % 4 = 0
      BY <1>3 DEF Inputs!IsLeap
    <2>2. Inputs!MonthDays(year, month) = Inputs!Days[month] + (IF month = 2 /\ year % 4 = 0 THEN 1 ELSE 0)
      BY <1>3, <2>1 DEF Inputs!MonthDays, Inputs!Days
    <2>3. CASE ~exists
      BY <1>3, <2>2, <2>3 DEF Inputs!Weekday, Inputs!Days
    <2>4. CASE exists
      <3>1. Inputs!Weekday(s.of) = (y + y \div 4 - y \div 100 + y \div 400 + Inputs!MonthOffset[month] + day) % 7
        BY <1>3, <2>2, <2>4 DEF Inputs!Weekday, Inputs!Days
      <3>2. y \div 100 = 20 /\ y \div 400 = 5 /\ y \in Int
        BY <1>3
      <3>3. Inputs!DaysBefore(year, month) =
              365 * (year - 2024) + ((year - 2021) \div 4) + Elapsed(month) + (IF month > 2 /\ year % 4 = 0 THEN 1 ELSE 0)
        BY <1>3, DaysBeforeThem
      <3>4. (y + y \div 4 - 20 + 5 + Inputs!MonthOffset[month] + day) % 7 = (Inputs!DaysBefore(year, month) + day) % 7
        <4> DEFINE q == year \div 4
                   r == year % 4
        <4>1. year = 4 * q + r /\ q \in Int /\ r \in 0 .. 3
          BY <1>3
        <4>2. (year - 2021) \div 4 = q - 506 + (IF r = 0 THEN 0 ELSE 1)
          BY <4>1
        <4>3. (year - 1) \div 4 = q - (IF r = 0 THEN 1 ELSE 0)
          BY <4>1
        <4>4. Inputs!MonthOffset[month] \in Int /\ Elapsed(month) \in Int /\ Inputs!DaysBefore(year, month) \in Int
          <5>1. Inputs!MonthOffset[month] \in Int /\ Elapsed(month) \in Int
            BY <1>3 DEF Inputs!MonthOffset, Elapsed
          <5> QED BY <5>1, <3>3, <4>1, <4>2
        <4>5. PICK c \in Int : 7 * c = Elapsed(month) - Inputs!MonthOffset[month] + (IF month < 3 THEN 1 ELSE 0) - 1
          BY <1>3, MonthsAgree
        <4>6. Inputs!DaysBefore(year, month) + day
                = y + y \div 4 - 20 + 5 + Inputs!MonthOffset[month] + day + 7 * (52 * (year - 2024) + c - 359)
          <5>1. PICK e \in Int, o \in Int, b \in Int :
                  e = Elapsed(month) /\ o = Inputs!MonthOffset[month] /\ b = Inputs!DaysBefore(year, month)
            BY <4>4
          <5>2. PICK y4 \in Int, q4 \in Int : y4 = y \div 4 /\ q4 = (year - 2021) \div 4 /\ q4 = q - 506 + (IF r = 0 THEN 0 ELSE 1)
            BY <4>1, <4>2
          <5>3. b = 365 * (year - 2024) + q4 + e + (IF month > 2 /\ r = 0 THEN 1 ELSE 0)
            BY <3>3, <5>1, <5>2
          <5>4. y4 = q - (IF r = 0 /\ month < 3 THEN 1 ELSE 0)
            <6>1. CASE month < 3
              BY <4>3, <5>2, <6>1
            <6>2. CASE ~(month < 3)
              BY <5>2, <6>2
            <6> QED BY <6>1, <6>2
          <5>5. y = year - (IF month < 3 THEN 1 ELSE 0)
            BY <1>3
          <5>6. 7 * c = e - o + (IF month < 3 THEN 1 ELSE 0) - 1
            BY <4>5, <5>1
          <5> HIDE DEF q, r, y
          <5>7. b + day = y + y4 - 20 + 5 + o + day + 7 * (52 * (year - 2024) + c - 359)
            <6>1. PICK z \in Int : z = IF r = 0 THEN 1 ELSE 0
              OBVIOUS
            <6>2. q4 = q - 505 - z /\ q \in Int
              BY <4>1, <5>2, <6>1
            <6>3. CASE month < 3
              <7>1. b = 365 * (year - 2024) + q4 + e /\ y4 = q - z /\ y = year - 1 /\ 7 * c = e - o
                BY <6>1, <6>3, <5>3, <5>4, <5>5, <5>6, <4>1, <1>3, <5>1, <5>2
              <7> QED BY <7>1, <6>2
            <6>4. CASE ~(month < 3)
              <7>1. b = 365 * (year - 2024) + q4 + e + z /\ y4 = q /\ y = year /\ 7 * c = e - o - 1
                BY <6>1, <6>4, <5>3, <5>4, <5>5, <5>6, <4>1, <1>3, <5>1, <5>2
              <7> QED BY <7>1, <6>2
            <6> QED BY <6>3, <6>4
          <5> QED BY <5>1, <5>2, <5>7
        <4> QED BY <4>4, <4>5, <4>6, <3>2, SameRemainder
      <3> QED BY <3>1, <3>2, <3>4, <2>4
    <2> QED BY <2>3, <2>4
  <1> QED BY <1>2, <1>3

-----------------------------------------------------------------------------
(* Inputs: each is asked for once, and what was returned is what the function returns. *)

Asked(unit, of) ==
  CASE unit = "wav" -> of \in Inputs!Files
    [] unit = "utf8" -> of.limit \in Nat /\ \E n \in Nat : IsText(of.bytes, n)
    [] unit = "wrap" -> of.columns \in Nat \ {0} /\ \E n \in Nat : IsLetters(of.text, n)
    [] unit = "date" -> \E year \in Int, month \in Int, day \in Int : of = [year |-> year, month |-> month, day |-> day]
Returned(unit, of) ==
  CASE unit = "wav" -> Inputs!WavOpen(of)
    [] unit = "utf8" -> [prefix |-> Inputs!Prefix(of.bytes, of.limit), plain |-> Inputs!PlainText(of.bytes)]
    [] unit = "wrap" -> Inputs!Wrap(of.text, of.columns)
    [] unit = "date" -> Inputs!Weekday(of)

InputsInv ==
  /\ DOMAIN s = {"unit", "of", "answer"} /\ s.unit \in {"wav", "utf8", "wrap", "date"}
  /\ Asked(s.unit, s.of)
  /\ s.answer = <<>> \/ s.answer = <<Returned(s.unit, s.of)>>

LEMMA TextsAre ==
  ASSUME NEW bytes \in Inputs!Texts
  PROVE  \E n \in Nat : IsText(bytes, n)
  <1> DEFINE L == Inputs!Leads
             N == Inputs!Nexts
             T == {65, 128, 191}
  <1>1. L \subseteq 0 .. 255 /\ N \subseteq 0 .. 255 /\ T \subseteq 0 .. 255
    BY DEF Inputs!Leads, Inputs!Nexts
  <1>2. \/ bytes \in {<<a, b, c>> : a \in L, b \in N, c \in T}
        \/ bytes \in {<<a, b, 128, c>> : a \in L, b \in N, c \in T}
        \/ bytes \in {<<65, a, b, 191>> : a \in L, b \in N}
    <2> HIDE DEF L, N, T
    <2> QED BY DEF Inputs!Texts, L, N, T
  <1> HIDE DEF L, N, T
  <1>3. CASE bytes \in {<<a, b, c>> : a \in L, b \in N, c \in T}
    <2>1. PICK a \in L, b \in N, c \in T : bytes = <<a, b, c>>
      BY <1>3
    <2>2. a \in 0 .. 255 /\ b \in 0 .. 255 /\ c \in 0 .. 255
      BY <1>1
    <2>3. IsText(bytes, 3)
      BY <2>1, <2>2 DEF IsText
    <2> QED BY <2>3
  <1>4. CASE bytes \in {<<a, b, 128, c>> : a \in L, b \in N, c \in T}
    <2>1. PICK a \in L, b \in N, c \in T : bytes = <<a, b, 128, c>>
      BY <1>4
    <2>2. a \in 0 .. 255 /\ b \in 0 .. 255 /\ 128 \in 0 .. 255 /\ c \in 0 .. 255
      BY <1>1
    <2>3. IsText(bytes, 4)
      BY <2>1, <2>2 DEF IsText
    <2> QED BY <2>3
  <1>5. CASE bytes \in {<<65, a, b, 191>> : a \in L, b \in N}
    <2>1. PICK a \in L, b \in N : bytes = <<65, a, b, 191>>
      BY <1>5
    <2>2. 65 \in 0 .. 255 /\ a \in 0 .. 255 /\ b \in 0 .. 255 /\ 191 \in 0 .. 255
      BY <1>1
    <2>3. IsText(bytes, 4)
      BY <2>1, <2>2 DEF IsText
    <2> QED BY <2>3
  <1> QED BY <1>2, <1>3, <1>4, <1>5

LEMMA LettersAre ==
  ASSUME NEW n \in Nat, NEW text \in [1 .. n -> Inputs!Letters]
  PROVE  IsLetters(text, n)
  <1>1. n = Len(text)
    OBVIOUS
  <1>2. \A i \in 1 .. n : text[i] \in {"a", " ", "\n"}
    BY DEF Inputs!Letters
  <1> QED BY <1>1, <1>2 DEF IsLetters, Letter, Space, Newline

LEMMA InputsBegin == Inputs!Init => InputsInv
  <1> SUFFICES ASSUME Inputs!Init PROVE InputsInv
    OBVIOUS
  <1>1. ASSUME NEW file \in Inputs!Files, s = [unit |-> "wav", of |-> file, answer |-> <<>>] PROVE InputsInv
    <2>1. DOMAIN s = {"unit", "of", "answer"} /\ s.unit = "wav" /\ s.of = file /\ s.answer = <<>>
      BY <1>1
    <2> QED BY <2>1 DEF InputsInv, Asked
  <1>2. ASSUME NEW bytes \in Inputs!Texts, NEW limit \in 1 .. 4,
               s = [unit |-> "utf8", of |-> [bytes |-> bytes, limit |-> limit], answer |-> <<>>]
        PROVE  InputsInv
    <2>1. /\ DOMAIN s = {"unit", "of", "answer"} /\ s.unit = "utf8" /\ s.of.bytes = bytes /\ s.of.limit = limit
          /\ s.answer = <<>> /\ limit \in Nat
      BY <1>2
    <2>2. \E n \in Nat : IsText(bytes, n)
      BY TextsAre
    <2>3. Asked(s.unit, s.of)
      BY <2>1, <2>2, Zenon DEF Asked
    <2> QED BY <2>1, <2>3 DEF InputsInv
  <1>3. ASSUME NEW n \in 1 .. TextLength, NEW columns \in 1 .. 3, NEW text \in [1 .. n -> Inputs!Letters],
               s = [unit |-> "wrap", of |-> [text |-> text, columns |-> columns], answer |-> <<>>]
        PROVE  InputsInv
    <2>1. /\ DOMAIN s = {"unit", "of", "answer"} /\ s.unit = "wrap" /\ s.of.text = text /\ s.of.columns = columns
          /\ s.answer = <<>> /\ columns \in Nat \ {0}
      BY <1>3
    <2>2. n \in Nat
      BY InputsAssumption
    <2>3. IsLetters(text, n)
      BY <2>2, LettersAre
    <2>4. Asked(s.unit, s.of)
      BY <2>1, <2>2, <2>3 DEF Asked
    <2> QED BY <2>1, <2>4 DEF InputsInv
  <1>4. ASSUME NEW year \in DateYears, NEW month \in 0 .. 13, NEW day \in {0, 1, 28, 29, 30, 31, 32},
               s = [unit |-> "date", of |-> [year |-> year, month |-> month, day |-> day], answer |-> <<>>]
        PROVE  InputsInv
    <2>1. /\ DOMAIN s = {"unit", "of", "answer"} /\ s.unit = "date" /\ s.answer = <<>>
          /\ s.of = [year |-> year, month |-> month, day |-> day]
      BY <1>4
    <2>2. year \in Int /\ month \in Int /\ day \in Int
      BY InputsAssumption
    <2>3. Asked(s.unit, s.of)
      BY <2>1, <2>2 DEF Asked
    <2> QED BY <2>1, <2>3 DEF InputsInv
  <1> QED BY <1>1, <1>2, <1>3, <1>4, Zenon DEF Inputs!Init, Inputs!None

LEMMA InputsStep ==
  ASSUME InputsInv, [Inputs!Next]_s
  PROVE  InputsInv'
  <1>1. PICK answer : answer = Returned(s.unit, s.of)
    OBVIOUS
  <1>2. s' = s \/ s' = [s EXCEPT !.answer = <<answer>>]
    <2>1. CASE s.unit = "wav"
      <3>1. answer = Inputs!WavOpen(s.of)
        BY <1>1, <2>1, Zenon DEF Returned
      <3> QED BY <2>1, <3>1, Zenon DEF Inputs!Next
    <2>2. CASE s.unit = "utf8"
      <3>1. answer = [prefix |-> Inputs!Prefix(s.of.bytes, s.of.limit), plain |-> Inputs!PlainText(s.of.bytes)]
        BY <1>1, <2>2, Zenon DEF Returned
      <3> QED BY <2>2, <3>1, Zenon DEF Inputs!Next
    <2>3. CASE s.unit = "wrap"
      <3>1. answer = Inputs!Wrap(s.of.text, s.of.columns)
        BY <1>1, <2>3, Zenon DEF Returned
      <3> QED BY <2>3, <3>1, Zenon DEF Inputs!Next
    <2>4. CASE s.unit = "date"
      <3>1. answer = Inputs!Weekday(s.of)
        BY <1>1, <2>4, Zenon DEF Returned
      <3> QED BY <2>4, <3>1, Zenon DEF Inputs!Next
    <2> QED BY <2>1, <2>2, <2>3, <2>4 DEF InputsInv
  <1>3. CASE s' = s
    BY <1>3 DEF InputsInv
  <1>4. CASE s' = [s EXCEPT !.answer = <<answer>>]
    <2>1. DOMAIN s' = {"unit", "of", "answer"} /\ s'.unit = s.unit /\ s'.of = s.of /\ s'.answer = <<answer>>
      BY <1>4 DEF InputsInv
    <2> QED BY <1>1, <2>1 DEF InputsInv
  <1> QED BY <1>2, <1>3, <1>4

LEMMA InputsAnswered == InputsInv => Inputs!InputsRight
  <1> SUFFICES ASSUME InputsInv, s.answer # <<>> PROVE Inputs!InputsRight
    BY DEF Inputs!InputsRight, Inputs!None
  <1>1. s.answer[1] = Returned(s.unit, s.of) /\ Asked(s.unit, s.of) /\ s.unit \in {"wav", "utf8", "wrap", "date"}
    BY DEF InputsInv
  <1>2. CardChunks \in Nat /\ CardLimit \in Nat /\ WrapLines \in Nat \ {0}
    BY InputsAssumption
  <1>3. CASE s.unit = "wav"
    <2>1. s.of \in Inputs!Files /\ s.answer[1] = Inputs!WavOpen(s.of)
      BY <1>1, <1>3 DEF Asked, Returned
    <2>2. IsFile(s.of, Inputs!Offsets(s.of.chunks), Len(s.of.chunks))
      BY <1>2, <2>1, FilesAre
    <2>3. Inputs!WavRight
      BY <1>2, <2>1, <2>2, WavIsRight
    <2> QED BY <1>3, <2>3 DEF Inputs!InputsRight
  <1>4. CASE s.unit = "utf8"
    <2>1. PICK m \in Nat : IsText(s.of.bytes, m)
      BY <1>1, <1>4 DEF Asked
    <2>2. /\ s.of.limit \in Nat
          /\ s.answer[1] = [prefix |-> Inputs!Prefix(s.of.bytes, s.of.limit), plain |-> Inputs!PlainText(s.of.bytes)]
      BY <1>1, <1>4 DEF Asked, Returned
    <2>3. Inputs!PrefixRight
      BY <2>1, <2>2, PrefixIsRight
    <2> QED BY <1>4, <2>3 DEF Inputs!InputsRight
  <1>5. CASE s.unit = "wrap"
    <2>1. PICK n \in Nat : IsLetters(s.of.text, n)
      BY <1>1, <1>5 DEF Asked
    <2>2. s.of.columns \in Nat \ {0} /\ s.answer[1] = Inputs!Wrap(s.of.text, s.of.columns)
      BY <1>1, <1>5 DEF Asked, Returned
    <2>3. Inputs!WrapRight
      BY <1>2, <2>1, <2>2, WrapIsRight
    <2> QED BY <1>5, <2>3 DEF Inputs!InputsRight
  <1>6. CASE s.unit = "date"
    <2>1. PICK year \in Int, month \in Int, day \in Int : s.of = [year |-> year, month |-> month, day |-> day]
      BY <1>1, <1>6 DEF Asked
    <2>2. s.answer[1] = Inputs!Weekday(s.of)
      BY <1>1, <1>6 DEF Returned
    <2>3. Inputs!WeekdayRight
      BY <2>1, <2>2, WeekdayCorrect
    <2> QED BY <1>6, <2>3 DEF Inputs!InputsRight
  <1> QED BY <1>1, <1>3, <1>4, <1>5, <1>6

\* A sound that is played lies in its file, whole and no longer than it may be, and a plain one is
\* played; the text that is kept is the longest of whole characters that fits; wrapping loses no letter
\* and cuts no word that fits; a date has its weekday, for any limits, texts up to any length and any
\* years (wav_open, utf8_prefix, wrap_text, weekday).
THEOREM InputsCorrect == DeviceSpec => [](part = "inputs" => Inputs!InputsRight)
  <1> DEFINE Inv == part = "inputs" => InputsInv
  <1>1. DeviceInit => Inv
    BY AlgorithmsBegin, InputsBegin
  <1>2. Inv /\ [DeviceNext]_deviceVars => Inv'
    BY AlgorithmsAlone, InputsStep
  <1>3. Inv => (part = "inputs" => Inputs!InputsRight)
    BY InputsAnswered
  <1> QED BY <1>1, <1>2, <1>3, PTL DEF DeviceSpec

-----------------------------------------------------------------------------
(* Together *)

\* What the four parts compute is right, at any time of any of their behaviours.
THEOREM AlgorithmsCorrect == DeviceSpec => []AlgorithmsRight
  <1>1. /\ part = "tools" => Tools!ToolsCorrect
        /\ part = "terminal" => Terminal!TerminalRight
        /\ part = "records" => Records!RecordsRight
        /\ part = "inputs" => Inputs!InputsRight
        => AlgorithmsRight
    BY DEF AlgorithmsRight
  <1> QED BY <1>1, ToolsKeep, TerminalObeyed, RecordsKept, InputsCorrect, PTL
=============================================================================
