---------------------------- MODULE SettingsMenu ----------------------------
(***************************************************************************)
(* settings_menu.cpp: where the reader of the settings is, between tabs,   *)
(* rows, the grid of faces, the sound options and the diagnostics; and the *)
(* numbers that a tap on a row steps through.  The latter do not depend on *)
(* each other, but for the hours of the night, nor on the former: s.unit   *)
(* says whose state s is.                                                  *)
(***************************************************************************)
EXTENDS Integers

CONSTANTS
  Expressions,  \* EXPRESSION_COUNT
  Diagnostics   \* diagnostics_view::ROWS

VARIABLE s

(***************************************************************************)
(* The pages: [tab: look, light, faces, motion, audio, system; first:      *)
(* first_row, grid: grid_open, filter: filter_open, grid_first, options:   *)
(* sound_options, diagnostics, diagnostics_first], and sd: the board has a *)
(* card slot.  Three rows are shown, or five of the grid.                  *)
(***************************************************************************)
Columns == 3
GridMaxFirst == LET rows == (Expressions + Columns - 1) \div Columns IN IF rows > 5 THEN rows - 5 ELSE 0

\* row_count.
RowCount(m) ==
  CASE m.tab = 4 -> IF ~m.options /\ m.sd THEN 6 ELSE 5
    [] m.tab = 5 -> IF m.sd THEN 8 ELSE 7
    [] OTHER -> <<3, 7, 4, 5>>[m.tab + 1]

\* grid_close.
GridClosed(m) == [m EXCEPT !.grid = FALSE, !.filter = FALSE, !.grid_first = 0, !.first = 0]

\* settings_menu_tap, the header: the tab to one side or to the other.
Tab(m, step) == [m EXCEPT !.tab = (@ + step) % 6, !.options = FALSE, !.first = 0]

\* settings_menu_tap, the band below: Save leaves the pages alone; Back and Exit.
Back(m) == IF m.tab = 4 /\ m.options THEN [m EXCEPT !.options = FALSE, !.first = 0] ELSE GridClosed(m)

\* Mutant of Opens: the options begin at the row where the list was.
OpensThere(m, row, mood) ==
  LET focus == mood \div Columns
      audio == IF m.sd THEN 4 ELSE 3
  IN CASE m.tab = 0 /\ row = 2 ->
            [m EXCEPT !.grid = TRUE, !.filter = FALSE, !.grid_first = IF focus > GridMaxFirst THEN GridMaxFirst ELSE focus]
       [] m.tab = 2 /\ row = 3 -> [m EXCEPT !.grid = TRUE, !.filter = TRUE, !.grid_first = 0]
       [] m.tab = 4 /\ ~m.options /\ row = audio -> [m EXCEPT !.options = TRUE]
       [] m.tab = 5 /\ row = 6 -> [m EXCEPT !.diagnostics = TRUE, !.diagnostics_first = 0]
       [] OTHER -> m

\* change_row, the rows that open something: the grid near the mood, the library, the options;
\* settings_menu_tap, the diagnostics.
Opens(m, row, mood) ==
  LET focus == mood \div Columns
      audio == IF m.sd THEN 4 ELSE 3
  IN CASE m.tab = 0 /\ row = 2 ->
            [m EXCEPT !.grid = TRUE, !.filter = FALSE, !.grid_first = IF focus > GridMaxFirst THEN GridMaxFirst ELSE focus]
       [] m.tab = 2 /\ row = 3 -> [m EXCEPT !.grid = TRUE, !.filter = TRUE, !.grid_first = 0]
       [] m.tab = 4 /\ ~m.options /\ row = audio -> [m EXCEPT !.options = TRUE, !.first = 0]
       [] m.tab = 5 /\ row = 6 -> [m EXCEPT !.diagnostics = TRUE, !.diagnostics_first = 0]
       [] OTHER -> m

\* settings_menu_tap, on a row.
RowTap(m) == \E slot \in 0 .. 2, mood \in 0 .. Expressions - 1 :
               s' = IF m.first + slot < RowCount(m) THEN Opens(m, m.first + slot, mood) ELSE m

\* settings_menu_tap; the cells of the grid leave the pages alone too.
MenuTap ==
  CASE s.diagnostics -> s' = [s EXCEPT !.diagnostics = FALSE]
    [] ~s.diagnostics /\ s.grid -> s' = GridClosed(s)
    [] OTHER -> (\E step \in {1, 5} : s' = Tab(s, step)) \/ s' = Back(s) \/ RowTap(s)

Clamped(n, top) == IF n < 0 THEN 0 ELSE IF n > top THEN top ELSE n

\* settings_menu_scroll.
Scroll ==
  \E direction \in {-1, 1} :
    LET limit == IF RowCount(s) > 3 THEN RowCount(s) - 3 ELSE 0
    IN s' = CASE s.diagnostics -> [s EXCEPT !.diagnostics_first = Clamped(@ + direction, Diagnostics - 3)]
              [] ~s.diagnostics /\ s.grid -> [s EXCEPT !.grid_first = Clamped(@ + direction, GridMaxFirst)]
              [] OTHER -> [s EXCEPT !.first = Clamped(@ + direction, limit)]

Menu == s.unit = "menu" /\ (MenuTap \/ Scroll)

MenuInit ==
  {[unit |-> "menu", tab |-> 0, first |-> 0, grid |-> FALSE, filter |-> FALSE, grid_first |-> 0, options |-> FALSE,
    diagnostics |-> FALSE, diagnostics_first |-> 0, sd |-> sd] : sd \in BOOLEAN}

-----------------------------------------------------------------------------
(* The numbers: any valid one may have been set over USB or on the page. *)

\* next_brightness: the next preset above the value, or the first one.
NextOf(presets, value) ==
  LET above == {p \in presets : p > value}
      least(S) == CHOOSE p \in S : \A q \in S : p <= q
  IN IF above = {} THEN least(presets) ELSE least(above)

DayLevels == {5, 10, 20, 30, 50, 70, 90}
NightLevels == {1, 3, 5, 8, 12, 20}

\* change_row, the sound level.
NextLevel(level) == CASE level < 5 \/ level >= 30 -> 5 [] level >= 25 /\ level < 30 -> 30 [] OTHER -> level + 5

\* next_hour: the other end of the night is passed over.
NextHour(hour, other) == LET next == (hour + 1) % 24 IN IF next = other THEN (next + 1) % 24 ELSE next

\* change_row and change_light, the rows with a number.
Step(v) ==
  CASE v.unit = "brightness" -> {[v EXCEPT !.value = NextOf(DayLevels, @)]}
    [] v.unit = "night_brightness" -> {[v EXCEPT !.value = NextOf(NightLevels, @)]}
    [] v.unit = "sound_level" -> {[v EXCEPT !.value = NextLevel(@)]}
    [] v.unit = "night" -> {[v EXCEPT !.value = NextHour(@, v.end)], [v EXCEPT !.end = NextHour(@, v.value)]}

Number == s.unit # "menu" /\ s' \in Step(s)

\* settings_valid, of what is stepped through.
Valid(v) ==
  CASE v.unit = "brightness" -> v.value \in 5 .. 90
    [] v.unit = "night_brightness" -> v.value \in 1 .. 20
    [] v.unit = "sound_level" -> v.value \in 1 .. 30
    [] v.unit = "night" -> v.value \in 0 .. 23 /\ v.end \in 0 .. 23 /\ v.value # v.end

Numbers == [unit : {"brightness", "night_brightness", "sound_level", "night"}, value : 0 .. 90, end : 0 .. 23]

Init == s \in MenuInit \/ s \in {v \in Numbers : Valid(v) /\ (v.unit # "night" => v.end = 0)}
Next == Menu \/ Number

-----------------------------------------------------------------------------

(***************************************************************************)
(* Wherever it was left, the menu shows rows that exist, of one list.      *)
(***************************************************************************)
RowsExist ==
  /\ s.first + 3 <= RowCount(s)
  /\ s.grid => ~s.diagnostics /\ s.grid_first <= GridMaxFirst /\ s.tab = IF s.filter THEN 2 ELSE 0
  /\ s.filter => s.grid
  /\ s.options => s.tab = 4
  /\ s.diagnostics_first + 3 <= Diagnostics

(***************************************************************************)
(* change_row ignores the answer of settings_update: whatever was set      *)
(* elsewhere, a tap makes a profile that is not refused.                   *)
(***************************************************************************)
NumberAccepted == Valid(s)

MenuRight == IF s.unit = "menu" THEN RowsExist ELSE NumberAccepted
=============================================================================
