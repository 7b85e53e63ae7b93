---------------------------- MODULE DeviceProofs ----------------------------
(***************************************************************************)
(* The parts of the device that MCDevice checks in one run, each for any   *)
(* value of its constants.  A theorem about a part is of the behaviours    *)
(* that part names; the others leave its state alone.                      *)
(***************************************************************************)
EXTENDS MCDevice, CompanionProofs, Sequences, FiniteSetTheorems, WellFoundedInduction, TLAPS

-----------------------------------------------------------------------------
(* The parts take steps of their own: the name of the part selects the disjunct of PartNext. *)

LEMMA PartsAlone ==
  ASSUME [DeviceNext]_deviceVars
  PROVE  /\ part' = part
         /\ part = "menu" => [Menu!Next]_s
         /\ part = "sound" => [Sound!Next]_s
         /\ part = "page" => [Page!Next]_s
         /\ part = "touch" => [Touch!Next]_s
         /\ part = "buttons" => [Buttons!Next]_s
         /\ part = "supply" => [Supply!Next]_s
         /\ part = "backlight" => [Backlight!Next]_s
         /\ part = "orientation" => [Orientation!Next]_s
         /\ part = "motion" => [Motion!Next]_s
         /\ part = "faces" => [Faces!Next]_s
         /\ part = "policy" => [Policy!Next]_s
         /\ [Settings!Next]_settingsVars
  BY DEF DeviceNext, PartNext, deviceVars

LEMMA PartsBegin ==
  ASSUME DeviceInit
  PROVE  /\ part = "menu" => Menu!Init
         /\ part = "sound" => Sound!Init
         /\ part = "page" => Page!Init
         /\ part = "touch" => Touch!Init
         /\ part = "buttons" => Buttons!Init
         /\ part = "supply" => Supply!Init
         /\ part = "backlight" => Backlight!Init
         /\ part = "orientation" => Orientation!Init
         /\ part = "motion" => Motion!Init
         /\ part = "faces" => Faces!Init
         /\ part = "policy" => Policy!Init
         /\ Settings!Init
  BY DEF DeviceInit, PartInit

-----------------------------------------------------------------------------
(* SettingsMenu *)

MenuStates ==
  [unit : {"menu"}, tab : 0 .. 5, first : Nat, grid : BOOLEAN, filter : BOOLEAN, grid_first : Nat,
   options : BOOLEAN, diagnostics : BOOLEAN, diagnostics_first : Nat, sd : BOOLEAN]

MenuTypes == s \in MenuStates

MenuInv == IF s.unit = "menu" THEN MenuTypes /\ Menu!RowsExist ELSE s \in Menu!Numbers /\ Menu!Valid(s)

LEMMA GridRows == Menu!GridMaxFirst \in Nat
  BY MenuAssumption DEF Menu!GridMaxFirst, Menu!Columns

\* Every list has three rows to show.
LEMMA RowCounts ==
  ASSUME NEW m, m.tab \in 0 .. 5
  PROVE  Menu!RowCount(m) \in 3 .. 8
  BY DEF Menu!RowCount

LEMMA MenuBegins == Menu!Init => MenuInv
  <1> SUFFICES ASSUME Menu!Init PROVE MenuInv
    OBVIOUS
  <1>1. CASE s \in Menu!MenuInit
    <2>1. PICK sd \in BOOLEAN :
            s = [unit |-> "menu", tab |-> 0, first |-> 0, grid |-> FALSE, filter |-> FALSE, grid_first |-> 0,
                 options |-> FALSE, diagnostics |-> FALSE, diagnostics_first |-> 0, sd |-> sd]
      BY <1>1 DEF Menu!MenuInit
    <2>2. MenuTypes
      BY <2>1 DEF MenuTypes, MenuStates
    <2>3. Menu!RowCount(s) \in 3 .. 8
      BY <2>1, RowCounts
    <2> QED BY <2>1, <2>2, <2>3, MenuAssumption, GridRows DEF MenuInv, Menu!RowsExist
  <1>2. CASE s \in {v \in Menu!Numbers : Menu!Valid(v) /\ (v.unit # "night" => v.end = 0)}
    BY <1>2 DEF Menu!Numbers, MenuInv
  <1> QED BY <1>1, <1>2 DEF Menu!Init

LEMMA TabRight ==
  ASSUME MenuTypes, Menu!RowsExist, ~s.diagnostics, ~s.grid, NEW step \in {1, 5}, s' = Menu!Tab(s, step)
  PROVE  MenuTypes' /\ Menu!RowsExist'
  <1>0. (s.tab + step) % 6 \in 0 .. 5
    BY DEF MenuTypes, MenuStates
  <1>1. MenuTypes'
    BY <1>0 DEF MenuTypes, MenuStates, Menu!Tab
  <1>2. s'.first = 0 /\ s'.options = FALSE /\ s'.grid = s.grid /\ s'.filter = s.filter
        /\ s'.diagnostics_first = s.diagnostics_first
    BY DEF MenuTypes, MenuStates, Menu!Tab
  <1>3. Menu!RowCount(s') \in 3 .. 8
    BY <1>1, RowCounts DEF MenuTypes, MenuStates
  <1> QED BY <1>1, <1>2, <1>3 DEF Menu!RowsExist

LEMMA BackRight ==
  ASSUME MenuTypes, Menu!RowsExist, ~s.diagnostics, s' = Menu!Back(s) \/ s' = Menu!GridClosed(s)
  PROVE  MenuTypes' /\ Menu!RowsExist'
  <1>0. s' = [s EXCEPT !.options = FALSE, !.first = 0] \/ s' = Menu!GridClosed(s)
    BY DEF Menu!Back
  <1>1. /\ MenuTypes'
        /\ s'.first = 0 /\ s'.tab = s.tab /\ s'.diagnostics = s.diagnostics
        /\ s'.diagnostics_first = s.diagnostics_first
        /\ s'.grid => s.grid /\ s'.filter = s.filter /\ s'.grid_first = s.grid_first
        /\ s'.filter => s.filter /\ s'.grid = s.grid
        /\ s'.options => s.options
    <2>1. CASE s' = [s EXCEPT !.options = FALSE, !.first = 0]
      BY <2>1 DEF MenuTypes, MenuStates
    <2>2. CASE s' = Menu!GridClosed(s)
      BY <2>2 DEF MenuTypes, MenuStates, Menu!GridClosed
    <2> QED BY <1>0, <2>1, <2>2
  <1>2. Menu!RowCount(s') \in 3 .. 8
    BY <1>1, RowCounts DEF MenuTypes, MenuStates
  <1> QED BY <1>1, <1>2 DEF Menu!RowsExist

\* The rows that open something.
LEMMA GridOpened ==
  ASSUME MenuTypes, NEW filter \in BOOLEAN, NEW near \in Nat,
         s' = [s EXCEPT !.grid = TRUE, !.filter = filter, !.grid_first = near]
  PROVE  /\ MenuTypes' /\ s'.tab = s.tab /\ s'.first = s.first /\ s'.sd = s.sd /\ s'.options = s.options
         /\ s'.grid /\ s'.filter = filter /\ s'.grid_first = near
         /\ s'.diagnostics = s.diagnostics /\ s'.diagnostics_first = s.diagnostics_first
  BY DEF MenuTypes, MenuStates

LEMMA OptionsOpened ==
  ASSUME MenuTypes, s' = [s EXCEPT !.options = TRUE, !.first = 0]
  PROVE  /\ MenuTypes' /\ s'.tab = s.tab /\ s'.first = 0 /\ s'.grid = s.grid /\ s'.filter = s.filter
         /\ s'.diagnostics_first = s.diagnostics_first
  BY DEF MenuTypes, MenuStates

LEMMA DiagnosticsOpened ==
  ASSUME MenuTypes, s' = [s EXCEPT !.diagnostics = TRUE, !.diagnostics_first = 0]
  PROVE  /\ MenuTypes' /\ s'.tab = s.tab /\ s'.first = s.first /\ s'.sd = s.sd /\ s'.options = s.options
         /\ s'.grid = s.grid /\ s'.filter = s.filter /\ s'.diagnostics_first = 0
  BY DEF MenuTypes, MenuStates

LEMMA OpensRight ==
  ASSUME MenuTypes, Menu!RowsExist, ~s.diagnostics, ~s.grid, NEW row \in Nat, NEW mood \in 0 .. Expressions - 1,
         s' = Menu!Opens(s, row, mood)
  PROVE  MenuTypes' /\ Menu!RowsExist'
  <1>1. PICK near \in 0 .. Menu!GridMaxFirst :
          near = IF mood \div Menu!Columns > Menu!GridMaxFirst THEN Menu!GridMaxFirst ELSE mood \div Menu!Columns
    <2>1. mood \div Menu!Columns \in Nat
      BY MenuAssumption DEF Menu!Columns
    <2> QED BY <2>1, GridRows
  <1>2. \/ s.tab = 0 /\ s' = [s EXCEPT !.grid = TRUE, !.filter = FALSE, !.grid_first = near]
        \/ s.tab = 2 /\ s' = [s EXCEPT !.grid = TRUE, !.filter = TRUE, !.grid_first = 0]
        \/ s.tab = 4 /\ s' = [s EXCEPT !.options = TRUE, !.first = 0]
        \/ s' = [s EXCEPT !.diagnostics = TRUE, !.diagnostics_first = 0]
        \/ s' = s
    BY <1>1 DEF Menu!Opens
  <1>3. near \in Nat /\ s \in MenuStates /\ Menu!GridMaxFirst \in Nat
    BY <1>1, GridRows DEF MenuTypes
  <1>4. CASE s.tab = 0 /\ s' = [s EXCEPT !.grid = TRUE, !.filter = FALSE, !.grid_first = near]
    <2>1. /\ MenuTypes' /\ s'.tab = 0 /\ s'.first = s.first /\ s'.sd = s.sd /\ s'.options = s.options
          /\ s'.grid /\ ~s'.filter /\ s'.grid_first = near
          /\ s'.diagnostics = s.diagnostics /\ s'.diagnostics_first = s.diagnostics_first
      BY <1>3, <1>4, GridOpened
    <2>2. Menu!RowCount(s') = Menu!RowCount(s)
      BY <1>4, <2>1 DEF Menu!RowCount
    <2> QED BY <1>1, <1>3, <1>4, <2>1, <2>2 DEF Menu!RowsExist
  <1>5. CASE s.tab = 2 /\ s' = [s EXCEPT !.grid = TRUE, !.filter = TRUE, !.grid_first = 0]
    <2>1. /\ MenuTypes' /\ s'.tab = 2 /\ s'.first = s.first /\ s'.sd = s.sd /\ s'.options = s.options
          /\ s'.grid /\ s'.filter /\ s'.grid_first = 0
          /\ s'.diagnostics = s.diagnostics /\ s'.diagnostics_first = s.diagnostics_first
      BY <1>3, <1>5, GridOpened
    <2>2. Menu!RowCount(s') = Menu!RowCount(s)
      BY <1>5, <2>1 DEF Menu!RowCount
    <2> QED BY <1>3, <1>5, <2>1, <2>2 DEF Menu!RowsExist
  <1>6. CASE s.tab = 4 /\ s' = [s EXCEPT !.options = TRUE, !.first = 0]
    <2>1. /\ MenuTypes' /\ s'.tab = 4 /\ s'.first = 0 /\ s'.grid = s.grid /\ s'.filter = s.filter
          /\ s'.diagnostics_first = s.diagnostics_first
      BY <1>3, <1>6, OptionsOpened
    <2>2. Menu!RowCount(s') \in 3 .. 8
      BY <2>1, RowCounts
    <2> QED BY <1>6, <2>1, <2>2 DEF Menu!RowsExist
  <1>7. CASE s' = [s EXCEPT !.diagnostics = TRUE, !.diagnostics_first = 0]
    <2>1. /\ MenuTypes' /\ s'.tab = s.tab /\ s'.first = s.first /\ s'.sd = s.sd /\ s'.options = s.options
          /\ s'.grid = s.grid /\ s'.filter = s.filter /\ s'.diagnostics_first = 0
      BY <1>3, <1>7, DiagnosticsOpened
    <2>2. Menu!RowCount(s') = Menu!RowCount(s)
      BY <2>1 DEF Menu!RowCount
    <2> QED BY <1>7, <2>1, <2>2, MenuAssumption DEF Menu!RowsExist
  <1>8. CASE s' = s
    BY <1>8 DEF MenuTypes, Menu!RowsExist, Menu!RowCount
  <1> QED BY <1>2, <1>4, <1>5, <1>6, <1>7, <1>8

LEMMA ScrollRight ==
  ASSUME MenuTypes, Menu!RowsExist, Menu!Scroll
  PROVE  MenuTypes' /\ Menu!RowsExist'
  <1>1. \A n \in Int : \A top \in Nat : Menu!Clamped(n, top) \in 0 .. top
    BY DEF Menu!Clamped
  <1>2. Menu!RowCount(s) \in 3 .. 8
    BY RowCounts DEF MenuTypes, MenuStates
  <1>3. PICK n \in Nat :
          \/ s.diagnostics /\ s' = [s EXCEPT !.diagnostics_first = n] /\ n \in 0 .. Diagnostics - 3
          \/ ~s.diagnostics /\ s.grid /\ s' = [s EXCEPT !.grid_first = n] /\ n \in 0 .. Menu!GridMaxFirst
          \/ ~s.diagnostics /\ ~s.grid /\ s' = [s EXCEPT !.first = n] /\ n + 3 <= Menu!RowCount(s)
    <2>1. PICK direction \in {-1, 1} :
            LET limit == IF Menu!RowCount(s) > 3 THEN Menu!RowCount(s) - 3 ELSE 0
            IN s' = CASE s.diagnostics -> [s EXCEPT !.diagnostics_first = Menu!Clamped(@ + direction, Diagnostics - 3)]
                      [] ~s.diagnostics /\ s.grid -> [s EXCEPT !.grid_first = Menu!Clamped(@ + direction, Menu!GridMaxFirst)]
                      [] OTHER -> [s EXCEPT !.first = Menu!Clamped(@ + direction, limit)]
      BY DEF Menu!Scroll
    <2>2. /\ s.diagnostics_first + direction \in Int /\ s.grid_first + direction \in Int /\ s.first + direction \in Int
          /\ Diagnostics - 3 \in Nat
      BY MenuAssumption DEF MenuTypes, MenuStates
    <2>3. CASE s.diagnostics
      BY <1>1, <2>1, <2>2, <2>3
    <2>4. CASE ~s.diagnostics /\ s.grid
      BY <1>1, <2>1, <2>2, <2>4, GridRows
    <2>5. CASE ~s.diagnostics /\ ~s.grid
      <3> DEFINE limit == IF Menu!RowCount(s) > 3 THEN Menu!RowCount(s) - 3 ELSE 0
      <3>1. limit \in Nat /\ limit + 3 <= Menu!RowCount(s)
        BY <1>2
      <3>2. s' = [s EXCEPT !.first = Menu!Clamped(@ + direction, limit)]
        BY <2>1, <2>5
      <3> HIDE DEF limit
      <3> QED BY <1>1, <1>2, <2>2, <2>5, <3>1, <3>2
    <2> QED BY <2>3, <2>4, <2>5 DEF MenuTypes, MenuStates
  <1>4. CASE s' = [s EXCEPT !.diagnostics_first = n] /\ n \in 0 .. Diagnostics - 3
    BY <1>4, MenuAssumption DEF MenuTypes, MenuStates, Menu!RowsExist, Menu!RowCount
  <1>5. CASE s' = [s EXCEPT !.grid_first = n] /\ n \in 0 .. Menu!GridMaxFirst
    BY <1>5, GridRows DEF MenuTypes, MenuStates, Menu!RowsExist, Menu!RowCount
  <1>6. CASE s' = [s EXCEPT !.first = n] /\ n + 3 <= Menu!RowCount(s)
    BY <1>6 DEF MenuTypes, MenuStates, Menu!RowsExist, Menu!RowCount
  <1> QED BY <1>3, <1>4, <1>5, <1>6

LEMMA TapRight ==
  ASSUME MenuTypes, Menu!RowsExist, Menu!MenuTap
  PROVE  MenuTypes' /\ Menu!RowsExist'
  <1>1. CASE s.diagnostics
    <2>1. s' = [s EXCEPT !.diagnostics = FALSE]
      BY <1>1 DEF Menu!MenuTap
    <2> QED BY <1>1, <2>1 DEF MenuTypes, MenuStates, Menu!RowsExist, Menu!RowCount
  <1>2. CASE ~s.diagnostics /\ s.grid
    BY <1>2, BackRight DEF Menu!MenuTap
  <1>3. CASE ~s.diagnostics /\ ~s.grid
    <2>1. (\E step \in {1, 5} : s' = Menu!Tab(s, step)) \/ s' = Menu!Back(s) \/ Menu!RowTap(s)
      BY <1>3 DEF Menu!MenuTap
    <2>2. CASE Menu!RowTap(s)
      <3>1. PICK slot \in 0 .. 2, mood \in 0 .. Expressions - 1 :
              s' = IF s.first + slot < Menu!RowCount(s) THEN Menu!Opens(s, s.first + slot, mood) ELSE s
        BY <2>2 DEF Menu!RowTap
      <3>2. s.first + slot \in Nat
        BY DEF MenuTypes, MenuStates
      <3>3. CASE s' = s
        BY <3>3 DEF MenuTypes, Menu!RowsExist, Menu!RowCount
      <3> QED BY <1>3, <3>1, <3>2, <3>3, OpensRight
    <2> QED BY <1>3, <2>1, <2>2, TabRight, BackRight
  <1> QED BY <1>1, <1>2, <1>3 DEF MenuTypes, MenuStates

\* next_brightness steps among the presets.
LEMMA PresetsKept ==
  ASSUME NEW presets \in SUBSET Int, NEW value \in Int,
         \A S \in SUBSET presets : S # {} => \E p \in S : \A q \in S : p <= q,
         presets # {}
  PROVE  Menu!NextOf(presets, value) \in presets
  <1> DEFINE above == {p \in presets : p > value}
  <1>1. CASE above = {}
    BY <1>1 DEF Menu!NextOf
  <1>2. CASE above # {}
    BY <1>2 DEF Menu!NextOf
  <1> QED BY <1>1, <1>2

LEMMA DayPresets ==
  /\ Menu!DayLevels \subseteq 5 .. 90 /\ Menu!DayLevels # {}
  /\ \A S \in SUBSET Menu!DayLevels : S # {} => \E p \in S : \A q \in S : p <= q
  <1> SUFFICES ASSUME NEW S \in SUBSET Menu!DayLevels, S # {}
               PROVE  \E p \in S : \A q \in S : p <= q
    BY DEF Menu!DayLevels
  <1> USE DEF Menu!DayLevels
  <1>1. CASE 5 \in S
    BY <1>1
  <1>2. CASE 5 \notin S /\ 10 \in S
    BY <1>2
  <1>3. CASE 5 \notin S /\ 10 \notin S /\ 20 \in S
    BY <1>3
  <1>4. CASE 5 \notin S /\ 10 \notin S /\ 20 \notin S /\ 30 \in S
    BY <1>4
  <1>5. CASE 5 \notin S /\ 10 \notin S /\ 20 \notin S /\ 30 \notin S /\ 50 \in S
    BY <1>5
  <1>6. CASE {5, 10, 20, 30, 50} \cap S = {} /\ 70 \in S
    BY <1>6
  <1>7. CASE {5, 10, 20, 30, 50, 70} \cap S = {}
    <2>1. 90 \in S /\ \A q \in S : q = 90
      BY <1>7
    <2> QED BY <2>1
  <1> QED BY <1>1, <1>2, <1>3, <1>4, <1>5, <1>6, <1>7

LEMMA NightPresets ==
  /\ Menu!NightLevels \subseteq 1 .. 20 /\ Menu!NightLevels # {}
  /\ \A S \in SUBSET Menu!NightLevels : S # {} => \E p \in S : \A q \in S : p <= q
  <1> SUFFICES ASSUME NEW S \in SUBSET Menu!NightLevels, S # {}
               PROVE  \E p \in S : \A q \in S : p <= q
    BY DEF Menu!NightLevels
  <1> USE DEF Menu!NightLevels
  <1>1. CASE 1 \in S
    BY <1>1
  <1>2. CASE 1 \notin S /\ 3 \in S
    BY <1>2
  <1>3. CASE 1 \notin S /\ 3 \notin S /\ 5 \in S
    BY <1>3
  <1>4. CASE 1 \notin S /\ 3 \notin S /\ 5 \notin S /\ 8 \in S
    BY <1>4
  <1>5. CASE {1, 3, 5, 8} \cap S = {} /\ 12 \in S
    BY <1>5
  <1>6. CASE {1, 3, 5, 8, 12} \cap S = {}
    <2>1. 20 \in S /\ \A q \in S : q = 20
      BY <1>6
    <2> QED BY <2>1
  <1> QED BY <1>1, <1>2, <1>3, <1>4, <1>5, <1>6

LEMMA NumberSet ==
  ASSUME s \in Menu!Numbers, NEW n \in 0 .. 90, s' = [s EXCEPT !.value = n]
  PROVE  s' \in Menu!Numbers /\ s'.value = n /\ s'.end = s.end /\ s'.unit = s.unit
  BY DEF Menu!Numbers

LEMMA EndSet ==
  ASSUME s \in Menu!Numbers, NEW n \in 0 .. 23, s' = [s EXCEPT !.end = n]
  PROVE  s' \in Menu!Numbers /\ s'.value = s.value /\ s'.end = n /\ s'.unit = s.unit
  BY DEF Menu!Numbers

\* A number that is accepted is followed by one that is accepted.
LEMMA StepRight ==
  ASSUME s \in Menu!Numbers, Menu!Valid(s), Menu!Number
  PROVE  s' \in Menu!Numbers /\ Menu!Valid(s')
  <1>1. s.value \in 0 .. 90 /\ s.end \in 0 .. 23 /\ s.unit \in {"brightness", "night_brightness", "sound_level", "night"}
    BY DEF Menu!Numbers
  <1>2. s' \in Menu!Step(s)
    BY DEF Menu!Number
  <1>4. CASE s.unit = "brightness"
    <2>1. Menu!DayLevels \in SUBSET Int /\ s.value \in Int
      BY <1>1, DayPresets
    <2>2. Menu!NextOf(Menu!DayLevels, s.value) \in Menu!DayLevels
      BY <2>1, DayPresets, PresetsKept, Zenon
    <2>3. PICK n \in 5 .. 90 : n \in 0 .. 90 /\ s' = [s EXCEPT !.value = n]
      BY <1>2, <1>4, <2>2, DayPresets DEF Menu!Step
    <2>4. s' \in Menu!Numbers /\ s'.value = n /\ s'.unit = "brightness"
      BY <1>4, <2>3, NumberSet
    <2> QED BY <2>4 DEF Menu!Valid
  <1>5. CASE s.unit = "night_brightness"
    <2>1. Menu!NightLevels \in SUBSET Int /\ s.value \in Int
      BY <1>1, NightPresets
    <2>2. Menu!NextOf(Menu!NightLevels, s.value) \in Menu!NightLevels
      BY <2>1, NightPresets, PresetsKept, Zenon
    <2>3. PICK n \in 1 .. 20 : n \in 0 .. 90 /\ s' = [s EXCEPT !.value = n]
      BY <1>2, <1>5, <2>2, NightPresets DEF Menu!Step
    <2>4. s' \in Menu!Numbers /\ s'.value = n /\ s'.unit = "night_brightness"
      BY <1>5, <2>3, NumberSet
    <2> QED BY <2>4 DEF Menu!Valid
  <1>6. CASE s.unit = "sound_level"
    <2>1. s.value \in 1 .. 30
      BY <1>6 DEF Menu!Valid
    <2>2. Menu!NextLevel(s.value) \in 1 .. 30
      BY <2>1 DEF Menu!NextLevel
    <2>3. PICK n \in 1 .. 30 : n \in 0 .. 90 /\ s' = [s EXCEPT !.value = n]
      BY <1>2, <1>6, <2>2 DEF Menu!Step
    <2>4. s' \in Menu!Numbers /\ s'.value = n /\ s'.unit = "sound_level"
      BY <1>6, <2>3, NumberSet
    <2> QED BY <2>4 DEF Menu!Valid
  <1>7. CASE s.unit = "night"
    <2>1. ASSUME NEW hour \in 0 .. 23, NEW other \in 0 .. 23
          PROVE  Menu!NextHour(hour, other) \in 0 .. 23 /\ Menu!NextHour(hour, other) # other
      BY DEF Menu!NextHour
    <2>2. s.value \in 0 .. 23
      BY <1>7 DEF Menu!Valid
    <2>3. \/ \E n \in 0 .. 23 : n # s.end /\ s' = [s EXCEPT !.value = n]
          \/ \E n \in 0 .. 23 : n # s.value /\ s' = [s EXCEPT !.end = n]
      BY <1>1, <1>2, <1>7, <2>1, <2>2 DEF Menu!Step
    <2>4. ASSUME NEW n \in 0 .. 23, n # s.end, s' = [s EXCEPT !.value = n] PROVE s' \in Menu!Numbers /\ Menu!Valid(s')
      <3>1. n \in 0 .. 90
        OBVIOUS
      <3>2. s' \in Menu!Numbers /\ s'.value = n /\ s'.end = s.end /\ s'.unit = "night"
        BY <1>7, <2>4, <3>1, NumberSet
      <3> QED BY <1>1, <2>4, <3>2 DEF Menu!Valid
    <2>5. ASSUME NEW n \in 0 .. 23, n # s.value, s' = [s EXCEPT !.end = n] PROVE s' \in Menu!Numbers /\ Menu!Valid(s')
      <3>1. s' \in Menu!Numbers /\ s'.value = s.value /\ s'.end = n /\ s'.unit = "night"
        BY <1>7, <2>5, EndSet
      <3> QED BY <2>2, <2>5, <3>1 DEF Menu!Valid
    <2> QED BY <2>3, <2>4, <2>5
  <1> QED BY <1>1, <1>4, <1>5, <1>6, <1>7

\* A row that is drawn exists, and a number that a tap reaches is one that settings_update accepts:
\* settings/settings_menu.cpp.
THEOREM MenuCorrect == DeviceSpec => []MenuRight
  <1> DEFINE Inv == part = "menu" => MenuInv
  <1>1. DeviceInit => Inv
    BY PartsBegin, MenuBegins
  <1>2. Inv /\ [DeviceNext]_deviceVars => Inv'
    <2> SUFFICES ASSUME part = "menu", MenuInv, [Menu!Next]_s PROVE MenuInv'
      BY PartsAlone
    <2>1. CASE s.unit = "menu" /\ Menu!Next
      <3>1. MenuTypes /\ Menu!RowsExist /\ (Menu!MenuTap \/ Menu!Scroll)
        BY <2>1 DEF MenuInv, Menu!Next, Menu!Menu, Menu!Number
      <3>2. MenuTypes' /\ Menu!RowsExist'
        BY <3>1, TapRight, ScrollRight
      <3> QED BY <3>2 DEF MenuInv, MenuTypes, MenuStates
    <2>2. CASE s.unit # "menu" /\ Menu!Next
      <3>1. s' \in Menu!Numbers /\ Menu!Valid(s')
        BY <2>2, StepRight DEF MenuInv, Menu!Next, Menu!Menu
      <3> QED BY <3>1 DEF MenuInv, Menu!Numbers
    <2>3. CASE s' = s
      BY <2>3 DEF MenuInv, MenuTypes, Menu!RowsExist, Menu!RowCount
    <2> QED BY <2>1, <2>2, <2>3
  <1>3. Inv => MenuRight
    BY DEF MenuInv, MenuRight, Menu!MenuRight, Menu!NumberAccepted
  <1> QED BY <1>1, <1>2, <1>3, PTL DEF DeviceSpec

-----------------------------------------------------------------------------
(* Sound *)

Switches == {"charging", "ambient", "faces", "alerts", "timer"}

SoundStates ==
  [queued : SoundCues \cup {"None"}, active : SoundCues \cup {"None"}, late : BOOLEAN, failed : BOOLEAN,
   attached : BOOLEAN, clip : BOOLEAN, off : SUBSET Switches, muted : BOOLEAN, calling : BOOLEAN,
   idle : BOOLEAN, polled : BOOLEAN]

\* What waits was not asked for over something above it.
Waits(x) == x.queued # "None" /\ x.active # "None" => ~Sound!Below(x.queued, x.active)

SoundInv ==
  /\ s \in SoundStates
  /\ Waits(s)
  /\ s.polled /\ s.active # "None" => Sound!Fits(s, s.active)

\* Only what is played and what waits differ.
SameMoment(x, y) == y.off = x.off /\ y.muted = x.muted /\ y.calling = x.calling /\ y.idle = x.idle

LEMMA PriorityIsNumber ==
  ASSUME NEW cue \in SoundCues
  PROVE  Sound!Priority(cue) \in Int
  <1>1. DOMAIN Sound!Order = 1 .. 9
    BY DEF Sound!Order
  <1>2. CASE cue \in {"Charging", "Unplugged", "Mood", "Startup"}
    BY <1>2 DEF Sound!Priority
  <1>3. CASE cue \notin {"Charging", "Unplugged", "Mood", "Startup"}
    <2>1. \E i \in 1 .. 9 : Sound!Order[i] = cue
      BY <1>3 DEF SoundCues, Sound!Order
    <2>2. (CHOOSE i \in DOMAIN Sound!Order : Sound!Order[i] = cue) \in 1 .. 9
      BY <1>1, <2>1
    <2>3. PICK n \in 1 .. 9 : n = CHOOSE i \in DOMAIN Sound!Order : Sound!Order[i] = cue
      BY <2>2
    <2>4. Sound!Priority(cue) = n - 1
      BY <1>3, <2>3 DEF Sound!Priority
    <2> QED BY <2>4
  <1> QED BY <1>2, <1>3

\* A cue that is asked for waits, or nothing changes.
LEMMA RequestFacts ==
  ASSUME NEW x \in SoundStates, NEW cue \in SoundCues \cup {"None"}, NEW y, y = Sound!Request(x, cue)
  PROVE  /\ y \in SoundStates /\ SameMoment(x, y) /\ y.polled = x.polled
         /\ y.active = x.active /\ y.clip = x.clip /\ y.failed = x.failed
         /\ \/ y.queued = x.queued
            \/ y.queued = cue /\ cue # "None" /\ ~x.failed /\ Sound!Allowed(x, cue) /\ ~Sound!Below(cue, x.active)
  BY DEF Sound!Request, SoundStates, SameMoment, Sound!None

LEMMA RequestWaits ==
  ASSUME NEW x \in SoundStates, Waits(x), NEW cue \in SoundCues \cup {"None"}, NEW y, y = Sound!Request(x, cue)
  PROVE  Waits(y)
  BY RequestFacts DEF Waits

\* What a request leaves of the state; of the cue that waits, see RequestFacts.
Kept(x, y) ==
  /\ y \in SoundStates /\ SameMoment(x, y)
  /\ y.active = x.active /\ y.clip = x.clip /\ y.failed = x.failed
  /\ Waits(x) => Waits(y)
  /\ x.failed => y.queued = x.queued

LEMMA KeptTwice ==
  ASSUME NEW x, NEW y, NEW z, Kept(x, y), Kept(y, z)
  PROVE  Kept(x, z)
  BY DEF Kept, SameMoment

LEMMA RequestKeeps ==
  ASSUME NEW x \in SoundStates, NEW cue \in SoundCues \cup {"None"}
  PROVE  Kept(x, Sound!Request(x, cue))
  <1>1. PICK y : y = Sound!Request(x, cue)
    OBVIOUS
  <1>2. Waits(x) => Waits(y)
    BY <1>1, RequestWaits
  <1> QED BY <1>1, <1>2, RequestFacts DEF Kept

LEMMA SignalsKeeps ==
  ASSUME NEW x \in SoundStates, NEW alert \in BOOLEAN, NEW ring \in BOOLEAN, NEW change \in {"None", "Rest", "Done"}
  PROVE  Kept(x, Sound!Signals(x, alert, ring, change))
  <1>1. PICK a \in SoundCues \cup {"None"} : a = IF alert THEN "Notification" ELSE Sound!None
    BY DEF SoundCues, Sound!None
  <1>2. PICK b \in SoundCues \cup {"None"} : b = IF ring /\ x.calling THEN "Call" ELSE Sound!None
    BY DEF SoundCues, Sound!None
  <1>3. change \in SoundCues \cup {"None"}
    BY DEF SoundCues
  <1>4. PICK v : v = Sound!Request(x, a)
    OBVIOUS
  <1>5. Kept(x, v)
    BY <1>4, RequestKeeps
  <1>6. PICK w : w = Sound!Request(v, b)
    OBVIOUS
  <1>7. Kept(v, w)
    BY <1>5, <1>6, RequestKeeps DEF Kept
  <1>8. PICK y : y = Sound!Request(w, change)
    OBVIOUS
  <1>9. Kept(w, y)
    BY <1>3, <1>7, <1>8, RequestKeeps DEF Kept
  <1>10. y = Sound!Signals(x, alert, ring, change)
    BY <1>1, <1>2, <1>4, <1>6, <1>8 DEF Sound!Signals
  <1> QED BY <1>5, <1>7, <1>9, <1>10, KeptTwice

\* What is kept fits, and what ends does not.
LEMMA FilteredFacts ==
  ASSUME NEW x \in SoundStates, NEW y, y = Sound!Filtered(x)
  PROVE  /\ y \in SoundStates /\ SameMoment(x, y) /\ y.clip = x.clip /\ y.failed = x.failed
         /\ y.active = x.active \/ (y.active = "None" /\ ~Sound!Fits(x, x.active))
         /\ y.active # "None" => Sound!Fits(x, y.active)
         /\ y.queued = x.queued \/ y.queued = "None"
         /\ y.queued # "None" => Sound!Fits(x, y.queued)
  BY DEF Sound!Filtered, SoundStates, SameMoment, Sound!None, Sound!Fits, Sound!Allowed

LEMMA FitsTheMoment ==
  ASSUME NEW x, NEW y, SameMoment(x, y), NEW cue
  PROVE  Sound!Fits(y, cue) <=> Sound!Fits(x, cue)
  BY DEF SameMoment, Sound!Fits, Sound!Quiet

\* The output has failed: nothing waits, and nothing is accepted.
LEMMA FailsFacts ==
  ASSUME NEW x \in SoundStates, NEW y, y = Sound!Fails(x)
  PROVE  /\ y \in SoundStates /\ SameMoment(x, y) /\ y.clip = x.clip
         /\ y.active = "None" /\ y.queued = "None" /\ y.failed
  BY DEF Sound!Fails, Sound!Stop, SoundStates, SameMoment, Sound!None

LEMMA PromotedFacts ==
  ASSUME NEW x \in SoundStates, NEW y, y = Sound!Promoted(x)
  PROVE  /\ y \in SoundStates /\ SameMoment(x, y) /\ y.queued = "None"
         /\ y.active = x.active \/ (y.active = x.queued /\ x.queued # "None")
  BY DEF Sound!Promoted, SoundStates, SameMoment, Sound!None

LEMMA PlaysFacts ==
  ASSUME NEW x \in SoundStates, x.queued = "None", NEW begins \in BOOLEAN, NEW y \in Sound!Plays(x, begins)
  PROVE  /\ y \in SoundStates /\ SameMoment(x, y) /\ y.queued = "None"
         /\ y.active \in {"None", x.active}
  <1>1. CASE y = x
    BY <1>1 DEF SameMoment
  <1>2. CASE y = Sound!Fails(x)
    BY <1>2, FailsFacts
  <1>3. CASE y = [x EXCEPT !.active = "None"]
    BY <1>3 DEF SoundStates, SameMoment
  <1>4. CASE \E clip \in BOOLEAN : y = [x EXCEPT !.attached = TRUE, !.clip = clip]
    BY <1>4 DEF SoundStates, SameMoment
  <1>5. x.clip \in BOOLEAN
    BY DEF SoundStates
  <1> QED BY <1>1, <1>2, <1>3, <1>4, <1>5 DEF Sound!Plays, Sound!None

LEMMA NotBelowItself ==
  ASSUME SoundInv, s.active # "None"
  PROVE  ~Sound!Below(s.active, s.active)
  <1>1. Sound!Priority(s.active) \in Int
    BY PriorityIsNumber DEF SoundInv, SoundStates
  <1> QED BY <1>1 DEF Sound!Below

LEMMA PollRight ==
  ASSUME SoundInv, Sound!Poll
  PROVE  SoundInv' /\ Sound!PlayedFits
  <1>0. s \in SoundStates /\ Waits(s)
    BY DEF SoundInv
  <1>1. PICK alert \in BOOLEAN, ring \in Sound!If(s.calling), change \in {Sound!None, "Rest", "Done"},
             broken \in Sound!If(s.attached), cut \in Sound!If(s.clip), ambient \in Sound!If(Sound!Quiet(s)) :
          LET signalled == Sound!Signals(IF broken THEN Sound!Fails(s) ELSE s, alert, ring, change)
              kept == IF cut THEN [signalled EXCEPT !.clip = FALSE, !.active = Sound!None] ELSE signalled
              asked == IF ambient THEN Sound!Request(Sound!Filtered(kept), "Ambient") ELSE Sound!Filtered(kept)
              played == IF s.muted THEN {[Sound!Stop(signalled) EXCEPT !.failed = FALSE]}
                        ELSE Sound!Plays(Sound!Promoted(asked), asked.queued # Sound!None)
          IN s' \in {[x EXCEPT !.polled = TRUE] : x \in played}
    BY DEF Sound!Poll
  <1>2. /\ ring \in BOOLEAN /\ broken \in BOOLEAN /\ cut \in BOOLEAN /\ ambient \in BOOLEAN
        /\ change \in {"None", "Rest", "Done"}
        /\ cut => s.clip
        /\ ambient => Sound!Quiet(s)
    BY DEF Sound!If, Sound!None
  <1>3. PICK start : start = IF broken THEN Sound!Fails(s) ELSE s
    OBVIOUS
  <1>4. /\ start \in SoundStates /\ SameMoment(s, start) /\ Waits(start) /\ start.clip = s.clip
        /\ \/ start.active = "None" /\ start.queued = "None" /\ start.failed
           \/ start.active = s.active
    <2>1. CASE broken
      <3>1. start = Sound!Fails(s)
        BY <1>3, <2>1
      <3> QED BY <1>0, <3>1, FailsFacts DEF Waits
    <2>2. CASE ~broken
      BY <1>0, <1>3, <2>2 DEF SameMoment
    <2> QED BY <2>1, <2>2
  <1>5. PICK told : told = Sound!Signals(start, alert, ring, change)
    OBVIOUS
  <1>6. /\ told \in SoundStates /\ SameMoment(start, told) /\ Waits(told)
        /\ told.active = start.active /\ told.clip = start.clip /\ told.failed = start.failed
        /\ start.failed => told.queued = start.queued
    <2>1. Kept(start, told)
      BY <1>2, <1>4, <1>5, SignalsKeeps
    <2> QED BY <1>4, <2>1 DEF Kept
  <1>7. PICK kept : kept = IF cut THEN [told EXCEPT !.clip = FALSE, !.active = "None"] ELSE told
    OBVIOUS
  <1>8. /\ kept \in SoundStates /\ SameMoment(told, kept) /\ Waits(kept)
        /\ kept.failed = told.failed /\ kept.queued = told.queued
        /\ kept.active = told.active \/ (cut /\ kept.active = "None")
    BY <1>6, <1>7 DEF SoundStates, SameMoment, Waits
  <1>9. PICK filtered : filtered = Sound!Filtered(kept)
    OBVIOUS
  <1>10. /\ filtered \in SoundStates /\ SameMoment(kept, filtered) /\ filtered.failed = kept.failed
         /\ filtered.active = kept.active \/ (filtered.active = "None" /\ ~Sound!Fits(kept, kept.active))
         /\ filtered.active # "None" => Sound!Fits(kept, filtered.active)
         /\ filtered.queued = kept.queued \/ filtered.queued = "None"
         /\ filtered.queued # "None" => Sound!Fits(kept, filtered.queued)
    BY <1>8, <1>9, FilteredFacts
  <1>11. SameMoment(s, kept) /\ SameMoment(s, filtered) /\ Waits(filtered)
    BY <1>4, <1>6, <1>8, <1>10 DEF SameMoment, Waits
  <1>12. PICK asked : asked = IF ambient THEN Sound!Request(filtered, "Ambient") ELSE filtered
    OBVIOUS
  <1>13. /\ asked \in SoundStates /\ SameMoment(s, asked) /\ Waits(asked) /\ asked.active = filtered.active
         /\ filtered.failed => asked.queued = filtered.queued
         /\ asked.queued # "None" => Sound!Fits(s, asked.queued)
    <2>1. filtered.queued # "None" => Sound!Fits(s, filtered.queued)
      BY <1>10, <1>11, FitsTheMoment
    <2>2. CASE ambient
      <3>1. asked = Sound!Request(filtered, "Ambient") /\ "Ambient" \in SoundCues \cup {"None"}
        BY <1>12, <2>2 DEF SoundCues
      <3>2. /\ asked \in SoundStates /\ SameMoment(filtered, asked) /\ asked.active = filtered.active
            /\ \/ asked.queued = filtered.queued
               \/ asked.queued = "Ambient" /\ ~filtered.failed /\ Sound!Allowed(filtered, "Ambient")
        BY <1>10, <3>1, RequestFacts
      <3>3. Waits(asked)
        BY <1>10, <1>11, <3>1, RequestWaits
      <3>4. Sound!Allowed(filtered, "Ambient") => Sound!Fits(s, "Ambient")
        BY <1>2, <1>11, <2>2 DEF SameMoment, Sound!Fits, Sound!Allowed
      <3> QED BY <1>11, <2>1, <3>2, <3>3, <3>4 DEF SameMoment
    <2>3. CASE ~ambient
      BY <1>10, <1>11, <1>12, <2>1, <2>3
    <2> QED BY <1>2, <2>2, <2>3
  <1>14. PICK next : next = Sound!Promoted(asked)
    OBVIOUS
  <1>15. /\ next \in SoundStates /\ SameMoment(s, next) /\ next.queued = "None"
         /\ next.active = asked.active \/ (next.active = asked.queued /\ asked.queued # "None")
    BY <1>13, <1>14, PromotedFacts DEF SameMoment
  <1>16. PICK x \in IF s.muted THEN {[Sound!Stop(told) EXCEPT !.failed = FALSE]}
                    ELSE Sound!Plays(next, asked.queued # "None") :
           s' = [x EXCEPT !.polled = TRUE]
    BY <1>1, <1>3, <1>5, <1>7, <1>9, <1>12, <1>14 DEF Sound!None
  <1>17. x \in SoundStates /\ SameMoment(s, x) /\ x.queued = "None" /\ x.active \in {"None", next.active}
    <2>1. CASE s.muted
      <3>1. x = [Sound!Stop(told) EXCEPT !.failed = FALSE]
        BY <1>16, <2>1
      <3>2. x \in SoundStates /\ SameMoment(told, x) /\ x.queued = "None" /\ x.active = "None"
        BY <1>6, <3>1 DEF Sound!Stop, SoundStates, SameMoment, Sound!None
      <3> QED BY <1>4, <1>6, <3>2 DEF SameMoment
    <2>2. CASE ~s.muted
      <3>1. x \in Sound!Plays(next, asked.queued # "None") /\ (asked.queued # "None") \in BOOLEAN
        BY <1>16, <2>2
      <3>2. x \in SoundStates /\ SameMoment(next, x) /\ x.queued = "None" /\ x.active \in {"None", next.active}
        BY <1>15, <3>1, PlaysFacts
      <3> QED BY <1>15, <3>2 DEF SameMoment
    <2> QED BY <2>1, <2>2
  <1>18. /\ s' \in SoundStates /\ SameMoment(s, s') /\ s'.queued = "None" /\ s'.active = x.active
    BY <1>16, <1>17 DEF SoundStates, SameMoment
  <1>19. s'.active # "None" => Sound!Fits(s, s'.active)
    <2>1. filtered.active # "None" => Sound!Fits(s, filtered.active)
      BY <1>10, <1>11, FitsTheMoment
    <2> QED BY <1>13, <1>15, <1>17, <1>18, <2>1
  <1>20. s'.active # "None" => Sound!Fits(s', s'.active)
    BY <1>18, <1>19, FitsTheMoment
  <1>21. ASSUME s.active # "None", s'.active # "None", Sound!Below(s'.active, s.active), Sound!Fits(s, s.active), ~s.clip
         PROVE  FALSE
    <2>1. next.active # "None" /\ s'.active = next.active
      BY <1>17, <1>18, <1>21
    <2>2. kept.active = told.active
      BY <1>2, <1>8, <1>21
    <2>3. CASE start.active = "None" /\ start.queued = "None" /\ start.failed
      BY <1>6, <1>8, <1>10, <1>13, <1>15, <2>1, <2>2, <2>3
    <2>4. CASE start.active = s.active
      <3>1. Sound!Fits(kept, s.active)
        BY <1>11, <1>21, FitsTheMoment
      <3>2. asked.active = s.active
        BY <1>6, <1>10, <1>13, <2>2, <2>4, <3>1
      <3>3. ~Sound!Below(s.active, s.active)
        BY <1>21, NotBelowItself
      <3>4. next.active # asked.active
        BY <1>21, <2>1, <3>2, <3>3
      <3> QED BY <1>13, <1>15, <1>21, <2>1, <3>2, <3>4 DEF Waits
    <2> QED BY <1>4, <2>3, <2>4
  <1>22. SoundInv'
    BY <1>18, <1>20 DEF SoundInv, Waits
  <1> QED BY <1>20, <1>21, <1>22 DEF Sound!PlayedFits, Sound!None

LEMMA SoundBegins == Sound!Init => SoundInv
  BY DEF Sound!Init, SoundInv, SoundStates, Waits, Sound!None

\* A step of sound.cpp, of a page or of a setting.
LEMMA SoundSteps ==
  ASSUME SoundInv, [Sound!Next]_s
  PROVE  SoundInv' /\ Sound!PlayedFits
  <1>1. CASE Sound!Poll
    BY <1>1, PollRight
  <1>2. CASE Sound!Ask
    <2>1. PICK cue \in Cues : s' = Sound!Request(s, cue)
      BY <1>2 DEF Sound!Ask
    <2>2. Kept(s, s') /\ s'.polled = s.polled
      <3>1. cue \in SoundCues \cup {"None"} /\ s \in SoundStates
        BY CuesAssumption DEF SoundInv
      <3> QED BY <2>1, <3>1, RequestFacts, RequestKeeps
    <2>3. s'.active # "None" => (Sound!Fits(s', s'.active) <=> Sound!Fits(s, s.active))
      BY <2>2, FitsTheMoment DEF Kept
    <2> QED BY <2>2, <2>3, NotBelowItself DEF Kept, SoundInv, Sound!PlayedFits, Sound!None
  <1>3. CASE Sound!Late \/ s' = s
    <2>1. /\ s' \in SoundStates /\ SameMoment(s, s') /\ s'.active = s.active /\ s'.queued = s.queued
          /\ s'.polled = s.polled
      BY <1>3 DEF Sound!Late, SoundInv, SoundStates, SameMoment
    <2>2. Sound!Fits(s', s'.active) <=> Sound!Fits(s, s.active)
      BY <2>1, FitsTheMoment
    <2> QED BY <2>1, <2>2, NotBelowItself DEF SoundInv, Waits, Sound!PlayedFits, Sound!None
  <1>4. CASE Sound!Changes
    <2>1. PICK x : x = [s EXCEPT !.polled = FALSE]
      OBVIOUS
    <2>2. x \in SoundStates /\ x.active = s.active /\ x.queued = s.queued /\ ~x.polled
      BY <2>1 DEF SoundInv, SoundStates
    <2>3. \/ s' = [x EXCEPT !.muted = ~@] \/ s' = [x EXCEPT !.calling = ~@] \/ s' = [x EXCEPT !.idle = ~@]
          \/ \E c \in {"charging", "ambient", "faces", "alerts", "timer"} :
               s' = [x EXCEPT !.off = IF c \in @ THEN {} ELSE {c}]
      BY <1>4, <2>1 DEF Sound!Changes
    <2>4. s' \in SoundStates /\ s'.active = s.active /\ s'.queued = s.queued /\ ~s'.polled
      <3>1. CASE \/ s' = [x EXCEPT !.muted = ~@] \/ s' = [x EXCEPT !.calling = ~@] \/ s' = [x EXCEPT !.idle = ~@]
        BY <2>2, <3>1 DEF SoundStates
      <3>2. CASE \E c \in {"charging", "ambient", "faces", "alerts", "timer"} :
                   s' = [x EXCEPT !.off = IF c \in @ THEN {} ELSE {c}]
        <4>1. PICK c \in {"charging", "ambient", "faces", "alerts", "timer"} :
                s' = [x EXCEPT !.off = IF c \in x.off THEN {} ELSE {c}]
          BY <3>2
        <4>2. PICK off : off = IF c \in x.off THEN {} ELSE {c}
          OBVIOUS
        <4>3. c \in Switches
          BY <4>1 DEF Switches
        <4>4. off \in SUBSET Switches
          BY <4>2, <4>3
        <4>5. s' = [x EXCEPT !.off = off]
          BY <4>1, <4>2
        <4> QED BY <2>2, <4>4, <4>5 DEF SoundStates
      <3> QED BY <2>3, <3>1, <3>2
    <2> QED BY <2>4, NotBelowItself DEF SoundInv, Waits, Sound!PlayedFits, Sound!None
  <1>5. CASE Sound!Reset
    <2>1. s' \in SoundStates /\ s'.active = "None"
      BY <1>5 DEF Sound!Reset, Sound!Stop, SoundInv, SoundStates, Sound!None
    <2> QED BY <2>1 DEF SoundInv, Waits, Sound!PlayedFits, Sound!None
  <1> QED BY <1>1, <1>2, <1>3, <1>4, <1>5 DEF Sound!Next

\* After every poll what is played fits the settings, the night, the call and the page of the
\* moment, and what fitted was replaced only by a cue that is not below it, for any set of cues
\* that the pages ask for: sound/sound.cpp.
THEOREM SoundCorrect == DeviceSpec => PlayedFits
  <1> DEFINE Inv == part = "sound" => SoundInv
  <1>1. DeviceInit => Inv
    BY PartsBegin, SoundBegins
  <1>2. Inv /\ [DeviceNext]_deviceVars => Inv' /\ [part = "sound" => Sound!PlayedFits]_deviceVars
    BY PartsAlone, SoundSteps
  <1> QED BY <1>1, <1>2, PTL DEF DeviceSpec, PlayedFits

-----------------------------------------------------------------------------
(* Settings *)

Profiles == [mood : Moods, rest : Values]
Filters == (SUBSET Moods) \ {{}}

ProfileRecords == {Settings!None} \cup [version : Nat, profile : Profiles]
FaceRecords == {Settings!None} \cup [count : Nat, mask : Filters]
Preferences == [profile : ProfileRecords, faces : FaceRecords]

\* What settings_init has read, and what every save has kept of it since.
SettingsInv ==
  /\ faces \in Filters /\ profile \in Profiles /\ profile.mood \in faces
  /\ nvs \in Preferences
  /\ saved \in [ready : BOOLEAN, profile : ProfileRecords, faces : Filters]
  /\ IF saved.ready THEN saved.profile = nvs.profile /\ saved.faces = Settings!LoadedFaces(nvs)
     ELSE saved.profile = Settings!None
  /\ saving \subseteq {"profile", "faces"} /\ (saving # {} => saved.ready)
  /\ rotate \in BOOLEAN

LEMMA MoodsAreNumbers == Moods \subseteq Nat /\ 0 \in Moods
  <1>1. PICK count \in Nat : count = Cardinality(Moods)
    BY FS_CardinalityType, SettingsAssumption
  <1> QED BY <1>1, SettingsAssumption

LEMMA LeastNumber ==
  ASSUME NEW f \in SUBSET Nat, f # {}
  PROVE  \E a \in f : \A b \in f : a <= b
  <1>1. \E a \in f : \A b \in f : ~(<<b, a>> \in OpToRel(<, Nat))
    BY NatLessThanWellFounded, WFMin
  <1>2. \E a \in f : \A b \in f : ~(b < a)
    BY <1>1 DEF OpToRel
  <1> QED BY <1>2

LEMMA SmallestIsMember ==
  ASSUME NEW f \in Filters
  PROVE  Settings!Smallest(f) \in f
  <1>1. f \subseteq Nat /\ f # {}
    BY MoodsAreNumbers DEF Filters
  <1>2. \E x \in f : \A y \in f : x <= y
    BY <1>1, LeastNumber
  <1> QED BY <1>2 DEF Settings!Smallest

LEMMA Resolved ==
  ASSUME NEW f \in Filters, NEW mood
  PROVE  /\ Settings!Resolve(f, mood) \in f
         /\ mood \in f => Settings!Resolve(f, mood) = mood
  BY SmallestIsMember DEF Settings!Resolve

\* A record is not the absence of one.
LEMMA RecordsExist ==
  ASSUME NEW p, NEW f
  PROVE  Settings!Encoded(p) # Settings!None /\ Settings!EncodedFaces(f) # Settings!None
  <1>1. DOMAIN Settings!None = {"missing"}
    BY DEF Settings!None
  <1>2. "version" \in DOMAIN Settings!Encoded(p) /\ "count" \in DOMAIN Settings!EncodedFaces(f)
    BY DEF Settings!Encoded, Settings!EncodedFaces
  <1> QED BY <1>1, <1>2

\* The copy of Cardinality that Settings extends.
LEMMA SameCardinality == Settings!Cardinality(Moods) = Cardinality(Moods)
  BY DEF Settings!Cardinality, Cardinality, Settings!IsFiniteSet, IsFiniteSet

LEMMA CatalogSize == Cardinality(Moods) \in Nat /\ \A mood \in Moods : mood < Cardinality(Moods)
  <1>1. PICK count \in Nat : count = Cardinality(Moods)
    BY FS_CardinalityType, SettingsAssumption
  <1> QED BY <1>1, SettingsAssumption

LEMMA RecordTypes ==
  ASSUME NEW p \in Profiles, NEW f \in Filters
  PROVE  Settings!Encoded(p) \in ProfileRecords /\ Settings!EncodedFaces(f) \in FaceRecords
  <1>1. Settings!Encoded(p) \in [version : Nat, profile : Profiles]
    BY DEF Settings!Encoded, Settings!Current
  <1>2. Settings!EncodedFaces(f) \in [count : Nat, mask : Filters]
    BY CatalogSize, SameCardinality DEF Settings!EncodedFaces
  <1> QED BY <1>1, <1>2 DEF ProfileRecords, FaceRecords

LEMMA FacesRead ==
  ASSUME NEW n \in Preferences
  PROVE  Settings!LoadedFaces(n) \in Filters
  <1>1. CASE n.faces = Settings!None
    <2>1. Settings!LoadedFaces(n) = Moods
      BY <1>1 DEF Settings!LoadedFaces
    <2> QED BY <2>1, MoodsAreNumbers DEF Filters
  <1>2. CASE n.faces # Settings!None
    <2>1. n.faces.mask \in Filters
      BY <1>2 DEF Preferences, FaceRecords
    <2>2. Settings!LoadedFaces(n) = n.faces.mask \cup {x \in Moods : x >= n.faces.count}
      BY <1>2 DEF Settings!LoadedFaces
    <2> QED BY <2>1, <2>2 DEF Filters
  <1> QED BY <1>1, <1>2

LEMMA ProfileRead ==
  ASSUME NEW n \in Preferences
  PROVE  Settings!LoadedProfile(n) \in Profiles /\ Settings!LoadedProfile(n).mood \in Settings!LoadedFaces(n)
  <1>1. PICK p : p = IF n.profile = Settings!None THEN Settings!Default ELSE n.profile.profile
    OBVIOUS
  <1>2. p \in Profiles
    <2>1. Settings!Default \in Profiles
      BY MoodsAreNumbers, SettingsAssumption DEF Settings!Default, Profiles
    <2> QED BY <1>1, <2>1 DEF Preferences, ProfileRecords
  <1>3. Settings!LoadedProfile(n) = [p EXCEPT !.mood = Settings!Resolve(Settings!LoadedFaces(n), p.mood)]
    BY <1>1 DEF Settings!LoadedProfile
  <1>4. Settings!Resolve(Settings!LoadedFaces(n), p.mood) \in Settings!LoadedFaces(n)
    BY FacesRead, Resolved
  <1>5. Settings!LoadedFaces(n) \subseteq Moods
    BY FacesRead DEF Filters
  <1> QED BY <1>2, <1>3, <1>4, <1>5 DEF Profiles

\* What a save writes is what the next start reads.
LEMMA WrittenIsRead ==
  ASSUME NEW n \in Preferences, NEW f \in Filters
  PROVE  /\ n.faces = Settings!EncodedFaces(f) => Settings!LoadedFaces(n) = f
         /\ \A p \in Profiles : n.profile = Settings!Encoded(p) /\ p.mood \in Settings!LoadedFaces(n)
              => Settings!LoadedProfile(n) = p
  <1>1. ASSUME n.faces = Settings!EncodedFaces(f) PROVE Settings!LoadedFaces(n) = f
    <2>1. n.faces # Settings!None
      BY <1>1, RecordsExist
    <2>2. Settings!LoadedFaces(n) = n.faces.mask \cup {x \in Moods : x >= n.faces.count}
      BY <2>1 DEF Settings!LoadedFaces
    <2>3. n.faces.mask = f /\ n.faces.count = Cardinality(Moods)
      BY <1>1, SameCardinality DEF Settings!EncodedFaces
    <2>4. \A x \in Moods : ~(x >= Cardinality(Moods))
      BY CatalogSize, MoodsAreNumbers
    <2> QED BY <2>2, <2>3, <2>4
  <1>2. ASSUME NEW p \in Profiles, n.profile = Settings!Encoded(p), p.mood \in Settings!LoadedFaces(n)
        PROVE  Settings!LoadedProfile(n) = p
    <2>1. n.profile # Settings!None /\ n.profile.profile = p
      BY <1>2, RecordsExist DEF Settings!Encoded
    <2>2. Settings!LoadedProfile(n) = [p EXCEPT !.mood = Settings!Resolve(Settings!LoadedFaces(n), p.mood)]
      BY <2>1 DEF Settings!LoadedProfile
    <2>3. Settings!Resolve(Settings!LoadedFaces(n), p.mood) = p.mood
      BY <1>2, FacesRead, Resolved
    <2> QED BY <2>2, <2>3 DEF Profiles
  <1> QED BY <1>1, <1>2

LEMMA SettingsBegin == Settings!Init => SettingsInv
  <1> SUFFICES ASSUME Settings!Init PROVE SettingsInv
    OBVIOUS
  <1>1. nvs \in Preferences
    <2>1. [version |-> Settings!Current - 1, profile |-> Settings!Default] \in [version : Nat, profile : Profiles]
      BY MoodsAreNumbers, SettingsAssumption DEF Settings!Current, Settings!Default, Profiles
    <2>2. [count |-> 1, mask |-> {0}] \in [count : Nat, mask : Filters]
      BY MoodsAreNumbers DEF Filters
    <2>3. nvs \in [profile : {Settings!None, [version |-> Settings!Current - 1, profile |-> Settings!Default]},
                   faces : {Settings!None, [count |-> 1, mask |-> {0}]}]
      BY DEF Settings!Init
    <2> QED BY <2>1, <2>2, <2>3 DEF Preferences, ProfileRecords, FaceRecords
  <1>2. /\ faces = Settings!LoadedFaces(nvs) /\ profile = Settings!LoadedProfile(nvs)
        /\ saved = [ready |-> TRUE, profile |-> nvs.profile, faces |-> faces]
        /\ rotate = FALSE /\ saving = {}
    BY DEF Settings!Init
  <1>3. faces \in Filters /\ profile \in Profiles /\ profile.mood \in faces
    BY <1>1, <1>2, FacesRead, ProfileRead
  <1>4. nvs.profile \in ProfileRecords
    BY <1>1 DEF Preferences
  <1> QED BY <1>1, <1>2, <1>3, <1>4 DEF SettingsInv

\* A filter that is set keeps the expression among those it allows.
LEMMA FilterSet ==
  ASSUME SettingsInv, NEW f \in SUBSET Moods, Settings!FacesUpdate(f)
  PROVE  faces' \in Filters /\ profile' \in Profiles /\ profile'.mood \in faces'
  <1>1. CASE f = faces
    BY <1>1 DEF SettingsInv, Settings!FacesUpdate
  <1>2. CASE f # faces
    <2>1. f \in Filters /\ faces' = f /\ profile' = [profile EXCEPT !.mood = Settings!Resolve(f, profile.mood)]
      BY <1>2 DEF Settings!FacesUpdate, Filters
    <2>2. Settings!Resolve(f, profile.mood) \in f
      BY <2>1, Resolved
    <2> QED BY <2>1, <2>2 DEF SettingsInv, Profiles, Filters
  <1> QED BY <1>1, <1>2

LEMMA RebootRight ==
  ASSUME SettingsInv, Settings!Reboot
  PROVE  SettingsInv'
  <1>1. PICK ready \in BOOLEAN : Settings!Loaded(nvs, ready)
    BY DEF Settings!Reboot
  <1>2. PICK m : m = IF ready THEN nvs ELSE Settings!NoRecords
    OBVIOUS
  <1>3. m \in Preferences /\ (~ready => m.profile = Settings!None)
    BY <1>2 DEF SettingsInv, Settings!NoRecords, Preferences, ProfileRecords, FaceRecords
  <1>4. /\ faces' = Settings!LoadedFaces(m) /\ profile' = Settings!LoadedProfile(m)
        /\ saved' = [ready |-> ready, profile |-> m.profile, faces |-> Settings!LoadedFaces(m)]
    BY <1>1, <1>2 DEF Settings!Loaded
  <1>5. faces' \in Filters /\ profile' \in Profiles /\ profile'.mood \in faces'
    BY <1>3, <1>4, FacesRead, ProfileRead
  <1>6. saving' = {} /\ rotate' = FALSE /\ nvs' = nvs
    BY DEF Settings!Reboot
  <1>7. m.profile \in ProfileRecords
    BY <1>3 DEF Preferences
  <1> QED BY <1>2, <1>3, <1>4, <1>5, <1>6, <1>7 DEF SettingsInv

LEMMA WritesRight ==
  ASSUME SettingsInv, Settings!WriteProfile \/ Settings!WriteFaces
  PROVE  SettingsInv'
  <1>1. PICK p, f : p = Settings!Encoded(profile) /\ f = Settings!EncodedFaces(faces)
    OBVIOUS
  <1>2. p \in ProfileRecords /\ f \in FaceRecords
    BY <1>1, RecordTypes DEF SettingsInv
  <1>3. faces' = faces /\ profile' = profile /\ rotate' = rotate /\ saving' \subseteq saving /\ saving # {}
    BY DEF Settings!WriteProfile, Settings!WriteFaces
  <1>4. \/ nvs' = nvs /\ saved' = saved
        \/ nvs' = [nvs EXCEPT !.profile = p] /\ saved' = [saved EXCEPT !.profile = p]
        \/ nvs' = [nvs EXCEPT !.faces = f] /\ saved' = [saved EXCEPT !.faces = faces]
    BY <1>1 DEF Settings!WriteProfile, Settings!WriteFaces
  <1>5. saved.ready
    BY <1>3 DEF SettingsInv
  <1>6. CASE nvs' = nvs /\ saved' = saved
    BY <1>3, <1>5, <1>6 DEF SettingsInv
  <1>7. CASE nvs' = [nvs EXCEPT !.profile = p] /\ saved' = [saved EXCEPT !.profile = p]
    <2>1. nvs' \in Preferences /\ nvs'.profile = p /\ nvs'.faces = nvs.faces
      BY <1>2, <1>7 DEF SettingsInv, Preferences
    <2>2. Settings!LoadedFaces(nvs') = Settings!LoadedFaces(nvs)
      BY <2>1 DEF Settings!LoadedFaces
    <2> QED BY <1>2, <1>3, <1>5, <1>7, <2>1, <2>2 DEF SettingsInv
  <1>8. CASE nvs' = [nvs EXCEPT !.faces = f] /\ saved' = [saved EXCEPT !.faces = faces]
    <2>1. nvs' \in Preferences /\ nvs'.profile = nvs.profile /\ nvs'.faces = f
      BY <1>2, <1>8 DEF SettingsInv, Preferences
    <2>2. Settings!LoadedFaces(nvs') = faces
      BY <1>1, <2>1, WrittenIsRead DEF SettingsInv
    <2> QED BY <1>2, <1>3, <1>5, <1>8, <2>1, <2>2 DEF SettingsInv
  <1> QED BY <1>4, <1>6, <1>7, <1>8

LEMMA SettingsSteps ==
  ASSUME SettingsInv, [Settings!Next]_settingsVars
  PROVE  SettingsInv'
  <1>1. CASE Settings!Edit \/ Settings!SettingsForm
    <2>1. PICK value \in Profiles : Settings!Update(value)
      BY <1>1 DEF Settings!Edit, Settings!SettingsForm, Profiles
    <2>2. /\ faces' = faces /\ saved' = saved /\ nvs' = nvs /\ rotate' \in BOOLEAN
          /\ saving' = saving \/ (saved.ready /\ saving' = {"profile", "faces"})
      BY <1>1 DEF Settings!Edit, Settings!SettingsForm, Settings!Save, SettingsInv
    <2> QED BY <2>1, <2>2 DEF SettingsInv, Settings!Update
  <1>2. CASE Settings!FacesForm \/ \E face \in Moods : Settings!Toggle(face)
    <2>1. \E f \in SUBSET Moods : Settings!FacesUpdate(f)
      <3>1. CASE Settings!FacesForm
        BY <3>1 DEF Settings!FacesForm
      <3>2. CASE \E face \in Moods : Settings!Toggle(face)
        <4>1. PICK face \in Moods : Settings!Toggle(face)
          BY <3>2
        <4>2. faces \ {face} \in SUBSET Moods /\ faces \cup {face} \in SUBSET Moods
          BY DEF SettingsInv, Filters
        <4> QED BY <4>1, <4>2 DEF Settings!Toggle
      <3> QED BY <1>2, <3>1, <3>2
    <2>2. faces' \in Filters /\ profile' \in Profiles /\ profile'.mood \in faces'
      BY <2>1, FilterSet
    <2>3. /\ saved' = saved /\ nvs' = nvs /\ rotate' = rotate
          /\ saving' = saving \/ (saved.ready /\ saving' = {"faces"})
      BY <1>2 DEF Settings!FacesForm, Settings!Toggle, Settings!Save
    <2> QED BY <2>2, <2>3 DEF SettingsInv
  <1>3. CASE Settings!Defaults
    <2>1. Moods \in Filters /\ Settings!Default \in Profiles /\ Settings!Default.mood \in Moods
      BY MoodsAreNumbers, SettingsAssumption DEF Filters, Profiles, Settings!Default
    <2> QED BY <1>3, <2>1 DEF Settings!Defaults, SettingsInv
  <1>4. CASE Settings!Rotates \/ Settings!SaveButton \/ Settings!Sessions \/ Settings!Reads \/ UNCHANGED settingsVars
    BY <1>4 DEF Settings!Rotates, Settings!SaveButton, Settings!Save, Settings!Sessions, Settings!Reads,
                settingsVars, SettingsInv
  <1>5. CASE Settings!WriteProfile \/ Settings!WriteFaces
    BY <1>5, WritesRight
  <1>6. CASE Settings!Reboot
    BY <1>6, RebootRight
  <1> QED BY <1>1, <1>2, <1>3, <1>4, <1>5, <1>6 DEF Settings!Next

\* What is not dirty is what was written, or read.
LEMMA SettingsHold ==
  ASSUME SettingsInv
  PROVE  Settings!SettingsRight
  <1>1. Settings!TypeOK
    <2>1. Settings!LoadedProfile(nvs).mood \in Settings!LoadedFaces(nvs)
      BY ProfileRead DEF SettingsInv
    <2>2. profile \in [mood : faces, rest : Values]
      BY DEF SettingsInv, Profiles
    <2> QED BY <2>1, <2>2 DEF SettingsInv, Filters, Settings!TypeOK
  <1>2. ASSUME ~Settings!Dirty
        PROVE  Settings!LoadedProfile(nvs) = profile /\ Settings!LoadedFaces(nvs) = faces
    <2>1. saved.profile = Settings!Encoded(profile) /\ saved.faces = faces
      BY <1>2 DEF Settings!Dirty, Settings!FacesDirty
    <2>2. saved.ready
      BY <2>1, RecordsExist DEF SettingsInv
    <2>3. nvs.profile = Settings!Encoded(profile) /\ Settings!LoadedFaces(nvs) = faces
      BY <2>1, <2>2 DEF SettingsInv
    <2> QED BY <2>3, WrittenIsRead DEF SettingsInv
  <1> QED BY <1>1, <1>2 DEF Settings!SettingsRight, Settings!CleanSurvives

-----------------------------------------------------------------------------
(* Settings: the forms of a session *)

\* What is not replaced since the page was read has the revisions that the page carries.
FormInv ==
  /\ rev \in [all : Nat, faces : Nat] /\ form.mine \in BOOLEAN
  /\ form.mine =>
       /\ form.tag[1] \in Nat /\ form.tag[1] <= rev.all /\ (form.tag[1] = rev.all => profile = form.profile)
       /\ form.tag[2] = form.rotate
       /\ form.faces_tag \in Nat /\ form.faces_tag <= rev.faces
       /\ form.faces_tag = rev.faces => faces = form.faces

\* A change is counted.
RevisionsAgree ==
  /\ rev' \in [all : Nat, faces : Nat]
  /\ rev'.all >= rev.all /\ (rev'.all = rev.all => profile' = profile)
  /\ rev'.faces >= rev.faces /\ (rev'.faces = rev.faces => faces' = faces)

LEMMA CountedForms ==
  ASSUME FormInv, RevisionsAgree, form' = form
  PROVE  FormInv'
  BY DEF FormInv, RevisionsAgree

LEMMA UpdateCounts ==
  ASSUME FormInv, NEW value, Settings!Update(value), faces' = faces
  PROVE  RevisionsAgree
  <1>1. CASE value = profile
    BY <1>1 DEF FormInv, RevisionsAgree, Settings!Update
  <1>2. CASE value # profile
    <2>1. rev' = [rev EXCEPT !.all = @ + 1]
      BY <1>2 DEF Settings!Update
    <2> QED BY <2>1 DEF FormInv, RevisionsAgree
  <1> QED BY <1>1, <1>2

LEMMA FacesUpdateCounts ==
  ASSUME FormInv, NEW f, Settings!FacesUpdate(f)
  PROVE  RevisionsAgree
  <1>1. CASE f = faces
    BY <1>1 DEF FormInv, RevisionsAgree, Settings!FacesUpdate
  <1>2. CASE f # faces
    <2>1. rev' = [all |-> rev.all + 1, faces |-> rev.faces + 1]
      BY <1>2 DEF Settings!FacesUpdate
    <2> QED BY <2>1 DEF FormInv, RevisionsAgree
  <1> QED BY <1>1, <1>2

LEMMA DefaultsCount ==
  ASSUME FormInv, Settings!Defaults
  PROVE  RevisionsAgree
  <1>1. PICK a \in {0, 1}, b \in {0, 1} :
          /\ a = 0 => faces = Moods
          /\ b = 0 => profile = Settings!Default
          /\ rev' = [all |-> rev.all + a + b, faces |-> rev.faces + a]
    BY DEF Settings!Defaults
  <1>2. faces' = Moods /\ profile' = Settings!Default
    BY DEF Settings!Defaults
  <1>3. a = 1 => rev'.faces # rev.faces /\ rev'.all # rev.all
    BY <1>1 DEF FormInv
  <1>4. b = 1 => rev'.all # rev.all
    BY <1>1 DEF FormInv
  <1> QED BY <1>1, <1>2, <1>3, <1>4 DEF FormInv, RevisionsAgree

LEMMA WritesCount ==
  ASSUME FormInv, Settings!WriteProfile \/ Settings!WriteFaces
  PROVE  RevisionsAgree
  <1>1. rev' = rev \/ rev' = [rev EXCEPT !.all = @ + 1]
    BY DEF Settings!WriteProfile, Settings!WriteFaces
  <1>2. faces' = faces /\ profile' = profile
    BY DEF Settings!WriteProfile, Settings!WriteFaces
  <1>3. CASE rev' = [rev EXCEPT !.all = @ + 1]
    BY <1>2, <1>3 DEF FormInv, RevisionsAgree
  <1> QED BY <1>1, <1>2, <1>3 DEF FormInv, RevisionsAgree

LEMMA FormSteps ==
  ASSUME FormInv, [Settings!Next]_settingsVars
  PROVE  FormInv'
  <1>1. CASE Settings!Edit \/ Settings!SettingsForm
    <2>1. PICK value : Settings!Update(value)
      BY <1>1 DEF Settings!Edit, Settings!SettingsForm
    <2>2. faces' = faces /\ form' = form
      BY <1>1 DEF Settings!Edit, Settings!SettingsForm
    <2> QED BY <2>1, <2>2, UpdateCounts, CountedForms
  <1>2. CASE Settings!FacesForm \/ \E face \in Moods : Settings!Toggle(face)
    <2>1. PICK f : Settings!FacesUpdate(f)
      BY <1>2 DEF Settings!FacesForm, Settings!Toggle
    <2>2. form' = form
      BY <1>2 DEF Settings!FacesForm, Settings!Toggle
    <2> QED BY <2>1, <2>2, FacesUpdateCounts, CountedForms
  <1>3. CASE Settings!Defaults
    <2>1. form' = form
      BY <1>3 DEF Settings!Defaults
    <2> QED BY <1>3, <2>1, DefaultsCount, CountedForms
  <1>4. CASE Settings!WriteProfile \/ Settings!WriteFaces
    <2>1. form' = form
      BY <1>4 DEF Settings!WriteProfile, Settings!WriteFaces
    <2> QED BY <1>4, <2>1, WritesCount, CountedForms
  <1>5. CASE Settings!Rotates \/ Settings!SaveButton \/ UNCHANGED settingsVars
    <2>1. rev' = rev /\ profile' = profile /\ faces' = faces /\ form' = form
      BY <1>5 DEF Settings!Rotates, Settings!SaveButton, settingsVars
    <2> QED BY <2>1 DEF FormInv
  <1>6. CASE Settings!Sessions
    <2>1. rev' = rev /\ form' = [mine |-> FALSE]
      BY <1>6 DEF Settings!Sessions, Settings!NoForm
    <2> QED BY <2>1 DEF FormInv
  <1>7. CASE Settings!Reads
    <2>1. /\ form' = [mine |-> TRUE, tag |-> <<rev.all, rotate>>, faces_tag |-> rev.faces,
                      profile |-> profile, faces |-> faces, rotate |-> rotate]
          /\ rev' = rev /\ profile' = profile /\ faces' = faces
      BY <1>7 DEF Settings!Reads, Settings!Tag
    <2> QED BY <2>1 DEF FormInv
  <1>8. CASE Settings!Reboot
    <2>1. rev' = [all |-> 1, faces |-> 1] /\ form' = [mine |-> FALSE]
      BY <1>8 DEF Settings!Reboot, Settings!Loaded, Settings!NoForm
    <2> QED BY <2>1 DEF FormInv
  <1> QED BY <1>1, <1>2, <1>3, <1>4, <1>5, <1>6, <1>7, <1>8 DEF Settings!Next

LEMMA FormsCurrent ==
  ASSUME FormInv
  PROVE  /\ Settings!SettingsForm => profile = form.profile /\ rotate = form.rotate
         /\ Settings!FacesForm => faces = form.faces
  <1>1. ASSUME Settings!SettingsForm PROVE profile = form.profile /\ rotate = form.rotate
    <2>1. form.mine /\ form.tag = <<rev.all, rotate>>
      BY <1>1 DEF Settings!SettingsForm, Settings!Authorized, Settings!Tag
    <2> QED BY <2>1 DEF FormInv
  <1>2. ASSUME Settings!FacesForm PROVE faces = form.faces
    BY <1>2 DEF Settings!FacesForm, Settings!Authorized, FormInv
  <1> QED BY <1>1, <1>2

\* A form is accepted only while all that it replaces is as its page showed it, whatever the terminal,
\* the menu, another page, a save or a restart did since: settings/settings_web.cpp and
\* eyes/face_web.cpp, by the revisions of settings/settings.cpp.
THEOREM FormsReplaceTheShown == DeviceSpec => FormIsCurrent
  <1> DEFINE Step == /\ Settings!SettingsForm => profile = form.profile /\ rotate = form.rotate
                     /\ Settings!FacesForm => faces = form.faces
  <1>1. DeviceInit => FormInv
    <2> SUFFICES ASSUME Settings!Init PROVE FormInv
      BY PartsBegin
    <2> QED BY DEF Settings!Init, Settings!NoForm, FormInv
  <1>2. FormInv /\ [DeviceNext]_deviceVars => FormInv' /\ [Step]_settingsVars
    BY PartsAlone, FormSteps, FormsCurrent
  <1> QED BY <1>1, <1>2, PTL DEF DeviceSpec, FormIsCurrent, Settings!FormIsCurrent, settingsVars, Settings!vars

-----------------------------------------------------------------------------
(* NetworkPage *)

Configs == [ssid : Networks \cup {""}, password : Networks \cup {""}, rest : {0, 1}]
Copies == [revision : Nat, config : Configs]
PageStates ==
  [session : {"none", "settings", "firmware"}, running : BOOLEAN, attempted : BOOLEAN, age : Int,
   driver : {"idle", "scanning", "done"}, config : Configs, revision : Nat, exists : BOOLEAN, flash : Configs,
   copy : Copies, cut : BOOLEAN, unseen : BOOLEAN]

Scans(x) ==
  /\ x.driver = "scanning" => x.session = "settings" /\ x.running
  /\ x.running => x.attempted

OwnPassword(config) == config.password \in {"", config.ssid}

\* The page of the present revision shows the present network.
Shown(x) ==
  /\ ~x.unseen /\ OwnPassword(x.config) /\ x.flash = x.config
  /\ x.copy.revision <= x.revision /\ x.revision > 0
  /\ x.copy.revision = x.revision => x.copy.config = x.config

PageOf(x) == x \in PageStates /\ Scans(x) /\ Shown(x)

LEMMA OlderRight ==
  ASSUME NEW x, PageOf(x), NEW polls \in {1, Deadline}
  PROVE  PageOf(Page!Older(x, polls)) /\ Page!Older(x, polls).session = x.session
  <1>1. PICK age \in Int : Page!Older(x, polls) = [x EXCEPT !.age = age]
    <2>1. x.age + polls \in Int /\ Deadline \in Int
      BY PageAssumption DEF PageOf, PageStates
    <2> QED BY <2>1 DEF Page!Older
  <1> QED BY <1>1 DEF PageOf, PageStates, Scans, Shown

LEMMA StopRight ==
  ASSUME NEW x, PageOf(x), NEW y, y = Page!Stop(x)
  PROVE  PageOf(y) /\ y.session = x.session /\ y.driver = "idle" /\ ~y.running
  BY DEF Page!Stop, PageOf, PageStates, Scans, Shown

LEMMA StartRight ==
  ASSUME NEW x, PageOf(x), x.session = "settings", NEW y \in Page!Start(x)
  PROVE  PageOf(y)
  <1>1. CASE y = x
    BY <1>1
  <1>2. CASE \E age \in {0, -1}, driver \in {"scanning", "done", "idle"} :
               y = [x EXCEPT !.attempted = TRUE, !.age = age, !.running = driver = "scanning", !.driver = driver]
    <2>1. PICK age \in {0, -1}, driver \in {"scanning", "done", "idle"} :
            y = [x EXCEPT !.attempted = TRUE, !.age = age, !.running = driver = "scanning", !.driver = driver]
      BY <1>2
    <2>2. PICK running \in BOOLEAN : running = (driver = "scanning")
      OBVIOUS
    <2>3. y = [x EXCEPT !.attempted = TRUE, !.age = age, !.running = running, !.driver = driver]
      BY <2>1, <2>2
    <2>4. age \in Int
      OBVIOUS
    <2> QED BY <2>2, <2>3, <2>4 DEF PageOf, PageStates, Scans, Shown
  <1> QED BY <1>1, <1>2 DEF Page!Start

LEMMA ResultsRight ==
  ASSUME NEW x, PageOf(x)
  PROVE  PageOf(Page!Results(x))
  <1>1. PICK running \in BOOLEAN : running = (x.running /\ x.attempted /\ x.driver = "scanning")
    OBVIOUS
  <1>2. Page!Results(x) = [x EXCEPT !.running = running]
    BY <1>1 DEF Page!Results
  <1> QED BY <1>1, <1>2 DEF PageOf, PageStates, Scans, Shown

LEMMA CopyTaken ==
  ASSUME NEW x, PageOf(x), NEW copy \in Copies, copy.revision <= x.revision,
         copy.revision = x.revision => copy.config = x.config
  PROVE  PageOf([x EXCEPT !.copy = copy])
  <1>1. PICK y : y = [x EXCEPT !.copy = copy]
    OBVIOUS
  <1>2. /\ y \in PageStates /\ y.copy = copy
        /\ y.driver = x.driver /\ y.session = x.session /\ y.running = x.running /\ y.attempted = x.attempted
        /\ y.unseen = x.unseen /\ y.config = x.config /\ y.flash = x.flash /\ y.revision = x.revision
    BY <1>1 DEF PageOf, PageStates
  <1> QED BY <1>1, <1>2 DEF PageOf, Scans, Shown

LEMMA NoCopyShown == Page!NoNetwork \in Configs /\ Page!NoCopy \in Copies /\ Page!NoCopy.revision = 0
  <1>1. Page!NoNetwork \in Configs
    BY DEF Page!NoNetwork, Configs
  <1> QED BY <1>1 DEF Page!NoCopy, Copies

LEMMA ReadsRight ==
  ASSUME NEW x, PageOf(x)
  PROVE  PageOf(Page!Reads(x))
  <1>1. PICK copy \in Copies : copy = [revision |-> x.revision, config |-> x.config]
    BY DEF PageOf, PageStates, Copies
  <1>2. Page!Reads(x) = [x EXCEPT !.copy = copy]
    BY <1>1 DEF Page!Reads
  <1>3. copy.revision = x.revision /\ copy.config = x.config /\ x.revision \in Nat
    BY <1>1 DEF PageOf, PageStates
  <1> QED BY <1>2, <1>3, CopyTaken

LEMMA CandidateRight ==
  ASSUME NEW x, PageOf(x), NEW next \in Page!Candidate(x) \cup {Page!NoNetwork}
  PROVE  next \in Configs /\ OwnPassword(next)
  <1>1. CASE next = Page!NoNetwork
    BY <1>1 DEF Page!NoNetwork, Configs, OwnPassword
  <1>2. CASE next \in Page!Candidate(x)
    <2>1. /\ next \in [ssid : Networks, password : Networks \cup {"", x.config.password}, rest : {0, 1}]
          /\ next.password \in {"", next.ssid} \/ (next.ssid = x.config.ssid /\ next.password = x.config.password)
      BY <1>2 DEF Page!Candidate
    <2>2. x.config.password \in {"", x.config.ssid}
      BY DEF PageOf, Shown, OwnPassword
    <2>3. next.password \in {"", next.ssid}
      BY <2>1, <2>2
    <2> QED BY <2>1, <2>3 DEF Configs, OwnPassword
  <1> QED BY <1>1, <1>2

LEMMA SaveRight ==
  ASSUME NEW x, PageOf(x), NEW y \in Page!Save(x)
  PROVE  PageOf(y)
  <1>1. CASE y = x
    BY <1>1
  <1>2. CASE x.copy.revision = x.revision /\ \E next \in Page!Candidate(x) \cup {Page!NoNetwork} :
               y = [x EXCEPT !.config = next, !.exists = TRUE, !.revision = x.revision + 1, !.flash = next,
                             !.unseen = x.unseen \/ x.copy.config # x.config]
    <2>1. PICK next \in Page!Candidate(x) \cup {Page!NoNetwork} :
            y = [x EXCEPT !.config = next, !.exists = TRUE, !.revision = x.revision + 1, !.flash = next,
                          !.unseen = x.unseen \/ x.copy.config # x.config]
      BY <1>2
    <2>2. (x.unseen \/ x.copy.config # x.config) = FALSE
      BY <1>2 DEF PageOf, Shown
    <2>3. PICK revision \in Nat : revision = x.revision + 1
      BY DEF PageOf, PageStates
    <2>4. y = [x EXCEPT !.config = next, !.exists = TRUE, !.revision = revision, !.flash = next, !.unseen = FALSE]
      BY <2>1, <2>2, <2>3
    <2>5. next \in Configs /\ OwnPassword(next)
      BY CandidateRight
    <2>6. /\ y \in PageStates /\ y.config = next /\ y.flash = next /\ y.revision = revision /\ ~y.unseen
          /\ y.driver = x.driver /\ y.session = x.session /\ y.running = x.running /\ y.attempted = x.attempted
          /\ y.copy = x.copy
      BY <2>4, <2>5 DEF PageOf, PageStates
    <2>7. x.copy.revision <= x.revision /\ x.copy.revision \in Nat /\ x.revision \in Nat
      <3>1. x.copy \in Copies /\ x.revision \in Nat
        BY DEF PageOf, PageStates
      <3> QED BY <3>1 DEF Copies, PageOf, Shown
    <2>8. Shown(y)
      <3>1. y.copy.revision < y.revision /\ y.copy.revision <= y.revision /\ y.revision > 0
        BY <2>3, <2>6, <2>7
      <3>2. OwnPassword(y.config) /\ y.flash = y.config
        BY <2>5, <2>6
      <3>3. y.copy.revision # y.revision
        BY <2>3, <2>6, <2>7
      <3> QED BY <2>6, <3>1, <3>2, <3>3 DEF Shown
    <2>9. Scans(y)
      BY <2>6 DEF PageOf, Scans
    <2> QED BY <2>6, <2>8, <2>9 DEF PageOf
  <1> QED BY <1>1, <1>2 DEF Page!Save, Page!Saved

LEMMA FirmwareRight ==
  ASSUME NEW x, PageOf(x)
  PROVE  PageOf(Page!Firmware(x))
  <1>1. PICK y : y = Page!Stop(x)
    OBVIOUS
  <1>2. PageOf(y) /\ y.driver = "idle"
    BY <1>1, StopRight
  <1>3. Page!Firmware(x) = [y EXCEPT !.session = "firmware"]
    BY <1>1 DEF Page!Firmware
  <1> QED BY <1>2, <1>3 DEF PageOf, PageStates, Scans, Shown

LEMMA ServedRight ==
  ASSUME NEW x, PageOf(x), NEW y \in Page!Served(x)
  PROVE  PageOf(y)
  <1>1. \/ y = x
        \/ x.session = "settings" /\ y \in Page!Start(x)
        \/ y \in Page!Save(x)
        \/ y \in {Page!Results(x), Page!Reads(x), Page!Firmware(x)}
    BY DEF Page!Served
  <1> QED BY <1>1, StartRight, SaveRight, ResultsRight, ReadsRight, FirmwareRight

LEMMA ScanPollRight ==
  ASSUME NEW x, PageOf(x)
  PROVE  PageOf(Page!ScanPoll(x))
  <1>1. PICK cut \in BOOLEAN : cut = (x.cut \/ (x.age < 0 /\ x.driver = "scanning"))
    BY DEF PageOf, PageStates
  <1>2. Page!ScanPoll(x) = x \/ Page!ScanPoll(x) = [x EXCEPT !.running = FALSE, !.driver = "idle", !.cut = cut]
    BY <1>1 DEF Page!ScanPoll
  <1>3. CASE Page!ScanPoll(x) = [x EXCEPT !.running = FALSE, !.driver = "idle", !.cut = cut]
    BY <1>3 DEF PageOf, PageStates, Scans, Shown
  <1> QED BY <1>2, <1>3

LEMMA ClosedRight ==
  ASSUME NEW x, PageOf(x)
  PROVE  PageOf(Page!Closed(x))
  <1>1. PICK y : y = Page!Stop(x)
    OBVIOUS
  <1>2. PageOf(y) /\ y.driver = "idle"
    BY <1>1, StopRight
  <1>3. PICK z : z = [y EXCEPT !.session = "none", !.copy = Page!NoCopy]
    OBVIOUS
  <1>4. /\ z \in PageStates /\ z.copy = Page!NoCopy /\ z.driver = "idle"
        /\ z.running = y.running /\ z.attempted = y.attempted
        /\ z.unseen = y.unseen /\ z.config = y.config /\ z.flash = y.flash /\ z.revision = y.revision
    BY <1>2, <1>3, NoCopyShown DEF PageOf, PageStates
  <1>5. z.revision \in Nat
    BY <1>4 DEF PageStates
  <1>6. PageOf(z)
    <2>1. z.copy.revision = 0
      BY <1>4, NoCopyShown
    <2>2. z.revision > 0
      BY <1>2, <1>4 DEF PageOf, Shown
    <2>3. z.copy.revision <= z.revision /\ z.copy.revision # z.revision
      BY <1>5, <2>1, <2>2
    <2>4. OwnPassword(z.config) /\ z.flash = z.config /\ ~z.unseen
      BY <1>2, <1>4 DEF PageOf, Shown
    <2>5. Scans(z)
      BY <1>2, <1>4 DEF PageOf, Scans
    <2> QED BY <1>4, <2>2, <2>3, <2>4, <2>5 DEF PageOf, Shown
  <1> QED BY <1>1, <1>3, <1>6 DEF Page!Closed

LEMMA PageBegins ==
  ASSUME NEW written \in Configs, OwnPassword(written)
  PROVE  PageOf(Page!Booted(written, 1))
  <1>1. Page!NoCopy \in Copies /\ Page!NoCopy.revision = 0
    BY NoCopyShown
  <1>2. PICK y : y = Page!Booted(written, 1)
    OBVIOUS
  <1>3. /\ y.driver = "idle" /\ ~y.running /\ ~y.unseen
        /\ y.config = written /\ y.flash = written /\ y.revision = 1 /\ y.copy = Page!NoCopy
    BY <1>2 DEF Page!Booted
  <1>4. y \in PageStates
    <2>1. PICK copy \in Copies : copy = Page!NoCopy
      BY <1>1
    <2>2. y = [session |-> "none", running |-> FALSE, attempted |-> FALSE, age |-> 0, driver |-> "idle",
               config |-> written, revision |-> 1, exists |-> FALSE, flash |-> written, copy |-> copy,
               cut |-> FALSE, unseen |-> FALSE]
      BY <1>2, <2>1 DEF Page!Booted
    <2> QED BY <2>1, <2>2 DEF PageStates
  <1>5. y.copy.revision = 0
    BY <1>1, <1>3
  <1>6. Shown(y)
    <2>1. y.copy.revision <= y.revision /\ y.revision > 0 /\ y.copy.revision # y.revision
      BY <1>3, <1>5
    <2>2. OwnPassword(y.config)
      BY <1>3
    <2>3. y.flash = y.config /\ ~y.unseen
      BY <1>3
    <2> QED BY <2>1, <2>2, <2>3 DEF Shown
  <1>7. Scans(y)
    BY <1>3 DEF Scans
  <1> QED BY <1>2, <1>4, <1>6, <1>7 DEF PageOf

LEMMA RebootsRight ==
  ASSUME PageOf(s), Page!Reboot
  PROVE  PageOf(s')
  <1>1. /\ s.flash \in Configs /\ OwnPassword(s.flash)
        /\ s.exists \in BOOLEAN /\ s.cut \in BOOLEAN /\ s.unseen = FALSE
    BY DEF PageOf, PageStates, Shown
  <1>2. PICK y : y = Page!Booted(s.flash, 1)
    OBVIOUS
  <1>3. PageOf(y)
    BY <1>1, <1>2, PageBegins
  <1>4. PICK exists \in BOOLEAN, cut \in BOOLEAN : s' = [y EXCEPT !.exists = exists, !.cut = cut, !.unseen = FALSE]
    BY <1>1, <1>2 DEF Page!Reboot
  <1> QED BY <1>3, <1>4 DEF PageOf, PageStates, Scans, Shown

LEMMA PageSteps ==
  ASSUME PageOf(s), [Page!Next]_s
  PROVE  PageOf(s')
  <1>1. CASE Page!Poll
    <2>1. PICK polls \in {1, Deadline} :
            \/ \E x \in Page!Served(IF s.attempted THEN Page!Older(s, polls) ELSE s) : s' = Page!ScanPoll(x)
            \/ s' = Page!Closed(s)
      BY <1>1 DEF Page!Poll
    <2>2. PICK y : y = IF s.attempted THEN Page!Older(s, polls) ELSE s
      OBVIOUS
    <2>3. PageOf(y)
      BY <2>2, OlderRight
    <2>4. CASE \E x \in Page!Served(y) : s' = Page!ScanPoll(x)
      BY <2>3, <2>4, ServedRight, ScanPollRight
    <2> QED BY <2>1, <2>2, <2>4, ClosedRight
  <1>2. CASE Page!Scanned
    <2>1. s' = [s EXCEPT !.driver = "done"]
      BY <1>2 DEF Page!Scanned
    <2> QED BY <2>1 DEF PageOf, PageStates, Scans, Shown
  <1>3. CASE Page!Opens
    <2>1. PICK mode \in {"settings", "firmware"} : s.session = "none" /\ s' = [s EXCEPT !.session = mode]
      BY <1>3 DEF Page!Opens
    <2> QED BY <2>1 DEF PageOf, PageStates, Scans, Shown
  <1>4. CASE Page!Reboot
    BY <1>4, RebootsRight
  <1> QED BY <1>1, <1>2, <1>3, <1>4 DEF Page!Next

\* The expression that is shown is one that the filter allows, and what is not marked as unsaved is
\* what a restart brings back, after any loss of power: settings/settings.cpp, eyes/face_filter.h.
\* The radio scans only for the session that ends the scan, and a page replaces only the network that
\* it has shown: network/wifi_scan.h, network/network_web.h.  For any catalog of expressions, any set
\* of networks, any deadline and any number of saves.
THEOREM SettingsCorrect == DeviceSpec => []SettingsRight
  <1> DEFINE Inv == SettingsInv /\ (part = "page" => PageOf(s))
  <1>1. DeviceInit => Inv
    <2> SUFFICES ASSUME DeviceInit PROVE Inv
      OBVIOUS
    <2>1. SettingsInv
      BY PartsBegin, SettingsBegin
    <2>2. ASSUME part = "page" PROVE PageOf(s)
      <3>1. s = Page!Booted(Page!NoNetwork, 1)
        BY <2>2, PartsBegin DEF Page!Init
      <3>2. Page!NoNetwork \in Configs /\ OwnPassword(Page!NoNetwork)
        BY DEF Page!NoNetwork, Configs, OwnPassword
      <3> QED BY <3>1, <3>2, PageBegins
    <2> QED BY <2>1, <2>2
  <1>2. Inv /\ [DeviceNext]_deviceVars => Inv'
    BY PartsAlone, SettingsSteps, PageSteps
  <1>3. Inv => SettingsRight
    BY SettingsHold DEF SettingsRight, PageOf, Scans, Shown, OwnPassword, Page!PageRight, Page!ScansOfSession, Page!NetworkSeen
  <1> QED BY <1>1, <1>2, <1>3, PTL DEF DeviceSpec

-----------------------------------------------------------------------------
(* Touch *)

\* What the gestures are told apart by: whatever a stroke is, it changes none of the rest.
ContactTyped(c) ==
  /\ DOMAIN c = {"active", "x", "y", "age", "moved", "held", "vertical", "horizontal", "tapped", "stroke",
                 "swiping", "swiped", "kinds"}
  /\ c.active \in BOOLEAN /\ c.x \in Int /\ c.y \in Int /\ c.age \in 0 .. 4
  /\ c.moved \in BOOLEAN /\ c.held \in BOOLEAN /\ c.vertical \in BOOLEAN /\ c.horizontal \in BOOLEAN
  /\ c.kinds \in SUBSET {"tap", "vertical", "hold", "swipe"}

\* A contact has one direction or is held, and was taken only for what it still is.
OneWay(c) ==
  /\ c.vertical => c.moved /\ ~c.horizontal /\ ~c.held
  /\ c.horizontal => c.moved /\ ~c.held
  /\ c.held => c.age = 4
  /\ "tap" \notin c.kinds
  /\ "vertical" \in c.kinds => c.vertical
  /\ "hold" \in c.kinds => c.held
  /\ "swipe" \in c.kinds => c.horizontal

TouchInv ==
  /\ ContactTyped(s)
  /\ IF s.active THEN OneWay(s) ELSE \A a, b \in s.kinds : a = b

LEMMA AbsFacts ==
  ASSUME NEW n \in Int
  PROVE  Touch!Abs(n) \in Nat /\ (Touch!Abs(n) = n \/ Touch!Abs(n) = -n)
  BY DEF Touch!Abs

\* Petting goes with no hold and to no side.
LEMMA PettedRight ==
  ASSUME NEW c, ContactTyped(c), OneWay(c)
  PROVE  /\ ContactTyped(Touch!Petted(c)) /\ OneWay(Touch!Petted(c))
         /\ Touch!Petted(c).x = c.x /\ Touch!Petted(c).y = c.y /\ Touch!Petted(c).age = c.age
  <1>1. \/ \E stroke : Touch!Petted(c) = [c EXCEPT !.stroke = stroke]
        \/ /\ ~c.held /\ ~c.horizontal
           /\ \E stroke : Touch!Petted(c) = [c EXCEPT !.moved = TRUE, !.vertical = TRUE, !.tapped = FALSE,
                                                    !.stroke = stroke, !.kinds = c.kinds \cup {"vertical"}]
    <2> DEFINE k == Touch!Travelled(c.stroke, c.y)
               t == [k EXCEPT !.displaced = @ \/ Touch!Abs(c.y) >= 20]
               unfit == c.held \/ c.horizontal \/ Touch!Abs(c.x) >= 64 \/ Touch!Abs(c.y - c.stroke.last) > 80
               pet == ~(k.dir = 0) /\ t.displaced /\ t.travel >= 32 /\ c.age >= 1 /\ ~t.recent
               reset == [c EXCEPT !.stroke = Touch!NoStroke(c.y, c.stroke.recent)]
               petted == [c EXCEPT !.moved = TRUE, !.vertical = TRUE, !.tapped = FALSE,
                                   !.stroke = [t EXCEPT !.recent = TRUE, !.travel = 0],
                                   !.kinds = c.kinds \cup {"vertical"}]
               other == [c EXCEPT !.stroke = IF k.dir = 0 THEN k ELSE t]
    <2>1. Touch!Petted(c) = IF unfit THEN reset ELSE IF pet THEN petted ELSE other
      BY Zenon DEF Touch!Petted
    <2>2. unfit \/ (~c.held /\ ~c.horizontal)
      OBVIOUS
    <2>3. CASE Touch!Petted(c) = reset
      BY <2>3
    <2>4. CASE Touch!Petted(c) = other
      BY <2>4
    <2>5. CASE ~unfit /\ Touch!Petted(c) = petted
      BY <2>2, <2>5
    <2> HIDE DEF unfit, pet, petted, other, reset
    <2>6. Touch!Petted(c) = reset \/ Touch!Petted(c) = other \/ (~unfit /\ Touch!Petted(c) = petted)
      BY <2>1
    <2> QED BY <2>3, <2>4, <2>5, <2>6
  <1>2. CASE \E stroke : Touch!Petted(c) = [c EXCEPT !.stroke = stroke]
    <2>1. PICK stroke : Touch!Petted(c) = [c EXCEPT !.stroke = stroke]
      BY <1>2
    <2> QED BY <2>1 DEF ContactTyped, OneWay
  <1>3. CASE /\ ~c.held /\ ~c.horizontal
             /\ \E stroke : Touch!Petted(c) = [c EXCEPT !.moved = TRUE, !.vertical = TRUE, !.tapped = FALSE,
                                                      !.stroke = stroke, !.kinds = c.kinds \cup {"vertical"}]
    <2>1. PICK stroke : Touch!Petted(c) = [c EXCEPT !.moved = TRUE, !.vertical = TRUE, !.tapped = FALSE,
                                                    !.stroke = stroke, !.kinds = c.kinds \cup {"vertical"}]
      BY <1>3
    <2>2. c.kinds \cup {"vertical"} \in SUBSET {"tap", "vertical", "hold", "swipe"}
      BY DEF ContactTyped
    <2> QED BY <1>3, <2>1, <2>2 DEF ContactTyped, OneWay
  <1> QED BY <1>1, <1>2, <1>3

LEMMA MovedRight ==
  ASSUME NEW c, ContactTyped(c), OneWay(c)
  PROVE  /\ ContactTyped(Touch!Moved(c)) /\ OneWay(Touch!Moved(c))
         /\ Touch!Moved(c).x = c.x /\ Touch!Moved(c).y = c.y /\ Touch!Moved(c).age = c.age
         /\ Touch!Abs(c.x) > 18 \/ Touch!Abs(c.y) > 18 => Touch!Moved(c).moved
  <1>1. PICK moved \in BOOLEAN : moved = (c.moved \/ Touch!Abs(c.x) > 18 \/ Touch!Abs(c.y) > 18)
    BY DEF ContactTyped
  <1>2. PICK tapped \in BOOLEAN : tapped = (c.tapped /\ ~moved)
    BY DEF ContactTyped
  <1>3. Touch!Moved(c) = [c EXCEPT !.moved = moved, !.tapped = tapped]
    BY <1>1, <1>2 DEF Touch!Moved
  <1> QED BY <1>1, <1>3 DEF ContactTyped, OneWay

LEMMA DirectedRight ==
  ASSUME NEW c, ContactTyped(c), OneWay(c), Touch!Abs(c.x) > 18 \/ Touch!Abs(c.y) > 18 => c.moved
  PROVE  /\ ContactTyped(Touch!Directed(c)) /\ OneWay(Touch!Directed(c))
         /\ Touch!Directed(c).x = c.x /\ Touch!Directed(c).y = c.y /\ Touch!Directed(c).age = c.age
         /\ Touch!Directed(c).moved = c.moved
         /\ Touch!Abs(c.x) >= 40 /\ Touch!Abs(c.x) >= Touch!Abs(c.y) * 2
              => Touch!Directed(c).held \/ Touch!Directed(c).vertical \/ Touch!Directed(c).horizontal
  <1>1. PICK x \in Nat, y \in Nat : x = Touch!Abs(c.x) /\ y = Touch!Abs(c.y)
    BY AbsFacts DEF ContactTyped
  <1>2. CASE c.held \/ c.vertical \/ c.horizontal
    BY <1>2 DEF Touch!Directed
  <1>3. CASE ~(c.held \/ c.vertical \/ c.horizontal) /\ y >= 28 /\ y >= x * 2
    <2>1. Touch!Directed(c) = [c EXCEPT !.vertical = TRUE, !.kinds = c.kinds \cup {"vertical"}]
      BY <1>1, <1>3 DEF Touch!Directed
    <2>2. c.kinds \cup {"vertical"} \in SUBSET {"tap", "vertical", "hold", "swipe"}
      BY DEF ContactTyped
    <2> QED BY <1>1, <1>3, <2>1, <2>2 DEF ContactTyped, OneWay
  <1>4. CASE ~(c.held \/ c.vertical \/ c.horizontal) /\ ~(y >= 28 /\ y >= x * 2)
    <2>1. PICK horizontal \in BOOLEAN : horizontal = (x >= 40 /\ x >= y * 2)
      OBVIOUS
    <2>2. Touch!Directed(c) = [c EXCEPT !.horizontal = horizontal]
      BY <1>1, <1>4, <2>1 DEF Touch!Directed
    <2> QED BY <1>1, <1>4, <2>1, <2>2 DEF ContactTyped, OneWay
  <1> QED BY <1>2, <1>3, <1>4

LEMMA HeldRight ==
  ASSUME NEW c, ContactTyped(c), OneWay(c)
  PROVE  /\ ContactTyped(Touch!Held(c)) /\ OneWay(Touch!Held(c))
         /\ Touch!Held(c).x = c.x /\ Touch!Held(c).y = c.y /\ Touch!Held(c).age = c.age
         /\ c.held => Touch!Held(c).held
         /\ Touch!Held(c).vertical = c.vertical /\ Touch!Held(c).horizontal = c.horizontal
  <1>1. CASE ~c.moved /\ ~c.held /\ c.age = 4
    <2>1. Touch!Held(c) = [c EXCEPT !.held = TRUE, !.kinds = c.kinds \cup {"hold"}]
      BY <1>1 DEF Touch!Held
    <2>2. c.kinds \cup {"hold"} \in SUBSET {"tap", "vertical", "hold", "swipe"}
      BY DEF ContactTyped
    <2> QED BY <1>1, <2>1, <2>2 DEF ContactTyped, OneWay
  <1>2. CASE ~(~c.moved /\ ~c.held /\ c.age = 4)
    BY <1>2 DEF Touch!Held
  <1> QED BY <1>1, <1>2

\* A swipe is a movement to a side, which the other tracker has seen as one, and no hold is that young.
LEMMA SwipesRight ==
  ASSUME NEW c, ContactTyped(c), OneWay(c), NEW began \in BOOLEAN,
         began /\ Touch!Abs(c.x) >= 40 /\ Touch!Abs(c.x) >= Touch!Abs(c.y) * 2 => c.held \/ c.vertical \/ c.horizontal
  PROVE  /\ ContactTyped(Touch!Swipes(c, began)) /\ OneWay(Touch!Swipes(c, began))
         /\ Touch!Swipes(c, began).active = c.active
  <1>1. PICK x \in Nat, y \in Nat : x = Touch!Abs(c.x) /\ y = Touch!Abs(c.y)
    BY AbsFacts DEF ContactTyped
  <1>2. \/ Touch!Swipes(c, began) = c
        \/ Touch!Swipes(c, began) = [c EXCEPT !.swiping = FALSE]
        \/ Touch!Swipes(c, began) = [c EXCEPT !.swiping = TRUE, !.swiped = FALSE]
        \/ /\ began /\ ~c.vertical /\ ~(c.age >= 3) /\ ~(x < 40) /\ ~(y * 2 > x)
           /\ Touch!Swipes(c, began) = [c EXCEPT !.swiped = TRUE, !.kinds = c.kinds \cup {"swipe"}]
    BY <1>1 DEF Touch!Swipes
  <1>3. CASE Touch!Swipes(c, began) = c
    BY <1>3
  <1>4. CASE Touch!Swipes(c, began) = [c EXCEPT !.swiping = FALSE]
    BY <1>4 DEF ContactTyped, OneWay
  <1>5. CASE Touch!Swipes(c, began) = [c EXCEPT !.swiping = TRUE, !.swiped = FALSE]
    BY <1>5 DEF ContactTyped, OneWay
  <1>6. CASE /\ began /\ ~c.vertical /\ ~(c.age >= 3) /\ ~(x < 40) /\ ~(y * 2 > x)
             /\ Touch!Swipes(c, began) = [c EXCEPT !.swiped = TRUE, !.kinds = c.kinds \cup {"swipe"}]
    <2>1. c.kinds \cup {"swipe"} \in SUBSET {"tap", "vertical", "hold", "swipe"}
      BY DEF ContactTyped
    <2>2. x >= 40 /\ x >= y * 2
      BY <1>6
    <2>3. c.age # 4
      BY <1>6
    <2>4. c.horizontal
      <3>1. c.held \/ c.vertical \/ c.horizontal
        BY <1>1, <1>6, <2>2
      <3> QED BY <1>6, <2>3, <3>1 DEF OneWay
    <2>5. ContactTyped(Touch!Swipes(c, began)) /\ Touch!Swipes(c, began).active = c.active
      BY <1>6, <2>1 DEF ContactTyped
    <2>6. OneWay(Touch!Swipes(c, began))
      <3>1. PICK d : d = Touch!Swipes(c, began)
        OBVIOUS
      <3>2. /\ d.vertical = c.vertical /\ d.horizontal = c.horizontal /\ d.held = c.held /\ d.moved = c.moved
            /\ d.age = c.age /\ d.kinds = c.kinds \cup {"swipe"}
        BY <1>6, <3>1 DEF ContactTyped
      <3> QED BY <2>4, <3>1, <3>2 DEF OneWay
    <2> QED BY <2>5, <2>6
  <1> QED BY <1>2, <1>3, <1>4, <1>5, <1>6

LEMMA OneWayIsOne ==
  ASSUME NEW c, ContactTyped(c), OneWay(c)
  PROVE  \A a, b \in c.kinds : a = b
  BY DEF ContactTyped, OneWay

\* A finger that comes down begins a contact that is nothing yet.
LEMMA BeginsRight ==
  ASSUME NEW c, ~c.active
  PROVE  LET b == Touch!Actions(c) IN ContactTyped(b) /\ OneWay(b)
  <1> DEFINE stroke == [Touch!NoContact.stroke EXCEPT !.recent = c.stroke.recent]
             b == [Touch!NoContact EXCEPT !.active = TRUE, !.tapped = c.tapped, !.stroke = stroke]
  <1>1. Touch!Actions(c) = b
    BY Zenon DEF Touch!Actions
  <1> HIDE DEF stroke
  <1>2. ContactTyped(b) /\ OneWay(b)
    BY DEF ContactTyped, OneWay, Touch!NoContact
  <1> HIDE DEF b
  <1> QED BY <1>1, <1>2

LEMMA StaysRight ==
  ASSUME NEW c, ContactTyped(c), OneWay(c), c.active
  PROVE  LET a == Touch!Actions(c)
         IN /\ ContactTyped(a) /\ OneWay(a)
            /\ Touch!Abs(a.x) >= 40 /\ Touch!Abs(a.x) >= Touch!Abs(a.y) * 2 => a.held \/ a.vertical \/ a.horizontal
  <1>1. PICK p : p = Touch!Petted(c)
    OBVIOUS
  <1>2. ContactTyped(p) /\ OneWay(p)
    BY <1>1, PettedRight
  <1>3. PICK m : m = Touch!Moved(p)
    OBVIOUS
  <1>4. ContactTyped(m) /\ OneWay(m) /\ (Touch!Abs(m.x) > 18 \/ Touch!Abs(m.y) > 18 => m.moved)
    BY <1>2, <1>3, MovedRight
  <1>5. PICK d : d = Touch!Directed(m)
    OBVIOUS
  <1>6. /\ ContactTyped(d) /\ OneWay(d)
        /\ Touch!Abs(d.x) >= 40 /\ Touch!Abs(d.x) >= Touch!Abs(d.y) * 2 => d.held \/ d.vertical \/ d.horizontal
    BY <1>4, <1>5, DirectedRight
  <1>7. PICK h : h = Touch!Held(d)
    OBVIOUS
  <1>8. /\ ContactTyped(h) /\ OneWay(h)
        /\ Touch!Abs(h.x) >= 40 /\ Touch!Abs(h.x) >= Touch!Abs(h.y) * 2 => h.held \/ h.vertical \/ h.horizontal
    BY <1>6, <1>7, HeldRight
  <1>9. Touch!Actions(c) = h
    BY <1>1, <1>3, <1>5, <1>7 DEF Touch!Actions
  <1> QED BY <1>8, <1>9

LEMMA TouchesRight ==
  ASSUME TouchInv, Touch!Touches
  PROVE  TouchInv'
  <1>1. PICK x \in Int, y \in Int : s' = Touch!Swipes(Touch!Actions([s EXCEPT !.x = x, !.y = y]), s.active)
    BY TouchAssumption DEF Touch!Touches
  <1>2. PICK c : c = [s EXCEPT !.x = x, !.y = y]
    OBVIOUS
  <1>3. PICK a : a = Touch!Actions(c)
    OBVIOUS
  <1>4. s.active \in BOOLEAN /\ c.active = s.active
    BY <1>2 DEF TouchInv, ContactTyped
  <1>5. CASE ~s.active
    <2>1. ContactTyped(a) /\ OneWay(a)
      BY <1>3, <1>4, <1>5, BeginsRight
    <2>2. ContactTyped(Touch!Swipes(a, s.active)) /\ OneWay(Touch!Swipes(a, s.active))
      BY <2>1, <1>4, <1>5, SwipesRight
    <2>3. ContactTyped(s') /\ OneWay(s')
      BY <1>1, <1>2, <1>3, <2>2
    <2> QED BY <2>3, OneWayIsOne DEF TouchInv, ContactTyped, OneWay
  <1>6. CASE s.active
    <2>1. ContactTyped(c) /\ OneWay(c)
      BY <1>1, <1>2, <1>6 DEF TouchInv, ContactTyped, OneWay
    <2>2. /\ ContactTyped(a) /\ OneWay(a)
          /\ Touch!Abs(a.x) >= 40 /\ Touch!Abs(a.x) >= Touch!Abs(a.y) * 2 => a.held \/ a.vertical \/ a.horizontal
      BY <1>3, <1>4, <1>6, <2>1, StaysRight
    <2>3. ContactTyped(Touch!Swipes(a, s.active)) /\ OneWay(Touch!Swipes(a, s.active))
      BY <2>2, <1>4, SwipesRight
    <2>4. ContactTyped(s') /\ OneWay(s')
      BY <1>1, <1>2, <1>3, <2>3
    <2> QED BY <2>4, OneWayIsOne DEF TouchInv, ContactTyped, OneWay
  <1> QED BY <1>4, <1>5, <1>6

\* What stayed in its place was neither moved nor held, and so was nothing before.
LEMMA LiftsRight ==
  ASSUME TouchInv, Touch!Lifts
  PROVE  TouchInv'
  <1>1. ContactTyped(s) /\ OneWay(s) /\ s.active
    BY DEF TouchInv, Touch!Lifts, ContactTyped
  <1>2. \E tapped :
          \/ /\ ~s.moved /\ ~s.held
             /\ s' = [s EXCEPT !.active = FALSE, !.swiping = FALSE, !.tapped = tapped, !.kinds = s.kinds \cup {"tap"}]
          \/ s' = [s EXCEPT !.active = FALSE, !.swiping = FALSE, !.tapped = tapped, !.kinds = s.kinds]
    <2> DEFINE tap == ~s.moved /\ ~s.held /\ s.age <= 1
    <2>1. PICK near \in BOOLEAN :
            s' = [s EXCEPT !.active = FALSE, !.swiping = FALSE, !.tapped = IF tap THEN ~(@ /\ near) ELSE @,
                           !.kinds = IF tap THEN @ \cup {"tap"} ELSE @]
      BY Zenon DEF Touch!Lifts
    <2>2. CASE tap
      <3>1. s' = [s EXCEPT !.active = FALSE, !.swiping = FALSE, !.tapped = ~(@ /\ near), !.kinds = s.kinds \cup {"tap"}]
        BY <2>1, <2>2
      <3> QED BY <2>2, <3>1
    <2>3. CASE ~tap
      <3>1. s' = [s EXCEPT !.active = FALSE, !.swiping = FALSE, !.tapped = @, !.kinds = s.kinds]
        BY <2>1, <2>3
      <3> QED BY <3>1
    <2> QED BY <2>2, <2>3
  <1>3. PICK tapped :
          \/ /\ ~s.moved /\ ~s.held
             /\ s' = [s EXCEPT !.active = FALSE, !.swiping = FALSE, !.tapped = tapped, !.kinds = s.kinds \cup {"tap"}]
          \/ s' = [s EXCEPT !.active = FALSE, !.swiping = FALSE, !.tapped = tapped, !.kinds = s.kinds]
    BY <1>2
  <1>4. CASE /\ ~s.moved /\ ~s.held
             /\ s' = [s EXCEPT !.active = FALSE, !.swiping = FALSE, !.tapped = tapped, !.kinds = s.kinds \cup {"tap"}]
    <2>1. s.kinds = {}
      BY <1>1, <1>4 DEF ContactTyped, OneWay
    <2>2. s'.kinds = {"tap"} /\ s'.active = FALSE
      BY <1>1, <1>4, <2>1 DEF ContactTyped
    <2>3. ContactTyped(s')
      BY <1>1, <1>4, <2>2 DEF ContactTyped
    <2> QED BY <2>2, <2>3 DEF TouchInv, ContactTyped
  <1>5. CASE s' = [s EXCEPT !.active = FALSE, !.swiping = FALSE, !.tapped = tapped, !.kinds = s.kinds]
    <2>1. ContactTyped(s') /\ s'.active = FALSE /\ s'.kinds = s.kinds
      BY <1>1, <1>5 DEF ContactTyped
    <2> QED BY <1>1, <2>1, OneWayIsOne DEF TouchInv, ContactTyped
  <1> QED BY <1>3, <1>4, <1>5

LEMMA InvalidRight ==
  ASSUME TouchInv, Touch!Invalid
  PROVE  TouchInv'
  <1>1. \A a, b \in s.kinds : a = b
    BY OneWayIsOne DEF TouchInv, ContactTyped
  <1>2. s' = [Touch!NoContact EXCEPT !.kinds = s.kinds]
    BY DEF Touch!Invalid
  <1>3. ContactTyped(s') /\ s'.active = FALSE /\ s'.kinds = s.kinds
    BY <1>2 DEF TouchInv, ContactTyped, Touch!NoContact
  <1> QED BY <1>1, <1>3 DEF TouchInv, ContactTyped

LEMMA TimeRight ==
  ASSUME TouchInv, Touch!Time
  PROVE  TouchInv'
  <1>1. CASE s.active /\ s.age < 4 /\ s' = [s EXCEPT !.age = @ + 1]
    <2>1. s.age + 1 \in 0 .. 4 /\ s.age # 4
      BY <1>1 DEF TouchInv, ContactTyped
    <2>2. /\ ContactTyped(s') /\ s'.active = s.active /\ s'.kinds = s.kinds /\ s'.held = s.held /\ s'.moved = s.moved
          /\ s'.vertical = s.vertical /\ s'.horizontal = s.horizontal
      BY <1>1, <2>1 DEF TouchInv, ContactTyped
    <2>3. OneWay(s) /\ ~s.held
      BY <1>1, <2>1 DEF TouchInv, OneWay
    <2> QED BY <1>1, <2>2, <2>3 DEF TouchInv, OneWay
  <1>2. CASE s' = [s EXCEPT !.tapped = FALSE]
    BY <1>2 DEF TouchInv, ContactTyped, OneWay
  <1>3. CASE s' = [s EXCEPT !.stroke = [s.stroke EXCEPT !.recent = FALSE]]
    BY <1>3 DEF TouchInv, ContactTyped, OneWay
  <1> QED BY <1>1, <1>2, <1>3 DEF Touch!Time

LEMMA TouchBegins == Touch!Init => TouchInv
  BY DEF Touch!Init, TouchInv, ContactTyped, Touch!NoContact

LEMMA TouchSteps ==
  ASSUME TouchInv, [Touch!Next]_s
  PROVE  TouchInv'
  <1>1. CASE UNCHANGED s
    BY <1>1 DEF TouchInv, ContactTyped, OneWay
  <1> QED BY <1>1, TouchesRight, LiftsRight, InvalidRight, TimeRight DEF Touch!Next

-----------------------------------------------------------------------------
(* Buttons *)

KeyTyped(x) ==
  /\ DOMAIN x = {"key", "raw", "stable", "armed", "changed", "pressed", "answer", "press", "run", "up", "length",
                 "clear", "away", "fresh"}
  /\ x.key \in {"power", "boot"}
  /\ x.raw \in BOOLEAN /\ x.stable \in BOOLEAN /\ x.armed \in BOOLEAN /\ x.answer \in BOOLEAN
  /\ x.changed \in 0 .. Debounce /\ x.run \in 0 .. Debounce /\ x.up \in -1 .. Debounce
  /\ x.pressed \in 0 .. Hold /\ x.length \in 0 .. Hold /\ x.press \in -1 .. Hold
  /\ x.clear \in BOOLEAN /\ x.away \in BOOLEAN /\ x.fresh \in BOOLEAN

\* The level that is debounced and the history of the press are of the same readings.
LevelInv(x) ==
  /\ x.raw => x.up = -1 /\ x.press >= 0 /\ x.run = x.changed /\ (x.press >= x.run \/ x.press >= Hold)
  /\ ~x.raw /\ x.press >= 0 => x.up = x.changed
  /\ x.stable => x.press >= 0
  /\ ~(x.stable <=> x.raw) => x.changed < Debounce

\* Only a press that began after the start finds the key armed, and on the BOOT key only a clear one.
ArmedInv(x) ==
  /\ ~x.stable => x.fresh \/ (~x.raw /\ (x.press < 0 \/ x.up >= Debounce))
  /\ x.armed /\ x.stable => x.fresh
  /\ x.key = "boot" /\ x.armed => x.stable /\ x.clear

\* The hold is measured from the moment at which the level had lasted: the press is that much longer.
LengthInv(x) ==
  x.key = "power" /\ x.armed /\ x.stable /\ ~x.away =>
    /\ x.press >= Hold \/ x.press >= x.pressed + Debounce
    /\ ~x.raw => x.length >= Hold \/ x.length >= x.pressed - x.up + Debounce

ButtonsInv == KeyTyped(s) /\ LevelInv(s) /\ ArmedInv(s) /\ LengthInv(s) /\ Buttons!ButtonsRight

LEMMA OlderFacts ==
  ASSUME NEW limit \in Nat, NEW age \in Int, age >= -1, age <= limit, NEW polls \in Nat, polls > 0
  PROVE  /\ Buttons!Older(age, polls, limit) \in 0 .. limit
         /\ Buttons!Older(age, polls, limit) = age + polls \/ Buttons!Older(age, polls, limit) = limit
         /\ Buttons!Older(age, polls, limit) >= age
         /\ Buttons!Older(age, polls, limit) = limit <=> age + polls >= limit
  BY DEF Buttons!Older

\* What the classes do with a reading.
Lasted(polls, down) == IF down <=> s.raw THEN Buttons!Older(s.changed, polls, Debounce) ELSE 0
Settles(polls, down) == Lasted(polls, down) >= Debounce /\ ~(down <=> s.stable)

LevelRead(x, polls, down) ==
  /\ x.key = s.key /\ (x.raw <=> down) /\ x.changed = Lasted(polls, down)
  /\ Settles(polls, down) => (x.stable <=> down)
  /\ ~Settles(polls, down) => (x.stable <=> s.stable)
  /\ x.press = s.press /\ x.run = s.run /\ x.up = s.up /\ x.length = s.length
  /\ (x.clear <=> s.clear) /\ (x.away <=> s.away) /\ (x.fresh <=> s.fresh)

PowerRead(x, polls, down) ==
  LET held == Buttons!Older(s.pressed, polls, Hold) IN
  /\ x.pressed = IF Settles(polls, down) /\ down THEN 0 ELSE held
  /\ x.armed <=> s.armed \/ (Settles(polls, down) /\ ~down)
  /\ x.answer <=> Settles(polls, down) /\ ~down /\ s.armed /\ held >= Hold

BootRead(x, polls, down, blocked) ==
  /\ Settles(polls, down) => (x.armed <=> ~blocked /\ down)
  /\ ~Settles(polls, down) => (x.armed <=> ~blocked /\ s.armed)
  /\ x.answer <=> Settles(polls, down) /\ ~down /\ s.armed /\ ~blocked

LEMMA SampledFacts ==
  ASSUME KeyTyped(s), NEW polls \in Nat, polls > 0, NEW down \in BOOLEAN
  PROVE  LET x == Buttons!Sampled(polls, down) IN
         /\ KeyTyped(x) /\ x.changed = Lasted(polls, down) /\ x.raw = down /\ x.answer = FALSE
         /\ x.pressed = Buttons!Older(s.pressed, polls, Hold)
         /\ x = [s EXCEPT !.raw = down, !.changed = x.changed, !.pressed = x.pressed, !.answer = FALSE]
         /\ Buttons!Settled(x) <=> Settles(polls, down)
  <1> DEFINE x == Buttons!Sampled(polls, down)
  <1>1. Debounce \in Nat /\ Hold \in Nat /\ Debounce > 0 /\ Hold > 0
    BY ButtonsAssumption
  <1>2. s.changed \in 0 .. Debounce /\ s.pressed \in 0 .. Hold /\ s.raw \in BOOLEAN /\ s.stable \in BOOLEAN
    BY DEF KeyTyped
  <1>3. Lasted(polls, down) \in 0 .. Debounce
    BY <1>1, <1>2, OlderFacts DEF Lasted
  <1>4. Buttons!Older(s.pressed, polls, Hold) \in 0 .. Hold
    BY <1>1, <1>2, OlderFacts
  <1>5. x = [s EXCEPT !.raw = down, !.changed = Lasted(polls, down),
                      !.pressed = Buttons!Older(s.pressed, polls, Hold), !.answer = FALSE]
    <2>1. (IF down # s.raw THEN 0 ELSE Buttons!Older(s.changed, polls, Debounce)) = Lasted(polls, down)
      BY <1>2 DEF Lasted
    <2>2. x = [s EXCEPT !.raw = down,
                        !.changed = IF down # s.raw THEN 0 ELSE Buttons!Older(s.changed, polls, Debounce),
                        !.pressed = Buttons!Older(s.pressed, polls, Hold), !.answer = FALSE]
      BY Zenon DEF Buttons!Sampled
    <2> QED BY <2>1, <2>2, Zenon
  <1> HIDE DEF x
  <1>6. KeyTyped(x) /\ x.changed = Lasted(polls, down) /\ x.raw = down /\ x.answer = FALSE
        /\ x.pressed = Buttons!Older(s.pressed, polls, Hold) /\ x.stable = s.stable
    BY <1>3, <1>4, <1>5 DEF KeyTyped
  <1>7. Buttons!Settled(x) <=> Settles(polls, down)
    <2>1. down # s.stable <=> ~(down <=> s.stable)
      BY <1>2
    <2>2. x.raw # x.stable <=> down # s.stable
      BY <1>6
    <2> QED BY <1>6, <2>1, <2>2 DEF Buttons!Settled, Settles
  <1>8. x = [s EXCEPT !.raw = down, !.changed = x.changed, !.pressed = x.pressed, !.answer = FALSE]
    BY <1>5, <1>6
  <1> QED BY <1>6, <1>7, <1>8 DEF x

LEMMA PowerFacts ==
  ASSUME KeyTyped(s), NEW polls \in Nat, polls > 0, NEW down \in BOOLEAN
  PROVE  LET x == Buttons!PowerKey(polls, down) IN KeyTyped(x) /\ LevelRead(x, polls, down) /\ PowerRead(x, polls, down)
  <1> DEFINE x == Buttons!PowerKey(polls, down)
             held == Buttons!Older(s.pressed, polls, Hold)
  <1>1. PICK y :
          /\ KeyTyped(y)
          /\ y = Buttons!Sampled(polls, down)
          /\ y.changed = Lasted(polls, down) /\ y.raw = down /\ y.answer = FALSE /\ y.pressed = held
          /\ y = [s EXCEPT !.raw = down, !.changed = y.changed, !.pressed = y.pressed, !.answer = FALSE]
          /\ Buttons!Settled(y) <=> Settles(polls, down)
    BY SampledFacts
  <1>2. x = IF ~Buttons!Settled(y) THEN y
            ELSE IF y.raw THEN [y EXCEPT !.stable = TRUE, !.pressed = 0]
            ELSE [y EXCEPT !.stable = FALSE, !.armed = TRUE, !.answer = y.armed /\ y.pressed >= Hold]
    BY <1>1 DEF Buttons!PowerKey
  <1>3. /\ y.key = s.key /\ y.stable = s.stable /\ y.armed = s.armed
        /\ y.press = s.press /\ y.run = s.run /\ y.up = s.up /\ y.length = s.length
        /\ y.clear = s.clear /\ y.away = s.away /\ y.fresh = s.fresh
    BY <1>1 DEF KeyTyped
  <1> HIDE DEF x, held
  <1>4. Hold \in Nat /\ 0 \in 0 .. Hold
    BY ButtonsAssumption
  <1>5. CASE ~Settles(polls, down)
    <2>1. x = y
      BY <1>1, <1>2, <1>5
    <2> QED BY <1>1, <1>3, <1>5, <2>1 DEF LevelRead, PowerRead, KeyTyped, x, held
  <1>6. CASE Settles(polls, down) /\ down
    <2>1. x = [y EXCEPT !.stable = TRUE, !.pressed = 0]
      BY <1>1, <1>2, <1>6
    <2>3. /\ DOMAIN x = DOMAIN y /\ x.key = y.key /\ x.raw = y.raw /\ x.changed = y.changed /\ x.stable = TRUE /\ x.pressed = 0
          /\ x.armed = y.armed /\ x.answer = y.answer /\ x.press = y.press /\ x.run = y.run /\ x.up = y.up
          /\ x.length = y.length /\ x.clear = y.clear /\ x.away = y.away /\ x.fresh = y.fresh
      BY <2>1 DEF KeyTyped
    <2>2. KeyTyped(x)
      BY <1>1, <1>4, <2>3 DEF KeyTyped
    <2>4. LevelRead(x, polls, down)
      BY <1>1, <1>3, <1>6, <2>3 DEF LevelRead
    <2>5. PowerRead(x, polls, down)
      <3>1. x.armed = s.armed /\ x.answer = FALSE /\ x.pressed = 0 /\ s.armed \in BOOLEAN
        BY <1>1, <1>3, <2>3 DEF KeyTyped
      <3> QED BY <1>6, <3>1 DEF PowerRead
    <2> QED BY <2>2, <2>4, <2>5 DEF x
  <1>7. CASE Settles(polls, down) /\ ~down
    <2>1. PICK answer \in BOOLEAN : answer = (y.armed /\ y.pressed >= Hold)
      OBVIOUS
    <2>2. x = [y EXCEPT !.stable = FALSE, !.armed = TRUE, !.answer = answer]
      BY <1>1, <1>2, <1>7, <2>1
    <2>4. /\ DOMAIN x = DOMAIN y /\ x.key = y.key /\ x.raw = y.raw /\ x.changed = y.changed /\ x.stable = FALSE /\ x.pressed = y.pressed
          /\ x.armed = TRUE /\ x.answer = answer /\ x.press = y.press /\ x.run = y.run /\ x.up = y.up
          /\ x.length = y.length /\ x.clear = y.clear /\ x.away = y.away /\ x.fresh = y.fresh
      BY <2>2 DEF KeyTyped
    <2>3. KeyTyped(x)
      BY <1>1, <2>4 DEF KeyTyped
    <2>5. LevelRead(x, polls, down)
      BY <1>1, <1>3, <1>7, <2>4 DEF LevelRead
    <2>6. PowerRead(x, polls, down)
      BY <1>1, <1>3, <1>7, <2>1, <2>4 DEF PowerRead, held
    <2> QED BY <2>3, <2>5, <2>6 DEF x
  <1> QED BY <1>5, <1>6, <1>7

LEMMA BootFacts ==
  ASSUME KeyTyped(s), NEW polls \in Nat, polls > 0, NEW down \in BOOLEAN, NEW blocked \in BOOLEAN
  PROVE  LET x == Buttons!BootKey(polls, down, blocked)
         IN KeyTyped(x) /\ LevelRead(x, polls, down) /\ BootRead(x, polls, down, blocked)
  <1> DEFINE x == Buttons!BootKey(polls, down, blocked)
  <1>1. PICK z :
          /\ KeyTyped(z)
          /\ z = Buttons!Sampled(polls, down)
          /\ z.changed = Lasted(polls, down) /\ z.raw = down /\ z.answer = FALSE
          /\ z = [s EXCEPT !.raw = down, !.changed = z.changed, !.pressed = z.pressed, !.answer = FALSE]
          /\ Buttons!Settled(z) <=> Settles(polls, down)
    BY SampledFacts
  <1>2. PICK y : y = [z EXCEPT !.armed = @ /\ ~blocked]
    OBVIOUS
  <1>3. KeyTyped(y) /\ y.changed = z.changed /\ y.raw = down /\ y.answer = FALSE /\ y.stable = z.stable
        /\ y.armed = (z.armed /\ ~blocked)
    <2>1. PICK armed \in BOOLEAN : armed = (z.armed /\ ~blocked)
      OBVIOUS
    <2>2. y = [z EXCEPT !.armed = armed]
      BY <1>2, <2>1
    <2> QED BY <1>1, <2>1, <2>2 DEF KeyTyped
  <1>4. Buttons!Settled(y) <=> Settles(polls, down)
    BY <1>1, <1>3 DEF Buttons!Settled
  <1>5. x = IF ~Buttons!Settled(y) THEN y
            ELSE IF y.raw THEN [y EXCEPT !.stable = TRUE, !.armed = ~blocked]
            ELSE [y EXCEPT !.stable = FALSE, !.armed = FALSE, !.answer = y.armed]
    BY <1>1, <1>2 DEF Buttons!BootKey
  <1>6. /\ y.key = s.key /\ y.stable = s.stable /\ y.armed = (s.armed /\ ~blocked)
        /\ y.press = s.press /\ y.run = s.run /\ y.up = s.up /\ y.length = s.length
        /\ y.clear = s.clear /\ y.away = s.away /\ y.fresh = s.fresh
    <2>1. /\ z.key = s.key /\ z.stable = s.stable /\ z.armed = s.armed
          /\ z.press = s.press /\ z.run = s.run /\ z.up = s.up /\ z.length = s.length
          /\ z.clear = s.clear /\ z.away = s.away /\ z.fresh = s.fresh
      BY <1>1 DEF KeyTyped
    <2>2. /\ y.key = z.key /\ y.press = z.press /\ y.run = z.run /\ y.up = z.up /\ y.length = z.length
          /\ y.clear = z.clear /\ y.away = z.away /\ y.fresh = z.fresh
      BY <1>2 DEF KeyTyped
    <2> QED BY <1>3, <2>1, <2>2
  <1> HIDE DEF x
  <1>7. CASE ~Settles(polls, down)
    <2>1. x = y
      BY <1>4, <1>5, <1>7
    <2>2. LevelRead(x, polls, down)
      BY <1>1, <1>3, <1>6, <1>7, <2>1 DEF LevelRead
    <2>3. BootRead(x, polls, down, blocked)
      BY <1>1, <1>3, <1>6, <1>7, <2>1 DEF BootRead
    <2> QED BY <1>3, <2>1, <2>2, <2>3 DEF x
  <1>8. CASE Settles(polls, down) /\ down
    <2>1. PICK armed \in BOOLEAN : armed = ~blocked
      OBVIOUS
    <2>2. x = [y EXCEPT !.stable = TRUE, !.armed = armed]
      BY <1>3, <1>4, <1>5, <1>8, <2>1
    <2>3. KeyTyped(x)
      BY <1>3, <2>2 DEF KeyTyped
    <2>4. /\ x.key = y.key /\ x.raw = y.raw /\ x.changed = y.changed /\ x.stable = TRUE
          /\ x.armed = armed /\ x.answer = y.answer /\ x.press = y.press /\ x.run = y.run /\ x.up = y.up
          /\ x.length = y.length /\ x.clear = y.clear /\ x.away = y.away /\ x.fresh = y.fresh
      BY <1>3, <2>2 DEF KeyTyped
    <2>5. LevelRead(x, polls, down)
      BY <1>1, <1>3, <1>6, <1>8, <2>4 DEF LevelRead
    <2>6. BootRead(x, polls, down, blocked)
      BY <1>3, <1>8, <2>1, <2>4 DEF BootRead
    <2> QED BY <2>3, <2>5, <2>6 DEF x
  <1>9. CASE Settles(polls, down) /\ ~down
    <2>1. x = [y EXCEPT !.stable = FALSE, !.armed = FALSE, !.answer = y.armed]
      BY <1>3, <1>4, <1>5, <1>9
    <2>2. KeyTyped(x)
      BY <1>3, <2>1 DEF KeyTyped
    <2>3. /\ x.key = y.key /\ x.raw = y.raw /\ x.changed = y.changed /\ x.stable = FALSE
          /\ x.armed = FALSE /\ x.answer = y.armed /\ x.press = y.press /\ x.run = y.run /\ x.up = y.up
          /\ x.length = y.length /\ x.clear = y.clear /\ x.away = y.away /\ x.fresh = y.fresh
      BY <1>3, <2>1 DEF KeyTyped
    <2>4. LevelRead(x, polls, down)
      BY <1>1, <1>3, <1>6, <1>9, <2>3 DEF LevelRead
    <2>5. BootRead(x, polls, down, blocked)
      BY <1>3, <1>6, <1>9, <2>3 DEF BootRead
    <2> QED BY <2>2, <2>4, <2>5 DEF x
  <1> QED BY <1>7, <1>8, <1>9

\* What the history notes of the same reading.
Begins == s.press < 0 \/ s.up >= Debounce

Noted(x, polls, down, blocked) ==
  /\ s'.key = x.key /\ (s'.raw <=> x.raw) /\ (s'.stable <=> x.stable) /\ (s'.armed <=> x.armed)
  /\ s'.changed = x.changed /\ s'.pressed = x.pressed /\ (s'.answer <=> x.answer)
  /\ down /\ Begins =>
       s'.press = 0 /\ s'.run = 0 /\ s'.up = -1 /\ (s'.clear <=> ~blocked) /\ s'.fresh /\ s'.length = 0
  /\ down /\ ~Begins =>
       /\ s'.press = Buttons!Older(s.press, polls, Hold) /\ s'.up = -1
       /\ s'.run = IF s.up < 0 THEN Buttons!Older(s.run, polls, Debounce) ELSE 0
       /\ s'.clear <=> ~blocked /\ (s.clear \/ s.run < Debounce)
       /\ (s'.away <=> s.away \/ polls > 1) /\ (s'.fresh <=> s.fresh)
  /\ ~down /\ s.press < 0 =>
       /\ s'.press = s.press /\ s'.up = s.up /\ s'.length = s.length
       /\ (s'.clear <=> s.clear) /\ (s'.away <=> s.away) /\ (s'.fresh <=> s.fresh)
  /\ ~down /\ s.press >= 0 =>
       /\ s'.press = Buttons!Older(s.press, polls, Hold) /\ (s'.clear <=> s.clear /\ ~blocked)
       /\ (s'.away <=> s.away \/ polls > 1) /\ (s'.fresh <=> s.fresh)
       /\ s'.up = IF s.up < 0 THEN 0 ELSE Buttons!Older(s.up, polls, Debounce)
       /\ s'.length = IF s.up < 0 THEN Buttons!Older(s.press, polls, Hold) ELSE s.length

LEMMA NotedFacts ==
  ASSUME KeyTyped(s), NEW polls \in Nat, polls > 0, NEW down \in BOOLEAN, NEW blocked \in BOOLEAN,
         NEW x, KeyTyped(x), LevelRead(x, polls, down), s' = Buttons!Noted(x, polls, down, blocked)
  PROVE  KeyTyped(s') /\ Noted(x, polls, down, blocked)
  <1>1. Debounce \in Nat /\ Hold \in Nat /\ Debounce > 0 /\ Hold > 0
    BY ButtonsAssumption
  <1>2. /\ s.press \in -1 .. Hold /\ s.run \in 0 .. Debounce /\ s.up \in -1 .. Debounce /\ s.length \in 0 .. Hold
        /\ s.clear \in BOOLEAN /\ s.away \in BOOLEAN
    BY DEF KeyTyped
  <1>3. /\ Buttons!Older(s.press, polls, Hold) \in 0 .. Hold
        /\ Buttons!Older(s.run, polls, Debounce) \in 0 .. Debounce
        /\ Buttons!Older(s.up, polls, Debounce) \in 0 .. Debounce
    <2>1. Buttons!Older(s.press, polls, Hold) \in 0 .. Hold
      BY <1>1, <1>2 DEF Buttons!Older
    <2>2. Buttons!Older(s.run, polls, Debounce) \in 0 .. Debounce
      BY <1>1, <1>2 DEF Buttons!Older
    <2>3. Buttons!Older(s.up, polls, Debounce) \in 0 .. Debounce
      BY <1>1, <1>2 DEF Buttons!Older
    <2> QED BY <2>1, <2>2, <2>3
  <1>4. /\ x.press = s.press /\ x.run = s.run /\ x.up = s.up /\ x.length = s.length
        /\ (x.clear <=> s.clear) /\ (x.away <=> s.away) /\ (x.fresh <=> s.fresh)
        /\ x.clear = s.clear /\ x.away = s.away
    BY DEF LevelRead, KeyTyped
  <1>5. CASE down /\ Begins
    <2>1. PICK clear \in BOOLEAN, away \in BOOLEAN : clear = (~blocked) /\ away = (polls > 1)
      <3>1. (~blocked) \in BOOLEAN /\ (polls > 1) \in BOOLEAN
        OBVIOUS
      <3> QED BY <3>1
    <2>2. s' = [x EXCEPT !.press = 0, !.run = 0, !.up = -1, !.length = 0, !.clear = clear, !.away = away, !.fresh = TRUE]
      BY <1>5, <2>1 DEF Buttons!Noted, Buttons!Pressed, Begins
    <2>3. KeyTyped(s')
      BY <1>1, <2>2 DEF KeyTyped
    <2>4. /\ s'.key = x.key /\ s'.raw = x.raw /\ s'.stable = x.stable /\ s'.armed = x.armed /\ s'.changed = x.changed
          /\ s'.pressed = x.pressed /\ s'.answer = x.answer
          /\ s'.press = 0 /\ s'.run = 0 /\ s'.up = -1 /\ s'.clear = clear /\ s'.fresh = TRUE /\ s'.length = 0
      BY <2>2 DEF KeyTyped
    <2> QED BY <1>5, <2>1, <2>3, <2>4 DEF Noted
  <1>6. CASE down /\ ~Begins
    <2>1. PICK run \in 0 .. Debounce : run = IF s.up < 0 THEN Buttons!Older(s.run, polls, Debounce) ELSE 0
      BY <1>1, <1>3
    <2>2. PICK clear \in BOOLEAN, away \in BOOLEAN :
            clear = (~blocked /\ (s.clear \/ s.run < Debounce)) /\ away = (s.away \/ polls > 1)
      OBVIOUS
    <2>3. PICK press \in 0 .. Hold : press = Buttons!Older(s.press, polls, Hold)
      BY <1>3
    <2>4. s' = [x EXCEPT !.press = press, !.run = run, !.up = -1, !.clear = clear, !.away = away]
      BY <1>4, <1>6, <2>1, <2>2, <2>3 DEF Buttons!Noted, Buttons!Pressed, Begins
    <2>5. KeyTyped(s')
      BY <1>1, <2>4 DEF KeyTyped
    <2>6. /\ s'.key = x.key /\ s'.raw = x.raw /\ s'.stable = x.stable /\ s'.armed = x.armed /\ s'.changed = x.changed
          /\ s'.pressed = x.pressed /\ s'.answer = x.answer
          /\ s'.press = press /\ s'.run = run /\ s'.up = -1 /\ s'.clear = clear /\ s'.away = away /\ s'.fresh = x.fresh
      BY <2>4 DEF KeyTyped
    <2> QED BY <1>4, <1>6, <2>1, <2>2, <2>3, <2>5, <2>6 DEF Noted
  <1>7. CASE ~down /\ s.press < 0
    <2>1. s' = x
      BY <1>7 DEF Buttons!Noted, Buttons!LetGo
    <2>2. s.press < 0 /\ ~(s.press >= 0)
      BY <1>2, <1>7
    <2> QED BY <1>4, <1>7, <2>1, <2>2 DEF Noted
  <1>8. CASE ~down /\ s.press >= 0
    <2>1. PICK up \in 0 .. Debounce : up = IF s.up < 0 THEN 0 ELSE Buttons!Older(s.up, polls, Debounce)
      BY <1>1, <1>3
    <2>2. PICK length \in 0 .. Hold : length = IF s.up < 0 THEN Buttons!Older(s.press, polls, Hold) ELSE s.length
      BY <1>2, <1>3
    <2>3. PICK clear \in BOOLEAN, away \in BOOLEAN : clear = (s.clear /\ ~blocked) /\ away = (s.away \/ polls > 1)
      OBVIOUS
    <2>4. PICK press \in 0 .. Hold : press = Buttons!Older(s.press, polls, Hold)
      BY <1>3
    <2>5. s' = [x EXCEPT !.press = press, !.clear = clear, !.away = away, !.up = up, !.length = length]
      BY <1>2, <1>4, <1>8, <2>1, <2>2, <2>3, <2>4 DEF Buttons!Noted, Buttons!LetGo
    <2>6. KeyTyped(s')
      BY <1>1, <2>5 DEF KeyTyped
    <2>7. /\ s'.key = x.key /\ s'.raw = x.raw /\ s'.stable = x.stable /\ s'.armed = x.armed /\ s'.changed = x.changed
          /\ s'.pressed = x.pressed /\ s'.answer = x.answer
          /\ s'.press = press /\ s'.clear = clear /\ s'.away = away /\ s'.up = up /\ s'.length = length
          /\ s'.fresh = x.fresh
      BY <2>5 DEF KeyTyped
    <2>8. ~(s.press < 0)
      BY <1>2, <1>8
    <2> QED BY <1>4, <1>8, <2>1, <2>2, <2>3, <2>4, <2>6, <2>7, <2>8 DEF Noted
  <1> QED BY <1>2, <1>5, <1>6, <1>7, <1>8

\* A poll, as far as the invariant tells its readings apart.
PollFacts(polls, down, blocked) ==
  \E x :
    /\ KeyTyped(x)
    /\ LevelRead(x, polls, down) /\ Noted(x, polls, down, blocked)
    /\ s.key = "power" => PowerRead(x, polls, down)
    /\ s.key = "boot" => BootRead(x, polls, down, blocked)

LEMMA PollIs ==
  ASSUME KeyTyped(s), NEW polls \in Nat, polls > 0, NEW down \in BOOLEAN, NEW blocked \in BOOLEAN,
         Buttons!Poll(polls, down, blocked)
  PROVE  KeyTyped(s') /\ PollFacts(polls, down, blocked)
  <1>1. s.key \in {"power", "boot"}
    BY DEF KeyTyped
  <1>2. CASE s.key = "power"
    <2>1. PICK x : x = Buttons!PowerKey(polls, down)
      OBVIOUS
    <2>2. KeyTyped(x) /\ LevelRead(x, polls, down) /\ PowerRead(x, polls, down)
      BY <2>1, PowerFacts
    <2>3. s' = Buttons!Noted(x, polls, down, blocked)
      BY <1>2, <2>1 DEF Buttons!Poll
    <2>4. KeyTyped(s') /\ Noted(x, polls, down, blocked)
      BY <2>2, <2>3, NotedFacts
    <2> QED BY <1>2, <2>2, <2>4 DEF PollFacts
  <1>3. CASE s.key = "boot"
    <2>1. PICK x : x = Buttons!BootKey(polls, down, blocked)
      OBVIOUS
    <2>2. KeyTyped(x) /\ LevelRead(x, polls, down) /\ BootRead(x, polls, down, blocked)
      BY <2>1, BootFacts
    <2>3. s' = Buttons!Noted(x, polls, down, blocked)
      BY <1>3, <2>1 DEF Buttons!Poll
    <2>4. KeyTyped(s') /\ Noted(x, polls, down, blocked)
      BY <2>2, <2>3, NotedFacts
    <2> QED BY <1>3, <2>2, <2>4 DEF PollFacts
  <1> QED BY <1>1, <1>2, <1>3

LEMMA ReadingRight ==
  ASSUME ButtonsInv, NEW polls \in Nat, polls > 0, NEW down \in BOOLEAN, NEW blocked \in BOOLEAN,
         Buttons!Poll(polls, down, blocked)
  PROVE  ButtonsInv'
  <1>1. Debounce \in Nat /\ Hold \in Nat /\ Debounce > 0 /\ Hold > 0
    BY ButtonsAssumption
  <1>2. KeyTyped(s) /\ LevelInv(s) /\ ArmedInv(s) /\ LengthInv(s)
    BY DEF ButtonsInv
  <1>3. KeyTyped(s') /\ PollFacts(polls, down, blocked)
    BY <1>2, PollIs
  <1>4. PICK x :
          /\ KeyTyped(x)
          /\ LevelRead(x, polls, down) /\ Noted(x, polls, down, blocked)
          /\ s.key = "power" => PowerRead(x, polls, down)
          /\ s.key = "boot" => BootRead(x, polls, down, blocked)
    BY <1>3 DEF PollFacts
  <1>5. /\ s.press \in -1 .. Hold /\ s.run \in 0 .. Debounce /\ s.up \in -1 .. Debounce /\ s.length \in 0 .. Hold
        /\ s.changed \in 0 .. Debounce /\ s.pressed \in 0 .. Hold
        /\ s.clear \in BOOLEAN /\ s.away \in BOOLEAN /\ s.fresh \in BOOLEAN /\ s.raw \in BOOLEAN
        /\ s.stable \in BOOLEAN /\ s.armed \in BOOLEAN
    BY <1>2 DEF KeyTyped
  <1> DEFINE press == Buttons!Older(s.press, polls, Hold)
             run == Buttons!Older(s.run, polls, Debounce)
             up == Buttons!Older(s.up, polls, Debounce)
             changed == Buttons!Older(s.changed, polls, Debounce)
             pressed == Buttons!Older(s.pressed, polls, Hold)
  <1>6. /\ press \in 0 .. Hold /\ (press = s.press + polls \/ press = Hold) /\ press >= s.press
        /\ run \in 0 .. Debounce /\ run <= s.run + polls
        /\ up \in 0 .. Debounce /\ (up = s.up + polls \/ up = Debounce) /\ up >= s.up
        /\ changed \in 0 .. Debounce /\ (changed = s.changed + polls \/ changed = Debounce) /\ changed >= s.changed
        /\ pressed \in 0 .. Hold /\ (pressed = s.pressed + polls \/ pressed = Hold) /\ pressed >= s.pressed
    BY <1>1, <1>5 DEF Buttons!Older
  <1>7. /\ s'.key = s.key /\ (s'.raw <=> down)
        /\ (down <=> s.raw) => s'.changed = changed
        /\ ~(down <=> s.raw) => s'.changed = 0
        /\ s'.changed >= Debounce => (s'.stable <=> down)
        /\ ~(s'.changed >= Debounce) => (s'.stable <=> s.stable)
    BY <1>4, <1>5 DEF LevelRead, Noted, Lasted, Settles
  <1> HIDE DEF press, run, up, changed, pressed
  <1>8. LevelInv(s')
    <2>1. CASE down /\ Begins
      <3>1. s'.press = 0 /\ s'.run = 0 /\ s'.up = -1
        BY <1>4, <2>1 DEF Noted
      <3>2. s'.changed = 0
        BY <1>1, <1>2, <1>5, <1>7, <2>1 DEF LevelInv, Begins
      <3> QED BY <1>1, <1>5, <1>7, <2>1, <3>1, <3>2 DEF LevelInv
    <2>2. CASE down /\ ~Begins
      <3>1. s'.press = press /\ s'.up = -1 /\ s'.run = IF s.up < 0 THEN run ELSE 0
        BY <1>4, <2>2 DEF Noted, press, run
      <3>2. s.press >= 0
        BY <1>5, <2>2 DEF Begins
      <3>3. CASE s.raw
        <4>1. s.up = -1 /\ s.run = s.changed /\ (s.press >= s.run \/ s.press >= Hold)
          BY <1>2, <3>3 DEF LevelInv
        <4>2. run = changed
          BY <4>1 DEF run, changed
        <4>3. s'.run = s'.changed /\ s'.press >= 0 /\ (s'.press >= s'.run \/ s'.press >= Hold)
          BY <1>1, <1>5, <1>6, <1>7, <2>2, <3>1, <3>2, <3>3, <4>1, <4>2
        <4> QED BY <1>1, <1>5, <1>6, <1>7, <2>2, <3>1, <3>3, <4>3 DEF LevelInv
      <3>4. CASE ~s.raw
        <4>1. s.up = s.changed
          BY <1>2, <3>2, <3>4 DEF LevelInv
        <4> QED BY <1>1, <1>5, <1>6, <1>7, <2>2, <3>1, <3>4, <4>1 DEF LevelInv
      <3> QED BY <1>5, <3>3, <3>4
    <2>3. CASE ~down /\ s.press < 0
      <3>1. s'.press = s.press
        BY <1>4, <2>3 DEF Noted
      <3>2. ~s.raw /\ ~s.stable
        BY <1>2, <1>5, <2>3 DEF LevelInv
      <3> QED BY <1>1, <1>5, <1>7, <2>3, <3>1, <3>2 DEF LevelInv
    <2>4. CASE ~down /\ s.press >= 0
      <3>1. s'.press = press /\ s'.up = IF s.up < 0 THEN 0 ELSE up
        BY <1>4, <2>4 DEF Noted, press, up
      <3>2. CASE s.raw
        <4>1. s.up = -1
          BY <1>2, <3>2 DEF LevelInv
        <4> QED BY <1>1, <1>5, <1>6, <1>7, <2>4, <3>1, <3>2, <4>1 DEF LevelInv
      <3>3. CASE ~s.raw
        <4>1. s.up = s.changed
          BY <1>2, <2>4, <3>3 DEF LevelInv
        <4>2. up = changed
          BY <4>1 DEF up, changed
        <4> QED BY <1>1, <1>2, <1>5, <1>6, <1>7, <2>4, <3>1, <3>3, <4>1, <4>2 DEF LevelInv
      <3> QED BY <1>5, <3>2, <3>3
    <2> QED BY <1>5, <2>1, <2>2, <2>3, <2>4
  <1>9. ArmedInv(s')
    <2>1. s.key = "power" => (s'.armed <=> s.armed \/ (Settles(polls, down) /\ ~down))
      BY <1>4 DEF PowerRead, Noted
    <2>2. s.key = "boot" =>
            /\ Settles(polls, down) => (s'.armed <=> ~blocked /\ down)
            /\ ~Settles(polls, down) => (s'.armed <=> ~blocked /\ s.armed)
      BY <1>4 DEF BootRead, Noted
    <2>3. Settles(polls, down) <=> s'.changed >= Debounce /\ ~(down <=> s.stable)
      BY <1>7 DEF Settles, Lasted, changed
    <2>4. ~s'.stable => s'.fresh \/ (~s'.raw /\ (s'.press < 0 \/ s'.up >= Debounce))
      <3>1. CASE down
        <4>1. Begins => s'.fresh
          BY <1>4, <3>1 DEF Noted
        <4>2. ~Begins => (s'.fresh <=> s.fresh)
          BY <1>4, <3>1 DEF Noted
        <4>3. ASSUME ~s'.stable, ~Begins PROVE s.fresh
          <5>1. ~s.stable
            BY <1>5, <1>7, <3>1, <4>3
          <5> QED BY <1>1, <1>2, <1>5, <4>3, <5>1 DEF ArmedInv, Begins
        <4> QED BY <4>1, <4>2, <4>3
      <3>2. CASE ~down
        <4>1. SUFFICES ASSUME ~s'.stable, s'.press >= 0, ~s'.fresh PROVE s'.up >= Debounce
          BY <1>3, <1>7, <3>2 DEF KeyTyped
        <4>2. s.press >= 0 /\ (s'.fresh <=> s.fresh)
          BY <1>4, <1>5, <3>2, <4>1 DEF Noted
        <4>3. s'.up = s'.changed
          BY <1>7, <1>8, <3>2, <4>1 DEF LevelInv
        <4>4. CASE s.stable
          BY <1>3, <1>7, <3>2, <4>1, <4>3, <4>4
        <4>5. CASE ~s.stable
          <5>1. ~s.raw /\ s.up >= Debounce
            BY <1>2, <1>5, <4>1, <4>2, <4>5 DEF ArmedInv
          <5>2. s.up = s.changed
            BY <1>2, <4>2, <5>1 DEF LevelInv
          <5> QED BY <1>1, <1>5, <1>6, <1>7, <3>2, <4>3, <5>1, <5>2
        <4> QED BY <1>5, <4>4, <4>5
      <3> QED BY <3>1, <3>2
    <2>5. s'.armed /\ s'.stable => s'.fresh
      <3>1. SUFFICES ASSUME s'.armed, s'.stable PROVE s'.fresh
        OBVIOUS
      <3>2. s.fresh => s'.fresh
        BY <1>4, <1>5 DEF Noted, Begins
      <3>3. CASE s.stable
        <4>1. ~Settles(polls, down)
          BY <1>5, <1>7, <2>3, <3>1, <3>3
        <4>2. s.armed
          BY <1>2, <2>1, <2>2, <3>1, <4>1 DEF KeyTyped
        <4> QED BY <1>2, <3>2, <3>3, <4>2 DEF ArmedInv
      <3>4. CASE ~s.stable
        <4>1. down /\ s'.changed >= Debounce
          BY <1>5, <1>7, <3>1, <3>4
        <4>2. s.raw
          BY <1>1, <1>5, <1>7, <4>1
        <4> QED BY <1>2, <3>2, <3>4, <4>2 DEF ArmedInv
      <3> QED BY <1>5, <3>3, <3>4
    <2>6. s'.key = "boot" /\ s'.armed => s'.stable /\ s'.clear
      <3>1. SUFFICES ASSUME s.key = "boot", s'.armed PROVE s'.stable /\ s'.clear
        BY <1>7
      <3>2. ~blocked /\ (Settles(polls, down) => down) /\ (~Settles(polls, down) => s.armed)
        BY <2>2, <3>1
      <3>3. CASE Settles(polls, down)
        <4>1. down /\ ~s.stable /\ s'.changed >= Debounce
          BY <1>5, <2>3, <3>2, <3>3
        <4>2. s.raw
          BY <1>1, <1>5, <1>7, <4>1
        <4>3. s.changed < Debounce /\ s.run = s.changed
          BY <1>2, <1>5, <4>1, <4>2 DEF LevelInv
        <4>4. s'.clear
          BY <1>4, <3>2, <4>1, <4>3 DEF Noted
        <4> QED BY <1>7, <4>1, <4>4
      <3>4. CASE ~Settles(polls, down)
        <4>1. s.armed /\ s.stable /\ s.clear
          BY <1>2, <3>1, <3>2, <3>4 DEF ArmedInv
        <4>2. s'.stable
          BY <1>5, <1>7, <2>3, <3>4, <4>1
        <4>3. s'.clear
          BY <1>4, <1>5, <3>2, <4>1 DEF Noted
        <4> QED BY <4>2, <4>3
      <3> QED BY <3>3, <3>4
    <2> QED BY <2>4, <2>5, <2>6 DEF ArmedInv
  <1>10. LengthInv(s')
    <2>1. SUFFICES ASSUME s.key = "power", s'.armed, s'.stable, ~s'.away
                   PROVE  /\ s'.press >= Hold \/ s'.press >= s'.pressed + Debounce
                          /\ ~s'.raw => s'.length >= Hold \/ s'.length >= s'.pressed - s'.up + Debounce
      BY <1>7 DEF LengthInv
    <2>2. Settles(polls, down) <=> s'.changed >= Debounce /\ ~(down <=> s.stable)
      BY <1>7 DEF Settles, Lasted, changed
    <2>3. /\ s'.armed <=> s.armed \/ (Settles(polls, down) /\ ~down)
          /\ s'.pressed = IF Settles(polls, down) /\ down THEN 0 ELSE pressed
      BY <1>4, <2>1 DEF PowerRead, Noted, pressed
    <2>4. CASE ~s.stable
      <3>1. down /\ s'.changed >= Debounce /\ s.raw
        BY <1>1, <1>5, <1>7, <2>1, <2>4
      <3>2. s'.pressed = 0
        BY <1>5, <2>2, <2>3, <2>4, <3>1
      <3>3. s'.raw /\ s'.run = s'.changed /\ (s'.press >= s'.run \/ s'.press >= Hold)
        BY <1>7, <1>8, <3>1 DEF LevelInv
      <3>4. s'.press \in Int /\ s'.run \in Int
        BY <1>3, <1>1 DEF KeyTyped
      <3> QED BY <1>1, <3>1, <3>2, <3>3, <3>4
    <2>5. CASE s.stable
      <3>1. ~(Settles(polls, down) /\ ~down) /\ ~(Settles(polls, down) /\ down)
        BY <1>5, <1>7, <2>1, <2>2, <2>5
      <3>2. s.armed /\ s'.pressed = pressed
        BY <1>5, <2>1, <2>3, <3>1
      <3>3. s.press >= 0 /\ s.up < Debounce /\ ~Begins
        BY <1>1, <1>2, <1>5, <2>5 DEF LevelInv, Begins
      <3>4. s'.press = press /\ ~s.away /\ polls = 1
        BY <1>4, <1>5, <2>1, <3>3 DEF Noted, press
      <3>5. s.press >= Hold \/ s.press >= s.pressed + Debounce
        BY <1>2, <2>1, <2>5, <3>2, <3>4 DEF LengthInv
      <3>6. press >= Hold \/ press >= pressed + Debounce
        <4>1. pressed <= s.pressed + 1
          BY <1>1, <1>5, <3>4, OlderFacts DEF pressed, Buttons!Older
        <4> QED BY <1>1, <1>5, <1>6, <3>4, <3>5, <4>1
      <3>7. ASSUME ~s'.raw PROVE s'.length >= Hold \/ s'.length >= s'.pressed - s'.up + Debounce
        <4>1. /\ s'.up = IF s.up < 0 THEN 0 ELSE up
              /\ s'.length = IF s.up < 0 THEN press ELSE s.length
          BY <1>4, <1>7, <3>3, <3>7 DEF Noted, up, press
        <4>2. CASE s.up < 0
          BY <1>1, <1>6, <3>2, <3>6, <4>1, <4>2
        <4>3. CASE s.up >= 0
          <5>1. ~s.raw
            BY <1>2, <4>3 DEF LevelInv
          <5>2. s.length >= Hold \/ s.length >= s.pressed - s.up + Debounce
            BY <1>2, <2>1, <2>5, <3>2, <3>4, <5>1 DEF LengthInv
          <5>3. pressed <= s.pressed + 1 /\ up = s.up + 1
            BY <1>1, <1>5, <3>3, <3>4 DEF pressed, up, Buttons!Older
          <5> QED BY <1>1, <1>5, <1>6, <3>2, <4>1, <4>3, <5>2, <5>3
        <4> QED BY <1>5, <4>2, <4>3
      <3> QED BY <3>2, <3>4, <3>6, <3>7
    <2> QED BY <1>5, <2>4, <2>5
  <1>11. Buttons!ButtonsRight'
    <2>1. ASSUME s.key \in {"power", "boot"}, Settles(polls, down), ~down, s.armed
          PROVE  /\ s'.fresh /\ s'.up >= Debounce
                 /\ s.stable /\ ~s.raw /\ s.press >= 0 /\ s.changed < Debounce /\ s.up = s.changed
      <3>1. s.stable /\ s'.changed >= Debounce
        BY <1>5, <1>7, <2>1 DEF Settles, Lasted, changed
      <3>2. ~s.raw
        BY <1>1, <1>5, <1>7, <2>1, <3>1
      <3>3. s.press >= 0 /\ s.changed < Debounce /\ s.up = s.changed
        BY <1>2, <3>1, <3>2 DEF LevelInv
      <3>4. s'.press >= 0 /\ (s'.fresh <=> s.fresh)
        BY <1>4, <1>6, <2>1, <3>3 DEF Noted, press
      <3>5. s'.up = s'.changed
        BY <1>7, <1>8, <2>1, <3>4 DEF LevelInv
      <3> QED BY <1>2, <2>1, <3>1, <3>2, <3>3, <3>4, <3>5 DEF ArmedInv
    <2>2. Buttons!OnlyHolds'
      <3>1. SUFFICES ASSUME s.key = "power", s'.answer
                     PROVE  s'.fresh /\ s'.up >= Debounce /\ (s'.length >= Hold \/ s'.away)
        BY <1>7 DEF Buttons!OnlyHolds
      <3>2. Settles(polls, down) /\ ~down /\ s.armed /\ pressed >= Hold
        BY <1>4, <3>1 DEF PowerRead, Noted, pressed
      <3>3. /\ s'.fresh /\ s'.up >= Debounce
            /\ s.stable /\ ~s.raw /\ s.press >= 0 /\ s.changed < Debounce /\ s.up = s.changed
        BY <2>1, <3>1, <3>2
      <3>4. s'.length = s.length /\ (s'.away <=> s.away \/ polls > 1)
        BY <1>4, <1>5, <3>2, <3>3 DEF Noted
      <3>5. ASSUME ~s'.away PROVE s'.length >= Hold
        <4>1. ~s.away /\ polls = 1
          BY <1>5, <3>4, <3>5
        <4>2. s.length >= Hold \/ s.length >= s.pressed - s.up + Debounce
          BY <1>2, <3>1, <3>2, <3>3, <4>1 DEF LengthInv
        <4>3. s.pressed + 1 >= Hold
          BY <1>1, <1>5, <3>2, <4>1 DEF pressed, Buttons!Older
        <4> QED BY <1>1, <1>5, <3>3, <3>4, <4>2, <4>3
      <3> QED BY <3>3, <3>5
    <2>3. Buttons!OnlyClearClicks'
      <3>1. SUFFICES ASSUME s.key = "boot", s'.answer
                     PROVE  s'.fresh /\ s'.up >= Debounce /\ s'.clear
        BY <1>7 DEF Buttons!OnlyClearClicks
      <3>2. Settles(polls, down) /\ ~down /\ s.armed /\ ~blocked
        BY <1>4, <3>1 DEF BootRead, Noted
      <3>3. s'.fresh /\ s'.up >= Debounce /\ s.press >= 0
        BY <2>1, <3>1, <3>2
      <3>4. s.clear
        BY <1>2, <3>1, <3>2 DEF ArmedInv
      <3> QED BY <1>4, <3>2, <3>3, <3>4 DEF Noted
    <2> QED BY <2>2, <2>3 DEF Buttons!ButtonsRight
  <1> QED BY <1>3, <1>8, <1>9, <1>10, <1>11 DEF ButtonsInv

LEMMA ButtonsBegin == Buttons!Init => ButtonsInv
  <1> SUFFICES ASSUME Buttons!Init PROVE ButtonsInv
    OBVIOUS
  <1>1. PICK key \in {"power", "boot"}, down \in BOOLEAN :
          s = [key |-> key, raw |-> down, stable |-> down, armed |-> key = "power" /\ ~down, changed |-> 0, pressed |-> 0,
               answer |-> FALSE, press |-> IF down THEN 0 ELSE -1, run |-> 0, up |-> -1, length |-> 0, clear |-> TRUE,
               away |-> FALSE, fresh |-> FALSE]
    BY DEF Buttons!Init
  <1>2. Debounce \in Nat /\ Hold \in Nat /\ Debounce > 0 /\ Hold > 0
    BY ButtonsAssumption
  <1>3. KeyTyped(s)
    BY <1>1, <1>2 DEF KeyTyped
  <1>4. /\ (s.raw <=> down) /\ (s.stable <=> down) /\ (s.armed <=> key = "power" /\ ~down) /\ ~s.answer /\ s.clear
        /\ s.key = key /\ s.changed = 0 /\ s.run = 0 /\ s.up = -1
        /\ down => s.press = 0
        /\ ~down => s.press = -1
    BY <1>1
  <1>5. LevelInv(s)
    BY <1>2, <1>4 DEF LevelInv
  <1>6. LengthInv(s) /\ ArmedInv(s)
    BY <1>2, <1>4 DEF LengthInv, ArmedInv
  <1>7. Buttons!ButtonsRight
    BY <1>4 DEF Buttons!ButtonsRight, Buttons!OnlyHolds, Buttons!OnlyClearClicks
  <1> QED BY <1>3, <1>5, <1>6, <1>7 DEF ButtonsInv

LEMMA ButtonsSteps ==
  ASSUME ButtonsInv, [Buttons!Next]_s
  PROVE  ButtonsInv'
  <1>1. CASE UNCHANGED s
    BY <1>1 DEF ButtonsInv, LevelInv, ArmedInv, LengthInv, Buttons!ButtonsRight, Buttons!OnlyHolds,
                Buttons!OnlyClearClicks
  <1>2. CASE Buttons!Next
    <2>1. PICK polls \in {1, Away}, down \in BOOLEAN, blocked \in BOOLEAN : Buttons!Poll(polls, down, blocked)
      BY <1>2 DEF Buttons!Next
    <2>2. polls \in Nat /\ polls > 0
      BY ButtonsAssumption
    <2> QED BY <2>1, <2>2, ReadingRight
  <1> QED BY <1>1, <1>2

\* Two trackers look at one contact, and it is taken for one gesture only, however the finger moves and
\* whenever it is lifted (touch.cpp); a press of a key is answered once it has ended, as a hold only
\* if it was one, as a click only if nothing blocked it, and never for the press that started the
\* device (power_button_policy.h, boot_button.h).
THEOREM GesturesCorrect == DeviceSpec => []OneGesture
  <1> DEFINE Inv == (part = "touch" => TouchInv) /\ (part = "buttons" => ButtonsInv)
  <1>1. DeviceInit => Inv
    BY PartsBegin, TouchBegins, ButtonsBegin
  <1>2. Inv /\ [DeviceNext]_deviceVars => Inv'
    <2> SUFFICES ASSUME Inv, [DeviceNext]_deviceVars PROVE Inv'
      OBVIOUS
    <2>1. part' = part /\ (part = "touch" => [Touch!Next]_s) /\ (part = "buttons" => [Buttons!Next]_s)
      BY PartsAlone
    <2>2. ASSUME part = "touch" PROVE TouchInv'
      BY <2>1, <2>2, TouchSteps
    <2>3. ASSUME part = "buttons" PROVE ButtonsInv'
      BY <2>1, <2>3, ButtonsSteps
    <2> QED BY <2>1, <2>2, <2>3
  <1>3. Inv => OneGesture
    BY OneWayIsOne DEF OneGesture, Touch!OneGesture, TouchInv, ButtonsInv, ContactTyped
  <1> QED BY <1>1, <1>2, <1>3, PTL DEF DeviceSpec

-----------------------------------------------------------------------------
(* PowerSupply *)

Readings == {"unknown", "idle", "charging"}

\* A tracker holds what the last two readings were, and believes what came twice.
TrackerRight(t, seen, known) ==
  /\ DOMAIN t = {"candidate", "stable", "samples"}
  /\ t.samples \in 0 .. 2 /\ t.stable \in Readings /\ t.stable = known
  /\ seen \in Readings \X Readings
  /\ t.samples = 0 <=> seen[2] = "unknown"
  /\ t.samples > 0 => t.candidate = seen[2]

ChargerInv ==
  /\ DOMAIN s = {"unit", "charge", "power", "unplugged", "started", "seen", "known", "was"}
  /\ DOMAIN s.seen = {"charge", "power"} /\ DOMAIN s.known = {"charge", "power"}
  /\ TrackerRight(s.charge, s.seen.charge, s.known.charge)
  /\ TrackerRight(s.power, s.seen.power, s.known.power)
  /\ Supply!ChangesToldOnce

\* What is shown is of a reading that was believed.
BatteryInv ==
  /\ DOMAIN s = {"unit", "plausible", "implausible", "percent", "adopted"}
  /\ \/ s.adopted = 0 /\ s.percent = Supply!Unavailable
     \/ s.adopted \in Nat /\ Supply!Plausible(s.adopted) /\ s.percent = Supply!Percent(s.adopted)

SupplyInv == s.unit \in {"charger", "battery"} /\ IF s.unit = "charger" THEN ChargerInv ELSE BatteryInv

LEMMA TrackedRight ==
  ASSUME NEW t, NEW seen, NEW known, TrackerRight(t, seen, known), NEW reading \in Readings
  PROVE  TrackerRight(Supply!Tracked(t, reading), Supply!Noted(seen, reading),
                      Supply!Twice(Supply!Noted(seen, reading), known))
  <1> DEFINE next == Supply!Noted(seen, reading)
  <1>1. next = <<seen[2], reading>> /\ seen[2] \in Readings
    BY DEF Supply!Noted, TrackerRight
  <1>2. next \in Readings \X Readings /\ next[1] = seen[2] /\ next[2] = reading
    BY <1>1
  <1> HIDE DEF next
  <1>3. CASE reading = "unknown"
    <2>1. Supply!Tracked(t, reading) = [t EXCEPT !.samples = 0]
      BY <1>3 DEF Supply!Tracked
    <2>2. Supply!Twice(next, known) = known
      BY <1>2, <1>3 DEF Supply!Twice
    <2> QED BY <1>2, <1>3, <2>1, <2>2 DEF TrackerRight, next
  <1>4. CASE reading # "unknown" /\ (reading # t.candidate \/ t.samples = 0)
    <2>1. Supply!Tracked(t, reading) = [t EXCEPT !.candidate = reading, !.samples = 1]
      <3> DEFINE same == [t EXCEPT !.candidate = reading, !.samples = 1]
      <3>1. same.samples < 2
        BY DEF TrackerRight
      <3>2. same = [t EXCEPT !.candidate = reading,
                             !.samples = IF reading # t.candidate \/ t.samples = 0 THEN 1 ELSE 2]
        BY <1>4
      <3> QED BY <1>4, <3>1, <3>2, Zenon DEF Supply!Tracked
    <2>2. Supply!Twice(next, known) = known
      BY <1>2, <1>4 DEF Supply!Twice, TrackerRight
    <2> QED BY <1>2, <1>4, <2>1, <2>2 DEF TrackerRight, next
  <1>5. CASE reading # "unknown" /\ reading = t.candidate /\ t.samples # 0
    <2>1. Supply!Tracked(t, reading) = [t EXCEPT !.candidate = reading, !.samples = 2, !.stable = reading]
      BY <1>5 DEF Supply!Tracked, TrackerRight
    <2>2. Supply!Twice(next, known) = reading
      BY <1>2, <1>5 DEF Supply!Twice, TrackerRight
    <2> QED BY <1>2, <1>5, <2>1, <2>2 DEF TrackerRight, next
  <1> QED BY <1>3, <1>4, <1>5

LEMMA ChargingPollRight ==
  ASSUME ChargerInv, s.unit = "charger", Supply!ChargingPoll
  PROVE  ChargerInv' /\ s'.unit = "charger"
  <1>1. PICK charge \in Readings, vbus \in Readings, unplugged \in BOOLEAN, started \in BOOLEAN :
          LET charger == Supply!Tracked(s.charge, charge)
              power == Supply!Tracked(s.power, vbus)
              seen == [charge |-> Supply!Noted(s.seen.charge, charge), power |-> Supply!Noted(s.seen.power, vbus)]
          IN /\ unplugged <=> s.power.stable = "charging" /\ power.stable = "idle"
             /\ started <=> charger.stable = "charging" /\ s.charge.stable = "idle"
             /\ s' = [s EXCEPT !.charge = charger, !.power = power, !.seen = seen, !.unplugged = unplugged,
                               !.started = started, !.was = s.known,
                               !.known = [charge |-> Supply!Twice(seen.charge, s.known.charge),
                                          power |-> Supply!Twice(seen.power, s.known.power)]]
    <2>1. PICK charge \in Readings, supply \in {"idle", "charging"} :
            LET vbus == IF charge = "unknown" THEN "unknown" ELSE supply
                charger == Supply!Tracked(s.charge, charge)
                power == Supply!Tracked(s.power, vbus)
                seen == [charge |-> Supply!Noted(s.seen.charge, charge), power |-> Supply!Noted(s.seen.power, vbus)]
            IN s' = [s EXCEPT !.charge = charger, !.power = power, !.seen = seen,
                              !.unplugged = s.power.stable = "charging" /\ power.stable = "idle",
                              !.started = charger.stable = "charging" /\ s.charge.stable = "idle",
                              !.was = s.known,
                              !.known = [charge |-> Supply!Twice(seen.charge, s.known.charge),
                                         power |-> Supply!Twice(seen.power, s.known.power)]]
      BY DEF Supply!ChargingPoll, Readings, ChargerInv
    <2> DEFINE vbus == IF charge = "unknown" THEN "unknown" ELSE supply
    <2>2. vbus \in Readings
      BY DEF Readings
    <2>3. PICK unplugged \in BOOLEAN : unplugged = (s.power.stable = "charging" /\ Supply!Tracked(s.power, vbus).stable = "idle")
      OBVIOUS
    <2>4. PICK started \in BOOLEAN : started = (Supply!Tracked(s.charge, charge).stable = "charging" /\ s.charge.stable = "idle")
      OBVIOUS
    <2> HIDE DEF vbus
    <2> QED BY <2>1, <2>2, <2>3, <2>4, Zenon DEF vbus
  <1> DEFINE charger == Supply!Tracked(s.charge, charge)
             power == Supply!Tracked(s.power, vbus)
             seen1 == Supply!Noted(s.seen.charge, charge)
             seen2 == Supply!Noted(s.seen.power, vbus)
             known1 == Supply!Twice(seen1, s.known.charge)
             known2 == Supply!Twice(seen2, s.known.power)
  <1>2. TrackerRight(charger, seen1, known1) /\ TrackerRight(power, seen2, known2)
    BY TrackedRight DEF ChargerInv
  <1>3. /\ unplugged <=> s.power.stable = "charging" /\ power.stable = "idle"
        /\ started <=> charger.stable = "charging" /\ s.charge.stable = "idle"
        /\ s' = [s EXCEPT !.charge = charger, !.power = power, !.seen = [charge |-> seen1, power |-> seen2],
                          !.unplugged = unplugged, !.started = started, !.was = s.known,
                          !.known = [charge |-> known1, power |-> known2]]
    BY <1>1
  <1> HIDE DEF charger, power, seen1, seen2, known1, known2
  <1>4. /\ DOMAIN s' = DOMAIN s /\ s'.unit = s.unit /\ s'.charge = charger /\ s'.power = power
        /\ s'.seen = [charge |-> seen1, power |-> seen2] /\ (s'.unplugged <=> unplugged) /\ (s'.started <=> started)
        /\ s'.was = s.known /\ s'.known = [charge |-> known1, power |-> known2]
    BY <1>3 DEF ChargerInv
  <1>5. s.known.power = s.power.stable /\ s.known.charge = s.charge.stable /\ known1 = charger.stable
        /\ known2 = power.stable
    BY <1>2 DEF ChargerInv, TrackerRight
  <1>6. Supply!ChangesToldOnce'
    BY <1>3, <1>4, <1>5 DEF Supply!ChangesToldOnce
  <1> QED BY <1>2, <1>4, <1>6 DEF ChargerInv

LEMMA EarlyRight ==
  ASSUME ChargerInv, s.unit = "charger", Supply!Early
  PROVE  ChargerInv' /\ s'.unit = "charger"
  BY DEF ChargerInv, TrackerRight, Supply!Early, Supply!ChangesToldOnce

-----------------------------------------------------------------------------
(* The curve of the battery *)

LEMMA Curved ==
  /\ DOMAIN Supply!Curve = 1 .. 12
  /\ \A i \in 1 .. 12 : Supply!Curve[i][1] \in Nat /\ Supply!Curve[i][2] \in 0 .. 100
  /\ \A i \in 2 .. 12 : Supply!Curve[i - 1][1] < Supply!Curve[i][1] /\ Supply!Curve[i - 1][2] < Supply!Curve[i][2]
  /\ Supply!Curve[1][2] = 0 /\ Supply!Curve[12][2] = 100
  BY DEF Supply!Curve

LEMMA CurveRises ==
  ASSUME NEW i \in 1 .. 12, NEW j \in 1 .. 12, i <= j
  PROVE  Supply!Curve[i][1] <= Supply!Curve[j][1] /\ Supply!Curve[i][2] <= Supply!Curve[j][2]
  BY DEF Supply!Curve

LEMMA ProductOrder ==
  ASSUME NEW x \in Nat, NEW y \in Nat, x <= y, NEW r \in Nat
  PROVE  x * r \in Nat /\ x * r <= y * r
  OBVIOUS

LEMMA DivOrder ==
  ASSUME NEW x \in Nat, NEW y \in Nat, x <= y, NEW r \in Nat, r > 0
  PROVE  x \div r \in Nat /\ x \div r <= y \div r
  OBVIOUS

\* OnCurve two points of the curve.
OnCurve(mv, i) ==
  Supply!Curve[i - 1][2] +
    ((mv - Supply!Curve[i - 1][1]) * (Supply!Curve[i][2] - Supply!Curve[i - 1][2]))
      \div (Supply!Curve[i][1] - Supply!Curve[i - 1][1])

LEMMA OnCurvePoints ==
  ASSUME NEW i \in 2 .. 12, NEW mv \in Nat, Supply!Curve[i - 1][1] < mv, mv <= Supply!Curve[i][1]
  PROVE  /\ OnCurve(mv, i) \in Supply!Curve[i - 1][2] .. Supply!Curve[i][2]
         /\ OnCurve(mv, i) - Supply!Curve[i - 1][2] \in 0 .. 100
         /\ \A n \in Nat : mv <= n /\ n <= Supply!Curve[i][1] => OnCurve(mv, i) <= OnCurve(n, i)
  <1>1. PICK low \in Nat, high \in Nat, from \in 0 .. 100, to \in 0 .. 100 :
          /\ low = Supply!Curve[i - 1][1] /\ high = Supply!Curve[i][1] /\ low < high
          /\ from = Supply!Curve[i - 1][2] /\ to = Supply!Curve[i][2] /\ from < to
    <2>1. i - 1 \in 1 .. 12 /\ i \in 1 .. 12
      OBVIOUS
    <2>2. /\ Supply!Curve[i - 1][1] \in Nat /\ Supply!Curve[i][1] \in Nat
          /\ Supply!Curve[i - 1][2] \in 0 .. 100 /\ Supply!Curve[i][2] \in 0 .. 100
          /\ Supply!Curve[i - 1][1] < Supply!Curve[i][1] /\ Supply!Curve[i - 1][2] < Supply!Curve[i][2]
      BY <2>1, Curved
    <2> QED BY <2>2
  <1> DEFINE share(n) == ((n - low) * (to - from)) \div (high - low)
  <1>2. ASSUME NEW n \in Nat, low <= n, n <= high
        PROVE  (n - low) * (to - from) \in Nat /\ (n - low) * (to - from) <= (high - low) * (to - from)
    <2>0. low < high /\ from < to
      BY <1>1
    <2>1. n - low \in Nat /\ high - low \in Nat /\ n - low <= high - low /\ to - from \in Nat
      BY <1>2, <2>0
    <2> QED BY <2>1, ProductOrder
  <1>3. high - low \in Nat /\ high - low > 0 /\ to - from \in Nat
    BY <1>1
  <1>4. ((high - low) * (to - from)) \div (high - low) = to - from
    BY <1>3
  <1>5. ASSUME NEW n \in Nat, low <= n, n <= high
        PROVE  share(n) \in 0 .. to - from
    BY <1>2, <1>3, <1>4, <1>5, DivOrder
  <1>6. ASSUME NEW n \in Nat, mv <= n, n <= high
        PROVE  share(mv) <= share(n)
    <2>1. (mv - low) * (to - from) <= (n - low) * (to - from)
      <3>0. low \in Nat /\ low < mv
        BY <1>1
      <3>1. mv - low \in Nat /\ n - low \in Nat /\ mv - low <= n - low
        BY <1>6, <3>0
      <3>2. to - from \in Nat
        BY <1>3
      <3> QED BY <3>1, <3>2, ProductOrder
    <2>2. (mv - low) * (to - from) \in Nat /\ (n - low) * (to - from) \in Nat
      BY <1>1, <1>2, <1>6
    <2> QED BY <1>3, <2>1, <2>2, DivOrder
  <1>7. \A n : OnCurve(n, i) = from + share(n)
    BY <1>1 DEF OnCurve
  <1>8. \A n \in Nat : low <= n /\ n <= high => share(n) \in 0 .. to - from
    BY <1>5
  <1>9. \A n \in Nat : mv <= n /\ n <= high => share(mv) <= share(n) /\ share(n) \in 0 .. to - from
    BY <1>1, <1>6, <1>8
  <1> HIDE DEF share
  <1>10. share(mv) \in 0 .. to - from
    BY <1>1, <1>8
  <1>11. OnCurve(mv, i) \in from .. to /\ OnCurve(mv, i) - from \in 0 .. 100
    BY <1>1, <1>7, <1>10
  <1>12. \A n \in Nat : mv <= n /\ n <= high => OnCurve(mv, i) <= OnCurve(n, i)
    BY <1>1, <1>7, <1>9, <1>10
  <1> QED BY <1>1, <1>11, <1>12

LEMMA OnCurveOrdered ==
  ASSUME NEW i \in 2 .. 12, NEW m \in Nat, NEW n \in Nat, Supply!Curve[i - 1][1] < m, m <= n, n <= Supply!Curve[i][1]
  PROVE  OnCurve(m, i) <= OnCurve(n, i)
  <1>1. m <= Supply!Curve[i][1]
    BY Curved
  <1>2. \A k \in Nat : m <= k /\ k <= Supply!Curve[i][1] => OnCurve(m, i) <= OnCurve(k, i)
    BY <1>1, OnCurvePoints, Zenon
  <1> QED BY <1>2

LEMMA NominalOfCurve ==
  ASSUME NEW mv \in Nat
  PROVE  \/ mv <= Supply!Curve[1][1] /\ Supply!Nominal(mv) = 0
         \/ mv > Supply!Curve[12][1] /\ Supply!Nominal(mv) = 100
         \/ \E i \in 2 .. 12 : /\ Supply!Curve[i - 1][1] < mv /\ mv <= Supply!Curve[i][1]
                               /\ Supply!Nominal(mv) = OnCurve(mv, i)
  <1> DEFINE above == {i \in DOMAIN Supply!Curve : mv <= Supply!Curve[i][1]}
             least == CHOOSE j \in above : \A k \in above : j <= k
             low == Supply!Curve[least - 1]
             high == Supply!Curve[least]
             share == ((mv - low[1]) * (high[2] - low[2])) \div (high[1] - low[1])
  <1>1. CASE above = {}
    <2>1. Supply!Nominal(mv) = 100
      BY <1>1, Zenon DEF Supply!Nominal
    <2>2. mv > Supply!Curve[12][1]
      BY <1>1, Curved
    <2> QED BY <2>1, <2>2
  <1>2. CASE 1 \in above
    <2>1. Supply!Nominal(mv) = 0
      BY <1>2, Zenon DEF Supply!Nominal
    <2> QED BY <1>2, <2>1
  <1>3. CASE above # {} /\ 1 \notin above
    <2>1. Supply!Nominal(mv) = low[2] + Supply!Byte(share)
      BY <1>3, Zenon DEF Supply!Nominal
    <2>2. PICK i \in 2 .. 12 : above = i .. 12
      <3>1. \A j, k \in 1 .. 12 : j \in above /\ j <= k => k \in above
        BY CurveRises, Curved
      <3>2. above \subseteq 2 .. 12
        BY <1>3, Curved
      <3>3. \E i \in 2 .. 12 : i \in above /\ i - 1 \notin above
        BY <1>3, <3>1, <3>2
      <3>4. PICK i \in 2 .. 12 : i \in above /\ i - 1 \notin above
        BY <3>3
      <3>5. above = i .. 12
        BY <3>1, <3>2, <3>4
      <3> QED BY <3>5
    <2>3. least = i
      <3>1. i \in above /\ \A k \in above : i <= k
        BY <2>2
      <3>2. least \in above /\ \A k \in above : least <= k
        BY <3>1
      <3> QED BY <2>2, <3>1, <3>2
    <2>4. Supply!Curve[i - 1][1] < mv /\ mv <= Supply!Curve[i][1]
      <3>1. i - 1 \notin above /\ i \in above
        BY <2>2
      <3> QED BY <3>1, Curved
    <2> HIDE DEF above
    <2>5. low[2] + share = OnCurve(mv, i)
      BY <2>3 DEF OnCurve
    <2>6. share \in 0 .. 100
      <3>1. OnCurve(mv, i) - Supply!Curve[i - 1][2] \in 0 .. 100
        BY <2>4, OnCurvePoints
      <3>2. Supply!Curve[i - 1][2] \in 0 .. 100
        <4>1. i - 1 \in 1 .. 12
          OBVIOUS
        <4> QED BY <4>1, Curved
      <3>3. OnCurve(mv, i) = Supply!Curve[i - 1][2] + share
        BY <2>3 DEF OnCurve
      <3>4. share \in Int
        <4>1. i - 1 \in 1 .. 12
          OBVIOUS
        <4>2. /\ Supply!Curve[i - 1][1] \in Nat /\ Supply!Curve[i][1] \in Nat
              /\ Supply!Curve[i - 1][2] \in 0 .. 100 /\ Supply!Curve[i][2] \in 0 .. 100
              /\ Supply!Curve[i - 1][1] < Supply!Curve[i][1]
          BY <4>1, Curved
        <4>3. low = Supply!Curve[i - 1] /\ high = Supply!Curve[i]
          BY <2>3
        <4> HIDE DEF low, high, share
        <4>4. low[1] \in Nat /\ high[1] \in Nat /\ low[2] \in Int /\ high[2] \in Int /\ low[1] < high[1]
          BY <4>2, <4>3
        <4>5. mv - low[1] \in Int /\ high[2] - low[2] \in Int /\ high[1] - low[1] \in Nat /\ high[1] - low[1] > 0
          BY <4>4
        <4>6. (mv - low[1]) * (high[2] - low[2]) \in Int
          BY <4>5
        <4> QED BY <4>5, <4>6 DEF share
      <3> HIDE DEF share
      <3> QED BY <3>1, <3>2, <3>3, <3>4
    <2>7. Supply!Byte(share) = share
      BY <2>6 DEF Supply!Byte
    <2> QED BY <2>1, <2>4, <2>5, <2>7
  <1> QED BY <1>1, <1>2, <1>3

LEMMA NominalOrdered ==
  ASSUME NEW m \in Nat, NEW n \in Nat, m <= n
  PROVE  Supply!Nominal(m) \in 0 .. 100 /\ Supply!Nominal(m) <= Supply!Nominal(n)
  <1>1. ASSUME NEW x \in Nat
        PROVE  Supply!Nominal(x) \in 0 .. 100
    <2>1. CASE \E i \in 2 .. 12 : /\ Supply!Curve[i - 1][1] < x /\ x <= Supply!Curve[i][1]
                                  /\ Supply!Nominal(x) = OnCurve(x, i)
      <3>1. PICK i \in 2 .. 12 : /\ Supply!Curve[i - 1][1] < x /\ x <= Supply!Curve[i][1]
                                 /\ Supply!Nominal(x) = OnCurve(x, i)
        BY <2>1
      <3>2. OnCurve(x, i) \in Supply!Curve[i - 1][2] .. Supply!Curve[i][2]
        BY <1>1, <3>1, OnCurvePoints
      <3>3. i - 1 \in 1 .. 12
        OBVIOUS
      <3>4. Supply!Curve[i - 1][2] \in 0 .. 100 /\ Supply!Curve[i][2] \in 0 .. 100
        BY <3>3, Curved
      <3> QED BY <3>1, <3>2, <3>4
    <2> QED BY <1>1, <2>1, NominalOfCurve
  <1>2. Supply!Nominal(m) \in 0 .. 100 /\ Supply!Nominal(n) \in 0 .. 100
    BY <1>1
  <1>3. CASE \E i \in 2 .. 12 : /\ Supply!Curve[i - 1][1] < m /\ m <= Supply!Curve[i][1]
                                /\ Supply!Nominal(m) = OnCurve(m, i)
    <2>1. PICK i \in 2 .. 12 : /\ Supply!Curve[i - 1][1] < m /\ m <= Supply!Curve[i][1]
                               /\ Supply!Nominal(m) = OnCurve(m, i)
      BY <1>3
    <2>2. CASE \E j \in 2 .. 12 : /\ Supply!Curve[j - 1][1] < n /\ n <= Supply!Curve[j][1]
                                  /\ Supply!Nominal(n) = OnCurve(n, j)
      <3>1. PICK j \in 2 .. 12 : /\ Supply!Curve[j - 1][1] < n /\ n <= Supply!Curve[j][1]
                                 /\ Supply!Nominal(n) = OnCurve(n, j)
        BY <2>2
      <3>2. CASE i = j
        <4>1. n <= Supply!Curve[i][1] /\ Supply!Nominal(n) = OnCurve(n, i)
          BY <3>1, <3>2
        <4>2. OnCurve(m, i) <= OnCurve(n, i)
          BY <2>1, <4>1, OnCurveOrdered
        <4> QED BY <1>2, <2>1, <4>1, <4>2
      <3>3. CASE i < j
        <4>1. Supply!Curve[i][2] <= Supply!Curve[j - 1][2]
          BY <3>3, CurveRises
        <4>2. OnCurve(m, i) \in Supply!Curve[i - 1][2] .. Supply!Curve[i][2]
          BY <2>1, OnCurvePoints
        <4>3. OnCurve(n, j) \in Supply!Curve[j - 1][2] .. Supply!Curve[j][2]
          BY <3>1, OnCurvePoints
        <4>4. j - 1 \in 1 .. 12
          OBVIOUS
        <4>5. Supply!Curve[i][2] \in 0 .. 100 /\ Supply!Curve[j - 1][2] \in 0 .. 100
          BY <4>4, Curved
        <4>6. OnCurve(m, i) \in Int /\ OnCurve(m, i) <= Supply!Curve[i][2]
          BY <4>2
        <4>7. OnCurve(n, j) \in Int /\ Supply!Curve[j - 1][2] <= OnCurve(n, j)
          BY <4>3
        <4>8. OnCurve(m, i) <= OnCurve(n, j)
          <5>1. \A a, b, c, d \in Int : a <= b /\ b <= c /\ c <= d => a <= d
            OBVIOUS
          <5>2. Supply!Curve[i][2] \in Int /\ Supply!Curve[j - 1][2] \in Int
            BY <4>5
          <5> QED BY <4>1, <4>6, <4>7, <5>1, <5>2, Zenon
        <4> QED BY <1>2, <2>1, <3>1, <4>8
      <3>4. CASE j < i
        <4>1. Supply!Curve[j][1] <= Supply!Curve[i - 1][1]
          BY <3>4, CurveRises
        <4> QED BY <2>1, <3>1, <4>1, Curved
      <3> QED BY <3>2, <3>3, <3>4
    <2>3. CASE n <= Supply!Curve[1][1]
      <3>1. Supply!Curve[1][1] <= Supply!Curve[i - 1][1]
        BY CurveRises
      <3> QED BY <2>1, <2>3, <3>1, Curved
    <2>4. CASE Supply!Nominal(n) = 100
      BY <1>2, <2>4
    <2> QED BY <2>2, <2>3, <2>4, NominalOfCurve
  <1>4. CASE Supply!Nominal(m) = 0
    BY <1>2, <1>4
  <1>5. CASE m > Supply!Curve[12][1]
    <2>1. \A i \in 1 .. 12 : Supply!Curve[i][1] <= Supply!Curve[12][1]
      BY CurveRises
    <2>2. \A i \in 1 .. 12 : n > Supply!Curve[i][1]
      BY <1>5, <2>1, Curved
    <2>3. Supply!Nominal(n) = 100
      <3>1. ~(n <= Supply!Curve[1][1])
        BY <2>2, Curved
      <3>2. \A i \in 2 .. 12 : ~(n <= Supply!Curve[i][1])
        BY <2>2, Curved
      <3> QED BY <3>1, <3>2, NominalOfCurve
    <2> QED BY <1>2, <2>3
  <1> QED BY <1>2, <1>3, <1>4, <1>5, NominalOfCurve

\* What the board calls empty and full keeps the order.
LEMMA PercentOrder ==
  ASSUME NEW m \in Nat, NEW n \in Nat, m <= n
  PROVE  Supply!Percent(m) \in 0 .. 100 /\ Supply!Percent(m) <= Supply!Percent(n)
  <1> DEFINE range == Full - Empty
             scaled(x) == (Supply!Nominal(x) - Empty) * 100 + range \div 2
  <1>1. range \in Nat /\ range > 0 /\ range <= 100 /\ range \div 2 \in Nat /\ 2 * (range \div 2) <= range
    BY SupplyAssumption
  <1>2. ASSUME NEW x \in Nat, Supply!Nominal(x) \in 0 .. 100
        PROVE  \/ Supply!Nominal(x) <= Empty /\ Supply!Percent(x) = 0
               \/ Supply!Nominal(x) >= Full /\ Supply!Percent(x) = 100
               \/ /\ Supply!Nominal(x) > Empty /\ Supply!Nominal(x) < Full
                  /\ Supply!Percent(x) = scaled(x) \div range /\ scaled(x) \div range \in 0 .. 100
                  /\ scaled(x) \in Nat
    <2>1. CASE Supply!Nominal(x) <= Empty
      <3>1. ~(Supply!Nominal(x) >= Full)
        BY <1>2, <2>1, SupplyAssumption
      <3>2. Supply!Percent(x) = 0
        BY <2>1, <3>1, Zenon DEF Supply!Percent
      <3> QED BY <2>1, <3>2
    <2>2. CASE Supply!Nominal(x) >= Full
      <3>1. ~(Supply!Nominal(x) <= Empty)
        BY <1>2, <2>2, SupplyAssumption
      <3>2. Supply!Percent(x) = 100
        BY <2>2, <3>1, Zenon DEF Supply!Percent
      <3> QED BY <2>2, <3>2
    <2>3. CASE ~(Supply!Nominal(x) <= Empty) /\ ~(Supply!Nominal(x) >= Full)
      <3>1. Supply!Percent(x) = Supply!Byte(scaled(x) \div range)
        BY <2>3, Zenon DEF Supply!Percent
      <3>2. Supply!Nominal(x) - Empty \in 1 .. range - 1
        BY <1>2, <2>3, SupplyAssumption
      <3>3. scaled(x) \in Nat /\ scaled(x) <= 100 * range
        <4>1. (Supply!Nominal(x) - Empty) * 100 <= 100 * range - 100
          BY <3>2, <1>1
        <4> HIDE DEF range
        <4> QED BY <1>1, <3>2, <4>1
      <3>4. (100 * range) \div range = 100
        BY <1>1
      <3> HIDE DEF range, scaled
      <3>5. scaled(x) \div range \in 0 .. 100
        BY <1>1, <3>3, <3>4, DivOrder
      <3>6. Supply!Byte(scaled(x) \div range) = scaled(x) \div range
        BY <3>5 DEF Supply!Byte
      <3> QED BY <1>2, <2>3, <3>1, <3>3, <3>5, <3>6, SupplyAssumption
    <2> QED BY <2>1, <2>2, <2>3
  <1>3. Supply!Nominal(m) \in 0 .. 100 /\ Supply!Nominal(n) \in 0 .. 100 /\ Supply!Nominal(m) <= Supply!Nominal(n)
    BY NominalOrdered
  <1>4. CASE /\ Supply!Percent(m) = scaled(m) \div range /\ scaled(m) \in Nat
             /\ Supply!Percent(n) = scaled(n) \div range /\ scaled(n) \in Nat
    <2>1. scaled(m) <= scaled(n)
      BY <1>1, <1>3, SupplyAssumption
    <2> HIDE DEF scaled, range
    <2>2. scaled(m) \div range <= scaled(n) \div range
      BY <1>1, <1>4, <2>1, DivOrder
    <2>3. Supply!Percent(m) \in 0 .. 100
      BY <1>2, <1>3
    <2> QED BY <1>4, <2>2, <2>3
  <1> HIDE DEF scaled, range
  <1>5. Supply!Percent(m) \in 0 .. 100 /\ Supply!Percent(n) \in 0 .. 100
    BY <1>2, <1>3
  <1> QED BY <1>2, <1>3, <1>4, <1>5, SupplyAssumption

-----------------------------------------------------------------------------

LEMMA SampleRight ==
  ASSUME BatteryInv, s.unit = "battery", Supply!BatterySample
  PROVE  BatteryInv' /\ s'.unit = "battery"
  <1>1. PICK mv \in Voltages :
          LET plausible == Supply!AtMost(s.plausible + 1, 3)
              implausible == Supply!AtMost(s.implausible + 1, 5)
          IN s' = IF Supply!Plausible(mv)
                  THEN [s EXCEPT !.implausible = 0, !.plausible = plausible,
                                 !.percent = IF plausible >= 3 THEN Supply!Percent(mv) ELSE s.percent,
                                 !.adopted = IF plausible >= 3 THEN mv ELSE s.adopted]
                  ELSE [s EXCEPT !.plausible = 0, !.implausible = implausible,
                                 !.percent = IF implausible >= 5 THEN Supply!Unavailable ELSE s.percent,
                                 !.adopted = IF implausible >= 5 THEN 0 ELSE s.adopted]
    BY DEF Supply!BatterySample, BatteryInv
  <1>2. mv \in Nat
    BY SupplyAssumption
  <1>3. \/ s'.percent = s.percent /\ s'.adopted = s.adopted
        \/ s'.percent = Supply!Unavailable /\ s'.adopted = 0
        \/ s'.percent = Supply!Percent(mv) /\ s'.adopted = mv /\ Supply!Plausible(mv)
    BY <1>1 DEF BatteryInv
  <1>4. s'.unit = s.unit /\ DOMAIN s' = DOMAIN s
    BY <1>1 DEF BatteryInv
  <1> QED BY <1>2, <1>3, <1>4 DEF BatteryInv

LEMMA SupplyBegins == Supply!Init => SupplyInv
  <1> SUFFICES ASSUME Supply!Init PROVE SupplyInv
    OBVIOUS
  <1>1. CASE s = Supply!ChargerInit
    BY <1>1 DEF Supply!ChargerInit, Supply!Fresh, Supply!NoReadings, Supply!NotKnown, SupplyInv, ChargerInv, TrackerRight,
                Supply!ChangesToldOnce, Readings
  <1>2. CASE s = Supply!BatteryInit
    BY <1>2 DEF Supply!BatteryInit, SupplyInv, BatteryInv
  <1> QED BY <1>1, <1>2 DEF Supply!Init

LEMMA SupplySteps ==
  ASSUME SupplyInv, [Supply!Next]_s
  PROVE  SupplyInv'
  <1>1. CASE UNCHANGED s
    BY <1>1 DEF SupplyInv, ChargerInv, BatteryInv, TrackerRight, Supply!ChangesToldOnce
  <1>2. CASE Supply!Charger
    BY <1>2, ChargingPollRight, EarlyRight DEF Supply!Charger, SupplyInv
  <1>3. CASE Supply!Battery
    BY <1>3, SampleRight DEF Supply!Battery, SupplyInv
  <1> QED BY <1>1, <1>2, <1>3 DEF Supply!Next

LEMMA SupplyRight ==
  ASSUME SupplyInv
  PROVE  Supply!PowerBelieved
  <1>1. CASE s.unit = "charger"
    BY <1>1 DEF SupplyInv, ChargerInv, Supply!PowerBelieved
  <1>2. CASE s.unit = "battery"
    <2>1. CASE s.adopted = 0
      BY <1>2, <2>1 DEF SupplyInv, BatteryInv, Supply!Plausible, Supply!PowerBelieved, Supply!PercentOrdered
    <2>2. CASE s.adopted \in Nat /\ Supply!Plausible(s.adopted) /\ s.percent = Supply!Percent(s.adopted)
      <3>1. s.percent \in 0 .. 100 /\ s.adopted # 0
        BY <2>2, PercentOrder DEF Supply!Plausible
      <3>2. ASSUME NEW mv \in Voltages
            PROVE  (mv >= s.adopted => Supply!Percent(mv) >= s.percent) /\ (mv <= s.adopted => Supply!Percent(mv) <= s.percent)
        <4>1. mv \in Nat
          BY SupplyAssumption
        <4>2. Supply!Percent(mv) \in 0 .. 100
          BY <4>1, PercentOrder
        <4>3. mv >= s.adopted => Supply!Percent(s.adopted) <= Supply!Percent(mv)
          BY <2>2, <4>1, PercentOrder
        <4>4. mv <= s.adopted => Supply!Percent(mv) <= Supply!Percent(s.adopted)
          BY <2>2, <4>1, PercentOrder
        <4> QED BY <2>2, <3>1, <4>2, <4>3, <4>4
      <3>3. Supply!PercentOrdered
        BY <3>1, <3>2 DEF Supply!PercentOrdered, Supply!Unavailable
      <3> QED BY <1>2, <3>3 DEF Supply!PowerBelieved
    <2> QED BY <1>2, <2>1, <2>2 DEF SupplyInv, BatteryInv
  <1> QED BY <1>1, <1>2 DEF SupplyInv

-----------------------------------------------------------------------------
(* Backlight *)

LightTyped(x) ==
  /\ DOMAIN x = {"profile", "valid", "hour", "remote", "age", "dim", "brightness", "applied"}
  /\ x.profile \in Backlight!Profiles
  /\ x.valid \in BOOLEAN /\ x.remote \in BOOLEAN /\ x.hour \in 0 .. 23
  /\ x.age \in -1 .. IdleAfter
  /\ x.brightness \in Nat

\* The policy has the level of the settings there are, as the last edge left it.
LevelKept(x) == x.brightness = Backlight!Level(x) /\ (x.dim <=> x.profile.dim)

\* The duty cycle is that of the policy, but for an iteration with a later stamp.
DutyKept(x) == x.age >= 0 => x.applied = Backlight!Output(x)

BacklightInv == LightTyped(s) /\ LevelKept(s) /\ DutyKept(s)

LEMMA LevelIsNumber ==
  ASSUME NEW x, x.profile \in Backlight!Profiles
  PROVE  Backlight!Level(x) \in Nat
  BY BacklightAssumption DEF Backlight!Profiles, Backlight!Level

LEMMA ConfiguredRight ==
  ASSUME NEW x, LightTyped(x), NEW age \in {0, -1}
  PROVE  /\ LightTyped(Backlight!Configured(x, age)) /\ LevelKept(Backlight!Configured(x, age))
         /\ DutyKept(Backlight!Configured(x, age))
  <1> DEFINE y == Backlight!Configured(x, age)
  <1>1. PICK level : level = Backlight!Level(x)
    OBVIOUS
  <1>2. level \in Nat
    BY <1>1, LevelIsNumber DEF LightTyped
  <1>3. y = [x EXCEPT !.brightness = level, !.dim = x.profile.dim, !.age = age, !.applied = level]
    BY <1>1 DEF Backlight!Configured
  <1>4. /\ DOMAIN y = DOMAIN x /\ y.profile = x.profile /\ y.valid = x.valid /\ y.remote = x.remote /\ y.hour = x.hour
        /\ y.age = age /\ y.dim = x.profile.dim /\ y.brightness = level /\ y.applied = level
    BY <1>3 DEF LightTyped
  <1> HIDE DEF y
  <1>5. LightTyped(y)
    BY <1>2, <1>4, BacklightAssumption DEF LightTyped
  <1>6. Backlight!Level(y) = level
    BY <1>1, <1>4 DEF Backlight!Level, Backlight!SettingsNight
  <1>7. y.age >= 0 => y.age < IdleAfter
    BY <1>4, BacklightAssumption
  <1>8. DutyKept(y)
    BY <1>2, <1>4, <1>7, BacklightAssumption DEF DutyKept, Backlight!Output
  <1> QED BY <1>4, <1>5, <1>6, <1>8 DEF LevelKept, y

\* Of an edge or of none: the level goes with the settings.
LEMMA EdgeRight ==
  ASSUME NEW x, LightTyped(x), LevelKept(x), NEW y, LightTyped(y),
         y.profile = x.profile, y.age = x.age, y.dim = x.dim, y.brightness = x.brightness, y.applied = x.applied
  PROVE  /\ LightTyped(Backlight!Edge(x, y)) /\ LevelKept(Backlight!Edge(x, y))
         /\ DutyKept(x) => DutyKept(Backlight!Edge(x, y))
  <1>1. CASE Backlight!SettingsNight(x) = Backlight!SettingsNight(y)
    <2>1. Backlight!Edge(x, y) = y
      BY <1>1 DEF Backlight!Edge
    <2>2. Backlight!Level(y) = Backlight!Level(x)
      BY <1>1 DEF Backlight!Level
    <2>3. Backlight!Output(y) = Backlight!Output(x)
      BY DEF Backlight!Output
    <2> QED BY <2>1, <2>2, <2>3 DEF LevelKept, DutyKept
  <1>2. CASE Backlight!SettingsNight(x) # Backlight!SettingsNight(y)
    <2>1. Backlight!Edge(x, y) = Backlight!Configured(y, 0)
      BY <1>2 DEF Backlight!Edge
    <2> QED BY <2>1, ConfiguredRight
  <1> QED BY <1>1, <1>2

LEMMA ClockRight ==
  ASSUME NEW x, LightTyped(x), LevelKept(x), NEW y \in Backlight!Clock(x)
  PROVE  LightTyped(y) /\ LevelKept(y) /\ (DutyKept(x) => DutyKept(y))
  <1>1. PICK z : /\ y = Backlight!Edge(x, z)
                 /\ \/ \E hour \in Hours : z = [x EXCEPT !.valid = TRUE, !.hour = hour]
                    \/ z = [x EXCEPT !.valid = FALSE]
    BY DEF Backlight!Clock
  <1>2. LightTyped(z) /\ z.profile = x.profile /\ z.age = x.age /\ z.dim = x.dim /\ z.brightness = x.brightness
        /\ z.applied = x.applied
    BY <1>1, BacklightAssumption DEF LightTyped
  <1> QED BY <1>1, <1>2, EdgeRight

LEMMA RemoteRight ==
  ASSUME NEW x, LightTyped(x), LevelKept(x), NEW y \in Backlight!Remote(x)
  PROVE  LightTyped(y) /\ LevelKept(y)
  <1>1. PICK active \in BOOLEAN : y = Backlight!Edge(x, [x EXCEPT !.remote = active])
    BY DEF Backlight!Remote
  <1> DEFINE z == [x EXCEPT !.remote = active]
  <1>2. LightTyped(z) /\ z.profile = x.profile /\ z.age = x.age /\ z.dim = x.dim /\ z.brightness = x.brightness
        /\ z.applied = x.applied
    BY DEF LightTyped
  <1> QED BY <1>1, <1>2, EdgeRight

LEMMA EditsRight ==
  ASSUME NEW x, LightTyped(x), LevelKept(x), NEW ages \in SUBSET {0, -1}, NEW y \in Backlight!Edits(x, ages)
  PROVE  LightTyped(y) /\ LevelKept(y) /\ (DutyKept(x) => DutyKept(y))
  <1>1. CASE y = x
    BY <1>1
  <1>2. CASE \E q \in Backlight!Profiles, age \in ages : y = Backlight!Configured([x EXCEPT !.profile = q], age)
    <2>1. PICK q \in Backlight!Profiles, age \in ages : y = Backlight!Configured([x EXCEPT !.profile = q], age)
      BY <1>2
    <2>2. LightTyped([x EXCEPT !.profile = q])
      BY DEF LightTyped
    <2> QED BY <2>1, <2>2, ConfiguredRight
  <1>3. Backlight!Others[x.profile] \subseteq Backlight!Profiles
    BY DEF LightTyped, Backlight!Others
  <1> QED BY <1>1, <1>2, <1>3 DEF Backlight!Edits

LEMMA OlderLight ==
  ASSUME NEW x, LightTyped(x), LevelKept(x), NEW iterations \in {1, IdleAfter}
  PROVE  LightTyped(Backlight!Older(x, iterations)) /\ LevelKept(Backlight!Older(x, iterations))
         /\ Backlight!Older(x, iterations).age >= 0
  <1>1. PICK age : age = (IF x.age + iterations > IdleAfter THEN IdleAfter ELSE x.age + iterations)
    OBVIOUS
  <1>2. age \in 0 .. IdleAfter
    BY <1>1, BacklightAssumption DEF LightTyped
  <1>3. Backlight!Older(x, iterations) = [x EXCEPT !.age = age]
    BY <1>1 DEF Backlight!Older, LightTyped
  <1> QED BY <1>2, <1>3 DEF LightTyped, LevelKept, Backlight!Level, Backlight!SettingsNight

LEMMA UpdatedRight ==
  ASSUME NEW x, LightTyped(x), LevelKept(x), NEW active \in BOOLEAN
  PROVE  LightTyped(Backlight!Updated(x, active)) /\ LevelKept(Backlight!Updated(x, active))
         /\ DutyKept(Backlight!Updated(x, active))
  <1>1. PICK age : age = (IF active THEN 0 ELSE x.age)
    OBVIOUS
  <1> DEFINE y == [x EXCEPT !.age = age]
             z == [y EXCEPT !.applied = Backlight!Output(y)]
  <1>2. Backlight!Updated(x, active) = z
    BY <1>1 DEF Backlight!Updated, LightTyped
  <1>3. LightTyped(y) /\ LevelKept(y)
    BY <1>1, BacklightAssumption DEF LightTyped, LevelKept, Backlight!Level, Backlight!SettingsNight
  <1>4. LightTyped(z) /\ LevelKept(z) /\ z.applied = Backlight!Output(y)
    BY <1>3 DEF LightTyped, LevelKept, Backlight!Level, Backlight!SettingsNight
  <1>5. Backlight!Output(z) = Backlight!Output(y)
    BY <1>3 DEF Backlight!Output, LightTyped
  <1> QED BY <1>2, <1>4, <1>5 DEF DutyKept

LEMMA BacklightBegins == Backlight!Init => BacklightInv
  <1> SUFFICES ASSUME Backlight!Init PROVE BacklightInv
    OBVIOUS
  <1>1. PICK p, level :
          /\ p \in Backlight!Profiles
          /\ level = IF p.night THEN p.night_brightness ELSE p.brightness
          /\ s = [profile |-> p, valid |-> FALSE, hour |-> 0, remote |-> FALSE, age |-> 0, dim |-> p.dim,
                  brightness |-> level, applied |-> level]
    BY DEF Backlight!Init
  <1>2. Backlight!Level(s) = level
    BY <1>1 DEF Backlight!Level, Backlight!SettingsNight, Backlight!NightActive
  <1>3. level \in Nat
    BY <1>1, BacklightAssumption DEF Backlight!Profiles
  <1> QED BY <1>1, <1>2, <1>3, BacklightAssumption DEF BacklightInv, LightTyped, LevelKept, DutyKept, Backlight!Output

LEMMA BacklightSteps ==
  ASSUME BacklightInv, [Backlight!Next]_s
  PROVE  BacklightInv'
  <1>1. CASE UNCHANGED s
    BY <1>1 DEF BacklightInv, LightTyped, LevelKept, DutyKept, Backlight!Level, Backlight!SettingsNight, Backlight!Output
  <1>2. CASE Backlight!Loop
    <2>0. PICK iterations \in {1, IdleAfter}, active \in BOOLEAN :
            \E x \in Backlight!Clock(Backlight!Older(s, iterations)) : \E y \in Backlight!Remote(x) :
              \E z \in Backlight!Edits(y, {0, -1}) : s' = Backlight!Updated(z, active)
      BY <1>2 DEF Backlight!Loop
    <2>1. PICK x \in Backlight!Clock(Backlight!Older(s, iterations)) :
            \E y \in Backlight!Remote(x) : \E z \in Backlight!Edits(y, {0, -1}) : s' = Backlight!Updated(z, active)
      BY <2>0
    <2>2. LightTyped(x) /\ LevelKept(x)
      BY <2>1, OlderLight, ClockRight DEF BacklightInv
    <2>3. PICK y \in Backlight!Remote(x) : \E z \in Backlight!Edits(y, {0, -1}) : s' = Backlight!Updated(z, active)
      BY <2>1
    <2>4. LightTyped(y) /\ LevelKept(y)
      BY <2>2, <2>3, RemoteRight
    <2>5. PICK z \in Backlight!Edits(y, {0, -1}) : s' = Backlight!Updated(z, active)
      BY <2>3
    <2>6. LightTyped(z) /\ LevelKept(z)
      BY <2>4, <2>5, EditsRight
    <2>7. LightTyped(s') /\ LevelKept(s') /\ DutyKept(s')
      BY <2>5, <2>6, UpdatedRight
    <2> QED BY <2>7 DEF BacklightInv
  <1>3. CASE Backlight!Session
    <2>1. PICK x \in Backlight!Clock(s) : \E y \in Backlight!Edits(x, {0}) : s' = y
      BY <1>3 DEF Backlight!Session
    <2>2. LightTyped(x) /\ LevelKept(x) /\ DutyKept(x)
      BY <2>1, ClockRight DEF BacklightInv
    <2>3. PICK y \in Backlight!Edits(x, {0}) : s' = y
      BY <2>1
    <2>4. LightTyped(y) /\ LevelKept(y) /\ DutyKept(y)
      BY <2>2, <2>3, EditsRight
    <2> QED BY <2>3, <2>4 DEF BacklightInv
  <1> QED BY <1>1, <1>2, <1>3 DEF Backlight!Next

\* The comparisons of night_active are the hours of the window, around midnight.
LEMMA HoursOfWindow ==
  ASSUME NEW start \in 0 .. 23, NEW end \in 0 .. 23, NEW hour \in 0 .. 23
  PROVE  Backlight!Within(<<start, end>>, hour) <=>
           start # end /\ IF start < end THEN hour >= start /\ hour < end ELSE hour >= start \/ hour < end
  <1> DEFINE since == IF hour >= start THEN hour - start ELSE hour - start + 24
             length == IF end >= start THEN end - start ELSE end - start + 24
  <1>1. length = (end - start) % 24
    OBVIOUS
  <1>2. \A k \in 0 .. 23 : hour = (start + k) % 24 <=> k = since
    OBVIOUS
  <1>3. since \in 0 .. 23
    OBVIOUS
  <1>4. Backlight!Within(<<start, end>>, hour) <=> since < length
    BY <1>1, <1>2, <1>3 DEF Backlight!Within
  <1> QED BY <1>4

LEMMA BacklightRight ==
  ASSUME BacklightInv
  PROVE  Backlight!LevelCurrent
  <1>1. PICK start \in 0 .. 23, end \in 0 .. 23 : s.profile.window = <<start, end>>
    BY BacklightAssumption DEF BacklightInv, LightTyped, Backlight!Profiles
  <1>2. Backlight!Within(s.profile.window, s.hour) <=>
          start # end /\ IF start < end THEN s.hour >= start /\ s.hour < end ELSE s.hour >= start \/ s.hour < end
    <2>1. s.hour \in 0 .. 23
      BY DEF BacklightInv, LightTyped
    <2>2. Backlight!Within(<<start, end>>, s.hour) <=>
            start # end /\ IF start < end THEN s.hour >= start /\ s.hour < end ELSE s.hour >= start \/ s.hour < end
      BY <2>1, HoursOfWindow
    <2> QED BY <1>1, <2>2
  <1>3. Backlight!NightActive(s.profile, s.valid, s.hour) <=>
          s.profile.night \/ (s.profile.night_auto /\ s.valid /\ Backlight!Within(s.profile.window, s.hour))
    BY <1>1, <1>2 DEF Backlight!NightActive
  <1>4. Backlight!Wanted = Backlight!Level(s)
    BY <1>3 DEF Backlight!Wanted, Backlight!Level, Backlight!SettingsNight
  <1>5. Backlight!Wanted = s.brightness /\ s.brightness \in Nat
    BY <1>4 DEF BacklightInv, LevelKept, LightTyped
  <1> QED BY <1>5 DEF BacklightInv, LightTyped, LevelKept, DutyKept, Backlight!LevelCurrent, Backlight!Output

\* A cue of the charger is given once for each change that two readings in a row confirm, and more
\* voltage is never shown as less charge, whatever the ends of the board's battery are
\* (power_supply.h); the brightness is that of the settings, the clock, the quiet windows and the
\* idle time as they are, though each of them sets it by steps of its own (settings.cpp,
\* brightness_policy.h).
THEOREM PowerCorrect == DeviceSpec => []PowerBelieved
  <1> DEFINE Inv == (part = "supply" => SupplyInv) /\ (part = "backlight" => BacklightInv)
  <1>1. DeviceInit => Inv
    BY PartsBegin, SupplyBegins, BacklightBegins
  <1>2. Inv /\ [DeviceNext]_deviceVars => Inv'
    <2> SUFFICES ASSUME Inv, [DeviceNext]_deviceVars PROVE Inv'
      OBVIOUS
    <2>1. part' = part /\ (part = "supply" => [Supply!Next]_s) /\ (part = "backlight" => [Backlight!Next]_s)
      BY PartsAlone
    <2>2. ASSUME part = "supply" PROVE SupplyInv'
      BY <2>1, <2>2, SupplySteps
    <2>3. ASSUME part = "backlight" PROVE BacklightInv'
      BY <2>1, <2>3, BacklightSteps
    <2> QED BY <2>1, <2>2, <2>3
  <1>3. Inv => PowerBelieved
    BY SupplyRight, BacklightRight DEF PowerBelieved
  <1> QED BY <1>1, <1>2, <1>3, PTL DEF DeviceSpec

-----------------------------------------------------------------------------
(* Orientation *)

PoseNames == Orientation!Poses \cup {"none", "moving"}

RecordTyped(r) == r \in [pose : PoseNames, flip : BOOLEAN]

TurnTyped(x) ==
  /\ DOMAIN x = {"status", "count", "first", "age", "lag", "since", "reference", "flip", "wanted", "pending",
                 "tracking", "enabled", "applied", "persisted", "manual_at", "manual", "record", "pose", "held"}
  /\ x.status \in {"Idle", "Sampling", "Ready", "Failed"}
  /\ x.count \in Nat /\ x.age \in Nat /\ x.lag \in Nat /\ x.since \in 0 .. Settle /\ x.held \in 0 .. Settle + 1
  /\ x.reference \in PoseNames /\ x.pose \in PoseNames
  /\ x.flip \in BOOLEAN /\ x.wanted \in BOOLEAN /\ x.pending \in BOOLEAN /\ x.tracking \in BOOLEAN
  /\ x.enabled \in BOOLEAN /\ x.applied \in BOOLEAN /\ x.persisted \in BOOLEAN /\ x.manual_at \in BOOLEAN
  /\ x.manual \in BOOLEAN
  /\ RecordTyped(x.record)

\* A calibration keeps the display, and a reference that is saved is that of the record.
Referenced(x) ==
  /\ x.status = "Sampling" => (x.wanted <=> x.flip) /\ x.held = 0
  /\ x.status = "Ready" /\ x.persisted => x.record.pose = x.reference /\ (x.record.flip <=> x.flip)

\* What the pose calls for.
Candidate(x) == x.flip # Orientation!Opposite(x.pose, x.reference)

\* While a pose lasts it is wanted already, or has been pending for as long.
Lasts(x, held) ==
  /\ x.status = "Ready" /\ x.enabled /\ (x.manual <=> x.manual_at)
  /\ \/ x.wanted <=> Candidate(x)
     \/ x.tracking /\ (x.pending <=> Candidate(x)) /\ x.lag = 0 /\ x.since >= held - 1 /\ held <= Settle

HeldInv(x) == x.held > 0 => Lasts(x, x.held) /\ (x.held > Settle => (x.applied <=> Candidate(x)))

OrientationInv == TurnTyped(s) /\ Referenced(s) /\ HeldInv(s)

\* What only people and the flash change.
SameSetup(x, y) ==
  y.enabled = x.enabled /\ y.applied = x.applied /\ y.manual = x.manual /\ y.record = x.record /\ y.pose = x.pose

\* And what goes on with the reference that there is.
SameReference(x, y) ==
  /\ y.reference = x.reference /\ (y.flip <=> x.flip) /\ (y.persisted <=> x.persisted) /\ (y.manual_at <=> x.manual_at)
  /\ y.status = x.status /\ y.held = x.held

\* The fields that are typed, apart from those of the setup.
Typed(x) ==
  /\ x.status \in {"Idle", "Sampling", "Ready", "Failed"}
  /\ x.count \in Nat /\ x.age \in Nat /\ x.lag \in Nat /\ x.since \in 0 .. Settle /\ x.held \in 0 .. Settle + 1
  /\ x.reference \in PoseNames
  /\ x.flip \in BOOLEAN /\ x.wanted \in BOOLEAN /\ x.pending \in BOOLEAN /\ x.tracking \in BOOLEAN
  /\ x.persisted \in BOOLEAN /\ x.manual_at \in BOOLEAN

LEMMA TypedWithSetup ==
  ASSUME NEW x, TurnTyped(x), NEW y, DOMAIN y = DOMAIN x, SameSetup(x, y), Typed(y)
  PROVE  TurnTyped(y)
  <1>1. /\ y.pose \in PoseNames /\ y.enabled \in BOOLEAN /\ y.applied \in BOOLEAN /\ y.manual \in BOOLEAN
        /\ RecordTyped(y.record)
    BY DEF TurnTyped, SameSetup
  <1> QED BY <1>1 DEF TurnTyped, Typed

LEMMA UnusedRight ==
  ASSUME NEW x, TurnTyped(x), NEW status \in {"Idle", "Failed", "Sampling"}, NEW y, y = Orientation!Unused(x, status)
  PROVE  TurnTyped(y) /\ SameSetup(x, y) /\ y.status = status /\ y.held = 0 /\ Referenced(y)
  <1>1. DOMAIN y = DOMAIN x
    BY DEF Orientation!Unused, Orientation!Untracked
  <1>2. y.status = status /\ y.count = 0 /\ y.age = 0 /\ y.lag = 0 /\ y.since = 0 /\ y.held = 0 /\ y.reference = "none"
    BY DEF Orientation!Unused, Orientation!Untracked, TurnTyped
  <1>3. /\ y.flip = FALSE /\ y.wanted = FALSE /\ y.pending = FALSE /\ y.tracking = FALSE /\ y.persisted = FALSE
        /\ y.manual_at = FALSE
    BY DEF Orientation!Unused, Orientation!Untracked, TurnTyped
  <1>4. SameSetup(x, y)
    BY DEF Orientation!Unused, Orientation!Untracked, TurnTyped, SameSetup
  <1>5. Typed(y)
    <2>1. y.flip \in BOOLEAN /\ y.wanted \in BOOLEAN /\ y.pending \in BOOLEAN /\ y.tracking \in BOOLEAN
          /\ y.persisted \in BOOLEAN /\ y.manual_at \in BOOLEAN
      BY <1>3
    <2> QED BY <1>2, <2>1, OrientationAssumption DEF Typed, PoseNames
  <1>6. TurnTyped(y)
    BY <1>1, <1>4, <1>5, TypedWithSetup
  <1> QED BY <1>2, <1>3, <1>4, <1>6 DEF Referenced

LEMMA AtMostFacts ==
  ASSUME NEW n \in Nat, NEW bound \in Nat
  PROVE  /\ Orientation!AtMost(n, bound) \in 0 .. bound
         /\ n <= bound => Orientation!AtMost(n, bound) = n
         /\ n >= bound => Orientation!AtMost(n, bound) = bound
  BY DEF Orientation!AtMost

LEMMA ElapsedRight ==
  ASSUME NEW x, TurnTyped(x), Referenced(x), NEW polls \in {1, Gap + 1}, NEW y, y = Orientation!Elapsed(x, polls)
  PROVE  /\ TurnTyped(y) /\ Referenced(y) /\ SameSetup(x, y) /\ SameReference(x, y)
         /\ (y.wanted <=> x.wanted) /\ (y.pending <=> x.pending) /\ (y.tracking <=> x.tracking)
         /\ polls <= Gap /\ x.status = "Ready" /\ x.tracking /\ x.lag = 0 =>
              y.lag <= Gap /\ (y.since > x.since \/ y.since = Settle)
  <1>1. polls \in Nat /\ polls > 0 /\ Gap \in Nat /\ Gap + 1 \in Nat /\ Timeout \in Nat /\ Settle \in Nat
    BY OrientationAssumption
  <1>2. x.age + polls \in Nat /\ x.lag + polls \in Nat /\ x.since \in Nat /\ x.since + polls \in Nat /\ x.since <= Settle
    BY <1>1 DEF TurnTyped
  <1> DEFINE age == Orientation!AtMost(x.age + polls, Timeout)
             lag == Orientation!AtMost(x.lag + polls, Gap + 1)
             since == Orientation!AtMost(x.since + polls, Settle)
  <1>3. age \in Nat /\ lag \in Nat /\ since \in 0 .. Settle
    <2>1. age \in 0 .. Timeout
      BY <1>1, <1>2, AtMostFacts
    <2>2. lag \in 0 .. Gap + 1
      BY <1>1, <1>2, AtMostFacts
    <2>3. since \in 0 .. Settle
      BY <1>1, <1>2, AtMostFacts
    <2> HIDE DEF age, lag, since
    <2> QED BY <2>1, <2>2, <2>3
  <1>4. since > x.since \/ since = Settle
    <2>1. CASE x.since + polls <= Settle
      BY <1>1, <1>2, <2>1, AtMostFacts
    <2>2. CASE x.since + polls >= Settle
      BY <1>1, <1>2, <2>2, AtMostFacts
    <2> QED BY <1>1, <1>2, <2>1, <2>2
  <1>5. polls <= Gap /\ x.lag = 0 => lag <= Gap
    <2> SUFFICES ASSUME polls <= Gap, x.lag = 0 PROVE lag <= Gap
      OBVIOUS
    <2>1. x.lag + polls <= Gap + 1 /\ x.lag + polls = polls
      BY <1>1
    <2> QED BY <1>1, <2>1, AtMostFacts
  <1> HIDE DEF age, lag, since
  <1>6. CASE x.status # "Sampling" /\ ~x.tracking
    BY <1>6 DEF Orientation!Elapsed, SameSetup, SameReference, TurnTyped
  <1>7. CASE x.status = "Sampling" \/ x.tracking
    <2>1. /\ DOMAIN y = DOMAIN x /\ y.status = x.status /\ y.count = x.count /\ y.held = x.held
          /\ y.reference = x.reference /\ y.flip = x.flip /\ y.wanted = x.wanted /\ y.pending = x.pending
          /\ y.tracking = x.tracking /\ y.persisted = x.persisted /\ y.manual_at = x.manual_at
      BY <1>7 DEF TurnTyped, Orientation!Elapsed
    <2>2. SameSetup(x, y)
      BY <1>7 DEF TurnTyped, Orientation!Elapsed, SameSetup
    <2>3. IF x.status = "Sampling" THEN y.age = age /\ y.lag = lag /\ y.since = x.since
          ELSE y.age = x.age /\ y.lag = lag /\ y.since = since
      BY <1>7 DEF TurnTyped, Orientation!Elapsed, age, lag, since
    <2>4. Typed(y)
      <3>1. y.age \in Nat /\ y.lag \in Nat /\ y.since \in 0 .. Settle
        BY <1>3, <2>3 DEF TurnTyped
      <3> QED BY <2>1, <3>1 DEF TurnTyped, Typed
    <2>5. TurnTyped(y)
      BY <2>1, <2>2, <2>4, TypedWithSetup
    <2>6. Referenced(y)
      BY <2>1, <2>2 DEF Referenced, SameSetup
    <2>7. SameReference(x, y)
      BY <2>1 DEF SameReference
    <2> QED BY <1>4, <1>5, <2>1, <2>2, <2>3, <2>5, <2>6, <2>7
  <1> QED BY <1>6, <1>7

LEMMA TickRight ==
  ASSUME NEW x, TurnTyped(x), Referenced(x), NEW y, y = Orientation!Tick(x)
  PROVE  TurnTyped(y) /\ Referenced(y) /\ SameSetup(x, y) /\ (x.status = "Ready" => y = x)
         /\ (y.status \in {"Ready", "Sampling"} => y = x)
  BY UnusedRight DEF Orientation!Tick, SameSetup

LEMMA CheckedRight ==
  ASSUME NEW x, TurnTyped(x), Referenced(x), NEW y, y = Orientation!Checked(x)
  PROVE  TurnTyped(y) /\ Referenced(y) /\ SameSetup(x, y)
         /\ (y.status = "Ready" => y = x /\ (y.manual <=> y.manual_at)) /\ (y.status = "Sampling" => y = x)
         /\ ((x.manual <=> x.manual_at) => y = x)
  <1>1. CASE x.status = "Ready" /\ x.manual # x.manual_at
    BY <1>1, UnusedRight DEF Orientation!Checked, TurnTyped
  <1>2. CASE ~(x.status = "Ready" /\ x.manual # x.manual_at)
    BY <1>2 DEF Orientation!Checked, TurnTyped, SameSetup
  <1> QED BY <1>1, <1>2

LEMMA CalibratingRight ==
  ASSUME NEW x, TurnTyped(x), Referenced(x), x.status = "Sampling", NEW y \in Orientation!Calibrating(x)
  PROVE  /\ TurnTyped(y) /\ Referenced(y) /\ y.held = 0
         /\ y.enabled = x.enabled /\ y.applied = x.applied /\ y.manual = x.manual /\ y.pose = x.pose
         /\ y.status = "Ready" => y.reference = y.pose /\ (y.wanted <=> y.flip)
  <1> DEFINE stable == x.pose \in Orientation!Poses /\ (x.count = 0 \/ x.pose = x.first)
             kept == IF stable /\ x.lag <= Gap THEN x.count ELSE 0
             count == IF stable THEN kept + 1 ELSE 0
             first == IF stable THEN x.pose ELSE "none"
             next == [x EXCEPT !.lag = 0, !.count = count, !.first = first]
             ready == [next EXCEPT !.status = "Ready", !.reference = x.pose, !.persisted = FALSE, !.count = 0,
                                   !.first = "none", !.age = 0]
  <1>1. y = next \/ y = ready \/ y = [ready EXCEPT !.persisted = TRUE, !.record = [pose |-> x.pose, flip |-> x.flip]]
    BY Zenon DEF Orientation!Calibrating
  <1>2. count \in Nat
    BY DEF TurnTyped
  <1> HIDE DEF stable, kept, count, first
  <1>3. CASE y = next
    BY <1>2, <1>3 DEF TurnTyped, Referenced
  <1>4. TurnTyped(ready) /\ Referenced(ready) /\ ready.held = 0 /\ ready.status = "Ready" /\ ready.reference = x.pose
        /\ ready.pose = x.pose /\ (ready.wanted <=> x.flip) /\ (ready.flip <=> x.flip)
        /\ ready.enabled = x.enabled /\ ready.applied = x.applied /\ ready.manual = x.manual
    BY <1>2 DEF TurnTyped, Referenced
  <1> HIDE DEF ready
  <1>5. CASE y = [ready EXCEPT !.persisted = TRUE, !.record = [pose |-> x.pose, flip |-> x.flip]]
    <2>1. /\ DOMAIN y = DOMAIN ready /\ y.persisted = TRUE /\ y.record = [pose |-> x.pose, flip |-> x.flip]
          /\ y.status = ready.status /\ y.count = ready.count /\ y.age = ready.age /\ y.lag = ready.lag
          /\ y.since = ready.since /\ y.held = ready.held /\ y.reference = ready.reference /\ y.pose = ready.pose
          /\ y.flip = ready.flip /\ y.wanted = ready.wanted /\ y.pending = ready.pending /\ y.tracking = ready.tracking
          /\ y.enabled = ready.enabled /\ y.applied = ready.applied /\ y.manual_at = ready.manual_at
          /\ y.manual = ready.manual
      BY <1>4, <1>5 DEF TurnTyped
    <2>2. RecordTyped(y.record)
      BY <2>1 DEF RecordTyped, TurnTyped
    <2>3. TurnTyped(y)
      BY <1>4, <2>1, <2>2 DEF TurnTyped
    <2> QED BY <1>4, <2>1, <2>3 DEF Referenced
  <1> QED BY <1>1, <1>3, <1>4, <1>5

\* With a reference, a pose and the time since the sample before.
LEMMA FollowingRight ==
  ASSUME NEW x, TurnTyped(x), Referenced(x), x.status # "Sampling", NEW y, y = Orientation!Following(x)
  PROVE  /\ TurnTyped(y) /\ Referenced(y) /\ SameSetup(x, y) /\ SameReference(x, y)
         /\ x.status = "Ready" /\ x.enabled /\ Orientation!Known(x) =>
              LET lasting == x.tracking /\ (x.pending <=> Candidate(x)) /\ x.lag <= Gap
              IN /\ y.tracking /\ (y.pending <=> Candidate(x)) /\ y.lag = 0
                 /\ lasting => y.since = x.since
                 /\ lasting /\ x.since = Settle => (y.wanted <=> Candidate(x))
                 /\ (x.wanted <=> Candidate(x)) => (y.wanted <=> Candidate(x))
  <1>1. CASE ~x.enabled \/ x.status # "Ready" \/ ~Orientation!Known(x)
    <2>1. y = Orientation!Untracked(x)
      BY <1>1 DEF Orientation!Following
    <2>2. /\ DOMAIN y = DOMAIN x /\ y.tracking = FALSE /\ y.pending = FALSE /\ y.since = 0 /\ y.lag = 0
          /\ y.status = x.status /\ y.count = x.count /\ y.age = x.age /\ y.held = x.held /\ y.reference = x.reference
          /\ y.flip = x.flip /\ y.wanted = x.wanted /\ y.persisted = x.persisted /\ y.manual_at = x.manual_at
      BY <2>1 DEF Orientation!Untracked, TurnTyped
    <2>3. SameSetup(x, y)
      BY <2>1 DEF Orientation!Untracked, TurnTyped, SameSetup
    <2>4. Typed(y)
      <3>1. y.tracking \in BOOLEAN /\ y.pending \in BOOLEAN
        BY <2>2
      <3> QED BY <2>2, <3>1, OrientationAssumption DEF TurnTyped, Typed
    <2>5. TurnTyped(y)
      BY <2>2, <2>3, <2>4, TypedWithSetup
    <2> QED BY <1>1, <2>2, <2>3, <2>5 DEF Referenced, SameSetup, SameReference
  <1>2. CASE x.enabled /\ x.status = "Ready" /\ Orientation!Known(x)
    <2>1. PICK candidate \in BOOLEAN : candidate = Candidate(x)
      BY DEF Candidate
    <2>2. PICK begins \in BOOLEAN : begins = (~x.tracking \/ x.pending # candidate \/ x.lag > Gap)
      OBVIOUS
    <2>3. PICK since : since = (IF begins THEN 0 ELSE x.since)
      OBVIOUS
    <2>4. PICK wanted : wanted = (IF since >= Settle THEN candidate ELSE x.wanted)
      OBVIOUS
    <2>5. y = [x EXCEPT !.tracking = TRUE, !.pending = candidate, !.lag = 0, !.since = since, !.wanted = wanted]
      <3> DEFINE next == [x EXCEPT !.tracking = TRUE, !.pending = candidate, !.lag = 0,
                                   !.since = IF begins THEN 0 ELSE x.since]
      <3>1. y = [next EXCEPT !.wanted = IF next.since >= Settle THEN candidate ELSE next.wanted]
        BY <1>2, <2>1, <2>2 DEF Orientation!Following, Candidate, TurnTyped
      <3>2. next.since = since /\ next.wanted = x.wanted
        BY <2>3 DEF TurnTyped
      <3> QED BY <2>3, <2>4, <3>1, <3>2
    <2>6. since \in 0 .. Settle /\ wanted \in BOOLEAN
      BY <2>1, <2>3, <2>4, OrientationAssumption DEF TurnTyped
    <2>7. /\ DOMAIN y = DOMAIN x /\ y.tracking = TRUE /\ y.pending = candidate /\ y.since = since /\ y.lag = 0
          /\ y.status = x.status /\ y.count = x.count /\ y.age = x.age /\ y.held = x.held /\ y.reference = x.reference
          /\ y.flip = x.flip /\ y.wanted = wanted /\ y.persisted = x.persisted /\ y.manual_at = x.manual_at
      BY <2>5 DEF TurnTyped
    <2>8. TurnTyped(y) /\ SameSetup(x, y)
      <3>1. SameSetup(x, y)
        BY <2>5 DEF TurnTyped, SameSetup
      <3>2. y.tracking \in BOOLEAN /\ y.pending \in BOOLEAN /\ y.wanted \in BOOLEAN
        BY <2>6, <2>7
      <3>3. Typed(y)
        BY <2>6, <2>7, <3>2 DEF TurnTyped, Typed
      <3> QED BY <2>7, <3>1, <3>3, TypedWithSetup
    <2>9. Referenced(y)
      BY <1>2, <2>7, <2>8 DEF Referenced, SameSetup
    <2>10. x.tracking /\ (x.pending <=> Candidate(x)) /\ x.lag <= Gap => ~begins
      <3>1. (x.pending <=> Candidate(x)) => x.pending = candidate
        BY <2>1 DEF TurnTyped
      <3>2. Gap \in Nat /\ x.lag \in Nat
        BY OrientationAssumption DEF TurnTyped
      <3>3. begins => ~x.tracking \/ x.pending # candidate \/ x.lag > Gap
        BY <2>2
      <3>4. x.lag <= Gap => ~(x.lag > Gap)
        BY <3>2
      <3> QED BY <3>1, <3>3, <3>4
    <2>11. x.tracking /\ (x.pending <=> Candidate(x)) /\ x.lag <= Gap =>
             since = x.since /\ (x.since = Settle => (wanted <=> Candidate(x)))
      BY <2>1, <2>3, <2>4, <2>10, OrientationAssumption DEF TurnTyped
    <2>12. (x.wanted <=> Candidate(x)) => (wanted <=> Candidate(x))
      BY <2>1, <2>4
    <2> QED BY <1>2, <2>1, <2>7, <2>8, <2>9, <2>11, <2>12 DEF SameReference
  <1> QED BY <1>1, <1>2

\* A poll in which all is as it should be: the pose has lasted for one more.
LEMMA PoseLasts ==
  ASSUME TurnTyped(s), Referenced(s), HeldInv(s),
         NEW elapsed, elapsed = Orientation!Elapsed(s, 1), 1 <= Gap,
         NEW checked, checked = Orientation!Checked(Orientation!Tick(elapsed)),
         NEW y \in Orientation!Sampled(checked),
         NEW done, done = Orientation!Checked(y),
         done.status = "Ready", done.enabled, Orientation!Known(done),
         NEW held, held = Orientation!AtMost(s.held + 1, Settle + 1)
  PROVE  Lasts(done, held) /\ (held > Settle => (done.wanted <=> Candidate(done))) /\ done.held = s.held
  <1>1. TurnTyped(elapsed) /\ Referenced(elapsed) /\ SameSetup(s, elapsed) /\ SameReference(s, elapsed)
        /\ (elapsed.wanted <=> s.wanted) /\ (elapsed.pending <=> s.pending) /\ (elapsed.tracking <=> s.tracking)
        /\ (s.status = "Ready" /\ s.tracking /\ s.lag = 0 =>
              elapsed.lag <= Gap /\ (elapsed.since > s.since \/ elapsed.since = Settle))
    BY ElapsedRight, OrientationAssumption
  <1>2. PICK ticked : ticked = Orientation!Tick(elapsed)
    OBVIOUS
  <1>3. TurnTyped(ticked) /\ Referenced(ticked) /\ SameSetup(elapsed, ticked)
        /\ (elapsed.status = "Ready" => ticked = elapsed) /\ (ticked.status \in {"Ready", "Sampling"} => ticked = elapsed)
    BY <1>1, <1>2, TickRight
  <1>4. TurnTyped(checked) /\ Referenced(checked) /\ SameSetup(ticked, checked)
        /\ (checked.status = "Ready" => checked = ticked /\ (checked.manual <=> checked.manual_at))
        /\ (checked.status = "Sampling" => checked = ticked)
        /\ ((ticked.manual <=> ticked.manual_at) => checked = ticked)
    BY <1>2, <1>3, CheckedRight
  <1>5. Settle \in Nat /\ Settle > 0 /\ s.held \in 0 .. Settle + 1 /\ held \in 1 .. Settle + 1
        /\ (s.held <= Settle => held = s.held + 1) /\ (s.held > Settle => held = s.held)
    BY OrientationAssumption DEF TurnTyped, Orientation!AtMost
  <1>6. CASE checked.status = "Sampling"
    <2>1. y \in Orientation!Calibrating(checked)
      BY <1>6 DEF Orientation!Sampled
    <2>2. TurnTyped(y) /\ Referenced(y) /\ (y.status = "Ready" => y.reference = y.pose /\ (y.wanted <=> y.flip))
          /\ y.held = 0
      BY <1>4, <1>6, <2>1, CalibratingRight
    <2>3. done = y /\ (done.manual <=> done.manual_at)
      BY <2>2, CheckedRight
    <2>4. ~Orientation!Opposite(done.pose, done.reference)
      BY <2>2, <2>3 DEF Orientation!Opposite
    <2>5. done.flip \in BOOLEAN /\ done.wanted \in BOOLEAN
      BY <2>2, <2>3 DEF TurnTyped
    <2>6. done.wanted <=> Candidate(done)
      <3>1. Orientation!Opposite(done.pose, done.reference) = FALSE
        <4>1. Orientation!Opposite(done.pose, done.reference) \in BOOLEAN
          BY DEF Orientation!Opposite
        <4> QED BY <2>4, <4>1
      <3>2. Candidate(done) <=> done.flip
        BY <2>5, <3>1 DEF Candidate
      <3> QED BY <2>2, <2>3, <2>5, <3>2
    <2>7. s.held = 0
      <3>1. checked = elapsed
        BY <1>3, <1>4, <1>6
      <3>2. s.status = "Sampling"
        BY <1>1, <1>6, <3>1 DEF SameReference
      <3> QED BY <3>2 DEF Referenced
    <2> QED BY <2>2, <2>3, <2>6, <2>7 DEF Lasts
  <1>7. CASE checked.status # "Sampling"
    <2>1. y = Orientation!Following(checked)
      BY <1>7 DEF Orientation!Sampled
    <2>2. TurnTyped(y) /\ Referenced(y) /\ SameSetup(checked, y) /\ SameReference(checked, y)
      BY <1>4, <1>7, <2>1, FollowingRight
    <2>3. done = y /\ (done.manual <=> done.manual_at)
      BY <2>2, CheckedRight
    <2>4. checked.status = "Ready" /\ checked.enabled /\ Orientation!Known(checked) /\ checked = elapsed
      BY <1>3, <1>4, <2>2, <2>3 DEF SameSetup, SameReference, Orientation!Known
    <2> DEFINE lasting == checked.tracking /\ (checked.pending <=> Candidate(checked)) /\ checked.lag <= Gap
    <2>5. /\ y.tracking /\ (y.pending <=> Candidate(checked)) /\ y.lag = 0
          /\ lasting => y.since = checked.since
          /\ lasting /\ checked.since = Settle => (y.wanted <=> Candidate(checked))
          /\ (checked.wanted <=> Candidate(checked)) => (y.wanted <=> Candidate(checked))
      BY <1>4, <1>7, <2>1, <2>4, FollowingRight
    <2>6. Candidate(checked) <=> Candidate(s)
      BY <1>1, <2>4 DEF Candidate, SameSetup, SameReference, TurnTyped
    <2>7. Candidate(done) <=> Candidate(s)
      BY <2>2, <2>3, <2>6, <1>4 DEF Candidate, SameSetup, SameReference, TurnTyped
    <2>8. done.held = s.held
      BY <1>1, <2>2, <2>3, <2>4 DEF SameReference
    <2>9. y.since \in 0 .. Settle
      BY <2>2 DEF TurnTyped
    <2>10. CASE s.held = 0
      <3>1. held = 1 /\ held <= Settle
        BY <1>5, <2>10
      <3>2. done.since >= held - 1 /\ ~(held > Settle)
        BY <1>5, <2>3, <2>9, <3>1
      <3>3. done.tracking /\ (done.pending <=> Candidate(done)) /\ done.lag = 0
        BY <2>3, <2>5, <2>6, <2>7
      <3> QED BY <2>3, <2>8, <3>1, <3>2, <3>3 DEF Lasts
    <2>11. CASE s.held > 0 /\ (s.wanted <=> Candidate(s))
      <3>1. done.wanted <=> Candidate(done)
        BY <1>1, <2>3, <2>4, <2>5, <2>6, <2>7, <2>11
      <3> QED BY <2>3, <2>8, <3>1 DEF Lasts
    <2>12. CASE s.held > 0 /\ ~(s.wanted <=> Candidate(s))
      <3>1. s.status = "Ready" /\ s.tracking /\ (s.pending <=> Candidate(s)) /\ s.lag = 0 /\ s.since >= s.held - 1
            /\ s.held <= Settle
        BY <2>12 DEF HeldInv, Lasts
      <3>2. lasting
        BY <1>1, <2>4, <2>6, <3>1
      <3>3. checked.since > s.since \/ checked.since = Settle
        BY <1>1, <2>4, <3>1
      <3>4. y.since = checked.since
        BY <2>5, <3>2
      <3>5. s.since \in 0 .. Settle
        BY DEF TurnTyped
      <3>6. y.since >= held - 1 /\ (held > Settle => checked.since = Settle)
        BY <1>5, <2>9, <3>1, <3>3, <3>4, <3>5
      <3>7. held > Settle => (done.wanted <=> Candidate(done))
        BY <2>3, <2>5, <2>6, <2>7, <3>2, <3>6
      <3>8. held <= Settle \/ held > Settle
        BY <1>5
      <3> QED BY <2>3, <2>5, <2>6, <2>7, <2>8, <3>6, <3>7, <3>8 DEF Lasts
    <2> QED BY <1>5, <2>10, <2>11, <2>12
  <1> QED BY <1>6, <1>7

LEMMA OrientationPolled ==
  ASSUME OrientationInv, NEW polls \in {1, Gap + 1}, NEW reads \in BOOLEAN, NEW touched \in BOOLEAN,
         Orientation!Poll(polls, reads, touched)
  PROVE  OrientationInv'
  <1>1. PICK elapsed : elapsed = Orientation!Elapsed(s, polls)
    OBVIOUS
  <1>2. PICK ticked : ticked = Orientation!Tick(elapsed)
    OBVIOUS
  <1>3. PICK y \in (IF reads THEN Orientation!Sampled(Orientation!Checked(ticked)) ELSE {ticked}) :
          LET done == Orientation!Checked(y)
              steady == done.status = "Ready" /\ done.enabled /\ Orientation!Known(done) /\ reads /\ ~touched /\ polls <= Gap
          IN s' = [done EXCEPT !.applied = IF touched THEN done.applied ELSE Orientation!Target(done),
                               !.held = IF steady THEN Orientation!AtMost(done.held + 1, Settle + 1) ELSE 0]
    <2>1. \E z \in IF reads THEN Orientation!Sampled(Orientation!Checked(ticked)) ELSE {ticked} :
            LET done == Orientation!Checked(z)
                steady == done.status = "Ready" /\ done.enabled /\ Orientation!Known(done) /\ reads /\ ~touched /\ polls <= Gap
            IN s' = [done EXCEPT !.applied = IF touched THEN @ ELSE Orientation!Target(done),
                                 !.held = IF steady THEN Orientation!AtMost(@ + 1, Settle + 1) ELSE 0]
      BY <1>1, <1>2, Zenon DEF Orientation!Poll
    <2> QED BY <2>1
  <1>4. PICK done : done = Orientation!Checked(y)
    OBVIOUS
  <1> DEFINE steady == done.status = "Ready" /\ done.enabled /\ Orientation!Known(done) /\ reads /\ ~touched /\ polls <= Gap
             applied == IF touched THEN done.applied ELSE Orientation!Target(done)
             held == IF steady THEN Orientation!AtMost(done.held + 1, Settle + 1) ELSE 0
  <1>5. s' = [done EXCEPT !.applied = applied, !.held = held]
    BY <1>3, <1>4
  <1>6. TurnTyped(ticked) /\ Referenced(ticked)
    BY <1>1, <1>2, ElapsedRight, TickRight DEF OrientationInv
  <1>7. TurnTyped(y) /\ Referenced(y)
    <2>1. CASE reads
      <3>1. PICK checked : checked = Orientation!Checked(ticked)
        OBVIOUS
      <3>2. TurnTyped(checked) /\ Referenced(checked)
        BY <1>6, <3>1, CheckedRight
      <3>3. y \in Orientation!Sampled(checked)
        BY <1>3, <2>1, <3>1
      <3>4. CASE checked.status = "Sampling"
        BY <3>2, <3>3, <3>4, CalibratingRight DEF Orientation!Sampled
      <3>5. CASE checked.status # "Sampling"
        BY <3>2, <3>3, <3>5, FollowingRight DEF Orientation!Sampled
      <3> QED BY <3>4, <3>5
    <2>2. CASE ~reads
      BY <1>3, <1>6, <2>2
    <2> QED BY <2>1, <2>2
  <1>8. TurnTyped(done) /\ Referenced(done)
    BY <1>4, <1>7, CheckedRight
  <1>9. applied \in BOOLEAN
    BY <1>8 DEF TurnTyped, Orientation!Target
  <1>10. held \in 0 .. Settle + 1
    BY <1>8, OrientationAssumption DEF TurnTyped, Orientation!AtMost
  <1> HIDE DEF applied, held
  <1>11. /\ DOMAIN s' = DOMAIN done /\ s'.status = done.status /\ s'.count = done.count /\ s'.first = done.first
         /\ s'.age = done.age /\ s'.lag = done.lag /\ s'.since = done.since /\ s'.reference = done.reference
         /\ s'.flip = done.flip /\ s'.wanted = done.wanted /\ s'.pending = done.pending /\ s'.tracking = done.tracking
         /\ s'.enabled = done.enabled /\ s'.persisted = done.persisted /\ s'.manual_at = done.manual_at
         /\ s'.manual = done.manual /\ s'.record = done.record /\ s'.pose = done.pose
         /\ s'.applied = applied /\ s'.held = held
    BY <1>5, <1>8 DEF TurnTyped
  <1>12. TurnTyped(s')
    BY <1>8, <1>9, <1>10, <1>11 DEF TurnTyped
  <1>13. done.status = "Sampling" => held = 0
    BY DEF held
  <1>14. Referenced(s')
    BY <1>8, <1>11, <1>13 DEF Referenced
  <1>15. HeldInv(s')
    <2>1. CASE ~steady
      BY <1>11, <2>1 DEF HeldInv, held
    <2>2. CASE steady
      <3>1. polls = 1 /\ 1 <= Gap /\ reads /\ ~touched
        BY <2>2, OrientationAssumption
      <3>2. y \in Orientation!Sampled(Orientation!Checked(ticked))
        BY <1>3, <3>1
      <3>3. PICK lasted : lasted = Orientation!AtMost(s.held + 1, Settle + 1)
        OBVIOUS
      <3>4. Lasts(done, lasted) /\ (lasted > Settle => (done.wanted <=> Candidate(done))) /\ done.held = s.held
        BY <1>1, <1>2, <1>4, <2>2, <3>1, <3>2, <3>3, PoseLasts DEF OrientationInv
      <3>6. held = lasted
        BY <2>2, <3>3, <3>4 DEF held
      <3>7. applied <=> done.wanted
        BY <2>2 DEF applied, Orientation!Target
      <3>8. Candidate(s') <=> Candidate(done)
        BY <1>11 DEF Candidate
      <3>9. Lasts(s', held)
        BY <1>11, <3>4, <3>6, <3>8 DEF Lasts
      <3> QED BY <1>11, <3>4, <3>6, <3>7, <3>8, <3>9 DEF HeldInv
    <2> QED BY <2>1, <2>2
  <1> QED BY <1>12, <1>14, <1>15 DEF OrientationInv

LEMMA CalibrateRight ==
  ASSUME OrientationInv, Orientation!Calibrate
  PROVE  OrientationInv'
  <1>1. CASE s' = Orientation!Unused(s, "Failed")
    BY <1>1, UnusedRight DEF OrientationInv, HeldInv
  <1>2. CASE s' = [Orientation!Unused(s, "Sampling") EXCEPT !.manual_at = s.manual, !.flip = s.applied, !.wanted = s.applied]
    <2>1. PICK x : x = Orientation!Unused(s, "Sampling")
      OBVIOUS
    <2>2. TurnTyped(x) /\ SameSetup(s, x) /\ x.status = "Sampling" /\ x.held = 0
      BY <2>1, UnusedRight DEF OrientationInv
    <2>3. s' = [x EXCEPT !.manual_at = s.manual, !.flip = s.applied, !.wanted = s.applied]
      BY <1>2, <2>1
    <2>4. s.manual \in BOOLEAN /\ s.applied \in BOOLEAN
      BY DEF OrientationInv, TurnTyped
    <2>5. /\ DOMAIN s' = DOMAIN x /\ s'.status = x.status /\ s'.count = x.count /\ s'.held = x.held
          /\ s'.age = x.age /\ s'.lag = x.lag /\ s'.since = x.since /\ s'.reference = x.reference
          /\ s'.pending = x.pending /\ s'.tracking = x.tracking /\ s'.persisted = x.persisted
          /\ s'.flip = s.applied /\ s'.wanted = s.applied /\ s'.manual_at = s.manual
      BY <2>2, <2>3 DEF TurnTyped
    <2>6. SameSetup(x, s')
      BY <2>2, <2>3 DEF TurnTyped, SameSetup
    <2>7. Typed(s')
      BY <2>2, <2>4, <2>5 DEF TurnTyped, Typed
    <2>8. TurnTyped(s')
      BY <2>2, <2>5, <2>6, <2>7, TypedWithSetup
    <2>9. s'.status = "Sampling" /\ s'.held = 0 /\ (s'.wanted <=> s'.flip)
      BY <2>2, <2>5
    <2> QED BY <2>8, <2>9 DEF OrientationInv, HeldInv, Referenced
  <1> QED BY <1>1, <1>2 DEF Orientation!Calibrate

\* A row of the menu, or the hand: what has lasted begins again.
LEMMA SetupRight ==
  ASSUME OrientationInv, Orientation!ManualFlip \/ Orientation!AutoRotate \/ Orientation!Moves
  PROVE  OrientationInv'
  <1>1. /\ DOMAIN s' = DOMAIN s /\ s'.status = s.status /\ s'.count = s.count /\ s'.held = 0
        /\ s'.age = s.age /\ s'.lag = s.lag /\ s'.since = s.since /\ s'.reference = s.reference
        /\ s'.flip = s.flip /\ s'.wanted = s.wanted /\ s'.pending = s.pending /\ s'.tracking = s.tracking
        /\ s'.applied = s.applied /\ s'.persisted = s.persisted /\ s'.manual_at = s.manual_at /\ s'.record = s.record
    <2>1. PICK x, y, z : s' = [s EXCEPT !.manual = x, !.held = 0] \/ s' = [s EXCEPT !.enabled = y, !.held = 0]
                         \/ s' = [s EXCEPT !.pose = z, !.held = 0]
      BY DEF Orientation!ManualFlip, Orientation!AutoRotate, Orientation!Moves
    <2> QED BY <2>1 DEF OrientationInv, TurnTyped
  <1>2. s'.manual \in BOOLEAN /\ s'.enabled \in BOOLEAN /\ s'.pose \in PoseNames
    <2>1. CASE Orientation!ManualFlip
      BY <2>1 DEF Orientation!ManualFlip, OrientationInv, TurnTyped
    <2>2. CASE Orientation!AutoRotate
      BY <2>2 DEF Orientation!AutoRotate, OrientationInv, TurnTyped
    <2>3. CASE Orientation!Moves
      BY <2>3 DEF Orientation!Moves, OrientationInv, TurnTyped, PoseNames
    <2> QED BY <2>1, <2>2, <2>3
  <1>3. TurnTyped(s')
    BY <1>1, <1>2, OrientationAssumption DEF OrientationInv, TurnTyped
  <1>4. Referenced(s')
    BY <1>1 DEF OrientationInv, Referenced
  <1> QED BY <1>1, <1>3, <1>4 DEF OrientationInv, HeldInv

LEMMA BootedRight ==
  ASSUME NEW record, RecordTyped(record), NEW manual \in BOOLEAN, NEW pose \in PoseNames,
         NEW x, x = Orientation!Booted(record, manual) \/ x = [Orientation!Booted(record, manual) EXCEPT !.pose = pose]
  PROVE  TurnTyped(x) /\ Referenced(x) /\ HeldInv(x)
  <1>1. PICK ready \in BOOLEAN : ready <=> record # Orientation!NoRecord
    OBVIOUS
  <1>2. /\ DOMAIN x = DOMAIN Orientation!Booted(record, manual)
        /\ x.status = (IF ready THEN "Ready" ELSE "Idle") /\ x.count = 0 /\ x.age = 0 /\ x.lag = 0 /\ x.since = 0
        /\ x.held = 0 /\ x.reference = record.pose /\ x.flip = record.flip /\ x.wanted = record.flip
        /\ x.applied = manual /\ x.manual_at = manual /\ x.manual = manual /\ x.record = record /\ x.pose \in PoseNames
    BY <1>1 DEF Orientation!Booted, PoseNames, Orientation!Poses, Orientation!Upright
  <1>3. x.pending = FALSE /\ x.tracking = FALSE /\ x.enabled = TRUE /\ (x.persisted <=> ready) /\ x.persisted \in BOOLEAN
    BY <1>1 DEF Orientation!Booted
  <1>4. x.pending \in BOOLEAN /\ x.tracking \in BOOLEAN /\ x.enabled \in BOOLEAN /\ x.flip \in BOOLEAN
        /\ x.wanted \in BOOLEAN /\ x.applied \in BOOLEAN /\ x.manual_at \in BOOLEAN /\ x.manual \in BOOLEAN
        /\ x.reference \in PoseNames /\ RecordTyped(x.record)
    BY <1>2, <1>3 DEF RecordTyped
  <1>5. DOMAIN x = {"status", "count", "first", "age", "lag", "since", "reference", "flip", "wanted", "pending",
                    "tracking", "enabled", "applied", "persisted", "manual_at", "manual", "record", "pose", "held"}
    BY <1>2 DEF Orientation!Booted
  <1>6. TurnTyped(x)
    BY <1>2, <1>3, <1>4, <1>5, OrientationAssumption DEF TurnTyped
  <1>7. Referenced(x)
    BY <1>2 DEF Referenced
  <1> QED BY <1>2, <1>6, <1>7 DEF HeldInv

LEMMA OrientationBegins == Orientation!Init => OrientationInv
  <1> SUFFICES ASSUME Orientation!Init PROVE OrientationInv
    OBVIOUS
  <1>1. s = Orientation!Booted(Orientation!NoRecord, FALSE)
    BY DEF Orientation!Init
  <1>2. RecordTyped(Orientation!NoRecord) /\ "up" \in PoseNames
    BY DEF RecordTyped, Orientation!NoRecord, PoseNames, Orientation!Poses, Orientation!Upright
  <1> QED BY <1>1, <1>2, BootedRight DEF OrientationInv

LEMMA OrientationSteps ==
  ASSUME OrientationInv, [Orientation!Next]_s
  PROVE  OrientationInv'
  <1>1. CASE UNCHANGED s
    BY <1>1 DEF OrientationInv, TurnTyped, RecordTyped, Referenced, HeldInv, Lasts, Candidate
  <1>2. CASE Orientation!Polls
    BY <1>2, OrientationPolled DEF Orientation!Polls
  <1>3. CASE Orientation!Reboot
    <2>1. PICK manual \in BOOLEAN : s' = [Orientation!Booted(s.record, manual) EXCEPT !.pose = s.pose]
      BY <1>3 DEF Orientation!Reboot
    <2>2. RecordTyped(s.record) /\ s.pose \in PoseNames
      BY DEF OrientationInv, TurnTyped
    <2> QED BY <2>1, <2>2, BootedRight DEF OrientationInv
  <1> QED BY <1>1, <1>2, <1>3, CalibrateRight, SetupRight DEF Orientation!Next

LEMMA TurnsRight ==
  ASSUME OrientationInv
  PROVE  Orientation!OrientationRight
  <1>1. Orientation!RecordKept
    <2> SUFFICES ASSUME s.status = "Ready", s.persisted PROVE s.record = [pose |-> s.reference, flip |-> s.flip]
      BY DEF Orientation!RecordKept
    <2>1. s.record.pose = s.reference /\ (s.record.flip <=> s.flip)
      BY DEF OrientationInv, Referenced
    <2>2. RecordTyped(s.record) /\ s.flip \in BOOLEAN
      BY DEF OrientationInv, TurnTyped
    <2> QED BY <2>1, <2>2 DEF RecordTyped
  <1>2. Orientation!Turned
    <2> SUFFICES ASSUME s.held > Settle PROVE s.applied = Candidate(s)
      BY DEF Orientation!Turned, Candidate
    <2>1. s.held > 0
      BY OrientationAssumption DEF OrientationInv, TurnTyped
    <2>2. s.applied <=> Candidate(s)
      BY <2>1 DEF OrientationInv, HeldInv
    <2>3. s.applied \in BOOLEAN /\ Candidate(s) \in BOOLEAN
      BY DEF OrientationInv, TurnTyped, Candidate
    <2> QED BY <2>2, <2>3
  <1> QED BY <1>1, <1>2 DEF Orientation!OrientationRight

-----------------------------------------------------------------------------
(* Motion: shakes *)

\* The device's age of an event, and that which is recorded of it, of which the latter is not shorter:
\* between two events, and at one.
Passed(age, last, pause) ==
  /\ age \in Int /\ age >= -1 /\ last \in Int /\ last >= -1
  /\ age < 0 <=> last < 0
  /\ age >= 0 => last >= age \/ last >= pause
Paused(age, last, pause) == age = 0 /\ last \in Int /\ last >= -1 /\ (last < 0 \/ last >= pause)
Recalls(event, age, last, pause) == (event => Paused(age, last, pause)) /\ (~event => Passed(age, last, pause))

\* At the next sample.
Aged(age, samples, pause) == IF age < 0 THEN age ELSE Motion!Older(age, samples, pause)

LEMMA PassedOn ==
  ASSUME NEW age, NEW last, NEW pause \in Nat, Passed(age, last, pause), NEW samples \in Nat,
         NEW next, next = Aged(age, samples, pause),
         NEW since, since = IF last < 0 THEN -1 ELSE Motion!Older(last, samples, pause)
  PROVE  Passed(next, since, pause) /\ (~(next >= 0 /\ next < pause) => Paused(0, since, pause))
  <1>1. age \in Int /\ age >= -1 /\ last \in Int /\ last >= -1 /\ (age < 0 <=> last < 0)
        /\ (age >= 0 => last >= age \/ last >= pause)
    BY DEF Passed
  <1>2. CASE age < 0
    <2>1. next = -1 /\ since = -1
      BY <1>1, <1>2 DEF Aged
    <2> QED BY <2>1 DEF Passed, Paused
  <1>3. CASE age >= 0
    <2>1. age \in Nat /\ last \in Nat /\ (last >= age \/ last >= pause)
      BY <1>1, <1>3
    <2>2. next = Motion!Older(age, samples, pause)
      BY <1>3, <2>1 DEF Aged
    <2>3. since = Motion!Older(last, samples, pause)
      BY <2>1
    <2>4. next \in 0 .. pause + 1 /\ (age + samples > pause => next = pause + 1)
          /\ (age + samples <= pause => next = age + samples)
      BY <2>1, <2>2 DEF Motion!Older
    <2>5. since \in 0 .. pause + 1 /\ (last + samples > pause => since = pause + 1)
          /\ (last + samples <= pause => since = last + samples)
      BY <2>1, <2>3 DEF Motion!Older
    <2>6. since >= next \/ since >= pause
      BY <2>1, <2>4, <2>5
    <2>7. next \in Int /\ next >= 0 /\ since \in Int /\ since >= 0
      BY <2>4, <2>5
    <2>8. ~(next >= 0 /\ next < pause) => since >= pause
      BY <2>4, <2>6, <2>7
    <2> QED BY <2>6, <2>7, <2>8 DEF Passed, Paused
  <1> QED BY <1>1, <1>2, <1>3

LEMMA RecallsOn ==
  ASSUME NEW age, NEW last, NEW pause \in Nat, NEW samples \in Nat,
         NEW next, next = Aged(age, samples, pause), NEW since,
         \/ Paused(age, last, pause) /\ since = samples
         \/ Passed(age, last, pause) /\ since = IF last < 0 THEN -1 ELSE Motion!Older(last, samples, pause)
  PROVE  Passed(next, since, pause) /\ (~(next >= 0 /\ next < pause) => Paused(0, since, pause))
  <1>1. CASE Paused(age, last, pause) /\ since = samples
    <2>1. next = Motion!Older(0, samples, pause)
      BY <1>1 DEF Paused, Aged
    <2>2. next \in 0 .. pause + 1 /\ (samples > pause => next = pause + 1) /\ (samples <= pause => next = samples)
      BY <2>1 DEF Motion!Older
    <2> QED BY <1>1, <2>2 DEF Passed, Paused
  <1> QED BY <1>1, PassedOn

Impulse == Motion!Directions \X BOOLEAN

\* The reversals of a history.
Turns(q) ==
  {i \in 2 .. Len(q) : (\A j \in i .. Len(q) : ~q[j][2]) /\ Motion!Opposed(q[i - 1][1], q[i][1])}

LEMMA TurnsFinite ==
  ASSUME NEW q \in Seq(Impulse)
  PROVE  IsFiniteSet(Turns(q)) /\ Len(q) + 1 \notin Turns(q)
  <1>1. IsFiniteSet(2 .. Len(q))
    BY FS_Interval
  <1>2. Turns(q) \subseteq 2 .. Len(q)
    BY DEF Turns
  <1> QED BY <1>1, <1>2, FS_Subset

LEMMA NoTurns == Turns(<<>>) = {} /\ Cardinality(Turns(<<>>)) = 0
  BY FS_EmptySet DEF Turns

LEMMA TurnsGrow ==
  ASSUME NEW q \in Seq(Impulse), NEW d \in Motion!Directions, NEW late \in BOOLEAN,
         NEW next, next = Append(q, <<d, late>>)
  PROVE  /\ next \in Seq(Impulse) /\ Len(next) = Len(q) + 1 /\ next[Len(next)][1] = d
         /\ late => Turns(next) = {}
         /\ ~late => Turns(next) = Turns(q) \cup (IF Len(q) > 0 /\ Motion!Opposed(q[Len(q)][1], d) THEN {Len(q) + 1} ELSE {})
  <1>1. <<d, late>> \in Impulse
    BY DEF Impulse
  <1>2. next \in Seq(Impulse) /\ Len(next) = Len(q) + 1 /\ next[Len(q) + 1] = <<d, late>>
        /\ \A i \in 1 .. Len(q) : next[i] = q[i]
    BY <1>1
  <1>3. Len(q) \in Nat
    OBVIOUS
  <1>4. ASSUME late PROVE Turns(next) = {}
    <2> SUFFICES ASSUME NEW i \in Turns(next) PROVE FALSE
      OBVIOUS
    <2>1. i \in 2 .. Len(q) + 1 /\ \A j \in i .. Len(q) + 1 : ~next[j][2]
      BY <1>2 DEF Turns
    <2>2. Len(q) + 1 \in i .. Len(q) + 1
      BY <1>3, <2>1
    <2> QED BY <1>2, <1>4, <2>1, <2>2
  <1>5. ASSUME ~late
        PROVE  Turns(next) = Turns(q) \cup (IF Len(q) > 0 /\ Motion!Opposed(q[Len(q)][1], d) THEN {Len(q) + 1} ELSE {})
    <2>1. ASSUME NEW i \in 2 .. Len(q)
          PROVE  i \in Turns(next) <=> i \in Turns(q)
      <3>1. (\A j \in i .. Len(next) : ~next[j][2]) <=> (\A j \in i .. Len(q) : ~q[j][2])
        <4>1. \A j \in i .. Len(q) : next[j][2] = q[j][2]
          BY <1>2, <2>1
        <4>2. \A j \in i .. Len(next) : j \in i .. Len(q) \/ j = Len(q) + 1
          BY <1>2, <1>3, <2>1
        <4>3. \A j \in i .. Len(q) : j \in i .. Len(next)
          BY <1>2, <1>3, <2>1
        <4>4. ~next[Len(q) + 1][2]
          BY <1>2, <1>5
        <4> QED BY <4>1, <4>2, <4>3, <4>4
      <3>2. next[i - 1] = q[i - 1] /\ next[i] = q[i]
        BY <1>2, <1>3, <2>1
      <3>3. i \in 2 .. Len(next)
        BY <1>2, <1>3, <2>1
      <3> QED BY <2>1, <3>1, <3>2, <3>3 DEF Turns
    <2>2. Len(q) + 1 \in Turns(next) <=> Len(q) > 0 /\ Motion!Opposed(q[Len(q)][1], d)
      <3>1. CASE Len(q) = 0
        BY <1>2, <3>1 DEF Turns
      <3>2. CASE Len(q) > 0
        <4>1. PICK i : i = Len(q) + 1
          OBVIOUS
        <4>2. i \in 2 .. Len(next) /\ i - 1 = Len(q) /\ Len(next) = i
          BY <1>2, <1>3, <3>2, <4>1
        <4>3. next[i - 1][1] = q[Len(q)][1] /\ next[i][1] = d /\ ~next[i][2]
          <5>1. Len(q) \in 1 .. Len(q)
            BY <1>3, <3>2
          <5>2. next[i - 1] = q[Len(q)]
            BY <1>2, <4>2, <5>1
          <5>3. next[i] = <<d, late>>
            BY <1>2, <4>1
          <5>4. next[i][1] = d
            BY <1>2, <4>1
          <5>5. ~next[i][2]
            BY <1>2, <1>5, <4>1
          <5> QED BY <5>2, <5>4, <5>5
        <4>4. \A j \in i .. Len(next) : ~next[j][2]
          <5>1. \A j \in i .. Len(next) : j = i
            BY <1>3, <4>1, <4>2
          <5> QED BY <4>3, <5>1
        <4>5. i \in Turns(next) <=> Motion!Opposed(next[i - 1][1], next[i][1])
          BY <4>2, <4>4 DEF Turns, Motion!Opposed
        <4>6. Motion!Opposed(next[i - 1][1], next[i][1]) <=> Motion!Opposed(q[Len(q)][1], d)
          BY <4>3 DEF Motion!Opposed
        <4> QED BY <3>2, <4>1, <4>5, <4>6
      <3> QED BY <1>3, <3>1, <3>2
    <2>3. Turns(next) \subseteq 2 .. Len(q) + 1 /\ Turns(q) \subseteq 2 .. Len(q)
      BY <1>2 DEF Turns
    <2>4. \A i \in 2 .. Len(q) + 1 : i \in 2 .. Len(q) \/ i = Len(q) + 1
      BY <1>3
    <2>5. CASE Len(q) > 0 /\ Motion!Opposed(q[Len(q)][1], d)
      <3>1. Turns(next) = Turns(q) \cup {Len(q) + 1}
        BY <2>1, <2>2, <2>3, <2>4, <2>5
      <3> QED BY <2>5, <3>1
    <2>6. CASE ~(Len(q) > 0 /\ Motion!Opposed(q[Len(q)][1], d))
      <3>1. Turns(next) = Turns(q)
        BY <2>1, <2>2, <2>3, <2>4, <2>6
      <3> QED BY <2>6, <3>1
    <2> QED BY <2>5, <2>6
  <1> QED BY <1>2, <1>4, <1>5

\* One more impulse: the count of the device is that of the history.
LEMMA TurnsCounted ==
  ASSUME NEW h \in Seq(Impulse), NEW strong \in BOOLEAN, strong <=> h # <<>>, NEW reversals \in 0 .. 2,
         strong => Cardinality(Turns(h)) = reversals,
         NEW d \in Motion!Directions, NEW late \in BOOLEAN,
         NEW r, r = (IF ~strong \/ late THEN 0 ELSE reversals + (IF Motion!Opposed(d, h[Len(h)][1]) THEN 1 ELSE 0))
  PROVE  r \in 0 .. 3 /\ Cardinality(Turns(Append(h, <<d, late>>))) = r
  <1> DEFINE next == Append(h, <<d, late>>)
  <1>1. /\ late => Turns(next) = {}
        /\ ~late => Turns(next) = Turns(h) \cup (IF Len(h) > 0 /\ Motion!Opposed(h[Len(h)][1], d) THEN {Len(h) + 1} ELSE {})
    BY TurnsGrow
  <1> HIDE DEF next
  <1>2. ASSUME late PROVE r \in 0 .. 3 /\ Cardinality(Turns(next)) = r
    <2>1. r = 0 /\ Turns(next) = {}
      BY <1>1, <1>2
    <2>2. Cardinality({}) = 0
      BY FS_EmptySet
    <2>3. Cardinality(Turns(next)) = 0
      BY <2>1, <2>2
    <2>4. r \in 0 .. 3
      BY <2>1
    <2> QED BY <2>1, <2>3, <2>4
  <1>3. ASSUME ~late, ~strong PROVE r \in 0 .. 3 /\ Cardinality(Turns(next)) = r
    <2>1. h = <<>> /\ Len(h) = 0
      BY <1>3
    <2>2. Turns(next) = {}
      BY <1>1, <1>3, <2>1, NoTurns
    <2>3. r = 0 /\ Cardinality({}) = 0
      BY <1>3, FS_EmptySet
    <2>4. Cardinality(Turns(next)) = 0
      BY <2>2, <2>3
    <2>5. r \in 0 .. 3
      BY <2>3
    <2> QED BY <2>3, <2>4, <2>5
  <1>4. ASSUME ~late, strong PROVE r \in 0 .. 3 /\ Cardinality(Turns(next)) = r
    <2>1. Len(h) > 0 /\ Cardinality(Turns(h)) = reversals
      BY <1>4
    <2>2. Motion!Opposed(h[Len(h)][1], d) <=> Motion!Opposed(d, h[Len(h)][1])
      BY DEF Motion!Opposed
    <2>3. IsFiniteSet(Turns(h)) /\ Len(h) + 1 \notin Turns(h)
      BY TurnsFinite
    <2>4. CASE Motion!Opposed(d, h[Len(h)][1])
      <3>1. r = reversals + 1
        BY <1>4, <2>4
      <3>2. Turns(next) = Turns(h) \cup {Len(h) + 1}
        BY <1>1, <1>4, <2>1, <2>2, <2>4
      <3>3. Cardinality(Turns(next)) = Cardinality(Turns(h)) + 1
        BY <2>3, <3>2, FS_AddElement
      <3> QED BY <2>1, <3>1, <3>3
    <2>5. CASE ~Motion!Opposed(d, h[Len(h)][1])
      <3>1. r = reversals
        BY <1>4, <2>5
      <3>2. Turns(next) = Turns(h)
        BY <1>1, <1>4, <2>1, <2>2, <2>5
      <3> QED BY <2>1, <3>1, <3>2
    <2> QED BY <2>4, <2>5
  <1> QED BY <1>2, <1>3, <1>4 DEF next

ShakeFields == {"unit", "strong", "reversals", "previous", "strongAge", "shakeAge", "shake", "impulses", "last", "replaced"}

\* The fields between a shake and the next impulse.
ShakeTyped(x) ==
  /\ DOMAIN x = ShakeFields /\ x.unit = "shake"
  /\ x.strong \in BOOLEAN /\ x.shake \in BOOLEAN /\ x.previous \in Motion!Directions
  /\ x.strongAge \in Nat /\ x.impulses \in Seq(Impulse) /\ x.reversals \in 0 .. 2
  /\ x.replaced \in BOOLEAN /\ x.last \in Int /\ x.last >= -1

\* What is recorded of the shakes of this filter: nothing, if the last one was another's.
Own(replaced, last) == IF replaced THEN -1 ELSE last

\* The device counts the reversals of the history, and remembers its last impulse.
CountsTurns(strong, reversals, previous, h) ==
  /\ strong <=> h # <<>>
  /\ strong => Cardinality(Turns(h)) = reversals /\ previous = h[Len(h)][1]
  /\ ~strong => reversals = 0

ShakeInv(x) ==
  /\ ShakeTyped(x)
  /\ x.shake => ~x.strong /\ x.reversals = 0 /\ Cardinality(Turns(x.impulses)) = 3
  /\ ~x.shake => CountsTurns(x.strong, x.reversals, x.previous, x.impulses)
  /\ Recalls(x.shake, x.shakeAge, Own(x.replaced, x.last), ShakePause)

LEMMA ShakeBegins == Motion!ShakeInit => ShakeInv(s)
  <1> SUFFICES ASSUME Motion!ShakeInit PROVE ShakeInv(s)
    OBVIOUS
  <1>1. s = [unit |-> "shake", strong |-> FALSE, reversals |-> 0, previous |-> "side", strongAge |-> 0, shakeAge |-> -1,
             shake |-> FALSE, impulses |-> <<>>, last |-> -1, replaced |-> FALSE]
    BY DEF Motion!ShakeInit
  <1>2. ShakeTyped(s) /\ ~s.shake /\ s.impulses = <<>> /\ ~s.strong /\ s.reversals = 0 /\ s.shakeAge = -1 /\ s.last = -1
        /\ s.replaced = FALSE
    BY <1>1 DEF ShakeTyped, ShakeFields, Motion!Directions
  <1> QED BY <1>2 DEF ShakeInv, CountsTurns, Recalls, Passed, Own

LEMMA ShakeMade ==
  ASSUME NEW y, DOMAIN y = ShakeFields, y.unit = "shake", NEW strong \in BOOLEAN, y.strong = strong,
         NEW shake \in BOOLEAN, y.shake = shake, y.previous \in Motion!Directions,
         y.strongAge \in Nat, y.impulses \in Seq(Impulse), y.reversals \in 0 .. 2,
         NEW replaced \in BOOLEAN, y.replaced = replaced, y.last \in Int, y.last >= -1
  PROVE  ShakeTyped(y)
  BY DEF ShakeTyped

\* A sample of none is weak.
Weak == ""

LEMMA DetectCases ==
  ASSUME NEW x, NEW d, NEW enabled
  PROVE  Motion!Detect(x, d, enabled)
           = IF ~enabled THEN [x EXCEPT !.strong = FALSE, !.reversals = 0]
             ELSE IF Motion!Cools(x) \/ d = Weak THEN x ELSE Motion!Impulse(x, d)
  BY Zenon DEF Motion!Detect, Weak

\* The record of what was seen is not the filter's.
LEMMA DetectKeeps ==
  ASSUME NEW x, DOMAIN x = ShakeFields, NEW d, NEW enabled
  PROVE  /\ Motion!Detect(x, d, enabled).last = x.last
         /\ Motion!Detect(x, d, enabled).replaced = x.replaced
  <1>1. CASE Motion!Detect(x, d, enabled) = x
    BY <1>1
  <1>2. CASE Motion!Detect(x, d, enabled) = [x EXCEPT !.strong = FALSE, !.reversals = 0]
    BY <1>2 DEF ShakeFields
  <1>3. CASE Motion!Detect(x, d, enabled) = Motion!Impulse(x, d)
    <2>1. PICK r : r = (IF ~x.strong \/ x.strongAge > Between THEN 0
                        ELSE x.reversals + (IF Motion!Opposed(d, x.previous) THEN 1 ELSE 0))
      OBVIOUS
    <2>2. PICK b : b = [x EXCEPT !.previous = d, !.strongAge = 0, !.strong = r < 3, !.reversals = IF r < 3 THEN r ELSE 0]
      OBVIOUS
    <2>3. Motion!Impulse(x, d) = IF r < 3 THEN b ELSE [b EXCEPT !.shake = TRUE, !.shakeAge = 0]
      BY <2>1, <2>2, Zenon DEF Motion!Impulse
    <2>4. DOMAIN b = ShakeFields /\ b.last = x.last /\ b.replaced = x.replaced
      BY <2>2 DEF ShakeFields
    <2> QED BY <1>3, <2>3, <2>4 DEF ShakeFields
  <1> QED BY <1>1, <1>2, <1>3, DetectCases

LEMMA ShakeSteps ==
  ASSUME ShakeInv(s), NEW samples \in Nat, NEW d, d \in Motion!Directions \/ d = Weak, NEW enabled \in BOOLEAN,
         Motion!Shaken(samples, d, enabled)
  PROVE  ShakeInv(s')
  <1>1. PICK aged, cooled : aged = (IF s.strong THEN Motion!Older(s.strongAge, samples, Between) ELSE 0)
                            /\ cooled = Aged(s.shakeAge, samples, ShakePause)
    OBVIOUS
  <1>2. PICK x : x = [s EXCEPT !.shake = FALSE, !.strongAge = aged, !.shakeAge = cooled]
    OBVIOUS
  <1>3. PICK impulses, since, again :
               /\ impulses = Motion!Recorded(d, enabled, Motion!Cools(x), x.strongAge)
               /\ since = Motion!Since(s.shake, Motion!Detect(x, d, enabled).last, samples, ShakePause)
               /\ again = (Motion!Detect(x, d, enabled).replaced /\ ~s.shake)
    OBVIOUS
  <1>4. s' = [Motion!Detect(x, d, enabled) EXCEPT !.impulses = impulses, !.last = since, !.replaced = again]
    <2>1. x = [s EXCEPT !.shake = FALSE, !.strongAge = IF s.strong THEN Motion!Older(@, samples, Between) ELSE 0,
                        !.shakeAge = IF @ < 0 THEN @ ELSE Motion!Older(@, samples, ShakePause)]
      BY <1>1, <1>2 DEF Aged
    <2> QED BY <1>3, <2>1, Zenon DEF Motion!Shaken
  <1>5. ShakeTyped(s) /\ s.shake \in BOOLEAN /\ Between \in Nat /\ ShakePause \in Nat
    BY MotionAssumption DEF ShakeInv, ShakeTyped
  <1>6. aged \in Nat
    <2>1. s.strongAge \in Nat
      BY <1>5 DEF ShakeTyped
    <2>2. Motion!Older(s.strongAge, samples, Between) \in Nat
      BY <1>5, <2>1 DEF Motion!Older
    <2> QED BY <1>1, <2>2
  <1>7. /\ DOMAIN x = ShakeFields /\ x.unit = "shake" /\ x.strong = s.strong /\ x.reversals = s.reversals
        /\ x.previous = s.previous /\ x.strongAge = aged /\ x.shakeAge = cooled /\ x.shake = FALSE
        /\ x.impulses = s.impulses /\ x.last = s.last /\ x.replaced = s.replaced
    BY <1>2, <1>5 DEF ShakeTyped, ShakeFields
  <1>14. since = Motion!Since(s.shake, s.last, samples, ShakePause) /\ again = (s.replaced /\ ~s.shake)
    BY <1>3, <1>7, DetectKeeps
  <1>15. again \in BOOLEAN /\ since \in Int /\ since >= -1
    <2>1. again \in BOOLEAN
      BY <1>14
    <2>2. s.last \in Int /\ s.last >= -1
      BY <1>5 DEF ShakeTyped
    <2> QED BY <1>5, <1>14, <2>1, <2>2 DEF Motion!Since, Motion!Older
  <1>16. PICK own, told : own = Own(s.replaced, s.last) /\ told = Own(again, since)
    OBVIOUS
  <1>8. Passed(cooled, told, ShakePause) /\ (~(cooled >= 0 /\ cooled < ShakePause) => Paused(0, told, ShakePause))
    <2>1. Recalls(s.shake, s.shakeAge, own, ShakePause)
      BY <1>16 DEF ShakeInv
    <2>2. CASE s.shake
      <3>1. again = FALSE /\ since = samples
        BY <1>14, <2>2 DEF Motion!Since
      <3>2. Paused(s.shakeAge, own, ShakePause) /\ told = samples
        BY <1>16, <2>1, <2>2, <3>1 DEF Recalls, Own
      <3> QED BY <1>1, <1>5, <3>2, RecallsOn
    <2>3. CASE ~s.shake
      <3>1. Passed(s.shakeAge, own, ShakePause)
        BY <2>1, <2>3 DEF Recalls
      <3>2. told = IF own < 0 THEN -1 ELSE Motion!Older(own, samples, ShakePause)
        <4>1. since = IF s.last < 0 THEN -1 ELSE Motion!Older(s.last, samples, ShakePause)
          BY <1>14, <2>3 DEF Motion!Since
        <4>2. CASE s.replaced
          <5>1. again
            BY <1>14, <2>3, <4>2
          <5>2. own = -1 /\ told = -1
            BY <1>16, <4>2, <5>1 DEF Own
          <5> QED BY <5>2
        <4>3. CASE ~s.replaced
          <5>1. ~again
            BY <1>14, <4>3
          <5>2. own = s.last /\ told = since
            BY <1>16, <4>3, <5>1 DEF Own
          <5> QED BY <4>1, <5>2
        <4> QED BY <4>2, <4>3
      <3> QED BY <1>1, <1>5, <3>1, <3>2, RecallsOn
    <2> QED BY <2>2, <2>3
  <1>9. PICK h : h = (IF s.shake THEN <<>> ELSE s.impulses)
    OBVIOUS
  <1>10. h \in Seq(Impulse) /\ CountsTurns(s.strong, s.reversals, s.previous, h)
    <2>1. CASE s.shake
      <3>1. h = <<>> /\ ~s.strong /\ s.reversals = 0
        BY <1>9, <2>1 DEF ShakeInv
      <3>2. h \in Seq(Impulse)
        BY <3>1
      <3> QED BY <3>1, <3>2, Zenon DEF CountsTurns
    <2>2. CASE ~s.shake
      BY <1>5, <1>9, <2>2 DEF ShakeInv, ShakeTyped
    <2> QED BY <2>1, <2>2
  <1>11. CASE ~enabled
    <2>1. impulses = <<>>
      BY <1>3, <1>9, <1>11, Zenon DEF Motion!Recorded
    <2>2. Motion!Detect(x, d, enabled) = [x EXCEPT !.strong = FALSE, !.reversals = 0]
      BY <1>11, DetectCases
    <2>3. /\ DOMAIN s' = ShakeFields /\ s'.unit = "shake" /\ s'.strong = FALSE /\ s'.reversals = 0
          /\ s'.previous = s.previous /\ s'.strongAge = aged /\ s'.shakeAge = cooled /\ s'.shake = FALSE
          /\ s'.impulses = impulses /\ s'.last = since /\ s'.replaced = again
      BY <1>4, <1>7, <2>2 DEF ShakeFields
    <2>4. ShakeTyped(s')
      <3>1. s.previous \in Motion!Directions /\ impulses \in Seq(Impulse) /\ 0 \in 0 .. 2
        BY <1>5, <2>1 DEF ShakeTyped
      <3> QED BY <1>6, <2>3, <3>1, <1>15, ShakeMade
    <2>5. CountsTurns(s'.strong, s'.reversals, s'.previous, s'.impulses)
      BY <2>1, <2>3 DEF CountsTurns
    <2> QED BY <1>8, <1>16, <2>3, <2>4, <2>5 DEF ShakeInv, Recalls
  <1>12. CASE enabled /\ (Motion!Cools(x) \/ d = Weak)
    <2>1. impulses = h
      <3>1. Motion!Recorded(d, enabled, Motion!Cools(x), x.strongAge) = h
        <4>1. PICK cools \in BOOLEAN : cools = Motion!Cools(x)
          BY DEF Motion!Cools
        <4>2. cools \/ d = Weak
          BY <1>12, <4>1
        <4>3. Motion!Recorded(d, enabled, cools, x.strongAge) = h
          BY <1>9, <1>12, <4>2, Zenon DEF Motion!Recorded, Weak
        <4> QED BY <4>1, <4>3
      <3> QED BY <1>3, <3>1
    <2>2. Motion!Detect(x, d, enabled) = x
      BY <1>12, DetectCases
    <2>3. /\ DOMAIN s' = ShakeFields /\ s'.unit = "shake" /\ s'.strong = s.strong /\ s'.reversals = s.reversals
          /\ s'.previous = s.previous /\ s'.strongAge = aged /\ s'.shakeAge = cooled /\ s'.shake = FALSE
          /\ s'.impulses = impulses /\ s'.last = since /\ s'.replaced = again
      BY <1>4, <1>7, <2>2 DEF ShakeFields
    <2>4. ShakeTyped(s')
      <3>1. s.previous \in Motion!Directions /\ s.reversals \in 0 .. 2 /\ s.strong \in BOOLEAN
        BY <1>5 DEF ShakeTyped
      <3> QED BY <1>6, <1>10, <2>1, <2>3, <3>1, <1>15, ShakeMade
    <2>5. CountsTurns(s'.strong, s'.reversals, s'.previous, s'.impulses)
      BY <1>10, <2>1, <2>3 DEF CountsTurns
    <2> QED BY <1>8, <1>16, <2>3, <2>4, <2>5 DEF ShakeInv, Recalls
  <1>13. CASE enabled /\ ~Motion!Cools(x) /\ d # Weak
    <2>1. PICK late \in BOOLEAN : late <=> aged > Between
      OBVIOUS
    <2>2. impulses = Append(h, <<d, late>>) /\ d \in Motion!Directions
      <3>1. impulses = Append(h, <<d, x.strongAge > Between>>)
        BY <1>3, <1>9, <1>13, Zenon DEF Motion!Recorded, Weak
      <3>2. late = (aged > Between)
        <4>1. CASE aged > Between
          BY <2>1, <4>1
        <4>2. CASE ~(aged > Between)
          BY <2>1, <4>2
        <4> QED BY <4>1, <4>2
      <3> QED BY <1>7, <1>13, <3>1, <3>2
    <2>3. PICK r : r = (IF ~s.strong \/ late THEN 0 ELSE s.reversals + (IF Motion!Opposed(d, s.previous) THEN 1 ELSE 0))
      OBVIOUS
    <2>4. r \in 0 .. 3 /\ Cardinality(Turns(impulses)) = r
      <3>1. s.strong \in BOOLEAN /\ s.reversals \in 0 .. 2
        BY <1>5 DEF ShakeTyped
      <3>2. /\ s.strong <=> h # <<>>
            /\ s.strong => Cardinality(Turns(h)) = s.reversals /\ s.previous = h[Len(h)][1]
        BY <1>10 DEF CountsTurns
      <3>3. PICK strong \in BOOLEAN, reversals \in 0 .. 2 : strong = s.strong /\ reversals = s.reversals
        BY <3>1
      <3>4. (strong <=> h # <<>>) /\ (strong => Cardinality(Turns(h)) = reversals)
        BY <3>2, <3>3
      <3>5. r = (IF ~strong \/ late THEN 0 ELSE reversals + (IF Motion!Opposed(d, h[Len(h)][1]) THEN 1 ELSE 0))
        BY <2>3, <3>2, <3>3
      <3>6. h \in Seq(Impulse) /\ d \in Motion!Directions
        BY <1>10, <2>2
      <3>7. late \in BOOLEAN /\ strong \in BOOLEAN /\ reversals \in 0 .. 2
        BY <2>1, <3>3
      <3> HIDE <2>1, <3>3
      <3>8. r \in 0 .. 3
        BY <3>4, <3>5, <3>6, <3>7, TurnsCounted
      <3>9. Cardinality(Turns(Append(h, <<d, late>>))) = r
        BY <3>4, <3>5, <3>6, <3>7, TurnsCounted
      <3> QED BY <2>2, <3>8, <3>9
    <2>5. impulses \in Seq(Impulse) /\ Len(impulses) > 0 /\ impulses # <<>> /\ impulses[Len(impulses)][1] = d
      <3>1. impulses \in Seq(Impulse) /\ Len(impulses) = Len(h) + 1 /\ impulses[Len(impulses)][1] = d
        BY <1>10, <2>1, <2>2, TurnsGrow
      <3>2. Len(h) \in Nat
        BY <1>10
      <3>3. Len(impulses) > 0
        BY <3>1, <3>2
      <3> QED BY <3>1, <3>3
    <2>6. r = (IF ~x.strong \/ x.strongAge > Between THEN 0
               ELSE x.reversals + (IF Motion!Opposed(d, x.previous) THEN 1 ELSE 0))
      BY <1>7, <2>1, <2>3
    <2>7. Paused(0, told, ShakePause)
      BY <1>7, <1>8, <1>13 DEF Motion!Cools
    <2>8. CASE r < 3
      <3>1. Motion!Detect(x, d, enabled)
              = [x EXCEPT !.previous = d, !.strongAge = 0, !.strong = TRUE, !.reversals = r]
        <4>1. Motion!Detect(x, d, enabled) = Motion!Impulse(x, d)
          BY <1>13, DetectCases
        <4>2. r < 3 /\ (r < 3) = TRUE
          BY <2>8
        <4>3. Motion!Impulse(x, d) = [x EXCEPT !.previous = d, !.strongAge = 0, !.strong = r < 3,
                                       !.reversals = IF r < 3 THEN r ELSE 0]
          BY <2>6, <4>2, Zenon DEF Motion!Impulse
        <4> QED BY <1>7, <4>1, <4>2, <4>3 DEF ShakeFields
      <3>2. /\ DOMAIN s' = ShakeFields /\ s'.unit = "shake" /\ s'.strong = TRUE /\ s'.reversals = r
            /\ s'.previous = d /\ s'.strongAge = 0 /\ s'.shakeAge = cooled /\ s'.shake = FALSE
            /\ s'.impulses = impulses /\ s'.last = since /\ s'.replaced = again
        BY <1>4, <1>7, <3>1 DEF ShakeFields
      <3>3. ShakeTyped(s')
        <4>1. r \in 0 .. 2 /\ 0 \in Nat
          BY <2>4, <2>8
        <4> QED BY <2>2, <2>5, <3>2, <4>1, <1>15, ShakeMade
      <3>4. CountsTurns(s'.strong, s'.reversals, s'.previous, s'.impulses)
        BY <2>4, <2>5, <3>2 DEF CountsTurns
      <3> QED BY <1>8, <1>16, <3>2, <3>3, <3>4 DEF ShakeInv, Recalls
    <2>9. CASE r >= 3
      <3>1. Motion!Detect(x, d, enabled)
              = [x EXCEPT !.previous = d, !.strongAge = 0, !.strong = FALSE, !.reversals = 0, !.shake = TRUE, !.shakeAge = 0]
        <4>1. Motion!Detect(x, d, enabled) = Motion!Impulse(x, d)
          BY <1>13, DetectCases
        <4>2. ~(r < 3) /\ (r < 3) = FALSE
          BY <2>4, <2>9
        <4>3. Motion!Impulse(x, d) = [[x EXCEPT !.previous = d, !.strongAge = 0, !.strong = r < 3,
                                       !.reversals = IF r < 3 THEN r ELSE 0] EXCEPT !.shake = TRUE, !.shakeAge = 0]
          BY <2>6, <4>2, Zenon DEF Motion!Impulse
        <4> QED BY <1>7, <4>1, <4>2, <4>3 DEF ShakeFields
      <3>2. /\ DOMAIN s' = ShakeFields /\ s'.unit = "shake" /\ s'.strong = FALSE /\ s'.reversals = 0
            /\ s'.previous = d /\ s'.strongAge = 0 /\ s'.shakeAge = 0 /\ s'.shake = TRUE
            /\ s'.impulses = impulses /\ s'.last = since /\ s'.replaced = again
        BY <1>4, <1>7, <3>1 DEF ShakeFields
      <3>3. ShakeTyped(s')
        <4>1. 0 \in 0 .. 2 /\ 0 \in Nat
          OBVIOUS
        <4> QED BY <2>2, <2>5, <3>2, <4>1, <1>15, ShakeMade
      <3>4. Cardinality(Turns(s'.impulses)) = 3
        BY <2>4, <2>9, <3>2
      <3>5. Recalls(s'.shake, s'.shakeAge, Own(s'.replaced, s'.last), ShakePause)
        BY <1>16, <2>7, <3>2 DEF Recalls
      <3> QED BY <3>2, <3>3, <3>4, <3>5 DEF ShakeInv
    <2> QED BY <2>4, <2>8, <2>9
  <1> QED BY <1>11, <1>12, <1>13

\* Another filter has counted nothing, and cools from nothing.
LEMMA ReplaceSteps ==
  ASSUME ShakeInv(s), NEW samples \in Nat, Motion!Replaced(samples)
  PROVE  ShakeInv(s')
  <1>1. PICK since : since = Motion!Since(s.shake, s.last, samples, ShakePause)
    OBVIOUS
  <1>2. s' = [s EXCEPT !.strong = FALSE, !.reversals = 0, !.previous = "side", !.strongAge = 0, !.shakeAge = -1,
                       !.shake = FALSE, !.impulses = <<>>, !.last = since, !.replaced = TRUE]
    BY <1>1, Zenon DEF Motion!Replaced
  <1>3. ShakeTyped(s)
    BY DEF ShakeInv
  <1>4. since \in Int /\ since >= -1
    <2>1. s.last \in Int /\ s.last >= -1 /\ ShakePause \in Nat
      BY <1>3, MotionAssumption DEF ShakeTyped
    <2> QED BY <1>1, <2>1 DEF Motion!Since, Motion!Older
  <1>5. /\ DOMAIN s' = ShakeFields /\ s'.unit = "shake" /\ s'.strong = FALSE /\ s'.reversals = 0
        /\ s'.previous = "side" /\ s'.strongAge = 0 /\ s'.shakeAge = -1 /\ s'.shake = FALSE
        /\ s'.impulses = <<>> /\ s'.last = since /\ s'.replaced = TRUE
    BY <1>2, <1>3 DEF ShakeTyped, ShakeFields
  <1>6. ShakeTyped(s')
    <2>1. s'.previous \in Motion!Directions /\ s'.impulses \in Seq(Impulse) /\ s'.strongAge \in Nat /\ s'.reversals \in 0 .. 2
      BY <1>5 DEF Motion!Directions
    <2> QED BY <1>4, <1>5, <2>1 DEF ShakeTyped
  <1> QED BY <1>5, <1>6 DEF ShakeInv, CountsTurns, Recalls, Passed, Own

\* The copy of Cardinality that Motion extends.
LEMMA SameCount == ASSUME NEW S PROVE Motion!Cardinality(S) = Cardinality(S)
  BY DEF Motion!Cardinality, Cardinality

LEMMA ShakesRight ==
  ASSUME ShakeInv(s)
  PROVE  Motion!ShakesDeliberate
  <1>1. Motion!Reversals = Turns(s.impulses)
    BY DEF Motion!Reversals, Motion!Unbroken, Turns
  <1>2. CASE s.shake
    <2>1. Cardinality(Motion!Reversals) = 3 /\ Paused(s.shakeAge, Own(s.replaced, s.last), ShakePause)
      BY <1>1, <1>2 DEF ShakeInv, Recalls
    <2>2. Cardinality(Motion!Reversals) >= 3
      BY <2>1
    <2>3. s.last < 0 \/ s.last >= ShakePause \/ s.replaced
      BY <2>1 DEF Paused, Own
    <2>4. s.shake <=> Motion!Cardinality(Motion!Reversals) >= 3
      BY <1>2, <2>2, SameCount
    <2> QED BY <2>3, <2>4 DEF Motion!ShakesDeliberate
  <1>3. CASE ~s.shake
    <2>1. Cardinality(Turns(s.impulses)) \in 0 .. 2
      BY <1>3, NoTurns DEF ShakeInv, ShakeTyped, CountsTurns
    <2>2. ~(Cardinality(Motion!Reversals) >= 3)
      BY <1>1, <2>1
    <2>3. s.shake <=> Motion!Cardinality(Motion!Reversals) >= 3
      BY <1>3, <2>2, SameCount
    <2> QED BY <1>3, <2>3 DEF Motion!ShakesDeliberate
  <1> QED BY <1>2, <1>3

-----------------------------------------------------------------------------
(* Motion: lifts *)

LEMMA OlderKeeps ==
  ASSUME NEW a \in Nat, NEW b \in Nat, a <= b, NEW samples \in Nat, NEW limit \in Nat
  PROVE  /\ Motion!Older(a, samples, limit) \in Nat
         /\ Motion!Older(a, samples, limit) <= Motion!Older(b, samples, limit)
  BY DEF Motion!Older

LiftFields ==
  {"unit", "sampled", "quiet", "armed", "moving", "previous", "parked", "quietAge", "motionAge", "liftAge", "lift",
   "calm", "rests", "last"}

PolicyTyped(x) ==
  /\ DOMAIN x = LiftFields /\ x.unit = "lift"
  /\ x.quiet \in BOOLEAN /\ x.armed \in BOOLEAN /\ x.moving \in BOOLEAN /\ x.lift \in BOOLEAN
  /\ x.quietAge \in Nat /\ x.motionAge \in Nat /\ x.parked \in Motion!Poses

\* What the policy knows of a rest is what the record has of it.
Known(x, calm, rests) ==
  /\ x.quiet => x.quietAge <= calm
  /\ x.armed => <<x.parked, -1>> \in rests
  /\ x.moving => <<x.parked, x.motionAge>> \in rests /\ x.motionAge <= Window
  /\ ~x.armed \/ ~x.moving

\* The body of LiftsSettle, but for the pause.
Settled(previous, calm, rests) ==
  (\E r \in rests : r[2] >= 0 /\ Motion!Apart(previous, r[1]) >= 2) /\ calm >= LiftSettle

\* A rest of its own begins after a lift.
Begun(x, previous, calm, rests) == x.lift => ~x.quiet /\ ~x.armed /\ ~x.moving /\ Settled(previous, calm, rests)

LiftInv(x) ==
  /\ PolicyTyped(x) /\ x.calm \in Nat
  /\ Known(x, x.calm, x.rests)
  /\ Begun(x, x.previous, x.calm, x.rests)
  /\ Recalls(x.lift, x.liftAge, x.last, LiftPause)

LEMMA LiftBegins == Motion!LiftInit => LiftInv(s)
  <1> SUFFICES ASSUME Motion!LiftInit PROVE LiftInv(s)
    OBVIOUS
  <1>1. s = [unit |-> "lift", sampled |-> FALSE, quiet |-> FALSE, armed |-> FALSE, moving |-> FALSE, previous |-> -1,
             parked |-> 0, quietAge |-> 0, motionAge |-> 0, liftAge |-> -1, lift |-> FALSE, calm |-> 0, rests |-> {},
             last |-> -1]
    BY DEF Motion!LiftInit
  <1>2. PolicyTyped(s) /\ s.calm = 0 /\ s.lift = FALSE /\ s.quiet = FALSE /\ s.armed = FALSE /\ s.moving = FALSE
        /\ s.liftAge = -1 /\ s.last = -1
    BY <1>1 DEF PolicyTyped, LiftFields, Motion!Poses
  <1> QED BY <1>2 DEF LiftInv, Known, Begun, Recalls, Passed

LEMMA HaltedFields ==
  ASSUME NEW x, DOMAIN x = LiftFields, NEW y, y = Motion!Halted(x)
  PROVE  /\ DOMAIN y = LiftFields /\ y.unit = x.unit /\ y.quiet = FALSE /\ y.armed = FALSE /\ y.moving = FALSE
         /\ y.lift = x.lift /\ y.quietAge = x.quietAge /\ y.motionAge = x.motionAge /\ y.parked = x.parked
         /\ y.liftAge = x.liftAge /\ y.last = x.last
  BY DEF Motion!Halted, LiftFields

\* What is not read again is forgotten.
LEMMA ForgotRight ==
  ASSUME NEW x, PolicyTyped(x), NEW y, y = Motion!Forgot(x)
  PROVE  /\ PolicyTyped(y) /\ y.lift = x.lift /\ y.quiet = x.quiet /\ y.armed = x.armed /\ y.moving = x.moving
         /\ y.liftAge = x.liftAge /\ y.last = x.last /\ y.calm = x.calm /\ y.rests = x.rests /\ y.previous = x.previous
         /\ x.quiet => y.quietAge = x.quietAge
         /\ x.armed \/ x.moving => y.parked = x.parked
         /\ x.moving => y.motionAge = x.motionAge
  <1>1. PICK a, b, c : /\ a = (IF x.quiet THEN x.quietAge ELSE 0) /\ b = (IF x.moving THEN x.motionAge ELSE 0)
                       /\ c = (IF x.armed \/ x.moving THEN x.parked ELSE 0)
    OBVIOUS
  <1>2. a \in Nat /\ b \in Nat /\ c \in Motion!Poses
    BY <1>1 DEF PolicyTyped, Motion!Poses
  <1>3. y = [x EXCEPT !.quietAge = a, !.motionAge = b, !.parked = c]
    BY <1>1 DEF Motion!Forgot, PolicyTyped, LiftFields
  <1>4. /\ DOMAIN y = LiftFields /\ y.unit = x.unit /\ y.lift = x.lift /\ y.quiet = x.quiet /\ y.armed = x.armed
        /\ y.moving = x.moving /\ y.liftAge = x.liftAge /\ y.last = x.last /\ y.calm = x.calm /\ y.rests = x.rests
        /\ y.previous = x.previous /\ y.quietAge = a /\ y.motionAge = b /\ y.parked = c
    BY <1>3 DEF PolicyTyped, LiftFields
  <1>5. PolicyTyped(y)
    BY <1>2, <1>4 DEF PolicyTyped
  <1> QED BY <1>1, <1>4, <1>5

\* A sample is over: what is known of the policy is known of the state.
LEMMA SampleOver ==
  ASSUME NEW m, PolicyTyped(m), NEW samples, NEW pose, NEW force, NEW held, held = Motion!Held(m, samples, pose, force),
         held.calm \in Nat, Known(m, held.calm, held.rests), Begun(m, held.previous, held.calm, held.rests),
         Recalls(m.lift, m.liftAge, m.last, LiftPause), s' = Motion!Forgot(held)
  PROVE  LiftInv(s')
  <1>1. PICK a, b, c : held = [m EXCEPT !.calm = a, !.previous = b, !.rests = c]
    BY Zenon DEF Motion!Held
  <1>2. /\ DOMAIN held = LiftFields /\ held.unit = m.unit /\ held.lift = m.lift /\ held.quiet = m.quiet
        /\ held.armed = m.armed /\ held.moving = m.moving /\ held.liftAge = m.liftAge /\ held.last = m.last
        /\ held.quietAge = m.quietAge /\ held.motionAge = m.motionAge /\ held.parked = m.parked
    BY <1>1 DEF PolicyTyped, LiftFields
  <1>3. PolicyTyped(held)
    BY <1>2 DEF PolicyTyped
  <1>4. /\ PolicyTyped(s') /\ s'.lift = held.lift /\ s'.quiet = held.quiet /\ s'.armed = held.armed
        /\ s'.moving = held.moving /\ s'.liftAge = held.liftAge /\ s'.last = held.last /\ s'.calm = held.calm
        /\ s'.rests = held.rests /\ s'.previous = held.previous
        /\ held.quiet => s'.quietAge = held.quietAge
        /\ held.armed \/ held.moving => s'.parked = held.parked
        /\ held.moving => s'.motionAge = held.motionAge
    BY <1>3, ForgotRight
  <1>5. Known(s', s'.calm, s'.rests)
    BY <1>2, <1>4 DEF Known
  <1>6. Begun(s', s'.previous, s'.calm, s'.rests)
    BY <1>2, <1>4 DEF Begun
  <1>7. Recalls(s'.lift, s'.liftAge, s'.last, LiftPause)
    BY <1>2, <1>4
  <1> QED BY <1>4, <1>5, <1>6, <1>7 DEF LiftInv

\* A rest ends with a strong acceleration or a turn, and a move with its time.
LEMMA PolicyMoved ==
  ASSUME NEW x, PolicyTyped(x), ~x.armed \/ ~x.moving, NEW pose \in Motion!Poses, NEW force,
         NEW m, m = Motion!Moved(x, pose, force)
  PROVE  /\ PolicyTyped(m) /\ m.lift = x.lift /\ m.liftAge = x.liftAge /\ m.last = x.last
         /\ m.quiet => x.quiet /\ m.quietAge = x.quietAge
         /\ m.armed => x.armed /\ m.parked = x.parked /\ force # "strong" /\ pose = x.parked
         /\ m.moving => /\ m.parked = x.parked /\ m.motionAge <= Window
                        /\ \/ x.armed /\ force = "strong" /\ m.motionAge = 0
                           \/ x.moving /\ m.motionAge = x.motionAge
         /\ ~m.armed \/ ~m.moving
  <1>1. PICK hit \in BOOLEAN : hit <=> x.armed /\ force = "strong"
    OBVIOUS
  <1>2. PICK y : y = IF hit THEN [x EXCEPT !.moving = TRUE, !.armed = FALSE, !.quiet = FALSE, !.motionAge = 0] ELSE x
    OBVIOUS
  <1>3. PICK z : z = IF y.moving /\ y.motionAge > Window THEN [y EXCEPT !.moving = FALSE, !.quiet = FALSE] ELSE y
    OBVIOUS
  <1>4. m = IF z.armed /\ Motion!Apart(pose, z.parked) >= 1 THEN [z EXCEPT !.armed = FALSE, !.quiet = FALSE] ELSE z
    <2>1. hit = (x.armed /\ force = "strong")
      BY <1>1, Zenon DEF PolicyTyped
    <2> QED BY <1>2, <1>3, <2>1, Zenon DEF Motion!Moved
  <1>5. PolicyTyped(x) /\ Window \in Nat
    BY MotionAssumption
  <1>6. /\ PolicyTyped(y) /\ y.lift = x.lift /\ y.liftAge = x.liftAge /\ y.last = x.last /\ y.parked = x.parked
        /\ y.quiet => x.quiet /\ y.quietAge = x.quietAge
        /\ y.armed => x.armed /\ force # "strong"
        /\ y.moving => (x.armed /\ force = "strong" /\ y.motionAge = 0) \/ (x.moving /\ y.motionAge = x.motionAge)
        /\ ~y.armed \/ ~y.moving
    <2>1. CASE hit
      <3>1. /\ DOMAIN y = LiftFields /\ y.unit = x.unit /\ y.lift = x.lift /\ y.liftAge = x.liftAge /\ y.last = x.last
            /\ y.parked = x.parked /\ y.quietAge = x.quietAge /\ y.motionAge = 0 /\ y.moving = TRUE /\ y.armed = FALSE
            /\ y.quiet = FALSE
        BY <1>2, <2>1 DEF PolicyTyped, LiftFields
      <3>2. PolicyTyped(y)
        <4>1. y.quiet \in BOOLEAN /\ y.armed \in BOOLEAN /\ y.moving \in BOOLEAN
          BY <3>1
        <4>3. y.motionAge \in Nat
          BY <3>1
        <4>2. y.lift \in BOOLEAN /\ y.quietAge \in Nat /\ y.parked \in Motion!Poses /\ y.unit = "lift"
          BY <1>5, <3>1 DEF PolicyTyped
        <4> QED BY <3>1, <4>1, <4>2, <4>3 DEF PolicyTyped
      <3> QED BY <1>1, <2>1, <3>1, <3>2
    <2>2. CASE ~hit
      BY <1>1, <1>2, <2>2
    <2> QED BY <2>1, <2>2
  <1>7. /\ PolicyTyped(z) /\ z.lift = x.lift /\ z.liftAge = x.liftAge /\ z.last = x.last /\ z.parked = x.parked
        /\ z.quiet => y.quiet /\ z.quietAge = y.quietAge
        /\ z.armed => y.armed
        /\ z.moving => y.moving /\ z.motionAge = y.motionAge /\ z.motionAge <= Window
        /\ ~z.armed \/ ~z.moving
    <2>1. CASE y.moving /\ y.motionAge > Window
      <3>1. /\ DOMAIN z = LiftFields /\ z.unit = y.unit /\ z.lift = y.lift /\ z.liftAge = y.liftAge /\ z.last = y.last
            /\ z.parked = y.parked /\ z.quietAge = y.quietAge /\ z.motionAge = y.motionAge /\ z.moving = FALSE
            /\ z.armed = y.armed /\ z.quiet = FALSE
        BY <1>3, <1>6, <2>1 DEF PolicyTyped, LiftFields
      <3>2. PolicyTyped(z)
        BY <1>6, <3>1 DEF PolicyTyped
      <3> QED BY <1>6, <3>1, <3>2
    <2>2. CASE ~(y.moving /\ y.motionAge > Window)
      <3>1. z = y
        BY <1>3, <2>2
      <3>2. y.moving => y.motionAge <= Window
        BY <1>5, <1>6, <2>2 DEF PolicyTyped
      <3> QED BY <1>6, <3>1, <3>2
    <2> QED BY <2>1, <2>2
  <1>8. CASE z.armed /\ Motion!Apart(pose, z.parked) >= 1
    <2>1. /\ DOMAIN m = LiftFields /\ m.unit = z.unit /\ m.lift = z.lift /\ m.liftAge = z.liftAge /\ m.last = z.last
          /\ m.parked = z.parked /\ m.quietAge = z.quietAge /\ m.motionAge = z.motionAge /\ m.moving = z.moving
          /\ m.armed = FALSE /\ m.quiet = FALSE
      BY <1>4, <1>7, <1>8 DEF PolicyTyped, LiftFields
    <2>2. PolicyTyped(m)
      BY <1>7, <2>1 DEF PolicyTyped
    <2> QED BY <1>6, <1>7, <2>1, <2>2
  <1>9. CASE ~(z.armed /\ Motion!Apart(pose, z.parked) >= 1)
    <2>1. m = z
      BY <1>4, <1>9
    <2>2. z.armed => pose = z.parked
      BY <1>7, <1>9 DEF Motion!Apart, Motion!Poses, PolicyTyped
    <2> QED BY <1>6, <1>7, <2>1, <2>2
  <1> QED BY <1>8, <1>9

\* A rest that lasts, one that ends now, and one that has ended, unless the history begins again.
LEMMA RestsKept ==
  ASSUME NEW m, DOMAIN m = LiftFields, NEW pose, NEW force, NEW p, s.sampled, ~s.lift, 1 <= LiftGap, force # "violent",
         NEW held, held = Motion!Held(m, 1, pose, force)
  PROVE  /\ <<p, -1>> \in s.rests /\ force # "strong" /\ pose = p => <<p, -1>> \in held.rests
         /\ <<p, -1>> \in s.rests /\ force = "strong" => <<p, 0>> \in held.rests
         /\ \A a \in Nat : <<p, a>> \in s.rests /\ a + 1 <= Window => <<p, a + 1>> \in held.rests
  <1>1. PICK ended, lasting, calm :
          /\ ended = {<<r[1], IF r[2] >= 0 THEN r[2] + 1 ELSE 0>> :
                        r \in {q \in s.rests : (q[2] < 0 => force = "strong") /\ q[2] + 1 <= Window}}
          /\ lasting = {r \in s.rests : r[2] < 0 /\ force # "strong" /\ r[1] = pose}
          /\ held = [m EXCEPT !.calm = calm, !.previous = IF force \in {"calm", "slight"} THEN pose ELSE -1,
                              !.rests = (IF ~s.sampled \/ 1 > LiftGap \/ force = "violent" \/ s.lift THEN {}
                                         ELSE ended \cup lasting) \cup (IF calm >= RestAge THEN {<<pose, -1>>} ELSE {})]
    BY Zenon DEF Motion!Held
  <1>2. ~(1 > LiftGap) /\ Window \in Nat
    BY MotionAssumption
  <1>3. ended \subseteq held.rests /\ lasting \subseteq held.rests
    <2>1. held.rests = (IF ~s.sampled \/ 1 > LiftGap \/ force = "violent" \/ s.lift THEN {}
                        ELSE ended \cup lasting) \cup (IF calm >= RestAge THEN {<<pose, -1>>} ELSE {})
      BY <1>1 DEF LiftFields
    <2>2. (IF ~s.sampled \/ 1 > LiftGap \/ force = "violent" \/ s.lift THEN {} ELSE ended \cup lasting)
            = ended \cup lasting
      BY <1>2
    <2> QED BY <2>1, <2>2
  <1>4. ASSUME <<p, -1>> \in s.rests, force # "strong", pose = p PROVE <<p, -1>> \in held.rests
    BY <1>1, <1>3, <1>4
  <1>5. ASSUME <<p, -1>> \in s.rests, force = "strong" PROVE <<p, 0>> \in held.rests
    <2>1. PICK r : r = <<p, -1>>
      OBVIOUS
    <2>2. r \in {q \in s.rests : (q[2] < 0 => force = "strong") /\ q[2] + 1 <= Window}
      BY <1>2, <1>5, <2>1
    <2>3. <<r[1], IF r[2] >= 0 THEN r[2] + 1 ELSE 0>> \in ended
      BY <1>1, <2>2
    <2>4. <<r[1], IF r[2] >= 0 THEN r[2] + 1 ELSE 0>> = <<p, 0>>
      BY <2>1
    <2> QED BY <1>3, <2>3, <2>4
  <1>6. ASSUME NEW a \in Nat, <<p, a>> \in s.rests, a + 1 <= Window PROVE <<p, a + 1>> \in held.rests
    <2>1. PICK r : r = <<p, a>>
      OBVIOUS
    <2>2. r \in {q \in s.rests : (q[2] < 0 => force = "strong") /\ q[2] + 1 <= Window}
      BY <1>6, <2>1
    <2>3. <<r[1], IF r[2] >= 0 THEN r[2] + 1 ELSE 0>> \in ended
      BY <1>1, <2>2
    <2>4. <<r[1], IF r[2] >= 0 THEN r[2] + 1 ELSE 0>> = <<p, a + 1>>
      BY <1>6, <2>1
    <2> QED BY <1>3, <2>3, <2>4
  <1> QED BY <1>4, <1>5, <1>6

\* How long the samples have been alike, and the rest that begins with it.
LEMMA CalmKept ==
  ASSUME s.calm \in Nat, NEW m, DOMAIN m = LiftFields, NEW samples \in Nat, NEW pose, NEW force,
         NEW held, held = Motion!Held(m, samples, pose, force)
  PROVE  /\ held.calm \in Nat
         /\ held.calm >= RestAge => <<pose, -1>> \in held.rests
         /\ force = "calm" => held.previous = pose
  <1>1. PICK broken, calm, rests :
          /\ broken = (~s.sampled \/ samples > LiftGap \/ force = "violent" \/ s.lift)
          /\ calm = IF ~broken /\ Motion!Still(pose, force) THEN Motion!Older(s.calm, samples, RestAge) ELSE 0
          /\ held = [m EXCEPT !.calm = calm, !.previous = IF force \in {"calm", "slight"} THEN pose ELSE -1,
                              !.rests = rests \cup (IF calm >= RestAge THEN {<<pose, -1>>} ELSE {})]
    BY Zenon DEF Motion!Held
  <1>2. /\ held.calm = calm /\ held.previous = (IF force \in {"calm", "slight"} THEN pose ELSE -1)
        /\ held.rests = rests \cup (IF calm >= RestAge THEN {<<pose, -1>>} ELSE {})
    BY <1>1 DEF LiftFields
  <1>3. RestAge \in Nat /\ LiftGap \in Nat
    BY MotionAssumption
  <1>4. Motion!Older(s.calm, samples, RestAge) \in Nat
    BY <1>3 DEF Motion!Older
  <1>5. calm \in Nat
    BY <1>1, <1>4
  <1> QED BY <1>2, <1>5

LEMMA CalmLasts ==
  ASSUME NEW m, DOMAIN m = LiftFields, NEW pose, NEW force, Motion!Still(pose, force),
         s.sampled, 1 <= LiftGap, force # "violent", ~s.lift,
         NEW held, held = Motion!Held(m, 1, pose, force)
  PROVE  held.calm = Motion!Older(s.calm, 1, RestAge)
  <1>1. ~(~s.sampled \/ 1 > LiftGap \/ force = "violent" \/ s.lift)
    BY MotionAssumption
  <1>2. PICK a, b : held = [m EXCEPT !.calm = Motion!Older(s.calm, 1, RestAge), !.previous = a, !.rests = b]
    BY <1>1, Zenon DEF Motion!Held
  <1> QED BY <1>2 DEF LiftFields

\* What the sample does to the policy, and what it adds to the record.
LEMMA MovedKnown ==
  ASSUME LiftInv(s), s.sampled, 1 <= LiftGap, NEW pose \in Motion!Poses, NEW force, force # "violent",
         NEW x, PolicyTyped(x), x.quiet = s.quiet, x.armed = s.armed, x.moving = s.moving, x.parked = s.parked,
         x.quietAge = Motion!Older(s.quietAge, 1, RestAge), x.motionAge = Motion!Older(s.motionAge, 1, Window),
         NEW m, m = Motion!Moved(x, pose, force),
         NEW y, DOMAIN y = LiftFields, NEW held, held = Motion!Held(y, 1, pose, force)
  PROVE  /\ Motion!Still(pose, force) => (m.quiet => m.quietAge <= held.calm)
         /\ m.armed => <<m.parked, -1>> \in held.rests
         /\ m.moving => <<m.parked, m.motionAge>> \in held.rests /\ m.motionAge <= Window
         /\ ~m.armed \/ ~m.moving
  <1>1. /\ PolicyTyped(s) /\ s.calm \in Nat /\ (s.quiet => s.quietAge <= s.calm) /\ (s.armed => <<s.parked, -1>> \in s.rests)
        /\ s.moving => <<s.parked, s.motionAge>> \in s.rests /\ s.motionAge <= Window
        /\ ~s.armed \/ ~s.moving
        /\ s.lift => ~s.quiet /\ ~s.armed /\ ~s.moving
    BY DEF LiftInv, Known, Begun
  <1>2. /\ m.quiet => x.quiet /\ m.quietAge = x.quietAge
        /\ m.armed => x.armed /\ m.parked = x.parked /\ force # "strong" /\ pose = x.parked
        /\ m.moving => /\ m.parked = x.parked /\ m.motionAge <= Window
                       /\ \/ x.armed /\ force = "strong" /\ m.motionAge = 0
                          \/ x.moving /\ m.motionAge = x.motionAge
        /\ ~m.armed \/ ~m.moving
    BY <1>1, PolicyMoved
  <1>3. Window \in Nat /\ RestAge \in Nat
    BY MotionAssumption
  <1>4. ASSUME Motion!Still(pose, force), m.quiet PROVE m.quietAge <= held.calm
    <2>1. s.quiet /\ ~s.lift /\ m.quietAge = Motion!Older(s.quietAge, 1, RestAge)
      BY <1>1, <1>2, <1>4
    <2>2. held.calm = Motion!Older(s.calm, 1, RestAge)
      BY <1>1, <1>4, <2>1, CalmLasts
    <2>3. s.quietAge \in Nat /\ s.quietAge <= s.calm
      BY <1>1, <2>1 DEF PolicyTyped
    <2>4. Motion!Older(s.quietAge, 1, RestAge) <= Motion!Older(s.calm, 1, RestAge)
      BY <1>1, <1>3, <2>3, OlderKeeps
    <2> QED BY <2>1, <2>2, <2>4
  <1>5. ASSUME m.armed PROVE <<m.parked, -1>> \in held.rests
    <2>1. <<s.parked, -1>> \in s.rests /\ m.parked = s.parked /\ force # "strong" /\ pose = s.parked /\ ~s.lift
      BY <1>1, <1>2, <1>5
    <2>2. <<s.parked, -1>> \in s.rests /\ force # "strong" /\ pose = s.parked => <<s.parked, -1>> \in held.rests
      <3>1. ~s.lift
        BY <2>1
      <3> QED BY <3>1, RestsKept
    <2> QED BY <2>1, <2>2
  <1>6. ASSUME m.moving PROVE <<m.parked, m.motionAge>> \in held.rests
    <2>1. m.parked = s.parked /\ m.motionAge <= Window /\ ~s.lift
      BY <1>1, <1>2, <1>6
    <2>2. CASE s.armed /\ force = "strong" /\ m.motionAge = 0
      <3>1. <<s.parked, 0>> \in held.rests
        BY <1>1, <2>1, <2>2, RestsKept
      <3> QED BY <2>1, <2>2, <3>1
    <2>3. CASE s.moving /\ m.motionAge = x.motionAge
      <3>1. s.motionAge \in Nat /\ s.motionAge <= Window /\ <<s.parked, s.motionAge>> \in s.rests
        BY <1>1, <2>3 DEF PolicyTyped
      <3>2. m.motionAge = s.motionAge + 1 /\ s.motionAge + 1 <= Window
        BY <1>3, <2>1, <2>3, <3>1 DEF Motion!Older
      <3>3. <<s.parked, s.motionAge + 1>> \in held.rests
        BY <2>1, <3>1, <3>2, RestsKept
      <3> QED BY <2>1, <3>2, <3>3
    <2> QED BY <1>2, <1>6, <2>2, <2>3
  <1> QED BY <1>2, <1>4, <1>5, <1>6

\* A policy that knows of no rest.
LEMMA NothingKnown ==
  ASSUME LiftInv(s), NEW m, PolicyTyped(m), m.quiet = FALSE, m.armed = FALSE, m.moving = FALSE, m.lift = FALSE,
         Passed(m.liftAge, m.last, LiftPause), NEW samples \in Nat, NEW pose, NEW force,
         s' = Motion!Forgot(Motion!Held(m, samples, pose, force))
  PROVE  LiftInv(s')
  <1>1. PICK held : held = Motion!Held(m, samples, pose, force)
    OBVIOUS
  <1>2. held.calm \in Nat
    BY <1>1, CalmKept DEF LiftInv, PolicyTyped
  <1>3. Known(m, held.calm, held.rests) /\ Begun(m, held.previous, held.calm, held.rests)
    BY DEF Known, Begun
  <1>4. Recalls(m.lift, m.liftAge, m.last, LiftPause)
    BY DEF Recalls
  <1> QED BY <1>1, <1>2, <1>3, <1>4, SampleOver

\* A sample like the one before: the rest begins, the policy is armed, or a lift is over.
LEMMA StilledRight ==
  ASSUME LiftInv(s), s.sampled, 1 <= LiftGap, NEW pose \in Motion!Poses, NEW force, force # "violent", Motion!Still(pose, force),
         NEW x, PolicyTyped(x), x.quiet = s.quiet, x.armed = s.armed, x.moving = s.moving, x.parked = s.parked,
         x.quietAge = Motion!Older(s.quietAge, 1, RestAge), x.motionAge = Motion!Older(s.motionAge, 1, Window),
         x.lift = FALSE, Passed(x.liftAge, x.last, LiftPause), Paused(0, x.last, LiftPause),
         s' = Motion!Forgot(Motion!Held(Motion!Stilled(Motion!Moved(x, pose, force), pose), 1, pose, force))
  PROVE  LiftInv(s')
  <1>1. PICK moved : moved = Motion!Moved(x, pose, force)
    OBVIOUS
  <1>2. PICK y : y = IF moved.quiet THEN moved ELSE [moved EXCEPT !.quiet = TRUE, !.quietAge = 0]
    OBVIOUS
  <1>3. PICK m : m = Motion!Stilled(moved, pose)
    OBVIOUS
  <1>4. PICK held : held = Motion!Held(m, 1, pose, force)
    OBVIOUS
  <1>5. s' = Motion!Forgot(held)
    BY <1>1, <1>3, <1>4
  <1>6. m = IF y.moving /\ y.quietAge >= LiftSettle /\ Motion!Apart(pose, y.parked) >= 2
            THEN [Motion!Halted(y) EXCEPT !.liftAge = 0, !.lift = TRUE]
            ELSE IF ~y.moving /\ ~y.armed /\ y.quietAge >= RestAge THEN [y EXCEPT !.armed = TRUE, !.parked = pose]
            ELSE y
    BY <1>2, <1>3, Zenon DEF Motion!Stilled
  <1>7. PolicyTyped(moved) /\ moved.lift = FALSE /\ moved.liftAge = x.liftAge /\ moved.last = x.last
    BY <1>1, PolicyMoved DEF LiftInv, Known
  <1>8. /\ DOMAIN y = LiftFields /\ y.unit = "lift" /\ y.lift = FALSE /\ y.liftAge = x.liftAge /\ y.last = x.last
        /\ y.armed = moved.armed /\ y.moving = moved.moving /\ y.parked = moved.parked /\ y.motionAge = moved.motionAge
        /\ y.quiet = TRUE /\ y.quietAge = (IF moved.quiet THEN moved.quietAge ELSE 0)
    BY <1>2, <1>7 DEF PolicyTyped, LiftFields
  <1>9. PolicyTyped(y)
    <2>1. y.quiet \in BOOLEAN /\ y.lift \in BOOLEAN
      BY <1>8
    <2>2. y.quietAge \in Nat
      BY <1>7, <1>8 DEF PolicyTyped
    <2>3. y.armed \in BOOLEAN /\ y.moving \in BOOLEAN /\ y.parked \in Motion!Poses /\ y.motionAge \in Nat
      BY <1>7, <1>8 DEF PolicyTyped
    <2> QED BY <1>8, <2>1, <2>2, <2>3 DEF PolicyTyped
  <1>10. PICK h : h = Motion!Halted(y)
    OBVIOUS
  <1>11. /\ DOMAIN h = LiftFields /\ h.unit = y.unit /\ h.quiet = FALSE /\ h.armed = FALSE /\ h.moving = FALSE
         /\ h.lift = y.lift /\ h.quietAge = y.quietAge /\ h.motionAge = y.motionAge /\ h.parked = y.parked
         /\ h.liftAge = y.liftAge /\ h.last = y.last
    <2>1. DOMAIN y = LiftFields
      BY <1>8
    <2> QED BY <1>10, <2>1 DEF Motion!Halted, LiftFields
  <1>12. DOMAIN m = LiftFields
    BY <1>6, <1>8, <1>10, <1>11
  <1>13. held.calm \in Nat /\ (held.calm >= RestAge => <<pose, -1>> \in held.rests) /\ held.previous = pose
    BY <1>4, <1>12, CalmKept DEF LiftInv, Motion!Still
  <1>14. /\ y.quietAge <= held.calm
         /\ y.armed => <<y.parked, -1>> \in held.rests
         /\ y.moving => <<y.parked, y.motionAge>> \in held.rests /\ y.motionAge <= Window
         /\ ~y.armed \/ ~y.moving
    <2>1. /\ moved.quiet => moved.quietAge <= held.calm
          /\ moved.armed => <<moved.parked, -1>> \in held.rests
          /\ moved.moving => <<moved.parked, moved.motionAge>> \in held.rests /\ moved.motionAge <= Window
          /\ ~moved.armed \/ ~moved.moving
      BY <1>1, <1>4, <1>12, MovedKnown
    <2>2. y.quietAge <= held.calm
      BY <1>8, <1>13, <2>1
    <2> QED BY <1>8, <2>1, <2>2
  <1>15. CASE y.moving /\ y.quietAge >= LiftSettle /\ Motion!Apart(pose, y.parked) >= 2
    <2>1. /\ DOMAIN m = LiftFields /\ m.unit = "lift" /\ m.quiet = FALSE /\ m.armed = FALSE /\ m.moving = FALSE
          /\ m.lift = TRUE /\ m.quietAge = y.quietAge /\ m.motionAge = y.motionAge /\ m.parked = y.parked
          /\ m.liftAge = 0 /\ m.last = x.last
      BY <1>6, <1>8, <1>10, <1>11, <1>15 DEF LiftFields
    <2>2. PolicyTyped(m)
      BY <1>9, <2>1 DEF PolicyTyped
    <2>3. Settled(held.previous, held.calm, held.rests)
      <3>1. PICK r : r = <<y.parked, y.motionAge>>
        OBVIOUS
      <3>2. r \in held.rests /\ r[1] = y.parked /\ r[2] = y.motionAge /\ y.motionAge \in Nat /\ y.quietAge \in Nat
        BY <1>9, <1>14, <1>15, <3>1 DEF PolicyTyped
      <3>3. r[2] >= 0 /\ Motion!Apart(held.previous, r[1]) >= 2
        BY <1>13, <1>15, <3>2
      <3>4. held.calm >= LiftSettle
        BY <1>13, <1>14, <1>15, <3>2, MotionAssumption
      <3> QED BY <3>2, <3>3, <3>4 DEF Settled
    <2>4. Known(m, held.calm, held.rests) /\ Begun(m, held.previous, held.calm, held.rests)
      BY <2>1, <2>3 DEF Known, Begun
    <2>5. Recalls(m.lift, m.liftAge, m.last, LiftPause)
      BY <2>1 DEF Recalls
    <2> QED BY <1>4, <1>5, <1>13, <2>2, <2>4, <2>5, SampleOver
  <1>16. CASE /\ ~(y.moving /\ y.quietAge >= LiftSettle /\ Motion!Apart(pose, y.parked) >= 2)
              /\ ~y.moving /\ ~y.armed /\ y.quietAge >= RestAge
    <2>1. /\ DOMAIN m = LiftFields /\ m.unit = "lift" /\ m.quiet = TRUE /\ m.armed = TRUE /\ m.moving = y.moving
          /\ m.lift = FALSE /\ m.quietAge = y.quietAge /\ m.motionAge = y.motionAge /\ m.parked = pose
          /\ m.liftAge = x.liftAge /\ m.last = x.last
      BY <1>6, <1>8, <1>16 DEF LiftFields
    <2>2. PolicyTyped(m)
      BY <1>9, <2>1 DEF PolicyTyped
    <2>3. <<pose, -1>> \in held.rests
      BY <1>9, <1>13, <1>14, <1>16, MotionAssumption DEF PolicyTyped
    <2>4. Known(m, held.calm, held.rests) /\ Begun(m, held.previous, held.calm, held.rests)
      BY <1>14, <1>16, <2>1, <2>3 DEF Known, Begun
    <2>5. Recalls(m.lift, m.liftAge, m.last, LiftPause)
      BY <2>1 DEF Recalls
    <2> QED BY <1>4, <1>5, <1>13, <2>2, <2>4, <2>5, SampleOver
  <1>17. CASE /\ ~(y.moving /\ y.quietAge >= LiftSettle /\ Motion!Apart(pose, y.parked) >= 2)
              /\ ~(~y.moving /\ ~y.armed /\ y.quietAge >= RestAge)
    <2>1. m = y
      BY <1>6, <1>17
    <2>2. Known(m, held.calm, held.rests) /\ Begun(m, held.previous, held.calm, held.rests)
      BY <1>8, <1>14, <2>1 DEF Known, Begun
    <2>3. Recalls(m.lift, m.liftAge, m.last, LiftPause)
      BY <1>8, <2>1 DEF Recalls
    <2> QED BY <1>4, <1>5, <1>9, <1>13, <2>1, <2>2, <2>3, SampleOver
  <1> QED BY <1>15, <1>16, <1>17

LEMMA LiftSteps ==
  ASSUME LiftInv(s), NEW samples \in {1, LiftGap + 1}, NEW pose \in Motion!Poses, NEW force \in Motion!Forces,
         NEW enabled \in BOOLEAN, Motion!Lifted(samples, pose, force, enabled)
  PROVE  LiftInv(s')
  <1>1. PICK cooled, since : cooled = Aged(s.liftAge, samples, LiftPause)
                             /\ since = Motion!Since(s.lift, s.last, samples, LiftPause)
    OBVIOUS
  <1>2. PICK x : x = [s EXCEPT !.quietAge = Motion!Older(s.quietAge, samples, RestAge),
                               !.motionAge = Motion!Older(s.motionAge, samples, Window),
                               !.lift = FALSE, !.liftAge = cooled, !.last = since]
    OBVIOUS
  <1>3. s' = IF enabled THEN Motion!Forgot(Motion!Held(Motion!Sampled(x, samples, pose, force), samples, pose, force))
             ELSE [Motion!Forgot(Motion!Reset) EXCEPT !.calm = 0, !.rests = {}, !.last = -1]
    <2>1. x = [s EXCEPT !.quietAge = Motion!Older(@, samples, RestAge), !.motionAge = Motion!Older(@, samples, Window),
                        !.lift = FALSE, !.liftAge = IF @ < 0 THEN @ ELSE Motion!Older(@, samples, LiftPause),
                        !.last = Motion!Since(s.lift, @, samples, LiftPause)]
      BY <1>1, <1>2 DEF Aged
    <2> QED BY <2>1, Zenon DEF Motion!Lifted
  <1>4. PolicyTyped(s) /\ samples \in Nat /\ {RestAge, Window, LiftPause, LiftGap} \subseteq Nat
    BY MotionAssumption DEF LiftInv
  <1>5. /\ DOMAIN x = LiftFields /\ x.unit = "lift" /\ x.lift = FALSE /\ x.quiet = s.quiet /\ x.armed = s.armed
        /\ x.moving = s.moving /\ x.parked = s.parked /\ x.quietAge = Motion!Older(s.quietAge, samples, RestAge)
        /\ x.motionAge = Motion!Older(s.motionAge, samples, Window) /\ x.liftAge = cooled /\ x.last = since
    BY <1>2, <1>4 DEF PolicyTyped, LiftFields
  <1>6. PolicyTyped(x)
    <2>1. s.quietAge \in Nat /\ s.motionAge \in Nat
      BY <1>4 DEF PolicyTyped
    <2>2. x.quietAge \in Nat
      BY <1>4, <1>5, <2>1 DEF Motion!Older
    <2>3. x.motionAge \in Nat
      BY <1>4, <1>5, <2>1 DEF Motion!Older
    <2>4. x.lift \in BOOLEAN
      BY <1>5
    <2>5. x.quiet \in BOOLEAN /\ x.armed \in BOOLEAN /\ x.moving \in BOOLEAN /\ x.parked \in Motion!Poses
      BY <1>4, <1>5 DEF PolicyTyped
    <2> QED BY <1>5, <2>2, <2>3, <2>4, <2>5 DEF PolicyTyped
  <1>7. Passed(cooled, since, LiftPause) /\ (~(cooled >= 0 /\ cooled < LiftPause) => Paused(0, since, LiftPause))
    <2>1. CASE s.lift
      <3>1. Paused(s.liftAge, s.last, LiftPause) /\ since = samples
        BY <1>1, <2>1 DEF LiftInv, Recalls, Motion!Since
      <3> QED BY <1>1, <1>4, <3>1, RecallsOn
    <2>2. CASE ~s.lift
      <3>1. Passed(s.liftAge, s.last, LiftPause)
        BY <2>2 DEF LiftInv, Recalls
      <3>2. since = IF s.last < 0 THEN -1 ELSE Motion!Older(s.last, samples, LiftPause)
        BY <1>1, <2>2 DEF Motion!Since
      <3> QED BY <1>1, <1>4, <3>1, <3>2, RecallsOn
    <2> QED BY <2>1, <2>2
  <1>8. CASE ~enabled
    <2>1. PICK h, r, f : h = Motion!Halted(s) /\ r = [h EXCEPT !.sampled = FALSE, !.previous = -1, !.liftAge = -1, !.lift = FALSE]
                         /\ f = Motion!Forgot(r)
      OBVIOUS
    <2>2. s' = [f EXCEPT !.calm = 0, !.rests = {}, !.last = -1]
      <3>1. r = Motion!Reset
        BY <2>1 DEF Motion!Reset
      <3> QED BY <1>3, <1>8, <2>1, <3>1
    <2>3. /\ DOMAIN h = LiftFields /\ h.unit = s.unit /\ h.quiet = FALSE /\ h.armed = FALSE /\ h.moving = FALSE
          /\ h.quietAge = s.quietAge /\ h.motionAge = s.motionAge /\ h.parked = s.parked
      BY <1>4, <2>1, HaltedFields DEF PolicyTyped
    <2>4. /\ DOMAIN r = LiftFields /\ r.unit = s.unit /\ r.quiet = FALSE /\ r.armed = FALSE /\ r.moving = FALSE
          /\ r.quietAge = s.quietAge /\ r.motionAge = s.motionAge /\ r.parked = s.parked /\ r.lift = FALSE /\ r.liftAge = -1
      BY <2>1, <2>3 DEF LiftFields
    <2>5. PolicyTyped(r)
      BY <1>4, <2>4 DEF PolicyTyped
    <2>6. PolicyTyped(f) /\ f.lift = FALSE /\ f.quiet = FALSE /\ f.armed = FALSE /\ f.moving = FALSE /\ f.liftAge = -1
      <3>1. PolicyTyped(f) /\ f.lift = r.lift /\ f.quiet = r.quiet /\ f.armed = r.armed /\ f.moving = r.moving
            /\ f.liftAge = r.liftAge
        <4>1. f = Motion!Forgot(r)
          BY <2>1
        <4> QED BY <2>5, <4>1, ForgotRight
      <3> QED BY <2>4, <3>1
    <2>7. /\ DOMAIN s' = LiftFields /\ s'.unit = f.unit /\ s'.lift = FALSE /\ s'.quiet = FALSE /\ s'.armed = FALSE
          /\ s'.moving = FALSE /\ s'.liftAge = -1 /\ s'.calm = 0 /\ s'.last = -1 /\ s'.quietAge = f.quietAge
          /\ s'.motionAge = f.motionAge /\ s'.parked = f.parked
      BY <2>2, <2>6 DEF PolicyTyped, LiftFields
    <2>8. PolicyTyped(s')
      BY <2>6, <2>7 DEF PolicyTyped
    <2> QED BY <2>7, <2>8 DEF LiftInv, Known, Begun, Recalls, Passed
  <1>9. CASE enabled
    <2>1. PICK m : m = Motion!Sampled(x, samples, pose, force)
      OBVIOUS
    <2>2. s' = Motion!Forgot(Motion!Held(m, samples, pose, force))
      BY <1>3, <1>9, <2>1
    <2>3. PICK moved, h : moved = Motion!Moved(x, pose, force) /\ h = Motion!Halted(x)
      OBVIOUS
    <2>4. m = IF ~s.sampled \/ samples > LiftGap THEN [h EXCEPT !.sampled = TRUE]
              ELSE IF (x.liftAge >= 0 /\ x.liftAge < LiftPause) \/ force = "violent" THEN h
              ELSE IF Motion!Still(pose, force) THEN Motion!Stilled(moved, pose) ELSE [moved EXCEPT !.quiet = FALSE]
      BY <2>1, <2>3, Zenon DEF Motion!Sampled
    <2>5. /\ DOMAIN h = LiftFields /\ h.unit = x.unit /\ h.quiet = FALSE /\ h.armed = FALSE /\ h.moving = FALSE
          /\ h.lift = x.lift /\ h.quietAge = x.quietAge /\ h.motionAge = x.motionAge /\ h.parked = x.parked
          /\ h.liftAge = x.liftAge /\ h.last = x.last
      <3>1. DOMAIN x = LiftFields
        BY <1>5
      <3> QED BY <2>3, <3>1, HaltedFields
    <2>6. CASE m = h \/ m = [h EXCEPT !.sampled = TRUE]
      <3>1. /\ DOMAIN m = LiftFields /\ m.unit = x.unit /\ m.quiet = FALSE /\ m.armed = FALSE /\ m.moving = FALSE
            /\ m.lift = x.lift /\ m.quietAge = x.quietAge /\ m.motionAge = x.motionAge /\ m.parked = x.parked
            /\ m.liftAge = x.liftAge /\ m.last = x.last
        BY <2>5, <2>6 DEF LiftFields
      <3>2. PolicyTyped(m)
        BY <1>6, <3>1 DEF PolicyTyped
      <3>3. m.lift = FALSE /\ Passed(m.liftAge, m.last, LiftPause)
        BY <1>5, <1>7, <3>1
      <3> QED BY <1>4, <2>2, <3>1, <3>2, <3>3, NothingKnown
    <2>7. CASE /\ s.sampled /\ ~(samples > LiftGap) /\ ~(x.liftAge >= 0 /\ x.liftAge < LiftPause) /\ force # "violent"
      <3>1. samples = 1 /\ 1 <= LiftGap
        BY <1>4, <2>7
      <3>2. Passed(x.liftAge, x.last, LiftPause) /\ Paused(0, x.last, LiftPause)
        BY <1>5, <1>7, <2>7
      <3>3. /\ x.quiet = s.quiet /\ x.armed = s.armed /\ x.moving = s.moving /\ x.parked = s.parked
            /\ x.quietAge = Motion!Older(s.quietAge, 1, RestAge) /\ x.motionAge = Motion!Older(s.motionAge, 1, Window)
            /\ x.lift = FALSE
        BY <1>5, <3>1
      <3>4. CASE Motion!Still(pose, force)
        <4>1. m = Motion!Stilled(moved, pose)
          BY <2>4, <2>7, <3>4
        <4>2. s' = Motion!Forgot(Motion!Held(Motion!Stilled(Motion!Moved(x, pose, force), pose), 1, pose, force))
          BY <2>2, <2>3, <3>1, <4>1
        <4> QED BY <1>6, <2>7, <3>1, <3>2, <3>3, <3>4, <4>2, StilledRight
      <3>5. CASE ~Motion!Still(pose, force)
        <4>1. m = [moved EXCEPT !.quiet = FALSE]
          BY <2>4, <2>7, <3>5
        <4>2. PolicyTyped(moved) /\ moved.lift = FALSE /\ moved.liftAge = x.liftAge /\ moved.last = x.last
          BY <1>6, <2>3, <3>3, PolicyMoved DEF LiftInv, Known
        <4>3. /\ DOMAIN m = LiftFields /\ m.unit = "lift" /\ m.quiet = FALSE /\ m.armed = moved.armed
              /\ m.moving = moved.moving /\ m.lift = moved.lift /\ m.quietAge = moved.quietAge
              /\ m.motionAge = moved.motionAge /\ m.parked = moved.parked /\ m.liftAge = x.liftAge /\ m.last = x.last
          BY <4>1, <4>2 DEF PolicyTyped, LiftFields
        <4>4. PolicyTyped(m)
          BY <4>2, <4>3 DEF PolicyTyped
        <4>5. PICK held : held = Motion!Held(m, 1, pose, force)
          OBVIOUS
        <4>6. /\ moved.armed => <<moved.parked, -1>> \in held.rests
              /\ moved.moving => <<moved.parked, moved.motionAge>> \in held.rests /\ moved.motionAge <= Window
              /\ ~moved.armed \/ ~moved.moving
          BY <1>6, <2>3, <2>7, <3>1, <3>3, <4>3, <4>5, MovedKnown
        <4>7. held.calm \in Nat
          BY <4>3, <4>5, CalmKept DEF LiftInv
        <4>8. Known(m, held.calm, held.rests) /\ Begun(m, held.previous, held.calm, held.rests)
          BY <4>2, <4>3, <4>6 DEF Known, Begun
        <4>9. Recalls(m.lift, m.liftAge, m.last, LiftPause)
          BY <3>2, <4>2, <4>3 DEF Recalls
        <4>10. s' = Motion!Forgot(held)
          BY <2>2, <3>1, <4>5
        <4> QED BY <4>4, <4>5, <4>7, <4>8, <4>9, <4>10, SampleOver
      <3> QED BY <3>4, <3>5
    <2> QED BY <2>4, <2>6, <2>7
  <1> QED BY <1>8, <1>9

LEMMA LiftsAreRight ==
  ASSUME LiftInv(s)
  PROVE  Motion!LiftsSettle
  <1> SUFFICES ASSUME s.lift
               PROVE  /\ \E r \in s.rests : r[2] >= 0 /\ Motion!Apart(s.previous, r[1]) >= 2
                      /\ s.calm >= LiftSettle
                      /\ s.last < 0 \/ s.last >= LiftPause
    BY DEF Motion!LiftsSettle
  <1> QED BY DEF LiftInv, Begun, Settled, Recalls, Paused

\* Motion: the unit stays what it is.
MotionInv == (s.unit = "shake" => ShakeInv(s)) /\ (s.unit = "lift" => LiftInv(s)) /\ s.unit \in {"shake", "lift"}

LEMMA MotionBegins == Motion!Init => MotionInv
  <1> SUFFICES ASSUME Motion!Init PROVE MotionInv
    OBVIOUS
  <1>1. CASE Motion!ShakeInit
    BY <1>1, ShakeBegins DEF MotionInv, ShakeInv, ShakeTyped
  <1>2. CASE Motion!LiftInit
    BY <1>2, LiftBegins DEF MotionInv, LiftInv, PolicyTyped
  <1> QED BY <1>1, <1>2 DEF Motion!Init

LEMMA MotionSteps ==
  ASSUME MotionInv, [Motion!Next]_s
  PROVE  MotionInv'
  <1>1. CASE UNCHANGED s
    BY <1>1 DEF MotionInv
  <1>2. CASE s.unit = "shake" /\ Motion!ShakeNext
    <2>1. \/ \E samples \in {1, Between}, d \in Motion!Directions \cup {Weak}, enabled \in BOOLEAN :
                Motion!Shaken(samples, d, enabled)
          \/ \E samples \in {1, Between} : Motion!Replaced(samples)
      BY <1>2, Zenon DEF Motion!ShakeNext, Weak
    <2>2. \A samples \in {1, Between} : samples \in Nat
      BY MotionAssumption
    <2>3. ASSUME \E samples \in {1, Between}, d \in Motion!Directions \cup {Weak}, enabled \in BOOLEAN :
                   Motion!Shaken(samples, d, enabled)
          PROVE  ShakeInv(s')
      <3>1. PICK samples \in {1, Between}, d \in Motion!Directions \cup {Weak}, enabled \in BOOLEAN :
              Motion!Shaken(samples, d, enabled)
        BY <2>3
      <3>2. d \in Motion!Directions \/ d = Weak
        BY <3>1
      <3> QED BY <1>2, <2>2, <3>1, <3>2, ShakeSteps, Zenon DEF MotionInv
    <2>4. ASSUME \E samples \in {1, Between} : Motion!Replaced(samples)
          PROVE  ShakeInv(s')
      BY <1>2, <2>2, <2>4, ReplaceSteps, Zenon DEF MotionInv
    <2>5. ShakeInv(s')
      BY <2>1, <2>3, <2>4, Zenon
    <2> QED BY <2>5 DEF MotionInv, ShakeInv, ShakeTyped
  <1>3. CASE s.unit = "lift" /\ Motion!LiftNext
    <2>1. PICK samples \in {1, LiftGap + 1}, pose \in Motion!Poses, force \in Motion!Forces, enabled \in BOOLEAN :
            Motion!Lifted(samples, pose, force, enabled)
      BY <1>3, Zenon DEF Motion!LiftNext
    <2>2. LiftInv(s')
      BY <1>3, <2>1, LiftSteps DEF MotionInv
    <2> QED BY <2>2 DEF MotionInv, LiftInv, PolicyTyped
  <1> QED BY <1>1, <1>2, <1>3 DEF Motion!Next

LEMMA MotionIsRight ==
  ASSUME MotionInv
  PROVE  Motion!MotionRight
  BY ShakesRight, LiftsAreRight DEF MotionInv, Motion!MotionRight

\* The reference that is called saved is the one that the next boot restores, and a pose that was held
\* has turned the display, after any calibrations, failed saves, manual turns and reboots
\* (imu_orientation.h, eyes_imu.cpp); a shake is told exactly when three of the impulses without a break
\* in time oppose the one before, and a lift only from a rest that there has been to a pose that has
\* settled, each after its pause, however late the samples come; but a shake after the filter was replaced
\* knows no pause.
THEOREM OrientationCorrect == DeviceSpec => []OrientationRight
  <1> DEFINE Inv == (part = "orientation" => OrientationInv) /\ (part = "motion" => MotionInv)
  <1>1. DeviceInit => Inv
    BY PartsBegin, OrientationBegins, MotionBegins
  <1>2. Inv /\ [DeviceNext]_deviceVars => Inv'
    <2> SUFFICES ASSUME Inv, [DeviceNext]_deviceVars PROVE Inv'
      OBVIOUS
    <2>1. part' = part /\ (part = "orientation" => [Orientation!Next]_s) /\ (part = "motion" => [Motion!Next]_s)
      BY PartsAlone
    <2>2. ASSUME part = "orientation" PROVE OrientationInv'
      BY <2>1, <2>2, OrientationSteps
    <2>3. ASSUME part = "motion" PROVE MotionInv'
      BY <2>1, <2>3, MotionSteps
    <2> QED BY <2>1, <2>2, <2>3
  <1>3. Inv => OrientationRight
    BY TurnsRight, MotionIsRight DEF OrientationRight
  <1> QED BY <1>1, <1>2, <1>3, PTL DEF DeviceSpec

-----------------------------------------------------------------------------
(* Faces *)

FaceFields ==
  {"base", "face", "previous", "active", "motion", "manual", "affection", "chain", "next", "recent", "shown", "dizzy",
   "saved", "allowed", "mode", "random", "imu", "shake", "missing", "owed", "strange"}

FacesTyped(x) ==
  /\ DOMAIN x = FaceFields
  /\ x.active \in BOOLEAN /\ x.dizzy \in BOOLEAN
  /\ x.next \in Nat /\ (x.next < Len(Catalog) \/ x.next = 0)
  /\ x.allowed # {} /\ x.allowed \subseteq AllFaces

\* The policy's faces, and what the eyes show of them.
FacesHeld(x) ==
  /\ x.base \in x.allowed /\ (x.active => x.face \in x.allowed)
  /\ x.shown \in x.allowed /\ (x.dizzy => x.shown = Dizzy /\ x.saved \in x.allowed)

\* How many places of the catalog come before place i.
FromNext(next, i) == (i - 1 - next + Len(Catalog)) % Len(Catalog)

\* What the sequence owes may be shown, was not shown last, and comes before the watched face.
MissingInv(x) ==
  /\ {x.face, x.previous, x.base} \cap x.missing = {}
  /\ x.missing \subseteq x.allowed /\ x.missing \subseteq {Catalog[i] : i \in DOMAIN Catalog}
  /\ x.mode = "sequence" =>
       \A i, j \in DOMAIN Catalog :
         Catalog[i] \in x.missing /\ Catalog[j] = Watched => FromNext(x.next, i) < FromNext(x.next, j)

FacesKept(x) == FacesTyped(x) /\ FacesHeld(x) /\ MissingInv(x) /\ x.owed = {}

FacesInv == FacesKept(s)

\* The fields that the invariant is about.
SameFaces(x, y) ==
  /\ DOMAIN y = DOMAIN x
  /\ y.base = x.base /\ y.next = x.next /\ y.allowed = x.allowed /\ y.mode = x.mode /\ y.owed = x.owed

SameEyes(x, y) == y.shown = x.shown /\ y.dizzy = x.dizzy /\ y.saved = x.saved

LEMMA FaceUntouched ==
  ASSUME NEW x, NEW y, FacesKept(x), SameFaces(x, y), SameEyes(x, y),
         y.face = x.face, y.previous = x.previous, y.active = x.active, y.missing = x.missing
  PROVE  FacesKept(y)
  BY DEF FacesKept, FacesTyped, FacesHeld, MissingInv, SameFaces, SameEyes

\* A face that is shown is no longer owed.
LEMMA FaceShown ==
  ASSUME NEW x, NEW y, FacesKept(x), SameFaces(x, y), SameEyes(x, y), y.face \in x.allowed,
         y.previous \in {y.face, x.previous}, y.active = TRUE, y.missing = x.missing \ {y.face}
  PROVE  FacesKept(y)
  BY DEF FacesKept, FacesTyped, FacesHeld, MissingInv, SameFaces, SameEyes

LEMMA ReactKept ==
  ASSUME NEW x, NEW pool, NEW y \in Faces!React(x, pool), FacesKept(x)
  PROVE  /\ FacesKept(y) /\ y.dizzy = x.dizzy
         /\ FacesKept([y EXCEPT !.affection = TRUE]) /\ [y EXCEPT !.affection = TRUE].dizzy = x.dizzy
  <1>1. PICK face \in (pool \cap x.allowed) \ {x.base} :
          y = [Faces!Shows(x, face) EXCEPT !.face = face, !.previous = face, !.active = TRUE, !.motion = FALSE,
                                           !.manual = TRUE, !.affection = FALSE, !.chain = 0]
    BY Zenon DEF Faces!React
  <1>2. DOMAIN x = FaceFields
    BY DEF FacesKept, FacesTyped
  <1>3. /\ SameFaces(x, y) /\ SameEyes(x, y) /\ y.face = face /\ y.previous = face /\ y.active = TRUE
        /\ y.missing = x.missing \ {face}
    BY <1>1, <1>2 DEF SameFaces, SameEyes, Faces!Shows, FaceFields
  <1>7. y.face \in x.allowed /\ y.previous \in {y.face, x.previous}
    BY <1>1, <1>3
  <1>4. FacesKept(y)
    BY <1>3, <1>7, FaceShown
  <1> DEFINE z == [y EXCEPT !.affection = TRUE]
  <1>5. /\ SameFaces(y, z) /\ SameEyes(y, z) /\ z.face = y.face /\ z.previous = y.previous /\ z.active = y.active
        /\ z.missing = y.missing
    BY <1>2, <1>3 DEF SameFaces, SameEyes, FaceFields
  <1>6. FacesKept(z)
    BY <1>4, <1>5, FaceUntouched
  <1> QED BY <1>3, <1>4, <1>5, <1>6 DEF SameEyes

LEMMA PetKept ==
  ASSUME NEW x, NEW over, NEW y \in Faces!Pet(x, over), FacesKept(x)
  PROVE  FacesKept(y) /\ y.dizzy = x.dizzy
  <1>1. DOMAIN x = FaceFields
    BY DEF FacesKept, FacesTyped
  <1>2. CASE y = [x EXCEPT !.strange = x.face \notin PetFaces]
    <2>1. /\ SameFaces(x, y) /\ SameEyes(x, y) /\ y.face = x.face /\ y.previous = x.previous /\ y.active = x.active
          /\ y.missing = x.missing
      BY <1>1, <1>2 DEF SameFaces, SameEyes, FaceFields
    <2> QED BY <2>1, FaceUntouched DEF SameEyes
  <1>3. CASE y \in {[z EXCEPT !.affection = TRUE] : z \in Faces!React(x, PetFaces)}
    <2>1. PICK z \in Faces!React(x, PetFaces) : y = [z EXCEPT !.affection = TRUE]
      BY <1>3
    <2> QED BY <2>1, ReactKept
  <1> QED BY <1>2, <1>3, Zenon DEF Faces!Pet

LEMMA SampleKept ==
  ASSUME NEW x, NEW face, NEW over, NEW y, y = Faces!Sample(x, face, over), FacesKept(x)
  PROVE  FacesKept(y) /\ SameEyes(x, y) /\ y.allowed = x.allowed
  <1>1. DOMAIN x = FaceFields
    BY DEF FacesKept, FacesTyped
  <1>2. CASE y = x
    BY <1>2 DEF SameEyes
  <1>3. CASE y # x
    <2>1. /\ face \in x.allowed
          /\ y = [Faces!Shows(x, face) EXCEPT !.face = face, !.active = TRUE, !.motion = TRUE, !.manual = FALSE]
      BY <1>3, Zenon DEF Faces!Sample
    <2>2. /\ SameFaces(x, y) /\ SameEyes(x, y) /\ y.face = face /\ y.previous = x.previous /\ y.active = TRUE
          /\ y.missing = x.missing \ {face}
      BY <1>1, <2>1 DEF SameFaces, SameEyes, Faces!Shows, FaceFields
    <2> QED BY <2>1, <2>2, FaceShown DEF SameFaces
  <1> QED BY <1>2, <1>3

-----------------------------------------------------------------------------
(* The sequence *)

LEMMA SmallRemainder ==
  ASSUME NEW k \in Nat, NEW n \in Nat, k < n
  PROVE  k % n = k /\ (k + n) % n = k
  OBVIOUS

LEMMA FromNextIs ==
  ASSUME NEW next \in Nat, NEW i \in DOMAIN Catalog, next < Len(Catalog) \/ next = 0
  PROVE  FromNext(next, i) = IF i > next THEN i - 1 - next ELSE i - 1 - next + Len(Catalog)
  <1>1. PICK n \in Nat : n = Len(Catalog)
    BY FacesAssumption
  <1>2. i \in 1 .. n /\ next \in 0 .. n - 1
    BY <1>1, FacesAssumption
  <1>3. CASE i > next
    <2>1. PICK k \in Nat : k = i - 1 - next /\ k < n
      BY <1>2, <1>3
    <2>2. (k + n) % n = k
      BY <2>1, SmallRemainder
    <2>3. i - 1 - next + n = k + n
      BY <1>2, <2>1
    <2> QED BY <1>1, <1>3, <2>1, <2>2, <2>3 DEF FromNext
  <1>4. CASE ~(i > next)
    <2>1. PICK k \in Nat : k = i - 1 - next + n /\ k < n
      BY <1>2, <1>4
    <2>2. k % n = k
      BY <2>1, SmallRemainder
    <2> QED BY <1>1, <1>4, <2>1, <2>2 DEF FromNext
  <1> QED BY <1>3, <1>4

LEMMA NextPlace ==
  ASSUME NEW i \in DOMAIN Catalog
  PROVE  /\ i % Len(Catalog) = IF i < Len(Catalog) THEN i ELSE 0
         /\ i % Len(Catalog) \in Nat /\ (i % Len(Catalog) < Len(Catalog) \/ i % Len(Catalog) = 0)
  <1>1. PICK n \in Nat : n = Len(Catalog)
    BY FacesAssumption
  <1>2. i \in 1 .. n
    BY <1>1, FacesAssumption
  <1>3. i % n = IF i < n THEN i ELSE 0
    BY <1>2
  <1> QED BY <1>1, <1>2, <1>3

Place(n, next, i) == IF i > next THEN i - 1 - next ELSE i - 1 - next + n

\* The places from the one after i, which was taken.
LEMMA PlacesTurn ==
  ASSUME NEW n \in Int, NEW next \in Int, NEW i \in Int, NEW j \in Int,
         0 <= next, next < n, 1 <= i, i <= n, 1 <= j, j <= n,
         Place(n, next, i) <= Place(n, next, j), i # j
  PROVE  Place(n, IF i < n THEN i ELSE 0, j) = Place(n, next, j) - Place(n, next, i) - 1
  BY DEF Place

\* What comes after the place that is taken, stays in order.
LEMMA OrderKept ==
  ASSUME NEW next \in Nat, next < Len(Catalog) \/ next = 0,
         NEW i \in DOMAIN Catalog, NEW j \in DOMAIN Catalog, NEW k \in DOMAIN Catalog,
         FromNext(next, i) <= FromNext(next, j), i # j, FromNext(next, j) < FromNext(next, k)
  PROVE  FromNext(i % Len(Catalog), j) < FromNext(i % Len(Catalog), k)
  <1> DEFINE after == IF i < Len(Catalog) THEN i ELSE 0
  <1>1. PICK n \in Nat : n = Len(Catalog)
    BY FacesAssumption
  <1>2. /\ n \in Int /\ next \in Int /\ i \in Int /\ j \in Int /\ k \in Int
        /\ 0 <= next /\ next < n /\ 1 <= i /\ i <= n /\ 1 <= j /\ j <= n /\ 1 <= k /\ k <= n
    BY <1>1, FacesAssumption
  <1>3. i % Len(Catalog) = after /\ after \in Nat /\ (after < Len(Catalog) \/ after = 0)
    BY NextPlace
  <1>4. /\ FromNext(next, i) = Place(n, next, i) /\ FromNext(next, j) = Place(n, next, j)
        /\ FromNext(next, k) = Place(n, next, k)
    BY <1>1, FromNextIs DEF Place
  <1>5. FromNext(after, j) = Place(n, after, j) /\ FromNext(after, k) = Place(n, after, k)
    BY <1>1, <1>3, FromNextIs DEF Place
  <1>6. Place(n, next, i) \in Int /\ Place(n, next, j) \in Int /\ Place(n, next, k) \in Int
    <2>1. ASSUME NEW x \in Int PROVE Place(n, next, x) \in Int
      BY <1>1, <1>2 DEF Place
    <2> QED BY <1>2, <2>1
  <1>7. Place(n, next, i) <= Place(n, next, j) /\ Place(n, next, i) <= Place(n, next, k) /\ i # k
    BY <1>4, <1>6
  <1>8. Place(n, after, j) = Place(n, next, j) - Place(n, next, i) - 1
    BY <1>1, <1>2, <1>7, PlacesTurn
  <1>9. Place(n, after, k) = Place(n, next, k) - Place(n, next, i) - 1
    BY <1>1, <1>2, <1>7, PlacesTurn
  <1> QED BY <1>3, <1>4, <1>5, <1>6, <1>8, <1>9

\* The place that was taken is the last to come again.
LEMMA TakenIsLast ==
  ASSUME NEW i \in DOMAIN Catalog, NEW j \in DOMAIN Catalog, i # j
  PROVE  FromNext(i % Len(Catalog), j) < FromNext(i % Len(Catalog), i)
  <1>1. PICK n \in Nat : n = Len(Catalog)
    BY FacesAssumption
  <1>2. i \in 1 .. n /\ j \in 1 .. n
    BY <1>1, FacesAssumption
  <1>3. PICK after \in Nat : /\ after = i % Len(Catalog) /\ after = (IF i < n THEN i ELSE 0)
                             /\ after < Len(Catalog) \/ after = 0
    BY <1>1, NextPlace
  <1>4. FromNext(after, i) = IF i > after THEN i - 1 - after ELSE i - 1 - after + n
    BY <1>1, <1>3, FromNextIs
  <1>5. FromNext(after, j) = IF j > after THEN j - 1 - after ELSE j - 1 - after + n
    BY <1>1, <1>3, FromNextIs
  <1>6. FromNext(after, j) < FromNext(after, i)
    BY <1>2, <1>3, <1>4, <1>5
  <1> QED BY <1>3, <1>6

LEMMA FirstExists ==
  ASSUME NEW places \in SUBSET DOMAIN Catalog, places # {}, NEW next \in Nat, next < Len(Catalog) \/ next = 0
  PROVE  \E i \in places : \A j \in places : FromNext(next, i) <= FromNext(next, j)
  <1>1. ASSUME NEW i \in places PROVE FromNext(next, i) \in Nat
    <2>1. i \in DOMAIN Catalog /\ Len(Catalog) \in Nat /\ i \in 1 .. Len(Catalog)
      BY FacesAssumption
    <2>2. FromNext(next, i) = IF i > next THEN i - 1 - next ELSE i - 1 - next + Len(Catalog)
      BY <2>1, FromNextIs
    <2> QED BY <2>1, <2>2
  <1> DEFINE F == {FromNext(next, i) : i \in places}
  <1>2. F \subseteq Nat /\ F # {}
    BY <1>1
  <1>4. PICK a \in F : \A b \in F : a <= b
    BY <1>2, LeastNumber
  <1>5. PICK i \in places : a = FromNext(next, i)
    BY <1>4
  <1> QED BY <1>4, <1>5

\* The face that is shown next is one of the places, and in a sequence the first of them.
LEMMA ChosenIsFirst ==
  ASSUME NEW x, FacesKept(x), Faces!Places(x) # {}, NEW i \in Faces!Chosen(x)
  PROVE  /\ i \in Faces!Places(x)
         /\ x.mode = "sequence" => \A j \in Faces!Places(x) : FromNext(x.next, i) <= FromNext(x.next, j)
  <1>1. Faces!Places(x) \subseteq DOMAIN Catalog
    BY Zenon DEF Faces!Places
  <1>2. \E k \in Faces!Places(x) : \A j \in Faces!Places(x) : FromNext(x.next, k) <= FromNext(x.next, j)
    BY <1>1, FirstExists DEF FacesKept, FacesTyped
  <1>3. x.mode # "sequence" => i \in Faces!Places(x)
    BY Zenon DEF Faces!Chosen
  <1>4. x.mode = "sequence" =>
          i = CHOOSE k \in Faces!Places(x) : \A j \in Faces!Places(x) : FromNext(x.next, k) <= FromNext(x.next, j)
    BY DEF Faces!Chosen, FromNext
  <1> QED BY <1>2, <1>3, <1>4, Zenon

\* In a sequence nothing keeps a face that is owed from being shown.
LEMMA OwedArePlaces ==
  ASSUME NEW x, FacesKept(x), x.mode = "sequence", NEW i \in DOMAIN Catalog, Catalog[i] \in x.missing
  PROVE  i \in Faces!Places(x)
  <1>1. Catalog[i] \in x.allowed \ {x.base} /\ Catalog[i] \notin {x.previous, x.face}
    BY DEF FacesKept, MissingInv
  <1> QED BY <1>1, Zenon DEF Faces!Places

LEMMA AutomaticKept ==
  ASSUME NEW x, NEW y \in Faces!Automatic(x), FacesKept(x)
  PROVE  FacesKept(y) /\ SameEyes(x, y)
  <1>1. DOMAIN x = FaceFields
    BY DEF FacesKept, FacesTyped
  <1>2. CASE Faces!Places(x) = {}
    <2>1. y = [x EXCEPT !.active = FALSE, !.face = x.base, !.chain = 0]
      BY <1>2, Zenon DEF Faces!Automatic
    <2>2. /\ SameFaces(x, y) /\ SameEyes(x, y) /\ y.face = x.base /\ y.previous = x.previous /\ y.active = FALSE
          /\ y.missing = x.missing
      BY <1>1, <2>1 DEF SameFaces, SameEyes, FaceFields
    <2> QED BY <2>2 DEF FacesKept, FacesTyped, FacesHeld, MissingInv, SameFaces, SameEyes
  <1>3. CASE Faces!Places(x) # {}
    <2> DEFINE plain(face) == face # Watched \/ x.mode # "sequence"
               picked(face) == IF plain(face) THEN Faces!Shows(x, face)
                               ELSE [x EXCEPT !.owed = x.missing, !.missing = Faces!Missing(x)]
    <2>1. PICK i \in Faces!Chosen(x) :
            y = [picked(Catalog[i]) EXCEPT
                   !.face = Catalog[i], !.previous = Catalog[i], !.next = i % Len(Catalog),
                   !.recent = IF x.mode = "continuous" THEN Faces!Remembered(@, Catalog[i]) ELSE @,
                   !.chain = IF @ < Group THEN @ + 1 ELSE @,
                   !.active = TRUE, !.motion = FALSE, !.manual = FALSE, !.affection = FALSE]
      BY <1>3, Zenon DEF Faces!Automatic
    <2>2. /\ i \in Faces!Places(x)
          /\ x.mode = "sequence" => \A j \in Faces!Places(x) : FromNext(x.next, i) <= FromNext(x.next, j)
      BY <1>3, ChosenIsFirst
    <2>3. i \in DOMAIN Catalog /\ Catalog[i] \in x.allowed \ {x.base}
      BY <2>2, Zenon DEF Faces!Places
    <2>4. PICK face, z : face = Catalog[i] /\ z = picked(face)
      OBVIOUS
    <2>5. /\ DOMAIN z = FaceFields /\ z.base = x.base /\ z.shown = x.shown /\ z.dizzy = x.dizzy /\ z.saved = x.saved
          /\ z.allowed = x.allowed /\ z.mode = x.mode
          /\ z.owed = IF plain(face) THEN x.owed ELSE x.missing
          /\ z.missing = IF plain(face) THEN x.missing \ {face} ELSE Faces!Missing(x)
      <3>1. CASE plain(face)
        BY <1>1, <2>4, <3>1 DEF Faces!Shows, FaceFields
      <3>2. CASE ~plain(face)
        BY <1>1, <2>4, <3>2 DEF FaceFields
      <3> QED BY <3>1, <3>2
    <2>6. /\ DOMAIN y = FaceFields /\ y.base = x.base /\ SameEyes(x, y)
          /\ y.allowed = x.allowed /\ y.mode = x.mode /\ y.owed = z.owed /\ y.missing = z.missing
          /\ y.face = face /\ y.previous = face /\ y.next = i % Len(Catalog) /\ y.active = TRUE
      BY <2>1, <2>4, <2>5 DEF SameEyes, FaceFields
    <2> HIDE DEF plain, picked
    <2>7. FacesTyped(y)
      BY <2>3, <2>6, NextPlace DEF FacesKept, FacesTyped, SameEyes
    <2>8. FacesHeld(y)
      BY <2>3, <2>4, <2>6 DEF FacesKept, FacesHeld, SameEyes
    <2>9. CASE plain(face)
      <3>1. y.missing = x.missing \ {face} /\ y.owed = {}
        BY <2>5, <2>6, <2>9 DEF FacesKept
      <3>2. ASSUME x.mode = "sequence",
                   NEW j \in DOMAIN Catalog, NEW k \in DOMAIN Catalog, Catalog[j] \in y.missing, Catalog[k] = Watched
            PROVE  FromNext(y.next, j) < FromNext(y.next, k)
        <4>1. Catalog[j] \in x.missing /\ i # j
          BY <2>4, <3>1, <3>2
        <4>2. FromNext(x.next, j) < FromNext(x.next, k)
          BY <3>2, <4>1 DEF FacesKept, MissingInv
        <4>3. FromNext(x.next, i) <= FromNext(x.next, j)
          BY <2>2, <3>2, <4>1, OwedArePlaces
        <4>4. x.next \in Nat /\ (x.next < Len(Catalog) \/ x.next = 0)
          BY DEF FacesKept, FacesTyped
        <4> QED BY <2>3, <2>6, <4>1, <4>2, <4>3, <4>4, OrderKept
      <3>3. /\ {y.face, y.previous, y.base} \cap y.missing = {}
            /\ y.missing \subseteq y.allowed /\ y.missing \subseteq {Catalog[j] : j \in DOMAIN Catalog}
        BY <2>6, <3>1 DEF FacesKept, MissingInv
      <3>4. MissingInv(y)
        BY <2>6, <3>2, <3>3 DEF MissingInv
      <3> QED BY <2>6, <2>7, <2>8, <3>1, <3>4 DEF FacesKept
    <2>10. CASE ~plain(face)
      <3>1. x.mode = "sequence" /\ face = Watched
        BY <2>10 DEF plain
      <3>2. x.missing = {}
        <4>1. SUFFICES ASSUME NEW m \in x.missing PROVE FALSE
          OBVIOUS
        <4>2. PICK j \in DOMAIN Catalog : m = Catalog[j]
          BY DEF FacesKept, MissingInv
        <4>3. FromNext(x.next, j) < FromNext(x.next, i)
          BY <2>3, <2>4, <3>1, <4>2 DEF FacesKept, MissingInv
        <4>4. FromNext(x.next, i) <= FromNext(x.next, j)
          BY <2>2, <3>1, <4>2, OwedArePlaces
        <4>5. x.next \in Nat /\ (x.next < Len(Catalog) \/ x.next = 0)
          BY DEF FacesKept, FacesTyped
        <4>6. FromNext(x.next, i) \in Int /\ FromNext(x.next, j) \in Int
          <5>1. i \in Int /\ j \in Int /\ Len(Catalog) \in Int
            BY <2>3, <4>2, FacesAssumption
          <5>2. /\ FromNext(x.next, i) = IF i > x.next THEN i - 1 - x.next ELSE i - 1 - x.next + Len(Catalog)
                /\ FromNext(x.next, j) = IF j > x.next THEN j - 1 - x.next ELSE j - 1 - x.next + Len(Catalog)
            BY <2>3, <4>2, <4>5, FromNextIs
          <5> QED BY <4>5, <5>1, <5>2
        <4> QED BY <4>3, <4>4, <4>6
      <3>3. y.owed = {} /\ y.missing = ({Catalog[j] : j \in DOMAIN Catalog} \cap x.allowed) \ {x.base, Watched}
        BY <2>5, <2>6, <2>10, <3>2 DEF Faces!Missing
      <3>4. ASSUME NEW j \in DOMAIN Catalog, NEW k \in DOMAIN Catalog, Catalog[j] \in y.missing, Catalog[k] = Watched
            PROVE  FromNext(y.next, j) < FromNext(y.next, k)
        <4>1. k = i /\ i # j
          BY <2>3, <2>4, <3>1, <3>3, <3>4, FacesAssumption
        <4> QED BY <2>3, <2>6, <4>1, TakenIsLast
      <3>5. /\ {y.face, y.previous, y.base} \cap y.missing = {}
            /\ y.missing \subseteq y.allowed /\ y.missing \subseteq {Catalog[j] : j \in DOMAIN Catalog}
        BY <2>6, <3>1, <3>3
      <3>6. MissingInv(y)
        BY <3>4, <3>5 DEF MissingInv
      <3> QED BY <2>6, <2>7, <2>8, <3>3, <3>6 DEF FacesKept
    <2> QED BY <2>6, <2>9, <2>10
  <1> QED BY <1>2, <1>3

-----------------------------------------------------------------------------
(* A poll *)

LEMMA UpdateKept ==
  ASSUME NEW x, NEW over, NEW due, NEW y \in Faces!Update(x, over, due), FacesKept(x)
  PROVE  FacesKept(y) /\ SameEyes(x, y)
  <1>1. DOMAIN x = FaceFields /\ x.active \in BOOLEAN
    BY DEF FacesKept, FacesTyped
  <1> DEFINE current == [x EXCEPT !.base = Faces!Resolve(x.allowed, @), !.active = @ /\ x.face \in x.allowed,
                                  !.chain = IF x.active /\ x.face \notin x.allowed THEN 0 ELSE @]
             stopped == [current EXCEPT !.active = FALSE, !.chain = 0]
  <1>2. Faces!Resolve(x.allowed, x.base) = x.base /\ (x.active => x.face \in x.allowed)
    BY DEF FacesKept, FacesHeld, Faces!Resolve
  <1>3. /\ SameFaces(x, current) /\ SameEyes(x, current) /\ current.face = x.face /\ current.previous = x.previous
        /\ current.missing = x.missing
    BY <1>1, <1>2 DEF SameFaces, SameEyes, FaceFields
  <1>4. current.active = x.active
    BY <1>1, <1>2 DEF FaceFields
  <1>5. FacesKept(current) /\ SameEyes(x, current)
    BY <1>3, <1>4, FaceUntouched
  <1>6. /\ SameFaces(current, stopped) /\ SameEyes(current, stopped) /\ stopped.face = current.face
        /\ stopped.previous = current.previous /\ stopped.missing = current.missing /\ stopped.active = FALSE
    BY <1>1 DEF SameFaces, SameEyes, FaceFields
  <1> HIDE DEF stopped
  <1>7. FacesKept(stopped) /\ SameEyes(x, stopped)
    BY <1>3, <1>5, <1>6 DEF FacesKept, FacesTyped, FacesHeld, MissingInv, SameFaces, SameEyes
  <1> USE DEF stopped
  <1>8. \/ y = current \/ y = stopped \/ y \in Faces!Automatic(current) \/ y \in Faces!Automatic(stopped)
    BY Zenon DEF Faces!Update
  <1> HIDE DEF current, stopped
  <1> QED BY <1>5, <1>7, <1>8, AutomaticKept DEF SameEyes

LEMMA StepKept ==
  ASSUME NEW x, NEW over, NEW due, NEW y \in Faces!Step(x, over, due), FacesKept(x)
  PROVE  FacesKept(y)
  <1>1. PICK z \in Faces!Update(x, over, due) :
          y = IF z.dizzy THEN [z EXCEPT !.saved = IF z.active THEN z.face ELSE z.base]
              ELSE [z EXCEPT !.shown = IF z.active THEN z.face ELSE z.base]
    BY Zenon DEF Faces!Step
  <1>2. FacesKept(z) /\ DOMAIN z = FaceFields
    BY UpdateKept DEF FacesKept, FacesTyped
  <1>3. PICK face : face = (IF z.active THEN z.face ELSE z.base) /\ face \in z.allowed
    BY <1>2 DEF FacesKept, FacesHeld
  <1>4. CASE z.dizzy
    <2>1. y = [z EXCEPT !.saved = face]
      BY <1>1, <1>3, <1>4
    <2>2. /\ SameFaces(z, y) /\ y.face = z.face /\ y.previous = z.previous /\ y.missing = z.missing /\ y.active = z.active
          /\ y.shown = z.shown /\ y.dizzy = z.dizzy /\ y.saved = face
      BY <1>2, <2>1 DEF SameFaces, FaceFields
    <2> QED BY <1>2, <1>3, <2>2 DEF FacesKept, FacesTyped, FacesHeld, MissingInv, SameFaces
  <1>5. CASE ~z.dizzy
    <2>1. y = [z EXCEPT !.shown = face]
      BY <1>1, <1>3, <1>5
    <2>2. /\ SameFaces(z, y) /\ y.face = z.face /\ y.previous = z.previous /\ y.missing = z.missing /\ y.active = z.active
          /\ y.shown = face /\ y.dizzy = z.dizzy /\ y.saved = z.saved
      BY <1>2, <2>1 DEF SameFaces, FaceFields
    <2> QED BY <1>2, <1>3, <1>5, <2>2 DEF FacesKept, FacesTyped, FacesHeld, MissingInv, SameFaces
  <1> QED BY <1>4, <1>5

LEMMA SensesKept ==
  ASSUME NEW x, NEW y \in Faces!Senses(x), FacesKept(x)
  PROVE  FacesKept(y)
  <1> DEFINE moved == {Faces!Sample(x, face, over) : face \in MotionFaces \cup {Faces!Neutral}, over \in BOOLEAN}
  <1>1. \/ y \in moved
        \/ Dizzy \in x.allowed /\ \E z \in moved : y = Faces!Shaken(z)
    BY DEF Faces!Senses
  <1>2. ASSUME NEW z \in moved PROVE FacesKept(z) /\ SameEyes(x, z) /\ z.allowed = x.allowed
    <2>1. PICK face \in MotionFaces \cup {Faces!Neutral}, over \in BOOLEAN : z = Faces!Sample(x, face, over)
      BY <1>2
    <2> QED BY <2>1, SampleKept
  <1> HIDE DEF moved
  <1>3. CASE y \in moved
    BY <1>2, <1>3
  <1>4. ASSUME Dizzy \in x.allowed, NEW z \in moved, y = Faces!Shaken(z) PROVE FacesKept(y)
    <2>1. FacesKept(z) /\ SameEyes(x, z) /\ z.allowed = x.allowed /\ DOMAIN z = FaceFields
      BY <1>2, <1>4 DEF FacesKept, FacesTyped
    <2>2. CASE z.dizzy
      BY <1>4, <2>1, <2>2 DEF Faces!Shaken
    <2>3. CASE ~z.dizzy
      <3>1. /\ SameFaces(z, y) /\ y.face = z.face /\ y.previous = z.previous /\ y.missing = z.missing
            /\ y.active = z.active /\ y.shown = Dizzy /\ y.dizzy = TRUE /\ y.saved = z.shown
        BY <1>4, <2>1, <2>3 DEF Faces!Shaken, SameFaces, FaceFields
      <3>2. FacesHeld(y)
        BY <1>4, <2>1, <3>1 DEF FacesKept, FacesHeld, SameFaces
      <3> QED BY <2>1, <3>1, <3>2 DEF FacesKept, FacesTyped, MissingInv, SameFaces
    <2> QED BY <2>2, <2>3
  <1> QED BY <1>1, <1>3, <1>4

LEMMA ResolvedIsAllowed ==
  ASSUME NEW allowed \in SUBSET AllFaces, allowed # {}, NEW face
  PROVE  Faces!Resolve(allowed, face) \in allowed
  <1>1. \E f \in allowed : \A g \in allowed : f <= g
    BY FacesAssumption, LeastNumber
  <1> QED BY <1>1 DEF Faces!Resolve

LEMMA ApplyKept ==
  ASSUME NEW x, NEW mood, NEW y, y = Faces!Apply(x, mood), FacesTyped(x), x.dizzy => x.shown = Dizzy
  PROVE  FacesKept(y)
  <1>1. DOMAIN x = FaceFields /\ x.dizzy \in BOOLEAN
    BY DEF FacesTyped
  <1>2. PICK base : base = Faces!Resolve(x.allowed, mood) /\ base \in x.allowed
    BY ResolvedIsAllowed DEF FacesTyped
  <1>3. PICK r : r = Faces!Reset(x, base)
    OBVIOUS
  <1>4. /\ DOMAIN r = FaceFields /\ SameEyes(x, r) /\ r.allowed = x.allowed /\ r.shake = x.shake
        /\ r.base = base /\ r.face = base /\ r.previous = base /\ r.active = FALSE /\ r.next = 0
        /\ r.missing = {} /\ r.owed = {}
    BY <1>1, <1>3 DEF Faces!Reset, SameEyes, FaceFields
  <1>5. PICK z : z = [r EXCEPT !.dizzy = @ /\ x.shake /\ Dizzy \in x.allowed]
    OBVIOUS
  <1>6. /\ DOMAIN z = FaceFields /\ z.allowed = x.allowed /\ z.base = base /\ z.face = base /\ z.previous = base
        /\ z.active = FALSE /\ z.next = 0 /\ z.missing = {} /\ z.owed = {} /\ z.shown = x.shown
    BY <1>4, <1>5 DEF FaceFields, SameEyes
  <1>7. z.dizzy \in BOOLEAN /\ (z.dizzy => x.dizzy /\ Dizzy \in x.allowed)
    BY <1>1, <1>4, <1>5 DEF FaceFields, SameEyes
  <1>8. y = IF z.dizzy THEN [z EXCEPT !.saved = base] ELSE [z EXCEPT !.shown = base]
    BY <1>2, <1>3, <1>5, <1>6, Zenon DEF Faces!Apply
  <1>9. /\ DOMAIN y = FaceFields /\ y.allowed = x.allowed /\ y.base = base /\ y.face = base /\ y.previous = base
        /\ y.active = FALSE /\ y.next = 0 /\ y.missing = {} /\ y.owed = {} /\ y.dizzy = z.dizzy
        /\ z.dizzy => y.saved = base /\ y.shown = x.shown
        /\ ~z.dizzy => y.shown = base
    <2>1. CASE z.dizzy
      BY <1>6, <1>8, <2>1 DEF FaceFields
    <2>2. CASE ~z.dizzy
      BY <1>6, <1>8, <2>2 DEF FaceFields
    <2> QED BY <2>1, <2>2
  <1>13. y.dizzy \in BOOLEAN /\ y.active \in BOOLEAN
    BY <1>7, <1>9
  <1>14. y.next \in Nat /\ (y.next < Len(Catalog) \/ y.next = 0) /\ y.allowed # {} /\ y.allowed \subseteq AllFaces
    BY <1>9 DEF FacesTyped
  <1>10. FacesTyped(y)
    BY <1>9, <1>13, <1>14 DEF FacesTyped
  <1>11. FacesHeld(y)
    BY <1>2, <1>7, <1>9 DEF FacesHeld
  <1>12. MissingInv(y)
    BY <1>9 DEF MissingInv
  <1> QED BY <1>9, <1>10, <1>11, <1>12 DEF FacesKept

-----------------------------------------------------------------------------
(* The operations *)

LEMMA AnsweredKept ==
  ASSUME FacesInv, NEW reactions, NEW x, NEW overs, FacesKept(x), \A y \in reactions : FacesKept(y),
         Faces!Answered(reactions, x, overs)
  PROVE  FacesInv'
  <1>1. CASE \E over \in overs, due \in BOOLEAN : s' \in Faces!Step(x, over, due)
    BY <1>1, StepKept DEF FacesInv
  <1>2. CASE \E y \in reactions : s' \in Faces!Step(y, FALSE, FALSE)
    BY <1>2, StepKept DEF FacesInv
  <1> QED BY <1>1, <1>2, Zenon DEF Faces!Answered

LEMMA TouchedKept ==
  ASSUME FacesInv, Faces!Touched
  PROVE  FacesInv'
  <1>1. FacesKept(s)
    BY DEF FacesInv
  <1>2. ASSUME NEW pool, Faces!Answered(Faces!React(s, pool), s, BOOLEAN) PROVE FacesInv'
    <2>1. \A y \in Faces!React(s, pool) : FacesKept(y)
      BY <1>1, ReactKept
    <2> QED BY <1>1, <1>2, <2>1, AnsweredKept
  <1>3. ASSUME NEW over, Faces!Answered(Faces!Pet(s, over), [s EXCEPT !.affection = FALSE], {over}) PROVE FacesInv'
    <2>1. \A y \in Faces!Pet(s, over) : FacesKept(y)
      BY <1>1, PetKept
    <2>2. PICK x : x = [s EXCEPT !.affection = FALSE]
      OBVIOUS
    <2>3. DOMAIN s = FaceFields
      BY <1>1 DEF FacesKept, FacesTyped
    <2>4. /\ SameFaces(s, x) /\ SameEyes(s, x) /\ x.face = s.face /\ x.previous = s.previous /\ x.active = s.active
          /\ x.missing = s.missing
      BY <2>2, <2>3 DEF SameFaces, SameEyes, FaceFields
    <2>5. FacesKept(x)
      BY <1>1, <2>4, FaceUntouched
    <2> QED BY <1>3, <2>1, <2>2, <2>5, AnsweredKept
  <1> QED BY <1>2, <1>3, Zenon DEF Faces!Touched

LEMMA UpdatesKept ==
  ASSUME FacesInv, Faces!EyesUpdate
  PROVE  FacesInv'
  <1>1. PICK over \in BOOLEAN, due \in BOOLEAN,
             awake \in {[s EXCEPT !.dizzy = FALSE, !.shown = IF s.dizzy THEN s.saved ELSE @], s} :
          \E sensed \in Faces!Senses(awake) : s' \in Faces!Step(sensed, over, due)
    BY Zenon DEF Faces!EyesUpdate
  <1>2. FacesKept(s) /\ DOMAIN s = FaceFields
    BY DEF FacesInv, FacesKept, FacesTyped
  <1>3. FacesKept(awake)
    <2>1. CASE awake = s
      BY <1>2, <2>1
    <2>2. CASE awake = [s EXCEPT !.dizzy = FALSE, !.shown = IF s.dizzy THEN s.saved ELSE @]
      <3>1. /\ SameFaces(s, awake) /\ awake.face = s.face /\ awake.previous = s.previous /\ awake.active = s.active
            /\ awake.missing = s.missing
            /\ awake.dizzy = FALSE /\ awake.shown = IF s.dizzy THEN s.saved ELSE s.shown
        BY <1>2, <2>2 DEF SameFaces, FaceFields
      <3>2. FacesHeld(awake)
        BY <1>2, <3>1 DEF FacesKept, FacesHeld, SameFaces
      <3> QED BY <1>2, <3>1, <3>2 DEF FacesKept, FacesTyped, MissingInv, SameFaces
    <2> QED BY <1>1, <2>1, <2>2
  <1>4. PICK sensed \in Faces!Senses(awake) : s' \in Faces!Step(sensed, over, due)
    BY <1>1
  <1>5. FacesKept(sensed)
    BY <1>3, <1>4, SensesKept
  <1> QED BY <1>4, <1>5, StepKept DEF FacesInv

LEMMA SettingsKept ==
  ASSUME FacesInv, Faces!SettingsUpdate \/ Faces!FilterUpdate
  PROVE  FacesInv'
  <1>1. FacesKept(s) /\ DOMAIN s = FaceFields /\ s.dizzy \in BOOLEAN /\ (s.dizzy => s.shown = Dizzy)
    BY DEF FacesInv, FacesKept, FacesTyped, FacesHeld
  <1>2. ASSUME NEW x, NEW mood, s' = Faces!Apply(x, mood), DOMAIN x = DOMAIN s, x.active = s.active, x.dizzy = s.dizzy,
               x.next = s.next, x.shown = s.shown, x.allowed # {}, x.allowed \subseteq AllFaces
        PROVE  FacesInv'
    <2>1. FacesTyped(x) /\ (x.dizzy => x.shown = Dizzy)
      BY <1>1, <1>2 DEF FacesKept, FacesTyped
    <2> QED BY <1>2, <2>1, ApplyKept DEF FacesInv
  <1>3. s.allowed # {} /\ s.allowed \subseteq AllFaces
    BY <1>1 DEF FacesKept, FacesTyped
  <1>4. ASSUME NEW x, s' = Faces!Apply(x, s.base),
               x \in {[s EXCEPT !.random = ~@], [s EXCEPT !.imu = ~@], [s EXCEPT !.shake = ~@]}
        PROVE  FacesInv'
    <2>1. /\ DOMAIN x = DOMAIN s /\ x.active = s.active /\ x.dizzy = s.dizzy /\ x.next = s.next /\ x.shown = s.shown
          /\ x.allowed = s.allowed
      <3>1. CASE x = [s EXCEPT !.random = ~@]
        BY <1>1, <3>1 DEF FaceFields
      <3>2. CASE x = [s EXCEPT !.imu = ~@]
        BY <1>1, <3>2 DEF FaceFields
      <3>3. CASE x = [s EXCEPT !.shake = ~@]
        BY <1>1, <3>3 DEF FaceFields
      <3> QED BY <1>4, <3>1, <3>2, <3>3
    <2> QED BY <1>2, <1>3, <1>4, <2>1
  <1>5. ASSUME NEW mood, s' = Faces!Apply(s, mood) PROVE FacesInv'
    BY <1>2, <1>3, <1>5
  <1>6. ASSUME NEW allowed \in FaceFilters, s' = Faces!Apply([s EXCEPT !.allowed = allowed], s.base) PROVE FacesInv'
    <2>1. PICK x : x = [s EXCEPT !.allowed = allowed]
      OBVIOUS
    <2>2. /\ DOMAIN x = DOMAIN s /\ x.active = s.active /\ x.dizzy = s.dizzy /\ x.next = s.next /\ x.shown = s.shown
          /\ x.allowed = allowed
      BY <1>1, <2>1 DEF FaceFields
    <2>3. allowed # {} /\ allowed \subseteq AllFaces
      BY FacesAssumption
    <2>4. s' = Faces!Apply(x, s.base)
      BY <1>6, <2>1
    <2> QED BY <1>2, <2>2, <2>3, <2>4
  <1>7. CASE Faces!SettingsUpdate
    BY <1>4, <1>5, <1>7, Zenon DEF Faces!SettingsUpdate
  <1>8. CASE Faces!FilterUpdate
    BY <1>6, <1>8, Zenon DEF Faces!FilterUpdate
  <1> QED BY <1>7, <1>8

LEMMA FacesStep ==
  ASSUME FacesInv, [Faces!Next]_s
  PROVE  FacesInv'
  <1>1. CASE UNCHANGED s
    BY <1>1 DEF FacesInv
  <1>2. CASE Faces!ImuPoll
    BY <1>2, SensesKept DEF FacesInv, Faces!ImuPoll
  <1> QED BY <1>1, <1>2, TouchedKept, UpdatesKept, SettingsKept DEF Faces!Next

LEMMA FacesBegin == Faces!Init => FacesInv
  <1> SUFFICES ASSUME Faces!Init PROVE FacesInv
    OBVIOUS
  <1>1. PICK mode \in Faces!Modes :
          s = [base |-> 0, face |-> 0, previous |-> 0, active |-> FALSE, motion |-> FALSE,
               manual |-> FALSE, affection |-> FALSE, chain |-> 0, next |-> 0, recent |-> <<>>, shown |-> 0,
               dizzy |-> FALSE, saved |-> 0, allowed |-> AllFaces, mode |-> mode, random |-> TRUE, imu |-> TRUE,
               shake |-> TRUE, missing |-> {}, owed |-> {}, strange |-> FALSE]
    BY DEF Faces!Init, Faces!Neutral
  <1>2. DOMAIN s = FaceFields
    BY <1>1 DEF FaceFields
  <1>3. /\ s.active = FALSE /\ s.dizzy = FALSE /\ s.next = 0 /\ s.allowed = AllFaces /\ s.base = 0 /\ s.shown = 0
        /\ s.missing = {} /\ s.owed = {}
    BY <1>1
  <1>4. FacesTyped(s)
    BY <1>2, <1>3, FacesAssumption DEF FacesTyped
  <1>5. FacesHeld(s)
    BY <1>3, FacesAssumption DEF FacesHeld
  <1>6. MissingInv(s)
    BY <1>3 DEF MissingInv
  <1> QED BY <1>3, <1>4, <1>5, <1>6 DEF FacesInv, FacesKept

\* No excluded face is shown, nor waits below Dizzy, whatever is going on when it is excluded
\* (face_filter.h), and a face of the sequence comes again by itself only when all others that are
\* allowed have been seen since, whatever reactions and motions come between (face_policy.h), for
\* any catalog, pools and filters.
THEOREM FacesCorrect == DeviceSpec => []FacesRight
  <1> DEFINE Inv == part = "faces" => FacesInv
  <1>1. DeviceInit => Inv
    BY PartsBegin, FacesBegin
  <1>2. Inv /\ [DeviceNext]_deviceVars => Inv'
    BY PartsAlone, FacesStep
  <1>3. Inv => FacesRight
    BY DEF FacesRight, Faces!FacesRight, Faces!FaceAllowed, Faces!SequenceFair, FacesInv, FacesKept, FacesHeld
  <1> QED BY <1>1, <1>2, <1>3, PTL DEF DeviceSpec

-----------------------------------------------------------------------------
(* CompanionPolicy *)

PolicyInv ==
  s \in [window : Policy!Windows, repeat : 0 .. 128, minute : Policy!DayMinutes, weekday : 0 .. 6]

LEMMA PolicyBegins == Policy!Init => PolicyInv
  <1> SUFFICES ASSUME Policy!Init PROVE PolicyInv
    OBVIOUS
  <1>1. PICK window \in Policy!Windows, repeat \in 0 .. 128 :
          s = [window |-> window, repeat |-> repeat, minute |-> 0, weekday |-> 1]
    BY DEF Policy!Init, Policy!Repeats
  <1>2. 0 \in Policy!DayMinutes
    BY PolicyAssumption DEF Policy!DayMinutes
  <1> QED BY <1>1, <1>2 DEF PolicyInv

LEMMA PolicySteps ==
  ASSUME PolicyInv, [Policy!Next]_s
  PROVE  PolicyInv'
  <1>1. CASE UNCHANGED s
    BY <1>1 DEF PolicyInv
  <1>2. CASE Policy!Next
    <2>1. PICK minute : minute = (s.minute + 1) % PolicyDay
      OBVIOUS
    <2>2. s' = [s EXCEPT !.minute = minute, !.weekday = IF minute = 0 THEN (@ + 1) % 7 ELSE @]
      BY <1>2, <2>1 DEF Policy!Next
    <2>3. minute \in Policy!DayMinutes
      BY <2>1, PolicyAssumption DEF PolicyInv, Policy!DayMinutes
    <2>4. (s.weekday + 1) % 7 \in 0 .. 6
      BY DEF PolicyInv
    <2> QED BY <2>2, <2>3, <2>4 DEF PolicyInv
  <1> QED BY <1>1, <1>2

\* The minutes from one of the day to another, going forward.
Forward(from, to) == IF from <= to THEN to - from ELSE to - from + PolicyDay

LEMMA ForwardInDay ==
  ASSUME NEW from \in Policy!DayMinutes, NEW to \in Policy!DayMinutes
  PROVE  /\ Forward(from, to) \in Policy!DayMinutes
         /\ (to - from) % PolicyDay = Forward(from, to)
         /\ (to + PolicyDay - from) % PolicyDay = Forward(from, to)
         /\ (from + Forward(from, to)) % PolicyDay = to
  <1> DEFINE k == Forward(from, to)
  <1>1. PolicyDay \in Nat /\ PolicyDay > 0 /\ from \in 0 .. PolicyDay - 1 /\ to \in 0 .. PolicyDay - 1
    BY PolicyAssumption DEF Policy!DayMinutes
  <1>2. k \in 0 .. PolicyDay - 1
    BY <1>1 DEF Forward
  <1>3. ASSUME NEW x \in 0 .. PolicyDay - 1
        PROVE  x % PolicyDay = x /\ (x + PolicyDay) % PolicyDay = x /\ (x - PolicyDay) % PolicyDay = x
    BY <1>1
  <1>4. (to - from) % PolicyDay = k
    BY <1>1, <1>2, <1>3 DEF Forward
  <1>5. (to + PolicyDay - from) % PolicyDay = k
    BY <1>1, <1>2, <1>3 DEF Forward
  <1>6. (from + k) % PolicyDay = to
    BY <1>1, <1>2, <1>3 DEF Forward
  <1> QED BY <1>2, <1>4, <1>5, <1>6 DEF Policy!DayMinutes

LEMMA ForwardOnly ==
  ASSUME NEW from \in Policy!DayMinutes, NEW to \in Policy!DayMinutes, NEW k \in Policy!DayMinutes,
         (from + k) % PolicyDay = to
  PROVE  k = Forward(from, to)
  <1>1. PolicyDay \in Nat /\ PolicyDay > 0 /\ from \in 0 .. PolicyDay - 1 /\ to \in 0 .. PolicyDay - 1
        /\ k \in 0 .. PolicyDay - 1
    BY PolicyAssumption DEF Policy!DayMinutes
  <1>2. ASSUME NEW x \in 0 .. PolicyDay - 1
        PROVE  x % PolicyDay = x /\ (x + PolicyDay) % PolicyDay = x
    BY <1>1
  <1>3. CASE from + k < PolicyDay
    <2>1. from + k \in 0 .. PolicyDay - 1
      BY <1>1, <1>3
    <2> QED BY <1>1, <1>2, <2>1 DEF Forward
  <1>4. CASE from + k >= PolicyDay
    <2>1. from + k - PolicyDay \in 0 .. PolicyDay - 1
      BY <1>1, <1>4
    <2>2. (from + k - PolicyDay + PolicyDay) % PolicyDay = from + k - PolicyDay
      BY <1>2, <2>1
    <2>3. to = from + k - PolicyDay
      BY <1>1, <2>2
    <2> QED BY <1>1, <2>3 DEF Forward
  <1> QED BY <1>1, <1>3, <1>4

\* A window that is active began less than its length ago.
LEMMA WindowsLast ==
  ASSUME PolicyInv
  PROVE  /\ Policy!SinceStart = Forward(s.window.start, s.minute)
         /\ Policy!ActiveForItsLength
  <1>1. /\ s.window.enabled \in BOOLEAN /\ s.minute \in Policy!DayMinutes
        /\ s.window.start \in Policy!DayMinutes /\ s.window.end \in Policy!DayMinutes
    BY DEF PolicyInv, Policy!Windows
  <1>2. PICK k \in Policy!DayMinutes : k = Forward(s.window.start, s.minute)
    BY <1>1, ForwardInDay
  <1>3. (s.window.start + k) % PolicyDay = s.minute
    BY <1>1, <1>2, ForwardInDay
  <1>4. \A j \in Policy!DayMinutes : (s.window.start + j) % PolicyDay = s.minute => j = k
    BY <1>1, <1>2, ForwardOnly
  <1>5. Policy!SinceStart = k
    BY <1>2, <1>3, <1>4 DEF Policy!SinceStart
  <1>6. PolicyDay \in Nat /\ PolicyDay > 0
    BY PolicyAssumption
  <1>7. /\ s.minute \in 0 .. PolicyDay - 1 /\ s.window.start \in 0 .. PolicyDay - 1 /\ s.window.end \in 0 .. PolicyDay - 1
        /\ k \in 0 .. PolicyDay - 1
    BY <1>1, <1>2 DEF Policy!DayMinutes
  <1>8. Policy!Length = IF s.window.start = s.window.end THEN PolicyDay ELSE Forward(s.window.start, s.window.end)
    BY <1>1, ForwardInDay DEF Policy!Length
  <1>9. Policy!ActiveForItsLength
    BY <1>1, <1>2, <1>5, <1>6, <1>7, <1>8 DEF Policy!ActiveForItsLength, Policy!Active, Forward
  <1> QED BY <1>2, <1>5, <1>9

LEMMA Multiples ==
  ASSUME NEW k \in Nat, NEW i \in Nat, i > 0, NEW day \in Nat, k < day
  PROVE  k % i = 0 <=> \E n \in 0 .. day : k = n * i
  <1>1. ASSUME k % i = 0 PROVE \E n \in 0 .. day : k = n * i
    <2>1. PICK n \in Int : n = k \div i
      OBVIOUS
    <2>2. k = n * i
      BY <1>1, <2>1
    <2>3. n >= 0
      BY <2>2
    <2>4. n <= k
      BY <2>2, <2>3
    <2> QED BY <2>2, <2>3, <2>4
  <1>2. ASSUME NEW n \in 0 .. day, k = n * i PROVE k % i = 0
    BY <1>2
  <1> QED BY <1>1, <1>2

LEMMA RemindersRight ==
  ASSUME PolicyInv
  PROVE  Policy!DueAtIntervals
  <1>1. /\ s.window.interval \in 0 .. PolicyDay /\ s.minute \in Policy!DayMinutes /\ s.window.start \in Policy!DayMinutes
    BY DEF PolicyInv, Policy!Windows
  <1>2. PICK k \in Policy!DayMinutes : k = Forward(s.window.start, s.minute)
    BY <1>1, ForwardInDay
  <1>3. Policy!SinceStart = k /\ (Policy!Active(s.window, s.minute) <=> s.window.enabled /\ k < Policy!Length)
    BY <1>2, WindowsLast DEF Policy!ActiveForItsLength
  <1>4. (s.minute + PolicyDay - s.window.start) % PolicyDay = k
    BY <1>1, <1>2, ForwardInDay
  <1>5. k \in Nat /\ k < PolicyDay /\ PolicyDay \in Nat /\ s.window.interval \in Nat
    BY <1>1, PolicyAssumption DEF Policy!DayMinutes
  <1>6. CASE s.window.interval = 0
    BY <1>6 DEF Policy!DueAtIntervals, Policy!ReminderDue
  <1>7. CASE s.window.interval # 0
    <2>1. PICK i \in Nat : i = s.window.interval /\ i > 0
      BY <1>5, <1>7
    <2>2. k % i = 0 <=> \E n \in 0 .. PolicyDay : k = n * i
      BY <1>5, <2>1, Multiples, Zenon
    <2> QED BY <1>3, <1>4, <1>7, <2>1, <2>2 DEF Policy!DueAtIntervals, Policy!ReminderDue
  <1> QED BY <1>6, <1>7

\* A bit of a mask, and the remainder beyond it.
LEMMA MaskBits ==
  ASSUME NEW m \in 0 .. 128
  PROVE  /\ Policy!Bit(m, 0) <=> m % 2 ^ (0 + 1) >= 2 ^ 0
         /\ Policy!Bit(m, 1) <=> m % 2 ^ (1 + 1) >= 2 ^ 1
         /\ Policy!Bit(m, 2) <=> m % 2 ^ (2 + 1) >= 2 ^ 2
         /\ Policy!Bit(m, 3) <=> m % 2 ^ (3 + 1) >= 2 ^ 3
         /\ Policy!Bit(m, 4) <=> m % 2 ^ (4 + 1) >= 2 ^ 4
         /\ Policy!Bit(m, 5) <=> m % 2 ^ (5 + 1) >= 2 ^ 5
         /\ Policy!Bit(m, 6) <=> m % 2 ^ (6 + 1) >= 2 ^ 6
  BY DEF Policy!Bit

LEMMA MasksRight ==
  ASSUME PolicyInv
  PROVE  Policy!DaysOfMask
  <1>1. s.repeat \in 0 .. 128 /\ s.weekday \in 0 .. 6
    BY DEF PolicyInv
  <1>2. PICK bit \in 0 .. 6 : bit = IF s.weekday = 0 THEN 6 ELSE s.weekday - 1
    BY <1>1
  <1>3. \A b \in 0 .. 6 : (b + 1) % 7 = s.weekday <=> b = bit
    BY <1>1, <1>2
  <1>4. Policy!Bit(s.repeat, bit) <=> s.repeat % 2 ^ (bit + 1) >= 2 ^ bit
    <2>1. bit \in {0, 1, 2, 3, 4, 5, 6}
      OBVIOUS
    <2> QED BY <1>1, <2>1, MaskBits
  <1>5. s.repeat = 127 => Policy!Bit(s.repeat, bit)
    <2>1. bit \in {0, 1, 2, 3, 4, 5, 6}
      OBVIOUS
    <2>2. Policy!Bit(127, 0) /\ Policy!Bit(127, 1) /\ Policy!Bit(127, 2) /\ Policy!Bit(127, 3)
      BY DEF Policy!Bit
    <2>3. Policy!Bit(127, 4) /\ Policy!Bit(127, 5) /\ Policy!Bit(127, 6)
      BY DEF Policy!Bit
    <2> QED BY <2>1, <2>2, <2>3
  <1>6. Policy!AlarmDue(s.repeat, s.weekday) <=> s.repeat = 128 \/ Policy!Bit(s.repeat, bit)
    BY <1>2, <1>5 DEF Policy!AlarmDue
  <1>7. (\E b \in 0 .. 6 : (b + 1) % 7 = s.weekday /\ s.repeat % 2 ^ (b + 1) >= 2 ^ b)
          <=> s.repeat % 2 ^ (bit + 1) >= 2 ^ bit
    BY <1>3
  <1> QED BY <1>4, <1>6, <1>7 DEF Policy!DaysOfMask

-----------------------------------------------------------------------------
(* Companion: the types of both instances *)

WaterProofs == INSTANCE CompanionProofs WITH Slots <- {}, Reminders <- {8}, DayHours <- 1, HourMinutes <- 1, MaxMinute <- 2, MaxSets <- 0

\* The instance that is checked and the one whose proofs are cited are the same.
LEMMA WaterTypes == Water!TypeOK <=> WaterProofs!TypeOK
  BY DEF Water!TypeOK, WaterProofs!TypeOK, Water!Links, WaterProofs!Links, Water!Minutes, WaterProofs!Minutes,
         Water!Sets, WaterProofs!Sets, Water!States, WaterProofs!States, Water!Sources, WaterProofs!Sources,
         Water!Kinds, WaterProofs!Kinds, Water!Times, WaterProofs!Times, Water!Snapshots, WaterProofs!Snapshots, Water!NoAlarm,
         WaterProofs!NoAlarm, Water!Alarms, WaterProofs!Alarms, Water!Windows, WaterProofs!Windows

LEMMA WaterTypesAfter == Water!TypeOK' <=> WaterProofs!TypeOK'
  BY WaterTypes, PTL

LEMMA WaterBegins == Water!Init <=> WaterProofs!Init
  BY DEF Water!Init, WaterProofs!Init, Water!Sets, WaterProofs!Sets, Water!Sources, WaterProofs!Sources,
         Water!Idle, WaterProofs!Idle, Water!NoAction, WaterProofs!NoAction, Water!NoAlarm, WaterProofs!NoAlarm

LEMMA WaterNext == Water!Next <=> WaterProofs!Next
  <1>1. Water!Ble <=> WaterProofs!Ble
    BY DEF Water!Ble, WaterProofs!Ble, Water!Connection, WaterProofs!Connection, Water!Packet,
           WaterProofs!Packet, Water!Received, WaterProofs!Received, Water!NoAction, WaterProofs!NoAction,
           Water!Times, WaterProofs!Times, Water!Windows, WaterProofs!Windows
  <1>2. Water!Request <=> WaterProofs!Request
    BY DEF Water!Request, WaterProofs!Request
  <1>3. Water!SetIos <=> WaterProofs!SetIos
    BY DEF Water!SetIos, WaterProofs!SetIos
  <1>4. Water!Poll <=> WaterProofs!Poll
    BY DEF Water!Poll, WaterProofs!Poll, Water!PollBegin, WaterProofs!PollBegin, Water!EndSearch,
           WaterProofs!EndSearch, Water!Take, WaterProofs!Take, Water!Act, WaterProofs!Act, Water!Finds,
           WaterProofs!Finds, Water!Stamp, WaterProofs!Stamp, Water!Hour, WaterProofs!Hour, Water!Minute,
           WaterProofs!Minute, Water!AlarmFires, WaterProofs!AlarmFires, Water!PollEnd, WaterProofs!PollEnd,
           Water!Ring, WaterProofs!Ring, Water!Snapshot, WaterProofs!Snapshot, Water!NoAction,
           WaterProofs!NoAction, Water!SearchOver, WaterProofs!SearchOver, Water!Idle, WaterProofs!Idle,
           Water!NoAlarm, WaterProofs!NoAlarm, Water!HourOf, WaterProofs!HourOf, Water!MinuteOf,
           WaterProofs!MinuteOf, Water!First, WaterProofs!First, Water!DueAlarms, WaterProofs!DueAlarms,
           Water!Used, WaterProofs!Used, Water!Counted, WaterProofs!Counted, Water!Sources, WaterProofs!Sources
  <1>5. Water!ClockMoves <=> WaterProofs!ClockMoves
    BY DEF Water!ClockMoves, WaterProofs!ClockMoves, Water!Minutes, WaterProofs!Minutes
  <1>6. Water!FindAges <=> WaterProofs!FindAges
    BY DEF Water!FindAges, WaterProofs!FindAges
  <1>7. Water!Ages <=> WaterProofs!Ages
    BY DEF Water!Ages, WaterProofs!Ages
  <1>8. Water!PhoneStops <=> WaterProofs!PhoneStops
    BY DEF Water!PhoneStops, WaterProofs!PhoneStops
  <1> QED BY <1>1, <1>2, <1>3, <1>4, <1>5, <1>6, <1>7, <1>8 DEF Water!Next, WaterProofs!Next

LEMMA WaterConstants == WaterProofs!CompanionConstants
  BY CompanionConstants DEF WaterProofs!CompanionConstants

LEMMA TypesBegin == DeviceInit => IF part = "water" THEN Water!TypeOK ELSE TypeOK
  <1>1. Init => TypeOK
    BY TypeInit
  <1>2. Water!Init => Water!TypeOK
    BY WaterConstants, WaterTypes, WaterBegins, WaterProofs!TypeInit
  <1> QED BY <1>1, <1>2 DEF DeviceInit, PartInit

LEMMA TypesKept ==
  ASSUME IF part = "water" THEN Water!TypeOK ELSE TypeOK, [DeviceNext]_deviceVars
  PROVE  IF part' = "water" THEN Water!TypeOK' ELSE TypeOK'
  <1>1. CASE part = "water"
    <2>1. WaterProofs!TypeOK
      BY <1>1, WaterTypes
    <2>2. [WaterProofs!Next]_WaterProofs!vars
      BY <1>1, WaterNext DEF DeviceNext, PartNext, deviceVars, vars, WaterProofs!vars
    <2>3. WaterProofs!TypeOK'
      BY <2>1, <2>2, WaterConstants, WaterProofs!TypeStep
    <2>4. Water!TypeOK' <=> WaterProofs!TypeOK'
      BY WaterTypesAfter
    <2> QED BY <1>1, <2>3, <2>4 DEF DeviceNext, deviceVars
  <1>2. CASE part # "water"
    <2>1. [Next]_vars
      BY <1>2 DEF DeviceNext, PartNext, deviceVars
    <2>2. TypeOK'
      BY <1>2, <2>1, TypeStep
    <2> QED BY <1>2, <2>2 DEF DeviceNext, deviceVars
  <1> QED BY <1>1, <1>2

\* A window is active for its length from its start and a reminder due at each of its intervals within
\* it, wherever midnight falls in a day of any length; a mask of an alarm means the weekdays that
\* docs/CHRONOS.md names (companion_policy.h).  The phone's data keep their types meanwhile.
THEOREM SchedulesCorrect == DeviceSpec => []SchedulesRight
  <1> DEFINE Inv == (part = "policy" => PolicyInv) /\ IF part = "water" THEN Water!TypeOK ELSE TypeOK
  <1>1. DeviceInit => Inv
    BY PartsBegin, TypesBegin, PolicyBegins
  <1>2. Inv /\ [DeviceNext]_deviceVars => Inv'
    <2> SUFFICES ASSUME Inv, [DeviceNext]_deviceVars PROVE Inv'
      OBVIOUS
    <2>1. part' = part /\ (part = "policy" => [Policy!Next]_s)
      BY PartsAlone
    <2>2. ASSUME part = "policy" PROVE PolicyInv'
      BY <2>1, <2>2, PolicySteps
    <2>3. IF part' = "water" THEN Water!TypeOK' ELSE TypeOK'
      BY TypesKept
    <2> QED BY <2>1, <2>2, <2>3
  <1>3. Inv => SchedulesRight
    BY WindowsLast, RemindersRight, MasksRight DEF SchedulesRight, Policy!SchedulesRight
  <1> QED BY <1>1, <1>2, <1>3, PTL DEF DeviceSpec
=============================================================================
