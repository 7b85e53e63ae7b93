------------------------------ MODULE MCDevice ------------------------------
(***************************************************************************)
(* Parts of the device that share no state and need no fairness, checked   *)
(* in one run: the behaviours of each are those in which part names it.    *)
(* Alarms are those of the module that is extended (Companion), and        *)
(* reminders those of a second instance of it, as the two share only the   *)
(* poll; the settings have their variables here, the others take turns at  *)
(* s.                                                                      *)
(***************************************************************************)
EXTENDS Companion, Integers, Sequences, FiniteSets

CONSTANTS
  Expressions, Diagnostics,            \* of SettingsMenu
  Cues,                                \* of Sound
  Moods, Values, MaxRevision, \* of Settings; its faces are the Moods
  Deadline, Networks, MaxSaves,        \* of NetworkPage
  Xs, Ys,                              \* of Touch
  Debounce, Hold, Away,                \* of Buttons
  ProfileDays, ProfileNights, NightWindows, Hours, IdleAfter, \* of Backlight
  Voltages, Empty, Full,               \* of PowerSupply
  Samples, Settle, Timeout, Gap,       \* of Orientation
  Between, ShakePause, Impulses, LiftGap, RestAge, Window, LiftSettle, LiftPause, \* of Motion
  PolicyDay,                           \* of CompanionPolicy
  MaxLag,                              \* of DeskTools
  UsbBudget, UsbLine, UsbBytes, UsbCommands, UsbMoods, UsbAllowed, UsbNumbers, \* of Terminal
  CardChunks, CardLimit, WrapLines, TextLength, DateYears, \* of Inputs
  AppLanguages,                        \* of Records
  AllFaces, Dizzy, Catalog, TapFaces, PlayFaces, PetFaces, MotionFaces, LongFaces, Families, Recent, Group,
  FaceMoods, FaceFilters, Watched      \* of Faces

\* SoundCue (sound.h), without None.
SoundCues == {"Ambient", "Startup", "Tap", "Face", "Mood", "Notification", "Rest", "Done", "Call", "Test",
              "Charging", "Unplugged"}

ASSUME CuesAssumption == Cues \subseteq SoundCues
\* The catalog of expressions, and the default of what the filter does not touch.
ASSUME SettingsAssumption ==
  /\ IsFiniteSet(Moods) /\ Moods # {} /\ Moods = 0 .. Cardinality(Moods) - 1
  /\ 0 \in Values
ASSUME TouchAssumption == Xs \subseteq Int /\ Ys \subseteq Int
ASSUME ButtonsAssumption == {Debounce, Hold, Away} \subseteq Nat /\ 0 \notin {Debounce, Hold, Away}
ASSUME BacklightAssumption ==
  /\ ProfileDays \cup ProfileNights \subseteq Nat
  /\ NightWindows \subseteq (0 .. 23) \X (0 .. 23) /\ Hours \subseteq 0 .. 23
  /\ IdleAfter \in Nat /\ IdleAfter > 0
\* boards/validate.h.
ASSUME SupplyAssumption ==
  /\ Voltages \subseteq Nat
  /\ Empty \in Nat /\ Full \in Nat /\ Empty < Full /\ Full <= 100
ASSUME OrientationAssumption == {Samples, Settle, Timeout, Gap} \subseteq Nat /\ 0 \notin {Samples, Settle, Timeout, Gap}
ASSUME MotionAssumption ==
  {Between, ShakePause, Impulses, LiftGap, RestAge, Window, LiftSettle, LiftPause} \subseteq Nat
ASSUME PolicyAssumption == PolicyDay \in Nat /\ PolicyDay > 0
\* A face has one place in the catalog; FaceFilter::set and decode keep one face at least.
ASSUME FacesAssumption ==
  /\ AllFaces \subseteq Nat /\ 0 \in AllFaces /\ FaceFilters \subseteq (SUBSET AllFaces) \ {{}}
  /\ Catalog \in Seq(AllFaces) /\ \A i, j \in DOMAIN Catalog : Catalog[i] = Catalog[j] => i = j
ASSUME ToolsAssumption == MaxLag \in Nat
\* The first profile has an expression that is allowed.
ASSUME TerminalAssumption ==
  /\ UsbBudget \in Nat /\ UsbLine \in Nat /\ UsbBytes \in Nat /\ UsbCommands \in Nat
  /\ UsbMoods \subseteq Nat /\ UsbNumbers \subseteq Nat /\ 0 \in UsbMoods \cap UsbAllowed
ASSUME InputsAssumption ==
  /\ {CardChunks, CardLimit, WrapLines} \subseteq Nat /\ 0 \notin {CardChunks, CardLimit, WrapLines}
  /\ TextLength \in Nat /\ DateYears \subseteq Int
ASSUME RecordsAssumption == AppLanguages \subseteq 0 .. 254
ASSUME PageAssumption == Deadline \in Nat /\ Deadline > 0
ASSUME MenuAssumption == Expressions \in Nat /\ Expressions > 0 /\ Diagnostics \in Nat /\ Diagnostics >= 3

\* Places beside each limit of the two trackers.
MCXs == {-45, 0, 20, 45}
MCYs == {-30, 0, 15, 30}

\* Around midnight, and within a day.
MCWindows == {<<22, 7>>, <<7, 22>>}

\* Every step of the curve of battery.cpp, the limits of both trackers, and one reading beside each.
MCVoltages ==
  {0, 2799, 2800, 3000, 3001, 3060, 3299, 3300, 3301, 3450, 3679, 3680, 3681, 3750, 3800, 3869, 3870, 3900, 3950,
   4000, 4059, 4060, 4061, 4076, 4077, 4150, 4199, 4200, 4201, 4350, 4351}

\* Both ends of the years whose dates are accepted.
MCYears == (2023 .. 2028) \cup (2098 .. 2100)

\* Neutral (0) and Dizzy (3) are not in the catalog; face 2 is of the family of face 1.
MCCatalog == <<1, 2, 4, 5>>
MCFamilies == [f \in 0..5 |-> IF f = 2 THEN 1 ELSE f]
MCFilters == {0..5, {1, 2, 5}}

VARIABLES
  part, s,
  profile, faces, rotate, saved, rev, nvs, saving, session, form

settingsVars == <<profile, faces, rotate, saved, rev, nvs, saving, session, form>>

Water == INSTANCE Companion WITH Slots <- {}, Reminders <- {8}, DayHours <- 1, HourMinutes <- 1, MaxMinute <- 2, MaxSets <- 0

Settings == INSTANCE Settings WITH Faces <- Moods

Sound == INSTANCE Sound
Touch == INSTANCE Touch
Tools == INSTANCE DeskTools
Orientation == INSTANCE Orientation
Menu == INSTANCE SettingsMenu
Policy == INSTANCE CompanionPolicy WITH Day <- PolicyDay
Buttons == INSTANCE Buttons
Backlight == INSTANCE Backlight WITH Windows <- NightWindows, Idle <- IdleAfter
Terminal == INSTANCE Terminal WITH
  Budget <- UsbBudget, MaxLine <- UsbLine, MaxBytes <- UsbBytes, MaxSets <- UsbCommands,
  Moods <- UsbMoods, Allowed <- UsbAllowed, Numbers <- UsbNumbers
Inputs == INSTANCE Inputs WITH
  MaxChunks <- CardChunks, Limit <- CardLimit, MaxLines <- WrapLines, MaxText <- TextLength, Years <- DateYears
Records == INSTANCE Records WITH Languages <- AppLanguages
Motion == INSTANCE Motion WITH Gap <- LiftGap, Settle <- LiftSettle
Page == INSTANCE NetworkPage

Faces == INSTANCE Faces WITH Faces <- AllFaces, Moods <- FaceMoods, Filters <- FaceFilters
Supply == INSTANCE PowerSupply

deviceVars == <<part, s, vars, settingsVars>>

PartInit ==
  \/ part = "alarms" /\ s = 0
  \/ part = "sound" /\ Sound!Init
  \/ part = "touch" /\ Touch!Init
  \/ part = "tools" /\ Tools!Init
  \/ part = "faces" /\ Faces!Init
  \/ part = "orientation" /\ Orientation!Init
  \/ part = "menu" /\ Menu!Init
  \/ part = "supply" /\ Supply!Init
  \/ part = "policy" /\ Policy!Init
  \/ part = "page" /\ Page!Init
  \/ part = "buttons" /\ Buttons!Init
  \/ part = "backlight" /\ Backlight!Init
  \/ part = "records" /\ Records!Init
  \/ part = "inputs" /\ Inputs!Init
  \/ part = "terminal" /\ Terminal!Init
  \/ part = "motion" /\ Motion!Init

PartNext ==
  \/ part = "sound" /\ Sound!Next
  \/ part = "touch" /\ Touch!Next
  \/ part = "tools" /\ Tools!Next
  \/ part = "faces" /\ Faces!Next
  \/ part = "orientation" /\ Orientation!Next
  \/ part = "menu" /\ Menu!Next
  \/ part = "supply" /\ Supply!Next
  \/ part = "policy" /\ Policy!Next
  \/ part = "page" /\ Page!Next
  \/ part = "buttons" /\ Buttons!Next
  \/ part = "backlight" /\ Backlight!Next
  \/ part = "records" /\ Records!Next
  \/ part = "inputs" /\ Inputs!Next
  \/ part = "terminal" /\ Terminal!Next
  \/ part = "motion" /\ Motion!Next

\* The settings of the other parts stay those of a device on which nothing was saved.
DeviceInit ==
  /\ Settings!Init
  /\ \/ Init /\ part = "settings" /\ s = 0
     \/ Init /\ PartInit /\ nvs = Settings!NoRecords
     \/ Water!Init /\ part = "water" /\ s = 0 /\ nvs = Settings!NoRecords

DeviceNext ==
  /\ UNCHANGED part
  /\ \/ part = "alarms" /\ Next /\ UNCHANGED <<s, settingsVars>>
     \/ part = "water" /\ Water!Next /\ UNCHANGED <<s, settingsVars>>
     \/ part = "settings" /\ Settings!Next /\ UNCHANGED <<s, vars>>
     \/ PartNext /\ UNCHANGED <<vars, settingsVars>>

DeviceSpec == DeviceInit /\ [][DeviceNext]_deviceVars

-----------------------------------------------------------------------------

\* The expression is one that is allowed, and what is not shown as unsaved is what a restart
\* brings back: Settings.  The radio scans for a session only, and no page replaces a network that
\* it has not shown: NetworkPage.
SettingsRight ==
  /\ Settings!SettingsRight
  /\ part = "page" => Page!PageRight

\* A form is accepted only while all that it replaces is as its page showed it: Settings.
FormIsCurrent == Settings!FormIsCurrent

\* What is played fits the moment, and was not pushed aside by less: Sound.
PlayedFits == [][part = "sound" => Sound!PlayedFits]_deviceVars

\* One contact is one gesture: Touch.  One press is one click, or one hold: Buttons.
OneGesture ==
  /\ part = "touch" => Touch!OneGesture
  /\ part = "buttons" => Buttons!ButtonsRight

\* The timer keeps time, a tray is whole, a game is decided once: DeskTools.  A sound that is played
\* lies in its file, a text is of whole characters and loses none of them where it is wrapped, and
\* a date has its weekday: Inputs.  A line of the terminal is carried out once, whole, and changes the
\* field that it names: Terminal.  A record is read as it was written, or refused: Records.
AlgorithmsRight ==
  /\ part = "terminal" => Terminal!TerminalRight
  /\ part = "records" => Records!RecordsRight
  /\ part = "tools" => Tools!ToolsCorrect
  /\ part = "inputs" => Inputs!InputsRight

\* Excluded faces stay hidden, and a sequence visits every face: Faces.
FacesRight == part = "faces" => Faces!FacesRight

\* The image is turned by poses that last, and the record is that of the last success: Orientation.
\* Shakes and lifts are deliberate: Motion.
OrientationRight ==
  /\ part = "orientation" => Orientation!OrientationRight
  /\ part = "motion" => Motion!MotionRight

\* A row that is drawn exists, and a value that is reached is accepted: SettingsMenu.
MenuRight == part = "menu" => Menu!MenuRight

\* A change of supply is told once, and the charge follows the voltage: PowerSupply.  The
\* brightness is the one that settings, clock, windows and idle time call for: Backlight.
PowerBelieved ==
  /\ part = "supply" => Supply!PowerBelieved
  /\ part = "backlight" => Backlight!LevelCurrent

\* Windows, reminders and alarms are due when their schedules say: CompanionPolicy.
SchedulesRight ==
  /\ part = "policy" => Policy!SchedulesRight
  /\ IF part = "water" THEN Water!TypeOK ELSE TypeOK

\* docs/NETWORK.md:69: "Scans have a 15-second deadline and stop on session close or firmware
\* entry."  The deadline of NetworkPage ends a scan only after its length.
ScanLasts == part = "page" => Page!ScanLasts
=============================================================================
