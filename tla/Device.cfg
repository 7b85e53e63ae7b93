SPECIFICATION DeviceSpec
CONSTANTS
  Slots = {0}
  Reminders = {}
  DayHours = 1
  HourMinutes = 1
  MaxMinute = 2
  MaxSets = 2
  MaxLinks = 1
  MaxFinds = 0
  Expressions = 146
  Diagnostics = 11
  Cues = {"Tap", "Charging", "Test"}
  Moods = {0, 1}
  Values = {0, 1}
  MaxRevision = 3
  Deadline = 3
  Networks = {"home", "work"}
  MaxSaves = 2
  Xs <- MCXs
  Ys <- MCYs
  Debounce = 3
  Hold = 6
  Away = 8
  ProfileDays = {60}
  ProfileNights = {2, 20}
  NightWindows <- MCWindows
  Hours = {6, 7, 21, 22}
  IdleAfter = 2
  Voltages <- MCVoltages
  Empty = 3
  Full = 92
  Samples = 2
  Settle = 2
  Timeout = 4
  Gap = 1
  Between = 2
  ShakePause = 6
  Impulses = 5
  LiftGap = 1
  RestAge = 4
  Window = 6
  LiftSettle = 2
  LiftPause = 12
  PolicyDay = 8
  MaxLag = 31
  UsbBudget = 2
  UsbLine = 2
  UsbBytes = 6
  UsbCommands = 2
  UsbMoods = {0, 1}
  UsbAllowed = {0}
  UsbNumbers = {0, 1, 4, 5, 20, 21, 23, 24, 30, 31, 90, 91}
  CardChunks = 3
  CardLimit = 6
  WrapLines = 3
  TextLength = 6
  DateYears <- MCYears
  AppLanguages = {0, 1, 2}
  AllFaces = {0, 1, 2, 3, 4, 5}
  Dizzy = 3
  Catalog <- MCCatalog
  TapFaces = {1, 2, 4}
  PlayFaces = {4, 5}
  PetFaces = {1, 5}
  MotionFaces = {2}
  LongFaces = {4}
  Families <- MCFamilies
  Recent = 1
  Group = 2
  FaceMoods = {0, 2}
  FaceFilters <- MCFilters
  Watched = 1
INVARIANTS
  OneShotOnce
  SettingsRight
  OneGesture
  AlgorithmsRight
  FacesRight
  OrientationRight
  MenuRight
  PowerBelieved
  SchedulesRight
PROPERTIES
  AlertsAdvance
  FormIsCurrent
  PlayedFits
