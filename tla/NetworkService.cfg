SPECIFICATION FairSpec
CONSTANTS
  MaxSaves = 1
  SessionKinds = {"lan", "ap", "failed", "card"}
  RadioMayFail = TRUE
INVARIANTS
  ServiceRight
PROPERTIES
  StationKept
  AttemptsContinue
