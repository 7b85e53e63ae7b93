SPECIFICATION LiveSpec
CONSTANTS
  SlotSize = 3
  MinSize = 3
  Intact <- MCOneBody
  Bodies <- MCOneBody
  Cards = {}
  Leftovers <- MCOneBody
  SessionTicks = 1
  RestartTicks = 1
  MaxParts = 2
  SdSessionTicks = 1
  SdWaitTicks = 1
  SdRestartTicks = 1
  SdChunk = 2
  HealthyTicks = 1
INVARIANTS
  UploadRight
PROPERTIES
  SessionsEnd
  TrialDecided
