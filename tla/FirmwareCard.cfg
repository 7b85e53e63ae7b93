SPECIFICATION Spec
CONSTANTS
  SlotSize = 4
  MinSize = 3
  Intact <- MCIntact
  Bodies = {}
  Cards <- MCCards
  Leftovers <- MCLeftovers
  SessionTicks = 2
  RestartTicks = 1
  MaxParts = 1
  SdSessionTicks = 2
  SdWaitTicks = 1
  SdRestartTicks = 1
  SdChunk = 2
  HealthyTicks = 1
INVARIANTS
  SlotsSafe
  CardRight
