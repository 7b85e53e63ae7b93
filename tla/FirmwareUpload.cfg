SPECIFICATION Spec
CONSTANTS
  SlotSize = 4
  MinSize = 3
  Intact <- MCIntact
  Bodies <- MCBodies
  Cards = {}
  Leftovers <- MCLeftovers
  SessionTicks = 1
  RestartTicks = 1
  MaxParts = 1
  SdSessionTicks = 1
  SdWaitTicks = 1
  SdRestartTicks = 1
  SdChunk = 2
  HealthyTicks = 1
INVARIANTS
  IndInv
PROPERTIES
  StepsSafe
  ImplementsAbUpdate
