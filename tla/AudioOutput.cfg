SPECIFICATION FairSpec
CONSTANTS
  CueBlocks = 1
  ClipBlocks = 1
  DrainBlocks = 1
INVARIANTS
  AudioInv
  CueNotCutShort
PROPERTIES
  ImplementsCardBus
  CueEnds
  WorkerYields
