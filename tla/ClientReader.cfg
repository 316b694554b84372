SPECIFICATION FairSpec
CONSTANTS
  MaxOutputs = 2
  MaxProgress = 1
  MaxInputs = 3
  MaxResizes = 1
  Window = 1
INVARIANTS
  TypeOK
  OkMeansAllSent
  GatePanicsOnlyAtEnd
PROPERTIES
  StdinIsPipe
  SizesAreTaken
  ExitEndsHandler
  LoopEndsUnlessInputPending
CHECK_DEADLOCK FALSE
