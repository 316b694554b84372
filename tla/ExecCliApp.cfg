SPECIFICATION FairSpec
CONSTANTS
  Services <- MCServices
  Reachable <- MCReachable
  StdinIsTerminal = TRUE
  StdOutIsTerminal = TRUE
  MaxInputs = 2
  MaxSignals = 1
  MaxOutputs = 2
  MaxProgress = 1
INVARIANTS
  TypeOK
  ReturnsRemoteStatus
  TerminalRestored
  PanicsOnlyOnReturn
PROPERTIES
  StdinIsPipe
  StdoutIsPipe
  StatusEndsExec
  CancelReturns
CHECK_DEADLOCK FALSE
