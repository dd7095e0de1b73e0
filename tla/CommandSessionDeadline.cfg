\* No cancellation: the only way a session ends early is the worker's deadline.
CONSTANTS
  BuildCmds <- MCBuildCmds
  Frameworks <- MCFrameworks
  CancelPossible = FALSE
  OtherSession = FALSE
  MaxDialFailures = 1
  CancelDuringDial = FALSE
SPECIFICATION Spec
INVARIANT SuccessOnlyAfterLastTerminal
CHECK_DEADLOCK FALSE
