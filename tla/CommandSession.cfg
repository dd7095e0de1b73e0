\* Built and unbuilt workers, with and without a results file, with
\* cancellation of the run context, also while dialling.
CONSTANTS
  BuildCmds <- MCBuildCmds
  Frameworks <- MCFrameworks
  CancelPossible = TRUE
  OtherSession = TRUE
  MaxDialFailures = 1
  CancelDuringDial = TRUE
SPECIFICATION Spec
INVARIANTS
  TypeOK
  TerminalMatchesCommand
PROPERTIES
  ImplementsContract
  GateEventuallyReleased
\* A session ends: both sides return and their goroutines exit or stay
\* blocked on channels nobody reads any more.
CHECK_DEADLOCK FALSE
