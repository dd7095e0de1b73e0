CONSTANTS
  c1 = c1
  c2 = c2
  p1 = p1
  p2 = p2
  Clients <- MCClients
  Projects <- MCProjects
  RetryCount <- MCRetryCount
  MaxAttempts <- MCMaxAttempts
  Interactive <- MCInteractive
  MaxInputs <- MCMaxInputs
  Keys <- MCKeys
  MaxRuns <- MCMaxRuns
  ProjectAssignments <- MCProjectAssignments
SPECIFICATION Spec
INVARIANT
  OneRunInProgress
CHECK_DEADLOCK FALSE
