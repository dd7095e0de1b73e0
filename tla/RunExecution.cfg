\* All configurations and all session outcomes of three workers.
CONSTANTS
  Workers <- MCWorkers
  Configs <- MCConfigs
  SessionOutcomes <- MCOutcomes
  Frameworks <- MCFrameworks
  JestLines <- MCJestLines
  RspecSummaries <- MCRspecSummaries
SPECIFICATION Spec
INVARIANTS
  TypeOK
  NoFailureLost
  ReportedCodeMatchesStatus
  RspecTotalsAgree
PROPERTIES
  FinishRunOnceSessionsReturn
\* A run ends: the goroutines stop once RunTests has returned.
CHECK_DEADLOCK FALSE
