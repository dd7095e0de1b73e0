\* Every worker gets work; the client may cancel the call.
CONSTANTS
  Workers <- MCWorkers
  Configs <- MCPassThrough
  SessionOutcomes <- MCPassOrCancelled
  Frameworks <- MCRspecOnly
  JestLines <- MCJestLines
  RspecSummaries <- MCOneSummary
SPECIFICATION Spec
INVARIANT CompletedOnlyIfAllRan
CHECK_DEADLOCK FALSE
