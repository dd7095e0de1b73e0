\* Collect-all runs; a shard may fail to read its results file.
CONSTANTS
  Workers <- MCWorkers
  Configs <- MCCollectAll
  SessionOutcomes <- MCPassOrUnreadable
  Frameworks <- MCRspecOnly
  JestLines <- MCJestLines
  RspecSummaries <- MCOneSummary
SPECIFICATION Spec
INVARIANT ClientVerdictMatchesStatus
CHECK_DEADLOCK FALSE
