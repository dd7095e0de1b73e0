SPECIFICATION Spec
CONSTANTS
  w1 = w1
  w2 = w2
  w3 = w3
  f1 = f1
  f2 = f2
  Workers <- MCWorkers
  Files <- MCFiles
  WorkerCounts <- MCWorkerCounts
  MaxRuns <- MCMaxRuns
  CommandConcurrency = 0
  Concurrency = 10
  MaxWorkersEnv = 10
  RebuildRetry = 1
  MaxRunTests = 2
  Versions = {"v1", "v2"}
  DeregisterCanFail = FALSE
  NomadOutcomes = {"live", "dead", "unknown"}
  MaxListLen = 2
  Frameworks = {"rspec"}
  ListCommands = {"cmdA"}
  SkipRecalc = {TRUE}
  ListOutcomes = {"ok", "failed", "eof"}
INVARIANTS
  TypeOK
  FreshWorkersOnly
CHECK_DEADLOCK FALSE
