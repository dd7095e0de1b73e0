CONSTANTS
  f1 = f1
  f2 = f2
  f3 = f3
  Files = {f1, f2}
  WorkerCounts = {1, 2}
  MaxListLen = 2
  MaxRuns = 2
  Frameworks = {"rspec"}
  ListCommands = {"cmdA"}
  SkipRecalc = {FALSE, TRUE}
  ListOutcomes = {"ok"}
SPECIFICATION Spec
SYMMETRY FilesSymmetry
INVARIANT
  EveryFileOnce
CHECK_DEADLOCK FALSE
