CONSTANTS
  f1 = f1
  f2 = f2
  f3 = f3
  Files = {f1, f2}
  WorkerCounts = {2}
  MaxListLen = 2
  MaxRuns = 1
  Frameworks = {"rspec", "jest"}
  ListCommands = {"cmdA"}
  SkipRecalc = {FALSE}
  ListOutcomes = {"ok", "timer", "eof"}
SPECIFICATION Spec
SYMMETRY FilesSymmetry
PROPERTY
  ListingReturns
CHECK_DEADLOCK FALSE
