CONSTANTS
  f1 = f1
  f2 = f2
  f3 = f3
  Files = {f1, f2}
  WorkerCounts = {1, 2, 3}
  MaxListLen = 3
  MaxRuns = 2
  Frameworks = {"rspec", "jest", "auto", "raw", "python"}
  ListCommands = {"cmdA"}
  SkipRecalc = {FALSE}
  ListOutcomes = {"ok", "nonzero", "unreadable", "failed", "emptyJson", "timer", "streamError", "eof", "cancelled"}
SPECIFICATION Spec
SYMMETRY FilesSymmetry
INVARIANTS
  TypeOK
  EveryFileOnce
CHECK_DEADLOCK FALSE
