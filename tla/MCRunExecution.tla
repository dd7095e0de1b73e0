--------------------------- MODULE MCRunExecution ---------------------------
(* Three workers: enough for a failure to be followed by a pass, for two  *)
(* failures to race for the one-slot exitChannel, and for a worker without *)
(* files next to workers with files.                                       *)
EXTENDS RunExecution

MCWorkers == 1..3

MCConfigs == Config

MCOutcomes == AllOutcomes

(* Both counter paths.  The Jest lines are the two that write PassCount,  *)
(* from PassCount and from SkipCount; the RSpec results frames differ in   *)
(* their failure and pending counts.                                       *)
MCFrameworks == {"Jest", "Rspec"}

MCJestLines == {"PASS", "skipped"}

MCRspecSummaries == {[examples |-> 2, failures |-> 1, pending |-> 0],
                     [examples |-> 1, failures |-> 0, pending |-> 1]}

(* Runs checked for other questions count RSpec results only.             *)
MCRspecOnly == {"Rspec"}

MCOneSummary == {[examples |-> 1, failures |-> 0, pending |-> 0]}

(* Collect-all test runs of a framework with a results file, one of whose *)
(* shards cannot read it.                                                  *)
MCCollectAll == {[NoFailFast |-> TRUE, PassThrough |-> FALSE]}

MCPassOrUnreadable == {Passed, ResultsUnreadable}

(* Runs where every worker gets work; the results may be cancelled.        *)
MCPassThrough == {[NoFailFast |-> b, PassThrough |-> TRUE] : b \in BOOLEAN}

MCPassOrCancelled == {Passed, Cancelled}

(* Fail-fast runs with failing commands.                                   *)
MCFailFast == {[NoFailFast |-> FALSE, PassThrough |-> TRUE]}

MCPassOrFailed == {Passed, CommandFailed}
=============================================================================
