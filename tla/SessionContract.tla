--------------------------- MODULE SessionContract ---------------------------
(***************************************************************************)
(* What one call of connectToServer (src/core/super/main.go) promises its  *)
(* caller, runTestTheTests: it returns at most once, with one of the      *)
(* outcomes module RunExecution distinguishes, and a result that does not  *)
(* come from finished commands needs a reason the environment supplied:    *)
(* the run context cancelled, or the worker's RUNNER_COMMAND_TIMEOUT       *)
(* deadline passed.  CommandSession refines this specification.            *)
(***************************************************************************)

None              == "None"
Passed            == "Passed"
ResultsUnreadable == "ResultsUnreadable"
CommandFailed     == "CommandFailed"
DialFailed        == "DialFailed"
TimedOut          == "TimedOut"
WorkerEOF         == "WorkerEOF"
Cancelled         == "Cancelled"

Outcomes == {Passed, ResultsUnreadable, CommandFailed, DialFailed, TimedOut,
             WorkerEOF, Cancelled}

VARIABLES
  result,     \* None until connectToServer returns, then its outcome
  cancelled,  \* the run context was cancelled
  deadline    \* the worker's session deadline passed

cvars == <<result, cancelled, deadline>>

Init == result = None /\ cancelled = FALSE /\ deadline = FALSE

Cancel == ~cancelled /\ cancelled' = TRUE /\ UNCHANGED <<result, deadline>>

Deadline == ~deadline /\ deadline' = TRUE /\ UNCHANGED <<result, cancelled>>

(* The outcomes that need the environment: a cancelled result needs a     *)
(* cancelled context; a nil result before the last terminal frame         *)
(* needs the worker's context to have ended.                              *)
Allowed(o) ==
  /\ o = Cancelled => cancelled
  /\ o = WorkerEOF => cancelled \/ deadline

Return ==
  /\ result = None
  /\ \E o \in Outcomes : Allowed(o) /\ result' = o
  /\ UNCHANGED <<cancelled, deadline>>

Next == Return \/ Cancel \/ Deadline

(* No promise that connectToServer returns: its dial loop spins for ever  *)
(* on a worker it cannot reach (super/main.go 1444-1471), so the contract *)
(* is a safety specification and carries no fairness.                     *)
Spec == Init /\ [][Next]_cvars

=============================================================================
