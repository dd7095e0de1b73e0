-------------------------- MODULE MCCommandSession --------------------------
(* A worker with one foreground and one background build command, so that *)
(* an unbuilt worker runs three commands and a built one only the test.   *)
EXTENDS CommandSession

MCBuildCmds == <<FALSE, TRUE>>

(* A framework whose test run writes a results file and one whose run     *)
(* does not.                                                               *)
MCFrameworks == {"Jest", "Raw"}

SC == INSTANCE SessionContract WITH result <- Outcome

(* connectToServer implements the contract RunExecution relies on: it     *)
(* returns at most once, and returns Cancelled or WorkerEOF only after    *)
(* the run was cancelled or the worker's deadline passed, whatever the    *)
(* worker's gate, commands, output goroutines and crashes did.            *)
ImplementsContract == SC!Spec
=============================================================================
