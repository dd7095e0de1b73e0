----------------------------- MODULE Preparation ------------------------------
(***************************************************************************)
(* A run's preparation as the supervisor does it: the Pipeline of         *)
(* runTestTheTests composed with the Splitter it calls.  The split gets   *)
(* len(goodWorkers) workers, and its result (buckets or an error) is what *)
(* the attempt continues with.                                            *)
(***************************************************************************)
EXTENDS Naturals, Sequences

CONSTANTS Workers, CommandConcurrency, Concurrency, MaxWorkersEnv,
          RebuildRetry, MaxRunTests, Versions,
          DeregisterCanFail, NomadOutcomes,
          Files, WorkerCounts, MaxListLen, MaxRuns, Frameworks, ListCommands,
          SkipRecalc, ListOutcomes

VARIABLES registered, builtWith, stored, buildAt, version, runTests,
          retryCount, noWorkerRetry, stage, good, entry, warms,
          memo, lastCmd, phase, n, fw, listed, myFiles, total, runs

P == INSTANCE Pipeline
S == INSTANCE Splitter

pvars == <<registered, builtWith, stored, buildAt, version, runTests,
           retryCount, noWorkerRetry, stage, good, entry, warms>>
svars == <<memo, lastCmd, phase, n, fw, listed, myFiles, total, runs>>
vars == <<pvars, svars>>

Init == P!Init /\ S!Init

(* runTestTheTests calls splitTestFiles with len(goodWorkers).             *)
StartSplitting == P!SplitStarted /\ S!SplitFor(Len(good))

(* splitTestFiles returns buckets or an error to the attempt.              *)
SplitReturns ==
  /\ phase \in {"split", "error"}
  /\ P!SplitReturned(phase = "split")
  /\ UNCHANGED svars

(* The list session ends with a listing, a failure, or without an answer *)
(* the loop returns on (Splitter's ListNoAnswer: the split hangs or the   *)
(* process panics, and the attempt never goes on).                         *)
ListStep == (S!ListFinished \/ S!ListFailed \/ S!ListNoAnswer) /\ UNCHANGED pvars

PipelineStep ==
  /\ \/ P!StartRunTests
     \/ P!AcquireNoWorkers
     \/ P!Acquire
     \/ P!Sync
     \/ P!CheckWorkers
     \/ \E r \in warms : P!WarmDone(r)
     \/ P!AwaitWarm
     \/ P!Execute
  /\ UNCHANGED svars

Next == PipelineStep \/ StartSplitting \/ SplitReturns \/ ListStep

(* Only safety is claimed of the preparation, so the specification has no *)
(* fairness: a RunTests call need not be answered, since the listing may   *)
(* never answer and the warm-up and execution sessions may never return.   *)
Spec == Init /\ [][Next]_vars

-----------------------------------------------------------------------------
(* Properties                                                              *)

(* Both components' variables keep their types.                            *)
TypeOK == P!TypeOK /\ S!TypeOK

(* Tests run only on workers built from this run's watched files: the     *)
(* rebuild check and deregistration of runTestTheTests keep stale workers *)
(* out of the execution stage (Pipeline's FreshWorkersOnly).               *)
FreshWorkersOnly == P!FreshWorkersOnly

=============================================================================
