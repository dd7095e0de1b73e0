---------------------------- MODULE RunExecution ----------------------------
(***************************************************************************)
(* The execution stage of one test command on the supervisor               *)
(* (src/core/super/main.go, runTestTheTests from the wait group to the     *)
(* final select, its deferred FinishRun, and the path of its result        *)
(* through RunTests to the CLI client).                                    *)
(*                                                                         *)
(* One goroutine per good worker runs connectToServer and then reports on  *)
(* the shared exitCode and the capacity-1 exitChannel; a waiter goroutine  *)
(* turns wg.Wait into a closed doneChannel; the caller selects on both.    *)
(* What connectToServer returns for a worker is abstracted to an outcome   *)
(* (module CommandSession models how each outcome arises).  Frames reach  *)
(* the client through bufferStream/responseStream and a relay goroutine   *)
(* that stops when RunTests returns.                                       *)
(***************************************************************************)
EXTENDS Naturals, Integers, Sequences, FiniteSets

LOCAL INSTANCE Functions

CONSTANTS
  Workers,          \* goodWorkers, indexed 1..N in the order of the range loop
  Configs,          \* the run configurations to explore (see Config)
  SessionOutcomes,  \* the results of connectToServer this model may produce
  Frameworks,       \* config.Framework values to explore: "Jest", "Rspec"
  JestLines,        \* stderr lines updateCountsJest tells apart
  RspecSummaries    \* parsed summaries of a results frame's JsonResults

(* NoFailFast is config.NoFailFast; PassThrough stands for                 *)
(* config.Framework = Python \/ command.NoTestFiles.                       *)
Config == [NoFailFast : BOOLEAN, PassThrough : BOOLEAN]

(* Results of connectToServer for one worker, in the terms the caller      *)
(* uses: the error it returns, the exit code of the last ExecutionInfo,    *)
(* whether a FAILED control frame was relayed, whether the tests ran.      *)
Passed            == "Passed"            \* every command FINISHED with 0
ResultsUnreadable == "ResultsUnreadable" \* FINISHED frame carrying 255
CommandFailed     == "CommandFailed"     \* FAILED frame, error returned
DialFailed        == "DialFailed"        \* FAILED frame after 5 dials
TimedOut          == "TimedOut"          \* COMMAND_TIMEOUT / stream error
WorkerEOF         == "WorkerEOF"         \* stream ended early, nil error
Cancelled         == "Cancelled"         \* run context cancelled, nil error

AllOutcomes == {Passed, ResultsUnreadable, CommandFailed, DialFailed,
                TimedOut, WorkerEOF, Cancelled}

ASSUME SessionOutcomes \subseteq AllOutcomes /\ Configs \subseteq Config

(* updateCounts: Jest matches "PASS", "skipped test" and "FAIL" in the     *)
(* frame's stderr, in that order; every other framework but Cypress (whose *)
(* branch only logs) parses the frame's JsonResults as an RSpec summary.   *)
ASSUME /\ Frameworks \subseteq {"Jest", "Rspec"}
       /\ JestLines \subseteq {"PASS", "skipped", "FAIL"}
       /\ RspecSummaries \subseteq [examples : Nat, failures : Nat, pending : Nat]

SessionErr(o)   == o \in {CommandFailed, DialFailed, TimedOut}
SessionCode(o)  == IF o = ResultsUnreadable THEN 255 ELSE 0
FailedFrame(o)  == o \in {CommandFailed, DialFailed}
TestsRan(o)     == o \in {Passed, ResultsUnreadable, CommandFailed}

None == "None"

NoFrame == [examples |-> 0, failures |-> 0, pending |-> 0, none |-> TRUE]
TestFailedError == "TestFailedError"
SessionError    == "SessionError"

VARIABLES
  config,        \* the run's configuration, fixed for the run
  hasFiles,      \* hasFiles[w]: myFiles[i] is non-empty
  wpc,           \* program counter of each worker goroutine
  outcome,       \* what connectToServer returned to each worker
  pending,       \* sends to exitChannel a worker still has to make
  exitCode,      \* the shared exitCode of runTestTheTests
  exitChannel,   \* make(chan error, 1)
  doneChannel,   \* closed by the waiter goroutine
  jrunStatus,    \* the jrunStatus the deferred FinishRun reads
  coord,         \* "select" until runTestTheTests returns
  runErr,        \* the error runTestTheTests returned
  finishRuns,    \* FinishRun calls made, as [status, exitCode] records
  ctxCancelled,  \* the RunTests stream context is cancelled
  relay,         \* FAILED frames on their way to the client
  clientSawFailed, \* the client received a FAILED control frame
  runTests,      \* "running", or the result of RunTests: "ok" / "err"
  framework,     \* config.Framework, fixed for the run
  counts,        \* the run's countStruct cs: FailCount, PassCount, SkipCount
  peak,          \* the largest value each count has held (Jest path)
  frame,         \* the RSpec results frame each worker counted
  csMuLeaked     \* updateCountsRspec returned with cs.mu still locked

counterVars == <<framework, counts, peak, frame, csMuLeaked>>

vars == <<config, hasFiles, wpc, outcome, pending, exitCode, exitChannel, doneChannel,
          jrunStatus, coord, runErr, finishRuns, ctxCancelled, relay,
          clientSawFailed, runTests, counterVars>>

ExitCodes == {-1, 0, 1, 255}

TypeOK ==
  /\ config \in Config
  /\ hasFiles \in [Workers -> BOOLEAN]
  /\ wpc \in [Workers -> {"start", "session", "report", "done"}]
  /\ outcome \in [Workers -> AllOutcomes \cup {None}]
  /\ pending \in [Workers -> Seq({SessionError, TestFailedError})]
  /\ exitCode \in ExitCodes
  /\ exitChannel \in Seq({SessionError, TestFailedError})
  /\ Len(exitChannel) <= 1
  /\ doneChannel \in BOOLEAN
  /\ jrunStatus \in {"failed", "completed"}
  /\ coord \in {"select", "returned"}
  /\ runErr \in {None, SessionError, TestFailedError}
  /\ finishRuns \in Seq([status : {"failed", "completed"}, code : ExitCodes])
  /\ ctxCancelled \in BOOLEAN
  /\ relay \in 0..Cardinality(Workers)
  /\ clientSawFailed \in BOOLEAN
  /\ runTests \in {"running", "ok", "err"}
  /\ framework \in Frameworks
  /\ counts \in [fail : Nat, pass : Nat, skip : Nat]
  /\ peak \in [fail : Nat, pass : Nat, skip : Nat]
  /\ frame \in [Workers -> RspecSummaries \cup {NoFrame}]
  /\ csMuLeaked \in BOOLEAN

(* The split hands files to buckets round robin, so the buckets that get   *)
(* files are the first ones: a prefix of the workers.                      *)
Init ==
  /\ config \in Configs
  /\ \E n \in 0..Cardinality(Workers) : hasFiles = [w \in Workers |-> w <= n]
  /\ wpc = [w \in Workers |-> "start"]
  /\ outcome = [w \in Workers |-> None]
  /\ pending = [w \in Workers |-> <<>>]
  /\ exitCode = -1
  /\ exitChannel = <<>>
  /\ doneChannel = FALSE
  /\ jrunStatus = "failed"
  /\ coord = "select"
  /\ runErr = None
  /\ finishRuns = <<>>
  /\ ctxCancelled = FALSE
  /\ relay = 0
  /\ clientSawFailed = FALSE
  /\ runTests = "running"
  /\ framework \in Frameworks
  /\ counts = [fail |-> 0, pass |-> 0, skip |-> 0]
  /\ peak = counts
  /\ frame = [w \in Workers |-> NoFrame]
  /\ csMuLeaked = FALSE

-----------------------------------------------------------------------------
(* Variant of StartWorker: the early return for a worker without files    *)
(* skips wg.Done (the call commented out beside that return).              *)
StartWorkerWithoutDone(w) ==
  /\ wpc[w] = "start"
  /\ wpc' = [wpc EXCEPT ![w] = IF hasFiles[w] \/ config.PassThrough
                                 THEN "session" ELSE "start"]
  /\ UNCHANGED <<config, hasFiles, outcome, pending, exitCode, exitChannel,
                 doneChannel, jrunStatus, coord, runErr, finishRuns,
                 ctxCancelled, relay, clientSawFailed, runTests, counterVars>>

(* Worker goroutine, up to connectToServer: a worker without files returns *)
(* at once (an error frame without a Control field, and wg.Done) unless    *)
(* the framework runs without files.                                       *)
StartWorker(w) ==
  /\ wpc[w] = "start"
  /\ wpc' = [wpc EXCEPT ![w] = IF hasFiles[w] \/ config.PassThrough
                                 THEN "session" ELSE "done"]
  /\ UNCHANGED <<config, hasFiles, outcome, pending, exitCode, exitChannel,
                 doneChannel, jrunStatus, coord, runErr, finishRuns,
                 ctxCancelled, relay, clientSawFailed, runTests, counterVars>>

(* executionInfo.ExitCode after the error check: 1 on an error.            *)
InfoExitCode(o) == IF SessionErr(o) THEN 1 ELSE SessionCode(o)

(* Variant of NewExitCode without the "exitCode <= 0" guard: every worker  *)
(* writes its own code.                                                    *)
NewExitCodeOverwrite(o) == IF SessionErr(o) THEN 1 ELSE SessionCode(o)

(* The shared exitCode after this worker's result: 1 on an error, else the *)
(* worker's code only if no failure is recorded yet.                       *)
NewExitCode(o) ==
  IF SessionErr(o) THEN 1
  ELSE IF exitCode <= 0 /\ SessionCode(o) > 0 THEN SessionCode(o)
  ELSE exitCode

(* The sends to exitChannel at the end of the goroutine, in code order:    *)
(* the error itself, then TestFailedError for a non-zero exit code.        *)
ExitSends(o) ==
  (IF SessionErr(o) /\ ~config.NoFailFast THEN <<SessionError>> ELSE <<>>)
  \o (IF ~config.NoFailFast /\ InfoExitCode(o) # 0 THEN <<TestFailedError>> ELSE <<>>)

(* The count each Jest case reads and the one it writes: "skipped test"   *)
(* reads SkipCount and writes PassCount.                                   *)
JestReads  == [PASS |-> "pass", skipped |-> "skip", FAIL |-> "fail"]
JestWrites == [PASS |-> "pass", skipped |-> "pass", FAIL |-> "fail"]

(* Variant of RspecCounts that sets FailCount as it sets SkipCount.        *)
RspecCountsAssigned(c, r) ==
  [fail |-> r.failures,
   pass |-> c.pass + (r.examples - r.failures),
   skip |-> r.pending]

(* The counts after an RSpec summary: failures and examples less failures *)
(* are added, SkipCount is set to the frame's pending count.               *)
RspecCounts(c, r) ==
  [fail |-> c.fail + r.failures,
   pass |-> c.pass + (r.examples - r.failures),
   skip |-> r.pending]

(* Jest: updateCountsJest takes no lock, and the workers' receive loops    *)
(* run it concurrently on the one cs: a data race.  A read of a count may *)
(* return any value the count has held (each write is a value read plus   *)
(* one, so those are 0 up to its peak), and the write of that value plus  *)
(* one may overwrite larger ones.  A session counts at most one line.     *)
JestLineCounted(w) ==
  \/ \E l \in JestLines : \E v \in 0..peak[JestReads[l]] :
       /\ counts' = [counts EXCEPT ![JestWrites[l]] = v + 1]
       /\ peak' = [peak EXCEPT ![JestWrites[l]] = IF v + 1 > @ THEN v + 1 ELSE @]
       /\ UNCHANGED <<frame, csMuLeaked>>
  \/ UNCHANGED <<counts, peak, frame, csMuLeaked>>

(* RSpec: the results frame (FINISHED, or FAILED for failing tests) of a  *)
(* test run carries JsonResults, and updateCountsRspec parses it and      *)
(* updates cs under cs.mu in one step.  A passed session of a test run    *)
(* has one; a failed one has one if its test command ran; Python and      *)
(* NoTestFiles runs send none.  cs.mu.Lock blocks for ever once an        *)
(* earlier call returned on a ParseRspecJsonResults error without         *)
(* unlocking, and the session then never returns.                          *)
RspecResultsCounted(w, o) ==
  \/ /\ o \in {Passed, CommandFailed}
     /\ ~config.PassThrough
     /\ ~csMuLeaked
     /\ \/ \E r \in RspecSummaries :
             /\ counts' = RspecCounts(counts, r)
             /\ frame' = [frame EXCEPT ![w] = r]
             /\ UNCHANGED csMuLeaked
        \/ /\ csMuLeaked' = TRUE
           /\ UNCHANGED <<counts, frame>>
     /\ peak' = peak
  \/ /\ o # Passed \/ config.PassThrough
     /\ UNCHANGED <<counts, peak, frame, csMuLeaked>>

(* updateCounts, on the frames of the session up to its return.           *)
UpdateCounts(w, o) ==
  \/ framework = "Jest" /\ JestLineCounted(w)
  \/ framework = "Rspec" /\ RspecResultsCounted(w, o)

(* connectToServer returns; the worker records the exit code, logs the run *)
(* and queues its exitChannel sends.  A cancelled result needs the run     *)
(* context to be cancelled.  The worker reads a results file only for a   *)
(* test command of a framework with one (server/main.go 458), so a        *)
(* FINISHED frame carrying 255 needs such a run.                           *)
SessionReturns(w) ==
  /\ wpc[w] = "session"
  /\ \E o \in SessionOutcomes :
       /\ o = Cancelled => ctxCancelled
       /\ o = ResultsUnreadable => ~config.PassThrough
       /\ outcome' = [outcome EXCEPT ![w] = o]
       /\ exitCode' = NewExitCode(o)
       /\ pending' = [pending EXCEPT ![w] = ExitSends(o)]
       /\ relay' = IF FailedFrame(o) THEN relay + 1 ELSE relay
       /\ UpdateCounts(w, o)
  /\ wpc' = [wpc EXCEPT ![w] = "report"]
  /\ UNCHANGED <<config, hasFiles, exitChannel, doneChannel, jrunStatus, coord,
                 runErr, finishRuns, ctxCancelled, clientSawFailed, runTests,
                 framework>>

(* Variant of SendExit for an exitChannel made without a capacity bound.   *)
SendExitUnbounded(w) ==
  /\ wpc[w] = "report"
  /\ pending[w] # <<>>
  /\ exitChannel' = Append(exitChannel, Head(pending[w]))
  /\ pending' = [pending EXCEPT ![w] = Tail(@)]
  /\ UNCHANGED <<config, hasFiles, wpc, outcome, exitCode, doneChannel, jrunStatus,
                 coord, runErr, finishRuns, ctxCancelled, relay,
                 clientSawFailed, runTests, counterVars>>

(* exitChannel <- e: blocks while the one-slot buffer is full.             *)
SendExit(w) ==
  /\ wpc[w] = "report"
  /\ pending[w] # <<>>
  /\ Len(exitChannel) < 1
  /\ exitChannel' = Append(exitChannel, Head(pending[w]))
  /\ pending' = [pending EXCEPT ![w] = Tail(@)]
  /\ UNCHANGED <<config, hasFiles, wpc, outcome, exitCode, doneChannel, jrunStatus,
                 coord, runErr, finishRuns, ctxCancelled, relay,
                 clientSawFailed, runTests, counterVars>>

(* The goroutine returns: deferred wg.Done.                                *)
WorkerDone(w) ==
  /\ wpc[w] = "report"
  /\ pending[w] = <<>>
  /\ wpc' = [wpc EXCEPT ![w] = "done"]
  /\ UNCHANGED <<config, hasFiles, outcome, pending, exitCode, exitChannel,
                 doneChannel, jrunStatus, coord, runErr, finishRuns,
                 ctxCancelled, relay, clientSawFailed, runTests, counterVars>>

(* Variant of AllWorkersDone that sets exitCode to 0 without checking for  *)
(* the -1 that means no worker recorded a code.                            *)
AllWorkersDoneResetsCode ==
  /\ \A w \in Workers : wpc[w] = "done"
  /\ ~doneChannel
  /\ exitCode' = 0
  /\ doneChannel' = TRUE
  /\ UNCHANGED <<config, hasFiles, wpc, outcome, pending, exitChannel, jrunStatus,
                 coord, runErr, finishRuns, ctxCancelled, relay,
                 clientSawFailed, runTests, counterVars>>

(* The waiter goroutine: wg.Wait, default an untouched exitCode to 0,      *)
(* close(doneChannel).                                                     *)
AllWorkersDone ==
  /\ \A w \in Workers : wpc[w] = "done"
  /\ ~doneChannel
  /\ exitCode' = IF exitCode = -1 THEN 0 ELSE exitCode
  /\ doneChannel' = TRUE
  /\ UNCHANGED <<config, hasFiles, wpc, outcome, pending, exitChannel, jrunStatus,
                 coord, runErr, finishRuns, ctxCancelled, relay,
                 clientSawFailed, runTests, counterVars>>

-----------------------------------------------------------------------------
(* The deferred FinishRun of runTestTheTests reads jrunStatus and exitCode *)
(* when the function returns; the deferred cancel then cancels the run     *)
(* context that the still running workers use.                             *)
FinishRun(status) ==
  finishRuns' = Append(finishRuns, [status |-> status, code |-> exitCode])

(* select, case e := <-exitChannel: return false, e.                       *)
ReturnOnExit ==
  /\ coord = "select"
  /\ exitChannel # <<>>
  /\ runErr' = Head(exitChannel)
  /\ exitChannel' = Tail(exitChannel)
  /\ FinishRun(jrunStatus)
  /\ coord' = "returned"
  /\ ctxCancelled' = TRUE
  /\ UNCHANGED <<config, hasFiles, wpc, outcome, pending, exitCode, doneChannel,
                 jrunStatus, relay, clientSawFailed, runTests, counterVars>>

(* select, case <-doneChannel: completed iff exitCode = 0; return nil.     *)
ReturnOnDone ==
  /\ coord = "select"
  /\ doneChannel
  /\ jrunStatus' = IF exitCode = 0 THEN "completed" ELSE "failed"
  /\ FinishRun(jrunStatus')
  /\ runErr' = None
  /\ coord' = "returned"
  /\ ctxCancelled' = TRUE
  /\ UNCHANGED <<config, hasFiles, wpc, outcome, pending, exitCode, exitChannel,
                 doneChannel, relay, clientSawFailed, runTests, counterVars>>

(* The command goroutine of RunTests passes the result on errChannel and  *)
(* the handler returns it; the stream to the client then ends.             *)
RunTestsReturns ==
  /\ coord = "returned"
  /\ runTests = "running"
  /\ runTests' = IF runErr = None THEN "ok" ELSE "err"
  /\ UNCHANGED <<config, hasFiles, wpc, outcome, pending, exitCode, exitChannel,
                 doneChannel, jrunStatus, coord, runErr, finishRuns,
                 ctxCancelled, relay, clientSawFailed, counterVars>>

(* The relay goroutine sends a queued FAILED frame to the client; it only *)
(* can while the RunTests stream is open.                                  *)
DeliverFailed ==
  /\ relay > 0
  /\ runTests = "running"
  /\ relay' = relay - 1
  /\ clientSawFailed' = TRUE
  /\ UNCHANGED <<config, hasFiles, wpc, outcome, pending, exitCode, exitChannel,
                 doneChannel, jrunStatus, coord, runErr, finishRuns,
                 ctxCancelled, runTests, counterVars>>

(* The client ends the call (Ctrl-C, a lost Lock stream, or its own return *)
(* on a FAILED frame): the stream context is cancelled.                    *)
ClientCancel ==
  /\ runTests = "running"
  /\ ~ctxCancelled
  /\ ctxCancelled' = TRUE
  /\ UNCHANGED <<config, hasFiles, wpc, outcome, pending, exitCode, exitChannel,
                 doneChannel, jrunStatus, coord, runErr, finishRuns, relay,
                 clientSawFailed, runTests, counterVars>>

Next ==
  \/ \E w \in Workers : StartWorker(w) \/ SessionReturns(w)
                        \/ SendExit(w) \/ WorkerDone(w)
  \/ AllWorkersDone
  \/ ReturnOnExit
  \/ ReturnOnDone
  \/ RunTestsReturns
  \/ DeliverFailed
  \/ ClientCancel

(* Go runs every runnable goroutine.  connectToServer is not assumed to    *)
(* return: its dial loop can spin for ever (super/main.go 1444-1471) and   *)
(* a leaked cs.mu blocks it, so SessionReturns has no fairness.  The       *)
(* client and the relay of frames are not assumed to make progress.        *)
Fairness ==
  /\ \A w \in Workers : WF_vars(StartWorker(w))
                        /\ WF_vars(SendExit(w)) /\ WF_vars(WorkerDone(w))
  /\ WF_vars(AllWorkersDone)
  /\ WF_vars(ReturnOnExit \/ ReturnOnDone)
  /\ WF_vars(RunTestsReturns)

Spec == Init /\ [][Next]_vars /\ Fairness

-----------------------------------------------------------------------------
(* Properties.                                                             *)

Finished(r) == r.status = "completed"

(* A failure is never overwritten: FinishRun reports the run completed     *)
(* only if no worker's connectToServer returned an error or a non-zero     *)
(* exit code, whatever order the workers finished in (the                  *)
(* "exitCode <= 0 &&" guard on the shared exitCode).                       *)
NoFailureLost ==
  \A i \in 1..Len(finishRuns) :
    Finished(finishRuns[i]) =>
      \A w \in Workers : outcome[w] # None =>
                           ~SessionErr(outcome[w]) /\ SessionCode(outcome[w]) = 0

(* The status and the exit code FinishRun reports agree, on both returns   *)
(* of the final select: completed exactly when the exit code is 0.  On the *)
(* exitChannel return the code must already hold the failure the worker    *)
(* recorded before its send.                                               *)
ReportedCodeMatchesStatus ==
  \A i \in 1..Len(finishRuns) :
    Finished(finishRuns[i]) <=> finishRuns[i].code = 0

(* runTestTheTests' own plumbing never strands a run: if every call of     *)
(* connectToServer that starts also returns (from some point on no worker *)
(* is inside one), the deferred FinishRun fires, through exitChannel or    *)
(* through the waiter's doneChannel, whichever workers had no files and    *)
(* whatever order the goroutines ran in.  The hypothesis is needed: the    *)
(* code does not guarantee it.                                             *)
SessionsReturn == <>[](\A w \in Workers : wpc[w] # "session")

FinishRunOnceSessionsReturn == SessionsReturn => <>(finishRuns # <<>>)

(* FinishRun reports completed only if every worker ran its share of the  *)
(* tests to the end (spec: a JobRun is completed when all shards passed).  *)
CompletedOnlyIfAllRan ==
  \A i \in 1..Len(finishRuns) :
    Finished(finishRuns[i]) => \A w \in Workers : TestsRan(outcome[w])

(* What the client reports agrees with the recorded run: a RunTests call   *)
(* that ends without error and without a FAILED frame belongs to a run     *)
(* FinishRun records as completed.                                         *)
ClientVerdictMatchesStatus ==
  (runTests = "ok" /\ ~clientSawFailed) =>
     \A i \in 1..Len(finishRuns) : Finished(finishRuns[i])

(* The live counters of an RSpec run add up: FailCount and PassCount are  *)
(* the totals of the results frames counted so far, however the workers'   *)
(* receive loops interleave (updateCountsRspec's += under cs.mu).          *)
(* SkipCount is left out: the code sets it to the last frame's count.      *)
RspecTotalsAgree ==
  LET done == {w \in Workers : frame[w] # NoFrame}
  IN  framework = "Rspec" =>
        /\ counts.fail = SumFunctionOnSet([w \in done |-> frame[w].failures], done)
        /\ counts.pass = SumFunctionOnSet(
                           [w \in done |-> frame[w].examples - frame[w].failures], done)

=============================================================================
