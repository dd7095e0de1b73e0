--------------------------- MODULE AdmissionLock ----------------------------
(***************************************************************************)
(* The supervisor's project claim and single-flight admission lock, and   *)
(* the CLI loop that drives them.                                          *)
(*                                                                         *)
(* Supervisor (src/core/super/main.go): Setup claims the supervisor for   *)
(* the first project that calls it (globalProjectToken) and rejects every *)
(* other project; lockChannel is a channel of capacity 1 that main fills  *)
(* once the supervisor is registered; the Lock handler waits for the      *)
(* token (up to SUPERVISOR_TIMEOUT) and then holds it until its stream    *)
(* context ends or PROJECT_RUN_TIMEOUT passes, putting it back in both    *)
(* cases.  The run itself is the RunTests call of the same client, which  *)
(* runs on its own until it returns.                                      *)
(*                                                                         *)
(* Client (src/core/brisk-cli/cmd/briskcli.go), in CI mode: the goroutine *)
(* of RunBrisk calls connectToServer in a loop.  connectToServer calls    *)
(* Setup (setupKeys), then singleTestRun: it opens the Lock stream, waits *)
(* for SUPER_LOCKED, starts a watcher goroutine that cancels the run when *)
(* the Lock stream fails, syncs, calls RunTests and cancels its context   *)
(* when it returns.  RunBrisk then sorts the error: it stops on success,  *)
(* test failure and cancellation, sleeps and retries on project in use    *)
(* (resetting retryCount), stops once retryCount exceeds RETRY_COUNT,     *)
(* counts network errors, asks the API for a supervisor again when the    *)
(* supervisor is not reachable, and retries at once on any other error.   *)
(*                                                                         *)
(* In normal (interactive) mode connectToServer, once Setup succeeded,   *)
(* reads controlChan (capacity 2, holding "AutoSave" from the start):     *)
(* key presses come from readInput and "AutoSave" from the file watcher; *)
(* "AutoSave" and "R" start a singleTestRun, whose error is only logged, *)
(* after which the channel is emptied; "Q" and a successful "X" (clear    *)
(* workers) return nil.  A "Q" key also goes to cancelChan, and main      *)
(* returns at once, ending the process, as a signal does.                  *)
(*                                                                         *)
(* Every singleTestRun is a new call: a Lock handler, a       *)
(* client context and a RunTests run of an earlier call may still be      *)
(* live when the next one starts, so their state is kept per call.        *)
(***************************************************************************)
EXTENDS Naturals, FiniteSets, Sequences

CONSTANTS
  Clients,      \* CLI processes using the same supervisor
  Projects,     \* project tokens the clients may carry
  RetryCount,   \* RETRY_COUNT
  MaxAttempts,  \* bound on the connectToServer iterations and on the
                \* singleTestRun calls of a client (unbounded in code)
  Interactive,  \* the clients run in normal mode (viper "CI" unset)
  MaxInputs,    \* bound on the keys and file changes a client sends
  Keys,         \* the keys readInput may send, Q aside
  MaxRuns       \* bound on the runs the normal-mode loop starts

ASSUME RetryCount \in Nat /\ MaxAttempts \in Nat \ {0} /\ Interactive \subseteq Clients
       /\ MaxInputs \in Nat
       /\ Keys \subseteq {"R", "X", "other"}
       /\ MaxRuns \in 1..MaxAttempts

NoProject == "none"

(* The project token each client reads from its config.                  *)
ProjectAssignments == [Clients -> Projects]

(* A Lock/RunTests call: the client and its singleTestRun that made it.   *)
Calls == Clients \X (1..MaxAttempts)

(* What connectToServer returned, named by the branch of RunBrisk it      *)
(* takes.                                                                  *)
Errors == {"none", "nil", "testFailed", "canceled", "inUse", "network",
           "unreachable", "other"}

(* What the goroutine sends on cancelChan; "panic" is a crash of the CLI. *)
Verdicts == {"none", "finished normally", "tests failed", "context canceled",
             "too many errors", "can't mark super", "can't connect", "panic",
             "exit"}

(* controlChan := make(chan string, 2).                                    *)
ControlCap == 2

(* What readInput sends on controlChan is ToUpper of the rune read: Keys  *)
(* holds "R" for "R", "\r" and "\n", "X", and "other" for every key the   *)
(* loop does not know.  "Q" is the quit key, modelled by ProcessExits.     *)
ControlValues == {"R", "X", "other", "AutoSave", "Q"}

VARIABLES
  project,             \* the project token of each client (fixed)
  globalProjectToken,  \* the project the supervisor's Setup has claimed
  lockChannel,         \* tokens in lockChannel: 0 or 1
  ready,               \* main has put the first token in lockChannel
  lpc,                 \* the Lock handler of each call
  lockRet,             \* what that handler returned
  ctxDone,             \* the call's singleTestRun context is cancelled
  superRun,            \* the supervisor's RunTests of each call
  cpc,                 \* where the client's RunBrisk goroutine is
  attempts,            \* connectToServer iterations a client has begun
  runs,                \* singleTestRun calls a client has made
  retryCount,          \* RunBrisk's retryCount
  err,                 \* what the last connectToServer returned
  verdict,             \* what the goroutine sent on cancelChan
  control,             \* the contents of controlChan
  watch,               \* the file watcher: "off", "on", "failing", "failed"
  inputs               \* keys and file changes sent on controlChan so far

vars == <<project, globalProjectToken, lockChannel, ready, lpc, lockRet,
          ctxDone, superRun, cpc, attempts, runs, retryCount, err, verdict,
          control, watch, inputs>>

callVars == <<lpc, lockRet, ctxDone, superRun>>

clientVars == <<cpc, attempts, runs, retryCount, err, verdict>>

inputVars == <<control, watch, inputs>>

TypeOK ==
  /\ project \in [Clients -> Projects]
  /\ globalProjectToken \in Projects \cup {NoProject}
  /\ lockChannel \in 0..1
  /\ ready \in BOOLEAN
  /\ lpc \in [Calls -> {"none", "waiting", "held", "returned"}]
  /\ lockRet \in [Calls -> {"none", "inUse", "runTimeout", "nil"}]
  /\ ctxDone \in [Calls -> BOOLEAN]
  /\ superRun \in [Calls -> {"none", "active", "over"}]
  /\ cpc \in [Clients -> {"start", "idle", "setup", "lockCall", "lockWait", "syncing",
                          "running", "returned", "superLost", "done",
                          "control", "drain"}]
  /\ attempts \in [Clients -> 0..MaxAttempts]
  /\ runs \in [Clients -> 0..MaxAttempts]
  /\ retryCount \in [Clients -> 0..(RetryCount + 1)]
  /\ err \in [Clients -> Errors]
  /\ verdict \in [Clients -> Verdicts]
  /\ \A c \in Clients : control[c] \in Seq(ControlValues) /\ Len(control[c]) <= ControlCap
  /\ watch \in [Clients -> {"off", "on", "failing", "failed"}]
  /\ inputs \in [Clients -> 0..MaxInputs]

Init ==
  /\ project \in ProjectAssignments
  /\ globalProjectToken = NoProject
  /\ lockChannel = 0
  /\ ready = FALSE
  /\ lpc = [k \in Calls |-> "none"]
  /\ lockRet = [k \in Calls |-> "none"]
  /\ ctxDone = [k \in Calls |-> FALSE]
  /\ superRun = [k \in Calls |-> "none"]
  /\ cpc = [c \in Clients |-> "start"]
  /\ attempts = [c \in Clients |-> 0]
  /\ retryCount = [c \in Clients |-> 0]
  /\ err = [c \in Clients |-> "none"]
  /\ verdict = [c \in Clients |-> "none"]
  /\ control = [c \in Clients |-> <<"AutoSave">>]
  /\ watch = [c \in Clients |-> "off"]
  /\ inputs = [c \in Clients |-> 0]
  /\ runs = [c \in Clients |-> 0]

(* The client's current call.                                              *)
Cur(c) == <<c, runs[c]>>

(* Where a successful setupKeys leads: singleTestRun in CI mode, the      *)
(* controlChan loop in normal mode.                                        *)
AfterSetup(c) == IF c \in Interactive THEN "control" ELSE "lockCall"

(* Where singleTestRun returns to: RunBrisk's error sorting in CI mode,   *)
(* the emptying of controlChan in normal mode.                             *)
AfterRun(c) == IF c \in Interactive THEN "drain" ELSE "returned"

(* The error singleTestRun returns, as connectToServer keeps it: in       *)
(* normal mode it is only logged, so the model does not record it.        *)
RunError(c, e) == IF c \in Interactive THEN "none" ELSE e

-----------------------------------------------------------------------------
(* Supervisor                                                              *)

(* main, once registered with the API: lockChannel <- true.                *)
SuperReady ==
  /\ ~ready
  /\ ready' = TRUE
  /\ lockChannel' = lockChannel + 1
  /\ UNCHANGED <<project, globalProjectToken, callVars, clientVars, inputVars>>

(* Lock, first select, case <-lockChannel: take the token and send         *)
(* SUPER_LOCKED (a send error is only logged).                             *)
LockTake(k) ==
  /\ lpc[k] = "waiting"
  /\ lockChannel = 1
  /\ lockChannel' = 0
  /\ lpc' = [lpc EXCEPT ![k] = "held"]
  /\ UNCHANGED <<project, globalProjectToken, ready, lockRet, ctxDone,
                 superRun, clientVars, inputVars>>

(* Variant of LockInUse that, like the release cases, puts a token back   *)
(* into lockChannel before returning.                                      *)
LockInUseRefills(k) ==
  /\ lpc[k] = "waiting"
  /\ lockChannel' = lockChannel + 1
  /\ lpc' = [lpc EXCEPT ![k] = "returned"]
  /\ lockRet' = [lockRet EXCEPT ![k] = "inUse"]
  /\ UNCHANGED <<project, globalProjectToken, ready, ctxDone, superRun,
                 clientVars, inputVars>>

(* Lock, first select, time.After(SUPERVISOR_TIMEOUT): ProjectInUseError.  *)
LockInUse(k) ==
  /\ lpc[k] = "waiting"
  /\ lpc' = [lpc EXCEPT ![k] = "returned"]
  /\ lockRet' = [lockRet EXCEPT ![k] = "inUse"]
  /\ UNCHANGED <<project, globalProjectToken, lockChannel, ready, ctxDone,
                 superRun, clientVars, inputVars>>

(* Lock, first select, case <-ctx.Done(): the client went away while the *)
(* handler waited (its process ended), and the handler returns nil        *)
(* without the token.                                                      *)
LockAbandoned(k) ==
  /\ lpc[k] = "waiting"
  /\ ctxDone[k]
  /\ lpc' = [lpc EXCEPT ![k] = "returned"]
  /\ lockRet' = [lockRet EXCEPT ![k] = "nil"]
  /\ UNCHANGED <<project, globalProjectToken, lockChannel, ready, ctxDone,
                 superRun, clientVars, inputVars>>

(* Variant of ReleaseOnDone that returns without putting the token back.  *)
ReleaseOnDoneNoRefill(k) ==
  /\ lpc[k] = "held"
  /\ ctxDone[k]
  /\ lpc' = [lpc EXCEPT ![k] = "returned"]
  /\ lockRet' = [lockRet EXCEPT ![k] = "nil"]
  /\ UNCHANGED <<project, globalProjectToken, lockChannel, ready, ctxDone,
                 superRun, clientVars, inputVars>>

(* Lock, second select, case <-ctx.Done(): lockChannel <- true, return nil. *)
ReleaseOnDone(k) ==
  /\ lpc[k] = "held"
  /\ ctxDone[k]
  /\ lockChannel' = lockChannel + 1
  /\ lpc' = [lpc EXCEPT ![k] = "returned"]
  /\ lockRet' = [lockRet EXCEPT ![k] = "nil"]
  /\ UNCHANGED <<project, globalProjectToken, ready, ctxDone, superRun,
                 clientVars, inputVars>>

(* Variant of ReleaseOnTimeout for a handler whose second select has no    *)
(* PROJECT_RUN_TIMEOUT case.                                               *)
ReleaseOnTimeoutNever(k) ==
  /\ FALSE
  /\ UNCHANGED vars

(* Lock, second select, time.After(PROJECT_RUN_TIMEOUT): lockChannel <-    *)
(* true and return an error.  The timer starts when the token is taken,    *)
(* before the client syncs; the sync has no timeout and the run that      *)
(* follows may take COMMAND_TIMEOUT, ten seconds less than                 *)
(* PROJECT_RUN_TIMEOUT, so the timer may fire in any phase of the run.    *)
ReleaseOnTimeout(k) ==
  /\ lpc[k] = "held"
  /\ lockChannel' = lockChannel + 1
  /\ lpc' = [lpc EXCEPT ![k] = "returned"]
  /\ lockRet' = [lockRet EXCEPT ![k] = "runTimeout"]
  /\ UNCHANGED <<project, globalProjectToken, ready, ctxDone, superRun,
                 clientVars, inputVars>>

(* RunTests of this call returns: its commands finished, or the           *)
(* cancellation of the client's call reached every worker goroutine.       *)
RunEnds(k) ==
  /\ superRun[k] = "active"
  /\ superRun' = [superRun EXCEPT ![k] = "over"]
  /\ UNCHANGED <<project, globalProjectToken, lockChannel, ready, lpc,
                 lockRet, ctxDone, clientVars, inputVars>>

(* Variant of Setup that skips both token checks and claims the           *)
(* supervisor for whichever project calls it.                              *)
SetupUnchecked(c) ==
  /\ cpc[c] = "setup"
  /\ globalProjectToken' = project[c]
  /\ cpc' = [cpc EXCEPT ![c] = AfterSetup(c)]
  /\ UNCHANGED <<project, lockChannel, ready, callVars, attempts, runs, retryCount,
                 err, verdict, inputVars>>

(* Retry and RetryWithReturn: up to five calls with doubling sleeps, and *)
(* the gRPC retry interceptor: the call succeeds or returns its error.   *)
(* Only whether one of the calls succeeded matters to the caller.        *)
RetryOutcomes == {"ok", "failed"}

(* CheckGlobalProjectToken: with no claimed project every caller passes;  *)
(* otherwise the caller's token must be the claimed one.                   *)
CheckGlobalProjectToken(c) == globalProjectToken \in {NoProject, project[c]}

(* GetProjectWithToken: ApiConn, then the GetProject RPC (retried by the  *)
(* gRPC interceptor); either error is returned.                            *)
GetProjectWithToken == RetryOutcomes

(* Setup, under setupMutex: CheckGlobalProjectToken, then                  *)
(* GetProjectWithToken; either failing returns its error.  Otherwise the   *)
(* token is claimed if none is, compared once more (which passes, the      *)
(* first check having passed under the same mutex) and the private key     *)
(* returned.  setupKeys returns the error, which RunBrisk treats as an     *)
(* "other" error (its gRPC code is Unknown).  The first Setup's CreateKey  *)
(* failing after the claim (a local key generation) is not modelled.      *)
Setup(c) ==
  /\ cpc[c] = "setup"
  /\ \E got \in GetProjectWithToken :
       IF CheckGlobalProjectToken(c) /\ got = "ok"
         THEN /\ globalProjectToken' = project[c]
              /\ cpc' = [cpc EXCEPT ![c] = AfterSetup(c)]
              /\ UNCHANGED err
         ELSE /\ err' = [err EXCEPT ![c] = "other"]
              /\ cpc' = [cpc EXCEPT ![c] = "returned"]
              /\ UNCHANGED globalProjectToken
  /\ UNCHANGED <<project, lockChannel, ready, callVars, attempts, runs, retryCount,
                 verdict, inputVars>>

-----------------------------------------------------------------------------
(* Client                                                                  *)

(* The goroutine of RunBrisk calls connectToServer, which prepares the     *)
(* outgoing context and calls setupKeys.                                   *)
ConnectToServer(c) ==
  /\ cpc[c] = "idle"
  /\ attempts[c] < MaxAttempts
  /\ attempts' = [attempts EXCEPT ![c] = @ + 1]
  /\ cpc' = [cpc EXCEPT ![c] = "setup"]
  /\ err' = [err EXCEPT ![c] = "none"]
  /\ UNCHANGED <<project, globalProjectToken, lockChannel, ready, callVars,
                 runs, retryCount, verdict, inputVars>>

(* setupKeys: the Setup call fails with Unimplemented or Unavailable (no   *)
(* supervisor at that address) and setupKeys returns SUPER_NOT_REACHABLE.  *)
SetupUnreachable(c) ==
  /\ cpc[c] = "setup"
  /\ err' = [err EXCEPT ![c] = "unreachable"]
  /\ cpc' = [cpc EXCEPT ![c] = "returned"]
  /\ UNCHANGED <<project, globalProjectToken, lockChannel, ready, callVars,
                 attempts, runs, retryCount, verdict, inputVars>>

(* singleTestRun: c.Lock opens the stream, which starts the Lock handler  *)
(* of this call.                                                           *)
CallLock(c) ==
  /\ cpc[c] = "lockCall"
  /\ runs' = [runs EXCEPT ![c] = @ + 1]
  /\ cpc' = [cpc EXCEPT ![c] = "lockWait"]
  /\ lpc' = [lpc EXCEPT ![<<c, runs[c] + 1>>] = "waiting"]
  /\ UNCHANGED <<project, globalProjectToken, lockChannel, ready, lockRet,
                 ctxDone, superRun, attempts, retryCount, err, verdict, inputVars>>

(* lockClient.Recv() gets SUPER_LOCKED: the watcher goroutine starts and   *)
(* the client syncs.                                                       *)
GotLock(c) ==
  /\ cpc[c] = "lockWait"
  /\ lpc[Cur(c)] = "held"
  /\ cpc' = [cpc EXCEPT ![c] = "syncing"]
  /\ UNCHANGED <<project, globalProjectToken, lockChannel, ready, callVars,
                 attempts, runs, retryCount, err, verdict, inputVars>>

(* lockClient.Recv() gets ProjectInUseError: singleTestRun returns it and  *)
(* its deferred cancel ends the call's context.                            *)
GotInUse(c) ==
  /\ cpc[c] = "lockWait"
  /\ lpc[Cur(c)] = "returned"
  /\ err' = [err EXCEPT ![c] = RunError(c, "inUse")]
  /\ cpc' = [cpc EXCEPT ![c] = AfterRun(c)]
  /\ ctxDone' = [ctxDone EXCEPT ![Cur(c)] = TRUE]
  /\ UNCHANGED <<project, globalProjectToken, lockChannel, ready, lpc, lockRet,
                 superRun, attempts, runs, retryCount, verdict, inputVars>>

(* StartSync fails: rsync exits non-zero and StartSync returns RSyncError. *)
(* rsync runs under exec.Command, not the call's context, so this may     *)
(* happen whether or not the context was cancelled meanwhile.              *)
SyncFails(c) ==
  /\ cpc[c] = "syncing"
  /\ err' = [err EXCEPT ![c] = RunError(c, "network")]
  /\ cpc' = [cpc EXCEPT ![c] = AfterRun(c)]
  /\ ctxDone' = [ctxDone EXCEPT ![Cur(c)] = TRUE]
  /\ UNCHANGED <<project, globalProjectToken, lockChannel, ready, lpc, lockRet,
                 superRun, attempts, runs, retryCount, verdict, inputVars>>

(* The supervisor's RunTests rejects an empty config or command list (the *)
(* CLI always sends both), a supervisor that no Setup has claimed, and a  *)
(* project token other than the claimed one.                              *)
RunTestsAdmits(c) ==
  /\ globalProjectToken # NoProject
  /\ globalProjectToken = project[c]

(* The sync succeeded: c.RunTests starts the run on the supervisor.  The  *)
(* client passed Setup and the claim is never undone, so RunTests' checks *)
(* pass: its rejecting returns are not reachable here.                     *)
StartRunTests(c) ==
  /\ cpc[c] = "syncing"
  /\ ~ctxDone[Cur(c)]
  /\ RunTestsAdmits(c)
  /\ cpc' = [cpc EXCEPT ![c] = "running"]
  /\ superRun' = [superRun EXCEPT ![Cur(c)] = "active"]
  /\ UNCHANGED <<project, globalProjectToken, lockChannel, ready, lpc, lockRet,
                 ctxDone, attempts, runs, retryCount, err, verdict, inputVars>>

(* The sync succeeded after the watcher cancelled the context: c.RunTests  *)
(* fails to open the stream and returns a nil stream, and the statement   *)
(* defer r.CloseSend() that follows evaluates a method of that nil        *)
(* interface, which panics and ends the CLI.                               *)
RunTestsCallPanics(c) ==
  /\ cpc[c] = "syncing"
  /\ ctxDone[Cur(c)]
  /\ cpc' = [cpc EXCEPT ![c] = "done"]
  /\ verdict' = [verdict EXCEPT ![c] = "panic"]
  /\ UNCHANGED <<project, globalProjectToken, lockChannel, ready, callVars,
                 attempts, runs, retryCount, err, inputVars>>

(* The watcher goroutine: lockClient.Recv() fails with an error that is    *)
(* not a cancellation (the handler's timeout error, or io.EOF after it     *)
(* returned nil): cancel().                                                *)
WatcherCancels(c) ==
  /\ cpc[c] \in {"syncing", "running"}
  /\ lpc[Cur(c)] = "returned"
  /\ ~ctxDone[Cur(c)]
  /\ ctxDone' = [ctxDone EXCEPT ![Cur(c)] = TRUE]
  /\ UNCHANGED <<project, globalProjectToken, lockChannel, ready, lpc, lockRet,
                 superRun, clientVars, inputVars>>

(* What the RunTests stream gives the client when the run returned:       *)
(* io.EOF, a FAILED frame (TestFailedError), or the run's error, whose    *)
(* gRPC code is Unknown (e.g. "Timed out waiting for workers to rebuild").*)
RunOutcomes == {"nil", "testFailed", "other"}

(* singleTestRun's Recv loop returns: the run ended, or the context was   *)
(* cancelled (Recv returns Canceled).  The deferred cancel ends the Lock  *)
(* stream, and connectToServer returns the error.                          *)
ClientReturns(c) ==
  /\ cpc[c] = "running"
  /\ \/ superRun[Cur(c)] = "over" /\ \E e \in RunOutcomes : err' = [err EXCEPT ![c] = RunError(c, e)]
     \/ ctxDone[Cur(c)] /\ err' = [err EXCEPT ![c] = RunError(c, "canceled")]
  /\ cpc' = [cpc EXCEPT ![c] = AfterRun(c)]
  /\ ctxDone' = [ctxDone EXCEPT ![Cur(c)] = TRUE]
  /\ UNCHANGED <<project, globalProjectToken, lockChannel, ready, lpc, lockRet,
                 superRun, attempts, runs, retryCount, verdict, inputVars>>

(* RunBrisk, after connectToServer returned: nil sends "finished          *)
(* normally", TestFailedError "tests failed" and a cancellation "context  *)
(* canceled" on cancelChan, and the goroutine returns.                     *)
RunBriskStops(c) ==
  /\ cpc[c] = "returned"
  /\ err[c] \in {"nil", "testFailed", "canceled"}
  /\ verdict' = [verdict EXCEPT ![c] =
                   CASE err[c] = "nil" -> "finished normally"
                     [] err[c] = "testFailed" -> "tests failed"
                     [] err[c] = "canceled" -> "context canceled"]
  /\ cpc' = [cpc EXCEPT ![c] = "done"]
  /\ UNCHANGED <<project, globalProjectToken, lockChannel, ready, callVars,
                 attempts, runs, retryCount, err, inputVars>>

(* ProjectInUseError: retryCount = 0, sleep PROJECT_IN_USE_TIMEOUT, loop.  *)
RunBriskInUse(c) ==
  /\ cpc[c] = "returned"
  /\ err[c] = "inUse"
  /\ retryCount' = [retryCount EXCEPT ![c] = 0]
  /\ cpc' = [cpc EXCEPT ![c] = "idle"]
  /\ UNCHANGED <<project, globalProjectToken, lockChannel, ready, callVars,
                 attempts, runs, err, verdict, inputVars>>

(* Any other error once retryCount > RETRY_COUNT: "too many errors".       *)
RunBriskGivesUp(c) ==
  /\ cpc[c] = "returned"
  /\ err[c] \in {"network", "unreachable", "other"}
  /\ retryCount[c] > RetryCount
  /\ verdict' = [verdict EXCEPT ![c] = "too many errors"]
  /\ cpc' = [cpc EXCEPT ![c] = "done"]
  /\ UNCHANGED <<project, globalProjectToken, lockChannel, ready, callVars,
                 attempts, runs, retryCount, err, inputVars>>

(* DeadlineExceeded, or a network error (Unavailable, NotFound, Internal,  *)
(* Unauthenticated, RSyncError, a 502): retryCount++ and a linear backoff. *)
RunBriskCountsError(c) ==
  /\ cpc[c] = "returned"
  /\ err[c] = "network"
  /\ retryCount[c] <= RetryCount
  /\ retryCount' = [retryCount EXCEPT ![c] = @ + 1]
  /\ cpc' = [cpc EXCEPT ![c] = "idle"]
  /\ UNCHANGED <<project, globalProjectToken, lockChannel, ready, callVars,
                 attempts, runs, err, verdict, inputVars>>

(* Any other error: SUPER_NOT_REACHABLE goes on to look for a supervisor; *)
(* every other error loops again at once, neither sleeping nor counting.  *)
RunBriskOtherError(c) ==
  /\ cpc[c] = "returned"
  /\ err[c] \in {"unreachable", "other"}
  /\ retryCount[c] <= RetryCount
  /\ cpc' = [cpc EXCEPT ![c] = IF err[c] = "unreachable" THEN "superLost"
                                                          ELSE "idle"]
  /\ UNCHANGED <<project, globalProjectToken, lockChannel, ready, callVars,
                 attempts, runs, retryCount, err, verdict, inputVars>>

(* markSuperAsUnreachable: ApiConn, then the MarkSuperAsUnreachable RPC;   *)
(* an error of either is returned, and Retry tries again.                 *)
MarkSuperAsUnreachable == RetryOutcomes

(* getSuperForProject: ApiConn, then GetSuperForProject with a 5 s        *)
(* deadline; DeadlineExceeded, Unimplemented and every other error come   *)
(* back as errors, and RetryWithReturn tries again.                        *)
GetSuperForProject == RetryOutcomes

(* In normal mode, once getSuperForProject succeeded, RunBrisk starts     *)
(* watchFiles; fsWatch.Watch either sets up its watches ("on") or fails   *)
(* in NewWatcher or in adding a directory ("failing").  A file changed    *)
(* before the watches are set is not seen, as if it changed later, so    *)
(* the model settles the setup at once.                                    *)
WatchSetups(c) == IF c \in Interactive THEN {"on", "failing"} ELSE {"off"}

(* RunBrisk before its loop: load the config, set up the display, the     *)
(* input and signal goroutines and the credentials, then one               *)
(* getSuperForProject (not retried).  An error of any of these is         *)
(* returned at once, before the goroutine that loops is started.           *)
ClientStarts(c) ==
  /\ cpc[c] = "start"
  /\ \E got \in GetSuperForProject, w \in WatchSetups(c) :
       /\ cpc' = [cpc EXCEPT ![c] = IF got = "ok" THEN "idle" ELSE "done"]
       /\ watch' = [watch EXCEPT ![c] = IF got = "ok" THEN w ELSE @]
  /\ UNCHANGED <<project, globalProjectToken, lockChannel, ready, callVars,
                 attempts, runs, retryCount, err, verdict, control, inputs>>

(* SUPER_NOT_REACHABLE: markSuperAsUnreachable and then getSuperForProject,*)
(* each under Retry; if either still fails the goroutine sends its        *)
(* message and returns, otherwise it loops with the supervisor the API    *)
(* returned (here the same one: the model has one supervisor).            *)
SuperReplaced(c) ==
  /\ cpc[c] = "superLost"
  /\ \E marked \in MarkSuperAsUnreachable, got \in GetSuperForProject :
       LET v == CASE marked = "failed" -> "can't mark super"
                  [] got = "failed"    -> "can't connect"
                  [] OTHER             -> "none"
       IN /\ verdict' = [verdict EXCEPT ![c] = v]
          /\ cpc' = [cpc EXCEPT ![c] = IF v = "none" THEN "idle" ELSE "done"]
  /\ UNCHANGED <<project, globalProjectToken, lockChannel, ready, callVars,
                 attempts, runs, retryCount, err, inputVars>>

-----------------------------------------------------------------------------
(* Normal mode                                                             *)

(* The API's ClearWorkersForProject, called once: ApiConn or the RPC may  *)
(* fail.                                                                   *)
ClearWorkersForProject == RetryOutcomes

(* The controlChan loop of connectToServer reads one value.  "AutoSave"   *)
(* (after fsWatchDelay) and "R" start a singleTestRun; "Q" returns nil;   *)
(* "X" calls ClearWorkersForProject and returns nil if it succeeded, else *)
(* prints the error and goes on reading; any other key prints the usage.  *)
(* A run is only started while the client's calls are below MaxRuns.      *)
ControlRead(c) ==
  /\ cpc[c] = "control"
  /\ control[c] # <<>>
  /\ control' = [control EXCEPT ![c] = Tail(@)]
  /\ LET v == Head(control[c]) IN
       \/ /\ v \in {"AutoSave", "R"}
          /\ runs[c] < MaxRuns
          /\ cpc' = [cpc EXCEPT ![c] = "lockCall"]
          /\ UNCHANGED err
       \/ /\ v = "Q"
          /\ cpc' = [cpc EXCEPT ![c] = "returned"]
          /\ err' = [err EXCEPT ![c] = "nil"]
       \/ /\ v = "X"
          /\ \E got \in ClearWorkersForProject :
               /\ cpc' = [cpc EXCEPT ![c] = IF got = "ok" THEN "returned" ELSE "control"]
               /\ err' = [err EXCEPT ![c] = IF got = "ok" THEN "nil" ELSE "none"]
       \/ v = "other" /\ UNCHANGED <<cpc, err>>
  /\ UNCHANGED <<project, globalProjectToken, lockChannel, ready, callVars,
                 attempts, runs, retryCount, verdict, watch, inputs>>

(* After a run, whatever its error (only logged): for len(controlChan) >  *)
(* 0 { <-controlChan }.  Keys and file changes queued during the run are  *)
(* dropped.  Values sent while the loop empties the channel are either    *)
(* dropped with the rest or sent after it, which the model also has.     *)
Drain(c) ==
  /\ cpc[c] = "drain"
  /\ control' = [control EXCEPT ![c] = <<>>]
  /\ cpc' = [cpc EXCEPT ![c] = "control"]
  /\ UNCHANGED <<project, globalProjectToken, lockChannel, ready, callVars,
                 attempts, runs, retryCount, err, verdict, watch, inputs>>

(* readInput: a key other than Q is sent on controlChan; the send blocks  *)
(* while the channel is full.  (In CI mode nothing reads the channel, and *)
(* only Q has an effect.)                                                  *)
KeyPressed(c) ==
  /\ c \in Interactive
  /\ cpc[c] # "done"
  /\ Len(control[c]) < ControlCap
  /\ inputs[c] < MaxInputs
  /\ \E v \in Keys : control' = [control EXCEPT ![c] = Append(@, v)]
  /\ inputs' = [inputs EXCEPT ![c] = @ + 1]
  /\ UNCHANGED <<project, globalProjectToken, lockChannel, ready, callVars,
                 clientVars, watch>>

(* watchFiles, after fsWatch.Watch returned its error: controlChan <- "Q" *)
(* (blocking while the channel is full).                                   *)
WatchFails(c) ==
  /\ watch[c] = "failing"
  /\ cpc[c] # "done"
  /\ Len(control[c]) < ControlCap
  /\ watch' = [watch EXCEPT ![c] = "failed"]
  /\ control' = [control EXCEPT ![c] = Append(@, "Q")]
  /\ UNCHANGED <<project, globalProjectToken, lockChannel, ready, callVars,
                 clientVars, inputs>>

(* fsWatch's event goroutine: a change outside the excluded paths sends   *)
(* "AutoSave", blocking while the channel is full.                         *)
FileChanged(c) ==
  /\ watch[c] = "on"
  /\ cpc[c] # "done"
  /\ Len(control[c]) < ControlCap
  /\ inputs[c] < MaxInputs
  /\ control' = [control EXCEPT ![c] = Append(@, "AutoSave")]
  /\ inputs' = [inputs EXCEPT ![c] = @ + 1]
  /\ UNCHANGED <<project, globalProjectToken, lockChannel, ready, callVars,
                 clientVars, watch>>

(* The process ends while the goroutine is in its loop: readInput sends  *)
(* "Q" on cancelChan and main returns, or catchSignals sends "Signal:..." *)
(* and calls os.Exit(1); verdict "exit" stands for both.  The connections close, which cancels the        *)
(* streams of every call the client made.                                  *)
ProcessExits(c) ==
  /\ c \in Interactive
  /\ cpc[c] \notin {"start", "done"}
  /\ verdict' = [verdict EXCEPT ![c] = "exit"]
  /\ cpc' = [cpc EXCEPT ![c] = "done"]
  /\ ctxDone' = [k \in Calls |-> IF k[1] = c /\ k[2] <= runs[c] THEN TRUE ELSE ctxDone[k]]
  /\ UNCHANGED <<project, globalProjectToken, lockChannel, ready, lpc, lockRet,
                 superRun, attempts, runs, retryCount, err, inputVars>>

Next ==
  \/ SuperReady
  \/ \E k \in Calls :
       \/ LockTake(k) \/ LockInUse(k) \/ LockAbandoned(k)
       \/ ReleaseOnDone(k) \/ ReleaseOnTimeout(k)
       \/ RunEnds(k)
  \/ \E c \in Clients :
       \/ ClientStarts(c) \/ ConnectToServer(c) \/ Setup(c) \/ SetupUnreachable(c)
       \/ CallLock(c) \/ GotLock(c) \/ GotInUse(c)
       \/ SyncFails(c) \/ StartRunTests(c) \/ RunTestsCallPanics(c)
       \/ WatcherCancels(c) \/ ClientReturns(c)
       \/ RunBriskStops(c) \/ RunBriskInUse(c) \/ RunBriskGivesUp(c)
       \/ RunBriskCountsError(c) \/ RunBriskOtherError(c) \/ SuperReplaced(c)
       \/ ControlRead(c) \/ Drain(c) \/ KeyPressed(c) \/ WatchFails(c)
       \/ FileChanged(c) \/ ProcessExits(c)

(* Goroutines run, RPCs with a deadline answer and timers fire (time      *)
(* passes); a supervisor run ends within its timeouts.  The sync has no   *)
(* timeout and is not assumed to end, nor is a Setup call to succeed.     *)
Fairness ==
  /\ WF_vars(SuperReady)
  /\ \A k \in Calls :
       /\ WF_vars(LockTake(k) \/ LockInUse(k) \/ LockAbandoned(k))
       /\ WF_vars(ReleaseOnDone(k)) /\ WF_vars(ReleaseOnTimeout(k))
       /\ WF_vars(RunEnds(k))
  /\ \A c \in Clients :
       /\ WF_vars(ClientStarts(c))
       /\ WF_vars(Setup(c) \/ SetupUnreachable(c))
       /\ WF_vars(CallLock(c)) /\ WF_vars(GotLock(c)) /\ WF_vars(GotInUse(c))
       /\ WF_vars(WatcherCancels(c)) /\ WF_vars(ClientReturns(c))
       /\ WF_vars(RunBriskStops(c) \/ RunBriskInUse(c) \/ RunBriskGivesUp(c)
                  \/ RunBriskCountsError(c) \/ RunBriskOtherError(c))
       /\ WF_vars(SuperReplaced(c))
       /\ WF_vars(ControlRead(c)) /\ WF_vars(Drain(c)) /\ WF_vars(WatchFails(c))

Spec == Init /\ [][Next]_vars /\ Fairness

-----------------------------------------------------------------------------
(* Properties                                                              *)

(* The token is never lost or duplicated: once main has filled            *)
(* lockChannel, exactly one token is either in the channel or held by a   *)
(* Lock handler, whichever select case released it and however many      *)
(* calls of the same client are still live (spec: cancellation releases   *)
(* the admission lock exactly once).                                       *)
TokenConserved ==
  lockChannel + Cardinality({k \in Calls : lpc[k] = "held"})
    = IF ready THEN 1 ELSE 0

(* A held lock is eventually given back, even when the client stops making *)
(* progress in the middle of its run (the PROJECT_RUN_TIMEOUT valve).       *)
LockEventuallyReleased ==
  \A k \in Calls : (lpc[k] = "held") ~> (lpc[k] = "returned")

(* A supervisor serves one project: every Lock handler still waiting or   *)
(* holding the token, and every RunTests in progress, belongs to a client *)
(* of the project Setup claimed, whatever order the Setup calls of        *)
(* clients of different projects come in (spec: token mismatch is fatal  *)
(* to the attempt).                                                        *)
OneProjectPerSupervisor ==
  \A k \in Calls :
    lpc[k] \in {"waiting", "held"} \/ superRun[k] = "active"
      => project[k[1]] = globalProjectToken

(* Single flight: at no instant do two calls have a RunTests run in       *)
(* progress on the supervisor (spec: only one run may be in progress per  *)
(* supervisor process; the run-timeout valve force-releases and fails the *)
(* run).                                                                   *)
OneRunInProgress ==
  Cardinality({k \in Calls : superRun[k] = "active"}) <= 1

=============================================================================
