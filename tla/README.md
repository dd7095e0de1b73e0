# TLA+ models of brisk

This directory has TLA+ models of brisk's distributed test runner and the TLC
configurations that check them. Brisk is the Go code under `src/`. Each module
is translated from the source, and each definition names the lines it models
in `PROJECT.json` ("map"). The tools are run from this directory:

    tlasany MCRunExecution.tla
    tlc -workers 2 -config RunExecution.cfg MCRunExecution

## 1. The system

Three programs take part in a run:

* The **CLI client** (`src/core/brisk-cli/cmd/briskcli.go`) runs a test command remotely:
  - `Lock` opens a stream to a supervisor and waits for `SUPER_LOCKED`; a
    goroutine cancels the run if that stream breaks.
  - It syncs the tree, then calls `RunTests` and reads the frames.
  - The first `FAILED` control frame makes it return `TestFailedError`. `io.EOF`
    means success.
  - The outer loop retries on "project in use" and on network errors.
* The **supervisor** (`src/core/super/main.go`) admits one run at a time:
  - `Lock` takes the one token of the capacity-1 `lockChannel`, with a
    `SUPERVISOR_TIMEOUT` to get it and a `PROJECT_RUN_TIMEOUT` safety valve.
  - `Setup` claims the project token and the SSH key.
  - `RunTests` starts one goroutine per test command. Each goroutine loops
    over `runTestTheTests` while the workers need a rebuild.
  - `runTestTheTests` does, in order:
    - acquire workers (`getWorkingWorkers`: allocator plus a health check);
    - sync the tree (`syncToWorkers`; the run continues if at least 85% of
      the workers synced);
    - check the rebuild hashes (`checkWorkersForRebuild`; a rebuild means a
      retry);
    - warm up the other workers (`warmOtherWorkers`);
    - split the test files (`splitTestFiles`);
    - execute: one goroutine per worker calls `connectToServer`, with the
      fail-fast `exitChannel`, the `doneChannel` and the shared `exitCode`;
    - finalise in a deferred `FinishRun`.
  - Frames go to the client through `bufferStream`, `responseStream` and a relay goroutine.
* The **worker** (`src/core/server/main.go`) runs the commands:
  - `RunCommands` is a bidirectional stream, guarded by `runCommandsGate`
    and a `RUNNER_COMMAND_TIMEOUT` deadline.
  - `readCommands` receives the commands into `commandChan`.
  - `executeCommandStream` runs the commands one at a time (`TermStart`;
    `SIGINT` then `SIGKILL` on cancellation) and streams their output lines
    and exactly one terminal frame per command: `FINISHED` or `FAILED`.
  - `Setup` and `CheckBuild` serve the sync and the rebuild check
    (`RebuildRequired` in `src/core/shared/git.go`).

The supervisor reaches the backend's API through `src/backend/shared/apiFunctions.go`:
`GetWorkersForProject`, `FinishRun`, `LogRun`, `DeRegisterWorker(s)`,
`CheckGlobalProjectToken`, `SplitTests`. It splits tests with
`src/backend/shared/testSplitter.go`.

## 2. Inventory

| Component | Source | State | Operations | Status |
|---|---|---|---|---|
| Execution stage and finalisation | super/main.go 768-803, 994-1245; RunTests 241-436 | `exitCode`, `jrunStatus`, `exitChannel` (cap 1), `doneChannel`, `wg`, deferred `FinishRun`, `errChannel` (cap 1), `responseStream` relay | worker goroutine, waiter, final select, FinishRun, RunTests result | **modelled**: RunExecution |
| Command session, supervisor side | super/main.go 1398-1716 | `exitCode`, `allExecutionInfo`, loop index, `responseChannel` (cap 100) | dial, send, receive, timeout, cancel, close | **modelled**: CommandSession |
| Worker runtime | server/main.go 147-520, 547-600, 690-730; sigterm.go 44-70 | `runCommandsGate`, `commandChan`, `errChan` (cap 1), `finishChan`, deadline | admit, readCommands, start/exit of a command, output goroutines, select | **partly**: CommandSession (one session, and the gate against one other session holding it; the output goroutines of background commands are left out) |
| Admission lock | super/main.go 184-236, 576; briskcli.go 1017-1117 | `lockChannel` token | Lock, release on cancel, run timeout, client lock call, watcher, sync, RunTests call | **modelled**: AdmissionLock |
| Setup, project token | super/main.go 97-179; server/main.go 95-140 | `globalProjectToken`, key pair | claim, compare | **partly**: AdmissionLock (the supervisor's Setup, with `CheckGlobalProjectToken` and `GetProjectWithToken`); the worker's Setup is an outcome of Pipeline's `SetupWorker` (its check reads a variable nothing assigns) |
| Acquisition, sync, rebuild, warm-up | super/main.go 805-984, 1249-1347, 1515-1550, 2134-2200, 2262-2437; git.go 59-89, 191-247; server/main.go 70-91; apiFunctions.go 114-132 | good workers, the pool, stored hashes, builds, `BuildCommandsRunAt` (backend and the run's copies), warm-up goroutines | acquire, no-workers retry, sync, check, deregister, warm, split hand-off, builds of the execution sessions | **modelled**: Pipeline, composed with Splitter in Preparation |
| Rebuild retry loop | super/main.go 366-411 | `retry`, `retryCount` | loop | **modelled**: Pipeline |
| Test splitting | testSplitter.go 215-348; super/main.go 1864-2130, 2215-2260, 2439-2528; apiFunctions.go 1044-1081 | memo `mFiles`, `mPretestInfo`, `lastListTestCommand`; the listing's `editedStream` | memo check, listing session, round-robin splits, dedup, SplitTests | **modelled**: Splitter |
| Live counters | super/main.go 1743-1854 | `countStruct` with `mu` | updateCountsJest, updateCountsRspec | **partly**: RunExecution (the totals copied into the relayed frame are left out) |
| CLI run loop | briskcli.go 134-212, 638-758, 840-899, 989-1205; sync.go 45-127 | `retryCount`, the current `super`, `cancelChan` | connectToServer, setupKeys, singleTestRun, the sorting of errors | **partly**: AdmissionLock (CI mode and normal mode, with `controlChan`, `readInput`, `watchFiles`/`fsWatch.Watch` and `catchSignals`); display and sub-commands are not modelled |
| Logging, tracing, metrics, S3 upload, SSH keys, Nomad/Consul registration, memory killer, fs watch, config readers, CLI sub-commands, display | many files | — | — | not modelled: I/O with no control of interest to a model checker |

## 3. Hard behaviours, and what each component must guarantee

* **Execution.**
  - What must hold: a failure is never lost; the status and the exit code
    given to `FinishRun` agree; `FinishRun` always fires (the code
    manages this only when every `connectToServer` call returns); what the
    client reports agrees with the recorded run.
  - What makes it hard: worker goroutines finish in any order and write the
    shared `exitCode` without a lock. The fail-fast sends go to a capacity-1
    channel. The final `select` is random when both of its channels are
    ready. Frames reach the client asynchronously, and the client can cancel
    at any time.
* **Command session.**
  - What must hold: a terminal frame is only accepted for the command
    awaited; the session ends with a nil error only after the last command's
    terminal frame; the caller gets at most one result, whose kind the
    environment justifies (the code may never return one: the dial loop).
  - What makes it hard: the stream is FIFO, but either side can end it. The
    worker has its own, shorter deadline. A cancelled context races with
    buffered frames. A background command's FINISHED frame comes
    immediately. The worker's `errChan` has several senders.
* **Admission.** At most one admitted run per supervisor. Contenders fail
  with "project in use" within the timeout. A lock is released when the
  client's stream ends, and after `PROJECT_RUN_TIMEOUT`, even though the run
  may still be going.
* **Pipeline.**
  - What must hold: tests run only on workers built from the run's watched
    files; every `RunTests` call is answered (the code does not manage
    this: a listing that never answers hangs the split).
  - What makes it hard: every stage fans out one goroutine per worker, and
    each worker can fail, time out or answer late. The rebuild hash is
    rewritten by the check itself. Deregistration is a remote call that can
    fail. The warm-up goroutine runs beside the split and is abandoned when
    the split fails. Attempts retry, and runs follow each other on the same
    workers.
* **Splitter.** Every file is run exactly once, whatever the number of
  workers. This must also hold through the memo, which ignores the number of
  buckets.
* **Counters.** The counters never decrease. A parse error leaves the mutex
  locked.

## 4. Plan

The most important behaviour comes first: how a run's result is decided and
recorded.

1. **RunExecution** (done): the execution stage, `FinishRun`, and the result
   path through `RunTests` to the client. The worker sessions are abstracted
   to outcomes.
2. **SessionContract and CommandSession** (done): the contract RunExecution
   assumes of `connectToServer`, and the detailed session (supervisor loop
   plus the worker's three goroutines). CommandSession is shown to
   implement the contract. This is a refinement with `INSTANCE ... WITH`,
   checked as a PROPERTY.
3. **AdmissionLock** (done): the `Lock` RPC, the supervisor's `Setup` and
   its project claim, and the CLI's CI-mode loop (`RunBrisk`,
   `connectToServer`, `singleTestRun`) with its lock watcher and its
   sorting of errors, with two clients of one or two projects.
4. **Worker gate** (done, inside CommandSession): another session of the
   same worker (such as an orphaned warm-up) may hold `runCommandsGate`
   when the session arrives. This covers the racy read of
   `runCommandsGate.locked`.
5. **Pipeline** (done): acquisition, sync and rebuild thresholds, warm-up,
   and the rebuild retry loop of `RunTests`, composed with Splitter in
   Preparation. A composition with RunExecution is still to come.
6. **Splitter** (done): `splitTestFiles` over successive runs of one
   supervisor, with the RSpec memo, the list session seen by
   `GetAllFiles*Remote`, and the splits as recursive operators, checked
   against "every file runs exactly once".
7. **Counters** (done, inside RunExecution): `updateCounts` on the frames
   of concurrent workers, including the rejected JSON summary that leaves
   `cs.mu` locked.

## 5. Modules and runs

### RunExecution (`RunExecution.tla`, `MCRunExecution.tla`)

**State:**
- `wpc[w]`: the position of each worker goroutine. It is `start`, then
  `session` (in `connectToServer`), then `report` (the `exitChannel` sends),
  then `done` (`wg.Done`).
- `exitCode`, `exitChannel` (a sequence of at most one element),
  `doneChannel`, `jrunStatus`.
- `coord`: the final `select`.
- `finishRuns`: the `FinishRun` calls.
- `relay`: the FAILED frames not yet delivered.
- `clientSawFailed` and `runTests`: what the client sees.
- `config`: `NoFailFast`, and PassThrough, which stands for Python or
  `NoTestFiles`. It is chosen in Init.
- `hasFiles`: the first n buckets have files, as the round-robin split gives.
- `framework` (Jest or RSpec, chosen in Init) and `counts`, the run's
  `countStruct`: FailCount, PassCount and SkipCount. `peak` is the largest
  value each count has held. `frame[w]` is the RSpec results frame worker
  `w` counted, a ghost for the property. `csMuLeaked`: an
  `updateCountsRspec` call returned with `cs.mu` still locked.

**Actions:**
- Each worker goroutine is split at its blocking points: `StartWorker`,
  `SessionReturns`, `SendExit` and `WorkerDone`.
- `AllWorkersDone` is the waiter goroutine.
- `ReturnOnExit` and `ReturnOnDone` are the two cases of the `select`. Each
  includes the deferred `FinishRun` and the deferred cancel.
- `RunTestsReturns`, `DeliverFailed` and `ClientCancel` are the rest of the
  result path.
- `SessionReturns` includes `UpdateCounts`, the counting of the session's
  frames in the receive loop:
  - RSpec (`RspecResultsCounted`): the results frame of a test run carries
    `JsonResults`. `updateCountsRspec` adds the failures and the examples
    less the failures, and sets SkipCount to the pending count, all under
    `cs.mu`, so the update is one step. A passed session of a test run has
    such a frame, and a failed one may. Python and `NoTestFiles` runs have
    none. When `ParseRspecJsonResults` rejects the summary, the call returns
    with `cs.mu` locked (`csMuLeaked`); from then on a session with a
    results frame to count blocks in `cs.mu.Lock` and never returns.
  - Jest (`JestLineCounted`): a stderr line with "PASS" or "skipped test".
    The skipped case writes PassCount from SkipCount + 1.

**Outcome abstraction:** `SessionReturns` picks one of the outcomes of
`connectToServer` listed in SessionContract. `DialFailed` is among them,
though the code's dial loop cannot produce it (see CommandSession): an
over-approximation that the safety properties tolerate. A
`ResultsUnreadable` outcome (a FINISHED frame carrying 255) needs a run
that is not PassThrough: the worker reads a results file only for a test
command of a framework that writes one (`src/core/server/main.go` 458).

**Data race on the Jest counts:** `updateCountsJest` runs in every
worker's receive loop on the one `cs` without the mutex. Its read may
return any value the count has held. Every write is a value read plus one,
so those values are 0 up to `peak`. The write may then lower a count.
Folding the write into the session's return loses no counter outcome: the
count is read by other workers either before or after it.

**Data race on `exitCode`:** it is modelled as an atomic update. This is sound
for the properties: every racing write stores a positive value, so any
interleaving still leaves a positive code.

| Run | Expect | Properties | What it shows |
|---|---|---|---|
| `execution` (`RunExecution.cfg`) | pass | TypeOK, NoFailureLost, ReportedCodeMatchesStatus, RspecTotalsAgree, FinishRunOnceSessionsReturn | With 3 workers, both fail policies, every session outcome and both frameworks: no interleaving lets a later pass hide an earlier failure; the status and the code `FinishRun` records agree on both returns; an RSpec run's FailCount and PassCount are the totals of the results frames counted so far; in every behaviour where each `connectToServer` call that starts also returns, `FinishRun` fires: the waiter, the early return of workers without files and the one-slot `exitChannel` never strand the run. The hypothesis is needed, because the code does not guarantee it (the dial loop, the leaked `cs.mu`) |
| `execution_cancelled` | violation | CompletedOnlyIfAllRan | A run whose client cancelled it is recorded as completed with exit code 0 |
| `execution_unreadable_results` | violation | ClientVerdictMatchesStatus | In a collect-all RSpec test run, a shard whose results file cannot be read makes the run failed, while the client reports success |

### SessionContract and CommandSession

**SessionContract** states what `connectToServer` promises its caller. It
returns at most once. It returns `Cancelled` only after the run context
was cancelled, and `WorkerEOF` only after a cancellation or the worker's
deadline. It is a safety specification with no fairness: it does not
promise that the call returns, because the dial loop may spin for ever.

**CommandSession** models both ends of one session. The two stream
directions are FIFO sequences: `toWorker` and `toSuper`.

*Supervisor (`sPc`):* `Dial`, `SendCommand` (with `setBuildCommandsRunAt`),
`RecvFrame`, `RecvCancelled`, `CloseOnCancel`, `CommandTimeout`, and the
two deferred steps: `Return` (`CloseSend`) and `CloseConn`.

*Worker:*
- the handler (`hPc`): `GatePreCheck`, `GateAcquire`, `Admit`,
  `HandlerReturns`;
- another session of the same worker (`otherPc`, when the constant
  `OtherSession` is TRUE): it may hold the gate at the start, and
  `OtherReleases` is its return, whose deferred functions clear `locked`
  and then unlock the mutex;
- the admission checks in `Admit`: `CheckIntendedAllocID` returns nil in
  DEV mode. Outside it, `GetIntendedAllocIdFrom` reads the
  `worker_alloc_id` that `connectToServer` put in the metadata
  (`AddIntendedAllocIdTo`, `src/core/super/main.go` 1421), and the check
  fails when that Uid is not this allocation's `NOMAD_ALLOC_ID`. The
  error is returned through the deferred gate release. The worker's `CheckGlobalProjectToken` reads a
  token nothing assigns, so it always passes. A session is one call, so
  `Admit` chooses the deployment;
- `readCommands` (`rPc`): `ReadCommand`, `ReadEOF`, `ReadErr`. A `Recv`
  error while the stream context is live (for example a command over the
  4 MB receive limit) puts the error on `errChan` and then the nil
  command on `commandChan` (`NilCommand`);
- `executeCommandStream` (`ePc`): `StartCommand`, `CommandExits`,
  `ExecSendErr`, `ExecFinish`. `StartCommand` first sends the "Running
  command" frame, whose failure once the handler has returned sends the
  error to `errChan`; then `TermStart`, whose start error gives a FAILED
  frame. A nil command panics at `in.SequenceNumber` in a goroutine no
  interceptor covers, so the worker process dies (`hPc` = `crashed` if
  the handler was still serving). `getRebuildHash` (`GetRebuildHash`) may
  fail after a background command starts or a foreground one exits; the
  error then goes to `errChan` with no terminal frame;
- the output goroutines of the running foreground command: the stdout
  goroutine (`outPc`: `StdoutEnds`, `StdoutSendErr`, which puts a scanner
  or send error on `errChan`) and `scanStdErr` (`errPc`: `StderrEnds`).
  `CommandExits` waits for both (`wg.Wait`). `SendError` is a stderr
  scanner error (a line over 10 MB): `sendError` reports it and panics,
  and the worker process dies (`hPc` = `crashed`, every worker goroutine
  gone, a transport error at the supervisor);
- the environment: `WorkerDeadline` and `CancelRun`.

*The dial loop:* `Dial` either opens the stream or counts a failed
`DialContext` in `dials`. The code raises `connectCount` with `i` on every
failure, so the loop leaves only on success, and the `FAILED`-frame return
after it is dead code: CommandSession never returns `DialFailed`. Once the
run context is cancelled no dial can succeed, and the loop spins with no
end, so `Dial` has no step then. `MaxDialFailures` bounds the transient
failures of a worker that does accept in the end. `CancelDuringDial`
allows a cancel while dialling; the `session` run sets it TRUE, so it
includes sessions that never return. That is why ImplementsContract is a
safety refinement only, and why RunExecution gives `SessionReturns` no
fairness. PROJECT.json lists the loop as a hazard.

*The gate:* `GatePreCheck` reads `runCommandsGate.locked` without the
mutex. While the other session is about, that read is a data race and may
see either value: seen set, the handler returns "concurrent access to
worker" (an error frame); otherwise it waits in `mutex.Lock`
(`GateAcquire`). The check after the lock cannot fail, because the
holder clears `locked` before it unlocks, so the model has no step for
it. The deadline context is made before the gate, so `WorkerDeadline` may
fire while the handler waits.

*What is kept and what is dropped:*
- Frames sent after the handler returned are lost.
- Output lines carry no control, so they are left out; only how the
  output goroutines end is kept.
- `setCommand` gives Jest and Rspec test runs a results file
  (`WritesResultsFile`); the session's framework is drawn from the
  constant `Frameworks` (Jest and Raw in the MC) and `NoTestFiles`. Its
  unknown-framework error is unreachable: `cleanConfig` exits on one
  (`KnownFrameworks`).
- So is the per-frame count update, which RunExecution models.

*The end of a session:* `readCommands` returns on `ctx.Err()` without a
word on `errChan`, and it closes `commandChan` only after a `Recv` error.
After a cancel, and after the EOF that ends every normal session,
`executeCommandStream` therefore stays blocked in `range commandChan`:
one goroutine leaks per session, but it holds nothing the next session
needs. What must not stay blocked is the handler's `select`, which holds
`runCommandsGate`; GateEventuallyReleased checks that it always returns,
and removing the `ctx.Done` case (mutant `HandlerReturnsNoCtxDone`) leaves
a cancelled session holding the gate for ever.

*Timing:* the supervisor's `COMMAND_TIMEOUT` is `RUNNER_COMMAND_TIMEOUT` +
10 s (`src/core/shared/constants/constants.go` 78-81). So `CommandTimeout`
is enabled only after the worker's deadline.

| Run | Expect | Properties | What it shows |
|---|---|---|---|
| `session` (`CommandSession.cfg`) | pass | TypeOK, TerminalMatchesCommand, ImplementsContract, GateEventuallyReleased | For built and unbuilt workers, with or without a results file, with cancellation at any point (the dial included), worker crashes and output errors, and with or without another session holding the gate: every accepted terminal frame belongs to the awaited command; `connectToServer` implements SessionContract, so RunExecution's outcome abstraction is sound (a refusal at the gate is an error return); every admitted session releases `runCommandsGate`, even when the supervisor was cancelled before sending a command and only the `ctx.Done` case of the select (the `RUNNER_COMMAND_TIMEOUT` deadline) can end it |
| `session_worker_deadline` | violation | SuccessOnlyAfterLastTerminal | When the worker's deadline passes during a command, the worker's handler returns nil, and `connectToServer` returns a nil error without that command's terminal frame |

### AdmissionLock (`AdmissionLock.tla`, `MCAdmissionLock.tla`)

Each `singleTestRun` of a client is a new call `<<c, n>>` (client, its
n-th run). In CI mode every iteration of `RunBrisk`'s loop makes at most
one; in normal mode the `controlChan` loop makes one per run request.
The Lock handler, the context and the `RunTests` run of an earlier call can
still be live when the next call starts, so they are kept per call.

**Supervisor state:**
- `globalProjectToken`: the project `Setup` has claimed (`none` at first).
- `lockChannel`: the number of tokens in the channel, 0 or 1.
- `ready`: main has put in the first token (`src/core/super/main.go` 576).
- `lpc[k]` and `lockRet[k]`: where the `Lock` handler of call `k` is, and
  what it returned.
- `superRun[k]`: the `RunTests` run of call `k`, which is `none`, `active`
  or `over`.

**Client state:**
- `project[c]`: the client's project token, fixed in Init. Both clients
  may have the same project, or different ones.
- `cpc[c]`: where `RunBrisk`'s goroutine is. Its values are `start`, `idle`,
  `setup`, `lockCall`, `lockWait`, `syncing`, `running`, `returned`,
  `superLost` and `done`, and in normal mode `control` (reading
  `controlChan`) and `drain` (emptying it after a run).
- `ctxDone[k]`: the context of call `k` has been cancelled.
- `attempts[c]`, `runs[c]`, `retryCount[c]`: the iterations so far, the
  calls so far, and `RunBrisk`'s retry count.
- `err[c]`: what `connectToServer` returned, named by the branch of
  `RunBrisk` it takes.
- `verdict[c]`: what the goroutine sent on `cancelChan`, `panic`, or
  `exit` when the quit key or a signal ended the process.
- `control[c]`: the contents of `controlChan` (capacity 2), which
  `RunBrisk` fills with one `AutoSave` before anything runs.
- `watch[c]`: the file watcher, `off` (CI mode), `on`, `failing` (its
  setup failed and the `Q` is not yet sent) or `failed`.
- `inputs[c]`: the keys and file changes sent so far (bounded by
  `MaxInputs`).

The constant `Interactive` names the clients in normal mode (viper `CI`
unset).

**Actions, supervisor side:**
- `SuperReady`: main puts the first token in `lockChannel`.
- `Setup`: runs under `setupMutex`. It either fails, or claims the token if
  none is claimed and accepts the claimed project. The failures are
  `CheckGlobalProjectToken` (another project is claimed) and
  `GetProjectWithToken` (`RetryOutcomes`). The first Setup's key creation
  failing after the claim is not modelled.
- `LockTake`, `LockInUse`, `LockAbandoned`: the three cases of the first
  select, namely taking the token, `SUPERVISOR_TIMEOUT`, and `ctx.Done`.
  `ctx.Done` is reached when the client's process ends while its Lock call
  waits.
- `ReleaseOnDone`, `ReleaseOnTimeout`: the two cases of the second select.
- `RunEnds`: `RunTests` returns.

**Actions, client side:**
- `ClientStarts`: `RunBrisk` before its loop. The first
  `getSuperForProject` either finds the supervisor or ends the run.
- `ConnectToServer`: starts an iteration.
- `SetupUnreachable`: `setupKeys` turns Unimplemented or Unavailable into
  SUPER_NOT_REACHABLE.
- `CallLock`, `GotLock`, `GotInUse`.
- `SyncFails`: `RSyncError`. rsync runs under `exec.Command`, so a
  cancelled context does not stop it.
- `StartRunTests`: the sync succeeded, then `c.RunTests`. The run is
  admitted only when `globalProjectToken` is set and equals the caller's
  project (`RunTestsAdmits`, the early returns of `RunTests`).
- `RunTestsCallPanics`: the sync succeeded on a cancelled context.
  `c.RunTests` then fails, and `defer r.CloseSend()` on the nil stream
  panics.
- `WatcherCancels`: the goroutine reading the Lock stream.
- `ClientReturns`: the Recv loop returns nil, `TestFailedError`, the run's
  error (code Unknown) or a cancellation.
- `RunBriskStops`, `RunBriskInUse`, `RunBriskGivesUp`,
  `RunBriskCountsError`, `RunBriskOtherError`: the branches of `RunBrisk`,
  in the code's order. `SuperReplaced` covers `markSuperAsUnreachable` and
  `getSuperForProject`, each under `Retry` (`RetryOutcomes`: one of five
  calls succeeded, or none did). The model has one supervisor, so the loop
  goes back to it.

**Actions, normal mode:**
- `Setup` leads to `control` instead of `lockCall` (`AfterSetup`).
- `ControlRead`: one value of the `switch <-controlChan`:
  - `AutoSave` and `R` start a run while `runs < MaxRuns`;
  - `Q` returns nil ("finished normally");
  - `X` calls `ClearWorkersForProject` and returns nil if it succeeded;
  - any other key prints the usage.
- A run's end leads to `drain` (`AfterRun`). The run's error is only logged
  (`RunError`).
- `Drain` empties the channel and goes back to `control`.
- `KeyPressed`: `readInput` sends a key (blocking while the channel is full).
- `FileChanged`: fsWatch's event goroutine sends `AutoSave`.
- `WatchFails`: `watchFiles` sends `Q` after `fsWatch.Watch` failed. Whether
  the setup fails is chosen when `RunBrisk` starts the watcher
  (`WatchSetups`). A change made before the watches are set is not seen,
  which is the same as a later change, so the model settles the setup at
  once.
- `ProcessExits`: the quit key (`readInput` sends `Q` on `cancelChan`, and
  main returns) or a signal (`catchSignals`, `os.Exit(1)`). The
  connections close, so every call of the client is cancelled.

**Abstraction:**
- The client's errors are classes, one per branch of `RunBrisk`. A
  DeadlineExceeded and a network code take the same branch.
- In normal mode the run's error is only logged, so it is not recorded.
- The quit key and a signal lead to the same state; `exit` stands for
  both.
- In CI mode `readInput` may also run, when stdin is a terminal. There only
  its `Q` has an effect, and it ends the process as in normal mode. The
  model gives quit keys and signals to normal-mode clients only.

**PROJECT_RUN_TIMEOUT:** its timer may fire in any phase of the hold. It
starts when the token is taken, before a sync that has no timeout, and the
execution stage alone may take COMMAND_TIMEOUT, only 10 s less than
PROJECT_RUN_TIMEOUT.

**Fairness:**
- Weakly fair: the supervisor's goroutines and timers; the RPCs that have a
  deadline (`Setup`, and the retried API calls of `SuperReplaced`); and the
  client's goroutine steps.
- Weakly fair, in normal mode: the loop reading `controlChan`, the drain,
  and the watcher's send of `Q`.
- Not fair: the start of an iteration, and the sync (`SyncFails`,
  `StartRunTests`, `RunTestsCallPanics`), which has no timeout. Key
  presses, file changes and the end of the process are the user's and are
  not fair either.

**Bounds:**
- Two clients: `c1` in CI mode and `c2` in normal mode. Both either share
  `p1` or have `p1` and `p2`. `p1` and `p2` are interchangeable, so these
  two assignments stand for all four (`MCProjectAssignments`).
- Two iterations each, with RETRY_COUNT 0. With these, one contender is
  told "in use" and retries, one client's release admits the other, a
  second project is rejected and retries, and a second counted error ends
  the loop ("too many errors").
- `c2` makes one run from `controlChan` (`MaxRuns` 1, the initial
  `AutoSave`). It sends one input (`MaxInputs` 1), either the key `X` or a
  file change, at any point. Its watcher may fail and send `Q`, and its
  process may end at any point. These cover:
  - a key or change dropped by the drain;
  - a `Q` read after the run, or dropped before it;
  - `ClearWorkersForProject` succeeding and failing;
  - a Lock call abandoned while it waits.

  Allowing a second run or a second key multiplies the state space past
  what the liveness check can finish in five minutes.

| Run | Expect | Properties | What it shows |
|---|---|---|---|
| `lock` (`AdmissionLock.cfg`) | pass | TypeOK, TokenConserved, OneProjectPerSupervisor, LockEventuallyReleased | The token is never lost or duplicated over every exit of the handler and every overlap of one client's calls. Only the claimed project ever waits for, holds or runs on the supervisor, whatever order two projects' Setup calls come in. A held lock is always given back, even when the holder's client is stuck in its sync or its process ended. All of this holds with an interactive client beside a CI one. |
| `lock_single_flight` | violation | OneRunInProgress | After the PROJECT_RUN_TIMEOUT release, the first client's run goes on (or even starts) until its watcher cancels it, and a second client is admitted meanwhile |

### Splitter (`Splitter.tla`, `MCSplitter.tla`)

`splitTestFiles` decides which worker runs which test files. The model
follows one supervisor process through `MaxRuns` runs, because the RSpec
split is memoised across runs in package variables.

**State:**
- `memo`: `mFiles` (`valid` is `mFiles != nil`) and the listing behind
  `mPretestInfo`; `lastCmd` is `lastListTestCommand`.
- `n`, `fw`: the run's `len(goodWorkers)` and `config.Framework` (`auto`
  stands for the default splitter with `AutomaticSplitting`).
- `phase`: `listing` while `GetAllFiles*Remote` read `editedStream`; then
  `split` (buckets returned), `error`, `hung` (the range never ends) or
  `crashed` (the listing goroutine panicked).
- `listed`, `myFiles`, `total`: the listing, the buckets and
  `totalTestCount`.

**Actions:**
- `StartSplit`: the call from `runTestTheTests` and the dispatch of
  `splitTestFiles`. Rspec first checks the memo (`MemoHit`), and on a miss
  clears it and records the list command. Python splits nothing.
- `ListFinished`: a `FINISHED` frame with exit code 0 and JSON, parsed by
  the framework's parser (`ParseListing`: `SplitForRSpec`, `SplitForJest`
  or `splitForRaw`, each returning the paths without duplicates). Then the
  split of the framework: `SplitFilesByRspec`, `SplitFilesByRaw`,
  `SplitFilesByJest` or `SplitTests`; the last may fail.
- `ListFailed`: the loop's error returns.
- `ListNoAnswer`: `connectToServer` ends in a way the loop never sees. The
  Rspec and Raw goroutines then index `executionInfos[len-1]`, which panics
  when no ExecutionInfo was collected (`infoSeen` is chosen freely: it
  depends on whether a build command ran or a stderr frame came).

**Operators:** `BucketFrom` (RECURSIVE) and `RoundRobin` are the loop all
three round-robin splits share; `RemoveDuplicates` is any ordering of the
distinct files, as Go's map iteration gives; `Listings` is every listing of
the suite with up to `MaxListLen` entries, repetitions being several
examples in one file. The splitting service behind `SplitTests` is only its
contract: any assignment of the files to the clamped number of buckets.

**Bounds:** `split` uses 2 files and 1 to 3 workers, so that there are more
workers than files (the clamp and empty buckets), as many, and fewer, with
listings up to 3 entries (one repeated file). The files are model values
under symmetry. The memo is reused, and its total checked, in the
`prepare` run of Preparation, where the worker count comes from the
pipeline.

**Fairness:** the list session ends (weak fairness of the three `List*`
actions): `connectToServer` is bounded by `COMMAND_TIMEOUT`. Starting a run
is up to the clients and is not fair.

| Run | Expect | Properties | What it shows |
|---|---|---|---|
| `split` (`Splitter.cfg`) | pass | TypeOK, EveryFileOnce | For every framework, worker count, listing order and end of the list session, a fresh split gives every file to exactly one of the run's workers |
| `split_memo` | violation | EveryFileOnce | With SkipRecalcFiles, a run with fewer workers reuses the old buckets; the extra bucket's files never run |
| `split_listing` | violation | ListingReturns | A listing that ends on EOF or COMMAND_TIMEOUT never returns: the RSpec goroutine panics on an empty `executionInfos`, or the loop waits for ever on `editedStream` |

### Pipeline and Preparation (`Pipeline.tla`, `Preparation.tla`, `MCPreparation.tla`)

Pipeline models what `RunTests` and `runTestTheTests` do before the
execution stage. Preparation composes it with Splitter (`P == INSTANCE
Pipeline`, `S == INSTANCE Splitter`). The split is called with
`len(goodWorkers)`, and its buckets or its error are what the attempt
continues with.

**State, supervisor:**
- `stage`: where the attempt is: `acquire`, `sync`, `check`, `split`,
  `splitting`, `await` (the `warmingWaitGroup.Wait`), `execute`, or `over`
  (the call has put its value on `errChannel`).
- `runTests`, `retryCount`: the `RunTests` calls so far and the retry
  loop's counter; `noWorkerRetry`: the one NO_WORKER_TIMEOUT retry was
  taken.
- `version`: the version of the watched (rebuild) files the client synced
  for this call.
- `good`: `goodWorkers`, a sequence; `entry`: the `BuildCommandsRunAt` of
  the worker records the run holds (a snapshot of the allocator's answer).
- `warms`: the warm-up goroutines still running, with their targets, and
  the result of the current one.

**State, workers and backend:**
- `registered`: the worker is still in the allocator's pool.
- `buildAt`: the backend's `BuildCommandsRunAt`.
- `builtWith`: the version its build commands last ran with.
- `stored`: the content of its `/tmp/.rebuild`. It is empty on a new
  worker, because `ReadFile` creates the file.

**Actions:**
- `StartRunTests`, and `AttemptReturns`, which is the loop of `RunTests`
  that every return of an attempt goes through.
- `AcquireNoWorkers`: "We don't have enough workers" and its single retry.
- `Acquire`: `getWorkingWorkers` (`GetWorkersForProject`, `Quorum`,
  `NomadOutcome` of each worker's `CheckWorkerNomad` answer and
  `DeRegisterWorker` result). `RequestedWorkers` is the command's
  concurrency, or the config's, capped at `MAX_WORKERS` (5 when unparsable).
  The constant `NomadOutcomes` lists those outcomes for TLC, and an ASSUME
  checks the list against `NomadOutcome`.
- `Sync`: `syncToWorkers` (`SetupWorker`: the dial, then the worker's
  Setup, `WorkerSetup`; then the rsync) and the gates after it (`SyncFails`).
- `CheckWorkers`: `checkWorkersForRebuild`; each `CheckRebuild` is
  `CreateConnectionToWorkerNoRetry` then the worker's `CheckBuild`
  (`CheckOutcomes`), with its `RebuildRequired` and `HashWritten`. An
  ASSUME derives `CheckBuild`'s answers from the steps that can fail
  before the hash is replaced: `ReadRebuildHash`, `CheckFilesExist` and
  `WriteHash` (`CheckBuildAnswer`). Then come
  `DeRegisterWorkersForProject`
  (`DeregisterOutcomes`) and the 85% gate.
- `SplitStarted`: starts the warm-up goroutine (`WarmTargets`) and calls
  the split.
- `WarmDone`: one warm-up goroutine ends (`WarmEffect`). It sets
  `BuildCommandsRunAt` on its copies only. A goroutine orphaned by a split
  error just ends.
- `SplitReturned`: in Preparation, `SplitReturns`, glued to Splitter's
  phase.
- `AwaitWarm`.
- `Execute`: the execution sessions as far as builds go. Build commands
  are prepended when the run's record has no `BuildCommandsRunAt`, and the
  build is recorded (best effort). `BuildRecordOutcomes` is
  `setBuildCommandsRunAt`, which only logs a failed dial or call, so a
  build may be left unrecorded.

**Abstraction:**
- Each fan-out stage is one step that chooses every worker's outcome. Its
  goroutines only append to mutex-guarded slices and meet at a WaitGroup,
  so no intermediate state is observable.
- The order of `goodWorkers` after acquisition and after sync is fixed.
  The rebuild check re-orders them by completion (every order), and that
  order is the first one anything reads: the warm-up slice.
- The data race on `returnErr` in `syncToWorkers` only decides which error
  text wins.

**Bounds (`Preparation.cfg`):**
- 3 workers. This is the fewest for which `goodWorkers[1:len-1]` is not
  empty.
- `Concurrency` = 10 with no command concurrency and `MAX_WORKERS` = 10,
  so 10 workers are requested. The integer quorum is then 2, and a single
  returned worker fails it.
- `REBUILD_RETRY` = 1, so an attempt can be retried once.
- Two `RunTests` calls, the fewest for a worker's state to carry from one
  run to the next.
- Two versions of the watched files.
- In Init, workers are either new or built with one common version.
- Splitter: RSpec only, one file, listings of up to 2 entries,
  SkipRecalcFiles set, one list command, and list sessions that end with
  a listing, a FAILED frame or io.EOF. So the memo is filled, reused
  with another worker count, and reset after a failed listing, and a
  listing may never answer (`ListNoAnswer`).
- `prepare` explores about 2.2 million states in under a minute.

**Fairness:** none. Only safety is claimed of the preparation: a
`RunTests` call need not be answered, since the listing may never answer
and the warm-up and execution sessions may never return.

| Run | Expect | Properties | What it shows |
|---|---|---|---|
| `prepare` (`Preparation.cfg`) | pass | TypeOK, FreshWorkersOnly | While deregistration succeeds, every worker that runs tests either builds in its session or was built from this run's watched files. This holds through late and failed checks, retries, orphaned warm-ups and listings that never answer. |
| `prepare_stale_worker` (`PreparationStale.cfg`) | violation | FreshWorkersOnly | `DeRegisterWorkersForProject` fails after the check overwrote the stale workers' hashes. The next run's check passes on the same workers, and its tests run on the old build. |

### Bounds

- **Three workers.** That is enough for a failure followed by a pass, for two
  failures racing for `exitChannel`, and for a worker without files beside
  workers with files. More workers only repeat these interleavings.
- **Counters:** Jest lines "PASS" and "skipped test", the two cases that
  write PassCount. Two RSpec summaries that differ in their failures and
  pending counts. Three counting workers can lose and overwrite each
  other's Jest counts. `execution` explores about 1.2 million states in
  about a minute.
- **One failed dial** (`MaxDialFailures = 1`): a retry of the dial loop
  before it connects; further failures only repeat that state.
- **Two build commands, one in the foreground and one in the background,
  plus the test command.** That covers the background FINISHED shortcut, the
  `setBuildCommandsRunAt` check, and a worker that needs no build.

### Fairness

- **RunExecution** assumes weak fairness of every goroutine step but the
  return of `connectToServer`. Go's scheduler runs every runnable
  goroutine; `connectToServer` may never return (its dial loop, a leaked
  `cs.mu`), so its return is a hypothesis of FinishRunOnceSessionsReturn
  instead. The client and the relay goroutine get no fairness: the client
  may cancel or stay.
- **Preparation** has no fairness (see above); Splitter's runs assume that
  the list session ends, which `split_listing` needs to show the loop
  waiting for ever.
- **CommandSession** assumes weak fairness of every goroutine, of process
  exit (`TermStart` kills the process group on cancellation), of the
  worker's deadline and of the supervisor's timer: time passes. Cancellation
  gets no fairness.

### Deadlock checking

Every run says `CHECK_DEADLOCK FALSE`. A run really ends: its goroutines
return, or stay blocked on channels nobody reads any more. Whether a
goroutine that matters gets stuck is checked by the liveness properties
instead: FinishRunOnceSessionsReturn, LockEventuallyReleased,
ListingReturns and GateEventuallyReleased.

## 6. Findings so far

See `PROJECT.json` "findings". In short:

- **A client-cancelled run is recorded as completed.** `connectToServer`
  returns nil on `codes.Canceled`; the untouched `exitCode` of -1 then
  becomes 0 (`src/core/super/main.go` 1615, 1208-1232).
- **A killed test shard counts as a pass.** The worker's deadline makes
  `RunCommands` return nil, which the supervisor reads as success
  (`src/core/server/main.go` 215-218, `src/core/super/main.go` 1591-1594).
- **The client can report success for a failed run.** When a results file
  cannot be read, the worker sends a `FINISHED` frame with exit code 255
  (`src/core/server/main.go` 465). The spec says an exit code is 0 exactly
  when the control is finished.
- **Two runs can be in progress at once.** The PROJECT_RUN_TIMEOUT valve
  releases the admission lock before the run is stopped
  (`src/core/super/main.go` 225). This contradicts the spec's single-flight
  rule.
- **A reused RSpec split drops files.** With `SkipRecalcFiles`, the memo is
  returned whatever the worker count (`src/core/super/main.go` 2222).
- **Raw runs report the worker count as the test total**
  (`src/core/super/main.go` 1884). This is listed as a hazard; it is not a
  run of its own.
- **The test listing can panic or hang the supervisor.** The listing
  goroutine indexes an empty `executionInfos` (2089, 1933), and the loop over
  the never-closed `editedStream` waits for ever when the session ends
  without a `FINISHED`-with-JSON or `FAILED` frame (2010, 2094, 1938).
- **A stale worker can run tests.** The worker's `RebuildRequired` lets
  `HashFiles` overwrite the stored hash before the supervisor acts on the
  answer (`src/core/shared/git.go` 191-214). When the deregistration of the
  stale workers then fails (`src/core/super/main.go` 899-903), the next run
  gets the same workers, their check passes, and the tests run on a build
  made from the old watched files.
- Listed as hazards, not runs:
  - `connectToServer`'s dial loop ends only when a dial succeeds
    (`src/core/super/main.go` 1444-1471). After a cancel or
    `COMMAND_TIMEOUT`, a worker that cannot be reached keeps the goroutine
    spinning for ever, and the session never returns (CommandSession's
    `Dial` has no step then);
  - fail-fast leaks a goroutine per failing worker, because the worker sends
    twice on the one-slot `exitChannel` (`src/core/super/main.go` 1190,
    1198);
  - the acquisition quorum counts the workers the allocator returned, with
    integer division, where the spec counts the surviving ones (2276);
  - a warm-up build that exits nonzero calls `err.Error()` on a nil error
    and panics the supervisor (2174);
  - `RunBrisk` retries every error outside its known classes at once,
    without sleeping or counting (`briskcli.go` 702). A terminal `RunTests`
    error such as "Timed out waiting for workers to rebuild", or a second
    project's rejected `Setup`, therefore reruns lock, sync and run for
    ever;
  - the CLI panics when a sync ends after the lock watcher cancelled the
    call: `c.RunTests` fails, and `defer r.CloseSend()` is then evaluated
    on the nil stream (`briskcli.go` 1110-1111);
  - in normal mode the loop empties `controlChan` after every run
    (`briskcli.go` 246, 274). A file saved or a key pressed during a run is
    dropped, so the last change is never tested. The `Q` that `watchFiles`
    sends when the watcher cannot be set up is dropped the same way if it
    comes before the first run ends, and the CLI then runs on without a
    watcher;
  - the worker's project check reads `globalProjectToken`, which nothing
    assigns (`src/core/server/main.go` 68, 109, 184). The spec says the
    first caller claims the worker;
  - the live counters can go down, though the spec says they never
    decrease: a Jest skipped-test line sets PassCount to SkipCount + 1,
    which is 1 (1811); `updateCountsJest` races on the shared counts (1808);
    and RSpec sets SkipCount to the last frame's pending count (1833). An
    RSpec summary that fails to parse returns with `cs.mu` locked (1829),
    and every later count update of the run blocks for ever.

## 7. Not modelled, and why

- The CLI's display is left out of AdmissionLock. A new supervisor from
  `getSuperForProject` is the same modelled supervisor.
- The worker's `Setup` only writes the supervisor's public key. Its
  project check can never fail (it reads a variable nothing assigns, so a
  worker is never claimed for a project), so it has no state to model
  beyond being one of `SetupWorker`'s outcomes.

- Frame contents, log text, S3 upload, tracing, metrics and bugsnag are I/O
  with no control flow of interest.
- Copying the request (`copystructure`) cannot fail for these plain structs.
- `CheckWorkerNomad` dereferences `DeploymentStatus.Healthy`, which is nil
  until the deployment sets it. The panic would end the supervisor; it is
  left out of Pipeline's outcomes. The Nomad event-stream subscriptions
  and `UpdateWorkerRegistry` have no caller in `src/`.
- The worker's `Setup` shares `CheckIntendedAllocID` with `RunCommands`;
  `SetupWorker` sends the alloc id (`src/core/super/main.go` 2371), and
  Pipeline keeps the check's error as one of `SetupWorker`'s outcomes.
- `checkBuildCommands` in the CLI never stores the first build-command
  hash, so it never clears the workers. It is listed as a hazard.
- Pipe creation errors in `executeCommandStream` are left out, and so are
  the output goroutines of background commands, which outlive the
  command's frame.
- Concurrent `stream.Send` from the stdout and stderr goroutines is
  undefined behaviour in gRPC and is not modelled; it is listed as a hazard.
- The per-worker split of the output lines into frames is left out. It
  carries no control.
- Counters: a session counts at most one frame. The totals copied into the relayed frame
  (`src/core/super/main.go` 1658-1662) are read without the mutex and are
  not modelled.
- `SplitByJUnit` (files given in the config) is left out of Splitter: it
  lists nothing and splits like Jest. `SplitFilesBySize` is never called (it would also drop the last file).
  The splitting service's algorithm is remote; only its answer's shape is
  modelled.
- In Pipeline, the following are left out:
  - the switches `CHECK_WORKER_HASH=false`, `SKIP_CHECK_WORKERS`,
    `IsDev()` and `ALWAYS_RUN_BUILDCOMMANDS`;
  - commands with `NoTestFiles`, which skip the split;
  - the warm-up build that exits nonzero, which panics (listed as a
    hazard);
  - the busy gate of a worker that an orphaned warm-up still occupies;
    CommandSession models one session against such a holder.
  
  The execution sessions appear only through their builds; the rest is
  RunExecution.
