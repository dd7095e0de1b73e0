------------------------------ MODULE Pipeline -------------------------------
(***************************************************************************)
(* The preparation of a run on the supervisor (src/core/super/main.go):    *)
(* the RunTests retry loop around runTestTheTests, and in each attempt    *)
(* getWorkingWorkers, syncToWorkers, checkWorkersForRebuild (with the      *)
(* worker's CheckBuild / RebuildRequired, src/core/server/main.go and      *)
(* src/core/shared/git.go) and the warm-up goroutine, up to the start of  *)
(* the execution stage.  The split is left to Splitter: SplitStarted and   *)
(* SplitReturned are the points where the two are composed, and the      *)
(* next-state relation and fairness are those of Preparation.             *)
(*                                                                         *)
(* The per-worker goroutines of each stage only append to mutex-guarded   *)
(* slices and meet at a WaitGroup, so a stage is one step that chooses    *)
(* every worker's outcome; the order of the resulting goodWorkers is the  *)
(* order the goroutines finished in, any permutation.                     *)
(***************************************************************************)
EXTENDS Naturals, Sequences, SequencesExt, FiniteSets

CONSTANTS
  Workers,            \* the worker processes of the project's pool
  CommandConcurrency, \* the command's CommandConcurrency (0: not set)
  Concurrency,        \* config.Concurrency
  MaxWorkersEnv,      \* MAX_WORKERS, a number or "unparsable"
  RebuildRetry,       \* REBUILD_RETRY
  MaxRunTests,        \* RunTests calls explored
  Versions,           \* versions of the watched (rebuild) files in the tree
  DeregisterCanFail,  \* whether the DeRegisterWorkers calls may fail
  NomadOutcomes       \* the results of a worker's liveness check

ASSUME /\ CommandConcurrency \in Nat /\ Concurrency \in Nat
       /\ MaxWorkersEnv \in Nat \cup {"unparsable"}
       /\ RebuildRetry \in Nat
       /\ DeregisterCanFail \in BOOLEAN

VARIABLES
  registered,   \* worker still in the allocator's pool (not deregistered)
  builtWith,    \* version of the watched files its build commands ran with
  stored,       \* content of /tmp/.rebuild on the worker
  buildAt,      \* the backend's BuildCommandsRunAt for the worker is set
  version,      \* version of the tree this run syncs
  runTests,     \* RunTests calls started
  retryCount,   \* the retry loop's counter
  noWorkerRetry,\* the one NO_WORKER_TIMEOUT retry of this attempt was taken
  stage,        \* where the current attempt is
  good,         \* goodWorkers
  entry,        \* BuildCommandsRunAt of the worker records the run holds
  warms         \* warm-up goroutines, current and orphaned

pvars == <<registered, builtWith, stored, buildAt, version, runTests,
           retryCount, noWorkerRetry, stage, good, entry, warms>>

Stages == {"idle", "acquire", "sync", "check", "split", "splitting",
           "await", "execute", "over"}

AttemptIds == (1..MaxRunTests) \X (0..RebuildRetry)

Warm == [id : AttemptIds, todo : SUBSET Workers, v : Versions,
         pc : {"running", "done"}, err : BOOLEAN]

TypeOK ==
  /\ registered \in [Workers -> BOOLEAN]
  /\ builtWith \in [Workers -> Versions \cup {"none"}]
  /\ stored \in [Workers -> Versions \cup {"empty"}]
  /\ buildAt \in [Workers -> BOOLEAN]
  /\ version \in Versions
  /\ runTests \in 0..MaxRunTests
  /\ retryCount \in 0..RebuildRetry
  /\ noWorkerRetry \in BOOLEAN
  /\ stage \in Stages
  /\ good \in Seq(Workers)
  /\ entry \in [Workers -> BOOLEAN]
  /\ warms \subseteq Warm

Members(s) == ToSet(s)

(* runTestTheTests: MAX_WORKERS that strconv.Atoi cannot parse counts as  *)
(* 5; the command's own concurrency, when set, wins over the config's,    *)
(* and the result is capped at MAX_WORKERS.                                *)
MaxWorkers == IF MaxWorkersEnv \in Nat THEN MaxWorkersEnv ELSE 5

RequestedWorkers ==
  LET asked == IF CommandConcurrency # 0 THEN CommandConcurrency ELSE Concurrency
  IN  IF asked > MaxWorkers THEN MaxWorkers ELSE asked

AttemptId == <<runTests, retryCount>>

(* Whether a DeRegisterWorkers call failed.                                *)
DeregisterOutcomes == IF DeregisterCanFail THEN BOOLEAN ELSE {FALSE}

-----------------------------------------------------------------------------
(* A worker comes to the pool either new, or built by an earlier run,    *)
(* whose check stored that version and whose backend recorded the build.  *)
(* The workers built before are taken to share one version; mixed fleets  *)
(* arise from the runs themselves.                                        *)
Init ==
  /\ registered = [w \in Workers |-> TRUE]
  /\ \E v0 \in Versions : \E b \in [Workers -> {v0, "none"}] :
       /\ builtWith = b
       /\ stored = [w \in Workers |-> IF b[w] = "none" THEN "empty" ELSE b[w]]
       /\ buildAt = [w \in Workers |-> b[w] # "none"]
  /\ version \in Versions
  /\ runTests = 0
  /\ retryCount = 0
  /\ noWorkerRetry = FALSE
  /\ stage = "idle"
  /\ good = <<>>
  /\ entry = [w \in Workers |-> FALSE]
  /\ warms = {}

(* A client's RunTests call; the client synced its tree, which may carry  *)
(* another version of the watched files.                                   *)
StartRunTests ==
  /\ stage \in {"idle", "over"}
  /\ runTests < MaxRunTests
  /\ runTests' = runTests + 1
  /\ version' \in Versions
  /\ retryCount' = 0
  /\ noWorkerRetry' = FALSE
  /\ stage' = "acquire"
  /\ good' = <<>>
  /\ UNCHANGED <<registered, builtWith, stored, buildAt, entry, warms>>

(* Off-by-one variant of the loop bound (retryCount <= 1+REBUILD_RETRY).  *)
AttemptReturnsOffByOne(retry, err) ==
  IF retry /\ ~err /\ retryCount + 1 <= 1 + RebuildRetry
  THEN /\ retryCount' = retryCount + 1
       /\ noWorkerRetry' = FALSE
       /\ stage' = "acquire"
  ELSE /\ stage' = "over"
       /\ UNCHANGED <<retryCount, noWorkerRetry>>

(* runTestTheTests returns (retry, err) to the loop of RunTests: an error *)
(* ends the call; a retry sleeps REBUILD_BACKOFF and goes round again     *)
(* while retryCount < 1+REBUILD_RETRY, and otherwise ends it with "Timed  *)
(* out waiting for workers to rebuild"; (false, nil) ends it.              *)
AttemptReturns(retry, err) ==
  IF retry /\ ~err /\ retryCount + 1 < 1 + RebuildRetry
  THEN /\ retryCount' = retryCount + 1
       /\ noWorkerRetry' = FALSE
       /\ stage' = "acquire"
  ELSE /\ stage' = "over"
       /\ UNCHANGED <<retryCount, noWorkerRetry>>

-----------------------------------------------------------------------------
(* Acquisition                                                             *)

(* GetWorkersForProject fails with "We don't have enough workers for this *)
(* run": runTestTheTests sleeps NO_WORKER_TIMEOUT and asks once more; a   *)
(* second failure is returned.                                             *)
AcquireNoWorkers ==
  /\ stage = "acquire"
  /\ IF noWorkerRetry
     THEN AttemptReturns(FALSE, TRUE)
     ELSE /\ noWorkerRetry' = TRUE
          /\ UNCHANGED <<stage, retryCount>>
  /\ UNCHANGED <<registered, builtWith, stored, buildAt, version, runTests,
                 good, entry, warms>>

(* The 20% quorum on what the allocator returned, in integer arithmetic.  *)
Quorum(k) == k >= (RequestedWorkers * 2) \div 10

(* DeRegisterWorker: ApiConn and the DeRegister RPC, either error         *)
(* returned (and ignored by its fire-and-forget callers).                 *)
DeRegisterWorker == DeregisterOutcomes

(* CheckWorkerNomad: the allocation's Info.  "alloc not found" is (false, *)
(* nil); any other error, and an allocation without a DeploymentStatus,   *)
(* is an error; otherwise the answer is *DeploymentStatus.Healthy.  (A    *)
(* Healthy the deployment has not set yet is a nil pointer, and the       *)
(* dereference panics: a supervisor crash, left out.)                     *)
CheckWorkerNomad == {"healthy", "unhealthy", "notFound", "error", "noDeployment"}

(* The goroutine of getWorkingWorkers per worker: a healthy one goes to   *)
(* goodChannel ("live"); (false, nil) starts a fire-and-forget            *)
(* DeRegisterWorker ("dead", or "deadKept" when that call fails); an      *)
(* error only drops the worker from this run ("unknown").                 *)
NomadOutcome(answer, deregFailed) ==
  CASE answer = "healthy"                     -> "live"
    [] answer \in {"error", "noDeployment"}   -> "unknown"
    [] OTHER -> IF deregFailed THEN "deadKept" ELSE "dead"

(* The constant NomadOutcomes lists them, so that TLC evaluates the set   *)
(* once.                                                                   *)
ASSUME NomadOutcomes = {NomadOutcome(a, f) : a \in CheckWorkerNomad,
                                             f \in DeRegisterWorker}

(* GetWorkersForProject: the allocator's answer, at most workersRequired  *)
(* registered workers.  A dial, HashFiles or RPC error, and an answer     *)
(* holding a "finished" worker, return no workers, like an empty answer.  *)
GetWorkersForProject == {s \in SUBSET {w \in Workers : registered[w]} :
                            Cardinality(s) <= RequestedWorkers}

(* getWorkingWorkers: the allocator assigns up to RequestedWorkers of   *)
(* the pool (an allocator error is like an empty answer); none, or fewer *)
(* than the quorum, is an error.  No live worker left is an error too.   *)
(* The live ones are kept in the order they answered; every later stage  *)
(* re-orders them before the order is read, so one order stands for all. *)
Acquire ==
  /\ stage = "acquire"
  /\ \E s \in GetWorkersForProject :
       /\ IF s = {} \/ ~Quorum(Cardinality(s))
          THEN /\ AttemptReturns(FALSE, TRUE)
               /\ UNCHANGED <<registered, good, entry>>
          ELSE \E live \in [s -> NomadOutcomes] :
                 LET alive == {w \in s : live[w] = "live"} IN
                 /\ registered' = [w \in Workers |->
                                     IF w \in s /\ live[w] = "dead"
                                     THEN FALSE ELSE registered[w]]
                 /\ entry' = [w \in Workers |-> w \in alive /\ buildAt[w]]
                 /\ IF alive = {}
                    THEN /\ AttemptReturns(FALSE, TRUE)
                         /\ UNCHANGED good
                    ELSE /\ good' = SetToSeq(alive)
                         /\ stage' = "sync"
                         /\ UNCHANGED <<retryCount, noWorkerRetry>>
  /\ UNCHANGED <<builtWith, stored, buildAt, version, runTests, warms>>

-----------------------------------------------------------------------------
(* Sync                                                                    *)

(* After syncToWorkers (SetupWorker and the rsync per worker; a worker    *)
(* that fails either, or is still syncing when the two-minute timer       *)
(* fires, is dropped and the error kept): no worker left, or fewer than   *)
(* 85% of them with an error, fails the attempt; otherwise it goes on.    *)
SyncFails(synced) ==
  \/ synced = {}
  \/ synced # Members(good) /\ 100 * Cardinality(synced) < 85 * Len(good)

(* The worker's Setup: CheckIntendedAllocID, CheckGlobalProjectToken      *)
(* (which always passes: the worker's globalProjectToken is never         *)
(* assigned), then the supervisor's public key written to PUBLIC_KEY_FILE *)
(* and read back; the error of any step is returned.                      *)
WorkerSetup == {"ok", "failed"}

(* SetupWorker: a blocking dial of the worker under WORKER_SETUP_TIMEOUT  *)
(* (its error returned), then the worker's Setup with up to 3 tries.      *)
SetupWorker == {IF dial = "connected" THEN w ELSE "failed" :
                  dial \in {"connected", "failed"}, w \in WorkerSetup}

(* syncToWorkers itself: each worker's goroutine ends in returnWorkers or *)
(* failingWorkers, and the timer returns whatever has finished by then.   *)
Sync ==
  /\ stage = "sync"
  /\ \E setup \in [Members(good) -> SetupWorker] :
     \E synced \in SUBSET {w \in Members(good) : setup[w] = "ok"} :
       IF SyncFails(synced)
       THEN /\ AttemptReturns(FALSE, TRUE)
            /\ UNCHANGED good
       ELSE /\ good' = SetToSeq(synced)
            /\ stage' = "check"
            /\ UNCHANGED <<retryCount, noWorkerRetry>>
  /\ UNCHANGED <<registered, builtWith, stored, buildAt, version, runTests,
                 entry, warms>>

-----------------------------------------------------------------------------
(* Rebuild check                                                           *)

(* Variant that reads the file after HashFiles has written it.             *)
RebuildRequiredReadAfterWrite(w) == version # "empty" /\ version # version

(* The worker's RebuildRequired: it reads /tmp/.rebuild, then HashFiles  *)
(* hashes the (just synced) watched files and writes that hash to the     *)
(* same file, and only then compares: an empty file means no rebuild.     *)
RebuildRequired(w) == stored[w] # "empty" /\ stored[w] # version

(* createConnectionToWorkerNoRetry: a blocking dial with a 1 s timeout;  *)
(* its error is returned.                                                  *)
CreateConnectionToWorkerNoRetry == {"connected", "unreachable"}

(* The worker's CheckBuild: RebuildRequired, whose error (any step below *)
(* failing before HashFiles writes) is returned like a failed dial, or its *)
(* answer, which may come after CHECK_REBUILD_TIMEOUT ("late") when the    *)
(* worker has already written its hash.  The set is listed for TLC; the   *)
(* ASSUME below derives it from the steps.                                 *)
CheckBuild == {"answered", "unreachable", "late"}

(* The steps of RebuildRequired that can fail, in order: ReadRebuildHash  *)
(* (ReadFile), then HashFiles' CheckFilesExist (os.Stat of every watched  *)
(* file) and WriteHash (os.Create, which truncates).  Each failure        *)
(* returns an error before the stored hash is replaced.  A failed Write   *)
(* after the truncation, like a read error in HashFileContent, ends the   *)
(* worker (SafeExit), and is left out.                                     *)
ReadRebuildHash == {"ok", "failed"}
CheckFilesExist == {"ok", "missing"}
WriteHash       == {"ok", "createFailed"}

(* What CheckBuild gives the supervisor: the error of any failed step, or *)
(* the answer, which may arrive after CHECK_REBUILD_TIMEOUT.               *)
CheckBuildAnswer(read, exist, write, late) ==
  IF read # "ok" \/ exist # "ok" \/ write # "ok" THEN "unreachable"
  ELSE IF late THEN "late" ELSE "answered"

ASSUME CheckBuild = {CheckBuildAnswer(r, e, w, l) : r \in ReadRebuildHash,
                       e \in CheckFilesExist, w \in WriteHash, l \in BOOLEAN}

(* The outcome of CheckRebuild for one worker: the dial, then CheckBuild.  *)
CheckOutcomes == {IF conn = "connected" THEN b ELSE "unreachable" :
                    conn \in CreateConnectionToWorkerNoRetry, b \in CheckBuild}

(* HashFiles writes the new hash on every worker whose CheckBuild got as  *)
(* far as hashing, whatever the supervisor then hears.                     *)
HashWritten(o) == {w \in DOMAIN o : o[w] # "unreachable"}

(* checkWorkersForRebuild: a worker whose CheckRebuild erred or answered  *)
(* true goes to workersThatNeedRebuilding, the others to safeWorkers.     *)
NeedRebuilding(o) ==
  {w \in DOMAIN o : o[w] # "answered" \/ RebuildRequired(w)}

(* The rebuild check of runTestTheTests: bad workers are deregistered     *)
(* with DeRegisterWorkersForProject, whose failure (like a failure to get *)
(* the auth credentials for it) ends the attempt with an error.  Fewer    *)
(* than 85% of the workers left makes it return (true, nil), a retry.     *)
CheckWorkers ==
  /\ stage = "check"
  /\ \E o \in [Members(good) -> CheckOutcomes] :
       LET bad  == NeedRebuilding(o)
           safe == Members(good) \ bad
       IN
       /\ stored' = [w \in Workers |->
                       IF w \in HashWritten(o) THEN version ELSE stored[w]]
       /\ \E deregFailed \in DeregisterOutcomes :
            IF bad # {} /\ deregFailed
            THEN /\ AttemptReturns(TRUE, TRUE)
                 /\ UNCHANGED <<registered, good>>
            ELSE /\ registered' = [w \in Workers |->
                                     IF w \in bad THEN FALSE ELSE registered[w]]
                 /\ good' \in SetToSeqs(safe)
                 /\ IF 100 * Cardinality(safe) < 85 * Len(good)
                    THEN AttemptReturns(TRUE, FALSE)
                    ELSE /\ stage' = "split"
                         /\ UNCHANGED <<retryCount, noWorkerRetry>>
  /\ UNCHANGED <<builtWith, buildAt, version, runTests, entry, warms>>

-----------------------------------------------------------------------------
(* Warm-up and split                                                       *)

(* The warm-up goroutine is started before the split; with more than one *)
(* worker it takes goodWorkers[1:len-1] whose record has no               *)
(* BuildCommandsRunAt and runs their build commands.                       *)
WarmTargets(g) ==
  IF Len(g) > 1
  THEN {g[i] : i \in {j \in 2..(Len(g) - 1) : ~entry[g[j]]}}
  ELSE {}

(* The split is called (Splitter's StartSplit, with len(goodWorkers)).    *)
SplitStarted ==
  /\ stage = "split"
  /\ stage' = "splitting"
  /\ warms' = {r \in warms : r.pc = "running"} \cup
               {[id |-> AttemptId, todo |-> WarmTargets(good),
                 v |-> version, pc |-> "running", err |-> FALSE]}
  /\ UNCHANGED <<registered, builtWith, stored, buildAt, version, runTests,
                 retryCount, noWorkerRetry, good, entry>>

(* warmOtherWorkers, once every worker's build session has ended: a       *)
(* worker whose build succeeded is built, and setBuildCommandsRunAt       *)
(* records it in the backend (best effort, so maybe not); a session error *)
(* is kept, and on Unavailable the worker is deregistered (fire and       *)
(* forget).  The run's own worker records are copies and stay as they     *)
(* were.  An orphaned goroutine, whose attempt has ended, just goes away. *)
(* What the outcomes o of the build sessions leave behind.               *)
WarmEffect(r, o) ==
  /\ builtWith' = [w \in Workers |->
                     IF w \in r.todo /\ o[w] \in {"built", "builtUnrecorded"}
                     THEN r.v ELSE builtWith[w]]
  /\ buildAt' = [w \in Workers |->
                   IF w \in r.todo /\ o[w] = "built" THEN TRUE ELSE buildAt[w]]
  /\ registered' = [w \in Workers |->
                      IF w \in r.todo /\ o[w] = "gone" THEN FALSE
                      ELSE registered[w]]
  /\ warms' = (warms \ {r}) \cup
                IF r.id = AttemptId /\ stage \in {"splitting", "await"}
                THEN {[r EXCEPT !.pc = "done",
                                !.err = \E w \in r.todo : o[w] \in {"failed", "gone"}]}
                ELSE {}
  /\ UNCHANGED <<stored, version, runTests, retryCount, noWorkerRetry, stage,
                 good, entry>>

(* setBuildCommandsRunAt: a dial of the API with a 3 s timeout and one    *)
(* BuildCommandsRun call; a dial or call error is only logged, so the     *)
(* backend may never learn of the build.                                   *)
BuildRecordOutcomes == {"built", "builtUnrecorded"}

WarmOutcomes(r) == [r.todo -> BuildRecordOutcomes \cup {"failed", "gone"}]

WarmDone(r) ==
  /\ r \in warms
  /\ r.pc = "running"
  /\ \E o \in WarmOutcomes(r) : WarmEffect(r, o)

(* splitTestFiles returns.  An error returns from runTestTheTests at once, *)
(* without waiting for the warm-up goroutine, which runs on.               *)
SplitReturned(ok) ==
  /\ stage = "splitting"
  /\ IF ok THEN /\ stage' = "await"
                /\ UNCHANGED <<retryCount, noWorkerRetry>>
           ELSE AttemptReturns(FALSE, TRUE)
  /\ UNCHANGED <<registered, builtWith, stored, buildAt, version, runTests,
                 good, entry, warms>>

(* warmingWaitGroup.Wait(); a warm-up error fails the attempt.            *)
AwaitWarm ==
  /\ stage = "await"
  /\ \E r \in warms :
       /\ r.id = AttemptId
       /\ r.pc = "done"
       /\ IF r.err THEN AttemptReturns(FALSE, TRUE)
                   ELSE /\ stage' = "execute"
                        /\ UNCHANGED <<retryCount, noWorkerRetry>>
  /\ UNCHANGED <<registered, builtWith, stored, buildAt, version, runTests,
                 good, entry, warms>>

(* The execution stage (RunExecution), as far as builds go: each worker's *)
(* session prepends the build commands when the run's record of it has no *)
(* BuildCommandsRunAt, and setBuildCommandsRunAt records a successful     *)
(* build (best effort).  The attempt then returns (false, nil or err).    *)
Execute ==
  /\ stage = "execute"
  /\ LET unbuilt == {w \in Members(good) : ~entry[w]} IN
     \E o \in [unbuilt -> BuildRecordOutcomes], failed \in BOOLEAN :
       /\ builtWith' = [w \in Workers |->
                          IF w \in unbuilt THEN version ELSE builtWith[w]]
       /\ buildAt' = [w \in Workers |->
                        IF w \in unbuilt /\ o[w] = "built" THEN TRUE
                        ELSE buildAt[w]]
       /\ AttemptReturns(FALSE, failed)
  /\ UNCHANGED <<registered, stored, version, runTests, good, entry, warms>>

-----------------------------------------------------------------------------
(* Properties                                                              *)

(* Every worker the execution stage runs tests on is built from the       *)
(* watched files of this run: either its session runs the build commands  *)
(* (its record has no BuildCommandsRunAt) or its last build used them     *)
(* (spec 4.4: stale workers are removed before commands are sent).        *)
FreshWorkersOnly ==
  stage = "execute" =>
     \A w \in Members(good) : ~entry[w] \/ builtWith[w] = version

=============================================================================
