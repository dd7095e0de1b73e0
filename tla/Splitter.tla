------------------------------ MODULE Splitter -------------------------------
(***************************************************************************)
(* The split stage of runTestTheTests over successive runs of one          *)
(* supervisor process (src/core/super/main.go splitTestFiles and the       *)
(* functions it calls; src/backend/shared/testSplitter.go).                *)
(*                                                                         *)
(* Each run asks for a split over the good workers it has.  The Rspec     *)
(* split is memoised in package variables (mFiles, mPretestInfo,           *)
(* lastListTestCommand) across runs.  Listing the tests is a session on   *)
(* the first worker, whose frames the split reads from editedStream.       *)
(* The suite is fixed: every listing names the files of Files, in an      *)
(* order and with repetitions (one entry per example) that vary.           *)
(***************************************************************************)
EXTENDS Naturals, Sequences, SequencesExt, FiniteSets

CONSTANTS
  Files,          \* the test files of the suite
  WorkerCounts,   \* the len(goodWorkers) a run may split for
  MaxListLen,     \* longest listing (one entry per example) the command prints
  MaxRuns,        \* runs of the supervisor process explored
  Frameworks,     \* config.Framework, "auto" for AutomaticSplitting
  ListCommands,   \* config.ListTestCommand values
  SkipRecalc,     \* values config.SkipRecalcFiles may take
  ListOutcomes    \* how the list session ends, seen from editedStream

AllFrameworks == {"rspec", "jest", "auto", "raw", "python"}

(* "ok": a FINISHED frame, exit code 0, with JSON results; "nonzero": a   *)
(* FINISHED frame with another exit code; "unreadable": JSON that does    *)
(* not parse; "failed": a FAILED frame (command failed, or the dial did). *)
(* The rest end connectToServer with no frame the loop returns on:        *)
(* "emptyJson" (FINISHED, exit 0, no JSON), "timer" (COMMAND_TIMEOUT),    *)
(* "streamError", "eof" and "cancelled" (the Recv results).               *)
AllListOutcomes == {"ok", "nonzero", "unreadable", "failed",
                    "emptyJson", "timer", "streamError", "eof", "cancelled"}

ErrorOutcomes == {"nonzero", "unreadable", "failed"}

(* The Recv endings return allExecutionInfo as collected so far, which is *)
(* empty unless a build command, a stderr frame or a terminal frame       *)
(* carried an ExecutionInfo; the timer appends one of its own.            *)
NoInfoOutcomes == {"streamError", "eof", "cancelled"}

ASSUME /\ Frameworks \subseteq AllFrameworks
       /\ ListOutcomes \subseteq AllListOutcomes
       /\ SkipRecalc \subseteq BOOLEAN
       /\ WorkerCounts \subseteq Nat \ {0}
       /\ MaxListLen >= Cardinality(Files)

VARIABLES
  memo,        \* mFiles (valid = mFiles != nil) and mPretestInfo's listing
  lastCmd,     \* lastListTestCommand
  phase,       \* where the split of the current run is
  n,           \* numServers = len(goodWorkers) of the current run
  fw,          \* config.Framework of the current run
  listed,      \* the listing the current split is based on
  myFiles,     \* the buckets splitTestFiles returns
  total,       \* the totalTestCount it returns
  runs         \* runs started

vars == <<memo, lastCmd, phase, n, fw, listed, myFiles, total, runs>>

Phases == {"idle", "listing", "split", "error", "hung", "crashed"}

NoMemo == [valid |-> FALSE, buckets |-> <<>>, listing |-> <<>>]

TypeOK ==
  /\ memo \in [valid : BOOLEAN, buckets : Seq(Seq(Files)),
               listing : Seq(Files)]
  /\ lastCmd \in ListCommands \cup {"none"}
  /\ phase \in Phases
  /\ n \in WorkerCounts \cup {0}
  /\ fw \in Frameworks \cup {"none"}
  /\ listed \in Seq(Files)
  /\ myFiles \in Seq(Seq(Files))
  /\ total \in 0..MaxListLen
  /\ runs \in 0..MaxRuns

-----------------------------------------------------------------------------
(* The algorithms, as operators                                            *)

(* The inner loop of the round-robin splits: files j, j+k, j+2k, ...       *)
RECURSIVE BucketFrom(_, _, _)
BucketFrom(files, j, k) ==
  IF j > Len(files) THEN <<>> ELSE <<files[j]>> \o BucketFrom(files, j + k, k)

(* Variant of RoundRobin whose loops start one file late, as a 1-based    *)
(* port of the 0-based `j := i` would.                                     *)
RoundRobinOffByOne(files, k) == [i \in 1..k |-> BucketFrom(files, i + 1, k)]

(* result := make([][]string, num_buckets), bucket i holding the files    *)
(* whose index is i modulo num_buckets.                                    *)
RoundRobin(files, k) == [i \in 1..k |-> BucketFrom(files, i, k)]

(* RemoveDuplicatesFromSlice: the keys of a map, in Go's unspecified      *)
(* iteration order, so any ordering of the distinct entries.              *)
RemoveDuplicates(s) == SetToSeqs(ToSet(s))

(* SplitForJest and splitForRaw: the listing is a JSON array of paths,     *)
(* returned without duplicates (SplitForRSpec does the same with the       *)
(* examples' file paths).  A parse error is one of ErrorOutcomes.          *)
SplitForJest(l) == RemoveDuplicates(l)

SplitForRaw(l) == RemoveDuplicates(l)

(* The parser each GetAllFiles*Remote applies to the FINISHED frame.       *)
ParseListing(l) ==
  CASE fw = "rspec" -> RemoveDuplicates(l)
    [] fw = "raw"   -> SplitForRaw(l)
    [] OTHER        -> SplitForJest(l)

(* The listings the suite can print: every file, in any order, some files *)
(* several times (one entry per example).                                  *)
Listings == {s \in BoundedSeq(Files, MaxListLen) : ToSet(s) = Files}

-----------------------------------------------------------------------------
Init ==
  /\ memo = NoMemo
  /\ lastCmd = "none"
  /\ phase = "idle"
  /\ n = 0
  /\ fw = "none"
  /\ listed = <<>>
  /\ myFiles = <<>>
  /\ total = 0
  /\ runs = 0

(* SplitFilesByRspec's memo: mFiles is returned when it is set, the split *)
(* is not forced and the list command is the one it was computed for.     *)
MemoHit(f, skip, cmd) == f = "rspec" /\ memo.valid /\ skip /\ cmd = lastCmd

(* runTestTheTests calls splitTestFiles with len(goodWorkers) and         *)
(* reCalc = !SkipRecalcFiles.  Rspec first consults the memo: it is       *)
(* returned when set, not forced and for the same list command; otherwise *)
(* it is cleared and the command recorded.  Python splits nothing.  The   *)
(* others start the list session.                                         *)
SplitFor(k) ==
  /\ phase \in {"idle", "split", "error"}
  /\ runs < MaxRuns
  /\ runs' = runs + 1
  /\ \E f \in Frameworks, cmd \in ListCommands, skip \in SkipRecalc :
       /\ n' = k
       /\ fw' = f
       /\ CASE MemoHit(f, skip, cmd) ->
                 /\ myFiles' = memo.buckets
                 /\ listed' = memo.listing
                 /\ total' = Len(memo.listing)
                 /\ phase' = "split"
                 /\ UNCHANGED <<memo, lastCmd>>
            [] f = "rspec" ->
                 /\ memo' = NoMemo
                 /\ lastCmd' = cmd
                 /\ phase' = "listing"
                 /\ listed' = <<>>
                 /\ UNCHANGED <<myFiles, total>>
            [] f = "python" ->
                 /\ myFiles' = <<>> /\ total' = 0 /\ listed' = <<>>
                 /\ phase' = "split"
                 /\ UNCHANGED <<memo, lastCmd>>
            [] OTHER ->
                 /\ phase' = "listing"
                 /\ listed' = <<>>
                 /\ UNCHANGED <<memo, lastCmd, myFiles, total>>

(* runTestTheTests calls the split with len(goodWorkers) workers.          *)
StartSplit == \E k \in WorkerCounts : SplitFor(k)

(* The splits that follow a listing l whose distinct files, in map order, *)
(* are files.  Rspec memoises its result and reports the example count.   *)
SplitFilesByRspec(l, files) ==
  LET r == RoundRobin(files, n) IN
  /\ fw = "rspec"
  /\ myFiles' = r
  /\ total' = Len(l)
  /\ memo' = [valid |-> TRUE, buckets |-> r, listing |-> l]
  /\ phase' = "split"

(* Raw reports len(result), the number of buckets, as the test count.     *)
SplitFilesByRaw(l, files) ==
  LET r == RoundRobin(files, n) IN
  /\ fw = "raw"
  /\ myFiles' = r
  /\ total' = Len(r)
  /\ phase' = "split"
  /\ UNCHANGED memo

(* Variant of SplitFilesByJest that adds to the previous run's count      *)
(* instead of starting from zero.                                          *)
SplitFilesByJestAccumulates(l, files) ==
  /\ fw = "jest"
  /\ myFiles' = RoundRobin(files, n)
  /\ total' = total + Len(files)
  /\ phase' = "split"
  /\ UNCHANGED memo

(* The default splitter without AutomaticSplitting: len(files) as count. *)
SplitFilesByJest(l, files) ==
  /\ fw = "jest"
  /\ myFiles' = RoundRobin(files, n)
  /\ total' = Len(files)
  /\ phase' = "split"
  /\ UNCHANGED memo

(* AutomaticSplitting: SplitTests clamps the bucket count to the number   *)
(* of files and asks the splitting service, whose answer is any           *)
(* assignment of the files to that many buckets; dialling it or the call  *)
(* (retried up to 5 times) may fail, which fails the split.                *)
SplitTests(l, files) ==
  LET m == IF n > Len(files) THEN Len(files) ELSE n IN
  /\ fw = "auto"
  /\ total' = Len(files)
  /\ \/ /\ \E a \in [ToSet(files) -> 1..m] :
             myFiles' = [i \in 1..m |-> SelectSeq(files, LAMBDA f : a[f] = i)]
        /\ phase' = "split"
     \/ /\ phase' = "error"
        /\ UNCHANGED myFiles
  /\ UNCHANGED memo

(* GetAllFiles*Remote receive a FINISHED frame with exit code 0 and JSON; *)
(* SplitForRSpec / SplitForJest / splitForRaw parse it and remove the     *)
(* duplicates, and splitTestFiles splits the result.                      *)
ListFinished ==
  /\ phase = "listing"
  /\ "ok" \in ListOutcomes
  /\ \E l \in Listings : \E files \in ParseListing(l) :
       /\ listed' = l
       /\ \/ SplitFilesByRspec(l, files)
          \/ SplitFilesByRaw(l, files)
          \/ SplitFilesByJest(l, files)
          \/ SplitTests(l, files)
  /\ UNCHANGED <<lastCmd, n, fw, runs>>

(* The loop returns an error: FINISHED with a nonzero exit code, JSON     *)
(* that does not parse, or a FAILED frame.  Rspec leaves the memo         *)
(* cleared.                                                                *)
ListFailed ==
  /\ phase = "listing"
  /\ ListOutcomes \cap ErrorOutcomes # {}
  /\ phase' = "error"
  /\ UNCHANGED <<memo, lastCmd, n, fw, listed, myFiles, total, runs>>

(* connectToServer ends without a frame the loop returns on.  editedStream *)
(* is never closed, so the range waits for ever; the Rspec and Raw        *)
(* goroutines then index executionInfos[len-1], which panics the process  *)
(* when the session collected no ExecutionInfo.                            *)
ListNoAnswer ==
  /\ phase = "listing"
  /\ \E o \in ListOutcomes \ ({"ok"} \cup ErrorOutcomes),
        infoSeen \in BOOLEAN :
       phase' = IF o \in NoInfoOutcomes /\ ~infoSeen /\ fw \in {"rspec", "raw"}
                THEN "crashed" ELSE "hung"
  /\ UNCHANGED <<memo, lastCmd, n, fw, listed, myFiles, total, runs>>

Next == StartSplit \/ ListFinished \/ ListFailed \/ ListNoAnswer

(* The list session always ends (connectToServer is bounded by            *)
(* COMMAND_TIMEOUT); the next run is up to the clients.                    *)
Spec == Init /\ [][Next]_vars
             /\ WF_vars(ListFinished \/ ListFailed \/ ListNoAnswer)

-----------------------------------------------------------------------------
(* Properties                                                              *)

(* How many times file f is run by the first k workers: worker i runs     *)
(* bucket i when there is one (the len(myFiles) > i check of the worker   *)
(* goroutines); buckets beyond the workers are never run.                  *)
TimesRun(f, buckets, k) ==
  Cardinality({<<i, j>> \in (1..k) \X (1..MaxListLen) :
                 i <= Len(buckets) /\ j <= Len(buckets[i]) /\ buckets[i][j] = f})

(* Every file of the suite is run exactly once by the workers of the run, *)
(* whichever split produced the buckets, the Rspec memo included (spec    *)
(* 4.5: N buckets for N live workers whose union is the suite).           *)
EveryFileOnce ==
  (phase = "split" /\ fw # "python") =>
     \A f \in Files : TimesRun(f, myFiles, n) = 1

(* A split that lists the tests always comes back, with the buckets or an *)
(* error, so that runTestTheTests can go on to execute or fail: the list  *)
(* loop neither waits for ever nor has the process panic under it.        *)
ListingReturns == (phase = "listing") ~> (phase \in {"split", "error"})

=============================================================================
