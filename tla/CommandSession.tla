--------------------------- MODULE CommandSession ---------------------------
(***************************************************************************)
(* One command session between the supervisor and one worker:             *)
(*  - connectToServer and readToChannel (src/core/super/main.go): dial,    *)
(*    send the commands one at a time, wait for each terminal frame, and   *)
(*    return the ExecutionInfos and an error;                              *)
(*  - RunCommands, readCommands and executeCommandStream                   *)
(*    (src/core/server/main.go): the worker's handler, the goroutine that *)
(*    receives commands into commandChan, and the goroutine that runs     *)
(*    them and streams the frames.                                         *)
(* The two directions of the gRPC stream are FIFO sequences.  Only the    *)
(* frames that carry control are kept (FINISHED, FAILED and the end of the *)
(* stream); output lines carry none.  A frame sent after the worker's     *)
(* handler returned is lost.                                               *)
(* The worker admits one session at a time (runCommandsGate); another     *)
(* session of the same worker, such as a warm-up build still running, may *)
(* hold the gate when this one arrives.                                    *)
(***************************************************************************)
EXTENDS Naturals, Integers, Sequences

CONSTANTS
  BuildCmds,      \* Background flag of each build command, in order
  Frameworks,     \* the config frameworks the test command may have
  CancelPossible, \* the run context may be cancelled during the session
  OtherSession,   \* another session may hold the worker's gate
  MaxDialFailures,\* failed DialContext attempts before the worker accepts
  CancelDuringDial\* the run context may be cancelled while dialling

(* cleanConfig: the CLI normalises the config's framework to one of      *)
(* these and exits on any other, so the worker never sees another one.    *)
KnownFrameworks == {"Jest", "Rspec", "Cypress", "Rails", "Raw", "Python"}

ASSUME BuildCmds \in Seq(BOOLEAN) /\ Frameworks \subseteq KnownFrameworks
       /\ CancelPossible \in BOOLEAN /\ OtherSession \in BOOLEAN
       /\ MaxDialFailures \in Nat /\ CancelDuringDial \in BOOLEAN

(* setCommand: a Jest or Rspec test run gets an output file (--outputFile *)
(* or -o) that executeCommandStream reads after the command; a NoTestFiles *)
(* run, the other frameworks and non-test commands get none.  Its error    *)
(* for an unknown framework is unreachable (cleanConfig).                  *)
WritesResultsFile(fw, noTestFiles) == ~noTestFiles /\ fw \in {"Jest", "Rspec"}

None == "None"
EOF  == 0            \* CloseSend on the command stream
NilCommand == 0      \* the nil *api.Command readCommands queues after an error

(* A command is its Background flag and whether it is the test command.   *)
TestCmd == [bg |-> FALSE, test |-> TRUE]
BuildCmd(b) == [bg |-> b, test |-> FALSE]

Frame == [ctl : {"finished", "failed"}, seq : Nat, code : Int]
         \cup [ctl : {"eof", "error"}]

VARIABLES
  requests,     \* the commands connectToServer sends
  built,        \* worker.BuildCommandsRunAt # nil
  readsResults, \* the test command writes a results file (setCommand)
  sPc,          \* connectToServer: "dial", "send", "recv", "closing",
                \* "returned"
  i,            \* index of the command being sent or awaited
  exitCode,     \* connectToServer's exitCode: code of the last frame read
  infos,        \* allExecutionInfo: [cmd awaited, seq of frame, code]
  ret,          \* how connectToServer returned
  flagSet,      \* setBuildCommandsRunAt was started
  closeSent,    \* r.CloseSend was called
  toWorker,     \* commands in flight to the worker (EOF = CloseSend)
  toSuper,      \* frames in flight to the supervisor
  hPc,          \* RunCommands handler: "idle", "gate", "gateWait", "admit",
                \* "serving", "returned"
  rPc,          \* readCommands: "none", "reading", "eof", "recvErr", "exited"
  ePc,          \* executeCommandStream: "none", "wait", "running",
                \* "sendErr", "finish", "exited"
  eCmd,         \* the command executeCommandStream is running
  commandChan,  \* make(chan *api.Command, 1000)
  errChan,      \* make(chan error, 1): "nil" or "err"
  finishChan,   \* make(chan bool, 1) holds a value
  wCtxDone,     \* the handler's context is done
  cancelled,    \* the run context of the supervisor is cancelled
  deadline,     \* the handler's RUNNER_COMMAND_TIMEOUT deadline passed
  otherPc,      \* the other session: "none", "holding" the gate, "released"
  outPc,        \* stdout goroutine of the foreground command: "none",
                \* "scanning", "sendErr", "done"
  errPc,        \* scanStdErr of the foreground command: "none", "scanning",
                \* "done"
  dials         \* failed DialContext attempts so far

supVars == <<sPc, i, exitCode, infos, ret, flagSet, closeSent>>
outVars == <<outPc, errPc>>
wrkVars == <<hPc, rPc, ePc, eCmd, commandChan, errChan, finishChan, outVars>>
vars == <<requests, built, readsResults, supVars, toWorker, toSuper, wrkVars,
          wCtxDone, cancelled, deadline, otherPc, dials>>

Returns == {None, "finished", "failedFrame", "sendFailed",
            "eof", "error", "cancelled", "timeout"}

TypeOK ==
  /\ requests \in Seq([bg : BOOLEAN, test : BOOLEAN])
  /\ built \in BOOLEAN /\ readsResults \in BOOLEAN
  /\ sPc \in {"dial", "send", "recv", "closing", "returned"}
  /\ i \in 1..Len(requests)
  /\ exitCode \in {-2, -1, 0, 1, 255}
  /\ infos \in Seq([cmd : Nat, seq : Nat, code : Int])
  /\ ret \in Returns
  /\ flagSet \in BOOLEAN /\ closeSent \in BOOLEAN
  /\ toWorker \in Seq(0..Len(requests))
  /\ toSuper \in Seq(Frame)
  /\ hPc \in {"idle", "gate", "gateWait", "admit", "serving", "returned",
             "crashed"}
  /\ rPc \in {"none", "reading", "eof", "recvErr", "exited"}
  /\ ePc \in {"none", "wait", "running", "sendErr", "finish", "exited"}
  /\ eCmd \in 0..Len(requests)
  /\ commandChan \in Seq(0..Len(requests))
  /\ errChan \in Seq({"nil", "err"}) /\ Len(errChan) <= 1
  /\ finishChan \in BOOLEAN
  /\ wCtxDone \in BOOLEAN /\ cancelled \in BOOLEAN /\ deadline \in BOOLEAN
  /\ otherPc \in {"none", "holding", "released"}
  /\ dials \in 0..MaxDialFailures
  /\ outPc \in {"none", "scanning", "sendErr", "done"}
  /\ errPc \in {"none", "scanning", "done"}

(* requests = append(buildCommands, test) when BuildCommandsRunAt is nil. *)
Init ==
  /\ built \in BOOLEAN
  /\ readsResults \in {WritesResultsFile(fw, ntf) : fw \in Frameworks,
                                                  ntf \in BOOLEAN}
  /\ requests = IF built THEN <<TestCmd>>
                ELSE [k \in 1..Len(BuildCmds) |-> BuildCmd(BuildCmds[k])]
                     \o <<TestCmd>>
  /\ sPc = "dial" /\ i = 1 /\ exitCode = -1 /\ infos = <<>>
  /\ ret = None /\ flagSet = FALSE /\ closeSent = FALSE
  /\ toWorker = <<>> /\ toSuper = <<>>
  /\ hPc = "idle" /\ rPc = "none" /\ ePc = "none" /\ eCmd = 0
  /\ commandChan = <<>> /\ errChan = <<>> /\ finishChan = FALSE
  /\ wCtxDone = FALSE /\ cancelled = FALSE /\ deadline = FALSE
  /\ otherPc \in IF OtherSession THEN {"none", "holding"} ELSE {"none"}
  /\ dials = 0
  /\ outPc = "none" /\ errPc = "none"

-----------------------------------------------------------------------------
(* connectToServer                                                         *)

(* Returning runs the deferred r.CloseSend (io.EOF for the worker's Recv) *)
(* and then conn.Close (CloseConn).                                        *)
Return(how) ==
  /\ ret' = how
  /\ sPc' = "closing"
  /\ closeSent' = TRUE
  /\ toWorker' = IF closeSent THEN toWorker ELSE Append(toWorker, EOF)

(* The dial loop: DialContext with grpc.WithBlock and a 20 s timeout.  A  *)
(* failure raises connectCount along with i, so the loop ends only when a *)
(* dial succeeds, and the FAILED frame and ExitCode 50 return after it    *)
(* are never reached.  Success opens the RunCommands stream, which starts *)
(* the worker's handler.  Once the run context is cancelled every dial    *)
(* fails at once, and the loop spins for ever: no step of the model.      *)
Dial ==
  /\ sPc = "dial"
  /\ ~cancelled
  /\ \/ sPc' = "send" /\ hPc' = "gate" /\ UNCHANGED dials
     \/ dials < MaxDialFailures /\ dials' = dials + 1 /\ UNCHANGED <<sPc, hPc>>
  /\ UNCHANGED <<requests, built, readsResults, i, exitCode, infos, ret, flagSet,
                 closeSent, toWorker, toSuper, rPc, ePc, eCmd, commandChan,
                 errChan, finishChan, wCtxDone, cancelled, deadline, otherPc,
                 outVars>>

(* Variant of SendCommand that, as for fire-and-forget commands, moves on  *)
(* to the next command right after sending a background one.               *)
SendCommandNoWaitBackground ==
  /\ sPc = "send"
  /\ flagSet' = (flagSet \/ (exitCode = 0 /\ ~built /\ requests[i].test))
  /\ toWorker' = Append(toWorker, i)
  /\ IF requests[i].bg /\ i < Len(requests)
       THEN i' = i + 1 /\ UNCHANGED sPc
       ELSE sPc' = "recv" /\ UNCHANGED i
  /\ UNCHANGED <<requests, built, readsResults, exitCode, infos, ret,
                 closeSent, toSuper, wrkVars, wCtxDone, cancelled, deadline, otherPc, dials>>

(* Top of the command loop: start setBuildCommandsRunAt when the previous *)
(* frame read had exit code 0 and this is the test command of a worker    *)
(* that was not built, then r.Send the command.  A Send on a stream the   *)
(* worker has ended may fail (ExitCode 12) or be accepted and lost.       *)
SendCommand ==
  /\ sPc = "send"
  /\ flagSet' = (flagSet \/ (exitCode = 0 /\ ~built /\ requests[i].test))
  /\ \/ /\ toWorker' = Append(toWorker, i)
        /\ sPc' = "recv"
        /\ UNCHANGED <<ret, closeSent>>
     \/ /\ hPc = "returned"
        /\ Return("sendFailed")
  /\ UNCHANGED <<requests, built, readsResults, i, exitCode, infos, toSuper,
                 wrkVars, wCtxDone, cancelled, deadline, otherPc, dials>>

(* Variant of RecvFrame that treats every stream error like               *)
(* codes.Canceled and returns nil.                                         *)
RecvFrameErrorAsCancelled ==
  /\ sPc = "recv"
  /\ toSuper # <<>>
  /\ LET f == Head(toSuper) IN
       \/ /\ f.ctl = "finished"
          /\ infos' = Append(infos, [cmd |-> i, seq |-> f.seq, code |-> f.code])
          /\ exitCode' = f.code
          /\ IF i = Len(requests)
               THEN Return("finished") /\ UNCHANGED i
               ELSE /\ i' = i + 1 /\ sPc' = "send"
                    /\ UNCHANGED <<ret, closeSent, toWorker>>
       \/ /\ f.ctl = "failed"
          /\ exitCode' = f.code
          /\ Return("failedFrame")
          /\ UNCHANGED <<i, infos>>
       \/ /\ f.ctl \in {"eof", "error"}
          /\ Return(IF f.ctl = "eof" THEN "eof" ELSE "cancelled")
          /\ UNCHANGED <<i, exitCode, infos>>
  /\ toSuper' = Tail(toSuper)
  /\ UNCHANGED <<requests, built, readsResults, flagSet, wrkVars, wCtxDone,
                 cancelled, deadline, otherPc, dials>>

(* A frame from responseChannel.  A FINISHED frame ends the wait for the  *)
(* command and sets the last ExecutionInfo's ExitCode; a FAILED frame     *)
(* returns an error; io.EOF returns nil; any other stream error returns   *)
(* it.                                                                     *)
RecvFrame ==
  /\ sPc = "recv"
  /\ toSuper # <<>>
  /\ LET f == Head(toSuper) IN
       \/ /\ f.ctl = "finished"
          /\ infos' = Append(infos, [cmd |-> i, seq |-> f.seq, code |-> f.code])
          /\ exitCode' = f.code
          /\ IF i = Len(requests)
               THEN Return("finished") /\ UNCHANGED i
               ELSE /\ i' = i + 1 /\ sPc' = "send"
                    /\ UNCHANGED <<ret, closeSent, toWorker>>
       \/ /\ f.ctl = "failed"
          /\ exitCode' = f.code
          /\ Return("failedFrame")
          /\ UNCHANGED <<i, infos>>
       \/ /\ f.ctl = "eof"
          /\ Return("eof")
          /\ UNCHANGED <<i, exitCode, infos>>
       \/ /\ f.ctl = "error"
          /\ exitCode' = -2
          /\ Return("error")
          /\ UNCHANGED <<i, infos>>
  /\ toSuper' = Tail(toSuper)
  /\ UNCHANGED <<requests, built, readsResults, flagSet, wrkVars, wCtxDone,
                 cancelled, deadline, otherPc, dials>>

(* Once the run context is cancelled, Recv may report codes.Canceled      *)
(* before the frames still buffered: connectToServer returns nil.          *)
RecvCancelled ==
  /\ sPc = "recv"
  /\ cancelled
  /\ Return("cancelled")
  /\ UNCHANGED <<requests, built, readsResults, i, exitCode, infos, flagSet,
                 toSuper, wrkVars, wCtxDone, cancelled, deadline, otherPc, dials>>

(* case <-ctx.Done(): r.CloseSend(), and the loop goes on waiting.         *)
CloseOnCancel ==
  /\ sPc = "recv"
  /\ cancelled
  /\ ~closeSent
  /\ closeSent' = TRUE
  /\ toWorker' = Append(toWorker, EOF)
  /\ UNCHANGED <<requests, built, readsResults, sPc, i, exitCode, infos, ret,
                 flagSet, toSuper, wrkVars, wCtxDone, cancelled, deadline, otherPc, dials>>

(* time.After(COMMAND_TIMEOUT), restarted on every frame.  It is longer   *)
(* than the worker's RUNNER_COMMAND_TIMEOUT, which started earlier, so it *)
(* can only fire once that deadline has passed and no frame is waiting.   *)
CommandTimeout ==
  /\ sPc = "recv"
  /\ deadline
  /\ toSuper = <<>>
  /\ Return("timeout")
  /\ UNCHANGED <<requests, built, readsResults, i, exitCode, infos, flagSet,
                 toSuper, wrkVars, wCtxDone, cancelled, deadline, otherPc, dials>>

(* The deferred conn.Close: the worker's stream context ends.              *)
CloseConn ==
  /\ sPc = "closing"
  /\ sPc' = "returned"
  /\ wCtxDone' = TRUE
  /\ UNCHANGED <<requests, built, readsResults, i, exitCode, infos, ret,
                 flagSet, closeSent, toWorker, toSuper, wrkVars, cancelled,
                 deadline, otherPc, dials>>

-----------------------------------------------------------------------------
(* The worker: RunCommands, readCommands, executeCommandStream            *)

(* stream.Send from the worker: lost once the handler has returned.       *)
Emit(f) == toSuper' = IF hPc = "serving" THEN Append(toSuper, f) ELSE toSuper

(* The first check of runCommandsGate.locked, made without the mutex.  It *)
(* races with the other session's writes, so while that session has      *)
(* touched the flag either value may be read.  Seen set, the handler      *)
(* returns "concurrent access to worker"; otherwise it goes on to         *)
(* runCommandsGate.mutex.Lock().                                           *)
GatePreCheck ==
  /\ hPc = "gate"
  /\ \E seen \in IF otherPc = "none" THEN {FALSE} ELSE BOOLEAN :
       IF seen
         THEN hPc' = "returned" /\ toSuper' = Append(toSuper, [ctl |-> "error"])
         ELSE hPc' = "gateWait" /\ UNCHANGED toSuper
  /\ UNCHANGED <<requests, built, readsResults, supVars, toWorker, rPc, ePc,
                 eCmd, commandChan, errChan, finishChan, wCtxDone, cancelled,
                 deadline, otherPc, dials,
                 outVars>>

(* mutex.Lock() returns once the other session has released it; the      *)
(* second check of locked cannot fail, since the other session clears it  *)
(* (deferred last) before it unlocks (deferred first), and locked = true. *)
(* Lock does not watch the context: the deadline may pass while waiting.  *)
GateAcquire ==
  /\ hPc = "gateWait"
  /\ otherPc # "holding"
  /\ hPc' = "admit"
  /\ UNCHANGED <<requests, built, readsResults, supVars, toWorker, toSuper,
                 rPc, ePc, eCmd, commandChan, errChan, finishChan, wCtxDone,
                 cancelled, deadline, otherPc, dials,
                 outVars>>

(* The other session's RunCommands returns: its deferred functions clear  *)
(* locked and unlock the mutex.                                            *)
OtherReleases ==
  /\ otherPc = "holding"
  /\ otherPc' = "released"
  /\ UNCHANGED <<requests, built, readsResults, supVars, toWorker, toSuper,
                 wrkVars, wCtxDone, cancelled, deadline, dials>>

(* GetIntendedAllocIdFrom: the worker_alloc_id that connectToServer put  *)
(* in the outgoing metadata (AddIntendedAllocIdTo, super/main.go 1421):   *)
(* the Uid the supervisor holds for the worker.  Whether it names this    *)
(* allocation (NOMAD_ALLOC_ID) or an earlier one at the same address is   *)
(* the choice "intended".                                                  *)
GetIntendedAllocIdFrom(intended) == IF intended THEN "thisAlloc" ELSE "otherAlloc"

(* CheckIntendedAllocID: nil in DEV mode, otherwise an error unless the   *)
(* alloc id in the metadata is this allocation's.                         *)
CheckIntendedAllocID(isDev, intended) ==
  IF isDev \/ GetIntendedAllocIdFrom(intended) = "thisAlloc" THEN "ok" ELSE "error"

(* The handler's admission checks.  CheckIntendedAllocID comes first, and *)
(* its error is returned through the deferred gate release.               *)
(* CheckGlobalProjectToken reads the worker's globalProjectToken, which   *)
(* nothing assigns, and passes.  On success the handler starts            *)
(* executeCommandStream and readCommands and selects.  A session is one   *)
(* call, so the deployment (DEV or not) and the alloc id are chosen here. *)
Admit ==
  /\ hPc = "admit"
  /\ \E isDev, intended \in BOOLEAN :
       IF CheckIntendedAllocID(isDev, intended) = "ok"
       THEN /\ hPc' = "serving" /\ rPc' = "reading" /\ ePc' = "wait"
            /\ UNCHANGED toSuper
       ELSE /\ hPc' = "returned" /\ toSuper' = Append(toSuper, [ctl |-> "error"])
            /\ UNCHANGED <<rPc, ePc>>
  /\ UNCHANGED <<requests, built, readsResults, supVars, toWorker,
                 eCmd, commandChan, errChan, finishChan, wCtxDone, cancelled,
                 deadline, otherPc, dials,
                 outVars>>

(* readCommands: stream.Recv.  A done context ends the goroutine; io.EOF  *)
(* is reported as errChan <- nil; a command goes to commandChan.  Recv    *)
(* may also fail while the stream context is live (a command over the     *)
(* server's 4 MB receive limit, or a transport error seen before gRPC     *)
(* cancels the context).                                                   *)
ReadCommand ==
  /\ rPc = "reading"
  /\ \/ /\ wCtxDone
        /\ rPc' = "exited"
        /\ UNCHANGED <<toWorker, commandChan,
                 outVars>>
     \/ /\ ~wCtxDone
        /\ rPc' = "recvErr"
        /\ UNCHANGED <<toWorker, commandChan, outVars>>
     \/ /\ ~wCtxDone
        /\ toWorker # <<>>
        /\ toWorker' = Tail(toWorker)
        /\ IF Head(toWorker) = EOF
             THEN rPc' = "eof" /\ UNCHANGED commandChan
             ELSE commandChan' = Append(commandChan, Head(toWorker))
                  /\ UNCHANGED rPc
  /\ UNCHANGED <<requests, built, readsResults, supVars, toSuper, hPc, ePc,
                 eCmd, errChan, finishChan, wCtxDone, cancelled, deadline, otherPc, dials,
                 outVars>>

(* errChan <- nil after io.EOF; blocks while errChan is full.              *)
ReadEOF ==
  /\ rPc = "eof"
  /\ Len(errChan) < 1
  /\ errChan' = Append(errChan, "nil")
  /\ rPc' = "exited"
  /\ UNCHANGED <<requests, built, readsResults, supVars, toWorker, toSuper,
                 hPc, ePc, eCmd, commandChan, finishChan, wCtxDone, cancelled,
                 deadline, otherPc, dials,
                 outVars>>

(* After a Recv error: errChan <- err (blocking while errChan is full),   *)
(* then commandChan <- in, which is nil, and close(commandChan).  The nil *)
(* is the last value executeCommandStream can receive, so the close is    *)
(* left out.                                                               *)
ReadErr ==
  /\ rPc = "recvErr"
  /\ Len(errChan) < 1
  /\ errChan' = Append(errChan, "err")
  /\ commandChan' = Append(commandChan, NilCommand)
  /\ rPc' = "exited"
  /\ UNCHANGED <<requests, built, readsResults, supVars, toWorker, toSuper,
                 hPc, ePc, eCmd, finishChan, wCtxDone, cancelled,
                 deadline, otherPc, dials,
                 outVars>>

(* getRebuildHash: ReadRebuildHash of the worker's hash file, whose error *)
(* is returned.                                                            *)
GetRebuildHash == {"ok", "failed"}

(* TermStart: c.Start, whose error is returned; a started process gets a  *)
(* goroutine that terminates its process group once the context is done  *)
(* (CommandExits then follows).                                            *)
TermStart == {"started", "startFailed"}

(* Take the next command.  Its "Running command" frame is sent first; the *)
(* Send fails once the handler has returned, and the error goes to        *)
(* errChan.  Then TermStart: a start error sends a FAILED frame           *)
(* (ProcessState is nil: exit code -1) and then the error; a background   *)
(* command gets its FINISHED frame at once, unless getRebuildHash fails,  *)
(* which sends the error without any frame; a foreground one runs, with   *)
(* its stdout goroutine and scanStdErr reading its pipes (those of a start *)
(* error or a background command only carry output and are left out).    *)
(* A nil command panics at in.SequenceNumber; outside the handler's       *)
(* goroutine the recovery interceptor does not catch it, and the worker   *)
(* process ends (the supervisor's Recv gets a transport error unless the  *)
(* handler has already returned).                                          *)
StartCommand ==
  /\ ePc = "wait"
  /\ commandChan # <<>>
  /\ LET k == Head(commandChan) IN
       \/ /\ k = NilCommand
          /\ hPc' = IF hPc = "serving" THEN "crashed" ELSE hPc
          /\ toSuper' = IF hPc = "serving"
                          THEN Append(toSuper, [ctl |-> "error"]) ELSE toSuper
          /\ ePc' = "exited"
          /\ UNCHANGED <<eCmd, outVars>>
       \/ /\ k # NilCommand /\ hPc # "serving"
          /\ ePc' = "sendErr" /\ eCmd' = k
          /\ UNCHANGED <<hPc, toSuper, outVars>>
       \/ /\ k # NilCommand /\ hPc = "serving"
          /\ UNCHANGED hPc
          /\ \E start \in TermStart :
             \/ /\ start = "startFailed"
                /\ Emit([ctl |-> "failed", seq |-> k, code |-> -1])
                /\ ePc' = "sendErr" /\ eCmd' = k
                /\ UNCHANGED outVars
             \/ /\ start = "started" /\ requests[k].bg
                /\ \E hash \in GetRebuildHash :
                     IF hash = "ok"
                     THEN /\ Emit([ctl |-> "finished", seq |-> k, code |-> 0])
                          /\ UNCHANGED <<ePc, eCmd>>
                     ELSE /\ ePc' = "sendErr" /\ eCmd' = k
                          /\ UNCHANGED toSuper
                /\ UNCHANGED outVars
             \/ /\ start = "started" /\ ~requests[k].bg
                /\ ePc' = "running" /\ eCmd' = k
                /\ outPc' = "scanning" /\ errPc' = "scanning"
                /\ UNCHANGED toSuper
  /\ commandChan' = Tail(commandChan)
  /\ UNCHANGED <<requests, built, readsResults, supVars, toWorker, rPc,
                 errChan, finishChan, wCtxDone, cancelled, deadline, otherPc, dials>>

(* The foreground process exits (TermStart kills it when the context is   *)
(* done); wg.Wait has seen both output goroutines end.  getRebuildHash comes first: its  *)
(* error is sent without any frame.  A failure sends a FAILED frame with   *)
(* the process exit code, then the error.  Success sends FINISHED; a Jest  *)
(* or RSpec test run first reads its results file and, if that fails,     *)
(* still sends FINISHED but with Exitcode 255.  After the last command,   *)
(* finishChan <- true.                                                     *)
CommandExits ==
  /\ ePc = "running"
  /\ outPc = "done" /\ errPc = "done"
  /\ \/ /\ "failed" \in GetRebuildHash
        /\ ePc' = "sendErr"
        /\ UNCHANGED toSuper
     \/ /\ Emit([ctl |-> "failed", seq |-> eCmd, code |-> 1])
        /\ ePc' = "sendErr"
     \/ /\ \E readOk \in BOOLEAN :
             /\ (readOk \/ (requests[eCmd].test /\ readsResults))
             /\ Emit([ctl |-> "finished", seq |-> eCmd,
                      code |-> IF readOk THEN 0 ELSE 255])
        /\ ePc' = IF eCmd = Len(requests) THEN "finish" ELSE "wait"
  /\ UNCHANGED <<requests, built, readsResults, supVars, toWorker, hPc, rPc,
                 eCmd, commandChan, errChan, finishChan, wCtxDone, cancelled,
                 deadline, otherPc, dials,
                 outVars>>

(* The stdout goroutine of the foreground command: its scanner reaches    *)
(* EOF, or a line fails: stream.Send errs (the stream is gone) or the     *)
(* scanner errs (a line over its 10 MB buffer), and the error is sent on  *)
(* errChan.                                                                *)
StdoutEnds ==
  /\ outPc = "scanning"
  /\ outPc' \in {"done", "sendErr"}
  /\ UNCHANGED <<requests, built, readsResults, supVars, toWorker, toSuper,
                 hPc, rPc, ePc, eCmd, commandChan, errChan, finishChan, errPc,
                 wCtxDone, cancelled, deadline, otherPc, dials>>

(* errChan <- err, then return (wg.Done); blocks while errChan is full.    *)
StdoutSendErr ==
  /\ outPc = "sendErr"
  /\ Len(errChan) < 1
  /\ errChan' = Append(errChan, "err")
  /\ outPc' = "done"
  /\ UNCHANGED <<requests, built, readsResults, supVars, toWorker, toSuper,
                 hPc, rPc, ePc, eCmd, commandChan, finishChan, errPc,
                 wCtxDone, cancelled, deadline, otherPc, dials>>

(* scanStdErr: the scanner reaches EOF, or stream.Send of a line fails and *)
(* it returns; either way wg.Done.                                         *)
StderrEnds ==
  /\ errPc = "scanning"
  /\ errPc' = "done"
  /\ UNCHANGED <<requests, built, readsResults, supVars, toWorker, toSuper,
                 hPc, rPc, ePc, eCmd, commandChan, errChan, finishChan, outPc,
                 wCtxDone, cancelled, deadline, otherPc, dials>>

(* sendError: the stderr scanner failed (a line over 10 MB).  It sends a  *)
(* message; if that send fails it returns, otherwise it panics, and the   *)
(* panic (re-raised by bugsnag.AutoNotify) ends the worker process: every *)
(* goroutine stops and the supervisor's Recv gets a transport error.      *)
SendError ==
  /\ errPc = "scanning"
  /\ IF hPc = "serving"
       THEN /\ hPc' = "crashed"
            /\ toSuper' = Append(toSuper, [ctl |-> "error"])
            /\ rPc' = "exited" /\ ePc' = "exited"
            /\ outPc' = "done" /\ errPc' = "done"
       ELSE /\ errPc' = "done"
            /\ UNCHANGED <<toSuper, hPc, rPc, ePc, outPc>>
  /\ UNCHANGED <<requests, built, readsResults, supVars, toWorker,
                 eCmd, commandChan, errChan, finishChan,
                 wCtxDone, cancelled, deadline, otherPc, dials>>

(* Variant of ExecSendErr for an errChan made without a capacity bound.   *)
ExecSendErrUnbounded ==
  /\ ePc = "sendErr"
  /\ errChan' = Append(errChan, "err")
  /\ ePc' = "exited"
  /\ UNCHANGED <<requests, built, readsResults, supVars, toWorker, toSuper,
                 hPc, rPc, eCmd, commandChan, finishChan, wCtxDone, cancelled,
                 deadline, otherPc, dials,
                 outVars>>

(* errChan <- err, then return; blocks while errChan is full.             *)
ExecSendErr ==
  /\ ePc = "sendErr"
  /\ Len(errChan) < 1
  /\ errChan' = Append(errChan, "err")
  /\ ePc' = "exited"
  /\ UNCHANGED <<requests, built, readsResults, supVars, toWorker, toSuper,
                 hPc, rPc, eCmd, commandChan, finishChan, wCtxDone, cancelled,
                 deadline, otherPc, dials,
                 outVars>>

ExecFinish ==
  /\ ePc = "finish"
  /\ finishChan' = TRUE
  /\ ePc' = "exited"
  /\ UNCHANGED <<requests, built, readsResults, supVars, toWorker, toSuper,
                 hPc, rPc, eCmd, commandChan, errChan, wCtxDone, cancelled,
                 deadline, otherPc, dials,
                 outVars>>

(* Variant of HandlerReturns whose select has no ctx.Done case.          *)
HandlerReturnsNoCtxDone ==
  /\ hPc = "serving"
  /\ \/ /\ finishChan
        /\ toSuper' = Append(toSuper, [ctl |-> "eof"])
        /\ UNCHANGED errChan
     \/ /\ errChan # <<>>
        /\ toSuper' = Append(toSuper, [ctl |-> IF Head(errChan) = "nil"
                                               THEN "eof" ELSE "error"])
        /\ errChan' = Tail(errChan)
  /\ hPc' = "returned"
  /\ UNCHANGED <<requests, built, readsResults, supVars, toWorker, rPc, ePc,
                 eCmd, commandChan, finishChan, wCtxDone, cancelled, deadline, otherPc, dials,
                 outVars>>

(* The handler's select: finishChan returns nil, errChan returns what it  *)
(* holds (nil from readCommands' EOF, or an error), ctx.Done returns nil. *)
(* nil ends the stream with io.EOF at the supervisor.                      *)
HandlerReturns ==
  /\ hPc = "serving"
  /\ \/ /\ finishChan
        /\ toSuper' = Append(toSuper, [ctl |-> "eof"])
        /\ UNCHANGED errChan
     \/ /\ errChan # <<>>
        /\ toSuper' = Append(toSuper, [ctl |-> IF Head(errChan) = "nil"
                                               THEN "eof" ELSE "error"])
        /\ errChan' = Tail(errChan)
     \/ /\ wCtxDone
        /\ toSuper' = Append(toSuper, [ctl |-> "eof"])
        /\ UNCHANGED errChan
  /\ hPc' = "returned"
  /\ UNCHANGED <<requests, built, readsResults, supVars, toWorker, rPc, ePc,
                 eCmd, commandChan, finishChan, wCtxDone, cancelled, deadline, otherPc, dials,
                 outVars>>

-----------------------------------------------------------------------------
(* The environment                                                         *)

(* context.WithDeadline(RUNNER_COMMAND_TIMEOUT) of the handler expires;   *)
(* the deadline is set before the gate, so it runs while the handler      *)
(* waits for the mutex.                                                    *)
WorkerDeadline ==
  /\ hPc \in {"gateWait", "serving"}
  /\ ~deadline
  /\ deadline' = TRUE
  /\ wCtxDone' = TRUE
  /\ UNCHANGED <<requests, built, readsResults, supVars, toWorker, toSuper,
                 wrkVars, cancelled, otherPc, dials>>

(* The run context is cancelled (client gone, or the run returned); gRPC  *)
(* cancels the worker's stream context too.                                *)
CancelRun ==
  /\ CancelPossible
  /\ ~cancelled
  /\ sPc # "returned"
  /\ sPc = "dial" => CancelDuringDial
  /\ cancelled' = TRUE
  /\ wCtxDone' = TRUE
  /\ UNCHANGED <<requests, built, readsResults, supVars, toWorker, toSuper,
                 wrkVars, deadline, otherPc, dials>>

Next ==
  \/ Dial \/ SendCommand \/ RecvFrame \/ RecvCancelled \/ CloseOnCancel
  \/ CommandTimeout \/ CloseConn
  \/ GatePreCheck \/ GateAcquire \/ OtherReleases
  \/ Admit \/ ReadCommand \/ ReadEOF \/ ReadErr \/ StartCommand \/ CommandExits
  \/ ExecSendErr \/ ExecFinish \/ HandlerReturns
  \/ StdoutEnds \/ StdoutSendErr \/ StderrEnds \/ SendError
  \/ WorkerDeadline \/ CancelRun

(* Every goroutine that can run eventually runs, a process eventually     *)
(* exits, and the deadline and the timer eventually fire.  Cancellation   *)
(* is up to the client.                                                    *)
Fairness ==
  /\ WF_vars(Dial) /\ WF_vars(SendCommand) /\ WF_vars(RecvFrame)
  /\ WF_vars(CommandTimeout) /\ WF_vars(CloseConn)
  /\ WF_vars(GatePreCheck) /\ WF_vars(GateAcquire) /\ WF_vars(OtherReleases)
  /\ WF_vars(Admit) /\ WF_vars(ReadCommand) /\ WF_vars(ReadEOF)
  /\ WF_vars(ReadErr)  /\ WF_vars(StartCommand) /\ WF_vars(CommandExits) /\ WF_vars(ExecSendErr)
  /\ WF_vars(ExecFinish) /\ WF_vars(HandlerReturns)
  /\ WF_vars(StdoutEnds) /\ WF_vars(StdoutSendErr) /\ WF_vars(StderrEnds)
  /\ WF_vars(WorkerDeadline)

Spec == Init /\ [][Next]_vars /\ Fairness

-----------------------------------------------------------------------------
(* The outcome connectToServer hands to runTestTheTests, in the terms of  *)
(* SessionContract and RunExecution.                                       *)
Outcome ==
  CASE ret = None          -> "None"
    [] ret = "finished"    -> IF infos[Len(infos)].code = 255
                                THEN "ResultsUnreadable" ELSE "Passed"
    [] ret = "failedFrame" -> "CommandFailed"
    [] ret = "eof"         -> "WorkerEOF"
    [] ret = "cancelled"   -> "Cancelled"
    [] OTHER               -> "TimedOut"

(* Every terminal frame connectToServer accepts belongs to the command it  *)
(* is waiting for: the frame's sequence number is the index of the        *)
(* command awaited (the code only logs a mismatch).  It rests on the      *)
(* supervisor waiting for the FINISHED frame of background commands too,  *)
(* and on the worker running commands strictly one after another.          *)
TerminalMatchesCommand ==
  \A k \in 1..Len(infos) : infos[k].seq = infos[k].cmd

(* connectToServer returns a nil error only after the terminal frame of   *)
(* the last command (spec: the session closes only after ck's terminal    *)
(* frame or a timeout, and a timeout is a hard failure for the worker).   *)
SuccessOnlyAfterLastTerminal ==
  ret \in {"finished", "eof", "cancelled"} => Len(infos) = Len(requests)

(* A session that got past runCommandsGate.mutex.Lock always gives the    *)
(* gate back: RunCommands' select returns (or the worker process ends)    *)
(* however the supervisor behaves, even when it is cancelled before       *)
(* sending anything, since readCommands then exits without a word on      *)
(* errChan and executeCommandStream waits on commandChan for ever.  It    *)
(* rests on the ctx.Done case and the RUNNER_COMMAND_TIMEOUT deadline;    *)
(* without it the worker would refuse every later session.                 *)
GateEventuallyReleased ==
  (hPc \in {"admit", "serving"}) ~> (hPc \in {"returned", "crashed"})

=============================================================================
