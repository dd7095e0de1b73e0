-------------------------- MODULE MCAdmissionLock ---------------------------
(* Two CLI processes, of the same project or of two projects, against one *)
(* supervisor; each may make three connectToServer iterations, and the    *)
(* second counted error ends the loop (RETRY_COUNT 0).                    *)
EXTENDS AdmissionLock, TLC

CONSTANTS c1, c2, p1, p2

MCClients == {c1, c2}

MCProjects == {p1, p2}

MCRetryCount == 0

MCMaxAttempts == 2

(* c1 runs in CI mode, c2 in normal mode. *)
MCInteractive == {c2}

(* One key press or file change besides the initial "AutoSave". *)
MCMaxInputs == 1

MCKeys == {"X"}

(* The loop starts one run: the one of the initial "AutoSave". *)
MCMaxRuns == 1

(* p1 and p2 are interchangeable: one assignment with a shared project and *)
(* one with two projects stand for all four.                               *)
MCProjectAssignments == {[c \in MCClients |-> p1], (c1 :> p1 @@ c2 :> p2)}

=============================================================================
