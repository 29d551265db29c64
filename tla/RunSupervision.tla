---------------------------- MODULE RunSupervision ----------------------------
(***************************************************************************)
(* Supervised reliability runs: the supervisor script                      *)
(* (scripts/run-windows-comfyui-reliability-supervised.ps1) with the       *)
(* subcommands it calls (reliability_supervision.py), the launcher it      *)
(* starts (scripts/run-windows-comfyui-reliability.ps1) and the validator  *)
(* the launcher starts (reliability_validation.py).                        *)
(*                                                                         *)
(* The three wait for one another, so one run has one program counter.     *)
(* Each write is a step.  Any of the three may die between two steps; the  *)
(* launcher survives its supervisor.  A run's services may survive both,   *)
(* and write in the private temp root as long as they live.  One case      *)
(* stands for the matrix.                                                  *)
(***************************************************************************)
EXTENDS EvidenceStore

CONSTANTS
  Mode,          \* per run, "preflight" or "matrix"
  MaxScribbles   \* times the services of a run change the temp root after its launcher

ASSUME ModeAssumption == Mode \in [Runs -> {"preflight", "matrix"}]
ASSUME ScribbleAssumption == MaxScribbles \in Nat

VARIABLES
  pc,           \* where the run is
  supervised,   \* its supervisor lives, and holds the lease on its directories
  token,        \* the supervisor's snapshot of the pointer
  leaf,         \* members of its private recovery directory, or None
  scribbles,    \* version of what is in the temp root .p
  alive,        \* its services run
  verdict,      \* the validator's exit code, None before
  cleanup,      \* the launcher's cleanup_status, None before
  childExit,    \* the launcher's exit code, None before
  exit          \* the supervisor's exit code, None before

runVars == <<pc, supervised, token, leaf, scribbles, alive, verdict, cleanup, childExit, exit>>

RunInit ==
  /\ pc = [r \in Runs |-> "idle"]
  /\ supervised = [r \in Runs |-> FALSE]
  /\ token = [r \in Runs |-> None]
  /\ leaf = [r \in Runs |-> None]
  /\ scribbles = [r \in Runs |-> 0]
  /\ alive = [r \in Runs |-> FALSE]
  /\ verdict = [r \in Runs |-> None]
  /\ cleanup = [r \in Runs |-> None]
  /\ childExit = [r \in Runs |-> None]
  /\ exit = [r \in Runs |-> None]

Goes(r, from, to) == pc[r] = from /\ pc' = [pc EXCEPT ![r] = to]

----------------------------------------------------------------------------
(* The supervisor, before the launcher *)

SnapshotCurrent(r) ==
  /\ Goes(r, "idle", "preparing")
  /\ supervised' = [supervised EXCEPT ![r] = TRUE]
  /\ token' = [token EXCEPT ![r] = chain]
  /\ UNCHANGED <<storeVars, leaf, scribbles, alive, verdict, cleanup, childExit, exit>>

(* prepare_run, the lease and validate_run_boundary: both directories are new and empty. *)
PrepareRun(r) ==
  /\ Goes(r, "preparing", "launching")
  /\ supervised[r]
  /\ files[r] = <<>> /\ leaf[r] = None
  /\ leaf' = [leaf EXCEPT ![r] = {}]
  /\ UNCHANGED <<storeVars, supervised, token, scribbles, alive, verdict, cleanup, childExit, exit>>

----------------------------------------------------------------------------
(* The launcher, before the validator *)

(* The sidecars .co .ce .bo .be in the run, the temp root .p and its owner marker .o. *)
Launch(r) ==
  /\ Goes(r, "launching", "starting")
  /\ supervised[r]
  /\ FirstWrite(r, "sidecars", "raw")
  /\ leaf' = [leaf EXCEPT ![r] = {"p", "o"}]
  /\ UNCHANGED <<terminal, chain, swapping, supervised, token, scribbles, alive,
                 verdict, cleanup, childExit, exit>>

(* Both ports are free, and the control record .c is written before the services start. *)
StartServices(r) ==
  /\ Goes(r, "starting", "started")
  /\ \A q \in Runs : ~alive[q]
  /\ leaf' = [leaf EXCEPT ![r] = @ \cup {"c"}]
  /\ alive' = [alive EXCEPT ![r] = TRUE]
  /\ UNCHANGED <<storeVars, supervised, token, scribbles, verdict, cleanup, childExit, exit>>

(* The host manifest .h, then the validator. *)
StartValidator(r) ==
  /\ Goes(r, "started", "preflight")
  /\ leaf' = [leaf EXCEPT ![r] = @ \cup {"h"}]
  /\ UNCHANGED <<storeVars, supervised, token, scribbles, alive, verdict, cleanup, childExit, exit>>

LaunchFails(r) ==
  /\ \E at \in {"starting", "started"} : Goes(r, at, "cleaning")
  /\ UNCHANGED <<storeVars, supervised, token, leaf, scribbles, alive, verdict, cleanup,
                 childExit, exit>>

----------------------------------------------------------------------------
(* The validator *)

Writes(r, from, to, name, content) ==
  /\ Goes(r, from, to)
  /\ FirstWrite(r, name, content)
  /\ UNCHANGED <<terminal, chain, swapping, supervised, token, leaf, scribbles, alive,
                 cleanup, childExit, exit>>

Exits(r, code) == verdict' = [verdict EXCEPT ![r] = code]

Preflight(r) ==
  \/ /\ Mode[r] = "preflight"
     /\ Writes(r, "preflight", "cleaning", "preflight", "passed")
     /\ Exits(r, 0)
  \/ /\ Mode[r] = "matrix"
     /\ Writes(r, "preflight", "case", "preflight", "passed")
     /\ UNCHANGED verdict

(* A case: its audio first, then its evidence. *)
WriteAudio(r) == Writes(r, "case", "audio", "audio", "wav") /\ UNCHANGED verdict
WriteCase(r)  == Writes(r, "audio", "summing", "case", "completed") /\ UNCHANGED verdict

Summarise(r) == Writes(r, "summing", "cleaning", "summary", "passed") /\ Exits(r, 0)

(* Something was found wrong: with a case active it is a failed case. *)
ValidatorFails(r) ==
  /\ \/ \E at \in {"preflight", "summing"} : Goes(r, at, "failing")
     \/ \E at \in {"case", "audio"} : Goes(r, at, "failing in a case")
  /\ UNCHANGED <<storeVars, supervised, token, leaf, scribbles, alive, verdict, cleanup,
                 childExit, exit>>

WriteFailedCase(r) ==
  Writes(r, "failing in a case", "failing bound", "failedCase", "failed") /\ UNCHANGED verdict

(* _persist_run_failure_marker: the validator's own code, bound to the failed case if any. *)
WriteFailure(r) ==
  \/ /\ Mode[r] = "preflight"
     /\ Writes(r, "failing", "cleaning", "failure", "own")
     /\ Exits(r, 1)
  \/ /\ Mode[r] = "matrix"
     /\ \/ Writes(r, "failing", "failed", "failure", "own")
        \/ Writes(r, "failing bound", "failed", "failure", "bound")
     /\ UNCHANGED verdict

SummariseFailure(r) == Writes(r, "failed", "cleaning", "summary", "failed") /\ Exits(r, 1)

Validating == {"preflight", "case", "audio", "summing", "failing", "failing in a case",
               "failing bound", "failed"}

(* Killed, or refused by the disk: it leaves what it has written. *)
ValidatorDies(r) ==
  /\ \E at \in Validating : Goes(r, at, "cleaning")
  /\ Exits(r, 1)
  /\ UNCHANGED <<storeVars, supervised, token, leaf, scribbles, alive, cleanup, childExit, exit>>

----------------------------------------------------------------------------
(* The launcher, after the validator *)

(* Invoke-LauncherCleanupTransaction removes nothing private before every   *)
(* process it recorded is proven stopped and, after a failed validator, the *)
(* lifecycle document .l is on disk.                                        *)
PublishesLifecycle(r) == verdict[r] = 1

(* Mutant: what was asked to stop has stopped. *)
RemovalAssumed(stopped) == TRUE

RemovalAuthorized(stopped) == stopped

(* The order Remove-OwnedTempRoot and Remove-PrivateIdentityRecordsIfSafe remove in. *)
Remainders(members) ==
  {members \ gone : gone \in {{"p", "o", "c", "h"}, {"p", "o", "c"}, {"p", "o"}, {"p"}, {}}}

Cleanup(r) ==
  /\ Goes(r, "cleaning", "recording")
  /\ \E stopped, lifecycle \in BOOLEAN, rest \in Remainders(leaf[r]) :
       /\ lifecycle => PublishesLifecycle(r)
       /\ rest # leaf[r] =>
            RemovalAuthorized(stopped) /\ (PublishesLifecycle(r) => lifecycle)
       /\ alive' = [alive EXCEPT ![r] = @ /\ ~stopped]
       /\ leaf' = [leaf EXCEPT ![r] = rest]
       /\ cleanup' = [cleanup EXCEPT ![r] = IF rest = {} THEN "completed" ELSE "failed"]
       /\ IF lifecycle THEN FirstWrite(r, "rawLifecycle", "raw") ELSE UNCHANGED files
  /\ UNCHANGED <<terminal, chain, swapping, supervised, token, scribbles, verdict,
                 childExit, exit>>

(* record_inner_result *)
FailureSource(code, status) ==
  CASE code = None       -> "launcher"
    [] status = "failed" -> "cleanup"
    [] code = 0          -> "none"
    [] OTHER             -> "validator"

Result(r) ==
  [source |-> FailureSource(verdict[r], cleanup[r]), verdict |-> verdict[r],
   cleanup |-> cleanup[r]]

Passed(result) == result.source = "none"

(* The launcher's last lines: 7 for a failed cleanup, the validator's code, or 1. *)
LauncherExit(r) ==
  CASE cleanup[r] = "failed" -> 7 [] verdict[r] # None -> verdict[r] [] OTHER -> 1

LauncherGone(r) ==
  /\ verdict' = [verdict EXCEPT ![r] = None]
  /\ cleanup' = [cleanup EXCEPT ![r] = None]

RecordInner(r) ==
  /\ Goes(r, "recording", "exited")
  /\ FirstWrite(r, "result", Result(r))
  /\ childExit' = [childExit EXCEPT ![r] = LauncherExit(r)]
  /\ LauncherGone(r)
  /\ UNCHANGED <<terminal, chain, swapping, supervised, token, leaf, scribbles, alive, exit>>

(* Killed: no result, and everything stays where it is. *)
LauncherDies(r) ==
  /\ \E at \in Validating \cup {"starting", "started", "cleaning", "recording"} :
       Goes(r, at, "exited")
  /\ childExit' = [childExit EXCEPT ![r] = 1]
  /\ LauncherGone(r)
  /\ UNCHANGED <<storeVars, supervised, token, leaf, scribbles, alive, exit>>

(* The services of a run own the temp root, and end by themselves or by hand.  Only what *)
(* changes after the snapshot was taken can be told apart.                              *)
Scribble(r) ==
  /\ alive[r] /\ Has(r, "snapshot") /\ scribbles[r] < MaxScribbles
  /\ scribbles' = [scribbles EXCEPT ![r] = @ + 1]
  /\ UNCHANGED <<storeVars, pc, supervised, token, leaf, alive, verdict, cleanup, childExit, exit>>

ServicesEnd(r) ==
  /\ alive[r] /\ pc[r] \in {"exited", "over"}
  /\ alive' = [alive EXCEPT ![r] = FALSE]
  /\ UNCHANGED <<storeVars, pc, supervised, token, leaf, scribbles, verdict, cleanup,
                 childExit, exit>>

----------------------------------------------------------------------------
(* The supervisor, after the launcher.  A step whose guard fails is refused: see Abandon. *)

(* commit-log for every private log and both captured streams; each raw file then goes. *)
CommitLogs(r) ==
  /\ Goes(r, "exited", "logged")
  /\ supervised[r] /\ terminal[r] = None
  /\ LET kept == DOMAIN files[r] \ {"sidecars", "rawLifecycle"}
         logs == {"streams"} \cup (IF Has(r, "rawLifecycle") THEN {"lifecycle"} ELSE {})
     IN files' = [files EXCEPT ![r] =
          [n \in kept \cup logs |-> IF n \in kept THEN files[r][n] ELSE "committed"]]
  /\ UNCHANGED <<terminal, chain, swapping, supervised, token, leaf, scribbles, alive,
                 verdict, cleanup, childExit, exit>>

(* _resolve_supervision_result: there is a result, and it agrees with the exit code. *)
Resolved(r) == Has(r, "result") /\ (Passed(files[r].result) <=> childExit[r] = 0)

(* observe_private_recovery: while the services write, the observation may be incomplete. *)
Snapshot(r, complete) ==
  [members |-> leaf[r], version |-> scribbles[r], complete |-> complete]

PrepareFinalization(r) ==
  /\ supervised[r] /\ pc[r] = "logged" /\ Resolved(r)
  /\ \/ /\ files[r].result.cleanup = "completed"
        /\ Goes(r, "logged", "removing")
        /\ UNCHANGED files
     \/ /\ files[r].result.cleanup = "failed"
        /\ Goes(r, "logged", "finalizing")
        /\ \E complete \in BOOLEAN :
             /\ alive[r] \/ complete
             /\ FirstWrite(r, "snapshot", Snapshot(r, complete))
  /\ UNCHANGED <<terminal, chain, swapping, supervised, token, leaf, scribbles, alive,
                 verdict, cleanup, childExit, exit>>

(* RemovePrivateRunDirectory, through the handle of the lease: only an empty directory goes. *)
RemovePrivate(r) ==
  /\ Goes(r, "removing", "finalizing")
  /\ supervised[r] /\ leaf[r] = {}
  /\ leaf' = [leaf EXCEPT ![r] = None]
  /\ UNCHANGED <<storeVars, supervised, token, scribbles, alive, verdict, cleanup, childExit, exit>>

(* What finalize_supervision asks of the private directory, at entry, before the terminal *)
(* and before the swap.                                                                   *)
PrivateSettled(r) ==
  IF files[r].result.cleanup = "completed"
  THEN leaf[r] = None
  ELSE Has(r, "snapshot") /\ leaf[r] = files[r].snapshot.members

(* _write_failure_marker: only if the validator has left none. *)
MarkerFor(result) ==
  IF result.source = "cleanup" /\ result.verdict # 0 THEN "validator" ELSE result.source

Marked(r) ==
  IF Passed(files[r].result) \/ Has(r, "failure")
  THEN files[r]
  ELSE [n \in DOMAIN files[r] \cup {"failure"} |->
          IF n = "failure" THEN MarkerFor(files[r].result) ELSE files[r][n]]

(* finalize_supervision, up to supervisor.json. *)
Finalize(r) ==
  /\ Goes(r, "finalizing", "recorded")
  /\ supervised[r] /\ Resolved(r) /\ PrivateSettled(r) /\ terminal[r] = None
  /\ files' = [files EXCEPT ![r] =
       [n \in DOMAIN Marked(r) \cup {"supervisor"} |->
          IF n = "supervisor" THEN childExit[r] ELSE Marked(r)[n]]]
  /\ UNCHANGED <<terminal, chain, swapping, supervised, token, leaf, scribbles, alive,
                 verdict, cleanup, childExit, exit>>

(* _validate_failed_artifact_contract *)
FailureContract(r, result) ==
  CASE result.source = "launcher"  -> files[r].failure = "launcher"
    [] result.source = "validator" -> Has(r, "failedCase") \/ files[r].failure = "validator"
    [] result.verdict = 0          -> files[r].failure = "cleanup"
    [] OTHER                       -> Has(r, "failedCase") \/ files[r].failure = "validator"

(* verify_run_artifacts of a matrix *)
MatrixEvidence(r, result) ==
  /\ Has(r, "audio") <=> Has(r, "case")
  /\ Has(r, "summary") => files[r].summary = (IF Passed(result) THEN "passed" ELSE "failed")
  /\ IF Passed(result)
     THEN Has(r, "summary") /\ Has(r, "case") /\ ~Has(r, "failedCase")
     ELSE Has(r, "failedCase") <=> files[r].failure = "bound"

VerifyRunArtifacts(r, result) ==
  /\ Passed(result) => Has(r, "preflight") /\ ~Has(r, "failure")
  /\ Mode[r] = "matrix" => MatrixEvidence(r, result)
  /\ Mode[r] = "preflight" =>
       {"summary", "case", "audio", "failedCase"} \cap DOMAIN files[r] = {}
  /\ ~Passed(result) => FailureContract(r, result)

(* RunTerminal._terminal_contract, on what _build_terminal puts in it. *)
TerminalContract(r, result) ==
  /\ Passed(result) => childExit[r] = 0 /\ result.verdict = 0 /\ result.cleanup = "completed"
  /\ ~Passed(result) => childExit[r] # 0 /\ Has(r, "failure")
  /\ Mode[r] = "preflight" => (Passed(result) <=> Has(r, "preflight"))

BuildTerminal(r) ==
  [commits |-> files[r], passed |-> Passed(files[r].result),
   source |-> files[r].result.source, cleanup |-> files[r].result.cleanup]

Publishable(r) ==
  VerifyRunArtifacts(r, files[r].result) /\ TerminalContract(r, files[r].result)

Freeze(r) ==
  /\ Goes(r, "recorded", "frozen")
  /\ supervised[r] /\ Publishable(r) /\ PrivateSettled(r)
  /\ WriteTerminal(r, BuildTerminal(r))
  /\ UNCHANGED <<files, chain, swapping, supervised, token, leaf, scribbles, alive, verdict,
                 cleanup, childExit, exit>>

Publish(r) ==
  /\ Goes(r, "frozen", "published")
  /\ supervised[r] /\ PrivateSettled(r)
  /\ Swap(r, token[r])
  /\ UNCHANGED <<files, terminal, swapping, supervised, token, leaf, scribbles, alive, verdict,
                 cleanup, childExit, exit>>

(* verify_current, and the supervisor takes its launcher's exit code. *)
Confirm(r) ==
  /\ Goes(r, "published", "over")
  /\ supervised[r] /\ VerifyCurrent(r)
  /\ supervised' = [supervised EXCEPT ![r] = FALSE]
  /\ exit' = [exit EXCEPT ![r] = childExit[r]]
  /\ UNCHANGED <<storeVars, token, leaf, scribbles, alive, verdict, cleanup, childExit>>

Supervising == {"preparing", "launching", "exited", "logged", "removing", "finalizing",
                "recorded", "frozen", "published"}

(* The supervisor gives up: a step was refused, an operation failed (a lock was not had in *)
(* 30 seconds, a log is held open by a service), or it was killed.  The launcher, if it    *)
(* runs, goes on.                                                                          *)
Abandon(r) ==
  /\ supervised[r]
  /\ IF pc[r] \in Supervising THEN pc' = [pc EXCEPT ![r] = "over"] ELSE UNCHANGED pc
  /\ supervised' = [supervised EXCEPT ![r] = FALSE]
  /\ exit' = [exit EXCEPT ![r] = 1]
  /\ token' = [token EXCEPT ![r] = None]
  /\ childExit' = [childExit EXCEPT ![r] = None]
  /\ UNCHANGED <<storeVars, leaf, scribbles, alive, verdict, cleanup>>

----------------------------------------------------------------------------
ValidatorStep(r) ==
  \/ Preflight(r) \/ WriteAudio(r) \/ WriteCase(r) \/ Summarise(r)
  \/ ValidatorFails(r) \/ WriteFailedCase(r) \/ WriteFailure(r) \/ SummariseFailure(r)
  \/ ValidatorDies(r)

LauncherStep(r) ==
  \/ StartServices(r) \/ StartValidator(r) \/ LaunchFails(r)
  \/ Cleanup(r) \/ RecordInner(r) \/ LauncherDies(r)

SupervisorStep(r) ==
  \/ PrepareRun(r) \/ Launch(r) \/ CommitLogs(r) \/ PrepareFinalization(r) \/ RemovePrivate(r)
  \/ Finalize(r) \/ Freeze(r) \/ Publish(r) \/ Confirm(r) \/ Abandon(r)

RunStep(r) ==
  \/ SnapshotCurrent(r) \/ SupervisorStep(r) \/ LauncherStep(r) \/ ValidatorStep(r)
  \/ Scribble(r) \/ ServicesEnd(r)
=============================================================================
