-------------------------- MODULE RunRecoveryProofs --------------------------
(***************************************************************************)
(* Supervised runs beside the recovery command and the operator: what TLC  *)
(* checks for two runs that are apart most of the time holds for any       *)
(* number of runs, of recoveries and of publications, in every order.      *)
(***************************************************************************)
EXTENDS RunRecovery, SequenceTheorems, TLAPS

-----------------------------------------------------------------------------
(* What a run owns, and the invariant of one run.                           *)

\* The state of every run is a function over the runs.
Shape ==
  /\ DOMAIN files = Runs /\ DOMAIN terminal = Runs /\ DOMAIN pc = Runs
  /\ DOMAIN supervised = Runs /\ DOMAIN token = Runs /\ DOMAIN leaf = Runs
  /\ DOMAIN scribbles = Runs /\ DOMAIN alive = Runs /\ DOMAIN verdict = Runs
  /\ DOMAIN cleanup = Runs /\ DOMAIN childExit = Runs /\ DOMAIN exit = Runs

At(r) == <<files[r], terminal[r], pc[r], supervised[r], token[r], leaf[r], scribbles[r],
           alive[r], verdict[r], cleanup[r], childExit[r], exit[r]>>

OthersStay(r) == \A q \in Runs \ {r} : UNCHANGED At(q)

RunType(r) ==
  /\ DOMAIN files[r] \subseteq Names
  /\ pc[r] \in PCs
  /\ leaf[r] = None \/ leaf[r] \subseteq PrivateMembers
  /\ scribbles[r] \in 0..MaxScribbles
  /\ verdict[r] \in {None, 0, 1} /\ cleanup[r] \in {None, "completed", "failed"}
  /\ childExit[r] \in {0, 1, 7} \/ (childExit[r] = None /\ pc[r] # "exited")
  /\ exit[r] \in {None, 0, 1, 7}
  /\ alive[r] \in BOOLEAN /\ supervised[r] \in BOOLEAN

Launched == Validating \cup {"starting", "started", "cleaning"}

Ended == {"exited", "logged", "removing", "finalizing", "recorded", "frozen", "published", "over"}

\* The private directory is empty when the launcher gets it, and holds the temp
\* root and its marker until the launcher cleans up.
LeafKept(r) ==
  /\ pc[r] = "launching" => leaf[r] = {}
  /\ pc[r] \in Launched => leaf[r] # None /\ {"p", "o"} \subseteq leaf[r]

\* A cleanup is complete only when every service had stopped.
CleanupKept(r) ==
  /\ pc[r] = "recording" /\ cleanup[r] = "completed" => ~alive[r]
  /\ Has(r, "result") =>
       /\ pc[r] \in Ended
       /\ files[r].result.cleanup = "completed" => ~alive[r]
  /\ pc[r] \in {"removing", "finalizing", "recorded"} => Has(r, "result")
  /\ pc[r] = "removing" => files[r].result.cleanup = "completed"

\* What is frozen stays as it was when it was frozen.
Sealed(r) ==
  /\ terminal[r].commits = files[r]
  /\ Has(r, "failedCase") => files[r].failure = "bound"
  /\ Has(r, "summary") => (files[r].summary = "passed") = terminal[r].passed
  /\ Has(r, "audio") <=> Has(r, "case")
  /\ terminal[r].passed => leaf[r] = None /\ ~alive[r]

SealKept(r) ==
  terminal[r] # None => pc[r] \in {"frozen", "published", "over"} /\ Sealed(r)

OverKept(r) == pc[r] = "over" => ~supervised[r]

RunKept(r) ==
  RunType(r) /\ LeafKept(r) /\ CleanupKept(r) /\ SealKept(r) /\ OverKept(r)

-----------------------------------------------------------------------------
(* Every step of a run is a step of that run alone.                         *)

\* What a write of a run does to its files.
LEMMA Written ==
  ASSUME Shape, NEW r \in Runs, NEW name, NEW content, FirstWrite(r, name, content)
  PROVE  /\ terminal[r] = None
         /\ DOMAIN files' = Runs
         /\ DOMAIN files'[r] = DOMAIN files[r] \cup {name}
         /\ files'[r][name] = content
         /\ \A n \in DOMAIN files[r] : files'[r][n] = files[r][n]
         /\ \A q \in Runs \ {r} : files'[q] = files[q]
BY DEF FirstWrite, Shape, Has

\* A step of the validator touches its run alone.
LEMMA FrameValidator ==
  ASSUME Shape, NEW r \in Runs, ValidatorStep(r), UNCHANGED recoveryVars
  PROVE  Shape' /\ OthersStay(r) /\ UNCHANGED <<swapping, chain, terminal>>
<1> USE DEF Shape, OthersStay, At, Goes, Exits
<1>w. ASSUME NEW from, NEW to, NEW name, NEW content, Writes(r, from, to, name, content),
             verdict' = verdict \/ \E c \in {0, 1} : verdict' = [verdict EXCEPT ![r] = c]
      PROVE  Shape' /\ OthersStay(r) /\ UNCHANGED <<swapping, chain, terminal>>
  BY <1>w, Written DEF Writes
<1>1. CASE Preflight(r)
  BY <1>1, <1>w DEF Preflight
<1>2. CASE WriteAudio(r)
  BY <1>2, <1>w DEF WriteAudio
<1>3. CASE WriteCase(r)
  BY <1>3, <1>w DEF WriteCase
<1>4. CASE Summarise(r)
  BY <1>4, <1>w DEF Summarise
<1>5. CASE ValidatorFails(r)
  BY <1>5 DEF ValidatorFails, storeVars
<1>6. CASE WriteFailedCase(r)
  BY <1>6, <1>w DEF WriteFailedCase
<1>7. CASE WriteFailure(r)
  BY <1>7, <1>w DEF WriteFailure
<1>8. CASE SummariseFailure(r)
  BY <1>8, <1>w DEF SummariseFailure
<1>9. CASE ValidatorDies(r)
  BY <1>9 DEF ValidatorDies, storeVars
<1> QED BY <1>1, <1>2, <1>3, <1>4, <1>5, <1>6, <1>7, <1>8, <1>9 DEF ValidatorStep

\* A step of the launcher touches its run alone.
LEMMA FrameLauncher ==
  ASSUME Shape, NEW r \in Runs, LauncherStep(r), UNCHANGED recoveryVars
  PROVE  Shape' /\ OthersStay(r) /\ UNCHANGED <<swapping, chain, terminal>>
<1> USE DEF Shape, OthersStay, At, Goes, storeVars
<1>1. CASE StartServices(r)
  BY <1>1 DEF StartServices
<1>2. CASE StartValidator(r)
  BY <1>2 DEF StartValidator
<1>3. CASE LaunchFails(r)
  BY <1>3 DEF LaunchFails
<1>4. CASE Cleanup(r)
  <2>1. /\ DOMAIN files' = Runs
        /\ \A q \in Runs \ {r} : files'[q] = files[q]
    BY <1>4, Written DEF Cleanup
  <2> QED BY <1>4, <2>1 DEF Cleanup
<1>5. CASE RecordInner(r)
  BY <1>5, Written DEF RecordInner, LauncherGone
<1>6. CASE LauncherDies(r)
  BY <1>6 DEF LauncherDies, LauncherGone
<1> QED BY <1>1, <1>2, <1>3, <1>4, <1>5, <1>6 DEF LauncherStep

\* A step of the supervisor touches its run alone.
LEMMA FrameSupervisor ==
  ASSUME Shape, NEW r \in Runs, SupervisorStep(r)
  PROVE  /\ Shape' /\ OthersStay(r) /\ UNCHANGED swapping
         /\ UNCHANGED chain \/ Publish(r)
<1> USE DEF Shape, OthersStay, At, Goes, storeVars
<1>1. CASE PrepareRun(r)
  BY <1>1 DEF PrepareRun
<1>2. CASE Launch(r)
  BY <1>2, Written DEF Launch
<1>3. CASE CommitLogs(r)
  BY <1>3 DEF CommitLogs
<1>4. CASE PrepareFinalization(r)
  <2>1. /\ DOMAIN files' = Runs
        /\ \A q \in Runs \ {r} : files'[q] = files[q]
    BY <1>4, Written DEF PrepareFinalization
  <2> QED BY <1>4, <2>1 DEF PrepareFinalization
<1>5. CASE RemovePrivate(r)
  BY <1>5 DEF RemovePrivate
<1>6. CASE Finalize(r)
  BY <1>6 DEF Finalize
<1>7. CASE Freeze(r)
  BY <1>7 DEF Freeze, WriteTerminal
<1>8. CASE Publish(r)
  BY <1>8 DEF Publish
<1>9. CASE Confirm(r)
  BY <1>9 DEF Confirm
<1>10. CASE Abandon(r)
  BY <1>10 DEF Abandon
<1> QED
  BY <1>1, <1>2, <1>3, <1>4, <1>5, <1>6, <1>7, <1>8, <1>9, <1>10 DEF SupervisorStep

\* A step of a run touches no other run, holds no lock past its end, and moves
\* the pointer only to publish.
LEMMA RunFrame ==
  ASSUME Shape, NEW r \in Runs, RunStep(r), UNCHANGED recoveryVars
  PROVE  /\ Shape' /\ OthersStay(r) /\ UNCHANGED swapping
         /\ UNCHANGED chain \/ Publish(r)
<1>1. CASE SnapshotCurrent(r)
  BY <1>1 DEF SnapshotCurrent, Shape, OthersStay, At, Goes, storeVars
<1>2. CASE Scribble(r)
  BY <1>2 DEF Scribble, Shape, OthersStay, At, Goes, storeVars
<1>3. CASE ServicesEnd(r)
  BY <1>3 DEF ServicesEnd, Shape, OthersStay, At, Goes, storeVars
<1> QED
  BY <1>1, <1>2, <1>3, FrameSupervisor, FrameLauncher, FrameValidator DEF RunStep

-----------------------------------------------------------------------------
(* The invariant of a run through each of its steps.                        *)

\* A member that is neither the result nor there already changes nothing of what
\* the invariant says of the members.
LEMMA WriteKeeps ==
  ASSUME Shape, NEW r \in Runs, RunKept(r), NEW name \in Names, NEW content,
         FirstWrite(r, name, content), name # "result"
  PROVE  /\ DOMAIN files'[r] \subseteq Names
         /\ Has(r, "result")' <=> Has(r, "result")
         /\ Has(r, "result") => files'[r]["result"] = files[r]["result"]
         /\ terminal[r] = None
BY Written DEF RunKept, RunType, Has

\* A step of the validator keeps the invariant of its run.
LEMMA ValidatorKeeps ==
  ASSUME Shape, NEW r \in Runs, RunKept(r), ValidatorStep(r), UNCHANGED recoveryVars
  PROVE  RunKept(r)'
<1> USE DEF Goes, Exits
<1>0. pc[r] \in Validating /\ pc'[r] \in (Validating \cup {"cleaning"}) /\ verdict'[r] \in {None, 0, 1}
  <2> USE DEF Shape, RunKept, RunType, Validating
  <2>1. CASE Preflight(r)
    BY <2>1 DEF Preflight, Writes
  <2>2. CASE WriteAudio(r)
    BY <2>2 DEF WriteAudio, Writes
  <2>3. CASE WriteCase(r)
    BY <2>3 DEF WriteCase, Writes
  <2>4. CASE Summarise(r)
    BY <2>4 DEF Summarise, Writes
  <2>5. CASE ValidatorFails(r)
    BY <2>5 DEF ValidatorFails
  <2>6. CASE WriteFailedCase(r)
    BY <2>6 DEF WriteFailedCase, Writes
  <2>7. CASE WriteFailure(r)
    BY <2>7 DEF WriteFailure, Writes
  <2>8. CASE SummariseFailure(r)
    BY <2>8 DEF SummariseFailure, Writes
  <2>9. CASE ValidatorDies(r)
    BY <2>9 DEF ValidatorDies
  <2> QED BY <2>1, <2>2, <2>3, <2>4, <2>5, <2>6, <2>7, <2>8, <2>9 DEF ValidatorStep
<1>1. UNCHANGED <<terminal, supervised, leaf, scribbles, alive, cleanup, childExit, exit>>
  BY DEF ValidatorStep, Preflight, WriteAudio, WriteCase, Summarise, ValidatorFails,
         WriteFailedCase, WriteFailure, SummariseFailure, ValidatorDies, Writes, storeVars
<1>2. \/ UNCHANGED files
      \/ \E name \in Names \ {"result"}, content \in {"passed", "wav", "completed", "failed", "own", "bound"} :
           FirstWrite(r, name, content)
  BY DEF ValidatorStep, Preflight, WriteAudio, WriteCase, Summarise, ValidatorFails,
         WriteFailedCase, WriteFailure, SummariseFailure, ValidatorDies, Writes, storeVars, Names
<1>3. /\ DOMAIN files'[r] \subseteq Names
      /\ Has(r, "result")' <=> Has(r, "result")
      /\ terminal[r] = None \/ UNCHANGED files
  BY <1>2, WriteKeeps DEF RunKept, RunType, Has
<1>4. ~Has(r, "result") /\ terminal[r] = None
  BY <1>0 DEF RunKept, CleanupKept, SealKept, Ended, Validating
<1>5. RunType(r)'
  <2>1. pc[r]' \in PCs /\ verdict[r]' \in {None, 0, 1} /\ pc[r]' # "exited"
    BY <1>0 DEF RunKept, RunType, Validating, PCs
  <2>2. childExit[r] \in {0, 1, 7} \/ childExit[r] = None
    BY DEF RunKept, RunType
  <2> QED BY <1>1, <1>3, <2>1, <2>2 DEF RunKept, RunType
<1>8. LeafKept(r)'
  BY <1>0, <1>1 DEF RunKept, LeafKept, Launched, Validating
<1>6. CleanupKept(r)'
  BY <1>0, <1>1, <1>3, <1>4 DEF CleanupKept, Validating, Ended
<1>7. SealKept(r)' /\ OverKept(r)'
  BY <1>0, <1>1, <1>4 DEF SealKept, OverKept, Validating
<1> QED BY <1>5, <1>6, <1>7, <1>8 DEF RunKept

\* A step of the launcher keeps the invariant of its run.
LEMMA LauncherKeeps ==
  ASSUME Shape, NEW r \in Runs, RunKept(r), LauncherStep(r), UNCHANGED recoveryVars
  PROVE  RunKept(r)'
<1> USE DEF Goes
<1>a. pc[r] \in PCs /\ (pc[r] \notin Ended => ~Has(r, "result") /\ terminal[r] = None)
  BY DEF RunKept, RunType, CleanupKept, SealKept, Ended
<1>1. CASE StartServices(r)
  <2>1. pc[r] = "starting" /\ pc'[r] = "started" /\ leaf'[r] = leaf[r] \cup {"c"} /\ alive'[r] = TRUE
    BY <1>1 DEF StartServices, Shape
  <2>2. RunType(r)' /\ LeafKept(r)'
    BY <1>1, <2>1, MissingAssumption
    DEF StartServices, storeVars, RunKept, RunType, LeafKept, Launched, PCs, PrivateMembers
  <2>3. CleanupKept(r)' /\ SealKept(r)' /\ OverKept(r)'
    BY <1>1, <1>a, <2>1 DEF StartServices, storeVars, RunKept, CleanupKept, SealKept, OverKept, Ended, Has
  <2> QED BY <2>2, <2>3 DEF RunKept
<1>2. CASE StartValidator(r)
  <2>1. pc[r] = "started" /\ pc'[r] = "preflight" /\ leaf'[r] = leaf[r] \cup {"h"}
    BY <1>2 DEF StartValidator, Shape
  <2>2. RunType(r)' /\ LeafKept(r)'
    BY <1>2, <2>1, MissingAssumption
    DEF StartValidator, storeVars, RunKept, RunType, LeafKept, Launched, Validating, PCs, Supervising, PrivateMembers
  <2>3. CleanupKept(r)' /\ SealKept(r)' /\ OverKept(r)'
    BY <1>2, <1>a, <2>1 DEF StartValidator, storeVars, RunKept, CleanupKept, SealKept, OverKept, Ended, Has
  <2> QED BY <2>2, <2>3 DEF RunKept
<1>3. CASE LaunchFails(r)
  <2>1. pc[r] \in {"starting", "started"} /\ pc'[r] = "cleaning"
    BY <1>3 DEF LaunchFails, Shape
  <2>2. RunType(r)' /\ LeafKept(r)'
    BY <1>3, <2>1 DEF LaunchFails, storeVars, RunKept, RunType, LeafKept, Launched, PCs
  <2>3. CleanupKept(r)' /\ SealKept(r)' /\ OverKept(r)'
    BY <1>3, <1>a, <2>1 DEF LaunchFails, storeVars, RunKept, CleanupKept, SealKept, OverKept, Ended, Has
  <2> QED BY <2>2, <2>3 DEF RunKept
<1>4. CASE Cleanup(r)
  <2>1. pc[r] = "cleaning" /\ pc'[r] = "recording" /\ ~Has(r, "result") /\ terminal[r] = None
    BY <1>4, <1>a DEF Cleanup, Shape, Ended
  <2>2. PICK stopped \in BOOLEAN, lifecycle \in BOOLEAN, rest \in Remainders(leaf[r]) :
          /\ rest # leaf[r] => stopped
          /\ alive' = [alive EXCEPT ![r] = @ /\ ~stopped]
          /\ leaf' = [leaf EXCEPT ![r] = rest]
          /\ cleanup' = [cleanup EXCEPT ![r] = IF rest = {} THEN "completed" ELSE "failed"]
          /\ IF lifecycle THEN FirstWrite(r, "rawLifecycle", "raw") ELSE UNCHANGED files
    BY <1>4 DEF Cleanup, RemovalAuthorized
  <2>3. {"p", "o"} \subseteq leaf[r] /\ leaf[r] \subseteq PrivateMembers
    BY <2>1 DEF RunKept, RunType, LeafKept, Launched
  <2>4. rest \subseteq PrivateMembers
    BY <2>3 DEF Remainders
  <2>5. cleanup'[r] \in {"completed", "failed"} /\ (cleanup'[r] = "completed" => rest = {})
    BY <2>2 DEF Shape
  <2>6. rest = {} => stopped
    BY <2>2, <2>3
  <2>7. alive'[r] \in BOOLEAN /\ (rest = {} => ~alive'[r])
    BY <2>2, <2>6 DEF Shape
  <2>8. /\ DOMAIN files'[r] \subseteq Names
        /\ ~Has(r, "result")'
    <3>1. CASE lifecycle
      BY <2>1, <2>2, <3>1, WriteKeeps DEF Names
    <3>2. CASE ~lifecycle
      BY <2>1, <2>2, <3>2 DEF RunKept, RunType, Has
    <3> QED BY <3>1, <3>2
  <2>9. RunType(r)' /\ LeafKept(r)'
    BY <1>4, <2>1, <2>2, <2>4, <2>5, <2>7, <2>8
    DEF Cleanup, Shape, RunKept, RunType, LeafKept, Launched, Validating, PCs, Supervising
  <2>10. CleanupKept(r)' /\ SealKept(r)' /\ OverKept(r)'
    BY <1>4, <2>1, <2>5, <2>7, <2>8 DEF Cleanup, CleanupKept, SealKept, OverKept, Ended
  <2> QED BY <2>9, <2>10 DEF RunKept
<1>5. CASE RecordInner(r)
  <2>1. pc[r] = "recording" /\ pc'[r] = "exited" /\ ~Has(r, "result") /\ terminal[r] = None
    BY <1>5, <1>a DEF RecordInner, Shape, Ended
  <2>2. /\ DOMAIN files'[r] \subseteq Names
        /\ files'[r]["result"] = Result(r)
    BY <1>5, Written DEF RecordInner, RunKept, RunType, Names
  <2>3. files'[r].result.cleanup = "completed" => ~alive[r]
    BY <2>1, <2>2 DEF Result, RunKept, CleanupKept
  <2>4. LauncherExit(r) \in {0, 1, 7}
    BY DEF LauncherExit, RunKept, RunType
  <2>c. /\ childExit'[r] = LauncherExit(r) /\ verdict'[r] = None /\ cleanup'[r] = None
        /\ UNCHANGED <<terminal, supervised, leaf, scribbles, alive, exit>>
    BY <1>5 DEF RecordInner, LauncherGone, Shape
  <2>5. RunType(r)' /\ LeafKept(r)'
    BY <2>1, <2>2, <2>4, <2>c
    DEF RunKept, RunType, LeafKept, Launched, Validating, PCs, Supervising
  <2>6. CleanupKept(r)' /\ SealKept(r)' /\ OverKept(r)'
    BY <1>5, <2>1, <2>3 DEF RecordInner, CleanupKept, SealKept, OverKept, Ended
  <2> QED BY <2>5, <2>6 DEF RunKept
<1>6. CASE LauncherDies(r)
  <2>1. pc[r] \notin Ended /\ pc'[r] = "exited"
    BY <1>6 DEF LauncherDies, Shape, Ended, Validating
  <2>c. /\ childExit'[r] = 1 /\ verdict'[r] = None /\ cleanup'[r] = None
        /\ UNCHANGED <<files, terminal, supervised, leaf, scribbles, alive, exit>>
    BY <1>6 DEF LauncherDies, LauncherGone, storeVars, Shape
  <2>2. RunType(r)' /\ LeafKept(r)'
    BY <2>1, <2>c
    DEF RunKept, RunType, LeafKept, Launched, Validating, PCs, Supervising
  <2>3. CleanupKept(r)' /\ SealKept(r)' /\ OverKept(r)'
    BY <1>a, <2>1, <2>c
    DEF Has, CleanupKept, SealKept, OverKept, Ended
  <2> QED BY <2>2, <2>3 DEF RunKept
<1> QED BY <1>1, <1>2, <1>3, <1>4, <1>5, <1>6 DEF LauncherStep

\* What a supervisor's step that leaves the members alone may do to the rest.
LEMMA SupervisorKeeps ==
  ASSUME Shape, NEW r \in Runs, RunKept(r), SupervisorStep(r)
  PROVE  RunKept(r)'
<1> USE DEF Goes
<1>a. pc[r] \in PCs /\ (pc[r] \notin Ended => ~Has(r, "result"))
  BY DEF RunKept, RunType, CleanupKept
<1>b. pc[r] \notin {"frozen", "published", "over"} => terminal[r] = None
  BY DEF RunKept, SealKept
<1>1. CASE PrepareRun(r)
  <2>1. pc[r] = "preparing" /\ pc'[r] = "launching" /\ leaf'[r] = {}
    BY <1>1 DEF PrepareRun, Shape
  <2>2. RunType(r)' /\ LeafKept(r)'
    BY <1>1, <2>1
    DEF PrepareRun, storeVars, RunKept, RunType, LeafKept, Launched, Validating, PCs, Supervising
  <2>3. CleanupKept(r)' /\ SealKept(r)' /\ OverKept(r)'
    BY <1>1, <1>a, <1>b, <2>1 DEF PrepareRun, storeVars, CleanupKept, SealKept, OverKept, Ended, Has
  <2> QED BY <2>2, <2>3 DEF RunKept
<1>2. CASE Launch(r)
  <2>1. pc[r] = "launching" /\ pc'[r] = "starting" /\ leaf'[r] = {"p", "o"}
    BY <1>2 DEF Launch, Shape
  <2>2. /\ DOMAIN files'[r] \subseteq Names
        /\ ~Has(r, "result")'
    BY <1>2, <1>a, <2>1, WriteKeeps DEF Launch, Names, Ended
  <2>3. RunType(r)' /\ LeafKept(r)'
    BY <1>2, <2>1, <2>2, MissingAssumption
    DEF Launch, RunKept, RunType, LeafKept, Launched, Validating, PCs, PrivateMembers
  <2>4. CleanupKept(r)' /\ SealKept(r)' /\ OverKept(r)'
    BY <1>2, <1>b, <2>1, <2>2 DEF Launch, CleanupKept, SealKept, OverKept, Ended
  <2> QED BY <2>3, <2>4 DEF RunKept
<1>3. CASE CommitLogs(r)
  <2>1. pc[r] = "exited" /\ pc'[r] = "logged" /\ terminal[r] = None
    BY <1>3 DEF CommitLogs, Shape
  <2>2. /\ DOMAIN files'[r] \subseteq Names
        /\ Has(r, "result")' <=> Has(r, "result")
        /\ Has(r, "result") => files'[r]["result"] = files[r]["result"]
    BY <1>3 DEF CommitLogs, Shape, RunKept, RunType, Names, Has
  <2>3. RunType(r)' /\ LeafKept(r)'
    BY <1>3, <2>1, <2>2
    DEF CommitLogs, RunKept, RunType, LeafKept, Launched, Validating, PCs, Supervising
  <2>4. CleanupKept(r)' /\ SealKept(r)' /\ OverKept(r)'
    BY <1>3, <2>1, <2>2 DEF CommitLogs, RunKept, CleanupKept, SealKept, OverKept, Ended
  <2> QED BY <2>3, <2>4 DEF RunKept
<1>4. CASE PrepareFinalization(r)
  <2>1. /\ pc[r] = "logged" /\ terminal[r] = None /\ Has(r, "result")
        /\ \/ pc'[r] = "removing" /\ files[r].result.cleanup = "completed"
           \/ pc'[r] = "finalizing"
    BY <1>4, <1>b DEF PrepareFinalization, Shape, Resolved
  <2>2. UNCHANGED files \/ \E complete \in BOOLEAN : FirstWrite(r, "snapshot", Snapshot(r, complete))
    BY <1>4 DEF PrepareFinalization
  <2>3. /\ DOMAIN files'[r] \subseteq Names
        /\ Has(r, "result")' <=> Has(r, "result")
        /\ Has(r, "result") => files'[r]["result"] = files[r]["result"]
    BY <2>2, WriteKeeps DEF RunKept, RunType, Has, Names
  <2>c. UNCHANGED <<terminal, supervised, leaf, scribbles, alive, verdict, cleanup, childExit, exit>>
    BY <1>4 DEF PrepareFinalization
  <2>7. pc'[r] \in {"removing", "finalizing"}
    BY <2>1
  <2>10. pc'[r] \in PCs \ (Launched \cup {"launching", "exited"})
    BY <2>7 DEF PCs, Supervising, Launched, Validating
  <2>4. RunType(r)' /\ LeafKept(r)'
    BY <2>3, <2>10, <2>c DEF RunKept, RunType, LeafKept
  <2>8. Has(r, "result")' /\ files'[r].result.cleanup = files[r].result.cleanup
    BY <2>1, <2>3
  <2>9. files[r].result.cleanup = "completed" => ~alive[r]
    BY <2>1 DEF RunKept, CleanupKept
  <2>5. CleanupKept(r)'
    BY <2>1, <2>7, <2>8, <2>9, <2>c DEF CleanupKept, Ended
  <2>6. SealKept(r)' /\ OverKept(r)'
    BY <2>1, <2>c DEF SealKept, OverKept
  <2> QED BY <2>4, <2>5, <2>6 DEF RunKept
<1>5. CASE RemovePrivate(r)
  <2>1. pc[r] = "removing" /\ pc'[r] = "finalizing" /\ leaf'[r] = None
    BY <1>5 DEF RemovePrivate, Shape
  <2>2. RunType(r)' /\ LeafKept(r)'
    BY <1>5, <2>1
    DEF RemovePrivate, storeVars, RunKept, RunType, LeafKept, Launched, Validating, PCs, Supervising
  <2>3. CleanupKept(r)' /\ SealKept(r)' /\ OverKept(r)'
    BY <1>5, <1>b, <2>1
    DEF RemovePrivate, storeVars, RunKept, CleanupKept, SealKept, OverKept, Ended, Has
  <2> QED BY <2>2, <2>3 DEF RunKept
<1>6. CASE Finalize(r)
  <2>1. pc[r] = "finalizing" /\ pc'[r] = "recorded" /\ terminal[r] = None /\ Has(r, "result")
    BY <1>6 DEF Finalize, Shape, Resolved
  <2>2. /\ DOMAIN Marked(r) \subseteq Names /\ "result" \in DOMAIN Marked(r)
        /\ Marked(r)["result"] = files[r]["result"]
    BY <2>1 DEF Marked, RunKept, RunType, Names, Has
  <2>3. /\ DOMAIN files'[r] \subseteq Names
        /\ Has(r, "result")'
        /\ files'[r]["result"] = files[r]["result"]
    BY <1>6, <2>2 DEF Finalize, Shape, Names, Has
  <2>c. UNCHANGED <<terminal, supervised, leaf, scribbles, alive, verdict, cleanup, childExit, exit>>
    BY <1>6 DEF Finalize
  <2>4. RunType(r)' /\ LeafKept(r)'
    BY <2>1, <2>3, <2>c DEF RunKept, RunType, LeafKept, Launched, Validating, PCs, Supervising
  <2>5. CleanupKept(r)' /\ SealKept(r)' /\ OverKept(r)'
    BY <2>1, <2>3, <2>c DEF RunKept, CleanupKept, SealKept, OverKept, Ended
  <2> QED BY <2>4, <2>5 DEF RunKept
<1>7. CASE Freeze(r)
  <2> DEFINE result == files[r].result
             passed == Passed(result)
  <2>1. pc[r] = "recorded" /\ pc'[r] = "frozen" /\ Has(r, "result")
    BY <1>7 DEF Freeze, Shape, RunKept, CleanupKept
  <2>2. terminal'[r] = BuildTerminal(r) /\ BuildTerminal(r).commits = files[r]
    BY <1>7 DEF Freeze, WriteTerminal, Shape, BuildTerminal
  <2>3. BuildTerminal(r).passed = passed
    BY DEF BuildTerminal
  <2>c. UNCHANGED <<files, supervised, leaf, scribbles, alive, verdict, cleanup, childExit, exit>>
    BY <1>7 DEF Freeze
  <2>4. Mode[r] \in {"preflight", "matrix"}
    BY ModeAssumption
  <2>5. VerifyRunArtifacts(r, result) /\ TerminalContract(r, result)
    BY <1>7 DEF Freeze, Publishable
  <2>6. Has(r, "failedCase") => files[r].failure = "bound"
    BY <2>4, <2>5 DEF VerifyRunArtifacts, MatrixEvidence, Has
  <2>7. Has(r, "summary") => ((files[r].summary = "passed") <=> passed)
    BY <2>4, <2>5 DEF VerifyRunArtifacts, MatrixEvidence, Has
  <2>8. Has(r, "audio") <=> Has(r, "case")
    BY <2>4, <2>5 DEF VerifyRunArtifacts, MatrixEvidence, Has
  <2>9. passed => leaf[r] = None /\ ~alive[r]
    BY <1>7, <2>1, <2>5 DEF Freeze, TerminalContract, PrivateSettled, RunKept, CleanupKept
  <2>10. Sealed(r)'
    <3> HIDE DEF passed
    <3>1. passed \in BOOLEAN
      BY DEF passed, Passed
    <3> QED BY <2>2, <2>3, <2>6, <2>7, <2>8, <2>9, <2>c, <3>1 DEF Sealed, Has
  <2>11. RunType(r)' /\ LeafKept(r)'
    BY <2>1, <2>c DEF RunKept, RunType, LeafKept, Launched, Validating, PCs, Supervising
  <2>12. CleanupKept(r)' /\ SealKept(r)' /\ OverKept(r)'
    BY <2>1, <2>c, <2>10 DEF RunKept, CleanupKept, SealKept, OverKept, Ended, Has
  <2> QED BY <2>11, <2>12 DEF RunKept
<1>8. CASE Publish(r)
  <2>1. pc[r] = "frozen" /\ pc'[r] = "published"
    BY <1>8 DEF Publish, Shape
  <2>c. UNCHANGED <<files, terminal, supervised, leaf, scribbles, alive, verdict, cleanup, childExit, exit>>
    BY <1>8 DEF Publish
  <2>2. RunType(r)' /\ LeafKept(r)'
    <3>1. RunType(r)'
      BY <2>1, <2>c DEF RunKept, RunType, PCs, Supervising
    <3>2. LeafKept(r)'
      BY <2>1, <2>c DEF RunKept, LeafKept, Launched, Validating, Supervising
    <3> QED BY <3>1, <3>2
  <2>3. CleanupKept(r)' /\ SealKept(r)' /\ OverKept(r)'
    BY <2>1, <2>c DEF RunKept, CleanupKept, SealKept, Sealed, OverKept, Ended, Has
  <2> QED BY <2>2, <2>3 DEF RunKept
<1>9. CASE Confirm(r)
  <2>1. pc[r] = "published" /\ pc'[r] = "over" /\ supervised'[r] = FALSE /\ exit'[r] = childExit[r]
    BY <1>9 DEF Confirm, Shape
  <2>c. UNCHANGED <<files, terminal, leaf, scribbles, alive, verdict, cleanup, childExit>>
    BY <1>9 DEF Confirm, storeVars
  <2>2. RunType(r)' /\ LeafKept(r)'
    <3>1. RunType(r)'
      BY <2>1, <2>c DEF RunKept, RunType, PCs, Supervising
    <3>2. LeafKept(r)'
      BY <2>1, <2>c DEF RunKept, LeafKept, Launched, Validating, Supervising
    <3> QED BY <3>1, <3>2
  <2>3. CleanupKept(r)' /\ SealKept(r)' /\ OverKept(r)'
    BY <2>1, <2>c DEF RunKept, CleanupKept, SealKept, Sealed, OverKept, Ended, Has
  <2> QED BY <2>2, <2>3 DEF RunKept
<1>10. CASE Abandon(r)
  <2>1. /\ supervised[r] /\ supervised'[r] = FALSE /\ exit'[r] = 1 /\ childExit'[r] = None
        /\ pc'[r] = IF pc[r] \in Supervising THEN "over" ELSE pc[r]
    BY <1>10 DEF Abandon, Shape
  <2>c. UNCHANGED <<files, terminal, leaf, scribbles, alive, verdict, cleanup>>
    BY <1>10 DEF Abandon, storeVars
  <2>2. RunType(r)' /\ LeafKept(r)'
    <3>1. RunType(r)'
      BY <2>1, <2>c DEF RunKept, RunType, PCs, Supervising
    <3>2. LeafKept(r)'
      BY <2>1, <2>c DEF RunKept, LeafKept, Launched, Validating, Supervising
    <3> QED BY <3>1, <3>2
  <2>3. CleanupKept(r)' /\ SealKept(r)' /\ OverKept(r)'
    BY <2>1, <2>c DEF RunKept, CleanupKept, SealKept, Sealed, OverKept, Ended, Has, Supervising
  <2> QED BY <2>2, <2>3 DEF RunKept
<1> QED
  BY <1>1, <1>2, <1>3, <1>4, <1>5, <1>6, <1>7, <1>8, <1>9, <1>10 DEF SupervisorStep

\* A step of a run keeps the invariant of every run.
LEMMA RunKeeps ==
  ASSUME Shape, NEW r \in Runs, RunKept(r), RunStep(r), UNCHANGED recoveryVars
  PROVE  RunKept(r)'
<1>1. CASE SnapshotCurrent(r)
  <2>1. pc[r] = "idle" /\ pc'[r] = "preparing" /\ supervised'[r] = TRUE
    BY <1>1 DEF SnapshotCurrent, Goes, Shape
  <2>c. UNCHANGED <<files, terminal, leaf, scribbles, alive, verdict, cleanup, childExit, exit>>
    BY <1>1 DEF SnapshotCurrent, storeVars
  <2>2. RunType(r)' /\ LeafKept(r)'
    <3>1. RunType(r)'
      BY <2>1, <2>c DEF RunKept, RunType, PCs, Supervising
    <3>2. LeafKept(r)'
      BY <2>1, <2>c DEF RunKept, LeafKept, Launched, Validating, Supervising
    <3> QED BY <3>1, <3>2
  <2>3. CleanupKept(r)' /\ SealKept(r)' /\ OverKept(r)'
    BY <2>1, <2>c DEF RunKept, CleanupKept, SealKept, Sealed, OverKept, Ended, Has
  <2> QED BY <2>2, <2>3 DEF RunKept
<1>2. CASE Scribble(r)
  <2>1. scribbles'[r] = scribbles[r] + 1 /\ scribbles[r] < MaxScribbles
    BY <1>2 DEF Scribble, Shape
  <2>c. UNCHANGED <<files, terminal, pc, supervised, leaf, alive, verdict, cleanup, childExit, exit>>
    BY <1>2 DEF Scribble, storeVars
  <2>2. RunType(r)' /\ LeafKept(r)'
    BY <2>1, <2>c, ScribbleAssumption DEF RunKept, RunType, LeafKept
  <2>3. CleanupKept(r)' /\ SealKept(r)' /\ OverKept(r)'
    BY <2>c DEF RunKept, CleanupKept, SealKept, Sealed, OverKept, Has
  <2> QED BY <2>2, <2>3 DEF RunKept
<1>3. CASE ServicesEnd(r)
  <2>1. alive'[r] = FALSE
    BY <1>3 DEF ServicesEnd, Shape
  <2>c. UNCHANGED <<files, terminal, pc, supervised, leaf, scribbles, verdict, cleanup, childExit, exit>>
    BY <1>3 DEF ServicesEnd, storeVars
  <2>2. RunType(r)' /\ LeafKept(r)'
    BY <2>1, <2>c, ZenonT(40) DEF RunKept, RunType, LeafKept
  <2>3. CleanupKept(r)' /\ SealKept(r)' /\ OverKept(r)'
    BY <2>1, <2>c DEF RunKept, CleanupKept, SealKept, Sealed, OverKept, Has
  <2> QED BY <2>2, <2>3 DEF RunKept
<1> QED BY <1>1, <1>2, <1>3, SupervisorKeeps, LauncherKeeps, ValidatorKeeps DEF RunStep

-----------------------------------------------------------------------------
(* The runs together.                                                       *)

\* A succession that goes on still extends what it extended, and goes on from
\* the same place; and it extends what it goes on from.
LEMMA GoesOn ==
  ASSUME NEW longer \in Seq(Runs), NEW shorter \in Seq(Runs), NEW r \in Runs,
         Extends(longer, shorter)
  PROVE  /\ Extends(Append(longer, r), shorter)
         /\ Append(longer, r)[Len(shorter) + 1] = longer[Len(shorter) + 1]
<1> DEFINE more == Append(longer, r)
           n    == Len(shorter)
<1>1. /\ more \in Seq(Runs) /\ Len(more) = Len(longer) + 1
      /\ \A i \in 1..Len(longer) : more[i] = longer[i]
  BY AppendProperties
<1>2. n \in Nat /\ n < Len(longer) /\ Len(longer) \in Nat
  BY LenProperties DEF Extends
<1>3. SubSeq(longer, 1, n) = [i \in 1..n |-> longer[i]]
  BY <1>2, SubSeqProperties
<1>4. SubSeq(more, 1, n) = [i \in 1..n |-> more[i]]
  BY <1>1, <1>2, SubSeqProperties
<1>5. SubSeq(more, 1, n) = shorter
  BY <1>1, <1>2, <1>3, <1>4 DEF Extends
<1> QED BY <1>1, <1>2, <1>5 DEF Extends

\* A chain that gets one more run at its end.
LEMMA GoesOnFrom ==
  ASSUME NEW seq \in Seq(Runs), NEW r \in Runs
  PROVE  Extends(Append(seq, r), seq) /\ Append(seq, r)[Len(seq) + 1] = r
<1> DEFINE more == Append(seq, r)
<1>1. /\ more \in Seq(Runs) /\ Len(more) = Len(seq) + 1 /\ Len(seq) \in Nat
      /\ more[Len(seq) + 1] = r /\ \A i \in 1..Len(seq) : more[i] = seq[i]
  BY AppendProperties, LenProperties
<1>2. SubSeq(more, 1, Len(seq)) = [i \in 1..Len(seq) |-> more[i]]
  BY <1>1, SubSeqProperties
<1>3. SubSeq(more, 1, Len(seq)) \in Seq(Runs) /\ Len(SubSeq(more, 1, Len(seq))) = Len(seq)
  BY <1>1, SubSeqProperties
<1>4. SubSeq(more, 1, Len(seq)) = seq
  BY <1>1, <1>2, <1>3, SeqEqual
<1> QED BY <1>1, <1>4 DEF Extends

\* The place of a run in the succession of published runs.
PlaceKept(r) ==
  pc[r] = "published" \/ (pc[r] = "over" /\ exit[r] \in {0, 7}) =>
    /\ token[r] \in Seq(Runs)
    /\ Extends(chain, token[r]) /\ chain[Len(token[r]) + 1] = r

GlobalType ==
  /\ chain \in Seq(Runs) /\ swapping \in Recoverers \cup {None}
  /\ plan \in [Recoverers -> Runs \cup {None}] /\ deleting \in [Recoverers -> BOOLEAN]

ChainFrozen == \A i \in 1..Len(chain) : terminal[chain[i]] # None

\* A deletion holds the pointer lock, and what it deletes is the private
\* directory of the current run: frozen, failed, and with nobody alive in it.
DeleteKept(o) ==
  deleting[o] =>
    /\ swapping = o /\ plan[o] \in Runs
    /\ terminal[plan[o]] # None /\ ~terminal[plan[o]].passed /\ Has(plan[o], "snapshot")
    /\ ~alive[plan[o]] /\ leaf[plan[o]] # None
    /\ Current = plan[o]
    /\ leaf[plan[o]] \subseteq files[plan[o]].snapshot.members
    /\ scribbles[plan[o]] = files[plan[o]].snapshot.version

RecoveryInv ==
  /\ Shape /\ GlobalType /\ ChainFrozen
  /\ \A r \in Runs : RunKept(r) /\ PlaceKept(r)
  /\ \A o \in Recoverers : DeleteKept(o)

-----------------------------------------------------------------------------
(* What is left to do once a run is frozen.                                 *)

\* All that can still happen to a run whose evidence is frozen.
LEMMA LateSteps ==
  ASSUME Shape, NEW r \in Runs, RunStep(r), pc[r] \in {"frozen", "published", "over"}
  PROVE  Publish(r) \/ Confirm(r) \/ Abandon(r) \/ Scribble(r) \/ ServicesEnd(r)
<1>1. ~ValidatorStep(r)
  BY DEF ValidatorStep, Preflight, WriteAudio, WriteCase, Summarise, ValidatorFails,
         WriteFailedCase, WriteFailure, SummariseFailure, ValidatorDies, Writes, Goes, Validating
<1>2. ~LauncherStep(r)
  BY DEF LauncherStep, StartServices, StartValidator, LaunchFails, Cleanup, RecordInner,
         LauncherDies, Goes, Validating
<1>3. ~PrepareRun(r) /\ ~Launch(r) /\ ~CommitLogs(r) /\ ~PrepareFinalization(r)
      /\ ~RemovePrivate(r) /\ ~Finalize(r) /\ ~Freeze(r) /\ ~SnapshotCurrent(r)
  BY DEF PrepareRun, Launch, CommitLogs, PrepareFinalization, RemovePrivate, Finalize, Freeze,
         SnapshotCurrent, Goes
<1> QED BY <1>1, <1>2, <1>3 DEF RunStep, SupervisorStep

\* A run is published by its publication, and over by its confirmation or because
\* its supervisor gave up.
LEMMA LateArrivals ==
  ASSUME Shape, NEW r \in Runs, RunStep(r), pc'[r] \in {"published", "over"}
  PROVE  Publish(r) \/ Confirm(r) \/ Abandon(r) \/ Scribble(r) \/ ServicesEnd(r)
<1> USE DEF Shape, Goes
<1>1. ~ValidatorStep(r)
  <2>1. ~Preflight(r) /\ ~WriteAudio(r) /\ ~WriteCase(r) /\ ~Summarise(r)
    BY DEF Preflight, WriteAudio, WriteCase, Summarise, Writes
  <2>2. ~ValidatorFails(r) /\ ~WriteFailedCase(r) /\ ~WriteFailure(r) /\ ~SummariseFailure(r)
        /\ ~ValidatorDies(r)
    BY DEF ValidatorFails, WriteFailedCase, WriteFailure, SummariseFailure, ValidatorDies, Writes,
           Validating
  <2> QED BY <2>1, <2>2 DEF ValidatorStep
<1>2. ~LauncherStep(r)
  BY DEF LauncherStep, StartServices, StartValidator, LaunchFails, Cleanup, RecordInner,
         LauncherDies, Validating
<1>3. ~PrepareRun(r) /\ ~Launch(r) /\ ~CommitLogs(r) /\ ~PrepareFinalization(r)
      /\ ~RemovePrivate(r) /\ ~Finalize(r) /\ ~Freeze(r) /\ ~SnapshotCurrent(r)
  BY DEF PrepareRun, Launch, CommitLogs, PrepareFinalization, RemovePrivate, Finalize, Freeze,
         SnapshotCurrent
<1> QED BY <1>1, <1>2, <1>3 DEF RunStep, SupervisorStep

\* A frozen run stays as it is; what is dead in it stays dead, and dead services
\* write nothing.
LEMMA FrozenStays ==
  ASSUME Shape, NEW r \in Runs, RunKept(r), RunStep(r), UNCHANGED recoveryVars,
         terminal[r] # None
  PROVE  /\ terminal'[r] = terminal[r] /\ files'[r] = files[r] /\ leaf'[r] = leaf[r]
         /\ ~alive[r] => ~alive'[r] /\ scribbles'[r] = scribbles[r]
<1>1. Publish(r) \/ Confirm(r) \/ Abandon(r) \/ Scribble(r) \/ ServicesEnd(r)
  BY LateSteps DEF RunKept, SealKept
<1>2. UNCHANGED <<terminal, files, leaf>>
  BY <1>1 DEF Publish, Confirm, Abandon, Scribble, ServicesEnd, storeVars
<1>3. ~alive[r] => ~alive'[r] /\ scribbles'[r] = scribbles[r]
  BY <1>1 DEF Publish, Confirm, Abandon, Scribble, ServicesEnd, storeVars, Shape
<1> QED BY <1>2, <1>3

\* Whoever moves the pointer moves it on from where it is, to a frozen run, while
\* nobody holds the lock.
PointerMoves(r) ==
  swapping = None /\ terminal[r] # None /\ chain' = Append(chain, r)

\* A run that does not move keeps its place in the chain, whoever else
\* publishes.
LEMMA PlaceStays ==
  ASSUME GlobalType, NEW r \in Runs, PlaceKept(r), NEW q \in Runs,
         UNCHANGED <<pc[r], token[r], exit[r]>>, UNCHANGED chain \/ PointerMoves(q)
  PROVE  PlaceKept(r)'
<1> SUFFICES ASSUME pc'[r] = "published" \/ (pc'[r] = "over" /\ exit'[r] \in {0, 7})
             PROVE  /\ token'[r] \in Seq(Runs)
                    /\ Extends(chain', token'[r]) /\ chain'[Len(token'[r]) + 1] = r
  BY DEF PlaceKept, Extends
<1>1. /\ token[r] \in Seq(Runs)
      /\ Extends(chain, token[r]) /\ chain[Len(token[r]) + 1] = r
  BY DEF PlaceKept
<1>2. CASE UNCHANGED chain
  BY <1>1, <1>2
<1>3. CASE PointerMoves(q)
  BY <1>1, <1>3, GoesOn DEF PointerMoves, GlobalType
<1> QED BY <1>2, <1>3

\* A run that moves keeps its place in the chain, or gets one.
LEMMA PlaceKeeps ==
  ASSUME Shape, GlobalType, NEW r \in Runs, RunKept(r), PlaceKept(r), RunStep(r),
         UNCHANGED chain \/ PointerMoves(r)
  PROVE  PlaceKept(r)'
<1>1. CASE pc'[r] \notin {"published", "over"}
  BY <1>1 DEF PlaceKept
<1>2. CASE Publish(r)
  <2>1. pc'[r] = "published" /\ token'[r] = token[r] /\ token[r] = chain /\ chain' = Append(chain, r)
    BY <1>2 DEF Publish, Goes, Swap, TokenMatches, Shape
  <2>2. Extends(chain', token'[r]) /\ chain'[Len(token'[r]) + 1] = r /\ token'[r] \in Seq(Runs)
    BY <2>1, GoesOnFrom DEF GlobalType
  <2> QED BY <2>2 DEF PlaceKept, Extends
<1>3. CASE Confirm(r)
  <2>1. pc[r] = "published" /\ token' = token /\ chain' = chain
    BY <1>3 DEF Confirm, Goes, storeVars
  <2> QED BY <2>1 DEF PlaceKept, Extends
<1>4. CASE Abandon(r)
  <2>1. exit'[r] = 1 /\ (pc'[r] = "published" => FALSE)
    BY <1>4 DEF Abandon, Shape, Supervising
  <2> QED BY <2>1 DEF PlaceKept
<1>5. CASE Scribble(r) \/ ServicesEnd(r)
  <2>1. UNCHANGED <<pc[r], token[r], exit[r], chain>>
    BY <1>5 DEF Scribble, ServicesEnd, storeVars
  <2> QED BY <2>1, PlaceStays
<1> QED BY <1>1, <1>2, <1>3, <1>4, <1>5, LateArrivals

-----------------------------------------------------------------------------
(* The invariant through every step of the system.                          *)

\* A publication is put after those there are.
LEMMA ChainGrows ==
  ASSUME GlobalType, ChainFrozen, NEW r \in Runs, PointerMoves(r),
         \A q \in Runs : terminal[q] # None => terminal'[q] # None
  PROVE  chain' \in Seq(Runs) /\ ChainFrozen'
<1>1. /\ chain' \in Seq(Runs) /\ Len(chain') = Len(chain) + 1 /\ Len(chain) \in Nat
      /\ \A i \in 1..Len(chain) : chain'[i] = chain[i]
      /\ chain'[Len(chain) + 1] = r
  BY AppendProperties, LenProperties DEF GlobalType, PointerMoves
<1>2. ASSUME NEW i \in 1..Len(chain') PROVE terminal'[chain'[i]] # None
  <2>1. CASE i \in 1..Len(chain)
    <3>1. chain[i] \in Runs /\ terminal[chain[i]] # None
      BY <2>1, ElementOfSeq DEF GlobalType, ChainFrozen
    <3> QED BY <1>1, <2>1, <3>1
  <2>2. CASE i = Len(chain) + 1
    BY <1>1, <2>2 DEF PointerMoves
  <2> QED BY <1>1, <1>2, <2>1, <2>2
<1> QED BY <1>1, <1>2 DEF ChainFrozen

\* A run's own step leaves a deletion alone: the run that is deleted is frozen
\* and dead, and the pointer is locked.
LEMMA DeleteStays ==
  ASSUME RecoveryInv, NEW r \in Runs, RunStep(r), UNCHANGED recoveryVars,
         OthersStay(r), UNCHANGED swapping, UNCHANGED chain \/ PointerMoves(r),
         NEW o \in Recoverers
  PROVE  DeleteKept(o)'
<1> SUFFICES ASSUME deleting'[o] PROVE DeleteKept(o)'
  BY DEF DeleteKept
<1> DEFINE q == plan[o]
<1>1. deleting[o] /\ plan' = plan
  BY DEF recoveryVars
<1>2. /\ swapping = o /\ q \in Runs
      /\ terminal[q] # None /\ ~terminal[q].passed /\ Has(q, "snapshot")
      /\ ~alive[q] /\ leaf[q] # None
      /\ Current = q
      /\ leaf[q] \subseteq files[q].snapshot.members
      /\ scribbles[q] = files[q].snapshot.version
  BY <1>1 DEF RecoveryInv, DeleteKept
<1>3. chain' = chain
  BY <1>2, MissingAssumption DEF PointerMoves
<1>4. /\ terminal'[q] = terminal[q] /\ files'[q] = files[q] /\ leaf'[q] = leaf[q]
      /\ ~alive'[q] /\ scribbles'[q] = scribbles[q]
  <2>1. CASE q = r
    BY <1>2, <2>1, FrozenStays DEF RecoveryInv
  <2>2. CASE q # r
    BY <1>2, <2>2 DEF OthersStay, At
  <2> QED BY <2>1, <2>2
<1> QED BY <1>1, <1>2, <1>3, <1>4 DEF DeleteKept, Current, Has

\* A step of a supervised run keeps the whole invariant.
LEMMA SupervisionKeeps ==
  ASSUME RecoveryInv, NEW r \in Runs, RunStep(r), UNCHANGED recoveryVars
  PROVE  RecoveryInv'
<1>1. /\ Shape' /\ OthersStay(r) /\ UNCHANGED swapping
      /\ UNCHANGED chain \/ PointerMoves(r)
  BY RunFrame DEF RecoveryInv, Publish, Swap, VerifyRun, PointerMoves
<1>2. \A q \in Runs : RunKept(q)'
  <2>1. RunKept(r)'
    BY RunKeeps DEF RecoveryInv
  <2>2. ASSUME NEW q \in Runs \ {r} PROVE RunKept(q)'
    <3>1. RunKept(q) /\ UNCHANGED At(q)
      BY <1>1 DEF RecoveryInv, OthersStay
    <3>2. RunType(q)' /\ LeafKept(q)' /\ OverKept(q)'
      BY <3>1 DEF At, RunKept, RunType, LeafKept, OverKept
    <3>3. CleanupKept(q)' /\ SealKept(q)'
      BY <3>1 DEF At, RunKept, CleanupKept, SealKept, Sealed, Has
    <3> QED BY <3>2, <3>3 DEF RunKept
  <2> QED BY <2>1, <2>2
<1>3. \A q \in Runs : PlaceKept(q)'
  <2>1. PlaceKept(r)'
    BY <1>1, PlaceKeeps DEF RecoveryInv
  <2>2. ASSUME NEW q \in Runs \ {r} PROVE PlaceKept(q)'
    BY <1>1, PlaceStays DEF RecoveryInv, OthersStay, At
  <2> QED BY <2>1, <2>2
<1>4. \A q \in Runs : terminal[q] # None => terminal'[q] # None
  <2>1. terminal[r] # None => terminal'[r] # None
    BY FrozenStays DEF RecoveryInv
  <2> QED BY <1>1, <2>1 DEF OthersStay, At
<1>5. chain' \in Seq(Runs) /\ ChainFrozen'
  <2>1. CASE PointerMoves(r)
    BY <1>4, <2>1, ChainGrows DEF RecoveryInv
  <2>2. CASE UNCHANGED chain
    BY <1>4, <2>2, ElementOfSeq DEF RecoveryInv, ChainFrozen, GlobalType
  <2> QED BY <1>1, <2>1, <2>2
<1>6. GlobalType'
  BY <1>1, <1>5 DEF RecoveryInv, GlobalType, recoveryVars
<1>7. \A o \in Recoverers : DeleteKept(o)'
  BY <1>1, DeleteStays
<1> QED BY <1>1, <1>2, <1>3, <1>5, <1>6, <1>7 DEF RecoveryInv

\* What neither the runs nor the store notice.
LEMMA RunsUntouched ==
  ASSUME RecoveryInv, UNCHANGED <<files, terminal, chain, runVars>>
  PROVE  /\ Shape' /\ ChainFrozen'
         /\ \A r \in Runs : RunKept(r)' /\ PlaceKept(r)'
<1> USE DEF runVars
<1>1. Shape' /\ ChainFrozen'
  BY DEF RecoveryInv, Shape, ChainFrozen
<1>2. ASSUME NEW r \in Runs PROVE RunKept(r)' /\ PlaceKept(r)'
  <2>1. RunType(r)' /\ LeafKept(r)' /\ OverKept(r)'
    BY DEF RecoveryInv, RunKept, RunType, LeafKept, OverKept
  <2>2. CleanupKept(r)' /\ SealKept(r)'
    BY DEF RecoveryInv, RunKept, CleanupKept, SealKept, Sealed, Has
  <2>3. PlaceKept(r)'
    BY DEF RecoveryInv, PlaceKept, Extends
  <2> QED BY <2>1, <2>2, <2>3 DEF RunKept
<1> QED BY <1>1, <1>2

\* One recovery's step, as far as the other deletions are concerned.
LEMMA OtherDeletions ==
  ASSUME RecoveryInv, NEW o \in Recoverers, ~deleting[o],
         UNCHANGED <<files, terminal, chain, runVars>>,
         NEW e \in Recoverers \ {o}, plan'[e] = plan[e], deleting'[e] = deleting[e],
         swapping' = swapping \/ (swapping = None /\ swapping' = o)
  PROVE  DeleteKept(e)'
<1> USE DEF runVars
<1>1. deleting[e] => swapping = e /\ swapping' = e
  BY MissingAssumption DEF RecoveryInv, DeleteKept
<1> QED BY <1>1 DEF RecoveryInv, DeleteKept, Current, Has

\* Only one recovery deletes at a time.
LEMMA LockIsOne ==
  ASSUME RecoveryInv, NEW o \in Recoverers, deleting[o], NEW e \in Recoverers \ {o}
  PROVE  ~deleting[e]
BY DEF RecoveryInv, DeleteKept

\* What a frozen and failed run keeps of its invariant while a recovery deletes
\* its private directory.
LEMMA LeafDeleted ==
  ASSUME RecoveryInv, NEW o \in Recoverers, deleting[o],
         NEW rest, rest = None \/ rest \subseteq leaf[plan[o]],
         leaf' = [leaf EXCEPT ![plan[o]] = rest],
         UNCHANGED <<files, terminal, chain, pc, supervised, token, scribbles, alive, verdict,
                     cleanup, childExit, exit>>
  PROVE  /\ Shape' /\ ChainFrozen'
         /\ \A r \in Runs : RunKept(r)' /\ PlaceKept(r)'
<1> DEFINE q == plan[o]
<1>1. /\ q \in Runs /\ terminal[q] # None /\ ~terminal[q].passed /\ leaf[q] # None
      /\ pc[q] \in {"frozen", "published", "over"} /\ leaf[q] \subseteq PrivateMembers
  BY DEF RecoveryInv, DeleteKept, RunKept, SealKept, RunType
<1>2. Shape' /\ ChainFrozen'
  BY DEF RecoveryInv, Shape, ChainFrozen
<1>3. ASSUME NEW r \in Runs PROVE RunKept(r)' /\ PlaceKept(r)'
  <2>0. leaf'[r] = IF r = q THEN rest ELSE leaf[r]
    BY <1>1 DEF RecoveryInv, Shape
  <2>1. RunType(r)'
    BY <1>1, <2>0 DEF RecoveryInv, RunKept, RunType
  <2>2. LeafKept(r)' /\ OverKept(r)'
    <3>1. LeafKept(r) /\ OverKept(r) /\ pc' = pc /\ supervised' = supervised
      BY DEF RecoveryInv, RunKept
    <3>2. CASE r = q
      <4>1. pc[r] \notin Launched \cup {"launching"}
        BY <1>1, <3>2 DEF Launched, Validating
      <4> QED BY <3>1, <4>1 DEF LeafKept, OverKept
    <3>3. CASE r # q
      BY <2>0, <3>1, <3>3 DEF LeafKept, OverKept
    <3> QED BY <3>2, <3>3
  <2>3. CleanupKept(r)'
    BY DEF RecoveryInv, RunKept, CleanupKept, Has
  <2>4. SealKept(r)'
    BY <1>1, <2>0 DEF RecoveryInv, RunKept, SealKept, Sealed, Has
  <2>5. PlaceKept(r)'
    BY DEF RecoveryInv, PlaceKept, Extends
  <2> QED BY <2>1, <2>2, <2>3, <2>4, <2>5 DEF RunKept
<1> QED BY <1>2, <1>3

\* A step of a recovery keeps the whole invariant.
LEMMA RecoveryKeeps ==
  ASSUME RecoveryInv, NEW o \in Recoverers, RecoveryStep(o)
  PROVE  RecoveryInv'
<1>1. ASSUME NEW r \in Runs, Plan(o, r) PROVE RecoveryInv'
  <2>1. UNCHANGED <<files, terminal, chain, swapping, deleting, runVars>> /\ plan[o] = None
        /\ plan' = [plan EXCEPT ![o] = r]
    BY <1>1 DEF Plan, storeVars
  <2>2. GlobalType'
    BY <2>1 DEF RecoveryInv, GlobalType
  <2>3. ~deleting[o]
    BY <2>1, NoneAssumption DEF RecoveryInv, DeleteKept
  <2>4. \A e \in Recoverers : DeleteKept(e)'
    <3>1. DeleteKept(o)'
      BY <2>1, <2>3 DEF DeleteKept
    <3>2. ASSUME NEW e \in Recoverers \ {o} PROVE DeleteKept(e)'
      BY <2>1, <2>3, OtherDeletions DEF RecoveryInv, GlobalType
    <3> QED BY <3>1, <3>2
  <2> QED BY <2>1, <2>2, <2>4, RunsUntouched DEF RecoveryInv
<1>2. CASE Execute(o)
  <2> DEFINE q == plan[o]
  <2>1. /\ UNCHANGED <<files, terminal, chain, plan, runVars>> /\ q # None /\ ~deleting[o]
        /\ swapping = None /\ swapping' = o /\ deleting' = [deleting EXCEPT ![o] = TRUE]
        /\ VerifyCurrent(q) /\ ~terminal[q].passed /\ Has(q, "snapshot")
        /\ MatchesSnapshot(q) /\ ~alive[q]
    BY <1>2 DEF Execute, TakesLock, Eligible, OwnersEnded
  <2>2. q \in Runs
    BY <2>1 DEF RecoveryInv, GlobalType
  <2>3. GlobalType'
    BY <2>1 DEF RecoveryInv, GlobalType
  <2>4. leaf[q] # None
    BY <2>1 DEF MatchesSnapshot
  <2>5. DeleteKept(o)'
    BY <2>1, <2>2, <2>4
    DEF DeleteKept, VerifyCurrent, VerifyRun, MatchesSnapshot, Current, Has, runVars
  <2>6. ASSUME NEW e \in Recoverers \ {o} PROVE DeleteKept(e)'
    BY <2>1, OtherDeletions DEF RecoveryInv, GlobalType
  <2> QED BY <2>1, <2>3, <2>5, <2>6, RunsUntouched DEF RecoveryInv
<1>3. CASE DeleteRole(o)
  <2>1. /\ deleting[o]
        /\ UNCHANGED <<files, terminal, chain, swapping, plan, deleting, pc, supervised, token,
                       scribbles, alive, verdict, cleanup, childExit, exit>>
    BY <1>3 DEF DeleteRole, storeVars, recoveryVars
  <2>2. PICK i \in DOMAIN DeleteOrder :
          leaf' = [leaf EXCEPT ![plan[o]] = @ \ {DeleteOrder[i]}]
    BY <1>3 DEF DeleteRole
  <2>3. plan[o] \in Runs
    BY <2>1 DEF RecoveryInv, DeleteKept
  <2>4. leaf' = [leaf EXCEPT ![plan[o]] = leaf[plan[o]] \ {DeleteOrder[i]}]
    BY <2>2
  <2> HIDE <2>2
  <2>5. /\ Shape' /\ ChainFrozen'
        /\ \A r \in Runs : RunKept(r)' /\ PlaceKept(r)'
    BY <2>1, <2>4, LeafDeleted
  <2>6. GlobalType'
    BY <2>1 DEF RecoveryInv, GlobalType
  <2>7. DeleteKept(o)'
    <3>1. leaf'[plan[o]] = leaf[plan[o]] \ {DeleteOrder[i]}
      BY <2>3, <2>4 DEF RecoveryInv, Shape
    <3>2. leaf'[plan[o]] \subseteq PrivateMembers
      BY <2>1, <2>3, <3>1 DEF RecoveryInv, RunKept, RunType, DeleteKept
    <3>3. leaf'[plan[o]] # None
      BY <3>2, MissingAssumption
    <3> QED BY <2>1, <3>1, <3>3 DEF RecoveryInv, DeleteKept, Current, Has
  <2>8. ASSUME NEW e \in Recoverers \ {o} PROVE DeleteKept(e)'
    BY <2>1, LockIsOne DEF DeleteKept
  <2> QED BY <2>5, <2>6, <2>7, <2>8 DEF RecoveryInv
<1>4. CASE DeleteLeaf(o)
  <2>1. /\ deleting[o]
        /\ leaf' = [leaf EXCEPT ![plan[o]] = None]
        /\ plan' = [plan EXCEPT ![o] = None]
        /\ deleting' = [deleting EXCEPT ![o] = FALSE]
        /\ swapping' = None
        /\ UNCHANGED <<files, terminal, chain, pc, supervised, token, scribbles, alive, verdict,
                       cleanup, childExit, exit>>
    BY <1>4 DEF DeleteLeaf
  <2>2. /\ Shape' /\ ChainFrozen'
        /\ \A r \in Runs : RunKept(r)' /\ PlaceKept(r)'
    BY <2>1, LeafDeleted
  <2>3. GlobalType'
    BY <2>1 DEF RecoveryInv, GlobalType
  <2>4. DeleteKept(o)'
    BY <2>1 DEF RecoveryInv, GlobalType, DeleteKept
  <2>5. ASSUME NEW e \in Recoverers \ {o} PROVE DeleteKept(e)'
    <3>1. deleting'[e] = deleting[e] /\ ~deleting[e]
      BY <2>1, LockIsOne DEF RecoveryInv, GlobalType
    <3> QED BY <3>1 DEF DeleteKept
  <2> QED BY <2>2, <2>3, <2>4, <2>5 DEF RecoveryInv
<1>5. CASE Quit(o)
  <2>1. /\ UNCHANGED <<files, terminal, chain, runVars>>
        /\ plan' = [plan EXCEPT ![o] = None]
        /\ deleting' = [deleting EXCEPT ![o] = FALSE]
        /\ swapping' = IF deleting[o] THEN None ELSE swapping
    BY <1>5 DEF Quit
  <2>2. GlobalType'
    BY <2>1 DEF RecoveryInv, GlobalType
  <2>3. DeleteKept(o)'
    BY <2>1 DEF RecoveryInv, GlobalType, DeleteKept
  <2>4. ASSUME NEW e \in Recoverers \ {o} PROVE DeleteKept(e)'
    <3>1. deleting'[e] = deleting[e] /\ plan'[e] = plan[e]
      BY <2>1 DEF RecoveryInv, GlobalType
    <3>2. CASE deleting[o]
      BY <3>1, <3>2, LockIsOne DEF DeleteKept
    <3>3. CASE ~deleting[o]
      BY <2>1, <3>1, <3>3, OtherDeletions
    <3> QED BY <3>2, <3>3
  <2> QED BY <2>1, <2>2, <2>3, <2>4, RunsUntouched DEF RecoveryInv
<1> QED BY <1>1, <1>2, <1>3, <1>4, <1>5 DEF RecoveryStep

\* What the operator does keeps the whole invariant.
LEMMA OperatorKeeps ==
  ASSUME RecoveryInv, OperatorStep
  PROVE  RecoveryInv'
<1>1. CASE OperatorReads \/ CommitRefused
  <2>1. UNCHANGED <<storeVars, runVars, plan, deleting>>
    BY <1>1 DEF OperatorReads, CommitRefused
  <2>2. GlobalType'
    BY <2>1 DEF storeVars, RecoveryInv, GlobalType
  <2>3. \A o \in Recoverers : DeleteKept(o)'
    BY <2>1 DEF storeVars, runVars, RecoveryInv, DeleteKept, Current, Has
  <2> QED BY <2>1, <2>2, <2>3, RunsUntouched DEF storeVars, RecoveryInv
<1>2. ASSUME NEW r \in Runs, CommitRun(r) PROVE RecoveryInv'
  <2>1. PointerMoves(r) /\ UNCHANGED <<files, terminal, swapping, runVars, plan, deleting>>
    BY <1>2 DEF CommitRun, Swap, VerifyRun, PointerMoves
  <2>2. chain' \in Seq(Runs) /\ ChainFrozen'
    BY <2>1, ChainGrows DEF RecoveryInv
  <2>3. GlobalType' /\ Shape'
    BY <2>1, <2>2 DEF RecoveryInv, GlobalType, Shape, runVars
  <2>4. ASSUME NEW q \in Runs PROVE RunKept(q)' /\ PlaceKept(q)'
    <3>1. RunType(q)' /\ LeafKept(q)' /\ OverKept(q)'
      BY <2>1 DEF runVars, RecoveryInv, RunKept, RunType, LeafKept, OverKept
    <3>2. CleanupKept(q)' /\ SealKept(q)'
      BY <2>1 DEF runVars, RecoveryInv, RunKept, CleanupKept, SealKept, Sealed, Has
    <3>3. PlaceKept(q)'
      BY <2>1, PlaceStays DEF runVars, RecoveryInv
    <3> QED BY <3>1, <3>2, <3>3 DEF RunKept
  <2>5. ASSUME NEW o \in Recoverers PROVE DeleteKept(o)'
    BY <2>1, MissingAssumption DEF RecoveryInv, DeleteKept, PointerMoves
  <2> QED BY <2>2, <2>3, <2>4, <2>5 DEF RecoveryInv
<1> QED BY <1>1, <1>2 DEF OperatorStep

-----------------------------------------------------------------------------
(* The theorems.                                                            *)

\* At first the invariant holds.
LEMMA RecoveryInit == Init => RecoveryInv
<1> SUFFICES ASSUME Init PROVE RecoveryInv
  OBVIOUS
<1> USE DEF Init, StoreInit, RunInit
<1>1. Shape /\ GlobalType /\ ChainFrozen
  BY EmptySeq DEF Shape, GlobalType, ChainFrozen
<1>2. ASSUME NEW r \in Runs PROVE RunKept(r) /\ PlaceKept(r)
  <2>1. RunType(r)
    BY ScribbleAssumption DEF RunType, PCs, Names
  <2>2. LeafKept(r) /\ OverKept(r) /\ PlaceKept(r)
    BY DEF LeafKept, OverKept, PlaceKept, Launched, Validating
  <2>3. CleanupKept(r) /\ SealKept(r)
    BY DEF CleanupKept, SealKept, Has
  <2> QED BY <2>1, <2>2, <2>3 DEF RunKept
<1>3. ASSUME NEW o \in Recoverers PROVE DeleteKept(o)
  BY DEF DeleteKept
<1> QED BY <1>1, <1>2, <1>3 DEF RecoveryInv

\* A step that changes nothing keeps the invariant.
LEMMA RecoveryStuttering ==
  ASSUME RecoveryInv, UNCHANGED vars
  PROVE  RecoveryInv'
<1>1. GlobalType'
  BY DEF vars, storeVars, recoveryVars, RecoveryInv, GlobalType
<1>2. ASSUME NEW o \in Recoverers PROVE DeleteKept(o)'
  BY DEF vars, storeVars, runVars, recoveryVars, RecoveryInv, DeleteKept, Current, Has
<1> QED BY <1>1, <1>2, RunsUntouched DEF vars, storeVars, RecoveryInv

\* The inductive invariant of supervision, recovery and publication.
THEOREM RecoveryInvariant == Spec => []RecoveryInv
<1>1. RecoveryInv /\ [Next]_vars => RecoveryInv'
  BY SupervisionKeeps, RecoveryKeeps, OperatorKeeps, RecoveryStuttering DEF Next, Supervision
<1> QED BY <1>1, RecoveryInit, PTL DEF Spec

\* A supervisor whose compare-and-swap went through published its run right after
\* the publication it had seen before it started, in every interleaving of any
\* number of runs, operators and recoveries (compare_and_swap_current).
THEOREM PublicationsKept == Spec => []NoLostPublication
<1>1. RecoveryInv => NoLostPublication
  BY DEF RecoveryInv, PlaceKept, NoLostPublication
<1> QED BY <1>1, RecoveryInvariant, PTL

\* A recovery deletes only what the public snapshot of the current run has
\* committed to, byte for byte, up to its last step
\* (execute_recovery_delete).
THEOREM DeletionCommitted == Spec => []DeletesOnlyCommitted
<1>1. RecoveryInv => DeletesOnlyCommitted
  BY DEF RecoveryInv, DeleteKept, DeletesOnlyCommitted
<1> QED BY <1>1, RecoveryInvariant, PTL

\* The evidence of a published run agrees with itself and with what is left of the
\* run, whatever runs, recoveries and operators do after its publication
\* (verify_run_artifacts, finalize_supervision).
THEOREM PublishedEvidence == Spec => []PublishedIsTrue
<1>1. ASSUME RecoveryInv, NEW i \in 1..Len(chain)
      PROVE  chain[i] \in Runs /\ terminal[chain[i]] # None /\ Sealed(chain[i])
  <2>1. chain[i] \in Runs
    BY <1>1, ElementOfSeq DEF RecoveryInv, GlobalType
  <2> QED BY <1>1, <2>1 DEF RecoveryInv, ChainFrozen, RunKept, SealKept
<1>2. RecoveryInv => PassedIsClean
  BY <1>1 DEF PassedIsClean, Sealed
<1>3. RecoveryInv => EvidenceAgrees
  BY <1>1 DEF EvidenceAgrees, VerifyRun, Sealed
<1>4. RecoveryInv => TypeOK
  <2> SUFFICES ASSUME RecoveryInv PROVE TypeOK
    OBVIOUS
  <2>1. ASSUME NEW r \in Runs, terminal[r] # None
        PROVE  DOMAIN terminal[r].commits \subseteq Names
    BY <2>1 DEF RecoveryInv, RunKept, RunType, SealKept, Sealed
  <2>2. \A r \in Runs : RunType(r)
    BY DEF RecoveryInv, RunKept
  <2> QED BY <2>1, <2>2 DEF RecoveryInv, GlobalType, TypeOK, RunType
<1> QED BY <1>2, <1>3, <1>4, RecoveryInvariant, PTL DEF PublishedIsTrue

\* Only two kinds of step of a run remove something of its private directory.
LEMMA RunShrinks ==
  ASSUME RecoveryInv, NEW r \in Runs, NEW q \in Runs, RunStep(q), UNCHANGED recoveryVars,
         Shrinks(r)
  PROVE  r = q /\ (Cleanup(r) \/ RemovePrivate(r))
<1>1. r = q
  <2>1. r # q => leaf'[r] = leaf[r]
    BY RunFrame DEF RecoveryInv, OthersStay, At
  <2> QED BY <2>1 DEF Shrinks
<1>2. ~(ValidatorStep(r) \/ SnapshotCurrent(r) \/ Scribble(r) \/ ServicesEnd(r))
  BY DEF Shrinks, SnapshotCurrent, Scribble, ServicesEnd, ValidatorStep, Preflight, WriteAudio,
         WriteCase, Summarise, ValidatorFails, WriteFailedCase, WriteFailure, SummariseFailure,
         ValidatorDies, Writes
<1>3. ~(PrepareRun(r) \/ Launch(r) \/ StartServices(r) \/ StartValidator(r))
  <2>0. /\ DOMAIN leaf = Runs
        /\ pc[r] = "launching" => leaf[r] = {}
        /\ pc[r] \in {"starting", "started"} => leaf[r] \subseteq PrivateMembers
    BY DEF RecoveryInv, Shape, RunKept, RunType, LeafKept, Launched
  <2>1. ~PrepareRun(r)
    BY DEF PrepareRun, Shrinks
  <2>2. ~Launch(r)
    <3> SUFFICES ASSUME Launch(r) PROVE FALSE
      OBVIOUS
    <3>1. leaf[r] = {} /\ leaf'[r] = {"p", "o"}
      BY <2>0 DEF Launch, Goes
    <3>2. leaf'[r] \in SUBSET PrivateMembers
      BY <3>1 DEF PrivateMembers
    <3> QED BY <3>1, <3>2, MissingAssumption DEF Shrinks
  <2>3. ASSUME NEW m \in {"c", "h"}, leaf'[r] = leaf[r] \cup {m}, leaf[r] \subseteq PrivateMembers
        PROVE  FALSE
    <3>1. leaf'[r] \in SUBSET PrivateMembers
      BY <2>3 DEF PrivateMembers
    <3> QED BY <2>3, <3>1, MissingAssumption DEF Shrinks
  <2>4. ~StartServices(r)
    BY <2>0, <2>3 DEF StartServices, Goes
  <2>5. ~StartValidator(r)
    BY <2>0, <2>3 DEF StartValidator, Goes
  <2> QED BY <2>1, <2>2, <2>4, <2>5
<1>4. ~(LaunchFails(r) \/ RecordInner(r) \/ LauncherDies(r))
  BY DEF Shrinks, LaunchFails, RecordInner, LauncherDies
<1>5. ~(CommitLogs(r) \/ PrepareFinalization(r) \/ Finalize(r) \/ Freeze(r) \/ Publish(r)
        \/ Confirm(r) \/ Abandon(r))
  BY DEF Shrinks, CommitLogs, PrepareFinalization, Finalize, Freeze, Publish, Confirm, Abandon
<1> QED BY <1>1, <1>2, <1>3, <1>4, <1>5 DEF RunStep, SupervisorStep, LauncherStep

\* A private directory loses a member only when no service of its run is alive, and
\* only to the launcher's cleanup, to the supervisor once it is empty, or to a
\* recovery of the current run after its failure.
THEOREM PrivateBytesKept == Spec => PrivateKept
<1> DEFINE Allowed(r) ==
      /\ ~alive'[r]
      /\ \/ pc[r] = "cleaning"
         \/ pc[r] = "removing" /\ leaf[r] = {}
         \/ Current = r /\ ~terminal[r].passed
<1>1. ASSUME RecoveryInv, [Next]_vars, NEW r \in Runs, Shrinks(r)
      PROVE  Allowed(r)
  <2>1. ASSUME NEW q \in Runs, RunStep(q), UNCHANGED recoveryVars PROVE Allowed(r)
    <3>1. CASE Cleanup(r)
      <4>1. PICK stopped \in BOOLEAN, rest \in Remainders(leaf[r]) :
              /\ rest # leaf[r] => stopped
              /\ alive' = [alive EXCEPT ![r] = @ /\ ~stopped]
              /\ leaf' = [leaf EXCEPT ![r] = rest]
        BY <3>1 DEF Cleanup, RemovalAuthorized
      <4>2. leaf'[r] = rest /\ pc[r] = "cleaning" /\ leaf[r] # None
        BY <1>1, <3>1, <4>1 DEF Cleanup, Goes, RecoveryInv, Shape, Shrinks
      <4>3. rest # leaf[r]
        BY <1>1, <4>2 DEF Shrinks
      <4>4. ~alive'[r]
        BY <1>1, <4>1, <4>3 DEF RecoveryInv, Shape
      <4> QED BY <4>2, <4>4
    <3>2. CASE RemovePrivate(r)
      <4>1. pc[r] = "removing" /\ leaf[r] = {} /\ alive' = alive
        BY <3>2 DEF RemovePrivate, Goes
      <4>2. ~alive[r]
        BY <1>1, <4>1 DEF RecoveryInv, RunKept, CleanupKept
      <4> QED BY <4>1, <4>2
    <3> QED BY <1>1, <2>1, <3>1, <3>2, RunShrinks
  <2>2. ASSUME NEW o \in Recoverers, RecoveryStep(o) PROVE Allowed(r)
    <3>1. UNCHANGED <<alive, leaf>> \/ (deleting[o] /\ alive' = alive /\ \E v : leaf' = [leaf EXCEPT ![plan[o]] = v])
      BY <2>2 DEF RecoveryStep, Plan, Execute, DeleteRole, DeleteLeaf, Quit, runVars
    <3>2. leaf'[r] # leaf[r]
      BY <1>1 DEF Shrinks
    <3>3. deleting[o] /\ alive' = alive /\ r = plan[o]
      BY <1>1, <3>1, <3>2 DEF RecoveryInv, Shape
    <3> QED BY <1>1, <3>3 DEF RecoveryInv, DeleteKept
  <2>3. CASE OperatorStep
    BY <1>1, <2>3 DEF OperatorStep, OperatorReads, CommitRefused, CommitRun, runVars, Shrinks
  <2>4. CASE UNCHANGED vars
    BY <1>1, <2>4 DEF vars, runVars, Shrinks
  <2> QED BY <1>1, <2>1, <2>2, <2>3, <2>4 DEF Next, Supervision
<1>2. RecoveryInv /\ [Next]_vars =>
        [\A r \in Runs : Shrinks(r) => Allowed(r)]_vars
  BY <1>1
<1> QED BY <1>2, RecoveryInvariant, PTL DEF PrivateKept, Spec
=============================================================================
