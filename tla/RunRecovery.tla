----------------------------- MODULE RunRecovery -----------------------------
(***************************************************************************)
(* Supervised runs beside the other users of their evidence: the explicit  *)
(* recovery of a failed run's private directory                            *)
(* (scripts/recover-windows-comfyui-reliability-run.ps1,                   *)
(* reliability_recovery.py) and an operator who publishes a frozen run by  *)
(* hand (reliability_evidence_cli.py commit-run).                          *)
(***************************************************************************)
EXTENDS RunSupervision

CONSTANTS
  Recoverers,   \* invocations of the recovery command
  MaxChain      \* publications

ASSUME ChainAssumption == MaxChain \in Nat

\* What a private directory may have: the temp root .p and the files .o, .c, .h
PrivateMembers == {"p", "o", "c", "h"}

\* What is not there is neither a recoverer nor a directory.
ASSUME MissingAssumption ==
  None \notin Recoverers /\ \A members \in SUBSET PrivateMembers : None # members

VARIABLES
  plan,       \* per recoverer, the run its capability token is for, or None
  deleting,   \* per recoverer, its delete transaction is open
  operator    \* the token the operator has read, or None

recoveryVars == <<plan, deleting, operator>>
vars == <<storeVars, runVars, recoveryVars>>

Init ==
  /\ StoreInit /\ RunInit
  /\ plan = [o \in Recoverers |-> None]
  /\ deleting = [o \in Recoverers |-> FALSE]
  /\ operator = None

----------------------------------------------------------------------------
(* _public_snapshot and _public_ownership_binding: the run is current and failed, with a  *)
(* failed cleanup, its snapshot and the lifecycle document of its launcher.               *)
Eligible(r) ==
  /\ VerifyCurrent(r)
  /\ ~terminal[r].passed /\ terminal[r].cleanup = "failed"
  /\ Has(r, "snapshot") /\ Has(r, "lifecycle")

(* Mutant: members are compared by name. *)
MatchesNames(r) ==
  files[r].snapshot.complete /\ leaf[r] = files[r].snapshot.members /\ "h" \in leaf[r]

(* open_private_recovery_delete_transaction and _owner_proof: the private directory is    *)
(* there, its bytes are the ones of the snapshot, and among them is the manifest .h.      *)
MatchesSnapshot(r) ==
  /\ leaf[r] # None
  /\ files[r].snapshot.complete
  /\ leaf[r] = files[r].snapshot.members /\ scribbles[r] = files[r].snapshot.version
  /\ "h" \in leaf[r]

(* The directory cannot be opened for deletion while a supervisor or another transaction  *)
(* holds it.                                                                              *)
LeafFree(r) == ~supervised[r] /\ \A o \in Recoverers : ~(deleting[o] /\ plan[o] = r)

OwnersEnded(r) == ~alive[r]

Plan(o, r) ==
  /\ plan[o] = None
  /\ Eligible(r) /\ LeafFree(r) /\ MatchesSnapshot(r) /\ OwnersEnded(r)
  /\ plan' = [plan EXCEPT ![o] = r]
  /\ UNCHANGED <<storeVars, runVars, deleting, operator>>

(* Mutant: a deletion does not keep publications out. *)
TakesNoLock(o) == UNCHANGED swapping

TakesLock(o) == swapping = None /\ swapping' = o

(* execute_recovery_delete: everything again, under the pointer lock, with a fresh        *)
(* observation; then the first byte goes.                                                 *)
Execute(o) ==
  LET r == plan[o] IN
  /\ r # None /\ ~deleting[o]
  /\ TakesLock(o)
  /\ Eligible(r) /\ LeafFree(r) /\ MatchesSnapshot(r) /\ OwnersEnded(r)
  /\ deleting' = [deleting EXCEPT ![o] = TRUE]
  /\ UNCHANGED <<files, terminal, chain, runVars, plan, operator>>

DeleteOrder == <<"p", "c", "h", "o">>

DeleteRole(o) ==
  LET r == plan[o] IN
  /\ deleting[o]
  /\ \E i \in DOMAIN DeleteOrder :
       /\ DeleteOrder[i] \in leaf[r]
       /\ \A j \in 1..(i - 1) : DeleteOrder[j] \notin leaf[r]
       /\ leaf' = [leaf EXCEPT ![r] = @ \ {DeleteOrder[i]}]
  /\ UNCHANGED <<storeVars, pc, supervised, token, scribbles, alive, verdict, cleanup,
                 childExit, exit, recoveryVars>>

DeleteLeaf(o) ==
  LET r == plan[o] IN
  /\ deleting[o] /\ leaf[r] = {}
  /\ leaf' = [leaf EXCEPT ![r] = None]
  /\ plan' = [plan EXCEPT ![o] = None]
  /\ deleting' = [deleting EXCEPT ![o] = FALSE]
  /\ swapping' = None
  /\ UNCHANGED <<files, terminal, chain, pc, supervised, token, scribbles, alive, verdict,
                 cleanup, childExit, exit, operator>>

(* Rejected, partial, expired or killed: the token is spent and every handle closes. *)
Quit(o) ==
  /\ plan[o] # None
  /\ plan' = [plan EXCEPT ![o] = None]
  /\ deleting' = [deleting EXCEPT ![o] = FALSE]
  /\ swapping' = IF deleting[o] THEN None ELSE swapping
  /\ UNCHANGED <<files, terminal, chain, runVars, operator>>

----------------------------------------------------------------------------
(* commit-run of a run that has its terminal, against the token read before. *)
OperatorReads ==
  /\ operator = None
  /\ operator' = chain
  /\ UNCHANGED <<storeVars, runVars, plan, deleting>>

CommitRun(r) ==
  /\ operator # None /\ Len(chain) < MaxChain
  /\ terminal[r] # None
  /\ Swap(r, operator)
  /\ operator' = None
  /\ UNCHANGED <<files, terminal, swapping, runVars, plan, deleting>>

CommitRefused ==
  /\ operator # None /\ ~TokenMatches(operator)
  /\ operator' = None
  /\ UNCHANGED <<storeVars, runVars, plan, deleting>>

----------------------------------------------------------------------------
RecoveryStep(o) ==
  \/ \E r \in Runs : Plan(o, r)
  \/ Execute(o) \/ DeleteRole(o) \/ DeleteLeaf(o) \/ Quit(o)

OperatorStep == OperatorReads \/ CommitRefused \/ \E r \in Runs : CommitRun(r)

Supervision == \E r \in Runs : RunStep(r) /\ UNCHANGED recoveryVars

Next ==
  \/ Supervision
  \/ \E o \in Recoverers : RecoveryStep(o)
  \/ OperatorStep

Spec == Init /\ [][Next]_vars

----------------------------------------------------------------------------
Names == {"sidecars", "rawLifecycle", "lifecycle", "streams", "preflight", "audio", "case",
          "failedCase", "failure", "summary", "result", "snapshot", "supervisor"}

PCs == Validating \cup Supervising \cup
       {"idle", "starting", "started", "cleaning", "recording", "over"}

(* TypeOK: what each variable of the store, of a run and of a recovery can hold. *)
TypeOK ==
  /\ \A r \in Runs :
       /\ DOMAIN files[r] \subseteq Names
       /\ terminal[r] # None => DOMAIN terminal[r].commits \subseteq Names
       /\ pc[r] \in PCs
       /\ leaf[r] = None \/ leaf[r] \subseteq PrivateMembers
       /\ scribbles[r] \in 0..MaxScribbles
       /\ verdict[r] \in {None, 0, 1} /\ cleanup[r] \in {None, "completed", "failed"}
       /\ childExit[r] \in {0, 1, 7} \/ (childExit[r] = None /\ pc[r] # "exited")
       /\ exit[r] \in {None, 0, 1, 7}
       /\ alive[r] \in BOOLEAN /\ supervised[r] \in BOOLEAN
  /\ chain \in Seq(Runs) /\ swapping \in Recoverers \cup {None}
  /\ plan \in [Recoverers -> Runs \cup {None}] /\ deleting \in [Recoverers -> BOOLEAN]

Extends(longer, shorter) ==
  Len(shorter) < Len(longer) /\ SubSeq(longer, 1, Len(shorter)) = shorter

(* NoLostPublication: a supervisor whose swap went through published its run right after *)
(* the publication it had seen before it started, and nothing published since has        *)
(* replaced that (compare_and_swap_current).  Of two that started from one publication   *)
(* only one gets there.                                                                  *)
NoLostPublication ==
  \A r \in Runs :
    pc[r] = "published" \/ (pc[r] = "over" /\ exit[r] \in {0, 7}) =>
      Extends(chain, token[r]) /\ chain[Len(token[r]) + 1] = r

(* PassedIsClean: a run published as passed has left nothing: no private member, no      *)
(* service of it alive (step 3 of the supervised run state machine).                     *)
PassedIsClean ==
  \A i \in 1..Len(chain) :
    terminal[chain[i]].passed => leaf[chain[i]] = None /\ ~alive[chain[i]]

(* EvidenceAgrees: what a published run says in one artifact it does not deny in another *)
(* (verify_run_artifacts): the failure is bound to the failed case, the summary has the  *)
(* outcome of the terminal, and the audio that of its case.                              *)
EvidenceAgrees ==
  \A i \in 1..Len(chain) :
    LET r == chain[i] IN
    /\ VerifyRun(r)
    /\ Has(r, "failedCase") => files[r].failure = "bound"
    /\ Has(r, "summary") => (files[r].summary = "passed") = terminal[r].passed
    /\ Has(r, "audio") <=> Has(r, "case")

(* DeletesOnlyCommitted: while a recovery deletes, what is left of the private directory *)
(* is what the public snapshot committed to, byte for byte, and its run is current, so   *)
(* that nobody has gone on from it.                                                      *)
DeletesOnlyCommitted ==
  \A o \in Recoverers : deleting[o] =>
    LET r == plan[o] IN
    /\ Current = r
    /\ leaf[r] \subseteq files[r].snapshot.members
    /\ scribbles[r] = files[r].snapshot.version

Shrinks(r) == leaf[r] # None /\ (leaf'[r] = None \/ leaf[r] \ leaf'[r] # {})

(* PrivateKept: a private directory loses a member only when no service of the run is    *)
(* alive, and only to the launcher's own cleanup, to the supervisor once it is empty, or *)
(* to a recovery of the current run after its failure.                                   *)
PrivateKept ==
  [][\A r \in Runs : Shrinks(r) =>
       /\ ~alive'[r]
       /\ \/ pc[r] = "cleaning"
          \/ pc[r] = "removing" /\ leaf[r] = {}
          \/ Current = r /\ ~terminal[r].passed]_vars

(* CleanupFailureIsPublished: a run whose cleanup failed after its validator had passed  *)
(* is one the store can publish (step 4 of the supervised run state machine).            *)
CleanupFailureIsPublished ==
  \A r \in Runs :
    pc[r] = "recorded" /\ files[r].result.source = "cleanup" /\ files[r].result.verdict = 0 =>
      Publishable(r)

\* The evidence of a published run agrees with itself and with what is left of
\* the run.
PublishedIsTrue == TypeOK /\ PassedIsClean /\ EvidenceAgrees
=============================================================================
