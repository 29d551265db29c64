---------------------------- MODULE EvidenceStore ----------------------------
(***************************************************************************)
(* The store of reliability evidence                                       *)
(* (backend/app/comfyui/reliability_evidence.py): one directory of         *)
(* artifacts per run, a terminal that freezes the run by committing to     *)
(* every one of them, and one pointer, current-terminal.json, that a       *)
(* compare-and-swap moves from a published run to the next.                *)
(*                                                                         *)
(* A pointer commits to the pointer before it, so its SHA-256 token names  *)
(* the whole succession: here the token IS the sequence of published runs. *)
(* An artifact's SHA-256 is its content.                                   *)
(***************************************************************************)
EXTENDS Naturals, Sequences

CONSTANTS
  Runs,   \* run keys
  None    \* nothing there

ASSUME NoneAssumption == None \notin Runs

VARIABLES
  files,      \* per run, its artifacts: name -> content
  terminal,   \* per run, terminal.json, or None
  chain,      \* current-terminal.json with all it commits to: runs published, oldest first
  swapping    \* who holds the pointer lock for more than one step, or None

storeVars == <<files, terminal, chain, swapping>>

StoreInit ==
  /\ files = [r \in Runs |-> <<>>]
  /\ terminal = [r \in Runs |-> None]
  /\ chain = <<>>
  /\ swapping = None

Has(r, name) == name \in DOMAIN files[r]

(* write_artifact, under the run's operation lock: a name is created, or   *)
(* already holds these bytes, and only while the run has no terminal.      *)
FirstWrite(r, name, content) ==
  /\ terminal[r] = None
  /\ Has(r, name) => files[r][name] = content
  /\ files' = [files EXCEPT ![r] =
       [n \in DOMAIN files[r] \cup {name} |-> IF n = name THEN content ELSE files[r][n]]]

(* verify_run: the members of the directory and their bytes are exactly    *)
(* the ones the terminal commits to.                                       *)
VerifyRun(r) == terminal[r] # None /\ terminal[r].commits = files[r]

(* write_terminal, under the run's operation lock.  A terminal is written  *)
(* once; writing the same one again changes nothing.                       *)
WriteTerminal(r, t) ==
  /\ IF terminal[r] = None THEN t.commits = files[r] ELSE terminal[r] = t
  /\ terminal' = [terminal EXCEPT ![r] = t]

(* Mutant: the token is only checked to be one that was current once. *)
TokenWasCurrent(token) == Len(token) <= Len(chain)

(* compare_and_swap_current, under the pointer lock.                       *)
TokenMatches(token) == token = chain

Swap(r, token) ==
  /\ swapping = None
  /\ TokenMatches(token)
  /\ VerifyRun(r)
  /\ chain' = Append(chain, r)

Current == IF chain = <<>> THEN None ELSE chain[Len(chain)]

(* verify_current *)
VerifyCurrent(r) == Current = r /\ VerifyRun(r)
=============================================================================
