------------------------------ MODULE MCPackages ------------------------------
(***************************************************************************)
(* Instances of four modules about packages and the repositories they are  *)
(* made of: the launchers of packages, the reading of their files, the log *)
(* of an operation, and the synchronisation of the repositories' checkouts.*)
(* They share no variable; part says which of them a behaviour is about.   *)
(***************************************************************************)
EXTENDS PortableControl, SafeRead, OperationLog, RepoSync, TLC

VARIABLE part

vars == <<controlVars, readVars, logVars, syncVars, part>>

Init ==
  /\ part \in {"control", "reading", "logging", "checkouts"}
  /\ ControlInit /\ ReadInit /\ LogInit /\ SyncInit
  /\ part # "reading" => here = 0

Next ==
  /\ UNCHANGED part
  /\ \/ part = "control" /\ ControlNext /\ UNCHANGED <<readVars, logVars, syncVars>>
     \/ part = "reading" /\ ReadNext /\ UNCHANGED <<controlVars, logVars, syncVars>>
     \/ part = "logging" /\ LogNext /\ UNCHANGED <<controlVars, readVars, syncVars>>
     \/ part = "checkouts" /\ SyncNext /\ UNCHANGED <<controlVars, readVars, logVars>>

Spec == Init /\ [][Next]_vars

\* PortableControl: two packages, of which one may change its files or its
\* build, and two actions where one fits; two repositories
CONSTANTS t1, t2, c1, c2, i1, i2, w1, w2, w3, r1, r2

InOrder == <<c1, c2>>
InLock == <<r1, r2>>
Builds == (w1 :> 1) @@ (w2 :> 1) @@ (w3 :> 2)

Alike == Permutations({i1, i2}) \cup Permutations({t1, t2})
=============================================================================
