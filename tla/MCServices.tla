----------------------------- MODULE MCServices -----------------------------
(***************************************************************************)
(* Instances of four modules about services: the file of services, the     *)
(* voices that workers hold, the files that pass to a worker, and the      *)
(* engines that a native process moves off the GPU.  They share no         *)
(* variable; part says which of them a behaviour is about.                 *)
(***************************************************************************)
EXTENDS ServiceStore, ServiceResidency, ArtifactStore, NativeAdapter, TLC

VARIABLE part

vars == <<storeVars, residencyVars, artifactVars, adapterVars, part>>

Init ==
  /\ part \in {"store", "residency", "artifacts", "engines"}
  /\ StoreInit /\ ResidencyInit /\ ArtifactInit /\ AdapterInit
  /\ part # "store" => file = NoFile
  /\ part # "engines" => expected = {"index_v2"}

Next ==
  /\ UNCHANGED part
  /\ \/ part = "store" /\ StoreNext /\ UNCHANGED <<residencyVars, artifactVars, adapterVars>>
     \/ part = "residency" /\ ResidencyNext /\ UNCHANGED <<storeVars, artifactVars, adapterVars>>
     \/ part = "artifacts" /\ ArtifactNext /\ UNCHANGED <<storeVars, residencyVars, adapterVars>>
     \/ part = "engines" /\ AdapterNext /\ UNCHANGED <<storeVars, residencyVars, artifactVars>>

Spec == Init /\ [][Next]_vars

\* ServiceStore: a portable package p beside the default service a
CONSTANTS a, p, k1, t1, t2, cli

\* ServiceResidency: two services share a GPU; one job needs both of
\* them, one has a binding that only the first can read.
CONSTANTS s1, s2, gpu, v1, v2, j1, j2

OneGroup == [s \in Services |-> gpu]
OneSlot == [g \in {gpu} |-> 1]
ByOrder == <<s1, s2>>
For(named, bound, voices) == [named |-> named, bound |-> bound, reach |-> Services, voices |-> voices]
TwoJobs == (j1 :> <<For(<<>>, FALSE, <<v1, v2>>), For(<<s2>>, TRUE, <<v1>>)>>)
        @@ (j2 :> <<[For(<<>>, TRUE, <<v2>>) EXCEPT !.reach = {s1}]>>)

\* ArtifactStore: two lines with one reference
CONSTANTS c1, c2

Callers2 == Permutations({t1, t2})
Calls2 == Permutations({c1, c2})
Alike == Callers2 \cup Calls2
=============================================================================
