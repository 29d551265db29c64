------------------------------ MODULE GpuFence ------------------------------
(***************************************************************************)
(* What the GPU coordinator promises about one GPU group, whatever happens *)
(* to the coordinator itself: a Comfy holder is admitted to an empty GPU   *)
(* and keeps it to itself until it declares that it left the GPU clean.    *)
(* Natives may share the GPU among themselves.  A lost coordinator forgets *)
(* its natives but never a Comfy holder.                                   *)
(***************************************************************************)
CONSTANTS Groups, Tokens

VARIABLES comfy,   \* group -> Comfy holders that have not declared the GPU clean
          native,  \* group -> native tokens the running coordinator has out
          spent    \* tokens ever handed out

fenceVars == <<comfy, native, spent>>

FenceInit ==
  /\ comfy = [g \in Groups |-> {}]
  /\ native = [g \in Groups |-> {}]
  /\ spent = {}

Spend(t) == t \in Tokens \ spent /\ spent' = spent \cup {t}

AdmitComfy(g, t) ==
  /\ comfy[g] = {}
  /\ native[g] = {}
  /\ Spend(t)
  /\ comfy' = [comfy EXCEPT ![g] = {t}]
  /\ UNCHANGED native

AdmitNative(g, t) ==
  /\ comfy[g] = {}
  /\ Spend(t)
  /\ native' = [native EXCEPT ![g] = @ \cup {t}]
  /\ UNCHANGED comfy

LeaveComfy(g, t) ==
  /\ comfy' = [comfy EXCEPT ![g] = @ \ {t}]
  /\ UNCHANGED <<native, spent>>

LeaveNative(t) ==
  /\ native' = [g \in Groups |-> native[g] \ {t}]
  /\ UNCHANGED <<comfy, spent>>

\* The coordinator is lost, perhaps just after it recorded that t left g clean.
Forget ==
  /\ native' = [g \in Groups |-> {}]
  /\ UNCHANGED <<comfy, spent>>

ForgetAfter(g, t) ==
  /\ native' = [h \in Groups |-> {}]
  /\ comfy' = [comfy EXCEPT ![g] = @ \ {t}]
  /\ UNCHANGED spent

FenceNext ==
  \/ \E g \in Groups, t \in Tokens :
        AdmitComfy(g, t) \/ AdmitNative(g, t) \/ LeaveComfy(g, t) \/ ForgetAfter(g, t)
  \/ \E t \in Tokens : LeaveNative(t)
  \/ Forget

FenceSpec == FenceInit /\ [][FenceNext]_fenceVars
=============================================================================
