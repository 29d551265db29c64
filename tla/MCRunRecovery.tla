---------------------------- MODULE MCRunRecovery ----------------------------
(* Two runs, a matrix and a preflight, beside the recoverers and the operator.         *)
EXTENDS RunRecovery

CONSTANTS m, p

RunsDef == {m, p}
ModeDef == [r \in RunsDef |-> IF r = m THEN "matrix" ELSE "preflight"]

(* Between its snapshot of the pointer and its swap a run touches nothing another run  *)
(* touches: one run at a time is there, while nobody holds a token and no other run's  *)
(* services are alive.  A run that came to nothing is followed on by itself.           *)
Apart(r) == pc[r] \notin {"idle", "preparing", "frozen", "published", "over"}
Orphan(r) == pc[r] # "idle" /\ ~supervised[r] /\ terminal[r] = None

Alone(r) ==
  /\ operator = None
  /\ \A o \in Recoverers : plan[o] = None
  /\ \A q \in Runs \ {r} : ~Apart(q) /\ ~alive[q] /\ scribbles[q] = 0

(* The operator has in mind a run its supervisor froze and left. *)
Left(r) == terminal[r] # None /\ ~supervised[r]

Followed ==
  /\ operator # None => \E r \in Runs : Left(r)
  /\ \A r \in Runs :
       /\ Apart(r) => Alone(r)
       /\ Orphan(r) => \A q \in Runs \ {r} : pc[q] = "idle"
=============================================================================
