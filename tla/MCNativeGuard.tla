--------------------------- MODULE MCNativeGuard ---------------------------
(***************************************************************************)
(* One native with two request threads, and a Comfy holder, on one GPU.    *)
(*                                                                         *)
(* The safety run looks at it from two initial states.  From the start of  *)
(* everything, processes i1 and i2 and any number of coordinators follow   *)
(* each other, with one thread at work at a time, and a token or a place   *)
(* in the queue may be left behind.  After a startup that has finished,    *)
(* both threads of process i3 compete, without restarts or leftovers.      *)
(***************************************************************************)
EXTENDS NativeGuard, TLC

CONSTANTS g1, n1, i1, i2, i3, i4, w1, w2, t1, t2, t3

MCGroupOf == [p \in {n1} |-> g1]
MCWorkerOf == [w \in {w1, w2} |-> n1]
MCSingle == [w \in {w1} |-> n1]
MCReports == {}

\* What a native observes of the coordinator does not depend on why a lease is
\* revoked or on how the journal failed: the run of GpuCoordinator explores that.
PlainLeases ==
  /\ phase # "closed" /\ file # "bad"
  /\ lease[g1] # None => ~lease[g1].cleanupFailed /\ ~lease[g1].expired

\* Every token and every place in the queue has a thread that knows of it.
NothingForsaken ==
  /\ Cardinality(nativeTokens) <= Cardinality({w \in Workers : tok[w] # None})
  /\ \A p \in Participants :
        waiters[p] <= Cardinality({w \in Workers : WorkerOf[w] = p /\ pc[w] = "queued"})

\* Two grants: the second goes on from whatever the first has left.  Six
\* changes of a process's activity, those of its startup among them.
Bounded ==
  /\ PlainLeases
  /\ Cardinality(issued) <= 2
  /\ \A p \in Participants : rev[p] <= 6
  /\ IF used = {i3, i4}
     THEN phase = "up" /\ recovery = {} /\ NothingForsaken
     ELSE /\ used \subseteq {i1, i2}
          /\ Cardinality({w \in Workers : pc[w] # "idle"}) <= 1
          /\ \A p \in Participants : waiters[p] <= 1

\* After startup has finished and its last report has arrived.
Warm ==
  /\ phase = "up" /\ recovery = {} /\ journalOpen = TRUE /\ memory = {} /\ disk = {} /\ file = "ok"
  /\ obs = [p \in Participants |-> Snap(p)]
  /\ fresh = Participants
  /\ nativeTokens = {} /\ issued = {}
  /\ waiters = [p \in Participants |-> 0]
  /\ lease = [g \in Groups |-> None] /\ claims = [g \in Groups |-> {}]
  /\ offloading = [p \in Participants |-> None] /\ offloadFailed = [p \in Participants |-> None]

WarmInit ==
  /\ inst = [p \in Participants |-> i3] /\ used = {i3, i4}
  /\ rev = [p \in Participants |-> 3]
  /\ residency = [p \in Participants |-> "gpu"]
  /\ ready = Participants /\ failed = {} /\ quiet = {}
  /\ booting = [p \in Participants |-> None] /\ lock = [p \in Participants |-> None]
  /\ pc = [w \in Workers |-> "idle"]
  /\ tok = [w \in Workers |-> None] /\ msg = [w \in Workers |-> None]
  /\ beat = [p \in Participants |-> None] /\ stale = {}
  /\ orders = [p \in Participants |-> None]
  /\ Warm

BothSpec == (NativeInit \/ WarmInit) /\ [][NativeNext]_allVars

CalmSpec == WarmInit /\ [][CalmNext]_allVars /\ CalmFairness

Symmetry == Permutations({t1, t2, t3}) \cup Permutations({w1, w2}) \cup Permutations({i1, i2})
SymmetrySingle == Permutations({t1, t2, t3})
=============================================================================
