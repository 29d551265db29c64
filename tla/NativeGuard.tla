----------------------------- MODULE NativeGuard -----------------------------
(***************************************************************************)
(* The natives themselves, beside the coordinator of GpuCoordinator: the   *)
(* in-process guard that every GPU operation passes (native_gpu/guard.py), *)
(* its heartbeat thread, its answer to an offload order, and the calls     *)
(* between the two processes.  A native's call may be cut off before it    *)
(* took effect or after, whether or not the coordinator stays up; one that *)
(* takes effect after its caller gave up is a queued acquire, an offload   *)
(* order or, with LateSnapshots, a snapshot between replaced processes.    *)
(*                                                                         *)
(* A native has several worker threads.  The guard's lock makes each piece *)
(* of a handler between two calls or two locks one step; a publish reads   *)
(* the state in one step and reaches the coordinator in another.           *)
(***************************************************************************)
EXTENDS GpuCoordinator

CONSTANTS Workers,       \* request threads of the natives
          WorkerOf,      \* worker -> its native
          MaxRev,        \* bound on activity revisions of one process
          LateSnapshots  \* a snapshot may still arrive after either end was replaced

ASSUME WorkerAssumption == WorkerOf \in [Workers -> Participants]
ASSUME SenderAssumption == Workers \cap Participants = {}
ASSUME AbsenceAssumption == None \notin Instances \cup Workers \cup Tokens
ASSUME BoundAssumption == MaxRev \in Nat /\ LateSnapshots \in BOOLEAN

VARIABLES
  inst,       \* participant -> instance id of the running process, or None
  used,       \* instance ids ever used
  rev,        \* participant -> activity revision
  residency,  \* participant -> where its models are
  ready,      \* participants with every component registered
  failed,     \* participants whose last migration failed
  quiet,      \* participants whose last activity is idle_seconds ago
  booting,    \* participant -> the worker that is loading the models, or None
  lock,       \* participant -> holder of _operation_lock, or None
  pc,         \* worker -> where it is in operation() or in startup
  tok,        \* worker -> its native token, or None
  msg,        \* worker -> the snapshot it is publishing, or None
  beat,       \* participant -> the snapshot its heartbeat thread is publishing, or None
  stale,      \* senders whose snapshot was addressed to a coordinator that is gone
  orders      \* participant -> the offload order it received and its answer, or None

processVars == <<inst, used, rev, residency, ready, failed, quiet, booting, lock>>
workerVars  == <<pc, tok, msg>>
wireVars    == <<beat, stale, orders>>
guardVars   == <<processVars, workerVars, wireVars>>
allVars     == <<vars, guardVars>>

GroupOfWorker(w) == GroupOf[WorkerOf[w]]
Busy(p) == \E w \in Workers : WorkerOf[w] = p /\
              pc[w] \in {"announcing", "asking", "queued", "admitted", "starting", "running"}

\* snapshot()
Snap(p) == [inst |-> inst[p], rev |-> rev[p], busy |-> Busy(p),
            ready |-> p \in ready /\ p \notin failed,
            residency |-> residency[p], mature |-> p \in quiet /\ ~Busy(p)]

GuardInit ==
  /\ inst = [p \in Participants |-> None]
  /\ used = {}
  /\ rev = [p \in Participants |-> 0]
  /\ residency = [p \in Participants |-> "unknown"]
  /\ ready = {}
  /\ failed = {}
  /\ quiet = {}
  /\ booting = [p \in Participants |-> None]
  /\ lock = [p \in Participants |-> None]
  /\ pc = [w \in Workers |-> "idle"]
  /\ tok = [w \in Workers |-> None]
  /\ msg = [w \in Workers |-> None]
  /\ beat = [p \in Participants |-> None]
  /\ stale = {}
  /\ orders = [p \in Participants |-> None]

NativeInit == Init /\ GuardInit

-----------------------------------------------------------------------------
(***************************************************************************)
(* Life of the process.                                                    *)
(***************************************************************************)
\* begin_startup up to its first publish, on the main thread w.
Boot(w) ==
  LET p == WorkerOf[w]
  IN /\ inst[p] = None
     /\ \E i \in Instances \ used : inst' = [inst EXCEPT ![p] = i] /\ used' = used \cup {i}
     /\ rev' = [rev EXCEPT ![p] = 1]
     /\ booting' = [booting EXCEPT ![p] = w]
     /\ pc' = [pc EXCEPT ![w] = "announcing"]
     /\ UNCHANGED <<residency, ready, failed, quiet, lock, tok, msg, wireVars, vars>>

\* The process ends; the GPU memory goes with it, its native tokens do not.
ProcessEnds(p) ==
  /\ inst' = [inst EXCEPT ![p] = None]
  /\ rev' = [rev EXCEPT ![p] = 0]
  /\ residency' = [residency EXCEPT ![p] = "unknown"]
  /\ ready' = ready \ {p}
  /\ failed' = failed \ {p}
  /\ quiet' = quiet \ {p}
  /\ booting' = [booting EXCEPT ![p] = None]
  /\ lock' = [lock EXCEPT ![p] = None]
  /\ pc' = [w \in Workers |-> IF WorkerOf[w] = p THEN "idle" ELSE pc[w]]
  /\ tok' = [w \in Workers |-> IF WorkerOf[w] = p THEN None ELSE tok[w]]
  /\ msg' = [w \in Workers |-> IF WorkerOf[w] = p THEN None ELSE msg[w]]
  /\ beat' = [beat EXCEPT ![p] = IF LateSnapshots THEN @ ELSE None]
  /\ stale' = stale \ {w \in Workers : WorkerOf[w] = p}
  /\ orders' = [orders EXCEPT ![p] = None]
  /\ UNCHANGED used

NativeDies(p) ==
  /\ inst[p] # None
  /\ ProcessEnds(p)
  /\ UNCHANGED vars

\* Five quiet minutes.
Ripen(p) ==
  /\ inst[p] # None
  /\ p \in ready \ quiet
  /\ ~Busy(p)
  /\ quiet' = quiet \cup {p}
  /\ UNCHANGED <<inst, used, rev, residency, ready, failed, booting, lock, workerVars, wireVars, vars>>

-----------------------------------------------------------------------------
(***************************************************************************)
(* operation() and, on the booting worker, begin_startup and               *)
(* register_component.                                                     *)
(***************************************************************************)
\* Mutant: activity does not show in the revision.
NotAdvanced(p) == rev

Advanced(p) == [rev EXCEPT ![p] = @ + 1]

\* Announcing and ending activity advance the revision and restart the idle clock.
Active(p) == rev' = Advanced(p) /\ quiet' = quiet \ {p}

Unlocked(p, w) == [lock EXCEPT ![p] = IF @ = w THEN None ELSE @]

Begin(w) ==
  LET p == WorkerOf[w]
  IN /\ pc[w] = "idle"
     /\ p \in ready \ failed
     /\ rev[p] < MaxRev
     /\ Active(p)
     /\ pc' = [pc EXCEPT ![w] = "announcing"]
     /\ UNCHANGED <<inst, used, residency, ready, failed, booting, lock, tok, msg, wireVars, vars>>

\* The `finally' block: off the counters and out of the lock; publish and
\* release follow.  A failed startup ends the process instead.
Quit(w) ==
  LET p == WorkerOf[w]
  IN IF booting[p] = w
     THEN ProcessEnds(p)
     ELSE /\ Active(p)
          /\ lock' = Unlocked(p, w)
          /\ pc' = [pc EXCEPT ![w] = "leaving"]
          /\ msg' = [msg EXCEPT ![w] = None]
          /\ stale' = stale \ {w}
          /\ UNCHANGED <<inst, used, residency, ready, failed, booting, tok, beat, orders>>

TakeSnapshot(w) ==
  /\ pc[w] \in {"announcing", "starting", "leaving"}
  /\ msg[w] = None
  /\ msg' = [msg EXCEPT ![w] = Snap(WorkerOf[w])]
  /\ UNCHANGED <<processVars, pc, tok, wireVars, vars>>

\* Whether a snapshot from sender still reaches the coordinator.
Deliverable(sender) == LateSnapshots \/ sender \notin stale

Published(w) ==
  /\ msg[w] # None
  /\ Deliverable(w)
  /\ UpdateNative(WorkerOf[w], msg[w])
  /\ msg' = [msg EXCEPT ![w] = None]
  /\ stale' = stale \ {w}
  /\ pc' = [pc EXCEPT ![w] =
              CASE @ = "announcing" -> "asking"
                [] @ = "starting" -> "running"
                [] @ = "leaving" -> "releasing"]
  /\ UNCHANGED <<processVars, tok, beat, orders>>

\* The revision of the message is behind the one the coordinator knows.
Regressed(p, s) == obs[p] # None /\ obs[p].inst = s.inst /\ s.rev < obs[p].rev

\* A publish that raises.
PublishFails(w) ==
  /\ msg[w] # None
  /\ IF pc[w] = "leaving" /\ booting[WorkerOf[w]] # w
     THEN /\ pc' = [pc EXCEPT ![w] = "releasing"]
          /\ msg' = [msg EXCEPT ![w] = None]
          /\ stale' = stale \ {w}
          /\ UNCHANGED <<processVars, tok, beat, orders>>
     ELSE Quit(w)

PublishRefused(w) ==
  /\ msg[w] # None /\ phase # "down" /\ Regressed(WorkerOf[w], msg[w])
  /\ PublishFails(w)
  /\ UNCHANGED vars

\* The call does not arrive, or its reply does not.
PublishUnreachable(w) ==
  /\ PublishFails(w)
  /\ UNCHANGED vars

PublishUnanswered(w) ==
  /\ Deliverable(w)
  /\ PublishFails(w)
  /\ UpdateNative(WorkerOf[w], msg[w])

NewToken == {n \in nativeTokens' : n \notin nativeTokens}
Granted(w) == NewToken # {} /\ tok' = [tok EXCEPT ![w] = (CHOOSE n \in NewToken : TRUE).token]

Ask(w) ==
  /\ pc[w] = "asking"
  /\ AcquireNative(WorkerOf[w])
  /\ \/ Granted(w) /\ pc' = [pc EXCEPT ![w] = "admitted"]
     \/ NewToken = {} /\ pc' = [pc EXCEPT ![w] = "queued"] /\ UNCHANGED tok
  /\ UNCHANGED <<processVars, msg, wireVars>>

\* Refused, or the call does not arrive.
AskDenied(w) ==
  /\ pc[w] = "asking"
  /\ Quit(w)
  /\ UNCHANGED vars

\* The reply is lost: nobody will return the token that was handed out, or
\* will be handed out at the head of the queue.
AskLost(w) ==
  /\ pc[w] = "asking"
  /\ AcquireNative(WorkerOf[w])
  /\ Quit(w)

Wake(w) ==
  /\ pc[w] = "queued"
  /\ RetryNative(WorkerOf[w])
  /\ \/ Granted(w) /\ pc' = [pc EXCEPT ![w] = "admitted"] /\ UNCHANGED <<processVars, msg, wireVars>>
     \/ NewToken = {} /\ waiters' # waiters /\ Quit(w)
     \/ NewToken = {} /\ waiters' = waiters /\ UNCHANGED guardVars

\* The coordinator that had the call is gone, or the connection is.
CallBroken(w) ==
  /\ pc[w] = "queued"
  /\ Quit(w)
  /\ UNCHANGED vars

\* The coordinator goes on serving a call that nobody waits for any more.
ServesForsaken(p) ==
  /\ Cardinality({w \in Workers : WorkerOf[w] = p /\ pc[w] = "queued"}) < waiters[p]
  /\ RetryNative(p)
  /\ UNCHANGED guardVars

\* Mutant: the token alone admits.
EntersAnyway(p) == residency[p] \in {"cpu", "gpu"}

MayEnter(p) == lock[p] = None /\ p \notin failed /\ residency[p] \in {"cpu", "gpu"}

\* With the token: take the lock, bring the models back if they were moved.
Enter(w) ==
  LET p == WorkerOf[w]
  IN /\ pc[w] = "admitted"
     /\ rev' = Advanced(p)
     /\ residency' = [residency EXCEPT ![p] = "gpu"]
     /\ pc' = [pc EXCEPT ![w] = "starting"]
     /\ \/ booting[p] = w /\ UNCHANGED lock
        \/ /\ booting[p] # w
           /\ MayEnter(p)
           /\ lock' = [lock EXCEPT ![p] = w]
     /\ UNCHANGED <<inst, used, ready, failed, quiet, booting, tok, msg, wireVars, vars>>

\* The lock does not come, or the models are in no usable place.
EnterFails(w) ==
  LET p == WorkerOf[w]
  IN /\ pc[w] = "admitted"
     /\ booting[p] # w
     /\ ~MayEnter(p)
     /\ Quit(w)
     /\ UNCHANGED vars

RestoreFails(w) ==
  LET p == WorkerOf[w]
  IN /\ pc[w] = "admitted"
     /\ booting[p] # w /\ MayEnter(p) /\ residency[p] = "cpu"
     /\ failed' = failed \cup {p}
     /\ residency' = [residency EXCEPT ![p] = "unknown"]
     /\ Active(p)
     /\ pc' = [pc EXCEPT ![w] = "leaving"]
     /\ UNCHANGED <<inst, used, ready, booting, lock, tok, msg, wireVars, vars>>

\* The operation is over, or the last component registered.
Finish(w) ==
  LET p == WorkerOf[w]
  IN /\ pc[w] = "running"
     /\ Active(p)
     /\ pc' = [pc EXCEPT ![w] = "leaving"]
     /\ lock' = Unlocked(p, w)
     /\ ready' = IF booting[p] = w THEN ready \cup {p} ELSE ready
     /\ UNCHANGED <<inst, used, residency, failed, booting, tok, msg, wireVars, vars>>

Returned(w) ==
  /\ pc' = [pc EXCEPT ![w] = "idle"]
  /\ tok' = [tok EXCEPT ![w] = None]
  /\ booting' = [booting EXCEPT ![WorkerOf[w]] = IF @ = w THEN None ELSE @]
  /\ UNCHANGED <<inst, used, rev, residency, ready, failed, quiet, lock, msg, wireVars>>

Held(w) == {n \in nativeTokens : n.token = tok[w]}

\* release_native; a token that a restart has made unknown is nothing.
Release(w) ==
  /\ pc[w] = "releasing"
  /\ \/ \E n \in Held(w) : ReleaseNative(n)
     \/ Held(w) = {} /\ UNCHANGED vars
  /\ Returned(w)

\* The call is cut off: the token stays behind, or only the reply is lost.
\* On the booting worker that ends the process.
ReleaseLost(w) ==
  /\ pc[w] = "releasing"
  /\ UNCHANGED vars \/ \E n \in Held(w) : ReleaseNative(n)
  /\ IF booting[WorkerOf[w]] = w THEN ProcessEnds(WorkerOf[w]) ELSE Returned(w)

-----------------------------------------------------------------------------
(***************************************************************************)
(* The heartbeat thread and the offload order.                             *)
(***************************************************************************)
Beat(p) ==
  /\ inst[p] # None
  /\ beat[p] = None
  /\ beat' = [beat EXCEPT ![p] = Snap(p)]
  /\ UNCHANGED <<processVars, workerVars, stale, orders, vars>>

BeatArrives(p) ==
  /\ beat[p] # None
  /\ Deliverable(p)
  /\ UpdateNative(p, beat[p])
  /\ beat' = [beat EXCEPT ![p] = None]
  /\ stale' = stale \ {p}
  /\ UNCHANGED <<processVars, workerVars, orders>>

\* Refused, or it does not arrive.
BeatLost(p) ==
  /\ beat[p] # None
  /\ beat' = [beat EXCEPT ![p] = None]
  /\ stale' = stale \ {p}
  /\ UNCHANGED <<processVars, workerVars, orders, vars>>

\* offload_if_idle accepts the order.
Obeys(p, id) ==
  /\ lock[p] = None
  /\ id = <<inst[p], rev[p]>>
  /\ ~Busy(p)
  /\ p \in ready \ failed
  /\ p \in quiet

\* offload_if_idle; the guard's locks make it one step.
Offload(p) ==
  /\ orders[p] # None /\ ~orders[p].done
  /\ inst[p] # None
  /\ \/ /\ Obeys(p, orders[p].id)
        /\ residency' = [residency EXCEPT ![p] = "cpu"]
        /\ UNCHANGED failed
        /\ orders' = [orders EXCEPT ![p].done = TRUE, ![p].answer = [Snap(p) EXCEPT !.residency = "cpu"]]
     \/ /\ Obeys(p, orders[p].id)
        /\ residency[p] # "cpu"
        /\ residency' = [residency EXCEPT ![p] = "unknown"]
        /\ failed' = failed \cup {p}
        /\ orders' = [orders EXCEPT ![p].done = TRUE]
     \/ /\ ~Obeys(p, orders[p].id)
        /\ orders' = [orders EXCEPT ![p].done = TRUE]
        /\ UNCHANGED <<residency, failed>>
  /\ UNCHANGED <<inst, used, rev, ready, quiet, booting, lock, workerVars, beat, stale, vars>>

\* The coordinator hears the answer, or stops waiting for it (the order may
\* still be carried out later).
OffloadAnswered(p) ==
  /\ orders[p] # None /\ orders[p].done
  /\ OffloadReturns(p, orders[p].answer)
  /\ orders' = [orders EXCEPT ![p] = None]
  /\ UNCHANGED <<processVars, workerVars, beat, stale>>

OffloadGivenUp(p) ==
  /\ OffloadReturns(p, None)
  /\ UNCHANGED guardVars

PollAndOrder(g) ==
  /\ PollComfy(g)
  /\ orders' = [p \in Participants |->
                  IF offloading'[p] # offloading[p]
                  THEN [id |-> offloading'[p], done |-> FALSE, answer |-> None]
                  ELSE orders[p]]
  /\ UNCHANGED <<processVars, workerVars, beat, stale>>

-----------------------------------------------------------------------------
\* Every snapshot in flight was sent to the process that is going away.
InFlight == {p \in Participants : beat[p] # None} \cup {w \in Workers : msg[w] # None}

CoordinatorLost(step) ==
  /\ step
  /\ stale' = InFlight
  /\ UNCHANGED <<processVars, workerVars, beat, orders>>

CoordinatorAlone ==
  \/ Start \/ Close \/ DamageJournal \/ MaintenanceReset
  \/ \E p \in Participants : ReportAges(p)
  \/ \E g \in Groups :
       \/ AcquireComfy(g) \/ AcquireComfyFails(g) \/ CheckComfy(g) \/ Snapshot(g)
       \/ ReleaseClean(g) \/ ReleaseCleanFails(g) \/ ReleaseUnclean(g) \/ LeaseExpires(g)
       \/ \E t \in Tokens : ReleaseUnknown(g, t)

Operation ==
  \E w \in Workers :
     \/ Begin(w)
     \/ TakeSnapshot(w)
     \/ Published(w)
     \/ PublishRefused(w)
     \/ PublishUnreachable(w)
     \/ PublishUnanswered(w)
     \/ Ask(w)
     \/ AskDenied(w)
     \/ AskLost(w)
     \/ Wake(w)
     \/ CallBroken(w)
     \/ Enter(w)
     \/ EnterFails(w)
     \/ RestoreFails(w)
     \/ Finish(w)
     \/ Release(w)
     \/ ReleaseLost(w)

NativeNext ==
  \/ \E w \in Workers : Boot(w)
  \/ \E p \in Participants :
       \/ NativeDies(p) \/ Ripen(p)
       \/ Beat(p) \/ BeatArrives(p) \/ BeatLost(p)
       \/ Offload(p) \/ OffloadAnswered(p) \/ OffloadGivenUp(p)
       \/ ServesForsaken(p)
  \/ Operation
  \/ \E g \in Groups : PollAndOrder(g)
  \/ CoordinatorLost(Crash)
  \/ \E g \in Groups : CoordinatorLost(AcquireComfyCrashes(g) \/ ReleaseCleanCrashes(g))
  \/ CoordinatorAlone /\ UNCHANGED guardVars

NativeSpec == NativeInit /\ [][NativeNext]_allVars
-----------------------------------------------------------------------------
GuardTypeOK ==
  /\ inst \in [Participants -> Instances \cup {None}]
  /\ used \subseteq Instances
  /\ rev \in [Participants -> Nat]
  /\ residency \in [Participants -> Residencies]
  /\ ready \subseteq Participants
  /\ failed \subseteq Participants
  /\ quiet \subseteq Participants
  /\ booting \in [Participants -> Workers \cup {None}]
  /\ lock \in [Participants -> Workers \cup {None}]
  /\ pc \in [Workers -> {"idle", "announcing", "asking", "queued", "admitted", "starting",
                         "running", "leaving", "releasing"}]
  /\ tok \in [Workers -> Tokens \cup {None}]
  /\ msg \in [Workers -> Status \cup {None}]
  /\ beat \in [Participants -> Status \cup {None}]
  /\ stale \subseteq Workers \cup Participants
  /\ orders \in [Participants -> {None} \cup
                  [id: Identity, done: BOOLEAN, answer: Status \cup {None}]]
  /\ \A p \in Participants : lock[p] # None => pc[lock[p]] \in {"starting", "running"}

\* The models of p are, or may be, on the GPU.
OnGpu(p) == residency[p] = "gpu" \/ p \in failed

\* "While coordination is uncertain both sides must never load at once"
\* (docs/native-gpu-coordination.md): no native has its models on the GPU, or
\* runs anything there, while a Comfy holder may still be on it - whatever was
\* lost, delayed, refused or restarted, and however stale the coordinator's
\* picture of the native was when it decided.
NeverBothLoaded ==
  \A g \in Groups : claims[g] # {} => \A p \in Members(g) : ~OnGpu(p)

\* GPU work of one native process is serialized by its lock and happens with
\* its models on the GPU, also when an offload order arrives, restoration fails
\* or a thread gives up waiting.
WorkIsSerialized ==
  \A w \in Workers : pc[w] \in {"starting", "running"} =>
     LET p == WorkerOf[w] IN
     /\ residency[p] = "gpu"
     /\ \A v \in Workers : v # w /\ WorkerOf[v] = p => pc[v] \notin {"starting", "running"}
\* No native request is turned away while the coordinator is up, knows its state
\* and nothing failed or timed out: "the native production service keeps running"
\* (docs/native-gpu-coordination.md).
NeverTurnedAway == [][~\E w \in Workers : PublishRefused(w)]_allVars

-----------------------------------------------------------------------------
(***************************************************************************)
(* Progress.  A calm system: nothing crashes, fails, times out or is lost  *)
(* but a heartbeat, and a Comfy holder whose lease is revoked cleans up.   *)
(* The coordinator polls (50 ms), threads run, an offload callback returns.*)
(***************************************************************************)
\* Tokens are bounded here: Comfy leaves one for every worker.
HolderStep(g) ==
  \/ AcquireComfy(g) /\ Cardinality(Tokens \ issued) > Cardinality(Workers)
  \/ CheckComfy(g)
  \/ ReleaseClean(g)

Yield(g) ==
  /\ lease[g] # None
  /\ lease[g].revoked
  /\ ReleaseClean(g)
  /\ UNCHANGED guardVars

OffloadSucceeds(p) == Offload(p) /\ UNCHANGED failed

\* Served, or still waiting.
WakeCalmly(w) == Wake(w) /\ pc'[w] \in {"queued", "admitted"}

Thread(w) ==
  \/ TakeSnapshot(w) \/ Published(w) \/ PublishRefused(w) \/ Ask(w) \/ WakeCalmly(w)
  \/ Enter(w) \/ Finish(w) \/ Release(w)

CalmNext ==
  \/ \E w \in Workers : Begin(w) \/ Thread(w)
  \/ \E p \in Participants :
       \/ Ripen(p) \/ Beat(p) \/ BeatArrives(p) \/ BeatLost(p)
       \/ OffloadSucceeds(p) \/ OffloadAnswered(p)
       \/ ReportAges(p) /\ UNCHANGED guardVars
  \/ \E g \in Groups : PollAndOrder(g) \/ (HolderStep(g) /\ UNCHANGED guardVars)

CalmFairness ==
  /\ \A w \in Workers : WF_allVars(Thread(w))
  /\ \A p \in Participants : WF_allVars(OffloadSucceeds(p)) /\ WF_allVars(OffloadAnswered(p))
  /\ \A g \in Groups : WF_allVars(Yield(g))

\* Native priority: a request that found the GPU taken is eventually let in, past
\* the Comfy holder, past an offload in progress and past the other threads.
NativeGetsIn == \A w \in Workers : pc[w] = "queued" ~> pc[w] = "starting"

\* Within one native everything keeps its type and GPU work is serialized
\* (the operation lock and the state lock of guard.py).
GuardKept == GuardTypeOK /\ WorkIsSerialized
=============================================================================
