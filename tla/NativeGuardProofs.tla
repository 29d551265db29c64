-------------------------- MODULE NativeGuardProofs --------------------------
(***************************************************************************)
(* Proofs about the natives beside the coordinator, for any number of      *)
(* natives, threads, groups and instances.                                 *)
(*                                                                         *)
(* First, within one native: types, and one piece of GPU work at a time.   *)
(* Then, for snapshots that do not outlive either end: never are a native  *)
(* and a Comfy holder on one GPU.                                          *)
(***************************************************************************)
EXTENDS NativeGuard, GpuCoordinatorProofs

-----------------------------------------------------------------------------
(***************************************************************************)
(* Within one native.                                                      *)
(***************************************************************************)
AtGpu == {"starting", "running"}
Ending == {"leaving", "releasing"}

\* What exists only in a process that runs.
Lives ==
  /\ \A w \in Workers : pc[w] # "idle" => inst[WorkerOf[w]] # None
  /\ \A p \in ready : inst[p] # None
  /\ \A w \in Workers : msg[w] # None => pc[w] \in {"announcing", "starting", "leaving"}
  /\ \A p \in Participants : orders[p] # None /\ ~orders[p].done => orders[p].answer = None

\* Only the booting worker is at work before the process is ready.
Boots ==
  /\ \A p \in Participants : booting[p] # None =>
        /\ WorkerOf[booting[p]] = p
        /\ pc[booting[p]] # "idle"
        /\ pc[booting[p]] \notin Ending => p \notin ready
  /\ \A w \in Workers : pc[w] # "idle" /\ WorkerOf[w] \notin ready => booting[WorkerOf[w]] = w

\* GPU work is under the operation lock, or is the startup's.
Locks ==
  /\ \A p \in Participants : lock[p] # None =>
        WorkerOf[lock[p]] = p /\ pc[lock[p]] \in AtGpu
  /\ \A w \in Workers : pc[w] \in AtGpu =>
        /\ residency[WorkerOf[w]] = "gpu"
        /\ lock[WorkerOf[w]] = w \/ booting[WorkerOf[w]] = w
  /\ \A p \in ready \ failed : residency[p] \in {"cpu", "gpu"}

GuardInv == GuardTypeOK /\ Lives /\ Boots /\ Locks


\* What a native says of itself is a status (snapshot() in guard.py).
LEMMA SnapType ==
  ASSUME GuardTypeOK, NEW p \in Participants, inst[p] # None
  PROVE  Snap(p) \in Status /\ Snap(p) # None
<1> DEFINE b == Busy(p)
           r == p \in ready /\ p \notin failed
           m == p \in quiet /\ ~Busy(p)
<1>1. b \in BOOLEAN /\ r \in BOOLEAN /\ m \in BOOLEAN
  BY DEF Busy
<1>2. inst[p] \in Instances /\ rev[p] \in Nat /\ residency[p] \in Residencies
  BY DEF GuardTypeOK
<1>3. Snap(p) = [inst |-> inst[p], rev |-> rev[p], busy |-> b, ready |-> r,
                 residency |-> residency[p], mature |-> m]
  BY DEF Snap
<1> HIDE DEF b, r, m
<1>4. Snap(p) \in Status
  BY <1>1, <1>2, <1>3 DEF Status
<1> QED
  BY <1>4, NoneAssumption

\* Before the first start nothing runs.
LEMMA GuardStart == NativeInit => GuardInv
<1> SUFFICES ASSUME NativeInit PROVE GuardInv
  OBVIOUS
<1> USE DEF NativeInit, GuardInit
<1>1. GuardTypeOK
  BY DEF GuardTypeOK, Residencies
<1>2. Lives /\ Boots /\ Locks
  BY DEF Lives, Boots, Locks, AtGpu, Ending
<1> QED
  BY <1>1, <1>2 DEF GuardInv

\* The end of a process takes everything of the process with it.
LEMMA EndsKept ==
  ASSUME GuardInv, NEW p \in Participants, ProcessEnds(p)
  PROVE  GuardInv'
<1> USE WorkerAssumption, AbsenceAssumption DEF ProcessEnds, GuardInv
<1>1. GuardTypeOK'
  BY DEF GuardTypeOK, Residencies, Locks, AtGpu
<1>2. Lives'
  BY DEF Lives, GuardTypeOK
<1>3. Boots'
  BY DEF Boots, GuardTypeOK, Ending
<1>4. Locks'
  BY DEF Locks, GuardTypeOK, AtGpu
<1> QED
  BY <1>1, <1>2, <1>3, <1>4

\* The way out of operation(), for a thread that does not boot the process.
Departs(w) ==
  LET p == WorkerOf[w]
  IN /\ booting[p] # w
     /\ Active(p)
     /\ lock' = Unlocked(p, w)
     /\ pc' = [pc EXCEPT ![w] = "leaving"]
     /\ msg' = [msg EXCEPT ![w] = None]
     /\ stale' = stale \ {w}
     /\ UNCHANGED <<inst, used, residency, ready, failed, booting, tok, beat, orders>>

\* operation() is left in one of two ways (the `finally' block of guard.py).
LEMMA QuitCases ==
  ASSUME NEW w \in Workers, Quit(w)
  PROVE  ProcessEnds(WorkerOf[w]) \/ Departs(w)
  BY DEF Quit, Departs

\* The `finally' block takes a thread off the counters and out of its own lock.
LEMMA DepartsKept ==
  ASSUME GuardInv, NEW w \in Workers, pc[w] # "idle", Departs(w)
  PROVE  GuardInv'
<1> USE WorkerAssumption, AbsenceAssumption DEF Departs, GuardInv
<1>1. GuardTypeOK'
  <2>1. \A q \in Participants : lock'[q] # None => pc'[lock'[q]] \in {"starting", "running"}
    BY DEF GuardTypeOK, Locks, AtGpu, Unlocked
  <2>2. /\ rev' \in [Participants -> Nat]
        /\ lock' \in [Participants -> Workers \cup {None}]
    <3>1. /\ rev' = [rev EXCEPT ![WorkerOf[w]] = @ + 1] /\ rev \in [Participants -> Nat]
          /\ WorkerOf[w] \in Participants
      BY DEF GuardTypeOK, Active, Advanced
    <3>2. /\ lock' = [lock EXCEPT ![WorkerOf[w]] = IF @ = w THEN None ELSE @]
          /\ lock \in [Participants -> Workers \cup {None}]
      BY DEF GuardTypeOK, Unlocked
    <3> QED
      BY <3>1, <3>2
  <2>3. quiet' \subseteq Participants /\ stale' \subseteq Workers \cup Participants
    BY DEF GuardTypeOK, Active
  <2> QED
    BY <2>1, <2>2, <2>3 DEF GuardTypeOK
<1>2. Lives'
  BY DEF Lives, GuardTypeOK
<1>3. Boots'
  BY DEF Boots, GuardTypeOK, Ending
<1>4. Locks'
  BY DEF Locks, GuardTypeOK, AtGpu, Unlocked
<1> QED
  BY <1>1, <1>2, <1>3, <1>4

\* So however a thread leaves, the native stays in order.
LEMMA QuitKept ==
  ASSUME GuardInv, NEW w \in Workers, pc[w] # "idle", Quit(w)
  PROVE  GuardInv'
<1>1. WorkerOf[w] \in Participants
  BY WorkerAssumption
<1> QED
  BY <1>1, QuitCases, EndsKept, DepartsKept

\* A step of a thread that moves on and touches only its own token and message.
LEMMA MovesOn ==
  ASSUME GuardInv, NEW w \in Workers, NEW at, pc[w] # "idle", pc' = [pc EXCEPT ![w] = at],
         at \in {"asking", "queued", "admitted", "running", "releasing"},
         pc[w] \in AtGpu <=> at \in AtGpu,
         pc[w] \in Ending <=> at \in Ending,
         tok' \in [Workers -> Tokens \cup {None}],
         msg' \in [Workers -> Status \cup {None}],
         \A v \in Workers \ {w} : msg'[v] = msg[v],
         msg'[w] = None,
         stale' \subseteq Workers \cup Participants,
         UNCHANGED <<processVars, beat, orders>>
  PROVE  GuardInv'
<1> USE WorkerAssumption, AbsenceAssumption DEF GuardInv, processVars
<1>1. GuardTypeOK'
  <2>1. \A q \in Participants : lock'[q] # None => pc'[lock'[q]] \in {"starting", "running"}
    BY DEF GuardTypeOK, Locks, AtGpu
  <2> QED
    BY <2>1 DEF GuardTypeOK
<1>2. Lives'
  BY DEF Lives, GuardTypeOK
<1>3. Boots'
  BY DEF Boots, GuardTypeOK, Ending
<1>4. Locks'
  BY DEF Locks, GuardTypeOK, AtGpu
<1> QED
  BY <1>1, <1>2, <1>3, <1>4

\* What the steps of a process and of its threads do to the native, for every
\* step that is neither of the two above: begin_startup, operation(),
\* register_component and the release.
LEMMA WorkKept ==
  ASSUME GuardInv, NEW w \in Workers,
         \/ Boot(w) \/ Begin(w) \/ TakeSnapshot(w) \/ Enter(w) \/ RestoreFails(w) \/ Finish(w)
         \/ Release(w) \/ ReleaseLost(w)
  PROVE  GuardInv'
<1> USE WorkerAssumption, AbsenceAssumption DEF GuardInv
<1> DEFINE p == WorkerOf[w]
<1>0. p \in Participants
  OBVIOUS
<1>1. CASE Boot(w)
  <2>1. GuardTypeOK'
    BY <1>1 DEF Boot, GuardTypeOK, Lives, Locks, AtGpu, wireVars
  <2>2. Lives'
    BY <1>1 DEF Boot, Lives, GuardTypeOK, wireVars
  <2>3. Boots'
    BY <1>1 DEF Boot, Boots, Lives, GuardTypeOK, Ending
  <2>4. Locks'
    BY <1>1 DEF Boot, Locks, Lives, GuardTypeOK, AtGpu
  <2> QED
    BY <2>1, <2>2, <2>3, <2>4
<1>2. CASE Begin(w)
  <2>1. rev' \in [Participants -> Nat]
    <3>1. rev' = [rev EXCEPT ![p] = @ + 1] /\ rev \in [Participants -> Nat]
      BY <1>2 DEF Begin, Active, Advanced, GuardTypeOK
    <3> QED
      BY <1>0, <3>1
  <2>2. GuardTypeOK'
    BY <1>2, <2>1 DEF Begin, Active, GuardTypeOK, Locks, AtGpu, wireVars
  <2>3. Lives'
    BY <1>2 DEF Begin, Lives, GuardTypeOK, wireVars
  <2>4. Boots'
    BY <1>2 DEF Begin, Boots, Lives, GuardTypeOK, Ending
  <2>5. Locks'
    BY <1>2 DEF Begin, Locks, GuardTypeOK, AtGpu
  <2> QED
    BY <2>2, <2>3, <2>4, <2>5
<1>3. CASE TakeSnapshot(w)
  <2>1. inst[p] # None
    BY <1>3 DEF TakeSnapshot, Lives
  <2>2. Snap(p) \in Status
    BY <1>0, <2>1, SnapType
  <2>3. GuardTypeOK'
    BY <1>3, <2>2 DEF TakeSnapshot, GuardTypeOK, processVars, wireVars
  <2>4. Lives'
    BY <1>3 DEF TakeSnapshot, Lives, GuardTypeOK, processVars, wireVars
  <2>5. Boots' /\ Locks'
    BY <1>3 DEF TakeSnapshot, Boots, Locks, processVars
  <2> QED
    BY <2>3, <2>4, <2>5
<1>4. CASE Enter(w)
  <2>1. rev' \in [Participants -> Nat]
    <3>1. rev' = [rev EXCEPT ![p] = @ + 1] /\ rev \in [Participants -> Nat]
      BY <1>4 DEF Enter, Advanced, GuardTypeOK
    <3> QED
      BY <1>0, <3>1
  <2>2. GuardTypeOK'
    BY <1>4, <2>1 DEF Enter, GuardTypeOK, Residencies, Locks, AtGpu, wireVars
  <2>3. Lives'
    BY <1>4 DEF Enter, Lives, GuardTypeOK, wireVars
  <2>4. Boots'
    BY <1>4 DEF Enter, Boots, GuardTypeOK, Ending
  <2>5. Locks'
    BY <1>4 DEF Enter, MayEnter, Locks, GuardTypeOK, AtGpu
  <2> QED
    BY <2>2, <2>3, <2>4, <2>5
<1>5. CASE RestoreFails(w)
  <2>1. rev' \in [Participants -> Nat]
    <3>1. rev' = [rev EXCEPT ![p] = @ + 1] /\ rev \in [Participants -> Nat]
      BY <1>5 DEF RestoreFails, Active, Advanced, GuardTypeOK
    <3> QED
      BY <1>0, <3>1
  <2>2. GuardTypeOK'
    BY <1>5, <2>1 DEF RestoreFails, Active, GuardTypeOK, Residencies, Locks, AtGpu, wireVars
  <2>3. Lives'
    BY <1>5 DEF RestoreFails, Lives, GuardTypeOK, wireVars
  <2>4. Boots'
    BY <1>5 DEF RestoreFails, Boots, GuardTypeOK, Ending
  <2>5. \A v \in Workers : pc[v] \in AtGpu => WorkerOf[v] # p
    BY <1>5 DEF RestoreFails, MayEnter, Locks, Boots, AtGpu, Ending
  <2>6. Locks'
    BY <1>5, <2>5 DEF RestoreFails, Locks, GuardTypeOK, AtGpu
  <2> QED
    BY <2>2, <2>3, <2>4, <2>6
<1>6. CASE Finish(w)
  <2>1. rev' \in [Participants -> Nat] /\ lock' \in [Participants -> Workers \cup {None}]
    <3>1. rev' = [rev EXCEPT ![p] = @ + 1] /\ rev \in [Participants -> Nat]
      BY <1>6 DEF Finish, Active, Advanced, GuardTypeOK
    <3>2. lock' = [lock EXCEPT ![p] = IF @ = w THEN None ELSE @]
          /\ lock \in [Participants -> Workers \cup {None}]
      BY <1>6 DEF Finish, Unlocked, GuardTypeOK
    <3> QED
      BY <1>0, <3>1, <3>2
  <2>2. Locks'
    BY <1>6 DEF Finish, Unlocked, Locks, GuardTypeOK, AtGpu
  <2>3. GuardTypeOK'
    BY <1>6, <2>1, <2>2 DEF Finish, Active, GuardTypeOK, Locks, AtGpu, wireVars
  <2>4. Lives'
    BY <1>6 DEF Finish, Lives, GuardTypeOK, wireVars
  <2>5. Boots'
    BY <1>6 DEF Finish, Boots, GuardTypeOK, Ending
  <2> QED
    BY <2>2, <2>3, <2>4, <2>5
<1>7. ASSUME pc[w] = "releasing", Returned(w) PROVE GuardInv'
  <2>1. booting' \in [Participants -> Workers \cup {None}]
    <3>1. booting' = [booting EXCEPT ![p] = IF @ = w THEN None ELSE @]
          /\ booting \in [Participants -> Workers \cup {None}]
      BY <1>7 DEF Returned, GuardTypeOK
    <3> QED
      BY <3>1
  <2>2. GuardTypeOK'
    BY <1>7, <2>1 DEF Returned, GuardTypeOK, Locks, AtGpu, wireVars
  <2>3. Lives'
    BY <1>7 DEF Returned, Lives, GuardTypeOK, wireVars
  <2>4. Boots'
    BY <1>7 DEF Returned, Boots, GuardTypeOK, Ending
  <2>5. Locks'
    BY <1>7 DEF Returned, Locks, Boots, GuardTypeOK, AtGpu, Ending
  <2> QED
    BY <2>2, <2>3, <2>4, <2>5
<1>8. CASE Release(w)
  BY <1>7, <1>8 DEF Release
<1>9. CASE ReleaseLost(w)
  <2>1. pc[w] = "releasing" /\ (ProcessEnds(p) \/ Returned(w))
    BY <1>9 DEF ReleaseLost
  <2> QED
    BY <1>0, <1>7, <2>1, EndsKept
<1> QED
  BY <1>1, <1>2, <1>3, <1>4, <1>5, <1>6, <1>8, <1>9

\* What the calls to the coordinator do to the native, whatever the answer:
\* the publishes, acquire_native and its wake-ups, and the calls that are lost,
\* refused or broken.
LEMMA CallsKept ==
  ASSUME GuardInv, TypeOK', NEW w \in Workers,
         \/ Published(w) \/ PublishRefused(w) \/ PublishUnreachable(w) \/ PublishUnanswered(w)
         \/ Ask(w) \/ AskDenied(w) \/ AskLost(w) \/ Wake(w) \/ CallBroken(w) \/ EnterFails(w)
  PROVE  GuardInv'
<1> USE WorkerAssumption, AbsenceAssumption
<1>1. ASSUME NEW v \in Workers, PublishFails(v) PROVE GuardInv'
  <2>1. pc[v] \in {"announcing", "starting", "leaving"} /\ msg[v] # None
    BY <1>1 DEF PublishFails, GuardInv, Lives
  <2>2. CASE Quit(v)
    BY <2>1, <2>2, QuitKept
  <2>3. CASE ~Quit(v)
    <3>1. /\ pc[v] = "leaving" /\ pc' = [pc EXCEPT ![v] = "releasing"]
          /\ msg' = [msg EXCEPT ![v] = None] /\ stale' = stale \ {v}
          /\ UNCHANGED <<processVars, tok, beat, orders>>
      BY <1>1, <2>3 DEF PublishFails
    <3>2. /\ tok' \in [Workers -> Tokens \cup {None}]
          /\ msg' \in [Workers -> Status \cup {None}] /\ msg'[v] = None
          /\ \A u \in Workers \ {v} : msg'[u] = msg[u]
          /\ stale' \subseteq Workers \cup Participants
      BY <3>1 DEF GuardInv, GuardTypeOK
    <3> QED
      BY <3>1, <3>2, MovesOn DEF AtGpu, Ending
  <2> QED
    BY <2>2, <2>3
<1>2. CASE Published(w)
  <2>1. pc[w] \in {"announcing", "starting", "leaving"} /\ msg[w] # None
    BY <1>2 DEF Published, GuardInv, Lives
  <2>2. /\ tok' \in [Workers -> Tokens \cup {None}]
        /\ msg' \in [Workers -> Status \cup {None}] /\ msg'[w] = None
        /\ \A u \in Workers \ {w} : msg'[u] = msg[u]
        /\ stale' \subseteq Workers \cup Participants
        /\ UNCHANGED <<processVars, beat, orders>>
    BY <1>2 DEF Published, GuardInv, GuardTypeOK
  <2>3. CASE pc[w] = "announcing"
    <3>1. pc' = [pc EXCEPT ![w] = "asking"]
      BY <1>2, <2>3 DEF Published, GuardInv, GuardTypeOK
    <3> QED
      BY <2>2, <2>3, <3>1, MovesOn DEF AtGpu, Ending
  <2>4. CASE pc[w] = "starting"
    <3>1. pc' = [pc EXCEPT ![w] = "running"]
      BY <1>2, <2>4 DEF Published, GuardInv, GuardTypeOK
    <3> QED
      BY <2>2, <2>4, <3>1, MovesOn DEF AtGpu, Ending
  <2>5. CASE pc[w] = "leaving"
    <3>1. pc' = [pc EXCEPT ![w] = "releasing"]
      BY <1>2, <2>5 DEF Published, GuardInv, GuardTypeOK
    <3> QED
      BY <2>2, <2>5, <3>1, MovesOn DEF AtGpu, Ending
  <2> QED
    BY <2>1, <2>3, <2>4, <2>5
<1>3. ASSUME Granted(w) PROVE tok' \in [Workers -> Tokens \cup {None}]
  <2>1. PICK n \in nativeTokens' : tok' = [tok EXCEPT ![w] = n.token]
    BY <1>3 DEF Granted, NewToken
  <2>2. n.token \in Tokens
    BY DEF TypeOK
  <2> QED
    BY <2>1, <2>2 DEF GuardInv, GuardTypeOK
<1>4. ASSUME NEW at \in {"queued", "admitted"}, pc[w] \in {"asking", "queued"},
             pc' = [pc EXCEPT ![w] = at], Granted(w) \/ UNCHANGED tok,
             UNCHANGED <<processVars, msg, wireVars>>
      PROVE  GuardInv'
  <2>1. tok' \in [Workers -> Tokens \cup {None}]
    BY <1>3, <1>4 DEF GuardInv, GuardTypeOK
  <2>2. msg[w] = None
    BY <1>4 DEF GuardInv, Lives
  <2>3. /\ msg' \in [Workers -> Status \cup {None}] /\ msg'[w] = None
        /\ \A u \in Workers \ {w} : msg'[u] = msg[u]
        /\ stale' \subseteq Workers \cup Participants
        /\ UNCHANGED <<processVars, beat, orders>>
    BY <1>4, <2>2 DEF GuardInv, GuardTypeOK, wireVars
  <2> QED
    BY <1>4, <2>1, <2>3, MovesOn DEF AtGpu, Ending
<1>5. CASE Ask(w)
  BY <1>4, <1>5 DEF Ask
<1>6. CASE Wake(w)
  <2>1. CASE NewToken = {} /\ waiters' # waiters /\ Quit(w)
    BY <1>6, <2>1, QuitKept DEF Wake
  <2>2. CASE UNCHANGED guardVars
    BY <2>2 DEF GuardInv, GuardTypeOK, Lives, Boots, Locks, guardVars, processVars, workerVars, wireVars
  <2> QED
    BY <1>4, <1>6, <2>1, <2>2 DEF Wake
<1>7. CASE PublishRefused(w) \/ PublishUnreachable(w) \/ PublishUnanswered(w)
  BY <1>1, <1>7 DEF PublishRefused, PublishUnreachable, PublishUnanswered
<1>8. CASE AskDenied(w) \/ AskLost(w) \/ CallBroken(w) \/ EnterFails(w)
  <2>1. pc[w] # "idle" /\ Quit(w)
    BY <1>8 DEF AskDenied, AskLost, CallBroken, EnterFails
  <2> QED
    BY <2>1, QuitKept
<1> QED
  BY <1>2, <1>5, <1>6, <1>7, <1>8

\* The heartbeat thread, and the offload order in offload_if_idle.
LEMMA OrdersKept ==
  ASSUME GuardInv, TypeOK, NEW p \in Participants,
         \/ Beat(p) \/ BeatArrives(p) \/ BeatLost(p)
         \/ Offload(p) \/ OffloadAnswered(p) \/ OffloadGivenUp(p)
  PROVE  GuardInv'
<1> USE WorkerAssumption, AbsenceAssumption DEF GuardInv
<1>1. ASSUME beat' \in [Participants -> Status \cup {None}], stale' \subseteq Workers \cup Participants,
             UNCHANGED <<processVars, workerVars, orders>>
      PROVE  GuardInv'
  <2>1. GuardTypeOK'
    BY <1>1 DEF GuardTypeOK, processVars, workerVars
  <2>2. Lives' /\ Boots' /\ Locks'
    BY <1>1 DEF Lives, Boots, Locks, processVars, workerVars
  <2> QED
    BY <2>1, <2>2
<1>2. CASE Beat(p)
  <2>1. Snap(p) \in Status
    BY <1>2, SnapType DEF Beat
  <2> QED
    BY <1>1, <1>2, <2>1 DEF Beat, GuardTypeOK
<1>3. CASE BeatArrives(p) \/ BeatLost(p)
  BY <1>1, <1>3 DEF BeatArrives, BeatLost, GuardTypeOK
<1>4. CASE Offload(p)
  <2>1. Snap(p) \in Status /\ orders[p] \in [id: Identity, done: BOOLEAN, answer: Status \cup {None}]
    BY <1>4, SnapType DEF Offload, GuardTypeOK
  <2>2. /\ UNCHANGED <<inst, used, rev, ready, quiet, booting, lock, workerVars, beat, stale>>
        /\ \/ UNCHANGED <<residency, failed>>
           \/ /\ lock[p] = None /\ ~Busy(p)
              /\ \/ residency' = [residency EXCEPT ![p] = "cpu"] /\ UNCHANGED failed
                 \/ residency' = [residency EXCEPT ![p] = "unknown"] /\ failed' = failed \cup {p}
    BY <1>4 DEF Offload, Obeys
  <2>3. orders' = [orders EXCEPT ![p].done = TRUE]
        \/ orders' = [orders EXCEPT ![p].done = TRUE, ![p].answer = [Snap(p) EXCEPT !.residency = "cpu"]]
    BY <1>4 DEF Offload
  <2>4. [Snap(p) EXCEPT !.residency = "cpu"] \in Status
    BY <2>1 DEF Status, Residencies
  <2>5. /\ orders' \in [Participants -> {None} \cup [id: Identity, done: BOOLEAN, answer: Status \cup {None}]]
        /\ \A q \in Participants : orders'[q] # None /\ ~orders'[q].done => q # p /\ orders'[q] = orders[q]
    <3>1. CASE orders' = [orders EXCEPT ![p].done = TRUE]
      BY <2>1, <3>1 DEF GuardTypeOK
    <3>2. CASE orders' = [orders EXCEPT ![p].done = TRUE, ![p].answer = [Snap(p) EXCEPT !.residency = "cpu"]]
      <4> DEFINE a == [Snap(p) EXCEPT !.residency = "cpu"]
                 o == [orders[p] EXCEPT !.done = TRUE, !.answer = a]
      <4>1. orders' = [orders EXCEPT ![p] = o] /\ orders \in [Participants -> {None} \cup [id: Identity, done: BOOLEAN, answer: Status \cup {None}]]
        BY <3>2 DEF GuardTypeOK
      <4> HIDE DEF a
      <4>2. o \in [id: Identity, done: BOOLEAN, answer: Status \cup {None}] /\ o.done
        BY <2>1, <2>4 DEF a
      <4> HIDE DEF o
      <4> QED
        BY <4>1, <4>2
    <3> QED
      BY <2>3, <3>1, <3>2
  <2>6. GuardTypeOK'
    BY <2>2, <2>5 DEF GuardTypeOK, Residencies, workerVars
  <2>7. Lives'
    BY <2>2, <2>5 DEF Lives, workerVars
  <2>8. Boots'
    BY <2>2 DEF Boots, workerVars
  <2>9. Locks'
    BY <2>2 DEF Locks, Busy, AtGpu, GuardTypeOK, workerVars
  <2> QED
    BY <2>6, <2>7, <2>8, <2>9
<1>5. CASE OffloadAnswered(p)
  <2>1. GuardTypeOK'
    BY <1>5 DEF OffloadAnswered, GuardTypeOK, processVars, workerVars
  <2>2. Lives'
    BY <1>5 DEF OffloadAnswered, Lives, GuardTypeOK, processVars, workerVars
  <2>3. Boots' /\ Locks'
    BY <1>5 DEF OffloadAnswered, Boots, Locks, processVars, workerVars
  <2> QED
    BY <2>1, <2>2, <2>3
<1>6. CASE OffloadGivenUp(p)
  BY <1>1, <1>6 DEF OffloadGivenUp, GuardTypeOK, guardVars, wireVars
<1> QED
  BY <1>2, <1>3, <1>4, <1>5, <1>6

\* Every step of the natives, of their threads and of the calls between the two
\* processes, with one case for each kind.
LEMMA GuardStep == GuardInv /\ TypeOK /\ TypeOK' /\ [NativeNext]_allVars => GuardInv'
<1> SUFFICES ASSUME GuardInv, TypeOK, TypeOK', [NativeNext]_allVars PROVE GuardInv'
  OBVIOUS
<1> USE WorkerAssumption, AbsenceAssumption
<1>1. ASSUME NEW w \in Workers, Boot(w) PROVE GuardInv'
  BY <1>1, WorkKept
<1>2. CASE Operation
  BY <1>2, WorkKept, CallsKept DEF Operation
<1>3. ASSUME NEW p \in Participants, NativeDies(p) PROVE GuardInv'
  BY <1>3, EndsKept DEF NativeDies
<1>4. ASSUME NEW p \in Participants, Ripen(p) PROVE GuardInv'
  BY <1>4 DEF Ripen, GuardInv, GuardTypeOK, Lives, Boots, Locks, workerVars, wireVars
<1>5. ASSUME NEW p \in Participants,
             \/ Beat(p) \/ BeatArrives(p) \/ BeatLost(p)
             \/ Offload(p) \/ OffloadAnswered(p) \/ OffloadGivenUp(p)
      PROVE  GuardInv'
  BY <1>5, OrdersKept
<1>6. ASSUME NEW g \in Groups, PollAndOrder(g) PROVE GuardInv'
  <2>1. \A p \in Participants : offloading'[p] # offloading[p] => offloading'[p] \in Identity
    <3>1. \A p \in Participants : OffloadCandidate(g, p) => <<obs[p].inst, obs[p].rev>> \in Identity
      BY DEF OffloadCandidate, Settled, TypeOK, Members, Status, Identity
    <3> QED
      BY <1>6, <3>1 DEF PollAndOrder, PollComfy, TypeOK, Members
  <2>2. \A p \in Participants :
           \/ orders'[p] = orders[p]
           \/ orders'[p] = [id |-> offloading'[p], done |-> FALSE, answer |-> None] /\ offloading'[p] \in Identity
    BY <1>6, <2>1 DEF PollAndOrder
  <2>3. orders' \in [Participants -> {None} \cup [id: Identity, done: BOOLEAN, answer: Status \cup {None}]]
    <3>1. orders' = [p \in Participants |-> orders'[p]]
      BY <1>6 DEF PollAndOrder
    <3>2. ASSUME NEW p \in Participants
          PROVE  orders'[p] \in {None} \cup [id: Identity, done: BOOLEAN, answer: Status \cup {None}]
      <4>1. CASE orders'[p] = orders[p]
        BY <4>1 DEF GuardInv, GuardTypeOK
      <4>2. CASE orders'[p] = [id |-> offloading'[p], done |-> FALSE, answer |-> None]
                 /\ offloading'[p] \in Identity
        BY <4>2
      <4> QED
        BY <2>2, <4>1, <4>2
    <3> QED
      BY <3>1, <3>2
  <2>4. GuardTypeOK'
    BY <1>6, <2>3 DEF PollAndOrder, GuardInv, GuardTypeOK, processVars, workerVars
  <2>5. Lives'
    BY <1>6, <2>2 DEF PollAndOrder, GuardInv, Lives, processVars, workerVars
  <2>6. Boots' /\ Locks'
    BY <1>6 DEF PollAndOrder, GuardInv, Boots, Locks, processVars, workerVars
  <2> QED
    BY <2>4, <2>5, <2>6 DEF GuardInv
<1>7. ASSUME NEW step, CoordinatorLost(step) PROVE GuardInv'
  <2>1. UNCHANGED <<processVars, workerVars, beat, orders>> /\ stale' \subseteq Workers \cup Participants
    BY <1>7 DEF CoordinatorLost, InFlight
  <2> QED
    BY <2>1 DEF GuardInv, GuardTypeOK, Lives, Boots, Locks, processVars, workerVars
<1>8. CASE UNCHANGED guardVars
  BY <1>8 DEF GuardInv, GuardTypeOK, Lives, Boots, Locks, guardVars, processVars, workerVars, wireVars
<1> QED
  BY <1>1, <1>2, <1>3, <1>4, <1>5, <1>6, <1>7, <1>8 DEF NativeNext, ServesForsaken, allVars

-----------------------------------------------------------------------------
(***************************************************************************)
(* The natives beside the coordinator: every step is one the coordinator   *)
(* of GpuCoordinator takes, with a report that is a Status whatever the    *)
(* process was doing, or leaves the coordinator alone.                     *)
(***************************************************************************)
LEMMA CoordinatorSteps ==
  ASSUME GuardInv, [NativeNext]_allVars
  PROVE  \/ [Next]_vars
         \/ \E p \in Participants, s \in Status : UpdateNative(p, s)
         \/ \E p \in Participants, r \in Status \cup {None} : OffloadReturns(p, r)
<1> USE WorkerAssumption
<1>1. CASE UNCHANGED vars
  BY <1>1
<1>2. ASSUME NEW w \in Workers, Boot(w) PROVE UNCHANGED vars
  BY <1>2 DEF Boot
<1>3. ASSUME NEW w \in Workers,
             \/ Begin(w) \/ TakeSnapshot(w) \/ PublishRefused(w) \/ PublishUnreachable(w) \/ AskDenied(w)
             \/ CallBroken(w) \/ Enter(w) \/ EnterFails(w) \/ RestoreFails(w) \/ Finish(w)
      PROVE  UNCHANGED vars
  BY <1>3 DEF Begin, TakeSnapshot, PublishRefused, PublishUnreachable, AskDenied,
              CallBroken, Enter, EnterFails, RestoreFails, Finish
<1>4. ASSUME NEW w \in Workers, Published(w) \/ PublishUnanswered(w)
      PROVE  \E p \in Participants, s \in Status : UpdateNative(p, s)
  <2>1. UpdateNative(WorkerOf[w], msg[w]) /\ msg[w] # None
    BY <1>4 DEF Published, PublishUnanswered, PublishFails
  <2> QED
    BY <2>1 DEF GuardInv, GuardTypeOK
<1>5. ASSUME NEW w \in Workers, Ask(w) \/ AskLost(w) \/ Wake(w) PROVE Native
  <2>1. WorkerOf[w] \in Participants /\ (AcquireNative(WorkerOf[w]) \/ RetryNative(WorkerOf[w]))
    BY <1>5 DEF Ask, AskLost, Wake
  <2> QED
    BY <2>1 DEF Native
<1>6. ASSUME NEW w \in Workers, Release(w) \/ ReleaseLost(w)
      PROVE  UNCHANGED vars \/ \E n \in nativeTokens : ReleaseNative(n)
  BY <1>6 DEF Release, ReleaseLost, Held
<1>7. CASE Operation
  <2>1. PICK w \in Workers :
          \/ Begin(w) \/ TakeSnapshot(w) \/ PublishRefused(w) \/ PublishUnreachable(w) \/ AskDenied(w)
          \/ CallBroken(w) \/ Enter(w) \/ EnterFails(w) \/ RestoreFails(w) \/ Finish(w)
          \/ Published(w) \/ PublishUnanswered(w) \/ Ask(w) \/ AskLost(w) \/ Wake(w)
          \/ Release(w) \/ ReleaseLost(w)
    BY <1>7 DEF Operation
  <2> QED
    BY <1>1, <1>3, <1>4, <1>5, <1>6, <2>1 DEF Next
<1>8. ASSUME NEW p \in Participants,
             \/ NativeDies(p) \/ Ripen(p) \/ Beat(p) \/ BeatLost(p) \/ Offload(p)
      PROVE  UNCHANGED vars
  BY <1>8 DEF NativeDies, Ripen, Beat, BeatLost, Offload
<1>9. ASSUME NEW p \in Participants, BeatArrives(p)
      PROVE  \E q \in Participants, s \in Status : UpdateNative(q, s)
  BY <1>9 DEF BeatArrives, GuardInv, GuardTypeOK
<1>10. ASSUME NEW p \in Participants, OffloadAnswered(p) \/ OffloadGivenUp(p)
       PROVE  \E q \in Participants, r \in Status \cup {None} : OffloadReturns(q, r)
  BY <1>10 DEF OffloadAnswered, OffloadGivenUp, GuardInv, GuardTypeOK
<1>11. ASSUME NEW g \in Groups, PollAndOrder(g) PROVE Next
  BY <1>11 DEF PollAndOrder, Next, Comfy
<1>12. ASSUME CoordinatorLost(Crash) PROVE Next
  BY <1>12 DEF CoordinatorLost, Next
<1>13. ASSUME NEW g \in Groups, CoordinatorLost(AcquireComfyCrashes(g) \/ ReleaseCleanCrashes(g)) PROVE Next
  BY <1>13 DEF CoordinatorLost, Next, Comfy
<1>14. CASE CoordinatorAlone
  BY <1>14 DEF CoordinatorAlone, Next, Comfy, Native
<1>15. CASE UNCHANGED allVars
  BY <1>15 DEF allVars
<1>16. ASSUME NEW p \in Participants, ServesForsaken(p) PROVE Next
  BY <1>16 DEF ServesForsaken, Next, Native
<1> QED
  BY <1>1, <1>2, <1>7, <1>8, <1>9, <1>10, <1>11, <1>12, <1>13, <1>14, <1>15, <1>16 DEF NativeNext

\* So the fence of the coordinator, which was proved for reports of its own
\* clients, holds for everything real natives send it.
LEMMA FencedBesideNatives == IInv /\ GuardInv /\ [NativeNext]_allVars => IInv'
  BY CoordinatorSteps, FenceStep, UpdateFenced, AnswerFenced

\* Nothing is claimed before anything runs.
LEMMA NativesStart == NativeInit => IInv /\ GuardInv
  BY InitFenced, GuardStart DEF NativeInit

\* Both together, for any interleaving of the two sides.
LEMMA NativesStep == IInv /\ GuardInv /\ [NativeNext]_allVars => IInv' /\ GuardInv'
<1>1. IInv => TypeOK
  BY DEF IInv
<1> QED
  BY <1>1, FencedBesideNatives, GuardStep, PTL

\* Within one native, whatever is interleaved, refused, lost or restarted, and
\* also when snapshots arrive late: GPU work is serialized by the operation lock
\* and happens with the models on the GPU (guard.py).
THEOREM WorkSerialized == NativeSpec => []GuardKept
<1>1. GuardInv => GuardKept
  <2> SUFFICES ASSUME GuardInv PROVE WorkIsSerialized
    BY DEF GuardInv, GuardKept
  <2> SUFFICES ASSUME NEW w \in Workers, pc[w] \in {"starting", "running"},
                      NEW v \in Workers, v # w, WorkerOf[v] = WorkerOf[w], pc[v] \in {"starting", "running"}
               PROVE  FALSE
    BY DEF WorkIsSerialized, GuardInv, Locks, AtGpu
  <2>1. \A u \in {v, w} : lock[WorkerOf[w]] = u \/ booting[WorkerOf[w]] = u
    BY DEF GuardInv, Locks, AtGpu
  <2>2. PICK u \in {v, w} : booting[WorkerOf[w]] = u
    BY <2>1
  <2>3. WorkerOf[w] \notin ready
    BY <2>2, WorkerAssumption, AbsenceAssumption DEF GuardInv, Boots, Ending
  <2> QED
    BY <2>3 DEF GuardInv, Boots
<1> QED
  BY <1>1, NativesStart, NativesStep, PTL DEF NativeSpec

\* The journal's promise in the company of the natives: no two on one GPU by the
\* coordinator's own books (_persist_comfy, acquire_native).
THEOREM ExclusiveBesideNatives == NativeSpec => []ExclusiveUse
<1>1. IInv => ExclusiveUse
  BY DEF IInv, GroupFenced, ExclusiveUse
<1> QED
  BY <1>1, NativesStart, NativesStep, PTL DEF NativeSpec

-----------------------------------------------------------------------------
(***************************************************************************)
(* What a native and the coordinator know of each other, when a snapshot   *)
(* that was on its way to or from a process that is gone does not arrive   *)
(* (LateSnapshots is FALSE).                                               *)
(***************************************************************************)
\* A report that lets Comfy in.
Passive(s) == s.ready /\ ~s.busy /\ s.residency = "cpu"

\* A thread of p has been heard by the coordinator, or was let in.
Underway(p) == \E w \in Workers : WorkerOf[w] = p /\
                  pc[w] \in {"asking", "queued", "admitted", "starting", "running"}
Engaged(p) == OnGpu(p) \/ Underway(p)

\* A native that is on the GPU or has the token to step onto it.
Using(p) == OnGpu(p) \/ \E w \in Workers : WorkerOf[w] = p /\
                           pc[w] \in {"admitted", "starting", "running"}

\* A snapshot of p on its way, and one that can still arrive.
Sent(p, s) == s = beat[p] \/ \E w \in Workers : WorkerOf[w] = p /\ s = msg[w]
Arrives(p, s) == \/ s = beat[p] /\ p \notin stale
                 \/ \E w \in Workers : w \notin stale /\ WorkerOf[w] = p /\ s = msg[w]

Answered(p, x) == orders[p] # None /\ x = orders[p].answer

\* Snapshots and answers are of the running process and not from its future,
\* and a thread that announces itself outruns every passive one of them.
Honest(p) ==
  /\ \A s \in Status : Sent(p, s) \/ Answered(p, s) => s.inst = inst[p] /\ s.rev <= rev[p]
  /\ \A w \in Workers : WorkerOf[w] = p /\ pc[w] = "announcing" =>
       \A x \in Status : (Sent(p, x) \/ Answered(p, x)) /\ Passive(x) =>
           /\ x.rev < rev[p]
           /\ msg[w] # None => x.rev < msg[w].rev
  /\ \A w \in Workers : WorkerOf[w] = p /\ pc[w] = "announcing" /\ msg[w] # None => msg[w].busy

Outdated(p, s) == obs[p] # None /\ s.rev < obs[p].rev

\* While a native may use the GPU, neither what the coordinator knows of it
\* nor anything that can still arrive makes it look passive.
Known(p) ==
  Engaged(p) =>
    /\ obs[p] # None => ~Passive(obs[p]) /\ obs[p].inst = inst[p]
    /\ \A s \in Status : Arrives(p, s) => Outdated(p, s) \/ ~Passive(s)
    /\ \A x \in Status : Answered(p, x) /\ Passive(x) =>
          /\ x.rev < rev[p]
          /\ obs[p] # None => x.rev < obs[p].rev
          /\ \A s \in Status : Arrives(p, s) => Outdated(p, s) \/ x.rev < s.rev

\* No claim beside a native that is on the GPU or may step onto it.
Claimed(g) == claims[g] # {} => \A p \in Members(g) : ~Using(p)

WireInv == /\ \A p \in Participants : Honest(p) /\ Known(p)
           /\ \A g \in Groups : Claimed(g)

\* A step after which there is only less to know about p.
Subsides(p) ==
  /\ inst'[p] = inst[p] /\ obs'[p] = obs[p] /\ rev[p] <= rev'[p]
  /\ \A s \in Status : /\ Sent(p, s)' => Sent(p, s)
                       /\ Arrives(p, s)' => Arrives(p, s)
                       /\ Answered(p, s)' => Answered(p, s)
  /\ \A w \in Workers : WorkerOf[w] = p /\ pc'[w] = "announcing" =>
                           pc[w] = "announcing" /\ msg'[w] = msg[w]
  /\ Engaged(p)' => Engaged(p)

\* Such a step keeps what is known about p true.
LEMMA SubsidesKept ==
  ASSUME GuardTypeOK, GuardTypeOK', TypeOK, NEW p \in Participants, Honest(p), Known(p), Subsides(p)
  PROVE  Honest(p)' /\ Known(p)'
<1>1. rev[p] \in Nat /\ rev'[p] \in Nat /\ \A s \in Status : s.rev \in Nat
  BY DEF GuardTypeOK, Status
<1>2. Honest(p)'
  BY <1>1 DEF Honest, Subsides
<1>3. \A s \in Status : Outdated(p, s) => Outdated(p, s)'
  BY DEF Outdated, Subsides
<1>4. Known(p)'
  BY <1>1, <1>3 DEF Known, Subsides
<1> QED
  BY <1>2, <1>4

\* A thread that moves without announcing itself or sending anything.
LEMMA WorkerSubsides ==
  ASSUME GuardTypeOK, NEW w \in Workers, NEW at, at # "announcing", pc' = [pc EXCEPT ![w] = at],
         \/ UNCHANGED <<msg, stale>>
         \/ msg' = [msg EXCEPT ![w] = None] /\ stale' = stale \ {w},
         UNCHANGED <<inst, beat, orders, obs>>,
         \A p \in Participants : rev[p] <= rev'[p],
         \A p \in Participants : OnGpu(p)' => OnGpu(p) \/ (p = WorkerOf[w] /\ Engaged(p)),
         at \in {"asking", "queued", "admitted", "starting", "running"} => Engaged(WorkerOf[w])
  PROVE  \A p \in Participants : Subsides(p)
<1> SUFFICES ASSUME NEW p \in Participants PROVE Subsides(p)
  OBVIOUS
<1> USE NoneAssumption, WorkerAssumption, SenderAssumption DEF GuardTypeOK
<1>1. \A s \in Status : Sent(p, s)' => Sent(p, s)
  BY DEF Sent
<1>2. \A s \in Status : Arrives(p, s)' => Arrives(p, s)
  BY DEF Arrives
<1>3. \A s \in Status : Answered(p, s)' => Answered(p, s)
  BY DEF Answered
<1>4. Engaged(p)' => Engaged(p)
  BY DEF Engaged, Underway
<1> QED
  BY <1>1, <1>2, <1>3, <1>4 DEF Subsides

\* What the steps of one native leave of the others.
LEMMA OthersSubside ==
  ASSUME GuardTypeOK, NEW q \in Participants,
         inst'[q] = inst[q], obs'[q] = obs[q], rev'[q] = rev[q], residency'[q] = residency[q],
         q \in failed' <=> q \in failed, beat'[q] = beat[q], orders'[q] = orders[q],
         q \in stale => q \in stale',
         \A w \in Workers : WorkerOf[w] = q =>
            pc'[w] = pc[w] /\ msg'[w] = msg[w] /\ (w \in stale => w \in stale')
  PROVE  Subsides(q)
<1> USE WorkerAssumption DEF GuardTypeOK
<1>1. \A s \in Status : Sent(q, s)' => Sent(q, s)
  BY DEF Sent
<1>2. \A s \in Status : Arrives(q, s)' => Arrives(q, s)
  BY DEF Arrives
<1>3. \A s \in Status : Answered(q, s)' => Answered(q, s)
  BY DEF Answered
<1>4. Engaged(q)' => Engaged(q)
  BY DEF Engaged, Underway, OnGpu
<1> QED
  BY <1>1, <1>2, <1>3, <1>4 DEF Subsides

\* The end of a process takes what it sent and what it answered with it.
LEMMA EndsKnown ==
  ASSUME ~LateSnapshots, GuardInv, GuardInv', TypeOK, \A q \in Participants : Honest(q) /\ Known(q),
         NEW p \in Participants, ProcessEnds(p), \A q \in Participants \ {p} : obs'[q] = obs[q]
  PROVE  \A q \in Participants : Honest(q)' /\ Known(q)' /\ (Using(q)' => Using(q))
<1> SUFFICES ASSUME NEW q \in Participants
             PROVE  Honest(q)' /\ Known(q)' /\ (Using(q)' => Using(q))
  OBVIOUS
<1> USE WorkerAssumption, NoneAssumption, AbsenceAssumption, SenderAssumption
<1>0. GuardTypeOK /\ GuardTypeOK'
  BY DEF GuardInv
<1>1. CASE q = p
  <2>1. /\ beat'[p] = None /\ orders'[p] = None /\ residency'[p] = "unknown" /\ p \notin failed'
        /\ \A w \in Workers : WorkerOf[w] = p => msg'[w] = None /\ pc'[w] = "idle"
    BY <1>0 DEF ProcessEnds, GuardTypeOK
  <2>2. \A s \in Status : ~Sent(p, s)' /\ ~Answered(p, s)'
    BY <2>1 DEF Sent, Answered
  <2>3. Honest(p)'
    BY <2>1, <2>2 DEF Honest
  <2>4. ~Engaged(p)' /\ ~Using(p)'
    BY <2>1 DEF Engaged, Underway, Using, OnGpu
  <2> QED
    BY <1>1, <2>3, <2>4 DEF Known
<1>2. CASE q # p
  <2>1. Subsides(q) /\ (Using(q)' => Using(q))
    <3>1. /\ inst'[q] = inst[q] /\ obs'[q] = obs[q] /\ rev'[q] = rev[q] /\ residency'[q] = residency[q]
          /\ q \in failed' <=> q \in failed
          /\ beat'[q] = beat[q] /\ orders'[q] = orders[q] /\ (q \in stale => q \in stale')
      BY <1>0, <1>2 DEF ProcessEnds, GuardTypeOK
    <3>2. \A w \in Workers : WorkerOf[w] = q =>
            pc'[w] = pc[w] /\ msg'[w] = msg[w] /\ (w \in stale => w \in stale')
      BY <1>0, <1>2 DEF ProcessEnds, GuardTypeOK
    <3>3. Subsides(q)
      BY <1>0, <3>1, <3>2, OthersSubside
    <3> QED
      BY <3>1, <3>2, <3>3 DEF Using, OnGpu
  <2> QED
    BY <1>0, <2>1, SubsidesKept
<1> QED
  BY <1>1, <1>2

\* So does, more or less, every way to leave operation().
LEMMA QuitKnown ==
  ASSUME ~LateSnapshots, GuardInv, GuardInv', TypeOK, \A q \in Participants : Honest(q) /\ Known(q),
         NEW w \in Workers, Quit(w), UNCHANGED obs
  PROVE  \A q \in Participants : Honest(q)' /\ Known(q)' /\ (Using(q)' => Using(q))
<1> USE WorkerAssumption
<1>1. CASE ProcessEnds(WorkerOf[w])
  BY <1>1, EndsKnown
<1>2. CASE Departs(w)
  <2>1. /\ pc' = [pc EXCEPT ![w] = "leaving"]
        /\ msg' = [msg EXCEPT ![w] = None] /\ stale' = stale \ {w}
        /\ UNCHANGED <<inst, residency, failed, beat, orders>>
    BY <1>2 DEF Departs
  <2>2. \A p \in Participants : rev[p] <= rev'[p]
    <3>1. rev' = [rev EXCEPT ![WorkerOf[w]] = @ + 1] /\ rev \in [Participants -> Nat]
      BY <1>2 DEF Departs, Active, Advanced, GuardInv, GuardTypeOK
    <3> QED
      BY <3>1
  <2>3. GuardTypeOK /\ GuardTypeOK'
    BY DEF GuardInv
  <2>4. \A p \in Participants : OnGpu(p)' => OnGpu(p)
    BY <2>1 DEF OnGpu
  <2>5. \A p \in Participants : Subsides(p)
    BY <2>1, <2>2, <2>3, <2>4, WorkerSubsides
  <2>6. \A p \in Participants : Using(p)' => Using(p)
    BY <2>1, <2>3, <2>4 DEF Using, GuardTypeOK
  <2> QED
    BY <2>3, <2>5, <2>6, SubsidesKept
<1> QED
  BY <1>1, <1>2, QuitCases

\* What a native says of itself while it may use the GPU lets nobody in.
LEMMA SnapHonest ==
  ASSUME NEW p \in Participants, Engaged(p)
  PROVE  ~Passive(Snap(p))
<1> DEFINE b == Busy(p)
           r == p \in ready /\ p \notin failed
           m == p \in quiet /\ ~Busy(p)
<1>1. Snap(p) = [inst |-> inst[p], rev |-> rev[p], busy |-> b, ready |-> r,
                 residency |-> residency[p], mature |-> m]
  BY DEF Snap
<1>2. b \/ ~r \/ residency[p] = "gpu"
  BY DEF Engaged, Underway, OnGpu, Busy
<1> HIDE DEF b, r, m
<1> QED
  BY <1>1, <1>2 DEF Passive

\* The steps by which a thread sets out: the start of the process, the
\* announcement, and the snapshot it takes (begin_startup, operation()).
LEMMA SetsOut ==
  ASSUME GuardInv, GuardInv', TypeOK, \A q \in Participants : Honest(q) /\ Known(q),
         NEW w \in Workers, Boot(w) \/ Begin(w) \/ TakeSnapshot(w)
  PROVE  \A q \in Participants : Honest(q)' /\ Known(q)' /\ (Using(q)' => Using(q))
<1> SUFFICES ASSUME NEW q \in Participants
             PROVE  Honest(q)' /\ Known(q)' /\ (Using(q)' => Using(q))
  OBVIOUS
<1> USE WorkerAssumption, NoneAssumption, AbsenceAssumption, SenderAssumption
<1> DEFINE p == WorkerOf[w]
<1>0. GuardTypeOK /\ GuardTypeOK' /\ p \in Participants
  BY DEF GuardInv
<1>1. /\ UNCHANGED <<residency, failed, beat, orders, obs, stale>>
      /\ \A v \in Workers : pc'[v] # pc[v] => pc'[v] = "announcing"
      /\ \A v \in Workers : WorkerOf[v] # p => pc'[v] = pc[v] /\ msg'[v] = msg[v]
      /\ q # p => inst'[q] = inst[q] /\ rev'[q] = rev[q]
  BY <1>0 DEF Boot, Begin, Active, Advanced, TakeSnapshot, GuardTypeOK, processVars, wireVars, vars, nativeVars
<1>2. Using(q)' => Using(q)
  BY <1>1 DEF Using, OnGpu
<1>3. Engaged(q)' => Engaged(q)
  BY <1>1 DEF Engaged, Underway, OnGpu
<1>4. CASE q # p
  <2>1. Subsides(q)
    BY <1>0, <1>1, <1>4, OthersSubside
  <2> QED
    BY <1>0, <1>2, <2>1, SubsidesKept
<1>5. CASE Boot(w) /\ q = p
  <2>1. inst[p] = None /\ UNCHANGED msg
    BY <1>5 DEF Boot
  <2>2. \A s \in Status : ~Sent(p, s) /\ ~Answered(p, s)
    BY <2>1 DEF Honest, Status
  <2>3. \A s \in Status : ~Sent(p, s)' /\ ~Arrives(p, s)' /\ ~Answered(p, s)'
    BY <1>1, <2>1, <2>2 DEF Sent, Arrives, Answered
  <2>4. \A v \in Workers : WorkerOf[v] = p => msg'[v] = None
    BY <1>0, <2>3 DEF Sent, GuardTypeOK
  <2>5. Honest(p)'
    BY <2>3, <2>4 DEF Honest
  <2>6. Engaged(p) => obs[p] = None
    BY <2>1 DEF Known, TypeOK, Status
  <2>7. Known(p)'
    BY <1>1, <1>3, <1>5, <2>3, <2>6 DEF Known
  <2> QED
    BY <1>2, <1>5, <2>5, <2>7
<1>6. CASE Begin(w) /\ q = p
  <2>1. /\ UNCHANGED <<inst, msg>> /\ pc[w] = "idle"
        /\ pc' = [pc EXCEPT ![w] = "announcing"]
        /\ rev' = [rev EXCEPT ![p] = @ + 1]
    BY <1>6 DEF Begin, Active, Advanced
  <2>2. msg[w] = None
    BY <2>1 DEF GuardInv, Lives
  <2>3. \A s \in Status : /\ Sent(p, s)' <=> Sent(p, s)
                          /\ Arrives(p, s)' <=> Arrives(p, s)
                          /\ Answered(p, s)' <=> Answered(p, s)
                          /\ Outdated(p, s)' <=> Outdated(p, s)
    BY <1>1, <2>1 DEF Sent, Arrives, Answered, Outdated
  <2>4. rev[p] \in Nat /\ rev'[p] = rev[p] + 1 /\ \A s \in Status : s.rev \in Nat
    BY <1>0, <2>1 DEF GuardTypeOK, Status
  <2>5. Honest(p)'
    BY <1>0, <2>1, <2>2, <2>3, <2>4 DEF Honest, GuardTypeOK
  <2>6. Known(p)'
    <3> SUFFICES ASSUME Engaged(p)'
                 PROVE  /\ obs'[p] # None => ~Passive(obs'[p]) /\ obs'[p].inst = inst'[p]
                        /\ \A s \in Status : Arrives(p, s)' => Outdated(p, s)' \/ ~Passive(s)
                        /\ \A x \in Status : Answered(p, x)' /\ Passive(x) =>
                             /\ x.rev < rev'[p]
                             /\ obs'[p] # None => x.rev < obs'[p].rev
                             /\ \A s \in Status : Arrives(p, s)' => Outdated(p, s)' \/ x.rev < s.rev
      BY DEF Known
    <3> QED
      BY <1>0, <1>1, <1>3, <1>6, <2>1, <2>3, <2>4 DEF Known
  <2> QED
    BY <1>2, <1>6, <2>5, <2>6
<1>7. CASE TakeSnapshot(w) /\ q = p
  <2> DEFINE n == Snap(p)
  <2>1. /\ UNCHANGED <<inst, rev, pc>> /\ pc[w] # "idle"
        /\ msg' = [msg EXCEPT ![w] = n]
    BY <1>7 DEF TakeSnapshot, processVars
  <2>2. inst[p] # None
    BY <2>1 DEF GuardInv, Lives
  <2>3. n \in Status /\ n # None /\ n.inst = inst[p] /\ n.rev = rev[p] /\ (n.busy <=> Busy(p))
    BY <1>0, <2>2, SnapType DEF Snap
  <2>4. Engaged(p) => ~Passive(n)
    BY <1>0, SnapHonest
  <2> HIDE DEF n
  <2>5. \A s \in Status : /\ Sent(p, s)' => Sent(p, s) \/ s = n
                          /\ Arrives(p, s)' => Arrives(p, s) \/ s = n
                          /\ Answered(p, s)' <=> Answered(p, s)
                          /\ Outdated(p, s)' <=> Outdated(p, s)
    BY <1>0, <1>1, <2>1 DEF Sent, Arrives, Answered, Outdated, GuardTypeOK
  <2>6. rev[p] \in Nat /\ \A s \in Status : s.rev \in Nat
    BY <1>0 DEF GuardTypeOK, Status
  <2>7. ASSUME NEW v \in Workers, WorkerOf[v] = p, pc[v] = "announcing" PROVE n.busy /\ ~Passive(n)
    BY <2>3, <2>7 DEF Busy, Passive
  <2>8. \A v \in Workers : msg'[v] = IF v = w THEN n ELSE msg[v]
    BY <1>0, <2>1 DEF GuardTypeOK
  <2>9. Honest(p)'
    BY <1>0, <2>1, <2>3, <2>5, <2>6, <2>7, <2>8 DEF Honest
  <2>10. Known(p)'
    <3> SUFFICES ASSUME Engaged(p)'
                 PROVE  /\ obs'[p] # None => ~Passive(obs'[p]) /\ obs'[p].inst = inst'[p]
                        /\ \A s \in Status : Arrives(p, s)' => Outdated(p, s)' \/ ~Passive(s)
                        /\ \A x \in Status : Answered(p, x)' /\ Passive(x) =>
                             /\ x.rev < rev'[p]
                             /\ obs'[p] # None => x.rev < obs'[p].rev
                             /\ \A s \in Status : Arrives(p, s)' => Outdated(p, s)' \/ x.rev < s.rev
      BY DEF Known
    <3> QED
      BY <1>0, <1>1, <1>3, <1>7, <2>1, <2>3, <2>4, <2>5, <2>6 DEF Known
  <2> QED
    BY <1>2, <1>7, <2>9, <2>10
<1> QED
  BY <1>4, <1>5, <1>6, <1>7

\* A snapshot that arrives: the coordinator learns what a native that may use
\* the GPU said of itself, and nothing older can change that (update_native
\* refuses a revision that regressed).
LEMMA ArrivalKnown ==
  ASSUME GuardTypeOK, GuardTypeOK', TypeOK, TypeOK', NEW p \in Participants, Honest(p), Known(p),
         NEW s \in Status, Arrives(p, s), UpdateNative(p, s), UNCHANGED inst, rev[p] <= rev'[p],
         \A x \in Status : /\ Sent(p, x)' => Sent(p, x)
                           /\ Arrives(p, x)' => Arrives(p, x)
                           /\ Answered(p, x)' => Answered(p, x),
         \A w \in Workers : WorkerOf[w] = p /\ pc'[w] = "announcing" =>
                               pc[w] = "announcing" /\ msg'[w] = msg[w],
         \/ Engaged(p)' => Engaged(p)
         \/ s.busy /\ \A x \in Status : (Sent(p, x) \/ Answered(p, x)) /\ Passive(x) => x.rev < s.rev
  PROVE  Honest(p)' /\ Known(p)'
<1> USE NoneAssumption
<1>1. rev[p] \in Nat /\ rev'[p] \in Nat /\ \A x \in Status : x.rev \in Nat
  BY DEF GuardTypeOK, Status
<1>2. obs'[p] = s /\ (obs[p] # None => obs[p].inst # s.inst \/ s.rev >= obs[p].rev)
  BY DEF UpdateNative, TypeOK
<1>3. \A x \in Status : Arrives(p, x) => Sent(p, x)
  BY DEF Arrives, Sent
<1>4. Honest(p)'
  BY <1>1 DEF Honest
<1>5. s.inst = inst[p]
  BY <1>3 DEF Honest
<1>6. s # None /\ \A x \in Status : Outdated(p, x)' <=> x.rev < s.rev
  BY <1>2 DEF Outdated
<1>7. ASSUME Engaged(p)'
      PROVE  /\ obs'[p] # None => ~Passive(obs'[p]) /\ obs'[p].inst = inst'[p]
             /\ \A x \in Status : Arrives(p, x)' => Outdated(p, x)' \/ ~Passive(x)
             /\ \A x \in Status : Answered(p, x)' /\ Passive(x) =>
                  /\ x.rev < rev'[p]
                  /\ obs'[p] # None => x.rev < obs'[p].rev
                  /\ \A y \in Status : Arrives(p, y)' => Outdated(p, y)' \/ x.rev < y.rev
  <2>1. CASE s.busy /\ \A x \in Status : (Sent(p, x) \/ Answered(p, x)) /\ Passive(x) => x.rev < s.rev
    <3>1. ~Passive(s)
      BY <2>1 DEF Passive
    <3>2. \A x \in Status : Answered(p, x) => x.rev <= rev[p]
      BY DEF Honest
    <3>3. s.rev <= rev[p]
      BY <1>3 DEF Honest
    <3> QED
      BY <1>1, <1>2, <1>3, <1>5, <1>6, <2>1, <3>1, <3>2, <3>3
  <2>2. CASE Engaged(p)
    <3>1. obs[p] # None => s.rev >= obs[p].rev /\ obs[p].rev \in Nat
      BY <1>2, <1>5, <2>2 DEF Known, TypeOK, Status
    <3>2. ~Outdated(p, s)
      BY <1>1, <3>1 DEF Outdated
    <3>3. ~Passive(s)
      BY <2>2, <3>2 DEF Known
    <3>4. \A x \in Status : Outdated(p, x) => x.rev < s.rev
      BY <1>1, <3>1 DEF Outdated
    <3>5. \A x \in Status : Answered(p, x) /\ Passive(x) => x.rev < rev'[p] /\ x.rev < s.rev
      <4>1. \A x \in Status : Answered(p, x) /\ Passive(x) => x.rev < rev[p] /\ x.rev < s.rev
        BY <2>2, <3>2 DEF Known
      <4> QED
        BY <1>1, <4>1
    <3>6. \A x \in Status : Arrives(p, x) => x.rev < s.rev \/ ~Passive(x)
      BY <2>2, <3>4 DEF Known
    <3>7. \A x, y \in Status : Answered(p, x) /\ Passive(x) /\ Arrives(p, y) => y.rev < s.rev \/ x.rev < y.rev
      BY <2>2, <3>4 DEF Known
    <3> QED
      BY <1>2, <1>5, <1>6, <3>3, <3>5, <3>6, <3>7
  <2> QED
    BY <1>7, <2>1, <2>2
<1> QED
  BY <1>4, <1>7 DEF Known

\* Both ways a snapshot arrives: a thread's publish and the heartbeat.
LEMMA ArrivesKnown ==
  ASSUME ~LateSnapshots, GuardInv, GuardInv', TypeOK, TypeOK',
         \A q \in Participants : Honest(q) /\ Known(q),
         \/ \E w \in Workers : Published(w)
         \/ \E p \in Participants : BeatArrives(p)
  PROVE  \A q \in Participants : Honest(q)' /\ Known(q)' /\ (Using(q)' => Using(q))
<1> USE WorkerAssumption, NoneAssumption, AbsenceAssumption, SenderAssumption
<1>0. GuardTypeOK /\ GuardTypeOK'
  BY DEF GuardInv
<1>1. ASSUME NEW w \in Workers, Published(w), NEW q \in Participants
      PROVE  Honest(q)' /\ Known(q)' /\ (Using(q)' => Using(q))
  <2> DEFINE p == WorkerOf[w]
             s == msg[w]
  <2>1. /\ UNCHANGED <<inst, rev, residency, failed, beat, orders>>
        /\ UpdateNative(p, s) /\ s # None /\ w \notin stale
        /\ msg' = [msg EXCEPT ![w] = None] /\ stale' = stale \ {w}
        /\ p \in Participants
    BY <1>1 DEF Published, Deliverable, processVars
  <2>2. s \in Status /\ Arrives(p, s)
    BY <1>0, <2>1 DEF GuardTypeOK, Arrives
  <2>3. \/ pc[w] = "announcing" /\ pc' = [pc EXCEPT ![w] = "asking"]
        \/ pc[w] = "starting" /\ pc' = [pc EXCEPT ![w] = "running"]
        \/ pc[w] = "leaving" /\ pc' = [pc EXCEPT ![w] = "releasing"]
    BY <1>0, <1>1, <2>1 DEF Published, GuardInv, Lives, GuardTypeOK
  <2>4. Using(q)' => Using(q)
    BY <1>0, <2>1, <2>3 DEF Using, OnGpu, GuardTypeOK
  <2>5. CASE q # p
    <3>1. obs'[q] = obs[q]
      BY <2>1, <2>5 DEF UpdateNative, TypeOK
    <3>2. Subsides(q)
      BY <1>0, <2>1, <2>3, <2>5, <3>1, OthersSubside DEF GuardTypeOK
    <3> QED
      BY <1>0, <2>4, <3>2, SubsidesKept
  <2>6. CASE q = p
    <3>1. \A x \in Status : /\ Sent(p, x)' => Sent(p, x)
                            /\ Arrives(p, x)' => Arrives(p, x)
                            /\ Answered(p, x)' => Answered(p, x)
      BY <1>0, <2>1 DEF Sent, Arrives, Answered, GuardTypeOK
    <3>2. \A v \in Workers : WorkerOf[v] = p /\ pc'[v] = "announcing" =>
                               pc[v] = "announcing" /\ msg'[v] = msg[v]
      BY <1>0, <2>1, <2>3 DEF GuardTypeOK
    <3>3. \/ Engaged(p)' => Engaged(p)
          \/ s.busy /\ \A x \in Status : (Sent(p, x) \/ Answered(p, x)) /\ Passive(x) => x.rev < s.rev
      <4>1. CASE pc[w] = "announcing"
        BY <2>1, <4>1 DEF Honest
      <4>2. CASE pc[w] # "announcing"
        <5>1. Engaged(p)' => Engaged(p)
          BY <1>0, <2>1, <2>3, <4>2 DEF Engaged, Underway, OnGpu, GuardTypeOK
        <5> QED
          BY <5>1
      <4> QED
        BY <4>1, <4>2
    <3>4. rev[p] <= rev'[p]
      BY <1>0, <2>1 DEF GuardTypeOK
    <3> HIDE DEF s
    <3>5. Honest(p)' /\ Known(p)'
      BY <1>0, <2>1, <2>2, <3>1, <3>2, <3>3, <3>4, ArrivalKnown
    <3> QED
      BY <2>4, <2>6, <3>5
  <2> QED
    BY <2>5, <2>6
<1>2. ASSUME NEW p \in Participants, BeatArrives(p), NEW q \in Participants
      PROVE  Honest(q)' /\ Known(q)' /\ (Using(q)' => Using(q))
  <2> DEFINE s == beat[p]
  <2>1. /\ UNCHANGED <<inst, rev, residency, failed, pc, msg, orders>>
        /\ UpdateNative(p, s) /\ s # None /\ p \notin stale
        /\ beat' = [beat EXCEPT ![p] = None] /\ stale' = stale \ {p}
    BY <1>2 DEF BeatArrives, Deliverable, processVars, workerVars
  <2>2. s \in Status /\ Arrives(p, s)
    BY <1>0, <2>1 DEF GuardTypeOK, Arrives
  <2>3. (Using(q)' => Using(q)) /\ (Engaged(q)' => Engaged(q))
    BY <2>1 DEF Using, Engaged, Underway, OnGpu
  <2>4. CASE q # p
    <3>1. obs'[q] = obs[q]
      BY <2>1, <2>4 DEF UpdateNative, TypeOK
    <3>2. Subsides(q)
      BY <1>0, <2>1, <2>4, <3>1, OthersSubside DEF GuardTypeOK
    <3> QED
      BY <1>0, <2>3, <3>2, SubsidesKept
  <2>5. CASE q = p
    <3>1. \A x \in Status : /\ Sent(p, x)' => Sent(p, x)
                            /\ Arrives(p, x)' => Arrives(p, x)
                            /\ Answered(p, x)' => Answered(p, x)
      BY <1>0, <2>1 DEF Sent, Arrives, Answered, GuardTypeOK
    <3>2. rev[p] <= rev'[p]
      BY <1>0, <2>1 DEF GuardTypeOK
    <3> HIDE DEF s
    <3>3. Honest(p)' /\ Known(p)'
      BY <1>0, <2>1, <2>2, <2>3, <2>5, <3>1, <3>2, ArrivalKnown
    <3> QED
      BY <2>3, <2>5, <3>3
  <2> QED
    BY <2>4, <2>5
<1> QED
  BY <1>1, <1>2

\* A thread's publish arrives and its reply is lost, so the thread gives up or,
\* with its work behind it, goes on to return its token.
LEMMA UnansweredKnown ==
  ASSUME ~LateSnapshots, GuardInv, GuardInv', TypeOK, TypeOK',
         \A q \in Participants : Honest(q) /\ Known(q),
         NEW w \in Workers, PublishUnanswered(w)
  PROVE  \A q \in Participants : Honest(q)' /\ Known(q)' /\ (Using(q)' => Using(q))
<1> USE WorkerAssumption, NoneAssumption, AbsenceAssumption, SenderAssumption
<1> DEFINE p == WorkerOf[w]
           s == msg[w]
<1>0. GuardTypeOK /\ GuardTypeOK' /\ p \in Participants
  BY DEF GuardInv
<1>1. UpdateNative(p, s) /\ s # None /\ w \notin stale
  BY DEF PublishUnanswered, PublishFails, Deliverable
<1>2. \A q \in Participants \ {p} : obs'[q] = obs[q]
  BY <1>1 DEF UpdateNative, TypeOK
<1>3. CASE ProcessEnds(p)
  BY <1>0, <1>2, <1>3, EndsKnown
<1>4. CASE ~ProcessEnds(p)
  <2>1. /\ pc' = [pc EXCEPT ![w] = "leaving"] \/ pc' = [pc EXCEPT ![w] = "releasing"]
        /\ msg' = [msg EXCEPT ![w] = None] /\ stale' = stale \ {w}
        /\ UNCHANGED <<inst, residency, failed, beat, orders>>
    BY <1>4, QuitCases DEF PublishUnanswered, PublishFails, Departs, processVars
  <2>2. \A q \in Participants : rev[q] <= rev'[q] /\ (q # p => rev'[q] = rev[q])
    <3>1. rev \in [Participants -> Nat] /\ (rev' = rev \/ rev' = [rev EXCEPT ![p] = @ + 1])
      BY <1>0, <1>4, QuitCases
         DEF PublishUnanswered, PublishFails, Departs, Active, Advanced, processVars, GuardTypeOK
    <3> QED
      BY <3>1
  <2> SUFFICES ASSUME NEW q \in Participants
               PROVE  Honest(q)' /\ Known(q)' /\ (Using(q)' => Using(q))
    OBVIOUS
  <2>3. (Using(q)' => Using(q)) /\ (Engaged(q)' => Engaged(q))
    BY <1>0, <2>1 DEF Using, Engaged, Underway, OnGpu, GuardTypeOK
  <2>4. CASE q # p
    <3>1. Subsides(q)
      BY <1>0, <1>2, <2>1, <2>2, <2>4, OthersSubside DEF GuardTypeOK
    <3> QED
      BY <1>0, <2>3, <3>1, SubsidesKept
  <2>5. CASE q = p
    <3>1. \A x \in Status : /\ Sent(p, x)' => Sent(p, x)
                            /\ Arrives(p, x)' => Arrives(p, x)
                            /\ Answered(p, x)' => Answered(p, x)
      BY <1>0, <2>1 DEF Sent, Arrives, Answered, GuardTypeOK
    <3>2. \A v \in Workers : WorkerOf[v] = p /\ pc'[v] = "announcing" =>
                               pc[v] = "announcing" /\ msg'[v] = msg[v]
      BY <1>0, <2>1 DEF GuardTypeOK
    <3>3. s \in Status /\ Arrives(p, s)
      BY <1>0, <1>1 DEF GuardTypeOK, Arrives
    <3> HIDE DEF s
    <3>4. Honest(p)' /\ Known(p)'
      BY <1>0, <1>1, <2>1, <2>2, <2>3, <2>5, <3>1, <3>2, <3>3, ArrivalKnown
    <3> QED
      BY <2>3, <2>5, <3>4
  <2> QED
    BY <2>4, <2>5
<1> QED
  BY <1>3, <1>4

\* The heartbeat thread takes a snapshot, or its snapshot is lost.
LEMMA BeatKnown ==
  ASSUME GuardInv, GuardInv', TypeOK, \A q \in Participants : Honest(q) /\ Known(q),
         NEW p \in Participants, Beat(p) \/ BeatLost(p)
  PROVE  \A q \in Participants : Honest(q)' /\ Known(q)' /\ (Using(q)' => Using(q))
<1> SUFFICES ASSUME NEW q \in Participants
             PROVE  Honest(q)' /\ Known(q)' /\ (Using(q)' => Using(q))
  OBVIOUS
<1> USE WorkerAssumption, NoneAssumption, AbsenceAssumption, SenderAssumption
<1>0. GuardTypeOK /\ GuardTypeOK'
  BY DEF GuardInv
<1>1. /\ UNCHANGED <<inst, rev, residency, failed, pc, msg, orders, obs>>
      /\ beat'[q] # beat[q] => q = p
      /\ \A w \in Workers : w \in stale => w \in stale'
      /\ q # p /\ q \in stale => q \in stale'
  BY <1>0 DEF Beat, BeatLost, processVars, workerVars, vars, nativeVars, GuardTypeOK
<1>2. (Using(q)' => Using(q)) /\ (Engaged(q)' => Engaged(q))
  BY <1>1 DEF Using, Engaged, Underway, OnGpu
<1>3. CASE q # p
  <2>1. Subsides(q)
    BY <1>0, <1>1, <1>3, OthersSubside
  <2> QED
    BY <1>0, <1>2, <2>1, SubsidesKept
<1>4. CASE BeatLost(p) /\ q = p
  <2>1. beat' = [beat EXCEPT ![p] = None]
    BY <1>4 DEF BeatLost
  <2>2. \A s \in Status : /\ Sent(p, s)' => Sent(p, s)
                          /\ Arrives(p, s)' => Arrives(p, s)
                          /\ Answered(p, s)' => Answered(p, s)
    BY <1>0, <1>1, <2>1 DEF Sent, Arrives, Answered, GuardTypeOK
  <2>3. rev[p] <= rev'[p]
    BY <1>0, <1>1 DEF GuardTypeOK
  <2>4. Subsides(p)
    BY <1>1, <1>2, <1>4, <2>2, <2>3 DEF Subsides
  <2> QED
    BY <1>0, <1>2, <1>4, <2>4, SubsidesKept
<1>5. CASE Beat(p) /\ q = p
  <2> DEFINE n == Snap(p)
  <2>1. inst[p] # None /\ beat' = [beat EXCEPT ![p] = n]
    BY <1>5 DEF Beat
  <2>2. n \in Status /\ n # None /\ n.inst = inst[p] /\ n.rev = rev[p] /\ (n.busy <=> Busy(p))
    BY <1>0, <2>1, SnapType DEF Snap
  <2>3. Engaged(p) => ~Passive(n)
    BY <1>0, SnapHonest
  <2> HIDE DEF n
  <2>4. \A s \in Status : /\ Sent(p, s)' => Sent(p, s) \/ s = n
                          /\ Arrives(p, s)' => Arrives(p, s) \/ s = n
                          /\ Answered(p, s)' <=> Answered(p, s)
                          /\ Outdated(p, s)' <=> Outdated(p, s)
    <3>1. stale' = stale
      BY <1>5 DEF Beat
    <3> QED
      BY <1>0, <1>1, <2>1, <3>1 DEF Sent, Arrives, Answered, Outdated, GuardTypeOK
  <2>5. rev[p] \in Nat /\ \A s \in Status : s.rev \in Nat
    BY <1>0 DEF GuardTypeOK, Status
  <2>6. ASSUME NEW v \in Workers, WorkerOf[v] = p, pc[v] = "announcing" PROVE ~Passive(n)
    BY <2>2, <2>6 DEF Busy, Passive
  <2>7. Honest(p)'
    BY <1>0, <1>1, <2>2, <2>4, <2>5, <2>6 DEF Honest
  <2>8. Known(p)'
    <3> SUFFICES ASSUME Engaged(p)'
                 PROVE  /\ obs'[p] # None => ~Passive(obs'[p]) /\ obs'[p].inst = inst'[p]
                        /\ \A s \in Status : Arrives(p, s)' => Outdated(p, s)' \/ ~Passive(s)
                        /\ \A x \in Status : Answered(p, x)' /\ Passive(x) =>
                             /\ x.rev < rev'[p]
                             /\ obs'[p] # None => x.rev < obs'[p].rev
                             /\ \A s \in Status : Arrives(p, s)' => Outdated(p, s)' \/ x.rev < s.rev
      BY DEF Known
    <3> QED
      BY <1>0, <1>1, <1>2, <1>5, <2>2, <2>3, <2>4, <2>5 DEF Known
  <2> QED
    BY <1>2, <1>5, <2>7, <2>8
<1> QED
  BY <1>3, <1>4, <1>5

\* The offload order and its answer: an answer that says "cpu" is given by an
\* idle native, and believed only if the coordinator has heard nothing since.
LEMMA OffloadKnown ==
  ASSUME GuardInv, GuardInv', TypeOK, \A q \in Participants : Honest(q) /\ Known(q),
         NEW p \in Participants, Offload(p) \/ OffloadAnswered(p) \/ OffloadGivenUp(p)
  PROVE  \A q \in Participants : Honest(q)' /\ Known(q)' /\ (Using(q)' => Using(q))
<1> SUFFICES ASSUME NEW q \in Participants
             PROVE  Honest(q)' /\ Known(q)' /\ (Using(q)' => Using(q))
  OBVIOUS
<1> USE WorkerAssumption, NoneAssumption, AbsenceAssumption, SenderAssumption
<1>0. GuardTypeOK /\ GuardTypeOK'
  BY DEF GuardInv
<1>1. /\ UNCHANGED <<inst, rev, pc, msg, beat, stale>>
      /\ q # p => /\ residency'[q] = residency[q] /\ (q \in failed' <=> q \in failed)
                  /\ orders'[q] = orders[q] /\ obs'[q] = obs[q]
  BY <1>0 DEF Offload, OffloadAnswered, OffloadGivenUp, OffloadReturns, guardVars, processVars,
              workerVars, wireVars, vars, nativeVars, GuardTypeOK, TypeOK
<1>2. CASE q # p
  <2>1. Subsides(q)
    BY <1>0, <1>1, <1>2, OthersSubside DEF GuardTypeOK
  <2>2. Using(q)' => Using(q)
    BY <1>1, <1>2 DEF Using, OnGpu
  <2> QED
    BY <1>0, <2>1, <2>2, SubsidesKept
<1>3. CASE Offload(p) /\ q = p
  <2>1. UNCHANGED obs /\ orders[p] # None
    BY <1>3 DEF Offload, vars, nativeVars
  <2>2. OnGpu(p)' => OnGpu(p)
    BY <1>0, <1>3, SMTT(30) DEF Offload, Obeys, OnGpu, GuardInv, Locks, GuardTypeOK
  <2>3. (Using(p)' => Using(p)) /\ (Engaged(p)' => Engaged(p))
    BY <1>1, <2>2 DEF Using, Engaged, Underway
  <2>4. \A s \in Status : /\ Sent(p, s)' <=> Sent(p, s)
                          /\ Arrives(p, s)' <=> Arrives(p, s)
                          /\ Outdated(p, s)' <=> Outdated(p, s)
    BY <1>1, <2>1 DEF Sent, Arrives, Outdated
  <2>5. CASE \A x \in Status : Answered(p, x)' => Answered(p, x)
    <3>1. Subsides(p)
      BY <1>0, <1>1, <2>1, <2>3, <2>4, <2>5 DEF Subsides, GuardTypeOK
    <3> QED
      BY <1>0, <1>3, <2>3, <3>1, SubsidesKept
  <2>6. CASE orders'[p].answer = orders[p].answer
    <3>1. \A x \in Status : Answered(p, x)' => Answered(p, x)
      BY <2>1, <2>6 DEF Answered
    <3> QED
      BY <2>5, <3>1
  <2>7. CASE /\ Obeys(p, orders[p].id) /\ residency' = [residency EXCEPT ![p] = "cpu"]
             /\ UNCHANGED failed
             /\ orders'[p].answer = [Snap(p) EXCEPT !.residency = "cpu"]
    <3>1. inst[p] # None /\ Snap(p) \in Status
      BY <1>0, <1>3, SnapType DEF Offload
    <3>2. Snap(p).inst = inst[p] /\ Snap(p).rev = rev[p]
      BY DEF Snap
    <3>3. orders'[p].answer.inst = inst[p] /\ orders'[p].answer.rev = rev[p]
      BY <2>7, <3>1, <3>2 DEF Status
    <3>4. p \notin failed /\ ~Busy(p)
      BY <2>7 DEF Obeys
    <3>5. ~Engaged(p)'
      BY <1>0, <1>1, <2>7, <3>4 DEF Engaged, Underway, OnGpu, Busy, GuardTypeOK
    <3>6. \A v \in Workers : WorkerOf[v] = p => pc[v] # "announcing"
      BY <3>4 DEF Busy
    <3>7. \A x \in Status : Answered(p, x)' => x.inst = inst[p] /\ x.rev <= rev[p]
      BY <1>0, <3>3 DEF Answered, GuardTypeOK
    <3>8. Honest(p)'
      BY <1>1, <2>4, <3>6, <3>7 DEF Honest
    <3> QED
      BY <1>3, <2>3, <3>5, <3>8 DEF Known
  <2>8. \/ orders'[p].answer = orders[p].answer
        \/ /\ Obeys(p, orders[p].id) /\ residency' = [residency EXCEPT ![p] = "cpu"]
           /\ UNCHANGED failed
           /\ orders'[p].answer = [Snap(p) EXCEPT !.residency = "cpu"]
    <3>1. orders[p] \in [id: Identity, done: BOOLEAN, answer: Status \cup {None}]
      BY <1>0, <2>1 DEF GuardTypeOK
    <3> QED
      BY <1>0, <1>3, <3>1 DEF Offload, GuardTypeOK
  <2> QED
    BY <2>6, <2>7, <2>8
<1>4. CASE (OffloadAnswered(p) \/ OffloadGivenUp(p)) /\ q = p
  <2>1. UNCHANGED <<residency, failed>>
    BY <1>4 DEF OffloadAnswered, OffloadGivenUp, guardVars, processVars
  <2>2. (Using(p)' => Using(p)) /\ (Engaged(p)' => Engaged(p))
    BY <1>1, <2>1 DEF Using, Engaged, Underway, OnGpu
  <2>3. \A s \in Status : /\ Sent(p, s)' <=> Sent(p, s)
                          /\ Arrives(p, s)' <=> Arrives(p, s)
                          /\ Answered(p, s)' => Answered(p, s)
    BY <1>0, <1>1, <1>4 DEF Sent, Arrives, Answered, OffloadAnswered, OffloadGivenUp, guardVars, wireVars, GuardTypeOK
  <2>4. PICK r : OffloadReturns(p, r) /\ (r # None => r \in Status /\ Answered(p, r))
    BY <1>0, <1>4 DEF OffloadAnswered, OffloadGivenUp, Answered, GuardTypeOK
  <2>5. CASE ~Engaged(p)
    <3>1. Honest(p)'
      BY <1>1, <2>3 DEF Honest
    <3> QED
      BY <1>4, <2>2, <2>5, <3>1 DEF Known
  <2>6. CASE Engaged(p)
    <3>1. obs'[p] = obs[p]
      <4> SUFFICES ASSUME obs'[p] # obs[p] PROVE FALSE
        OBVIOUS
      <4>1. /\ r # None /\ obs[p] # None
            /\ <<r.inst, r.rev>> = offloading[p] /\ <<obs[p].inst, obs[p].rev>> = offloading[p]
            /\ r.residency = "cpu" /\ r.ready /\ ~r.busy
        BY <2>4 DEF OffloadReturns
      <4>2. Passive(r) /\ r \in Status /\ Answered(p, r) /\ r.rev = obs[p].rev
        BY <2>4, <4>1 DEF Passive
      <4>3. r.rev < obs[p].rev /\ r.rev \in Nat
        BY <2>6, <4>1, <4>2 DEF Known, Status
      <4> QED
        BY <4>2, <4>3
    <3>2. Subsides(p)
      BY <1>0, <1>1, <2>2, <2>3, <3>1 DEF Subsides, GuardTypeOK
    <3> QED
      BY <1>0, <1>4, <2>2, <3>2, SubsidesKept
  <2> QED
    BY <2>5, <2>6
<1> QED
  BY <1>2, <1>3, <1>4

\* The remaining steps of a thread: its calls, the lock, the restoration of the
\* models, the end of the work and the release.
LEMMA WorkKnown ==
  ASSUME ~LateSnapshots, IInv, IInv', GuardInv, GuardInv',
         \A q \in Participants : Honest(q) /\ Known(q),
         NEW w \in Workers,
         \/ PublishRefused(w) \/ PublishUnreachable(w) \/ Ask(w) \/ AskDenied(w) \/ AskLost(w)
         \/ Wake(w) \/ CallBroken(w) \/ Enter(w) \/ EnterFails(w) \/ RestoreFails(w)
         \/ Finish(w) \/ Release(w) \/ ReleaseLost(w)
  PROVE  \A q \in Participants :
            Honest(q)' /\ Known(q)' /\ (Using(q)' => Using(q) \/ claims'[GroupOf[q]] = {})
<1> USE WorkerAssumption, NoneAssumption, AbsenceAssumption, SenderAssumption
<1> DEFINE p == WorkerOf[w]
           Goal == \A q \in Participants :
                     Honest(q)' /\ Known(q)' /\ (Using(q)' => Using(q) \/ claims'[GroupOf[q]] = {})
<1>0. GuardTypeOK /\ GuardTypeOK' /\ TypeOK /\ TypeOK' /\ p \in Participants
  BY DEF GuardInv, IInv
<1>1. ASSUME Quit(w), UNCHANGED obs PROVE Goal
  BY <1>0, <1>1, QuitKnown
<1>2. ASSUME NEW at, at # "announcing", pc' = [pc EXCEPT ![w] = at],
             \/ UNCHANGED <<msg, stale>>
             \/ msg' = [msg EXCEPT ![w] = None] /\ stale' = stale \ {w},
             UNCHANGED <<inst, beat, orders, obs>>,
             \A q \in Participants : rev[q] <= rev'[q],
             \A q \in Participants : OnGpu(q)' => OnGpu(q) \/ (q = WorkerOf[w] /\ Using(q)),
             at \in {"asking", "queued", "admitted", "starting", "running"} =>
               pc[w] \in {"asking", "queued", "admitted", "starting", "running"},
             at \in {"admitted", "starting", "running"} => Using(p) \/ claims'[GroupOf[p]] = {}
      PROVE  Goal
  <2>1. \A q \in Participants : Using(q) => Engaged(q)
    BY DEF Using, Engaged, Underway
  <2>2. pc[w] \in {"asking", "queued", "admitted", "starting", "running"} => Engaged(p)
    BY DEF Engaged, Underway
  <2>3. \A q \in Participants : Subsides(q)
    BY <1>0, <1>2, <2>1, <2>2, WorkerSubsides
  <2>4. ASSUME NEW q \in Participants, Using(q)' PROVE Using(q) \/ claims'[GroupOf[q]] = {}
    <3>1. CASE OnGpu(q)'
      BY <1>2, <3>1 DEF Using
    <3>2. CASE \E v \in Workers : WorkerOf[v] = q /\ pc'[v] \in {"admitted", "starting", "running"}
      <4>1. PICK v \in Workers : WorkerOf[v] = q /\ pc'[v] \in {"admitted", "starting", "running"}
        BY <3>2
      <4>2. CASE v = w
        BY <1>0, <1>2, <4>1, <4>2 DEF GuardTypeOK
      <4>3. CASE v # w
        BY <1>0, <1>2, <4>1, <4>3 DEF GuardTypeOK, Using
      <4> QED
        BY <4>2, <4>3
    <3> QED
      BY <2>4, <3>1, <3>2 DEF Using
  <2> QED
    BY <1>0, <2>3, <2>4, SubsidesKept
<1>3. \A q \in Participants : rev[q] \in Nat /\ rev'[q] \in Nat
  BY <1>0 DEF GuardTypeOK
<1>4. CASE PublishRefused(w) \/ PublishUnreachable(w)
  <2>1. UNCHANGED obs /\ PublishFails(w)
    BY <1>4 DEF PublishRefused, PublishUnreachable, vars, nativeVars
  <2>2. CASE Quit(w)
    BY <1>1, <2>1, <2>2
  <2>3. CASE ~Quit(w)
    <3>1. /\ pc' = [pc EXCEPT ![w] = "releasing"]
          /\ msg' = [msg EXCEPT ![w] = None] /\ stale' = stale \ {w}
          /\ UNCHANGED <<inst, rev, residency, failed, beat, orders>>
      BY <2>1, <2>3 DEF PublishFails, processVars
    <3>2. \A q \in Participants : rev[q] <= rev'[q] /\ (OnGpu(q)' => OnGpu(q))
      BY <1>3, <3>1 DEF OnGpu
    <3> QED
      BY <1>2, <2>1, <3>1, <3>2
  <2> QED
    BY <2>2, <2>3
<1>5. CASE AskDenied(w) \/ AskLost(w) \/ CallBroken(w) \/ EnterFails(w)
  <2>1. UNCHANGED obs /\ Quit(w)
    BY <1>5 DEF AskDenied, AskLost, CallBroken, EnterFails, AcquireNative, vars, nativeVars
  <2> QED
    BY <1>1, <2>1
<1>6. CASE Ask(w) \/ Wake(w)
  <2>1. UNCHANGED obs /\ pc[w] \in {"asking", "queued"} /\ (AcquireNative(p) \/ RetryNative(p))
    BY <1>6 DEF Ask, Wake, AcquireNative, RetryNative
  <2>2. CASE Quit(w)
    BY <1>1, <2>1, <2>2
  <2>3. CASE pc' = [pc EXCEPT ![w] = "queued"] /\ UNCHANGED <<processVars, msg, wireVars>>
    <3>1. \A q \in Participants : rev[q] <= rev'[q] /\ (OnGpu(q)' => OnGpu(q))
      BY <1>3, <2>3 DEF OnGpu, processVars
    <3>2. UNCHANGED <<msg, stale>> /\ UNCHANGED <<inst, beat, orders, obs>>
      BY <2>1, <2>3 DEF processVars, wireVars
    <3> QED
      BY <1>2, <2>1, <2>3, <3>1, <3>2
  <2>4. CASE /\ Granted(w) /\ pc' = [pc EXCEPT ![w] = "admitted"]
             /\ UNCHANGED <<processVars, msg, wireVars>>
    <3>1. \A q \in Participants : rev[q] <= rev'[q] /\ (OnGpu(q)' => OnGpu(q))
      BY <1>3, <2>4 DEF OnGpu, processVars
    <3>2. UNCHANGED <<msg, stale>> /\ UNCHANGED <<inst, beat, orders, obs>>
      BY <2>1, <2>4 DEF processVars, wireVars
    <3>3. claims'[GroupOf[p]] = {}
      <4>1. nativeTokens' # nativeTokens
        BY <2>4 DEF Granted, NewToken
      <4>2. HandOutNative(p)
        BY <2>1, <4>1 DEF AcquireNative, RetryNative
      <4>3. NativeActive(GroupOf[p])'
        <5>1. PICK t \in Tokens : [token |-> t, participant |-> p] \in nativeTokens'
          BY <4>2 DEF HandOutNative
        <5>2. [token |-> t, participant |-> p].participant = p
          OBVIOUS
        <5> QED
          BY <5>1, <5>2 DEF NativeActive
      <4> QED
        BY <1>0, <4>3, GroupAssumption DEF IInv, GroupFenced
    <3> QED
      BY <1>2, <2>1, <2>4, <3>1, <3>2, <3>3
  <2>5. CASE UNCHANGED guardVars
    <3>1. \A q \in Participants : Subsides(q) /\ (Using(q)' => Using(q))
      BY <1>0, <2>1, <2>5, OthersSubside
         DEF guardVars, processVars, workerVars, wireVars, Using, OnGpu
    <3> QED
      BY <1>0, <3>1, SubsidesKept
  <2> QED
    BY <1>6, <2>2, <2>3, <2>4, <2>5 DEF Ask, Wake, processVars, wireVars
<1>7. CASE Enter(w) \/ RestoreFails(w) \/ Finish(w)
  <2>1. /\ UNCHANGED <<inst, msg, stale, beat, orders, obs>>
        /\ rev' = [rev EXCEPT ![p] = @ + 1]
        /\ pc[w] \in {"admitted", "running"}
        /\ pc' = [pc EXCEPT ![w] = "starting"] \/ pc' = [pc EXCEPT ![w] = "leaving"]
    BY <1>7 DEF Enter, RestoreFails, Finish, Active, Advanced, wireVars, vars, nativeVars
  <2>2. Using(p)
    BY <2>1 DEF Using
  <2>3. \A q \in Participants : OnGpu(q)' => OnGpu(q) \/ (q = p /\ Using(q))
    BY <1>0, <1>7, <2>2 DEF Enter, RestoreFails, Finish, OnGpu, GuardTypeOK
  <2>4. \A q \in Participants : rev[q] <= rev'[q]
    BY <1>0, <1>3, <2>1 DEF GuardTypeOK
  <2> QED
    BY <1>2, <2>1, <2>2, <2>3, <2>4
<1>8. ASSUME UNCHANGED obs, Returned(w) PROVE Goal
  <2>1. /\ UNCHANGED <<inst, rev, residency, failed, msg, stale, beat, orders>>
        /\ pc' = [pc EXCEPT ![w] = "idle"]
    BY <1>8 DEF Returned, wireVars
  <2>2. \A q \in Participants : rev[q] <= rev'[q] /\ (OnGpu(q)' => OnGpu(q))
    BY <1>3, <2>1 DEF OnGpu
  <2> QED
    BY <1>2, <1>8, <2>1, <2>2
<1>9. CASE Release(w) \/ ReleaseLost(w)
  <2>1. UNCHANGED obs /\ (Returned(w) \/ ProcessEnds(p))
    BY <1>9 DEF Release, ReleaseLost, ReleaseNative, vars, nativeVars
  <2> QED
    BY <1>0, <1>8, <2>1, EndsKnown
<1> QED
  BY <1>4, <1>5, <1>6, <1>7, <1>9

\* A crash of the coordinator: it forgets what it knew, and what was on its way
\* to it does not reach its successor.
LEMMA LostKnown ==
  ASSUME GuardInv, GuardInv', \A q \in Participants : Honest(q) /\ Known(q),
         NEW step, CoordinatorLost(step), obs' = [q \in Participants |-> None]
  PROVE  \A q \in Participants : Honest(q)' /\ Known(q)' /\ (Using(q)' => Using(q))
<1> SUFFICES ASSUME NEW q \in Participants
             PROVE  Honest(q)' /\ Known(q)' /\ (Using(q)' => Using(q))
  OBVIOUS
<1> USE WorkerAssumption, NoneAssumption
<1>1. /\ UNCHANGED <<inst, rev, residency, failed, pc, msg, beat, orders>> /\ stale' = InFlight
      /\ obs'[q] = None
  BY DEF CoordinatorLost, processVars, workerVars
<1>2. (Using(q)' => Using(q)) /\ (Engaged(q)' => Engaged(q))
  BY <1>1 DEF Using, Engaged, Underway, OnGpu
<1>3. \A s \in Status : /\ Sent(q, s)' <=> Sent(q, s)
                        /\ Answered(q, s)' <=> Answered(q, s)
                        /\ ~Arrives(q, s)'
  BY <1>1 DEF Sent, Answered, Arrives, InFlight
<1>4. Honest(q)'
  BY <1>1, <1>3 DEF Honest
<1>5. Known(q)'
  BY <1>1, <1>2, <1>3 DEF Known
<1> QED
  BY <1>2, <1>4, <1>5

\* Every step.
LEMMA KnownStep ==
  ASSUME ~LateSnapshots, IInv, IInv', GuardInv, GuardInv',
         \A q \in Participants : Honest(q) /\ Known(q), [NativeNext]_allVars
  PROVE  \A q \in Participants :
            Honest(q)' /\ Known(q)' /\ (Using(q)' => Using(q) \/ claims'[GroupOf[q]] = {})
<1> DEFINE Goal == \A q \in Participants :
                     Honest(q)' /\ Known(q)' /\ (Using(q)' => Using(q) \/ claims'[GroupOf[q]] = {})
<1>0. GuardTypeOK /\ GuardTypeOK' /\ TypeOK /\ TypeOK'
  BY DEF GuardInv, IInv
<1>1. ASSUME NEW w \in Workers, Boot(w) \/ Begin(w) \/ TakeSnapshot(w) PROVE Goal
  BY <1>0, <1>1, SetsOut
<1>2. CASE Operation
  <2> SUFFICES ASSUME NEW w \in Workers,
                 \/ Begin(w) \/ TakeSnapshot(w) \/ Published(w) \/ PublishUnanswered(w)
                 \/ PublishRefused(w) \/ PublishUnreachable(w) \/ Ask(w) \/ AskDenied(w) \/ AskLost(w)
                 \/ Wake(w) \/ CallBroken(w) \/ Enter(w) \/ EnterFails(w) \/ RestoreFails(w)
                 \/ Finish(w) \/ Release(w) \/ ReleaseLost(w)
               PROVE  Goal
    BY <1>2 DEF Operation
  <2>1. CASE Begin(w) \/ TakeSnapshot(w)
    BY <1>1, <2>1
  <2>2. CASE Published(w)
    BY <1>0, <2>2, ArrivesKnown
  <2>3. CASE PublishUnanswered(w)
    BY <1>0, <2>3, UnansweredKnown
  <2> QED
    BY <2>1, <2>2, <2>3, WorkKnown
<1>3. ASSUME NEW p \in Participants, NativeDies(p) PROVE Goal
  <2>1. ProcessEnds(p) /\ UNCHANGED obs
    BY <1>3 DEF NativeDies, vars, nativeVars
  <2> QED
    BY <1>0, <2>1, EndsKnown
<1>4. ASSUME UNCHANGED <<inst, rev, residency, failed, pc, msg, beat, stale, obs>>,
             \A q \in Participants : \A x \in Status : Answered(q, x)' => Answered(q, x)
      PROVE  Goal
  <2>1. ASSUME NEW q \in Participants PROVE Subsides(q) /\ (Using(q)' => Using(q))
    <3>1. \A s \in Status : (Sent(q, s)' => Sent(q, s)) /\ (Arrives(q, s)' => Arrives(q, s))
      BY <1>4 DEF Sent, Arrives
    <3>2. (Using(q)' => Using(q)) /\ (Engaged(q)' => Engaged(q))
      BY <1>4 DEF Using, Engaged, Underway, OnGpu
    <3> QED
      BY <1>0, <1>4, <3>1, <3>2 DEF Subsides, GuardTypeOK
  <2> QED
    BY <1>0, <2>1, SubsidesKept
<1>5. ASSUME NEW p \in Participants, Ripen(p) PROVE Goal
  BY <1>4, <1>5 DEF Ripen, Answered, workerVars, wireVars, vars, nativeVars
<1>6. ASSUME NEW p \in Participants, Beat(p) \/ BeatLost(p) PROVE Goal
  BY <1>0, <1>6, BeatKnown
<1>7. ASSUME NEW p \in Participants, BeatArrives(p) PROVE Goal
  BY <1>0, <1>7, ArrivesKnown
<1>8. ASSUME NEW p \in Participants, Offload(p) \/ OffloadAnswered(p) \/ OffloadGivenUp(p) PROVE Goal
  BY <1>0, <1>8, OffloadKnown
<1>9. ASSUME NEW g \in Groups, PollAndOrder(g) PROVE Goal
  <2>1. UNCHANGED <<inst, rev, residency, failed, pc, msg, beat, stale, obs>>
    BY <1>9 DEF PollAndOrder, PollComfy, processVars, workerVars, nativeVars
  <2>2. \A q \in Participants : \A x \in Status : Answered(q, x)' => Answered(q, x)
    BY <1>9, NoneAssumption DEF PollAndOrder, Answered
  <2> QED
    BY <1>4, <2>1, <2>2
<1>10. ASSUME NEW step, CoordinatorLost(step), step => obs' = [q \in Participants |-> None] PROVE Goal
  <2>1. obs' = [q \in Participants |-> None]
    BY <1>10 DEF CoordinatorLost
  <2> QED
    BY <1>10, <2>1, LostKnown
<1>11. CASE CoordinatorLost(Crash)
  BY <1>10, <1>11 DEF Crash, ProcessGone
<1>12. ASSUME NEW g \in Groups, CoordinatorLost(AcquireComfyCrashes(g) \/ ReleaseCleanCrashes(g)) PROVE Goal
  BY <1>10, <1>12 DEF AcquireComfyCrashes, ReleaseCleanCrashes, ProcessGone
<1>13. CASE CoordinatorAlone /\ UNCHANGED guardVars
  <2>1. UNCHANGED obs
    BY <1>13 DEF CoordinatorAlone, Start, Close, DamageJournal, MaintenanceReset, ReportAges,
          AcquireComfy, AcquireComfyFails, CheckComfy, Snapshot, ReleaseClean, ReleaseCleanFails,
          ReleaseUnclean, LeaseExpires, ReleaseUnknown, nativeVars
  <2> QED
    BY <1>4, <1>13, <2>1 DEF guardVars, processVars, workerVars, wireVars, Answered
<1>14. CASE UNCHANGED allVars
  BY <1>4, <1>14 DEF allVars, vars, nativeVars, guardVars, processVars, workerVars, wireVars, Answered
<1>15. ASSUME NEW p \in Participants, ServesForsaken(p) PROVE Goal
  BY <1>4, <1>15 DEF ServesForsaken, RetryNative, guardVars, processVars, workerVars, wireVars, Answered
<1> QED
  BY <1>1, <1>2, <1>3, <1>5, <1>6, <1>7, <1>8, <1>9, <1>11, <1>12, <1>13, <1>14, <1>15 DEF NativeNext

\* A new claim is a grant to a Comfy holder, and what the coordinator knows of
\* every native of the group then says that it does not use the GPU.
LEMMA ClaimsStep ==
  ASSUME IInv, GuardInv, \A q \in Participants : Known(q), [NativeNext]_allVars,
         NEW g \in Groups, claims'[g] # {}
  PROVE  claims[g] # {} \/ \A q \in Members(g) : ~Using(q)
<1> USE DEF TypeOK
<1>0. TypeOK
  BY DEF IInv
<1>1. CASE AcquireComfy(g)
  <2> SUFFICES ASSUME NEW q \in Members(g) PROVE ~Using(q)
    OBVIOUS
  <2>1. q \in Participants /\ obs[q] # None /\ Passive(obs[q])
    BY <1>1 DEF AcquireComfy, GrantableToComfy, NativesOnCpu, Settled, Passive, Members
  <2>2. ~Engaged(q)
    BY <2>1 DEF Known
  <2> QED
    BY <2>2 DEF Engaged, Underway, Using
<1>2. CASE ~AcquireComfy(g)
  <2>1. ASSUME UNCHANGED claims PROVE claims[g] # {}
    BY <2>1
  <2>2. ASSUME NEW h \in Groups, NEW t, claims' = [claims EXCEPT ![h] = @ \ {t}] PROVE claims[g] # {}
    BY <1>0, <2>2
  <2>3. ASSUME NEW h \in Groups, AcquireComfy(h) PROVE claims[g] # {}
    BY <1>0, <1>2, <2>3 DEF AcquireComfy
  <2>4. CASE [Next]_vars
    BY <2>1, <2>2, <2>3, <2>4
       DEF Next, vars, Start, Crash, Close, DamageJournal, MaintenanceReset, ReleaseNative, Native, Comfy,
           UpdateNative, AcquireNative, RetryNative, OffloadReturns, ReportAges, PollComfy,
           AcquireComfyFails, AcquireComfyCrashes, CheckComfy, Snapshot, ReleaseClean, ReleaseCleanFails,
           ReleaseCleanCrashes, ReleaseUnclean, ReleaseUnknown, LeaseExpires, DeclareClean, ghostVars
  <2>5. CASE \/ \E p \in Participants, s \in Status : UpdateNative(p, s)
             \/ \E p \in Participants, r \in Status \cup {None} : OffloadReturns(p, r)
    BY <2>1, <2>5 DEF UpdateNative, OffloadReturns, ghostVars
  <2> QED
    BY <2>4, <2>5, CoordinatorSteps
<1> QED
  BY <1>1, <1>2

\* Nothing is known and nothing is on its way before the first start.
LEMMA WireStart == NativeInit => WireInv
<1> SUFFICES ASSUME NativeInit PROVE WireInv
  OBVIOUS
<1> USE NoneAssumption DEF NativeInit, Init, GuardInit
<1>1. ASSUME NEW p \in Participants PROVE Honest(p) /\ Known(p)
  BY DEF Honest, Known, Sent, Answered, Arrives, Engaged, Underway, OnGpu
<1>2. ASSUME NEW g \in Groups PROVE Claimed(g)
  BY DEF Claimed
<1> QED
  BY <1>1, <1>2 DEF WireInv

\* So no step of either side puts a native on the GPU beside a claim, or a claim
\* beside a native.
LEMMA WireStep ==
  ASSUME ~LateSnapshots, IInv, IInv', GuardInv, GuardInv', WireInv, [NativeNext]_allVars
  PROVE  WireInv'
<1>1. \A q \in Participants :
         Honest(q)' /\ Known(q)' /\ (Using(q)' => Using(q) \/ claims'[GroupOf[q]] = {})
  BY KnownStep DEF WireInv
<1>2. ASSUME NEW g \in Groups, claims'[g] # {}, NEW q \in Members(g), Using(q)' PROVE FALSE
  <2>1. q \in Participants /\ GroupOf[q] = g
    BY DEF Members
  <2>2. Using(q)
    BY <1>1, <1>2, <2>1
  <2>3. claims[g] # {}
    BY <1>2, <2>2, ClaimsStep DEF WireInv
  <2> QED
    BY <2>2, <2>3 DEF WireInv, Claimed
<1>3. ASSUME NEW g \in Groups PROVE Claimed(g)'
  BY <1>2 DEF Claimed, Members
<1> QED
  BY <1>1, <1>3 DEF WireInv

\* "While coordination is uncertain both sides must never load at once": proved
\* for any number of GPUs, natives, threads, process instances and tokens, for
\* messages lost, delayed and refused, for crashes and restarts at either end,
\* and for what the coordinator believes being as old as it may be - provided
\* that a snapshot does not outlive the process it was sent by or to.
THEOREM NeverBoth ==
  ASSUME ~LateSnapshots
  PROVE  NativeSpec => []NeverBothLoaded
<1>1. WireInv => NeverBothLoaded
  BY DEF WireInv, Claimed, Using, NeverBothLoaded
<1>2. NativeInit => IInv /\ GuardInv /\ WireInv
  BY NativesStart, WireStart
<1>3. IInv /\ GuardInv /\ WireInv /\ [NativeNext]_allVars => (IInv /\ GuardInv /\ WireInv)'
  BY NativesStep, WireStep
<1> QED
  BY <1>1, <1>2, <1>3, PTL DEF NativeSpec
=============================================================================
