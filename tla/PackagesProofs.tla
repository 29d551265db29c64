--------------------------- MODULE PackagesProofs ---------------------------
(***************************************************************************)
(* Proofs about the control of portable packages (PortableControl), the    *)
(* safe read of a control file (SafeRead), the log of an operation that is *)
(* read in pages (OperationLog) and the checkouts of the pinned            *)
(* repositories (RepoSync), for any components, requests, actions, files,  *)
(* events and repositories.                                                *)
(***************************************************************************)
EXTENDS PortableControl, SafeRead, OperationLog, RepoSync, FiniteSetTheorems,
        SequenceTheorems, TLAPS

-----------------------------------------------------------------------------
(***************************************************************************)
(* The launches of a package and who answers for them.                     *)
(***************************************************************************)

\* What is recorded of launchers, requests and tracked actions.
PCs == {"idle", "enter", "resolve", "inspect", "reserve", "spawn", "assign", "resume", "handshake", "commit",
        "lookup", "look", "poll", "answer"}

Answers == {None, "done", "refused", "running", "blocked", "unknown", "failed", "error", "unmanageable", "inside"}

Roots == {"suspended", "running", "killed", "lost", "exit-0", "exit-1"}

RunRec == [of : Components, kind : {"act", "start"}, root : Roots, rest : BOOLEAN, job : BOOLEAN,
           told : SUBSET Answers]

ReqRec == [pc : PCs, kind : {None, "act", "start", "status", "all"}, of : Nat, id : ActionIds \cup {None},
           seen : Looks \cup {Gone}, saw : Looks \cup {Gone}, mine : BOOLEAN, run : Nat, answer : Answers]

ActRec == [id : ActionIds, of : Components, run : Nat, saw : Looks \cup {Gone}, blocked : BOOLEAN]

\* The record of every launcher, request and action is well formed.
Shape ==
  /\ package \in [Components -> Looks \cup {Gone}] /\ guard \in [Components -> Threads \cup {None}]
  /\ mutex \in Threads \cup {None} /\ reserved \subseteq ActionIds
  /\ actions \in Seq(ActRec) /\ runs \in Seq(RunRec) /\ request \in [Threads -> ReqRec]

\* The steps of a launch under way (launch, from the creation of the launcher
\* to the commit).
Launching == {"assign", "resume", "handshake", "commit"}

\* What a request has got, by the step it is at.
RequestKept(r) ==
  /\ r.pc # "idle" => r.of \in DOMAIN LockOrder
  /\ r.kind \in {"act", "status"} => r.id \in ActionIds
  /\ r.pc = "enter" => r.kind # None
  /\ r.pc = "resolve" => r.kind \in {"act", "start", "status"}
  /\ r.pc \in {"reserve", "assign", "resume", "commit"} => r.kind = "act"
  /\ r.pc \in {"inspect", "spawn", "handshake"} => r.kind \in {"act", "start"}
  /\ r.pc \in {"lookup", "look", "poll"} => r.kind = "status"
  /\ r.kind = "act" /\ r.pc \in {"spawn"} \cup Launching => r.mine
  /\ r.mine => r.kind = "act" /\ r.pc \in {"spawn", "answer"} \cup Launching
  /\ r.pc \in {"idle", "enter", "resolve", "inspect", "reserve", "spawn", "lookup"} => r.run = 0
  /\ r.answer # None => r.pc = "answer"

RequestsKept == \A t \in Threads : RequestKept(request[t])

\* Whoever works on a component holds its guard.
GuardsKept == \A t \in Threads : request[t].pc \notin {"idle", "enter"} => guard[LockOrder[request[t].of]] = t

\* A launch under way has an id of its own.
ReservedKept ==
  /\ IsFiniteSet(reserved)
  /\ \A t \in Threads : request[t].mine => request[t].id \in reserved
  /\ \A t, u \in Threads : request[t].mine /\ request[u].mine /\ t # u => request[t].id # request[u].id

\* The tracked actions
Elements(s) == {s[k] : k \in DOMAIN s}

Entries == Elements(actions)

\* Entries of different actions, with different launchers
Distinct(s) == \A j, k \in DOMAIN s : j # k => s[j].id # s[k].id /\ s[j].run # s[k].run

\* Tracked actions are distinct, and no more than there is room for.
ActionsKept ==
  /\ Distinct(actions) /\ \A e \in Entries : e.id \notin reserved
  /\ IsFiniteSet(TrackedIds) /\ Cardinality(TrackedIds) = Len(actions)
  /\ Len(actions) + Cardinality(reserved) <= MaxActive

\* What is tracked is an action in a job, and is dead once it is blocked.
EntryKept(e) ==
  e.run \in DOMAIN runs /\ runs[e.run].kind = "act" /\ runs[e.run].job /\ (e.blocked => Dead(e.run))

EntriesKept == \A e \in Entries : EntryKept(e)

\* The launcher of a launch under way: it waits for its job, and runs in it.
LaunchKept(r) ==
  r.pc \in Launching =>
    /\ r.run \in DOMAIN runs /\ runs[r.run].kind = r.kind
    /\ r.pc \in {"assign", "resume"} => runs[r.run].root = "suspended" /\ ~runs[r.run].rest
    /\ r.kind = "act" /\ r.pc # "assign" => runs[r.run].job

LaunchesKept == \A t \in Threads : LaunchKept(request[t])

\* A launch under way has a launcher of its own.
OwnLaunch ==
  \A t \in Threads : request[t].pc \in Launching =>
    /\ \A e \in Entries : e.run # request[t].run
    /\ \A u \in Threads \ {t} : request[u].pc \in Launching => request[u].run # request[t].run

\* The action that a request asks for is still tracked.
Listed(r) == \E e \in Entries : e.id = r.id /\ e.run = r.run

\* Who asks for an action holds the lock of all actions, and it is tracked.
LooksKept == \A t \in Threads : request[t].pc \in {"look", "poll"} => mutex = t /\ Listed(request[t])

\* A launcher is watched by its entry, or by the request that launches it.
Watched(p) ==
  (\E e \in Entries : e.run = p) \/ (\E t \in Threads : request[t].run = p /\ request[t].pc \in Launching)

\* What is alive of an action is in a job that somebody watches.
RunsWatched ==
  \A p \in DOMAIN runs : runs[p].kind = "act" /\ (runs[p].root = "running" \/ runs[p].rest) => runs[p].job /\ Watched(p)

\* The answers that report the end of an action
Over == {"done", "failed", "blocked"}

\* What is about to be reported as over is dead.
AnswerKept(r) ==
  r.pc = "answer" /\ r.run # 0 =>
    r.run \in DOMAIN runs /\ (runs[r.run].kind = "act" /\ r.answer \in Over => Dead(r.run))

AnswersKept == \A t \in Threads : AnswerKept(request[t])

\* The inductive invariant of control.
ControlInv ==
  /\ Shape /\ RequestsKept /\ GuardsKept /\ ReservedKept /\ ActionsKept /\ EntriesKept
  /\ LaunchesKept /\ OwnLaunch /\ LooksKept /\ RunsWatched /\ AnswersKept /\ OverMeansDead /\ KilledForCause

\* A step of one request that touches nothing else keeps the invariant, if
\* what the request has fits the step it is at.
LEMMA OneRequest ==
  ASSUME ControlInv, NEW t \in Threads, NEW r \in ReqRec, request' = [request EXCEPT ![t] = r], RequestKept(r),
         UNCHANGED <<package, reserved, actions, runs>>, request[t].pc # "answer",
         guard' \in [Components -> Threads \cup {None}],
         \A u \in Threads \ {t}, c \in Components : guard[c] = u => guard'[c] = u,
         r.pc \notin {"idle", "enter"} => guard'[LockOrder[r.of]] = t,
         mutex' \in Threads \cup {None}, \A u \in Threads \ {t} : mutex = u => mutex' = u,
         r.pc \in {"look", "poll"} => mutex' = t /\ Listed(r),
         r.mine => request[t].mine /\ r.id = request[t].id,
         r.pc \in Launching => request[t].pc \in Launching /\ r.run = request[t].run,
         request[t].pc \in Launching /\ r.pc \notin Launching => request[t].kind = "start",
         LaunchKept(r), AnswerKept(r)
  PROVE  ControlInv'
<1> USE OrderAssumption
<1>0. /\ Shape /\ RequestsKept /\ GuardsKept /\ ReservedKept /\ ActionsKept /\ EntriesKept
      /\ LaunchesKept /\ OwnLaunch /\ LooksKept /\ RunsWatched /\ AnswersKept /\ OverMeansDead
      /\ KilledForCause
  BY DEF ControlInv
<1>1. request' \in [Threads -> ReqRec] /\ request'[t] = r /\ \A u \in Threads \ {t} : request'[u] = request[u]
  BY <1>0 DEF Shape
<1>2. Entries' = Entries /\ TrackedIds' = TrackedIds
  BY DEF Entries, TrackedIds
<1>3. Shape'
  BY <1>0, <1>1 DEF Shape
<1>4. RequestsKept'
  BY <1>0, <1>1 DEF RequestsKept
<1>5. GuardsKept'
  <2>1. \A u \in Threads : request[u].pc # "idle" => LockOrder[request[u].of] \in Components
    BY <1>0 DEF RequestsKept, RequestKept
  <2> QED BY <1>0, <1>1, <2>1 DEF GuardsKept
<1>6. ReservedKept'
  BY <1>0, <1>1 DEF ReservedKept
<1>7. ActionsKept'
  BY <1>0, <1>2 DEF ActionsKept
<1>8. EntriesKept'
  BY <1>0, <1>2 DEF EntriesKept, EntryKept, Dead, AliveRoot
<1>9. LaunchesKept'
  BY <1>0, <1>1 DEF LaunchesKept, LaunchKept
<1>10. OwnLaunch'
  BY <1>0, <1>1, <1>2 DEF OwnLaunch
<1>11. LooksKept'
  BY <1>0, <1>1, <1>2 DEF LooksKept, Listed
<1>12. RunsWatched'
  BY <1>0, <1>1, <1>2 DEF RunsWatched, Watched, LaunchesKept, LaunchKept
<1>13. AnswersKept'
  BY <1>0, <1>1 DEF AnswersKept, AnswerKept, Dead, AliveRoot
<1>14. OverMeansDead'
  BY <1>0 DEF OverMeansDead, Dead, AliveRoot
<1>15. KilledForCause'
  BY <1>0, <1>1 DEF KilledForCause, RequestsKept, RequestKept, None
<1> QED
  BY <1>3, <1>4, <1>5, <1>6, <1>7, <1>8, <1>9, <1>10, <1>11, <1>12, <1>13, <1>14, <1>15 DEF ControlInv

\* A launcher that ended, with all it started
DeadRun(q) == q.root \notin {"suspended", "running"} /\ ~q.rest

\* A step of a launch on its own launcher keeps the invariant.
LEMMA OwnRun ==
  ASSUME ControlInv, NEW t \in Threads, NEW r \in ReqRec, request' = [request EXCEPT ![t] = r], RequestKept(r),
         UNCHANGED <<package, guard, mutex, reserved, actions>>, request[t].pc \in Launching,
         r.of = request[t].of, r.run = request[t].run, r.kind = request[t].kind,
         NEW q \in RunRec, runs' = [runs EXCEPT ![r.run] = q],
         q.kind = runs[r.run].kind, q.told = runs[r.run].told,
         Dead(r.run) => DeadRun(q),
         r.mine => request[t].mine /\ r.id = request[t].id,
         r.pc \in Launching \cup {"answer"},
         r.pc \in Launching =>
           /\ r.pc \in {"assign", "resume"} => q.root = "suspended" /\ ~q.rest
           /\ r.kind = "act" /\ r.pc # "assign" => q.job,
         r.pc = "assign" => ~q.rest,
         r.pc = "answer" /\ r.kind = "act" => DeadRun(q),
         q.root = "killed" => runs[r.run].root = "killed" \/ r.answer \in {"refused", "blocked"}
  PROVE  ControlInv'
<1> USE OrderAssumption
<1>0. /\ Shape /\ RequestsKept /\ GuardsKept /\ ReservedKept /\ ActionsKept /\ EntriesKept
      /\ LaunchesKept /\ OwnLaunch /\ LooksKept /\ RunsWatched /\ AnswersKept /\ OverMeansDead
      /\ KilledForCause
  BY DEF ControlInv
<1> DEFINE p == r.run
<1>1. request' \in [Threads -> ReqRec] /\ request'[t] = r /\ \A u \in Threads \ {t} : request'[u] = request[u]
  BY <1>0 DEF Shape
<1>2. Entries' = Entries /\ TrackedIds' = TrackedIds
  BY DEF Entries, TrackedIds
<1>3. p \in DOMAIN runs /\ runs[p].kind = r.kind /\ r.kind \in {"act", "start"}
  BY <1>0 DEF LaunchesKept, LaunchKept, Shape, RunRec
<1>4. /\ runs' \in Seq(RunRec) /\ DOMAIN runs' = DOMAIN runs /\ runs'[p] = q
      /\ \A o \in DOMAIN runs \ {p} : runs'[o] = runs[o]
  BY <1>0, <1>3 DEF Shape
<1>5. /\ \A e \in Entries : e.run # p
      /\ \A u \in Threads \ {t} : request[u].pc \in Launching => request[u].run # p
  BY <1>0 DEF OwnLaunch
<1> HIDE DEF p
<1>6. /\ DOMAIN runs' = DOMAIN runs /\ \A o \in DOMAIN runs : runs'[o].kind = runs[o].kind /\ runs'[o].told = runs[o].told
      /\ \A o \in DOMAIN runs : Dead(o) => Dead(o)'
  BY <1>4 DEF Dead, AliveRoot, DeadRun, p
<1>7. Shape'
  BY <1>0, <1>1, <1>4 DEF Shape
<1>8. RequestsKept'
  BY <1>0, <1>1 DEF RequestsKept
<1>9. GuardsKept'
  BY <1>0, <1>1 DEF GuardsKept, Launching
<1>10. ReservedKept'
  BY <1>0, <1>1 DEF ReservedKept
<1>11. ActionsKept'
  BY <1>0, <1>2 DEF ActionsKept
<1>12. EntriesKept'
  BY <1>0, <1>2, <1>4, <1>5 DEF EntriesKept, EntryKept, Dead, AliveRoot
<1>13. LaunchesKept'
  <2> SUFFICES ASSUME NEW u \in Threads PROVE LaunchKept(request[u])'
    BY DEF LaunchesKept
  <2>1. CASE u = t
    BY <2>1, <1>1, <1>3, <1>4 DEF LaunchKept, p
  <2>2. CASE u # t
    BY <2>2, <1>0, <1>1, <1>4, <1>5, SMTT(30) DEF LaunchesKept, LaunchKept
  <2> QED BY <2>1, <2>2
<1>14. OwnLaunch'
  BY <1>0, <1>1, <1>2, <1>5 DEF OwnLaunch, p
<1>15. LooksKept'
  BY <1>0, <1>1, <1>2 DEF LooksKept, Listed, Launching
<1>16. RunsWatched'
  <2> SUFFICES ASSUME NEW o \in DOMAIN runs, runs'[o].kind = "act", runs'[o].root = "running" \/ runs'[o].rest
               PROVE  runs'[o].job /\ Watched(o)'
    BY <1>6 DEF RunsWatched
  <2>1. CASE o = p
    <3>1. r.pc \in Launching /\ r.pc # "assign" /\ r.kind = "act"
      BY <2>1, <1>3, <1>4, <1>6 DEF DeadRun
    <3> QED BY <2>1, <3>1, <1>1, <1>4 DEF Watched, p
  <2>2. CASE o # p
    <3>1. runs[o].job /\ Watched(o) /\ runs'[o] = runs[o]
      BY <2>2, <1>0, <1>4 DEF RunsWatched
    <3> QED BY <2>2, <3>1, <1>1, <1>2 DEF Watched, p
  <2> QED BY <2>1, <2>2
<1>17. AnswersKept'
  <2> SUFFICES ASSUME NEW u \in Threads PROVE AnswerKept(request[u])'
    BY DEF AnswersKept
  <2>1. CASE u = t
    BY <2>1, <1>1, <1>3, <1>4 DEF AnswerKept, p, Dead, AliveRoot, DeadRun
  <2>2. CASE u # t
    BY <2>2, <1>0, <1>1, <1>6 DEF AnswersKept, AnswerKept
  <2> QED BY <2>1, <2>2
<1>18. OverMeansDead'
  BY <1>0, <1>6 DEF OverMeansDead
<1>19. KilledForCause'
  <2> SUFFICES ASSUME NEW o \in DOMAIN runs, runs'[o].root = "killed"
               PROVE  \/ runs'[o].told \cap {"refused", "blocked"} # {}
                      \/ \E u \in Threads : request'[u].run = o /\ request'[u].answer \in {"refused", "blocked"}
    BY <1>6 DEF KilledForCause
  <2>1. CASE o = p /\ r.answer \in {"refused", "blocked"}
    BY <2>1, <1>1 DEF p
  <2>2. CASE runs[o].root = "killed"
    <3>1. \/ runs[o].told \cap {"refused", "blocked"} # {}
          \/ \E u \in Threads : request[u].run = o /\ request[u].answer \in {"refused", "blocked"}
      BY <2>2, <1>0 DEF KilledForCause
    <3>2. request[t].answer \notin {"refused", "blocked"}
      BY <1>0 DEF RequestsKept, RequestKept, Launching, None
    <3> QED BY <3>1, <3>2, <1>1, <1>6
  <2> QED BY <2>1, <2>2, <1>4 DEF p
<1> QED
  BY <1>7, <1>8, <1>9, <1>10, <1>11, <1>12, <1>13, <1>14, <1>15, <1>16, <1>17, <1>18, <1>19 DEF ControlInv

\* An entry more: still distinct if it is new.
LEMMA Appended ==
  ASSUME NEW s \in Seq(ActRec), NEW e \in ActRec
  PROVE  /\ Append(s, e) \in Seq(ActRec) /\ Len(Append(s, e)) = Len(s) + 1
         /\ Elements(Append(s, e)) = Elements(s) \cup {e}
         /\ Distinct(s) /\ (\A d \in Elements(s) : d.id # e.id /\ d.run # e.run) => Distinct(Append(s, e))
<1> DEFINE a == Append(s, e)
<1>1. /\ a \in Seq(ActRec) /\ Len(a) = Len(s) + 1 /\ a[Len(s) + 1] = e
      /\ \A k \in 1 .. Len(s) : a[k] = s[k]
  OBVIOUS
<1>2. DOMAIN s = 1 .. Len(s) /\ DOMAIN a = 1 .. Len(s) + 1 /\ Len(s) \in Nat
  BY <1>1
<1> HIDE DEF a
<1>3. Elements(a) = Elements(s) \cup {e}
  <2>1. \A k \in DOMAIN a : k = Len(s) + 1 \/ k \in DOMAIN s
    BY <1>2
  <2>2. DOMAIN s \subseteq DOMAIN a /\ Len(s) + 1 \in DOMAIN a
    BY <1>2
  <2> QED BY <1>1, <1>2, <2>1, <2>2 DEF Elements
<1>4. ASSUME Distinct(s), \A d \in Elements(s) : d.id # e.id /\ d.run # e.run
      PROVE  Distinct(a)
  <2> SUFFICES ASSUME NEW j \in DOMAIN a, NEW k \in DOMAIN a, j # k
               PROVE  a[j].id # a[k].id /\ a[j].run # a[k].run
    BY DEF Distinct
  <2>1. \A m \in DOMAIN s : s[m] \in Elements(s)
    BY DEF Elements
  <2>2. CASE j = Len(s) + 1
    <3>1. k \in DOMAIN s
      BY <1>2, <2>2
    <3> QED BY <2>1, <2>2, <3>1, <1>1, <1>2, <1>4
  <2>3. CASE k = Len(s) + 1
    <3>1. j \in DOMAIN s
      BY <1>2, <2>3
    <3> QED BY <2>1, <2>3, <3>1, <1>1, <1>2, <1>4
  <2>4. CASE j \in DOMAIN s /\ k \in DOMAIN s
    BY <2>4, <1>1, <1>2, <1>4 DEF Distinct
  <2> QED BY <2>2, <2>3, <2>4, <1>2
<1> QED BY <1>1, <1>3, <1>4 DEF a

\* An entry less: the others are those that were there.
LEMMA Removed ==
  ASSUME NEW s \in Seq(ActRec), NEW i \in DOMAIN s, Distinct(s)
  PROVE  /\ RemoveAt(s, i) \in Seq(ActRec) /\ Len(RemoveAt(s, i)) = Len(s) - 1
         /\ Elements(RemoveAt(s, i)) = Elements(s) \ {s[i]} /\ Distinct(RemoveAt(s, i))
<1> DEFINE head == SubSeq(s, 1, i - 1)
           tail == SubSeq(s, i + 1, Len(s))
           r == RemoveAt(s, i)
<1>1. Len(s) \in Nat /\ DOMAIN s = 1 .. Len(s) /\ i \in 1 .. Len(s)
  OBVIOUS
<1>2. /\ head \in Seq(ActRec) /\ Len(head) = i - 1
      /\ \A k \in 1 .. i - 1 : head[k] = s[k]
  BY <1>1, SubSeqProperties
<1>3. /\ tail \in Seq(ActRec) /\ Len(tail) = Len(s) - i
      /\ \A k \in 1 .. Len(s) - i : tail[k] = s[i + k]
  <2>1. /\ tail \in Seq(ActRec) /\ Len(tail) = IF i + 1 <= Len(s) THEN Len(s) - (i + 1) + 1 ELSE 0
        /\ \A k \in 1 .. Len(s) - (i + 1) + 1 : tail[k] = s[(i + 1) + k - 1]
    BY <1>1, SubSeqProperties
  <2> QED BY <1>1, <2>1, SMTT(30)
<1> HIDE DEF head, tail
<1>4. r = head \o tail
  BY DEF RemoveAt, head, tail
<1>5. /\ r \in Seq(ActRec) /\ Len(r) = Len(s) - 1
      /\ \A k \in 1 .. i - 1 : r[k] = s[k]
      /\ \A k \in i .. Len(s) - 1 : r[k] = s[k + 1]
  <2>1. Len(head) \in Nat /\ Len(tail) \in Nat /\ Len(head) = i - 1 /\ Len(tail) = Len(s) - i
    BY <1>1, <1>2, <1>3
  <2>2. /\ r \in Seq(ActRec) /\ Len(r) = Len(head) + Len(tail)
        /\ \A k \in 1 .. Len(head) + Len(tail) : r[k] = IF k <= Len(head) THEN head[k] ELSE tail[k - Len(head)]
    BY <1>2, <1>3, <1>4, ConcatProperties
  <2>3. Len(r) = Len(s) - 1
    BY <1>1, <2>1, <2>2
  <2>4. ASSUME NEW k \in 1 .. i - 1 PROVE r[k] = s[k]
    BY <1>1, <1>2, <2>1, <2>2
  <2>5. ASSUME NEW k \in i .. Len(s) - 1 PROVE r[k] = s[k + 1]
    <3>1. k - Len(head) \in 1 .. Len(s) - i /\ i + (k - Len(head)) = k + 1 /\ ~(k <= Len(head))
      BY <1>1, <2>1
    <3>2. k \in 1 .. Len(head) + Len(tail)
      BY <1>1, <2>1
    <3>3. r[k] = tail[k - Len(head)]
      BY <2>2, <3>1, <3>2
    <3>4. tail[k - Len(head)] = s[i + (k - Len(head))]
      BY <1>3, <3>1
    <3> QED BY <3>1, <3>3, <3>4
  <2> QED BY <2>2, <2>3, <2>4, <2>5
<1> HIDE DEF r
<1> DEFINE Old(k) == IF k < i THEN k ELSE k + 1
<1>6. DOMAIN r = 1 .. Len(s) - 1 /\ \A k \in DOMAIN r : Old(k) \in DOMAIN s \ {i} /\ r[k] = s[Old(k)]
  BY <1>1, <1>5
<1>7. \A j, k \in DOMAIN r : j # k => Old(j) # Old(k)
  BY <1>1, <1>6
<1>8. \A m \in DOMAIN s \ {i} : \E k \in DOMAIN r : r[k] = s[m]
  <2> SUFFICES ASSUME NEW m \in DOMAIN s \ {i} PROVE \E k \in DOMAIN r : r[k] = s[m]
    OBVIOUS
  <2>1. CASE m < i
    BY <2>1, <1>1, <1>5, <1>6
  <2>2. CASE m > i
    <3>1. m - 1 \in i .. Len(s) - 1 /\ m - 1 \in DOMAIN r /\ (m - 1) + 1 = m
      BY <2>2, <1>1, <1>6
    <3> QED BY <3>1, <1>5
  <2> QED BY <2>1, <2>2, <1>1
<1>9. Distinct(r)
  <2> HIDE DEF Old
  <2> QED BY <1>6, <1>7 DEF Distinct
<1>10. Elements(r) = Elements(s) \ {s[i]}
  <2> HIDE DEF Old
  <2>1. \A k \in DOMAIN s \ {i} : s[k] # s[i]
    BY DEF Distinct
  <2>2. Elements(r) \subseteq Elements(s) \ {s[i]}
    BY <1>6, <2>1 DEF Elements
  <2>3. Elements(s) \ {s[i]} \subseteq Elements(r)
    BY <1>8 DEF Elements
  <2> QED BY <2>2, <2>3
<1> QED BY <1>5, <1>9, <1>10 DEF r


\* An entry that was asked for goes to the end of the list.
LEMMA Moved ==
  ASSUME NEW s \in Seq(ActRec), NEW k \in DOMAIN s, Distinct(s),
         NEW e \in ActRec, e.id = s[k].id, e.run = s[k].run
  PROVE  LET m == Append(RemoveAt(s, k), e)
         IN  m \in Seq(ActRec) /\ Len(m) = Len(s) /\ Distinct(m) /\ Elements(m) = (Elements(s) \ {s[k]}) \cup {e}
<1> DEFINE r == RemoveAt(s, k)
<1>1. r \in Seq(ActRec) /\ Len(r) = Len(s) - 1 /\ Elements(r) = Elements(s) \ {s[k]} /\ Distinct(r)
  BY Removed
<1> HIDE DEF r
<1>2. \A d \in Elements(r) : d.id # e.id /\ d.run # e.run
  BY <1>1 DEF Elements, Distinct
<1>3. /\ Append(r, e) \in Seq(ActRec) /\ Len(Append(r, e)) = Len(r) + 1
      /\ Elements(Append(r, e)) = Elements(r) \cup {e} /\ Distinct(Append(r, e))
  BY <1>1, <1>2, Appended
<1>4. Len(r) + 1 = Len(s)
  BY <1>1
<1> QED BY <1>1, <1>3, <1>4 DEF r

\* Only one entry has a given id.
LEMMA TheTracked ==
  ASSUME ControlInv, NEW e \in Entries
  PROVE  Tracked(e.id) \in DOMAIN actions /\ actions[Tracked(e.id)] = e
<1>1. Distinct(actions)
  BY DEF ControlInv, ActionsKept
<1>2. PICK k \in DOMAIN actions : actions[k] = e
  BY DEF Entries, Elements
<1>3. Tracked(e.id) \in DOMAIN actions /\ actions[Tracked(e.id)].id = e.id
  BY <1>2 DEF Tracked
<1> QED BY <1>1, <1>2, <1>3 DEF Distinct

\* A step that changes one launcher, and what is tracked of it, keeps the
\* invariant.
LEMMA OneAction ==
  ASSUME ControlInv, NEW t \in Threads, NEW r \in ReqRec, request' = [request EXCEPT ![t] = r], RequestKept(r),
         UNCHANGED <<package, guard, reserved>>, request[t].pc \in {"lookup", "look", "poll"},
         r.pc = "answer", r.of = request[t].of, ~r.mine, mutex \in {t, None}, mutex' = None,
         NEW d \in Entries, NEW e \in ActRec, e.id = d.id, e.run = d.run, r.run = d.run,
         actions' \in Seq(ActRec), Distinct(actions'), Len(actions') = Len(actions),
         Elements(actions') = (Entries \ {d}) \cup {e},
         NEW q \in RunRec, runs' = [runs EXCEPT ![d.run] = q], q = runs[d.run] \/ DeadRun(q),
         q.kind = runs[d.run].kind, q.told = runs[d.run].told, q.job = runs[d.run].job,
         e.blocked => DeadRun(q), r.answer \in Over => DeadRun(q),
         q.root = "killed" => runs[d.run].root = "killed" \/ r.answer \in {"refused", "blocked"}
  PROVE  ControlInv'
<1> USE OrderAssumption
<1>0. /\ Shape /\ RequestsKept /\ GuardsKept /\ ReservedKept /\ ActionsKept /\ EntriesKept
      /\ LaunchesKept /\ OwnLaunch /\ LooksKept /\ RunsWatched /\ AnswersKept /\ OverMeansDead
      /\ KilledForCause
  BY DEF ControlInv
<1> DEFINE p == d.run
<1>1. request' \in [Threads -> ReqRec] /\ request'[t] = r /\ \A u \in Threads \ {t} : request'[u] = request[u]
  BY <1>0 DEF Shape
<1>2. p \in DOMAIN runs /\ runs[p].kind = "act" /\ runs[p].job /\ (d.blocked => Dead(p))
  BY <1>0 DEF EntriesKept, EntryKept
<1>3. /\ runs' \in Seq(RunRec) /\ DOMAIN runs' = DOMAIN runs /\ runs'[p] = q
      /\ \A o \in DOMAIN runs \ {p} : runs'[o] = runs[o]
  BY <1>0, <1>2 DEF Shape
<1>4. \A u \in Threads : request[u].pc \in Launching => request[u].run # p
  BY <1>0 DEF OwnLaunch
<1>5. Entries' = (Entries \ {d}) \cup {e}
  BY DEF Entries
<1>6. {x.id : x \in Entries'} = {x.id : x \in Entries} /\ {x.run : x \in Entries'} = {x.run : x \in Entries}
  BY <1>5
<1>7. \A a : {a[k].id : k \in DOMAIN a} = {x.id : x \in Elements(a)}
  BY DEF Elements
<1>8. TrackedIds' = TrackedIds
  <2>1. TrackedIds = {x.id : x \in Entries} /\ TrackedIds' = {x.id : x \in Entries'}
    BY <1>7 DEF TrackedIds, Entries
  <2> QED BY <1>6, <2>1
<1>9. \A u \in Threads : request'[u].pc \notin {"look", "poll"}
  BY <1>0, <1>1, NoneAssumption DEF LooksKept
<1> HIDE DEF p
<1>10. /\ \A o \in DOMAIN runs : runs'[o].kind = runs[o].kind /\ runs'[o].told = runs[o].told /\ runs'[o].job = runs[o].job
       /\ \A o \in DOMAIN runs : Dead(o) => Dead(o)'
  BY <1>3 DEF Dead, AliveRoot, DeadRun, p
<1>11. Shape'
  BY <1>0, <1>1, <1>3 DEF Shape
<1>12. RequestsKept'
  BY <1>0, <1>1 DEF RequestsKept
<1>13. GuardsKept'
  BY <1>0, <1>1 DEF GuardsKept
<1>14. ReservedKept'
  BY <1>0, <1>1 DEF ReservedKept
<1>15. ActionsKept'
  <2>1. \A x \in Entries' : x.id \notin reserved
    BY <1>0, <1>5 DEF ActionsKept
  <2> QED BY <1>0, <1>8, <2>1 DEF ActionsKept
<1>16. EntriesKept'
  <2> SUFFICES ASSUME NEW x \in Entries' PROVE EntryKept(x)'
    BY DEF EntriesKept
  <2>1. CASE x = e
    BY <2>1, <1>2, <1>3 DEF EntryKept, p, Dead, AliveRoot, DeadRun
  <2>2. CASE x \in Entries
    BY <2>2, <1>0, <1>3, <1>10 DEF EntriesKept, EntryKept
  <2> QED BY <2>1, <2>2, <1>5
<1>17. LaunchesKept'
  <2> SUFFICES ASSUME NEW u \in Threads, request'[u].pc \in Launching PROVE LaunchKept(request[u])'
    BY DEF LaunchesKept, LaunchKept
  <2>1. u # t /\ request'[u] = request[u] /\ request[u].run # p
    BY <1>1, <1>4 DEF Launching
  <2> QED BY <2>1, <1>0, <1>3 DEF LaunchesKept, LaunchKept
<1>18. OwnLaunch'
  BY <1>0, <1>1, <1>5 DEF OwnLaunch, Launching
<1>19. LooksKept'
  BY <1>9 DEF LooksKept
<1>20. RunsWatched'
  <2> SUFFICES ASSUME NEW o \in DOMAIN runs, runs'[o].kind = "act", runs'[o].root = "running" \/ runs'[o].rest
               PROVE  runs'[o].job /\ Watched(o)'
    BY <1>3 DEF RunsWatched
  <2>1. runs'[o] = runs[o]
    BY <1>3 DEF DeadRun, p
  <2>2. runs[o].job /\ Watched(o)
    BY <2>1, <1>0 DEF RunsWatched
  <2>3. CASE \E x \in Entries : x.run = o
    BY <2>1, <2>2, <2>3, <1>5 DEF Watched
  <2>4. CASE \E u \in Threads : request[u].run = o /\ request[u].pc \in Launching
    <3>1. PICK u \in Threads : request[u].run = o /\ request[u].pc \in Launching
      BY <2>4
    <3>2. u # t
      BY <3>1 DEF Launching
    <3> QED BY <2>1, <2>2, <3>1, <3>2, <1>1 DEF Watched
  <2> QED BY <2>2, <2>3, <2>4 DEF Watched
<1>21. AnswersKept'
  <2> SUFFICES ASSUME NEW u \in Threads PROVE AnswerKept(request[u])'
    BY DEF AnswersKept
  <2>1. CASE u = t
    BY <2>1, <1>1, <1>2, <1>3 DEF AnswerKept, p, Dead, AliveRoot, DeadRun
  <2>2. CASE u # t
    BY <2>2, <1>0, <1>1, <1>3, <1>10 DEF AnswersKept, AnswerKept
  <2> QED BY <2>1, <2>2
<1>22. OverMeansDead'
  BY <1>0, <1>3, <1>10 DEF OverMeansDead
<1>23. KilledForCause'
  <2> SUFFICES ASSUME NEW o \in DOMAIN runs, runs'[o].root = "killed"
               PROVE  \/ runs'[o].told \cap {"refused", "blocked"} # {}
                      \/ \E u \in Threads : request'[u].run = o /\ request'[u].answer \in {"refused", "blocked"}
    BY <1>3 DEF KilledForCause
  <2>1. CASE o = p /\ r.answer \in {"refused", "blocked"}
    BY <2>1, <1>1 DEF p
  <2>2. CASE runs[o].root = "killed"
    <3>1. \/ runs[o].told \cap {"refused", "blocked"} # {}
          \/ \E u \in Threads : request[u].run = o /\ request[u].answer \in {"refused", "blocked"}
      BY <2>2, <1>0 DEF KilledForCause
    <3>2. request[t].answer \notin {"refused", "blocked"}
      BY <1>0 DEF RequestsKept, RequestKept, None
    <3> QED BY <3>1, <3>2, <1>1, <1>10
  <2> QED BY <2>1, <2>2, <1>3 DEF p
<1> QED
  BY <1>11, <1>12, <1>13, <1>14, <1>15, <1>16, <1>17, <1>18, <1>19, <1>20, <1>21, <1>22, <1>23 DEF ControlInv

\* A launcher that runs, by itself: it starts other processes, or ends.
LEMMA OneLauncher ==
  ASSUME ControlInv, NEW p \in DOMAIN runs, runs[p].root = "running",
         UNCHANGED <<package, guard, mutex, actions, reserved, request>>,
         NEW q \in RunRec, runs' = [runs EXCEPT ![p] = q], q.root \notin {"suspended", "killed"},
         q.kind = runs[p].kind, q.told = runs[p].told, q.job = runs[p].job
  PROVE  ControlInv'
<1> USE OrderAssumption
<1>0. /\ Shape /\ RequestsKept /\ GuardsKept /\ ReservedKept /\ ActionsKept /\ EntriesKept
      /\ LaunchesKept /\ OwnLaunch /\ LooksKept /\ RunsWatched /\ AnswersKept /\ OverMeansDead
      /\ KilledForCause
  BY DEF ControlInv
<1>1. /\ runs' \in Seq(RunRec) /\ DOMAIN runs' = DOMAIN runs /\ runs'[p] = q
      /\ \A o \in DOMAIN runs \ {p} : runs'[o] = runs[o]
  BY <1>0 DEF Shape
<1>2. /\ \A o \in DOMAIN runs : runs'[o].kind = runs[o].kind /\ runs'[o].told = runs[o].told /\ runs'[o].job = runs[o].job
      /\ \A o \in DOMAIN runs : Dead(o) => Dead(o)'
  BY <1>1 DEF Dead, AliveRoot
<1>3. Entries' = Entries /\ TrackedIds' = TrackedIds
  BY DEF Entries, Elements, TrackedIds
<1>4. Shape'
  BY <1>0, <1>1 DEF Shape
<1>5. RequestsKept' /\ GuardsKept' /\ ReservedKept'
  BY <1>0 DEF RequestsKept, GuardsKept, ReservedKept
<1>6. ActionsKept'
  BY <1>0, <1>3 DEF ActionsKept
<1>7. EntriesKept'
  BY <1>0, <1>1, <1>2, <1>3 DEF EntriesKept, EntryKept
<1>8. LaunchesKept'
  BY <1>0, <1>1, <1>2 DEF LaunchesKept, LaunchKept
<1>9. OwnLaunch' /\ LooksKept'
  BY <1>0, <1>3 DEF OwnLaunch, LooksKept, Listed
<1>10. RunsWatched'
  <2> SUFFICES ASSUME NEW o \in DOMAIN runs, runs'[o].kind = "act", runs'[o].root = "running" \/ runs'[o].rest
               PROVE  runs'[o].job /\ Watched(o)'
    BY <1>1 DEF RunsWatched
  <2>1. runs[o].kind = "act" /\ (runs[o].root = "running" \/ runs[o].rest)
    BY <1>1, <1>2
  <2>2. runs[o].job /\ Watched(o)
    BY <2>1, <1>0 DEF RunsWatched
  <2> QED BY <2>2, <1>2, <1>3 DEF Watched
<1>11. AnswersKept'
  BY <1>0, <1>1, <1>2 DEF AnswersKept, AnswerKept
<1>12. OverMeansDead'
  BY <1>0, <1>1, <1>2 DEF OverMeansDead
<1>13. KilledForCause'
  BY <1>0, <1>1, <1>2 DEF KilledForCause
<1> QED
  BY <1>4, <1>5, <1>6, <1>7, <1>8, <1>9, <1>10, <1>11, <1>12, <1>13 DEF ControlInv

\* A reservation: of an id that nobody has, with an entry that was dropped to
\* make room, or none.
LEMMA OneReservation ==
  ASSUME ControlInv, NEW t \in Threads, NEW r \in ReqRec, request' = [request EXCEPT ![t] = r], RequestKept(r),
         UNCHANGED <<package, guard, mutex>>, mutex = None, request[t].pc = "reserve", r.pc = "spawn", r.of = request[t].of,
         r.id \in ActionIds \ (TrackedIds \cup reserved), reserved' = reserved \cup {r.id},
         NEW D \in SUBSET Entries, actions' \in Seq(ActRec), Distinct(actions'),
         Entries' = Entries \ D, IsFiniteSet(TrackedIds'), Cardinality(TrackedIds') = Len(actions'),
         Len(actions') + Cardinality(reserved') <= MaxActive,
         runs' \in Seq(RunRec), DOMAIN runs' = DOMAIN runs,
         \A d \in D : Dead(d.run)',
         \A o \in DOMAIN runs : /\ runs'[o].kind = runs[o].kind /\ runs'[o].told = runs[o].told
                                /\ runs'[o].job = runs[o].job /\ runs'[o].root = runs[o].root
                                /\ (runs'[o].rest => runs[o].rest)
  PROVE  ControlInv'
<1> USE OrderAssumption
<1>0. /\ Shape /\ RequestsKept /\ GuardsKept /\ ReservedKept /\ ActionsKept /\ EntriesKept
      /\ LaunchesKept /\ OwnLaunch /\ LooksKept /\ RunsWatched /\ AnswersKept /\ OverMeansDead
      /\ KilledForCause
  BY DEF ControlInv
<1>1. request' \in [Threads -> ReqRec] /\ request'[t] = r /\ \A u \in Threads \ {t} : request'[u] = request[u]
  BY <1>0 DEF Shape
<1>2. \A o \in DOMAIN runs : Dead(o) => Dead(o)'
  BY DEF Dead, AliveRoot
<1>3. \A e \in Entries : e.id # r.id
  BY DEF Entries, Elements, TrackedIds
<1>4. Shape'
  BY <1>0, <1>1 DEF Shape
<1>5. RequestsKept'
  BY <1>0, <1>1 DEF RequestsKept
<1>6. GuardsKept'
  BY <1>0, <1>1 DEF GuardsKept
<1>7. ReservedKept'
  <2>1. IsFiniteSet(reserved')
    BY <1>0, FS_AddElement DEF ReservedKept
  <2>2. \A u \in Threads : request'[u].mine => request'[u].id \in reserved'
    BY <1>0, <1>1 DEF ReservedKept
  <2>3. \A u \in Threads \ {t} : request[u].mine => request[u].id # r.id
    BY <1>0 DEF ReservedKept
  <2>4. \A u, v \in Threads : request'[u].mine /\ request'[v].mine /\ u # v => request'[u].id # request'[v].id
    BY <1>0, <1>1, <2>3 DEF ReservedKept
  <2> QED BY <2>1, <2>2, <2>4 DEF ReservedKept
<1>8. ActionsKept'
  BY <1>0, <1>3 DEF ActionsKept
<1>9. EntriesKept'
  BY <1>0, <1>2 DEF EntriesKept, EntryKept
<1>10. LaunchesKept'
  <2>1. \A u \in Threads \ {t} : LaunchKept(request[u])'
    BY <1>0, <1>1 DEF LaunchesKept, LaunchKept, Launching
  <2>2. LaunchKept(request[t])'
    BY <1>0, <1>1 DEF LaunchesKept, LaunchKept, Launching
  <2> QED BY <2>1, <2>2 DEF LaunchesKept
<1>11. OwnLaunch'
  BY <1>0, <1>1 DEF OwnLaunch, Launching
<1>12. LooksKept'
  <2>1. \A u \in Threads : request'[u].pc \notin {"look", "poll"}
    BY <1>0, <1>1, NoneAssumption DEF LooksKept
  <2> QED BY <2>1 DEF LooksKept
<1>13. RunsWatched'
  <2> SUFFICES ASSUME NEW o \in DOMAIN runs, runs'[o].kind = "act", runs'[o].root = "running" \/ runs'[o].rest
               PROVE  runs'[o].job /\ Watched(o)'
    BY DEF RunsWatched
  <2>1. runs[o].job /\ Watched(o)
    BY <1>0 DEF RunsWatched
  <2>2. \A d \in D : d.run # o
    BY DEF Dead, AliveRoot
  <2>3. \A u \in Threads : request[u].pc \in Launching => request'[u] = request[u]
    BY <1>1 DEF Launching
  <2> QED BY <2>1, <2>2, <2>3 DEF Watched
<1>14. AnswersKept'
  BY <1>0, <1>1, <1>2 DEF AnswersKept, AnswerKept
<1>15. OverMeansDead'
  BY <1>0, <1>2 DEF OverMeansDead
<1>16. KilledForCause'
  <2>1. request[t].answer \notin {"refused", "blocked"}
    BY <1>0 DEF RequestsKept, RequestKept, None
  <2> SUFFICES ASSUME NEW o \in DOMAIN runs, runs'[o].root = "killed", runs'[o].told \cap {"refused", "blocked"} = {}
               PROVE  \E u \in Threads : request'[u].run = o /\ request'[u].answer \in {"refused", "blocked"}
    BY DEF KilledForCause
  <2>2. PICK u \in Threads : request[u].run = o /\ request[u].answer \in {"refused", "blocked"}
    BY <1>0 DEF KilledForCause
  <2>3. request'[u] = request[u]
    BY <2>1, <2>2, <1>1
  <2> QED BY <2>2, <2>3
<1> QED
  BY <1>4, <1>5, <1>6, <1>7, <1>8, <1>9, <1>10, <1>11, <1>12, <1>13, <1>14, <1>15, <1>16 DEF ControlInv

\* A commit: the reservation becomes an entry.
LEMMA CommitKept ==
  ASSUME ControlInv, NEW t \in Threads, Commit(t)
  PROVE  ControlInv'
<1> USE OrderAssumption
<1>0. /\ Shape /\ RequestsKept /\ GuardsKept /\ ReservedKept /\ ActionsKept /\ EntriesKept
      /\ LaunchesKept /\ OwnLaunch /\ LooksKept /\ RunsWatched /\ AnswersKept /\ OverMeansDead
      /\ KilledForCause
  BY DEF ControlInv
<1> DEFINE i == request[t].id
           e == [id |-> i, of |-> Of(t), run |-> request[t].run, saw |-> request[t].saw, blocked |-> FALSE]
           r == [request[t] EXCEPT !.pc = "answer", !.answer = "running", !.seen = Gone, !.saw = Gone, !.mine = FALSE]
<1>25. /\ request[t].pc = "commit" /\ reserved' = reserved \ {i} /\ actions' = Append(actions, e)
       /\ UNCHANGED <<package, guard, mutex, runs>>
  BY DEF Commit
<1>1. request[t] \in ReqRec /\ request[t].pc = "commit" /\ RequestKept(request[t]) /\ LaunchKept(request[t])
  BY <1>0, <1>25 DEF Shape, RequestsKept, LaunchesKept
<1>2. request[t].kind = "act" /\ request[t].mine /\ i \in ActionIds /\ request[t].answer = None
  BY <1>1 DEF RequestKept, Launching
<1>3. /\ request[t].run \in DOMAIN runs /\ runs[request[t].run].kind = "act" /\ runs[request[t].run].job
      /\ \A d \in Entries : d.run # request[t].run
      /\ \A u \in Threads \ {t} : request[u].pc \in Launching => request[u].run # request[t].run
  BY <1>0, <1>1, <1>2 DEF LaunchKept, Launching, OwnLaunch
<1>4. /\ r \in ReqRec /\ r.pc = "answer" /\ r.answer = "running" /\ ~r.mine /\ r.of = request[t].of
      /\ r.run = request[t].run /\ r.kind = "act" /\ r.id = i
  BY <1>1, <1>2 DEF ReqRec, PCs, Answers
<1>5. e \in ActRec /\ e.id = i /\ e.run = request[t].run /\ ~e.blocked
  <2>1. Of(t) \in Components
    BY <1>1 DEF RequestKept, Of
  <2> QED BY <2>1, <1>1, <1>2 DEF ActRec, ReqRec
<1>6. request' = [request EXCEPT ![t] = r]
  BY <1>0 DEF Answered, Shape, Commit
<1> HIDE DEF r, e
<1>7. request' \in [Threads -> ReqRec] /\ request'[t] = r /\ \A u \in Threads \ {t} : request'[u] = request[u]
  BY <1>0, <1>25, <1>4, <1>6 DEF Shape
<1>9. i \in reserved /\ \A d \in Entries : d.id # i
  BY <1>0, <1>25, <1>2 DEF ReservedKept, ActionsKept
<1>10. /\ actions' \in Seq(ActRec) /\ Len(actions') = Len(actions) + 1
       /\ Entries' = Entries \cup {e} /\ Distinct(actions')
  BY <1>0, <1>25, <1>3, <1>5, <1>9, Appended DEF Shape, Entries, ActionsKept
<1>11. TrackedIds' = TrackedIds \cup {i} /\ i \notin TrackedIds
  <2>1. TrackedIds = {x.id : x \in Entries} /\ TrackedIds' = {x.id : x \in Entries'}
    BY DEF TrackedIds, Entries, Elements
  <2> QED BY <2>1, <1>5, <1>9, <1>10
<1>12. Shape'
  BY <1>0, <1>25, <1>7, <1>10 DEF Shape
<1>13. RequestsKept'
  <2>1. RequestKept(r)
    BY <1>1, <1>2, <1>4 DEF RequestKept, Launching
  <2> QED BY <2>1, <1>0, <1>7 DEF RequestsKept
<1>14. GuardsKept'
  BY <1>0, <1>25, <1>1, <1>4, <1>7 DEF GuardsKept
<1>15. ReservedKept'
  <2>1. \A u \in Threads \ {t} : request[u].mine => request[u].id # i
    BY <1>0, <1>25, <1>2 DEF ReservedKept
  <2>2. IsFiniteSet(reserved')
    BY <1>0, <1>25, FS_RemoveElement DEF ReservedKept
  <2> QED BY <1>0, <1>25, <1>4, <1>7, <2>1, <2>2 DEF ReservedKept
<1>16. ActionsKept'
  <2>1. IsFiniteSet(TrackedIds') /\ Cardinality(TrackedIds') = Cardinality(TrackedIds) + 1
    BY <1>0, <1>25, <1>11, FS_AddElement DEF ActionsKept
  <2>2. Cardinality(reserved') = Cardinality(reserved) - 1 /\ Cardinality(reserved) \in Nat
    BY <1>0, <1>25, <1>9, FS_RemoveElement, FS_CardinalityType DEF ReservedKept
  <2>3. \A x \in Entries' : x.id \notin reserved'
    BY <1>0, <1>25, <1>5, <1>10 DEF ActionsKept
  <2>4. Len(actions') + Cardinality(reserved') = Len(actions) + Cardinality(reserved)
    BY <1>0, <1>25, <1>10, <2>2 DEF Shape
  <2>5. Cardinality(TrackedIds') = Len(actions')
    BY <1>0, <1>25, <1>10, <2>1 DEF ActionsKept
  <2> QED BY <1>0, <1>25, <1>10, <2>1, <2>3, <2>4, <2>5 DEF ActionsKept
<1>17. EntriesKept'
  BY <1>0, <1>25, <1>3, <1>5, <1>10 DEF EntriesKept, EntryKept, Dead, AliveRoot
<1>18. LaunchesKept'
  BY <1>0, <1>25, <1>4, <1>7 DEF LaunchesKept, LaunchKept, Launching
<1>19. OwnLaunch'
  <2> SUFFICES ASSUME NEW u \in Threads, request'[u].pc \in Launching
               PROVE  /\ \A x \in Entries' : x.run # request'[u].run
                      /\ \A v \in Threads \ {u} : request'[v].pc \in Launching => request'[v].run # request'[u].run
    BY DEF OwnLaunch
  <2>1. u # t /\ request'[u] = request[u]
    BY <1>4, <1>7 DEF Launching
  <2>2. /\ \A x \in Entries : x.run # request[u].run
        /\ \A v \in Threads \ {u} : request[v].pc \in Launching => request[v].run # request[u].run
    BY <1>0, <2>1 DEF OwnLaunch
  <2>3. e.run # request[u].run
    BY <1>3, <1>5, <2>1
  <2>4. \A v \in Threads : request'[v].pc \in Launching => request'[v] = request[v]
    BY <1>4, <1>7 DEF Launching
  <2> QED BY <1>10, <2>1, <2>2, <2>3, <2>4
<1>20. LooksKept'
  BY <1>0, <1>25, <1>4, <1>7, <1>10 DEF LooksKept, Listed
<1>21. RunsWatched'
  BY <1>0, <1>25, <1>4, <1>5, <1>7, <1>10 DEF RunsWatched, Watched
<1>22. AnswersKept'
  <2> SUFFICES ASSUME NEW u \in Threads PROVE AnswerKept(request[u])'
    BY DEF AnswersKept
  <2>1. CASE u = t
    BY <2>1, <1>25, <1>3, <1>4, <1>7 DEF AnswerKept, Over
  <2>2. CASE u # t
    BY <2>2, <1>0, <1>25, <1>7 DEF AnswersKept, AnswerKept, Dead, AliveRoot
  <2> QED BY <2>1, <2>2
<1>23. OverMeansDead'
  BY <1>0, <1>25 DEF OverMeansDead, Dead, AliveRoot
<1>24. KilledForCause'
  <2>1. request[t].answer \notin {"refused", "blocked"}
    BY <1>2 DEF None
  <2> QED BY <2>1, <1>0, <1>25, <1>7 DEF KilledForCause
<1> QED
  BY <1>12, <1>13, <1>14, <1>15, <1>16, <1>17, <1>18, <1>19, <1>20, <1>21, <1>22, <1>23, <1>24 DEF ControlInv

\* A launcher is created: nobody knows it but the request.
LEMMA LaunchedKept ==
  ASSUME ControlInv, NEW t \in Threads, NEW r \in ReqRec, request' = [request EXCEPT ![t] = r], RequestKept(r),
         UNCHANGED <<package, guard, mutex, actions, reserved>>, request[t].pc = "spawn",
         NEW q \in RunRec, runs' = Append(runs, q), r.run = Len(runs) + 1, r.kind = q.kind, r.of = request[t].of,
         r.id = request[t].id, r.mine => request[t].mine,
         \/ r.kind = "act" /\ r.pc = "assign" /\ q.root = "suspended"
         \/ r.kind = "start" /\ r.pc = "handshake",
         ~q.rest, q.told = {}, q.root # "killed"
  PROVE  ControlInv'
<1> USE OrderAssumption
<1>0. /\ Shape /\ RequestsKept /\ GuardsKept /\ ReservedKept /\ ActionsKept /\ EntriesKept
      /\ LaunchesKept /\ OwnLaunch /\ LooksKept /\ RunsWatched /\ AnswersKept /\ OverMeansDead
      /\ KilledForCause
  BY DEF ControlInv
<1> DEFINE p == r.run
<1>1. request' \in [Threads -> ReqRec] /\ request'[t] = r /\ \A u \in Threads \ {t} : request'[u] = request[u]
  BY <1>0 DEF Shape
<1>2. /\ runs' \in Seq(RunRec) /\ p \notin DOMAIN runs /\ DOMAIN runs' = DOMAIN runs \cup {p}
      /\ runs'[p] = q
      /\ \A o \in DOMAIN runs : runs'[o] = runs[o]
  <2>1. runs \in Seq(RunRec)
    BY <1>0 DEF Shape
  <2> QED BY <2>1
<1>3. Entries' = Entries /\ TrackedIds' = TrackedIds
  BY DEF Entries, Elements, TrackedIds
<1>4. p # 0 /\ r.answer = None
  <2>1. Len(runs) \in Nat
    BY <1>0 DEF Shape
  <2> QED BY <2>1 DEF RequestKept
<1> HIDE DEF p
<1>5. \A o \in DOMAIN runs : Dead(o) => Dead(o)'
  BY <1>2 DEF Dead, AliveRoot
<1>6. /\ \A e \in Entries : e.run # p
      /\ \A u \in Threads : request[u].pc \in Launching => request[u].run # p
  BY <1>0, <1>2 DEF EntriesKept, EntryKept, LaunchesKept, LaunchKept
<1>7. Shape'
  BY <1>0, <1>1, <1>2 DEF Shape
<1>8. RequestsKept'
  BY <1>0, <1>1 DEF RequestsKept
<1>9. GuardsKept'
  BY <1>0, <1>1 DEF GuardsKept
<1>10. ReservedKept'
  BY <1>0, <1>1 DEF ReservedKept
<1>11. ActionsKept'
  BY <1>0, <1>3 DEF ActionsKept
<1>12. EntriesKept'
  BY <1>0, <1>2, <1>3, <1>5 DEF EntriesKept, EntryKept
<1>13. LaunchesKept'
  <2> SUFFICES ASSUME NEW u \in Threads PROVE LaunchKept(request[u])'
    BY DEF LaunchesKept
  <2>1. CASE u = t
    BY <2>1, <1>1, <1>2 DEF LaunchKept, p
  <2>2. CASE u # t
    BY <2>2, <1>0, <1>1, <1>2 DEF LaunchesKept, LaunchKept
  <2> QED BY <2>1, <2>2
<1>14. OwnLaunch'
  BY <1>0, <1>1, <1>3, <1>6 DEF OwnLaunch, p
<1>15. LooksKept'
  BY <1>0, <1>1, <1>3 DEF LooksKept, Listed
<1>16. RunsWatched'
  <2> SUFFICES ASSUME NEW o \in DOMAIN runs', runs'[o].kind = "act", runs'[o].root = "running" \/ runs'[o].rest
               PROVE  runs'[o].job /\ Watched(o)'
    BY DEF RunsWatched
  <2>1. o \in DOMAIN runs
    BY <1>2 DEF p
  <2>2. runs[o].job /\ Watched(o)
    BY <2>1, <1>0, <1>2 DEF RunsWatched
  <2>3. \A u \in Threads : request[u].pc \in Launching => request'[u] = request[u]
    BY <1>1 DEF Launching
  <2> QED BY <2>1, <2>2, <2>3, <1>2, <1>3 DEF Watched
<1>17. AnswersKept'
  BY <1>0, <1>1, <1>2, <1>5 DEF AnswersKept, AnswerKept
<1>18. OverMeansDead'
  <2>1. ~(runs'[p].told \cap {"done", "failed", "blocked"} # {})
    BY <1>2
  <2> QED BY <2>1, <1>0, <1>2, <1>5 DEF OverMeansDead
<1>19. KilledForCause'
  <2>1. request[t].answer \notin {"refused", "blocked"}
    BY <1>0 DEF RequestsKept, RequestKept, None
  <2> SUFFICES ASSUME NEW o \in DOMAIN runs', runs'[o].root = "killed"
               PROVE  \/ runs'[o].told \cap {"refused", "blocked"} # {}
                      \/ \E u \in Threads : request'[u].run = o /\ request'[u].answer \in {"refused", "blocked"}
    BY DEF KilledForCause
  <2>2. o \in DOMAIN runs /\ runs'[o] = runs[o]
    BY <1>2
  <2>3. \/ runs[o].told \cap {"refused", "blocked"} # {}
        \/ \E u \in Threads : request[u].run = o /\ request[u].answer \in {"refused", "blocked"}
    BY <2>2, <1>0 DEF KilledForCause
  <2> QED BY <2>1, <2>2, <2>3, <1>1
<1> QED
  BY <1>7, <1>8, <1>9, <1>10, <1>11, <1>12, <1>13, <1>14, <1>15, <1>16, <1>17, <1>18, <1>19 DEF ControlInv

\* A request that is over is a well-formed one.
LEMMA AtRestTyped == AtRest \in ReqRec /\ AtRest.pc = "idle" /\ AtRest.run = 0 /\ ~AtRest.mine /\ RequestKept(AtRest)
<1>1. AtRest \in ReqRec
  BY DEF AtRest, ReqRec, PCs, Answers, None
<1>2. /\ AtRest.pc = "idle" /\ AtRest.run = 0 /\ AtRest.mine = FALSE /\ AtRest.answer = None
      /\ AtRest.kind = None
  BY DEF AtRest
<1>3. AtRest.kind \notin {"act", "start", "status"}
  BY <1>2 DEF None
<1> HIDE DEF AtRest
<1> QED BY <1>1, <1>2, <1>3 DEF RequestKept, Launching

\* An answer: the guards, and a reservation that was not used, are given back.
LEMMA FinishKept ==
  ASSUME ControlInv, NEW t \in Threads, Finish(t)
  PROVE  ControlInv'
<1> USE OrderAssumption
<1>0. /\ Shape /\ RequestsKept /\ GuardsKept /\ ReservedKept /\ ActionsKept /\ EntriesKept
      /\ LaunchesKept /\ OwnLaunch /\ LooksKept /\ RunsWatched /\ AnswersKept /\ OverMeansDead
      /\ KilledForCause
  BY DEF ControlInv
<1> DEFINE p == request[t].run
           a == request[t].answer
           i == request[t].id
<1>1. request[t].pc = "answer" /\ mutex = None /\ UNCHANGED <<package, mutex, actions>>
  BY DEF Finish
<1>2. request' \in [Threads -> ReqRec] /\ request'[t] = AtRest /\ \A u \in Threads \ {t} : request'[u] = request[u]
  BY <1>0, AtRestTyped DEF Shape, Finish
<1>3. request'[t].pc = "idle" /\ request'[t].run = 0 /\ ~request'[t].mine /\ RequestKept(request'[t])
  BY <1>2, AtRestTyped
<1>4. /\ guard' \in [Components -> Threads \cup {None}]
      /\ \A u \in Threads \ {t}, c \in Components : guard[c] = u => guard'[c] = u
  BY <1>0, NoneAssumption DEF Shape, Finish
<1>5. \/ reserved' = reserved
      \/ request[t].mine /\ i \in reserved /\ reserved' = reserved \ {i}
  BY <1>0 DEF Finish, ReservedKept
<1>6. /\ runs' \in Seq(RunRec) /\ DOMAIN runs' = DOMAIN runs
      /\ \A o \in DOMAIN runs : /\ runs'[o].of = runs[o].of /\ runs'[o].kind = runs[o].kind
                                /\ runs'[o].root = runs[o].root
                                /\ runs'[o].rest = runs[o].rest /\ runs'[o].job = runs[o].job
                                /\ runs'[o].told = IF o = p THEN runs[o].told \cup ({a} \ {"running", "error"})
                                                   ELSE runs[o].told
  <2>1. CASE p = 0
    <3>1. \A o \in DOMAIN runs : o # p
      BY <2>1, <1>0 DEF Shape
    <3> QED BY <2>1, <3>1, <1>0 DEF Finish, Shape
  <2>2. CASE p # 0
    <3>1. p \in DOMAIN runs /\ a \in Answers /\ runs[p] \in RunRec /\ runs \in Seq(RunRec)
      BY <2>2, <1>0, <1>1 DEF AnswersKept, AnswerKept, Shape, ReqRec
    <3> DEFINE q == [runs[p] EXCEPT !.told = @ \cup ({a} \ {"running", "error"})]
    <3>2. q \in RunRec
      BY <3>1 DEF RunRec
    <3>3. /\ q.of = runs[p].of /\ q.kind = runs[p].kind /\ q.root = runs[p].root /\ q.rest = runs[p].rest
          /\ q.job = runs[p].job /\ q.told = runs[p].told \cup ({a} \ {"running", "error"})
      BY <3>1 DEF RunRec
    <3>4. runs' = [runs EXCEPT ![p] = q]
      BY <2>2, <3>1 DEF Finish
    <3> HIDE DEF q, p, a
    <3>5. /\ runs' \in Seq(RunRec) /\ DOMAIN runs' = DOMAIN runs /\ runs'[p] = q
          /\ \A o \in DOMAIN runs \ {p} : runs'[o] = runs[o]
      BY <3>1, <3>2, <3>4
    <3> QED BY <3>3, <3>5
  <2> QED BY <2>1, <2>2
<1> HIDE DEF p, a, i
<1>7. \A o \in DOMAIN runs : (Dead(o) <=> Dead(o)')
  BY <1>6 DEF Dead, AliveRoot
<1>8. Entries' = Entries /\ TrackedIds' = TrackedIds
  BY <1>1 DEF Entries, Elements, TrackedIds
<1>9. Shape'
  BY <1>0, <1>1, <1>2, <1>4, <1>5, <1>6 DEF Shape
<1>10. RequestsKept'
  BY <1>0, <1>2, <1>3 DEF RequestsKept
<1>11. GuardsKept'
  <2>1. \A u \in Threads : request[u].pc # "idle" => LockOrder[request[u].of] \in Components
    BY <1>0 DEF RequestsKept, RequestKept
  <2> QED BY <1>0, <1>2, <1>3, <1>4, <2>1 DEF GuardsKept
<1>12. ReservedKept'
  <2>1. IsFiniteSet(reserved')
    BY <1>0, <1>5, FS_RemoveElement DEF ReservedKept
  <2>2. ASSUME NEW u \in Threads \ {t}, request[u].mine PROVE request[u].id \in reserved'
    <3>1. request[u].id \in reserved
      BY <2>2, <1>0 DEF ReservedKept
    <3>2. request[t].mine => request[u].id # i
      BY <2>2, <1>0 DEF ReservedKept, i
    <3> QED BY <3>1, <3>2, <1>5
  <2> QED BY <1>0, <1>2, <1>3, <2>1, <2>2 DEF ReservedKept
<1>13. ActionsKept'
  <2>5. IsFiniteSet(reserved) /\ Cardinality(reserved) \in Nat
    BY <1>0, FS_CardinalityType DEF ReservedKept
  <2>6. i \in reserved => Cardinality(reserved \ {i}) = Cardinality(reserved) - 1 /\ IsFiniteSet(reserved \ {i})
    BY <2>5, FS_RemoveElement
  <2>7. IsFiniteSet(reserved')
    BY <1>5, <2>5, <2>6
  <2>1. /\ Cardinality(reserved') <= Cardinality(reserved) /\ Cardinality(reserved) \in Nat
        /\ Cardinality(reserved') \in Nat
    <3>1. Cardinality(reserved') \in Nat
      BY <2>7, FS_CardinalityType
    <3>2. reserved' = reserved \/ Cardinality(reserved') = Cardinality(reserved) - 1
      BY <1>5, <2>6
    <3> QED BY <2>5, <3>1, <3>2
  <2>2. Len(actions) \in Nat /\ MaxActive \in Nat
    BY <1>0, LookAssumption DEF Shape
  <2>3. Len(actions') + Cardinality(reserved') <= MaxActive
    BY <1>0, <1>1, <2>1, <2>2 DEF ActionsKept
  <2>4. \A e \in Entries : e.id \notin reserved'
    BY <1>0, <1>5 DEF ActionsKept
  <2> QED BY <1>0, <1>1, <1>8, <2>3, <2>4 DEF ActionsKept
<1>14. EntriesKept'
  BY <1>0, <1>6, <1>7, <1>8 DEF EntriesKept, EntryKept
<1>15. LaunchesKept'
  <2> SUFFICES ASSUME NEW u \in Threads, request'[u].pc \in Launching PROVE LaunchKept(request[u])'
    BY DEF LaunchesKept, LaunchKept
  <2>1. u # t /\ request'[u] = request[u] /\ LaunchKept(request[u])
    BY <1>0, <1>2, <1>3 DEF Launching, LaunchesKept
  <2>2. request[u].run \in DOMAIN runs
    BY <2>1 DEF LaunchKept
  <2> QED BY <2>1, <2>2, <1>6, ZenonT(40) DEF LaunchKept
<1>16. OwnLaunch'
  BY <1>0, <1>2, <1>3, <1>8 DEF OwnLaunch, Launching
<1>17. LooksKept'
  BY <1>0, <1>1, <1>2, <1>3, <1>8 DEF LooksKept, Listed
<1>18. RunsWatched'
  <2> SUFFICES ASSUME NEW o \in DOMAIN runs, runs'[o].kind = "act", runs'[o].root = "running" \/ runs'[o].rest
               PROVE  runs'[o].job /\ Watched(o)'
    BY <1>6 DEF RunsWatched
  <2>1. runs[o].job /\ Watched(o) /\ (runs'[o].job <=> runs[o].job)
    BY <1>0, <1>6 DEF RunsWatched
  <2>2. \A u \in Threads : request[u].pc \in Launching => request'[u] = request[u]
    BY <1>1, <1>2 DEF Launching
  <2> QED BY <2>1, <2>2, <1>8 DEF Watched
<1>19. AnswersKept'
  BY <1>0, <1>2, <1>3, <1>6, <1>7 DEF AnswersKept, AnswerKept
<1>20. OverMeansDead'
  <2> SUFFICES ASSUME NEW o \in DOMAIN runs, runs[o].kind = "act", runs'[o].told \cap Over # {} PROVE Dead(o)
    BY <1>6, <1>7 DEF OverMeansDead, Over
  <2>1. CASE runs[o].told \cap Over # {}
    BY <2>1, <1>0 DEF OverMeansDead, Over
  <2>2. CASE o = p /\ a \in Over
    <3>1. p # 0
      BY <2>2, <1>0 DEF Shape
    <3> QED BY <2>2, <3>1, <1>0, <1>1 DEF AnswersKept, AnswerKept, p, a
  <2> QED BY <2>1, <2>2, <1>6
<1>21. KilledForCause'
  <2> SUFFICES ASSUME NEW o \in DOMAIN runs, runs[o].root = "killed"
               PROVE  \/ runs'[o].told \cap {"refused", "blocked"} # {}
                      \/ \E u \in Threads : request'[u].run = o /\ request'[u].answer \in {"refused", "blocked"}
    <3>1. DOMAIN runs' = DOMAIN runs /\ \A o \in DOMAIN runs : runs'[o].root = runs[o].root
      BY <1>6
    <3> QED BY <3>1 DEF KilledForCause
  <2>1. \/ runs[o].told \cap {"refused", "blocked"} # {}
        \/ \E u \in Threads : request[u].run = o /\ request[u].answer \in {"refused", "blocked"}
    BY <1>0 DEF KilledForCause
  <2>2. CASE o = p /\ a \in {"refused", "blocked"}
    BY <2>2, <1>6
  <2>3. CASE runs[o].told \cap {"refused", "blocked"} # {}
    BY <2>3, <1>6
  <2> QED BY <2>1, <2>2, <2>3, <1>2 DEF p, a
<1> QED
  BY <1>9, <1>10, <1>11, <1>12, <1>13, <1>14, <1>15, <1>16, <1>17, <1>18, <1>19, <1>20, <1>21 DEF ControlInv

\* A package that is changed on disk concerns no launcher.
LEMMA ChangeKept ==
  ASSUME ControlInv, NEW c \in Components, Change(c)
  PROVE  ControlInv'
<1>1. /\ package' \in [Components -> Looks \cup {Gone}]
      /\ UNCHANGED <<guard, mutex, actions, reserved, runs, request>>
  BY DEF Change, ControlInv, Shape
<1>2. Entries' = Entries /\ TrackedIds' = TrackedIds
  BY <1>1 DEF Entries, Elements, TrackedIds
<1>3. Shape' /\ RequestsKept' /\ GuardsKept' /\ ReservedKept'
  BY <1>1 DEF ControlInv, Shape, RequestsKept, GuardsKept, ReservedKept
<1>4. ActionsKept' /\ EntriesKept' /\ LaunchesKept'
  BY <1>1, <1>2 DEF ControlInv, ActionsKept, EntriesKept, EntryKept, LaunchesKept, LaunchKept, Dead, AliveRoot
<1>5. OwnLaunch' /\ LooksKept' /\ RunsWatched'
  BY <1>1, <1>2 DEF ControlInv, OwnLaunch, LooksKept, Listed, RunsWatched, Watched
<1>6. AnswersKept' /\ OverMeansDead' /\ KilledForCause'
  BY <1>1 DEF ControlInv, AnswersKept, AnswerKept, OverMeansDead, KilledForCause, Dead, AliveRoot
<1> QED BY <1>3, <1>4, <1>5, <1>6 DEF ControlInv

\* Nobody works, nothing is tracked, and what runs needs no watching.
AllAtRest ==
  /\ package \in [Components -> Looks \cup {Gone}] /\ guard = [c \in Components |-> None] /\ mutex = None
  /\ actions = <<>> /\ reserved = {} /\ request = [t \in Threads |-> AtRest]
  /\ runs \in Seq(RunRec) /\ OverMeansDead
  /\ \A p \in DOMAIN runs : /\ runs[p].root # "killed"
                            /\ runs[p].kind = "act" => runs[p].root # "running" /\ ~runs[p].rest

\* When nothing is on, the invariant holds.
LEMMA QuietKept == AllAtRest => ControlInv
<1> SUFFICES ASSUME AllAtRest PROVE ControlInv
  OBVIOUS
<1> USE DEF AllAtRest
<1>1. \A t \in Threads : request[t] = AtRest
  OBVIOUS
<1>2. Entries = {} /\ TrackedIds = {} /\ Distinct(actions) /\ Len(actions) = 0 /\ actions \in Seq(ActRec)
  BY DEF Entries, Elements, TrackedIds, Distinct
<1>3. /\ AtRest \in ReqRec /\ AtRest.pc = "idle" /\ AtRest.run = 0 /\ AtRest.mine = FALSE
      /\ RequestKept(AtRest)
  BY AtRestTyped
<1> HIDE DEF AtRest
<1>4. Shape
  BY <1>1, <1>2, <1>3 DEF Shape
<1>5. RequestsKept /\ GuardsKept /\ LaunchesKept /\ OwnLaunch /\ LooksKept /\ AnswersKept
  BY <1>1, <1>3 DEF RequestsKept, GuardsKept, LaunchesKept, LaunchKept, OwnLaunch, LooksKept, AnswersKept,
     AnswerKept, Launching
<1>6. IsFiniteSet({}) /\ Cardinality({}) = 0
  BY FS_EmptySet
<1>7. ReservedKept
  BY <1>1, <1>3, <1>6 DEF ReservedKept
<1>8. ActionsKept /\ EntriesKept
  BY <1>2, <1>6, LookAssumption DEF ActionsKept, EntriesKept
<1>9. RunsWatched /\ KilledForCause
  BY DEF RunsWatched, KilledForCause
<1> QED BY <1>4, <1>5, <1>7, <1>8, <1>9 DEF ControlInv

\* The application dies, and with its handles the jobs end every tree:
\* nothing is on.
LEMMA DieKept ==
  ASSUME ControlInv, Die
  PROVE  ControlInv'
<1>0. Shape /\ RunsWatched /\ OverMeansDead /\ LaunchesKept
  BY DEF ControlInv
<1> DEFINE After(p) == [runs[p] EXCEPT !.root = IF @ = "killed" \/ (runs[p].job /\ AliveRoot(p)) THEN "lost" ELSE @,
                                       !.rest = @ /\ ~runs[p].job]
<1>1. runs' = [p \in DOMAIN runs |-> After(p)]
  BY DEF Die
<1>2. ASSUME NEW p \in DOMAIN runs
      PROVE  /\ After(p) \in RunRec /\ After(p).kind = runs[p].kind /\ After(p).told = runs[p].told
             /\ After(p).root # "killed"
             /\ runs[p].kind = "act" => After(p).root # "running" /\ ~After(p).rest
             /\ Dead(p) => DeadRun(After(p))
  <2>1. runs[p] \in RunRec
    BY <1>0 DEF Shape
  <2>2. /\ After(p).kind = runs[p].kind /\ After(p).told = runs[p].told
        /\ After(p).root = IF runs[p].root = "killed" \/ (runs[p].job /\ AliveRoot(p)) THEN "lost" ELSE runs[p].root
        /\ After(p).rest = (runs[p].rest /\ ~runs[p].job)
    BY <2>1 DEF RunRec
  <2>3. After(p) \in RunRec
    BY <2>1 DEF RunRec, Roots
  <2> HIDE DEF After
  <2>4. runs[p].kind = "act" /\ (runs[p].root = "running" \/ runs[p].rest) => runs[p].job
    BY <1>0 DEF RunsWatched
  <2> QED BY <2>1, <2>2, <2>3, <2>4 DEF Dead, DeadRun, AliveRoot, RunRec
<1> HIDE DEF After
<1>3. runs' \in Seq(RunRec) /\ DOMAIN runs' = DOMAIN runs /\ \A p \in DOMAIN runs : runs'[p] = After(p)
  <2>1. PICK n \in Nat : DOMAIN runs = 1 .. n
    BY <1>0, LenProperties DEF Shape
  <2>2. runs' \in [1 .. n -> RunRec]
    BY <1>1, <1>2, <2>1
  <2> QED BY <1>1, <2>1, <2>2
<1>4. OverMeansDead'
  BY <1>0, <1>2, <1>3 DEF OverMeansDead, Dead, AliveRoot, DeadRun
<1>5. /\ package' \in [Components -> Looks \cup {Gone}] /\ guard' = [c \in Components |-> None]
      /\ mutex' = None
      /\ actions' = <<>> /\ reserved' = {} /\ request' = [t \in Threads |-> AtRest]
  BY <1>0 DEF Die, Shape
<1>6. AllAtRest'
  BY <1>2, <1>3, <1>4, <1>5 DEF AllAtRest
<1> QED BY <1>6, QuietKept, PTL

\* What the end of a tree leaves of a launcher.
LEMMA KilledTree ==
  ASSUME Shape, NEW p \in DOMAIN runs, KillTree(p)
  PROVE  \E q \in RunRec :
           /\ runs' = [runs EXCEPT ![p] = q] /\ DeadRun(q)
           /\ q.kind = runs[p].kind /\ q.told = runs[p].told /\ q.job = runs[p].job
           /\ q.root = IF AliveRoot(p) THEN "killed" ELSE runs[p].root
<1> DEFINE q == [runs[p] EXCEPT !.root = IF AliveRoot(p) THEN "killed" ELSE @, !.rest = FALSE]
<1>1. runs[p] \in RunRec
  BY DEF Shape
<1>2. q \in RunRec
  BY <1>1 DEF RunRec, Roots
<1>3. /\ q.kind = runs[p].kind /\ q.told = runs[p].told /\ q.job = runs[p].job /\ ~q.rest
      /\ q.root = IF AliveRoot(p) THEN "killed" ELSE runs[p].root
  BY <1>1 DEF RunRec
<1>4. runs' = [runs EXCEPT ![p] = q]
  BY DEF KillTree
<1> HIDE DEF q
<1>5. DeadRun(q)
  BY <1>3 DEF DeadRun, AliveRoot
<1> WITNESS q \in RunRec
<1> QED BY <1>3, <1>4, <1>5

\* A request that arrives keeps the invariant.
LEMMA AskKept ==
  ASSUME ControlInv, NEW t \in Threads, NEW kind \in {"act", "start", "status", "all"}, AskControl(t, kind)
  PROVE  ControlInv'
<1> USE OrderAssumption
<1>1. PICK c \in DOMAIN LockOrder, i \in IF kind \in {"act", "status"} THEN ActionIds ELSE {None} :
        request' = [request EXCEPT ![t] = [AtRest EXCEPT !.pc = "enter", !.kind = kind, !.of = c, !.id = i]]
  BY DEF AskControl
<1> DEFINE r == [AtRest EXCEPT !.pc = "enter", !.kind = kind, !.of = c, !.id = i]
<1>2. AtRest \in ReqRec /\ AtRest.run = 0 /\ ~AtRest.mine /\ AtRest.answer = None
  BY AtRestTyped DEF AtRest
<1>9. kind # None
  BY DEF None
<1>3. c \in Nat /\ i \in ActionIds \cup {None} /\ (kind \in {"act", "status"} => i \in ActionIds)
  BY <1>1
<1> HIDE DEF AtRest
<1>4. /\ r \in ReqRec /\ r.pc = "enter" /\ r.of = c /\ r.kind = kind /\ r.id = i /\ r.run = 0
      /\ ~r.mine /\ r.answer = None
  BY <1>2, <1>3 DEF ReqRec, PCs
<1>5. request' = [request EXCEPT ![t] = r]
  BY <1>1
<1> HIDE DEF r
<1>6. RequestKept(r) /\ LaunchKept(r) /\ AnswerKept(r)
  BY <1>1, <1>3, <1>4, <1>9 DEF RequestKept, LaunchKept, AnswerKept, Launching
<1>7. request[t].pc = "idle" /\ UNCHANGED <<package, guard, mutex, reserved, actions, runs>>
  BY DEF AskControl
<1>8. guard' \in [Components -> Threads \cup {None}] /\ mutex' \in Threads \cup {None}
  BY <1>7 DEF ControlInv, Shape
<1> QED BY <1>4, <1>5, <1>6, <1>7, <1>8, OneRequest DEF Launching

\* A request that gets the guards of its components keeps the invariant.
LEMMA EnterKept ==
  ASSUME ControlInv, NEW t \in Threads, EnterGuard(t)
  PROVE  ControlInv'
<1> USE OrderAssumption
<1>1. /\ request[t] \in ReqRec /\ request[t].pc = "enter" /\ RequestKept(request[t])
      /\ request \in [Threads -> ReqRec]
  BY DEF EnterGuard, ControlInv, Shape, RequestsKept
<1> DEFINE c == LockOrder[request[t].of]
           all == request[t].kind = "all"
           last == request[t].of = Len(LockOrder)
           r == IF ~all THEN [request[t] EXCEPT !.pc = "resolve"]
                ELSE IF last THEN [request[t] EXCEPT !.pc = "answer", !.answer = "inside", !.seen = Gone, !.saw = Gone]
                ELSE [request[t] EXCEPT !.of = @ + 1]
<1>2. /\ request[t].of \in DOMAIN LockOrder /\ c \in Components /\ request[t].run = 0
      /\ ~request[t].mine /\ request[t].answer = None
  BY <1>1 DEF RequestKept, Launching
<1>3. guard[c] = None /\ guard' = [guard EXCEPT ![c] = t]
  BY DEF EnterGuard, NextGuard, GuardFree
<1>4. request' = [request EXCEPT ![t] = r]
  BY <1>1 DEF EnterGuard, To, Answer, Answered
<1>5. r \in ReqRec /\ r.run = 0 /\ ~r.mine /\ r.kind = request[t].kind /\ r.id = request[t].id
  <2>1. CASE ~all
    BY <2>1, <1>1, <1>2 DEF ReqRec, PCs, Answers
  <2>2. CASE all /\ last
    BY <2>2, <1>1, <1>2 DEF ReqRec, PCs, Answers
  <2>3. CASE all /\ ~last
    <3>1. request[t].of + 1 \in Nat
      BY <1>2
    <3> QED BY <2>3, <3>1, <1>1, <1>2 DEF ReqRec
  <2> QED BY <2>1, <2>2, <2>3
<1>6. \/ ~all /\ r.pc = "resolve" /\ r.of = request[t].of /\ r.answer = None
      \/ all /\ r.pc = "answer" /\ r.of = request[t].of
      \/ all /\ r.pc = "enter" /\ r.of \in DOMAIN LockOrder /\ r.answer = None
  <2>1. CASE ~all
    BY <2>1, <1>1, <1>2 DEF ReqRec
  <2>2. CASE all /\ last
    BY <2>2, <1>1, <1>2 DEF ReqRec
  <2>3. CASE all /\ ~last
    <3>1. request[t].of + 1 \in DOMAIN LockOrder
      BY <2>3, <1>2
    <3> QED BY <2>3, <3>1, <1>1, <1>2 DEF ReqRec
  <2> QED BY <2>1, <2>2, <2>3
<1>11. ~all => request[t].kind \in {"act", "start", "status"}
  BY <1>1 DEF RequestKept, ReqRec
<1> HIDE DEF r
<1>7. RequestKept(r) /\ LaunchKept(r) /\ AnswerKept(r)
  BY <1>1, <1>2, <1>5, <1>6, <1>11 DEF RequestKept, LaunchKept, AnswerKept, Launching
<1>8. UNCHANGED <<package, mutex, reserved, actions, runs>>
  BY DEF EnterGuard
<1>9. /\ guard' \in [Components -> Threads \cup {None}] /\ mutex' \in Threads \cup {None} /\ guard'[c] = t
      /\ \A u \in Threads \ {t}, d \in Components : guard[d] = u => guard'[d] = u
  BY <1>2, <1>3, <1>8, NoneAssumption DEF ControlInv, Shape
<1>10. r.pc \notin {"idle", "enter"} => guard'[LockOrder[r.of]] = t
  BY <1>6, <1>9
<1> HIDE DEF c
<1> QED BY <1>1, <1>2, <1>4, <1>5, <1>6, <1>7, <1>8, <1>9, <1>10, OneRequest DEF Launching

\* The request is over, and nothing else happened.
LEMMA AnswerStep ==
  ASSUME ControlInv, NEW t \in Threads, NEW a \in Answers, request' = Answered(t, a),
         UNCHANGED <<package, guard, mutex, reserved, actions, runs>>,
         \/ request[t].pc \in {"resolve", "inspect", "reserve", "spawn", "lookup"}
         \/ request[t].pc = "handshake" /\ request[t].kind = "start"
  PROVE  ControlInv'
<1>1. /\ request[t] \in ReqRec /\ RequestKept(request[t]) /\ LaunchKept(request[t])
      /\ request \in [Threads -> ReqRec]
      /\ guard[LockOrder[request[t].of]] = t
  BY DEF ControlInv, Shape, RequestsKept, LaunchesKept, GuardsKept
<1> DEFINE r == [request[t] EXCEPT !.pc = "answer", !.answer = a, !.seen = Gone, !.saw = Gone]
<1>2. request' = [request EXCEPT ![t] = r]
  BY <1>1 DEF Answered
<1>3. /\ r \in ReqRec /\ r.pc = "answer" /\ r.of = request[t].of /\ r.kind = request[t].kind
      /\ r.id = request[t].id /\ r.mine = request[t].mine /\ r.run = request[t].run
  BY <1>1 DEF ReqRec, PCs
<1> HIDE DEF r
<1>4. RequestKept(r) /\ LaunchKept(r)
  BY <1>1, <1>3 DEF RequestKept, LaunchKept, Launching
<1>5. AnswerKept(r)
  BY <1>1, <1>3 DEF AnswerKept, RequestKept, LaunchKept, Launching
<1>6. guard' \in [Components -> Threads \cup {None}] /\ mutex' \in Threads \cup {None}
  BY DEF ControlInv, Shape
<1> QED BY <1>1, <1>2, <1>3, <1>4, <1>5, <1>6, OneRequest DEF Launching

\* A request that resolves its package keeps the invariant.
LEMMA ResolveKept ==
  ASSUME ControlInv, NEW t \in Threads, ResolveLocator(t)
  PROVE  ControlInv'
<1>1. /\ request[t] \in ReqRec /\ RequestKept(request[t]) /\ request \in [Threads -> ReqRec]
      /\ request[t].pc = "resolve" /\ UNCHANGED <<package, guard, mutex, reserved, actions, runs>>
  BY DEF ResolveLocator, ControlInv, Shape, RequestsKept
<1>2. /\ guard[LockOrder[request[t].of]] = t /\ Of(t) \in Components
      /\ package \in [Components -> Looks \cup {Gone}]
  BY <1>1, OrderAssumption DEF ControlInv, Shape, GuardsKept, RequestKept, Of
<1>3. CASE request' = Answered(t, "unmanageable")
  BY <1>1, <1>3, AnswerStep DEF Answers
<1>4. CASE request[t].kind \in {"start", "act", "status"} /\ ~(request' = Answered(t, "unmanageable"))
  <2>5. request[t].kind = "status" \/ request[t].kind \in {"act", "start"}
    BY <1>4
  <2> DEFINE r == [request[t] EXCEPT !.seen = package[Of(t)],
                                     !.pc = IF request[t].kind = "status" THEN "lookup" ELSE "inspect"]
  <2>1. request' = [request EXCEPT ![t] = r]
    BY <1>1, <1>4 DEF ResolveLocator, Answer, Descriptor
  <2>2. /\ r \in ReqRec /\ r.of = request[t].of /\ r.kind = request[t].kind
        /\ r.id = request[t].id /\ r.mine = request[t].mine /\ r.run = request[t].run
        /\ r.answer = request[t].answer
        /\ r.pc = IF request[t].kind = "status" THEN "lookup" ELSE "inspect"
    BY <1>1, <1>2 DEF ReqRec, PCs
  <2> HIDE DEF r
  <2>3. RequestKept(r) /\ LaunchKept(r) /\ AnswerKept(r)
    BY <1>1, <2>2, <2>5 DEF RequestKept, LaunchKept, AnswerKept, Launching
  <2>4. guard' \in [Components -> Threads \cup {None}] /\ mutex' \in Threads \cup {None}
    BY <1>1 DEF ControlInv, Shape
  <2> QED BY <1>1, <1>2, <2>1, <2>2, <2>3, <2>4, OneRequest DEF Launching
<1> QED BY <1>1, <1>3, <1>4 DEF RequestKept

\* A request that inspects the descriptor keeps the invariant.
LEMMA InspectKept ==
  ASSUME ControlInv, NEW t \in Threads, Inspect(t)
  PROVE  ControlInv'
<1>1. /\ request[t] \in ReqRec /\ RequestKept(request[t]) /\ request \in [Threads -> ReqRec]
      /\ request[t].pc = "inspect" /\ UNCHANGED <<package, guard, mutex, reserved, actions, runs>>
  BY DEF Inspect, ControlInv, Shape, RequestsKept
<1>2. /\ guard[LockOrder[request[t].of]] = t /\ Of(t) \in Components
      /\ package \in [Components -> Looks \cup {Gone}]
  BY <1>1, OrderAssumption DEF ControlInv, Shape, GuardsKept, RequestKept, Of
<1>3. CASE request' = Answered(t, "refused")
  BY <1>1, <1>3, AnswerStep DEF Answers
<1>4. CASE ~(request' = Answered(t, "refused"))
  <2> DEFINE r == [request[t] EXCEPT !.saw = package[Of(t)], !.seen = Gone,
                                     !.pc = IF request[t].kind = "act" THEN "reserve" ELSE "spawn"]
  <2>1. request' = [request EXCEPT ![t] = r]
    BY <1>1, <1>4 DEF Inspect, Answer, Descriptor
  <2>2. /\ r \in ReqRec /\ r.of = request[t].of /\ r.kind = request[t].kind
        /\ r.id = request[t].id /\ r.mine = request[t].mine /\ r.run = request[t].run
        /\ r.answer = request[t].answer
        /\ r.pc = IF request[t].kind = "act" THEN "reserve" ELSE "spawn"
    BY <1>1, <1>2 DEF ReqRec, PCs
  <2> HIDE DEF r
  <2>3. RequestKept(r) /\ LaunchKept(r) /\ AnswerKept(r)
    BY <1>1, <2>2 DEF RequestKept, LaunchKept, AnswerKept, Launching
  <2>4. guard' \in [Components -> Threads \cup {None}] /\ mutex' \in Threads \cup {None}
    BY <1>1 DEF ControlInv, Shape
  <2> QED BY <1>1, <1>2, <2>1, <2>2, <2>3, <2>4, OneRequest DEF Launching
<1> QED BY <1>3, <1>4

\* A reservation, with an old entry dropped when there is no room, keeps the
\* invariant.
LEMMA ReserveKept ==
  ASSUME ControlInv, NEW t \in Threads, Reserve(t)
  PROVE  ControlInv'
<1> DEFINE i == request[t].id
           r == [request[t] EXCEPT !.pc = "spawn", !.mine = TRUE]
<1>1. /\ request[t] \in ReqRec /\ RequestKept(request[t]) /\ request \in [Threads -> ReqRec]
      /\ request[t].pc = "reserve" /\ mutex = None /\ UNCHANGED <<package, guard, mutex>>
  BY DEF Reserve, ControlInv, Shape, RequestsKept
<1>2. request[t].kind = "act" /\ i \in ActionIds /\ request[t].run = 0 /\ request[t].answer = None
  BY <1>1 DEF RequestKept
<1>3. CASE Answer(t, "refused") /\ UNCHANGED <<actions, reserved, runs>>
  BY <1>1, <1>3, AnswerStep DEF Answers, Answer
<1>4. /\ r \in ReqRec /\ r.pc = "spawn" /\ r.of = request[t].of /\ r.id = i /\ r.kind = "act"
      /\ r.mine = TRUE /\ r.run = 0 /\ r.answer = None
  BY <1>1, <1>2 DEF ReqRec, PCs
<1> HIDE DEF r
<1>5. RequestKept(r)
  BY <1>1, <1>2, <1>4 DEF RequestKept, Launching
<1>6. /\ actions \in Seq(ActRec) /\ Distinct(actions) /\ IsFiniteSet(TrackedIds)
      /\ Cardinality(TrackedIds) = Len(actions)
      /\ Len(actions) \in Nat /\ Len(actions) + Cardinality(reserved) <= MaxActive /\ MaxActive \in Nat
      /\ runs \in Seq(RunRec) /\ IsFiniteSet(reserved) /\ Cardinality(reserved) \in Nat
  BY LookAssumption, FS_CardinalityType DEF ControlInv, Shape, ActionsKept, ReservedKept
<1>7. i \notin reserved => IsFiniteSet(reserved \cup {i}) /\ Cardinality(reserved \cup {i}) = Cardinality(reserved) + 1
  BY <1>6, FS_AddElement
<1>8. CASE /\ ~Taken(i) /\ ~Full /\ reserved' = reserved \cup {i}
           /\ request' = [request EXCEPT ![t].pc = "spawn", ![t].mine = TRUE] /\ UNCHANGED <<actions, runs>>
  <2>1. request' = [request EXCEPT ![t] = r]
    BY <1>1, <1>8 DEF r
  <2>2. i \in ActionIds \ (TrackedIds \cup reserved)
    BY <1>2, <1>8 DEF Taken
  <2>3. TrackedIds' = TrackedIds /\ Entries' = Entries \ {}
    BY <1>8 DEF TrackedIds, Entries, Elements
  <2>4. Len(actions') + Cardinality(reserved') <= MaxActive
    BY <1>6, <1>7, <1>8, <2>2 DEF Full
  <2>5. {} \in SUBSET Entries
    OBVIOUS
  <2>6. /\ actions' \in Seq(ActRec) /\ Distinct(actions') /\ IsFiniteSet(TrackedIds')
        /\ Cardinality(TrackedIds') = Len(actions') /\ runs' \in Seq(RunRec)
    BY <1>6, <1>8, <2>3
  <2> HIDE DEF i
  <2> QED BY <1>1, <1>4, <1>5, <1>8, <2>1, <2>2, <2>3, <2>4, <2>5, <2>6, OneReservation
<1>9. ASSUME NEW k \in DOMAIN actions, ~Taken(i), Full, Completed(k), CloseJob(actions[k].run),
             actions' = Dropped(k), reserved' = reserved \cup {i},
             request' = [request EXCEPT ![t].pc = "spawn", ![t].mine = TRUE]
      PROVE  ControlInv'
  <2> DEFINE d == actions[k]
  <2>1. request' = [request EXCEPT ![t] = r]
    BY <1>1, <1>9 DEF r
  <2>2. i \in ActionIds \ (TrackedIds \cup reserved)
    BY <1>2, <1>9 DEF Taken
  <2>3. /\ actions' \in Seq(ActRec) /\ Len(actions') = Len(actions) - 1
        /\ Elements(actions') = Elements(actions) \ {d} /\ Distinct(actions')
    BY <1>6, <1>9, Removed DEF Dropped
  <2>4. Entries' = Entries \ {d} /\ d \in Entries
    BY <2>3 DEF Entries, Elements
  <2>5. TrackedIds' = TrackedIds \ {d.id} /\ d.id \in TrackedIds
    <3>1. TrackedIds = {x.id : x \in Entries} /\ TrackedIds' = {x.id : x \in Entries'}
      BY DEF TrackedIds, Entries, Elements
    <3>2. \A x \in Entries \ {d} : x.id # d.id
      BY <1>6 DEF Entries, Elements, Distinct
    <3> QED BY <2>4, <3>1, <3>2
  <2>6. IsFiniteSet(TrackedIds') /\ Cardinality(TrackedIds') = Len(actions')
    <3>1. IsFiniteSet(TrackedIds \ {d.id}) /\ Cardinality(TrackedIds \ {d.id}) = Cardinality(TrackedIds) - 1
      BY <1>6, <2>5, FS_RemoveElement
    <3> QED BY <1>6, <2>3, <2>5, <3>1
  <2>7. Len(actions') + Cardinality(reserved') <= MaxActive
    BY <1>6, <1>7, <1>9, <2>2, <2>3
  <2>8. d.run \in DOMAIN runs /\ ~AliveRoot(d.run)
    BY <1>9, <2>4 DEF Completed, ControlInv, EntriesKept, EntryKept
  <2> HIDE DEF i, d
  <2>9. PICK q \in RunRec :
          /\ runs' = [runs EXCEPT ![d.run] = q] /\ DeadRun(q)
          /\ q.kind = runs[d.run].kind /\ q.told = runs[d.run].told /\ q.job = runs[d.run].job
          /\ q.root = IF AliveRoot(d.run) THEN "killed" ELSE runs[d.run].root
    <3>1. KillTree(d.run)
      BY <1>9 DEF CloseJob, d
    <3>2. Shape
      BY DEF ControlInv
    <3> QED BY <2>8, <3>1, <3>2, KilledTree
  <2>10. /\ runs' \in Seq(RunRec) /\ DOMAIN runs' = DOMAIN runs /\ runs'[d.run] = q
         /\ \A o \in DOMAIN runs \ {d.run} : runs'[o] = runs[o]
    BY <1>6, <2>8, <2>9
  <2>11. \A o \in DOMAIN runs : /\ runs'[o].kind = runs[o].kind /\ runs'[o].told = runs[o].told
                                /\ runs'[o].job = runs[o].job /\ runs'[o].root = runs[o].root
                                /\ (runs'[o].rest => runs[o].rest)
    BY <2>8, <2>9, <2>10 DEF DeadRun
  <2>12. \A x \in {d} : Dead(x.run)'
    BY <2>9, <2>10 DEF Dead, DeadRun, AliveRoot
  <2>13. {d} \in SUBSET Entries
    BY <2>4
  <2> QED BY <1>1, <1>4, <1>5, <1>9, <2>1, <2>2, <2>3, <2>4, <2>6, <2>7, <2>10, <2>11, <2>12, <2>13, OneReservation
<1>10. \/ Answer(t, "refused") /\ UNCHANGED <<actions, reserved, runs>>
       \/ /\ ~Taken(i) /\ ~Full /\ reserved' = reserved \cup {i}
          /\ request' = [request EXCEPT ![t].pc = "spawn", ![t].mine = TRUE] /\ UNCHANGED <<actions, runs>>
       \/ \E k \in DOMAIN actions :
            /\ ~Taken(i) /\ Full /\ Completed(k) /\ CloseJob(actions[k].run) /\ actions' = Dropped(k)
            /\ reserved' = reserved \cup {i}
            /\ request' = [request EXCEPT ![t].pc = "spawn", ![t].mine = TRUE]
  BY DEF Reserve
<1> QED BY <1>3, <1>8, <1>9, <1>10

\* A launcher that is created suspended keeps the invariant.
LEMMA SpawnKept ==
  ASSUME ControlInv, NEW t \in Threads, SpawnLauncher(t)
  PROVE  ControlInv'
<1>1. /\ request[t] \in ReqRec /\ RequestKept(request[t]) /\ request \in [Threads -> ReqRec]
      /\ runs \in Seq(RunRec)
      /\ request[t].pc = "spawn" /\ UNCHANGED <<package, guard, mutex, actions, reserved>>
  BY DEF SpawnLauncher, ControlInv, Shape, RequestsKept
<1>2. /\ request[t].kind \in {"act", "start"} /\ Of(t) \in Components
      /\ request[t].answer = None
  BY <1>1, OrderAssumption DEF RequestKept, Of
<1>3. CASE Answer(t, "refused") /\ UNCHANGED runs
  BY <1>1, <1>3, AnswerStep DEF Answers, Answer
<1> DEFINE q == [of |-> Of(t), kind |-> request[t].kind, root |-> Created(request[t].kind),
                 rest |-> FALSE, job |-> FALSE, told |-> {}]
           r == [request[t] EXCEPT !.run = Len(runs) + 1, !.pc = IF request[t].kind = "act" THEN "assign" ELSE "handshake"]
<1>4. CASE runs' = Append(runs, q) /\ request' = [request EXCEPT ![t].run = Len(runs) + 1,
                         ![t].pc = IF request[t].kind = "act" THEN "assign" ELSE "handshake"]
  <2>1. request' = [request EXCEPT ![t] = r]
    BY <1>1, <1>4
  <2>2. Created(request[t].kind) \in Roots \ {"killed"} /\ (request[t].kind = "act" => Created(request[t].kind) = "suspended")
    BY <1>2 DEF Created, Roots
  <2> HIDE DEF Created
  <2>3. /\ q \in RunRec /\ q.kind = request[t].kind /\ q.root = Created(request[t].kind)
        /\ q.rest = FALSE /\ q.told = {} /\ (request[t].kind = "act" => q.root = "suspended")
    BY <1>2, <2>2 DEF RunRec
  <2>4. Len(runs) + 1 \in Nat
    BY <1>1
  <2>5. /\ r \in ReqRec /\ r.of = request[t].of /\ r.kind = request[t].kind /\ r.run = Len(runs) + 1
        /\ r.id = request[t].id /\ r.mine = request[t].mine /\ r.answer = request[t].answer
        /\ r.pc = IF request[t].kind = "act" THEN "assign" ELSE "handshake"
    BY <1>1, <2>4 DEF ReqRec, PCs
  <2>6. runs' = Append(runs, q)
    BY <1>4
  <2> HIDE DEF q, r
  <2>7. RequestKept(r)
    BY <1>1, <1>2, <2>5 DEF RequestKept, Launching
  <2>8. \/ r.kind = "act" /\ r.pc = "assign" /\ q.root = "suspended"
        \/ r.kind = "start" /\ r.pc = "handshake"
    <3>1. CASE request[t].kind = "act"
      BY <3>1, <2>2, <2>3, <2>5
    <3>2. CASE request[t].kind = "start"
      BY <3>2, <2>5
    <3> QED BY <1>2, <3>1, <3>2
  <2>9. ~q.rest /\ q.root # "killed" /\ r.kind = q.kind /\ (r.mine => request[t].mine)
    BY <2>2, <2>3, <2>5
  <2> QED BY <1>1, <2>1, <2>3, <2>5, <2>6, <2>7, <2>8, <2>9, LaunchedKept
<1>5. \/ Answer(t, "refused") /\ UNCHANGED runs
      \/ runs' = Append(runs, q) /\ request' = [request EXCEPT ![t].run = Len(runs) + 1,
                         ![t].pc = IF request[t].kind = "act" THEN "assign" ELSE "handshake"]
  BY DEF SpawnLauncher
<1> QED BY <1>3, <1>4, <1>5

\* The launch is over, and its tree was ended: it is refused, or was done.
LEMMA LaunchEnded ==
  ASSUME ControlInv, NEW t \in Threads, NEW a \in {"done", "refused"}, request' = Answered(t, a),
         UNCHANGED <<package, guard, mutex, reserved, actions>>,
         request[t].pc \in {"assign", "resume", "handshake"}, request[t].kind = "act",
         KillTree(request[t].run), a = "done" => runs[request[t].run].root = "exit-0"
  PROVE  ControlInv'
<1>1. /\ request[t] \in ReqRec /\ RequestKept(request[t]) /\ LaunchKept(request[t])
      /\ request \in [Threads -> ReqRec]
      /\ Shape
  BY DEF ControlInv, Shape, RequestsKept, LaunchesKept
<1> DEFINE r == [request[t] EXCEPT !.pc = "answer", !.answer = a, !.seen = Gone, !.saw = Gone]
<1>2. request' = [request EXCEPT ![t] = r]
  BY <1>1 DEF Answered
<1>3. /\ r \in ReqRec /\ r.pc = "answer" /\ r.of = request[t].of /\ r.kind = request[t].kind /\ r.answer = a
      /\ r.id = request[t].id /\ r.mine = request[t].mine /\ r.run = request[t].run
  BY <1>1 DEF ReqRec, PCs, Answers
<1> HIDE DEF r
<1>4. RequestKept(r)
  BY <1>1, <1>3 DEF RequestKept, Launching
<1>5. r.run \in DOMAIN runs
  BY <1>1, <1>3 DEF LaunchKept, Launching
<1>6. PICK q \in RunRec :
        /\ runs' = [runs EXCEPT ![r.run] = q] /\ DeadRun(q)
        /\ q.kind = runs[r.run].kind /\ q.told = runs[r.run].told /\ q.job = runs[r.run].job
        /\ q.root = IF AliveRoot(r.run) THEN "killed" ELSE runs[r.run].root
  <2>1. KillTree(r.run)
    BY <1>3
  <2> QED BY <2>1, <1>1, <1>5, KilledTree
<1>7. q.root = "killed" => runs[r.run].root = "killed" \/ r.answer \in {"refused", "blocked"}
  BY <1>3, <1>6 DEF AliveRoot
<1> QED BY <1>1, <1>2, <1>3, <1>4, <1>6, <1>7, OwnRun DEF Launching

\* A launcher that is put into its job, or not, keeps the invariant.
LEMMA AssignKept ==
  ASSUME ControlInv, NEW t \in Threads, Assign(t)
  PROVE  ControlInv'
<1> DEFINE p == request[t].run
<1>1. /\ request[t] \in ReqRec /\ RequestKept(request[t]) /\ request \in [Threads -> ReqRec]
      /\ runs \in Seq(RunRec)
      /\ LaunchKept(request[t])
      /\ request[t].pc = "assign" /\ UNCHANGED <<package, guard, mutex, actions, reserved>>
  BY DEF Assign, ControlInv, Shape, RequestsKept, LaunchesKept
<1>2. /\ request[t].kind = "act" /\ p \in DOMAIN runs /\ runs[p].root = "suspended" /\ ~runs[p].rest
      /\ runs[p] \in RunRec
  BY <1>1 DEF RequestKept, LaunchKept, Launching
<1>3. CASE EndLaunch(p) /\ Answer(t, "refused")
  <2>1. KillTree(request[t].run) /\ request' = Answered(t, "refused")
    BY <1>3 DEF EndLaunch, Answer
  <2> QED BY <1>1, <1>2, <2>1, LaunchEnded
<1>4. CASE runs' = [runs EXCEPT ![p].job = TRUE] /\ To(t, "resume")
  <2> DEFINE q == [runs[p] EXCEPT !.job = TRUE]
             r == [request[t] EXCEPT !.pc = "resume"]
  <2>1. request' = [request EXCEPT ![t] = r] /\ runs' = [runs EXCEPT ![p] = q]
    BY <1>1, <1>2, <1>4 DEF To
  <2>2. /\ q \in RunRec /\ q.kind = runs[p].kind /\ q.root = runs[p].root /\ q.rest = runs[p].rest
        /\ q.job = TRUE /\ q.told = runs[p].told
    BY <1>2 DEF RunRec
  <2>3. /\ r \in ReqRec /\ r.pc = "resume" /\ r.of = request[t].of /\ r.kind = request[t].kind
        /\ r.answer = request[t].answer
        /\ r.id = request[t].id /\ r.mine = request[t].mine /\ r.run = p
    BY <1>1 DEF ReqRec, PCs
  <2> HIDE DEF q, r
  <2>4. RequestKept(r)
    BY <1>1, <2>3 DEF RequestKept, Launching
  <2>5. ~Dead(p)
    BY <1>2 DEF Dead, AliveRoot
  <2> QED BY <1>1, <1>2, <2>1, <2>2, <2>3, <2>4, <2>5, OwnRun DEF Launching
<1> QED BY <1>3, <1>4 DEF Assign

\* A launcher that is let run, or not, keeps the invariant.
LEMMA ResumeKept ==
  ASSUME ControlInv, NEW t \in Threads, Resume(t)
  PROVE  ControlInv'
<1> DEFINE p == request[t].run
<1>1. /\ request[t] \in ReqRec /\ RequestKept(request[t]) /\ request \in [Threads -> ReqRec]
      /\ runs \in Seq(RunRec)
      /\ LaunchKept(request[t])
      /\ request[t].pc = "resume" /\ UNCHANGED <<package, guard, mutex, actions, reserved>>
  BY DEF Resume, ControlInv, Shape, RequestsKept, LaunchesKept
<1>2. /\ request[t].kind = "act" /\ p \in DOMAIN runs /\ runs[p].root = "suspended" /\ ~runs[p].rest
      /\ runs[p] \in RunRec
      /\ runs[p].job
  BY <1>1 DEF RequestKept, LaunchKept, Launching
<1>3. CASE EndLaunch(p) /\ Answer(t, "refused")
  <2>1. KillTree(request[t].run) /\ request' = Answered(t, "refused")
    BY <1>3 DEF EndLaunch, Answer
  <2> QED BY <1>1, <1>2, <2>1, LaunchEnded
<1>4. CASE runs' = [runs EXCEPT ![p].root = IF @ = "suspended" THEN "running" ELSE @] /\ To(t, "handshake")
  <2> DEFINE q == [runs[p] EXCEPT !.root = "running"]
             r == [request[t] EXCEPT !.pc = "handshake"]
  <2>1. request' = [request EXCEPT ![t] = r] /\ runs' = [runs EXCEPT ![p] = q]
    BY <1>1, <1>2, <1>4 DEF To
  <2>2. /\ q \in RunRec /\ q.kind = runs[p].kind /\ q.root = "running" /\ q.rest = runs[p].rest
        /\ q.job = runs[p].job /\ q.told = runs[p].told
    BY <1>2 DEF RunRec, Roots
  <2>3. /\ r \in ReqRec /\ r.pc = "handshake" /\ r.of = request[t].of /\ r.kind = request[t].kind
        /\ r.answer = request[t].answer
        /\ r.id = request[t].id /\ r.mine = request[t].mine /\ r.run = p
    BY <1>1 DEF ReqRec, PCs
  <2> HIDE DEF q, r
  <2>4. RequestKept(r)
    BY <1>1, <1>2, <2>3 DEF RequestKept, Launching
  <2>5. ~Dead(p)
    BY <1>2 DEF Dead, AliveRoot
  <2> QED BY <1>1, <1>2, <2>1, <2>2, <2>3, <2>4, <2>5, OwnRun DEF Launching
<1> QED BY <1>3, <1>4 DEF Resume

\* A launcher that answers, or does not, keeps the invariant.
LEMMA HandshakeKept ==
  ASSUME ControlInv, NEW t \in Threads, Handshake(t)
  PROVE  ControlInv'
<1> DEFINE p == request[t].run
<1>1. /\ request[t] \in ReqRec /\ RequestKept(request[t]) /\ request \in [Threads -> ReqRec]
      /\ LaunchKept(request[t]) /\ guard[LockOrder[request[t].of]] = t
      /\ request[t].pc = "handshake" /\ request[t].kind = "act"
      /\ UNCHANGED <<package, guard, mutex, actions, reserved>>
  BY DEF Handshake, ControlInv, Shape, RequestsKept, LaunchesKept, GuardsKept
<1>2. CASE runs[p].root = "exit-0" /\ CloseJob(p) /\ \E a \in {"done", "refused"} : Answer(t, a)
  <2>1. PICK a \in {"done", "refused"} : request' = Answered(t, a)
    BY <1>2 DEF Answer
  <2>2. KillTree(request[t].run)
    BY <1>2 DEF CloseJob
  <2> QED BY <1>1, <1>2, <2>1, <2>2, LaunchEnded
<1>3. CASE EndLaunch(p) /\ Answer(t, "refused")
  <2>1. KillTree(request[t].run) /\ request' = Answered(t, "refused")
    BY <1>3 DEF EndLaunch, Answer
  <2> QED BY <1>1, <2>1, LaunchEnded
<1>4. CASE To(t, "commit") /\ UNCHANGED runs
  <2> DEFINE r == [request[t] EXCEPT !.pc = "commit"]
  <2>1. request' = [request EXCEPT ![t] = r]
    BY <1>1, <1>4 DEF To
  <2>2. /\ r \in ReqRec /\ r.pc = "commit" /\ r.of = request[t].of /\ r.kind = request[t].kind
        /\ r.answer = request[t].answer
        /\ r.id = request[t].id /\ r.mine = request[t].mine /\ r.run = p
    BY <1>1 DEF ReqRec, PCs
  <2> HIDE DEF r
  <2>3. RequestKept(r) /\ LaunchKept(r) /\ AnswerKept(r)
    BY <1>1, <2>2 DEF RequestKept, LaunchKept, AnswerKept, Launching
  <2>4. guard' \in [Components -> Threads \cup {None}] /\ mutex' \in Threads \cup {None}
    BY <1>1 DEF ControlInv, Shape
  <2> QED BY <1>1, <1>4, <2>1, <2>2, <2>3, <2>4, OneRequest DEF Launching
<1> QED BY <1>2, <1>3, <1>4 DEF Handshake

\* A service that is started, or is not, keeps the invariant.
LEMMA StartHandshakeKept ==
  ASSUME ControlInv, NEW t \in Threads, StartHandshake(t)
  PROVE  ControlInv'
<1> DEFINE p == request[t].run
<1>1. /\ request[t] \in ReqRec /\ RequestKept(request[t]) /\ request \in [Threads -> ReqRec]
      /\ runs \in Seq(RunRec)
      /\ LaunchKept(request[t])
      /\ request[t].pc = "handshake" /\ request[t].kind = "start"
      /\ UNCHANGED <<package, guard, mutex, actions, reserved>>
  BY DEF StartHandshake, ControlInv, Shape, RequestsKept, LaunchesKept
<1>2. p \in DOMAIN runs /\ runs[p].kind = "start" /\ runs[p] \in RunRec
  BY <1>1 DEF LaunchKept, Launching
<1>3. ASSUME NEW a \in {"done", "refused", "running"}, Answer(t, a), UNCHANGED runs
      PROVE  ControlInv'
  <2>1. a \in Answers
    BY DEF Answers
  <2> QED BY <1>1, <1>3, <2>1, AnswerStep DEF Answer
<1>4. CASE EndLauncher(p) /\ Answer(t, "refused")
  <2> DEFINE q == [runs[p] EXCEPT !.root = IF AliveRoot(p) THEN "killed" ELSE @]
             r == [request[t] EXCEPT !.pc = "answer", !.answer = "refused", !.seen = Gone, !.saw = Gone]
  <2>1. request' = [request EXCEPT ![t] = r] /\ runs' = [runs EXCEPT ![p] = q]
    BY <1>1, <1>2, <1>4 DEF Answer, Answered, EndLauncher
  <2>2. /\ q \in RunRec /\ q.kind = runs[p].kind /\ q.root = (IF AliveRoot(p) THEN "killed" ELSE runs[p].root)
        /\ q.rest = runs[p].rest /\ q.job = runs[p].job /\ q.told = runs[p].told
    BY <1>2 DEF RunRec, Roots
  <2>3. /\ r \in ReqRec /\ r.pc = "answer" /\ r.of = request[t].of /\ r.kind = request[t].kind
        /\ r.answer = "refused"
        /\ r.id = request[t].id /\ r.mine = request[t].mine /\ r.run = p
    BY <1>1 DEF ReqRec, PCs, Answers
  <2> HIDE DEF q, r
  <2>4. RequestKept(r)
    BY <1>1, <2>3 DEF RequestKept, Launching
  <2>5. Dead(p) => DeadRun(q)
    BY <2>2 DEF Dead, DeadRun, AliveRoot
  <2>6. runs' = [runs EXCEPT ![r.run] = q] /\ q.kind = runs[r.run].kind /\ q.told = runs[r.run].told /\ (Dead(r.run) => DeadRun(q))
    BY <2>1, <2>2, <2>3, <2>5
  <2>7. request[t].pc \in Launching /\ r.pc \notin Launching /\ r.kind # "act" /\ r.run = request[t].run
    BY <1>1, <2>3 DEF Launching
  <2> QED BY <1>1, <2>1, <2>2, <2>3, <2>4, <2>6, <2>7, OwnRun
<1>5. \/ \E a \in {"done", "refused", "running"} : Answer(t, a) /\ UNCHANGED runs
      \/ EndLauncher(p) /\ Answer(t, "refused")
  BY DEF StartHandshake
<1> QED BY <1>3, <1>4, <1>5

\* The answer of a request about an action, after which the action is the
\* last one, and may be blocked.
LEMMA AboutAction ==
  ASSUME ControlInv, NEW t \in Threads, NEW a \in Answers, NEW n \in Nat,
         \/ request' = [Answered(t, a) EXCEPT ![t].run = n]
         \/ request' = Answered(t, a) /\ n = request[t].run,
         UNCHANGED <<package, guard, reserved>>, mutex \in {t, None}, mutex' = None,
         request[t].pc \in {"lookup", "look", "poll"}, NEW d \in Entries, n = d.run,
         NEW b \in BOOLEAN,
         \/ actions' = ToEnd(Tracked(d.id), [d EXCEPT !.blocked = b])
         \/ b = d.blocked /\ UNCHANGED actions,
         NEW q \in RunRec, runs' = [runs EXCEPT ![d.run] = q], q = runs[d.run] \/ DeadRun(q),
         q.kind = runs[d.run].kind, q.told = runs[d.run].told, q.job = runs[d.run].job,
         b => DeadRun(q), a \in Over => DeadRun(q),
         q.root = "killed" => runs[d.run].root = "killed" \/ a \in {"refused", "blocked"}
  PROVE  ControlInv'
<1>1. /\ request[t] \in ReqRec /\ RequestKept(request[t]) /\ request \in [Threads -> ReqRec]
      /\ actions \in Seq(ActRec) /\ Distinct(actions)
  BY DEF ControlInv, Shape, RequestsKept, ActionsKept
<1>2. Tracked(d.id) \in DOMAIN actions /\ actions[Tracked(d.id)] = d
  BY TheTracked
<1> HIDE DEF Tracked
<1>3. d \in ActRec
  BY <1>1, <1>2
<1> DEFINE r == [request[t] EXCEPT !.pc = "answer", !.answer = a, !.seen = Gone, !.saw = Gone, !.run = n]
           e == [d EXCEPT !.blocked = b]
<1>4. request' = [request EXCEPT ![t] = r]
  <2>1. CASE request' = [Answered(t, a) EXCEPT ![t].run = n]
    BY <1>1, <2>1 DEF Answered
  <2>2. CASE request' = Answered(t, a) /\ n = request[t].run
    <3> DEFINE f == [request[t] EXCEPT !.pc = "answer", !.answer = a, !.seen = Gone, !.saw = Gone]
    <3>1. request' = [request EXCEPT ![t] = f]
      BY <1>1, <2>2 DEF Answered
    <3>2. f = r
      BY <1>1, <2>2 DEF ReqRec
    <3> QED BY <3>1, <3>2
  <2> QED BY <2>1, <2>2
<1>5. /\ r \in ReqRec /\ r.pc = "answer" /\ r.of = request[t].of /\ r.kind = request[t].kind /\ r.answer = a
      /\ r.id = request[t].id /\ r.mine = request[t].mine /\ r.run = n
  BY <1>1 DEF ReqRec, PCs
<1>6. e \in ActRec /\ e.id = d.id /\ e.run = d.run /\ e.blocked = b
  BY <1>3 DEF ActRec
<1>7. b = d.blocked => e = d
  BY <1>3 DEF ActRec
<1>8. \/ actions' = ToEnd(Tracked(d.id), e)
      \/ e = d /\ actions' = actions
  BY <1>7
<1> HIDE DEF r, e
<1>9. RequestKept(r) /\ ~r.mine
  BY <1>1, <1>5 DEF RequestKept, Launching
<1>10. /\ actions' \in Seq(ActRec) /\ Distinct(actions') /\ Len(actions') = Len(actions)
       /\ Elements(actions') = (Entries \ {d}) \cup {e}
  <2>1. CASE actions' = ToEnd(Tracked(d.id), e)
    BY <1>1, <1>2, <1>6, <2>1, Moved DEF ToEnd, Dropped, Entries
  <2>2. CASE e = d /\ actions' = actions
    BY <1>1, <2>2 DEF Entries
  <2> QED BY <1>8, <2>1, <2>2
<1>11. /\ r.run = d.run /\ (e.blocked => DeadRun(q)) /\ (r.answer \in Over => DeadRun(q))
       /\ (q.root = "killed" => runs[d.run].root = "killed" \/ r.answer \in {"refused", "blocked"})
  BY <1>5, <1>6
<1> HIDE DEF Over, DeadRun
<1> QED BY <1>4, <1>5, <1>6, <1>9, <1>10, <1>11, OneAction

\* The tracked action that a request has found
LEMMA FoundAction ==
  ASSUME ControlInv, NEW t \in Threads, request[t].pc \in {"look", "poll"}
  PROVE  /\ mutex = t /\ request[t].run \in Nat
         /\ Tracked(request[t].id) \in DOMAIN actions /\ actions[Tracked(request[t].id)] \in Entries
         /\ actions[Tracked(request[t].id)].id = request[t].id
         /\ actions[Tracked(request[t].id)].run = request[t].run
         /\ request[t].run \in DOMAIN runs /\ runs[request[t].run] \in RunRec
         /\ actions[Tracked(request[t].id)] \in ActRec
         /\ actions[Tracked(request[t].id)].blocked => Dead(request[t].run)
<1>1. /\ mutex = t /\ Listed(request[t]) /\ request[t] \in ReqRec /\ runs \in Seq(RunRec)
      /\ actions \in Seq(ActRec) /\ EntriesKept
  BY DEF ControlInv, LooksKept, Shape
<1>2. PICK e \in Entries : e.id = request[t].id /\ e.run = request[t].run
  BY <1>1 DEF Listed
<1>3. Tracked(e.id) \in DOMAIN actions /\ actions[Tracked(e.id)] = e
  BY TheTracked
<1> HIDE DEF Tracked
<1> QED BY <1>1, <1>2, <1>3 DEF EntriesKept, EntryKept, ReqRec

\* A request that looks for its action keeps the invariant.
LEMMA LookupKept ==
  ASSUME ControlInv, NEW t \in Threads, Lookup(t)
  PROVE  ControlInv'
<1> DEFINE k == Tracked(request[t].id)
           d == actions[k]
<1>1. /\ request[t] \in ReqRec /\ RequestKept(request[t]) /\ request \in [Threads -> ReqRec]
      /\ request[t].pc = "lookup" /\ mutex = None /\ UNCHANGED <<package, guard, reserved, runs>>
      /\ runs \in Seq(RunRec) /\ actions \in Seq(ActRec) /\ EntriesKept
      /\ guard[LockOrder[request[t].of]] = t
  BY DEF Lookup, ControlInv, Shape, RequestsKept, GuardsKept
<1>2. CASE Answer(t, "unknown") /\ UNCHANGED <<mutex, actions>>
  BY <1>1, <1>2, AnswerStep DEF Answers, Answer
<1>3. ASSUME NEW j \in DOMAIN actions, actions[j].id = request[t].id
      PROVE  k \in DOMAIN actions /\ d \in Entries /\ d.id = request[t].id /\ d \in ActRec
             /\ d.run \in DOMAIN runs /\ runs[d.run] \in RunRec /\ (d.blocked => Dead(d.run)) /\ d.run \in Nat
  <2>1. actions[j] \in Entries
    BY DEF Entries, Elements
  <2>2. Tracked(request[t].id) \in DOMAIN actions /\ actions[Tracked(request[t].id)] = actions[j]
    BY <1>3, <2>1, TheTracked
  <2> HIDE DEF Tracked
  <2>5. k \in DOMAIN actions /\ d = actions[j]
    BY <2>2
  <2>6. actions[j] \in ActRec
    BY <1>1
  <2>3. /\ k \in DOMAIN actions /\ d = actions[j] /\ d \in Entries /\ d.id = request[t].id
        /\ d \in ActRec /\ d.run \in Nat
    BY <1>3, <2>1, <2>5, <2>6 DEF ActRec
  <2> HIDE DEF d, k
  <2>4. EntryKept(d)
    BY <1>1, <2>3 DEF EntriesKept
  <2> QED BY <1>1, <2>3, <2>4 DEF EntryKept
<1>4. ASSUME NEW j \in DOMAIN actions, actions[j].id = request[t].id, d.blocked,
             actions' = ToEnd(k, d),
             request' = [Answered(t, "blocked") EXCEPT ![t].run = d.run], UNCHANGED mutex
      PROVE  ControlInv'
  <2>1. /\ k \in DOMAIN actions /\ d \in Entries /\ d.id = request[t].id /\ d \in ActRec
        /\ d.run \in DOMAIN runs /\ runs[d.run] \in RunRec /\ (d.blocked => Dead(d.run)) /\ d.run \in Nat
    BY <1>3, <1>4
  <2>2. d = [d EXCEPT !.blocked = TRUE]
    BY <1>4, <2>1 DEF ActRec
  <2>3. runs' = [runs EXCEPT ![d.run] = runs[d.run]] /\ DeadRun(runs[d.run])
    BY <1>1, <1>4, <2>1 DEF Dead, DeadRun, AliveRoot
  <2>4. actions' = ToEnd(Tracked(d.id), [d EXCEPT !.blocked = TRUE])
    BY <1>4, <2>1, <2>2
  <2>5. "blocked" \in Answers /\ TRUE \in BOOLEAN
    BY DEF Answers
  <2>6. mutex' = None /\ request' = [Answered(t, "blocked") EXCEPT ![t].run = d.run]
    BY <1>1, <1>4
  <2>7. /\ UNCHANGED <<package, guard, reserved>> /\ mutex \in {t, None}
        /\ request[t].pc \in {"lookup", "look", "poll"}
        /\ runs[d.run] \in RunRec /\ d \in Entries /\ d.run \in Nat
    BY <1>1, <2>1
  <2> HIDE DEF d, k, Over
  <2> QED BY <2>3, <2>4, <2>5, <2>6, <2>7, AboutAction
<1>5. ASSUME NEW j \in DOMAIN actions, actions[j].id = request[t].id, mutex' = t,
             request' = [request EXCEPT ![t].pc = "look", ![t].run = d.run, ![t].seen = Gone], UNCHANGED actions
      PROVE  ControlInv'
  <2> DEFINE r == [request[t] EXCEPT !.pc = "look", !.run = d.run, !.seen = Gone]
  <2>1. d \in Entries /\ d.id = request[t].id /\ d.run \in Nat
    BY <1>3, <1>5
  <2>2. request' = [request EXCEPT ![t] = r]
    BY <1>1, <1>5
  <2> HIDE DEF d
  <2>3. /\ r \in ReqRec /\ r.pc = "look" /\ r.of = request[t].of /\ r.kind = request[t].kind
        /\ r.answer = request[t].answer
        /\ r.id = request[t].id /\ r.mine = request[t].mine /\ r.run = d.run
    BY <1>1, <2>1 DEF ReqRec, PCs
  <2> HIDE DEF r
  <2>4. RequestKept(r) /\ LaunchKept(r) /\ AnswerKept(r)
    BY <1>1, <2>3 DEF RequestKept, LaunchKept, AnswerKept, Launching
  <2>5. guard' \in [Components -> Threads \cup {None}] /\ mutex' \in Threads \cup {None}
    BY <1>1, <1>5 DEF ControlInv, Shape
  <2>6. Listed(r)
    BY <2>1, <2>3 DEF Listed
  <2>7. \A u \in Threads \ {t} : mutex = u => mutex' = u
    BY <1>1, NoneAssumption
  <2> QED BY <1>1, <1>5, <2>2, <2>3, <2>4, <2>5, <2>6, <2>7, OneRequest DEF Launching
<1>6. \/ Answer(t, "unknown") /\ UNCHANGED <<mutex, actions>>
      \/ /\ \E j \in DOMAIN actions : actions[j].id = request[t].id
         /\ \/ /\ d.blocked /\ actions' = ToEnd(k, d)
               /\ request' = [Answered(t, "blocked") EXCEPT ![t].run = d.run] /\ UNCHANGED mutex
            \/ /\ mutex' = t /\ UNCHANGED actions
               /\ request' = [request EXCEPT ![t].pc = "look", ![t].run = d.run, ![t].seen = Gone]
  <2> HIDE DEF Tracked
  <2> QED BY DEF Lookup
<1> HIDE DEF k, d
<1> QED BY <1>2, <1>4, <1>5, <1>6

\* A request that looks at the package of its action keeps the invariant.
LEMMA LookKept ==
  ASSUME ControlInv, NEW t \in Threads, Look(t)
  PROVE  ControlInv'
<1> DEFINE k == Tracked(request[t].id)
           d == actions[k]
<1>1. /\ request[t] \in ReqRec /\ RequestKept(request[t]) /\ request \in [Threads -> ReqRec]
      /\ request[t].pc = "look" /\ UNCHANGED <<package, guard, reserved>>
      /\ runs \in Seq(RunRec) /\ actions \in Seq(ActRec) /\ guard[LockOrder[request[t].of]] = t /\ LooksKept
  BY DEF Look, ControlInv, Shape, RequestsKept, GuardsKept
<1>2. /\ mutex = t /\ k \in DOMAIN actions /\ d \in Entries /\ d.id = request[t].id /\ d \in ActRec
      /\ d.run = request[t].run /\ d.run \in DOMAIN runs /\ runs[d.run] \in RunRec /\ d.run \in Nat
  BY <1>1, FoundAction
<1> HIDE DEF Tracked
<1>3. CASE To(t, "poll") /\ UNCHANGED <<actions, runs, mutex>>
  <2> DEFINE r == [request[t] EXCEPT !.pc = "poll"]
  <2>1. request' = [request EXCEPT ![t] = r]
    BY <1>1, <1>3 DEF To
  <2>2. /\ r \in ReqRec /\ r.pc = "poll" /\ r.of = request[t].of /\ r.kind = request[t].kind
        /\ r.answer = request[t].answer
        /\ r.id = request[t].id /\ r.mine = request[t].mine /\ r.run = request[t].run
    BY <1>1 DEF ReqRec, PCs
  <2> HIDE DEF r
  <2>3. RequestKept(r) /\ LaunchKept(r) /\ AnswerKept(r)
    BY <1>1, <2>2 DEF RequestKept, LaunchKept, AnswerKept, Launching
  <2>4. guard' \in [Components -> Threads \cup {None}] /\ mutex' \in Threads \cup {None}
    BY <1>1, <1>3 DEF ControlInv, Shape
  <2>5. Listed(r)
    BY <1>1, <2>2 DEF Listed, LooksKept
  <2> HIDE DEF d, k
  <2> QED BY <1>1, <1>2, <1>3, <2>1, <2>2, <2>3, <2>4, <2>5, OneRequest DEF Launching
<1>4. CASE /\ actions' = ToEnd(k, [d EXCEPT !.blocked = TRUE]) /\ EndBlocked(d.run)
           /\ Answer(t, "blocked") /\ mutex' = None
  <2>1. actions' = ToEnd(Tracked(d.id), [d EXCEPT !.blocked = TRUE])
    BY <1>2, <1>4
  <2>2. request' = Answered(t, "blocked") /\ d.run = request[t].run
    BY <1>1, <1>2, <1>4 DEF Answer
  <2>3. "blocked" \in Answers /\ TRUE \in BOOLEAN
    BY DEF Answers
  <2> HIDE DEF d, k
  <2>4. PICK q \in RunRec :
          /\ runs' = [runs EXCEPT ![d.run] = q] /\ DeadRun(q)
          /\ q.kind = runs[d.run].kind /\ q.told = runs[d.run].told /\ q.job = runs[d.run].job
          /\ q.root = IF AliveRoot(d.run) THEN "killed" ELSE runs[d.run].root
    <3>1. KillTree(d.run) /\ Shape
      BY <1>4 DEF EndBlocked, ControlInv
    <3> QED BY <1>2, <3>1, KilledTree
  <2> QED BY <1>1, <1>2, <1>4, <2>1, <2>2, <2>3, <2>4, AboutAction
<1>5. \/ To(t, "poll") /\ UNCHANGED <<actions, runs, mutex>>
      \/ /\ actions' = ToEnd(k, [d EXCEPT !.blocked = TRUE]) /\ EndBlocked(d.run)
         /\ Answer(t, "blocked") /\ mutex' = None
  BY DEF Look
<1> QED BY <1>3, <1>4, <1>5

\* A request that asks for the end of its action keeps the invariant.
LEMMA PollKept ==
  ASSUME ControlInv, NEW t \in Threads, Poll(t)
  PROVE  ControlInv'
<1> DEFINE k == Tracked(request[t].id)
           d == actions[k]
<1>1. /\ request[t] \in ReqRec /\ request \in [Threads -> ReqRec]
      /\ request[t].pc = "poll" /\ UNCHANGED <<package, guard, reserved>> /\ mutex' = None
      /\ runs \in Seq(RunRec)
  BY DEF Poll, ControlInv, Shape
<1>2. /\ mutex = t /\ k \in DOMAIN actions /\ d \in Entries /\ d.id = request[t].id /\ d \in ActRec
      /\ d.run = request[t].run /\ d.run \in DOMAIN runs /\ runs[d.run] \in RunRec /\ d.run \in Nat
      /\ (d.blocked => Dead(d.run))
  BY <1>1, FoundAction
<1> HIDE DEF Tracked
<1>3. d.blocked \in BOOLEAN /\ d = [d EXCEPT !.blocked = d.blocked]
  BY <1>2 DEF ActRec
<1>4. d.blocked => DeadRun(runs[d.run])
  BY <1>2 DEF Dead, DeadRun, AliveRoot
<1>5. ASSUME NEW a \in {"error", "running"}, Answer(t, a), UNCHANGED runs, actions' = actions \/ actions' = ToEnd(k, d)
      PROVE  ControlInv'
  <2>1. request' = Answered(t, a) /\ d.run = request[t].run
    BY <1>1, <1>2, <1>5 DEF Answer
  <2>2. \/ actions' = ToEnd(Tracked(d.id), [d EXCEPT !.blocked = d.blocked])
        \/ d.blocked = d.blocked /\ UNCHANGED actions
    BY <1>2, <1>3, <1>5
  <2>3. a \in Answers /\ a \notin Over
    BY DEF Answers, Over
  <2>4. runs' = [runs EXCEPT ![d.run] = runs[d.run]]
    BY <1>1, <1>5
  <2> HIDE DEF d, k
  <2> QED BY <1>1, <1>2, <1>3, <1>4, <2>1, <2>2, <2>3, <2>4, AboutAction
<1>6. ASSUME NEW a \in {"done", "failed"}, Answer(t, a), ~AliveRoot(d.run), CloseTracked(d.run), actions' = ToEnd(k, d)
      PROVE  ControlInv'
  <2>1. request' = Answered(t, a) /\ d.run = request[t].run
    BY <1>1, <1>2, <1>6 DEF Answer
  <2>2. actions' = ToEnd(Tracked(d.id), [d EXCEPT !.blocked = d.blocked])
    BY <1>2, <1>3, <1>6
  <2>3. a \in Answers
    BY DEF Answers
  <2> HIDE DEF d, k
  <2>4. PICK q \in RunRec :
          /\ runs' = [runs EXCEPT ![d.run] = q] /\ DeadRun(q)
          /\ q.kind = runs[d.run].kind /\ q.told = runs[d.run].told /\ q.job = runs[d.run].job
          /\ q.root = IF AliveRoot(d.run) THEN "killed" ELSE runs[d.run].root
    <3>1. KillTree(d.run) /\ Shape
      BY <1>6 DEF CloseTracked, CloseJob, ControlInv
    <3> QED BY <1>2, <3>1, KilledTree
  <2>5. q.root = "killed" => runs[d.run].root = "killed"
    BY <1>6, <2>4
  <2> QED BY <1>1, <1>2, <1>3, <2>1, <2>2, <2>3, <2>4, <2>5, AboutAction
<1>7. \/ \E a \in {"error", "running"} : Answer(t, a) /\ UNCHANGED runs /\ (actions' = actions \/ actions' = ToEnd(k, d))
      \/ \E a \in {"done", "failed"} : Answer(t, a) /\ ~AliveRoot(d.run) /\ CloseTracked(d.run) /\ actions' = ToEnd(k, d)
  BY DEF Poll
<1> HIDE DEF d, k
<1> QED BY <1>5, <1>6, <1>7

\* A launcher that starts another process keeps the invariant.
LEMMA ForkKept ==
  ASSUME ControlInv, NEW p \in DOMAIN runs, Fork(p)
  PROVE  ControlInv'
<1> DEFINE q == [runs[p] EXCEPT !.rest = TRUE]
<1>1. runs[p].root = "running" /\ UNCHANGED <<package, guard, mutex, actions, reserved, request>>
      /\ runs' = [runs EXCEPT ![p] = q] /\ runs[p] \in RunRec
  BY DEF Fork, ControlInv, Shape
<1>2. /\ q \in RunRec /\ q.root = runs[p].root /\ q.kind = runs[p].kind /\ q.told = runs[p].told
      /\ q.job = runs[p].job
  BY <1>1 DEF RunRec
<1> HIDE DEF q
<1> QED BY <1>1, <1>2, OneLauncher

\* A launcher that ends by itself keeps the invariant.
LEMMA ExitKept ==
  ASSUME ControlInv, NEW p \in DOMAIN runs, NEW code \in {"exit-0", "exit-1"}, Exit(p, code)
  PROVE  ControlInv'
<1> DEFINE q == [runs[p] EXCEPT !.root = code]
<1>1. runs[p].root = "running" /\ UNCHANGED <<package, guard, mutex, actions, reserved, request>>
      /\ runs' = [runs EXCEPT ![p] = q] /\ runs[p] \in RunRec
  BY DEF Exit, ControlInv, Shape
<1>2. /\ q \in RunRec /\ q.root = code /\ q.kind = runs[p].kind /\ q.told = runs[p].told
      /\ q.job = runs[p].job
  BY <1>1 DEF RunRec, Roots
<1>3. code \notin {"suspended", "killed"}
  OBVIOUS
<1> HIDE DEF q
<1> QED BY <1>1, <1>2, <1>3, OneLauncher

\* Every step keeps the invariant.
LEMMA ControlStep == ControlInv /\ [ControlNext]_controlVars => ControlInv'
<1> SUFFICES ASSUME ControlInv, [ControlNext]_controlVars PROVE ControlInv'
  OBVIOUS
<1>1. CASE UNCHANGED controlVars
  <2>1. UNCHANGED <<package, guard, mutex, actions, reserved, runs, request>>
    BY <1>1 DEF controlVars
  <2>2. Entries' = Entries /\ TrackedIds' = TrackedIds
    BY <2>1 DEF Entries, Elements, TrackedIds
  <2>3. Shape' /\ RequestsKept' /\ GuardsKept' /\ ReservedKept'
    BY <2>1 DEF ControlInv, Shape, RequestsKept, GuardsKept, ReservedKept
  <2>4. ActionsKept' /\ EntriesKept' /\ LaunchesKept'
    BY <2>1, <2>2 DEF ControlInv, ActionsKept, EntriesKept, EntryKept, LaunchesKept, LaunchKept, Dead, AliveRoot
  <2>5. OwnLaunch' /\ LooksKept' /\ RunsWatched'
    BY <2>1, <2>2 DEF ControlInv, OwnLaunch, LooksKept, Listed, RunsWatched, Watched
  <2>6. AnswersKept' /\ OverMeansDead' /\ KilledForCause'
    BY <2>1 DEF ControlInv, AnswersKept, AnswerKept, OverMeansDead, KilledForCause, Dead, AliveRoot
  <2> QED BY <2>3, <2>4, <2>5, <2>6 DEF ControlInv
<1>2. ASSUME NEW t \in Threads, RequestStep(t) PROVE ControlInv'
  <2>1. CASE EnterGuard(t) BY <2>1, EnterKept
  <2>2. CASE ResolveLocator(t) BY <2>2, ResolveKept
  <2>3. CASE Inspect(t) BY <2>3, InspectKept
  <2>4. CASE Reserve(t) BY <2>4, ReserveKept
  <2>5. CASE SpawnLauncher(t) BY <2>5, SpawnKept
  <2>6. CASE Assign(t) BY <2>6, AssignKept
  <2>7. CASE Resume(t) BY <2>7, ResumeKept
  <2>8. CASE Handshake(t) BY <2>8, HandshakeKept
  <2>9. CASE StartHandshake(t) BY <2>9, StartHandshakeKept
  <2>10. CASE Commit(t) BY <2>10, CommitKept
  <2>11. CASE Lookup(t) BY <2>11, LookupKept
  <2>12. CASE Look(t) BY <2>12, LookKept
  <2>13. CASE Poll(t) BY <2>13, PollKept
  <2>14. CASE Finish(t) BY <2>14, FinishKept
  <2> QED
    BY <1>2, <2>1, <2>2, <2>3, <2>4, <2>5, <2>6, <2>7, <2>8, <2>9, <2>10, <2>11, <2>12, <2>13,
       <2>14 DEF RequestStep
<1>3. ASSUME NEW t \in Threads, NEW kind \in {"act", "start", "status", "all"}, AskControl(t, kind) PROVE ControlInv'
  BY <1>3, AskKept
<1>4. ASSUME NEW p \in DOMAIN runs, Fork(p) PROVE ControlInv'
  BY <1>4, ForkKept
<1>5. ASSUME NEW p \in DOMAIN runs, NEW code \in {"exit-0", "exit-1"}, Exit(p, code) PROVE ControlInv'
  BY <1>5, ExitKept
<1>6. ASSUME NEW c \in Components, Change(c) PROVE ControlInv'
  BY <1>6, ChangeKept
<1>7. CASE Die
  BY <1>7, DieKept
<1> QED BY <1>1, <1>2, <1>3, <1>4, <1>5, <1>6, <1>7 DEF ControlNext

\* At first the invariant holds.
LEMMA ControlStart == ControlInit => ControlInv
<1> SUFFICES ASSUME ControlInit PROVE AllAtRest
  BY QuietKept
<1>1. runs = <<>> /\ runs \in Seq(RunRec) /\ DOMAIN runs = {}
  BY DEF ControlInit
<1>2. OverMeansDead
  BY <1>1 DEF OverMeansDead
<1>3. package \in [Components -> Looks \cup {Gone}]
  BY LookAssumption DEF ControlInit
<1> QED BY <1>1, <1>2, <1>3 DEF AllAtRest, ControlInit

\* What the invariant says of the launches
LEMMA ControlInvSays == ControlInv => LaunchesAccounted
<1> SUFFICES ASSUME ControlInv PROVE LaunchesAccounted
  OBVIOUS
<1>0. /\ Shape /\ RequestsKept /\ GuardsKept /\ ReservedKept /\ ActionsKept /\ EntriesKept
      /\ RunsWatched /\ OverMeansDead /\ KilledForCause
  BY DEF ControlInv
<1>1. \A k \in DOMAIN actions : actions[k] \in Entries /\ actions[k] \in ActRec
  BY <1>0 DEF Entries, Elements, Shape
<1>2. ControlTypeOK
  <2>1. TrackedIds \subseteq ActionIds
    BY <1>1 DEF TrackedIds, ActRec
  <2>2. \A k \in DOMAIN actions : actions[k].run \in DOMAIN runs
    BY <1>0, <1>1 DEF EntriesKept, EntryKept
  <2> QED BY <1>0, <2>1, <2>2 DEF ControlTypeOK, Shape, GuardsKept, Of
<1>3. ActionsBounded
  <2>1. TrackedIds \cap reserved = {}
    BY <1>0, <1>1 DEF TrackedIds, ActionsKept
  <2> QED BY <1>0, <2>1 DEF ActionsBounded, ActionsKept
<1>4. NothingRunsUnwatched
  <2> SUFFICES ASSUME NEW p \in DOMAIN runs, runs[p].kind = "act", runs[p].root = "running" \/ runs[p].rest
               PROVE  \/ \E k \in DOMAIN actions : actions[k].run = p
                      \/ \E t \in Threads : request[t].run = p /\ request[t].pc # "answer"
    BY DEF NothingRunsUnwatched
  <2>1. Watched(p)
    BY <1>0 DEF RunsWatched
  <2> QED BY <2>1 DEF Watched, Entries, Elements, Launching
<1> QED BY <1>0, <1>2, <1>3, <1>4 DEF LaunchesAccounted

\* The inductive invariant of the launchers and the requests.
THEOREM ControlInvariant == ControlSpec => []ControlInv
<1> QED BY ControlStart, ControlStep, PTL DEF ControlSpec

\* Everything a launch has started is accounted for, from its creation to its
\* reported end, for any number of requests, ends of the application and
\* changed packages, and at every limit.
THEOREM LaunchesKnown == ControlSpec => []LaunchesAccounted
<1> QED BY ControlInvariant, ControlInvSays, PTL

-----------------------------------------------------------------------------
(***************************************************************************)
(* The read of a control file that is replaced meanwhile.                  *)
(***************************************************************************)

\* What is recorded of the files and of the read.
FileRec == [one : Nat, two : Nat, stamp : Nat]

ReadRec == [pc : {"parents", "file", "missing", "absent", "none", "open", "one", "two", "handle", "path", "again",
                  "bytes", "refused"},
            try : Nat, folder : Nat, file : Nat, stamp : Nat, open : Nat, one : Nat, two : Nat, named : Nat \X Nat]

\* The files are well formed, and the read is of files that exist.
ReadTyped ==
  /\ folder \in Nat /\ writes \in Nat
  /\ files \in Seq(FileRec) /\ here \in 0..Len(files)
  /\ read \in ReadRec

\* A file is never older than what was seen of it, nor newer than the last
\* write.
StampsKept ==
  /\ \A f \in DOMAIN files : files[f].stamp <= writes
  /\ read.pc \in {"open", "one", "two", "handle", "path"} => read.file \in DOMAIN files /\ read.stamp <= files[read.file].stamp

\* As long as the file bears the time it had, what was read of it is there.
HalvesKept ==
  /\ read.pc \in {"one", "two", "handle", "path"} => read.open = read.file
  /\ read.pc \in {"two", "handle", "path"} /\ files[read.open].stamp = read.stamp => read.one = files[read.open].one
  /\ read.pc \in {"handle", "path"} /\ files[read.open].stamp = read.stamp => read.two = files[read.open].two

\* The inductive invariant of the read.
ReadInv == ReadTyped /\ StampsKept /\ HalvesKept /\ ReadIsCurrent

\* A read that begins is a well-formed one.
LEMMA NoReadTyped == NoRead \in ReadRec /\ NoRead.pc = "parents"
BY DEF NoRead, ReadRec

\* A read that begins again, or is refused, keeps the invariant.
LEMMA AgainKept ==
  ASSUME ReadInv, Again
  PROVE  read' \in ReadRec /\ read'.pc \in {"parents", "refused"}
<1>1. read \in ReadRec
  BY DEF ReadInv, ReadTyped
<1>2. CASE read.try < Retries
  <2>1. read' = [NoRead EXCEPT !.try = read.try + 1] /\ read.try + 1 \in Nat
    BY <1>1, <1>2 DEF Again, ReadRec
  <2> QED BY <2>1, NoReadTyped DEF ReadRec
<1>3. CASE ~(read.try < Retries)
  BY <1>1, <1>3 DEF Again, ReadRec
<1> QED BY <1>2, <1>3

\* Every step of the read keeps the invariant.
LEMMA ReadStepKept ==
  ASSUME ReadInv, ReadStep
  PROVE  ReadInv'
<1>0. ReadTyped /\ StampsKept /\ HalvesKept /\ ReadIsCurrent
  BY DEF ReadInv
<1>1. /\ UNCHANGED <<folder, here, files, writes>> /\ read \in ReadRec
      /\ here # 0 => here \in DOMAIN files
  BY <1>0 DEF ReadStep, SnapParents, SnapFile, Missing, Absent, OpenFile, ReadOne, ReadTwo, CheckHandle,
     CheckPath,
              CheckParents, Quiet, ReadTyped
<1>2. \A f \in DOMAIN files : files[f] \in FileRec /\ files[f].one \in Nat /\ files[f].two \in Nat /\ files[f].stamp \in Nat
  <2>1. \A f \in DOMAIN files : files[f] \in FileRec
    BY <1>0 DEF ReadTyped
  <2> QED BY <2>1 DEF FileRec
<1>3. ASSUME read' \in ReadRec, read'.pc \in {"parents", "file", "missing", "absent", "none", "refused"} PROVE ReadInv'
  BY <1>0, <1>1, <1>3 DEF ReadInv, ReadTyped, StampsKept, HalvesKept, ReadIsCurrent
<1>4. ASSUME Again PROVE ReadInv'
  BY <1>3, <1>4, AgainKept
<1>5. CASE SnapParents
  BY <1>0, <1>1, <1>3, <1>5 DEF SnapParents, ReadTyped, ReadRec
<1>6. CASE SnapFile
  <2>1. CASE here = 0
    BY <1>1, <1>3, <1>6, <2>1 DEF SnapFile, ReadRec
  <2>2. CASE here # 0
    <3>1. /\ read' = [read EXCEPT !.pc = "open", !.file = here, !.stamp = files[here].stamp]
          /\ here \in Nat /\ files[here].stamp \in Nat
      BY <1>0, <1>1, <1>2, <1>6, <2>2 DEF SnapFile, ReadTyped
    <3>2. read' \in ReadRec /\ read'.pc = "open" /\ read'.file = here /\ read'.stamp = files[here].stamp
      BY <1>1, <3>1 DEF ReadRec
    <3> QED BY <1>0, <1>1, <2>2, <3>1, <3>2 DEF ReadInv, ReadTyped, StampsKept, HalvesKept, ReadIsCurrent
  <2> QED BY <2>1, <2>2
<1>7. CASE Missing
  BY <1>1, <1>3, <1>4, <1>7 DEF Missing, At, ReadRec
<1>8. CASE Absent
  BY <1>1, <1>3, <1>4, <1>8 DEF Absent, At, ReadRec
<1>9. CASE OpenFile
  <2>1. CASE here = read.file /\ files[here].stamp = read.stamp
    <3>1. read' = [read EXCEPT !.pc = "one", !.open = here] /\ here \in Nat /\ read.pc = "open"
      BY <1>0, <1>9, <2>1 DEF OpenFile, ReadTyped
    <3>2. /\ read' \in ReadRec /\ read'.pc = "one" /\ read'.open = here /\ read'.file = read.file
          /\ read'.stamp = read.stamp
      BY <1>1, <3>1 DEF ReadRec
    <3> QED BY <1>0, <1>1, <2>1, <3>1, <3>2 DEF ReadInv, ReadTyped, StampsKept, HalvesKept, ReadIsCurrent
  <2> QED BY <1>4, <1>9, <2>1 DEF OpenFile
<1>10. CASE ReadOne
  <2>1. /\ read' = [read EXCEPT !.pc = "two", !.one = files[read.open].one] /\ read.pc = "one"
        /\ read.open = read.file /\ read.open \in DOMAIN files /\ files[read.open].one \in Nat
    BY <1>0, <1>2, <1>10 DEF ReadOne, StampsKept, HalvesKept
  <2>2. /\ read' \in ReadRec /\ read'.pc = "two" /\ read'.one = files[read.open].one
        /\ read'.open = read.open
        /\ read'.file = read.file /\ read'.stamp = read.stamp
    BY <1>1, <2>1 DEF ReadRec
  <2> QED BY <1>0, <1>1, <2>1, <2>2 DEF ReadInv, ReadTyped, StampsKept, HalvesKept, ReadIsCurrent
<1>11. CASE ReadTwo
  <2>1. /\ read' = [read EXCEPT !.pc = "handle", !.two = files[read.open].two] /\ read.pc = "two"
        /\ read.open = read.file /\ read.open \in DOMAIN files /\ files[read.open].two \in Nat
    BY <1>0, <1>2, <1>11 DEF ReadTwo, StampsKept, HalvesKept
  <2>2. /\ read' \in ReadRec /\ read'.pc = "handle" /\ read'.two = files[read.open].two
        /\ read'.one = read.one
        /\ read'.open = read.open /\ read'.file = read.file /\ read'.stamp = read.stamp
    BY <1>1, <2>1 DEF ReadRec
  <2> QED BY <1>0, <1>1, <2>1, <2>2 DEF ReadInv, ReadTyped, StampsKept, HalvesKept, ReadIsCurrent
<1>12. CASE CheckHandle
  <2>1. CASE At("path")
    <3>1. read.pc = "handle" /\ read' = [read EXCEPT !.pc = "path"]
      BY <1>12, <2>1 DEF CheckHandle, At
    <3>2. /\ read' \in ReadRec /\ read'.pc = "path" /\ read'.one = read.one /\ read'.two = read.two
          /\ read'.open = read.open /\ read'.file = read.file /\ read'.stamp = read.stamp
      BY <1>1, <3>1 DEF ReadRec
    <3> QED BY <1>0, <1>1, <3>1, <3>2 DEF ReadInv, ReadTyped, StampsKept, HalvesKept, ReadIsCurrent
  <2> QED BY <1>4, <1>12, <2>1 DEF CheckHandle
<1>13. CASE CheckPath
  <2>1. CASE PathUnchanged
    <3>1. /\ read.pc = "path" /\ here # 0 /\ here = read.file /\ files[here].stamp = read.stamp
          /\ read' = [read EXCEPT !.pc = "again", !.named = <<files[here].one, files[here].two>>]
      BY <1>13, <2>1 DEF CheckPath, PathUnchanged, SameRead
    <3>2. <<files[here].one, files[here].two>> \in Nat \X Nat
      BY <1>1, <1>2, <3>1
    <3>3. /\ read' \in ReadRec /\ read'.pc = "again" /\ read'.one = read.one /\ read'.two = read.two
          /\ read'.named = <<files[here].one, files[here].two>>
      BY <1>1, <3>1, <3>2 DEF ReadRec
    <3>4. read.one = files[here].one /\ read.two = files[here].two
      BY <1>0, <3>1 DEF HalvesKept
    <3>5. ReadIsCurrent'
      BY <3>3, <3>4 DEF ReadIsCurrent
    <3> QED BY <1>0, <1>1, <3>3, <3>5 DEF ReadInv, ReadTyped, StampsKept, HalvesKept
  <2> QED BY <1>4, <1>13, <2>1 DEF CheckPath
<1>14. CASE CheckParents
  <2>1. CASE At("bytes")
    <3>1. read.pc = "again" /\ read' = [read EXCEPT !.pc = "bytes"]
      BY <1>14, <2>1 DEF CheckParents, At
    <3>2. /\ read' \in ReadRec /\ read'.pc = "bytes" /\ read'.one = read.one /\ read'.two = read.two
          /\ read'.named = read.named
      BY <1>1, <3>1 DEF ReadRec
    <3> QED BY <1>0, <1>1, <3>1, <3>2 DEF ReadInv, ReadTyped, StampsKept, HalvesKept, ReadIsCurrent
  <2> QED BY <1>4, <1>14, <2>1 DEF CheckParents
<1> QED
  BY <1>5, <1>6, <1>7, <1>8, <1>9, <1>10, <1>11, <1>12, <1>13, <1>14 DEF ReadStep

\* A writer that changes the file in place keeps the invariant.
LEMMA RewriteKept ==
  ASSUME ReadInv, NEW half \in {"one", "two"}, Rewrite(half)
  PROVE  ReadInv'
<1> DEFINE f == [files[here] EXCEPT ![half] = writes + 1, !.stamp = writes + 1]
<1>0. ReadTyped /\ StampsKept /\ HalvesKept /\ ReadIsCurrent
  BY DEF ReadInv
<1>1. /\ UNCHANGED <<folder, here, read>> /\ writes' = writes + 1 /\ files' = [files EXCEPT ![here] = f]
      /\ here \in DOMAIN files
  <2>1. here # 0 /\ here \in 0 .. Len(files) /\ files \in Seq(FileRec)
    BY <1>0 DEF Rewrite, ReadTyped
  <2>2. here \in DOMAIN files
    BY <2>1
  <2> QED BY <2>2 DEF Rewrite, Write
<1>2. writes + 1 \in Nat /\ writes \in Nat /\ files[here] \in FileRec
  <2>1. files \in Seq(FileRec) /\ writes \in Nat
    BY <1>0 DEF ReadTyped
  <2>3. here \in DOMAIN files
    BY <1>1
  <2>2. files[here] \in FileRec
    BY <2>1, <2>3
  <2> QED BY <2>1, <2>2
<1>3. f \in FileRec /\ f.stamp = writes + 1
  BY <1>2 DEF FileRec
<1> HIDE DEF f
<1>4. /\ files' \in Seq(FileRec) /\ DOMAIN files' = DOMAIN files /\ Len(files') = Len(files)
      /\ files'[here] = f
      /\ \A g \in DOMAIN files \ {here} : files'[g] = files[g]
  BY <1>0, <1>1, <1>3 DEF ReadTyped
<1>5. ReadTyped'
  BY <1>0, <1>1, <1>2, <1>4 DEF ReadTyped
<1>6. \A g \in DOMAIN files : files[g].stamp \in Nat /\ files[g].stamp <= writes /\ files'[g].stamp \in Nat
  <2>1. \A g \in DOMAIN files : files[g] \in FileRec /\ files'[g] \in FileRec
    BY <1>0, <1>4 DEF ReadTyped
  <2> QED BY <1>0, <2>1 DEF FileRec, StampsKept
<1>7. \A g \in DOMAIN files : files'[g].stamp <= writes + 1 /\ files[g].stamp <= files'[g].stamp
  BY <1>2, <1>3, <1>4, <1>6
<1>8. read.stamp \in Nat
  BY <1>0 DEF ReadTyped, ReadRec
<1>9. StampsKept'
  BY <1>0, <1>1, <1>4, <1>6, <1>7, <1>8 DEF StampsKept
<1>10. HalvesKept'
  <2>1. CASE read.pc \in {"one", "two", "handle", "path"} /\ read.open = here
    <3>1. read.stamp <= writes /\ files'[here].stamp = writes + 1
      BY <1>0, <1>1, <1>2, <1>3, <1>4, <1>6, <1>8, <2>1 DEF StampsKept, HalvesKept
    <3>2. files'[read.open].stamp # read.stamp
      BY <1>2, <1>8, <2>1, <3>1
    <3> QED BY <1>0, <1>1, <3>2 DEF HalvesKept
  <2>2. CASE read.pc \in {"one", "two", "handle", "path"} /\ read.open # here
    BY <1>0, <1>1, <1>4, <2>2 DEF HalvesKept, StampsKept
  <2>3. CASE read.pc \notin {"one", "two", "handle", "path"}
    BY <1>1, <2>3 DEF HalvesKept
  <2> QED BY <2>1, <2>2, <2>3
<1>11. ReadIsCurrent'
  BY <1>0, <1>1 DEF ReadIsCurrent
<1> QED BY <1>5, <1>9, <1>10, <1>11 DEF ReadInv

\* A writer that replaces or removes the file, or its folder, keeps the
\* invariant.
LEMMA OtherWriteKept ==
  ASSUME ReadInv, Replace \/ Unlink \/ SwapFolder
  PROVE  ReadInv'
<1>0. ReadTyped /\ StampsKept /\ HalvesKept /\ ReadIsCurrent
  BY DEF ReadInv
<1>1. /\ writes' = writes + 1 /\ UNCHANGED read /\ writes \in Nat /\ read.stamp \in Nat
      /\ folder' \in Nat
      /\ \/ files' = files /\ here' \in {0, here}
         \/ files' = Append(files, Fresh) /\ here' = Len(files) + 1
  <2>1. writes' = writes + 1 /\ UNCHANGED read
    BY DEF Replace, Unlink, SwapFolder, Write
  <2>2. writes \in Nat /\ folder \in Nat /\ read.stamp \in Nat
    BY <1>0 DEF ReadTyped, ReadRec
  <2>3. \/ files' = files /\ here' \in {0, here}
        \/ files' = Append(files, Fresh) /\ here' = Len(files) + 1
    BY DEF Replace, Unlink, SwapFolder
  <2>4. folder' \in Nat
    BY <2>2 DEF Replace, Unlink, SwapFolder
  <2> QED BY <2>1, <2>2, <2>3, <2>4
<1>2. Fresh \in FileRec /\ Fresh.stamp = writes + 1
  BY <1>1 DEF Fresh, FileRec
<1> HIDE DEF Fresh
<1>3. /\ files \in Seq(FileRec) /\ Len(files) \in Nat /\ DOMAIN files = 1 .. Len(files)
      /\ here \in 0 .. Len(files)
      /\ \A g \in DOMAIN files : files[g].stamp \in Nat /\ files[g].stamp <= writes
  <2>1. \A g \in DOMAIN files : files[g] \in FileRec
    BY <1>0 DEF ReadTyped
  <2>2. files \in Seq(FileRec) /\ here \in 0 .. Len(files)
    BY <1>0 DEF ReadTyped
  <2>3. \A g \in DOMAIN files : files[g].stamp \in Nat
    BY <2>1 DEF FileRec
  <2> QED BY <1>0, <2>2, <2>3 DEF StampsKept
<1>4. /\ files' \in Seq(FileRec) /\ DOMAIN files \subseteq DOMAIN files' /\ here' \in 0 .. Len(files')
      /\ \A g \in DOMAIN files : files'[g] = files[g]
      /\ \A g \in DOMAIN files' : files'[g].stamp <= writes + 1
  <2>1. CASE files' = files /\ here' \in {0, here}
    <3>1. \A g \in DOMAIN files : files[g].stamp <= writes + 1
      BY <1>1, <1>3
    <3> QED BY <1>3, <2>1, <3>1
  <2>2. CASE files' = Append(files, Fresh) /\ here' = Len(files) + 1
    BY <1>1, <1>2, <1>3, <2>2
  <2> QED BY <1>1, <2>1, <2>2
<1>5. ReadTyped'
  BY <1>0, <1>1, <1>4 DEF ReadTyped
<1>6. StampsKept'
  BY <1>0, <1>1, <1>4 DEF StampsKept
<1>7. HalvesKept'
  BY <1>0, <1>1, <1>4 DEF HalvesKept, StampsKept
<1>8. ReadIsCurrent'
  BY <1>0, <1>1 DEF ReadIsCurrent
<1> QED BY <1>5, <1>6, <1>7, <1>8 DEF ReadInv

\* The inductive invariant of the read, for any number of tries and writes.
THEOREM ReadInvariant == ReadSpec => []ReadInv
<1>1. ReadInit => ReadInv
  <2> SUFFICES ASSUME ReadInit PROVE ReadInv
    OBVIOUS
  <2>1. read \in ReadRec /\ read.pc = "parents" /\ folder \in Nat /\ writes \in Nat
    BY NoReadTyped DEF ReadInit
  <2>2. files \in Seq(FileRec) /\ here \in 0 .. Len(files) /\ \A f \in DOMAIN files : files[f].stamp <= writes
    <3> DEFINE g == [one |-> 0, two |-> 0, stamp |-> 0]
    <3>1. g \in FileRec /\ g.stamp = 0
      BY DEF FileRec
    <3>2. /\ writes = 0
          /\ \/ here = 0 /\ files = <<>>
             \/ here = 1 /\ files = <<g>>
      BY DEF ReadInit
    <3> HIDE DEF g
    <3>3. CASE here = 0 /\ files = <<>>
      BY <3>3
    <3>4. CASE here = 1 /\ files = <<g>>
      <4>1. DOMAIN <<g>> = {1} /\ <<g>>[1] = g /\ <<g>> \in Seq(FileRec) /\ Len(<<g>>) = 1
        BY <3>1
      <4> QED BY <3>1, <3>2, <3>4, <4>1
    <3> QED BY <3>2, <3>3, <3>4
  <2> QED BY <2>1, <2>2 DEF ReadInv, ReadTyped, StampsKept, HalvesKept, ReadIsCurrent
<1>2. ReadInv /\ [ReadNext]_readVars => ReadInv'
  <2> SUFFICES ASSUME ReadInv, [ReadNext]_readVars PROVE ReadInv'
    OBVIOUS
  <2>1. CASE UNCHANGED readVars
    BY <2>1 DEF readVars, ReadInv, ReadTyped, StampsKept, HalvesKept, ReadIsCurrent
  <2>2. CASE ReadNext
    BY <2>2, ReadStepKept, RewriteKept, OtherWriteKept DEF ReadNext
  <2> QED BY <2>1, <2>2
<1> QED BY <1>1, <1>2, PTL DEF ReadSpec

\* What a read returns is both halves of what the path named when it was looked
\* at last, whatever was replaced or rewritten meanwhile (_read_secure_file).
THEOREM ReadsCurrent == ReadSpec => []ReadIsCurrent
<1>1. ReadInv => ReadIsCurrent
  BY DEF ReadInv
<1> QED BY <1>1, ReadInvariant, PTL

-----------------------------------------------------------------------------
(***************************************************************************)
(* The log of an operation, read in pages.                                 *)
(***************************************************************************)

\* What is recorded of the operation and of its reader.
ClientRec == [pc : {"idle", "state", "log", "answer", "satisfied"}, after : Nat, status : {"open", "ready", "failed"}, page : Seq(Nat)]

\* The log, the launcher and the reader are well formed.
LogTyped ==
  /\ status \in {"open", "ready", "failed"} /\ line \in {"none", "half", "mixed"} /\ writing \in BOOLEAN
  /\ launcher \in {"works", "ready", "fails", "recovers", "closes", "over", "dead"}
  /\ events \in Seq({"event", "late", "garbled"}) /\ gathered \in Seq(Nat) /\ client \in ClientRec

\* Who writes, and where: a failed operation is left alone, one that was ready
\* is given one line at most, which stands alone.
WriterKept ==
  /\ writing => launcher \in {"works", "fails", "recovers"} /\ line # "none"
  /\ launcher = "works" => status = "open" /\ (line = "none" \/ writing) /\ line # "mixed"
  /\ launcher = "recovers" => status = "open"
  /\ launcher = "closes" => line = "none"
  /\ status = "failed" => launcher = "over"
  /\ status = "ready" => line # "mixed"
  /\ status = "ready" /\ line = "half" => writing \/ launcher \in {"over", "dead"}

\* The lines that a reader may take for events
Lines == Len(events) + (IF line = "none" THEN 0 ELSE 1)

\* What the client has: the events up to its cursor.
GatheredKept ==
  /\ client.after <= Lines
  /\ Len(gathered) = client.after /\ \A i \in 1 .. Len(gathered) : gathered[i] = i

\* After the first n events there is at most the failure of an operation that
\* the client knows as ready.
RestIsLate(n) == \A i \in n + 1 .. Len(events) : client.status = "ready" /\ events[i] = "late"

\* The page: the events after the cursor, all of them when it is not full and
\* the operation was over before they were read.
PageKept ==
  /\ client.pc \in {"log", "answer", "satisfied"} =>
       (client.status = "failed" => status = "failed") /\ (client.status = "ready" => status # "open")
  /\ client.pc = "answer" =>
       /\ client.after + Len(client.page) <= Lines
       /\ \A j \in 1 .. Len(client.page) : client.page[j] = client.after + j
       /\ client.status # "open" /\ Len(client.page) < Limit => RestIsLate(client.after + Len(client.page))
  /\ client.pc = "satisfied" => client.status # "open" /\ RestIsLate(client.after)

\* The inductive invariant of the log.
LogInv == LogTyped /\ WriterKept /\ GatheredKept /\ PageKept

\* A step of the launcher that appends no event.
LEMMA LauncherKept ==
  ASSUME LogInv, LogTyped', WriterKept', UNCHANGED <<events, client, gathered>>,
         line' = line \/ line' # "none", status' = status \/ status = "open" \/ status' = "failed"
  PROVE  LogInv'
<1>0. LogTyped /\ GatheredKept /\ PageKept
  BY DEF LogInv
<1>1. Lines \in Nat /\ Lines' \in Nat /\ Lines <= Lines' /\ client.after \in Nat /\ Len(client.page) \in Nat
  BY <1>0 DEF LogTyped, Lines, ClientRec
<1>2. GatheredKept'
  BY <1>0, <1>1 DEF GatheredKept
<1>3. \A n \in Nat : RestIsLate(n) => RestIsLate(n)'
  BY DEF RestIsLate
<1>4. PageKept'
  BY <1>0, <1>1, <1>3 DEF PageKept, LogTyped, ClientRec
<1> QED BY <1>2, <1>4 DEF LogInv

\* An event more: nobody who knows that the operation failed is reading, and
\* whoever knows that it was ready may miss this one.
LEMMA EndAppendKept ==
  ASSUME LogInv, EndAppend
  PROVE  LogInv'
<1>0. LogTyped /\ WriterKept /\ GatheredKept /\ PageKept
  BY DEF LogInv
<1> DEFINE e == WholeLine
<1>1. /\ writing /\ line \in {"half", "mixed"} /\ e \in {"event", "late", "garbled"}
      /\ events' = Append(events, e) /\ line' = "none" /\ ~writing' /\ writing' \in BOOLEAN
      /\ launcher' = (IF launcher = "works" THEN "works" ELSE "closes")
      /\ UNCHANGED <<status, client, gathered>>
  BY <1>0 DEF EndAppend, WriterKept, LogTyped, WholeLine
<1>2. status # "failed" /\ (status = "ready" => e = "late")
  BY <1>0, <1>1 DEF WriterKept, WholeLine
<1> HIDE DEF e
<1>3. /\ events' \in Seq({"event", "late", "garbled"}) /\ Len(events') = Len(events) + 1 /\ Len(events) \in Nat
      /\ \A i \in 1 .. Len(events) : events'[i] = events[i]
      /\ events'[Len(events) + 1] = e
  BY <1>0, <1>1 DEF LogTyped
<1>4. LogTyped' /\ WriterKept'
  <2>1. LogTyped'
    BY <1>0, <1>1, <1>3 DEF LogTyped
  <2> QED BY <1>0, <1>1, <1>2, <2>1 DEF LogTyped, WriterKept
<1>5. Lines' = Lines /\ Lines \in Nat /\ client.after \in Nat /\ Len(client.page) \in Nat
  BY <1>0, <1>1, <1>3 DEF Lines, LogTyped, ClientRec
<1>6. GatheredKept'
  BY <1>0, <1>1, <1>5 DEF GatheredKept
<1>7. ASSUME NEW n \in Nat, RestIsLate(n), client.status # "open", client.pc \in {"answer", "satisfied"}
      PROVE  RestIsLate(n)'
  <2>1. status = "ready" /\ client.status = "ready"
    BY <1>0, <1>2, <1>7 DEF PageKept, LogTyped, ClientRec
  <2>2. e = "late" /\ client' = client
    BY <1>1, <1>2, <2>1
  <2>3. ASSUME NEW i \in n + 1 .. Len(events') PROVE events'[i] = "late"
    <3>1. CASE i \in 1 .. Len(events)
      BY <1>3, <1>7, <3>1 DEF RestIsLate
    <3>2. CASE i = Len(events) + 1
      BY <1>3, <2>2, <3>2
    <3> QED BY <1>3, <3>1, <3>2
  <2> QED BY <2>1, <2>2, <2>3 DEF RestIsLate
<1>8. PageKept'
  <2>1. client.after + Len(client.page) \in Nat
    BY <1>5
  <2> QED BY <1>0, <1>1, <1>5, <1>7, <2>1 DEF PageKept
<1> QED BY <1>4, <1>6, <1>8 DEF LogInv

\* A page that is read follows the cursor, and is full unless it reaches the
\* end.
LEMMA ReadEventsKept ==
  ASSUME LogInv, ReadEvents
  PROVE  LogInv'
<1> USE LimitAssumption
<1>0. LogTyped /\ WriterKept /\ GatheredKept /\ PageKept
  BY DEF LogInv
<1> DEFINE a == client.after
<1>1. /\ client \in ClientRec /\ a \in Nat /\ Len(events) \in Nat /\ Lines \in Nat /\ a <= Lines /\ client.pc = "log"
      /\ UNCHANGED <<status, events, line, writing, launcher, gathered>>
  BY <1>0 DEF ReadEvents, LogTyped, ClientRec, GatheredKept, Lines
<1>2. PICK n \in {Len(events)} \cup (IF line = "half" THEN {Len(events) + 1} ELSE {}) :
        client' = [client EXCEPT !.pc = Step("log"),
                     !.page = SubSeq([i \in 1 .. n |-> i], a + 1, Min({n, a + Limit}))]
  BY DEF ReadEvents
<1>3. n \in Nat /\ n >= Len(events) /\ n <= Lines
  BY <1>1, <1>2 DEF Lines
<1> DEFINE last == Min({n, a + Limit})
           ids == [i \in 1 .. n |-> i]
           page == SubSeq(ids, a + 1, last)
<1>4. client' = [client EXCEPT !.pc = "answer", !.page = page]
  BY <1>2 DEF Step, ReadFirst, OtherThan
<1>5. last \in Nat /\ last <= n /\ last <= a + Limit /\ (last = n \/ last = a + Limit)
  <2>1. \E x \in {n, a + Limit} : \A y \in {n, a + Limit} : x =< y
    BY <1>1, <1>3
  <2> QED BY <1>1, <1>3, <2>1 DEF Min
<1> HIDE DEF last
<1>6. ids \in Seq(Nat) /\ Len(ids) = n /\ \A i \in 1 .. n : ids[i] = i
  BY <1>3
<1> HIDE DEF ids
<1>7. /\ page \in Seq(Nat) /\ Len(page) = (IF a <= last THEN last - a ELSE 0)
      /\ \A j \in 1 .. Len(page) : page[j] = a + j
  <2> DEFINE m == a + 1
  <2>1. m \in Int /\ last \in Int /\ m >= 1 /\ \A i \in m .. last : ids[i] \in Nat /\ ids[i] = i
    BY <1>1, <1>5, <1>6
  <2> HIDE DEF m
  <2>2. /\ page \in Seq(Nat)
        /\ Len(page) = IF m <= last THEN last - m + 1 ELSE 0
        /\ \A j \in 1 .. last - m + 1 : page[j] = ids[m + j - 1]
    <3> DEFINE cut == SubSeq(ids, m, last)
    <3>1. /\ cut \in Seq(Nat)
          /\ Len(cut) = IF m <= last THEN last - m + 1 ELSE 0
          /\ \A j \in 1 .. last - m + 1 : cut[j] = ids[m + j - 1]
      BY <2>1, SubSeqProperties
    <3>2. page = cut
      BY DEF m
    <3> QED BY <3>1, <3>2
  <2> HIDE DEF page
  <2>3. Len(page) = (IF a <= last THEN last - a ELSE 0)
    BY <1>1, <1>5, <2>2 DEF m
  <2>4. ASSUME NEW j \in 1 .. Len(page) PROVE page[j] = a + j
    <3>0. a <= last /\ j \in 1 .. last - a /\ m = a + 1 /\ a \in Nat /\ last \in Nat
      BY <1>1, <1>5, <2>3 DEF m
    <3> HIDE DEF a
    <3>1. j \in 1 .. last - m + 1 /\ m + j - 1 \in m .. last /\ m + j - 1 = a + j
      BY <3>0
    <3> QED BY <2>1, <2>2, <3>1
  <2> QED BY <2>2, <2>3, <2>4
<1> HIDE DEF page
<1>8. /\ client' \in ClientRec /\ client'.pc = "answer" /\ client'.after = a
      /\ client'.page = page /\ client'.status = client.status
  BY <1>1, <1>4, <1>7 DEF ClientRec
<1>9. a + Len(page) <= Lines /\ Len(page) \in Nat /\ (Len(page) < Limit => a + Len(page) >= Len(events))
  <2> DEFINE k == Len(page)
  <2>1. k \in Nat /\ k = IF a <= last THEN last - a ELSE 0
    BY <1>1, <1>5, <1>7
  <2> HIDE DEF k
  <2>2. a + k <= Lines
    BY <1>1, <1>3, <1>5, <2>1
  <2>3. k < Limit => a + k >= Len(events)
    BY <1>1, <1>3, <1>5, <2>1
  <2> QED BY <2>1, <2>2, <2>3 DEF k
<1>10. Lines' = Lines
  BY <1>1 DEF Lines
<1>11. PageKept'
  <2>1. ASSUME Len(client'.page) < Limit PROVE RestIsLate(client.after + Len(client.page))'
    <3>1. client'.after + Len(client'.page) >= Len(events') /\ client'.after + Len(client'.page) \in Nat
      BY <1>1, <1>8, <1>9, <2>1
    <3> QED BY <1>1, <3>1 DEF RestIsLate
  <2> QED BY <1>0, <1>1, <1>7, <1>8, <1>9, <1>10, <2>1 DEF PageKept
<1>12. LogTyped' /\ WriterKept'
  BY <1>0, <1>1, <1>8 DEF LogTyped, WriterKept
<1>13. GatheredKept'
  BY <1>0, <1>1, <1>8, <1>10 DEF GatheredKept
<1> QED BY <1>11, <1>12, <1>13 DEF LogInv

\* A page that is taken follows what the reader has.
LEMMA TakePageKept ==
  ASSUME LogInv, TakePage
  PROVE  LogInv'
<1> USE LimitAssumption
<1>0. LogTyped /\ WriterKept /\ GatheredKept /\ PageKept
  BY DEF LogInv
<1> DEFINE p == client.page
           a == client.after
           g == gathered \o p
           next == NextSeq(p, a)
           over == client.status # "open" /\ Len(p) < Limit
<1>1. /\ client \in ClientRec /\ a \in Nat /\ p \in Seq(Nat) /\ Len(p) \in Nat
      /\ gathered \in Seq(Nat) /\ Len(gathered) = a
      /\ client.pc = "answer" /\ Len(events) \in Nat /\ Lines \in Nat
      /\ UNCHANGED <<status, events, line, writing, launcher>> /\ gathered' = g
      /\ client' = [client EXCEPT !.after = next, !.page = <<>>, !.pc = IF over THEN "satisfied" ELSE "idle"]
  BY <1>0 DEF TakePage, LogTyped, ClientRec, GatheredKept, Lines
<1>2. /\ a + Len(p) <= Lines /\ \A j \in 1 .. Len(p) : p[j] = a + j
      /\ over => RestIsLate(a + Len(p))
  BY <1>0, <1>1 DEF PageKept
<1>3. next = a + Len(p)
  <2>1. CASE p = <<>>
    BY <1>1, <2>1 DEF NextSeq
  <2>2. CASE p # <<>>
    <3>1. Len(p) \in 1 .. Len(p) /\ next = p[Len(p)]
      BY <1>1, <2>2, EmptySeq DEF NextSeq, Last
    <3> QED BY <1>2, <3>1
  <2> QED BY <2>1, <2>2
<1>4. g \in Seq(Nat) /\ Len(g) = a + Len(p) /\ \A i \in 1 .. a + Len(p) : g[i] = i
  <2>1. /\ g \in Seq(Nat) /\ Len(g) = a + Len(p)
        /\ \A i \in 1 .. a + Len(p) : g[i] = IF i <= a THEN gathered[i] ELSE p[i - a]
    <3>1. gathered \in Seq(Nat) /\ p \in Seq(Nat) /\ Len(gathered) = a
      BY <1>1
    <3> HIDE DEF p, a
    <3> QED BY <3>1, ConcatProperties
  <2>2. \A i \in 1 .. a : gathered[i] = i
    BY <1>0, <1>1 DEF GatheredKept
  <2> HIDE DEF g
  <2>3. ASSUME NEW i \in 1 .. a + Len(p) PROVE g[i] = i
    <3>1. CASE i <= a
      <4>1. i \in 1 .. a
        BY <1>1, <3>1
      <4> QED BY <2>1, <2>2, <3>1, <4>1
    <3>2. CASE ~(i <= a)
      <4>1. i - a \in 1 .. Len(p) /\ a + (i - a) = i
        BY <1>1, <3>2
      <4>2. p[i - a] = a + (i - a)
        BY <1>2, <4>1
      <4> QED BY <2>1, <3>2, <4>1, <4>2
    <3> QED BY <3>1, <3>2
  <2> QED BY <2>1, <2>3
<1> HIDE DEF g, next
<1>5. /\ client' \in ClientRec /\ client'.pc = (IF over THEN "satisfied" ELSE "idle") /\ client'.after = next
      /\ client'.status = client.status
  <2>1. <<>> \in Seq(Nat) /\ next \in Nat
    BY <1>1, <1>3
  <2> QED BY <1>1, <2>1 DEF ClientRec
<1>6. LogTyped' /\ WriterKept' /\ Lines' = Lines
  BY <1>0, <1>1, <1>4, <1>5 DEF LogTyped, WriterKept, Lines
<1>7. GatheredKept'
  BY <1>1, <1>2, <1>3, <1>4, <1>5, <1>6 DEF GatheredKept
<1>8. PageKept'
  <2>1. over => RestIsLate(client.after)'
    BY <1>1, <1>2, <1>3, <1>5 DEF RestIsLate
  <2> QED BY <1>0, <1>1, <1>5, <2>1 DEF PageKept
<1> QED BY <1>6, <1>7, <1>8 DEF LogInv

\* Every step keeps the invariant.
LEMMA LogStepKept == LogInv /\ [LogNext]_logVars => LogInv'
<1> SUFFICES ASSUME LogInv, [LogNext]_logVars PROVE LogInv'
  OBVIOUS
<1>0. LogTyped /\ WriterKept /\ GatheredKept /\ PageKept
  BY DEF LogInv
<1>1. client \in ClientRec /\ Lines \in Nat
  BY <1>0 DEF LogTyped, Lines
<1>2. CASE UNCHANGED logVars
  BY <1>2 DEF logVars, LogInv, LogTyped, WriterKept, GatheredKept, PageKept, RestIsLate, Lines
<1>3. CASE BeginAppend
  <2>1. LogTyped' /\ WriterKept'
    BY <1>0, <1>3 DEF BeginAppend, LogTyped, WriterKept
  <2> QED BY <1>0, <1>3, <2>1, LauncherKept DEF BeginAppend
<1>4. CASE Complete \/ GoesWrong \/ Close \/ LauncherDies \/ Recover
  <2>1. /\ UNCHANGED <<events, line, client, gathered>>
        /\ status' = status \/ status = "open" \/ status' = "failed"
    BY <1>0, <1>4 DEF Complete, GoesWrong, Close, LauncherDies, Recover, WriterKept
  <2>2. LogTyped'
    BY <1>0, <1>4 DEF LogTyped, Complete, GoesWrong, Close, LauncherDies, Recover
  <2>3. WriterKept'
    <3>1. CASE Complete
      BY <1>0, <3>1 DEF LogTyped, WriterKept, Complete
    <3>2. CASE GoesWrong
      BY <1>0, <3>2 DEF LogTyped, WriterKept, GoesWrong
    <3>3. CASE Close
      BY <1>0, <3>3 DEF LogTyped, WriterKept, Close
    <3>4. CASE LauncherDies
      BY <1>0, <3>4 DEF LogTyped, WriterKept, LauncherDies
    <3>5. CASE Recover
      BY <1>0, <3>5 DEF LogTyped, WriterKept, Recover
    <3> QED BY <1>4, <3>1, <3>2, <3>3, <3>4, <3>5
  <2> QED BY <2>1, <2>2, <2>3, LauncherKept
<1>5. CASE AskPage \/ ReadOperation \/ PageFails
  <2>1. /\ UNCHANGED <<status, events, line, writing, launcher, gathered>>
        /\ client' \in ClientRec /\ client'.after = client.after
        /\ \/ client'.pc \in {"idle", "state"}
           \/ client'.pc = "log" /\ client'.status = status
    <3>1. CASE AskPage
      BY <1>1, <3>1 DEF AskPage, ReadFirst, ClientRec
    <3>2. CASE ReadOperation
      BY <1>0, <1>1, <3>2 DEF ReadOperation, Step, ReadFirst, OtherThan, ClientRec, LogTyped
    <3>3. CASE PageFails
      <4>1. <<>> \in Seq(Nat)
        OBVIOUS
      <4> QED BY <1>1, <3>3, <4>1 DEF PageFails, ClientRec
    <3> QED BY <1>5, <3>1, <3>2, <3>3
  <2>2. LogTyped' /\ WriterKept' /\ Lines' = Lines
    BY <1>0, <2>1 DEF LogTyped, WriterKept, Lines
  <2>3. GatheredKept' /\ PageKept'
    BY <1>0, <2>1, <2>2 DEF GatheredKept, PageKept
  <2> QED BY <2>2, <2>3 DEF LogInv
<1> QED
  BY <1>2, <1>3, <1>4, <1>5, EndAppendKept, ReadEventsKept, TakePageKept DEF LogNext

\* The inductive invariant of the log, for any length of a page.
THEOREM LogInvariant == LogSpec => []LogInv
<1>1. LogInit => LogInv
  <2>1. NoPage \in ClientRec /\ NoPage.pc = "idle" /\ NoPage.after = 0
    BY DEF NoPage, ClientRec
  <2>2. <<>> \in Seq(Nat) /\ <<>> \in Seq({"event", "late", "garbled"}) /\ Len(<<>>) = 0
    OBVIOUS
  <2> SUFFICES ASSUME LogInit PROVE LogInv
    OBVIOUS
  <2>3. LogTyped /\ WriterKept
    BY <2>1, <2>2 DEF LogInit, LogTyped, WriterKept
  <2>4. client.pc = "idle" /\ client.after = 0 /\ Lines = 0 /\ Len(gathered) = 0
    BY <2>1, <2>2 DEF LogInit, Lines
  <2> QED BY <2>3, <2>4 DEF LogInv, GatheredKept, PageKept
<1> QED BY <1>1, LogStepKept, PTL DEF LogSpec

\* A client that follows the log gets all of it, in order, once, for any length
\* of a page and any end of the launcher; what it may miss is the failure of an
\* operation it knows as ready (PortablePackageController.logs, _read_events).
THEOREM LogWhole == LogSpec => []LogComplete
<1>1. LogInv => LogComplete
  <2> SUFFICES ASSUME LogInv PROVE LogComplete
    OBVIOUS
  <2>1. gathered \in Seq(Nat) /\ Len(gathered) = client.after /\ \A i \in 1 .. Len(gathered) : gathered[i] = i
    BY DEF LogInv, LogTyped, GatheredKept
  <2>2. gathered = [i \in 1 .. Len(gathered) |-> gathered[i]]
    BY <2>1
  <2>3. EventsInOrder
    BY <2>1, <2>2 DEF EventsInOrder
  <2>4. OverMeansAll
    BY <2>1 DEF LogInv, PageKept, OverMeansAll, RestIsLate
  <2> QED BY <2>3, <2>4 DEF LogComplete
<1> QED BY <1>1, LogInvariant, PTL

-----------------------------------------------------------------------------
(***************************************************************************)
(* The checkouts of the pinned repositories.                               *)
(***************************************************************************)

\* What is recorded of commits, checkouts and runs.
CommitRec == [on : Nat, own : BOOLEAN]

CheckoutRec == [there : {"no", "partial", "yes"}, tip : CommitRec, head : CommitRec, dirty : BOOLEAN]

SyncPcs == {"rest", "remove", "visit", "select", "next", "save", "done"}

SyncRec == [pc : SyncPcs, clean : BOOLEAN, force : BOOLEAN, latest : BOOLEAN, at : Nat, cloned : BOOLEAN,
            dirty : SUBSET Repos, same : SUBSET Repos, updates : Seq(CommitRec)]

\* The checkouts, the lock file and the run are well formed.
SyncTyped ==
  /\ remote \in [Repos -> Nat] /\ local \in [Repos -> CheckoutRec] /\ pins \in [Repos -> CommitRec]
  /\ sync \in SyncRec

\* How many checkouts a run is through with
Reached == CASE sync.pc \in {"visit", "select"} -> sync.at - 1 [] sync.pc = "next" -> sync.at
             [] sync.pc \in {"save", "done"} -> Len(Order) [] OTHER -> 0

\* A run that works in a checkout
SyncGoesOn == {"visit", "select", "next", "save"}

\* Where a run is: it removes only when nothing is uncommitted, and works in a
\* checkout that is there.
PlaceKept ==
  /\ sync.pc \in {"visit", "select", "next"} => sync.at \in DOMAIN Order
  /\ sync.pc = "remove" => sync.dirty = {} /\ sync.at = 1 /\ sync.updates = <<>>
  /\ sync.pc = "rest" => sync.dirty = {} /\ sync.same = {}
  /\ sync.pc \in {"select", "next"} => There(Here)
  /\ sync.pc = "save" => sync.latest
  /\ sync.pc \in SyncGoesOn /\ sync.latest => Len(sync.updates) = Reached

\* A checkout a run is through with is at its pin, or at what will be pinned.
ReachedKept ==
  sync.pc \in SyncGoesOn =>
    \A i \in 1 .. Reached : Order[i] \in sync.same =>
      There(Order[i]) /\ local[Order[i]].head = IF sync.latest THEN sync.updates[i] ELSE pins[Order[i]]

\* What is uncommitted is in a checkout.
DirtyKept == \A r \in Repos : local[r].dirty => There(r)

\* The inductive invariant of the checkouts.
SyncInv == SyncTyped /\ DirtyKept /\ PlaceKept /\ UncommittedKept /\ ReachedKept /\ SyncedMeansPinned

\* The tip of a branch is a commit.
LEMMA TipTyped ==
  ASSUME NEW n \in Nat
  PROVE  Tip(n) \in CommitRec /\ Tip(n).on = n /\ Tip(n).own = FALSE
BY DEF Tip, CommitRec

\* A checkout that is not there is a well-formed one.
LEMMA NoCheckoutTyped == NoCheckout \in CheckoutRec /\ NoCheckout.there = "no"
<1>1. Tip(0) \in CommitRec
  BY TipTyped
<1> QED BY <1>1 DEF NoCheckout, CheckoutRec

\* A run that has not begun is a well-formed one.
LEMMA NoSyncTyped ==
  /\ NoSync \in SyncRec /\ NoSync.pc = "rest" /\ NoSync.dirty = {} /\ NoSync.same = {}
  /\ NoSync.at = 1 /\ NoSync.updates = <<>>
BY DEF NoSync, SyncRec, SyncPcs

\* Nothing was worked on: a run that ended.
LEMMA AtRestKept ==
  ASSUME remote' \in [Repos -> Nat], local' \in [Repos -> CheckoutRec], pins' \in [Repos -> CommitRec], sync' = NoSync,
         DirtyKept'
  PROVE  SyncInv'
BY NoSyncTyped DEF SyncInv, SyncTyped, PlaceKept, UncommittedKept, ReachedKept, SyncedMeansPinned, SyncGoesOn

\* A run goes on: one checkout, which is clean or only loses its commits, is
\* changed, and those that are done stay as they are.
LEMMA RunGoesOn ==
  ASSUME SyncInv, sync' \in SyncRec, pins' = pins, remote' \in [Repos -> Nat],
         NEW l \in CheckoutRec, sync.at \in DOMAIN Order, local' = [local EXCEPT ![Here] = l],
         sync'.pc \in {"select", "next"}, l.there = "yes",
         sync'.at = sync.at, sync'.latest = sync.latest, sync'.same = sync.same, sync'.dirty \subseteq sync.dirty,
         Here \in sync'.dirty => l.dirty,
         sync.pc \in {"visit", "select"},
         sync'.pc = "select" => sync'.updates = sync.updates,
         sync'.pc = "next" => sync'.updates = (IF sync.latest THEN Append(sync.updates, l.head) ELSE sync.updates),
         sync'.pc = "next" /\ ~sync.latest => l.head = pins[Here]
  PROVE  SyncInv'
<1>0. SyncTyped /\ DirtyKept /\ PlaceKept /\ UncommittedKept /\ ReachedKept /\ SyncedMeansPinned
  BY DEF SyncInv
<1>1. /\ Here \in Repos /\ Here' = Here /\ local' \in [Repos -> CheckoutRec] /\ local'[Here] = l
      /\ \A r \in Repos \ {Here} : local'[r] = local[r]
      /\ sync.at \in Nat /\ sync \in SyncRec
  <2>1. Here \in Repos /\ Here' = Here
    BY DEF Here, Repos
  <2>2. local \in [Repos -> CheckoutRec] /\ sync \in SyncRec
    BY <1>0 DEF SyncTyped
  <2> HIDE DEF Here
  <2>3. sync.at \in Nat
    BY <2>2 DEF SyncRec
  <2> QED BY <2>1, <2>2, <2>3
<1>2. SyncTyped'
  BY <1>0, <1>1 DEF SyncTyped
<1>3. \A i \in DOMAIN Order : Order[i] \in Repos /\ (i # sync.at => Order[i] # Here)
  BY LockAssumption DEF Repos, Here
<1>4. Len(Order) \in Nat /\ DOMAIN Order = 1 .. Len(Order)
  BY LockAssumption
<1>5. Reached = sync.at - 1 /\ Reached' = IF sync'.pc = "next" THEN sync.at ELSE sync.at - 1
  BY <1>1 DEF Reached
<1>6. sync.latest => Len(sync.updates) = sync.at - 1
  BY <1>0, <1>5 DEF PlaceKept, SyncGoesOn
<1>7. PlaceKept'
  <2>1. There(Here)'
    BY <1>1 DEF There
  <2>2. sync.latest => Len(sync'.updates) = Reached'
    <3>1. sync.updates \in Seq(CommitRec) /\ l.head \in CommitRec
      BY <1>1 DEF SyncRec, CheckoutRec
    <3>2. Len(Append(sync.updates, l.head)) = Len(sync.updates) + 1
      BY <3>1
    <3> QED BY <1>1, <1>5, <1>6, <3>2
  <2> QED BY <2>1, <2>2 DEF PlaceKept
<1>8. UncommittedKept'
  BY <1>0, <1>1 DEF UncommittedKept, There, SyncRec
<1>9. ReachedKept'
  <2> SUFFICES ASSUME NEW i \in 1 .. Reached', Order[i] \in sync.same
               PROVE  There(Order[i])' /\ local'[Order[i]].head = IF sync.latest THEN sync'.updates[i] ELSE pins[Order[i]]
    BY <1>1 DEF ReachedKept
  <2>1. i \in DOMAIN Order
    BY <1>1, <1>4, <1>5
  <2>2. sync.updates \in Seq(CommitRec) /\ l.head \in CommitRec
    BY <1>1 DEF SyncRec, CheckoutRec
  <2>3. CASE i = sync.at
    <3>1. sync'.pc = "next" /\ Order[i] = Here
      BY <1>1, <1>5, <2>3 DEF Here
    <3>2. sync.latest => sync'.updates[i] = l.head
      <4>1. sync.latest => i = Len(sync.updates) + 1
        BY <1>1, <1>6, <2>3
      <4> QED BY <2>2, <3>1, <4>1
    <3> QED BY <1>1, <3>1, <3>2 DEF There
  <2>4. CASE i # sync.at
    <3>1. i \in 1 .. Reached /\ Order[i] # Here /\ Order[i] \in Repos
      BY <1>1, <1>3, <1>5, <2>1, <2>4
    <3>2. There(Order[i]) /\ local[Order[i]].head = IF sync.latest THEN sync.updates[i] ELSE pins[Order[i]]
      BY <1>0, <3>1 DEF ReachedKept, SyncGoesOn
    <3>3. sync.latest => sync'.updates[i] = sync.updates[i]
      <4>1. sync.latest => i \in 1 .. Len(sync.updates)
        BY <1>5, <1>6, <3>1
      <4> QED BY <2>2, <4>1
    <3> QED BY <1>1, <3>1, <3>2, <3>3 DEF There
  <2> QED BY <2>3, <2>4
<1>10. SyncedMeansPinned'
  BY DEF SyncedMeansPinned
<1>11. DirtyKept'
  BY <1>0, <1>1 DEF DirtyKept, There
<1> QED BY <1>2, <1>7, <1>8, <1>9, <1>10, <1>11 DEF SyncInv

\* Every step keeps the invariant.
LEMMA SyncStepKept ==
  ASSUME SyncInv, SyncNext
  PROVE  SyncInv'
<1>0. SyncTyped /\ DirtyKept /\ PlaceKept /\ UncommittedKept /\ ReachedKept /\ SyncedMeansPinned
  BY DEF SyncInv
<1>1. /\ remote \in [Repos -> Nat] /\ local \in [Repos -> CheckoutRec] /\ pins \in [Repos -> CommitRec]
      /\ sync \in SyncRec /\ sync.at \in Nat
  BY <1>0 DEF SyncTyped, SyncRec
<1>2. /\ Len(Order) \in Nat /\ Len(Order) # 0 /\ DOMAIN Order = 1 .. Len(Order)
      /\ \A i \in DOMAIN Order : Order[i] \in Repos
  BY LockAssumption DEF Repos
<1>3. sync.at \in DOMAIN Order => Here \in Repos /\ local[Here] \in CheckoutRec
  BY <1>1, <1>2 DEF Here
<1>4. \A r \in Repos : local[r] \in CheckoutRec /\ local[r].tip \in CommitRec /\ local[r].head \in CommitRec /\ remote[r] \in Nat
  BY <1>1 DEF CheckoutRec
<1>5. ASSUME NEW clean \in BOOLEAN, NEW force \in BOOLEAN, NEW latest \in BOOLEAN, StartSync(clean, force, latest)
      PROVE  SyncInv'
  <2> DEFINE d == {r \in Repos : local[r].dirty}
             s == [NoSync EXCEPT !.pc = IF clean THEN "remove" ELSE "visit", !.clean = clean, !.force = force,
                                 !.latest = latest, !.dirty = d, !.same = Repos]
  <2>1. sync' = s /\ UNCHANGED <<remote, local, pins>>
    BY <1>5 DEF StartSync
  <2>2. /\ s \in SyncRec /\ s.pc = (IF clean THEN "remove" ELSE "visit") /\ s.dirty = d /\ s.same = Repos
        /\ s.latest = latest /\ s.at = 1 /\ s.updates = <<>>
    <3>1. d \in SUBSET Repos
      OBVIOUS
    <3> HIDE DEF d
    <3> QED BY <3>1, NoSyncTyped DEF SyncRec, SyncPcs
  <2> HIDE DEF s
  <2>3. clean => d = {}
    BY <1>5 DEF StartSync, MayRemove, Clean
  <2>4. 1 \in DOMAIN Order
    BY <1>2
  <2>5. \A r \in d : There(r) /\ local[r].dirty
    BY <1>0 DEF DirtyKept
  <2>6. Reached' = 0
    BY <2>1, <2>2 DEF Reached
  <2> QED BY <1>0, <1>1, <2>1, <2>2, <2>3, <2>4, <2>5, <2>6
          DEF SyncInv, SyncTyped, DirtyKept, PlaceKept, UncommittedKept, ReachedKept, SyncedMeansPinned,
          SyncGoesOn, There
<1>6. ASSUME NEW r \in Repos, RemoveCheckout(r) PROVE SyncInv'
  <2>1. /\ sync.pc = "remove" /\ sync.dirty = {} /\ UNCHANGED <<remote, pins, sync>>
        /\ local' = [local EXCEPT ![r] = NoCheckout]
    BY <1>0, <1>6 DEF RemoveCheckout, PlaceKept
  <2>2. local' \in [Repos -> CheckoutRec]
    BY <1>1, <2>1, NoCheckoutTyped
  <2>3. DirtyKept'
    <3>1. NoCheckout.dirty = FALSE
      BY DEF NoCheckout
    <3> QED BY <1>0, <1>1, <2>1, <3>1 DEF DirtyKept, There
  <2> QED BY <1>0, <1>1, <2>1, <2>2, <2>3
          DEF SyncInv, SyncTyped, PlaceKept, UncommittedKept, ReachedKept, SyncedMeansPinned, SyncGoesOn
<1>7. CASE RemovedAll
  <2>1. /\ sync.pc = "remove" /\ sync.dirty = {} /\ UNCHANGED <<remote, pins, local>>
        /\ sync' = [sync EXCEPT !.pc = "visit"]
    BY <1>0, <1>7 DEF RemovedAll, PlaceKept, SyncGoes
  <2>2. /\ sync' \in SyncRec /\ sync'.pc = "visit" /\ sync'.at = sync.at /\ sync'.dirty = {}
        /\ sync'.latest = sync.latest /\ sync'.updates = sync.updates
    BY <1>1, <2>1 DEF SyncRec, SyncPcs
  <2>3. sync.at = 1 /\ sync.updates = <<>>
    BY <1>0, <2>1 DEF PlaceKept
  <2>4. Reached' = 0
    BY <2>2, <2>3 DEF Reached
  <2>5. 1 \in DOMAIN Order
    BY <1>2
  <2> QED BY <1>0, <1>1, <2>1, <2>2, <2>3, <2>4, <2>5
          DEF SyncInv, SyncTyped, DirtyKept, There, PlaceKept, UncommittedKept, ReachedKept,
          SyncedMeansPinned, SyncGoesOn
<1>8. CASE Clone
  <2>1. /\ sync.pc = "visit" /\ local[Here].there = "no" /\ UNCHANGED <<remote, pins>>
        /\ sync.at \in DOMAIN Order /\ Here \in Repos
    BY <1>0, <1>3, <1>8 DEF Clone, PlaceKept
  <2>2. ~local[Here].dirty /\ Here \notin sync.dirty
    BY <1>0, <2>1 DEF DirtyKept, There, UncommittedKept
  <2>3. CASE local' = [local EXCEPT ![Here].there = "partial"] /\ Fail
    <3> DEFINE l == [local[Here] EXCEPT !.there = "partial"]
    <3>1. l \in CheckoutRec /\ ~l.dirty
      BY <1>4, <2>1, <2>2 DEF CheckoutRec
    <3>2. local' = [local EXCEPT ![Here] = l]
      BY <2>3
    <3> HIDE DEF l
    <3>3. local' \in [Repos -> CheckoutRec] /\ DirtyKept'
      BY <1>0, <1>1, <2>1, <3>1, <3>2 DEF DirtyKept, There
    <3> QED BY <1>1, <2>1, <2>3, <3>3, AtRestKept DEF Fail
  <2>4. CASE /\ local' = [local EXCEPT ![Here] = [NoCheckout EXCEPT !.there = "yes", !.tip = Tip(remote[Here]),
                                                                   !.head = Tip(remote[Here])]]
             /\ sync' = [sync EXCEPT !.pc = "select", !.cloned = TRUE]
    <3> DEFINE l == [NoCheckout EXCEPT !.there = "yes", !.tip = Tip(remote[Here]), !.head = Tip(remote[Here])]
    <3>1. Tip(remote[Here]) \in CommitRec
      BY <1>4, <2>1, TipTyped
    <3>2. l \in CheckoutRec /\ l.there = "yes"
      BY <3>1, NoCheckoutTyped DEF CheckoutRec
    <3>3. local' = [local EXCEPT ![Here] = l]
      BY <2>4
    <3> HIDE DEF l
    <3>4. /\ sync' \in SyncRec /\ sync'.pc = "select" /\ sync'.at = sync.at /\ sync'.dirty = sync.dirty
          /\ sync'.latest = sync.latest /\ sync'.updates = sync.updates /\ sync'.same = sync.same
      BY <1>1, <2>4 DEF SyncRec, SyncPcs
    <3> QED BY <1>1, <2>1, <2>2, <3>2, <3>3, <3>4, RunGoesOn
  <2> QED BY <1>8, <2>3, <2>4 DEF Clone
<1>9. CASE Pull
  <2>1. /\ sync.pc = "visit" /\ There(Here) /\ UNCHANGED <<remote, pins>>
        /\ sync.at \in DOMAIN Order /\ Here \in Repos
        /\ ~local[Here].dirty
    BY <1>0, <1>3, <1>9 DEF Pull, PlaceKept, Clean
  <2>2. Here \notin sync.dirty
    BY <1>0, <2>1 DEF UncommittedKept
  <2> DEFINE tip == local[Here].tip
             new == [tip EXCEPT !.on = remote[Here]]
             m == [local[Here] EXCEPT !.head = tip]
             l == [local[Here] EXCEPT !.tip = new, !.head = new]
  <2>3. CASE local' = [local EXCEPT ![Here].head = tip] /\ Fail
    <3>1. m \in CheckoutRec /\ ~m.dirty
      BY <1>4, <2>1 DEF CheckoutRec
    <3>2. local' = [local EXCEPT ![Here] = m]
      BY <2>3
    <3> HIDE DEF m
    <3>3. local' \in [Repos -> CheckoutRec] /\ DirtyKept'
      BY <1>0, <1>1, <2>1, <3>1, <3>2 DEF DirtyKept, There
    <3> QED BY <1>1, <2>1, <2>3, <3>3, AtRestKept DEF Fail
  <2>4. CASE local' = [local EXCEPT ![Here].tip = new, ![Here].head = new] /\ SyncGoes("select")
    <3>1. new \in CommitRec
      BY <1>4, <2>1 DEF CommitRec
    <3>2. local' = [local EXCEPT ![Here] = l]
      BY <2>4
    <3> HIDE DEF new
    <3>3. l \in CheckoutRec /\ l.there = "yes"
      BY <1>4, <2>1, <3>1 DEF CheckoutRec, There
    <3> HIDE DEF l
    <3>4. /\ sync' \in SyncRec /\ sync'.pc = "select" /\ sync'.at = sync.at /\ sync'.dirty = sync.dirty
          /\ sync'.latest = sync.latest /\ sync'.updates = sync.updates /\ sync'.same = sync.same
      BY <1>1, <2>4 DEF SyncRec, SyncPcs, SyncGoes
    <3> QED BY <1>1, <2>1, <2>2, <3>2, <3>3, <3>4, RunGoesOn
  <2> QED BY <1>9, <2>3, <2>4 DEF Pull
<1>10. CASE Reset
  <2>1. /\ sync.pc = "visit" /\ There(Here) /\ UNCHANGED <<remote, pins>>
        /\ sync.at \in DOMAIN Order /\ Here \in Repos
    BY <1>0, <1>3, <1>10 DEF Reset, PlaceKept
  <2> DEFINE new == Tip(remote[Here])
             l == [local[Here] EXCEPT !.tip = new, !.head = new, !.dirty = FALSE]
  <2>2. new \in CommitRec
    BY <1>4, <2>1, TipTyped
  <2>3. local' = [local EXCEPT ![Here] = l] /\ sync' = [sync EXCEPT !.pc = "select", !.dirty = @ \ {Here}]
    BY <1>10 DEF Reset
  <2> HIDE DEF new
  <2>4. l \in CheckoutRec /\ l.there = "yes"
    BY <1>4, <2>1, <2>2 DEF CheckoutRec, There
  <2> HIDE DEF l
  <2>5. /\ sync' \in SyncRec /\ sync'.pc = "select" /\ sync'.at = sync.at
        /\ sync'.dirty = sync.dirty \ {Here}
        /\ sync'.latest = sync.latest /\ sync'.updates = sync.updates /\ sync'.same = sync.same
    BY <1>1, <2>3 DEF SyncRec, SyncPcs
  <2> QED BY <1>1, <2>1, <2>3, <2>4, <2>5, RunGoesOn
<1>11. CASE CheckoutPinned
  <2>1. /\ sync.pc = "select" /\ There(Here) /\ UNCHANGED <<remote, pins>>
        /\ sync.at \in DOMAIN Order /\ Here \in Repos
        /\ ~sync.latest /\ SyncGoes("next")
    BY <1>0, <1>3, <1>11 DEF CheckoutPinned, PlaceKept
  <2>2. /\ sync' \in SyncRec /\ sync'.pc = "next" /\ sync'.at = sync.at /\ sync'.dirty = sync.dirty
        /\ sync'.latest = sync.latest /\ sync'.updates = sync.updates /\ sync'.same = sync.same
    BY <1>1, <2>1 DEF SyncRec, SyncPcs, SyncGoes
  <2> DEFINE l == [local[Here] EXCEPT !.head = pins[Here]]
  <2>3. /\ l \in CheckoutRec /\ l.there = "yes" /\ l.head = pins[Here] /\ l.dirty = local[Here].dirty
        /\ local[Here].head = pins[Here] => l = local[Here]
    BY <1>1, <1>4, <2>1 DEF CheckoutRec, There
  <2>4. local' = [local EXCEPT ![Here] = l]
    <3>1. CASE AtPinned(Here)
      <4>1. local' = local /\ l = local[Here]
        BY <1>11, <2>3, <3>1 DEF CheckoutPinned, AtPinned
      <4> QED BY <1>1, <4>1
    <3>2. CASE ~AtPinned(Here)
      BY <1>11, <3>2 DEF CheckoutPinned
    <3> QED BY <3>1, <3>2
  <2> HIDE DEF l
  <2>5. Here \in sync.dirty => l.dirty
    BY <1>0, <2>3 DEF UncommittedKept
  <2> QED BY <1>1, <2>1, <2>2, <2>3, <2>4, <2>5, RunGoesOn
<1>12. CASE RememberLatest
  <2>1. /\ sync.pc = "select" /\ There(Here) /\ UNCHANGED <<remote, pins, local>>
        /\ sync.at \in DOMAIN Order /\ Here \in Repos
        /\ sync.latest /\ sync' = [sync EXCEPT !.pc = "next", !.updates = Append(@, local[Here].head)]
    BY <1>0, <1>3, <1>12 DEF RememberLatest, PlaceKept
  <2>2. Append(sync.updates, local[Here].head) \in Seq(CommitRec)
    BY <1>1, <1>4, <2>1 DEF SyncRec
  <2>3. /\ sync' \in SyncRec /\ sync'.pc = "next" /\ sync'.at = sync.at /\ sync'.dirty = sync.dirty
        /\ sync'.latest = sync.latest /\ sync'.updates = Append(sync.updates, local[Here].head)
        /\ sync'.same = sync.same
    BY <1>1, <2>1, <2>2 DEF SyncRec, SyncPcs
  <2>4. /\ local' = [local EXCEPT ![Here] = local[Here]] /\ local[Here] \in CheckoutRec
        /\ local[Here].there = "yes"
    BY <1>1, <2>1 DEF There
  <2>5. Here \in sync.dirty => local[Here].dirty
    BY <1>0 DEF UncommittedKept
  <2> QED BY <1>1, <2>1, <2>3, <2>4, <2>5, RunGoesOn
<1>13. CASE NextRepo
  <2>1. /\ sync.pc = "next" /\ UNCHANGED <<remote, pins, local>> /\ sync.at \in 1 .. Len(Order)
        /\ \A i \in 1 .. sync.at : Order[i] \in sync.same =>
             There(Order[i]) /\ local[Order[i]].head = IF sync.latest THEN sync.updates[i] ELSE pins[Order[i]]
        /\ sync.latest => Len(sync.updates) = sync.at
    BY <1>0, <1>2, <1>13 DEF NextRepo, PlaceKept, ReachedKept, Reached, SyncGoesOn
  <2>2. CASE sync.at < Len(Order)
    <3>1. sync' = [sync EXCEPT !.pc = "visit", !.at = @ + 1, !.cloned = FALSE]
      BY <1>13, <2>2 DEF NextRepo
    <3>2. /\ sync' \in SyncRec /\ sync'.pc = "visit" /\ sync'.at = sync.at + 1 /\ sync'.dirty = sync.dirty
          /\ sync'.latest = sync.latest /\ sync'.updates = sync.updates /\ sync'.same = sync.same
      <4>1. sync.at + 1 \in Nat
        BY <1>1
      <4> QED BY <1>1, <3>1, <4>1 DEF SyncRec, SyncPcs
    <3>3. Reached' = sync.at /\ sync'.at \in DOMAIN Order
      BY <1>1, <1>2, <2>1, <2>2, <3>2 DEF Reached
    <3> QED BY <1>0, <1>1, <2>1, <3>2, <3>3
            DEF SyncInv, SyncTyped, DirtyKept, There, PlaceKept, UncommittedKept, ReachedKept,
            SyncedMeansPinned, SyncGoesOn
  <2>3. CASE ~(sync.at < Len(Order))
    <3>1. sync' = [sync EXCEPT !.pc = IF sync.latest THEN "save" ELSE "done"] /\ sync.at = Len(Order)
      BY <1>2, <1>13, <2>1, <2>3 DEF NextRepo
    <3>2. /\ sync' \in SyncRec /\ sync'.pc = (IF sync.latest THEN "save" ELSE "done") /\ sync'.at = sync.at
          /\ sync'.dirty = sync.dirty
          /\ sync'.latest = sync.latest /\ sync'.updates = sync.updates /\ sync'.same = sync.same
      BY <1>1, <3>1 DEF SyncRec, SyncPcs
    <3>3. Reached' = sync.at
      BY <3>1, <3>2 DEF Reached
    <3>4. SyncedMeansPinned'
      <4> SUFFICES ASSUME ~sync.latest, NEW r \in sync.same PROVE There(r) /\ local[r].head = pins[r]
        BY <2>1, <3>2 DEF SyncedMeansPinned, There
      <4>1. PICK i \in DOMAIN Order : Order[i] = r
        BY <1>1 DEF SyncRec, Repos
      <4> QED BY <1>2, <2>1, <3>1, <4>1
    <3> QED BY <1>0, <1>1, <2>1, <3>2, <3>3, <3>4
            DEF SyncInv, SyncTyped, DirtyKept, There, PlaceKept, UncommittedKept, ReachedKept, SyncGoesOn
  <2> QED BY <2>2, <2>3
<1>14. CASE SaveLock
  <2>1. /\ sync.pc = "save" /\ sync.latest /\ UNCHANGED <<remote, local>>
        /\ pins' = [r \in Repos |-> sync.updates[CHOOSE i \in DOMAIN Order : Order[i] = r]]
        /\ \A i \in 1 .. Len(Order) : Order[i] \in sync.same => There(Order[i]) /\ local[Order[i]].head = sync.updates[i]
        /\ Len(sync.updates) = Len(Order) /\ sync' = [sync EXCEPT !.pc = "done"]
    BY <1>0, <1>14 DEF SaveLock, PlaceKept, ReachedKept, Reached, SyncGoesOn, SyncGoes
  <2>2. /\ sync' \in SyncRec /\ sync'.pc = "done" /\ sync'.dirty = sync.dirty /\ sync'.same = sync.same
    BY <1>1, <2>1 DEF SyncRec, SyncPcs
  <2>3. ASSUME NEW r \in Repos, NEW i \in DOMAIN Order, Order[i] = r
        PROVE  pins'[r] = sync.updates[i] /\ sync.updates[i] \in CommitRec
    <3>1. (CHOOSE j \in DOMAIN Order : Order[j] = r) = i
      BY <2>3, LockAssumption
    <3>2. sync.updates \in Seq(CommitRec)
      BY <1>1 DEF SyncRec
    <3>3. pins'[r] = sync.updates[i]
      BY <2>1, <3>1
    <3>4. i \in 1 .. Len(sync.updates)
      BY <1>2, <2>1
    <3>5. sync.updates[i] \in CommitRec
      BY <3>2, <3>4
    <3> QED BY <3>3, <3>5
  <2>4. pins' \in [Repos -> CommitRec]
    BY <2>1, <2>3 DEF Repos
  <2>5. SyncedMeansPinned'
    <3> SUFFICES ASSUME NEW r \in sync.same PROVE There(r) /\ local[r].head = pins'[r]
      BY <2>1, <2>2 DEF SyncedMeansPinned, There
    <3>1. r \in Repos
      BY <1>1 DEF SyncRec
    <3>2. PICK i \in DOMAIN Order : Order[i] = r
      BY <3>1 DEF Repos
    <3>3. There(r) /\ local[r].head = sync.updates[i]
      BY <1>2, <2>1, <3>2
    <3>4. pins'[r] = sync.updates[i]
      BY <2>3, <3>1, <3>2
    <3> QED BY <3>3, <3>4
  <2> QED BY <1>0, <1>1, <2>1, <2>2, <2>4, <2>5
          DEF SyncInv, SyncTyped, DirtyKept, There, PlaceKept, UncommittedKept, ReachedKept, SyncGoesOn
<1>15. CASE EndSync \/ CutSync
  <2>1. sync' = NoSync /\ UNCHANGED <<remote, local, pins>>
    BY <1>15 DEF EndSync, CutSync, Fail
  <2>2. DirtyKept'
    BY <1>0, <2>1 DEF DirtyKept, There
  <2> QED BY <1>1, <2>1, <2>2, AtRestKept
<1>16. ASSUME NEW r \in Repos, UserWorks(r) PROVE SyncInv'
  <2>1. /\ There(r) /\ UNCHANGED <<remote, pins>>
        /\ sync' = [sync EXCEPT !.dirty = @ \ {r}, !.same = @ \ {r}]
    BY <1>16 DEF UserWorks
  <2>2. \E l \in CheckoutRec : local' = [local EXCEPT ![r] = l] /\ l.there = "yes"
    <3>1. CASE local' = [local EXCEPT ![r].dirty = TRUE]
      <4> DEFINE l == [local[r] EXCEPT !.dirty = TRUE]
      <4>1. l \in CheckoutRec /\ l.there = "yes" /\ local' = [local EXCEPT ![r] = l]
        BY <1>4, <2>1, <3>1 DEF CheckoutRec, There
      <4> QED BY <4>1
    <3>2. CASE local' = [local EXCEPT ![r].tip.own = TRUE, ![r].head.own = TRUE, ![r].dirty = FALSE]
      <4> DEFINE a == [local[r].tip EXCEPT !.own = TRUE]
                 b == [local[r].head EXCEPT !.own = TRUE]
                 l == [local[r] EXCEPT !.tip = a, !.head = b, !.dirty = FALSE]
      <4>1. a \in CommitRec /\ b \in CommitRec
        BY <1>4 DEF CommitRec
      <4>2. local' = [local EXCEPT ![r] = l]
        BY <1>1, <1>4, <3>2 DEF CheckoutRec
      <4> HIDE DEF a, b
      <4>3. l \in CheckoutRec /\ l.there = "yes"
        BY <1>4, <2>1, <4>1 DEF CheckoutRec, There
      <4> QED BY <4>2, <4>3
    <3> QED BY <1>16, <3>1, <3>2 DEF UserWorks
  <2>3. /\ local' \in [Repos -> CheckoutRec] /\ local'[r].there = "yes"
        /\ \A o \in Repos \ {r} : local'[o] = local[o]
    BY <1>1, <2>2
  <2>4. /\ sync' \in SyncRec /\ sync'.pc = sync.pc /\ sync'.at = sync.at /\ sync'.dirty = sync.dirty \ {r}
        /\ sync'.latest = sync.latest /\ sync'.updates = sync.updates /\ sync'.same = sync.same \ {r}
    BY <1>1, <2>1 DEF SyncRec
  <2>5. Reached' = Reached /\ Here' = Here
    BY <2>4 DEF Reached, Here
  <2>6. SyncTyped' /\ DirtyKept' /\ UncommittedKept' /\ SyncedMeansPinned'
    <3>1. sync.dirty \subseteq Repos /\ sync.same \subseteq Repos
      BY <1>1 DEF SyncRec
    <3>2. SyncTyped' /\ DirtyKept'
      BY <1>0, <1>1, <2>1, <2>3, <2>4 DEF SyncTyped, DirtyKept, There
    <3>3. UncommittedKept'
      BY <1>0, <2>3, <2>4, <3>1 DEF There, UncommittedKept
    <3>4. SyncedMeansPinned'
      BY <1>0, <2>1, <2>3, <2>4, <3>1 DEF There, SyncedMeansPinned
    <3> QED BY <3>2, <3>3, <3>4
  <2>7. PlaceKept'
    BY <1>0, <1>3, <2>1, <2>3, <2>4, <2>5 DEF PlaceKept, There
  <2>8. ReachedKept'
    <3> SUFFICES ASSUME sync.pc \in SyncGoesOn, NEW i \in 1 .. Reached, Order[i] \in sync.same \ {r}
                 PROVE  /\ There(Order[i])'
                        /\ local'[Order[i]].head = IF sync.latest THEN sync.updates[i] ELSE pins[Order[i]]
      BY <2>1, <2>4, <2>5 DEF ReachedKept
    <3>1. Order[i] \in Repos \ {r}
      BY <1>1 DEF SyncRec
    <3> QED BY <1>0, <2>3, <3>1 DEF ReachedKept, There
  <2> QED BY <2>6, <2>7, <2>8 DEF SyncInv
<1>17. ASSUME NEW r \in Repos, UserRemoves(r) PROVE SyncInv'
  <2>1. /\ sync.pc = "rest" /\ UNCHANGED <<remote, pins, sync>> /\ local' = [local EXCEPT ![r] = NoCheckout]
    BY <1>17 DEF UserRemoves
  <2>2. local' \in [Repos -> CheckoutRec]
    BY <1>1, <2>1, NoCheckoutTyped
  <2>3. DirtyKept'
    <3>1. NoCheckout.dirty = FALSE
      BY DEF NoCheckout
    <3> QED BY <1>0, <1>1, <2>1, <3>1 DEF DirtyKept, There
  <2> QED BY <1>0, <1>1, <2>1, <2>2, <2>3
          DEF SyncInv, SyncTyped, PlaceKept, UncommittedKept, ReachedKept, SyncedMeansPinned, SyncGoesOn
<1>18. ASSUME NEW r \in Repos, RemoteMoves(r) PROVE SyncInv'
  <2>1. remote' \in [Repos -> Nat] /\ UNCHANGED <<local, pins, sync>>
    BY <1>1, <1>18 DEF RemoteMoves
  <2> QED BY <1>0, <2>1
          DEF SyncInv, SyncTyped, DirtyKept, There, PlaceKept, UncommittedKept, ReachedKept, Reached, Here,
          SyncedMeansPinned
<1> QED
  BY <1>5, <1>6, <1>7, <1>8, <1>9, <1>10, <1>11, <1>12, <1>13, <1>14, <1>15, <1>16, <1>17, <1>18 DEF SyncNext

\* The inductive invariant of the checkouts, for any repositories in any
\* order.
THEOREM SyncInvariant == SyncSpec => []SyncInv
<1>1. SyncInit => SyncInv
  <2> SUFFICES ASSUME SyncInit PROVE SyncInv
    OBVIOUS
  <2>1. 1 \in Nat /\ Tip(1) \in CommitRec
    BY TipTyped
  <2>2. /\ remote \in [Repos -> Nat] /\ local \in [Repos -> CheckoutRec]
        /\ pins \in [Repos -> CommitRec] /\ sync = NoSync
    BY <2>1, NoCheckoutTyped DEF SyncInit
  <2>3. DirtyKept
    <3>1. NoCheckout.dirty = FALSE
      BY DEF NoCheckout
    <3> QED BY <3>1 DEF SyncInit, DirtyKept
  <2> QED BY <2>2, <2>3, NoSyncTyped
          DEF SyncInv, SyncTyped, PlaceKept, UncommittedKept, ReachedKept, SyncedMeansPinned, SyncGoesOn
<1>2. SyncInv /\ [SyncNext]_syncVars => SyncInv'
  <2>1. SyncInv /\ UNCHANGED syncVars => SyncInv'
    BY DEF syncVars, SyncInv, SyncTyped, DirtyKept, There, PlaceKept, UncommittedKept, ReachedKept, Reached,
       Here,
           SyncedMeansPinned
  <2> QED BY <2>1, SyncStepKept
<1> QED BY <1>1, <1>2, PTL DEF SyncSpec

\* A synchronisation loses nothing that was not committed, and leaves what the
\* lock says, for any repositories in any order, and whatever an earlier run
\* that failed had left.
THEOREM CheckoutsSafe == SyncSpec => []CheckoutsKept
<1>1. SyncInv => CheckoutsKept
  BY DEF SyncInv, CheckoutsKept
<1> QED BY <1>1, SyncInvariant, PTL

=============================================================================
