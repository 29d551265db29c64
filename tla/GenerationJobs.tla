--------------------------- MODULE GenerationJobs ---------------------------
(***************************************************************************)
(* Generation jobs (backend/app/queue.py): the job manager, the threads    *)
(* that work through a job's lines, one per resource group, user           *)
(* cancellation at any moment, and the merge of the versions a job made    *)
(* into the manifest that other jobs and the user change meanwhile.        *)
(*                                                                         *)
(* A task is one line to synthesize.  Its item is what the client sees;    *)
(* its outcome is a version appended to the line's history.  Between two   *)
(* lock acquisitions or calls of a service a thread takes one step.        *)
(* Progress figures, errors, load states and file names are left out.      *)
(***************************************************************************)
EXTENDS Naturals, FiniteSets, Sequences, SequencesExt

CONSTANTS Jobs, Tasks, Lines, Groups,
          JobOf, LineOf,   \* of a task
          Plans,           \* what routing may plan: <<job, group>> -> clusters, in order
          Unroutable,      \* tasks that no service can take
          Capacity,        \* group -> concurrent clusters (endpoint.capacity)
          MaxJobs,         \* MAX_JOBS
          MaxActive,       \* MAX_ACTIVE_JOBS
          History          \* line -> version ids in the manifest at the start

Threads == Jobs \X Groups
Older == "older"   \* who made the versions of History

ASSUME TaskAssumption == /\ JobOf \in [Tasks -> Jobs] /\ LineOf \in [Tasks -> Lines]
                         /\ IsFiniteSet(Tasks) /\ Older \notin Tasks /\ Unroutable \subseteq Tasks
ASSUME LimitAssumption == /\ Capacity \in [Groups -> Nat \ {0}]
                          /\ MaxJobs \in Nat \ {0} /\ MaxActive \in Nat \ {0}

\* The numbers of a history grow.
ASSUME HistoryAssumption ==
  /\ History \in [Lines -> Seq(Nat \ {0})]
  /\ \A l \in Lines : \A i, k \in DOMAIN History[l] : i < k => History[l][i] < History[l][k]

\* Routing plans the tasks that can be routed, each once, in its own job.
ASSUME PlanAssumption ==
  \A plan \in Plans :
    /\ plan \in [Threads -> Seq(Seq(Tasks))]
    /\ \A x \in Threads : \A i \in DOMAIN plan[x] : \A k \in DOMAIN plan[x][i] :
         /\ JobOf[plan[x][i][k]] = x[1] /\ plan[x][i][k] \notin Unroutable
         /\ \A y \in Threads : \A m \in DOMAIN plan[y] : \A n \in DOMAIN plan[y][m] :
              plan[x][i][k] = plan[y][m][n] => x = y /\ i = m /\ k = n
    /\ \A t \in Tasks \ Unroutable :
         \E x \in Threads : \E i \in DOMAIN plan[x] : \E k \in DOMAIN plan[x][i] : plan[x][i][k] = t

VARIABLES
  known,    \* jobs in the manager's dictionary
  jstat,    \* job -> its status
  run,      \* job -> where _run_job is
  broken,   \* jobs whose queue run raised
  lost,     \* jobs whose versions could not be persisted
  istat,    \* task -> its item's status
  iver,     \* task -> its item's version number, or 0
  store,    \* line -> history in the manifest on disk
  base,     \* job -> manifest it loaded
  priv,     \* job -> its working copy
  given,    \* job -> line -> the new numbers its items have still to be told
  th,       \* thread -> its state
  asked,    \* ghost: jobs cancelled by the user before they were over
  ever      \* ghost: versions a job ever persisted, by line

jobVars   == <<known, jstat, run, broken, lost>>
itemVars  == <<istat, iver>>
manifests == <<store, base, priv, given>>
vars == <<jobVars, itemVars, manifests, th, asked, ever>>

Terminal == {"completed", "failed", "cancelled"}
TasksOf(j) == {t \in Tasks : JobOf[t] = j}

-----------------------------------------------------------------------------
(***************************************************************************)
(* Version histories.                                                      *)
(***************************************************************************)
Version(n, t, s) == [id |-> n, task |-> t, status |-> s]

MaxId(h) == Max({0} \cup {h[i].id : i \in DOMAIN h})

\* _next_generation_version_id
NextId(h, want) == IF want > MaxId(h) THEN want ELSE MaxId(h) + 1

\* append_version
Appended(h, want, t, s) == Append(h, Version(NextId(h, want), t, s))

\* Mutant: the versions keep the numbers they come with.
AppendedAsAsked(h, d) == h \o d

\* append_version for one version after the other: each has its number, or
\* the one after its predecessor's if that is greater.
AppendedAll(h, d) ==
  h \o [k \in DOMAIN d |-> [d[k] EXCEPT !.id = Max({MaxId(h) + k} \cup {d[i].id + (k - i) : i \in 1..k})]]

\* What is left of s at the positions P
Kept(s, P) == [k \in 1..Cardinality(P) |-> s[CHOOSE p \in P : Cardinality({q \in P : q <= p}) = k]]

\* Mutant: a completed version is not removed.
NotDropped(h, id) == h

\* _remove_manifest_version
Dropped(h, id) == Kept(h, {i \in DOMAIN h : h[i].id # id})

Last1(h) == h[Len(h)].id

\* The versions job j made on line l.
Delta(j, l) == SubSeq(priv[j][l], Len(base[j][l]) + 1, Len(priv[j][l]))

\* persist_manifest_delta on one line: what becomes of it, and the assignments.
Merged(j, l) == AppendedAll(store[l], Delta(j, l))
Assignments(j, l) ==
  LET all == [i \in DOMAIN Delta(j, l) |-> [from |-> Delta(j, l)[i].id, to |-> Merged(j, l)[Len(store[l]) + i].id]]
  IN Kept(all, {i \in DOMAIN all : all[i].from # all[i].to})

\* Mutant: items keep the number their version had in the job's own copy.
Unrenumbered(n, a) == n

\* _replace_item_version_id
Renumbered(n, a) == IF n = a.from THEN a.to ELSE n

-----------------------------------------------------------------------------
Idle == [pc |-> "done", rest |-> <<>>, cur |-> <<>>, want |-> 0]

Init ==
  /\ known = {}
  /\ jstat = [j \in Jobs |-> "new"]
  /\ run = [j \in Jobs |-> "new"]
  /\ broken = {}
  /\ lost = {}
  /\ istat = [t \in Tasks |-> "queued"]
  /\ iver = [t \in Tasks |-> 0]
  /\ store = [l \in Lines |-> [i \in DOMAIN History[l] |-> Version(History[l][i], Older, "completed")]]
  /\ base = [j \in Jobs |-> [l \in Lines |-> <<>>]]
  /\ priv = base
  /\ given = base
  /\ th \in {[x \in Threads |-> [Idle EXCEPT !.rest = plan[x]]] : plan \in Plans}
  /\ asked = {}
  /\ ever = [l \in Lines |-> {}]

\* submit(): routing is tried for every task; a full store refuses the job but
\* keeps it.
Submit(j) ==
  /\ run[j] = "new"
  /\ known' = known \cup {j}
  /\ istat' = [t \in Tasks |-> IF JobOf[t] = j /\ t \in Unroutable THEN "failed" ELSE istat[t]]
  /\ IF Cardinality(known) >= MaxJobs
     THEN jstat' = [jstat EXCEPT ![j] = "failed"] /\ run' = [run EXCEPT ![j] = "refused"]
     ELSE jstat' = [jstat EXCEPT ![j] = "queued"] /\ run' = [run EXCEPT ![j] = "pending"]
  /\ UNCHANGED <<broken, lost, iver, manifests, th, asked, ever>>

\* run() waits for the threads of all the groups.
AllOver(j) == \A x \in Threads : x[1] = j => th[x].pc \in {"done", "raised"}

\* Labels at which a thread may wait for hours: for the group, or for a service.
Slow == {"sem", "open", "line", "load", "synth"}
Silent(j) == /\ ~AllOver(j)
             /\ \A x \in Threads : x[1] = j => th[x].pc \in Slow \cup {"done", "raised"}

\* _evict_locked, for a job that is over for an hour without an event.  It may
\* be one that was cancelled before it ran, or whose threads still wait.
Evict(j) ==
  /\ j \in known
  /\ jstat[j] \in Terminal
  /\ \/ run[j] \in {"pending", "refused", "done"}
     \/ run[j] = "working" /\ Silent(j)
  /\ known' = known \ {j}
  /\ UNCHANGED <<jstat, run, broken, lost, itemVars, manifests, th, asked, ever>>

Cancelled(j) == jstat[j] \in {"cancelling", "cancelled"}

\* What cancel() makes of an item.
CancelledItem(s) == CASE s = "queued" -> "cancelled"
                      [] s = "active" -> "cancelling"
                      [] OTHER -> s

\* cancel()
Cancel(j) ==
  LET items == {CancelledItem(istat[t]) : t \in TasksOf(j)}
      active == \E t \in TasksOf(j) : istat[t] = "active"
  IN /\ j \in known
     /\ jstat[j] \in {"queued", "running"}
     /\ istat' = [t \in Tasks |-> IF JobOf[t] = j THEN CancelledItem(istat[t]) ELSE istat[t]]
     /\ jstat' = [jstat EXCEPT ![j] =
                    IF active THEN "cancelling"
                    ELSE IF "failed" \in items THEN "failed"
                    ELSE IF items = {"completed"} THEN "completed"
                    ELSE "cancelled"]
     /\ asked' = asked \cup {j}
     /\ UNCHANGED <<known, run, broken, lost, iver, manifests, th, ever>>

-----------------------------------------------------------------------------
(***************************************************************************)
(* _run_job.                                                               *)
(***************************************************************************)
Running == {j \in Jobs : run[j] \in {"loading", "loaded", "working", "persist", "finish"}}

\* An executor thread takes the job, unless it is gone or was cancelled.
Begin(j) ==
  /\ run[j] = "pending"
  /\ Cardinality(Running) < MaxActive
  /\ IF j \notin known \/ Cancelled(j)
     THEN run' = [run EXCEPT ![j] = "done"] /\ UNCHANGED jstat
     ELSE run' = [run EXCEPT ![j] = "loading"] /\ jstat' = [jstat EXCEPT ![j] = "running"]
  /\ UNCHANGED <<known, broken, lost, itemVars, manifests, th, asked, ever>>

\* load_manifest; without a manifest there is nothing to persist.
LoadManifest(j) ==
  /\ run[j] = "loading"
  /\ \/ /\ run' = [run EXCEPT ![j] = "loaded"]
        /\ base' = [base EXCEPT ![j] = store]
        /\ priv' = [priv EXCEPT ![j] = store]
        /\ UNCHANGED broken
     \/ /\ run' = [run EXCEPT ![j] = "finish"]
        /\ broken' = broken \cup {j}
        /\ UNCHANGED <<base, priv>>
  /\ UNCHANGED <<known, jstat, lost, itemVars, store, given, th, asked, ever>>

\* _record_prefailed_items: the tasks of line l that could not be routed.
Prefailed(j, l) == SetToSeq({t \in TasksOf(j) : LineOf[t] = l /\ istat[t] = "failed" /\ iver[t] = 0})

\* _runnable_tasks, clustered by run(): clusters keep their order.
Runnable(x) ==
  LET left(c) == Kept(c, {i \in DOMAIN c : istat[c[i]] \notin {"cancelled", "failed"}})
      all == [i \in DOMAIN th[x].rest |-> left(th[x].rest[i])]
  IN Kept(all, {i \in DOMAIN all : all[i] # <<>>})

\* The tasks without a route leave their failed versions; an item is told the
\* number asked for, which may not be the one given.
RecordPrefailed(j) ==
  /\ priv' = [priv EXCEPT ![j] =
       [l \in Lines |-> AppendedAll(base[j][l], [k \in DOMAIN Prefailed(j, l) |->
                                                   Version(Len(base[j][l]) + k, Prefailed(j, l)[k], "failed")])]]
  /\ iver' = [t \in Tasks |->
       LET l == LineOf[t]
       IN IF t \in ToSet(Prefailed(j, l))
          THEN Len(base[j][l]) + (CHOOSE i \in DOMAIN Prefailed(j, l) : Prefailed(j, l)[i] = t)
          ELSE iver[t]]

\* The threads start, unless the audio directory or the second routing fails.
StartJob(j) ==
  /\ run[j] = "loaded"
  /\ \/ /\ run' = [run EXCEPT ![j] = "working"]
        /\ RecordPrefailed(j)
        /\ th' = [x \in Threads |->
                    IF x[1] = j
                    THEN [Idle EXCEPT !.pc = IF Runnable(x) = <<>> THEN "done" ELSE "gate", !.rest = Runnable(x)]
                    ELSE th[x]]
        /\ UNCHANGED broken
     \/ /\ run' = [run EXCEPT ![j] = "persist"]
        /\ broken' = broken \cup {j}
        /\ RecordPrefailed(j) \/ UNCHANGED <<priv, iver>>
        /\ UNCHANGED th
  /\ UNCHANGED <<known, jstat, lost, istat, store, base, given, asked, ever>>

\* The versions of the job are persisted next.
Join(j) ==
  /\ run[j] = "working"
  /\ AllOver(j)
  /\ run' = [run EXCEPT ![j] = "persist"]
  /\ broken' = IF \E x \in Threads : x[1] = j /\ th[x].pc = "raised" THEN broken \cup {j} ELSE broken
  /\ UNCHANGED <<known, jstat, lost, itemVars, manifests, th, asked, ever>>

\* persist_manifest_delta, under the manifest's lock
Persist(j) ==
  /\ run[j] = "persist"
  /\ run' = [run EXCEPT ![j] = "finish"]
  /\ store' = [l \in Lines |-> Merged(j, l)]
  /\ given' = [given EXCEPT ![j] = [l \in Lines |-> Assignments(j, l)]]
  /\ ever' = [l \in Lines |-> ever[l] \cup {Merged(j, l)[i] : i \in (Len(store[l]) + 1)..Len(Merged(j, l))}]
  /\ UNCHANGED <<known, jstat, broken, lost, itemVars, base, priv, th, asked>>

PersistFails(j) ==
  /\ run[j] = "persist"
  /\ run' = [run EXCEPT ![j] = "finish"]
  /\ lost' = lost \cup {j}
  /\ UNCHANGED <<known, jstat, broken, itemVars, manifests, th, asked, ever>>

\* The items are told one new number after the other.
Renumber(j, l) ==
  /\ run[j] = "finish" /\ j \in known /\ given[j][l] # <<>>
  /\ iver' = [t \in Tasks |-> IF JobOf[t] = j /\ LineOf[t] = l THEN Renumbered(iver[t], Head(given[j][l])) ELSE iver[t]]
  /\ given' = [given EXCEPT ![j][l] = Tail(@)]
  /\ UNCHANGED <<jobVars, istat, store, base, priv, th, asked, ever>>

\* _finish_job, or _fail_job after an exception.
Finish(j) ==
  LET failed == j \in broken \cup lost
      over(s) == IF failed THEN IF s \in Terminal THEN s ELSE "failed"
                 ELSE IF s = "cancelling" THEN "cancelled" ELSE s
      items == {over(istat[t]) : t \in TasksOf(j)}
  IN /\ run[j] = "finish" /\ j \in known /\ \A l \in Lines : given[j][l] = <<>>
     /\ run' = [run EXCEPT ![j] = "done"]
     /\ istat' = [t \in Tasks |-> IF JobOf[t] = j THEN over(istat[t]) ELSE istat[t]]
     /\ jstat' = [jstat EXCEPT ![j] =
                    IF failed \/ "failed" \in items THEN "failed"
                    ELSE IF @ = "cancelling" \/ "cancelled" \in items THEN "cancelled"
                    ELSE "completed"]
     /\ UNCHANGED <<known, broken, lost, iver, manifests, th, asked, ever>>

\* A job that was evicted while it ran: nothing of it can be told any more.
Vanish(j) ==
  /\ run[j] = "finish" /\ j \notin known
  /\ run' = [run EXCEPT ![j] = "done"]
  /\ UNCHANGED <<known, jstat, broken, lost, itemVars, manifests, th, asked, ever>>

-----------------------------------------------------------------------------
(***************************************************************************)
(* A thread: _run_resource_clusters, _run_service_cluster and _run_task.   *)
(***************************************************************************)
\* Mutant: a cluster that raises keeps the group.
LeakyHolders(g) == {x \in Threads : x[2] = g /\ th[x].pc \notin {"done", "gate", "sem"}}

\* The threads inside the semaphore of a group.
Holders(g) == {x \in Threads : x[2] = g /\ th[x].pc \notin {"done", "raised", "gate", "sem"}}

\* _update_item
Told(s, new) == CASE s \in Terminal -> s
                  [] s = "cancelling" /\ new \notin {"cancelled", "failed"} -> s
                  [] OTHER -> new

Emit(t, new) == istat' = [istat EXCEPT ![t] = Told(@, new)] /\ UNCHANGED iver

\* The thread leaves the task at hand; the last one of a cluster frees the group.
Next1(s) == IF Len(s.cur) > 1 THEN [s EXCEPT !.pc = "line", !.cur = Tail(@)]
            ELSE [s EXCEPT !.pc = "gate", !.cur = <<>>]

\* It sweeps a cluster that could not be loaded; after the last task it raises.
Swept(s) == IF Len(s.cur) > 1 THEN [s EXCEPT !.pc = "sweep", !.cur = Tail(@)]
            ELSE [s EXCEPT !.pc = "raised"]

\* It stops serving the cluster; the check before the next one ends it.
Return(x) == th' = [th EXCEPT ![x].pc = "gate", ![x].cur = <<>>]
Raise(x)  == th' = [th EXCEPT ![x].pc = "raised"]
Goto(x, label) == th' = [th EXCEPT ![x].pc = label]

\* A version with outcome s, and its item: append and emit.
Record(j, t, h, want, s) ==
  LET new == Appended(h, want, t, s)
  IN /\ priv' = [priv EXCEPT ![j][LineOf[t]] = new]
     /\ istat' = [istat EXCEPT ![t] = Told(@, s)]
     /\ iver' = [iver EXCEPT ![t] = Last1(new)]

\* A failed or cancelled outcome asks for the number after the history's length.
RecordOutcome(j, t, s) == LET h == priv[j][LineOf[t]] IN Record(j, t, h, Len(h) + 1, s)

Gate(x) ==
  LET j == x[1]
  IN /\ th[x].pc = "gate"
     /\ IF th[x].rest = <<>> \/ Cancelled(j)
        THEN Goto(x, "done")
        ELSE th' = [th EXCEPT ![x].pc = "sem", ![x].cur = Head(th[x].rest), ![x].rest = Tail(@)]
     /\ UNCHANGED <<jobVars, itemVars, manifests, asked, ever>>

\* The resource semaphore, and the check behind it.
Enter(x) ==
  /\ th[x].pc = "sem"
  /\ Cardinality(Holders(x[2])) < Capacity[x[2]]
  /\ IF Cancelled(x[1])
     THEN Return(x) /\ UNCHANGED itemVars
     ELSE Goto(x, "open") /\ Emit(Head(th[x].cur), "active")
  /\ UNCHANGED <<jobVars, manifests, asked, ever>>

\* Evicting another service and loading this one.
Open(x) ==
  /\ th[x].pc = "open"
  /\ Goto(x, "line")
  /\ UNCHANGED <<jobVars, itemVars, manifests, asked, ever>>

\* It fails: so does every task of the cluster, one after the other.
OpenFails(x) ==
  LET t == Head(th[x].cur)
  IN /\ th[x].pc \in {"open", "sweep"}
     /\ RecordOutcome(x[1], t, "failed")
     /\ th' = [th EXCEPT ![x] = Swept(@)]
     /\ UNCHANGED <<jobVars, store, base, given, asked, ever>>

\* The check before a line; an eviction, which may fail, and another load may
\* be needed for it.
Line(x) ==
  /\ th[x].pc = "line"
  /\ IF Cancelled(x[1]) THEN Return(x) /\ UNCHANGED <<itemVars, priv>>
     ELSE \/ Goto(x, "attempt") /\ UNCHANGED <<itemVars, priv>>
          \/ Goto(x, "load") /\ Emit(Head(th[x].cur), "active") /\ UNCHANGED priv
          \/ Raise(x) /\ RecordOutcome(x[1], Head(th[x].cur), "failed")
  /\ UNCHANGED <<jobVars, store, base, given, asked, ever>>

Load(x) ==
  LET t == Head(th[x].cur)
  IN /\ th[x].pc = "load"
     /\ \/ Goto(x, "attempt") /\ UNCHANGED <<itemVars, priv>>
        \/ Raise(x) /\ RecordOutcome(x[1], t, "failed")
     /\ UNCHANGED <<jobVars, store, base, given, asked, ever>>

Attempt(x) ==
  /\ th[x].pc = "attempt"
  /\ IF Cancelled(x[1]) THEN Return(x) ELSE Goto(x, "start")
  /\ UNCHANGED <<jobVars, itemVars, manifests, asked, ever>>

\* _run_task: the number its output file is named after is fixed here.
Start(x) ==
  LET t == Head(th[x].cur)
  IN /\ th[x].pc = "start"
     /\ Emit(t, "active")
     /\ th' = [th EXCEPT ![x].pc = "synth", ![x].want = Len(priv[x[1]][LineOf[t]]) + 1]
     /\ UNCHANGED <<jobVars, manifests, asked, ever>>

Synthesized(x) ==
  /\ th[x].pc = "synth" /\ x[1] \in known
  /\ Goto(x, "made")
  /\ UNCHANGED <<jobVars, itemVars, manifests, asked, ever>>

\* SynthesisPreempted after a confirmed cleanup: wait and try the line again.
Preempted(x) ==
  /\ th[x].pc = "synth" /\ x[1] \in known
  /\ Emit(Head(th[x].cur), "queued")
  /\ Goto(x, "attempt")
  /\ UNCHANGED <<jobVars, manifests, asked, ever>>

\* A timeout or an error of this line; a cancellation that did not converge.
LineFails(x) ==
  /\ th[x].pc = "synth"
  /\ RecordOutcome(x[1], Head(th[x].cur), "failed")
  /\ th' = [th EXCEPT ![x] = Next1(@)]
  /\ UNCHANGED <<jobVars, store, base, given, asked, ever>>

\* An error of the GPU coordination ends the whole run.
CoordinationFails(x) ==
  /\ th[x].pc = "synth"
  /\ RecordOutcome(x[1], Head(th[x].cur), "failed")
  /\ Raise(x)
  /\ UNCHANGED <<jobVars, store, base, given, asked, ever>>

\* _record_cancelled_outcome: failed when the output cannot be removed.
RecordCancelled(x) ==
  /\ \E s \in {"cancelled", "failed"} : RecordOutcome(x[1], Head(th[x].cur), s)
  /\ th' = [th EXCEPT ![x] = Next1(@)]
  /\ UNCHANGED <<jobVars, store, base, given, asked, ever>>

\* The service noticed the cancellation and converged.
SynthesisCancelled(x) ==
  /\ th[x].pc = "synth"
  /\ Cancelled(x[1])
  /\ RecordCancelled(x)

\* The two checks after a synthesis; "finalizing" is emitted between them.
Made(x) ==
  /\ th[x].pc \in {"made", "final"}
  /\ IF Cancelled(x[1]) THEN RecordCancelled(x)
     ELSE /\ IF th[x].pc = "made"
             THEN /\ Goto(x, "final")
                  /\ istat' = [istat EXCEPT ![Head(th[x].cur)] = Told(@, "active")]
                  /\ iver' = [iver EXCEPT ![Head(th[x].cur)] = th[x].want]
             ELSE Goto(x, "commit") /\ UNCHANGED itemVars
          /\ UNCHANGED <<jobVars, manifests, asked, ever>>

Commit(x) ==
  LET t == Head(th[x].cur)
  IN /\ th[x].pc = "commit"
     /\ Record(x[1], t, priv[x[1]][LineOf[t]], th[x].want, "completed")
     /\ Goto(x, "settle")
     /\ UNCHANGED <<jobVars, store, base, given, asked, ever>>

\* Mutant: nobody looks once more after the commit.
Unsettled(x) == FALSE

\* The last check: a cancellation takes the committed version back.
TakenBack(x) == Cancelled(x[1])

Settle(x) ==
  LET t == Head(th[x].cur)
      j == x[1]
  IN /\ th[x].pc = "settle"
     /\ th' = [th EXCEPT ![x] = Next1(@)]
     /\ IF TakenBack(x)
        THEN \E s \in {"cancelled", "failed"} :
               LET h == Dropped(priv[j][LineOf[t]], iver[t])
               IN Record(j, t, h, Len(h) + 1, s)
        ELSE UNCHANGED <<itemVars, priv>>
     /\ UNCHANGED <<jobVars, store, base, given, asked, ever>>

-----------------------------------------------------------------------------
\* The job was evicted while the thread waited.  It does not count as cancelled
\* any more, and its next event raises; what failed, or was cancelled, until then
\* still leaves a version that no item is told.
Disowned(x) ==
  LET j == x[1]
      t == Head(th[x].cur)
      h == priv[j][LineOf[t]]
      leaves(s) == priv' = [priv EXCEPT ![j][LineOf[t]] = Appended(h, Len(h) + 1, t, s)]
  IN /\ j \notin known
     /\ th[x].pc \in Slow
     /\ \/ (th[x].pc = "sem" => Cardinality(Holders(x[2])) < Capacity[x[2]]) /\ UNCHANGED priv
        \/ th[x].pc # "sem" /\ leaves("failed")
        \/ th[x].pc = "synth" /\ Cancelled(j) /\ leaves("cancelled")
     /\ Raise(x)
     /\ UNCHANGED <<jobVars, itemVars, store, base, given, asked, ever>>

\* A step of a thread that is not a preemption.
ThreadStep(x) ==
  \/ /\ x[1] \in known
     /\ \/ Gate(x) \/ Enter(x) \/ Open(x) \/ OpenFails(x) \/ Line(x) \/ Load(x) \/ Attempt(x)
        \/ Start(x) \/ Synthesized(x) \/ LineFails(x) \/ CoordinationFails(x) \/ SynthesisCancelled(x)
        \/ Made(x) \/ Commit(x) \/ Settle(x)
  \/ Disowned(x)

\* The user deletes a version (delete_generation_version).
DeleteVersion(l) ==
  /\ \E id \in {store[l][i].id : i \in DOMAIN store[l]} : store' = [store EXCEPT ![l] = Dropped(@, id)]
  /\ UNCHANGED <<jobVars, itemVars, base, priv, given, th, asked, ever>>

JobStep(j) ==
  \/ Begin(j) \/ LoadManifest(j) \/ StartJob(j) \/ Join(j)
  \/ Persist(j) \/ PersistFails(j) \/ Finish(j) \/ Vanish(j)
  \/ \E l \in Lines : Renumber(j, l)

ManagerNext ==
  \/ \E j \in Jobs : Submit(j) \/ Evict(j) \/ Cancel(j) \/ JobStep(j)
  \/ \E x \in Threads : ThreadStep(x) \/ Preempted(x)

Next == ManagerNext \/ \E l \in Lines : DeleteVersion(l)

Spec == Init /\ [][Next]_vars

\* Threads run, and a service does not preempt a line for ever.
Fairness ==
  /\ \A j \in Jobs : WF_vars(JobStep(j))
  /\ \A x \in Threads : WF_vars(ThreadStep(x)) /\ SF_vars(Synthesized(x))

FairSpec == Spec /\ Fairness

-----------------------------------------------------------------------------
(***************************************************************************)
(* Properties.                                                             *)
(***************************************************************************)
Versions == [id : Nat \ {0}, task : Tasks \cup {Older}, status : Terminal]

\* Types.  A thread at work is on a task of its own job.
TypeOK ==
  /\ known \subseteq Jobs
  /\ jstat \in [Jobs -> {"new", "queued", "running", "cancelling"} \cup Terminal]
  /\ run \in [Jobs -> {"new", "pending", "loading", "loaded", "working", "persist", "finish",
                      "refused", "done"}]
  /\ broken \subseteq Jobs /\ lost \subseteq Jobs /\ asked \subseteq Jobs
  /\ istat \in [Tasks -> {"queued", "active", "cancelling"} \cup Terminal]
  /\ iver \in [Tasks -> Nat]
  /\ store \in [Lines -> Seq(Versions)]
  /\ base \in [Jobs -> [Lines -> Seq(Versions)]]
  /\ priv \in [Jobs -> [Lines -> Seq(Versions)]]
  /\ given \in [Jobs -> [Lines -> Seq([from : Nat, to : Nat])]]
  /\ ever \in [Lines -> SUBSET Versions]
  /\ \A x \in Threads :
       /\ th[x].pc \in {"done", "raised", "gate", "sem", "open", "sweep", "line", "load", "attempt",
                        "start", "synth", "made", "final", "commit", "settle"}
       /\ th[x].cur \in Seq(Tasks) /\ th[x].want \in Nat
       /\ th[x].pc \notin {"done", "raised", "gate"} =>
            th[x].cur # <<>> /\ JobOf[Head(th[x].cur)] = x[1] /\ run[x[1]] = "working"

\* What a job loaded stays the beginning of what it wants to persist, so that
\* persist_manifest_delta never refuses it: a version taken back after a late
\* cancellation is the job's own, whatever numbers the history has.
BaselineKept ==
  \A j \in Jobs, l \in Lines : IsPrefix(base[j][l], priv[j][l])

\* The numbers of a line's versions on disk grow, through the concurrent merges
\* of jobs that counted from the same history and the user's deletions.
IdsIncrease ==
  \A l \in Lines : \A i, k \in DOMAIN store[l] : i < k => store[l][i].id < store[l][k].id

Outcomes(t) == {v \in ever[LineOf[t]] : v.task = t}

\* Each task of a finished run left at most one version, whatever was retried
\* after a preemption, cancelled late or swept after a failed load; and exactly
\* one if nobody cancelled the job and its run did not raise.
OneOutcome ==
  \A j \in Jobs : run[j] = "done" /\ j \notin lost =>
    \A t \in TasksOf(j) :
      /\ Cardinality(Outcomes(t)) <= 1
      /\ j \notin asked \cup broken => Outcomes(t) # {}

\* No other task of t's job is on t's line.
Alone(t) == \A u \in TasksOf(JobOf[t]) : LineOf[u] = LineOf[t] => u = t

\* t was routed, or no number was missing in the history its job loaded.
Named(t) == t \in Unroutable => LET h == base[JobOf[t]][LineOf[t]] IN MaxId(h) = Len(h)

\* The item of a finished job nobody cancelled names the version its own task
\* made, with the item's status, although other jobs' versions took the number
\* it was first given.  Two cases are left out, in which it may name another's
\* version or none: two tasks of a job on one line, whose renumbering may take
\* one for the other, and a task without a route on a line that had lost a
\* version (_record_prefailed_items tells the number it asked for).
ItemIsHonest(t) ==
  iver[t] # 0 => \E v \in Outcomes(t) : v.id = iver[t] /\ v.status = istat[t]

HonestItems ==
  \A t \in Tasks :
    run[JobOf[t]] = "done" /\ JobOf[t] \notin lost \cup asked /\ Alone(t) /\ Named(t)
      => ItemIsHonest(t)

\* A job that ends as cancelled leaves no finished audio behind a cancelled
\* item: a completed version is only kept for an item shown as completed.
CancelledStaysSilent ==
  \A j \in Jobs : run[j] = "done" /\ jstat[j] = "cancelled" =>
    \A t \in TasksOf(j) : istat[t] = "cancelled" => \A v \in Outcomes(t) : v.status # "completed"

\* A submitted job comes to its end, whatever raises, is cancelled, fails or is
\* preempted, and however many other jobs want the same resource groups.
JobsEnd == \A j \in Jobs : run[j] = "pending" ~> run[j] = "done"

\* The history of a line, whoever merges into it: it keeps what was there when a
\* job began and only grows in numbers (persist_manifest_delta of queue.py).
VersionsKept == TypeOK /\ BaselineKept /\ IdsIncrease
=============================================================================
