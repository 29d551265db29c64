--------------------------- MODULE PortableControl ---------------------------
(***************************************************************************)
(* The launchers of portable packages (backend/app/supervisor.py,          *)
(* portable_control.py, windows_job.py).                                   *)
(*                                                                         *)
(* A request holds the guard of its component.  An action (stop, repair)   *)
(* reserves its id, spawns the launcher suspended, puts it into a job that *)
(* is killed when its handle closes, resumes it and waits a moment; an     *)
(* action that is not over by then is tracked, and asked about under the   *)
(* lock of all actions.  Start launchers are spawned without a job, for    *)
(* they leave the worker behind.  A transaction of the registry holds the  *)
(* guards of all components.                                               *)
(*                                                                         *)
(* What a package looks like (its files, its build) may change at any      *)
(* moment outside a launch, whose handles deny it.                         *)
(***************************************************************************)
EXTENDS Naturals, FiniteSets, Sequences, SequencesExt

CONSTANTS Threads, Components,
          LockOrder,      \* PORTABLE_COMPONENT_LOCK_ORDER
          ActionIds,
          Looks,          \* what a package may look like: its files and
          Build,          \* the build that its manifest names
          First,          \* what a package looks like at first
          Gone,           \* no package that can be managed
          MaxActive,      \* _MAX_ACTIVE_ACTIONS
          Started,        \* bound: the components whose start is asked for
          MaxRequests,    \* bound on the requests
          MaxMishaps      \* bound on changes of a package and ends of the application

ASSUME OrderAssumption == LockOrder \in Seq(Components) /\ {LockOrder[i] : i \in DOMAIN LockOrder} = Components
ASSUME LookAssumption == First \in Looks /\ Gone \notin Looks /\ MaxActive \in Nat \ {0}

VARIABLES
  package,    \* component -> what its package looks like
  guard,      \* component -> the thread that holds its lifecycle guard
  mutex,      \* the thread that holds _actions_lock over several steps
  actions,    \* _actions, the least recently asked for first
  reserved,   \* _action_reservations
  runs,       \* the launchers spawned, with what is alive of their trees
  request,    \* thread -> the request it works on
  requests, mishaps

controlVars == <<package, guard, mutex, actions, reserved, runs, request, requests, mishaps>>

None == "none"
ASSUME NoneAssumption == None \notin Threads

AtRest == [pc |-> "idle", kind |-> None, of |-> 1, id |-> None, seen |-> Gone, saw |-> Gone,
           mine |-> FALSE, run |-> 0, answer |-> None]

ControlInit ==
  /\ package = [c \in Components |-> First]
  /\ guard = [c \in Components |-> None]
  /\ mutex = None
  /\ actions = <<>>
  /\ reserved = {}
  /\ runs = <<>>
  /\ request = [t \in Threads |-> AtRest]
  /\ requests = 0 /\ mishaps = 0

Of(t) == LockOrder[request[t].of]
To(t, pc) == request' = [request EXCEPT ![t].pc = pc]
Answered(t, a) == [request EXCEPT ![t].pc = "answer", ![t].answer = a, ![t].seen = Gone, ![t].saw = Gone]
Answer(t, a) == request' = Answered(t, a)

AliveRoot(p) == runs[p].root \in {"suspended", "running"}
Dead(p) == ~AliveRoot(p) /\ ~runs[p].rest

\* _terminate_job_tree; one of ending the job and closing it succeeds.
KillTree(p) ==
  runs' = [runs EXCEPT ![p].root = IF AliveRoot(p) THEN "killed" ELSE @, ![p].rest = FALSE]

\* A handle that is closed kills what is left of the tree.
CloseJob(p) == KillTree(p)

\* What an error of the wait for a start ends: its launcher has no job.
EndLauncher(p) == runs' = [runs EXCEPT ![p].root = IF AliveRoot(p) THEN "killed" ELSE @]

\* The way out of a launch that failed
EndLaunch(p) == KillTree(p)

Tracked(i) == CHOOSE k \in DOMAIN actions : actions[k].id = i
TrackedIds == {actions[k].id : k \in DOMAIN actions}
Dropped(k) == RemoveAt(actions, k)

\* move_to_end
ToEnd(k, entry) == Append(Dropped(k), entry)

-----------------------------------------------------------------------------
(***************************************************************************)
(* Requests and guards.                                                    *)
(***************************************************************************)
\* The supervisor's start, stop, repair and action_status, and
\* run_generic_transaction, which takes all guards
AskControl(t, kind) ==
  /\ request[t].pc = "idle"
  /\ requests < MaxRequests
  /\ requests' = requests + 1
  /\ \E c \in {k \in DOMAIN LockOrder : CASE kind = "all" -> k = 1 [] kind = "start" -> LockOrder[k] \in Started
                                         [] OTHER -> TRUE},
        i \in IF kind \in {"act", "status"} THEN ActionIds ELSE {None} :
       request' = [request EXCEPT ![t] = [AtRest EXCEPT !.pc = "enter", !.kind = kind, !.of = c, !.id = i]]
  /\ UNCHANGED <<package, guard, mutex, actions, reserved, runs, mishaps>>

\* Mutant: each thread takes the guards in an order of its own.
OwnOrder(t) == IF request[t].kind = "all" /\ t = CHOOSE u \in Threads : TRUE
               THEN Len(LockOrder) + 1 - request[t].of ELSE request[t].of

\* The position, in LockOrder, of the guard a request takes next
NextGuard(t) == request[t].of

GuardFree(c) == guard[c] = None

\* portable_lifecycle_guard, _all_component_guards
EnterGuard(t) ==
  /\ request[t].pc = "enter"
  /\ LET c == LockOrder[NextGuard(t)]
     IN GuardFree(c) /\ guard' = [guard EXCEPT ![c] = t]
  /\ IF request[t].kind # "all" THEN To(t, "resolve")
     ELSE IF request[t].of = Len(LockOrder) THEN Answer(t, "inside")
     ELSE request' = [request EXCEPT ![t].of = @ + 1]
  /\ UNCHANGED <<package, mutex, actions, reserved, runs, requests, mishaps>>

\* read_portable_package: what the manifest and the files of a package say
Descriptor(c) == package[c]

\* _management_errors
Manageable(d) == d # Gone

\* _portable_action: the package as its locator finds it now
ResolveLocator(t) ==
  /\ request[t].pc = "resolve"
  /\ IF ~Manageable(Descriptor(Of(t))) THEN Answer(t, "unmanageable")
     ELSE request' = [request EXCEPT ![t].seen = Descriptor(Of(t)),
                        ![t].pc = IF request[t].kind = "status" THEN "lookup" ELSE "inspect"]
  /\ UNCHANGED <<package, guard, mutex, actions, reserved, runs, requests, mishaps>>

SameBuild(x, y) == Manageable(x) /\ Manageable(y) /\ Build[x] = Build[y]

\* _action_context
Inspect(t) ==
  /\ request[t].pc = "inspect"
  /\ IF SameBuild(Descriptor(Of(t)), request[t].seen)
     THEN request' = [request EXCEPT ![t].saw = Descriptor(Of(t)), ![t].seen = Gone,
                        ![t].pc = IF request[t].kind = "act" THEN "reserve" ELSE "spawn"]
     ELSE Answer(t, "refused")
  /\ UNCHANGED <<package, guard, mutex, actions, reserved, runs, requests, mishaps>>

-----------------------------------------------------------------------------
(***************************************************************************)
(* A launch.                                                               *)
(***************************************************************************)
\* Mutant: a launcher whose state cannot be read counts as one that ended.
MaybeCompleted(k) == TRUE

\* _action_completed; the query may fail, and is then no proof.
Completed(k) == ~AliveRoot(actions[k].run)

Full == Len(actions) + Cardinality(reserved) >= MaxActive

Taken(i) == i \in TrackedIds \cup reserved

\* _reserve_action: at the limit, an action that is over gives way, unless
\* its end cannot be seen or its job not be closed.
Reserve(t) ==
  /\ request[t].pc = "reserve"
  /\ mutex = None
  /\ LET i == request[t].id
         keep == reserved' = reserved \cup {i} /\ request' = [request EXCEPT ![t].pc = "spawn", ![t].mine = TRUE]
     IN \/ /\ Taken(i) \/ Full
           /\ Answer(t, "refused")
           /\ UNCHANGED <<actions, reserved, runs>>
        \/ /\ ~Taken(i) /\ ~Full
           /\ keep
           /\ UNCHANGED <<actions, runs>>
        \/ \E k \in DOMAIN actions :
             /\ ~Taken(i) /\ Full
             /\ Completed(k)
             /\ CloseJob(actions[k].run)
             /\ actions' = Dropped(k)
             /\ keep
  /\ UNCHANGED <<package, guard, mutex, requests, mishaps>>

\* CREATE_SUSPENDED
Created(kind) == IF kind = "act" THEN "suspended" ELSE "running"

\* _assert_context_stable
SameContext(t) == Descriptor(Of(t)) = request[t].saw

\* _spawn_checked, up to the spawn: the identity guard is taken, and the
\* package still looks as it did.
SpawnLauncher(t) ==
  /\ request[t].pc = "spawn"
  /\ \/ /\ SameContext(t)
        /\ runs' = Append(runs, [of |-> Of(t), kind |-> request[t].kind, root |-> Created(request[t].kind),
                                 rest |-> FALSE, job |-> FALSE, told |-> {}])
        /\ request' = [request EXCEPT ![t].run = Len(runs) + 1,
                         ![t].pc = IF request[t].kind = "act" THEN "assign" ELSE "handshake"]
     \/ Answer(t, "refused") /\ UNCHANGED runs
  /\ UNCHANGED <<package, guard, mutex, actions, reserved, requests, mishaps>>

\* WindowsKillOnCloseJob.assign
Assign(t) ==
  /\ request[t].pc = "assign"
  /\ \/ runs' = [runs EXCEPT ![request[t].run].job = TRUE] /\ To(t, "resume")
     \/ EndLaunch(request[t].run) /\ Answer(t, "refused")
  /\ UNCHANGED <<package, guard, mutex, actions, reserved, requests, mishaps>>

\* WindowsKillOnCloseJob.resume
Resume(t) ==
  /\ request[t].pc = "resume"
  /\ \/ runs' = [runs EXCEPT ![request[t].run].root = IF @ = "suspended" THEN "running" ELSE @] /\ To(t, "handshake")
     \/ EndLaunch(request[t].run) /\ Answer(t, "refused")
  /\ UNCHANGED <<package, guard, mutex, actions, reserved, requests, mishaps>>

\* The wait of an action's launcher ends with an exit code, or without one,
\* which an error counts as; a failure, or a package that cannot be looked at
\* again, ends the launch.
Handshake(t) ==
  /\ request[t].pc = "handshake" /\ request[t].kind = "act"
  /\ LET p == request[t].run
     IN \/ /\ runs[p].root = "exit-0"
           /\ CloseJob(p)
           /\ \E a \in {"done", "refused"} : Answer(t, a)
        \/ EndLaunch(p) /\ Answer(t, "refused")
        \/ To(t, "commit") /\ UNCHANGED runs
  /\ UNCHANGED <<package, guard, mutex, actions, reserved, requests, mishaps>>

\* A start: what ended well must have left a ready operation behind; an
\* error of the wait ends the launcher.
StartHandshake(t) ==
  /\ request[t].pc = "handshake" /\ request[t].kind = "start"
  /\ LET p == request[t].run
     IN \/ /\ runs[p].root = "exit-0"
           /\ \E a \in {"done", "refused"} : Answer(t, a)
           /\ UNCHANGED runs
        \/ /\ runs[p].root \in {"exit-1", "killed"}
           /\ Answer(t, "refused")
           /\ UNCHANGED runs
        \/ Answer(t, "running") /\ UNCHANGED runs
        \/ EndLauncher(p) /\ Answer(t, "refused")
  /\ UNCHANGED <<package, guard, mutex, actions, reserved, requests, mishaps>>

\* _commit_action_reservation
Commit(t) ==
  /\ request[t].pc = "commit"
  /\ mutex = None
  /\ reserved' = reserved \ {request[t].id}
  /\ actions' = Append(actions, [id |-> request[t].id, of |-> Of(t), run |-> request[t].run,
                                 saw |-> request[t].saw, blocked |-> FALSE])
  /\ request' = [Answered(t, "running") EXCEPT ![t].mine = FALSE]
  /\ UNCHANGED <<package, guard, mutex, runs, requests, mishaps>>

\* The reservation and the guards are given back, and the client hears.
Finish(t) ==
  /\ request[t].pc = "answer"
  /\ mutex = None
  /\ reserved' = IF request[t].mine THEN reserved \ {request[t].id} ELSE reserved
  /\ guard' = [c \in Components |-> IF guard[c] = t THEN None ELSE guard[c]]
  /\ runs' = IF request[t].run = 0 THEN runs
             ELSE [runs EXCEPT ![request[t].run].told = @ \cup ({request[t].answer} \ {"running", "error"})]
  /\ request' = [request EXCEPT ![t] = AtRest]
  /\ UNCHANGED <<package, mutex, actions, requests, mishaps>>
-----------------------------------------------------------------------------
(***************************************************************************)
(* action_status.                                                          *)
(***************************************************************************)
\* The tracked action, of this package in the build it was launched in; one
\* that was blocked stays so.
Lookup(t) ==
  /\ request[t].pc = "lookup"
  /\ mutex = None
  /\ IF \E k \in DOMAIN actions : /\ actions[k].id = request[t].id /\ actions[k].of = Of(t)
                                  /\ SameBuild(actions[k].saw, request[t].seen)
     THEN LET k == Tracked(request[t].id)
          IN IF actions[k].blocked
             THEN /\ actions' = ToEnd(k, actions[k])
                  /\ request' = [Answered(t, "blocked") EXCEPT ![t].run = actions[k].run]
                  /\ UNCHANGED mutex
             ELSE /\ mutex' = t
                  /\ request' = [request EXCEPT ![t].pc = "look", ![t].run = actions[k].run, ![t].seen = Gone]
                  /\ UNCHANGED actions
     ELSE Answer(t, "unknown") /\ UNCHANGED <<mutex, actions>>
  /\ UNCHANGED <<package, guard, reserved, runs, requests, mishaps>>

\* What becomes of the tree of a package that changed
EndBlocked(p) == KillTree(p)

\* The package must look as it did at the launch: _block_identity_changed.
Look(t) ==
  /\ request[t].pc = "look"
  /\ LET k == Tracked(request[t].id)
     IN IF Descriptor(Of(t)) = actions[k].saw
        THEN To(t, "poll") /\ UNCHANGED <<actions, runs, mutex>>
        ELSE /\ actions' = ToEnd(k, [actions[k] EXCEPT !.blocked = TRUE])
             /\ EndBlocked(actions[k].run)
             /\ Answer(t, "blocked")
             /\ mutex' = None
  /\ UNCHANGED <<package, guard, reserved, requests, mishaps>>

\* _close_tracked_job
CloseTracked(p) == CloseJob(p)

\* The exit code.  The query may fail, and so may the closing of the job.
Poll(t) ==
  /\ request[t].pc = "poll"
  /\ LET k == Tracked(request[t].id)
         p == actions[k].run
     IN \/ Answer(t, "error") /\ UNCHANGED <<runs, actions>>
        \/ AliveRoot(p) /\ Answer(t, "running") /\ actions' = ToEnd(k, actions[k]) /\ UNCHANGED runs
        \/ ~AliveRoot(p) /\ Answer(t, "error") /\ actions' = ToEnd(k, actions[k]) /\ UNCHANGED runs
        \/ /\ ~AliveRoot(p)
           /\ CloseTracked(p)
           /\ actions' = ToEnd(k, actions[k])
           /\ Answer(t, IF runs[p].root = "exit-0" THEN "done" ELSE "failed")
  /\ mutex' = None
  /\ UNCHANGED <<package, guard, reserved, requests, mishaps>>

-----------------------------------------------------------------------------
(***************************************************************************)
(* The launchers, the packages and the end of the application.             *)
(***************************************************************************)
Exit(p, code) ==
  /\ runs[p].root = "running"
  /\ runs' = [runs EXCEPT ![p].root = code]
  /\ UNCHANGED <<package, guard, mutex, actions, reserved, request, requests, mishaps>>

\* The launcher of an action starts other processes, which outlive it.
Fork(p) ==
  /\ runs[p].root = "running" /\ runs[p].kind = "act" /\ ~runs[p].rest
  /\ runs' = [runs EXCEPT ![p].rest = TRUE]
  /\ UNCHANGED <<package, guard, mutex, actions, reserved, request, requests, mishaps>>

\* _execution_identity_guard denies it during a launch.
Change(c) ==
  /\ mishaps < MaxMishaps
  /\ mishaps' = mishaps + 1
  /\ \A t \in Threads : request[t].pc \in {"assign", "resume", "handshake"} => Of(t) # c
  /\ \E l \in (Looks \cup {Gone}) \ {package[c]} : package' = [package EXCEPT ![c] = l]
  /\ UNCHANGED <<guard, mutex, actions, reserved, runs, request, requests>>

\* The application is killed: the handles of its jobs close.
Die ==
  /\ mishaps < MaxMishaps
  /\ mishaps' = mishaps + 1
  /\ runs' = [p \in DOMAIN runs |->
               [runs[p] EXCEPT !.root = IF @ = "killed" \/ (runs[p].job /\ AliveRoot(p)) THEN "lost" ELSE @,
                               !.rest = @ /\ ~runs[p].job]]
  /\ actions' = <<>> /\ reserved' = {} /\ mutex' = None
  /\ guard' = [c \in Components |-> None]
  /\ request' = [t \in Threads |-> AtRest]
  /\ UNCHANGED <<package, requests>>

RequestStep(t) ==
  \/ EnterGuard(t) \/ ResolveLocator(t) \/ Inspect(t)
  \/ Reserve(t) \/ SpawnLauncher(t) \/ Assign(t) \/ Resume(t) \/ Handshake(t) \/ StartHandshake(t) \/ Commit(t)
  \/ Lookup(t) \/ Look(t) \/ Poll(t) \/ Finish(t)

ControlNext ==
  \/ \E t \in Threads : RequestStep(t) \/ \E kind \in {"act", "start", "status", "all"} : AskControl(t, kind)
  \/ \E p \in DOMAIN runs : Fork(p) \/ \E code \in {"exit-0", "exit-1"} : Exit(p, code)
  \/ \E c \in Components : Change(c)
  \/ Die

ControlSpec == ControlInit /\ [][ControlNext]_controlVars

-----------------------------------------------------------------------------
\* Type invariant of the packages, the guards and the actions; whoever works
\* on a component holds its guard.
ControlTypeOK ==
  /\ package \in [Components -> Looks \cup {Gone}]
  /\ mutex \in Threads \cup {None}
  /\ reserved \subseteq ActionIds /\ TrackedIds \subseteq ActionIds
  /\ \A k \in DOMAIN actions : actions[k].run \in DOMAIN runs
  /\ \A t \in Threads : request[t].pc \notin {"idle", "enter"} => guard[Of(t)] = t

\* Never more actions than the limit, launches under way included, and never
\* two of one id: when an action is committed, its id is free (the comment of
\* _commit_action_reservation calls the collision unreachable).
ActionsBounded ==
  /\ Len(actions) + Cardinality(reserved) <= MaxActive
  /\ Cardinality(TrackedIds) = Len(actions)
  /\ TrackedIds \cap reserved = {}

\* Nothing of an action runs unwatched: what is alive of its tree, once the
\* launcher was resumed, belongs to a tracked action or to a launch under
\* way, also when the launch failed, the action gave way to another, or the
\* application was killed.
NothingRunsUnwatched ==
  \A p \in DOMAIN runs :
    runs[p].kind = "act" /\ (runs[p].root = "running" \/ runs[p].rest) =>
      \/ \E k \in DOMAIN actions : actions[k].run = p
      \/ \E t \in Threads : request[t].run = p /\ request[t].pc # "answer"

\* What a client was told is over is over: the tree of an action that was
\* reported as done, failed, or blocked for its changed package is dead, and
\* stays so.
OverMeansDead ==
  \A p \in DOMAIN runs :
    runs[p].kind = "act" /\ runs[p].told \cap {"done", "failed", "blocked"} # {} => Dead(p)

\* A launcher is killed only in a launch that is then refused, or for a
\* package that changed, which is then reported; never to make room.
KilledForCause ==
  \A p \in DOMAIN runs :
    runs[p].root = "killed" =>
      \/ runs[p].told \cap {"refused", "blocked"} # {}
      \/ \E t \in Threads : request[t].run = p /\ request[t].answer \in {"refused", "blocked"}

\* Requests never wait for one another without end: as long as one is
\* unanswered, one can take a step (PORTABLE_COMPONENT_LOCK_ORDER, and the
\* lock of all actions inside the guards).
ControlRequestsMove ==
  (\E t \in Threads : request[t].pc # "idle") => \E t \in Threads : ENABLED RequestStep(t)

\* Everything that a launch has started is accounted for, from its creation to
\* its reported end, within the limit, and is killed only for a reason.
LaunchesAccounted ==
  /\ ControlTypeOK
  /\ ActionsBounded
  /\ NothingRunsUnwatched
  /\ OverMeansDead
  /\ KilledForCause
=============================================================================
