------------------------------ MODULE RepoSync ------------------------------
(***************************************************************************)
(* The checkouts of the services and the commits they are pinned to        *)
(* (sync_repos and repo.lock.json of scripts/tts_more_deploy.py).          *)
(*                                                                         *)
(* A run visits the checkouts one after the other and may fail, or be cut, *)
(* at each of them.  The user works in the checkouts, and the remote       *)
(* branches move, at any moment.  A commit is a place on the remote branch *)
(* and whether the user's own commit is on top of it.                      *)
(***************************************************************************)
EXTENDS Naturals, Sequences

CONSTANTS Order,        \* the selected repositories, in the order of the lock
          MaxHead,      \* bound on the commits of a remote branch
          MaxWorks,     \* bound on what the user does
          MaxSyncs      \* bound on the runs

Repos == {Order[i] : i \in DOMAIN Order}

\* load_repo_lock refuses an empty lock, _validate_repo_manifest a service twice.
ASSUME LockAssumption ==
  Order \in Seq(Repos) \ {<<>>} /\ \A i, j \in DOMAIN Order : Order[i] = Order[j] => i = j

VARIABLES
  remote,     \* repository -> the last commit of its remote branch
  local,      \* repository -> its checkout
  pins,       \* repository -> the commit repo.lock.json pins
  sync,       \* the run under way
  works, syncs

syncVars == <<remote, local, pins, sync, works, syncs>>

Tip(n) == [on |-> n, own |-> FALSE]
NoCheckout == [there |-> "no", tip |-> Tip(0), head |-> Tip(0), dirty |-> FALSE]
NoSync == [pc |-> "rest", clean |-> FALSE, force |-> FALSE, latest |-> FALSE, at |-> 1,
            cloned |-> FALSE, dirty |-> {}, same |-> {}, updates |-> <<>>]

SyncInit ==
  /\ remote = [r \in Repos |-> 1]
  /\ local = [r \in Repos |-> NoCheckout]
  /\ pins = [r \in Repos |-> Tip(1)]
  /\ sync = NoSync /\ works = 0 /\ syncs = 0

Here == Order[sync.at]
There(r) == local[r].there = "yes"
Fail == sync' = NoSync
SyncGoes(pc) == sync' = [sync EXCEPT !.pc = pc]

\* Mutant: a checkout that will be cloned again need not be clean.
MayRemoveAny(r) == local[r].there # "partial"

\* _ensure_clean_repo
Clean(r) == ~local[r].dirty

\* _validate_git_checkout refuses what a clone that was killed has left.
MayRemove(r) == local[r].there # "partial" /\ Clean(r)

\* With --clean, every checkout is looked at before the first is removed.
StartSync(clean, force, latest) ==
  /\ sync.pc = "rest" /\ syncs < MaxSyncs
  /\ syncs' = syncs + 1
  /\ clean => \A r \in Repos : MayRemove(r)
  /\ sync' = [NoSync EXCEPT !.pc = IF clean THEN "remove" ELSE "visit", !.clean = clean, !.force = force,
                !.latest = latest, !.dirty = {r \in Repos : local[r].dirty}, !.same = Repos]
  /\ UNCHANGED <<remote, local, pins, works>>

\* _remove_path, one checkout after the other
RemoveCheckout(r) ==
  /\ sync.pc = "remove" /\ local[r].there # "no"
  /\ local' = [local EXCEPT ![r] = NoCheckout]
  /\ UNCHANGED <<remote, pins, sync, works, syncs>>

RemovedAll ==
  /\ sync.pc = "remove" /\ \A r \in Repos : local[r].there = "no"
  /\ SyncGoes("visit")
  /\ UNCHANGED <<remote, local, pins, works, syncs>>

\* _run_clone; a clone that is killed leaves a directory behind.
Clone ==
  /\ sync.pc = "visit" /\ local[Here].there = "no"
  /\ \/ /\ local' = [local EXCEPT ![Here] = [NoCheckout EXCEPT !.there = "yes", !.tip = Tip(remote[Here]),
                                                             !.head = Tip(remote[Here])]]
        /\ sync' = [sync EXCEPT !.pc = "select", !.cloned = TRUE]
     \/ local' = [local EXCEPT ![Here].there = "partial"] /\ Fail
  /\ UNCHANGED <<remote, pins, works, syncs>>

\* A checkout that was there is refused when it is dirty; else its branch is
\* pulled, which fails when both sides moved on.
Pull ==
  /\ sync.pc = "visit" /\ There(Here) /\ ~sync.force /\ Clean(Here)
  /\ LET tip == local[Here].tip
     IN IF tip.own /\ tip.on < remote[Here]
        THEN local' = [local EXCEPT ![Here].head = tip] /\ Fail
        ELSE LET new == [tip EXCEPT !.on = remote[Here]]
             IN local' = [local EXCEPT ![Here].tip = new, ![Here].head = new] /\ SyncGoes("select")
  /\ UNCHANGED <<remote, pins, works, syncs>>

\* --force-reset-repos
Reset ==
  /\ sync.pc = "visit" /\ There(Here) /\ sync.force
  /\ local' = [local EXCEPT ![Here].tip = Tip(remote[Here]), ![Here].head = Tip(remote[Here]), ![Here].dirty = FALSE]
  /\ sync' = [sync EXCEPT !.pc = "select", !.dirty = @ \ {Here}]
  /\ UNCHANGED <<remote, pins, works, syncs>>

\* Nothing is left to check out.
AtPinned(r) == ~sync.cloned /\ local[r].head = pins[r]

\* The pinned commit is fetched, which fails for one the remote never had,
\* and checked out, which a dirty checkout may refuse.
CheckoutPinned ==
  /\ sync.pc = "select" /\ ~sync.latest
  /\ IF AtPinned(Here) THEN SyncGoes("next") /\ UNCHANGED local
     ELSE /\ ~pins[Here].own /\ pins[Here].on <= remote[Here]
          /\ local' = [local EXCEPT ![Here].head = pins[Here]]
          /\ SyncGoes("next")
  /\ UNCHANGED <<remote, pins, works, syncs>>

\* --latest --write-lock: the commit that was reached is remembered.
RememberLatest ==
  /\ sync.pc = "select" /\ sync.latest
  /\ sync' = [sync EXCEPT !.pc = "next", !.updates = Append(@, local[Here].head)]
  /\ UNCHANGED <<remote, local, pins, works, syncs>>

\* The submodules of the commit are updated; the next repository
NextRepo ==
  /\ sync.pc = "next"
  /\ sync' = IF sync.at < Len(Order) THEN [sync EXCEPT !.pc = "visit", !.at = @ + 1, !.cloned = FALSE]
             ELSE [sync EXCEPT !.pc = IF sync.latest THEN "save" ELSE "done"]
  /\ UNCHANGED <<remote, local, pins, works, syncs>>

\* _save_repo_lock_commit_updates: all of them, once the last was reached
SaveLock ==
  /\ sync.pc = "save"
  /\ pins' = [r \in Repos |-> sync.updates[CHOOSE i \in DOMAIN Order : Order[i] = r]]
  /\ SyncGoes("done")
  /\ UNCHANGED <<remote, local, works, syncs>>

EndSync ==
  /\ sync.pc = "done"
  /\ Fail
  /\ UNCHANGED <<remote, local, pins, works, syncs>>

-----------------------------------------------------------------------------
\* A command fails, or the run is killed.
CutSync ==
  /\ sync.pc \notin {"rest", "done"}
  /\ Fail
  /\ UNCHANGED <<remote, local, pins, works, syncs>>

Work == works < MaxWorks /\ works' = works + 1

UserWorks(r) ==
  /\ Work
  /\ There(r)
  /\ \/ local' = [local EXCEPT ![r].dirty = TRUE]
     \/ /\ local[r].head = local[r].tip
        /\ local' = [local EXCEPT ![r].tip.own = TRUE, ![r].head.own = TRUE, ![r].dirty = FALSE]
  /\ sync' = [sync EXCEPT !.dirty = @ \ {r}, !.same = @ \ {r}]
  /\ UNCHANGED <<remote, pins, syncs>>

UserRemoves(r) ==
  /\ Work
  /\ sync.pc = "rest" /\ local[r].there # "no"
  /\ local' = [local EXCEPT ![r] = NoCheckout]
  /\ UNCHANGED <<remote, pins, sync, syncs>>

RemoteMoves(r) ==
  /\ remote[r] < MaxHead
  /\ remote' = [remote EXCEPT ![r] = @ + 1]
  /\ UNCHANGED <<local, pins, sync, works, syncs>>

SyncNext ==
  \/ \E clean, force, latest \in BOOLEAN : StartSync(clean, force, latest)
  \/ RemovedAll \/ Clone \/ Pull \/ Reset \/ CheckoutPinned \/ RememberLatest \/ NextRepo \/ SaveLock
  \/ EndSync \/ CutSync
  \/ \E r \in Repos : RemoveCheckout(r) \/ UserWorks(r) \/ UserRemoves(r) \/ RemoteMoves(r)

SyncSpec == SyncInit /\ [][SyncNext]_syncVars

-----------------------------------------------------------------------------
\* Work that was not committed when a run began is there when it ends, or
\* fails, or is cut; only --force-reset-repos drops it.
UncommittedKept == \A r \in sync.dirty : There(r) /\ local[r].dirty

\* A run that ends well leaves every checkout, unless the user worked in it
\* meanwhile, at the commit the lock pins, whether the run followed the lock
\* or moved it, and whatever an earlier run that failed half way had left.
SyncedMeansPinned == sync.pc = "done" => \A r \in sync.same : There(r) /\ local[r].head = pins[r]

\* A synchronisation loses nothing that was not committed, and leaves what the
\* lock says.
CheckoutsKept == UncommittedKept /\ SyncedMeansPinned
=============================================================================
