--------------------------- MODULE GpuCoordinator ---------------------------
(***************************************************************************)
(* The native-priority GPU coordinator (native_gpu/coordinator.py) and the *)
(* durable ownership journal it writes ahead of every Comfy grant          *)
(* (native_gpu/journal.py), through crashes, restarts and failed commits.  *)
(*                                                                         *)
(* Every handler runs under one condition variable, so one iteration of a  *)
(* handler between two waits is one step.  Clients are arbitrary: any      *)
(* participant may report anything in Reports at any time, and a reply may *)
(* never reach its caller.                                                 *)
(*                                                                         *)
(* Time is kept only as what the code compares it with: `fresh' (a report  *)
(* is younger than freshness_seconds), a lease's `expired' (its TTL has    *)
(* passed) and a report's `mature' (idle_seconds reached the threshold).   *)
(***************************************************************************)
EXTENDS Naturals, FiniteSets

CONSTANTS Groups,        \* resource groups (one per GPU host)
          Participants,  \* registered native TTS processes
          GroupOf,       \* participant -> its only group
          Instances,     \* instance ids (one uuid4 per native process start)
          Reports,       \* the statuses a participant may report
          Tokens,        \* lease tokens (token_urlsafe: never issued twice)
          MaxWaiters,    \* bound on concurrent acquire_native calls of one participant
          None           \* absence of a report, a lease or an identity

Residencies == {"cpu", "gpu", "unknown"}

\* NativeStatus.  `busy' is active or waiting, which the code only ever reads
\* together; the pid is a function of the instance id; "unknown" stands for
\* every residency that is neither cpu nor gpu.
Status == [inst: Instances, rev: Nat, busy: BOOLEAN, ready: BOOLEAN,
           residency: Residencies, mature: BOOLEAN]

\* "native" covers the reasons a native raises, "fault" a closed coordinator
\* or a failed journal commit.
Reasons == {"none", "native", "expired", "unclean", "fault"}

Lease == [token: Tokens, expired: BOOLEAN, revoked: BOOLEAN,
          reason: Reasons, cleanupFailed: BOOLEAN]

Identity == Instances \X Nat

ASSUME GroupAssumption == GroupOf \in [Participants -> Groups]
ASSUME ReportAssumption == Reports \subseteq Status
ASSUME WaiterAssumption == MaxWaiters \in Nat
ASSUME NoneAssumption == None \notin Status /\ None \notin Lease /\ None \notin Identity

VARIABLES
  phase,          \* "up", "closed" (close() ran) or "down" (no process)
  obs,            \* participant -> last accepted report
  fresh,          \* participants whose last report is younger than freshness_seconds
  nativeTokens,   \* native tokens handed out by this process
  waiters,        \* participant -> acquire_native calls in progress
  lease,          \* group -> the Comfy lease
  offloading,     \* participant -> identity of the offload in progress
  offloadFailed,  \* participant -> identity of the last failed offload
  recovery,       \* groups that need maintenance recovery
  journalOpen,    \* this process owns the journal lock and read the file
  memory,         \* dirty groups in the journal object
  disk,           \* dirty groups in the journal file
  file,           \* "absent" (never deployed), "ok" or "bad" (missing, corrupt)
  claims,         \* group -> Comfy tokens granted and not yet declared clean by their holder
  issued          \* every token ever handed out

procVars    == <<phase, recovery>>
nativeVars  == <<obs, fresh, nativeTokens, waiters>>
offloadVars == <<offloading, offloadFailed>>
journalVars == <<journalOpen, memory, disk, file>>
ghostVars   == <<claims, issued>>
vars == <<procVars, nativeVars, lease, offloadVars, journalVars, ghostVars>>

-----------------------------------------------------------------------------
Members(g) == {p \in Participants : GroupOf[p] = g}

NativeActive(g)  == \E n \in nativeTokens : GroupOf[n.participant] = g
NativeWaiting(g) == \E p \in Members(g) : waiters[p] > 0
Offloading(g)    == \E p \in Members(g) : offloading[p] # None

\* A report that is recent and says the native is serving and idle.
Settled(p) == /\ obs[p] # None
              /\ p \in fresh
              /\ obs[p].ready
              /\ ~obs[p].busy

\* _native_cpu_reasons(g) is empty.
NativesOnCpu(g) ==
  /\ g \notin recovery
  /\ ~NativeActive(g)
  /\ ~NativeWaiting(g)
  /\ \A p \in Members(g) : /\ Settled(p)
                           /\ obs[p].residency = "cpu"
                           /\ offloading[p] = None
                           /\ offloadFailed[p] = None

\* Mutant: a lease runs until its holder gives it back.
NeverRevoked(l, why) == l

\* _revoke: the first reason stays.
Revoked(l, why) ==
  IF l = None THEN None
  ELSE [l EXCEPT !.revoked = TRUE, !.reason = IF @ = "none" THEN why ELSE @]

\* Mutant: an expiry overwrites whatever was known about the cleanup.
ExpiredForgets(l) ==
  IF l # None /\ l.expired THEN [Revoked(l, "expired") EXCEPT !.reason = "expired"] ELSE l

\* _tick, where onCpu says that _native_cpu_reasons is empty.
Expired(l) ==
  IF l # None /\ l.expired
  THEN [Revoked(l, "expired") EXCEPT !.reason = IF l.cleanupFailed THEN @ ELSE "expired"]
  ELSE l
Ticked(l, onCpu) == IF onCpu THEN Expired(l) ELSE Revoked(Expired(l), "native")

-----------------------------------------------------------------------------
Init ==
  /\ phase = "down"
  /\ obs = [p \in Participants |-> None]
  /\ fresh = {}
  /\ nativeTokens = {}
  /\ waiters = [p \in Participants |-> 0]
  /\ lease = [g \in Groups |-> None]
  /\ offloading = [p \in Participants |-> None]
  /\ offloadFailed = [p \in Participants |-> None]
  /\ recovery = {}
  /\ journalOpen = FALSE
  /\ memory = {}
  /\ disk = {}
  /\ file = "absent"
  /\ claims = [g \in Groups |-> {}]
  /\ issued = {}

\* Everything the process kept in memory is gone.
ProcessGone ==
  /\ phase' = "down"
  /\ recovery' = {}
  /\ obs' = [p \in Participants |-> None]
  /\ fresh' = {}
  /\ nativeTokens' = {}
  /\ waiters' = [p \in Participants |-> 0]
  /\ lease' = [g \in Groups |-> None]
  /\ offloading' = [p \in Participants |-> None]
  /\ offloadFailed' = [p \in Participants |-> None]
  /\ journalOpen' = FALSE
  /\ memory' = {}

(***************************************************************************)
(* The journal.  commit() builds a candidate from the entries in memory,   *)
(* replaces the file atomically and only then updates memory.  A failure   *)
(* can come before or after the replace, and puts every group in recovery. *)
(***************************************************************************)
WriteFile(dirty) == disk' = dirty /\ file' = "ok"

\* Mutant: memory is updated and the file written later, if ever.
CommittedInMemory(dirty) ==
  /\ journalOpen
  /\ memory' = dirty
  /\ UNCHANGED <<journalOpen, disk, file>>

Committed(dirty) ==
  /\ journalOpen
  /\ WriteFile(dirty)
  /\ memory' = dirty
  /\ UNCHANGED journalOpen

CommitFailed(dirty) ==
  /\ \/ UNCHANGED <<disk, file>>
     \/ journalOpen /\ WriteFile(dirty)
  /\ UNCHANGED <<journalOpen, memory>>
  /\ recovery' = Groups
  /\ lease' = [g \in Groups |-> Revoked(lease[g], "fault")]

\* Process start: a clean deployment creates the file; a readable file is
\* believed; anything else (missing after a deployment, corrupt, locked by
\* another process, not writable) leaves every group in recovery.
Start ==
  /\ phase = "down"
  /\ phase' = "up"
  /\ \/ /\ file = "absent"
        /\ WriteFile({})
        /\ journalOpen' = TRUE
        /\ memory' = {}
        /\ recovery' = {}
     \/ /\ file = "absent"
        /\ file' = "bad"
        /\ recovery' = Groups
        /\ UNCHANGED <<journalOpen, memory, disk>>
     \/ /\ file = "ok"
        /\ journalOpen' = TRUE
        /\ memory' = disk
        /\ recovery' = disk
        /\ UNCHANGED <<disk, file>>
     \/ /\ file # "absent"
        /\ recovery' = Groups
        /\ UNCHANGED journalVars
  /\ UNCHANGED <<nativeVars, lease, offloadVars, ghostVars>>

Crash ==
  /\ phase # "down"
  /\ ProcessGone
  /\ UNCHANGED <<disk, file, ghostVars>>

\* close(): every fence stays; the journal lock is given up.
Close ==
  /\ phase = "up"
  /\ phase' = "closed"
  /\ recovery' = Groups
  /\ lease' = [g \in Groups |-> Revoked(lease[g], "fault")]
  /\ journalOpen' = FALSE
  /\ UNCHANGED <<nativeVars, offloadVars, memory, disk, file, ghostVars>>

-----------------------------------------------------------------------------
(***************************************************************************)
(* Natives.                                                                *)
(***************************************************************************)
\* Mutant: only activity ends a lease, not a model that is back on the GPU.
DisturbsIfBusy(previous, s) ==
  \/ previous # None /\ previous.inst # s.inst
  \/ s.busy \/ ~s.ready

\* What makes a new report of p end a lease: the instance changed, or the
\* native is not ready and idle on the CPU.
Disturbs(previous, s) ==
  \/ previous # None /\ previous.inst # s.inst
  \/ s.busy \/ ~s.ready \/ s.residency # "cpu"

\* A regressed revision of the instance last seen is denied.
UpdateNative(p, s) ==
  LET g == GroupOf[p]
      previous == obs[p]
  IN /\ phase # "down"
     /\ previous # None => previous.inst # s.inst \/ s.rev >= previous.rev
     /\ obs' = [obs EXCEPT ![p] = s]
     /\ fresh' = fresh \cup {p}
     /\ offloadFailed' = [offloadFailed EXCEPT ![p] =
           IF @ = <<s.inst, s.rev>> /\ s.residency # "cpu" THEN @ ELSE None]
     /\ lease' = [lease EXCEPT ![g] = IF Disturbs(previous, s) THEN Revoked(@, "native") ELSE @]
     /\ UNCHANGED <<procVars, nativeTokens, waiters, offloading, journalVars, ghostVars>>

\* Mutant: a revoked lease no longer keeps natives out.
GrantableAfterRevocation(g) == (lease[g] # None => lease[g].revoked) /\ ~Offloading(g)

GrantableToNative(g) == lease[g] = None /\ ~Offloading(g)

HandOutNative(p) ==
  \E t \in Tokens \ issued :
     /\ nativeTokens' = nativeTokens \cup {[token |-> t, participant |-> p]}
     /\ issued' = issued \cup {t}

\* Mutant: the waiter is taken off twice.
LeaveTwice(p) == waiters' = [waiters EXCEPT ![p] = @ - 2]

Leave(p) == waiters' = [waiters EXCEPT ![p] = @ - 1]

\* acquire_native up to its first wait: the call counts as a waiter, and so
\* revokes the lease, even if it is granted or times out at once.
AcquireNative(p) ==
  LET g == GroupOf[p]
  IN /\ phase = "up"
     /\ g \notin recovery
     /\ \/ /\ GrantableToNative(g)
           /\ HandOutNative(p)
           /\ UNCHANGED <<waiters, lease>>
        \/ /\ ~GrantableToNative(g)
           /\ waiters[p] < MaxWaiters
           /\ waiters' = [waiters EXCEPT ![p] = @ + 1]
           /\ lease' = [lease EXCEPT ![g] = Ticked(Revoked(@, "native"), FALSE)]
           /\ UNCHANGED <<nativeTokens, issued>>
     /\ UNCHANGED <<procVars, obs, fresh, offloadVars, journalVars, claims>>

\* One wake-up of a waiting acquire_native: denied, granted, timed out, or
\* back to waiting.
RetryNative(p) ==
  LET g == GroupOf[p]
  IN /\ phase # "down"
     /\ waiters[p] > 0
     /\ \/ /\ g \in recovery
           /\ Leave(p)
           /\ UNCHANGED <<nativeTokens, lease, issued>>
        \/ /\ g \notin recovery
           /\ GrantableToNative(g)
           /\ HandOutNative(p)
           /\ Leave(p)
           /\ UNCHANGED lease
        \/ /\ g \notin recovery
           /\ ~GrantableToNative(g)
           /\ lease' = [lease EXCEPT ![g] = Ticked(@, FALSE)]
           /\ Leave(p) \/ UNCHANGED waiters
           /\ UNCHANGED <<nativeTokens, issued>>
     /\ UNCHANGED <<procVars, obs, fresh, offloadVars, journalVars, claims>>

ReleaseNative(n) ==
  /\ phase # "down"
  /\ nativeTokens' = nativeTokens \ {n}
  /\ UNCHANGED <<procVars, obs, fresh, waiters, lease, offloadVars, journalVars, ghostVars>>

-----------------------------------------------------------------------------
(***************************************************************************)
(* Offloads.                                                               *)
(***************************************************************************)
OffloadCandidate(g, p) ==
  /\ ~NativeActive(g) /\ ~NativeWaiting(g) /\ lease[g] = None
  /\ \A q \in Members(g) : /\ offloading[q] = None /\ offloadFailed[q] = None
                           /\ Settled(q) /\ obs[q].residency \in {"cpu", "gpu"}
  /\ p \in Members(g)
  /\ obs[p].residency = "gpu"
  /\ obs[p].mature

\* An iteration of acquire_comfy that grants nothing.  Any candidate may be
\* taken (the code takes the first in configuration order).
PollComfy(g) ==
  /\ phase = "up"
  /\ g \notin recovery
  /\ ~(lease[g] = None /\ NativesOnCpu(g))
  /\ lease' = [lease EXCEPT ![g] = Ticked(@, NativesOnCpu(g))]
  /\ IF \E p \in Members(g) : OffloadCandidate(g, p)
     THEN \E p \in Members(g) :
             /\ OffloadCandidate(g, p)
             /\ offloading' = [offloading EXCEPT ![p] = <<obs[p].inst, obs[p].rev>>]
     ELSE UNCHANGED offloading
  /\ UNCHANGED <<procVars, nativeVars, offloadFailed, journalVars, ghostVars>>

\* The callback of an offload answers r, or fails (r = None).
OffloadReturns(p, r) ==
  LET trusted == /\ r # None /\ obs[p] # None
                 /\ <<r.inst, r.rev>> = offloading[p]
                 /\ <<obs[p].inst, obs[p].rev>> = offloading[p]
                 /\ r.residency = "cpu" /\ r.ready /\ ~r.busy
  IN /\ phase # "down"
     /\ offloading[p] # None
     /\ IF trusted
        THEN /\ obs' = [obs EXCEPT ![p] = r]
             /\ fresh' = fresh \cup {p}
             /\ offloadFailed' = [offloadFailed EXCEPT ![p] = None]
        ELSE /\ offloadFailed' = [offloadFailed EXCEPT ![p] = offloading[p]]
             /\ UNCHANGED <<obs, fresh>>
     /\ offloading' = [offloading EXCEPT ![p] = None]
     /\ UNCHANGED <<procVars, nativeTokens, waiters, lease, journalVars, ghostVars>>

-----------------------------------------------------------------------------
(***************************************************************************)
(* Comfy leases.                                                           *)
(***************************************************************************)
GrantableToComfy(g) ==
  /\ phase = "up"
  /\ g \notin recovery
  /\ lease[g] = None
  /\ NativesOnCpu(g)

\* The fence is on disk before the token leaves the coordinator.
AcquireComfy(g) ==
  /\ GrantableToComfy(g)
  /\ Committed(memory \cup {g})
  /\ \E t \in Tokens \ issued :
        /\ lease' = [lease EXCEPT ![g] = [token |-> t, expired |-> FALSE, revoked |-> FALSE,
                                          reason |-> "none", cleanupFailed |-> FALSE]]
        /\ issued' = issued \cup {t}
        /\ claims' = [claims EXCEPT ![g] = @ \cup {t}]
  /\ UNCHANGED <<procVars, nativeVars, offloadVars>>

AcquireComfyFails(g) ==
  /\ GrantableToComfy(g)
  /\ CommitFailed(memory \cup {g})
  /\ UNCHANGED <<phase, nativeVars, offloadVars, ghostVars>>

AcquireComfyCrashes(g) ==
  /\ GrantableToComfy(g)
  /\ journalOpen
  /\ WriteFile(memory \cup {g})
  /\ ProcessGone
  /\ UNCHANGED ghostVars

\* check_comfy: renews the lease unless it is, or now becomes, revoked.
CheckComfy(g) ==
  LET l == Ticked(lease[g], NativesOnCpu(g))
  IN /\ phase # "down"
     /\ lease[g] # None
     /\ lease' = [lease EXCEPT ![g] = IF l.revoked THEN l ELSE [l EXCEPT !.expired = FALSE]]
     /\ UNCHANGED <<procVars, nativeVars, offloadVars, journalVars, ghostVars>>

\* snapshot() refreshes the lease like every other entry point.
Snapshot(g) ==
  /\ phase # "down"
  /\ lease' = [lease EXCEPT ![g] = Ticked(@, NativesOnCpu(g))]
  /\ UNCHANGED <<procVars, nativeVars, offloadVars, journalVars, ghostVars>>

\* The holder of g's lease declares that it left the GPU clean.
DeclareClean(g) == claims' = [claims EXCEPT ![g] = @ \ {lease[g].token}]

ReleaseClean(g) ==
  /\ phase # "down"
  /\ lease[g] # None
  /\ Committed(memory \ {g})
  /\ lease' = [lease EXCEPT ![g] = None]
  /\ DeclareClean(g)
  /\ UNCHANGED <<procVars, nativeVars, offloadVars, issued>>

ReleaseCleanFails(g) ==
  /\ phase # "down"
  /\ lease[g] # None
  /\ CommitFailed(memory \ {g})
  /\ DeclareClean(g)
  /\ UNCHANGED <<phase, nativeVars, offloadVars, issued>>

ReleaseCleanCrashes(g) ==
  /\ phase # "down"
  /\ lease[g] # None
  /\ journalOpen
  /\ WriteFile(memory \ {g})
  /\ ProcessGone
  /\ DeclareClean(g)
  /\ UNCHANGED issued

ReleaseUnclean(g) ==
  /\ phase # "down"
  /\ lease[g] # None
  /\ lease' = [lease EXCEPT ![g] = [Revoked(@, "unclean") EXCEPT !.reason = "unclean",
                                                                 !.cleanupFailed = TRUE]]
  /\ UNCHANGED <<procVars, nativeVars, offloadVars, journalVars, ghostVars>>

\* A holder whose token this process does not know (it was restarted, or is
\* down) cleans up all the same; release_comfy answers False or fails.
ReleaseUnknown(g, t) ==
  /\ t \in claims[g]
  /\ lease[g] # None => lease[g].token # t
  /\ claims' = [claims EXCEPT ![g] = @ \ {t}]
  /\ UNCHANGED <<procVars, nativeVars, lease, offloadVars, journalVars, issued>>

-----------------------------------------------------------------------------
(***************************************************************************)
(* Time, disk faults and the operator.                                     *)
(***************************************************************************)
ReportAges(p) ==
  /\ p \in fresh
  /\ fresh' = fresh \ {p}
  /\ UNCHANGED <<procVars, obs, nativeTokens, waiters, lease, offloadVars, journalVars, ghostVars>>

LeaseExpires(g) ==
  /\ lease[g] # None
  /\ ~lease[g].expired
  /\ lease' = [lease EXCEPT ![g].expired = TRUE]
  /\ UNCHANGED <<procVars, nativeVars, offloadVars, journalVars, ghostVars>>

DamageJournal ==
  /\ file = "ok"
  /\ file' = "bad"
  /\ UNCHANGED <<procVars, nativeVars, lease, offloadVars, journalOpen, memory, disk, ghostVars>>

\* The maintenance procedure: replace the journal once every former holder
\* has provably finished.
MaintenanceReset ==
  /\ phase = "down"
  /\ file # "absent"
  /\ \A g \in Groups : claims[g] = {}
  /\ WriteFile({})
  /\ UNCHANGED <<procVars, nativeVars, lease, offloadVars, journalOpen, memory, ghostVars>>

-----------------------------------------------------------------------------
Native ==
  \E p \in Participants :
     \/ \E s \in Reports : UpdateNative(p, s)
     \/ AcquireNative(p)
     \/ RetryNative(p)
     \/ \E r \in Reports \cup {None} : OffloadReturns(p, r)
     \/ ReportAges(p)

Comfy ==
  \E g \in Groups :
     \/ PollComfy(g)
     \/ AcquireComfy(g)
     \/ AcquireComfyFails(g)
     \/ AcquireComfyCrashes(g)
     \/ CheckComfy(g)
     \/ Snapshot(g)
     \/ ReleaseClean(g)
     \/ ReleaseCleanFails(g)
     \/ ReleaseCleanCrashes(g)
     \/ ReleaseUnclean(g)
     \/ \E t \in Tokens : ReleaseUnknown(g, t)
     \/ LeaseExpires(g)

Next ==
  \/ Start
  \/ Crash
  \/ Close
  \/ DamageJournal
  \/ MaintenanceReset
  \/ Native
  \/ \E n \in nativeTokens : ReleaseNative(n)
  \/ Comfy

Spec == Init /\ [][Next]_vars

-----------------------------------------------------------------------------
TypeOK ==
  /\ phase \in {"up", "closed", "down"}
  /\ obs \in [Participants -> Status \cup {None}]
  /\ fresh \subseteq Participants
  /\ nativeTokens \subseteq [token: Tokens, participant: Participants]
  /\ waiters \in [Participants -> Nat]
  /\ lease \in [Groups -> Lease \cup {None}]
  /\ offloading \in [Participants -> Identity \cup {None}]
  /\ offloadFailed \in [Participants -> Identity \cup {None}]
  /\ recovery \subseteq Groups
  /\ journalOpen \in BOOLEAN
  /\ memory \subseteq Groups
  /\ disk \subseteq Groups
  /\ file \in {"absent", "ok", "bad"}
  /\ claims \in [Groups -> SUBSET Tokens]
  /\ issued \subseteq Tokens

\* While a Comfy holder may still be on the GPU of a group, nobody else is let
\* in: no native token, no offload, no second Comfy holder - also when the
\* coordinator that granted the lease has crashed, lost its journal, failed a
\* commit or been replaced by a new process.
ExclusiveUse ==
  \A g \in Groups : claims[g] # {} =>
     /\ ~NativeActive(g)
     /\ ~Offloading(g)
     /\ \A t, u \in claims[g] : t = u

\* Write-ahead: a holder that may be on the GPU is covered by a dirty entry of
\* the journal file, or by a file no restart will accept.
DurableFence ==
  \A g \in Groups : claims[g] # {} => file = "bad" \/ (file = "ok" /\ g \in disk)

\* A lease nobody revoked agrees with the last reports: every native of the
\* group is ready, idle and on the CPU, none waits, works or failed to offload,
\* however many reports, offload answers and requests arrived since the grant.
LiveLeaseBesideIdleNatives ==
  \A g \in Groups : lease[g] # None /\ ~lease[g].revoked =>
     /\ g \notin recovery
     /\ ~NativeActive(g) /\ ~NativeWaiting(g)
     /\ \A p \in Members(g) : /\ obs[p] # None /\ obs[p].ready /\ ~obs[p].busy
                              /\ obs[p].residency = "cpu"
                              /\ offloading[p] = None /\ offloadFailed[p] = None

\* A revoked lease never revives, and what went wrong with it is never
\* forgotten or reported as mere native priority: an unconfirmed cleanup stays
\* one, a lost heartbeat only becomes an unconfirmed cleanup.
Gravity(r) == CASE r = "none" -> 0 [] r \in {"native", "fault"} -> 1 [] r = "expired" -> 2 [] r = "unclean" -> 3
RevocationIsFinal ==
  [][\A g \in Groups :
       lease[g] # None /\ lease'[g] # None /\ lease'[g].token = lease[g].token =>
          /\ lease[g].revoked => lease'[g].revoked
          /\ lease[g].cleanupFailed => lease'[g].cleanupFailed
          /\ Gravity(lease'[g].reason) >= Gravity(lease[g].reason)]_vars

-----------------------------------------------------------------------------
\* The native tokens of a group, as the fence sees them.
NativesOf(g) == {t \in Tokens : \E n \in nativeTokens : n.token = t /\ GroupOf[n.participant] = g}

Fence == INSTANCE GpuFence WITH
  comfy <- claims, native <- [g \in Groups |-> NativesOf(g)], spent <- issued

\* The coordinator, with its crashes, restarts, failed and lost commits,
\* implements the fence.
ImplementsFence == Fence!FenceSpec
=============================================================================
