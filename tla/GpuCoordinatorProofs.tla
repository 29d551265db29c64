------------------------ MODULE GpuCoordinatorProofs ------------------------
(***************************************************************************)
(* Proofs about the GPU coordinator for any number of groups, natives,     *)
(* instances and tokens.                                                   *)
(***************************************************************************)
EXTENDS GpuCoordinator, TLAPS

\* Revoking or refreshing a lease table entry gives a lease table entry of the
\* same token (native_gpu/coordinator.py _revoke and _tick).
LEMMA RevokedType ==
  ASSUME NEW l \in Lease \cup {None}, NEW why \in Reasons
  PROVE  /\ Revoked(l, why) \in Lease \cup {None}
         /\ l = None <=> Revoked(l, why) = None
         /\ l # None => /\ Revoked(l, why).token = l.token
                        /\ Revoked(l, why).revoked
                        /\ Revoked(l, why).cleanupFailed = l.cleanupFailed
                        /\ Revoked(l, why).expired = l.expired
                        /\ Revoked(l, why).reason = (IF l.reason = "none" THEN why ELSE l.reason)
  BY NoneAssumption DEF Revoked, Lease, Reasons

\* The first half of _tick (an expired lease is revoked) keeps a lease's type, its
\* token, its revocation and its record of a failed cleanup.
LEMMA ExpiredType ==
  ASSUME NEW l \in Lease \cup {None}
  PROVE  /\ Expired(l) \in Lease \cup {None}
         /\ l = None <=> Expired(l) = None
         /\ l # None => /\ Expired(l).token = l.token
                        /\ l.revoked => Expired(l).revoked
                        /\ Expired(l).cleanupFailed = l.cleanupFailed
                        /\ ~Expired(l).revoked => ~l.revoked /\ Expired(l) = l
  <1>1. CASE l # None /\ l.expired
    <2> DEFINE r == Revoked(l, "expired")
    <2>1. /\ r \in Lease /\ r.token = l.token /\ r.revoked
          /\ r.cleanupFailed = l.cleanupFailed
      BY <1>1, RevokedType, NoneAssumption DEF Reasons
    <2>2. Expired(l) = [r EXCEPT !.reason = IF l.cleanupFailed THEN @ ELSE "expired"]
      BY <1>1 DEF Expired
    <2> HIDE DEF r
    <2> QED BY <1>1, <2>1, <2>2, NoneAssumption DEF Lease, Reasons
  <1>2. CASE ~(l # None /\ l.expired)
    BY <1>2 DEF Expired
  <1> QED BY <1>1, <1>2

\* So does the whole of _tick.
LEMMA TickedType ==
  ASSUME NEW l \in Lease \cup {None}, NEW onCpu
  PROVE  /\ Ticked(l, onCpu) \in Lease \cup {None}
         /\ l = None <=> Ticked(l, onCpu) = None
         /\ l # None => /\ Ticked(l, onCpu).token = l.token
                        /\ l.revoked => Ticked(l, onCpu).revoked
                        /\ l.cleanupFailed => Ticked(l, onCpu).cleanupFailed
                        /\ ~Ticked(l, onCpu).revoked => ~l.revoked /\ onCpu
  BY ExpiredType, RevokedType DEF Ticked, Reasons

-----------------------------------------------------------------------------
\* Nothing is running at first and nothing is on disk.
LEMMA TypeInit == Init => TypeOK
<1> SUFFICES ASSUME Init PROVE TypeOK
  OBVIOUS
<1>1. obs \in [Participants -> Status \cup {None}]
  BY DEF Init
<1>2. waiters \in [Participants -> Nat]
  BY DEF Init
<1>3. lease \in [Groups -> Lease \cup {None}]
  BY DEF Init
<1>4. /\ offloading \in [Participants -> Identity \cup {None}]
      /\ offloadFailed \in [Participants -> Identity \cup {None}]
  BY DEF Init
<1>5. claims \in [Groups -> SUBSET Tokens]
  BY DEF Init
<1> QED
  BY <1>1, <1>2, <1>3, <1>4, <1>5 DEF Init, TypeOK

\* Whatever a participant reports, the coordinator's variables keep their types
\* (update_native).
LEMMA UpdateTyped ==
  ASSUME TypeOK, NEW p \in Participants, NEW s \in Status, UpdateNative(p, s)
  PROVE  TypeOK'
<1> USE DEF TypeOK
<1>1. GroupOf[p] \in Groups
  BY GroupAssumption
<1>2. lease' \in [Groups -> Lease \cup {None}]
  BY <1>1, RevokedType DEF UpdateNative, Reasons
<1> QED
  BY <1>1, <1>2 DEF UpdateNative, procVars, journalVars, ghostVars

\* Whatever an offload answers, if it answers (_run_offload).
LEMMA AnswerTyped ==
  ASSUME TypeOK, NEW p \in Participants, NEW r \in Status \cup {None}, OffloadReturns(p, r)
  PROVE  TypeOK'
  BY DEF TypeOK, OffloadReturns, procVars, journalVars, ghostVars

\* Every handler of coordinator.py and every commit of journal.py keeps every
\* variable in its type, one step of the proof for each.
LEMMA TypeStep == TypeOK /\ [Next]_vars => TypeOK'
<1> SUFFICES ASSUME TypeOK, [Next]_vars PROVE TypeOK'
  OBVIOUS
<1> USE DEF TypeOK
<1>1. CASE Start
  BY <1>1 DEF Start, WriteFile, nativeVars, offloadVars, ghostVars, journalVars
<1>2. CASE Crash
  BY <1>2 DEF Crash, ProcessGone, ghostVars
<1>3. CASE Close
  BY <1>3, RevokedType DEF Close, nativeVars, offloadVars, ghostVars, Reasons
<1>4. CASE DamageJournal \/ MaintenanceReset
  BY <1>4 DEF DamageJournal, MaintenanceReset, WriteFile, procVars, nativeVars, offloadVars, ghostVars
<1>5. ASSUME NEW p \in Participants, NEW s \in Reports, UpdateNative(p, s) PROVE TypeOK'
  BY <1>5, ReportAssumption, UpdateTyped
<1>6. ASSUME NEW p \in Participants, AcquireNative(p) PROVE TypeOK'
  <2> DEFINE g == GroupOf[p]
  <2>1. g \in Groups
    BY GroupAssumption
  <2>2. CASE HandOutNative(p) /\ UNCHANGED <<waiters, lease>>
    BY <1>6, <2>2 DEF AcquireNative, HandOutNative, procVars, offloadVars, journalVars
  <2>3. CASE /\ waiters' = [waiters EXCEPT ![p] = @ + 1]
             /\ lease' = [lease EXCEPT ![g] = Ticked(Revoked(@, "native"), FALSE)]
             /\ UNCHANGED <<nativeTokens, issued>>
    <3>1. Ticked(Revoked(lease[g], "native"), FALSE) \in Lease \cup {None}
      BY <2>1, RevokedType, TickedType DEF Reasons
    <3>2. lease' \in [Groups -> Lease \cup {None}]
      BY <2>1, <2>3, <3>1
    <3>3. waiters' \in [Participants -> Nat]
      BY <2>3
    <3> QED
      BY <1>6, <2>3, <3>2, <3>3 DEF AcquireNative, procVars, offloadVars, journalVars
  <2> QED
    BY <1>6, <2>2, <2>3 DEF AcquireNative
<1>7. ASSUME NEW p \in Participants, RetryNative(p) PROVE TypeOK'
  <2> DEFINE g == GroupOf[p]
  <2>1. g \in Groups
    BY GroupAssumption
  <2>2. waiters' \in [Participants -> Nat]
    <3>1. waiters[p] \in Nat /\ waiters[p] > 0
      BY <1>7 DEF RetryNative
    <3>2. UNCHANGED waiters \/ waiters' = [waiters EXCEPT ![p] = @ - 1]
      BY <1>7 DEF RetryNative, Leave
    <3> QED
      BY <3>1, <3>2
  <2>3. \/ UNCHANGED lease
        \/ lease' = [lease EXCEPT ![g] = Ticked(@, FALSE)]
    BY <1>7 DEF RetryNative
  <2>4. Ticked(lease[g], FALSE) \in Lease \cup {None}
    BY <2>1, TickedType
  <2>5. lease' \in [Groups -> Lease \cup {None}]
    BY <2>1, <2>3, <2>4
  <2>6. UNCHANGED <<nativeTokens, issued>> \/ HandOutNative(p)
    BY <1>7 DEF RetryNative
  <2>7. /\ nativeTokens' \subseteq [token: Tokens, participant: Participants]
        /\ issued' \subseteq Tokens
    BY <2>6 DEF HandOutNative
  <2> QED
    BY <1>7, <2>2, <2>5, <2>7 DEF RetryNative, procVars, offloadVars, journalVars
<1>8. ASSUME NEW p \in Participants, NEW r \in Reports \cup {None}, OffloadReturns(p, r) PROVE TypeOK'
  BY <1>8, ReportAssumption, AnswerTyped
<1>9. ASSUME NEW p \in Participants, ReportAges(p) PROVE TypeOK'
  BY <1>9 DEF ReportAges, procVars, offloadVars, journalVars, ghostVars
<1>10. ASSUME NEW n \in nativeTokens, ReleaseNative(n) PROVE TypeOK'
  BY <1>10 DEF ReleaseNative, procVars, offloadVars, journalVars, ghostVars
<1>11. ASSUME NEW g \in Groups, PollComfy(g) PROVE TypeOK'
  <2>2. lease' \in [Groups -> Lease \cup {None}]
    BY <1>11, TickedType DEF PollComfy
  <2>3. ASSUME NEW p \in Participants, OffloadCandidate(g, p)
        PROVE  <<obs[p].inst, obs[p].rev>> \in Identity
    BY <2>3 DEF OffloadCandidate, Settled, Status, Identity
  <2>4. offloading' \in [Participants -> Identity \cup {None}]
    BY <1>11, <2>3 DEF PollComfy, Members
  <2> QED
    BY <1>11, <2>2, <2>4 DEF PollComfy, procVars, nativeVars, journalVars, ghostVars
<1>12. ASSUME NEW g \in Groups, AcquireComfy(g) PROVE TypeOK'
  BY <1>12 DEF AcquireComfy, Committed, WriteFile, procVars, nativeVars, offloadVars, Lease, Reasons
<1>13. ASSUME NEW g \in Groups, AcquireComfyFails(g) PROVE TypeOK'
  BY <1>13, RevokedType DEF AcquireComfyFails, CommitFailed, WriteFile, nativeVars, offloadVars, ghostVars, Reasons
<1>14. ASSUME NEW g \in Groups, AcquireComfyCrashes(g) PROVE TypeOK'
  BY <1>14 DEF AcquireComfyCrashes, ProcessGone, WriteFile, ghostVars
<1>15. ASSUME NEW g \in Groups, CheckComfy(g) PROVE TypeOK'
  <2> DEFINE l == Ticked(lease[g], NativesOnCpu(g))
  <2>2. l \in Lease
    BY <1>15, TickedType DEF CheckComfy
  <2>3. lease' = [lease EXCEPT ![g] = IF l.revoked THEN l ELSE [l EXCEPT !.expired = FALSE]]
    BY <1>15 DEF CheckComfy
  <2> HIDE DEF l
  <2>4. lease' \in [Groups -> Lease \cup {None}]
    BY <2>2, <2>3 DEF Lease
  <2> QED
    BY <1>15, <2>4 DEF CheckComfy, procVars, nativeVars, offloadVars, journalVars, ghostVars
<1>16. ASSUME NEW g \in Groups, Snapshot(g) PROVE TypeOK'
  <2>2. lease' \in [Groups -> Lease \cup {None}]
    BY <1>16, TickedType DEF Snapshot
  <2> QED
    BY <1>16, <2>2 DEF Snapshot, procVars, nativeVars, offloadVars, journalVars, ghostVars
<1>17. ASSUME NEW g \in Groups, ReleaseClean(g) PROVE TypeOK'
  BY <1>17 DEF ReleaseClean, DeclareClean, Committed, WriteFile, procVars, nativeVars, offloadVars
<1>18. ASSUME NEW g \in Groups, ReleaseCleanFails(g) PROVE TypeOK'
  BY <1>18, RevokedType
     DEF ReleaseCleanFails, DeclareClean, CommitFailed, WriteFile, nativeVars, offloadVars, Reasons
<1>19. ASSUME NEW g \in Groups, ReleaseCleanCrashes(g) PROVE TypeOK'
  BY <1>19 DEF ReleaseCleanCrashes, DeclareClean, ProcessGone, WriteFile
<1>20. ASSUME NEW g \in Groups, ReleaseUnclean(g) PROVE TypeOK'
  <2> DEFINE r == Revoked(lease[g], "unclean")
  <2>1. r \in Lease
    BY <1>20, RevokedType DEF ReleaseUnclean, Reasons
  <2>2. lease' = [lease EXCEPT ![g] = [r EXCEPT !.reason = "unclean", !.cleanupFailed = TRUE]]
    BY <1>20 DEF ReleaseUnclean
  <2> HIDE DEF r
  <2>3. lease' \in [Groups -> Lease \cup {None}]
    BY <2>1, <2>2 DEF Lease, Reasons
  <2> QED
    BY <1>20, <2>3 DEF ReleaseUnclean, procVars, nativeVars, offloadVars, journalVars, ghostVars
<1>21. ASSUME NEW g \in Groups, NEW t \in Tokens, ReleaseUnknown(g, t) PROVE TypeOK'
  BY <1>21 DEF ReleaseUnknown, procVars, nativeVars, offloadVars, journalVars
<1>22. ASSUME NEW g \in Groups, LeaseExpires(g) PROVE TypeOK'
  BY <1>22 DEF LeaseExpires, procVars, nativeVars, offloadVars, journalVars, ghostVars, Lease
<1>23. CASE UNCHANGED vars
  BY <1>23 DEF vars, procVars, nativeVars, offloadVars, journalVars, ghostVars
<1> QED
  BY <1>1, <1>2, <1>3, <1>4, <1>5, <1>6, <1>7, <1>8, <1>9, <1>10, <1>11, <1>12, <1>13, <1>14, <1>15,
     <1>16, <1>17, <1>18, <1>19, <1>20, <1>21, <1>22, <1>23 DEF Next, Native, Comfy

\* Every variable keeps its type.
THEOREM TypeCorrect == Spec => []TypeOK
  BY TypeInit, TypeStep, PTL DEF Spec
-----------------------------------------------------------------------------
(***************************************************************************)
(* The inductive invariant behind exclusive use.  A claim of a group means *)
(* that the running process still holds the lease of that very claim, or   *)
(* refuses the group; and that the next process will refuse it, because    *)
(* the entry is dirty in memory (what the next commit writes) and on disk. *)
(***************************************************************************)
GroupFenced(g) ==
  /\ lease[g] # None => claims[g] \subseteq {lease[g].token}
  /\ \A t, u \in claims[g] : t = u
  /\ claims[g] # {} =>
       /\ phase # "down" => lease[g] # None \/ g \in recovery
       /\ journalOpen => g \in memory
       /\ file = "bad" \/ (file = "ok" /\ g \in disk)
       /\ ~NativeActive(g)
       /\ ~Offloading(g)

ProcessInv ==
  /\ phase = "down" => lease = [g \in Groups |-> None]
  /\ phase # "up" => ~journalOpen

IInv == TypeOK /\ ProcessInv /\ \A g \in Groups : GroupFenced(g)

\* What GroupFenced reads, for the steps that touch none of it.
fenceState == <<phase, recovery, nativeTokens, offloading, journalVars, claims>>

SameLeases ==
  \A g \in Groups : /\ lease'[g] = None <=> lease[g] = None
                    /\ lease[g] # None => lease'[g].token = lease[g].token

\* When all leases are the same, so is each group's.
LEMMA OneLease ==
  ASSUME TypeOK, NEW h \in Groups, NEW l,
         lease' = [lease EXCEPT ![h] = l],
         l = None <=> lease[h] = None,
         lease[h] # None => l.token = lease[h].token
  PROVE  SameLeases
  BY DEF SameLeases, TypeOK

\* A step that neither grants nor forgets a claim, and takes no group out of the
\* journal or out of recovery, keeps the fence.
LEMMA FencePreserved ==
  ASSUME IInv, TypeOK', SameLeases, UNCHANGED fenceState
  PROVE  IInv'
<1>1. ProcessInv'
  BY DEF IInv, ProcessInv, SameLeases, fenceState, journalVars, TypeOK
<1>2. ASSUME NEW g \in Groups PROVE GroupFenced(g)'
  <2>1. /\ lease'[g] = None <=> lease[g] = None
        /\ lease[g] # None => lease'[g].token = lease[g].token
    BY DEF SameLeases
  <2>2. NativeActive(g)' <=> NativeActive(g)
    BY DEF NativeActive, fenceState
  <2>3. Offloading(g)' <=> Offloading(g)
    BY DEF Offloading, fenceState
  <2>4. GroupFenced(g)
    BY DEF IInv
  <2> QED
    BY <2>1, <2>2, <2>3, <2>4 DEF GroupFenced, fenceState, journalVars
<1> QED
  BY <1>1, <1>2 DEF IInv

\* No report takes a fence away: update_native touches neither the journal nor
\* the claims, and keeps the token of the lease it revokes.
LEMMA UpdateFenced ==
  ASSUME IInv, NEW p \in Participants, NEW s \in Status, UpdateNative(p, s)
  PROVE  IInv'
<1>1. TypeOK /\ TypeOK'
  BY UpdateTyped DEF IInv
<1>2. SameLeases
  BY <1>1, GroupAssumption, RevokedType DEF TypeOK, UpdateNative, SameLeases, Reasons
<1> QED
  BY <1>1, <1>2, FencePreserved DEF UpdateNative, fenceState, procVars, ghostVars

\* Nor does the answer of an offload, which ends the offload.
LEMMA AnswerFenced ==
  ASSUME IInv, NEW p \in Participants, NEW r \in Status \cup {None}, OffloadReturns(p, r)
  PROVE  IInv'
<1>0. TypeOK /\ TypeOK' /\ ProcessInv /\ \A g \in Groups : GroupFenced(g)
  BY AnswerTyped DEF IInv
<1>1. ProcessInv'
  BY <1>0 DEF OffloadReturns, ProcessInv, procVars, journalVars
<1>2. ASSUME NEW g \in Groups PROVE GroupFenced(g)'
  <2>1. NativeActive(g)' <=> NativeActive(g)
    BY DEF OffloadReturns, NativeActive
  <2>2. Offloading(g)' => Offloading(g)
    BY <1>0 DEF OffloadReturns, Offloading, Members, TypeOK
  <2> QED
    BY <1>0, <2>1, <2>2 DEF OffloadReturns, GroupFenced, procVars, journalVars, ghostVars
<1> QED
  BY <1>0, <1>1, <1>2 DEF IInv

\* Replacing every in-memory fact by nothing keeps the fences that are on disk.
LEMMA FenceSurvivesProcess ==
  ASSUME IInv, TypeOK', ProcessGone,
         \A g \in Groups : /\ claims'[g] \subseteq claims[g]
                           /\ claims'[g] # {} => file' = "bad" \/ (file' = "ok" /\ g \in disk')
  PROVE  IInv'
<1>1. ProcessInv'
  BY DEF ProcessInv, ProcessGone
<1>2. ASSUME NEW g \in Groups PROVE GroupFenced(g)'
  <2>1. lease'[g] = None /\ ~NativeActive(g)' /\ ~Offloading(g)'
    BY DEF ProcessGone, NativeActive, Offloading, Members
  <2>2. /\ claims'[g] \subseteq claims[g]
        /\ \A t, u \in claims[g] : t = u
    BY DEF IInv, GroupFenced
  <2> QED
    BY <2>1, <2>2 DEF GroupFenced, ProcessGone
<1> QED
  BY <1>1, <1>2 DEF IInv

\* Before the first start no holder exists, so there is nothing to fence.
LEMMA InitFenced == Init => IInv
  <1> SUFFICES ASSUME Init PROVE IInv
    OBVIOUS
  <1>1. TypeOK
    BY TypeInit
  <1> QED
    BY <1>1 DEF Init, IInv, ProcessInv, GroupFenced

\* The inductive step: commits, failed commits, crashes and restarts keep every
\* Comfy holder behind a lease or a recovery in memory and a fence on disk.
LEMMA FenceStep == IInv /\ [Next]_vars => IInv'
<1> SUFFICES ASSUME IInv, [Next]_vars PROVE IInv'
  OBVIOUS
<1>0. TypeOK /\ TypeOK' /\ ProcessInv /\ \A g \in Groups : GroupFenced(g)
  BY TypeStep DEF IInv
<1> USE DEF TypeOK
<1>1. CASE Start
  <2>1. ProcessInv'
    BY <1>0, <1>1 DEF Start, ProcessInv
  <2>2. ASSUME NEW g \in Groups PROVE GroupFenced(g)'
    <3>1. /\ NativeActive(g)' <=> NativeActive(g)
          /\ Offloading(g)' <=> Offloading(g)
      BY <1>1 DEF Start, NativeActive, Offloading, nativeVars, offloadVars
    <3>2. GroupFenced(g) /\ lease[g] = None
      BY <1>0, <1>1 DEF Start, ProcessInv
    <3> QED
      BY <1>1, <3>1, <3>2 DEF Start, WriteFile, GroupFenced, ghostVars, journalVars
  <2> QED
    BY <1>0, <2>1, <2>2 DEF IInv
<1>2. CASE Crash
  BY <1>0, <1>2, FenceSurvivesProcess DEF Crash, GroupFenced, ghostVars
<1>3. CASE Close
  <2>1. ProcessInv'
    BY <1>3 DEF Close, ProcessInv
  <2>2. ASSUME NEW g \in Groups PROVE GroupFenced(g)'
    <3>1. /\ NativeActive(g)' <=> NativeActive(g)
          /\ Offloading(g)' <=> Offloading(g)
      BY <1>3 DEF Close, NativeActive, Offloading, nativeVars, offloadVars
    <3>2. lease'[g] # None => lease[g] # None /\ lease'[g].token = lease[g].token
      BY <1>0, <1>3, RevokedType DEF Close, Reasons
    <3> QED
      BY <1>0, <1>3, <3>1, <3>2 DEF Close, GroupFenced, ghostVars
  <2> QED
    BY <1>0, <2>1, <2>2 DEF IInv
<1>4. CASE DamageJournal \/ MaintenanceReset
  <2>1. ProcessInv'
    BY <1>0, <1>4 DEF DamageJournal, MaintenanceReset, WriteFile, ProcessInv, procVars
  <2>2. ASSUME NEW g \in Groups PROVE GroupFenced(g)'
    <3>1. /\ NativeActive(g)' <=> NativeActive(g)
          /\ Offloading(g)' <=> Offloading(g)
      BY <1>4 DEF DamageJournal, MaintenanceReset, NativeActive, Offloading, nativeVars, offloadVars
    <3> QED
      BY <1>0, <1>4, <3>1 DEF DamageJournal, MaintenanceReset, WriteFile, GroupFenced, procVars, ghostVars
  <2> QED
    BY <1>0, <2>1, <2>2 DEF IInv
<1>5. ASSUME NEW p \in Participants, NEW s \in Reports, UpdateNative(p, s) PROVE IInv'
  BY <1>5, ReportAssumption, UpdateFenced
<1>6. ASSUME NEW p \in Participants, AcquireNative(p) \/ RetryNative(p) PROVE IInv'
  <2> DEFINE h == GroupOf[p]
  <2>1. h \in Groups /\ h \in Groups
    BY GroupAssumption
  <2>2. UNCHANGED <<procVars, obs, fresh, offloadVars, journalVars, claims>>
    BY <1>6 DEF AcquireNative, RetryNative
  <2>3. CASE HandOutNative(p) /\ lease[h] = None /\ h \notin recovery /\ phase # "down" /\ UNCHANGED lease
    <3>1. claims[h] = {}
      BY <1>0, <2>1, <2>3 DEF GroupFenced
    <3>2. ASSUME NEW g \in Groups PROVE GroupFenced(g)'
      <4>1. Offloading(g)' <=> Offloading(g)
        BY <2>2 DEF Offloading, offloadVars
      <4>2. g # h => (NativeActive(g)' <=> NativeActive(g))
        BY <2>3 DEF HandOutNative, NativeActive
      <4> QED
        BY <1>0, <2>2, <2>3, <3>1, <4>1, <4>2 DEF GroupFenced, procVars, journalVars
    <3> QED
      BY <1>0, <2>2, <2>3, <3>2 DEF IInv, ProcessInv, procVars, journalVars
  <2>4. CASE UNCHANGED nativeTokens
    <3>1. \/ UNCHANGED lease
          \/ lease' = [lease EXCEPT ![h] = Ticked(Revoked(@, "native"), FALSE)]
          \/ lease' = [lease EXCEPT ![h] = Ticked(@, FALSE)]
      BY <1>6 DEF AcquireNative, RetryNative
    <3>2. CASE UNCHANGED lease
      BY <1>0, <2>2, <2>4, <3>2, FencePreserved DEF fenceState, procVars, offloadVars, SameLeases
    <3>3. CASE \E l : /\ l = Revoked(lease[h], "native") \/ l = lease[h]
                      /\ lease' = [lease EXCEPT ![h] = Ticked(l, FALSE)]
      <4>1. PICK l : /\ l = Revoked(lease[h], "native") \/ l = lease[h]
                     /\ lease' = [lease EXCEPT ![h] = Ticked(l, FALSE)]
        BY <3>3
      <4>2. /\ l \in Lease \cup {None}
            /\ l = None <=> lease[h] = None
            /\ lease[h] # None => l.token = lease[h].token
        BY <1>0, <2>1, <4>1, RevokedType DEF Reasons
      <4>3. /\ Ticked(l, FALSE) = None <=> lease[h] = None
            /\ lease[h] # None => Ticked(l, FALSE).token = lease[h].token
        BY <4>2, TickedType
      <4> HIDE DEF h
      <4>4. SameLeases
        BY <1>0, <2>1, <4>1, <4>3, OneLease
      <4> QED
        BY <1>0, <2>2, <2>4, <4>4, FencePreserved DEF fenceState, procVars, offloadVars
    <3> QED
      BY <3>1, <3>2, <3>3
  <2> QED
    BY <1>6, <2>3, <2>4 DEF AcquireNative, RetryNative, GrantableToNative
<1>7. ASSUME NEW p \in Participants, NEW r \in Reports \cup {None}, OffloadReturns(p, r) PROVE IInv'
  BY <1>7, ReportAssumption, AnswerFenced
<1>8. ASSUME NEW p \in Participants, ReportAges(p) PROVE IInv'
  BY <1>0, <1>8, FencePreserved DEF ReportAges, SameLeases, fenceState, procVars, offloadVars, ghostVars
<1>9. ASSUME NEW n \in nativeTokens, ReleaseNative(n) PROVE IInv'
  <2>1. ASSUME NEW g \in Groups PROVE GroupFenced(g)'
    <3>1. NativeActive(g)' => NativeActive(g)
      BY <1>9 DEF ReleaseNative, NativeActive
    <3>2. Offloading(g)' <=> Offloading(g)
      BY <1>9 DEF ReleaseNative, Offloading, offloadVars
    <3> QED
      BY <1>0, <1>9, <3>1, <3>2 DEF ReleaseNative, GroupFenced, procVars, journalVars, ghostVars
  <2> QED
    BY <1>0, <1>9, <2>1 DEF ReleaseNative, ProcessInv, IInv, procVars, journalVars
<1>10. ASSUME NEW h \in Groups, PollComfy(h) PROVE IInv'
  <2>2. SameLeases
    <3> DEFINE l == Ticked(lease[h], NativesOnCpu(h))
    <3>1. lease' = [lease EXCEPT ![h] = l]
      BY <1>10 DEF PollComfy
    <3>2. /\ l = None <=> lease[h] = None
          /\ lease[h] # None => l.token = lease[h].token
      BY <1>0, TickedType, SMTT(30)
    <3> HIDE DEF l
    <3> QED
      BY <1>0, <3>1, <3>2, OneLease
  <2>3. CASE UNCHANGED offloading
    BY <1>0, <1>10, <2>2, <2>3, FencePreserved DEF PollComfy, fenceState, procVars, nativeVars, ghostVars
  <2>4. CASE \E p \in Members(h) :
               /\ OffloadCandidate(h, p)
               /\ offloading' = [offloading EXCEPT ![p] = <<obs[p].inst, obs[p].rev>>]
    <3>1. claims[h] = {}
      <4>1. lease[h] = None /\ h \notin recovery /\ phase # "down"
        BY <1>10, <2>4 DEF OffloadCandidate, PollComfy
      <4> QED
        BY <1>0, <4>1 DEF GroupFenced
    <3>2. ASSUME NEW g \in Groups PROVE GroupFenced(g)'
      <4>1. NativeActive(g)' <=> NativeActive(g)
        BY <1>10 DEF PollComfy, NativeActive, nativeVars
      <4>2. g # h => (Offloading(g)' => Offloading(g))
        BY <2>4 DEF Offloading, Members
      <4>3. UNCHANGED <<phase, recovery, journalVars, claims>>
        BY <1>10 DEF PollComfy, procVars, ghostVars
      <4> QED
        BY <1>0, <2>2, <3>1, <4>1, <4>2, <4>3 DEF GroupFenced, SameLeases, journalVars
    <3>3. ProcessInv'
      BY <1>0, <1>10, <2>2 DEF ProcessInv, PollComfy, procVars, journalVars, SameLeases
    <3> QED
      BY <1>0, <3>2, <3>3 DEF IInv
  <2> QED
    BY <1>10, <2>3, <2>4 DEF PollComfy
<1>11. ASSUME NEW h \in Groups, AcquireComfy(h) PROVE IInv'
  <2>1. PICK t \in Tokens :
           /\ lease' = [lease EXCEPT ![h] = [token |-> t, expired |-> FALSE, revoked |-> FALSE,
                                             reason |-> "none", cleanupFailed |-> FALSE]]
           /\ claims' = [claims EXCEPT ![h] = @ \cup {t}]
    BY <1>11 DEF AcquireComfy
  <2>2. /\ claims[h] = {}
        /\ ~NativeActive(h) /\ ~Offloading(h)
    BY <1>0, <1>11 DEF AcquireComfy, GrantableToComfy, NativesOnCpu, GroupFenced, Offloading
  <2>3. ASSUME NEW g \in Groups PROVE GroupFenced(g)'
    <3>1. /\ NativeActive(g)' <=> NativeActive(g)
          /\ Offloading(g)' <=> Offloading(g)
      BY <1>11 DEF AcquireComfy, NativeActive, Offloading, nativeVars, offloadVars
    <3>2. /\ claims'[g] = IF g = h THEN {t} ELSE claims[g]
          /\ g = h => lease'[g] # None /\ lease'[g].token = t
          /\ g # h => lease'[g] = lease[g]
      <4>1. [token |-> t, expired |-> FALSE, revoked |-> FALSE,
             reason |-> "none", cleanupFailed |-> FALSE] \in Lease
        BY DEF Lease, Reasons
      <4> QED
        BY <1>0, <2>1, <2>2, <4>1, NoneAssumption
    <3>3. /\ memory' = memory \cup {h} /\ disk' = memory \cup {h} /\ file' = "ok"
          /\ journalOpen /\ UNCHANGED <<phase, recovery>>
      BY <1>11 DEF AcquireComfy, Committed, WriteFile, procVars
    <3> QED
      BY <1>0, <2>2, <3>1, <3>2, <3>3 DEF GroupFenced
  <2>4. ProcessInv'
    <3>1. phase = "up" /\ UNCHANGED <<phase, journalOpen>>
      BY <1>11 DEF AcquireComfy, Committed, GrantableToComfy, procVars
    <3> QED
      BY <1>0, <3>1 DEF ProcessInv
  <2> QED
    BY <1>0, <2>3, <2>4 DEF IInv
<1>12. ASSUME NEW h \in Groups, AcquireComfyFails(h) PROVE IInv'
  <2>1. SameLeases
    BY <1>0, <1>12, RevokedType DEF AcquireComfyFails, CommitFailed, SameLeases, Reasons
  <2>2. phase = "up" /\ recovery' = Groups
        /\ UNCHANGED <<phase, journalOpen, memory, nativeVars, offloadVars, ghostVars>>
    BY <1>12 DEF AcquireComfyFails, CommitFailed, GrantableToComfy
  <2>3. ASSUME NEW g \in Groups PROVE GroupFenced(g)'
    <3>1. /\ NativeActive(g)' <=> NativeActive(g)
          /\ Offloading(g)' <=> Offloading(g)
      BY <2>2 DEF NativeActive, Offloading, nativeVars, offloadVars
    <3>2. \/ UNCHANGED <<disk, file>>
          \/ journalOpen /\ file' = "ok" /\ disk' = memory \cup {h}
      BY <1>12 DEF AcquireComfyFails, CommitFailed, WriteFile
    <3> QED
      BY <1>0, <2>1, <2>2, <3>1, <3>2 DEF GroupFenced, SameLeases, ghostVars
  <2> QED
    BY <1>0, <2>1, <2>2, <2>3 DEF IInv, ProcessInv
<1>13. ASSUME NEW h \in Groups, AcquireComfyCrashes(h) PROVE IInv'
  <2>1. phase = "up" /\ h \notin recovery /\ file' = "ok" /\ disk' = memory \cup {h}
        /\ ProcessGone /\ UNCHANGED claims
    BY <1>13 DEF AcquireComfyCrashes, GrantableToComfy, WriteFile, ghostVars
  <2>2. journalOpen
    BY <1>13 DEF AcquireComfyCrashes
  <2>3. ASSUME NEW g \in Groups
        PROVE  /\ claims'[g] \subseteq claims[g]
               /\ claims'[g] # {} => file' = "bad" \/ (file' = "ok" /\ g \in disk')
    BY <1>0, <2>1, <2>2 DEF GroupFenced
  <2> QED
    BY <1>0, <2>1, <2>3, FenceSurvivesProcess
<1>14. ASSUME NEW h \in Groups, CheckComfy(h) \/ Snapshot(h) \/ LeaseExpires(h) PROVE IInv'
  <2> DEFINE l == Ticked(lease[h], NativesOnCpu(h))
  <2>2. /\ l \in Lease \cup {None}
        /\ lease[h] = None <=> l = None
        /\ lease[h] # None => l.token = lease[h].token
    BY <1>0, TickedType
  <2>3. \/ lease' = [lease EXCEPT ![h] = IF l.revoked THEN l ELSE [l EXCEPT !.expired = FALSE]]
           /\ lease[h] # None
        \/ lease' = [lease EXCEPT ![h] = l]
        \/ lease' = [lease EXCEPT ![h] = [@ EXCEPT !.expired = TRUE]] /\ lease[h] # None
    BY <1>14 DEF CheckComfy, Snapshot, LeaseExpires
  <2> HIDE DEF l
  <2>4. SameLeases
    <3>1. CASE lease[h] = None
      BY <1>0, <2>2, <2>3, <3>1, OneLease
    <3>2. CASE lease[h] # None
      <4>1. lease[h] \in Lease /\ l \in Lease
        BY <1>0, <2>2, <3>2
      <4>2. /\ [l EXCEPT !.expired = FALSE] \in Lease
            /\ [l EXCEPT !.expired = FALSE].token = l.token
            /\ [lease[h] EXCEPT !.expired = TRUE] \in Lease
            /\ [lease[h] EXCEPT !.expired = TRUE].token = lease[h].token
        BY <4>1 DEF Lease
      <4>3. PICK m : /\ lease' = [lease EXCEPT ![h] = m]
                     /\ m # None /\ m.token = lease[h].token
        BY <2>2, <2>3, <3>2, <4>2, NoneAssumption
      <4> QED
        BY <1>0, <3>2, <4>3, OneLease
    <3> QED
      BY <3>1, <3>2
  <2> QED
    BY <1>0, <1>14, <2>4, FencePreserved
    DEF CheckComfy, Snapshot, LeaseExpires, fenceState, procVars, nativeVars, offloadVars, ghostVars
<1>15. ASSUME NEW h \in Groups, ReleaseClean(h) PROVE IInv'
  <2>1. /\ claims'[h] = {}
        /\ lease' = [lease EXCEPT ![h] = None]
        /\ \A g \in Groups \ {h} : claims'[g] = claims[g]
    BY <1>0, <1>15 DEF ReleaseClean, DeclareClean, GroupFenced
  <2>2. /\ journalOpen /\ UNCHANGED <<phase, recovery, journalOpen>>
        /\ file' = "ok" /\ disk' = memory \ {h} /\ memory' = memory \ {h}
    BY <1>15 DEF ReleaseClean, Committed, WriteFile, procVars
  <2>3. ASSUME NEW g \in Groups PROVE GroupFenced(g)'
    <3>1. /\ NativeActive(g)' <=> NativeActive(g)
          /\ Offloading(g)' <=> Offloading(g)
      BY <1>15 DEF ReleaseClean, NativeActive, Offloading, nativeVars, offloadVars
    <3> QED
      BY <1>0, <2>1, <2>2, <3>1 DEF GroupFenced
  <2>4. ProcessInv'
    BY <1>0, <2>1, <2>2, <1>15 DEF ProcessInv, ReleaseClean
  <2> QED
    BY <1>0, <2>3, <2>4 DEF IInv
<1>16. ASSUME NEW h \in Groups, ReleaseCleanFails(h) PROVE IInv'
  <2>1. /\ claims'[h] = {}
        /\ \A g \in Groups \ {h} : claims'[g] = claims[g]
    BY <1>0, <1>16 DEF ReleaseCleanFails, DeclareClean, GroupFenced
  <2>2. SameLeases
    BY <1>0, <1>16, RevokedType DEF ReleaseCleanFails, CommitFailed, SameLeases, Reasons
  <2>3. phase # "down" /\ recovery' = Groups
        /\ UNCHANGED <<phase, journalOpen, memory, nativeVars, offloadVars>>
    BY <1>16 DEF ReleaseCleanFails, CommitFailed
  <2>4. ASSUME NEW g \in Groups PROVE GroupFenced(g)'
    <3>1. /\ NativeActive(g)' <=> NativeActive(g)
          /\ Offloading(g)' <=> Offloading(g)
      BY <2>3 DEF NativeActive, Offloading, nativeVars, offloadVars
    <3>2. \/ UNCHANGED <<disk, file>>
          \/ journalOpen /\ file' = "ok" /\ disk' = memory \ {h}
      BY <1>16 DEF ReleaseCleanFails, CommitFailed, WriteFile
    <3> QED
      BY <1>0, <2>1, <2>2, <2>3, <3>1, <3>2 DEF GroupFenced, SameLeases
  <2> QED
    BY <1>0, <2>2, <2>3, <2>4 DEF IInv, ProcessInv
<1>17. ASSUME NEW h \in Groups, ReleaseCleanCrashes(h) PROVE IInv'
  <2>1. /\ claims'[h] = {}
        /\ \A g \in Groups \ {h} : claims'[g] = claims[g]
    BY <1>0, <1>17 DEF ReleaseCleanCrashes, DeclareClean, GroupFenced
  <2>2. journalOpen /\ file' = "ok" /\ disk' = memory \ {h} /\ ProcessGone
    BY <1>17 DEF ReleaseCleanCrashes, WriteFile
  <2>3. ASSUME NEW g \in Groups
        PROVE  /\ claims'[g] \subseteq claims[g]
               /\ claims'[g] # {} => file' = "bad" \/ (file' = "ok" /\ g \in disk')
    BY <1>0, <2>1, <2>2 DEF GroupFenced
  <2> QED
    BY <1>0, <2>2, <2>3, FenceSurvivesProcess
<1>18. ASSUME NEW h \in Groups, ReleaseUnclean(h) PROVE IInv'
  <2> DEFINE r == Revoked(lease[h], "unclean")
  <2>1. r \in Lease /\ r.token = lease[h].token
    BY <1>0, <1>18, RevokedType DEF ReleaseUnclean, Reasons
  <2>2. lease' = [lease EXCEPT ![h] = [r EXCEPT !.reason = "unclean", !.cleanupFailed = TRUE]]
    BY <1>18 DEF ReleaseUnclean
  <2>3. lease[h] # None
    BY <1>18 DEF ReleaseUnclean
  <2> HIDE DEF r
  <2>4. /\ [r EXCEPT !.reason = "unclean", !.cleanupFailed = TRUE] \in Lease
        /\ [r EXCEPT !.reason = "unclean", !.cleanupFailed = TRUE].token = lease[h].token
    BY <2>1 DEF Lease, Reasons
  <2>5. SameLeases
    BY <1>0, <2>2, <2>3, <2>4, NoneAssumption DEF SameLeases
  <2> QED
    BY <1>0, <1>18, <2>5, FencePreserved DEF ReleaseUnclean, fenceState, procVars, nativeVars, offloadVars, ghostVars
<1>19. ASSUME NEW h \in Groups, NEW t \in Tokens, ReleaseUnknown(h, t) PROVE IInv'
  <2>1. \A g \in Groups : claims'[g] \subseteq claims[g]
    BY <1>19 DEF ReleaseUnknown
  <2>2. ASSUME NEW g \in Groups PROVE GroupFenced(g)'
    <3>1. /\ NativeActive(g)' <=> NativeActive(g)
          /\ Offloading(g)' <=> Offloading(g)
      BY <1>19 DEF ReleaseUnknown, NativeActive, Offloading, nativeVars, offloadVars
    <3> QED
      BY <1>0, <1>19, <2>1, <3>1 DEF ReleaseUnknown, GroupFenced, procVars, journalVars
  <2> QED
    BY <1>0, <1>19, <2>2 DEF IInv, ProcessInv, ReleaseUnknown, procVars, journalVars
<1>20. CASE UNCHANGED vars
  BY <1>0, <1>20, FencePreserved DEF vars, procVars, nativeVars, offloadVars, ghostVars, fenceState, SameLeases
<1> QED
  BY <1>1, <1>2, <1>3, <1>4, <1>5, <1>6, <1>7, <1>8, <1>9, <1>10, <1>11, <1>12, <1>13, <1>14, <1>15,
     <1>16, <1>17, <1>18, <1>19, <1>20 DEF Next, Native, Comfy

\* While a Comfy holder may still be on the GPU of a group, no native token, no
\* offload and no second holder exists there: acquire_native, acquire_comfy and
\* the offloads it starts never overlap a holder, whatever crashed in between.
THEOREM Exclusive == Spec => []ExclusiveUse
<1>1. IInv => ExclusiveUse
  BY DEF IInv, GroupFenced, ExclusiveUse
<1> QED
  BY <1>1, InitFenced, FenceStep, PTL DEF Spec

\* A Comfy holder is always covered by the journal on disk (_persist_comfy
\* commits before acquire_comfy answers and after release_comfy was told).
THEOREM Durable == Spec => []DurableFence
<1>1. IInv => DurableFence
  BY DEF IInv, GroupFenced, DurableFence
<1> QED
  BY <1>1, InitFenced, FenceStep, PTL DEF Spec
-----------------------------------------------------------------------------
(***************************************************************************)
(* What becomes of one lease.  It only gets worse: once revoked it stays   *)
(* revoked, a failed cleanup stays one, and the reason never becomes less  *)
(* grave; for that, a reason "unclean" must come with a failed cleanup,    *)
(* which a later expiry respects.                                          *)
(***************************************************************************)
Recorded(l) == l # None /\ l.reason = "unclean" => l.cleanupFailed

Worsens(l, m) ==
  l # None /\ m # None =>
    /\ m.token = l.token
    /\ l.revoked => m.revoked
    /\ l.cleanupFailed => m.cleanupFailed
    /\ Gravity(m.reason) >= Gravity(l.reason)

\* Every reason has a rank.
LEMMA GravityType == \A r \in Reasons : Gravity(r) \in 0..3 /\ (Gravity(r) = 0 <=> r = "none")
  BY DEF Reasons, Gravity

\* _revoke only makes a lease worse.
LEMMA RevokedWorsens ==
  ASSUME NEW l \in Lease \cup {None}, NEW why \in {"native", "fault", "expired"}, Recorded(l)
  PROVE  Worsens(l, Revoked(l, why)) /\ Recorded(Revoked(l, why))
<1>1. CASE l = None
  BY <1>1, RevokedType DEF Worsens, Recorded, Revoked
<1>2. CASE l # None
  <2>1. l \in Lease /\ Gravity(l.reason) \in 0..3 /\ Gravity(why) \in 0..3
    BY <1>2, GravityType DEF Lease, Reasons
  <2>2. /\ Revoked(l, why) # None
        /\ Revoked(l, why).token = l.token
        /\ Revoked(l, why).revoked
        /\ Revoked(l, why).cleanupFailed = l.cleanupFailed
        /\ Revoked(l, why).reason = IF l.reason = "none" THEN why ELSE l.reason
    BY <1>2, RevokedType DEF Reasons
  <2>3. Gravity(Revoked(l, why).reason) >= Gravity(l.reason)
    <3>1. CASE l.reason = "none"
      BY <2>1, <2>2, <3>1, GravityType DEF Reasons
    <3>2. CASE l.reason # "none"
      BY <2>1, <2>2, <3>2
    <3> QED BY <3>1, <3>2
  <2> QED
    BY <1>2, <2>2, <2>3 DEF Worsens, Recorded
<1> QED
  BY <1>1, <1>2

\* The expiry half of _tick: "expired" ranks above every reason of a lease whose
\* cleanup is not known to have failed.
LEMMA ExpiredWorsens ==
  ASSUME NEW l \in Lease \cup {None}, Recorded(l)
  PROVE  Worsens(l, Expired(l)) /\ Recorded(Expired(l))
<1>1. CASE l # None /\ l.expired
  <2> DEFINE r == Revoked(l, "expired")
  <2>1. /\ r \in Lease /\ r # None /\ r.token = l.token /\ r.revoked
        /\ r.cleanupFailed = l.cleanupFailed
        /\ l.reason # "none" => r.reason = l.reason
        /\ l.reason = "none" => r.reason = "expired"
    BY <1>1, RevokedType, NoneAssumption DEF Reasons
  <2>2. Expired(l) = [r EXCEPT !.reason = IF l.cleanupFailed THEN @ ELSE "expired"]
    BY <1>1 DEF Expired
  <2>3. l \in Lease /\ l.reason \in Reasons /\ (l.reason = "unclean" => l.cleanupFailed)
    BY <1>1 DEF Recorded, Lease
  <2> HIDE DEF r
  <2>4. /\ Expired(l).token = l.token
        /\ Expired(l).revoked
        /\ Expired(l).cleanupFailed = l.cleanupFailed
        /\ Expired(l).reason = IF l.cleanupFailed THEN r.reason ELSE "expired"
    BY <2>1, <2>2 DEF Lease
  <2>5. Gravity(Expired(l).reason) >= Gravity(l.reason)
    BY <2>1, <2>3, <2>4 DEF Gravity, Reasons
  <2> QED
    BY <2>1, <2>3, <2>4, <2>5 DEF Worsens, Recorded
<1>2. CASE ~(l # None /\ l.expired)
  <2>1. Expired(l) = l
    BY <1>2 DEF Expired
  <2>2. l # None => Gravity(l.reason) \in 0..3
    BY GravityType DEF Lease
  <2> QED
    BY <2>1, <2>2 DEF Worsens
<1> QED
  BY <1>1, <1>2

\* Worse than worse is worse.
LEMMA WorsensTwice ==
  ASSUME NEW l \in Lease \cup {None}, NEW m \in Lease, NEW n \in Lease \cup {None},
         Worsens(l, m), Worsens(m, n)
  PROVE  Worsens(l, n)
<1>1. /\ l # None => Gravity(l.reason) \in 0..3
      /\ n # None => Gravity(n.reason) \in 0..3
      /\ Gravity(m.reason) \in 0..3
  BY GravityType DEF Lease
<1> QED
  BY <1>1, NoneAssumption DEF Worsens

\* The whole of _tick.
LEMMA TickedWorsens ==
  ASSUME NEW l \in Lease \cup {None}, NEW onCpu, Recorded(l)
  PROVE  Worsens(l, Ticked(l, onCpu)) /\ Recorded(Ticked(l, onCpu))
<1>1. /\ Expired(l) \in Lease \cup {None}
      /\ Worsens(l, Expired(l)) /\ Recorded(Expired(l))
  BY ExpiredType, ExpiredWorsens
<1>2. Worsens(Expired(l), Revoked(Expired(l), "native")) /\ Recorded(Revoked(Expired(l), "native"))
  BY <1>1, RevokedWorsens
<1>3. Worsens(l, Revoked(Expired(l), "native"))
  <2>1. CASE l = None
    BY <2>1 DEF Worsens
  <2>2. CASE l # None
    <3>1. Expired(l) \in Lease /\ Revoked(Expired(l), "native") \in Lease \cup {None}
      BY <2>2, <1>1, ExpiredType, RevokedType DEF Reasons
    <3> QED
      BY <1>1, <1>2, <3>1, WorsensTwice
  <2> QED BY <2>1, <2>2
<1> QED
  BY <1>1, <1>2, <1>3 DEF Ticked

LeasesRecorded == \A g \in Groups : Recorded(lease[g])

\* A lease changes, if at all, only for the worse, or it ends or begins.
LEMMA LeaseStep ==
  ASSUME TypeOK, LeasesRecorded, [Next]_vars
  PROVE  \A g \in Groups : Worsens(lease[g], lease'[g]) /\ Recorded(lease'[g])
<1> USE DEF TypeOK, LeasesRecorded
<1>1. ASSUME NEW l \in Lease \cup {None}, Recorded(l) PROVE Worsens(l, l)
  <2>1. l # None => Gravity(l.reason) \in 0..3
    BY GravityType DEF Lease
  <2> QED
    BY <2>1 DEF Worsens
<1>2. ASSUME NEW h \in Groups, NEW l, lease' = [lease EXCEPT ![h] = l],
             Worsens(lease[h], l), Recorded(l)
      PROVE  \A g \in Groups : Worsens(lease[g], lease'[g]) /\ Recorded(lease'[g])
  BY <1>1, <1>2
<1>3. CASE UNCHANGED lease
  BY <1>1, <1>3
<1>4. CASE lease' = [g \in Groups |-> None]
  BY <1>4 DEF Worsens, Recorded
<1>5. CASE lease' = [g \in Groups |-> Revoked(lease[g], "fault")]
  BY <1>5, RevokedWorsens
<1>6. CASE \E h \in Groups : lease' = [lease EXCEPT ![h] = Revoked(@, "native")]
  BY <1>2, <1>6, RevokedWorsens
<1>7. CASE \E h \in Groups : \E onCpu : lease' = [lease EXCEPT ![h] = Ticked(@, onCpu)]
  BY <1>2, <1>7, TickedWorsens
<1>8. CASE \E h \in Groups : lease' = [lease EXCEPT ![h] = Ticked(Revoked(@, "native"), FALSE)]
  <2>1. PICK h \in Groups : lease' = [lease EXCEPT ![h] = Ticked(Revoked(@, "native"), FALSE)]
    BY <1>8
  <2> DEFINE l == lease[h]
             m == Revoked(l, "native")
             n == Ticked(m, FALSE)
  <2>2. Worsens(l, m) /\ Recorded(m) /\ m \in Lease \cup {None} /\ (m = None <=> l = None)
    BY RevokedWorsens, RevokedType DEF Reasons
  <2>3. Worsens(m, n) /\ Recorded(n) /\ n \in Lease \cup {None}
    BY <2>2, TickedWorsens, TickedType
  <2>4. lease' = [lease EXCEPT ![h] = n] /\ l \in Lease \cup {None} /\ l = lease[h]
    BY <2>1
  <2> HIDE DEF l, m, n
  <2>5. Worsens(l, n)
    BY <2>2, <2>3, <2>4, WorsensTwice DEF Worsens
  <2> QED
    BY <1>2, <2>3, <2>4, <2>5
<1>9. CASE \E h \in Groups : AcquireComfy(h)
  <2>1. PICK h \in Groups, t \in Tokens :
           /\ lease[h] = None
           /\ lease' = [lease EXCEPT ![h] = [token |-> t, expired |-> FALSE, revoked |-> FALSE,
                                             reason |-> "none", cleanupFailed |-> FALSE]]
    BY <1>9 DEF AcquireComfy, GrantableToComfy
  <2> QED
    BY <1>2, <2>1 DEF Worsens, Recorded
<1>10. CASE \E h \in Groups : CheckComfy(h)
  <2>1. PICK h \in Groups : CheckComfy(h)
    BY <1>10
  <2> DEFINE l == Ticked(lease[h], NativesOnCpu(h))
             m == IF l.revoked THEN l ELSE [l EXCEPT !.expired = FALSE]
  <2>2. lease[h] # None /\ lease' = [lease EXCEPT ![h] = m]
    BY <2>1 DEF CheckComfy
  <2>3. l \in Lease /\ Worsens(lease[h], l) /\ Recorded(l)
    BY <2>2, TickedType, TickedWorsens
  <2> HIDE DEF l
  <2>4. /\ m \in Lease /\ m.token = l.token /\ m.revoked = l.revoked
        /\ m.cleanupFailed = l.cleanupFailed /\ m.reason = l.reason
    BY <2>3 DEF Lease
  <2> HIDE DEF m
  <2>5. Worsens(lease[h], m) /\ Recorded(m)
    BY <2>2, <2>3, <2>4, NoneAssumption DEF Worsens, Recorded
  <2> QED
    BY <1>2, <2>2, <2>5
<1>11. CASE \E h \in Groups : LeaseExpires(h)
  <2>1. PICK h \in Groups : LeaseExpires(h)
    BY <1>11
  <2> DEFINE l == lease[h]
             m == [l EXCEPT !.expired = TRUE]
  <2>2. l \in Lease /\ lease' = [lease EXCEPT ![h] = m]
    BY <2>1 DEF LeaseExpires
  <2>3. /\ m.token = l.token /\ m.revoked = l.revoked
        /\ m.cleanupFailed = l.cleanupFailed /\ m.reason = l.reason
    BY <2>2 DEF Lease
  <2>4. Worsens(l, l)
    BY <1>1, <2>2
  <2>5. l # None /\ Recorded(l)
    BY <2>2, NoneAssumption
  <2>6. Worsens(l, m) /\ Recorded(m)
    BY <2>3, <2>4, <2>5 DEF Worsens, Recorded
  <2> QED
    BY <1>2, <2>2, <2>6
<1>12. CASE \E h \in Groups : ReleaseUnclean(h)
  <2>1. PICK h \in Groups : ReleaseUnclean(h)
    BY <1>12
  <2> DEFINE l == lease[h]
             r == Revoked(l, "unclean")
             m == [r EXCEPT !.reason = "unclean", !.cleanupFailed = TRUE]
  <2>2. l \in Lease /\ lease' = [lease EXCEPT ![h] = m]
    BY <2>1 DEF ReleaseUnclean
  <2>3. r \in Lease /\ r.token = l.token /\ r.revoked
    BY <2>2, RevokedType, NoneAssumption DEF Reasons
  <2>4. Gravity("unclean") = 3 /\ Gravity(l.reason) \in 0..3
    BY <2>2, GravityType DEF Gravity, Lease
  <2> HIDE DEF r, l
  <2>5. m.token = l.token /\ m.revoked /\ m.cleanupFailed /\ m.reason = "unclean"
    BY <2>3 DEF Lease
  <2> HIDE DEF m
  <2>6. Worsens(l, m) /\ Recorded(m)
    BY <2>4, <2>5 DEF Worsens, Recorded
  <2> QED
    BY <1>2, <2>2, <2>6 DEF l
<1>13. CASE \E h \in Groups : lease' = [lease EXCEPT ![h] = None]
  BY <1>2, <1>13 DEF Worsens, Recorded
<1>14. ASSUME NEW p \in Participants PROVE GroupOf[p] \in Groups
  BY GroupAssumption
<1>15. CASE Start \/ Crash \/ Close \/ DamageJournal \/ MaintenanceReset
  BY <1>3, <1>4, <1>5, <1>15 DEF Start, Crash, Close, DamageJournal, MaintenanceReset, ProcessGone
<1>16. CASE Native
  <2> DEFINE Kept == \A g \in Groups : Worsens(lease[g], lease'[g]) /\ Recorded(lease'[g])
  <2>1. ASSUME NEW p \in Participants, NEW s \in Reports, UpdateNative(p, s) PROVE Kept
    <3>1. UNCHANGED lease \/ lease' = [lease EXCEPT ![GroupOf[p]] = Revoked(@, "native")]
      BY <1>14, <2>1 DEF UpdateNative
    <3> QED
      BY <1>3, <1>6, <1>14, <3>1
  <2>2. ASSUME NEW p \in Participants, AcquireNative(p) PROVE Kept
    <3>1. \/ UNCHANGED lease
          \/ lease' = [lease EXCEPT ![GroupOf[p]] = Ticked(Revoked(@, "native"), FALSE)]
      BY <2>2 DEF AcquireNative
    <3> QED
      BY <1>3, <1>8, <1>14, <3>1
  <2>3. ASSUME NEW p \in Participants, RetryNative(p) PROVE Kept
    <3>1. UNCHANGED lease \/ lease' = [lease EXCEPT ![GroupOf[p]] = Ticked(@, FALSE)]
      BY <2>3 DEF RetryNative
    <3> QED
      BY <1>3, <1>7, <1>14, <3>1
  <2>4. ASSUME NEW p \in Participants, NEW r \in Reports \cup {None}, OffloadReturns(p, r) \/ ReportAges(p)
        PROVE  Kept
    <3>1. UNCHANGED lease
      BY <2>4 DEF OffloadReturns, ReportAges
    <3> QED
      BY <1>3, <3>1
  <2>5. PICK p \in Participants : \/ \E s \in Reports : UpdateNative(p, s)
                                 \/ AcquireNative(p) \/ RetryNative(p)
                                 \/ \E r \in Reports \cup {None} : OffloadReturns(p, r)
                                 \/ ReportAges(p)
    BY <1>16 DEF Native
  <2> HIDE DEF Kept
  <2>6. Kept
    <3>1. ASSUME NEW s \in Reports, UpdateNative(p, s) PROVE Kept
      BY <2>1, <3>1
    <3>2. ASSUME NEW r \in Reports \cup {None}, OffloadReturns(p, r) PROVE Kept
      BY <2>4, <3>2
    <3>3. ReportAges(p) => Kept
      BY <2>4
    <3> QED
      BY <2>2, <2>3, <2>5, <3>1, <3>2, <3>3
  <2> QED
    BY <2>6 DEF Kept
<1>17. CASE \E n \in nativeTokens : ReleaseNative(n)
  BY <1>3, <1>17 DEF ReleaseNative
<1>18. CASE Comfy
  BY <1>3, <1>4, <1>5, <1>7, <1>9, <1>10, <1>11, <1>12, <1>13, <1>18
     DEF Comfy, PollComfy, AcquireComfyFails, AcquireComfyCrashes, Snapshot, ReleaseClean,
         ReleaseCleanFails, ReleaseCleanCrashes, ReleaseUnknown, CommitFailed, ProcessGone
<1>19. CASE UNCHANGED vars
  BY <1>3, <1>19 DEF vars
<1> QED
  BY <1>15, <1>16, <1>17, <1>18, <1>19 DEF Next

\* Whatever happens to a lease - reports, ticks, expiry, failed commits, an
\* unclean release, in any order - it never comes back to life and the gravest
\* thing known about it is never forgotten (_revoke, _tick, release_comfy).
THEOREM RevocationFinal == Spec => RevocationIsFinal
<1>1. Init => LeasesRecorded
  BY DEF Init, LeasesRecorded, Recorded
<1>2. TypeOK /\ LeasesRecorded /\ [Next]_vars => LeasesRecorded'
  BY LeaseStep DEF LeasesRecorded
<1> DEFINE Final == \A g \in Groups :
              lease[g] # None /\ lease'[g] # None /\ lease'[g].token = lease[g].token =>
                 /\ lease[g].revoked => lease'[g].revoked
                 /\ lease[g].cleanupFailed => lease'[g].cleanupFailed
                 /\ Gravity(lease'[g].reason) >= Gravity(lease[g].reason)
<1>3. TypeOK /\ LeasesRecorded /\ [Next]_vars => [Final]_vars
  BY LeaseStep DEF Worsens
<1> HIDE DEF Final
<1>4. Spec => [][Final]_vars
  BY <1>1, <1>2, <1>3, TypeCorrect, PTL DEF Spec
<1> QED
  BY <1>4 DEF RevocationIsFinal, Final
-----------------------------------------------------------------------------
(***************************************************************************)
(* A lease that nobody revoked.                                            *)
(***************************************************************************)
Idle(p) == /\ obs[p] # None /\ obs[p].ready /\ ~obs[p].busy /\ obs[p].residency = "cpu"
           /\ offloading[p] = None /\ offloadFailed[p] = None

LiveLease(g) ==
  lease[g] # None /\ ~lease[g].revoked =>
     /\ g \notin recovery
     /\ ~NativeActive(g) /\ ~NativeWaiting(g)
     /\ \A p \in Members(g) : Idle(p)

\* What LiveLease reads beside the lease, for the steps that touch none of it.
idleState == <<recovery, nativeTokens, waiters, obs, offloading, offloadFailed>>

\* Where nothing else changed, a lease that is live was live before.
LEMMA LivePreserved ==
  ASSUME NEW g \in Groups, LiveLease(g), UNCHANGED idleState,
         lease'[g] # None /\ ~lease'[g].revoked => lease[g] # None /\ ~lease[g].revoked
  PROVE  LiveLease(g)'
<1>1. /\ NativeActive(g)' <=> NativeActive(g)
      /\ NativeWaiting(g)' <=> NativeWaiting(g)
      /\ \A p \in Members(g) : Idle(p)' <=> Idle(p)
  BY DEF idleState, NativeActive, NativeWaiting, Idle, Members
<1> QED
  BY <1>1 DEF LiveLease, idleState, Members

\* Natives of two groups do not disturb each other.
LEMMA OtherGroup ==
  ASSUME TypeOK, NEW p \in Participants, NEW g \in Groups, g # GroupOf[p]
  PROVE  /\ p \notin Members(g)
         /\ \A q \in Members(g) : q \in Participants /\ q # p
  BY DEF Members

\* A native's report, its request or the answer of its offload revokes the
\* lease unless the native is still idle on the CPU.
LEMMA LiveNative ==
  ASSUME IInv, \A g \in Groups : LiveLease(g), Native
  PROVE  \A g \in Groups : LiveLease(g)'
<1>0. TypeOK
  BY DEF IInv
<1> USE DEF TypeOK
<1>1. ASSUME NEW p \in Participants, NEW s \in Reports, UpdateNative(p, s), NEW g \in Groups
      PROVE  LiveLease(g)'
  <2>1. s \in Status /\ GroupOf[p] \in Groups
    BY ReportAssumption, GroupAssumption
  <2>2. UNCHANGED <<recovery, nativeTokens, waiters, offloading>>
    BY <1>1 DEF UpdateNative, procVars
  <2>3. /\ NativeActive(g)' <=> NativeActive(g)
        /\ NativeWaiting(g)' <=> NativeWaiting(g)
    BY <2>2 DEF NativeActive, NativeWaiting, Members
  <2>4. CASE g # GroupOf[p]
    <3>1. \A q \in Members(g) : Idle(q) => Idle(q)'
      BY <1>0, <1>1, <2>2, <2>4, OtherGroup DEF UpdateNative, Idle
    <3>2. lease'[g] = lease[g]
      BY <1>0, <1>1, <2>1, <2>4 DEF UpdateNative
    <3> QED
      BY <2>2, <2>3, <3>1, <3>2 DEF LiveLease, Members
  <2>5. CASE g = GroupOf[p]
    <3>1. CASE Disturbs(obs[p], s)
      <4>1. lease'[g] = Revoked(lease[g], "native")
        BY <1>0, <1>1, <2>5, <3>1 DEF UpdateNative
      <4>2. lease'[g] = None \/ lease'[g].revoked
        BY <1>0, <4>1, RevokedType DEF Reasons
      <4> QED
        BY <4>2 DEF LiveLease
    <3>2. CASE ~Disturbs(obs[p], s)
      <4>1. lease'[g] = lease[g] /\ obs'[p] = s /\ ~s.busy /\ s.ready /\ s.residency = "cpu"
        BY <1>0, <1>1, <2>1, <2>5, <3>2 DEF UpdateNative, Disturbs
      <4>2. offloadFailed'[p] = None /\ offloading'[p] = offloading[p]
        BY <1>0, <1>1, <2>2, <4>1 DEF UpdateNative
      <4>3. \A q \in Participants \ {p} : Idle(q) => Idle(q)'
        BY <1>0, <1>1, <2>2 DEF UpdateNative, Idle
      <4>4. Idle(p) => Idle(p)'
        BY <2>1, <4>1, <4>2, NoneAssumption DEF Idle
      <4> QED
        BY <2>2, <2>3, <4>1, <4>3, <4>4 DEF LiveLease, Members
    <3> QED
      BY <3>1, <3>2
  <2> QED
    BY <2>4, <2>5
<1>2. ASSUME NEW p \in Participants, AcquireNative(p) \/ RetryNative(p), NEW g \in Groups
      PROVE  LiveLease(g)'
  <2>1. GroupOf[p] \in Groups
    BY GroupAssumption
  <2>2. UNCHANGED <<recovery, obs, offloading, offloadFailed>>
    BY <1>2 DEF AcquireNative, RetryNative, procVars, offloadVars
  <2>3. \A q \in Members(g) : Idle(q)' <=> Idle(q)
    BY <2>2 DEF Idle
  <2>4. UNCHANGED nativeTokens \/ HandOutNative(p)
    BY <1>2 DEF AcquireNative, RetryNative
  <2>5. UNCHANGED waiters \/ waiters' = [waiters EXCEPT ![p] = @ + 1] \/ waiters' = [waiters EXCEPT ![p] = @ - 1]
    BY <1>2 DEF AcquireNative, RetryNative, Leave
  <2>6. CASE g # GroupOf[p]
    <3>1. NativeActive(g)' => NativeActive(g)
      BY <2>4, <2>6 DEF NativeActive, HandOutNative
    <3>2. NativeWaiting(g)' => NativeWaiting(g)
      BY <1>0, <2>5, <2>6 DEF NativeWaiting, Members
    <3>3. lease'[g] = lease[g]
      BY <1>0, <1>2, <2>1, <2>6 DEF AcquireNative, RetryNative
    <3> QED
      BY <2>2, <2>3, <3>1, <3>2, <3>3 DEF LiveLease, Members
  <2>7. CASE g = GroupOf[p]
    <3>1. CASE lease'[g] = None
      BY <3>1 DEF LiveLease
    <3>2. CASE lease'[g] = Ticked(Revoked(lease[g], "native"), FALSE) \/ lease'[g] = Ticked(lease[g], FALSE)
      <4>1. Revoked(lease[g], "native") \in Lease \cup {None} /\ lease[g] \in Lease \cup {None}
        BY <1>0, RevokedType DEF Reasons
      <4>2. ASSUME NEW l \in Lease \cup {None}
            PROVE  Ticked(l, FALSE) = None \/ Ticked(l, FALSE).revoked
        BY ExpiredType, RevokedType DEF Ticked, Reasons
      <4>3. lease'[g] = None \/ lease'[g].revoked
        BY <3>2, <4>1, <4>2
      <4> QED
        BY <4>3 DEF LiveLease
    <3>3. CASE UNCHANGED lease /\ g \in recovery
      BY <2>2, <3>3 DEF LiveLease
    <3>4. \/ lease'[g] = Ticked(Revoked(lease[g], "native"), FALSE)
          \/ lease'[g] = Ticked(lease[g], FALSE)
          \/ UNCHANGED lease /\ (g \in recovery \/ lease[g] = None)
      BY <1>0, <1>2, <2>7 DEF AcquireNative, RetryNative, GrantableToNative
    <3> QED
      BY <3>1, <3>2, <3>3, <3>4
  <2> QED
    BY <2>6, <2>7
<1>3. ASSUME NEW p \in Participants, NEW r \in Reports \cup {None}, OffloadReturns(p, r), NEW g \in Groups
      PROVE  LiveLease(g)'
  <2>1. UNCHANGED <<recovery, nativeTokens, waiters, lease>> /\ offloading[p] # None
    BY <1>3 DEF OffloadReturns, procVars
  <2>2. /\ NativeActive(g)' <=> NativeActive(g)
        /\ NativeWaiting(g)' <=> NativeWaiting(g)
    BY <2>1 DEF NativeActive, NativeWaiting, Members
  <2>3. \A q \in Participants \ {p} : Idle(q) => Idle(q)'
    BY <1>0, <1>3 DEF OffloadReturns, Idle
  <2>4. ~Idle(p)
    BY <2>1 DEF Idle
  <2> QED
    BY <2>1, <2>2, <2>3, <2>4 DEF LiveLease, Members
<1>4. ASSUME NEW p \in Participants, ReportAges(p), NEW g \in Groups PROVE LiveLease(g)'
  BY <1>4, LivePreserved DEF ReportAges, idleState, procVars, offloadVars
<1> QED
  BY <1>1, <1>2, <1>3, <1>4 DEF Native

\* A step of a Comfy holder, of its lease or of an offload.
LEMMA LiveComfy ==
  ASSUME IInv, \A g \in Groups : LiveLease(g), Comfy
  PROVE  \A g \in Groups : LiveLease(g)'
<1>0. TypeOK
  BY DEF IInv
<1> USE DEF TypeOK
<1>1. ASSUME NEW h \in Groups, NEW onCpu, lease' = [lease EXCEPT ![h] = Ticked(@, onCpu)],
             UNCHANGED idleState, NEW g \in Groups
      PROVE  LiveLease(g)'
  BY <1>0, <1>1, TickedType, LivePreserved
<1>2. ASSUME lease' = [g \in Groups |-> None] \/ lease' = [g \in Groups |-> Revoked(lease[g], "fault")],
             NEW g \in Groups
      PROVE  LiveLease(g)'
  <2>1. lease'[g] = None \/ lease'[g].revoked
    BY <1>0, <1>2, RevokedType DEF Reasons
  <2> QED
    BY <2>1 DEF LiveLease
<1>3. ASSUME NEW h \in Groups, NEW g \in Groups, PollComfy(h) PROVE LiveLease(g)'
  <2>1. CASE UNCHANGED offloading
    BY <1>1, <1>3, <2>1 DEF PollComfy, idleState, procVars, nativeVars
  <2>2. CASE \E p \in Members(h) :
               /\ OffloadCandidate(h, p)
               /\ offloading' = [offloading EXCEPT ![p] = <<obs[p].inst, obs[p].rev>>]
    <3>1. lease[h] = None /\ lease' = [lease EXCEPT ![h] = Ticked(@, NativesOnCpu(h))]
          /\ UNCHANGED <<recovery, nativeVars, offloadFailed>>
      BY <1>3, <2>2 DEF PollComfy, OffloadCandidate, procVars
    <3>2. CASE g = h
      BY <1>0, <3>1, <3>2, TickedType DEF LiveLease
    <3>3. CASE g # h
      <4>1. lease'[g] = lease[g]
        BY <1>0, <3>1, <3>3
      <4>2. \A q \in Members(g) : Idle(q)' <=> Idle(q)
        BY <1>0, <2>2, <3>1, <3>3 DEF Members, Idle, nativeVars
      <4>3. /\ NativeActive(g)' <=> NativeActive(g)
            /\ NativeWaiting(g)' <=> NativeWaiting(g)
        BY <3>1 DEF NativeActive, NativeWaiting, Members, nativeVars
      <4> QED
        BY <3>1, <4>1, <4>2, <4>3 DEF LiveLease, Members
    <3> QED
      BY <3>2, <3>3
  <2> QED
    BY <1>3, <2>1, <2>2 DEF PollComfy
<1>4. ASSUME NEW h \in Groups, NEW g \in Groups, AcquireComfy(h) PROVE LiveLease(g)'
  <2>1. UNCHANGED idleState /\ \A q \in Groups \ {h} : lease'[q] = lease[q]
    BY <1>0, <1>4 DEF AcquireComfy, idleState, procVars, nativeVars, offloadVars
  <2>2. CASE g = h
    <3>1. /\ h \notin recovery /\ ~NativeActive(h) /\ ~NativeWaiting(h)
          /\ \A p \in Members(h) : Idle(p)
      BY <1>4 DEF AcquireComfy, GrantableToComfy, NativesOnCpu, Settled, Idle
    <3>2. /\ NativeActive(h)' <=> NativeActive(h)
          /\ NativeWaiting(h)' <=> NativeWaiting(h)
          /\ \A p \in Members(h) : Idle(p)' <=> Idle(p)
      BY <2>1 DEF idleState, NativeActive, NativeWaiting, Idle, Members
    <3> QED
      BY <2>1, <2>2, <3>1, <3>2 DEF LiveLease, Members, idleState
  <2>3. CASE g # h
    BY <2>1, <2>3, LivePreserved
  <2> QED
    BY <2>2, <2>3
<1>5. ASSUME NEW h \in Groups, NEW g \in Groups, CheckComfy(h) PROVE LiveLease(g)'
  <2> DEFINE l == Ticked(lease[h], NativesOnCpu(h))
  <2>1. l \in Lease /\ (~l.revoked => lease[h] # None /\ ~lease[h].revoked)
    BY <1>0, <1>5, TickedType DEF CheckComfy
  <2>2. lease' = [lease EXCEPT ![h] = IF l.revoked THEN l ELSE [l EXCEPT !.expired = FALSE]]
        /\ UNCHANGED idleState
    BY <1>5 DEF CheckComfy, idleState, procVars, nativeVars, offloadVars
  <2> HIDE DEF l
  <2>3. lease'[g] # None /\ ~lease'[g].revoked => lease[g] # None /\ ~lease[g].revoked
    BY <1>0, <2>1, <2>2 DEF Lease
  <2> QED
    BY <2>2, <2>3, LivePreserved
<1>6. ASSUME NEW h \in Groups, NEW g \in Groups, LeaseExpires(h) PROVE LiveLease(g)'
  <2>1. lease[h] \in Lease /\ lease' = [lease EXCEPT ![h] = [@ EXCEPT !.expired = TRUE]]
        /\ UNCHANGED idleState
    BY <1>0, <1>6 DEF LeaseExpires, idleState, procVars, nativeVars, offloadVars
  <2>2. lease'[g] # None /\ ~lease'[g].revoked => lease[g] # None /\ ~lease[g].revoked
    BY <1>0, <2>1, NoneAssumption DEF Lease
  <2> QED
    BY <2>1, <2>2, LivePreserved
<1>7. ASSUME NEW h \in Groups, NEW g \in Groups, ReleaseUnclean(h) PROVE LiveLease(g)'
  <2> DEFINE r == Revoked(lease[h], "unclean")
  <2>1. r \in Lease /\ r.revoked
    BY <1>0, <1>7, RevokedType, NoneAssumption DEF ReleaseUnclean, Reasons
  <2>2. lease' = [lease EXCEPT ![h] = [r EXCEPT !.reason = "unclean", !.cleanupFailed = TRUE]]
        /\ UNCHANGED idleState
    BY <1>7 DEF ReleaseUnclean, idleState, procVars, nativeVars, offloadVars
  <2> HIDE DEF r
  <2>3. lease'[g] # None /\ ~lease'[g].revoked => lease[g] # None /\ ~lease[g].revoked
    BY <1>0, <2>1, <2>2 DEF Lease
  <2> QED
    BY <2>2, <2>3, LivePreserved
<1>8. ASSUME NEW h \in Groups, NEW g \in Groups, ReleaseClean(h) PROVE LiveLease(g)'
  BY <1>0, <1>8, LivePreserved DEF ReleaseClean, idleState, procVars, nativeVars, offloadVars
<1>9. ASSUME NEW h \in Groups, NEW g \in Groups, NEW t \in Tokens, ReleaseUnknown(h, t) PROVE LiveLease(g)'
  BY <1>9, LivePreserved DEF ReleaseUnknown, idleState, procVars, nativeVars, offloadVars
<1>10. ASSUME NEW h \in Groups, NEW g \in Groups, Snapshot(h) PROVE LiveLease(g)'
  BY <1>1, <1>10 DEF Snapshot, idleState, procVars, nativeVars, offloadVars
<1> QED
  BY <1>2, <1>3, <1>4, <1>5, <1>6, <1>7, <1>8, <1>9, <1>10
     DEF Comfy, AcquireComfyFails, AcquireComfyCrashes, ReleaseCleanFails, ReleaseCleanCrashes,
         CommitFailed, ProcessGone

\* A Comfy holder that was not told to leave works beside natives that, by
\* their last reports, are ready, idle and on the CPU, with nobody waiting, for
\* any number of groups and natives and through failed commits and restarts.
THEOREM LiveBesideIdle == Spec => []LiveLeaseBesideIdleNatives
<1> DEFINE Live == \A g \in Groups : LiveLease(g)
<1>1. Init => Live
  BY DEF Init, LiveLease
<1>2. IInv /\ Live /\ [Next]_vars => Live'
  <2> SUFFICES ASSUME IInv, Live, [Next]_vars, NEW g \in Groups PROVE LiveLease(g)'
    OBVIOUS
  <2>0. TypeOK /\ ProcessInv
    BY DEF IInv
  <2>1. CASE Start
    BY <2>0, <2>1 DEF Start, ProcessInv, LiveLease
  <2>2. CASE Crash
    BY <2>2 DEF Crash, ProcessGone, LiveLease
  <2>3. CASE Close
    <3>1. lease'[g] = None \/ lease'[g].revoked
      BY <2>0, <2>3, RevokedType DEF Close, TypeOK, Reasons
    <3> QED
      BY <3>1 DEF LiveLease
  <2>4. CASE DamageJournal \/ MaintenanceReset
    BY <2>4, LivePreserved DEF DamageJournal, MaintenanceReset, idleState, procVars, nativeVars, offloadVars
  <2>5. CASE Native
    BY <2>5, LiveNative
  <2>6. ASSUME NEW n \in nativeTokens, ReleaseNative(n) PROVE LiveLease(g)'
    <3>1. UNCHANGED <<recovery, waiters, obs, offloading, offloadFailed, lease>>
      BY <2>6 DEF ReleaseNative, procVars, offloadVars
    <3>2. /\ NativeActive(g)' => NativeActive(g)
          /\ NativeWaiting(g)' <=> NativeWaiting(g)
          /\ \A p \in Members(g) : Idle(p)' <=> Idle(p)
      BY <2>6, <3>1 DEF ReleaseNative, NativeActive, NativeWaiting, Idle, Members
    <3> QED
      BY <3>1, <3>2 DEF LiveLease, Members
  <2>7. CASE Comfy
    BY <2>7, LiveComfy
  <2>8. CASE UNCHANGED vars
    BY <2>8, LivePreserved DEF vars, idleState, procVars, nativeVars, offloadVars
  <2> QED
    BY <2>1, <2>2, <2>3, <2>4, <2>5, <2>6, <2>7, <2>8 DEF Next
<1>3. Live => LiveLeaseBesideIdleNatives
  BY DEF LiveLease, Idle, LiveLeaseBesideIdleNatives
<1> QED
  BY <1>1, <1>2, <1>3, InitFenced, FenceStep, PTL DEF Spec

-----------------------------------------------------------------------------
(***************************************************************************)
(* The coordinator implements the fence: its initial state is the fence's, *)
(* and each of its steps is a step of the fence or leaves it unchanged.    *)
(***************************************************************************)
\* A native token is held once and was issued.
TokensOnce ==
  /\ \A n \in nativeTokens : n.token \in issued
  /\ \A n, m \in nativeTokens : n.token = m.token => n = m

\* Tokens are never handed out twice (secrets.token_urlsafe in acquire_native).
LEMMA TokensOnceStep == TypeOK /\ TokensOnce /\ [Next]_vars => TokensOnce'
<1> SUFFICES ASSUME TypeOK, TokensOnce, [Next]_vars PROVE TokensOnce'
  OBVIOUS
<1> USE DEF TokensOnce
<1>1. CASE nativeTokens' \subseteq nativeTokens /\ issued \subseteq issued'
  BY <1>1
<1>2. CASE \E p \in Participants : HandOutNative(p)
  BY <1>2 DEF HandOutNative, TypeOK
<1>3. CASE Start \/ Crash \/ Close \/ DamageJournal \/ MaintenanceReset
  BY <1>1, <1>3 DEF Start, Crash, ProcessGone, Close, DamageJournal, MaintenanceReset, nativeVars, ghostVars
<1>4. CASE Native
  <2>1. ASSUME NEW p \in Participants, NEW s \in Reports, UpdateNative(p, s) PROVE TokensOnce'
    BY <1>1, <2>1 DEF UpdateNative, ghostVars
  <2>2. ASSUME NEW p \in Participants, AcquireNative(p) \/ RetryNative(p) PROVE TokensOnce'
    BY <1>1, <1>2, <2>2 DEF AcquireNative, RetryNative
  <2>3. ASSUME NEW p \in Participants, NEW r \in Reports \cup {None}, OffloadReturns(p, r) PROVE TokensOnce'
    BY <1>1, <2>3 DEF OffloadReturns, ghostVars
  <2>4. ASSUME NEW p \in Participants, ReportAges(p) PROVE TokensOnce'
    BY <1>1, <2>4 DEF ReportAges, ghostVars
  <2> QED
    BY <1>4, <2>1, <2>2, <2>3, <2>4 DEF Native
<1>5. ASSUME NEW n \in nativeTokens, ReleaseNative(n) PROVE TokensOnce'
  BY <1>1, <1>5 DEF ReleaseNative, ghostVars
<1>6. CASE Comfy
  <2> SUFFICES ASSUME NEW g \in Groups,
                      \/ PollComfy(g) \/ AcquireComfy(g) \/ AcquireComfyFails(g) \/ AcquireComfyCrashes(g)
                      \/ CheckComfy(g) \/ Snapshot(g) \/ ReleaseClean(g) \/ ReleaseCleanFails(g)
                      \/ ReleaseCleanCrashes(g) \/ ReleaseUnclean(g) \/ LeaseExpires(g)
                      \/ \E t \in Tokens : ReleaseUnknown(g, t)
               PROVE  TokensOnce'
    BY <1>6 DEF Comfy
  <2>1. issued \subseteq issued'
    BY DEF PollComfy, AcquireComfy, AcquireComfyFails, AcquireComfyCrashes, CheckComfy, Snapshot,
           ReleaseClean, ReleaseCleanFails, ReleaseCleanCrashes, ReleaseUnclean, LeaseExpires,
           ReleaseUnknown, ghostVars
  <2>2. nativeTokens' \subseteq nativeTokens
    BY DEF PollComfy, AcquireComfy, AcquireComfyFails, AcquireComfyCrashes, CheckComfy, Snapshot,
           ReleaseClean, ReleaseCleanFails, ReleaseCleanCrashes, ReleaseUnclean, LeaseExpires,
           ReleaseUnknown, ProcessGone, nativeVars
  <2> QED
    BY <1>1, <2>1, <2>2
<1>7. CASE UNCHANGED vars
  BY <1>7 DEF vars, nativeVars, ghostVars
<1> QED
  BY <1>3, <1>4, <1>5, <1>6, <1>7 DEF Next

natives == [g \in Groups |-> NativesOf(g)]

\* A step that moves neither native tokens, claims nor issued tokens stutters.
LEMMA FenceStutter ==
  ASSUME UNCHANGED <<nativeTokens, claims, issued>>
  PROVE  UNCHANGED Fence!fenceVars
  BY DEF Fence!fenceVars, NativesOf

\* Losing the process forgets the native tokens of every group.
LEMMA NativesForgotten ==
  ASSUME ProcessGone
  PROVE  natives' = [g \in Groups |-> {}]
  BY DEF ProcessGone, natives, NativesOf

\* The coordinator starts where the fence starts.
LEMMA FenceInitially == Init => Fence!FenceInit
  BY DEF Init, Fence!FenceInit, NativesOf

\* Every step of the coordinator is a step of the fence or a stutter.
LEMMA FenceSteps == IInv /\ TokensOnce /\ [Next]_vars => [Fence!FenceNext]_(Fence!fenceVars)
<1> SUFFICES ASSUME IInv, TokensOnce, [Next]_vars
             PROVE  Fence!FenceNext \/ UNCHANGED Fence!fenceVars
  OBVIOUS
<1>0. TypeOK /\ \A g \in Groups : GroupFenced(g)
  BY DEF IInv
<1>1. CASE Crash \/ \E g \in Groups : AcquireComfyCrashes(g)
  <2>1. ProcessGone /\ UNCHANGED <<claims, issued>>
    BY <1>1 DEF Crash, AcquireComfyCrashes, ghostVars
  <2>2. Fence!Forget
    BY <2>1, NativesForgotten DEF Fence!Forget, natives
  <2> QED
    BY <2>2 DEF Fence!FenceNext
<1>2. CASE Start \/ Close \/ DamageJournal \/ MaintenanceReset
  BY <1>2, FenceStutter DEF Start, Close, DamageJournal, MaintenanceReset, nativeVars, ghostVars
<1>3. ASSUME NEW p \in Participants, NEW s \in Reports, UpdateNative(p, s)
      PROVE  UNCHANGED Fence!fenceVars
  BY <1>3, FenceStutter DEF UpdateNative, ghostVars
<1>4. ASSUME NEW p \in Participants, AcquireNative(p) \/ RetryNative(p)
      PROVE  Fence!FenceNext \/ UNCHANGED Fence!fenceVars
  <2>1. CASE UNCHANGED <<nativeTokens, issued>>
    BY <1>4, <2>1, FenceStutter DEF AcquireNative, RetryNative
  <2>2. CASE HandOutNative(p) /\ lease[GroupOf[p]] = None /\ GroupOf[p] \notin recovery /\ phase # "down"
    <3> DEFINE g == GroupOf[p]
    <3>1. g \in Groups /\ claims[g] = {}
      BY <1>0, <2>2, GroupAssumption DEF GroupFenced
    <3>2. PICK t \in Tokens \ issued :
             /\ nativeTokens' = nativeTokens \cup {[token |-> t, participant |-> p]}
             /\ issued' = issued \cup {t}
      BY <2>2 DEF HandOutNative
    <3>3. ASSUME NEW h \in Groups
          PROVE  NativesOf(h)' = IF h = g THEN NativesOf(h) \cup {t} ELSE NativesOf(h)
      <4> DEFINE held == [token |-> t, participant |-> p]
      <4>1. held.token = t /\ held.participant = p
        OBVIOUS
      <4>2. nativeTokens' = nativeTokens \cup {held}
        BY <3>2
      <4> HIDE DEF held
      <4>3. ASSUME NEW u \in Tokens
            PROVE  u \in NativesOf(h)' <=> u \in NativesOf(h) \/ (h = g /\ u = t)
        BY <4>1, <4>2 DEF NativesOf
      <4>4. NativesOf(h)' \subseteq Tokens /\ NativesOf(h) \subseteq Tokens /\ t \in Tokens
        BY DEF NativesOf
      <4> QED
        BY <4>3, <4>4
    <3>4. natives' = [natives EXCEPT ![g] = @ \cup {t}]
      BY <3>1, <3>3 DEF natives
    <3>5. UNCHANGED claims
      BY <1>4 DEF AcquireNative, RetryNative
    <3>6. Fence!Spend(t)
      BY <3>2 DEF Fence!Spend
    <3>7. Fence!AdmitNative(GroupOf[p], t)
      <4>1. [h \in Groups |-> NativesOf(h)]'
              = [[h \in Groups |-> NativesOf(h)] EXCEPT ![GroupOf[p]] = @ \cup {t}]
        BY <3>4 DEF natives
      <4> QED
        BY <3>1, <4>1, <3>5, <3>6 DEF Fence!AdmitNative
    <3> QED
      BY <3>1, <3>2, <3>7 DEF Fence!FenceNext
  <2> QED
    BY <1>4, <2>1, <2>2 DEF AcquireNative, RetryNative, GrantableToNative
<1>5. ASSUME NEW p \in Participants, \/ ReportAges(p)
                                     \/ \E r \in Reports \cup {None} : OffloadReturns(p, r)
      PROVE  UNCHANGED Fence!fenceVars
  BY <1>5, FenceStutter DEF ReportAges, OffloadReturns, ghostVars
<1>6. ASSUME NEW n \in nativeTokens, ReleaseNative(n) PROVE Fence!FenceNext
  <2>1. n.token \in Tokens
    BY <1>0 DEF TypeOK
  <2>2. ASSUME NEW h \in Groups PROVE NativesOf(h)' = NativesOf(h) \ {n.token}
    BY <1>6 DEF NativesOf, ReleaseNative, TokensOnce
  <2>3. Fence!LeaveNative(n.token)
    BY <1>6, <2>2 DEF Fence!LeaveNative, ReleaseNative, ghostVars
  <2> QED
    BY <2>1, <2>3 DEF Fence!FenceNext
<1>7. ASSUME NEW g \in Groups,
             \/ PollComfy(g) \/ AcquireComfyFails(g) \/ CheckComfy(g) \/ Snapshot(g)
             \/ ReleaseUnclean(g) \/ LeaseExpires(g)
      PROVE  UNCHANGED Fence!fenceVars
  BY <1>7, FenceStutter DEF PollComfy, AcquireComfyFails, CheckComfy, Snapshot, ReleaseUnclean,
                            LeaseExpires, nativeVars, ghostVars
<1>8. ASSUME NEW g \in Groups, AcquireComfy(g) PROVE Fence!FenceNext
  <2>1. claims[g] = {} /\ NativesOf(g) = {}
    BY <1>0, <1>8 DEF AcquireComfy, GrantableToComfy, NativesOnCpu, GroupFenced, NativeActive, NativesOf
  <2>2. PICK t \in Tokens \ issued : issued' = issued \cup {t} /\ claims' = [claims EXCEPT ![g] = {t}]
    BY <1>8, <2>1 DEF AcquireComfy
  <2>3. Fence!AdmitComfy(g, t)
    BY <1>8, <2>1, <2>2, ZenonT(40) DEF Fence!AdmitComfy, Fence!Spend, AcquireComfy, nativeVars, NativesOf
  <2> QED
    BY <2>2, <2>3 DEF Fence!FenceNext
<1>9. ASSUME NEW g \in Groups, ReleaseClean(g) \/ ReleaseCleanFails(g) PROVE Fence!FenceNext
  <2>1. lease[g].token \in Tokens
    BY <1>0, <1>9 DEF TypeOK, Lease, ReleaseClean, ReleaseCleanFails
  <2>2. Fence!LeaveComfy(g, lease[g].token)
    BY <1>9 DEF ReleaseClean, ReleaseCleanFails, DeclareClean, Fence!LeaveComfy, nativeVars, NativesOf
  <2> QED
    BY <2>1, <2>2 DEF Fence!FenceNext
<1>10. ASSUME NEW g \in Groups, ReleaseCleanCrashes(g) PROVE Fence!FenceNext
  <2>1. lease[g].token \in Tokens
    BY <1>0, <1>10 DEF TypeOK, Lease, ReleaseCleanCrashes
  <2>2. Fence!ForgetAfter(g, lease[g].token)
    BY <1>10, NativesForgotten DEF ReleaseCleanCrashes, DeclareClean, Fence!ForgetAfter, natives
  <2> QED
    BY <2>1, <2>2 DEF Fence!FenceNext
<1>11. ASSUME NEW g \in Groups, NEW t \in Tokens, ReleaseUnknown(g, t) PROVE Fence!FenceNext
  <2>1. Fence!LeaveComfy(g, t)
    BY <1>11 DEF ReleaseUnknown, Fence!LeaveComfy, nativeVars, NativesOf
  <2> QED
    BY <2>1 DEF Fence!FenceNext
<1>12. CASE UNCHANGED vars
  BY <1>12, FenceStutter DEF vars, nativeVars, ghostVars
<1> QED
  BY <1>1, <1>2, <1>3, <1>4, <1>5, <1>6, <1>7, <1>8, <1>9, <1>10, <1>11, <1>12 DEF Next, Native, Comfy

\* The coordinator implements the fence of GpuFence.
THEOREM Implements == Spec => ImplementsFence
<1>1. Init => TokensOnce
  BY DEF Init, TokensOnce
<1>2. IInv => TypeOK
  BY DEF IInv
<1> QED
  BY <1>1, <1>2, InitFenced, FenceStep, TokensOnceStep, FenceInitially, FenceSteps, PTL
     DEF Spec, ImplementsFence, Fence!FenceSpec
=============================================================================
