--------------------------- MODULE ServicesProofs ---------------------------
(***************************************************************************)
(* Proofs about the file of services (ServiceStore), the voices that       *)
(* workers hold (ServiceResidency), the files that pass to and from a      *)
(* worker (ArtifactStore) and the engines a native process moves           *)
(* (NativeAdapter), for any services, packages, jobs, threads and calls,   *)
(* any bounds, and any times that leave an upload the time it takes.       *)
(***************************************************************************)
EXTENDS ServiceStore, ServiceResidency, ArtifactStore, NativeAdapter, FiniteSetTheorems, WellFoundedInduction, TLAPS

-----------------------------------------------------------------------------
(***************************************************************************)
(* The file of services and the registry in use.                           *)
(***************************************************************************)

InCall == {"reading", "reloading", "locking", "merging", "writing", "written"}
Locked == {"merging", "writing", "written"}

WhoRec == [pc : InCall \cup {"idle", "viewing", "asked"},
           kind : {"none", "save", "configure", "reload", "upsert", "replace"},
           list : Lists, base : Lists \cup {Unknown}, missing : BOOLEAN,
           at : 0..writes, out : Lists]

StoreTyped ==
  /\ file \in Lists \cup {NoFile, OtherFile} /\ intent \in Lists
  /\ lock \in Actors \cup {Nobody} /\ guards \in Callers \cup {Nobody}
  /\ writes \in Nat /\ asks \in 0..MaxAsks
  /\ registry \in [list : Lists, missing : BOOLEAN, at : 0..writes]
  /\ who \in [Actors -> WhoRec]

\* What a caller works with is the registry in use, which nobody else publishes
\* while it holds the guards, and it has the locators of that registry.
BaseKept(f) ==
  /\ f.pc \in Locked \cup {"locking"} => f.base = registry.list
  /\ f.pc = "reloading" => Managed(f.list) = Managed(registry.list) /\ registry.at <= f.at
  /\ f.pc = "writing" => Managed(f.out) = Managed(Current)
  /\ f.pc \in {"writing", "written"} => Managed(f.out) = Managed(registry.list)
  /\ f.pc = "written" => registry.at <= f.at

\* Who holds the lock l of the file, and who holds the guards g of all
\* components.
HoldsKept(a, f, l, g) ==
  /\ l = a <=> f.pc \in Locked
  /\ a \in Callers /\ f.pc \in InCall => g = a
  /\ a = Registrar => f.pc \in Locked \cup {"idle", "locking"}

\* What is about to be written is this edit on top of the file: nobody else
\* writes while the lock is held.
EditKept(f) == f.pc = "writing" => f.out = Merged(f, Current)

HoldersKept == \A a \in Actors : HoldsKept(a, who[a], lock, guards)
MergesKept == Current = intent /\ \A a \in Actors : EditKept(who[a])
BasesKept == \A t \in Callers : BaseKept(who[t])

StoreInv == StoreTyped /\ HoldersKept /\ MergesKept /\ BasesKept

\* A list of services with one record put or taken out is a list of services.
LEMMA ListFacts ==
  /\ Nothing \in Lists /\ DefaultLocal \in Lists /\ Template \in Lists
  /\ \A s \in Lists, i \in Ids, n \in 0..MaxAsks, l \in Packages \cup {NoPackage} :
       [s EXCEPT ![i] = Record(n, l)] \in Lists /\ [s EXCEPT ![i] = Absent] \in Lists
<1>1. \A n \in 0..MaxAsks, l \in Packages \cup {NoPackage} : Record(n, l) \in Records
  BY DEF Record, Records
<1>2. 0 \in 0..MaxAsks
  BY NamesAssumption
<1> HIDE DEF Record, Records
<1> QED BY <1>1, <1>2 DEF Nothing, DefaultLocal, Template, Lists

\* A merge of lists is a list.
LEMMA MergedTyped ==
  ASSUME NEW w, w.list \in Lists, NEW s \in Lists
  PROVE  Merged(w, s) \in Lists
<1>1. Register(w, s) \in Lists
  BY DEF Register, Lists
<1>2. MergeDelta(w, s) \in Lists
  BY DEF MergeDelta, Lists
<1> QED BY <1>1, <1>2 DEF Merged

\* What is merged depends on the edit, not on how far its caller has got.
LEMMA MergedSame ==
  ASSUME NEW v, NEW w, NEW s, v.kind = w.kind, v.list = w.list, v.base = w.base, v.missing = w.missing
  PROVE  Merged(v, s) = Merged(w, s)
BY DEF Merged, Registers, Register, Replaced, MergeDelta, Touched

\* A step that gives one actor the record f and changes neither the file nor
\* the registry.
LEMMA OneActor ==
  ASSUME StoreInv, NEW a \in Actors, NEW f \in WhoRec, Set(a, f),
         UNCHANGED <<file, registry, writes, intent>>, asks' \in 0..MaxAsks,
         lock' \in Actors \cup {Nobody}, guards' \in Callers \cup {Nobody},
         \A b \in Actors \ {a} : (lock' = b <=> lock = b) /\ (guards = b => guards' = b),
         HoldsKept(a, f, lock', guards'), EditKept(f), a \in Callers => BaseKept(f)
  PROVE  StoreInv'
<1>0. StoreTyped /\ HoldersKept /\ MergesKept /\ BasesKept
  BY DEF StoreInv
<1>1. WhoRec' = WhoRec
  BY DEF WhoRec
<1>2. who \in [Actors -> WhoRec] /\ who' \in [Actors -> WhoRec]
  BY <1>0 DEF StoreTyped, Set
<1>3. who'[a] = f /\ \A b \in Actors \ {a} : who'[b] = who[b]
  BY <1>2 DEF Set
<1>4. Current' = Current
  BY DEF Current
<1> HIDE DEF WhoRec
<1>5. StoreTyped'
  BY <1>0, <1>1, <1>2 DEF StoreTyped
<1>6. HoldersKept'
  <2> SUFFICES ASSUME NEW b \in Actors PROVE HoldsKept(b, who'[b], lock', guards')
    BY DEF HoldersKept
  <2>1. CASE b = a
    BY <2>1, <1>3
  <2>2. CASE b # a
    BY <2>2, <1>3, <1>0, CallerAssumption DEF HoldersKept, HoldsKept, Actors
  <2> QED BY <2>1, <2>2
<1>7. MergesKept'
  <2> SUFFICES ASSUME NEW b \in Actors PROVE EditKept(who[b])'
    BY <1>0, <1>4 DEF MergesKept
  <2>1. EditKept(who'[b])
    BY <1>0, <1>3 DEF MergesKept
  <2> QED BY <2>1, <1>4 DEF EditKept
<1>8. BasesKept'
  <2> SUFFICES ASSUME NEW b \in Callers PROVE BaseKept(who[b])'
    BY DEF BasesKept
  <2>1. BaseKept(who'[b])
    BY <1>0, <1>3 DEF BasesKept, Actors
  <2> QED BY <2>1, <1>4 DEF BaseKept
<1> QED BY <1>5, <1>6, <1>7, <1>8 DEF StoreInv

\* The record of a caller that does nothing is well formed.
LEMMA IdleFacts ==
  ASSUME StoreTyped
  PROVE  Idle \in WhoRec
BY ListFacts DEF StoreTyped, Idle, WhoRec, InCall

\* A client that looks at the settings (get_service_settings) keeps the
\* invariant.
LEMMA ViewStep ==
  ASSUME StoreInv, NEW t \in Callers, View(t) PROVE StoreInv'
<1> DEFINE f == [Idle EXCEPT !.pc = "viewing", !.list = registry.list]
<1>0. StoreTyped /\ HoldersKept
  BY DEF StoreInv
<1>1. f \in WhoRec /\ f.pc = "viewing"
  BY <1>0, IdleFacts DEF StoreTyped, WhoRec, InCall
<1>2. Set(t, f) /\ UNCHANGED <<file, lock, guards, registry, writes, intent, asks>> /\ who[t].pc = "idle"
  BY DEF View
<1> HIDE DEF f
<1>3. HoldsKept(t, f, lock', guards') /\ EditKept(f) /\ BaseKept(f)
  BY <1>0, <1>1, <1>2, CallerAssumption DEF HoldersKept, HoldsKept, EditKept, BaseKept, Locked, InCall, Actors
<1> QED
  BY <1>0, <1>1, <1>2, <1>3, OneActor DEF StoreTyped, Actors

\* A stamp that was not used before.
LEMMA StampFacts ==
  ASSUME StoreTyped, asks < MaxAsks
  PROVE  asks + 1 \in 0..MaxAsks /\ NewStamp = asks + 1
BY NamesAssumption DEF StoreTyped, NewStamp

\* What a client makes of a list is a list.
LEMMA ChangedFacts ==
  ASSUME StoreTyped, asks < MaxAsks, NEW s \in Lists, NEW r \in Changed(s, Packages \cup {NoPackage})
  PROVE  r \in Lists
<1> DEFINE Of(i) == {[s EXCEPT ![i] = Record(NewStamp, l)] : l \in Packages \cup {NoPackage}}
                      \cup {[s EXCEPT ![i] = Absent]}
<1>1. \A i \in Ids : \A x \in Of(i) : x \in Lists
  <2> TAKE i \in Ids
  <2> TAKE x \in Of(i)
  <2>1. CASE x = [s EXCEPT ![i] = Absent]
    <3>1. 0 \in 0..MaxAsks
      BY NamesAssumption
    <3> QED BY <2>1, <3>1, ListFacts
  <2>2. CASE x # [s EXCEPT ![i] = Absent]
    <3>1. PICK l \in Packages \cup {NoPackage} : x = [s EXCEPT ![i] = Record(NewStamp, l)]
      BY <2>2
    <3> QED BY <3>1, StampFacts, ListFacts
  <2> QED BY <2>1, <2>2
<1>2. Changed(s, Packages \cup {NoPackage}) = UNION {Of(i) : i \in Ids}
  BY DEF Changed
<1> HIDE DEF Of
<1>3. PICK i \in Ids : r \in Of(i)
  BY <1>2
<1> QED BY <1>1, <1>3

\* A caller whose request has arrived keeps the invariant.
LEMMA ToAsked ==
  ASSUME StoreInv, NEW t \in Callers, NEW f \in WhoRec, Set(t, f), f.pc = "asked",
         who[t].pc \in {"idle", "viewing"}, asks < MaxAsks, asks' = asks + 1,
         UNCHANGED <<file, lock, guards, registry, writes, intent>>
  PROVE  StoreInv'
<1>0. StoreTyped /\ HoldersKept
  BY DEF StoreInv
<1>1. asks' \in 0..MaxAsks
  BY <1>0, StampFacts
<1>2. HoldsKept(t, f, lock', guards') /\ EditKept(f) /\ BaseKept(f)
  BY <1>0, CallerAssumption DEF HoldersKept, HoldsKept, EditKept, BaseKept, Locked, InCall, Actors
<1> QED
  BY <1>0, <1>1, <1>2, OneActor DEF StoreTyped, Actors

\* A save or a configuration that is asked for keeps the invariant.
LEMMA AskStep ==
  ASSUME StoreInv, NEW t \in Callers, NEW k \in {"save", "configure"}, Ask(t, k)
  PROVE  StoreInv'
<1>0. StoreTyped
  BY DEF StoreInv
<1>1. /\ asks < MaxAsks /\ asks' = asks + 1
      /\ UNCHANGED <<file, lock, guards, registry, writes, intent>>
  BY DEF Ask
<1>2. CASE k = "save"
  <2>1. /\ who[t].pc = "viewing"
        /\ \E s \in Changed(who[t].list, Packages \cup {NoPackage}) :
             Set(t, [Idle EXCEPT !.pc = "asked", !.kind = k, !.list = s])
    BY <1>2 DEF Ask
  <2>2. PICK s \in Changed(who[t].list, Packages \cup {NoPackage}) :
          Set(t, [Idle EXCEPT !.pc = "asked", !.kind = k, !.list = s])
    BY <2>1
  <2>3. s \in Lists
    <3>1. who[t].list \in Lists
      BY <1>0 DEF StoreTyped, WhoRec, Actors
    <3> QED BY <1>0, <1>1, <2>2, <3>1, ChangedFacts
  <2> DEFINE f == [Idle EXCEPT !.pc = "asked", !.kind = k, !.list = s]
  <2>4. f \in WhoRec /\ f.pc = "asked"
    BY <1>0, <2>3, IdleFacts DEF WhoRec
  <2> HIDE DEF f
  <2> QED BY <1>1, <2>1, <2>2, <2>4, ToAsked DEF f
<1>3. CASE k = "configure"
  <2>1. PICK i \in Ids : who[t].pc = "idle"
          /\ Set(t, [Idle EXCEPT !.pc = "asked", !.kind = k, !.list[i] = Record(NewStamp, NoPackage)])
    BY <1>3 DEF Ask
  <2> DEFINE s == [Nothing EXCEPT ![i] = Record(NewStamp, NoPackage)]
             f == [Idle EXCEPT !.pc = "asked", !.kind = k, !.list[i] = Record(NewStamp, NoPackage)]
  <2>2. s \in Lists
    BY <1>0, <1>1, StampFacts, ListFacts
  <2>3. f = [Idle EXCEPT !.pc = "asked", !.kind = k, !.list = s]
    BY DEF Idle
  <2> HIDE DEF s
  <2>4. f \in WhoRec /\ f.pc = "asked"
    <3> HIDE DEF f
    <3> QED BY <1>0, <2>2, <2>3, IdleFacts DEF WhoRec
  <2> HIDE DEF f
  <2> QED BY <1>1, <2>1, <2>4, ToAsked DEF f
<1> QED BY <1>2, <1>3

\* A reload that is asked for keeps the invariant.
LEMMA AskReloadStep ==
  ASSUME StoreInv, NEW t \in Callers, AskReload(t)
  PROVE  StoreInv'
<1> DEFINE f == [Idle EXCEPT !.pc = "asked", !.kind = "reload"]
<1>0. StoreTyped
  BY DEF StoreInv
<1>1. f \in WhoRec /\ f.pc = "asked"
  BY <1>0, IdleFacts DEF WhoRec
<1>2. Set(t, f) /\ who[t].pc = "idle" /\ asks < MaxAsks /\ asks' = asks + 1
      /\ UNCHANGED <<file, lock, guards, registry, writes, intent>>
  BY DEF AskReload
<1> HIDE DEF f
<1> QED BY <1>1, <1>2, ToAsked

\* A caller that gets the guards takes the registry in use as its baseline.
LEMMA BeginStep ==
  ASSUME StoreInv, NEW t \in Callers, Begin(t)
  PROVE  StoreInv'
<1> DEFINE l == IF who[t].kind = "configure" THEN Configured(who[t].list) ELSE who[t].list
           f == IF who[t].kind = "reload" THEN [who[t] EXCEPT !.pc = "reading"]
                ELSE [who[t] EXCEPT !.pc = "locking", !.base = registry.list, !.missing = registry.missing,
                                    !.list = l]
<1>0. StoreTyped /\ HoldersKept
  BY DEF StoreInv
<1>1. Set(t, f) /\ who[t].pc = "asked" /\ guards = Nobody /\ guards' = t
      /\ UNCHANGED <<file, lock, registry, writes, intent, asks>>
  BY DEF Begin, GuardsFree
<1>2. l \in Lists
  <2>1. who[t].list \in Lists /\ registry.list \in Lists
    BY <1>0 DEF StoreTyped, WhoRec, Actors
  <2> QED BY <2>1 DEF Lists, Configured
<1>3. who[t] \in WhoRec /\ registry.list \in Lists /\ registry.missing \in BOOLEAN
  BY <1>0 DEF StoreTyped, Actors
<1> HIDE DEF l
<1>4. f \in WhoRec /\ f.pc \in {"reading", "locking"} /\ (f.pc = "locking" => f.base = registry.list)
  BY <1>2, <1>3 DEF WhoRec, InCall
<1> HIDE DEF f
<1>5. HoldsKept(t, f, lock', guards') /\ EditKept(f) /\ BaseKept(f)
  BY <1>0, <1>1, <1>4, CallerAssumption DEF HoldersKept, HoldsKept, EditKept, BaseKept, Locked, InCall, Actors
<1>6. \A b \in Actors \ {t} : guards = b => guards' = b
  BY <1>1, NamesAssumption
<1> QED
  BY <1>0, <1>1, <1>4, <1>5, <1>6, OneActor DEF StoreTyped, Actors

\* What leaving does to the guards.
LEMMA LeaveFacts ==
  ASSUME StoreTyped, NEW a \in Actors, Leave(a)
  PROVE  guards' \in Callers \cup {Nobody} /\ \A b \in Actors \ {a} : guards = b => guards' = b
BY DEF Leave, StoreTyped

\* A caller that leaves, with whatever it held, keeps the invariant.
LEMMA ToIdle ==
  ASSUME StoreInv, NEW a \in Actors, Set(a, Idle),
         lock' = IF lock = a THEN Nobody ELSE lock,
         guards' \in Callers \cup {Nobody}, \A b \in Actors \ {a} : guards = b => guards' = b,
         UNCHANGED <<file, registry, writes, intent, asks>>
  PROVE  StoreInv'
<1>0. StoreTyped /\ HoldersKept
  BY DEF StoreInv
<1>1. Idle \in WhoRec /\ Idle.pc = "idle"
  BY <1>0, IdleFacts DEF Idle
<1>2. lock' \in Actors \cup {Nobody} /\ lock' # a /\ \A b \in Actors \ {a} : lock' = b <=> lock = b
  BY <1>0, NamesAssumption DEF StoreTyped
<1>3. HoldsKept(a, Idle, lock', guards') /\ EditKept(Idle) /\ BaseKept(Idle)
  BY <1>1, <1>2 DEF HoldsKept, EditKept, BaseKept, Locked, InCall
<1> QED
  BY <1>0, <1>1, <1>2, <1>3, OneActor DEF StoreTyped

\* A reload goes on only with the locators of the registry in use, and what
\* it read is no older.
LEMMA ReadReloadStep ==
  ASSUME StoreInv, NEW t \in Callers, ReadReload(t)
  PROVE  StoreInv'
<1>0. StoreTyped /\ HoldersKept /\ t \in Actors
  BY DEF StoreInv, Actors
<1>1. who[t].pc = "reading" /\ lock # t /\ guards = t
      /\ UNCHANGED <<file, lock, registry, writes, intent, asks>>
  BY <1>0 DEF ReadReload, HoldersKept, HoldsKept, Locked, InCall
<1>2. CASE Managed(Loaded.list) = Managed(registry.list)
  <2> DEFINE f == [who[t] EXCEPT !.pc = "reloading", !.list = Loaded.list, !.missing = Loaded.missing,
                                 !.at = writes]
  <2>1. Set(t, f) /\ UNCHANGED guards
    BY <1>2 DEF ReadReload
  <2>2. Loaded.list \in Lists /\ Loaded.missing \in BOOLEAN /\ writes \in 0..writes
        /\ registry.at <= writes /\ who[t] \in WhoRec
    BY <1>0, ListFacts DEF Loaded, StoreTyped
  <2>3. f \in WhoRec /\ f.pc = "reloading" /\ f.list = Loaded.list /\ f.at = writes
    <3> HIDE DEF Loaded
    <3> QED BY <2>2 DEF WhoRec, InCall
  <2> HIDE DEF f, Loaded
  <2>4. HoldsKept(t, f, lock', guards') /\ EditKept(f) /\ BaseKept(f)
    BY <1>0, <1>1, <1>2, <2>1, <2>2, <2>3, CallerAssumption DEF HoldsKept, EditKept, BaseKept, Locked, InCall
  <2> QED
    BY <1>0, <1>1, <2>1, <2>3, <2>4, OneActor DEF StoreTyped
<1>3. CASE Managed(Loaded.list) # Managed(registry.list)
  <2>1. Set(t, Idle) /\ Leave(t)
    BY <1>3 DEF ReadReload
  <2> QED BY <1>0, <1>1, <2>1, ToIdle, LeaveFacts
<1> QED BY <1>2, <1>3

\* Who takes the free lock of the file is its only holder.
LEMMA TakeLockStep ==
  ASSUME StoreInv, NEW a \in Actors, TakeLock(a)
  PROVE  StoreInv'
<1> DEFINE f == [who[a] EXCEPT !.pc = "merging"]
<1>0. StoreTyped /\ HoldersKept /\ BasesKept
  BY DEF StoreInv
<1>1. Set(a, f) /\ who[a].pc = "locking" /\ lock = Nobody /\ lock' = a
      /\ UNCHANGED <<file, guards, registry, writes, intent, asks>>
  BY DEF TakeLock, LockFree
<1>2. f \in WhoRec /\ f.pc = "merging" /\ f.base = who[a].base
  BY <1>0 DEF StoreTyped, WhoRec, InCall
<1> HIDE DEF f
<1>3. HoldsKept(a, f, lock', guards') /\ EditKept(f) /\ (a \in Callers => BaseKept(f))
  BY <1>0, <1>1, <1>2, CallerAssumption
  DEF HoldersKept, HoldsKept, BasesKept, EditKept, BaseKept, Locked, InCall
<1>4. \A b \in Actors \ {a} : lock' = b <=> lock = b
  BY <1>1, NamesAssumption
<1> QED
  BY <1>0, <1>1, <1>2, <1>3, <1>4, OneActor DEF StoreTyped

\* Who gives up waiting for the lock of the file holds nothing.
LEMMA TimeOutStep ==
  ASSUME StoreInv, NEW a \in Actors, TimeOut(a)
  PROVE  StoreInv'
<1>0. StoreTyped /\ HoldersKept
  BY DEF StoreInv
<1>1. lock # a
  BY <1>0 DEF HoldersKept, HoldsKept, TimeOut, Locked
<1> QED BY <1>0, <1>1, ToIdle, LeaveFacts DEF TimeOut

\* What a merge lets through is the edit on top of the file, with the
\* locators of the file and of the registry in use.
LEMMA MergeStep ==
  ASSUME StoreInv, NEW a \in Actors, Merge(a)
  PROVE  StoreInv'
<1> DEFINE merged == Merged(who[a], Current)
<1>0. StoreTyped /\ HoldersKept /\ MergesKept /\ BasesKept
  BY DEF StoreInv
<1>1. who[a].pc = "merging" /\ lock = a /\ UNCHANGED <<file, registry, writes, intent, asks>>
  BY <1>0 DEF Merge, HoldersKept, HoldsKept, Locked
<1>2. CASE Accepted(a, merged)
  <2> DEFINE f == [who[a] EXCEPT !.pc = "writing", !.out = merged]
  <2>1. Set(a, f) /\ UNCHANGED <<lock, guards>>
    BY <1>2 DEF Merge
  <2>2. merged \in Lists
    <3>1. Current \in Lists /\ who[a].list \in Lists
      BY <1>0, ListFacts DEF StoreTyped, Current, WhoRec
    <3> QED BY <3>1, MergedTyped
  <2>3. who[a] \in WhoRec
    BY <1>0 DEF StoreTyped
  <2>4. a \in Callers => Managed(merged) = Managed(Current) /\ Managed(merged) = Managed(registry.list)
    <3> HIDE DEF merged
    <3>1. a \in Callers => who[a].base = registry.list /\ registry.list # Unknown
      BY <1>0, <1>1, NamesAssumption DEF BasesKept, BaseKept, Locked, StoreTyped
    <3> QED BY <1>2, <3>1 DEF Accepted, LocatorsKept
  <2>5. /\ f \in WhoRec /\ f.pc = "writing" /\ f.out = merged
        /\ f.kind = who[a].kind /\ f.list = who[a].list /\ f.base = who[a].base /\ f.missing = who[a].missing
    <3> HIDE DEF merged
    <3> QED BY <2>2, <2>3 DEF WhoRec, InCall
  <2> HIDE DEF f
  <2>6. f.out = Merged(f, Current)
    BY <2>5, MergedSame
  <2> HIDE DEF merged
  <2>7. HoldsKept(a, f, lock', guards') /\ EditKept(f) /\ (a \in Callers => BaseKept(f))
    BY <1>0, <1>1, <2>1, <2>4, <2>5, <2>6
    DEF HoldersKept, HoldsKept, BasesKept, EditKept, BaseKept, Locked, InCall
  <2> QED
    BY <1>0, <1>1, <2>1, <2>5, <2>7, OneActor DEF StoreTyped
<1>3. CASE ~Accepted(a, merged)
  <2>1. Set(a, Idle) /\ Leave(a) /\ lock' = Nobody
    BY <1>3 DEF Merge
  <2> QED BY <1>0, <1>1, <2>1, ToIdle, LeaveFacts
<1> QED BY <1>2, <1>3

\* The file written is the edits so far and this one: nobody wrote since the
\* merge.
LEMMA WriteStep ==
  ASSUME StoreInv, NEW a \in Actors, Write(a)
  PROVE  StoreInv'
<1> DEFINE f == [who[a] EXCEPT !.pc = "written", !.at = writes + 1]
<1>0. StoreTyped /\ HoldersKept /\ MergesKept /\ BasesKept
  BY DEF StoreInv
<1>1. /\ who[a].pc = "writing" /\ lock = a /\ file' = who[a].out /\ writes' = writes + 1
      /\ intent' = Edited(who[a], intent) /\ Set(a, f) /\ UNCHANGED <<lock, guards, registry, asks>>
  BY <1>0 DEF Write, HoldersKept, HoldsKept, Locked
<1>2. who[a].out \in Lists /\ who[a].out = Merged(who[a], Current)
  BY <1>0, <1>1 DEF StoreTyped, WhoRec, MergesKept, EditKept
<1>3. Current' = who[a].out
  BY <1>1, <1>2, NamesAssumption DEF Current
<1>4. intent' = who[a].out
  BY <1>0, <1>1, <1>2 DEF MergesKept, Edited, Merged, MergeDelta
<1>5. /\ f \in WhoRec' /\ f.pc = "written" /\ f.out = who[a].out /\ f.at = writes + 1
      /\ f.base = who[a].base
  <2>1. who[a] \in WhoRec /\ writes + 1 \in 0..writes'
    BY <1>0, <1>1 DEF StoreTyped
  <2> QED BY <2>1 DEF WhoRec, InCall
<1>6. \A r \in WhoRec : r \in WhoRec'
  BY <1>0, <1>1 DEF StoreTyped, WhoRec
<1>7. who' \in [Actors -> WhoRec'] /\ who'[a] = f /\ \A b \in Actors \ {a} : who'[b] = who[b]
  <2> HIDE DEF f, WhoRec
  <2> QED BY <1>0, <1>1, <1>5, <1>6 DEF StoreTyped, Set
<1> HIDE DEF f
<1>8. StoreTyped'
  <2>1. registry' \in [list : Lists, missing : BOOLEAN, at : 0..writes']
    BY <1>0, <1>1 DEF StoreTyped
  <2> HIDE DEF WhoRec
  <2> QED BY <1>0, <1>1, <1>2, <1>4, <1>7, <2>1 DEF StoreTyped
<1>9. \A b \in Actors \ {a} : who[b].pc \notin Locked
  BY <1>0, <1>1 DEF HoldersKept, HoldsKept
<1>10. HoldersKept'
  <2> SUFFICES ASSUME NEW b \in Actors PROVE HoldsKept(b, who'[b], lock', guards')
    BY DEF HoldersKept
  <2>1. CASE b = a
    BY <2>1, <1>0, <1>1, <1>5, <1>7 DEF HoldersKept, HoldsKept, Locked, InCall
  <2>2. CASE b # a
    BY <2>2, <1>0, <1>1, <1>7 DEF HoldersKept
  <2> QED BY <2>1, <2>2
<1>11. MergesKept'
  <2> SUFFICES ASSUME NEW b \in Actors PROVE EditKept(who[b])'
    BY <1>3, <1>4 DEF MergesKept
  <2> QED BY <1>5, <1>7, <1>9 DEF EditKept, Locked
<1>12. BasesKept'
  <2> SUFFICES ASSUME NEW b \in Callers PROVE BaseKept(who[b])'
    BY DEF BasesKept
  <2>0. BaseKept(who[b]) /\ b \in Actors
    BY <1>0 DEF BasesKept, Actors
  <2>1. CASE b = a
    <3>1. registry.at <= writes + 1
      BY <1>0 DEF StoreTyped
    <3> QED BY <2>0, <2>1, <3>1, <1>1, <1>3, <1>5, <1>7 DEF BaseKept, Locked
  <2>2. CASE b # a
    BY <2>0, <2>2, <1>1, <1>7, <1>9 DEF BaseKept, Locked
  <2> QED BY <2>1, <2>2
<1> QED BY <1>8, <1>10, <1>11, <1>12 DEF StoreInv

\* A caller that holds the guards gives the registry a new value and leaves.
LEMMA ToPublished ==
  ASSUME StoreInv, NEW t \in Callers, guards = t, Set(t, Idle), guards' = Nobody,
         lock' = IF lock = t THEN Nobody ELSE lock,
         registry' \in [list : Lists, missing : BOOLEAN, at : 0..writes],
         UNCHANGED <<file, writes, intent, asks>>
  PROVE  StoreInv'
<1>0. StoreTyped /\ HoldersKept /\ MergesKept /\ BasesKept /\ t \in Actors
  BY DEF StoreInv, Actors
<1>1. WhoRec' = WhoRec /\ Current' = Current
  BY DEF WhoRec, Current
<1>2. Idle \in WhoRec /\ Idle.pc = "idle"
  BY <1>0, IdleFacts DEF Idle
<1>3. who' \in [Actors -> WhoRec'] /\ who'[t] = Idle /\ \A b \in Actors \ {t} : who'[b] = who[b]
  <2> HIDE DEF WhoRec, Idle
  <2> QED BY <1>0, <1>1, <1>2 DEF StoreTyped, Set
<1> HIDE DEF Idle
<1>4. StoreTyped'
  <2> HIDE DEF WhoRec
  <2> QED BY <1>0, <1>3 DEF StoreTyped
<1>5. HoldersKept'
  <2> SUFFICES ASSUME NEW b \in Actors PROVE HoldsKept(b, who'[b], lock', guards')
    BY DEF HoldersKept
  <2>0. HoldsKept(b, who[b], lock, guards)
    BY <1>0 DEF HoldersKept
  <2>1. CASE b = t
    BY <2>1, <1>0, <1>2, <1>3, NamesAssumption DEF HoldsKept, Locked, InCall
  <2>2. CASE b # t
    BY <2>0, <2>2, <1>3, NamesAssumption DEF HoldsKept, Locked, InCall, Actors
  <2> QED BY <2>1, <2>2
<1>6. MergesKept'
  <2> SUFFICES ASSUME NEW b \in Actors PROVE EditKept(who[b])'
    BY <1>0, <1>1 DEF MergesKept
  <2> QED BY <1>0, <1>1, <1>2, <1>3 DEF MergesKept, EditKept
<1>7. BasesKept'
  <2> SUFFICES ASSUME NEW b \in Callers PROVE BaseKept(who[b])'
    BY DEF BasesKept
  <2>1. who'[b].pc \notin InCall
    BY <1>0, <1>2, <1>3 DEF HoldersKept, HoldsKept, Actors, InCall
  <2> QED BY <2>1 DEF BaseKept, Locked, InCall
<1> QED BY <1>4, <1>5, <1>6, <1>7 DEF StoreInv

\* A reload publishes while it holds the guards.
LEMMA PublishReloadStep ==
  ASSUME StoreInv, NEW t \in Callers, PublishReload(t)
  PROVE  StoreInv'
<1>0. StoreTyped /\ HoldersKept /\ t \in Actors
  BY DEF StoreInv, Actors
<1>1. who[t] \in WhoRec /\ guards = t /\ lock # t
  BY <1>0 DEF StoreTyped, HoldersKept, HoldsKept, PublishReload, InCall, Locked
<1>2. registry' \in [list : Lists, missing : BOOLEAN, at : 0..writes]
  BY <1>1 DEF PublishReload, WhoRec
<1> QED BY <1>0, <1>1, <1>2, ToPublished DEF PublishReload, Leave

\* A save publishes, or fails to, while it holds the guards and the lock.
LEMMA PublishStep ==
  ASSUME StoreInv, NEW a \in Actors, Publish(a)
  PROVE  StoreInv'
<1>0. StoreTyped /\ HoldersKept
  BY DEF StoreInv
<1>1. who[a] \in WhoRec /\ lock = a /\ (a \in Callers => guards = a)
  BY <1>0 DEF StoreTyped, HoldersKept, HoldsKept, Publish, InCall, Locked
<1>2. /\ lock' = Nobody /\ Set(a, Idle) /\ Leave(a) /\ UNCHANGED <<file, writes, intent, asks>>
      /\ IF a \in Callers
         THEN registry' \in {registry, [list |-> who[a].out, missing |-> FALSE, at |-> who[a].at]}
         ELSE UNCHANGED registry
  BY DEF Publish
<1>3. CASE a \in Callers
  <2>1. registry' \in [list : Lists, missing : BOOLEAN, at : 0..writes]
    <3>1. [list |-> who[a].out, missing |-> FALSE, at |-> who[a].at] \in [list : Lists, missing : BOOLEAN, at : 0..writes]
      BY <1>1, Zenon DEF WhoRec
    <3> QED BY <1>0, <1>2, <1>3, <3>1 DEF StoreTyped
  <2> QED BY <1>1, <1>2, <1>3, <2>1, ToPublished DEF Leave
<1>4. CASE a \notin Callers
  BY <1>0, <1>1, <1>2, <1>4, ToIdle, LeaveFacts
<1> QED BY <1>3, <1>4

\* The other process begins to register a package, or to replace a component.
LEMMA RegistrarPutStep ==
  ASSUME StoreInv, NEW k \in {"upsert", "replace"}, RegistrarPut(k)
  PROVE  StoreInv'
<1>0. StoreTyped /\ HoldersKept /\ Registrar \in Actors
  BY DEF StoreInv, Actors
<1>1. /\ who[Registrar].pc = "idle" /\ asks < MaxAsks /\ asks' = asks + 1
      /\ UNCHANGED <<file, lock, guards, registry, writes, intent>>
  BY DEF RegistrarPut
<1>2. PICK i \in Ids, l \in Packages :
        Set(Registrar, [Idle EXCEPT !.pc = "locking", !.kind = k, !.list[i] = Record(NewStamp, l)])
  BY DEF RegistrarPut
<1> DEFINE s == [Nothing EXCEPT ![i] = Record(NewStamp, l)]
           f == [Idle EXCEPT !.pc = "locking", !.kind = k, !.list[i] = Record(NewStamp, l)]
<1>3. s \in Lists
  BY <1>0, <1>1, StampFacts, ListFacts
<1>4. f = [Idle EXCEPT !.pc = "locking", !.kind = k, !.list = s]
  BY DEF Idle
<1> HIDE DEF s
<1>5. f \in WhoRec /\ f.pc = "locking"
  <2> HIDE DEF f
  <2> QED BY <1>0, <1>3, <1>4, IdleFacts DEF WhoRec, InCall
<1> HIDE DEF f
<1>6. Set(Registrar, f)
  BY <1>2 DEF f
<1>7. HoldsKept(Registrar, f, lock', guards') /\ EditKept(f)
  BY <1>0, <1>1, <1>5, CallerAssumption DEF HoldersKept, HoldsKept, EditKept, Locked
<1>8. asks' \in 0..MaxAsks
  BY <1>0, <1>1, StampFacts
<1> QED
  BY <1>0, <1>1, <1>5, <1>6, <1>7, <1>8, CallerAssumption, OneActor DEF StoreTyped

\* The other process begins to save a list, with or without a baseline.
LEMMA RegistrarSaveStep ==
  ASSUME StoreInv, RegistrarSave
  PROVE  StoreInv'
<1>0. StoreTyped /\ HoldersKept /\ Registrar \in Actors
  BY DEF StoreInv, Actors
<1>1. /\ who[Registrar].pc = "idle" /\ asks < MaxAsks /\ asks' = asks + 1
      /\ UNCHANGED <<file, lock, guards, registry, writes, intent>>
  BY DEF RegistrarSave
<1>2. PICK s \in Changed(Current, Packages), loaded \in {Current, Unknown} :
        Set(Registrar, [Idle EXCEPT !.pc = "locking", !.kind = "save", !.list = s, !.base = loaded])
  BY DEF RegistrarSave
<1> DEFINE f == [Idle EXCEPT !.pc = "locking", !.kind = "save", !.list = s, !.base = loaded]
<1>3. Current \in Lists
  BY <1>0, ListFacts DEF StoreTyped, Current
<1>4. s \in Lists /\ loaded \in Lists \cup {Unknown}
  <2>1. s \in Changed(Current, Packages \cup {NoPackage})
    BY <1>2 DEF Changed
  <2> QED BY <1>0, <1>1, <1>2, <1>3, <2>1, ChangedFacts
<1>5. f \in WhoRec /\ f.pc = "locking"
  BY <1>0, <1>4, IdleFacts DEF WhoRec, InCall
<1> HIDE DEF f
<1>6. Set(Registrar, f)
  BY <1>2 DEF f
<1>7. HoldsKept(Registrar, f, lock', guards') /\ EditKept(f)
  BY <1>0, <1>1, <1>5, CallerAssumption DEF HoldersKept, HoldsKept, EditKept, Locked
<1>8. asks' \in 0..MaxAsks
  BY <1>0, <1>1, StampFacts
<1> QED
  BY <1>0, <1>1, <1>5, <1>6, <1>7, <1>8, CallerAssumption, OneActor DEF StoreTyped

\* The other process dies at any point, and its lock is free.
LEMMA RegistrarDiesStep ==
  ASSUME StoreInv, RegistrarDies
  PROVE  StoreInv'
<1>0. StoreTyped /\ Registrar \in Actors
  BY DEF StoreInv, Actors
<1> QED BY <1>0, ToIdle DEF RegistrarDies, StoreTyped

\* The application dies at any point, and comes back with the file as it is.
LEMMA RestartStep ==
  ASSUME StoreInv, Restart
  PROVE  StoreInv'
<1>0. StoreTyped /\ HoldersKept /\ MergesKept /\ BasesKept
  BY DEF StoreInv
<1>1. WhoRec' = WhoRec /\ Current' = Current
  BY DEF WhoRec, Current, Restart
<1>2. Idle \in WhoRec /\ Idle.pc = "idle"
  BY <1>0, IdleFacts DEF Idle
<1>3. /\ who' \in [Actors -> WhoRec'] /\ \A t \in Callers : who'[t] = Idle
      /\ \A b \in Actors \ Callers : who'[b] = who[b]
  <2> HIDE DEF WhoRec, Idle
  <2> QED BY <1>0, <1>1, <1>2 DEF StoreTyped, Restart, Actors
<1> HIDE DEF Idle
<1>4. registry' \in [list : Lists, missing : BOOLEAN, at : 0..writes]
  BY <1>0, ListFacts DEF StoreTyped, Restart, Loaded
<1>5. StoreTyped'
  <2> HIDE DEF WhoRec
  <2> QED BY <1>0, <1>3, <1>4 DEF StoreTyped, Restart
<1>6. HoldersKept'
  <2> SUFFICES ASSUME NEW b \in Actors PROVE HoldsKept(b, who'[b], lock', guards')
    BY DEF HoldersKept
  <2>0. HoldsKept(b, who[b], lock, guards)
    BY <1>0 DEF HoldersKept
  <2>1. CASE b \in Callers
    BY <2>1, <1>2, <1>3, NamesAssumption, CallerAssumption DEF Restart, HoldsKept, Locked, InCall, Actors
  <2>2. CASE b \notin Callers
    BY <2>0, <2>2, <1>3, NamesAssumption DEF Restart, HoldsKept, Actors
  <2> QED BY <2>1, <2>2
<1>7. MergesKept'
  <2> SUFFICES ASSUME NEW b \in Actors PROVE EditKept(who[b])'
    BY <1>0, <1>1 DEF MergesKept, Restart
  <2> QED BY <1>0, <1>1, <1>2, <1>3 DEF MergesKept, EditKept
<1>8. BasesKept'
  BY <1>2, <1>3 DEF BasesKept, BaseKept, Locked
<1> QED BY <1>5, <1>6, <1>7, <1>8 DEF StoreInv

\* The invariant of the file, of the locks, of what is about to be written
\* and of the baselines.
THEOREM StoreInvariant == StoreSpec => []StoreInv
<1>1. StoreInit => StoreInv
  <2> SUFFICES ASSUME StoreInit PROVE StoreInv
    OBVIOUS
  <2>0. /\ file \in {NoFile, OtherFile, DefaultLocal} /\ lock = Nobody /\ guards = Nobody
        /\ writes = 0 /\ asks = 0 /\ registry = Loaded
        /\ who = [a \in Actors |-> Idle] /\ intent = Current
    BY DEF StoreInit
  <2>1. Idle \in WhoRec /\ Idle.pc = "idle"
    BY <2>0, ListFacts DEF Idle, WhoRec, InCall
  <2> HIDE DEF Idle
  <2>2. StoreTyped
    <3>1. who \in [Actors -> WhoRec]
      BY <2>0, <2>1
    <3>2. registry \in [list : Lists, missing : BOOLEAN, at : 0..writes]
      BY <2>0, ListFacts DEF Loaded
    <3>3. intent \in Lists
      BY <2>0, ListFacts, NamesAssumption DEF Current
    <3> QED BY <2>0, <3>1, <3>2, <3>3, ListFacts, NamesAssumption DEF StoreTyped
  <2>3. HoldersKept
    BY <2>0, <2>1, NamesAssumption DEF HoldersKept, HoldsKept, Locked, InCall
  <2>4. MergesKept
    BY <2>0, <2>1 DEF MergesKept, EditKept, Current
  <2>5. BasesKept
    BY <2>0, <2>1 DEF BasesKept, BaseKept, Locked, Actors
  <2> QED BY <2>2, <2>3, <2>4, <2>5 DEF StoreInv
<1>2. StoreInv /\ [StoreNext]_storeVars => StoreInv'
  <2> SUFFICES ASSUME StoreInv, [StoreNext]_storeVars PROVE StoreInv'
    OBVIOUS
  <2>1. CASE StoreNext
    <3>1. \A t \in Callers : View(t) \/ AskReload(t) \/ Begin(t) \/ ReadReload(t) \/ PublishReload(t) => StoreInv'
      BY ViewStep, AskReloadStep, BeginStep, ReadReloadStep, PublishReloadStep
    <3>2. \A t \in Callers : Ask(t, "save") \/ Ask(t, "configure") => StoreInv'
      BY AskStep
    <3>3. \A a \in Actors : TakeLock(a) \/ TimeOut(a) \/ Merge(a) \/ Write(a) \/ Publish(a) => StoreInv'
      BY TakeLockStep, TimeOutStep, MergeStep, WriteStep, PublishStep
    <3>4. RegistrarPut("upsert") \/ RegistrarPut("replace") => StoreInv'
      BY RegistrarPutStep
    <3> QED
      BY <2>1, <3>1, <3>2, <3>3, <3>4, RegistrarSaveStep, RestartStep, RegistrarDiesStep
      DEF StoreNext, CallerStep, Actors
  <2>2. CASE UNCHANGED storeVars
    BY <2>2 DEF storeVars, StoreInv, StoreTyped, WhoRec, HoldersKept, HoldsKept, MergesKept, EditKept,
                BasesKept, BaseKept, Current
  <2> QED BY <2>1, <2>2
<1> QED BY <1>1, <1>2, PTL DEF StoreSpec

\* The file of services holds the last edit of each service, whichever
\* process made it, for any number of threads (_merge_service_delta under
\* .services.lock).
THEOREM EditsKept == StoreSpec => []StoreKept
<1>1. StoreInv => StoreKept
  BY DEF StoreInv, StoreTyped, HoldersKept, HoldsKept, MergesKept, StoreKept, StoreTypeOK, ServiceEditsKept,
         WhoRec, Locked
<1> QED BY <1>1, StoreInvariant, PTL

StartsCounted == starts \in Nat

\* Starts of the application are counted.
LEMMA RestartsCounted == StoreSpec => []StartsCounted
<1>1. StoreInit => StartsCounted
  BY DEF StoreInit, StartsCounted
<1>2. StartsCounted /\ [StoreNext]_storeVars => StartsCounted'
  <2>1. [StoreNext]_storeVars => starts' = starts \/ starts' = starts + 1
    BY DEF StoreNext, CallerStep, View, Ask, AskReload, Begin, ReadReload, PublishReload, TakeLock, TimeOut,
       Merge,
           Write, Publish, RegistrarSave, RegistrarPut, Restart, RegistrarDies, storeVars
  <2> QED BY <2>1 DEF StartsCounted
<1> QED BY <1>1, <1>2, PTL DEF StoreSpec

\* A step of the other process leaves the application's threads alone.
LEMMA RegistrarAlone ==
  ASSUME StoreInv, RegistrarSave \/ (\E k \in {"upsert", "replace"} : RegistrarPut(k)) \/ RegistrarDies
         \/ TakeLock(Registrar) \/ TimeOut(Registrar) \/ Merge(Registrar) \/ Write(Registrar) \/ Publish(Registrar)
  PROVE  UNCHANGED registry /\ \A t \in Callers : who'[t] = who[t]
<1>1. who \in [Actors -> WhoRec]
  BY DEF StoreInv, StoreTyped
<1>2. \E f : Set(Registrar, f)
  BY DEF RegistrarSave, RegistrarPut, RegistrarDies, TakeLock, TimeOut, Merge, Write, Publish
<1>3. UNCHANGED registry
  BY CallerAssumption DEF RegistrarSave, RegistrarPut, RegistrarDies, TakeLock, TimeOut, Merge, Write, Publish
<1>4. \A t \in Callers : t \in Actors /\ t # Registrar
  BY CallerAssumption DEF Actors
<1> QED BY <1>1, <1>2, <1>3, <1>4 DEF Set

LocatorsStay == Managed(Current)' = Managed(Current) /\ Managed(registry.list)' = Managed(registry.list)

\* A step of a thread of the application changes no locator, and what it
\* publishes is no older than what it replaces.
LEMMA CallerSafe ==
  ASSUME StoreInv, NEW t \in Callers,
         View(t) \/ Ask(t, "save") \/ Ask(t, "configure") \/ AskReload(t) \/ CallerStep(t)
  PROVE  LocatorsStay /\ registry'.at >= registry.at
<1>0. StoreTyped /\ MergesKept /\ BaseKept(who[t]) /\ EditKept(who[t]) /\ t \in Actors
  BY DEF StoreInv, MergesKept, BasesKept, Actors
<1>1. registry.at \in Nat
  BY <1>0 DEF StoreTyped
<1>2. CASE View(t) \/ Ask(t, "save") \/ Ask(t, "configure") \/ AskReload(t) \/ Begin(t) \/ ReadReload(t)
           \/ TakeLock(t) \/ TimeOut(t) \/ Merge(t)
  <2>1. UNCHANGED <<file, registry>>
    BY <1>2 DEF View, Ask, AskReload, Begin, ReadReload, TakeLock, TimeOut, Merge
  <2> QED BY <1>1, <2>1 DEF LocatorsStay, Managed, Current
<1>3. CASE PublishReload(t)
  <2>1. UNCHANGED file /\ who[t].pc = "reloading" /\ registry'.list = who[t].list /\ registry'.at = who[t].at
    BY <1>3 DEF PublishReload
  <2>2. who[t].at \in Nat
    BY <1>0 DEF StoreTyped, WhoRec
  <2> QED BY <1>0, <1>1, <2>1, <2>2 DEF BaseKept, LocatorsStay, Managed, Current
<1>4. CASE Write(t)
  <2>1. file' = who[t].out /\ who[t].pc = "writing" /\ UNCHANGED registry /\ who[t].out \notin {NoFile, OtherFile}
    BY <1>0, <1>4, NamesAssumption DEF Write, StoreTyped, WhoRec
  <2>2. Current' = who[t].out
    BY <2>1 DEF Current
  <2>3. Managed(Current)' = Managed(who[t].out)
    BY <2>2 DEF Managed
  <2>4. Managed(registry.list)' = Managed(registry.list)
    BY <2>1 DEF Managed
  <2> QED BY <1>0, <1>1, <2>1, <2>3, <2>4 DEF BaseKept, LocatorsStay
<1>5. CASE Publish(t)
  <2>1. /\ UNCHANGED file /\ who[t].pc = "written"
        /\ registry' = registry \/ (registry'.list = who[t].out /\ registry'.at = who[t].at)
    BY <1>5 DEF Publish
  <2>2. who[t].at \in Nat
    BY <1>0 DEF StoreTyped, WhoRec
  <2>3. Managed(Current)' = Managed(Current)
    BY <2>1 DEF Managed, Current
  <2>4. Managed(registry.list)' = Managed(registry.list)
    BY <1>0, <2>1 DEF Managed, BaseKept
  <2> QED BY <1>0, <1>1, <2>1, <2>2, <2>3, <2>4 DEF BaseKept, LocatorsStay
<1> QED BY <1>2, <1>3, <1>4, <1>5 DEF CallerStep

\* No step of the application changes a locator, in the file or in the
\* registry in use, and the registry in use never becomes older
\* (ServiceRegistry.save, publish_without_locator_changes).
THEOREM RegistryFollows == StoreSpec => RegistryKept
<1>0. ASSUME StoreInv, StoreNext, starts' = starts, StartsCounted, \E t \in Callers : who'[t] # who[t]
      PROVE  Managed(Current') = Managed(Current) /\ Managed(registry'.list) = Managed(registry.list)
  <2>1. ~Restart
    BY <1>0 DEF Restart, StartsCounted
  <2>2. PICK t \in Callers :
          View(t) \/ Ask(t, "save") \/ Ask(t, "configure") \/ AskReload(t) \/ CallerStep(t)
    BY <1>0, <2>1, RegistrarAlone DEF StoreNext
  <2>3. LocatorsStay
    BY <1>0, <2>2, CallerSafe
  <2> QED BY <2>3 DEF LocatorsStay, Managed, Current
<1>1. StoreInv /\ StartsCounted /\ [StoreNext]_storeVars =>
        [starts' = starts /\ (\E t \in Callers : who'[t] # who[t]) =>
           Managed(Current') = Managed(Current) /\ Managed(registry'.list) = Managed(registry.list)]_storeVars
  BY <1>0
<1>2. StoreInv /\ [StoreNext]_storeVars => [registry'.at >= registry.at]_storeVars
  <2> SUFFICES ASSUME StoreInv, StoreNext PROVE registry'.at >= registry.at
    OBVIOUS
  <2>1. registry.at \in 0..writes /\ writes \in Nat
    BY DEF StoreInv, StoreTyped
  <2>2. CASE \E t \in Callers : View(t) \/ Ask(t, "save") \/ Ask(t, "configure") \/ AskReload(t) \/ CallerStep(t)
    BY <2>2, CallerSafe
  <2>3. CASE Restart
    BY <2>1, <2>3 DEF Restart, Loaded
  <2>4. CASE RegistrarSave \/ (\E k \in {"upsert", "replace"} : RegistrarPut(k)) \/ RegistrarDies
             \/ TakeLock(Registrar) \/ TimeOut(Registrar) \/ Merge(Registrar) \/ Write(Registrar)
             \/ Publish(Registrar)
    BY <2>1, <2>4, RegistrarAlone
  <2> QED BY <2>2, <2>3, <2>4 DEF StoreNext
<1> QED
  BY <1>1, <1>2, StoreInvariant, RestartsCounted, PTL
  DEF StoreSpec, RegistryKept, LocatorsGuarded, RegistryNeverOlder

-----------------------------------------------------------------------------
(***************************************************************************)
(* Files on the way to a worker and back.                                  *)
(***************************************************************************)

Steps == {"start", "uploaded", "prepared", "reading", "writing", "described", "checking", "deleting",
          "failed", "done"}

Contents == Calls \cup {Reference, Partial, NoAudio}

CallRec == [pc : Steps, ref : 1..ids \cup {NoId}, out : 1..ids \cup {NoId}, since : 0..now, got : Contents]

\* The files of the worker at some time: ids given out, written in the past.
FilesTyped(s) ==
  /\ DOMAIN s \subseteq 1..ids
  /\ \A i \in DOMAIN s : s[i].at \in 0..now /\ s[i].holds \in Contents

ArtifactTyped ==
  /\ now \in Nat /\ ids \in 0..MaxIds /\ FilesTyped(files)
  /\ cached \in [id : 1..ids \cup {NoId}, since : 0..now]
  /\ call \in [Calls -> CallRec]
  /\ output \in [Calls -> Contents]

\* No two calls write to one file, and none writes to a reference.
OwnOutput ==
  \A c, d \in Calls :
    call[c].out # NoId =>
      call[c].out # call[d].ref /\ call[c].out # cached.id /\ (c # d => call[c].out # call[d].out)

\* A reference that is remembered is younger than the client thinks by no more
\* than the upload's answer took, or is no longer named.
MemoryKept(s) ==
  cached.id # NoId =>
    (cached.id \in DOMAIN s /\ cached.since <= s[cached.id].at + Timeout) \/ now >= cached.since + CacheFor

\* What a call has use for is there, and how old it was when the call got to
\* where it waits.
NeedsKept(f, s) ==
  /\ f.pc = "uploaded" => f.ref \in DOMAIN s /\ f.since <= s[f.ref].at
  /\ f.pc \in {"prepared", "reading"} =>
       /\ f.ref \in DOMAIN s
       /\ f.since <= s[f.ref].at + Timeout \/ f.since < s[f.ref].at + Timeout + CacheFor
  /\ f.pc = "described" => f.out \in DOMAIN s /\ f.since <= s[f.out].at

\* What a call knows of its own files, and how long it may wait.
WaitKept(f, t, n) ==
  /\ f.pc \notin {"start", "done", "failed"} => t <= f.since + Timeout
  /\ f.pc \in {"reading", "writing", "described", "checking", "deleting"} => f.out \in 1..n

CallsKept == \A c \in Calls : NeedsKept(call[c], files) /\ WaitKept(call[c], now, ids)

ArtifactInv == ArtifactTyped /\ OwnOutput /\ MemoryKept(files) /\ CallsKept /\ OutputWhole

\* A sweep takes nothing that is needed.
LEMMA SweptFacts ==
  ASSUME ArtifactInv
  PROVE  /\ FilesTyped(Swept) /\ DOMAIN Swept \subseteq DOMAIN files
         /\ \A i \in DOMAIN Swept : Swept[i] = files[i]
         /\ MemoryKept(Swept) /\ \A c \in Calls : NeedsKept(call[c], Swept)
<1> USE TimeAssumption
<1>0. ArtifactTyped /\ MemoryKept(files) /\ CallsKept
  BY DEF ArtifactInv
<1>1. DOMAIN Swept = {k \in DOMAIN files : ~(now - files[k].at > Ttl)} /\ \A i \in DOMAIN Swept : Swept[i] = files[i]
  BY DEF Swept, Expired, Age
<1> HIDE DEF Swept
<1>2. FilesTyped(Swept)
  BY <1>0, <1>1 DEF ArtifactTyped, FilesTyped
<1>3. MemoryKept(Swept)
  BY <1>0, <1>1 DEF ArtifactTyped, FilesTyped, MemoryKept
<1>4. ASSUME NEW c \in Calls PROVE NeedsKept(call[c], Swept)
  <2>1. NeedsKept(call[c], files) /\ WaitKept(call[c], now, ids) /\ call[c].since \in 0..now
    BY <1>0 DEF CallsKept, ArtifactTyped, CallRec
  <2> QED BY <1>0, <1>1, <2>1 DEF ArtifactTyped, FilesTyped, NeedsKept, WaitKept
<1> QED BY <1>1, <1>2, <1>3, <1>4

\* A step of one call, which gets the record f and at most one new file.
LEMMA OneCall ==
  ASSUME ArtifactInv, NEW c \in Calls, NEW f \in CallRec', SetCall(c, f),
         ids' \in {ids, ids + 1}, ids' \in 0..MaxIds, now' = now,
         \/ f.out = call[c].out /\ f.ref \in {call[c].ref, cached.id}
         \/ f.out = call[c].out /\ f.ref = ids + 1 /\ ids' = ids + 1
         \/ f.out = ids + 1 /\ f.ref = call[c].ref /\ ids' = ids + 1,
         cached' \in [id : 1..ids \cup {NoId}, since : 0..now], cached'.id \in {cached.id, call[c].ref},
         f.out = call[c].out \/ cached' = cached,
         FilesTyped(files)', MemoryKept(files)',
         \A d \in Calls \ {c} : NeedsKept(call[d], files'), NeedsKept(f, files'), WaitKept(f, now', ids'),
         output' \in [Calls -> Contents], OutputWhole'
  PROVE  ArtifactInv'
<1>0. ArtifactTyped /\ OwnOutput /\ CallsKept
  BY DEF ArtifactInv
<1>1. ids \in 0..MaxIds /\ now \in Nat /\ MaxIds \in Nat /\ NoId \notin 1..MaxIds
  BY <1>0, FileIdAssumption DEF ArtifactTyped
<1>2. \A r \in CallRec : r \in CallRec'
  BY <1>1 DEF CallRec
<1>3. call \in [Calls -> CallRec] /\ cached.id \in 1..ids \cup {NoId}
  BY <1>0 DEF ArtifactTyped
<1>4. call' \in [Calls -> CallRec'] /\ call'[c] = f /\ \A d \in Calls \ {c} : call'[d] = call[d]
  <2> HIDE DEF CallRec
  <2> QED BY <1>2, <1>3 DEF SetCall
<1>5. \A d \in Calls : call[d].out \in 1..ids \cup {NoId} /\ call[d].ref \in 1..ids \cup {NoId}
  BY <1>3 DEF CallRec
<1> HIDE DEF CallRec
<1>6. ArtifactTyped'
  <2>1. cached' \in [id : 1..ids' \cup {NoId}, since : 0..now']
    BY <1>1
  <2> QED BY <1>1, <1>4, <2>1 DEF ArtifactTyped
<1>7. OwnOutput'
  <2>1. ASSUME ids' = ids + 1 PROVE ids + 1 # NoId /\ ids + 1 \notin 1..ids
    BY <1>1, <2>1
  <2>2. SUFFICES ASSUME NEW d \in Calls, NEW e \in Calls, call'[d].out # NoId
                 PROVE  /\ call'[d].out # call'[e].ref /\ call'[d].out # cached'.id
                        /\ d # e => call'[d].out # call'[e].out
    BY DEF OwnOutput
  <2>3. \A x, y \in Calls :
          call[x].out # NoId =>
            call[x].out # call[y].ref /\ call[x].out # cached.id /\ (x # y => call[x].out # call[y].out)
    BY <1>0 DEF OwnOutput
  <2>4. CASE d # c /\ e # c
    BY <1>3, <1>4, <1>5, <2>1, <2>2, <2>3, <2>4
  <2>5. CASE d # c /\ e = c
    BY <1>3, <1>4, <1>5, <2>1, <2>2, <2>3, <2>5
  <2>6. CASE d = c /\ e # c
    BY <1>3, <1>4, <1>5, <2>1, <2>2, <2>3, <2>6
  <2>7. CASE d = c /\ e = c
    BY <1>3, <1>4, <1>5, <2>1, <2>2, <2>3, <2>7
  <2> QED BY <2>4, <2>5, <2>6, <2>7
<1>8. CallsKept'
  <2> SUFFICES ASSUME NEW d \in Calls PROVE NeedsKept(call'[d], files') /\ WaitKept(call'[d], now', ids')
    BY DEF CallsKept
  <2>1. CASE d = c
    BY <2>1, <1>4 DEF WaitKept
  <2>2. CASE d # c
    <3>1. call'[d] = call[d] /\ WaitKept(call[d], now, ids)
      BY <2>2, <1>0, <1>4 DEF CallsKept
    <3> QED BY <2>2, <3>1, <1>1 DEF WaitKept
  <2> QED BY <2>1, <2>2
<1> QED BY <1>6, <1>7, <1>8 DEF ArtifactInv

\* The same, when only the record changes, or the worker sweeps.
LEMMA OnlyCall ==
  ASSUME ArtifactInv, NEW c \in Calls, NEW f \in CallRec, SetCall(c, f),
         files' \in {files, Swept}, UNCHANGED <<now, ids, cached, output>>,
         f.out = call[c].out, f.ref \in {call[c].ref, cached.id},
         NeedsKept(f, files'), WaitKept(f, now, ids)
  PROVE  ArtifactInv'
<1>0. ArtifactTyped /\ MemoryKept(files) /\ CallsKept /\ OutputWhole
  BY DEF ArtifactInv
<1>1. CallRec' = CallRec /\ ids' \in 0..MaxIds /\ cached \in [id : 1..ids \cup {NoId}, since : 0..now]
      /\ output' \in [Calls -> Contents]
  BY <1>0 DEF CallRec, ArtifactTyped
<1>2. FilesTyped(files)' /\ MemoryKept(files)' /\ \A d \in Calls \ {c} : NeedsKept(call[d], files')
  <2>1. CASE files' = files
    BY <2>1, <1>0 DEF ArtifactTyped, FilesTyped, MemoryKept, CallsKept
  <2>2. CASE files' = Swept
    BY <2>2, SweptFacts DEF FilesTyped, MemoryKept
  <2> QED BY <2>1, <2>2
<1>3. WaitKept(f, now', ids') /\ OutputWhole'
  BY <1>0 DEF WaitKept, OutputWhole
<1> QED BY <1>1, <1>2, <1>3, OneCall

\* A call's record, and one that has got to another step.
LEMMA CallFacts ==
  ASSUME ArtifactInv, NEW c \in Calls
  PROVE  /\ call[c] \in CallRec /\ now \in Nat /\ now \in 0..now
         /\ NeedsKept(call[c], files) /\ NeedsKept(call[c], Swept) /\ WaitKept(call[c], now, ids)
BY SweptFacts DEF ArtifactInv, ArtifactTyped, CallsKept

\* A call that has got to another step keeps its files and waits from now on.
LEMMA AtFacts ==
  ASSUME ArtifactInv, NEW c \in Calls, NEW p \in Steps
  PROVE  /\ At(c, p) \in CallRec /\ At(c, p).pc = p /\ At(c, p).since = now
         /\ At(c, p).ref = call[c].ref /\ At(c, p).out = call[c].out
BY CallFacts DEF At, CallRec

\* A call that only moves on, to a step that has no use for a file, or stays
\* with what it needs.
LEMMA ToStep ==
  ASSUME ArtifactInv, NEW c \in Calls, NEW p \in {"checking", "deleting", "failed", "done"},
         SetCall(c, At(c, p)), p \in {"checking", "deleting"} => call[c].out \in 1..ids,
         files' \in {files, Swept}, UNCHANGED <<now, ids, cached, output>>
  PROVE  ArtifactInv'
<1> DEFINE f == At(c, p)
<1>1. f \in CallRec /\ f.pc = p /\ f.since = now /\ f.ref = call[c].ref /\ f.out = call[c].out
  BY AtFacts DEF Steps
<1> HIDE DEF f
<1>2. NeedsKept(f, files') /\ WaitKept(f, now, ids)
  BY <1>1, CallFacts, TimeAssumption DEF NeedsKept, WaitKept
<1> QED BY <1>1, <1>2, OnlyCall DEF f

\* A reference that is still remembered is there long enough for the call
\* that names it.
LEMMA UseCachedStep ==
  ASSUME ArtifactInv, NEW c \in Calls, UseCached(c)
  PROVE  ArtifactInv'
<1> DEFINE f == [At(c, "prepared") EXCEPT !.ref = cached.id]
<1>1. At(c, "prepared") \in CallRec /\ At(c, "prepared").since = now /\ At(c, "prepared").out = call[c].out
      /\ At(c, "prepared").pc = "prepared"
  BY AtFacts DEF Steps
<1>2. MemoryKept(files) /\ cached.id \in 1..ids \cup {NoId} /\ cached.since \in 0..now /\ now \in Nat
      /\ FilesTyped(files)
  BY DEF ArtifactInv, ArtifactTyped
<1>3. f \in CallRec /\ f.pc = "prepared" /\ f.since = now /\ f.ref = cached.id /\ f.out = call[c].out
  <2> HIDE DEF At
  <2> QED BY <1>1, <1>2 DEF CallRec
<1> HIDE DEF f
<1>4. cached.id # NoId /\ now - cached.since < CacheFor /\ SetCall(c, f)
  BY DEF UseCached, CacheHit, f
<1>5. NeedsKept(f, files) /\ WaitKept(f, now, ids)
  BY <1>2, <1>3, <1>4, TimeAssumption DEF NeedsKept, WaitKept, MemoryKept, FilesTyped
<1> QED BY <1>3, <1>4, <1>5, OnlyCall DEF UseCached

\* A reference that is uploaded is new, and what is swept nobody needs.
LEMMA UploadStep ==
  ASSUME ArtifactInv, NEW c \in Calls, Upload(c)
  PROVE  ArtifactInv'
<1> DEFINE f == [At(c, "uploaded") EXCEPT !.ref = ids + 1]
<1>1. At(c, "uploaded") \in CallRec /\ At(c, "uploaded").since = now /\ At(c, "uploaded").out = call[c].out
      /\ At(c, "uploaded").pc = "uploaded"
  BY AtFacts DEF Steps
<1>2. /\ ids \in Nat /\ now \in Nat /\ MaxIds \in Nat /\ OutputWhole /\ output \in [Calls -> Contents]
      /\ cached \in [id : 1..ids \cup {NoId}, since : 0..now]
  BY FileIdAssumption DEF ArtifactInv, ArtifactTyped
<1>3. /\ ids' = ids + 1 /\ ids < MaxIds /\ files' = Put(Swept, ids + 1, Reference)
      /\ SetCall(c, f) /\ UNCHANGED <<now, cached, output>>
  BY DEF Upload
<1>4. f \in CallRec' /\ f.pc = "uploaded" /\ f.since = now /\ f.ref = ids + 1 /\ f.out = call[c].out
  <2> HIDE DEF At
  <2> QED BY <1>1, <1>2, <1>3 DEF CallRec
<1> HIDE DEF f
<1>5. FilesTyped(Swept) /\ MemoryKept(Swept) /\ \A d \in Calls : NeedsKept(call[d], Swept)
  BY SweptFacts
<1>6. /\ DOMAIN files' = DOMAIN Swept \cup {ids + 1} /\ files'[ids + 1] = [at |-> now, holds |-> Reference]
      /\ \A k \in DOMAIN Swept : files'[k] = Swept[k]
  <2>1. ids + 1 \notin DOMAIN Swept
    BY <1>2, <1>5 DEF FilesTyped
  <2>2. /\ DOMAIN Put(Swept, ids + 1, Reference) = DOMAIN Swept \cup {ids + 1}
        /\ Put(Swept, ids + 1, Reference)[ids + 1] = [at |-> now, holds |-> Reference]
        /\ \A k \in DOMAIN Swept \ {ids + 1} : Put(Swept, ids + 1, Reference)[k] = Swept[k]
    BY DEF Put
  <2> HIDE DEF Swept, Put, Reference
  <2> QED BY <1>3, <2>1, <2>2
<1> HIDE DEF Swept
<1>7. FilesTyped(files)'
  BY <1>2, <1>3, <1>5, <1>6 DEF FilesTyped, Contents
<1>8. MemoryKept(files)' /\ \A d \in Calls \ {c} : NeedsKept(call[d], files')
  <2>1. MemoryKept(files)'
    BY <1>3, <1>5, <1>6 DEF MemoryKept
  <2> QED BY <2>1, <1>5, <1>6 DEF NeedsKept
<1>9. NeedsKept(f, files') /\ WaitKept(f, now', ids')
  BY <1>2, <1>3, <1>4, <1>6, TimeAssumption DEF NeedsKept, WaitKept
<1>10. OutputWhole' /\ output' \in [Calls -> Contents] /\ ids' \in 0..MaxIds
  BY <1>2, <1>3 DEF OutputWhole
<1> QED BY <1>2, <1>3, <1>4, <1>7, <1>8, <1>9, <1>10, OneCall

\* What the client begins to remember is as old as its upload took.
LEMMA UploadedStep ==
  ASSUME ArtifactInv, NEW c \in Calls, Uploaded(c)
  PROVE  ArtifactInv'
<1> DEFINE f == At(c, "prepared")
<1>1. f \in CallRec /\ f.since = now /\ f.out = call[c].out /\ f.ref = call[c].ref /\ f.pc = "prepared"
  BY AtFacts DEF Steps
<1> HIDE DEF f
<1>2. /\ ids \in 0..MaxIds /\ now \in Nat /\ OutputWhole /\ output \in [Calls -> Contents]
      /\ FilesTyped(files) /\ \A d \in Calls : NeedsKept(call[d], files)
  BY DEF ArtifactInv, ArtifactTyped, CallsKept
<1>3. /\ call[c].pc = "uploaded" /\ cached' = [id |-> call[c].ref, since |-> now] /\ SetCall(c, f)
      /\ UNCHANGED <<now, files, ids, output>>
  BY DEF Uploaded, f
<1>4. call[c] \in CallRec /\ NeedsKept(call[c], files) /\ WaitKept(call[c], now, ids) /\ CallRec' = CallRec
  BY <1>3, CallFacts DEF CallRec
<1>5. /\ call[c].ref \in DOMAIN files /\ now <= files[call[c].ref].at + Timeout
      /\ files[call[c].ref].at \in Nat /\ call[c].ref \in 1..ids
  BY <1>2, <1>3, <1>4, TimeAssumption DEF NeedsKept, WaitKept, CallRec, FilesTyped
<1>6. cached' \in [id : 1..ids \cup {NoId}, since : 0..now] /\ cached'.id = call[c].ref /\ cached'.since = now
  BY <1>2, <1>3, <1>5
<1>7. MemoryKept(files)' /\ NeedsKept(f, files) /\ WaitKept(f, now', ids') /\ FilesTyped(files)' /\ OutputWhole'
  <2>1. MemoryKept(files)'
    BY <1>3, <1>5, <1>6 DEF MemoryKept
  <2>2. NeedsKept(f, files) /\ WaitKept(f, now', ids')
    BY <1>1, <1>2, <1>3, <1>5, TimeAssumption DEF NeedsKept, WaitKept
  <2> QED BY <1>2, <1>3, <2>1, <2>2 DEF FilesTyped, OutputWhole
<1>8. \A d \in Calls \ {c} : NeedsKept(call[d], files')
  BY <1>2, <1>3
<1> HIDE DEF OutputWhole
<1> QED BY <1>1, <1>2, <1>3, <1>4, <1>6, <1>7, <1>8, OneCall

\* The file for the audio gets an id that nobody has.
LEMMA SynthesizeStep ==
  ASSUME ArtifactInv, NEW c \in Calls, Synthesize(c)
  PROVE  ArtifactInv'
<1> DEFINE f == [call[c] EXCEPT !.pc = "reading", !.out = ids + 1]
<1>1. call[c] \in CallRec /\ NeedsKept(call[c], Swept) /\ WaitKept(call[c], now, ids)
  BY CallFacts
<1>2. /\ ids \in Nat /\ now \in Nat /\ MaxIds \in Nat /\ OutputWhole /\ output \in [Calls -> Contents]
      /\ cached \in [id : 1..ids \cup {NoId}, since : 0..now]
  BY FileIdAssumption DEF ArtifactInv, ArtifactTyped
<1>3. /\ call[c].pc = "prepared" /\ ids' = ids + 1 /\ ids < MaxIds /\ files' = Swept
      /\ SetCall(c, f) /\ UNCHANGED <<now, cached, output>>
  BY DEF Synthesize
<1>4. f \in CallRec' /\ f.pc = "reading" /\ f.since = call[c].since /\ f.ref = call[c].ref /\ f.out = ids + 1
  <2>1. call[c] \in CallRec' /\ ids + 1 \in 1..ids'
    BY <1>1, <1>2, <1>3 DEF CallRec
  <2> QED BY <2>1 DEF CallRec, Steps
<1> HIDE DEF f, Swept
<1>5. FilesTyped(Swept) /\ MemoryKept(Swept) /\ \A d \in Calls : NeedsKept(call[d], Swept)
  BY SweptFacts
<1>6. FilesTyped(files)' /\ MemoryKept(files)'
  BY <1>2, <1>3, <1>5 DEF FilesTyped, MemoryKept
<1>7. NeedsKept(f, files') /\ WaitKept(f, now', ids')
  BY <1>1, <1>2, <1>3, <1>4, TimeAssumption DEF NeedsKept, WaitKept
<1>8. /\ OutputWhole' /\ output' \in [Calls -> Contents] /\ ids' \in 0..MaxIds
      /\ \A d \in Calls \ {c} : NeedsKept(call[d], files')
  BY <1>2, <1>3, <1>5 DEF OutputWhole
<1> QED BY <1>2, <1>3, <1>4, <1>6, <1>7, <1>8, OneCall

\* A call writes to the file that is its own: no other has use for it.
LEMMA OwnWrite ==
  ASSUME ArtifactInv, NEW c \in Calls, NEW content \in Contents,
         call[c].pc \in {"reading", "writing"}, files' = Put(files, call[c].out, content),
         UNCHANGED <<now, ids, cached>>
  PROVE  /\ FilesTyped(files)' /\ MemoryKept(files)'
         /\ \A d \in Calls \ {c} : NeedsKept(call[d], files')
         /\ call[c].out \in DOMAIN files' /\ files'[call[c].out].at = now
<1>0. ArtifactTyped /\ OwnOutput /\ MemoryKept(files) /\ CallsKept
  BY DEF ArtifactInv
<1> DEFINE i == call[c].out
<1>1. i \in 1..ids /\ i # NoId /\ now \in Nat /\ ids \in Nat
  <2>1. WaitKept(call[c], now, ids) /\ ids \in 0..MaxIds /\ now \in Nat
    BY <1>0 DEF CallsKept, ArtifactTyped
  <2> QED BY <2>1, FileIdAssumption DEF WaitKept
<1>2. /\ DOMAIN files' = DOMAIN files \cup {i} /\ files'[i] = [at |-> now, holds |-> content]
      /\ \A k \in DOMAIN files \ {i} : files'[k] = files[k]
  BY DEF Put
<1>3. FilesTyped(files)'
  BY <1>0, <1>1, <1>2 DEF ArtifactTyped, FilesTyped
<1>4. i # cached.id /\ \A d \in Calls \ {c} : i # call[d].ref /\ i # call[d].out
  BY <1>0, <1>1 DEF OwnOutput
<1> HIDE DEF i
<1>5. MemoryKept(files)'
  BY <1>0, <1>2, <1>4 DEF MemoryKept
<1>6. \A d \in Calls \ {c} : NeedsKept(call[d], files')
  <2> TAKE d \in Calls \ {c}
  <2>1. NeedsKept(call[d], files) /\ i # call[d].ref /\ i # call[d].out
    BY <1>0, <1>4 DEF CallsKept
  <2> QED BY <1>2, <2>1 DEF NeedsKept
<1> QED BY <1>2, <1>3, <1>5, <1>6 DEF i

\* A call that writes to its own file disturbs no other call.
LEMMA OwnWriteStep ==
  ASSUME ArtifactInv, NEW c \in Calls, NEW f \in CallRec, NEW content \in Contents,
         call[c].pc \in {"reading", "writing"}, files' = Put(files, call[c].out, content), SetCall(c, f),
         \/ f.pc = "writing" /\ f.since = call[c].since
         \/ f.pc = "described" /\ f.since = now,
         f.ref = call[c].ref, f.out = call[c].out, UNCHANGED <<now, ids, cached, output>>
  PROVE  ArtifactInv'
<1>1. /\ ids \in 0..MaxIds /\ now \in Nat /\ OutputWhole /\ output \in [Calls -> Contents]
      /\ cached \in [id : 1..ids \cup {NoId}, since : 0..now] /\ WaitKept(call[c], now, ids)
      /\ CallRec' = CallRec
  BY CallFacts DEF ArtifactInv, ArtifactTyped, CallRec
<1>2. /\ FilesTyped(files)' /\ MemoryKept(files)'
      /\ \A d \in Calls \ {c} : NeedsKept(call[d], files')
      /\ call[c].out \in DOMAIN files' /\ files'[call[c].out].at = now
  BY OwnWrite
<1>3. NeedsKept(f, files') /\ WaitKept(f, now', ids')
  BY <1>1, <1>2, TimeAssumption DEF NeedsKept, WaitKept
<1>4. OutputWhole' /\ output' \in [Calls -> Contents]
  BY <1>1 DEF OutputWhole
<1> QED BY <1>1, <1>2, <1>3, <1>4, OneCall

\* The worker reads the reference and begins to write the audio.
LEMMA ReadStep ==
  ASSUME ArtifactInv, NEW c \in Calls, Read(c)
  PROVE  ArtifactInv'
<1>1. /\ call[c].pc = "reading" /\ UNCHANGED <<now, ids, cached, output>>
      /\ IF There(call[c].ref)
         THEN SetCall(c, [call[c] EXCEPT !.pc = "writing"]) /\ files' = Put(files, call[c].out, Partial)
         ELSE SetCall(c, At(c, "failed")) /\ UNCHANGED files
  BY DEF Read
<1>2. CASE There(call[c].ref)
  <2> DEFINE f == [call[c] EXCEPT !.pc = "writing"]
  <2>1. /\ f \in CallRec /\ f.pc = "writing" /\ f.since = call[c].since
        /\ f.ref = call[c].ref /\ f.out = call[c].out
    BY CallFacts DEF CallRec, Steps
  <2> HIDE DEF f
  <2>2. SetCall(c, f) /\ files' = Put(files, call[c].out, Partial) /\ Partial \in Contents
    BY <1>1, <1>2 DEF f, Contents
  <2> QED BY <1>1, <2>1, <2>2, OwnWriteStep
<1>3. CASE ~There(call[c].ref)
  BY <1>1, <1>3, ToStep
<1> QED BY <1>2, <1>3

\* The audio is complete when it is described.
LEMMA WriteAudioStep ==
  ASSUME ArtifactInv, NEW c \in Calls, WriteAudio(c)
  PROVE  ArtifactInv'
<1> DEFINE f == At(c, "described")
<1>1. /\ f \in CallRec /\ f.pc = "described" /\ f.since = now
      /\ f.ref = call[c].ref /\ f.out = call[c].out
  BY AtFacts DEF Steps
<1> HIDE DEF f
<1>2. /\ call[c].pc = "writing" /\ UNCHANGED <<now, ids, cached, output>> /\ SetCall(c, f)
      /\ files' = Put(files, call[c].out, c) /\ c \in Contents
  BY DEF WriteAudio, f, Contents
<1> QED BY <1>1, <1>2, OwnWriteStep

\* A download may bring anything, and sweeps.
LEMMA DownloadStep ==
  ASSUME ArtifactInv, NEW c \in Calls, Download(c)
  PROVE  ArtifactInv'
<1>1. /\ call[c].pc = "described" /\ files' = Swept /\ UNCHANGED <<now, ids, cached, output>>
      /\ \E got \in {Partial, IF call[c].out \in DOMAIN Swept THEN files[call[c].out].holds ELSE NoAudio} :
           SetCall(c, [call[c] EXCEPT !.pc = "checking", !.got = got])
  BY DEF Download
<1>2. call[c] \in CallRec /\ WaitKept(call[c], now, ids) /\ FilesTyped(files) /\ DOMAIN Swept \subseteq DOMAIN files
  BY CallFacts, SweptFacts DEF ArtifactInv, ArtifactTyped
<1> HIDE DEF Swept
<1>3. PICK got \in Contents : SetCall(c, [call[c] EXCEPT !.pc = "checking", !.got = got])
  BY <1>1, <1>2 DEF FilesTyped, Contents
<1> DEFINE f == [call[c] EXCEPT !.pc = "checking", !.got = got]
<1>4. /\ f \in CallRec /\ f.pc = "checking" /\ f.since = call[c].since
      /\ f.ref = call[c].ref /\ f.out = call[c].out
  BY <1>2, <1>3 DEF CallRec, Steps
<1> HIDE DEF f
<1>5. SetCall(c, f)
  BY <1>3 DEF f
<1>6. NeedsKept(f, files') /\ WaitKept(f, now, ids)
  BY <1>1, <1>2, <1>4 DEF NeedsKept, WaitKept
<1> QED BY <1>1, <1>4, <1>5, <1>6, OnlyCall

\* Only what fits the description takes the place of the output
\* (_download_artifact).
LEMMA KeepStep ==
  ASSUME ArtifactInv, NEW c \in Calls, Keep(c)
  PROVE  ArtifactInv'
<1>1. /\ call[c].pc = "checking" /\ UNCHANGED <<now, files, ids, cached>>
      /\ IF call[c].got = c
         THEN output' = [output EXCEPT ![c] = call[c].got] /\ SetCall(c, At(c, "deleting"))
         ELSE SetCall(c, At(c, "failed")) /\ UNCHANGED output
  BY DEF Keep, ContentFits
<1>2. CASE call[c].got = c
  <2> DEFINE f == At(c, "deleting")
  <2>1. f \in CallRec /\ f.pc = "deleting" /\ f.since = now /\ f.ref = call[c].ref /\ f.out = call[c].out
    BY AtFacts DEF Steps
  <2> HIDE DEF f
  <2>2. /\ ids \in 0..MaxIds /\ now \in Nat /\ OutputWhole /\ output \in [Calls -> Contents]
        /\ cached \in [id : 1..ids \cup {NoId}, since : 0..now] /\ WaitKept(call[c], now, ids)
        /\ CallRec' = CallRec /\ FilesTyped(files) /\ MemoryKept(files)
        /\ \A d \in Calls : NeedsKept(call[d], files)
    BY <1>1, CallFacts DEF ArtifactInv, ArtifactTyped, CallRec, CallsKept
  <2>3. output' = [output EXCEPT ![c] = c] /\ SetCall(c, f)
    BY <1>1, <1>2 DEF f
  <2>4. OutputWhole' /\ output' \in [Calls -> Contents]
    BY <2>2, <2>3 DEF OutputWhole, Contents
  <2>5. FilesTyped(files)' /\ MemoryKept(files)' /\ \A d \in Calls \ {c} : NeedsKept(call[d], files')
    BY <1>1, <2>2 DEF FilesTyped, MemoryKept
  <2>6. NeedsKept(f, files') /\ WaitKept(f, now', ids')
    BY <1>1, <2>1, <2>2, TimeAssumption DEF NeedsKept, WaitKept
  <2> QED BY <1>1, <2>1, <2>2, <2>3, <2>4, <2>5, <2>6, OneCall
<1>3. CASE call[c].got # c
  BY <1>1, <1>3, ToStep
<1> QED BY <1>2, <1>3

\* A call drops the file that is its own, after what is too old.
LEMMA DeleteStep ==
  ASSUME ArtifactInv, NEW c \in Calls, Delete(c)
  PROVE  ArtifactInv'
<1>1. PICK p \in {"done", "failed"} : SetCall(c, At(c, p))
  BY DEF Delete
<1>2. /\ call[c].pc = "deleting" /\ files' = Drop(Swept, call[c].out) /\ UNCHANGED <<now, ids, cached, output>>
  BY DEF Delete
<1> DEFINE f == At(c, p)
           i == call[c].out
<1>3. f \in CallRec /\ f.pc = p /\ f.ref = call[c].ref /\ f.out = call[c].out
  BY AtFacts DEF Steps
<1> HIDE DEF f
<1>4. /\ ids \in 0..MaxIds /\ now \in Nat /\ OutputWhole /\ output \in [Calls -> Contents]
      /\ cached \in [id : 1..ids \cup {NoId}, since : 0..now] /\ WaitKept(call[c], now, ids)
      /\ CallRec' = CallRec /\ OwnOutput
  BY <1>2, CallFacts DEF ArtifactInv, ArtifactTyped, CallRec
<1>5. i # cached.id /\ \A d \in Calls \ {c} : i # call[d].ref /\ i # call[d].out
  <2>1. i # NoId
    BY <1>2, <1>4, FileIdAssumption DEF WaitKept
  <2> QED BY <1>4, <2>1 DEF OwnOutput
<1>6. FilesTyped(Swept) /\ MemoryKept(Swept) /\ \A d \in Calls : NeedsKept(call[d], Swept)
  BY SweptFacts
<1>7. DOMAIN files' = DOMAIN Swept \ {i} /\ \A k \in DOMAIN files' : files'[k] = Swept[k]
  BY <1>2 DEF Drop
<1> HIDE DEF i, Swept
<1>8. FilesTyped(files)' /\ MemoryKept(files)'
  BY <1>2, <1>5, <1>6, <1>7 DEF FilesTyped, MemoryKept
<1>9. \A d \in Calls \ {c} : NeedsKept(call[d], files')
  BY <1>5, <1>6, <1>7 DEF NeedsKept
<1>10. NeedsKept(f, files') /\ WaitKept(f, now', ids')
  BY <1>3 DEF NeedsKept, WaitKept
<1>11. OutputWhole' /\ output' \in [Calls -> Contents] /\ SetCall(c, f)
  BY <1>1, <1>2, <1>4 DEF OutputWhole, f
<1> QED BY <1>2, <1>3, <1>4, <1>8, <1>9, <1>10, <1>11, OneCall

\* A request of anyone else sweeps.
LEMMA OtherRequestStep ==
  ASSUME ArtifactInv, files' = Swept, UNCHANGED <<now, ids, cached, call, output>>
  PROVE  ArtifactInv'
<1> HIDE DEF Swept
<1>1. FilesTyped(Swept) /\ MemoryKept(Swept) /\ \A d \in Calls : NeedsKept(call[d], Swept)
  BY SweptFacts
<1>2. FilesTyped(files)' /\ MemoryKept(files)'
  BY <1>1 DEF FilesTyped, MemoryKept
<1> QED
  BY <1>1, <1>2 DEF ArtifactInv, ArtifactTyped, CallRec, OwnOutput, CallsKept, WaitKept, OutputWhole

\* Time passes no further than the calls that wait let it.
LEMMA TickStep ==
  ASSUME ArtifactInv, Tick
  PROVE  ArtifactInv'
<1>0. ArtifactTyped /\ OwnOutput /\ MemoryKept(files) /\ CallsKept /\ OutputWhole
  BY DEF ArtifactInv
<1>1. /\ now' = now + 1 /\ UNCHANGED <<files, ids, cached, call, output>>
      /\ \A c \in Calls : call[c].pc \notin {"start", "done", "failed"} => now - call[c].since < Timeout
  BY DEF Tick, Waiting
<1>2. now \in Nat /\ 0..now \subseteq 0..now' /\ call \in [Calls -> CallRec]
  BY <1>0, <1>1 DEF ArtifactTyped
<1>3. ArtifactTyped'
  <2>1. CallRec \subseteq CallRec'
    BY <1>1, <1>2 DEF CallRec
  <2>2. FilesTyped(files)'
    BY <1>0, <1>1, <1>2 DEF ArtifactTyped, FilesTyped
  <2>3. cached' \in [id : 1..ids \cup {NoId}, since : 0..now]'
    BY <1>0, <1>1, <1>2 DEF ArtifactTyped
  <2> HIDE DEF CallRec
  <2> QED BY <1>0, <1>1, <1>2, <2>1, <2>2, <2>3 DEF ArtifactTyped
<1>4. OwnOutput' /\ OutputWhole'
  BY <1>0, <1>1 DEF OwnOutput, OutputWhole
<1>5. MemoryKept(files)'
  <2>1. cached.since \in Nat
    BY <1>0 DEF ArtifactTyped
  <2> QED BY <1>0, <1>1, <1>2, <2>1, TimeAssumption DEF MemoryKept
<1>6. CallsKept'
  <2> SUFFICES ASSUME NEW c \in Calls PROVE NeedsKept(call'[c], files') /\ WaitKept(call'[c], now', ids')
    BY DEF CallsKept
  <2>1. NeedsKept(call[c], files) /\ WaitKept(call[c], now, ids) /\ call[c].since \in Nat
    BY <1>0, <1>2 DEF CallsKept, CallRec
  <2>2. call[c].pc \notin {"start", "done", "failed"} => now' <= call[c].since + Timeout
    BY <1>1, <1>2, <2>1, TimeAssumption
  <2> QED BY <1>1, <2>1, <2>2 DEF WaitKept
<1> QED BY <1>3, <1>4, <1>5, <1>6 DEF ArtifactInv

\* A call may fail at any time.
LEMMA GiveUpStep ==
  ASSUME ArtifactInv, NEW c \in Calls, GiveUp(c)
  PROVE  ArtifactInv'
BY ToStep DEF GiveUp

\* The invariant of the files on the worker, of what the client remembers and
\* of how long calls wait.
THEOREM ArtifactInvariant == ArtifactSpec => []ArtifactInv
<1>1. ArtifactInit => ArtifactInv
  <2> SUFFICES ASSUME ArtifactInit PROVE ArtifactInv
    OBVIOUS
  <2> DEFINE new == [pc |-> "start", ref |-> NoId, out |-> NoId, since |-> 0, got |-> NoAudio]
  <2>0. /\ now = 0 /\ files = <<>> /\ ids = 0 /\ cached = [id |-> NoId, since |-> 0]
        /\ call = [c \in Calls |-> new] /\ output = [c \in Calls |-> NoAudio]
    BY DEF ArtifactInit
  <2>1. new \in CallRec /\ new.pc = "start" /\ new.out = NoId
    BY <2>0 DEF CallRec, Steps, Contents
  <2> HIDE DEF new
  <2>2. FilesTyped(files)
    BY <2>0 DEF FilesTyped
  <2>3. ArtifactTyped
    BY <2>0, <2>1, <2>2, FileIdAssumption DEF ArtifactTyped, Contents
  <2>4. OwnOutput /\ MemoryKept(files) /\ CallsKept /\ OutputWhole
    BY <2>0, <2>1 DEF OwnOutput, MemoryKept, CallsKept, NeedsKept, WaitKept, OutputWhole
  <2> QED BY <2>3, <2>4 DEF ArtifactInv
<1>2. ArtifactInv /\ [ArtifactNext]_artifactVars => ArtifactInv'
  <2> SUFFICES ASSUME ArtifactInv, [ArtifactNext]_artifactVars PROVE ArtifactInv'
    OBVIOUS
  <2>1. CASE ArtifactNext
    <3>1. \A c \in Calls : UseCached(c) \/ Upload(c) \/ Uploaded(c) \/ Synthesize(c) \/ Read(c) => ArtifactInv'
      BY UseCachedStep, UploadStep, UploadedStep, SynthesizeStep, ReadStep
    <3>2. \A c \in Calls : WriteAudio(c) \/ Download(c) \/ Keep(c) \/ Delete(c) \/ GiveUp(c) => ArtifactInv'
      BY WriteAudioStep, DownloadStep, KeepStep, DeleteStep, GiveUpStep
    <3>3. OtherRequest => ArtifactInv'
      BY OtherRequestStep DEF OtherRequest
    <3> QED BY <2>1, <3>1, <3>2, <3>3, TickStep DEF ArtifactNext
  <2>2. CASE UNCHANGED artifactVars
    BY <2>2 DEF artifactVars, ArtifactInv, ArtifactTyped, FilesTyped, CallRec, OwnOutput, MemoryKept, CallsKept,
                NeedsKept, WaitKept, OutputWhole
  <2> QED BY <2>1, <2>2
<1> QED BY <1>1, <1>2, PTL DEF ArtifactSpec

\* A reference is there when the worker reads it and the audio until it is
\* fetched, and what arrives is the whole audio of the call, for any times
\* with which an upload, a call and the memory of the client fit into the
\* worker's time to live.
THEOREM ArtifactsStay == ArtifactSpec => []ArtifactsKept
<1>1. ArtifactInv => ArtifactsKept
  <2> SUFFICES ASSUME ArtifactInv PROVE ArtifactsKept
    OBVIOUS
  <2>0. ArtifactTyped /\ CallsKept /\ OutputWhole /\ FilesTyped(files)
    BY DEF ArtifactInv, ArtifactTyped
  <2>1. ArtifactTypeOK
    <3>1. \A c \in Calls : call[c] \in CallRec
      BY <2>0 DEF ArtifactTyped
    <3> QED BY <2>0, <3>1 DEF ArtifactTyped, ArtifactTypeOK, FilesTyped, CallRec
  <2>2. KeptWhileNeeded
    BY <2>0 DEF CallsKept, NeedsKept, KeptWhileNeeded, There
  <2> QED BY <2>0, <2>1, <2>2 DEF ArtifactsKept
<1> QED BY <1>1, ArtifactInvariant, PTL

-----------------------------------------------------------------------------
(***************************************************************************)
(* The engines of a native process.                                        *)
(***************************************************************************)

Engines == {"gpt_webui", "gpt_api_v2", "index_v2"}

Places == {"gpu", "cpu", "split"}

\* What is recorded of an engine.
EngineRec(e) ==
  [at : [Fields(e) -> Places], alias : Places \cup {"same"}, declared : {"gpu", "cpu"}, map : Places, fits : BOOLEAN,
   original : {"none", "gpu"}, qwen : {"none", "gpu", "cpu"}, failed : BOOLEAN, home : [Fields(e) -> {"gpu", "cpu"}]]

\* The adapters are registered once each, and all of them before there is work.
AdapterTyped ==
  /\ expected \in Kinds
  /\ adapters \in Seq(expected) /\ \A i, j \in DOMAIN adapters : adapters[i] = adapters[j] => i = j
  /\ phase \notin {"starting", "closed"} => \A e \in expected : \E i \in DOMAIN adapters : adapters[i] = e
  /\ DOMAIN engine = expected /\ \A e \in expected : engine[e] \in EngineRec(e)
  /\ phase \in {"starting", "gpu", "moving", "cpu", "closed"} /\ target \in {"gpu", "cpu"}
  /\ shared \in BOOLEAN /\ stray \in BOOLEAN
  /\ turn \in [at : Nat \ {0}, step : Nat \ {0}]
  /\ phase # "closed" => failure.why = "none"

\* The adapter remembers where the application had put the engine.
Known(e, r) ==
  /\ r.original = "gpu" /\ (HasMap(e) => r.qwen # "none")
  /\ \A f \in Fields(e) : r.home[f] = RestoreDevice(r, f)

\* The engine is all on the device, or where it was on the GPU, and shows it.
Settled(e, r, device) ==
  /\ Known(e, r)
  /\ r.alias = "same" /\ ~r.failed /\ r.declared = device
  /\ r.at = IF device = "cpu" THEN [f \in Fields(e) |-> "cpu"] ELSE r.home
  /\ HasMap(e) => r.map = r.at["qwen_emo"]

Source == IF target = "cpu" THEN "gpu" ELSE "cpu"

\* Where the steps of an engine bind its references again; there are no others
\* in an engine that has none.
Rebinds == [gpt_webui |-> 6, gpt_api_v2 |-> 7, index_v2 |-> 0]

\* The engine whose turn it is or was or will be
TurnKept(i) ==
  LET e == adapters[i]
      r == engine[e]
  IN /\ i < turn.at => Settled(e, r, target)
     /\ i > turn.at \/ (i = turn.at /\ turn.step = 1) => Settled(e, r, Source) /\ (target = "gpu" => r.fits)
     /\ i = turn.at => /\ turn.step \in DOMAIN Visits[e] /\ Known(e, r)
                       /\ turn.step > Rebinds[e] => r.alias = "same"

PlacesKept ==
  /\ phase = "starting" => \A i \in DOMAIN adapters : Settled(adapters[i], engine[adapters[i]], "gpu")
  /\ phase = "gpu" => \A e \in expected : Settled(e, engine[e], "gpu")
  /\ phase = "cpu" => /\ ~stray /\ ~shared
                      /\ \A e \in expected : Settled(e, engine[e], "cpu") /\ engine[e].fits
  /\ phase = "moving" => \A i \in DOMAIN adapters : TurnKept(i)

AdapterInv == AdapterTyped /\ PlacesKept /\ RefusedUntouched

\* What the layouts and the orders of visits have in common.
LEMMA EngineFacts ==
  ASSUME NEW e \in Engines
  PROVE  /\ Len(Visits[e]) \in Nat \ {0} /\ DOMAIN Visits[e] = 1 .. Len(Visits[e])
         /\ Rebinds[e] \in Nat /\ Rebinds[e] < Len(Visits[e]) /\ (Rebinds[e] = 0 => Layout[e].aliases = {})
         /\ \A k \in 1 .. Len(Visits[e]) :
              /\ Visits[e][k] = "inventory" <=> k = 1
              /\ Visits[e][k] = "verify" <=> k = Len(Visits[e])
              /\ Visits[e][k] = "device_maps" => HasMap(e)
              /\ k = Rebinds[e] => Visits[e][k] = "aliases"
              /\ k > Rebinds[e] => Visits[e][k] # "set_device"
              /\ k > Rebinds[e] /\ Rebinds[e] # 0 => Visits[e][k] \notin Models(e)
<1>1. CASE e = "gpt_webui"
  <2>1. Visits[e] = <<"inventory", "t2s_model", "vq_model", "pe", "cache", "aliases", "caches", "devices", "verify">>
    BY <1>1 DEF Visits
  <2>2. Rebinds[e] = 6 /\ Models(e) = {"t2s_model", "vq_model"}
    BY <1>1 DEF Rebinds, Models, Layout, GptWebui
  <2> QED BY <2>1, <2>2
<1>2. CASE e = "gpt_api_v2"
  <2>1. Visits[e] = <<"inventory", "set_device", "t2s_model", "vits_model", "pe", "prompt_cache", "aliases", "caches",
                      "devices", "verify">>
    BY <1>2 DEF Visits
  <2>2. Rebinds[e] = 7 /\ Models(e) = {"t2s_model", "vits_model"}
    BY <1>2 DEF Rebinds, Models, Layout, GptApi
  <2> QED BY <2>1, <2>2
<1>3. CASE e = "index_v2"
  <2>1. Visits[e] = <<"inventory", "gpt", "qwen_emo", "cache_mel", "caches", "devices", "device_maps", "verify">>
    BY <1>3 DEF Visits
  <2>2. Rebinds[e] = 0 /\ Layout[e].aliases = {} /\ HasMap(e)
    BY <1>3 DEF Rebinds, Layout, Index, HasMap, Models
  <2> QED BY <2>1, <2>2
<1> QED BY <1>1, <1>2, <1>3 DEF Engines

\* The names of models are names of nothing else.
LEMMA NamesApart ==
  ASSUME NEW e \in Engines
  PROVE  /\ Models(e) \cap {"inventory", "set_device", "aliases", "caches", "devices", "device_maps", "verify"} = {}
         /\ Models(e) \subseteq Fields(e)
         /\ HasMap(e) <=> "qwen_emo" \in Models(e)
<1>1. /\ Layout["gpt_webui"].models = {"t2s_model", "vq_model"}
      /\ Layout["gpt_api_v2"].models = {"t2s_model", "vits_model"}
      /\ Layout["index_v2"].models = {"gpt", "qwen_emo"}
  BY DEF Layout, GptWebui, GptApi, Index
<1> QED BY <1>1 DEF Engines, Models, Fields, HasMap

\* Where a part of an engine goes is a place.
LEMMA DestTyped ==
  ASSUME NEW e \in Engines, NEW r \in EngineRec(e), Known(e, r), target \in {"gpu", "cpu"}, NEW f \in Fields(e)
  PROVE  Dest(r, f) \in Places
<1>1. r.home[f] = RestoreDevice(r, f) /\ r.home[f] \in Places
  BY DEF Known, EngineRec, Places
<1> QED BY <1>1 DEF Dest, Places

\* What was known stays so when neither history nor memory changes.
LEMMA KnownStays ==
  ASSUME NEW e \in Engines, NEW r, NEW s, Known(e, r), s.original = r.original, s.qwen = r.qwen, s.home = r.home
  PROVE  Known(e, s)
BY DEF Known, RestoreDevice

\* Moving models keeps an engine well formed, and what its adapter knows.
LEMMA MoveModelsFacts ==
  ASSUME NEW e \in Engines, NEW r \in EngineRec(e), Known(e, r), target \in {"gpu", "cpu"}, NEW S
  PROVE  LET m == MoveModels(e, r, S) IN
         /\ m \in EngineRec(e) /\ Known(e, m) /\ m.fits = r.fits
         /\ Layout[e].aliases = {} => m.alias = r.alias
<1> DEFINE old == {r.at[f] : f \in {g \in S \cap Layout[e].aliases : r.at[g] # Dest(r, g)}}
           where == [f \in Fields(e) |-> IF f \in S THEN Dest(r, f) ELSE r.at[f]]
           bound == IF r.alias = "same" /\ old # {} THEN CHOOSE d \in old : TRUE ELSE r.alias
           m == MoveModels(e, r, S)
<1>1. Layout[e].aliases \subseteq Fields(e)
  <2>1. /\ Layout["gpt_webui"].aliases \subseteq Layout["gpt_webui"].models
        /\ Layout["gpt_api_v2"].aliases \subseteq Layout["gpt_api_v2"].models
        /\ Layout["index_v2"].aliases \subseteq Layout["index_v2"].models
    BY DEF Layout, GptWebui, GptApi, Index, Aliases
  <2> QED BY <2>1 DEF Engines, Fields, Models
<1>2. r.at \in [Fields(e) -> Places] /\ r.alias \in Places \cup {"same"}
  BY DEF EngineRec
<1>3. where \in [Fields(e) -> Places]
  BY <1>2, DestTyped
<1>4. old \subseteq Places
  BY <1>1, <1>2
<1>5. bound \in Places \cup {"same"} /\ (Layout[e].aliases = {} => bound = r.alias)
  <2>1. old # {} => (CHOOSE d \in old : TRUE) \in old
    OBVIOUS
  <2>2. Layout[e].aliases = {} => old = {}
    OBVIOUS
  <2> HIDE DEF old
  <2> QED BY <1>2, <1>4, <2>1, <2>2
<1>6. m = [r EXCEPT !.at = where, !.alias = bound]
  <2>1. DOMAIN r.at = Fields(e)
    BY <1>2
  <2>2. m = [r EXCEPT !.at = [f \in DOMAIN r.at |-> IF f \in S THEN Dest(r, f) ELSE r.at[f]], !.alias = bound]
    BY DEF MoveModels
  <2> HIDE DEF m, bound
  <2> QED BY <2>1, <2>2
<1> HIDE DEF old, where, bound, m
<1>7. m \in EngineRec(e) /\ m.fits = r.fits /\ m.alias = bound /\ m.original = r.original /\ m.qwen = r.qwen /\ m.home = r.home
  BY <1>3, <1>5, <1>6 DEF EngineRec
<1>8. Known(e, m)
  BY <1>7, KnownStays
<1> QED BY <1>5, <1>7, <1>8 DEF m

\* What an adapter has seen once it has nothing new to remember.
LEMMA RememberedStays ==
  ASSUME NEW e \in Engines, NEW r \in EngineRec(e), Known(e, r)
  PROVE  Remembered(e, r) = r
<1>1. r.original # "none" /\ (HasMap(e) => r.qwen # "none")
  BY DEF Known
<1>2. Remembered(e, r) = [r EXCEPT !.original = r.original, !.qwen = r.qwen]
  BY <1>1 DEF Remembered
<1> QED BY <1>2 DEF EngineRec

\* A step of a transition keeps an engine well formed and what its adapter
\* knows; only a move of models parts it from its references, if it has any, and
\* the step that binds them again joins them.
LEMMA MovedFacts ==
  ASSUME NEW e \in Engines, NEW r \in EngineRec(e), Known(e, r), target \in {"gpu", "cpu"}, NEW s,
         s = "device_maps" => HasMap(e)
  PROVE  LET m == Moved(e, r, s) IN
         /\ m \in EngineRec(e) /\ Known(e, m) /\ m.fits = r.fits
         /\ s = "aliases" => m.alias = "same"
         /\ (s \notin Models(e) \cup {"set_device"} \/ (Layout[e].aliases = {} /\ s # "set_device")) /\ r.alias = "same"
              => m.alias = "same"
         /\ s = "verify" => m = [r EXCEPT !.failed = FALSE]
         /\ s = "inventory" => m = r
<1> DEFINE m == Moved(e, r, s)
           Good(q) == q \in EngineRec(e) /\ Known(e, q) /\ q.fits = r.fits
<1>0. Models(e) \cap {"inventory", "set_device", "aliases", "caches", "devices", "device_maps", "verify"} = {}
  BY NamesApart
<1>1. CASE s = "inventory"
  <2>1. m = r
    BY <1>0, <1>1, RememberedStays DEF Moved
  <2> QED BY <1>1, <2>1
<1>2. CASE s = "set_device"
  <2> DEFINE n == MoveModels(e, r, Models(e))
  <2>1. n \in EngineRec(e) /\ Known(e, n) /\ n.fits = r.fits /\ (Layout[e].aliases = {} => n.alias = r.alias)
    BY MoveModelsFacts
  <2>2. m = [n EXCEPT !.declared = target]
    BY <1>0, <1>2 DEF Moved, SetDevice
  <2> HIDE DEF n, m
  <2>3. /\ m \in EngineRec(e) /\ m.fits = n.fits /\ m.alias = n.alias
        /\ m.original = n.original /\ m.qwen = n.qwen /\ m.home = n.home
    BY <2>1, <2>2 DEF EngineRec
  <2>4. Known(e, m)
    BY <2>1, <2>3, KnownStays
  <2> QED BY <1>2, <2>1, <2>3, <2>4 DEF m
<1>3. CASE s \in Models(e)
  <2>1. m = MoveModels(e, r, {s})
    BY <1>0, <1>3 DEF Moved
  <2> HIDE DEF m
  <2>2. m \in EngineRec(e) /\ Known(e, m) /\ m.fits = r.fits /\ (Layout[e].aliases = {} => m.alias = r.alias)
    BY <2>1, MoveModelsFacts
  <2> QED BY <1>0, <1>3, <2>2 DEF m
<1>4. CASE s \in {"aliases", "devices", "verify", "caches"}
  <2>1. /\ s = "aliases" => m = [r EXCEPT !.alias = "same"]
        /\ s = "devices" => m = [r EXCEPT !.declared = target]
        /\ s = "verify" => m = [r EXCEPT !.failed = FALSE]
        /\ s = "caches" => m = r
    BY <1>0, <1>4 DEF Moved, Rebound
  <2> HIDE DEF m
  <2>2. /\ m \in EngineRec(e) /\ m.fits = r.fits /\ m.original = r.original /\ m.qwen = r.qwen /\ m.home = r.home
        /\ m.alias = IF s = "aliases" THEN "same" ELSE r.alias
    BY <1>4, <2>1 DEF EngineRec
  <2>3. Known(e, m)
    BY <2>2, KnownStays
  <2> QED BY <1>4, <2>1, <2>2, <2>3 DEF m
<1>5. CASE s = "device_maps"
  <2>1. m = [r EXCEPT !.map = Dest(r, "qwen_emo")]
    BY <1>0, <1>5 DEF Moved
  <2>2. Dest(r, "qwen_emo") \in Places
    BY <1>5, NamesApart, DestTyped
  <2> HIDE DEF m
  <2>3. /\ m \in EngineRec(e) /\ m.fits = r.fits /\ m.original = r.original /\ m.qwen = r.qwen /\ m.home = r.home
        /\ m.alias = r.alias
    BY <2>1, <2>2 DEF EngineRec
  <2>4. Known(e, m)
    BY <2>3, KnownStays
  <2> QED BY <1>5, <2>3, <2>4 DEF m
<1>6. CASE s \notin Models(e) \cup {"inventory", "set_device", "aliases", "caches", "devices", "device_maps", "verify"}
  <2> DEFINE where == [r.at EXCEPT ![s] = Dest(r, s)]
  <2>1. m = [r EXCEPT !.at = where]
    BY <1>6 DEF Moved, MoveTree
  <2>2. where \in [Fields(e) -> Places]
    <3>1. r.at \in [Fields(e) -> Places]
      BY DEF EngineRec
    <3>2. s \in Fields(e) => Dest(r, s) \in Places
      BY DestTyped
    <3> QED BY <3>1, <3>2
  <2> HIDE DEF m, where
  <2>3. /\ m \in EngineRec(e) /\ m.fits = r.fits /\ m.original = r.original /\ m.qwen = r.qwen /\ m.home = r.home
        /\ m.alias = r.alias
    BY <2>1, <2>2 DEF EngineRec
  <2>4. Known(e, m)
    BY <2>3, KnownStays
  <2> QED BY <1>6, <2>3, <2>4 DEF m
<1> QED BY <1>1, <1>2, <1>3, <1>4, <1>5, <1>6

\* An engine that is verified, with its references bound, is settled.
LEMMA VerifiedSettles ==
  ASSUME NEW e \in Engines, NEW r \in EngineRec(e), Known(e, r), NEW device \in {"gpu", "cpu"}, Verified(e, r, device),
         r.alias = "same"
  PROVE  Settled(e, r, device) /\ r.fits
<1>1. r.fits /\ ~r.failed /\ (HasMap(e) => r.map = r.at["qwen_emo"])
  BY DEF Verified, Supported, QwenFits
<1>2. Residency(e, r) = device
  BY DEF Verified
<1>3. r.at \in [Fields(e) -> Places] /\ r.home \in [Fields(e) -> {"gpu", "cpu"}]
  BY DEF EngineRec
<1>4. CASE device = "cpu"
  <2>1. AllCpu(e, r) /\ r.declared = "cpu"
    BY <1>2, <1>4 DEF Residency
  <2>2. r.at = [f \in Fields(e) |-> "cpu"]
    BY <1>3, <2>1 DEF AllCpu
  <2> QED BY <1>1, <1>4, <2>1, <2>2 DEF Settled
<1>5. CASE device = "gpu"
  <2>1. AllOriginal(e, r) /\ r.declared = r.original
    BY <1>2, <1>5 DEF Residency
  <2>2. r.at = r.home
    BY <1>3, <2>1 DEF AllOriginal, Known
  <2> QED BY <1>1, <1>5, <2>1, <2>2 DEF Settled, Known
<1> QED BY <1>4, <1>5

\* A settled engine that is supported shows it, so nobody refuses it.
LEMMA SettledSupported ==
  ASSUME NEW e \in Engines, NEW r \in EngineRec(e), NEW device \in {"gpu", "cpu"}, Settled(e, r, device), r.fits
  PROVE  Supported(e, r)
<1>1. r.original = "gpu" /\ r.declared = device
  BY DEF Settled, Known
<1>2. HasMap(e) => QwenFits(r)
  <2>1. r.map = r.at["qwen_emo"] \/ ~HasMap(e)
    BY DEF Settled
  <2>2. HasMap(e) => "qwen_emo" \in Fields(e)
    BY NamesApart
  <2>3. HasMap(e) => r.at["qwen_emo"] \in {"gpu", "cpu"}
    BY <2>2 DEF Settled, EngineRec
  <2> QED BY <2>1, <2>3 DEF QwenFits
<1> QED BY <1>1, <1>2 DEF Supported

\* A process has engines of the kinds there are.
LEMMA ExpectedEngines == AdapterTyped => \A e \in expected : e \in Engines
BY DEF AdapterTyped, Kinds, Engines

LEMMA NotLoadedTyped ==
  ASSUME NEW e \in Engines
  PROVE  NotLoaded(e) \in EngineRec(e)
BY DEF NotLoaded, EngineRec, Places

LEMMA AdaptersStart == AdapterInit => AdapterInv
<1> SUFFICES ASSUME AdapterInit PROVE AdapterInv
  OBVIOUS
<1> USE DEF AdapterInit
<1>1. \A e \in expected : e \in Engines
  BY DEF Kinds, Engines
<1>2. \A e \in expected : engine[e] \in EngineRec(e)
  BY <1>1, NotLoadedTyped
<1>3. adapters \in Seq(expected) /\ DOMAIN adapters = {}
  OBVIOUS
<1>4. turn \in [at : Nat \ {0}, step : Nat \ {0}]
  BY DEF FirstTurn
<1>5. AdapterTyped
  BY <1>2, <1>3, <1>4 DEF AdapterTyped
<1>6. PlacesKept
  BY <1>3 DEF PlacesKept
<1> QED BY <1>5, <1>6 DEF AdapterInv, RefusedUntouched

\* When the gate is closed, but for an engine that is refused, nothing is promised
\* any more.
LEMMA ClosedKeeps ==
  ASSUME AdapterInv, phase' = "closed", UNCHANGED <<expected, adapters, target>>,
         DOMAIN engine' = expected, \A e \in expected : engine'[e] \in EngineRec(e),
         shared' \in BOOLEAN, stray' \in BOOLEAN, turn' \in [at : Nat \ {0}, step : Nat \ {0}], failure'.why # "refused"
  PROVE  AdapterInv'
<1>1. AdapterTyped'
  BY DEF AdapterInv, AdapterTyped
<1>2. PlacesKept'
  BY DEF PlacesKept
<1> QED BY <1>1, <1>2 DEF AdapterInv, RefusedUntouched

\* What an application has loaded is well formed; when all of it is seen on the
\* GPU, but for what was loaded on the CPU, it is settled there.
LEMMA LoadedFacts ==
  ASSUME NEW e \in Engines, NEW where \in Placements(e), NEW fits \in BOOLEAN
  PROVE  LET seen == Remembered(e, LoadedAs(e, where, fits)) IN
         /\ seen \in EngineRec(e)
         /\ Verified(e, seen, "gpu") => Settled(e, seen, "gpu")
<1> DEFINE r == LoadedAs(e, where, fits)
           seen == Remembered(e, r)
<1>1. PICK g \in Models(e) \cup {"none"} : where = [f \in Fields(e) |-> IF f = g THEN "cpu" ELSE "gpu"]
  BY DEF Placements
<1>2. where \in [Fields(e) -> {"gpu", "cpu"}] /\ (HasMap(e) => where["qwen_emo"] \in {"gpu", "cpu"})
  BY <1>1, NamesApart
<1> DEFINE map == IF HasMap(e) THEN where["qwen_emo"] ELSE "gpu"
           qwen == IF HasMap(e) THEN where["qwen_emo"] ELSE "none"
<1>3. r = [NotLoaded(e) EXCEPT !.at = where, !.home = where, !.fits = fits, !.map = map]
  BY DEF LoadedAs, NotLoaded
<1>4. map \in Places /\ qwen \in {"none", "gpu", "cpu"} /\ (HasMap(e) => qwen # "none") /\ where \in [Fields(e) -> Places]
  BY <1>2 DEF Places
<1> HIDE DEF map
<1>5. /\ r.at = where /\ r.home = where /\ r.fits = fits /\ r.map = map /\ r.alias = "same" /\ r.declared = "gpu"
      /\ r.original = "none" /\ r.qwen = "none" /\ r.failed = FALSE
      /\ r = [at |-> where, alias |-> "same", declared |-> "gpu", map |-> map, fits |-> fits,
              original |-> "none", qwen |-> "none", failed |-> FALSE, home |-> where]
  <2> HIDE DEF r
  <2> QED BY <1>3 DEF NotLoaded
<1> HIDE DEF r
<1>6. seen = [r EXCEPT !.original = "gpu", !.qwen = qwen]
  BY <1>5 DEF Remembered
<1> HIDE DEF qwen
<1>7. seen = [at |-> where, alias |-> "same", declared |-> "gpu", map |-> map, fits |-> fits,
              original |-> "gpu", qwen |-> qwen, failed |-> FALSE, home |-> where]
  BY <1>5, <1>6
<1> HIDE DEF seen
<1>8. seen \in EngineRec(e)
  BY <1>2, <1>4, <1>7 DEF EngineRec, Places
<1>9. ASSUME Verified(e, seen, "gpu") PROVE Settled(e, seen, "gpu")
  <2>1. AllOriginal(e, seen)
    BY <1>7, <1>9 DEF Verified, Residency
  <2>2. Known(e, seen)
    BY <1>4, <1>7, <2>1 DEF Known, AllOriginal
  <2> QED BY <1>7, <1>8, <1>9, <2>2, VerifiedSettles
<1> QED BY <1>8, <1>9 DEF seen, r

\* An engine that is registered is settled on the GPU.
LEMMA RegisterKeeps ==
  ASSUME AdapterInv, NEW e \in expected, RegisterComponent(e)
  PROVE  AdapterInv'
<1>0. AdapterTyped /\ PlacesKept
  BY DEF AdapterInv
<1>1. e \in Engines
  BY <1>0, ExpectedEngines
<1>2. PICK where \in Placements(e), fits \in BOOLEAN :
        LET seen == Remembered(e, LoadedAs(e, where, fits)) IN
        /\ engine' = [engine EXCEPT ![e] = seen]
        /\ IF Verified(e, seen, "gpu")
           THEN /\ adapters' = Append(adapters, e)
                /\ phase' = (IF ToSet(adapters') = expected THEN "gpu" ELSE phase)
                /\ UNCHANGED failure
           ELSE Close("startup", e) /\ UNCHANGED adapters
  BY DEF RegisterComponent
<1> DEFINE seen == Remembered(e, LoadedAs(e, where, fits))
<1>3. seen \in EngineRec(e) /\ (Verified(e, seen, "gpu") => Settled(e, seen, "gpu"))
  BY <1>1, LoadedFacts
<1>4. /\ phase = "starting" /\ e \notin ToSet(adapters)
      /\ UNCHANGED <<expected, shared, stray, target, turn, uses>>
  BY DEF RegisterComponent
<1>5. DOMAIN engine' = expected /\ engine'[e] = seen /\ \A d \in expected \ {e} : engine'[d] = engine[d]
  BY <1>0, <1>2 DEF AdapterTyped
<1>6. engine' = [engine EXCEPT ![e] = seen] /\ IF Verified(e, seen, "gpu")
           THEN /\ adapters' = Append(adapters, e)
                /\ phase' = (IF ToSet(adapters') = expected THEN "gpu" ELSE phase)
                /\ UNCHANGED failure
           ELSE Close("startup", e) /\ UNCHANGED adapters
  BY <1>2
<1> HIDE DEF seen
<1>7. \A d \in expected : engine'[d] \in EngineRec(d)
  BY <1>0, <1>3, <1>5 DEF AdapterTyped
<1>8. CASE Verified(e, seen, "gpu")
  <2>1. Settled(e, seen, "gpu")
    BY <1>3, <1>8
  <2>2. /\ adapters' = Append(adapters, e) /\ failure' = failure
        /\ phase' = (IF ToSet(adapters') = expected THEN "gpu" ELSE "starting")
    BY <1>4, <1>6, <1>8
  <2>3. adapters \in Seq(expected) /\ \A i \in DOMAIN adapters : adapters[i] # e
    BY <1>0, <1>4 DEF AdapterTyped, ToSet
  <2>4. /\ adapters' \in Seq(expected) /\ DOMAIN adapters' = DOMAIN adapters \cup {Len(adapters) + 1}
        /\ DOMAIN adapters = 1 .. Len(adapters) /\ Len(adapters) \in Nat
        /\ adapters'[Len(adapters) + 1] = e /\ \A i \in DOMAIN adapters : adapters'[i] = adapters[i]
    BY <2>2, <2>3
  <2>5. \A i, j \in DOMAIN adapters' : adapters'[i] = adapters'[j] => i = j
    BY <1>0, <2>3, <2>4 DEF AdapterTyped
  <2>6. phase' = "gpu" => \A d \in expected : \E i \in DOMAIN adapters' : adapters'[i] = d
    BY <2>2 DEF ToSet
  <2>7. AdapterTyped'
    BY <1>0, <1>4, <1>5, <1>7, <2>2, <2>4, <2>5, <2>6 DEF AdapterTyped
  <2>8. \A i \in DOMAIN adapters' : Settled(adapters'[i], engine'[adapters'[i]], "gpu")
    BY <1>0, <1>4, <1>5, <2>1, <2>3, <2>4 DEF PlacesKept
  <2>9. phase' = "gpu" => \A d \in expected' : Settled(d, engine'[d], "gpu")
    BY <1>4, <2>6, <2>8
  <2>10. phase' \in {"starting", "gpu"}
    BY <2>2
  <2>11. PlacesKept'
    BY <2>8, <2>9, <2>10 DEF PlacesKept
  <2> QED BY <1>0, <1>4, <2>2, <2>7, <2>11 DEF AdapterInv, RefusedUntouched, AdapterTyped
<1>9. CASE ~Verified(e, seen, "gpu")
  <2>1. phase' = "closed" /\ failure' = [why |-> "startup", who |-> e] /\ adapters' = adapters
    BY <1>6, <1>9 DEF Close
  <2>2. shared' \in BOOLEAN /\ stray' \in BOOLEAN /\ turn' \in [at : Nat \ {0}, step : Nat \ {0}]
    BY <1>0, <1>4 DEF AdapterTyped
  <2> QED BY <1>4, <1>5, <1>7, <2>1, <2>2, ClosedKeeps
<1> QED BY <1>8, <1>9

\* An operation of the application leaves the parts of an engine where they are.
LEMMA UseKeeps ==
  ASSUME AdapterInv, NEW e \in expected, UseEngine(e)
  PROVE  AdapterInv'
<1>0. AdapterTyped /\ PlacesKept
  BY DEF AdapterInv
<1>1. PICK fits \in BOOLEAN : engine' = [engine EXCEPT ![e].fits = fits]
  BY DEF UseEngine
<1> DEFINE r == engine[e]
           s == [r EXCEPT !.fits = fits]
<1>2. r \in EngineRec(e)
  BY <1>0 DEF AdapterTyped
<1>3. DOMAIN engine' = expected /\ engine'[e] = s /\ \A d \in expected \ {e} : engine'[d] = engine[d]
  BY <1>0, <1>1 DEF AdapterTyped
<1> HIDE DEF r
<1>4. /\ s \in EngineRec(e) /\ s.original = r.original /\ s.qwen = r.qwen /\ s.home = r.home
      /\ s.alias = r.alias /\ s.failed = r.failed /\ s.declared = r.declared /\ s.at = r.at /\ s.map = r.map
  BY <1>2 DEF EngineRec
<1> HIDE DEF s
<1>5. /\ phase = "gpu" /\ phase' = "gpu" /\ shared' \in BOOLEAN /\ stray' \in BOOLEAN
      /\ UNCHANGED <<expected, adapters, target, turn, failure>>
  BY <1>0 DEF UseEngine, AdapterTyped
<1>6. AdapterTyped'
  BY <1>0, <1>3, <1>4, <1>5 DEF AdapterTyped
<1>7. Settled(e, s, "gpu")
  <2>1. Settled(e, r, "gpu")
    BY <1>0, <1>5 DEF PlacesKept, r
  <2>2. Known(e, s)
    BY <1>0, <1>4, <2>1, ExpectedEngines, KnownStays DEF Settled
  <2> QED BY <1>4, <2>1, <2>2 DEF Settled
<1>8. \A d \in expected : Settled(d, engine'[d], "gpu")
  BY <1>0, <1>3, <1>5, <1>7 DEF PlacesKept
<1> QED BY <1>0, <1>5, <1>6, <1>8 DEF AdapterInv, PlacesKept, RefusedUntouched, AdapterTyped

\* A transition begins from engines that are all settled where it takes them away.
LEMMA BeginKeeps ==
  ASSUME AdapterInv, OffloadIdle \/ Restore
  PROVE  AdapterInv'
<1>0. AdapterTyped /\ PlacesKept
  BY DEF AdapterInv
<1>1. /\ phase' = "moving" /\ turn' = FirstTurn /\ phase \in {"gpu", "cpu"} /\ target' \in {"gpu", "cpu"}
      /\ Source' = phase /\ (target' = "gpu" => phase = "cpu")
      /\ UNCHANGED <<expected, adapters, engine, shared, stray, failure>>
  BY DEF OffloadIdle, Restore, BeginTransition, Source
<1>2. turn' = [at |-> 1, step |-> 1] /\ turn' \in [at : Nat \ {0}, step : Nat \ {0}]
  BY <1>1 DEF FirstTurn
<1>3. AdapterTyped'
  BY <1>0, <1>1, <1>2 DEF AdapterTyped
<1>4. \A e \in expected : Settled(e, engine[e], phase) /\ (phase = "cpu" => engine[e].fits)
  BY <1>0, <1>1 DEF PlacesKept
<1>5. ASSUME NEW i \in DOMAIN adapters' PROVE TurnKept(i)'
  <2> DEFINE e == adapters[i]
  <2>1. e \in expected /\ e \in Engines /\ i \in Nat \ {0}
    BY <1>0, <1>1, <1>5, ExpectedEngines DEF AdapterTyped
  <2>2. Settled(e, engine[e], phase) /\ (phase = "cpu" => engine[e].fits)
    BY <1>4, <2>1
  <2>3. 1 \in DOMAIN Visits[e]
    BY <2>1, EngineFacts
  <2>4. Known(e, engine[e]) /\ engine[e].alias = "same"
    BY <2>2 DEF Settled
  <2>5. ~(i < turn'.at) /\ turn'.step = 1
    BY <1>2, <2>1
  <2> QED BY <1>1, <2>2, <2>3, <2>4, <2>5 DEF TurnKept
<1>6. PlacesKept'
  BY <1>1, <1>5 DEF PlacesKept
<1> QED BY <1>0, <1>1, <1>3, <1>6 DEF AdapterInv, RefusedUntouched, AdapterTyped

\* What is known of the engine whose turn it is
LEMMA WhoFacts ==
  ASSUME AdapterInv, Visiting
  PROVE  /\ phase = "moving" /\ turn.at \in DOMAIN adapters /\ Who \in expected /\ Who \in Engines
         /\ engine[Who] \in EngineRec(Who) /\ Known(Who, engine[Who])
         /\ turn.step \in 1 .. Len(Visits[Who]) /\ Len(Visits[Who]) \in Nat
         /\ turn.step > Rebinds[Who] => engine[Who].alias = "same"
         /\ turn.step = 1 => Settled(Who, engine[Who], Source) /\ (target = "gpu" => engine[Who].fits)
         /\ target \in {"gpu", "cpu"}
<1>1. AdapterTyped /\ PlacesKept
  BY DEF AdapterInv
<1>2. phase = "moving" /\ turn.at \in DOMAIN adapters /\ turn.at \in Nat
  <2>1. turn.at \in Nat \ {0} /\ adapters \in Seq(expected)
    BY <1>1 DEF AdapterTyped
  <2> QED BY <2>1 DEF Visiting
<1>3. Who \in expected
  BY <1>1, <1>2 DEF AdapterTyped, Who
<1>4. Who \in Engines
  BY <1>1, <1>3, ExpectedEngines
<1>5. TurnKept(turn.at)
  BY <1>1, <1>2 DEF PlacesKept
<1>6. engine[Who] \in EngineRec(Who) /\ target \in {"gpu", "cpu"}
  BY <1>1, <1>3 DEF AdapterTyped
<1>7. /\ turn.step \in DOMAIN Visits[Who] /\ Known(Who, engine[Who])
      /\ turn.step > Rebinds[Who] => engine[Who].alias = "same"
      /\ turn.step = 1 => Settled(Who, engine[Who], Source) /\ (target = "gpu" => engine[Who].fits)
  BY <1>5 DEF TurnKept, Who
<1> QED BY <1>2, <1>3, <1>4, <1>6, <1>7, EngineFacts

\* A step that is done leaves the other engines alone, and the turn passes on:
\* to the next step of the engine, or, once it is settled, to the next engine.
LEMMA TurnPasses ==
  ASSUME AdapterInv, Visiting, turn' = NextTurn, UNCHANGED <<expected, adapters, stray, phase, target, failure>>,
         shared' \in BOOLEAN, NEW m \in EngineRec(Who), Known(Who, m),
         DOMAIN engine' = expected, engine'[Who] = m, \A e \in expected \ {Who} : engine'[e] = engine[e],
         turn.step < Len(Visits[Who]) /\ turn.step + 1 > Rebinds[Who] => m.alias = "same",
         turn.step = Len(Visits[Who]) => Settled(Who, m, target)
  PROVE  AdapterInv'
<1>0. AdapterTyped /\ PlacesKept
  BY DEF AdapterInv
<1> DEFINE w == Who
           last == Len(Visits[w])
<1>1. /\ phase = "moving" /\ turn.at \in DOMAIN adapters /\ w \in expected
      /\ turn.step \in 1 .. last /\ last \in Nat /\ w = adapters[turn.at]
  BY WhoFacts DEF Who
<1>2. turn.at \in Nat \ {0} /\ turn.step \in Nat \ {0} /\ turn \in [at : Nat \ {0}, step : Nat \ {0}]
  BY <1>0 DEF AdapterTyped
<1>3. DOMAIN engine' = expected /\ engine'[w] = m /\ \A e \in expected \ {w} : engine'[e] = engine[e]
  OBVIOUS
<1>4. \/ turn.step < last /\ turn'.at = turn.at /\ turn'.step = turn.step + 1
      \/ turn.step = last /\ turn'.at = turn.at + 1 /\ turn'.step = 1
  <2>1. turn' = IF turn.step < last THEN [turn EXCEPT !.step = @ + 1] ELSE [at |-> turn.at + 1, step |-> 1]
    BY DEF NextTurn
  <2> QED BY <1>1, <1>2, <2>1
<1>5. turn' \in [at : Nat \ {0}, step : Nat \ {0}]
  <2>1. turn' = IF turn.step < last THEN [turn EXCEPT !.step = @ + 1] ELSE [at |-> turn.at + 1, step |-> 1]
    BY DEF NextTurn
  <2> QED BY <1>2, <2>1
<1>6. AdapterTyped'
  <2>1. \A e \in expected : engine'[e] \in EngineRec(e)
    BY <1>0, <1>3 DEF AdapterTyped
  <2> QED BY <1>0, <1>3, <1>5, <2>1 DEF AdapterTyped
<1>7. ASSUME NEW i \in DOMAIN adapters PROVE TurnKept(i)'
  <2>1. TurnKept(i) /\ i \in Nat \ {0} /\ adapters[i] \in expected /\ adapters[i] \in Engines
    BY <1>0, <1>1, ExpectedEngines DEF PlacesKept, AdapterTyped
  <2>2. adapters' = adapters /\ target' = target /\ Source' = Source
    BY DEF Source
  <2>3. CASE i = turn.at
    <3>1. adapters[i] = w /\ engine'[adapters[i]] = m
      BY <1>1, <1>3, <2>3
    <3>2. last = Len(Visits[w]) /\ DOMAIN Visits[w] = 1 .. last
      BY <1>1, <2>1, <3>1, EngineFacts
    <3>3. CASE turn.step < last
      <4>1. turn'.at = i /\ turn'.step = turn.step + 1
        BY <1>4, <2>3, <3>3
      <4>2. turn'.step \in DOMAIN Visits[w] /\ (turn'.step > Rebinds[w] => m.alias = "same") /\ turn'.step # 1
        BY <1>1, <1>2, <3>2, <3>3, <4>1
      <4> QED BY <1>2, <2>1, <2>2, <3>1, <4>1, <4>2 DEF TurnKept
    <3>4. CASE turn.step = last
      <4>1. turn'.at = i + 1
        BY <1>1, <1>4, <2>3, <3>4
      <4>2. i < turn'.at /\ ~(i > turn'.at) /\ i # turn'.at
        BY <2>1, <4>1
      <4>3. Settled(w, m, target)
        BY <3>4
      <4> QED BY <2>2, <3>1, <4>2, <4>3 DEF TurnKept
    <3> QED BY <1>1, <3>3, <3>4
  <2>4. CASE i # turn.at
    <3>1. adapters[i] # w
      BY <1>0, <1>1, <2>4 DEF AdapterTyped
    <3>2. engine'[adapters[i]] = engine[adapters[i]]
      BY <1>3, <2>1, <3>1
    <3>3. CASE i < turn.at
      <4>1. i < turn'.at /\ ~(i > turn'.at) /\ i # turn'.at
        BY <1>2, <1>4, <2>1, <3>3
      <4> QED BY <2>1, <2>2, <3>2, <3>3, <4>1 DEF TurnKept
    <3>4. CASE i > turn.at
      <4>1. ~(i < turn'.at) /\ (i > turn'.at \/ (i = turn'.at /\ turn'.step = 1))
        BY <1>2, <1>4, <2>1, <3>4
      <4>2. /\ Settled(adapters[i], engine[adapters[i]], Source) /\ (target = "gpu" => engine[adapters[i]].fits)
        BY <2>1, <3>4 DEF TurnKept
      <4>3. Known(adapters[i], engine[adapters[i]]) /\ engine[adapters[i]].alias = "same"
        BY <4>2 DEF Settled
      <4>4. i = turn'.at => turn'.step \in DOMAIN Visits[adapters[i]]
        BY <2>1, <4>1, EngineFacts
      <4> QED BY <2>2, <3>2, <4>1, <4>2, <4>3, <4>4 DEF TurnKept
    <3> QED BY <1>2, <2>1, <2>4, <3>3, <3>4
  <2> QED BY <2>3, <2>4
<1>8. PlacesKept'
  BY <1>1, <1>7 DEF PlacesKept
<1> QED BY <1>0, <1>1, <1>6, <1>8 DEF AdapterInv, RefusedUntouched, AdapterTyped

\* A step of a transition, the last and verified one too
LEMMA VisitKeeps ==
  ASSUME AdapterInv, Visit
  PROVE  AdapterInv'
<1> DEFINE w == Who
           r == engine[w]
           s == What
           m == Moved(w, r, s)
<1>1. Visiting /\ turn' = NextTurn /\ UNCHANGED <<expected, adapters, stray, phase, target, failure>>
  BY DEF Visit
<1>2. /\ w \in expected /\ w \in Engines /\ r \in EngineRec(w) /\ Known(w, r) /\ target \in {"gpu", "cpu"}
      /\ turn.step \in 1 .. Len(Visits[w]) /\ Len(Visits[w]) \in Nat /\ (turn.step > Rebinds[w] => r.alias = "same")
  BY <1>1, WhoFacts
<1>3. s = Visits[w][turn.step]
  BY DEF What
<1>4. engine' = [engine EXCEPT ![w] = m] /\ (s = "verify" => Verified(w, engine'[w], target)) /\ shared' \in BOOLEAN
  BY DEF Visit
<1>5. DOMAIN engine' = expected /\ engine'[w] = m /\ \A e \in expected \ {w} : engine'[e] = engine[e]
  BY <1>2, <1>4 DEF AdapterInv, AdapterTyped
<1> HIDE DEF w, r, s
<1>6. /\ s = "device_maps" => HasMap(w)
      /\ s = "verify" <=> turn.step = Len(Visits[w])
      /\ turn.step = Rebinds[w] => s = "aliases"
      /\ turn.step > Rebinds[w] => s # "set_device"
      /\ turn.step > Rebinds[w] /\ Rebinds[w] # 0 => s \notin Models(w)
      /\ Rebinds[w] = 0 => Layout[w].aliases = {}
      /\ Rebinds[w] \in Nat /\ Rebinds[w] < Len(Visits[w])
  BY <1>2, <1>3, EngineFacts
<1>7. /\ m \in EngineRec(w) /\ Known(w, m)
      /\ s = "aliases" => m.alias = "same"
      /\ (s \notin Models(w) \cup {"set_device"} \/ (Layout[w].aliases = {} /\ s # "set_device")) /\ r.alias = "same"
           => m.alias = "same"
  BY <1>2, <1>6, MovedFacts
<1> HIDE DEF m
<1>8. turn.step > Rebinds[w] => m.alias = "same"
  BY <1>2, <1>6, <1>7
<1>9. turn.step < Len(Visits[w]) /\ turn.step + 1 > Rebinds[w] => m.alias = "same"
  BY <1>2, <1>6, <1>7, <1>8
<1>10. turn.step = Len(Visits[w]) => Settled(w, m, target)
  BY <1>2, <1>4, <1>5, <1>6, <1>7, <1>8, VerifiedSettles
<1> QED BY <1>1, <1>4, <1>5, <1>7, <1>9, <1>10, TurnPasses DEF w

\* A move that does nothing leaves its references bound if they were.
LEMMA SkipKeeps ==
  ASSUME AdapterInv, SkipsSilently
  PROVE  AdapterInv'
<1> DEFINE w == Who
           r == engine[w]
<1>1. /\ Visiting /\ turn' = NextTurn /\ UNCHANGED <<expected, adapters, stray, phase, target, failure>>
      /\ engine' = engine /\ shared' = shared /\ Visits[w][turn.step] \in Models(w)
  BY DEF SkipsSilently, What
<1>2. /\ w \in expected /\ w \in Engines /\ r \in EngineRec(w) /\ Known(w, r)
      /\ turn.step \in 1 .. Len(Visits[w]) /\ Len(Visits[w]) \in Nat /\ (turn.step > Rebinds[w] => r.alias = "same")
  BY <1>1, WhoFacts
<1>3. /\ shared' \in BOOLEAN /\ DOMAIN engine' = expected /\ engine'[w] = r
      /\ \A e \in expected \ {w} : engine'[e] = engine[e]
  BY <1>1, <1>2 DEF AdapterInv, AdapterTyped
<1>4. Visits[w][turn.step] \notin {"verify", "aliases"}
  BY <1>1, <1>2, NamesApart
<1>5. turn.step # Len(Visits[w]) /\ turn.step # Rebinds[w] /\ Rebinds[w] \in Nat
  BY <1>2, <1>4, EngineFacts
<1> HIDE DEF w, r
<1>6. turn.step < Len(Visits[w]) /\ turn.step + 1 > Rebinds[w] => r.alias = "same"
  BY <1>2, <1>5
<1> QED BY <1>1, <1>2, <1>3, <1>5, <1>6, TurnPasses DEF w, r

\* Only an engine that was all on the GPU is refused.
LEMMA RefuseKeeps ==
  ASSUME AdapterInv, Refuse
  PROVE  AdapterInv'
<1> DEFINE w == Who
           r == engine[w]
<1>1. /\ Visiting /\ Visits[w][turn.step] = "inventory" /\ ~Supported(w, r)
      /\ phase' = "closed" /\ failure' = [why |-> "refused", who |-> w]
      /\ UNCHANGED <<expected, adapters, engine, shared, stray, target, turn, uses>>
  BY DEF Refuse, What, Close
<1>2. /\ w \in Engines /\ r \in EngineRec(w) /\ turn.step \in 1 .. Len(Visits[w]) /\ target \in {"gpu", "cpu"}
      /\ turn.step = 1 => Settled(w, r, Source) /\ (target = "gpu" => r.fits)
  BY <1>1, WhoFacts
<1>3. turn.step = 1
  BY <1>1, <1>2, EngineFacts
<1> HIDE DEF w, r
<1>4. Source \in {"gpu", "cpu"}
  BY DEF Source
<1>5. target # "gpu"
  BY <1>1, <1>2, <1>3, <1>4, SettledSupported
<1>6. Settled(w, r, "gpu")
  BY <1>2, <1>3, <1>5 DEF Source
<1>7. r.alias = "same" /\ r.at = r.home /\ r.declared = "gpu"
  BY <1>6 DEF Settled
<1>8. RefusedUntouched'
  BY <1>1, <1>7 DEF RefusedUntouched, Intact, r
<1>9. AdapterTyped'
  BY <1>1 DEF AdapterInv, AdapterTyped
<1>10. PlacesKept'
  BY <1>1 DEF PlacesKept
<1> QED BY <1>8, <1>9, <1>10 DEF AdapterInv

\* A call that raises, and an engine that is not where it should be, close the gate.
LEMMA BrokenKeeps ==
  ASSUME AdapterInv, Breaks \/ Mistrust
  PROVE  AdapterInv'
<1> DEFINE w == Who
           r == engine[w]
<1>1. /\ Visiting /\ phase' = "closed" /\ failure'.why # "refused"
      /\ UNCHANGED <<expected, adapters, shared, stray, target, turn, uses>>
  BY DEF Breaks, Mistrust, Close
<1>2. /\ w \in expected /\ r \in EngineRec(w)
      /\ shared \in BOOLEAN /\ stray \in BOOLEAN /\ turn \in [at : Nat \ {0}, step : Nat \ {0}]
  BY <1>1, WhoFacts DEF AdapterInv, AdapterTyped
<1>3. \E m \in EngineRec(w) : engine' = [engine EXCEPT ![w] = m]
  <2>1. CASE Breaks
    <3>1. PICK split \in SUBSET (Models(w) \cap {What}) :
            engine' = [engine EXCEPT ![w].failed = TRUE,
                                     ![w].at = [f \in DOMAIN @ |-> IF f \in split THEN "split" ELSE @[f]]]
      BY <2>1 DEF Breaks
    <3> DEFINE where == [f \in DOMAIN r.at |-> IF f \in split THEN "split" ELSE r.at[f]]
               m == [r EXCEPT !.failed = TRUE, !.at = where]
    <3>2. where \in [Fields(w) -> Places]
      BY <1>2 DEF EngineRec, Places
    <3>3. engine' = [engine EXCEPT ![w] = m]
      BY <1>2, <3>1 DEF EngineRec
    <3> HIDE DEF where
    <3>4. m \in EngineRec(w)
      BY <1>2, <3>2 DEF EngineRec
    <3> QED BY <3>3, <3>4
  <2>2. CASE Mistrust
    <3> DEFINE m == [r EXCEPT !.failed = TRUE]
    <3>1. engine' = [engine EXCEPT ![w] = m]
      BY <2>2 DEF Mistrust
    <3>2. m \in EngineRec(w)
      BY <1>2 DEF EngineRec
    <3> QED BY <3>1, <3>2
  <2> QED BY <2>1, <2>2
<1>4. DOMAIN engine' = expected /\ \A e \in expected : engine'[e] \in EngineRec(e)
  BY <1>2, <1>3 DEF AdapterInv, AdapterTyped
<1> QED BY <1>1, <1>2, <1>4, ClosedKeeps

\* When the last engine has been visited each is settled, and what is reported is so.
LEMMA AllMovedKeeps ==
  ASSUME AdapterInv, AllMoved
  PROVE  AdapterInv'
<1>0. AdapterTyped /\ PlacesKept
  BY DEF AdapterInv
<1>1. /\ phase = "moving" /\ turn.at > Len(adapters) /\ turn' = FirstTurn
      /\ UNCHANGED <<expected, adapters, engine, shared, stray, target, uses>>
  BY DEF AllMoved
<1>2. turn' \in [at : Nat \ {0}, step : Nat \ {0}]
  BY <1>1 DEF FirstTurn
<1>3. ASSUME NEW e \in expected PROVE Settled(e, engine[e], target)
  <2>1. PICK i \in DOMAIN adapters : adapters[i] = e
    BY <1>0, <1>1 DEF AdapterTyped
  <2>2. adapters \in Seq(expected) /\ turn.at \in Nat
    BY <1>0 DEF AdapterTyped
  <2>3. i < turn.at
    BY <1>1, <2>1, <2>2
  <2> QED BY <1>0, <1>1, <2>1, <2>3 DEF PlacesKept, TurnKept
<1>4. CASE target = "gpu" \/ StillAway
  <2>1. phase' = target /\ failure' = failure
    BY <1>4 DEF AllMoved
  <2>2. target = "cpu" => ~stray /\ ~shared /\ \A e \in expected : engine[e].fits
    BY <1>4 DEF StillAway, MemoryAllocated, Verified, Supported
  <2>3. target \in {"gpu", "cpu"}
    BY <1>0 DEF AdapterTyped
  <2>4. AdapterTyped'
    BY <1>0, <1>1, <1>2, <2>1, <2>3 DEF AdapterTyped
  <2>5. PlacesKept'
    BY <1>1, <1>3, <2>1, <2>2, <2>3 DEF PlacesKept
  <2> QED BY <1>0, <1>1, <2>1, <2>4, <2>5 DEF AdapterInv, RefusedUntouched, AdapterTyped
<1>5. CASE ~(target = "gpu" \/ StillAway)
  <2>1. phase' = "closed" /\ failure'.why # "refused"
    BY <1>5 DEF AllMoved, Close
  <2> QED BY <1>0, <1>1, <1>2, <2>1, ClosedKeeps DEF AdapterTyped
<1> QED BY <1>4, <1>5

LEMMA AdapterStep == AdapterInv /\ [AdapterNext]_adapterVars => AdapterInv'
<1> SUFFICES ASSUME AdapterInv, [AdapterNext]_adapterVars PROVE AdapterInv'
  OBVIOUS
<1>1. CASE \E e \in expected : RegisterComponent(e) \/ UseEngine(e)
  BY <1>1, RegisterKeeps, UseKeeps
<1>2. CASE OffloadIdle \/ Restore
  BY <1>2, BeginKeeps
<1>3. CASE Visit
  BY <1>3, VisitKeeps
<1>4. CASE Refuse
  BY <1>4, RefuseKeeps
<1>5. CASE Breaks \/ Mistrust
  BY <1>5, BrokenKeeps
<1>6. CASE SkipsSilently
  BY <1>6, SkipKeeps
<1>7. CASE AllMoved
  BY <1>7, AllMovedKeeps
<1>8. CASE UNCHANGED adapterVars
  <2>1. /\ AdapterTyped' /\ RefusedUntouched'
    BY <1>8 DEF adapterVars, AdapterInv, AdapterTyped, RefusedUntouched
  <2>2. PlacesKept'
    BY <1>8 DEF adapterVars, AdapterInv, PlacesKept, TurnKept, Source
  <2> QED BY <2>1, <2>2 DEF AdapterInv
<1> QED BY <1>1, <1>2, <1>3, <1>4, <1>5, <1>6, <1>7, <1>8 DEF AdapterNext

\* The invariant the engines' guarantee rests on: who is where during a move of all.
THEOREM AdapterInvariant == AdapterSpec => []AdapterInv
BY AdaptersStart, AdapterStep, PTL DEF AdapterSpec

LEMMA WholeFromInv == AdapterInv => EnginesWhole
<1> SUFFICES ASSUME AdapterInv PROVE EnginesWhole
  OBVIOUS
<1>1. AdapterTyped /\ PlacesKept /\ RefusedUntouched
  BY DEF AdapterInv
<1>2. ASSUME phase = "gpu", NEW e \in expected
      PROVE  /\ Intact(engine[e], engine[e].home)
             /\ engine[e].declared = "gpu" /\ (HasMap(e) => engine[e].map = engine[e].home["qwen_emo"])
  <2>1. Settled(e, engine[e], "gpu")
    BY <1>1, <1>2 DEF PlacesKept
  <2> QED BY <2>1 DEF Settled, Intact
<1>3. ASSUME phase = "cpu"
      PROVE  /\ ~stray /\ ~shared
             /\ \A e \in expected : Intact(engine[e], [f \in Fields(e) |-> "cpu"]) /\ engine[e].declared = "cpu"
  BY <1>1, <1>3 DEF PlacesKept, Settled, Intact
<1> QED BY <1>1, <1>2, <1>3 DEF EnginesWhole, ServesWhole, CpuMeansAway

\* Whatever was moved away and back, and whatever failed or was skipped on the way:
\* an engine that works is as its application left it, a process that reports the
\* CPU holds nothing on the GPU, and an engine that is refused was not touched
\* (guard.py:152-166, adapters.py:517-578).
THEOREM EnginesStayWhole == AdapterSpec => []EnginesWhole
BY AdapterInvariant, WholeFromInv, PTL

-----------------------------------------------------------------------------
(***************************************************************************)
(* The voices that workers hold.                                           *)
(***************************************************************************)

AtWork == {"evict", "load", "speak", "speaking"}
Helds == Voices \cup {NoVoice, Plain, Mixed}

\* What a queue keeps, and what is known of a job: its routes are there once it
\* has begun.
QueueRec == [inside : SUBSET Jobs, remembers : [Services -> Voices \cup {NoVoice}],
             active : [Groups -> Services \cup {NoService}]]
RoutesMade == {<<>>} \cup UNION {[DOMAIN Clusters[j] -> Services \cup {NoService}] : j \in Jobs}
JobRec == [pc : AtWork \cup {"start", "waiting", "failed", "cancelled", "done"}, queue : Nat, routes : RoutesMade,
           cluster : Nat, line : Nat, hears : Helds]

\* A job that waits or works has a service for each of its clusters, and is at
\* one of their lines.
Placed(j, f) ==
  /\ f.pc = "start" => f.cluster = 1 /\ f.line = 1
  /\ f.pc \in AtWork \cup {"waiting"} =>
       /\ f.routes \in [DOMAIN Clusters[j] -> Services]
       /\ f.cluster \in DOMAIN Clusters[j]
       /\ f.line \in DOMAIN Clusters[j][f.cluster].voices

WorkersTyped == ready \subseteq Services /\ spoilt \subseteq Services /\ holds \in [Services -> Helds]

QueuesTyped ==
  /\ queues \in Seq(QueueRec) /\ queues # <<>>
  /\ \A q \in DOMAIN queues : IsFiniteSet(queues[q].inside)

JobsTyped ==
  /\ job \in [Jobs -> JobRec]
  /\ \A j \in Jobs : job[j].queue \in DOMAIN queues /\ Placed(j, job[j])

\* A slot is held from entering a cluster to leaving it.
SectionsKept ==
  \A q \in DOMAIN queues : queues[q].inside = {j \in Jobs : job[j].queue = q /\ job[j].pc \in AtWork}

\* Nobody else of the queue is in the one slot of j's group.
Lone(j) ==
  Capacity[GroupOf(j)] = 1 =>
    \A k \in Jobs \ {j} : job[k].pc \in AtWork /\ Queue(k) = Queue(j) => GroupOf(k) # GroupOf(j)

SlotsKept == \A j \in Jobs : job[j].pc \in AtWork => Lone(j)

\* The service a queue knows to be active in a group is of that group.
ActiveKept ==
  \A q \in DOMAIN queues : \A g \in Groups :
    queues[q].active[g] # NoService => queues[q].active[g] \in Services /\ Group[queues[q].active[g]] = g

\* While there is one queue it knows of an unspoilt service what it holds, and
\* that it is the active one if it holds anything.
ServiceKept(s) ==
  s \notin spoilt =>
    /\ queues[1].remembers[s] \in {NoVoice, holds[s]}
    /\ holds[s] # NoVoice => queues[1].active[Group[s]] = s

\* A job has the other service of its group out of the way before it loads, and
\* its own voice before it speaks, unless its worker is spoilt meanwhile.
VoiceKept(j) ==
  /\ job[j].pc = "load" => Active(j) \in {NoService, Route(j)}
  /\ job[j].pc \in {"speak", "speaking"} => Active(j) = Route(j)
  /\ job[j].pc \in {"speak", "speaking"} /\ Route(j) \notin spoilt => holds[Route(j)] = Voice(j)
  /\ job[j].pc = "speaking" /\ Route(j) \notin spoilt => job[j].hears = Voice(j)

VoicesKept ==
  Len(queues) = 1 =>
    /\ \A s \in Services : Capacity[Group[s]] = 1 => ServiceKept(s)
    /\ \A j \in Jobs : job[j].pc \in AtWork /\ Capacity[GroupOf(j)] = 1 => VoiceKept(j)

ResidencyShape == WorkersTyped /\ QueuesTyped /\ JobsTyped /\ SectionsKept /\ SlotsKept /\ ActiveKept
ResidencyInv == ResidencyShape /\ VoicesKept /\ RightVoiceUnlessSpoilt

-----------------------------------------------------------------------------
\* What the invariant says of a job that waits or works.
LEMMA JobFacts ==
  ASSUME ResidencyShape, NEW j \in Jobs, job[j].pc \in AtWork \cup {"waiting"}
  PROVE  /\ Queue(j) \in DOMAIN queues /\ Route(j) \in Services /\ GroupOf(j) \in Groups
         /\ Voice(j) \in Voices /\ Voice(j) # NoVoice
         /\ queues[Queue(j)] \in QueueRec
         /\ Active(j) \in Services \cup {NoService}
         /\ Active(j) # NoService => Group[Active(j)] = GroupOf(j)
<1>1. /\ Queue(j) \in DOMAIN queues /\ Placed(j, job[j])
  BY DEF ResidencyShape, JobsTyped, Queue
<1>2. /\ job[j].routes \in [DOMAIN Clusters[j] -> Services]
      /\ job[j].cluster \in DOMAIN Clusters[j]
      /\ job[j].line \in DOMAIN Clusters[j][job[j].cluster].voices
  BY <1>1 DEF Placed
<1>3. Route(j) \in Services /\ GroupOf(j) \in Groups
  BY <1>2 DEF Route, GroupOf, Groups
<1>4. Clusters[j][job[j].cluster].voices \in Seq(Voices)
  <2>. DEFINE Rec == [named : Seq(Services), bound : BOOLEAN, reach : SUBSET Services, voices : Seq(Voices)]
  <2>1. Clusters[j] \in Seq(Rec)
    BY ClusterAssumption
  <2>. HIDE DEF Rec
  <2>2. Clusters[j][job[j].cluster] \in Rec
    BY <2>1, <1>2
  <2>. QED
    BY <2>2 DEF Rec
<1>5. Voice(j) \in Voices
  BY <1>2, <1>4 DEF Voice, Cluster
<1>6. queues[Queue(j)] \in QueueRec
  BY <1>1 DEF ResidencyShape, QueuesTyped
<1>7. Active(j) \in Services \cup {NoService}
  BY <1>6, <1>3 DEF QueueRec, Active
<1>8. Active(j) # NoService => Group[Active(j)] = GroupOf(j)
  BY <1>1, <1>3 DEF ResidencyShape, ActiveKept, Active
<1>. QED
  BY <1>1, <1>3, <1>5, <1>6, <1>7, <1>8, VoiceAssumption


\* While there is one queue every job is of it.
LEMMA OneQueue ==
  ASSUME ResidencyShape, Len(queues) = 1, NEW j \in Jobs
  PROVE  Queue(j) = 1
<1>1. queues \in Seq(QueueRec) /\ Queue(j) \in DOMAIN queues
  BY DEF ResidencyShape, QueuesTyped, JobsTyped, Queue
<1>2. DOMAIN queues = 1..1
  BY <1>1
<1>. QED
  BY <1>1, <1>2

\* Two records of a job that differ in the voice it hears at most
SameTurn(f, e) == f.pc = e.pc /\ f.queue = e.queue /\ f.routes = e.routes /\ f.cluster = e.cluster /\ f.line = e.line

\* Where a job is and what it works with are the same for two such records.
LEMMA SamePlace ==
  ASSUME NEW k, SameTurn(job'[k], job[k])
  PROVE  /\ (job[k].pc)' = job[k].pc /\ Queue(k)' = Queue(k) /\ Route(k)' = Route(k) /\ GroupOf(k)' = GroupOf(k)
         /\ Voice(k)' = Voice(k) /\ (Placed(k, job[k]) => Placed(k, job[k])')
BY DEF SameTurn, Queue, Route, GroupOf, Voice, Cluster, Placed

\* The services a record has for active are those of the groups, as before.
ActiveFits(j, r) ==
  \A g \in Groups : \/ r.active[g] \in {NoService, queues[Queue(j)].active[g]}
                    \/ r.active[g] \in Services /\ Group[r.active[g]] = g

\* A job's turn leaves the shape of everything as it was, if it stays on its
\* service for as long as it has the slot.
LEMMA TurnShape ==
  ASSUME ResidencyShape, WorkersTyped', NEW j \in Jobs, NEW f, NEW r,
         job[j].pc \in AtWork \cup {"waiting"},
         f \in JobRec, f.queue = Queue(j), Placed(j, f),
         r \in QueueRec, queues' = [queues EXCEPT ![Queue(j)] = r],
         r.inside = IF f.pc \in AtWork THEN queues[Queue(j)].inside \cup {j} ELSE queues[Queue(j)].inside \ {j},
         ActiveFits(j, r),
         job' \in [Jobs -> JobRec], job'[j] = f, \A k \in Jobs \ {j} : SameTurn(job'[k], job[k]),
         f.pc \in AtWork => Lone(j) /\ f.routes[f.cluster] = Route(j)
  PROVE  ResidencyShape'
<1>1. Queue(j) \in DOMAIN queues
  BY JobFacts
<1>2. queues \in Seq(QueueRec)
  BY DEF ResidencyShape, QueuesTyped
<1>3. /\ queues' \in Seq(QueueRec) /\ DOMAIN queues' = DOMAIN queues /\ Len(queues') = Len(queues)
      /\ queues'[Queue(j)] = r
      /\ \A q \in DOMAIN queues \ {Queue(j)} : queues'[q] = queues[q]
  <2>. HIDE DEF QueueRec
  <2>. QED
    BY <1>1, <1>2
<1>4. QueuesTyped'
  <2>1. queues' # <<>>
    BY <1>1, <1>2, <1>3
  <2>2. ASSUME NEW q \in DOMAIN queues
        PROVE  IsFiniteSet(queues'[q].inside)
    <3>1. IsFiniteSet(queues[q].inside)
      BY DEF ResidencyShape, QueuesTyped
    <3>2. CASE q # Queue(j)
      BY <3>1, <3>2, <1>3
    <3>3. CASE q = Queue(j)
      <4>1. IsFiniteSet(queues[q].inside \cup {j}) /\ IsFiniteSet(queues[q].inside \ {j})
        BY <3>1, FS_AddElement, FS_RemoveElement
      <4>. QED
        BY <4>1, <3>3, <1>3
    <3>. QED
      BY <3>2, <3>3
  <2>. QED
    BY <2>1, <2>2, <1>3 DEF QueuesTyped
<1>5. JobsTyped'
  <2>1. ASSUME NEW k \in Jobs
        PROVE  (job[k].queue)' \in DOMAIN queues' /\ Placed(k, job[k])'
    <3>1. job[k].queue \in DOMAIN queues /\ Placed(k, job[k])
      BY DEF ResidencyShape, JobsTyped
    <3>2. CASE k = j
      BY <3>2, <1>1, <1>3 DEF Placed
    <3>3. CASE k # j
      BY <3>1, <3>3, <1>3, SamePlace DEF SameTurn
    <3>. QED
      BY <3>2, <3>3
  <2>. QED
    BY <2>1 DEF JobsTyped
<1>6. SectionsKept'
  <2>1. ASSUME NEW q \in DOMAIN queues
        PROVE  queues'[q].inside = {k \in Jobs : job'[k].queue = q /\ job'[k].pc \in AtWork}
    <3>1. queues[q].inside = {k \in Jobs : job[k].queue = q /\ job[k].pc \in AtWork}
      BY DEF ResidencyShape, SectionsKept
    <3>2. \A k \in Jobs \ {j} : job'[k].queue = job[k].queue /\ job'[k].pc = job[k].pc
      BY DEF SameTurn
    <3>3. CASE q # Queue(j)
      <4>1. job[j].queue # q /\ job'[j].queue # q
        BY <3>3 DEF Queue
      <4>2. queues'[q].inside = queues[q].inside
        BY <3>3, <1>3
      <4>. QED
        BY <4>1, <4>2, <3>1, <3>2
    <3>4. CASE q = Queue(j)
      <4>1. queues'[q].inside = IF f.pc \in AtWork THEN queues[q].inside \cup {j} ELSE queues[q].inside \ {j}
        BY <3>4, <1>3
      <4>2. job'[j].queue = q /\ job'[j].pc = f.pc
        BY <3>4
      <4>3. CASE f.pc \in AtWork
        BY <4>1, <4>2, <4>3, <3>1, <3>2
      <4>4. CASE f.pc \notin AtWork
        BY <4>1, <4>2, <4>4, <3>1, <3>2
      <4>. QED
        BY <4>3, <4>4
    <3>. QED
      BY <3>3, <3>4
  <2>. QED
    BY <2>1, <1>3 DEF SectionsKept
<1>7. SlotsKept'
  <2>1. SUFFICES ASSUME NEW k \in Jobs, (job[k].pc)' \in AtWork, Capacity[GroupOf(k)'] = 1,
                        NEW l \in Jobs \ {k}, (job[l].pc)' \in AtWork, Queue(l)' = Queue(k)', GroupOf(l)' = GroupOf(k)'
                 PROVE  FALSE
    BY DEF SlotsKept, Lone
  <2>2. \A x \in Jobs \ {j} : (job[x].pc)' = job[x].pc /\ Queue(x)' = Queue(x) /\ GroupOf(x)' = GroupOf(x)
    BY SamePlace
  <2>3. f.pc \in AtWork => Queue(j)' = Queue(j) /\ GroupOf(j)' = GroupOf(j) /\ Lone(j)
    BY DEF Queue, GroupOf, Route
  <2>4. CASE k = j
    BY <2>1, <2>2, <2>3, <2>4 DEF Lone
  <2>5. CASE l = j
    BY <2>1, <2>2, <2>3, <2>5 DEF Lone
  <2>6. CASE k # j /\ l # j
    <3>1. Lone(k)
      BY <2>1, <2>2, <2>6 DEF ResidencyShape, SlotsKept
    <3>. QED
      BY <3>1, <2>1, <2>2, <2>6 DEF Lone
  <2>. QED
    BY <2>4, <2>5, <2>6
<1>8. ActiveKept'
  <2>1. ASSUME NEW q \in DOMAIN queues, NEW g \in Groups, queues'[q].active[g] # NoService
        PROVE  queues'[q].active[g] \in Services /\ Group[queues'[q].active[g]] = g
    <3>1. queues[q].active[g] # NoService => queues[q].active[g] \in Services /\ Group[queues[q].active[g]] = g
      BY DEF ResidencyShape, ActiveKept
    <3>2. CASE q # Queue(j)
      BY <3>1, <3>2, <2>1, <1>3
    <3>3. CASE q = Queue(j)
      BY <3>1, <3>3, <2>1, <1>3 DEF ActiveFits
    <3>. QED
      BY <3>2, <3>3
  <2>. QED
    BY <2>1, <1>3 DEF ActiveKept
<1>. QED
  BY <1>4, <1>5, <1>6, <1>7, <1>8 DEF ResidencyShape


\* A job's turn leaves what is known of the services of other groups.
Elsewhere(j) ==
  /\ \A s \in Services : Group[s] # GroupOf(j) =>
       /\ holds'[s] = holds[s] /\ (s \in spoilt' <=> s \in spoilt)
       /\ queues'[Queue(j)].remembers[s] = queues[Queue(j)].remembers[s]
  /\ \A g \in Groups \ {GroupOf(j)} : queues'[Queue(j)].active[g] = queues[Queue(j)].active[g]
  /\ \A k \in Jobs \ {j} : job[k].pc \in AtWork /\ GroupOf(k) # GroupOf(j) => job'[k] = job[k]

\* So only the services of its own group and its own place matter.
LEMMA TurnVoices ==
  ASSUME ResidencyShape, VoicesKept, NEW j \in Jobs, job[j].pc \in AtWork \cup {"waiting"}, Lone(j), Elsewhere(j),
         Len(queues') = Len(queues), \A k \in Jobs \ {j} : SameTurn(job'[k], job[k]),
         (job[j].pc)' \in AtWork => GroupOf(j)' = GroupOf(j),
         Len(queues) = 1 /\ Capacity[GroupOf(j)] = 1 =>
           /\ \A s \in Services : Group[s] = GroupOf(j) => ServiceKept(s)'
           /\ (job[j].pc)' \in AtWork => VoiceKept(j)'
  PROVE  VoicesKept'
<1>1. SUFFICES ASSUME Len(queues) = 1
               PROVE  /\ \A s \in Services : Capacity[Group[s]] = 1 => ServiceKept(s)'
                      /\ \A k \in Jobs : (job[k].pc)' \in AtWork /\ Capacity[GroupOf(k)'] = 1 => VoiceKept(k)'
  BY DEF VoicesKept
<1>2. \A k \in Jobs : Queue(k) = 1
  BY <1>1, OneQueue
<1>3. ASSUME NEW s \in Services, Capacity[Group[s]] = 1
      PROVE  ServiceKept(s)'
  <2>1. CASE Group[s] = GroupOf(j)
    BY <1>1, <1>3, <2>1
  <2>2. CASE Group[s] # GroupOf(j)
    <3>1. ServiceKept(s)
      BY <1>1, <1>3 DEF VoicesKept
    <3>2. Group[s] \in Groups \ {GroupOf(j)}
      BY <2>2 DEF Groups
    <3>. QED
      BY <3>1, <3>2, <2>2, <1>2 DEF ServiceKept, Elsewhere
  <2>. QED
    BY <2>1, <2>2
<1>4. ASSUME NEW k \in Jobs, (job[k].pc)' \in AtWork, Capacity[GroupOf(k)'] = 1
      PROVE  VoiceKept(k)'
  <2>1. CASE k = j
    BY <1>1, <1>4, <2>1
  <2>2. CASE k # j
    <3>1. /\ (job[k].pc)' = job[k].pc /\ Queue(k)' = Queue(k) /\ Route(k)' = Route(k) /\ GroupOf(k)' = GroupOf(k)
          /\ Voice(k)' = Voice(k)
      BY <2>2, SamePlace
    <3>2. GroupOf(k) # GroupOf(j)
      BY <1>2, <1>4, <2>2, <3>1 DEF Lone
    <3>3. VoiceKept(k)
      BY <1>1, <1>4, <3>1 DEF VoicesKept
    <3>4. Route(k) \in Services /\ GroupOf(k) \in Groups /\ Group[Route(k)] = GroupOf(k)
      BY <1>4, <3>1, JobFacts DEF GroupOf
    <3>5. job'[k] = job[k] /\ holds'[Route(k)] = holds[Route(k)] /\ (Route(k) \in spoilt' <=> Route(k) \in spoilt)
      BY <1>4, <2>2, <3>1, <3>2, <3>4 DEF Elsewhere
    <3>6. Active(k)' = Active(k)
      BY <1>2, <3>1, <3>2, <3>4 DEF Elsewhere, Active
    <3>. QED
      BY <3>1, <3>3, <3>5, <3>6 DEF VoiceKept
  <2>. QED
    BY <2>1, <2>2
<1>. QED
  BY <1>3, <1>4

-----------------------------------------------------------------------------
\* One job's record is replaced.
LEMMA JobSet ==
  ASSUME JobsTyped, NEW j \in Jobs, NEW f \in JobRec, job' = [job EXCEPT ![j] = f]
  PROVE  job' \in [Jobs -> JobRec] /\ job'[j] = f /\ \A k \in Jobs \ {j} : job'[k] = job[k] /\ SameTurn(job'[k], job[k])
<1>1. job \in [Jobs -> JobRec]
  BY DEF JobsTyped
<1>. HIDE DEF JobRec
<1>2. job' \in [Jobs -> JobRec] /\ job'[j] = f /\ \A k \in Jobs \ {j} : job'[k] = job[k]
  BY <1>1
<1>. QED
  BY <1>2 DEF SameTurn

\* A job goes on to another step.
LEMMA JobGoes ==
  ASSUME JobsTyped, NEW j \in Jobs, NEW v \in AtWork \cup {"failed", "cancelled", "waiting", "done"}
  PROVE  LET f == [job[j] EXCEPT !.pc = v]
         IN /\ f \in JobRec /\ f.pc = v /\ f.queue = Queue(j) /\ f.hears = job[j].hears
            /\ f.routes = job[j].routes /\ f.cluster = job[j].cluster /\ f.line = job[j].line
            /\ job[j].pc \in AtWork \cup {"waiting"} => Placed(j, f) /\ f.routes[f.cluster] = Route(j)
<1>1. job[j] \in JobRec /\ Placed(j, job[j])
  BY DEF JobsTyped
<1>. QED
  BY <1>1 DEF JobRec, Placed, Queue, Route, AtWork

\* What a queue's record is once its set of jobs has changed.
LEMMA QueueKept ==
  ASSUME ResidencyShape, NEW q \in DOMAIN queues, NEW S \in SUBSET Jobs
  PROVE  LET r == [queues[q] EXCEPT !.inside = S]
         IN r \in QueueRec /\ r.inside = S /\ r.remembers = queues[q].remembers /\ r.active = queues[q].active
<1>1. queues[q] \in QueueRec
  BY DEF ResidencyShape, QueuesTyped
<1>. QED
  BY <1>1 DEF QueueRec

\* A job ends and gives its slot back.
LEMMA LeaveShape ==
  ASSUME ResidencyShape, WorkersTyped', NEW j \in Jobs, job[j].pc \in AtWork \cup {"waiting"},
         NEW v \in {"failed", "cancelled"}, Go(j, v), queues' = Without(j)
  PROVE  /\ ResidencyShape' /\ Len(queues') = Len(queues) /\ (job[j].pc)' \notin AtWork
         /\ \A k \in Jobs \ {j} : job'[k] = job[k] /\ SameTurn(job'[k], job[k])
         /\ queues'[Queue(j)].remembers = queues[Queue(j)].remembers
         /\ queues'[Queue(j)].active = queues[Queue(j)].active
<1>. DEFINE f == [job[j] EXCEPT !.pc = v]
            r == [queues[Queue(j)] EXCEPT !.inside = queues[Queue(j)].inside \ {j}]
<1>1. JobsTyped /\ Queue(j) \in DOMAIN queues /\ queues \in Seq(QueueRec)
  BY JobFacts DEF ResidencyShape, QueuesTyped
<1>2. f \in JobRec /\ f.pc = v /\ f.queue = Queue(j) /\ Placed(j, f) /\ f.pc \notin AtWork
  BY <1>1, JobGoes DEF AtWork
<1>3. job' = [job EXCEPT ![j] = f]
  BY DEF Go
<1>4. queues[Queue(j)].inside \ {j} \in SUBSET Jobs
  BY <1>1 DEF ResidencyShape, SectionsKept
<1>5. /\ r \in QueueRec /\ r.inside = queues[Queue(j)].inside \ {j} /\ r.remembers = queues[Queue(j)].remembers
      /\ r.active = queues[Queue(j)].active
  BY <1>1, <1>4, QueueKept
<1>6. queues' = [queues EXCEPT ![Queue(j)] = r]
  BY DEF Without
<1>. HIDE DEF f, r
<1>7. job' \in [Jobs -> JobRec] /\ job'[j] = f /\ \A k \in Jobs \ {j} : job'[k] = job[k] /\ SameTurn(job'[k], job[k])
  BY <1>1, <1>2, <1>3, JobSet
<1>8. ResidencyShape'
  BY <1>2, <1>5, <1>6, <1>7, TurnShape DEF ActiveFits
<1>9. Len(queues') = Len(queues) /\ queues'[Queue(j)] = r
  <2>. HIDE DEF QueueRec
  <2>. QED
    BY <1>1, <1>6
<1>. QED
  BY <1>2, <1>5, <1>7, <1>8, <1>9

\* It leaves what is known of the voices, if it did nothing to a worker.
LEMMA QuietLeave ==
  ASSUME ResidencyInv, NEW j \in Jobs, job[j].pc \in AtWork \cup {"waiting"},
         NEW v \in {"failed", "cancelled"}, Go(j, v), queues' = Without(j), UNCHANGED <<ready, holds, spoilt, made>>
  PROVE  ResidencyInv'
<1>1. ResidencyShape /\ VoicesKept /\ WorkersTyped'
  BY DEF ResidencyInv, ResidencyShape, WorkersTyped
<1>2. /\ ResidencyShape' /\ Len(queues') = Len(queues) /\ (job[j].pc)' \notin AtWork
      /\ \A k \in Jobs \ {j} : job'[k] = job[k] /\ SameTurn(job'[k], job[k])
      /\ queues'[Queue(j)].remembers = queues[Queue(j)].remembers
      /\ queues'[Queue(j)].active = queues[Queue(j)].active
  BY <1>1, LeaveShape
<1>3. ASSUME Len(queues) = 1
      PROVE  /\ \A s \in Services : ServiceKept(s) => ServiceKept(s)'
             /\ \A k \in Jobs : (job[k].pc)' \in AtWork =>
                  /\ job[k].pc \in AtWork /\ GroupOf(k)' = GroupOf(k)
                  /\ VoiceKept(k) => VoiceKept(k)'
  <2>1. \A k \in Jobs : Queue(k) = 1
    BY <1>1, <1>3, OneQueue
  <2>2. \A s \in Services : ServiceKept(s) => ServiceKept(s)'
    BY <1>2, <2>1 DEF ServiceKept, ResidencyInv
  <2>3. ASSUME NEW k \in Jobs, (job[k].pc)' \in AtWork
        PROVE  job[k].pc \in AtWork /\ GroupOf(k)' = GroupOf(k) /\ (VoiceKept(k) => VoiceKept(k)')
    <3>1. k # j /\ job'[k] = job[k] /\ SameTurn(job'[k], job[k])
      BY <1>2, <2>3
    <3>2. /\ (job[k].pc)' = job[k].pc /\ Queue(k)' = Queue(k) /\ Route(k)' = Route(k) /\ GroupOf(k)' = GroupOf(k)
          /\ Voice(k)' = Voice(k)
      BY <3>1, SamePlace
    <3>3. Active(k)' = Active(k)
      BY <1>2, <2>1, <3>2 DEF Active
    <3>. QED
      BY <2>3, <3>1, <3>2, <3>3 DEF VoiceKept
  <2>. QED
    BY <2>2, <2>3
<1>4. VoicesKept'
  BY <1>1, <1>2, <1>3 DEF VoicesKept
<1>5. RightVoiceUnlessSpoilt'
  BY DEF ResidencyInv, RightVoiceUnlessSpoilt
<1>. QED
  BY <1>2, <1>4, <1>5 DEF ResidencyInv

\* It may have left a service of its group with another voice, or none.
LEMMA LateLeave ==
  ASSUME ResidencyInv, NEW j \in Jobs, job[j].pc \in AtWork,
         Fails(j), NEW s \in Services, Group[s] = GroupOf(j), NEW v \in Helds, Holds(s, v),
         spoilt' = spoilt \cup {s}, UNCHANGED <<ready, made>>
  PROVE  ResidencyInv'
<1>1. ResidencyShape /\ VoicesKept /\ WorkersTyped /\ holds \in [Services -> Helds]
  BY DEF ResidencyInv, ResidencyShape, WorkersTyped
<1>2. WorkersTyped' /\ holds'[s] = v /\ \A x \in Services \ {s} : holds'[x] = holds[x]
  BY <1>1 DEF WorkersTyped, Holds
<1>3. /\ ResidencyShape' /\ Len(queues') = Len(queues) /\ (job[j].pc)' \notin AtWork
      /\ \A k \in Jobs \ {j} : job'[k] = job[k] /\ SameTurn(job'[k], job[k])
      /\ queues'[Queue(j)].remembers = queues[Queue(j)].remembers
      /\ queues'[Queue(j)].active = queues[Queue(j)].active
  BY <1>1, <1>2, LeaveShape DEF Fails
<1>4. Lone(j)
  BY <1>1 DEF ResidencyShape, SlotsKept
<1>5. Elsewhere(j)
  BY <1>2, <1>3 DEF Elsewhere
<1>6. ASSUME Len(queues) = 1, Capacity[GroupOf(j)] = 1, NEW x \in Services, Group[x] = GroupOf(j)
      PROVE  ServiceKept(x)'
  <2>1. Queue(j) = 1 /\ ServiceKept(x)
    BY <1>1, <1>6, OneQueue DEF VoicesKept
  <2>. QED
    BY <2>1, <1>2, <1>3 DEF ServiceKept
<1>7. VoicesKept'
  BY <1>1, <1>3, <1>4, <1>5, <1>6, TurnVoices
<1>8. RightVoiceUnlessSpoilt'
  BY DEF ResidencyInv, RightVoiceUnlessSpoilt
<1>. QED
  BY <1>3, <1>7, <1>8 DEF ResidencyInv

-----------------------------------------------------------------------------
LEMMA CancelKept == ASSUME ResidencyInv, NEW j \in Jobs, Cancel(j) PROVE ResidencyInv'
BY QuietLeave DEF Cancel, AtWork

LEMMA SpeakFailsKept == ASSUME ResidencyInv, NEW j \in Jobs, SpeakFails(j) PROVE ResidencyInv'
BY QuietLeave DEF SpeakFails, Fails, AtWork

\* An unload that fails may have been done all the same.
LEMMA EvictFailsKept == ASSUME ResidencyInv, NEW j \in Jobs, EvictFails(j) PROVE ResidencyInv'
<1>1. job[j].pc \in AtWork /\ ResidencyShape
  BY DEF EvictFails, AtWork, ResidencyInv
<1>2. Active(j) \in Services /\ Group[Active(j)] = GroupOf(j)
  BY <1>1, JobFacts DEF EvictFails
<1>3. CASE UNCHANGED <<holds, spoilt>>
  BY <1>1, <1>3, QuietLeave DEF EvictFails, Fails
<1>4. CASE Holds(Active(j), NoVoice) /\ spoilt' = spoilt \cup {Active(j)}
  BY <1>1, <1>2, <1>4, LateLeave DEF EvictFails, Helds
<1>. QED
  BY <1>3, <1>4 DEF EvictFails

\* A load that fails may have been done half, or all.
LEMMA LoadFailsKept == ASSUME ResidencyInv, NEW j \in Jobs, LoadFails(j) PROVE ResidencyInv'
<1>1. job[j].pc \in AtWork /\ ResidencyShape
  BY DEF LoadFails, AtWork, ResidencyInv
<1>2. Route(j) \in Services /\ Group[Route(j)] = GroupOf(j) /\ Voice(j) \in Voices
  BY <1>1, JobFacts DEF GroupOf
<1>3. CASE UNCHANGED <<holds, spoilt>>
  BY <1>1, <1>3, QuietLeave DEF LoadFails, Fails
<1>4. ASSUME NEW v \in {Mixed, Voice(j)}, Holds(Route(j), v), spoilt' = spoilt \cup {Route(j)}
      PROVE  ResidencyInv'
  BY <1>1, <1>2, <1>4, LateLeave DEF LoadFails, Helds
<1>. QED
  BY <1>3, <1>4 DEF LoadFails

\* A free slot of a group that has one is free of everybody.
LEMMA FreeSlot == ASSUME ResidencyShape, NEW j \in Jobs, job[j].pc = "waiting", SlotFree(j) PROVE Lone(j)
<1>1. Queue(j) \in DOMAIN queues
  BY JobFacts
<1>2. /\ IsFiniteSet(queues[Queue(j)].inside)
      /\ queues[Queue(j)].inside = {k \in Jobs : job[k].queue = Queue(j) /\ job[k].pc \in AtWork}
  BY <1>1 DEF ResidencyShape, QueuesTyped, SectionsKept
<1>3. SUFFICES ASSUME Capacity[GroupOf(j)] = 1
               PROVE  \A k \in Jobs \ {j} : job[k].pc \in AtWork /\ Queue(k) = Queue(j) => GroupOf(k) # GroupOf(j)
  BY DEF Lone
<1>. DEFINE S == Inside(Queue(j), GroupOf(j))
<1>4. IsFiniteSet(S)
  BY <1>2, FS_Subset DEF Inside
<1>5. Cardinality(S) < 1
  BY <1>3 DEF SlotFree
<1>6. S = {}
  <2>. HIDE DEF S
  <2>1. Cardinality(S) \in Nat
    BY <1>4, FS_CardinalityType
  <2>2. Cardinality(S) = 0
    BY <1>5, <2>1
  <2>. QED
    BY <1>4, <2>2, FS_EmptySet
<1>. QED
  BY <1>2, <1>6 DEF Inside, Queue

\* A job in the section that does nothing to a worker and goes on to evicting
\* or loading.
LEMMA EnterKept == ASSUME ResidencyInv, NEW j \in Jobs, Enter(j) PROVE ResidencyInv'
<1>. DEFINE f == [job[j] EXCEPT !.pc = "evict"]
            r == [queues[Queue(j)] EXCEPT !.inside = queues[Queue(j)].inside \cup {j}]
<1>1. /\ ResidencyShape /\ VoicesKept /\ JobsTyped /\ queues \in Seq(QueueRec) /\ WorkersTyped'
      /\ job[j].pc = "waiting" /\ job[j].pc \in AtWork \cup {"waiting"}
  BY DEF ResidencyInv, ResidencyShape, QueuesTyped, WorkersTyped, Enter
<1>2. Queue(j) \in DOMAIN queues /\ Lone(j)
  BY <1>1, JobFacts, FreeSlot DEF Enter
<1>3. f \in JobRec /\ f.pc = "evict" /\ f.queue = Queue(j) /\ Placed(j, f) /\ f.routes[f.cluster] = Route(j)
  BY <1>1, JobGoes DEF AtWork
<1>4. queues[Queue(j)].inside \cup {j} \in SUBSET Jobs
  BY <1>1, <1>2 DEF ResidencyShape, SectionsKept
<1>5. /\ r \in QueueRec /\ r.inside = queues[Queue(j)].inside \cup {j} /\ r.remembers = queues[Queue(j)].remembers
      /\ r.active = queues[Queue(j)].active
  BY <1>1, <1>2, <1>4, QueueKept
<1>6. queues' = [queues EXCEPT ![Queue(j)] = r] /\ job' = [job EXCEPT ![j] = f]
  BY DEF Enter, Go
<1>. HIDE DEF f, r
<1>7. job' \in [Jobs -> JobRec] /\ job'[j] = f /\ \A k \in Jobs \ {j} : job'[k] = job[k] /\ SameTurn(job'[k], job[k])
  BY <1>1, <1>3, <1>6, JobSet
<1>8. ResidencyShape'
  BY <1>1, <1>2, <1>3, <1>5, <1>6, <1>7, TurnShape DEF AtWork, ActiveFits
<1>9. Len(queues') = Len(queues) /\ queues'[Queue(j)] = r
  <2>. HIDE DEF QueueRec
  <2>. QED
    BY <1>1, <1>2, <1>6
<1>10. holds' = holds /\ spoilt' = spoilt /\ made' = made
  BY DEF Enter
<1>11. Elsewhere(j)
  BY <1>5, <1>7, <1>9, <1>10 DEF Elsewhere
<1>12. ASSUME Len(queues) = 1, Capacity[GroupOf(j)] = 1, NEW s \in Services, Group[s] = GroupOf(j)
       PROVE  ServiceKept(s)'
  <2>1. Queue(j) = 1 /\ ServiceKept(s)
    BY <1>1, <1>12, OneQueue DEF VoicesKept
  <2>. QED
    BY <2>1, <1>5, <1>9, <1>10 DEF ServiceKept
<1>13. VoiceKept(j)' /\ GroupOf(j)' = GroupOf(j)
  BY <1>3, <1>7 DEF VoiceKept, GroupOf, Route
<1>14. VoicesKept'
  BY <1>1, <1>2, <1>7, <1>9, <1>11, <1>12, <1>13, TurnVoices
<1>15. RightVoiceUnlessSpoilt'
  BY <1>10 DEF ResidencyInv, RightVoiceUnlessSpoilt
<1>. QED
  BY <1>8, <1>14, <1>15 DEF ResidencyInv

-----------------------------------------------------------------------------
\* What a queue's record r may say of the services of group g, and of its job j
\* with record f.
RecordFits(r, g) ==
  \A s \in Services : Group[s] = g /\ s \notin spoilt' =>
    r.remembers[s] \in {NoVoice, holds'[s]} /\ (holds'[s] # NoVoice => r.active[g] = s)

PlaceFits(j, f, r) ==
  /\ f.pc = "load" => r.active[GroupOf(j)] \in {NoService, Route(j)}
  /\ f.pc \in {"speak", "speaking"} => r.active[GroupOf(j)] = Route(j)
  /\ f.pc \in {"speak", "speaking"} /\ Route(j) \notin spoilt' => holds'[Route(j)] = Clusters[j][f.cluster].voices[f.line]
  /\ f.pc = "speaking" /\ Route(j) \notin spoilt' => f.hears = Clusters[j][f.cluster].voices[f.line]

\* All that a job's turn does stays within its group.
Within(j, r) ==
  /\ \A s \in Services : Group[s] # GroupOf(j) =>
       /\ holds'[s] = holds[s] /\ (s \in spoilt' <=> s \in spoilt)
       /\ r.remembers[s] = queues[Queue(j)].remembers[s]
  /\ \A g \in Groups \ {GroupOf(j)} : r.active[g] = queues[Queue(j)].active[g]
  /\ r.active[GroupOf(j)] \in {NoService, Route(j), Active(j)}
  /\ \A k \in Jobs \ {j} :
       SameTurn(job'[k], job[k]) /\ (job[k].pc \in AtWork /\ GroupOf(k) # GroupOf(j) => job'[k] = job[k])

\* A turn in the section keeps the invariant, if in a group of one slot the
\* queue's record and the job's fit what the workers hold.
LEMMA TurnStep ==
  ASSUME ResidencyInv, WorkersTyped', NEW j \in Jobs, job[j].pc \in AtWork, NEW f \in JobRec, NEW r \in QueueRec,
         f.pc \in AtWork => f.routes[f.cluster] = Route(j),
         f.queue = Queue(j), Placed(j, f), Within(j, r),
         r.inside = IF f.pc \in AtWork THEN queues[Queue(j)].inside ELSE queues[Queue(j)].inside \ {j},
         queues' = [queues EXCEPT ![Queue(j)] = r], job' \in [Jobs -> JobRec], job'[j] = f,
         Len(queues) = 1 /\ Capacity[GroupOf(j)] = 1 => RecordFits(r, GroupOf(j)) /\ PlaceFits(j, f, r),
         RightVoiceUnlessSpoilt'
  PROVE  ResidencyInv'
<1>1. ResidencyShape /\ VoicesKept /\ queues \in Seq(QueueRec) /\ job[j].pc \in AtWork \cup {"waiting"}
  BY DEF ResidencyInv, ResidencyShape, QueuesTyped
<1>2. /\ Queue(j) \in DOMAIN queues /\ Route(j) \in Services /\ GroupOf(j) \in Groups /\ Group[Route(j)] = GroupOf(j)
      /\ Active(j) # NoService => Active(j) \in Services /\ Group[Active(j)] = GroupOf(j)
  BY <1>1, JobFacts DEF GroupOf
<1>3. Lone(j) /\ queues[Queue(j)].inside \cup {j} = queues[Queue(j)].inside
  BY <1>1, <1>2 DEF ResidencyShape, SlotsKept, SectionsKept, Queue
<1>4. ActiveFits(j, r)
  BY <1>2 DEF Within, Active, ActiveFits
<1>5. \A k \in Jobs \ {j} : SameTurn(job'[k], job[k])
  BY DEF Within
<1>6. ResidencyShape'
  <2>1. r.inside = IF f.pc \in AtWork THEN queues[Queue(j)].inside \cup {j} ELSE queues[Queue(j)].inside \ {j}
    BY <1>3
  <2>2. f.pc \in AtWork => Lone(j) /\ f.routes[f.cluster] = Route(j)
    BY <1>3
  <2>. QED
    BY <1>1, <1>4, <1>5, <2>1, <2>2, TurnShape
<1>7. Len(queues') = Len(queues) /\ queues'[Queue(j)] = r
  <2>. HIDE DEF QueueRec
  <2>. QED
    BY <1>1, <1>2
<1>8. Elsewhere(j)
  BY <1>7 DEF Within, Elsewhere
<1>9. (job[j].pc)' \in AtWork => /\ GroupOf(j)' = GroupOf(j) /\ Route(j)' = Route(j) /\ Queue(j)' = Queue(j)
                                 /\ Active(j)' = r.active[GroupOf(j)]
                                 /\ Voice(j)' = Clusters[j][f.cluster].voices[f.line]
  BY <1>7 DEF GroupOf, Route, Queue, Active, Voice, Cluster
<1>10. ASSUME Len(queues) = 1, Capacity[GroupOf(j)] = 1
       PROVE  /\ \A s \in Services : Group[s] = GroupOf(j) => ServiceKept(s)'
              /\ (job[j].pc)' \in AtWork => VoiceKept(j)'
  <2>1. Queue(j) = 1 /\ RecordFits(r, GroupOf(j)) /\ PlaceFits(j, f, r)
    BY <1>1, <1>10, OneQueue
  <2>2. ASSUME NEW s \in Services, Group[s] = GroupOf(j)
        PROVE  ServiceKept(s)'
    BY <2>1, <2>2, <1>7 DEF RecordFits, ServiceKept
  <2>3. (job[j].pc)' \in AtWork => VoiceKept(j)'
    BY <2>1, <1>9 DEF PlaceFits, VoiceKept
  <2>. QED
    BY <2>2, <2>3
<1>11. VoicesKept'
  BY <1>1, <1>3, <1>5, <1>7, <1>8, <1>9, <1>10, TurnVoices
<1>. QED
  BY <1>6, <1>11 DEF ResidencyInv

\* What the invariant says of a job in the one slot of its group.
LEMMA AloneFacts ==
  ASSUME ResidencyInv, NEW j \in Jobs, job[j].pc \in AtWork, Len(queues) = 1, Capacity[GroupOf(j)] = 1
  PROVE  /\ VoiceKept(j)
         /\ \A s \in Services : Group[s] = GroupOf(j) /\ s \notin spoilt =>
              /\ queues[Queue(j)].remembers[s] \in {NoVoice, holds[s]}
              /\ holds[s] # NoVoice => Active(j) = s
<1>1. ResidencyShape /\ VoicesKept /\ Queue(j) = 1
  BY OneQueue DEF ResidencyInv
<1>. QED
  BY <1>1 DEF VoicesKept, ServiceKept, Active

\* A load or an unload changes the voice of the lines that are being spoken.
LEMMA DisturbFacts ==
  ASSUME ResidencyShape, NEW j \in Jobs, job[j].pc \in AtWork, NEW s \in Services, Group[s] = GroupOf(j),
         NEW v \in AtWork, NEW h \in Helds, Disturb(s, j, v, h)
  PROVE  /\ job' \in [Jobs -> JobRec] /\ job'[j] = [job[j] EXCEPT !.pc = v]
         /\ \A k \in Jobs \ {j} :
              SameTurn(job'[k], job[k]) /\ (job[k].pc \in AtWork /\ GroupOf(k) # GroupOf(j) => job'[k] = job[k])
<1>1. \A k \in Jobs : job[k] \in JobRec
  BY DEF ResidencyShape, JobsTyped
<1>2. job'[j] = [job[j] EXCEPT !.pc = v] /\ job'[j] \in JobRec
  BY <1>1 DEF Disturb, JobRec
<1>3. ASSUME NEW k \in Jobs \ {j}
      PROVE  /\ job'[k] \in JobRec /\ SameTurn(job'[k], job[k])
             /\ job[k].pc \in AtWork /\ GroupOf(k) # GroupOf(j) => job'[k] = job[k]
  <2>1. CASE job[k].pc = "speaking" /\ Route(k) = s
    <3>1. job'[k] = [job[k] EXCEPT !.hears = h] /\ GroupOf(k) = GroupOf(j)
      BY <2>1 DEF Disturb, GroupOf
    <3>. QED
      BY <3>1, <1>1 DEF JobRec, SameTurn
  <2>2. CASE ~(job[k].pc = "speaking" /\ Route(k) = s)
    <3>1. job'[k] = job[k]
      BY <2>2 DEF Disturb
    <3>. QED
      BY <3>1, <1>1 DEF SameTurn
  <2>. QED
    BY <2>1, <2>2
<1>4. job' = [k \in Jobs |-> job'[k]]
  BY DEF Disturb
<1>. HIDE DEF JobRec
<1>5. job' \in [Jobs -> JobRec]
  BY <1>2, <1>3, <1>4
<1>. QED
  BY <1>2, <1>3, <1>5

-----------------------------------------------------------------------------
\* A queue's record, and that queue q gets it, one part after the other or all
\* but a part that is what it was.
QueueAs(ins, rem, act) == [inside |-> ins, remembers |-> rem, active |-> act]

Recorded(q, ins, rem, act) ==
  \/ /\ ins = queues[q].inside
     /\ \/ queues' = [queues EXCEPT ![q].active = act, ![q].remembers = rem]
        \/ queues' = [queues EXCEPT ![q].remembers = rem, ![q].active = act]
        \/ queues' = [queues EXCEPT ![q].active = act] /\ rem = queues[q].remembers
        \/ queues' = [queues EXCEPT ![q].remembers = rem] /\ act = queues[q].active
  \/ queues' = [[queues EXCEPT ![q].inside = ins] EXCEPT ![q].remembers = rem] /\ act = queues[q].active

LEMMA QueueSet ==
  ASSUME NEW ins \in SUBSET Jobs, NEW rem \in [Services -> Voices \cup {NoVoice}],
         NEW act \in [Groups -> Services \cup {NoService}]
  PROVE  /\ QueueAs(ins, rem, act) \in QueueRec
         /\ QueueAs(ins, rem, act).inside = ins
         /\ QueueAs(ins, rem, act).remembers = rem
         /\ QueueAs(ins, rem, act).active = act
BY DEF QueueAs, QueueRec

\* A record of a queue is known by its parts.
LEMMA QueueParts ==
  ASSUME NEW x \in QueueRec
  PROVE  x = QueueAs(x.inside, x.remembers, x.active)
BY DEF QueueRec, QueueAs

LEMMA QueueUpdate ==
  ASSUME ResidencyShape, NEW q \in DOMAIN queues, NEW ins \in SUBSET Jobs,
         NEW rem \in [Services -> Voices \cup {NoVoice}], NEW act \in [Groups -> Services \cup {NoService}],
         Recorded(q, ins, rem, act)
  PROVE  queues' = [queues EXCEPT ![q] = QueueAs(ins, rem, act)]
<1>1. queues[q] \in QueueRec /\ queues \in Seq(QueueRec)
  BY DEF ResidencyShape, QueuesTyped
<1>. DEFINE x1 == [[queues[q] EXCEPT !.remembers = rem] EXCEPT !.active = act]
            x2 == [[queues[q] EXCEPT !.active = act] EXCEPT !.remembers = rem]
            x3 == [queues[q] EXCEPT !.active = act]
            x4 == [queues[q] EXCEPT !.remembers = rem]
            x5 == [[queues[q] EXCEPT !.inside = ins] EXCEPT !.remembers = rem]
<1>2. /\ x1 \in QueueRec /\ x1.inside = queues[q].inside /\ x1.remembers = rem /\ x1.active = act
      /\ x2 \in QueueRec /\ x2.inside = queues[q].inside /\ x2.remembers = rem /\ x2.active = act
      /\ x3 \in QueueRec /\ x3.inside = queues[q].inside /\ x3.remembers = queues[q].remembers /\ x3.active = act
      /\ x4 \in QueueRec /\ x4.inside = queues[q].inside /\ x4.remembers = rem /\ x4.active = queues[q].active
      /\ x5 \in QueueRec /\ x5.inside = ins /\ x5.remembers = rem /\ x5.active = queues[q].active
  BY <1>1 DEF QueueRec
<1>3. \E x \in {x1, x2, x3, x4, x5} :
         queues' = [queues EXCEPT ![q] = x] /\ x.inside = ins /\ x.remembers = rem /\ x.active = act
  <2>1. CASE ins = queues[q].inside /\ queues' = [queues EXCEPT ![q].active = act, ![q].remembers = rem]
    <3>1. queues' = [queues EXCEPT ![q] = x2]
      BY <2>1, <1>1
    <3>. QED
      BY <3>1, <2>1, <1>2
  <2>2. CASE ins = queues[q].inside /\ queues' = [queues EXCEPT ![q].remembers = rem, ![q].active = act]
    <3>1. queues' = [queues EXCEPT ![q] = x1]
      BY <2>2, <1>1
    <3>. QED
      BY <3>1, <2>2, <1>2
  <2>3. CASE ins = queues[q].inside /\ queues' = [queues EXCEPT ![q].active = act] /\ rem = queues[q].remembers
    BY <2>3, <1>2
  <2>4. CASE ins = queues[q].inside /\ queues' = [queues EXCEPT ![q].remembers = rem] /\ act = queues[q].active
    BY <2>4, <1>2
  <2>5. CASE queues' = [[queues EXCEPT ![q].inside = ins] EXCEPT ![q].remembers = rem] /\ act = queues[q].active
    <3>1. queues' = [queues EXCEPT ![q] = x5]
      BY <2>5, <1>1
    <3>. QED
      BY <3>1, <2>5, <1>2
  <2>. QED
    BY <2>1, <2>2, <2>3, <2>4, <2>5 DEF Recorded
<1>. HIDE DEF x1, x2, x3, x4, x5
<1>4. PICK x \in {x1, x2, x3, x4, x5} :
         queues' = [queues EXCEPT ![q] = x] /\ x.inside = ins /\ x.remembers = rem /\ x.active = act
  BY <1>3
<1>5. x \in QueueRec
  BY <1>2, <1>4
<1>6. x = QueueAs(ins, rem, act)
  BY <1>4, <1>5, QueueParts
<1>. QED
  BY <1>4, <1>6

LEMMA EvictKept == ASSUME ResidencyInv, NEW j \in Jobs, Evict(j) PROVE ResidencyInv'
<1>1. /\ ResidencyShape /\ JobsTyped /\ WorkersTyped /\ job[j].pc \in AtWork /\ job[j].pc \in AtWork \cup {"waiting"}
      /\ job[j].pc = "evict"
  BY DEF ResidencyInv, ResidencyShape, Evict, AtWork
<1>2. /\ Queue(j) \in DOMAIN queues /\ queues[Queue(j)] \in QueueRec /\ Route(j) \in Services /\ GroupOf(j) \in Groups
      /\ Group[Route(j)] = GroupOf(j) /\ Active(j) \in Services \cup {NoService}
      /\ Active(j) # NoService => Group[Active(j)] = GroupOf(j)
  BY <1>1, JobFacts DEF GroupOf
<1>. DEFINE f == [job[j] EXCEPT !.pc = "load"]
<1>3. /\ f \in JobRec /\ f.pc = "load" /\ f.queue = Queue(j) /\ Placed(j, f) /\ f.routes[f.cluster] = Route(j)
  BY <1>1, JobGoes DEF AtWork
<1>4. RightVoiceUnlessSpoilt'
  BY DEF ResidencyInv, RightVoiceUnlessSpoilt, Evict
<1>5. CASE Active(j) \in {NoService, Route(j)} /\ Go(j, "load") /\ UNCHANGED <<holds, queues>>
  <2>. DEFINE r == queues[Queue(j)]
  <2>1. job' = [job EXCEPT ![j] = f]
    BY <1>5 DEF Go
  <2>2. job' \in [Jobs -> JobRec] /\ job'[j] = f /\ \A k \in Jobs \ {j} : job'[k] = job[k] /\ SameTurn(job'[k], job[k])
    <3>. HIDE DEF f
    <3>. QED
      BY <1>1, <1>3, <2>1, JobSet
  <2>3. queues' = [queues EXCEPT ![Queue(j)] = r] /\ WorkersTyped'
    BY <1>1, <1>2, <1>5 DEF ResidencyShape, QueuesTyped, WorkersTyped, Evict
  <2>4. r.active[GroupOf(j)] = Active(j) /\ holds' = holds /\ spoilt' = spoilt
    BY <1>5 DEF Active, Evict
  <2>5. ASSUME Len(queues) = 1, Capacity[GroupOf(j)] = 1
        PROVE  RecordFits(r, GroupOf(j)) /\ PlaceFits(j, f, r)
    BY <1>1, <1>3, <1>5, <2>4, <2>5, AloneFacts DEF RecordFits, PlaceFits
  <2>6. Within(j, r)
    BY <2>2, <2>4 DEF Within
  <2>. HIDE DEF f, r
  <2>7. r \in QueueRec /\ r.inside = queues[Queue(j)].inside
    BY <1>2 DEF r
  <2>. QED
    BY <1>1, <1>3, <1>4, <2>2, <2>3, <2>5, <2>6, <2>7, TurnStep DEF AtWork
<1>6. CASE /\ Active(j) \notin {NoService, Route(j)} /\ Active(j) \in ready
           /\ Holds(Active(j), NoVoice) /\ Disturb(Active(j), j, "load", holds[Active(j)])
           /\ queues' = [queues EXCEPT ![Queue(j)].active[GroupOf(j)] = NoService,
                                       ![Queue(j)].remembers = Unloaded(queues[Queue(j)], Active(j))]
  <2>. DEFINE rem == Unloaded(queues[Queue(j)], Active(j))
              act == [queues[Queue(j)].active EXCEPT ![GroupOf(j)] = NoService]
              r == QueueAs(queues[Queue(j)].inside, rem, act)
  <2>1. /\ rem \in [Services -> Voices \cup {NoVoice}] /\ act \in [Groups -> Services \cup {NoService}]
        /\ act[GroupOf(j)] = NoService /\ \A g \in Groups \ {GroupOf(j)} : act[g] = queues[Queue(j)].active[g]
        /\ Active(j) \in Services
        /\ rem[Active(j)] = NoVoice /\ \A s \in Services \ {Active(j)} : rem[s] = queues[Queue(j)].remembers[s]
    BY <1>2, <1>6 DEF QueueRec, Unloaded
  <2>2. Recorded(Queue(j), queues[Queue(j)].inside, rem, act)
    BY <1>6 DEF Recorded
  <2>. HIDE DEF rem, act
  <2>3. /\ r \in QueueRec /\ r.inside = queues[Queue(j)].inside /\ r.remembers = rem /\ r.active = act
        /\ queues' = [queues EXCEPT ![Queue(j)] = r]
    <3>1. Queue(j) \in DOMAIN queues /\ ResidencyShape /\ rem \in [Services -> Voices \cup {NoVoice}]
          /\ act \in [Groups -> Services \cup {NoService}] /\ queues[Queue(j)].inside \in SUBSET Jobs
      BY <1>1, <1>2, <2>1 DEF QueueRec
    <3>2. r \in QueueRec /\ r.inside = queues[Queue(j)].inside /\ r.remembers = rem /\ r.active = act
      BY <3>1, QueueSet
    <3>3. queues' = [queues EXCEPT ![Queue(j)] = r]
      BY <3>1, <2>2, QueueUpdate
    <3>. QED
      BY <3>2, <3>3
  <2>4. /\ holds' \in [Services -> Helds] /\ holds'[Active(j)] = NoVoice
        /\ \A s \in Services \ {Active(j)} : holds'[s] = holds[s]
    BY <1>1, <2>1, <1>6 DEF Holds, WorkersTyped, Helds
  <2>5. WorkersTyped' /\ spoilt' = spoilt
    BY <1>1, <2>4 DEF WorkersTyped, Evict
  <2>6. /\ job' \in [Jobs -> JobRec] /\ job'[j] = f
        /\ \A k \in Jobs \ {j} :
              SameTurn(job'[k], job[k]) /\ (job[k].pc \in AtWork /\ GroupOf(k) # GroupOf(j) => job'[k] = job[k])
    <3>1. holds[Active(j)] \in Helds
      BY <1>1, <2>1 DEF WorkersTyped
    <3>. QED
      BY <1>1, <1>2, <1>6, <2>1, <3>1, DisturbFacts DEF AtWork
  <2>. HIDE DEF r, f
  <2>7. ASSUME Len(queues) = 1, Capacity[GroupOf(j)] = 1
        PROVE  RecordFits(r, GroupOf(j)) /\ PlaceFits(j, f, r)
    <3>1. \A s \in Services : Group[s] = GroupOf(j) /\ s \notin spoilt =>
              /\ queues[Queue(j)].remembers[s] \in {NoVoice, holds[s]}
              /\ holds[s] # NoVoice => Active(j) = s
      BY <1>1, <2>7, AloneFacts
    <3>2. RecordFits(r, GroupOf(j))
      BY <3>1, <2>1, <2>3, <2>4, <2>5 DEF RecordFits
    <3>3. PlaceFits(j, f, r)
      BY <1>3, <2>1, <2>3 DEF PlaceFits
    <3>. QED
      BY <3>2, <3>3
  <2>8. Within(j, r)
    <3>1. \A s \in Services : Group[s] # GroupOf(j) => s # Active(j)
      BY <1>2, <2>1, <1>6
    <3>. QED
      BY <1>2, <3>1, <2>1, <2>3, <2>4, <2>5, <2>6 DEF Within
  <2>. QED
    BY <1>1, <1>3, <1>4, <2>3, <2>5, <2>6, <2>7, <2>8, TurnStep DEF AtWork
<1>. QED
  BY <1>5, <1>6 DEF Evict

LEMMA ReuseKept == ASSUME ResidencyInv, NEW j \in Jobs, Reuse(j) PROVE ResidencyInv'
<1>1. /\ ResidencyShape /\ JobsTyped /\ WorkersTyped /\ job[j].pc \in AtWork /\ job[j].pc \in AtWork \cup {"waiting"}
      /\ job[j].pc = "load" /\ Remembers(j)
  BY DEF ResidencyInv, ResidencyShape, Reuse, AtWork
<1>2. /\ Queue(j) \in DOMAIN queues /\ queues[Queue(j)] \in QueueRec /\ Route(j) \in Services /\ GroupOf(j) \in Groups
      /\ Group[Route(j)] = GroupOf(j) /\ Voice(j) \in Voices /\ Voice(j) # NoVoice
  BY <1>1, JobFacts DEF GroupOf
<1>. DEFINE f == [job[j] EXCEPT !.pc = "speak"]
            ins == queues[Queue(j)].inside
            rem == queues[Queue(j)].remembers
            act == [queues[Queue(j)].active EXCEPT ![GroupOf(j)] = Route(j)]
            r == QueueAs(ins, rem, act)
<1>3. /\ f \in JobRec /\ f.pc = "speak" /\ f.queue = Queue(j) /\ Placed(j, f) /\ f.routes[f.cluster] = Route(j)
      /\ f.cluster = job[j].cluster /\ f.line = job[j].line
  BY <1>1, JobGoes DEF AtWork
<1>4. job' = [job EXCEPT ![j] = f] /\ holds' = holds /\ spoilt' = spoilt /\ ready' = ready /\ made' = made
  BY DEF Reuse, Go
<1>5. /\ ins \in SUBSET Jobs /\ rem \in [Services -> Voices \cup {NoVoice}] /\ act \in [Groups -> Services \cup {NoService}]
      /\ act[GroupOf(j)] = Route(j) /\ \A g \in Groups \ {GroupOf(j)} : act[g] = queues[Queue(j)].active[g]
  BY <1>2 DEF QueueRec
<1>6. Recorded(Queue(j), ins, rem, act)
  BY DEF Recorded, Reuse
<1>. HIDE DEF f, act
<1>7. job' \in [Jobs -> JobRec] /\ job'[j] = f /\ \A k \in Jobs \ {j} : job'[k] = job[k] /\ SameTurn(job'[k], job[k])
  BY <1>1, <1>3, <1>4, JobSet
<1>8. r \in QueueRec /\ r.inside = ins /\ r.remembers = rem /\ r.active = act
  BY <1>5, QueueSet
<1>9. queues' = [queues EXCEPT ![Queue(j)] = r]
  BY <1>1, <1>2, <1>5, <1>6, QueueUpdate
<1>. HIDE DEF r
<1>10. ASSUME Len(queues) = 1, Capacity[GroupOf(j)] = 1
       PROVE  RecordFits(r, GroupOf(j)) /\ PlaceFits(j, f, r)
  <2>1. /\ VoiceKept(j)
        /\ \A s \in Services : Group[s] = GroupOf(j) /\ s \notin spoilt =>
              /\ rem[s] \in {NoVoice, holds[s]}
              /\ holds[s] # NoVoice => Active(j) = s
    BY <1>1, <1>10, AloneFacts
  <2>2. Active(j) \in {NoService, Route(j)}
    BY <2>1, <1>1 DEF VoiceKept
  <2>3. RecordFits(r, GroupOf(j))
    BY <2>1, <2>2, <1>4, <1>5, <1>8, VoiceAssumption DEF RecordFits
  <2>4. Route(j) \notin spoilt => holds[Route(j)] = Voice(j)
    BY <2>1, <1>1, <1>2 DEF Remembers
  <2>5. PlaceFits(j, f, r)
    BY <2>4, <1>3, <1>4, <1>5, <1>8 DEF PlaceFits, Voice, Cluster
  <2>. QED
    BY <2>3, <2>5
<1>11. Within(j, r)
  BY <1>4, <1>5, <1>7, <1>8 DEF Within
<1>12. WorkersTyped' /\ RightVoiceUnlessSpoilt'
  BY <1>1, <1>4 DEF WorkersTyped, ResidencyInv, RightVoiceUnlessSpoilt
<1>. QED
  BY <1>1, <1>3, <1>7, <1>8, <1>9, <1>10, <1>11, <1>12, TurnStep DEF AtWork

LEMMA LoadKept == ASSUME ResidencyInv, NEW j \in Jobs, Load(j) PROVE ResidencyInv'
<1>1. /\ ResidencyShape /\ JobsTyped /\ WorkersTyped /\ job[j].pc \in AtWork /\ job[j].pc \in AtWork \cup {"waiting"}
      /\ job[j].pc = "load"
  BY DEF ResidencyInv, ResidencyShape, Load, AtWork
<1>2. /\ Queue(j) \in DOMAIN queues /\ queues[Queue(j)] \in QueueRec /\ Route(j) \in Services /\ GroupOf(j) \in Groups
      /\ Group[Route(j)] = GroupOf(j) /\ Voice(j) \in Voices /\ Voice(j) # NoVoice
  BY <1>1, JobFacts DEF GroupOf
<1>. DEFINE f == [job[j] EXCEPT !.pc = "speak"]
            ins == queues[Queue(j)].inside
            rem == [queues[Queue(j)].remembers EXCEPT ![Route(j)] = Voice(j)]
            act == [queues[Queue(j)].active EXCEPT ![GroupOf(j)] = Route(j)]
            r == QueueAs(ins, rem, act)
<1>3. /\ f \in JobRec /\ f.pc = "speak" /\ f.queue = Queue(j) /\ Placed(j, f) /\ f.routes[f.cluster] = Route(j)
      /\ f.cluster = job[j].cluster /\ f.line = job[j].line
  BY <1>1, JobGoes DEF AtWork
<1>4. /\ Disturb(Route(j), j, "speak", Mixed) /\ spoilt' = spoilt \ {Route(j)} /\ ready' = ready /\ made' = made
      /\ holds' = [holds EXCEPT ![Route(j)] = Voice(j)]
  BY DEF Load, Holds
<1>5. /\ ins \in SUBSET Jobs /\ rem \in [Services -> Voices \cup {NoVoice}] /\ act \in [Groups -> Services \cup {NoService}]
      /\ act[GroupOf(j)] = Route(j) /\ \A g \in Groups \ {GroupOf(j)} : act[g] = queues[Queue(j)].active[g]
      /\ rem[Route(j)] = Voice(j) /\ \A s \in Services \ {Route(j)} : rem[s] = queues[Queue(j)].remembers[s]
  BY <1>2 DEF QueueRec
<1>6. Recorded(Queue(j), ins, rem, act)
  BY DEF Recorded, Load
<1>7. /\ job' \in [Jobs -> JobRec] /\ job'[j] = f
      /\ \A k \in Jobs \ {j} :
              SameTurn(job'[k], job[k]) /\ (job[k].pc \in AtWork /\ GroupOf(k) # GroupOf(j) => job'[k] = job[k])
  BY <1>1, <1>2, <1>4, DisturbFacts DEF AtWork, Helds
<1>. HIDE DEF f, rem, act
<1>8. r \in QueueRec /\ r.inside = ins /\ r.remembers = rem /\ r.active = act
  BY <1>5, QueueSet
<1>9. queues' = [queues EXCEPT ![Queue(j)] = r]
  BY <1>1, <1>2, <1>5, <1>6, QueueUpdate
<1>. HIDE DEF r
<1>10. /\ holds' \in [Services -> Helds] /\ holds'[Route(j)] = Voice(j)
       /\ \A s \in Services \ {Route(j)} : holds'[s] = holds[s]
  BY <1>1, <1>2, <1>4 DEF WorkersTyped, Helds
<1>11. ASSUME Len(queues) = 1, Capacity[GroupOf(j)] = 1
       PROVE  RecordFits(r, GroupOf(j)) /\ PlaceFits(j, f, r)
  <2>1. /\ VoiceKept(j)
        /\ \A s \in Services : Group[s] = GroupOf(j) /\ s \notin spoilt =>
              /\ queues[Queue(j)].remembers[s] \in {NoVoice, holds[s]}
              /\ holds[s] # NoVoice => Active(j) = s
    BY <1>1, <1>11, AloneFacts
  <2>2. Active(j) \in {NoService, Route(j)}
    BY <2>1, <1>1 DEF VoiceKept
  <2>3. ASSUME NEW s \in Services, Group[s] = GroupOf(j), s \notin spoilt'
        PROVE  rem[s] \in {NoVoice, holds'[s]} /\ (holds'[s] # NoVoice => act[GroupOf(j)] = s)
    <3>1. CASE s = Route(j)
      BY <3>1, <1>5, <1>10
    <3>2. CASE s # Route(j)
      <4>1. s \notin spoilt /\ s # NoService
        BY <2>3, <3>2, <1>4, VoiceAssumption
      <4>. QED
        BY <2>1, <2>2, <2>3, <3>2, <4>1, <1>5, <1>10
    <3>. QED
      BY <3>1, <3>2
  <2>4. RecordFits(r, GroupOf(j))
    BY <2>3, <1>8 DEF RecordFits
  <2>5. PlaceFits(j, f, r)
    BY <1>3, <1>5, <1>8, <1>10 DEF PlaceFits, Voice, Cluster
  <2>. QED
    BY <2>4, <2>5
<1>12. Within(j, r)
  BY <1>2, <1>4, <1>5, <1>7, <1>8, <1>10 DEF Within
<1>13. WorkersTyped' /\ RightVoiceUnlessSpoilt'
  BY <1>1, <1>4, <1>10 DEF WorkersTyped, ResidencyInv, RightVoiceUnlessSpoilt
<1>. QED
  BY <1>1, <1>3, <1>7, <1>8, <1>9, <1>11, <1>12, <1>13, TurnStep DEF AtWork

LEMMA SpeakKept == ASSUME ResidencyInv, NEW j \in Jobs, Speak(j) PROVE ResidencyInv'
<1>1. /\ ResidencyShape /\ JobsTyped /\ WorkersTyped /\ job[j].pc \in AtWork /\ job[j].pc \in AtWork \cup {"waiting"}
      /\ job[j].pc = "speak" /\ queues \in Seq(QueueRec)
  BY DEF ResidencyInv, ResidencyShape, QueuesTyped, Speak, AtWork
<1>2. /\ Queue(j) \in DOMAIN queues /\ queues[Queue(j)] \in QueueRec /\ Route(j) \in Services /\ GroupOf(j) \in Groups
      /\ Group[Route(j)] = GroupOf(j) /\ Voice(j) \in Voices /\ Voice(j) # NoVoice
  BY <1>1, JobFacts DEF GroupOf
<1>. DEFINE held == IF holds[Route(j)] = NoVoice THEN Plain ELSE holds[Route(j)]
            f == [[job[j] EXCEPT !.pc = "speaking"] EXCEPT !.hears = held]
            r == queues[Queue(j)]
<1>3. held \in Helds
  BY <1>1, <1>2 DEF WorkersTyped, Helds
<1>4. /\ f \in JobRec /\ f.pc = "speaking" /\ f.queue = Queue(j) /\ Placed(j, f) /\ f.routes[f.cluster] = Route(j)
      /\ f.cluster = job[j].cluster /\ f.line = job[j].line /\ f.hears = held
  <2>1. job[j] \in JobRec /\ Placed(j, job[j])
    BY <1>1 DEF JobsTyped
  <2>. QED
    BY <1>1, <1>3, <2>1 DEF JobRec, Placed, Queue, Route, AtWork
<1>5. /\ job' = [job EXCEPT ![j].pc = "speaking", ![j].hears = held] /\ holds' = [holds EXCEPT ![Route(j)] = held]
      /\ spoilt' = spoilt /\ ready' = ready /\ made' = made /\ queues' = queues
  BY DEF Speak, Holds
<1>6. job' = [job EXCEPT ![j] = f]
  BY <1>1, <1>5 DEF JobsTyped
<1>. HIDE DEF held, f
<1>7. job' \in [Jobs -> JobRec] /\ job'[j] = f /\ \A k \in Jobs \ {j} : job'[k] = job[k] /\ SameTurn(job'[k], job[k])
  BY <1>1, <1>4, <1>6, JobSet
<1>8. /\ holds' \in [Services -> Helds] /\ holds'[Route(j)] = held
      /\ \A s \in Services \ {Route(j)} : holds'[s] = holds[s]
  BY <1>1, <1>2, <1>3, <1>5 DEF WorkersTyped
<1>9. queues' = [queues EXCEPT ![Queue(j)] = r] /\ r \in QueueRec
  BY <1>1, <1>2, <1>5
<1>10. ASSUME Len(queues) = 1, Capacity[GroupOf(j)] = 1
       PROVE  RecordFits(r, GroupOf(j)) /\ PlaceFits(j, f, r)
  <2>1. /\ VoiceKept(j)
        /\ \A s \in Services : Group[s] = GroupOf(j) /\ s \notin spoilt =>
              /\ r.remembers[s] \in {NoVoice, holds[s]}
              /\ holds[s] # NoVoice => Active(j) = s
    BY <1>1, <1>10, AloneFacts
  <2>2. r.active[GroupOf(j)] = Route(j) /\ (Route(j) \notin spoilt => holds[Route(j)] = Voice(j))
    BY <2>1, <1>1 DEF VoiceKept, Active
  <2>3. Route(j) \notin spoilt => held = Voice(j)
    BY <2>2, <1>2 DEF held
  <2>4. RecordFits(r, GroupOf(j))
    BY <2>1, <2>2, <2>3, <1>5, <1>8 DEF RecordFits, Active
  <2>5. PlaceFits(j, f, r)
    BY <2>2, <2>3, <1>4, <1>5 DEF PlaceFits, Voice, Cluster
  <2>. QED
    BY <2>4, <2>5
<1>11. Within(j, r)
  BY <1>2, <1>5, <1>7, <1>8 DEF Within, Active
<1>12. WorkersTyped' /\ RightVoiceUnlessSpoilt'
  BY <1>1, <1>5, <1>8 DEF WorkersTyped, ResidencyInv, RightVoiceUnlessSpoilt
<1>. QED
  BY <1>1, <1>4, <1>7, <1>9, <1>10, <1>11, <1>12, TurnStep DEF AtWork

\* A job has clusters, and each of them has lines.
LEMMA ClusterFacts ==
  ASSUME NEW j \in Jobs
  PROVE  /\ DOMAIN Clusters[j] = 1..Len(Clusters[j]) /\ Len(Clusters[j]) \in Nat /\ Len(Clusters[j]) > 0
         /\ \A c \in DOMAIN Clusters[j] : /\ DOMAIN Clusters[j][c].voices = 1..Len(Clusters[j][c].voices)
                                          /\ Len(Clusters[j][c].voices) \in Nat /\ Len(Clusters[j][c].voices) > 0
                                          /\ Clusters[j][c].named \in Seq(Services)
<1>. DEFINE Rec == [named : Seq(Services), bound : BOOLEAN, reach : SUBSET Services, voices : Seq(Voices)]
<1>1. Clusters[j] \in Seq(Rec) /\ Clusters[j] # <<>> /\ \A c \in DOMAIN Clusters[j] : Clusters[j][c].voices # <<>>
  BY ClusterAssumption
<1>2. \A x \in Rec : x.voices \in Seq(Voices) /\ x.named \in Seq(Services)
  OBVIOUS
<1>. HIDE DEF Rec
<1>3. \A c \in DOMAIN Clusters[j] : Clusters[j][c].voices \in Seq(Voices) /\ Clusters[j][c].named \in Seq(Services)
  BY <1>1, <1>2
<1>. QED
  BY <1>1, <1>3

\* Another place of a job: its line, or its line and its cluster
IsAt(f, e, n, l, v) ==
  \/ n = e.cluster /\ f = [e EXCEPT !.line = l, !.pc = v]
  \/ f = [e EXCEPT !.cluster = n, !.line = l, !.pc = v]

LEMMA PlaceSet ==
  ASSUME NEW e \in JobRec, NEW n \in Nat, NEW l \in Nat, NEW v \in AtWork \cup {"waiting"},
         NEW f, IsAt(f, e, n, l, v)
  PROVE  /\ f \in JobRec /\ f.queue = e.queue /\ f.pc = v /\ f.routes = e.routes
         /\ f.cluster = n /\ f.line = l
BY DEF JobRec, IsAt

\* What a job is once a line is spoken: at its next line, its next cluster, or
\* its end.
LEMMA NextLine ==
  ASSUME ResidencyShape, NEW j \in Jobs, job[j].pc = "speaking", NEW f, f = Onward(j)
  PROVE  /\ f \in JobRec /\ f.queue = Queue(j) /\ Placed(j, f)
         /\ IF MoreLines(j) THEN f.pc = "evict" /\ f.routes[f.cluster] = Route(j)
            ELSE f.pc \in {"waiting", "done"}
<1>1. job[j] \in JobRec /\ Placed(j, job[j])
  BY DEF ResidencyShape, JobsTyped
<1>2. /\ job[j].routes \in [DOMAIN Clusters[j] -> Services]
      /\ job[j].cluster \in DOMAIN Clusters[j]
      /\ job[j].line \in DOMAIN Cluster(j).voices
  BY <1>1 DEF Placed, Cluster, AtWork
<1>3. /\ DOMAIN Clusters[j] = 1..Len(Clusters[j]) /\ Len(Clusters[j]) \in Nat
      /\ \A c \in DOMAIN Clusters[j] : /\ DOMAIN Clusters[j][c].voices = 1..Len(Clusters[j][c].voices)
                                       /\ Len(Clusters[j][c].voices) \in Nat /\ Len(Clusters[j][c].voices) > 0
  BY ClusterFacts
<1>4. job[j].line + 1 \in Nat /\ job[j].cluster + 1 \in Nat /\ job[j].cluster \in Nat
  BY <1>1 DEF JobRec
<1>5. CASE MoreLines(j)
  <2>1. IsAt(f, job[j], job[j].cluster, job[j].line + 1, "evict")
    BY <1>5 DEF Onward, IsAt
  <2>2. /\ f \in JobRec /\ f.queue = job[j].queue /\ f.pc = "evict" /\ f.routes = job[j].routes /\ f.cluster = job[j].cluster
        /\ f.line = job[j].line + 1
    BY <1>1, <1>4, <2>1, PlaceSet DEF AtWork
  <2>3. f.line \in DOMAIN Clusters[j][f.cluster].voices
    BY <1>2, <1>3, <1>5, <2>2 DEF Cluster, MoreLines
  <2>. QED
    BY <1>2, <1>5, <2>2, <2>3 DEF Placed, Route, Queue
<1>6. CASE ~MoreLines(j) /\ job[j].cluster < Len(Clusters[j])
  <2>1. IsAt(f, job[j], job[j].cluster + 1, 1, "waiting")
    BY <1>6 DEF Onward, IsAt
  <2>2. /\ f \in JobRec /\ f.queue = job[j].queue /\ f.pc = "waiting" /\ f.routes = job[j].routes
        /\ f.cluster = job[j].cluster + 1 /\ f.line = 1
    BY <1>1, <1>4, <2>1, PlaceSet DEF AtWork
  <2>3. f.cluster \in DOMAIN Clusters[j]
    BY <1>2, <1>3, <1>6, <2>2
  <2>4. f.line \in DOMAIN Clusters[j][f.cluster].voices
    BY <1>3, <2>2, <2>3
  <2>. QED
    BY <1>2, <1>6, <2>2, <2>3, <2>4 DEF Placed, Queue
<1>7. CASE ~MoreLines(j) /\ ~(job[j].cluster < Len(Clusters[j]))
  <2>1. f = [job[j] EXCEPT !.pc = "done"]
    BY <1>7 DEF Onward
  <2>. QED
    BY <1>1, <1>7, <2>1 DEF JobRec, Placed, Queue, AtWork
<1>. QED
  BY <1>5, <1>6, <1>7

LEMMA SpokenKept == ASSUME ResidencyInv, NEW j \in Jobs, Spoken(j) PROVE ResidencyInv'
<1>1. /\ ResidencyShape /\ JobsTyped /\ WorkersTyped /\ job[j].pc \in AtWork /\ job[j].pc \in AtWork \cup {"waiting"}
      /\ job[j].pc = "speaking" /\ queues \in Seq(QueueRec)
  BY DEF ResidencyInv, ResidencyShape, QueuesTyped, Spoken, AtWork
<1>2. /\ Queue(j) \in DOMAIN queues /\ queues[Queue(j)] \in QueueRec /\ Route(j) \in Services /\ GroupOf(j) \in Groups
      /\ Group[Route(j)] = GroupOf(j) /\ Voice(j) \in Voices /\ Voice(j) # NoVoice
  BY <1>1, JobFacts DEF GroupOf
<1>. DEFINE more == MoreLines(j)
            f == Onward(j)
            ins == IF more THEN queues[Queue(j)].inside ELSE queues[Queue(j)].inside \ {j}
            rem == [queues[Queue(j)].remembers EXCEPT ![Route(j)] = Voice(j)]
            act == queues[Queue(j)].active
            r == QueueAs(ins, rem, act)
<1>3. /\ f \in JobRec /\ f.queue = Queue(j) /\ Placed(j, f)
      /\ IF more THEN f.pc = "evict" /\ f.routes[f.cluster] = Route(j) ELSE f.pc \in {"waiting", "done"}
  BY <1>1, NextLine
<1>4. job' = [job EXCEPT ![j] = f] /\ holds' = holds /\ spoilt' = spoilt /\ ready' = ready
  BY DEF Spoken
<1>5. /\ ins \in SUBSET Jobs /\ rem \in [Services -> Voices \cup {NoVoice}] /\ act \in [Groups -> Services \cup {NoService}]
      /\ rem[Route(j)] = Voice(j) /\ \A s \in Services \ {Route(j)} : rem[s] = queues[Queue(j)].remembers[s]
  BY <1>2 DEF QueueRec
<1>6. Recorded(Queue(j), ins, rem, act)
  <2>1. CASE more
    <3>1. queues' = [queues EXCEPT ![Queue(j)].remembers = rem]
      BY <2>1 DEF Spoken
    <3>. QED
      BY <2>1, <3>1 DEF Recorded
  <2>2. CASE ~more
    <3>1. queues' = [Without(j) EXCEPT ![Queue(j)].remembers[Route(j)] = Voice(j)]
      BY <2>2 DEF Spoken
    <3>2. Without(j) = [queues EXCEPT ![Queue(j)].inside = ins]
      BY <2>2 DEF Without
    <3>3. Without(j)[Queue(j)].remembers = queues[Queue(j)].remembers
      BY <1>1, <1>2 DEF Without, QueueRec
    <3>4. queues' = [Without(j) EXCEPT ![Queue(j)].remembers = rem]
      BY <3>1, <3>3
    <3>. QED
      BY <3>2, <3>4 DEF Recorded
  <2>. QED
    BY <2>1, <2>2
<1>7. more \/ ~more
  OBVIOUS
<1>. HIDE DEF f, rem, more, ins, act
<1>8. job' \in [Jobs -> JobRec] /\ job'[j] = f /\ \A k \in Jobs \ {j} : job'[k] = job[k] /\ SameTurn(job'[k], job[k])
  BY <1>1, <1>3, <1>4, JobSet
<1>9. r \in QueueRec /\ r.inside = ins /\ r.remembers = rem /\ r.active = act
  BY <1>5, QueueSet
<1>10. queues' = [queues EXCEPT ![Queue(j)] = r]
  BY <1>1, <1>2, <1>5, <1>6, QueueUpdate
<1>. HIDE DEF r
<1>11. ASSUME Len(queues) = 1, Capacity[GroupOf(j)] = 1
       PROVE  RecordFits(r, GroupOf(j)) /\ PlaceFits(j, f, r) /\ (Route(j) \notin spoilt => job[j].hears = Voice(j))
  <2>1. /\ VoiceKept(j)
        /\ \A s \in Services : Group[s] = GroupOf(j) /\ s \notin spoilt =>
              /\ queues[Queue(j)].remembers[s] \in {NoVoice, holds[s]}
              /\ holds[s] # NoVoice => Active(j) = s
    BY <1>1, <1>11, AloneFacts
  <2>2. act[GroupOf(j)] = Active(j) /\ Active(j) = Route(j) /\ (Route(j) \notin spoilt => job[j].hears = Voice(j))
       /\ (Route(j) \notin spoilt => holds[Route(j)] = Voice(j))
    BY <2>1, <1>1 DEF VoiceKept, Active, act
  <2>3. RecordFits(r, GroupOf(j))
    BY <2>1, <2>2, <1>4, <1>5, <1>9 DEF RecordFits
  <2>4. PlaceFits(j, f, r)
    BY <1>3, <1>7 DEF PlaceFits
  <2>. QED
    BY <2>2, <2>3, <2>4
<1>12. Within(j, r)
  BY <1>2, <1>4, <1>5, <1>8, <1>9 DEF Within, Active, act
<1>13. WorkersTyped'
  BY <1>1, <1>4 DEF WorkersTyped
<1>14. RightVoiceUnlessSpoilt'
  <2>1. ASSUME NEW m \in made', Capacity[Group[m.on]] = 1
        PROVE  m.heard = m.asked \/ m.spoilt \/ m.queues > 1
    <3>1. CASE m \in made
      BY <3>1, <2>1 DEF ResidencyInv, RightVoiceUnlessSpoilt
    <3>2. CASE m \notin made
      <4>1. m = [by |-> j, on |-> Route(j), asked |-> Voice(j), heard |-> job[j].hears,
                 spoilt |-> Route(j) \in spoilt, queues |-> Len(queues)]
        BY <3>2, <2>1 DEF Spoken
      <4>2. m.on = Route(j) /\ m.asked = Voice(j) /\ m.heard = job[j].hears /\ m.queues = Len(queues)
            /\ m.spoilt = (Route(j) \in spoilt)
        BY <4>1
      <4>3. Len(queues) = 1 \/ Len(queues) > 1
        <5>1. Len(queues) \in Nat /\ DOMAIN queues = 1..Len(queues)
          BY <1>1
        <5>. QED
          BY <5>1, <1>2
      <4>4. CASE Len(queues) = 1
        BY <4>2, <4>4, <2>1, <1>2, <1>11
      <4>5. CASE Len(queues) # 1
        BY <4>2, <4>3, <4>5
      <4>. QED
        BY <4>4, <4>5
    <3>. QED
      BY <3>1, <3>2
  <2>. QED
    BY <2>1 DEF RightVoiceUnlessSpoilt
<1>15. /\ f.pc \in AtWork => f.routes[f.cluster] = Route(j)
       /\ r.inside = IF f.pc \in AtWork THEN queues[Queue(j)].inside ELSE queues[Queue(j)].inside \ {j}
  BY <1>3, <1>7, <1>9 DEF AtWork, ins
<1>. QED
  BY <1>1, <1>3, <1>8, <1>9, <1>10, <1>11, <1>12, <1>13, <1>14, <1>15, TurnStep

-----------------------------------------------------------------------------
\* A set of numbers that is not empty has a least one.
LEMMA Least == ASSUME NEW S \in SUBSET Nat, S # {} PROVE \E i \in S : \A k \in S : i <= k
<1>1. IsWellFoundedOn(OpToRel(<, Nat), Nat)
  BY NatLessThanWellFounded
<1>2. PICK i \in S : \A k \in S : ~(<<k, i>> \in OpToRel(<, Nat))
  BY <1>1, WFMin
<1>3. \A k \in S : k < i => <<k, i>> \in OpToRel(<, Nat)
  BY DEF OpToRel
<1>4. \A k \in S : ~(k < i)
  BY <1>2, <1>3
<1>. QED
  BY <1>4

\* The lines of a cluster are routed to a service, or none.
LEMMA RoutesTyped == ASSUME NEW j \in Jobs PROVE Routes(j) \in [DOMAIN Clusters[j] -> Services \cup {NoService}]
<1>1. ASSUME NEW c \in DOMAIN Clusters[j]
      PROVE  Resolve(Clusters[j][c]) \in Services \cup {NoService}
  <2>. DEFINE tried == Candidates(Clusters[j][c])
              fit == {i \in DOMAIN tried : tried[i] \in Enabled \cap ready /\ CanUse(tried[i], Clusters[j][c])}
  <2>1. tried \in Seq(Services)
    BY ClusterFacts, PriorityAssumption DEF Candidates
  <2>2. fit \in SUBSET Nat /\ \A i \in fit : tried[i] \in Services
    <3>. HIDE DEF tried
    <3>. QED
      BY <2>1
  <2>3. Resolve(Clusters[j][c]) = IF fit = {} THEN NoService ELSE tried[CHOOSE i \in fit : \A k \in fit : i <= k]
    BY DEF Resolve
  <2>. HIDE DEF tried, fit
  <2>4. fit # {} => (CHOOSE i \in fit : \A k \in fit : i <= k) \in fit
    BY <2>2, Least
  <2>. QED
    BY <2>2, <2>3, <2>4
<1>. QED
  BY <1>1 DEF Routes

\* A job begins and is routed, or finds a line that no service can speak.
LEMMA BeginJobKept == ASSUME ResidencyInv, NEW j \in Jobs, BeginJob(j) PROVE ResidencyInv'
<1>1. /\ ResidencyShape /\ JobsTyped /\ VoicesKept /\ queues \in Seq(QueueRec) /\ queues # <<>> /\ job[j].pc \notin AtWork
      /\ UNCHANGED <<ready, holds, queues, spoilt, made>>
  BY DEF ResidencyInv, ResidencyShape, QueuesTyped, BeginJob, AtWork
<1>2. job \in [Jobs -> JobRec] /\ job[j] \in JobRec /\ Placed(j, job[j])
  BY <1>1 DEF JobsTyped
<1>3. PICK v \in {"failed", "waiting"} :
         /\ job' = [job EXCEPT ![j].queue = Len(queues), ![j].routes = Routes(j), ![j].pc = v]
         /\ v = "waiting" => \A c \in DOMAIN Clusters[j] : Routes(j)[c] # NoService
  BY DEF BeginJob
<1>4. Routes(j) \in [DOMAIN Clusters[j] -> Services \cup {NoService}]
  BY RoutesTyped
<1>. DEFINE f == [[[job[j] EXCEPT !.queue = Len(queues)] EXCEPT !.routes = Routes(j)] EXCEPT !.pc = v]
<1>5. Len(queues) \in DOMAIN queues /\ Len(queues) \in Nat
  BY <1>1
<1>6. /\ f \in JobRec /\ f.pc = v /\ f.queue = Len(queues) /\ f.routes = Routes(j) /\ f.cluster = job[j].cluster
      /\ f.line = job[j].line
  <2>1. Routes(j) \in RoutesMade
    BY <1>4 DEF RoutesMade
  <2>. HIDE DEF RoutesMade, Routes
  <2>. QED
    BY <1>2, <1>5, <2>1 DEF JobRec
<1>7. job' = [job EXCEPT ![j] = f]
  BY <1>2, <1>3
<1>. HIDE DEF f
<1>8. job' \in [Jobs -> JobRec] /\ job'[j] = f /\ \A k \in Jobs \ {j} : job'[k] = job[k] /\ SameTurn(job'[k], job[k])
  BY <1>1, <1>6, <1>7, JobSet
<1>9. f.pc = "waiting" => Placed(j, f)
  <2>1. job[j].cluster = 1 /\ job[j].line = 1
    BY <1>2 DEF Placed, BeginJob
  <2>2. f.pc = "waiting" => f.routes \in [DOMAIN Clusters[j] -> Services]
    BY <1>3, <1>4, <1>6
  <2>3. 1 \in DOMAIN Clusters[j] /\ 1 \in DOMAIN Clusters[j][1].voices
    BY ClusterFacts
  <2>. QED
    BY <2>1, <2>2, <2>3, <1>6 DEF Placed
<1>10. f.pc \in {"failed", "waiting"} /\ Placed(j, f)
  BY <1>3, <1>6, <1>9 DEF Placed, AtWork
<1>11. \A k \in Jobs : (job[k].pc)' \in AtWork => k # j /\ job'[k] = job[k] /\ job[k].pc \in AtWork
  BY <1>8, <1>10 DEF AtWork
<1>12. JobsTyped'
  <2>1. \A k \in Jobs \ {j} : Placed(k, job[k])'
    BY <1>1, <1>8, SamePlace DEF JobsTyped
  <2>. QED
    BY <1>1, <1>5, <1>6, <1>8, <1>10, <2>1 DEF JobsTyped
<1>13. SectionsKept'
  <2>1. ASSUME NEW q \in DOMAIN queues
        PROVE  queues[q].inside = {k \in Jobs : job'[k].queue = q /\ job'[k].pc \in AtWork}
    <3>1. queues[q].inside = {k \in Jobs : job[k].queue = q /\ job[k].pc \in AtWork}
      BY <1>1 DEF ResidencyShape, SectionsKept
    <3>. QED
      BY <3>1, <1>1, <1>8, <1>11 DEF AtWork
  <2>. QED
    BY <2>1, <1>1 DEF SectionsKept
<1>14. \A k \in Jobs \ {j} : /\ Queue(k)' = Queue(k) /\ Route(k)' = Route(k) /\ GroupOf(k)' = GroupOf(k) /\ Voice(k)' = Voice(k)
  BY <1>8, SamePlace
<1>15. SlotsKept'
  BY <1>1, <1>11, <1>14 DEF ResidencyShape, SlotsKept, Lone
<1>16. ResidencyShape'
  BY <1>1, <1>12, <1>13, <1>15 DEF ResidencyShape, WorkersTyped, QueuesTyped, ActiveKept
<1>17. ASSUME NEW k \in Jobs, (job[k].pc)' \in AtWork
       PROVE  job[k].pc \in AtWork /\ GroupOf(k)' = GroupOf(k) /\ (VoiceKept(k) => VoiceKept(k)')
  <2>1. k # j /\ job'[k] = job[k] /\ job[k].pc \in AtWork
    BY <1>11, <1>17
  <2>2. Queue(k)' = Queue(k) /\ Route(k)' = Route(k) /\ GroupOf(k)' = GroupOf(k) /\ Voice(k)' = Voice(k)
    BY <1>14, <2>1
  <2>3. Active(k)' = Active(k)
    BY <1>1, <2>2 DEF Active
  <2>. QED
    BY <1>1, <2>1, <2>2, <2>3 DEF VoiceKept
<1>18. VoicesKept'
  BY <1>1, <1>17 DEF VoicesKept, ServiceKept
<1>19. RightVoiceUnlessSpoilt'
  BY <1>1 DEF ResidencyInv, RightVoiceUnlessSpoilt
<1>. QED
  BY <1>16, <1>18, <1>19 DEF ResidencyInv

-----------------------------------------------------------------------------
\* A worker dies with the lines it speaks.
LEMMA DiesKept == ASSUME ResidencyInv, NEW s \in Services, Dies(s) PROVE ResidencyInv'
<1>1. /\ ResidencyShape /\ JobsTyped /\ WorkersTyped /\ VoicesKept /\ queues \in Seq(QueueRec) /\ queues # <<>>
      /\ job \in [Jobs -> JobRec] /\ holds \in [Services -> Helds]
  BY DEF ResidencyInv, ResidencyShape, QueuesTyped, JobsTyped, WorkersTyped
<1>2. WorkersTyped' /\ spoilt' = spoilt \cup {s} /\ \A x \in Services \ {s} : holds'[x] = holds[x]
  BY <1>1 DEF Dies, WorkersTyped, Holds, Helds
<1>. DEFINE cut == {j \in Jobs : job[j].pc = "speaking" /\ Route(j) = s}
<1>3. /\ job' = [j \in Jobs |-> IF j \in cut THEN [job[j] EXCEPT !.pc = "failed"] ELSE job[j]]
      /\ queues' = [q \in DOMAIN queues |-> [queues[q] EXCEPT !.inside = queues[q].inside \ cut]]
      /\ made' = made
  BY DEF Dies
<1>4. \A j \in cut : j \in Jobs /\ job[j].pc = "speaking" /\ Route(j) = s
  OBVIOUS
<1>5. \A j \in Jobs : job[j].pc = "speaking" /\ Route(j) = s => j \in cut
  OBVIOUS
<1>. HIDE DEF cut
<1>6. ASSUME NEW j \in cut
      PROVE  /\ job'[j] \in JobRec /\ (job[j].pc)' = "failed" /\ (job[j].queue)' = job[j].queue
  <2>1. j \in Jobs
    BY <1>4
  <2>. DEFINE f == [job[j] EXCEPT !.pc = "failed"]
  <2>2. f \in JobRec /\ f.pc = "failed" /\ f.queue = Queue(j)
    BY <1>1, <2>1, JobGoes
  <2>3. job'[j] = f
    BY <1>3, <1>6, <2>1
  <2>. QED
    BY <2>2, <2>3 DEF Queue
<1>7. \A j \in Jobs \ cut : job'[j] = job[j] /\ SameTurn(job'[j], job[j])
  BY <1>3 DEF SameTurn
<1>8. job' \in [Jobs -> JobRec]
  <2>. HIDE DEF JobRec
  <2>. QED
    BY <1>1, <1>3, <1>6, <1>7
<1>9. ASSUME NEW q \in DOMAIN queues
      PROVE  /\ queues'[q] \in QueueRec /\ queues'[q].inside = queues[q].inside \ cut
             /\ queues'[q].remembers = queues[q].remembers /\ queues'[q].active = queues[q].active
  <2>1. queues[q].inside \ cut \in SUBSET Jobs
    BY <1>1 DEF ResidencyShape, SectionsKept
  <2>. DEFINE r == [queues[q] EXCEPT !.inside = queues[q].inside \ cut]
  <2>2. queues'[q] = r
    BY <1>3
  <2>3. /\ r \in QueueRec /\ r.inside = queues[q].inside \ cut /\ r.remembers = queues[q].remembers
        /\ r.active = queues[q].active
    BY <1>1, <2>1, QueueKept
  <2>. HIDE DEF r
  <2>. QED
    BY <2>2, <2>3
<1>10. queues' \in Seq(QueueRec) /\ DOMAIN queues' = DOMAIN queues /\ Len(queues') = Len(queues) /\ queues' # <<>>
  <2>. HIDE DEF QueueRec
  <2>1. DOMAIN queues' = DOMAIN queues /\ DOMAIN queues = 1..Len(queues) /\ Len(queues) \in Nat
    BY <1>1, <1>3
  <2>2. queues' \in [1..Len(queues) -> QueueRec]
    BY <1>3, <1>9, <2>1
  <2>3. queues' \in Seq(QueueRec)
    BY <2>1, <2>2
  <2>4. Len(queues') = Len(queues)
    BY <2>1, <2>3
  <2>. QED
    BY <1>1, <2>1, <2>3, <2>4
<1>11. QueuesTyped'
  <2>1. ASSUME NEW q \in DOMAIN queues
        PROVE  IsFiniteSet(queues'[q].inside)
    <3>1. IsFiniteSet(queues[q].inside)
      BY <1>1 DEF ResidencyShape, QueuesTyped
    <3>. QED
      BY <3>1, <1>9, FS_Subset
  <2>. QED
    BY <2>1, <1>10 DEF QueuesTyped
<1>12. JobsTyped'
  <2>1. ASSUME NEW k \in Jobs
        PROVE  (job[k].queue)' \in DOMAIN queues' /\ Placed(k, job[k])'
    <3>1. job[k].queue \in DOMAIN queues /\ Placed(k, job[k])
      BY <1>1 DEF JobsTyped
    <3>2. CASE k \in cut
      BY <3>1, <3>2, <1>6, <1>10 DEF Placed, AtWork
    <3>3. CASE k \notin cut
      BY <3>1, <3>3, <1>7, <1>10, SamePlace DEF SameTurn
    <3>. QED
      BY <3>2, <3>3
  <2>. QED
    BY <2>1, <1>8 DEF JobsTyped
<1>13. \A k \in Jobs : (job[k].pc)' \in AtWork => k \notin cut /\ job'[k] = job[k] /\ job[k].pc \in AtWork
  BY <1>6, <1>7 DEF AtWork
<1>14. \A k \in Jobs : job[k].pc \in AtWork /\ k \notin cut => (job[k].pc)' \in AtWork /\ (job[k].queue)' = job[k].queue
  BY <1>7
<1>15. SectionsKept'
  <2>1. ASSUME NEW q \in DOMAIN queues
        PROVE  queues'[q].inside = {k \in Jobs : job'[k].queue = q /\ job'[k].pc \in AtWork}
    <3>1. queues[q].inside = {k \in Jobs : job[k].queue = q /\ job[k].pc \in AtWork}
      BY <1>1 DEF ResidencyShape, SectionsKept
    <3>2. queues'[q].inside = queues[q].inside \ cut
      BY <1>9
    <3>. QED
      BY <3>1, <3>2, <1>13, <1>14
  <2>. QED
    BY <2>1, <1>10 DEF SectionsKept
<1>16. \A k \in Jobs \ cut : Queue(k)' = Queue(k) /\ Route(k)' = Route(k) /\ GroupOf(k)' = GroupOf(k) /\ Voice(k)' = Voice(k)
  BY <1>7, SamePlace
<1>17. SlotsKept'
  BY <1>1, <1>13, <1>16 DEF ResidencyShape, SlotsKept, Lone
<1>18. ActiveKept'
  BY <1>1, <1>9, <1>10 DEF ResidencyShape, ActiveKept
<1>19. ResidencyShape'
  BY <1>2, <1>11, <1>12, <1>15, <1>17, <1>18 DEF ResidencyShape
<1>20. ASSUME Len(queues) = 1
       PROVE  /\ \A x \in Services : ServiceKept(x) => ServiceKept(x)'
              /\ \A k \in Jobs : (job[k].pc)' \in AtWork =>
                   job[k].pc \in AtWork /\ GroupOf(k)' = GroupOf(k) /\ (VoiceKept(k) => VoiceKept(k)')
  <2>1. 1 \in DOMAIN queues /\ \A k \in Jobs : Queue(k) = 1
    BY <1>1, <1>20, OneQueue
  <2>2. queues'[1].remembers = queues[1].remembers /\ queues'[1].active = queues[1].active
    BY <1>9, <2>1
  <2>3. \A x \in Services : ServiceKept(x) => ServiceKept(x)'
    BY <1>2, <2>2 DEF ServiceKept
  <2>4. ASSUME NEW k \in Jobs, (job[k].pc)' \in AtWork
        PROVE  job[k].pc \in AtWork /\ GroupOf(k)' = GroupOf(k) /\ (VoiceKept(k) => VoiceKept(k)')
    <3>1. k \notin cut /\ job'[k] = job[k] /\ job[k].pc \in AtWork
      BY <1>13, <2>4
    <3>2. Queue(k)' = Queue(k) /\ Route(k)' = Route(k) /\ GroupOf(k)' = GroupOf(k) /\ Voice(k)' = Voice(k)
      BY <1>16, <3>1
    <3>3. Active(k)' = Active(k)
      BY <2>1, <2>2, <3>2 DEF Active
    <3>4. Route(k) \in Services
      BY <1>1, <3>1, JobFacts
    <3>5. Route(k) \notin spoilt' => Route(k) \notin spoilt /\ holds'[Route(k)] = holds[Route(k)]
      BY <1>2, <3>4
    <3>. QED
      BY <3>1, <3>2, <3>3, <3>5 DEF VoiceKept
  <2>. QED
    BY <2>3, <2>4
<1>21. VoicesKept'
  BY <1>1, <1>10, <1>20 DEF VoicesKept
<1>22. RightVoiceUnlessSpoilt'
  BY <1>3 DEF ResidencyInv, RightVoiceUnlessSpoilt
<1>. QED
  BY <1>19, <1>21, <1>22 DEF ResidencyInv

\* A step that leaves all but the workers that are up.
LEMMA Unmoved ==
  ASSUME ResidencyInv, WorkersTyped', UNCHANGED <<holds, queues, job, spoilt, made>>
  PROVE  ResidencyInv'
<1>1. ResidencyShape'
  BY DEF ResidencyInv, ResidencyShape, QueuesTyped, JobsTyped, Placed, SectionsKept, SlotsKept, Lone, ActiveKept,
         Queue, GroupOf, Route
<1>2. VoicesKept'
  BY DEF ResidencyInv, VoicesKept, ServiceKept, VoiceKept, Active, Queue, GroupOf, Route, Voice, Cluster
<1>. QED
  BY <1>1, <1>2 DEF ResidencyInv, RightVoiceUnlessSpoilt

LEMMA StartsKept == ASSUME ResidencyInv, NEW s \in Services, Starts(s) PROVE ResidencyInv'
BY Unmoved DEF Starts, ResidencyInv, ResidencyShape, WorkersTyped

LEMMA NewQueueTyped == NewQueue \in QueueRec /\ NewQueue.inside = {} /\ \A g \in Groups : NewQueue.active[g] = NoService
BY DEF NewQueue, QueueRec

\* A new queue has no job yet, and there are two now.
LEMMA ApplyRegistryKept == ASSUME ResidencyInv, ApplyRegistry PROVE ResidencyInv'
<1>1. /\ ResidencyShape /\ JobsTyped /\ queues \in Seq(QueueRec) /\ queues # <<>>
      /\ UNCHANGED <<ready, holds, job, spoilt, made>> /\ queues' = Append(queues, NewQueue)
  BY DEF ResidencyInv, ResidencyShape, QueuesTyped, ApplyRegistry
<1>2. /\ queues' \in Seq(QueueRec) /\ Len(queues') = Len(queues) + 1 /\ Len(queues) \in Nat /\ Len(queues) # 0
      /\ DOMAIN queues = 1..Len(queues) /\ DOMAIN queues' = 1..(Len(queues) + 1)
      /\ queues'[Len(queues) + 1] = NewQueue
      /\ \A q \in DOMAIN queues : queues'[q] = queues[q]
  <2>. HIDE DEF QueueRec, NewQueue
  <2>1. NewQueue \in QueueRec
    BY NewQueueTyped
  <2>. QED
    BY <1>1, <2>1
<1>3. DOMAIN queues' = DOMAIN queues \cup {Len(queues) + 1} /\ Len(queues) + 1 \notin DOMAIN queues /\ queues' # <<>>
  BY <1>2
<1>4. Len(queues') # 1
  BY <1>2
<1>5. QueuesTyped'
  <2>1. IsFiniteSet(NewQueue.inside)
    BY NewQueueTyped, FS_EmptySet
  <2>. QED
    BY <1>1, <1>2, <1>3, <2>1 DEF ResidencyShape, QueuesTyped
<1>6. JobsTyped'
  BY <1>1, <1>3 DEF JobsTyped, Placed
<1>7. SectionsKept'
  <2>1. \A j \in Jobs : job[j].queue # Len(queues) + 1
    BY <1>1, <1>3 DEF JobsTyped
  <2>2. queues'[Len(queues) + 1].inside = {j \in Jobs : job'[j].queue = Len(queues) + 1 /\ job'[j].pc \in AtWork}
    BY <1>1, <1>2, <2>1, NewQueueTyped
  <2>3. ASSUME NEW q \in DOMAIN queues
        PROVE  queues'[q].inside = {j \in Jobs : job'[j].queue = q /\ job'[j].pc \in AtWork}
    BY <1>1, <1>2 DEF ResidencyShape, SectionsKept
  <2>. QED
    BY <1>3, <2>2, <2>3 DEF SectionsKept
<1>8. SlotsKept'
  BY <1>1 DEF ResidencyShape, SlotsKept, Lone, Queue, GroupOf, Route
<1>9. ActiveKept'
  BY <1>1, <1>2, <1>3, NewQueueTyped DEF ResidencyShape, ActiveKept
<1>10. ResidencyShape'
  BY <1>1, <1>5, <1>6, <1>7, <1>8, <1>9 DEF ResidencyShape, WorkersTyped
<1>11. VoicesKept'
  BY <1>4 DEF VoicesKept
<1>12. RightVoiceUnlessSpoilt'
  BY <1>1 DEF ResidencyInv, RightVoiceUnlessSpoilt
<1>. QED
  BY <1>10, <1>11, <1>12 DEF ResidencyInv

-----------------------------------------------------------------------------
LEMMA ResidencyStarts == ResidencyInit => ResidencyInv
<1>. SUFFICES ASSUME ResidencyInit PROVE ResidencyInv
  OBVIOUS
<1>1. /\ ready = Services /\ holds = [s \in Services |-> NoVoice] /\ queues = <<NewQueue>>
      /\ spoilt = {} /\ made = {}
      /\ job = [j \in Jobs |-> [pc |-> "start", queue |-> 1, routes |-> <<>>, cluster |-> 1, line |-> 1,
                               hears |-> NoVoice]]
  BY DEF ResidencyInit
<1>2. DOMAIN queues = {1} /\ queues[1] = NewQueue /\ queues \in Seq(QueueRec) /\ queues # <<>>
  <2>. HIDE DEF QueueRec, NewQueue
  <2>. QED
    BY <1>1, NewQueueTyped
<1>3. WorkersTyped
  BY <1>1 DEF WorkersTyped, Helds
<1>4. QueuesTyped
  BY <1>2, NewQueueTyped, FS_EmptySet DEF QueuesTyped
<1>5. \A j \in Jobs : job[j].pc = "start" /\ job[j].queue = 1 /\ job[j].cluster = 1 /\ job[j].line = 1
  BY <1>1
<1>6. job \in [Jobs -> JobRec]
  BY <1>1 DEF JobRec, RoutesMade, Helds
<1>7. JobsTyped
  BY <1>2, <1>5, <1>6 DEF JobsTyped, Placed, AtWork
<1>8. SectionsKept /\ SlotsKept /\ ActiveKept
  BY <1>2, <1>5, NewQueueTyped DEF SectionsKept, SlotsKept, ActiveKept, AtWork
<1>9. VoicesKept
  <2>1. \A s \in Services : queues[1].remembers[s] = NoVoice /\ holds[s] = NoVoice
    BY <1>1, <1>2 DEF NewQueue
  <2>. QED
    BY <2>1, <1>5 DEF VoicesKept, ServiceKept, AtWork
<1>10. RightVoiceUnlessSpoilt
  BY <1>1 DEF RightVoiceUnlessSpoilt
<1>. QED
  BY <1>3, <1>4, <1>7, <1>8, <1>9, <1>10 DEF ResidencyInv, ResidencyShape

LEMMA ResidencyStep == ResidencyInv /\ [ResidencyNext]_residencyVars => ResidencyInv'
<1>. SUFFICES ASSUME ResidencyInv, [ResidencyNext]_residencyVars PROVE ResidencyInv'
  OBVIOUS
<1>1. ASSUME NEW j \in Jobs, BeginJob(j) \/ Enter(j) \/ Evict(j) \/ EvictFails(j) \/ Reuse(j) \/ Load(j) \/ LoadFails(j)
                               \/ Speak(j) \/ Spoken(j) \/ SpeakFails(j) \/ Cancel(j)
      PROVE  ResidencyInv'
  BY <1>1, BeginJobKept, EnterKept, EvictKept, EvictFailsKept, ReuseKept, LoadKept, LoadFailsKept, SpeakKept, SpokenKept,
     SpeakFailsKept, CancelKept
<1>2. ASSUME NEW s \in Services, Dies(s) \/ Starts(s)
      PROVE  ResidencyInv'
  BY <1>2, DiesKept, StartsKept
<1>3. CASE UNCHANGED residencyVars
  BY <1>3, Unmoved DEF residencyVars, ResidencyInv, ResidencyShape, WorkersTyped
<1>. QED
  BY <1>1, <1>2, <1>3, ApplyRegistryKept DEF ResidencyNext

\* The services of a group of one slot that keep a voice are the active one.
LEMMA VoicesFollow == ResidencyInv => VoicesKnown
<1>. SUFFICES ASSUME ResidencyInv PROVE VoicesKnown
  OBVIOUS
<1>1. ResidencyShape /\ VoicesKept /\ queues \in Seq(QueueRec) /\ queues # <<>>
  BY DEF ResidencyInv, ResidencyShape, QueuesTyped
<1>2. ResidencyTypeOK
  <2>1. ASSUME NEW q \in DOMAIN queues
        PROVE  /\ queues[q].remembers \in [Services -> Voices \cup {NoVoice}]
               /\ queues[q].active \in [Groups -> Services \cup {NoService}]
    <3>1. queues[q] \in QueueRec
      BY <1>1
    <3>. QED
      BY <3>1 DEF QueueRec
  <2>. QED
    BY <1>1, <2>1 DEF ResidencyShape, WorkersTyped, SectionsKept, ResidencyTypeOK, AtWork, Helds
<1>3. OneResident
  <2>1. SUFFICES ASSUME NEW g \in Groups, Capacity[g] = 1, ~(Len(queues) > 1),
                        {s \in Services : Group[s] = g /\ holds[s] # NoVoice} \cap spoilt = {}
                 PROVE  Cardinality({s \in Services : Group[s] = g /\ holds[s] # NoVoice}) <= 1
    BY DEF OneResident
  <2>. DEFINE kept == {s \in Services : Group[s] = g /\ holds[s] # NoVoice}
              a == queues[1].active[g]
  <2>2. Len(queues) = 1
    <3>1. Len(queues) \in Nat /\ DOMAIN queues = 1..Len(queues) /\ Len(queues) # 0
      <4>. HIDE DEF QueueRec
      <4>. QED
        BY <1>1
    <3>. QED
      BY <2>1, <3>1
  <2>3. kept \subseteq {a}
    BY <1>1, <2>1, <2>2 DEF VoicesKept, ServiceKept
  <2>4. kept = {} \/ kept = {a}
    BY <2>3
  <2>. HIDE DEF kept, a
  <2>5. Cardinality({}) = 0 /\ Cardinality({a}) = 1
    BY FS_EmptySet, FS_Singleton
  <2>6. Cardinality(kept) \in {0, 1}
    BY <2>4, <2>5
  <2>. QED
    BY <2>6 DEF kept
<1>. QED
  BY <1>2, <1>3 DEF ResidencyInv, VoicesKnown

\* The queue's memory of the voices, and what it takes for it to be right,
\* hold of every number of services, jobs and queues.
THEOREM ResidencyInvariant == ResidencySpec => []ResidencyInv
BY ResidencyStarts, ResidencyStep, PTL DEF ResidencySpec

\* _evict_other_service and the load signatures: a group of one slot keeps one
\* voice, and a line is spoken with the voice it asks for, unless the worker
\* was spoilt or the registry changed.
THEOREM VoicesStayKnown == ResidencySpec => []VoicesKnown
BY ResidencyInvariant, VoicesFollow, PTL
=============================================================================
