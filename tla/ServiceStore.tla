---------------------------- MODULE ServiceStore ----------------------------
(***************************************************************************)
(* The file of services and the registry the application answers from      *)
(* (backend/app/services.py, service_store_io.py, portable_services.py).   *)
(*                                                                         *)
(* Threads of the application save a client's list, configure one service  *)
(* or reload the file; they hold the guards of all components from the     *)
(* first read to the publication.  Another process registers portable      *)
(* packages in the same file.  Both read, merge and replace the file under *)
(* the lock .services.lock, for which they wait ten seconds at most.       *)
(*                                                                         *)
(* A record is a stamp, new at every edit, and the locator of a portable   *)
(* package; all packages here are of one component.                        *)
(***************************************************************************)
EXTENDS Naturals, FiniteSets

CONSTANTS Ids, Absent,
          NoFile,       \* no services.json, and no other file to read instead
          OtherFile,    \* none, but there is a committed or an example one
          Unknown,      \* a baseline of None
          Packages, NoPackage,
          Callers,      \* threads of the application
          Registrar,    \* the process that registers packages
          Defaults,     \* the ids of default_local
          MaxAsks,     \* bound on the requests
          MaxStarts     \* bound on the starts of the application

ASSUME IdAssumption == Defaults \subseteq Ids /\ NoPackage \notin Packages
ASSUME CallerAssumption == Registrar \notin Callers

VARIABLES
  file,       \* data/local/services.json, a record or Absent for each id; or
              \* NoFile or OtherFile
  lock,       \* who holds .services.lock
  guards,     \* which thread holds the guards of all components
  registry,   \* app.state.service_registry: its records, whether it was
              \* loaded from a missing file, and the write it comes from
  who,        \* what each caller is doing
  writes,     \* the number of writes of the file
  intent,     \* history: the last edit of each id, in the order of the writes
  asks, starts

storeVars == <<file, lock, guards, registry, who, writes, intent, asks, starts>>

Actors == Callers \cup {Registrar}
Nobody == "nobody"

Record(n, l) == [stamp |-> n, at |-> l]
Records == [stamp : 0..MaxAsks, at : Packages \cup {NoPackage}]
Lists == [Ids -> Records \cup {Absent}]

ASSUME NamesAssumption == MaxAsks \in Nat /\ NoFile \notin Lists /\ OtherFile \notin Lists \cup {NoFile} /\ Unknown \notin Lists /\ Nobody \notin Actors

Nothing == [i \in Ids |-> Absent]
DefaultLocal == [i \in Ids |-> IF i \in Defaults THEN Record(0, NoPackage) ELSE Absent]
Template == [i \in Ids |-> Record(0, NoPackage)]

Idle == [pc |-> "idle", kind |-> "none", list |-> Nothing, base |-> Unknown,
         missing |-> FALSE, at |-> 0, out |-> Nothing]

\* _resolve_service_settings_paths, ServiceRegistry.load: what is read from
\* another file does not count as missing from this one.
Loaded == [list |-> CASE file = NoFile -> DefaultLocal [] file = OtherFile -> Template [] OTHER -> file,
           missing |-> file = NoFile, at |-> writes]

\* read_service_document, of a file that is there or not
Current == IF file \in {NoFile, OtherFile} THEN Nothing ELSE file

StoreInit ==
  /\ file \in {NoFile, OtherFile, DefaultLocal}
  /\ lock = Nobody
  /\ guards = Nobody
  /\ writes = 0
  /\ registry = Loaded
  /\ who = [a \in Actors |-> Idle]
  /\ intent = Current
  /\ asks = 0
  /\ starts = 0

-----------------------------------------------------------------------------
(***************************************************************************)
(* Lists of services.                                                      *)
(***************************************************************************)
\* _managed_portable_locator_fingerprints
Managed(s) == {<<i, s[i].at>> : i \in {j \in Ids : s[j] # Absent /\ s[j].at # NoPackage}}

\* require_unique_service_identities
Unique(s) == \A m, n \in Managed(s) : m[2] = n[2] => m[1] = n[1]

\* What a save changes: a registry that was loaded from no file gives back
\* every record it has.
Touched(w) ==
  IF w.base = Unknown THEN Ids
  ELSE {i \in Ids : w.list[i] # w.base[i] \/ (w.missing /\ w.list[i] # Absent)}

\* Mutant: the list is written as it was sent.
WholeList(w, current) == w.list

\* _merge_service_delta
MergeDelta(w, current) == [i \in Ids |-> IF i \in Touched(w) THEN w.list[i] ELSE current[i]]

\* PortableServiceStore.upsert and replace_component: the package's record
\* goes, or the component's.
Registers(w) == w.kind \in {"upsert", "replace"}
Replaced(w, current) ==
  LET packages == IF w.kind = "upsert" THEN {w.list[i].at : i \in {k \in Ids : w.list[k] # Absent}} ELSE Packages
  IN {i \in Ids : current[i] # Absent /\ current[i].at \in packages}
Register(w, current) ==
  [i \in Ids |-> IF w.list[i] # Absent THEN w.list[i]
                 ELSE IF i \in Replaced(w, current) THEN Absent ELSE current[i]]

Merged(w, current) == IF Registers(w) THEN Register(w, current) ELSE MergeDelta(w, current)

\* Mutant: the registry in use is not asked.
FileLocatorsKept(w, current, merged) == Managed(merged) = Managed(current)

\* The checks of ServiceRegistry.save: neither the file's locators nor those
\* of the registry in use may change.
LocatorsKept(w, current, merged) ==
  /\ Managed(merged) = Managed(current)
  /\ w.base # Unknown => Managed(merged) = Managed(w.base)

Accepted(a, merged) ==
  /\ Unique(merged)
  /\ Registers(who[a]) =>
       \A i \in Ids : who[a].list[i] # Absent => Current[i] = Absent \/ i \in Replaced(who[a], Current)
  /\ a \in Callers => LocatorsKept(who[a], Current, merged)

-----------------------------------------------------------------------------
(***************************************************************************)
(* The application: what a client sends is its view of the settings with   *)
(* one record changed, added or taken out.                                 *)
(***************************************************************************)
Set(a, f) == who' = [who EXCEPT ![a] = f]
NewStamp == asks + 1
Changed(s, locators) ==
  UNION {{[s EXCEPT ![i] = Record(NewStamp, l)] : l \in locators} \cup {[s EXCEPT ![i] = Absent]} : i \in Ids}

\* get_service_settings
View(t) ==
  /\ who[t].pc = "idle"
  /\ asks < MaxAsks
  /\ Set(t, [Idle EXCEPT !.pc = "viewing", !.list = registry.list])
  /\ UNCHANGED <<file, lock, guards, registry, writes, intent, asks, starts>>

\* put_service_settings, open_source_tts_configure
Ask(t, kind) ==
  /\ asks < MaxAsks
  /\ asks' = asks + 1
  /\ \/ /\ kind = "save" /\ who[t].pc = "viewing"
        /\ \E s \in Changed(who[t].list, Packages \cup {NoPackage}) :
             Set(t, [Idle EXCEPT !.pc = "asked", !.kind = kind, !.list = s])
     \/ /\ kind = "configure" /\ who[t].pc = "idle"
        /\ \E i \in Ids : Set(t, [Idle EXCEPT !.pc = "asked", !.kind = kind,
                                              !.list[i] = Record(NewStamp, NoPackage)])
  /\ UNCHANGED <<file, lock, guards, registry, writes, intent, starts>>

\* reload_service_settings
AskReload(t) ==
  /\ who[t].pc = "idle"
  /\ asks < MaxAsks
  /\ asks' = asks + 1
  /\ Set(t, [Idle EXCEPT !.pc = "asked", !.kind = "reload"])
  /\ UNCHANGED <<file, lock, guards, registry, writes, intent, starts>>

\* configure_open_source_tts: the registry's list with one endpoint replaced
Configured(s) == [i \in Ids |-> IF s[i] # Absent THEN s[i] ELSE registry.list[i]]

GuardsFree(t) == guards = Nobody

\* run_generic_transaction, publish_without_locator_changes, with_services
Begin(t) ==
  /\ who[t].pc = "asked"
  /\ GuardsFree(t)
  /\ guards' = t
  /\ Set(t, IF who[t].kind = "reload" THEN [who[t] EXCEPT !.pc = "reading"]
            ELSE [who[t] EXCEPT !.pc = "locking", !.base = registry.list, !.missing = registry.missing,
                    !.list = IF who[t].kind = "configure" THEN Configured(who[t].list) ELSE who[t].list])
  /\ UNCHANGED <<file, lock, registry, writes, intent, asks, starts>>

Leave(t) == guards' = IF guards = t THEN Nobody ELSE guards

\* load_candidate and the check of publish_without_locator_changes; the file
\* is read without its lock
ReadReload(t) ==
  /\ who[t].pc = "reading"
  /\ IF Managed(Loaded.list) = Managed(registry.list)
     THEN /\ Set(t, [who[t] EXCEPT !.pc = "reloading", !.list = Loaded.list,
                                   !.missing = Loaded.missing, !.at = writes])
          /\ UNCHANGED guards
     ELSE Set(t, Idle) /\ Leave(t)
  /\ UNCHANGED <<file, lock, registry, writes, intent, asks, starts>>

\* _apply_registry of a reload
PublishReload(t) ==
  /\ who[t].pc = "reloading"
  /\ registry' = [list |-> who[t].list, missing |-> who[t].missing, at |-> who[t].at]
  /\ Set(t, Idle)
  /\ Leave(t)
  /\ UNCHANGED <<file, lock, writes, intent, asks, starts>>

-----------------------------------------------------------------------------
(***************************************************************************)
(* The other process.  Its baseline is what it loaded last, if it did.     *)
(***************************************************************************)
\* PortableServiceStore.load, and the list it saves; a save may be made
\* without a load
RegistrarSave ==
  /\ who[Registrar].pc = "idle"
  /\ asks < MaxAsks
  /\ asks' = asks + 1
  /\ \E s \in Changed(Current, Packages), loaded \in {Current, Unknown} :
       Set(Registrar, [Idle EXCEPT !.pc = "locking", !.kind = "save", !.list = s, !.base = loaded])
  /\ UNCHANGED <<file, lock, guards, registry, writes, intent, starts>>

\* PortableServiceStore.upsert, replace_component
RegistrarPut(kind) ==
  /\ who[Registrar].pc = "idle"
  /\ asks < MaxAsks
  /\ asks' = asks + 1
  /\ \E i \in Ids, l \in Packages :
       Set(Registrar, [Idle EXCEPT !.pc = "locking", !.kind = kind, !.list[i] = Record(NewStamp, l)])
  /\ UNCHANGED <<file, lock, guards, registry, writes, intent, starts>>

-----------------------------------------------------------------------------
(***************************************************************************)
(* update_service_document, of either process.                             *)
(***************************************************************************)
LockFree(a) == lock = Nobody

TakeLock(a) ==
  /\ who[a].pc = "locking"
  /\ LockFree(a)
  /\ lock' = a
  /\ Set(a, [who[a] EXCEPT !.pc = "merging"])
  /\ UNCHANGED <<file, guards, registry, writes, intent, asks, starts>>

\* Mutant: the lock is waited for.
WaitForever(a) == FALSE

\* LOCK_TIMEOUT_SECONDS
MayTimeOut(a) == TRUE

TimeOut(a) ==
  /\ who[a].pc = "locking"
  /\ lock # Nobody
  /\ MayTimeOut(a)
  /\ Set(a, Idle)
  /\ Leave(a)
  /\ UNCHANGED <<file, lock, registry, writes, intent, asks, starts>>

\* The updater: the file as it is now and the edit, or a refusal
Merge(a) ==
  /\ who[a].pc = "merging"
  /\ LET merged == Merged(who[a], Current)
     IN IF Accepted(a, merged)
        THEN /\ Set(a, [who[a] EXCEPT !.pc = "writing", !.out = merged])
             /\ UNCHANGED <<lock, guards>>
        ELSE Set(a, Idle) /\ Leave(a) /\ lock' = Nobody
  /\ UNCHANGED <<file, registry, writes, intent, asks, starts>>

\* History: the edit alone, put after those written before
Edited(w, s) ==
  IF Registers(w) THEN Register(w, s)
  ELSE [i \in Ids |-> IF i \in Touched(w) THEN w.list[i] ELSE s[i]]

\* write_service_document_atomic
Write(a) ==
  /\ who[a].pc = "writing"
  /\ file' = who[a].out
  /\ writes' = writes + 1
  /\ intent' = Edited(who[a], intent)
  /\ Set(a, [who[a] EXCEPT !.pc = "written", !.at = writes + 1])
  /\ UNCHANGED <<lock, guards, registry, asks, starts>>

\* after_write under the lock, and the way out.  The publication may fail:
\* ServicePostCommitError.
Publish(a) ==
  /\ who[a].pc = "written"
  /\ IF a \in Callers
     THEN registry' \in {registry, [list |-> who[a].out, missing |-> FALSE, at |-> who[a].at]}
     ELSE UNCHANGED registry
  /\ lock' = Nobody
  /\ Set(a, Idle)
  /\ Leave(a)
  /\ UNCHANGED <<file, writes, intent, asks, starts>>

\* The application is killed and started again; create_app loads the file.
Restart ==
  /\ starts < MaxStarts
  /\ starts' = starts + 1
  /\ registry' = Loaded
  /\ who' = [a \in Actors |-> IF a \in Callers THEN Idle ELSE who[a]]
  /\ lock' = IF lock \in Callers THEN Nobody ELSE lock
  /\ guards' = Nobody
  /\ UNCHANGED <<file, writes, intent, asks>>

RegistrarDies ==
  /\ who[Registrar].pc # "idle"
  /\ Set(Registrar, Idle)
  /\ lock' = IF lock = Registrar THEN Nobody ELSE lock
  /\ UNCHANGED <<file, guards, registry, writes, intent, asks, starts>>

CallerStep(t) ==
  \/ Begin(t) \/ ReadReload(t) \/ PublishReload(t)
  \/ TakeLock(t) \/ TimeOut(t) \/ Merge(t) \/ Write(t) \/ Publish(t)

StoreNext ==
  \/ \E t \in Callers : View(t) \/ Ask(t, "save") \/ Ask(t, "configure") \/ AskReload(t) \/ CallerStep(t)
  \/ RegistrarSave \/ RegistrarPut("upsert") \/ RegistrarPut("replace")
  \/ TakeLock(Registrar) \/ TimeOut(Registrar) \/ Merge(Registrar) \/ Write(Registrar) \/ Publish(Registrar)
  \/ Restart \/ RegistrarDies

StoreSpec == StoreInit /\ [][StoreNext]_storeVars

-----------------------------------------------------------------------------
\* Type invariant of the file and the registry in use, and of the lock: who
\* holds it, and only who holds it, merges, writes and publishes.
StoreTypeOK ==
  /\ \A a \in Actors : (lock = a) <=> who[a].pc \in {"merging", "writing", "written"}
  /\ file \in Lists \cup {NoFile, OtherFile} /\ intent \in Lists
  /\ lock \in Actors \cup {Nobody} /\ guards \in Callers \cup {Nobody}
  /\ registry \in [list : Lists, missing : BOOLEAN, at : 0..writes]
  /\ \A a \in Actors : who[a].list \in Lists /\ who[a].out \in Lists

\* What the file holds of each service is the last edit of it by either
\* process: a save that was asked for on an older list leaves the others'
\* changes alone (_merge_service_delta under .services.lock).  A service that
\* was read from another file is not in this one, and the first save of any
\* service takes it out of the settings.
ServiceEditsKept == Current = intent

\* No client of the application changes the locator of a portable package,
\* in the file or in the registry in use, whatever list it sends and
\* whatever the other process registers meanwhile.
LocatorsGuarded ==
  [][starts' = starts /\ (\E t \in Callers : who'[t] # who[t]) =>
       /\ Managed(Current') = Managed(Current)
       /\ Managed(registry'.list) = Managed(registry.list)]_storeVars

\* The registry in use never goes back to an older state of the file, though
\* saves and reloads publish from several threads and a reload reads the
\* file without its lock.
RegistryNeverOlder == [][registry'.at >= registry.at]_storeVars

\* The requests to the application never wait for one another, or for a
\* process that keeps the lock, without end: as long as one of them is
\* unanswered, one can take a step.
ServiceRequestsMove ==
  (\E t \in Callers : who[t].pc \notin {"idle", "viewing"}) => \E t \in Callers : ENABLED CallerStep(t)

\* The file of services holds the last edit of each service, whoever made it.
StoreKept == StoreTypeOK /\ ServiceEditsKept

\* What runs and answers follows the file, and locators change only where they
\* may.
RegistryKept == LocatorsGuarded /\ RegistryNeverOlder
=============================================================================
