---------------------------- MODULE ProjectStore ----------------------------
(***************************************************************************)
(* Project directories (backend/app/storage.py).  A directory is named for *)
(* the project's title and belongs to the project its .project-id names;   *)
(* it is looked up again by every call, and a call that reads or writes a  *)
(* file looks it up first, then opens what it found.                       *)
(*                                                                         *)
(* Threads save, change and delete projects and extend their manifests.    *)
(* Only manifest transactions take a lock.  There is one project root, no  *)
(* legacy manifest, and names that differ in case only are one name.       *)
(***************************************************************************)
EXTENDS Naturals, FiniteSets, Sequences

CONSTANTS Projects,   \* ids; each is a name too
          NoId,
          Names, NoDir,
          Listing,    \* the names in the order of a directory listing
          Numbered,   \* name -> the names _unique_project_dir_for_title tries
          Threads,
          Op,         \* thread -> [kind, project, title]
          Keep,       \* as a title: the project's own
          Apart,      \* calls that their callers do not let overlap
          Found,      \* name -> the directory at the start
          MayCrash    \* the process may be killed and started again

ASSUME NameAssumption == Projects \subseteq Names /\ NoId \notin Projects /\ NoDir \notin Names
ASSUME ListingAssumption == Listing \in Seq(Names) /\ Names = {Listing[i] : i \in DOMAIN Listing}
ASSUME OpAssumption == Op \in [Threads -> [kind : {"save", "update", "delete"},
                                           project : Projects, title : Names \cup {Keep}]]

VARIABLES
  dirs,    \* name -> the directory
  trash,   \* directories moved to .trash
  lock,    \* project -> the thread in its manifest transaction
  th       \* thread -> [pc, at, old, copy, title]

vars == <<dirs, trash, lock, th>>

Missing == [on |-> FALSE, has |-> {}, title |-> Keep]
File(s, t) == [on |-> TRUE, has |-> s, title |-> t]
Empty == [there |-> FALSE, marker |-> NoId, project |-> Missing, manifest |-> Missing]
NoThread == "none"
ASSUME ThreadAssumption == NoThread \notin Threads

Init ==
  /\ dirs = Found
  /\ trash = {}
  /\ lock = [p \in Projects |-> NoThread]
  /\ th = [t \in Threads |-> [pc |-> "start", at |-> NoDir, old |-> NoDir, copy |-> {}, title |-> Keep]]

P(t) == Op[t].project

-----------------------------------------------------------------------------
(***************************************************************************)
(* Looking a project up.                                                   *)
(***************************************************************************)
\* _is_project_dir
IsProjectDir(n) == dirs[n].there /\ (dirs[n].project.on \/ dirs[n].manifest.on)

\* Mutant: a directory is anybody's.
AnyMarker(n, p) == TRUE

\* _project_dir_matches_id
MarkerFits(n, p) == dirs[n].marker \in {NoId, p}

\* A directory marked with p
Bears(n, p) == dirs[n].there /\ dirs[n].marker = p

\* The first of a sequence's elements at these places
FirstAt(s, places) == s[CHOOSE i \in places : \A j \in places : i <= j]

\* _find_project_dir_by_id
FindById(p) ==
  LET named == {i \in DOMAIN Listing : Listing[i] # p /\ Bears(Listing[i], p)}
  IN IF IsProjectDir(p) /\ MarkerFits(p, p) THEN p
     ELSE IF named = {} THEN NoDir ELSE FirstAt(Listing, named)

\* A directory p may use under this name
Free(n, p) == ~dirs[n].there \/ dirs[n].marker = p

\* _unique_project_dir_for_title
UniqueFor(title, p) == FirstAt(Numbered[title], {i \in DOMAIN Numbered[title] : Free(Numbered[title][i], p)})

\* project_dir
ProjectDir(p) ==
  IF FindById(p) # NoDir THEN FindById(p)
  ELSE IF ~dirs[p].there \/ MarkerFits(p, p) THEN p
  ELSE UniqueFor(p, p)

\* Mutant: every thread has a lock of its own.
OwnLock(t) == TRUE

LockFree(t) == lock[P(t)] = NoThread

-----------------------------------------------------------------------------
Go(t, pc) == th' = [th EXCEPT ![t].pc = pc]
Locate(t, pc) == th' = [th EXCEPT ![t].pc = pc, ![t].at = ProjectDir(P(t))] /\ UNCHANGED <<dirs, trash, lock>>
At(t) == th[t].at
Is(t, kind, pc) == Op[t].kind = kind /\ th[t].pc = pc
InProgress(t) == th[t].pc \notin {"start", "done", "failed"}

\* Nothing in the code keeps calls apart: a run says which callers do.
MayBegin(t) == \A u \in Threads : {t, u} \in Apart => ~InProgress(u)

\* _write_text makes the directories on the way.
Write(t, file, content) == dirs' = [dirs EXCEPT ![At(t)] = [@ EXCEPT !.there = TRUE, ![file] = content]]

(***************************************************************************)
(* update_manifest: under the project's lock, load, extend, save.          *)
(***************************************************************************)
Begin(t) ==
  /\ Is(t, "update", "start") /\ MayBegin(t) /\ LockFree(t)
  /\ lock' = [lock EXCEPT ![P(t)] = t]
  /\ th' = [th EXCEPT ![t].pc = "read", ![t].at = ProjectDir(P(t))]
  /\ UNCHANGED <<dirs, trash>>

ReadManifest(t) ==
  /\ Is(t, "update", "read")
  /\ th' = [th EXCEPT ![t].pc = "locate", ![t].copy = dirs[At(t)].manifest.has \cup {t}]
  /\ UNCHANGED <<dirs, trash, lock>>

LocateMarker(t) == Is(t, "update", "locate") /\ Locate(t, "mark")

\* The marker and, after another look, the manifest: _save_manifest_unlocked
MarkManifest(t) ==
  /\ Is(t, "update", "mark")
  /\ Write(t, "marker", P(t))
  /\ Go(t, "again")
  /\ UNCHANGED <<trash, lock>>

LocateManifest(t) == Is(t, "update", "again") /\ Locate(t, "write")

WriteManifest(t) ==
  /\ Is(t, "update", "write")
  /\ Write(t, "manifest", File(th[t].copy, Keep))
  /\ lock' = [lock EXCEPT ![P(t)] = NoThread]
  /\ Go(t, "done")
  /\ UNCHANGED trash

(***************************************************************************)
(* load_project, a change of the copy, save_project.                       *)
(***************************************************************************)
Load(t) ==
  /\ Is(t, "save", "start") /\ MayBegin(t)
  /\ LET file == dirs[ProjectDir(P(t))].project
         title == IF Op[t].title = Keep THEN file.title ELSE Op[t].title
     IN th' = [th EXCEPT ![t] = [@ EXCEPT !.pc = IF title = Keep THEN "failed" ELSE "find",
                                          !.title = title, !.copy = file.has \cup {t}]]
  /\ UNCHANGED <<dirs, trash, lock>>

\* _writable_project_dir_for_project
FindOld(t) ==
  /\ Is(t, "save", "find")
  /\ th' = [th EXCEPT ![t].pc = "name", ![t].old = FindById(P(t))]
  /\ UNCHANGED <<dirs, trash, lock>>

FindNew(t) ==
  /\ Is(t, "save", "name")
  /\ th' = [th EXCEPT ![t].pc = "rename", ![t].at = UniqueFor(th[t].title, P(t))]
  /\ UNCHANGED <<dirs, trash, lock>>

Moves(t) == th[t].old \notin {NoDir, At(t)} /\ ~dirs[At(t)].there

Rename(t) ==
  /\ Is(t, "save", "rename")
  /\ \/ /\ Moves(t) /\ dirs[th[t].old].there
        /\ dirs' = [dirs EXCEPT ![At(t)] = dirs[th[t].old], ![th[t].old] = Empty]
        /\ Go(t, "mark")
     \/ Moves(t) /\ ~dirs[th[t].old].there /\ Go(t, "failed") /\ UNCHANGED dirs
     \/ ~Moves(t) /\ Go(t, "mark") /\ UNCHANGED dirs
  /\ UNCHANGED <<trash, lock>>

MarkProject(t) ==
  /\ Is(t, "save", "mark")
  /\ Write(t, "marker", P(t))
  /\ Go(t, "write")
  /\ UNCHANGED <<trash, lock>>

WriteProject(t) ==
  /\ Is(t, "save", "write")
  /\ Write(t, "project", File(th[t].copy, th[t].title))
  /\ Go(t, "done")
  /\ UNCHANGED <<trash, lock>>

(***************************************************************************)
(* delete_project.                                                         *)
(***************************************************************************)
FindDeleted(t) ==
  /\ Is(t, "delete", "start") /\ MayBegin(t)
  /\ th' = [th EXCEPT ![t] = [@ EXCEPT !.at = ProjectDir(P(t)),
                                       !.pc = IF IsProjectDir(ProjectDir(P(t))) THEN "move" ELSE "failed"]]
  /\ UNCHANGED <<dirs, trash, lock>>

MoveToTrash(t) ==
  /\ Is(t, "delete", "move")
  /\ IF dirs[At(t)].there
     THEN /\ trash' = trash \cup {dirs[At(t)]}
          /\ dirs' = [dirs EXCEPT ![At(t)] = Empty]
          /\ Go(t, "done")
     ELSE Go(t, "failed") /\ UNCHANGED <<dirs, trash>>
  /\ UNCHANGED lock

\* The process is killed and started again: its threads and locks are gone.
Crash ==
  /\ MayCrash
  /\ \E t \in Threads : InProgress(t)
  /\ th' = [t \in Threads |-> IF InProgress(t) THEN [th[t] EXCEPT !.pc = "failed"] ELSE th[t]]
  /\ lock' = [p \in Projects |-> NoThread]
  /\ UNCHANGED <<dirs, trash>>

Step(t) == \/ Begin(t) \/ ReadManifest(t) \/ LocateMarker(t) \/ MarkManifest(t)
           \/ LocateManifest(t) \/ WriteManifest(t)
           \/ Load(t) \/ FindOld(t) \/ FindNew(t) \/ Rename(t) \/ MarkProject(t) \/ WriteProject(t)
           \/ FindDeleted(t) \/ MoveToTrash(t)

Next == (\E t \in Threads : Step(t)) \/ Crash

Spec == Init /\ [][Next]_vars

-----------------------------------------------------------------------------
(***************************************************************************)
(* What the callers see to.  Nothing in the code does, and without it the  *)
(* properties below fail (MCProjectRetitle).                               *)
(***************************************************************************)
Among(s) == {s[i] : i \in DOMAIN s}

\* The titles a project is given, the names a manifest may have that comes
\* before its project, and all names that are tried for a project.
Titles(p) == {Op[t].title : t \in {u \in Threads : Op[u].kind = "save" /\ P(u) = p}} \ {Keep}
Ids(p) == {p} \cup Among(Numbered[p])
Tried(p) == Ids(p) \cup UNION {Among(Numbered[title]) : title \in Titles(p)}

\* A project is never retitled, and its name is tried for no other.
Settled(p) ==
  /\ \A a, b \in Titles(p) : a = b
  /\ \A title \in Titles(p), q \in Projects \ {p} : Numbered[title][1] \notin Tried(q)

\* It neither creates nor deletes nor moves a directory that has a title.
Quiet(t) == \/ Op[t].kind = "update"
            \/ Op[t].kind = "save" /\ Op[t].title = Keep /\ Settled(P(t))

\* Calls that may overlap are quiet; of one project they are transactions and
\* one edit, and two projects have no id in common.
CalmCalls ==
  \A t, u \in Threads : t # u /\ {t, u} \notin Apart =>
    /\ Quiet(t)
    /\ P(t) = P(u) => "update" \in {Op[t].kind, Op[u].kind}
    /\ P(t) # P(u) => Ids(P(t)) \cap Ids(P(u)) = {}

\* No project's title is its id; enough names are tried.
TitlesFit ==
  /\ \A p \in Projects : \A title \in Titles(p) : p \notin Among(Numbered[title])
  /\ IsFiniteSet(Projects)
  /\ \A p \in Projects : \A title \in {p} \cup Titles(p) :
       /\ Numbered[title] \in Seq(Names)
       /\ Cardinality(Among(Numbered[title])) > 2 * (Cardinality(Projects) - 1)

Undisturbed == Found = [n \in Names |-> Empty] /\ CalmCalls /\ TitlesFit

-----------------------------------------------------------------------------
(***************************************************************************)
(* Properties.                                                             *)
(***************************************************************************)
\* Types, and a project's lock is held by the thread in its transaction.
TypeOK ==
  /\ dirs \in [Names -> [there : BOOLEAN, marker : Projects \cup {NoId},
                       project : [on : BOOLEAN, has : SUBSET Threads, title : Names \cup {Keep}],
                       manifest : [on : BOOLEAN, has : SUBSET Threads, title : {Keep}]]]
  /\ \A t \in Threads : /\ At(t) \in Names \cup {NoDir} /\ th[t].old \in Names \cup {NoDir}
                        /\ th[t].copy \subseteq Threads /\ th[t].title \in Names \cup {Keep}
  /\ \A p \in Projects : {t \in Threads : Op[t].kind = "update" /\ P(t) = p /\ InProgress(t)}
                           = {lock[p]} \ {NoThread}

Trashed(t) == \E d \in trash : d.marker = P(t) /\ t \in d.project.has \cup d.manifest.has

\* A version written to a manifest is found again by the next call about its
\* project, or went to the trash with it: whatever saves, retitles, deletions
\* and crashes came before or after, and whatever other transaction ran beside.
HistoryKept == \A t \in Threads : Is(t, "update", "done") =>
                  t \in dirs[ProjectDir(P(t))].manifest.has \/ Trashed(t)

\* So is a change of the project itself.
EditsKept == \A t \in Threads : Is(t, "save", "done") =>
                  t \in dirs[ProjectDir(P(t))].project.has \/ Trashed(t)

\* A directory holds nothing of a project its marker does not name, though
\* titles collide, and may be the ids of other projects.
NoAliases == \A n \in Names : \A t \in dirs[n].project.has \cup dirs[n].manifest.has : dirs[n].marker = P(t)

\* No project has two directories.
OneHome == \A m, n \in Names : IsProjectDir(m) /\ IsProjectDir(n) /\ dirs[m].marker = dirs[n].marker => m = n

\* Each project has one directory of its own, which holds all that was saved of
\* it, after any calls, renames and kills (storage.py).
ProjectsApart == TypeOK /\ EditsKept /\ NoAliases /\ OneHome
=============================================================================
