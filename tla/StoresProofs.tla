---------------------------- MODULE StoresProofs ----------------------------
(***************************************************************************)
(* Proofs about what is kept on the disk: the bundle that is installed     *)
(* into a repository (BundleInstall), the control state of a reliability   *)
(* run (HostProbe), the character library with the files uploaded beside   *)
(* it (CharacterLibrary), the integration in a fork's checkout             *)
(* (IntegrationSync), and the directories of projects (ProjectStore), for  *)
(* any files, versions, processes, restarts, clients, requests, projects,  *)
(* titles, threads, runs and failures.                                     *)
(***************************************************************************)
EXTENDS BundleInstall, HostProbe, CharacterLibrary, IntegrationSync, ProjectStore, FiniteSetTheorems, FunctionTheorems,
        WellFoundedInduction, TLAPS

-----------------------------------------------------------------------------
(***************************************************************************)
(* The installation of a bundle.                                           *)
(***************************************************************************)

\* What a file may hold, and what a target is.
Contents == {NoFile, Mine} \cup {Bundle[v][f] : v \in Versions, f \in Files}
Held == [Files -> Contents]

\* What is recorded of an installation.
InstallRec == [pc : {"rest", "anchor", "pending", "copy", "installed", "drop", "launcher"}, previous : Held,
               copy : SUBSET Files, stale : SUBSET Files, mine : SUBSET Files]

\* Every file and note of the installation is well formed; a pending file names
\* a version.
BundleTyped ==
  /\ source \in Versions /\ target \in Held /\ manifest \in Versions \cup {NoVersion}
  /\ pending \in [desired : Versions \cup {NoVersion}, previous : Held]
  /\ pending # NoPending => pending.desired \in Versions
  /\ anchor \in [state : {"none", "pending", "installed"}, from : Versions \cup {NoVersion}, to : Versions \cup {NoVersion}]
  /\ install \in InstallRec /\ touched \subseteq Files

\* Without a pending file the target is what its manifest says, and so it is once
\* the manifest is the new one; in between every file is the old one or the new.
TargetKept ==
  /\ pending = NoPending \/ manifest = pending.desired =>
       \A f \in Files \ touched : target[f] = OwnedBy(manifest)[f]
  /\ pending # NoPending =>
       \A f \in Files \ touched : target[f] \in {pending.previous[f], OwnedBy(pending.desired)[f]}

\* The anchor, the pending file and the manifest are of one installation, unless
\* the target was lost and no installation has written to it since.
AnchorKept ==
  touched # Files \/ install.pc # "rest" =>
    /\ anchor.state = "installed" => anchor.to = manifest /\ manifest # NoVersion
    /\ anchor.state = "pending" => manifest \in {anchor.to, anchor.from}

\* The pending file is of the installation that the anchor names.
PendingKept ==
  pending # NoPending =>
    /\ anchor.state # "none" => pending.desired = anchor.to
    /\ manifest = pending.desired \/ pending.previous = OwnedBy(manifest)

\* What an installation under way has still to write, and what it has written
InstallKept ==
  /\ (install.copy \cup install.stale) \cap install.mine = {}
  /\ install.pc = "rest" => install.mine = {}
  /\ install.pc # "rest" => /\ install.copy \subseteq Kept(Desired) /\ install.stale \cap Kept(Desired) = {}
                            /\ \A f \in Files \ (touched \cup install.copy \cup install.stale) : target[f] = Desired[f]
                            /\ pending # NoPending => pending.desired = source
  /\ install.pc \in {"anchor", "pending"} => install.previous = OwnedBy(manifest)
  /\ install.pc \in {"pending", "copy"} => anchor.state = "pending" /\ anchor.to = source
  /\ install.pc = "copy" => pending # NoPending
  /\ install.pc \in {"installed", "drop", "launcher"} => manifest = source /\ install.copy = {} /\ install.stale = {}
  /\ install.pc = "drop" => anchor.state = "installed"

\* The inductive invariant of the installation.
BundleInv == BundleTyped /\ TargetKept /\ AnchorKept /\ PendingKept /\ InstallKept /\ UserFilesKept
\* The contents of the bundles, and what is owned
LEMMA OwnedFacts ==
  ASSUME BundleTyped
  PROVE  /\ \A v \in Versions \cup {NoVersion} : OwnedBy(v) \in Held /\ \A f \in Files : OwnedBy(v)[f] # Mine
         /\ Previous = OwnedBy(manifest) /\ Desired = OwnedBy(source) /\ Nothing \in Held
<1>1. Nothing \in Held /\ \A f \in Files : Nothing[f] # Mine
  BY MineAssumption DEF Nothing, Held, Contents
<1>2. \A v \in Versions : Bundle[v] \in Held /\ \A f \in Files : Bundle[v][f] # Mine
  BY BundleAssumption, MineAssumption DEF Held, Contents
<1>3. \A v \in Versions \cup {NoVersion} : OwnedBy(v) \in Held /\ \A f \in Files : OwnedBy(v)[f] # Mine
  BY <1>1, <1>2 DEF OwnedBy
<1>4. Desired = OwnedBy(source)
  BY VersionsAssumption DEF BundleTyped, Desired, OwnedBy
<1>5. Previous = OwnedBy(manifest)
  BY <1>4 DEF Previous
<1> QED BY <1>1, <1>3, <1>4, <1>5

\* What an installation that may begin finds: nothing of the user's in its way.
LEMMA PlanKept ==
  ASSUME BundleInv, Plan
  PROVE  BundleInv'
<1> USE VersionsAssumption, MineAssumption, OwnedFacts
<1> DEFINE own == OwnedBy(manifest)
           new == OwnedBy(source)
           copy == Kept(new)
           stale == Kept(own) \ Kept(new)
           mine == {f \in Files : target[f] = Mine}
<1>1. BundleTyped /\ TargetKept /\ AnchorKept /\ PendingKept
  BY DEF BundleInv
<1>2. Accepts /\ UNCHANGED <<source, target, manifest, pending, anchor, start, touched, turns, cuts>>
  BY DEF Plan
<1>3. /\ own \in Held /\ new \in Held /\ \A f \in Files : own[f] # Mine /\ new[f] # Mine
      /\ Previous = own /\ Desired = new
  BY <1>1 DEF BundleTyped
<1>4. install' = [pc |-> "anchor", previous |-> own, copy |-> copy, stale |-> stale, mine |-> mine]
  BY <1>3 DEF Plan, Stale
<1>5. copy \subseteq Files /\ stale \subseteq Files /\ mine \subseteq Files
      /\ \A f \in Files : (f \in copy <=> new[f] # NoFile) /\ (f \notin copy \cup stale => own[f] = NoFile /\ new[f] = NoFile)
  BY DEF Kept
<1>6. \A f \in copy \cup stale : target[f] # Mine
  <2> SUFFICES ASSUME NEW f \in copy \cup stale
               PROVE  target[f] # Mine
    OBVIOUS
  <2>1. FilesFit /\ ToValidate = Kept(own) \cup IF Resuming THEN copy ELSE {}
    BY <1>2, <1>3 DEF Accepts, ToValidate
  <2>2. CASE f \in ToValidate
    <3>1. target[f] \in {NoFile, own[f], new[f]}
      BY <2>1, <2>2, <1>3 DEF FilesFit
    <3> QED BY <3>1, <1>3, <1>5
  <2>3. CASE f \notin ToValidate
    <3>1. f \in Kept(Desired) \ Kept(Previous) /\ ~Resuming
      BY <2>1, <2>3, <1>3
    <3> QED BY <3>1, <2>1 DEF FilesFit
  <2> QED BY <2>2, <2>3
<1>7. \A f \in Files \ (touched \cup copy \cup stale) : target[f] = new[f]
  <2> SUFFICES ASSUME NEW f \in Files \ (touched \cup copy \cup stale)
               PROVE  target[f] = NoFile
    BY <1>5
  <2>1. CASE pending = NoPending \/ manifest = pending.desired
    BY <2>1, <1>1, <1>5 DEF TargetKept
  <2>2. CASE pending # NoPending /\ manifest # pending.desired
    <3>1. pending.desired = source /\ pending.previous = own
      BY <2>2, <1>1, <1>2, <1>3 DEF PendingKept, Accepts, PendingFits
    <3> QED BY <2>2, <3>1, <1>1, <1>5 DEF TargetKept
  <2> QED BY <2>1, <2>2
<1>8. pending # NoPending => pending.desired = source
  BY <1>2 DEF Accepts, PendingFits
<1> HIDE DEF copy, stale, mine, own, new
<1>9. install' \in InstallRec /\ install'.pc = "anchor" /\ install'.previous = own /\ install'.copy = copy
      /\ install'.stale = stale /\ install'.mine = mine
  BY <1>3, <1>4, <1>5 DEF InstallRec
<1>10. BundleTyped'
  BY <1>1, <1>2, <1>9 DEF BundleTyped, NoPending, Nothing
<1>11. AnchorKept'
  <2>1. CASE anchor.state = "installed"
    BY <2>1, <1>2, <1>9 DEF AnchorKept, Accepts, AnchorFits
  <2>2. CASE anchor.state = "pending"
    BY <2>2, <1>2, <1>9 DEF AnchorKept, Accepts, AnchorFits, ManifestFits
  <2> QED BY <2>1, <2>2, <1>2 DEF AnchorKept
<1>12. TargetKept' /\ PendingKept'
  BY <1>1, <1>2 DEF TargetKept, PendingKept, OwnedBy, NoPending, Nothing
<1>13. InstallKept'
  <2>1. Desired' = new /\ OwnedBy(manifest)' = own /\ Kept(new) = copy
    BY <1>2, <1>3 DEF Desired, OwnedBy, copy, own, Nothing
  <2>2. stale \cap copy = {} /\ (copy \cup stale) \cap mine = {}
    BY <1>6 DEF copy, stale, mine
  <2> QED BY <1>2, <1>7, <1>8, <1>9, <2>1, <2>2 DEF InstallKept, NoPending, Nothing
<1>14. UserFilesKept'
  BY <1>2, <1>9 DEF UserFilesKept, mine
<1> QED BY <1>10, <1>11, <1>12, <1>13, <1>14 DEF BundleInv

\* A manifest that is adopted describes what is there: no installation was cut.
LEMMA AdoptKept ==
  ASSUME BundleInv, Adopt
  PROVE  BundleInv'
<1> USE VersionsAssumption
<1>1. /\ BundleTyped /\ TargetKept /\ AnchorKept /\ PendingKept /\ InstallKept /\ UserFilesKept
      /\ install.pc = "rest" /\ pending = NoPending /\ manifest # NoVersion
      /\ UNCHANGED <<source, target, manifest, pending, start, install, touched, turns, cuts>>
  BY DEF BundleInv, Adopt
<1>2. /\ anchor' = [state |-> "installed", from |-> NoVersion, to |-> manifest]
      /\ anchor' \in [state : {"none", "pending", "installed"}, from : Versions \cup {NoVersion}, to : Versions \cup {NoVersion}]
  BY <1>1 DEF Adopt, BundleTyped
<1>3. BundleTyped' /\ TargetKept' /\ PendingKept'
  BY <1>1, <1>2 DEF BundleTyped, TargetKept, PendingKept, OwnedBy, NoPending, Nothing
<1>4. AnchorKept'
  BY <1>1, <1>2 DEF AnchorKept
<1>5. InstallKept' /\ UserFilesKept'
  BY <1>1 DEF InstallKept, UserFilesKept, Desired
<1> QED BY <1>3, <1>4, <1>5 DEF BundleInv

\* The notes of an installation that begins: the anchor first, then the pending
\* file, which says what was there.
LEMMA NotesKept ==
  ASSUME BundleInv, AnchorPending \/ WritePending
  PROVE  BundleInv'
<1> USE VersionsAssumption
<1>1. /\ BundleTyped /\ TargetKept /\ AnchorKept /\ PendingKept /\ InstallKept /\ UserFilesKept
      /\ UNCHANGED <<source, target, manifest, start, touched, turns, cuts>>
  BY DEF BundleInv, AnchorPending, WritePending
<1>2. /\ Desired' = Desired /\ OwnedBy(manifest)' = OwnedBy(manifest) /\ NoPending' = NoPending
      /\ \A p : OwnedBy(p)' = OwnedBy(p)
  BY <1>1 DEF Desired, OwnedBy, NoPending, Nothing
<1>3. CASE AnchorPending
  <2>1. /\ install.pc = "anchor" /\ UNCHANGED pending
        /\ anchor' = [state |-> "pending", from |-> manifest, to |-> source]
        /\ install' = [install EXCEPT !.pc = "pending"]
    BY <1>3 DEF AnchorPending
  <2>2. /\ install' \in InstallRec /\ install'.pc = "pending" /\ install'.previous = install.previous
        /\ install'.copy = install.copy /\ install'.stale = install.stale /\ install'.mine = install.mine
    BY <1>1, <2>1 DEF BundleTyped, InstallRec
  <2>3. /\ anchor'.state = "pending" /\ anchor'.from = manifest /\ anchor'.to = source
        /\ anchor' \in [state : {"none", "pending", "installed"}, from : Versions \cup {NoVersion}, to : Versions \cup {NoVersion}]
    BY <1>1, <2>1 DEF BundleTyped
  <2>4. pending # NoPending => pending.desired = source
    BY <1>1, <2>1 DEF InstallKept
  <2>5. BundleTyped' /\ TargetKept'
    BY <1>1, <1>2, <2>1, <2>2, <2>3 DEF BundleTyped, TargetKept
  <2>6. AnchorKept' /\ PendingKept'
    BY <1>1, <1>2, <2>1, <2>3, <2>4 DEF AnchorKept, PendingKept
  <2>7. InstallKept' /\ UserFilesKept'
    BY <1>1, <1>2, <2>1, <2>2, <2>3 DEF InstallKept, UserFilesKept
  <2> QED BY <2>5, <2>6, <2>7 DEF BundleInv
<1>4. CASE WritePending
  <2>1. /\ install.pc = "pending" /\ UNCHANGED anchor
        /\ pending' = IF pending = NoPending THEN [desired |-> source, previous |-> install.previous] ELSE pending
        /\ install' = [install EXCEPT !.pc = "copy"]
    BY <1>4 DEF WritePending
  <2>2. /\ install' \in InstallRec /\ install'.pc = "copy" /\ install'.previous = install.previous
        /\ install'.copy = install.copy /\ install'.stale = install.stale /\ install'.mine = install.mine
    BY <1>1, <2>1 DEF BundleTyped, InstallRec
  <2>3. /\ pending' \in [desired : Versions \cup {NoVersion}, previous : Held]
        /\ pending' # NoPending /\ pending'.desired = source /\ source \in Versions
    <3>1. CASE pending = NoPending
      BY <3>1, <1>1, <2>1 DEF BundleTyped, InstallRec, NoPending
    <3>2. CASE pending # NoPending
      BY <3>2, <1>1, <2>1 DEF BundleTyped, InstallKept
    <3> QED BY <3>1, <3>2
  <2>4. pending = NoPending => pending'.previous = OwnedBy(manifest)
    BY <1>1, <2>1 DEF InstallKept
  <2>5. anchor.state = "pending" /\ anchor.to = source
    BY <1>1, <2>1 DEF InstallKept
  <2>6. BundleTyped'
    BY <1>1, <1>2, <2>1, <2>2, <2>3 DEF BundleTyped
  <2>7. TargetKept'
    BY <1>1, <1>2, <2>1, <2>3, <2>4 DEF TargetKept
  <2>8. AnchorKept' /\ PendingKept'
    BY <1>1, <1>2, <2>1, <2>3, <2>4, <2>5 DEF AnchorKept, PendingKept
  <2>9. InstallKept' /\ UserFilesKept'
    BY <1>1, <1>2, <2>1, <2>2, <2>3, <2>5 DEF InstallKept, UserFilesKept
  <2> QED BY <2>6, <2>7, <2>8, <2>9 DEF BundleInv
<1> QED BY <1>3, <1>4

\* A file that an installation writes or removes is not the user's, and is then
\* as it is to be.
LEMMA WriteFileKept ==
  ASSUME BundleInv, NEW f \in Files, CopyFile(f) \/ RemoveStale(f)
  PROVE  BundleInv'
<1> USE VersionsAssumption
<1>1. /\ BundleTyped /\ TargetKept /\ AnchorKept /\ PendingKept /\ InstallKept /\ UserFilesKept
      /\ install.pc = "copy" /\ touched' = touched \ {f}
      /\ UNCHANGED <<source, manifest, pending, anchor, start, turns, cuts>>
  BY DEF BundleInv, CopyFile, RemoveStale
<1>2. /\ Desired' = Desired /\ \A p : OwnedBy(p)' = OwnedBy(p)
      /\ OwnedBy(manifest)' = OwnedBy(manifest) /\ NoPending' = NoPending
      /\ OwnedBy(pending.desired)' = OwnedBy(pending.desired)
  BY <1>1 DEF Desired, OwnedBy, NoPending, Nothing
<1>3. Desired \in Held /\ Desired = OwnedBy(source)
  BY <1>1, OwnedFacts DEF BundleTyped
<1>4. /\ f \in install.copy \cup install.stale
      /\ target' = [target EXCEPT ![f] = Desired[f]]
      /\ \/ install' = [install EXCEPT !.copy = @ \ {f}] /\ f \notin install.stale
         \/ install' = [install EXCEPT !.stale = @ \ {f}] /\ f \notin install.copy
  <2>1. install.copy \subseteq Kept(Desired) /\ install.stale \cap Kept(Desired) = {}
    BY <1>1 DEF InstallKept
  <2>2. CASE CopyFile(f)
    BY <2>1, <2>2 DEF CopyFile
  <2>3. CASE RemoveStale(f)
    <3>1. Desired[f] = NoFile
      BY <2>1, <2>3 DEF RemoveStale, Kept
    <3> QED BY <2>1, <2>3, <3>1 DEF RemoveStale
  <2> QED BY <2>2, <2>3
<1>5. /\ install' \in InstallRec /\ install'.pc = "copy" /\ install'.previous = install.previous
      /\ install'.mine = install.mine
      /\ install'.copy \subseteq install.copy /\ install'.stale \subseteq install.stale
      /\ install'.copy \cup install'.stale = (install.copy \cup install.stale) \ {f}
  BY <1>1, <1>4 DEF BundleTyped, InstallRec
<1>6. target' \in Held /\ target'[f] = Desired[f] /\ \A g \in Files \ {f} : target'[g] = target[g]
  <2>1. Desired[f] \in Contents /\ target \in [Files -> Contents]
    BY <1>1, <1>3 DEF BundleTyped, Held
  <2> QED BY <2>1, <1>4 DEF Held
<1>7. pending # NoPending /\ pending.desired = source
  BY <1>1 DEF InstallKept
<1>8. BundleTyped'
  BY <1>1, <1>2, <1>5, <1>6 DEF BundleTyped
<1>9. TargetKept'
  <2> SUFFICES ASSUME NEW g \in Files \ touched'
               PROVE  /\ manifest = source => target'[g] = OwnedBy(manifest)[g]
                      /\ target'[g] \in {pending.previous[g], OwnedBy(source)[g]}
    BY <1>1, <1>2, <1>7 DEF TargetKept
  <2>1. CASE g = f
    BY <2>1, <1>3, <1>6
  <2>2. CASE g # f
    BY <2>2, <1>1, <1>6, <1>7 DEF TargetKept
  <2> QED BY <2>1, <2>2
<1>10. AnchorKept' /\ PendingKept'
  BY <1>1, <1>2, <1>5 DEF AnchorKept, PendingKept
<1>11. InstallKept'
  BY <1>1, <1>2, <1>5, <1>6 DEF InstallKept
<1>12. UserFilesKept'
  BY <1>1, <1>4, <1>5, <1>6 DEF InstallKept, UserFilesKept
<1> QED BY <1>8, <1>9, <1>10, <1>11, <1>12 DEF BundleInv

\* The manifest is written when every file is as it is to be; then the anchor,
\* and the pending file goes last.
LEMMA CloseKept ==
  ASSUME BundleInv, WriteBundleManifest \/ AnchorInstalled \/ DropPending
  PROVE  BundleInv'
<1> USE VersionsAssumption
<1>1. /\ BundleTyped /\ TargetKept /\ AnchorKept /\ PendingKept /\ InstallKept /\ UserFilesKept
      /\ UNCHANGED <<source, target, start, touched, turns, cuts>> /\ source \in Versions
  BY DEF BundleInv, WriteBundleManifest, AnchorInstalled, DropPending, BundleTyped
<1>2. /\ Desired' = Desired /\ \A p : OwnedBy(p)' = OwnedBy(p)
      /\ OwnedBy(source) = Desired /\ NoPending' = NoPending
  BY <1>1, OwnedFacts DEF Desired, OwnedBy, NoPending, Nothing
<1>3. install.pc # "rest" /\ install.copy = {} /\ install.stale = {}
  BY <1>1 DEF WriteBundleManifest, AnchorInstalled, DropPending, InstallKept
<1>4. /\ \A f \in Files \ touched : target[f] = OwnedBy(source)[f]
      /\ pending # NoPending => pending.desired = source
  BY <1>1, <1>2, <1>3 DEF InstallKept
<1>5. \E pc \in {"installed", "drop", "launcher"} :
        install' = [install EXCEPT !.pc = pc] /\ install' \in InstallRec /\ install'.pc = pc
  BY <1>1 DEF WriteBundleManifest, AnchorInstalled, DropPending, BundleTyped, InstallRec
<1>6. /\ install' \in InstallRec /\ install'.pc \in {"installed", "drop", "launcher"}
      /\ install'.copy = install.copy /\ install'.stale = install.stale /\ install'.mine = install.mine
  BY <1>1, <1>5 DEF BundleTyped, InstallRec
<1>7. CASE WriteBundleManifest
  <2>1. /\ manifest' = source /\ UNCHANGED <<pending, anchor>> /\ install.pc = "copy"
        /\ install'.pc = "installed"
    BY <1>7, <1>1 DEF WriteBundleManifest, BundleTyped, InstallRec
  <2>2. anchor.state = "pending" /\ anchor.to = source
    BY <1>1, <2>1 DEF InstallKept
  <2>3. BundleTyped' /\ AnchorKept' /\ PendingKept'
    BY <1>1, <1>2, <1>4, <1>6, <2>1, <2>2 DEF BundleTyped, AnchorKept, PendingKept
  <2>4. TargetKept'
    BY <1>1, <1>2, <1>4, <2>1 DEF TargetKept
  <2>5. InstallKept' /\ UserFilesKept'
    BY <1>1, <1>2, <1>3, <1>4, <1>6, <2>1 DEF InstallKept, UserFilesKept
  <2> QED BY <2>3, <2>4, <2>5 DEF BundleInv
<1>8. CASE AnchorInstalled
  <2>1. /\ anchor' = [state |-> "installed", from |-> NoVersion, to |-> source]
        /\ UNCHANGED <<pending, manifest>> /\ install.pc = "installed" /\ install'.pc = "drop"
    BY <1>8, <1>1 DEF AnchorInstalled, BundleTyped, InstallRec
  <2>2. manifest = source
    BY <1>1, <2>1 DEF InstallKept
  <2>3. BundleTyped' /\ AnchorKept' /\ PendingKept'
    BY <1>1, <1>2, <1>4, <1>6, <2>1, <2>2 DEF BundleTyped, AnchorKept, PendingKept
  <2>4. TargetKept'
    BY <1>1, <1>2, <1>4, <2>1 DEF TargetKept
  <2>5. InstallKept' /\ UserFilesKept'
    BY <1>1, <1>2, <1>3, <1>4, <1>6, <2>1, <2>2 DEF InstallKept, UserFilesKept
  <2> QED BY <2>3, <2>4, <2>5 DEF BundleInv
<1>9. CASE DropPending
  <2>1. /\ pending' = NoPending /\ UNCHANGED <<anchor, manifest>> /\ install.pc = "drop"
        /\ install'.pc = "launcher"
    BY <1>9, <1>1 DEF DropPending, BundleTyped, InstallRec
  <2>2. manifest = source
    BY <1>1, <2>1 DEF InstallKept
  <2>3. NoPending \in [desired : Versions \cup {NoVersion}, previous : Held]
    BY <1>1, OwnedFacts DEF NoPending
  <2>4. BundleTyped' /\ AnchorKept' /\ PendingKept'
    BY <1>1, <1>2, <1>6, <2>1, <2>2, <2>3 DEF BundleTyped, AnchorKept, PendingKept
  <2>5. TargetKept'
    BY <1>1, <1>2, <1>4, <2>1, <2>2 DEF TargetKept
  <2>6. InstallKept' /\ UserFilesKept'
    BY <1>1, <1>2, <1>3, <1>4, <1>6, <2>1, <2>2 DEF InstallKept, UserFilesKept
  <2> QED BY <2>4, <2>5, <2>6 DEF BundleInv
<1> QED BY <1>7, <1>8, <1>9

\* The end of an installation, by itself or by a cut, leaves what it has written.
LEMMA RestKept ==
  ASSUME BundleInv, InstallLauncher \/ Cut
  PROVE  BundleInv'
<1>1. /\ BundleTyped /\ TargetKept /\ AnchorKept /\ PendingKept /\ InstallKept
      /\ UNCHANGED <<source, target, manifest, pending, anchor, touched>>
      /\ install.pc # "rest" /\ install' = NoInstall
  BY DEF BundleInv, InstallLauncher, Cut
<1>2. /\ NoInstall \in InstallRec /\ NoInstall.pc = "rest" /\ NoInstall.copy = {} /\ NoInstall.stale = {}
      /\ NoInstall.mine = {}
  <2>1. Nothing \in Held
    BY <1>1, OwnedFacts
  <2> QED BY <2>1 DEF NoInstall, InstallRec
<1>3. BundleTyped' /\ TargetKept' /\ PendingKept'
  BY <1>1, <1>2 DEF BundleTyped, TargetKept, PendingKept, OwnedBy, NoPending, Nothing
<1>4. AnchorKept'
  BY <1>1, <1>2 DEF AnchorKept
<1>5. InstallKept' /\ UserFilesKept'
  BY <1>1, <1>2 DEF InstallKept, UserFilesKept
<1> QED BY <1>3, <1>4, <1>5 DEF BundleInv

\* What the user does to a file at any moment, and between two installations to
\* the target, the data of the application and the sources.
LEMMA UserKept ==
  ASSUME BundleInv, (\E f \in Files : Edit(f)) \/ LoseTarget \/ LoseAnchor \/ \E v \in Versions : ChangeSource(v)
  PROVE  BundleInv'
<1> USE VersionsAssumption
<1>1. BundleTyped /\ TargetKept /\ AnchorKept /\ PendingKept /\ InstallKept /\ UserFilesKept
  BY DEF BundleInv
<1>2. ASSUME NEW f \in Files, Edit(f)
      PROVE  BundleInv'
  <2>1. /\ UNCHANGED <<source, manifest, pending, anchor>> /\ touched' = touched \cup {f}
        /\ install' = [install EXCEPT !.mine = @ \ {f}]
        /\ \E c \in {Mine, NoFile} : target' = [target EXCEPT ![f] = c]
    BY <1>2 DEF Edit
  <2>2. /\ install' \in InstallRec /\ install'.mine = install.mine \ {f} /\ install'.pc = install.pc
        /\ install'.previous = install.previous /\ install'.copy = install.copy
        /\ install'.stale = install.stale
    BY <1>1, <2>1 DEF BundleTyped, InstallRec
  <2>3. target' \in Held /\ \A g \in Files \ {f} : target'[g] = target[g]
    BY <1>1, <2>1 DEF BundleTyped, Held, Contents
  <2>4. /\ Desired' = Desired /\ \A p : OwnedBy(p)' = OwnedBy(p) /\ NoPending' = NoPending
        /\ OwnedBy(manifest)' = OwnedBy(manifest)
    BY <2>1 DEF Desired, OwnedBy, NoPending, Nothing
  <2>5. BundleTyped'
    BY <1>1, <2>1, <2>2, <2>3, <2>4 DEF BundleTyped
  <2>6. TargetKept'
    BY <1>1, <2>1, <2>3, <2>4 DEF TargetKept
  <2>7. AnchorKept' /\ PendingKept'
    BY <1>1, <2>1, <2>2, <2>4 DEF AnchorKept, PendingKept, BundleTyped
  <2>8. InstallKept' /\ UserFilesKept'
    BY <1>1, <2>1, <2>2, <2>3, <2>4 DEF InstallKept, UserFilesKept
  <2> QED BY <2>5, <2>6, <2>7, <2>8 DEF BundleInv
<1>3. CASE LoseTarget
  <2>1. /\ UNCHANGED <<source, anchor, install>> /\ install.pc = "rest" /\ touched' = Files
        /\ target' = Nothing /\ manifest' = NoVersion /\ pending' = NoPending
    BY <1>3 DEF LoseTarget
  <2>2. Nothing \in Held /\ NoPending \in [desired : Versions \cup {NoVersion}, previous : Held]
    BY <1>1, OwnedFacts DEF NoPending
  <2>3. NoPending' = NoPending /\ Desired' = Desired
    BY <2>1 DEF NoPending, Nothing, Desired
  <2>4. BundleTyped'
    BY <1>1, <2>1, <2>2, <2>3 DEF BundleTyped
  <2>5. TargetKept' /\ AnchorKept' /\ PendingKept'
    BY <2>1, <2>3 DEF TargetKept, AnchorKept, PendingKept
  <2>6. UserFilesKept'
    BY <1>1, <2>1 DEF InstallKept, UserFilesKept
  <2>7. InstallKept'
    BY <1>1, <2>1, <2>3 DEF InstallKept
  <2> QED BY <2>4, <2>5, <2>6, <2>7 DEF BundleInv
<1>4. CASE LoseAnchor
  <2>1. /\ UNCHANGED <<source, target, manifest, pending, install, touched>> /\ install.pc = "rest"
        /\ anchor' = NoAnchor
    BY <1>4 DEF LoseAnchor
  <2>2. /\ NoAnchor.state = "none"
        /\ NoAnchor \in [state : {"none", "pending", "installed"}, from : Versions \cup {NoVersion}, to : Versions \cup {NoVersion}]
    BY DEF NoAnchor
  <2>3. BundleTyped' /\ TargetKept'
    BY <1>1, <2>1, <2>2 DEF BundleTyped, TargetKept, OwnedBy, NoPending, Nothing
  <2>4. AnchorKept' /\ PendingKept' /\ InstallKept' /\ UserFilesKept'
    BY <1>1, <2>1, <2>2 DEF AnchorKept, PendingKept, InstallKept, UserFilesKept, OwnedBy, NoPending, Nothing
  <2> QED BY <2>3, <2>4 DEF BundleInv
<1>5. ASSUME NEW v \in Versions, ChangeSource(v)
      PROVE  BundleInv'
  <2>1. /\ UNCHANGED <<target, manifest, pending, anchor, install, touched>> /\ install.pc = "rest"
        /\ source' = v
    BY <1>5 DEF ChangeSource
  <2>2. BundleTyped' /\ TargetKept'
    BY <1>1, <2>1 DEF BundleTyped, TargetKept, OwnedBy, NoPending, Nothing
  <2>3. AnchorKept' /\ PendingKept' /\ InstallKept' /\ UserFilesKept'
    BY <1>1, <2>1 DEF AnchorKept, PendingKept, InstallKept, UserFilesKept, OwnedBy, NoPending, Nothing
  <2> QED BY <2>2, <2>3 DEF BundleInv
<1> QED BY <1>2, <1>3, <1>4, <1>5

\* Every step keeps the invariant.
LEMMA BundleStep == BundleInv /\ [BundleNext]_bundleVars => BundleInv'
<1> SUFFICES ASSUME BundleInv, [BundleNext]_bundleVars
             PROVE  BundleInv'
  OBVIOUS
<1>1. CASE UNCHANGED bundleVars
  BY <1>1 DEF bundleVars, BundleInv, BundleTyped, TargetKept, AnchorKept, PendingKept, InstallKept,
     UserFilesKept,
              OwnedBy, NoPending, Nothing, Desired
<1>2. CASE BundleNext
  BY <1>2, PlanKept, AdoptKept, NotesKept, WriteFileKept, CloseKept, RestKept, UserKept DEF BundleNext
<1> QED BY <1>1, <1>2

\* What the invariant says of an installation
LEMMA BundleInvSays == BundleInv => InstallSound
<1> USE VersionsAssumption, FilesAssumption
<1> SUFFICES ASSUME BundleInv
             PROVE  InstallSound
  OBVIOUS
<1>1. BundleTyped /\ TargetKept /\ AnchorKept /\ PendingKept /\ InstallKept /\ UserFilesKept
  BY DEF BundleInv
<1>2. InstalledIsWhole
  BY <1>1 DEF InstalledIsWhole, TargetKept, PendingKept
<1>3. ASSUME install.pc = "rest", Resuming, anchor.state # "none", anchor.to = source, touched = {}
      PROVE  Accepts
  <2>1. Previous = OwnedBy(manifest) /\ Desired = OwnedBy(source) /\ touched # Files
    BY <1>1, <1>3, OwnedFacts
  <2>2. pending # NoPending => pending.desired = source
    BY <1>1, <1>3 DEF PendingKept
  <2>3. AnchorFits
    BY <1>1, <1>3, <2>1 DEF AnchorKept, AnchorFits, ManifestFits, BundleTyped
  <2>4. PendingFits
    BY <1>1, <2>1, <2>2 DEF PendingFits, PendingKept
  <2>5. \A f \in Files : target[f] \in {NoFile, Previous[f], Desired[f]}
    <3>1. CASE pending = NoPending \/ manifest = pending.desired
      BY <3>1, <1>1, <1>3, <2>1 DEF TargetKept
    <3>2. CASE pending # NoPending /\ manifest # pending.desired
      BY <3>2, <1>1, <1>3, <2>1, <2>2 DEF TargetKept, PendingKept
    <3> QED BY <3>1, <3>2
  <2>6. ToValidate \subseteq Files
    BY DEF ToValidate, Kept
  <2>7. FilesFit
    BY <1>3, <2>5, <2>6 DEF FilesFit
  <2> QED BY <2>3, <2>4, <2>7 DEF Accepts
<1>4. CutMeansResumable
  BY <1>3 DEF CutMeansResumable
<1> QED BY <1>1, <1>2, <1>4 DEF InstallSound

\* The inductive invariant of the installation.
THEOREM BundleInvariant == BundleSpec => []BundleInv
<1>1. BundleInit => BundleInv
  <2> SUFFICES ASSUME BundleInit
               PROVE  BundleInv
    OBVIOUS
  <2>1. /\ source \in Versions /\ target = Nothing /\ manifest = NoVersion /\ pending = NoPending
        /\ anchor = NoAnchor
        /\ install = NoInstall /\ touched = {}
    BY DEF BundleInit
  <2>2. Nothing \in Held
    BY DEF Nothing, Held, Contents
  <2>3. BundleTyped
    BY <2>1, <2>2 DEF BundleTyped, NoPending, NoAnchor, NoInstall, InstallRec
  <2>4. TargetKept /\ AnchorKept /\ PendingKept
    BY <2>1 DEF TargetKept, AnchorKept, PendingKept, OwnedBy, NoAnchor
  <2>5. InstallKept /\ UserFilesKept
    BY <2>1 DEF InstallKept, UserFilesKept, NoInstall
  <2> QED BY <2>3, <2>4, <2>5 DEF BundleInv
<1> QED BY <1>1, BundleStep, PTL DEF BundleSpec

\* An installation, cut and resumed or not, leaves the user's files alone, is
\* whole once it counts as installed, and can be carried on until then, for any
\* bundles, any number of cuts, and whatever the user does meanwhile.
THEOREM InstallsSound == BundleSpec => []InstallSound
<1> QED BY BundleInvariant, BundleInvSays, PTL

-----------------------------------------------------------------------------
(***************************************************************************)
(* The ComfyUI of a reliability run.                                       *)
(***************************************************************************)

\* What is recorded of processes, of the control state and of who acts on it.
ProcessRec == [born : Nat \ {0}, pid : Pids, what : {"comfy", "stranger"}, parent : {"launcher", "validator", "system"},
               mark : Nat]
IdRec == [pid : Pids \cup {Nobody}, born : Nat]
KnownRec == [current : IdRec, root : IdRec, intent : Nat, provisional : Pids \cup {Nobody}]
ProbeRec == [pc : {"idle", "kill", "await", "stopped", "intent", "spawn", "note", "identify", "promote", "port", "undo",
                   "terminate", "proven", "unproven", "gone"},
             aim : IdRec, then : {"none", "rest", "spawn", "undo"}, seen : Nat]
CleanerRec == [pc : {"waiting", "kill", "await", "proven", "unproven"}, aim : IdRec, seen : Nat]

\* Every record is well formed.
HostTyped ==
  /\ live \subseteq ProcessRec /\ births \in Nat /\ mem \in KnownRec /\ disk \in KnownRec
  /\ probe \in ProbeRec /\ cleaner \in CleanerRec /\ child \in IdRec /\ restarts \in Nat
  /\ misread \subseteq IdRec

\* No two processes have a number or a birth in common, and nothing is misread
\* before it is born.
ApartKept ==
  /\ \A p \in live : p.born <= births
  /\ \A p, q \in live : p.born = q.born \/ p.pid = q.pid => p = q
  /\ \A id \in misread : id.born <= births

\* Whatever ComfyUI there is, it is the one known by id.
Only(id) == \A p \in OfRun : Id(p) = id

\* The control state k leads to the ComfyUI there is: by its identity if one is
\* recorded, and then by nothing else, or by the mark, and then by the number
\* that has been noted.
Remembers(k) ==
  /\ \A p \in OfRun : Id(p) \in {k.current, k.root} \/ (p.mark # NoMark /\ k.intent = p.mark)
  /\ k.current # NoProcess => k.root = k.current /\ k.intent = NoMark
  /\ k.provisional # Nobody => \A p \in OfRun : p.mark = k.intent => p.pid = k.provisional

\* So it is with what the validator knows, and with what is on the disk.
RememberedKept == Remembers(mem) /\ Remembers(disk)

\* Where the validator is, and which ComfyUI there can be by then
ProbeKept ==
  /\ probe.pc \in {"stopped", "intent", "spawn", "proven"} => OfRun = {}
  /\ probe.pc = "idle" => Only(mem.current)
  /\ probe.pc \in {"kill", "await"} => Only(probe.aim)
  /\ probe.pc \in {"note", "identify", "promote", "terminate", "port", "undo"} => Only(child)
  /\ probe.pc = "intent" => mem.current = NoProcess
  /\ probe.pc = "spawn" => mem.intent # NoMark /\ disk.intent = mem.intent
                           /\ mem.provisional = Nobody /\ disk.provisional = Nobody
  /\ probe.pc = "port" => mem.current = child

\* Another process with the number of what is to be killed was born after the look.
AimKept(killer) ==
  /\ killer.seen <= births
  /\ killer.pc = "kill" => \A p \in live : p.pid = killer.aim.pid /\ Id(p) # killer.aim => killer.seen < p.born

\* The launcher cleans up once the validator is gone.
CleanerKept ==
  /\ cleaner.pc # "waiting" => probe.pc = "gone"
  /\ cleaner.pc \in {"kill", "await"} => cleaner.aim = Recorded

\* There is one ComfyUI.
AtMostOne == \A p, q \in OfRun : p = q

\* The inductive invariant of the ComfyUI of a run.
HostInv ==
  /\ HostTyped /\ ApartKept /\ RememberedKept /\ ProbeKept /\ AimKept(probe) /\ AimKept(cleaner)
  /\ CleanerKept /\ AtMostOne /\ ProvenMeansStopped /\ KillsOnlyItsOwn

\* When processes only end, what held of every ComfyUI still does.
LEMMA Fewer ==
  ASSUME live' \subseteq live, misread \subseteq misread'
  PROVE  /\ OfRun' \subseteq OfRun
         /\ \A k \in KnownRec : Remembers(k) => \A p \in OfRun' : Id(p) \in {k.current, k.root} \/ (p.mark # NoMark /\ k.intent = p.mark)
         /\ \A i : Only(i) => \A p \in OfRun' : Id(p) = i
  BY DEF OfRun, Remembers, Only

\* A step of the validator that starts no process keeps the invariant if what it
\* knows, where it is and what it kills fit.
LEMMA ProbeStays ==
  ASSUME HostInv, live' \subseteq live, births' = births, cleaner' = cleaner, probe.pc # "gone",
         misread \subseteq misread', \A id \in misread' \ misread : id.born <= births, HostTyped', RememberedKept', ProbeKept', AimKept(probe)', KillsOnlyItsOwn'
  PROVE  HostInv'
<1>1. HostTyped /\ ApartKept /\ CleanerKept /\ AtMostOne /\ AimKept(cleaner)
  BY DEF HostInv
<1>2. cleaner.pc = "waiting" /\ OfRun' \subseteq OfRun
  BY <1>1, Fewer DEF CleanerKept
<1>3. ApartKept' /\ AtMostOne'
  BY <1>1, <1>2 DEF ApartKept, AtMostOne
<1>4. CleanerKept' /\ ProvenMeansStopped' /\ AimKept(cleaner)'
  BY <1>1, <1>2 DEF CleanerKept, ProvenMeansStopped, AimKept
<1> QED BY <1>3, <1>4 DEF HostInv

\* Less that lives is remembered as well.
LEMMA StillRemembered ==
  ASSUME HostInv, live' \subseteq live, misread \subseteq misread', mem' = mem, disk' = disk
  PROVE  RememberedKept'
<1>1. RememberedKept /\ OfRun' \subseteq OfRun
  BY Fewer DEF HostInv
<1> QED BY <1>1 DEF RememberedKept, Remembers

\* A write of the control state leaves it as it was or as it is to be.
LEMMA Saved ==
  ASSUME HostInv, NEW new \in KnownRec, NEW onward, NEW otherwise,
         onward \in {"idle", "intent", "spawn", "identify", "port", "gone"},
         otherwise \in {"gone", "proven", "terminate", "undo"},
         Save(new, onward, otherwise), UNCHANGED <<live, births, cleaner, slips, misread>>, child' \in IdRec, restarts' \in Nat,
         probe.pc \notin {"gone", "kill"}, Remembers(new)
  PROVE  /\ HostTyped' /\ RememberedKept' /\ AimKept(probe)' /\ KillsOnlyItsOwn' /\ mem' = new
         /\ \/ probe'.pc = onward /\ disk' = new
            \/ probe'.pc = otherwise
<1>1. /\ HostTyped /\ RememberedKept /\ AimKept(probe) /\ KillsOnlyItsOwn
  BY DEF HostInv
<1>2. /\ mem' = new /\ disk' \in {disk, new}
      /\ \E pc \in {onward, otherwise} : probe' = [probe EXCEPT !.pc = pc] /\ ((pc = onward /\ disk' = new) \/ pc = otherwise)
  BY DEF Save, Enters
<1>3. /\ probe' \in ProbeRec /\ probe'.pc \in {onward, otherwise} /\ probe'.seen = probe.seen
      /\ probe'.aim = probe.aim
      /\ ((probe'.pc = onward /\ disk' = new) \/ probe'.pc = otherwise)
  BY <1>1, <1>2 DEF HostTyped, ProbeRec
<1>4. HostTyped'
  BY <1>1, <1>2, <1>3 DEF HostTyped
<1>5. RememberedKept'
  BY <1>1, <1>2 DEF RememberedKept, Remembers, OfRun
<1>6. AimKept(probe)' /\ KillsOnlyItsOwn'
  BY <1>1, <1>3 DEF AimKept, KillsOnlyItsOwn
<1> QED BY <1>2, <1>3, <1>4, <1>5, <1>6

\* The validator goes on, or gives up, and does nothing else.
LEMMA Goes ==
  ASSUME HostInv, probe.pc # "gone", UNCHANGED <<live, births, mem, disk, cleaner, child, restarts, slips, misread>>,
         NEW pc, pc # "kill", probe' = [probe EXCEPT !.pc = pc], probe' \in ProbeRec, probe'.pc = pc => ProbeKept'
  PROVE  HostInv'
<1>1. HostTyped /\ RememberedKept /\ AimKept(probe) /\ KillsOnlyItsOwn
  BY DEF HostInv
<1>2. probe'.pc = pc /\ probe'.seen = probe.seen
  BY <1>1 DEF HostTyped, ProbeRec
<1>3. HostTyped' /\ KillsOnlyItsOwn' /\ AimKept(probe)'
  BY <1>1, <1>2 DEF HostTyped, KillsOnlyItsOwn, AimKept
<1> QED BY <1>2, <1>3, ProbeStays, StillRemembered

\* The validator looks, and is about to kill what it has found.
LEMMA AimsKept ==
  ASSUME HostInv, UNCHANGED <<live, births, mem, disk, cleaner, child, restarts, slips, misread>>, probe.pc # "gone",
         NEW id \in IdRec, NEW then \in {"rest", "spawn", "undo"}, Aims(id, then), Alive(id), Only(id)
  PROVE  HostInv'
<1>1. HostTyped /\ RememberedKept /\ KillsOnlyItsOwn /\ ApartKept
  BY DEF HostInv
<1>2. probe' \in ProbeRec /\ probe'.pc = "kill" /\ probe'.aim = id /\ probe'.seen = births
  BY <1>1 DEF Aims, HostTyped, ProbeRec
<1>3. HostTyped' /\ KillsOnlyItsOwn'
  BY <1>1, <1>2 DEF HostTyped, KillsOnlyItsOwn
<1>4. ProbeKept'
  BY <1>2 DEF ProbeKept, Only, OfRun
<1>5. AimKept(probe)'
  <2>1. PICK q \in live : Id(q) = id
    BY DEF Alive
  <2>2. \A p \in live : p.pid = id.pid => Id(p) = id
    BY <1>1, <2>1 DEF ApartKept, Id
  <2> QED BY <1>1, <1>2, <2>2 DEF AimKept, HostTyped
<1> QED BY <1>3, <1>4, <1>5, ProbeStays, StillRemembered

\* What is killed by its number is what was meant, or was born after the
\* look.
LEMMA KillKept ==
  ASSUME HostInv, Kill
  PROVE  HostInv'
<1>1. /\ HostTyped /\ RememberedKept /\ KillsOnlyItsOwn /\ ProbeKept /\ AimKept(probe) /\ probe.pc = "kill"
      /\ UNCHANGED <<births, mem, disk, cleaner, child, restarts, misread>>
  BY DEF HostInv, Kill
<1>2. live' \subseteq live
  BY DEF Kill
<1>3. probe' \in ProbeRec /\ probe'.pc = "await" /\ probe'.aim = probe.aim /\ probe'.seen = probe.seen
  BY <1>1 DEF Kill, Enters, HostTyped, ProbeRec
<1>4. ProbeKept'
  BY <1>1, <1>2, <1>3, Fewer DEF ProbeKept, Only, OfRun
<1>5. HostTyped' /\ AimKept(probe)'
  BY <1>1, <1>2, <1>3 DEF HostTyped, AimKept
<1>6. KillsOnlyItsOwn'
  <2>1. \A p \in Hits(probe.aim.pid) : Id(p) # probe.aim => p.born > probe.seen
    BY <1>1 DEF AimKept, Hits, HostTyped, ProcessRec, ProbeRec
  <2>2. slips' = slips \cup {[hit |-> p.born, seen |-> probe.seen] : p \in {q \in Hits(probe.aim.pid) : Id(q) # probe.aim}}
    BY DEF Kill, Slipped
  <2>3. \A s \in slips' : s \in slips \/ \E p \in Hits(probe.aim.pid) : Id(p) # probe.aim /\ s = [hit |-> p.born, seen |-> probe.seen]
    BY <2>2
  <2> QED BY <1>1, <2>1, <2>3 DEF KillsOnlyItsOwn
<1> QED BY <1>1, <1>2, <1>4, <1>5, <1>6, ProbeStays, StillRemembered

\* Stopping what is there, to stop it or to replace it.
LEMMA StopKept ==
  ASSUME HostInv, (\E then \in {"rest", "spawn"} : BeginStop(then)) \/ AwaitStopped \/ StopFails \/ SaveStopped
  PROVE  HostInv'
<1>1. HostTyped /\ RememberedKept /\ ProbeKept
  BY DEF HostInv
<1>2. ASSUME NEW then \in {"rest", "spawn"}, BeginStop(then)
      PROVE  HostInv'
  <2>1. probe.pc = "idle" /\ UNCHANGED <<live, births, mem, disk, cleaner, child, restarts, slips, misread>>
    BY <1>2 DEF BeginStop
  <2>2. CASE Alive(mem.current)
    <3>1. Aims(mem.current, then)
      BY <1>2, <2>2 DEF BeginStop
    <3>2. mem.current \in IdRec /\ Only(mem.current)
      BY <1>1, <2>1 DEF HostTyped, KnownRec, ProbeKept
    <3> QED BY <2>1, <2>2, <3>1, <3>2, AimsKept
  <2>3. CASE ~Alive(mem.current)
    <3>1. probe' = [probe EXCEPT !.pc = "gone"] /\ probe' \in ProbeRec
      BY <1>1, <1>2, <2>3 DEF BeginStop, Enters, HostTyped, ProbeRec
    <3>2. probe'.pc = "gone" => ProbeKept'
      BY DEF ProbeKept
    <3> QED BY <2>1, <3>1, <3>2, Goes
  <2> QED BY <2>2, <2>3
<1>3. CASE AwaitStopped
  <2>1. /\ probe.pc = "await" /\ UNCHANGED <<live, births, mem, disk, cleaner, child, restarts, slips>>
        /\ probe.aim \in IdRec /\ probe' \in ProbeRec /\ probe'.pc \in {"proven", "stopped"} /\ probe'.seen = probe.seen
    BY <1>1, <1>3 DEF AwaitStopped, Enters, HostTyped, ProbeRec
  <2>2. \/ ~Alive(probe.aim) /\ misread' = misread
        \/ Alive(probe.aim) /\ misread' = misread \cup {probe.aim}
    BY <1>3 DEF AwaitStopped, Stopped
  <2>3. misread \subseteq misread' /\ misread' \subseteq IdRec
    BY <1>1, <2>1, <2>2 DEF HostTyped
  <2>4. \A id \in misread' \ misread : id.born <= births
    <3> SUFFICES ASSUME Alive(probe.aim)
                 PROVE  probe.aim.born <= births
      BY <2>2
    <3>1. PICK p \in live : Id(p) = probe.aim
      BY DEF Alive
    <3> QED BY <3>1, <1>1 DEF HostInv, ApartKept, Id
  <2>5. OfRun' = {}
    BY <1>1, <2>1, <2>2 DEF ProbeKept, Only, OfRun, Alive
  <2>6. ProbeKept'
    BY <2>1, <2>5 DEF ProbeKept
  <2>7. RememberedKept'
    BY <2>1, <2>3, StillRemembered
  <2>8. HostTyped' /\ AimKept(probe)' /\ KillsOnlyItsOwn'
    BY <1>1, <2>1, <2>3 DEF HostInv, HostTyped, AimKept, KillsOnlyItsOwn
  <2> QED BY <2>1, <2>3, <2>4, <2>6, <2>7, <2>8, ProbeStays
<1>4. CASE StopFails
  <2>1. /\ probe.pc # "gone" /\ UNCHANGED <<live, births, mem, disk, cleaner, child, restarts, slips, misread>>
        /\ \E pc \in {"unproven", "gone"} : probe' = [probe EXCEPT !.pc = pc] /\ probe' \in ProbeRec
    BY <1>1, <1>4 DEF StopFails, Enters, HostTyped, ProbeRec
  <2>2. probe'.pc \in {"unproven", "gone"} => ProbeKept'
    BY DEF ProbeKept
  <2> QED BY <2>1, <2>2, Goes
<1>5. CASE SaveStopped
  <2> DEFINE new == [mem EXCEPT !.current = NoProcess]
             onward == IF probe.then = "spawn" THEN "intent" ELSE "idle"
  <2>1. /\ probe.pc = "stopped" /\ Save(new, onward, "gone")
        /\ UNCHANGED <<live, births, cleaner, child, restarts, slips, misread>>
        /\ onward \in {"intent", "idle"}
    BY <1>5 DEF SaveStopped
  <2>2. OfRun = {} /\ OfRun' = {}
    BY <1>1, <2>1 DEF ProbeKept, OfRun
  <2>3. new \in KnownRec /\ new.current = NoProcess
    BY <1>1 DEF HostTyped, KnownRec, IdRec, NoProcess
  <2> HIDE DEF new, onward
  <2>4. Remembers(new)
    BY <2>2, <2>3 DEF Remembers
  <2>5. child' \in IdRec /\ restarts' \in Nat
    BY <1>1, <2>1 DEF HostTyped
  <2>6. /\ HostTyped' /\ RememberedKept' /\ AimKept(probe)' /\ KillsOnlyItsOwn' /\ mem' = new
        /\ probe'.pc \in {onward, "gone"}
    BY <2>1, <2>3, <2>4, <2>5, Saved
  <2>7. ProbeKept'
    BY <2>1, <2>2, <2>3, <2>6 DEF ProbeKept, Only
  <2> QED BY <2>1, <2>6, <2>7, ProbeStays
<1> QED BY <1>2, <1>3, <1>4, <1>5

\* A restart: nothing is there, and its mark is saved before it is started.
LEMMA IntendKept ==
  ASSUME HostInv, BeginRestart \/ Intend
  PROVE  HostInv'
<1>1. HostTyped /\ RememberedKept /\ ProbeKept
  BY DEF HostInv
<1>2. CASE BeginRestart
  <2>1. /\ probe.pc = "idle" /\ mem.current = NoProcess
        /\ UNCHANGED <<live, births, mem, disk, cleaner, child, restarts, slips, misread>>
        /\ probe' = [probe EXCEPT !.pc = "intent"] /\ probe' \in ProbeRec
    BY <1>1, <1>2 DEF BeginRestart, Enters, HostTyped, ProbeRec
  <2>2. OfRun = {}
    <3>1. \A p \in OfRun : Id(p) = NoProcess /\ p.born # 0
      BY <1>1, <2>1 DEF ProbeKept, Only, OfRun, HostTyped, ProcessRec
    <3> QED BY <3>1 DEF Id, NoProcess
  <2>3. probe'.pc = "intent" => ProbeKept'
    BY <2>1, <2>2 DEF ProbeKept, OfRun
  <2> QED BY <2>1, <2>3, Goes
<1>3. CASE Intend
  <2> DEFINE new == [mem EXCEPT !.intent = restarts + 1]
  <2>1. /\ probe.pc = "intent" /\ mem.intent = NoMark /\ mem.provisional = Nobody
        /\ restarts' = restarts + 1
        /\ Save(new, "spawn", "proven") /\ child' = NoProcess /\ UNCHANGED <<live, births, cleaner, slips, misread>>
    BY <1>3 DEF Intend, SaveIntent
  <2>2. OfRun = {} /\ OfRun' = {} /\ mem.current = NoProcess /\ restarts \in Nat
    BY <1>1, <2>1 DEF ProbeKept, OfRun, HostTyped
  <2>3. new \in KnownRec /\ new.current = NoProcess /\ new.intent # NoMark /\ new.provisional = Nobody
    BY <1>1, <2>1, <2>2 DEF HostTyped, KnownRec, NoMark
  <2> HIDE DEF new
  <2>4. Remembers(new)
    BY <2>2, <2>3 DEF Remembers
  <2>5. child' \in IdRec /\ restarts' \in Nat
    BY <2>1, <2>2 DEF IdRec, NoProcess
  <2>6. /\ HostTyped' /\ RememberedKept' /\ AimKept(probe)' /\ KillsOnlyItsOwn' /\ mem' = new
        /\ \/ probe'.pc = "spawn" /\ disk' = new
           \/ probe'.pc = "proven"
    BY <2>1, <2>3, <2>4, <2>5, Saved
  <2>7. ProbeKept'
    BY <2>2, <2>3, <2>6 DEF ProbeKept
  <2> QED BY <2>1, <2>6, <2>7, ProbeStays
<1> QED BY <1>2, <1>3

\* The process that is started is the only ComfyUI, and carries the mark.
LEMMA HostSpawnKept ==
  ASSUME HostInv, Spawn
  PROVE  HostInv'
<1>1. /\ HostTyped /\ ApartKept /\ RememberedKept /\ ProbeKept /\ AimKept(probe) /\ AimKept(cleaner)
      /\ CleanerKept /\ KillsOnlyItsOwn
  BY DEF HostInv
<1>2. /\ probe.pc = "spawn" /\ UNCHANGED <<mem, disk, cleaner, restarts, slips, misread>>
      /\ OfRun = {} /\ mem.intent # NoMark /\ disk.intent = mem.intent /\ mem.provisional = Nobody
      /\ disk.provisional = Nobody
      /\ mem.current = NoProcess /\ disk.current = NoProcess /\ mem.intent \in Nat
  BY <1>1 DEF Spawn, ProbeKept, RememberedKept, Remembers, HostTyped, KnownRec
<1>3. CASE Enters("unproven") /\ UNCHANGED <<live, births, child>>
  <2>1. probe' = [probe EXCEPT !.pc = "unproven"] /\ probe' \in ProbeRec
    BY <1>1, <1>3 DEF Enters, HostTyped, ProbeRec
  <2>2. probe'.pc = "unproven" => ProbeKept'
    BY DEF ProbeKept
  <2> QED BY <1>2, <1>3, <2>1, <2>2, Goes
<1>4. ASSUME NEW pid \in Pids, Usable(pid), live' = live \cup {Comfy(births + 1, pid, "validator", mem.intent)},
             child' = [pid |-> pid, born |-> births + 1], births' = births + 1, Enters("note")
      PROVE  HostInv'
  <2> DEFINE c == Comfy(births + 1, pid, "validator", mem.intent)
  <2>1. /\ c \in ProcessRec /\ c.born = births + 1 /\ c.pid = pid /\ c.what = "comfy" /\ c.mark = mem.intent
        /\ Id(c) = child' /\ births \in Nat
    BY <1>1, <1>2, <1>4 DEF Comfy, ProcessRec, HostTyped, KnownRec, Id
  <2>2. \A p \in live : p.pid # pid /\ p.born <= births /\ p.born \in Nat
    BY <1>1, <1>4 DEF Usable, NotThere, ApartKept, HostTyped, ProcessRec
  <2>3. live' = live \cup {c}
    BY <1>4
  <2> HIDE DEF c
  <2>12. misread' = misread /\ \A id \in misread : id.born \in Nat /\ id.born <= births
    BY <1>1, <1>2 DEF HostTyped, ApartKept, IdRec
  <2>13. Id(c) \notin misread
    BY <2>1, <2>12 DEF Id
  <2>4. OfRun' = {c}
    BY <1>2, <2>1, <2>3, <2>12, <2>13 DEF OfRun
  <2>5. probe' \in ProbeRec /\ probe'.pc = "note" /\ probe'.seen = probe.seen
    BY <1>1, <1>4 DEF Enters, HostTyped, ProbeRec
  <2>6. HostTyped'
    BY <1>1, <1>2, <1>4, <2>1, <2>3, <2>5 DEF HostTyped, IdRec
  <2>7. ApartKept'
    BY <1>1, <1>4, <2>1, <2>2, <2>3, <2>12 DEF ApartKept
  <2>8. RememberedKept'
    BY <1>2, <2>1, <2>4 DEF RememberedKept, Remembers
  <2>9. ProbeKept' /\ AtMostOne'
    BY <2>1, <2>4, <2>5 DEF ProbeKept, Only, AtMostOne
  <2>10. cleaner.pc = "waiting"
    BY <1>1, <1>2 DEF CleanerKept, HostTyped, CleanerRec
  <2>11. AimKept(probe)' /\ AimKept(cleaner)' /\ CleanerKept' /\ ProvenMeansStopped' /\ KillsOnlyItsOwn'
    <3>1. probe.seen \in Nat /\ probe.seen <= births /\ cleaner.seen \in Nat /\ cleaner.seen <= births
      BY <1>1 DEF AimKept, HostTyped, ProbeRec, CleanerRec
    <3> QED BY <1>1, <1>2, <1>4, <2>1, <2>5, <2>10, <3>1 DEF AimKept, CleanerKept, ProvenMeansStopped, KillsOnlyItsOwn
  <2> QED BY <2>6, <2>7, <2>8, <2>9, <2>11 DEF HostInv
<1> QED BY <1>3, <1>4 DEF Spawn

\* What was started is noted, identified and recorded.
LEMMA PromoteKept ==
  ASSUME HostInv, Note \/ Identify \/ Promote \/ AwaitPort
  PROVE  HostInv'
<1>1. HostTyped /\ RememberedKept /\ ProbeKept
  BY DEF HostInv
<1>2. CASE Note
  <2> DEFINE new == [mem EXCEPT !.provisional = child.pid]
  <2>1. /\ probe.pc = "note" /\ Save(new, "identify", "terminate")
        /\ UNCHANGED <<live, births, cleaner, child, restarts, slips, misread>>
    BY <1>2 DEF Note
  <2>2. Only(child) /\ child \in IdRec /\ restarts \in Nat
    BY <1>1, <2>1 DEF ProbeKept, HostTyped
  <2>3. /\ new \in KnownRec /\ new.current = mem.current /\ new.root = mem.root /\ new.intent = mem.intent
        /\ new.provisional = child.pid
    BY <1>1, <2>2 DEF HostTyped, KnownRec, IdRec
  <2> HIDE DEF new
  <2>4. Remembers(new)
    BY <1>1, <2>2, <2>3 DEF RememberedKept, Remembers, Only, Id
  <2>5. /\ HostTyped' /\ RememberedKept' /\ AimKept(probe)' /\ KillsOnlyItsOwn'
        /\ probe'.pc \in {"identify", "terminate"}
    BY <2>1, <2>2, <2>3, <2>4, Saved
  <2>6. ProbeKept'
    BY <2>1, <2>2, <2>5 DEF ProbeKept, Only, OfRun
  <2> QED BY <2>1, <2>5, <2>6, ProbeStays
<1>3. CASE Identify
  <2>1. /\ probe.pc = "identify" /\ UNCHANGED <<live, births, mem, disk, cleaner, child, restarts, slips, misread>>
        /\ \E pc \in {"promote", "terminate"} : probe' = [probe EXCEPT !.pc = pc] /\ probe' \in ProbeRec
    BY <1>1, <1>3 DEF Identify, Enters, HostTyped, ProbeRec
  <2>2. probe'.pc \in {"promote", "terminate"} => ProbeKept'
    BY <1>1, <2>1 DEF ProbeKept, Only, OfRun
  <2> QED BY <2>1, <2>2, Goes
<1>4. CASE Promote
  <2> DEFINE new == Known(child, child, NoMark, Nobody)
  <2>1. /\ probe.pc = "promote" /\ Save(new, "port", "undo")
        /\ UNCHANGED <<live, births, cleaner, child, restarts, slips, misread>>
    BY <1>4 DEF Promote
  <2>2. Only(child) /\ child \in IdRec /\ restarts \in Nat
    BY <1>1, <2>1 DEF ProbeKept, HostTyped
  <2>3. /\ new \in KnownRec /\ new.current = child /\ new.root = child /\ new.intent = NoMark
        /\ new.provisional = Nobody
    BY <2>2 DEF Known, KnownRec, NoMark
  <2> HIDE DEF new
  <2>4. Remembers(new)
    BY <2>2, <2>3 DEF Remembers, Only
  <2>5. /\ HostTyped' /\ RememberedKept' /\ AimKept(probe)' /\ KillsOnlyItsOwn' /\ mem' = new
        /\ probe'.pc \in {"port", "undo"}
    BY <2>1, <2>2, <2>3, <2>4, Saved
  <2>6. ProbeKept'
    BY <2>1, <2>2, <2>3, <2>5 DEF ProbeKept, Only, OfRun
  <2> QED BY <2>1, <2>5, <2>6, ProbeStays
<1>5. CASE AwaitPort
  <2>1. /\ probe.pc = "port" /\ UNCHANGED <<live, births, mem, disk, cleaner, child, restarts, slips, misread>>
        /\ \E pc \in {"idle", "undo"} : probe' = [probe EXCEPT !.pc = pc] /\ probe' \in ProbeRec
    BY <1>1, <1>5 DEF AwaitPort, Enters, HostTyped, ProbeRec
  <2>2. probe'.pc \in {"idle", "undo"} => ProbeKept'
    BY <1>1, <2>1 DEF ProbeKept, Only, OfRun
  <2> QED BY <2>1, <2>2, Goes
<1> QED BY <1>2, <1>3, <1>4, <1>5

\* A restart that fails stops what it has started, and clears the state only of
\* what was proven to be stopped; the validator may end at any point.
LEMMA UndoKept ==
  ASSUME HostInv, Undo \/ TerminateChild \/ RestartFails \/ ValidatorEnds
  PROVE  HostInv'
<1>1. HostTyped /\ RememberedKept /\ ProbeKept /\ AimKept(probe) /\ KillsOnlyItsOwn
  BY DEF HostInv
<1>2. CASE Undo
  <2>1. probe.pc = "undo" /\ UNCHANGED <<live, births, mem, disk, cleaner, child, restarts, slips, misread>>
    BY <1>2 DEF Undo
  <2>2. CASE Alive(child) /\ Aims(child, "undo")
    <3>1. child \in IdRec /\ Only(child)
      BY <1>1, <2>1 DEF HostTyped, ProbeKept
    <3> QED BY <2>1, <2>2, <3>1, AimsKept
  <2>3. CASE Enters("unproven")
    <3>1. probe' = [probe EXCEPT !.pc = "unproven"] /\ probe' \in ProbeRec
      BY <1>1, <1>2, <2>3 DEF Undo, Enters, HostTyped, ProbeRec
    <3>2. probe'.pc = "unproven" => ProbeKept'
      BY DEF ProbeKept
    <3> QED BY <2>1, <3>1, <3>2, Goes
  <2> QED BY <1>2, <2>2, <2>3 DEF Undo
<1>3. CASE TerminateChild
  <2>1. /\ probe.pc = "terminate" /\ live' \subseteq live
        /\ UNCHANGED <<births, mem, disk, cleaner, child, restarts, slips, misread>>
        /\ \/ live' = {p \in live : Id(p) # child} /\ probe'.pc = "proven"
           \/ probe'.pc = "unproven"
        /\ probe' \in ProbeRec /\ probe'.seen = probe.seen
    BY <1>1, <1>3 DEF TerminateChild, Enters, HostTyped, ProbeRec
  <2>2. Only(child)
    BY <1>1, <2>1 DEF ProbeKept
  <2>3. probe'.pc = "proven" => OfRun' = {}
    BY <2>1, <2>2 DEF Only, OfRun
  <2>4. ProbeKept'
    BY <2>1, <2>3 DEF ProbeKept
  <2>5. HostTyped' /\ AimKept(probe)' /\ KillsOnlyItsOwn'
    BY <1>1, <2>1 DEF HostTyped, AimKept, KillsOnlyItsOwn
  <2> QED BY <2>1, <2>4, <2>5, ProbeStays, StillRemembered
<1>4. CASE RestartFails
  <2> DEFINE new == IF Clears(probe.pc)
                    THEN [mem EXCEPT !.current = NoProcess, !.intent = NoMark, !.provisional = Nobody]
                    ELSE mem
  <2>1. /\ probe.pc \in {"proven", "unproven"} /\ Save(new, "gone", "gone")
        /\ UNCHANGED <<live, births, cleaner, child, restarts, slips, misread>>
    BY <1>4 DEF RestartFails
  <2>2. new \in KnownRec /\ Remembers(new)
    <3>1. CASE probe.pc = "proven"
      <4>1. new \in KnownRec /\ new.current = NoProcess /\ new.provisional = Nobody
        BY <1>1, <3>1 DEF HostTyped, KnownRec, IdRec, NoProcess, NoMark, Clears
      <4>2. OfRun = {}
        BY <1>1, <3>1 DEF ProbeKept
      <4> HIDE DEF new
      <4> QED BY <4>1, <4>2 DEF Remembers
    <3>2. CASE probe.pc = "unproven"
      BY <1>1, <3>2 DEF HostTyped, RememberedKept, Clears
    <3> QED BY <2>1, <3>1, <3>2
  <2> HIDE DEF new
  <2>3. child' \in IdRec /\ restarts' \in Nat
    BY <1>1, <2>1 DEF HostTyped
  <2>4. /\ HostTyped' /\ RememberedKept' /\ AimKept(probe)' /\ KillsOnlyItsOwn' /\ probe'.pc = "gone"
    BY <2>1, <2>2, <2>3, Saved
  <2>5. ProbeKept'
    BY <2>4 DEF ProbeKept
  <2> QED BY <2>1, <2>4, <2>5, ProbeStays
<1>5. CASE ValidatorEnds
  <2>1. /\ probe.pc # "gone" /\ UNCHANGED <<live, births, mem, disk, cleaner, child, restarts, slips, misread>>
        /\ probe' = [probe EXCEPT !.pc = "gone"] /\ probe' \in ProbeRec
    BY <1>1, <1>5 DEF ValidatorEnds, Enters, HostTyped, ProbeRec
  <2>2. probe'.pc = "gone" => ProbeKept'
    BY DEF ProbeKept
  <2> QED BY <2>1, <2>2, Goes
<1> QED BY <1>2, <1>3, <1>4, <1>5

\* Once what is recorded is gone, and nothing was left unpromoted, nothing is left.
LEMMA NothingLeft ==
  ASSUME HostTyped, Remembers(disk), ~Alive(Recorded), NothingElse
  PROVE  OfRun = {}
<1> SUFFICES ASSUME NEW p \in OfRun
             PROVE  FALSE
  OBVIOUS
<1>1. p \in live /\ p.what = "comfy" /\ Id(p) # Recorded
  BY DEF OfRun, Alive
<1>2. disk.current = NoProcess /\ ~Unpromoted
  <2>1. CASE disk.current # NoProcess
    BY <1>1, <2>1 DEF Remembers, Recorded, NoMark
  <2> QED BY <2>1 DEF NothingElse
<1>3. Id(p) # NoProcess /\ Id(p) # disk.root
  BY <1>1, <1>2 DEF Id, NoProcess, Recorded, HostTyped, ProcessRec
<1>4. p.mark # NoMark /\ disk.intent = p.mark
  BY <1>2, <1>3 DEF Remembers
<1>5. CASE disk.provisional # Nobody
  <2>1. p.pid = disk.provisional
    BY <1>4, <1>5 DEF Remembers
  <2> QED BY <1>1, <1>2, <1>5, <2>1 DEF Unpromoted, NotThere
<1>6. CASE disk.provisional = Nobody
  BY <1>1, <1>2, <1>4, <1>6 DEF Unpromoted, Marked
<1> QED BY <1>5, <1>6

\* The launcher stops what is recorded, after a look; it counts as proven only
\* what is gone.
LEMMA CleanerStepKept ==
  ASSUME HostInv, Cleanup \/ KillRecorded \/ AwaitRecorded
  PROVE  HostInv'
<1>1. /\ HostTyped /\ ApartKept /\ RememberedKept /\ ProbeKept /\ AimKept(probe) /\ AimKept(cleaner)
      /\ CleanerKept /\ AtMostOne /\ ProvenMeansStopped /\ KillsOnlyItsOwn
      /\ live' \subseteq live /\ UNCHANGED <<births, mem, disk, probe, child, restarts, misread>>
      /\ OfRun' \subseteq OfRun
  BY Fewer DEF HostInv, Cleanup, KillRecorded, AwaitRecorded
<1>2. RememberedKept' /\ ApartKept' /\ AtMostOne'
  BY <1>1, StillRemembered DEF ApartKept, AtMostOne
<1>3. probe.pc = "gone"
  BY <1>1 DEF Cleanup, KillRecorded, AwaitRecorded, CleanerKept
<1>4. ProbeKept' /\ AimKept(probe)'
  BY <1>1, <1>3 DEF ProbeKept, AimKept
<1>5. CASE Cleanup
  <2>1. UNCHANGED <<live, slips>>
    BY <1>5 DEF Cleanup
  <2>2. \/ /\ Alive(Recorded)
           /\ cleaner' = [pc |-> "kill", aim |-> Recorded, seen |-> births]
        \/ cleaner' = [pc |-> "unproven", aim |-> NoProcess, seen |-> births]
        \/ /\ cleaner' = [pc |-> "proven", aim |-> NoProcess, seen |-> births]
           /\ NotThere(Recorded.pid) /\ NothingElse
    BY <1>5 DEF Cleanup, Turns, Provable, Alive
  <2>3. /\ cleaner' \in CleanerRec /\ Recorded \in IdRec /\ births \in Nat /\ cleaner'.seen = births
    <3>1. Recorded \in IdRec /\ births \in Nat /\ NoProcess \in IdRec
      BY <1>1 DEF HostTyped, KnownRec, IdRec, NoProcess, Recorded
    <3> QED BY <2>2, <3>1 DEF CleanerRec
  <2>4. Recorded' = Recorded
    BY <1>1 DEF Recorded
  <2>5. cleaner'.pc = "proven" => OfRun = {}
    <3> SUFFICES ASSUME NotThere(Recorded.pid), NothingElse
                 PROVE  OfRun = {}
      BY <2>2
    <3>1. ~Alive(Recorded)
      BY DEF Alive, NotThere, Id
    <3> QED BY <1>1, <3>1, NothingLeft DEF RememberedKept
  <2>6. HostTyped' /\ CleanerKept' /\ KillsOnlyItsOwn' /\ ProvenMeansStopped'
    BY <1>1, <1>3, <2>1, <2>2, <2>3, <2>4, <2>5 DEF HostTyped, CleanerKept, KillsOnlyItsOwn,
       ProvenMeansStopped, OfRun
  <2>7. AimKept(cleaner)'
    <3>1. CASE cleaner'.pc = "kill"
      <4>1. cleaner'.aim = Recorded /\ Alive(Recorded)
        BY <2>2, <3>1
      <4>2. PICK q \in live : Id(q) = Recorded
        BY <4>1 DEF Alive
      <4>3. \A p \in live : p.pid = Recorded.pid => Id(p) = Recorded
        BY <1>1, <4>2 DEF ApartKept, Id
      <4> QED BY <1>1, <2>1, <2>3, <4>1, <4>3 DEF AimKept
    <3>2. CASE cleaner'.pc # "kill"
      BY <1>1, <2>3, <3>2 DEF AimKept
    <3> QED BY <3>1, <3>2
  <2> QED BY <1>2, <1>4, <2>6, <2>7 DEF HostInv
<1>6. CASE KillRecorded
  <2>1. /\ cleaner.pc = "kill" /\ cleaner'.pc = "await" /\ cleaner'.aim = cleaner.aim
        /\ cleaner'.seen = cleaner.seen
        /\ cleaner' \in CleanerRec
    BY <1>1, <1>6 DEF KillRecorded, HostTyped, CleanerRec
  <2>2. KillsOnlyItsOwn'
    <3>1. \A p \in Hits(cleaner.aim.pid) : Id(p) # cleaner.aim => p.born > cleaner.seen
      BY <1>1, <2>1 DEF AimKept, Hits, HostTyped, ProcessRec, CleanerRec
    <3>2. slips' = slips \cup {[hit |-> p.born, seen |-> cleaner.seen] : p \in {q \in Hits(cleaner.aim.pid) : Id(q) # cleaner.aim}}
      BY <1>6 DEF KillRecorded, Slipped
    <3>3. \A s \in slips' : s \in slips \/ \E p \in Hits(cleaner.aim.pid) : Id(p) # cleaner.aim /\ s = [hit |-> p.born, seen |-> cleaner.seen]
      BY <3>2
    <3> QED BY <1>1, <3>1, <3>3 DEF KillsOnlyItsOwn
  <2>3. HostTyped' /\ CleanerKept' /\ ProvenMeansStopped' /\ AimKept(cleaner)'
    BY <1>1, <1>3, <2>1 DEF HostTyped, CleanerKept, ProvenMeansStopped, AimKept, Recorded
  <2> QED BY <1>2, <1>4, <2>2, <2>3 DEF HostInv
<1>7. CASE AwaitRecorded
  <2>1. /\ cleaner.pc = "await" /\ UNCHANGED <<live, slips>>
        /\ \/ cleaner' = [pc |-> "unproven", aim |-> NoProcess, seen |-> births]
           \/ cleaner' = [pc |-> "proven", aim |-> NoProcess, seen |-> births] /\ ~Alive(cleaner.aim) /\ NothingElse
        /\ cleaner.aim = Recorded
    BY <1>1, <1>7 DEF AwaitRecorded, Turns, CleanerKept
  <2>2. /\ cleaner' \in CleanerRec /\ cleaner'.pc \in {"proven", "unproven"}
        /\ cleaner'.seen = births /\ births \in Nat
    BY <1>1, <2>1 DEF HostTyped, CleanerRec, IdRec, NoProcess
  <2>3. cleaner'.pc = "proven" => OfRun = {}
    BY <1>1, <2>1, NothingLeft DEF RememberedKept
  <2>4. HostTyped' /\ CleanerKept' /\ KillsOnlyItsOwn' /\ ProvenMeansStopped' /\ AimKept(cleaner)'
    BY <1>1, <1>3, <2>1, <2>2, <2>3 DEF HostTyped, CleanerKept, KillsOnlyItsOwn, ProvenMeansStopped, AimKept, OfRun
  <2> QED BY <1>2, <1>4, <2>4 DEF HostInv
<1> QED BY <1>5, <1>6, <1>7

\* A process ends by itself, or a stranger starts, perhaps with the number of one
\* that has ended.
LEMMA WorldKept ==
  ASSUME HostInv, (\E p \in live : Ends(p)) \/ \E pid \in Pids : StrangerStarts(pid)
  PROVE  HostInv'
<1>1. /\ HostTyped /\ ApartKept /\ RememberedKept /\ ProbeKept /\ AimKept(probe) /\ AimKept(cleaner)
      /\ CleanerKept /\ AtMostOne /\ ProvenMeansStopped /\ KillsOnlyItsOwn
      /\ UNCHANGED <<mem, disk, probe, cleaner, child, restarts, slips, misread>>
  BY DEF HostInv, Ends, StrangerStarts
<1>2. CASE \E p \in live : Ends(p)
  <2>1. live' \subseteq live /\ births' = births
    BY <1>2 DEF Ends
  <2>2. OfRun' \subseteq OfRun /\ RememberedKept'
    BY <1>1, <2>1, Fewer, StillRemembered
  <2>3. HostTyped' /\ ApartKept' /\ AimKept(probe)' /\ AimKept(cleaner)'
    BY <1>1, <2>1 DEF HostTyped, ApartKept, AimKept
  <2>4. ProbeKept' /\ CleanerKept' /\ AtMostOne' /\ ProvenMeansStopped' /\ KillsOnlyItsOwn'
    BY <1>1, <2>2 DEF ProbeKept, CleanerKept, AtMostOne, ProvenMeansStopped, KillsOnlyItsOwn, Only, Recorded
  <2> QED BY <2>2, <2>3, <2>4 DEF HostInv
<1>3. ASSUME NEW pid \in Pids, StrangerStarts(pid)
      PROVE  HostInv'
  <2> DEFINE c == [born |-> births + 1, pid |-> pid, what |-> "stranger", parent |-> "system", mark |-> NoMark]
  <2>1. live' = live \cup {c} /\ births' = births + 1 /\ \A p \in live : p.pid # pid
    BY <1>3 DEF StrangerStarts, Usable, NotThere
  <2>2. c \in ProcessRec /\ c.born = births + 1 /\ c.pid = pid /\ c.what = "stranger" /\ births \in Nat
    BY <1>1 DEF ProcessRec, HostTyped, NoMark
  <2> HIDE DEF c
  <2>3. OfRun' = OfRun
    BY <1>1, <2>1, <2>2 DEF OfRun
  <2>4. /\ \A p \in live : p.born \in Nat /\ p.born <= births
        /\ \A id \in misread : id.born \in Nat /\ id.born <= births
    BY <1>1 DEF ApartKept, HostTyped, ProcessRec, IdRec
  <2>5. HostTyped' /\ ApartKept'
    BY <1>1, <2>1, <2>2, <2>4 DEF HostTyped, ApartKept
  <2>6. AimKept(probe)' /\ AimKept(cleaner)'
    <3>1. probe.seen \in Nat /\ cleaner.seen \in Nat
      BY <1>1 DEF HostTyped, ProbeRec, CleanerRec
    <3> QED BY <1>1, <2>1, <2>2, <3>1 DEF AimKept
  <2>7. /\ RememberedKept' /\ ProbeKept' /\ CleanerKept' /\ AtMostOne' /\ ProvenMeansStopped'
        /\ KillsOnlyItsOwn'
    BY <1>1, <2>3 DEF RememberedKept, Remembers, ProbeKept, CleanerKept, AtMostOne, ProvenMeansStopped,
       KillsOnlyItsOwn, Only, Recorded
  <2> QED BY <2>5, <2>6, <2>7 DEF HostInv
<1> QED BY <1>2, <1>3

\* Every step keeps the invariant.
LEMMA HostStep == HostInv /\ [HostNext]_hostVars => HostInv'
<1> SUFFICES ASSUME HostInv, [HostNext]_hostVars
             PROVE  HostInv'
  OBVIOUS
<1>1. CASE UNCHANGED hostVars
  BY <1>1 DEF hostVars, HostInv, HostTyped, ApartKept, RememberedKept, Remembers, ProbeKept, AimKept,
     CleanerKept,
              AtMostOne, ProvenMeansStopped, KillsOnlyItsOwn, OfRun, Only, Recorded
<1>2. CASE ProbeStep
  BY <1>2, StopKept, KillKept, IntendKept, HostSpawnKept, PromoteKept, UndoKept DEF ProbeStep
<1>3. CASE HostNext
  BY <1>2, <1>3, CleanerStepKept, WorldKept DEF HostNext
<1> QED BY <1>1, <1>3

\* What the invariant says of the ComfyUI of a run
LEMMA HostInvSays == HostInv => ComfyAccounted
<1> SUFFICES ASSUME HostInv
             PROVE  ComfyAccounted
  OBVIOUS
<1>1. RememberedKept /\ AtMostOne /\ ProvenMeansStopped /\ KillsOnlyItsOwn
  BY DEF HostInv
<1>2. NeverForgotten
  BY <1>1 DEF RememberedKept, Remembers, NeverForgotten
<1>3. OneComfy
  <2>1. CASE OfRun = {}
    BY <2>1, FS_EmptySet DEF OneComfy
  <2>2. ASSUME NEW p \in OfRun
        PROVE  OneComfy
    <3>1. OfRun = {p}
      BY <1>1, <2>2 DEF AtMostOne
    <3>2. Cardinality({p}) = 1
      BY FS_Singleton
    <3> QED BY <3>1, <3>2 DEF OneComfy
  <2> QED BY <2>1, <2>2
<1> QED BY <1>1, <1>2, <1>3 DEF ComfyAccounted

\* The inductive invariant of the ComfyUI a run owns.
THEOREM HostInvariant == HostSpec => []HostInv
<1>1. HostInit => HostInv
  <2> SUFFICES ASSUME HostInit
               PROVE  HostInv
    OBVIOUS
  <2>1. PICK pid \in Pids :
          LET first == Comfy(1, pid, "launcher", NoMark)
          IN /\ live = {first} /\ births = 1
             /\ mem = Known(Id(first), Id(first), NoMark, Nobody) /\ disk = mem
             /\ probe = [pc |-> "idle", aim |-> NoProcess, then |-> "none", seen |-> 0]
             /\ cleaner = [pc |-> "waiting", aim |-> NoProcess, seen |-> 0]
             /\ child = NoProcess /\ restarts = 0 /\ slips = {} /\ misread = {}
    BY DEF HostInit
  <2> DEFINE c == Comfy(1, pid, "launcher", NoMark)
             id == Id(c)
             k == Known(id, id, NoMark, Nobody)
  <2>2. c \in ProcessRec /\ c.born = 1 /\ c.what = "comfy" /\ c.mark = NoMark /\ id \in IdRec /\ id.born = 1
    BY DEF Comfy, ProcessRec, NoMark, Id, IdRec
  <2>3. /\ live = {c} /\ births = 1 /\ mem = k /\ disk = k /\ child = NoProcess /\ restarts = 0
        /\ slips = {} /\ misread = {}
        /\ probe \in ProbeRec /\ probe.pc = "idle" /\ probe.seen = 0
        /\ cleaner \in CleanerRec /\ cleaner.pc = "waiting" /\ cleaner.seen = 0
    BY <2>1 DEF ProbeRec, CleanerRec, IdRec, NoProcess
  <2>4. k \in KnownRec /\ k.current = id /\ k.root = id /\ k.intent = NoMark /\ k.provisional = Nobody
    BY <2>2 DEF Known, KnownRec, NoMark
  <2>5. OfRun = {c} /\ Id(c) = id
    BY <2>2, <2>3 DEF OfRun
  <2> HIDE DEF c, id, k
  <2>6. HostTyped /\ ApartKept
    BY <2>2, <2>3, <2>4 DEF HostTyped, ApartKept, IdRec, NoProcess
  <2>7. RememberedKept /\ ProbeKept /\ AtMostOne
    BY <2>2, <2>3, <2>4, <2>5 DEF RememberedKept, Remembers, ProbeKept, Only, AtMostOne
  <2>8. AimKept(probe) /\ AimKept(cleaner) /\ CleanerKept /\ ProvenMeansStopped /\ KillsOnlyItsOwn
    BY <2>3 DEF AimKept, CleanerKept, ProvenMeansStopped, KillsOnlyItsOwn
  <2> QED BY <2>6, <2>7, <2>8 DEF HostInv
<1> QED BY <1>1, HostStep, PTL DEF HostSpec

\* The ComfyUI of a run is known to somebody who can stop it, there is one of it,
\* and nothing else is stopped, for any numbers of processes, restarts and
\* strangers, wherever the validator and its writes fail.
THEOREM ComfyKnown == HostSpec => []ComfyAccounted
<1> QED BY HostInvariant, HostInvSays, PTL

-----------------------------------------------------------------------------
(***************************************************************************)
(* The character library and the uploads.                                  *)
(***************************************************************************)

AskKinds == {"window", "change", "characters", "project"}
Unwritten == {"load", "await", "chunks", "write"}
Edits == 0..MaxAsked

AskRec == [pc : Unwritten \cup {"idle", "list", "revision", "put", "save"}, kind : AskKinds \cup {"none"}, edit : Edits,
           base : SUBSET Edits, revision : SUBSET Edits, name : Edits, alone : BOOLEAN,
           answer : {"none", "saved", "conflict", "refused", "uploaded"}]

LibraryTyped ==
  /\ library \subseteq Edits /\ asked \in Edits
  /\ ask \in [Clients -> AskRec]
  /\ stored \in [Dirs -> [Slots -> Edits]]

\* Requests have numbers of their own, and no file is there under the number of
\* a request that has yet to write it.
Open(c) == ask[c].pc # "idle"

NumbersKept ==
  /\ \A c \in Clients : Open(c) => ask[c].edit \in 1..asked /\ ask[c].kind \in AskKinds /\ ask[c].answer = "none"
  /\ \A c, d \in Clients : Open(c) /\ Open(d) /\ c # d => ask[c].edit # ask[d].edit
  /\ \A d \in Dirs : \A n \in Slots : stored[d][n] <= asked
  /\ \A c \in Clients : ask[c].pc \in Unwritten => \A d \in Dirs : \A n \in Slots : stored[d][n] # ask[c].edit

\* A directory has a file once.
FilesApart == \A d \in Dirs : \A m, n \in Slots : m # n /\ stored[d][m] # 0 => stored[d][m] # stored[d][n]

\* What a record of a request of client c says of the lock, the loop and the
\* names.
RequestKept(c, f) ==
  /\ f.pc = "list" => f.kind = "window"
  /\ f.pc = "revision" => held = c /\ f.base = library /\ f.kind = "window"
  /\ f.pc = "put" => f.base = f.revision /\ f.kind = "window"
  /\ f.pc = "load" => f.kind \in {"change", "characters"}
  /\ f.pc \in {"await", "chunks", "write"} => f.kind \in Dirs
  /\ f.pc = "chunks" => IF f.kind = "project" THEN f.name \in Slots ELSE f.name = 0
  /\ f.pc = "write" => loop = c /\ f.name \in Slots /\ (f.kind = "characters" => stored["characters"][f.name] = 0)

RequestsKept == \A c \in Clients : RequestKept(c, ask[c])

\* Uploads to a project that overlap are not alone.
OverlapsKept ==
  \A c, d \in Clients : Open(c) /\ Open(d) /\ c # d /\ ask[c].kind = "project" /\ ask[d].kind = "project" => ~ask[c].alone

\* An upload that was answered has its file, under a name that no other has
\* chosen, if it was alone.
Chosen(c) == ask[c].pc \in {"chunks", "write"} /\ ask[c].kind = "project"

UploadKept(a) ==
  /\ a.dir \in Dirs /\ a.name \in Slots /\ a.edit # 0
  /\ a.dir = "characters" \/ a.alone => stored[a.dir][a.name] = a.edit
  /\ a.dir = "project" /\ a.alone => \A c \in Clients : Chosen(c) => ask[c].name # a.name

AnswersKept == \A a \in answered : UploadKept(a)

LibraryInv == LibraryTyped /\ NumbersKept /\ FilesApart /\ RequestsKept /\ OverlapsKept /\ AnswersKept

-----------------------------------------------------------------------------
\* A set of numbers that is not empty has a least one.
LEMMA Least == ASSUME NEW S \in SUBSET Nat, S # {} PROVE \E i \in S : \A k \in S : i <= k
<1>1. IsWellFoundedOn(OpToRel(<, Nat), Nat)
  BY NatLessThanWellFounded
<1>2. PICK i \in S : \A k \in S : ~(<<k, i>> \in OpToRel(<, Nat))
  BY <1>1, WFMin
<1>3. \A k \in S : k < i => <<k, i>> \in OpToRel(<, Nat)
  BY DEF OpToRel
<1>4. \A k \in S : ~(k < i)
  BY <1>2, <1>3
<1>. QED
  BY <1>4

\* A directory has a name left for a request that has yet to write.
LEMMA NameLeft ==
  ASSUME LibraryInv, NEW c \in Clients, ask[c].pc \in Unwritten, NEW d \in Dirs
  PROVE  /\ FirstFree(d) \in Slots /\ stored[d][FirstFree(d)] = 0
<1>1. ask[c].edit \in 1..MaxAsked /\ \A n \in Slots : stored[d][n] \in Edits /\ stored[d][n] # ask[c].edit
  BY AskedAssumption DEF LibraryInv, LibraryTyped, NumbersKept, Open, Edits, Unwritten
<1>2. FreeNames(d) # {}
  <2>1. SUFFICES ASSUME \A n \in Slots : stored[d][n] # 0 PROVE FALSE
    BY DEF FreeNames
  <2>. DEFINE T == Slots \ {ask[c].edit}
              f == [n \in Slots |-> stored[d][n]]
  <2>2. f \in [Slots -> T]
    BY <1>1, <2>1, AskedAssumption DEF Slots, Edits
  <2>3. IsFiniteSet(Slots) /\ Cardinality(Slots) = MaxAsked
    BY AskedAssumption, FS_Interval DEF Slots
  <2>4. IsFiniteSet(T) /\ Cardinality(T) = MaxAsked - 1
    BY <1>1, <2>3, FS_RemoveElement DEF Slots
  <2>5. Cardinality(T) < Cardinality(Slots)
    BY <2>3, <2>4, AskedAssumption
  <2>6. \A n \in Slots : f[n] = stored[d][n]
    OBVIOUS
  <2>. HIDE DEF T, f
  <2>7. \E m, n \in Slots : m # n /\ f[m] = f[n]
    BY <2>2, <2>3, <2>4, <2>5, FS_PigeonHole
  <2>. QED
    BY <2>1, <2>6, <2>7 DEF LibraryInv, FilesApart
<1>3. FreeNames(d) \in SUBSET Nat
  BY DEF FreeNames, Slots
<1>4. \E n \in FreeNames(d) : \A m \in FreeNames(d) : n <= m
  BY <1>2, <1>3, Least
<1>5. FirstFree(d) \in FreeNames(d)
  BY <1>4 DEF FirstFree
<1>. QED
  BY <1>5 DEF FreeNames

-----------------------------------------------------------------------------
\* A request of client c moves on, without a file written: it keeps its number
\* and whether it was alone, or is over.
Follows(f, e) ==
  /\ f.pc # "idle" => f.edit = e.edit /\ f.kind = e.kind /\ f.alone = e.alone /\ f.answer = "none" /\ e.pc # "idle"
  /\ f.pc \in Unwritten => e.pc \in Unwritten
  /\ f.pc \in {"chunks", "write"} /\ f.kind = "project" =>
       \/ e.pc \in {"chunks", "write"} /\ e.name = f.name
       \/ stored["project"][f.name] = 0

LEMMA QuietRequest ==
  ASSUME LibraryInv, NEW c \in Clients, NEW f \in AskRec, ask' = [ask EXCEPT ![c] = f], Follows(f, ask[c]),
         library' \subseteq Edits, UNCHANGED <<stored, answered, asked>>, RequestsKept'
  PROVE  LibraryInv'
<1>1. ask \in [Clients -> AskRec]
  BY DEF LibraryInv, LibraryTyped
<1>2. ask' \in [Clients -> AskRec] /\ ask'[c] = f /\ \A x \in Clients \ {c} : ask'[x] = ask[x]
  <2>. HIDE DEF AskRec
  <2>. QED
    BY <1>1
<1>3. LibraryTyped' /\ FilesApart'
  BY <1>2 DEF LibraryInv, LibraryTyped, FilesApart
<1>4. \A x \in Clients : Open(x)' => Open(x) /\ (ask[x].edit)' = ask[x].edit /\ (ask[x].kind)' = ask[x].kind
                                    /\ (ask[x].alone)' = ask[x].alone
  BY <1>2 DEF Open, Follows
<1>5. NumbersKept'
  <2>1. \A x \in Clients : Open(x)' => (ask[x].answer)' = "none"
    BY <1>2 DEF LibraryInv, NumbersKept, Open, Follows
  <2>2. \A x \in Clients : (ask[x].pc)' \in Unwritten => ask[x].pc \in Unwritten /\ Open(x)'
    BY <1>2 DEF Follows, Open, Unwritten
  <2>. QED
    BY <1>4, <2>1, <2>2 DEF LibraryInv, NumbersKept
<1>6. OverlapsKept'
  BY <1>4 DEF LibraryInv, OverlapsKept
<1>7. AnswersKept'
  <2>1. ASSUME NEW a \in answered
        PROVE  UploadKept(a)'
    <3>1. UploadKept(a)
      BY DEF LibraryInv, AnswersKept
    <3>2. ASSUME a.dir = "project", a.alone, NEW x \in Clients, Chosen(x)'
          PROVE  (ask[x].name)' # a.name
      <4>1. CASE x # c
        BY <1>2, <3>1, <3>2, <4>1 DEF UploadKept, Chosen
      <4>2. CASE x = c /\ ask[c].pc \in {"chunks", "write"} /\ ask[c].name = f.name
        <5>1. Chosen(c)
          BY <1>2, <1>4, <3>2, <4>2 DEF Chosen, Open
        <5>. QED
          BY <1>2, <3>1, <3>2, <4>2, <5>1 DEF UploadKept
      <4>3. CASE x = c /\ stored["project"][f.name] = 0
        BY <1>2, <3>1, <3>2, <4>3 DEF UploadKept
      <4>. QED
        BY <1>2, <3>2, <4>1, <4>2, <4>3 DEF Chosen, Follows
    <3>. QED
      BY <3>1, <3>2 DEF UploadKept
  <2>. QED
    BY <2>1 DEF AnswersKept
<1>. QED
  BY <1>3, <1>5, <1>6, <1>7 DEF LibraryInv

\* A record of a request with another step, or one that is over.
LEMMA MovedRecord ==
  ASSUME LibraryTyped, NEW c \in Clients, NEW v \in Unwritten \cup {"list", "revision", "put", "save"}
  PROVE  LET e == ask[c]
             f == [e EXCEPT !.pc = v]
         IN /\ e \in AskRec /\ f \in AskRec /\ f.pc = v /\ f.edit = e.edit /\ f.kind = e.kind /\ f.alone = e.alone
            /\ f.name = e.name /\ f.base = e.base /\ f.revision = e.revision /\ f.answer = e.answer
<1>1. ask[c] \in AskRec
  BY DEF LibraryTyped
<1>. QED
  BY <1>1 DEF AskRec

LEMMA NoAskTyped == NoAsk \in AskRec
<1>1. 0 \in Edits /\ {} \in SUBSET Edits /\ TRUE \in BOOLEAN
  BY AskedAssumption DEF Edits
<1>. HIDE DEF Edits
<1>. QED
  BY <1>1 DEF NoAsk, AskRec

LEMMA OverRecord ==
  ASSUME NEW v \in {"none", "saved", "conflict", "refused", "uploaded"}
  PROVE  LET f == [NoAsk EXCEPT !.answer = v] IN f \in AskRec /\ f.pc = "idle" /\ f.answer = v
BY NoAskTyped DEF NoAsk, AskRec

\* What the invariant says of a record.
LEMMA RequestFacts ==
  ASSUME LibraryInv, NEW c \in Clients
  PROVE  /\ LibraryTyped /\ ask \in [Clients -> AskRec] /\ ask[c] \in AskRec /\ RequestKept(c, ask[c])
         /\ ask[c].pc # "idle" => ask[c].answer = "none" /\ ask[c].kind \in AskKinds
BY DEF LibraryInv, LibraryTyped, RequestsKept, NumbersKept, Open

LEMMA AskSet ==
  ASSUME ask \in [Clients -> AskRec], NEW c \in Clients, NEW f, ask' = [ask EXCEPT ![c] = f]
  PROVE  ask'[c] = f
OBVIOUS

\* The other clients' requests are as they were, if the lock and the loop are
\* not taken from them.
LEMMA OthersKept ==
  ASSUME LibraryInv, NEW c \in Clients, NEW f \in AskRec, ask' = [ask EXCEPT ![c] = f], RequestKept(c, ask[c])',
         \A x \in Clients \ {c} : held = x => held' = x /\ library' = library,
         \A x \in Clients \ {c} : loop = x => loop' = x /\ stored' = stored
  PROVE  RequestsKept'
<1>1. ask \in [Clients -> AskRec]
  BY DEF LibraryInv, LibraryTyped
<1>2. ask' \in [Clients -> AskRec] /\ ask'[c] = f /\ \A x \in Clients \ {c} : ask'[x] = ask[x]
  <2>. HIDE DEF AskRec
  <2>. QED
    BY <1>1
<1>3. ASSUME NEW x \in Clients \ {c}
      PROVE  RequestKept(x, ask[x])'
  <2>1. RequestKept(x, ask[x])
    BY DEF LibraryInv, RequestsKept
  <2>. QED
    BY <1>2, <2>1 DEF RequestKept
<1>. QED
  BY <1>2, <1>3 DEF RequestsKept

LEMMA ReadListKept == ASSUME LibraryInv, NEW c \in Clients, ReadList(c) PROVE LibraryInv'
<1>. DEFINE f == [ask[c] EXCEPT !.pc = "revision", !.base = library]
<1>1. LibraryTyped /\ ask \in [Clients -> AskRec] /\ ask[c] \in AskRec /\ RequestKept(c, ask[c])
      /\ ask[c].answer = "none" /\ ask[c].pc = "list" /\ library \subseteq Edits
  BY RequestFacts DEF ReadList, LibraryTyped
<1>2. /\ f \in AskRec /\ f.pc = "revision" /\ f.base = library /\ f.kind = ask[c].kind /\ f.edit = ask[c].edit
      /\ f.alone = ask[c].alone /\ f.answer = "none"
  BY <1>1 DEF AskRec
<1>3. ask' = [ask EXCEPT ![c] = f] /\ held' = c /\ held = NoOne /\ UNCHANGED <<library, loop, stored, answered, asked>>
  BY <1>1 DEF ReadList, HeldBy
<1>. HIDE DEF f
<1>4. RequestKept(c, ask[c])'
  <2>1. ask'[c] = f
    BY <1>1, <1>3, <1>2, AskSet
  <2>. QED
    BY <1>1, <1>2, <1>3, <2>1 DEF RequestKept
<1>5. RequestsKept'
  BY <1>2, <1>3, <1>4, OthersKept, NobodyAssumption
<1>6. Follows(f, ask[c])
  BY <1>1, <1>2 DEF Follows, Unwritten
<1>. QED
  BY <1>1, <1>2, <1>3, <1>5, <1>6, QuietRequest

LEMMA ReadRevisionKept == ASSUME LibraryInv, NEW c \in Clients, ReadRevision(c) PROVE LibraryInv'
<1>. DEFINE f == [ask[c] EXCEPT !.pc = "put", !.revision = library]
<1>1. LibraryTyped /\ ask \in [Clients -> AskRec] /\ ask[c] \in AskRec /\ RequestKept(c, ask[c])
      /\ ask[c].answer = "none" /\ ask[c].pc = "revision" /\ library \subseteq Edits
  BY RequestFacts DEF ReadRevision, LibraryTyped
<1>2. /\ f \in AskRec /\ f.pc = "put" /\ f.revision = library /\ f.base = ask[c].base /\ f.kind = ask[c].kind
      /\ f.edit = ask[c].edit /\ f.alone = ask[c].alone /\ f.answer = "none"
  BY <1>1 DEF AskRec
<1>3. ask' = [ask EXCEPT ![c] = f] /\ UNCHANGED <<library, loop, stored, answered, asked>>
  BY <1>1 DEF ReadRevision
<1>. HIDE DEF f
<1>4. held = c /\ ask[c].base = library /\ ask[c].kind = "window"
  BY <1>1 DEF RequestKept
<1>5. RequestKept(c, ask[c])'
  <2>1. ask'[c] = f
    BY <1>1, <1>3, <1>2, AskSet
  <2>. QED
    BY <1>2, <1>3, <1>4, <2>1 DEF RequestKept
<1>6. RequestsKept'
  BY <1>2, <1>3, <1>4, <1>5, OthersKept
<1>7. Follows(f, ask[c])
  BY <1>1, <1>2 DEF Follows, Unwritten
<1>. QED
  BY <1>1, <1>2, <1>3, <1>6, <1>7, QuietRequest

LEMMA PutCharactersKept == ASSUME LibraryInv, NEW c \in Clients, PutCharacters(c) PROVE LibraryInv'
<1>1. LibraryTyped /\ ask \in [Clients -> AskRec] /\ ask[c] \in AskRec /\ library \subseteq Edits /\ held = NoOne
      /\ UNCHANGED <<held, loop, stored, answered, asked>>
  BY RequestFacts DEF PutCharacters, LibraryTyped
<1>2. PICK v \in {"saved", "conflict"} : ask' = [ask EXCEPT ![c] = [NoAsk EXCEPT !.answer = v]]
  BY DEF PutCharacters, Over
<1>. DEFINE f == [NoAsk EXCEPT !.answer = v]
<1>3. f \in AskRec /\ f.pc = "idle"
  BY OverRecord
<1>4. ask' = [ask EXCEPT ![c] = f]
  BY <1>2
<1>. HIDE DEF f
<1>5. library' \subseteq Edits
  <2>1. ask[c].base \subseteq Edits /\ ask[c].edit \in Edits
    BY <1>1 DEF AskRec
  <2>. QED
    BY <1>1, <2>1 DEF PutCharacters
<1>6. RequestsKept'
  BY <1>1, <1>3, <1>4, OthersKept, NobodyAssumption DEF RequestKept
<1>7. Follows(f, ask[c])
  BY <1>3 DEF Follows, Unwritten
<1>. QED
  BY <1>1, <1>3, <1>4, <1>5, <1>6, <1>7, QuietRequest

LEMMA LoadCharactersKept == ASSUME LibraryInv, NEW c \in Clients, LoadCharacters(c) PROVE LibraryInv'
<1>1. LibraryTyped /\ ask \in [Clients -> AskRec] /\ ask[c] \in AskRec /\ RequestKept(c, ask[c])
      /\ ask[c].answer = "none" /\ ask[c].pc = "load" /\ library \subseteq Edits
  BY RequestFacts DEF LoadCharacters, LibraryTyped
<1>2. PICK v \in {"save", "await"} :
         /\ ask' = [ask EXCEPT ![c].pc = v, ![c].base = library]
         /\ v = "await" => ask[c].kind # "change"
  BY DEF LoadCharacters
<1>. DEFINE f == [ask[c] EXCEPT !.pc = v, !.base = library]
<1>3. /\ f \in AskRec /\ f.pc = v /\ f.kind = ask[c].kind /\ f.edit = ask[c].edit /\ f.alone = ask[c].alone /\ f.answer = "none"
  BY <1>1 DEF AskRec, Unwritten
<1>4. ask' = [ask EXCEPT ![c] = f] /\ UNCHANGED <<library, held, loop, stored, answered, asked>>
  BY <1>1, <1>2 DEF LoadCharacters
<1>. HIDE DEF f
<1>5. RequestKept(c, ask[c])'
  <2>1. ask'[c] = f
    BY <1>1, <1>4, <1>3, AskSet
  <2>. QED
    BY <1>1, <1>2, <1>3, <1>4, <2>1 DEF RequestKept, Dirs
<1>6. RequestsKept'
  BY <1>3, <1>4, <1>5, OthersKept
<1>7. Follows(f, ask[c])
  BY <1>1, <1>3 DEF Follows, Unwritten
<1>. QED
  BY <1>1, <1>3, <1>4, <1>6, <1>7, QuietRequest

LEMMA AwaitKept == ASSUME LibraryInv, NEW c \in Clients, Await(c) PROVE LibraryInv'
<1>1. LibraryTyped /\ ask \in [Clients -> AskRec] /\ ask[c] \in AskRec /\ RequestKept(c, ask[c])
      /\ ask[c].answer = "none" /\ ask[c].pc = "await" /\ library \subseteq Edits
  BY RequestFacts DEF Await, LibraryTyped
<1>2. ask[c].kind \in Dirs
  BY <1>1 DEF RequestKept
<1>. DEFINE n == IF NamedFirst(ask[c].kind) THEN FirstFree(ask[c].kind) ELSE 0
            f == [ask[c] EXCEPT !.pc = "chunks", !.name = n]
<1>3. IF ask[c].kind = "project" THEN n \in Slots /\ stored["project"][n] = 0 ELSE n = 0
  BY <1>1, <1>2, NameLeft DEF NamedFirst, Unwritten
<1>4. ask' = [ask EXCEPT ![c] = f] /\ UNCHANGED <<library, held, loop, stored, answered, asked>>
  BY <1>1 DEF Await
<1>. HIDE DEF n
<1>5. n \in Edits
  BY <1>3, AskedAssumption DEF Slots, Edits
<1>6. /\ f \in AskRec /\ f.pc = "chunks" /\ f.name = n /\ f.kind = ask[c].kind /\ f.edit = ask[c].edit
      /\ f.alone = ask[c].alone /\ f.answer = "none"
  BY <1>1, <1>5 DEF AskRec, Unwritten
<1>. HIDE DEF f
<1>7. RequestKept(c, ask[c])'
  <2>1. ask'[c] = f
    BY <1>1, <1>4, <1>6, AskSet
  <2>. QED
    BY <1>2, <1>3, <1>6, <1>4, <2>1 DEF RequestKept
<1>8. RequestsKept'
  BY <1>4, <1>6, <1>7, OthersKept
<1>9. Follows(f, ask[c])
  BY <1>1, <1>3, <1>6 DEF Follows, Unwritten
<1>. QED
  BY <1>1, <1>4, <1>6, <1>8, <1>9, QuietRequest

LEMMA ReceivedKept == ASSUME LibraryInv, NEW c \in Clients, Received(c) PROVE LibraryInv'
<1>1. LibraryTyped /\ ask \in [Clients -> AskRec] /\ ask[c] \in AskRec /\ RequestKept(c, ask[c])
      /\ ask[c].answer = "none" /\ ask[c].pc = "chunks" /\ library \subseteq Edits /\ loop = NoOne
      /\ UNCHANGED <<library, held, stored, answered, asked>>
  BY RequestFacts DEF Received, LibraryTyped
<1>2. ask[c].kind \in Dirs /\ IF ask[c].kind = "project" THEN ask[c].name \in Slots ELSE ask[c].name = 0
  BY <1>1 DEF RequestKept
<1>3. CASE Over(c, "refused") /\ UNCHANGED loop
  <2>. DEFINE f == [NoAsk EXCEPT !.answer = "refused"]
  <2>1. f \in AskRec /\ f.pc = "idle"
    BY OverRecord
  <2>2. ask' = [ask EXCEPT ![c] = f]
    BY <1>3 DEF Over
  <2>. HIDE DEF f
  <2>3. RequestsKept'
    BY <1>1, <1>3, <2>1, <2>2, OthersKept DEF RequestKept
  <2>4. Follows(f, ask[c])
    BY <2>1 DEF Follows, Unwritten
  <2>. QED
    BY <1>1, <2>1, <2>2, <2>3, <2>4, QuietRequest
<1>4. CASE /\ ask' = [ask EXCEPT ![c].pc = "write", ![c].name = IF @ = 0 THEN FirstFree(ask[c].kind) ELSE @]
           /\ loop' = c
  <2>. DEFINE n == IF ask[c].name = 0 THEN FirstFree(ask[c].kind) ELSE ask[c].name
              f == [ask[c] EXCEPT !.pc = "write", !.name = n]
  <2>1. IF ask[c].kind = "project" THEN n \in Slots /\ n = ask[c].name ELSE n \in Slots /\ stored[ask[c].kind][n] = 0
    <3>1. 0 \notin Slots
      BY AskedAssumption DEF Slots
    <3>. QED
      BY <1>1, <1>2, <3>1, NameLeft DEF Unwritten
  <2>2. ask' = [ask EXCEPT ![c] = f]
    BY <1>1, <1>4
  <2>. HIDE DEF n
  <2>3. n \in Edits
    BY <2>1, AskedAssumption DEF Slots, Edits
  <2>4. /\ f \in AskRec /\ f.pc = "write" /\ f.name = n /\ f.kind = ask[c].kind /\ f.edit = ask[c].edit
        /\ f.alone = ask[c].alone /\ f.answer = "none"
    BY <1>1, <2>3 DEF AskRec, Unwritten
  <2>. HIDE DEF f
  <2>5. RequestKept(c, ask[c])'
    <3>1. ask'[c] = f
      BY <1>1, <2>2, <2>1, AskSet
    <3>. QED
      BY <1>1, <1>2, <1>4, <2>1, <2>4, <3>1 DEF RequestKept, Dirs
  <2>6. RequestsKept'
    BY <1>1, <2>2, <2>4, <2>5, OthersKept, NobodyAssumption
  <2>7. Follows(f, ask[c])
    BY <1>1, <2>1, <2>4 DEF Follows, Unwritten
  <2>. QED
    BY <1>1, <2>2, <2>4, <2>6, <2>7, QuietRequest
<1>. QED
  BY <1>3, <1>4 DEF Received

LEMMA SaveCharactersKept == ASSUME LibraryInv, NEW c \in Clients, SaveCharacters(c) PROVE LibraryInv'
<1>1. LibraryTyped /\ ask \in [Clients -> AskRec] /\ ask[c] \in AskRec /\ held = NoOne
      /\ UNCHANGED <<held, stored, answered, asked>>
  BY RequestFacts DEF SaveCharacters
<1>. DEFINE f == [NoAsk EXCEPT !.answer = "saved"]
<1>2. f \in AskRec /\ f.pc = "idle"
  BY OverRecord
<1>3. ask' = [ask EXCEPT ![c] = f]
  BY DEF SaveCharacters, Over
<1>. HIDE DEF f
<1>4. library' \subseteq Edits
  <2>1. ask[c].base \subseteq Edits /\ ask[c].edit \in Edits
    BY <1>1 DEF AskRec
  <2>. QED
    BY <2>1 DEF SaveCharacters
<1>5. \A x \in Clients \ {c} : loop = x => loop' = x
  BY DEF SaveCharacters
<1>6. RequestsKept'
  BY <1>1, <1>2, <1>3, <1>5, OthersKept, NobodyAssumption DEF RequestKept
<1>7. Follows(f, ask[c])
  BY <1>2 DEF Follows, Unwritten
<1>. QED
  BY <1>1, <1>2, <1>3, <1>4, <1>6, <1>7, QuietRequest

\* A file is written under a name that is free, or that only this upload has
\* chosen if it is alone.
LEMMA UploadWrittenKept == ASSUME LibraryInv, NEW c \in Clients, WriteFile(c) PROVE LibraryInv'
<1>. DEFINE d == ask[c].kind
            n == ask[c].name
            e == ask[c].edit
<1>0. PICK a : a = [dir |-> d, name |-> n, edit |-> e, alone |-> ask[c].alone]
  OBVIOUS
<1>1. /\ LibraryTyped /\ ask \in [Clients -> AskRec] /\ ask[c] \in AskRec /\ RequestKept(c, ask[c])
      /\ ask[c].pc = "write" /\ Open(c) /\ UNCHANGED <<library, held, asked>>
      /\ stored \in [Dirs -> [Slots -> Edits]]
  BY RequestFacts DEF WriteFile, Open, LibraryTyped
<1>2. d \in Dirs /\ n \in Slots /\ loop = c /\ (d = "characters" => stored[d][n] = 0)
  BY <1>1 DEF RequestKept
<1>3. e \in 1..asked /\ e \in Edits /\ e # 0 /\ \A x \in Dirs : \A m \in Slots : stored[x][m] # e
  <2>1. e \in 1..asked /\ asked \in Edits
    BY <1>1 DEF LibraryInv, NumbersKept, LibraryTyped
  <2>2. \A x \in Dirs : \A m \in Slots : stored[x][m] # e
    BY <1>1 DEF LibraryInv, NumbersKept, Unwritten
  <2>. QED
    BY <2>1, <2>2, AskedAssumption DEF Edits
<1>4. stored' = [stored EXCEPT ![d][n] = e] /\ answered' = answered \cup {a}
  BY <1>0 DEF WriteFile
<1>5. PICK f \in AskRec :
        /\ ask' = [ask EXCEPT ![c] = f]
        /\ IF d = "project" THEN f.pc = "idle"
           ELSE f.pc = "save" /\ f.edit = e /\ f.kind = d /\ f.alone = ask[c].alone /\ f.answer = "none"
  <2>1. CASE d = "project"
    <3>. DEFINE g == [NoAsk EXCEPT !.answer = "uploaded"]
    <3>1. g \in AskRec /\ g.pc = "idle"
      BY OverRecord
    <3>2. ask' = [ask EXCEPT ![c] = g]
      BY <2>1 DEF WriteFile, Over
    <3>. HIDE DEF g
    <3>. QED
      BY <2>1, <3>1, <3>2
  <2>2. CASE d # "project"
    <3>. DEFINE g == [ask[c] EXCEPT !.pc = "save"]
    <3>1. g \in AskRec /\ g.pc = "save" /\ g.edit = e /\ g.kind = d /\ g.alone = ask[c].alone /\ g.answer = ask[c].answer
      BY <1>1, MovedRecord
    <3>2. ask' = [ask EXCEPT ![c] = g]
      BY <2>2 DEF WriteFile, OnTo
    <3>3. ask[c].answer = "none"
      BY <1>1, RequestFacts
    <3>. HIDE DEF g
    <3>. QED
      BY <2>2, <3>1, <3>2, <3>3
  <2>. QED
    BY <2>1, <2>2
<1>6. a.dir = d /\ a.name = n /\ a.edit = e /\ a.alone = ask[c].alone
  BY <1>0
<1>. HIDE DEF d, n, e
<1>7. ask' \in [Clients -> AskRec] /\ ask'[c] = f /\ \A x \in Clients \ {c} : ask'[x] = ask[x]
  <2>. HIDE DEF AskRec
  <2>. QED
    BY <1>1, <1>5
<1>8. /\ stored' \in [Dirs -> [Slots -> Edits]] /\ stored'[d][n] = e
      /\ \A x \in Dirs : \A m \in Slots : x # d \/ m # n => stored'[x][m] = stored[x][m]
  BY <1>1, <1>2, <1>3, <1>4
<1>9. LibraryTyped'
  BY <1>1, <1>7, <1>8 DEF LibraryTyped
<1>10. \A x \in Clients : /\ Open(x)' => /\ Open(x) /\ (ask[x].edit)' = ask[x].edit /\ (ask[x].kind)' = ask[x].kind
                                         /\ (ask[x].alone)' = ask[x].alone /\ ((ask[x].answer)' = "none")
                          /\ (ask[x].pc)' \in Unwritten \/ Chosen(x)' => x # c
  <2>1. \A x \in Clients \ {c} : Open(x) => ask[x].answer = "none"
    BY RequestFacts DEF Open
  <2>. QED
    BY <1>1, <1>5, <1>7, <2>1 DEF Open, Chosen, Unwritten, d, e
<1>11. NumbersKept'
  <2>1. \A x \in Dirs : \A m \in Slots : stored'[x][m] <= asked
    <3>1. e <= asked
      BY <1>3
    <3>. QED
      BY <1>8, <3>1 DEF LibraryInv, NumbersKept
  <2>2. ASSUME NEW x \in Clients, (ask[x].pc)' \in Unwritten, NEW y \in Dirs, NEW m \in Slots
        PROVE  stored'[y][m] # (ask[x].edit)'
    <3>1. x # c /\ ask[x].pc \in Unwritten /\ ask'[x] = ask[x] /\ Open(x)
      BY <1>7, <1>10, <2>2 DEF Open, Unwritten
    <3>2. ask[x].edit # e
      BY <1>1, <3>1 DEF LibraryInv, NumbersKept, e
    <3>. QED
      BY <1>8, <3>1, <3>2 DEF LibraryInv, NumbersKept
  <2>3. \A x \in Clients : Open(x)' => (ask[x].edit)' \in 1..asked' /\ (ask[x].kind)' \in AskKinds /\ (ask[x].answer)' = "none"
    BY <1>1, <1>10 DEF LibraryInv, NumbersKept
  <2>4. \A x, y \in Clients : Open(x)' /\ Open(y)' /\ x # y => (ask[x].edit)' # (ask[y].edit)'
    BY <1>10 DEF LibraryInv, NumbersKept
  <2>. QED
    BY <1>1, <2>1, <2>2, <2>3, <2>4 DEF NumbersKept
<1>12. FilesApart'
  <2>1. ASSUME NEW x \in Dirs, NEW m \in Slots, NEW k \in Slots, m # k, stored'[x][m] # 0
        PROVE  stored'[x][m] # stored'[x][k]
    <3>1. stored[x][m] # e /\ stored[x][k] # e
      BY <1>3
    <3>2. stored[x][m] # 0 => stored[x][m] # stored[x][k]
      BY <2>1 DEF LibraryInv, FilesApart
    <3>. QED
      BY <1>8, <2>1, <3>1, <3>2
  <2>. QED
    BY <2>1 DEF FilesApart
<1>13. RequestsKept'
  <2>1. ASSUME NEW x \in Clients \ {c}
        PROVE  RequestKept(x, ask[x])'
    <3>1. RequestKept(x, ask[x]) /\ ask'[x] = ask[x]
      BY <1>7 DEF LibraryInv, RequestsKept
    <3>2. ask[x].pc # "write"
      BY <1>2, <3>1 DEF RequestKept
    <3>. QED
      BY <1>1, <3>1, <3>2 DEF RequestKept
  <2>2. RequestKept(c, ask[c])'
    BY <1>5, <1>7 DEF RequestKept
  <2>. QED
    BY <2>1, <2>2 DEF RequestsKept
<1>14. OverlapsKept'
  BY <1>10 DEF LibraryInv, OverlapsKept
<1>15. AnswersKept'
  <2>1. ASSUME NEW b \in answered
        PROVE  UploadKept(b)'
    <3>1. UploadKept(b)
      BY DEF LibraryInv, AnswersKept
    <3>2. (b.dir = "characters" \/ b.alone) /\ b.dir = d => b.name # n
      <4>1. CASE d = "characters"
        BY <1>2, <3>1, <4>1 DEF UploadKept
      <4>2. CASE d = "project"
        <5>1. Chosen(c)
          BY <1>1, <4>2 DEF Chosen, d
        <5>. QED
          BY <3>1, <4>2, <5>1 DEF UploadKept, n
      <4>. QED
        BY <1>2, <4>1, <4>2 DEF Dirs
    <3>3. b.dir = "characters" \/ b.alone => stored'[b.dir][b.name] = b.edit
      BY <1>8, <3>1, <3>2 DEF UploadKept
    <3>4. ASSUME b.dir = "project", b.alone, NEW x \in Clients, Chosen(x)'
          PROVE  (ask[x].name)' # b.name
      <4>1. x # c /\ ask'[x] = ask[x] /\ Chosen(x)
        BY <1>7, <1>10, <3>4 DEF Chosen
      <4>. QED
        BY <3>1, <3>4, <4>1 DEF UploadKept
    <3>. QED
      BY <3>1, <3>3, <3>4 DEF UploadKept
  <2>2. UploadKept(a)'
    <3>1. (a.dir \in Dirs /\ a.name \in Slots /\ a.edit # 0 /\ stored[a.dir][a.name] = a.edit)'
      BY <1>2, <1>3, <1>6, <1>8
    <3>2. ASSUME d = "project", ask[c].alone, NEW x \in Clients, Chosen(x)'
          PROVE  FALSE
      <4>1. x # c /\ ask'[x] = ask[x] /\ Open(x) /\ ask[x].kind = "project"
        BY <1>7, <1>10, <3>2 DEF Chosen, Open
      <4>. QED
        BY <1>1, <3>2, <4>1 DEF LibraryInv, OverlapsKept, d
    <3>. QED
      BY <1>6, <3>1, <3>2 DEF UploadKept
  <2>. QED
    BY <1>4, <2>1, <2>2 DEF AnswersKept
<1>. QED
  BY <1>9, <1>11, <1>12, <1>13, <1>14, <1>15 DEF LibraryInv

\* A request comes with the next number.
LEMMA AskLibraryKept == ASSUME LibraryInv, NEW c \in Clients, NEW kind \in AskKinds, AskLibrary(c, kind) PROVE LibraryInv'
<1>. DEFINE v == IF kind = "window" THEN "list" ELSE IF kind = "project" THEN "await" ELSE "load"
            others == Uploading(kind)
<1>1. /\ LibraryTyped /\ ask \in [Clients -> AskRec] /\ ~Open(c) /\ UNCHANGED <<library, held, loop, stored, answered>>
      /\ asked \in Edits /\ asked' = asked + 1 /\ asked < MaxAsked
  BY DEF LibraryInv, LibraryTyped, AskLibrary, Open
<1>2. asked \in Nat /\ asked' \in Edits /\ asked + 1 \in 1..(asked + 1) /\ 1..asked \subseteq 1..(asked + 1)
      /\ asked + 1 \notin 1..asked
  BY <1>1, AskedAssumption DEF Edits
<1>3. PICK f \in AskRec : /\ f.pc = v /\ f.kind = kind /\ f.edit = asked + 1 /\ f.alone = (others = {}) /\ f.answer = "none"
                          /\ ask' = [x \in Clients |-> IF x = c THEN f ELSE IF x \in others THEN [ask[x] EXCEPT !.alone = FALSE]
                                                                           ELSE ask[x]]
  <2>. DEFINE g == [NoAsk EXCEPT !.kind = kind, !.edit = asked + 1, !.alone = (others = {}), !.pc = v, !.name = 0]
  <2>1. g \in AskRec /\ g.pc = v /\ g.kind = kind /\ g.edit = asked + 1 /\ g.alone = (others = {}) /\ g.answer = "none"
    <3>1. v \in {"list", "await", "load"} /\ (others = {}) \in BOOLEAN /\ asked + 1 \in Edits
      BY <1>1, <1>2
    <3>2. kind \in AskKinds
      OBVIOUS
    <3>. DEFINE b == (others = {})
                k == asked + 1
    <3>3. b \in BOOLEAN /\ k \in Edits /\ g = [NoAsk EXCEPT !.kind = kind, !.edit = k, !.alone = b, !.pc = v, !.name = 0]
      BY <3>1
    <3>. HIDE DEF v, others, b, k, g
    <3>4. g \in AskRec /\ g.pc = v /\ g.kind = kind /\ g.edit = k /\ g.alone = b /\ g.answer = "none"
      BY <3>1, <3>2, <3>3, NoAskTyped DEF NoAsk, AskRec, Unwritten
    <3>. QED
      BY <3>4 DEF b, k
  <2>2. ask' = [x \in Clients |-> IF x = c THEN g ELSE IF x \in others THEN [ask[x] EXCEPT !.alone = FALSE] ELSE ask[x]]
    BY DEF AskLibrary
  <2>. HIDE DEF g
  <2>. QED
    BY <2>1, <2>2
<1>4. v \in {"list", "await", "load"} /\ (v = "list" => kind = "window") /\ (v = "load" => kind \in {"change", "characters"})
      /\ (v = "await" => kind \in Dirs)
  BY DEF AskKinds, Dirs
<1>5. \A x \in others : x \in Clients /\ Open(x) /\ ask[x].kind = kind
  BY DEF Uploading, Open
<1>6. \A x \in Clients : Open(x) /\ ask[x].kind = kind => x \in others
  BY DEF Uploading, Open
<1>. HIDE DEF v, others
<1>7. ask'[c] = f
  BY <1>3
<1>8. ASSUME NEW x \in Clients \ {c}
      PROVE  /\ ask'[x] \in AskRec /\ (Open(x)' <=> Open(x)) /\ (ask[x].pc)' = ask[x].pc /\ (ask[x].kind)' = ask[x].kind
             /\ (ask[x].edit)' = ask[x].edit /\ (ask[x].name)' = ask[x].name /\ (ask[x].base)' = ask[x].base
             /\ (ask[x].revision)' = ask[x].revision /\ (ask[x].answer)' = ask[x].answer
             /\ (ask[x].alone)' = (ask[x].alone /\ x \notin others)
  <2>1. ask[x] \in AskRec
    BY <1>1
  <2>2. ask'[x] = IF x \in others THEN [ask[x] EXCEPT !.alone = FALSE] ELSE ask[x]
    BY <1>3
  <2>3. CASE x \in others
    <3>1. ask'[x] = [ask[x] EXCEPT !.alone = FALSE]
      BY <2>2, <2>3
    <3>. QED
      BY <2>1, <2>3, <3>1 DEF AskRec, Open
  <2>4. CASE x \notin others
    BY <2>1, <2>2, <2>4 DEF AskRec, Open
  <2>. QED
    BY <2>3, <2>4
<1>9. LibraryTyped'
  <2>1. ask' \in [Clients -> AskRec]
    <3>. HIDE DEF AskRec
    <3>1. \A x \in Clients : ask'[x] \in AskRec
      BY <1>7, <1>8
    <3>2. ask' = [x \in Clients |-> ask'[x]]
      BY <1>3
    <3>. QED
      BY <3>1, <3>2
  <2>. QED
    BY <1>1, <1>2, <2>1 DEF LibraryTyped
<1>10. NumbersKept'
  <2>1. \A x \in Clients : Open(x)' => (ask[x].edit)' \in 1..asked' /\ (ask[x].kind)' \in AskKinds /\ (ask[x].answer)' = "none"
    BY <1>1, <1>2, <1>3, <1>7, <1>8 DEF LibraryInv, NumbersKept
  <2>2. \A x \in Clients \ {c} : Open(x)' => (ask[x].edit)' # asked + 1
    BY <1>2, <1>8 DEF LibraryInv, NumbersKept
  <2>3. ASSUME NEW x \in Clients, NEW y \in Clients, Open(x)', Open(y)', x # y
        PROVE  (ask[x].edit)' # (ask[y].edit)'
    <3>1. CASE x = c
      BY <1>3, <1>7, <2>2, <2>3, <3>1
    <3>2. CASE y = c
      BY <1>3, <1>7, <2>2, <2>3, <3>2
    <3>3. CASE x # c /\ y # c
      BY <1>8, <2>3, <3>3 DEF LibraryInv, NumbersKept
    <3>. QED
      BY <3>1, <3>2, <3>3
  <2>4. ASSUME NEW d \in Dirs, NEW n \in Slots
        PROVE  stored[d][n] \in Nat /\ stored[d][n] <= asked /\ stored[d][n] <= asked + 1 /\ stored[d][n] # asked + 1
    <3>1. stored[d][n] \in Nat /\ stored[d][n] <= asked
      BY <1>1 DEF LibraryInv, LibraryTyped, NumbersKept, Edits
    <3>. QED
      BY <1>2, <3>1
  <2>5. ASSUME NEW x \in Clients, (ask[x].pc)' \in Unwritten, NEW d \in Dirs, NEW n \in Slots
        PROVE  stored[d][n] # (ask[x].edit)'
    BY <1>3, <1>7, <1>8, <2>4, <2>5 DEF LibraryInv, NumbersKept
  <2>. QED
    BY <1>1, <2>1, <2>3, <2>4, <2>5 DEF NumbersKept
<1>11. FilesApart'
  BY <1>1 DEF LibraryInv, FilesApart
<1>12. RequestsKept'
  <2>1. ASSUME NEW x \in Clients \ {c}
        PROVE  RequestKept(x, ask[x])'
    BY <1>1, <1>8 DEF LibraryInv, RequestsKept, RequestKept
  <2>2. RequestKept(c, ask[c])'
    BY <1>3, <1>4, <1>7 DEF RequestKept
  <2>. QED
    BY <2>1, <2>2 DEF RequestsKept
<1>13. OverlapsKept'
  <2>1. ASSUME NEW x \in Clients, NEW y \in Clients, Open(x)', Open(y)', x # y, (ask[x].kind)' = "project", (ask[y].kind)' = "project"
        PROVE  ~(ask[x].alone)'
    <3>1. CASE x = c
      <4>1. kind = "project" /\ y # c /\ Open(y) /\ ask[y].kind = "project"
        BY <1>3, <1>7, <1>8, <2>1, <3>1
      <4>2. others # {}
        BY <1>6, <4>1
      <4>3. (ask[x].alone)' = (others = {})
        BY <1>3, <1>7, <3>1
      <4>. QED
        BY <4>2, <4>3
    <3>2. CASE y = c
      <4>1. kind = "project" /\ x # c /\ Open(x) /\ ask[x].kind = "project"
        BY <1>3, <1>7, <1>8, <2>1, <3>2
      <4>2. x \in others
        BY <1>6, <4>1
      <4>. QED
        BY <1>8, <4>1, <4>2
    <3>3. CASE x # c /\ y # c
      BY <1>8, <2>1, <3>3, ZenonT(40) DEF LibraryInv, OverlapsKept
    <3>. QED
      BY <3>1, <3>2, <3>3
  <2>. QED
    BY <2>1 DEF OverlapsKept
<1>14. AnswersKept'
  <2>1. \A x \in Clients : Chosen(x)' => Chosen(x) /\ (ask[x].name)' = ask[x].name
    BY <1>3, <1>4, <1>7, <1>8 DEF Chosen
  <2>2. \A a \in answered : UploadKept(a) => UploadKept(a)'
    BY <1>1, <2>1 DEF UploadKept
  <2>. QED
    BY <1>1, <2>2 DEF LibraryInv, AnswersKept
<1>. QED
  BY <1>9, <1>10, <1>11, <1>12, <1>13, <1>14 DEF LibraryInv

-----------------------------------------------------------------------------
LEMMA LibraryStarts == LibraryInit => LibraryInv
<1>. SUFFICES ASSUME LibraryInit PROVE LibraryInv
  OBVIOUS
<1>1. /\ library = {} /\ ask = [c \in Clients |-> NoAsk] /\ answered = {} /\ asked = 0
      /\ stored = [d \in Dirs |-> [n \in Slots |-> 0]]
  BY DEF LibraryInit
<1>2. NoAsk \in AskRec /\ NoAsk.pc = "idle" /\ 0 \in Edits
  BY NoAskTyped, AskedAssumption DEF NoAsk, Edits
<1>3. \A c \in Clients : ask[c].pc = "idle"
  BY <1>1, <1>2
<1>4. LibraryTyped
  BY <1>1, <1>2 DEF LibraryTyped
<1>5. NumbersKept
  BY <1>1, <1>3 DEF NumbersKept, Open, Unwritten
<1>6. FilesApart
  BY <1>1 DEF FilesApart
<1>7. RequestsKept /\ OverlapsKept /\ AnswersKept
  BY <1>1, <1>3 DEF RequestsKept, RequestKept, OverlapsKept, Open, AnswersKept
<1>. QED
  BY <1>4, <1>5, <1>6, <1>7 DEF LibraryInv

LEMMA LibraryStepKept == LibraryInv /\ [LibraryNext]_libraryVars => LibraryInv'
<1>. SUFFICES ASSUME LibraryInv, [LibraryNext]_libraryVars PROVE LibraryInv'
  OBVIOUS
<1>1. ASSUME NEW c \in Clients, LibraryStep(c)
      PROVE  LibraryInv'
  BY <1>1, ReadListKept, ReadRevisionKept, PutCharactersKept, LoadCharactersKept, AwaitKept, ReceivedKept, UploadWrittenKept,
     SaveCharactersKept DEF LibraryStep
<1>2. ASSUME NEW c \in Clients, NEW kind \in AskKinds, AskLibrary(c, kind)
      PROVE  LibraryInv'
  BY <1>2, AskLibraryKept
<1>3. CASE UNCHANGED libraryVars
  <2>1. /\ LibraryTyped' /\ NumbersKept' /\ FilesApart' /\ RequestsKept' /\ OverlapsKept'
    BY <1>3 DEF libraryVars, LibraryInv, LibraryTyped, NumbersKept, Open, FilesApart, RequestsKept, RequestKept, OverlapsKept
  <2>2. AnswersKept'
    BY <1>3 DEF libraryVars, LibraryInv, AnswersKept, UploadKept, Chosen
  <2>. QED
    BY <2>1, <2>2 DEF LibraryInv
<1>. QED
  BY <1>1, <1>2, <1>3 DEF LibraryNext, AskKinds

\* Only a window's save answers it, and what it saves has all that the library has.
LEMMA WindowStep ==
  ASSUME LibraryInv, LibraryNext, NEW c \in Clients, ask[c].pc = "put", ask'[c].answer = "saved"
  PROVE  library \subseteq library'
<1>1. /\ ask \in [Clients -> AskRec] /\ RequestKept(c, ask[c]) /\ ask[c].answer = "none" /\ ask[c].base = ask[c].revision
      /\ ask[c].kind = "window"
  BY RequestFacts DEF RequestKept
<1>2. ASSUME NEW x \in Clients, LibraryStep(x), x # c
      PROVE  FALSE
  <2>1. ask'[c] = ask[c]
    BY <1>1, <1>2 DEF LibraryStep, ReadList, ReadRevision, PutCharacters, LoadCharacters, Await, Received, WriteFile,
                      SaveCharacters, Over, OnTo
  <2>. QED
    BY <1>1, <2>1
<1>3. ASSUME LibraryStep(c)
      PROVE  library \subseteq library'
  <2>1. PutCharacters(c)
    BY <1>3 DEF LibraryStep, ReadList, ReadRevision, LoadCharacters, Await, Received, WriteFile, SaveCharacters
  <2>2. CASE ask[c].revision = library
    BY <1>1, <2>1, <2>2 DEF PutCharacters
  <2>3. CASE ask[c].revision # library
    BY <2>1, <2>3 DEF PutCharacters
  <2>. QED
    BY <2>2, <2>3
<1>4. ASSUME NEW x \in Clients, NEW kind \in AskKinds, AskLibrary(x, kind)
      PROVE  FALSE
  <2>1. x # c
    BY <1>4 DEF AskLibrary
  <2>2. ask'[c] = ask[c] \/ ask'[c] = [ask[c] EXCEPT !.alone = FALSE]
    BY <1>4, <2>1 DEF AskLibrary
  <2>3. ask'[c].answer = ask[c].answer
    <3>1. ask[c] \in AskRec
      BY <1>1
    <3>. QED
      BY <2>2, <3>1 DEF AskRec
  <2>. QED
    BY <1>1, <2>3
<1>. QED
  BY <1>2, <1>3, <1>4 DEF LibraryNext, AskKinds

THEOREM LibraryInvariant == LibrarySpec => []LibraryInv
BY LibraryStarts, LibraryStepKept, PTL DEF LibrarySpec

\* load_characters_with_revision, the conditional save, and names that are
\* looked at only while nobody else runs: a window's save loses no change it has
\* not seen, and no upload writes over another's file.
THEOREM EditingStays == LibrarySpec => EditingKept
<1>. DEFINE W == \A c \in Clients : ask[c].pc = "put" /\ ask'[c].answer = "saved" => library \subseteq library'
<1>1. LibraryInv => UploadsKept
  BY DEF LibraryInv, AnswersKept, UploadKept, UploadsKept
<1>2. LibraryInv /\ [LibraryNext]_libraryVars => [W]_libraryVars
  BY WindowStep
<1>3. EditingKept <=> []UploadsKept /\ [][W]_libraryVars
  BY DEF EditingKept, WindowsLoseNothing
<1>. HIDE DEF W
<1>. QED
  BY <1>1, <1>2, <1>3, LibraryInvariant, PTL DEF LibrarySpec

-----------------------------------------------------------------------------
(***************************************************************************)
(* The integration in a fork's checkout.                                   *)
(***************************************************************************)

\* The stages of a run, what it does at a path, what a path may hold, and a run
MirrorStages == {"off", "backup", "files", "obsolete", "list", "manifest", "relist", "discard", "unlist",
                 "retract", "unpublish", "restore"}
MirrorOps == {"none", "look", "claim", "check", "link", "confirm", "discard", "retract", "retracted", "return", "compare"}
FileOrNone == MirrorFiles \cup {Vacant}
MirrorRec == [no : 0..MaxRuns, pc : MirrorStages, left : SUBSET Paths, path : Paths \cup {Vacant}, does : MirrorOps,
              prior : SUBSET Paths, backup : [Paths -> FileOrNone], published : SUBSET Paths, pending : SUBSET Paths,
              claimed : SUBSET Paths, committed : BOOLEAN, error : BOOLEAN]

\* Every file, claim and run is well formed; a run under way has a number.
MirrorTyped ==
  /\ there \in [Paths -> FileOrNone]
  /\ claims \in [1..MaxRuns -> [Paths -> FileOrNone]] /\ current \in [1..MaxRuns -> [Paths -> FileOrNone]]
  /\ run \in MirrorRec /\ made \subseteq MirrorFiles /\ touches \in Nat
  /\ run.pc # "off" => run.no \in 1..MaxRuns

\* The files on the disk are known, files of the user and of a run are numbered,
\* and a later run has renamed none.
FilesKnown ==
  /\ \A p \in Paths : {there[p], run.backup[p]} \subseteq made \cup {Vacant}
  /\ \A i \in 1..MaxRuns : \A p \in Paths : {claims[i][p], current[i][p]} \subseteq made \cup {Vacant}
  /\ \A f \in made : (f.by = "user" => f.n <= touches) /\ (f.by = "new" => f.n <= run.no)
  /\ \A i \in 1..MaxRuns : i > run.no => claims[i] = AllEmpty /\ current[i] = AllEmpty

\* The path a run is at, and a rollback
Here(p) == run.does # "none" /\ p = run.path
Doing(p, ops) == run.does \in ops /\ p = run.path
RollingBack == run.pc \in {"retract", "unpublish", "restore"}

\* Which paths a stage is about, and what it does there
StageKept ==
  /\ run.does # "none" => run.path \in Paths \ run.left
  /\ run.pc \in {"off", "backup", "list", "relist", "unlist", "unpublish"} => run.does = "none" /\ run.left = {}
  /\ run.pc = "files" => run.left \subseteq Wanted
  /\ run.pc = "obsolete" => run.left \subseteq Obsolete
  /\ run.pc = "manifest" => run.left \subseteq {M}
  /\ run.pc = "discard" => run.does \in {"none", "discard"}
  /\ run.pc = "retract" => run.left \cap run.prior = {} /\ run.does \in {"none", "retract", "retracted"}
  /\ run.pc = "restore" => run.left \subseteq run.prior /\ run.does \in {"none", "retract", "retracted", "return", "compare"}
  /\ Publishing => run.does \in {"none", "look", "claim", "check", "link", "confirm"}

\* The path a run is at is one its stage is about; only prior paths are claimed.
HereKept ==
  run.does # "none" =>
    /\ run.pc = "files" => run.path \in Wanted
    /\ run.pc = "obsolete" => run.path \in Obsolete /\ run.does \in {"look", "claim", "check"}
    /\ run.pc = "manifest" => run.path = M
    /\ run.pc = "retract" => run.path \notin run.prior
    /\ run.pc = "restore" => run.path \in run.prior
    /\ run.pc = "restore" => (run.does = "compare" <=> run.path \notin run.claimed)
    /\ run.does \in {"claim", "check"} => run.path \in run.prior

\* A run is committed from the moment its manifest is in place.
CommitKept ==
  /\ run.committed => run.pc \in {"off", "manifest", "relist", "discard", "unlist"}
  /\ run.pc \in {"relist", "discard", "unlist"} => run.committed
  /\ run.pc = "manifest" => (run.committed <=> run.left = {} /\ run.does = "none")

\* Paths that a publication has still to visit
ToCome(p) ==
  \/ p \in run.left \/ Doing(p, {"look", "claim", "check"})
  \/ run.pc = "files" /\ p \notin Wanted
  \/ run.pc \in {"obsolete", "list"} /\ p = M

\* The publication journal and the backups are about the prior paths, and before
\* the backups are taken nothing of the run is on the disk.
JournalKept(p) ==
  /\ p \in run.claimed => p \in run.prior
  /\ p \in run.pending => p \notin run.prior
  /\ run.backup[p] # Vacant => p \in run.prior
  /\ run.backup[p] # New(p)
  /\ run.pc = "backup" => New(p) \notin made
  /\ run.pc = "backup" => claims[run.no][p] = Vacant /\ current[run.no][p] = Vacant
  /\ run.pc = "backup" => p \notin run.published \cup run.pending \cup run.claimed

\* No controlled file is at the path; the new one is, unless the user ended it.
Gone(p) == there[p] = Vacant \/ there[p].by = "user"
Whole(p) == there[p] = New(p) \/ New(p) \in ended

\* What a publication has put in place or renamed aside, its journal knows.
PublishKept(p) ==
  Publishing =>
    /\ ToCome(p) => p \notin run.published \cup run.pending \cup run.claimed
    /\ New(p) \in made => p \in run.published \cup run.pending \/ (p \in run.claimed /\ Doing(p, {"confirm"}))
    /\ current[run.no][p] = Vacant
    /\ claims[run.no][p] # Vacant => p \in run.claimed \/ Doing(p, {"check"})
    /\ Doing(p, {"link", "confirm"}) /\ p \in run.prior => p \in run.claimed
    /\ Doing(p, {"confirm"}) => p \in run.claimed \cup run.pending
    /\ Doing(p, {"check"}) => Gone(p)

\* How far a publication has come: what it has published is there, and what it
\* has taken away is not.
ReachedKept(p) ==
  /\ Publishing /\ p \in run.published => Whole(p)
  /\ run.pc = "files" /\ p \in Wanted => p \in run.published \/ p \in run.left \/ Here(p)
  /\ run.pc \in {"obsolete", "list", "manifest"} /\ p \in Wanted => p \in run.published
  /\ run.pc = "obsolete" /\ p \in Obsolete => Gone(p) \/ p \in run.left \/ Here(p)
  /\ run.pc \in {"list", "manifest"} /\ p \in Obsolete => Gone(p)
  /\ run.pc = "manifest" /\ run.committed => M \in run.published

\* After the commit whatever is aside is a claim, and is known to the cleanup
\* journal until it is discarded.
CleanupKept ==
  /\ run.committed => \A p \in Paths : Renamed[p] # Vacant => p \in run.claimed
  /\ run.pc \in {"manifest", "relist", "discard"} => run.claimed \subseteq {M} \/ run.no \in journals
  /\ run.pc = "discard" => \A p \in Paths : Renamed[p] # Vacant => p \in run.left \/ Here(p)
  /\ run.pc = "unlist" => \A p \in Paths : Renamed[p] = Vacant

\* A file that was backed up is not at its path while it, or another that was
\* there later, is aside.
AwayKept(p) ==
  run.no > 0 /\ run.backup[p] # Vacant /\ Renamed[p] # Vacant =>
    there[p] # run.backup[p] /\ current[run.no][p] # run.backup[p]

\* What a rollback has to take out, the journal knows; nothing is aside yet at a
\* path that it has still to visit.
RollbackKept(p) ==
  RollingBack =>
    /\ New(p) \in made => p \in run.published \cup run.pending \cup run.claimed
    /\ p \in run.prior /\ run.pc # "restore" => current[run.no][p] = Vacant
    /\ p \in run.left \/ Doing(p, {"retract"}) => current[run.no][p] = Vacant

\* A prior file is back at its path, or the user ended it.
Restored(p) == Renamed[p] = Vacant /\ (there[p] = run.backup[p] \/ run.backup[p] \in ended)

\* How far a rollback without an error has come: a new file is only at a path to
\* visit, and what was backed up is back elsewhere.
UndoneKept(p) ==
  RollingBack /\ ~run.error =>
    /\ there[p] = New(p) => p \in run.prior \/ p \in run.left \/ Doing(p, {"retract"})
    /\ run.pc = "unpublish" /\ there[p] = New(p) => p \in run.prior
    /\ run.pc = "restore" /\ there[p] = New(p) => p \in run.left \/ Doing(p, {"retract", "return", "compare"})
    /\ run.pc = "restore" /\ run.backup[p] # Vacant => p \in run.left \/ Here(p) \/ Restored(p)
    /\ run.pc = "restore" => run.no \notin journals

\* The inductive invariant
PathInv(p) ==
  /\ JournalKept(p) /\ PublishKept(p) /\ ReachedKept(p)
  /\ AwayKept(p) /\ RollbackKept(p) /\ UndoneKept(p)

MirrorInv ==
  /\ MirrorTyped /\ FilesKnown /\ StageKept /\ HereKept /\ CommitKept /\ CleanupKept
  /\ run.no > 0 => \A p \in Paths : PathInv(p)
  /\ MirrorHonest

\* The user does nothing.
Untouched == UNCHANGED touches

\* The invariant, part by part
LEMMA Named ==
  ASSUME MirrorInv
  PROVE  /\ MirrorTyped /\ FilesKnown /\ StageKept /\ HereKept /\ CommitKept /\ CleanupKept
         /\ NothingVanishes /\ UndoneMeansBefore /\ CommittedMeansWhole /\ LeftoversAnnounced
         /\ run \in MirrorRec /\ MaxRuns \in Nat /\ (run.no > 0 => \A p \in Paths : PathInv(p))
         /\ M \in Paths \ Wanted
BY BoundsAssumption, ManifestAssumption DEF MirrorInv, MirrorHonest, MirrorTyped, Paths

\* Where a run is when it publishes a file
LEMMA PublishOps ==
  ASSUME MirrorInv, run.does \in {"look", "claim", "check", "link", "confirm"}
  PROVE  /\ Publishing /\ run.pc \in {"files", "obsolete", "manifest"} /\ ~run.committed
         /\ run.path \in Paths \ run.left /\ run.no \in 1..MaxRuns
<1>1. run.pc \in MirrorStages /\ StageKept /\ HereKept /\ CommitKept /\ MirrorTyped
  BY DEF MirrorInv, MirrorTyped, MirrorRec
<1>2. run.pc \in {"files", "obsolete", "manifest"}
  BY <1>1 DEF MirrorStages, StageKept
<1> QED BY <1>1, <1>2 DEF Publishing, StageKept, CommitKept, MirrorTyped

\* Where a run is when it undoes
LEMMA UndoOps ==
  ASSUME MirrorInv, run.does \in {"retract", "retracted", "return", "compare"}
  PROVE  /\ run.pc \in {"retract", "restore"} /\ ~run.committed
         /\ (run.does \in {"return", "compare"} => run.pc = "restore")
         /\ run.path \in Paths \ run.left /\ run.no \in 1..MaxRuns
<1>1. run.pc \in MirrorStages /\ StageKept /\ HereKept /\ CommitKept /\ MirrorTyped
  BY DEF MirrorInv, MirrorTyped, MirrorRec
<1>2. run.pc \in {"retract", "restore"}
  BY <1>1 DEF MirrorStages, StageKept, Publishing
<1> QED BY <1>1, <1>2 DEF StageKept, CommitKept, MirrorTyped

\* Where a run is when it discards a claim
LEMMA DiscardOp ==
  ASSUME MirrorInv, run.does = "discard"
  PROVE  run.pc = "discard" /\ run.committed /\ run.path \in Paths \ run.left /\ run.no \in 1..MaxRuns
<1>1. run.pc \in MirrorStages /\ StageKept /\ HereKept /\ CommitKept /\ MirrorTyped
  BY DEF MirrorInv, MirrorTyped, MirrorRec
<1>2. run.pc = "discard"
  BY <1>1 DEF MirrorStages, StageKept, Publishing
<1> QED BY <1>1, <1>2 DEF StageKept, CommitKept, MirrorTyped

\* Without a change on the disk no file vanishes.
LEMMA NothingMoved == ASSUME NothingVanishes, UNCHANGED <<there, claims, current, made, ended>> PROVE NothingVanishes'
BY DEF NothingVanishes, OnDisk

\* What a run does first at a path of each stage
LEMMA FirstFacts ==
  ASSUME NEW p
  PROVE  /\ FirstHere(p) \in MirrorOps \ {"none"}
         /\ run.pc \in {"files", "obsolete", "manifest"} => FirstHere(p) = "look"
         /\ run.pc = "discard" => FirstHere(p) = "discard"
         /\ run.pc = "retract" => FirstHere(p) = "retract"
         /\ run.pc = "restore" /\ p \notin run.claimed => FirstHere(p) = "compare"
         /\ run.pc = "restore" /\ p \in run.claimed => FirstHere(p) \in {"retract", "return"}
BY DEF FirstHere, MirrorOps

\* No file is the absence of one.
LEMMA Absent == /\ Vacant \notin Paths /\ Vacant \notin MirrorFiles
                /\ \A p \in Paths : \A n \in Nat : \A b \in {"old", "new", "user"} :
                     Written(b, n, p) \in MirrorFiles /\ Written(b, n, p) # Vacant
BY VacantAssumption DEF Written, MirrorFiles

\* The files that a run writes are files, and each is of its path.
LEMMA NewFacts ==
  ASSUME run.no \in Nat, NEW p \in Paths
  PROVE  /\ New(p) \in MirrorFiles /\ New(p) # Vacant /\ New(p).by = "new" /\ New(p).n = run.no
         /\ \A q \in Paths : q # p => New(q) # New(p)
BY VacantAssumption DEF New, Written, MirrorFiles

\* A file the user writes is new: nobody has it, backed it up or wrote it.
LEMMA UserFile ==
  ASSUME MirrorInv, NEW p \in Paths, NEW f, f = Written("user", touches + 1, p)
  PROVE  /\ f \in MirrorFiles /\ f # Vacant /\ f.by = "user" /\ f.n = touches + 1 /\ f \notin made
         /\ \A q \in Paths : f # New(q) /\ f # run.backup[q]
<1>1. FilesKnown /\ run \in MirrorRec /\ touches \in Nat
  BY Named DEF MirrorTyped
<1>2. /\ f \in MirrorFiles /\ f # Vacant
  BY <1>1, Absent
<1>3. f.by = "user" /\ f.n = touches + 1
  BY DEF Written
<1>4. f \notin made
  BY <1>1, <1>3 DEF FilesKnown
<1>5. ASSUME NEW q \in Paths PROVE f # New(q) /\ f # run.backup[q]
  <2>1. New(q).by = "new"
    BY DEF New, Written
  <2>2. run.backup[q] \in made \cup {Vacant}
    BY <1>1 DEF FilesKnown
  <2> QED BY <1>2, <1>3, <1>4, <2>1, <2>2
<1> QED BY <1>2, <1>3, <1>4, <1>5

\* _assert_backup_unchanged (sync_integrations.py:469, 475): the path is as it was.
LEMMA LookKept ==
  ASSUME MirrorInv, Look, Untouched PROVE MirrorInv'
<1>1. /\ MirrorTyped /\ FilesKnown /\ StageKept /\ HereKept /\ CommitKept /\ CleanupKept
      /\ NothingVanishes /\ UndoneMeansBefore /\ CommittedMeansWhole /\ LeftoversAnnounced
      /\ run \in MirrorRec /\ MaxRuns \in Nat /\ (run.no > 0 => \A x \in Paths : PathInv(x))
      /\ M \in Paths \ Wanted
  BY Named
<1>2. /\ run.does = "look"
      /\ Publishing
      /\ run.pc \in {"files", "obsolete", "manifest"}
      /\ ~run.committed
      /\ run.path \in Paths \ run.left
      /\ run.no \in 1..MaxRuns
  BY <1>1, PublishOps DEF Look
<1>3. \A x \in Paths : PathInv(x)
  BY <1>1, <1>2
<1>4. /\ run' \in MirrorRec
      /\ run'.no = run.no /\ run'.pc = run.pc /\ run'.left = run.left /\ run'.prior = run.prior
      /\ run'.backup = run.backup /\ run'.published = run.published /\ run'.pending = run.pending
      /\ run'.claimed = run.claimed /\ run'.committed = run.committed /\ run'.error = run.error
      /\ \/ run.path \in Obsolete /\ run.backup[run.path] = Vacant /\ run'.path = Vacant /\ run'.does = "none"
         \/ /\ ~(run.path \in Obsolete /\ run.backup[run.path] = Vacant)
            /\ run'.path = run.path /\ run'.does = (IF run.path \in run.prior THEN "claim" ELSE "link")
  BY <1>1, <1>2 DEF MirrorRec, MirrorOps, MirrorStages, Look, Untouched, Visited, Then, Stage, Path, LetBe
<1>5. /\ UNCHANGED <<there, claims, current, journals, made, ended, touches>>
  BY <1>1, <1>2 DEF Look, Untouched, Visited, Then, Stage, Path, LetBe
<1>6. MirrorTyped'
  BY <1>1, <1>2, <1>4, <1>5 DEF MirrorTyped
<1>7. FilesKnown'
  BY <1>1, <1>2, <1>4, <1>5, <1>3 DEF PathInv, FilesKnown, AllEmpty
<1>8. StageKept'
  BY <1>1, <1>2, <1>4, <1>5 DEF StageKept, Publishing, Obsolete
<1>9. HereKept'
  BY <1>1, <1>2, <1>4, <1>5 DEF HereKept, Obsolete
<1>10. CommitKept'
  BY <1>1, <1>2, <1>4, <1>5 DEF CommitKept, HereKept, StageKept, Obsolete
<1>11. CleanupKept'
  BY <1>1, <1>2, <1>4, <1>5 DEF CleanupKept, Renamed, Here
<1>12. NothingVanishes'
  BY <1>1, <1>5, NothingMoved
<1>13. UndoneMeansBefore'
  BY <1>1, <1>2, <1>4, <1>5, <1>3 DEF PathInv, UndoneMeansBefore, New, Written, Renamed
<1>14. CommittedMeansWhole'
  BY <1>1, <1>2, <1>4, <1>5 DEF CommittedMeansWhole, New, Written, Obsolete
<1>15. LeftoversAnnounced'
  BY <1>1, <1>2, <1>4, <1>5, <1>3 DEF PathInv, LeftoversAnnounced, Renamed
<1>16. ASSUME NEW q \in Paths PROVE PathInv(q)'
  <2>1. JournalKept(q)'
    BY <1>1, <1>2, <1>4, <1>5, <1>3 DEF PathInv, JournalKept, New, Written
  <2>2. PublishKept(q)'
    BY <1>1, <1>2, <1>4, <1>5, <1>3 DEF PathInv, PublishKept, New, Written, ToCome, Doing, Gone, Publishing
  <2>3. ReachedKept(q)'
    BY <1>1, <1>2, <1>4, <1>5, <1>3 DEF PathInv, ReachedKept, New, Written, Here, Gone, Whole, Publishing,
       Obsolete, LetBe, Look, Path
  <2>4. AwayKept(q)'
    BY <1>1, <1>2, <1>4, <1>5, <1>3 DEF PathInv, AwayKept, Renamed
  <2>5. RollbackKept(q)'
    BY <1>1, <1>2, <1>4, <1>5, <1>3 DEF PathInv, RollbackKept, New, Written, Doing, RollingBack
  <2>6. UndoneKept(q)'
    BY <1>1, <1>2, <1>4, <1>5, <1>3 DEF PathInv, UndoneKept, New, Written, Doing, RollingBack, Here, Restored, Renamed
  <2> QED BY <2>1, <2>2, <2>3, <2>4, <2>5, <2>6 DEF PathInv
<1> QED BY <1>6, <1>7, <1>8, <1>9, <1>10, <1>11, <1>12, <1>13, <1>14, <1>15, <1>16 DEF MirrorInv, MirrorHonest

\* The rollback finds a path that it did not claim as it was backed up.
LEMMA CompareKept ==
  ASSUME MirrorInv, Compare, Untouched PROVE MirrorInv'
<1>1. /\ MirrorTyped /\ FilesKnown /\ StageKept /\ HereKept /\ CommitKept /\ CleanupKept
      /\ NothingVanishes /\ UndoneMeansBefore /\ CommittedMeansWhole /\ LeftoversAnnounced
      /\ run \in MirrorRec /\ MaxRuns \in Nat /\ (run.no > 0 => \A x \in Paths : PathInv(x))
      /\ M \in Paths \ Wanted
  BY Named
<1>2. /\ run.does = "compare"
      /\ run.pc = "restore"
      /\ ~run.committed
      /\ run.path \in Paths \ run.left
      /\ run.no \in 1..MaxRuns
      /\ there[run.path] = run.backup[run.path]
  BY <1>1, UndoOps DEF Compare, Path
<1>3. \A x \in Paths : PathInv(x)
  BY <1>1, <1>2
<1>4. /\ run' \in MirrorRec
      /\ run'.no = run.no /\ run'.pc = run.pc /\ run'.left = run.left /\ run'.prior = run.prior
      /\ run'.backup = run.backup /\ run'.published = run.published /\ run'.pending = run.pending
      /\ run'.claimed = run.claimed /\ run'.committed = run.committed /\ run'.error = run.error
      /\ run'.path = Vacant
      /\ run'.does = "none"
  BY <1>1, <1>2 DEF MirrorRec, MirrorOps, MirrorStages, Compare, Untouched, Visited, Then, Stage, Path
<1>5. /\ UNCHANGED <<there, claims, current, journals, made, ended, touches>>
  BY <1>1, <1>2 DEF Compare, Untouched, Visited, Then, Stage, Path
<1>6. MirrorTyped'
  BY <1>1, <1>2, <1>4, <1>5 DEF MirrorTyped
<1>7. FilesKnown'
  BY <1>1, <1>2, <1>4, <1>5, <1>3 DEF PathInv, FilesKnown, AllEmpty
<1>8. StageKept'
  BY <1>1, <1>2, <1>4, <1>5 DEF StageKept, Publishing, Obsolete
<1>9. HereKept'
  BY <1>1, <1>2, <1>4, <1>5 DEF HereKept, Obsolete
<1>10. CommitKept'
  BY <1>1, <1>2, <1>4, <1>5 DEF CommitKept, HereKept, StageKept, Obsolete
<1>11. CleanupKept'
  BY <1>1, <1>2, <1>4, <1>5 DEF CleanupKept, Renamed, Here
<1>12. NothingVanishes'
  BY <1>1, <1>5, NothingMoved
<1>13. UndoneMeansBefore'
  BY <1>1, <1>2, <1>4, <1>5, <1>3 DEF PathInv, UndoneMeansBefore, New, Written, Renamed
<1>14. CommittedMeansWhole'
  BY <1>1, <1>2, <1>4, <1>5 DEF CommittedMeansWhole, New, Written, Obsolete
<1>15. LeftoversAnnounced'
  BY <1>1, <1>2, <1>4, <1>5, <1>3 DEF PathInv, LeftoversAnnounced, Renamed
<1>16. ASSUME NEW q \in Paths PROVE PathInv(q)'
  <2>1. JournalKept(q)'
    BY <1>1, <1>2, <1>4, <1>5, <1>3 DEF PathInv, JournalKept, New, Written
  <2>2. PublishKept(q)'
    BY <1>1, <1>2, <1>4, <1>5, <1>3 DEF PathInv, PublishKept, New, Written, ToCome, Doing, Gone, Publishing
  <2>3. ReachedKept(q)'
    BY <1>1, <1>2, <1>4, <1>5, <1>3 DEF PathInv, ReachedKept, New, Written, Here, Gone, Whole, Publishing, Obsolete
  <2>4. AwayKept(q)'
    BY <1>1, <1>2, <1>4, <1>5, <1>3 DEF PathInv, AwayKept, Renamed
  <2>5. RollbackKept(q)'
    BY <1>1, <1>2, <1>4, <1>5, <1>3 DEF PathInv, RollbackKept, New, Written, Doing, RollingBack
  <2>6. UndoneKept(q)'
    <3>1. CASE q = run.path
      BY <1>1, <1>2, <1>3, <1>4, <1>5, <3>1 DEF PathInv, UndoneKept, AwayKept, JournalKept, New, Written, Doing,
         RollingBack, Here, Restored, Renamed
    <3>2. CASE q # run.path
      BY <1>1, <1>2, <1>3, <1>4, <1>5, <3>2 DEF PathInv, UndoneKept, New, Written, Doing, RollingBack, Here,
         Restored, Renamed
    <3> QED BY <3>1, <3>2
  <2> QED BY <2>1, <2>2, <2>3, <2>4, <2>5, <2>6 DEF PathInv
<1> QED BY <1>6, <1>7, <1>8, <1>9, <1>10, <1>11, <1>12, <1>13, <1>14, <1>15, <1>16 DEF MirrorInv, MirrorHonest

\* The claim holds what was backed up; the journal notes it (:478-481).
LEMMA CheckKept ==
  ASSUME MirrorInv, Check, Untouched PROVE MirrorInv'
<1>1. /\ MirrorTyped /\ FilesKnown /\ StageKept /\ HereKept /\ CommitKept /\ CleanupKept
      /\ NothingVanishes /\ UndoneMeansBefore /\ CommittedMeansWhole /\ LeftoversAnnounced
      /\ run \in MirrorRec /\ MaxRuns \in Nat /\ (run.no > 0 => \A x \in Paths : PathInv(x))
      /\ M \in Paths \ Wanted
  BY Named
<1>2. /\ run.does = "check"
      /\ Publishing
      /\ run.pc \in {"files", "obsolete", "manifest"}
      /\ ~run.committed
      /\ run.path \in Paths \ run.left
      /\ run.no \in 1..MaxRuns
      /\ claims[run.no][run.path] = run.backup[run.path]
  BY <1>1, PublishOps DEF Check, Renamed, Path
<1>3. \A x \in Paths : PathInv(x)
  BY <1>1, <1>2
<1>4. /\ run' \in MirrorRec
      /\ run'.no = run.no /\ run'.pc = run.pc /\ run'.left = run.left /\ run'.prior = run.prior
      /\ run'.backup = run.backup /\ run'.published = run.published /\ run'.pending = run.pending
      /\ run'.committed = run.committed /\ run'.error = run.error
      /\ run'.claimed = run.claimed \cup {run.path}
      /\ \/ run.path \in Obsolete /\ run'.path = Vacant /\ run'.does = "none"
         \/ run.path \notin Obsolete /\ run'.path = run.path /\ run'.does = "link"
  BY <1>1, <1>2 DEF MirrorRec, MirrorOps, MirrorStages, Check, Untouched, Visited, Then, Stage, Path
<1>5. /\ UNCHANGED <<there, claims, current, journals, made, ended, touches>>
  BY <1>1, <1>2 DEF Check, Untouched, Visited, Then, Stage, Path
<1>6. MirrorTyped'
  BY <1>1, <1>2, <1>4, <1>5 DEF MirrorTyped
<1>7. FilesKnown'
  BY <1>1, <1>2, <1>4, <1>5, <1>3 DEF PathInv, FilesKnown, AllEmpty
<1>8. StageKept'
  BY <1>1, <1>2, <1>4, <1>5 DEF StageKept, Publishing, Obsolete
<1>9. HereKept'
  BY <1>1, <1>2, <1>4, <1>5 DEF HereKept, Obsolete
<1>10. CommitKept'
  BY <1>1, <1>2, <1>4, <1>5 DEF CommitKept, HereKept, StageKept, Obsolete
<1>11. CleanupKept'
  BY <1>1, <1>2, <1>4, <1>5, <1>3 DEF PathInv, CleanupKept, Renamed, Here, HereKept, CommitKept, StageKept
<1>12. NothingVanishes'
  BY <1>1, <1>5, NothingMoved
<1>13. UndoneMeansBefore'
  BY <1>1, <1>2, <1>4, <1>5, <1>3 DEF PathInv, UndoneMeansBefore, New, Written, Renamed
<1>14. CommittedMeansWhole'
  BY <1>1, <1>2, <1>4, <1>5 DEF CommittedMeansWhole, New, Written, Obsolete
<1>15. LeftoversAnnounced'
  BY <1>1, <1>2, <1>4, <1>5, <1>3 DEF PathInv, LeftoversAnnounced, Renamed
<1>16. ASSUME NEW q \in Paths PROVE PathInv(q)'
  <2>1. JournalKept(q)'
    BY <1>1, <1>2, <1>4, <1>5, <1>3 DEF PathInv, JournalKept, New, Written, HereKept
  <2>2. PublishKept(q)'
    BY <1>1, <1>2, <1>4, <1>5, <1>3 DEF PathInv, PublishKept, New, Written, ToCome, Doing, Gone, Publishing,
       HereKept, Obsolete
  <2>3. ReachedKept(q)'
    BY <1>1, <1>2, <1>4, <1>5, <1>3 DEF PathInv, ReachedKept, New, Written, Here, Gone, Whole, Publishing,
       Obsolete, PublishKept, HereKept, Doing
  <2>4. AwayKept(q)'
    BY <1>1, <1>2, <1>4, <1>5, <1>3 DEF PathInv, AwayKept, Renamed
  <2>5. RollbackKept(q)'
    BY <1>1, <1>2, <1>4, <1>5, <1>3 DEF PathInv, RollbackKept, New, Written, Doing, RollingBack
  <2>6. UndoneKept(q)'
    BY <1>1, <1>2, <1>4, <1>5, <1>3 DEF PathInv, UndoneKept, New, Written, Doing, RollingBack, Here, Restored, Renamed
  <2> QED BY <2>1, <2>2, <2>3, <2>4, <2>5, <2>6 DEF PathInv
<1> QED BY <1>6, <1>7, <1>8, <1>9, <1>10, <1>11, <1>12, <1>13, <1>14, <1>15, <1>16 DEF MirrorInv, MirrorHonest

\* What is at the path is what was staged; with the manifest the run is committed.
LEMMA ConfirmKept ==
  ASSUME MirrorInv, Confirm, Untouched PROVE MirrorInv'
<1>1. /\ MirrorTyped /\ FilesKnown /\ StageKept /\ HereKept /\ CommitKept /\ CleanupKept
      /\ NothingVanishes /\ UndoneMeansBefore /\ CommittedMeansWhole /\ LeftoversAnnounced
      /\ run \in MirrorRec /\ MaxRuns \in Nat /\ (run.no > 0 => \A x \in Paths : PathInv(x))
      /\ M \in Paths \ Wanted
  BY Named
<1>2. /\ run.does = "confirm"
      /\ Publishing
      /\ run.pc \in {"files", "obsolete", "manifest"}
      /\ ~run.committed
      /\ run.path \in Paths \ run.left
      /\ run.no \in 1..MaxRuns
      /\ there[run.path] = New(run.path)
  BY <1>1, PublishOps DEF Confirm, Path
<1>3. \A x \in Paths : PathInv(x)
  BY <1>1, <1>2
<1>4. /\ run' \in MirrorRec
      /\ run'.no = run.no /\ run'.pc = run.pc /\ run'.left = run.left /\ run'.prior = run.prior
      /\ run'.backup = run.backup /\ run'.claimed = run.claimed /\ run'.error = run.error
      /\ run'.path = Vacant
      /\ run'.does = "none"
      /\ run'.published = run.published \cup {run.path}
      /\ run'.pending = run.pending \ {run.path}
      /\ run'.committed = (run.committed \/ run.path = M)
  BY <1>1, <1>2 DEF MirrorRec, MirrorOps, MirrorStages, Confirm, Untouched, Visited, Then, Stage, Path
<1>5. /\ UNCHANGED <<there, claims, current, journals, made, ended, touches>>
  BY <1>1, <1>2 DEF Confirm, Untouched, Visited, Then, Stage, Path
<1>6. MirrorTyped'
  BY <1>1, <1>2, <1>4, <1>5 DEF MirrorTyped
<1>7. FilesKnown'
  BY <1>1, <1>2, <1>4, <1>5, <1>3 DEF PathInv, FilesKnown, AllEmpty
<1>8. StageKept'
  BY <1>1, <1>2, <1>4, <1>5 DEF StageKept, Publishing, Obsolete
<1>9. HereKept'
  BY <1>1, <1>2, <1>4, <1>5 DEF HereKept, Obsolete
<1>10. CommitKept'
  BY <1>1, <1>2, <1>4, <1>5 DEF CommitKept, HereKept, StageKept, Obsolete
<1>11. CleanupKept'
  BY <1>1, <1>2, <1>4, <1>5, <1>3 DEF PathInv, CleanupKept, Renamed, Here, HereKept, CommitKept, StageKept,
     PublishKept, Doing
<1>12. NothingVanishes'
  BY <1>1, <1>5, NothingMoved
<1>13. UndoneMeansBefore'
  BY <1>1, <1>2, <1>4, <1>5, <1>3 DEF PathInv, UndoneMeansBefore, New, Written, Renamed
<1>14. CommittedMeansWhole'
  <2>1. CASE run.path # M
    BY <1>2, <1>4, <2>1 DEF CommittedMeansWhole
  <2>2. CASE run.path = M
    <3>1. run.pc = "manifest"
      BY <1>1, <1>2, <2>2 DEF HereKept, Obsolete
    <3>2. \A p \in Wanted : Whole(p)
      BY <1>3, <3>1 DEF PathInv, ReachedKept, Paths, Publishing
    <3>3. \A p \in Obsolete : Gone(p)
      BY <1>1, <1>3, <3>1 DEF PathInv, ReachedKept, Obsolete, MirrorRec
    <3> QED BY <1>2, <1>4, <1>5, <2>2, <3>2, <3>3 DEF CommittedMeansWhole, Whole, Gone, New, Obsolete
  <2> QED BY <2>1, <2>2
<1>15. LeftoversAnnounced'
  BY <1>1, <1>2, <1>4, <1>5, <1>3 DEF PathInv, LeftoversAnnounced, Renamed, CleanupKept, CommitKept, PublishKept,
     Doing, HereKept
<1>16. ASSUME NEW q \in Paths PROVE PathInv(q)'
  <2>1. JournalKept(q)'
    BY <1>1, <1>2, <1>4, <1>5, <1>3 DEF PathInv, JournalKept, New, Written
  <2>2. PublishKept(q)'
    BY <1>1, <1>2, <1>4, <1>5, <1>3 DEF PathInv, PublishKept, New, Written, ToCome, Doing, Gone, Publishing
  <2>3. ReachedKept(q)'
    BY <1>1, <1>2, <1>4, <1>5, <1>3 DEF PathInv, ReachedKept, New, Written, Here, Gone, Whole, Publishing,
       Obsolete, HereKept
  <2>4. AwayKept(q)'
    BY <1>1, <1>2, <1>4, <1>5, <1>3 DEF PathInv, AwayKept, Renamed
  <2>5. RollbackKept(q)'
    BY <1>1, <1>2, <1>4, <1>5, <1>3 DEF PathInv, RollbackKept, New, Written, Doing, RollingBack
  <2>6. UndoneKept(q)'
    BY <1>1, <1>2, <1>4, <1>5, <1>3 DEF PathInv, UndoneKept, New, Written, Doing, RollingBack, Here, Restored, Renamed
  <2> QED BY <2>1, <2>2, <2>3, <2>4, <2>5, <2>6 DEF PathInv
<1> QED BY <1>6, <1>7, <1>8, <1>9, <1>10, <1>11, <1>12, <1>13, <1>14, <1>15, <1>16 DEF MirrorInv, MirrorHonest

\* The run goes to another path of its stage.
LEMMA NextPathKept ==
  ASSUME MirrorInv, run.does = "none", NEW p \in run.left,
         run' = [run EXCEPT !.left = @ \ {p}, !.path = p, !.does = FirstHere(p)],
         UNCHANGED <<there, claims, current, journals, made, ended>>, Untouched PROVE MirrorInv'
<1>1. /\ MirrorTyped /\ FilesKnown /\ StageKept /\ HereKept /\ CommitKept /\ CleanupKept
      /\ NothingVanishes /\ UndoneMeansBefore /\ CommittedMeansWhole /\ LeftoversAnnounced
      /\ run \in MirrorRec /\ MaxRuns \in Nat /\ (run.no > 0 => \A x \in Paths : PathInv(x))
      /\ M \in Paths \ Wanted
  BY Named
<1>2. /\ run.does = "none"
      /\ p \in run.left \cap Paths
      /\ run.pc \in {"files", "obsolete", "manifest", "discard", "retract", "restore"}
      /\ run.no \in 1..MaxRuns
      /\ FirstHere(p) \in MirrorOps \ {"none"}
      /\ run.pc \in {"files", "obsolete", "manifest"} => FirstHere(p) = "look"
      /\ run.pc = "discard" => FirstHere(p) = "discard"
      /\ run.pc = "retract" => FirstHere(p) = "retract"
      /\ run.pc = "restore" /\ p \notin run.claimed => FirstHere(p) = "compare"
      /\ run.pc = "restore" /\ p \in run.claimed => FirstHere(p) \in {"retract", "return"}
  BY <1>1, FirstFacts DEF StageKept, MirrorTyped, MirrorRec, MirrorStages
<1>3. \A x \in Paths : PathInv(x)
  BY <1>1, <1>2
<1>4. /\ run' \in MirrorRec
      /\ run'.no = run.no /\ run'.pc = run.pc /\ run'.prior = run.prior /\ run'.backup = run.backup
      /\ run'.published = run.published /\ run'.pending = run.pending /\ run'.claimed = run.claimed
      /\ run'.committed = run.committed /\ run'.error = run.error
      /\ run'.left = run.left \ {p}
      /\ run'.path = p
      /\ run'.does = FirstHere(p)
  BY <1>1, <1>2 DEF MirrorRec, MirrorOps, MirrorStages, Untouched
<1>5. /\ UNCHANGED <<there, claims, current, journals, made, ended, touches>>
  BY <1>1, <1>2 DEF Untouched
<1>6. MirrorTyped'
  BY <1>1, <1>2, <1>4, <1>5 DEF MirrorTyped
<1>7. FilesKnown'
  BY <1>1, <1>2, <1>4, <1>5, <1>3 DEF PathInv, FilesKnown, AllEmpty
<1>8. StageKept'
  BY <1>1, <1>2, <1>4, <1>5 DEF StageKept, Publishing, Obsolete
<1>9. HereKept'
  BY <1>1, <1>2, <1>4, <1>5 DEF HereKept, Obsolete, StageKept
<1>10. CommitKept'
  BY <1>1, <1>2, <1>4, <1>5 DEF CommitKept, HereKept, StageKept, Obsolete
<1>11. CleanupKept'
  BY <1>1, <1>2, <1>4, <1>5 DEF CleanupKept, Renamed, Here
<1>12. NothingVanishes'
  BY <1>1, <1>5, NothingMoved
<1>13. UndoneMeansBefore'
  BY <1>1, <1>2, <1>4, <1>5, <1>3 DEF PathInv, UndoneMeansBefore, New, Written, Renamed
<1>14. CommittedMeansWhole'
  BY <1>1, <1>2, <1>4, <1>5 DEF CommittedMeansWhole, New, Written, Obsolete
<1>15. LeftoversAnnounced'
  BY <1>1, <1>2, <1>4, <1>5, <1>3 DEF PathInv, LeftoversAnnounced, Renamed
<1>16. ASSUME NEW q \in Paths PROVE PathInv(q)'
  <2>1. JournalKept(q)'
    BY <1>1, <1>2, <1>4, <1>5, <1>3 DEF PathInv, JournalKept, New, Written
  <2>2. PublishKept(q)'
    BY <1>1, <1>2, <1>4, <1>5, <1>3 DEF PathInv, PublishKept, New, Written, ToCome, Doing, Gone, Publishing
  <2>3. ReachedKept(q)'
    BY <1>1, <1>2, <1>4, <1>5, <1>3 DEF PathInv, ReachedKept, New, Written, Here, Gone, Whole, Publishing, Obsolete
  <2>4. AwayKept(q)'
    BY <1>1, <1>2, <1>4, <1>5, <1>3 DEF PathInv, AwayKept, Renamed
  <2>5. RollbackKept(q)'
    BY <1>1, <1>2, <1>4, <1>5, <1>3 DEF PathInv, RollbackKept, New, Written, Doing, RollingBack
  <2>6. UndoneKept(q)'
    BY <1>1, <1>2, <1>4, <1>5, <1>3 DEF PathInv, UndoneKept, New, Written, Doing, RollingBack, Here, Restored,
       Renamed, StageKept
  <2> QED BY <2>1, <2>2, <2>3, <2>4, <2>5, <2>6 DEF PathInv
<1> QED BY <1>6, <1>7, <1>8, <1>9, <1>10, <1>11, <1>12, <1>13, <1>14, <1>15, <1>16 DEF MirrorInv, MirrorHonest

\* Whatever is at the path is renamed aside (:477, 512).
LEMMA ClaimKept ==
  ASSUME MirrorInv, Claim, Untouched PROVE MirrorInv'
<1>1. /\ MirrorTyped /\ FilesKnown /\ StageKept /\ HereKept /\ CommitKept /\ CleanupKept
      /\ NothingVanishes /\ UndoneMeansBefore /\ CommittedMeansWhole /\ LeftoversAnnounced
      /\ run \in MirrorRec /\ MaxRuns \in Nat /\ (run.no > 0 => \A x \in Paths : PathInv(x))
      /\ M \in Paths \ Wanted
  BY Named
<1>2. /\ run.does = "claim"
      /\ Publishing
      /\ run.pc \in {"files", "obsolete", "manifest"}
      /\ ~run.committed
      /\ run.path \in Paths \ run.left
      /\ run.no \in 1..MaxRuns
      /\ there[run.path] # Vacant
  BY <1>1, PublishOps DEF Claim, Path
<1>3. \A x \in Paths : PathInv(x)
  BY <1>1, <1>2
<1>4. /\ run' \in MirrorRec
      /\ run'.no = run.no /\ run'.pc = run.pc /\ run'.left = run.left /\ run'.path = run.path
      /\ run'.prior = run.prior /\ run'.backup = run.backup /\ run'.published = run.published
      /\ run'.pending = run.pending /\ run'.claimed = run.claimed /\ run'.committed = run.committed
      /\ run'.error = run.error
      /\ run'.does = "check"
  BY <1>1, <1>2 DEF MirrorRec, MirrorOps, MirrorStages, Claim, Untouched, Visited, Then, Stage, Path, AtPath,
     Aside, Behind, FileOrNone
<1>5. /\ there' \in [Paths -> FileOrNone]
      /\ \A q \in Paths : there'[q] = (IF q = run.path THEN Vacant ELSE there[q])
      /\ claims' \in [1..MaxRuns -> [Paths -> FileOrNone]]
      /\ \A i \in 1..MaxRuns : \A q \in Paths : claims'[i][q] =
           (IF i = run.no /\ q = run.path THEN there[run.path] ELSE claims[i][q])
      /\ \A i \in 1..MaxRuns : i # run.no => claims'[i] = claims[i]
      /\ UNCHANGED <<current, journals, made, ended, touches>>
  BY <1>1, <1>2 DEF Claim, Untouched, Visited, Then, Stage, Path, AtPath, Aside, Behind, FileOrNone, MirrorTyped
<1>6. MirrorTyped'
  BY <1>1, <1>2, <1>4, <1>5 DEF MirrorTyped
<1>7. FilesKnown'
  <2>1. \A p \in Paths : {there[p], run.backup[p]}' \subseteq made' \cup {Vacant}
    BY <1>1, <1>2, <1>4, <1>5 DEF FilesKnown
  <2>2. \A i \in 1..MaxRuns : \A p \in Paths : {claims[i][p], current[i][p]}' \subseteq made' \cup {Vacant}
    BY <1>1, <1>2, <1>4, <1>5 DEF FilesKnown
  <2>3. \A f \in made' : (f.by = "user" => f.n <= touches') /\ (f.by = "new" => f.n <= run'.no)
    BY <1>1, <1>2, <1>4, <1>5 DEF FilesKnown
  <2>4. \A i \in 1..MaxRuns : i > run'.no => claims'[i] = AllEmpty /\ current'[i] = AllEmpty
    BY <1>1, <1>2, <1>4, <1>5 DEF FilesKnown
  <2> QED BY <2>1, <2>2, <2>3, <2>4 DEF FilesKnown
<1>8. StageKept'
  BY <1>1, <1>2, <1>4, <1>5 DEF StageKept, Publishing, Obsolete
<1>9. HereKept'
  BY <1>1, <1>2, <1>4, <1>5 DEF HereKept, Obsolete
<1>10. CommitKept'
  BY <1>1, <1>2, <1>4, <1>5 DEF CommitKept, HereKept, StageKept, Obsolete
<1>11. CleanupKept'
  BY <1>1, <1>2, <1>4, <1>5 DEF CleanupKept, Renamed, Here
<1>12. NothingVanishes'
  <2> SUFFICES ASSUME NEW f \in made' \ ended' PROVE OnDisk(f)'
    BY DEF NothingVanishes
  <2>1. f \in made \ ended /\ OnDisk(f)
    BY <1>1, <1>2, <1>5 DEF NothingVanishes
  <2>2. f # Vacant
    BY <1>1, <1>2, <1>5, Absent DEF MirrorTyped
  <2> QED BY <1>2, <1>3, <1>5, <2>1, <2>2 DEF OnDisk, PathInv, PublishKept, RollbackKept, Publishing,
             RollingBack, ToCome, Doing, FileOrNone
<1>13. UndoneMeansBefore'
  BY <1>1, <1>2, <1>4, <1>5, <1>3 DEF PathInv, UndoneMeansBefore, New, Written, Renamed
<1>14. CommittedMeansWhole'
  BY <1>1, <1>2, <1>4, <1>5 DEF CommittedMeansWhole, New, Written, Obsolete
<1>15. LeftoversAnnounced'
  BY <1>1, <1>2, <1>4, <1>5, <1>3 DEF PathInv, LeftoversAnnounced, Renamed
<1>16. ASSUME NEW q \in Paths PROVE PathInv(q)'
  <2>1. JournalKept(q)'
    BY <1>1, <1>2, <1>4, <1>5, <1>3 DEF PathInv, JournalKept, New, Written
  <2>2. PublishKept(q)'
    BY <1>1, <1>2, <1>4, <1>5, <1>3 DEF PathInv, PublishKept, New, Written, ToCome, Doing, Gone, Publishing
  <2>3. ReachedKept(q)'
    BY <1>1, <1>2, <1>4, <1>5, <1>3 DEF PathInv, ReachedKept, New, Written, Here, Gone, Whole, Publishing,
       Obsolete, PublishKept, ToCome, Doing
  <2>4. AwayKept(q)'
    BY <1>1, <1>2, <1>4, <1>5, <1>3 DEF PathInv, AwayKept, Renamed, PublishKept
  <2>5. RollbackKept(q)'
    BY <1>1, <1>2, <1>4, <1>5, <1>3 DEF PathInv, RollbackKept, New, Written, Doing, RollingBack
  <2>6. UndoneKept(q)'
    BY <1>1, <1>2, <1>4, <1>5, <1>3 DEF PathInv, UndoneKept, New, Written, Doing, RollingBack, Here, Restored, Renamed
  <2> QED BY <2>1, <2>2, <2>3, <2>4, <2>5, <2>6 DEF PathInv
<1> QED BY <1>6, <1>7, <1>8, <1>9, <1>10, <1>11, <1>12, <1>13, <1>14, <1>15, <1>16 DEF MirrorInv, MirrorHonest

\* The new file is linked into an empty path (:472, 482).
LEMMA LinkKept ==
  ASSUME MirrorInv, Link, Untouched PROVE MirrorInv'
<1>1. /\ MirrorTyped /\ FilesKnown /\ StageKept /\ HereKept /\ CommitKept /\ CleanupKept
      /\ NothingVanishes /\ UndoneMeansBefore /\ CommittedMeansWhole /\ LeftoversAnnounced
      /\ run \in MirrorRec /\ MaxRuns \in Nat /\ (run.no > 0 => \A x \in Paths : PathInv(x))
      /\ M \in Paths \ Wanted
  BY Named
<1>2. /\ run.does = "link"
      /\ Publishing
      /\ run.pc \in {"files", "obsolete", "manifest"}
      /\ ~run.committed
      /\ run.path \in Paths \ run.left
      /\ run.no \in 1..MaxRuns
      /\ there[run.path] = Vacant
      /\ New(run.path) \in MirrorFiles /\ New(run.path) # Vacant /\ New(run.path).by = "new" /\ New(run.path).n = run.no
      /\ \A q \in Paths : q # run.path => New(q) # New(run.path)
  BY <1>1, PublishOps, NewFacts DEF Link, Path
<1>3. \A x \in Paths : PathInv(x)
  BY <1>1, <1>2
<1>4. /\ run' \in MirrorRec
      /\ run'.no = run.no /\ run'.pc = run.pc /\ run'.left = run.left /\ run'.path = run.path
      /\ run'.prior = run.prior /\ run'.backup = run.backup /\ run'.published = run.published
      /\ run'.claimed = run.claimed /\ run'.committed = run.committed /\ run'.error = run.error
      /\ run'.does = "confirm"
      /\ run'.pending = (IF run.path \in run.prior THEN run.pending ELSE run.pending \cup {run.path})
  BY <1>1, <1>2 DEF MirrorRec, MirrorOps, MirrorStages, Link, Untouched, Visited, Then, Stage, Path, AtPath,
     Aside, Behind, FileOrNone, Pending
<1>5. /\ there' \in [Paths -> FileOrNone]
      /\ \A q \in Paths : there'[q] = (IF q = run.path THEN New(run.path) ELSE there[q])
      /\ UNCHANGED <<claims, current, journals, ended, touches>>
      /\ made' = made \cup {New(run.path)}
  BY <1>1, <1>2 DEF Link, Untouched, Visited, Then, Stage, Path, AtPath, Aside, Behind, FileOrNone, Pending,
     MirrorTyped
<1>6. MirrorTyped'
  BY <1>1, <1>2, <1>4, <1>5 DEF MirrorTyped
<1>7. FilesKnown'
  <2>1. \A p \in Paths : {there[p], run.backup[p]}' \subseteq made' \cup {Vacant}
    BY <1>1, <1>2, <1>4, <1>5 DEF FilesKnown
  <2>2. \A i \in 1..MaxRuns : \A p \in Paths : {claims[i][p], current[i][p]}' \subseteq made' \cup {Vacant}
    BY <1>1, <1>2, <1>4, <1>5 DEF FilesKnown
  <2>3. \A f \in made' : (f.by = "user" => f.n <= touches') /\ (f.by = "new" => f.n <= run'.no)
    BY <1>1, <1>2, <1>4, <1>5 DEF FilesKnown
  <2>4. \A i \in 1..MaxRuns : i > run'.no => claims'[i] = AllEmpty /\ current'[i] = AllEmpty
    BY <1>1, <1>2, <1>4, <1>5 DEF FilesKnown
  <2> QED BY <2>1, <2>2, <2>3, <2>4 DEF FilesKnown
<1>8. StageKept'
  BY <1>1, <1>2, <1>4, <1>5 DEF StageKept, Publishing, Obsolete
<1>9. HereKept'
  BY <1>1, <1>2, <1>4, <1>5 DEF HereKept, Obsolete
<1>10. CommitKept'
  BY <1>1, <1>2, <1>4, <1>5 DEF CommitKept, HereKept, StageKept, Obsolete
<1>11. CleanupKept'
  BY <1>1, <1>2, <1>4, <1>5 DEF CleanupKept, Renamed, Here
<1>12. NothingVanishes'
  <2> SUFFICES ASSUME NEW f \in made' \ ended' PROVE OnDisk(f)'
    BY DEF NothingVanishes
  <2>1. (f \in made \ ended /\ OnDisk(f)) \/ f = there'[run.path]
    BY <1>1, <1>2, <1>5 DEF NothingVanishes
  <2>2. f # Vacant
    BY <1>1, <1>2, <1>5, Absent DEF MirrorTyped
  <2> QED BY <1>2, <1>3, <1>5, <2>1, <2>2 DEF OnDisk, PathInv, PublishKept, RollbackKept, Publishing,
             RollingBack, ToCome, Doing, FileOrNone
<1>13. UndoneMeansBefore'
  BY <1>1, <1>2, <1>4, <1>5, <1>3 DEF PathInv, UndoneMeansBefore, New, Written, Renamed
<1>14. CommittedMeansWhole'
  BY <1>1, <1>2, <1>4, <1>5 DEF CommittedMeansWhole, New, Written, Obsolete
<1>15. LeftoversAnnounced'
  BY <1>1, <1>2, <1>4, <1>5, <1>3 DEF PathInv, LeftoversAnnounced, Renamed
<1>16. ASSUME NEW q \in Paths PROVE PathInv(q)'
  <2>1. JournalKept(q)'
    BY <1>1, <1>2, <1>4, <1>5, <1>3 DEF PathInv, JournalKept, New, Written
  <2>2. PublishKept(q)'
    <3>1. CASE q = run.path
      BY <1>1, <1>2, <1>3, <1>4, <1>5, <3>1 DEF PathInv, PublishKept, New, Written, ToCome, Doing, Gone, Publishing,
         HereKept, Obsolete
    <3>2. CASE q # run.path
      BY <1>1, <1>2, <1>3, <1>4, <1>5, <3>2 DEF PathInv, PublishKept, New, Written, ToCome, Doing, Gone, Publishing,
         HereKept, Obsolete
    <3> QED BY <3>1, <3>2
  <2>3. ReachedKept(q)'
    <3>1. CASE q = run.path
      BY <1>1, <1>2, <1>3, <1>4, <1>5, <3>1 DEF PathInv, ReachedKept, New, Written, Here, Gone, Whole,
         Publishing, Obsolete, PublishKept, ToCome, Doing, HereKept
    <3>2. CASE q # run.path
      BY <1>1, <1>2, <1>3, <1>4, <1>5, <3>2 DEF PathInv, ReachedKept, New, Written, Here, Gone, Whole,
         Publishing, Obsolete, PublishKept, ToCome, Doing, HereKept
    <3> QED BY <3>1, <3>2
  <2>4. AwayKept(q)'
    BY <1>1, <1>2, <1>4, <1>5, <1>3 DEF PathInv, AwayKept, Renamed, PublishKept, JournalKept
  <2>5. RollbackKept(q)'
    BY <1>1, <1>2, <1>4, <1>5, <1>3 DEF PathInv, RollbackKept, New, Written, Doing, RollingBack
  <2>6. UndoneKept(q)'
    BY <1>1, <1>2, <1>4, <1>5, <1>3 DEF PathInv, UndoneKept, New, Written, Doing, RollingBack, Here, Restored, Renamed
  <2> QED BY <2>1, <2>2, <2>3, <2>4, <2>5, <2>6 DEF PathInv
<1> QED BY <1>6, <1>7, <1>8, <1>9, <1>10, <1>11, <1>12, <1>13, <1>14, <1>15, <1>16 DEF MirrorInv, MirrorHonest

\* The rollback renames what is at the path aside (:401, 424).
LEMMA RetractKept ==
  ASSUME MirrorInv, Retract, Untouched PROVE MirrorInv'
<1>1. /\ MirrorTyped /\ FilesKnown /\ StageKept /\ HereKept /\ CommitKept /\ CleanupKept
      /\ NothingVanishes /\ UndoneMeansBefore /\ CommittedMeansWhole /\ LeftoversAnnounced
      /\ run \in MirrorRec /\ MaxRuns \in Nat /\ (run.no > 0 => \A x \in Paths : PathInv(x))
      /\ M \in Paths \ Wanted
  BY Named
<1>2. /\ run.does = "retract"
      /\ run.pc \in {"retract", "restore"}
      /\ ~run.committed
      /\ run.path \in Paths \ run.left
      /\ run.no \in 1..MaxRuns
      /\ there[run.path] # Vacant
      /\ \A q \in Paths : New(q) # Vacant
  BY <1>1, UndoOps, NewFacts DEF Retract, Path
<1>3. \A x \in Paths : PathInv(x)
  BY <1>1, <1>2
<1>4. /\ run' \in MirrorRec
      /\ run'.no = run.no /\ run'.pc = run.pc /\ run'.left = run.left /\ run'.path = run.path
      /\ run'.prior = run.prior /\ run'.backup = run.backup /\ run'.published = run.published
      /\ run'.pending = run.pending /\ run'.claimed = run.claimed /\ run'.committed = run.committed
      /\ run'.error = run.error
      /\ run'.does = "retracted"
  BY <1>1, <1>2 DEF MirrorRec, MirrorOps, MirrorStages, Retract, Untouched, Visited, Then, Stage, Path, AtPath,
     Aside, Behind, FileOrNone
<1>5. /\ there' \in [Paths -> FileOrNone]
      /\ \A q \in Paths : there'[q] = (IF q = run.path THEN Vacant ELSE there[q])
      /\ current' \in [1..MaxRuns -> [Paths -> FileOrNone]]
      /\ \A i \in 1..MaxRuns : \A q \in Paths : current'[i][q] =
           (IF i = run.no /\ q = run.path THEN there[run.path] ELSE current[i][q])
      /\ \A i \in 1..MaxRuns : i # run.no => current'[i] = current[i]
      /\ UNCHANGED <<claims, journals, made, ended, touches>>
  BY <1>1, <1>2 DEF Retract, Untouched, Visited, Then, Stage, Path, AtPath, Aside, Behind, FileOrNone, MirrorTyped
<1>6. MirrorTyped'
  BY <1>1, <1>2, <1>4, <1>5 DEF MirrorTyped
<1>7. FilesKnown'
  <2>1. \A p \in Paths : {there[p], run.backup[p]}' \subseteq made' \cup {Vacant}
    BY <1>1, <1>2, <1>4, <1>5 DEF FilesKnown
  <2>2. \A i \in 1..MaxRuns : \A p \in Paths : {claims[i][p], current[i][p]}' \subseteq made' \cup {Vacant}
    BY <1>1, <1>2, <1>4, <1>5 DEF FilesKnown
  <2>3. \A f \in made' : (f.by = "user" => f.n <= touches') /\ (f.by = "new" => f.n <= run'.no)
    BY <1>1, <1>2, <1>4, <1>5 DEF FilesKnown
  <2>4. \A i \in 1..MaxRuns : i > run'.no => claims'[i] = AllEmpty /\ current'[i] = AllEmpty
    BY <1>1, <1>2, <1>4, <1>5, SMTT(30) DEF FilesKnown
  <2> QED BY <2>1, <2>2, <2>3, <2>4 DEF FilesKnown
<1>8. StageKept'
  BY <1>1, <1>2, <1>4, <1>5 DEF StageKept, Publishing, Obsolete
<1>9. HereKept'
  BY <1>1, <1>2, <1>4, <1>5 DEF HereKept, Obsolete
<1>10. CommitKept'
  BY <1>1, <1>2, <1>4, <1>5 DEF CommitKept, HereKept, StageKept, Obsolete
<1>11. CleanupKept'
  BY <1>1, <1>2, <1>4, <1>5 DEF CleanupKept, Renamed, Here
<1>12. NothingVanishes'
  <2> SUFFICES ASSUME NEW f \in made' \ ended' PROVE OnDisk(f)'
    BY DEF NothingVanishes
  <2>1. f \in made \ ended /\ OnDisk(f)
    BY <1>1, <1>2, <1>5 DEF NothingVanishes
  <2>2. f # Vacant
    BY <1>1, <1>2, <1>5, Absent DEF MirrorTyped
  <2> QED BY <1>2, <1>3, <1>5, <2>1, <2>2 DEF OnDisk, PathInv, PublishKept, RollbackKept, Publishing,
             RollingBack, ToCome, Doing, FileOrNone
<1>13. UndoneMeansBefore'
  BY <1>1, <1>2, <1>4, <1>5, <1>3 DEF PathInv, UndoneMeansBefore, New, Written, Renamed
<1>14. CommittedMeansWhole'
  BY <1>1, <1>2, <1>4, <1>5 DEF CommittedMeansWhole, New, Written, Obsolete
<1>15. LeftoversAnnounced'
  BY <1>1, <1>2, <1>4, <1>5, <1>3 DEF PathInv, LeftoversAnnounced, Renamed
<1>16. ASSUME NEW q \in Paths PROVE PathInv(q)'
  <2>1. JournalKept(q)'
    BY <1>1, <1>2, <1>4, <1>5, <1>3 DEF PathInv, JournalKept, New, Written
  <2>2. PublishKept(q)'
    BY <1>1, <1>2, <1>4, <1>5, <1>3 DEF PathInv, PublishKept, New, Written, ToCome, Doing, Gone, Publishing
  <2>3. ReachedKept(q)'
    BY <1>1, <1>2, <1>4, <1>5, <1>3 DEF PathInv, ReachedKept, New, Written, Here, Gone, Whole, Publishing, Obsolete
  <2>4. AwayKept(q)'
    <3>1. CASE q = run.path
      BY <1>1, <1>2, <1>3, <1>4, <1>5, <3>1 DEF PathInv, AwayKept, Renamed
    <3>2. CASE q # run.path
      BY <1>1, <1>2, <1>3, <1>4, <1>5, <3>2 DEF PathInv, AwayKept, Renamed
    <3> QED BY <3>1, <3>2
  <2>5. RollbackKept(q)'
    <3>1. CASE q = run.path
      BY <1>1, <1>2, <1>3, <1>4, <1>5, <3>1 DEF PathInv, RollbackKept, New, Written, Doing, RollingBack, HereKept
    <3>2. CASE q # run.path
      BY <1>1, <1>2, <1>3, <1>4, <1>5, <3>2 DEF PathInv, RollbackKept, New, Written, Doing, RollingBack
    <3> QED BY <3>1, <3>2
  <2>6. UndoneKept(q)'
    <3>1. CASE q = run.path
      BY <1>1, <1>2, <1>3, <1>4, <1>5, <3>1 DEF PathInv, UndoneKept, New, Written, Doing, RollingBack, Here,
         Restored, Renamed, HereKept, StageKept
    <3>2. CASE q # run.path
      BY <1>1, <1>2, <1>3, <1>4, <1>5, <3>2, ZenonT(40) DEF PathInv, UndoneKept, New, Written, Doing, RollingBack, Here,
         Restored, Renamed
    <3> QED BY <3>1, <3>2
  <2> QED BY <2>1, <2>2, <2>3, <2>4, <2>5, <2>6 DEF PathInv
<1> QED BY <1>6, <1>7, <1>8, <1>9, <1>10, <1>11, <1>12, <1>13, <1>14, <1>15, <1>16 DEF MirrorInv, MirrorHonest

\* What was renamed is the run's own file, and is unlinked (:412, 428).
LEMMA RetractedKept ==
  ASSUME MirrorInv, Retracted, Untouched PROVE MirrorInv'
<1>1. /\ MirrorTyped /\ FilesKnown /\ StageKept /\ HereKept /\ CommitKept /\ CleanupKept
      /\ NothingVanishes /\ UndoneMeansBefore /\ CommittedMeansWhole /\ LeftoversAnnounced
      /\ run \in MirrorRec /\ MaxRuns \in Nat /\ (run.no > 0 => \A x \in Paths : PathInv(x))
      /\ M \in Paths \ Wanted
  BY Named
<1>2. /\ run.does = "retracted"
      /\ run.pc \in {"retract", "restore"}
      /\ ~run.committed
      /\ run.path \in Paths \ run.left
      /\ run.no \in 1..MaxRuns
      /\ current[run.no][run.path] = New(run.path)
  BY <1>1, UndoOps DEF Retracted, Path
<1>3. \A x \in Paths : PathInv(x)
  BY <1>1, <1>2
<1>4. /\ run' \in MirrorRec
      /\ run'.no = run.no /\ run'.pc = run.pc /\ run'.left = run.left /\ run'.prior = run.prior
      /\ run'.backup = run.backup /\ run'.published = run.published /\ run'.pending = run.pending
      /\ run'.claimed = run.claimed /\ run'.committed = run.committed /\ run'.error = run.error
      /\ \/ run.pc = "restore" /\ run'.path = run.path /\ run'.does = "return"
         \/ run.pc # "restore" /\ run'.path = Vacant /\ run'.does = "none"
  BY <1>1, <1>2 DEF MirrorRec, MirrorOps, MirrorStages, Retracted, Untouched, Visited, Then, Stage, Path, AtPath,
     Aside, Behind, FileOrNone
<1>5. /\ current' \in [1..MaxRuns -> [Paths -> FileOrNone]]
      /\ \A i \in 1..MaxRuns : \A q \in Paths : current'[i][q] =
           (IF i = run.no /\ q = run.path THEN Vacant ELSE current[i][q])
      /\ \A i \in 1..MaxRuns : i # run.no => current'[i] = current[i]
      /\ UNCHANGED <<there, claims, journals, made, touches>>
      /\ ended' = ended \cup {New(run.path)}
  BY <1>1, <1>2 DEF Retracted, Untouched, Visited, Then, Stage, Path, AtPath, Aside, Behind, FileOrNone, MirrorTyped
<1>6. MirrorTyped'
  BY <1>1, <1>2, <1>4, <1>5 DEF MirrorTyped
<1>7. FilesKnown'
  <2>1. \A p \in Paths : {there[p], run.backup[p]}' \subseteq made' \cup {Vacant}
    BY <1>1, <1>2, <1>4, <1>5 DEF FilesKnown
  <2>2. \A i \in 1..MaxRuns : \A p \in Paths : {claims[i][p], current[i][p]}' \subseteq made' \cup {Vacant}
    BY <1>1, <1>2, <1>4, <1>5 DEF FilesKnown
  <2>3. \A f \in made' : (f.by = "user" => f.n <= touches') /\ (f.by = "new" => f.n <= run'.no)
    BY <1>1, <1>2, <1>4, <1>5 DEF FilesKnown
  <2>4. \A i \in 1..MaxRuns : i > run'.no => claims'[i] = AllEmpty /\ current'[i] = AllEmpty
    BY <1>1, <1>2, <1>4, <1>5 DEF FilesKnown
  <2> QED BY <2>1, <2>2, <2>3, <2>4 DEF FilesKnown
<1>8. StageKept'
  BY <1>1, <1>2, <1>4, <1>5 DEF StageKept, Publishing, Obsolete
<1>9. HereKept'
  BY <1>1, <1>2, <1>4, <1>5 DEF HereKept, Obsolete
<1>10. CommitKept'
  BY <1>1, <1>2, <1>4, <1>5 DEF CommitKept, HereKept, StageKept, Obsolete
<1>11. CleanupKept'
  BY <1>1, <1>2, <1>4, <1>5 DEF CleanupKept, Renamed, Here
<1>12. NothingVanishes'
  <2> SUFFICES ASSUME NEW f \in made' \ ended' PROVE OnDisk(f)'
    BY DEF NothingVanishes
  <2>1. f \in made \ ended /\ OnDisk(f)
    BY <1>1, <1>2, <1>5 DEF NothingVanishes
  <2>2. f # Vacant
    BY <1>1, <1>2, <1>5, Absent DEF MirrorTyped
  <2> QED BY <1>2, <1>3, <1>5, <2>1, <2>2 DEF OnDisk, PathInv, PublishKept, RollbackKept, Publishing,
             RollingBack, ToCome, Doing, FileOrNone
<1>13. UndoneMeansBefore'
  BY <1>1, <1>2, <1>4, <1>5, <1>3 DEF PathInv, UndoneMeansBefore, New, Written, Renamed
<1>14. CommittedMeansWhole'
  BY <1>1, <1>2, <1>4, <1>5 DEF CommittedMeansWhole, New, Written, Obsolete
<1>15. LeftoversAnnounced'
  BY <1>1, <1>2, <1>4, <1>5, <1>3 DEF PathInv, LeftoversAnnounced, Renamed
<1>16. ASSUME NEW q \in Paths PROVE PathInv(q)'
  <2>1. JournalKept(q)'
    BY <1>1, <1>2, <1>4, <1>5, <1>3 DEF PathInv, JournalKept, New, Written
  <2>2. PublishKept(q)'
    BY <1>1, <1>2, <1>4, <1>5, <1>3 DEF PathInv, PublishKept, New, Written, ToCome, Doing, Gone, Publishing
  <2>3. ReachedKept(q)'
    BY <1>1, <1>2, <1>4, <1>5, <1>3 DEF PathInv, ReachedKept, New, Written, Here, Gone, Whole, Publishing, Obsolete
  <2>4. AwayKept(q)'
    <3>1. CASE q = run.path
      BY <1>1, <1>2, <1>3, <1>4, <1>5, <3>1 DEF PathInv, AwayKept, Renamed
    <3>2. CASE q # run.path
      BY <1>1, <1>2, <1>3, <1>4, <1>5, <3>2 DEF PathInv, AwayKept, Renamed
    <3> QED BY <3>1, <3>2
  <2>5. RollbackKept(q)'
    <3>1. CASE q = run.path
      BY <1>1, <1>2, <1>3, <1>4, <1>5, <3>1 DEF PathInv, RollbackKept, New, Written, Doing, RollingBack
    <3>2. CASE q # run.path
      BY <1>1, <1>2, <1>3, <1>4, <1>5, <3>2 DEF PathInv, RollbackKept, New, Written, Doing, RollingBack
    <3> QED BY <3>1, <3>2
  <2>6. UndoneKept(q)'
    <3>1. CASE q = run.path
      BY <1>1, <1>2, <1>3, <1>4, <1>5, <3>1 DEF PathInv, UndoneKept, New, Written, Doing, RollingBack, Here,
         Restored, Renamed
    <3>2. CASE q # run.path
      BY <1>1, <1>2, <1>3, <1>4, <1>5, <3>2 DEF PathInv, UndoneKept, New, Written, Doing, RollingBack, Here,
         Restored, Renamed
    <3> QED BY <3>1, <3>2
  <2> QED BY <2>1, <2>2, <2>3, <2>4, <2>5, <2>6 DEF PathInv
<1> QED BY <1>6, <1>7, <1>8, <1>9, <1>10, <1>11, <1>12, <1>13, <1>14, <1>15, <1>16 DEF MirrorInv, MirrorHonest

\* The prior file goes back to its path (:432, 441, 447).
LEMMA ReturnKept ==
  ASSUME MirrorInv, Return, Untouched PROVE MirrorInv'
<1>1. /\ MirrorTyped /\ FilesKnown /\ StageKept /\ HereKept /\ CommitKept /\ CleanupKept
      /\ NothingVanishes /\ UndoneMeansBefore /\ CommittedMeansWhole /\ LeftoversAnnounced
      /\ run \in MirrorRec /\ MaxRuns \in Nat /\ (run.no > 0 => \A x \in Paths : PathInv(x))
      /\ M \in Paths \ Wanted
  BY Named
<1>2. /\ run.does = "return"
      /\ run.pc = "restore"
      /\ ~run.committed
      /\ run.path \in Paths \ run.left
      /\ run.no \in 1..MaxRuns
      /\ there[run.path] = Vacant
      /\ claims[run.no][run.path] = run.backup[run.path]
  BY <1>1, UndoOps DEF Return, Path, Renamed
<1>3. \A x \in Paths : PathInv(x)
  BY <1>1, <1>2
<1>4. /\ run' \in MirrorRec
      /\ run'.no = run.no /\ run'.pc = run.pc /\ run'.left = run.left /\ run'.prior = run.prior
      /\ run'.backup = run.backup /\ run'.published = run.published /\ run'.pending = run.pending
      /\ run'.claimed = run.claimed /\ run'.committed = run.committed /\ run'.error = run.error
      /\ run'.path = Vacant
      /\ run'.does = "none"
  BY <1>1, <1>2 DEF MirrorRec, MirrorOps, MirrorStages, Return, Untouched, Visited, Then, Stage, Path, AtPath,
     Aside, Behind, FileOrNone, Renamed
<1>5. /\ there' \in [Paths -> FileOrNone]
      /\ \A q \in Paths : there'[q] = (IF q = run.path THEN run.backup[run.path] ELSE there[q])
      /\ claims' \in [1..MaxRuns -> [Paths -> FileOrNone]]
      /\ \A i \in 1..MaxRuns : \A q \in Paths : claims'[i][q] =
           (IF i = run.no /\ q = run.path THEN Vacant ELSE claims[i][q])
      /\ \A i \in 1..MaxRuns : i # run.no => claims'[i] = claims[i]
      /\ UNCHANGED <<current, journals, made, ended, touches>>
  BY <1>1, <1>2 DEF Return, Untouched, Visited, Then, Stage, Path, AtPath, Aside, Behind, FileOrNone, Renamed,
     MirrorTyped
<1>6. MirrorTyped'
  BY <1>1, <1>2, <1>4, <1>5 DEF MirrorTyped
<1>7. FilesKnown'
  <2>1. \A p \in Paths : {there[p], run.backup[p]}' \subseteq made' \cup {Vacant}
    BY <1>1, <1>2, <1>4, <1>5 DEF FilesKnown
  <2>2. \A i \in 1..MaxRuns : \A p \in Paths : {claims[i][p], current[i][p]}' \subseteq made' \cup {Vacant}
    BY <1>1, <1>2, <1>4, <1>5 DEF FilesKnown
  <2>3. \A f \in made' : (f.by = "user" => f.n <= touches') /\ (f.by = "new" => f.n <= run'.no)
    BY <1>1, <1>2, <1>4, <1>5 DEF FilesKnown
  <2>4. \A i \in 1..MaxRuns : i > run'.no => claims'[i] = AllEmpty /\ current'[i] = AllEmpty
    BY <1>1, <1>2, <1>4, <1>5 DEF FilesKnown
  <2> QED BY <2>1, <2>2, <2>3, <2>4 DEF FilesKnown
<1>8. StageKept'
  BY <1>1, <1>2, <1>4, <1>5 DEF StageKept, Publishing, Obsolete
<1>9. HereKept'
  BY <1>1, <1>2, <1>4, <1>5 DEF HereKept, Obsolete
<1>10. CommitKept'
  BY <1>1, <1>2, <1>4, <1>5 DEF CommitKept, HereKept, StageKept, Obsolete
<1>11. CleanupKept'
  BY <1>1, <1>2, <1>4, <1>5 DEF CleanupKept, Renamed, Here
<1>12. NothingVanishes'
  <2> SUFFICES ASSUME NEW f \in made' \ ended' PROVE OnDisk(f)'
    BY DEF NothingVanishes
  <2>1. f \in made \ ended /\ OnDisk(f)
    BY <1>1, <1>2, <1>5 DEF NothingVanishes
  <2>2. f # Vacant
    BY <1>1, <1>2, <1>5, Absent DEF MirrorTyped
  <2> QED BY <1>2, <1>3, <1>5, <2>1, <2>2 DEF OnDisk, PathInv, PublishKept, RollbackKept, Publishing,
             RollingBack, ToCome, Doing, FileOrNone
<1>13. UndoneMeansBefore'
  BY <1>1, <1>2, <1>4, <1>5, <1>3 DEF PathInv, UndoneMeansBefore, New, Written, Renamed
<1>14. CommittedMeansWhole'
  BY <1>1, <1>2, <1>4, <1>5 DEF CommittedMeansWhole, New, Written, Obsolete
<1>15. LeftoversAnnounced'
  BY <1>1, <1>2, <1>4, <1>5, <1>3 DEF PathInv, LeftoversAnnounced, Renamed
<1>16. ASSUME NEW q \in Paths PROVE PathInv(q)'
  <2>1. JournalKept(q)'
    BY <1>1, <1>2, <1>4, <1>5, <1>3 DEF PathInv, JournalKept, New, Written
  <2>2. PublishKept(q)'
    BY <1>1, <1>2, <1>4, <1>5, <1>3 DEF PathInv, PublishKept, New, Written, ToCome, Doing, Gone, Publishing
  <2>3. ReachedKept(q)'
    BY <1>1, <1>2, <1>4, <1>5, <1>3 DEF PathInv, ReachedKept, New, Written, Here, Gone, Whole, Publishing, Obsolete
  <2>4. AwayKept(q)'
    <3>1. CASE q = run.path
      BY <1>1, <1>2, <1>3, <1>4, <1>5, <3>1 DEF PathInv, AwayKept, Renamed
    <3>2. CASE q # run.path
      BY <1>1, <1>2, <1>3, <1>4, <1>5, <3>2 DEF PathInv, AwayKept, Renamed
    <3> QED BY <3>1, <3>2
  <2>5. RollbackKept(q)'
    <3>1. CASE q = run.path
      BY <1>1, <1>2, <1>3, <1>4, <1>5, <3>1 DEF PathInv, RollbackKept, New, Written, Doing, RollingBack
    <3>2. CASE q # run.path
      BY <1>1, <1>2, <1>3, <1>4, <1>5, <3>2 DEF PathInv, RollbackKept, New, Written, Doing, RollingBack
    <3> QED BY <3>1, <3>2
  <2>6. UndoneKept(q)'
    <3>1. CASE q = run.path
      BY <1>1, <1>2, <1>3, <1>4, <1>5, <3>1 DEF PathInv, UndoneKept, New, Written, Doing, RollingBack, Here,
         Restored, Renamed, JournalKept
    <3>2. CASE q # run.path
      <4>1. /\ there'[q] = there[q] /\ claims'[run.no][q] = claims[run.no][q] /\ current'[run.no][q] = current[run.no][q]
            /\ ended \subseteq ended' /\ run.backup[q] = run'.backup[q]
        BY <1>2, <1>4, <1>5, <3>2
      <4>2. UndoneKept(q)
        BY <1>3 DEF PathInv
      <4> QED BY <1>2, <1>4, <1>5, <3>2, <4>1, <4>2 DEF UndoneKept, New, Written, Doing, RollingBack, Here,
                 Restored, Renamed
    <3> QED BY <3>1, <3>2
  <2> QED BY <2>1, <2>2, <2>3, <2>4, <2>5, <2>6 DEF PathInv
<1> QED BY <1>6, <1>7, <1>8, <1>9, <1>10, <1>11, <1>12, <1>13, <1>14, <1>15, <1>16 DEF MirrorInv, MirrorHonest

\* A claim is unlinked after the commit (_commit_prior_claims).
LEMMA DiscardKept ==
  ASSUME MirrorInv, Discard, Untouched PROVE MirrorInv'
<1>1. /\ MirrorTyped /\ FilesKnown /\ StageKept /\ HereKept /\ CommitKept /\ CleanupKept
      /\ NothingVanishes /\ UndoneMeansBefore /\ CommittedMeansWhole /\ LeftoversAnnounced
      /\ run \in MirrorRec /\ MaxRuns \in Nat /\ (run.no > 0 => \A x \in Paths : PathInv(x))
      /\ M \in Paths \ Wanted
  BY Named
<1>2. /\ run.does = "discard"
      /\ run.pc = "discard"
      /\ run.committed
      /\ run.path \in Paths \ run.left
      /\ run.no \in 1..MaxRuns
      /\ claims[run.no][run.path] = run.backup[run.path]
  BY <1>1, DiscardOp DEF Discard, Path, Renamed, StillBackup
<1>3. \A x \in Paths : PathInv(x)
  BY <1>1, <1>2
<1>4. /\ run' \in MirrorRec
      /\ run'.no = run.no /\ run'.pc = run.pc /\ run'.left = run.left /\ run'.prior = run.prior
      /\ run'.backup = run.backup /\ run'.published = run.published /\ run'.pending = run.pending
      /\ run'.claimed = run.claimed /\ run'.committed = run.committed /\ run'.error = run.error
      /\ run'.path = Vacant
      /\ run'.does = "none"
  BY <1>1, <1>2 DEF MirrorRec, MirrorOps, MirrorStages, Discard, Untouched, Visited, Then, Stage, Path, AtPath,
     Aside, Behind, FileOrNone, Renamed
<1>5. /\ claims' \in [1..MaxRuns -> [Paths -> FileOrNone]]
      /\ \A i \in 1..MaxRuns : \A q \in Paths : claims'[i][q] =
           (IF i = run.no /\ q = run.path THEN Vacant ELSE claims[i][q])
      /\ \A i \in 1..MaxRuns : i # run.no => claims'[i] = claims[i]
      /\ UNCHANGED <<there, current, journals, made, touches>>
      /\ ended' = ended \cup {run.backup[run.path]}
  BY <1>1, <1>2 DEF Discard, Untouched, Visited, Then, Stage, Path, AtPath, Aside, Behind, FileOrNone, Renamed,
     MirrorTyped
<1>6. MirrorTyped'
  BY <1>1, <1>2, <1>4, <1>5 DEF MirrorTyped
<1>7. FilesKnown'
  BY <1>1, <1>2, <1>4, <1>5, <1>3 DEF PathInv, FilesKnown, AllEmpty
<1>8. StageKept'
  BY <1>1, <1>2, <1>4, <1>5 DEF StageKept, Publishing, Obsolete
<1>9. HereKept'
  BY <1>1, <1>2, <1>4, <1>5 DEF HereKept, Obsolete
<1>10. CommitKept'
  BY <1>1, <1>2, <1>4, <1>5 DEF CommitKept, HereKept, StageKept, Obsolete
<1>11. CleanupKept'
  BY <1>1, <1>2, <1>4, <1>5 DEF CleanupKept, Renamed, Here
<1>12. NothingVanishes'
  <2> SUFFICES ASSUME NEW f \in made' \ ended' PROVE OnDisk(f)'
    BY DEF NothingVanishes
  <2>1. f \in made \ ended /\ OnDisk(f)
    BY <1>1, <1>2, <1>5 DEF NothingVanishes
  <2>2. f # Vacant
    BY <1>1, <1>2, <1>5, Absent DEF MirrorTyped
  <2> QED BY <1>2, <1>3, <1>5, <2>1, <2>2 DEF OnDisk, PathInv, PublishKept, RollbackKept, Publishing,
             RollingBack, ToCome, Doing, FileOrNone
<1>13. UndoneMeansBefore'
  BY <1>1, <1>2, <1>4, <1>5, <1>3 DEF PathInv, UndoneMeansBefore, New, Written, Renamed
<1>14. CommittedMeansWhole'
  BY <1>1, <1>2, <1>4, <1>5 DEF CommittedMeansWhole, New, Written, Obsolete
<1>15. LeftoversAnnounced'
  BY <1>1, <1>2, <1>4, <1>5, <1>3 DEF PathInv, LeftoversAnnounced, Renamed
<1>16. ASSUME NEW q \in Paths PROVE PathInv(q)'
  <2>1. JournalKept(q)'
    BY <1>1, <1>2, <1>4, <1>5, <1>3 DEF PathInv, JournalKept, New, Written
  <2>2. PublishKept(q)'
    BY <1>1, <1>2, <1>4, <1>5, <1>3 DEF PathInv, PublishKept, New, Written, ToCome, Doing, Gone, Publishing
  <2>3. ReachedKept(q)'
    BY <1>1, <1>2, <1>4, <1>5, <1>3 DEF PathInv, ReachedKept, New, Written, Here, Gone, Whole, Publishing, Obsolete
  <2>4. AwayKept(q)'
    <3>1. CASE q = run.path
      BY <1>1, <1>2, <1>3, <1>4, <1>5, <3>1 DEF PathInv, AwayKept, Renamed
    <3>2. CASE q # run.path
      BY <1>1, <1>2, <1>3, <1>4, <1>5, <3>2 DEF PathInv, AwayKept, Renamed
    <3> QED BY <3>1, <3>2
  <2>5. RollbackKept(q)'
    BY <1>1, <1>2, <1>4, <1>5, <1>3 DEF PathInv, RollbackKept, New, Written, Doing, RollingBack
  <2>6. UndoneKept(q)'
    BY <1>1, <1>2, <1>4, <1>5, <1>3 DEF PathInv, UndoneKept, New, Written, Doing, RollingBack, Here, Restored, Renamed
  <2> QED BY <2>1, <2>2, <2>3, <2>4, <2>5, <2>6 DEF PathInv
<1> QED BY <1>6, <1>7, <1>8, <1>9, <1>10, <1>11, <1>12, <1>13, <1>14, <1>15, <1>16 DEF MirrorInv, MirrorHonest

\* All wanted files are in place.
LEMMA FilesDoneKept ==
  ASSUME MirrorInv, run.pc = "files", run.does = "none", run.left = {}, run' = Stage("obsolete", Obsolete),
         UNCHANGED <<there, claims, current, journals, made, ended>>, Untouched PROVE MirrorInv'
<1>1. /\ MirrorTyped /\ FilesKnown /\ StageKept /\ HereKept /\ CommitKept /\ CleanupKept
      /\ NothingVanishes /\ UndoneMeansBefore /\ CommittedMeansWhole /\ LeftoversAnnounced
      /\ run \in MirrorRec /\ MaxRuns \in Nat /\ (run.no > 0 => \A x \in Paths : PathInv(x))
      /\ M \in Paths \ Wanted
  BY Named
<1>2. /\ run.pc = "files"
      /\ run.does = "none"
      /\ run.left = {}
      /\ run.no \in 1..MaxRuns
      /\ Obsolete \subseteq Paths
  BY <1>1 DEF MirrorTyped, MirrorRec, Obsolete
<1>3. \A x \in Paths : PathInv(x)
  BY <1>1, <1>2
<1>4. /\ run' \in MirrorRec
      /\ run'.no = run.no /\ run'.prior = run.prior /\ run'.backup = run.backup
      /\ run'.published = run.published /\ run'.pending = run.pending /\ run'.claimed = run.claimed
      /\ run'.committed = run.committed /\ run'.error = run.error
      /\ run'.pc = "obsolete"
      /\ run'.left = Obsolete
      /\ run'.path = Vacant
      /\ run'.does = "none"
  BY <1>1, <1>2 DEF MirrorRec, MirrorOps, MirrorStages, Untouched, Stage, Broken
<1>5. /\ UNCHANGED <<there, claims, current, journals, made, ended, touches>>
  BY <1>1, <1>2 DEF Untouched, Stage, Broken
<1>6. MirrorTyped'
  BY <1>1, <1>2, <1>4, <1>5 DEF MirrorTyped
<1>7. FilesKnown'
  BY <1>1, <1>2, <1>4, <1>5, <1>3 DEF PathInv, FilesKnown, AllEmpty
<1>8. StageKept'
  BY <1>1, <1>2, <1>4, <1>5 DEF StageKept, Publishing, Obsolete
<1>9. HereKept'
  BY <1>1, <1>2, <1>4, <1>5 DEF HereKept, Obsolete
<1>10. CommitKept'
  BY <1>1, <1>2, <1>4, <1>5 DEF CommitKept, HereKept, StageKept, Obsolete
<1>11. CleanupKept'
  BY <1>1, <1>2, <1>4, <1>5 DEF CleanupKept, Renamed, Here
<1>12. NothingVanishes'
  BY <1>1, <1>5, NothingMoved
<1>13. UndoneMeansBefore'
  BY <1>1, <1>2, <1>4, <1>5, <1>3 DEF PathInv, UndoneMeansBefore, New, Written, Renamed
<1>14. CommittedMeansWhole'
  BY <1>1, <1>2, <1>4, <1>5, ZenonT(40) DEF CommittedMeansWhole, New, Written, Obsolete
<1>15. LeftoversAnnounced'
  BY <1>1, <1>2, <1>4, <1>5, <1>3 DEF PathInv, LeftoversAnnounced, Renamed
<1>16. ASSUME NEW q \in Paths PROVE PathInv(q)'
  <2>1. JournalKept(q)'
    BY <1>1, <1>2, <1>4, <1>5, <1>3 DEF PathInv, JournalKept, New, Written
  <2>2. PublishKept(q)'
    BY <1>1, <1>2, <1>4, <1>5, <1>3, SMTT(30) DEF PathInv, PublishKept, New, Written, ToCome, Doing, Gone, Publishing, Obsolete
  <2>3. ReachedKept(q)'
    BY <1>1, <1>2, <1>4, <1>5, <1>3 DEF PathInv, ReachedKept, New, Written, Here, Gone, Whole, Publishing, Obsolete
  <2>4. AwayKept(q)'
    BY <1>1, <1>2, <1>4, <1>5, <1>3 DEF PathInv, AwayKept, Renamed
  <2>5. RollbackKept(q)'
    BY <1>1, <1>2, <1>4, <1>5, <1>3 DEF PathInv, RollbackKept, New, Written, Doing, RollingBack
  <2>6. UndoneKept(q)'
    BY <1>1, <1>2, <1>4, <1>5, <1>3 DEF PathInv, UndoneKept, New, Written, Doing, RollingBack, Here, Restored, Renamed
  <2> QED BY <2>1, <2>2, <2>3, <2>4, <2>5, <2>6 DEF PathInv
<1> QED BY <1>6, <1>7, <1>8, <1>9, <1>10, <1>11, <1>12, <1>13, <1>14, <1>15, <1>16 DEF MirrorInv, MirrorHonest

\* All obsolete files are away.
LEMMA ObsoleteDoneKept ==
  ASSUME MirrorInv, run.pc = "obsolete", run.does = "none", run.left = {}, run' = Stage("list", {}),
         UNCHANGED <<there, claims, current, journals, made, ended>>, Untouched PROVE MirrorInv'
<1>1. /\ MirrorTyped /\ FilesKnown /\ StageKept /\ HereKept /\ CommitKept /\ CleanupKept
      /\ NothingVanishes /\ UndoneMeansBefore /\ CommittedMeansWhole /\ LeftoversAnnounced
      /\ run \in MirrorRec /\ MaxRuns \in Nat /\ (run.no > 0 => \A x \in Paths : PathInv(x))
      /\ M \in Paths \ Wanted
  BY Named
<1>2. /\ run.pc = "obsolete"
      /\ run.does = "none"
      /\ run.left = {}
      /\ run.no \in 1..MaxRuns
  BY <1>1 DEF MirrorTyped
<1>3. \A x \in Paths : PathInv(x)
  BY <1>1, <1>2
<1>4. /\ run' \in MirrorRec
      /\ run'.no = run.no /\ run'.prior = run.prior /\ run'.backup = run.backup
      /\ run'.published = run.published /\ run'.pending = run.pending /\ run'.claimed = run.claimed
      /\ run'.committed = run.committed /\ run'.error = run.error
      /\ run'.pc = "list"
      /\ run'.left = {}
      /\ run'.path = Vacant
      /\ run'.does = "none"
  BY <1>1, <1>2 DEF MirrorRec, MirrorOps, MirrorStages, Untouched, Stage, Broken
<1>5. /\ UNCHANGED <<there, claims, current, journals, made, ended, touches>>
  BY <1>1, <1>2 DEF Untouched, Stage, Broken
<1>6. MirrorTyped'
  BY <1>1, <1>2, <1>4, <1>5 DEF MirrorTyped
<1>7. FilesKnown'
  BY <1>1, <1>2, <1>4, <1>5, <1>3 DEF PathInv, FilesKnown, AllEmpty
<1>8. StageKept'
  BY <1>1, <1>2, <1>4, <1>5 DEF StageKept, Publishing, Obsolete
<1>9. HereKept'
  BY <1>1, <1>2, <1>4, <1>5 DEF HereKept, Obsolete
<1>10. CommitKept'
  BY <1>1, <1>2, <1>4, <1>5 DEF CommitKept, HereKept, StageKept, Obsolete
<1>11. CleanupKept'
  BY <1>1, <1>2, <1>4, <1>5 DEF CleanupKept, Renamed, Here
<1>12. NothingVanishes'
  BY <1>1, <1>5, NothingMoved
<1>13. UndoneMeansBefore'
  BY <1>1, <1>2, <1>4, <1>5, <1>3 DEF PathInv, UndoneMeansBefore, New, Written, Renamed
<1>14. CommittedMeansWhole'
  BY <1>1, <1>2, <1>4, <1>5 DEF CommittedMeansWhole, New, Written, Obsolete
<1>15. LeftoversAnnounced'
  BY <1>1, <1>2, <1>4, <1>5, <1>3 DEF PathInv, LeftoversAnnounced, Renamed
<1>16. ASSUME NEW q \in Paths PROVE PathInv(q)'
  <2>1. JournalKept(q)'
    BY <1>1, <1>2, <1>4, <1>5, <1>3 DEF PathInv, JournalKept, New, Written
  <2>2. PublishKept(q)'
    BY <1>1, <1>2, <1>4, <1>5, <1>3 DEF PathInv, PublishKept, New, Written, ToCome, Doing, Gone, Publishing
  <2>3. ReachedKept(q)'
    BY <1>1, <1>2, <1>4, <1>5, <1>3 DEF PathInv, ReachedKept, New, Written, Here, Gone, Whole, Publishing, Obsolete
  <2>4. AwayKept(q)'
    BY <1>1, <1>2, <1>4, <1>5, <1>3 DEF PathInv, AwayKept, Renamed
  <2>5. RollbackKept(q)'
    BY <1>1, <1>2, <1>4, <1>5, <1>3 DEF PathInv, RollbackKept, New, Written, Doing, RollingBack
  <2>6. UndoneKept(q)'
    BY <1>1, <1>2, <1>4, <1>5, <1>3 DEF PathInv, UndoneKept, New, Written, Doing, RollingBack, Here, Restored, Renamed
  <2> QED BY <2>1, <2>2, <2>3, <2>4, <2>5, <2>6 DEF PathInv
<1> QED BY <1>6, <1>7, <1>8, <1>9, <1>10, <1>11, <1>12, <1>13, <1>14, <1>15, <1>16 DEF MirrorInv, MirrorHonest

\* The manifest is in place.
LEMMA ManifestDoneKept ==
  ASSUME MirrorInv, run.pc = "manifest", run.does = "none", run.left = {}, run' = Stage("relist", {}),
         UNCHANGED <<there, claims, current, journals, made, ended>>, Untouched PROVE MirrorInv'
<1>1. /\ MirrorTyped /\ FilesKnown /\ StageKept /\ HereKept /\ CommitKept /\ CleanupKept
      /\ NothingVanishes /\ UndoneMeansBefore /\ CommittedMeansWhole /\ LeftoversAnnounced
      /\ run \in MirrorRec /\ MaxRuns \in Nat /\ (run.no > 0 => \A x \in Paths : PathInv(x))
      /\ M \in Paths \ Wanted
  BY Named
<1>2. /\ run.pc = "manifest"
      /\ run.does = "none"
      /\ run.left = {}
      /\ run.no \in 1..MaxRuns
      /\ run.committed
  BY <1>1 DEF MirrorTyped, CommitKept
<1>3. \A x \in Paths : PathInv(x)
  BY <1>1, <1>2
<1>4. /\ run' \in MirrorRec
      /\ run'.no = run.no /\ run'.prior = run.prior /\ run'.backup = run.backup
      /\ run'.published = run.published /\ run'.pending = run.pending /\ run'.claimed = run.claimed
      /\ run'.committed = run.committed /\ run'.error = run.error
      /\ run'.pc = "relist"
      /\ run'.left = {}
      /\ run'.path = Vacant
      /\ run'.does = "none"
  BY <1>1, <1>2 DEF MirrorRec, MirrorOps, MirrorStages, Untouched, Stage, Broken
<1>5. /\ UNCHANGED <<there, claims, current, journals, made, ended, touches>>
  BY <1>1, <1>2 DEF Untouched, Stage, Broken
<1>6. MirrorTyped'
  BY <1>1, <1>2, <1>4, <1>5 DEF MirrorTyped
<1>7. FilesKnown'
  BY <1>1, <1>2, <1>4, <1>5, <1>3 DEF PathInv, FilesKnown, AllEmpty
<1>8. StageKept'
  BY <1>1, <1>2, <1>4, <1>5 DEF StageKept, Publishing, Obsolete
<1>9. HereKept'
  BY <1>1, <1>2, <1>4, <1>5 DEF HereKept, Obsolete
<1>10. CommitKept'
  BY <1>1, <1>2, <1>4, <1>5 DEF CommitKept, HereKept, StageKept, Obsolete
<1>11. CleanupKept'
  BY <1>1, <1>2, <1>4, <1>5 DEF CleanupKept, Renamed, Here
<1>12. NothingVanishes'
  BY <1>1, <1>5, NothingMoved
<1>13. UndoneMeansBefore'
  BY <1>1, <1>2, <1>4, <1>5, <1>3 DEF PathInv, UndoneMeansBefore, New, Written, Renamed
<1>14. CommittedMeansWhole'
  BY <1>1, <1>2, <1>4, <1>5 DEF CommittedMeansWhole, New, Written, Obsolete
<1>15. LeftoversAnnounced'
  BY <1>1, <1>2, <1>4, <1>5, <1>3 DEF PathInv, LeftoversAnnounced, Renamed
<1>16. ASSUME NEW q \in Paths PROVE PathInv(q)'
  <2>1. JournalKept(q)'
    BY <1>1, <1>2, <1>4, <1>5, <1>3 DEF PathInv, JournalKept, New, Written
  <2>2. PublishKept(q)'
    BY <1>1, <1>2, <1>4, <1>5, <1>3 DEF PathInv, PublishKept, New, Written, ToCome, Doing, Gone, Publishing
  <2>3. ReachedKept(q)'
    BY <1>1, <1>2, <1>4, <1>5, <1>3 DEF PathInv, ReachedKept, New, Written, Here, Gone, Whole, Publishing, Obsolete
  <2>4. AwayKept(q)'
    BY <1>1, <1>2, <1>4, <1>5, <1>3 DEF PathInv, AwayKept, Renamed
  <2>5. RollbackKept(q)'
    BY <1>1, <1>2, <1>4, <1>5, <1>3 DEF PathInv, RollbackKept, New, Written, Doing, RollingBack
  <2>6. UndoneKept(q)'
    BY <1>1, <1>2, <1>4, <1>5, <1>3 DEF PathInv, UndoneKept, New, Written, Doing, RollingBack, Here, Restored, Renamed
  <2> QED BY <2>1, <2>2, <2>3, <2>4, <2>5, <2>6 DEF PathInv
<1> QED BY <1>6, <1>7, <1>8, <1>9, <1>10, <1>11, <1>12, <1>13, <1>14, <1>15, <1>16 DEF MirrorInv, MirrorHonest

\* All claims are discarded.
LEMMA DiscardDoneKept ==
  ASSUME MirrorInv, run.pc = "discard", run.does = "none", run.left = {}, run' = Stage("unlist", {}),
         UNCHANGED <<there, claims, current, journals, made, ended>>, Untouched PROVE MirrorInv'
<1>1. /\ MirrorTyped /\ FilesKnown /\ StageKept /\ HereKept /\ CommitKept /\ CleanupKept
      /\ NothingVanishes /\ UndoneMeansBefore /\ CommittedMeansWhole /\ LeftoversAnnounced
      /\ run \in MirrorRec /\ MaxRuns \in Nat /\ (run.no > 0 => \A x \in Paths : PathInv(x))
      /\ M \in Paths \ Wanted
  BY Named
<1>2. /\ run.pc = "discard"
      /\ run.does = "none"
      /\ run.left = {}
      /\ run.no \in 1..MaxRuns
      /\ run.committed
  BY <1>1 DEF MirrorTyped, CommitKept
<1>3. \A x \in Paths : PathInv(x)
  BY <1>1, <1>2
<1>4. /\ run' \in MirrorRec
      /\ run'.no = run.no /\ run'.prior = run.prior /\ run'.backup = run.backup
      /\ run'.published = run.published /\ run'.pending = run.pending /\ run'.claimed = run.claimed
      /\ run'.committed = run.committed /\ run'.error = run.error
      /\ run'.pc = "unlist"
      /\ run'.left = {}
      /\ run'.path = Vacant
      /\ run'.does = "none"
  BY <1>1, <1>2 DEF MirrorRec, MirrorOps, MirrorStages, Untouched, Stage, Broken
<1>5. /\ UNCHANGED <<there, claims, current, journals, made, ended, touches>>
  BY <1>1, <1>2 DEF Untouched, Stage, Broken
<1>6. MirrorTyped'
  BY <1>1, <1>2, <1>4, <1>5 DEF MirrorTyped
<1>7. FilesKnown'
  BY <1>1, <1>2, <1>4, <1>5, <1>3 DEF PathInv, FilesKnown, AllEmpty
<1>8. StageKept'
  BY <1>1, <1>2, <1>4, <1>5 DEF StageKept, Publishing, Obsolete
<1>9. HereKept'
  BY <1>1, <1>2, <1>4, <1>5 DEF HereKept, Obsolete
<1>10. CommitKept'
  BY <1>1, <1>2, <1>4, <1>5 DEF CommitKept, HereKept, StageKept, Obsolete
<1>11. CleanupKept'
  BY <1>1, <1>2, <1>4, <1>5 DEF CleanupKept, Renamed, Here
<1>12. NothingVanishes'
  BY <1>1, <1>5, NothingMoved
<1>13. UndoneMeansBefore'
  BY <1>1, <1>2, <1>4, <1>5, <1>3 DEF PathInv, UndoneMeansBefore, New, Written, Renamed
<1>14. CommittedMeansWhole'
  BY <1>1, <1>2, <1>4, <1>5 DEF CommittedMeansWhole, New, Written, Obsolete
<1>15. LeftoversAnnounced'
  BY <1>1, <1>2, <1>4, <1>5, <1>3 DEF PathInv, LeftoversAnnounced, Renamed
<1>16. ASSUME NEW q \in Paths PROVE PathInv(q)'
  <2>1. JournalKept(q)'
    BY <1>1, <1>2, <1>4, <1>5, <1>3 DEF PathInv, JournalKept, New, Written
  <2>2. PublishKept(q)'
    BY <1>1, <1>2, <1>4, <1>5, <1>3 DEF PathInv, PublishKept, New, Written, ToCome, Doing, Gone, Publishing
  <2>3. ReachedKept(q)'
    BY <1>1, <1>2, <1>4, <1>5, <1>3 DEF PathInv, ReachedKept, New, Written, Here, Gone, Whole, Publishing, Obsolete
  <2>4. AwayKept(q)'
    BY <1>1, <1>2, <1>4, <1>5, <1>3 DEF PathInv, AwayKept, Renamed
  <2>5. RollbackKept(q)'
    BY <1>1, <1>2, <1>4, <1>5, <1>3 DEF PathInv, RollbackKept, New, Written, Doing, RollingBack
  <2>6. UndoneKept(q)'
    BY <1>1, <1>2, <1>4, <1>5, <1>3 DEF PathInv, UndoneKept, New, Written, Doing, RollingBack, Here, Restored, Renamed
  <2> QED BY <2>1, <2>2, <2>3, <2>4, <2>5, <2>6 DEF PathInv
<1> QED BY <1>6, <1>7, <1>8, <1>9, <1>10, <1>11, <1>12, <1>13, <1>14, <1>15, <1>16 DEF MirrorInv, MirrorHonest

\* All new files are taken out again.
LEMMA RetractDoneKept ==
  ASSUME MirrorInv, run.pc = "retract", run.does = "none", run.left = {}, run' = Stage("unpublish", {}),
         UNCHANGED <<there, claims, current, journals, made, ended>>, Untouched PROVE MirrorInv'
<1>1. /\ MirrorTyped /\ FilesKnown /\ StageKept /\ HereKept /\ CommitKept /\ CleanupKept
      /\ NothingVanishes /\ UndoneMeansBefore /\ CommittedMeansWhole /\ LeftoversAnnounced
      /\ run \in MirrorRec /\ MaxRuns \in Nat /\ (run.no > 0 => \A x \in Paths : PathInv(x))
      /\ M \in Paths \ Wanted
  BY Named
<1>2. /\ run.pc = "retract"
      /\ run.does = "none"
      /\ run.left = {}
      /\ run.no \in 1..MaxRuns
  BY <1>1 DEF MirrorTyped
<1>3. \A x \in Paths : PathInv(x)
  BY <1>1, <1>2
<1>4. /\ run' \in MirrorRec
      /\ run'.no = run.no /\ run'.prior = run.prior /\ run'.backup = run.backup
      /\ run'.published = run.published /\ run'.pending = run.pending /\ run'.claimed = run.claimed
      /\ run'.committed = run.committed /\ run'.error = run.error
      /\ run'.pc = "unpublish"
      /\ run'.left = {}
      /\ run'.path = Vacant
      /\ run'.does = "none"
  BY <1>1, <1>2 DEF MirrorRec, MirrorOps, MirrorStages, Untouched, Stage, Broken
<1>5. /\ UNCHANGED <<there, claims, current, journals, made, ended, touches>>
  BY <1>1, <1>2 DEF Untouched, Stage, Broken
<1>6. MirrorTyped'
  BY <1>1, <1>2, <1>4, <1>5 DEF MirrorTyped
<1>7. FilesKnown'
  BY <1>1, <1>2, <1>4, <1>5, <1>3 DEF PathInv, FilesKnown, AllEmpty
<1>8. StageKept'
  BY <1>1, <1>2, <1>4, <1>5 DEF StageKept, Publishing, Obsolete
<1>9. HereKept'
  BY <1>1, <1>2, <1>4, <1>5 DEF HereKept, Obsolete
<1>10. CommitKept'
  BY <1>1, <1>2, <1>4, <1>5 DEF CommitKept, HereKept, StageKept, Obsolete
<1>11. CleanupKept'
  BY <1>1, <1>2, <1>4, <1>5 DEF CleanupKept, Renamed, Here
<1>12. NothingVanishes'
  BY <1>1, <1>5, NothingMoved
<1>13. UndoneMeansBefore'
  BY <1>1, <1>2, <1>4, <1>5, <1>3 DEF PathInv, UndoneMeansBefore, New, Written, Renamed
<1>14. CommittedMeansWhole'
  BY <1>1, <1>2, <1>4, <1>5 DEF CommittedMeansWhole, New, Written, Obsolete
<1>15. LeftoversAnnounced'
  BY <1>1, <1>2, <1>4, <1>5, <1>3 DEF PathInv, LeftoversAnnounced, Renamed
<1>16. ASSUME NEW q \in Paths PROVE PathInv(q)'
  <2>1. JournalKept(q)'
    BY <1>1, <1>2, <1>4, <1>5, <1>3 DEF PathInv, JournalKept, New, Written
  <2>2. PublishKept(q)'
    BY <1>1, <1>2, <1>4, <1>5, <1>3 DEF PathInv, PublishKept, New, Written, ToCome, Doing, Gone, Publishing
  <2>3. ReachedKept(q)'
    BY <1>1, <1>2, <1>4, <1>5, <1>3 DEF PathInv, ReachedKept, New, Written, Here, Gone, Whole, Publishing, Obsolete
  <2>4. AwayKept(q)'
    BY <1>1, <1>2, <1>4, <1>5, <1>3 DEF PathInv, AwayKept, Renamed
  <2>5. RollbackKept(q)'
    BY <1>1, <1>2, <1>4, <1>5, <1>3 DEF PathInv, RollbackKept, New, Written, Doing, RollingBack
  <2>6. UndoneKept(q)'
    BY <1>1, <1>2, <1>4, <1>5, <1>3 DEF PathInv, UndoneKept, New, Written, Doing, RollingBack, Here, Restored, Renamed
  <2> QED BY <2>1, <2>2, <2>3, <2>4, <2>5, <2>6 DEF PathInv
<1> QED BY <1>6, <1>7, <1>8, <1>9, <1>10, <1>11, <1>12, <1>13, <1>14, <1>15, <1>16 DEF MirrorInv, MirrorHonest

\* All prior paths are visited: an undone run without an error has left things as they were.
LEMMA RestoreDoneKept ==
  ASSUME MirrorInv, run.pc = "restore", run.does = "none", run.left = {}, run' = Stage("off", {}),
         UNCHANGED <<there, claims, current, journals, made, ended>>, Untouched PROVE MirrorInv'
<1>1. /\ MirrorTyped /\ FilesKnown /\ StageKept /\ HereKept /\ CommitKept /\ CleanupKept
      /\ NothingVanishes /\ UndoneMeansBefore /\ CommittedMeansWhole /\ LeftoversAnnounced
      /\ run \in MirrorRec /\ MaxRuns \in Nat /\ (run.no > 0 => \A x \in Paths : PathInv(x))
      /\ M \in Paths \ Wanted
  BY Named
<1>2. /\ run.pc = "restore"
      /\ run.does = "none"
      /\ run.left = {}
      /\ run.no \in 1..MaxRuns
      /\ ~run.committed
  BY <1>1 DEF MirrorTyped, CommitKept
<1>3. \A x \in Paths : PathInv(x)
  BY <1>1, <1>2
<1>4. /\ run' \in MirrorRec
      /\ run'.no = run.no /\ run'.prior = run.prior /\ run'.backup = run.backup
      /\ run'.published = run.published /\ run'.pending = run.pending /\ run'.claimed = run.claimed
      /\ run'.committed = run.committed /\ run'.error = run.error
      /\ run'.pc = "off"
      /\ run'.left = {}
      /\ run'.path = Vacant
      /\ run'.does = "none"
  BY <1>1, <1>2 DEF MirrorRec, MirrorOps, MirrorStages, Untouched, Stage, Broken
<1>5. /\ UNCHANGED <<there, claims, current, journals, made, ended, touches>>
  BY <1>1, <1>2 DEF Untouched, Stage, Broken
<1>6. MirrorTyped'
  BY <1>1, <1>2, <1>4, <1>5 DEF MirrorTyped
<1>7. FilesKnown'
  BY <1>1, <1>2, <1>4, <1>5, <1>3 DEF PathInv, FilesKnown, AllEmpty
<1>8. StageKept'
  BY <1>1, <1>2, <1>4, <1>5 DEF StageKept, Publishing, Obsolete
<1>9. HereKept'
  BY <1>1, <1>2, <1>4, <1>5 DEF HereKept, Obsolete
<1>10. CommitKept'
  BY <1>1, <1>2, <1>4, <1>5 DEF CommitKept, HereKept, StageKept, Obsolete
<1>11. CleanupKept'
  BY <1>1, <1>2, <1>4, <1>5 DEF CleanupKept, Renamed, Here
<1>12. NothingVanishes'
  BY <1>1, <1>5, NothingMoved
<1>13. UndoneMeansBefore'
  <2>1. ~run.error => run.no \notin journals
    BY <1>1, <1>2, <1>3 DEF PathInv, UndoneKept, RollingBack
  <2>2. ~run.error => \A p \in Paths : there[p] # New(p)
    BY <1>2, <1>3 DEF PathInv, UndoneKept, RollingBack, Doing
  <2>3. ~run.error => \A p \in Paths : run.backup[p] # Vacant => Restored(p)
    BY <1>2, <1>3 DEF PathInv, UndoneKept, RollingBack, Here
  <2> QED BY <1>2, <1>4, <1>5, <2>1, <2>2, <2>3 DEF UndoneMeansBefore, New, Written, Renamed, Restored
<1>14. CommittedMeansWhole'
  BY <1>1, <1>2, <1>4, <1>5 DEF CommittedMeansWhole, New, Written, Obsolete
<1>15. LeftoversAnnounced'
  BY <1>1, <1>2, <1>4, <1>5, <1>3 DEF PathInv, LeftoversAnnounced, Renamed
<1>16. ASSUME NEW q \in Paths PROVE PathInv(q)'
  <2>1. JournalKept(q)'
    BY <1>1, <1>2, <1>4, <1>5, <1>3 DEF PathInv, JournalKept, New, Written
  <2>2. PublishKept(q)'
    BY <1>1, <1>2, <1>4, <1>5, <1>3 DEF PathInv, PublishKept, New, Written, ToCome, Doing, Gone, Publishing
  <2>3. ReachedKept(q)'
    BY <1>1, <1>2, <1>4, <1>5, <1>3 DEF PathInv, ReachedKept, New, Written, Here, Gone, Whole, Publishing, Obsolete
  <2>4. AwayKept(q)'
    BY <1>1, <1>2, <1>4, <1>5, <1>3 DEF PathInv, AwayKept, Renamed
  <2>5. RollbackKept(q)'
    BY <1>1, <1>2, <1>4, <1>5, <1>3 DEF PathInv, RollbackKept, New, Written, Doing, RollingBack
  <2>6. UndoneKept(q)'
    BY <1>1, <1>2, <1>4, <1>5, <1>3 DEF PathInv, UndoneKept, New, Written, Doing, RollingBack, Here, Restored, Renamed
  <2> QED BY <2>1, <2>2, <2>3, <2>4, <2>5, <2>6 DEF PathInv
<1> QED BY <1>6, <1>7, <1>8, <1>9, <1>10, <1>11, <1>12, <1>13, <1>14, <1>15, <1>16 DEF MirrorInv, MirrorHonest

\* The run ends with an error, or is killed.
LEMMA OffKept ==
  ASSUME MirrorInv, run.pc # "off", run' = Broken(Stage("off", {})),
         UNCHANGED <<there, claims, current, journals, made, ended>>, Untouched PROVE MirrorInv'
<1>1. /\ MirrorTyped /\ FilesKnown /\ StageKept /\ HereKept /\ CommitKept /\ CleanupKept
      /\ NothingVanishes /\ UndoneMeansBefore /\ CommittedMeansWhole /\ LeftoversAnnounced
      /\ run \in MirrorRec /\ MaxRuns \in Nat /\ (run.no > 0 => \A x \in Paths : PathInv(x))
      /\ M \in Paths \ Wanted
  BY Named
<1>2. /\ run.no \in 1..MaxRuns
  BY <1>1 DEF MirrorTyped
<1>3. \A x \in Paths : PathInv(x)
  BY <1>1, <1>2
<1>4. /\ run' \in MirrorRec
      /\ run'.no = run.no /\ run'.prior = run.prior /\ run'.backup = run.backup
      /\ run'.published = run.published /\ run'.pending = run.pending /\ run'.claimed = run.claimed
      /\ run'.committed = run.committed
      /\ run'.pc = "off"
      /\ run'.left = {}
      /\ run'.path = Vacant
      /\ run'.does = "none"
      /\ run'.error = TRUE
  BY <1>1, <1>2 DEF MirrorRec, MirrorOps, MirrorStages, Untouched, Stage, Broken
<1>5. /\ UNCHANGED <<there, claims, current, journals, made, ended, touches>>
  BY <1>1, <1>2 DEF Untouched, Stage, Broken
<1>6. MirrorTyped'
  BY <1>1, <1>2, <1>4, <1>5 DEF MirrorTyped
<1>7. FilesKnown'
  BY <1>1, <1>2, <1>4, <1>5, <1>3 DEF PathInv, FilesKnown, AllEmpty
<1>8. StageKept'
  BY <1>1, <1>2, <1>4, <1>5 DEF StageKept, Publishing, Obsolete
<1>9. HereKept'
  BY <1>1, <1>2, <1>4, <1>5 DEF HereKept, Obsolete
<1>10. CommitKept'
  BY <1>1, <1>2, <1>4, <1>5 DEF CommitKept, HereKept, StageKept, Obsolete
<1>11. CleanupKept'
  BY <1>1, <1>2, <1>4, <1>5 DEF CleanupKept, Renamed, Here
<1>12. NothingVanishes'
  BY <1>1, <1>5, NothingMoved
<1>13. UndoneMeansBefore'
  BY <1>1, <1>2, <1>4, <1>5, <1>3 DEF PathInv, UndoneMeansBefore, New, Written, Renamed
<1>14. CommittedMeansWhole'
  BY <1>1, <1>2, <1>4, <1>5 DEF CommittedMeansWhole, New, Written, Obsolete
<1>15. LeftoversAnnounced'
  BY <1>1, <1>2, <1>4, <1>5, <1>3 DEF PathInv, LeftoversAnnounced, Renamed
<1>16. ASSUME NEW q \in Paths PROVE PathInv(q)'
  <2>1. JournalKept(q)'
    BY <1>1, <1>2, <1>4, <1>5, <1>3 DEF PathInv, JournalKept, New, Written
  <2>2. PublishKept(q)'
    BY <1>1, <1>2, <1>4, <1>5, <1>3 DEF PathInv, PublishKept, New, Written, ToCome, Doing, Gone, Publishing
  <2>3. ReachedKept(q)'
    BY <1>1, <1>2, <1>4, <1>5, <1>3 DEF PathInv, ReachedKept, New, Written, Here, Gone, Whole, Publishing, Obsolete
  <2>4. AwayKept(q)'
    BY <1>1, <1>2, <1>4, <1>5, <1>3 DEF PathInv, AwayKept, Renamed
  <2>5. RollbackKept(q)'
    BY <1>1, <1>2, <1>4, <1>5, <1>3 DEF PathInv, RollbackKept, New, Written, Doing, RollingBack
  <2>6. UndoneKept(q)'
    BY <1>1, <1>2, <1>4, <1>5, <1>3 DEF PathInv, UndoneKept, New, Written, Doing, RollingBack, Here, Restored, Renamed
  <2> QED BY <2>1, <2>2, <2>3, <2>4, <2>5, <2>6 DEF PathInv
<1> QED BY <1>6, <1>7, <1>8, <1>9, <1>10, <1>11, <1>12, <1>13, <1>14, <1>15, <1>16 DEF MirrorInv, MirrorHonest

\* The first cleanup journal is written (_persist_cleanup_journal).
LEMMA FirstListKept ==
  ASSUME MirrorInv, run.pc = "list", ListClaims, Untouched PROVE MirrorInv'
<1>1. /\ MirrorTyped /\ FilesKnown /\ StageKept /\ HereKept /\ CommitKept /\ CleanupKept
      /\ NothingVanishes /\ UndoneMeansBefore /\ CommittedMeansWhole /\ LeftoversAnnounced
      /\ run \in MirrorRec /\ MaxRuns \in Nat /\ (run.no > 0 => \A x \in Paths : PathInv(x))
      /\ M \in Paths \ Wanted
  BY Named
<1>2. /\ run.pc = "list"
      /\ run.does = "none"
      /\ run.left = {}
      /\ run.no \in 1..MaxRuns
      /\ ~run.committed
  BY <1>1 DEF MirrorTyped, StageKept, CommitKept
<1>3. \A x \in Paths : PathInv(x)
  BY <1>1, <1>2
<1>4. /\ run' \in MirrorRec
      /\ run'.no = run.no /\ run'.prior = run.prior /\ run'.backup = run.backup
      /\ run'.published = run.published /\ run'.pending = run.pending /\ run'.claimed = run.claimed
      /\ run'.committed = run.committed /\ run'.error = run.error
      /\ run'.pc = "manifest"
      /\ run'.left = {M}
      /\ run'.path = Vacant
      /\ run'.does = "none"
  BY <1>1, <1>2 DEF MirrorRec, MirrorOps, MirrorStages, ListClaims, Untouched, Stage
<1>5. /\ journals' = journals \cup (IF run.claimed = {} THEN {} ELSE {run.no})
      /\ UNCHANGED <<there, claims, current, made, ended, touches>>
  BY <1>1, <1>2 DEF ListClaims, Untouched, Stage
<1>6. MirrorTyped'
  BY <1>1, <1>2, <1>4, <1>5 DEF MirrorTyped
<1>7. FilesKnown'
  BY <1>1, <1>2, <1>4, <1>5, <1>3 DEF PathInv, FilesKnown, AllEmpty
<1>8. StageKept'
  BY <1>1, <1>2, <1>4, <1>5 DEF StageKept, Publishing, Obsolete
<1>9. HereKept'
  BY <1>1, <1>2, <1>4, <1>5 DEF HereKept, Obsolete
<1>10. CommitKept'
  BY <1>1, <1>2, <1>4, <1>5 DEF CommitKept, HereKept, StageKept, Obsolete
<1>11. CleanupKept'
  BY <1>1, <1>2, <1>4, <1>5 DEF CleanupKept, Renamed, Here
<1>12. NothingVanishes'
  BY <1>1, <1>5, NothingMoved
<1>13. UndoneMeansBefore'
  BY <1>1, <1>2, <1>4, <1>5, <1>3 DEF PathInv, UndoneMeansBefore, New, Written, Renamed
<1>14. CommittedMeansWhole'
  BY <1>1, <1>2, <1>4, <1>5 DEF CommittedMeansWhole, New, Written, Obsolete
<1>15. LeftoversAnnounced'
  BY <1>1, <1>2, <1>4, <1>5, <1>3 DEF PathInv, LeftoversAnnounced, Renamed
<1>16. ASSUME NEW q \in Paths PROVE PathInv(q)'
  <2>1. JournalKept(q)'
    BY <1>1, <1>2, <1>4, <1>5, <1>3 DEF PathInv, JournalKept, New, Written
  <2>2. PublishKept(q)'
    BY <1>1, <1>2, <1>4, <1>5, <1>3 DEF PathInv, PublishKept, New, Written, ToCome, Doing, Gone, Publishing
  <2>3. ReachedKept(q)'
    BY <1>1, <1>2, <1>4, <1>5, <1>3 DEF PathInv, ReachedKept, New, Written, Here, Gone, Whole, Publishing, Obsolete
  <2>4. AwayKept(q)'
    BY <1>1, <1>2, <1>4, <1>5, <1>3 DEF PathInv, AwayKept, Renamed
  <2>5. RollbackKept(q)'
    BY <1>1, <1>2, <1>4, <1>5, <1>3 DEF PathInv, RollbackKept, New, Written, Doing, RollingBack
  <2>6. UndoneKept(q)'
    BY <1>1, <1>2, <1>4, <1>5, <1>3 DEF PathInv, UndoneKept, New, Written, Doing, RollingBack, Here, Restored, Renamed
  <2> QED BY <2>1, <2>2, <2>3, <2>4, <2>5, <2>6 DEF PathInv
<1> QED BY <1>6, <1>7, <1>8, <1>9, <1>10, <1>11, <1>12, <1>13, <1>14, <1>15, <1>16 DEF MirrorInv, MirrorHonest

\* The second cleanup journal is written, and the run is to clean up.
LEMMA LastListKept ==
  ASSUME MirrorInv, run.pc = "relist", ListClaims, Untouched PROVE MirrorInv'
<1>1. /\ MirrorTyped /\ FilesKnown /\ StageKept /\ HereKept /\ CommitKept /\ CleanupKept
      /\ NothingVanishes /\ UndoneMeansBefore /\ CommittedMeansWhole /\ LeftoversAnnounced
      /\ run \in MirrorRec /\ MaxRuns \in Nat /\ (run.no > 0 => \A x \in Paths : PathInv(x))
      /\ M \in Paths \ Wanted
  BY Named
<1>2. /\ run.pc = "relist"
      /\ run.does = "none"
      /\ run.left = {}
      /\ run.no \in 1..MaxRuns
      /\ run.committed
  BY <1>1 DEF MirrorTyped, StageKept, CommitKept
<1>3. \A x \in Paths : PathInv(x)
  BY <1>1, <1>2
<1>4. /\ run' \in MirrorRec
      /\ run'.no = run.no /\ run'.prior = run.prior /\ run'.backup = run.backup
      /\ run'.published = run.published /\ run'.pending = run.pending /\ run'.claimed = run.claimed
      /\ run'.committed = run.committed /\ run'.error = run.error
      /\ run'.pc = "discard"
      /\ run'.left = run.claimed
      /\ run'.path = Vacant
      /\ run'.does = "none"
  BY <1>1, <1>2 DEF MirrorRec, MirrorOps, MirrorStages, ListClaims, Untouched, Stage
<1>5. /\ journals' = journals \cup (IF run.claimed = {} THEN {} ELSE {run.no})
      /\ UNCHANGED <<there, claims, current, made, ended, touches>>
  BY <1>1, <1>2 DEF ListClaims, Untouched, Stage
<1>6. MirrorTyped'
  BY <1>1, <1>2, <1>4, <1>5 DEF MirrorTyped
<1>7. FilesKnown'
  BY <1>1, <1>2, <1>4, <1>5, <1>3 DEF PathInv, FilesKnown, AllEmpty
<1>8. StageKept'
  BY <1>1, <1>2, <1>4, <1>5 DEF StageKept, Publishing, Obsolete
<1>9. HereKept'
  BY <1>1, <1>2, <1>4, <1>5 DEF HereKept, Obsolete
<1>10. CommitKept'
  BY <1>1, <1>2, <1>4, <1>5 DEF CommitKept, HereKept, StageKept, Obsolete
<1>11. CleanupKept'
  BY <1>1, <1>2, <1>4, <1>5 DEF CleanupKept, Renamed, Here
<1>12. NothingVanishes'
  BY <1>1, <1>5, NothingMoved
<1>13. UndoneMeansBefore'
  BY <1>1, <1>2, <1>4, <1>5, <1>3 DEF PathInv, UndoneMeansBefore, New, Written, Renamed
<1>14. CommittedMeansWhole'
  BY <1>1, <1>2, <1>4, <1>5 DEF CommittedMeansWhole, New, Written, Obsolete
<1>15. LeftoversAnnounced'
  BY <1>1, <1>2, <1>4, <1>5, <1>3 DEF PathInv, LeftoversAnnounced, Renamed
<1>16. ASSUME NEW q \in Paths PROVE PathInv(q)'
  <2>1. JournalKept(q)'
    BY <1>1, <1>2, <1>4, <1>5, <1>3 DEF PathInv, JournalKept, New, Written
  <2>2. PublishKept(q)'
    BY <1>1, <1>2, <1>4, <1>5, <1>3 DEF PathInv, PublishKept, New, Written, ToCome, Doing, Gone, Publishing
  <2>3. ReachedKept(q)'
    BY <1>1, <1>2, <1>4, <1>5, <1>3 DEF PathInv, ReachedKept, New, Written, Here, Gone, Whole, Publishing, Obsolete
  <2>4. AwayKept(q)'
    BY <1>1, <1>2, <1>4, <1>5, <1>3 DEF PathInv, AwayKept, Renamed
  <2>5. RollbackKept(q)'
    BY <1>1, <1>2, <1>4, <1>5, <1>3 DEF PathInv, RollbackKept, New, Written, Doing, RollingBack
  <2>6. UndoneKept(q)'
    BY <1>1, <1>2, <1>4, <1>5, <1>3 DEF PathInv, UndoneKept, New, Written, Doing, RollingBack, Here, Restored, Renamed
  <2> QED BY <2>1, <2>2, <2>3, <2>4, <2>5, <2>6 DEF PathInv
<1> QED BY <1>6, <1>7, <1>8, <1>9, <1>10, <1>11, <1>12, <1>13, <1>14, <1>15, <1>16 DEF MirrorInv, MirrorHonest

\* The cleanup journals are unlinked after the cleanup.
LEMMA LastUnlistKept ==
  ASSUME MirrorInv, run.pc = "unlist", Unlist, Untouched PROVE MirrorInv'
<1>1. /\ MirrorTyped /\ FilesKnown /\ StageKept /\ HereKept /\ CommitKept /\ CleanupKept
      /\ NothingVanishes /\ UndoneMeansBefore /\ CommittedMeansWhole /\ LeftoversAnnounced
      /\ run \in MirrorRec /\ MaxRuns \in Nat /\ (run.no > 0 => \A x \in Paths : PathInv(x))
      /\ M \in Paths \ Wanted
  BY Named
<1>2. /\ run.pc = "unlist"
      /\ run.does = "none"
      /\ run.left = {}
      /\ run.no \in 1..MaxRuns
      /\ run.committed
  BY <1>1 DEF MirrorTyped, StageKept, CommitKept
<1>3. \A x \in Paths : PathInv(x)
  BY <1>1, <1>2
<1>4. /\ run' \in MirrorRec
      /\ run'.no = run.no /\ run'.prior = run.prior /\ run'.backup = run.backup
      /\ run'.published = run.published /\ run'.pending = run.pending /\ run'.claimed = run.claimed
      /\ run'.committed = run.committed /\ run'.error = run.error
      /\ run'.pc = "off"
      /\ run'.left = {}
      /\ run'.path = Vacant
      /\ run'.does = "none"
  BY <1>1, <1>2 DEF MirrorRec, MirrorOps, MirrorStages, Unlist, Untouched, Stage
<1>5. /\ journals' = journals \ {run.no}
      /\ UNCHANGED <<there, claims, current, made, ended, touches>>
  BY <1>1, <1>2 DEF Unlist, Untouched, Stage
<1>6. MirrorTyped'
  BY <1>1, <1>2, <1>4, <1>5 DEF MirrorTyped
<1>7. FilesKnown'
  BY <1>1, <1>2, <1>4, <1>5, <1>3 DEF PathInv, FilesKnown, AllEmpty
<1>8. StageKept'
  BY <1>1, <1>2, <1>4, <1>5 DEF StageKept, Publishing, Obsolete
<1>9. HereKept'
  BY <1>1, <1>2, <1>4, <1>5 DEF HereKept, Obsolete
<1>10. CommitKept'
  BY <1>1, <1>2, <1>4, <1>5 DEF CommitKept, HereKept, StageKept, Obsolete
<1>11. CleanupKept'
  BY <1>1, <1>2, <1>4, <1>5 DEF CleanupKept, Renamed, Here
<1>12. NothingVanishes'
  BY <1>1, <1>5, NothingMoved
<1>13. UndoneMeansBefore'
  BY <1>1, <1>2, <1>4, <1>5, <1>3 DEF PathInv, UndoneMeansBefore, New, Written, Renamed
<1>14. CommittedMeansWhole'
  BY <1>1, <1>2, <1>4, <1>5 DEF CommittedMeansWhole, New, Written, Obsolete
<1>15. LeftoversAnnounced'
  BY <1>1, <1>2, <1>4, <1>5, <1>3 DEF PathInv, LeftoversAnnounced, Renamed, CleanupKept
<1>16. ASSUME NEW q \in Paths PROVE PathInv(q)'
  <2>1. JournalKept(q)'
    BY <1>1, <1>2, <1>4, <1>5, <1>3 DEF PathInv, JournalKept, New, Written
  <2>2. PublishKept(q)'
    BY <1>1, <1>2, <1>4, <1>5, <1>3 DEF PathInv, PublishKept, New, Written, ToCome, Doing, Gone, Publishing
  <2>3. ReachedKept(q)'
    BY <1>1, <1>2, <1>4, <1>5, <1>3 DEF PathInv, ReachedKept, New, Written, Here, Gone, Whole, Publishing, Obsolete
  <2>4. AwayKept(q)'
    BY <1>1, <1>2, <1>4, <1>5, <1>3 DEF PathInv, AwayKept, Renamed
  <2>5. RollbackKept(q)'
    BY <1>1, <1>2, <1>4, <1>5, <1>3 DEF PathInv, RollbackKept, New, Written, Doing, RollingBack
  <2>6. UndoneKept(q)'
    BY <1>1, <1>2, <1>4, <1>5, <1>3 DEF PathInv, UndoneKept, New, Written, Doing, RollingBack, Here, Restored, Renamed
  <2> QED BY <2>1, <2>2, <2>3, <2>4, <2>5, <2>6 DEF PathInv
<1> QED BY <1>6, <1>7, <1>8, <1>9, <1>10, <1>11, <1>12, <1>13, <1>14, <1>15, <1>16 DEF MirrorInv, MirrorHonest

\* The rollback takes the cleanup journal out again.
LEMMA FirstUnlistKept ==
  ASSUME MirrorInv, run.pc = "unpublish", Unlist, Untouched PROVE MirrorInv'
<1>1. /\ MirrorTyped /\ FilesKnown /\ StageKept /\ HereKept /\ CommitKept /\ CleanupKept
      /\ NothingVanishes /\ UndoneMeansBefore /\ CommittedMeansWhole /\ LeftoversAnnounced
      /\ run \in MirrorRec /\ MaxRuns \in Nat /\ (run.no > 0 => \A x \in Paths : PathInv(x))
      /\ M \in Paths \ Wanted
  BY Named
<1>2. /\ run.pc = "unpublish"
      /\ run.does = "none"
      /\ run.left = {}
      /\ run.no \in 1..MaxRuns
      /\ ~run.committed
  BY <1>1 DEF MirrorTyped, StageKept, CommitKept
<1>3. \A x \in Paths : PathInv(x)
  BY <1>1, <1>2
<1>4. /\ run' \in MirrorRec
      /\ run'.no = run.no /\ run'.prior = run.prior /\ run'.backup = run.backup
      /\ run'.published = run.published /\ run'.pending = run.pending /\ run'.claimed = run.claimed
      /\ run'.committed = run.committed /\ run'.error = run.error
      /\ run'.pc = "restore"
      /\ run'.left = run.prior
      /\ run'.path = Vacant
      /\ run'.does = "none"
  BY <1>1, <1>2 DEF MirrorRec, MirrorOps, MirrorStages, Unlist, Untouched, Stage
<1>5. /\ journals' = journals \ {run.no}
      /\ UNCHANGED <<there, claims, current, made, ended, touches>>
  BY <1>1, <1>2 DEF Unlist, Untouched, Stage
<1>6. MirrorTyped'
  BY <1>1, <1>2, <1>4, <1>5 DEF MirrorTyped
<1>7. FilesKnown'
  BY <1>1, <1>2, <1>4, <1>5, <1>3 DEF PathInv, FilesKnown, AllEmpty
<1>8. StageKept'
  BY <1>1, <1>2, <1>4, <1>5 DEF StageKept, Publishing, Obsolete
<1>9. HereKept'
  BY <1>1, <1>2, <1>4, <1>5 DEF HereKept, Obsolete
<1>10. CommitKept'
  BY <1>1, <1>2, <1>4, <1>5 DEF CommitKept, HereKept, StageKept, Obsolete
<1>11. CleanupKept'
  BY <1>1, <1>2, <1>4, <1>5 DEF CleanupKept, Renamed, Here
<1>12. NothingVanishes'
  BY <1>1, <1>5, NothingMoved
<1>13. UndoneMeansBefore'
  BY <1>1, <1>2, <1>4, <1>5, <1>3 DEF PathInv, UndoneMeansBefore, New, Written, Renamed
<1>14. CommittedMeansWhole'
  BY <1>1, <1>2, <1>4, <1>5 DEF CommittedMeansWhole, New, Written, Obsolete
<1>15. LeftoversAnnounced'
  BY <1>1, <1>2, <1>4, <1>5, <1>3 DEF PathInv, LeftoversAnnounced, Renamed
<1>16. ASSUME NEW q \in Paths PROVE PathInv(q)'
  <2>1. JournalKept(q)'
    BY <1>1, <1>2, <1>4, <1>5, <1>3 DEF PathInv, JournalKept, New, Written
  <2>2. PublishKept(q)'
    BY <1>1, <1>2, <1>4, <1>5, <1>3 DEF PathInv, PublishKept, New, Written, ToCome, Doing, Gone, Publishing
  <2>3. ReachedKept(q)'
    BY <1>1, <1>2, <1>4, <1>5, <1>3 DEF PathInv, ReachedKept, New, Written, Here, Gone, Whole, Publishing, Obsolete
  <2>4. AwayKept(q)'
    BY <1>1, <1>2, <1>4, <1>5, <1>3 DEF PathInv, AwayKept, Renamed
  <2>5. RollbackKept(q)'
    BY <1>1, <1>2, <1>4, <1>5, <1>3 DEF PathInv, RollbackKept, New, Written, Doing, RollingBack
  <2>6. UndoneKept(q)'
    BY <1>1, <1>2, <1>4, <1>5, <1>3 DEF PathInv, UndoneKept, New, Written, Doing, RollingBack, Here, Restored,
       Renamed, JournalKept, StageKept
  <2> QED BY <2>1, <2>2, <2>3, <2>4, <2>5, <2>6 DEF PathInv
<1> QED BY <1>6, <1>7, <1>8, <1>9, <1>10, <1>11, <1>12, <1>13, <1>14, <1>15, <1>16 DEF MirrorInv, MirrorHonest

\* A run begins; its files are not on the disk yet.
LEMMA BeginKept ==
  ASSUME MirrorInv, BeginMirror PROVE MirrorInv'
<1>1. /\ MirrorTyped /\ FilesKnown /\ StageKept /\ HereKept /\ CommitKept /\ CleanupKept
      /\ NothingVanishes /\ UndoneMeansBefore /\ CommittedMeansWhole /\ LeftoversAnnounced
      /\ run \in MirrorRec /\ MaxRuns \in Nat /\ (run.no > 0 => \A x \in Paths : PathInv(x))
      /\ M \in Paths \ Wanted
  BY Named
<1>2. /\ run.pc = "off"
      /\ run.no + 1 \in 1..MaxRuns
      /\ run.no \in Nat
      /\ Listed \subseteq Paths
      /\ AllEmpty \in [Paths -> FileOrNone]
  BY <1>1 DEF BeginMirror, MirrorTyped, MirrorRec, Listed, Paths, AllEmpty, FileOrNone
<1>3. run.no > 0 => \A p \in Paths : PathInv(p)
  BY <1>1, <1>2
<1>4. /\ run' \in MirrorRec
      /\ run'.no = run.no + 1
      /\ run'.pc = "backup"
      /\ run'.left = {}
      /\ run'.path = Vacant
      /\ run'.does = "none"
      /\ run'.prior = Listed
      /\ run'.backup = AllEmpty
      /\ run'.published = {}
      /\ run'.pending = {}
      /\ run'.claimed = {}
      /\ run'.committed = FALSE
      /\ run'.error = FALSE
  <2> DEFINE new == [no |-> run.no + 1, pc |-> "backup", left |-> {}, path |-> Vacant, does |-> "none",
                     prior |-> Listed, backup |-> AllEmpty, published |-> {}, pending |-> {}, claimed |-> {},
                     committed |-> FALSE, error |-> FALSE]
  <2>1. run' = new
    BY DEF BeginMirror, Idle
  <2>2. new \in MirrorRec
    BY <1>1, <1>2 DEF MirrorRec, MirrorOps, MirrorStages
  <2> QED BY <2>1, <2>2
<1>5. /\ UNCHANGED <<there, claims, current, journals, made, ended, touches>>
  BY <1>1, <1>2 DEF BeginMirror, Idle
<1>6. MirrorTyped'
  BY <1>1, <1>2, <1>4, <1>5 DEF MirrorTyped
<1>7. FilesKnown'
  <2>1. \A i \in 1..MaxRuns : \A p \in Paths : {claims[i][p], current[i][p]}' \subseteq made' \cup {Vacant}
    BY <1>1, <1>5 DEF FilesKnown
  <2>2. \A p \in Paths : {there[p], run.backup[p]}' \subseteq made' \cup {Vacant}
    BY <1>1, <1>2, <1>4, <1>5 DEF FilesKnown, AllEmpty
  <2>3. \A f \in made' : (f.by = "user" => f.n <= touches') /\ (f.by = "new" => f.n <= run'.no)
    <3> SUFFICES ASSUME NEW f \in made PROVE (f.by = "user" => f.n <= touches) /\ (f.by = "new" => f.n <= run.no + 1)
      BY <1>4, <1>5
    <3>1. f.n \in Nat
      BY <1>1 DEF MirrorTyped, MirrorFiles
    <3> QED BY <1>1, <1>2, <3>1 DEF FilesKnown
  <2>4. \A i \in 1..MaxRuns : i > run'.no => claims'[i] = AllEmpty /\ current'[i] = AllEmpty
    BY <1>1, <1>2, <1>4, <1>5 DEF FilesKnown
  <2> QED BY <2>1, <2>2, <2>3, <2>4 DEF FilesKnown
<1>8. StageKept'
  BY <1>1, <1>2, <1>4, <1>5 DEF StageKept, Publishing, Obsolete
<1>9. HereKept'
  BY <1>1, <1>2, <1>4, <1>5 DEF HereKept, Obsolete
<1>10. CommitKept'
  BY <1>1, <1>2, <1>4, <1>5 DEF CommitKept, HereKept, StageKept, Obsolete
<1>11. CleanupKept'
  BY <1>1, <1>2, <1>4, <1>5 DEF CleanupKept, Renamed, Here
<1>12. NothingVanishes'
  BY <1>1, <1>5, NothingMoved
<1>13. UndoneMeansBefore'
  BY <1>1, <1>2, <1>4, <1>5, <1>3 DEF PathInv, UndoneMeansBefore, New, Written, Renamed
<1>14. CommittedMeansWhole'
  BY <1>1, <1>2, <1>4, <1>5 DEF CommittedMeansWhole, New, Written, Obsolete
<1>15. LeftoversAnnounced'
  BY <1>1, <1>2, <1>4, <1>5, <1>3 DEF PathInv, LeftoversAnnounced, Renamed
<1>16. ASSUME NEW q \in Paths PROVE PathInv(q)'
  <2>1. JournalKept(q)'
    <3>1. claims[run.no + 1] = AllEmpty /\ current[run.no + 1] = AllEmpty
      BY <1>1, <1>2 DEF FilesKnown
    <3>2. New(q)' = Written("new", run.no + 1, q)
      BY <1>4 DEF New
    <3>3. Written("new", run.no + 1, q) \notin made
      BY <1>1, <1>2 DEF FilesKnown, Written
    <3>4. Written("new", run.no + 1, q) # Vacant
      BY <1>2, Absent
    <3> QED BY <1>4, <1>5, <3>1, <3>2, <3>3, <3>4 DEF JournalKept, AllEmpty
  <2>2. PublishKept(q)'
    BY <1>1, <1>2, <1>4, <1>5, <1>3 DEF PathInv, PublishKept, New, Written, ToCome, Doing, Gone, Publishing
  <2>3. ReachedKept(q)'
    BY <1>1, <1>2, <1>4, <1>5, <1>3 DEF PathInv, ReachedKept, New, Written, Here, Gone, Whole, Publishing, Obsolete
  <2>4. AwayKept(q)'
    BY <1>4 DEF AwayKept, AllEmpty
  <2>5. RollbackKept(q)'
    BY <1>1, <1>2, <1>4, <1>5, <1>3 DEF PathInv, RollbackKept, New, Written, Doing, RollingBack
  <2>6. UndoneKept(q)'
    BY <1>1, <1>2, <1>4, <1>5, <1>3 DEF PathInv, UndoneKept, New, Written, Doing, RollingBack, Here, Restored, Renamed
  <2> QED BY <2>1, <2>2, <2>3, <2>4, <2>5, <2>6 DEF PathInv
<1> QED BY <1>6, <1>7, <1>8, <1>9, <1>10, <1>11, <1>12, <1>13, <1>14, <1>15, <1>16 DEF MirrorInv, MirrorHonest

\* The backups are taken (_capture_backup).
LEMMA CaptureKept ==
  ASSUME MirrorInv, CaptureBackups PROVE MirrorInv'
<1>1. /\ MirrorTyped /\ FilesKnown /\ StageKept /\ HereKept /\ CommitKept /\ CleanupKept
      /\ NothingVanishes /\ UndoneMeansBefore /\ CommittedMeansWhole /\ LeftoversAnnounced
      /\ run \in MirrorRec /\ MaxRuns \in Nat /\ (run.no > 0 => \A x \in Paths : PathInv(x))
      /\ M \in Paths \ Wanted
  BY Named
<1>2. /\ run.pc = "backup"
      /\ run.does = "none"
      /\ run.left = {}
      /\ run.no \in 1..MaxRuns
      /\ ~run.committed
      /\ Wanted \subseteq Paths
  BY <1>1 DEF CaptureBackups, MirrorTyped, StageKept, CommitKept, Paths
<1>3. \A x \in Paths : PathInv(x)
  BY <1>1, <1>2
<1>4. /\ run' \in MirrorRec
      /\ run'.no = run.no /\ run'.prior = run.prior /\ run'.published = run.published
      /\ run'.pending = run.pending /\ run'.claimed = run.claimed /\ run'.committed = run.committed
      /\ run'.error = run.error
      /\ run'.pc = "files"
      /\ run'.left = Wanted
      /\ run'.path = Vacant
      /\ run'.does = "none"
      /\ \A q \in Paths : run'.backup[q] = (IF q \in run.prior THEN there[q] ELSE Vacant)
  BY <1>1, <1>2 DEF MirrorRec, MirrorOps, MirrorStages, CaptureBackups, Stage, MirrorTyped, FileOrNone
<1>5. /\ UNCHANGED <<there, claims, current, journals, made, ended, touches>>
  BY <1>1, <1>2 DEF CaptureBackups, Stage, MirrorTyped, FileOrNone
<1>6. MirrorTyped'
  BY <1>1, <1>2, <1>4, <1>5 DEF MirrorTyped
<1>7. FilesKnown'
  BY <1>1, <1>2, <1>4, <1>5, <1>3 DEF PathInv, FilesKnown, AllEmpty
<1>8. StageKept'
  BY <1>1, <1>2, <1>4, <1>5 DEF StageKept, Publishing, Obsolete
<1>9. HereKept'
  BY <1>1, <1>2, <1>4, <1>5 DEF HereKept, Obsolete
<1>10. CommitKept'
  BY <1>1, <1>2, <1>4, <1>5 DEF CommitKept, HereKept, StageKept, Obsolete
<1>11. CleanupKept'
  BY <1>1, <1>2, <1>4, <1>5 DEF CleanupKept, Renamed, Here
<1>12. NothingVanishes'
  BY <1>1, <1>5, NothingMoved
<1>13. UndoneMeansBefore'
  BY <1>1, <1>2, <1>4, <1>5, <1>3 DEF PathInv, UndoneMeansBefore, New, Written, Renamed
<1>14. CommittedMeansWhole'
  BY <1>1, <1>2, <1>4, <1>5 DEF CommittedMeansWhole, New, Written, Obsolete
<1>15. LeftoversAnnounced'
  BY <1>1, <1>2, <1>4, <1>5, <1>3 DEF PathInv, LeftoversAnnounced, Renamed
<1>16. ASSUME NEW q \in Paths PROVE PathInv(q)'
  <2>1. JournalKept(q)'
    <3>1. New(q) # Vacant /\ New(q) \notin made
      BY <1>1, <1>2, <1>3, NewFacts DEF PathInv, JournalKept
    <3>2. there[q] # New(q)
      BY <1>1, <3>1 DEF FilesKnown
    <3> QED BY <1>2, <1>3, <1>4, <1>5, <3>1, <3>2 DEF PathInv, JournalKept, New, Written
  <2>2. PublishKept(q)'
    BY <1>1, <1>2, <1>4, <1>5, <1>3 DEF PathInv, PublishKept, New, Written, ToCome, Doing, Gone, Publishing,
       JournalKept
  <2>3. ReachedKept(q)'
    BY <1>1, <1>2, <1>4, <1>5, <1>3 DEF PathInv, ReachedKept, New, Written, Here, Gone, Whole, Publishing,
       Obsolete, JournalKept
  <2>4. AwayKept(q)'
    BY <1>1, <1>2, <1>4, <1>5, <1>3 DEF PathInv, AwayKept, Renamed, JournalKept
  <2>5. RollbackKept(q)'
    BY <1>1, <1>2, <1>4, <1>5, <1>3 DEF PathInv, RollbackKept, New, Written, Doing, RollingBack
  <2>6. UndoneKept(q)'
    BY <1>1, <1>2, <1>4, <1>5, <1>3 DEF PathInv, UndoneKept, New, Written, Doing, RollingBack, Here, Restored, Renamed
  <2> QED BY <2>1, <2>2, <2>3, <2>4, <2>5, <2>6 DEF PathInv
<1> QED BY <1>6, <1>7, <1>8, <1>9, <1>10, <1>11, <1>12, <1>13, <1>14, <1>15, <1>16 DEF MirrorInv, MirrorHonest

\* The user edits, creates or deletes a file.
LEMMA TouchKept ==
  ASSUME MirrorInv, NEW p \in Paths \ {M}, NEW f \in {Written("user", touches + 1, p), Vacant} \ {there[p]},
         Touches(there[p], f), there' = [there EXCEPT ![p] = f], UNCHANGED claims PROVE MirrorInv'
<1>1. /\ MirrorTyped /\ FilesKnown /\ StageKept /\ HereKept /\ CommitKept /\ CleanupKept
      /\ NothingVanishes /\ UndoneMeansBefore /\ CommittedMeansWhole /\ LeftoversAnnounced
      /\ run \in MirrorRec /\ MaxRuns \in Nat /\ (run.no > 0 => \A x \in Paths : PathInv(x))
      /\ M \in Paths \ Wanted
  BY Named
<1>2. /\ p \in Paths \ {M}
      /\ run.no \in Nat
      /\ \A q \in Paths : New(q) # Vacant
      /\ f # Vacant => /\ f \in MirrorFiles /\ f.by = "user" /\ f.n = touches + 1 /\ f \notin made
                        /\ \A q \in Paths : f # New(q) /\ f # run.backup[q]
  BY <1>1, NewFacts, UserFile DEF MirrorRec
<1>3. run.no > 0 => \A q \in Paths : PathInv(q)
  BY <1>1, <1>2
<1>4. /\ run' \in MirrorRec
      /\ run'.no = run.no /\ run'.pc = run.pc /\ run'.left = run.left /\ run'.path = run.path
      /\ run'.does = run.does /\ run'.prior = run.prior /\ run'.backup = run.backup
      /\ run'.published = run.published /\ run'.pending = run.pending /\ run'.claimed = run.claimed
      /\ run'.committed = run.committed /\ run'.error = run.error
      /\ run' = run
  BY <1>1, <1>2 DEF MirrorRec, MirrorOps, MirrorStages, Touches, FileOrNone
<1>5. /\ there' \in [Paths -> FileOrNone]
      /\ \A q \in Paths : there'[q] = (IF q = p THEN f ELSE there[q])
      /\ ended' = ended \cup ({there[p]} \ {Vacant})
      /\ made' = made \cup ({f} \ {Vacant})
      /\ touches' = touches + 1
      /\ UNCHANGED <<claims, current, journals>>
  BY <1>1, <1>2 DEF Touches, FileOrNone, MirrorTyped
<1>6. MirrorTyped'
  BY <1>1, <1>2, <1>4, <1>5 DEF MirrorTyped
<1>7. FilesKnown'
  <2>1. \A q \in Paths : {there[q], run.backup[q]}' \subseteq made' \cup {Vacant}
    BY <1>1, <1>2, <1>4, <1>5 DEF FilesKnown
  <2>2. \A i \in 1..MaxRuns : \A q \in Paths : {claims[i][q], current[i][q]}' \subseteq made' \cup {Vacant}
    BY <1>1, <1>2, <1>4, <1>5 DEF FilesKnown
  <2>3. \A g \in made' : (g.by = "user" => g.n <= touches') /\ (g.by = "new" => g.n <= run'.no)
    <3> SUFFICES ASSUME NEW g \in made' PROVE (g.by = "user" => g.n <= touches + 1) /\ (g.by = "new" => g.n <= run.no)
      BY <1>4, <1>5
    <3>1. CASE g \in made
      <4>1. g.n \in Nat
        BY <1>1, <3>1 DEF MirrorTyped, MirrorFiles
      <4> QED BY <1>1, <1>2, <3>1, <4>1 DEF FilesKnown, MirrorTyped
    <3>2. CASE g \notin made
      <4>1. g = f /\ f # Vacant
        BY <1>5, <3>2
      <4>2. g.by = "user" /\ g.n = touches + 1
        BY <1>2, <4>1
      <4> QED BY <1>1, <4>2 DEF MirrorTyped
    <3> QED BY <3>1, <3>2
  <2>4. \A i \in 1..MaxRuns : i > run'.no => claims'[i] = AllEmpty /\ current'[i] = AllEmpty
    BY <1>1, <1>2, <1>4, <1>5 DEF FilesKnown
  <2> QED BY <2>1, <2>2, <2>3, <2>4 DEF FilesKnown
<1>8. StageKept'
  BY <1>1, <1>2, <1>4, <1>5 DEF StageKept, Publishing, Obsolete
<1>9. HereKept'
  BY <1>1, <1>2, <1>4, <1>5 DEF HereKept, Obsolete
<1>10. CommitKept'
  BY <1>1, <1>2, <1>4, <1>5 DEF CommitKept, HereKept, StageKept, Obsolete
<1>11. CleanupKept'
  BY <1>1, <1>2, <1>4, <1>5 DEF CleanupKept, Renamed, Here
<1>12. NothingVanishes'
  <2> SUFFICES ASSUME NEW g \in made' \ ended' PROVE OnDisk(g)'
    BY DEF NothingVanishes
  <2>1. g # Vacant /\ ((g \in made \ ended /\ OnDisk(g) /\ g # there[p]) \/ g = f)
    BY <1>1, <1>2, <1>5, Absent DEF NothingVanishes, MirrorTyped
  <2> QED BY <1>2, <1>5, <2>1 DEF OnDisk
<1>13. UndoneMeansBefore'
  BY <1>1, <1>2, <1>4, <1>5, <1>3 DEF PathInv, UndoneMeansBefore, New, Written, Renamed
<1>14. CommittedMeansWhole'
  BY <1>1, <1>2, <1>4, <1>5 DEF CommittedMeansWhole, New, Written, Obsolete
<1>15. LeftoversAnnounced'
  BY <1>1, <1>2, <1>4, <1>5, <1>3 DEF PathInv, LeftoversAnnounced, Renamed
<1>16. ASSUME run'.no > 0, NEW q \in Paths PROVE PathInv(q)'
  <2>1. JournalKept(q)'
    BY <1>1, <1>2, <1>4, <1>5, <1>16, <1>3 DEF PathInv, JournalKept, New, Written
  <2>2. PublishKept(q)'
    BY <1>1, <1>2, <1>4, <1>5, <1>16, <1>3 DEF PathInv, PublishKept, New, Written, ToCome, Doing, Gone, Publishing
  <2>3. ReachedKept(q)'
    BY <1>1, <1>2, <1>4, <1>5, <1>16, <1>3 DEF PathInv, ReachedKept, New, Written, Here, Gone, Whole, Publishing,
       Obsolete
  <2>4. AwayKept(q)'
    BY <1>1, <1>2, <1>4, <1>5, <1>16, <1>3 DEF PathInv, AwayKept, Renamed
  <2>5. RollbackKept(q)'
    BY <1>1, <1>2, <1>4, <1>5, <1>16, <1>3 DEF PathInv, RollbackKept, New, Written, Doing, RollingBack
  <2>6. UndoneKept(q)'
    BY <1>1, <1>2, <1>4, <1>5, <1>16, <1>3 DEF PathInv, UndoneKept, New, Written, Doing, RollingBack, Here,
       Restored, Renamed
  <2> QED BY <2>1, <2>2, <2>3, <2>4, <2>5, <2>6 DEF PathInv
<1> QED BY <1>6, <1>7, <1>8, <1>9, <1>10, <1>11, <1>12, <1>13, <1>14, <1>15, <1>16 DEF MirrorInv, MirrorHonest

\* A program writes into a file that was renamed.
LEMMA TouchClaimKept ==
  ASSUME MirrorInv, NEW p \in Paths \ {M}, NEW f, f = Written("user", touches + 1, p),
         run.no > 0, claims[run.no][p] # Vacant,
         Touches(claims[run.no][p], f), claims' = [claims EXCEPT ![run.no][p] = f], UNCHANGED there PROVE MirrorInv'
<1>1. /\ MirrorTyped /\ FilesKnown /\ StageKept /\ HereKept /\ CommitKept /\ CleanupKept
      /\ NothingVanishes /\ UndoneMeansBefore /\ CommittedMeansWhole /\ LeftoversAnnounced
      /\ run \in MirrorRec /\ MaxRuns \in Nat /\ (run.no > 0 => \A x \in Paths : PathInv(x))
      /\ M \in Paths \ Wanted
  BY Named
<1>2. /\ p \in Paths \ {M}
      /\ run.no \in Nat
      /\ \A q \in Paths : New(q) # Vacant
      /\ f # Vacant => /\ f \in MirrorFiles /\ f.by = "user" /\ f.n = touches + 1 /\ f \notin made
                        /\ \A q \in Paths : f # New(q) /\ f # run.backup[q]
      /\ f # Vacant
      /\ run.no \in 1..MaxRuns
      /\ claims[run.no][p] # Vacant
  BY <1>1, NewFacts, UserFile DEF MirrorRec
<1>3. run.no > 0 => \A q \in Paths : PathInv(q)
  BY <1>1, <1>2
<1>4. /\ run' \in MirrorRec
      /\ run'.no = run.no /\ run'.pc = run.pc /\ run'.left = run.left /\ run'.path = run.path
      /\ run'.does = run.does /\ run'.prior = run.prior /\ run'.backup = run.backup
      /\ run'.published = run.published /\ run'.pending = run.pending /\ run'.claimed = run.claimed
      /\ run'.committed = run.committed /\ run'.error = run.error
      /\ run' = run
  BY <1>1, <1>2 DEF MirrorRec, MirrorOps, MirrorStages, Touches, FileOrNone
<1>5. /\ claims' \in [1..MaxRuns -> [Paths -> FileOrNone]]
      /\ \A i \in 1..MaxRuns : \A q \in Paths : claims'[i][q] =
           (IF i = run.no /\ q = p THEN f ELSE claims[i][q])
      /\ \A i \in 1..MaxRuns : i # run.no => claims'[i] = claims[i]
      /\ ended' = ended \cup ({claims[run.no][p]} \ {Vacant})
      /\ made' = made \cup ({f} \ {Vacant})
      /\ touches' = touches + 1
      /\ UNCHANGED <<there, current, journals>>
  BY <1>1, <1>2 DEF Touches, FileOrNone, MirrorTyped
<1>6. MirrorTyped'
  BY <1>1, <1>2, <1>4, <1>5 DEF MirrorTyped
<1>7. FilesKnown'
  <2>1. \A q \in Paths : {there[q], run.backup[q]}' \subseteq made' \cup {Vacant}
    BY <1>1, <1>2, <1>4, <1>5 DEF FilesKnown
  <2>2. \A i \in 1..MaxRuns : \A q \in Paths : {claims[i][q], current[i][q]}' \subseteq made' \cup {Vacant}
    BY <1>1, <1>2, <1>4, <1>5 DEF FilesKnown
  <2>3. \A g \in made' : (g.by = "user" => g.n <= touches') /\ (g.by = "new" => g.n <= run'.no)
    <3> SUFFICES ASSUME NEW g \in made' PROVE (g.by = "user" => g.n <= touches + 1) /\ (g.by = "new" => g.n <= run.no)
      BY <1>4, <1>5
    <3>1. CASE g \in made
      <4>1. g.n \in Nat
        BY <1>1, <3>1 DEF MirrorTyped, MirrorFiles
      <4> QED BY <1>1, <1>2, <3>1, <4>1 DEF FilesKnown, MirrorTyped
    <3>2. CASE g \notin made
      <4>1. g = f /\ f # Vacant
        BY <1>5, <3>2
      <4>2. g.by = "user" /\ g.n = touches + 1
        BY <1>2, <4>1
      <4> QED BY <1>1, <4>2 DEF MirrorTyped
    <3> QED BY <3>1, <3>2
  <2>4. \A i \in 1..MaxRuns : i > run'.no => claims'[i] = AllEmpty /\ current'[i] = AllEmpty
    BY <1>1, <1>2, <1>4, <1>5 DEF FilesKnown
  <2> QED BY <2>1, <2>2, <2>3, <2>4 DEF FilesKnown
<1>8. StageKept'
  BY <1>1, <1>2, <1>4, <1>5 DEF StageKept, Publishing, Obsolete
<1>9. HereKept'
  BY <1>1, <1>2, <1>4, <1>5 DEF HereKept, Obsolete
<1>10. CommitKept'
  BY <1>1, <1>2, <1>4, <1>5 DEF CommitKept, HereKept, StageKept, Obsolete
<1>11. CleanupKept'
  BY <1>1, <1>2, <1>4, <1>5 DEF CleanupKept, Renamed, Here
<1>12. NothingVanishes'
  <2> SUFFICES ASSUME NEW g \in made' \ ended' PROVE OnDisk(g)'
    BY DEF NothingVanishes
  <2>1. g # Vacant /\ ((g \in made \ ended /\ OnDisk(g) /\ g # claims[run.no][p]) \/ g = f)
    BY <1>1, <1>2, <1>5, Absent DEF NothingVanishes, MirrorTyped
  <2> QED BY <1>2, <1>5, <2>1 DEF OnDisk
<1>13. UndoneMeansBefore'
  BY <1>1, <1>2, <1>4, <1>5, <1>3 DEF PathInv, UndoneMeansBefore, New, Written, Renamed
<1>14. CommittedMeansWhole'
  BY <1>1, <1>2, <1>4, <1>5 DEF CommittedMeansWhole, New, Written, Obsolete
<1>15. LeftoversAnnounced'
  BY <1>1, <1>2, <1>4, <1>5, <1>3 DEF PathInv, LeftoversAnnounced, Renamed
<1>16. ASSUME run'.no > 0, NEW q \in Paths PROVE PathInv(q)'
  <2>1. JournalKept(q)'
    BY <1>1, <1>2, <1>4, <1>5, <1>16, <1>3 DEF PathInv, JournalKept, New, Written
  <2>2. PublishKept(q)'
    BY <1>1, <1>2, <1>4, <1>5, <1>16, <1>3 DEF PathInv, PublishKept, New, Written, ToCome, Doing, Gone, Publishing
  <2>3. ReachedKept(q)'
    BY <1>1, <1>2, <1>4, <1>5, <1>16, <1>3 DEF PathInv, ReachedKept, New, Written, Here, Gone, Whole, Publishing,
       Obsolete
  <2>4. AwayKept(q)'
    BY <1>1, <1>2, <1>4, <1>5, <1>16, <1>3 DEF PathInv, AwayKept, Renamed
  <2>5. RollbackKept(q)'
    BY <1>1, <1>2, <1>4, <1>5, <1>16, <1>3 DEF PathInv, RollbackKept, New, Written, Doing, RollingBack
  <2>6. UndoneKept(q)'
    BY <1>1, <1>2, <1>4, <1>5, <1>16, <1>3 DEF PathInv, UndoneKept, New, Written, Doing, RollingBack, Here,
       Restored, Renamed
  <2> QED BY <2>1, <2>2, <2>3, <2>4, <2>5, <2>6 DEF PathInv
<1> QED BY <1>6, <1>7, <1>8, <1>9, <1>10, <1>11, <1>12, <1>13, <1>14, <1>15, <1>16 DEF MirrorInv, MirrorHonest

\* The rollback cannot take the journal out, notes the error and goes on.
LEMMA UnpublishKept ==
  ASSUME MirrorInv, run.pc = "unpublish", run' = Broken(Stage("restore", run.prior)),
         UNCHANGED <<there, claims, current, journals, made, ended>>, Untouched PROVE MirrorInv'
<1>1. /\ MirrorTyped /\ FilesKnown /\ StageKept /\ HereKept /\ CommitKept /\ CleanupKept
      /\ NothingVanishes /\ UndoneMeansBefore /\ CommittedMeansWhole /\ LeftoversAnnounced
      /\ run \in MirrorRec /\ MaxRuns \in Nat /\ (run.no > 0 => \A x \in Paths : PathInv(x))
      /\ M \in Paths \ Wanted
  BY Named
<1>2. /\ run.pc = "unpublish"
      /\ run.does = "none"
      /\ run.no \in 1..MaxRuns
      /\ ~run.committed
  BY <1>1 DEF MirrorTyped, StageKept, CommitKept
<1>3. \A x \in Paths : PathInv(x)
  BY <1>1, <1>2
<1>4. /\ run' \in MirrorRec
      /\ run'.no = run.no /\ run'.prior = run.prior /\ run'.backup = run.backup
      /\ run'.published = run.published /\ run'.pending = run.pending /\ run'.claimed = run.claimed
      /\ run'.committed = run.committed
      /\ run'.pc = "restore"
      /\ run'.left = run.prior
      /\ run'.path = Vacant
      /\ run'.does = "none"
      /\ run'.error = TRUE
  BY <1>1, <1>2 DEF MirrorRec, MirrorOps, MirrorStages, Untouched, Stage, Broken
<1>5. /\ UNCHANGED <<there, claims, current, journals, made, ended, touches>>
  BY <1>1, <1>2 DEF Untouched, Stage, Broken
<1>6. MirrorTyped'
  BY <1>1, <1>2, <1>4, <1>5 DEF MirrorTyped
<1>7. FilesKnown'
  BY <1>1, <1>2, <1>4, <1>5, <1>3 DEF PathInv, FilesKnown, AllEmpty
<1>8. StageKept'
  BY <1>1, <1>2, <1>4, <1>5 DEF StageKept, Publishing, Obsolete
<1>9. HereKept'
  BY <1>1, <1>2, <1>4, <1>5 DEF HereKept, Obsolete
<1>10. CommitKept'
  BY <1>1, <1>2, <1>4, <1>5 DEF CommitKept, HereKept, StageKept, Obsolete
<1>11. CleanupKept'
  BY <1>1, <1>2, <1>4, <1>5 DEF CleanupKept, Renamed, Here
<1>12. NothingVanishes'
  BY <1>1, <1>5, NothingMoved
<1>13. UndoneMeansBefore'
  BY <1>1, <1>2, <1>4, <1>5, <1>3 DEF PathInv, UndoneMeansBefore, New, Written, Renamed
<1>14. CommittedMeansWhole'
  BY <1>1, <1>2, <1>4, <1>5 DEF CommittedMeansWhole, New, Written, Obsolete
<1>15. LeftoversAnnounced'
  BY <1>1, <1>2, <1>4, <1>5, <1>3 DEF PathInv, LeftoversAnnounced, Renamed
<1>16. ASSUME NEW q \in Paths PROVE PathInv(q)'
  <2>1. JournalKept(q)'
    BY <1>1, <1>2, <1>4, <1>5, <1>3 DEF PathInv, JournalKept, New, Written
  <2>2. PublishKept(q)'
    BY <1>1, <1>2, <1>4, <1>5, <1>3 DEF PathInv, PublishKept, New, Written, ToCome, Doing, Gone, Publishing
  <2>3. ReachedKept(q)'
    BY <1>1, <1>2, <1>4, <1>5, <1>3 DEF PathInv, ReachedKept, New, Written, Here, Gone, Whole, Publishing, Obsolete
  <2>4. AwayKept(q)'
    BY <1>1, <1>2, <1>4, <1>5, <1>3 DEF PathInv, AwayKept, Renamed
  <2>5. RollbackKept(q)'
    BY <1>1, <1>2, <1>4, <1>5, <1>3 DEF PathInv, RollbackKept, New, Written, Doing, RollingBack
  <2>6. UndoneKept(q)'
    BY <1>1, <1>2, <1>4, <1>5, <1>3 DEF PathInv, UndoneKept, New, Written, Doing, RollingBack, Here, Restored, Renamed
  <2> QED BY <2>1, <2>2, <2>3, <2>4, <2>5, <2>6 DEF PathInv
<1> QED BY <1>6, <1>7, <1>8, <1>9, <1>10, <1>11, <1>12, <1>13, <1>14, <1>15, <1>16 DEF MirrorInv, MirrorHonest

\* The rollback notes an error and goes on to the next path.
LEMMA NotedKept ==
  ASSUME MirrorInv, run.pc \in {"retract", "restore"}, run.does # "none", run' = Broken(Visited),
         UNCHANGED <<there, claims, current, journals, made, ended>>, Untouched PROVE MirrorInv'
<1>1. /\ MirrorTyped /\ FilesKnown /\ StageKept /\ HereKept /\ CommitKept /\ CleanupKept
      /\ NothingVanishes /\ UndoneMeansBefore /\ CommittedMeansWhole /\ LeftoversAnnounced
      /\ run \in MirrorRec /\ MaxRuns \in Nat /\ (run.no > 0 => \A x \in Paths : PathInv(x))
      /\ M \in Paths \ Wanted
  BY Named
<1>2. /\ run.pc \in {"retract", "restore"}
      /\ run.no \in 1..MaxRuns
      /\ ~run.committed
  BY <1>1 DEF MirrorTyped, CommitKept
<1>3. \A x \in Paths : PathInv(x)
  BY <1>1, <1>2
<1>4. /\ run' \in MirrorRec
      /\ run'.no = run.no /\ run'.pc = run.pc /\ run'.left = run.left /\ run'.prior = run.prior
      /\ run'.backup = run.backup /\ run'.published = run.published /\ run'.pending = run.pending
      /\ run'.claimed = run.claimed /\ run'.committed = run.committed
      /\ run'.path = Vacant
      /\ run'.does = "none"
      /\ run'.error = TRUE
  BY <1>1, <1>2 DEF MirrorRec, MirrorOps, MirrorStages, Untouched, Visited, Broken
<1>5. /\ UNCHANGED <<there, claims, current, journals, made, ended, touches>>
  BY <1>1, <1>2 DEF Untouched, Visited, Broken
<1>6. MirrorTyped'
  BY <1>1, <1>2, <1>4, <1>5 DEF MirrorTyped
<1>7. FilesKnown'
  BY <1>1, <1>2, <1>4, <1>5, <1>3 DEF PathInv, FilesKnown, AllEmpty
<1>8. StageKept'
  BY <1>1, <1>2, <1>4, <1>5 DEF StageKept, Publishing, Obsolete
<1>9. HereKept'
  BY <1>1, <1>2, <1>4, <1>5 DEF HereKept, Obsolete
<1>10. CommitKept'
  BY <1>1, <1>2, <1>4, <1>5 DEF CommitKept, HereKept, StageKept, Obsolete
<1>11. CleanupKept'
  BY <1>1, <1>2, <1>4, <1>5 DEF CleanupKept, Renamed, Here
<1>12. NothingVanishes'
  BY <1>1, <1>5, NothingMoved
<1>13. UndoneMeansBefore'
  BY <1>1, <1>2, <1>4, <1>5, <1>3 DEF PathInv, UndoneMeansBefore, New, Written, Renamed
<1>14. CommittedMeansWhole'
  BY <1>1, <1>2, <1>4, <1>5 DEF CommittedMeansWhole, New, Written, Obsolete
<1>15. LeftoversAnnounced'
  BY <1>1, <1>2, <1>4, <1>5, <1>3 DEF PathInv, LeftoversAnnounced, Renamed
<1>16. ASSUME NEW q \in Paths PROVE PathInv(q)'
  <2>1. JournalKept(q)'
    BY <1>1, <1>2, <1>4, <1>5, <1>3 DEF PathInv, JournalKept, New, Written
  <2>2. PublishKept(q)'
    BY <1>1, <1>2, <1>4, <1>5, <1>3 DEF PathInv, PublishKept, New, Written, ToCome, Doing, Gone, Publishing
  <2>3. ReachedKept(q)'
    BY <1>1, <1>2, <1>4, <1>5, <1>3 DEF PathInv, ReachedKept, New, Written, Here, Gone, Whole, Publishing, Obsolete
  <2>4. AwayKept(q)'
    BY <1>1, <1>2, <1>4, <1>5, <1>3 DEF PathInv, AwayKept, Renamed
  <2>5. RollbackKept(q)'
    BY <1>1, <1>2, <1>4, <1>5, <1>3 DEF PathInv, RollbackKept, New, Written, Doing, RollingBack
  <2>6. UndoneKept(q)'
    BY <1>1, <1>2, <1>4, <1>5, <1>3 DEF PathInv, UndoneKept, New, Written, Doing, RollingBack, Here, Restored, Renamed
  <2> QED BY <2>1, <2>2, <2>3, <2>4, <2>5, <2>6 DEF PathInv
<1> QED BY <1>6, <1>7, <1>8, <1>9, <1>10, <1>11, <1>12, <1>13, <1>14, <1>15, <1>16 DEF MirrorInv, MirrorHonest

\* A publication fails before the commit and is rolled back.
LEMMA RollbackBegunKept ==
  ASSUME MirrorInv, Publishing, ~run.committed,
         run' = Stage("retract", (run.published \cup run.pending) \ run.prior),
         UNCHANGED <<there, claims, current, journals, made, ended>>, Untouched PROVE MirrorInv'
<1>1. /\ MirrorTyped /\ FilesKnown /\ StageKept /\ HereKept /\ CommitKept /\ CleanupKept
      /\ NothingVanishes /\ UndoneMeansBefore /\ CommittedMeansWhole /\ LeftoversAnnounced
      /\ run \in MirrorRec /\ MaxRuns \in Nat /\ (run.no > 0 => \A x \in Paths : PathInv(x))
      /\ M \in Paths \ Wanted
  BY Named
<1>2. /\ run.pc \in {"files", "obsolete", "list", "manifest", "relist"}
      /\ run.no \in 1..MaxRuns
      /\ ~run.committed
      /\ \A q \in Paths : New(q) # Vacant
  BY <1>1, NewFacts DEF MirrorTyped, CommitKept, Publishing
<1>3. \A x \in Paths : PathInv(x)
  BY <1>1, <1>2
<1>4. /\ run' \in MirrorRec
      /\ run'.no = run.no /\ run'.prior = run.prior /\ run'.backup = run.backup
      /\ run'.published = run.published /\ run'.pending = run.pending /\ run'.claimed = run.claimed
      /\ run'.committed = run.committed /\ run'.error = run.error
      /\ run'.pc = "retract"
      /\ run'.left = (run.published \cup run.pending) \ run.prior
      /\ run'.path = Vacant
      /\ run'.does = "none"
  BY <1>1, <1>2 DEF MirrorRec, MirrorOps, MirrorStages, Untouched, Stage
<1>5. /\ UNCHANGED <<there, claims, current, journals, made, ended, touches>>
  BY <1>1, <1>2 DEF Untouched, Stage
<1>6. MirrorTyped'
  BY <1>1, <1>2, <1>4, <1>5 DEF MirrorTyped
<1>7. FilesKnown'
  <2>1. \A p \in Paths : {there[p], run.backup[p]}' \subseteq made' \cup {Vacant}
    BY <1>1, <1>2, <1>4, <1>5 DEF FilesKnown
  <2>2. \A i \in 1..MaxRuns : \A p \in Paths : {claims[i][p], current[i][p]}' \subseteq made' \cup {Vacant}
    BY <1>1, <1>2, <1>4, <1>5 DEF FilesKnown
  <2>3. \A f \in made' : (f.by = "user" => f.n <= touches') /\ (f.by = "new" => f.n <= run'.no)
    BY <1>1, <1>2, <1>4, <1>5 DEF FilesKnown
  <2>4. \A i \in 1..MaxRuns : i > run'.no => claims'[i] = AllEmpty /\ current'[i] = AllEmpty
    BY <1>1, <1>2, <1>4, <1>5 DEF FilesKnown
  <2> QED BY <2>1, <2>2, <2>3, <2>4 DEF FilesKnown
<1>8. StageKept'
  BY <1>1, <1>2, <1>4, <1>5 DEF StageKept, Publishing, Obsolete
<1>9. HereKept'
  BY <1>1, <1>2, <1>4, <1>5 DEF HereKept, Obsolete
<1>10. CommitKept'
  BY <1>1, <1>2, <1>4, <1>5 DEF CommitKept, HereKept, StageKept, Obsolete
<1>11. CleanupKept'
  BY <1>1, <1>2, <1>4, <1>5 DEF CleanupKept, Renamed, Here
<1>12. NothingVanishes'
  BY <1>1, <1>5, NothingMoved
<1>13. UndoneMeansBefore'
  BY <1>1, <1>2, <1>4, <1>5, <1>3 DEF PathInv, UndoneMeansBefore, New, Written, Renamed
<1>14. CommittedMeansWhole'
  BY <1>1, <1>2, <1>4, <1>5 DEF CommittedMeansWhole, New, Written, Obsolete
<1>15. LeftoversAnnounced'
  BY <1>1, <1>2, <1>4, <1>5, <1>3 DEF PathInv, LeftoversAnnounced, Renamed
<1>16. ASSUME NEW q \in Paths PROVE PathInv(q)'
  <2>1. JournalKept(q)'
    BY <1>1, <1>2, <1>4, <1>5, <1>3 DEF PathInv, JournalKept, New, Written
  <2>2. PublishKept(q)'
    BY <1>1, <1>2, <1>4, <1>5, <1>3 DEF PathInv, PublishKept, New, Written, ToCome, Doing, Gone, Publishing
  <2>3. ReachedKept(q)'
    BY <1>1, <1>2, <1>4, <1>5, <1>3 DEF PathInv, ReachedKept, New, Written, Here, Gone, Whole, Publishing, Obsolete
  <2>4. AwayKept(q)'
    BY <1>1, <1>2, <1>4, <1>5, <1>3 DEF PathInv, AwayKept, Renamed
  <2>5. RollbackKept(q)'
    BY <1>1, <1>2, <1>4, <1>5, <1>3 DEF PathInv, RollbackKept, New, Written, Doing, RollingBack, PublishKept,
       JournalKept, Publishing
  <2>6. UndoneKept(q)'
      <3>1. there[q] = New(q) => q \in run.published \cup run.pending \cup run.claimed
      BY <1>1, <1>2, <1>3 DEF PathInv, FilesKnown, PublishKept, Doing, Publishing
      <3>2. q \in run.claimed => q \in run.prior
      BY <1>3 DEF PathInv, JournalKept
      <3> QED BY <1>2, <1>4, <1>5, <3>1, <3>2 DEF UndoneKept, New, Written, RollingBack
  <2> QED BY <2>1, <2>2, <2>3, <2>4, <2>5, <2>6 DEF PathInv
<1> QED BY <1>6, <1>7, <1>8, <1>9, <1>10, <1>11, <1>12, <1>13, <1>14, <1>15, <1>16 DEF MirrorInv, MirrorHonest

\* A claim that is not what was backed up is renamed back (:479), and all is undone.
LEMMA GivesClaimKept ==
  ASSUME MirrorInv, run.does = "check", there[run.path] = Vacant,
         AtPath(Renamed[run.path]), Aside(Vacant), UNCHANGED current,
         run' = Stage("retract", (run.published \cup run.pending) \ run.prior),
         UNCHANGED <<journals, made, ended>>, Untouched PROVE MirrorInv'
<1>1. /\ MirrorTyped /\ FilesKnown /\ StageKept /\ HereKept /\ CommitKept /\ CleanupKept
      /\ NothingVanishes /\ UndoneMeansBefore /\ CommittedMeansWhole /\ LeftoversAnnounced
      /\ run \in MirrorRec /\ MaxRuns \in Nat /\ (run.no > 0 => \A x \in Paths : PathInv(x))
      /\ M \in Paths \ Wanted
  BY Named
<1>2. /\ run.does = "check"
      /\ run.path \in run.prior
      /\ Publishing
      /\ run.pc \in {"files", "obsolete", "manifest"}
      /\ ~run.committed
      /\ run.path \in Paths \ run.left
      /\ run.no \in 1..MaxRuns
      /\ there[run.path] = Vacant
      /\ \A q \in Paths : New(q) # Vacant
  BY <1>1, PublishOps, NewFacts DEF HereKept
<1>3. \A x \in Paths : PathInv(x)
  BY <1>1, <1>2
<1>4. /\ run' \in MirrorRec
      /\ run'.no = run.no /\ run'.prior = run.prior /\ run'.backup = run.backup
      /\ run'.published = run.published /\ run'.pending = run.pending /\ run'.claimed = run.claimed
      /\ run'.committed = run.committed /\ run'.error = run.error
      /\ run'.pc = "retract"
      /\ run'.left = (run.published \cup run.pending) \ run.prior
      /\ run'.path = Vacant
      /\ run'.does = "none"
  BY <1>1, <1>2 DEF MirrorRec, MirrorOps, MirrorStages, Untouched, Stage, AtPath, Aside, Renamed, Path, FileOrNone
<1>5. /\ there' \in [Paths -> FileOrNone]
      /\ \A q \in Paths : there'[q] = (IF q = run.path THEN claims[run.no][run.path] ELSE there[q])
      /\ claims' \in [1..MaxRuns -> [Paths -> FileOrNone]]
      /\ \A i \in 1..MaxRuns : \A q \in Paths : claims'[i][q] =
           (IF i = run.no /\ q = run.path THEN Vacant ELSE claims[i][q])
      /\ \A i \in 1..MaxRuns : i # run.no => claims'[i] = claims[i]
      /\ UNCHANGED <<current, journals, made, ended, touches>>
  BY <1>1, <1>2 DEF Untouched, Stage, AtPath, Aside, Renamed, Path, FileOrNone, MirrorTyped
<1>6. MirrorTyped'
  BY <1>1, <1>2, <1>4, <1>5 DEF MirrorTyped
<1>7. FilesKnown'
  <2>1. \A p \in Paths : {there[p], run.backup[p]}' \subseteq made' \cup {Vacant}
    BY <1>1, <1>2, <1>4, <1>5 DEF FilesKnown
  <2>2. \A i \in 1..MaxRuns : \A p \in Paths : {claims[i][p], current[i][p]}' \subseteq made' \cup {Vacant}
    BY <1>1, <1>2, <1>4, <1>5 DEF FilesKnown
  <2>3. \A f \in made' : (f.by = "user" => f.n <= touches') /\ (f.by = "new" => f.n <= run'.no)
    BY <1>1, <1>2, <1>4, <1>5 DEF FilesKnown
  <2>4. \A i \in 1..MaxRuns : i > run'.no => claims'[i] = AllEmpty /\ current'[i] = AllEmpty
    BY <1>1, <1>2, <1>4, <1>5 DEF FilesKnown
  <2> QED BY <2>1, <2>2, <2>3, <2>4 DEF FilesKnown
<1>8. StageKept'
  BY <1>1, <1>2, <1>4, <1>5 DEF StageKept, Publishing, Obsolete
<1>9. HereKept'
  BY <1>1, <1>2, <1>4, <1>5 DEF HereKept, Obsolete
<1>10. CommitKept'
  BY <1>1, <1>2, <1>4, <1>5 DEF CommitKept, HereKept, StageKept, Obsolete
<1>11. CleanupKept'
  BY <1>1, <1>2, <1>4, <1>5 DEF CleanupKept, Renamed, Here
<1>12. NothingVanishes'
  <2> SUFFICES ASSUME NEW f \in made' \ ended' PROVE OnDisk(f)'
    BY DEF NothingVanishes
  <2>1. f \in made \ ended /\ OnDisk(f)
    BY <1>1, <1>2, <1>5 DEF NothingVanishes
  <2>2. f # Vacant
    BY <1>1, <1>2, <1>5, Absent DEF MirrorTyped
  <2> QED BY <1>2, <1>3, <1>5, <2>1, <2>2 DEF OnDisk, PathInv, PublishKept, RollbackKept, Publishing,
             RollingBack, ToCome, Doing, FileOrNone
<1>13. UndoneMeansBefore'
  BY <1>1, <1>2, <1>4, <1>5, <1>3 DEF PathInv, UndoneMeansBefore, New, Written, Renamed
<1>14. CommittedMeansWhole'
  BY <1>1, <1>2, <1>4, <1>5 DEF CommittedMeansWhole, New, Written, Obsolete
<1>15. LeftoversAnnounced'
  BY <1>1, <1>2, <1>4, <1>5, <1>3 DEF PathInv, LeftoversAnnounced, Renamed
<1>16. ASSUME NEW q \in Paths PROVE PathInv(q)'
  <2>1. JournalKept(q)'
    BY <1>3, <1>4 DEF PathInv, JournalKept, New, Written
  <2>2. PublishKept(q)'
    BY <1>1, <1>2, <1>4, <1>5, <1>3 DEF PathInv, PublishKept, New, Written, ToCome, Doing, Gone, Publishing
  <2>3. ReachedKept(q)'
    BY <1>1, <1>2, <1>4, <1>5, <1>3 DEF PathInv, ReachedKept, New, Written, Here, Gone, Whole, Publishing, Obsolete
  <2>4. AwayKept(q)'
    <3>1. CASE q = run.path
      BY <1>1, <1>2, <1>3, <1>4, <1>5, <3>1 DEF PathInv, AwayKept, Renamed
    <3>2. CASE q # run.path
      BY <1>1, <1>2, <1>3, <1>4, <1>5, <3>2 DEF PathInv, AwayKept, Renamed
    <3> QED BY <3>1, <3>2
  <2>5. RollbackKept(q)'
    <3>1. CASE q = run.path
      BY <1>1, <1>2, <1>3, <1>4, <1>5, <3>1 DEF PathInv, RollbackKept, New, Written, Doing, RollingBack,
         PublishKept, JournalKept, Publishing
    <3>2. CASE q # run.path
      BY <1>1, <1>2, <1>3, <1>4, <1>5, <3>2 DEF PathInv, RollbackKept, New, Written, Doing, RollingBack,
         PublishKept, JournalKept, Publishing
    <3> QED BY <3>1, <3>2
  <2>6. UndoneKept(q)'
    <3>1. CASE q = run.path
      BY <1>1, <1>2, <1>3, <1>4, <1>5, <3>1 DEF PathInv, UndoneKept, New, Written, Doing, RollingBack, Here,
         Restored, Renamed, JournalKept, FilesKnown
    <3>2. CASE q # run.path
      <4>0. there'[q] = there[q]
        BY <1>5, <3>2
      <4>1. there[q] = New(q) => q \in run.published \cup run.pending \cup run.claimed
         BY <1>1, <1>2, <1>3 DEF PathInv, FilesKnown, PublishKept, Doing, Publishing
      <4>2. q \in run.claimed => q \in run.prior
         BY <1>3 DEF PathInv, JournalKept
      <4> QED BY <1>2, <1>4, <1>5, <4>0, <4>1, <4>2 DEF UndoneKept, New, Written, RollingBack
    <3> QED BY <3>1, <3>2
  <2> QED BY <2>1, <2>2, <2>3, <2>4, <2>5, <2>6 DEF PathInv
<1> QED BY <1>6, <1>7, <1>8, <1>9, <1>10, <1>11, <1>12, <1>13, <1>14, <1>15, <1>16 DEF MirrorInv, MirrorHonest

\* What returned although it had changed stays (:433, 442, 448).
LEMMA GivesBackupKept ==
  ASSUME MirrorInv, run.does = "return", there[run.path] = Vacant,
         AtPath(Renamed[run.path]), Aside(Vacant), UNCHANGED current,
         run' = Broken(Visited),
         UNCHANGED <<journals, made, ended>>, Untouched PROVE MirrorInv'
<1>1. /\ MirrorTyped /\ FilesKnown /\ StageKept /\ HereKept /\ CommitKept /\ CleanupKept
      /\ NothingVanishes /\ UndoneMeansBefore /\ CommittedMeansWhole /\ LeftoversAnnounced
      /\ run \in MirrorRec /\ MaxRuns \in Nat /\ (run.no > 0 => \A x \in Paths : PathInv(x))
      /\ M \in Paths \ Wanted
  BY Named
<1>2. /\ run.does = "return"
      /\ run.pc = "restore"
      /\ ~run.committed
      /\ run.path \in Paths \ run.left
      /\ run.no \in 1..MaxRuns
      /\ there[run.path] = Vacant
  BY <1>1, UndoOps
<1>3. \A x \in Paths : PathInv(x)
  BY <1>1, <1>2
<1>4. /\ run' \in MirrorRec
      /\ run'.no = run.no /\ run'.pc = run.pc /\ run'.left = run.left /\ run'.prior = run.prior
      /\ run'.backup = run.backup /\ run'.published = run.published /\ run'.pending = run.pending
      /\ run'.claimed = run.claimed /\ run'.committed = run.committed
      /\ run'.path = Vacant
      /\ run'.does = "none"
      /\ run'.error = TRUE
  BY <1>1, <1>2 DEF MirrorRec, MirrorOps, MirrorStages, Untouched, Visited, Broken, AtPath, Aside, Renamed, Path,
     FileOrNone
<1>5. /\ there' \in [Paths -> FileOrNone]
      /\ \A q \in Paths : there'[q] = (IF q = run.path THEN claims[run.no][run.path] ELSE there[q])
      /\ claims' \in [1..MaxRuns -> [Paths -> FileOrNone]]
      /\ \A i \in 1..MaxRuns : \A q \in Paths : claims'[i][q] =
           (IF i = run.no /\ q = run.path THEN Vacant ELSE claims[i][q])
      /\ \A i \in 1..MaxRuns : i # run.no => claims'[i] = claims[i]
      /\ UNCHANGED <<current, journals, made, ended, touches>>
  BY <1>1, <1>2 DEF Untouched, Visited, Broken, AtPath, Aside, Renamed, Path, FileOrNone, MirrorTyped
<1>6. MirrorTyped'
  BY <1>1, <1>2, <1>4, <1>5 DEF MirrorTyped
<1>7. FilesKnown'
  <2>1. \A p \in Paths : {there[p], run.backup[p]}' \subseteq made' \cup {Vacant}
    BY <1>1, <1>2, <1>4, <1>5 DEF FilesKnown
  <2>2. \A i \in 1..MaxRuns : \A p \in Paths : {claims[i][p], current[i][p]}' \subseteq made' \cup {Vacant}
    BY <1>1, <1>2, <1>4, <1>5 DEF FilesKnown
  <2>3. \A f \in made' : (f.by = "user" => f.n <= touches') /\ (f.by = "new" => f.n <= run'.no)
    BY <1>1, <1>2, <1>4, <1>5 DEF FilesKnown
  <2>4. \A i \in 1..MaxRuns : i > run'.no => claims'[i] = AllEmpty /\ current'[i] = AllEmpty
    BY <1>1, <1>2, <1>4, <1>5 DEF FilesKnown
  <2> QED BY <2>1, <2>2, <2>3, <2>4 DEF FilesKnown
<1>8. StageKept'
  BY <1>1, <1>2, <1>4, <1>5 DEF StageKept, Publishing, Obsolete
<1>9. HereKept'
  BY <1>1, <1>2, <1>4, <1>5 DEF HereKept, Obsolete
<1>10. CommitKept'
  BY <1>1, <1>2, <1>4, <1>5 DEF CommitKept, HereKept, StageKept, Obsolete
<1>11. CleanupKept'
  BY <1>1, <1>2, <1>4, <1>5 DEF CleanupKept, Renamed, Here
<1>12. NothingVanishes'
  <2> SUFFICES ASSUME NEW f \in made' \ ended' PROVE OnDisk(f)'
    BY DEF NothingVanishes
  <2>1. f \in made \ ended /\ OnDisk(f)
    BY <1>1, <1>2, <1>5 DEF NothingVanishes
  <2>2. f # Vacant
    BY <1>1, <1>2, <1>5, Absent DEF MirrorTyped
  <2> QED BY <1>2, <1>3, <1>5, <2>1, <2>2 DEF OnDisk, PathInv, PublishKept, RollbackKept, Publishing,
             RollingBack, ToCome, Doing, FileOrNone
<1>13. UndoneMeansBefore'
  BY <1>1, <1>2, <1>4, <1>5, <1>3 DEF PathInv, UndoneMeansBefore, New, Written, Renamed
<1>14. CommittedMeansWhole'
  BY <1>1, <1>2, <1>4, <1>5 DEF CommittedMeansWhole, New, Written, Obsolete
<1>15. LeftoversAnnounced'
  BY <1>1, <1>2, <1>4, <1>5, <1>3 DEF PathInv, LeftoversAnnounced, Renamed
<1>16. ASSUME NEW q \in Paths PROVE PathInv(q)'
  <2>1. JournalKept(q)'
    BY <1>1, <1>2, <1>4, <1>5, <1>3 DEF PathInv, JournalKept, New, Written
  <2>2. PublishKept(q)'
    BY <1>1, <1>2, <1>4, <1>5, <1>3 DEF PathInv, PublishKept, New, Written, ToCome, Doing, Gone, Publishing
  <2>3. ReachedKept(q)'
    BY <1>1, <1>2, <1>4, <1>5, <1>3 DEF PathInv, ReachedKept, New, Written, Here, Gone, Whole, Publishing, Obsolete
  <2>4. AwayKept(q)'
    <3>1. CASE q = run.path
      BY <1>1, <1>2, <1>3, <1>4, <1>5, <3>1 DEF PathInv, AwayKept, Renamed
    <3>2. CASE q # run.path
      BY <1>1, <1>2, <1>3, <1>4, <1>5, <3>2 DEF PathInv, AwayKept, Renamed
    <3> QED BY <3>1, <3>2
  <2>5. RollbackKept(q)'
    <3>1. CASE q = run.path
      BY <1>1, <1>2, <1>3, <1>4, <1>5, <3>1 DEF PathInv, RollbackKept, New, Written, Doing, RollingBack
    <3>2. CASE q # run.path
      BY <1>1, <1>2, <1>3, <1>4, <1>5, <3>2 DEF PathInv, RollbackKept, New, Written, Doing, RollingBack
    <3> QED BY <3>1, <3>2
  <2>6. UndoneKept(q)'
    BY <1>1, <1>2, <1>4, <1>5, <1>3 DEF PathInv, UndoneKept, New, Written, Doing, RollingBack, Here, Restored, Renamed
  <2> QED BY <2>1, <2>2, <2>3, <2>4, <2>5, <2>6 DEF PathInv
<1> QED BY <1>6, <1>7, <1>8, <1>9, <1>10, <1>11, <1>12, <1>13, <1>14, <1>15, <1>16 DEF MirrorInv, MirrorHonest

\* A file that is not the run's own is renamed back (:409, 426).
LEMMA GivesNewKept ==
  ASSUME MirrorInv, run.does = "retracted", there[run.path] = Vacant,
         AtPath(current[run.no][run.path]), Behind(Vacant), UNCHANGED claims,
         run' = Broken(Visited),
         UNCHANGED <<journals, made, ended>>, Untouched PROVE MirrorInv'
<1>1. /\ MirrorTyped /\ FilesKnown /\ StageKept /\ HereKept /\ CommitKept /\ CleanupKept
      /\ NothingVanishes /\ UndoneMeansBefore /\ CommittedMeansWhole /\ LeftoversAnnounced
      /\ run \in MirrorRec /\ MaxRuns \in Nat /\ (run.no > 0 => \A x \in Paths : PathInv(x))
      /\ M \in Paths \ Wanted
  BY Named
<1>2. /\ run.does = "retracted"
      /\ run.pc \in {"retract", "restore"}
      /\ ~run.committed
      /\ run.path \in Paths \ run.left
      /\ run.no \in 1..MaxRuns
      /\ there[run.path] = Vacant
  BY <1>1, UndoOps
<1>3. \A x \in Paths : PathInv(x)
  BY <1>1, <1>2
<1>4. /\ run' \in MirrorRec
      /\ run'.no = run.no /\ run'.pc = run.pc /\ run'.left = run.left /\ run'.prior = run.prior
      /\ run'.backup = run.backup /\ run'.published = run.published /\ run'.pending = run.pending
      /\ run'.claimed = run.claimed /\ run'.committed = run.committed
      /\ run'.path = Vacant
      /\ run'.does = "none"
      /\ run'.error = TRUE
  BY <1>1, <1>2 DEF MirrorRec, MirrorOps, MirrorStages, Untouched, Visited, Broken, AtPath, Behind, Path, FileOrNone
<1>5. /\ there' \in [Paths -> FileOrNone]
      /\ \A q \in Paths : there'[q] = (IF q = run.path THEN current[run.no][run.path] ELSE there[q])
      /\ current' \in [1..MaxRuns -> [Paths -> FileOrNone]]
      /\ \A i \in 1..MaxRuns : \A q \in Paths : current'[i][q] =
           (IF i = run.no /\ q = run.path THEN Vacant ELSE current[i][q])
      /\ \A i \in 1..MaxRuns : i # run.no => current'[i] = current[i]
      /\ UNCHANGED <<claims, journals, made, ended, touches>>
  BY <1>1, <1>2 DEF Untouched, Visited, Broken, AtPath, Behind, Path, FileOrNone, MirrorTyped
<1>6. MirrorTyped'
  BY <1>1, <1>2, <1>4, <1>5 DEF MirrorTyped
<1>7. FilesKnown'
  <2>1. \A p \in Paths : {there[p], run.backup[p]}' \subseteq made' \cup {Vacant}
    BY <1>1, <1>2, <1>4, <1>5 DEF FilesKnown
  <2>2. \A i \in 1..MaxRuns : \A p \in Paths : {claims[i][p], current[i][p]}' \subseteq made' \cup {Vacant}
    BY <1>1, <1>2, <1>4, <1>5 DEF FilesKnown
  <2>3. \A f \in made' : (f.by = "user" => f.n <= touches') /\ (f.by = "new" => f.n <= run'.no)
    BY <1>1, <1>2, <1>4, <1>5 DEF FilesKnown
  <2>4. \A i \in 1..MaxRuns : i > run'.no => claims'[i] = AllEmpty /\ current'[i] = AllEmpty
    BY <1>1, <1>2, <1>4, <1>5 DEF FilesKnown
  <2> QED BY <2>1, <2>2, <2>3, <2>4 DEF FilesKnown
<1>8. StageKept'
  BY <1>1, <1>2, <1>4, <1>5 DEF StageKept, Publishing, Obsolete
<1>9. HereKept'
  BY <1>1, <1>2, <1>4, <1>5 DEF HereKept, Obsolete
<1>10. CommitKept'
  BY <1>1, <1>2, <1>4, <1>5 DEF CommitKept, HereKept, StageKept, Obsolete
<1>11. CleanupKept'
  BY <1>1, <1>2, <1>4, <1>5 DEF CleanupKept, Renamed, Here
<1>12. NothingVanishes'
  <2> SUFFICES ASSUME NEW f \in made' \ ended' PROVE OnDisk(f)'
    BY DEF NothingVanishes
  <2>1. f \in made \ ended /\ OnDisk(f)
    BY <1>1, <1>2, <1>5 DEF NothingVanishes
  <2>2. f # Vacant
    BY <1>1, <1>2, <1>5, Absent DEF MirrorTyped
  <2> QED BY <1>2, <1>3, <1>5, <2>1, <2>2 DEF OnDisk, PathInv, PublishKept, RollbackKept, Publishing,
             RollingBack, ToCome, Doing, FileOrNone
<1>13. UndoneMeansBefore'
  BY <1>1, <1>2, <1>4, <1>5, <1>3 DEF PathInv, UndoneMeansBefore, New, Written, Renamed
<1>14. CommittedMeansWhole'
  BY <1>1, <1>2, <1>4, <1>5 DEF CommittedMeansWhole, New, Written, Obsolete
<1>15. LeftoversAnnounced'
  BY <1>1, <1>2, <1>4, <1>5, <1>3 DEF PathInv, LeftoversAnnounced, Renamed
<1>16. ASSUME NEW q \in Paths PROVE PathInv(q)'
  <2>1. JournalKept(q)'
    BY <1>1, <1>2, <1>4, <1>5, <1>3 DEF PathInv, JournalKept, New, Written
  <2>2. PublishKept(q)'
    BY <1>1, <1>2, <1>4, <1>5, <1>3 DEF PathInv, PublishKept, New, Written, ToCome, Doing, Gone, Publishing
  <2>3. ReachedKept(q)'
    BY <1>1, <1>2, <1>4, <1>5, <1>3 DEF PathInv, ReachedKept, New, Written, Here, Gone, Whole, Publishing, Obsolete
  <2>4. AwayKept(q)'
    <3>1. CASE q = run.path
      BY <1>1, <1>2, <1>3, <1>4, <1>5, <3>1 DEF PathInv, AwayKept, Renamed
    <3>2. CASE q # run.path
      BY <1>1, <1>2, <1>3, <1>4, <1>5, <3>2 DEF PathInv, AwayKept, Renamed
    <3> QED BY <3>1, <3>2
  <2>5. RollbackKept(q)'
    <3>1. CASE q = run.path
      BY <1>1, <1>2, <1>3, <1>4, <1>5, <3>1 DEF PathInv, RollbackKept, New, Written, Doing, RollingBack
    <3>2. CASE q # run.path
      BY <1>1, <1>2, <1>3, <1>4, <1>5, <3>2 DEF PathInv, RollbackKept, New, Written, Doing, RollingBack
    <3> QED BY <3>1, <3>2
  <2>6. UndoneKept(q)'
    BY <1>1, <1>2, <1>4, <1>5, <1>3 DEF PathInv, UndoneKept, New, Written, Doing, RollingBack, Here, Restored, Renamed
  <2> QED BY <2>1, <2>2, <2>3, <2>4, <2>5, <2>6 DEF PathInv
<1> QED BY <1>6, <1>7, <1>8, <1>9, <1>10, <1>11, <1>12, <1>13, <1>14, <1>15, <1>16 DEF MirrorInv, MirrorHonest

\* The invariant holds at first.
LEMMA MirrorStarts == ASSUME MirrorInit PROVE MirrorInv
<1>1. AllEmpty \in [Paths -> FileOrNone] /\ MaxRuns \in Nat
  BY BoundsAssumption DEF AllEmpty, FileOrNone
<1>2. run = [no |-> 0, pc |-> "off", left |-> {}, path |-> Vacant, does |-> "none", prior |-> {},
             backup |-> AllEmpty, published |-> {}, pending |-> {}, claimed |-> {}, committed |-> FALSE, error |-> FALSE]
  BY DEF MirrorInit, Idle
<1>3. run \in MirrorRec
  BY <1>1, <1>2 DEF MirrorRec, MirrorStages, MirrorOps
<1>4. /\ run.no = 0 /\ run.pc = "off" /\ run.left = {} /\ run.does = "none" /\ run.backup = AllEmpty
      /\ run.committed = FALSE
  BY <1>2
<1>5. \A p \in Paths : \/ there[p] = Vacant
                       \/ there[p] \in MirrorFiles /\ there[p].by = "old"
  <2> SUFFICES ASSUME NEW p \in Paths
               PROVE  there[p] = Vacant \/ (there[p] \in MirrorFiles /\ there[p].by = "old")
    OBVIOUS
  <2>1. Written("old", 0, p) \in MirrorFiles /\ Written("old", 0, p).by = "old"
    BY DEF Written, MirrorFiles
  <2> QED BY <2>1 DEF MirrorInit, AllEmpty
<1>6. there \in [Paths -> FileOrNone]
  <2>1. \A p \in Paths : there[p] \in FileOrNone
    BY <1>5 DEF FileOrNone
  <2> QED BY <2>1 DEF MirrorInit, AllEmpty
<1>7. /\ claims = [i \in 1..MaxRuns |-> AllEmpty] /\ current = [i \in 1..MaxRuns |-> AllEmpty]
      /\ made = {there[p] : p \in Paths} \ {Vacant} /\ ended = {} /\ touches = 0
  BY DEF MirrorInit
<1>8. made \subseteq MirrorFiles /\ \A f \in made : f.by = "old"
  BY <1>5, <1>7
<1>9. MirrorTyped
  BY <1>1, <1>3, <1>4, <1>6, <1>7, <1>8 DEF MirrorTyped
<1>10. FilesKnown
  <2>1. \A p \in Paths : {there[p], run.backup[p]} \subseteq made \cup {Vacant}
    BY <1>4, <1>7 DEF AllEmpty
  <2>2. \A i \in 1..MaxRuns : \A p \in Paths : {claims[i][p], current[i][p]} \subseteq made \cup {Vacant}
    BY <1>7 DEF AllEmpty
  <2>3. \A i \in 1..MaxRuns : claims[i] = AllEmpty /\ current[i] = AllEmpty
    BY <1>7
  <2> QED BY <1>8, <2>1, <2>2, <2>3 DEF FilesKnown
<1>11. StageKept /\ HereKept /\ CommitKept /\ CleanupKept
  BY <1>4 DEF StageKept, HereKept, CommitKept, CleanupKept, Publishing
<1>12. MirrorHonest
  BY <1>4, <1>7 DEF MirrorHonest, NothingVanishes, OnDisk, UndoneMeansBefore, CommittedMeansWhole,
     LeftoversAnnounced
<1> QED BY <1>4, <1>9, <1>10, <1>11, <1>12 DEF MirrorInv

\* Every end of a stage keeps the invariant.
LEMMA NextStageKept == ASSUME MirrorInv, NextStage, Untouched PROVE MirrorInv'
<1>1. run.does = "none" /\ run.left = {} /\ UNCHANGED <<there, claims, current, journals, made, ended>>
  BY DEF NextStage
<1>2. CASE run.pc = "files" /\ run' = Stage("obsolete", Obsolete)
  BY <1>1, <1>2, FilesDoneKept
<1>3. CASE run.pc = "obsolete" /\ run' = Stage("list", {})
  BY <1>1, <1>3, ObsoleteDoneKept
<1>4. CASE run.pc = "manifest" /\ run' = Stage("relist", {})
  BY <1>1, <1>4, ManifestDoneKept
<1>5. CASE run.pc = "discard" /\ run' = Stage("unlist", {})
  BY <1>1, <1>5, DiscardDoneKept
<1>6. CASE run.pc = "retract" /\ run' = Stage("unpublish", {})
  BY <1>1, <1>6, RetractDoneKept
<1>7. CASE run.pc = "restore" /\ run' = Stage("off", {})
  BY <1>1, <1>7, RestoreDoneKept
<1> QED BY <1>2, <1>3, <1>4, <1>5, <1>6, <1>7 DEF NextStage

\* Every step of a run keeps the invariant.
LEMMA WorksKept == ASSUME MirrorInv, Works PROVE MirrorInv'
<1>1. Untouched
  BY DEF Works, Untouched
<1>2. CASE NextPath
  <2>1. PICK p \in run.left : run' = [run EXCEPT !.left = @ \ {p}, !.path = p, !.does = FirstHere(p)]
    BY <1>2 DEF NextPath
  <2>2. run.does = "none" /\ UNCHANGED <<there, claims, current, journals, made, ended>>
    BY <1>2 DEF NextPath
  <2> QED BY <1>1, <2>1, <2>2, NextPathKept
<1>3. CASE ListClaims
  <2>1. CASE run.pc = "list"
    BY <1>1, <1>3, <2>1, FirstListKept
  <2>2. CASE run.pc = "relist"
    BY <1>1, <1>3, <2>2, LastListKept
  <2> QED BY <1>3, <2>1, <2>2 DEF ListClaims
<1>4. CASE Unlist
  <2>1. CASE run.pc = "unlist"
    BY <1>1, <1>4, <2>1, LastUnlistKept
  <2>2. CASE run.pc = "unpublish"
    BY <1>1, <1>4, <2>2, FirstUnlistKept
  <2> QED BY <1>4, <2>1, <2>2 DEF Unlist
<1>5. CASE NextStage \/ Look \/ Claim \/ Check \/ Link \/ Confirm
  BY <1>1, <1>5, NextStageKept, LookKept, ClaimKept, CheckKept, LinkKept, ConfirmKept
<1>6. CASE Discard \/ Retract \/ Retracted \/ Return \/ Compare
  BY <1>1, <1>6, DiscardKept, RetractKept, RetractedKept, ReturnKept, CompareKept
<1> QED BY <1>2, <1>3, <1>4, <1>5, <1>6 DEF Works

\* A step that fails and moves nothing keeps the invariant.
LEMMA RunFails ==
  ASSUME MirrorInv, run' = FailsHere, Untouched, UNCHANGED <<there, claims, current, journals, made, ended>>,
         run.does # "none" \/ run.pc \in {"list", "relist", "unlist", "unpublish"}
  PROVE  MirrorInv'
<1>1. run.pc \in MirrorStages /\ StageKept
  BY Named DEF MirrorRec
<1>2. CASE Publishing /\ ~run.committed
  <2>1. run' = Stage("retract", (run.published \cup run.pending) \ run.prior)
    BY <1>2 DEF FailsHere, Publishing, CleaningUp
  <2> QED BY <1>2, <2>1, RollbackBegunKept
<1>3. CASE (Publishing /\ run.committed) \/ CleaningUp
  <2>1. run' = Broken(Stage("off", {})) /\ run.pc # "off"
    BY <1>3 DEF FailsHere, Publishing, CleaningUp
  <2> QED BY <2>1, OffKept
<1>4. CASE run.pc = "unpublish"
  <2>1. run' = Broken(Stage("restore", run.prior))
    BY <1>4 DEF FailsHere, Publishing, CleaningUp
  <2> QED BY <1>4, <2>1, UnpublishKept
<1>5. CASE ~Publishing /\ ~CleaningUp /\ run.pc # "unpublish"
  <2>1. run' = Broken(Visited)
    BY <1>5 DEF FailsHere
  <2>2. run.pc \in {"retract", "restore"} /\ run.does # "none"
    BY <1>1, <1>5 DEF MirrorStages, StageKept, Publishing, CleaningUp
  <2> QED BY <2>1, <2>2, NotedKept
<1> QED BY <1>2, <1>3, <1>4, <1>5

\* A step that cannot be done keeps the invariant.
LEMMA FailsKept == ASSUME MirrorInv, Fails PROVE MirrorInv'
<1>1. /\ Untouched /\ GivesBack /\ run' = FailsHere /\ UNCHANGED <<journals, made, ended>>
      /\ run.does # "none"
  BY DEF Fails, Untouched, Unable
<1>2. CASE UNCHANGED <<there, claims, current>>
  BY <1>1, <1>2, RunFails
<1>3. CASE run.does = "check" /\ there[Path] = Vacant
  <2>1. Publishing /\ ~run.committed
    BY <1>3, PublishOps
  <2>2. run' = Stage("retract", (run.published \cup run.pending) \ run.prior)
    BY <1>1, <2>1 DEF FailsHere, Publishing, CleaningUp
  <2>3. AtPath(Renamed[Path]) /\ Aside(Vacant) /\ UNCHANGED current
    BY <1>1, <1>3 DEF GivesBack
  <2> QED BY <1>1, <1>3, <2>2, <2>3, GivesClaimKept DEF Path
<1>4. CASE run.does \in {"return", "retracted"} /\ there[Path] = Vacant
  <2>1. run.pc \in {"retract", "restore"}
    BY <1>4, UndoOps
  <2>2. run' = Broken(Visited)
    BY <1>1, <2>1 DEF FailsHere, Publishing, CleaningUp
  <2>3. CASE run.does = "return"
    <3>1. AtPath(Renamed[Path]) /\ Aside(Vacant) /\ UNCHANGED current
      BY <1>1, <1>4, <2>3 DEF GivesBack
    <3> QED BY <1>1, <1>4, <2>2, <2>3, <3>1, GivesBackupKept DEF Path
  <2>4. CASE run.does = "retracted"
    <3>1. AtPath(current[run.no][Path]) /\ Behind(Vacant) /\ UNCHANGED claims
      BY <1>1, <1>4, <2>4 DEF GivesBack
    <3> QED BY <1>1, <1>4, <2>2, <2>4, <3>1, GivesNewKept DEF Path
  <2> QED BY <1>4, <2>3, <2>4
<1> QED BY <1>1, <1>2, <1>3, <1>4 DEF GivesBack

\* Every step keeps the invariant.
LEMMA MirrorMoves == ASSUME MirrorInv, [MirrorNext]_mirrorVars PROVE MirrorInv'
<1>1. CASE BeginMirror \/ CaptureBackups \/ Works \/ Fails
  BY <1>1, BeginKept, CaptureKept, WorksKept, FailsKept
<1>2. CASE Raises
  <2>1. run' = FailsHere /\ UNCHANGED <<there, claims, current, journals, made, ended, touches, kills>>
    BY <1>2 DEF Raises
  <2>2. run.does # "none" \/ run.pc \in {"list", "relist", "unlist", "unpublish"}
    BY <1>2 DEF Raises
  <2> QED BY <2>1, <2>2, RunFails DEF Untouched
<1>3. CASE Killed
  <2>1. run.pc # "off" /\ run' = Broken(Stage("off", {})) /\ UNCHANGED <<there, claims, current, journals, made, ended, touches>>
    BY <1>3 DEF Killed
  <2> QED BY <2>1, OffKept DEF Untouched
<1>4. ASSUME NEW p \in Paths \ {M}, Touch(p) PROVE MirrorInv'
  <2>1. PICK f \in {Written("user", touches + 1, p), Vacant} \ {there[p]} :
          Touches(there[p], f) /\ there' = [there EXCEPT ![p] = f] /\ UNCHANGED claims
    BY <1>4 DEF Touch
  <2> QED BY <2>1, TouchKept
<1>5. ASSUME NEW p \in Paths \ {M}, TouchClaim(p) PROVE MirrorInv'
  <2>1. /\ run.no > 0 /\ claims[run.no][p] # Vacant /\ UNCHANGED there
        /\ Touches(claims[run.no][p], Written("user", touches + 1, p))
        /\ claims' = [claims EXCEPT ![run.no][p] = Written("user", touches + 1, p)]
    BY <1>5 DEF TouchClaim, Renamed
  <2> QED BY <2>1, TouchClaimKept
<1>6. CASE UNCHANGED mirrorVars
  BY <1>6 DEF mirrorVars, MirrorInv, MirrorTyped, FilesKnown, StageKept, HereKept, CommitKept, CleanupKept, PathInv,
             JournalKept, PublishKept, ReachedKept, AwayKept, RollbackKept, UndoneKept, MirrorHonest, NothingVanishes,
             OnDisk, UndoneMeansBefore, CommittedMeansWhole, LeftoversAnnounced, Publishing, RollingBack, Obsolete,
             ToCome, Here, Doing, Gone, Whole, Restored, Renamed, New
<1> QED BY <1>1, <1>2, <1>3, <1>4, <1>5, <1>6 DEF MirrorNext

\* _publish_transaction, _rollback_publication, the cleanup, the user and every
\* failure keep the invariant.
THEOREM MirrorInvariant == MirrorSpec => []MirrorInv
<1>1. MirrorInit => MirrorInv
  BY MirrorStarts
<1>2. MirrorInv /\ [MirrorNext]_mirrorVars => MirrorInv'
  BY MirrorMoves
<1> QED BY <1>1, <1>2, PTL DEF MirrorSpec

\* _publish_transaction and _rollback_publication: no file of the user's and
\* nothing that can still be needed vanishes, an undone run leaves what it found, a
\* committed one is whole, and what it leaves aside is announced.
THEOREM MirrorStaysHonest == MirrorSpec => []MirrorHonest
<1>1. MirrorInv => MirrorHonest
  BY DEF MirrorInv
<1> QED BY <1>1, MirrorInvariant, PTL

-----------------------------------------------------------------------------
(***************************************************************************)
(* The directories of projects, for callers that see to what Undisturbed   *)
(* says.                                                                   *)
(***************************************************************************)

\* A project's directory.  One that has the project's id for its name counts
\* once there is a file in it.
Home(n, p) == Bears(n, p) /\ (n # p \/ IsProjectDir(n))

Contains(t) == [on : BOOLEAN, has : SUBSET Threads, title : t]
DirRec == [there : BOOLEAN, marker : Projects \cup {NoId}, project : Contains(Names \cup {Keep}), manifest : Contains({Keep})]
Pcs == [update |-> {"read", "locate", "mark", "again", "write"},
        save |-> {"find", "name", "rename", "mark", "write"}, delete |-> {"move"}]
AllPcs == {"start", "done", "failed", "read", "locate", "mark", "again", "write", "find", "name", "rename", "move"}
CallRec == [pc : AllPcs, at : Names \cup {NoDir}, old : Names \cup {NoDir}, copy : SUBSET Threads, title : Names \cup {Keep}]

\* Directories, locks and calls are well formed.
ProjectsTyped ==
  /\ dirs \in [Names -> DirRec] /\ lock \in [Projects -> Threads \cup {NoThread}] /\ th \in [Threads -> CallRec]
  /\ \A t \in Threads : InProgress(t) => th[t].pc \in Pcs[Op[t].kind]

\* A directory that is there has a marker, and a name that is tried for its project.
DirKept(n) ==
  /\ ~dirs[n].there => dirs[n] = Empty
  /\ dirs[n].there => dirs[n].marker \in Projects /\ n \in Tried(dirs[n].marker)
  /\ dirs[n].project = Missing \/ (dirs[n].project.on /\ dirs[n].project.title \in Titles(dirs[n].marker))
  /\ dirs[n].manifest = Missing \/ dirs[n].manifest.on

DirsKept == \A n \in Names : DirKept(n)

\* A project that is settled is where its title says.
SettledKept ==
  \A n \in Names : dirs[n].project.on /\ Settled(dirs[n].marker) => n = Numbered[dirs[n].project.title][1]

OneEach == \A p \in Projects : \A m, n \in Names : Home(m, p) /\ Home(n, p) => m = n

\* A project's lock is held by the transaction that is in progress.
LocksKept ==
  /\ \A p \in Projects : lock[p] # NoThread => P(lock[p]) = p /\ Op[lock[p]].kind = "update" /\ InProgress(lock[p])
  /\ \A t \in Threads : Op[t].kind = "update" /\ InProgress(t) => lock[P(t)] = t

CallsApart == \A t, u \in Threads : t # u /\ InProgress(t) /\ InProgress(u) => {t, u} \notin Apart

\* What a call has found is still so.
UpdateKept(t) ==
  /\ At(t) = ProjectDir(P(t))
  /\ th[t].pc \in {"again", "write"} => Bears(At(t), P(t))
  /\ th[t].pc # "read" => th[t].copy = dirs[At(t)].manifest.has \cup {t}

SaveKept(t) ==
  /\ th[t].title \in Titles(P(t))
  /\ th[t].copy = dirs[ProjectDir(P(t))].project.has \cup {t}
  /\ th[t].pc \in {"rename", "mark", "write"} => At(t) \in Names
  /\ th[t].pc \in {"name", "rename"} => th[t].old = FindById(P(t))
  /\ th[t].pc = "rename" => At(t) = UniqueFor(th[t].title, P(t))
  /\ th[t].pc = "mark" =>
       \/ Home(At(t), P(t))
       \/ /\ ~dirs[At(t)].there /\ At(t) \in Tried(P(t)) \ {P(t)}
          /\ \A n \in Names : ~Home(n, P(t))
  /\ th[t].pc = "write" => Home(At(t), P(t))
  /\ th[t].pc \in {"mark", "write"} /\ Settled(P(t)) => At(t) = Numbered[th[t].title][1]
  /\ Op[t].title = Keep /\ Settled(P(t)) => dirs[ProjectDir(P(t))].project.on

DeleteKept(t) == At(t) = ProjectDir(P(t)) /\ Home(At(t), P(t))

CallKept(t) ==
  /\ Op[t].kind = "update" => UpdateKept(t)
  /\ Op[t].kind = "save" => SaveKept(t)
  /\ Op[t].kind = "delete" => DeleteKept(t)

CallsKept == \A t \in Threads : InProgress(t) => CallKept(t)

\* What a call that is done has written is in its project's directory.
Holds(n, t) == t \in (IF Op[t].kind = "update" THEN dirs[n].manifest.has ELSE dirs[n].project.has)

DoneKept ==
  \A t \in Threads : Op[t].kind # "delete" /\ th[t].pc = "done" =>
    Trashed(t) \/ \E n \in Names : Home(n, P(t)) /\ Holds(n, t)

StoreKept == DirsKept /\ NoAliases /\ SettledKept /\ OneEach

ProjectInv == ProjectsTyped /\ StoreKept /\ LocksKept /\ CallsApart /\ CallsKept /\ DoneKept

-----------------------------------------------------------------------------
\* The first of a sequence's elements is one of them.
LEMMA FirstPlace ==
  ASSUME NEW s, NEW places \in SUBSET Nat, places # {}
  PROVE  \E i \in places : (\A j \in places : i <= j) /\ FirstAt(s, places) = s[i]
BY Least DEF FirstAt

\* The calls have projects and titles.
LEMMA OpFacts ==
  ASSUME NEW t \in Threads
  PROVE  /\ P(t) \in Projects /\ P(t) \in Names /\ Op[t].kind \in {"save", "update", "delete"}
         /\ Op[t].title \in Names \cup {Keep}
         /\ Op[t].kind = "save" /\ Op[t].title # Keep => Op[t].title \in Titles(P(t))
BY OpAssumption, NameAssumption DEF P, Titles

LEMMA TitleNames == ASSUME NEW p \in Projects, NEW title \in Titles(p) PROVE title \in Names /\ title # Keep
BY OpAssumption DEF Titles

\* Enough names are tried: one is free.
LEMMA FreeLeft ==
  ASSUME TitlesFit, DirsKept, OneEach, NEW p \in Projects, NEW title \in {p} \cup Titles(p)
  PROVE  \E i \in DOMAIN Numbered[title] : Free(Numbered[title][i], p)
<1>. DEFINE s == Numbered[title]
            A == Among(s)
            Q == Projects \ {p}
            T == Q \X (0..1)
            f == [n \in A |-> <<dirs[n].marker, IF Home(n, dirs[n].marker) THEN 1 ELSE 0>>]
<1>1. s \in Seq(Names) /\ Cardinality(A) > 2 * (Cardinality(Projects) - 1) /\ IsFiniteSet(Projects)
  BY DEF TitlesFit
<1>2. IsFiniteSet(A)
  <2>1. IsFiniteSet(1..Len(s))
    BY <1>1, FS_Interval
  <2>2. s \in Surjection(1..Len(s), A)
    BY <1>1 DEF Surjection, Among
  <2> QED BY <2>1, <2>2, FS_Surjection
<1>3. IsFiniteSet(Q) /\ Cardinality(Q) = Cardinality(Projects) - 1
  BY <1>1, FS_RemoveElement
<1>4. IsFiniteSet(0..1) /\ Cardinality(0..1) = 2
  <2>1. 0 \in Int /\ 1 \in Int
    OBVIOUS
  <2>2. /\ IsFiniteSet(0..1)
        /\ Cardinality(0..1) = IF 0 > 1 THEN 0 ELSE 1 - 0 + 1
    BY <2>1, FS_Interval
  <2> QED BY <2>2
<1>5. IsFiniteSet(T) /\ Cardinality(T) = Cardinality(Q) * Cardinality(0..1)
  BY <1>3, <1>4, FS_Product
<1>6. Cardinality(Projects) \in Nat /\ Cardinality(A) \in Nat
  BY <1>1, <1>2, FS_CardinalityType
<1>7. Cardinality(T) < Cardinality(A)
  <2>1. Cardinality(T) = 2 * (Cardinality(Projects) - 1)
    BY <1>3, <1>4, <1>5, <1>6
  <2> QED BY <2>1, <1>1
<1>8. SUFFICES ASSUME \A i \in DOMAIN s : ~Free(s[i], p) PROVE FALSE
  OBVIOUS
<1>9. \A n \in A : n \in Names /\ dirs[n].there /\ dirs[n].marker \in Q
  <2>1. TAKE n \in A
  <2>2. PICK i \in DOMAIN s : n = s[i]
    BY DEF Among
  <2>3. n \in Names
    BY <1>1, <2>2
  <2> QED BY <1>8, <2>2, <2>3 DEF Free, DirsKept, DirKept
<1>10. f \in [A -> T]
  BY <1>9 DEF Home, Bears
<1>11. \A n \in A : f[n] = <<dirs[n].marker, IF Home(n, dirs[n].marker) THEN 1 ELSE 0>>
  OBVIOUS
<1> HIDE DEF f, T, A, Q
<1>12. PICK m, n \in A : m # n /\ f[m] = f[n]
  BY <1>2, <1>5, <1>7, <1>10, FS_PigeonHole
<1>13. dirs[m].marker = dirs[n].marker /\ (Home(m, dirs[m].marker) <=> Home(n, dirs[n].marker))
  BY <1>11, <1>12
<1>14. dirs[m].there /\ dirs[n].there /\ m \in Names /\ n \in Names /\ dirs[m].marker \in Projects
  BY <1>9 DEF Q
<1> QED BY <1>12, <1>13, <1>14 DEF OneEach, Home, Bears

\* The name that is found is one of those tried.
LEMMA UniqueFacts ==
  ASSUME TitlesFit, DirsKept, OneEach, NEW p \in Projects, NEW title \in {p} \cup Titles(p)
  PROVE  /\ UniqueFor(title, p) \in Among(Numbered[title]) /\ UniqueFor(title, p) \in Names
         /\ UniqueFor(title, p) \in Tried(p)
         /\ Free(UniqueFor(title, p), p)
         /\ title \in Titles(p) => UniqueFor(title, p) # p
<1>. DEFINE s == Numbered[title]
            places == {i \in DOMAIN s : Free(s[i], p)}
<1>1. s \in Seq(Names)
  BY DEF TitlesFit
<1>2. places \in SUBSET Nat /\ places # {}
  BY <1>1, FreeLeft
<1>3. PICK i \in places : FirstAt(s, places) = s[i]
  BY <1>2, FirstPlace
<1>4. UniqueFor(title, p) = s[i]
  BY <1>3 DEF UniqueFor
<1>5. s[i] \in Among(s) /\ s[i] \in Names /\ Free(s[i], p)
  BY <1>1 DEF Among
<1>6. Among(s) \subseteq Tried(p)
  BY DEF Tried, Ids
<1>7. title \in Titles(p) => p \notin Among(s)
  BY DEF TitlesFit
<1> QED BY <1>4, <1>5, <1>6, <1>7

\* The name of a settled project is the first that is tried.
LEMMA SettledUnique ==
  ASSUME TitlesFit, DirsKept, NEW p \in Projects, NEW title \in Titles(p), Settled(p)
  PROVE  UniqueFor(title, p) = Numbered[title][1]
<1>. DEFINE s == Numbered[title]
            places == {i \in DOMAIN s : Free(s[i], p)}
<1>1. s \in Seq(Names) /\ Cardinality(Among(s)) > 2 * (Cardinality(Projects) - 1) /\ IsFiniteSet(Projects)
  BY DEF TitlesFit
<1>2. s # <<>>
  <2>1. SUFFICES ASSUME s = <<>> PROVE FALSE
    OBVIOUS
  <2>2. Among(s) = {}
    BY <2>1 DEF Among
  <2>3. Cardinality(Among(s)) = 0
    BY <2>2, FS_EmptySet
  <2>4. Cardinality(Projects) \in Nat /\ Cardinality(Projects) # 0
    BY <1>1, FS_CardinalityType, FS_EmptySet
  <2> QED BY <1>1, <2>3, <2>4
<1>3. 1 \in DOMAIN s /\ s[1] \in Names
  BY <1>1, <1>2
<1>4. Free(s[1], p)
  BY <1>3 DEF Settled, DirsKept, DirKept, Free
<1>5. places \in SUBSET Nat /\ 1 \in places /\ \A i \in places : 1 <= i
  BY <1>1, <1>3, <1>4
<1>6. PICK i \in places : (\A j \in places : i <= j) /\ FirstAt(s, places) = s[i]
  BY <1>5, FirstPlace
<1>7. i = 1
  BY <1>5, <1>6
<1> QED BY <1>6, <1>7 DEF UniqueFor


\* The look-up finds a project's directory.
LEMMA HomeFound ==
  ASSUME DirsKept, OneEach, NEW p \in Projects, NEW n \in Names, Home(n, p)
  PROVE  FindById(p) = n /\ ProjectDir(p) = n /\ n # NoDir
<1>. DEFINE named == {i \in DOMAIN Listing : Listing[i] # p /\ Bears(Listing[i], p)}
<1>0. n # NoDir /\ p \in Names /\ named \in SUBSET Nat
  BY NameAssumption, ListingAssumption
<1>1. CASE IsProjectDir(p) /\ MarkerFits(p, p)
  <2>1. Home(p, p)
    BY <1>0, <1>1, NameAssumption DEF IsProjectDir, MarkerFits, Home, Bears, DirsKept, DirKept
  <2>2. n = p
    BY <1>0, <2>1 DEF OneEach
  <2> QED BY <1>0, <1>1, <2>2 DEF FindById, ProjectDir
<1>2. CASE ~(IsProjectDir(p) /\ MarkerFits(p, p))
  <2>1. n # p
    BY <1>2 DEF Home, Bears, MarkerFits
  <2>2. PICK k \in DOMAIN Listing : Listing[k] = n
    BY ListingAssumption
  <2>3. k \in named
    BY <2>1, <2>2 DEF Home
  <2>4. PICK i \in named : FirstAt(Listing, named) = Listing[i]
    BY <1>0, <2>3, FirstPlace
  <2>5. Listing[i] \in Names
    BY ListingAssumption
  <2>6. Listing[i] = n
    BY <2>4, <2>5 DEF OneEach, Home
  <2> QED BY <1>0, <1>2, <2>3, <2>4, <2>6 DEF FindById, ProjectDir
<1> QED BY <1>1, <1>2

\* Without one it finds a name that is free, or an empty directory of that id.
LEMMA NoHome ==
  ASSUME TitlesFit, DirsKept, OneEach, NEW p \in Projects, \A n \in Names : ~Home(n, p)
  PROVE  /\ FindById(p) = NoDir
         /\ ProjectDir(p) \in Names /\ ProjectDir(p) \in Ids(p)
         /\ dirs[ProjectDir(p)].project = Missing /\ dirs[ProjectDir(p)].manifest = Missing
         /\ dirs[ProjectDir(p)].there => ProjectDir(p) = p /\ Bears(p, p)
<1>. DEFINE named == {i \in DOMAIN Listing : Listing[i] # p /\ Bears(Listing[i], p)}
<1>0. p \in Names /\ \A i \in DOMAIN Listing : Listing[i] \in Names
  BY NameAssumption, ListingAssumption
<1>1. ~(IsProjectDir(p) /\ MarkerFits(p, p))
  BY <1>0, NameAssumption DEF IsProjectDir, MarkerFits, Home, Bears, DirsKept, DirKept
<1>2. named = {}
  BY <1>0 DEF Home
<1>3. FindById(p) = NoDir
  BY <1>1, <1>2 DEF FindById
<1>4. CASE ~dirs[p].there \/ MarkerFits(p, p)
  <2>1. ProjectDir(p) = p
    BY <1>3, <1>4 DEF ProjectDir
  <2>2. dirs[p].there => Bears(p, p)
    BY <1>0, <1>4, NameAssumption DEF DirsKept, DirKept, MarkerFits, Bears
  <2>3. dirs[p].project = Missing /\ dirs[p].manifest = Missing
    BY <1>0, <1>1, <1>4 DEF DirsKept, DirKept, Empty, IsProjectDir
  <2> QED BY <1>0, <1>3, <2>1, <2>2, <2>3 DEF Ids
<1>5. CASE ~(~dirs[p].there \/ MarkerFits(p, p))
  <2>. DEFINE n == UniqueFor(p, p)
  <2>1. ProjectDir(p) = n
    BY <1>3, <1>5 DEF ProjectDir
  <2>2. n \in Among(Numbered[p]) /\ n \in Names /\ Free(n, p)
    BY UniqueFacts
  <2>3. ~dirs[n].there
    BY <2>2, <1>5 DEF Free, Home, Bears, MarkerFits
  <2>4. dirs[n] = Empty
    BY <2>2, <2>3 DEF DirsKept, DirKept
  <2> QED BY <1>3, <2>1, <2>2, <2>3, <2>4 DEF Empty, Ids
<1> QED BY <1>4, <1>5

\* What a call has for its project is in a name of the listing.
LEMMA DirFacts ==
  ASSUME TitlesFit, DirsKept, OneEach, NEW p \in Projects
  PROVE  /\ ProjectDir(p) \in Names /\ ProjectDir(p) \in Tried(p) /\ FindById(p) \in Names \cup {NoDir}
         /\ FindById(p) # NoDir => Home(FindById(p), p) /\ ProjectDir(p) = FindById(p)
         /\ IsProjectDir(ProjectDir(p)) => Home(ProjectDir(p), p)
         /\ dirs[ProjectDir(p)].there => Bears(ProjectDir(p), p)
<1>1. CASE \E n \in Names : Home(n, p)
  <2>1. PICK n \in Names : Home(n, p)
    BY <1>1
  <2>2. FindById(p) = n /\ ProjectDir(p) = n
    BY <2>1, HomeFound
  <2>3. n \in Tried(p) /\ Bears(n, p)
    BY <2>1 DEF Home, Bears, DirsKept, DirKept
  <2> QED BY <2>1, <2>2, <2>3
<1>2. CASE \A n \in Names : ~Home(n, p)
  <2>1. FindById(p) = NoDir /\ ProjectDir(p) \in Names /\ ProjectDir(p) \in Ids(p)
    BY <1>2, NoHome
  <2>2. /\ dirs[ProjectDir(p)].project = Missing /\ dirs[ProjectDir(p)].manifest = Missing
        /\ dirs[ProjectDir(p)].there => ProjectDir(p) = p /\ Bears(p, p)
    BY <1>2, NoHome
  <2>3. ~IsProjectDir(ProjectDir(p))
    BY <2>2 DEF IsProjectDir, Missing
  <2> QED BY <2>1, <2>2, <2>3 DEF Tried
<1> QED BY <1>1, <1>2

\* The look-up depends on nothing but who has which name.
LEMMA LookUpStays ==
  ASSUME DirsKept, DirsKept', NEW p \in Projects,
         \A n \in Names : Home(n, p)' <=> Home(n, p),
         \A n \in Ids(p) \cap Names : dirs'[n].there = dirs[n].there /\ dirs'[n].marker = dirs[n].marker,
         TitlesFit
  PROVE  FindById(p)' = FindById(p) /\ ProjectDir(p)' = ProjectDir(p)
<1>. DEFINE named == {i \in DOMAIN Listing : Listing[i] # p /\ Bears(Listing[i], p)}
            direct == IsProjectDir(p) /\ MarkerFits(p, p)
            places == {i \in DOMAIN Numbered[p] : Free(Numbered[p][i], p)}
<1>0. p \in Names /\ p \in Ids(p) /\ \A i \in DOMAIN Listing : Listing[i] \in Names
  BY NameAssumption, ListingAssumption DEF Ids
<1>1. named' = named
  BY <1>0 DEF Home
<1>2. direct <=> Home(p, p)
  BY <1>0, NameAssumption DEF DirsKept, DirKept, IsProjectDir, MarkerFits, Home, Bears
<1>3. direct' <=> Home(p, p)'
  BY <1>0, NameAssumption DEF DirsKept, DirKept, IsProjectDir, MarkerFits, Home, Bears
<1>4. direct' <=> direct
  BY <1>0, <1>2, <1>3
<1>5. FindById(p) = IF direct THEN p ELSE IF named = {} THEN NoDir ELSE FirstAt(Listing, named)
  BY DEF FindById
<1>6. FindById(p)' = IF direct' THEN p ELSE IF named' = {} THEN NoDir ELSE FirstAt(Listing, named')
  BY DEF FindById
<1>7. FindById(p)' = FindById(p)
  <2> HIDE DEF named, direct
  <2> QED BY <1>1, <1>4, <1>5, <1>6
<1>8. places' = places
  <2>1. \A i \in DOMAIN Numbered[p] : Numbered[p][i] \in Ids(p) \cap Names
    <3>1. Numbered[p] \in Seq(Names)
      BY DEF TitlesFit
    <3>2. \A i \in DOMAIN Numbered[p] : Numbered[p][i] \in Names
      BY <3>1
    <3> QED BY <3>2 DEF Ids, Among
  <2> QED BY <2>1 DEF Free
<1>9. UniqueFor(p, p)' = UniqueFor(p, p)
  BY <1>8 DEF UniqueFor
<1>10. (~dirs[p].there \/ MarkerFits(p, p))' <=> (~dirs[p].there \/ MarkerFits(p, p))
  BY <1>0 DEF MarkerFits
<1> QED BY <1>7, <1>9, <1>10 DEF ProjectDir

\* What the look-up finds.
LookUps ==
  \A p \in Projects :
    /\ \A n \in Names : Home(n, p) => FindById(p) = n /\ ProjectDir(p) = n
    /\ (\A n \in Names : ~Home(n, p)) =>
         /\ FindById(p) = NoDir
         /\ dirs[ProjectDir(p)].project = Missing /\ dirs[ProjectDir(p)].manifest = Missing
    /\ dirs[p].there /\ dirs[p].marker = p => ProjectDir(p) = p \/ \E n \in Names : Home(n, p)
    /\ Settled(p) => \A title \in Titles(p) : UniqueFor(title, p) = Numbered[title][1]

LEMMA LookUpsKept == TitlesFit /\ DirsKept /\ OneEach => LookUps
<1>1. SUFFICES ASSUME TitlesFit, DirsKept, OneEach, NEW p \in Projects
               PROVE  LookUps!(p)
  BY DEF LookUps
<1>2. \A n \in Names : Home(n, p) => FindById(p) = n /\ ProjectDir(p) = n
  BY <1>1, HomeFound
<1>3. ASSUME \A n \in Names : ~Home(n, p)
      PROVE  /\ FindById(p) = NoDir
             /\ dirs[ProjectDir(p)].project = Missing /\ dirs[ProjectDir(p)].manifest = Missing
  BY <1>1, <1>3, NoHome
<1>4. ASSUME dirs[p].there, dirs[p].marker = p, \A n \in Names : ~Home(n, p) PROVE ProjectDir(p) = p
  BY <1>3, <1>4 DEF ProjectDir, MarkerFits
<1>5. Settled(p) => \A title \in Titles(p) : UniqueFor(title, p) = Numbered[title][1]
  BY <1>1, SettledUnique
<1> QED BY <1>2, <1>3, <1>4, <1>5

LEMMA LookUpsNext == TitlesFit /\ DirsKept' /\ OneEach' => LookUps'
<1>1. TitlesFit => TitlesFit'
  BY DEF TitlesFit, Titles, P
<1> QED BY <1>1, LookUpsKept, PTL


-----------------------------------------------------------------------------
\* A marker is written in a project's directory, or in an empty one.
LEMMA MarkKeeps ==
  ASSUME dirs \in [Names -> DirRec], StoreKept, NEW p \in Projects, NEW n \in Names,
         Bears(n, p) \/ (~dirs[n].there /\ n \in Tried(p) /\ \A m \in Names : ~Home(m, p)),
         dirs' = [dirs EXCEPT ![n] = [@ EXCEPT !.there = TRUE, !["marker"] = p]]
  PROVE  /\ dirs' \in [Names -> DirRec] /\ StoreKept'
         /\ Bears(n, p)' /\ dirs'[n].project = dirs[n].project /\ dirs'[n].manifest = dirs[n].manifest
         /\ \A m \in Names \ {n} : dirs'[m] = dirs[m]
         /\ \A m \in Names : \A q \in Projects : Home(m, q)' <=> Home(m, q) \/ (m = n /\ q = p /\ n # p)
<1>0. dirs[n] \in DirRec
  OBVIOUS
<1>1. /\ dirs'[n] \in DirRec
      /\ dirs'[n].there /\ dirs'[n].marker = p
      /\ dirs'[n].project = dirs[n].project /\ dirs'[n].manifest = dirs[n].manifest
  BY <1>0 DEF DirRec
<1>2. DOMAIN dirs' = Names /\ \A m \in Names \ {n} : dirs'[m] = dirs[m]
  OBVIOUS
<1>3. dirs' \in [Names -> DirRec]
  <2> HIDE DEF DirRec
  <2> QED BY <1>1
<1>4. \A m \in Names : \A q \in Projects : Home(m, q)' <=> Home(m, q) \/ (m = n /\ q = p /\ n # p)
  <2>1. TAKE m \in Names
  <2>2. TAKE q \in Projects
  <2>3. CASE m # n
    BY <1>2, <2>3 DEF Home, Bears, IsProjectDir
  <2>4. CASE m = n /\ dirs[n].there
    BY <1>1, <2>4 DEF Home, Bears, IsProjectDir
  <2>5. CASE m = n /\ ~dirs[n].there
    <3>1. dirs[n] = Empty
      BY <2>5 DEF StoreKept, DirsKept, DirKept
    <3>2. ~IsProjectDir(n)'
      BY <1>1, <3>1 DEF Empty, Missing, IsProjectDir
    <3> QED BY <1>1, <2>5, <3>2 DEF Home, Bears
  <2> QED BY <2>3, <2>4, <2>5
<1>5. DirsKept'
  <2>1. \A m \in Names \ {n} : DirKept(m)'
    BY <1>2 DEF StoreKept, DirsKept, DirKept
  <2>2. n \in Tried(p)
    BY DEF StoreKept, DirsKept, DirKept, Bears
  <2>3. dirs[n].project = Missing \/ (dirs[n].project.on /\ dirs[n].project.title \in Titles(p))
    BY DEF StoreKept, DirsKept, DirKept, Bears, Empty
  <2>4. DirKept(n)'
    BY <1>1, <2>2, <2>3 DEF StoreKept, DirsKept, DirKept
  <2> QED BY <2>1, <2>4 DEF DirsKept
<1>6. NoAliases'
  <2>1. dirs[n].there \/ (dirs[n].project.has = {} /\ dirs[n].manifest.has = {})
    BY DEF StoreKept, DirsKept, DirKept, Empty, Missing
  <2> QED BY <1>1, <1>2, <2>1 DEF StoreKept, NoAliases, Bears
<1>7. SettledKept'
  <2>1. dirs[n].there \/ ~dirs[n].project.on
    BY DEF StoreKept, DirsKept, DirKept, Empty, Missing
  <2> QED BY <1>1, <1>2, <2>1 DEF StoreKept, SettledKept, Bears
<1>8. OneEach'
  <2>1. Bears(n, p) /\ n # p => Home(n, p)
    BY DEF Home
  <2> QED BY <1>4, <2>1 DEF StoreKept, OneEach
<1> QED BY <1>1, <1>2, <1>3, <1>4, <1>5, <1>6, <1>7, <1>8 DEF StoreKept, Bears

\* A manifest is written in a project's directory.
LEMMA ManifestKeeps ==
  ASSUME dirs \in [Names -> DirRec], StoreKept, NEW p \in Projects, NEW n \in Names,
         Bears(n, p), \A m \in Names : Home(m, p) => m = n,
         NEW copy \in SUBSET Threads, \A u \in copy : P(u) = p,
         dirs' = [dirs EXCEPT ![n] = [@ EXCEPT !.there = TRUE, !["manifest"] = File(copy, Keep)]]
  PROVE  /\ dirs' \in [Names -> DirRec] /\ StoreKept'
         /\ Bears(n, p)' /\ dirs'[n].project = dirs[n].project /\ dirs'[n].manifest.has = copy
         /\ \A m \in Names \ {n} : dirs'[m] = dirs[m]
         /\ \A m \in Names : \A q \in Projects : Home(m, q)' <=> Home(m, q) \/ (m = n /\ q = p)
<1>0. dirs[n] \in DirRec /\ File(copy, Keep) \in Contains({Keep})
  BY DEF File, Contains
<1>1. /\ dirs'[n] \in DirRec
      /\ dirs'[n].there /\ dirs'[n].marker = p
      /\ dirs'[n].project = dirs[n].project /\ dirs'[n].manifest = File(copy, Keep)
  BY <1>0 DEF DirRec, Bears
<1>a. File(copy, Keep).on /\ File(copy, Keep).has = copy
  BY DEF File
<1>2. DOMAIN dirs' = Names /\ \A m \in Names \ {n} : dirs'[m] = dirs[m]
  OBVIOUS
<1>3. dirs' \in [Names -> DirRec]
  <2> HIDE DEF DirRec
  <2> QED BY <1>1
<1>4. \A m \in Names : \A q \in Projects : Home(m, q)' <=> Home(m, q) \/ (m = n /\ q = p)
  <2>1. TAKE m \in Names
  <2>2. TAKE q \in Projects
  <2>3. CASE m # n
    BY <1>2, <2>3 DEF Home, Bears, IsProjectDir
  <2>4. CASE m = n
    BY <1>1, <1>a, <2>4 DEF Home, Bears, IsProjectDir
  <2> QED BY <2>3, <2>4
<1>5. DirsKept'
  <2>1. \A m \in Names \ {n} : DirKept(m)'
    BY <1>2 DEF StoreKept, DirsKept, DirKept
  <2>2. DirKept(n)'
    BY <1>1, <1>a DEF StoreKept, DirsKept, DirKept, Bears
  <2> QED BY <2>1, <2>2 DEF DirsKept
<1>6. NoAliases'
  BY <1>1, <1>2, <1>a DEF StoreKept, NoAliases, Bears
<1>7. SettledKept'
  BY <1>1, <1>2 DEF StoreKept, SettledKept, Bears
<1>8. OneEach'
  BY <1>4 DEF StoreKept, OneEach
<1> QED BY <1>1, <1>2, <1>3, <1>4, <1>5, <1>6, <1>7, <1>8, <1>a DEF StoreKept, Bears

\* A project is written in its directory.
LEMMA ProjectKeeps ==
  ASSUME dirs \in [Names -> DirRec], StoreKept, NEW p \in Projects, NEW n \in Names, Home(n, p),
         NEW copy \in SUBSET Threads, \A u \in copy : P(u) = p,
         NEW title \in Titles(p), Settled(p) => n = Numbered[title][1],
         dirs' = [dirs EXCEPT ![n] = [@ EXCEPT !.there = TRUE, !["project"] = File(copy, title)]]
  PROVE  /\ dirs' \in [Names -> DirRec] /\ StoreKept'
         /\ Bears(n, p)' /\ dirs'[n].manifest = dirs[n].manifest
         /\ dirs'[n].project.has = copy /\ dirs'[n].project.on
         /\ \A m \in Names \ {n} : dirs'[m] = dirs[m]
         /\ \A m \in Names : \A q \in Projects : Home(m, q)' <=> Home(m, q)
<1>0. dirs[n] \in DirRec /\ File(copy, title) \in Contains(Names \cup {Keep}) /\ Bears(n, p)
  BY TitleNames DEF File, Contains, Home
<1>1. /\ dirs'[n] \in DirRec
      /\ dirs'[n].there /\ dirs'[n].marker = p
      /\ dirs'[n].manifest = dirs[n].manifest /\ dirs'[n].project = File(copy, title)
  BY <1>0 DEF DirRec, Bears
<1>a. File(copy, title).on /\ File(copy, title).has = copy /\ File(copy, title).title = title
  BY DEF File
<1>2. DOMAIN dirs' = Names /\ \A m \in Names \ {n} : dirs'[m] = dirs[m]
  OBVIOUS
<1>3. dirs' \in [Names -> DirRec]
  <2> HIDE DEF DirRec
  <2> QED BY <1>1
<1>4. \A m \in Names : \A q \in Projects : Home(m, q)' <=> Home(m, q)
  <2>1. TAKE m \in Names
  <2>2. TAKE q \in Projects
  <2>3. CASE m # n
    BY <1>2, <2>3 DEF Home, Bears, IsProjectDir
  <2>4. CASE m = n
    BY <1>1, <1>a, <2>4 DEF Home, Bears, IsProjectDir
  <2> QED BY <2>3, <2>4
<1>5. DirsKept'
  <2>1. \A m \in Names \ {n} : DirKept(m)'
    BY <1>2 DEF StoreKept, DirsKept, DirKept
  <2>2. DirKept(n)'
    BY <1>0, <1>1, <1>a DEF StoreKept, DirsKept, DirKept, Bears
  <2> QED BY <2>1, <2>2 DEF DirsKept
<1>6. NoAliases'
  BY <1>0, <1>1, <1>2, <1>a DEF StoreKept, NoAliases, Bears
<1>7. SettledKept'
  BY <1>1, <1>2, <1>a DEF StoreKept, SettledKept
<1>8. OneEach'
  BY <1>4 DEF StoreKept, OneEach
<1> QED BY <1>1, <1>2, <1>3, <1>4, <1>5, <1>6, <1>7, <1>8, <1>a DEF StoreKept, Bears

\* A directory goes to another name, and one is emptied.
LEMMA MoveKeeps ==
  ASSUME dirs \in [Names -> DirRec], StoreKept, NEW p \in Projects, NEW old \in Names, NEW n \in Names,
         Home(old, p), ~dirs[n].there, n \in Tried(p) \ {p}, Settled(p) => ~dirs[old].project.on,
         dirs' = [dirs EXCEPT ![n] = dirs[old], ![old] = Empty]
  PROVE  /\ dirs' \in [Names -> DirRec] /\ StoreKept'
         /\ dirs'[n] = dirs[old]
         /\ \A m \in Names : Home(m, p)' <=> m = n
         /\ \A m \in Names : \A q \in Projects \ {p} : Home(m, q)' <=> Home(m, q)
<1>0. dirs[old] \in DirRec /\ dirs[old].there /\ dirs[old].marker = p /\ n # old
  BY DEF Home, Bears
<1>1. Empty \in DirRec /\ ~Empty.there /\ ~Empty.project.on /\ Empty.project.has = {} /\ Empty.manifest.has = {}
      /\ Empty.project = Missing /\ Empty.manifest = Missing
  BY DEF Empty, Missing, DirRec, Contains
<1>2. DOMAIN dirs' = Names /\ dirs'[n] = dirs[old] /\ dirs'[old] = Empty /\ \A m \in Names \ {n, old} : dirs'[m] = dirs[m]
  BY <1>0
<1>3. dirs' \in [Names -> DirRec]
  <2> HIDE DEF DirRec
  <2> QED BY <1>0, <1>1
<1>4. \A m \in Names : Home(m, p)' <=> m = n
  <2>1. TAKE m \in Names
  <2>2. CASE m = n
    BY <1>0, <1>2, <2>2 DEF Home, Bears
  <2>3. CASE m = old
    BY <1>0, <1>1, <1>2, <2>3 DEF Home, Bears
  <2>4. CASE m \notin {n, old}
    BY <1>2, <2>4 DEF Home, Bears, IsProjectDir, StoreKept, OneEach
  <2> QED BY <2>2, <2>3, <2>4
<1>5. \A m \in Names : \A q \in Projects \ {p} : Home(m, q)' <=> Home(m, q)
  <2>1. TAKE m \in Names
  <2>2. TAKE q \in Projects \ {p}
  <2>3. CASE m = n
    BY <1>0, <1>2, <2>3 DEF Home, Bears
  <2>4. CASE m = old
    BY <1>0, <1>1, <1>2, <2>4 DEF Home, Bears
  <2>5. CASE m \notin {n, old}
    BY <1>2, <2>5 DEF Home, Bears, IsProjectDir
  <2> QED BY <2>3, <2>4, <2>5
<1>6. DirsKept'
  <2>1. \A m \in Names \ {n, old} : DirKept(m)'
    BY <1>2 DEF StoreKept, DirsKept, DirKept
  <2>2. DirKept(old)'
    BY <1>1, <1>2 DEF DirKept
  <2>3. DirKept(n)'
    BY <1>0, <1>2 DEF StoreKept, DirsKept, DirKept
  <2> QED BY <2>1, <2>2, <2>3 DEF DirsKept
<1>7. NoAliases'
  <2>1. \A m \in Names \ {old} : \E k \in Names : dirs'[m] = dirs[k]
    BY <1>2
  <2> QED BY <1>1, <1>2, <2>1 DEF StoreKept, NoAliases
<1>8. SettledKept'
  <2>1. SUFFICES ASSUME NEW m \in Names, dirs'[m].project.on, Settled(dirs'[m].marker)
                 PROVE  m = Numbered[dirs'[m].project.title][1]
    BY DEF SettledKept
  <2>2. m \notin {n, old}
    BY <1>0, <1>1, <1>2, <2>1
  <2> QED BY <1>2, <2>1, <2>2 DEF StoreKept, SettledKept
<1>9. OneEach'
  BY <1>4, <1>5 DEF StoreKept, OneEach
<1> QED BY <1>2, <1>3, <1>4, <1>5, <1>6, <1>7, <1>8, <1>9 DEF StoreKept

\* A project's directory goes to the trash.
LEMMA TrashKeeps ==
  ASSUME dirs \in [Names -> DirRec], StoreKept, NEW p \in Projects, NEW n \in Names, Home(n, p),
         dirs' = [dirs EXCEPT ![n] = Empty]
  PROVE  /\ dirs' \in [Names -> DirRec] /\ StoreKept'
         /\ \A m \in Names \ {n} : dirs'[m] = dirs[m]
         /\ \A m \in Names : ~Home(m, p)'
         /\ \A m \in Names : \A q \in Projects \ {p} : Home(m, q)' <=> Home(m, q)
<1>0. dirs[n].there /\ dirs[n].marker = p
  BY DEF Home, Bears
<1>1. Empty \in DirRec /\ ~Empty.there /\ ~Empty.project.on /\ Empty.project.has = {} /\ Empty.manifest.has = {}
      /\ Empty.project = Missing /\ Empty.manifest = Missing
  BY DEF Empty, Missing, DirRec, Contains
<1>2. DOMAIN dirs' = Names /\ dirs'[n] = Empty /\ \A m \in Names \ {n} : dirs'[m] = dirs[m]
  OBVIOUS
<1>3. dirs' \in [Names -> DirRec]
  <2> HIDE DEF DirRec
  <2> QED BY <1>1
<1>4. \A m \in Names : ~Home(m, p)'
  <2>1. \A m \in Names \ {n} : ~Home(m, p)'
    BY <1>2 DEF Home, Bears, IsProjectDir, StoreKept, OneEach
  <2> QED BY <1>1, <1>2, <2>1 DEF Home, Bears
<1>5. \A m \in Names : \A q \in Projects \ {p} : Home(m, q)' <=> Home(m, q)
  <2>1. \A m \in Names \ {n} : \A q \in Projects : Home(m, q)' <=> Home(m, q)
    BY <1>2 DEF Home, Bears, IsProjectDir
  <2> QED BY <1>0, <1>1, <1>2, <2>1 DEF Home, Bears
<1>6. DirsKept'
  BY <1>1, <1>2 DEF StoreKept, DirsKept, DirKept
<1>7. NoAliases'
  BY <1>1, <1>2 DEF StoreKept, NoAliases
<1>8. SettledKept'
  BY <1>1, <1>2 DEF StoreKept, SettledKept
<1>9. OneEach'
  BY <1>4, <1>5 DEF StoreKept, OneEach
<1> QED BY <1>2, <1>3, <1>4, <1>5, <1>6, <1>7, <1>8, <1>9 DEF StoreKept


-----------------------------------------------------------------------------
\* A call in progress goes on, or is over.
LEMMA Advances ==
  ASSUME ProjectsTyped, LocksKept, CallsApart, NEW t \in Threads, InProgress(t), NEW r \in CallRec,
         th' = [th EXCEPT ![t] = r], r.pc \in Pcs[Op[t].kind] \cup {"done", "failed"},
         Op[t].kind = "update" => r.pc \in Pcs["update"],
         dirs' \in [Names -> DirRec], UNCHANGED lock
  PROVE  /\ ProjectsTyped' /\ LocksKept' /\ CallsApart'
         /\ th'[t] = r /\ \A u \in Threads \ {t} : th'[u] = th[u]
         /\ InProgress(t)' <=> r.pc \notin {"done", "failed"}
<1>1. th \in [Threads -> CallRec] /\ lock \in [Projects -> Threads \cup {NoThread}]
  BY DEF ProjectsTyped
<1>2. th' \in [Threads -> CallRec] /\ th'[t] = r /\ \A u \in Threads \ {t} : th'[u] = th[u]
  <2> HIDE DEF CallRec
  <2> QED BY <1>1
<1>3. "start" \notin Pcs[Op[t].kind]
  BY OpFacts DEF Pcs
<1>4. InProgress(t)' <=> r.pc \notin {"done", "failed"}
  BY <1>2, <1>3 DEF InProgress
<1>5. \A u \in Threads : InProgress(u)' => InProgress(u)
  BY <1>2 DEF InProgress
<1>6. \A u \in Threads : InProgress(u)' => th'[u].pc \in Pcs[Op[u].kind]
  BY <1>2, <1>4, <1>5 DEF ProjectsTyped, InProgress
<1>7. ProjectsTyped'
  BY <1>1, <1>2, <1>6 DEF ProjectsTyped
<1>8. CallsApart'
  BY <1>5 DEF CallsApart
<1>9. Op[t].kind = "update" => InProgress(t)'
  BY <1>4 DEF Pcs
<1>10. \A u \in Threads : Op[u].kind = "update" /\ InProgress(u) => InProgress(u)'
  BY <1>2, <1>9 DEF InProgress
<1>11. LocksKept'
  <2>1. \A p \in Projects : lock[p] # NoThread => lock[p] \in Threads
    BY <1>1
  <2> QED BY <1>5, <1>10, <2>1 DEF LocksKept, P
<1> QED BY <1>2, <1>4, <1>7, <1>8, <1>11

\* What a call knows does not change while the directories do not.
LEMMA SameDirs ==
  ASSUME NEW u \in Threads, th'[u] = th[u], UNCHANGED dirs, CallKept(u)
  PROVE  CallKept(u)'
<1>1. \A n \in Names, p \in Projects : Bears(n, p)' = Bears(n, p) /\ Home(n, p)' = Home(n, p)
  BY DEF Bears, Home, IsProjectDir
<1>2. P(u)' = P(u) /\ At(u)' = At(u)
  BY DEF P, At
<1>3. FindById(P(u))' = FindById(P(u))
  BY DEF FindById, IsProjectDir, MarkerFits, Bears, P
<1>4. \A title : UniqueFor(title, P(u))' = UniqueFor(title, P(u))
  BY DEF UniqueFor, Free, P
<1>5. ProjectDir(P(u))' = ProjectDir(P(u))
  BY <1>3 DEF ProjectDir, UniqueFor, Free, MarkerFits, P
<1> QED BY <1>2, <1>3, <1>4, <1>5 DEF CallKept, UpdateKept, SaveKept, DeleteKept, Bears, Home, IsProjectDir

\* A call looks, or fails.
LEMMA Looks ==
  ASSUME ProjectInv, NEW t \in Threads, InProgress(t), NEW r \in CallRec,
         th' = [th EXCEPT ![t] = r], r.pc \in Pcs[Op[t].kind] \cup {"failed"},
         Op[t].kind = "update" => r.pc \in Pcs["update"],
         UNCHANGED <<dirs, trash, lock>>,
         r.pc # "failed" => CallKept(t)'
  PROVE  ProjectInv'
<1>0. ProjectsTyped /\ LocksKept /\ CallsApart
  BY DEF ProjectInv
<1>d. dirs \in [Names -> DirRec]
  BY <1>0 DEF ProjectsTyped
<1>1. /\ ProjectsTyped' /\ LocksKept' /\ CallsApart'
      /\ th'[t] = r /\ \A u \in Threads \ {t} : th'[u] = th[u]
      /\ InProgress(t)' <=> r.pc \notin {"done", "failed"}
  BY <1>0, <1>d, Advances
<1>2. StoreKept'
  BY DEF ProjectInv, StoreKept, DirsKept, DirKept, NoAliases, SettledKept, OneEach, Home, Bears, IsProjectDir
<1>3. CallsKept'
  <2>1. SUFFICES ASSUME NEW u \in Threads, InProgress(u)' PROVE CallKept(u)'
    BY DEF CallsKept
  <2>2. CASE u = t
    BY <1>1, <2>1, <2>2
  <2>3. CASE u # t
    <3>1. th'[u] = th[u] /\ CallKept(u)
      BY <1>1, <2>1, <2>3 DEF ProjectInv, CallsKept, InProgress
    <3> QED BY <3>1, SameDirs
  <2> QED BY <2>2, <2>3
<1>4. "done" \notin Pcs[Op[t].kind]
  BY OpFacts DEF Pcs
<1>5. DoneKept'
  BY <1>1, <1>4 DEF ProjectInv, DoneKept, Trashed, Home, Bears, IsProjectDir, Holds
<1> QED BY <1>1, <1>2, <1>3, <1>5 DEF ProjectInv

-----------------------------------------------------------------------------
\* A call that is not quiet is alone; quiet ones are as CalmCalls says.
LEMMA Company ==
  ASSUME CalmCalls, CallsApart, LocksKept, NEW t \in Threads, NEW u \in Threads, t # u, InProgress(t), InProgress(u)
  PROVE  /\ Quiet(t) /\ Quiet(u)
         /\ P(t) = P(u) => {Op[t].kind, Op[u].kind} = {"update", "save"}
         /\ P(t) # P(u) => Ids(P(t)) \cap Ids(P(u)) = {}
<1>1. {t, u} \notin Apart /\ {u, t} = {t, u}
  BY DEF CallsApart
<1>2. Quiet(t) /\ Quiet(u)
  BY <1>1 DEF CalmCalls
<1>3. P(t) = P(u) => "update" \in {Op[t].kind, Op[u].kind}
  BY <1>1 DEF CalmCalls
<1>4. ~(Op[t].kind = "update" /\ Op[u].kind = "update" /\ P(t) = P(u))
  BY DEF LocksKept
<1>5. P(t) # P(u) => Ids(P(t)) \cap Ids(P(u)) = {}
  BY <1>1 DEF CalmCalls
<1> QED BY <1>2, <1>3, <1>4, <1>5 DEF Quiet

\* A quiet edit has its project's directory, whose name is the first that is tried.
LEMMA EditFacts ==
  ASSUME TitlesFit, StoreKept, NEW u \in Threads, SaveKept(u), Settled(P(u)), Op[u].title = Keep
  PROVE  /\ Home(ProjectDir(P(u)), P(u)) /\ ProjectDir(P(u)) \in Names
         /\ FindById(P(u)) = ProjectDir(P(u))
         /\ UniqueFor(th[u].title, P(u)) = ProjectDir(P(u))
         /\ Numbered[th[u].title][1] = ProjectDir(P(u))
         /\ th[u].pc \in {"mark", "write"} => At(u) = ProjectDir(P(u))
<1>. DEFINE p == P(u)
            n == ProjectDir(p)
<1>0. p \in Projects /\ DirsKept /\ OneEach /\ SettledKept /\ th[u].title \in Titles(p)
  BY OpFacts DEF StoreKept, SaveKept
<1>1. dirs[n].project.on /\ n \in Names
  BY <1>0, DirFacts DEF SaveKept
<1>2. Home(n, p)
  <2>1. IsProjectDir(n)
    BY <1>0, <1>1 DEF DirsKept, DirKept, Empty, Missing, IsProjectDir
  <2> QED BY <1>0, <2>1, DirFacts
<1>3. FindById(p) = n
  BY <1>0, <1>1, <1>2, HomeFound
<1>4. UniqueFor(th[u].title, p) = Numbered[th[u].title][1]
  BY <1>0, SettledUnique
<1>5. dirs[n].marker = p /\ dirs[n].project.title \in Titles(p)
  BY <1>0, <1>1, <1>2 DEF Home, Bears, DirsKept, DirKept, Missing
<1>6. n = Numbered[dirs[n].project.title][1] /\ dirs[n].project.title = th[u].title
  BY <1>0, <1>1, <1>5 DEF SettledKept, Settled
<1>7. th[u].pc \in {"mark", "write"} => At(u) = Numbered[th[u].title][1]
  BY DEF SaveKept
<1> QED BY <1>1, <1>2, <1>3, <1>4, <1>6, <1>7

\* A call of a project does nothing to what a call of another project knows.
LEMMA OtherProject ==
  ASSUME TitlesFit, StoreKept, StoreKept', NEW p \in Projects, NEW n \in Names, NEW u \in Threads, P(u) # p,
         Quiet(u), CallKept(u), th'[u] = th[u], th[u].pc \in Pcs[Op[u].kind],
         Bears(n, p)', \A m \in Names \ {n} : dirs'[m] = dirs[m],
         \A m \in Names : Home(m, P(u))' <=> Home(m, P(u)),
         Bears(n, p) \/ (~dirs[n].there /\ n \in Ids(p)),
         Ids(p) \cap Ids(P(u)) = {}
  PROVE  CallKept(u)'
<1>. DEFINE q == P(u)
            k == ProjectDir(q)
<1>0. q \in Projects /\ DirsKept /\ OneEach /\ DirsKept' /\ OneEach'
  BY OpFacts DEF StoreKept
<1>1. \A m \in Ids(q) \cap Names : dirs'[m].there = dirs[m].there /\ dirs'[m].marker = dirs[m].marker
  <2>1. TAKE m \in Ids(q) \cap Names
  <2>2. CASE m # n
    BY <2>2
  <2>3. CASE m = n
    <3>1. Bears(n, p)
      BY <2>3
    <3>2. dirs[n].there \in BOOLEAN /\ dirs'[n].there /\ dirs[n].there
      BY <3>1 DEF Bears
    <3> QED BY <2>3, <3>1 DEF Bears
  <2> QED BY <2>2, <2>3
<1>2. FindById(q)' = FindById(q) /\ ProjectDir(q)' = k
  BY <1>0, <1>1, LookUpStays
<1>3. k \in Names /\ (dirs[k].there => Bears(k, q))
  BY <1>0, DirFacts
<1>4. k # n
  <2>1. SUFFICES ASSUME k = n PROVE FALSE
    OBVIOUS
  <2>2. ~dirs[n].there /\ n \in Ids(p)
    BY <1>3, <2>1 DEF Bears
  <2>3. \A m \in Names : ~Home(m, q)
    BY <1>0, <2>1, <2>2, HomeFound DEF Home, Bears
  <2>4. n \in Ids(q)
    BY <1>0, <2>1, <2>3, NoHome
  <2> QED BY <2>2, <2>4
<1>5. dirs'[k] = dirs[k]
  BY <1>3, <1>4
<1>6. CASE Op[u].kind = "update"
  <2>1. UpdateKept(u) /\ At(u) = k /\ At(u)' = k /\ P(u)' = q
    BY <1>6 DEF CallKept, UpdateKept, At, P
  <2>2. UpdateKept(u)'
    BY <1>2, <1>5, <2>1 DEF UpdateKept, Bears
  <2> QED BY <1>6, <2>2 DEF CallKept
<1>7. CASE Op[u].kind = "save"
  <2>0. SaveKept(u) /\ Settled(q) /\ Op[u].title = Keep
    BY <1>7 DEF CallKept, Quiet
  <2>1. /\ Home(k, q) /\ UniqueFor(th[u].title, q) = k /\ Numbered[th[u].title][1] = k
        /\ th[u].pc \in {"mark", "write"} => At(u) = k
    BY <2>0, EditFacts
  <2>2. Home(k, q)'
    BY <1>2, <1>3, <2>1
  <2>3. UniqueFor(th[u].title, q)' = k
    <3>1. th[u].title \in Titles(q)
      BY <2>0 DEF SaveKept
    <3>2. \A title \in Titles(q) : UniqueFor(title, q)' = Numbered[title][1]
      BY <1>0, <2>0, LookUpsNext DEF LookUps
    <3> QED BY <2>1, <3>1, <3>2
  <2>4. At(u)' = At(u) /\ P(u)' = q
    BY DEF At, P
  <2>5. ProjectDir(P(u))' = k /\ FindById(P(u))' = FindById(P(u)) /\ UniqueFor(th[u].title, P(u))' = UniqueFor(th[u].title, P(u))
    BY <1>2, <2>1, <2>3, <2>4
  <2>6. SaveKept(u)'
    <3>1. /\ th'[u].title \in Titles(P(u)') /\ th'[u].copy = dirs'[k].project.has \cup {u} /\ dirs'[k].project.on
      BY <1>5, <2>0, <2>4 DEF SaveKept
    <3>6. th'[u].pc \in {"rename", "mark", "write"} => At(u)' \in Names
      BY <2>0, <2>4 DEF SaveKept
    <3>2. th'[u].pc \in {"name", "rename"} => th'[u].old = FindById(P(u))'
      BY <2>0, <2>5 DEF SaveKept
    <3>3. th'[u].pc = "rename" => At(u)' = UniqueFor(th[u].title, P(u))'
      BY <2>0, <2>4, <2>5 DEF SaveKept
    <3>4. th'[u].pc \in {"mark", "write"} => Home(At(u), P(u))'
      BY <2>1, <2>2, <2>4, <1>2
    <3>5. th'[u].pc \in {"mark", "write"} => At(u)' = Numbered[th'[u].title][1]
      BY <2>1, <2>4
    <3> QED BY <2>0, <2>4, <2>5, <3>1, <3>2, <3>3, <3>4, <3>5, <3>6 DEF SaveKept
  <2> QED BY <1>7, <2>6 DEF CallKept
<1> QED BY <1>6, <1>7 DEF Quiet


\* A quiet edit beside a transaction of its project.
LEMMA EditBesideUpdate ==
  ASSUME TitlesFit, StoreKept, StoreKept', NEW u \in Threads, Settled(P(u)), Op[u].title = Keep, SaveKept(u), th'[u] = th[u],
         dirs'[ProjectDir(P(u))].project = dirs[ProjectDir(P(u))].project,
         \A m \in Names : Home(m, P(u)) => Home(m, P(u))'
  PROVE  SaveKept(u)'
<1>. DEFINE p == P(u)
            k == ProjectDir(p)
<1>0. p \in Projects /\ DirsKept' /\ OneEach' /\ P(u)' = p /\ At(u)' = At(u)
  BY OpFacts DEF StoreKept, P, At
<1>1. /\ Home(k, p) /\ k \in Names /\ FindById(p) = k
      /\ UniqueFor(th[u].title, p) = k /\ Numbered[th[u].title][1] = k
      /\ th[u].pc \in {"mark", "write"} => At(u) = k
  BY EditFacts
<1>2. PICK n \in Names : n = k
  BY <1>1
<1>3. Home(n, p)'
  BY <1>0, <1>1, <1>2
<1>4. FindById(p)' = n /\ ProjectDir(p)' = n
  BY <1>0, <1>3, LookUpsNext DEF LookUps
<1>5. UniqueFor(th[u].title, p)' = n
  <2>1. th[u].title \in Titles(p)
    BY DEF SaveKept
  <2>2. \A title \in Titles(p) : UniqueFor(title, p)' = Numbered[title][1]
    BY <1>0, LookUpsNext DEF LookUps
  <2> QED BY <1>1, <1>2, <2>1, <2>2
<1>6. /\ th'[u].title \in Titles(P(u)') /\ th'[u].copy = dirs'[n].project.has \cup {u} /\ dirs'[n].project.on
  BY <1>0, <1>2 DEF SaveKept
<1>7. th'[u].pc \in {"name", "rename"} => th'[u].old = n
  BY <1>1, <1>2 DEF SaveKept
<1>10. th'[u].pc \in {"rename", "mark", "write"} => At(u)' \in Names
  BY <1>0 DEF SaveKept
<1>8. th'[u].pc = "rename" => At(u)' = n
  BY <1>0, <1>1, <1>2 DEF SaveKept
<1>9. th'[u].pc \in {"mark", "write"} => Home(At(u), P(u))' /\ At(u)' = Numbered[th'[u].title][1]
  BY <1>0, <1>1, <1>2, <1>3
<1> QED BY <1>0, <1>4, <1>5, <1>6, <1>7, <1>8, <1>9, <1>10 DEF SaveKept

\* A transaction beside a quiet edit of its project.
LEMMA UpdateBesideEdit ==
  ASSUME TitlesFit, StoreKept, StoreKept', NEW u \in Threads, UpdateKept(u), th'[u] = th[u],
         NEW n \in Names, Home(n, P(u)), Home(n, P(u))', dirs'[n].manifest = dirs[n].manifest
  PROVE  UpdateKept(u)'
<1>0. P(u) \in Projects /\ DirsKept /\ OneEach /\ DirsKept' /\ OneEach' /\ P(u)' = P(u) /\ At(u)' = At(u)
  BY OpFacts DEF StoreKept, P, At
<1>1. ProjectDir(P(u)) = n /\ At(u) = n
  BY <1>0, HomeFound DEF UpdateKept
<1>2. ProjectDir(P(u))' = n
  BY <1>0, LookUpsNext DEF LookUps
<1>3. Bears(n, P(u))'
  BY DEF Home
<1> QED BY <1>0, <1>1, <1>2, <1>3 DEF UpdateKept

\* What a transaction writes changes nothing for the other calls.
LEMMA OthersOfUpdate ==
  ASSUME Undisturbed, ProjectInv, StoreKept', NEW t \in Threads, Op[t].kind = "update", InProgress(t), At(t) \in Names,
         NEW u \in Threads \ {t}, InProgress(u), th'[u] = th[u],
         Bears(At(t), P(t)) \/ ~dirs[At(t)].there,
         \A m \in Names \ {At(t)} : dirs'[m] = dirs[m],
         dirs'[At(t)].there, dirs'[At(t)].marker = P(t), dirs'[At(t)].project = dirs[At(t)].project,
         \A m \in Names : Home(m, P(t)) => Home(m, P(t))',
         \A m \in Names : \A q \in Projects \ {P(t)} : Home(m, q)' <=> Home(m, q)
  PROVE  CallKept(u)'
<1>. DEFINE p == P(t)
<1>0. /\ p \in Projects /\ P(u) \in Projects /\ TitlesFit /\ CalmCalls /\ StoreKept /\ DirsKept /\ OneEach
      /\ CallsApart /\ LocksKept
  BY OpFacts DEF ProjectInv, StoreKept, Undisturbed
<1>1. /\ Quiet(u)
      /\ p = P(u) => {Op[t].kind, Op[u].kind} = {"update", "save"}
      /\ p # P(u) => Ids(p) \cap Ids(P(u)) = {}
  BY <1>0, Company
<1>2. UpdateKept(t) /\ CallKept(u) /\ th[u].pc \in Pcs[Op[u].kind] /\ At(t) = ProjectDir(p)
  BY DEF ProjectInv, CallsKept, CallKept, UpdateKept, ProjectsTyped
<1>3. PICK n \in Names : n = At(t)
  OBVIOUS
<1>4. CASE P(u) = p
  <2>1. Op[u].kind = "save"
    BY <1>1, <1>4
  <2>2. Settled(P(u)) /\ Op[u].title = Keep /\ SaveKept(u)
    BY <1>1, <1>2, <2>1 DEF Quiet, CallKept
  <2>3. dirs'[ProjectDir(P(u))].project = dirs[ProjectDir(P(u))].project
    BY <1>2, <1>4
  <2>4. \A m \in Names : Home(m, P(u)) => Home(m, P(u))'
    BY <1>4 DEF P
  <2>5. SaveKept(u)'
    BY <1>0, <2>2, <2>3, <2>4, EditBesideUpdate
  <2> QED BY <2>1, <2>5 DEF CallKept
<1>5. CASE P(u) # p
  <2>1. Bears(n, p)'
    BY <1>3 DEF Bears, P
  <2>2. \A m \in Names : Home(m, P(u))' <=> Home(m, P(u))
    BY <1>0, <1>5 DEF P
  <2>3. Bears(n, p) \/ (~dirs[n].there /\ n \in Ids(p))
    <3>1. ASSUME ~dirs[n].there PROVE n \in Ids(p)
      <4>1. \A m \in Names : ~Home(m, p)
        BY <1>0, <1>2, <1>3, <3>1, HomeFound DEF Home, Bears
      <4> QED BY <1>0, <1>2, <1>3, <4>1, NoHome
    <3> QED BY <1>3, <3>1
  <2> QED BY <1>0, <1>1, <1>2, <1>3, <1>5, <2>1, <2>2, <2>3, OtherProject
<1> QED BY <1>4, <1>5

\* Nor does the file of a quiet edit.
LEMMA OthersOfEdit ==
  ASSUME Undisturbed, ProjectInv, StoreKept', NEW t \in Threads, Op[t].kind = "save", InProgress(t), At(t) \in Names,
         NEW u \in Threads \ {t}, InProgress(u), th'[u] = th[u],
         Home(At(t), P(t)),
         \A m \in Names \ {At(t)} : dirs'[m] = dirs[m],
         dirs'[At(t)].there, dirs'[At(t)].marker = P(t), dirs'[At(t)].manifest = dirs[At(t)].manifest,
         \A m \in Names : \A q \in Projects : Home(m, q)' <=> Home(m, q)
  PROVE  CallKept(u)'
<1>. DEFINE p == P(t)
<1>0. /\ p \in Projects /\ P(u) \in Projects /\ TitlesFit /\ CalmCalls /\ StoreKept /\ DirsKept /\ OneEach
      /\ CallsApart /\ LocksKept
  BY OpFacts DEF ProjectInv, StoreKept, Undisturbed
<1>1. /\ Quiet(u)
      /\ p = P(u) => {Op[t].kind, Op[u].kind} = {"update", "save"}
      /\ p # P(u) => Ids(p) \cap Ids(P(u)) = {}
  BY <1>0, Company
<1>2. CallKept(u) /\ th[u].pc \in Pcs[Op[u].kind]
  BY DEF ProjectInv, CallsKept, ProjectsTyped
<1>3. PICK n \in Names : n = At(t)
  OBVIOUS
<1>4. CASE P(u) = p
  <2>1. Op[u].kind = "update"
    BY <1>1, <1>4
  <2>2. UpdateKept(u)
    BY <1>2, <2>1 DEF CallKept
  <2>3. Home(n, P(u)) /\ Home(n, P(u))' /\ dirs'[n].manifest = dirs[n].manifest
    BY <1>0, <1>3, <1>4 DEF P
  <2>4. UpdateKept(u)'
    BY <1>0, <2>2, <2>3, UpdateBesideEdit
  <2> QED BY <2>1, <2>4 DEF CallKept
<1>5. CASE P(u) # p
  <2>1. Bears(n, p)' /\ Bears(n, p)
    BY <1>3 DEF Bears, P, Home
  <2>2. \A m \in Names : Home(m, P(u))' <=> Home(m, P(u))
    BY <1>0 DEF P
  <2> QED BY <1>0, <1>1, <1>2, <1>3, <1>5, <2>1, <2>2, OtherProject
<1> QED BY <1>4, <1>5

\* A call that is not quiet leaves none behind.
LEMMA Alone ==
  ASSUME Undisturbed, ProjectInv, NEW t \in Threads, InProgress(t), ~Quiet(t), NEW u \in Threads \ {t}
  PROVE  ~InProgress(u)
BY Company DEF Undisturbed, ProjectInv

\* A call starts.
LEMMA Starts ==
  ASSUME ProjectInv, NEW t \in Threads, th[t].pc = "start", MayBegin(t), NEW r \in CallRec,
         th' = [th EXCEPT ![t] = r], r.pc \in Pcs[Op[t].kind] \cup {"failed"},
         UNCHANGED <<dirs, trash>>,
         \/ Op[t].kind = "update" /\ LockFree(t) /\ r.pc # "failed" /\ lock' = [lock EXCEPT ![P(t)] = t]
         \/ Op[t].kind # "update" /\ UNCHANGED lock,
         r.pc # "failed" => CallKept(t)'
  PROVE  ProjectInv'
<1>0. /\ th \in [Threads -> CallRec] /\ lock \in [Projects -> Threads \cup {NoThread}] /\ dirs \in [Names -> DirRec]
      /\ ~InProgress(t) /\ P(t) \in Projects
  BY OpFacts DEF ProjectInv, ProjectsTyped, InProgress
<1>1. th' \in [Threads -> CallRec] /\ th'[t] = r /\ \A u \in Threads \ {t} : th'[u] = th[u]
  <2> HIDE DEF CallRec
  <2> QED BY <1>0
<1>2. \A u \in Threads \ {t} : InProgress(u)' <=> InProgress(u)
  BY <1>1 DEF InProgress
<1>3. InProgress(t)' <=> r.pc # "failed"
  BY <1>1, OpFacts DEF InProgress, Pcs
<1>4. ProjectsTyped'
  <2>1. lock' \in [Projects -> Threads \cup {NoThread}]
    BY <1>0
  <2>2. \A u \in Threads : InProgress(u)' => th'[u].pc \in Pcs[Op[u].kind]
    BY <1>1, <1>2, <1>3 DEF ProjectInv, ProjectsTyped
  <2> QED BY <1>0, <1>1, <2>1, <2>2 DEF ProjectsTyped
<1>5. StoreKept'
  BY DEF ProjectInv, StoreKept, DirsKept, DirKept, NoAliases, SettledKept, OneEach, Home, Bears, IsProjectDir
<1>6. CallsApart'
  <2>1. \A u \in Threads : {t, u} = {u, t}
    OBVIOUS
  <2> QED BY <1>2, <2>1 DEF ProjectInv, CallsApart, MayBegin
<1>7. LocksKept'
  <2>1. CASE Op[t].kind = "update"
    <3>1. lock' = [lock EXCEPT ![P(t)] = t] /\ InProgress(t)' /\ lock[P(t)] = NoThread
      BY <1>3, <2>1 DEF LockFree
    <3>2. \A p \in Projects \ {P(t)} : lock'[p] = lock[p]
      BY <1>0, <3>1
    <3>3. lock'[P(t)] = t
      BY <1>0, <3>1
    <3>4. \A p \in Projects : lock'[p] # NoThread =>
            P(lock'[p]) = p /\ Op[lock'[p]].kind = "update" /\ InProgress(lock[p])'
      <4>1. TAKE p \in Projects
      <4>2. HAVE lock'[p] # NoThread
      <4>3. CASE p = P(t)
        BY <2>1, <3>1, <3>3, <4>3 DEF InProgress
      <4>4. CASE p # P(t)
        <5>1. lock[p] \in Threads /\ lock[p] # t /\ P(lock[p]) = p /\ Op[lock[p]].kind = "update" /\ InProgress(lock[p])
          BY <1>0, <3>2, <4>2, <4>4 DEF ProjectInv, LocksKept
        <5> QED BY <1>1, <3>2, <4>4, <5>1 DEF InProgress
      <4> QED BY <4>3, <4>4
    <3>5. \A u \in Threads : Op[u].kind = "update" /\ InProgress(u)' => lock'[P(u)] = u
      <4>1. \A u \in Threads \ {t} : Op[u].kind = "update" /\ InProgress(u) => lock[P(u)] = u /\ P(u) # P(t)
        BY <3>1, ThreadAssumption DEF ProjectInv, LocksKept
      <4> QED BY <1>2, <3>2, <3>3, <4>1, OpFacts
    <3> QED BY <3>4, <3>5 DEF LocksKept, P
  <2>2. CASE Op[t].kind # "update"
    <3>1. \A p \in Projects : lock[p] # NoThread => lock[p] \in Threads \ {t}
      BY <1>0, <2>2 DEF ProjectInv, LocksKept
    <3> QED BY <1>2, <2>2, <3>1 DEF ProjectInv, LocksKept, P
  <2> QED BY <2>1, <2>2
<1>8. CallsKept'
  <2>1. SUFFICES ASSUME NEW u \in Threads, InProgress(u)' PROVE CallKept(u)'
    BY DEF CallsKept
  <2>2. CASE u = t
    BY <1>3, <2>1, <2>2
  <2>3. CASE u # t
    <3>1. th'[u] = th[u] /\ CallKept(u)
      BY <1>1, <1>2, <2>1, <2>3 DEF ProjectInv, CallsKept
    <3> QED BY <3>1, SameDirs
  <2> QED BY <2>2, <2>3
<1>9. DoneKept'
  <2>1. r.pc # "done"
    BY OpFacts DEF Pcs
  <2> QED BY <1>1, <2>1 DEF ProjectInv, DoneKept, Trashed, Home, Bears, IsProjectDir, Holds
<1> QED BY <1>4, <1>5, <1>6, <1>7, <1>8, <1>9 DEF ProjectInv


-----------------------------------------------------------------------------
\* What is known of a call in progress.
LEMMA CallFacts ==
  ASSUME Undisturbed, ProjectInv, NEW t \in Threads
  PROVE  /\ P(t) \in Projects /\ dirs \in [Names -> DirRec] /\ th[t] \in CallRec /\ th \in [Threads -> CallRec]
         /\ TitlesFit /\ StoreKept /\ DirsKept /\ OneEach /\ ProjectsTyped /\ LocksKept /\ CallsApart
         /\ ProjectDir(P(t)) \in Names /\ ProjectDir(P(t)) \in Tried(P(t)) /\ FindById(P(t)) \in Names \cup {NoDir}
         /\ InProgress(t) => CallKept(t) /\ th[t].pc \in Pcs[Op[t].kind]
BY OpFacts, DirFacts DEF Undisturbed, ProjectInv, StoreKept, CallsKept, ProjectsTyped

\* Without a change of the directories a project is found where it was.
LEMMA SameLookUps ==
  ASSUME UNCHANGED dirs, NEW t \in Threads
  PROVE  /\ ProjectDir(P(t))' = ProjectDir(P(t)) /\ FindById(P(t))' = FindById(P(t))
         /\ \A n \in Names : Home(n, P(t))' <=> Home(n, P(t))
<1>1. FindById(P(t))' = FindById(P(t))
  BY DEF FindById, IsProjectDir, MarkerFits, Bears, P
<1>2. ProjectDir(P(t))' = ProjectDir(P(t))
  BY <1>1 DEF ProjectDir, UniqueFor, Free, MarkerFits, P
<1>3. \A n \in Names : Home(n, P(t))' <=> Home(n, P(t))
  BY DEF Home, Bears, IsProjectDir, P
<1> QED BY <1>1, <1>2, <1>3

LEMMA BeginKeeps == ASSUME Undisturbed, ProjectInv, NEW t \in Threads, Begin(t) PROVE ProjectInv'
<1>. DEFINE r == [th[t] EXCEPT !.pc = "read", !.at = ProjectDir(P(t))]
<1>1. /\ Op[t].kind = "update" /\ th[t].pc = "start" /\ MayBegin(t) /\ LockFree(t)
      /\ lock' = [lock EXCEPT ![P(t)] = t] /\ UNCHANGED <<dirs, trash>>
  BY DEF Begin, Is
<1>2. th' = [th EXCEPT ![t] = r]
  BY DEF Begin
<1>c. th[t] \in CallRec /\ ProjectDir(P(t)) \in Names /\ FindById(P(t)) \in Names \cup {NoDir}
  BY CallFacts
<1>3. r \in CallRec /\ r.pc = "read" /\ r.at = ProjectDir(P(t))
  BY <1>c DEF CallRec, AllPcs
<1>4. th'[t] = r
  BY <1>2, CallFacts
<1>5. UpdateKept(t)'
  BY <1>1, <1>3, <1>4, SameLookUps DEF UpdateKept, At
<1>6. CallKept(t)' /\ r.pc \in Pcs[Op[t].kind]
  BY <1>1, <1>3, <1>5 DEF CallKept, Pcs
<1> HIDE DEF r
<1> QED BY <1>1, <1>2, <1>3, <1>6, Starts

LEMMA LoadKeeps == ASSUME Undisturbed, ProjectInv, NEW t \in Threads, Load(t) PROVE ProjectInv'
<1>. DEFINE file == dirs[ProjectDir(P(t))].project
            title == IF Op[t].title = Keep THEN file.title ELSE Op[t].title
            r == [th[t] EXCEPT !.pc = IF title = Keep THEN "failed" ELSE "find", !.title = title, !.copy = file.has \cup {t}]
<1>1. Op[t].kind = "save" /\ th[t].pc = "start" /\ MayBegin(t) /\ UNCHANGED <<dirs, trash, lock>>
  BY DEF Load, Is
<1>2. th' = [th EXCEPT ![t] = r]
  BY DEF Load
<1>0. file \in Contains(Names \cup {Keep})
  BY CallFacts DEF DirRec
<1>c. th[t] \in CallRec /\ ProjectDir(P(t)) \in Names /\ FindById(P(t)) \in Names \cup {NoDir}
  BY CallFacts
<1>3. r \in CallRec /\ r.pc = (IF title = Keep THEN "failed" ELSE "find") /\ r.title = title /\ r.copy = file.has \cup {t}
  BY <1>0, <1>c, OpFacts DEF CallRec, AllPcs, Contains
<1>4. th'[t] = r
  BY <1>2, CallFacts
<1>5. ASSUME title # Keep PROVE SaveKept(t)'
  <2>1. title \in Titles(P(t)) /\ (Op[t].title = Keep => file.on)
    <3>1. CASE Op[t].title = Keep
      <4>1. file # Missing
        BY <1>5, <3>1 DEF Missing
      <4>2. file.on /\ file.title \in Titles(dirs[ProjectDir(P(t))].marker)
        BY <4>1, CallFacts DEF DirsKept, DirKept
      <4>3. dirs[ProjectDir(P(t))].there
        BY <4>1, CallFacts DEF DirsKept, DirKept, Empty
      <4>4. dirs[ProjectDir(P(t))].marker = P(t)
        BY <4>3, CallFacts, DirFacts DEF Bears
      <4> QED BY <3>1, <4>2, <4>4
    <3>2. CASE Op[t].title # Keep
      BY <1>1, <3>2, OpFacts
    <3> QED BY <3>1, <3>2
  <2>2. th'[t].pc = "find" /\ th'[t].title = title /\ th'[t].copy = file.has \cup {t}
    BY <1>3, <1>4, <1>5
  <2>3. P(t)' = P(t) /\ ProjectDir(P(t))' = ProjectDir(P(t)) /\ dirs'[ProjectDir(P(t))].project = file
    BY <1>1, SameLookUps DEF P
  <2> HIDE DEF title, file, r
  <2> QED BY <2>1, <2>2, <2>3 DEF SaveKept
<1>6. r.pc # "failed" => CallKept(t)'
  BY <1>1, <1>3, <1>5 DEF CallKept
<1>7. r.pc \in Pcs[Op[t].kind] \cup {"failed"}
  BY <1>1, <1>3 DEF Pcs
<1> HIDE DEF r
<1> QED BY <1>1, <1>2, <1>3, <1>6, <1>7, Starts

LEMMA FindDeletedKeeps == ASSUME Undisturbed, ProjectInv, NEW t \in Threads, FindDeleted(t) PROVE ProjectInv'
<1>. DEFINE n == ProjectDir(P(t))
            r == [th[t] EXCEPT !.at = n, !.pc = IF IsProjectDir(n) THEN "move" ELSE "failed"]
<1>1. Op[t].kind = "delete" /\ th[t].pc = "start" /\ MayBegin(t) /\ UNCHANGED <<dirs, trash, lock>>
  BY DEF FindDeleted, Is
<1>2. th' = [th EXCEPT ![t] = r]
  BY DEF FindDeleted
<1>c. th[t] \in CallRec /\ ProjectDir(P(t)) \in Names /\ FindById(P(t)) \in Names \cup {NoDir}
  BY CallFacts
<1>3. r \in CallRec /\ r.pc = (IF IsProjectDir(n) THEN "move" ELSE "failed") /\ r.at = n
  BY <1>c DEF CallRec, AllPcs
<1>4. th'[t] = r
  BY <1>2, CallFacts
<1>5. IsProjectDir(n) => DeleteKept(t)'
  <2>1. IsProjectDir(n) => Home(n, P(t))
    BY CallFacts, DirFacts
  <2>2. At(t)' = n /\ P(t)' = P(t) /\ n' = n
    BY <1>1, <1>3, <1>4, SameLookUps DEF At, P
  <2>3. n \in Names
    BY CallFacts
  <2>4. IsProjectDir(n) => Home(n, P(t))'
    BY <1>1, <2>1, <2>2, <2>3 DEF Home, Bears, IsProjectDir, P
  <2> QED BY <2>2, <2>4 DEF DeleteKept
<1>6. r.pc # "failed" => CallKept(t)'
  BY <1>1, <1>3, <1>5 DEF CallKept
<1>7. r.pc \in Pcs[Op[t].kind] \cup {"failed"}
  BY <1>1, <1>3 DEF Pcs
<1> HIDE DEF r
<1> QED BY <1>1, <1>2, <1>3, <1>6, <1>7, Starts

-----------------------------------------------------------------------------
LEMMA ReadManifestKeeps == ASSUME Undisturbed, ProjectInv, NEW t \in Threads, ReadManifest(t) PROVE ProjectInv'
<1>. DEFINE r == [th[t] EXCEPT !.pc = "locate", !.copy = dirs[At(t)].manifest.has \cup {t}]
<1>1. Op[t].kind = "update" /\ th[t].pc = "read" /\ InProgress(t) /\ UNCHANGED <<dirs, trash, lock>>
  BY DEF ReadManifest, Is, InProgress
<1>2. th' = [th EXCEPT ![t] = r]
  BY DEF ReadManifest
<1>0. UpdateKept(t)
  BY <1>1, CallFacts DEF CallKept
<1>c. th[t] \in CallRec /\ ProjectDir(P(t)) \in Names /\ FindById(P(t)) \in Names \cup {NoDir}
  BY CallFacts
<1>3. r \in CallRec /\ r.pc = "locate" /\ r.at = At(t) /\ r.copy = dirs[At(t)].manifest.has \cup {t}
  <2>1. At(t) \in Names
    BY <1>0, CallFacts DEF UpdateKept
  <2>2. dirs[At(t)].manifest.has \subseteq Threads
    BY <2>1, CallFacts DEF DirRec, Contains
  <2> QED BY <2>2, <1>c DEF CallRec, AllPcs, At
<1>4. th'[t] = r
  BY <1>2, CallFacts
<1>5. UpdateKept(t)'
  <2>1. At(t)' = At(t) /\ P(t)' = P(t)
    BY <1>3, <1>4 DEF At, P
  <2> HIDE DEF r
  <2> QED BY <1>0, <1>1, <1>3, <1>4, <2>1, SameLookUps DEF UpdateKept
<1>6. CallKept(t)' /\ r.pc \in Pcs[Op[t].kind] /\ r.pc \in Pcs["update"]
  BY <1>1, <1>3, <1>5 DEF CallKept, Pcs
<1> HIDE DEF r
<1> QED BY <1>1, <1>2, <1>3, <1>6, Looks

\* A transaction looks its project's directory up again, and finds the same.
LEMMA LocateKeeps ==
  ASSUME Undisturbed, ProjectInv, NEW t \in Threads, LocateMarker(t) \/ LocateManifest(t) PROVE ProjectInv'
<1>1. PICK pc \in {"mark", "write"} :
        /\ th' = [th EXCEPT ![t].pc = pc, ![t].at = ProjectDir(P(t))]
        /\ th[t].pc = (IF pc = "mark" THEN "locate" ELSE "again")
        /\ Op[t].kind = "update" /\ UNCHANGED <<dirs, trash, lock>>
  BY DEF LocateMarker, LocateManifest, Locate, Is
<1>. DEFINE r == [th[t] EXCEPT !.pc = pc, !.at = ProjectDir(P(t))]
<1>2. th' = [th EXCEPT ![t] = r] /\ InProgress(t)
  BY <1>1 DEF InProgress
<1>0. UpdateKept(t)
  BY <1>1, <1>2, CallFacts DEF CallKept
<1>c. th[t] \in CallRec /\ ProjectDir(P(t)) \in Names /\ FindById(P(t)) \in Names \cup {NoDir}
  BY CallFacts
<1>3. r \in CallRec /\ r.pc = pc /\ r.at = At(t) /\ r.copy = th[t].copy
  BY <1>0, <1>c DEF CallRec, AllPcs, UpdateKept
<1>4. th'[t] = r
  BY <1>2, CallFacts
<1>5. UpdateKept(t)'
  <2>1. At(t)' = At(t) /\ P(t)' = P(t)
    BY <1>3, <1>4 DEF At, P
  <2> HIDE DEF r
  <2> QED BY <1>0, <1>1, <1>3, <1>4, <2>1, SameLookUps DEF UpdateKept, Bears
<1>6. CallKept(t)' /\ r.pc \in Pcs[Op[t].kind] /\ r.pc \in Pcs["update"]
  BY <1>1, <1>3, <1>5 DEF CallKept, Pcs
<1> HIDE DEF r
<1> QED BY <1>1, <1>2, <1>3, <1>6, Looks

LEMMA FindOldKeeps == ASSUME Undisturbed, ProjectInv, NEW t \in Threads, FindOld(t) PROVE ProjectInv'
<1>. DEFINE r == [th[t] EXCEPT !.pc = "name", !.old = FindById(P(t))]
<1>1. Op[t].kind = "save" /\ th[t].pc = "find" /\ InProgress(t) /\ UNCHANGED <<dirs, trash, lock>>
  BY DEF FindOld, Is, InProgress
<1>2. th' = [th EXCEPT ![t] = r]
  BY DEF FindOld
<1>0. SaveKept(t)
  BY <1>1, CallFacts DEF CallKept
<1>c. th[t] \in CallRec /\ ProjectDir(P(t)) \in Names /\ FindById(P(t)) \in Names \cup {NoDir}
  BY CallFacts
<1>3. r \in CallRec /\ r.pc = "name" /\ r.old = FindById(P(t)) /\ r.copy = th[t].copy /\ r.title = th[t].title
  BY <1>c DEF CallRec, AllPcs
<1>4. th'[t] = r
  BY <1>2, CallFacts
<1>5. SaveKept(t)'
  <2>1. P(t)' = P(t)
    BY DEF P
  <2> HIDE DEF r
  <2> QED BY <1>0, <1>1, <1>3, <1>4, <2>1, SameLookUps DEF SaveKept
<1>6. CallKept(t)' /\ r.pc \in Pcs[Op[t].kind]
  BY <1>1, <1>3, <1>5 DEF CallKept, Pcs
<1> HIDE DEF r
<1> QED BY <1>1, <1>2, <1>3, <1>6, Looks

LEMMA FindNewKeeps == ASSUME Undisturbed, ProjectInv, NEW t \in Threads, FindNew(t) PROVE ProjectInv'
<1>. DEFINE r == [th[t] EXCEPT !.pc = "rename", !.at = UniqueFor(th[t].title, P(t))]
<1>1. Op[t].kind = "save" /\ th[t].pc = "name" /\ InProgress(t) /\ UNCHANGED <<dirs, trash, lock>>
  BY DEF FindNew, Is, InProgress
<1>2. th' = [th EXCEPT ![t] = r]
  BY DEF FindNew
<1>0. SaveKept(t)
  BY <1>1, CallFacts DEF CallKept
<1>7. UniqueFor(th[t].title, P(t)) \in Names
  BY <1>0, CallFacts, UniqueFacts DEF SaveKept
<1>c. th[t] \in CallRec /\ ProjectDir(P(t)) \in Names /\ FindById(P(t)) \in Names \cup {NoDir}
  BY CallFacts
<1>3. /\ r \in CallRec /\ r.pc = "rename" /\ r.old = th[t].old /\ r.copy = th[t].copy /\ r.title = th[t].title
      /\ r.at = UniqueFor(th[t].title, P(t))
  BY <1>7, <1>c DEF CallRec, AllPcs
<1>4. th'[t] = r
  BY <1>2, CallFacts
<1>5. SaveKept(t)'
  <2>1. P(t)' = P(t) /\ At(t)' = r.at
    BY <1>4 DEF P, At
  <2>3. th'[t].title = th[t].title
    BY <1>3, <1>4
  <2>2. UniqueFor(th[t].title, P(t))' = UniqueFor(th[t].title, P(t))
    <3> HIDE DEF r
    <3> QED BY <1>1, <2>3 DEF UniqueFor, Free, P
  <2> HIDE DEF r
  <2> QED BY <1>0, <1>1, <1>3, <1>4, <1>7, <2>1, <2>2, SameLookUps DEF SaveKept
<1>6. CallKept(t)' /\ r.pc \in Pcs[Op[t].kind]
  BY <1>1, <1>3, <1>5 DEF CallKept, Pcs
<1> HIDE DEF r
<1> QED BY <1>1, <1>2, <1>3, <1>6, Looks


-----------------------------------------------------------------------------
\* A call in progress writes, or moves a directory.
LEMMA WritesKeep ==
  ASSUME ProjectInv, NEW t \in Threads, InProgress(t), NEW r \in CallRec, th' = [th EXCEPT ![t] = r],
         ProjectsTyped', StoreKept', LocksKept', CallsApart',
         \A u \in Threads \ {t} : th'[u] = th[u] /\ (InProgress(u) => CallKept(u)'),
         InProgress(t)' => CallKept(t)',
         trash \subseteq trash',
         \A u \in Threads : \A n \in Names : Home(n, P(u)) /\ Holds(n, u) =>
           Trashed(u)' \/ \E m \in Names : Home(m, P(u))' /\ Holds(m, u)',
         Op[t].kind # "delete" /\ r.pc = "done" => \E m \in Names : Home(m, P(t))' /\ Holds(m, t)'
  PROVE  ProjectInv'
<1>1. th'[t] = r
  BY DEF ProjectInv, ProjectsTyped
<1>2. CallsKept'
  BY <1>1 DEF CallsKept, InProgress
<1>3. DoneKept'
  <2>1. SUFFICES ASSUME NEW u \in Threads, Op[u].kind # "delete", th'[u].pc = "done"
                 PROVE  Trashed(u)' \/ \E m \in Names : Home(m, P(u))' /\ Holds(m, u)'
    BY DEF DoneKept, P
  <2>2. CASE u = t
    BY <1>1, <2>1, <2>2
  <2>3. CASE u # t
    <3>1. Trashed(u) \/ \E n \in Names : Home(n, P(u)) /\ Holds(n, u)
      BY <2>1, <2>3 DEF ProjectInv, DoneKept
    <3>2. Trashed(u) => Trashed(u)'
      BY DEF Trashed, P
    <3> QED BY <3>1, <3>2
  <2> QED BY <2>2, <2>3
<1> QED BY <1>2, <1>3 DEF ProjectInv

LEMMA MarkManifestKeeps == ASSUME Undisturbed, ProjectInv, NEW t \in Threads, MarkManifest(t) PROVE ProjectInv'
<1>. DEFINE r == [th[t] EXCEPT !.pc = "again"]
            p == P(t)
<1>1. Op[t].kind = "update" /\ th[t].pc = "mark" /\ InProgress(t) /\ UNCHANGED <<trash, lock>>
  BY DEF MarkManifest, Is, InProgress
<1>2. /\ th' = [th EXCEPT ![t] = r]
      /\ dirs' = [dirs EXCEPT ![At(t)] = [@ EXCEPT !.there = TRUE, !["marker"] = p]]
  BY DEF MarkManifest, Go, Write
<1>c. /\ p \in Projects /\ dirs \in [Names -> DirRec] /\ th[t] \in CallRec /\ th \in [Threads -> CallRec]
      /\ TitlesFit /\ StoreKept /\ DirsKept /\ OneEach /\ ProjectsTyped /\ LocksKept /\ CallsApart
      /\ ProjectDir(p) \in Names /\ ProjectDir(p) \in Tried(p) /\ UpdateKept(t)
  BY <1>1, CallFacts DEF CallKept
<1>3. r \in CallRec /\ r.pc = "again" /\ r.copy = th[t].copy /\ r.at = At(t)
  BY <1>c DEF CallRec, AllPcs, At
<1> HIDE DEF r
<1>4. PICK n \in Names : n = At(t) /\ n = ProjectDir(p)
  BY <1>c DEF UpdateKept
<1>5. Bears(n, p) \/ (~dirs[n].there /\ n \in Tried(p) /\ \A m \in Names : ~Home(m, p))
  BY <1>c, <1>4, DirFacts, HomeFound DEF Home, Bears
<1>6. dirs' = [dirs EXCEPT ![n] = [@ EXCEPT !.there = TRUE, !["marker"] = p]]
  BY <1>2, <1>4
<1>7. /\ dirs' \in [Names -> DirRec] /\ StoreKept'
      /\ Bears(n, p)' /\ dirs'[n].project = dirs[n].project /\ dirs'[n].manifest = dirs[n].manifest
      /\ \A m \in Names \ {n} : dirs'[m] = dirs[m]
      /\ \A m \in Names : \A q \in Projects : Home(m, q)' <=> Home(m, q) \/ (m = n /\ q = p /\ n # p)
  BY <1>c, <1>5, <1>6, MarkKeeps
<1>8. /\ ProjectsTyped' /\ LocksKept' /\ CallsApart'
      /\ th'[t] = r /\ \A u \in Threads \ {t} : th'[u] = th[u]
  <2>1. r.pc \in Pcs[Op[t].kind] /\ r.pc \in Pcs["update"]
    BY <1>1, <1>3 DEF Pcs
  <2> QED BY <1>1, <1>2, <1>3, <1>7, <1>c, <2>1, Advances
<1>9. CallKept(t)'
  <2>1. At(t)' = n /\ P(t)' = p
    BY <1>3, <1>4, <1>8 DEF At, P
  <2>2. ProjectDir(p)' = n
    <3>1. LookUps'
      BY <1>7, <1>c, LookUpsNext DEF StoreKept
    <3>2. CASE \E m \in Names : Home(m, p)
      <4>1. Home(n, p)
        BY <1>4, <1>c, <3>2, HomeFound
      <4>2. Home(n, p)'
        BY <1>7, <1>c, <4>1
      <4> QED BY <1>c, <3>1, <4>2 DEF LookUps
    <3>3. CASE n # p
      <4>1. Home(n, p)'
        BY <1>7, <1>c, <3>3
      <4> QED BY <1>c, <3>1, <4>1 DEF LookUps
    <3>4. CASE n = p /\ \A m \in Names : ~Home(m, p)
      <4>1. \A m \in Names : ~Home(m, p)'
        BY <1>7, <1>c, <3>4
      <4>2. dirs'[p].there /\ dirs'[p].marker = p
        BY <1>7, <3>4 DEF Bears
      <4> QED BY <1>c, <3>1, <3>4, <4>1, <4>2 DEF LookUps
    <3> QED BY <3>2, <3>3, <3>4
  <2>3. th'[t].copy = dirs'[n].manifest.has \cup {t}
    BY <1>1, <1>3, <1>4, <1>7, <1>8, <1>c DEF UpdateKept
  <2>4. UpdateKept(t)'
    BY <1>7, <2>1, <2>2, <2>3 DEF UpdateKept
  <2> QED BY <1>1, <2>4 DEF CallKept
<1>10. \A u \in Threads \ {t} : InProgress(u) => CallKept(u)'
  <2>1. \A m \in Names : Home(m, P(t)) => Home(m, P(t))'
    <3>1. \A m \in Names : Home(m, p) => Home(m, p)'
      BY <1>7, <1>c
    <3> QED BY <3>1
  <2>2. \A m \in Names : \A q \in Projects \ {P(t)} : Home(m, q)' <=> Home(m, q)
    BY <1>7
  <2>3. dirs'[At(t)].there /\ dirs'[At(t)].marker = P(t) /\ dirs'[At(t)].project = dirs[At(t)].project
    BY <1>4, <1>7 DEF Bears, P
  <2>4. At(t) \in Names /\ (\A m \in Names \ {At(t)} : dirs'[m] = dirs[m]) /\ (Bears(At(t), P(t)) \/ ~dirs[At(t)].there)
    BY <1>4, <1>5, <1>7
  <2> QED BY <1>1, <1>7, <1>8, <2>1, <2>2, <2>3, <2>4, OthersOfUpdate
<1>11. \A u \in Threads : \A k \in Names : Home(k, P(u)) /\ Holds(k, u) => \E m \in Names : Home(m, P(u))' /\ Holds(m, u)'
  <2>1. TAKE u \in Threads
  <2>2. TAKE k \in Names
  <2>3. Home(k, P(u)) => Home(k, P(u))'
    BY <1>7, OpFacts DEF P
  <2>4. Holds(k, u) => Holds(k, u)'
    BY <1>7 DEF Holds
  <2> QED BY <2>3, <2>4
<1> QED BY <1>1, <1>2, <1>3, <1>7, <1>8, <1>9, <1>10, <1>11, WritesKeep

LEMMA WriteManifestKeeps == ASSUME Undisturbed, ProjectInv, NEW t \in Threads, WriteManifest(t) PROVE ProjectInv'
<1>. DEFINE r == [th[t] EXCEPT !.pc = "done"]
            p == P(t)
            copy == th[t].copy
<1>1. Op[t].kind = "update" /\ th[t].pc = "write" /\ InProgress(t) /\ UNCHANGED trash /\ lock' = [lock EXCEPT ![p] = NoThread]
  BY DEF WriteManifest, Is, InProgress
<1>2. /\ th' = [th EXCEPT ![t] = r]
      /\ dirs' = [dirs EXCEPT ![At(t)] = [@ EXCEPT !.there = TRUE, !["manifest"] = File(copy, Keep)]]
  BY DEF WriteManifest, Go, Write
<1>c. /\ p \in Projects /\ dirs \in [Names -> DirRec] /\ th[t] \in CallRec /\ th \in [Threads -> CallRec]
      /\ TitlesFit /\ StoreKept /\ DirsKept /\ OneEach /\ ProjectsTyped /\ LocksKept /\ CallsApart
      /\ ProjectDir(p) \in Names /\ UpdateKept(t)
  BY <1>1, CallFacts DEF CallKept
<1>3. r \in CallRec /\ r.pc = "done" /\ copy \in SUBSET Threads
  BY <1>c DEF CallRec, AllPcs
<1> HIDE DEF r
<1>4. PICK n \in Names : n = At(t) /\ n = ProjectDir(p)
  BY <1>c DEF UpdateKept
<1>5. Bears(n, p) /\ copy = dirs[n].manifest.has \cup {t}
  BY <1>1, <1>4, <1>c DEF UpdateKept
<1>6. \A m \in Names : Home(m, p) => m = n
  BY <1>4, <1>c, HomeFound
<1>7. \A u \in copy : P(u) = p
  BY <1>5, <1>c DEF StoreKept, NoAliases, Bears
<1>8. dirs' = [dirs EXCEPT ![n] = [@ EXCEPT !.there = TRUE, !["manifest"] = File(copy, Keep)]]
  BY <1>2, <1>4
<1>9. /\ dirs' \in [Names -> DirRec] /\ StoreKept'
      /\ Bears(n, p)' /\ dirs'[n].project = dirs[n].project /\ dirs'[n].manifest.has = copy
      /\ \A m \in Names \ {n} : dirs'[m] = dirs[m]
      /\ \A m \in Names : \A q \in Projects : Home(m, q)' <=> Home(m, q) \/ (m = n /\ q = p)
  <2>1. PICK c \in SUBSET Threads : c = copy
    BY <1>3
  <2>2. \A u \in c : P(u) = p
    BY <1>7, <2>1
  <2>3. dirs' = [dirs EXCEPT ![n] = [@ EXCEPT !.there = TRUE, !["manifest"] = File(c, Keep)]]
    BY <1>8, <2>1
  <2>4. dirs \in [Names -> DirRec] /\ StoreKept /\ p \in Projects /\ n \in Names /\ Bears(n, p)
    BY <1>5, <1>c
  <2> HIDE DEF copy, p
  <2>5. /\ dirs' \in [Names -> DirRec] /\ StoreKept'
        /\ Bears(n, p)' /\ dirs'[n].project = dirs[n].project /\ dirs'[n].manifest.has = c
        /\ \A m \in Names \ {n} : dirs'[m] = dirs[m]
        /\ \A m \in Names : \A q \in Projects : Home(m, q)' <=> Home(m, q) \/ (m = n /\ q = p)
    BY <1>6, <2>2, <2>3, <2>4, ManifestKeeps
  <2> QED BY <2>1, <2>5
<1>10. th' \in [Threads -> CallRec] /\ th'[t] = r /\ \A u \in Threads \ {t} : th'[u] = th[u]
  <2> HIDE DEF CallRec
  <2> QED BY <1>2, <1>3, <1>c
<1>11. ~InProgress(t)' /\ \A u \in Threads \ {t} : InProgress(u)' <=> InProgress(u)
  BY <1>3, <1>10 DEF InProgress
<1>12. ProjectsTyped'
  <2>1. lock' \in [Projects -> Threads \cup {NoThread}]
    BY <1>1, <1>c DEF ProjectsTyped
  <2>2. \A u \in Threads : InProgress(u)' => th'[u].pc \in Pcs[Op[u].kind]
    BY <1>10, <1>11, <1>c DEF ProjectsTyped
  <2> QED BY <1>9, <1>10, <2>1, <2>2 DEF ProjectsTyped
<1>13. LocksKept'
  <2>1. lock \in [Projects -> Threads \cup {NoThread}]
    BY <1>c DEF ProjectsTyped
  <2>2. lock'[p] = NoThread /\ \A q \in Projects \ {p} : lock'[q] = lock[q]
    BY <1>1, <1>c, <2>1
  <2>3. \A q \in Projects : lock'[q] # NoThread => P(lock'[q]) = q /\ Op[lock'[q]].kind = "update" /\ InProgress(lock[q])'
    <3>1. TAKE q \in Projects
    <3>2. HAVE lock'[q] # NoThread
    <3>3. q # p /\ lock'[q] = lock[q] /\ lock[q] \in Threads
      BY <2>1, <2>2, <3>2
    <3>4. P(lock[q]) = q /\ Op[lock[q]].kind = "update" /\ InProgress(lock[q])
      BY <1>c, <3>2, <3>3 DEF LocksKept
    <3>5. lock[q] # t
      BY <3>3, <3>4
    <3> QED BY <1>10, <3>3, <3>4, <3>5 DEF InProgress
  <2>4. \A u \in Threads : Op[u].kind = "update" /\ InProgress(u)' => lock'[P(u)] = u
    <3>1. TAKE u \in Threads
    <3>2. HAVE Op[u].kind = "update" /\ InProgress(u)'
    <3>3. u # t /\ lock[P(u)] = u /\ lock[p] = t
      BY <1>1, <1>11, <1>c, <3>2 DEF LocksKept
    <3> QED BY <2>2, <3>3, OpFacts
  <2> QED BY <2>3, <2>4 DEF LocksKept, P
<1>14. CallsApart'
  BY <1>11, <1>c DEF CallsApart
<1>15. \A u \in Threads \ {t} : InProgress(u) => CallKept(u)'
  <2>1. \A m \in Names : Home(m, P(t)) => Home(m, P(t))'
    <3>1. \A m \in Names : Home(m, p) => Home(m, p)'
      BY <1>9, <1>c
    <3> QED BY <3>1
  <2>2. \A m \in Names : \A q \in Projects \ {P(t)} : Home(m, q)' <=> Home(m, q)
    BY <1>9
  <2>3. dirs'[At(t)].there /\ dirs'[At(t)].marker = P(t) /\ dirs'[At(t)].project = dirs[At(t)].project
    BY <1>4, <1>9 DEF Bears, P
  <2>4. At(t) \in Names /\ (\A m \in Names \ {At(t)} : dirs'[m] = dirs[m]) /\ (Bears(At(t), P(t)) \/ ~dirs[At(t)].there)
    BY <1>4, <1>5, <1>9
  <2> QED BY <1>1, <1>9, <1>10, <2>1, <2>2, <2>3, <2>4, OthersOfUpdate
<1>16. \A u \in Threads : \A k \in Names : Home(k, P(u)) /\ Holds(k, u) => \E m \in Names : Home(m, P(u))' /\ Holds(m, u)'
  <2>1. TAKE u \in Threads
  <2>2. TAKE k \in Names
  <2>3. Home(k, P(u)) => Home(k, P(u))'
    BY <1>9, OpFacts DEF P
  <2>4. Holds(k, u) => Holds(k, u)'
    BY <1>5, <1>9 DEF Holds
  <2> QED BY <2>3, <2>4
<1>17. Home(n, P(t))' /\ Holds(n, t)'
  BY <1>1, <1>5, <1>9, <1>c DEF Holds, P
<1> QED BY <1>1, <1>2, <1>3, <1>9, <1>10, <1>11, <1>12, <1>13, <1>14, <1>15, <1>16, <1>17, WritesKeep


LEMMA MarkProjectKeeps == ASSUME Undisturbed, ProjectInv, NEW t \in Threads, MarkProject(t) PROVE ProjectInv'
<1>. DEFINE r == [th[t] EXCEPT !.pc = "write"]
            p == P(t)
<1>1. Op[t].kind = "save" /\ th[t].pc = "mark" /\ InProgress(t) /\ UNCHANGED <<trash, lock>>
  BY DEF MarkProject, Is, InProgress
<1>2. /\ th' = [th EXCEPT ![t] = r]
      /\ dirs' = [dirs EXCEPT ![At(t)] = [@ EXCEPT !.there = TRUE, !["marker"] = p]]
  BY DEF MarkProject, Go, Write
<1>c. /\ p \in Projects /\ dirs \in [Names -> DirRec] /\ th[t] \in CallRec /\ th \in [Threads -> CallRec]
      /\ TitlesFit /\ StoreKept /\ DirsKept /\ OneEach /\ ProjectsTyped /\ LocksKept /\ CallsApart
      /\ ProjectDir(p) \in Names /\ SaveKept(t)
  BY <1>1, CallFacts DEF CallKept
<1>3. r \in CallRec /\ r.pc = "write" /\ r.copy = th[t].copy /\ r.at = At(t) /\ r.title = th[t].title
  BY <1>c DEF CallRec, AllPcs, At
<1> HIDE DEF r
<1>d. \/ Home(At(t), p)
      \/ /\ ~dirs[At(t)].there /\ At(t) \in Tried(p) \ {p}
         /\ \A m \in Names : ~Home(m, p)
  BY <1>1, <1>c DEF SaveKept
<1>4. PICK n \in Names : n = At(t)
  BY <1>1, <1>c DEF SaveKept
<1>5. Bears(n, p) \/ (~dirs[n].there /\ n \in Tried(p) /\ \A m \in Names : ~Home(m, p))
  BY <1>d, <1>4 DEF Home
<1>6. dirs' = [dirs EXCEPT ![n] = [@ EXCEPT !.there = TRUE, !["marker"] = p]]
  BY <1>2, <1>4
<1>7. /\ dirs' \in [Names -> DirRec] /\ StoreKept'
      /\ Bears(n, p)' /\ dirs'[n].project = dirs[n].project /\ dirs'[n].manifest = dirs[n].manifest
      /\ \A m \in Names \ {n} : dirs'[m] = dirs[m]
      /\ \A m \in Names : \A q \in Projects : Home(m, q)' <=> Home(m, q) \/ (m = n /\ q = p /\ n # p)
  BY <1>c, <1>5, <1>6, MarkKeeps
<1>8. /\ ProjectsTyped' /\ LocksKept' /\ CallsApart'
      /\ th'[t] = r /\ \A u \in Threads \ {t} : th'[u] = th[u]
  <2>1. r.pc \in Pcs[Op[t].kind]
    BY <1>1, <1>3 DEF Pcs
  <2> QED BY <1>1, <1>2, <1>3, <1>7, <1>c, <2>1, Advances
<1>9. Home(n, p)'
  BY <1>4, <1>7, <1>c, <1>d
<1>10. ProjectDir(p)' = n
  BY <1>7, <1>9, <1>c, LookUpsNext DEF StoreKept, LookUps
<1>11. th[t].copy = dirs[n].project.has \cup {t} /\ (Op[t].title = Keep /\ Settled(p) => dirs[n].project.on)
  <2>1. CASE Home(n, p)
    <3>1. ProjectDir(p) = n
      BY <1>c, <2>1, HomeFound
    <3> QED BY <1>c, <3>1 DEF SaveKept
  <2>2. CASE ~dirs[n].there /\ \A m \in Names : ~Home(m, p)
    <3>1. dirs[ProjectDir(p)].project = Missing /\ dirs[n].project = Missing
      BY <1>c, <2>2, NoHome DEF DirsKept, DirKept, Empty
    <3> QED BY <1>c, <3>1 DEF SaveKept
  <2> QED BY <1>4, <1>d, <2>1, <2>2
<1>12. CallKept(t)'
  <2>1. At(t)' = n /\ P(t)' = p
    BY <1>3, <1>4, <1>8 DEF At, P
  <2>2. /\ th'[t].title \in Titles(p) /\ th'[t].pc = "write" /\ th'[t].copy = dirs'[n].project.has \cup {t}
        /\ Op[t].title = Keep /\ Settled(p) => dirs'[n].project.on
        /\ Settled(p) => n = Numbered[th'[t].title][1]
    BY <1>1, <1>3, <1>4, <1>7, <1>8, <1>11, <1>c DEF SaveKept
  <2>3. SaveKept(t)'
    BY <1>9, <1>10, <2>1, <2>2 DEF SaveKept
  <2> QED BY <1>1, <2>3 DEF CallKept
<1>13. \A u \in Threads \ {t} : InProgress(u) => CallKept(u)'
  <2>1. CASE Quiet(t)
    <3>1. Home(n, p)
      BY <1>1, <1>4, <1>c, <2>1, EditFacts DEF Quiet
    <3>2. Home(At(t), P(t)) /\ At(t) \in Names
      BY <1>4, <3>1
    <3>3. dirs'[At(t)].there /\ dirs'[At(t)].marker = P(t) /\ dirs'[At(t)].manifest = dirs[At(t)].manifest
      BY <1>4, <1>7 DEF Bears, P
    <3>4. /\ \A m \in Names \ {At(t)} : dirs'[m] = dirs[m]
          /\ \A m \in Names : \A q \in Projects : Home(m, q)' <=> Home(m, q)
      BY <1>4, <1>7, <3>1
    <3> QED BY <1>1, <1>7, <1>8, <3>2, <3>3, <3>4, OthersOfEdit
  <2>2. CASE ~Quiet(t)
    BY <1>1, <2>2, Alone
  <2> QED BY <2>1, <2>2
<1>14. \A u \in Threads : \A k \in Names : Home(k, P(u)) /\ Holds(k, u) => \E m \in Names : Home(m, P(u))' /\ Holds(m, u)'
  <2>1. TAKE u \in Threads
  <2>2. TAKE k \in Names
  <2>3. Home(k, P(u)) => Home(k, P(u))'
    BY <1>7, OpFacts DEF P
  <2>4. Holds(k, u) => Holds(k, u)'
    BY <1>7 DEF Holds
  <2> QED BY <2>3, <2>4
<1> QED BY <1>1, <1>2, <1>3, <1>7, <1>8, <1>12, <1>13, <1>14, WritesKeep

LEMMA WriteProjectKeeps == ASSUME Undisturbed, ProjectInv, NEW t \in Threads, WriteProject(t) PROVE ProjectInv'
<1>. DEFINE r == [th[t] EXCEPT !.pc = "done"]
            p == P(t)
<1>1. Op[t].kind = "save" /\ th[t].pc = "write" /\ InProgress(t) /\ UNCHANGED <<trash, lock>>
  BY DEF WriteProject, Is, InProgress
<1>2. /\ th' = [th EXCEPT ![t] = r]
      /\ dirs' = [dirs EXCEPT ![At(t)] = [@ EXCEPT !.there = TRUE, !["project"] = File(th[t].copy, th[t].title)]]
  BY DEF WriteProject, Go, Write
<1>c. /\ p \in Projects /\ dirs \in [Names -> DirRec] /\ th[t] \in CallRec /\ th \in [Threads -> CallRec]
      /\ TitlesFit /\ StoreKept /\ DirsKept /\ OneEach /\ ProjectsTyped /\ LocksKept /\ CallsApart
      /\ ProjectDir(p) \in Names /\ SaveKept(t)
  BY <1>1, CallFacts DEF CallKept
<1>3. r \in CallRec /\ r.pc = "done" /\ th[t].copy \in SUBSET Threads
  BY <1>c DEF CallRec, AllPcs
<1> HIDE DEF r
<1>4. PICK n \in Names : n = At(t)
  BY <1>1, <1>c DEF SaveKept
<1>5. Home(n, p) /\ th[t].title \in Titles(p) /\ (Settled(p) => n = Numbered[th[t].title][1])
  BY <1>1, <1>4, <1>c DEF SaveKept
<1>6. ProjectDir(p) = n /\ th[t].copy = dirs[n].project.has \cup {t}
  <2>1. ProjectDir(p) = n
    BY <1>5, <1>c, HomeFound
  <2> QED BY <2>1, <1>c DEF SaveKept
<1>7. PICK copy \in SUBSET Threads : copy = th[t].copy
  BY <1>3
<1>8. PICK title \in Titles(p) : title = th[t].title
  BY <1>5
<1>9. \A u \in copy : P(u) = p
  BY <1>5, <1>6, <1>7, <1>c DEF StoreKept, NoAliases, Home, Bears
<1>10. dirs' = [dirs EXCEPT ![n] = [@ EXCEPT !.there = TRUE, !["project"] = File(copy, title)]]
  BY <1>2, <1>4, <1>7, <1>8
<1>11. Settled(p) => n = Numbered[title][1]
  BY <1>5, <1>8
<1>12. /\ dirs' \in [Names -> DirRec] /\ StoreKept'
       /\ Bears(n, p)' /\ dirs'[n].manifest = dirs[n].manifest
       /\ dirs'[n].project.has = copy /\ dirs'[n].project.on
       /\ \A m \in Names \ {n} : dirs'[m] = dirs[m]
       /\ \A m \in Names : \A q \in Projects : Home(m, q)' <=> Home(m, q)
  <2>1. p \in Projects /\ dirs \in [Names -> DirRec] /\ StoreKept /\ Home(n, p)
    BY <1>5, <1>c
  <2> HIDE DEF p
  <2> QED BY <1>9, <1>10, <1>11, <2>1, ProjectKeeps
<1>13. /\ ProjectsTyped' /\ LocksKept' /\ CallsApart'
       /\ th'[t] = r /\ (\A u \in Threads \ {t} : th'[u] = th[u]) /\ ~InProgress(t)'
  <2>1. /\ r.pc \in Pcs[Op[t].kind] \cup {"done", "failed"} /\ (Op[t].kind = "update" => r.pc \in Pcs["update"])
        /\ th' = [th EXCEPT ![t] = r] /\ dirs' \in [Names -> DirRec] /\ UNCHANGED lock
    BY <1>1, <1>2, <1>3, <1>12
  <2>2. ProjectsTyped /\ LocksKept /\ CallsApart /\ InProgress(t) /\ r \in CallRec /\ r.pc = "done"
    BY <1>1, <1>3, <1>c
  <2> QED BY <2>1, <2>2, Advances
<1>14. \A u \in Threads \ {t} : InProgress(u) => CallKept(u)'
  <2>1. CASE Quiet(t)
    <3>1. Home(At(t), P(t)) /\ At(t) \in Names
      BY <1>4, <1>5
    <3>2. dirs'[At(t)].there /\ dirs'[At(t)].marker = P(t) /\ dirs'[At(t)].manifest = dirs[At(t)].manifest
      BY <1>4, <1>12 DEF Bears, P
    <3>3. \A m \in Names \ {At(t)} : dirs'[m] = dirs[m]
      BY <1>4, <1>12
    <3> QED BY <1>1, <1>12, <1>13, <3>1, <3>2, <3>3, OthersOfEdit
  <2>2. CASE ~Quiet(t)
    BY <1>1, <2>2, Alone
  <2> QED BY <2>1, <2>2
<1>15. \A u \in Threads : \A k \in Names : Home(k, P(u)) /\ Holds(k, u) => \E m \in Names : Home(m, P(u))' /\ Holds(m, u)'
  <2>1. TAKE u \in Threads
  <2>2. TAKE k \in Names
  <2>3. Home(k, P(u)) => Home(k, P(u))'
    BY <1>12, OpFacts DEF P
  <2>4. Holds(k, u) => Holds(k, u)'
    BY <1>6, <1>7, <1>12 DEF Holds
  <2> QED BY <2>3, <2>4
<1>16. Home(n, P(t))' /\ Holds(n, t)'
  <2>1. Home(n, p)'
    BY <1>5, <1>12, <1>c
  <2>2. Holds(n, t)'
    BY <1>1, <1>6, <1>7, <1>12 DEF Holds
  <2> QED BY <2>1, <2>2 DEF P
<1> QED BY <1>1, <1>2, <1>3, <1>12, <1>13, <1>14, <1>15, <1>16, WritesKeep

LEMMA RenameKeeps == ASSUME Undisturbed, ProjectInv, NEW t \in Threads, Rename(t) PROVE ProjectInv'
<1>. DEFINE p == P(t)
            title == th[t].title
<1>1. Op[t].kind = "save" /\ th[t].pc = "rename" /\ InProgress(t) /\ UNCHANGED <<trash, lock>>
  BY DEF Rename, Is, InProgress
<1>c. /\ p \in Projects /\ dirs \in [Names -> DirRec] /\ th[t] \in CallRec /\ th \in [Threads -> CallRec]
      /\ TitlesFit /\ StoreKept /\ DirsKept /\ OneEach /\ ProjectsTyped /\ LocksKept /\ CallsApart
      /\ ProjectDir(p) \in Names /\ SaveKept(t)
  BY <1>1, CallFacts DEF CallKept
<1>2. PICK n \in Names : n = At(t)
  BY <1>1, <1>c DEF SaveKept
<1>3. th[t].old = FindById(p) /\ n = UniqueFor(title, p) /\ title \in Titles(p)
  BY <1>1, <1>2, <1>c DEF SaveKept
<1>4. n \in Tried(p) /\ n # p /\ Free(n, p)
  BY <1>3, <1>c, UniqueFacts
<1>5. Settled(p) => n = Numbered[title][1]
  BY <1>3, <1>c, SettledUnique
<1>6. th[t].old # NoDir => Home(th[t].old, p) /\ th[t].old \in Names /\ ProjectDir(p) = th[t].old
  BY <1>3, <1>c, DirFacts
<1>7. ASSUME Moves(t), dirs[th[t].old].there,
             dirs' = [dirs EXCEPT ![At(t)] = dirs[th[t].old], ![th[t].old] = Empty], Go(t, "mark")
      PROVE  ProjectInv'
  <2>. DEFINE r == [th[t] EXCEPT !.pc = "mark"]
  <2>1. PICK old \in Names : old = th[t].old /\ Home(old, p) /\ ProjectDir(p) = old
    BY <1>6, <1>7 DEF Moves
  <2>2. old # n /\ ~dirs[n].there /\ dirs' = [dirs EXCEPT ![n] = dirs[old], ![old] = Empty] /\ th' = [th EXCEPT ![t] = r]
    BY <1>2, <1>7, <2>1 DEF Moves, Go
  <2>3. r \in CallRec /\ r.pc = "mark" /\ r.copy = th[t].copy /\ r.at = At(t) /\ r.title = th[t].title
    BY <1>c DEF CallRec, AllPcs, At
  <2> HIDE DEF r
  <2>4. Settled(p) => ~dirs[old].project.on
    <3>1. SUFFICES ASSUME Settled(p), dirs[old].project.on PROVE FALSE
      OBVIOUS
    <3>2. dirs[old].marker = p /\ dirs[old].project.title \in Titles(p)
      BY <1>c, <2>1, <3>1 DEF Home, Bears, DirsKept, DirKept, Missing
    <3>3. old = Numbered[dirs[old].project.title][1] /\ dirs[old].project.title = title
      BY <1>3, <1>c, <3>1, <3>2 DEF StoreKept, SettledKept, Settled
    <3> QED BY <1>5, <2>2, <3>1, <3>3
  <2>5. /\ dirs' \in [Names -> DirRec] /\ StoreKept'
        /\ dirs'[n] = dirs[old]
        /\ \A m \in Names : Home(m, p)' <=> m = n
        /\ \A m \in Names : \A q \in Projects \ {p} : Home(m, q)' <=> Home(m, q)
    <3> HIDE DEF p
    <3> QED BY <1>4, <1>c, <2>1, <2>2, <2>4, MoveKeeps
  <2>6. /\ ProjectsTyped' /\ LocksKept' /\ CallsApart'
        /\ th'[t] = r /\ \A u \in Threads \ {t} : th'[u] = th[u]
    <3>1. r.pc \in Pcs[Op[t].kind]
      BY <1>1, <2>3 DEF Pcs
    <3> QED BY <1>1, <1>c, <2>2, <2>3, <2>5, <3>1, Advances
  <2>7. ~Quiet(t)
    <3>1. SUFFICES ASSUME Settled(p), Op[t].title = Keep PROVE FALSE
      BY <1>1 DEF Quiet
    <3>2. dirs[old].project.on
      BY <1>c, <2>1, <3>1 DEF SaveKept
    <3> QED BY <2>4, <3>1, <3>2
  <2>8. \A u \in Threads \ {t} : ~InProgress(u)
    BY <1>1, <2>7, Alone
  <2>9. CallKept(t)'
    <3>1. At(t)' = n /\ P(t)' = p
      BY <1>2, <2>3, <2>6 DEF At, P
    <3>2. Home(n, p)'
      BY <2>5
    <3>3. ProjectDir(p)' = n
      BY <1>c, <2>5, <3>2, LookUpsNext DEF StoreKept, LookUps
    <3>4. ~(Op[t].title = Keep /\ Settled(p))
      BY <1>1, <2>7 DEF Quiet
    <3>5. /\ th'[t].title = title /\ th'[t].pc = "mark"
          /\ th'[t].copy = dirs'[n].project.has \cup {t}
      BY <1>c, <2>1, <2>3, <2>5, <2>6 DEF SaveKept
    <3>6. SaveKept(t)'
      BY <1>3, <1>5, <3>1, <3>2, <3>3, <3>4, <3>5 DEF SaveKept
    <3> QED BY <1>1, <3>6 DEF CallKept
  <2>10. \A u \in Threads : \A k \in Names : Home(k, P(u)) /\ Holds(k, u) => \E m \in Names : Home(m, P(u))' /\ Holds(m, u)'
    <3>1. TAKE u \in Threads
    <3>2. TAKE k \in Names
    <3>3. HAVE Home(k, P(u)) /\ Holds(k, u)
    <3>4. CASE P(u) = p
      <4>1. k = old
        BY <1>c, <2>1, <3>3, <3>4 DEF OneEach
      <4>2. Holds(n, u)'
        BY <2>5, <3>3, <4>1 DEF Holds
      <4>3. Home(n, p)'
        BY <2>5
      <4> QED BY <3>4, <4>2, <4>3 DEF P
    <3>5. CASE P(u) # p
      <4>1. k # n /\ k # old
        BY <2>1, <2>2, <3>3, <3>5 DEF Home, Bears
      <4>2. dirs'[k] = dirs[k]
        BY <1>c, <2>2, <4>1
      <4>3. Home(k, P(u))' /\ Holds(k, u)'
        BY <2>5, <3>3, <3>5, <4>2, OpFacts DEF Holds, P
      <4> QED BY <4>3
    <3> QED BY <3>4, <3>5
  <2> QED BY <1>1, <2>2, <2>3, <2>5, <2>6, <2>8, <2>9, <2>10, WritesKeep
<1>8. ASSUME Moves(t), ~dirs[th[t].old].there PROVE FALSE
  BY <1>6, <1>8 DEF Moves, Home, Bears
<1>9. ASSUME ~Moves(t), Go(t, "mark"), UNCHANGED dirs PROVE ProjectInv'
  <2>. DEFINE r == [th[t] EXCEPT !.pc = "mark"]
  <2>1. th' = [th EXCEPT ![t] = r]
    BY <1>9 DEF Go
  <2>2. r \in CallRec /\ r.pc = "mark" /\ r.copy = th[t].copy /\ r.at = At(t) /\ r.title = th[t].title
    BY <1>c DEF CallRec, AllPcs, At
  <2>3. th'[t] = r
    BY <1>c, <2>1
  <2> HIDE DEF r
  <2>4. \/ Home(n, p)
        \/ /\ ~dirs[n].there /\ n \in Tried(p) \ {p}
           /\ \A m \in Names : ~Home(m, p)
    <3>1. dirs[n].there => Home(n, p)
      BY <1>4 DEF Free, Home, Bears
    <3>2. CASE th[t].old # NoDir
      BY <1>2, <1>6, <1>9, <3>1, <3>2 DEF Moves
    <3>3. CASE th[t].old = NoDir
      <4>1. \A m \in Names : ~Home(m, p)
        BY <1>3, <1>c, <3>3, HomeFound
      <4> QED BY <1>4, <3>1, <4>1
    <3> QED BY <3>2, <3>3
  <2>5. SaveKept(t)'
    <3>1. At(t)' = n /\ P(t)' = p /\ th'[t].pc = "mark" /\ th'[t].title = title /\ th'[t].copy = th[t].copy
      BY <1>2, <2>2, <2>3 DEF At, P
    <3>2. ProjectDir(p)' = ProjectDir(p) /\ \A m \in Names : Home(m, p)' <=> Home(m, p)
      BY <1>9, SameLookUps
    <3>3. Home(n, p)' \/ (~dirs'[n].there /\ n \in Tried(p) \ {p} /\ \A m \in Names : ~Home(m, p)')
      BY <1>9, <2>4, <3>2
    <3>4. th'[t].copy = dirs'[ProjectDir(p)].project.has \cup {t} /\ (Op[t].title = Keep /\ Settled(p) => dirs'[ProjectDir(p)].project.on)
      BY <1>9, <1>c, <3>1 DEF SaveKept
    <3>5. Tried(p)' = Tried(p) /\ (Settled(p)' <=> Settled(p)) /\ Titles(p)' = Titles(p)
      BY DEF Tried, Ids, Titles, Settled, P
    <3> HIDE DEF title
    <3> QED BY <1>3, <1>5, <3>1, <3>2, <3>3, <3>4, <3>5 DEF SaveKept
  <2>6. CallKept(t)' /\ r.pc \in Pcs[Op[t].kind]
    BY <1>1, <2>2, <2>5 DEF CallKept, Pcs
  <2> QED BY <1>1, <1>9, <2>1, <2>2, <2>6, Looks
<1> QED BY <1>7, <1>8, <1>9 DEF Rename

LEMMA MoveToTrashKeeps == ASSUME Undisturbed, ProjectInv, NEW t \in Threads, MoveToTrash(t) PROVE ProjectInv'
<1>. DEFINE r == [th[t] EXCEPT !.pc = "done"]
            p == P(t)
<1>1. Op[t].kind = "delete" /\ th[t].pc = "move" /\ InProgress(t) /\ UNCHANGED lock
  BY DEF MoveToTrash, Is, InProgress
<1>c. /\ p \in Projects /\ dirs \in [Names -> DirRec] /\ th[t] \in CallRec /\ th \in [Threads -> CallRec]
      /\ TitlesFit /\ StoreKept /\ DirsKept /\ OneEach /\ ProjectsTyped /\ LocksKept /\ CallsApart
      /\ ProjectDir(p) \in Names /\ DeleteKept(t)
  BY <1>1, CallFacts DEF CallKept
<1>2. PICK n \in Names : n = At(t) /\ Home(n, p)
  BY <1>c DEF DeleteKept
<1>3. /\ th' = [th EXCEPT ![t] = r] /\ dirs' = [dirs EXCEPT ![n] = Empty] /\ trash' = trash \cup {dirs[n]}
  BY <1>2 DEF MoveToTrash, Go, Home, Bears
<1>4. r \in CallRec /\ r.pc = "done"
  BY <1>c DEF CallRec, AllPcs
<1> HIDE DEF r
<1>5. /\ dirs' \in [Names -> DirRec] /\ StoreKept'
      /\ \A m \in Names \ {n} : dirs'[m] = dirs[m]
      /\ \A m \in Names : ~Home(m, p)'
      /\ \A m \in Names : \A q \in Projects \ {p} : Home(m, q)' <=> Home(m, q)
  <2> HIDE DEF p
  <2> QED BY <1>2, <1>3, <1>c, TrashKeeps
<1>6. /\ ProjectsTyped' /\ LocksKept' /\ CallsApart'
      /\ th'[t] = r /\ (\A u \in Threads \ {t} : th'[u] = th[u]) /\ ~InProgress(t)'
  BY <1>1, <1>3, <1>4, <1>5, <1>c, Advances
<1>7. \A u \in Threads \ {t} : ~InProgress(u)
  BY <1>1, Alone DEF Quiet
<1>8. \A u \in Threads : \A k \in Names : Home(k, P(u)) /\ Holds(k, u) =>
        Trashed(u)' \/ \E m \in Names : Home(m, P(u))' /\ Holds(m, u)'
  <2>1. TAKE u \in Threads
  <2>2. TAKE k \in Names
  <2>3. HAVE Home(k, P(u)) /\ Holds(k, u)
  <2>4. CASE P(u) = p
    <3>1. k = n
      BY <1>2, <1>c, <2>3, <2>4 DEF OneEach
    <3>2. dirs[n].marker = P(u) /\ u \in dirs[n].project.has \cup dirs[n].manifest.has /\ dirs[n] \in trash'
      BY <1>3, <2>3, <3>1 DEF Home, Bears, Holds
    <3> QED BY <3>2 DEF Trashed, P
  <2>5. CASE P(u) # p
    <3>1. k # n
      BY <1>2, <2>3, <2>5 DEF Home, Bears
    <3>2. Home(k, P(u))' /\ Holds(k, u)'
      BY <1>5, <2>3, <2>5, <3>1, OpFacts DEF Holds, P
    <3> QED BY <3>2
  <2> QED BY <2>4, <2>5
<1>9. trash \subseteq trash'
  BY <1>3
<1> QED BY <1>1, <1>3, <1>4, <1>5, <1>6, <1>7, <1>8, <1>9, WritesKeep


\* Without a change of the directories they are as they were.
LEMMA SameStore == ASSUME UNCHANGED dirs, StoreKept PROVE StoreKept'
<1>1. (\A n \in Names, p \in Projects : Home(n, p)' <=> Home(n, p)) /\ dirs' = dirs
  BY DEF Home, Bears, IsProjectDir
<1>2. \A p : Tried(p)' = Tried(p) /\ (Settled(p)' <=> Settled(p)) /\ Titles(p)' = Titles(p)
  BY DEF Tried, Ids, Titles, Settled, P
<1>3. DirsKept'
  <2>1. DirsKept
    BY DEF StoreKept
  <2> QED BY <1>1, <1>2, <2>1 DEF DirsKept, DirKept
<1>4. NoAliases'
  BY <1>1 DEF StoreKept, NoAliases, P
<1>5. SettledKept'
  BY <1>1, <1>2 DEF StoreKept, SettledKept
<1>6. OneEach'
  BY <1>1 DEF StoreKept, OneEach
<1> QED BY <1>3, <1>4, <1>5, <1>6 DEF StoreKept

\* The process is killed and started again.
LEMMA CrashKeeps == ASSUME ProjectInv, Crash PROVE ProjectInv'
<1>1. /\ ProjectsTyped /\ StoreKept /\ LocksKept /\ DoneKept
      /\ dirs \in [Names -> DirRec] /\ th \in [Threads -> CallRec] /\ UNCHANGED <<dirs, trash>>
  BY DEF ProjectInv, ProjectsTyped, Crash
<1>2. /\ th' = [t \in Threads |-> IF InProgress(t) THEN [th[t] EXCEPT !.pc = "failed"] ELSE th[t]]
      /\ lock' = [p \in Projects |-> NoThread]
  BY DEF Crash
<1>3. \A t \in Threads : /\ th'[t] \in CallRec /\ ~InProgress(t)'
                         /\ th'[t].pc = "done" => th[t].pc = "done"
  <2>1. TAKE t \in Threads
  <2>2. CASE InProgress(t)
    <3>1. th'[t] = [th[t] EXCEPT !.pc = "failed"] /\ th[t] \in CallRec
      BY <1>1, <1>2, <2>2
    <3>2. th'[t] \in CallRec /\ th'[t].pc = "failed"
      BY <3>1 DEF CallRec, AllPcs
    <3> QED BY <3>2 DEF InProgress
  <2>3. CASE ~InProgress(t)
    BY <1>1, <1>2, <2>3 DEF InProgress
  <2> QED BY <2>2, <2>3
<1>4. ProjectsTyped'
  BY <1>1, <1>2, <1>3 DEF ProjectsTyped
<1>5. StoreKept'
  BY <1>1, SameStore
<1>6. LocksKept' /\ CallsApart' /\ CallsKept'
  BY <1>2, <1>3 DEF LocksKept, CallsApart, CallsKept
<1>7. DoneKept'
  BY <1>1, <1>3 DEF DoneKept, Trashed, Home, Bears, IsProjectDir, Holds, P
<1> QED BY <1>4, <1>5, <1>6, <1>7 DEF ProjectInv

\* There is no directory and no call yet.
LEMMA ProjectsStart == ASSUME Undisturbed, Init PROVE ProjectInv
<1>1. /\ dirs = [n \in Names |-> Empty] /\ trash = {} /\ lock = [p \in Projects |-> NoThread]
      /\ th = [t \in Threads |-> [pc |-> "start", at |-> NoDir, old |-> NoDir, copy |-> {}, title |-> Keep]]
  BY DEF Init, Undisturbed
<1>2. Empty \in DirRec /\ [pc |-> "start", at |-> NoDir, old |-> NoDir, copy |-> {}, title |-> Keep] \in CallRec
  BY DEF Empty, Missing, DirRec, Contains, CallRec, AllPcs
<1>3. \A t \in Threads : th[t].pc = "start" /\ ~InProgress(t)
  BY <1>1 DEF InProgress
<1>4. ProjectsTyped
  BY <1>1, <1>2, <1>3 DEF ProjectsTyped
<1>5. \A n \in Names : /\ dirs[n] = Empty /\ ~dirs[n].there /\ ~dirs[n].project.on
                       /\ dirs[n].project = Missing /\ dirs[n].manifest = Missing
                       /\ dirs[n].project.has = {} /\ dirs[n].manifest.has = {}
  BY <1>1 DEF Empty, Missing
<1>6. StoreKept
  BY <1>5 DEF StoreKept, DirsKept, DirKept, NoAliases, SettledKept, OneEach, Home, Bears
<1>7. LocksKept /\ CallsApart /\ CallsKept /\ DoneKept
  BY <1>1, <1>3 DEF LocksKept, CallsApart, CallsKept, DoneKept
<1> QED BY <1>4, <1>6, <1>7 DEF ProjectInv

\* Nothing happens.
LEMMA ProjectsRest == ASSUME ProjectInv, UNCHANGED vars PROVE ProjectInv'
<1>1. /\ UNCHANGED <<dirs, trash, lock, th>> /\ dirs' = dirs /\ trash' = trash /\ lock' = lock /\ th' = th
      /\ ProjectsTyped /\ StoreKept /\ LocksKept /\ CallsApart /\ CallsKept /\ DoneKept
  BY DEF vars, ProjectInv
<1>2. \A t \in Threads : InProgress(t)' <=> InProgress(t)
  BY <1>1 DEF InProgress
<1>3. ProjectsTyped' /\ LocksKept' /\ CallsApart'
  BY <1>1, <1>2 DEF ProjectsTyped, LocksKept, CallsApart, P
<1>4. StoreKept'
  BY <1>1, SameStore
<1>5. CallsKept'
  <2>1. ASSUME NEW t \in Threads, InProgress(t)' PROVE CallKept(t)'
    BY <1>1, <1>2, <2>1, SameDirs DEF CallsKept
  <2> QED BY <2>1 DEF CallsKept
<1>6. DoneKept'
  BY <1>1 DEF DoneKept, Trashed, Home, Bears, IsProjectDir, Holds, P
<1> QED BY <1>3, <1>4, <1>5, <1>6 DEF ProjectInv

\* Every step of a call keeps what it and the others have found so.
LEMMA ProjectsMove == ASSUME Undisturbed, ProjectInv, [Next]_vars PROVE ProjectInv'
<1>1. CASE UNCHANGED vars
  BY <1>1, ProjectsRest
<1>2. CASE Crash
  BY <1>2, CrashKeeps
<1>3. ASSUME NEW t \in Threads, Step(t) PROVE ProjectInv'
  <2>1. CASE Begin(t)
    BY <2>1, BeginKeeps
  <2>2. CASE ReadManifest(t)
    BY <2>2, ReadManifestKeeps
  <2>3. CASE LocateMarker(t) \/ LocateManifest(t)
    BY <2>3, LocateKeeps
  <2>4. CASE MarkManifest(t)
    BY <2>4, MarkManifestKeeps
  <2>5. CASE WriteManifest(t)
    BY <2>5, WriteManifestKeeps
  <2>6. CASE Load(t)
    BY <2>6, LoadKeeps
  <2>7. CASE FindOld(t)
    BY <2>7, FindOldKeeps
  <2>8. CASE FindNew(t)
    BY <2>8, FindNewKeeps
  <2>9. CASE Rename(t)
    BY <2>9, RenameKeeps
  <2>10. CASE MarkProject(t)
    BY <2>10, MarkProjectKeeps
  <2>11. CASE WriteProject(t)
    BY <2>11, WriteProjectKeeps
  <2>12. CASE FindDeleted(t)
    BY <2>12, FindDeletedKeeps
  <2>13. CASE MoveToTrash(t)
    BY <2>13, MoveToTrashKeeps
  <2> QED BY <1>3, <2>1, <2>2, <2>3, <2>4, <2>5, <2>6, <2>7, <2>8, <2>9, <2>10, <2>11, <2>12, <2>13 DEF Step
<1> QED BY <1>1, <1>2, <1>3 DEF Next

\* What a call has written is where the next one looks.
LEMMA DoneFound ==
  ASSUME ProjectInv, NEW t \in Threads, Op[t].kind # "delete", th[t].pc = "done", ~Trashed(t)
  PROVE  Holds(ProjectDir(P(t)), t)
<1>1. PICK n \in Names : Home(n, P(t)) /\ Holds(n, t)
  BY DEF ProjectInv, DoneKept
<1>2. P(t) \in Projects /\ DirsKept /\ OneEach
  BY OpFacts DEF ProjectInv, StoreKept
<1>3. ProjectDir(P(t)) = n
  <2> DEFINE p == P(t)
  <2>1. p \in Projects /\ Home(n, p) /\ DirsKept /\ OneEach
    BY <1>1, <1>2
  <2> HIDE DEF p
  <2>2. ProjectDir(p) = n
    BY <2>1, HomeFound
  <2> QED BY <2>2 DEF p
<1> QED BY <1>1, <1>3

\* What the invariant says to a reader of the store.
LEMMA ProjectInvSays == ProjectInv => ProjectsApart /\ HistoryKept
<1> SUFFICES ASSUME ProjectInv PROVE ProjectsApart /\ HistoryKept
  OBVIOUS
<1>1. ProjectsTyped /\ StoreKept /\ LocksKept /\ DirsKept /\ OneEach
  BY DEF ProjectInv, StoreKept
<1>2. TypeOK
  <2>1. dirs \in [Names -> [there : BOOLEAN, marker : Projects \cup {NoId},
                       project : [on : BOOLEAN, has : SUBSET Threads, title : Names \cup {Keep}],
                       manifest : [on : BOOLEAN, has : SUBSET Threads, title : {Keep}]]]
    BY <1>1 DEF ProjectsTyped, DirRec, Contains
  <2>2. ASSUME NEW t \in Threads
        PROVE  /\ At(t) \in Names \cup {NoDir} /\ th[t].old \in Names \cup {NoDir}
               /\ th[t].copy \subseteq Threads /\ th[t].title \in Names \cup {Keep}
    <3>1. th[t] \in CallRec
      BY <1>1 DEF ProjectsTyped
    <3> QED BY <3>1 DEF CallRec, At
  <2>3. ASSUME NEW p \in Projects
        PROVE  {t \in Threads : Op[t].kind = "update" /\ P(t) = p /\ InProgress(t)} = {lock[p]} \ {NoThread}
    <3>1. lock[p] \in Threads \cup {NoThread}
      BY <1>1 DEF ProjectsTyped
    <3>2. lock[p] # NoThread => P(lock[p]) = p /\ Op[lock[p]].kind = "update" /\ InProgress(lock[p])
      BY <1>1 DEF LocksKept
    <3>3. \A t \in Threads : Op[t].kind = "update" /\ P(t) = p /\ InProgress(t) => lock[p] = t /\ t # NoThread
      BY <1>1, ThreadAssumption DEF LocksKept
    <3> QED BY <3>1, <3>2, <3>3
  <2> QED BY <2>1, <2>2, <2>3 DEF TypeOK
<1>3. EditsKept
  <2>1. ASSUME NEW t \in Threads, Is(t, "save", "done"), ~Trashed(t)
        PROVE  t \in dirs[ProjectDir(P(t))].project.has
    <3>1. Op[t].kind = "save" /\ th[t].pc = "done"
      BY <2>1 DEF Is
    <3>2. Holds(ProjectDir(P(t)), t)
      BY <2>1, <3>1, DoneFound
    <3> QED BY <3>1, <3>2 DEF Holds
  <2> QED BY <2>1 DEF EditsKept
<1>4. HistoryKept
  <2>1. ASSUME NEW t \in Threads, Is(t, "update", "done"), ~Trashed(t)
        PROVE  t \in dirs[ProjectDir(P(t))].manifest.has
    <3>1. Op[t].kind = "update" /\ th[t].pc = "done"
      BY <2>1 DEF Is
    <3>2. Holds(ProjectDir(P(t)), t)
      BY <2>1, <3>1, DoneFound
    <3> QED BY <3>1, <3>2 DEF Holds
  <2> QED BY <2>1 DEF HistoryKept
<1>5. NoAliases
  BY <1>1 DEF StoreKept
<1>6. OneHome
  <2>1. \A n \in Names : IsProjectDir(n) => dirs[n].marker \in Projects /\ Home(n, dirs[n].marker)
    BY <1>1 DEF DirsKept, DirKept, IsProjectDir, Home, Bears
  <2> QED BY <1>1, <2>1 DEF OneHome, OneEach
<1> QED BY <1>2, <1>3, <1>4, <1>5, <1>6 DEF ProjectsApart

\* Saves, renames, transactions, deletions and kills keep the invariant, for
\* callers that see to Undisturbed.
THEOREM ProjectInvariant == Undisturbed => (Spec => []ProjectInv)
<1>1. SUFFICES ASSUME Undisturbed PROVE Spec => []ProjectInv
  OBVIOUS
<1>2. Undisturbed /\ Init => ProjectInv
  BY ProjectsStart
<1>3. Undisturbed /\ ProjectInv /\ [Next]_vars => ProjectInv'
  BY ProjectsMove
<1> QED BY <1>1, <1>2, <1>3, PTL DEF Spec

\* _find_project_dir_by_id, _unique_project_dir_for_title and the rename of a
\* retitled project: each project has one directory, nothing of another is in it,
\* and all that was saved is found there, whatever titles collide and whenever the
\* process is killed.
THEOREM ProjectsStayApart == Undisturbed => (Spec => []ProjectsApart)
<1>1. ProjectInv => ProjectsApart
  BY ProjectInvSays
<1> QED BY <1>1, ProjectInvariant, PTL

\* update_manifest's lock: a version is not lost to another transaction, an edit
\* of the project, a rename or a kill, for any projects, titles and threads.
THEOREM HistoryStays == Undisturbed => (Spec => []HistoryKept)
<1>1. ProjectInv => HistoryKept
  BY ProjectInvSays
<1> QED BY <1>1, ProjectInvariant, PTL
=============================================================================
