---------------------------- MODULE BundleInstall ----------------------------
(***************************************************************************)
(* The installation of the bundle of a service into its repository         *)
(* (install_repo_bundles of scripts/tts_more_deploy.py).                   *)
(*                                                                         *)
(* A manifest in the target names the files that are owned, an anchor that *)
(* the application keeps names the manifest, and both an anchor and a file *)
(* in the target say that an installation is under way, so that one that   *)
(* was cut can be resumed.  The user edits files of the target at any      *)
(* moment; the sources of the bundle change between installations.         *)
(***************************************************************************)
EXTENDS Naturals, FiniteSets

CONSTANTS Files,
          Versions,     \* of the bundle
          Bundle,       \* version -> file -> its content, or NoFile
          Launcher,     \* version -> the content of its launcher
          NoFile, Mine, \* no file; a content of the user's own
          NoVersion,
          MaxTurns,     \* bound on what the user does
          MaxCuts       \* bound on installations that are cut

ASSUME BundleAssumption ==
  Bundle \in [Versions -> [Files -> {NoFile} \cup {Bundle[v][f] : v \in Versions, f \in Files}]]
\* A path that a bundle may have, or the user; there is one.
ASSUME FilesAssumption == Files # {}
ASSUME MineAssumption == Mine # NoFile /\ \A v \in Versions, f \in Files : Bundle[v][f] # Mine
ASSUME VersionsAssumption == NoVersion \notin Versions

VARIABLES
  source,     \* the version of the bundle in the application
  target,     \* file -> its content
  manifest,   \* the version tts-more-repo.json describes
  pending,    \* the file of an installation under way
  anchor,     \* what the application keeps
  start,      \* the launcher beside the target
  install,    \* the installation under way
  touched,    \* files the user changed and no installation has written since
  turns, cuts

bundleVars == <<source, target, manifest, pending, anchor, start, install, touched, turns, cuts>>

Nothing == [f \in Files |-> NoFile]
NoPending == [desired |-> NoVersion, previous |-> Nothing]
NoAnchor == [state |-> "none", from |-> NoVersion, to |-> NoVersion]
NoInstall == [pc |-> "rest", previous |-> Nothing, copy |-> {}, stale |-> {}, mine |-> {}]

BundleInit ==
  /\ source \in Versions
  /\ target = Nothing /\ manifest = NoVersion /\ pending = NoPending /\ anchor = NoAnchor
  /\ start \in {NoFile, Mine}
  /\ install = NoInstall
  /\ touched = {} /\ turns = 0 /\ cuts = 0

Kept(owned) == {f \in Files : owned[f] # NoFile}
OwnedBy(v) == IF v = NoVersion THEN Nothing ELSE Bundle[v]

\* _bundle_inventory: the files to be, by their hashes
Desired == Bundle[source]

\* A pending anchor fits a target whose manifest is the old or the new one.
ManifestFits == manifest = source \/ manifest = anchor.from

\* The anchor and the manifest must be of one installation.
AnchorFits ==
  \/ anchor.state = "none" /\ manifest = NoVersion /\ pending = NoPending
  \/ anchor.state = "installed" /\ manifest # NoVersion /\ anchor.to = manifest
  \/ anchor.state = "pending" /\ anchor.to = source /\ ManifestFits

\* What the installation before this one owns
Previous ==
  IF anchor.state = "pending" /\ manifest = source THEN Desired ELSE OwnedBy(manifest)

PendingFits ==
  pending # NoPending => /\ pending.desired = source
                         /\ manifest = source \/ pending.previous = Previous

Resuming == pending # NoPending \/ anchor.state = "pending"

ToValidate == Kept(Previous) \cup IF Resuming THEN Kept(Desired) ELSE {}

\* _validate_owned_bundle_files
FilesFit ==
  /\ \A f \in ToValidate :
       target[f] \in {NoFile, Previous[f]} \cup IF Resuming THEN {Desired[f]} ELSE {}
  /\ ~Resuming => \A f \in Kept(Desired) \ Kept(Previous) : target[f] = NoFile

Accepts == AnchorFits /\ PendingFits /\ FilesFit

\* Mutant: nothing of the version before is removed.
NoneStale == {}

Stale == Kept(Previous) \ Kept(Desired)

-----------------------------------------------------------------------------
\* install_repo_bundles, up to the first write; what is refused leaves all
\* as it was.
Plan ==
  /\ install.pc = "rest"
  /\ Accepts
  /\ install' = [pc |-> "anchor", previous |-> Previous, copy |-> Kept(Desired), stale |-> Stale,
                 mine |-> {f \in Files : target[f] = Mine}]
  /\ UNCHANGED <<source, target, manifest, pending, anchor, start, touched, turns, cuts>>

\* --adopt-existing: a manifest whose files are all there gets an anchor.
\* _require_owned_files_match
Adopt ==
  /\ install.pc = "rest"
  /\ anchor = NoAnchor /\ pending = NoPending /\ manifest # NoVersion
  /\ \A f \in Kept(OwnedBy(manifest)) : target[f] = OwnedBy(manifest)[f]
  /\ anchor' = [state |-> "installed", from |-> NoVersion, to |-> manifest]
  /\ UNCHANGED <<source, target, manifest, pending, start, install, touched, turns, cuts>>

AnchorPending ==
  /\ install.pc = "anchor"
  /\ anchor' = [state |-> "pending", from |-> manifest, to |-> source]
  /\ install' = [install EXCEPT !.pc = "pending"]
  /\ UNCHANGED <<source, target, manifest, pending, start, touched, turns, cuts>>

WritePending ==
  /\ install.pc = "pending"
  /\ pending' = IF pending = NoPending THEN [desired |-> source, previous |-> install.previous] ELSE pending
  /\ install' = [install EXCEPT !.pc = "copy"]
  /\ UNCHANGED <<source, target, manifest, anchor, start, touched, turns, cuts>>

\* _atomic_write_bytes
CopyFile(f) ==
  /\ install.pc = "copy" /\ f \in install.copy
  /\ target' = [target EXCEPT ![f] = Desired[f]]
  /\ install' = [install EXCEPT !.copy = @ \ {f}]
  /\ touched' = touched \ {f}
  /\ UNCHANGED <<source, manifest, pending, anchor, start, turns, cuts>>

\* _remove_owned_bundle_file
RemoveStale(f) ==
  /\ install.pc = "copy" /\ install.copy = {} /\ f \in install.stale
  /\ target' = [target EXCEPT ![f] = NoFile]
  /\ install' = [install EXCEPT !.stale = @ \ {f}]
  /\ touched' = touched \ {f}
  /\ UNCHANGED <<source, manifest, pending, anchor, start, turns, cuts>>

WriteBundleManifest ==
  /\ install.pc = "copy" /\ install.copy = {} /\ install.stale = {}
  /\ manifest' = source
  /\ install' = [install EXCEPT !.pc = "installed"]
  /\ UNCHANGED <<source, target, pending, anchor, start, touched, turns, cuts>>

\* _installed_bundle_anchor
AnchorInstalled ==
  /\ install.pc = "installed"
  /\ anchor' = [state |-> "installed", from |-> NoVersion, to |-> source]
  /\ install' = [install EXCEPT !.pc = "drop"]
  /\ UNCHANGED <<source, target, manifest, pending, start, touched, turns, cuts>>

DropPending ==
  /\ install.pc = "drop"
  /\ pending' = NoPending
  /\ install' = [install EXCEPT !.pc = "launcher"]
  /\ UNCHANGED <<source, target, manifest, anchor, start, touched, turns, cuts>>

\* A launcher that is there with another content ends the installation with
\* an error, also the one of an earlier version.
InstallLauncher ==
  /\ install.pc = "launcher"
  /\ start' = IF start = NoFile THEN Launcher[source] ELSE start
  /\ install' = NoInstall
  /\ UNCHANGED <<source, target, manifest, pending, anchor, touched, turns, cuts>>

-----------------------------------------------------------------------------
\* The installation is cut: an error, or the end of the process.
Cut ==
  /\ install.pc # "rest" /\ cuts < MaxCuts
  /\ cuts' = cuts + 1
  /\ install' = NoInstall
  /\ UNCHANGED <<source, target, manifest, pending, anchor, start, touched, turns>>

Turn == turns < MaxTurns /\ turns' = turns + 1

ChangeSource(v) ==
  /\ Turn
  /\ install.pc = "rest" /\ v # source
  /\ source' = v
  /\ UNCHANGED <<target, manifest, pending, anchor, start, install, touched, cuts>>

Edit(f) ==
  /\ Turn
  /\ \E content \in {Mine, NoFile} \ {target[f]} : target' = [target EXCEPT ![f] = content]
  /\ install' = [install EXCEPT !.mine = @ \ {f}]
  /\ touched' = touched \cup {f}
  /\ UNCHANGED <<source, manifest, pending, anchor, start, cuts>>

\* The target is removed as a whole (git clean), or the application's data.
LoseTarget ==
  /\ Turn
  /\ install.pc = "rest"
  /\ target' = Nothing /\ manifest' = NoVersion /\ pending' = NoPending
  /\ touched' = Files
  /\ UNCHANGED <<source, anchor, start, install, cuts>>

LoseAnchor ==
  /\ Turn
  /\ install.pc = "rest"
  /\ anchor' = NoAnchor
  /\ UNCHANGED <<source, target, manifest, pending, start, install, touched, cuts>>

BundleNext ==
  \/ Plan \/ Adopt \/ AnchorPending \/ WritePending \/ WriteBundleManifest \/ AnchorInstalled \/ DropPending
  \/ InstallLauncher \/ Cut \/ LoseTarget \/ LoseAnchor
  \/ \E f \in Files : CopyFile(f) \/ RemoveStale(f) \/ Edit(f)
  \/ \E v \in Versions : ChangeSource(v)

BundleSpec == BundleInit /\ [][BundleNext]_bundleVars

-----------------------------------------------------------------------------
\* A file the user changed, or made, before an installation began is neither
\* overwritten nor removed by it, also when it resumes one that was cut.
UserFilesKept == \A f \in install.mine : target[f] = Mine

\* Once the anchor says that a version is installed, the target holds that
\* version, whole and without a file of an earlier one, but for what the user
\* changed: also after any number of cuts, resumptions and changed sources.
InstalledIsWhole ==
  anchor.state = "installed" /\ manifest = anchor.to =>
    \A f \in Files \ touched : target[f] = OwnedBy(manifest)[f]

\* Whenever an installation was cut, the same command carries it on, unless
\* the user changed a file or the data of the application are lost.
CutMeansResumable ==
  /\ install.pc = "rest"
  /\ Resuming /\ anchor.state # "none" /\ anchor.to = source
  /\ touched = {}
  => Accepts

\* An installation, cut and resumed or not, leaves the user's files alone, is
\* whole once it counts as installed, and can be carried on until then.
InstallSound == UserFilesKept /\ InstalledIsWhole /\ CutMeansResumable
=============================================================================
