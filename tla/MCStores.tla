------------------------------- MODULE MCStores -------------------------------
(***************************************************************************)
(* What is kept on the disk: projects, the character library, its uploads, *)
(* its use by projects and the catalogue it is fed from, the bundles       *)
(* installed into repositories, the integration published into a fork, and *)
(* the control state of a reliability run.  The modules share no variable; *)
(* part says which of them a behaviour is about.                           *)
(***************************************************************************)
EXTENDS MCProjectStore, RoleCasting, BundleInstall, HostProbe, IntegrationSync

\* Two clients; two numbers of processes, so that one is soon used again
CONSTANTS c1, c2, n1, n2

\* In its second version a file of the bundle has changed, one has gone, one
\* is new, and so has the launcher.
CONSTANTS f1, f2, f3

TwoVersions == (1 :> (f1 :> x @@ f2 :> x @@ f3 :> NoFile)) @@ (2 :> (f1 :> y @@ f2 :> NoFile @@ f3 :> x))
TwoLaunchers == (1 :> x) @@ (2 :> y)
\* A hero who is called by another name, too; both are presets.
NamedTwo == ("hero" :> "h") @@ ("villain" :> "villain")
AnswersTwo == ("hero" :> {"hero", "h", "old"}) @@ ("villain" :> {"villain", "v"})
TwoEdits == {[role |-> "old", link |-> "villain"], [role |-> "v", link |-> NoOne]}
BothPresets == <<"hero", "villain">>

\* Two experiments, one of them in two versions; recordings of one, and of a
\* third that has no checkpoints; folders of all; and what two services tell.
Weight(kind, version, name, score) == [kind |-> kind, scope |-> "checkout", version |-> version, name |-> name, score |-> score]
Recording(path, sidecar, named, seconds) == [path |-> path, sidecar |-> sidecar, listed |-> named, seconds |-> seconds]
Directory(name, scope, samples) == [name |-> name, scope |-> scope, samples |-> samples]
ThreeRoots ==
  << {Weight("gpt", "v2", "hx", 10), Weight("gpt", "v2", "hx", 20), Weight("gpt", "v2", "hy", 15)},
     {Weight("sovits", "v2", "hx", 12), Weight("sovits", "v2", "hy", 40)}, {Weight("sovits", "v4", "hx", 30)} >>
Sessions ==
  {Directory("hx", "checkout", << Recording("a", "none", TRUE, 2), Recording("b", "none", TRUE, 4), Recording("c", "text", FALSE, 5) >>),
   Directory("new", "checkout", << Recording("d", "none", FALSE, 4) >>)}
ReferenceFolders ==
  {Directory("hx", "references", << Recording("e", "text", FALSE, 4) >>),
   Directory("hy", "references", << Recording("f", "none", TRUE, 4), Recording("g", "text", FALSE, 6) >>),
   Directory("new", "references", << Recording("h", "text", FALSE, 10) >>),
   Directory("empty", "references", <<>>)}
Tells(service, name, score) ==
  LET w == Weight("gpt", "v2", name, score)
  IN [service |-> service, name |-> name, variant |-> <<>>, weights |-> [k \in Kinds |-> IF k = "gpt" THEN {w} ELSE {}],
      best |-> [k \in Kinds |-> IF k = "gpt" THEN w ELSE NoWeight], groups |-> <<>>]
TwoTell == << Tells("local", "hy", 99), Tells("other", "hx", 1) >>
AsItIs(name) == name

\* What the proofs about projects rest on holds of these calls.
ASSUME Undisturbed

VARIABLE part

storesVars == <<vars, libraryVars, castVars, catalogVars, bundleVars, hostVars, mirrorVars, part>>

StoresInit ==
  /\ part \in {"projects", "library", "casting", "catalog", "bundle", "host", "integration"}
  /\ Init /\ LibraryInit /\ CastInit /\ CatalogInit /\ BundleInit /\ HostInit /\ MirrorInit
  /\ part # "bundle" => source = 1 /\ start = NoFile
  /\ part # "host" => disk.current.pid = n1
  /\ part # "integration" => there[M] = Vacant

StoresNext ==
  /\ UNCHANGED part
  /\ \/ part = "projects" /\ Next /\ UNCHANGED <<libraryVars, castVars, catalogVars, bundleVars, hostVars, mirrorVars>>
     \/ part = "library" /\ LibraryNext /\ UNCHANGED <<vars, castVars, catalogVars, bundleVars, hostVars, mirrorVars>>
     \/ part = "casting" /\ CastNext /\ UNCHANGED <<vars, libraryVars, catalogVars, bundleVars, hostVars, mirrorVars>>
     \/ part = "catalog" /\ CatalogNext /\ UNCHANGED <<vars, libraryVars, castVars, bundleVars, hostVars, mirrorVars>>
     \/ part = "bundle" /\ BundleNext /\ UNCHANGED <<vars, libraryVars, castVars, catalogVars, hostVars, mirrorVars>>
     \/ part = "host" /\ HostNext /\ UNCHANGED <<vars, libraryVars, castVars, catalogVars, bundleVars, mirrorVars>>
     \/ part = "integration" /\ MirrorNext /\ UNCHANGED <<vars, libraryVars, castVars, catalogVars, bundleVars, hostVars>>

StoresSpec == StoresInit /\ [][StoresNext]_storesVars
=============================================================================
