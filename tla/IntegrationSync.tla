-------------------------- MODULE IntegrationSync --------------------------
(***************************************************************************)
(* Publishing the controlled integration into a fork's checkout            *)
(* (scripts/sync_integrations.py).                                         *)
(*                                                                         *)
(* A run puts the staged files in place one by one, takes away those that  *)
(* are not wanted any more, and publishes the manifest last.  It replaces  *)
(* nothing: what was there is renamed to a claim beside it and kept until  *)
(* the manifest is in place; a failure before that renames everything      *)
(* back.  Meanwhile the user works in the checkout, any call may fail, and *)
(* the process may be killed.  A journal that stays behind keeps later     *)
(* runs from starting until a person has looked.                           *)
(***************************************************************************)
EXTENDS Naturals

CONSTANTS Before,      \* the files of the integration that is there
          Wanted,      \* the files of the one to publish
          M,           \* tts_more/integration.manifest.json
          Vacant,      \* what is at a path without a file
          MaxRuns,     \* bounds on the runs, on what the user does,
          MaxTouches,
          MaxFaults,   \* on the calls that fail
          MaxKills     \* and on the times a run is killed

ASSUME ManifestAssumption == M \notin Before \cup Wanted
ASSUME BoundsAssumption == {MaxRuns, MaxTouches, MaxFaults, MaxKills} \subseteq Nat

Paths == Before \cup Wanted \cup {M}

\* A file is where and by whom it was written, and when: its identity, its
\* time and its content.
MirrorFiles == [by : {"old", "new", "user"}, n : Nat, at : Paths]
Written(by, n, p) == [by |-> by, n |-> n, at |-> p]

ASSUME VacantAssumption == Vacant \notin Paths \cup MirrorFiles

VARIABLES
  there,      \* path -> the file at it
  claims,     \* run -> path -> the file the run has renamed away to replace or remove it
  current,    \* run -> path -> the file the run has renamed away to undo it
  journals,   \* the runs whose cleanup journal is on the disk
  run,        \* the run under way, or the last one
  made,       \* history: the files there were
  ended,      \* history: those that somebody was free to end
  touches, faults, kills

mirrorVars == <<there, claims, current, journals, run, made, ended, touches, faults, kills>>

AllEmpty == [p \in Paths |-> Vacant]

\* A run: the number of it; the stage it is in, the paths it has still to visit
\* there, the path it is at and what it does there next; and what it knows: the
\* files the last manifest lists, the backups of them, and its publication
\* journal.
Idle == [no |-> 0, pc |-> "off", left |-> {}, path |-> Vacant, does |-> "none",
         prior |-> {}, backup |-> AllEmpty,
         published |-> {}, pending |-> {}, claimed |-> {}, committed |-> FALSE, error |-> FALSE]

MirrorInit ==
  /\ there \in {[p \in Paths |-> IF p \in Before \cup {M} THEN Written("old", 0, p) ELSE Vacant], AllEmpty}
  /\ claims = [i \in 1..MaxRuns |-> AllEmpty]
  /\ current = [i \in 1..MaxRuns |-> AllEmpty]
  /\ journals = {}
  /\ run = Idle
  /\ made = {there[p] : p \in Paths} \ {Vacant} /\ ended = {}
  /\ touches = 0 /\ faults = 0 /\ kills = 0

Renamed == claims[run.no]
New(p) == Written("new", run.no, p)

\* The files that the manifest lists, and the manifest
Listed == CASE there[M] = Vacant -> {}
            [] there[M] # Vacant /\ there[M].by = "old" -> Before \cup {M}
            [] OTHER -> Wanted \cup {M}

Obsolete == run.prior \ (Wanted \cup {M})

(***************************************************************************)
(* The stages of a run.  A publication puts the wanted files in place,     *)
(* takes the obsolete ones away, lists its claims in a journal, publishes  *)
(* the manifest and lists that claim too; then it discards the claims and  *)
(* the journal.  A rollback takes new files out again, and the journal,    *)
(* then puts each prior path back.  The order of the paths in a stage is   *)
(* left open.                                                              *)
(***************************************************************************)
Publishing == run.pc \in {"files", "obsolete", "list", "manifest", "relist"}
CleaningUp == run.pc \in {"discard", "unlist"}

Stage(pc, left) == [run EXCEPT !.pc = pc, !.left = left, !.path = Vacant, !.does = "none"]

\* A path of the last manifest is claimed first, others are only taken.
FirstHere(p) ==
  CASE run.pc \in {"files", "obsolete", "manifest"} -> "look"
    [] run.pc = "discard" -> "discard"
    [] run.pc = "retract" -> "retract"
    [] run.pc = "restore" /\ p \notin run.claimed -> "compare"
    [] run.pc = "restore" /\ p \in run.claimed /\ p \notin run.published -> "return"
    [] OTHER -> "retract"

NextPath ==
  /\ run.does = "none"
  /\ \E p \in run.left : run' = [run EXCEPT !.left = @ \ {p}, !.path = p, !.does = FirstHere(p)]
  /\ UNCHANGED <<there, claims, current, journals, made, ended>>

NextStage ==
  /\ run.does = "none" /\ run.left = {}
  /\ \/ run.pc = "files" /\ run' = Stage("obsolete", Obsolete)
     \/ run.pc = "obsolete" /\ run' = Stage("list", {})
     \/ run.pc = "manifest" /\ run' = Stage("relist", {})
     \/ run.pc = "discard" /\ run' = Stage("unlist", {})
     \/ run.pc = "retract" /\ run' = Stage("unpublish", {})
     \/ run.pc = "restore" /\ run' = Stage("off", {})
  /\ UNCHANGED <<there, claims, current, journals, made, ended>>

Path == run.path
Then(op) == [run EXCEPT !.does = op]
Visited == [run EXCEPT !.path = Vacant, !.does = "none"]

(***************************************************************************)
(* Runs                                                                    *)
(***************************************************************************)
Collides == \E p \in Wanted \cup {M} : there[p] # Vacant /\ p \notin Listed

\* Without a journal on the disk, and unless a file of the user's is in the
\* way; a run that is refused changes nothing.
BeginMirror ==
  /\ run.pc = "off" /\ run.no < MaxRuns
  /\ journals = {} /\ ~Collides
  /\ run' = [Idle EXCEPT !.no = run.no + 1, !.pc = "backup", !.prior = Listed]
  /\ UNCHANGED <<there, claims, current, journals, made, ended, touches, faults, kills>>

CaptureBackups ==
  /\ run.pc = "backup"
  /\ run' = [Stage("files", Wanted) EXCEPT !.backup = [p \in Paths |-> IF p \in run.prior THEN there[p] ELSE Vacant]]
  /\ UNCHANGED <<there, claims, current, journals, made, ended, touches, faults, kills>>

AtPath(f) == there' = [there EXCEPT ![Path] = f]
Aside(f) == claims' = [claims EXCEPT ![run.no][Path] = f]
Behind(f) == current' = [current EXCEPT ![run.no][Path] = f]

\* Mutant: a file is known to be the run's own only when it has been confirmed.
NothingPending == {}

Pending == IF Path \in run.prior THEN run.pending ELSE run.pending \cup {Path}

\* A file to remove that was not there is let be.
LetBe == Path \in Obsolete /\ run.backup[Path] = Vacant

Look ==
  /\ run.does = "look" /\ there[Path] = run.backup[Path]
  /\ run' = IF LetBe THEN Visited ELSE Then(IF Path \in run.prior THEN "claim" ELSE "link")
  /\ UNCHANGED <<there, claims, current, journals, made, ended>>

\* Whatever is at the path by now is renamed; a path that is empty fails.
Claim ==
  /\ run.does = "claim" /\ there[Path] # Vacant
  /\ Aside(there[Path]) /\ AtPath(Vacant)
  /\ run' = Then("check")
  /\ UNCHANGED <<current, journals, made, ended>>

Check ==
  /\ run.does = "check" /\ Renamed[Path] = run.backup[Path]
  /\ run' = [(IF Path \in Obsolete THEN Visited ELSE Then("link")) EXCEPT !.claimed = @ \cup {Path}]
  /\ UNCHANGED <<there, claims, current, journals, made, ended>>

Link ==
  /\ run.does = "link" /\ there[Path] = Vacant
  /\ AtPath(New(Path)) /\ made' = made \cup {New(Path)}
  /\ run' = [Then("confirm") EXCEPT !.pending = Pending]
  /\ UNCHANGED <<claims, current, journals, ended>>

Confirm ==
  /\ run.does = "confirm" /\ there[Path] = New(Path)
  /\ run' = [Visited EXCEPT !.published = @ \cup {Path}, !.pending = @ \ {Path}, !.committed = (@ \/ Path = M)]
  /\ UNCHANGED <<there, claims, current, journals, made, ended>>

\* The first journal lists the claims of files, the second the manifest's too.
ListClaims ==
  /\ run.pc \in {"list", "relist"}
  /\ journals' = journals \cup (IF run.claimed = {} THEN {} ELSE {run.no})
  /\ run' = IF run.pc = "list" THEN Stage("manifest", {M}) ELSE Stage("discard", run.claimed)
  /\ UNCHANGED <<there, claims, current, made, ended>>

StillBackup == Renamed[Path] = run.backup[Path]

Discard ==
  /\ run.does = "discard" /\ StillBackup
  /\ Aside(Vacant)
  /\ ended' = (IF run.committed THEN ended \cup {run.backup[Path]} ELSE ended)
  /\ run' = Visited
  /\ UNCHANGED <<there, current, journals, made>>

Unlist ==
  /\ run.pc \in {"unlist", "unpublish"}
  /\ journals' = journals \ {run.no}
  /\ run' = IF run.pc = "unlist" THEN Stage("off", {}) ELSE Stage("restore", run.prior)
  /\ UNCHANGED <<there, claims, current, made, ended>>

(***************************************************************************)
(* Undoing                                                                 *)
(***************************************************************************)
Retract ==
  /\ run.does = "retract" /\ there[Path] # Vacant
  /\ Behind(there[Path]) /\ AtPath(Vacant)
  /\ run' = Then("retracted")
  /\ UNCHANGED <<claims, journals, made, ended>>

Retracted ==
  /\ run.does = "retracted" /\ current[run.no][Path] = New(Path)
  /\ Behind(Vacant) /\ ended' = ended \cup {New(Path)}
  /\ run' = IF run.pc = "restore" THEN Then("return") ELSE Visited
  /\ UNCHANGED <<there, claims, journals, made>>

Return ==
  /\ run.does = "return" /\ there[Path] = Vacant /\ Renamed[Path] = run.backup[Path]
  /\ AtPath(Renamed[Path]) /\ Aside(Vacant)
  /\ run' = Visited
  /\ UNCHANGED <<current, journals, made, ended>>

Compare ==
  /\ run.does = "compare" /\ there[Path] = run.backup[Path]
  /\ run' = Visited
  /\ UNCHANGED <<there, claims, current, journals, made, ended>>

(***************************************************************************)
(* What goes wrong                                                         *)
(***************************************************************************)
\* A file that was renamed and is not what was expected goes back, if it can;
\* what returned from a claim although it had changed stays.
GivesBack ==
  CASE run.does \in {"check", "return"} /\ there[Path] = Vacant ->
         AtPath(Renamed[Path]) /\ Aside(Vacant) /\ UNCHANGED current
    [] run.does = "retracted" /\ there[Path] = Vacant ->
         AtPath(current[run.no][Path]) /\ Behind(Vacant) /\ UNCHANGED claims
    [] OTHER -> UNCHANGED <<there, claims, current>>

Broken(r) == [r EXCEPT !.error = TRUE]

\* Before the manifest is in place everything is undone; later, and in the
\* cleanup, the run ends; a rollback notes the error and goes on.
FailsHere ==
  CASE Publishing /\ ~run.committed -> Stage("retract", (run.published \cup run.pending) \ run.prior)
    [] (Publishing /\ run.committed) \/ CleaningUp -> Broken(Stage("off", {}))
    [] run.pc = "unpublish" -> Broken(Stage("restore", run.prior))
    [] OTHER -> Broken(Visited)

\* What a step needs is not so.
Unable ==
  CASE run.does \in {"look", "compare"} -> there[Path] # run.backup[Path]
    [] run.does \in {"claim", "retract"} -> there[Path] = Vacant
    [] run.does \in {"check", "discard"} -> Renamed[Path] # run.backup[Path]
    [] run.does = "link" -> there[Path] # Vacant
    [] run.does = "confirm" -> there[Path] # New(Path)
    [] run.does = "retracted" -> current[run.no][Path] # New(Path)
    [] run.does = "return" -> there[Path] # Vacant \/ Renamed[Path] # run.backup[Path]
    [] OTHER -> FALSE

Fails ==
  /\ Unable
  /\ GivesBack /\ run' = FailsHere
  /\ UNCHANGED <<journals, made, ended, touches, faults, kills>>

\* A call raises although nothing is wrong.
Raises ==
  /\ run.does # "none" \/ run.pc \in {"list", "relist", "unlist", "unpublish"}
  /\ faults < MaxFaults /\ faults' = faults + 1
  /\ run' = FailsHere
  /\ UNCHANGED <<there, claims, current, journals, made, ended, touches, kills>>

Works ==
  /\ NextPath \/ NextStage \/ Look \/ Claim \/ Check \/ Link \/ Confirm \/ ListClaims \/ Discard \/ Unlist
       \/ Retract \/ Retracted \/ Return \/ Compare
  /\ UNCHANGED <<touches, faults, kills>>

Killed ==
  /\ run.pc # "off" /\ kills < MaxKills
  /\ kills' = kills + 1
  /\ run' = Broken(Stage("off", {}))
  /\ UNCHANGED <<there, claims, current, journals, made, ended, touches, faults>>

(***************************************************************************)
(* The user                                                                *)
(***************************************************************************)
Touches(before, after) ==
  /\ touches < MaxTouches /\ touches' = touches + 1
  /\ made' = made \cup ({after} \ {Vacant}) /\ ended' = ended \cup ({before} \ {Vacant})
  /\ UNCHANGED <<current, journals, run, faults, kills>>

\* The user edits, creates, replaces or deletes a file.
Touch(p) ==
  \E f \in {Written("user", touches + 1, p), Vacant} \ {there[p]} :
    /\ Touches(there[p], f)
    /\ there' = [there EXCEPT ![p] = f]
    /\ UNCHANGED claims

\* A program that still has a file open writes into it after it was renamed.
TouchClaim(p) ==
  /\ run.no > 0 /\ Renamed[p] # Vacant
  /\ Touches(Renamed[p], Written("user", touches + 1, p))
  /\ claims' = [claims EXCEPT ![run.no][p] = Written("user", touches + 1, p)]
  /\ UNCHANGED there

MirrorNext ==
  \/ BeginMirror \/ CaptureBackups \/ Works \/ Fails \/ Raises \/ Killed
  \/ \E p \in Paths \ {M} : Touch(p) \/ TouchClaim(p)

MirrorSpec == MirrorInit /\ [][MirrorNext]_mirrorVars

(***************************************************************************)
(* Properties                                                              *)
(***************************************************************************)
OnDisk(f) == \E p \in Paths : there[p] = f \/ \E i \in 1..MaxRuns : f \in {current[i][p], claims[i][p]}

\* Whatever a user has made, before a run or during it, is still there, at its
\* path or beside it; what a run replaces is there until the manifest that
\* replaces it is in place, so that whatever fails and whenever the run is
\* killed a person can put it back (sync_integrations.py:352, 592).
NothingVanishes == \A f \in made \ ended : OnDisk(f)

\* A run that failed, and reports nothing about its rollback, has left the
\* checkout as it was, apart from what the user did (sync_integrations.py:387).
\* One thing may stay aside unnoticed: a file of the user's at a path whose
\* controlled file had been missing, when looking at it raised.
UndoneMeansBefore ==
  run.no > 0 /\ run.pc = "off" /\ ~run.committed /\ ~run.error =>
    /\ run.no \notin journals
    /\ \A p \in Paths : there[p] # New(p)
    /\ \A p \in Paths : run.backup[p] # Vacant =>
         Renamed[p] = Vacant /\ (there[p] = run.backup[p] \/ run.backup[p] \in ended)

\* Once the manifest is in place all its files are, and those that it does
\* not list any more are not, apart from what the user did since; also when
\* the run is killed or fails then (sync_integrations.py:343).
CommittedMeansWhole ==
  run.committed =>
    /\ \A p \in Wanted \cup {M} : there[p] = New(p) \/ New(p) \in ended
    /\ \A p \in Obsolete : there[p] = Vacant \/ there[p].by = "user"

\* A file that a finished or killed run has left beside its path stops the
\* next run, which would otherwise go on as if nothing had happened; only the
\* old manifest may be left without notice (sync_integrations.py:349, 659).
LeftoversAnnounced ==
  run.committed /\ (\E p \in Paths \ {M} : Renamed[p] # Vacant) => run.no \in journals

\* What a publication leaves, however it ended, is what it says it left.
MirrorHonest ==
  /\ NothingVanishes
  /\ UndoneMeansBefore
  /\ CommittedMeansWhole
  /\ LeftoversAnnounced
=============================================================================
