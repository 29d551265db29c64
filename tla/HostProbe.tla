------------------------------ MODULE HostProbe ------------------------------
(***************************************************************************)
(* The ComfyUI a reliability run owns, from restart to restart: the host   *)
(* probe of the validator (WindowsReliabilityHostProbe and                 *)
(* NativeWindowsHostSystem of comfyui/reliability_validation.py) and the   *)
(* cleanup of the launcher, which has only the control state on disk to go *)
(* by once the validator has ended (scripts/run-windows-comfyui-           *)
(* reliability.ps1).                                                       *)
(*                                                                         *)
(* A process is known by its number, which another program may get once it *)
(* has ended, and by its birth.  A program is looked at first and killed   *)
(* by its number after.  What is a child of ComfyUI ends with it (it is in *)
(* a job object of TTS-Audio-Suite) and is left out, as is TTS More, which *)
(* is never restarted.                                                     *)
(***************************************************************************)
EXTENDS Naturals, FiniteSets

CONSTANTS Pids,
          Nobody,
          MaxRestarts,  \* bound on restarts
          MaxStrangers  \* bound on programs that are not of the run

VARIABLES
  live,       \* the processes there are
  births,
  mem,        \* what the validator knows
  disk,       \* its control state
  probe,      \* where the validator is, what it is about to kill, and how many
              \* processes had been born when it looked
  cleaner,   \* the same of the launcher
  child,      \* what a restart has spawned
  restarts,
  slips,      \* strangers that were killed, and what had been born at the look
  misread     \* what a failing probe was taken to have stopped, and had not

hostVars == <<live, births, mem, disk, probe, cleaner, child, restarts, slips, misread>>

Comfy(n, pid, parent, mark) == [born |-> n, pid |-> pid, what |-> "comfy", parent |-> parent, mark |-> mark]
Id(p) == [pid |-> p.pid, born |-> p.born]
NoProcess == [pid |-> Nobody, born |-> 0]
NoMark == 0

Known(current, root, intent, provisional) ==
  [current |-> current, root |-> root, intent |-> intent, provisional |-> provisional]

\* The launcher has started ComfyUI and recorded it.
HostInit ==
  \E pid \in Pids :
    LET first == Comfy(1, pid, "launcher", NoMark)
    IN /\ live = {first} /\ births = 1
       /\ mem = Known(Id(first), Id(first), NoMark, Nobody) /\ disk = mem
       /\ probe = [pc |-> "idle", aim |-> NoProcess, then |-> "none", seen |-> 0]
       /\ cleaner = [pc |-> "waiting", aim |-> NoProcess, seen |-> 0]
       /\ child = NoProcess /\ restarts = 0 /\ slips = {} /\ misread = {}

\* inspect_process finds exactly what was recorded.
Alive(id) == \E p \in live : Id(p) = id

NotThere(pid) == \A p \in live : p.pid # pid

\* A handle that is held keeps the number of a child from being used again.
HasHandle == probe.pc \in {"note", "identify", "promote", "port", "undo", "terminate"}
Usable(pid) == NotThere(pid) /\ ~(HasHandle /\ child.pid = pid)

Enters(pc) == probe' = [probe EXCEPT !.pc = pc]
Aims(id, then) == probe' = [pc |-> "kill", aim |-> id, then |-> then, seen |-> births]

\* _persist_control_state: an error may come before or after the file was
\* replaced.
Save(new, onward, otherwise) ==
  /\ mem' = new
  /\ \/ disk' = new /\ Enters(onward)
     \/ disk' \in {disk, new} /\ Enters(otherwise)

-----------------------------------------------------------------------------
\* terminate_comfyui, and restart_comfyui of one that runs: what is there
\* must be what is recorded, or the run fails.
BeginStop(then) ==
  /\ probe.pc = "idle" /\ mem.current # NoProcess
  /\ then = "spawn" => restarts < MaxRestarts
  /\ IF Alive(mem.current) THEN Aims(mem.current, then) ELSE Enters("gone")
  /\ UNCHANGED <<live, births, mem, disk, cleaner, child, restarts, slips, misread>>

Hits(pid) == {p \in live : p.pid = pid}
Slipped(killer) ==
  slips' = slips \cup {[hit |-> p.born, seen |-> killer.seen] : p \in {q \in Hits(killer.aim.pid) : Id(q) # killer.aim}}

\* _stop_pid: by number; it may take its time to die.
Kill ==
  /\ probe.pc = "kill"
  /\ live' \in {live \ Hits(probe.aim.pid), live}
  /\ Slipped(probe)
  /\ Enters("await")
  /\ UNCHANGED <<births, mem, disk, cleaner, child, restarts, misread>>

Stopped == ~Alive(probe.aim)

\* stop_owned takes any error of inspect_process for the end of the process:
\* that it is not there, and that the probe itself has failed.
AwaitStopped ==
  /\ probe.pc = "await"
  /\ \/ Stopped /\ UNCHANGED misread
     \/ Alive(probe.aim) /\ misread' = misread \cup {probe.aim}
  /\ Enters(IF probe.then = "undo" THEN "proven" ELSE "stopped")
  /\ UNCHANGED <<live, births, mem, disk, cleaner, child, restarts, slips>>

\* It could not be looked at again or killed, or did not stop within 30 seconds.
StopFails ==
  /\ probe.pc \in {"kill", "await"} /\ (probe.pc = "await" => Alive(probe.aim))
  /\ Enters(IF probe.then = "undo" THEN "unproven" ELSE "gone")
  /\ UNCHANGED <<live, births, mem, disk, cleaner, child, restarts, slips, misread>>

SaveStopped ==
  /\ probe.pc = "stopped"
  /\ Save([mem EXCEPT !.current = NoProcess], IF probe.then = "spawn" THEN "intent" ELSE "idle", "gone")
  /\ UNCHANGED <<live, births, cleaner, child, restarts, slips, misread>>

-----------------------------------------------------------------------------
\* restart_comfyui after terminate_comfyui
BeginRestart ==
  /\ probe.pc = "idle" /\ mem.current = NoProcess /\ restarts < MaxRestarts
  /\ Enters("intent")
  /\ UNCHANGED <<live, births, mem, disk, cleaner, child, restarts, slips, misread>>

\* Mutant: the intent is noted in memory only.
NotedInMemory(new) == mem' = new /\ disk' = disk /\ Enters("spawn")

\* An intent that could not be saved starts nothing.
SaveIntent(new) == Save(new, "spawn", "proven")

\* _persist_restart_launch_intent, before the process is started; the mark
\* is in its command line.
Intend ==
  /\ probe.pc = "intent"
  /\ mem.intent = NoMark /\ mem.provisional = Nobody
  /\ restarts' = restarts + 1
  /\ SaveIntent([mem EXCEPT !.intent = restarts + 1])
  /\ child' = NoProcess
  /\ UNCHANGED <<live, births, cleaner, slips, misread>>

\* Popen
Spawn ==
  /\ probe.pc = "spawn"
  /\ \/ \E pid \in Pids :
          /\ Usable(pid)
          /\ live' = live \cup {Comfy(births + 1, pid, "validator", mem.intent)}
          /\ child' = [pid |-> pid, born |-> births + 1]
          /\ births' = births + 1
          /\ Enters("note")
     \/ Enters("unproven") /\ UNCHANGED <<live, births, child>>
  /\ UNCHANGED <<mem, disk, cleaner, restarts, slips, misread>>

\* _persist_restart_provisional
Note ==
  /\ probe.pc = "note"
  /\ Save([mem EXCEPT !.provisional = child.pid], "identify", "terminate")
  /\ UNCHANGED <<live, births, cleaner, child, restarts, slips, misread>>

\* _restart_identity_promotes_pending, within ten seconds
Identify ==
  /\ probe.pc = "identify"
  /\ \/ Alive(child) /\ Enters("promote")
     \/ Enters("terminate")
  /\ UNCHANGED <<live, births, mem, disk, cleaner, child, restarts, slips, misread>>

\* _promote_restart_identity: one write replaces the intent by the identity.
Promote ==
  /\ probe.pc = "promote"
  /\ Save(Known(child, child, NoMark, Nobody), "port", "undo")
  /\ UNCHANGED <<live, births, cleaner, child, restarts, slips, misread>>

\* It owns its port, and is still what it was; or not within 180 seconds.
AwaitPort ==
  /\ probe.pc = "port"
  /\ \/ Alive(child) /\ Enters("idle")
     \/ Enters("undo")
  /\ UNCHANGED <<live, births, mem, disk, cleaner, child, restarts, slips, misread>>

\* stop_owned of a replacement; one that is gone, or cannot be looked at,
\* cannot be proven stopped.
Undo ==
  /\ probe.pc = "undo"
  /\ \/ Alive(child) /\ Aims(child, "undo")
     \/ Enters("unproven")
  /\ UNCHANGED <<live, births, mem, disk, cleaner, child, restarts, slips, misread>>

\* terminate and wait on the handle
TerminateChild ==
  /\ probe.pc = "terminate"
  /\ \/ live' = {p \in live : Id(p) # child} /\ Enters("proven")
     \/ Enters("unproven") /\ UNCHANGED live
  /\ UNCHANGED <<births, mem, disk, cleaner, child, restarts, slips, misread>>

Clears(pc) == pc = "proven"

\* restart_comfyui fails, and with it the run: the state is cleared only of
\* what was proven to be stopped.
RestartFails ==
  /\ probe.pc \in {"proven", "unproven"}
  /\ Save(IF Clears(probe.pc)
          THEN [mem EXCEPT !.current = NoProcess, !.intent = NoMark, !.provisional = Nobody]
          ELSE mem,
          "gone", "gone")
  /\ UNCHANGED <<live, births, cleaner, child, restarts, slips, misread>>

\* The validator ends, or is killed, at any point.
ValidatorEnds ==
  /\ probe.pc # "gone"
  /\ Enters("gone")
  /\ UNCHANGED <<live, births, mem, disk, cleaner, child, restarts, slips, misread>>

-----------------------------------------------------------------------------
Turns(pc, aim) == cleaner' = [pc |-> pc, aim |-> aim, seen |-> births]

\* Stop-RecordedTree: the identity and its parent must be there, and the
\* validator is not any more.
Provable(id) == \E p \in live : Id(p) = id /\ p.parent = "launcher"

\* Resolve-LaunchIntentProcess finds the child by its mark.
Marked(mark) == \E p \in live : p.what = "comfy" /\ p.mark = mark

\* What was spawned by the validator and not promoted: its parent is gone,
\* so it is never stopped.
Unpromoted ==
  IF disk.provisional # Nobody THEN ~NotThere(disk.provisional)
  ELSE disk.intent # NoMark /\ Marked(disk.intent)

\* The identity to be stopped, or the root if there is none; and then what was
\* not promoted.
Recorded == IF disk.current # NoProcess THEN disk.current ELSE disk.root
NothingElse == disk.current # NoProcess \/ ~Unpromoted

\* The cleanup of the launcher, with the control state as it was left
\* (Stop-RecordedProcessPair)
Cleanup ==
  /\ cleaner.pc = "waiting" /\ probe.pc = "gone"
  /\ IF Provable(Recorded) THEN Turns("kill", Recorded)
     ELSE Turns(IF NotThere(Recorded.pid) /\ NothingElse THEN "proven" ELSE "unproven", NoProcess)
  /\ UNCHANGED <<live, births, mem, disk, probe, child, restarts, slips, misread>>

KillRecorded ==
  /\ cleaner.pc = "kill"
  /\ live' \in {live \ Hits(cleaner.aim.pid), live}
  /\ Slipped(cleaner)
  /\ cleaner' = [cleaner EXCEPT !.pc = "await"]
  /\ UNCHANGED <<births, mem, disk, probe, child, restarts, misread>>

AwaitRecorded ==
  /\ cleaner.pc = "await"
  /\ Turns(IF Alive(cleaner.aim) \/ ~NothingElse THEN "unproven" ELSE "proven", NoProcess)
  /\ UNCHANGED <<live, births, mem, disk, probe, child, restarts, slips, misread>>

-----------------------------------------------------------------------------
\* ComfyUI, or a stranger, ends by itself.
Ends(p) ==
  /\ live' = live \ {p}
  /\ UNCHANGED <<births, mem, disk, probe, cleaner, child, restarts, slips, misread>>

StrangerStarts(pid) ==
  /\ Usable(pid) /\ births < 1 + MaxRestarts + MaxStrangers
  /\ live' = live \cup {[born |-> births + 1, pid |-> pid, what |-> "stranger", parent |-> "system", mark |-> NoMark]}
  /\ births' = births + 1
  /\ UNCHANGED <<mem, disk, probe, cleaner, child, restarts, slips, misread>>

ProbeStep ==
  \/ \E then \in {"rest", "spawn"} : BeginStop(then)
  \/ Kill \/ AwaitStopped \/ StopFails \/ SaveStopped \/ BeginRestart \/ Intend \/ Spawn \/ Note \/ Identify \/ Promote
  \/ AwaitPort \/ Undo \/ TerminateChild \/ RestartFails \/ ValidatorEnds

HostNext ==
  \/ ProbeStep
  \/ Cleanup \/ KillRecorded \/ AwaitRecorded
  \/ \E p \in live : Ends(p)
  \/ \E pid \in Pids : StrangerStarts(pid)

HostSpec == HostInit /\ [][HostNext]_hostVars

-----------------------------------------------------------------------------
\* The ComfyUIs of the run that are taken for running.  One that a failing
\* probe took for stopped is not, and the properties promise nothing of it: it
\* may be forgotten, outlive a proven cleanup, and run beside its replacement.
OfRun == {p \in live : p.what = "comfy" /\ Id(p) \notin misread}

\* Whatever fails or is killed, and when: a ComfyUI of the run that lives is
\* named by the control state on disk, by its identity or by an intent whose
\* mark it carries, so that a recovery can find it; but for one a failing
\* probe took for stopped.
NeverForgotten ==
  \A p \in OfRun : Id(p) \in {disk.current, disk.root} \/ (p.mark # NoMark /\ disk.intent = p.mark)

\* A cleanup that counts as proven has left no ComfyUI of the run, but for one
\* a failing probe took for stopped.
ProvenMeansStopped == cleaner.pc = "proven" => OfRun = {}

\* A restart never runs beside the ComfyUI it replaces, but for one a failing
\* probe took for stopped.
OneComfy == Cardinality(OfRun) <= 1

\* Neither the validator nor the launcher kills another program, but for the
\* one that got the number of a process of the run between the last look at
\* it and the kill.
KillsOnlyItsOwn == \A s \in slips : s.hit > s.seen

\* The ComfyUI of a run is known to somebody who can stop it, there is one of
\* it, unless a probe failed while it was being stopped, and nothing else is
\* stopped.
ComfyAccounted == NeverForgotten /\ ProvenMeansStopped /\ OneComfy /\ KillsOnlyItsOwn
=============================================================================
