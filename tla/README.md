# TTS More: formal models, checks and proofs

TTS More turns scripts into speech. A FastAPI backend (`src/backend/app`) keeps
projects on disk, plans the lines of a script over several speech services,
runs them as jobs, and shares one Windows GPU between ComfyUI (with the
TTS-Audio-Suite) and native TTS processes. Supervised *reliability runs* prove
on a live machine that it works and leave evidence behind.

This directory holds TLA+ modules of the parts whose correctness depends on
order: of threads, of processes, of messages, of files, of crashes. TLC checks
them on small instances; TLAPS proves the most important results for every
value of the constants. `PROJECT.json` maps each definition to the source lines
it stands for, each run to its properties, each property to a mutation of the
code that breaks it, and lists the hazards the properties are aimed at.

To check: `tlc -config <Config>.cfg <Module>.tla` for the runs of section 4, and
`tlapm <Module>.tla` for the modules of section 6 whose names end in `Proofs`.

## 1. Inventory

| Component | State | Operations | Talks to |
|---|---|---|---|
| GPU coordinator and journal (`native_gpu/coordinator.py`, `journal.py`, `protocol.py`) | last report of each native, native tokens, waiters, one Comfy lease per group, offloads, dirty groups in memory and on disk | report, acquire/release native, acquire/check/release Comfy, snapshot, offload callback, expiry, start, close, maintenance | natives and Comfy holders over HTTP, its journal file |
| Native GPU guard (`native_gpu/guard.py`) | revision, residency, counters, an operation lock and a state lock, in every native process | startup, `operation()`, heartbeat, offload order | coordinator, model adapters |
| Native model adapters (`native_gpu/adapters.py`) | where each tensor, alias, device map and cache of an engine is | inventory, move to the CPU, restore, verify | guard, PyTorch |
| Control transport (`native_gpu/transport.py`, `launcher.py`, `bootstrap.py`) | 16 request slots, one thread per connection | one HTTP call each way | both sides |
| Generation queue and jobs (`queue.py`, versions of `models.py`) | jobs, items, threads per resource group, semaphores, a working copy of the manifest | submit, evict, cancel, run a cluster, retry a preempted line, merge into the manifest | project store, services, user |
| Service residency (`queue.py`, adapters) | the service loaded per group, load signatures, semaphores | evict, load, replace the registry | jobs, services |
| ComfyUI call (`services.py`, `comfyui/client.py`, `gpu_coordination.py`, `output.py`) | prompt id, uploaded asset, what is known of both | upload, submit, poll, cancel, fetch, clean up, release, delete | ComfyUI, Suite runtime, coordinator |
| Project store (`storage.py`) | one directory per project, named for its title; marker, project file, manifest; a lock per manifest | load, save, retitle, update manifest, delete | routes, jobs |
| Character library (`storage.py`, `main.py`) | one file with a revision, uploaded references | compare-and-swap save, and endpoints that save without; uploads | routes |
| Roles (`role_library.py`, `models.py`, `main.py`) | which library character each role of a project has, by reference or frozen, for every parse of its script | match, rematch, freeze, unfreeze, activate, import, presets, delete | library, project store |
| Voice catalogue (`role_library.py`) | what a scan of GPT-SoVITS directories has found, by experiment | walk, merge with what services tell, offer, import | directories, services |
| Service store (`services.py`, `service_store_io.py`, `portable_services.py`) | `services.json`, a file lock, the baseline each process loaded | three-way merge, publish | several processes |
| Portable packages (`portable_*.py`, `windows_job.py`) | reservations, job objects, locators | launch, stop, import, change a locator | service store, Windows |
| Supervisor (`supervisor.py`) | pid records | start, stop | service processes |
| Workers (`workers/*.py`) | loaded model, artifacts with a time to live | load, synthesize, unload, serve, sweep | backend |
| Reliability evidence (`comfyui/reliability_evidence.py`) | artifacts and terminal of each run, the pointer to the current run | first write, freeze, compare-and-swap, verify | supervisor, recovery, operator |
| Reliability supervision (`reliability_supervision.py`, two PowerShell scripts, `reliability_validation.py`) | what the supervisor, its launcher and its validator have reached; a private directory per run | prepare, launch, validate, clean up, record, finalize | evidence store, services |
| Reliability recovery (`reliability_recovery.py`, `reliability_private_recovery.py`) | one-time capabilities, an open delete transaction | plan, execute, delete role by role | evidence store, private directory |
| Validation cases (`reliability_validation.py`) | windows of time, what was read of jobs and prompts, the recorded ComfyUI process | start, watch, cancel or terminate, judge; stop and restart ComfyUI | TTS More and ComfyUI over HTTP, Windows processes, the launcher |
| Deployment (`scripts/tts_more_deploy.py`) | bundle manifests and anchors, checkouts, `repo.lock.json` | install, adopt, resume; clone, reset, pin | git, the user's files |
| Integration publication (`scripts/sync_integrations.py`) | claims, a publication journal, cleanup journals | publish, roll back, clean up | a fork's checkout |
| Routes, authentication, parsing, frontend | caches, text | | see `PROJECT.json` |

What makes them hard, and what has to hold:

- **GPU coordination** is concurrent, distributed and durable at once: the
  coordinator may die between the journal's commit and its reply; a native's
  report may be old when it arrives; offload callbacks run for seconds without
  the lock. It must never let a native and a Comfy holder load together, and
  natives must still get their turn.
- **Generation jobs** count versions from a copy of the manifest and merge
  later, next to other jobs and a user who cancels and deletes. Every task must
  leave one outcome, shown honestly, and every job must end.
- **A ComfyUI call** controls a server it only sees through requests that may
  fail before or after they took effect. What it reports of its prompt, its
  audio and the GPU must be true when it says so.
- **The project store** finds directories by title, id and marker anew in every
  call, and only manifest transactions take a lock. Nothing written may be lost
  or end up with another project.
- **Reliability runs** consist of three processes that die separately, services
  that outlive them and keep writing, an operator and a recovery command that
  deletes. Published evidence must agree with itself, a compare-and-swap must
  not lose a publication, and only what was committed may be deleted. The
  ComfyUI of a run is restarted in its middle: whoever dies, somebody must still
  be able to tell the run's processes from others and stop them. A case may be
  accepted only for what really happened.
- **Services** have a file that two processes save and a registry the queue
  answers from; a worker keeps one voice and speaks with the one it holds, and
  the queue only remembers which that should be. No edit may be lost, no line
  spoken with another voice.
- **Portable packages** run launchers that spawn trees of processes; their files
  change and the application may die at any moment. Nothing may run unwatched,
  and nothing reported as over may live.
- **Roles** are matched to characters of a library that others edit, between two
  files that no lock ties together. A role that was frozen must keep its voice;
  a deletion must not take one away unheard; what is offered for import must be
  the recordings and checkpoints of one training.
- **Files of users** lie beside those the application installs, publishes and
  synchronises. Whatever is cut, resumed or rolled back, theirs must stay.

## 2. Plan

Order, most important first; all families are written.

| # | Modules | Composes | Abstract specification |
|---|---|---|---|
| 1 | `GpuFence`, `GpuCoordinator`, `GpuCoordinatorProofs` | journal + coordinator | `GpuFence` |
| 2 | `NativeGuard`, `NativeGuardProofs`, `NativeAdapter` | `GpuCoordinator` + natives + calls between them; the engines of one native | |
| 3 | `GenerationJobs`, `GenerationJobsProofs` | jobs, threads, manifest | |
| 4 | `ComfyPrompt`, `ComfyPromptProofs`, `ProjectStore` | call + server; calls + crash | |
| 5 | `EvidenceStore`, `RunSupervision`, `RunRecovery`, `RunRecoveryProofs` | each extends the one before | |
| 6 | `ServiceStore`, `ServiceResidency`, `ArtifactStore`, `ServicesProofs` | two processes and a file; queues and workers; calls and a worker's files | |
| 7 | `PortableControl`, `SafeRead`, `OperationLog`, `PackagesProofs` | requests, launchers, packages; reader and writer; client and launcher | |
| 8 | `CaseProbe`, `HostProbe` | probe + the system it judges; validator + launcher + Windows | |
| 9 | `CharacterLibrary`, `RoleCasting`, `VoiceCatalog`, `ControlServer` | windows, routes, uploads; library + project; a scan; connections | |
| 10 | `BundleInstall`, `RepoSync`, `IntegrationSync`, `StoresProofs` | a script, its interruptions, the user | |

Runs stay few: modules whose components share no state are checked by one run,
as *parts* of one module (section 4). An invariant or property of a module is a
conjunction of named parts, each with a comment of its own.

Theorems to come after the ones of section 6: `CastKept` of `RoleCasting`. No module that is proved about, or is meant to be, uses a
recursive operator.

## 3. Modules, state and actions

**GpuCoordinator** models the coordinator process with its journal. Every
handler of the code runs under one condition variable, so an iteration between
two waits is one action: `UpdateNative`, `AcquireNative` / `RetryNative` /
`ReleaseNative`, `PollComfy` (one turn of the loop of `acquire_comfy`, which may
begin an offload), `OffloadReturns`, `AcquireComfy`, `CheckComfy`,
`ReleaseClean` / `ReleaseUnclean` / `ReleaseUnknown`, `Snapshot`, `LeaseExpires`.
A commit to the journal succeeds, fails before or after the file is replaced
(`...Fails`), or is the last thing the process does (`...Crashes`). `Crash`,
`Start`, `Close`, `DamageJournal` and the external `MaintenanceReset` complete its
life. Time is kept as what the code compares: `fresh`, `expired`, `mature`.
Clients are arbitrary: any report of `Reports` may come at any time. Two
variables are ghosts: `claims`, the Comfy tokens whose holders have not declared
the GPU clean, and `issued`, the tokens ever handed out (the code draws them
from `token_urlsafe`, so none comes twice).

**GpuFence** is what a group of the coordinator promises: a Comfy holder is
admitted to an empty GPU and keeps it until it declares it clean; a lost
coordinator forgets natives, never Comfy holders.

**NativeGuard** puts the real natives beside that coordinator: process start
(`Boot`) and death, `operation()` in its steps (announce, publish, ask, wait,
enter, finish, leave), the heartbeat thread, offload orders, and every call
between the processes cut off before or after it took effect, whether or not the
coordinator stays up: `PublishUnreachable` / `PublishUnanswered`, `AskDenied` /
`CallBroken`, `ReleaseLost`, `BeatLost`. A publish reads
its snapshot in one step and arrives in another. What is left in the coordinator of
a call whose caller gave up is an acquire it may still grant to nobody
(`ServesForsaken`), an offload order, or, with `LateSnapshots`, a snapshot. The wrappers for Gradio, plain
callbacks and ASGI are one `operation()`. Restoring or moving models succeeds or
fails; how an adapter walks over PyTorch objects is not modelled.

**GenerationJobs** has a manager, and for each job one thread per resource
group. A thread takes a step between two lock acquisitions or service calls:
`Gate` and `Enter` (semaphore of the group), `Open`, `Line`, `Load`, `Attempt`,
`Start`, `Synthesized` / `LineFails` / `SynthesisCancelled` / `Preempted`,
`Made`, `Commit`, `Settle`. A job is submitted, begun (`Begin`), reads its manifest
(`LoadManifest`, which may fail), records what could not be routed and starts its
threads (`StartJob`; a cancellation fits between any two of these), is joined and
persisted (`Persist` is the merge of the job's versions into a manifest that
others have changed; `Renumber` then tells the items one new number after the
other, each under the manager's lock). A terminal job that has shown no event for
an hour may be evicted (`Evict`), also while its threads wait where hours may pass
(`Slow`): their next event raises (`Disowned`), and nothing is told of the job's
end (`Vanish`). The user deletes versions.
Histories are sequences of versions; progress figures and texts are left out.
What `Plans` contains is what routing may decide. The code's loops over
histories are closed forms, so that they can be proved about: `AppendedAll` is
`append_version` for one version after the other, `Kept` is a list comprehension.
`MCGenerationEnds` compares them with the loops (`LoopsAgree`) for all histories
of up to three versions.

**ComfyPrompt** is one `_synthesize_impl` with `poll_until_done`, `cancel_prompt`
and the coordinated cleanup, beside a server that starts, ends, interrupts and
forgets the prompt when it likes (external actions). Each HTTP request is a step
that may fail before or after the server acted. Polling clocks are rounds.

**ProjectStore** has a name -> directory map with a marker, a project file and a
manifest. A call first looks the directory up, then opens what it found: two
steps. The test whether the target of a retitle exists and the `rename` are one
step (`Rename`). `Crash` kills every call between two files. `Apart` names the
calls whose callers do not let them overlap: a premise, not something the code
does (section 5). `Undisturbed` says what is needed of calls, and TLC evaluates it
for those of the run: the store begins empty; calls that may overlap neither create
nor delete nor retitle a project, at most one of two calls of a project is not a
transaction, and no candidate of one project's id is a candidate of the other's; no
title is the project's own id, and `Numbered` tries more names than the other
projects can occupy (the code tries 1000, enough for 500 projects, and then refuses,
which is left out). One root, no legacy manifest, no character library; the
content of a file is the set of calls whose change it holds.

**EvidenceStore** keeps the files of each run, its terminal and the pointer.
A pointer commits to the pointer before it, so its token is represented by the
sequence of published runs; a digest is the content it is the digest of.
**RunSupervision** adds the supervisor script, the launcher and the validator.
They wait for one another, so a run has one program counter `pc`; any of the
three may die between two steps, the launcher survives its supervisor, and the
services may survive both and write in the private directory (`Scribble`).
`Cleanup` is the launcher's cleanup transaction: it removes nothing before every
recorded process is proven stopped, and may stop half way. `Finalize`, `Freeze`,
`Publish` and `Confirm` are the pieces of `finalize_supervision` between which a
crash is told apart. **RunRecovery** adds the recovery command (`Plan`,
`Execute`, `DeleteRole`, `DeleteLeaf`, `Quit`) and the operator's `commit-run`.
One case stands for the matrix. The failure marker and `supervisor.json` are one
step, and so is the loop of `commit-log`. A launcher that is killed takes its
validator with it (there is no result then, and the run is never published) and
is not killed in mid-removal. A refusal, an error and a kill of the supervisor
are one action, `Abandon`; of a recovery, `Quit`. Torn files (every reader
refuses them), the cryptography of capability tokens, a launcher that could not
be started at all, and an operator who publishes a terminal of his own making
are left out. A supervisor's lease blocks the recovery of its own run only: the
delete transaction opens that run's directory without sharing deletion.
Whether the launcher proves its processes stopped is one outcome here;
`HostProbe` has the processes.

**NativeAdapter** has the engines of one process: the models, tensors, aliases of
weights, declared device, device map and caches each has (one field stands for
all of all of its kind), where each is, and a transition under way, with whose turn it is
and at which of its `Visits` (`turn`). `OffloadIdle` and
`Restore` begin one, `Visit` takes the next step of an engine, `Breaks` is a PyTorch call that
raises or stops half way, `SkipsSilently` one that does nothing, `Refuse` a
layout the adapter does not support, `Mistrust` a verification that fails,
`AllMoved` the guard's last look at the memory of the whole process.

**ServiceStore** has the file, its lock, the guards, the registry in use, threads
that save a list, configure one service or reload, and the registrar's process.
A record is a stamp, new at every edit, and a locator. A wait for the lock may
time out, both processes may die, the application may be restarted. The file may
be missing at first, with or without another one to read instead (`OtherFile`).

**ServiceResidency** routes the lines of a job before any is spoken, by what each
names and which services are ready. It has queues (an applied registry makes another), which
remember what is active in a group and which signature each service has loaded,
and workers, which hold a voice. Evicting, loading and speaking may fail before,
in the middle of or after they took effect; a worker may die and start again.
Services the GPU coordinator shares out are not among them (section 7).

**ArtifactStore** has the files of one remote worker with their ages, the
client's cache of uploaded references, and calls that upload, synthesize,
download and delete; `OtherRequest` is any request that sweeps. Time is a
counter; `Tick` waits for an answer no longer than its timeout.

**PortableControl** has requests (act, start, status, all), the guards of the
components and the lock of all actions, reservations, tracked actions, and
`runs`, the launchers with their jobs and trees. A package has a look, which may
change outside a launch; `Die` ends the application, and every job handle with
it. **SafeRead** is `safe_read_bytes` beside scripts that replace, rewrite, unlink or
swap what its path names. **OperationLog** is a launcher (the functions of
`Invoke-PortableStart.ps1`) that appends events and completes the operation, what
it does when something throws, also after it has written that the operation is ready
(`GoesWrong`), its death in the middle of a line, the launcher that closes what is
open, and a client that pages through.

**ControlServer** has slots, connections with their handlers and clients that may
fall silent at any point; a handler thread may fail to start.

**CharacterLibrary** represents the library by the set of changes in it. A route is
a thread; an upload is a coroutine of one event loop, which runs on until it
waits for a chunk. **RoleCasting** has the library again, as its characters in
their order with the version of each voice (the *shelf*), and a project as the
mapping of its roles beside the one of every parse. A request loads what it
needs (`LoadProject`, `LoadLibrary`) and saves it later (`SaveProject`,
`SaveShelf`); a window puts a mapping it has read long before. `promised` is
history: the voice a freeze has answered with, until a request that is meant to
undo it, or had read the project before. An `edit` stands for the requests that
write the library as a window has it, or with an uploaded recording: they may drop a
character a role refers to and nobody is asked, so `DeletesHeard` speaks of requests
to delete a character only. **VoiceCatalog** is one scan: it meets
weights root by root (`MeetWeight`, `NextRoot`), then trainings and folders of
references, in any order the file system lists them; merges what the services
told of with what it found (`MergeNext`, which knows groups by the name and kind of
their directory); and one entry is imported (`Take`).

**BundleInstall** has the files of a target, its manifest, the anchor and the pending
marker, the steps of an installation in their order, `Cut` between any two, and
a user. **RepoSync** has checkouts, remotes and pins; a commit is a place on the
remote branch and whether the user's own commit is on top. `latest` stands for
`--latest --write-lock`. **IntegrationSync** has the files at the controlled paths and
those a run has renamed beside them. A run goes through stages (`NextStage`) and
in each visits some paths (`NextPath`), in any order, since the code's sorted order
makes nothing safe; at a path it does what `FirstHere` says and what follows from
it. Each step can fail, because what it needs is not so (`Unable`) or because a call
raises (`Raises`), and `FailsHere` says where the run goes on then. A file is known by
its writer and its time, as `FileState` knows it. The user edits, creates and
deletes files, or writes into one that was renamed (`TouchClaim`).

**CaseProbe** has the probe in steps of one HTTP call each, the windows of time, and a
TTS More that is what is judged: it may end a job with any outcome, show any change
at any time (`Emits`), go on with what it was asked to cancel. It only keeps
that each change of a job moves `updated_at`, that a submitted prompt is named before
its worker ends, and that a job is not changed after that. Whether its worker
looks for a cancellation before it submits, as that of queue.py does, is a choice
(`heeds`), since the verdict on a queued job depends on it (section 5).
**HostProbe** has processes with a number, which Windows gives again, and a birth;
the validator's restart of ComfyUI with the control state it writes before and
after each step; and the launcher's cleanup, which has only that state. A look at a
process may fail, and what a failure was taken for is `misread` (section 5). It is
assumed that a child of ComfyUI ends with it (a job object), that a handle keeps
a number from being given again, and that a failed restart ends the run.

## 4. Runs

Every run finishes within five minutes with two workers.

| Run | Module, config | Asks | Shows |
|---|---|---|---|
| `gpu_coordinator` | `MCGpuCoordinator` | `TypeOK ExclusiveUse DurableFence LiveLeaseBesideIdleNatives RevocationIsFinal ImplementsFence` | two natives with arbitrary reports, crashes, failed commits, a damaged journal: the GPU is exclusive, the fence is on disk, a lease nobody revoked agrees with the last reports, revocation is final, and the coordinator implements `GpuFence` |
| `native_guard` | `MCNativeGuard` | `GuardKept NeverBothLoaded` | models are never on the GPU beside a Comfy holder, whatever fails, is lost or late short of section 5's case; GPU work of a native is serialized |
| `native_priority` | `MCNativeGuard`, `MCNativePriority` | `NativeGetsIn` | a native that found the GPU taken is let in |
| `native_late` | `MCNativeGuard`, `MCNativeLate` | `NeverBothLoaded`, **violated** | a snapshot older than a restart is believed |
| `generation_jobs` | `MCGenerationJobs` | `VersionsKept OneOutcome HonestItems CancelledStaysSilent` | two jobs with a shared line, a shared group and a gap in the history |
| `generation_ends` | `MCGenerationEnds` | `JobsEnd` | two jobs that compete for one group end |
| `project_store` | `MCStores` | see below | what is kept on the disk |
| `project_retitle` | `MCProjectStore`, `MCProjectRetitle` | `HistoryKept`, **violated** | a retitle during a manifest transaction loses the history |
| `comfy_prompt` | `MCComfyPrompt` | see below | what must end in time |
| `run_recovery` | `MCRunRecovery` | `NoLostPublication PublishedIsTrue DeletesOnlyCommitted PrivateKept` | two runs from one publication, killed anywhere, an operator and a recovery |
| `services` | `MCServices` | see below | services, voices, files, engines |
| `packages` | `MCPackages` | see below | launchers, files, logs, checkouts |

Four runs hold several *parts*. Their modules extend the parts' modules, whose
variables are disjoint; the variable `part` is chosen at the start, and the steps
are those of that part, while the others stay as they began. So a run explores
the disjoint union of its parts, and a property that speaks of another part's
variables holds there as it does in that part's initial states.

| Run | Part | Property | Parts of the property |
|---|---|---|---|
| `project_store` | projects | `HistoryKept`, `ProjectsApart` | `EditsKept NoAliases OneHome` |
| | library | `LibraryKept` | `EditingKept`: `UploadsKept WindowsLoseNothing` |
| | casting | `LibraryKept` | `CastKept`: `FrozenKept MatchingSettles SpokenAsFrozen DeletesHeard` |
| | catalogue | `LibraryKept` | `CatalogKept`: `ModelsWhole RecordingsFit ConfirmedSpeaks` |
| | bundle | `InstallSound` | `UserFilesKept InstalledIsWhole CutMeansResumable` |
| | host | `ComfyAccounted` | `NeverForgotten ProvenMeansStopped OneComfy KillsOnlyItsOwn` |
| | integration | `MirrorHonest` | `NothingVanishes UndoneMeansBefore CommittedMeansWhole LeftoversAnnounced` |
| `comfy_prompt` | prompt | `CleanMeansQuiet`, `PromptToldTruly` | `CancelledMeansStopped AssetOutlivesPrompt ResultIsWhole` |
| | case | `JudgedTruly` | `OutcomeIsTrue QueuedMeansNever WindowsHeld NoJobLeft` |
| | server | `SlotsAccounted` | |
| | all three | `AllEnd` | `CallEnds CaseEnds EachConnectionEnds` |
| `services` | store | `StoreKept`, `RegistryKept`, `ServiceRequestsMove` | `ServiceEditsKept`; `LocatorsGuarded RegistryNeverOlder` |
| | residency | `VoicesKnown` | `RightVoiceUnlessSpoilt OneResident` |
| | artifacts | `ArtifactsKept` | `KeptWhileNeeded OutputWhole` |
| | engines | `EnginesWhole` | `ServesWhole CpuMeansAway RefusedUntouched` |
| `packages` | control | `LaunchesAccounted`, `ControlRequestsMove` | `ActionsBounded NothingRunsUnwatched OverMeansDead KilledForCause` |
| | reading | `ReadIsCurrent` | |
| | logging | `LogComplete` | `EventsInOrder OverMeansAll` |
| | checkouts | `CheckoutsKept` | `UncommittedKept SyncedMeansPinned` |

A module's type invariant is a part of its first conjunction. Likewise
`VersionsKept` is `BaselineKept` and `IdsIncrease`, `GuardKept` is
`WorkIsSerialized`, `PublishedIsTrue` is `PassedIsClean` and `EvidenceAgrees`.

### Bounds, and why they are enough

- `MCReports` (four reports of two incarnations) has one report for each
  distinction the coordinator makes: ready and idle on the CPU, on the GPU, busy
  at a later revision, another instance. `Tokens` has three: a holder, its
  successor and a native. `MaxWaiters` = 1 there; 2 with real workers.
- `MCNativeGuard` looks from two initial states: from the start of everything
  with one thread at work at a time and two generations of the process, and from
  a finished startup (`WarmInit`) with two threads that compete. No process begins
  work after five changes of its activity (`MaxRev`), and none is followed beyond
  six, of which a startup takes three. It follows
  two grants; `gpu_coordinator` has three. With one thread at work, a token or one place in
  the queue may be left behind; with two, nothing is (`NothingForsaken`).
  `PlainLeases` leaves out why a lease was revoked: natives cannot see it, and
  `gpu_coordinator` explores it. `LateSnapshots` = FALSE leaves out the case
  that `native_late` shows.
- `MCGenerationJobs`: three routable tasks on one line and one that no service
  takes; plans with both jobs in one group, or one job over two groups. One
  job is cancelled, a line loses at most one version; the second job is not
  submitted beside two threads of the first (`Bounded`). The history begins at 2: version 1 was deleted.
- `MaxRounds` = 2 gives every polling loop a first turn, a second turn and a
  deadline. Nothing in the code counts further.
- `MCProjectStore`, in `MCStores` too: the names are two ids and three titles, one of them an id;
  `Numbered` gives each name two successors. Each call is made once, in any
  order.
- `MCStores`: two clients and four requests for the library, so that an upload
  meets an upload and a window a route; two versions of a bundle of three files,
  of which one changes, one goes, one comes, and a launcher that changes; three
  turns of the user, two cuts (a cut, a resumption that is cut, one that ends);
  two numbers of processes, so that one is soon used again, two restarts, one
  stranger; an old and a new integration that share a file, two runs, one touch,
  one failing call and one kill. For the roles: two characters, of which one has
  three names and one of them is a role of the script; both are presets; two
  windows' edits, three requests (two that meet, one after), two parses. For the
  catalogue: two experiments, one in two versions; recordings of one and of a
  third without checkpoints; folders of all three; an entry two services tell of
  under names the scan finds too.
- `MCServices`: one package beside one default service, three requests (two that
  meet, one after), one restart; two services on one GPU and two jobs of which
  one needs both; two queues; two calls with one reference, in six units of time
  with a time to live of three, a cache of two and a timeout of one, which keeps
  the order of the code's 24 and 23 hours and the hour between; three uses of
  an engine: on the GPU, away and back.
- `MCPackages`: a limit of one action with two ids, one mishap; two retries of
  a read and three writes, one more than the retries; pages of two and five
  events, so that a page is full, short and empty; two checkouts, three
  synchronisations.
- `MCComfyPrompt`: windows of 1 and 2 units for a case; three connections on two
  slots.
- `MCRunRecovery`: two runs, one matrix and one preflight, two publications
  (`MaxChain` bounds the operator), one recoverer, one change by a service after
  the snapshot (`MaxScribbles`). The constraint `Followed` lets one run at a
  time be between its token snapshot and its swap: there a run touches nothing
  another run touches, so the steps commute. It follows orphans by themselves
  and lets the operator read a token only when a frozen run was left behind.
- Symmetry (tokens, workers, natives, instances) is used for safety runs only.

### Fairness

`NativeGetsIn`, `JobsEnd` and `AllEnd` are the liveness properties.
- `CalmFairness`: worker threads run (weak fairness of `Thread`), an offload
  order is carried out and its answer arrives, a holder whose lease is revoked
  cleans up (`Yield`: the client checks its lease and releases). The calm system
  has no crash, failure or timeout, and loses nothing but heartbeats, since each of these
  legitimately ends the request. New Comfy requests keep polling; nothing is assumed of them.
- `JobsEnd`: threads of the executor run; a service does not preempt one line
  for ever (strong fairness of `Synthesized`), because the code retries a
  preempted line without a limit. No fairness of the user.
- `AllEnd`: the call's own thread, the probe's thread and the handlers of the
  control server run, and time passes for a case. ComfyUI, TTS More and the
  clients owe nothing: the deadlines end the call and the case, socket timeouts
  end a connection. `TimedSpec` asks weak fairness of the union of these steps,
  which is weaker than fairness of each connection, and enough because every
  accepted connection takes a bounded number of steps. A client that trickles
  bytes delays its end by a bounded time, which is left out.

## 5. Disagreements

Two runs are expected to be violated. The findings in `PROJECT.json` quote the
source and the sentence it disagrees with.

1. `native_late`. `_publish` reads a snapshot and sends it afterwards; a
   restarted coordinator takes the first report as the present.
2. `project_retitle`. `save_project` renames a directory under a transaction.

### Further disagreements

Met while modelling; no run is spent on them. The properties exempt exactly
these cases, so that they hold of everything else.

The GPU:

- Reports of two threads of one native may arrive in the opposite order of their
  revisions; the later arrival is refused and its request fails (guard.py:184),
  although `docs/native-gpu-coordination.md` promises that the production service
  goes on (`NeverTurnedAway` of `NativeGuard`, with the config of
  `native_priority`).
- An IndexTTS transition that fails between moving Qwen and its device map, or half
  way through Qwen, makes every later inventory refuse the layout. The comment at
  adapters.py:570 says an explicit `restore()` may recover it; `restore()` begins
  with that inventory, and nothing in the source calls it after a guard failure.

Generation:

- `_record_prefailed_items` (queue.py:1119-1144) tells an item that cannot be routed the
  number `len(versions) + 1`, while `append_version` gives it one above all others. In a
  history with a gap the item names a version another task made, or none, and nothing
  corrects it: the merge tells new numbers to versions whose number changed there only.
  `HonestItems` leaves out such an item (`Named`), and the run explores it.
- A job whose status a cancellation made terminal is evicted when it shows no event
  for an hour (queue.py:910-922), although a thread of it may still wait for a group
  or a service. Its next event raises KeyError (queue.py:1169), versions it leaves are
  named by no item, and `_is_cancelled` no longer takes it for cancelled.
- `cancel()` gives a job with a failed item and no line in progress the status
  "failed" (queue.py:984), which `_is_cancelled` (queue.py:999) does not take for a
  cancellation: the threads go on, and speak and keep lines just marked cancelled.
  test_service_queue.py:706 says that lines not yet started should not run.
- A cancellation that arrives after a version was committed replaces it by a
  failed one, and the item to change is looked up by the length of the history,
  not by the number of the version. In a history with a gap it is not found: the
  item stays completed and its audio is gone.
- Two tasks of one job on one line: at the merge the first version gets the number
  the second was first given; when the second is renumbered in turn,
  `_replace_item_version_id` (queue.py:1078-1091) moves both items to it.
- `submit` stores the job it refuses because the store is full
  (queue.py:900-905), so `MAX_JOBS` does not bound it.
- `_mark_load_failed` (queue.py:723) keeps the remembered signature of a service
  whose load failed half way, or finished after the client had given up. The next
  line of the old signature is spoken without a load, in another voice or with
  mixed weights; the repository's README.md:180 allows reuse for an equal signature only. A worker
  that restarts by itself leaves a remembered signature behind too; a failed
  unload keeps its service active.
- A group with more than one slot on one service, or two queues after a change of
  the registry (main.py:1356), lets one job change the voice of a line another is
  speaking, and exceeds the capacity its README.md:178 states.

The ComfyUI call:

- The prompt id is only known from the reply to the submission (services.py:2026).
  When that is lost the coordinated cleanup skips the queue, releases a runtime
  that is not loaded yet and raises an ordinary error; the prompt stays in the queue and starts
  later. The comment at services.py:2087 calls the cleanup mandatory even for an
  execution error. The Suite's own lease still protects the GPU.
- A cancellation in the cleanup that fails reports `final_state="error"`, which
  counts as converged until the queue is read again; when that read fails too, the
  asset is deleted while the prompt waits in the queue.

Projects and the library:

- Two creations choose the same free directory, two load-change-save requests
  overwrite each other, and the first transaction of a project beside the creation
  of another one with its id for a title leaves the manifest in a directory the
  next call does not find (config of `project_store` with `Apart = {}`).
- Library routes without a revision can undo a window's save. Overlapping uploads
  of a reference for a project overwrite each other: the name is chosen before the
  chunks are awaited (main.py:976-995). `create_parse_revision` saves the
  project it loaded before it waited for the language model.

Services:

- Windows that send their whole list undo each other's edits of a record: a list
  is only merged against what the *application* has loaded. A registry loaded from
  a missing file restores every default on the next save. When `data/local/services.json`
  is missing and services are read from `data/services.json` or the example instead
  (main.py:1378-1391), the first save of one service writes a file without the others. After the registrar has
  added a locator, every generic save and reload of a running application is
  refused (409) until it restarts.

Roles and the catalogue:

- A freeze is saved with the project but not in its active parse revision
  (main.py:1049-1076, beside 1026-1028 where a put does both), so that activating
  the very revision again drops it. A forced rematch and a new parse drop every
  snapshot; activating an older parse can bring back a reference to a character
  that was deleted since.
- A rematch finds roles by the name of the character they have: with two
  characters that answer to one name, matching again may change what it matched.
- Two experiments whose names differ only in spaces become one entry without a
  variant (role_library.py:865-871).

Portable packages:

- A package whose `build_id` changes makes `action_status` answer NOT_FOUND: the
  action's tree is neither reported blocked nor killed. A start launcher has no
  job, so an error after its spawn leaves its children. The routes that stop a service
  and read its logs pass the service id as a string, so that a portable package is
  not stopped through its launcher. A launcher killed in the middle of a line and
  recovered later leaves a log that cannot be read.
- A launcher that fails after it has written that the operation is ready (opening the
  browser, Invoke-PortableStart.ps1:1262) goes through `Fail-Operation` all the same
  (1267-1276, 965-976): it appends an event and writes "failed" over the final state. A
  client that has heard "ready" stops asking and never learns of it. `OverMeansAll`
  leaves out that event and no other.

Deployment:

- A bundle upgrade in which `Start.cmd` or `Stop.cmd` changed is refused on every run.
  `--clean` deletes commits that were not pushed, and stashes, although its message says "commit,
  stash, or clean"; `--latest --write-lock` may pin a local commit nobody else has;
  an interrupted clone leaves a directory every later sync refuses.
- `sync_integrations`: an owned file the user deleted makes every later sync fail
  instead of being repaired. A failure after the link of a path that was there before, and
  before it is recorded as published, leaves the new file in place, even a new
  manifest, and reports "externally recreated"; the preservation report
  (.superpowers/sdd/task-4-sync-preservation-report.md) says prior bytes are
  restored after any publication failure. A run killed before its first journal
  leaves claims that no journal lists.

Reliability runs:

- A cleanup failure after the validator passed can never be published
  (`CleanupFailureIsPublished` of `RunRecovery`): the design
  (docs/superpowers/specs/2026-08-03-windows-private-recovery-namespace-design.md,
  "Supervised run state machine", step 4) says it is, with
  `failure_source=cleanup`. A matrix run's summary says passed, which
  `verify_run_artifacts` refuses beside a failed outcome, and a preflight run's
  `preflight.json` is refused by `_terminal_contract`. The same step says a preceding
  validator failure remains primary, while `record_inner_result` names `cleanup`
  whenever cleanup failed. And without a failed validator the launcher writes no
  lifecycle document, so recovery refuses such a run.
- After a case that restarts ComfyUI its new parent, the validator, has ended by the
  time of the cleanup, and `Test-RecordedIdentity` (ps1:165-189) wants the parent
  alive: the cleanup is "pre-stop-unproved" (exit 7), and the full gate of
  docs/comfyui-windows-reliability.md:47-52 cannot end with zero. A child known only
  by an intent or provisionally is never stopped once the validator is dead.
- `stop_owned` (reliability_validation.py:2651-2656) takes every RuntimeError of
  `inspect_process` for the end of the process, also that the query itself failed
  (2881-2882). A ComfyUI that is slow to die beside one failing query is forgotten: the
  restart spawns a second one beside it, and a cleanup counts as proven while it lives.
  The properties of `HostProbe` promise nothing of it (`misread`), and everything of
  the others.
- A queued cancellation counts as unsubmitted when `updated_at` has moved and no
  prompt is named (reliability_validation.py:3870). A late worker moves `updated_at` by
  showing that it loads (queue.py:259, 304, 352), for a cancelled item too. That it
  submits nothing afterwards follows from its look for a cancellation (queue.py:303),
  not from what the probe observes: `QueuedMeansNever` says so.
- docs/comfyui-windows-reliability.md:58 puts the observation of the terminal state and of the queue
  in one window; the manifest and the last reads of queue and history are outside
  any window, and the request window begins after the job was created. A job
  that fails for another reason between the poll and the termination counts as
  terminated; a job that leaves ComfyUI's queue between two polls fails a good
  case; jobs of failed cases other than the queued one are not cancelled.

## 6. Proofs

TLAPS proves the following for every value of the constants: any number of
groups, natives, threads, tokens, jobs, tasks, runs, recoveries, services, calls, files,
versions, connections, polling rounds, page sizes.

| Theorem | Module | States |
|---|---|---|
| `TypeCorrect` | `GpuCoordinatorProofs` | `Spec => []TypeOK` |
| `Exclusive` | `GpuCoordinatorProofs` | `Spec => []ExclusiveUse` |
| `Durable` | `GpuCoordinatorProofs` | `Spec => []DurableFence` |
| `RevocationFinal` | `GpuCoordinatorProofs` | `Spec => RevocationIsFinal` |
| `LiveBesideIdle` | `GpuCoordinatorProofs` | `Spec => []LiveLeaseBesideIdleNatives` |
| `Implements` | `GpuCoordinatorProofs` | `Spec => ImplementsFence`, the refinement of `GpuFence` |
| `WorkSerialized` | `NativeGuardProofs` | `NativeSpec => []GuardKept` |
| `ExclusiveBesideNatives` | `NativeGuardProofs` | `NativeSpec => []ExclusiveUse` |
| `NeverBoth` | `NativeGuardProofs` | `ASSUME ~LateSnapshots PROVE NativeSpec => []NeverBothLoaded` |
| `VersionsStay` | `GenerationJobsProofs` | `Spec => []VersionsKept` |
| `OneVersionEach` | `GenerationJobsProofs` | `Spec => []OneOutcome` |
| `ItemsHonest` | `GenerationJobsProofs` | `Spec => []HonestItems` |
| `CancelledSilent` | `GenerationJobsProofs` | `Spec => []CancelledStaysSilent` |
| `PublicationsKept` | `RunRecoveryProofs` | `Spec => []NoLostPublication` |
| `PublishedEvidence` | `RunRecoveryProofs` | `Spec => []PublishedIsTrue` |
| `DeletionCommitted` | `RunRecoveryProofs` | `Spec => []DeletesOnlyCommitted` |
| `PrivateBytesKept` | `RunRecoveryProofs` | `Spec => PrivateKept` |
| `CleanedUp`, `ToldTruly` | `ComfyPromptProofs` | `Spec => []CleanMeansQuiet`, `Spec => []PromptToldTruly` |
| `CasesJudgedTruly` | `ComfyPromptProofs` | `CaseSpec => []JudgedTruly` |
| `SlotsNeverLost` | `ComfyPromptProofs` | `TransportSpec => []SlotsAccounted` |
| `EditsKept`, `RegistryFollows` | `ServicesProofs` | `StoreSpec => []StoreKept`, `StoreSpec => RegistryKept` |
| `VoicesStayKnown` | `ServicesProofs` | `ResidencySpec => []VoicesKnown` |
| `ArtifactsStay` | `ServicesProofs` | `ArtifactSpec => []ArtifactsKept` |
| `EnginesStayWhole` | `ServicesProofs` | `AdapterSpec => []EnginesWhole` |
| `LaunchesKnown` | `PackagesProofs` | `ControlSpec => []LaunchesAccounted` |
| `ReadsCurrent` | `PackagesProofs` | `ReadSpec => []ReadIsCurrent` |
| `LogWhole` | `PackagesProofs` | `LogSpec => []LogComplete` |
| `CheckoutsSafe` | `PackagesProofs` | `SyncSpec => []CheckoutsKept` |
| `InstallsSound` | `StoresProofs` | `BundleSpec => []InstallSound` |
| `ComfyKnown` | `StoresProofs` | `HostSpec => []ComfyAccounted` |
| `EditingStays` | `StoresProofs` | `LibrarySpec => EditingKept` |
| `MirrorStaysHonest` | `StoresProofs` | `MirrorSpec => []MirrorHonest` |
| `ProjectsStayApart` | `StoresProofs` | `Undisturbed => (Spec => []ProjectsApart)` |
| `HistoryStays` | `StoresProofs` | `Undisturbed => (Spec => []HistoryKept)` |

The last modules speak of the specification of a part. A run of several parts
checks that part beside others that stay as they began.

### Assumptions

All are named, in the module that declares the constants, and TLC evaluates
them on every run of that module.

- Absence is none of the values it is the absence of: `NoneAssumption` of
  `GpuCoordinator`, `EvidenceStore` and `PortableControl`, `AbsenceAssumption` of
  `NativeGuard`, `MissingAssumption` of `RunRecovery`, `NamesAssumption` of
  `ServiceStore`, `FileIdAssumption`, `VersionsAssumption`, `NobodyAssumption` of
  `CharacterLibrary`, `VacantAssumption` of `IntegrationSync`, `ThreadAssumption` of `ProjectStore`. In Python these are
  `None`, or a file that is not there. `SenderAssumption` and `CallerAssumption`
  keep two kinds of name apart; `MineAssumption` says that what the user writes
  is something, and not what a bundle brings, and `ManifestAssumption` that the
  manifest is none of the files it lists (`_validate_controlled_relative`).
- Tables fit together: `GroupAssumption` (every participant is in one group),
  `WorkerAssumption`, `ReportAssumption`, `ModeAssumption`, `BundleAssumption`,
  `IdAssumption`, `LookAssumption`, `NameAssumption`, `OpAssumption`;
  `ListingAssumption` (a listing names every directory); `OrderAssumption` (the order of locking names
  every component, as `sorted()` does); `LockAssumption` (`repo.lock.json` names
  a repository once, and at least one).
- A line asks for services in an order of preference, which names each once
  (`PriorityAssumption`), and a cluster of lines is of one job
  (`ClusterAssumption`).
- A job's tasks: `TaskAssumption` (each is in one job and on one line, they are finitely many,
  and what made the first versions is none of them), `HistoryAssumption` (the
  numbers of a history grow, as `append_version` leaves them), `PlanAssumption` (routing
  plans a task that it can route once, in its own job: `run()` puts each routed
  task in one cluster).
- Limits are numbers, and positive where the code's are: `BoundAssumption`,
  `WaiterAssumption`, `ChainAssumption`, `ScribbleAssumption`, `RoundsAssumption`,
  `WindowsAssumption`, `RetriesAssumption`, `LimitAssumption`,
  `WorkersAssumption`, `AskedAssumption`, `BoundsAssumption`. `ConnectionsAssumption` and `FilesAssumption`: finitely
  many connections, and a path at all.
- `TimeAssumption`: the time to live of a worker's files covers the client's
  cache and the two timeouts of a call, `CacheFor + 2 * Timeout <= Ttl + 1`, and
  the two timeouts alone, `2 * Timeout <= Ttl`. The code has 24 hours, at most 23
  hours, and by default ten minutes for an answer. The second half came from the proof: with
  a cache of no time at all, the first admits a call that waits so long between
  its upload and the worker's reading that its own reference is swept.
- The theorems about projects assume `Undisturbed` (section 3). Without it
  `HistoryKept` is false, as the run `project_retitle` shows, and so is
  `ProjectsApart`, for calls that section 5 names. `Settled` is there for edits that
  overlap with others: if no other project tries the name of the one that is edited,
  the edit does not rename.
- `NeverBoth` assumes `~LateSnapshots`: a snapshot is delivered to the
  coordinator it was read for, by the process that read it. Without that the
  statement is false, as the run `native_late` shows, so the theorem says that
  this is the only way.

### The coordinator and the natives

`ExclusiveUse` and `DurableFence` are not inductive. Exclusion rests on what the
coordinator knows (its lease, its set of groups in recovery) and what it knows
rests on the journal, in memory and on disk, across a restart. The invariant

    IInv == TypeOK /\ ProcessInv /\ \A g \in Groups : GroupFenced(g)

ties the ghost `claims` to all three. `ProcessInv` says that a process that is
down has no leases and that only one that is up has the journal open.
`GroupFenced(g)` says of a claimed group: as long as there is a process, it holds
the lease of that very claim or has the group in recovery; if it owns the
journal, the group is dirty in memory, which is what the next commit writes; the
file says so too or is one no restart accepts; and no native token or offload is
out. `OneLease` says that changing one lease without its token changes no lease's
token, `FencePreserved` carries the invariant over the steps that touch nothing
of it, `FenceSurvivesProcess` over the loss of the process, and `FenceStep` has one
step for each action. The refinement needs in addition `TokensOnce`: tokens in use were
issued, so no two holders of different groups share one.

`RevocationIsFinal` needs types only, but looks at two states: the order of
reasons (`Gravity`) is compared over every step that touches a lease, and
`_tick` runs inside most of them. `LiveLeaseBesideIdleNatives` holds because each
report, waiter and offload that would break it revokes the lease in the same
critical section, and because a grant looks at all of it.

In `NativeGuardProofs` the coordinator's invariants carry over, since real natives
are clients like any others. `GuardInv` adds what a native knows of itself: who
lives, that only the booting worker works before the process is ready, and that GPU
work is under the operation lock or is the startup's. `WireInv` is about what is
on its way. `Honest`: every snapshot and every answer to an offload order is of
the running process and not from its future, and a thread that announces itself
has a later revision than every report that would let Comfy in. `Known`: while a native
is on the GPU, or one of its threads was heard or admitted, neither what
the coordinator knows of it nor anything that can still arrive makes it look
passive. `Claimed`: beside a claim no native is on the GPU or may step onto it.
None of the three is inductive without the others.

### Generation jobs

The invariant is `Types`, that histories on disk grow (`StoreGrows`), and
`JobKept(j)` of every job, which speaks of that job's part of the state only. It
has the job's own copy (`CopyKept`: the manifest it loaded, then its own
versions), what its status says of where it is (`StatusKept`), its threads
(`ThreadsKept`: no two have a task in common, and each task to be run is on one),
and for each task (`TaskKept`): it has at most one version, and none while a
thread has it to do (`VersionOnce`); it has one unless the user or an exception
stopped the job (`VersionMade`); a completed version beside an item that does
not say so means that a cancellation is about to be settled, or that the job
will end as failed (`SilenceKept`); item and version agree
before the merge (`ItemKept`) and after it (`NumberKept`, with the numbers still
to be told), and what is on disk is what was made (`OutcomeKept`).

The steps are handled by kind: a step of one job leaves the others `Untouched`,
a step of a thread moves it along (`MoveKept`), records a first version
(`RecordKept`), or looks once more at the one it has recorded and leaves it
(`SettledKept`) or takes it back for another (`OutcomeReplaced`). Below that are facts about
sequences: what is left at some positions of one (`KeptFacts`), that versions
appended one after the other keep their order and get numbers above all others
(`AppendedAllFacts`), that removing one keeps the rest in order (`DroppedFacts`), and
that a job with one version on a line gets at most one assignment there, and the right one
(`AssignmentFacts`).

`HonestItems` says nothing of two tasks of one job on one line (`Alone`), nor of a task
without a route on a line that had lost a version (`Named`), and not
for want of a proof: there the code is wrong (section 5). `_replace_item_version_id`
finds items by line and
number: with two on one line the first assignment may give an item the number
that the second assignment looks for. An item without a route was told a number that
was never given to its version. A job that is evicted while its threads
wait is one more way for a thread to raise.

### Reliability runs

`RecoveryInv` is one invariant of each run (`RunType`, `LeafKept`: what is in the private
directory at each step of the launcher; `CleanupKept` and `SealKept`: which files
there are, and that they agree, from the cleanup to the terminal; `OverKept`: how
a run ended), of the pointer (`PlaceKept`: a frozen run's place in the chain is
the one its token names, and nobody is there twice) and of an open deletion
(`DeleteKept`: it is of the current run, it has the lock, and what is left is
part of the snapshot). A frame lemma says that a step of one run keeps the
invariant of all others. TLC follows one run at a time through the stretch
where runs commute (`Followed`); the proof needs no such constraint.

### Calls, cases, connections

`PromptInv` says what the call knows of its prompt at each place, and that it is
true of the server: an entry it saw in the history is there, a prompt it saw
neither queued nor running after a cancellation that was accepted will not start.
It holds for any `MaxRounds`, while TLC has two. `CaseInv` has one conjunct per thing a
case relies on: the place it is at, what a job shows of its worker and prompt
(`WorkKept`), that what was read as final stays so (`StatusKept`, `OutcomeKept`),
that a worker which heeds its cancellation has looked before it may submit (`HeedKept`),
that a queued job never reached ComfyUI (`QueuedKept`), which window runs
(`WindowKept`), and what a case that is given up has still to release
(`GiveUpKept`). `SlotsInv` adds types to what it counts.

### Services

`StoreInv`: who holds the lock of the file and the guards (`HoldersKept`), that a
merge under way starts from the file as it is (`MergesKept`), and that what a
caller holds as its base is the registry in use (`BasesKept`). The two facts
about a pair of states, `LocatorsGuarded` and `RegistryNeverOlder`, follow from it
step by step. `ArtifactInv` bounds the ages of files: one that the client's cache
names was touched at most `Timeout` before it was noted, is believed for
`CacheFor - 1`, and is needed for `Timeout` more, which `TimeAssumption` covers.

`ResidencyInv` ties four who each remember something of a worker: the queue, which
service it thinks active in a group and with which signature; the semaphore; the
job that is inside; and the worker itself. A job has its slot from entering a
cluster to leaving it (`SectionsKept`), and in a group of one slot nobody else of
its queue is there (`Lone`). While there is one queue, it remembers of a service
that is not spoilt the voice its worker holds or none, and knows it to be active if
it holds one (`ServiceKept`); after its eviction a job has no other active
service beside it, after its load the worker has its voice, unless it is spoilt
meanwhile (`VoiceKept`). Calls fail before, in the middle of and after their effect, and
each outcome has a case of its own. `VoicesKnown` says nothing of a voice in groups
of several slots or beside a second queue, where the code promises none.

The engines are proved about for any number of operations (`MaxUses`). `AdapterInv`
says of a transition (`TurnKept`) that engines whose turn is over are settled where
it goes, those to come where it comes from, and the one whose turn it is still has
what its adapter remembers; past the step that binds references again, they are the model's own. What
is *between* is not described at all: the verification at the end of an
engine's turn is what makes it settled, so nothing is assumed of the PyTorch calls
before it. That an engine can be refused on the way out only, and was then whole,
needs that nothing changes a layout while the engines are away.

### Packages

`ControlInv` has the shape of requests, launchers and actions; who holds a
component's guard and the lock of all actions; that reserved ids belong to launches under way
(`ReservedKept`), that an action was tracked for one launcher and a launcher by
one request or action (`EntriesKept`, `LaunchesKept`, `OwnLaunch`), and what was
told of it (`AnswersKept`). `ReadInv`: as long as a file bears the time it had, what was read of it is there.
`LogInv`: once a state is final only the failure of that launcher is still
appended, and once it is "failed" nothing is, so a page that is not full
and was asked for after that has all the rest. `SyncInv` says how
far a synchronisation has come in the order of the lock, and that every
checkout before that is at its pin or at what will be pinned.

### What is kept on the disk

`BundleInv`: the target is what the manifest says, or between the old and the new
as the pending file records; anchor, pending file and manifest are of one
installation; the user's files are apart from what is still to be copied or
dropped. `HostInv`: processes with one number are not alive together
(`ApartKept`); what the validator knows, and what is on disk, leads to
whatever ComfyUI there is that no failing look was mistaken for the end of, by its
identity or by its mark (`RememberedKept`);
and another process that has the number of what is to be killed was born after
the last look (`AimKept`).

`WindowsLoseNothing` is about a pair of states, and rests on the list and the
revision a window has read being of one moment (`RequestKept`). For `UploadsKept`,
`LibraryInv` adds that requests have numbers of their own, under which no file is
there before it is written (`NumbersKept`); that an upload of a character's file has
the event loop from the choice of its name to the write (`RequestKept`); and that
no upload to a project that was alone has its name chosen by another
(`OverlapsKept`, `UploadKept`). That a free name is left (`NameLeft`) is a count:
each file there has a request's number, and no two the same (`FilesApart`).

`MirrorInv` says of a run what its stage and the path it is at allow (`StageKept`,
`HereKept`, `CommitKept`), and of each path how the disk, the backups and the
publication journal fit together (`PathInv`). While publishing, whatever is new at
a path or renamed aside is in the journal, or is what the step under way is about
(`PublishKept`, `ReachedKept`); so a rollback that starts anywhere knows what to
take out (`RollbackKept`), and one that has met no error has left nothing new and put
back what was backed up on the paths it has passed (`UndoneKept`). `AwayKept` is
what the renaming is for: while a claim is aside, the file that was backed up is
nowhere else, so a path that looks as it was has no claim. `CleanupKept` says that
a claim is in the journal until it is discarded. Files have an identity: what the
user writes, and what a run writes, was not there before (`FilesKnown`). The
invariant has one lemma per step, per failure that moves a file, and per act of the
user; TLC checked it with two touches and two failing calls before the proof.

`ProjectInv` rests on one idea: a project has at most one directory that counts
(`Home`, `OneEach`), so that wherever the listing is searched the search finds it
(`HomeFound`), and a call's look is still right when it opens what it found
(`CallKept`). A directory named for the id counts once a file is in it: before that,
the marker of a transaction that was killed may be there beside another. `DirKept`
bounds the names a directory can have by those that are tried for its project, and
with it a free name is left (`FreeLeft`): no project has more than two directories,
one that counts and an empty one. Calls that overlap leave each other's lookups alone
(`OthersOfUpdate`, `OthersOfEdit`); for the rest nobody else is in progress
(`Alone`). What a finished call wrote is in its project's directory or in the trash
(`DoneKept`). TLC checked the parts of the invariant on the calls of `MCStores`, and
on an instance with three projects, before the proof.

### Only model-checked

- Liveness under fairness (`NativeGetsIn`, `JobsEnd`, `AllEnd`), and what is
  stated with ENABLED (`ServiceRequestsMove`, `ControlRequestsMove`): out of this
  prover's reach.
- `RoleCasting` and `VoiceCatalog`: a library is rewritten by `SelectSeq`, entries
  are merged by one.

## 7. Not modelled

- Parsing of scripts, prompts for language models, the workflow builder, models
  as data: functions without state.
- Authentication, path checks and hardware probes: they keep no state that
  changes between requests. The formats of control requests and which of them are
  refused are a choice in `ControlServer`.
- The React client caches what the server says.
- The archive of terminal cohorts of unsupervised runs, with its failure markers
  (`_publish_public_terminal_marker` and what it calls): nothing outside the tests
  calls it. The diagnostics of failed cases, and the samples of GPU, processes and
  temporary files: measurements that a case's verdict compares with limits. The
  sampler finds runners by the numbers of their parents and does not see orphans.
- Supervised processes that are started by command (`supervisor.py` without a
  package): a record of a number, no lock; two starts at once start two processes,
  and `stop_owned` looks first and kills by number.
- Building the staged integration, the safety of paths, reparse points and
  directories in `sync_integrations`; the two cleanup journals of a run are one,
  the user leaves the manifest alone, and comparing a claim and removing it is
  one step. Network and host probes, the rendering of services and submodules in
  `tts_more_deploy`, plain `--latest`, and a user's commits on a detached head.
- What the queue forgets of a coordinated ComfyUI service whose memory was given back
  (`_forget_released_runtime`): the call that gives it back is in `ComfyPrompt`, the
  line that waits for the GPU in `GenerationJobs`.
- Role directories and the candidates found in them: scans that keep nothing.
- The legacy manifest, several project roots, the spelling of Windows paths, and torn
  files of evidence, which every reader refuses.
