------------------------------ MODULE CaseProbe ------------------------------
(***************************************************************************)
(* How a reliability run judges one case (HttpReliabilityProbe,            *)
(* _queue_proof_valid and validate_case of                                 *)
(* comfyui/reliability_validation.py): the probe starts a generation job,  *)
(* watches it and its prompt over HTTP, may cancel it or have ComfyUI      *)
(* terminated, all within windows of time, and accepts the case or fails.  *)
(*                                                                         *)
(* TTS More is what is being judged, so it may do anything here its API    *)
(* can show: end a job with any outcome, go on with a job it was asked to  *)
(* cancel, show any change of it at any time, claim what is not so.  It    *)
(* only keeps that each change of a job moves updated_at, that a prompt    *)
(* which was submitted is named by its job before the worker of the job    *)
(* ends, and that a job is not changed once its worker has ended.  Whether *)
(* it also heeds a cancellation the way its worker does is a choice made   *)
(* once (heeds).  ComfyUI tells the truth.                                 *)
(*                                                                         *)
(* Every call is a step of its own, time may pass between any two, and     *)
(* any call may fail.  Identifiers and the sound of the audio are left out.*)
(***************************************************************************)
EXTENDS Naturals, FiniteSets

CONSTANTS Request, Converge   \* the windows: request_timeout_seconds, convergence_seconds

ASSUME WindowsAssumption == Request \in Nat \ {0} /\ Converge \in Nat \ {0}

VARIABLES
  case,       \* the action of the case
  at,         \* where the probe is
  now,
  deadline,
  saw,        \* what it has read and done
  job,        \* job -> what GET /api/jobs shows of it; moved: updated_at has
              \* changed since the job was asked to be cancelled
  version,    \* the version of the target in the manifest
  worker,     \* job -> where its worker is
  prompt,     \* job -> its prompt in ComfyUI
  comfy,      \* "up" or "down"
  told,       \* the jobs the probe has asked to cancel
  heeds,      \* the worker of the target looks for a cancellation between the
              \* first change it shows and its prompt, as it does in queue.py
  stirred,    \* the jobs changed after the cancellation by a worker that had
              \* neither a prompt to name nor ended
  times       \* when the action was issued, when what is judged was read;
              \* the window starts at 0

caseVars == <<case, at, now, deadline, saw, job, version, worker, prompt, comfy, told, heeds, stirred, times>>

Jobs == {"target", "blocker"}
Ended == {"completed", "cancelled", "failed"}
Controlled == {"timeout", "cancel-running"}
ActionCase == case \in {"cancel-running", "terminate-comfyui"}
Latest == Request + Converge + 1

NoJob == [status |-> "none", item |-> "none", named |-> FALSE, moved |-> FALSE]
NewJob == [NoJob EXCEPT !.status = "running", !.item = "queued"]
NoVersion == [audio |-> "none", claim |-> FALSE]

\* build_case_plan: the kinds of cases
CaseInit ==
  /\ case \in {"synthesize", "timeout", "cancel-running", "terminate-comfyui", "cancel-queued"}
  /\ at = "create" /\ now = 0 /\ deadline = 0
  /\ saw = [target |-> NoJob, blocker |-> NoJob, inQueue |-> FALSE, state |-> "absent", after |-> {}, down |-> FALSE,
            acted |-> FALSE, known |-> {}, done |-> {}]
  /\ job = [j \in Jobs |-> NoJob] /\ worker = [j \in Jobs |-> "none"] /\ prompt = [j \in Jobs |-> "none"]
  /\ version = NoVersion /\ comfy = "up" /\ told = {} /\ stirred = {}
  /\ heeds \in (IF case = "cancel-queued" THEN BOOLEAN ELSE {FALSE})
  /\ times = [act |-> 0, seen |-> 0]

sut == <<job, version, worker, prompt, comfy, heeds, stirred>>

Goes(pc) == at' = pc
Failing == at \in {"give-up", "give-up-blocker", "failed"}
Fails == IF case = "cancel-queued" THEN Goes("give-up") ELSE Goes("failed")

\* A call fails, or what it says is refused.
CallFails ==
  /\ at # "valid" /\ ~Failing
  /\ Fails
  /\ UNCHANGED <<case, now, deadline, saw, told, times, sut>>

InQueue(j) == prompt[j] \in {"pending", "running"}

\* Of the blocker only the status and the name of its prompt are ever asked.
Seen(j, new) == IF j = "target" THEN new ELSE [NoJob EXCEPT !.status = new.status, !.named = new.named]

\* POST /api/jobs/generation
Creates(j) ==
  /\ job' = [job EXCEPT ![j] = Seen(j, NewJob)]
  /\ worker' = [worker EXCEPT ![j] = "queued"]
  /\ UNCHANGED <<version, prompt, comfy, heeds, stirred>>

Knows(j) == saw' = [saw EXCEPT !.known = @ \cup {j}]

\* GET /api/jobs/<id>
Reads(j) == saw' = [saw EXCEPT ![j] = job[j], !.state = "absent"]

\* GET /queue of ComfyUI, if it is there
StateOf(j) == IF InQueue(j) THEN prompt[j] ELSE "absent"
ReadsQueue(j) ==
  saw' = [saw EXCEPT !.state = IF comfy = "up" THEN StateOf(j) ELSE "absent",
                     !.inQueue = @ \/ (j = "target" /\ comfy = "up" /\ InQueue(j)),
                     !.down = @ \/ comfy = "down"]

\* POST /api/jobs/<id>/cancel: what the job makes of it; what is compared
\* with updated_at later is what the answer says.  An item that was begun is
\* cancelled at once only by a job that does not heed its cancellation.
Cancelled(old) ==
  {[old EXCEPT !.moved = FALSE]} \cup
  IF old.status \in Ended THEN {}
  ELSE {[old EXCEPT !.status = "cancelled", !.moved = FALSE, !.item = i] :
           i \in {old.item} \cup (IF heeds /\ old.item # "queued" THEN {} ELSE {"cancelled"})}
CancelsJob(j) ==
  /\ told' = told \cup {j}
  /\ \E new \in Cancelled(job[j]) : job' = [job EXCEPT ![j] = Seen(j, new)]
  /\ UNCHANGED <<version, worker, prompt, comfy, heeds, stirred>>

\* A call that takes effect although its answer is lost
CallLost ==
  /\ Fails
  /\ \/ at = "create" /\ Creates(IF case = "cancel-queued" THEN "blocker" ELSE "target") /\ UNCHANGED told
     \/ at = "create-target" /\ Creates("target") /\ UNCHANGED told
     \/ at = "act" /\ case = "cancel-running" /\ CancelsJob("target")
     \/ at = "cancel-target" /\ CancelsJob("target")
     \/ at = "cancel-blocker" /\ CancelsJob("blocker")
  /\ UNCHANGED <<case, now, deadline, saw, times>>

WindowOpen == now < deadline
ReadAt == times' = [times EXCEPT !.seen = now]

-----------------------------------------------------------------------------
\* execute_case
CreateTarget ==
  /\ at = "create" /\ case # "cancel-queued"
  /\ Creates("target") /\ Knows("target")
  /\ Goes("poll")
  /\ deadline' = now + Request + (IF ActionCase THEN 0 ELSE Converge)
  /\ UNCHANGED <<case, now, told, times>>

Poll ==
  /\ at = "poll"
  /\ Reads("target") /\ ReadAt /\ Goes("polled")
  /\ UNCHANGED <<case, now, deadline, told, sut>>

\* require_case_window_open, after each answer
Polled ==
  /\ at = "polled"
  /\ IF ~WindowOpen THEN Fails ELSE IF saw.target.named THEN Goes("queue") ELSE Goes("end?")
  /\ UNCHANGED <<case, now, deadline, saw, told, times, sut>>

\* Only once ComfyUI was terminated may it be gone.
Queue ==
  /\ at = "queue"
  /\ IF comfy = "down" /\ ~(case = "terminate-comfyui" /\ saw.acted) THEN Fails /\ UNCHANGED saw
     ELSE ReadsQueue("target") /\ Goes("queue-read")
  /\ UNCHANGED <<case, now, deadline, told, times, sut>>

\* The window starts again once, when the action is issued.
Restarted ==
  IF ActionCase /\ ~saw.acted /\ saw.state = "running" THEN deadline' = now + Converge ELSE UNCHANGED deadline

QueueRead ==
  /\ at = "queue-read"
  /\ IF ~WindowOpen THEN Fails /\ UNCHANGED <<deadline, times>>
     ELSE /\ Restarted
          /\ IF ActionCase /\ ~saw.acted /\ saw.state = "running"
             THEN Goes("act") /\ times' = [times EXCEPT !.act = now]
             ELSE Goes("end?") /\ UNCHANGED times
  /\ UNCHANGED <<case, now, saw, told, sut>>

\* _cancel_job, or the hook that has the owned ComfyUI terminated
IssueAction ==
  /\ at = "act"
  /\ saw' = [saw EXCEPT !.acted = TRUE]
  /\ Goes("acted")
  /\ \/ case = "cancel-running" /\ CancelsJob("target")
     \/ /\ case = "terminate-comfyui"
        /\ comfy' = "down"
        /\ UNCHANGED <<job, version, worker, prompt, heeds, stirred, told>>
  /\ UNCHANGED <<case, now, deadline, times>>

Acted ==
  /\ at = "acted"
  /\ IF WindowOpen THEN Goes("end?") ELSE Fails
  /\ UNCHANGED <<case, now, deadline, saw, told, times, sut>>

\* A job that has ended is judged, another is polled again.
EndSeen ==
  /\ at = "end?"
  /\ IF saw.target.status \notin Ended THEN Goes("poll")
     ELSE IF (ActionCase => saw.acted) /\ saw.target.named /\ saw.inQueue THEN Goes("manifest") ELSE Fails
  /\ UNCHANGED <<case, now, deadline, saw, told, times, sut>>

-----------------------------------------------------------------------------
\* The outcome of the job in the manifest: the version, and what TTS More
\* says of the control (_fault_terminal_evidence)
Expected ==
  CASE case = "synthesize" -> "completed" [] case = "timeout" -> "failed" [] case = "cancel-running" -> "cancelled"
    [] case = "terminate-comfyui" -> "failed" [] OTHER -> "cancelled"
VersionFits ==
  /\ version.audio = (IF case = "synthesize" THEN "audio" ELSE "silent")
  /\ case \in Controlled => version.claim

Manifest ==
  /\ at = "manifest"
  /\ IF saw.target.status = Expected /\ VersionFits
     THEN IF case # "terminate-comfyui" THEN Goes("queue-after") ELSE IF saw.down THEN Goes("valid") ELSE Fails
     ELSE Fails
  /\ UNCHANGED <<case, now, deadline, saw, told, times, sut>>

QueueAfter ==
  /\ at = "queue-after"
  /\ saw' = [saw EXCEPT !.after = {j \in Jobs : InQueue(j)}]
  /\ Goes("history")
  /\ UNCHANGED <<case, now, deadline, told, times, sut>>

\* _terminal_comfy_history_status
HistoryAgrees == prompt["target"] = IF case = "synthesize" THEN "success" ELSE "interrupted"

\* _queue_proof_valid
History ==
  /\ at = "history"
  /\ IF saw.after = {} /\ HistoryAgrees THEN Goes("valid") ELSE Fails
  /\ UNCHANGED <<case, now, deadline, saw, told, times, sut>>

-----------------------------------------------------------------------------
\* _execute_queued_cancel_case: a job that is not of the case holds the
\* admission, so that the target is cancelled before it gets any further.
CreateBlocker ==
  /\ at = "create" /\ case = "cancel-queued"
  /\ Creates("blocker") /\ Knows("blocker")
  /\ Goes("blocker")
  /\ deadline' = now + Request
  /\ UNCHANGED <<case, now, told, times>>

AwaitBlocker ==
  /\ at = "blocker"
  /\ Reads("blocker") /\ Goes("blocker-read")
  /\ UNCHANGED <<case, now, deadline, told, times, sut>>

BlockerRead ==
  /\ at = "blocker-read"
  /\ IF ~WindowOpen THEN Fails ELSE IF saw.blocker.named THEN Goes("blocker-queue")
     ELSE IF saw.blocker.status \in Ended THEN Fails ELSE Goes("blocker")
  /\ UNCHANGED <<case, now, deadline, saw, told, times, sut>>

BlockerQueue ==
  /\ at = "blocker-queue"
  /\ ReadsQueue("blocker") /\ Goes("blocker-queue-read")
  /\ UNCHANGED <<case, now, deadline, told, times, sut>>

BlockerHolds ==
  /\ at = "blocker-queue-read"
  /\ IF ~WindowOpen THEN Fails ELSE IF saw.state # "absent" THEN Goes("create-target")
     ELSE IF saw.blocker.status \in Ended THEN Fails ELSE Goes("blocker")
  /\ UNCHANGED <<case, now, deadline, saw, told, times, sut>>

CreateQueued ==
  /\ at = "create-target"
  /\ Creates("target") /\ Knows("target")
  /\ Goes("created")
  /\ UNCHANGED <<case, now, deadline, told, times>>

Created ==
  /\ at = "created"
  /\ IF WindowOpen THEN Goes("target") ELSE Fails
  /\ UNCHANGED <<case, now, deadline, saw, told, times, sut>>

AwaitTarget ==
  /\ at = "target"
  /\ Reads("target") /\ Goes("target-read")
  /\ UNCHANGED <<case, now, deadline, told, times, sut>>

\* _queued_item_is_pristine; the settlement window starts with the cancel.
TargetHeld ==
  /\ at = "target-read"
  /\ IF ~WindowOpen THEN Fails /\ UNCHANGED <<deadline, times>>
     ELSE IF saw.target.status = "running" /\ saw.target.item = "queued" /\ ~saw.target.named
          THEN /\ Goes("cancel-target")
               /\ deadline' = now + Converge
               /\ times' = [times EXCEPT !.act = now]
     ELSE /\ IF saw.target.named \/ saw.target.item # "queued" THEN Fails ELSE Goes("target")
          /\ UNCHANGED <<deadline, times>>
  /\ UNCHANGED <<case, now, saw, told, sut>>

\* _require_pristine_queued_cancellation
Pristine(j) == j.status = "cancelled" /\ j.item = "cancelled" /\ ~j.named

CancelTarget ==
  /\ at = "cancel-target"
  /\ CancelsJob("target")
  /\ IF Pristine(job'["target"]) THEN Goes("cancelled") /\ saw' = [saw EXCEPT !.done = @ \cup {"target"}]
     ELSE Fails /\ UNCHANGED saw
  /\ UNCHANGED <<case, now, deadline, times>>

TargetCancelled ==
  /\ at = "cancelled"
  /\ IF WindowOpen THEN Goes("cancel-blocker") ELSE Fails
  /\ UNCHANGED <<case, now, deadline, saw, told, times, sut>>

CancelBlocker ==
  /\ at = "cancel-blocker"
  /\ CancelsJob("blocker")
  /\ saw' = [saw EXCEPT !.done = @ \cup {"blocker"}]
  /\ Goes("settle")
  /\ UNCHANGED <<case, now, deadline, times>>

\* One round of the wait: the target, the blocker, the queue, each with the
\* window looked at after it.
Settle ==
  /\ \/ at = "settle" /\ Reads("target") /\ Goes("settle-blocker") /\ UNCHANGED times
     \/ at = "settle-blocker" /\ WindowOpen /\ Reads("blocker") /\ Goes("settle-queue") /\ UNCHANGED times
     \/ at = "settle-queue" /\ WindowOpen /\ ReadsQueue("blocker") /\ Goes("settled?") /\ ReadAt
  /\ UNCHANGED <<case, now, deadline, told, sut>>

SettleLate ==
  /\ at \in {"settle", "settle-blocker", "settle-queue", "settled?"} /\ ~WindowOpen
  /\ Fails
  /\ UNCHANGED <<case, now, deadline, saw, told, times, sut>>

\* Mutant: the answer to the cancellation is enough.
AnyUpdate == saw.target.status = "cancelled"

\* The worker of the target has changed the job after its cancellation.
UpdateSeen == saw.target.moved

Settled ==
  /\ at = "settled?" /\ WindowOpen
  /\ IF UpdateSeen /\ saw.blocker.status \in Ended /\ saw.state = "absent"
     THEN IF Pristine(saw.target) THEN Goes("manifest-after") ELSE Fails
     ELSE Goes("settle")
  /\ UNCHANGED <<case, now, deadline, saw, told, times, sut>>

ManifestAfter ==
  /\ at = "manifest-after"
  /\ IF version = NoVersion THEN Goes("valid") ELSE Fails
  /\ UNCHANGED <<case, now, deadline, saw, told, times, sut>>

ToRelease(j) == j \in saw.known \ saw.done

\* _best_effort_cancel
BestEffort(j) ==
  IF ToRelease(j) THEN CancelsJob(j) \/ (told' = told \cup {j} /\ UNCHANGED sut) ELSE UNCHANGED <<told, sut>>

\* finally: what is not cancelled is, as far as that works.
CancelKnown ==
  /\ \/ at = "give-up" /\ Goes("give-up-blocker") /\ BestEffort("target")
     \/ at = "give-up-blocker" /\ Goes("failed") /\ BestEffort("blocker")
  /\ UNCHANGED <<case, now, deadline, saw, times>>

-----------------------------------------------------------------------------
Judged == at \in {"valid", "failed"}

Tick ==
  /\ ~Failing /\ at \notin {"create", "valid"} /\ now < Latest
  /\ now' = now + 1
  /\ UNCHANGED <<case, at, deadline, saw, told, times, sut>>

probeVars == <<case, at, now, deadline, saw, told, times>>

Unsent == {"queued", "loading", "clear"}

\* _update_item: each change moves updated_at, one of a cancelled item too.
Shows(j, named) ==
  LET old == job[j]
  IN job' = [job EXCEPT ![j] =
       Seen(j, [old EXCEPT !.named = @ \/ named, !.moved = j \in told, !.item = IF @ = "queued" THEN "other" ELSE @])]

\* Only then does the probe ask when the job was changed.
Watched(j) == case = "cancel-queued" /\ j = "target"

\* The worker of a job shows that it loads or runs, before any prompt.
Emits(j) ==
  /\ Watched(j) /\ worker[j] \in Unsent
  /\ worker' = [worker EXCEPT ![j] = IF @ = "queued" THEN "loading" ELSE @]
  /\ Shows(j, FALSE)
  /\ stirred' = IF j \in told THEN stirred \cup {j} ELSE stirred
  /\ UNCHANGED <<version, prompt, comfy, heeds>>

\* A worker that heeds a cancellation looks for one, and has found none.
Looks(j) ==
  /\ heeds /\ Watched(j) /\ worker[j] = "loading" /\ job[j].status # "cancelled"
  /\ worker' = [worker EXCEPT ![j] = "clear"]
  /\ UNCHANGED <<job, version, prompt, comfy, heeds, stirred>>

\* It submits a prompt; one that does not heed a cancellation does so at any time.
MaySubmit(j) == heeds /\ Watched(j) => worker[j] = "clear"
Submits(j) ==
  /\ worker[j] \in Unsent /\ MaySubmit(j) /\ comfy = "up"
  /\ worker' = [worker EXCEPT ![j] = "sent"]
  /\ prompt' = [prompt EXCEPT ![j] = "pending"]
  /\ UNCHANGED <<job, version, comfy, heeds, stirred>>

NamesPrompt(j) ==
  /\ worker[j] = "sent"
  /\ worker' = [worker EXCEPT ![j] = "shown"]
  /\ Shows(j, TRUE)
  /\ UNCHANGED <<version, prompt, comfy, heeds, stirred>>

\* It ends, with any outcome unless the job is cancelled, with or without a
\* version, and with a control it claims to have had.  How the blocker ended
\* is not told apart.
WorkerEnds(j) ==
  /\ worker[j] \in Unsent \cup {"shown"}
  /\ worker' = [worker EXCEPT ![j] = "over"]
  /\ \E ending \in (IF job[j].status \in Ended THEN {job[j].status} ELSE IF j = "blocker" THEN {"failed"} ELSE Ended) :
       job' = [job EXCEPT ![j] = Seen(j, [@ EXCEPT !.status = ending, !.moved = j \in told,
                                                  !.item = IF ending = "cancelled" THEN ending ELSE "other"])]
  /\ IF j = "blocker" THEN UNCHANGED version
     ELSE \E claim \in (IF case \in Controlled THEN BOOLEAN ELSE {FALSE}),
             audio \in (IF case = "cancel-queued" THEN {"none", "silent"} ELSE {"none", "silent", "audio"}) :
            (audio # "silent" => ~claim) /\ version' = [audio |-> audio, claim |-> claim]
  /\ UNCHANGED <<prompt, comfy, heeds, stirred>>

\* How a prompt ended is told apart only where the probe asks for it.
PromptMoves(j) ==
  /\ comfy = "up" /\ InQueue(j)
  /\ \E new \in (IF case = "cancel-queued" THEN {"over"} ELSE IF prompt[j] = "pending" THEN {"deleted"}
                 ELSE {"success", "error", "interrupted"})
            \cup (IF prompt[j] = "pending" THEN {"running"} ELSE {}) :
       prompt' = [prompt EXCEPT ![j] = new]
  /\ UNCHANGED <<job, version, worker, comfy, heeds, stirred>>

ProbeSteps ==
  \/ CallFails \/ CallLost \/ CreateTarget \/ Poll \/ Polled \/ Queue \/ QueueRead \/ IssueAction \/ Acted
  \/ EndSeen \/ Manifest \/ QueueAfter \/ History \/ CreateBlocker \/ AwaitBlocker \/ BlockerRead \/ BlockerQueue \/ BlockerHolds
  \/ CreateQueued \/ Created \/ AwaitTarget \/ TargetHeld \/ CancelTarget \/ TargetCancelled \/ CancelBlocker
  \/ Settle \/ SettleLate \/ Settled \/ ManifestAfter \/ CancelKnown

CaseNext ==
  \/ ProbeSteps \/ Tick
  \/ /\ ~Failing /\ UNCHANGED probeVars
     /\ \E j \in Jobs : Emits(j) \/ Looks(j) \/ Submits(j) \/ NamesPrompt(j) \/ WorkerEnds(j) \/ PromptMoves(j)

\* The probe goes on, and so does the time.
CaseSpec == CaseInit /\ [][CaseNext]_caseVars /\ WF_caseVars(ProbeSteps) /\ WF_caseVars(Tick)

-----------------------------------------------------------------------------
\* Whatever TTS More does, a case that is accepted as an outcome of a prompt
\* had that outcome in ComfyUI, and nothing of the case is in its queue.
OutcomeIsTrue ==
  at = "valid" =>
    /\ case = "synthesize" => prompt["target"] = "success" /\ version.audio = "audio"
    /\ case \in {"timeout", "cancel-running"} => prompt["target"] = "interrupted"
    /\ case = "terminate-comfyui" => comfy = "down" /\ job["target"].status = "failed" /\ version.audio = "silent"

\* A queued cancellation is accepted only when the target submits no prompt,
\* then or later, however late its worker wakes up; and the blocker is out of
\* the queue.  If the worker has shown no change before its prompt or its end,
\* that holds whatever it makes of the cancellation; if it has, only because
\* it looks for a cancellation before it submits.  One that shows a change,
\* does not look and then submits is accepted wrongly.
QueuedMeansNever ==
  at = "valid" /\ case = "cancel-queued" =>
    /\ ~InQueue("blocker")
    /\ "target" \in stirred \/ worker["target"] = "over"
    /\ prompt["target"] = "none" \/ ("target" \in stirred /\ ~heeds)

\* The action was issued within the request window, and what was accepted
\* was read within one window from then, or within both windows if there is
\* none: no look and no answer extends them.
WindowsHeld ==
  at = "valid" =>
    IF saw.acted \/ case = "cancel-queued" THEN times.act < Request /\ times.seen < times.act + Converge
    ELSE times.seen < Request + Converge

\* A queued-cancel case that fails, at whatever call, has asked each job
\* whose id it learned to be cancelled: none is left to hold the admission.
NoJobLeft == at = "failed" /\ case = "cancel-queued" => saw.known \subseteq told

\* However often a job shows a change, a case that was begun comes to its
\* end: no window is extended for ever.
CaseEnds == at # "create" ~> Judged

\* A case is accepted only for what has happened, in time, and one that fails
\* leaves no job behind.
JudgedTruly == OutcomeIsTrue /\ QueuedMeansNever /\ WindowsHeld /\ NoJobLeft
=============================================================================
