----------------------------- MODULE ComfyPrompt -----------------------------
(***************************************************************************)
(* One line spoken by a ComfyUI server: ComfyUITTSClient._synthesize_impl  *)
(* (backend/app/services.py) and the HTTP client under it                  *)
(* (backend/app/comfyui/client.py), with or without GPU coordination       *)
(* (backend/app/comfyui/gpu_coordination.py).                              *)
(*                                                                         *)
(* The server runs beside the call: it starts and ends the prompt, obeys   *)
(* an interrupt or does not, and may restart and forget.  Every HTTP call  *)
(* is one step, and may fail before or after the server acted on it.  The  *)
(* clocks of the polling loops are a number of rounds.                     *)
(***************************************************************************)
EXTENDS Naturals

CONSTANT MaxRounds   \* rounds before max_wait or the cancellation deadline is over

ASSUME RoundsAssumption == MaxRounds \in Nat

VARIABLES
  coordinated,  \* the endpoint's group has a GPU coordinator
  server,       \* the prompt, at the server
  hist,         \* what the server's history says of it
  flagged,      \* the server was asked to interrupt it
  loaded,       \* the Suite's runtime holds the GPU
  asset,        \* the reference audio uploaded for it
  stop,         \* the user has cancelled the line
  pc,           \* where the call is
  rounds,       \* of the loop it is in
  knows,        \* prompt_id is set
  holds,        \* asset_id is set
  converged,    \* prompt_converged
  fault,        \* synthesis_error
  confirmed,    \* details["cleanup_confirmed"]
  audio,        \* the WAV was published
  cancel        \* the current or last cancel_prompt: why, queue state read, action taken

serverVars == <<server, hist, flagged, loaded>>
ids        == <<knows, holds>>
outcome    == <<converged, fault, confirmed, audio>>
vars == <<coordinated, serverVars, asset, stop, pc, rounds, ids, outcome, cancel>>

Results == {"success", "empty", "error"} \cup (IF coordinated THEN {"preempted", "dirty"} ELSE {})
NoCancel == [why |-> "none", saw |-> "unknown", did |-> "none"]

Init ==
  /\ coordinated \in BOOLEAN
  /\ server = "unsent"
  /\ hist = "none"
  /\ flagged = FALSE
  /\ loaded = FALSE
  /\ asset = "none"
  /\ stop = FALSE
  /\ pc = IF coordinated THEN "probe" ELSE "upload"
  /\ rounds = 0
  /\ knows = FALSE
  /\ holds = FALSE
  /\ converged = FALSE
  /\ fault = "none"
  /\ confirmed = FALSE
  /\ audio = FALSE
  /\ cancel = NoCancel

-----------------------------------------------------------------------------
(***************************************************************************)
(* The ComfyUI server.                                                     *)
(***************************************************************************)
Quiet == server \notin {"pending", "running"}

\* _queue_state of what GET /queue answers
QueueState == IF Quiet THEN "absent" ELSE server

Start ==
  /\ server = "pending"
  /\ server' = "running"
  /\ loaded' = TRUE
  /\ UNCHANGED <<coordinated, hist, flagged, asset, stop, pc, rounds, ids, outcome, cancel>>

\* A prompt leaves the queue and enters the history at once.
Finish ==
  /\ server = "running"
  /\ server' = "over"
  /\ hist' \in Results \cup (IF flagged THEN {"interrupted"} ELSE {})
  /\ UNCHANGED <<coordinated, flagged, loaded, asset, stop, pc, rounds, ids, outcome, cancel>>

\* Queue, history and models are in memory; uploaded audio is not.
Restart ==
  /\ server \in {"pending", "running", "over"}
  /\ server' = "lost"
  /\ hist' = "none"
  /\ loaded' = FALSE
  /\ UNCHANGED <<coordinated, flagged, asset, stop, pc, rounds, ids, outcome, cancel>>

UserCancels ==
  /\ ~stop
  /\ pc # "ended"
  /\ stop' = TRUE
  /\ UNCHANGED <<coordinated, serverVars, asset, pc, rounds, ids, outcome, cancel>>

ServerNext == Start \/ Finish \/ Restart

-----------------------------------------------------------------------------
(***************************************************************************)
(* Submission and polling.                                                 *)
(***************************************************************************)
\* After the try statement: the cleanup of a coordinated call.
AfterTry == IF coordinated THEN "clean" ELSE "delete"

\* The try statement ends with an exception that carries no cancellation.
Fail(why) ==
  /\ fault' = why
  /\ converged' = (converged /\ why = "failed")
  /\ pc' = AfterTry
  /\ UNCHANGED <<confirmed, audio>>

\* cancel_prompt is called
CallCancel(why) ==
  /\ cancel' = [NoCancel EXCEPT !.why = why]
  /\ rounds' = 0
  /\ pc' = "cancel"

\* The capabilities and admission_probe; nothing was sent yet, nothing is cleaned up.
Probe ==
  /\ pc = "probe"
  /\ \/ pc' = "upload" /\ UNCHANGED <<fault, confirmed>>
     \/ pc' = "ended" /\ fault' = "preempted" /\ confirmed' = TRUE
     \/ pc' = "ended" /\ fault' = "coordination" /\ UNCHANGED confirmed
  /\ UNCHANGED <<coordinated, serverVars, asset, stop, rounds, ids, converged, audio, cancel>>

\* upload_audio, for the engines that take a reference
Upload ==
  /\ pc = "upload"
  /\ \/ pc' = "submit" /\ UNCHANGED <<asset, holds, outcome>>
     \/ pc' = "submit" /\ asset' = "there" /\ holds' = TRUE /\ UNCHANGED outcome
     \/ Fail("failed") /\ asset' \in {"none", "there"} /\ UNCHANGED holds
  /\ UNCHANGED <<coordinated, serverVars, stop, rounds, knows, cancel>>

\* submit_workflow; the reply that names the prompt may be lost
Submit ==
  /\ pc = "submit"
  /\ \/ pc' = "poll" /\ server' = "pending" /\ knows' = TRUE /\ UNCHANGED outcome
     \/ Fail("failed") /\ server' \in {server, "pending"} /\ UNCHANGED knows
  /\ UNCHANGED <<coordinated, hist, flagged, loaded, asset, stop, rounds, holds, cancel>>

InTime == rounds < MaxRounds

\* Mutant: a round in which the history could not be read does not count.
UncountedRounds(read) == IF read THEN rounds + 1 ELSE rounds

RoundsAfter(read) == rounds + 1

\* The head of poll_until_done's loop: the deadline, the user's wish.
PollAgain ==
  /\ pc = "poll"
  /\ \/ CallCancel("timeout")
     \/ stop /\ CallCancel("cancelled")
     \/ ~stop /\ InTime /\ pc' = "read" /\ UNCHANGED <<rounds, cancel>>
  /\ UNCHANGED <<coordinated, serverVars, asset, stop, ids, outcome>>

\* Without an answer, or with nothing in it, the loop goes on.
Continue(read) ==
  /\ pc' = IF coordinated THEN "look" ELSE "poll"
  /\ rounds' = RoundsAfter(read)
  /\ UNCHANGED <<outcome, cancel>>

\* What poll_until_done does about a history entry
PollRead ==
  /\ pc = "read"
  /\ \/ hist = "none" /\ Continue(TRUE)
     \/ Continue(FALSE)
     \/ hist = "success" /\ pc' = "fetch" /\ converged' = TRUE
          /\ UNCHANGED <<rounds, fault, confirmed, audio, cancel>>
     \/ hist \in {"empty", "error", "interrupted"} /\ Fail("failed") /\ UNCHANGED <<rounds, cancel>>
     \/ hist = "preempted" /\ Fail("preempted") /\ UNCHANGED <<rounds, cancel>>
     \/ hist = "dirty" /\ Fail("coordination") /\ UNCHANGED <<rounds, cancel>>
     \/ Fail("failed") /\ UNCHANGED <<rounds, cancel>>   \* an HTTP error status
  /\ UNCHANGED <<coordinated, serverVars, asset, stop, ids>>

\* preempt_check: native_priority_pending
Look ==
  /\ pc = "look"
  /\ \/ pc' = "poll" /\ UNCHANGED <<rounds, outcome, cancel>>
     \/ CallCancel("preempted") /\ UNCHANGED outcome
     \/ Fail("coordination") /\ UNCHANGED <<rounds, cancel>>
  /\ UNCHANGED <<coordinated, serverVars, asset, stop, ids>>

\* download_output and publish_wav_atomic
Fetch ==
  /\ pc = "fetch"
  /\ \/ audio' = TRUE /\ pc' = AfterTry /\ UNCHANGED <<converged, fault, confirmed>>
     \/ Fail("failed")
  /\ UNCHANGED <<coordinated, serverVars, asset, stop, rounds, ids, cancel>>

-----------------------------------------------------------------------------
(***************************************************************************)
(* cancel_prompt, and what its callers make of its result.                 *)
(***************************************************************************)
\* _history_state
HistoryState == CASE hist \in {"success", "empty"} -> "completed"
                  [] hist \in {"error", "preempted", "dirty"} -> "error"
                  [] hist = "interrupted" -> "interrupted"
                  [] hist = "none" -> "none"

\* prompt_converged after the cleanup's own cancellation
CleanupConverged(final, conv) == conv \/ final \in {"completed", "error", "interrupted"}

CancelReturns(final, conv) ==
  /\ IF cancel.why = "clean"
     THEN pc' = "confirm" /\ converged' = CleanupConverged(final, conv) /\ UNCHANGED fault
     ELSE pc' = AfterTry /\ converged' = conv /\ fault' = cancel.why
  /\ UNCHANGED <<rounds, cancel, confirmed, audio>>

\* An exception in cancel_prompt, or its deadline
CancelFails ==
  /\ pc \in {"cancel", "cancelHistory", "act", "watch", "watchHistory"}
  /\ \E final \in {"error", cancel.saw} : CancelReturns(final, FALSE)
  /\ UNCHANGED <<coordinated, serverVars, asset, stop, ids>>

CancelLook ==
  /\ pc = "cancel"
  /\ cancel' = [cancel EXCEPT !.saw = QueueState]
  /\ pc' = IF QueueState = "absent" THEN "cancelHistory" ELSE "act"
  /\ UNCHANGED <<coordinated, serverVars, asset, stop, rounds, ids, outcome>>

CancelHistory ==
  /\ pc = "cancelHistory"
  /\ CancelReturns(IF HistoryState = "none" THEN "absent" ELSE HistoryState, TRUE)
  /\ UNCHANGED <<coordinated, serverVars, asset, stop, ids>>

\* The server, asked to interrupt or to dequeue the prompt
Interrupted == flagged' = (flagged \/ server = "running") /\ UNCHANGED server
Dequeued    == server' = (IF server = "pending" THEN "over" ELSE server) /\ UNCHANGED flagged

\* The request arrives; when its reply does not, cancel_prompt fails.
Act ==
  /\ pc = "act"
  /\ IF cancel.saw = "running" THEN Interrupted ELSE Dequeued
  /\ \/ /\ pc' = "watch"
        /\ cancel' = [cancel EXCEPT !.did = IF cancel.saw = "running" THEN "interrupt" ELSE "delete"]
        /\ UNCHANGED <<rounds, outcome>>
     \/ \E final \in {"error", cancel.saw} : CancelReturns(final, FALSE)
  /\ UNCHANGED <<coordinated, hist, loaded, asset, stop, ids>>

Watch ==
  /\ pc = "watch"
  /\ InTime
  /\ cancel' = [cancel EXCEPT !.saw = QueueState]
  /\ pc' = "watchHistory"
  /\ UNCHANGED <<coordinated, serverVars, asset, stop, rounds, ids, outcome>>

\* Mutant: a request that was accepted is as good as done.
GoneOrAsked(saw) == saw = "absent" \/ cancel.did = "delete"

Gone(saw) == saw = "absent"

WatchHistory ==
  /\ pc = "watchHistory"
  /\ \/ HistoryState = "error" /\ CancelReturns("error", FALSE)
     \/ HistoryState # "error" /\ Gone(cancel.saw) /\ HistoryState = "completed"
          /\ CancelReturns("completed", FALSE)
     \/ HistoryState \in {"none", "interrupted"} /\ Gone(cancel.saw)
          /\ CancelReturns(IF cancel.did = "interrupt" THEN "interrupted" ELSE "dequeued", TRUE)
     \/ HistoryState # "error" /\ ~Gone(cancel.saw)
          /\ pc' = "watch" /\ rounds' = rounds + 1 /\ UNCHANGED <<outcome, cancel>>
  /\ UNCHANGED <<coordinated, serverVars, asset, stop, ids>>

-----------------------------------------------------------------------------
(***************************************************************************)
(* The cleanup of a coordinated call, the asset, and the end.              *)
(***************************************************************************)
\* An exception in the cleanup.
Dirty == fault' = "coordination" /\ pc' = "delete" /\ UNCHANGED <<confirmed, audio>>

Clean ==
  /\ pc = "clean"
  /\ \/ ~knows /\ pc' = "release" /\ UNCHANGED <<rounds, outcome, cancel>>
     \/ knows /\ Dirty /\ UNCHANGED <<rounds, converged, cancel>>
     \/ knows /\ converged /\ Quiet /\ pc' = "release" /\ UNCHANGED <<rounds, outcome, cancel>>
     \/ knows /\ ~(converged /\ Quiet) /\ CallCancel("clean") /\ UNCHANGED outcome
  /\ UNCHANGED <<coordinated, serverVars, asset, stop, ids>>

\* Mutant: the queue is not read a second time.
BelievesCancel(conv) == conv

ConfirmedBy(conv) == conv /\ QueueState = "absent"

\* The queue is read once more.
Confirm ==
  /\ pc = "confirm"
  /\ \/ Dirty /\ UNCHANGED converged
     \/ /\ converged' = ConfirmedBy(converged)
        /\ IF converged' THEN pc' = "release" /\ UNCHANGED <<fault, confirmed, audio>> ELSE Dirty
  /\ UNCHANGED <<coordinated, serverVars, asset, stop, rounds, ids, cancel>>

Release ==
  /\ pc = "release"
  /\ \/ /\ server # "running"   \* neither busy nor errors
        /\ loaded' = FALSE
        /\ pc' = "delete"
        /\ confirmed' = (fault = "preempted")
        /\ UNCHANGED <<fault, audio>>
     \/ Dirty /\ loaded' \in {loaded, loaded /\ server = "running"}
  /\ UNCHANGED <<coordinated, server, hist, flagged, asset, stop, rounds, ids, converged, cancel>>

\* cleanup_error
AssetError == IF coordinated THEN "coordination" ELSE IF fault = "none" THEN "failed" ELSE fault

\* delete_audio, once the prompt has converged, and the end of the call
Delete ==
  /\ pc = "delete"
  /\ \/ /\ holds /\ converged
        /\ \/ asset' = "deleted" /\ UNCHANGED fault
           \/ asset' \in {asset, "deleted"} /\ fault' = AssetError
     \/ ~(holds /\ converged) /\ UNCHANGED <<asset, fault>>
  /\ pc' = "ended"
  /\ UNCHANGED <<coordinated, serverVars, stop, rounds, ids, converged, confirmed, audio, cancel>>

CallNext == \/ Probe \/ Upload \/ Submit \/ PollAgain \/ PollRead \/ Look \/ Fetch
            \/ CancelFails \/ CancelLook \/ CancelHistory \/ Act \/ Watch \/ WatchHistory
            \/ Clean \/ Confirm \/ Release \/ Delete

Next == ServerNext \/ UserCancels \/ CallNext

Spec == Init /\ [][Next]_vars

\* The thread of the call runs on; the server owes nothing.
FairSpec == Spec /\ WF_vars(CallNext)

-----------------------------------------------------------------------------
(***************************************************************************)
(* Properties.                                                             *)
(***************************************************************************)
TypeOK ==
  /\ coordinated \in BOOLEAN
  /\ server \in {"unsent", "pending", "running", "over", "lost"}
  /\ hist \in {"none", "interrupted"} \cup Results
  /\ {flagged, loaded, stop, knows, holds, converged, confirmed, audio} \subseteq BOOLEAN
  /\ asset \in {"none", "there", "deleted"}
  /\ pc \in {"probe", "upload", "submit", "poll", "read", "look", "fetch", "cancel", "cancelHistory",
             "act", "watch", "watchHistory", "clean", "confirm", "release", "delete", "ended"}
  /\ rounds \in 0..MaxRounds
  /\ fault \in {"none", "failed", "cancelled", "preempted", "timeout", "coordination"}
  /\ cancel \in [why : {"none", "cancelled", "timeout", "preempted", "clean"},
                 saw : {"unknown", "absent", "pending", "running"},
                 did : {"none", "interrupt", "delete"}]

\* A coordinated call that knows its prompt and does not stop its group leaves
\* no prompt and no model on the GPU; nor does one that may be retried because
\* its cleanup was confirmed.  The cleanup reads the queue, cancels, reads it
\* again and releases the runtime while the server starts and ends the prompt.
CleanMeansQuiet ==
  (pc = "ended" /\ coordinated /\ knows /\ fault # "coordination") \/ confirmed => Quiet /\ ~loaded

\* A line is reported as cancelled only when its prompt cannot speak it any more.
CancelledMeansStopped == pc = "ended" /\ fault = "cancelled" /\ converged => Quiet

\* Reference audio is deleted only once no prompt can need it, unless the call
\* stops its group.
AssetOutlivesPrompt == asset = "deleted" /\ fault # "coordination" => Quiet

\* A call that succeeds has published its audio, its prompt is over, and with a
\* coordinator the GPU is free.
ResultIsWhole == pc = "ended" /\ fault = "none" => audio /\ Quiet /\ (coordinated => ~loaded)

\* The call ends, whatever the server does and whichever request fails.
CallEnds == <>(pc = "ended")

\* What a call reports of its prompt, its reference asset and its audio is true.
PromptToldTruly ==
  /\ TypeOK
  /\ CancelledMeansStopped
  /\ AssetOutlivesPrompt
  /\ ResultIsWhole
=============================================================================
