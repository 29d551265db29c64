-------------------------- MODULE ComfyPromptProofs --------------------------
(***************************************************************************)
(* What three parts that must end in time leave behind, for every value of *)
(* their constants: a line spoken by ComfyUI, however many rounds its      *)
(* loops take; a reliability case, whatever its windows; a connection of   *)
(* the control transport, however many there are.                          *)
(***************************************************************************)
EXTENDS ComfyPrompt, CaseProbe, ControlServer, FiniteSetTheorems, TLAPS

-----------------------------------------------------------------------------
(* A line spoken by ComfyUI.                                                *)

Early    == {"probe", "upload", "submit"}
InCancel == {"cancel", "cancelHistory", "act", "watch", "watchHistory"}
\* The call knows its prompt: it polls for it, fetches its audio or cancels it.
Polling  == {"poll", "read", "look", "fetch"} \cup InCancel \cup {"confirm"}
\* The try statement is over.
Late == pc \in {"clean", "confirm", "release", "delete", "ended"}
        \/ (pc \in InCancel /\ cancel.why = "clean")

\* Before the submission nothing has happened.
EarlyKept ==
  pc \in Early =>
    /\ server = "unsent" /\ hist = "none" /\ ~loaded /\ ~confirmed /\ ~converged /\ ~knows
    /\ cancel = NoCancel /\ fault = "none" /\ ~audio /\ asset # "deleted"

\* Where the call is, and what it then knows.
PlaceInv ==
  /\ pc \in Polling => knows
  /\ pc \in {"probe", "look", "clean", "confirm", "release"} => coordinated
  /\ pc \in InCancel => cancel.why # "none"
  /\ pc = "confirm" => cancel.why = "clean"
  /\ pc \in InCancel /\ cancel.why = "clean" => coordinated
  /\ pc \in {"poll", "read", "look"} => ~converged /\ fault = "none"
  /\ pc = "cancelHistory" => cancel.saw = "absent"
  /\ pc \in {"read", "watchHistory"} => rounds < MaxRounds
  /\ fault = "preempted" => knows \/ pc = "ended"
  /\ pc # "ended" => asset # "deleted"

\* What the call was told of its prompt is true: a history entry, an absent
\* prompt, and a prompt that is taken to have converged.
ServerKept ==
  /\ hist # "none" => server = "over"
  /\ cancel.saw = "absent" => Quiet
  /\ pc = "fetch" => Quiet
  /\ converged /\ pc # "confirm" /\ fault # "coordination" => Quiet
  /\ pc = "release" /\ knows => Quiet
  /\ fault = "none" /\ Late => audio /\ Quiet

\* What is left once the runtime was released.
ReleaseKept ==
  /\ pc \in {"delete", "ended"} /\ coordinated /\ knows /\ fault # "coordination" => Quiet /\ ~loaded
  /\ pc \in {"delete", "ended"} /\ coordinated /\ fault = "none" => Quiet /\ ~loaded
  /\ confirmed => Quiet /\ ~loaded /\ pc \in {"delete", "ended"}
  /\ asset = "deleted" /\ fault # "coordination" => Quiet

PromptInv == TypeOK /\ EarlyKept /\ PlaceInv /\ ServerKept /\ ReleaseKept

\* Types, apart from the flags.
FlagsOK == {flagged, loaded, stop, knows, holds, converged, confirmed, audio} \subseteq BOOLEAN

WorldOK ==
  /\ coordinated \in BOOLEAN
  /\ server \in {"unsent", "pending", "running", "over", "lost"}
  /\ hist \in {"none", "interrupted"} \cup Results
  /\ asset \in {"none", "there", "deleted"}

CallOK ==
  /\ pc \in {"probe", "upload", "submit", "poll", "read", "look", "fetch", "cancel", "cancelHistory",
             "act", "watch", "watchHistory", "clean", "confirm", "release", "delete", "ended"}
  /\ rounds \in 0..MaxRounds
  /\ fault \in {"none", "failed", "cancelled", "preempted", "timeout", "coordination"}
  /\ cancel \in [why : {"none", "cancelled", "timeout", "preempted", "clean"},
                 saw : {"unknown", "absent", "pending", "running"},
                 did : {"none", "interrupt", "delete"}]

\* The type invariant, part by part.
LEMMA TypeParts == TypeOK <=> FlagsOK /\ WorldOK /\ CallOK
BY DEF TypeOK, FlagsOK, WorldOK, CallOK

\* The same, of the next state.
LEMMA TypePartsNext ==
  ASSUME FlagsOK', WorldOK', CallOK'
  PROVE  TypeOK'
BY DEF TypeOK, FlagsOK, WorldOK, CallOK

\* Flags stay flags.
LEMMA FlagsStep ==
  ASSUME FlagsOK, Next
  PROVE  FlagsOK'
<1>1. /\ flagged \in BOOLEAN /\ loaded \in BOOLEAN /\ stop \in BOOLEAN /\ knows \in BOOLEAN
      /\ holds \in BOOLEAN /\ converged \in BOOLEAN /\ confirmed \in BOOLEAN /\ audio \in BOOLEAN
  BY Zenon DEF FlagsOK
<1> DEFINE After == /\ flagged' \in BOOLEAN /\ loaded' \in BOOLEAN /\ stop' \in BOOLEAN /\ knows' \in BOOLEAN
                    /\ holds' \in BOOLEAN /\ converged' \in BOOLEAN /\ confirmed' \in BOOLEAN
                    /\ audio' \in BOOLEAN
<1> SUFFICES After
  BY Zenon DEF FlagsOK
<1>2. CASE Start
  BY <1>1, <1>2, Zenon DEF Start, serverVars, ids, outcome
<1>3. CASE Finish
  BY <1>1, <1>3, Zenon DEF Finish, serverVars, ids, outcome
<1>4. CASE Restart
  BY <1>1, <1>4, Zenon DEF Restart, serverVars, ids, outcome
<1>5. CASE UserCancels
  BY <1>1, <1>5, Zenon DEF UserCancels, serverVars, ids, outcome
<1>6. CASE Probe
  BY <1>1, <1>6, Zenon DEF Probe, serverVars, ids, outcome
<1>7. CASE Upload
  BY <1>1, <1>7, Zenon DEF Upload, Fail, serverVars, ids, outcome
<1>8. CASE Submit
  BY <1>1, <1>8, Zenon DEF Submit, Fail, serverVars, ids, outcome
<1>9. CASE PollAgain
  BY <1>1, <1>9, Zenon DEF PollAgain, CallCancel, serverVars, ids, outcome
<1>10. CASE PollRead
  BY <1>1, <1>10, Zenon DEF PollRead, Continue, Fail, serverVars, ids, outcome
<1>11. CASE Look
  BY <1>1, <1>11, Zenon DEF Look, CallCancel, Fail, serverVars, ids, outcome
<1>12. CASE Fetch
  BY <1>1, <1>12, Zenon DEF Fetch, Fail, serverVars, ids, outcome
<1>13. CASE CancelFails
  BY <1>1, <1>13, Zenon DEF CancelFails, CancelReturns, CleanupConverged, serverVars, ids, outcome
<1>14. CASE CancelLook
  BY <1>1, <1>14, Zenon DEF CancelLook, serverVars, ids, outcome
<1>15. CASE CancelHistory
  BY <1>1, <1>15, Zenon DEF CancelHistory, CancelReturns, CleanupConverged, serverVars, ids, outcome
<1>16. CASE Act
  BY <1>1, <1>16, Zenon DEF Act, Interrupted, Dequeued, CancelReturns, CleanupConverged, serverVars, ids,
     outcome
<1>17. CASE Watch
  BY <1>1, <1>17, Zenon DEF Watch, serverVars, ids, outcome
<1>18. CASE WatchHistory
  BY <1>1, <1>18, Zenon DEF WatchHistory, CancelReturns, CleanupConverged, serverVars, ids, outcome
<1>19. CASE Clean
  BY <1>1, <1>19, Zenon DEF Clean, Dirty, CallCancel, serverVars, ids, outcome
<1>20. CASE Confirm
  BY <1>1, <1>20, Zenon DEF Confirm, Dirty, ConfirmedBy, serverVars, ids, outcome
<1>21. CASE Release
  BY <1>1, <1>21, Zenon DEF Release, Dirty, serverVars, ids, outcome
<1>22. CASE Delete
  BY <1>1, <1>22, Zenon DEF Delete, serverVars, ids, outcome
<1> QED
  BY <1>2, <1>3, <1>4, <1>5, <1>6, <1>7, <1>8, <1>9, <1>10, <1>11, <1>12, <1>13, <1>14, <1>15, <1>16, <1>17,
     <1>18, <1>19, <1>20, <1>21, <1>22, Zenon DEF Next, ServerNext, CallNext

\* Each step of the server and of the call keeps what the call was told.
LEMMA PromptStep ==
  ASSUME PromptInv, Next
  PROVE  PromptInv'
<1>f. FlagsOK'
  BY TypeParts, FlagsStep DEF PromptInv
<1>0. FlagsOK /\ WorldOK /\ CallOK /\ EarlyKept /\ PlaceInv /\ ServerKept /\ ReleaseKept
  BY TypeParts DEF PromptInv
<1> USE RoundsAssumption DEF serverVars, ids, outcome, Quiet, Early, InCancel, Polling, Late, Results
<1>1. CASE Start
  <2> USE <1>0, <1>1 DEF Start
  <2>1. WorldOK'
    BY DEF WorldOK, EarlyKept, PlaceInv
  <2>2. CallOK'
    BY DEF CallOK, EarlyKept, PlaceInv
  <2>3. EarlyKept'
    BY DEF WorldOK, CallOK, EarlyKept
  <2>4. PlaceInv'
    BY DEF WorldOK, CallOK, EarlyKept, PlaceInv
  <2>5. ServerKept'
    BY DEF WorldOK, CallOK, EarlyKept, PlaceInv, ServerKept
  <2>6. ReleaseKept'
    BY DEF WorldOK, CallOK, EarlyKept, PlaceInv, ServerKept, ReleaseKept
  <2> QED BY ONLY <1>f, <2>1, <2>2, <2>3, <2>4, <2>5, <2>6, TypePartsNext, Zenon DEF PromptInv
<1>2. CASE Finish
  <2> USE <1>0, <1>2 DEF Finish
  <2>1. WorldOK'
    BY DEF WorldOK, EarlyKept, PlaceInv
  <2>2. CallOK'
    BY DEF CallOK, EarlyKept, PlaceInv
  <2>3. EarlyKept'
    BY DEF WorldOK, CallOK, EarlyKept
  <2>4. PlaceInv'
    BY DEF WorldOK, CallOK, EarlyKept, PlaceInv
  <2>5. ServerKept'
    BY DEF WorldOK, CallOK, EarlyKept, PlaceInv, ServerKept
  <2>6. ReleaseKept'
    BY DEF WorldOK, CallOK, EarlyKept, PlaceInv, ServerKept, ReleaseKept
  <2> QED BY ONLY <1>f, <2>1, <2>2, <2>3, <2>4, <2>5, <2>6, TypePartsNext, Zenon DEF PromptInv
<1>3. CASE Restart
  <2> USE <1>0, <1>3 DEF Restart
  <2>1. WorldOK'
    BY DEF WorldOK, EarlyKept, PlaceInv
  <2>2. CallOK'
    BY DEF CallOK, EarlyKept, PlaceInv
  <2>3. EarlyKept'
    BY DEF WorldOK, CallOK, EarlyKept
  <2>4. PlaceInv'
    BY DEF WorldOK, CallOK, EarlyKept, PlaceInv
  <2>5. ServerKept'
    BY DEF WorldOK, CallOK, EarlyKept, PlaceInv, ServerKept
  <2>6. ReleaseKept'
    BY DEF WorldOK, CallOK, EarlyKept, PlaceInv, ServerKept, ReleaseKept
  <2> QED BY ONLY <1>f, <2>1, <2>2, <2>3, <2>4, <2>5, <2>6, TypePartsNext, Zenon DEF PromptInv
<1>4. CASE UserCancels
  <2> USE <1>0, <1>4 DEF UserCancels
  <2>1. WorldOK'
    BY DEF WorldOK, EarlyKept, PlaceInv
  <2>2. CallOK'
    BY DEF CallOK, EarlyKept, PlaceInv
  <2>3. EarlyKept'
    BY DEF WorldOK, CallOK, EarlyKept
  <2>4. PlaceInv'
    BY DEF WorldOK, CallOK, EarlyKept, PlaceInv
  <2>5. ServerKept'
    BY DEF WorldOK, CallOK, EarlyKept, PlaceInv, ServerKept
  <2>6. ReleaseKept'
    BY DEF WorldOK, CallOK, EarlyKept, PlaceInv, ServerKept, ReleaseKept
  <2> QED BY ONLY <1>f, <2>1, <2>2, <2>3, <2>4, <2>5, <2>6, TypePartsNext, Zenon DEF PromptInv
<1>5. CASE Probe
  <2> USE <1>0, <1>5 DEF Probe
  <2>1. WorldOK'
    BY DEF WorldOK, EarlyKept, PlaceInv
  <2>2. CallOK'
    BY DEF CallOK, EarlyKept, PlaceInv
  <2>3. EarlyKept'
    BY DEF WorldOK, CallOK, EarlyKept
  <2>4. PlaceInv'
    BY DEF WorldOK, CallOK, EarlyKept, PlaceInv
  <2>5. ServerKept'
    BY DEF WorldOK, CallOK, EarlyKept, PlaceInv, ServerKept
  <2>6. ReleaseKept'
    BY DEF WorldOK, CallOK, EarlyKept, PlaceInv, ServerKept, ReleaseKept
  <2> QED BY ONLY <1>f, <2>1, <2>2, <2>3, <2>4, <2>5, <2>6, TypePartsNext, Zenon DEF PromptInv
<1>6. CASE Upload
  <2> USE <1>0, <1>6 DEF Upload, Fail, AfterTry
  <2>1. WorldOK'
    BY DEF WorldOK, EarlyKept, PlaceInv
  <2>2. CallOK'
    BY DEF CallOK, EarlyKept, PlaceInv
  <2>3. EarlyKept'
    BY DEF WorldOK, CallOK, EarlyKept
  <2>4. PlaceInv'
    BY DEF WorldOK, CallOK, EarlyKept, PlaceInv
  <2>5. ServerKept'
    BY DEF WorldOK, CallOK, EarlyKept, PlaceInv, ServerKept
  <2>6. ReleaseKept'
    BY DEF WorldOK, CallOK, EarlyKept, PlaceInv, ServerKept, ReleaseKept
  <2> QED BY ONLY <1>f, <2>1, <2>2, <2>3, <2>4, <2>5, <2>6, TypePartsNext, Zenon DEF PromptInv
<1>7. CASE Submit
  <2> USE <1>0, <1>7 DEF Submit, Fail, AfterTry
  <2>1. WorldOK'
    BY DEF WorldOK, EarlyKept, PlaceInv
  <2>2. CallOK'
    BY DEF CallOK, EarlyKept, PlaceInv
  <2>3. EarlyKept'
    BY DEF WorldOK, CallOK, EarlyKept
  <2>4. PlaceInv'
    BY DEF WorldOK, CallOK, EarlyKept, PlaceInv
  <2>5. ServerKept'
    BY DEF FlagsOK, NoCancel, WorldOK, CallOK, EarlyKept, PlaceInv, ServerKept
  <2>6. ReleaseKept'
    BY DEF WorldOK, CallOK, EarlyKept, PlaceInv, ServerKept, ReleaseKept
  <2> QED BY ONLY <1>f, <2>1, <2>2, <2>3, <2>4, <2>5, <2>6, TypePartsNext, Zenon DEF PromptInv
<1>8. CASE PollAgain
  <2> USE <1>0, <1>8 DEF PollAgain, CallCancel, InTime, NoCancel
  <2>1. WorldOK'
    BY DEF WorldOK, EarlyKept, PlaceInv
  <2>2. CallOK'
    BY DEF CallOK, EarlyKept, PlaceInv
  <2>3. EarlyKept'
    BY DEF WorldOK, CallOK, EarlyKept
  <2>4. PlaceInv'
    BY DEF WorldOK, CallOK, EarlyKept, PlaceInv
  <2>5. ServerKept'
    BY DEF WorldOK, CallOK, EarlyKept, PlaceInv, ServerKept
  <2>6. ReleaseKept'
    BY DEF WorldOK, CallOK, EarlyKept, PlaceInv, ServerKept, ReleaseKept
  <2> QED BY ONLY <1>f, <2>1, <2>2, <2>3, <2>4, <2>5, <2>6, TypePartsNext, Zenon DEF PromptInv
<1>9. CASE PollRead
  <2> USE <1>0, <1>9 DEF PollRead, Continue, RoundsAfter, Fail, AfterTry
  <2>1. WorldOK'
    BY DEF WorldOK, EarlyKept, PlaceInv
  <2>2. CallOK'
    BY DEF CallOK, EarlyKept, PlaceInv
  <2>3. EarlyKept'
    BY DEF WorldOK, CallOK, EarlyKept
  <2>4. PlaceInv'
    BY DEF WorldOK, CallOK, EarlyKept, PlaceInv
  <2>5. ServerKept'
    BY DEF FlagsOK, WorldOK, CallOK, EarlyKept, PlaceInv, ServerKept
  <2>6. ReleaseKept'
    BY DEF WorldOK, CallOK, EarlyKept, PlaceInv, ServerKept, ReleaseKept
  <2> QED BY ONLY <1>f, <2>1, <2>2, <2>3, <2>4, <2>5, <2>6, TypePartsNext, Zenon DEF PromptInv
<1>10. CASE Look
  <2> USE <1>0, <1>10 DEF Look, CallCancel, NoCancel, Fail, AfterTry
  <2>1. WorldOK'
    BY DEF WorldOK, EarlyKept, PlaceInv
  <2>2. CallOK'
    BY DEF CallOK, EarlyKept, PlaceInv
  <2>3. EarlyKept'
    BY DEF WorldOK, CallOK, EarlyKept
  <2>4. PlaceInv'
    BY DEF WorldOK, CallOK, EarlyKept, PlaceInv
  <2>5. ServerKept'
    BY DEF WorldOK, CallOK, EarlyKept, PlaceInv, ServerKept
  <2>6. ReleaseKept'
    BY DEF WorldOK, CallOK, EarlyKept, PlaceInv, ServerKept, ReleaseKept
  <2> QED BY ONLY <1>f, <2>1, <2>2, <2>3, <2>4, <2>5, <2>6, TypePartsNext, Zenon DEF PromptInv
<1>11. CASE Fetch
  <2> USE <1>0, <1>11 DEF Fetch, Fail, AfterTry
  <2>1. WorldOK'
    BY DEF WorldOK, EarlyKept, PlaceInv
  <2>2. CallOK'
    BY DEF CallOK, EarlyKept, PlaceInv
  <2>3. EarlyKept'
    BY DEF WorldOK, CallOK, EarlyKept
  <2>4. PlaceInv'
    BY DEF WorldOK, CallOK, EarlyKept, PlaceInv
  <2>5. ServerKept'
    BY DEF WorldOK, CallOK, EarlyKept, PlaceInv, ServerKept
  <2>6. ReleaseKept'
    BY DEF WorldOK, CallOK, EarlyKept, PlaceInv, ServerKept, ReleaseKept
  <2> QED BY ONLY <1>f, <2>1, <2>2, <2>3, <2>4, <2>5, <2>6, TypePartsNext, Zenon DEF PromptInv
<1>12. CASE CancelFails
  <2> USE <1>0, <1>12 DEF CancelFails, CancelReturns, CleanupConverged, AfterTry
  <2>1. WorldOK'
    BY DEF WorldOK, EarlyKept, PlaceInv
  <2>2. CallOK'
    BY DEF CallOK, EarlyKept, PlaceInv
  <2>3. EarlyKept'
    BY DEF WorldOK, CallOK, EarlyKept
  <2>4. PlaceInv'
    BY DEF WorldOK, CallOK, EarlyKept, PlaceInv
  <2>5. ServerKept'
    BY DEF WorldOK, CallOK, EarlyKept, PlaceInv, ServerKept
  <2>6. ReleaseKept'
    BY DEF WorldOK, CallOK, EarlyKept, PlaceInv, ServerKept, ReleaseKept
  <2> QED BY ONLY <1>f, <2>1, <2>2, <2>3, <2>4, <2>5, <2>6, TypePartsNext, Zenon DEF PromptInv
<1>13. CASE CancelLook
  <2> USE <1>0, <1>13 DEF CancelLook, QueueState
  <2>1. WorldOK'
    BY DEF WorldOK, EarlyKept, PlaceInv
  <2>2. CallOK'
    BY DEF CallOK, EarlyKept, PlaceInv
  <2>3. EarlyKept'
    BY DEF WorldOK, CallOK, EarlyKept
  <2>4. PlaceInv'
    BY DEF WorldOK, CallOK, EarlyKept, PlaceInv
  <2>5. ServerKept'
    BY DEF WorldOK, CallOK, EarlyKept, PlaceInv, ServerKept
  <2>6. ReleaseKept'
    BY DEF WorldOK, CallOK, EarlyKept, PlaceInv, ServerKept, ReleaseKept
  <2> QED BY ONLY <1>f, <2>1, <2>2, <2>3, <2>4, <2>5, <2>6, TypePartsNext, Zenon DEF PromptInv
<1>14. CASE CancelHistory
  <2> USE <1>0, <1>14 DEF CancelHistory, CancelReturns, CleanupConverged, AfterTry, HistoryState
  <2>1. WorldOK'
    BY DEF WorldOK, EarlyKept, PlaceInv
  <2>2. CallOK'
    BY DEF CallOK, EarlyKept, PlaceInv
  <2>3. EarlyKept'
    BY DEF WorldOK, CallOK, EarlyKept
  <2>4. PlaceInv'
    BY DEF WorldOK, CallOK, EarlyKept, PlaceInv
  <2>5. ServerKept'
    BY DEF WorldOK, CallOK, EarlyKept, PlaceInv, ServerKept
  <2>6. ReleaseKept'
    BY DEF WorldOK, CallOK, EarlyKept, PlaceInv, ServerKept, ReleaseKept
  <2> QED BY ONLY <1>f, <2>1, <2>2, <2>3, <2>4, <2>5, <2>6, TypePartsNext, Zenon DEF PromptInv
<1>15. CASE Act
  <2> USE <1>0, <1>15 DEF Act, Interrupted, Dequeued, CancelReturns, CleanupConverged, AfterTry
  <2>1. WorldOK'
    BY DEF WorldOK, EarlyKept, PlaceInv
  <2>2. CallOK'
    BY DEF CallOK, EarlyKept, PlaceInv
  <2>3. EarlyKept'
    BY DEF WorldOK, CallOK, EarlyKept
  <2>4. PlaceInv'
    BY DEF WorldOK, CallOK, EarlyKept, PlaceInv
  <2>5. ServerKept'
    BY DEF WorldOK, CallOK, EarlyKept, PlaceInv, ServerKept
  <2>6. ReleaseKept'
    BY DEF WorldOK, CallOK, EarlyKept, PlaceInv, ServerKept, ReleaseKept
  <2> QED BY ONLY <1>f, <2>1, <2>2, <2>3, <2>4, <2>5, <2>6, TypePartsNext, Zenon DEF PromptInv
<1>16. CASE Watch
  <2> USE <1>0, <1>16 DEF Watch, InTime, QueueState
  <2>1. WorldOK'
    BY DEF WorldOK, EarlyKept, PlaceInv
  <2>2. CallOK'
    BY DEF CallOK, EarlyKept, PlaceInv
  <2>3. EarlyKept'
    BY DEF WorldOK, CallOK, EarlyKept
  <2>4. PlaceInv'
    BY DEF WorldOK, CallOK, EarlyKept, PlaceInv
  <2>5. ServerKept'
    BY DEF WorldOK, CallOK, EarlyKept, PlaceInv, ServerKept
  <2>6. ReleaseKept'
    BY DEF WorldOK, CallOK, EarlyKept, PlaceInv, ServerKept, ReleaseKept
  <2> QED BY ONLY <1>f, <2>1, <2>2, <2>3, <2>4, <2>5, <2>6, TypePartsNext, Zenon DEF PromptInv
<1>17. CASE WatchHistory
  <2> USE <1>0, <1>17 DEF WatchHistory, CancelReturns, CleanupConverged, AfterTry, HistoryState, Gone
  <2>1. WorldOK'
    BY DEF WorldOK, EarlyKept, PlaceInv
  <2>2. CallOK'
    BY DEF CallOK, EarlyKept, PlaceInv
  <2>3. EarlyKept'
    BY DEF WorldOK, CallOK, EarlyKept
  <2>4. PlaceInv'
    BY DEF WorldOK, CallOK, EarlyKept, PlaceInv
  <2>5. ServerKept'
    BY DEF WorldOK, CallOK, EarlyKept, PlaceInv, ServerKept
  <2>6. ReleaseKept'
    BY DEF WorldOK, CallOK, EarlyKept, PlaceInv, ServerKept, ReleaseKept
  <2> QED BY ONLY <1>f, <2>1, <2>2, <2>3, <2>4, <2>5, <2>6, TypePartsNext, Zenon DEF PromptInv
<1>18. CASE Clean
  <2> USE <1>0, <1>18 DEF Clean, Dirty, CallCancel, NoCancel
  <2>1. WorldOK'
    BY DEF WorldOK, EarlyKept, PlaceInv
  <2>2. CallOK'
    BY DEF CallOK, EarlyKept, PlaceInv
  <2>3. EarlyKept'
    BY DEF WorldOK, CallOK, EarlyKept
  <2>4. PlaceInv'
    BY DEF WorldOK, CallOK, EarlyKept, PlaceInv
  <2>5. ServerKept'
    BY DEF WorldOK, CallOK, EarlyKept, PlaceInv, ServerKept
  <2>6. ReleaseKept'
    BY DEF WorldOK, CallOK, EarlyKept, PlaceInv, ServerKept, ReleaseKept
  <2> QED BY ONLY <1>f, <2>1, <2>2, <2>3, <2>4, <2>5, <2>6, TypePartsNext, Zenon DEF PromptInv
<1>19. CASE Confirm
  <2> USE <1>0, <1>19 DEF Confirm, Dirty, ConfirmedBy, QueueState
  <2>1. WorldOK'
    BY DEF WorldOK, EarlyKept, PlaceInv
  <2>2. CallOK'
    BY DEF CallOK, EarlyKept, PlaceInv
  <2>3. EarlyKept'
    BY DEF WorldOK, CallOK, EarlyKept
  <2>4. PlaceInv'
    BY DEF WorldOK, CallOK, EarlyKept, PlaceInv
  <2>5. ServerKept'
    BY DEF WorldOK, CallOK, EarlyKept, PlaceInv, ServerKept
  <2>6. ReleaseKept'
    BY DEF WorldOK, CallOK, EarlyKept, PlaceInv, ServerKept, ReleaseKept
  <2> QED BY ONLY <1>f, <2>1, <2>2, <2>3, <2>4, <2>5, <2>6, TypePartsNext, Zenon DEF PromptInv
<1>20. CASE Release
  <2> USE <1>0, <1>20 DEF Release, Dirty
  <2>1. WorldOK'
    BY DEF WorldOK, EarlyKept, PlaceInv
  <2>2. CallOK'
    BY DEF CallOK, EarlyKept, PlaceInv
  <2>3. EarlyKept'
    BY DEF WorldOK, CallOK, EarlyKept
  <2>4. PlaceInv'
    BY DEF WorldOK, CallOK, EarlyKept, PlaceInv
  <2>5. ServerKept'
    BY DEF WorldOK, CallOK, EarlyKept, PlaceInv, ServerKept
  <2>6. ReleaseKept'
    BY DEF FlagsOK, WorldOK, CallOK, EarlyKept, PlaceInv, ServerKept, ReleaseKept
  <2> QED BY ONLY <1>f, <2>1, <2>2, <2>3, <2>4, <2>5, <2>6, TypePartsNext, Zenon DEF PromptInv
<1>21. CASE Delete
  <2> USE <1>0, <1>21 DEF Delete, AssetError
  <2>1. WorldOK'
    BY DEF WorldOK, EarlyKept, PlaceInv
  <2>2. CallOK'
    BY DEF CallOK, EarlyKept, PlaceInv
  <2>3. EarlyKept'
    BY DEF WorldOK, CallOK, EarlyKept
  <2>4. PlaceInv'
    BY DEF WorldOK, CallOK, EarlyKept, PlaceInv
  <2>5. ServerKept'
    BY DEF WorldOK, CallOK, EarlyKept, PlaceInv, ServerKept
  <2>6. ReleaseKept'
    BY DEF WorldOK, CallOK, EarlyKept, PlaceInv, ServerKept, ReleaseKept
  <2> QED BY ONLY <1>f, <2>1, <2>2, <2>3, <2>4, <2>5, <2>6, TypePartsNext, Zenon DEF PromptInv
<1> QED
  BY <1>1, <1>2, <1>3, <1>4, <1>5, <1>6, <1>7, <1>8, <1>9, <1>10, <1>11, <1>12, <1>13, <1>14, <1>15, <1>16,
     <1>17, <1>18, <1>19, <1>20, <1>21
  DEF Next, ServerNext, CallNext

\* Every line that is spoken, for any number of rounds: the call knows where it
\* is, what it was told of its prompt is true, and a released runtime stays so.
THEOREM PromptInvariant == Spec => []PromptInv
<1>1. Init => PromptInv
  <2> SUFFICES ASSUME Init PROVE PromptInv
    OBVIOUS
  <2>1. FlagsOK
    BY Zenon DEF Init, FlagsOK
  <2>2. WorldOK /\ CallOK
    <3>1. pc \in {"probe", "upload"}
      BY DEF Init
    <3> QED BY <3>1, RoundsAssumption DEF Init, NoCancel, WorldOK, CallOK, Results
  <2>3. EarlyKept /\ PlaceInv /\ ServerKept /\ ReleaseKept
    BY DEF Init, NoCancel, EarlyKept, Early, PlaceInv, Polling, InCancel, ServerKept, Late, ReleaseKept, Quiet
  <2> QED BY <2>1, <2>2, <2>3, TypeParts DEF PromptInv
<1>2. PromptInv /\ [Next]_vars => PromptInv'
  <2> SUFFICES ASSUME PromptInv, [Next]_vars PROVE PromptInv'
    OBVIOUS
  <2>1. CASE Next
    BY <2>1, PromptStep
  <2>2. CASE UNCHANGED vars
    BY <2>2 DEF vars, serverVars, ids, outcome, PromptInv, TypeOK, EarlyKept, Early, PlaceInv, Polling,
       InCancel,
       ServerKept, Late, ReleaseKept, Results, Quiet
  <2> QED BY <2>1, <2>2
<1> QED BY <1>1, <1>2, PTL DEF Spec

\* A coordinated call that knows its prompt and does not stop its group leaves no
\* prompt and no model on the GPU; nor does one whose cleanup was confirmed
\* (ComfyUITTSClient._synthesize_impl and its cleanup).
THEOREM CleanedUp == Spec => []CleanMeansQuiet
<1>1. PromptInv => CleanMeansQuiet
  BY DEF PromptInv, ReleaseKept, CleanMeansQuiet
<1> QED BY <1>1, PromptInvariant, PTL

\* What a call reports is true: a line is cancelled only when its prompt is over,
\* its reference asset goes only after its prompt, and a call that succeeds has
\* its audio and, with a coordinator, leaves the GPU free.
THEOREM ToldTruly == Spec => []PromptToldTruly
<1>1. PromptInv => CancelledMeansStopped
  BY DEF PromptInv, ServerKept, CancelledMeansStopped
<1>2. PromptInv => AssetOutlivesPrompt
  BY DEF PromptInv, ReleaseKept, AssetOutlivesPrompt
<1>3. PromptInv => ResultIsWhole
  BY DEF PromptInv, ServerKept, Late, ReleaseKept, ResultIsWhole
<1>4. PromptInv => PromptToldTruly
  BY <1>1, <1>2, <1>3 DEF PromptInv, PromptToldTruly
<1> QED BY <1>4, PromptInvariant, PTL

-----------------------------------------------------------------------------
(* The judging of a reliability case.                                       *)

JobFields == {"status", "item", "named", "moved"}
SawFields == {"target", "blocker", "inQueue", "state", "after", "down", "acted", "known", "done"}

CaseShape ==
  /\ case \in {"synthesize", "timeout", "cancel-running", "terminate-comfyui", "cancel-queued"}
  /\ now \in Nat /\ deadline \in Nat /\ times.act \in Nat /\ times.seen \in Nat /\ times.seen <= now
  /\ DOMAIN times = {"act", "seen"}
  /\ DOMAIN saw = SawFields /\ DOMAIN saw.target = JobFields
  /\ DOMAIN job = Jobs /\ \A j \in Jobs : DOMAIN job[j] = JobFields
  /\ DOMAIN worker = Jobs /\ DOMAIN prompt = Jobs
  /\ heeds \in BOOLEAN /\ (heeds => case = "cancel-queued")
  /\ \A j \in Jobs : worker[j] \in {"none", "queued", "loading", "clear", "sent", "shown", "over"}

\* The places of the queued cancellation, before and after the blocker holds
\* the admission, and those of the other cases.
Blocking == {"blocker", "blocker-read", "blocker-queue", "blocker-queue-read"}
Holding  == {"created", "target", "target-read"}
Settling == {"cancel-target", "cancelled", "cancel-blocker", "settle", "settle-blocker", "settle-queue",
             "settled?", "manifest-after"}
Watching == {"poll", "polled", "queue", "queue-read", "act", "acted", "end?", "manifest", "queue-after", "history"}

PlacesKept ==
  /\ at \in Blocking \cup Holding \cup Settling \cup {"create-target", "give-up", "give-up-blocker"} =>
       case = "cancel-queued"
  /\ at \in Watching => case # "cancel-queued"
  /\ at \in Blocking \cup Holding \cup Settling \cup Watching
            \cup {"create", "create-target", "give-up", "give-up-blocker", "valid", "failed"}
  /\ at = "act" => ActionCase
  /\ at = "acted" => saw.acted
  /\ saw.acted => ActionCase
  /\ at \in {"manifest", "queue-after", "history", "valid"} /\ ActionCase => saw.acted
  /\ at = "create" => now = 0 /\ ~saw.acted /\ worker["blocker"] = "none"
  /\ at \in Blocking \cup {"create", "create-target"} => worker["target"] = "none" /\ saw.target.status = "none"

\* What a job shows of its worker and of its prompt.
WorkKept ==
  \A j \in Jobs :
    /\ worker[j] \in {"none"} \cup Unsent => prompt[j] = "none"
    /\ worker[j] = "shown" => job[j].named
    /\ worker[j] = "over" /\ prompt[j] # "none" => job[j].named
    /\ job[j].moved => job[j].named \/ worker[j] = "over" \/ j \in stirred

\* A worker that heeds a cancellation and has not looked for one before the
\* item was cancelled finds it when it looks.
HeedKept ==
  heeds =>
    /\ worker["target"] \in {"loading", "clear", "sent", "shown"} => job["target"].item # "queued"
    /\ job["target"].item = "cancelled" =>
         job["target"].status = "cancelled" /\ worker["target"] \notin {"clear", "sent", "shown"}

\* A job nobody cancels ends with its worker, and what was seen of that stays.
StatusKept ==
  /\ case \in {"synthesize", "timeout", "terminate-comfyui"} =>
       /\ job["target"].status \in Ended => worker["target"] = "over"
       /\ saw.target.status \in Ended => worker["target"] = "over" /\ job["target"].status = saw.target.status
  /\ saw.down => comfy = "down"
  /\ case # "terminate-comfyui" => comfy = "up"

\* What the manifest and the history of ComfyUI said stays so.
OutcomeKept ==
  /\ at \in {"queue-after", "history", "valid"} /\ case = "synthesize" =>
       worker["target"] = "over" /\ version.audio = "audio"
  /\ at = "valid" /\ case = "synthesize" => prompt["target"] = "success"
  /\ at = "valid" /\ case \in {"timeout", "cancel-running"} => prompt["target"] = "interrupted"
  /\ at = "valid" /\ case = "terminate-comfyui" =>
       saw.target.status = "failed" /\ version.audio = "silent" /\ comfy = "down"
  /\ at \in {"queue-after", "history"} => case # "terminate-comfyui"

\* What it means that the target moved and named no prompt.
MovedMeans == "target" \in stirred \/ (worker["target"] = "over" /\ prompt["target"] = "none")

\* The blocker had a prompt, so it submits none any more; a target that moved
\* without naming a prompt never submitted one, unless it has shown a change
\* before; one that heeds its cancellation never does.
QueuedKept ==
  /\ at \in Holding \cup Settling \cup {"create-target"} => prompt["blocker"] # "none"
  /\ at = "blocker-queue-read" /\ saw.state # "absent" => prompt["blocker"] # "none"
  /\ case = "cancel-queued" /\ saw.target.moved /\ ~saw.target.named => MovedMeans
  /\ heeds /\ Pristine(saw.target) =>
       /\ worker["target"] \notin {"clear", "sent", "shown"} /\ prompt["target"] = "none"
       /\ job["target"].status = "cancelled" /\ job["target"].item = "cancelled"
  /\ at = "settled?" /\ saw.state = "absent" => ~InQueue("blocker")
  /\ at = "manifest-after" => saw.target.moved /\ Pristine(saw.target) /\ ~InQueue("blocker")
  /\ at = "valid" /\ case = "cancel-queued" =>
       /\ MovedMeans /\ Pristine(saw.target)
       /\ prompt["blocker"] # "none" /\ ~InQueue("blocker")

\* Which window is running, and that what was read last was read in it.
WindowKept ==
  /\ at \in Watching \cup {"valid"} /\ case \in {"synthesize", "timeout"} => deadline = Request + Converge
  /\ at \in Watching \cup {"valid"} /\ ActionCase =>
       IF saw.acted \/ at = "act" THEN deadline = times.act + Converge /\ times.act < Request
       ELSE deadline = Request
  /\ at \in (Watching \ {"poll", "polled"}) \cup {"valid", "settled?", "manifest-after"} => times.seen < deadline
  /\ at \in Blocking \cup Holding \cup {"create-target"} => deadline = Request
  /\ at \in Settling \cup {"valid"} /\ case = "cancel-queued" =>
       deadline = times.act + Converge /\ times.act < Request

\* The jobs to be released when the case is given up.
GiveUpKept ==
  /\ saw.known \subseteq Jobs /\ saw.done \subseteq told
  /\ at = "give-up-blocker" => saw.known \cap {"target"} \subseteq told
  /\ at = "failed" /\ case = "cancel-queued" => saw.known \subseteq told

CaseInv ==
  /\ CaseShape /\ PlacesKept /\ WorkKept /\ HeedKept /\ StatusKept
  /\ OutcomeKept /\ QueuedKept /\ WindowKept /\ GiveUpKept

\* What the probe knows once it has read the status of a job.
LEMMA ReadsFacts ==
  ASSUME CaseShape, NEW j \in Jobs, Reads(j)
  PROVE  /\ DOMAIN saw' = SawFields
         /\ saw'.target = IF j = "target" THEN job["target"] ELSE saw.target
         /\ saw'.state = "absent"
         /\ saw'.down = saw.down /\ saw'.acted = saw.acted /\ saw'.known = saw.known /\ saw'.done = saw.done
<1> USE DEF CaseShape, Jobs, SawFields
<1>1. CASE j = "target"
  <2>1. saw' = [saw EXCEPT !["target"] = job["target"], !["state"] = "absent"]
    BY <1>1 DEF Reads
  <2> QED BY <1>1, <2>1
<1>2. CASE j = "blocker"
  <2>1. PICK shown : saw' = [saw EXCEPT !["blocker"] = shown, !["state"] = "absent"]
    BY <1>2 DEF Reads
  <2> QED BY <1>2, <2>1
<1> QED BY <1>1, <1>2

\* What the probe knows once it has read the queue for a job.
LEMMA QueueFacts ==
  ASSUME CaseShape, NEW j \in Jobs, ReadsQueue(j)
  PROVE  /\ DOMAIN saw' = SawFields
         /\ saw'.target = saw.target /\ saw'.acted = saw.acted /\ saw'.known = saw.known /\ saw'.done = saw.done
         /\ saw'.state = IF comfy = "up" THEN StateOf(j) ELSE "absent"
         /\ saw'.down <=> saw.down \/ comfy = "down"
<1> DEFINE shown == IF comfy = "up" THEN StateOf(j) ELSE "absent"
<1> DEFINE seen == saw.inQueue \/ (j = "target" /\ comfy = "up" /\ InQueue(j))
<1> DEFINE gone == saw.down \/ comfy = "down"
<1>1. saw' = [saw EXCEPT !["state"] = shown, !["inQueue"] = seen, !["down"] = gone]
  BY DEF ReadsQueue
<1>2. saw'.down = gone
  <2> HIDE DEF shown, seen, gone
  <2> QED BY <1>1, Zenon DEF CaseShape, SawFields
<1>3. DOMAIN saw' = SawFields /\ saw'.target = saw.target /\ saw'.acted = saw.acted /\ saw'.known = saw.known
      /\ saw'.done = saw.done /\ saw'.state = shown
  <2> HIDE DEF shown, seen, gone
  <2> QED BY <1>1 DEF CaseShape, SawFields
<1> QED BY <1>2, <1>3

\* A job that is made is queued, and no other job is touched.
LEMMA CreatesFacts ==
  ASSUME CaseShape, NEW j \in Jobs, Creates(j)
  PROVE  /\ DOMAIN job' = Jobs /\ \A i \in Jobs : DOMAIN job'[i] = JobFields
         /\ DOMAIN worker' = Jobs
         /\ job'[j].status = "running" /\ ~job'[j].named /\ ~job'[j].moved /\ worker'[j] = "queued"
         /\ j = "target" => job'[j].item = "queued"
         /\ \A i \in Jobs \ {j} : job'[i] = job[i] /\ worker'[i] = worker[i]
         /\ UNCHANGED <<version, prompt, comfy, heeds, stirred>>
<1> DEFINE new == Seen(j, NewJob)
<1>1. /\ new.status = "running" /\ ~new.named /\ ~new.moved /\ DOMAIN new = JobFields
      /\ j = "target" => new.item = "queued"
  BY DEF Seen, NewJob, NoJob, JobFields
<1>2. job' = [job EXCEPT ![j] = new]
  BY DEF Creates
<1> HIDE DEF new
<1> QED BY <1>1, <1>2 DEF CaseShape, Creates

\* A job that is cancelled is told so, and no other job is touched; one that
\* heeds the cancellation has its item cancelled at once only if nothing of it
\* was begun.
LEMMA CancelsFacts ==
  ASSUME CaseShape, NEW j \in Jobs, CancelsJob(j)
  PROVE  /\ DOMAIN job' = Jobs /\ \A i \in Jobs : DOMAIN job'[i] = JobFields
         /\ job'[j].named = job[j].named /\ ~job'[j].moved
         /\ j = "target" =>
              \/ job'[j].item = job[j].item /\ job'[j].status \in {job[j].status, "cancelled"}
              \/ job'[j].item = "cancelled" /\ job'[j].status = "cancelled" /\ (heeds => job[j].item = "queued")
         /\ j = "target" /\ job[j].status \in Ended => job'[j].status = job[j].status /\ job'[j].item = job[j].item
         /\ \A i \in Jobs \ {j} : job'[i] = job[i]
         /\ told' = told \cup {j}
         /\ UNCHANGED <<version, worker, prompt, comfy, heeds, stirred>>
<1>1. PICK new \in Cancelled(job[j]) : job' = [job EXCEPT ![j] = Seen(j, new)]
  BY DEF CancelsJob
<1> DEFINE shown == Seen(j, new)
<1>2. DOMAIN job[j] = JobFields
  BY DEF CaseShape
<1>3. CASE new = [job[j] EXCEPT !.moved = FALSE]
  <2>1. DOMAIN new = JobFields /\ new.named = job[j].named /\ ~new.moved
        /\ new.item = job[j].item /\ new.status = job[j].status
    BY <1>2, <1>3 DEF JobFields
  <2> HIDE DEF shown
  <2>2. /\ DOMAIN shown = JobFields /\ shown.named = job[j].named /\ ~shown.moved
        /\ j = "target" => shown = new
    BY <2>1 DEF shown, Seen, NoJob, JobFields
  <2> QED
    BY <1>1, <2>1, <2>2 DEF CaseShape, CancelsJob, shown
<1>4. ASSUME job[j].status \notin Ended,
             NEW i \in {job[j].item} \cup (IF heeds /\ job[j].item # "queued" THEN {} ELSE {"cancelled"}),
             new = [job[j] EXCEPT !.status = "cancelled", !.moved = FALSE, !.item = i]
      PROVE  /\ DOMAIN job' = Jobs /\ \A k \in Jobs : DOMAIN job'[k] = JobFields
             /\ job'[j].named = job[j].named /\ ~job'[j].moved
             /\ j = "target" =>
                  \/ job'[j].item = job[j].item /\ job'[j].status \in {job[j].status, "cancelled"}
                  \/ job'[j].item = "cancelled" /\ job'[j].status = "cancelled" /\ (heeds => job[j].item = "queued")
             /\ \A k \in Jobs \ {j} : job'[k] = job[k]
  <2>1. DOMAIN new = JobFields /\ new.named = job[j].named /\ ~new.moved /\ new.item = i /\ new.status = "cancelled"
    BY <1>2, <1>4 DEF JobFields
  <2> HIDE DEF shown
  <2>2. /\ DOMAIN shown = JobFields /\ shown.named = job[j].named /\ ~shown.moved
        /\ j = "target" => shown = new
    BY <2>1 DEF shown, Seen, NoJob, JobFields
  <2>3. job' = [job EXCEPT ![j] = shown]
    BY <1>1 DEF shown
  <2>4. DOMAIN job' = Jobs /\ job'[j] = shown /\ \A k \in Jobs \ {j} : job'[k] = job[k]
    BY <2>3 DEF CaseShape
  <2>5. \A k \in Jobs : DOMAIN job'[k] = JobFields
    BY <2>2, <2>4 DEF CaseShape
  <2> QED
    BY <2>1, <2>2, <2>4, <2>5
<1>5. told' = told \cup {j} /\ UNCHANGED <<version, worker, prompt, comfy, heeds, stirred>>
  BY DEF CancelsJob
<1> QED BY <1>1, <1>3, <1>4, <1>5 DEF Cancelled

\* What a call of the probe may do to the target: nothing, make it, or cancel it.
Untouched == job'["target"] = job["target"] /\ worker'["target"] = worker["target"]
Made == job'["target"].item = "queued" /\ worker'["target"] = "queued"
Stopped ==
  /\ worker'["target"] = worker["target"]
  /\ \/ job'["target"].item = job["target"].item /\ job'["target"].status \in {job["target"].status, "cancelled"}
     \/ job'["target"].item = "cancelled" /\ job'["target"].status = "cancelled" /\ (heeds => job["target"].item = "queued")

\* None of them makes a target that heeds its cancellation miss it.
LEMMA HeedStep ==
  ASSUME HeedKept, heeds' = heeds, Untouched \/ Made \/ Stopped
  PROVE  HeedKept'
<1>1. CASE Untouched
  BY <1>1, Zenon DEF HeedKept, Untouched
<1>2. CASE Made
  BY <1>2 DEF HeedKept, Made
<1>3. CASE Stopped
  BY <1>3 DEF HeedKept, Stopped
<1> QED BY <1>1, <1>2, <1>3

\* Each step of the probe, of TTS More and of ComfyUI keeps what the probe
\* relies on: the places it goes to, the reads it makes of a job and of the
\* queue, the calls that change a job, the steps of the worker and the prompt.
LEMMA CaseStep ==
  ASSUME CaseInv, CaseNext
  PROVE  CaseInv'
<1> USE WindowsAssumption DEF CaseShape, PlacesKept, WorkKept, HeedKept, StatusKept, OutcomeKept, QueuedKept,
        MovedMeans, Unsent, Pristine, Watched, MaySubmit, WindowKept, GiveUpKept, Failing, sut, Goes, Jobs, InQueue, ActionCase, Ended, SawFields, JobFields,
        Blocking, Holding, Settling, Watching
<1>0. CaseShape /\ PlacesKept /\ WorkKept /\ HeedKept /\ StatusKept /\ OutcomeKept /\ QueuedKept /\ WindowKept /\ GiveUpKept
  BY DEF CaseInv
<1>1. CASE CallFails \/ Polled \/ Acted \/ EndSeen \/ Manifest \/ History \/ BlockerRead \/ BlockerHolds
           \/ Created \/ TargetCancelled \/ SettleLate \/ Settled \/ ManifestAfter
  <2> USE <1>0, <1>1 DEF CallFails, Fails, Polled, WindowOpen, Acted, EndSeen, Manifest, Expected,
          VersionFits, History, HistoryAgrees, BlockerRead, BlockerHolds, Created, TargetCancelled,
          SettleLate, Settled, UpdateSeen, Pristine, ManifestAfter, NoVersion
  <2>1. CaseShape'
    BY SMTT(30)
  <2>2. PlacesKept'
    BY SMTT(30)
  <2>3. WorkKept'
    BY SMTT(30)
  <2>4. StatusKept'
    BY SMTT(30)
  <2>5. OutcomeKept'
    BY SMTT(30)
  <2>6. QueuedKept'
    BY SMTT(30)
  <2>7. WindowKept'
    BY SMTT(30)
  <2>8. GiveUpKept'
    BY SMTT(30)
  <2>9. HeedKept'
    <3>1. heeds' = heeds /\ Untouched
      BY DEF Untouched
    <3> QED BY ONLY <1>0, <3>1, HeedStep
  <2> QED BY ONLY <2>1, <2>2, <2>3, <2>4, <2>5, <2>6, <2>7, <2>8, <2>9, Zenon DEF CaseInv
<1>2. CASE Poll \/ AwaitBlocker \/ AwaitTarget
  <2> USE <1>0, <1>2, ReadsFacts DEF Poll, ReadAt, AwaitBlocker, AwaitTarget
  <2>1. CaseShape'
    BY SMTT(30)
  <2>2. PlacesKept'
    BY SMTT(30)
  <2>3. WorkKept'
    BY SMTT(30)
  <2>4. StatusKept'
    BY SMTT(30)
  <2>5. OutcomeKept'
    BY SMTT(30)
  <2>6. QueuedKept'
    BY SMTT(30)
  <2>7. WindowKept'
    BY SMTT(30)
  <2>8. GiveUpKept'
    BY SMTT(30)
  <2>9. HeedKept'
    <3>1. heeds' = heeds /\ Untouched
      BY DEF Untouched
    <3> QED BY ONLY <1>0, <3>1, HeedStep
  <2> QED BY ONLY <2>1, <2>2, <2>3, <2>4, <2>5, <2>6, <2>7, <2>8, <2>9, Zenon DEF CaseInv
<1>3. CASE Queue \/ QueueAfter \/ BlockerQueue
  <2> USE <1>0, <1>3, QueueFacts DEF Queue, StateOf, Fails, QueueAfter, BlockerQueue
  <2>1. CaseShape'
    BY SMTT(30)
  <2>2. PlacesKept'
    BY SMTT(30)
  <2>3. WorkKept'
    BY SMTT(30)
  <2>4. StatusKept'
    BY SMTT(30)
  <2>5. OutcomeKept'
    BY SMTT(30)
  <2>6. QueuedKept'
    BY SMTT(30)
  <2>7. WindowKept'
    BY SMTT(30)
  <2>8. GiveUpKept'
    BY SMTT(30)
  <2>9. HeedKept'
    <3>1. heeds' = heeds /\ Untouched
      BY DEF Untouched
    <3> QED BY ONLY <1>0, <3>1, HeedStep
  <2> QED BY ONLY <2>1, <2>2, <2>3, <2>4, <2>5, <2>6, <2>7, <2>8, <2>9, Zenon DEF CaseInv
<1>4. CASE Settle
  <2> USE <1>0, <1>4, ReadsFacts, QueueFacts DEF Settle, StateOf, ReadAt, WindowOpen
  <2>1. CaseShape'
    BY SMTT(30)
  <2>2. PlacesKept'
    BY SMTT(30)
  <2>3. WorkKept'
    BY SMTT(30)
  <2>4. StatusKept'
    BY SMTT(30)
  <2>5. OutcomeKept'
    BY SMTT(30)
  <2>6. QueuedKept'
    BY SMTT(30)
  <2>7. WindowKept'
    BY SMTT(30)
  <2>8. GiveUpKept'
    BY SMTT(30)
  <2>9. HeedKept'
    <3>1. heeds' = heeds /\ Untouched
      BY DEF Untouched
    <3> QED BY ONLY <1>0, <3>1, HeedStep
  <2> QED BY ONLY <2>1, <2>2, <2>3, <2>4, <2>5, <2>6, <2>7, <2>8, <2>9, Zenon DEF CaseInv
<1>5. CASE QueueRead \/ TargetHeld \/ Tick
  <2> USE <1>0, <1>5 DEF QueueRead, Restarted, WindowOpen, Fails, TargetHeld, Tick
  <2>1. CaseShape'
    BY SMTT(30)
  <2>2. PlacesKept'
    BY SMTT(30)
  <2>3. WorkKept'
    BY SMTT(30)
  <2>4. StatusKept'
    BY SMTT(30)
  <2>5. OutcomeKept'
    BY SMTT(30)
  <2>6. QueuedKept'
    BY SMTT(30)
  <2>7. WindowKept'
    BY SMTT(30)
  <2>8. GiveUpKept'
    BY SMTT(30)
  <2>9. HeedKept'
    <3>1. heeds' = heeds /\ Untouched
      BY DEF Untouched
    <3> QED BY ONLY <1>0, <3>1, HeedStep
  <2> QED BY ONLY <2>1, <2>2, <2>3, <2>4, <2>5, <2>6, <2>7, <2>8, <2>9, Zenon DEF CaseInv
<1>6. CASE CreateTarget \/ CreateBlocker \/ CreateQueued
  <2> USE <1>0, <1>6, CreatesFacts DEF CreateTarget, Knows, CreateBlocker, CreateQueued
  <2>1. CaseShape'
    BY SMTT(30)
  <2>2. PlacesKept'
    BY SMTT(30)
  <2>3. WorkKept'
    BY SMTT(30)
  <2>4. StatusKept'
    BY SMTT(30)
  <2>5. OutcomeKept'
    BY SMTT(30)
  <2>6. QueuedKept'
    BY SMTT(30)
  <2>7. WindowKept'
    BY SMTT(30)
  <2>8. GiveUpKept'
    BY SMTT(30)
  <2>9. HeedKept'
    <3>1. heeds' = heeds
      BY SMTT(30)
    <3>2. Untouched \/ Made \/ Stopped
      BY SMTT(30) DEF Untouched, Made, Stopped
    <3> QED BY ONLY <1>0, <3>1, <3>2, HeedStep
  <2> QED BY ONLY <2>1, <2>2, <2>3, <2>4, <2>5, <2>6, <2>7, <2>8, <2>9, Zenon DEF CaseInv
<1>7. CASE CallLost
  <2> USE <1>0, <1>7, CreatesFacts, CancelsFacts DEF CallLost, Fails
  <2>1. CaseShape'
    BY SMTT(30)
  <2>2. PlacesKept'
    BY SMTT(30)
  <2>3. WorkKept'
    BY SMTT(30)
  <2>4. StatusKept'
    BY SMTT(30)
  <2>5. OutcomeKept'
    BY SMTT(30)
  <2>6. QueuedKept'
    BY SMTT(30)
  <2>7. WindowKept'
    BY SMTT(30)
  <2>8. GiveUpKept'
    BY SMTT(30)
  <2>9. HeedKept'
    <3>1. heeds' = heeds
      BY SMTT(30)
    <3>2. Untouched \/ Made \/ Stopped
      BY SMTT(30) DEF Untouched, Made, Stopped
    <3> QED BY ONLY <1>0, <3>1, <3>2, HeedStep
  <2> QED BY ONLY <2>1, <2>2, <2>3, <2>4, <2>5, <2>6, <2>7, <2>8, <2>9, Zenon DEF CaseInv
<1>8. CASE IssueAction \/ CancelTarget \/ CancelBlocker
  <2> USE <1>0, <1>8, CancelsFacts DEF IssueAction, CancelTarget, Pristine, Fails, CancelBlocker
  <2>1. CaseShape'
    BY SMTT(30)
  <2>2. PlacesKept'
    BY SMTT(30)
  <2>3. WorkKept'
    BY SMTT(30)
  <2>4. StatusKept'
    BY SMTT(30)
  <2>5. OutcomeKept'
    BY SMTT(30)
  <2>6. QueuedKept'
    BY SMTT(30)
  <2>7. WindowKept'
    BY SMTT(30)
  <2>8. GiveUpKept'
    BY SMTT(30)
  <2>9. HeedKept'
    <3>1. heeds' = heeds
      BY SMTT(30)
    <3>2. Untouched \/ Made \/ Stopped
      BY SMTT(30) DEF Untouched, Made, Stopped
    <3> QED BY ONLY <1>0, <3>1, <3>2, HeedStep
  <2> QED BY ONLY <2>1, <2>2, <2>3, <2>4, <2>5, <2>6, <2>7, <2>8, <2>9, Zenon DEF CaseInv
<1>9. CASE CancelKnown
  <2> USE <1>0, <1>9, CancelsFacts DEF CancelKnown, BestEffort, ToRelease
  <2>1. CaseShape'
    BY SMTT(30)
  <2>2. PlacesKept'
    BY SMTT(30)
  <2>3. WorkKept'
    BY SMTT(30)
  <2>4. StatusKept'
    BY SMTT(30)
  <2>5. OutcomeKept'
    BY SMTT(30)
  <2>6. QueuedKept'
    BY SMTT(30)
  <2>7. WindowKept'
    BY SMTT(30)
  <2>8. GiveUpKept'
    BY SMTT(30)
  <2>9. HeedKept'
    <3>1. heeds' = heeds
      BY SMTT(30)
    <3>2. Untouched \/ Made \/ Stopped
      BY SMTT(30) DEF Untouched, Made, Stopped
    <3> QED BY ONLY <1>0, <3>1, <3>2, HeedStep
  <2> QED BY ONLY <2>1, <2>2, <2>3, <2>4, <2>5, <2>6, <2>7, <2>8, <2>9, Zenon DEF CaseInv
<1>10. ASSUME NEW j \in Jobs, Submits(j), ~Failing, UNCHANGED probeVars
      PROVE  CaseInv'
  <2> USE <1>0, <1>10 DEF Submits, probeVars
  <2>1. CaseShape'
    BY SMTT(30)
  <2>2. PlacesKept'
    BY SMTT(30)
  <2>3. WorkKept'
    BY SMTT(30)
  <2>4. StatusKept'
    BY SMTT(30)
  <2>5. OutcomeKept'
    BY SMTT(30)
  <2>6. QueuedKept'
    BY SMTT(30)
  <2>7. WindowKept'
    BY SMTT(30)
  <2>8. GiveUpKept'
    BY SMTT(30)
  <2>9. HeedKept'
    BY SMTT(30)
  <2> QED BY ONLY <2>1, <2>2, <2>3, <2>4, <2>5, <2>6, <2>7, <2>8, <2>9, Zenon DEF CaseInv
<1>11. ASSUME NEW j \in Jobs, NamesPrompt(j), ~Failing, UNCHANGED probeVars
      PROVE  CaseInv'
  <2> USE <1>0, <1>11 DEF NamesPrompt, Shows, Seen, NoJob, probeVars
  <2>1. CaseShape'
    BY SMTT(30)
  <2>2. PlacesKept'
    BY SMTT(30)
  <2>3. WorkKept'
    <3> DEFINE new == Seen(j, [job[j] EXCEPT !.named = @ \/ TRUE, !.moved = j \in told,
                                             !.item = IF @ = "queued" THEN "other" ELSE @])
    <3>1. new.named
      BY Zenon DEF Seen, NoJob
    <3>2. job' = [job EXCEPT ![j] = new]
      BY Zenon DEF NamesPrompt, Shows
    <3> HIDE DEF new
    <3>3. job'[j].named /\ \A i \in Jobs \ {j} : job'[i] = job[i] /\ worker'[i] = worker[i]
      BY <3>1, <3>2
    <3>4. worker'[j] = "shown" /\ prompt' = prompt /\ stirred' = stirred
      OBVIOUS
    <3> QED BY ONLY <1>0, <3>3, <3>4 DEF WorkKept, Jobs, Unsent
  <2>4. StatusKept'
    BY SMTT(30)
  <2>5. OutcomeKept'
    BY SMTT(30)
  <2>6. QueuedKept'
    BY SMTT(30)
  <2>7. WindowKept'
    BY SMTT(30)
  <2>8. GiveUpKept'
    BY SMTT(30)
  <2>9. HeedKept'
    BY SMTT(30)
  <2> QED BY ONLY <2>1, <2>2, <2>3, <2>4, <2>5, <2>6, <2>7, <2>8, <2>9, Zenon DEF CaseInv
<1>12. ASSUME NEW j \in Jobs, WorkerEnds(j), ~Failing, UNCHANGED probeVars
      PROVE  CaseInv'
  <2> USE <1>0, <1>12 DEF WorkerEnds, Seen, NoJob, probeVars
  <2>1. CaseShape'
    BY SMTT(30)
  <2>2. PlacesKept'
    BY SMTT(30)
  <2>3. WorkKept'
    BY SMTT(30)
  <2>4. StatusKept'
    BY SMTT(30)
  <2>5. OutcomeKept'
    <3>1. CASE j = "blocker"
      <4>1. UNCHANGED version /\ worker'["target"] = worker["target"]
        BY <3>1
      <4> QED BY <4>1
    <3>2. CASE j = "target"
      <4>1. worker["target"] # "over"
        BY <3>2
      <4> QED BY <4>1
    <3> QED BY <3>1, <3>2
  <2>6. QueuedKept'
    BY SMTT(30)
  <2>7. WindowKept'
    BY SMTT(30)
  <2>8. GiveUpKept'
    BY SMTT(30)
  <2>9. HeedKept'
    BY SMTT(30)
  <2> QED BY ONLY <2>1, <2>2, <2>3, <2>4, <2>5, <2>6, <2>7, <2>8, <2>9, Zenon DEF CaseInv
<1>13. ASSUME NEW j \in Jobs, PromptMoves(j), ~Failing, UNCHANGED probeVars
      PROVE  CaseInv'
  <2> USE <1>0, <1>13 DEF PromptMoves, probeVars
  <2>1. CaseShape'
    BY SMTT(30)
  <2>2. PlacesKept'
    BY SMTT(30)
  <2>3. WorkKept'
    BY SMTT(30)
  <2>4. StatusKept'
    BY SMTT(30)
  <2>5. OutcomeKept'
    BY SMTT(30)
  <2>6. QueuedKept'
    BY SMTT(30)
  <2>7. WindowKept'
    BY SMTT(30)
  <2>8. GiveUpKept'
    BY SMTT(30)
  <2>9. HeedKept'
    BY SMTT(30)
  <2> QED BY ONLY <2>1, <2>2, <2>3, <2>4, <2>5, <2>6, <2>7, <2>8, <2>9, Zenon DEF CaseInv
<1>14. ASSUME NEW j \in Jobs, Emits(j), ~Failing, UNCHANGED probeVars
      PROVE  CaseInv'
  <2> USE <1>0, <1>14 DEF Emits, Shows, Seen, NoJob, probeVars
  <2>1. CaseShape'
    BY SMTT(30)
  <2>2. PlacesKept'
    BY SMTT(30)
  <2>3. WorkKept'
    BY SMTT(30)
  <2>4. StatusKept'
    BY SMTT(30)
  <2>5. OutcomeKept'
    BY SMTT(30)
  <2>6. QueuedKept'
    BY SMTT(30)
  <2>7. WindowKept'
    BY SMTT(30)
  <2>8. GiveUpKept'
    BY SMTT(30)
  <2>9. HeedKept'
    BY SMTT(30)
  <2> QED BY ONLY <2>1, <2>2, <2>3, <2>4, <2>5, <2>6, <2>7, <2>8, <2>9, Zenon DEF CaseInv
<1>15. ASSUME NEW j \in Jobs, Looks(j), ~Failing, UNCHANGED probeVars
      PROVE  CaseInv'
  <2> USE <1>0, <1>15 DEF Looks, probeVars
  <2>1. CaseShape'
    BY SMTT(30)
  <2>2. PlacesKept'
    BY SMTT(30)
  <2>3. WorkKept'
    BY SMTT(30)
  <2>4. StatusKept'
    BY SMTT(30)
  <2>5. OutcomeKept'
    BY SMTT(30)
  <2>6. QueuedKept'
    BY SMTT(30)
  <2>7. WindowKept'
    BY SMTT(30)
  <2>8. GiveUpKept'
    BY SMTT(30)
  <2>9. HeedKept'
    BY SMTT(30)
  <2> QED BY ONLY <2>1, <2>2, <2>3, <2>4, <2>5, <2>6, <2>7, <2>8, <2>9, Zenon DEF CaseInv
<1> QED
  BY <1>1, <1>2, <1>3, <1>4, <1>5, <1>6, <1>7, <1>8, <1>9, <1>10, <1>11, <1>12, <1>13, <1>14, <1>15
  DEF CaseNext, ProbeSteps

\* At first the invariant holds.
LEMMA CaseStart == CaseInit => CaseInv
<1> SUFFICES ASSUME CaseInit PROVE CaseInv
  OBVIOUS
<1>1. saw.target = NoJob /\ saw.known = {} /\ saw.done = {} /\ ~saw.acted /\ ~saw.down /\ DOMAIN saw = SawFields
  BY DEF CaseInit, SawFields
<1>2. /\ DOMAIN NoJob = JobFields /\ NoJob.status = "none" /\ NoJob.item = "none"
      /\ ~NoJob.moved /\ ~NoJob.named
  BY DEF NoJob, JobFields
<1>3. /\ at = "create" /\ now = 0 /\ deadline = 0 /\ comfy = "up" /\ told = {}
      /\ case \in {"synthesize", "timeout", "cancel-running", "terminate-comfyui", "cancel-queued"}
      /\ job = [j \in Jobs |-> NoJob] /\ worker = [j \in Jobs |-> "none"] /\ prompt = [j \in Jobs |-> "none"]
      /\ heeds \in BOOLEAN /\ (heeds => case = "cancel-queued")
      /\ times.act = 0 /\ times.seen = 0 /\ DOMAIN times = {"act", "seen"}
  BY DEF CaseInit
<1> HIDE DEF NoJob
<1> QED
  BY <1>1, <1>2, <1>3 DEF CaseInv, CaseShape, PlacesKept, WorkKept, HeedKept, StatusKept, OutcomeKept, QueuedKept,
     MovedMeans, Pristine, Unsent, WindowKept, GiveUpKept, Blocking, Holding, Settling, Watching, Jobs, Ended

\* Every case, whatever its windows: what the probe relies on stays true while
\* TTS More and ComfyUI go on.
THEOREM CaseInvariant == CaseSpec => []CaseInv
<1>1. CaseInv /\ [CaseNext]_caseVars => CaseInv'
  <2> SUFFICES ASSUME CaseInv, UNCHANGED caseVars PROVE CaseInv'
    BY CaseStep
  <2> QED
    BY DEF caseVars, CaseInv, CaseShape, PlacesKept, WorkKept, HeedKept, StatusKept, OutcomeKept, QueuedKept, MovedMeans, WindowKept,
       GiveUpKept, ActionCase, InQueue
<1> QED BY <1>1, CaseStart, PTL DEF CaseSpec

\* A case is accepted only for an outcome its prompt had in ComfyUI, a queued
\* cancellation only for a target that never submitted, each within its windows;
\* a queued-cancel case that fails has asked each of its jobs to be cancelled
\* (execute_case and _execute_queued_cancel_case).
THEOREM CasesJudgedTruly == CaseSpec => []JudgedTruly
<1>1. CaseInv => OutcomeIsTrue
  BY DEF CaseInv, CaseShape, StatusKept, OutcomeKept, OutcomeIsTrue, Ended
<1>2. CaseInv => QueuedMeansNever
  BY DEF CaseInv, CaseShape, QueuedKept, MovedMeans, Pristine, QueuedMeansNever
<1>3. CaseInv => WindowsHeld
  BY DEF CaseInv, CaseShape, PlacesKept, WindowKept, WindowsHeld, ActionCase
<1>4. CaseInv => NoJobLeft
  BY DEF CaseInv, GiveUpKept, NoJobLeft
<1> QED BY <1>1, <1>2, <1>3, <1>4, CaseInvariant, PTL DEF JudgedTruly

-----------------------------------------------------------------------------
(* A connection of the control transport.                                   *)

Held == {c \in Connections : Handled(c)}

TransportType ==
  /\ slots \in Nat
  /\ DOMAIN conn = Connections

\* What the number of free slots says only together with the shape of the state.
SlotsInv == TransportType /\ SlotsAccounted

\* A connection is handled from the slot it takes to the slot it gives back:
\* what a step does to one connection is what it does to the held ones.
LEMMA HeldAfter ==
  ASSUME NEW c \in Connections, NEW place, TransportType, Goto(c, place)
  PROVE  /\ DOMAIN conn' = Connections
         /\ conn'[c] = place
         /\ \A d \in Connections \ {c} : Handled(d)' <=> Handled(d)
         /\ ~Handled(c)' => Held' = Held \ {c}
         /\ Handled(c)' => Held' = Held \cup {c}
BY DEF TransportType, Goto, Held, Handled

\* The connections that hold a slot are finite in number.
LEMMA HeldFinite == IsFiniteSet(Held)
BY ConnectionsAssumption, FS_Subset DEF Held

\* A connection more, or one less, is one slot more or less.
LEMMA HeldCount ==
  ASSUME SlotsInv
  PROVE  Cardinality(Held) \in Nat /\ slots + Cardinality(Held) = MaxWorkers
BY HeldFinite, FS_CardinalityType DEF SlotsInv, SlotsAccounted, Held

\* A step that leaves the slots alone and moves a connection within the
\* handled ones, or among the others.
LEMMA Moved ==
  ASSUME SlotsInv, NEW c \in Connections, NEW place, Goto(c, place), slots' = slots,
         Handled(c)' <=> Handled(c)
  PROVE  SlotsInv'
<1>1. Held' = Held
  BY HeldAfter DEF SlotsInv, Held
<1> QED BY <1>1, HeldAfter DEF SlotsInv, SlotsAccounted, TransportType, Held

\* A step that takes a slot for its connection.
LEMMA Taken ==
  ASSUME SlotsInv, NEW c \in Connections, NEW place, Goto(c, place),
         slots > 0, slots' = slots - 1, ~Handled(c), Handled(c)'
  PROVE  SlotsInv'
<1>1. Held' = Held \cup {c} /\ c \notin Held
  BY HeldAfter DEF SlotsInv, Held
<1>2. Cardinality(Held') = Cardinality(Held) + 1
  BY <1>1, HeldFinite, FS_AddElement
<1>3. slots \in Nat /\ slots' \in Nat
  BY DEF SlotsInv, TransportType
<1>4. slots' + Cardinality(Held') = MaxWorkers
  BY <1>2, <1>3, HeldCount
<1> QED BY <1>3, <1>4, HeldAfter DEF SlotsInv, SlotsAccounted, TransportType, Held

\* A step that gives the slot of its connection back.
LEMMA Given ==
  ASSUME SlotsInv, NEW c \in Connections, NEW place, Goto(c, place),
         slots' = slots + 1, Handled(c), ~Handled(c)'
  PROVE  SlotsInv'
<1>1. Held' = Held \ {c} /\ c \in Held
  BY HeldAfter DEF SlotsInv, Held
<1>2. Cardinality(Held') = Cardinality(Held) - 1
  BY <1>1, HeldFinite, FS_RemoveElement
<1>3. slots \in Nat /\ slots' \in Nat
  BY DEF SlotsInv, TransportType
<1>4. slots' + Cardinality(Held') = MaxWorkers
  BY <1>2, <1>3, HeldCount
<1> QED BY <1>3, <1>4, HeldAfter DEF SlotsInv, SlotsAccounted, TransportType, Held

\* At first no slot is taken.
LEMMA SlotsInit == TransportInit => SlotsInv
<1> SUFFICES ASSUME TransportInit PROVE SlotsInv
  OBVIOUS
<1>1. Held = {}
  BY DEF TransportInit, Held, Handled
<1>2. Cardinality(Held) = 0
  BY <1>1, FS_EmptySet
<1> QED BY <1>2, WorkersAssumption DEF TransportInit, SlotsInv, SlotsAccounted, TransportType, Held

\* Every step gives back the slots it must, and no other.
LEMMA SlotsStep ==
  ASSUME SlotsInv, NEW c \in Connections, ServerStep(c)
  PROVE  SlotsInv'
<1> USE DEF Goto, Handled, SlotsInv, TransportType
<1>1. CASE TurnAway(c)
  BY <1>1, Moved DEF TurnAway
<1>2. CASE Accept(c)
  BY <1>2, Taken DEF Accept
<1>3. CASE StartHandler(c)
  <2>1. CASE Goto(c, "headers") /\ UNCHANGED <<slots, answer>>
    BY <1>3, <2>1, Moved DEF StartHandler
  <2>2. CASE Goto(c, "closed") /\ slots' = slots + 1
    BY <1>3, <2>2, Given DEF StartHandler
  <2> QED BY <1>3, <2>1, <2>2 DEF StartHandler
<1>4. CASE Headers(c)
  BY <1>4, Moved DEF Headers
<1>5. CASE Body(c)
  <2>1. CASE Goto(c, "reply")
    BY <1>5, <2>1, Moved DEF Body
  <2>2. CASE Goto(c, "dispatch")
    BY <1>5, <2>2, Moved DEF Body
  <2> QED BY <1>5, <2>1, <2>2 DEF Body
<1>6. CASE Dispatch(c)
  BY <1>6, Moved DEF Dispatch
<1>7. CASE Timeout(c)
  <2>1. CASE Goto(c, "close")
    BY <1>7, <2>1, Moved DEF Timeout, TimesOut
  <2>2. CASE Goto(c, "reply")
    BY <1>7, <2>2, Moved DEF Timeout, TimesOut
  <2> QED BY <1>7, <2>1, <2>2 DEF Timeout
<1>8. CASE WriteReply(c)
  BY <1>8, Moved DEF WriteReply
<1>9. CASE EndHandler(c)
  BY <1>9, Given DEF EndHandler, SlotFreed
<1> QED
  BY <1>1, <1>2, <1>3, <1>4, <1>5, <1>6, <1>7, <1>8, <1>9 DEF ServerStep

\* Every slot is free or held by one connection that is being handled, for any
\* number of connections, whatever they do (worker_slots of ControlServer).
THEOREM SlotsNeverLost == TransportSpec => []SlotsAccounted
<1>1. SlotsInv /\ [TransportNext]_transportVars => SlotsInv'
  <2> SUFFICES ASSUME SlotsInv, [TransportNext]_transportVars PROVE SlotsInv'
    OBVIOUS
  <2>1. ASSUME NEW c \in Connections, Connect(c) PROVE SlotsInv'
    BY <2>1, Moved DEF Connect, Goto, Handled, SlotsInv, TransportType
  <2>2. ASSUME NEW c \in Connections, Silent(c) PROVE SlotsInv'
    BY <2>2 DEF Silent, SlotsInv, TransportType, SlotsAccounted, Handled
  <2>3. ASSUME UNCHANGED transportVars PROVE SlotsInv'
    BY <2>3 DEF transportVars, SlotsInv, TransportType, SlotsAccounted, Handled
  <2> QED BY <2>1, <2>2, <2>3, SlotsStep DEF TransportNext
<1>2. SlotsInv => SlotsAccounted
  BY DEF SlotsInv
<1> QED BY <1>1, <1>2, SlotsInit, PTL DEF TransportSpec
=============================================================================
