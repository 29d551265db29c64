---------------------------- MODULE MCComfyPrompt ----------------------------
(***************************************************************************)
(* Three modules whose parts must come to an end in time: a line spoken by *)
(* ComfyUI, the judging of a reliability case, and the server of the       *)
(* control transport.  They share no variable; part says which of them a   *)
(* behaviour is about.  What has ended does nothing more.                  *)
(***************************************************************************)
EXTENDS ComfyPrompt, CaseProbe, ControlServer

CONSTANTS c1, c2, c3

VARIABLE part

timedVars == <<vars, caseVars, transportVars, part>>

TimedInit ==
  /\ part \in {"prompt", "case", "server"}
  /\ Init /\ CaseInit /\ TransportInit
  /\ part # "prompt" => ~coordinated
  /\ part # "case" => case = "synthesize"

OfPrompt(action) == part = "prompt" /\ action /\ UNCHANGED <<caseVars, transportVars, part>>
OfCase(action) == part = "case" /\ action /\ UNCHANGED <<vars, transportVars, part>>
OfServer(action) == part = "server" /\ action /\ UNCHANGED <<vars, caseVars, part>>

TimedNext == OfPrompt(Next) \/ OfCase(CaseNext) \/ OfServer(TransportNext)

\* The fairness of FairSpec, CaseSpec and TransportSpec; less is asked of the
\* server, whose connections take a bounded number of steps.
GoesOn == OfPrompt(CallNext) \/ OfCase(ProbeSteps) \/ OfServer(\E c \in Connections : ServerStep(c))

TimedSpec == TimedInit /\ [][TimedNext]_timedVars /\ WF_timedVars(GoesOn) /\ WF_timedVars(OfCase(Tick))

\* Whatever is begun comes to an end: a call, a case, and each connection that
\* the control server accepted, whichever request fails and whoever falls silent.
AllEnd == (part = "prompt" => CallEnds) /\ CaseEnds /\ EachConnectionEnds
=============================================================================
