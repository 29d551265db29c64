---------------------------- MODULE OperationLog ----------------------------
(***************************************************************************)
(* The log of an operation: its launcher (scripts/Invoke-PortableStart.ps1)*)
(* appends numbered events and writes that the operation is ready, or that *)
(* it failed, which may still happen after it was ready.  A launcher that  *)
(* dies or cannot write leaves half a line behind; a later launcher closes *)
(* an operation that is still open.  A client gathers the events page by   *)
(* page, from a cursor it is given back (backend/app/portable_control.py). *)
(*                                                                         *)
(* Launchers hold the lock of the package, so that one writes at a time. A *)
(* file is read as it is at one moment (SafeRead).                         *)
(***************************************************************************)
EXTENDS Naturals, Sequences, SequencesExt

CONSTANTS Limit,        \* events of a page
          MaxEvents     \* bound on the events

ASSUME LimitAssumption == Limit \in Nat \ {0}

VARIABLES
  status,     \* operation.json: "open" (no exit_code), "ready" or "failed"
  events,     \* the whole lines of events.jsonl: "event", "late" (the failure
              \* of an operation that was ready) or "garbled" (not JSON)
  line,       \* its last line without an end: "none", "half" one, or two "mixed"
  writing,    \* a launcher is in Add-OperationEvent
  launcher,   \* "works", "ready", "fails", "recovers", "closes", "over" or "dead"
  client,     \* the request for a page
  gathered    \* the numbers of the events the client has

logVars == <<status, events, line, writing, launcher, client, gathered>>

NoPage == [pc |-> "idle", after |-> 0, status |-> "open", page |-> <<>>]

LogInit ==
  /\ status = "open" /\ events = <<>> /\ line = "none" /\ writing = FALSE
  /\ launcher = "works"
  /\ client = NoPage
  /\ gathered = <<>>

\* Add-OperationEvent appends a line to what is there.
BeginAppend ==
  /\ launcher \in {"works", "fails", "recovers"} /\ ~writing
  /\ Len(events) < MaxEvents
  /\ line' = IF line = "none" THEN "half" ELSE "mixed"
  /\ writing' = TRUE
  /\ UNCHANGED <<status, events, launcher, client, gathered>>

\* What the line is when it has its end
WholeLine ==
  CASE line = "mixed" -> "garbled" [] line = "half" /\ status = "ready" -> "late" [] OTHER -> "event"

\* A failure and a recovery append one event, then close the operation.
EndAppend ==
  /\ writing
  /\ events' = Append(events, WholeLine)
  /\ line' = "none" /\ writing' = FALSE
  /\ launcher' = IF launcher = "works" THEN "works" ELSE "closes"
  /\ UNCHANGED <<status, client, gathered>>

\* Complete-Operation of "ready", after the last event
Complete ==
  /\ launcher = "works" /\ ~writing /\ events # <<>>
  /\ status' = "ready" /\ launcher' = "ready"
  /\ UNCHANGED <<events, line, writing, client, gathered>>

\* Any error of the launcher, a write of the log and what follows "ready"
\* included, is handed to Fail-Operation; one of Fail-Operation, or of
\* Clear-StaleActivePointer, is a warning.
GoesWrong ==
  /\ launcher \in {"works", "ready", "fails", "recovers", "closes"}
  /\ launcher' = IF launcher \in {"works", "ready"} THEN "fails" ELSE "over"
  /\ writing' = FALSE
  /\ UNCHANGED <<status, events, line, client, gathered>>

\* Complete-Operation of Fail-Operation, or of Clear-StaleActivePointer
Close ==
  /\ launcher = "closes"
  /\ status' = "failed" /\ launcher' = "over"
  /\ UNCHANGED <<events, line, writing, client, gathered>>

LauncherDies ==
  /\ launcher \notin {"over", "dead"}
  /\ launcher' = "dead" /\ writing' = FALSE
  /\ UNCHANGED <<status, events, line, client, gathered>>

\* Clear-StaleActivePointer of a later launcher: the operation has no exit code.
Recover ==
  /\ launcher \in {"dead", "over"} /\ status = "open"
  /\ launcher' = "recovers"
  /\ UNCHANGED <<status, events, line, writing, client, gathered>>

-----------------------------------------------------------------------------
\* Mutant: the events are read first.
LogFirst == "log"

\* What logs reads first
ReadFirst == "state"

OtherThan(file) == IF file = "state" THEN "log" ELSE "state"

Step(file) == IF file = ReadFirst THEN OtherThan(file) ELSE "answer"

AskPage ==
  /\ client.pc = "idle"
  /\ client' = [client EXCEPT !.pc = ReadFirst]
  /\ UNCHANGED <<status, events, line, writing, launcher, gathered>>

\* _read_operation
ReadOperation ==
  /\ client.pc = "state"
  /\ client' = [client EXCEPT !.pc = Step("state"), !.status = status]
  /\ UNCHANGED <<status, events, line, writing, launcher, gathered>>

\* _read_events: a last line without an end counts when it is whole JSON, and
\* is left for the next page when it is not.
ReadEvents ==
  /\ client.pc = "log" /\ ~Contains(events, "garbled")
  /\ \E seen \in {Len(events)} \cup (IF line = "half" THEN {Len(events) + 1} ELSE {}) :
       client' = [client EXCEPT !.pc = Step("log"),
                    !.page = SubSeq([i \in 1..seen |-> i], client.after + 1, Min({seen, client.after + Limit}))]
  /\ UNCHANGED <<status, events, line, writing, launcher, gathered>>

\* A request ends with an error, by any other line that is no event as well.
PageFails ==
  /\ client.pc \in {"state", "log", "answer"}
  /\ client' = [client EXCEPT !.pc = "idle", !.page = <<>>]
  /\ UNCHANGED <<status, events, line, writing, launcher, gathered>>

NextSeq(page, after) == IF page = <<>> THEN after ELSE Last(page)

\* The client takes the page and the cursor, and asks no more when the
\* operation is over and the page not full.
TakePage ==
  /\ client.pc = "answer"
  /\ gathered' = gathered \o client.page
  /\ client' = [client EXCEPT !.after = NextSeq(client.page, client.after), !.page = <<>>,
                  !.pc = IF client.status # "open" /\ Len(client.page) < Limit THEN "satisfied" ELSE "idle"]
  /\ UNCHANGED <<status, events, line, writing, launcher>>

LogNext ==
  \/ BeginAppend \/ EndAppend \/ Complete \/ GoesWrong \/ Close \/ LauncherDies \/ Recover
  \/ AskPage \/ ReadOperation \/ ReadEvents \/ PageFails \/ TakePage

LogSpec == LogInit /\ [][LogNext]_logVars

-----------------------------------------------------------------------------
\* A client that follows the cursor misses no event and has none twice, also
\* while the launcher appends, when a page is full, and when a half line was
\* taken for an event.
EventsInOrder == gathered = [i \in 1..Len(gathered) |-> i]

\* A client that hears that the operation failed, with a page that is not
\* full, has every event of it, the failure included.  One that hears that it
\* is ready has every event but, possibly, the failure of its launcher after
\* that (the state is read before the events, and written after them).
OverMeansAll ==
  client.pc = "satisfied" =>
    \A i \in Len(gathered) + 1 .. Len(events) : client.status = "ready" /\ events[i] = "late"

\* A client that follows the log gets all of it, in order, once.
LogComplete == EventsInOrder /\ OverMeansAll
=============================================================================
