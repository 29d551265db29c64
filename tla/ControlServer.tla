---------------------------- MODULE ControlServer ----------------------------
(***************************************************************************)
(* The server of the control transport (ControlServer of                   *)
(* backend/app/native_gpu/transport.py): one thread accepts connections,   *)
(* each is handled by a thread of its own, and a semaphore bounds them.  A *)
(* connection that finds no slot is closed at once.  A client may fall     *)
(* silent at any point of its request.                                     *)
(***************************************************************************)
EXTENDS Naturals, FiniteSets

CONSTANTS Connections, MaxWorkers

ASSUME WorkersAssumption == MaxWorkers \in Nat \ {0}
ASSUME ConnectionsAssumption == IsFiniteSet(Connections)

VARIABLES
  slots,      \* what is left of worker_slots
  conn,       \* connection -> where its handler is
  client,     \* connection -> what its client does
  answer      \* connection -> what it was answered

transportVars == <<slots, conn, client, answer>>

TransportInit ==
  /\ slots = MaxWorkers
  /\ conn = [c \in Connections |-> "none"]
  /\ client = [c \in Connections |-> "speaks"]
  /\ answer = [c \in Connections |-> "none"]

Goto(c, pc) == conn' = [conn EXCEPT ![c] = pc]
Reply(c, a) == answer' = [answer EXCEPT ![c] = a]

Handled(c) == conn[c] \in {"accepted", "headers", "draining", "body", "dispatch", "reply", "close"}

Connect(c) ==
  /\ conn[c] = "none"
  /\ Goto(c, "waiting")
  /\ UNCHANGED <<slots, client, answer>>

\* process_request of a server that is full
TurnAway(c) ==
  /\ conn[c] = "waiting"
  /\ slots = 0
  /\ Goto(c, "closed") /\ Reply(c, "turned away")
  /\ UNCHANGED <<slots, client>>

Accept(c) ==
  /\ conn[c] = "waiting"
  /\ slots > 0
  /\ slots' = slots - 1
  /\ Goto(c, "accepted")
  /\ UNCHANGED <<client, answer>>

\* The thread is started, or fails to: then the slot goes back and the
\* connection is closed.
StartHandler(c) ==
  /\ conn[c] = "accepted"
  /\ \/ Goto(c, "headers") /\ UNCHANGED <<slots, answer>>
     \/ Goto(c, "closed") /\ Reply(c, "turned away") /\ slots' = slots + 1
  /\ UNCHANGED client

\* The head of the request arrives: it is refused, once its body was read
\* and thrown away, or its body is read.
Headers(c) ==
  /\ conn[c] = "headers" /\ client[c] = "speaks"
  /\ \E next \in {"draining", "body"} : Goto(c, next)
  /\ UNCHANGED <<slots, client, answer>>

Body(c) ==
  /\ conn[c] \in {"draining", "body"} /\ client[c] = "speaks"
  /\ \/ /\ Goto(c, IF conn[c] = "body" THEN "dispatch" ELSE "reply")
        /\ Reply(c, IF conn[c] = "body" THEN "none" ELSE "refused")
     \/ conn[c] = "body" /\ Goto(c, "reply") /\ Reply(c, "refused")
  /\ UNCHANGED <<slots, client>>

\* dispatch answers or fails; nothing of a failure but a code is told.
Dispatch(c) ==
  /\ conn[c] = "dispatch"
  /\ \E a \in {"done", "refused"} : Reply(c, a)
  /\ Goto(c, "reply")
  /\ UNCHANGED <<slots, client>>

\* What is waited for on the socket does not come within request_timeout.
TimesOut(c) == client[c] = "silent" /\ conn[c] \in {"headers", "draining", "body", "reply"}

\* A head that does not come ends the handler, as an answer nobody takes
\* does; a body that does not come is answered.
Timeout(c) ==
  /\ TimesOut(c)
  /\ IF conn[c] \in {"headers", "reply"} THEN Goto(c, "close") /\ UNCHANGED answer
     ELSE Goto(c, "reply") /\ Reply(c, "refused")
  /\ UNCHANGED <<slots, client>>

\* The answer is written into the socket, or the peer is gone.
WriteReply(c) ==
  /\ conn[c] = "reply"
  /\ Goto(c, "close")
  /\ UNCHANGED <<slots, client, answer>>

\* Mutant: a handler that ends keeps its slot.
SlotKept == slots

SlotFreed == slots + 1

\* process_request_thread ends, whatever became of the handler.
EndHandler(c) ==
  /\ conn[c] = "close"
  /\ Goto(c, "closed")
  /\ slots' = SlotFreed
  /\ UNCHANGED <<client, answer>>

Silent(c) ==
  /\ conn[c] # "closed" /\ client[c] = "speaks"
  /\ client' = [client EXCEPT ![c] = "silent"]
  /\ UNCHANGED <<slots, conn, answer>>

ServerStep(c) ==
  \/ TurnAway(c) \/ Accept(c) \/ StartHandler(c) \/ Headers(c) \/ Body(c)
  \/ Dispatch(c) \/ Timeout(c) \/ WriteReply(c) \/ EndHandler(c)

TransportNext == \E c \in Connections : Connect(c) \/ Silent(c) \/ ServerStep(c)

\* The threads of the server run, timers expire, and a dispatched action
\* ends: each of them waits with a deadline.
TransportSpec ==
  TransportInit /\ [][TransportNext]_transportVars /\ \A c \in Connections : WF_transportVars(ServerStep(c))

-----------------------------------------------------------------------------
\* Every slot is either free or held by one connection that is handled, also
\* when a thread fails to start: none is lost, none is given back twice.
SlotsAccounted == slots + Cardinality({c \in Connections : Handled(c)}) = MaxWorkers

\* A connection is never held forever: whoever falls silent, each that the
\* server accepted ends, and its slot is free for the next.
EachConnectionEnds == \A c \in Connections : conn[c] = "waiting" ~> conn[c] = "closed"
=============================================================================
