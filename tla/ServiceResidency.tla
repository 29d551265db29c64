-------------------------- MODULE ServiceResidency --------------------------
(***************************************************************************)
(* Which voice a speech worker holds, and what the generation queue takes  *)
(* it to hold (backend/app/queue.py, services.py, workers/).               *)
(*                                                                         *)
(* A job asks the router for the services of its lines, then works its     *)
(* clusters off, each under a slot of its resource group: it unloads the   *)
(* group's other service, has the voice loaded unless the queue remembers  *)
(* that it is, and has the line spoken.  A worker keeps one voice; it is a *)
(* process of its own and speaks with the voice it holds, not the one that *)
(* is asked for.  A change of the registry puts a new queue, which         *)
(* remembers nothing, beside the one that running jobs use.  The clusters  *)
(* of a job are of one group here; GenerationJobs has jobs of several.     *)
(***************************************************************************)
EXTENDS Naturals, FiniteSets, Sequences

CONSTANTS Services,
          Group,         \* service -> its resource group
          Capacity,      \* group -> the number of its slots
          Voices,
          NoVoice,       \* nothing resident
          Plain,         \* the pipeline with the weights of its configuration
          Mixed,         \* some weights of one voice, some of another
          NoService,
          Jobs,
          ByPriority,    \* the enabled speech services, in the registry's order
          Clusters,      \* job -> its clusters: the services named, whether by
                         \* a voice binding, the services that can read the
                         \* binding's files, the voices of the lines
          MaxQueues,     \* bound on the queues made
          LateFailures,  \* a call may fail when half or all of it is done
          MayRestart     \* a worker may die, and is started again

ASSUME VoiceAssumption == {NoVoice, Plain, Mixed} \cap Voices = {} /\ NoService \notin Services
ASSUME PriorityAssumption == ByPriority \in Seq(Services)
ASSUME ClusterAssumption ==
  /\ Clusters \in [Jobs -> Seq([named : Seq(Services), bound : BOOLEAN, reach : SUBSET Services, voices : Seq(Voices)])]
  /\ \A j \in Jobs : Clusters[j] # <<>> /\ \A c \in DOMAIN Clusters[j] : Clusters[j][c].voices # <<>>

VARIABLES
  ready,     \* the workers that are up
  holds,     \* service -> what its worker holds
  queues,    \* the queues made, the last one in use: jobs inside, voice
             \* remembered for each service, active service of each group
  job,       \* job -> what it is doing
  spoilt,    \* history: services that lost or mixed their voice unasked
  made       \* history: the lines made, as asked for and as spoken

residencyVars == <<ready, holds, queues, job, spoilt, made>>

Groups == {Group[s] : s \in Services}
NewQueue == [inside |-> {}, remembers |-> [s \in Services |-> NoVoice],
             active |-> [g \in Groups |-> NoService]]

ResidencyInit ==
  /\ ready = Services
  /\ holds = [s \in Services |-> NoVoice]
  /\ queues = <<NewQueue>>
  /\ job = [j \in Jobs |-> [pc |-> "start", queue |-> 1, routes |-> <<>>, cluster |-> 1, line |-> 1,
                            hears |-> NoVoice]]
  /\ spoilt = {}
  /\ made = {}

-----------------------------------------------------------------------------
(***************************************************************************)
(* Routing: all lines of a job are routed before any is spoken.            *)
(***************************************************************************)
\* _is_generation_candidate
Enabled == {ByPriority[i] : i \in DOMAIN ByPriority}

\* _candidate_endpoints_for_binding, _candidate_endpoints: the services a line
\* names, its own and its fallbacks; a binding that names some is content with
\* no other.  One that is there twice is tried once, which makes no difference.
Candidates(c) == IF c.bound /\ c.named # <<>> THEN c.named ELSE c.named \o ByPriority

\* _endpoint_can_use_binding
CanUse(s, c) == c.bound => s \in c.reach

\* resolve_task: the first candidate that can speak the line and is ready
Resolve(c) ==
  LET tried == Candidates(c)
      fit == {i \in DOMAIN tried : tried[i] \in Enabled \cap ready /\ CanUse(tried[i], c)}
  IN IF fit = {} THEN NoService ELSE tried[CHOOSE i \in fit : \A k \in fit : i <= k]

Routes(j) == [c \in DOMAIN Clusters[j] |-> Resolve(Clusters[j][c])]

Queue(j) == job[j].queue
Cluster(j) == Clusters[j][job[j].cluster]
Route(j) == job[j].routes[job[j].cluster]
Voice(j) == Cluster(j).voices[job[j].line]
GroupOf(j) == Group[Route(j)]
Go(j, pc) == job' = [job EXCEPT ![j].pc = pc]

\* ServiceGenerationQueue.run, of the queue in use
BeginJob(j) ==
  /\ job[j].pc = "start"
  /\ job' = [job EXCEPT ![j].queue = Len(queues), ![j].routes = Routes(j),
               ![j].pc = IF \E c \in DOMAIN Clusters[j] : Routes(j)[c] = NoService THEN "failed" ELSE "waiting"]
  /\ UNCHANGED <<ready, holds, queues, spoilt, made>>

\* Jobs of queue q in the section of group g
Inside(q, g) == {k \in queues[q].inside : GroupOf(k) = g}

\* _resource_semaphore
SlotFree(j) == Cardinality(Inside(Queue(j), GroupOf(j))) < Capacity[GroupOf(j)]

Enter(j) ==
  /\ job[j].pc = "waiting"
  /\ SlotFree(j)
  /\ queues' = [queues EXCEPT ![Queue(j)].inside = @ \cup {j}]
  /\ Go(j, "evict")
  /\ UNCHANGED <<ready, holds, spoilt, made>>

Without(j) == [queues EXCEPT ![Queue(j)].inside = @ \ {j}]

\* An exception ends the job; the semaphore is released on the way.
Fails(j) == Go(j, "failed") /\ queues' = Without(j)

-----------------------------------------------------------------------------
(***************************************************************************)
(* Workers.  A load or an unload while a line is being spoken changes the  *)
(* voice of that line.                                                     *)
(***************************************************************************)
Disturb(s, j, pc, v) ==
  job' = [k \in Jobs |->
            IF k = j THEN [job[k] EXCEPT !.pc = pc]
            ELSE IF job[k].pc = "speaking" /\ Route(k) = s THEN [job[k] EXCEPT !.hears = v]
            ELSE job[k]]

Holds(s, v) == holds' = [holds EXCEPT ![s] = v]

Active(j) == queues[Queue(j)].active[GroupOf(j)]

\* What a queue remembers once it has unloaded a service
Unloaded(q, s) == [q.remembers EXCEPT ![s] = NoVoice]

\* _evict_other_service: the group's other service gives its memory back.
Evict(j) ==
  /\ job[j].pc = "evict"
  /\ LET s == Active(j)
     IN \/ /\ s \in {NoService, Route(j)}
           /\ Go(j, "load")
           /\ UNCHANGED <<holds, queues>>
        \/ /\ s \notin {NoService, Route(j)}
           /\ s \in ready
           /\ Holds(s, NoVoice)
           /\ Disturb(s, j, "load", holds[s])
           /\ queues' = [queues EXCEPT ![Queue(j)].active[GroupOf(j)] = NoService,
                                       ![Queue(j)].remembers = Unloaded(queues[Queue(j)], s)]
  /\ UNCHANGED <<ready, spoilt, made>>

\* No answer to the unload: it may have been done all the same, and the
\* queue goes on remembering the service.
EvictFails(j) ==
  /\ job[j].pc = "evict"
  /\ Active(j) \notin {NoService, Route(j)}
  /\ Fails(j)
  /\ \/ UNCHANGED <<holds, spoilt>>
     \/ /\ LateFailures /\ Active(j) \in ready
        /\ Holds(Active(j), NoVoice)
        /\ spoilt' = spoilt \cup {Active(j)}
  /\ UNCHANGED <<ready, made>>

\* Mutant: what is remembered of any voice will do.
RemembersSome(j) == queues[Queue(j)].remembers[Route(j)] # NoVoice

\* The load signature the queue has for the service is the line's.
Remembers(j) == queues[Queue(j)].remembers[Route(j)] = Voice(j)

\* Nothing to load
Reuse(j) ==
  /\ job[j].pc = "load"
  /\ Remembers(j)
  /\ queues' = [queues EXCEPT ![Queue(j)].active[GroupOf(j)] = Route(j)]
  /\ Go(j, "speak")
  /\ UNCHANGED <<ready, holds, spoilt, made>>

\* POST /load, _mark_loaded
Load(j) ==
  /\ job[j].pc = "load"
  /\ ~Remembers(j)
  /\ Route(j) \in ready
  /\ Holds(Route(j), Voice(j))
  /\ Disturb(Route(j), j, "speak", Mixed)
  /\ queues' = [queues EXCEPT ![Queue(j)].remembers[Route(j)] = Voice(j),
                              ![Queue(j)].active[GroupOf(j)] = Route(j)]
  /\ spoilt' = spoilt \ {Route(j)}
  /\ UNCHANGED <<ready, made>>

\* It fails before it starts, between one file of weights and the other, or
\* in the client alone, which waits two minutes.  The queue notes the error
\* and keeps the signature it had.
LoadFails(j) ==
  /\ job[j].pc = "load"
  /\ ~Remembers(j)
  /\ Fails(j)
  /\ \/ UNCHANGED <<holds, spoilt>>
     \/ /\ LateFailures /\ Route(j) \in ready
        /\ \E v \in {Mixed, Voice(j)} : Holds(Route(j), v)
        /\ spoilt' = spoilt \cup {Route(j)}
  /\ UNCHANGED <<ready, made>>

\* POST /synthesize: a worker that holds nothing builds its pipeline.
Speak(j) ==
  /\ job[j].pc = "speak"
  /\ Route(j) \in ready
  /\ LET held == IF holds[Route(j)] = NoVoice THEN Plain ELSE holds[Route(j)]
     IN Holds(Route(j), held) /\ job' = [job EXCEPT ![j].pc = "speaking", ![j].hears = held]
  /\ UNCHANGED <<ready, queues, spoilt, made>>

MoreLines(j) == job[j].line < Len(Cluster(j).voices)

\* The next line, the next cluster, or the end
Onward(j) ==
  IF MoreLines(j) THEN [job[j] EXCEPT !.line = @ + 1, !.pc = "evict"]
  ELSE IF job[j].cluster < Len(Clusters[j]) THEN [job[j] EXCEPT !.cluster = @ + 1, !.line = 1, !.pc = "waiting"]
  ELSE [job[j] EXCEPT !.pc = "done"]

\* The line is made.
Spoken(j) ==
  /\ job[j].pc = "speaking"
  /\ made' = made \cup {[by |-> j, on |-> Route(j), asked |-> Voice(j), heard |-> job[j].hears,
                         spoilt |-> Route(j) \in spoilt, queues |-> Len(queues)]}
  /\ queues' = LET q == IF MoreLines(j) THEN queues ELSE Without(j)
               IN [q EXCEPT ![Queue(j)].remembers[Route(j)] = Voice(j)]
  /\ job' = [job EXCEPT ![j] = Onward(j)]
  /\ UNCHANGED <<ready, holds, spoilt>>

SpeakFails(j) ==
  /\ job[j].pc \in {"speak", "speaking"}
  /\ Fails(j)
  /\ UNCHANGED <<ready, holds, spoilt, made>>

\* cancel_check before a cluster, before a line and around its synthesis:
\* the section is left.
Cancel(j) ==
  /\ job[j].pc \in {"waiting", "evict", "speak", "speaking"}
  /\ Go(j, "cancelled")
  /\ queues' = Without(j)
  /\ UNCHANGED <<ready, holds, spoilt, made>>

\* A worker dies, with the lines it speaks, and is started again.
Dies(s) ==
  /\ MayRestart /\ s \in ready
  /\ ready' = ready \ {s}
  /\ Holds(s, NoVoice)
  /\ spoilt' = spoilt \cup {s}
  /\ LET cut == {j \in Jobs : job[j].pc = "speaking" /\ Route(j) = s}
     IN /\ job' = [j \in Jobs |-> IF j \in cut THEN [job[j] EXCEPT !.pc = "failed"] ELSE job[j]]
        /\ queues' = [q \in DOMAIN queues |-> [queues[q] EXCEPT !.inside = @ \ cut]]
  /\ UNCHANGED made

Starts(s) ==
  /\ s \notin ready
  /\ ready' = ready \cup {s}
  /\ UNCHANGED <<holds, queues, job, spoilt, made>>

\* _apply_registry
ApplyRegistry ==
  /\ Len(queues) < MaxQueues
  /\ queues' = Append(queues, NewQueue)
  /\ UNCHANGED <<ready, holds, job, spoilt, made>>

ResidencyNext ==
  \/ \E j \in Jobs : BeginJob(j) \/ Enter(j) \/ Evict(j) \/ EvictFails(j) \/ Reuse(j) \/ Load(j) \/ LoadFails(j)
                       \/ Speak(j) \/ Spoken(j) \/ SpeakFails(j) \/ Cancel(j)
  \/ \E s \in Services : Dies(s) \/ Starts(s)
  \/ ApplyRegistry

ResidencySpec == ResidencyInit /\ [][ResidencyNext]_residencyVars

-----------------------------------------------------------------------------
\* Type invariant of the workers, the queues and the jobs: a job has a slot
\* of its queue from entering a cluster to leaving it, however it leaves.
ResidencyTypeOK ==
  /\ ready \subseteq Services /\ spoilt \subseteq Services
  /\ holds \in [Services -> Voices \cup {NoVoice, Plain, Mixed}]
  /\ \A q \in DOMAIN queues :
       /\ queues[q].inside = {j \in Jobs : job[j].queue = q /\ job[j].pc \in {"evict", "load", "speak", "speaking"}}
       /\ queues[q].remembers \in [Services -> Voices \cup {NoVoice}]
       /\ queues[q].active \in [Groups -> Services \cup {NoService}]

\* The queue's own memory never gives a line another voice: in a group of one
\* slot a line is spoken with a voice that was not asked for only if the
\* worker lost its voice, or failed in the middle of a load, since it was last
\* told to load, or if the registry was changed, which gives a worker two
\* queues.
RightVoiceUnlessSpoilt ==
  \A m \in made : Capacity[Group[m.on]] = 1 => m.heard = m.asked \/ m.spoilt \/ m.queues > 1

\* A group of one slot keeps the voice of one service in memory, unless a
\* worker failed a load half way or there are two queues
\* (_evict_other_service).
OneResident ==
  \A g \in Groups :
    Capacity[g] = 1 =>
      LET kept == {s \in Services : Group[s] = g /\ holds[s] # NoVoice}
      IN Cardinality(kept) <= 1 \/ kept \cap spoilt # {} \/ Len(queues) > 1

\* The queue knows which voice a worker holds, as far as it can, and a group
\* holds one.
VoicesKnown == ResidencyTypeOK /\ RightVoiceUnlessSpoilt /\ OneResident
=============================================================================
