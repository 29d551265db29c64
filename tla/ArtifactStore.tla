--------------------------- MODULE ArtifactStore ---------------------------
(***************************************************************************)
(* Files that pass between the application and a worker on another machine *)
(* (backend/app/workers/artifacts.py, HttpTTSServiceClient in services.py).*)
(*                                                                         *)
(* The worker keeps uploaded references and the audio it made under fresh  *)
(* ids, and every request to it first removes what is older than Ttl.  The *)
(* client remembers for CacheFor where a reference was put, names that     *)
(* place in its next calls, downloads the audio and has it deleted.        *)
(*                                                                         *)
(* Time is counted in steps; an answer that takes longer than Timeout is   *)
(* given up by the client.                                                 *)
(***************************************************************************)
EXTENDS Naturals, FiniteSets

CONSTANTS Calls,        \* calls of synthesize, all with the same reference
          Ttl, CacheFor, Timeout,
          MaxTime,      \* bound on time
          MaxIds,       \* bound on the files ever made
          NoId

\* 24 hours, 23 hours at most and perhaps none, and an hour for what is on
\* the way
ASSUME TimeAssumption ==
  /\ Ttl \in Nat /\ CacheFor \in Nat /\ Timeout \in Nat
  /\ CacheFor + 2 * Timeout <= Ttl + 1 /\ 2 * Timeout <= Ttl
ASSUME FileIdAssumption == MaxIds \in Nat /\ NoId \notin 1..MaxIds

VARIABLES
  now,
  files,     \* id -> when it was written last and what it holds; only those there
  ids,       \* how many ids were given out
  cached,    \* _uploaded_references: the id and since when
  call,      \* call -> what it is doing, its files, since when it waits
  output     \* call -> what is at its output path

artifactVars == <<now, files, ids, cached, call, output>>

Reference == "reference"
Partial == "partial"
NoAudio == "no-audio"

ArtifactInit ==
  /\ now = 0
  /\ files = <<>>
  /\ ids = 0
  /\ cached = [id |-> NoId, since |-> 0]
  /\ call = [c \in Calls |-> [pc |-> "start", ref |-> NoId, out |-> NoId, since |-> 0, got |-> NoAudio]]
  /\ output = [c \in Calls |-> NoAudio]

There(i) == i \in DOMAIN files
Age(i) == now - files[i].at

Expired(i) == Age(i) > Ttl

\* cleanup
Swept == [i \in {k \in DOMAIN files : ~Expired(k)} |-> files[i]]

Put(s, i, content) == [k \in DOMAIN s \cup {i} |-> IF k = i THEN [at |-> now, holds |-> content] ELSE s[k]]
Drop(s, i) == [k \in DOMAIN s \ {i} |-> s[k]]
SetCall(c, f) == call' = [call EXCEPT ![c] = f]

At(c, pc) == [call[c] EXCEPT !.pc = pc, !.since = now]

-----------------------------------------------------------------------------
\* Mutant: the client remembers a reference for good.
CachedForGood == cached.id # NoId

\* _upload_reference: the place remembered is still good
CacheHit == cached.id # NoId /\ now - cached.since < CacheFor

UseCached(c) ==
  /\ call[c].pc = "start"
  /\ CacheHit
  /\ SetCall(c, [At(c, "prepared") EXCEPT !.ref = cached.id])
  /\ UNCHANGED <<now, files, ids, cached, output>>

\* save_upload; the answer is on its way
Upload(c) ==
  /\ call[c].pc = "start"
  /\ ~CacheHit
  /\ ids < MaxIds
  /\ ids' = ids + 1
  /\ files' = Put(Swept, ids + 1, Reference)
  /\ SetCall(c, [At(c, "uploaded") EXCEPT !.ref = ids + 1])
  /\ UNCHANGED <<now, cached, output>>

Uploaded(c) ==
  /\ call[c].pc = "uploaded"
  /\ cached' = [id |-> call[c].ref, since |-> now]
  /\ SetCall(c, At(c, "prepared"))
  /\ UNCHANGED <<now, files, ids, output>>

\* POST /synthesize: allocate_output, the worker's own time, then the
\* reference is read and the audio written where it stays.
Synthesize(c) ==
  /\ call[c].pc = "prepared"
  /\ ids < MaxIds
  /\ ids' = ids + 1
  /\ files' = Swept
  /\ SetCall(c, [call[c] EXCEPT !.pc = "reading", !.out = ids + 1])
  /\ UNCHANGED <<now, cached, output>>

Read(c) ==
  /\ call[c].pc = "reading"
  /\ IF There(call[c].ref)
     THEN SetCall(c, [call[c] EXCEPT !.pc = "writing"]) /\ files' = Put(files, call[c].out, Partial)
     ELSE SetCall(c, At(c, "failed")) /\ UNCHANGED files
  /\ UNCHANGED <<now, ids, cached, output>>

\* The rest of the file, and describe
WriteAudio(c) ==
  /\ call[c].pc = "writing"
  /\ files' = Put(files, call[c].out, c)
  /\ SetCall(c, At(c, "described"))
  /\ UNCHANGED <<now, ids, cached, output>>

\* GET /artifacts/{id}: cleanup and resolve find the file; it is opened when
\* the answer is sent, and the answer may be cut short.
Download(c) ==
  /\ call[c].pc = "described"
  /\ files' = Swept
  /\ \E got \in {Partial, IF call[c].out \in DOMAIN Swept THEN files[call[c].out].holds ELSE NoAudio} :
       SetCall(c, [call[c] EXCEPT !.pc = "checking", !.got = got])
  /\ UNCHANGED <<now, ids, cached, output>>

\* The size and the sha256 of the description
ContentFits(c) == call[c].got = c

\* _download_artifact: a temporary file takes the output's place.
Keep(c) ==
  /\ call[c].pc = "checking"
  /\ IF ContentFits(c)
     THEN output' = [output EXCEPT ![c] = call[c].got] /\ SetCall(c, At(c, "deleting"))
     ELSE SetCall(c, At(c, "failed")) /\ UNCHANGED output
  /\ UNCHANGED <<now, files, ids, cached>>

\* DELETE /artifacts/{id}; its answer may be lost.
Delete(c) ==
  /\ call[c].pc = "deleting"
  /\ files' = Drop(Swept, call[c].out)
  /\ \E pc \in {"done", "failed"} : SetCall(c, At(c, pc))
  /\ UNCHANGED <<now, ids, cached, output>>

\* Any other request to the worker
OtherRequest ==
  /\ Swept # files
  /\ files' = Swept
  /\ UNCHANGED <<now, ids, cached, call, output>>

Waiting(c) == call[c].pc \notin {"start", "done", "failed"}

\* The client gives up, or the connection breaks.
GiveUp(c) ==
  /\ Waiting(c)
  /\ SetCall(c, At(c, "failed"))
  /\ UNCHANGED <<now, files, ids, cached, output>>

\* No call waits longer than its timeout.
Tick ==
  /\ now < MaxTime
  /\ \A c \in Calls : Waiting(c) => now - call[c].since < Timeout
  /\ now' = now + 1
  /\ UNCHANGED <<files, ids, cached, call, output>>

ArtifactNext ==
  \/ \E c \in Calls : UseCached(c) \/ Upload(c) \/ Uploaded(c) \/ Synthesize(c) \/ Read(c) \/ WriteAudio(c)
                        \/ Download(c) \/ Keep(c) \/ Delete(c) \/ GiveUp(c)
  \/ OtherRequest \/ Tick

ArtifactSpec == ArtifactInit /\ [][ArtifactNext]_artifactVars

-----------------------------------------------------------------------------
\* Type invariant of the worker's files and the client's memory.
ArtifactTypeOK ==
  /\ ids \in 0..MaxIds /\ DOMAIN files \subseteq 1..ids
  /\ cached.id \in 1..ids \cup {NoId} /\ cached.since <= now
  /\ \A i \in DOMAIN files : files[i].at <= now
  /\ \A c \in Calls : call[c].since <= now /\ call[c].ref \in 1..ids \cup {NoId} /\ call[c].out \in 1..ids \cup {NoId}

\* A file is there as long as a call has use for it: the reference when the
\* worker reads it, though it may have been uploaded for an earlier call and
\* every request sweeps, and the audio until the client has fetched it.
KeptWhileNeeded ==
  \A c \in Calls :
    /\ call[c].pc \in {"prepared", "reading"} => There(call[c].ref)
    /\ call[c].pc = "described" => There(call[c].out)

\* What is at the output path is the whole audio of this call, whatever the
\* transfer lost and whatever other calls left on the worker.
OutputWhole == \A c \in Calls : output[c] \in {NoAudio, c}

\* The files that pass to and from a worker are there while they are needed, and
\* arrive whole.
ArtifactsKept == ArtifactTypeOK /\ KeptWhileNeeded /\ OutputWhole
=============================================================================
