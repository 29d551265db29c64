----------------------------- MODULE VoiceCatalog -----------------------------
(***************************************************************************)
(* The catalogue of GPT-SoVITS models and recordings that is offered for   *)
(* import (backend/app/role_library.py, its routes in backend/app/main.py).*)
(*                                                                         *)
(* A scan walks the directories, in the order the file system lists them,  *)
(* and groups what it finds by the experiment it was trained in; then it   *)
(* merges the candidates the services told of with the experiments.  The   *)
(* order of a listing is a choice.                                         *)
(*                                                                         *)
(* A path, a score (epoch and step as one number), a scope (the checkout), *)
(* a version and a training name are values; Spelled is what is left of a  *)
(* name without its spaces.  The limits on a listing are left out.         *)
(***************************************************************************)
EXTENDS Naturals, Sequences, FiniteSets
LOCAL INSTANCE SequencesExt

CONSTANTS
  WeightRoots,  \* the gpt roots, then the sovits roots: sets of [kind, scope, version, name, score]
  Trainings,    \* directories of the logs: [name, scope, samples]
  Folders,      \* directories of references: [name, scope, samples]
  Told,         \* candidates of gradio, then of the API, in their order
  Service,      \* the service the request is about
  Spelled(_)

VARIABLES
  rootAt,       \* the root that is walked
  unlisted,     \* what is still to come of it
  trained,      \* the trainings still to come
  foldered,     \* the folders still to come
  experiments,  \* in the order they were met
  merged,       \* what has been merged of Told and experiments
  offered,      \* the catalogue
  taken         \* the character made of a candidate

catalogVars == <<rootAt, unlisted, trained, foldered, experiments, merged, offered, taken>>

NoWeight == [kind |-> "none", scope |-> "none", version |-> "none", name |-> "none", score |-> 0]
NoSample == [path |-> "none", sidecar |-> "none", listed |-> FALSE, seconds |-> 0]
Kinds == {"gpt", "sovits"}
NoneTaken == [status |-> "none", gpt |-> NoWeight, sovits |-> NoWeight, ref |-> NoSample, profiles |-> <<>>]

CatalogInit ==
  /\ rootAt = 1 /\ unlisted = WeightRoots[1]
  /\ trained = Trainings /\ foldered = Folders
  /\ experiments = <<>> /\ merged = 0 /\ offered = <<>> /\ taken = NoneTaken

-----------------------------------------------------------------------------
\* Mutant: checkpoints of all versions are one experiment.
AnyVersion(scope, version, name) == [scope |-> scope, version |-> "", name |-> name]

\* The key of an experiment: checkout, version and training name.
KeyOf(scope, version, name) == [scope |-> scope, version |-> version, name |-> name]

NewExperiment(key) == [key |-> key, weights |-> [k \in Kinds |-> {}], best |-> [k \in Kinds |-> NoWeight], groups |-> <<>>]

\* experiment(): its place, after making it if there is none
Places(key) == {i \in DOMAIN experiments : experiments[i].key = key}
With(key) == IF Places(key) = {} THEN Append(experiments, NewExperiment(key)) ELSE experiments
PlaceOf(key) == IF Places(key) = {} THEN Len(experiments) + 1 ELSE CHOOSE i \in Places(key) : TRUE

Adds(e, w) ==
  [e EXCEPT !.weights[w.kind] = @ \cup {w},
            !.best[w.kind] = IF @ = NoWeight \/ w.score > @.score THEN w ELSE @]

\* A checkpoint comes up in the walk.
MeetWeight(w) ==
  /\ w \in unlisted
  /\ LET key == KeyOf(w.scope, w.version, w.name)
     IN experiments' = [With(key) EXCEPT ![PlaceOf(key)] = Adds(@, w)]
  /\ unlisted' = unlisted \ {w}
  /\ UNCHANGED <<rootAt, trained, foldered, merged, offered, taken>>

NextRoot ==
  /\ unlisted = {} /\ rootAt <= Len(WeightRoots)
  /\ rootAt' = rootAt + 1
  /\ unlisted' = IF rootAt < Len(WeightRoots) THEN WeightRoots[rootAt + 1] ELSE {}
  /\ UNCHANGED <<trained, foldered, experiments, merged, offered, taken>>

WeightsMet == unlisted = {} /\ rootAt > Len(WeightRoots)

\* A sample's text is that of its sidecar, or for a training of its list.
HasText(s, logs) == s.sidecar = "text" \/ (logs /\ s.listed)
Sample(s, logs) == [s EXCEPT !.sidecar = IF HasText(s, logs) THEN "text" ELSE "none"]
GroupOf(g, logs) == [name |-> g.name, scope |-> g.scope, logs |-> logs, samples |-> [i \in DOMAIN g.samples |-> Sample(g.samples[i], logs)]]
AttachedTo(S, g) == [i \in DOMAIN experiments |-> IF i \in S THEN [experiments[i] EXCEPT !.groups = Append(@, g)] ELSE experiments[i]]

\* The recordings of a training belong to every version of its experiment,
\* or to one of their own.
MeetTraining(t) ==
  /\ WeightsMet /\ t \in trained
  /\ trained' = trained \ {t}
  /\ LET S == {i \in DOMAIN experiments : experiments[i].key.scope = t.scope /\ experiments[i].key.name = t.name}
     IN experiments' = IF t.samples = <<>> THEN experiments
                       ELSE IF S = {} THEN Append(experiments, [NewExperiment(KeyOf(t.scope, "", t.name)) EXCEPT !.groups = <<GroupOf(t, TRUE)>>])
                       ELSE AttachedTo(S, GroupOf(t, TRUE))
  /\ UNCHANGED <<rootAt, unlisted, foldered, merged, offered, taken>>

\* A folder of references belongs to the only experiment of its name.
MeetFolder(f) ==
  /\ WeightsMet /\ trained = {} /\ f \in foldered
  /\ foldered' = foldered \ {f}
  /\ LET S == {i \in DOMAIN experiments : experiments[i].key.name = f.name}
     IN experiments' = IF f.samples = <<>> \/ Cardinality(S) > 1 THEN experiments
                       ELSE IF S = {} THEN Append(experiments, [NewExperiment(KeyOf(f.scope, "", f.name)) EXCEPT !.groups = <<GroupOf(f, FALSE)>>])
                       ELSE AttachedTo(S, GroupOf(f, FALSE))
  /\ UNCHANGED <<rootAt, unlisted, trained, merged, offered, taken>>

Walked == WeightsMet /\ trained = {} /\ foldered = {}

-----------------------------------------------------------------------------
\* An experiment as a candidate; those that share a name get a variant.
Variant(e) ==
  IF Cardinality({i \in DOMAIN experiments : experiments[i].key.name = e.key.name}) > 1
  THEN <<e.key.scope, e.key.version>> ELSE <<>>

AsCandidate(e) ==
  [service |-> Service, name |-> e.key.name, variant |-> Variant(e), weights |-> e.weights, best |-> e.best,
   groups |-> e.groups]

SameEntry(a, b) == a.service = b.service /\ Spelled(a.name) = Spelled(b.name) /\ a.variant = b.variant

\* _merge_options for groups: the first of each id stays.  The id of a group
\* tells its directory's name and whether it is a training, not its checkout.
GroupId(g) == <<g.name, g.logs>>
Distinct(groups) ==
  FoldLeft(LAMBDA kept, g : IF \E i \in DOMAIN kept : GroupId(kept[i]) = GroupId(g) THEN kept ELSE Append(kept, g), <<>>, groups)

\* _merge_model_catalog_candidate: options are joined, what is recommended
\* first stays.
Joined(a, b) ==
  [a EXCEPT !.weights = [k \in Kinds |-> a.weights[k] \cup b.weights[k]],
            !.best = [k \in Kinds |-> IF a.best[k] = NoWeight THEN b.best[k] ELSE a.best[k]],
            !.groups = Distinct(@ \o b.groups)]

MergeInto(c) ==
  LET S == {i \in DOMAIN offered : SameEntry(offered[i], c)}
  IN offered' = IF S = {} THEN Append(offered, c)
                ELSE [i \in DOMAIN offered |-> IF i \in S THEN Joined(offered[i], c) ELSE offered[i]]

MergeNext ==
  /\ Walked /\ merged < Len(Told) + Len(experiments)
  /\ merged' = merged + 1
  /\ IF merged < Len(Told) THEN MergeInto(Told[merged + 1])
     ELSE MergeInto(AsCandidate(experiments[merged + 1 - Len(Told)]))
  /\ UNCHANGED <<rootAt, unlisted, trained, foldered, experiments, taken>>

\* The first recording with a text that lasts 3 to 10 seconds
Fit(s) == s.sidecar = "text" /\ s.seconds \in 3..10
FitAt(gs) == {<<i, j>> \in (DOMAIN gs) \X UNION {DOMAIN gs[i].samples : i \in DOMAIN gs} :
               j \in DOMAIN gs[i].samples /\ Fit(gs[i].samples[j])}
Sooner(a, b) == a[1] < b[1] \/ (a[1] = b[1] /\ a[2] <= b[2])
FirstFit(gs) ==
  IF FitAt(gs) = {} THEN NoSample
  ELSE LET a == CHOOSE a \in FitAt(gs) : \A b \in FitAt(gs) : Sooner(a, b) IN gs[a[1]].samples[a[2]]

\* candidate_to_character: confirmed if the GPT voice is complete; IndexTTS
\* takes any recording.
AsCharacter(c) ==
  LET ref == FirstFit(c.groups)
      gpt == IF c.best["gpt"] # NoWeight \/ c.best["sovits"] # NoWeight \/ ref # NoSample THEN <<"gpt">> ELSE <<>>
  IN [status |-> IF c.best["gpt"] # NoWeight /\ c.best["sovits"] # NoWeight /\ ref # NoSample THEN "confirmed" ELSE "partial",
      gpt |-> c.best["gpt"], sovits |-> c.best["sovits"], ref |-> ref,
      profiles |-> gpt \o (IF c.groups # <<>> THEN <<"index">> ELSE <<>>)]

Take(i) ==
  /\ Walked /\ merged = Len(Told) + Len(experiments) /\ taken = NoneTaken
  /\ i \in DOMAIN offered
  /\ taken' = AsCharacter(offered[i])
  /\ UNCHANGED <<rootAt, unlisted, trained, foldered, experiments, merged, offered>>

CatalogNext ==
  \/ \E w \in unlisted : MeetWeight(w)
  \/ NextRoot
  \/ \E t \in trained : MeetTraining(t)
  \/ \E f \in foldered : MeetFolder(f)
  \/ MergeNext
  \/ \E i \in DOMAIN offered : Take(i)

CatalogSpec == CatalogInit /\ [][CatalogNext]_catalogVars

-----------------------------------------------------------------------------
Weights == UNION {WeightRoots[i] : i \in DOMAIN WeightRoots}
Kindred(v, w) == v.kind = w.kind /\ v.scope = w.scope /\ v.version = w.version /\ v.name = w.name
ToldOf(c) == {i \in DOMAIN Told : SameEntry(Told[i], c)}

\* However the directories are listed: of a model the services did not tell
\* of, the checkpoints offered together were trained together, the ones
\* recommended are the latest, and every checkpoint is offered once.
ModelsWhole ==
  taken # NoneTaken =>
    /\ \A w \in Weights : Cardinality({i \in DOMAIN offered : w \in offered[i].weights[w.kind]}) = 1
    /\ \A i \in DOMAIN offered : ToldOf(offered[i]) = {} =>
         \A k, l \in Kinds : \A v \in offered[i].weights[k], w \in offered[i].weights[l] :
           /\ v.scope = w.scope /\ v.version = w.version /\ v.name = w.name
           /\ offered[i].best[k] \in offered[i].weights[k] /\ offered[i].best[k].score >= v.score

\* A recording is never offered with a model it may not belong to: that of a
\* training with another training, that of a folder with one of two models
\* of its name.
RecordingsFit ==
  taken # NoneTaken => \A i \in DOMAIN offered : \A g \in DOMAIN offered[i].groups :
    LET e == offered[i]
        group == e.groups[g]
    IN ToldOf(e) = {} =>
         /\ group.name = e.name
         /\ ~group.logs => \A j \in DOMAIN offered : j # i /\ offered[j].service = e.service => offered[j].name # e.name

\* The voice of a confirmed character is complete, and its reference is one
\* GPT-SoVITS accepts.
ConfirmedSpeaks ==
  taken.status = "confirmed" => taken.gpt # NoWeight /\ taken.sovits # NoWeight /\ Fit(taken.ref)

CatalogKept == ModelsWhole /\ RecordingsFit /\ ConfirmedSpeaks
=============================================================================
