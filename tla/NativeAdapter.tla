--------------------------- MODULE NativeAdapter ---------------------------
(***************************************************************************)
(* Moving the engines of a native TTS process between GPU and CPU          *)
(* (backend/app/native_gpu/adapters.py, driven by guard.py).               *)
(*                                                                         *)
(* An engine has models, tensors kept outside them, direct references to   *)
(* the weights of one model, a device it declares, and caches; the two     *)
(* GPT-SoVITS engines of a process share their caches.  A transition walks *)
(* over all of them, one after the other, and any of its PyTorch calls may *)
(* fail, half way too, or silently do nothing.  NativeGuard has the locks  *)
(* and the coordinator; here the guard is only what its calls decide.      *)
(***************************************************************************)
EXTENDS Naturals, Sequences, SequencesExt

CONSTANT MaxUses   \* bound on the operations of the users

VARIABLES
  expected,    \* the engines this launcher has
  adapters,    \* the registered ones, in their order
  engine,      \* engine -> where its parts are and what its adapter knows
  shared,      \* a cache holds tensors on the GPU
  stray,       \* something no adapter lists has memory on the GPU
  phase,       \* starting | gpu | moving | cpu | closed
  target,      \* where the transition goes
  turn,        \* where it is: at which adapter, and at which step of it
  failure,     \* why the gate is closed, and at which engine
  uses

adapterVars == <<expected, adapters, engine, shared, stray, phase, target, turn, failure, uses>>

Kinds == {{"gpt_webui"}, {"gpt_webui", "gpt_api_v2"}, {"index_v2"}}

\* The fast path of this model keeps references to its weights.
Aliases == {"t2s_model"}

\* One of several fields that are treated alike stands for them.
GptWebui == [models |-> {"t2s_model", "vq_model"}, tensors |-> {"pe", "cache"}, aliases |-> Aliases]
GptApi   == [models |-> {"t2s_model", "vits_model"}, tensors |-> {"pe", "prompt_cache"}, aliases |-> Aliases]
Index    == [models |-> {"gpt", "qwen_emo"}, tensors |-> {"cache_mel"}, aliases |-> {}]
Layout   == [gpt_webui |-> GptWebui, gpt_api_v2 |-> GptApi, index_v2 |-> Index]

Models(e) == Layout[e].models
Fields(e) == Models(e) \cup Layout[e].tensors
HasMap(e) == "qwen_emo" \in Models(e)

\* fits: the layout is one the profile supports.  alias: "same" while the
\* direct references are to the model's own weights, else where the weights
\* they keep alive are.  original and qwen are what the adapter remembers;
\* home is history: where the application had put the models.
NotLoaded(e) ==
  [at |-> [f \in Fields(e) |-> "gpu"], alias |-> "same", declared |-> "gpu", map |-> "gpu", fits |-> TRUE,
   original |-> "none", qwen |-> "none", failed |-> FALSE, home |-> [f \in Fields(e) |-> "gpu"]]

FirstTurn == [at |-> 1, step |-> 1]

AdapterInit ==
  /\ expected \in Kinds
  /\ adapters = <<>>
  /\ engine = [e \in expected |-> NotLoaded(e)]
  /\ shared = FALSE /\ stray = FALSE
  /\ phase = "starting" /\ target = "gpu" /\ turn = FirstTurn
  /\ failure = [why |-> "none", who |-> "none"]
  /\ uses = 0

(***************************************************************************)
(* What an adapter sees                                                    *)
(***************************************************************************)
\* The device of Qwen can be told, and agrees with its device map.
QwenFits(r) == r.at["qwen_emo"] # "split" /\ r.map = r.at["qwen_emo"]

Supported(e, r) == r.fits /\ (HasMap(e) => QwenFits(r)) /\ r.declared \in {"cpu", r.original}

\* The first inventory remembers where the engine belongs.
Remembered(e, r) ==
  [r EXCEPT !.original = IF @ = "none" THEN r.declared ELSE @,
            !.qwen = IF HasMap(e) /\ @ = "none" THEN r.at["qwen_emo"] ELSE @]

RestoreDevice(r, f) == IF f = "qwen_emo" THEN r.qwen ELSE r.original

AllCpu(e, r) == ~shared /\ r.alias \in {"same", "cpu"} /\ \A f \in Fields(e) : r.at[f] = "cpu"
AllOriginal(e, r) == r.alias \in {"same", r.original} /\ \A f \in Fields(e) : r.at[f] = RestoreDevice(r, f)

Residency(e, r) ==
  CASE AllCpu(e, r) /\ r.declared = "cpu" -> "cpu"
    [] AllOriginal(e, r) /\ r.declared = r.original /\ r.original = "gpu" -> "gpu"
    [] OTHER -> "unknown"

Verified(e, r, device) == Supported(e, r) /\ Residency(e, r) = device /\ ~r.failed

(***************************************************************************)
(* Registration and use                                                    *)
(***************************************************************************)
Close(why, e) == phase' = "closed" /\ failure' = [why |-> why, who |-> e]

\* The application has loaded an engine: all of it on the GPU, or one model on
\* the CPU, or in a layout that is not supported.
Placements(e) == {[f \in Fields(e) |-> IF f = g THEN "cpu" ELSE "gpu"] : g \in Models(e) \cup {"none"}}

LoadedAs(e, where, fits) ==
  [NotLoaded(e) EXCEPT !.at = where, !.home = where, !.fits = fits,
                       !.map = IF HasMap(e) THEN where["qwen_emo"] ELSE @]

RegisterComponent(e) ==
  /\ phase = "starting" /\ e \notin ToSet(adapters)
  /\ \E where \in Placements(e), fits \in BOOLEAN :
       LET seen == Remembered(e, LoadedAs(e, where, fits)) IN
       /\ engine' = [engine EXCEPT ![e] = seen]
       /\ IF Verified(e, seen, "gpu")
          THEN /\ adapters' = Append(adapters, e)
               /\ phase' = (IF ToSet(adapters') = expected THEN "gpu" ELSE phase)
               /\ UNCHANGED failure
          ELSE Close("startup", e) /\ UNCHANGED adapters
  /\ UNCHANGED <<expected, shared, stray, target, turn, uses>>

\* An operation of the native application: it fills caches, may load another
\* model, of a version that is not supported too, and may leave memory behind
\* that no adapter lists.
UseEngine(e) ==
  /\ phase = "gpu" /\ uses < MaxUses
  /\ uses' = uses + 1
  /\ shared' \in {shared, TRUE} /\ stray' \in {stray, TRUE}
  /\ \E fits \in BOOLEAN : engine' = [engine EXCEPT ![e].fits = fits]
  /\ UNCHANGED <<expected, adapters, phase, target, turn, failure>>

(***************************************************************************)
(* A transition of all engines                                             *)
(***************************************************************************)
Visits ==
  [gpt_webui |-> <<"inventory", "t2s_model", "vq_model", "pe", "cache", "aliases", "caches", "devices", "verify">>,
   gpt_api_v2 |-> <<"inventory", "set_device", "t2s_model", "vits_model", "pe", "prompt_cache", "aliases", "caches",
                    "devices", "verify">>,
   index_v2 |-> <<"inventory", "gpt", "qwen_emo", "cache_mel", "caches", "devices", "device_maps", "verify">>]

BeginTransition(from, to) ==
  /\ phase = from
  /\ phase' = "moving" /\ target' = to /\ turn' = FirstTurn
  /\ UNCHANGED <<expected, adapters, engine, shared, stray, failure, uses>>

OffloadIdle == BeginTransition("gpu", "cpu")
Restore     == BeginTransition("cpu", "gpu")

Dest(r, f) == IF target = "cpu" THEN "cpu" ELSE RestoreDevice(r, f)

\* A model that moves gets new weights; references to the old ones keep those.
MoveModels(e, r, S) ==
  LET old == {r.at[f] : f \in {g \in S \cap Layout[e].aliases : r.at[g] # Dest(r, g)}}
  IN [r EXCEPT !.at = [f \in DOMAIN @ |-> IF f \in S THEN Dest(r, f) ELSE @[f]],
               !.alias = IF @ = "same" /\ old # {} THEN CHOOSE d \in old : TRUE ELSE @]
MoveTree(r, f) == [r EXCEPT !.at[f] = Dest(r, f)]

\* Mutant: the references are moved like any other tensor.
MovedApart(r) == [r EXCEPT !.alias = IF @ = "same" THEN @ ELSE target]

\* They are bound to the weights the model has now.
Rebound(r) == [r EXCEPT !.alias = "same"]

\* The pipeline's own method moves its models and the device it declares.
SetDevice(e, r) == [MoveModels(e, r, Models(e)) EXCEPT !.declared = target]

Moved(e, r, s) ==
  CASE s = "inventory"   -> Remembered(e, r)
    [] s = "set_device"  -> SetDevice(e, r)
    [] s \in Models(e)   -> MoveModels(e, r, {s})
    [] s = "aliases"     -> Rebound(r)
    [] s = "devices"     -> [r EXCEPT !.declared = target]
    [] s = "device_maps" -> [r EXCEPT !.map = Dest(r, "qwen_emo")]
    [] s = "verify"      -> [r EXCEPT !.failed = FALSE]
    [] s = "caches"      -> r
    [] OTHER             -> MoveTree(r, s)

\* The guard takes one adapter after the other.
Visiting == phase = "moving" /\ turn.at <= Len(adapters)
Who == adapters[turn.at]
What == Visits[Who][turn.step]
NextTurn == IF turn.step < Len(Visits[Who]) THEN [turn EXCEPT !.step = @ + 1] ELSE [at |-> turn.at + 1, step |-> 1]

Visit ==
  /\ Visiting
  /\ What = "inventory" => Supported(Who, Remembered(Who, engine[Who]))
  /\ engine' = [engine EXCEPT ![Who] = Moved(Who, @, What)]
  /\ shared' = (shared /\ What # "caches")
  /\ What = "verify" => Verified(Who, engine'[Who], target)
  /\ turn' = NextTurn
  /\ UNCHANGED <<expected, adapters, stray, phase, target, failure, uses>>

\* The layout has changed: nothing of this engine has been moved yet.
Refuse ==
  /\ Visiting /\ What = "inventory" /\ ~Supported(Who, engine[Who])
  /\ Close("refused", Who)
  /\ UNCHANGED <<expected, adapters, engine, shared, stray, target, turn, uses>>

\* A call raises; a model may have moved in part.
Breaks ==
  /\ Visiting /\ What # "verify"
  /\ \E split \in SUBSET (Models(Who) \cap {What}) :
       engine' = [engine EXCEPT ![Who].failed = TRUE,
                                ![Who].at = [f \in DOMAIN @ |-> IF f \in split THEN "split" ELSE @[f]]]
  /\ Close("broken", Who)
  /\ UNCHANGED <<expected, adapters, shared, stray, target, turn, uses>>

\* A call returns and has done nothing.
SkipsSilently ==
  /\ Visiting /\ What \in Models(Who)
  /\ turn' = NextTurn
  /\ UNCHANGED <<expected, adapters, engine, shared, stray, phase, target, failure, uses>>

Mistrust ==
  /\ Visiting /\ What = "verify" /\ ~Verified(Who, [engine[Who] EXCEPT !.failed = FALSE], target)
  /\ engine' = [engine EXCEPT ![Who].failed = TRUE]
  /\ Close("broken", Who)
  /\ UNCHANGED <<expected, adapters, shared, stray, target, turn, uses>>

OnGpu(e, r) == r.alias = "gpu" \/ \E f \in Fields(e) : r.at[f] # "cpu"

MemoryAllocated == stray \/ shared \/ \E e \in expected : OnGpu(e, engine[e])

\* Once all engines are away the guard looks at each again, and at the memory
\* of the whole process.
StillAway == ~MemoryAllocated /\ \A e \in expected : Verified(e, engine[e], "cpu")

AllMoved ==
  /\ phase = "moving" /\ turn.at > Len(adapters)
  /\ IF target = "gpu" \/ StillAway THEN phase' = target /\ UNCHANGED failure ELSE Close("broken", "none")
  /\ turn' = FirstTurn
  /\ UNCHANGED <<expected, adapters, engine, shared, stray, target, uses>>

AdapterNext ==
  \/ \E e \in expected : RegisterComponent(e) \/ UseEngine(e)
  \/ OffloadIdle \/ Restore
  \/ Visit \/ Refuse \/ Breaks \/ SkipsSilently \/ Mistrust \/ AllMoved

AdapterSpec == AdapterInit /\ [][AdapterNext]_adapterVars

(***************************************************************************)
(* Properties                                                              *)
(***************************************************************************)
\* An engine as its application left it, up to the device
Intact(r, where) == r.at = where /\ r.alias = "same"

\* Whenever the gate is open for work, after whatever was moved away and back,
\* every model is where the application had put it (an emotion model on the
\* CPU stays there), the fast path uses the model's own weights, and the
\* device and the map that are declared are the true ones (adapters.py:517-578).
ServesWhole ==
  phase = "gpu" => \A e \in expected :
    /\ Intact(engine[e], engine[e].home)
    /\ engine[e].declared = "gpu" /\ (HasMap(e) => engine[e].map = engine[e].home["qwen_emo"])

\* When the guard reports the CPU, and the GPU may be given to ComfyUI,
\* the process holds no memory on it, listed by an adapter or not, and
\* every engine is complete on the CPU (guard.py:152-166).
CpuMeansAway ==
  phase = "cpu" =>
    /\ ~stray /\ ~shared
    /\ \A e \in expected : Intact(engine[e], [f \in Fields(e) |-> "cpu"]) /\ engine[e].declared = "cpu"

\* An engine whose layout is refused keeps everything where it was
\* (adapters.py:519).
RefusedUntouched ==
  failure.why = "refused" => LET r == engine[failure.who] IN Intact(r, r.home) /\ r.declared = "gpu"

\* An engine that works is as it was, one that is away is all away, and one that
\* cannot be moved is not touched.
EnginesWhole == ServesWhole /\ CpuMeansAway /\ RefusedUntouched
=============================================================================
