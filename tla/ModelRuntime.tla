---------------------------- MODULE ModelRuntime ----------------------------
(***************************************************************************)
(* The registry of loaded models in one inference process: callers look a  *)
(* model up or load it under the key's load lock, run it under the         *)
(* model's and the GPU's semaphore, replace it by a new version and unload *)
(* it, while loading another model evicts the least recently used one.     *)
(* asyncio runs one caller at a time; a step ends where the code may       *)
(* suspend.  Bundles are numbered in the order they are created.           *)
(***************************************************************************)
EXTENDS Integers, Sequences, FiniteSets

CONSTANTS ModelKeys, Inferrers,
          Machines,           \* what ONNX Runtime offers and what the settings say
          MAX_LOADED_MODELS, MaxConcurrency, GpuLimit,
          MaxBundles          \* bound: sessions created

ASSUME ModelAssumption ==
    /\ IsFiniteSet(Inferrers) /\ MaxConcurrency \in Nat /\ GpuLimit \in Nat
    /\ Machines \subseteq [force : BOOLEAN, fallback : BOOLEAN, cpu : BOOLEAN, cuda : BOOLEAN,
                          tensorrt : BOOLEAN, tensorrtEnabled : BOOLEAN]

VARIABLES machine,    \* the machine of this process
          registry,   \* MODEL_REGISTRY: the bundle of each key, 0 for none
          bundles,    \* every bundle ever created
          recency,    \* last_used_at: registered bundles, least recently used first
          locks,      \* MODEL_LOAD_LOCKS: the lock of each key, 0 for none
          holders,    \* the holder of each lock ever made
          cooling,    \* keys whose last load failed a moment ago
          gpu,        \* free permits of the GPU's semaphore
          draining,   \* bundles released as soon as nobody runs them
          callers
modelVars == <<machine, registry, bundles, recency, locks, holders, cooling, gpu, draining, callers>>

Nobody == "nobody"
Bundle(key, provider) ==
    [key |-> key, session |-> TRUE, in_use |-> 0, permits |-> MaxConcurrency, provider |-> provider]
Caller == [at |-> "idle", key |-> "none", lock |-> 0, bundle |-> 0, for |-> "none"]
Loaded == {k \in ModelKeys : registry[k] # 0}
------------------------------------------------------------------------------
\* create_session: the outcomes for a request of CUDA or of TensorRT.
session_providers(m) ==
    IF ~m.tensorrt THEN {"cuda"}
    ELSE IF ~m.tensorrtEnabled THEN {"error"}
    ELSE {"tensorrt", "cuda"} \cup (IF m.fallback /\ m.cpu THEN {"cpu"} ELSE {"error"})

CpuOrError(m) == IF m.fallback /\ m.cpu THEN {"cpu"} ELSE {"error"}

create_session(m) ==
    CASE m.force -> IF m.cpu THEN {"cpu"} ELSE {"error"}
      [] ~m.force /\ ~m.cuda -> CpuOrError(m)
      [] ~m.force /\ m.cuda -> IF session_providers(m) = {"error"} THEN {"error"}
                               ELSE session_providers(m) \cup CpuOrError(m)

OnGpu(b) == bundles[b].provider \in {"cuda", "tensorrt"}
------------------------------------------------------------------------------
\* last_used_at only matters for the bundles that are registered.
Touched(b, seq) == IF b \in {registry[k] : k \in ModelKeys}
                   THEN Append(SelectSeq(seq, LAMBDA x : x # b), b) ELSE seq
Registered(reg, seq) == SelectSeq(seq, LAMBDA b : \E k \in ModelKeys : reg[k] = b)

\* Mutant.
Evictable_InUse(reg, bs, key) == {k \in ModelKeys : reg[k] # 0 /\ k # key}

\* Never the key just loaded, nor a model an inference is under way on.
Evictable(reg, bs, key) == {k \in ModelKeys : reg[k] # 0 /\ k # key /\ bs[reg[k]].in_use = 0}

\* evict_lru_if_needed: the least recently used first, down to the limit or as far as possible.
Evicted(reg, bs, seq, key) ==
    LET evictable == Evictable(reg, bs, key)
        older(k) == {l \in evictable : \E i, j \in DOMAIN seq : i < j /\ seq[i] = reg[l] /\ seq[j] = reg[k]}
        excess == Cardinality({k \in ModelKeys : reg[k] # 0}) - MAX_LOADED_MODELS
    IN IF MAX_LOADED_MODELS = 0 THEN {} ELSE {k \in evictable : Cardinality(older(k)) < excess}

\* The bundle enters the registry, becomes the most recent and may push another out.
Register(key, b, bs) ==
    LET reg == [registry EXCEPT ![key] = b]
        seq == Registered(reg, Append(recency, b))
        out == Evicted(reg, bs, seq, key)
    IN /\ registry' = [k \in ModelKeys |-> IF k \in out THEN 0 ELSE reg[k]]
       /\ locks' = [k \in ModelKeys |-> IF k \in out THEN 0 ELSE locks[k]]
       /\ bundles' = [i \in DOMAIN bs |-> IF \E k \in out : reg[k] = i
                                          THEN [bs[i] EXCEPT !.session = FALSE] ELSE bs[i]]
       /\ recency' = Registered(registry', seq)
       /\ cooling' = cooling \ {key}
------------------------------------------------------------------------------
\* get_or_load_model: a hit is returned at once.
Hit(c) ==
    /\ callers[c].at = "idle"
    /\ \E key \in Loaded :
          /\ recency' = Touched(registry[key], recency)
          /\ callers' = [callers EXCEPT ![c] = [Caller EXCEPT !.at = "have", !.key = key,
                                                              !.bundle = registry[key], !.for = "use"]]
    /\ UNCHANGED <<registry, bundles, locks, holders, cooling, gpu, draining>>

\* A miss and a replacement queue for the key's load lock, made on first use.
get_model_load_lock(c) ==
    /\ callers[c].at = "idle"
    /\ \E key \in ModelKeys, for \in {"use", "replace"} :
          /\ for = "use" => registry[key] = 0 /\ key \notin cooling
          /\ LET fresh == locks[key] = 0
                 lock == IF fresh THEN Len(holders) + 1 ELSE locks[key]
             IN /\ locks' = [locks EXCEPT ![key] = lock]
                /\ holders' = IF fresh THEN Append(holders, Nobody) ELSE holders
                /\ callers' = [callers EXCEPT ![c] = [Caller EXCEPT !.at = "lock", !.key = key,
                                                                    !.lock = lock, !.for = for]]
    /\ Len(bundles) < MaxBundles
    /\ UNCHANGED <<registry, bundles, recency, cooling, gpu, draining>>

\* With the lock: another caller may have loaded the model, or failed to.
Locked(c) ==
    /\ callers[c].at = "lock" /\ holders[callers[c].lock] = Nobody
    /\ LET key == callers[c].key
           use == callers[c].for = "use"
       IN IF use /\ registry[key] # 0
          THEN /\ recency' = Touched(registry[key], recency)
               /\ callers' = [callers EXCEPT ![c].at = "have", ![c].bundle = registry[key]]
               /\ UNCHANGED holders
          ELSE IF use /\ key \in cooling
          THEN callers' = [callers EXCEPT ![c] = Caller] /\ UNCHANGED <<recency, holders>>
          ELSE /\ callers' = [callers EXCEPT ![c].at = "loading"]
               /\ holders' = [holders EXCEPT ![callers[c].lock] = c]
               /\ UNCHANGED recency
    /\ UNCHANGED <<registry, bundles, locks, cooling, gpu, draining>>

\* The session is created in a thread.  A model that was missing enters the registry; a
\* replacement is warmed up first, with the lock still held.
LoadSucceeds(c) ==
    /\ callers[c].at = "loading" /\ Len(bundles) < MaxBundles
    /\ \E provider \in create_session(machine) \ {"error"} :
          LET b == Len(bundles) + 1
              loaded == Append(bundles, Bundle(callers[c].key, provider))
          IN /\ IF callers[c].for = "use"
                THEN /\ Register(callers[c].key, b, loaded)
                     /\ holders' = [holders EXCEPT ![callers[c].lock] = Nobody]
                ELSE bundles' = loaded /\ UNCHANGED <<registry, recency, locks, holders, cooling>>
             /\ callers' = [callers EXCEPT ![c].at = "have", ![c].bundle = b]
    /\ UNCHANGED <<gpu, draining>>

\* A failed load cools the key down.
LoadFails(c) ==
    /\ callers[c].at = "loading" /\ "error" \in create_session(machine)
    /\ cooling' = cooling \cup {callers[c].key}
    /\ callers' = [callers EXCEPT ![c] = Caller]
    /\ holders' = [holders EXCEPT ![callers[c].lock] = Nobody]
    /\ UNCHANGED <<registry, bundles, recency, locks, gpu, draining>>

CooldownEnds ==
    /\ cooling # {}
    /\ cooling' = {}
    /\ UNCHANGED <<registry, bundles, recency, locks, holders, gpu, draining, callers>>
------------------------------------------------------------------------------
\* _run_model_bundle_direct takes the session first: one released meanwhile is an error.
StartRun(c) ==
    /\ callers[c].at = "have"
    /\ LET b == callers[c].bundle
       IN IF bundles[b].session
          THEN /\ bundles' = [bundles EXCEPT ![b].in_use = @ + 1]
               /\ callers' = [callers EXCEPT ![c].at = "model"]
          ELSE callers' = [callers EXCEPT ![c] = Caller] /\ UNCHANGED bundles
    /\ UNCHANGED <<registry, recency, locks, holders, cooling, gpu, draining>>

AcquireModel(c) ==
    /\ callers[c].at = "model" /\ bundles[callers[c].bundle].permits > 0
    /\ bundles' = [bundles EXCEPT ![callers[c].bundle].permits = @ - 1]
    /\ callers' = [callers EXCEPT ![c].at = IF OnGpu(callers[c].bundle) THEN "gpu" ELSE "running"]
    /\ UNCHANGED <<registry, recency, locks, holders, cooling, gpu, draining>>

AcquireGpu(c) ==
    /\ callers[c].at = "gpu" /\ gpu > 0
    /\ gpu' = gpu - 1
    /\ callers' = [callers EXCEPT ![c].at = "running"]
    /\ UNCHANGED <<registry, bundles, recency, locks, holders, cooling, draining>>

\* The finally clause gives back what was acquired, also when the caller is cancelled:
\* the thread of its inference then goes on without them.
Returned(c) ==
    [bundles EXCEPT ![callers[c].bundle].in_use = @ - 1,
                    ![callers[c].bundle].permits = IF callers[c].at = "model" THEN @ ELSE @ + 1]
GpuReturned(c) ==
    gpu' = IF callers[c].at = "running" /\ OnGpu(callers[c].bundle) THEN gpu + 1 ELSE gpu

\* A timeout while waiting, an error of the session or its answer.
EndRun(c) ==
    /\ callers[c].at \in {"model", "gpu", "running"} /\ callers[c].for # "replace"
    /\ bundles' = Returned(c) /\ GpuReturned(c)
    /\ recency' = Touched(callers[c].bundle, recency)
    /\ callers' = [callers EXCEPT ![c] = Caller]
    /\ UNCHANGED <<registry, locks, holders, cooling, draining>>

\* replace_model_bundle: warmed up, the candidate takes its place; its caller then retires
\* the bundle it replaces.
replace_model_bundle(c) ==
    /\ callers[c].at = "running" /\ callers[c].for = "replace"
    /\ Register(callers[c].key, callers[c].bundle, Returned(c)) /\ GpuReturned(c)
    /\ draining' = draining \cup ({registry[callers[c].key]} \ {0})
    /\ holders' = [holders EXCEPT ![callers[c].lock] = Nobody]
    /\ callers' = [callers EXCEPT ![c] = Caller]

\* The warm-up fails or times out: the candidate is released.
PrewarmFails(c) ==
    /\ callers[c].at \in {"model", "gpu", "running"} /\ callers[c].for = "replace"
    /\ bundles' = [Returned(c) EXCEPT ![callers[c].bundle].session = FALSE] /\ GpuReturned(c)
    /\ holders' = [holders EXCEPT ![callers[c].lock] = Nobody]
    /\ callers' = [callers EXCEPT ![c] = Caller]
    /\ UNCHANGED <<registry, recency, locks, cooling, draining>>

\* unload_model_by_key: out of the registry at once, released when drained.
unload_model_by_key(key) ==
    /\ registry[key] # 0
    /\ registry' = [registry EXCEPT ![key] = 0]
    /\ locks' = [locks EXCEPT ![key] = 0]
    /\ draining' = draining \cup {registry[key]}
    /\ recency' = Registered(registry', recency)
    /\ UNCHANGED <<bundles, holders, cooling, gpu, callers>>

release_when_drained(b) ==
    /\ bundles[b].in_use = 0
    /\ bundles' = [bundles EXCEPT ![b].session = FALSE]
    /\ draining' = draining \ {b}
    /\ UNCHANGED <<registry, recency, locks, holders, cooling, gpu, callers>>
------------------------------------------------------------------------------
ModelInit ==
    /\ machine \in Machines
    /\ registry = [k \in ModelKeys |-> 0] /\ locks = registry
    /\ bundles = <<>> /\ recency = <<>> /\ holders = <<>>
    /\ cooling = {} /\ draining = {} /\ gpu = GpuLimit
    /\ callers = [c \in Inferrers |-> Caller]

ModelNext ==
    /\ UNCHANGED machine
    /\ \/ \E c \in Inferrers : \/ Hit(c) \/ get_model_load_lock(c) \/ Locked(c) \/ LoadSucceeds(c)
                               \/ LoadFails(c) \/ StartRun(c) \/ AcquireModel(c) \/ AcquireGpu(c)
                             \/ EndRun(c) \/ replace_model_bundle(c)
                               \/ PrewarmFails(c)
       \/ CooldownEnds
       \/ \E key \in ModelKeys : unload_model_by_key(key)
       \/ \E b \in draining : release_when_drained(b)

ModelSpec == ModelInit /\ [][ModelNext]_modelVars

Runs(b) == {c \in Inferrers : callers[c].bundle = b /\ callers[c].at \in {"model", "gpu", "running"}}
Loading(key) == {c \in Inferrers : callers[c].key = key /\ callers[c].lock # 0 /\ holders[callers[c].lock] = c}

\* A session is never released under a running inference, whatever was evicted,
\* replaced or unloaded meanwhile, and the registry only holds usable sessions; what
\* is in use and the permits of both semaphores account for exactly the inferences
\* under way, timeouts and errors included; and a model is only loaded twice at a
\* time when an eviction or an unload has dropped the lock its first loader holds.
\* A session runs on the CPU only where the settings ask for it or allow it.
SessionsAlive ==
    /\ \A k \in Loaded : bundles[registry[k]].session /\ bundles[registry[k]].key = k
    /\ \A b \in DOMAIN bundles :
          /\ bundles[b].in_use = Cardinality(Runs(b))
          /\ bundles[b].in_use > 0 => bundles[b].session
          /\ bundles[b].permits + Cardinality({c \in Runs(b) : callers[c].at # "model"}) = MaxConcurrency
          /\ bundles[b].provider = "cpu" => machine.force \/ machine.fallback
    /\ gpu + Cardinality({c \in Inferrers : callers[c].at = "running" /\ OnGpu(callers[c].bundle)}) = GpuLimit
    /\ \A key \in ModelKeys : Cardinality(Loading(key)) > 1 =>
          \E c \in Loading(key) : locks[key] # callers[c].lock
==============================================================================
