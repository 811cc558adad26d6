---------------------------- MODULE WorkerProofs ----------------------------
(***************************************************************************)
(* What a worker does for a Run: the registry of the models it loads, for  *)
(* any number of callers, keys, bundles, permits and machines; the result  *)
(* it stores, for any media, shard size, number of publishes, crashes,     *)
(* faults and, for the shards, lapsed leases; the media it decodes for the *)
(* operators, for any plans, queue size, frames, requests and faults; and  *)
(* the batches it runs a model on, for any requests and sizes.             *)
(***************************************************************************)
EXTENDS ModelRuntime, ResultStore, MediaPipeline, InferenceScheduler,
        FiniteSetTheorems, SequenceTheorems, WellFoundedInduction, TLAPS

------------------------------------------------------------------------------
(* The registry of loaded models.  A bundle is released while others may hold *)
(* it, so the invariant follows every bundle through its callers: who runs it *)
(* is counted in it, a candidate of a replacement belongs to its caller       *)
(* alone, and what is draining is not registered.                             *)

Running == {"model", "gpu", "running"}
Having == {"have"} \cup Running

InferenceCaller ==
    [at : {"idle", "lock", "loading"} \cup Having, key : ModelKeys \cup {"none"}, lock : Nat,
     bundle : Nat, for : {"none", "use", "replace"}]
ModelBundle ==
    [key : ModelKeys, session : BOOLEAN, in_use : Int, permits : Int, provider : {"cpu", "cuda", "tensorrt"}]

RuntimeTypes ==
    /\ machine \in Machines
    /\ registry \in [ModelKeys -> Nat] /\ locks \in [ModelKeys -> Nat]
    /\ holders \in Seq(Inferrers \cup {Nobody})
    /\ bundles \in Seq(ModelBundle)
    /\ callers \in [Inferrers -> InferenceCaller]
    /\ gpu \in Int
    /\ draining \subseteq DOMAIN bundles /\ 0 \notin DOMAIN bundles

RegistrySound ==
    \A k \in ModelKeys : registry[k] # 0 =>
        /\ registry[k] \in DOMAIN bundles
        /\ bundles[registry[k]].session /\ bundles[registry[k]].key = k
        /\ registry[k] \notin draining

CallersSound ==
    \A c \in Inferrers :
        /\ callers[c].at \in {"lock", "loading"} \cup Having =>
               callers[c].key \in ModelKeys /\ callers[c].for \in {"use", "replace"}
        /\ callers[c].at \in Having => callers[c].bundle \in DOMAIN bundles
        /\ callers[c].at = "gpu" => OnGpu(callers[c].bundle)

\* The bundle a replacement warms up.
Candidate(r) == r.at \in Having /\ r.for = "replace"

CandidatesSound ==
    \A c \in Inferrers : Candidate(callers[c]) =>
        /\ callers[c].bundle \notin draining
        /\ bundles[callers[c].bundle].session /\ bundles[callers[c].bundle].key = callers[c].key
        /\ \A k \in ModelKeys : registry[k] # callers[c].bundle
        /\ \A d \in Inferrers \ {c} : callers[d].at \in Having => callers[d].bundle # callers[c].bundle

Permitted(b) == {c \in Runs(b) : callers[c].at # "model"}
OnDevice == {c \in Inferrers : callers[c].at = "running" /\ OnGpu(callers[c].bundle)}

BundleSound(b) ==
    /\ bundles[b].in_use = Cardinality(Runs(b))
    /\ bundles[b].in_use > 0 => bundles[b].session
    /\ bundles[b].permits + Cardinality(Permitted(b)) = MaxConcurrency
    /\ bundles[b].provider = "cpu" => machine.force \/ machine.fallback

CountsSound ==
    /\ \A b \in DOMAIN bundles : BundleSound(b)
    /\ gpu + Cardinality(OnDevice) = GpuLimit

ModelInv == RuntimeTypes /\ RegistrySound /\ CallersSound /\ CandidatesSound /\ CountsSound

------------------------------------------------------------------------------
LEMMA BundlesTyped ==
    ASSUME RuntimeTypes PROVE \A b \in DOMAIN bundles : bundles[b] \in ModelBundle
BY ElementOfSeq DEF RuntimeTypes

One(p) == IF p THEN 1 ELSE 0

\* One caller enters or leaves a set that is counted.
LEMMA CountMoves ==
    ASSUME NEW S, NEW T, NEW c, IsFiniteSet(S), \A d : d # c => (d \in S <=> d \in T)
    PROVE  /\ IsFiniteSet(T)
           /\ Cardinality(T) = Cardinality(S) + One(c \in T) - One(c \in S)
<1>0. Cardinality(S) \in Nat
  BY FS_CardinalityType
<1>1. CASE c \in S /\ c \in T
  <2>1. S = T
    BY <1>1
  <2>. QED BY <1>0, <1>1, <2>1 DEF One
<1>2. CASE c \notin S /\ c \notin T
  <2>1. S = T
    BY <1>2
  <2>. QED BY <1>0, <1>2, <2>1 DEF One
<1>3. CASE c \in S /\ c \notin T
  <2>1. T = S \ {c}
    BY <1>3
  <2>2. IsFiniteSet(T) /\ Cardinality(T) = Cardinality(S) - 1
    BY <1>3, <2>1, FS_RemoveElement
  <2>. QED BY <1>0, <1>3, <2>2 DEF One
<1>4. CASE c \notin S /\ c \in T
  <2>1. T = S \cup {c}
    BY <1>4
  <2>2. IsFiniteSet(T) /\ Cardinality(T) = Cardinality(S) + 1
    BY <1>4, <2>1, FS_AddElement
  <2>. QED BY <1>0, <1>4, <2>2 DEF One
<1>. QED BY <1>1, <1>2, <1>3, <1>4

RunsOn(r, b) == r.bundle = b /\ r.at \in Running
PermitOn(r, b) == r.bundle = b /\ r.at \in {"gpu", "running"}
GpuOn(r) == r.at = "running" /\ OnGpu(r.bundle)

LEMMA CountsFinite ==
    /\ \A b : IsFiniteSet(Runs(b)) /\ IsFiniteSet(Permitted(b))
    /\ IsFiniteSet(OnDevice)
BY ModelAssumption, FS_Subset DEF Runs, Permitted, OnDevice

\* Caller c goes on as r, and bundle b and the GPU count what it takes and gives.
LEMMA BundleCounts ==
    ASSUME RuntimeTypes, NEW c \in Inferrers, NEW r \in InferenceCaller,
           callers' = [callers EXCEPT ![c] = r], machine' = machine,
           NEW b \in DOMAIN bundles, b \in DOMAIN bundles', BundleSound(b),
           bundles'[b].in_use = bundles[b].in_use + One(RunsOn(r, b)) - One(RunsOn(callers[c], b)),
           bundles'[b].permits = bundles[b].permits - One(PermitOn(r, b)) + One(PermitOn(callers[c], b)),
           bundles'[b].in_use > 0 => bundles'[b].session,
           bundles'[b].provider = bundles[b].provider
    PROVE  BundleSound(b)'
<1>1. PICK S, T : S = Runs(b) /\ T = Runs(b)'
  OBVIOUS
<1>2. PICK P, Q : P = Permitted(b) /\ Q = Permitted(b)'
  OBVIOUS
<1>3. /\ \A d : d # c => (d \in S <=> d \in T)
      /\ c \in S <=> RunsOn(callers[c], b)
      /\ c \in T <=> RunsOn(r, b)
  BY <1>1 DEF Runs, RunsOn, RuntimeTypes, Running
<1>4. /\ \A d : d # c => (d \in P <=> d \in Q)
      /\ c \in P <=> PermitOn(callers[c], b)
      /\ c \in Q <=> PermitOn(r, b)
  BY <1>2 DEF Permitted, Runs, PermitOn, RuntimeTypes
<1>5. IsFiniteSet(S) /\ IsFiniteSet(P)
  BY <1>1, <1>2, CountsFinite
<1>6. Cardinality(T) = Cardinality(S) + One(c \in T) - One(c \in S)
  BY <1>3, <1>5, CountMoves
<1>7. Cardinality(Q) = Cardinality(P) + One(c \in Q) - One(c \in P)
  BY <1>4, <1>5, CountMoves
<1>8. Cardinality(S) \in Nat /\ Cardinality(P) \in Nat
  BY <1>5, FS_CardinalityType
<1>9. bundles'[b].in_use = Cardinality(T)
  BY <1>1, <1>3, <1>6, <1>8 DEF BundleSound, One
<1>10. bundles'[b].permits + Cardinality(Q) = MaxConcurrency
  <2>1. bundles[b].permits \in Int
    BY BundlesTyped DEF ModelBundle
  <2>. QED BY <1>2, <1>4, <1>7, <1>8, <2>1 DEF BundleSound, One
<1>. QED BY <1>1, <1>2, <1>9, <1>10 DEF BundleSound

LEMMA DeviceCounts ==
    ASSUME RuntimeTypes, CallersSound, NEW c \in Inferrers, NEW r \in InferenceCaller,
           callers' = [callers EXCEPT ![c] = r],
           \A b \in DOMAIN bundles : bundles'[b].provider = bundles[b].provider,
           r.at = "running" => r.bundle \in DOMAIN bundles,
           gpu + Cardinality(OnDevice) = GpuLimit,
           gpu' = gpu - One(GpuOn(r)) + One(GpuOn(callers[c]))
    PROVE  gpu' + Cardinality(OnDevice') = GpuLimit
<1>1. PICK S, T : S = OnDevice /\ T = OnDevice'
  OBVIOUS
<1>2. /\ \A d : d # c => (d \in S <=> d \in T)
      /\ c \in S <=> GpuOn(callers[c])
      /\ c \in T <=> GpuOn(r)
  BY <1>1 DEF OnDevice, OnGpu, GpuOn, RuntimeTypes, CallersSound, Having, Running
<1>3. IsFiniteSet(S)
  BY <1>1, CountsFinite
<1>4. Cardinality(T) = Cardinality(S) + One(c \in T) - One(c \in S)
  BY <1>2, <1>3, CountMoves
<1>5. Cardinality(S) \in Nat
  BY <1>3, FS_CardinalityType
<1>. QED BY <1>1, <1>2, <1>4, <1>5 DEF One, RuntimeTypes

\* What a step of caller c, which goes on as r, does to bundle b.
Counted(b, c, r) ==
    /\ bundles'[b].in_use = bundles[b].in_use + One(RunsOn(r, b)) - One(RunsOn(callers[c], b))
    /\ bundles'[b].permits = bundles[b].permits - One(PermitOn(r, b)) + One(PermitOn(callers[c], b))
    /\ bundles'[b].in_use > 0 => bundles'[b].session
    /\ bundles'[b].provider = bundles[b].provider

LEMMA CountStep ==
    ASSUME ModelInv, NEW c \in Inferrers, NEW r \in InferenceCaller,
           callers' = [callers EXCEPT ![c] = r], machine' = machine,
           DOMAIN bundles \subseteq DOMAIN bundles',
           \A b \in DOMAIN bundles : Counted(b, c, r),
           \A b \in DOMAIN bundles' \ DOMAIN bundles :
               /\ bundles'[b].in_use = 0 /\ bundles'[b].permits = MaxConcurrency
               /\ bundles'[b].provider = "cpu" => machine.force \/ machine.fallback,
           r.at \in Running => r.bundle \in DOMAIN bundles,
           gpu' = gpu - One(GpuOn(r)) + One(GpuOn(callers[c]))
    PROVE  CountsSound'
<1>1. ASSUME NEW b \in DOMAIN bundles PROVE BundleSound(b)'
  BY <1>1, BundleCounts DEF ModelInv, CountsSound, Counted
<1>2. ASSUME NEW b \in DOMAIN bundles', b \notin DOMAIN bundles PROVE BundleSound(b)'
  <2>1. \A d \in Inferrers : callers'[d].at \in Running => callers'[d].bundle # b
    BY <1>2 DEF ModelInv, RuntimeTypes, CallersSound, Having
  <2>2. Runs(b)' = {} /\ Permitted(b)' = {}
    BY <2>1 DEF Runs, Permitted, Running
  <2>3. Cardinality(Runs(b)') = 0 /\ Cardinality(Permitted(b)') = 0
    BY <2>2, FS_EmptySet
  <2>4. /\ bundles'[b].in_use = 0 /\ bundles'[b].permits = MaxConcurrency
        /\ bundles'[b].provider = "cpu" => machine.force \/ machine.fallback
    BY <1>2
  <2>. QED BY <2>3, <2>4, ModelAssumption DEF BundleSound
<1>3. gpu' + Cardinality(OnDevice') = GpuLimit
  <2>1. \A b \in DOMAIN bundles : bundles'[b].provider = bundles[b].provider
    BY DEF Counted
  <2>. QED BY <2>1, DeviceCounts DEF ModelInv, CountsSound, Running
<1>. QED BY <1>1, <1>2, <1>3 DEF CountsSound

\* No caller comes or goes: sessions of bundles nobody runs may be released.
LEMMA CountsKept ==
    ASSUME ModelInv, UNCHANGED <<callers, gpu, machine>>, DOMAIN bundles' = DOMAIN bundles,
           \A b \in DOMAIN bundles :
               /\ bundles'[b].in_use = bundles[b].in_use /\ bundles'[b].permits = bundles[b].permits
               /\ bundles'[b].in_use > 0 => bundles'[b].session
               /\ bundles'[b].provider = bundles[b].provider
    PROVE  CountsSound'
<1>1. \A b : Runs(b)' = Runs(b) /\ Permitted(b)' = Permitted(b)
  BY DEF Runs, Permitted
<1>2. OnDevice' = OnDevice
  BY DEF OnDevice, OnGpu, ModelInv, CallersSound, Having, Running
<1>3. ASSUME NEW b \in DOMAIN bundles PROVE BundleSound(b)'
  BY <1>1, <1>3 DEF ModelInv, CountsSound, BundleSound
<1>. QED BY <1>2, <1>3 DEF ModelInv, CountsSound
------------------------------------------------------------------------------
\* A caller that runs nothing looks up, waits, loads or gives up.
LEMMA CallerMoves ==
    ASSUME ModelInv, NEW c \in Inferrers, NEW r \in InferenceCaller,
           callers' = [callers EXCEPT ![c] = r], UNCHANGED <<machine, registry, bundles, gpu, draining>>,
           locks' \in [ModelKeys -> Nat], holders' \in Seq(Inferrers \cup {Nobody}),
           callers[c].at \notin Running, r.at \notin Running,
           r.at \in {"lock", "loading"} \cup Having => r.key \in ModelKeys /\ r.for \in {"use", "replace"},
           r.at \in Having => r.for = "use" /\ \E k \in ModelKeys : registry[k] = r.bundle /\ r.bundle # 0
    PROVE  ModelInv'
<1>1. RuntimeTypes'
  BY DEF ModelInv, RuntimeTypes
<1>2. CallersSound'
  BY DEF ModelInv, RuntimeTypes, CallersSound, RegistrySound, OnGpu, Running
<1>3. RegistrySound'
  BY DEF ModelInv, RegistrySound
<1>4. CandidatesSound'
  BY DEF ModelInv, RuntimeTypes, CandidatesSound, Candidate
<1>5. \A b \in DOMAIN bundles : Counted(b, c, r)
  <2>1. ASSUME NEW b \in DOMAIN bundles PROVE Counted(b, c, r)
    <3>1. BundleSound(b) /\ bundles[b] \in ModelBundle
      BY BundlesTyped DEF ModelInv, CountsSound
    <3>. QED BY <3>1 DEF Counted, One, RunsOn, PermitOn, Running, BundleSound, ModelBundle
  <2>. QED BY <2>1
<1>6. gpu' = gpu - One(GpuOn(r)) + One(GpuOn(callers[c]))
  BY DEF One, GpuOn, Running, ModelInv, RuntimeTypes
<1>7. CountsSound'
  BY <1>5, <1>6, CountStep
<1>. QED BY <1>1, <1>2, <1>3, <1>4, <1>7 DEF ModelInv

\* A function stays a sequence when an entry is replaced, also one that it does not have.
LEMMA HoldersTyped ==
    ASSUME NEW s \in Seq(Inferrers \cup {Nobody}), NEW i, NEW d \in Inferrers \cup {Nobody}
    PROVE  [s EXCEPT ![i] = d] \in Seq(Inferrers \cup {Nobody})
<1>1. CASE i \in 1..Len(s)
  BY <1>1, ExceptSeq
<1>2. CASE i \notin 1..Len(s)
  <2>. DEFINE t == [s EXCEPT ![i] = d]
  <2>1. DOMAIN s = 1..Len(s) /\ DOMAIN t = 1..Len(s) /\ \A j \in 1..Len(s) : t[j] = s[j]
    BY <1>2
  <2>2. s \in [1..Len(s) -> Inferrers \cup {Nobody}] /\ Len(s) \in Nat
    BY ElementOfSeq, LenProperties
  <2>3. t \in [1..Len(s) -> Inferrers \cup {Nobody}]
    BY <2>1, <2>2
  <2>. HIDE DEF t
  <2>4. t \in UNION {[1..n -> Inferrers \cup {Nobody}] : n \in Nat}
    BY <2>2, <2>3
  <2>5. t \in Seq(Inferrers \cup {Nobody})
    BY <2>4, SeqDef, Zenon
  <2>. QED BY <2>5 DEF t
<1>. QED BY <1>1, <1>2

LEMMA HitStep ==
    ASSUME ModelInv, NEW c \in Inferrers, Hit(c), machine' = machine PROVE ModelInv'
<1>1. PICK key \in Loaded : callers' = [callers EXCEPT ![c] = [Caller EXCEPT !.at = "have", !.key = key,
                                                              !.bundle = registry[key], !.for = "use"]]
  BY DEF Hit
<1>. DEFINE r == [Caller EXCEPT !.at = "have", !.key = key, !.bundle = registry[key], !.for = "use"]
<1>2. key \in ModelKeys /\ registry[key] # 0 /\ registry[key] \in Nat
  BY DEF Loaded, ModelInv, RuntimeTypes
<1>3. /\ r \in InferenceCaller /\ r.at = "have" /\ r.key = key /\ r.for = "use" /\ r.bundle = registry[key]
  BY <1>2 DEF Caller, InferenceCaller, Having, Running
<1>4. callers[c].at \notin Running
  BY DEF Hit, Running
<1>5. UNCHANGED <<registry, bundles, gpu, draining, locks, holders>>
  BY DEF Hit
<1>6. locks' \in [ModelKeys -> Nat] /\ holders' \in Seq(Inferrers \cup {Nobody})
  BY <1>5 DEF ModelInv, RuntimeTypes
<1>7. r.at \notin Running
  BY <1>3 DEF Running
<1>. HIDE DEF r
<1>. QED BY <1>1, <1>2, <1>3, <1>4, <1>5, <1>6, <1>7, CallerMoves DEF r

LEMMA LoadLockStep ==
    ASSUME ModelInv, NEW c \in Inferrers, get_model_load_lock(c), machine' = machine PROVE ModelInv'
<1>1. PICK key \in ModelKeys, for \in {"use", "replace"} :
          LET fresh == locks[key] = 0
              lock == IF fresh THEN Len(holders) + 1 ELSE locks[key]
          IN /\ locks' = [locks EXCEPT ![key] = lock]
             /\ holders' = IF fresh THEN Append(holders, Nobody) ELSE holders
             /\ callers' = [callers EXCEPT ![c] = [Caller EXCEPT !.at = "lock", !.key = key,
                                                                 !.lock = lock, !.for = for]]
  BY DEF get_model_load_lock
<1>2. PICK lock \in Nat :
          /\ locks' = [locks EXCEPT ![key] = lock]
          /\ callers' = [callers EXCEPT ![c] = [Caller EXCEPT !.at = "lock", !.key = key,
                                                              !.lock = lock, !.for = for]]
  <2>1. Len(holders) \in Nat /\ locks[key] \in Nat
    BY LenProperties DEF ModelInv, RuntimeTypes
  <2>2. CASE locks[key] = 0
    <3>. DEFINE new == Len(holders) + 1
    <3>1. new \in Nat /\ locks' = [locks EXCEPT ![key] = new]
      BY <1>1, <2>1, <2>2
    <3>2. callers' = [callers EXCEPT ![c] = [Caller EXCEPT !.at = "lock", !.key = key, !.lock = new, !.for = for]]
      BY <1>1, <2>2
    <3>. HIDE DEF new
    <3>. QED BY <3>1, <3>2
  <2>3. CASE locks[key] # 0
    BY <1>1, <2>1, <2>3
  <2>. QED BY <2>2, <2>3
<1>. DEFINE r == [Caller EXCEPT !.at = "lock", !.key = key, !.lock = lock, !.for = for]
<1>3. r \in InferenceCaller /\ r.at = "lock" /\ r.key = key /\ r.for = for
  BY DEF Caller, InferenceCaller, Having, Running
<1>4. callers[c].at \notin Running /\ r.at \notin Running /\ r.at \notin Having
  BY <1>3 DEF get_model_load_lock, Running, Having
<1>5. UNCHANGED <<registry, bundles, gpu, draining>>
  BY DEF get_model_load_lock
<1>6. locks' \in [ModelKeys -> Nat] /\ holders' \in Seq(Inferrers \cup {Nobody})
  <2>1. Append(holders, Nobody) \in Seq(Inferrers \cup {Nobody})
    BY AppendProperties DEF ModelInv, RuntimeTypes
  <2>. QED BY <1>1, <1>2, <2>1 DEF ModelInv, RuntimeTypes
<1>. HIDE DEF r
<1>. QED BY <1>2, <1>3, <1>4, <1>5, <1>6, CallerMoves DEF r

LEMMA CallerTyped ==
    /\ Caller \in InferenceCaller /\ Caller.at = "idle"
    /\ Caller.at \notin Running /\ Caller.at \notin {"lock", "loading"} \cup Having
BY DEF Caller, InferenceCaller, Having, Running

LEMMA LockedStep ==
    ASSUME ModelInv, NEW c \in Inferrers, Locked(c), machine' = machine PROVE ModelInv'
<1>1. PICK old \in InferenceCaller : old = callers[c]
  BY DEF ModelInv, RuntimeTypes
<1>2. /\ old.at = "lock" /\ old.key \in ModelKeys /\ old.for \in {"use", "replace"}
      /\ UNCHANGED <<registry, bundles, gpu, draining, locks>>
  BY <1>1 DEF Locked, ModelInv, CallersSound
<1>3. locks' \in [ModelKeys -> Nat]
  BY <1>2 DEF ModelInv, RuntimeTypes
<1>4. holders' \in Seq(Inferrers \cup {Nobody})
  <2>1. holders' = holders \/ holders' = [holders EXCEPT ![callers[c].lock] = c]
    BY DEF Locked
  <2>2. holders \in Seq(Inferrers \cup {Nobody})
    BY DEF ModelInv, RuntimeTypes
  <2>3. [holders EXCEPT ![callers[c].lock] = c] \in Seq(Inferrers \cup {Nobody})
    BY <2>2, HoldersTyped
  <2>. QED BY <2>1, <2>2, <2>3
<1>5. PICK r \in InferenceCaller :
          /\ callers' = [callers EXCEPT ![c] = r]
          /\ r = Caller \/ (r.at = "loading" /\ r.key = old.key /\ r.for = old.for)
             \/ (/\ r.at = "have" /\ r.key = old.key /\ r.for = "use" /\ registry[old.key] # 0
                 /\ r.bundle = registry[old.key])
  <2>1. CASE old.for = "use" /\ registry[old.key] # 0
    <3>. DEFINE r == [old EXCEPT !.at = "have", !.bundle = registry[old.key]]
    <3>1. callers' = [callers EXCEPT ![c] = r]
      BY <1>1, <2>1 DEF Locked, ModelInv, RuntimeTypes
    <3>2. registry[old.key] \in Nat
      BY <1>2 DEF ModelInv, RuntimeTypes
    <3>3. /\ r \in InferenceCaller /\ r.at = "have" /\ r.key = old.key /\ r.for = "use"
          /\ r.bundle = registry[old.key]
      BY <2>1, <3>2 DEF InferenceCaller, Having
    <3>. HIDE DEF r
    <3>. QED BY <2>1, <3>1, <3>3
  <2>2. CASE ~(old.for = "use" /\ registry[old.key] # 0) /\ old.for = "use" /\ old.key \in cooling
    <3>1. callers' = [callers EXCEPT ![c] = Caller]
      BY <1>1, <2>2 DEF Locked
    <3>. QED BY <3>1, CallerTyped
  <2>3. CASE ~(old.for = "use" /\ registry[old.key] # 0) /\ ~(old.for = "use" /\ old.key \in cooling)
    <3>. DEFINE r == [old EXCEPT !.at = "loading"]
    <3>1. callers' = [callers EXCEPT ![c] = r]
      BY <1>1, <2>3 DEF Locked, ModelInv, RuntimeTypes
    <3>2. r \in InferenceCaller /\ r.at = "loading" /\ r.key = old.key /\ r.for = old.for
      BY DEF InferenceCaller
    <3>. HIDE DEF r
    <3>. QED BY <3>1, <3>2
  <2>. QED BY <2>1, <2>2, <2>3
<1>6. callers[c].at \notin Running /\ r.at \notin Running
  BY <1>1, <1>2, <1>5, CallerTyped DEF Running
<1>7. r.at \in {"lock", "loading"} \cup Having => r.key \in ModelKeys /\ r.for \in {"use", "replace"}
  BY <1>2, <1>5, CallerTyped
<1>8. r.at \in Having => r.for = "use" /\ \E k \in ModelKeys : registry[k] = r.bundle /\ r.bundle # 0
  <2>1. "loading" \notin Having
    BY DEF Having, Running
  <2>. QED BY <1>2, <1>5, <2>1, CallerTyped
<1>. QED BY <1>2, <1>3, <1>4, <1>5, <1>6, <1>7, <1>8, CallerMoves

LEMMA LoadFailsStep ==
    ASSUME ModelInv, NEW c \in Inferrers, LoadFails(c), machine' = machine PROVE ModelInv'
<1>1. /\ UNCHANGED <<registry, bundles, gpu, draining, locks>> /\ callers' = [callers EXCEPT ![c] = Caller]
      /\ callers[c].at \notin Running
  BY DEF LoadFails, Running
<1>2. holders' \in Seq(Inferrers \cup {Nobody})
  BY HoldersTyped DEF LoadFails, ModelInv, RuntimeTypes
<1>3. locks' \in [ModelKeys -> Nat]
  BY <1>1 DEF ModelInv, RuntimeTypes
<1>. QED BY <1>1, <1>2, <1>3, CallerTyped, CallerMoves DEF Having
------------------------------------------------------------------------------
\* A caller goes on with the bundle it has, as n, or gives it back.
LEMMA BundleMoves ==
    ASSUME ModelInv, NEW c \in Inferrers, NEW r \in InferenceCaller, NEW n \in ModelBundle,
           NEW b, b = callers[c].bundle, callers[c].at \in Having,
           callers' = [callers EXCEPT ![c] = r], bundles' = [bundles EXCEPT ![b] = n],
           UNCHANGED <<machine, registry, draining>>,
           locks' \in [ModelKeys -> Nat], holders' \in Seq(Inferrers \cup {Nobody}), gpu' \in Int,
           \/ r = Caller
           \/ /\ r.at \in Running /\ r.key = callers[c].key /\ r.for = callers[c].for /\ r.bundle = b
              /\ r.at = "gpu" => OnGpu(b),
           n.key = bundles[b].key, n.provider = bundles[b].provider,
           n.session = bundles[b].session \/ (r = Caller /\ Candidate(callers[c])),
           n.in_use > 0 => n.session,
           n.in_use = bundles[b].in_use + One(RunsOn(r, b)) - One(RunsOn(callers[c], b)),
           n.permits = bundles[b].permits - One(PermitOn(r, b)) + One(PermitOn(callers[c], b)),
           gpu' = gpu - One(GpuOn(r)) + One(GpuOn(callers[c]))
    PROVE  ModelInv'
<1>1. b \in DOMAIN bundles /\ bundles \in Seq(ModelBundle) /\ DOMAIN bundles' = DOMAIN bundles
  BY DEF ModelInv, CallersSound, RuntimeTypes
<1>2. bundles' \in Seq(ModelBundle)
  BY <1>1, ExceptSeq
<1>3. RuntimeTypes'
  BY <1>1, <1>2 DEF ModelInv, RuntimeTypes
<1>4. bundles'[b] = n /\ \A x \in DOMAIN bundles : x # b => bundles'[x] = bundles[x]
  BY <1>1
<1>5. \A d \in Inferrers : callers'[d] = IF d = c THEN r ELSE callers[d]
  BY DEF ModelInv, RuntimeTypes
<1>6. CallersSound'
  <2>1. ASSUME NEW d \in Inferrers, d # c
        PROVE  /\ callers'[d].at \in {"lock", "loading"} \cup Having =>
                      callers'[d].key \in ModelKeys /\ callers'[d].for \in {"use", "replace"}
               /\ callers'[d].at \in Having => callers'[d].bundle \in DOMAIN bundles'
               /\ callers'[d].at = "gpu" => bundles'[callers'[d].bundle].provider \in {"cuda", "tensorrt"}
    <3>1. callers'[d] = callers[d]
      BY <1>5, <2>1
    <3>2. /\ callers[d].at \in {"lock", "loading"} \cup Having =>
                 callers[d].key \in ModelKeys /\ callers[d].for \in {"use", "replace"}
          /\ callers[d].at \in Having => callers[d].bundle \in DOMAIN bundles
          /\ callers[d].at = "gpu" => bundles[callers[d].bundle].provider \in {"cuda", "tensorrt"}
      BY DEF ModelInv, CallersSound, OnGpu
    <3>3. callers[d].at = "gpu" => callers[d].at \in Having
      BY DEF Having, Running
    <3>. QED BY <1>1, <1>4, <3>1, <3>2, <3>3
  <2>2. /\ r.at \in {"lock", "loading"} \cup Having => r.key \in ModelKeys /\ r.for \in {"use", "replace"}
        /\ r.at \in Having => r.bundle \in DOMAIN bundles'
        /\ r.at = "gpu" => bundles'[r.bundle].provider \in {"cuda", "tensorrt"}
    BY <1>1, <1>4, CallerTyped DEF ModelInv, CallersSound, OnGpu, Having, Running
  <2>. QED BY <1>5, <2>1, <2>2 DEF CallersSound, OnGpu
<1>7. RegistrySound'
  <2>1. Candidate(callers[c]) => \A k \in ModelKeys : registry[k] # b
    BY DEF ModelInv, CandidatesSound
  <2>. QED BY <1>1, <1>4, <2>1 DEF ModelInv, RegistrySound
<1>8. CandidatesSound'
  <2>1. ASSUME NEW d \in Inferrers, Candidate(callers'[d])
        PROVE  Candidate(callers[d]) /\ callers'[d].bundle = callers[d].bundle /\ callers'[d].key = callers[d].key
    BY <1>5, <2>1, CallerTyped DEF Candidate
  <2>2. ASSUME NEW d \in Inferrers, callers'[d].at \in Having
        PROVE  callers[d].at \in Having /\ callers'[d].bundle = callers[d].bundle
    BY <1>5, <2>2, CallerTyped
  <2>3. ASSUME NEW d \in Inferrers, Candidate(callers'[d])
        PROVE  /\ callers'[d].bundle \notin draining'
               /\ bundles'[callers'[d].bundle].session /\ bundles'[callers'[d].bundle].key = callers'[d].key
               /\ \A k \in ModelKeys : registry'[k] # callers'[d].bundle
               /\ \A e \in Inferrers \ {d} : callers'[e].at \in Having => callers'[e].bundle # callers'[d].bundle
    <3>1. /\ callers[d].bundle \notin draining
          /\ bundles[callers[d].bundle].session /\ bundles[callers[d].bundle].key = callers[d].key
          /\ \A k \in ModelKeys : registry[k] # callers[d].bundle
          /\ \A e \in Inferrers \ {d} : callers[e].at \in Having => callers[e].bundle # callers[d].bundle
          /\ callers[d].bundle \in DOMAIN bundles
      BY <2>1, <2>3 DEF ModelInv, CandidatesSound, CallersSound, Candidate
    <3>2. callers[d].bundle = b => d = c /\ r # Caller
      BY <1>5, <2>3, <3>1, CallerTyped DEF Candidate
    <3>3. bundles'[callers[d].bundle].session /\ bundles'[callers[d].bundle].key = callers[d].key
      BY <1>4, <3>1, <3>2
    <3>. QED BY <2>1, <2>2, <2>3, <3>1, <3>3
  <2>. QED BY <2>3 DEF CandidatesSound, Candidate
<1>9. ASSUME NEW x \in DOMAIN bundles PROVE Counted(x, c, r)
  <2>1. BundleSound(x) /\ bundles[x] \in ModelBundle
    BY BundlesTyped DEF ModelInv, CountsSound
  <2>2. CASE x = b
    BY <1>4, <2>2 DEF Counted
  <2>3. CASE x # b
    <3>1. ~RunsOn(r, x) /\ ~PermitOn(r, x) /\ ~RunsOn(callers[c], x) /\ ~PermitOn(callers[c], x)
      BY <2>3, CallerTyped DEF RunsOn, PermitOn, Running
    <3>2. bundles'[x] = bundles[x]
      BY <1>4, <2>3
    <3>. QED BY <2>1, <3>1, <3>2 DEF Counted, One, BundleSound, ModelBundle
  <2>. QED BY <2>2, <2>3
<1>10. r.at \in Running => r.bundle \in DOMAIN bundles
  BY <1>1, CallerTyped
<1>11. CountsSound'
  BY <1>1, <1>9, <1>10, CountStep
<1>. QED BY <1>3, <1>6, <1>7, <1>8, <1>11 DEF ModelInv

\* What a caller with a bundle knows of it.
LEMMA HasBundle ==
    ASSUME ModelInv, NEW c \in Inferrers, callers[c].at \in Having
    PROVE  /\ callers[c] \in InferenceCaller /\ callers[c].bundle \in DOMAIN bundles
           /\ bundles[callers[c].bundle] \in ModelBundle /\ BundleSound(callers[c].bundle)
           /\ callers[c].key \in ModelKeys /\ callers[c].for \in {"use", "replace"}
           /\ locks \in [ModelKeys -> Nat] /\ holders \in Seq(Inferrers \cup {Nobody}) /\ gpu \in Int
BY BundlesTyped DEF ModelInv, CallersSound, RuntimeTypes, CountsSound

LEMMA StartRunStep ==
    ASSUME ModelInv, NEW c \in Inferrers, StartRun(c), machine' = machine PROVE ModelInv'
<1>. PICK b, old, o : b = callers[c].bundle /\ old = callers[c] /\ o = bundles[b]
  OBVIOUS
<1>1. old.at = "have" /\ old.at \in Having
  BY DEF StartRun, Having
<1>2. old \in InferenceCaller /\ b \in DOMAIN bundles /\ o \in ModelBundle /\ BundleSound(b)
  BY <1>1, HasBundle
<1>3. UNCHANGED <<registry, locks, holders, gpu, draining>>
  BY DEF StartRun
<1>4. locks' \in [ModelKeys -> Nat] /\ holders' \in Seq(Inferrers \cup {Nobody}) /\ gpu' \in Int
  BY <1>1, <1>3, HasBundle
<1>5. CASE ~o.session
  <2>1. callers' = [callers EXCEPT ![c] = Caller] /\ bundles' = bundles
    BY <1>5 DEF StartRun
  <2>2. old.at \notin Running
    BY <1>1 DEF Running
  <2>. QED BY <1>3, <1>4, <2>1, <2>2, CallerTyped, CallerMoves DEF Having
<1>6. CASE o.session
  <2>. DEFINE r == [old EXCEPT !.at = "model"]
              n == [o EXCEPT !.in_use = @ + 1]
  <2>1. callers' = [callers EXCEPT ![c] = r] /\ bundles' = [bundles EXCEPT ![b] = n]
    BY <1>6 DEF StartRun
  <2>2. r \in InferenceCaller /\ r.at = "model" /\ r.key = old.key /\ r.for = old.for /\ r.bundle = b
    BY <1>2 DEF InferenceCaller, Having, Running
  <2>3. /\ n \in ModelBundle /\ n.key = o.key /\ n.provider = o.provider /\ n.session = o.session
        /\ n.in_use = o.in_use + 1 /\ n.permits = o.permits
    BY <1>2 DEF ModelBundle
  <2>. HIDE DEF r, n
  <2>4. /\ RunsOn(r, b) /\ ~RunsOn(old, b) /\ ~PermitOn(r, b) /\ ~PermitOn(old, b) /\ ~GpuOn(r) /\ ~GpuOn(old)
        /\ r.at \in Running /\ r.at # "gpu"
    BY <1>1, <2>2 DEF RunsOn, PermitOn, GpuOn, Running
  <2>5. /\ n.in_use = o.in_use + One(RunsOn(r, b)) - One(RunsOn(old, b))
        /\ n.permits = o.permits - One(PermitOn(r, b)) + One(PermitOn(old, b))
        /\ gpu' = gpu - One(GpuOn(r)) + One(GpuOn(old))
    BY <1>2, <1>3, <1>4, <2>3, <2>4 DEF One, ModelBundle
  <2>. QED BY <1>1, <1>3, <1>4, <1>6, <2>1, <2>2, <2>3, <2>4, <2>5, BundleMoves
<1>. QED BY <1>5, <1>6

LEMMA AcquireModelStep ==
    ASSUME ModelInv, NEW c \in Inferrers, AcquireModel(c), machine' = machine PROVE ModelInv'
<1>. PICK b, old, o : b = callers[c].bundle /\ old = callers[c] /\ o = bundles[b]
  OBVIOUS
<1>1. old.at = "model" /\ old.at \in Having
  BY DEF AcquireModel, Having, Running
<1>2. old \in InferenceCaller /\ b \in DOMAIN bundles /\ o \in ModelBundle /\ BundleSound(b)
  BY <1>1, HasBundle
<1>3. UNCHANGED <<registry, locks, holders, gpu, draining>>
  BY DEF AcquireModel
<1>4. locks' \in [ModelKeys -> Nat] /\ holders' \in Seq(Inferrers \cup {Nobody}) /\ gpu' \in Int
  BY <1>1, <1>3, HasBundle
<1>. DEFINE r == [old EXCEPT !.at = IF OnGpu(b) THEN "gpu" ELSE "running"]
            n == [o EXCEPT !.permits = @ - 1]
<1>5. callers' = [callers EXCEPT ![c] = r] /\ bundles' = [bundles EXCEPT ![b] = n]
  BY DEF AcquireModel
<1>6. /\ r \in InferenceCaller /\ r.key = old.key /\ r.for = old.for /\ r.bundle = b
      /\ r.at = IF OnGpu(b) THEN "gpu" ELSE "running"
  BY <1>2 DEF InferenceCaller, Having, Running
<1>7. /\ n \in ModelBundle /\ n.key = o.key /\ n.provider = o.provider /\ n.session = o.session
      /\ n.in_use = o.in_use /\ n.permits = o.permits - 1
  BY <1>2 DEF ModelBundle
<1>. HIDE DEF r, n
<1>8. /\ RunsOn(r, b) /\ RunsOn(old, b) /\ PermitOn(r, b) /\ ~PermitOn(old, b) /\ ~GpuOn(r) /\ ~GpuOn(old)
      /\ r.at \in Running /\ (r.at = "gpu" => OnGpu(b))
  BY <1>1, <1>6 DEF RunsOn, PermitOn, GpuOn, Running
<1>9. /\ n.in_use = o.in_use + One(RunsOn(r, b)) - One(RunsOn(old, b))
      /\ n.permits = o.permits - One(PermitOn(r, b)) + One(PermitOn(old, b))
      /\ gpu' = gpu - One(GpuOn(r)) + One(GpuOn(old))
  BY <1>2, <1>3, <1>4, <1>7, <1>8 DEF One, ModelBundle
<1>10. n.in_use > 0 => n.session
  BY <1>2, <1>7 DEF BundleSound
<1>. QED BY <1>1, <1>3, <1>4, <1>5, <1>6, <1>7, <1>8, <1>9, <1>10, BundleMoves

LEMMA AcquireGpuStep ==
    ASSUME ModelInv, NEW c \in Inferrers, AcquireGpu(c), machine' = machine PROVE ModelInv'
<1>. PICK b, old, o : b = callers[c].bundle /\ old = callers[c] /\ o = bundles[b]
  OBVIOUS
<1>1. old.at = "gpu" /\ old.at \in Having /\ OnGpu(b)
  BY DEF AcquireGpu, Having, Running, ModelInv, CallersSound
<1>2. old \in InferenceCaller /\ b \in DOMAIN bundles /\ o \in ModelBundle /\ BundleSound(b) /\ gpu \in Int
  BY <1>1, HasBundle
<1>3. UNCHANGED <<registry, locks, holders, draining>> /\ gpu' = gpu - 1
  BY DEF AcquireGpu
<1>4. locks' \in [ModelKeys -> Nat] /\ holders' \in Seq(Inferrers \cup {Nobody}) /\ gpu' \in Int
  BY <1>1, <1>2, <1>3, HasBundle
<1>. DEFINE r == [old EXCEPT !.at = "running"]
<1>5. callers' = [callers EXCEPT ![c] = r] /\ bundles' = [bundles EXCEPT ![b] = o]
  BY DEF AcquireGpu, ModelInv, RuntimeTypes
<1>6. r \in InferenceCaller /\ r.key = old.key /\ r.for = old.for /\ r.bundle = b /\ r.at = "running"
  BY <1>2 DEF InferenceCaller, Having, Running
<1>. HIDE DEF r
<1>8. /\ RunsOn(r, b) /\ RunsOn(old, b) /\ PermitOn(r, b) /\ PermitOn(old, b) /\ GpuOn(r) /\ ~GpuOn(old)
      /\ r.at \in Running /\ r.at # "gpu"
  BY <1>1, <1>6 DEF RunsOn, PermitOn, GpuOn, Running
<1>9. /\ o.in_use = o.in_use + One(RunsOn(r, b)) - One(RunsOn(old, b))
      /\ o.permits = o.permits - One(PermitOn(r, b)) + One(PermitOn(old, b))
      /\ gpu' = gpu - One(GpuOn(r)) + One(GpuOn(old))
  BY <1>2, <1>3, <1>8 DEF One, ModelBundle
<1>10. o.in_use > 0 => o.session
  BY <1>2 DEF BundleSound
<1>. QED BY <1>1, <1>2, <1>3, <1>4, <1>5, <1>6, <1>8, <1>9, <1>10, BundleMoves

\* What the finally clause of caller c leaves: n is the bundle it gives back.
GivesBack(c, n) ==
    LET b == callers[c].bundle
    IN /\ Returned(c) = [bundles EXCEPT ![b] = n]
       /\ n.key = bundles[b].key /\ n.provider = bundles[b].provider /\ n.session = bundles[b].session
       /\ n.in_use = bundles[b].in_use + One(RunsOn(Caller, b)) - One(RunsOn(callers[c], b))
       /\ n.permits = bundles[b].permits - One(PermitOn(Caller, b)) + One(PermitOn(callers[c], b))
       /\ n.in_use > 0 => n.session
       /\ gpu' = gpu - One(GpuOn(Caller)) + One(GpuOn(callers[c])) /\ gpu' \in Int

LEMMA GivenBack ==
    ASSUME ModelInv, NEW c \in Inferrers, callers[c].at \in Running, GpuReturned(c)
    PROVE  \E n \in ModelBundle : GivesBack(c, n)
<1>. PICK b, old, o : b = callers[c].bundle /\ old = callers[c] /\ o = bundles[b]
  OBVIOUS
<1>1. old.at \in Having
  BY DEF Having
<1>2. old \in InferenceCaller /\ b \in DOMAIN bundles /\ o \in ModelBundle /\ BundleSound(b) /\ gpu \in Int
  BY <1>1, HasBundle
<1>p. PICK p \in Int : p = IF old.at = "model" THEN o.permits ELSE o.permits + 1
  BY <1>2 DEF ModelBundle
<1>q. PICK q \in Int : q = o.in_use - 1
  BY <1>2 DEF ModelBundle
<1>. DEFINE n == [o EXCEPT !.in_use = q, !.permits = p]
<1>3. /\ n \in ModelBundle /\ n.key = o.key /\ n.provider = o.provider /\ n.session = o.session
      /\ n.in_use = q /\ n.permits = p
  BY <1>2 DEF ModelBundle
<1>4. Returned(c) = [bundles EXCEPT ![b] = n]
  BY <1>2, <1>p, <1>q DEF Returned, ModelBundle, ModelInv, RuntimeTypes
<1>. HIDE DEF n
<1>5. /\ ~RunsOn(Caller, b) /\ RunsOn(old, b) /\ ~PermitOn(Caller, b) /\ (PermitOn(old, b) <=> old.at # "model")
      /\ ~GpuOn(Caller) /\ (GpuOn(old) <=> old.at = "running" /\ OnGpu(b))
  BY <1>2, CallerTyped DEF RunsOn, PermitOn, GpuOn, Running
<1>6. /\ n.in_use = o.in_use + One(RunsOn(Caller, b)) - One(RunsOn(old, b))
      /\ n.permits = o.permits - One(PermitOn(Caller, b)) + One(PermitOn(old, b))
  BY <1>2, <1>3, <1>5, <1>p, <1>q DEF One, ModelBundle
<1>7. gpu' = gpu - One(GpuOn(Caller)) + One(GpuOn(old)) /\ gpu' \in Int
  BY <1>2, <1>5 DEF One, GpuReturned
<1>8. n.in_use > 0 => n.session
  BY <1>2, <1>3, <1>q DEF BundleSound, ModelBundle
<1>. QED BY <1>3, <1>4, <1>6, <1>7, <1>8 DEF GivesBack

LEMMA EndRunStep ==
    ASSUME ModelInv, NEW c \in Inferrers, EndRun(c), machine' = machine PROVE ModelInv'
<1>1. callers[c].at \in Running /\ callers[c].at \in Having
  BY DEF EndRun, Having, Running
<1>2. /\ UNCHANGED <<registry, locks, holders, draining>> /\ bundles' = Returned(c) /\ GpuReturned(c)
      /\ callers' = [callers EXCEPT ![c] = Caller]
  BY DEF EndRun
<1>3. locks' \in [ModelKeys -> Nat] /\ holders' \in Seq(Inferrers \cup {Nobody})
  BY <1>1, <1>2, HasBundle
<1>4. PICK n \in ModelBundle : GivesBack(c, n)
  BY <1>1, <1>2, GivenBack
<1>. QED BY <1>1, <1>2, <1>3, <1>4, CallerTyped, BundleMoves DEF GivesBack

\* The candidate of a replacement is run by its caller alone.
LEMMA CandidateAlone ==
    ASSUME ModelInv, NEW c \in Inferrers, callers[c].at \in Running, callers[c].for = "replace"
    PROVE  bundles[callers[c].bundle].in_use = 1
<1>1. Candidate(callers[c])
  BY DEF Candidate, Having
<1>2. Runs(callers[c].bundle) = {c}
  BY <1>1 DEF Runs, ModelInv, CandidatesSound, Having, Running
<1>3. bundles[callers[c].bundle].in_use = Cardinality(Runs(callers[c].bundle))
  BY HasBundle DEF BundleSound, Having
<1>. QED BY <1>2, <1>3, FS_Singleton

LEMMA PrewarmFailsStep ==
    ASSUME ModelInv, NEW c \in Inferrers, PrewarmFails(c), machine' = machine PROVE ModelInv'
<1>. PICK b, old, o : b = callers[c].bundle /\ old = callers[c] /\ o = bundles[b]
  OBVIOUS
<1>1. old.at \in Running /\ old.at \in Having /\ old.for = "replace" /\ Candidate(old)
  BY DEF PrewarmFails, Having, Running, Candidate
<1>2. /\ UNCHANGED <<registry, locks, draining>> /\ GpuReturned(c) /\ callers' = [callers EXCEPT ![c] = Caller]
      /\ bundles' = [Returned(c) EXCEPT ![b].session = FALSE]
      /\ holders' = [holders EXCEPT ![old.lock] = Nobody]
  BY DEF PrewarmFails
<1>3. /\ b \in DOMAIN bundles /\ o \in ModelBundle
      /\ locks' \in [ModelKeys -> Nat] /\ holders' \in Seq(Inferrers \cup {Nobody})
  BY <1>1, <1>2, HasBundle, HoldersTyped
<1>4. PICK n \in ModelBundle : GivesBack(c, n)
  BY <1>1, <1>2, GivenBack
<1>. DEFINE m == [n EXCEPT !.session = FALSE]
<1>5. bundles' = [bundles EXCEPT ![b] = m]
  BY <1>2, <1>3, <1>4 DEF GivesBack, ModelBundle, ModelInv, RuntimeTypes
<1>6. /\ m \in ModelBundle /\ m.key = n.key /\ m.provider = n.provider /\ m.in_use = n.in_use
      /\ m.permits = n.permits
  BY DEF ModelBundle
<1>. HIDE DEF m
<1>7. ~(m.in_use > 0)
  <2>1. o.in_use = 1
    BY <1>1, CandidateAlone
  <2>2. RunsOn(old, b) /\ ~RunsOn(Caller, b)
    BY <1>1, CallerTyped DEF RunsOn
  <2>. QED BY <1>4, <1>6, <2>1, <2>2 DEF GivesBack, One
<1>8. /\ m.key = o.key /\ m.provider = o.provider /\ gpu' \in Int
      /\ m.in_use = o.in_use + One(RunsOn(Caller, b)) - One(RunsOn(old, b))
      /\ m.permits = o.permits - One(PermitOn(Caller, b)) + One(PermitOn(old, b))
      /\ gpu' = gpu - One(GpuOn(Caller)) + One(GpuOn(old))
  BY <1>4, <1>6 DEF GivesBack
<1>9. m \in ModelBundle /\ UNCHANGED <<machine, registry, draining>>
  BY <1>2, <1>6
<1>10. /\ m.session = o.session \/ Candidate(old)
       /\ m.in_use > 0 => m.session
  BY <1>1, <1>7
<1>o. ASSUME NEW r \in InferenceCaller, r = Caller, NEW z \in ModelBundle, z = m PROVE ModelInv'
  <2>1. /\ b = callers[c].bundle /\ callers[c].at \in Having
        /\ callers' = [callers EXCEPT ![c] = r] /\ bundles' = [bundles EXCEPT ![b] = z]
    BY <1>1, <1>2, <1>5, <1>o
  <2>2. /\ z.key = bundles[b].key /\ z.provider = bundles[b].provider
        /\ z.session = bundles[b].session \/ (r = Caller /\ Candidate(callers[c]))
        /\ z.in_use > 0 => z.session
        /\ z.in_use = bundles[b].in_use + One(RunsOn(r, b)) - One(RunsOn(callers[c], b))
        /\ z.permits = bundles[b].permits - One(PermitOn(r, b)) + One(PermitOn(callers[c], b))
        /\ gpu' = gpu - One(GpuOn(r)) + One(GpuOn(callers[c]))
    BY <1>8, <1>10, <1>o
  <2>. QED BY <1>3, <1>8, <1>9, <1>o, <2>1, <2>2, BundleMoves
<1>. QED BY <1>9, <1>o, CallerTyped
------------------------------------------------------------------------------
\* What enters the registry stays usable; what is evicted is out of it, and nobody runs it.
Entered(key, b, bs) ==
    /\ bundles' \in Seq(ModelBundle) /\ DOMAIN bundles' = DOMAIN bs
    /\ registry' \in [ModelKeys -> Nat] /\ locks' \in [ModelKeys -> Nat]
    /\ registry'[key] = b
    /\ \A k \in ModelKeys \ {key} : registry'[k] \in {0, registry[k]}
    /\ \A x \in DOMAIN bs :
          /\ bundles'[x].key = bs[x].key /\ bundles'[x].in_use = bs[x].in_use
          /\ bundles'[x].permits = bs[x].permits /\ bundles'[x].provider = bs[x].provider
          /\ \/ bundles'[x].session = bs[x].session
             \/ bs[x].in_use = 0 /\ \E k \in ModelKeys \ {key} : registry[k] = x
    /\ \A k \in ModelKeys : registry'[k] # 0 =>
          registry'[k] \in DOMAIN bs /\ bundles'[registry'[k]].session /\ bundles'[registry'[k]].key = k

LEMMA RegisterEffects ==
    ASSUME ModelInv, NEW key \in ModelKeys, NEW bs \in Seq(ModelBundle), NEW b \in DOMAIN bs,
           Register(key, b, bs), bs[b].key = key, bs[b].session,
           DOMAIN bundles \subseteq DOMAIN bs,
           \A x \in DOMAIN bundles : bs[x].key = bundles[x].key /\ bs[x].session = bundles[x].session
    PROVE  Entered(key, b, bs)
<1>. DEFINE reg == [registry EXCEPT ![key] = b]
<1>1. PICK out : /\ \E seq : out = Evicted(reg, bs, seq, key)
                 /\ registry' = [k \in ModelKeys |-> IF k \in out THEN 0 ELSE reg[k]]
                 /\ locks' = [k \in ModelKeys |-> IF k \in out THEN 0 ELSE locks[k]]
                 /\ bundles' = [i \in DOMAIN bs |-> IF \E k \in out : reg[k] = i
                                                    THEN [bs[i] EXCEPT !.session = FALSE] ELSE bs[i]]
  BY DEF Register
<1>2. out \subseteq Evictable(reg, bs, key)
  BY <1>1 DEF Evicted
<1>3. /\ reg \in [ModelKeys -> Nat] /\ reg[key] = b /\ b # 0
      /\ \A k \in ModelKeys \ {key} : reg[k] = registry[k]
  <2>1. b \in Nat /\ b # 0
    BY LenProperties
  <2>. QED BY <2>1 DEF ModelInv, RuntimeTypes
<1>4. \A k \in ModelKeys : reg[k] # 0 => reg[k] \in DOMAIN bs /\ bs[reg[k]].session /\ bs[reg[k]].key = k
  BY <1>3 DEF ModelInv, RegistrySound
<1>5. \A k \in out : k \in ModelKeys /\ k # key /\ reg[k] # 0 /\ bs[reg[k]].in_use = 0
  BY <1>2 DEF Evictable
<1>. HIDE DEF reg
<1>6. \A x \in DOMAIN bs : bs[x] \in ModelBundle
  BY ElementOfSeq
<1>7. ASSUME NEW x \in DOMAIN bs
      PROVE  /\ bundles'[x] \in ModelBundle
             /\ bundles'[x].key = bs[x].key /\ bundles'[x].in_use = bs[x].in_use
             /\ bundles'[x].permits = bs[x].permits /\ bundles'[x].provider = bs[x].provider
             /\ \/ bundles'[x].session = bs[x].session /\ \A k \in out : reg[k] # x
                \/ bs[x].in_use = 0 /\ \E k \in ModelKeys \ {key} : registry[k] = x
             /\ (\A k \in out : reg[k] # x) => bundles'[x].session = bs[x].session
  <2>1. CASE \E k \in out : reg[k] = x
    <3>1. bundles'[x] = [bs[x] EXCEPT !.session = FALSE]
      BY <1>1, <2>1
    <3>2. bs[x] \in ModelBundle
      BY <1>6
    <3>3. /\ bundles'[x] \in ModelBundle
          /\ bundles'[x].key = bs[x].key /\ bundles'[x].in_use = bs[x].in_use
          /\ bundles'[x].permits = bs[x].permits /\ bundles'[x].provider = bs[x].provider
      BY <3>1, <3>2 DEF ModelBundle
    <3>. QED BY <1>3, <1>5, <2>1, <3>3
  <2>2. CASE ~ \E k \in out : reg[k] = x
    BY <1>1, <1>6, <2>2
  <2>. QED BY <2>1, <2>2
<1>8. DOMAIN bundles' = DOMAIN bs /\ bundles' \in Seq(ModelBundle)
  <2>1. DOMAIN bundles' = DOMAIN bs /\ DOMAIN bs = 1..Len(bs) /\ Len(bs) \in Nat
    BY <1>1, LenProperties
  <2>2. bundles' \in [1..Len(bs) -> ModelBundle]
    BY <1>1, <1>7, <2>1
  <2>3. bundles' \in UNION {[1..n -> ModelBundle] : n \in Nat}
    BY <2>1, <2>2
  <2>4. bundles' \in Seq(ModelBundle)
    BY <2>3, SeqDef, Zenon
  <2>. QED BY <2>1, <2>4
<1>9. /\ registry' \in [ModelKeys -> Nat] /\ locks' \in [ModelKeys -> Nat] /\ registry'[key] = b
      /\ \A k \in ModelKeys \ {key} : registry'[k] \in {0, registry[k]}
  BY <1>1, <1>3, <1>5 DEF ModelInv, RuntimeTypes
<1>10. ASSUME NEW k \in ModelKeys, registry'[k] # 0
       PROVE  registry'[k] \in DOMAIN bs /\ bundles'[registry'[k]].session /\ bundles'[registry'[k]].key = k
  <2>1. registry'[k] = reg[k] /\ k \notin out /\ reg[k] # 0
    BY <1>1, <1>10
  <2>2. reg[k] \in DOMAIN bs /\ bs[reg[k]].session /\ bs[reg[k]].key = k
    BY <1>4, <2>1
  <2>3. \A l \in out : reg[l] # reg[k]
    BY <1>4, <1>5, <2>1, <2>2
  <2>. QED BY <1>7, <2>1, <2>2, <2>3
<1>. QED BY <1>7, <1>8, <1>9, <1>10 DEF Entered

LEMMA ReplaceStep ==
    ASSUME ModelInv, NEW c \in Inferrers, replace_model_bundle(c), machine' = machine PROVE ModelInv'
<1>. PICK b, old, o, key, bs :
         b = callers[c].bundle /\ old = callers[c] /\ o = bundles[b] /\ key = callers[c].key /\ bs = Returned(c)
  OBVIOUS
<1>1. old.at \in Running /\ old.at \in Having /\ old.for = "replace" /\ Candidate(old)
  BY DEF replace_model_bundle, Having, Running, Candidate
<1>2. /\ Register(key, b, bs) /\ GpuReturned(c) /\ callers' = [callers EXCEPT ![c] = Caller]
      /\ draining' = draining \cup ({registry[key]} \ {0})
      /\ holders' = [holders EXCEPT ![old.lock] = Nobody]
  BY DEF replace_model_bundle
<1>3. /\ b \in DOMAIN bundles /\ o \in ModelBundle /\ key \in ModelKeys
      /\ holders' \in Seq(Inferrers \cup {Nobody})
  BY <1>1, <1>2, HasBundle, HoldersTyped
<1>4. /\ b \notin draining /\ o.session /\ o.key = key
      /\ \A k \in ModelKeys : registry[k] # b
      /\ \A d \in Inferrers \ {c} : callers[d].at \in Having => callers[d].bundle # b
  BY <1>1 DEF ModelInv, CandidatesSound
<1>5. PICK n \in ModelBundle : GivesBack(c, n)
  BY <1>1, <1>2, GivenBack
<1>6. /\ bs = [bundles EXCEPT ![b] = n] /\ bs \in Seq(ModelBundle) /\ DOMAIN bs = DOMAIN bundles
      /\ bs[b] = n /\ \A x \in DOMAIN bundles : x # b => bs[x] = bundles[x]
      /\ n.key = key /\ n.session
  BY <1>3, <1>4, <1>5, ExceptSeq DEF GivesBack, ModelInv, RuntimeTypes
<1>7. \A x \in DOMAIN bundles : bs[x].key = bundles[x].key /\ bs[x].session = bundles[x].session
  BY <1>4, <1>5, <1>6 DEF GivesBack
<1>8. Entered(key, b, bs)
  BY <1>2, <1>3, <1>6, <1>7, RegisterEffects
<1>9. \A d \in Inferrers : callers'[d] = IF d = c THEN Caller ELSE callers[d]
  BY <1>2 DEF ModelInv, RuntimeTypes
<1>10. RuntimeTypes'
  <2>1. draining' \subseteq DOMAIN bundles
    BY <1>2, <1>3 DEF ModelInv, RuntimeTypes, RegistrySound
  <2>2. gpu' \in Int /\ callers' \in [Inferrers -> InferenceCaller] /\ machine' \in Machines
    BY <1>2, <1>5, CallerTyped DEF GivesBack, ModelInv, RuntimeTypes
  <2>. QED BY <1>3, <1>6, <1>8, <2>1, <2>2 DEF Entered, ModelInv, RuntimeTypes
<1>11. RegistrySound'
  <2>1. \A k \in ModelKeys \ {key} : registry[k] # 0 => registry[k] \notin draining'
    BY <1>2, <1>3 DEF ModelInv, RegistrySound
  <2>2. b \notin draining'
    BY <1>2, <1>3, <1>4
  <2>3. ASSUME NEW k \in ModelKeys, registry'[k] # 0
        PROVE  /\ registry'[k] \in DOMAIN bundles' /\ registry'[k] \notin draining'
               /\ bundles'[registry'[k]].session /\ bundles'[registry'[k]].key = k
    <3>1. registry'[k] \notin draining'
      <4>1. registry'[key] = b /\ (k # key => registry'[k] \in {0, registry[k]})
        BY <1>8 DEF Entered
      <4>. QED BY <2>1, <2>2, <2>3, <4>1
    <3>. QED BY <1>8, <2>3, <3>1 DEF Entered
  <2>. QED BY <2>3 DEF RegistrySound
<1>12. CallersSound'
  <2>1. ASSUME NEW d \in Inferrers, d # c
        PROVE  /\ callers[d].at \in {"lock", "loading"} \cup Having =>
                      callers[d].key \in ModelKeys /\ callers[d].for \in {"use", "replace"}
               /\ callers[d].at \in Having => callers[d].bundle \in DOMAIN bundles'
               /\ callers[d].at = "gpu" => bundles'[callers[d].bundle].provider \in {"cuda", "tensorrt"}
    <3>1. /\ callers[d].at \in {"lock", "loading"} \cup Having =>
                 callers[d].key \in ModelKeys /\ callers[d].for \in {"use", "replace"}
          /\ callers[d].at \in Having => callers[d].bundle \in DOMAIN bundles
          /\ callers[d].at = "gpu" => bundles[callers[d].bundle].provider \in {"cuda", "tensorrt"}
      BY DEF ModelInv, CallersSound, OnGpu
    <3>2. callers[d].at = "gpu" => callers[d].at \in Having
      BY DEF Having, Running
    <3>3. \A x \in DOMAIN bundles : bundles'[x].provider = bundles[x].provider
      BY <1>5, <1>6, <1>8 DEF Entered, GivesBack
    <3>. QED BY <1>6, <1>8, <3>1, <3>2, <3>3 DEF Entered
  <2>2. Caller.at # "gpu"
    BY CallerTyped
  <2>. QED BY <1>9, <2>1, <2>2, CallerTyped DEF CallersSound, OnGpu
<1>13. CandidatesSound'
  <2>1. ASSUME NEW d \in Inferrers, Candidate(callers'[d])
        PROVE  /\ callers'[d].bundle \notin draining'
               /\ bundles'[callers'[d].bundle].session /\ bundles'[callers'[d].bundle].key = callers'[d].key
               /\ \A k \in ModelKeys : registry'[k] # callers'[d].bundle
               /\ \A e \in Inferrers \ {d} : callers'[e].at \in Having => callers'[e].bundle # callers'[d].bundle
    <3>1. d # c /\ callers'[d] = callers[d]
      BY <1>9, <2>1, CallerTyped DEF Candidate
    <3>2. /\ callers[d].bundle \notin draining
          /\ bundles[callers[d].bundle].session /\ bundles[callers[d].bundle].key = callers[d].key
          /\ \A k \in ModelKeys : registry[k] # callers[d].bundle
          /\ \A e \in Inferrers \ {d} : callers[e].at \in Having => callers[e].bundle # callers[d].bundle
          /\ callers[d].bundle \in DOMAIN bundles /\ callers[d].at \in Having
      BY <2>1, <3>1 DEF ModelInv, CandidatesSound, CallersSound, Candidate
    <3>3. callers[d].bundle # b
      BY <1>4, <3>1, <3>2
    <3>4. callers[d].bundle \notin draining'
      BY <1>2, <1>3, <3>2
    <3>5. bundles'[callers[d].bundle].session /\ bundles'[callers[d].bundle].key = callers[d].key
      <4>1. PICK x : x = callers[d].bundle
        OBVIOUS
      <4>2. x \in DOMAIN bs /\ bs[x] = bundles[x] /\ bundles[x].session /\ \A k \in ModelKeys : registry[k] # x
        BY <1>6, <3>2, <3>3, <4>1
      <4>3. bundles'[x].session = bs[x].session /\ bundles'[x].key = bs[x].key
        BY <1>8, <4>2 DEF Entered
      <4>. QED BY <3>2, <4>1, <4>2, <4>3
    <3>6. \A k \in ModelKeys : registry'[k] # callers[d].bundle
      BY <1>6, <1>8, <3>2, <3>3 DEF Entered, ModelInv, RuntimeTypes
    <3>7. \A e \in Inferrers \ {d} : callers'[e].at \in Having => callers'[e].bundle # callers[d].bundle
      BY <1>9, <3>2, CallerTyped
    <3>. QED BY <3>1, <3>4, <3>5, <3>6, <3>7
  <2>. QED BY <2>1 DEF CandidatesSound, Candidate
<1>14. ASSUME NEW x \in DOMAIN bundles PROVE Counted(x, c, Caller)
  <2>1. BundleSound(x) /\ bundles[x] \in ModelBundle
    BY BundlesTyped DEF ModelInv, CountsSound
  <2>2. /\ bundles'[x].in_use = bs[x].in_use
        /\ bundles'[x].permits = bs[x].permits /\ bundles'[x].provider = bs[x].provider
        /\ bundles'[x].session = bs[x].session \/ bs[x].in_use = 0
    BY <1>6, <1>8 DEF Entered
  <2>3. CASE x = b
    BY <1>5, <1>6, <2>2, <2>3 DEF Counted, GivesBack
  <2>4. CASE x # b
    <3>1. ~RunsOn(Caller, x) /\ ~PermitOn(Caller, x) /\ ~RunsOn(old, x) /\ ~PermitOn(old, x)
      BY <2>4, CallerTyped DEF RunsOn, PermitOn, Running
    <3>2. bs[x] = bundles[x]
      BY <1>6, <2>4
    <3>. QED BY <2>1, <2>2, <3>1, <3>2 DEF Counted, One, BundleSound, ModelBundle
  <2>. QED BY <2>3, <2>4
<1>15. CountsSound'
  <2>1. DOMAIN bundles' = DOMAIN bundles
    BY <1>6, <1>8 DEF Entered
  <2>2. gpu' = gpu - One(GpuOn(Caller)) + One(GpuOn(callers[c]))
    BY <1>5 DEF GivesBack
  <2>. QED BY <1>2, <1>14, <2>1, <2>2, CallerTyped, CountStep
<1>. QED BY <1>10, <1>11, <1>12, <1>13, <1>15 DEF ModelInv

LEMMA SessionProviders ==
    ASSUME machine \in Machines, NEW p \in create_session(machine), p # "error"
    PROVE  p \in {"cpu", "cuda", "tensorrt"} /\ (p = "cpu" => machine.force \/ machine.fallback)
<1>1. /\ machine.force \in BOOLEAN /\ machine.fallback \in BOOLEAN /\ machine.cpu \in BOOLEAN
      /\ machine.cuda \in BOOLEAN
  BY ModelAssumption
<1>2. CASE machine.force
  BY <1>1, <1>2 DEF create_session
<1>3. CASE ~machine.force /\ ~machine.cuda
  BY <1>1, <1>3 DEF create_session, CpuOrError
<1>4. CASE ~machine.force /\ machine.cuda
  BY <1>1, <1>4 DEF create_session, CpuOrError, session_providers
<1>. QED BY <1>1, <1>2, <1>3, <1>4

LEMMA LoadSucceedsStep ==
    ASSUME ModelInv, NEW c \in Inferrers, LoadSucceeds(c), machine' = machine PROVE ModelInv'
<1>. PICK old, key, b : old = callers[c] /\ key = callers[c].key /\ b = Len(bundles) + 1
  OBVIOUS
<1>1. PICK provider \in create_session(machine) \ {"error"} :
          /\ IF callers[c].for = "use"
             THEN /\ Register(key, b, Append(bundles, Bundle(key, provider)))
                  /\ holders' = [holders EXCEPT ![callers[c].lock] = Nobody]
             ELSE /\ bundles' = Append(bundles, Bundle(key, provider))
                  /\ UNCHANGED <<registry, recency, locks, holders, cooling>>
          /\ callers' = [callers EXCEPT ![c].at = "have", ![c].bundle = b]
  BY DEF LoadSucceeds
<1>2. PICK n, bs : n = Bundle(key, provider) /\ bs = Append(bundles, n)
  OBVIOUS
<1>3. /\ old \in InferenceCaller /\ old.at = "loading" /\ key \in ModelKeys /\ old.for \in {"use", "replace"}
      /\ bundles \in Seq(ModelBundle) /\ UNCHANGED <<gpu, draining>>
  BY DEF LoadSucceeds, ModelInv, RuntimeTypes, CallersSound
<1>4. n \in ModelBundle /\ n.key = key /\ n.session /\ n.in_use = 0 /\ n.permits = MaxConcurrency
      /\ (n.provider = "cpu" => machine.force \/ machine.fallback)
  <2>1. provider \in {"cpu", "cuda", "tensorrt"} /\ (provider = "cpu" => machine.force \/ machine.fallback)
    BY <1>1, SessionProviders DEF ModelInv, RuntimeTypes
  <2>. QED BY <1>2, <1>3, <2>1, ModelAssumption DEF Bundle, ModelBundle
<1>5. /\ bs \in Seq(ModelBundle) /\ DOMAIN bs = DOMAIN bundles \cup {b} /\ b \notin DOMAIN bundles
      /\ b \in Nat /\ b # 0 /\ 0 \notin DOMAIN bs
      /\ bs[b] = n /\ \A x \in DOMAIN bundles : bs[x] = bundles[x]
  <2>1. /\ Len(bundles) \in Nat /\ DOMAIN bundles = 1..Len(bundles)
        /\ bs \in Seq(ModelBundle) /\ DOMAIN bs = 1..Len(bs) /\ Len(bs) = Len(bundles) + 1
        /\ bs[b] = n /\ \A x \in 1..Len(bundles) : bs[x] = bundles[x]
    BY <1>2, <1>3, <1>4, LenProperties, AppendProperties
  <2>. QED BY <2>1
<1>. DEFINE r == [old EXCEPT !.at = "have", !.bundle = b]
<1>6. callers' = [callers EXCEPT ![c] = r]
  BY <1>1 DEF ModelInv, RuntimeTypes
<1>7. r \in InferenceCaller /\ r.at = "have" /\ r.bundle = b /\ r.key = key /\ r.for = old.for
  BY <1>3, <1>5 DEF InferenceCaller, Having
<1>. HIDE DEF r
<1>8. \A d \in Inferrers : callers'[d] = IF d = c THEN r ELSE callers[d]
  BY <1>6 DEF ModelInv, RuntimeTypes
<1>9. /\ bundles' \in Seq(ModelBundle) /\ DOMAIN bundles' = DOMAIN bs
      /\ registry' \in [ModelKeys -> Nat] /\ locks' \in [ModelKeys -> Nat]
      /\ holders' \in Seq(Inferrers \cup {Nobody})
      /\ \A k \in ModelKeys : registry'[k] \in {0, registry[k]} \/ (registry'[k] = b /\ old.for = "use")
      /\ \A x \in DOMAIN bs :
            /\ bundles'[x].key = bs[x].key /\ bundles'[x].in_use = bs[x].in_use
            /\ bundles'[x].permits = bs[x].permits /\ bundles'[x].provider = bs[x].provider
            /\ \/ bundles'[x].session = bs[x].session
               \/ bs[x].in_use = 0 /\ \E k \in ModelKeys : registry[k] = x
      /\ \A k \in ModelKeys : registry'[k] # 0 =>
            registry'[k] \in DOMAIN bs /\ bundles'[registry'[k]].session /\ bundles'[registry'[k]].key = k
  <2>1. CASE old.for = "use"
    <3>1. Register(key, b, bs) /\ holders' = [holders EXCEPT ![callers[c].lock] = Nobody]
      BY <1>1, <1>2, <2>1
    <3>2. Entered(key, b, bs)
      BY <1>3, <1>4, <1>5, <3>1, RegisterEffects
    <3>3. holders' \in Seq(Inferrers \cup {Nobody})
      BY <3>1, HoldersTyped DEF ModelInv, RuntimeTypes
    <3>4. \A k \in ModelKeys : registry'[k] \in {0, registry[k]} \/ (registry'[k] = b /\ old.for = "use")
      BY <2>1, <3>2 DEF Entered
    <3>. QED BY <3>2, <3>3, <3>4 DEF Entered
  <2>2. CASE old.for # "use"
    <3>1. bundles' = bs /\ UNCHANGED <<registry, locks, holders>>
      BY <1>1, <1>2, <2>2
    <3>2. \A k \in ModelKeys : registry[k] # 0 =>
              registry[k] \in DOMAIN bs /\ bs[registry[k]].session /\ bs[registry[k]].key = k
      BY <1>5 DEF ModelInv, RegistrySound
    <3>3. /\ registry' \in [ModelKeys -> Nat] /\ locks' \in [ModelKeys -> Nat]
          /\ holders' \in Seq(Inferrers \cup {Nobody})
      BY <3>1 DEF ModelInv, RuntimeTypes
    <3>. QED BY <1>5, <3>1, <3>2, <3>3
  <2>. QED BY <2>1, <2>2
<1>10. RuntimeTypes'
  BY <1>3, <1>5, <1>6, <1>7, <1>9 DEF ModelInv, RuntimeTypes
<1>11. RegistrySound'
  <2>1. ASSUME NEW k \in ModelKeys, registry'[k] # 0
        PROVE  /\ registry'[k] \in DOMAIN bundles' /\ registry'[k] \notin draining'
               /\ bundles'[registry'[k]].session /\ bundles'[registry'[k]].key = k
    <3>1. registry'[k] \notin draining'
      BY <1>3, <1>5, <1>9, <2>1 DEF ModelInv, RuntimeTypes, RegistrySound
    <3>. QED BY <1>9, <2>1, <3>1
  <2>. QED BY <2>1 DEF RegistrySound
<1>12. CallersSound'
  <2>1. ASSUME NEW d \in Inferrers, d # c
        PROVE  /\ callers[d].at \in {"lock", "loading"} \cup Having =>
                      callers[d].key \in ModelKeys /\ callers[d].for \in {"use", "replace"}
               /\ callers[d].at \in Having => callers[d].bundle \in DOMAIN bundles'
               /\ callers[d].at = "gpu" => bundles'[callers[d].bundle].provider \in {"cuda", "tensorrt"}
    <3>1. /\ callers[d].at \in {"lock", "loading"} \cup Having =>
                 callers[d].key \in ModelKeys /\ callers[d].for \in {"use", "replace"}
          /\ callers[d].at \in Having => callers[d].bundle \in DOMAIN bundles
          /\ callers[d].at = "gpu" => bundles[callers[d].bundle].provider \in {"cuda", "tensorrt"}
      BY DEF ModelInv, CallersSound, OnGpu
    <3>2. callers[d].at = "gpu" => callers[d].at \in Having
      BY DEF Having, Running
    <3>3. \A x \in DOMAIN bundles : x \in DOMAIN bundles' /\ bundles'[x].provider = bundles[x].provider
      BY <1>5, <1>9
    <3>. QED BY <3>1, <3>2, <3>3
  <2>2. r.at # "gpu" /\ r.bundle \in DOMAIN bundles' /\ r.key \in ModelKeys /\ r.for \in {"use", "replace"}
    BY <1>3, <1>5, <1>7, <1>9
  <2>. QED BY <1>8, <2>1, <2>2 DEF CallersSound, OnGpu
<1>13. CandidatesSound'
  <2>1. ASSUME NEW d \in Inferrers, Candidate(callers'[d])
        PROVE  /\ callers'[d].bundle \notin draining'
               /\ bundles'[callers'[d].bundle].session /\ bundles'[callers'[d].bundle].key = callers'[d].key
               /\ \A k \in ModelKeys : registry'[k] # callers'[d].bundle
               /\ \A e \in Inferrers \ {d} : callers'[e].at \in Having => callers'[e].bundle # callers'[d].bundle
    <3>1. CASE d = c
      <4>1. callers'[d] = r /\ old.for # "use"
        BY <1>7, <1>8, <2>1, <3>1 DEF Candidate
      <4>2. b \notin draining'
        BY <1>3, <1>5 DEF ModelInv, RuntimeTypes
      <4>3. \A k \in ModelKeys : registry[k] # b
        BY <1>5 DEF ModelInv, RegistrySound
      <4>4. \A k \in ModelKeys : registry'[k] # b
        BY <1>5, <1>9, <4>1, <4>3
      <4>5. bundles'[b].session /\ bundles'[b].key = key
        BY <1>4, <1>5, <1>9, <4>3
      <4>6. \A e \in Inferrers \ {c} : callers[e].at \in Having => callers[e].bundle # b
        BY <1>5 DEF ModelInv, CallersSound
      <4>. QED BY <1>7, <1>8, <3>1, <4>1, <4>2, <4>4, <4>5, <4>6
    <3>2. CASE d # c
      <4>1. callers'[d] = callers[d]
        BY <1>8, <3>2
      <4>2. /\ callers[d].bundle \notin draining
            /\ bundles[callers[d].bundle].session /\ bundles[callers[d].bundle].key = callers[d].key
            /\ \A k \in ModelKeys : registry[k] # callers[d].bundle
            /\ \A e \in Inferrers \ {d} : callers[e].at \in Having => callers[e].bundle # callers[d].bundle
            /\ callers[d].bundle \in DOMAIN bundles
        BY <2>1, <4>1 DEF ModelInv, CandidatesSound, CallersSound, Candidate
      <4>3. PICK x : x = callers[d].bundle
        OBVIOUS
      <4>4. x # b /\ x # 0 /\ x \in DOMAIN bs
        BY <1>5, <4>2, <4>3
      <4>5. bundles'[x].session /\ bundles'[x].key = callers[d].key
        <5>1. bs[x].session /\ bs[x].key = callers[d].key /\ \A k \in ModelKeys : registry[k] # x
          BY <1>5, <4>2, <4>3
        <5>2. bundles'[x].key = bs[x].key /\ bundles'[x].session = bs[x].session
          BY <1>9, <4>4, <5>1
        <5>. QED BY <5>1, <5>2
      <4>6. \A k \in ModelKeys : registry'[k] # x
        BY <1>9, <4>2, <4>3, <4>4
      <4>7. \A e \in Inferrers \ {d} : callers'[e].at \in Having => callers'[e].bundle # x
        BY <1>7, <1>8, <4>2, <4>3, <4>4
      <4>. QED BY <1>3, <4>1, <4>2, <4>3, <4>5, <4>6, <4>7
    <3>. QED BY <3>1, <3>2
  <2>. QED BY <2>1 DEF CandidatesSound, Candidate
<1>14. r.at \notin Running /\ old.at \notin Running /\ ~GpuOn(r) /\ ~GpuOn(old)
  BY <1>3, <1>7 DEF Running, GpuOn
<1>15. ASSUME NEW x \in DOMAIN bundles PROVE Counted(x, c, r)
  <2>1. BundleSound(x) /\ bundles[x] \in ModelBundle
    BY BundlesTyped DEF ModelInv, CountsSound
  <2>2. ~RunsOn(r, x) /\ ~PermitOn(r, x) /\ ~RunsOn(old, x) /\ ~PermitOn(old, x)
    BY <1>14 DEF RunsOn, PermitOn, Running
  <2>3. /\ bundles'[x].in_use = bundles[x].in_use
        /\ bundles'[x].permits = bundles[x].permits /\ bundles'[x].provider = bundles[x].provider
        /\ bundles'[x].session = bundles[x].session \/ bundles[x].in_use = 0
    BY <1>5, <1>9
  <2>. QED BY <2>1, <2>2, <2>3 DEF Counted, One, BundleSound, ModelBundle
<1>16. CountsSound'
  <2>1. ASSUME NEW x \in DOMAIN bundles' \ DOMAIN bundles
        PROVE  /\ bundles'[x].in_use = 0 /\ bundles'[x].permits = MaxConcurrency
               /\ bundles'[x].provider = "cpu" => machine.force \/ machine.fallback
    BY <1>4, <1>5, <1>9
  <2>2. DOMAIN bundles \subseteq DOMAIN bundles'
    BY <1>5, <1>9
  <2>3. gpu' = gpu - One(GpuOn(r)) + One(GpuOn(callers[c]))
    BY <1>3, <1>14 DEF One, ModelInv, RuntimeTypes
  <2>. QED BY <1>6, <1>7, <1>14, <1>15, <2>1, <2>2, <2>3, CountStep
<1>. QED BY <1>10, <1>11, <1>12, <1>13, <1>16 DEF ModelInv
------------------------------------------------------------------------------
LEMMA UnloadStep ==
    ASSUME ModelInv, NEW key \in ModelKeys, unload_model_by_key(key), machine' = machine PROVE ModelInv'
<1>1. /\ registry[key] # 0 /\ registry' = [registry EXCEPT ![key] = 0] /\ locks' = [locks EXCEPT ![key] = 0]
      /\ draining' = draining \cup {registry[key]} /\ UNCHANGED <<bundles, holders, gpu, callers>>
  BY DEF unload_model_by_key
<1>2. \A k \in ModelKeys : registry'[k] = IF k = key THEN 0 ELSE registry[k]
  BY <1>1 DEF ModelInv, RuntimeTypes
<1>3. RuntimeTypes'
  BY <1>1 DEF ModelInv, RuntimeTypes, RegistrySound
<1>4. RegistrySound'
  BY <1>1, <1>2 DEF ModelInv, RegistrySound
<1>5. CallersSound'
  BY <1>1 DEF ModelInv, CallersSound, OnGpu
<1>6. CandidatesSound'
  <2>1. \A c \in Inferrers : Candidate(callers[c]) => callers[c].bundle # 0
    BY DEF ModelInv, RuntimeTypes, CallersSound, Candidate
  <2>. QED BY <1>1, <1>2, <2>1 DEF ModelInv, CandidatesSound, Candidate
<1>7. CountsSound'
  BY <1>1, CountsKept DEF ModelInv, CountsSound, BundleSound
<1>. QED BY <1>3, <1>4, <1>5, <1>6, <1>7 DEF ModelInv

LEMMA ReleaseStep ==
    ASSUME ModelInv, NEW b \in draining, release_when_drained(b), machine' = machine PROVE ModelInv'
<1>1. /\ bundles[b].in_use = 0 /\ bundles' = [bundles EXCEPT ![b].session = FALSE]
      /\ draining' = draining \ {b} /\ UNCHANGED <<registry, locks, holders, gpu, callers>>
  BY DEF release_when_drained
<1>2. b \in DOMAIN bundles /\ bundles[b] \in ModelBundle /\ bundles \in Seq(ModelBundle)
  BY BundlesTyped DEF ModelInv, RuntimeTypes
<1>. DEFINE n == [bundles[b] EXCEPT !.session = FALSE]
<1>3. bundles' = [bundles EXCEPT ![b] = n]
  BY <1>1
<1>4. /\ n \in ModelBundle /\ n.key = bundles[b].key /\ n.in_use = bundles[b].in_use
      /\ n.permits = bundles[b].permits /\ n.provider = bundles[b].provider
  BY <1>2 DEF ModelBundle
<1>. HIDE DEF n
<1>5. /\ bundles' \in Seq(ModelBundle) /\ DOMAIN bundles' = DOMAIN bundles /\ bundles'[b] = n
      /\ \A x \in DOMAIN bundles : x # b => bundles'[x] = bundles[x]
  BY <1>2, <1>3, <1>4, ExceptSeq
<1>6. RuntimeTypes'
  BY <1>1, <1>5 DEF ModelInv, RuntimeTypes
<1>7. RegistrySound'
  BY <1>1, <1>5 DEF ModelInv, RegistrySound
<1>8. CallersSound'
  <2>1. \A x \in DOMAIN bundles : bundles'[x].provider = bundles[x].provider
    BY <1>4, <1>5
  <2>2. \A c \in Inferrers : callers[c].at = "gpu" => callers[c].at \in Having
    BY DEF Having, Running
  <2>. QED BY <1>1, <1>5, <2>1, <2>2 DEF ModelInv, CallersSound, OnGpu
<1>9. CandidatesSound'
  <2>1. \A c \in Inferrers : Candidate(callers[c]) =>
            callers[c].bundle \in DOMAIN bundles /\ callers[c].bundle # b
    BY DEF ModelInv, CallersSound, CandidatesSound, Candidate
  <2>. QED BY <1>1, <1>5, <2>1 DEF ModelInv, CandidatesSound, Candidate
<1>10. CountsSound'
  <2>1. ASSUME NEW x \in DOMAIN bundles
        PROVE  /\ bundles'[x].in_use = bundles[x].in_use /\ bundles'[x].permits = bundles[x].permits
               /\ bundles'[x].in_use > 0 => bundles'[x].session
               /\ bundles'[x].provider = bundles[x].provider
    BY <1>1, <1>4, <1>5 DEF ModelInv, CountsSound, BundleSound
  <2>. QED BY <1>1, <1>5, <2>1, CountsKept
<1>. QED BY <1>6, <1>7, <1>8, <1>9, <1>10 DEF ModelInv

LEMMA ModelInvInit ==
    ModelInit => ModelInv
<1>. SUFFICES ASSUME ModelInit PROVE ModelInv
  OBVIOUS
<1>1. /\ registry = [k \in ModelKeys |-> 0] /\ locks = [k \in ModelKeys |-> 0] /\ bundles = << >> /\ holders = << >>
      /\ draining = {} /\ gpu = GpuLimit /\ callers = [c \in Inferrers |-> Caller] /\ machine \in Machines
  BY DEF ModelInit
<1>2. bundles \in Seq(ModelBundle) /\ holders \in Seq(Inferrers \cup {Nobody}) /\ DOMAIN bundles = {}
  BY <1>1
<1>3. RuntimeTypes
  BY <1>1, <1>2, CallerTyped, ModelAssumption DEF RuntimeTypes
<1>4. RegistrySound /\ CallersSound /\ CandidatesSound
  BY <1>1, CallerTyped DEF RegistrySound, CallersSound, CandidatesSound, Candidate
<1>5. OnDevice = {}
  BY <1>1, CallerTyped DEF OnDevice, OnGpu
<1>6. CountsSound
  BY <1>1, <1>2, <1>5, FS_EmptySet, ModelAssumption DEF CountsSound
<1>. QED BY <1>3, <1>4, <1>6 DEF ModelInv

LEMMA ModelInvNext ==
    ModelInv /\ [ModelNext]_modelVars => ModelInv'
<1>. SUFFICES ASSUME ModelInv, [ModelNext]_modelVars PROVE ModelInv'
  OBVIOUS
<1>1. ASSUME UNCHANGED <<machine, registry, bundles, locks, holders, gpu, draining, callers>> PROVE ModelInv'
  <2>1. RuntimeTypes'
    BY <1>1 DEF ModelInv, RuntimeTypes
  <2>2. RegistrySound' /\ CallersSound' /\ CandidatesSound'
    BY <1>1 DEF ModelInv, RegistrySound, CallersSound, CandidatesSound, Candidate, OnGpu
  <2>3. CountsSound'
    BY <1>1, CountsKept DEF ModelInv, CountsSound, BundleSound
  <2>. QED BY <2>1, <2>2, <2>3 DEF ModelInv
<1>2. CASE UNCHANGED modelVars
  BY <1>1, <1>2 DEF modelVars
<1>3. ASSUME machine' = machine, CooldownEnds PROVE ModelInv'
  BY <1>1, <1>3 DEF CooldownEnds
<1>4. ASSUME machine' = machine, NEW c \in Inferrers,
             \/ Hit(c) \/ get_model_load_lock(c) \/ Locked(c) \/ LoadSucceeds(c) \/ LoadFails(c)
             \/ StartRun(c) \/ AcquireModel(c) \/ AcquireGpu(c) \/ EndRun(c) \/ replace_model_bundle(c)
             \/ PrewarmFails(c)
      PROVE  ModelInv'
  BY <1>4, HitStep, LoadLockStep, LockedStep, LoadSucceedsStep, LoadFailsStep, StartRunStep, AcquireModelStep,
     AcquireGpuStep, EndRunStep, ReplaceStep, PrewarmFailsStep
<1>. QED BY <1>2, <1>3, <1>4, UnloadStep, ReleaseStep DEF ModelNext

\* Two callers load one model at a time only when the lock of one of them is no longer the key's.
LEMMA LoadedTwice ==
    ASSUME NEW key \in ModelKeys, Cardinality(Loading(key)) > 1
    PROVE  \E c \in Loading(key) : locks[key] # callers[c].lock
<1>. SUFFICES ASSUME \A c \in Loading(key) : locks[key] = callers[c].lock PROVE FALSE
  OBVIOUS
<1>1. \A c, d \in Loading(key) : c = d
  BY DEF Loading
<1>2. CASE Loading(key) = {}
  BY <1>2, FS_EmptySet
<1>3. CASE Loading(key) # {}
  <2>1. PICK c : Loading(key) = {c}
    BY <1>1, <1>3
  <2>. QED BY SMTT(30), <2>1, FS_Singleton
<1>. QED BY <1>2, <1>3

\* The registry of models, for any number of callers, keys, bundles and permits and any
\* machines: a session is never released under an inference, the registry holds usable
\* sessions, and what is in use and the permits account for the inferences under way.
THEOREM SessionsAreAlive == ModelSpec => []SessionsAlive
<1>1. ModelInv => SessionsAlive
  <2>. SUFFICES ASSUME ModelInv PROVE SessionsAlive
    OBVIOUS
  <2>1. \A k \in Loaded : bundles[registry[k]].session /\ bundles[registry[k]].key = k
    BY DEF Loaded, ModelInv, RegistrySound
  <2>2. \A b \in DOMAIN bundles :
            /\ bundles[b].in_use = Cardinality(Runs(b))
            /\ bundles[b].in_use > 0 => bundles[b].session
            /\ bundles[b].permits + Cardinality({c \in Runs(b) : callers[c].at # "model"}) = MaxConcurrency
            /\ bundles[b].provider = "cpu" => machine.force \/ machine.fallback
    BY DEF ModelInv, CountsSound, BundleSound, Permitted
  <2>3. gpu + Cardinality({c \in Inferrers : callers[c].at = "running" /\ OnGpu(callers[c].bundle)}) = GpuLimit
    BY DEF ModelInv, CountsSound, OnDevice
  <2>. QED BY <2>1, <2>2, <2>3, LoadedTwice DEF SessionsAlive
<1>2. ModelSpec => []ModelInv
  BY ModelInvInit, ModelInvNext, PTL DEF ModelSpec
<1>. QED BY <1>1, <1>2, PTL

-----------------------------------------------------------------------------
(* The stored result of a Run.  A reference is built from the one before it, *)
(* so its shape, the numbering of its shards and, while indexing never       *)
(* failed, the units in them are facts about every reference, saved or about *)
(* to be.                                                                    *)

Storing == {"put", "track", "save"}
Live == {"running", "cancelling"}

Kind(k) == k[1]
Number(k) == k[2]

\* Of a reference made when so many partial results were published.
RefShape(r, published) ==
    /\ r.key = FinalKey \/ (Kind(r.key) = "index" /\ Number(r.key) <= published)
    /\ r.index = "ready" => r.key = FinalKey
    /\ \A i \in DOMAIN r.shards :
          /\ Kind(r.shards[i].key) \in {"final", "partial"} /\ Number(r.shards[i].key) = i - 1
          /\ r.index = "ready" => Kind(r.shards[i].key) = "final"
    /\ Len(r.shards) <= r.count

\* The units of a reference, each once and in order.
Covers(r) ==
    LET n == Len(r.shards)
    IN IF n = 0 THEN r.doc.to = r.count
       ELSE /\ r.shards[1].doc.from = 0 /\ r.shards[n].doc.to = r.count
            /\ \A i \in 1..(n - 1) : r.shards[i].doc.to = r.shards[i + 1].doc.from

RefExact(r) == Covers(r) /\ (r.index = "partial" => Len(r.shards) # 0)

RefSound(r, published, failures) == RefShape(r, published) /\ (failures = 0 => RefExact(r))

RefsSound ==
    /\ ref # NoRef => RefSound(ref, publishes, indexFailures)
    /\ \A w \in Workers : at[w] \in Storing => job[w].new # NoRef /\ RefSound(job[w].new, publishes, indexFailures)

\* An execution ends the Run or crashes: so many may begin.
ExecsBounded ==
    /\ execs <= crashes + lapses + 1
    /\ status \in Live /\ (\A w \in Workers : at[w] = "idle") => execs <= crashes + lapses

TodoSound ==
    \A w \in Workers : at[w] \in Storing =>
        /\ at[w] = "put" => job[w].todo # << >>
        /\ job[w].then \in {"work", "stored"}
        /\ job[w].then = "work" <=> job[w].new.index = "partial"

ResultInv == TypeOK /\ ExecsBounded /\ TodoSound /\ RefsSound

-----------------------------------------------------------------------------
(* One worker at a time.  What a worker has read, put and tracked is still    *)
(* so when it saves; an object it deletes is not one of the reference.       *)

\* A worker at p with job j gives the Run up.
Fails(p, j) == p \in {"discard", "fail"} \/ (p \in {"drop", "mark"} /\ j.then \in {"discard", "fail"})

Solo ==
    /\ \A w, v \in Workers : at[w] # "idle" /\ at[v] # "idle" => w = v
    /\ status = "completed" => \A w \in Workers : at[w] = "idle"

\* A Run that is executed, or may be again, has a reference that can be read.
Calm ==
    /\ ~halfFailed
    /\ \A w \in Workers : ~Fails(at[w], job[w])
    /\ status \in Live \/ \E w \in Workers : at[w] # "idle"

ObjectsOf(r) == {[key |-> r.key, doc |-> r.doc]} \cup Range(r.shards)

PutSound(j) ==
    /\ j.then = "stored" \/ ~halfFailed =>
          \A o \in ObjectsOf(j.new) : o \in Range(j.todo) \/ objs[o.key] = o.doc
    /\ j.then = "work" /\ ref # NoRef =>
          /\ \A o \in Range(j.todo) : o.key \notin RefKeys(ref)
          /\ \A k \in Range(j.written) : k \notin RefKeys(ref)
          /\ j.new.key # ref.key
    /\ j.then = "stored" =>
          /\ j.new.key = FinalKey
          /\ \/ ref # NoRef /\ ref.key = FinalKey
             \/ \E o \in Range(j.todo) : o.key = FinalKey
             \/ FinalKey \in Range(j.untracked)
             \/ kept[FinalKey] = "live"

FinalReadable == ref # NoRef /\ ref.key = FinalKey /\ Readable(ref)

WorkerFits(p, j) ==
    /\ p \in Storing => j.prev = ref /\ PutSound(j)
    /\ p = "put" => j.untracked = j.written
    /\ p \in {"track", "save"} => j.todo = << >>
    /\ p = "save" => j.untracked = << >>
    /\ p \in {"drop", "mark"} /\ j.then \in {"work", "stored"} =>
          /\ ref # NoRef => j.drop \cap RefKeys(ref) = {}
          /\ j.then = "stored" =>
                /\ FinalReadable
                /\ j.marks = {} \/ (kept[FinalKey] = "live" /\ FinalKey \notin j.marks)
    /\ p = "stored" => FinalReadable

SoloInv ==
    /\ Solo
    /\ \A w \in Workers : WorkerFits(at[w], job[w])
    /\ status = "completed" => FinalReadable
    /\ Calm => Backed

StoredInv == ResultInv /\ (MaxLapses = 0 => SoloInv)

-----------------------------------------------------------------------------
\* Division and its remainder.
LEMMA Quotient ==
    ASSUME NEW n \in Nat, NEW s \in Nat \ {0}
    PROVE  /\ n \div s \in Nat
           /\ s * (n \div s) <= n /\ n < s * (n \div s) + s
<1>1. n \div s \in Int
  OBVIOUS
<1>2. n = s * (n \div s) + (n % s) /\ n % s \in 0..(s - 1)
  OBVIOUS
<1>3. n \div s >= 0
  OBVIOUS
<1>. QED BY <1>1, <1>2, <1>3

LEMMA Multiples ==
    ASSUME NEW s \in Nat \ {0}, NEW i \in Int, NEW k \in Int, i <= k
    PROVE  i * s <= k * s
OBVIOUS

Count(from, to) == (to - from + ShardUnits - 1) \div ShardUnits

\* The units from..to need so many shards: none is empty and the last one reaches the end.
LEMMA ChunkCount ==
    ASSUME NEW from \in Nat, NEW to \in Nat, from <= to
    PROVE  /\ Count(from, to) \in Nat /\ Count(from, to) <= to - from
           /\ from < to => Count(from, to) >= 1
           /\ from + Count(from, to) * ShardUnits >= to
           /\ \A i \in 1..Count(from, to) : from + (i - 1) * ShardUnits < to
<1>. PICK s, n, q : s = ShardUnits /\ n = to - from /\ q = Count(from, to)
  OBVIOUS
<1>1. s \in Nat \ {0} /\ n \in Nat
  BY ResultAssumption
<1>2. q \in Nat /\ s * q <= n + s - 1 /\ n + s - 1 < s * q + s
  BY <1>1, Quotient DEF Count
<1>3. q * s >= n /\ q * s <= n + s - 1
  BY <1>1, <1>2
<1>4. q <= n
  <2>1. SUFFICES ASSUME q > n PROVE FALSE
    BY <1>1, <1>2
  <2>2. (n + 1) * s <= q * s
    BY <1>1, <1>2, <2>1, Multiples
  <2>3. (n + 1) * s = n * s + s /\ n * 1 <= n * s
    BY <1>1
  <2>. QED BY <1>1, <1>2, <1>3, <2>2, <2>3
<1>5. n > 0 => q >= 1
  BY <1>1, <1>2, <1>3
<1>6. ASSUME NEW i \in 1..q PROVE (i - 1) * s < n
  <2>1. (i - 1) * s <= (q - 1) * s
    BY <1>1, <1>2, Multiples
  <2>2. (q - 1) * s = q * s - s
    BY <1>1, <1>2
  <2>. QED BY <1>1, <1>2, <1>3, <2>1, <2>2
<1>. QED BY <1>1, <1>2, <1>3, <1>4, <1>5, <1>6

\* The shards of the units from..to: well formed, numbered, and each unit in one of them.
Sharded(f, kind, first, from, to) ==
    /\ f \in Seq(Objects) /\ Len(f) \in Nat /\ Len(f) <= to - from
    /\ from < to => Len(f) >= 1
    /\ \A i \in 1..Len(f) :
          /\ f[i].key = <<kind, first + i - 1>>
          /\ i = 1 => f[i].doc.from = from
          /\ i = Len(f) => f[i].doc.to = to
          /\ i < Len(f) => f[i].doc.to = f[i + 1].doc.from

\* NewShards gives every shard its key and every unit its shard.
LEMMA ShardFacts ==
    ASSUME NEW kind \in {"final", "partial"}, NEW first \in Nat, NEW by \in Executions,
           NEW from \in 0..MaxUnits, NEW to \in 0..MaxUnits, from <= to, first <= from,
           NEW f, f = NewShards(kind, first, by, from, to)
    PROVE  Sharded(f, kind, first, from, to)
<1>. PICK q : q = Count(from, to)
  OBVIOUS
<1>0. MaxUnits \in Nat /\ ShardUnits \in Nat \ {0} /\ from \in Nat /\ to \in Nat
  BY ResultAssumption
<1>1. /\ q \in Nat /\ q <= to - from /\ (from < to => q >= 1)
      /\ from + q * ShardUnits >= to
      /\ \A i \in 1..q : from + (i - 1) * ShardUnits < to
  BY <1>0, ChunkCount
<1>2. PICK low, high :
         /\ low = [i \in 1..q |-> from + (i - 1) * ShardUnits]
         /\ high = [i \in 1..q |-> IF from + i * ShardUnits < to THEN from + i * ShardUnits ELSE to]
  OBVIOUS
<1>3. ASSUME NEW i \in 1..q
      PROVE  /\ low[i] = from + (i - 1) * ShardUnits /\ low[i] \in 0..MaxUnits
             /\ high[i] = IF from + i * ShardUnits < to THEN from + i * ShardUnits ELSE to
             /\ high[i] \in 0..MaxUnits
             /\ i = 1 => low[i] = from
             /\ i = q => high[i] = to
             /\ i < q => high[i] = from + i * ShardUnits
  <2>1. (i - 1) * ShardUnits \in Nat /\ i * ShardUnits \in Nat
    BY <1>0, <1>1
  <2>2. /\ low[i] = from + (i - 1) * ShardUnits
        /\ high[i] = IF from + i * ShardUnits < to THEN from + i * ShardUnits ELSE to
    BY <1>2
  <2>3. low[i] < to
    BY <1>1, <2>2
  <2>4. i < q => from + i * ShardUnits < to
    <3>1. i < q => from + ((i + 1) - 1) * ShardUnits < to
      BY <1>1
    <3>. QED BY <3>1, <1>1
  <2>5. i = 1 => low[i] = from
    BY <1>0, <2>2
  <2>6. low[i] \in 0..MaxUnits /\ high[i] \in 0..MaxUnits
    BY <1>0, <2>1, <2>2, <2>3
  <2>. QED BY <1>0, <1>1, <2>1, <2>2, <2>4, <2>5, <2>6
<1>5. f = [i \in 1..q |-> [key |-> <<kind, first + i - 1>>, doc |-> [by |-> by, from |-> low[i], to |-> high[i]]]]
  <2>1. Chunks(from, to) = [i \in 1..q |-> [from |-> low[i], to |-> high[i]]]
    BY <1>2 DEF Chunks, Count
  <2>2. DOMAIN Chunks(from, to) = 1..q
    BY <2>1
  <2>3. \A i \in 1..q : Chunks(from, to)[i].from = low[i] /\ Chunks(from, to)[i].to = high[i]
    BY <2>1
  <2>. QED BY <2>2, <2>3 DEF NewShards
<1>6. ASSUME NEW i \in 1..q
      PROVE  /\ f[i] \in Objects /\ f[i].key = <<kind, first + i - 1>>
             /\ f[i].doc.from = low[i] /\ f[i].doc.to = high[i]
  <2>1. f[i] = [key |-> <<kind, first + i - 1>>, doc |-> [by |-> by, from |-> low[i], to |-> high[i]]]
    BY <1>5
  <2>2. first + i - 1 \in 0..MaxUnits
    BY <1>0, <1>1
  <2>3. <<kind, first + i - 1>> \in Keys
    BY <2>2 DEF Keys
  <2>4. [by |-> by, from |-> low[i], to |-> high[i]] \in Docs
    BY <1>3 DEF Docs
  <2>. QED BY <2>1, <2>3, <2>4 DEF Objects
<1>7. f \in Seq(Objects) /\ Len(f) = q /\ DOMAIN f = 1..q
  <2>1. f \in [1..q -> Objects]
    BY <1>5, <1>6
  <2>2. f \in UNION {[1..n -> Objects] : n \in Nat}
    BY <1>1, <2>1
  <2>3. f \in Seq(Objects)
    BY <2>2, SeqDef, Zenon
  <2>. QED BY <1>1, <2>1, <2>3, LenProperties
<1>8. ASSUME NEW i \in 1..q, i < q PROVE f[i].doc.to = f[i + 1].doc.from
  <2>1. i + 1 \in 1..q
    BY <1>1, <1>8
  <2>2. low[i + 1] = from + ((i + 1) - 1) * ShardUnits
    BY <1>3, <2>1
  <2>3. high[i] = from + i * ShardUnits
    BY <1>3, <1>8
  <2>4. (i + 1) - 1 = i
    BY <1>1
  <2>. QED BY <1>6, <2>1, <2>2, <2>3, <2>4
<1>9. ASSUME NEW i \in 1..q
      PROVE  /\ f[i].key = <<kind, first + i - 1>>
             /\ i = 1 => f[i].doc.from = from
             /\ i = q => f[i].doc.to = to
             /\ i < q => f[i].doc.to = f[i + 1].doc.from
  BY <1>3, <1>6, <1>8
<1>. QED BY <1>1, <1>7, <1>9 DEF Sharded

\* A key is known by its kind and its number.
LEMMA KeyFacts ==
    /\ FinalKey \in Keys /\ Kind(FinalKey) = "result"
    /\ \A n \in 1..MaxPublishes : <<"index", n>> \in Keys
    /\ \A k, n : Kind(<<k, n>>) = k /\ Number(<<k, n>>) = n
BY ResultAssumption DEF FinalKey, Keys, Kind, Number

\* What a partial result may take over from the reference it reads.
LEMMA ReusedFacts ==
    ASSUME ResultInv
    PROVE  /\ Reused(ref) \in Seq(Objects) /\ Len(Reused(ref)) \in Nat /\ Published(ref) \in 0..MaxUnits
           /\ Len(Reused(ref)) <= Published(ref)
           /\ \A i \in 1..Len(Reused(ref)) :
                 /\ Kind(Reused(ref)[i].key) \in {"final", "partial"} /\ Number(Reused(ref)[i].key) = i - 1
           /\ indexFailures = 0 =>
                 /\ Len(Reused(ref)) = 0 => Published(ref) = 0
                 /\ Len(Reused(ref)) # 0 => Reused(ref)[1].doc.from = 0
                                            /\ Reused(ref)[Len(Reused(ref))].doc.to = Published(ref)
                 /\ \A i \in 1..(Len(Reused(ref)) - 1) : Reused(ref)[i].doc.to = Reused(ref)[i + 1].doc.from
<1>0. MaxUnits \in Nat
  BY ResultAssumption
<1>1. CASE Extends(ref)
  <2>1. ref \in Refs /\ RefSound(ref, publishes, indexFailures) /\ ref.index = "partial" /\ Reused(ref) = ref.shards /\ Published(ref) = ref.count
    BY <1>1 DEF ResultInv, TypeOK, RefsSound, Extends, Reused, Published
  <2>2. ref.shards \in Seq(Objects) /\ ref.count \in 0..MaxUnits
    BY <2>1 DEF Refs
  <2>3. Len(ref.shards) \in Nat /\ DOMAIN ref.shards = 1..Len(ref.shards)
    BY <2>2, LenProperties
  <2>4. /\ Len(ref.shards) <= ref.count
        /\ \A i \in 1..Len(ref.shards) :
              Kind(ref.shards[i].key) \in {"final", "partial"} /\ Number(ref.shards[i].key) = i - 1
    BY <2>1, <2>3 DEF RefSound, RefShape
  <2>5. indexFailures = 0 =>
            /\ Len(ref.shards) # 0
            /\ ref.shards[1].doc.from = 0 /\ ref.shards[Len(ref.shards)].doc.to = ref.count
            /\ \A i \in 1..(Len(ref.shards) - 1) : ref.shards[i].doc.to = ref.shards[i + 1].doc.from
    BY <2>1 DEF RefSound, RefExact, Covers
  <2>. QED BY <2>1, <2>2, <2>3, <2>4, <2>5
<1>2. CASE ~Extends(ref)
  <2>1. Reused(ref) = << >> /\ Published(ref) = 0
    BY <1>2 DEF Reused, Published
  <2>. QED BY <1>0, <2>1
<1>. QED BY <1>1, <1>2

\* A new reference takes over the shards of the one before and has fresh ones.
Continues(new, fresh, published, failures) ==
    /\ new \in Refs /\ RefSound(new, published, failures) /\ fresh \in Seq(Objects)
    /\ new.key = <<"index", published>> /\ new.index = "partial"
    /\ Range(new.shards) = Range(Reused(ref)) \cup Range(fresh)
    /\ \A i \in DOMAIN fresh : fresh[i].key = <<"partial", Len(Reused(ref)) + i - 1>>

\* publish_partial_result builds on the reference it reads.
LEMMA PartialRef ==
    ASSUME ResultInv, NEW w \in Workers, NEW u \in 1..MaxUnits, publishes < MaxPublishes,
           publishes' = publishes + 1, indexFailures' = indexFailures, u >= Published(ref),
           NEW fresh, fresh = NewShards("partial", Len(Reused(ref)), job[w].bytes, Published(ref), u),
           NEW new, new = [key |-> <<"index", publishes'>>, doc |-> IndexDoc(job[w].by, 0),
                           shards |-> Reused(ref) \o fresh, count |-> u, index |-> "partial"]
    PROVE  Continues(new, fresh, publishes', indexFailures')
<1>0. MaxUnits \in Nat /\ MaxPublishes \in Nat /\ u \in Nat /\ u >= 1
  BY ResultAssumption
<1>1. publishes \in 0..MaxPublishes /\ job[w].bytes \in Executions /\ job[w].by \in Executions
  BY DEF ResultInv, TypeOK, Jobs
<1>2. PICK old, p : old = Reused(ref) /\ p = Published(ref)
  OBVIOUS
<1>3. /\ old \in Seq(Objects) /\ Len(old) \in Nat /\ p \in 0..MaxUnits /\ Len(old) <= p
      /\ \A i \in 1..Len(old) : Kind(old[i].key) \in {"final", "partial"} /\ Number(old[i].key) = i - 1
      /\ indexFailures = 0 =>
            /\ Len(old) = 0 => p = 0
            /\ Len(old) # 0 => old[1].doc.from = 0 /\ old[Len(old)].doc.to = p
            /\ \A i \in 1..(Len(old) - 1) : old[i].doc.to = old[i + 1].doc.from
  BY <1>2, ReusedFacts
<1>4. PICK m : m = Len(fresh)
  OBVIOUS
<1>5. /\ fresh \in Seq(Objects) /\ m \in Nat /\ m <= u - p /\ (p < u => m >= 1)
      /\ \A i \in 1..m :
            /\ fresh[i].key = <<"partial", Len(old) + i - 1>>
            /\ i = 1 => fresh[i].doc.from = p
            /\ i = m => fresh[i].doc.to = u
            /\ i < m => fresh[i].doc.to = fresh[i + 1].doc.from
  <2>1. u \in 0..MaxUnits /\ p <= u
    BY <1>0, <1>2
  <2>2. PICK first \in Nat, by \in Executions : first = Len(old) /\ by = job[w].bytes
    BY <1>1, <1>3
  <2>3. fresh = NewShards("partial", first, by, p, u) /\ first <= p
    BY <1>2, <1>3, <2>2
  <2>4. Sharded(fresh, "partial", first, p, u)
    BY <1>3, <2>1, <2>2, <2>3, ShardFacts
  <2>. QED BY <1>4, <2>2, <2>4 DEF Sharded
<1>6. PICK all : all = old \o fresh
  OBVIOUS
<1>7. /\ all \in Seq(Objects) /\ Len(all) = Len(old) + m /\ Len(all) \in Nat
      /\ DOMAIN all = 1..Len(all) /\ DOMAIN fresh = 1..m
      /\ \A i \in 1..Len(old) : all[i] = old[i]
      /\ \A i \in 1..m : all[Len(old) + i] = fresh[i]
      /\ \A i \in 1..Len(all) : i > Len(old) => all[i] = fresh[i - Len(old)]
  BY SMTT(30), <1>3, <1>4, <1>5, <1>6, ConcatProperties, LenProperties
<1>8. new.shards = all /\ new.count = u /\ new.index = "partial" /\ new.key = <<"index", publishes'>>
  BY <1>2, <1>6
<1>9. new \in Refs
  <2>1. IndexDoc(job[w].by, 0) \in Docs
    BY <1>0, <1>1 DEF IndexDoc, Docs
  <2>2. <<"index", publishes'>> \in Keys
    BY <1>0, <1>1, KeyFacts
  <2>3. u \in 0..MaxUnits
    BY <1>0
  <2>. QED BY <1>2, <1>6, <1>7, <2>1, <2>2, <2>3 DEF Refs
<1>10. RefShape(new, publishes')
  <2>1. Kind(new.key) = "index" /\ Number(new.key) <= publishes'
    BY <1>1, <1>8, KeyFacts
  <2>2. ASSUME NEW i \in 1..Len(all)
        PROVE  Kind(all[i].key) \in {"final", "partial"} /\ Number(all[i].key) = i - 1
    <3>1. CASE i <= Len(old)
      BY SMTT(30), <1>3, <1>7, <3>1
    <3>2. CASE i > Len(old)
      <4>1. i - Len(old) \in 1..m /\ all[i] = fresh[i - Len(old)]
        BY <1>3, <1>5, <1>7, <3>2
      <4>2. all[i].key = <<"partial", Len(old) + (i - Len(old)) - 1>>
        BY <1>5, <4>1
      <4>3. Len(old) + (i - Len(old)) - 1 = i - 1
        BY <1>3
      <4>. QED BY <4>2, <4>3, KeyFacts
    <3>. QED BY <1>3, <3>1, <3>2
  <2>3. Len(all) <= u
    BY <1>0, <1>3, <1>5, <1>7
  <2>. QED BY <1>7, <1>8, <2>1, <2>2, <2>3 DEF RefShape
<1>11. indexFailures = 0 => RefExact(new)
  <2>. SUFFICES ASSUME indexFailures = 0 PROVE RefExact(new)
    OBVIOUS
  <2>1. Len(all) # 0
    BY <1>0, <1>3, <1>5, <1>7
  <2>2. all[1].doc.from = 0
    <3>1. CASE Len(old) = 0
      <4>1. m >= 1 /\ p = 0 /\ all[1] = fresh[1]
        BY <1>0, <1>3, <1>5, <1>7, <3>1
      <4>. QED BY <1>5, <4>1
    <3>2. CASE Len(old) # 0
      <4>1. 1 \in 1..Len(old)
        BY <1>3, <3>2
      <4>. QED BY <1>3, <1>7, <3>2, <4>1
    <3>. QED BY <3>1, <3>2
  <2>3. all[Len(all)].doc.to = u
    <3>1. CASE m = 0
      <4>1. p = u /\ Len(old) # 0 /\ all[Len(all)] = old[Len(old)]
        BY <1>0, <1>2, <1>3, <1>5, <1>7, <2>1, <3>1
      <4>. QED BY <1>3, <4>1
    <3>2. CASE m # 0
      <4>1. m \in 1..m /\ all[Len(all)] = fresh[m]
        BY <1>5, <1>7, <3>2
      <4>. QED BY <1>5, <4>1
    <3>. QED BY <3>1, <3>2
  <2>4. ASSUME NEW i \in 1..(Len(all) - 1) PROVE all[i].doc.to = all[i + 1].doc.from
    <3>1. CASE i < Len(old)
      <4>1. i \in 1..(Len(old) - 1) /\ i \in 1..Len(old) /\ i + 1 \in 1..Len(old)
        BY <1>3, <1>7, <3>1
      <4>. QED BY <1>3, <1>7, <4>1
    <3>2. CASE i = Len(old)
      <4>1. m >= 1 /\ 1 \in 1..m /\ all[i] = old[i] /\ all[i + 1] = fresh[1] /\ Len(old) # 0
        BY <1>3, <1>5, <1>7, <3>2
      <4>. QED BY <1>3, <1>5, <3>2, <4>1
    <3>3. CASE i > Len(old)
      <4>1. PICK k \in 1..m : k = i - Len(old)
        <5>1. PICK n \in Nat : n = Len(old)
          BY <1>3
        <5>2. i \in 1..(n + m - 1) /\ i > n
          <6>1. Len(all) = n + m /\ i \in 1..(Len(all) - 1)
            BY <1>7, <5>1
          <6>2. m \in Nat
            BY <1>5
          <6>3. i > n
            BY <3>3, <5>1
          <6>. QED BY <6>1, <6>2, <6>3
        <5>3. i - n \in 1..m
          BY <1>5, <5>2
        <5>. QED BY <5>1, <5>3
      <4>0. i \in Int /\ i <= Len(old) + m - 1 /\ Len(old) \in Nat /\ m \in Nat
        BY <1>3, <1>5, <1>7
      <4>2. k < m /\ k + 1 \in 1..m /\ i = Len(old) + k /\ i + 1 = Len(old) + (k + 1)
        BY <4>0, <4>1
      <4>3. all[i] = fresh[k] /\ all[i + 1] = fresh[k + 1]
        BY <1>7, <4>2
      <4>. QED BY <1>5, <4>2, <4>3
    <3>. QED BY <1>3, <1>7, <3>1, <3>2, <3>3
  <2>. QED BY <1>8, <2>1, <2>2, <2>3, <2>4 DEF RefExact, Covers
<1>12. RefSound(new, publishes', indexFailures')
  BY <1>10, <1>11 DEF RefSound
<1>13. Range(all) = Range(old) \cup Range(fresh)
  <2>1. DOMAIN old = 1..Len(old)
    BY <1>3, LenProperties
  <2>2. ASSUME NEW x \in Range(all) PROVE x \in Range(old) \cup Range(fresh)
    <3>1. PICK i \in 1..Len(all) : x = all[i]
      BY <1>7, <2>2 DEF Range
    <3>2. CASE i <= Len(old)
      <4>1. i \in DOMAIN old /\ x = old[i]
        BY <1>3, <1>7, <2>1, <3>1, <3>2
      <4>. QED BY <4>1 DEF Range
    <3>3. CASE i > Len(old)
      <4>1. i - Len(old) \in DOMAIN fresh /\ x = fresh[i - Len(old)]
        BY SMTT(30), <1>3, <1>5, <1>7, <3>1, <3>3
      <4>. QED BY <4>1 DEF Range
    <3>. QED BY <1>3, <3>2, <3>3
  <2>3. ASSUME NEW x \in Range(old) PROVE x \in Range(all)
    <3>1. PICK i \in 1..Len(old) : x = old[i]
      BY <2>1, <2>3 DEF Range
    <3>2. i \in 1..Len(all) /\ all[i] = x
      BY <1>3, <1>5, <1>7, <3>1
    <3>. QED BY <1>7, <3>2 DEF Range
  <2>4. ASSUME NEW x \in Range(fresh) PROVE x \in Range(all)
    <3>1. PICK i \in 1..m : x = fresh[i]
      BY <1>7, <2>4 DEF Range
    <3>2. Len(old) + i \in 1..Len(all)
      <4>1. PICK n \in Nat : n = Len(old)
        BY <1>3
      <4>2. n + i \in 1..(n + m)
        BY <1>5
      <4>. QED BY <1>7, <4>1, <4>2
    <3>3. all[Len(old) + i] = x
      BY <1>7, <3>1
    <3>. QED BY <1>7, <3>2, <3>3 DEF Range
  <2>. QED BY <2>2, <2>3, <2>4
<1>. QED BY <1>2, <1>5, <1>7, <1>8, <1>9, <1>12, <1>13 DEF Continues

\* Finish: the result anew.
LEMMA FinalRef ==
    ASSUME ResultInv, NEW w \in Workers, NEW u \in 1..MaxUnits,
           NEW fresh, fresh = IF u > ShardUnits THEN NewShards("final", 0, job[w].bytes, 0, u) ELSE << >>,
           NEW new, new = [key |-> FinalKey, doc |-> IndexDoc(job[w].by, IF u > ShardUnits THEN 0 ELSE u),
                           shards |-> fresh, count |-> u, index |-> "ready"]
    PROVE  /\ new \in Refs /\ RefSound(new, publishes, indexFailures) /\ fresh \in Seq(Objects)
           /\ new.key = FinalKey /\ new.index = "ready" /\ new.shards = fresh
<1>0. MaxUnits \in Nat /\ u \in Nat /\ u >= 1 /\ u \in 0..MaxUnits /\ 0 \in 0..MaxUnits
  BY ResultAssumption
<1>1. job[w].bytes \in Executions /\ job[w].by \in Executions
  BY DEF ResultInv, TypeOK, Jobs
<1>2. PICK n \in 0..MaxUnits : n = IF u > ShardUnits THEN 0 ELSE u
  BY <1>0
<1>3. IndexDoc(job[w].by, n) \in Docs /\ IndexDoc(job[w].by, n).to = n
  BY <1>0, <1>1 DEF IndexDoc, Docs
<1>4. /\ new.key = FinalKey /\ new.index = "ready" /\ new.shards = fresh /\ new.count = u
      /\ new.doc = IndexDoc(job[w].by, n)
  BY <1>2
<1>5. CASE u > ShardUnits
  <2>1. PICK by \in Executions : by = job[w].bytes
    BY <1>1
  <2>2. fresh = NewShards("final", 0, by, 0, u)
    BY <1>5, <2>1
  <2>3. Sharded(fresh, "final", 0, 0, u)
    BY <1>0, <2>2, ShardFacts
  <2>4. /\ fresh \in Seq(Objects) /\ Len(fresh) \in Nat /\ DOMAIN fresh = 1..Len(fresh)
        /\ Len(fresh) <= u /\ Len(fresh) >= 1
    BY <1>0, <2>3, LenProperties DEF Sharded
  <2>5. /\ \A i \in 1..Len(fresh) : fresh[i].key = <<"final", 0 + i - 1>>
        /\ fresh[1].doc.from = 0 /\ fresh[Len(fresh)].doc.to = u
        /\ \A i \in 1..(Len(fresh) - 1) : fresh[i].doc.to = fresh[i + 1].doc.from
    BY SMTT(30), <2>3, <2>4 DEF Sharded
  <2>6. \A i \in 1..Len(fresh) : Kind(fresh[i].key) = "final" /\ Number(fresh[i].key) = i - 1
    <3>1. ASSUME NEW i \in 1..Len(fresh) PROVE Kind(fresh[i].key) = "final" /\ Number(fresh[i].key) = i - 1
      <4>1. fresh[i].key = <<"final", 0 + i - 1>> /\ 0 + i - 1 = i - 1
        BY <2>4, <2>5
      <4>. QED BY <4>1, KeyFacts
    <3>. QED BY <3>1
  <2>7. new \in Refs
    BY <1>0, <1>2, <1>3, <2>4, KeyFacts DEF Refs
  <2>8. RefShape(new, publishes)
    BY <1>4, <2>4, <2>6 DEF RefShape
  <2>9. RefExact(new)
    BY <1>4, <2>4, <2>5 DEF RefExact, Covers
  <2>. QED BY <1>4, <2>4, <2>7, <2>8, <2>9 DEF RefSound
<1>6. CASE ~(u > ShardUnits)
  <2>1. fresh = << >> /\ n = u
    BY <1>2, <1>6
  <2>2. fresh \in Seq(Objects) /\ Len(fresh) = 0 /\ DOMAIN fresh = {}
    <3>1. fresh \in Seq(Objects) /\ Len(fresh) = 0
      BY <2>1, EmptySeq
    <3>2. DOMAIN fresh = 1..Len(fresh)
      BY <3>1, LenProperties
    <3>. QED BY <3>1, <3>2
  <2>3. new \in Refs
    BY <1>0, <1>2, <1>3, <2>2, KeyFacts DEF Refs
  <2>4. RefShape(new, publishes)
    BY <1>0, <1>4, <2>2 DEF RefShape
  <2>5. RefExact(new)
    BY <1>3, <1>4, <2>1, <2>2 DEF RefExact, Covers
  <2>. QED BY <1>4, <2>2, <2>3, <2>4, <2>5 DEF RefSound
<1>. QED BY <1>5, <1>6

-----------------------------------------------------------------------------
Places == {"idle", "work", "put", "track", "save", "drop", "mark", "stored", "discard", "fail"}

StoreTyped ==
    /\ status \in {"running", "cancelling", "cancelled", "completed", "failed"}
    /\ objs \in [Keys -> Docs \cup {NoDoc}]
    /\ kept \in [Keys -> {"none", "live", "deleted"}]
    /\ ref \in Refs \cup {NoRef}
    /\ stopping \subseteq Workers
    /\ faulted \in BOOLEAN /\ halfFailed \in BOOLEAN

BoundsTyped ==
    /\ execs \in Executions /\ publishes \in 0..MaxPublishes
    /\ crashes \in 0..MaxCrashes /\ lapses \in 0..MaxLapses
    /\ faults \in 0..MaxFaults /\ indexFailures \in 0..MaxIndexFailures

JobSound(p, j, published, failures) ==
    p \in Storing =>
        /\ p = "put" => j.todo # << >>
        /\ j.then \in {"work", "stored"}
        /\ j.then = "work" <=> j.new.index = "partial"
        /\ j.new # NoRef /\ RefSound(j.new, published, failures)

\* Later publishes and index failures take nothing from a reference.
LEMMA RefStays ==
    ASSUME NEW r, NEW p \in Int, NEW q \in Int, p <= q, NEW f, NEW g, g = 0 => f = 0, RefSound(r, p, f),
           r \in Refs
    PROVE  RefSound(r, q, g)
<1>1. Kind(r.key) = "index" => Number(r.key) \in Int
  BY ResultAssumption DEF Refs, Keys, Kind, Number, FinalKey
<1>. QED BY <1>1 DEF RefSound, RefShape

\* A step of worker w to p with job j.
LEMMA ResultStep ==
    ASSUME ResultInv, NEW w \in Workers, NEW p \in Places, NEW j \in Jobs,
           at' = [at EXCEPT ![w] = p], job' = [job EXCEPT ![w] = j],
           StoreTyped', BoundsTyped', ExecsBounded',
           publishes <= publishes', indexFailures' = 0 => indexFailures = 0,
           ref' # NoRef => RefSound(ref', publishes', indexFailures'),
           JobSound(p, j, publishes', indexFailures')
    PROVE  ResultInv'
<1>1. at \in [Workers -> Places] /\ job \in [Workers -> Jobs] /\ publishes \in Int /\ publishes' \in Int
  BY ResultAssumption DEF ResultInv, TypeOK, Places, BoundsTyped
<1>2. at' \in [Workers -> Places] /\ job' \in [Workers -> Jobs]
  BY <1>1
<1>3. TypeOK'
  BY <1>2 DEF TypeOK, StoreTyped, BoundsTyped, Places
<1>4. ASSUME NEW v \in Workers PROVE JobSound(at'[v], job'[v], publishes', indexFailures')
  <2>1. CASE v = w
    BY <1>1, <2>1
  <2>2. CASE v # w
    <3>1. at'[v] = at[v] /\ job'[v] = job[v]
      BY <1>1, <2>2
    <3>2. PICK o \in Jobs : o = job[v]
      BY <1>1
    <3>3. JobSound(at[v], o, publishes, indexFailures)
      BY <3>2 DEF JobSound, ResultInv, TodoSound, RefsSound
    <3>4. JobSound(at[v], o, publishes', indexFailures')
      <4>1. at[v] \in Storing => o.new \in Refs
        BY <3>2, <3>3 DEF JobSound, Jobs
      <4>. QED BY <1>1, <3>3, <4>1, RefStays DEF JobSound
    <3>. QED BY <3>1, <3>2, <3>4
  <2>. QED BY <2>1, <2>2
<1>5. TodoSound' /\ RefsSound'
  BY <1>4 DEF TodoSound, RefsSound, JobSound
<1>. QED BY <1>3, <1>5 DEF ResultInv

\* One worker at a time.
LEMMA OthersIdle ==
    ASSUME SoloInv, NEW w \in Workers, at[w] # "idle"
    PROVE  \A v \in Workers \ {w} : at[v] = "idle"
BY DEF SoloInv, Solo

\* While worker w is at work, and nobody else.
LEMMA SoloStep ==
    ASSUME ResultInv, NEW w \in Workers, NEW p \in Places, NEW j,
           at' = [at EXCEPT ![w] = p], job' = [job EXCEPT ![w] = j],
           \A v \in Workers \ {w} : at[v] = "idle",
           WorkerFits(p, j)',
           status' = "completed" => p = "idle" /\ FinalReadable',
           ~halfFailed' /\ ~Fails(p, j) /\ (status' \in Live \/ p # "idle") => Backed'
    PROVE  SoloInv'
<1>1. at \in [Workers -> Places] /\ job \in [Workers -> Jobs]
  BY DEF ResultInv, TypeOK, Places
<1>2. at'[w] = p /\ job'[w] = j /\ \A v \in Workers \ {w} : at'[v] = "idle"
  BY <1>1
<1>3. Solo'
  BY <1>2 DEF Solo
<1>4. ASSUME NEW v \in Workers PROVE WorkerFits(at[v], job[v])'
  <2>1. CASE v = w
    BY <1>2, <2>1 DEF WorkerFits, PutSound
  <2>2. CASE v # w
    BY <1>2, <2>2 DEF WorkerFits, Storing
  <2>. QED BY <2>1, <2>2
<1>5. Calm' => Backed'
  BY <1>2 DEF Calm
<1>. QED BY <1>3, <1>4, <1>5 DEF SoloInv

\* A Run whose worker does not give it up can be read.
LEMMA CalmWorker ==
    ASSUME SoloInv, NEW w \in Workers, at[w] # "idle", ~Fails(at[w], job[w]), ~halfFailed
    PROVE  Backed
<1>1. \A v \in Workers \ {w} : at[v] = "idle"
  BY OthersIdle
<1>2. Calm
  BY <1>1 DEF Calm, Fails
<1>. QED BY <1>2 DEF SoloInv

LEMMA Typed ==
    ASSUME ResultInv
    PROVE  StoreTyped /\ BoundsTyped /\ at \in [Workers -> Places] /\ job \in [Workers -> Jobs]
BY DEF ResultInv, TypeOK, StoreTyped, BoundsTyped, Places

LEMMA BoundsInt ==
    /\ MaxUnits \in Nat /\ MaxPublishes \in Nat /\ MaxCrashes \in Nat /\ MaxLapses \in Nat
    /\ MaxFaults \in Nat /\ MaxIndexFailures \in Nat
BY ResultAssumption

\* The Run's status is written and no worker moves.
LEMMA StatusStep ==
    ASSUME StoredInv, UNCHANGED <<objs, kept, ref, at, job, faulted, halfFailed>>,
           UNCHANGED <<execs, publishes, crashes, faults, indexFailures>>,
           lapses' \in 0..MaxLapses, lapses <= lapses', stopping' \subseteq Workers,
           status \in Live, status' \in {"cancelling", "cancelled"}
    PROVE  StoredInv'
<1>1. ResultInv'
  <2>1. TypeOK'
    BY DEF StoredInv, ResultInv, TypeOK
  <2>2. ExecsBounded'
    <3>1. execs \in Int /\ crashes \in Int /\ lapses \in Int /\ lapses' \in Int
      BY BoundsInt DEF StoredInv, ResultInv, TypeOK, Executions
    <3>2. execs <= crashes + lapses + 1 /\ ((\A v \in Workers : at[v] = "idle") => execs <= crashes + lapses)
      BY DEF StoredInv, ResultInv, ExecsBounded
    <3>0. execs' = execs /\ crashes' = crashes /\ at' = at
      OBVIOUS
    <3>5. PICK e, c, l, m : e = execs /\ c = crashes /\ l = lapses /\ m = lapses'
      OBVIOUS
    <3>6. e \in Int /\ c \in Int /\ l \in Int /\ m \in Int
      BY <3>1, <3>5
    <3>7. l <= m
      BY <3>5
    <3>8. e <= c + l + 1
      BY <3>2, <3>5
    <3>9. (\A v \in Workers : at'[v] = "idle") => e <= c + l
      BY <3>0, <3>2, <3>5
    <3>10. e <= c + m + 1 /\ (e <= c + l => e <= c + m)
      BY <3>6, <3>7, <3>8
    <3>. QED BY <3>0, <3>5, <3>9, <3>10 DEF ExecsBounded
  <2>3. TodoSound' /\ RefsSound'
    BY DEF StoredInv, ResultInv, TodoSound, RefsSound
  <2>. QED BY <2>1, <2>2, <2>3 DEF ResultInv
<1>2. ASSUME SoloInv PROVE SoloInv'
  <2>1. Solo'
    BY <1>2 DEF SoloInv, Solo
  <2>2. \A v \in Workers : WorkerFits(at[v], job[v])'
    BY <1>2 DEF SoloInv, WorkerFits, PutSound, FinalReadable, Readable
  <2>3. Calm' => Backed'
    BY <1>2 DEF SoloInv, Calm, Fails, Backed, Readable
  <2>. QED BY <2>1, <2>2, <2>3 DEF SoloInv
<1>. QED BY <1>1, <1>2 DEF StoredInv

LEMMA IdleJob == Idle \in Jobs
<1>1. 0 \in Executions
  BY BoundsInt DEF Executions
<1>2. << >> \in Seq(Objects) /\ << >> \in Seq(Keys)
  BY EmptySeq
<1>. QED BY <1>1, <1>2 DEF Idle, Jobs

\* A worker leaves the Run: it is over, or the worker has crashed.
LEMMA LeaveStep ==
    ASSUME StoredInv, NEW w \in Workers, at[w] # "idle", Leave(w),
           UNCHANGED <<objs, kept, ref, faulted, execs, publishes, lapses, faults, indexFailures>>,
           status' \in {"running", "cancelling", "cancelled", "completed", "failed"},
           crashes' \in 0..MaxCrashes, crashes <= crashes', status' \in Live => crashes' = crashes + 1,
           halfFailed' \in BOOLEAN,
           MaxLapses = 0 /\ SoloInv =>
               /\ status' = "completed" => FinalReadable
               /\ ~halfFailed' /\ status' \in Live => Backed
    PROVE  StoredInv'
<1>0. StoreTyped /\ BoundsTyped /\ at \in [Workers -> Places] /\ job \in [Workers -> Jobs] /\ ResultInv
  BY Typed DEF StoredInv
<1>1. at' = [at EXCEPT ![w] = "idle"] /\ job' = [job EXCEPT ![w] = Idle] /\ stopping' \subseteq Workers
  BY <1>0 DEF Leave, Goto, StoreTyped
<1>2. StoreTyped' /\ BoundsTyped'
  BY <1>0, <1>1 DEF StoreTyped, BoundsTyped
<1>3. ExecsBounded'
  <2>1. execs \in Int /\ crashes \in Int /\ lapses \in Int /\ crashes' \in Int
    BY <1>0, BoundsInt DEF BoundsTyped, Executions
  <2>2. execs <= crashes + lapses + 1
    BY <1>0 DEF ResultInv, ExecsBounded
  <2>. QED BY <2>1, <2>2 DEF ExecsBounded
<1>4. "idle" \in Places /\ JobSound("idle", Idle, publishes', indexFailures')
  BY DEF Places, JobSound, Storing
<1>5. publishes <= publishes'
  BY <1>0, BoundsInt DEF BoundsTyped
<1>6. ref' # NoRef => RefSound(ref', publishes', indexFailures')
  BY <1>0 DEF ResultInv, RefsSound
<1>7. ResultInv'
  BY <1>0, <1>1, <1>2, <1>3, <1>4, <1>5, <1>6, IdleJob, ResultStep
<1>8. ASSUME MaxLapses = 0, SoloInv PROVE SoloInv'
  <2>1. \A v \in Workers \ {w} : at[v] = "idle"
    BY <1>8, OthersIdle
  <2>2. WorkerFits("idle", Idle)'
    BY DEF WorkerFits, Storing
  <2>3. status' = "completed" => FinalReadable'
    BY <1>8 DEF FinalReadable, Readable
  <2>4. ~halfFailed' /\ status' \in Live => Backed'
    BY <1>8 DEF Backed, Readable
  <2>. QED BY <1>0, <1>1, <1>4, <2>1, <2>2, <2>3, <2>4, SoloStep
<1>. QED BY <1>7, <1>8 DEF StoredInv

\* A worker goes on with the Run.
LEMMA MoveStep ==
    ASSUME StoredInv, NEW w \in Workers, at[w] # "idle", NEW p \in Places \ {"idle"}, NEW j \in Jobs,
           at' = [at EXCEPT ![w] = p], job' = [job EXCEPT ![w] = j],
           UNCHANGED <<status, stopping, halfFailed, execs, crashes, lapses>>,
           objs' \in [Keys -> Docs \cup {NoDoc}], kept' \in [Keys -> {"none", "live", "deleted"}],
           ref' \in Refs \cup {NoRef}, faulted' \in BOOLEAN,
           publishes' \in 0..MaxPublishes, faults' \in 0..MaxFaults, indexFailures' \in 0..MaxIndexFailures,
           publishes <= publishes', indexFailures' = 0 => indexFailures = 0,
           ref' # NoRef => RefSound(ref', publishes', indexFailures'),
           JobSound(p, j, publishes', indexFailures'),
           MaxLapses = 0 /\ SoloInv => WorkerFits(p, j)' /\ (~halfFailed /\ ~Fails(p, j) => Backed')
    PROVE  StoredInv'
<1>0. StoreTyped /\ BoundsTyped /\ at \in [Workers -> Places] /\ job \in [Workers -> Jobs] /\ ResultInv
  BY Typed DEF StoredInv
<1>1. StoreTyped' /\ BoundsTyped' /\ p \in Places
  BY <1>0 DEF StoreTyped, BoundsTyped
<1>2. ExecsBounded'
  <2>1. at'[w] # "idle"
    BY <1>0
  <2>. QED BY <1>0, <2>1 DEF ExecsBounded, ResultInv
<1>3. ResultInv'
  BY <1>0, <1>1, <1>2, ResultStep
<1>4. ASSUME MaxLapses = 0, SoloInv PROVE SoloInv'
  <2>1. \A v \in Workers \ {w} : at[v] = "idle"
    BY <1>4, OthersIdle
  <2>2. status' # "completed"
    BY <1>4 DEF SoloInv, Solo
  <2>3. WorkerFits(p, j)' /\ (~halfFailed' /\ ~Fails(p, j) => Backed')
    BY <1>4
  <2>. QED BY <1>0, <1>1, <2>1, <2>2, <2>3, SoloStep
<1>. QED BY <1>3, <1>4 DEF StoredInv

-----------------------------------------------------------------------------
LEMMA CancelKeeps == ASSUME StoredInv, Cancel PROVE StoredInv'
<1>1. stopping' \subseteq Workers /\ lapses' \in 0..MaxLapses /\ lapses <= lapses'
  BY Typed, BoundsInt DEF StoredInv, Cancel, worker, bounds, StoreTyped, BoundsTyped
<1>2. status \in Live /\ status' \in {"cancelling", "cancelled"}
  BY DEF Cancel, Live
<1>3. /\ UNCHANGED <<objs, kept, ref, at, job, faulted, halfFailed>>
      /\ UNCHANGED <<execs, publishes, crashes, faults, indexFailures>>
  BY DEF Cancel, store, worker, history, bounds
<1>. QED BY <1>1, <1>2, <1>3, StatusStep

LEMMA CheckpointKeeps == ASSUME StoredInv, NEW w \in Workers, Checkpoint(w) PROVE StoredInv'
<1>1. stopping' \subseteq Workers /\ lapses' \in 0..MaxLapses /\ lapses <= lapses'
  BY Typed, BoundsInt DEF StoredInv, Checkpoint, bounds, StoreTyped, BoundsTyped
<1>2. status \in Live /\ status' \in {"cancelling", "cancelled"}
  BY DEF Checkpoint, Live
<1>3. /\ UNCHANGED <<objs, kept, ref, at, job, faulted, halfFailed>>
      /\ UNCHANGED <<execs, publishes, crashes, faults, indexFailures>>
  BY DEF Checkpoint, store, history, bounds
<1>. QED BY <1>1, <1>2, <1>3, StatusStep

\* A lease that lapses is the only way to a second worker.
LEMMA StartKeeps == ASSUME StoredInv, NEW w \in Workers, Start(w) PROVE StoredInv'
<1>0. StoreTyped /\ BoundsTyped /\ at \in [Workers -> Places] /\ job \in [Workers -> Jobs] /\ ResultInv
  BY Typed DEF StoredInv
<1>1. /\ execs \in Int /\ crashes \in 0..MaxCrashes /\ lapses \in 0..MaxLapses /\ publishes \in Int
      /\ execs \in Executions
  BY <1>0, BoundsInt DEF BoundsTyped, Executions
<1>2. /\ lapses' \in 0..MaxLapses /\ lapses <= lapses'
      /\ (\A u \in Workers : at[u] = "idle") \/ (lapses' = lapses + 1 /\ MaxLapses # 0)
  <2>1. CASE \A u \in Workers : at[u] = "idle"
    BY <1>1, <2>1, BoundsInt DEF Start
  <2>2. CASE ~\A u \in Workers : at[u] = "idle"
    <3>1. lapses < MaxLapses /\ lapses' = lapses + 1
      BY <2>2 DEF Start
    <3>. QED BY <1>1, <3>1, BoundsInt
  <2>. QED BY <2>1, <2>2
<1>3. /\ UNCHANGED <<objs, kept, ref, stopping, faulted, halfFailed>>
      /\ UNCHANGED <<publishes, crashes, faults, indexFailures>>
  BY DEF Start, store, history
<1>4. CASE status = "cancelling"
  <2>1. UNCHANGED <<at, job, execs>> /\ status' = "cancelled"
    BY <1>4 DEF Start
  <2>2. stopping' \subseteq Workers
    BY <1>0, <1>3 DEF StoreTyped
  <2>. QED BY <1>2, <1>3, <1>4, <2>1, <2>2, StatusStep DEF Live
<1>5. CASE status = "running"
  <2>1. at' = [at EXCEPT ![w] = "work"] /\ execs' = execs + 1 /\ status' = status
    BY <1>5 DEF Start, Goto
  <2>2. PICK e, c, l, m : e = execs /\ c = crashes /\ l = lapses /\ m = lapses'
    OBVIOUS
  <2>3. e \in Int /\ c \in 0..MaxCrashes /\ l \in 0..MaxLapses /\ m \in 0..MaxLapses /\ l <= m
    BY <1>1, <1>2, <2>2
  <2>4. e <= c + m
    <3>1. e <= c + l + 1 /\ ((\A u \in Workers : at[u] = "idle") => e <= c + l)
      BY <1>0, <1>5, <2>2 DEF ResultInv, ExecsBounded, Live
    <3>2. (\A u \in Workers : at[u] = "idle") \/ m = l + 1
      BY <1>2, <2>2
    <3>3. e <= c + l \/ (e <= c + l + 1 /\ m = l + 1)
      BY <3>1, <3>2
    <3>. QED BY <2>3, <3>3, BoundsInt
  <2>5. e >= 0 /\ e + 1 \in Executions /\ e + 1 <= c + m + 1
    <3>1. e \in Executions
      BY <1>1, <2>2
    <3>. QED BY <2>3, <2>4, <3>1, BoundsInt DEF Executions
  <2>6. at'[w] = "work"
    BY <1>0, <2>1
  <2>7. ExecsBounded'
    BY <1>3, <2>1, <2>2, <2>5, <2>6 DEF ExecsBounded
  <2>8. PICK b \in 1..(e + 1) : job' = [job EXCEPT ![w].by = execs + 1, ![w].bytes = b]
    BY <1>5, <2>1, <2>2 DEF Start
  <2>9. b \in Executions
    BY <2>5, <2>3, BoundsInt DEF Executions
  <2>10. PICK o \in Jobs : o = job[w]
    BY <1>0
  <2>11. PICK j \in Jobs : j = [o EXCEPT !.by = execs + 1, !.bytes = b]
    BY <2>2, <2>5, <2>9 DEF Jobs
  <2>12. job' = [job EXCEPT ![w] = j]
    BY <1>0, <2>8, <2>10, <2>11
  <2>13. "work" \in Places /\ JobSound("work", j, publishes', indexFailures')
    BY DEF Places, JobSound, Storing
  <2>14. StoreTyped' /\ BoundsTyped'
    BY <1>0, <1>2, <1>3, <2>1, <2>2, <2>5 DEF StoreTyped, BoundsTyped
  <2>15. publishes <= publishes'
    BY <1>1, <1>3
  <2>16. ref' # NoRef => RefSound(ref', publishes', indexFailures')
    BY <1>0, <1>3 DEF ResultInv, RefsSound
  <2>17. ResultInv'
    BY <1>0, <1>3, <2>1, <2>7, <2>12, <2>13, <2>14, <2>15, <2>16, ResultStep
  <2>18. ASSUME MaxLapses = 0, SoloInv PROVE SoloInv'
    <3>1. \A v \in Workers : at[v] = "idle"
      BY <1>2, <2>18
    <3>2. ~halfFailed => Backed
      BY <1>5, <2>18, <3>1 DEF SoloInv, Calm, Fails, Live
    <3>3. ~halfFailed' => Backed'
      BY <1>3, <3>2 DEF Backed, Readable
    <3>4. WorkerFits("work", j)'
      BY DEF WorkerFits, Storing
    <3>. QED BY <1>0, <1>5, <2>1, <2>12, <2>13, <3>1, <3>3, <3>4, SoloStep
  <2>. QED BY <2>17, <2>18 DEF StoredInv
<1>. QED BY <1>4, <1>5 DEF Start

LEMMA StopKeeps == ASSUME StoredInv, NEW w \in Workers, Stop(w) PROVE StoredInv'
<1>1. at[w] # "idle" /\ Leave(w) /\ status' = "cancelled"
  BY DEF Stop, InOperator
<1>2. /\ UNCHANGED <<objs, kept, ref, faulted, execs, publishes, lapses, faults, indexFailures>>
      /\ crashes' = crashes /\ halfFailed' = halfFailed
  BY DEF Stop, store, history, bounds
<1>3. crashes' \in 0..MaxCrashes /\ crashes <= crashes' /\ halfFailed' \in BOOLEAN
  BY <1>2, Typed, BoundsInt DEF StoredInv, StoreTyped, BoundsTyped
<1>. QED BY <1>1, <1>2, <1>3, LeaveStep DEF Live

LEMMA CompleteKeeps == ASSUME StoredInv, NEW w \in Workers, Complete(w) PROVE StoredInv'
<1>1. at[w] # "idle" /\ Leave(w) /\ status' = "completed"
  BY DEF Complete
<1>2. /\ UNCHANGED <<objs, kept, ref, faulted, execs, publishes, lapses, faults, indexFailures>>
      /\ crashes' = crashes /\ halfFailed' = halfFailed
  BY DEF Complete, store, history, bounds
<1>3. crashes' \in 0..MaxCrashes /\ crashes <= crashes' /\ halfFailed' \in BOOLEAN
  BY <1>2, Typed, BoundsInt DEF StoredInv, StoreTyped, BoundsTyped
<1>4. SoloInv => FinalReadable
  BY DEF Complete, SoloInv, WorkerFits
<1>. QED BY <1>1, <1>2, <1>3, <1>4, LeaveStep DEF Live

LEMMA FailKeeps == ASSUME StoredInv, NEW w \in Workers, Fail(w) PROVE StoredInv'
<1>1. /\ at[w] # "idle" /\ Leave(w)
      /\ status' = IF status \in {"running", "cancelling"} THEN "failed" ELSE status
  BY DEF Fail
<1>2. /\ UNCHANGED <<objs, kept, ref, faulted, execs, publishes, lapses, faults, indexFailures>>
      /\ crashes' = crashes /\ halfFailed' = halfFailed
  BY DEF Fail, store, history, bounds
<1>3. crashes' \in 0..MaxCrashes /\ crashes <= crashes' /\ halfFailed' \in BOOLEAN
  BY <1>2, Typed, BoundsInt DEF StoredInv, StoreTyped, BoundsTyped
<1>4. status \in {"running", "cancelling", "cancelled", "completed", "failed"}
  BY Typed DEF StoredInv, StoreTyped
<1>5. status' \in {"running", "cancelling", "cancelled", "completed", "failed"} /\ status' \notin Live
  BY <1>1, <1>4 DEF Live
<1>6. SoloInv => status' # "completed"
  BY <1>1 DEF SoloInv, Solo
<1>. QED BY <1>1, <1>2, <1>3, <1>5, <1>6, LeaveStep

LEMMA CrashKeeps == ASSUME StoredInv, NEW w \in Workers, Crash(w) PROVE StoredInv'
<1>1. at[w] # "idle" /\ Leave(w) /\ status' = status
  BY DEF Crash
<1>2. UNCHANGED <<objs, kept, ref, faulted, execs, publishes, lapses, faults, indexFailures>>
  BY DEF Crash, store
<1>3. crashes' \in 0..MaxCrashes /\ crashes <= crashes' /\ crashes' = crashes + 1
  BY Typed, BoundsInt DEF StoredInv, Crash, BoundsTyped
<1>4. PICK h \in BOOLEAN : h = (halfFailed \/ at[w] \in {"discard", "fail"} \/ job[w].then \in {"discard", "fail"})
  BY Typed, Zenon DEF StoredInv, StoreTyped
<1>5. halfFailed' = h
  BY <1>4, Zenon DEF Crash
<1>6. status' \in {"running", "cancelling", "cancelled", "completed", "failed"}
  BY <1>1, Typed DEF StoredInv, StoreTyped
<1>7. SoloInv => status' # "completed"
  BY <1>1 DEF SoloInv, Solo
<1>8. ~h => ~halfFailed /\ ~Fails(at[w], job[w])
  BY <1>4, Zenon DEF Fails
<1>9. SoloInv /\ ~halfFailed' => Backed
  BY <1>1, <1>5, <1>8, CalmWorker
<1>. QED BY <1>1, <1>2, <1>3, <1>5, <1>6, <1>7, <1>9, LeaveStep

-----------------------------------------------------------------------------
LEMMA Ranged ==
    ASSUME NEW S, NEW s \in Seq(S)
    PROVE  Range(s) \subseteq S /\ DOMAIN s = 1..Len(s) /\ Len(s) \in Nat
<1>1. DOMAIN s = 1..Len(s) /\ Len(s) \in Nat /\ \A i \in 1..Len(s) : s[i] \in S
  BY LenProperties, ElementOfSeq
<1>. QED BY <1>1 DEF Range

\* What a worker that stores a result knows.
LEMMA StoringFacts ==
    ASSUME StoredInv, NEW w \in Workers, at[w] \in Storing
    PROVE  /\ job[w] \in Jobs /\ job[w].new \in Refs /\ job[w].then \in {"work", "stored"}
           /\ job[w].then = "work" <=> job[w].new.index = "partial"
           /\ RefSound(job[w].new, publishes, indexFailures)
           /\ MaxLapses = 0 /\ SoloInv => job[w].prev = ref /\ PutSound(job[w])
           /\ SoloInv /\ ~halfFailed => Backed
<1>1. job \in [Workers -> Jobs] /\ ResultInv
  BY Typed DEF StoredInv
<1>2. job[w] \in Jobs /\ job[w].new \in Refs
  BY <1>1 DEF ResultInv, RefsSound, Jobs
<1>3. ~Fails(at[w], job[w]) /\ at[w] # "idle"
  BY DEF Fails, Storing
<1>4. SoloInv /\ ~halfFailed => Backed
  BY <1>3, CalmWorker
<1>. QED BY <1>1, <1>2, <1>4 DEF ResultInv, TodoSound, RefsSound, SoloInv, WorkerFits

\* What was written is deleted again: none of it is of the reference.
LEMMA RaiseStep ==
    ASSUME StoredInv, NEW w \in Workers, at[w] \in Storing, Raise(w),
           UNCHANGED <<status, stopping, halfFailed, execs, crashes, lapses>>,
           UNCHANGED <<objs, kept, ref, publishes, indexFailures>>,
           faulted' \in BOOLEAN, faults' \in 0..MaxFaults
    PROVE  StoredInv'
<1>0. StoreTyped /\ BoundsTyped /\ at \in [Workers -> Places] /\ job \in [Workers -> Jobs] /\ ResultInv
  BY Typed DEF StoredInv
<1>1. PICK o \in Jobs : o = job[w]
  BY <1>0
<1>2. PICK W : W = Range(o.written)
  OBVIOUS
<1>3. W \subseteq Keys
  <2>1. o.written \in Seq(Keys)
    BY DEF Jobs
  <2>. QED BY <1>2, <2>1, Ranged
<1>4. PICK t \in {"work", "discard"} : t = IF o.then = "work" THEN "work" ELSE "discard"
  OBVIOUS
<1>5. PICK j \in Jobs : j = [o EXCEPT !.drop = W, !.marks = W, !.then = t]
  BY <1>3, <1>4 DEF Jobs
<1>6. j.drop = W /\ j.marks = W /\ j.then = t
  BY <1>5 DEF Jobs
<1>7. at' = [at EXCEPT ![w] = "drop"] /\ job' = [job EXCEPT ![w] = j]
  BY <1>0, <1>1, <1>2, <1>4, <1>5 DEF Raise, Goto
<1>8. JobSound("drop", j, publishes', indexFailures') /\ "drop" \in Places \ {"idle"} /\ at[w] # "idle"
  BY DEF JobSound, Storing, Places
<1>9. /\ objs' \in [Keys -> Docs \cup {NoDoc}] /\ kept' \in [Keys -> {"none", "live", "deleted"}]
      /\ ref' \in Refs \cup {NoRef}
      /\ publishes' \in 0..MaxPublishes /\ indexFailures' \in 0..MaxIndexFailures
      /\ publishes <= publishes' /\ (indexFailures' = 0 => indexFailures = 0)
      /\ ref' # NoRef => RefSound(ref', publishes', indexFailures')
  BY <1>0, BoundsInt DEF StoreTyped, BoundsTyped, ResultInv, RefsSound
<1>10. ASSUME MaxLapses = 0, SoloInv
       PROVE  WorkerFits("drop", j)' /\ (~halfFailed /\ ~Fails("drop", j) => Backed')
  <2>1. PutSound(o)
    BY <1>1, <1>10, StoringFacts
  <2>2. o.then = "work" /\ ref # NoRef => W \cap RefKeys(ref) = {}
    BY <1>2, <2>1 DEF PutSound
  <2>3. j.then # "stored" /\ (j.then = "work" => o.then = "work")
    BY <1>4, <1>6
  <2>4. WorkerFits("drop", j)'
    BY <1>6, <2>2, <2>3 DEF WorkerFits, Storing, RefKeys
  <2>5. ~halfFailed => Backed'
    BY <1>10, StoringFacts DEF Backed, Readable
  <2>. QED BY <2>4, <2>5
<1>. QED BY <1>7, <1>8, <1>9, <1>10, MoveStep

LEMMA DiscardKeeps == ASSUME StoredInv, NEW w \in Workers, Discard(w) PROVE StoredInv'
<1>0. StoreTyped /\ BoundsTyped /\ at \in [Workers -> Places] /\ job \in [Workers -> Jobs] /\ ResultInv
  BY Typed DEF StoredInv
<1>1. PICK o \in Jobs : o = job[w]
  BY <1>0
<1>2. /\ UNCHANGED <<status, stopping, halfFailed, execs, crashes, lapses>>
      /\ UNCHANGED <<objs, kept, ref, faulted, publishes, faults, indexFailures>>
      /\ at[w] = "discard"
  BY DEF Discard, store, history, bounds
<1>3. PICK p \in {"drop", "fail"}, j \in Jobs :
         /\ at' = [at EXCEPT ![w] = p] /\ job' = [job EXCEPT ![w] = j] /\ (p = "drop" => j.then = "fail")
  <2>1. CASE ref # NoRef /\ ref.key[1] = "index"
    <3>1. PICK K : K = RefKeys(ref)
      OBVIOUS
    <3>2. K \subseteq Keys
      <4>1. ref \in Refs
        BY <1>0, <2>1 DEF StoreTyped
      <4>2. ref.shards \in Seq(Objects) /\ ref.key \in Keys
        BY <4>1 DEF Refs
      <4>3. DOMAIN ref.shards = 1..Len(ref.shards) /\ \A i \in 1..Len(ref.shards) : ref.shards[i] \in Objects
        BY <4>2, LenProperties, ElementOfSeq
      <4>. QED BY <3>1, <4>2, <4>3 DEF RefKeys, Objects
    <3>3. PICK j \in Jobs : j = [o EXCEPT !.drop = K, !.marks = K, !.then = "fail"]
      BY <3>2 DEF Jobs
    <3>4. j.then = "fail"
      BY <3>3 DEF Jobs
    <3>5. at' = [at EXCEPT ![w] = "drop"] /\ job' = [job EXCEPT ![w] = j]
      BY <1>0, <1>1, <2>1, <3>1, <3>3 DEF Discard, Goto
    <3>. QED BY <3>4, <3>5
  <2>2. CASE ~(ref # NoRef /\ ref.key[1] = "index")
    <3>1. at' = [at EXCEPT ![w] = "fail"] /\ job' = job
      BY <2>2 DEF Discard, Goto
    <3>2. job' = [job EXCEPT ![w] = o]
      BY <1>0, <1>1, <3>1
    <3>. QED BY <3>1, <3>2
  <2>. QED BY <2>1, <2>2
<1>4. JobSound(p, j, publishes', indexFailures') /\ p \in Places \ {"idle"} /\ at[w] # "idle"
  BY <1>2 DEF JobSound, Storing, Places
<1>5. /\ objs' \in [Keys -> Docs \cup {NoDoc}] /\ kept' \in [Keys -> {"none", "live", "deleted"}]
      /\ ref' \in Refs \cup {NoRef} /\ faulted' \in BOOLEAN
      /\ publishes' \in 0..MaxPublishes /\ faults' \in 0..MaxFaults /\ indexFailures' \in 0..MaxIndexFailures
      /\ publishes <= publishes' /\ (indexFailures' = 0 => indexFailures = 0)
      /\ ref' # NoRef => RefSound(ref', publishes', indexFailures')
  BY <1>0, <1>2, BoundsInt DEF StoreTyped, BoundsTyped, ResultInv, RefsSound
<1>6. WorkerFits(p, j)' /\ Fails(p, j)
  BY <1>3 DEF WorkerFits, Fails, Storing
<1>. QED BY <1>2, <1>3, <1>4, <1>5, <1>6, MoveStep

LEMMA FaultKeeps == ASSUME StoredInv, NEW w \in Workers, Fault(w) PROVE StoredInv'
<1>0. StoreTyped /\ BoundsTyped /\ at \in [Workers -> Places] /\ job \in [Workers -> Jobs] /\ ResultInv
  BY Typed DEF StoredInv
<1>1. /\ UNCHANGED <<status, stopping, halfFailed, execs, crashes, lapses>>
      /\ UNCHANGED <<objs, kept, ref, publishes, indexFailures>>
  BY DEF Fault, store
<1>2. faulted' \in BOOLEAN /\ faults' \in 0..MaxFaults
  BY <1>0, BoundsInt DEF Fault, BoundsTyped
<1>3. CASE at[w] \in {"put", "track", "save"} /\ Raise(w)
  BY <1>1, <1>2, <1>3, RaiseStep DEF Storing
<1>4. CASE at[w] \in {"work", "stored"} /\ Goto(w, "discard") /\ UNCHANGED job
  <2>1. PICK j \in Jobs : j = job[w]
    BY <1>0
  <2>2. at' = [at EXCEPT ![w] = "discard"] /\ job' = [job EXCEPT ![w] = j]
    BY <1>0, <1>4, <2>1 DEF Goto
  <2>3. JobSound("discard", j, publishes', indexFailures') /\ "discard" \in Places \ {"idle"} /\ at[w] # "idle"
    BY <1>4 DEF JobSound, Storing, Places
  <2>4. /\ objs' \in [Keys -> Docs \cup {NoDoc}] /\ kept' \in [Keys -> {"none", "live", "deleted"}]
        /\ ref' \in Refs \cup {NoRef}
        /\ publishes' \in 0..MaxPublishes /\ indexFailures' \in 0..MaxIndexFailures
        /\ publishes <= publishes' /\ (indexFailures' = 0 => indexFailures = 0)
        /\ ref' # NoRef => RefSound(ref', publishes', indexFailures')
    BY <1>0, <1>1, BoundsInt DEF StoreTyped, BoundsTyped, ResultInv, RefsSound
  <2>5. WorkerFits("discard", j)' /\ Fails("discard", j)
    BY DEF WorkerFits, Fails, Storing
  <2>. QED BY <1>1, <1>2, <2>2, <2>3, <2>4, <2>5, MoveStep
<1>. QED BY <1>3, <1>4 DEF Fault

-----------------------------------------------------------------------------
LEMMA AppendRange ==
    ASSUME NEW S, NEW s \in Seq(S), NEW x \in S
    PROVE  Append(s, x) \in Seq(S) /\ Append(s, x) # << >> /\ Range(Append(s, x)) = Range(s) \cup {x}
<1>1. /\ Append(s, x) \in Seq(S) /\ Len(Append(s, x)) = Len(s) + 1
      /\ \A i \in 1..Len(s) : Append(s, x)[i] = s[i]
      /\ Append(s, x)[Len(s) + 1] = x
  BY AppendProperties
<1>2. DOMAIN s = 1..Len(s) /\ DOMAIN Append(s, x) = 1..(Len(s) + 1) /\ Len(s) \in Nat
  BY <1>1, LenProperties
<1>3. \A i \in 1..(Len(s) + 1) : i \in 1..Len(s) \/ i = Len(s) + 1
  BY <1>2
<1>4. Len(s) + 1 \in 1..(Len(s) + 1) /\ 1..Len(s) \subseteq 1..(Len(s) + 1)
  BY <1>2
<1>5. Range(Append(s, x)) \subseteq Range(s) \cup {x}
  BY <1>1, <1>2, <1>3 DEF Range
<1>6. Range(s) \cup {x} \subseteq Range(Append(s, x))
  BY <1>1, <1>2, <1>4 DEF Range
<1>7. Append(s, x) # << >>
  BY <1>1, <1>2, EmptySeq
<1>. QED BY <1>1, <1>5, <1>6, <1>7

\* The storing of a result begins.
LEMMA BeginStep ==
    ASSUME StoredInv, NEW w \in Workers, at[w] = "work", NEW new \in Refs, NEW fresh \in Seq(Objects),
           NEW then \in {"work", "stored"}, then = "work" <=> new.index = "partial",
           RefSound(new, publishes', indexFailures'), Begin(w, new, fresh, then),
           UNCHANGED <<status, stopping, halfFailed, execs, crashes, lapses>>,
           UNCHANGED <<objs, kept, ref, faulted, faults, indexFailures>>,
           publishes' \in 0..MaxPublishes, publishes <= publishes',
           Backed \/ then = "stored" =>
               \A o \in Range(new.shards) : o \in Range(fresh) \/ objs[o.key] = o.doc,
           then = "work" /\ ref # NoRef =>
               new.key \notin RefKeys(ref) /\ \A o \in Range(fresh) : o.key \notin RefKeys(ref),
           then = "stored" => new.key = FinalKey
    PROVE  StoredInv'
<1>0. StoreTyped /\ BoundsTyped /\ at \in [Workers -> Places] /\ job \in [Workers -> Jobs] /\ ResultInv
  BY Typed DEF StoredInv
<1>1. PICK index \in Objects : index = [key |-> new.key, doc |-> new.doc]
  BY DEF Objects, Refs
<1>2. index.key = new.key /\ index.doc = new.doc
  BY <1>1
<1>3. PICK todo \in Seq(Objects) :
         todo = Append(fresh, index) /\ todo # << >> /\ Range(todo) = Range(fresh) \cup {index}
  <2>1. /\ Append(fresh, index) \in Seq(Objects) /\ Append(fresh, index) # << >>
        /\ Range(Append(fresh, index)) = Range(fresh) \cup {index}
    BY AppendRange
  <2>. QED BY <2>1
<1>4. PICK by \in Executions, bytes \in Executions : by = job[w].by /\ bytes = job[w].bytes
  BY <1>0 DEF Jobs
<1>5. PICK prev \in Refs \cup {NoRef} : prev = ref
  BY <1>0 DEF StoreTyped
<1>6. PICK j \in Jobs :
         j = [Idle EXCEPT !.by = by, !.bytes = bytes, !.prev = prev, !.new = new, !.then = then, !.todo = todo]
  BY IdleJob DEF Jobs
<1>7. /\ j.prev = ref /\ j.new = new /\ j.then = then /\ j.todo = todo
      /\ j.written = << >> /\ j.untracked = << >>
  <2>1. /\ j.prev = prev /\ j.new = new /\ j.then = then /\ j.todo = todo
        /\ j.written = Idle.written /\ j.untracked = Idle.untracked
    BY <1>6, IdleJob DEF Jobs
  <2>. QED BY <1>5, <2>1 DEF Idle
<1>8. at' = [at EXCEPT ![w] = "put"] /\ job' = [job EXCEPT ![w] = j]
  BY <1>1, <1>3, <1>4, <1>5, <1>6 DEF Begin, Goto
<1>9. new # NoRef
  BY AbsenceAssumption
<1>10. JobSound("put", j, publishes', indexFailures') /\ "put" \in Places \ {"idle"} /\ at[w] # "idle"
  BY <1>3, <1>7, <1>9 DEF JobSound, Places
<1>11. ref' # NoRef => RefSound(ref', publishes', indexFailures')
  <2>1. publishes \in Int /\ publishes' \in Int
    BY <1>0, BoundsInt DEF BoundsTyped
  <2>2. ref # NoRef => RefSound(ref, publishes, indexFailures) /\ ref \in Refs
    BY <1>0 DEF ResultInv, RefsSound, StoreTyped
  <2>. QED BY <2>1, <2>2, RefStays
<1>12. /\ objs' \in [Keys -> Docs \cup {NoDoc}] /\ kept' \in [Keys -> {"none", "live", "deleted"}]
       /\ ref' \in Refs \cup {NoRef} /\ faulted' \in BOOLEAN
       /\ faults' \in 0..MaxFaults /\ indexFailures' \in 0..MaxIndexFailures
       /\ (indexFailures' = 0 => indexFailures = 0)
  BY <1>0, BoundsInt DEF StoreTyped, BoundsTyped
<1>13. ASSUME MaxLapses = 0, SoloInv
       PROVE  WorkerFits("put", j)' /\ (~halfFailed /\ ~Fails("put", j) => Backed')
  <2>1. ~halfFailed => Backed
    BY <1>13, CalmWorker DEF Fails
  <2>2. then = "stored" \/ ~halfFailed => \A o \in ObjectsOf(new) : o \in Range(todo) \/ objs[o.key] = o.doc
    <3>1. ASSUME then = "stored" \/ ~halfFailed, NEW o \in ObjectsOf(new)
          PROVE  o \in Range(todo) \/ objs[o.key] = o.doc
      <4>1. o = index \/ o \in Range(new.shards)
        BY <1>1, <3>1 DEF ObjectsOf
      <4>. QED BY <1>3, <2>1, <3>1, <4>1
    <3>. QED BY <3>1
  <2>3. then = "work" /\ ref # NoRef =>
            /\ \A o \in Range(todo) : o.key \notin RefKeys(ref)
            /\ new.key # ref.key
    BY <1>2, <1>3 DEF RefKeys
  <2>4. Range(j.written) = {} /\ Range(j.untracked) = {}
    BY <1>7, EmptySeq DEF Range
  <2>5. then = "stored" => \E o \in Range(todo) : o.key = FinalKey
    BY <1>2, <1>3
  <2>6. PutSound(j)'
    BY <1>7, <2>2, <2>3, <2>4, <2>5 DEF PutSound, RefKeys
  <2>7. WorkerFits("put", j)'
    BY <1>7, <2>6 DEF WorkerFits
  <2>. QED BY <2>1, <2>7 DEF Backed, Readable
<1>. QED BY <1>8, <1>10, <1>11, <1>12, <1>13, MoveStep

LEMMA PublishKeeps == ASSUME StoredInv, NEW w \in Workers, NEW u \in 1..MaxUnits, Publish(w, u) PROVE StoredInv'
<1>0. StoreTyped /\ BoundsTyped /\ at \in [Workers -> Places] /\ job \in [Workers -> Jobs] /\ ResultInv
  BY Typed DEF StoredInv
<1>1. PICK fresh : fresh = NewShards("partial", Len(Reused(ref)), job[w].bytes, Published(ref), u)
  OBVIOUS
<1>2. PICK new : new = [key |-> <<"index", publishes'>>, doc |-> IndexDoc(job[w].by, 0),
                        shards |-> Reused(ref) \o fresh, count |-> u, index |-> "partial"]
  OBVIOUS
<1>3. /\ at[w] = "work" /\ publishes < MaxPublishes /\ publishes' = publishes + 1 /\ u >= Published(ref)
      /\ Begin(w, new, fresh, "work")
      /\ UNCHANGED <<status, stopping, halfFailed, execs, crashes, lapses>>
      /\ UNCHANGED <<objs, kept, ref, faulted, faults, indexFailures>>
  BY <1>1, <1>2 DEF Publish, store, history
<1>4. /\ new \in Refs /\ RefSound(new, publishes', indexFailures') /\ fresh \in Seq(Objects)
      /\ new.key = <<"index", publishes'>> /\ new.index = "partial"
      /\ Range(new.shards) = Range(Reused(ref)) \cup Range(fresh)
      /\ \A i \in DOMAIN fresh : fresh[i].key = <<"partial", Len(Reused(ref)) + i - 1>>
  <2>1. indexFailures' = indexFailures
    BY <1>3
  <2>2. Continues(new, fresh, publishes', indexFailures')
    BY <1>0, <1>1, <1>2, <1>3, <2>1, PartialRef
  <2>. QED BY <2>2 DEF Continues
<1>5. publishes \in Int /\ publishes' \in 0..MaxPublishes /\ publishes <= publishes'
  BY <1>0, <1>3, BoundsInt DEF BoundsTyped
<1>6. ASSUME Backed, NEW o \in Range(new.shards) PROVE o \in Range(fresh) \/ objs[o.key] = o.doc
  <2>1. SUFFICES ASSUME o \in Range(Reused(ref)) PROVE objs[o.key] = o.doc
    BY <1>4, <1>6
  <2>2. ref # NoRef /\ Reused(ref) = ref.shards
    <3>1. CASE Extends(ref)
      BY <3>1 DEF Extends, Reused
    <3>2. CASE ~Extends(ref)
      BY <2>1, <3>2, EmptySeq DEF Reused, Range
    <3>. QED BY <3>1, <3>2
  <2>3. PICK i \in DOMAIN ref.shards : o = ref.shards[i]
    BY <2>1, <2>2 DEF Range
  <2>. QED BY <1>6, <2>2, <2>3 DEF Backed, Readable
<1>7. ASSUME ref # NoRef PROVE new.key \notin RefKeys(ref) /\ \A o \in Range(fresh) : o.key \notin RefKeys(ref)
  <2>1. ref \in Refs /\ RefShape(ref, publishes)
    BY <1>0, <1>7 DEF StoreTyped, ResultInv, RefsSound, RefSound
  <2>2. ref.shards \in Seq(Objects) /\ ref.index \in {"ready", "partial"}
    BY <2>1 DEF Refs
  <2>3. DOMAIN ref.shards = 1..Len(ref.shards) /\ Len(ref.shards) \in Nat
    BY <2>2, Ranged
  <2>4. Kind(ref.key) = "result" \/ (Kind(ref.key) = "index" /\ Number(ref.key) <= publishes)
    BY <2>1, KeyFacts DEF RefShape
  <2>5. \A i \in DOMAIN ref.shards :
            /\ Kind(ref.shards[i].key) \in {"final", "partial"} /\ Number(ref.shards[i].key) = i - 1
            /\ ref.index = "ready" => Kind(ref.shards[i].key) = "final"
    BY <2>1 DEF RefShape
  <2>6. Kind(new.key) = "index" /\ Number(new.key) = publishes + 1
    BY <1>3, <1>4, KeyFacts
  <2>7. new.key # ref.key
    <3>1. ~(publishes + 1 <= publishes)
      BY <1>5
    <3>. QED BY <2>4, <2>6, <3>1
  <2>8. new.key \notin RefKeys(ref)
    BY <2>5, <2>6, <2>7 DEF RefKeys
  <2>9. ASSUME NEW o \in Range(fresh) PROVE o.key \notin RefKeys(ref)
    <3>1. PICK i \in DOMAIN fresh : o = fresh[i]
      BY <2>9 DEF Range
    <3>2. i \in Int /\ i >= 1
      BY <1>4, Ranged
    <3>3. Kind(o.key) = "partial" /\ Number(o.key) = Len(Reused(ref)) + i - 1
      <4>1. PICK n : n = Len(Reused(ref)) + i - 1 /\ o.key = <<"partial", n>>
        BY <1>4, <3>1
      <4>. QED BY <4>1, KeyFacts
    <3>4. o.key # ref.key
      BY <2>4, <3>3
    <3>5. ASSUME NEW k \in DOMAIN ref.shards PROVE o.key # ref.shards[k].key
      <4>1. CASE ref.index = "ready"
        BY <2>5, <3>3, <4>1
      <4>2. CASE ref.index = "partial"
        <5>1. Len(Reused(ref)) = Len(ref.shards)
          BY <1>7, <4>2 DEF Reused, Extends
        <5>2. Number(o.key) # k - 1
          BY <2>3, <3>2, <3>3, <5>1
        <5>. QED BY <2>5, <5>2
      <4>. QED BY <2>2, <4>1, <4>2
    <3>. QED BY <3>4, <3>5 DEF RefKeys
  <2>. QED BY <2>8, <2>9
<1>. QED BY <1>3, <1>4, <1>5, <1>6, <1>7, BeginStep

LEMMA FinishKeeps == ASSUME StoredInv, NEW w \in Workers, NEW u \in 1..MaxUnits, Finish(w, u) PROVE StoredInv'
<1>0. StoreTyped /\ BoundsTyped /\ at \in [Workers -> Places] /\ job \in [Workers -> Jobs] /\ ResultInv
  BY Typed DEF StoredInv
<1>1. PICK fresh : fresh = IF u > ShardUnits THEN NewShards("final", 0, job[w].bytes, 0, u) ELSE << >>
  OBVIOUS
<1>2. PICK new : new = [key |-> FinalKey, doc |-> IndexDoc(job[w].by, IF u > ShardUnits THEN 0 ELSE u),
                        shards |-> fresh, count |-> u, index |-> "ready"]
  OBVIOUS
<1>3. /\ at[w] = "work" /\ Begin(w, new, fresh, "stored") /\ publishes' = publishes
      /\ UNCHANGED <<status, stopping, halfFailed, execs, crashes, lapses>>
      /\ UNCHANGED <<objs, kept, ref, faulted, faults, indexFailures>>
  BY <1>1, <1>2 DEF Finish, store, history, bounds
<1>4. /\ new \in Refs /\ RefSound(new, publishes, indexFailures) /\ fresh \in Seq(Objects)
      /\ new.key = FinalKey /\ new.index = "ready" /\ new.shards = fresh
  BY <1>0, <1>1, <1>2, FinalRef
<1>5. publishes' \in 0..MaxPublishes /\ publishes <= publishes' /\ RefSound(new, publishes', indexFailures')
  BY <1>0, <1>3, <1>4, BoundsInt DEF BoundsTyped
<1>. QED BY <1>3, <1>4, <1>5, BeginStep

LEMMA TailRange ==
    ASSUME NEW S, NEW s \in Seq(S), s # << >>
    PROVE  /\ Head(s) \in S /\ Tail(s) \in Seq(S) /\ Range(s) = {Head(s)} \cup Range(Tail(s))
           /\ Len(s) = 1 <=> Tail(s) = << >>
<1>1. /\ Head(s) \in S /\ Tail(s) \in Seq(S) /\ Head(s) = s[1]
      /\ Len(Tail(s)) = Len(s) - 1 /\ \A i \in 1..Len(Tail(s)) : Tail(s)[i] = s[i + 1]
  BY HeadTailProperties
<1>2. /\ DOMAIN s = 1..Len(s) /\ Len(s) \in Nat /\ Len(s) # 0
      /\ DOMAIN Tail(s) = 1..(Len(s) - 1)
  BY <1>1, LenProperties, EmptySeq
<1>3. \A i \in 1..Len(s) : i = 1 \/ (i - 1 \in 1..(Len(s) - 1) /\ (i - 1) + 1 = i)
  BY <1>2
<1>4. 1 \in 1..Len(s) /\ \A i \in 1..(Len(s) - 1) : i + 1 \in 1..Len(s)
  BY <1>2
<1>5. Range(s) \subseteq {Head(s)} \cup Range(Tail(s))
  <2>1. ASSUME NEW i \in 1..Len(s) PROVE s[i] \in {Head(s)} \cup Range(Tail(s))
    <3>1. CASE i = 1
      BY <1>1, <3>1
    <3>2. CASE i - 1 \in 1..(Len(s) - 1) /\ (i - 1) + 1 = i
      <4>1. Tail(s)[i - 1] = s[i]
        BY <1>1, <3>2
      <4>. QED BY <1>2, <3>2, <4>1 DEF Range
    <3>. QED BY <1>3, <3>1, <3>2
  <2>. QED BY <1>2, <2>1 DEF Range
<1>6. {Head(s)} \cup Range(Tail(s)) \subseteq Range(s)
  BY <1>1, <1>2, <1>4 DEF Range
<1>7. Len(s) = 1 <=> Tail(s) = << >>
  <2>1. Tail(s) = << >> <=> Len(Tail(s)) = 0
    BY <1>1, EmptySeq
  <2>2. PICK n \in Nat : n = Len(s)
    BY <1>2
  <2>3. Len(Tail(s)) = n - 1
    BY <1>1, <2>2
  <2>4. n - 1 = 0 <=> n = 1
    OBVIOUS
  <2>. QED BY <2>1, <2>2, <2>3, <2>4
<1>. QED BY <1>1, <1>5, <1>6, <1>7

\* An object that is put is there afterwards, and none is changed.
LEMMA PutKeeps == ASSUME StoredInv, NEW w \in Workers, Put(w) PROVE StoredInv'
<1>0. StoreTyped /\ BoundsTyped /\ at \in [Workers -> Places] /\ job \in [Workers -> Jobs] /\ ResultInv
  BY Typed DEF StoredInv
<1>1. /\ UNCHANGED <<status, stopping, halfFailed, execs, crashes, lapses>>
      /\ UNCHANGED <<kept, ref, faulted, publishes, faults, indexFailures>>
      /\ at[w] = "put" /\ at[w] \in Storing
  BY DEF Put, history, bounds, Storing
<1>2. PICK b \in Jobs : b = job[w]
  BY <1>0
<1>3. b.todo \in Seq(Objects) /\ b.todo # << >> /\ b.written \in Seq(Keys)
  BY <1>0, <1>1, <1>2 DEF Jobs, ResultInv, TodoSound
<1>4. PICK o \in Objects, rest \in Seq(Objects) :
         /\ o = Head(b.todo) /\ rest = Tail(b.todo) /\ Range(b.todo) = {o} \cup Range(rest)
         /\ Len(b.todo) = 1 <=> rest = << >>
  <2>1. /\ Head(b.todo) \in Objects /\ Tail(b.todo) \in Seq(Objects)
        /\ Range(b.todo) = {Head(b.todo)} \cup Range(Tail(b.todo))
        /\ Len(b.todo) = 1 <=> Tail(b.todo) = << >>
    BY <1>3, TailRange
  <2>. QED BY <2>1
<1>5. o.key \in Keys /\ o.doc \in Docs
  BY DEF Objects
<1>6. CASE Taken(o) /\ Raise(w) /\ UNCHANGED objs
  <2>1. faulted' \in BOOLEAN /\ faults' \in 0..MaxFaults
    BY <1>0, <1>1 DEF StoreTyped, BoundsTyped
  <2>. QED BY <1>1, <1>6, <2>1, RaiseStep
<1>7. CASE ~(Taken(o) /\ Raise(w) /\ UNCHANGED objs)
  <2>1. PICK known \in BOOLEAN : known = (b.prev # NoRef /\ b.prev.key = o.key)
    BY Zenon
  <2>2. PICK written : written = IF known THEN b.written ELSE Append(b.written, o.key)
    OBVIOUS
  <2>3. written \in Seq(Keys) /\ Range(written) \subseteq Range(b.written) \cup {o.key}
        /\ Range(b.written) \subseteq Range(written) /\ (~known => o.key \in Range(written))
    <3>1. CASE known
      BY <1>3, <2>2, <3>1
    <3>2. CASE ~known
      <4>1. Append(b.written, o.key) \in Seq(Keys) /\ Range(Append(b.written, o.key)) = Range(b.written) \cup {o.key}
        BY <1>3, <1>5, AppendRange
      <4>. QED BY <2>2, <3>2, <4>1
    <3>. QED BY <3>1, <3>2
  <2>4. /\ ~Taken(o)
        /\ objs' = [objs EXCEPT ![o.key] = IF @ = NoDoc THEN o.doc ELSE @]
        /\ job' = [job EXCEPT ![w].todo = Tail(@), ![w].written = written, ![w].untracked = written]
        /\ Goto(w, IF Len(job[w].todo) = 1 THEN "track" ELSE "put")
    BY <1>2, <1>4, <1>7, <2>1, <2>2 DEF Put
  <2>5. PICK j \in Jobs : j = [b EXCEPT !.todo = rest, !.written = written, !.untracked = written]
    BY <2>3 DEF Jobs
  <2>6. /\ j.todo = rest /\ j.written = written /\ j.untracked = written
        /\ j.new = b.new /\ j.prev = b.prev /\ j.then = b.then
    BY <2>5 DEF Jobs
  <2>7. PICK p \in {"put", "track"} : p = IF Len(b.todo) = 1 THEN "track" ELSE "put"
    OBVIOUS
  <2>8. at' = [at EXCEPT ![w] = p] /\ job' = [job EXCEPT ![w] = j]
    BY <1>0, <1>2, <1>4, <2>4, <2>5, <2>7 DEF Goto
  <2>9. p = "put" => rest # << >>
    BY <1>4, <2>7
  <2>17. p = "track" => rest = << >>
    BY <1>4, <2>7
  <2>10. JobSound(p, j, publishes', indexFailures') /\ p \in Places \ {"idle"} /\ at[w] # "idle"
    <3>1. b.then \in {"work", "stored"} /\ (b.then = "work" <=> b.new.index = "partial")
          /\ b.new # NoRef /\ RefSound(b.new, publishes, indexFailures)
      BY <1>0, <1>1, <1>2 DEF ResultInv, TodoSound, RefsSound
    <3>. QED BY <1>1, <2>6, <2>9, <3>1 DEF JobSound, Places
  <2>11. objs[o.key] \in {NoDoc, o.doc}
    BY <2>4 DEF Taken
  <2>12. PICK after \in [Keys -> Docs \cup {NoDoc}] :
            /\ after = objs' /\ after[o.key] = o.doc
            /\ \A k \in Keys : objs[k] # NoDoc => after[k] = objs[k]
    <3>1. objs \in [Keys -> Docs \cup {NoDoc}]
      BY <1>0 DEF StoreTyped
    <3>2. objs' = [objs EXCEPT ![o.key] = o.doc]
      BY <1>5, <2>4, <2>11, <3>1
    <3>. QED BY <1>5, <2>11, <3>1, <3>2
  <2>13. \A x \in Objects : objs[x.key] = x.doc => after[x.key] = x.doc
    BY <2>12, AbsenceAssumption DEF Objects
  <2>14. ASSUME NEW r \in Refs, Readable(r) PROVE Readable(r)'
    <3>1. [key |-> r.key, doc |-> r.doc] \in Objects /\ r.shards \in Seq(Objects)
      BY DEF Refs, Objects
    <3>2. \A i \in DOMAIN r.shards : r.shards[i] \in Objects
      BY <3>1, LenProperties, ElementOfSeq
    <3>3. after[r.key] = r.doc
      BY <2>13, <2>14, <3>1 DEF Readable
    <3>. QED BY <2>12, <2>13, <2>14, <3>2, <3>3 DEF Readable
  <2>15. /\ objs' \in [Keys -> Docs \cup {NoDoc}] /\ kept' \in [Keys -> {"none", "live", "deleted"}]
         /\ ref' \in Refs \cup {NoRef} /\ faulted' \in BOOLEAN
         /\ publishes' \in 0..MaxPublishes /\ faults' \in 0..MaxFaults /\ indexFailures' \in 0..MaxIndexFailures
         /\ publishes <= publishes' /\ (indexFailures' = 0 => indexFailures = 0)
         /\ ref' # NoRef => RefSound(ref', publishes', indexFailures')
    BY <1>0, <1>1, <2>12, BoundsInt DEF StoreTyped, BoundsTyped, ResultInv, RefsSound
  <2>16. ASSUME MaxLapses = 0, SoloInv
         PROVE  WorkerFits(p, j)' /\ (~halfFailed /\ ~Fails(p, j) => Backed')
    <3>1. b.prev = ref /\ PutSound(b) /\ b.untracked = b.written /\ (~halfFailed => Backed)
      <4>1. b.untracked = b.written
        BY <1>1, <1>2, <2>16 DEF SoloInv, WorkerFits
      <4>. QED BY <1>1, <1>2, <2>16, <4>1, StoringFacts
    <3>2. ~halfFailed => Backed'
      BY <1>0, <1>1, <2>14, <3>1 DEF Backed, StoreTyped
    <3>3. ASSUME j.then = "stored" \/ ~halfFailed', NEW x \in ObjectsOf(j.new)
          PROVE  x \in Range(j.todo) \/ after[x.key] = x.doc
      <4>1. x \in Range(b.todo) \/ objs[x.key] = x.doc
        BY <1>1, <2>6, <3>1, <3>3 DEF PutSound
      <4>2. x \in Objects
        <5>1. b.new \in Refs
          BY <1>1, <1>2, StoringFacts
        <5>2. Range(b.new.shards) \subseteq Objects /\ [key |-> b.new.key, doc |-> b.new.doc] \in Objects
          BY <5>1, Ranged DEF Refs, Objects
        <5>. QED BY <2>6, <3>3, <5>2 DEF ObjectsOf
      <4>. QED BY <1>4, <2>6, <2>12, <2>13, <4>1, <4>2
    <3>4. j.then = "work" /\ ref' # NoRef =>
              /\ \A x \in Range(j.todo) : x.key \notin RefKeys(ref')
              /\ \A k \in Range(j.written) : k \notin RefKeys(ref')
              /\ j.new.key # ref'.key
      <4>1. ASSUME b.then = "work", ref # NoRef
            PROVE  /\ \A x \in Range(b.todo) : x.key \notin RefKeys(ref)
                   /\ \A k \in Range(b.written) : k \notin RefKeys(ref)
                   /\ b.new.key # ref.key
        BY <3>1, <4>1 DEF PutSound
      <4>2. o \in Range(b.todo) /\ Range(rest) \subseteq Range(b.todo)
        BY <1>4
      <4>3. ref' = ref
        BY <1>1
      <4>. QED BY <2>3, <2>6, <4>1, <4>2, <4>3
    <3>5. j.then = "stored" =>
              /\ j.new.key = FinalKey
              /\ \/ ref # NoRef /\ ref.key = FinalKey
                 \/ \E x \in Range(j.todo) : x.key = FinalKey
                 \/ FinalKey \in Range(j.untracked)
                 \/ kept[FinalKey] = "live"
      <4>. SUFFICES ASSUME b.then = "stored"
                    PROVE  /\ b.new.key = FinalKey
                           /\ \/ ref # NoRef /\ ref.key = FinalKey
                              \/ \E x \in Range(rest) : x.key = FinalKey
                              \/ FinalKey \in Range(written)
                              \/ kept[FinalKey] = "live"
        BY <2>6
      <4>1. /\ b.new.key = FinalKey
            /\ \/ ref # NoRef /\ ref.key = FinalKey
               \/ \E x \in Range(b.todo) : x.key = FinalKey
               \/ FinalKey \in Range(b.written)
               \/ kept[FinalKey] = "live"
        BY <3>1 DEF PutSound
      <4>2. o.key = FinalKey => FinalKey \in Range(written) \/ (ref # NoRef /\ ref.key = FinalKey)
        BY <2>1, <2>3, <3>1
      <4>. QED BY <1>4, <2>3, <4>1, <4>2
    <3>6. PutSound(j)'
      <4>1. objs' = after /\ ref' = ref /\ kept' = kept
        BY <1>1, <2>12
      <4>. QED BY <3>3, <3>4, <3>5, <4>1 DEF PutSound
    <3>7. WorkerFits(p, j)'
      BY <1>1, <2>6, <2>17, <3>1, <3>6 DEF WorkerFits, Storing
    <3>. QED BY <3>2, <3>7
  <2>. QED BY <1>1, <2>8, <2>10, <2>15, <2>16, MoveStep
<1>. QED BY <1>6, <1>7

LEMMA TrackKeeps == ASSUME StoredInv, NEW w \in Workers, Track(w) PROVE StoredInv'
<1>0. StoreTyped /\ BoundsTyped /\ at \in [Workers -> Places] /\ job \in [Workers -> Jobs] /\ ResultInv
  BY Typed DEF StoredInv
<1>1. /\ UNCHANGED <<status, stopping, halfFailed, execs, crashes, lapses>>
      /\ UNCHANGED <<objs, ref, faulted, publishes, faults, indexFailures>>
      /\ at[w] = "track" /\ at[w] \in Storing
  BY DEF Track, history, bounds, Storing
<1>2. PICK b \in Jobs : b = job[w]
  BY <1>0
<1>3. b.untracked \in Seq(Keys)
  BY DEF Jobs
<1>4. CASE Raise(w) /\ UNCHANGED kept
  <2>1. faulted' \in BOOLEAN /\ faults' \in 0..MaxFaults
    BY <1>0, <1>1 DEF StoreTyped, BoundsTyped
  <2>. QED BY <1>1, <1>4, <2>1, RaiseStep
<1>5. CASE ~(Raise(w) /\ UNCHANGED kept)
  <2>1. PICK p \in {"track", "save"}, j \in Jobs, tracked \in [Keys -> {"none", "live", "deleted"}] :
           /\ at' = [at EXCEPT ![w] = p] /\ job' = [job EXCEPT ![w] = j] /\ kept' = tracked
           /\ j.todo = b.todo /\ j.written = b.written /\ j.new = b.new /\ j.prev = b.prev /\ j.then = b.then
           /\ p = "save" => j.untracked = << >>
           /\ FinalKey \in Range(b.untracked) => FinalKey \in Range(j.untracked) \/ tracked[FinalKey] = "live"
           /\ kept[FinalKey] = "live" => tracked[FinalKey] = "live"
    <3>0. kept \in [Keys -> {"none", "live", "deleted"}]
      BY <1>0 DEF StoreTyped
    <3>1. CASE b.untracked = << >>
      <4>1. Goto(w, "save") /\ UNCHANGED <<kept, job>>
        BY <1>2, <1>5, <3>1 DEF Track
      <4>2. at' = [at EXCEPT ![w] = "save"] /\ job' = [job EXCEPT ![w] = b] /\ kept' = kept
        BY <1>0, <1>2, <4>1 DEF Goto
      <4>. QED BY <3>0, <3>1, <4>2
    <3>2. CASE b.untracked # << >>
      <4>1. /\ kept' = [kept EXCEPT ![Head(b.untracked)] = "live"]
            /\ job' = [job EXCEPT ![w].untracked = Tail(@)] /\ UNCHANGED at
        BY <1>2, <1>5, <3>2 DEF Track
      <4>2. /\ Head(b.untracked) \in Keys /\ Tail(b.untracked) \in Seq(Keys)
            /\ Range(b.untracked) = {Head(b.untracked)} \cup Range(Tail(b.untracked))
        BY <1>3, <3>2, TailRange
      <4>3. PICK k \in Keys, rest \in Seq(Keys) : k = Head(b.untracked) /\ rest = Tail(b.untracked)
        BY <4>2
      <4>4. PICK j \in Jobs : j = [b EXCEPT !.untracked = rest]
        BY DEF Jobs
      <4>5. /\ j.untracked = rest /\ j.todo = b.todo /\ j.written = b.written /\ j.new = b.new
            /\ j.prev = b.prev /\ j.then = b.then
        BY <4>4 DEF Jobs
      <4>6. at' = [at EXCEPT ![w] = "track"] /\ job' = [job EXCEPT ![w] = j]
        BY <1>0, <1>1, <1>2, <4>1, <4>3, <4>4
      <4>7. PICK tracked \in [Keys -> {"none", "live", "deleted"}] : tracked = [kept EXCEPT ![k] = "live"]
        BY <3>0
      <4>8. kept' = tracked /\ tracked[k] = "live" /\ \A x \in Keys : kept[x] = "live" => tracked[x] = "live"
        BY <3>0, <4>1, <4>3, <4>7
      <4>9. FinalKey \in Range(b.untracked) => FinalKey \in Range(j.untracked) \/ tracked[FinalKey] = "live"
        BY <4>2, <4>3, <4>5, <4>8
      <4>10. kept[FinalKey] = "live" => tracked[FinalKey] = "live"
        BY <4>8, KeyFacts
      <4>. QED BY <4>5, <4>6, <4>8, <4>9, <4>10
    <3>. QED BY <3>1, <3>2
  <2>2. JobSound(p, j, publishes', indexFailures') /\ p \in Places \ {"idle"} /\ at[w] # "idle"
    <3>1. b.then \in {"work", "stored"} /\ (b.then = "work" <=> b.new.index = "partial")
          /\ b.new # NoRef /\ RefSound(b.new, publishes, indexFailures)
      BY <1>0, <1>1, <1>2 DEF ResultInv, TodoSound, RefsSound
    <3>. QED BY <1>1, <2>1, <3>1 DEF JobSound, Places
  <2>3. /\ objs' \in [Keys -> Docs \cup {NoDoc}] /\ kept' \in [Keys -> {"none", "live", "deleted"}]
        /\ ref' \in Refs \cup {NoRef} /\ faulted' \in BOOLEAN
        /\ publishes' \in 0..MaxPublishes /\ faults' \in 0..MaxFaults /\ indexFailures' \in 0..MaxIndexFailures
        /\ publishes <= publishes' /\ (indexFailures' = 0 => indexFailures = 0)
        /\ ref' # NoRef => RefSound(ref', publishes', indexFailures')
    BY <1>0, <1>1, <2>1, BoundsInt DEF StoreTyped, BoundsTyped, ResultInv, RefsSound
  <2>4. ASSUME MaxLapses = 0, SoloInv
        PROVE  WorkerFits(p, j)' /\ (~halfFailed /\ ~Fails(p, j) => Backed')
    <3>1. b.prev = ref /\ PutSound(b) /\ b.todo = << >> /\ (~halfFailed => Backed)
      <4>1. b.todo = << >>
        BY <1>1, <1>2, <2>4 DEF SoloInv, WorkerFits
      <4>. QED BY <1>1, <1>2, <2>4, <4>1, StoringFacts
    <3>2. ~halfFailed => Backed'
      BY <1>1, <3>1 DEF Backed, Readable
    <3>3. PutSound(j)'
      <4>1. objs' = objs /\ ref' = ref /\ kept' = tracked /\ halfFailed' = halfFailed
        BY <1>1, <2>1
      <4>2. b.then = "stored" =>
              /\ b.new.key = FinalKey
              /\ \/ ref # NoRef /\ ref.key = FinalKey
                 \/ \E x \in Range(b.todo) : x.key = FinalKey
                 \/ FinalKey \in Range(j.untracked)
                 \/ tracked[FinalKey] = "live"
        BY <2>1, <3>1 DEF PutSound
      <4>3. /\ b.then = "stored" \/ ~halfFailed =>
                  \A o \in ObjectsOf(b.new) : o \in Range(b.todo) \/ objs[o.key] = o.doc
            /\ b.then = "work" /\ ref # NoRef =>
                  /\ \A o \in Range(b.todo) : o.key \notin RefKeys(ref)
                  /\ \A k \in Range(b.written) : k \notin RefKeys(ref)
                  /\ b.new.key # ref.key
        BY <3>1 DEF PutSound
      <4>. QED BY <2>1, <4>1, <4>2, <4>3 DEF PutSound
    <3>4. WorkerFits(p, j)'
      BY <1>1, <2>1, <3>1, <3>3 DEF WorkerFits, Storing
    <3>. QED BY <3>2, <3>4
  <2>. QED BY <1>1, <2>1, <2>2, <2>3, <2>4, MoveStep
<1>. QED BY <1>4, <1>5

\* The objects to delete are not among those of the new reference.
LEMMA ObsoleteKeys ==
    ASSUME NEW prev \in Refs \cup {NoRef}, NEW new \in Refs, NEW m, NEW n, RefShape(new, n),
           prev # NoRef => RefShape(prev, m)
    PROVE  Obsolete(prev, new) \subseteq Keys /\ Obsolete(prev, new) \cap RefKeys(new) = {}
<1>1. CASE prev = NoRef \/ prev.key = new.key
  BY <1>1 DEF Obsolete
<1>2. CASE ~(prev = NoRef \/ prev.key = new.key)
  <2>1. Obsolete(prev, new) = {prev.key} \cup (RefKeys(prev) \ {new.shards[i].key : i \in DOMAIN new.shards})
    BY <1>2 DEF Obsolete
  <2>2. prev \in Refs /\ RefShape(prev, m)
    BY <1>2
  <2>3. Kind(prev.key) \in {"result", "index"} /\ Kind(new.key) \in {"result", "index"}
    BY <2>2, KeyFacts DEF RefShape
  <2>4. /\ \A i \in DOMAIN prev.shards : Kind(prev.shards[i].key) \in {"final", "partial"}
        /\ \A i \in DOMAIN new.shards : Kind(new.shards[i].key) \in {"final", "partial"}
    BY <2>2 DEF RefShape
  <2>5. RefKeys(prev) \subseteq Keys
    <3>1. prev.shards \in Seq(Objects) /\ prev.key \in Keys
      BY <2>2 DEF Refs
    <3>2. DOMAIN prev.shards = 1..Len(prev.shards) /\ \A i \in 1..Len(prev.shards) : prev.shards[i] \in Objects
      BY <3>1, LenProperties, ElementOfSeq
    <3>. QED BY <3>1, <3>2 DEF RefKeys, Objects
  <2>6. \A k \in RefKeys(prev) : k = prev.key \/ Kind(k) \in {"final", "partial"}
    BY <2>4 DEF RefKeys
  <2>7. \A k \in RefKeys(new) : k = new.key \/ \E i \in DOMAIN new.shards : k = new.shards[i].key
    BY DEF RefKeys
  <2>8. prev.key \notin RefKeys(new)
    BY <1>2, <2>3, <2>4, <2>7
  <2>9. ASSUME NEW k \in RefKeys(prev), k \notin {new.shards[i].key : i \in DOMAIN new.shards}
        PROVE  k \notin RefKeys(new)
    BY <1>2, <2>3, <2>6, <2>7, <2>9
  <2>10. prev.key \in Keys
    BY <2>2 DEF Refs
  <2>. QED BY <2>1, <2>5, <2>8, <2>9, <2>10
<1>. QED BY <1>1, <1>2

\* Every object of the reference that is saved is there.
LEMMA SaveKeeps == ASSUME StoredInv, NEW w \in Workers, Save(w) PROVE StoredInv' /\ (MaxLapses = 0 /\ ~halfFailed => Backed')
<1>0. StoreTyped /\ BoundsTyped /\ at \in [Workers -> Places] /\ job \in [Workers -> Jobs] /\ ResultInv
  BY Typed DEF StoredInv
<1>1. /\ UNCHANGED <<status, stopping, halfFailed, execs, crashes, lapses>>
      /\ UNCHANGED <<objs, kept, faulted, publishes, faults>>
      /\ at[w] = "save" /\ at[w] \in Storing
  BY DEF Save, store, history, Storing
<1>2. PICK b \in Jobs : b = job[w]
  BY <1>0
<1>3. /\ b.new \in Refs /\ b.then \in {"work", "stored"} /\ RefSound(b.new, publishes, indexFailures)
      /\ b.new # NoRef /\ b.prev \in Refs \cup {NoRef}
  BY <1>1, <1>2, StoringFacts, AbsenceAssumption DEF Jobs
<1>4. PICK new \in Refs : new = b.new
  BY <1>3
<1>5. PICK saved \in Refs :
         /\ ref' = saved /\ saved.key = new.key /\ saved.doc = new.doc /\ saved.shards = new.shards
         /\ RefSound(saved, publishes', indexFailures')
         /\ indexFailures' \in 0..MaxIndexFailures /\ (indexFailures' = 0 => indexFailures = 0)
  <2>0. indexFailures \in 0..MaxIndexFailures
    BY <1>0 DEF BoundsTyped
  <2>1. CASE ref' = new /\ UNCHANGED indexFailures
    BY <1>1, <1>3, <1>4, <2>0, <2>1
  <2>2. CASE /\ indexFailures < MaxIndexFailures /\ indexFailures' = indexFailures + 1
             /\ ref' = [new EXCEPT !.index = "partial"]
    <3>1. PICK saved \in Refs : saved = [new EXCEPT !.index = "partial"]
      BY DEF Refs
    <3>2. /\ saved.key = new.key /\ saved.doc = new.doc /\ saved.shards = new.shards /\ saved.count = new.count
          /\ saved.index = "partial"
      BY <3>1 DEF Refs
    <3>3. indexFailures' # 0 /\ indexFailures' \in 0..MaxIndexFailures
      BY <2>0, <2>2, BoundsInt
    <3>4. RefShape(new, publishes)
      BY <1>3, <1>4 DEF RefSound
    <3>5. RefShape(saved, publishes)
      BY <3>2, <3>4 DEF RefShape
    <3>6. RefSound(saved, publishes', indexFailures')
      BY <1>1, <3>3, <3>5 DEF RefSound
    <3>. QED BY <2>2, <3>1, <3>2, <3>3, <3>6
  <2>. QED BY <1>2, <1>4, <2>1, <2>2 DEF Save
<1>6. PICK K : K = Obsolete(b.prev, new)
  OBVIOUS
<1>7. SoloInv /\ MaxLapses = 0 => b.prev = ref
  BY <1>1, <1>2, StoringFacts
<1>8. RefShape(new, publishes) /\ RefKeys(saved) = RefKeys(new)
  BY <1>3, <1>4, <1>5 DEF RefSound, RefKeys
<1>9. K \subseteq Keys
  <2>1. CASE b.prev = NoRef \/ b.prev.key = new.key
    BY <1>6, <2>1 DEF Obsolete
  <2>2. CASE ~(b.prev = NoRef \/ b.prev.key = new.key)
    <3>1. b.prev \in Refs
      BY <1>3, <2>2
    <3>2. b.prev.shards \in Seq(Objects) /\ b.prev.key \in Keys
      BY <3>1 DEF Refs
    <3>3. DOMAIN b.prev.shards = 1..Len(b.prev.shards)
          /\ \A i \in 1..Len(b.prev.shards) : b.prev.shards[i] \in Objects
      BY <3>2, LenProperties, ElementOfSeq
    <3>4. RefKeys(b.prev) \subseteq Keys
      BY <3>2, <3>3 DEF RefKeys, Objects
    <3>. QED BY <1>6, <3>2, <3>4 DEF Obsolete
  <2>. QED BY <2>1, <2>2
<1>10. PICK j \in Jobs : j = [b EXCEPT !.drop = K, !.marks = K]
  BY <1>9 DEF Jobs
<1>11. j.drop = K /\ j.marks = K /\ j.then = b.then
  BY <1>10 DEF Jobs
<1>12. at' = [at EXCEPT ![w] = "drop"] /\ job' = [job EXCEPT ![w] = j]
  BY <1>0, <1>2, <1>4, <1>6, <1>10 DEF Save, Goto
<1>13. JobSound("drop", j, publishes', indexFailures') /\ "drop" \in Places \ {"idle"} /\ at[w] # "idle"
  BY <1>1 DEF JobSound, Storing, Places
<1>14. /\ objs' \in [Keys -> Docs \cup {NoDoc}] /\ kept' \in [Keys -> {"none", "live", "deleted"}]
       /\ ref' \in Refs \cup {NoRef} /\ faulted' \in BOOLEAN
       /\ publishes' \in 0..MaxPublishes /\ faults' \in 0..MaxFaults
       /\ publishes <= publishes'
  BY <1>0, <1>1, <1>5, BoundsInt DEF StoreTyped, BoundsTyped
<1>15. ASSUME MaxLapses = 0, SoloInv
       PROVE  WorkerFits("drop", j)' /\ (~halfFailed => Backed')
  <2>1. b.prev = ref /\ PutSound(b) /\ b.todo = << >> /\ b.untracked = << >>
    <3>1. b.todo = << >> /\ b.untracked = << >>
      BY <1>1, <1>2, <1>15 DEF SoloInv, WorkerFits
    <3>. QED BY <1>1, <1>2, <1>15, <3>1, StoringFacts
  <2>2. Range(b.todo) = {} /\ Range(b.untracked) = {}
    BY <2>1, EmptySeq DEF Range
  <2>3. b.then = "stored" \/ ~halfFailed => \A o \in ObjectsOf(new) : objs[o.key] = o.doc
    BY <1>4, <2>1, <2>2 DEF PutSound
  <2>4. b.then = "stored" \/ ~halfFailed => Readable(saved)'
    <3>1. SUFFICES ASSUME \A o \in ObjectsOf(new) : objs[o.key] = o.doc PROVE Readable(saved)'
      BY <2>3
    <3>2. objs[new.key] = new.doc
      <4>1. PICK o : o = [key |-> new.key, doc |-> new.doc]
        OBVIOUS
      <4>2. o \in ObjectsOf(new) /\ o.key = new.key /\ o.doc = new.doc
        BY <4>1 DEF ObjectsOf
      <4>. QED BY <3>1, <4>2
    <3>3. \A i \in DOMAIN new.shards : new.shards[i] \in ObjectsOf(new)
      BY DEF ObjectsOf, Range
    <3>. QED BY <1>1, <1>5, <3>1, <3>2, <3>3 DEF Readable
  <2>5. ref # NoRef => RefShape(ref, publishes)
    BY <1>0 DEF ResultInv, RefsSound, RefSound
  <2>6. K \cap RefKeys(saved) = {}
    BY <1>3, <1>6, <1>8, <2>1, <2>5, ObsoleteKeys
  <2>7. ASSUME b.then = "stored"
        PROVE  FinalReadable' /\ (K = {} \/ (kept[FinalKey] = "live" /\ FinalKey \notin K))
    <3>1. /\ new.key = FinalKey
          /\ (ref # NoRef /\ ref.key = FinalKey) \/ kept[FinalKey] = "live"
      BY <1>4, <2>1, <2>2, <2>7 DEF PutSound
    <3>2. FinalKey \notin K
      BY <1>8, <2>6, <3>1 DEF RefKeys
    <3>3. ref # NoRef /\ ref.key = FinalKey => K = {}
      BY <1>6, <2>1, <3>1 DEF Obsolete
    <3>4. FinalReadable'
      <4>1. ref' # NoRef /\ ref'.key = FinalKey
        BY <1>5, <3>1, AbsenceAssumption
      <4>2. Readable(saved)'
        BY <2>4, <2>7
      <4>. QED BY <1>5, <4>1, <4>2 DEF FinalReadable, Readable
    <3>. QED BY <3>1, <3>2, <3>3, <3>4
  <2>8. WorkerFits("drop", j)'
    <3>1. kept' = kept /\ ref' = saved
      BY <1>1, <1>5
    <3>. QED BY <1>11, <2>6, <2>7, <3>1 DEF WorkerFits, Storing
  <2>9. ~halfFailed => Backed'
    BY <1>5, <2>4 DEF Backed, Readable
  <2>. QED BY <2>8, <2>9
<1>16. ref' # NoRef => RefSound(ref', publishes', indexFailures')
  BY <1>5
<1>17. StoredInv'
  BY <1>1, <1>5, <1>12, <1>13, <1>14, <1>15, <1>16, MoveStep
<1>. QED BY <1>15, <1>17 DEF StoredInv

LEMMA DropKeeps == ASSUME StoredInv, NEW w \in Workers, Drop(w) PROVE StoredInv'
<1>0. StoreTyped /\ BoundsTyped /\ at \in [Workers -> Places] /\ job \in [Workers -> Jobs] /\ ResultInv
  BY Typed DEF StoredInv
<1>1. /\ UNCHANGED <<status, stopping, halfFailed, execs, crashes, lapses>>
      /\ UNCHANGED <<kept, ref, faulted, publishes, indexFailures>>
      /\ at[w] = "drop"
  BY DEF Drop, history
<1>2. PICK b \in Jobs : b = job[w]
  BY <1>0
<1>3. b.drop \subseteq Keys
  BY DEF Jobs
<1>4. PICK p \in {"drop", "mark"}, j \in Jobs, after \in [Keys -> Docs \cup {NoDoc}] :
         /\ at' = [at EXCEPT ![w] = p] /\ job' = [job EXCEPT ![w] = j] /\ objs' = after
         /\ j.then = b.then /\ j.marks = b.marks /\ j.drop \subseteq b.drop
         /\ \A k \in Keys : k \notin b.drop => after[k] = objs[k]
         /\ faults' \in 0..MaxFaults
  <2>0. objs \in [Keys -> Docs \cup {NoDoc}] /\ faults \in 0..MaxFaults
    BY <1>0 DEF StoreTyped, BoundsTyped
  <2>1. CASE Goto(w, "mark") /\ UNCHANGED <<objs, job, faults>>
    <3>1. at' = [at EXCEPT ![w] = "mark"] /\ job' = [job EXCEPT ![w] = b] /\ objs' = objs /\ faults' = faults
      BY <1>0, <1>2, <2>1 DEF Goto
    <3>. QED BY <2>0, <3>1
  <2>2. CASE \E k \in b.drop :
                /\ job' = [job EXCEPT ![w].drop = @ \ {k}]
                /\ \/ objs' = [objs EXCEPT ![k] = NoDoc] /\ UNCHANGED faults
                   \/ faults < MaxFaults /\ faults' = faults + 1 /\ UNCHANGED objs
                /\ UNCHANGED at
    <3>1. PICK k \in b.drop :
                /\ job' = [job EXCEPT ![w].drop = @ \ {k}]
                /\ \/ objs' = [objs EXCEPT ![k] = NoDoc] /\ UNCHANGED faults
                   \/ faults < MaxFaults /\ faults' = faults + 1 /\ UNCHANGED objs
                /\ UNCHANGED at
      BY <2>2
    <3>2. PICK D \in SUBSET Keys : D = b.drop \ {k}
      BY <1>3
    <3>3. PICK j \in Jobs : j = [b EXCEPT !.drop = D]
      BY DEF Jobs
    <3>4. j.then = b.then /\ j.marks = b.marks /\ j.drop = D
      BY <3>3 DEF Jobs
    <3>5. at' = [at EXCEPT ![w] = "drop"] /\ job' = [job EXCEPT ![w] = j]
      BY <1>0, <1>1, <1>2, <3>1, <3>2, <3>3
    <3>6. /\ objs' \in [Keys -> Docs \cup {NoDoc}] /\ faults' \in 0..MaxFaults
          /\ \A x \in Keys : x \notin b.drop => objs'[x] = objs[x]
      <4>1. CASE objs' = [objs EXCEPT ![k] = NoDoc] /\ UNCHANGED faults
        BY <2>0, <4>1
      <4>2. CASE faults < MaxFaults /\ faults' = faults + 1 /\ UNCHANGED objs
        BY <2>0, <4>2, BoundsInt
      <4>. QED BY <3>1, <4>1, <4>2
    <3>. QED BY <3>2, <3>4, <3>5, <3>6
  <2>. QED BY <1>2, <2>1, <2>2 DEF Drop
<1>5. JobSound(p, j, publishes', indexFailures') /\ p \in Places \ {"idle"} /\ at[w] # "idle"
  BY <1>1 DEF JobSound, Storing, Places
<1>6. /\ objs' \in [Keys -> Docs \cup {NoDoc}] /\ kept' \in [Keys -> {"none", "live", "deleted"}]
      /\ ref' \in Refs \cup {NoRef} /\ faulted' \in BOOLEAN
      /\ publishes' \in 0..MaxPublishes /\ indexFailures' \in 0..MaxIndexFailures
      /\ publishes <= publishes' /\ (indexFailures' = 0 => indexFailures = 0)
      /\ ref' # NoRef => RefSound(ref', publishes', indexFailures')
  BY <1>0, <1>1, <1>4, BoundsInt DEF StoreTyped, BoundsTyped, ResultInv, RefsSound
<1>7. ASSUME MaxLapses = 0, SoloInv
      PROVE  WorkerFits(p, j)' /\ (~halfFailed /\ ~Fails(p, j) => Backed')
  <2>1. ASSUME b.then \in {"work", "stored"}, ref # NoRef, Readable(ref) PROVE Readable(ref)'
    <3>1. ref \in Refs /\ b.drop \cap RefKeys(ref) = {}
      BY <1>0, <1>1, <1>2, <1>7, <2>1 DEF StoreTyped, SoloInv, WorkerFits
    <3>2. ref.key \in Keys /\ ref.shards \in Seq(Objects)
      BY <3>1 DEF Refs
    <3>3. DOMAIN ref.shards = 1..Len(ref.shards) /\ \A i \in 1..Len(ref.shards) : ref.shards[i] \in Objects
      BY <3>2, LenProperties, ElementOfSeq
    <3>4. \A i \in DOMAIN ref.shards : ref.shards[i].key \in Keys /\ ref.shards[i].key \in RefKeys(ref)
      BY <3>3 DEF Objects, RefKeys
    <3>5. ref.key \in RefKeys(ref)
      BY DEF RefKeys
    <3>6. after[ref.key] = ref.doc
      BY <1>4, <2>1, <3>1, <3>2, <3>5 DEF Readable
    <3>7. \A i \in DOMAIN ref.shards : after[ref.shards[i].key] = ref.shards[i].doc
      BY <1>4, <2>1, <3>1, <3>4 DEF Readable
    <3>. QED BY <1>1, <1>4, <3>6, <3>7 DEF Readable
  <2>2. ASSUME b.then \in {"work", "stored"}
        PROVE  /\ ref # NoRef => b.drop \cap RefKeys(ref) = {}
               /\ b.then = "stored" =>
                     /\ FinalReadable
                     /\ b.marks = {} \/ (kept[FinalKey] = "live" /\ FinalKey \notin b.marks)
    BY <1>1, <1>2, <1>7, <2>2 DEF SoloInv, WorkerFits
  <2>3. b.then = "stored" => FinalReadable'
    BY <1>1, <2>1, <2>2 DEF FinalReadable, Readable
  <2>4. WorkerFits(p, j)'
    <3>1. kept' = kept /\ ref' = ref
      BY <1>1
    <3>. QED BY <1>4, <2>2, <2>3, <3>1 DEF WorkerFits, Storing
  <2>5. ASSUME ~halfFailed, ~Fails(p, j) PROVE Backed'
    <3>1. b.then \in {"work", "stored"}
      BY <1>4, <2>5 DEF Fails, Jobs
    <3>2. ~Fails(at[w], job[w])
      BY <1>1, <1>2, <3>1 DEF Fails
    <3>3. Backed
      BY <1>1, <1>7, <2>5, <3>2, CalmWorker
    <3>. QED BY <1>1, <2>1, <3>1, <3>3 DEF Backed, Readable
  <2>. QED BY <2>4, <2>5
<1>. QED BY <1>1, <1>4, <1>5, <1>6, <1>7, MoveStep

\* Marking the objects deleted may take the reference away, never the final one.
LEMMA MarkKeeps == ASSUME StoredInv, NEW w \in Workers, Mark(w) PROVE StoredInv' /\ (ref' = ref \/ ref' = NoRef)
<1>0. StoreTyped /\ BoundsTyped /\ at \in [Workers -> Places] /\ job \in [Workers -> Jobs] /\ ResultInv
  BY Typed DEF StoredInv
<1>1. /\ UNCHANGED <<status, stopping, halfFailed, execs, crashes, lapses>>
      /\ UNCHANGED <<objs, faulted, publishes, indexFailures>>
      /\ at[w] = "mark"
  BY DEF Mark, history
<1>2. PICK b \in Jobs : b = job[w]
  BY <1>0
<1>3. b.then \in {"work", "stored", "discard", "fail"} /\ b.by \in Executions /\ b.bytes \in Executions
  BY DEF Jobs
<1>4. PICK j \in Jobs : j = [Idle EXCEPT !.by = b.by, !.bytes = b.bytes]
  BY <1>3, IdleJob DEF Jobs
<1>5. at' = [at EXCEPT ![w] = b.then] /\ job' = [job EXCEPT ![w] = j]
  BY <1>2, <1>4 DEF Mark, Goto
<1>6. PICK live : live = {k \in b.marks : kept[k] = "live"}
  OBVIOUS
<1>7. /\ kept' \in [Keys -> {"none", "live", "deleted"}] /\ faults' \in 0..MaxFaults
      /\ ref' = ref \/ (ref' = NoRef /\ live # {} /\ \A k \in Keys : k \notin live => kept[k] # "live")
  <2>0. kept \in [Keys -> {"none", "live", "deleted"}] /\ faults \in 0..MaxFaults
    BY <1>0 DEF StoreTyped, BoundsTyped
  <2>1. CASE /\ kept' = [k \in Keys |-> IF k \in live THEN "deleted" ELSE kept[k]]
             /\ ref' = IF live # {} /\ \A k \in Keys : kept'[k] # "live" THEN NoRef ELSE ref
             /\ UNCHANGED faults
    <3>1. kept' \in [Keys -> {"none", "live", "deleted"}]
      BY <2>0, <2>1
    <3>2. \A k \in Keys : k \notin live => kept'[k] = kept[k]
      BY <2>1
    <3>. QED BY <2>0, <2>1, <3>1, <3>2
  <2>2. CASE faults < MaxFaults /\ faults' = faults + 1 /\ UNCHANGED <<kept, ref>>
    BY <2>0, <2>2, BoundsInt
  <2>. QED BY <1>2, <1>6, <2>1, <2>2 DEF Mark
<1>8. JobSound(b.then, j, publishes', indexFailures') /\ b.then \in Places \ {"idle"} /\ at[w] # "idle"
  BY <1>1, <1>3 DEF JobSound, Storing, Places
<1>9. /\ objs' \in [Keys -> Docs \cup {NoDoc}]
      /\ ref' \in Refs \cup {NoRef} /\ faulted' \in BOOLEAN
      /\ publishes' \in 0..MaxPublishes /\ indexFailures' \in 0..MaxIndexFailures
      /\ publishes <= publishes' /\ (indexFailures' = 0 => indexFailures = 0)
      /\ ref' # NoRef => RefSound(ref', publishes', indexFailures')
  BY <1>0, <1>1, <1>7, BoundsInt DEF StoreTyped, BoundsTyped, ResultInv, RefsSound
<1>10. ASSUME MaxLapses = 0, SoloInv
       PROVE  WorkerFits(b.then, j)' /\ (~halfFailed /\ ~Fails(b.then, j) => Backed')
  <2>1. b.then = "stored" => FinalReadable'
    <3>. SUFFICES ASSUME b.then = "stored" PROVE FinalReadable'
      OBVIOUS
    <3>1. FinalReadable /\ (b.marks = {} \/ (kept[FinalKey] = "live" /\ FinalKey \notin b.marks))
      BY <1>1, <1>2, <1>10 DEF SoloInv, WorkerFits
    <3>2. ref' = ref
      BY <1>6, <1>7, <3>1, KeyFacts
    <3>. QED BY <1>1, <3>1, <3>2 DEF FinalReadable, Readable
  <2>2. WorkerFits(b.then, j)'
    BY <1>3, <2>1 DEF WorkerFits, Storing
  <2>3. ASSUME ~halfFailed, ~Fails(b.then, j) PROVE Backed'
    <3>1. ~Fails(at[w], job[w])
      BY <1>1, <1>2, <2>3 DEF Fails
    <3>2. Backed
      BY <1>1, <1>10, <2>3, <3>1, CalmWorker
    <3>. QED BY <1>1, <1>7, <3>2 DEF Backed, Readable
  <2>. QED BY <2>2, <2>3
<1>11. StoredInv'
  BY <1>1, <1>5, <1>7, <1>8, <1>9, <1>10, MoveStep
<1>. QED BY <1>7, <1>11

-----------------------------------------------------------------------------
\* The three facts of the induction.
LEMMA InitHolds == ASSUME Init PROVE StoredInv
<1>1. TypeOK
  <2>1. 0 \in Executions
    BY BoundsInt DEF Executions
  <2>2. /\ objs \in [Keys -> Docs \cup {NoDoc}] /\ kept \in [Keys -> {"none", "live", "deleted"}]
        /\ at \in [Workers -> Places] /\ job \in [Workers -> Jobs]
    BY IdleJob DEF Init, Places
  <2>3. /\ execs \in Executions /\ publishes \in 0..MaxPublishes
        /\ crashes \in 0..MaxCrashes /\ lapses \in 0..MaxLapses
        /\ faults \in 0..MaxFaults /\ indexFailures \in 0..MaxIndexFailures
    BY <2>1, BoundsInt DEF Init
  <2>4. /\ status \in {"running", "cancelling", "cancelled", "completed", "failed"} /\ ref \in Refs \cup {NoRef}
        /\ stopping \subseteq Workers /\ faulted \in BOOLEAN /\ halfFailed \in BOOLEAN
    BY DEF Init
  <2>. QED BY <2>2, <2>3, <2>4 DEF TypeOK, Places
<1>2. ExecsBounded /\ TodoSound /\ RefsSound
  BY DEF Init, ExecsBounded, TodoSound, RefsSound, Storing
<1>3. Solo /\ (\A v \in Workers : WorkerFits(at[v], job[v])) /\ Backed
  BY DEF Init, Solo, WorkerFits, Storing, Backed
<1>4. status # "completed"
  BY DEF Init
<1>. QED BY <1>1, <1>2, <1>3, <1>4 DEF StoredInv, ResultInv, SoloInv

LEMMA StutterHolds == ASSUME StoredInv, UNCHANGED vars PROVE StoredInv'
<1>0. UNCHANGED <<status, objs, kept, ref, at, job, stopping, faulted, halfFailed>>
      /\ UNCHANGED <<execs, publishes, crashes, lapses, faults, indexFailures>>
  BY DEF vars, store, worker, history, bounds
<1>1. ResultInv'
  BY <1>0 DEF StoredInv, ResultInv, TypeOK, ExecsBounded, TodoSound, RefsSound
<1>2. SoloInv => SoloInv'
  <2>1. Solo => Solo'
    BY <1>0 DEF Solo
  <2>2. ASSUME NEW v \in Workers, WorkerFits(at[v], job[v]) PROVE WorkerFits(at[v], job[v])'
    BY <1>0, <2>2 DEF WorkerFits, PutSound, FinalReadable, Readable
  <2>3. Calm' => Calm
    BY <1>0 DEF Calm, Fails
  <2>4. (Backed => Backed') /\ (FinalReadable => FinalReadable')
    BY <1>0 DEF Backed, FinalReadable, Readable
  <2>. QED BY <1>0, <2>1, <2>2, <2>3, <2>4 DEF SoloInv
<1>. QED BY <1>1, <1>2 DEF StoredInv

LEMMA NextHolds == ASSUME StoredInv, Next PROVE StoredInv' /\ (MaxLapses = 0 /\ ref' # ref /\ ~halfFailed => Backed')
<1>1. CASE Cancel
  BY <1>1, CancelKeeps DEF Cancel
<1>2. ASSUME NEW w \in Workers, NEW u \in 1..MaxUnits, Publish(w, u) \/ Finish(w, u)
      PROVE  StoredInv' /\ ref' = ref
  BY <1>2, PublishKeeps, FinishKeeps DEF Publish, Finish
<1>3. ASSUME NEW w \in Workers, Start(w) \/ Checkpoint(w) \/ Stop(w) \/ Complete(w) \/ Fail(w) \/ Crash(w)
      PROVE  StoredInv' /\ ref' = ref
  <2>1. StoredInv'
    BY <1>3, StartKeeps, CheckpointKeeps, StopKeeps, CompleteKeeps, FailKeeps, CrashKeeps
  <2>2. ref' = ref
    BY <1>3 DEF Start, Checkpoint, Stop, Complete, Fail, Crash
  <2>. QED BY <2>1, <2>2
<1>4. ASSUME NEW w \in Workers, Put(w) \/ Track(w) \/ Drop(w) \/ Discard(w) \/ Fault(w)
      PROVE  StoredInv' /\ ref' = ref
  <2>1. StoredInv'
    BY <1>4, PutKeeps, TrackKeeps, DropKeeps, DiscardKeeps, FaultKeeps
  <2>2. ref' = ref
    BY <1>4 DEF Put, Track, Drop, Discard, Fault
  <2>. QED BY <2>1, <2>2
<1>5. ASSUME NEW w \in Workers, Save(w)
      PROVE  StoredInv' /\ (MaxLapses = 0 /\ ~halfFailed => Backed')
  BY <1>5, SaveKeeps
<1>6. ASSUME NEW w \in Workers, Mark(w)
      PROVE  StoredInv' /\ (ref' # ref => Backed')
  BY <1>6, MarkKeeps DEF Backed
<1>. QED BY <1>1, <1>2, <1>3, <1>4, <1>5, <1>6 DEF Next, Cancel

\* The shards of a saved reference hold its units, each once and in order, for any
\* number of workers, lapsed leases, crashes and partial results, as long as the
\* search index took every final result (_store_result, _publish_partial_result).
THEOREM ShardsAreExact == Spec => []ShardsExact
<1>1. Init => StoredInv
  BY InitHolds
<1>2. StoredInv /\ [Next]_vars => StoredInv'
  BY NextHolds, StutterHolds
<1>3. StoredInv => ShardsExact
  BY DEF StoredInv, ResultInv, RefsSound, RefSound, RefExact, Covers, ShardsExact
<1>. QED BY <1>1, <1>2, <1>3, PTL DEF Spec

\* While no lease lapses under a living worker, a completed Run has its final
\* result and every object of it can be read, whatever crashed, failed or was
\* executed again before (_store_result, _discard_partial_result, the retention
\* records).
THEOREM CompletedIsReadable == ASSUME MaxLapses = 0 PROVE Spec => []CompletedReadable
<1>1. Init => StoredInv
  BY InitHolds
<1>2. StoredInv /\ [Next]_vars => StoredInv'
  BY NextHolds, StutterHolds
<1>3. StoredInv => CompletedReadable
  BY DEF StoredInv, SoloInv, FinalReadable, CompletedReadable
<1>. QED BY <1>1, <1>2, <1>3, PTL DEF Spec

\* While no lease lapses under a living worker, a reference is saved only when all
\* its objects are stored, those it takes over from the one before included.
THEOREM CommitsBacked == ASSUME MaxLapses = 0 PROVE Spec => CommitBacked
<1>1. Init => StoredInv
  BY InitHolds
<1>2. StoredInv /\ [Next]_vars => StoredInv'
  BY NextHolds, StutterHolds
<1>3. StoredInv /\ [Next]_vars => [ref' # ref /\ ~halfFailed => Backed']_vars
  BY NextHolds
<1>. QED BY <1>1, <1>2, <1>3, PTL DEF Spec, CommitBacked
------------------------------------------------------------------------------
(* The pipeline over its media.  Nothing is lost between the decoder and the *)
(* operator as long as nobody cancels: what was taken and what is queued is  *)
(* what was given out, the end mark last.  Why a pipeline that was cancelled *)
(* has no result is a matter of the executor, which keeps the error, and of  *)
(* who may cancel: the executor with an error at hand, or an operator that   *)
(* is closing.  The interval strategy is a matter of arithmetic: the next    *)
(* time is a multiple of the interval, past the slot of every earlier unit.  *)

\* The shapes of the decoder, the operator and the executor.
Reasons == {"source_ended", "reconnect_exhausted", "sample_window_completed", "segment_window_completed", "raised"}
SampledUnit == [at : Nat, pts : Nat, n : Nat \ {0}]
UnitOrEnd == SampledUnit \cup {End}
DecoderRecord ==
    [at : {"none", "open", "read", "frame", "emit", "ended", "finish", "returned", "raised"},
     opened : Nat, failures : Nat, reconnects : Nat, frames : Nat, wall : Nat, next : Nat, pts : Nat,
     units : Seq(SampledUnit), unit : UnitOrEnd, reason : Reasons]
OperatorRecord ==
    [at : {"none", "prelude", "get", "infer", "result", "close", "closing", "returned", "raised"},
     taken : Seq(UnitOrEnd), batch : Nat, last : BOOLEAN, orphan : BOOLEAN]
ExecutorRecord ==
    [at : {"node", "wait", "checkpoint", "stop", "grace", "await", "over"}, node : {1, 2}, ran : Nat,
     error : {"none", "operator", "timeout"} \cup Outcomes]

MediaTypes ==
    /\ plan \in Plans /\ ValidPlan(plan)
    /\ control \in [paused : BOOLEAN, cancelled : BOOLEAN]
    /\ decoder \in DecoderRecord /\ queue \in Seq(UnitOrEnd)
    /\ operator \in OperatorRecord /\ executor \in ExecutorRecord

Slot(t) == (t - plan.start) \div plan.interval

\* A unit may be given out after those before.
Follows(d, u) ==
    /\ u \in SampledUnit
    /\ \A i \in DOMAIN d.units :
          /\ d.units[i].pts < u.pts
          /\ plan.strategy = "interval" => Slot(d.units[i].at) < Slot(u.at)
    /\ u.at >= plan.start \/ plan.seek
    /\ plan.end > 0 => u.at <= plan.end
    /\ u.pts <= d.pts
    /\ \E m \in Nat : d.next = plan.start + plan.interval * m /\ (plan.strategy = "interval" => Slot(u.at) < m)

\* What was given out is ordered and lies in the window.
SamplesOrdered(d) ==
    /\ \A i, j \in DOMAIN d.units : i < j =>
          /\ d.units[i].pts < d.units[j].pts
          /\ plan.strategy = "interval" => Slot(d.units[i].at) < Slot(d.units[j].at)
    /\ \A i \in DOMAIN d.units :
          /\ d.units[i].pts <= d.pts
          /\ d.units[i].at >= plan.start \/ plan.seek
          /\ plan.end > 0 => d.units[i].at <= plan.end
    /\ \E m \in Nat : /\ d.next = plan.start + plan.interval * m
                      /\ plan.strategy = "interval" => \A i \in DOMAIN d.units : Slot(d.units[i].at) < m
    /\ d.at = "emit" => Follows(d, d.unit)

\* Why the decoder stopped.
EndSound(d) ==
    /\ d.reason = "segment_window_completed" =>
          d.at \in {"ended", "finish", "returned"} /\ d.wall >= plan.segment
    /\ d.reason = "raised" => d.at \in {"finish", "raised"}
    /\ d.at = "raised" => d.reason = "raised"
    /\ d.at \in {"finish", "returned"} /\ d.reason # "raised" => d.units # <<>>

\* As long as nothing is cancelled, what the operator has taken and what is queued is
\* what was given out, with the end mark last.
Undisturbed == ~control.cancelled /\ operator.at \notin {"close", "closing", "raised"}
AllThere ==
    IF operator.last THEN queue = <<>> /\ operator.taken = decoder.units /\ decoder.at \in {"returned", "raised"}
    ELSE operator.taken \o queue =
            IF decoder.at \in {"returned", "raised"} THEN Append(decoder.units, End) ELSE decoder.units

OperatorSound ==
    /\ operator.at \in {"none", "prelude"} => operator.taken = <<>>
    /\ operator.at \in {"none", "prelude", "get"} => ~operator.last
    /\ operator.at \in {"result", "returned"} => operator.last
    /\ operator.at # "none" => decoder.at # "none"
    /\ operator.at = "returned" => decoder.at = "returned"
    /\ operator.at = "raised" => DecoderOver \/ control.cancelled \/ (operator.taken = <<>> /\ ~closes)
    /\ operator.orphan => operator.at \in {"close", "closing", "raised"}

ExecutorSound ==
    /\ executor.at = "node" => operator.at = "none"
    /\ executor.at = "node" /\ executor.node = 1 => decoder.at = "none" /\ queue = <<>>
    /\ executor.at = "node" /\ executor.node = 2 => decoder.at # "none"
    /\ executor.at \in {"node", "wait", "checkpoint"} => executor.error = "none"
    /\ executor.at \in {"stop", "grace", "await"} => executor.error # "none"
    /\ executor.at \in {"grace", "await"} => control.cancelled
    /\ executor.at = "over" /\ executor.error = "none" => operator.at = "returned"
    /\ executor.at = "over" /\ operator.at # "returned" => operator.at = "raised" \/ control.cancelled \/ decoder.at = "none" \/ (operator.at = "none" /\ executor.error = "conflict")
    /\ control.cancelled => executor.error # "none" \/ operator.at \in {"closing", "raised"}

MediaInv ==
    /\ MediaTypes /\ SamplesOrdered(decoder) /\ EndSound(decoder)
    /\ Undisturbed => AllThere
    /\ OperatorSound /\ ExecutorSound

------------------------------------------------------------------------------
\* Division by the interval, which the provers only know by this.
LEMMA SignedQuotient ==
    ASSUME NEW x \in Int, NEW k \in Nat \ {0}
    PROVE  x \div k \in Int /\ k * (x \div k) <= x /\ x < k * (x \div k) + k
  OBVIOUS

LEMMA SignedQuotientIs ==
    ASSUME NEW x \in Int, NEW k \in Nat \ {0}, NEW q \in Int, k * q <= x, x < k * q + k
    PROVE  x \div k = q
<1>1. x \div k \in Int /\ k * (x \div k) <= x /\ x < k * (x \div k) + k
  BY SignedQuotient
<1>2. PICK p \in Int : p = x \div k
  BY <1>1
<1>3. p > q => k * p >= k * q + k
  OBVIOUS
<1>4. p < q => k * q >= k * p + k
  OBVIOUS
<1>. QED BY <1>1, <1>2, <1>3, <1>4

\* What is taken at or after the next multiple is m slots and more from the start, and
\* the multiple after it is one slot more.
Multiple(s, k, m) == s + k * m
SlotFrom(s, k, t) == (t - s) \div k

LEMMA NextSlot ==
    ASSUME NEW k \in Nat \ {0}, NEW s \in Nat, NEW m \in Nat, NEW n \in Nat, n = Multiple(s, k, m),
           NEW t \in Nat, n <= t
    PROVE  /\ SlotFrom(s, k, t) \in Nat /\ m <= SlotFrom(s, k, t)
           /\ Multiple(n, k, SlotFrom(n, k, t) + 1) = Multiple(s, k, SlotFrom(s, k, t) + 1)
<1>. USE DEF Multiple, SlotFrom
<1>1. n \in Nat /\ t - n \in Nat /\ t - s \in Nat
  OBVIOUS
<1>2. PICK p \in Int : p = (t - n) \div k /\ k * p <= t - n /\ t - n < k * p + k
  BY <1>1, SignedQuotient
<1>3. p >= 0
  <2>1. p <= -1 => k * p <= k * (-1)
    OBVIOUS
  <2>. QED BY <1>1, <1>2, <2>1
<1>4. k * (m + p) = k * m + k * p /\ m + p \in Int
  OBVIOUS
<1>5. (t - s) \div k = m + p
  <2>1. t - s = (t - n) + k * m
    OBVIOUS
  <2>2. k * (m + p) <= t - s /\ t - s < k * (m + p) + k
    <3>1. PICK a \in Int, b \in Int, c \in Int : a = k * m /\ b = k * p /\ c = k * (m + p) /\ c = a + b
      BY <1>4
    <3>. QED BY <1>1, <1>2, <2>1, <3>1
  <2>. QED BY <1>1, <1>4, <2>2, SignedQuotientIs
<1>6. k * (m + p + 1) = k * m + k * (p + 1)
  OBVIOUS
<1>. QED BY <1>1, <1>2, <1>3, <1>5, <1>6
------------------------------------------------------------------------------
\* Steps of the decoder that give out nothing.
LEMMA NothingGivenOut ==
    ASSUME MediaInv, UNCHANGED <<plan, closes, control, queue, operator, executor>>,
           decoder.at \notin {"none", "returned", "raised"},
           decoder'.at \notin {"none", "returned", "raised"},
           decoder' \in DecoderRecord, decoder'.units = decoder.units,
           SamplesOrdered(decoder)', EndSound(decoder)'
    PROVE  MediaInv'
<1>1. MediaTypes'
  BY DEF MediaInv, MediaTypes, ValidPlan
<1>2. (Undisturbed => AllThere)'
  BY DEF MediaInv, Undisturbed, AllThere
<1>3. OperatorSound'
  BY DEF MediaInv, OperatorSound, DecoderOver
<1>4. ExecutorSound'
  BY DEF MediaInv, ExecutorSound
<1>. QED BY <1>1, <1>2, <1>3, <1>4 DEF MediaInv

LEMMA NothingSampled ==
    ASSUME MediaInv, plan' = plan, decoder'.at # "emit",
           decoder'.units = decoder.units, decoder'.next = decoder.next, decoder'.pts = decoder.pts
    PROVE  SamplesOrdered(decoder)'
  BY DEF MediaInv, SamplesOrdered, Slot

LEMMA BrokenDecoder ==
    ASSUME MediaInv, UNCHANGED <<plan, closes, control, queue, operator, executor>>,
           decoder.at \notin {"none", "returned", "raised"}, decoder' = Broken(decoder)
    PROVE  MediaInv'
<1>1. decoder \in DecoderRecord
  BY DEF MediaInv, MediaTypes
<1>2. decoder' \in DecoderRecord /\ decoder'.at = "finish" /\ decoder'.reason = "raised"
      /\ decoder'.units = decoder.units /\ decoder'.next = decoder.next /\ decoder'.pts = decoder.pts
  BY <1>1 DEF Broken, DecoderRecord, Reasons
<1>3. SamplesOrdered(decoder)'
  BY <1>2, NothingSampled
<1>4. EndSound(decoder)'
  BY <1>2 DEF EndSound
<1>. QED BY <1>2, <1>3, <1>4, NothingGivenOut

LEMMA OpenKeeps ==
    ASSUME MediaInv, open_capture, UNCHANGED <<plan, closes, operator, executor>>
    PROVE  MediaInv'
<1>1. decoder \in DecoderRecord /\ decoder.at = "open" /\ UNCHANGED <<control, queue>>
  BY DEF MediaInv, MediaTypes, open_capture
<1>2. CASE decoder' = Broken(decoder)
  BY <1>1, <1>2, BrokenDecoder
<1>3. CASE decoder' = [decoder EXCEPT !.at = "read"] \/ decoder' = [decoder EXCEPT !.opened = @ + 1]
  <2>1. decoder' \in DecoderRecord /\ decoder'.at \in {"open", "read"} /\ decoder'.reason = decoder.reason
        /\ decoder'.units = decoder.units /\ decoder'.next = decoder.next /\ decoder'.pts = decoder.pts
    <3>1. CASE decoder' = [decoder EXCEPT !.at = "read"]
      BY <1>1, <3>1 DEF DecoderRecord
    <3>2. CASE decoder' = [decoder EXCEPT !.opened = @ + 1]
      BY <1>1, <3>2 DEF DecoderRecord
    <3>. QED BY <1>3, <3>1, <3>2
  <2>2. SamplesOrdered(decoder)'
    BY <2>1, NothingSampled
  <2>3. EndSound(decoder)'
    BY <1>1, <2>1 DEF EndSound, MediaInv
  <2>. QED BY <1>1, <2>1, <2>2, <2>3, NothingGivenOut
<1>. QED BY <1>2, <1>3 DEF open_capture

LEMMA ReadKeeps ==
    ASSUME MediaInv, ReadFrame, UNCHANGED <<plan, closes, operator, executor>>
    PROVE  MediaInv'
<1>1. decoder \in DecoderRecord /\ decoder.at = "read" /\ UNCHANGED <<control, queue>>
  BY DEF MediaInv, MediaTypes, ReadFrame
<1>2. PICK w \in Nat : decoder' = [decoder EXCEPT !.at = "frame", !.failures = 0, !.frames = @ + 1, !.wall = w]
  <2>1. PICK later \in 0 .. 2 :
           decoder' = [decoder EXCEPT !.at = "frame", !.failures = 0, !.frames = @ + 1,
                         !.wall = IF plan.stream /\ decoder.frames > 0 /\ later = 0 THEN @ + 1 ELSE @ + later]
    BY DEF ReadFrame
  <2>2. decoder.wall + 1 \in Nat /\ decoder.wall + later \in Nat
    BY <1>1 DEF DecoderRecord
  <2>. QED BY <2>1, <2>2
<1>3. decoder' \in DecoderRecord /\ decoder'.at = "frame" /\ decoder'.reason = decoder.reason
      /\ decoder'.units = decoder.units /\ decoder'.next = decoder.next /\ decoder'.pts = decoder.pts
  <2>1. decoder.frames + 1 \in Nat
    BY <1>1 DEF DecoderRecord
  <2>. QED BY <1>1, <1>2, <2>1 DEF DecoderRecord
<1>4. SamplesOrdered(decoder)'
  BY <1>3, NothingSampled
<1>5. EndSound(decoder)'
  BY <1>1, <1>3 DEF EndSound, MediaInv
<1>. QED BY <1>1, <1>3, <1>4, <1>5, NothingGivenOut

LEMMA FailsKeeps ==
    ASSUME MediaInv, ReadFails, UNCHANGED <<plan, closes, operator, executor>>
    PROVE  MediaInv'
<1>1. decoder \in DecoderRecord /\ decoder.at = "read" /\ UNCHANGED <<control, queue>>
  BY DEF MediaInv, MediaTypes, ReadFails
<1>2. \/ decoder' = [decoder EXCEPT !.at = "ended"]
      \/ decoder' = [decoder EXCEPT !.failures = @ + 1]
      \/ decoder' = [decoder EXCEPT !.at = "ended", !.reason = "reconnect_exhausted"]
      \/ \E f \in Nat : decoder' = [decoder EXCEPT !.reconnects = @ + 1, !.failures = f]
  BY <1>1 DEF ReadFails, FailureLimit
<1>3. decoder' \in DecoderRecord /\ decoder'.at \in {"read", "ended"}
      /\ decoder'.reason \in {decoder.reason, "reconnect_exhausted"}
      /\ decoder'.units = decoder.units /\ decoder'.next = decoder.next /\ decoder'.pts = decoder.pts
  <2>1. decoder.failures + 1 \in Nat /\ decoder.reconnects + 1 \in Nat /\ "reconnect_exhausted" \in Reasons
    BY <1>1 DEF DecoderRecord, Reasons
  <2>2. CASE \E f \in Nat : decoder' = [decoder EXCEPT !.reconnects = @ + 1, !.failures = f]
    BY <1>1, <2>1, <2>2 DEF DecoderRecord
  <2>3. CASE decoder' = [decoder EXCEPT !.failures = @ + 1]
    BY <1>1, <2>1, <2>3 DEF DecoderRecord
  <2>4. CASE decoder' = [decoder EXCEPT !.at = "ended"]
    BY <1>1, <2>4 DEF DecoderRecord
  <2>5. CASE decoder' = [decoder EXCEPT !.at = "ended", !.reason = "reconnect_exhausted"]
    BY <1>1, <2>1, <2>5 DEF DecoderRecord
  <2>. QED BY <1>2, <2>2, <2>3, <2>4, <2>5
<1>4. SamplesOrdered(decoder)'
  BY <1>3, NothingSampled
<1>5. EndSound(decoder)'
  BY <1>1, <1>3 DEF EndSound, MediaInv
<1>. QED BY <1>1, <1>3, <1>4, <1>5, NothingGivenOut

LEMMA EndKeeps ==
    ASSUME MediaInv, EndOfMedia, UNCHANGED <<plan, closes, operator, executor>>
    PROVE  MediaInv'
<1>1. decoder \in DecoderRecord /\ decoder.at = "ended" /\ UNCHANGED <<control, queue>>
  BY DEF MediaInv, MediaTypes, EndOfMedia
<1>2. CASE decoder.units = <<>>
  BY <1>1, <1>2, BrokenDecoder DEF EndOfMedia
<1>3. CASE decoder.units # <<>>
  <2>1. decoder' = [decoder EXCEPT !.at = "finish"]
    BY <1>3 DEF EndOfMedia
  <2>2. decoder' \in DecoderRecord /\ decoder'.at = "finish" /\ decoder'.reason = decoder.reason
        /\ decoder'.units = decoder.units /\ decoder'.next = decoder.next /\ decoder'.pts = decoder.pts
        /\ decoder'.wall = decoder.wall
    BY <1>1, <2>1 DEF DecoderRecord
  <2>3. SamplesOrdered(decoder)'
    BY <2>2, NothingSampled
  <2>4. EndSound(decoder)'
    BY <1>1, <1>3, <2>2 DEF EndSound, MediaInv
  <2>. QED BY <1>1, <2>2, <2>3, <2>4, NothingGivenOut
<1>. QED BY <1>2, <1>3

\* The unit that is taken comes after all that were given out before.
LEMMA UnitFollows ==
    ASSUME MediaInv, UNCHANGED <<plan, closes, control, queue, operator, executor>>, decoder.at = "frame",
           ~BeforeWindow(decoder), ~PastWindow(decoder),
           plan.strategy = "interval" => decoder.wall >= decoder.next,
           decoder' = Sampled(decoder)
    PROVE  MediaInv'
<1>1. /\ decoder \in DecoderRecord /\ SamplesOrdered(decoder) /\ EndSound(decoder)
      /\ plan.interval \in Nat \ {0} /\ plan.start \in Nat /\ plan.end \in Nat
      /\ decoder.wall \in Nat /\ decoder.pts \in Nat /\ decoder.units \in Seq(SampledUnit)
  BY MediaAssumption DEF MediaInv, MediaTypes, ValidPlan, DecoderRecord
<1>2. PICK m \in Nat : /\ decoder.next = plan.start + plan.interval * m
                       /\ plan.strategy = "interval" =>
                             \A i \in DOMAIN decoder.units : Slot(decoder.units[i].at) < m
  BY <1>1 DEF SamplesOrdered
<1>. DEFINE u == Unit(decoder)
            q == (decoder.wall - plan.start) \div plan.interval
<1>3. u \in SampledUnit /\ u.at = decoder.wall
      /\ \A i \in DOMAIN decoder.units : decoder.units[i].pts < u.pts
  <2>1. Len(decoder.units) + 1 \in Nat \ {0} /\ decoder.pts + 1 \in Nat
    BY <1>1
  <2>2. u \in SampledUnit /\ u.at = decoder.wall
    BY <1>1, <2>1 DEF Unit, SampledUnit
  <2>3. ASSUME NEW i \in DOMAIN decoder.units PROVE decoder.units[i].pts < u.pts
    <3>1. decoder.units[i] \in SampledUnit /\ decoder.units # <<>>
      BY <1>1, <2>3
    <3>2. decoder.units[i].pts \in Nat /\ decoder.units[i].pts <= decoder.pts
      BY <1>1, <2>3, <3>1 DEF SamplesOrdered, SampledUnit
    <3>. QED BY <1>1, <3>1, <3>2 DEF Unit
  <2>. QED BY <2>2, <2>3
<1>4. CASE plan.strategy = "interval"
  <2>1. decoder.wall >= decoder.next /\ decoder.next = plan.start + plan.interval * m
    BY <1>2, <1>4
  <2>2. q \in Nat /\ m <= q /\ NextInterval(decoder.next, decoder.wall) = plan.start + plan.interval * (q + 1)
    <3>1. NextInterval(decoder.next, decoder.wall)
             = Multiple(decoder.next, plan.interval, SlotFrom(decoder.next, plan.interval, decoder.wall) + 1)
      BY DEF NextInterval, Multiple, SlotFrom
    <3>2. q = SlotFrom(plan.start, plan.interval, decoder.wall)
          /\ decoder.next = Multiple(plan.start, plan.interval, m)
          /\ plan.start + plan.interval * (q + 1) = Multiple(plan.start, plan.interval, q + 1)
      BY <2>1 DEF Multiple, SlotFrom
    <3>. HIDE DEF q
    <3>3. /\ plan.interval \in Nat \ {0} /\ plan.start \in Nat /\ m \in Nat /\ decoder.wall \in Nat
          /\ decoder.next <= decoder.wall /\ decoder.next \in Nat
      BY <1>1, <2>1, <3>2 DEF DecoderRecord
    <3>4. /\ q \in Nat /\ m <= q
          /\ Multiple(decoder.next, plan.interval, SlotFrom(decoder.next, plan.interval, decoder.wall) + 1)
                = Multiple(plan.start, plan.interval, q + 1)
      BY <3>2, <3>3, NextSlot
    <3>. QED BY <3>1, <3>2, <3>4
  <2>. DEFINE n == plan.start + plan.interval * (q + 1)
  <2>3. n \in Nat
    <3>1. q + 1 \in Nat /\ plan.interval * (q + 1) \in Nat
      BY <1>1, <2>2
    <3>. QED BY <1>1, <3>1
  <2>. HIDE DEF n
  <2>4. decoder' = [decoder EXCEPT !.at = "emit", !.unit = u, !.pts = u.pts, !.next = n]
    BY <1>4, <2>2 DEF Sampled, n
  <2>. HIDE DEF u, q
  <2>5. decoder' \in DecoderRecord /\ decoder'.at = "emit" /\ decoder'.reason = decoder.reason
        /\ decoder'.units = decoder.units /\ decoder'.next = n /\ decoder'.pts = u.pts /\ decoder'.unit = u
    <3>1. u \in UnitOrEnd /\ u.pts \in Nat
      BY <1>3 DEF SampledUnit, UnitOrEnd
    <3>2. PICK p : p = u.pts /\ p \in Nat
      BY <3>1
    <3>3. decoder' = [decoder EXCEPT !.at = "emit", !.unit = u, !.pts = p, !.next = n]
      BY <2>4, <3>2
    <3>4. decoder' \in DecoderRecord
      BY <1>1, <2>3, <3>1, <3>2, <3>3 DEF DecoderRecord
    <3>5. decoder'.at = "emit" /\ decoder'.reason = decoder.reason /\ decoder'.units = decoder.units
          /\ decoder'.next = n /\ decoder'.pts = p /\ decoder'.unit = u
      BY <1>1, <3>3 DEF DecoderRecord
    <3>. QED BY <3>2, <3>4, <3>5
  <2>6. SamplesOrdered(decoder)'
    <3>1. (q + 1) \in Nat /\ n = plan.start + plan.interval * (q + 1) /\ Slot(u.at) = q
          /\ \A i \in DOMAIN decoder.units : Slot(decoder.units[i].at) \in Int
      <4>1. ASSUME NEW i \in DOMAIN decoder.units PROVE Slot(decoder.units[i].at) \in Int
        <5>1. decoder.units[i] \in SampledUnit
          BY <1>1, <4>1
        <5>2. decoder.units[i].at - plan.start \in Int
          <6>1. decoder.units[i].at \in Nat
            BY <5>1 DEF SampledUnit
          <6>. QED BY <1>1, <6>1
        <5>. QED BY <1>1, <5>2, SignedQuotient, Zenon DEF Slot
      <4>. QED BY <1>3, <2>2, <4>1 DEF n, q, Slot
    <3>2. \A i \in DOMAIN decoder.units : Slot(decoder.units[i].at) < q
      BY <1>2, <1>4, <2>2, <3>1
    <3>3. Follows(decoder, decoder.unit)'
      <4>1. u.at >= plan.start \/ plan.seek
        BY <1>3 , <1>1 DEF BeforeWindow
      <4>2. plan.end > 0 => u.at <= plan.end
        BY <1>3, <1>1 DEF PastWindow
      <4>3. Slot(u.at) < q + 1 /\ u.pts <= u.pts
        BY <2>2, <3>1, <1>3 DEF SampledUnit
      <4>. QED BY <1>3, <2>5, <3>1, <3>2, <4>1, <4>2, <4>3 DEF Follows, Slot
    <3>4. \A i \in DOMAIN decoder.units : decoder.units[i].pts <= u.pts
      <4>1. ASSUME NEW i \in DOMAIN decoder.units PROVE decoder.units[i].pts <= u.pts
        <5>1. decoder.units[i] \in SampledUnit
          BY <1>1, <4>1
        <5>. QED BY <1>3, <4>1, <5>1 DEF SampledUnit
      <4>. QED BY <4>1
    <3>5. \A i \in DOMAIN decoder.units : Slot(decoder.units[i].at) < q + 1
      BY <2>2, <3>1, <3>2
    <3>. QED BY <1>1, <2>5, <3>1, <3>3, <3>4, <3>5 DEF SamplesOrdered, Slot
  <2>7. EndSound(decoder)'
    BY <1>1, <2>5 DEF EndSound
  <2>. QED BY <2>5, <2>6, <2>7, NothingGivenOut
<1>5. CASE plan.strategy # "interval"
  <2>1. decoder' = [decoder EXCEPT !.at = "emit", !.unit = u, !.pts = u.pts]
    BY <1>1, <1>5 DEF Sampled, DecoderRecord
  <2>. HIDE DEF u, q
  <2>2. decoder' \in DecoderRecord /\ decoder'.at = "emit" /\ decoder'.reason = decoder.reason
        /\ decoder'.units = decoder.units /\ decoder'.next = decoder.next /\ decoder'.pts = u.pts /\ decoder'.unit = u
    <3>1. u \in UnitOrEnd /\ u.pts \in Nat
      BY <1>3 DEF SampledUnit, UnitOrEnd
    <3>. QED BY <1>1, <2>1, <3>1 DEF DecoderRecord
  <2>3. SamplesOrdered(decoder)'
    <3>1. Follows(decoder, decoder.unit)'
      <4>1. u.at >= plan.start \/ plan.seek
        BY <1>3 , <1>1 DEF BeforeWindow
      <4>2. plan.end > 0 => u.at <= plan.end
        BY <1>3, <1>1 DEF PastWindow
      <4>3. u.pts <= u.pts
        BY <1>3 DEF SampledUnit
      <4>. QED BY <1>2, <1>3, <1>5, <2>2, <4>1, <4>2, <4>3 DEF Follows
    <3>2. \A i \in DOMAIN decoder.units : decoder.units[i].pts <= u.pts
      <4>1. ASSUME NEW i \in DOMAIN decoder.units PROVE decoder.units[i].pts <= u.pts
        <5>1. decoder.units[i] \in SampledUnit
          BY <1>1, <4>1
        <5>. QED BY <1>3, <4>1, <5>1 DEF SampledUnit
      <4>. QED BY <4>1
    <3>. QED BY <1>1, <1>2, <1>5, <2>2, <3>1, <3>2 DEF SamplesOrdered
  <2>4. EndSound(decoder)'
    BY <1>1, <2>2 DEF EndSound
  <2>. QED BY <2>2, <2>3, <2>4, NothingGivenOut
<1>. QED BY <1>4, <1>5

LEMMA SampleKeeps ==
    ASSUME MediaInv, SampleFrame, UNCHANGED <<plan, closes, operator, executor>>
    PROVE  MediaInv'
<1>1. decoder \in DecoderRecord /\ decoder.at = "frame" /\ UNCHANGED <<control, queue>>
      /\ SamplesOrdered(decoder) /\ EndSound(decoder)
  BY DEF MediaInv, MediaTypes, SampleFrame
<1>2. CASE /\ ~BeforeWindow(decoder) /\ ~PastWindow(decoder) /\ ~PastSegment(decoder)
           /\ TRUE \in Selected(decoder) /\ decoder' = Sampled(decoder)
  <2>1. plan.strategy = "interval" => decoder.wall >= decoder.next
    BY <1>2 DEF Selected
  <2>. QED BY <1>1, <1>2, <2>1, UnitFollows
<1>3. CASE \/ decoder' = [decoder EXCEPT !.at = "read"]
           \/ decoder' = [decoder EXCEPT !.at = "ended", !.reason = "sample_window_completed"]
           \/ PastSegment(decoder) /\ decoder' = [decoder EXCEPT !.at = "ended", !.reason = "segment_window_completed"]
  <2>1. decoder' \in DecoderRecord /\ decoder'.at \in {"read", "ended"} /\ decoder'.wall = decoder.wall
        /\ decoder'.units = decoder.units /\ decoder'.next = decoder.next /\ decoder'.pts = decoder.pts
    <3>1. "sample_window_completed" \in Reasons /\ "segment_window_completed" \in Reasons
      BY DEF Reasons
    <3>2. CASE decoder' = [decoder EXCEPT !.at = "read"]
      BY <1>1, <3>2 DEF DecoderRecord
    <3>3. CASE \E r \in Reasons : decoder' = [decoder EXCEPT !.at = "ended", !.reason = r]
      BY <1>1, <3>3 DEF DecoderRecord
    <3>. QED BY <1>3, <3>1, <3>2, <3>3
  <2>2. SamplesOrdered(decoder)'
    BY <1>1, <2>1, NothingSampled
  <2>3. EndSound(decoder)'
    <3>1. \/ decoder'.reason = decoder.reason /\ decoder'.at = "read"
          \/ decoder'.reason = "sample_window_completed" /\ decoder'.at = "ended"
          \/ decoder'.reason = "segment_window_completed" /\ decoder'.at = "ended" /\ decoder.wall >= plan.segment
      BY <1>1, <1>3 DEF PastSegment, DecoderRecord
    <3>2. plan' = plan
      OBVIOUS
    <3>. QED BY <1>1, <2>1, <3>1, <3>2 DEF EndSound
  <2>. QED BY <1>1, <2>1, <2>2, <2>3, NothingGivenOut
<1>4. PICK selected \in Selected(decoder) :
         decoder' =
             CASE BeforeWindow(decoder) -> [decoder EXCEPT !.at = "read"]
               [] ~BeforeWindow(decoder) /\ PastWindow(decoder) ->
                     [decoder EXCEPT !.at = "ended", !.reason = "sample_window_completed"]
               [] ~BeforeWindow(decoder) /\ ~PastWindow(decoder) /\ PastSegment(decoder) ->
                     [decoder EXCEPT !.at = "ended", !.reason = "segment_window_completed"]
               [] OTHER -> IF selected THEN Sampled(decoder) ELSE [decoder EXCEPT !.at = "read"]
  BY DEF SampleFrame
<1>5. selected = TRUE \/ selected = FALSE
  <2>1. plan.strategy \in {"interval", "uniform", "scene_change", "keyframe"}
    BY MediaAssumption DEF MediaInv, MediaTypes
  <2>2. (decoder.wall >= decoder.next) \in BOOLEAN
    OBVIOUS
  <2>3. Selected(decoder) \subseteq BOOLEAN
    BY <2>1, <2>2 DEF Selected
  <2>. QED BY <2>3
<1>6. \/ decoder' = [decoder EXCEPT !.at = "read"]
      \/ decoder' = [decoder EXCEPT !.at = "ended", !.reason = "sample_window_completed"]
      \/ PastSegment(decoder) /\ decoder' = [decoder EXCEPT !.at = "ended", !.reason = "segment_window_completed"]
      \/ /\ ~BeforeWindow(decoder) /\ ~PastWindow(decoder) /\ ~PastSegment(decoder)
         /\ TRUE \in Selected(decoder) /\ decoder' = Sampled(decoder)
  BY <1>4, <1>5, Zenon
<1>. QED BY <1>2, <1>3, <1>6

LEMMA CancelledKeeps ==
    ASSUME MediaInv, DecodingCancelled \/ NoFrameTypes, UNCHANGED <<plan, closes, operator, executor>>
    PROVE  MediaInv'
  BY BrokenDecoder DEF DecodingCancelled, NoFrameTypes
------------------------------------------------------------------------------
\* The steps of the queue.
LEMMA AppendTaken ==
    ASSUME NEW s \in Seq(UnitOrEnd), NEW t \in Seq(UnitOrEnd), NEW e \in UnitOrEnd
    PROVE  s \o Append(t, e) = Append(s \o t, e)
  OBVIOUS

LEMMA TakeHead ==
    ASSUME NEW s \in Seq(UnitOrEnd), NEW t \in Seq(UnitOrEnd), t # <<>>
    PROVE  Append(s, Head(t)) \o Tail(t) = s \o t
<1>1. Head(t) \in UnitOrEnd /\ Tail(t) \in Seq(UnitOrEnd) /\ t = <<Head(t)>> \o Tail(t)
  OBVIOUS
<1>2. Append(s, Head(t)) = s \o <<Head(t)>> /\ <<Head(t)>> \in Seq(UnitOrEnd)
  BY <1>1
<1>3. PICK h, r : h = <<Head(t)>> /\ r = Tail(t) /\ h \in Seq(UnitOrEnd) /\ r \in Seq(UnitOrEnd)
  BY <1>1, <1>2
<1>4. (s \o h) \o r = s \o (h \o r)
  BY <1>3, ConcatAssociative
<1>. QED BY <1>1, <1>2, <1>3, <1>4, Zenon

LEMMA UnitsSlots ==
    ASSUME MediaTypes, NEW u \in SampledUnit
    PROVE  u.pts \in Nat /\ u.at \in Nat /\ Slot(u.at) \in Int
<1>1. plan.interval \in Nat \ {0} /\ plan.start \in Nat
  BY MediaAssumption DEF MediaTypes, ValidPlan
<1>2. u.at - plan.start \in Int /\ u.pts \in Nat /\ u.at \in Nat
  BY <1>1 DEF SampledUnit
<1>. QED BY <1>1, <1>2, SignedQuotient, Zenon DEF Slot

LEMMA EmitKeeps ==
    ASSUME MediaInv, _emit, UNCHANGED <<plan, closes, operator, executor>>
    PROVE  MediaInv'
<1>1. /\ decoder \in DecoderRecord /\ SamplesOrdered(decoder) /\ EndSound(decoder) /\ decoder.at = "emit"
      /\ MediaTypes /\ UNCHANGED control /\ queue \in Seq(UnitOrEnd)
      /\ decoder.units \in Seq(SampledUnit) /\ decoder.pts \in Nat
  BY DEF MediaInv, MediaTypes, _emit, DecoderRecord
<1>2. CASE queue' = queue /\ decoder' = Broken(decoder)
  BY <1>1, <1>2, BrokenDecoder
<1>3. CASE /\ queue' = Append(queue, decoder.unit)
           /\ decoder' = [decoder EXCEPT !.at = "read", !.units = Append(@, decoder.unit)]
  <2>. DEFINE u == decoder.unit
  <2>1. Follows(decoder, u) /\ u \in SampledUnit
    BY <1>1 DEF SamplesOrdered, Follows
  <2>2. decoder' \in DecoderRecord /\ decoder'.at = "read" /\ decoder'.reason = decoder.reason
        /\ decoder'.units = Append(decoder.units, u) /\ decoder'.next = decoder.next /\ decoder'.pts = decoder.pts
    <3>1. Append(decoder.units, u) \in Seq(SampledUnit)
      BY <1>1, <2>1
    <3>. QED BY <1>1, <1>3, <3>1 DEF DecoderRecord
  <2>3. SamplesOrdered(decoder)'
    <3>. DEFINE n == Len(decoder.units)
    <3>1. n \in Nat /\ DOMAIN decoder'.units = 1 .. n + 1 /\ DOMAIN decoder.units = 1 .. n
          /\ decoder'.units[n + 1] = u /\ \A i \in 1 .. n : decoder'.units[i] = decoder.units[i]
      BY <1>1, <2>1, <2>2
    <3>2. \A i \in 1 .. n + 1 : i \in 1 .. n \/ i = n + 1
      BY <3>1
    <3>3. \A i \in 1 .. n : decoder.units[i] \in SampledUnit
      BY <1>1, <3>1
    <3>4. ASSUME NEW i \in 1 .. n + 1, NEW j \in 1 .. n + 1, i < j
          PROVE  /\ decoder'.units[i].pts < decoder'.units[j].pts
                 /\ plan.strategy = "interval" => Slot(decoder'.units[i].at) < Slot(decoder'.units[j].at)
      <4>1. CASE j \in 1 .. n
        <5>1. i \in 1 .. n
          BY <3>1, <3>4, <4>1
        <5>. QED BY <1>1, <3>1, <3>4, <4>1, <5>1 DEF SamplesOrdered
      <4>2. CASE j = n + 1
        <5>1. i \in 1 .. n
          BY <3>1, <3>4, <4>2
        <5>. QED BY <2>1, <3>1, <4>2, <5>1 DEF Follows
      <4>. QED BY <3>2, <4>1, <4>2
    <3>5. PICK m \in Nat : decoder.next = plan.start + plan.interval * m
                            /\ (plan.strategy = "interval" => Slot(u.at) < m)
      BY <2>1 DEF Follows
    <3>6. ASSUME NEW i \in 1 .. n + 1
          PROVE  /\ decoder'.units[i].pts <= decoder.pts
                 /\ decoder'.units[i].at >= plan.start \/ plan.seek
                 /\ plan.end > 0 => decoder'.units[i].at <= plan.end
                 /\ plan.strategy = "interval" => Slot(decoder'.units[i].at) < m
      <4>1. CASE i \in 1 .. n
        <5>1. Slot(decoder.units[i].at) \in Int /\ Slot(u.at) \in Int
          BY <1>1, <2>1, <3>3, <4>1, UnitsSlots
        <5>2. plan.strategy = "interval" => Slot(decoder.units[i].at) < Slot(u.at)
          BY <2>1, <3>1, <4>1 DEF Follows
        <5>3. plan.strategy = "interval" => Slot(decoder.units[i].at) < m
          BY <3>5, <5>1, <5>2
        <5>. QED BY <1>1, <3>1, <4>1, <5>3 DEF SamplesOrdered
      <4>2. CASE i = n + 1
        BY <2>1, <3>1, <3>5, <4>2 DEF Follows
      <4>. QED BY <3>2, <4>1, <4>2
    <3>. HIDE DEF n, u
    <3>7. \E mm \in Nat : /\ decoder'.next = plan.start + plan.interval * mm
                          /\ plan.strategy = "interval" => \A i \in DOMAIN decoder'.units : Slot(decoder'.units[i].at) < mm
      BY <2>2, <3>1, <3>5, <3>6
    <3>8. plan' = plan /\ decoder'.at # "emit"
      BY <2>2
    <3>. QED BY <2>2, <3>1, <3>4, <3>6, <3>7, <3>8, Zenon DEF SamplesOrdered, Slot
  <2>4. EndSound(decoder)'
    BY <1>1, <2>2 DEF EndSound
  <2>5. queue' \in Seq(UnitOrEnd)
    BY <1>1, <1>3, <2>1 DEF UnitOrEnd
  <2>6. MediaTypes'
    BY <1>1, <2>2, <2>5 DEF MediaTypes, ValidPlan
  <2>7. (Undisturbed => AllThere)'
    <3>1. SUFFICES ASSUME Undisturbed PROVE AllThere'
      BY <1>1 DEF Undisturbed
    <3>2. ~operator.last /\ operator.taken \o queue = decoder.units
      BY <1>1, <3>1 DEF MediaInv, AllThere
    <3>3. operator.taken \in Seq(UnitOrEnd)
      BY <1>1 DEF MediaTypes, OperatorRecord
    <3>4. operator.taken \o Append(queue, u) = Append(operator.taken \o queue, u)
      BY <1>1, <2>1, <3>3, AppendTaken DEF UnitOrEnd
    <3>. QED BY <1>3, <2>2, <3>2, <3>4 DEF AllThere
  <2>8. OperatorSound'
    BY <1>1, <2>2 DEF MediaInv, OperatorSound, DecoderOver
  <2>9. ExecutorSound'
    BY <1>1, <2>2 DEF MediaInv, ExecutorSound
  <2>. QED BY <2>3, <2>4, <2>6, <2>7, <2>8, <2>9 DEF MediaInv
<1>. QED BY <1>2, <1>3 DEF _emit

LEMMA ProduceKeeps ==
    ASSUME MediaInv, _produce, UNCHANGED <<plan, closes, operator, executor>>
    PROVE  MediaInv'
<1>1. /\ decoder \in DecoderRecord /\ SamplesOrdered(decoder) /\ EndSound(decoder) /\ decoder.at = "finish"
      /\ MediaTypes /\ UNCHANGED control /\ queue \in Seq(UnitOrEnd)
  BY DEF MediaInv, MediaTypes, _produce
<1>2. CASE Len(queue) = QueueSize /\ control.cancelled /\ queue' = Tail(queue) /\ decoder' = decoder
  <2>1. queue' \in Seq(UnitOrEnd)
    BY <1>1, <1>2, MediaAssumption
  <2>2. MediaTypes'
    BY <1>1, <1>2, <2>1 DEF MediaTypes, ValidPlan
  <2>3. SamplesOrdered(decoder)'
    BY <1>1, <1>2, NothingSampled
  <2>4. EndSound(decoder)'
    BY <1>1, <1>2 DEF EndSound
  <2>5. (Undisturbed => AllThere)'
    BY <1>1, <1>2 DEF Undisturbed
  <2>6. OperatorSound' /\ ExecutorSound'
    BY <1>1, <1>2 DEF MediaInv, OperatorSound, ExecutorSound, DecoderOver
  <2>. QED BY <2>2, <2>3, <2>4, <2>5, <2>6 DEF MediaInv
<1>3. CASE /\ queue' = Append(queue, End)
           /\ decoder' = [decoder EXCEPT !.at = IF decoder.reason = "raised" THEN "raised" ELSE "returned"]
  <2>1. /\ decoder' \in DecoderRecord /\ decoder'.at \in {"raised", "returned"}
        /\ decoder'.at = "raised" <=> decoder.reason = "raised"
        /\ decoder'.reason = decoder.reason /\ decoder'.wall = decoder.wall
        /\ decoder'.units = decoder.units /\ decoder'.next = decoder.next /\ decoder'.pts = decoder.pts
    BY <1>1, <1>3 DEF DecoderRecord
  <2>2. queue' \in Seq(UnitOrEnd)
    BY <1>1, <1>3 DEF UnitOrEnd
  <2>3. MediaTypes'
    BY <1>1, <2>1, <2>2 DEF MediaTypes, ValidPlan
  <2>4. SamplesOrdered(decoder)'
    BY <1>1, <2>1, NothingSampled
  <2>5. EndSound(decoder)'
    BY <1>1, <2>1 DEF EndSound
  <2>6. (Undisturbed => AllThere)'
    <3>1. SUFFICES ASSUME Undisturbed PROVE AllThere'
      BY <1>1 DEF Undisturbed
    <3>2. ~operator.last /\ operator.taken \o queue = decoder.units
      BY <1>1, <3>1 DEF MediaInv, AllThere
    <3>3. operator.taken \in Seq(UnitOrEnd) /\ End \in UnitOrEnd
      BY <1>1 DEF MediaTypes, OperatorRecord, UnitOrEnd
    <3>4. operator.taken \o Append(queue, End) = Append(operator.taken \o queue, End)
      BY <1>1, <3>3, AppendTaken
    <3>. QED BY <1>3, <2>1, <3>2, <3>4 DEF AllThere
  <2>7. OperatorSound'
    BY <1>1, <2>1 DEF MediaInv, OperatorSound, DecoderOver
  <2>8. ExecutorSound'
    BY <1>1, <2>1 DEF MediaInv, ExecutorSound
  <2>. QED BY <2>3, <2>4, <2>5, <2>6, <2>7, <2>8 DEF MediaInv
<1>. QED BY <1>2, <1>3 DEF _produce
------------------------------------------------------------------------------
\* Steps of the operator leave the decoder alone; most leave the queue alone too.
LEMMA SamplesStand ==
    ASSUME MediaInv, UNCHANGED <<plan, decoder>>
    PROVE  SamplesOrdered(decoder)' /\ EndSound(decoder)'
<1>1. EndSound(decoder)'
  BY DEF MediaInv, EndSound
<1>2. SamplesOrdered(decoder)'
  <2>1. Follows(decoder, decoder.unit)' <=> Follows(decoder, decoder.unit)
    BY DEF Follows, Slot
  <2>. QED BY <2>1 DEF MediaInv, SamplesOrdered, Slot
<1>. QED BY <1>1, <1>2

\* The operator's own steps, after what it does at the queue.
LEMMA OperatorMoves ==
    ASSUME MediaInv, UNCHANGED <<plan, closes, decoder, executor>>,
           operator' \in OperatorRecord, queue' \in Seq(UnitOrEnd), control' \in [paused : BOOLEAN, cancelled : BOOLEAN],
           operator.at \notin {"none", "returned"},
           \/ control' = control
           \/ control' = cancel(control) /\ operator'.at = "closing",
           \/ operator'.at \in {"close", "closing", "raised"}
           \/ operator.at \notin {"close", "closing", "raised"} /\ (~control.cancelled => AllThere'),
           operator.at = "closing" => operator'.at \in {"closing", "raised"},
           operator.at = "raised" => operator'.at = "raised",
           OperatorSound'
    PROVE  MediaInv'
<1>1. control.cancelled \in BOOLEAN /\ control'.cancelled \in BOOLEAN
      /\ (control'.cancelled => control.cancelled \/ operator'.at = "closing")
      /\ (control.cancelled => control'.cancelled)
  BY DEF cancel, MediaInv, MediaTypes
<1>2. MediaTypes'
  BY DEF MediaInv, MediaTypes, ValidPlan
<1>3. SamplesOrdered(decoder)' /\ EndSound(decoder)'
  BY SamplesStand
<1>4. (Undisturbed => AllThere)'
  BY <1>1 DEF Undisturbed
<1>5. ExecutorSound'
  <2>1. executor.error # "none" \/ ~control.cancelled \/ operator.at \in {"closing", "raised"}
    BY DEF MediaInv, ExecutorSound
  <2>2. control'.cancelled => executor.error # "none" \/ operator'.at \in {"closing", "raised"}
    BY <1>1, <2>1 DEF MediaInv, ExecutorSound
  <2>. QED BY <1>1, <2>2 DEF MediaInv, ExecutorSound
<1>. QED BY <1>2, <1>3, <1>4, <1>5 DEF MediaInv

LEMMA PreludeKeeps ==
    ASSUME MediaInv, Prelude \/ Refuse, UNCHANGED <<plan, closes, executor>>
    PROVE  MediaInv'
<1>1. /\ operator \in OperatorRecord /\ operator.at = "prelude" /\ UNCHANGED <<control, decoder, queue>>
      /\ queue \in Seq(UnitOrEnd) /\ control \in [paused : BOOLEAN, cancelled : BOOLEAN] /\ OperatorSound
  BY DEF MediaInv, MediaTypes, Prelude, Refuse
<1>2. PICK a \in {"get", "close", "raised"} :
         operator' = [operator EXCEPT !.at = a] /\ (a = "raised" => ~closes)
  BY <1>1 DEF Prelude, Refuse, MediaInv, MediaTypes
<1>3. /\ operator' \in OperatorRecord /\ operator'.at = a /\ operator'.taken = operator.taken
      /\ operator'.last = operator.last /\ operator'.orphan = operator.orphan
  BY <1>1, <1>2 DEF OperatorRecord
<1>4. OperatorSound'
  BY <1>1, <1>2, <1>3 DEF OperatorSound
<1>5. ~control.cancelled => AllThere'
  BY <1>1, <1>3 DEF MediaInv, Undisturbed, AllThere
<1>. QED BY <1>1, <1>3, <1>4, <1>5, OperatorMoves

\* The end mark comes after every unit.
LEMMA EndIsLast ==
    ASSUME NEW units \in Seq(SampledUnit), NEW taken \in Seq(UnitOrEnd), NEW items \in Seq(UnitOrEnd), items # <<>>,
           Head(items) = End, NEW over \in BOOLEAN,
           taken \o items = IF over THEN Append(units, End) ELSE units
    PROVE  over /\ Tail(items) = <<>> /\ taken = units
<1>. DEFINE n == Len(units)
            m == Len(taken)
            k == Len(items)
            all == taken \o items
<1>1. n \in Nat /\ m \in Nat /\ k \in Nat \ {0} /\ items[1] = End /\ End \in UnitOrEnd
  BY DEF UnitOrEnd
<1>2. \A i \in 1 .. n : units[i] # End
  <2>1. \A i \in 1 .. n : units[i] \in SampledUnit
    OBVIOUS
  <2>2. End \notin SampledUnit
    BY DEF End, SampledUnit
  <2>. QED BY <2>1, <2>2
<1>3. Len(all) = m + k /\ all[m + 1] = End /\ \A i \in 1 .. m : all[i] = taken[i]
  <2>1. Len(all) = m + k /\ \A i \in 1 .. m + k : all[i] = IF i <= m THEN taken[i] ELSE items[i - m]
    BY ConcatProperties
  <2>2. m + 1 \in 1 .. m + k /\ ~(m + 1 <= m) /\ (m + 1) - m = 1 /\ \A i \in 1 .. m : i \in 1 .. m + k /\ i <= m
    BY <1>1
  <2>. QED BY <1>1, <2>1, <2>2
<1>4. over
  <2>1. ~over => m + k = n /\ units[m + 1] = End
    BY <1>3
  <2>. QED BY <1>1, <1>2, <2>1
<1>5. Len(all) = n + 1 /\ \A i \in 1 .. n : all[i] = units[i]
  <2>1. all = Append(units, End)
    BY <1>4
  <2>. QED BY <1>1, <2>1
<1>6. m = n /\ k = 1
  <2>1. m + 1 \notin 1 .. n
    BY <1>2, <1>3, <1>5
  <2>2. m + k = n + 1 /\ n \in Nat /\ m \in Nat /\ k \in Nat \ {0}
    BY <1>1, <1>3, <1>5
  <2>. HIDE DEF n, m, k
  <2>. QED BY <2>1, <2>2
<1>7. Tail(items) = <<>>
  <2>1. Tail(items) \in Seq(UnitOrEnd) /\ Len(Tail(items)) = 0
    BY <1>1, <1>6
  <2>. QED BY <2>1, EmptySeq
<1>8. taken = units
  <2>1. units \in Seq(UnitOrEnd)
    BY DEF UnitOrEnd
  <2>2. \A i \in 1 .. Len(taken) : taken[i] = units[i]
    BY <1>3, <1>5, <1>6
  <2>. QED BY <1>6, <2>1, <2>2, SeqEqual
<1>. QED BY <1>4, <1>7, <1>8

LEMMA BatchesKeeps ==
    ASSUME MediaInv, batches, UNCHANGED <<plan, closes, executor>>
    PROVE  MediaInv'
<1>1. /\ operator \in OperatorRecord /\ operator.at = "get" /\ UNCHANGED <<control, decoder>>
      /\ queue \in Seq(UnitOrEnd) /\ queue # <<>> /\ queue' = Tail(queue)
      /\ control \in [paused : BOOLEAN, cancelled : BOOLEAN] /\ OperatorSound
      /\ decoder.units \in Seq(SampledUnit)
  BY DEF MediaInv, MediaTypes, batches, DecoderRecord
<1>2. ~operator.last /\ operator.taken \in Seq(UnitOrEnd) /\ operator.batch \in Nat
  BY <1>1 DEF OperatorSound, OperatorRecord
<1>3. Head(queue) \in UnitOrEnd /\ Tail(queue) \in Seq(UnitOrEnd)
  BY <1>1, HeadTailProperties
<1>4. ASSUME ~control.cancelled
      PROVE  operator.taken \o queue =
               IF decoder.at \in {"returned", "raised"} THEN Append(decoder.units, End) ELSE decoder.units
  BY <1>1, <1>2, <1>4 DEF MediaInv, Undisturbed, AllThere
<1>5. CASE Head(queue) = End
  <2>1. PICK a \in {"infer", "result"} : operator' = [operator EXCEPT !.at = a, !.last = TRUE]
    BY <1>5 DEF batches
  <2>2. /\ operator' \in OperatorRecord /\ operator'.at = a /\ operator'.taken = operator.taken
        /\ operator'.last /\ operator'.orphan = operator.orphan
    BY <1>1, <2>1 DEF OperatorRecord
  <2>3. ~control.cancelled => AllThere'
    <3>1. SUFFICES ASSUME ~control.cancelled PROVE AllThere'
      OBVIOUS
    <3>2. decoder.at \in {"returned", "raised"} /\ Tail(queue) = <<>> /\ operator.taken = decoder.units
      <4>. DEFINE over == decoder.at \in {"returned", "raised"}
      <4>1. over \in BOOLEAN /\ operator.taken \o queue = IF over THEN Append(decoder.units, End) ELSE decoder.units
        <5>1. over \in BOOLEAN
          OBVIOUS
        <5>2. operator.taken \o queue = IF over THEN Append(decoder.units, End) ELSE decoder.units
          BY <1>4, <3>1, Zenon
        <5>. QED BY <5>1, <5>2
      <4>. HIDE DEF over
      <4>2. over /\ Tail(queue) = <<>> /\ operator.taken = decoder.units
        BY <1>1, <1>2, <1>5, <4>1, EndIsLast
      <4>. QED BY <4>2 DEF over
    <3>. QED BY <1>1, <2>2, <3>2 DEF AllThere
  <2>4. OperatorSound'
    BY <1>1, <2>2 DEF OperatorSound
  <2>. QED BY <1>1, <1>3, <2>2, <2>3, <2>4, OperatorMoves
<1>6. CASE Head(queue) # End
  <2>1. PICK a \in {"infer", "get"} :
           operator' = [operator EXCEPT !.taken = Append(@, Head(queue)), !.batch = @ + 1, !.at = a]
    BY <1>6 DEF batches
  <2>2. /\ operator' \in OperatorRecord /\ operator'.at = a /\ operator'.taken = Append(operator.taken, Head(queue))
        /\ operator'.last = operator.last /\ operator'.orphan = operator.orphan
    <3>1. Append(operator.taken, Head(queue)) \in Seq(UnitOrEnd) /\ operator.batch + 1 \in Nat
      BY <1>2, <1>3
    <3>. QED BY <1>1, <2>1, <3>1 DEF OperatorRecord
  <2>3. ~control.cancelled => AllThere'
    <3>1. Append(operator.taken, Head(queue)) \o Tail(queue) = operator.taken \o queue
      BY <1>1, <1>2, TakeHead
    <3>. QED BY <1>1, <1>2, <1>4, <2>2, <3>1 DEF AllThere
  <2>4. OperatorSound'
    BY <1>1, <2>2 DEF OperatorSound
  <2>. QED BY <1>1, <1>3, <2>2, <2>3, <2>4, OperatorMoves
<1>. QED BY <1>5, <1>6

LEMMA InferKeeps ==
    ASSUME MediaInv, Infer \/ TakeResult \/ CloseMedia \/ Closed, UNCHANGED <<plan, closes, executor>>
    PROVE  MediaInv'
<1>1. /\ operator \in OperatorRecord /\ UNCHANGED <<decoder, queue>> /\ queue \in Seq(UnitOrEnd)
      /\ control \in [paused : BOOLEAN, cancelled : BOOLEAN] /\ OperatorSound
      /\ decoder.at \in {"none", "returned", "raised"} => DecoderOver
  BY DEF MediaInv, MediaTypes, Infer, TakeResult, CloseMedia, Closed, DecoderOver
<1>2. ~control.cancelled /\ operator.at \notin {"close", "closing", "raised"} => AllThere
  BY DEF MediaInv, Undisturbed
<1>3. CASE Infer
  <2>1. PICK a \in {"close", "result", "get"} :
           operator' = [operator EXCEPT !.batch = 0, !.at = a]
           /\ (a = "result" => operator.last) /\ (a = "get" => ~operator.last)
    BY <1>3 DEF Infer
  <2>2. /\ operator' \in OperatorRecord /\ operator'.at = a /\ operator'.taken = operator.taken
        /\ operator'.last = operator.last /\ operator'.orphan = operator.orphan
    BY <1>1, <2>1 DEF OperatorRecord
  <2>3. ~control.cancelled => AllThere'
    BY <1>1, <1>2, <1>3, <2>2 DEF AllThere, Infer
  <2>4. OperatorSound'
    BY <1>1, <1>3, <2>1, <2>2 DEF OperatorSound, Infer
  <2>. QED BY <1>1, <1>3, <2>2, <2>3, <2>4, OperatorMoves DEF Infer
<1>4. CASE TakeResult
  <2>1. PICK a \in {"close", "returned"} :
           operator' = [operator EXCEPT !.at = a] /\ (a = "returned" => decoder.at # "raised")
    BY <1>4 DEF TakeResult
  <2>2. /\ operator' \in OperatorRecord /\ operator'.at = a /\ operator'.taken = operator.taken
        /\ operator'.last = operator.last /\ operator'.orphan = operator.orphan
    BY <1>1, <2>1 DEF OperatorRecord
  <2>3. ~control.cancelled => AllThere'
    BY <1>1, <1>2, <1>4, <2>2 DEF AllThere, TakeResult
  <2>4. OperatorSound'
    BY <1>1, <1>4, <2>1, <2>2 DEF OperatorSound, TakeResult, DecoderOver
  <2>. QED BY <1>1, <1>4, <2>2, <2>3, <2>4, OperatorMoves DEF TakeResult
<1>5. CASE Closed \/ CloseMedia
  <2>1. \/ operator' = [operator EXCEPT !.at = "raised"] /\ DecoderOver /\ control' = control
        \/ operator' = [operator EXCEPT !.at = "closing"] /\ control' = cancel(control)
    BY <1>5 DEF Closed, CloseMedia
  <2>2. operator.at \in {"close", "closing"} /\ (operator.at = "closing" => control' = control)
    BY <1>5 DEF Closed, CloseMedia
  <2>3. /\ operator' \in OperatorRecord /\ operator'.at \in {"raised", "closing"} /\ operator'.taken = operator.taken
        /\ operator'.last = operator.last /\ operator'.orphan = operator.orphan
        /\ operator'.at = "raised" => DecoderOver /\ control' = control
        /\ (control' = cancel(control) /\ operator'.at = "closing") \/ control' = control
    BY <1>1, <2>1 DEF OperatorRecord
  <2>4. OperatorSound'
    BY <1>1, <2>2, <2>3 DEF OperatorSound, DecoderOver
  <2>5. control' \in [paused : BOOLEAN, cancelled : BOOLEAN]
    BY <1>1, <2>3 DEF cancel
  <2>. QED BY <1>1, <2>2, <2>3, <2>4, <2>5, OperatorMoves
<1>. QED BY <1>1, <1>3, <1>4, <1>5

LEMMA OrphanKeeps ==
    ASSUME MediaInv, OrphanGets, UNCHANGED <<plan, closes, executor>>
    PROVE  MediaInv'
<1>1. /\ operator \in OperatorRecord /\ UNCHANGED <<decoder, control>> /\ queue \in Seq(UnitOrEnd)
      /\ control \in [paused : BOOLEAN, cancelled : BOOLEAN] /\ OperatorSound
      /\ operator.at \in {"close", "closing", "raised"} /\ queue # <<>> /\ queue' = Tail(queue)
      /\ operator' = [operator EXCEPT !.orphan = FALSE]
  BY DEF MediaInv, MediaTypes, OrphanGets, OperatorSound
<1>2. /\ operator' \in OperatorRecord /\ operator'.at = operator.at /\ operator'.taken = operator.taken
      /\ operator'.last = operator.last /\ ~operator'.orphan
  BY <1>1 DEF OperatorRecord
<1>3. queue' \in Seq(UnitOrEnd)
  BY <1>1, HeadTailProperties
<1>4. OperatorSound'
  BY <1>1, <1>2 DEF OperatorSound, DecoderOver
<1>. QED BY <1>1, <1>2, <1>3, <1>4, OperatorMoves
------------------------------------------------------------------------------
\* The executor leaves the queue alone, and what it does to the signal is final when
\* it cancels.
Signals == {control, pause(control), resume(control), cancel(control)}

LEMMA SignalsLast ==
    ASSUME MediaTypes, control' \in Signals
    PROVE  /\ control' \in [paused : BOOLEAN, cancelled : BOOLEAN]
           /\ control.cancelled => control'.cancelled
           /\ control' # cancel(control) => (control'.cancelled <=> control.cancelled)
           /\ control' = cancel(control) => control'.cancelled
<1>1. control \in [paused : BOOLEAN, cancelled : BOOLEAN]
  BY DEF MediaTypes
<1>2. CASE control' = control
  BY <1>1, <1>2 DEF cancel
<1>3. CASE control' = pause(control)
  BY <1>1, <1>3 DEF pause, cancel
<1>4. CASE control' = resume(control)
  BY <1>1, <1>4 DEF resume, cancel
<1>5. CASE control' = cancel(control)
  BY <1>1, <1>5 DEF cancel
<1>. QED BY <1>2, <1>3, <1>4, <1>5 DEF Signals

LEMMA ExecutorMoves ==
    ASSUME MediaInv, UNCHANGED <<plan, closes, decoder, queue, operator>>, control' \in Signals,
           executor' \in ExecutorRecord, ExecutorSound'
    PROVE  MediaInv'
<1>1. /\ control' \in [paused : BOOLEAN, cancelled : BOOLEAN]
      /\ control.cancelled => control'.cancelled
  BY SignalsLast DEF MediaInv
<1>2. MediaTypes'
  BY <1>1 DEF MediaInv, MediaTypes, ValidPlan
<1>3. SamplesOrdered(decoder)' /\ EndSound(decoder)'
  BY SamplesStand
<1>4. (Undisturbed => AllThere)'
  BY <1>1 DEF MediaInv, Undisturbed, AllThere
<1>5. OperatorSound'
  BY <1>1 DEF MediaInv, OperatorSound, DecoderOver
<1>. QED BY <1>2, <1>3, <1>4, <1>5 DEF MediaInv

LEMMA CheckpointSignals ==
    ASSUME NEW outcome \in Outcomes, _checkpoint(outcome)
    PROVE  /\ control' \in Signals
           /\ outcome \in {"go", "hold"} => control' \in {pause(control), resume(control)}
           /\ outcome = "stopped" => control' = cancel(control)
           /\ outcome = "conflict" => control' \in {pause(control), cancel(control)}
  BY DEF _checkpoint, Outcomes, Signals

LEMMA StartDecoder ==
    ASSUME MediaInv, UNCHANGED <<plan, closes, operator, queue>>, control' = resume(control),
           executor.at = "node", executor.node = 1,
           executor' = [executor EXCEPT !.node = 2], decoder' = Decoder
    PROVE  MediaInv'
<1>1. /\ executor \in ExecutorRecord /\ control \in [paused : BOOLEAN, cancelled : BOOLEAN]
      /\ plan.start \in Nat /\ plan.interval \in Nat /\ operator.at = "none" /\ operator.taken = <<>>
      /\ ~operator.last /\ queue = <<>> /\ executor.error = "none" /\ operator \in OperatorRecord
      /\ ~control.cancelled /\ ~operator.orphan
  BY MediaAssumption DEF MediaInv, MediaTypes, ExecutorSound, OperatorSound, OperatorRecord
<1>2. control' \in [paused : BOOLEAN, cancelled : BOOLEAN] /\ ~control'.cancelled
  BY <1>1 DEF resume
<1>3. executor' \in ExecutorRecord /\ executor'.node = 2 /\ executor'.at = "node" /\ executor'.error = "none"
  BY <1>1 DEF ExecutorRecord
<1>4. /\ decoder' \in DecoderRecord /\ decoder'.at = "open" /\ decoder'.units = <<>> /\ decoder'.next = plan.start
      /\ decoder'.reason = "source_ended"
  <2>1. End \in UnitOrEnd /\ "source_ended" \in Reasons /\ <<>> \in Seq(SampledUnit) /\ 0 \in Nat
    BY DEF UnitOrEnd, Reasons
  <2>. QED BY <1>1, <2>1 DEF Decoder, DecoderRecord
<1>5. MediaTypes'
  BY <1>2, <1>3, <1>4 DEF MediaInv, MediaTypes, ValidPlan
<1>6. SamplesOrdered(decoder)'
  <2>1. plan.start = plan.start + plan.interval * 0
    BY <1>1
  <2>. QED BY <1>4, <2>1 DEF SamplesOrdered
<1>7. EndSound(decoder)'
  BY <1>4 DEF EndSound
<1>8. AllThere'
  BY <1>1, <1>4 DEF AllThere
<1>9. OperatorSound'
  BY <1>1, <1>4 DEF OperatorSound
<1>10. ExecutorSound'
  BY <1>1, <1>2, <1>3, <1>4 DEF ExecutorSound
<1>. QED BY <1>5, <1>6, <1>7, <1>8, <1>9, <1>10 DEF MediaInv

LEMMA StartOperator ==
    ASSUME MediaInv, UNCHANGED <<plan, closes, decoder, queue>>, control' = resume(control),
           executor.at = "node", executor.node = 2,
           executor' = [executor EXCEPT !.at = "wait"], operator' = [operator EXCEPT !.at = "prelude"]
    PROVE  MediaInv'
<1>1. /\ executor \in ExecutorRecord /\ control \in [paused : BOOLEAN, cancelled : BOOLEAN]
      /\ operator.at = "none" /\ operator.taken = <<>> /\ decoder.at # "none"
      /\ ~operator.last /\ executor.error = "none" /\ operator \in OperatorRecord
      /\ ~control.cancelled /\ ~operator.orphan
  BY DEF MediaInv, MediaTypes, ExecutorSound, OperatorSound, OperatorRecord
<1>2. control' \in [paused : BOOLEAN, cancelled : BOOLEAN] /\ ~control'.cancelled
  BY <1>1 DEF resume
<1>3. executor' \in ExecutorRecord /\ executor'.at = "wait" /\ executor'.error = "none"
  BY <1>1 DEF ExecutorRecord
<1>4. /\ operator' \in OperatorRecord /\ operator'.at = "prelude" /\ operator'.taken = operator.taken
      /\ operator'.last = operator.last /\ operator'.orphan = operator.orphan
  BY <1>1 DEF OperatorRecord
<1>5. MediaTypes'
  BY <1>2, <1>3, <1>4 DEF MediaInv, MediaTypes, ValidPlan
<1>6. SamplesOrdered(decoder)' /\ EndSound(decoder)'
  BY SamplesStand
<1>7. AllThere'
  BY <1>1, <1>4 DEF MediaInv, Undisturbed, AllThere
<1>8. OperatorSound'
  BY <1>1, <1>4 DEF OperatorSound
<1>9. ExecutorSound'
  BY <1>1, <1>2, <1>3, <1>4 DEF ExecutorSound
<1>. QED BY <1>5, <1>6, <1>7, <1>8, <1>9 DEF MediaInv

LEMMA StartNodeKeeps ==
    ASSUME MediaInv, StartNode, UNCHANGED <<plan, closes>>
    PROVE  MediaInv'
<1>1. executor.at = "node" /\ executor \in ExecutorRecord /\ executor.error = "none" /\ UNCHANGED queue
      /\ operator.at = "none" /\ MediaTypes /\ ExecutorSound
  BY DEF MediaInv, MediaTypes, StartNode, ExecutorSound
<1>2. PICK outcome \in Outcomes :
          /\ _checkpoint(outcome)
          /\ CASE outcome = "go" /\ executor.node = 1 -> DecodeMedia /\ UNCHANGED operator
               [] outcome = "go" /\ executor.node = 2 ->
                     /\ executor' = [executor EXCEPT !.at = "wait"]
                     /\ operator' = [operator EXCEPT !.at = "prelude"] /\ UNCHANGED decoder
               [] outcome = "hold" -> UNCHANGED <<executor, decoder, operator>>
               [] OTHER -> Over(outcome) /\ UNCHANGED <<decoder, operator>>
  BY DEF StartNode
<1>3. /\ control' \in Signals
      /\ outcome \in {"go", "hold"} => control' \in {pause(control), resume(control)}
      /\ outcome = "stopped" => control' = cancel(control)
      /\ outcome = "conflict" => control' \in {pause(control), cancel(control)}
      /\ outcome = "go" => control' = resume(control)
  BY <1>2, CheckpointSignals DEF _checkpoint
<1>4. /\ control' \in [paused : BOOLEAN, cancelled : BOOLEAN]
      /\ control.cancelled => control'.cancelled
      /\ outcome = "stopped" => control'.cancelled
      /\ outcome \in {"go", "hold"} => (control'.cancelled <=> control.cancelled)
  <2>1. ASSUME control' \in {pause(control), resume(control)} PROVE control'.cancelled <=> control.cancelled
    BY <1>1, <2>1 DEF pause, resume, MediaTypes
  <2>. QED BY <1>1, <1>3, <2>1, SignalsLast
<1>5. ~control.cancelled
  BY <1>1 DEF ExecutorSound
<1>6. CASE outcome = "go" /\ executor.node = 1
  <2>1. CASE executor' = [executor EXCEPT !.node = 2] /\ decoder' = Decoder /\ UNCHANGED operator
    BY <1>1, <1>3, <1>6, <2>1, StartDecoder
  <2>2. CASE Over("operator") /\ UNCHANGED <<decoder, operator>>
    <3>1. executor' \in ExecutorRecord /\ executor'.at = "over" /\ executor'.error = "operator"
      BY <1>1, <2>2 DEF Over, ExecutorRecord
    <3>2. decoder.at = "none"
      BY <1>1, <1>6 DEF ExecutorSound
    <3>3. ExecutorSound'
      BY <1>1, <2>2, <3>1, <3>2 DEF ExecutorSound
    <3>. QED BY <1>1, <1>3, <2>2, <3>1, <3>3, ExecutorMoves
  <2>. QED BY <1>2, <1>6, <2>1, <2>2 DEF DecodeMedia
<1>7. CASE outcome = "go" /\ executor.node = 2
  BY <1>1, <1>2, <1>3, <1>7, StartOperator
<1>8. CASE outcome = "hold"
  <2>1. UNCHANGED <<executor, decoder, operator>>
    BY <1>2, <1>8
  <2>2. ExecutorSound'
    BY <1>1, <1>4, <1>5, <1>8, <2>1 DEF ExecutorSound
  <2>. QED BY <1>1, <1>3, <2>1, <2>2, ExecutorMoves
<1>9. CASE outcome \in {"stopped", "conflict"}
  <2>1. Over(outcome) /\ UNCHANGED <<decoder, operator>>
    BY <1>2, <1>9
  <2>2. executor' \in ExecutorRecord /\ executor'.at = "over" /\ executor'.error = outcome
    BY <1>1, <2>1 DEF Over, ExecutorRecord
  <2>3. ExecutorSound'
    BY <1>1, <1>4, <1>9, <2>1, <2>2 DEF ExecutorSound
  <2>. QED BY <1>1, <1>3, <2>1, <2>2, <2>3, ExecutorMoves
<1>10. executor.node \in {1, 2}
  BY <1>1 DEF ExecutorRecord
<1>. QED BY <1>6, <1>7, <1>8, <1>9, <1>10 DEF Outcomes

LEMMA LookKeeps ==
    ASSUME MediaInv, LookAtRun, UNCHANGED <<plan, closes>>
    PROVE  MediaInv'
<1>1. executor.at = "checkpoint" /\ executor \in ExecutorRecord /\ executor.error = "none"
      /\ UNCHANGED <<decoder, queue, operator>> /\ MediaTypes /\ ExecutorSound
  BY DEF MediaInv, MediaTypes, LookAtRun, ExecutorSound
<1>2. PICK outcome \in Outcomes :
          /\ _checkpoint(outcome)
          /\ executor' = CASE outcome = "go" -> [executor EXCEPT !.at = "wait"]
                           [] outcome = "hold" -> executor
                           [] OTHER -> [executor EXCEPT !.at = "stop", !.error = outcome]
  BY DEF LookAtRun
<1>3. /\ control' \in Signals
      /\ outcome \in {"go", "hold"} => control' \in {pause(control), resume(control)}
  BY <1>2, CheckpointSignals
<1>4. outcome \in {"go", "hold"} => (control'.cancelled <=> control.cancelled)
  BY <1>1, <1>3 DEF pause, resume, MediaTypes
<1>5. CASE outcome \in {"go", "hold"}
  <2>1. executor' \in ExecutorRecord /\ executor'.at \in {"checkpoint", "wait"} /\ executor'.error = "none"
        /\ executor'.node = executor.node
    BY <1>1, <1>2, <1>5 DEF ExecutorRecord
  <2>2. ExecutorSound'
    BY <1>1, <1>4, <1>5, <2>1 DEF ExecutorSound
  <2>. QED BY <1>1, <1>3, <2>1, <2>2, ExecutorMoves
<1>6. CASE outcome \in {"stopped", "conflict"}
  <2>1. executor' = [executor EXCEPT !.at = "stop", !.error = outcome]
    BY <1>2, <1>6
  <2>2. executor' \in ExecutorRecord /\ executor'.at = "stop" /\ executor'.error = outcome
    BY <1>1, <2>1 DEF ExecutorRecord
  <2>3. ExecutorSound'
    BY <1>1, <1>6, <2>2 DEF ExecutorSound
  <2>. QED BY <1>1, <1>3, <2>2, <2>3, ExecutorMoves
<1>. QED BY <1>5, <1>6 DEF Outcomes

LEMMA TickKeeps ==
    ASSUME MediaInv, OperatorEnds \/ Tick \/ stop_operator \/ Stopped, UNCHANGED <<plan, closes>>
    PROVE  MediaInv'
<1>1. executor \in ExecutorRecord /\ UNCHANGED <<decoder, queue, operator>> /\ MediaTypes /\ ExecutorSound
      /\ operator.at \in {"none", "prelude", "get", "infer", "result", "close", "closing", "returned", "raised"}
  BY DEF MediaInv, MediaTypes, OperatorEnds, Tick, stop_operator, Stopped, OperatorRecord
<1>2. control' \in Signals /\ (~stop_operator => control' = control)
  BY DEF OperatorEnds, Tick, stop_operator, Stopped, Signals
<1>3. CASE OperatorEnds
  <2>1. PICK error \in {"none", "operator"} :
           executor' = [executor EXCEPT !.at = "over", !.error = error] /\ (error = "none" <=> operator.at = "returned")
    BY <1>3 DEF OperatorEnds, Over
  <2>2. executor' \in ExecutorRecord /\ executor'.at = "over" /\ executor'.error = error
    BY <1>1, <2>1 DEF ExecutorRecord
  <2>3. executor.at = "wait" /\ operator.at \in {"returned", "raised"} /\ control' = control
    BY <1>3 DEF OperatorEnds, OperatorOver
  <2>4. ExecutorSound'
    BY <1>1, <2>1, <2>2, <2>3 DEF ExecutorSound
  <2>. QED BY <1>1, <1>2, <2>2, <2>4, ExecutorMoves
<1>4. CASE Tick
  <2>1. PICK n \in Nat, a \in {"stop", "checkpoint"} :
           executor' = [executor EXCEPT !.ran = n, !.at = a, !.error = IF a = "stop" THEN "timeout" ELSE @]
    <3>. DEFINE ran == executor.ran + (IF control.paused THEN 0 ELSE 1)
    <3>1. ran \in Nat
      BY <1>1 DEF ExecutorRecord
    <3>2. executor' = [executor EXCEPT !.ran = ran,
                          !.at = IF ran >= Timeout THEN "stop" ELSE "checkpoint",
                          !.error = IF ran >= Timeout THEN "timeout" ELSE @]
      BY <1>4 DEF Tick
    <3>. HIDE DEF ran
    <3>3. CASE ran >= Timeout
      BY <3>1, <3>2, <3>3
    <3>4. CASE ~(ran >= Timeout)
      BY <3>1, <3>2, <3>4
    <3>. QED BY <3>3, <3>4
  <2>2. executor' \in ExecutorRecord /\ executor'.at = a
        /\ executor'.error = IF a = "stop" THEN "timeout" ELSE executor.error
    BY <1>1, <2>1 DEF ExecutorRecord
  <2>3. executor.at = "wait" /\ control' = control
    BY <1>4 DEF Tick
  <2>4. ExecutorSound'
    BY <1>1, <2>2, <2>3 DEF ExecutorSound
  <2>. QED BY <1>1, <1>2, <2>2, <2>4, ExecutorMoves
<1>5. CASE stop_operator
  <2>1. executor.at = "stop" /\ control' = cancel(control) /\ executor' = [executor EXCEPT !.at = "grace"]
    BY <1>5 DEF stop_operator
  <2>2. executor' \in ExecutorRecord /\ executor'.at = "grace" /\ executor'.error = executor.error
    BY <1>1, <2>1 DEF ExecutorRecord
  <2>3. control'.cancelled
    BY <1>1, <1>2, <2>1, SignalsLast
  <2>4. ExecutorSound'
    BY <1>1, <2>1, <2>2, <2>3 DEF ExecutorSound
  <2>. QED BY <1>1, <1>2, <2>2, <2>4, ExecutorMoves
<1>6. CASE Stopped
  <2>1. executor.at \in {"grace", "await"} /\ control' = control /\ operator.at \in {"returned", "raised"}
        /\ executor' = [executor EXCEPT !.at = "over", !.error = executor.error]
    BY <1>6 DEF Stopped, OperatorOver, Over
  <2>2. executor' \in ExecutorRecord /\ executor'.at = "over" /\ executor'.error = executor.error
    BY <1>1, <2>1 DEF ExecutorRecord
  <2>3. ExecutorSound'
    BY <1>1, <2>1, <2>2 DEF ExecutorSound
  <2>. QED BY <1>1, <1>2, <2>2, <2>3, ExecutorMoves
<1>. QED BY <1>3, <1>4, <1>5, <1>6

LEMMA CancelTaskKeeps ==
    ASSUME MediaInv, CancelTask, UNCHANGED <<plan, closes>>
    PROVE  MediaInv'
<1>1. /\ executor \in ExecutorRecord /\ operator \in OperatorRecord /\ executor.at = "grace"
      /\ UNCHANGED <<control, decoder, queue>> /\ control.cancelled /\ executor.error # "none"
      /\ executor' = [executor EXCEPT !.at = "await"]
      /\ OperatorSound /\ ExecutorSound
  BY DEF MediaInv, MediaTypes, CancelTask, ExecutorSound
<1>2. PICK orphan \in BOOLEAN, a \in {"close", "raised", operator.at} :
         /\ operator' = [operator EXCEPT !.orphan = orphan, !.at = a]
         /\ a \notin {"close", "raised"} => ~orphan /\ a = operator.at
         /\ operator.at \in {"raised", "returned", "none"} => a = operator.at /\ ~orphan
  <2>1. PICK orphan \in BOOLEAN :
          /\ orphan => operator.at = "get"
          /\ operator' = [operator EXCEPT !.orphan = orphan,
                             !.at = CASE @ \in {"get", "infer"} -> "close"
                                      [] @ = "prelude" -> IF closes THEN "close" ELSE "raised"
                                      [] @ \in {"result", "closing"} -> "raised"
                                      [] OTHER -> @]
    BY DEF CancelTask
  <2>. QED BY <2>1
<1>3. executor' \in ExecutorRecord /\ executor'.at = "await" /\ executor'.error = executor.error
  BY <1>1 DEF ExecutorRecord
<1>4. /\ operator' \in OperatorRecord /\ operator'.at = a /\ operator'.taken = operator.taken
      /\ operator'.last = operator.last /\ operator'.orphan = orphan
  BY <1>1, <1>2 DEF OperatorRecord
<1>5. MediaTypes'
  BY <1>1, <1>3, <1>4 DEF MediaInv, MediaTypes, ValidPlan
<1>6. SamplesOrdered(decoder)' /\ EndSound(decoder)'
  BY <1>1, SamplesStand
<1>7. (Undisturbed => AllThere)'
  BY <1>1 DEF Undisturbed
<1>8. OperatorSound'
  BY <1>1, <1>2, <1>4 DEF OperatorSound
<1>9. ExecutorSound'
  BY <1>1, <1>2, <1>3, <1>4 DEF ExecutorSound
<1>. QED BY <1>5, <1>6, <1>7, <1>8, <1>9 DEF MediaInv
------------------------------------------------------------------------------
LEMMA MediaInitially == ASSUME MediaInit PROVE MediaInv
<1>1. /\ plan \in Plans /\ ValidPlan(plan) /\ queue = <<>> /\ operator = NoOperator
      /\ control = [paused |-> FALSE, cancelled |-> FALSE] /\ decoder = [Decoder EXCEPT !.at = "none"]
      /\ executor = Executor /\ plan.start \in Nat /\ plan.interval \in Nat
  BY MediaAssumption DEF MediaInit
<1>2. /\ decoder \in DecoderRecord /\ decoder.at = "none" /\ decoder.units = <<>> /\ decoder.next = plan.start
      /\ decoder.reason = "source_ended"
  <2>1. End \in UnitOrEnd /\ "source_ended" \in Reasons /\ <<>> \in Seq(SampledUnit) /\ 0 \in Nat
    BY DEF UnitOrEnd, Reasons
  <2>. QED BY <1>1, <2>1 DEF Decoder, DecoderRecord
<1>3. operator \in OperatorRecord /\ executor \in ExecutorRecord /\ control \in [paused : BOOLEAN, cancelled : BOOLEAN]
  BY <1>1 DEF NoOperator, Executor, OperatorRecord, ExecutorRecord
<1>4. MediaTypes
  BY <1>1, <1>2, <1>3 DEF MediaTypes
<1>5. SamplesOrdered(decoder)
  <2>1. plan.start = plan.start + plan.interval * 0
    BY <1>1
  <2>. QED BY <1>2, <2>1 DEF SamplesOrdered
<1>6. EndSound(decoder)
  BY <1>2 DEF EndSound
<1>7. AllThere
  BY <1>1, <1>2 DEF AllThere, NoOperator
<1>8. OperatorSound
  BY <1>1, <1>2 DEF OperatorSound, NoOperator
<1>9. ExecutorSound
  BY <1>1, <1>2 DEF ExecutorSound, Executor, NoOperator
<1>. QED BY <1>4, <1>5, <1>6, <1>7, <1>8, <1>9 DEF MediaInv

LEMMA MediaKept == ASSUME MediaInv, [MediaNext]_mediaVars PROVE MediaInv'
<1>1. CASE DecoderNext /\ UNCHANGED <<plan, closes>>
  BY <1>1, OpenKeeps, ReadKeeps, FailsKeeps, CancelledKeeps, SampleKeeps, EmitKeeps, EndKeeps, ProduceKeeps, Zenon
     DEF DecoderNext
<1>2. CASE OperatorNext /\ UNCHANGED <<plan, closes>>
  BY <1>2, PreludeKeeps, BatchesKeeps, InferKeeps, OrphanKeeps, Zenon DEF OperatorNext
<1>3. CASE ExecutorNext /\ UNCHANGED <<plan, closes>>
  BY <1>3, StartNodeKeeps, LookKeeps, TickKeeps, CancelTaskKeeps, Zenon DEF ExecutorNext
<1>4. CASE UNCHANGED <<plan, closes, control, decoder, queue, operator, executor>>
  <2>1. MediaTypes' /\ (Undisturbed => AllThere)' /\ OperatorSound' /\ ExecutorSound'
    <3>1. MediaTypes'
      BY <1>4 DEF MediaInv, MediaTypes, ValidPlan
    <3>2. (Undisturbed => AllThere)'
      BY <1>4 DEF MediaInv, Undisturbed, AllThere
    <3>3. OperatorSound' /\ ExecutorSound'
      BY <1>4 DEF MediaInv, OperatorSound, ExecutorSound, DecoderOver
    <3>. QED BY <3>1, <3>2, <3>3
  <2>. QED BY <1>4, <2>1, SamplesStand DEF MediaInv
<1>. QED BY <1>1, <1>2, <1>3, <1>4 DEF MediaNext, mediaVars, Asks

LEMMA MediaInvExact == ASSUME MediaInv PROVE MediaExact
<1>1. ASSUME executor.at = "over", executor.error = "none"
      PROVE  /\ operator.taken = decoder.units
             /\ decoder.at = "returned" /\ decoder.units # <<>>
             /\ decoder.reason = "segment_window_completed" => decoder.wall >= plan.segment
  <2>1. operator.at = "returned" /\ ~control.cancelled
    BY <1>1 DEF MediaInv, ExecutorSound
  <2>2. operator.last /\ decoder.at = "returned" /\ operator.taken = decoder.units
    BY <2>1 DEF MediaInv, OperatorSound, Undisturbed, AllThere
  <2>. QED BY <2>2 DEF MediaInv, EndSound
<1>2. \A i, j \in DOMAIN decoder.units : i < j =>
          LET a == decoder.units[i]
              b == decoder.units[j]
          IN /\ a.pts < b.pts
             /\ plan.strategy = "interval" =>
                   (a.at - plan.start) \div plan.interval < (b.at - plan.start) \div plan.interval
  BY Zenon DEF MediaInv, SamplesOrdered, Slot
<1>3. \A i \in DOMAIN decoder.units :
          /\ decoder.units[i].at >= plan.start \/ plan.seek
          /\ plan.end > 0 => decoder.units[i].at <= plan.end
  BY DEF MediaInv, SamplesOrdered
<1>4. ASSUME executor.at = "over", ~DecoderOver, ~control.cancelled
      PROVE  \/ operator.at = "none" /\ executor.error = "conflict"
             \/ operator.at = "raised" /\ operator.taken = <<>> /\ ~closes
  BY <1>4 DEF MediaInv, OperatorSound, ExecutorSound, DecoderOver
<1>. QED BY <1>1, <1>2, <1>3, <1>4 DEF MediaExact

\* MediaExact
THEOREM MediaIsExact == MediaSpec => []MediaExact
<1>1. MediaInit => MediaInv
  BY MediaInitially
<1>2. MediaInv /\ [MediaNext]_mediaVars => MediaInv'
  BY MediaKept
<1>3. MediaInv => MediaExact
  BY MediaInvExact
<1>. QED BY <1>1, <1>2, <1>3, PTL DEF MediaSpec

------------------------------------------------------------------------------
(* The batches of the inference scheduler.  A batch is the end of a recursion   *)
(* over the turns the scopes take, so its first lemmas lift what one turn keeps *)
(* to the last one; the invariant then counts, for an urgent request that was   *)
(* passed over, the scopes whose turn may still come before its own.            *)

LEMMA FirstNatural ==
    ASSUME NEW T, T \subseteq Nat, T # {}
    PROVE  \E m \in T : \A n \in T : m <= n
<1>1. PICK R : R = OpToRel(<, Nat)
  OBVIOUS
<1>2. IsWellFoundedOn(R, Nat)
  BY <1>1, NatLessThanWellFounded
<1>3. PICK m \in T : \A n \in T : <<n, m>> \notin R
  BY <1>2, WFMin
<1>4. \A n \in T : ~(n < m)
  BY <1>1, <1>3 DEF OpToRel
<1>. QED BY <1>3, <1>4

\* What holds at 0 and is handed on holds up to any number.
LEMMA UpTo ==
    ASSUME NEW N \in Nat, NEW T, 0 \in T, \A n \in 1..N : n - 1 \in T => n \in T
    PROVE  \A n \in 0..N : n \in T
<1>1. PICK Bad : Bad = {n \in 0..N : n \notin T}
  OBVIOUS
<1>2. SUFFICES ASSUME Bad # {} PROVE FALSE
  BY <1>1
<1>3. Bad \subseteq Nat
  BY <1>1
<1>4. PICK m \in Bad : \A n \in Bad : m <= n
  BY <1>2, <1>3, FirstNatural
<1>5. m \in 0..N /\ m # 0
  BY <1>1, <1>4
<1>6. m \in 1..N /\ m - 1 \in 0..N /\ ~(m <= m - 1)
  BY <1>5
<1>7. m - 1 \in T
  BY <1>1, <1>4, <1>6
<1>. QED BY <1>1, <1>4, <1>6, <1>7

\* A function defined by recursion over its index exists.
Chains(S, first, step, N) == {g \in [0..N -> S] : g[0] = first /\ \A i \in 1..N : g[i] = step[i][g[i - 1]]}

LEMMA RecursionExists ==
    ASSUME NEW S, NEW first \in S, NEW step \in [Nat -> [S -> S]], NEW N \in Nat
    PROVE  \E g : g \in Chains(S, first, step, N)
<1>1. PICK T : T = {m \in Nat : \E g \in [0..m -> S] :
                          g[0] = first /\ \A i \in 1..m : g[i] = step[i][g[i - 1]]}
  OBVIOUS
<1>2. 0 \in T
  <2>. DEFINE g == [i \in 0..0 |-> first]
  <2>1. g \in [0..0 -> S] /\ g[0] = first /\ \A i \in 1..0 : g[i] = step[i][g[i - 1]]
    OBVIOUS
  <2>. QED BY <1>1, <2>1
<1>3. ASSUME NEW m \in 1..N, m - 1 \in T PROVE m \in T
  <2>1. m \in Nat /\ m - 1 \in Nat /\ m # 0 /\ m - 1 # m /\ m - 1 \in 0..(m - 1) /\ 0 \in 0..m /\ m \in 0..m
    OBVIOUS
  <2>2. PICK g \in [0..(m - 1) -> S] : g[0] = first /\ \A i \in 1..(m - 1) : g[i] = step[i][g[i - 1]]
    BY <1>1, <1>3
  <2>. DEFINE h == [i \in 0..m |-> IF i = m THEN step[m][g[m - 1]] ELSE g[i]]
  <2>3. step[m][g[m - 1]] \in S
    BY <2>1, <2>2
  <2>4. h \in [0..m -> S]
    <3>1. \A i \in 0..m : i # m => i \in 0..(m - 1)
      BY <2>1
    <3>. QED BY <2>3, <3>1
  <2>5. h[0] = first
    BY <2>1, <2>2
  <2>6. ASSUME NEW i \in 1..m PROVE h[i] = step[i][h[i - 1]]
    <3>1. CASE i = m
      BY <2>1, <3>1
    <3>2. CASE i # m
      <4>1. i \in 1..(m - 1) /\ i \in 0..m /\ i - 1 # m /\ i - 1 \in 0..m
        BY <2>1, <3>2
      <4>2. h[i] = g[i] /\ h[i - 1] = g[i - 1]
        BY <3>2, <4>1
      <4>3. g[i] = step[i][g[i - 1]]
        BY <2>2, <4>1, Zenon
      <4>. QED BY <4>2, <4>3
    <3>. QED BY <3>1, <3>2
  <2>. HIDE DEF h
  <2>. QED BY <1>1, <2>1, <2>4, <2>5, <2>6
<1>4. \A k \in 0..N : k \in T
  BY <1>2, <1>3, UpTo
<1>5. PICK g \in [0..N -> S] : g[0] = first /\ \A i \in 1..N : g[i] = step[i][g[i - 1]]
  BY <1>1, <1>4
<1>. QED BY <1>5 DEF Chains

------------------------------------------------------------------------------
\* The rows of requests.
RowSet(r) == {Row(r, i) : i \in 1..Inferences[r].size}

LEMMA RowsOfOne ==
    ASSUME NEW r \in Requests
    PROVE  IsFiniteSet(RowSet(r)) /\ Cardinality(RowSet(r)) = Inferences[r].size
<1>1. PICK n \in Nat \ {0} : n = Inferences[r].size
  BY BatchAssumption DEF Requests
<1>. DEFINE f == [i \in 1..n |-> Row(r, i)]
<1>2. f \in Bijection(1..n, RowSet(r))
  <2>1. f \in [1..n -> RowSet(r)]
    BY <1>1 DEF RowSet
  <2>2. \A i, j \in 1..n : f[i] = f[j] => i = j
    BY DEF Row
  <2>3. \A x \in RowSet(r) : \E i \in 1..n : f[i] = x
    BY <1>1 DEF RowSet
  <2>. HIDE DEF f
  <2>. QED BY <2>1, <2>2, <2>3 DEF Bijection, Injection, IsInjective, Surjection
<1>3. ExistsBijection(1..n, RowSet(r))
  BY <1>2 DEF ExistsBijection
<1>4. IsFiniteSet(1..n) /\ Cardinality(1..n) = n
  <2>1. n \in Int /\ 1 \in Int /\ ~(1 > n) /\ n - 1 + 1 = n
    OBVIOUS
  <2>. QED BY <2>1, FS_Interval
<1>. QED BY <1>1, <1>3, <1>4, FS_Bijection

LEMMA RequestsFinite ==
    /\ IsFiniteSet(Requests) /\ IsFiniteSet(Scopes)
    /\ \A items \in SUBSET Requests : IsFiniteSet(items) /\ Cardinality(items) \in Nat
<1>1. IsFiniteSet(Requests)
  BY BatchAssumption DEF Requests
<1>2. IsFiniteSet(Scopes)
  <2>. DEFINE f == [r \in Requests |-> Inferences[r].scope]
  <2>1. f \in Surjection(Requests, Scopes)
    BY DEF Surjection, Scopes
  <2>. QED BY <1>1, <2>1, FS_Surjection
<1>. QED BY <1>1, <1>2, FS_Subset, FS_CardinalityType

LEMMA TotalIs ==
    /\ TotalOf({}) = 0
    /\ \A items \in SUBSET Requests :
          /\ TotalOf(items) \in Nat
          /\ \A r \in Requests \ items : TotalOf(items \cup {r}) = TotalOf(items) + Inferences[r].size
          /\ \A r \in items : TotalOf(items) >= Inferences[r].size
<1>. DEFINE R(items) == UNION {RowSet(r) : r \in items}
<1>1. \A items : TotalOf(items) = Cardinality(R(items))
  BY DEF TotalOf, RowSet
<1>2. TotalOf({}) = 0
  <2>1. R({}) = {}
    OBVIOUS
  <2>. QED BY <1>1, <2>1, FS_EmptySet
<1>3. ASSUME NEW items \in SUBSET Requests PROVE IsFiniteSet(R(items)) /\ TotalOf(items) \in Nat
  <2>. DEFINE f == [r \in items |-> RowSet(r)]
              Sets == {RowSet(r) : r \in items}
  <2>1. f \in Surjection(items, Sets)
    BY DEF Surjection
  <2>2. IsFiniteSet(Sets)
    <3>. HIDE DEF f, Sets
    <3>. QED BY <2>1, RequestsFinite, FS_Surjection
  <2>3. \A T \in Sets : IsFiniteSet(T)
    BY RowsOfOne
  <2>4. IsFiniteSet(UNION Sets)
    <3>. HIDE DEF Sets
    <3>. QED BY <2>2, <2>3, FS_UNION
  <2>. QED BY <1>1, <2>4, FS_CardinalityType
<1>4. ASSUME NEW items \in SUBSET Requests, NEW r \in Requests \ items
      PROVE  TotalOf(items \cup {r}) = TotalOf(items) + Inferences[r].size
  <2>1. R(items \cup {r}) = R(items) \cup RowSet(r)
    OBVIOUS
  <2>2. R(items) \cap RowSet(r) = {}
    BY DEF RowSet, Row
  <2>3. IsFiniteSet(R(items)) /\ IsFiniteSet(RowSet(r)) /\ Cardinality(RowSet(r)) = Inferences[r].size
    BY <1>3, RowsOfOne
  <2>4. Cardinality(R(items) \cup RowSet(r)) = Cardinality(R(items)) + Cardinality(RowSet(r)) - Cardinality({})
    <3>. HIDE DEF R
    <3>. QED BY <2>2, <2>3, FS_Union
  <2>5. Cardinality(R(items)) \in Nat /\ Inferences[r].size \in Nat
    BY <2>3, FS_CardinalityType
  <2>. QED BY <1>1, <2>1, <2>3, <2>4, <2>5, FS_EmptySet
<1>5. ASSUME NEW items \in SUBSET Requests, NEW r \in items PROVE TotalOf(items) >= Inferences[r].size
  <2>1. (items \ {r}) \cup {r} = items /\ items \ {r} \in SUBSET Requests /\ r \in Requests \ (items \ {r})
    OBVIOUS
  <2>2. TotalOf(items) = TotalOf(items \ {r}) + Inferences[r].size
    BY <1>4, <2>1
  <2>3. TotalOf(items \ {r}) \in Nat /\ Inferences[r].size \in Nat
    BY <1>3, <2>1, BatchAssumption DEF Requests
  <2>. QED BY <2>2, <2>3
<1>. QED BY <1>2, <1>3, <1>4, <1>5

Rows == [of : Requests, row : Nat]

LEMMA ArrayIs ==
    ASSUME NEW r \in Requests
    PROVE  /\ input_array(r) \in Seq(Rows) /\ Len(input_array(r)) = Inferences[r].size
           /\ Inferences[r].size \in Nat \ {0}
           /\ \A k \in 1..Inferences[r].size : input_array(r)[k] = Row(r, k)
<1>1. Inferences[r].size \in Nat \ {0}
  BY BatchAssumption DEF Requests
<1>2. \A k \in 1..Inferences[r].size : Row(r, k) \in Rows
  BY <1>1 DEF Row, Rows
<1>. QED BY <1>1, <1>2 DEF input_array

LEMMA ConcatIs ==
    ASSUME NEW items \in Seq(Requests)
    PROVE  \E g \in [0..Len(items) -> Seq(Rows)] :
              /\ g[0] = <<>> /\ concatenate(items) = g[Len(items)]
              /\ \A n \in 1..Len(items) : g[n] = g[n - 1] \o input_array(items[n])
<1>0. PICK N \in Nat : N = Len(items)
  OBVIOUS
<1>. DEFINE add == [n \in Nat |-> [s \in Seq(Rows) |->
                        s \o IF n \in 1..N THEN input_array(items[n]) ELSE <<>>]]
<1>1. add \in [Nat -> [Seq(Rows) -> Seq(Rows)]]
  <2>1. ASSUME NEW n \in Nat, NEW s \in Seq(Rows)
        PROVE  s \o (IF n \in 1..N THEN input_array(items[n]) ELSE <<>>) \in Seq(Rows)
    <3>1. CASE n \in 1..N
      <4>1. items[n] \in Requests
        BY <1>0, <3>1
      <4>. QED BY <3>1, <4>1, ArrayIs, ConcatProperties
    <3>. QED BY <3>1, ConcatEmptySeq
  <2>. QED BY <2>1
<1>2. <<>> \in Seq(Rows)
  OBVIOUS
<1>3. PICK g \in [0..N -> Seq(Rows)] : g[0] = <<>> /\ \A i \in 1..N : g[i] = add[i][g[i - 1]]
  <2>. HIDE DEF add
  <2>1. PICK g : g \in Chains(Seq(Rows), <<>>, add, N)
    BY <1>0, <1>1, <1>2, RecursionExists
  <2>. QED BY <2>1, Zenon DEF Chains
<1>4. ASSUME NEW i \in 0..N PROVE g[i] = IF i = 0 THEN <<>> ELSE g[i - 1] \o input_array(items[i])
  <2>1. i # 0 => i \in 1..N /\ i \in Nat /\ i - 1 \in 0..N
    OBVIOUS
  <2>2. i # 0 => g[i - 1] \in Seq(Rows)
    BY <1>3, <2>1
  <2>3. i # 0 => add[i][g[i - 1]] = g[i - 1] \o input_array(items[i])
    BY <2>1, <2>2
  <2>4. i # 0 => g[i] = add[i][g[i - 1]]
    <3>. HIDE DEF add
    <3>. QED BY <1>3, <2>1, Zenon
  <2>5. i = 0 => g[i] = <<>>
    BY <1>3
  <2>. HIDE DEF add
  <2>. QED BY <2>3, <2>4, <2>5
<1>. DEFINE h == CHOOSE h : h = [n \in 0..Len(items) |-> IF n = 0 THEN <<>> ELSE h[n - 1] \o input_array(items[n])]
<1>5. g = [n \in 0..Len(items) |-> IF n = 0 THEN <<>> ELSE g[n - 1] \o input_array(items[n])]
  <2>. HIDE DEF add
  <2>. QED BY <1>0, <1>3, <1>4
<1>6. h = [n \in 0..Len(items) |-> IF n = 0 THEN <<>> ELSE h[n - 1] \o input_array(items[n])]
  <2>. HIDE DEF add
  <2>. QED BY <1>5, Zenon
<1>7. concatenate(items) = h[Len(items)]
  BY DEF concatenate
<1>8. \A i \in 0..N : h[i] = IF i = 0 THEN <<>> ELSE h[i - 1] \o input_array(items[i])
  <2>. HIDE DEF h, add
  <2>. QED BY <1>0, <1>6
<1>9. \A i \in 0..N : h[i] \in Seq(Rows)
  <2>1. PICK T : T = {i \in 0..N : h[i] \in Seq(Rows)}
    OBVIOUS
  <2>2. 0 \in T
    <3>1. 0 \in 0..N /\ h[0] = <<>>
      <4>1. 0 \in 0..N
        BY <1>0
      <4>. HIDE DEF h
      <4>. QED BY <1>8, <4>1
    <3>2. <<>> \in Seq(Rows)
      OBVIOUS
    <3>. HIDE DEF h
    <3>. QED BY <2>1, <3>1, <3>2, Zenon
  <2>3. ASSUME NEW k \in 1..N, k - 1 \in T PROVE k \in T
    <3>1. k \in 0..N /\ k # 0 /\ items[k] \in Requests
      BY <1>0
    <3>. HIDE DEF h
    <3>2. h[k] = IF k = 0 THEN <<>> ELSE h[k - 1] \o input_array(items[k])
      BY <1>8, <3>1, Zenon
    <3>3. h[k - 1] \in Seq(Rows)
      BY <2>1, <2>3, Zenon
    <3>4. h[k - 1] \o input_array(items[k]) \in Seq(Rows)
      BY <3>1, <3>3, ArrayIs, ConcatProperties
    <3>. QED BY <2>1, <3>1, <3>2, <3>4, Zenon
  <2>4. \A i \in 0..N : i \in T
    <3>. HIDE DEF h
    <3>. QED BY <1>0, <2>2, <2>3, UpTo
  <2>. HIDE DEF h
  <2>. QED BY <2>1, <2>4
<1>10. h \in [0..N -> Seq(Rows)]
  <2>. HIDE DEF h
  <2>. QED BY <1>0, <1>6, <1>9
<1>11. h[0] = <<>> /\ \A n \in 1..N : h[n] = h[n - 1] \o input_array(items[n])
  <2>1. 0 \in 0..N /\ \A n \in 1..N : n \in 0..N /\ n # 0
    BY <1>0
  <2>. HIDE DEF h
  <2>. QED BY <1>8, <2>1
<1>. HIDE DEF h, add
<1>. QED BY <1>0, <1>7, <1>10, <1>11

\* The rows of one request lie in the combined array where _split_outputs looks.
LEMMA SliceIs ==
    ASSUME NEW items \in Seq(Requests), \A i, j \in DOMAIN items : items[i] = items[j] => i = j,
           NEW i \in DOMAIN items
    PROVE  Slice(concatenate(items), items, i) = input_array(items[i])
<1>. DEFINE Prefix(n) == {items[j] : j \in 1..n}
<1>0. PICK N \in Nat : N = Len(items) /\ DOMAIN items = 1..N /\ \A j \in 1..N : items[j] \in Requests
  OBVIOUS
<1>1. PICK g \in [0..N -> Seq(Rows)] :
              /\ g[0] = <<>> /\ concatenate(items) = g[N]
              /\ \A n \in 1..N : g[n] = g[n - 1] \o input_array(items[n])
  BY <1>0, ConcatIs
<1>2. \A n \in 0..N : Prefix(n) \in SUBSET Requests
  BY <1>0
<1>3. ASSUME NEW n \in 1..N
      PROVE  TotalOf(Prefix(n)) = TotalOf(Prefix(n - 1)) + Inferences[items[n]].size
  <2>1. Prefix(n) = Prefix(n - 1) \cup {items[n]}
    <3>1. 1..n = 1..(n - 1) \cup {n}
      BY <1>0
    <3>. QED BY <3>1
  <2>2. n - 1 \in 0..N /\ n \notin 1..(n - 1)
    BY <1>0
  <2>3. items[n] \in Requests \ Prefix(n - 1)
    BY <1>0, <2>2
  <2>. HIDE DEF Prefix
  <2>. QED BY <1>2, <2>1, <2>2, <2>3, TotalIs
<1>. DEFINE Off(n) == TotalOf(Prefix(n))
<1>4. Off(0) = 0
  <2>1. Prefix(0) = {}
    OBVIOUS
  <2>. QED BY <2>1, TotalIs
<1>5. \A n \in 0..N : Off(n) \in Nat
  BY <1>2, TotalIs
<1>6. PICK T : T = {n \in 0..N : /\ Len(g[n]) = Off(n)
                                /\ \A j \in 1..n : \A k \in 1..Inferences[items[j]].size :
                                      Off(j - 1) + k \in 1..Off(n) /\ g[n][Off(j - 1) + k] = Row(items[j], k)}
  OBVIOUS
<1>7. 0 \in T
  BY <1>0, <1>1, <1>4, <1>6
<1>8. ASSUME NEW n \in 1..N, n - 1 \in T PROVE n \in T
  <2>1. n - 1 \in 0..N /\ n \in 0..N
    BY <1>0
  <2>. DEFINE r == items[n]
              z == Inferences[r].size
  <2>2. r \in Requests /\ z \in Nat /\ input_array(r) \in Seq(Rows) /\ Len(input_array(r)) = z
        /\ \A k \in 1..z : input_array(r)[k] = Row(r, k)
    BY <1>0, ArrayIs
  <2>3. g[n] = g[n - 1] \o input_array(r) /\ g[n - 1] \in Seq(Rows) /\ Len(g[n - 1]) = Off(n - 1)
    <3>. HIDE DEF Off
    <3>1. g[n] = g[n - 1] \o input_array(items[n])
      BY <1>1, Zenon
    <3>2. g[n - 1] \in Seq(Rows)
      BY <2>1
    <3>3. Len(g[n - 1]) = Off(n - 1)
      BY <1>6, <1>8
    <3>. QED BY <2>1, <3>1, <3>2, <3>3, Zenon
  <2>4. Off(n) = Off(n - 1) + z /\ Off(n - 1) \in Nat
    <3>1. Off(n) = Off(n - 1) + z
      <4>. HIDE DEF Prefix
      <4>. QED BY <1>3
    <3>. HIDE DEF Off, z
    <3>. QED BY <1>5, <2>1, <3>1
  <2>. HIDE DEF Off, r, z
  <2>5. /\ Len(g[n]) = Off(n)
        /\ \A m \in 1..(Off(n - 1) + z) : g[n][m] = IF m <= Off(n - 1) THEN g[n - 1][m] ELSE input_array(r)[m - Off(n - 1)]
    <3>. HIDE DEF Off, r, z
    <3>1. PICK u, v : u = g[n - 1] /\ v = input_array(r) /\ u \in Seq(Rows) /\ v \in Seq(Rows)
      BY <2>2, <2>3
    <3>2. Len(u \o v) = Len(u) + Len(v)
          /\ \A m \in 1..(Len(u) + Len(v)) : (u \o v)[m] = IF m <= Len(u) THEN u[m] ELSE v[m - Len(u)]
      BY <3>1, ConcatProperties
    <3>3. g[n] = u \o v /\ Len(u) = Off(n - 1) /\ Len(v) = z
      BY <2>2, <2>3, <3>1
    <3>4. Len(g[n]) = Off(n)
      BY <2>4, <3>2, <3>3
    <3>5. \A m \in 1..(Off(n - 1) + z) : (u \o v)[m] = IF m <= Off(n - 1) THEN u[m] ELSE v[m - Off(n - 1)]
      BY <3>2, <3>3
    <3>. QED BY <3>1, <3>3, <3>4, <3>5
  <2>7. ASSUME NEW j \in 1..n, NEW k \in 1..Inferences[items[j]].size
        PROVE  Off(j - 1) + k \in 1..Off(n) /\ g[n][Off(j - 1) + k] = Row(items[j], k)
    <3>1. CASE j = n
      <4>1. items[j] = r /\ j - 1 = n - 1 /\ k \in 1..z
        BY <2>1, <3>1 DEF r, z
      <4>2. Off(n - 1) + k \in 1..(Off(n - 1) + z) /\ ~(Off(n - 1) + k <= Off(n - 1)) /\ Off(n - 1) + k - Off(n - 1) = k
        <5>1. k \in 1..z /\ z \in Nat /\ Off(n - 1) \in Nat
          BY <2>2, <2>4, <4>1
        <5>2. PICK off : off = Off(n - 1) /\ off \in Nat
          BY <5>1
        <5>3. PICK y, x : y = z /\ x = k /\ y \in Nat /\ x \in 1..y
          BY <5>1
        <5>4. off + x \in 1..(off + y) /\ ~(off + x <= off) /\ off + x - off = x
          BY <5>2, <5>3
        <5>. QED BY <5>2, <5>3, <5>4
      <4>3. g[n][Off(n - 1) + k] = input_array(r)[k]
        <5>1. PICK m : m = Off(n - 1) + k
          OBVIOUS
        <5>2. m \in 1..(Off(n - 1) + z) /\ ~(m <= Off(n - 1)) /\ m - Off(n - 1) = k
          <6>1. m \in 1..(Off(n - 1) + z)
            BY <4>2, <5>1, Zenon
          <6>2. ~(m <= Off(n - 1))
            BY <4>2, <5>1
          <6>3. m - Off(n - 1) = k
            <7>1. k \in 1..z /\ z \in Nat /\ Off(n - 1) \in Nat
              BY <2>2, <2>4, <4>1
            <7>. QED BY <5>1, <7>1
          <6>. QED BY <6>1, <6>2, <6>3
        <5>3. g[n][m] = IF m <= Off(n - 1) THEN g[n - 1][m] ELSE input_array(r)[m - Off(n - 1)]
          BY <2>5, <5>2, Zenon
        <5>. QED BY <5>1, <5>2, <5>3, Zenon
      <4>. QED BY <2>2, <2>4, <4>1, <4>2, <4>3
    <3>2. CASE j # n
      <4>1. j \in 1..(n - 1)
        BY <2>1, <3>2
      <4>2. Off(j - 1) + k \in 1..Off(n - 1) /\ g[n - 1][Off(j - 1) + k] = Row(items[j], k)
        BY <1>6, <1>8, <4>1
      <4>3. Off(j - 1) + k \in 1..(Off(n - 1) + z) /\ Off(j - 1) + k <= Off(n - 1)
        BY <2>2, <2>4, <4>2
      <4>4. g[n][Off(j - 1) + k] = g[n - 1][Off(j - 1) + k]
        BY <2>5, <4>3
      <4>. QED BY <2>4, <4>2, <4>3, <4>4
    <3>. QED BY <3>1, <3>2
  <2>. QED BY <1>6, <2>1, <2>5, <2>7
<1>9. N \in T
  <2>1. \A n \in 0..N : n \in T
    <3>. QED BY <1>0, <1>7, <1>8, UpTo
  <2>. QED BY <1>0, <2>1
<1>. DEFINE z == Inferences[items[i]].size
            lo == Off(i - 1)
<1>10. i \in 1..N /\ i - 1 \in 0..N /\ items[i] \in Requests /\ z \in Nat \ {0} /\ Len(input_array(items[i])) = z
       /\ input_array(items[i]) \in Seq(Rows) /\ \A k \in 1..z : input_array(items[i])[k] = Row(items[i], k)
  BY <1>0, ArrayIs
<1>11. Off(i) = lo + z /\ lo \in Nat
  <2>. HIDE DEF Prefix
  <2>. QED BY <1>3, <1>5, <1>10
<1>12. g[N] \in Seq(Rows) /\ Len(g[N]) = Off(N) /\ \A k \in 1..z : lo + k \in 1..Off(N) /\ g[N][lo + k] = Row(items[i], k)
  <2>. HIDE DEF Off
  <2>. QED BY <1>0, <1>1, <1>6, <1>9, <1>10
<1>13. Slice(g[N], items, i) = SubSeq(g[N], lo + 1, lo + z)
  BY <1>11 DEF Slice
<1>14. lo + 1 \in Int /\ lo + z \in Int /\ lo + 1 <= lo + z /\ lo + z <= Len(g[N]) /\ lo + 1 >= 1 /\ Len(g[N]) \in Nat
  <2>. HIDE DEF Off, z
  <2>1. z \in Nat /\ z >= 1 /\ z \in 1..z
    BY <1>10
  <2>2. lo + z \in 1..Len(g[N])
    BY <1>12, <2>1
  <2>3. lo \in Nat /\ Len(g[N]) \in Nat
    BY <1>11, <1>12
  <2>. HIDE DEF lo
  <2>. QED BY <2>1, <2>2, <2>3
<1>15. SubSeq(g[N], lo + 1, lo + z) = [k \in 1..z |-> g[N][lo + k]]
  <2>. HIDE DEF Off, lo, z
  <2>1. PICK s, a, c : s = g[N] /\ a = lo /\ c = z /\ s \in Seq(Rows) /\ a \in Nat /\ c \in Nat
                       /\ a + 1 \in 1..Len(s) /\ a + c \in 1..Len(s) /\ a + c >= a + 1
    BY <1>10, <1>11, <1>12, <1>14
  <2>2. a + c - (a + 1) + 1 = c
    BY <2>1
  <2>3. SubSeq(s, a + 1, a + c) = [k \in 1..c |-> s[a + k]]
    BY <2>1, <2>2
  <2>. QED BY <2>1, <2>3
<1>16. SubSeq(g[N], lo + 1, lo + z) = input_array(items[i])
  <2>1. \A k \in 1..z : g[N][lo + k] = Row(items[i], k)
    BY <1>12
  <2>2. [k \in 1..z |-> g[N][lo + k]] = [k \in 1..z |-> Row(items[i], k)]
    <3>. HIDE DEF Off, lo, z
    <3>. QED BY <2>1
  <2>. QED BY <1>15, <2>2 DEF input_array
<1>. QED BY <1>1, <1>13, <1>16
------------------------------------------------------------------------------
\* What a batch is taken from: requests whose places in the queue differ.
Placed(items) ==
    /\ items \in SUBSET Requests
    /\ \A r \in items : enqueued_at[r] \in Nat
    /\ \A q, r \in items : enqueued_at[q] = enqueued_at[r] => q = r

LEMMA OldestIs ==
    ASSUME NEW items, Placed(items), items # {}
    PROVE  /\ Oldest(items) \in items /\ \A q \in items : enqueued_at[Oldest(items)] <= enqueued_at[q]
           /\ \A r \in items : (\A q \in items : enqueued_at[r] <= enqueued_at[q]) => r = Oldest(items)
<1>1. PICK T : T = {enqueued_at[r] : r \in items}
  OBVIOUS
<1>2. T \subseteq Nat /\ T # {}
  BY <1>1 DEF Placed
<1>3. PICK m \in T : \A n \in T : m <= n
  BY <1>2, FirstNatural
<1>4. PICK r \in items : enqueued_at[r] = m
  BY <1>1, <1>3
<1>5. \A q \in items : enqueued_at[r] <= enqueued_at[q]
  BY <1>1, <1>3, <1>4
<1>6. Oldest(items) \in items /\ \A q \in items : enqueued_at[Oldest(items)] <= enqueued_at[q]
  BY <1>5 DEF Oldest
<1>7. ASSUME NEW x \in items, \A q \in items : enqueued_at[x] <= enqueued_at[q]
      PROVE  x = Oldest(items)
  <2>1. enqueued_at[x] <= enqueued_at[Oldest(items)] /\ enqueued_at[Oldest(items)] <= enqueued_at[x]
    BY <1>6, <1>7
  <2>2. enqueued_at[x] = enqueued_at[Oldest(items)]
    BY <1>6, <2>1 DEF Placed
  <2>. QED BY <1>6, <2>2 DEF Placed
<1>. QED BY <1>6, <1>7

LEMMA PlacedPart ==
    ASSUME NEW items, Placed(items), NEW part, part \subseteq items
    PROVE  Placed(part)
BY DEF Placed

\* The turn after scope: of a scope whose oldest request follows one of it, or of the oldest.
NextFrom(items, scope, x) ==
    /\ NextScope(items, scope) = Inferences[x].scope
    /\ \/ x = Oldest(items)
       \/ /\ \A y \in items : Inferences[y].scope = Inferences[x].scope => enqueued_at[x] <= enqueued_at[y]
          /\ \E q \in items : Inferences[q].scope = scope /\ enqueued_at[q] < enqueued_at[x]

LEMMA NextScopeIs ==
    ASSUME NEW items, Placed(items), items # {}, NEW scope
    PROVE  \E x \in items : NextFrom(items, scope, x)
<1>. DEFINE OfScope(s) == Own(items, <<>>, s)
            firsts == {r \in items : r = Oldest(Own(items, <<>>, Inferences[r].scope))}
            later == {r \in firsts : \E q \in firsts : Inferences[q].scope = scope /\ enqueued_at[q] < enqueued_at[r]}
<1>1. \A s : OfScope(s) = {r \in items : Inferences[r].scope = s} /\ Placed(OfScope(s))
  <2>1. Items(<<>>) = {}
    BY DEF Items
  <2>2. \A s : Own(items, <<>>, s) = {r \in items : Inferences[r].scope = s}
    BY <2>1 DEF Own
  <2>. QED BY <2>2, PlacedPart
<1>2. Oldest(items) \in firsts
  <2>1. Oldest(items) \in items /\ \A q \in items : enqueued_at[Oldest(items)] <= enqueued_at[q]
    BY OldestIs
  <2>2. PICK own : own = OfScope(Inferences[Oldest(items)].scope) /\ own \subseteq items /\ Placed(own) /\ Oldest(items) \in own
    BY <1>1, <2>1
  <2>3. Oldest(items) = Oldest(own)
    BY <2>1, <2>2, OldestIs
  <2>. QED BY <2>1, <2>2, <2>3
<1>3. Placed(firsts) /\ Placed(later) /\ firsts \subseteq items /\ later \subseteq firsts
  <2>1. firsts \subseteq items /\ later \subseteq firsts /\ later \subseteq items
    OBVIOUS
  <2>. HIDE DEF firsts, later
  <2>. QED BY <2>1, PlacedPart
<1>4. NextScope(items, scope) = Inferences[Oldest(IF later # {} THEN later ELSE firsts)].scope
  BY DEF NextScope
<1>5. CASE later # {}
  <2>1. Oldest(later) \in later
    <3>. HIDE DEF later, firsts
    <3>. QED BY <1>3, <1>5, OldestIs
  <2>2. PICK x \in later : x = Oldest(later)
    BY <2>1
  <2>3. x \in items /\ x = Oldest(OfScope(Inferences[x].scope))
    OBVIOUS
  <2>4. PICK q \in firsts : Inferences[q].scope = scope /\ enqueued_at[q] < enqueued_at[x]
    OBVIOUS
  <2>5. PICK own : own = OfScope(Inferences[x].scope) /\ Placed(own) /\ x \in own
    BY <1>1, <2>3
  <2>6. \A y \in own : enqueued_at[x] <= enqueued_at[y]
    BY <2>3, <2>5, OldestIs
  <2>7. \A y \in items : Inferences[y].scope = Inferences[x].scope => enqueued_at[x] <= enqueued_at[y]
    BY <1>1, <2>5, <2>6
  <2>8. NextScope(items, scope) = Inferences[x].scope
    BY <1>4, <1>5, <2>2
  <2>9. q \in items
    BY <1>3
  <2>. QED BY <2>3, <2>4, <2>7, <2>8, <2>9 DEF NextFrom
<1>6. CASE later = {}
  <2>1. \A q \in firsts : enqueued_at[Oldest(items)] <= enqueued_at[q]
    BY <1>3, OldestIs
  <2>2. Oldest(items) = Oldest(firsts)
    <3>. HIDE DEF firsts
    <3>. QED BY <1>2, <1>3, <2>1, OldestIs
  <2>3. NextScope(items, scope) = Inferences[Oldest(items)].scope /\ Oldest(items) \in items
    BY <1>4, <1>6, <2>2, OldestIs
  <2>. QED BY <2>3 DEF NextFrom
<1>. QED BY <1>5, <1>6

Hand(items) == [batch : Seq(items), scope : Scopes \cup {last_scope}, left : Nat]

Takes(items, b, c) ==
    \E x \in items \ Items(b.batch) :
        /\ b.left > 0 /\ x = Oldest(Own(items, b.batch, b.scope)) /\ Inferences[x].scope = b.scope /\ Fits(b.batch, x)
        /\ c = [batch |-> Append(b.batch, x), scope |-> b.scope, left |-> b.left - 1]
Turns(items, b, c) ==
    /\ b.left > 0 /\ Own(items, b.batch, b.scope) # {} => ~Fits(b.batch, Oldest(Own(items, b.batch, b.scope)))
    /\ c.batch = b.batch /\ c.scope = NextScope(items, b.scope) /\ c.left > 0

LEMMA BatchItems ==
    ASSUME NEW items, NEW batch \in Seq(items), NEW x \in items
    PROVE  Items(batch) \subseteq items /\ Items(Append(batch, x)) = Items(batch) \cup {x}
<1>1. PICK n \in Nat : n = Len(batch)
  OBVIOUS
<1>2. DOMAIN batch = 1..n /\ \A i \in 1..n : batch[i] \in items
  BY <1>1
<1>3. /\ DOMAIN Append(batch, x) = 1..(n + 1) /\ Append(batch, x)[n + 1] = x
      /\ \A i \in 1..n : Append(batch, x)[i] = batch[i]
  BY <1>1, AppendProperties
<1>4. 1..(n + 1) = 1..n \cup {n + 1}
  BY <1>1
<1>. QED BY <1>2, <1>3, <1>4 DEF Items

LEMMA TakeOrTurnIs ==
    ASSUME NEW items, Placed(items), items # {}, NEW b \in Hand(items)
    PROVE  /\ TakeOrTurn(items, b) \in Hand(items)
           /\ Takes(items, b, TakeOrTurn(items, b)) \/ Turns(items, b, TakeOrTurn(items, b))
<1>. DEFINE own == Own(items, b.batch, b.scope)
            scope == NextScope(items, b.scope)
            offered == Own(items, b.batch, scope)
            weight == IF offered = {} THEN 1 ELSE Inferences[Oldest(offered)].weight
            taken == [batch |-> Append(b.batch, Oldest(own)), scope |-> b.scope, left |-> b.left - 1]
            turned == [batch |-> b.batch, scope |-> scope, left |-> weight]
<1>1. b = [batch |-> b.batch, scope |-> b.scope, left |-> b.left]
      /\ b.batch \in Seq(items) /\ b.scope \in Scopes \cup {last_scope} /\ b.left \in Nat
  BY DEF Hand
<1>2. TakeOrTurn(items, b) = IF b.left > 0 /\ own # {} /\ Fits(b.batch, Oldest(own)) THEN taken ELSE turned
  BY DEF TakeOrTurn
<1>3. \A s : /\ Own(items, b.batch, s) \subseteq items \ Items(b.batch) /\ Placed(Own(items, b.batch, s))
             /\ \A x \in Own(items, b.batch, s) : Inferences[x].scope = s
  <2>1. \A s : Own(items, b.batch, s) \subseteq items
    BY DEF Own
  <2>. QED BY <2>1, PlacedPart DEF Own
<1>4. CASE b.left > 0 /\ own # {} /\ Fits(b.batch, Oldest(own))
  <2>1. PICK x \in own : x = Oldest(own)
    <3>1. Placed(own)
      BY <1>3
    <3>. HIDE DEF own
    <3>. QED BY <1>4, <3>1, OldestIs
  <2>2. x \in items \ Items(b.batch) /\ Inferences[x].scope = b.scope
    BY <1>3, <2>1
  <2>3. Append(b.batch, x) \in Seq(items) /\ b.left - 1 \in Nat
    BY <1>1, <1>4, <2>2
  <2>4. TakeOrTurn(items, b) = [batch |-> Append(b.batch, x), scope |-> b.scope, left |-> b.left - 1]
    <3>. HIDE DEF own
    <3>. QED BY <1>2, <1>4, <2>1
  <2>5. Takes(items, b, TakeOrTurn(items, b))
    <3>1. x = Oldest(Own(items, b.batch, b.scope)) /\ Fits(b.batch, x)
      BY <1>4, <2>1
    <3>. QED BY <1>4, <2>2, <2>4, <3>1 DEF Takes
  <2>. QED BY <1>1, <2>3, <2>4, <2>5 DEF Hand
<1>5. CASE ~(b.left > 0 /\ own # {} /\ Fits(b.batch, Oldest(own)))
  <2>1. scope \in Scopes
    <3>1. PICK x \in items : NextScope(items, b.scope) = Inferences[x].scope
      BY NextScopeIs DEF NextFrom
    <3>. QED BY <3>1 DEF Scopes, Placed
  <2>2. weight \in Nat /\ weight > 0
    <3>1. CASE offered = {}
      BY <3>1
    <3>2. CASE offered # {}
      <4>1. Placed(offered) /\ offered \subseteq items
        BY <1>3
      <4>2. Oldest(offered) \in Requests
        <5>. HIDE DEF offered
        <5>. QED BY <3>2, <4>1, OldestIs DEF Placed
      <4>3. Inferences[Oldest(offered)].weight \in Nat \ {0}
        <5>. HIDE DEF offered
        <5>. QED BY <4>2, BatchAssumption DEF Requests
      <4>. HIDE DEF offered
      <4>. QED BY <3>2, <4>3
    <3>. QED BY <3>1, <3>2
  <2>3. TakeOrTurn(items, b) = turned
    <3>. HIDE DEF taken, turned
    <3>. QED BY <1>2, <1>5
  <2>4. Turns(items, b, turned)
    <3>. HIDE DEF weight
    <3>. QED BY <1>5, <2>2 DEF Turns
  <2>5. turned \in Hand(items)
    <3>. HIDE DEF weight, scope
    <3>. QED BY <1>1, <2>1, <2>2 DEF Hand
  <2>. HIDE DEF turned
  <2>. QED BY <2>3, <2>4, <2>5
<1>. QED BY <1>4, <1>5

\* The turns of one batch: the hand that is dealt after some steps.
Deals(items, g, N) ==
    /\ N \in Nat /\ N >= 2
    /\ \A n \in 0..N : g[n] \in Hand(items)
    /\ g[0] = [batch |-> <<>>, scope |-> last_scope, left |-> 0]
    /\ \A n \in 1..N : g[n] = TakeOrTurn(items, g[n - 1])

Candidates(pool, seed) == {r \in pool : Compatible(r, seed)}

LEMMA TakingIs ==
    ASSUME NEW pool, NEW seed, NEW items, items = Candidates(pool, seed), Placed(items), items # {}
    PROVE  \E g, N : Deals(items, g, N) /\ _take_fair_batch(pool, seed) = g[N].batch
<1>1. PICK N : N = Steps(items)
  OBVIOUS
<1>2. N \in Nat /\ N >= 2
  <2>1. IsFiniteSet(items) /\ Cardinality(items) \in Nat /\ Cardinality(items) # 0
    BY RequestsFinite, FS_EmptySet DEF Placed
  <2>2. Cardinality(Scopes) \in Nat /\ Cardinality(Scopes) # 0
    <3>1. Scopes # {}
      BY DEF Scopes, Placed
    <3>. QED BY <3>1, RequestsFinite, FS_CardinalityType, FS_EmptySet
  <2>3. PICK a, c : a = Cardinality(items) /\ c = Cardinality(Scopes) /\ N = (a + 1) * (c + 1)
    BY <1>1 DEF Steps
  <2>4. a \in Nat /\ a >= 1 /\ c \in Nat /\ c >= 1
    BY <2>1, <2>2, <2>3
  <2>5. N = a * c + a + c + 1 /\ a * c \in Nat
    BY <2>3, <2>4
  <2>. QED BY <2>4, <2>5
<1>. DEFINE first == [batch |-> <<>>, scope |-> last_scope, left |-> 0]
            add == [n \in Nat |-> [b \in Hand(items) |-> TakeOrTurn(items, b)]]
<1>3. add \in [Nat -> [Hand(items) -> Hand(items)]]
  BY TakeOrTurnIs
<1>4. first \in Hand(items)
  BY DEF Hand
<1>5. PICK f \in [0..N -> Hand(items)] : f[0] = first /\ \A i \in 1..N : f[i] = TakeOrTurn(items, f[i - 1])
  <2>. HIDE DEF first, add
  <2>1. PICK g : g \in Chains(Hand(items), first, add, N)
    BY <1>2, <1>3, <1>4, RecursionExists
  <2>2. g \in [0..N -> Hand(items)] /\ g[0] = first
    BY <2>1, Zenon DEF Chains
  <2>3. ASSUME NEW i \in 1..N PROVE g[i] = TakeOrTurn(items, g[i - 1])
    <3>1. g[i] = add[i][g[i - 1]]
      BY <2>1, Zenon DEF Chains
    <3>2. i \in Nat /\ i - 1 \in 0..N
      BY <1>2
    <3>3. g[i - 1] \in Hand(items)
      BY <2>2, <3>2
    <3>4. add[i] = [b \in Hand(items) |-> TakeOrTurn(items, b)]
      BY <3>2 DEF add
    <3>. QED BY <3>1, <3>3, <3>4
  <2>. QED BY <2>2, <2>3
<1>. DEFINE h == CHOOSE h : h = [n \in 0..Steps(items) |-> IF n = 0 THEN first ELSE TakeOrTurn(items, h[n - 1])]
<1>6. f = [n \in 0..Steps(items) |-> IF n = 0 THEN first ELSE TakeOrTurn(items, f[n - 1])]
  <2>1. \A n \in 0..N : n # 0 => n \in 1..N
    OBVIOUS
  <2>2. \A n \in 0..N : f[n] = IF n = 0 THEN first ELSE TakeOrTurn(items, f[n - 1])
    <3>. HIDE DEF first
    <3>. QED BY <1>5, <2>1
  <2>. HIDE DEF first, add
  <2>. QED BY <1>1, <1>5, <2>2
<1>7. h = [n \in 0..Steps(items) |-> IF n = 0 THEN first ELSE TakeOrTurn(items, h[n - 1])]
  <2>. HIDE DEF first, add
  <2>. QED BY <1>6, Zenon
<1>8. _take_fair_batch(pool, seed) = h[Steps(items)].batch
  BY DEF _take_fair_batch, Candidates
<1>. HIDE DEF first, add, h
<1>9. \A n \in 0..N : h[n] = IF n = 0 THEN first ELSE TakeOrTurn(items, h[n - 1])
  BY <1>1, <1>7
<1>10. h[0] = first /\ \A n \in 1..N : h[n] = TakeOrTurn(items, h[n - 1])
  <2>1. 0 \in 0..N /\ \A n \in 1..N : n \in 0..N /\ n # 0
    BY <1>2
  <2>. QED BY <1>9, <2>1
<1>11. \A n \in 0..N : h[n] \in Hand(items)
  <2>1. PICK T : T = {n \in 0..N : h[n] \in Hand(items)}
    OBVIOUS
  <2>2. 0 \in T
    BY <1>2, <1>4, <1>10, <2>1
  <2>3. ASSUME NEW n \in 1..N, n - 1 \in T PROVE n \in T
    <3>1. h[n - 1] \in Hand(items)
      BY <2>1, <2>3
    <3>2. h[n] = TakeOrTurn(items, h[n - 1])
      BY <1>10, Zenon
    <3>3. TakeOrTurn(items, h[n - 1]) \in Hand(items)
      BY <3>1, TakeOrTurnIs, Zenon
    <3>4. n \in 0..N
      BY <1>2
    <3>. QED BY <2>1, <3>2, <3>3, <3>4, Zenon
  <2>4. \A n \in 0..N : n \in T
    BY <1>2, <2>2, <2>3, UpTo
  <2>. QED BY <2>1, <2>4
<1>12. Deals(items, h, N)
  BY <1>2, <1>10, <1>11 DEF Deals, first
<1>. QED BY <1>1, <1>8, <1>12

\* The scope's turn comes before another one's may: some of last_scope is older than all of it.
Ahead(items, scope) ==
    /\ \E x \in items : Inferences[x].scope = scope
    /\ \E p \in items : /\ Inferences[p].scope = last_scope
                        /\ \A y \in items : Inferences[y].scope = scope => enqueued_at[p] < enqueued_at[y]

OnTurn(items, b, r) ==
    /\ \A x \in Items(b.batch) : Ahead(items, Inferences[x].scope)
    /\ \/ b.scope = last_scope /\ b.left = 0
       \/ Ahead(items, b.scope)
       \/ b.scope = Inferences[r].scope /\ b.left > 0
       \/ TotalOf(Items(b.batch)) >= max_batch_size

HandSound(items, b) ==
    /\ \A i, j \in DOMAIN b.batch : b.batch[i] = b.batch[j] => i = j
    /\ TotalOf(Items(b.batch)) > max_batch_size => Len(b.batch) = 1
    /\ \A r \in items : r = Oldest(items) /\ Inferences[r].size = 1 /\ r \notin Items(b.batch) => OnTurn(items, b, r)

LEMMA NextIsAhead ==
    ASSUME NEW items, Placed(items), items # {}, NEW scope, scope = last_scope \/ Ahead(items, scope)
    PROVE  \/ NextScope(items, scope) = Inferences[Oldest(items)].scope
           \/ Ahead(items, NextScope(items, scope))
<1>1. PICK x \in items : NextFrom(items, scope, x)
  BY NextScopeIs
<1>2. SUFFICES ASSUME x # Oldest(items) PROVE Ahead(items, Inferences[x].scope)
  BY <1>1 DEF NextFrom
<1>3. PICK q \in items : Inferences[q].scope = scope /\ enqueued_at[q] < enqueued_at[x]
  BY <1>1, <1>2 DEF NextFrom
<1>4. PICK p \in items : Inferences[p].scope = last_scope /\ enqueued_at[p] < enqueued_at[x]
  <2>1. CASE scope = last_scope
    BY <1>3, <2>1
  <2>2. CASE Ahead(items, scope)
    <3>1. PICK p \in items : Inferences[p].scope = last_scope /\ enqueued_at[p] < enqueued_at[q]
      BY <1>3, <2>2 DEF Ahead
    <3>2. enqueued_at[p] < enqueued_at[x]
      BY <1>3, <3>1 DEF Placed
    <3>. QED BY <3>1, <3>2
  <2>. QED BY <2>1, <2>2
<1>5. ASSUME NEW y \in items, Inferences[y].scope = Inferences[x].scope PROVE enqueued_at[p] < enqueued_at[y]
  <2>1. enqueued_at[x] <= enqueued_at[y]
    BY <1>1, <1>2, <1>5 DEF NextFrom
  <2>. QED BY <1>4, <2>1 DEF Placed
<1>. QED BY <1>4, <1>5 DEF Ahead

LEMMA SoundStep ==
    ASSUME NEW items, Placed(items), items # {}, NEW b \in Hand(items), NEW c \in Hand(items),
           HandSound(items, b), Takes(items, b, c) \/ Turns(items, b, c)
    PROVE  HandSound(items, c) /\ (b.batch # <<>> => c.batch # <<>>)
<1>1. b.batch \in Seq(items) /\ c.batch \in Seq(items) /\ b.left \in Nat /\ c.left \in Nat
  BY DEF Hand
<1>2. Items(b.batch) \subseteq items /\ Items(b.batch) \in SUBSET Requests
  <2>1. Items(b.batch) \subseteq items
    BY <1>1 DEF Items
  <2>. QED BY <2>1 DEF Placed
<1>3. TotalOf(Items(b.batch)) \in Nat /\ max_batch_size \in Nat \ {0}
  BY <1>2, TotalIs, BatchAssumption
<1>4. CASE Takes(items, b, c)
  <2>1. PICK x \in items \ Items(b.batch) :
           /\ b.left > 0 /\ x = Oldest(Own(items, b.batch, b.scope)) /\ Inferences[x].scope = b.scope /\ Fits(b.batch, x)
           /\ c = [batch |-> Append(b.batch, x), scope |-> b.scope, left |-> b.left - 1]
    BY <1>4 DEF Takes
  <2>2. c.batch = Append(b.batch, x) /\ c.scope = b.scope /\ c.left = b.left - 1
    BY <2>1
  <2>3. Items(c.batch) = Items(b.batch) \cup {x} /\ x \in Requests
    BY <1>1, <2>2, BatchItems DEF Placed
  <2>4. PICK n \in Nat : n = Len(b.batch)
    BY <1>1
  <2>5. /\ DOMAIN b.batch = 1..n /\ DOMAIN c.batch = 1..(n + 1) /\ Len(c.batch) = n + 1
        /\ c.batch[n + 1] = x /\ \A i \in 1..n : c.batch[i] = b.batch[i]
    BY <1>1, <2>2, <2>4, AppendProperties
  <2>6. c.batch # <<>>
    <3>1. Len(c.batch) # 0
      BY <2>5
    <3>. QED BY <3>1
  <2>7. \A i, j \in DOMAIN c.batch : c.batch[i] = c.batch[j] => i = j
    <3>1. \A i \in 1..n : b.batch[i] # x
      BY <2>1, <2>5 DEF Items
    <3>2. \A i \in DOMAIN c.batch : i = n + 1 \/ i \in 1..n
      BY <2>5
    <3>3. \A i, j \in 1..n : b.batch[i] = b.batch[j] => i = j
      BY <2>5 DEF HandSound
    <3>. QED BY <2>5, <3>1, <3>2, <3>3
  <2>8. /\ TotalOf(Items(c.batch)) = TotalOf(Items(b.batch)) + Inferences[x].size /\ Inferences[x].size \in Nat \ {0}
        /\ TotalOf(Items(b.batch)) < max_batch_size
        /\ b.batch = <<>> \/ TotalOf(Items(b.batch)) + Inferences[x].size <= max_batch_size
    <3>1. x \in Requests \ Items(b.batch)
      BY <2>1, <2>3
    <3>2. TotalOf(Items(b.batch) \cup {x}) = TotalOf(Items(b.batch)) + Inferences[x].size
      BY <1>2, <3>1, TotalIs
    <3>3. Inferences[x].size \in Nat \ {0}
      BY <2>3, BatchAssumption DEF Requests
    <3>. QED BY <2>1, <2>3, <3>2, <3>3 DEF Fits
  <2>9. TotalOf(Items(c.batch)) > max_batch_size => Len(c.batch) = 1
    <3>1. b.batch = <<>> => n = 0
      BY <2>4
    <3>. QED BY <1>3, <2>5, <2>8, <3>1
  <2>10. ASSUME NEW r \in items, r = Oldest(items), Inferences[r].size = 1, r \notin Items(c.batch)
         PROVE  OnTurn(items, c, r)
    <3>1. OnTurn(items, b, r) /\ r \notin Items(b.batch) /\ r # x
      BY <2>3, <2>10 DEF HandSound
    <3>2. ~(b.scope = Inferences[r].scope)
      <4>1. SUFFICES ASSUME b.scope = Inferences[r].scope PROVE FALSE
        OBVIOUS
      <4>2. PICK own : own = Own(items, b.batch, b.scope)
        OBVIOUS
      <4>3. r \in own /\ own \subseteq items
        BY <3>1, <4>1, <4>2 DEF Own
      <4>4. Placed(own)
        BY <4>3, PlacedPart
      <4>5. \A q \in own : enqueued_at[r] <= enqueued_at[q]
        BY <2>10, <4>3, OldestIs
      <4>6. r = Oldest(own)
        BY <4>3, <4>4, <4>5, OldestIs
      <4>. QED BY <2>1, <3>1, <4>2, <4>6
    <3>3. Ahead(items, b.scope)
      BY <1>1, <1>3, <2>1, <2>8, <3>1, <3>2 DEF OnTurn
    <3>. QED BY <2>1, <2>2, <2>3, <3>1, <3>3 DEF OnTurn
  <2>. QED BY <2>6, <2>7, <2>9, <2>10 DEF HandSound
<1>5. CASE Turns(items, b, c)
  <2>1. c.batch = b.batch /\ c.scope = NextScope(items, b.scope) /\ c.left > 0
    BY <1>5 DEF Turns
  <2>2. ASSUME NEW r \in items, r = Oldest(items), Inferences[r].size = 1, r \notin Items(c.batch)
        PROVE  OnTurn(items, c, r)
    <3>1. OnTurn(items, b, r) /\ r \notin Items(b.batch)
      BY <2>1, <2>2 DEF HandSound
    <3>2. CASE TotalOf(Items(b.batch)) >= max_batch_size
      BY <2>1, <3>1, <3>2 DEF OnTurn
    <3>3. CASE b.scope = last_scope \/ Ahead(items, b.scope)
      <4>1. c.scope = Inferences[r].scope \/ Ahead(items, c.scope)
        BY <2>1, <2>2, <3>3, NextIsAhead
      <4>. QED BY <2>1, <3>1, <4>1 DEF OnTurn
    <3>4. CASE b.scope = Inferences[r].scope /\ b.left > 0
      <4>1. PICK own : own = Own(items, b.batch, b.scope)
        OBVIOUS
      <4>2. r \in own /\ own \subseteq items /\ Placed(own)
        <5>1. r \in own /\ own \subseteq items
          BY <3>1, <3>4, <4>1 DEF Own
        <5>. QED BY <5>1, PlacedPart
      <4>3. \A q \in own : enqueued_at[r] <= enqueued_at[q]
        BY <2>2, <4>2, OldestIs
      <4>4. r = Oldest(own)
        BY <4>2, <4>3, OldestIs
      <4>5. ~Fits(b.batch, r)
        BY <1>5, <3>4, <4>1, <4>2, <4>4 DEF Turns
      <4>6. TotalOf(Items(b.batch)) >= max_batch_size
        BY <1>3, <2>2, <4>5 DEF Fits
      <4>. QED BY <3>2, <4>6
    <3>. QED BY <3>1, <3>2, <3>3, <3>4 DEF OnTurn
  <2>. QED BY <2>1, <2>2 DEF HandSound
<1>. QED BY <1>4, <1>5

\* What the batch taken from them promises.
FairBatch(items, batch) ==
    /\ batch \in Seq(items) /\ Len(batch) \in Nat \ {0} /\ Items(batch) \subseteq items
    /\ \A i, j \in DOMAIN batch : batch[i] = batch[j] => i = j
    /\ TotalOf(Items(batch)) > max_batch_size => Len(batch) = 1
    /\ \A r \in items : r = Oldest(items) /\ Inferences[r].size = 1 /\ r \notin Items(batch) =>
          \A x \in Items(batch) : Ahead(items, Inferences[x].scope)

LEMMA BatchIs ==
    ASSUME NEW pool, NEW seed, NEW items, items = Candidates(pool, seed), Placed(items), items # {},
           NEW batch, batch = _take_fair_batch(pool, seed)
    PROVE  FairBatch(items, batch)
<1>1. PICK g, N : Deals(items, g, N) /\ batch = g[N].batch
  BY TakingIs
<1>2. /\ N \in Nat /\ N >= 2
      /\ \A n \in 0..N : g[n] \in Hand(items)
      /\ g[0] = [batch |-> <<>>, scope |-> last_scope, left |-> 0]
      /\ \A n \in 1..N : g[n] = TakeOrTurn(items, g[n - 1])
  BY <1>1 DEF Deals
<1>3. ASSUME NEW n \in 1..N PROVE Takes(items, g[n - 1], g[n]) \/ Turns(items, g[n - 1], g[n])
  <2>1. n - 1 \in 0..N
    BY <1>2
  <2>2. g[n - 1] \in Hand(items)
    BY <1>2, <2>1, Zenon
  <2>3. g[n] = TakeOrTurn(items, g[n - 1])
    BY <1>2, Zenon
  <2>. QED BY <2>2, <2>3, TakeOrTurnIs
<1>4. HandSound(items, g[0])
  <2>1. g[0].batch = <<>> /\ g[0].scope = last_scope /\ g[0].left = 0
    BY <1>2
  <2>2. Items(<<>>) = {} /\ DOMAIN <<>> = {}
    BY DEF Items
  <2>3. ~(TotalOf({}) > max_batch_size)
    BY TotalIs, BatchAssumption
  <2>. QED BY <2>1, <2>2, <2>3 DEF HandSound, OnTurn
<1>5. 1 \in 1..N /\ 2 \in 1..N
  BY <1>2
<1>6. g[2].batch # <<>>
  <2>1. g[0].batch = <<>> /\ g[0].scope = last_scope /\ g[0].left = 0
    BY <1>2
  <2>2. Turns(items, g[0], g[1])
    <3>1. Takes(items, g[0], g[1]) \/ Turns(items, g[0], g[1])
      BY <1>3, <1>5
    <3>. QED BY <2>1, <3>1 DEF Takes
  <2>3. g[1].batch = <<>> /\ g[1].left > 0 /\ g[1].scope = NextScope(items, last_scope)
    BY <2>1, <2>2 DEF Turns
  <2>4. PICK x \in items : Inferences[x].scope = g[1].scope
    <3>1. PICK x \in items : NextFrom(items, last_scope, x)
      BY NextScopeIs
    <3>. QED BY <2>3, <3>1 DEF NextFrom
  <2>5. Items(<<>>) = {}
    BY DEF Items
  <2>6. Own(items, g[1].batch, g[1].scope) # {}
    BY <2>3, <2>4, <2>5 DEF Own
  <2>7. \A r : Fits(<<>>, r)
    <3>1. TotalOf({}) < max_batch_size
      BY TotalIs, BatchAssumption
    <3>. QED BY <2>5, <3>1 DEF Fits
  <2>8. Takes(items, g[1], g[2])
    <3>1. Takes(items, g[1], g[2]) \/ Turns(items, g[1], g[2])
      BY <1>3, <1>5
    <3>. QED BY <2>3, <2>6, <2>7, <3>1 DEF Turns
  <2>9. g[2] \in Hand(items) /\ g[1] \in Hand(items)
    BY <1>2, <1>5
  <2>10. PICK y \in items : g[2].batch = Append(g[1].batch, y)
    <3>1. PICK y \in items : g[2] = [batch |-> Append(g[1].batch, y), scope |-> g[1].scope, left |-> g[1].left - 1]
      BY <2>8 DEF Takes
    <3>. QED BY <3>1
  <2>. QED BY <2>3, <2>10
<1>7. PICK T : T = {n \in 0..N : HandSound(items, g[n]) /\ (n >= 2 => g[n].batch # <<>>)}
  OBVIOUS
<1>8. 0 \in T
  BY <1>2, <1>4, <1>7
<1>9. ASSUME NEW n \in 1..N, n - 1 \in T PROVE n \in T
  <2>1. n \in 0..N /\ n - 1 \in 0..N /\ (n >= 2 => n = 2 \/ n - 1 >= 2)
    BY <1>2
  <2>2. g[n - 1] \in Hand(items) /\ g[n] \in Hand(items)
    BY <1>2, <2>1
  <2>3. HandSound(items, g[n - 1]) /\ (n - 1 >= 2 => g[n - 1].batch # <<>>)
    BY <1>7, <1>9
  <2>4. HandSound(items, g[n]) /\ (g[n - 1].batch # <<>> => g[n].batch # <<>>)
    BY <1>3, <2>2, <2>3, SoundStep
  <2>. QED BY <1>6, <1>7, <2>1, <2>3, <2>4
<1>10. N \in T
  <2>1. \A n \in 0..N : n \in T
    BY <1>2, <1>8, <1>9, UpTo
  <2>. QED BY <1>2, <2>1
<1>11. g[N] \in Hand(items) /\ HandSound(items, g[N]) /\ g[N].batch # <<>>
  BY <1>2, <1>7, <1>10
<1>12. batch \in Seq(items) /\ batch # <<>>
  BY <1>1, <1>11 DEF Hand
<1>13. Len(batch) \in Nat \ {0} /\ Items(batch) \subseteq items
  BY <1>12 DEF Items
<1>14. ASSUME NEW r \in items, r = Oldest(items), Inferences[r].size = 1, r \notin Items(batch)
       PROVE  \A x \in Items(batch) : Ahead(items, Inferences[x].scope)
  BY <1>1, <1>11, <1>14 DEF HandSound, OnTurn
<1>. QED BY <1>1, <1>11, <1>12, <1>13, <1>14 DEF HandSound, FairBatch
------------------------------------------------------------------------------
\* How often a request may still be passed over: by the scopes that have nothing older
\* than what last_scope has, and once more while last_scope has nothing at all.
StuckIn(items, stamp, last, own) ==
    {s \in Scopes \ {own} : \E q \in items : /\ Inferences[q].scope = s
                                            /\ \A p \in items : Inferences[p].scope = last => stamp[q] <= stamp[p]}
Absent(items, last) == IF \E q \in items : Inferences[q].scope = last THEN 0 ELSE 1
Patience(items, stamp, last, own) == Cardinality(StuckIn(items, stamp, last, own)) + Absent(items, last)

LEMMA StuckFinite ==
    ASSUME NEW items, NEW stamp, NEW last, NEW own
    PROVE  /\ IsFiniteSet(StuckIn(items, stamp, last, own)) /\ Cardinality(StuckIn(items, stamp, last, own)) \in Nat
           /\ Absent(items, last) \in {0, 1}
<1>1. StuckIn(items, stamp, last, own) \subseteq Scopes
  BY DEF StuckIn
<1>2. IsFiniteSet(StuckIn(items, stamp, last, own))
  BY <1>1, RequestsFinite, FS_Subset
<1>. QED BY <1>2, FS_CardinalityType DEF Absent

\* Requests that leave take at most one scope each with them.
LEMMA SomeLeave ==
    ASSUME NEW items \in SUBSET Requests, NEW rest \in SUBSET items, NEW stamp, NEW after,
           \A q \in rest : after[q] = stamp[q], NEW last, NEW own
    PROVE  Patience(items, stamp, last, own) <= Patience(rest, after, last, own) + Cardinality(items \ rest)
<1>. DEFINE f == [q \in items \ rest |-> Inferences[q].scope]
            Gone == {Inferences[q].scope : q \in items \ rest}
<1>1. PICK A, B, G : A = StuckIn(items, stamp, last, own) /\ B = StuckIn(rest, after, last, own) /\ G = Gone
  OBVIOUS
<1>2. IsFiniteSet(A) /\ IsFiniteSet(B) /\ Cardinality(A) \in Nat /\ Cardinality(B) \in Nat
  BY <1>1, StuckFinite
<1>3. IsFiniteSet(items \ rest) /\ Cardinality(items \ rest) \in Nat
  <2>1. items \ rest \in SUBSET Requests
    OBVIOUS
  <2>. QED BY <2>1, RequestsFinite
<1>4. IsFiniteSet(G) /\ Cardinality(G) <= Cardinality(items \ rest) /\ Cardinality(G) \in Nat
  <2>1. f \in Surjection(items \ rest, Gone)
    BY DEF Surjection
  <2>. HIDE DEF f, Gone
  <2>. QED BY <1>1, <1>3, <2>1, FS_Surjection, FS_CardinalityType
<1>5. A \subseteq B \cup G
  <2>1. SUFFICES ASSUME NEW s \in A, s \notin G PROVE s \in B
    OBVIOUS
  <2>2. PICK q \in items : /\ Inferences[q].scope = s /\ s \in Scopes \ {own}
                           /\ \A p \in items : Inferences[p].scope = last => stamp[q] <= stamp[p]
    BY <1>1 DEF StuckIn
  <2>3. q \in rest
    BY <1>1, <2>1, <2>2
  <2>4. \A p \in rest : Inferences[p].scope = last => after[q] <= after[p]
    BY <2>2, <2>3
  <2>. QED BY <1>1, <2>2, <2>3, <2>4 DEF StuckIn
<1>6. Cardinality(A) <= Cardinality(B) + Cardinality(G)
  <2>1. IsFiniteSet(B \cup G) /\ Cardinality(B \cup G) = Cardinality(B) + Cardinality(G) - Cardinality(B \cap G)
    BY <1>2, <1>4, FS_Union
  <2>2. Cardinality(A) <= Cardinality(B \cup G)
    BY <1>5, <2>1, FS_Subset
  <2>3. Cardinality(B \cap G) \in Nat
    BY <1>2, FS_Intersection, FS_CardinalityType
  <2>. QED BY <1>2, <1>4, <2>1, <2>2, <2>3
<1>7. Absent(items, last) <= Absent(rest, last) /\ Absent(items, last) \in {0, 1} /\ Absent(rest, last) \in {0, 1}
  BY DEF Absent
<1>. QED BY <1>1, <1>2, <1>3, <1>4, <1>6, <1>7 DEF Patience

\* A request that arrives takes nothing from the others.
LEMMA OneArrives ==
    ASSUME NEW items \in SUBSET Requests, NEW stamp, NEW after, NEW q, NEW more, items \subseteq more, more \subseteq items \cup {q},
           \A p \in items : after[p] = stamp[p] /\ stamp[p] \in Nat /\ stamp[p] <= after[q],
           q \in Requests, after[q] \in Nat, NEW last, NEW r \in items
    PROVE  Patience(items, stamp, last, Inferences[r].scope) <= Patience(more, after, last, Inferences[r].scope)
<1>1. PICK own, A, B : /\ own = Inferences[r].scope
                       /\ A = StuckIn(items, stamp, last, own) /\ B = StuckIn(more, after, last, own)
  OBVIOUS
<1>2. IsFiniteSet(A) /\ IsFiniteSet(B) /\ Cardinality(A) \in Nat /\ Cardinality(B) \in Nat
  BY <1>1, StuckFinite
<1>3. A \subseteq B
  <2>1. SUFFICES ASSUME NEW s \in A PROVE s \in B
    OBVIOUS
  <2>2. PICK x \in items : /\ Inferences[x].scope = s /\ s \in Scopes \ {own}
                           /\ \A p \in items : Inferences[p].scope = last => stamp[x] <= stamp[p]
    BY <1>1 DEF StuckIn
  <2>3. \A p \in more : Inferences[p].scope = last => after[x] <= after[p]
    BY <2>2
  <2>. QED BY <1>1, <2>2, <2>3 DEF StuckIn
<1>4. Cardinality(A) <= Cardinality(B)
  BY <1>2, <1>3, FS_Subset
<1>5. CASE Absent(items, last) <= Absent(more, last)
  <2>1. Absent(items, last) \in Nat /\ Absent(more, last) \in Nat
    BY DEF Absent
  <2>. QED BY <1>1, <1>2, <1>4, <1>5, <2>1 DEF Patience
<1>6. CASE ~(Absent(items, last) <= Absent(more, last))
  <2>1. Absent(items, last) = 1 /\ Absent(more, last) = 0 /\ \A p \in items : Inferences[p].scope # last
    BY <1>6 DEF Absent
  <2>2. q \in more /\ Inferences[q].scope = last
    BY <2>1 DEF Absent
  <2>3. last \in Scopes \ {own} /\ last \notin A
    <3>1. last \in Scopes
      BY <2>2 DEF Scopes
    <3>2. last # own
      BY <1>1, <2>1
    <3>3. last \notin A
      BY <1>1, <2>1 DEF StuckIn
    <3>. QED BY <3>1, <3>2, <3>3
  <2>4. \A p \in more : Inferences[p].scope = last => p = q
    BY <2>1
  <2>5. \A p \in more : Inferences[p].scope = last => after[q] <= after[p]
    <3>1. after[q] <= after[q]
      OBVIOUS
    <3>. QED BY <2>4, <3>1
  <2>6. last \in B
    BY <1>1, <2>2, <2>3, <2>5 DEF StuckIn
  <2>7. A \cup {last} \subseteq B /\ IsFiniteSet(A \cup {last}) /\ Cardinality(A \cup {last}) = Cardinality(A) + 1
    BY <1>2, <1>3, <2>3, <2>6, FS_AddElement
  <2>8. Cardinality(A) + 1 <= Cardinality(B)
    BY <1>2, <2>7, FS_Subset
  <2>. QED BY <1>1, <1>2, <2>1, <2>8 DEF Patience
<1>. QED BY <1>5, <1>6

\* A batch that leaves the oldest request out comes of scopes that were not stuck.
LEMMA PassedOver ==
    ASSUME NEW items, Placed(items), NEW r \in items, r = Oldest(items),
           NEW batch \in SUBSET items, \A x \in batch : Ahead(items, Inferences[x].scope), NEW x \in batch,
           NEW after, \A q \in items \ batch : after[q] = enqueued_at[q]
    PROVE  /\ Absent(items, last_scope) = 0 /\ last_scope \in Scopes
           /\ Cardinality(StuckIn(items, enqueued_at, last_scope, Inferences[r].scope)) + 1
                 <= Patience(items \ batch, after, Inferences[x].scope, Inferences[r].scope)
<1>1. PICK own, next, rest, A, B :
         /\ own = Inferences[r].scope /\ next = Inferences[x].scope /\ rest = items \ batch
         /\ A = StuckIn(items, enqueued_at, last_scope, own) /\ B = StuckIn(rest, after, next, own)
  OBVIOUS
<1>2. IsFiniteSet(A) /\ IsFiniteSet(B) /\ Cardinality(A) \in Nat /\ Cardinality(B) \in Nat
  BY <1>1, StuckFinite
<1>3. PICK p \in items : Inferences[p].scope = last_scope
  BY DEF Ahead
<1>4. Absent(items, last_scope) = 0 /\ last_scope \in Scopes
  BY <1>3 DEF Absent, Scopes, Placed
<1>5. \A q \in items : enqueued_at[r] <= enqueued_at[q]
  BY OldestIs
<1>6. next # own
  <2>1. SUFFICES ASSUME next = own PROVE FALSE
    OBVIOUS
  <2>2. PICK y \in items : enqueued_at[y] < enqueued_at[r]
    BY <1>1, <2>1 DEF Ahead
  <2>. QED BY <1>5, <2>2 DEF Placed
\* The oldest of a scope that is stuck stays.
<1>7. ASSUME NEW s \in A
      PROVE  \E q \in rest : /\ Inferences[q].scope = s
                             /\ \A y \in items : Inferences[y].scope = last_scope => enqueued_at[q] <= enqueued_at[y]
  <2>1. PICK q \in items : /\ Inferences[q].scope = s /\ s \in Scopes \ {own}
                           /\ \A y \in items : Inferences[y].scope = last_scope => enqueued_at[q] <= enqueued_at[y]
    BY <1>1, <1>7 DEF StuckIn
  <2>2. q \notin batch
    <3>1. SUFFICES ASSUME q \in batch PROVE FALSE
      OBVIOUS
    <3>2. PICK y \in items : Inferences[y].scope = last_scope /\ enqueued_at[y] < enqueued_at[q]
      BY <3>1, <2>1 DEF Ahead
    <3>. QED BY <2>1, <3>2 DEF Placed
  <2>. QED BY <1>1, <2>1, <2>2
\* What last_scope had first is older than all of the batch's last scope.
<1>8. PICK y \in items : /\ Inferences[y].scope = last_scope
                         /\ \A z \in items : Inferences[z].scope = next => enqueued_at[y] < enqueued_at[z]
  BY <1>1 DEF Ahead
<1>9. ASSUME NEW s \in A
      PROVE  s \in B /\ s # next
  <2>1. PICK q \in rest : /\ Inferences[q].scope = s
                          /\ \A z \in items : Inferences[z].scope = last_scope => enqueued_at[q] <= enqueued_at[z]
    BY <1>7
  <2>2. q \in items /\ enqueued_at[q] <= enqueued_at[y]
    BY <1>1, <1>8, <2>1
  <2>3. \A z \in items : Inferences[z].scope = next => enqueued_at[q] < enqueued_at[z]
    BY <1>8, <2>2 DEF Placed
  <2>4. s # next
    <3>1. ~(enqueued_at[q] < enqueued_at[q])
      BY <2>2 DEF Placed
    <3>. QED BY <2>1, <2>2, <2>3, <3>1
  <2>5. \A z \in rest : Inferences[z].scope = next => after[q] <= after[z]
    BY <1>1, <2>1, <2>3 DEF Placed
  <2>6. s \in Scopes \ {own}
    BY <1>1, <1>9 DEF StuckIn
  <2>. QED BY <1>1, <2>1, <2>4, <2>5, <2>6 DEF StuckIn
<1>10. A \subseteq B /\ next \notin A
  BY <1>9
<1>11. CASE \A z \in rest : Inferences[z].scope # next
  <2>1. Absent(rest, next) = 1
    BY <1>11 DEF Absent
  <2>2. Cardinality(A) <= Cardinality(B)
    BY <1>2, <1>10, FS_Subset
  <2>. QED BY <1>1, <1>2, <1>4, <2>1, <2>2 DEF Patience
<1>12. CASE \E z \in rest : Inferences[z].scope = next
  <2>1. PICK own2 : own2 = {z \in rest : Inferences[z].scope = next}
    OBVIOUS
  <2>2. own2 # {} /\ own2 \subseteq items
    BY <1>1, <1>12, <2>1
  <2>3. Placed(own2)
    BY <2>2, PlacedPart
  <2>4. PICK z \in own2 : \A w \in own2 : enqueued_at[z] <= enqueued_at[w]
    BY <2>2, <2>3, OldestIs
  <2>5. \A w \in rest : Inferences[w].scope = next => after[z] <= after[w]
    BY <1>1, <2>1, <2>4
  <2>6. next \in Scopes \ {own}
    BY <1>1, <1>6 DEF Scopes, Placed
  <2>7. next \in B
    BY <1>1, <2>1, <2>5, <2>6 DEF StuckIn
  <2>8. A \cup {next} \subseteq B /\ IsFiniteSet(A \cup {next}) /\ Cardinality(A \cup {next}) = Cardinality(A) + 1
    BY <1>2, <1>10, <2>7, FS_AddElement
  <2>9. Cardinality(A) + 1 <= Cardinality(B)
    BY <1>2, <2>8, FS_Subset
  <2>10. Absent(rest, next) \in Nat
    BY DEF Absent
  <2>. QED BY <1>1, <1>2, <1>4, <2>9, <2>10 DEF Patience
<1>. QED BY <1>11, <1>12

\* Every other scope, and last_scope if it has nothing, may still pass it over.
LEMMA PatienceBound ==
    ASSUME NEW items \in SUBSET Requests, NEW r \in items, NEW stamp, NEW last \in Scopes
    PROVE  Patience(items, stamp, last, Inferences[r].scope) < Cardinality(Scopes)
<1>1. PICK own, A : own = Inferences[r].scope /\ A = StuckIn(items, stamp, last, own)
  OBVIOUS
<1>2. IsFiniteSet(A) /\ Cardinality(A) \in Nat /\ A \subseteq Scopes /\ own \notin A /\ own \in Scopes
  <2>1. A \subseteq Scopes /\ own \notin A /\ own \in Scopes
    BY <1>1 DEF StuckIn, Scopes
  <2>. QED BY <1>1, <2>1, StuckFinite
<1>3. IsFiniteSet(A \cup {own}) /\ Cardinality(A \cup {own}) = Cardinality(A) + 1 /\ A \cup {own} \subseteq Scopes
  BY <1>2, FS_AddElement
<1>4. CASE Absent(items, last) = 0
  <2>1. Cardinality(A) + 1 <= Cardinality(Scopes) /\ Cardinality(Scopes) \in Nat
    BY <1>3, RequestsFinite, FS_Subset, FS_CardinalityType
  <2>. QED BY <1>1, <1>2, <1>4, <2>1 DEF Patience
<1>5. CASE Absent(items, last) # 0
  <2>1. Absent(items, last) = 1 /\ \A q \in items : Inferences[q].scope # last
    BY <1>5 DEF Absent
  <2>2. last \notin A \cup {own}
    BY <1>1, <2>1 DEF StuckIn
  <2>3. Cardinality(A \cup {own} \cup {last}) = Cardinality(A) + 2 /\ A \cup {own} \cup {last} \subseteq Scopes
    <3>1. Cardinality(A \cup {own} \cup {last}) = Cardinality(A \cup {own}) + 1
      BY <1>3, <2>2, FS_AddElement
    <3>. QED BY <1>2, <1>3, <3>1
  <2>4. Cardinality(A) + 2 <= Cardinality(Scopes) /\ Cardinality(Scopes) \in Nat
    BY <2>3, RequestsFinite, FS_Subset, FS_CardinalityType
  <2>. QED BY <1>1, <1>2, <2>1, <2>4 DEF Patience
<1>. QED BY <1>4, <1>5
------------------------------------------------------------------------------
\* The invariant of the scheduler.
Answers == [status : {"new", "pending", "full", "timeout", "cancelled", "result", "error"}, rows : Seq(Rows)]
Submitted == {r \in Requests : answers[r] # NotSubmitted}
Queued == Waiting \cap _queue
Leaving == Queued \cap expired
Peers(r) == {q \in Queued : Compatible(q, r)}
Urgent(r) == Inferences[r].size = 1 /\ Inferences[r].priority = 0

BatchTypes ==
    /\ enqueued_at \in [Requests -> Nat]
    /\ batchWorker \in {"none", "run", "wait", "batch", "singles"}
    /\ flight \in Seq(Requests) /\ singles \in SUBSET Requests
    /\ answers \in [Requests -> Answers]
    /\ passed \in [Requests -> Nat]

\* A place in the queue is a place among the requests submitted.
QueueSound ==
    /\ \A r \in _queue : r \in Submitted /\ enqueued_at[r] <= Cardinality(Submitted)
    /\ \A q, r \in _queue : enqueued_at[q] = enqueued_at[r] => q = r
    /\ Cardinality(_queue) <= max_queue_size

FlightSound ==
    /\ \A i, j \in DOMAIN flight : Compatible(flight[i], flight[j]) /\ (flight[i] = flight[j] => i = j)
    /\ TotalOf(Items(flight)) > max_batch_size => Len(flight) = 1
    /\ Items(flight) \subseteq Submitted /\ Items(flight) \cap _queue = {}

\* No caller waits without a worker that gets to it.
WorkerSound ==
    /\ batchWorker \notin {"batch", "singles"} => flight = <<>>
    /\ singles \subseteq Items(flight) /\ (batchWorker # "singles" => singles = {})
    /\ batchWorker = "singles" => Items(flight) \cap Waiting \subseteq singles
    /\ batchWorker = "none" => _queue = {}
    /\ Waiting \subseteq _queue \cup Items(flight)

RowsSound == \A r \in Requests : answers[r].status = "result" => answers[r].rows = input_array(r)

\* An urgent request that was passed over is the oldest, and how often it was and may
\* still be adds up to no more than the other scopes and those that gave up allow.
TurnOf(r) ==
    /\ passed[r] < Cardinality(Scopes) + Cardinality(GaveUp)
    /\ r \in _queue /\ passed[r] > 0 =>
          /\ \A q \in Queued : Inferences[q].priority = 0 => enqueued_at[r] <= enqueued_at[q]
          /\ last_scope \in Scopes
          /\ passed[r] <= Patience(Peers(r), enqueued_at, last_scope, Inferences[r].scope) + Cardinality(GaveUp)
TurnsSound ==
    \A r \in Requests : /\ r \notin Submitted => passed[r] = 0
                        /\ r \in Waiting /\ Urgent(r) => TurnOf(r)

BatchInv == BatchTypes /\ QueueSound /\ FlightSound /\ WorkerSound /\ RowsSound /\ TurnsSound

LEMMA QueuePlaced == ASSUME BatchTypes, QueueSound PROVE Placed(_queue) /\ _queue \subseteq Requests
BY DEF BatchTypes, QueueSound, Placed, _queue

LEMMA AnswerIs ==
    /\ \A s \in {"new", "pending", "full", "timeout", "cancelled", "result", "error"} : Answer(s) \in Answers
    /\ \A s : Answer(s).status = s
    /\ \A s, t : s # t => Answer(s) # Answer(t)
    /\ Pending = Answer("pending") /\ NotSubmitted = Answer("new")
<1>1. \A s : Answer(s).status = s
  BY DEF Answer
<1>2. <<>> \in Seq(Rows)
  OBVIOUS
<1>. QED BY <1>1, <1>2 DEF Answer, Answers, Pending, NotSubmitted

LEMMA TimedOutIs ==
    ASSUME BatchTypes
    PROVE  /\ TimedOut \in [Requests -> Answers]
           /\ \A r \in Requests : TimedOut[r] = IF r \in Leaving THEN Answer("timeout") ELSE answers[r]
           /\ Active = Queued \ Leaving /\ Active \subseteq _queue /\ Leaving \subseteq Queued /\ Queued \subseteq Waiting
           /\ Queued \subseteq _queue /\ _queue \subseteq Requests
<1>1. \A r \in Requests : (r \in _queue /\ answers[r] = Pending /\ r \in expired) <=> r \in Leaving
  BY DEF Leaving, Queued, Waiting
<1>2. \A r \in Requests : TimedOut[r] = IF r \in Leaving THEN Answer("timeout") ELSE answers[r]
  BY <1>1 DEF TimedOut
<1>3. TimedOut \in [Requests -> Answers]
  <2>1. \A r \in Requests : (IF r \in Leaving THEN Answer("timeout") ELSE answers[r]) \in Answers
    BY AnswerIs DEF BatchTypes
  <2>2. TimedOut = [r \in Requests |-> TimedOut[r]]
    BY DEF TimedOut
  <2>. QED BY <1>2, <2>1, <2>2
<1>4. Active = Queued \ Leaving
  BY DEF Active, Queued, Leaving, Waiting, _queue
<1>. QED BY <1>2, <1>3, <1>4 DEF Leaving, Queued, _queue

LEMMA KeepIs ==
    ASSUME BatchTypes, QueueSound, NEW pool, pool \subseteq _queue, Keep(pool)
    PROVE  /\ enqueued_at' \in [Requests -> Nat] /\ _queue' = pool
           /\ \A r \in pool : enqueued_at'[r] = enqueued_at[r]
           /\ Cardinality(_queue') <= max_queue_size
<1>1. \A r \in Requests : enqueued_at'[r] = IF r \in pool THEN enqueued_at[r] ELSE 0
  BY DEF Keep
<1>2. enqueued_at' \in [Requests -> Nat]
  BY DEF Keep, BatchTypes
<1>3. _queue \subseteq Requests /\ \A r \in _queue : enqueued_at[r] # 0
  BY DEF _queue
<1>4. _queue' = pool
  BY <1>1, <1>3 DEF _queue
<1>5. Cardinality(pool) <= Cardinality(_queue) /\ Cardinality(pool) \in Nat /\ Cardinality(_queue) \in Nat
  BY <1>3, RequestsFinite, FS_Subset
<1>6. Cardinality(pool) <= max_queue_size
  BY <1>5, BatchAssumption DEF QueueSound
<1>. QED BY <1>1, <1>2, <1>3, <1>4, <1>6

\* What times out is no longer waiting; nothing else changes.
LEMMA TimedOutSets ==
    ASSUME BatchTypes, QueueSound, RowsSound, answers' = TimedOut
    PROVE  /\ answers' \in [Requests -> Answers] /\ Waiting' = Waiting \ Leaving /\ Submitted' = Submitted
           /\ GaveUp' = GaveUp \cup Leaving /\ RowsSound'
<1>1. \A r \in Requests : answers'[r] = IF r \in Leaving THEN Answer("timeout") ELSE answers[r]
  BY TimedOutIs
<1>2. answers' \in [Requests -> Answers]
  BY TimedOutIs
<1>3. \A r \in Leaving : r \in Requests /\ answers[r] = Pending
  BY DEF Leaving, Queued, Waiting
<1>4. Waiting' = Waiting \ Leaving
  BY <1>1, AnswerIs DEF Waiting
<1>5. Submitted' = Submitted
  BY <1>1, <1>3, AnswerIs DEF Submitted
<1>6. GaveUp' = GaveUp \cup Leaving
  BY <1>1, <1>3, AnswerIs DEF GaveUp
<1>7. RowsSound'
  BY <1>1, AnswerIs DEF RowsSound
<1>. QED BY <1>2, <1>4, <1>5, <1>6, <1>7

\* Those that leave the queue unserved have given up, so the turns they leave add up.
LEMMA TurnsKept ==
    ASSUME BatchInv, BatchTypes', passed' = passed, last_scope' = last_scope,
           GaveUp \subseteq GaveUp', Queued \ Queued' \subseteq GaveUp', Submitted \subseteq Submitted',
           \A p \in Queued \cap Queued' : enqueued_at'[p] = enqueued_at[p],
           \A p \in Waiting' : p \in Waiting \/ p \notin Submitted,
           NEW q, Queued' \subseteq Queued \cup {q},
           q \in Queued' /\ q \notin Queued => /\ q \notin Submitted
                                          /\ \A p \in Queued \cap Queued' : enqueued_at[p] <= enqueued_at'[q]
    PROVE  TurnsSound'
<1>1. /\ Queued \subseteq Requests /\ Queued' \subseteq Requests /\ GaveUp \subseteq Requests /\ GaveUp' \subseteq Requests
      /\ Submitted \subseteq Requests
  BY DEF Queued, Waiting, GaveUp, Submitted
<1>2. GaveUp \cap Queued = {}
  BY AnswerIs DEF Queued, GaveUp, Waiting
<1>3. Cardinality(GaveUp) \in Nat /\ Cardinality(GaveUp') \in Nat /\ Cardinality(Scopes) \in Nat
      /\ IsFiniteSet(GaveUp) /\ IsFiniteSet(GaveUp')
  BY <1>1, RequestsFinite, FS_CardinalityType
<1>4. Cardinality(GaveUp) <= Cardinality(GaveUp')
  BY <1>3, FS_Subset
<1>5. ASSUME NEW r \in Requests, r \notin Submitted' PROVE passed'[r] = 0
  BY <1>5 DEF BatchInv, TurnsSound
<1>6. ASSUME NEW r \in Requests, r \in Waiting', Urgent(r) PROVE TurnOf(r)'
  <2>1. CASE r \notin Submitted
    <3>1. passed'[r] = 0
      BY <2>1 DEF BatchInv, TurnsSound
    <3>2. Cardinality(Scopes) > 0
      <4>1. Scopes # {}
        BY DEF Scopes
      <4>. QED BY <1>3, <4>1, RequestsFinite, FS_EmptySet
    <3>. QED BY <1>3, <3>1, <3>2 DEF TurnOf
  <2>2. CASE r \in Submitted
    <3>1. r \in Waiting /\ TurnOf(r)
      BY <1>6, <2>2 DEF BatchInv, TurnsSound
    <3>2. passed[r] \in Nat /\ passed'[r] = passed[r]
      BY DEF BatchInv, BatchTypes
    <3>3. passed'[r] < Cardinality(Scopes) + Cardinality(GaveUp')
      BY <1>3, <1>4, <3>1, <3>2 DEF TurnOf
    <3>4. ASSUME r \in _queue', passed'[r] > 0
          PROVE  /\ \A p \in Queued' : Inferences[p].priority = 0 => enqueued_at'[r] <= enqueued_at'[p]
                 /\ last_scope' \in Scopes
                 /\ passed'[r] <= Patience(Peers(r)', enqueued_at', last_scope', Inferences[r].scope) + Cardinality(GaveUp')
      <4>1. r \in Queued' /\ r \in Queued /\ r \in _queue
        BY <1>6, <2>2, <3>4 DEF Queued
      <4>2. /\ \A p \in Queued : Inferences[p].priority = 0 => enqueued_at[r] <= enqueued_at[p]
            /\ last_scope \in Scopes
            /\ passed[r] <= Patience(Peers(r), enqueued_at, last_scope, Inferences[r].scope) + Cardinality(GaveUp)
        BY <3>1, <3>2, <3>4, <4>1 DEF TurnOf
      <4>3. \A p \in Queued' : Inferences[p].priority = 0 => enqueued_at'[r] <= enqueued_at'[p]
        <5>1. enqueued_at'[r] = enqueued_at[r]
          BY <4>1
        <5>2. ASSUME NEW p \in Queued', Inferences[p].priority = 0 PROVE enqueued_at'[r] <= enqueued_at'[p]
          <6>1. CASE p \in Queued
            BY <4>2, <5>1, <5>2, <6>1
          <6>2. CASE p \notin Queued
            <7>1. p = q /\ q \in Queued' /\ q \notin Queued
              BY <6>2
            <7>. QED BY <4>1, <5>1, <7>1
          <6>. QED BY <6>1, <6>2
        <5>. QED BY <5>2
      <4>4. PICK items, more, rest, stamp, after, own, last :
               /\ items = Peers(r) /\ more = Peers(r)' /\ rest = items \cap Queued'
               /\ stamp = enqueued_at /\ after = enqueued_at' /\ own = Inferences[r].scope /\ last = last_scope
        OBVIOUS
      <4>5. items \in SUBSET Requests /\ rest \in SUBSET items /\ rest \in SUBSET Requests /\ items \subseteq Queued
        BY <1>1, <4>4 DEF Peers
      <4>6. \A p \in rest : after[p] = stamp[p]
        BY <4>4, <4>5
      <4>7. Patience(items, stamp, last, own) <= Patience(rest, after, last, own) + Cardinality(items \ rest)
        BY <4>5, <4>6, SomeLeave
      <4>8. Patience(rest, after, last, own) <= Patience(more, after, last, own)
        <5>1. r \in rest
          BY <4>1, <4>4 DEF Peers, Compatible
        <5>2. rest \subseteq more /\ more \subseteq rest \cup {q}
          BY <4>4 DEF Peers
        <5>3. \A p \in Requests : after[p] \in Nat /\ (p \in rest => after[p] <= after[p])
          BY <4>4 DEF BatchTypes
        <5>4. CASE q \in Queued' /\ q \notin Queued
          <6>1. \A p \in rest : after[p] = after[p] /\ after[p] \in Nat /\ after[p] <= after[q]
            BY <4>4, <4>5, <4>6, <5>3, <5>4
          <6>2. q \in Requests /\ after[q] \in Nat
            BY <1>1, <5>3, <5>4
          <6>. QED BY <4>4, <4>5, <5>1, <5>2, <6>1, <6>2, OneArrives
        <5>5. CASE ~(q \in Queued' /\ q \notin Queued)
          <6>1. more \subseteq rest
            BY <4>4, <5>2, <5>5 DEF Peers
          <6>2. more = rest
            BY <5>2, <6>1
          <6>3. Patience(rest, after, last, own) \in Nat
            BY StuckFinite DEF Patience
          <6>. QED BY <6>2, <6>3
        <5>. QED BY <5>4, <5>5
      <4>9. Cardinality(GaveUp) + Cardinality(items \ rest) <= Cardinality(GaveUp')
        <5>1. items \ rest \subseteq GaveUp' /\ GaveUp \cap (items \ rest) = {} /\ items \ rest \in SUBSET Requests
          BY <1>2, <4>4, <4>5
        <5>2. PICK G, H, D : G = GaveUp /\ H = GaveUp' /\ D = items \ rest
          OBVIOUS
        <5>3. IsFiniteSet(G) /\ IsFiniteSet(H) /\ IsFiniteSet(D) /\ G \cup D \subseteq H /\ G \cap D = {}
          BY <1>3, <5>1, <5>2, RequestsFinite
        <5>4. Cardinality(G \cup D) = Cardinality(G) + Cardinality(D) - 0 /\ Cardinality(G \cup D) <= Cardinality(H)
          BY <5>3, FS_Union, FS_Subset, FS_EmptySet
        <5>5. Cardinality(G) \in Nat /\ Cardinality(D) \in Nat
          BY <5>3, FS_CardinalityType
        <5>. QED BY <5>2, <5>4, <5>5
      <4>10. /\ Patience(items, stamp, last, own) \in Nat /\ Patience(rest, after, last, own) \in Nat
             /\ Patience(more, after, last, own) \in Nat /\ Cardinality(items \ rest) \in Nat
        <5>1. items \ rest \in SUBSET Requests
          BY <4>5
        <5>. QED BY <5>1, StuckFinite, RequestsFinite DEF Patience
      <4>11. passed[r] <= Patience(items, stamp, last, own) + Cardinality(GaveUp)
        BY <4>2, <4>4
      <4>12. passed[r] <= Patience(more, after, last, own) + Cardinality(GaveUp')
        BY <1>3, <3>2, <4>7, <4>8, <4>9, <4>10, <4>11
      <4>13. passed'[r] <= Patience(Peers(r)', enqueued_at', last_scope', Inferences[r].scope) + Cardinality(GaveUp')
        BY <3>2, <4>4, <4>12
      <4>. QED BY <4>2, <4>3, <4>13
    <3>. QED BY <3>3, <3>4 DEF TurnOf
  <2>. QED BY <2>1, <2>2
<1>. QED BY <1>5, <1>6 DEF TurnsSound, Urgent

LEMMA QueueKept ==
    ASSUME BatchTypes, QueueSound, enqueued_at' = enqueued_at, Submitted \subseteq Submitted'
    PROVE  QueueSound' /\ _queue' = _queue
<1>1. _queue' = _queue
  BY DEF _queue
<1>2. Submitted \in SUBSET Requests /\ Submitted' \in SUBSET Requests
  BY DEF Submitted
<1>3. Cardinality(Submitted) <= Cardinality(Submitted') /\ Cardinality(Submitted) \in Nat /\ Cardinality(Submitted') \in Nat
  BY <1>2, RequestsFinite, FS_Subset
<1>4. \A r \in _queue : enqueued_at[r] \in Nat
  BY DEF BatchTypes, _queue
<1>. QED BY <1>1, <1>3, <1>4 DEF QueueSound

\* Part of the queue leaves it.
LEMMA QueueLeaves ==
    ASSUME BatchTypes, QueueSound, NEW pool, pool \subseteq _queue, Keep(pool), Submitted' = Submitted
    PROVE  QueueSound'
BY KeepIs DEF QueueSound

LEMMA FlightKept ==
    ASSUME FlightSound, flight' = flight, Submitted \subseteq Submitted', Items(flight) \cap _queue' = {}
    PROVE  FlightSound'
BY DEF FlightSound

LEMMA FlightGone ==
    ASSUME flight' = <<>>
    PROVE  FlightSound' /\ Items(flight') = {}
<1>1. Items(<<>>) = {} /\ DOMAIN <<>> = {}
  BY DEF Items
<1>2. ~(TotalOf({}) > max_batch_size)
  BY TotalIs, BatchAssumption
<1>. QED BY <1>1, <1>2 DEF FlightSound

LEMMA CancelCallerKeeps == ASSUME BatchInv, NEW r \in Requests, CancelCaller(r) PROVE BatchInv'
<1>. USE DEF BatchInv
<1>1. answers[r] = Pending /\ answers' = [answers EXCEPT ![r] = Answer("cancelled")] /\ enqueued_at' = enqueued_at
      /\ UNCHANGED <<batchWorker, last_scope, flight, singles, passed>>
  BY DEF CancelCaller
<1>2. answers' \in [Requests -> Answers] /\ \A q \in Requests : answers'[q] = IF q = r THEN Answer("cancelled") ELSE answers[q]
  BY <1>1, AnswerIs DEF BatchTypes
<1>3. BatchTypes'
  BY <1>1, <1>2 DEF BatchTypes
<1>4. Waiting' = Waiting \ {r} /\ r \in Waiting
  BY <1>1, <1>2, AnswerIs DEF Waiting
<1>5. Submitted' = Submitted
  BY <1>1, <1>2, AnswerIs DEF Submitted
<1>6. GaveUp' = GaveUp \cup {r}
  BY <1>1, <1>2, AnswerIs DEF GaveUp
<1>7. QueueSound' /\ _queue' = _queue
  BY <1>1, <1>5, QueueKept
<1>8. FlightSound'
  BY <1>1, <1>5, <1>7, FlightKept DEF FlightSound
<1>9. WorkerSound'
  BY <1>1, <1>4, <1>7 DEF WorkerSound
<1>10. RowsSound'
  BY <1>2, AnswerIs DEF RowsSound
<1>11. TurnsSound'
  <2>1. Queued' \subseteq Queued \cup {r} /\ Queued \ Queued' \subseteq GaveUp' /\ r \notin Queued'
    BY <1>4, <1>6, <1>7 DEF Queued
  <2>. QED BY <1>1, <1>3, <1>4, <1>5, <1>6, <2>1, TurnsKept
<1>. QED BY <1>3, <1>7, <1>8, <1>9, <1>10, <1>11

LEMMA TimePassesKeeps == ASSUME BatchInv, UNCHANGED <<enqueued_at, flight, singles, answers, last_scope, passed>>,
                                batchWorker' = batchWorker \/ (batchWorker = "wait" /\ batchWorker' = "run")
                         PROVE  BatchInv'
<1>. USE DEF BatchInv
<1>1. _queue' = _queue /\ Waiting' = Waiting /\ Submitted' = Submitted /\ GaveUp' = GaveUp /\ Queued' = Queued
  BY DEF _queue, Waiting, Submitted, GaveUp, Queued
<1>2. BatchTypes'
  BY DEF BatchTypes
<1>3. QueueSound'
  BY <1>1, QueueKept
<1>4. FlightSound'
  BY <1>1, FlightKept DEF FlightSound
<1>5. WorkerSound' /\ RowsSound'
  BY <1>1 DEF WorkerSound, RowsSound
<1>6. TurnsSound'
  <2>1. PICK q : q = Requests
    OBVIOUS
  <2>2. Queued' \subseteq Queued \cup {q}
    BY <1>1
  <2>. QED BY <1>1, <1>2, <2>2, TurnsKept
<1>. QED BY <1>2, <1>3, <1>4, <1>5, <1>6

LEMMA SubmitKeeps == ASSUME BatchInv, NEW r \in Requests, submit(r) PROVE BatchInv'
<1>. USE DEF BatchInv
<1>1. answers[r] = NotSubmitted /\ UNCHANGED <<last_scope, flight, singles, passed>>
  BY DEF submit
<1>2. r \notin Submitted /\ r \notin Waiting /\ r \notin _queue /\ r \notin Queued /\ r \notin Leaving /\ r \notin Items(flight) /\ r \notin Active
  <2>1. r \notin Submitted /\ r \notin Waiting
    BY <1>1, AnswerIs DEF Submitted, Waiting
  <2>. QED BY <2>1, TimedOutIs DEF QueueSound, FlightSound, Queued, Leaving
<1>3. ASSUME NEW s \in {"full", "pending"}, answers' = [TimedOut EXCEPT ![r] = Answer(s)]
      PROVE  /\ answers' \in [Requests -> Answers] /\ RowsSound' /\ Submitted' = Submitted \cup {r}
             /\ Waiting' = (Waiting \ Leaving) \cup (IF s = "pending" THEN {r} ELSE {})
             /\ GaveUp' = GaveUp \cup Leaving
  <2>1. \A q \in Requests : answers'[q] = IF q = r THEN Answer(s) ELSE IF q \in Leaving THEN Answer("timeout") ELSE answers[q]
    BY <1>3, TimedOutIs
  <2>2. answers' \in [Requests -> Answers]
    BY <1>3, TimedOutIs, AnswerIs
  <2>3. \A q \in Leaving : q \in Requests /\ answers[q] = Pending
    BY DEF Leaving, Queued, Waiting
  <2>4. RowsSound'
    BY <2>1, AnswerIs DEF RowsSound
  <2>5. Submitted' = Submitted \cup {r}
    BY <2>1, <2>3, AnswerIs DEF Submitted
  <2>6. Waiting' = (Waiting \ Leaving) \cup (IF s = "pending" THEN {r} ELSE {})
    BY <1>2, <2>1, <2>3, AnswerIs DEF Waiting
  <2>7. GaveUp' = GaveUp \cup Leaving
    BY <1>1, <2>1, <2>3, AnswerIs DEF GaveUp
  <2>. QED BY <2>2, <2>4, <2>5, <2>6, <2>7
<1>4. Active = Queued \ Leaving /\ Active \subseteq _queue /\ Leaving \subseteq Queued /\ _queue \subseteq Requests /\ Queued \subseteq _queue
  BY TimedOutIs
<1>5. Cardinality(Submitted) \in Nat /\ Cardinality(Submitted \cup {r}) = Cardinality(Submitted) + 1
  <2>1. Submitted \in SUBSET Requests
    BY DEF Submitted
  <2>. QED BY <1>2, <2>1, RequestsFinite, FS_AddElement
<1>6. CASE Cardinality(Active) >= max_queue_size
  <2>1. Keep(Active) /\ answers' = [TimedOut EXCEPT ![r] = Answer("full")] /\ UNCHANGED batchWorker
    BY <1>6 DEF submit
  <2>2. /\ answers' \in [Requests -> Answers] /\ RowsSound' /\ Submitted' = Submitted \cup {r}
        /\ Waiting' = Waiting \ Leaving /\ GaveUp' = GaveUp \cup Leaving
    BY <1>3, <2>1
  <2>3. /\ enqueued_at' \in [Requests -> Nat] /\ _queue' = Active /\ Cardinality(_queue') <= max_queue_size
        /\ \A q \in Active : enqueued_at'[q] = enqueued_at[q]
    BY <1>4, <2>1, KeepIs
  <2>4. BatchTypes'
    BY <1>1, <2>1, <2>2, <2>3 DEF BatchTypes
  <2>5. QueueSound'
    <3>1. \A q \in _queue : enqueued_at[q] \in Nat
      BY <1>4 DEF BatchTypes
    <3>. QED BY <1>4, <1>5, <2>2, <2>3, <3>1 DEF QueueSound
  <2>6. FlightSound'
    BY <1>1, <1>4, <2>2, <2>3, FlightKept DEF FlightSound
  <2>7. Queued' = Active
    BY <1>4, <2>2, <2>3 DEF Queued
  <2>8. WorkerSound'
    BY <1>1, <1>4, <2>1, <2>2, <2>3 DEF WorkerSound, Queued
  <2>9. TurnsSound'
    BY <1>1, <1>2, <1>4, <2>2, <2>3, <2>4, <2>7, TurnsKept
  <2>. QED BY <2>2, <2>4, <2>5, <2>6, <2>8, <2>9
<1>7. CASE ~(Cardinality(Active) >= max_queue_size)
  <2>1. /\ enqueued_at' = [q \in Requests |-> IF q = r THEN 1 + Cardinality({p \in Requests : answers[p] # NotSubmitted})
                                              ELSE IF q \in Active THEN enqueued_at[q] ELSE 0]
        /\ answers' = [TimedOut EXCEPT ![r] = Pending]
        /\ batchWorker' = IF batchWorker = "none" THEN "run" ELSE batchWorker
    BY <1>7 DEF submit
  <2>2. /\ answers' \in [Requests -> Answers] /\ RowsSound' /\ Submitted' = Submitted \cup {r}
        /\ Waiting' = (Waiting \ Leaving) \cup {r} /\ GaveUp' = GaveUp \cup Leaving
    <3>1. answers' = [TimedOut EXCEPT ![r] = Answer("pending")]
      BY <2>1, AnswerIs
    <3>. QED BY <1>3, <3>1
  <2>3. \A q \in Requests : enqueued_at'[q] = IF q = r THEN 1 + Cardinality(Submitted) ELSE IF q \in Active THEN enqueued_at[q] ELSE 0
    BY <2>1 DEF Submitted
  <2>4. enqueued_at' \in [Requests -> Nat]
    <3>1. \A q \in Requests : enqueued_at[q] \in Nat
      BY DEF BatchTypes
    <3>2. \A q \in Requests : enqueued_at'[q] \in Nat
      BY <1>5, <2>3, <3>1
    <3>. QED BY <2>1, <3>2
  <2>5. _queue' = Active \cup {r}
    <3>1. \A q \in Active : enqueued_at[q] # 0
      BY <1>4 DEF _queue
    <3>. QED BY <1>4, <1>5, <2>3, <3>1 DEF _queue
  <2>6. BatchTypes'
    BY <1>1, <2>1, <2>2, <2>4 DEF BatchTypes
  <2>7. /\ \A q \in Active : enqueued_at'[q] = enqueued_at[q] /\ enqueued_at[q] <= Cardinality(Submitted) /\ enqueued_at[q] \in Nat
        /\ enqueued_at'[r] = Cardinality(Submitted) + 1
    <3>1. ASSUME NEW q \in Active
          PROVE  enqueued_at'[q] = enqueued_at[q] /\ enqueued_at[q] <= Cardinality(Submitted) /\ enqueued_at[q] \in Nat
      <4>1. q \in Requests /\ q # r /\ q \in _queue
        BY <1>2, <1>4
      <4>2. enqueued_at'[q] = enqueued_at[q]
        BY <2>3, <4>1
      <4>3. enqueued_at[q] <= Cardinality(Submitted) /\ enqueued_at[q] \in Nat
        BY <4>1 DEF QueueSound, BatchTypes
      <4>. QED BY <4>2, <4>3
    <3>2. enqueued_at'[r] = Cardinality(Submitted) + 1
      BY <1>5, <2>3
    <3>. QED BY <3>1, <3>2
  <2>8. QueueSound'
    <3>1. \A q \in _queue' : q \in Submitted' /\ enqueued_at'[q] <= Cardinality(Submitted')
      BY <1>4, <1>5, <2>2, <2>5, <2>7 DEF QueueSound
    <3>2. \A p, q \in _queue' : enqueued_at'[p] = enqueued_at'[q] => p = q
      BY <1>4, <1>5, <2>5, <2>7 DEF QueueSound
    <3>3. Cardinality(_queue') <= max_queue_size
      <4>1. Active \in SUBSET Requests
        BY <1>4
      <4>2. Cardinality(Active) \in Nat /\ Cardinality(Active \cup {r}) = Cardinality(Active) + 1
        BY <1>2, <4>1, RequestsFinite, FS_AddElement
      <4>. QED BY <1>7, <2>5, <4>2, BatchAssumption
    <3>. QED BY <3>1, <3>2, <3>3 DEF QueueSound
  <2>9. FlightSound'
    BY <1>1, <1>2, <1>4, <2>2, <2>5, FlightKept DEF FlightSound
  <2>10. WorkerSound'
    BY <1>1, <1>2, <1>4, <2>1, <2>2, <2>5 DEF WorkerSound, Queued
  <2>11. Queued' = Active \cup {r}
    BY <1>4, <2>2, <2>5 DEF Queued
  <2>12. TurnsSound'
    <3>1. \A p \in Active : enqueued_at[p] <= enqueued_at'[r]
      BY <1>5, <2>7
    <3>2. Queued \cap Queued' = Active /\ Queued \ Queued' \subseteq GaveUp'
      BY <1>2, <1>4, <2>2, <2>11
    <3>3. Queued' \subseteq Queued \cup {r} /\ \A p \in Waiting' : p \in Waiting \/ p \notin Submitted
      BY <1>2, <1>4, <2>2, <2>11
    <3>. QED BY <1>1, <1>2, <2>2, <2>6, <2>7, <3>1, <3>2, <3>3, TurnsKept
  <2>. QED BY <2>2, <2>6, <2>8, <2>9, <2>10, <2>12
<1>. QED BY <1>6, <1>7

LEMMA BatchFailsKeeps == ASSUME BatchInv, BatchFails PROVE BatchInv'
<1>. USE DEF BatchInv
<1>1. /\ batchWorker = "batch" /\ UNCHANGED <<enqueued_at, last_scope, answers, passed>>
      /\ singles' = {r \in Requests : answers[r] = Pending /\ r \in Items(flight)}
      /\ batchWorker' = IF singles' = {} THEN "run" ELSE "singles"
      /\ flight' = IF singles' = {} THEN <<>> ELSE flight
  BY DEF BatchFails
<1>2. _queue' = _queue /\ Waiting' = Waiting /\ Submitted' = Submitted /\ GaveUp' = GaveUp /\ Queued' = Queued
  BY <1>1 DEF _queue, Waiting, Submitted, GaveUp, Queued
<1>3. singles' = Waiting \cap Items(flight)
  BY <1>1 DEF Waiting
<1>4. <<>> \in Seq(Requests) /\ singles' \in SUBSET Requests
  BY <1>1
<1>5. BatchTypes'
  BY <1>1, <1>4 DEF BatchTypes
<1>6. QueueSound' /\ RowsSound'
  BY <1>1, <1>2, QueueKept DEF RowsSound
<1>7. FlightSound'
  <2>1. CASE singles' = {}
    BY <1>1, <2>1, FlightGone
  <2>2. CASE singles' # {}
    BY <1>1, <1>2, <2>2, FlightKept DEF FlightSound
  <2>. QED BY <2>1, <2>2
<1>8. WorkerSound'
  <2>1. CASE singles' = {}
    BY <1>1, <1>2, <1>3, <2>1 DEF WorkerSound
  <2>2. CASE singles' # {}
    BY <1>1, <1>2, <1>3, <2>2 DEF WorkerSound
  <2>. QED BY <2>1, <2>2
<1>9. TurnsSound'
  <2>1. PICK q : q = Requests
    OBVIOUS
  <2>2. Queued' \subseteq Queued \cup {q}
    BY <1>2
  <2>. QED BY <1>1, <1>2, <1>5, <2>2, TurnsKept
<1>. QED BY <1>5, <1>6, <1>7, <1>8, <1>9

\* Those of the batch that still wait are answered; nobody in the queue is.
LEMMA AnswersGiven ==
    ASSUME BatchInv, enqueued_at' = enqueued_at, last_scope' = last_scope, passed' = passed, BatchTypes',
           NEW served, served \subseteq Items(flight) \cap Waiting,
           \A r \in Requests : IF r \in served THEN answers'[r].status \in {"result", "error"} ELSE answers'[r] = answers[r]
    PROVE  /\ QueueSound' /\ TurnsSound' /\ _queue' = _queue /\ Waiting' = Waiting \ served /\ Submitted' = Submitted
<1>. USE DEF BatchInv
<1>1. Waiting' = Waiting \ served
  <2>1. \A r \in served : answers'[r] # Pending
    BY AnswerIs DEF Waiting
  <2>. QED BY <2>1 DEF Waiting
<1>2. Submitted' = Submitted
  <2>1. \A r \in served : answers'[r] # NotSubmitted /\ answers[r] # NotSubmitted
    BY AnswerIs DEF Waiting
  <2>. QED BY <2>1 DEF Submitted
<1>3. GaveUp' = GaveUp
  <2>1. \A r \in served : answers'[r].status \notin {"cancelled", "timeout"} /\ answers[r].status \notin {"cancelled", "timeout"}
    BY AnswerIs DEF Waiting
  <2>. QED BY <2>1 DEF GaveUp
<1>4. QueueSound' /\ _queue' = _queue
  BY <1>2, QueueKept
<1>5. Queued' = Queued
  BY <1>1, <1>4 DEF Queued, FlightSound
<1>6. TurnsSound'
  <2>1. PICK q : q = Requests
    OBVIOUS
  <2>2. Queued' \subseteq Queued \cup {q}
    BY <1>5
  <2>. QED BY <1>1, <1>2, <1>3, <1>5, <2>2, TurnsKept
<1>. QED BY <1>1, <1>2, <1>4, <1>6

LEMMA BatchEndsKeeps == ASSUME BatchInv, BatchEnds PROVE BatchInv'
<1>. USE DEF BatchInv
<1>. DEFINE Place(r) == CHOOSE i \in DOMAIN flight : flight[i] = r
<1>1. /\ batchWorker = "batch" /\ batchWorker' = "run" /\ flight' = <<>>
      /\ UNCHANGED <<enqueued_at, last_scope, singles, passed>>
      /\ answers' = [r \in Requests |-> IF answers[r] = Pending /\ r \in Items(flight)
                        THEN [status |-> "result", rows |-> Slice(concatenate(flight), flight, Place(r))]
                        ELSE answers[r]]
  BY DEF BatchEnds
<1>2. PICK served : served = Items(flight) \cap Waiting
  OBVIOUS
<1>3. ASSUME NEW r \in served PROVE Slice(concatenate(flight), flight, Place(r)) = input_array(r)
  <2>1. \E i \in DOMAIN flight : flight[i] = r
    BY <1>2 DEF Items
  <2>2. Place(r) \in DOMAIN flight /\ flight[Place(r)] = r
    BY <2>1
  <2>3. flight \in Seq(Requests) /\ \A i, j \in DOMAIN flight : flight[i] = flight[j] => i = j
    BY DEF BatchTypes, FlightSound
  <2>. HIDE DEF Place
  <2>. QED BY <2>2, <2>3, SliceIs
<1>4. \A r \in Requests : answers'[r] = IF r \in served THEN [status |-> "result", rows |-> input_array(r)] ELSE answers[r]
  <2>1. \A r \in Requests : r \in served <=> answers[r] = Pending /\ r \in Items(flight)
    BY <1>2 DEF Waiting
  <2>. HIDE DEF Place
  <2>. QED BY <1>1, <1>3, <2>1
<1>5. answers' \in [Requests -> Answers]
  <2>1. \A r \in Requests : [status |-> "result", rows |-> input_array(r)] \in Answers /\ answers[r] \in Answers
    BY ArrayIs DEF Answers, BatchTypes
  <2>2. \A r \in Requests : answers'[r] \in Answers
    BY <1>4, <2>1
  <2>. HIDE DEF Place
  <2>. QED BY <1>1, <2>2
<1>. HIDE DEF Place
<1>6. BatchTypes'
  <2>1. <<>> \in Seq(Requests)
    OBVIOUS
  <2>. QED BY <1>1, <1>5, <2>1 DEF BatchTypes
<1>7. ASSUME NEW r \in Requests
      PROVE  IF r \in served THEN answers'[r].status = "result" /\ answers'[r].rows = input_array(r) ELSE answers'[r] = answers[r]
  <2>1. CASE r \in served
    <3>1. answers'[r] = [status |-> "result", rows |-> input_array(r)]
      BY <1>4, <2>1
    <3>. QED BY <2>1, <3>1
  <2>2. CASE r \notin served
    <3>1. answers'[r] = answers[r]
      BY <1>4, <2>2
    <3>. QED BY <2>2, <3>1
  <2>. QED BY <2>1, <2>2
<1>8. /\ QueueSound' /\ TurnsSound' /\ _queue' = _queue /\ Waiting' = Waiting \ served
  BY <1>1, <1>2, <1>6, <1>7, AnswersGiven
<1>9. RowsSound'
  BY <1>7 DEF RowsSound
<1>10. FlightSound'
  BY <1>1, FlightGone
<1>11. WorkerSound'
  <2>1. singles = {}
    BY <1>1 DEF WorkerSound
  <2>. QED BY <1>1, <1>2, <1>8 DEF WorkerSound
<1>. QED BY <1>6, <1>8, <1>9, <1>10, <1>11

LEMMA ExecuteOneKeeps == ASSUME BatchInv, NEW r \in Requests, _execute_one(r) PROVE BatchInv'
<1>. USE DEF BatchInv
<1>1. PICK answer \in {[status |-> "result", rows |-> input_array(r)], Answer("error")} :
         answers' = IF answers[r] = Pending THEN [answers EXCEPT ![r] = answer] ELSE answers
  BY DEF _execute_one
<1>2. /\ batchWorker = "singles" /\ r \in singles /\ singles' = singles \ {r}
      /\ batchWorker' = IF singles' = {} THEN "run" ELSE batchWorker
      /\ flight' = IF singles' = {} THEN <<>> ELSE flight
      /\ UNCHANGED <<enqueued_at, last_scope, passed>>
  BY DEF _execute_one
<1>3. PICK served : served = {r} \cap Waiting
  OBVIOUS
<1>4. \A q \in Requests : answers'[q] = IF q \in served THEN answer ELSE answers[q]
  BY <1>1, <1>3 DEF Waiting, BatchTypes
<1>5. answer \in Answers /\ answer.status \in {"result", "error"} /\ (answer.status = "result" => answer.rows = input_array(r))
  <2>1. [status |-> "result", rows |-> input_array(r)] \in Answers
    BY ArrayIs DEF Answers
  <2>. QED BY <2>1, AnswerIs
<1>6. BatchTypes'
  <2>1. answers' \in [Requests -> Answers]
    BY <1>1, <1>5 DEF BatchTypes
  <2>2. <<>> \in Seq(Requests)
    OBVIOUS
  <2>. QED BY <1>2, <2>1, <2>2 DEF BatchTypes
<1>7. served \subseteq Items(flight) \cap Waiting
  BY <1>2, <1>3 DEF WorkerSound
<1>8. /\ QueueSound' /\ TurnsSound' /\ _queue' = _queue /\ Waiting' = Waiting \ served /\ Submitted' = Submitted
  BY <1>2, <1>4, <1>5, <1>6, <1>7, AnswersGiven
<1>9. RowsSound'
  BY <1>3, <1>4, <1>5 DEF RowsSound
<1>10. FlightSound'
  <2>1. CASE singles' = {}
    BY <1>2, <2>1, FlightGone
  <2>2. CASE singles' # {}
    BY <1>2, <1>8, <2>2, FlightKept DEF FlightSound
  <2>. QED BY <2>1, <2>2
<1>11. WorkerSound'
  <2>1. Items(flight) \cap Waiting \subseteq singles /\ Items(flight) \cap Waiting' \subseteq singles'
    BY <1>2, <1>3, <1>8 DEF WorkerSound
  <2>2. CASE singles' = {}
    BY <1>2, <1>8, <2>1, <2>2 DEF WorkerSound
  <2>3. CASE singles' # {}
    BY <1>2, <1>8, <2>1, <2>3 DEF WorkerSound
  <2>. QED BY <2>2, <2>3
<1>. QED BY <1>6, <1>8, <1>9, <1>10, <1>11
------------------------------------------------------------------------------
LEMMA SeedIs ==
    ASSUME NEW pool, Placed(pool), pool # {}, NEW seed, seed = Seed(pool),
           NEW items, items = Candidates(pool, seed)
    PROVE  /\ seed \in items /\ items \subseteq pool /\ Placed(items) /\ seed = Oldest(items)
           /\ \A r \in pool : Inferences[r].priority = 0 =>
                 Inferences[seed].priority = 0 /\ enqueued_at[seed] <= enqueued_at[r]
<1>1. PICK urgent : urgent = {r \in pool : Inferences[r].priority = 0}
  OBVIOUS
<1>2. Placed(urgent) /\ Placed(items) /\ items \subseteq pool
  BY <1>1, PlacedPart DEF Candidates
<1>3. seed = Oldest(IF urgent # {} THEN urgent ELSE pool)
  BY <1>1 DEF Seed
<1>4. CASE urgent # {}
  <2>1. seed \in urgent /\ \A r \in urgent : enqueued_at[seed] <= enqueued_at[r]
    BY <1>2, <1>3, <1>4, OldestIs
  <2>2. seed \in items /\ items \subseteq urgent
    BY <1>1, <2>1 DEF Candidates, Compatible
  <2>3. seed = Oldest(items)
    BY <1>2, <2>1, <2>2, OldestIs
  <2>. QED BY <1>1, <1>2, <2>1, <2>2, <2>3
<1>5. CASE urgent = {}
  <2>1. seed \in pool /\ \A r \in pool : enqueued_at[seed] <= enqueued_at[r]
    BY <1>3, <1>5, OldestIs
  <2>2. seed \in items
    BY <2>1 DEF Candidates, Compatible
  <2>3. seed = Oldest(items)
    BY <1>2, <2>1, <2>2, OldestIs
  <2>. QED BY <1>1, <1>2, <1>5, <2>2, <2>3
<1>. QED BY <1>4, <1>5

\* The task leaves or waits: only those whose deadline has passed leave the queue.
LEMMA RunStays ==
    ASSUME BatchInv, answers' = TimedOut, Keep(Active), UNCHANGED <<last_scope, flight, singles, passed>>,
           batchWorker = "run", batchWorker' = "wait" \/ (batchWorker' = "none" /\ Active = {})
    PROVE  BatchInv'
<1>. USE DEF BatchInv
<1>1. Active = Queued \ Leaving /\ Active \subseteq _queue /\ Leaving \subseteq Queued /\ _queue \subseteq Requests /\ Queued \subseteq _queue
  BY TimedOutIs
<1>2. /\ answers' \in [Requests -> Answers] /\ Waiting' = Waiting \ Leaving /\ Submitted' = Submitted
      /\ GaveUp' = GaveUp \cup Leaving /\ RowsSound'
  BY TimedOutSets
<1>3. enqueued_at' \in [Requests -> Nat] /\ _queue' = Active /\ \A r \in Active : enqueued_at'[r] = enqueued_at[r]
  BY <1>1, KeepIs
<1>4. BatchTypes'
  BY <1>2, <1>3 DEF BatchTypes
<1>5. QueueSound'
  BY <1>1, <1>2, QueueLeaves
<1>6. FlightSound'
  BY <1>1, <1>2, <1>3, FlightKept DEF FlightSound
<1>7. Queued' = Active
  BY <1>1, <1>2, <1>3 DEF Queued
<1>8. WorkerSound'
  BY <1>1, <1>2, <1>3 DEF WorkerSound, Queued
<1>9. TurnsSound'
  <2>1. PICK q : q = Requests
    OBVIOUS
  <2>2. Queued' \subseteq Queued \cup {q} /\ Queued' \subseteq Queued /\ Queued \ Queued' \subseteq GaveUp'
    BY <1>1, <1>2, <1>7
  <2>. QED BY <1>2, <1>3, <1>4, <1>7, <2>2, TurnsKept
<1>. QED BY <1>2, <1>4, <1>5, <1>6, <1>8, <1>9

\* Each caller that gives up adds to how often a request may be passed over.
LEMMA GaveUpAdds ==
    ASSUME GaveUp' = GaveUp \cup Leaving, NEW gone, gone \subseteq Leaving
    PROVE  /\ Cardinality(GaveUp) \in Nat /\ Cardinality(GaveUp') \in Nat /\ Cardinality(gone) \in Nat
           /\ Cardinality(GaveUp) + Cardinality(gone) <= Cardinality(GaveUp')
<1>1. GaveUp \in SUBSET Requests /\ gone \in SUBSET Requests /\ GaveUp \cup gone \subseteq GaveUp' /\ GaveUp' \in SUBSET Requests
  BY DEF GaveUp, Leaving, Queued, Waiting
<1>2. GaveUp \cap gone = {}
  BY AnswerIs DEF Leaving, Queued, GaveUp, Waiting
<1>3. PICK G, H : G = GaveUp /\ H = GaveUp'
  OBVIOUS
<1>4. /\ IsFiniteSet(G) /\ IsFiniteSet(H) /\ IsFiniteSet(gone)
      /\ Cardinality(G) \in Nat /\ Cardinality(H) \in Nat /\ Cardinality(gone) \in Nat
  BY <1>1, <1>3, RequestsFinite
<1>5. Cardinality(G \cup gone) = Cardinality(G) + Cardinality(gone) - 0
  BY <1>2, <1>3, <1>4, FS_Union, FS_EmptySet
<1>6. Cardinality(G \cup gone) <= Cardinality(H)
  BY <1>1, <1>3, <1>4, FS_Subset
<1>. QED BY <1>3, <1>4, <1>5, <1>6

\* The oldest of some candidates is left out of a batch of them.
LeavesOut(items, batch, r) ==
    /\ items = Candidates(Active, r) /\ Placed(items) /\ r = Oldest(items) /\ r \notin batch
    /\ batch \subseteq items /\ \A x \in batch : Ahead(items, Inferences[x].scope)
    /\ \A q \in items \ batch : enqueued_at'[q] = enqueued_at[q]

LEMMA LeftOut ==
    ASSUME BatchInv, NEW r \in Active, Urgent(r), GaveUp' = GaveUp \cup Leaving,
           NEW items, NEW batch, LeavesOut(items, batch, r), NEW x \in batch
    PROVE  /\ Inferences[x].scope \in Scopes
           /\ passed[r] + 1 <= Patience(items \ batch, enqueued_at', Inferences[x].scope, Inferences[r].scope)
                                  + Cardinality(GaveUp')
           /\ passed[r] + 1 < Cardinality(Scopes) + Cardinality(GaveUp')
<1>. USE DEF BatchInv
<1>1. Active = Queued \ Leaving /\ Active \subseteq Requests /\ Leaving \subseteq Queued /\ Queued \subseteq Waiting
      /\ Active \subseteq _queue /\ Queued \subseteq Requests
  BY TimedOutIs
<1>2. TurnOf(r) /\ passed[r] \in Nat
  BY <1>1 DEF TurnsSound, BatchTypes
<1>0. PICK n : n = passed[r] /\ n \in Nat
  BY <1>2
<1>3. PICK peers, own, last, stamp, after, A, B, next :
         /\ peers = Peers(r) /\ own = Inferences[r].scope /\ last = last_scope /\ stamp = enqueued_at
         /\ after = enqueued_at' /\ next = Inferences[x].scope
         /\ A = Patience(items, stamp, last, own) /\ B = Patience(items \ batch, after, next, own)
  OBVIOUS
<1>13. /\ items = Candidates(Active, r) /\ Placed(items) /\ r = Oldest(items) /\ r \notin batch
       /\ batch \in SUBSET items /\ \A y \in batch : Ahead(items, Inferences[y].scope)
       /\ \A q \in items \ batch : enqueued_at'[q] = enqueued_at[q]
  BY DEF LeavesOut
<1>4. items \subseteq Active /\ r \in items /\ items \in SUBSET Requests /\ items \ batch \in SUBSET Requests
  BY <1>1, <1>13 DEF Candidates, Compatible
<1>5. peers \in SUBSET Requests /\ items \in SUBSET peers /\ peers \ items \subseteq Leaving
  BY <1>1, <1>3, <1>13 DEF Peers, Candidates
<1>6. PICK P : P = Patience(peers, stamp, last, own) /\ P \in Nat /\ A \in Nat /\ B \in Nat
  BY <1>3, StuckFinite DEF Patience
<1>7. A + 1 <= B /\ next \in Scopes
  <2>1. PICK C : C = Cardinality(StuckIn(items, stamp, last, own)) /\ C \in Nat
    BY StuckFinite
  <2>2. Absent(items, last) = 0 /\ C + 1 <= B
    BY <1>3, <1>4, <1>13, <2>1, PassedOver
  <2>3. A = C + 0
    BY <1>3, <2>1, <2>2 DEF Patience
  <2>4. next \in Scopes
    BY <1>3, <1>4, <1>13 DEF Scopes
  <2>. QED BY <2>1, <2>2, <2>3, <2>4
<1>8. P <= A + Cardinality(peers \ items)
  <2>1. \A q \in items : stamp[q] = stamp[q]
    OBVIOUS
  <2>. QED BY <1>3, <1>5, <1>6, <2>1, SomeLeave
<1>9. PICK G, H, D : /\ G = Cardinality(GaveUp) /\ H = Cardinality(GaveUp') /\ D = Cardinality(peers \ items)
                     /\ G \in Nat /\ H \in Nat /\ D \in Nat /\ G + D <= H
  BY <1>5, GaveUpAdds
<1>10. n + 1 <= B + H
  <2>1. CASE n = 0
    BY <1>6, <1>7, <1>9, <2>1
  <2>2. CASE n # 0
    <3>1. passed[r] > 0 /\ r \in _queue
      BY <1>0, <1>1, <2>2
    <3>2. n <= P + G
      BY <1>0, <1>2, <1>3, <1>6, <1>9, <3>1 DEF TurnOf
    <3>3. P <= A + D /\ A + 1 <= B /\ G + D <= H
      BY <1>7, <1>8, <1>9
    <3>4. P \in Nat /\ A \in Nat /\ B \in Nat /\ G \in Nat /\ D \in Nat /\ H \in Nat
      BY <1>6, <1>9
    <3>5. P + G + 1 <= B + H
      BY <3>3, <3>4
    <3>. QED BY <1>0, <3>2, <3>4, <3>5
  <2>. QED BY <2>1, <2>2
<1>11. PICK S \in Nat : S = Cardinality(Scopes) /\ B < S
  <2>1. r \in items \ batch
    BY <1>4, <1>13
  <2>2. B < Cardinality(Scopes)
    BY <1>3, <1>4, <1>7, <2>1, PatienceBound
  <2>. QED BY <2>2, RequestsFinite, FS_CardinalityType
<1>12. n + 1 < S + H
  BY <1>0, <1>6, <1>9, <1>10, <1>11
<1>. QED BY <1>0, <1>3, <1>7, <1>9, <1>10, <1>11, <1>12

\* The task dispatches a batch.
LEMMA RunDispatches ==
    ASSUME BatchInv, answers' = TimedOut, Active # {}, batchWorker = "run",
           NEW seed, seed = Seed(Active), NEW batch, batch = _take_fair_batch(Active, seed),
           Keep(Active \ Items(batch)), last_scope' = Inferences[batch[Len(batch)]].scope, flight' = batch,
           singles' = IF Len(batch) = 1 THEN Items(batch) ELSE {},
           batchWorker' = IF Len(batch) = 1 THEN "singles" ELSE "batch",
           passed' = IF seed \in Items(batch) THEN passed ELSE [passed EXCEPT ![seed] = @ + 1]
    PROVE  BatchInv'
<1>. USE DEF BatchInv
<1>1. /\ Active = Queued \ Leaving /\ Active \subseteq _queue /\ Leaving \subseteq Queued /\ _queue \subseteq Requests
      /\ Queued \subseteq _queue /\ Queued \subseteq Waiting
  BY TimedOutIs
<1>2. /\ answers' \in [Requests -> Answers] /\ Waiting' = Waiting \ Leaving /\ Submitted' = Submitted
      /\ GaveUp' = GaveUp \cup Leaving /\ RowsSound'
  BY TimedOutSets
<1>3. PICK items : items = Candidates(Active, seed)
  OBVIOUS
<1>4. Placed(Active)
  BY <1>1, QueuePlaced, PlacedPart
<1>5. /\ seed \in items /\ items \subseteq Active /\ Placed(items) /\ seed = Oldest(items)
      /\ \A r \in Active : Inferences[r].priority = 0 =>
            Inferences[seed].priority = 0 /\ enqueued_at[seed] <= enqueued_at[r]
  BY <1>3, <1>4, SeedIs
<1>6. /\ batch \in Seq(items) /\ Len(batch) \in Nat \ {0} /\ Items(batch) \subseteq items
      /\ \A i, j \in DOMAIN batch : batch[i] = batch[j] => i = j
      /\ TotalOf(Items(batch)) > max_batch_size => Len(batch) = 1
      /\ \A r \in items : r = Oldest(items) /\ Inferences[r].size = 1 /\ r \notin Items(batch) =>
            \A x \in Items(batch) : Ahead(items, Inferences[x].scope)
  <2>1. items # {}
    BY <1>5
  <2>2. items = Candidates(Active, seed) /\ Placed(items) /\ batch = _take_fair_batch(Active, seed)
    BY <1>3, <1>5
  <2>3. FairBatch(items, batch)
    BY <2>1, <2>2, BatchIs
  <2>. QED BY <2>3 DEF FairBatch
<1>7. PICK x \in Items(batch) : last_scope' = Inferences[x].scope
  <2>1. Len(batch) \in DOMAIN batch
    BY <1>6
  <2>. QED BY <2>1 DEF Items
<1>8. PICK rest : rest = Active \ Items(batch) /\ rest \subseteq _queue /\ Keep(rest)
  BY <1>1
<1>9. enqueued_at' \in [Requests -> Nat] /\ _queue' = rest /\ \A r \in rest : enqueued_at'[r] = enqueued_at[r]
  BY <1>8, KeepIs
<1>10. flight' \in Seq(Requests) /\ Items(batch) \subseteq Requests /\ seed \in Requests
  <2>1. items \subseteq Requests
    BY <1>1, <1>5
  <2>2. batch \in Seq(Requests)
    BY <1>6, <2>1
  <2>. QED BY <1>5, <1>6, <2>1, <2>2
<1>11. passed' \in [Requests -> Nat] /\ \A r \in Requests : passed'[r] = IF r = seed /\ seed \notin Items(batch) THEN passed[r] + 1 ELSE passed[r]
  BY <1>10 DEF BatchTypes
<1>12. BatchTypes'
  BY <1>2, <1>9, <1>10, <1>11 DEF BatchTypes
<1>13. QueueSound'
  BY <1>2, <1>8, QueueLeaves
<1>14. FlightSound'
  <2>1. \A i \in DOMAIN batch : batch[i] \in items
    BY <1>6
  <2>2. \A q \in items : Compatible(q, seed)
    BY <1>3 DEF Candidates
  <2>3. \A i, j \in DOMAIN batch : Compatible(batch[i], batch[j])
    BY <2>1, <2>2 DEF Compatible
  <2>4. Items(batch) \subseteq Submitted' /\ Items(batch) \cap _queue' = {}
    BY <1>1, <1>2, <1>5, <1>6, <1>8, <1>9 DEF QueueSound
  <2>. QED BY <1>6, <2>3, <2>4 DEF FlightSound
<1>15. Waiting = Queued /\ Waiting' = Active
  <2>1. Items(flight) = {}
    BY DEF WorkerSound, Items
  <2>2. Waiting = Queued
    BY <2>1 DEF WorkerSound, Queued
  <2>. QED BY <1>1, <1>2, <2>2
<1>16. WorkerSound'
  BY <1>8, <1>9, <1>15 DEF WorkerSound
<1>17. Queued' = rest
  BY <1>8, <1>9, <1>15 DEF Queued
<1>18. ASSUME NEW r \in Requests, r \notin Submitted' PROVE passed'[r] = 0
  <2>1. r # seed
    BY <1>1, <1>2, <1>5, <1>18 DEF QueueSound
  <2>. QED BY <1>2, <1>11, <1>18, <2>1 DEF TurnsSound
<1>19. ASSUME NEW r \in Requests, r \in Waiting', Urgent(r) PROVE TurnOf(r)'
  <2>1. r \in Active /\ TurnOf(r)
    BY <1>1, <1>15, <1>19 DEF TurnsSound
  <2>2. CASE r = seed /\ seed \notin Items(batch)
    <3>1. passed'[r] = passed[r] + 1
      BY <1>11, <2>2
    <3>2. \A z \in Items(batch) : Ahead(items, Inferences[z].scope)
      BY <1>5, <1>6, <1>19, <2>2 DEF Urgent
    <3>3. \A q \in items \ Items(batch) : enqueued_at'[q] = enqueued_at[q]
      BY <1>5, <1>8, <1>9
    <3>4. /\ last_scope' \in Scopes
          /\ passed[r] + 1 <= Patience(items \ Items(batch), enqueued_at', last_scope', Inferences[r].scope) + Cardinality(GaveUp')
          /\ passed[r] + 1 < Cardinality(Scopes) + Cardinality(GaveUp')
      <4>1. PICK chosen : chosen = Items(batch) /\ chosen \in SUBSET items /\ x \in chosen /\ r \notin chosen
        BY <1>6, <1>7, <2>2
      <4>2. items = Candidates(Active, r) /\ r = Oldest(items) /\ Placed(items)
        BY <1>3, <1>5, <2>2
      <4>3. \A z \in chosen : Ahead(items, Inferences[z].scope)
        BY <3>2, <4>1
      <4>4. \A q \in items \ chosen : enqueued_at'[q] = enqueued_at[q]
        BY <3>3, <4>1
      <4>5. /\ Inferences[x].scope \in Scopes
            /\ passed[r] + 1 <= Patience(items \ chosen, enqueued_at', Inferences[x].scope, Inferences[r].scope)
                                   + Cardinality(GaveUp')
            /\ passed[r] + 1 < Cardinality(Scopes) + Cardinality(GaveUp')
        <5>1. LeavesOut(items, chosen, r)
          BY <4>1, <4>2, <4>3, <4>4 DEF LeavesOut
        <5>. QED BY <1>2, <1>19, <2>1, <4>1, <5>1, LeftOut
      <4>. QED BY <1>7, <4>1, <4>5
    <3>5. Peers(r)' = items \ Items(batch)
      BY <1>3, <1>5, <1>8, <1>17, <2>2 DEF Peers, Candidates
    <3>6. \A q \in Queued' : Inferences[q].priority = 0 => enqueued_at'[r] <= enqueued_at'[q]
      <4>1. r \in rest
        BY <1>8, <2>1, <2>2
      <4>. QED BY <1>5, <1>8, <1>9, <1>17, <2>2, <4>1
    <3>. QED BY <3>1, <3>4, <3>5, <3>6 DEF TurnOf
  <2>3. CASE ~(r = seed /\ seed \notin Items(batch))
    <3>1. passed'[r] = passed[r] /\ passed[r] \in Nat
      BY <1>11, <2>3 DEF BatchTypes
    <3>2. PICK G, H, S \in Nat : G = Cardinality(GaveUp) /\ H = Cardinality(GaveUp') /\ S = Cardinality(Scopes) /\ G <= H
      <4>1. PICK D : D = Cardinality({}) /\ D = 0
        BY FS_EmptySet
      <4>2. PICK G, H : /\ G = Cardinality(GaveUp) /\ H = Cardinality(GaveUp') /\ G \in Nat /\ H \in Nat /\ G + D <= H
        BY <1>2, <4>1, GaveUpAdds
      <4>. QED BY <4>1, <4>2, RequestsFinite, FS_CardinalityType
    <3>3. passed'[r] < Cardinality(Scopes) + Cardinality(GaveUp')
      BY <2>1, <3>1, <3>2 DEF TurnOf
    <3>4. ~(r \in _queue' /\ passed'[r] > 0)
      <4>1. SUFFICES ASSUME r \in rest, passed[r] > 0 PROVE FALSE
        BY <1>9, <3>1
      <4>2. /\ \A q \in Queued : Inferences[q].priority = 0 => enqueued_at[r] <= enqueued_at[q]
        BY <1>1, <2>1, <4>1 DEF TurnOf
      <4>3. enqueued_at[seed] <= enqueued_at[r] /\ enqueued_at[r] <= enqueued_at[seed]
        BY <1>1, <1>5, <1>19, <2>1, <4>2 DEF Urgent
      <4>4. r = seed
        BY <1>4, <1>5, <2>1, <4>3 DEF Placed
      <4>. QED BY <1>8, <2>3, <4>1, <4>4
    <3>. QED BY <3>3, <3>4 DEF TurnOf
  <2>. QED BY <2>2, <2>3
<1>20. TurnsSound'
  BY <1>18, <1>19 DEF TurnsSound, Urgent
<1>. QED BY <1>2, <1>12, <1>13, <1>14, <1>16, <1>20

LEMMA RunKeeps == ASSUME BatchInv, _run PROVE BatchInv'
<1>1. batchWorker = "run" /\ answers' = TimedOut
  BY DEF _run
<1>2. CASE /\ Active = {} /\ batchWorker' = "none" /\ Keep({})
           /\ UNCHANGED <<wake, last_scope, flight, singles, passed>>
  BY <1>1, <1>2, RunStays
<1>3. CASE /\ batchWorker' = "wait" /\ Keep(Active)
           /\ UNCHANGED <<last_scope, flight, singles, passed>>
  BY <1>1, <1>3, RunStays
<1>4. CASE /\ Active # {}
           /\ LET seed == Seed(Active)
                  batch == _take_fair_batch(Active, seed)
              IN /\ Keep(Active \ Items(batch))
                 /\ last_scope' = Inferences[batch[Len(batch)]].scope
                 /\ flight' = batch
                 /\ singles' = IF Len(batch) = 1 THEN Items(batch) ELSE {}
                 /\ batchWorker' = IF Len(batch) = 1 THEN "singles" ELSE "batch"
                 /\ passed' = IF seed \in Items(batch) THEN passed ELSE [passed EXCEPT ![seed] = @ + 1]
  <2>1. PICK seed, batch : seed = Seed(Active) /\ batch = _take_fair_batch(Active, seed)
    OBVIOUS
  <2>2. /\ Keep(Active \ Items(batch)) /\ last_scope' = Inferences[batch[Len(batch)]].scope /\ flight' = batch
        /\ singles' = IF Len(batch) = 1 THEN Items(batch) ELSE {}
        /\ batchWorker' = IF Len(batch) = 1 THEN "singles" ELSE "batch"
        /\ passed' = IF seed \in Items(batch) THEN passed ELSE [passed EXCEPT ![seed] = @ + 1]
    BY <1>4, <2>1
  <2>. QED BY <1>1, <1>4, <2>1, <2>2, RunDispatches
<1>. QED BY <1>2, <1>3, <1>4 DEF _run

LEMMA BatchStarts == BatchInit => BatchInv
<1>1. SUFFICES ASSUME BatchInit PROVE BatchInv
  OBVIOUS
<1>2. \A r \in Requests : answers[r] = Answer("new") /\ enqueued_at[r] = 0 /\ passed[r] = 0
  <2>1. Answer("new") = NotSubmitted
    BY DEF NotSubmitted
  <2>2. /\ answers = [r \in Requests |-> NotSubmitted] /\ enqueued_at = [r \in Requests |-> 0]
        /\ passed = [r \in Requests |-> 0]
    BY <1>1 DEF BatchInit
  <2>. QED BY <2>1, <2>2
<1>3. _queue = {} /\ Waiting = {} /\ Submitted = {}
  BY <1>2, AnswerIs DEF _queue, Waiting, Submitted
<1>4. Items(flight) = {} /\ DOMAIN flight = {} /\ flight = <<>> /\ singles = {} /\ batchWorker = "none"
  <2>1. flight = <<>> /\ singles = {} /\ batchWorker = "none"
    BY <1>1 DEF BatchInit
  <2>. QED BY <2>1 DEF Items
<1>5. BatchTypes
  <2>1. flight \in Seq(Requests) /\ singles \in SUBSET Requests
    BY <1>4
  <2>2. enqueued_at \in [Requests -> Nat] /\ passed \in [Requests -> Nat]
    BY <1>1 DEF BatchInit
  <2>3. answers \in [Requests -> Answers]
    <3>1. NotSubmitted \in Answers
      BY AnswerIs DEF NotSubmitted
    <3>2. answers = [r \in Requests |-> NotSubmitted]
      BY <1>1 DEF BatchInit
    <3>. QED BY <3>1, <3>2
  <2>. QED BY <1>4, <2>1, <2>2, <2>3 DEF BatchTypes
<1>6. QueueSound
  BY <1>3, FS_EmptySet, BatchAssumption DEF QueueSound
<1>7. FlightSound
  BY <1>3, <1>4, TotalIs, BatchAssumption DEF FlightSound
<1>8. WorkerSound /\ RowsSound
  BY <1>2, <1>3, <1>4, AnswerIs DEF WorkerSound, RowsSound
<1>9. TurnsSound
  BY <1>2, <1>3 DEF TurnsSound
<1>. QED BY <1>5, <1>6, <1>7, <1>8, <1>9 DEF BatchInv

LEMMA BatchHolds == BatchInv /\ [BatchNext]_batchVars => BatchInv'
<1>1. SUFFICES ASSUME BatchInv, [BatchNext]_batchVars PROVE BatchInv'
  OBVIOUS
<1>2. ASSUME NEW r \in Requests, submit(r) PROVE BatchInv'
  BY <1>1, <1>2, SubmitKeeps
<1>3. ASSUME NEW r \in Requests, CancelCaller(r) PROVE BatchInv'
  BY <1>1, <1>3, CancelCallerKeeps
<1>4. ASSUME NEW r \in Requests, TimePasses(r) PROVE BatchInv'
  BY <1>1, <1>4, TimePassesKeeps DEF TimePasses
<1>5. ASSUME NEW r \in Requests, _execute_one(r) PROVE BatchInv'
  BY <1>1, <1>5, ExecuteOneKeeps
<1>6. CASE _run
  BY <1>1, <1>6, RunKeeps
<1>7. CASE WaitEnds
  BY <1>1, <1>7, TimePassesKeeps DEF WaitEnds
<1>8. CASE BatchEnds
  BY <1>1, <1>8, BatchEndsKeeps
<1>9. CASE BatchFails
  BY <1>1, <1>9, BatchFailsKeeps
<1>10. CASE UNCHANGED batchVars
  BY <1>1, <1>10, TimePassesKeeps DEF batchVars
<1>. QED BY <1>1, <1>2, <1>3, <1>4, <1>5, <1>6, <1>7, <1>8, <1>9, <1>10 DEF BatchNext

LEMMA BatchInvIsEnough == BatchInv => BatchesExact
<1>1. SUFFICES ASSUME BatchInv PROVE BatchesExact
  OBVIOUS
<1>. USE <1>1 DEF BatchInv
<1>2. ASSUME NEW r \in Waiting
      PROVE  /\ (r \in _queue) # (r \in Items(flight))
             /\ r \in Items(flight) => (batchWorker = "batch" \/ r \in singles)
             /\ r \in _queue => batchWorker # "none"
  <2>1. r \in _queue \/ r \in Items(flight)
    BY DEF WorkerSound
  <2>2. ~(r \in _queue /\ r \in Items(flight))
    BY DEF FlightSound
  <2>3. r \in _queue => batchWorker # "none"
    BY DEF WorkerSound
  <2>4. r \in Items(flight) => (batchWorker = "batch" \/ r \in singles)
    <3>1. SUFFICES ASSUME r \in Items(flight), batchWorker # "batch" PROVE r \in singles
      OBVIOUS
    <3>2. Items(<<>>) = {}
      BY DEF Items
    <3>. QED BY <3>1, <3>2 DEF WorkerSound
  <2>. QED BY <2>1, <2>2, <2>3, <2>4
<1>3. ASSUME NEW r \in Waiting, Inferences[r].size = 1 /\ Inferences[r].priority = 0
      PROVE  passed[r] < Cardinality(Scopes) + Cardinality(GaveUp)
  <2>1. r \in Requests
    BY DEF Waiting
  <2>. QED BY <1>3, <2>1 DEF TurnsSound, Urgent, TurnOf
<1>. QED BY <1>2, <1>3 DEF BatchesExact, RowsSound, FlightSound, QueueSound

\* BatchesExact, for any requests, scopes, weights, batch and queue size: a caller is queued
\* or executed but not both, it gets its own rows, and the oldest urgent request is passed
\* over no more often than the other scopes and the callers that give up allow.
THEOREM BatchesAreExact == BatchSpec => []BatchesExact
<1>. QED BY BatchStarts, BatchHolds, BatchInvIsEnough, PTL DEF BatchSpec
==============================================================================
