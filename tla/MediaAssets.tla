----------------------------- MODULE MediaAssets -----------------------------
(***************************************************************************)
(* Media assets and sources, the objects and secrets behind them, and the  *)
(* retention sweep.  An asset is two objects, a record and two retention   *)
(* records, written and deleted one after the other: a step may raise, the *)
(* compensation of a creation may raise too, and a process may crash.      *)
(***************************************************************************)
EXTENDS Integers, Sequences, FiniteSets

CONSTANTS
    Assets,          \* asset ids
    Sources,         \* media source ids
    ObjectStores,    \* "local" and "s3": what delete answers for a missing object
    MaxAssetFaults   \* bound on steps that raise and on crashes

\* Ids of assets and of sources carry different prefixes.
ASSUME AssetAssumption == Assets \cap Sources = {}

VARIABLES
    objectStore,
    lasting,         \* assets whose original is kept longer than their preview
    assets,          \* asset -> NoAsset or [original, preview, deleted]
    objects,         \* keys stored: <<asset, category>>
    retention,       \* key -> "none", "live", "expired" or "deleted"
    indexed,         \* assets with records in the search index
    activeRuns,      \* asset -> number of non-terminal runs
    sources,         \* sources with a record
    secrets,         \* sources with a secret
    areq,            \* asset or source -> the request at work on it
    sweep,           \* the retention sweep: [at, keys, deleted]
    torn,            \* assets and sources whose request crashed or failed to undo
    afaults

assetVars == <<objectStore, lasting, assets, objects, retention, indexed, activeRuns, sources,
               secrets, areq, sweep, torn, afaults>>

NoAsset == [at |-> "none"]
Idle == [at |-> "idle"]
Resting == [at |-> "idle", keys |-> {}, deleted |-> {}]
Categories == {"raw", "preview"}
ObjectsOf(a) == {<<a, c>> : c \in Categories}
Goes(x, r) == areq' = [areq EXCEPT ![x] = r]
At(x, at) == [areq[x] EXCEPT !.at = at]
------------------------------------------------------------------------------
(* The object store *)

put(k) == objects' = objects \cup {k}

\* The local store answers False for an object that is not there, S3 True.
Removed(k) == objectStore = "s3" \/ k \in objects

delete(k) == objects' = objects \ {k}
------------------------------------------------------------------------------
(* The state store *)

track_object(k) == retention' = [retention EXCEPT ![k] = "live"]

Marked(keys) == {k \in keys : retention[k] \in {"live", "expired"}}

\* What mark_objects_deleted writes into the asset: deleted_at only when the
\* preview goes with or after the original.
AfterMark(a, keys) ==
    LET raw == <<a, "raw">> \in Marked(keys)
        preview == <<a, "preview">> \in Marked(keys) IN
    IF assets[a] = NoAsset THEN NoAsset
    ELSE [assets[a] EXCEPT !.original = @ /\ ~ raw,
                           !.preview = @ /\ ~ preview,
                           !.deleted = @ \/ (preview /\ (raw \/ ~ assets[a].original))]

mark_objects_deleted(keys) ==
    /\ retention' = [k \in DOMAIN retention |-> IF k \in Marked(keys) THEN "deleted" ELSE retention[k]]
    /\ assets' = [a \in Assets |-> AfterMark(a, keys)]

has_non_terminal_run(a) == activeRuns[a] > 0
------------------------------------------------------------------------------
(* create_asset and create_asset_from_path *)

\* kind is "bytes" for create_asset and "path" for create_asset_from_path.
Upload(a, kind) ==
    /\ areq[a] = Idle /\ assets[a] = NoAsset /\ retention[<<a, "raw">>] = "none"
    /\ Goes(a, [at |-> "put_raw", kind |-> kind])
    /\ UNCHANGED <<objectStore, assets, objects, retention, indexed, activeRuns, sources,
                   secrets, sweep, torn, afaults>>

AfterStep == [put_raw |-> "put_preview", put_preview |-> "record", record |-> "track_raw",
    track_raw |-> "track_preview", track_preview |-> "consume"]

StepEffect(a) ==
    LET at == areq[a].at IN
    /\ objects' = IF at = "put_raw" THEN objects \cup {<<a, "raw">>}
                  ELSE IF at = "put_preview" THEN objects \cup {<<a, "preview">>} ELSE objects
    /\ assets' = IF at = "record"
                 THEN [assets EXCEPT ![a] = [original |-> TRUE, preview |-> TRUE, deleted |-> FALSE]]
                 ELSE assets
    /\ retention' = IF at = "track_raw" THEN [retention EXCEPT ![<<a, "raw">>] = "live"]
                    ELSE IF at = "track_preview" THEN [retention EXCEPT ![<<a, "preview">>] = "live"]
                    ELSE retention

UploadStep(a) ==
    /\ areq[a].at \in DOMAIN AfterStep
    /\ StepEffect(a)
    /\ Goes(a, At(a, AfterStep[areq[a].at]))
    /\ UNCHANGED <<objectStore, indexed, activeRuns, sources, secrets, sweep, torn, afaults>>

\* policy.consume and the audit entry.
Uploaded(a) ==
    /\ areq[a].at = "consume"
    /\ Goes(a, Idle)
    /\ UNCHANGED <<objectStore, assets, objects, retention, indexed, activeRuns, sources, secrets,
                   sweep, torn, afaults>>

\* A step of the creation raises.  put_raw is outside the try: nothing to undo.
UploadRaises(a) ==
    /\ areq[a].at \in DOMAIN AfterStep \cup {"consume"} /\ afaults < MaxAssetFaults
    /\ afaults' = afaults + 1
    /\ Goes(a, IF areq[a].at = "put_raw" THEN Idle ELSE At(a, "undo"))
    /\ UNCHANGED <<objectStore, assets, objects, retention, indexed, activeRuns, sources, secrets,
                   sweep, torn>>

\* Mutant.
Undone_KeepsPreview(a) == objects \ {<<a, "raw">>}

Undone(a) == objects \ ObjectsOf(a)

\* The except clause: only create_asset marks the retention records it wrote;
\* those of create_asset_from_path stay live and are swept one day.
Undo(a) ==
    /\ areq[a].at = "undo"
    /\ objects' = Undone(a)
    /\ assets' = [assets EXCEPT ![a] = NoAsset]
    /\ retention' = IF areq[a].kind = "bytes"
                    THEN [k \in DOMAIN retention |-> IF k \in ObjectsOf(a) /\ retention[k] # "none"
                                                     THEN "deleted" ELSE retention[k]]
                    ELSE retention
    /\ Goes(a, Idle)
    /\ UNCHANGED <<objectStore, indexed, activeRuns, sources, secrets, sweep, torn, afaults>>

\* A suppressed exception: one of the deletions of the except clause has no effect.
UndoFails(a) ==
    /\ areq[a].at = "undo" /\ afaults < MaxAssetFaults
    /\ afaults' = afaults + 1
    /\ \E left \in ObjectsOf(a) : objects' = Undone(a) \cup ({left} \cap objects)
    /\ assets' = [assets EXCEPT ![a] = NoAsset]
    /\ torn' = torn \cup {a}
    /\ Goes(a, Idle)
    /\ UNCHANGED <<objectStore, retention, indexed, activeRuns, sources, secrets, sweep>>
------------------------------------------------------------------------------
(* Deleting, reading and running an asset *)

delete_asset(a) ==
    /\ areq[a] = Idle /\ assets[a] # NoAsset
    /\ ~ has_non_terminal_run(a)
    /\ Goes(a, [at |-> "delete_raw", preview |-> assets[a].preview])
    /\ UNCHANGED <<objectStore, assets, objects, retention, indexed, activeRuns, sources, secrets,
                   sweep, torn, afaults>>

DeleteStep(a) ==
    LET r == areq[a]
        keys == IF r.preview THEN ObjectsOf(a) ELSE {<<a, "raw">>} IN
    /\ \/ /\ r.at = "delete_raw" /\ delete(<<a, "raw">>)
          /\ Goes(a, At(a, IF r.preview THEN "delete_preview" ELSE "mark"))
          /\ UNCHANGED <<assets, retention, indexed>>
       \/ /\ r.at = "delete_preview" /\ delete(<<a, "preview">>)
          /\ Goes(a, At(a, "mark"))
          /\ UNCHANGED <<assets, retention, indexed>>
       \/ /\ r.at = "mark" /\ mark_objects_deleted(keys)
          /\ Goes(a, At(a, "delete_record"))
          /\ UNCHANGED <<objects, indexed>>
       \/ /\ r.at = "delete_record"
          /\ assets' = [assets EXCEPT ![a] = NoAsset]
          /\ Goes(a, At(a, "delete_index"))
          /\ UNCHANGED <<objects, retention, indexed>>
       \/ /\ r.at = "delete_index"
          /\ indexed' = indexed \ {a}
          /\ Goes(a, Idle)
          /\ UNCHANGED <<objects, retention, assets>>
    /\ UNCHANGED <<objectStore, activeRuns, sources, secrets, sweep, torn, afaults>>

get_asset_preview(a) == assets[a] # NoAsset /\ ~ assets[a].deleted /\ assets[a].preview

\* create_run: the asset is read, the run inserted later; the worker indexes it.
create_run(a) ==
    /\ assets[a] # NoAsset /\ ~ assets[a].deleted /\ assets[a].original
    /\ activeRuns[a] = 0 /\ a \notin indexed
    /\ activeRuns' = [activeRuns EXCEPT ![a] = 1]
    /\ UNCHANGED <<objectStore, assets, objects, retention, indexed, sources, secrets, areq, sweep,
                   torn, afaults>>

EndRun(a) ==
    /\ activeRuns[a] > 0
    /\ activeRuns' = [activeRuns EXCEPT ![a] = 0]
    /\ indexed' = indexed \cup {a}
    /\ UNCHANGED <<objectStore, assets, objects, retention, sources, secrets, areq, sweep, torn,
                   afaults>>
------------------------------------------------------------------------------
(* Retention *)

\* raw_media_days and preview_days are set apart: the original expires before the
\* preview with the defaults (7 and 30) and for every temporary asset, and after
\* it for another asset of a deployment that keeps originals longer.
First(a) == <<a, IF a \in lasting THEN "preview" ELSE "raw">>

\* Time passes.
Expire(k) ==
    /\ retention[k] = "live"
    /\ k = First(k[1]) \/ retention[First(k[1])] # "live"
    /\ retention' = [retention EXCEPT ![k] = "expired"]
    /\ UNCHANGED <<objectStore, assets, objects, indexed, activeRuns, sources, secrets, areq, sweep,
                   torn, afaults>>

expired_object_keys == {k \in DOMAIN retention : retention[k] = "expired"}

SweepStart ==
    /\ sweep = Resting /\ expired_object_keys # {}
    /\ sweep' = [at |-> "delete", keys |-> expired_object_keys, deleted |-> {}]
    /\ UNCHANGED <<objectStore, assets, objects, retention, indexed, activeRuns, sources, secrets,
                   areq, torn, afaults>>

\* Only what delete answered True for is marked.
SweepDelete(k) ==
    /\ sweep.at = "delete" /\ k \in sweep.keys
    /\ delete(k)
    /\ sweep' = [sweep EXCEPT !.keys = @ \ {k}, !.deleted = IF Removed(k) THEN @ \cup {k} ELSE @]
    /\ UNCHANGED <<objectStore, assets, retention, indexed, activeRuns, sources, secrets, areq,
                   torn, afaults>>

SweepMark ==
    /\ sweep.at = "delete" /\ sweep.keys = {}
    /\ mark_objects_deleted(sweep.deleted)
    /\ sweep' = Resting
    /\ UNCHANGED <<objectStore, objects, indexed, activeRuns, sources, secrets, areq, torn, afaults>>
------------------------------------------------------------------------------
(* Sources *)

create_source(s) ==
    /\ areq[s] = Idle /\ s \notin sources \cup secrets
    /\ secrets' = secrets \cup {s}
    /\ Goes(s, [at |-> "record"])
    /\ UNCHANGED <<objectStore, assets, objects, retention, indexed, activeRuns, sources, sweep,
                   torn, afaults>>

SourceStored(s) ==
    /\ areq[s].at = "record"
    /\ sources' = sources \cup {s}
    /\ Goes(s, [at |-> "audit"])
    /\ UNCHANGED <<objectStore, assets, objects, retention, indexed, activeRuns, secrets, sweep,
                   torn, afaults>>

SourceCreated(s) ==
    /\ areq[s].at = "audit" /\ Goes(s, Idle)
    /\ UNCHANGED <<objectStore, assets, objects, retention, indexed, activeRuns, sources, secrets,
                   sweep, torn, afaults>>

SourceRaises(s) ==
    /\ areq[s].at \in {"record", "audit"} /\ afaults < MaxAssetFaults
    /\ afaults' = afaults + 1
    /\ sources' = sources \ {s}
    /\ secrets' = secrets \ {s}
    /\ Goes(s, Idle)
    /\ UNCHANGED <<objectStore, assets, objects, retention, indexed, activeRuns, sweep, torn>>

\* The record goes first; the secret is left behind by a crash in between.
delete_source(s) ==
    /\ areq[s] = Idle /\ s \in sources
    /\ sources' = sources \ {s}
    /\ Goes(s, [at |-> "secret"])
    /\ UNCHANGED <<objectStore, assets, objects, retention, indexed, activeRuns, secrets, sweep,
                   torn, afaults>>

SecretDeleted(s) ==
    /\ areq[s].at = "secret"
    /\ secrets' = secrets \ {s}
    /\ Goes(s, Idle)
    /\ UNCHANGED <<objectStore, assets, objects, retention, indexed, activeRuns, sources, sweep,
                   torn, afaults>>

\* probe_source and get_source_preview read the secret of a source they found.
probe_source(s) == s \in sources
------------------------------------------------------------------------------
\* A crash ends the request at work on an asset or a source, or the sweep.
CrashRequest(x) ==
    /\ areq[x] # Idle /\ afaults < MaxAssetFaults
    /\ Goes(x, Idle)
    /\ torn' = torn \cup {x}
    /\ afaults' = afaults + 1
    /\ UNCHANGED <<objectStore, assets, objects, retention, indexed, activeRuns, sources, secrets,
                   sweep>>

CrashSweep ==
    /\ sweep # Resting /\ afaults < MaxAssetFaults
    /\ sweep' = Resting
    /\ torn' = torn \cup {k[1] : k \in sweep.deleted}
    /\ afaults' = afaults + 1
    /\ UNCHANGED <<objectStore, assets, objects, retention, indexed, activeRuns, sources, secrets,
                   areq>>

AssetInit ==
    /\ objectStore \in ObjectStores /\ lasting \in SUBSET Assets
    /\ assets = [a \in Assets |-> NoAsset] /\ objects = {}
    /\ retention = [k \in UNION {ObjectsOf(a) : a \in Assets} |-> "none"]
    /\ indexed = {} /\ activeRuns = [a \in Assets |-> 0]
    /\ sources = {} /\ secrets = {}
    /\ areq = [x \in Assets \cup Sources |-> Idle]
    /\ sweep = Resting /\ torn = {} /\ afaults = 0

AssetNext ==
    /\ UNCHANGED lasting
    /\ \/ \E a \in Assets :
           \/ \E kind \in {"bytes", "path"} : Upload(a, kind)
           \/ UploadStep(a) \/ Uploaded(a) \/ UploadRaises(a) \/ Undo(a) \/ UndoFails(a)
           \/ delete_asset(a) \/ DeleteStep(a)
           \/ create_run(a) \/ EndRun(a)
       \/ \E k \in DOMAIN retention : Expire(k) \/ SweepDelete(k)
       \/ SweepStart \/ SweepMark \/ CrashSweep
       \/ \E s \in Sources :
           \/ create_source(s) \/ SourceStored(s) \/ SourceCreated(s) \/ SourceRaises(s)
           \/ delete_source(s) \/ SecretDeleted(s)
       \/ \E x \in Assets \cup Sources : CrashRequest(x)

AssetSpec == AssetInit /\ [][AssetNext]_assetVars
------------------------------------------------------------------------------
(* Types *)

MediaAsset == [original : BOOLEAN, preview : BOOLEAN, deleted : BOOLEAN]
ObjectRetentionRecord == {"none", "live", "expired", "deleted"}

\* Every record keeps its type.
AssetTypeOK ==
    /\ assets \in [Assets -> MediaAsset \cup {NoAsset}]
    /\ retention \in [DOMAIN retention -> ObjectRetentionRecord]
    /\ objects \subseteq DOMAIN retention
    /\ sources \subseteq Sources /\ secrets \subseteq Sources
------------------------------------------------------------------------------
(* Properties *)

\* However uploads, deletions and sweeps overlap and fail: an object nobody works
\* on is known to the sweep, or was left by a crash or a failed undo; an asset
\* offers its media and its preview only while they are stored; a deleted asset
\* lost both, and one that lost both is deleted unless its original outlasts its
\* preview (deleted_at is written with the preview only); and a source has its
\* secret.
MediaAccounted ==
    /\ AssetTypeOK
    /\ \A k \in objects : areq[k[1]] = Idle /\ k[1] \notin torn => retention[k] \in {"live", "expired"}
    /\ \A a \in Assets : assets[a] # NoAsset /\ areq[a] = Idle /\ a \notin torn =>
           /\ assets[a].original => <<a, "raw">> \in objects \cup sweep.deleted
           /\ get_asset_preview(a) => <<a, "preview">> \in objects \cup sweep.deleted
           /\ assets[a].deleted => ~ assets[a].original /\ ~ assets[a].preview
           /\ ~ assets[a].original /\ ~ assets[a].preview /\ a \notin lasting => assets[a].deleted
    /\ \A s \in Sources : areq[s] = Idle /\ s \notin torn => (probe_source(s) <=> s \in secrets)
==============================================================================
