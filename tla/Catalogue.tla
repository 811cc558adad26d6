------------------------------ MODULE Catalogue ------------------------------
(***************************************************************************)
(* The shared catalogues: pipeline versions, which every API and worker    *)
(* process synchronises from the code it has installed; dataset versions;  *)
(* and saved searches.  A transaction is one step; what a request read     *)
(* before may be old when it writes.                                       *)
(***************************************************************************)
EXTENDS Integers, Sequences, FiniteSets

CONSTANTS
    Hosts,           \* processes
    Installed,       \* host -> version -> [digest, status]: its PipelineRegistry
    DatasetItems,    \* dataset version -> [assets, quality]
    Searches,        \* saved search ids
    SearchNames,     \* names they may have
    Editors          \* callers of the dataset and search services

Versions == UNION {DOMAIN Installed[h] : h \in Hosts}
Digests == UNION {{Installed[h][v].digest : v \in DOMAIN Installed[h]} : h \in Hosts}

ASSUME CatalogueAssumption ==
    /\ \A h \in Hosts : \A v \in DOMAIN Installed[h] :
           Installed[h][v] \in [digest : Digests, status : {"draft", "validated", "approved", "active", "retired"}]
    /\ "none" \notin SearchNames

VARIABLES
    pipelines,       \* version -> NoVersion or [digest, status]
    hostReq,         \* host -> the request it serves
    datasetStatus,   \* the dataset's status
    datasetVersions, \* dataset version -> "none" or its status
    saved,           \* saved search -> NoSearch or [name, revision]
    gone,            \* saved searches that were deleted
    ereq             \* editor -> the request it serves

catalogueVars == <<pipelines, hostReq, datasetStatus, datasetVersions, saved, gone, ereq>>

NoVersion == [status |-> "none", digest |-> "none"]
NoSearch == [name |-> "none", revision |-> 0]
Free == [at |-> "idle"]
Serve(h, r) == hostReq' = [hostReq EXCEPT ![h] = r]
Edit(e, r) == ereq' = [ereq EXCEPT ![e] = r]
------------------------------------------------------------------------------
(* Pipeline versions *)

pipeline_allowed ==
    [draft |-> {"validated"}, validated |-> {"approved", "draft"}, approved |-> {"active", "draft"},
     active |-> {"retired"}, retired |-> {}]

\* Mutant.
Activated_KeepsOld(v) == pipelines

\* One version is active: activating another retires it.
Activated(v) ==
    [w \in Versions |-> IF w # v /\ pipelines[w].status = "active"
                        THEN [pipelines[w] EXCEPT !.status = "retired"] ELSE pipelines[w]]

\* register_pipeline_definition.  A changed definition replaces the stored one
\* when the installed version is active, and is refused otherwise.
register_pipeline_definition(v, p) ==
    IF pipelines[v] = NoVersion
    THEN [(IF p.status = "active" THEN Activated(v) ELSE pipelines) EXCEPT ![v] = p]
    ELSE IF pipelines[v].digest # p.digest /\ p.status = "active"
    THEN [pipelines EXCEPT ![v].digest = p.digest]
    ELSE pipelines

Refused(v, p) == pipelines[v] # NoVersion /\ pipelines[v].digest # p.digest /\ p.status # "active"

\* sync_pipeline_catalog: one transaction for each installed version.
Sync(h) ==
    LET r == hostReq[h] IN
    /\ r.at = "sync"
    /\ \E v \in r.todo :
        IF Refused(v, Installed[h][v]) THEN Serve(h, Free) /\ UNCHANGED pipelines
        ELSE /\ pipelines' = register_pipeline_definition(v, Installed[h][v])
             /\ Serve(h, [r EXCEPT !.todo = @ \ {v}])
    /\ UNCHANGED <<datasetStatus, datasetVersions, saved, gone, ereq>>

\* A caller of create_run, resolve_pipeline_ref or transition_pipeline.
Ask(h, v, goal) ==
    /\ hostReq[h].at \in {"idle", "accepted"}
    /\ Serve(h, [at |-> "sync", todo |-> DOMAIN Installed[h], version |-> v, goal |-> goal])
    /\ UNCHANGED <<pipelines, datasetStatus, datasetVersions, saved, gone, ereq>>

SyncDone(h) == hostReq[h].at = "sync" /\ hostReq[h].todo = {}

\* Another process may have replaced the definition since this one's sync.
Matches(h, v) == v \in DOMAIN Installed[h] /\ pipelines[v].digest = Installed[h][v].digest

pipeline_definition(h) ==
    LET v == hostReq[h].version IN
    /\ SyncDone(h) /\ hostReq[h].goal = "run"
    /\ Serve(h, IF Matches(h, v) /\ pipelines[v].status = "active"
                THEN [at |-> "accepted", version |-> v] ELSE Free)
    /\ UNCHANGED <<pipelines, datasetStatus, datasetVersions, saved, gone, ereq>>

\* Without a version the only active one is meant.
resolve_pipeline_ref(h) ==
    LET active == {v \in Versions : pipelines[v].status = "active"} IN
    /\ SyncDone(h) /\ hostReq[h].goal = "resolve"
    /\ IF Cardinality(active) # 1 THEN Serve(h, Free)
       ELSE Serve(h, [hostReq[h] EXCEPT !.goal = "run", !.todo = DOMAIN Installed[h],
                                        !.version = CHOOSE v \in active : TRUE])
    /\ UNCHANGED <<pipelines, datasetStatus, datasetVersions, saved, gone, ereq>>

transition_pipeline(h) ==
    LET v == hostReq[h].version IN
    /\ SyncDone(h) /\ hostReq[h].goal \in DOMAIN pipeline_allowed
    /\ Serve(h, IF Matches(h, v) THEN [hostReq[h] EXCEPT !.at = "transition"] ELSE Free)
    /\ UNCHANGED <<pipelines, datasetStatus, datasetVersions, saved, gone, ereq>>

transition_pipeline_definition(h) ==
    LET v == hostReq[h].version
        target == hostReq[h].goal IN
    /\ hostReq[h].at = "transition"
    /\ pipelines' = IF target \notin pipeline_allowed[pipelines[v].status] THEN pipelines
                    ELSE [(IF target = "active" THEN Activated(v) ELSE pipelines)
                             EXCEPT ![v].status = target]
    /\ Serve(h, Free)
    /\ UNCHANGED <<datasetStatus, datasetVersions, saved, gone, ereq>>
------------------------------------------------------------------------------
(* Dataset versions *)

\* The assets are read one by one before; available is what they answered.
create_dataset_version(d, available) ==
    /\ datasetVersions[d] = "none"
    /\ available
    /\ datasetVersions' = [datasetVersions EXCEPT ![d] = "draft"]
    /\ UNCHANGED <<pipelines, hostReq, datasetStatus, saved, gone, ereq>>

dataset_allowed ==
    [draft |-> {"validated", "retired"}, validated |-> {"published", "retired"},
     published |-> {"retired"}, retired |-> {}]

Publishable(d) == DatasetItems[d].assets > 0 /\ DatasetItems[d].quality

transition_version(e, d, target) ==
    /\ ereq[e] = Free /\ datasetVersions[d] # "none"
    /\ target \in dataset_allowed[datasetVersions[d]]
    /\ target = "published" => Publishable(d)
    /\ Edit(e, [at |-> "version", version |-> d, target |-> target])
    /\ UNCHANGED <<pipelines, hostReq, datasetStatus, datasetVersions, saved, gone>>

\* No revision is compared: the last writer wins.
save_dataset_version(e) ==
    /\ ereq[e].at = "version"
    /\ datasetVersions' = [datasetVersions EXCEPT ![ereq[e].version] = ereq[e].target]
    /\ Edit(e, IF ereq[e].target = "published" THEN [at |-> "dataset"] ELSE Free)
    /\ UNCHANGED <<pipelines, hostReq, datasetStatus, saved, gone>>

save_dataset(e) ==
    /\ ereq[e].at = "dataset"
    /\ datasetStatus' = "active"
    /\ Edit(e, Free)
    /\ UNCHANGED <<pipelines, hostReq, datasetVersions, saved, gone>>

update_dataset(status) ==
    /\ datasetStatus' = status
    /\ UNCHANGED <<pipelines, hostReq, datasetVersions, saved, gone, ereq>>
------------------------------------------------------------------------------
(* Saved searches *)

NameFree(s, name) == \A t \in Searches \ {s} : saved[t].name # name

create_saved_search(s, name) ==
    /\ saved[s] = NoSearch /\ s \notin gone
    /\ NameFree(s, name)
    /\ saved' = [saved EXCEPT ![s] = [name |-> name, revision |-> 1]]
    /\ UNCHANGED <<pipelines, hostReq, datasetStatus, datasetVersions, gone, ereq>>

\* update_saved_search and run_saved_search read the record, and write all of it.
update_saved_search(e, s, name) ==
    /\ ereq[e] = Free /\ saved[s] # NoSearch
    /\ Edit(e, [at |-> "search", id |-> s, name |-> name])
    /\ UNCHANGED <<pipelines, hostReq, datasetStatus, datasetVersions, saved, gone>>

run_saved_search(e, s) == update_saved_search(e, s, saved[s].name)

SearchExists(s) == saved[s] # NoSearch

save_saved_search(e) ==
    LET r == ereq[e] IN
    /\ r.at = "search"
    /\ saved' = IF SearchExists(r.id) /\ NameFree(r.id, r.name)
                THEN [saved EXCEPT ![r.id] = [name |-> r.name, revision |-> 1]] ELSE saved
    /\ Edit(e, Free)
    /\ UNCHANGED <<pipelines, hostReq, datasetStatus, datasetVersions, gone>>

delete_saved_search(s) ==
    /\ saved[s] # NoSearch
    /\ saved' = [saved EXCEPT ![s] = NoSearch]
    /\ gone' = gone \cup {s}
    /\ UNCHANGED <<pipelines, hostReq, datasetStatus, datasetVersions, ereq>>
------------------------------------------------------------------------------
CatalogueInit ==
    /\ pipelines = [v \in Versions |-> NoVersion]
    /\ hostReq = [h \in Hosts |-> Free]
    /\ datasetStatus = "draft"
    /\ datasetVersions = [d \in DOMAIN DatasetItems |-> "none"]
    /\ saved = [s \in Searches |-> NoSearch] /\ gone = {}
    /\ ereq = [e \in Editors |-> Free]

PipelineNext ==
    \E h \in Hosts :
        \/ \E v \in Versions, goal \in {"run", "resolve"} \cup DOMAIN pipeline_allowed : Ask(h, v, goal)
        \/ Sync(h)
        \/ pipeline_definition(h) \/ resolve_pipeline_ref(h)
        \/ transition_pipeline(h) \/ transition_pipeline_definition(h)

RecordsNext ==
    \/ \E d \in DOMAIN DatasetItems, available \in BOOLEAN : create_dataset_version(d, available)
    \/ \E e \in Editors, d \in DOMAIN DatasetItems, t \in DOMAIN dataset_allowed :
           transition_version(e, d, t)
    \/ \E status \in {"draft", "active", "archived"} : update_dataset(status)
    \/ \E s \in Searches, n \in SearchNames : create_saved_search(s, n)
    \/ \E e \in Editors, s \in Searches :
           run_saved_search(e, s) \/ \E n \in SearchNames : update_saved_search(e, s, n)
    \/ \E e \in Editors : save_dataset_version(e) \/ save_dataset(e) \/ save_saved_search(e)
    \/ \E s \in Searches : delete_saved_search(s)
CatalogueSpec == CatalogueInit /\ [][PipelineNext \/ RecordsNext]_catalogueVars
------------------------------------------------------------------------------
(* Types *)

PipelineDefinition == [digest : Digests \cup {"none"}, status : DOMAIN pipeline_allowed \cup {"none"}]
DatasetVersion == DOMAIN dataset_allowed \cup {"none"}
DatasetRecord == {"draft", "active", "archived"}
SavedSearch == [name : SearchNames \cup {"none"}, revision : {0, 1}]

\* Every record keeps its type.
CatalogueTypeOK ==
    /\ pipelines \in [Versions -> PipelineDefinition]
    /\ datasetVersions \in [DOMAIN DatasetItems -> DatasetVersion]
    /\ datasetStatus \in DatasetRecord
    /\ saved \in [Searches -> SavedSearch]
------------------------------------------------------------------------------
(* Properties *)

\* However the processes of an old and a new release synchronise their code and
\* operators move versions on, one pipeline version is active at most, a retired
\* one never comes back, and the definition of a version only an active
\* installation replaces.  A saved search that was deleted stays deleted, though a
\* run of it began before, and two never share a name; what is published has assets
\* and a score.
CatalogueLifecycle ==
    [][/\ CatalogueTypeOK'
       /\ Cardinality({v \in Versions : pipelines'[v].status = "active"}) <= 1
       /\ \A v \in Versions : pipelines[v] # pipelines'[v] /\ pipelines[v] # NoVersion =>
              \/ pipelines'[v].status \in pipeline_allowed[pipelines[v].status]
              \/ /\ pipelines'[v].status = pipelines[v].status
                 /\ \E h \in Hosts : v \in DOMAIN Installed[h] /\ Installed[h][v].status = "active"
                                     /\ pipelines'[v].digest = Installed[h][v].digest
       /\ \A s \in Searches : s \in gone => saved'[s] = NoSearch
       /\ \A s, t \in Searches : saved'[s] # NoSearch /\ saved'[s].name = saved'[t].name => s = t
       /\ \A d \in DOMAIN DatasetItems : datasetVersions'[d] = "published" => Publishable(d)]_catalogueVars
==============================================================================
