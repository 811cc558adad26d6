---------------------------- MODULE DataPlatform ----------------------------
(***************************************************************************)
(* Core's client of scenara-data and the service behind it.  The client    *)
(* repeats a call whose answer it did not get; a caller repeats a request  *)
(* that failed, with the same request id.  A handler of the service does   *)
(* not await between its reads and its saves, so it is one step.           *)
(***************************************************************************)
EXTENDS Integers, Sequences, FiniteSets

CONSTANTS
    DataRequests,    \* ids of annotation requests
    AssetsOf,        \* request -> the assets it names
    CoreAssets,      \* assets Core still has
    RefusedRefs,     \* assets whose object reference the service refuses
    MaxRetries,      \* _max_retries of the client
    MaxFaults,       \* bound on calls lost on the way there or back
    MaxRepeats,      \* how often callers repeat failed requests
    VersionNames,    \* versions of the dataset that are created
    Manifests        \* hard-sample manifests: id -> [items, authorized], an item
                     \* being [feedback, media]

VARIABLES
    dataset,         \* the annotation dataset exists in Data
    samples,         \* samples in Data
    dtasks,          \* annotation tasks: [key, samples, status]
    annotations,     \* <<task, sample>> annotated
    versions,        \* dataset versions: [name, key, status]
    intakes,         \* hard-sample manifests accepted
    halved,          \* history: manifests whose intake died half-way
    outbox,          \* events: <<type, id>>
    saga,            \* request -> where its create_annotation_task is
    faults, repeats

ASSUME DataAssumption == \A m \in DOMAIN Manifests : Len(Manifests[m].items) \in Nat

intakeVars == <<intakes, halved>>
dataVars == <<dataset, samples, dtasks, annotations, versions, intakeVars, outbox, saga,
              faults, repeats>>
serviceVars == <<dataset, samples, dtasks, annotations, versions, intakeVars, outbox>>

NoSaga == [at |-> "idle"]
------------------------------------------------------------------------------
(* The service: what a call does to it, as a record of the new state *)

Data == [dataset |-> dataset, samples |-> samples, tasks |-> dtasks,
         annotations |-> annotations, outbox |-> outbox]

SetData(d) ==
    /\ dataset' = d.dataset /\ samples' = d.samples /\ dtasks' = d.tasks
    /\ annotations' = d.annotations /\ outbox' = d.outbox

\* dataset_id is given, so a second creation under another key replaces the record.
create_dataset(d) ==
    [d EXCEPT !.dataset = TRUE, !.outbox = @ \cup {<<"dataset.created", 0>>}]

create_sample(d, s) == [d EXCEPT !.samples = @ \cup {s}]

TaskOf(d, key) == {i \in DOMAIN d.tasks : d.tasks[i].key = key}

\* Mutant.
ExistingTask_NoKey(d, key) == {}

ExistingTask(d, key) == TaskOf(d, key)

data_create_annotation_task(d, key, names) ==
    IF ExistingTask(d, key) # {} THEN d
    ELSE [d EXCEPT !.tasks = Append(@, [key |-> key, samples |-> names, status |-> "pending"]),
                   !.outbox = @ \cup {<<"annotation.task.created", Len(d.tasks) + 1>>}]

create_annotation(d, t, s) == [d EXCEPT !.annotations = @ \cup {<<t, s>>}]

task_transitions ==
    [pending |-> {"assigned", "cancelled"}, assigned |-> {"in_progress", "cancelled"},
     in_progress |-> {"submitted", "cancelled"}, submitted |-> {"approved", "rejected"},
     approved |-> {}, rejected |-> {}, cancelled |-> {}]

MayTransition(d, t, status) == status \in task_transitions[d.tasks[t].status]

transition_annotation_task(d, t, status) ==
    [d EXCEPT !.tasks[t].status = status,
              !.outbox = @ \cup {<<IF status \in {"approved", "rejected"} THEN "annotation.reviewed"
                                   ELSE "annotation.updated", t>>}]
------------------------------------------------------------------------------
(* The client *)

\* The call of a request: it fails without effect when ok is FALSE (a 4xx), and
\* ends in state after otherwise.  A lost call may have had its effect; it is
\* repeated until the retries are used up, and then the request fails.
Call(r, ok, after, next) ==
    \/ /\ ok
       /\ SetData(after)
       /\ saga' = [saga EXCEPT ![r] = next]
       /\ UNCHANGED <<versions, intakeVars, faults>>
    \/ /\ ~ ok
       /\ saga' = [saga EXCEPT ![r] = [at |-> "failed"]]
       /\ UNCHANGED <<serviceVars, faults>>
    \/ /\ faults < MaxFaults /\ faults' = faults + 1
       /\ IF ok THEN SetData(after) \/ SetData(Data) ELSE SetData(Data)
       /\ saga' = [saga EXCEPT ![r] = IF saga[r].attempt = MaxRetries THEN [at |-> "failed"]
                                      ELSE [saga[r] EXCEPT !.attempt = @ + 1]]
       /\ UNCHANGED <<versions, intakeVars>>

Fresh(r, at, left) == [at |-> at, left |-> left, attempt |-> 0]

create_annotation_task(r) ==
    /\ saga[r] = NoSaga
    /\ saga' = [saga EXCEPT ![r] = Fresh(r, "dataset", AssetsOf[r])]
    /\ UNCHANGED <<serviceVars, faults, repeats>>

\* GET, and POST when it is missing (a 409 of the POST is ignored).
MaterializeDataset(r) ==
    /\ saga[r].at = "dataset"
    /\ Call(r, TRUE, IF dataset THEN Data ELSE create_dataset(Data),
            Fresh(r, "samples", AssetsOf[r]))
    /\ UNCHANGED repeats

\* Where the request goes on with one asset less to do.
Less(r, s, then) ==
    IF saga[r].left = {s} THEN then ELSE Fresh(r, saga[r].at, saga[r].left \ {s})

MaterializeSample(r, s) ==
    /\ saga[r].at = "samples" /\ s \in saga[r].left
    /\ Call(r, s \in CoreAssets \ RefusedRefs, IF s \in samples THEN Data ELSE create_sample(Data, s),
            Less(r, s, Fresh(r, "task", {})))
    /\ UNCHANGED repeats

MaterializeTask(r) ==
    /\ saga[r].at = "task"
    /\ Call(r, TRUE, data_create_annotation_task(Data, r, AssetsOf[r]),
            Fresh(r, "annotate", AssetsOf[r]))
    /\ UNCHANGED repeats

Mine(r) == CHOOSE i \in DOMAIN dtasks : dtasks[i].key = r

Annotate(r, s) ==
    /\ saga[r].at = "annotate" /\ s \in saga[r].left
    /\ Call(r, TRUE, create_annotation(Data, Mine(r), s), Less(r, s, Fresh(r, "assigned", {})))
    /\ UNCHANGED repeats

AfterStatus == [assigned |-> "in_progress", in_progress |-> "submitted", submitted |-> "done"]

Submit(r) ==
    LET status == saga[r].at IN
    /\ status \in DOMAIN AfterStatus
    /\ Call(r, MayTransition(Data, Mine(r), status),
            transition_annotation_task(Data, Mine(r), status), Fresh(r, AfterStatus[status], {}))
    /\ UNCHANGED repeats

RepeatRequest(r) ==
    /\ saga[r].at = "failed" /\ repeats < MaxRepeats
    /\ repeats' = repeats + 1
    /\ saga' = [saga EXCEPT ![r] = NoSaga]
    /\ UNCHANGED <<serviceVars, faults>>

review_annotation_task(t, decision) ==
    /\ MayTransition(Data, t, decision)
    /\ SetData(transition_annotation_task(Data, t, decision))
    /\ UNCHANGED <<versions, intakeVars, saga, faults, repeats>>
------------------------------------------------------------------------------
(* Dataset versions and hard samples *)

\* The check for the same version compares the record's id with the dataset's,
\* so it never finds one; only the key tells a repeated call.
VersionExists(name) == FALSE

create_version(name, key) ==
    /\ dataset
    /\ {i \in DOMAIN versions : versions[i].key = key} = {} /\ ~ VersionExists(name)
    /\ versions' = Append(versions, [name |-> name, key |-> key, status |-> "draft"])
    /\ outbox' = outbox \cup {<<"dataset.version.created", Len(versions) + 1>>}
    /\ UNCHANGED <<dataset, samples, dtasks, annotations, intakeVars, saga, faults, repeats>>

version_transitions ==
    [draft |-> {"ready", "validated", "archived"}, ready |-> {"published", "archived"},
     validated |-> {"published", "archived"}, published |-> {"archived"}, archived |-> {}]

\* Core's validated and retired are Data's ready and archived.
CoreStatus == [draft |-> "draft", validated |-> "ready", published |-> "published",
               retired |-> "archived"]

transition_version(v, core) ==
    /\ CoreStatus[core] \in version_transitions[versions[v].status]
    /\ versions' = [versions EXCEPT ![v].status = CoreStatus[core]]
    /\ outbox' = outbox \cup {<<IF core = "published" THEN "dataset.version.published"
                                ELSE "dataset.version.updated", v>>}
    /\ UNCHANGED <<dataset, samples, dtasks, annotations, intakeVars, saga, faults, repeats>>

submit_hard_sample_manifest(m) ==
    \A i \in DOMAIN Manifests[m].items : Manifests[m].items[i].media \in CoreAssets

\* The first n items of a manifest are stored.
Taken(m, n) == {Manifests[m].items[i].feedback : i \in 1 .. n}

\* The manifest is saved as accepted, then its sources one by one, then the event.
\* A source that is refused raises, and a service that dies stops, with what was
\* saved: the next submission finds the manifest and is answered as accepted.
hard_sample_intake(m, n) ==
    LET items == Manifests[m].items IN
    /\ submit_hard_sample_manifest(m)
    /\ Manifests[m].authorized /\ m \notin intakes
    /\ \A i \in 1 .. n : items[i].media \notin RefusedRefs
    /\ intakes' = intakes \cup {m}
    /\ samples' = samples \cup Taken(m, n)
    /\ \/ /\ n = Len(items)
          /\ outbox' = outbox \cup {<<"hard_sample.imported", m>>}
          /\ UNCHANGED <<halved, faults>>
       \/ /\ n < Len(items) /\ items[n + 1].media \in RefusedRefs
          /\ UNCHANGED <<outbox, halved, faults>>
       \/ /\ faults < MaxFaults /\ faults' = faults + 1
          /\ halved' = halved \cup {m}
          /\ UNCHANGED outbox
    /\ UNCHANGED <<dataset, dtasks, annotations, versions, saga, repeats>>
------------------------------------------------------------------------------
DataInit ==
    /\ dataset = FALSE /\ samples = {} /\ dtasks = << >> /\ annotations = {}
    /\ versions = << >> /\ intakes = {} /\ halved = {} /\ outbox = {}
    /\ saga = [r \in DataRequests |-> NoSaga] /\ faults = 0 /\ repeats = 0

DataNext ==
    \/ \E r \in DataRequests :
        \/ create_annotation_task(r)
        \/ MaterializeDataset(r)
        \/ \E s \in AssetsOf[r] : MaterializeSample(r, s) \/ Annotate(r, s)
        \/ MaterializeTask(r)
        \/ Submit(r)
        \/ RepeatRequest(r)
    \/ \E t \in DOMAIN dtasks, d \in {"approved", "rejected"} : review_annotation_task(t, d)
    \/ \E n \in VersionNames : create_version(n, n)
    \/ \E v \in DOMAIN versions, s \in DOMAIN CoreStatus : transition_version(v, s)
    \/ \E m \in DOMAIN Manifests : \E n \in 0 .. Len(Manifests[m].items) : hard_sample_intake(m, n)

DataSpec == DataInit /\ [][DataNext]_dataVars
------------------------------------------------------------------------------
(* Types *)

AnnotationTaskRecord ==
    [key : DataRequests, samples : SUBSET UNION {AssetsOf[r] : r \in DataRequests},
     status : DOMAIN task_transitions]
DatasetVersionRecord == [name : VersionNames, key : VersionNames, status : DOMAIN version_transitions]

\* Every record keeps its type.
DataTypeOK ==
    /\ dtasks \in Seq(AnnotationTaskRecord)
    /\ versions \in Seq(DatasetVersionRecord)
    /\ intakes \subseteq DOMAIN Manifests
------------------------------------------------------------------------------
(* Properties *)

\* However calls are lost and repeated, a task that reached its review has all of
\* its samples in Data and an annotation of each, and the key of a request never
\* made two tasks.  A hard-sample import that is announced is complete; one that was
\* accepted and not announced, so may lack samples for good, is one the service
\* died in or whose source it refused.
SubmittedComplete ==
    /\ DataTypeOK
    /\ \A t \in DOMAIN dtasks : dtasks[t].status \in {"submitted", "approved", "rejected"} =>
           \A s \in dtasks[t].samples : s \in samples /\ <<t, s>> \in annotations
    /\ \A t, u \in DOMAIN dtasks : dtasks[t].key = dtasks[u].key => t = u
    /\ \A m \in intakes :
          IF <<"hard_sample.imported", m>> \in outbox
          THEN Taken(m, Len(Manifests[m].items)) \subseteq samples
          ELSE m \in halved \/ \E i \in 1 .. Len(Manifests[m].items) :
                                   Manifests[m].items[i].media \in RefusedRefs
==============================================================================
