--------------------------- MODULE DataMediaProofs ---------------------------
(***************************************************************************)
(* The data platform, for any number of requests, assets, versions,        *)
(* manifests, lost calls and repeats; media assets and sources, for any    *)
(* number of them and of steps that raise or crash; the result index, for  *)
(* any records, attempts, page size and clocks; and the trajectories, for  *)
(* any tracklets, Runs, operators and requests that stop half way.         *)
(***************************************************************************)
EXTENDS DataPlatform, MediaAssets, SearchIndex, Trajectory, SequenceTheorems,
        FiniteSetTheorems, WellFoundedInduction, TLAPS

------------------------------------------------------------------------------
(* A request is known to the service by its key only, and may be repeated    *)
(* after any of its calls: what it did so far is a fact about the samples    *)
(* and the annotations of the task of its key, true of every later state.    *)

Phases == {"dataset", "samples", "task", "annotate", "assigned", "in_progress", "submitted", "done"}

Saga ==
    {NoSaga} \cup [at : {"failed"}]
    \cup [at : Phases, left : SUBSET UNION {AssetsOf[r] : r \in DataRequests}, attempt : Nat]

HasTask(r) == \E t \in DOMAIN dtasks : dtasks[t].key = r

Annotated(r, done) ==
    \A t \in DOMAIN dtasks : dtasks[t].key = r => \A s \in done : <<t, s>> \in annotations

\* What a request in phase q.at has done.
SagaDone(q, r) ==
    /\ q.at = "samples" => AssetsOf[r] \ q.left \subseteq samples
    /\ q.at \in {"task", "annotate", "assigned", "in_progress", "submitted", "done"} =>
           AssetsOf[r] \subseteq samples
    /\ q.at \in {"annotate", "assigned", "in_progress", "submitted", "done"} => HasTask(r)
    /\ q.at = "annotate" => Annotated(r, AssetsOf[r] \ q.left)
    /\ q.at \in {"assigned", "in_progress", "submitted", "done"} => Annotated(r, AssetsOf[r])

SagasDone ==
    /\ saga \in [DataRequests -> Saga]
    /\ \A r \in DataRequests : SagaDone(saga[r], r)

OneTaskPerKey == \A t, u \in DOMAIN dtasks : dtasks[t].key = dtasks[u].key => t = u

TasksNamed == \A t \in DOMAIN dtasks : dtasks[t].samples = AssetsOf[dtasks[t].key]

ReviewedComplete ==
    \A t \in DOMAIN dtasks : dtasks[t].status \in {"submitted", "approved", "rejected"} =>
        \A s \in dtasks[t].samples : s \in samples /\ <<t, s>> \in annotations

ServiceInv == dtasks \in Seq(AnnotationTaskRecord) /\ OneTaskPerKey /\ TasksNamed /\ ReviewedComplete

VersionInv == versions \in Seq(DatasetVersionRecord)

Imported(m) == <<"hard_sample.imported", m>> \in outbox
Refused(m) == \E i \in 1 .. Len(Manifests[m].items) : Manifests[m].items[i].media \in RefusedRefs

\* An import that is announced is complete; the others were stopped.
IntakeOK(m) ==
    IF Imported(m) THEN Taken(m, Len(Manifests[m].items)) \subseteq samples
    ELSE m \in halved \/ Refused(m)

IntakeInv ==
    /\ intakes \subseteq DOMAIN Manifests /\ \A m \in intakes : IntakeOK(m)
    /\ \A m \in DOMAIN Manifests : Imported(m) => m \in intakes

DataInv == ServiceInv /\ VersionInv /\ IntakeInv /\ SagasDone

\* The service forgets nothing and gives a key no second task.
Grows ==
    /\ samples \subseteq samples' /\ annotations \subseteq annotations'
    /\ DOMAIN dtasks \subseteq DOMAIN dtasks'
    /\ \A t \in DOMAIN dtasks : dtasks'[t].key = dtasks[t].key
    /\ \A r : HasTask(r) =>
           \A t \in DOMAIN dtasks' : dtasks'[t].key = r => t \in DOMAIN dtasks

SameImports == \A m : Imported(m)' <=> Imported(m)

LEMMA IntakesKept ==
    ASSUME IntakeInv, Grows, SameImports, UNCHANGED intakeVars
    PROVE  IntakeInv'
<1>1. ASSUME NEW m \in intakes PROVE IntakeOK(m)'
  BY DEF IntakeInv, IntakeOK, Grows, SameImports, intakeVars, Refused, Taken
<1>2. \A m \in DOMAIN Manifests : Imported(m)' => m \in intakes
  BY DEF IntakeInv, SameImports
<1> QED BY <1>1, <1>2 DEF IntakeInv, intakeVars

LEMMA SagaDoneKept ==
    ASSUME Grows, NEW r, NEW q, SagaDone(q, r)
    PROVE  SagaDone(q, r)'
<1>1. HasTask(r) => HasTask(r)'
  BY DEF Grows, HasTask
<1>2. ASSUME NEW done, HasTask(r), Annotated(r, done) PROVE Annotated(r, done)'
  BY <1>2 DEF Grows, Annotated
<1>3. q.at \in {"annotate", "assigned", "in_progress", "submitted", "done"} => HasTask(r)
  BY DEF SagaDone
<1>4. q.at = "annotate" => Annotated(r, AssetsOf[r] \ q.left)'
  <2>1. PICK done : done = AssetsOf[r] \ q.left
    OBVIOUS
  <2>2. q.at = "annotate" => Annotated(r, done)'
    BY <1>2, <1>3, <2>1 DEF SagaDone
  <2> QED BY <2>1, <2>2 DEF Annotated
<1>5. q.at \in {"assigned", "in_progress", "submitted", "done"} => Annotated(r, AssetsOf[r])'
  BY <1>2, <1>3 DEF SagaDone
<1> QED BY <1>1, <1>4, <1>5 DEF SagaDone, Grows

\* A step of a request, when the service only grows.
LEMMA SagaAdvanced ==
    ASSUME SagasDone, Grows, NEW r \in DataRequests, NEW q \in Saga, SagaDone(q, r)',
           saga' = [saga EXCEPT ![r] = q]
    PROVE  SagasDone'
<1>1. saga' \in [DataRequests -> Saga]
  BY DEF SagasDone
<1>2. ASSUME NEW p \in DataRequests PROVE SagaDone(saga[p], p)'
  <2>1. CASE p = r
    BY <2>1 DEF SagasDone, SagaDone
  <2>2. CASE p # r
    <3> PICK x : x = saga[p]
      OBVIOUS
    <3>1. SagaDone(x, p)' /\ saga'[p] = x
      BY <2>2, SagaDoneKept DEF SagasDone
    <3> QED BY <3>1 DEF SagaDone
  <2> QED BY <2>1, <2>2
<1> QED BY <1>1, <1>2 DEF SagasDone

------------------------------------------------------------------------------
(* The calls.                                                                *)

LEMMA TransitionFacts ==
    /\ DOMAIN task_transitions = {"pending", "assigned", "in_progress", "submitted", "approved",
                                  "rejected", "cancelled"}
    /\ \A s \in DOMAIN task_transitions : task_transitions[s] \subseteq DOMAIN task_transitions
    /\ \A s \in DOMAIN task_transitions :
           \A d \in {"approved", "rejected"} : d \in task_transitions[s] => s = "submitted"
BY DEF task_transitions

LEMMA VersionFacts ==
    /\ DOMAIN version_transitions = {"draft", "ready", "validated", "published", "archived"}
    /\ \A c \in DOMAIN CoreStatus : CoreStatus[c] \in DOMAIN version_transitions
BY DEF version_transitions, CoreStatus

\* Nothing changes.
LEMMA SameData ==
    ASSUME ServiceInv, SetData(Data) PROVE ServiceInv' /\ SameImports /\ Grows
<1>1. UNCHANGED <<samples, dtasks, annotations>> /\ SameImports
  BY DEF SetData, Data, SameImports, Imported
<1> QED BY <1>1 DEF ServiceInv, OneTaskPerKey, TasksNamed, ReviewedComplete, Grows, AnnotationTaskRecord

\* Data sets and samples.
LEMMA SampleCreated ==
    ASSUME ServiceInv, NEW s, SetData(create_sample(Data, s)) \/ SetData(create_dataset(Data))
    PROVE  ServiceInv' /\ SameImports /\ Grows /\ (SetData(create_sample(Data, s)) => s \in samples')
<1>1. UNCHANGED <<dtasks, annotations>> /\ samples \subseteq samples' /\ SameImports
      /\ (SetData(create_sample(Data, s)) => s \in samples')
  BY DEF SetData, Data, create_sample, create_dataset, SameImports, Imported
<1> QED BY <1>1 DEF ServiceInv, OneTaskPerKey, TasksNamed, ReviewedComplete, Grows, AnnotationTaskRecord

LEMMA AnnotationCreated ==
    ASSUME ServiceInv, NEW t, NEW s, SetData(create_annotation(Data, t, s))
    PROVE  ServiceInv' /\ SameImports /\ Grows /\ <<t, s>> \in annotations' /\ UNCHANGED dtasks
<1>1. UNCHANGED <<dtasks, samples>> /\ annotations' = annotations \cup {<<t, s>>} /\ SameImports
  BY DEF SetData, Data, create_annotation, SameImports, Imported
<1> QED BY <1>1 DEF ServiceInv, OneTaskPerKey, TasksNamed, ReviewedComplete, Grows, AnnotationTaskRecord

\* A repeated key finds its task; another one gets a new task.
LEMMA TaskCreated ==
    ASSUME ServiceInv, NEW r \in DataRequests,
           SetData(data_create_annotation_task(Data, r, AssetsOf[r]))
    PROVE  ServiceInv' /\ SameImports /\ Grows /\ HasTask(r)'
<1>0. dtasks \in Seq(AnnotationTaskRecord)
  BY DEF ServiceInv
<1>1. CASE HasTask(r)
  <2>1. ExistingTask(Data, r) # {}
    BY <1>1 DEF ExistingTask, TaskOf, HasTask, Data
  <2>2. SetData(Data)
    BY <2>1 DEF data_create_annotation_task
  <2>3. ServiceInv' /\ SameImports /\ Grows
    BY <2>2, SameData
  <2> QED BY <1>1, <2>3 DEF HasTask, Grows
<1>2. CASE ~ HasTask(r)
  <2> PICK x : x = [key |-> r, samples |-> AssetsOf[r], status |-> "pending"]
    OBVIOUS
  <2>1. ExistingTask(Data, r) = {}
    BY <1>2 DEF ExistingTask, TaskOf, HasTask, Data
  <2>2. dtasks' = Append(dtasks, x) /\ UNCHANGED <<samples, annotations>>
    BY <2>1 DEF data_create_annotation_task, SetData, Data
  <2>a. SameImports
    BY <2>1 DEF data_create_annotation_task, SetData, Data, SameImports, Imported
  <2>3. x \in AnnotationTaskRecord /\ x.key = r /\ x.samples = AssetsOf[r] /\ x.status = "pending"
    BY TransitionFacts DEF AnnotationTaskRecord
  <2>4. /\ dtasks' \in Seq(AnnotationTaskRecord) /\ Len(dtasks) \in Nat
        /\ DOMAIN dtasks' = DOMAIN dtasks \cup {Len(dtasks) + 1}
        /\ dtasks'[Len(dtasks) + 1] = x /\ \A t \in DOMAIN dtasks : dtasks'[t] = dtasks[t]
    BY <1>0, <2>2, <2>3
  <2>5. \A t \in DOMAIN dtasks : dtasks[t].key # r
    BY <1>2 DEF HasTask
  <2>6. OneTaskPerKey'
    BY <2>3, <2>4, <2>5 DEF ServiceInv, OneTaskPerKey
  <2>7. TasksNamed' /\ ReviewedComplete'
    BY <2>2, <2>3, <2>4 DEF ServiceInv, TasksNamed, ReviewedComplete
  <2>8. Grows
    BY <2>2, <2>3, <2>4, <2>5 DEF Grows, HasTask
  <2>9. HasTask(r)'
    BY <2>3, <2>4 DEF HasTask
  <2> QED BY <2>4, <2>6, <2>7, <2>8, <2>9, <2>a DEF ServiceInv, AnnotationTaskRecord
<1> QED BY <1>1, <1>2

\* A transition of a task; a submission needs the samples and the annotations.
LEMMA TaskMoved ==
    ASSUME ServiceInv, NEW t \in DOMAIN dtasks, NEW status, MayTransition(Data, t, status),
           status = "submitted" => \A s \in dtasks[t].samples : s \in samples /\ <<t, s>> \in annotations,
           SetData(transition_annotation_task(Data, t, status))
    PROVE  ServiceInv' /\ SameImports /\ Grows
<1>1. dtasks \in Seq(AnnotationTaskRecord) /\ dtasks[t] \in AnnotationTaskRecord
  BY DEF ServiceInv
<1>2. dtasks[t].status \in DOMAIN task_transitions /\ status \in task_transitions[dtasks[t].status]
  BY <1>1 DEF AnnotationTaskRecord, MayTransition, Data
<1>3. /\ status \in DOMAIN task_transitions
      /\ status \in {"approved", "rejected"} => dtasks[t].status = "submitted"
  BY <1>2, TransitionFacts
<1>4. PICK x \in AnnotationTaskRecord :
          /\ x.key = dtasks[t].key /\ x.samples = dtasks[t].samples /\ x.status = status
          /\ dtasks' = [dtasks EXCEPT ![t] = x]
  <2> DEFINE x == [dtasks[t] EXCEPT !.status = status]
  <2>1. x \in AnnotationTaskRecord /\ x.key = dtasks[t].key /\ x.samples = dtasks[t].samples
        /\ x.status = status
    BY <1>1, <1>3 DEF AnnotationTaskRecord
  <2>2. dtasks' = [dtasks EXCEPT ![t] = x]
    BY DEF SetData, Data, transition_annotation_task
  <2> HIDE DEF x
  <2> QED BY <2>1, <2>2
<1>5. UNCHANGED <<samples, annotations>> /\ SameImports
  <2>1. outbox' = outbox \cup {<<IF status \in {"approved", "rejected"} THEN "annotation.reviewed"
                                ELSE "annotation.updated", t>>}
    BY DEF SetData, Data, transition_annotation_task
  <2> QED BY <2>1 DEF SetData, Data, transition_annotation_task, SameImports, Imported
<1>6. /\ dtasks' \in Seq(AnnotationTaskRecord) /\ DOMAIN dtasks' = DOMAIN dtasks
      /\ dtasks'[t] = x /\ \A u \in DOMAIN dtasks : u # t => dtasks'[u] = dtasks[u]
  BY <1>1, <1>4
<1>7. \A u \in DOMAIN dtasks : dtasks'[u].key = dtasks[u].key /\ dtasks'[u].samples = dtasks[u].samples
  BY <1>4, <1>6
<1>8. OneTaskPerKey' /\ TasksNamed'
  BY <1>6, <1>7 DEF ServiceInv, OneTaskPerKey, TasksNamed
<1>9. ReviewedComplete'
  <2> SUFFICES ASSUME NEW u \in DOMAIN dtasks,
                      dtasks'[u].status \in {"submitted", "approved", "rejected"},
                      NEW s \in dtasks[u].samples
               PROVE  s \in samples /\ <<u, s>> \in annotations
    BY <1>5, <1>6, <1>7 DEF ReviewedComplete
  <2>1. CASE u # t
    BY <1>6, <2>1 DEF ServiceInv, ReviewedComplete
  <2>2. CASE u = t
    BY <1>3, <1>4, <1>6, <2>2 DEF ServiceInv, ReviewedComplete
  <2> QED BY <2>1, <2>2
<1>10. Grows
  BY <1>5, <1>6, <1>7 DEF Grows
<1> QED BY <1>5, <1>6, <1>8, <1>9, <1>10 DEF ServiceInv, AnnotationTaskRecord

\* A call that was answered, refused or lost on the way there or back.
LEMMA CallStep ==
    ASSUME DataInv, NEW r \in DataRequests, saga[r].at \in Phases,
           NEW ok \in BOOLEAN, NEW after, NEW next \in Saga, Call(r, ok, after, next),
           ok /\ SetData(after) => ServiceInv' /\ SameImports /\ Grows /\ SagaDone(next, r)'
    PROVE  DataInv'
<1>1. VersionInv' /\ UNCHANGED intakeVars /\ IntakeInv
  BY DEF Call, DataInv, VersionInv, serviceVars, DatasetVersionRecord
<1>2. SagasDone /\ ServiceInv
  BY DEF DataInv
<1>3. saga[r] \in [at : Phases, left : SUBSET UNION {AssetsOf[p] : p \in DataRequests}, attempt : Nat]
  BY <1>2 DEF SagasDone, Saga, NoSaga, Phases
<1>4. CASE ok /\ SetData(after) /\ saga' = [saga EXCEPT ![r] = next]
  BY <1>1, <1>2, <1>4, SagaAdvanced, IntakesKept DEF DataInv
<1>5. CASE /\ SetData(Data) \/ (ok /\ SetData(after))
           /\ \E q : /\ saga' = [saga EXCEPT ![r] = q]
                     /\ q = [at |-> "failed"] \/ q = [saga[r] EXCEPT !.attempt = @ + 1]
  <2>1. ServiceInv' /\ SameImports /\ Grows
    BY <1>2, <1>5, SameData
  <2>2. PICK q : /\ saga' = [saga EXCEPT ![r] = q]
                 /\ q = [at |-> "failed"] \/ q = [saga[r] EXCEPT !.attempt = @ + 1]
    BY <1>5
  <2>3. q \in Saga /\ SagaDone(q, r)
    <3>1. CASE q = [at |-> "failed"]
      BY <3>1 DEF Saga, SagaDone
    <3>2. CASE q = [saga[r] EXCEPT !.attempt = @ + 1]
      <4>1. q \in Saga
        BY <1>3, <3>2 DEF Saga
      <4>2. q.at = saga[r].at /\ q.left = saga[r].left
        BY <1>3, <3>2
      <4> QED BY <1>2, <4>1, <4>2 DEF SagasDone, SagaDone
    <3> QED BY <2>2, <3>1, <3>2
  <2>4. SagaDone(q, r)'
    BY <2>1, <2>3, SagaDoneKept
  <2> QED BY <1>1, <1>2, <2>1, <2>2, <2>3, <2>4, SagaAdvanced, IntakesKept DEF DataInv
<1>6. CASE ~ ok /\ saga' = [saga EXCEPT ![r] = [at |-> "failed"]] /\ UNCHANGED serviceVars
  <2>1. SetData(Data)
    BY <1>6 DEF SetData, Data, serviceVars
  <2> QED BY <1>5, <1>6, <2>1
<1>7. CASE /\ IF ok THEN SetData(after) \/ SetData(Data) ELSE SetData(Data)
           /\ saga' = [saga EXCEPT ![r] = IF saga[r].attempt = MaxRetries THEN [at |-> "failed"]
                                          ELSE [saga[r] EXCEPT !.attempt = @ + 1]]
  <2>1. SetData(Data) \/ (ok /\ SetData(after))
    BY <1>7
  <2>2. \E q : /\ saga' = [saga EXCEPT ![r] = q]
               /\ q = [at |-> "failed"] \/ q = [saga[r] EXCEPT !.attempt = @ + 1]
    BY <1>7
  <2> QED BY <1>5, <2>1, <2>2
<1> QED BY <1>4, <1>6, <1>7 DEF Call

------------------------------------------------------------------------------
(* Every action.                                                             *)

LEMMA DataInitOK == DataInit => DataInv
<1> SUFFICES ASSUME DataInit PROVE DataInv
  OBVIOUS
<1>1. ServiceInv /\ VersionInv
  BY DEF DataInit, ServiceInv, OneTaskPerKey, TasksNamed, ReviewedComplete, VersionInv
<1>2. IntakeInv
  BY DEF DataInit, IntakeInv, Imported
<1>3. SagasDone
  BY DEF DataInit, SagasDone, Saga, SagaDone, NoSaga
<1> QED BY <1>1, <1>2, <1>3 DEF DataInv

\* What the service holds for a request outlives a step that leaves the requests
\* and the tasks alone.
LEMMA SagasKept ==
    ASSUME SagasDone, Grows, saga' = saga PROVE SagasDone'
<1> SUFFICES ASSUME NEW r \in DataRequests PROVE SagaDone(saga[r], r)'
  BY DEF SagasDone
<1> PICK q : q = saga[r]
  OBVIOUS
<1>1. SagaDone(q, r)'
  BY SagaDoneKept DEF SagasDone
<1> QED BY <1>1 DEF SagaDone

LEMMA FreshSaga ==
    ASSUME NEW r \in DataRequests, NEW at \in Phases,
           NEW left \in SUBSET UNION {AssetsOf[p] : p \in DataRequests}
    PROVE  Fresh(r, at, left) \in Saga /\ Fresh(r, at, left).at = at /\ Fresh(r, at, left).left = left
BY DEF Fresh, Saga

\* The task of a request.
LEMMA MineIs ==
    ASSUME ServiceInv, NEW r, HasTask(r)
    PROVE  /\ Mine(r) \in DOMAIN dtasks /\ dtasks[Mine(r)].key = r
           /\ \A t \in DOMAIN dtasks : dtasks[t].key = r => t = Mine(r)
BY DEF HasTask, Mine, ServiceInv, OneTaskPerKey

LEMMA RequestStep ==
    ASSUME DataInv, NEW r \in DataRequests,
           create_annotation_task(r) \/ RepeatRequest(r)
    PROVE  DataInv'
<1>1. PICK q \in Saga : saga' = [saga EXCEPT ![r] = q] /\ q.at \in {"idle", "dataset"}
  <2>1. Fresh(r, "dataset", AssetsOf[r]) \in Saga /\ Fresh(r, "dataset", AssetsOf[r]).at = "dataset"
    BY FreshSaga DEF Phases
  <2>2. NoSaga \in Saga /\ NoSaga.at = "idle"
    BY DEF NoSaga, Saga
  <2> QED BY <2>1, <2>2 DEF create_annotation_task, RepeatRequest
<1>2. SetData(Data) /\ UNCHANGED <<versions, intakeVars>>
  BY DEF create_annotation_task, RepeatRequest, serviceVars, SetData, Data
<1>3. SagaDone(q, r)'
  BY <1>1 DEF SagaDone
<1> QED BY <1>1, <1>2, <1>3, SameData, SagaAdvanced, IntakesKept
        DEF DataInv, VersionInv, DatasetVersionRecord

LEMMA DatasetStep ==
    ASSUME DataInv, NEW r \in DataRequests, MaterializeDataset(r)
    PROVE  DataInv'
<1> PICK next : next = Fresh(r, "samples", AssetsOf[r])
  OBVIOUS
<1> PICK after : after = IF dataset THEN Data ELSE create_dataset(Data)
  OBVIOUS
<1>1. next \in Saga /\ next.at = "samples" /\ next.left = AssetsOf[r]
  BY FreshSaga DEF Phases
<1>2. SetData(after) => ServiceInv' /\ SameImports /\ Grows
  BY SameData, SampleCreated DEF DataInv
<1>3. SagaDone(next, r)'
  BY <1>1 DEF SagaDone
<1>4. Call(r, TRUE, after, next) /\ saga[r].at \in Phases
  BY DEF MaterializeDataset, Phases
<1> QED BY <1>1, <1>2, <1>3, <1>4, CallStep

LEMMA SampleStep ==
    ASSUME DataInv, NEW r \in DataRequests, NEW s \in AssetsOf[r], MaterializeSample(r, s)
    PROVE  DataInv'
<1> PICK next : next = Less(r, s, Fresh(r, "task", {}))
  OBVIOUS
<1> PICK after : after = IF s \in samples THEN Data ELSE create_sample(Data, s)
  OBVIOUS
<1>0. PICK ok \in BOOLEAN : ok <=> s \in CoreAssets \ RefusedRefs
  <2>1. CASE s \in CoreAssets \ RefusedRefs
    BY <2>1
  <2>2. CASE s \notin CoreAssets \ RefusedRefs
    BY <2>2
  <2> QED BY <2>1, <2>2
<1>1. saga[r].at = "samples" /\ saga[r].left \in SUBSET UNION {AssetsOf[p] : p \in DataRequests}
      /\ AssetsOf[r] \ saga[r].left \subseteq samples
  <2>1. saga[r].at = "samples" /\ saga[r] \in Saga /\ SagaDone(saga[r], r)
    BY DEF MaterializeSample, DataInv, SagasDone
  <2>2. AssetsOf[r] \ saga[r].left \subseteq samples
    BY <2>1 DEF SagaDone
  <2>3. saga[r].left \in SUBSET UNION {AssetsOf[p] : p \in DataRequests}
    BY <2>1 DEF Saga, NoSaga
  <2> QED BY <2>1, <2>2, <2>3
<1>2. SetData(after) => ServiceInv' /\ SameImports /\ Grows /\ s \in samples'
  <2>1. CASE s \in samples
    <3>1. SetData(after) => ServiceInv' /\ SameImports /\ Grows
      BY <2>1, SameData DEF DataInv
    <3> QED BY <2>1, <3>1 DEF Grows
  <2>2. CASE s \notin samples
    BY <2>2, SampleCreated DEF DataInv
  <2> QED BY <2>1, <2>2
<1>3. Call(r, ok, after, next) /\ saga[r].at \in Phases
  BY <1>0, <1>1 DEF MaterializeSample, Phases, Call
<1>4. CASE saga[r].left = {s}
  <2>1. next \in Saga /\ next.at = "task"
    BY <1>4, FreshSaga DEF Less, Phases
  <2>2. SetData(after) => SagaDone(next, r)'
    BY <1>1, <1>2, <1>4, <2>1 DEF SagaDone, Grows
  <2> QED BY <1>2, <1>3, <2>1, <2>2, CallStep
<1>5. CASE saga[r].left # {s}
  <2>1. next \in Saga /\ next.at = "samples" /\ next.left = saga[r].left \ {s}
    BY <1>1, <1>5, FreshSaga DEF Less, Phases
  <2>2. SetData(after) => SagaDone(next, r)'
    BY <1>1, <1>2, <2>1 DEF SagaDone, Grows
  <2> QED BY <1>2, <1>3, <2>1, <2>2, CallStep
<1> QED BY <1>4, <1>5

LEMMA CreateTaskStep ==
    ASSUME DataInv, NEW r \in DataRequests, MaterializeTask(r)
    PROVE  DataInv'
<1> PICK next : next = Fresh(r, "annotate", AssetsOf[r])
  OBVIOUS
<1> PICK after : after = data_create_annotation_task(Data, r, AssetsOf[r])
  OBVIOUS
<1>1. next \in Saga /\ next.at = "annotate" /\ next.left = AssetsOf[r]
  BY FreshSaga DEF Phases
<1>2. SetData(after) => ServiceInv' /\ SameImports /\ Grows /\ HasTask(r)'
  BY TaskCreated DEF DataInv
<1>3. AssetsOf[r] \subseteq samples
  BY DEF MaterializeTask, DataInv, SagasDone, SagaDone
<1>4. SetData(after) => SagaDone(next, r)'
  BY <1>1, <1>2, <1>3 DEF SagaDone, Grows, Annotated
<1>5. Call(r, TRUE, after, next) /\ saga[r].at \in Phases
  BY DEF MaterializeTask, Phases
<1> QED BY <1>1, <1>2, <1>4, <1>5, CallStep

LEMMA AnnotateStep ==
    ASSUME DataInv, NEW r \in DataRequests, NEW s \in AssetsOf[r], Annotate(r, s)
    PROVE  DataInv'
<1> PICK next : next = Less(r, s, Fresh(r, "assigned", {}))
  OBVIOUS
<1> PICK mine : mine = Mine(r)
  OBVIOUS
<1> PICK after : after = create_annotation(Data, mine, s)
  OBVIOUS
<1>1. /\ saga[r].at = "annotate" /\ saga[r].left \in SUBSET UNION {AssetsOf[p] : p \in DataRequests}
      /\ AssetsOf[r] \subseteq samples /\ HasTask(r) /\ Annotated(r, AssetsOf[r] \ saga[r].left)
  BY DEF Annotate, DataInv, SagasDone, Saga, SagaDone, NoSaga
<1>2. \A t \in DOMAIN dtasks : dtasks[t].key = r => t = mine
  BY <1>1, MineIs DEF DataInv
<1>3. SetData(after) => ServiceInv' /\ SameImports /\ Grows /\ <<mine, s>> \in annotations' /\ UNCHANGED dtasks
  BY AnnotationCreated DEF DataInv
<1>4. Call(r, TRUE, after, next) /\ saga[r].at \in Phases
  BY <1>1 DEF Annotate, Phases
<1>5. SetData(after) => HasTask(r)' /\ AssetsOf[r] \subseteq samples'
  BY <1>1, <1>3 DEF HasTask, Grows
<1>6. CASE saga[r].left = {s}
  <2>1. next \in Saga /\ next.at = "assigned"
    BY <1>6, FreshSaga DEF Less, Phases
  <2>2. SetData(after) => Annotated(r, AssetsOf[r])'
    BY <1>1, <1>2, <1>3, <1>6 DEF Annotated, Grows
  <2>3. SetData(after) => SagaDone(next, r)'
    BY <1>5, <2>1, <2>2 DEF SagaDone
  <2> QED BY <1>3, <1>4, <2>1, <2>3, CallStep
<1>7. CASE saga[r].left # {s}
  <2>1. next \in Saga /\ next.at = "annotate" /\ next.left = saga[r].left \ {s}
    BY <1>1, <1>7, FreshSaga DEF Less, Phases
  <2>2. SetData(after) => Annotated(r, AssetsOf[r] \ next.left)'
    BY <1>1, <1>2, <1>3, <2>1 DEF Annotated, Grows
  <2>3. SetData(after) => SagaDone(next, r)'
    BY <1>5, <2>1, <2>2 DEF SagaDone
  <2> QED BY <1>3, <1>4, <2>1, <2>3, CallStep
<1> QED BY <1>6, <1>7

LEMMA SubmitStep ==
    ASSUME DataInv, NEW r \in DataRequests, Submit(r)
    PROVE  DataInv'
<1> PICK status : status = saga[r].at
  OBVIOUS
<1> PICK mine : mine = Mine(r)
  OBVIOUS
<1> PICK after : after = transition_annotation_task(Data, mine, status)
  OBVIOUS
<1> PICK next : next = Fresh(r, AfterStatus[status], {})
  OBVIOUS
<1>0. PICK ok \in BOOLEAN : ok <=> MayTransition(Data, mine, status)
  <2>1. CASE MayTransition(Data, mine, status)
    BY <2>1
  <2>2. CASE ~ MayTransition(Data, mine, status)
    BY <2>2
  <2> QED BY <2>1, <2>2
<1>1. status \in {"assigned", "in_progress", "submitted"}
      /\ AfterStatus[status] \in {"in_progress", "submitted", "done"}
  BY DEF Submit, AfterStatus
<1>2. AssetsOf[r] \subseteq samples /\ HasTask(r) /\ Annotated(r, AssetsOf[r])
  BY <1>1 DEF DataInv, SagasDone, SagaDone
<1>3. mine \in DOMAIN dtasks /\ dtasks[mine].key = r
  BY <1>2, MineIs DEF DataInv
<1>4. \A s \in dtasks[mine].samples : s \in samples /\ <<mine, s>> \in annotations
  BY <1>2, <1>3 DEF DataInv, ServiceInv, TasksNamed, Annotated
<1>5. ok /\ SetData(after) => ServiceInv' /\ SameImports /\ Grows
  BY <1>0, <1>3, <1>4, TaskMoved DEF DataInv
<1>6. next \in Saga /\ next.at \in {"in_progress", "submitted", "done"}
  BY <1>1, FreshSaga DEF Phases
<1>7. ok /\ SetData(after) => SagaDone(next, r)'
  <2> SUFFICES ASSUME ok, SetData(after) PROVE SagaDone(next, r)'
    OBVIOUS
  <2> PICK x : x = [at |-> "done"]
    OBVIOUS
  <2>1. SagaDone(x, r)
    BY <1>2 DEF SagaDone
  <2>2. SagaDone(x, r)'
    BY <1>5, <2>1, SagaDoneKept
  <2> QED BY <1>6, <2>2 DEF SagaDone
<1>8. Call(r, ok, after, next) /\ saga[r].at \in Phases
  BY <1>0, <1>1 DEF Submit, Phases, Call
<1> QED BY <1>5, <1>6, <1>7, <1>8, CallStep

LEMMA ReviewStep ==
    ASSUME DataInv, NEW t \in DOMAIN dtasks, NEW d \in {"approved", "rejected"},
           review_annotation_task(t, d)
    PROVE  DataInv'
<1>1. ServiceInv' /\ SameImports /\ Grows
  BY TaskMoved DEF DataInv, review_annotation_task
<1>2. SagasDone'
  BY <1>1, SagasKept DEF DataInv, review_annotation_task
<1> QED BY <1>1, <1>2, IntakesKept DEF DataInv, VersionInv, review_annotation_task, DatasetVersionRecord

LEMMA VersionTransitionFacts ==
    \A a \in DOMAIN version_transitions : version_transitions[a] \subseteq DOMAIN version_transitions
BY DEF version_transitions

LEMMA VersionStep ==
    ASSUME DataInv,
           \/ \E n \in VersionNames : create_version(n, n)
           \/ \E v \in DOMAIN versions, c \in DOMAIN CoreStatus : transition_version(v, c)
    PROVE  DataInv'
<1>1. UNCHANGED <<samples, dtasks, annotations, intakeVars>>
  BY DEF create_version, transition_version
<1>2. ServiceInv' /\ Grows
  BY <1>1 DEF DataInv, Grows, ServiceInv, OneTaskPerKey, TasksNamed, ReviewedComplete,
              AnnotationTaskRecord
<1>3. SagasDone'
  BY <1>2, SagasKept DEF DataInv, create_version, transition_version
<1>4. SameImports
  <2>1. ASSUME NEW n \in VersionNames, create_version(n, n) PROVE SameImports
    BY <2>1 DEF create_version, SameImports, Imported
  <2>2. ASSUME NEW v \in DOMAIN versions, NEW c \in DOMAIN CoreStatus, transition_version(v, c)
        PROVE  SameImports
    <3>1. PICK e \in {"dataset.version.published", "dataset.version.updated"} :
             outbox' = outbox \cup {<<e, v>>}
      BY <2>2 DEF transition_version
    <3> QED BY <3>1 DEF SameImports, Imported
  <2> QED BY <2>1, <2>2
<1>5. versions \in Seq(DatasetVersionRecord)
  BY DEF DataInv, VersionInv
<1>6. versions' \in Seq(DatasetVersionRecord)
  <2>1. ASSUME NEW n \in VersionNames, create_version(n, n)
        PROVE  versions' \in Seq(DatasetVersionRecord)
    <3>1. [name |-> n, key |-> n, status |-> "draft"] \in DatasetVersionRecord
      BY DEF DatasetVersionRecord, version_transitions
    <3> QED BY <1>5, <2>1, <3>1 DEF create_version
  <2>2. ASSUME NEW v \in DOMAIN versions, NEW c \in DOMAIN CoreStatus, transition_version(v, c)
        PROVE  versions' \in Seq(DatasetVersionRecord)
    <3>1. versions[v] \in DatasetVersionRecord
      BY <1>5
    <3>2. CoreStatus[c] \in DOMAIN version_transitions
      BY <2>2, <3>1, VersionTransitionFacts DEF transition_version, DatasetVersionRecord
    <3>3. [versions[v] EXCEPT !.status = CoreStatus[c]] \in DatasetVersionRecord
      BY <3>1, <3>2 DEF DatasetVersionRecord
    <3> QED BY <1>5, <2>2, <3>3 DEF transition_version
  <2> QED BY <2>1, <2>2
<1> QED BY <1>1, <1>2, <1>3, <1>4, <1>6, IntakesKept DEF DataInv, VersionInv, DatasetVersionRecord

\* One manifest is taken in, to its end or not; what was known of the others stays.
LEMMA IntakeStep ==
    ASSUME DataInv, NEW m \in DOMAIN Manifests, NEW n \in 0 .. Len(Manifests[m].items),
           hard_sample_intake(m, n)
    PROVE  DataInv'
<1>1. samples' = samples \cup Taken(m, n) /\ UNCHANGED <<dtasks, annotations, versions, saga>>
      /\ intakes' = intakes \cup {m} /\ m \notin intakes /\ halved \subseteq halved'
  BY DEF hard_sample_intake
<1>2. Grows
  BY <1>1 DEF Grows
<1>3. ServiceInv'
  BY <1>1 DEF DataInv, ServiceInv, OneTaskPerKey, TasksNamed, ReviewedComplete, AnnotationTaskRecord
<1>4. SagasDone'
  BY <1>1, <1>2, SagasKept DEF DataInv
<1>5. VersionInv'
  BY <1>1 DEF DataInv, VersionInv, DatasetVersionRecord
<1>6. \A k : k # m => (Imported(k)' <=> Imported(k))
  <2>1. outbox' \in {outbox, outbox \cup {<<"hard_sample.imported", m>>}}
    BY DEF hard_sample_intake
  <2> QED BY <2>1 DEF Imported
<1>7. ASSUME NEW k \in intakes PROVE IntakeOK(k)'
  <2>1. k # m /\ IntakeOK(k)
    BY <1>1 DEF DataInv, IntakeInv
  <2> QED BY <1>1, <1>6, <2>1 DEF IntakeOK, Refused, Taken
<1>8. ~ Imported(m)
  BY <1>1 DEF DataInv, IntakeInv
<1>9. IntakeOK(m)'
  <2>0. Len(Manifests[m].items) \in Nat
    BY DataAssumption
  <2>1. CASE n = Len(Manifests[m].items) /\ outbox' = outbox \cup {<<"hard_sample.imported", m>>}
    BY <1>1, <2>1 DEF IntakeOK, Imported, Taken
  <2>2. CASE /\ n < Len(Manifests[m].items) /\ Manifests[m].items[n + 1].media \in RefusedRefs
             /\ UNCHANGED outbox
    <3>1. Refused(m)'
      BY <2>0, <2>2 DEF Refused
    <3> QED BY <1>8, <2>2, <3>1 DEF IntakeOK, Imported
  <2>3. CASE halved' = halved \cup {m} /\ UNCHANGED outbox
    BY <1>8, <2>3 DEF IntakeOK, Imported
  <2> QED BY <2>1, <2>2, <2>3 DEF hard_sample_intake
<1>10. IntakeInv'
  BY <1>1, <1>6, <1>7, <1>9 DEF DataInv, IntakeInv
<1> QED BY <1>3, <1>4, <1>5, <1>10 DEF DataInv

LEMMA DataStep == DataInv /\ [DataNext]_dataVars => DataInv'
<1> SUFFICES ASSUME DataInv, [DataNext]_dataVars PROVE DataInv'
  OBVIOUS
<1>1. CASE UNCHANGED dataVars
  <2>1. SetData(Data) /\ UNCHANGED <<saga, versions, intakeVars>>
    BY <1>1 DEF dataVars, SetData, Data
  <2>2. ServiceInv' /\ SameImports /\ Grows
    BY <2>1, SameData DEF DataInv
  <2> QED BY <2>1, <2>2, SagasKept, IntakesKept DEF DataInv, VersionInv, DatasetVersionRecord
<1>2. ASSUME NEW r \in DataRequests,
             \/ create_annotation_task(r) \/ MaterializeDataset(r) \/ MaterializeTask(r)
             \/ \E s \in AssetsOf[r] : MaterializeSample(r, s) \/ Annotate(r, s)
             \/ Submit(r) \/ RepeatRequest(r)
      PROVE  DataInv'
  BY <1>2, RequestStep, DatasetStep, SampleStep, CreateTaskStep, AnnotateStep, SubmitStep
<1>3. CASE \E t \in DOMAIN dtasks, d \in {"approved", "rejected"} : review_annotation_task(t, d)
  BY <1>3, ReviewStep
<1>4. CASE \/ \E n \in VersionNames : create_version(n, n)
           \/ \E v \in DOMAIN versions, s \in DOMAIN CoreStatus : transition_version(v, s)
  BY <1>4, VersionStep
<1>5. CASE \E m \in DOMAIN Manifests : \E n \in 0 .. Len(Manifests[m].items) : hard_sample_intake(m, n)
  BY <1>5, IntakeStep
<1> QED BY <1>1, <1>2, <1>3, <1>4, <1>5 DEF DataNext

\* However the calls to scenara-data are lost, answered late or repeated, and
\* however often a request is, a task under review has its samples and an
\* annotation of each, a key made one task, and a hard-sample import that was
\* announced is complete: for any requests, assets, manifests, retries and faults.
THEOREM SubmissionsComplete == DataSpec => []SubmittedComplete
<1>1. DataInv => SubmittedComplete
  <2>1. DataInv => \A m \in intakes : IntakeOK(m)
    BY DEF DataInv, IntakeInv
  <2> QED BY <2>1 DEF DataInv, ServiceInv, VersionInv, IntakeInv, OneTaskPerKey, ReviewedComplete,
         SubmittedComplete, DataTypeOK, IntakeOK, Imported, Refused
<1> QED BY DataInitOK, DataStep, <1>1, PTL DEF DataSpec

------------------------------------------------------------------------------
(* Media assets.  What an object, its retention record and the asset's       *)
(* record say together depends on the step the request at work is in and on  *)
(* what a sweep has read before.                                             *)

Raw(a) == <<a, "raw">>
Preview(a) == <<a, "preview">>
AssetKeys == Assets \X Categories

UploadPhases == {"put_raw", "put_preview", "record", "track_raw", "track_preview", "consume", "undo"}
DeletePhases == {"delete_raw", "delete_preview", "mark", "delete_record", "delete_index"}
AssetRequest ==
    {Idle} \cup [at : UploadPhases, kind : {"bytes", "path"}] \cup [at : DeletePhases, preview : BOOLEAN]
SourceRequest == {Idle} \cup [at : {"record", "audit", "secret"}]

\* No later upload can touch an object that a sweep may know: a retention record
\* never becomes "none" again, and an upload starts only where there is none.
RetentionOrder(a) ==
    /\ retention[Preview(a)] # "none" => retention[Raw(a)] # "none"
    /\ a \notin lasting /\ retention[Preview(a)] \in {"expired", "deleted"} =>
           retention[Raw(a)] \in {"expired", "deleted"}
    /\ areq[a].at \in {"put_raw", "put_preview", "record", "track_raw"} => retention[Raw(a)] = "none"
    /\ areq[a].at = "track_preview" => retention[Raw(a)] # "none"
    /\ areq[a].at \in {"put_raw", "put_preview", "record", "track_raw", "track_preview"} =>
           retention[Preview(a)] = "none"

\* What a request has done when it is at a step.
RequestDone(a) ==
    /\ areq[a].at \in {"put_raw", "put_preview", "record", "delete_index"} => assets[a] = NoAsset
    /\ areq[a].at \in {"put_preview", "record"} => Raw(a) \in objects
    /\ areq[a].at = "record" => Preview(a) \in objects
    /\ areq[a].at \in {"delete_preview", "mark"} => Raw(a) \notin objects
    /\ areq[a].at = "mark" /\ areq[a].preview => Preview(a) \notin objects

\* An object is known to the sweep outside an upload's window.
ObjectsKnown(a) ==
    a \notin torn =>
        /\ areq[a].at \notin {"put_preview", "record", "track_raw", "undo"} /\ Raw(a) \in objects =>
               retention[Raw(a)] \in {"live", "expired"}
        /\ /\ areq[a].at \notin {"put_preview", "record", "track_raw", "track_preview", "undo"}
           /\ Preview(a) \in objects
           => retention[Preview(a)] \in {"live", "expired"}

\* The asset offers only what is there or what a sweep has just taken, and is
\* deleted when nothing is left; where the original expires first, a sweep that
\* takes the preview takes or took the original.
Offered(a) ==
    assets[a] # NoAsset =>
        /\ assets[a].original => retention[Raw(a)] # "deleted"
        /\ assets[a].preview => retention[Preview(a)] # "deleted"
        /\ assets[a].deleted => ~ assets[a].original /\ ~ assets[a].preview
        /\ a \notin torn /\ areq[a].at \in {"idle", "track_raw", "track_preview", "consume"} =>
               /\ assets[a].original => Raw(a) \in objects \cup sweep.deleted
               /\ assets[a].preview => Preview(a) \in objects \cup sweep.deleted
               /\ a \notin lasting /\ ~ assets[a].preview => ~ assets[a].original /\ assets[a].deleted
               /\ /\ a \notin lasting /\ assets[a].original
                  /\ Preview(a) \in sweep.keys \cup sweep.deleted
                  => Raw(a) \in sweep.keys \cup sweep.deleted

AssetOK(a) == RetentionOrder(a) /\ RequestDone(a) /\ ObjectsKnown(a) /\ Offered(a)

\* What a sweep has read was expired, and what it has deleted is not stored.
SweepOK ==
    /\ sweep.deleted \cap objects = {}
    /\ \A k \in sweep.keys \cup sweep.deleted : retention[k] \in {"expired", "deleted"}

SourceOK(s) ==
    /\ areq[s].at \in {"record", "audit"} => s \in secrets
    /\ areq[s].at = "audit" => s \in sources
    /\ areq[s].at = "secret" => s \notin sources
    /\ areq[s].at = "idle" /\ s \notin torn => (s \in sources <=> s \in secrets)

MediaTypes ==
    /\ assets \in [Assets -> MediaAsset \cup {NoAsset}]
    /\ retention \in [AssetKeys -> ObjectRetentionRecord]
    /\ objects \subseteq AssetKeys
    /\ sources \subseteq Sources /\ secrets \subseteq Sources
    /\ sweep \in [at : {"idle", "delete"}, keys : SUBSET AssetKeys, deleted : SUBSET AssetKeys]
    /\ areq \in [Assets \cup Sources -> AssetRequest \cup SourceRequest]
    /\ \A a \in Assets : areq[a] \in AssetRequest
    /\ \A s \in Sources : areq[s] \in SourceRequest

MediaInv ==
    /\ MediaTypes /\ SweepOK
    /\ \A a \in Assets : AssetOK(a)
    /\ \A s \in Sources : SourceOK(s)

LEMMA KeyFacts ==
    /\ \A a \in Assets : Raw(a) \in AssetKeys /\ Preview(a) \in AssetKeys /\ Raw(a) # Preview(a)
                         /\ ObjectsOf(a) = {Raw(a), Preview(a)}
    /\ \A a, b \in Assets : a # b =>
           {Raw(a), Preview(a)} \cap {Raw(b), Preview(b)} = {}
    /\ \A k \in AssetKeys : k[1] \in Assets /\ (k = Raw(k[1]) \/ k = Preview(k[1]))
    /\ UNION {ObjectsOf(a) : a \in Assets} = AssetKeys
<1>1. \A a \in Assets : Raw(a) \in AssetKeys /\ Preview(a) \in AssetKeys /\ Raw(a) # Preview(a)
  BY DEF Raw, Preview, AssetKeys, Categories
<1>2. \A a : ObjectsOf(a) = {Raw(a), Preview(a)}
  BY DEF ObjectsOf, Raw, Preview, Categories
<1>3. \A a, b \in Assets : a # b => {Raw(a), Preview(a)} \cap {Raw(b), Preview(b)} = {}
  BY DEF Raw, Preview
<1>4. \A k \in AssetKeys : k[1] \in Assets /\ (k = Raw(k[1]) \/ k = Preview(k[1]))
  BY DEF Raw, Preview, AssetKeys, Categories
<1>5. UNION {ObjectsOf(a) : a \in Assets} = AssetKeys
  BY <1>1, <1>2, <1>4
<1> QED BY <1>1, <1>2, <1>3, <1>4, <1>5

LEMMA RequestFacts ==
    /\ \A q \in AssetRequest : q = Idle <=> q.at = "idle"
    /\ \A q \in AssetRequest : q.at \in {"idle"} \cup UploadPhases \cup DeletePhases
    /\ \A q \in AssetRequest : q.at \in UploadPhases => q.kind \in {"bytes", "path"}
    /\ \A q \in AssetRequest : q.at \in DeletePhases => q.preview \in BOOLEAN
    /\ \A q \in SourceRequest : q = Idle <=> q.at = "idle"
    /\ \A q \in AssetRequest, p \in UploadPhases :
           q.at \in UploadPhases => [q EXCEPT !.at = p] \in AssetRequest /\ [q EXCEPT !.at = p].at = p
    /\ \A q \in AssetRequest, p \in DeletePhases :
           q.at \in DeletePhases => /\ [q EXCEPT !.at = p] \in AssetRequest /\ [q EXCEPT !.at = p].at = p
                                    /\ [q EXCEPT !.at = p].preview = q.preview
<1>1. \A q \in AssetRequest : q = Idle <=> q.at = "idle"
  BY DEF AssetRequest, Idle, UploadPhases, DeletePhases
<1>2. \A q \in AssetRequest : q.at \in {"idle"} \cup UploadPhases \cup DeletePhases
  BY DEF AssetRequest, Idle
<1>3. \A q \in AssetRequest : q.at \in UploadPhases => q \in [at : UploadPhases, kind : {"bytes", "path"}]
  BY DEF AssetRequest, Idle, UploadPhases, DeletePhases
<1>4. \A q \in AssetRequest : q.at \in DeletePhases => q \in [at : DeletePhases, preview : BOOLEAN]
  BY DEF AssetRequest, Idle, UploadPhases, DeletePhases
<1>5. \A q \in SourceRequest : q = Idle <=> q.at = "idle"
  BY DEF SourceRequest, Idle
<1>6. \A q \in AssetRequest, p \in UploadPhases :
          q.at \in UploadPhases => [q EXCEPT !.at = p] \in AssetRequest /\ [q EXCEPT !.at = p].at = p
  BY <1>3 DEF AssetRequest
<1>7. \A q \in AssetRequest, p \in DeletePhases :
          q.at \in DeletePhases => /\ [q EXCEPT !.at = p] \in AssetRequest /\ [q EXCEPT !.at = p].at = p
                                   /\ [q EXCEPT !.at = p].preview = q.preview
  BY <1>4 DEF AssetRequest
<1> QED BY <1>1, <1>2, <1>3, <1>4, <1>5, <1>6, <1>7

LEMMA NoAssetIsNone == NoAsset \notin MediaAsset
BY DEF NoAsset, MediaAsset

\* An asset that a step leaves alone.
LEMMA AssetKept ==
    ASSUME UNCHANGED lasting, NEW b \in Assets, AssetOK(b), assets'[b] = assets[b], areq'[b] = areq[b], torn \subseteq torn',
           sweep' = sweep, retention'[Raw(b)] = retention[Raw(b)],
           retention'[Preview(b)] = retention[Preview(b)],
           Raw(b) \in objects' <=> Raw(b) \in objects,
           Preview(b) \in objects' <=> Preview(b) \in objects
    PROVE  AssetOK(b)'
<1>1. RetentionOrder(b)' /\ RequestDone(b)'
  BY DEF AssetOK, RetentionOrder, RequestDone, Raw, Preview
<1>2. ObjectsKnown(b)'
  BY DEF AssetOK, ObjectsKnown, Raw, Preview
<1>3. Offered(b)'
  BY DEF AssetOK, Offered, Raw, Preview
<1> QED BY <1>1, <1>2, <1>3 DEF AssetOK

\* A step of the request at work on one asset.
LEMMA OneAssetStep ==
    ASSUME MediaInv, UNCHANGED lasting, NEW a \in Assets, NEW m \in MediaAsset \cup {NoAsset}, NEW q \in AssetRequest,
           assets' = [assets EXCEPT ![a] = m], areq' = [areq EXCEPT ![a] = q],
           objects' \subseteq AssetKeys, retention' \in [AssetKeys -> ObjectRetentionRecord],
           \A k \in AssetKeys : k \notin {Raw(a), Preview(a)} =>
               retention'[k] = retention[k] /\ (k \in objects' <=> k \in objects),
           torn \subseteq torn', UNCHANGED <<sources, secrets, sweep>>,
           AssetOK(a)', SweepOK'
    PROVE  MediaInv'
<1>1. ASSUME NEW b \in Assets, b # a PROVE AssetOK(b)'
  <2>1. Raw(b) \in AssetKeys /\ Preview(b) \in AssetKeys
        /\ Raw(b) \notin {Raw(a), Preview(a)} /\ Preview(b) \notin {Raw(a), Preview(a)}
    BY <1>1, KeyFacts
  <2>2. AssetOK(b) /\ assets'[b] = assets[b] /\ areq'[b] = areq[b]
    BY <1>1 DEF MediaInv, MediaTypes
  <2> QED BY <2>1, <2>2, AssetKept
<1>2. ASSUME NEW s \in Sources PROVE SourceOK(s)'
  <2>1. areq'[s] = areq[s] /\ SourceOK(s)
    BY AssetAssumption DEF MediaInv, MediaTypes
  <2> QED BY <2>1 DEF SourceOK
<1>3. MediaTypes'
  BY AssetAssumption DEF MediaInv, MediaTypes, AssetKeys, Categories, MediaAsset, ObjectRetentionRecord
<1> QED BY <1>1, <1>2, <1>3 DEF MediaInv

LEMMA RequestMoved ==
    ASSUME MediaInv, UNCHANGED lasting, NEW a \in Assets, NEW q \in AssetRequest, areq' = [areq EXCEPT ![a] = q],
           torn \subseteq torn', UNCHANGED <<assets, objects, retention, sources, secrets, sweep>>,
           AssetOK(a)'
    PROVE  MediaInv'
<1>1. /\ assets' = [assets EXCEPT ![a] = assets[a]] /\ assets[a] \in MediaAsset \cup {NoAsset}
      /\ objects' \subseteq AssetKeys /\ retention' \in [AssetKeys -> ObjectRetentionRecord]
  BY DEF MediaInv, MediaTypes
<1>2. SweepOK'
  BY DEF MediaInv, SweepOK
<1> QED BY <1>1, <1>2, OneAssetStep

LEMMA UploadInv ==
    ASSUME MediaInv, UNCHANGED lasting, NEW a \in Assets, NEW kind \in {"bytes", "path"}, Upload(a, kind)
    PROVE  MediaInv'
<1> PICK q : q = [at |-> "put_raw", kind |-> kind]
  OBVIOUS
<1>1. q \in AssetRequest /\ q.at = "put_raw"
  BY DEF AssetRequest, UploadPhases
<1>2. areq' = [areq EXCEPT ![a] = q] /\ UNCHANGED <<assets, objects, retention, sources, secrets, sweep, torn>>
  BY DEF Upload, Goes
<1>3. areq[a].at = "idle" /\ assets[a] = NoAsset /\ retention[Raw(a)] = "none" /\ areq'[a] = q /\ AssetOK(a)
  BY <1>2 DEF Upload, Raw, Idle, MediaInv, MediaTypes
<1>4. Raw(a) \in AssetKeys /\ Preview(a) \in AssetKeys
  BY KeyFacts
<1>5. retention[Preview(a)] = "none"
  BY <1>3 DEF AssetOK, RetentionOrder
<1>6. AssetOK(a)'
  BY <1>1, <1>2, <1>3, <1>5 DEF AssetOK, RetentionOrder, RequestDone, ObjectsKnown, Offered, Raw, Preview
<1> QED BY <1>1, <1>2, <1>6, RequestMoved

\* An upload ends, or a step of it raises.
LEMMA UploadEndInv ==
    ASSUME MediaInv, UNCHANGED lasting, NEW a \in Assets, Uploaded(a) \/ UploadRaises(a)
    PROVE  MediaInv'
<1>1. areq[a] \in AssetRequest /\ AssetOK(a) /\ a \in DOMAIN areq
  BY DEF MediaInv, MediaTypes
<1>2. areq[a].at \in {"put_raw", "put_preview", "record", "track_raw", "track_preview", "consume"}
  BY DEF Uploaded, UploadRaises, AfterStep
<1>3. PICK q \in AssetRequest :
          /\ areq' = [areq EXCEPT ![a] = q]
          /\ \/ q.at = "idle" /\ areq[a].at \in {"put_raw", "consume"}
             \/ q.at = "undo" /\ areq[a].at # "put_raw"
  <2>1. [areq[a] EXCEPT !.at = "undo"] \in AssetRequest /\ [areq[a] EXCEPT !.at = "undo"].at = "undo"
    BY <1>1, <1>2, RequestFacts DEF UploadPhases
  <2>2. Idle \in AssetRequest /\ Idle.at = "idle"
    BY DEF AssetRequest, Idle
  <2> QED BY <2>1, <2>2 DEF Uploaded, UploadRaises, Goes, At
<1>4. UNCHANGED <<assets, objects, retention, sources, secrets, sweep, torn>> /\ areq'[a] = q
  BY <1>1, <1>3 DEF Uploaded, UploadRaises
<1>5. AssetOK(a)'
  <2>1. RetentionOrder(a)' /\ RequestDone(a)'
    BY <1>1, <1>3, <1>4 DEF AssetOK, RetentionOrder, RequestDone, Raw, Preview
  <2>2. ObjectsKnown(a)'
    BY <1>1, <1>3, <1>4 DEF AssetOK, ObjectsKnown, Raw, Preview
  <2>3. Offered(a)'
    BY <1>1, <1>3, <1>4 DEF AssetOK, Offered, RequestDone, Raw, Preview
  <2> QED BY <2>1, <2>2, <2>3 DEF AssetOK
<1> QED BY <1>3, <1>4, <1>5, RequestMoved

\* The request of a crashed process is forgotten.
LEMMA CrashInv ==
    ASSUME MediaInv, UNCHANGED lasting, NEW a \in Assets, CrashRequest(a)
    PROVE  MediaInv'
<1>1. Idle \in AssetRequest /\ Idle.at = "idle"
  BY DEF AssetRequest, Idle
<1>2. /\ areq' = [areq EXCEPT ![a] = Idle] /\ torn' = torn \cup {a} /\ AssetOK(a) /\ areq'[a] = Idle
      /\ UNCHANGED <<assets, objects, retention, sources, secrets, sweep>>
  BY DEF CrashRequest, Goes, MediaInv, MediaTypes
<1>3. AssetOK(a)'
  BY <1>1, <1>2 DEF AssetOK, RetentionOrder, RequestDone, ObjectsKnown, Offered, Raw, Preview
<1> QED BY <1>1, <1>2, <1>3, RequestMoved

LEMMA DeleteAssetInv ==
    ASSUME MediaInv, UNCHANGED lasting, NEW a \in Assets, delete_asset(a)
    PROVE  MediaInv'
<1> PICK q : q = [at |-> "delete_raw", preview |-> assets[a].preview]
  OBVIOUS
<1>1. assets[a] \in MediaAsset /\ AssetOK(a) /\ areq[a].at = "idle"
  BY DEF delete_asset, MediaInv, MediaTypes, Idle
<1>2. q \in AssetRequest /\ q.at = "delete_raw"
  BY <1>1 DEF AssetRequest, DeletePhases, MediaAsset
<1>3. /\ areq' = [areq EXCEPT ![a] = q] /\ areq'[a] = q
      /\ UNCHANGED <<assets, objects, retention, sources, secrets, sweep, torn>>
  BY DEF delete_asset, Goes, MediaInv, MediaTypes
<1>4. AssetOK(a)'
  BY <1>1, <1>2, <1>3 DEF AssetOK, RetentionOrder, RequestDone, ObjectsKnown, Offered, Raw, Preview
<1> QED BY <1>2, <1>3, <1>4, RequestMoved

\* A step of an upload: an object, the record or a retention record.
LEMMA UploadStepInv ==
    ASSUME MediaInv, UNCHANGED lasting, NEW a \in Assets, UploadStep(a)
    PROVE  MediaInv'
<1>1. /\ areq[a] \in AssetRequest /\ AssetOK(a) /\ a \in DOMAIN areq /\ assets[a] \in MediaAsset \cup {NoAsset}
      /\ assets \in [Assets -> MediaAsset \cup {NoAsset}] /\ objects \subseteq AssetKeys
      /\ retention \in [AssetKeys -> ObjectRetentionRecord] /\ SweepOK
  BY DEF MediaInv, MediaTypes
<1>2. Raw(a) \in AssetKeys /\ Preview(a) \in AssetKeys /\ Raw(a) # Preview(a)
  BY KeyFacts
<1>3. areq[a].at \in {"put_raw", "put_preview", "record", "track_raw", "track_preview"}
  BY DEF UploadStep, AfterStep
<1>4. PICK q \in AssetRequest : areq' = [areq EXCEPT ![a] = q] /\ q.at = AfterStep[areq[a].at]
  <2>1. PICK p \in UploadPhases : p = AfterStep[areq[a].at]
    BY <1>3 DEF AfterStep, UploadPhases
  <2>2. areq' = [areq EXCEPT ![a] = [areq[a] EXCEPT !.at = p]]
    BY <2>1 DEF UploadStep, Goes, At
  <2>3. areq[a].at \in UploadPhases
    BY <1>3 DEF UploadPhases
  <2>4. [areq[a] EXCEPT !.at = p] \in AssetRequest /\ [areq[a] EXCEPT !.at = p].at = p
    BY <1>1, <2>3, RequestFacts
  <2> QED BY <2>1, <2>2, <2>4
<1>5. areq'[a] = q /\ UNCHANGED <<sources, secrets, sweep, torn>>
  BY <1>1, <1>4 DEF UploadStep
<1>6. retention[Preview(a)] = "none" /\ Preview(a) \notin sweep.keys \cup sweep.deleted
  BY <1>1, <1>3 DEF AssetOK, RetentionOrder, SweepOK
<1>7. CASE areq[a].at = "put_raw"
  <2>1. /\ objects' = objects \cup {Raw(a)} /\ UNCHANGED <<assets, retention>> /\ q.at = "put_preview"
        /\ retention[Raw(a)] = "none"
    BY <1>1, <1>4, <1>7 DEF UploadStep, StepEffect, Raw, AfterStep, AssetOK, RetentionOrder
  <2>2. SweepOK'
    BY <1>1, <1>5, <2>1 DEF SweepOK
  <2>3. AssetOK(a)'
    BY <1>1, <1>5, <1>6, <1>7, <2>1 DEF AssetOK, RetentionOrder, RequestDone, ObjectsKnown, Offered, Raw, Preview
  <2>4. assets' = [assets EXCEPT ![a] = assets[a]]
    BY <1>1, <2>1
  <2> QED BY <1>1, <1>2, <1>4, <1>5, <2>1, <2>2, <2>3, <2>4, OneAssetStep
<1>8. CASE areq[a].at = "put_preview"
  <2>1. /\ objects' = objects \cup {Preview(a)} /\ UNCHANGED <<assets, retention>> /\ q.at = "record"
    BY <1>4, <1>8 DEF UploadStep, StepEffect, Preview, AfterStep
  <2>2. SweepOK'
    BY <1>1, <1>5, <1>6, <2>1 DEF SweepOK
  <2>3. AssetOK(a)'
    BY <1>1, <1>5, <1>6, <1>8, <2>1 DEF AssetOK, RetentionOrder, RequestDone, ObjectsKnown, Offered, Raw, Preview
  <2>4. assets' = [assets EXCEPT ![a] = assets[a]]
    BY <1>1, <2>1
  <2> QED BY <1>1, <1>2, <1>4, <1>5, <2>1, <2>2, <2>3, <2>4, OneAssetStep
<1>9. CASE areq[a].at = "record"
  <2> PICK m : m = [original |-> TRUE, preview |-> TRUE, deleted |-> FALSE]
    OBVIOUS
  <2>1. /\ assets' = [assets EXCEPT ![a] = m] /\ UNCHANGED <<objects, retention>> /\ q.at = "track_raw"
        /\ m \in MediaAsset /\ m.original /\ m.preview
    BY <1>4, <1>9 DEF UploadStep, StepEffect, AfterStep, MediaAsset
  <2>2. SweepOK' /\ assets'[a] = m
    BY <1>1, <1>5, <2>1 DEF SweepOK
  <2>3. AssetOK(a)'
    BY <1>1, <1>5, <1>6, <1>9, <2>1, <2>2
       DEF AssetOK, RetentionOrder, RequestDone, ObjectsKnown, Offered, Raw, Preview
  <2> QED BY <1>1, <1>2, <1>4, <1>5, <2>1, <2>2, <2>3, OneAssetStep
<1>10. CASE areq[a].at = "track_raw"
  <2>1. /\ retention' = [retention EXCEPT ![Raw(a)] = "live"] /\ UNCHANGED <<assets, objects>>
        /\ q.at = "track_preview" /\ retention[Raw(a)] = "none"
    BY <1>1, <1>4, <1>10 DEF UploadStep, StepEffect, Raw, AfterStep, AssetOK, RetentionOrder
  <2>2. /\ retention' \in [AssetKeys -> ObjectRetentionRecord] /\ retention'[Raw(a)] = "live"
        /\ \A k \in AssetKeys : k # Raw(a) => retention'[k] = retention[k]
    BY <1>1, <1>2, <2>1 DEF ObjectRetentionRecord
  <2>3. SweepOK'
    BY <1>1, <1>5, <2>1, <2>2 DEF SweepOK, MediaInv, MediaTypes
  <2>4. AssetOK(a)'
    BY <1>1, <1>2, <1>5, <1>6, <1>10, <2>1, <2>2
       DEF AssetOK, RetentionOrder, RequestDone, ObjectsKnown, Offered, Raw, Preview
  <2>5. assets' = [assets EXCEPT ![a] = assets[a]]
    BY <1>1, <2>1
  <2> QED BY <1>1, <1>2, <1>4, <1>5, <2>1, <2>2, <2>3, <2>4, <2>5, OneAssetStep
<1>11. CASE areq[a].at = "track_preview"
  <2>1. /\ retention' = [retention EXCEPT ![Preview(a)] = "live"] /\ UNCHANGED <<assets, objects>>
        /\ q.at = "consume"
    BY <1>1, <1>4, <1>11 DEF UploadStep, StepEffect, Preview, AfterStep
  <2>2. /\ retention' \in [AssetKeys -> ObjectRetentionRecord] /\ retention'[Preview(a)] = "live"
        /\ \A k \in AssetKeys : k # Preview(a) => retention'[k] = retention[k]
    BY <1>1, <1>2, <2>1 DEF ObjectRetentionRecord
  <2>3. SweepOK'
    BY <1>1, <1>5, <1>6, <2>1, <2>2 DEF SweepOK, MediaInv, MediaTypes
  <2>4. AssetOK(a)'
    BY <1>1, <1>2, <1>5, <1>6, <1>11, <2>1, <2>2
       DEF AssetOK, RetentionOrder, RequestDone, ObjectsKnown, Offered, Raw, Preview
  <2>5. assets' = [assets EXCEPT ![a] = assets[a]]
    BY <1>1, <2>1
  <2> QED BY <1>1, <1>2, <1>4, <1>5, <2>1, <2>2, <2>3, <2>4, <2>5, OneAssetStep
<1> QED BY <1>3, <1>7, <1>8, <1>9, <1>10, <1>11

\* The except clause of a creation, one of its deletions possibly without effect.
LEMMA UndoInv ==
    ASSUME MediaInv, UNCHANGED lasting, NEW a \in Assets, Undo(a) \/ UndoFails(a)
    PROVE  MediaInv'
<1>1. /\ areq[a].at = "undo" /\ AssetOK(a) /\ a \in DOMAIN areq /\ SweepOK
      /\ assets \in [Assets -> MediaAsset \cup {NoAsset}] /\ objects \subseteq AssetKeys
      /\ retention \in [AssetKeys -> ObjectRetentionRecord]
  BY DEF MediaInv, MediaTypes, Undo, UndoFails
<1>2. /\ Raw(a) \in AssetKeys /\ Preview(a) \in AssetKeys /\ Raw(a) # Preview(a)
      /\ ObjectsOf(a) = {Raw(a), Preview(a)}
  BY KeyFacts
<1>3. Idle \in AssetRequest /\ Idle.at = "idle"
  BY DEF AssetRequest, Idle
<1>4. /\ assets' = [assets EXCEPT ![a] = NoAsset] /\ areq' = [areq EXCEPT ![a] = Idle]
      /\ areq'[a] = Idle /\ assets'[a] = NoAsset /\ torn \subseteq torn'
      /\ UNCHANGED <<sources, secrets, sweep>> /\ objects' \subseteq objects
      /\ \A k \in objects : k \notin {Raw(a), Preview(a)} => k \in objects'
  BY <1>1, <1>2 DEF Undo, UndoFails, Goes, Undone
<1>5. a \notin torn' => Raw(a) \notin objects' /\ Preview(a) \notin objects'
  BY <1>2 DEF Undo, UndoFails, Undone
<1>6. \/ UNCHANGED retention
      \/ retention' = [k \in AssetKeys |-> IF k \in {Raw(a), Preview(a)} /\ retention[k] # "none"
                                           THEN "deleted" ELSE retention[k]]
  BY <1>1, <1>2 DEF Undo, UndoFails
<1>7. /\ retention' \in [AssetKeys -> ObjectRetentionRecord]
      /\ \A k \in AssetKeys : retention'[k] = retention[k] \/ retention'[k] = "deleted"
      /\ \A k \in AssetKeys : k \notin {Raw(a), Preview(a)} => retention'[k] = retention[k]
  BY <1>1, <1>6 DEF ObjectRetentionRecord
<1>8. RetentionOrder(a)'
  BY <1>1, <1>2, <1>3, <1>4, <1>6, <1>7 DEF AssetOK, RetentionOrder, Raw, Preview
<1>9. AssetOK(a)'
  BY <1>3, <1>4, <1>5, <1>8 DEF AssetOK, RequestDone, ObjectsKnown, Offered, Raw, Preview
<1>10. SweepOK'
  BY <1>1, <1>4, <1>7 DEF SweepOK, MediaInv, MediaTypes
<1> QED BY <1>1, <1>3, <1>4, <1>7, <1>9, <1>10, OneAssetStep

\* What mark_objects_deleted writes into the record of an asset.
LEMMA AfterMarkIs ==
    ASSUME NEW a \in Assets, NEW keys, assets[a] \in MediaAsset \cup {NoAsset}
    PROVE  /\ AfterMark(a, keys) \in MediaAsset \cup {NoAsset}
           /\ AfterMark(a, keys) = NoAsset <=> assets[a] = NoAsset
           /\ assets[a] # NoAsset =>
                 /\ AfterMark(a, keys).original <=> assets[a].original /\ Raw(a) \notin Marked(keys)
                 /\ AfterMark(a, keys).preview <=> assets[a].preview /\ Preview(a) \notin Marked(keys)
                 /\ AfterMark(a, keys).deleted <=>
                        \/ assets[a].deleted
                        \/ /\ Preview(a) \in Marked(keys)
                           /\ Raw(a) \in Marked(keys) \/ ~ assets[a].original
           /\ Raw(a) \notin Marked(keys) /\ Preview(a) \notin Marked(keys) =>
                 AfterMark(a, keys) = assets[a]
<1>1. CASE assets[a] = NoAsset
  BY <1>1 DEF AfterMark
<1>2. CASE assets[a] # NoAsset
  <2>1. assets[a] \in MediaAsset
    BY <1>2
  <2>2. PICK o \in BOOLEAN : o = (assets[a].original /\ ~ (<<a, "raw">> \in Marked(keys)))
    BY Zenon
  <2>3. PICK v \in BOOLEAN : v = (assets[a].preview /\ ~ (<<a, "preview">> \in Marked(keys)))
    BY Zenon
  <2>4. PICK d \in BOOLEAN :
            d = (assets[a].deleted \/ (/\ <<a, "preview">> \in Marked(keys)
                                       /\ <<a, "raw">> \in Marked(keys) \/ ~ assets[a].original))
    BY Zenon
  <2>5. AfterMark(a, keys) = [assets[a] EXCEPT !.original = o, !.preview = v, !.deleted = d]
    BY <1>2, <2>2, <2>3, <2>4 DEF AfterMark
  <2>6. /\ AfterMark(a, keys) \in MediaAsset /\ AfterMark(a, keys).original = o
        /\ AfterMark(a, keys).preview = v /\ AfterMark(a, keys).deleted = d
    BY <2>1, <2>5 DEF MediaAsset
  <2>7. ASSUME Raw(a) \notin Marked(keys), Preview(a) \notin Marked(keys) PROVE AfterMark(a, keys) = assets[a]
    <3>1. o = assets[a].original /\ v = assets[a].preview /\ d = assets[a].deleted
      BY <2>1, <2>2, <2>3, <2>4, <2>7 DEF Raw, Preview, MediaAsset
    <3> QED BY <2>1, <2>5, <3>1 DEF MediaAsset
  <2> QED BY <1>2, <2>2, <2>3, <2>4, <2>6, <2>7, NoAssetIsNone DEF Raw, Preview
<1> QED BY <1>1, <1>2

\* Marking the objects of one asset.
LEMMA MarkedOne ==
    ASSUME MediaInv, NEW a \in Assets, NEW keys, keys \subseteq {Raw(a), Preview(a)},
           mark_objects_deleted(keys)
    PROVE  /\ assets' = [assets EXCEPT ![a] = AfterMark(a, keys)]
           /\ retention' \in [AssetKeys -> ObjectRetentionRecord]
           /\ \A k \in AssetKeys :
                  retention'[k] = IF k \in keys /\ retention[k] \in {"live", "expired"} THEN "deleted"
                                  ELSE retention[k]
<1>1. assets \in [Assets -> MediaAsset \cup {NoAsset}] /\ retention \in [AssetKeys -> ObjectRetentionRecord]
  BY DEF MediaInv, MediaTypes
<1>2. ASSUME NEW b \in Assets, b # a PROVE AfterMark(b, keys) = assets[b]
  <2>1. Raw(b) \notin Marked(keys) /\ Preview(b) \notin Marked(keys)
    BY <1>2, KeyFacts DEF Marked
  <2> QED BY <1>1, <2>1, AfterMarkIs
<1>3. assets' = [b \in Assets |-> AfterMark(b, keys)]
  BY DEF mark_objects_deleted
<1>4. retention' = [k \in AssetKeys |-> IF k \in keys /\ retention[k] \in {"live", "expired"} THEN "deleted"
                                        ELSE retention[k]]
  BY <1>1 DEF mark_objects_deleted, Marked
<1>5. assets' = [assets EXCEPT ![a] = AfterMark(a, keys)]
  BY <1>1, <1>2, <1>3
<1> QED BY <1>1, <1>4, <1>5 DEF ObjectRetentionRecord

LEMMA DeleteStepInv ==
    ASSUME MediaInv, UNCHANGED lasting, NEW a \in Assets, DeleteStep(a)
    PROVE  MediaInv'
<1>1. /\ areq[a] \in AssetRequest /\ AssetOK(a) /\ a \in DOMAIN areq /\ SweepOK
      /\ assets \in [Assets -> MediaAsset \cup {NoAsset}] /\ objects \subseteq AssetKeys
      /\ retention \in [AssetKeys -> ObjectRetentionRecord]
  BY DEF MediaInv, MediaTypes
<1>2. /\ Raw(a) \in AssetKeys /\ Preview(a) \in AssetKeys /\ Raw(a) # Preview(a)
      /\ ObjectsOf(a) = {Raw(a), Preview(a)}
  BY KeyFacts
<1>3. areq[a].at \in DeletePhases
  BY DEF DeleteStep, DeletePhases
<1>4. UNCHANGED <<sources, secrets, sweep, torn>>
  BY DEF DeleteStep
<1>5. areq[a].preview \in BOOLEAN
  BY <1>1, <1>3, RequestFacts
<1>6. \A p \in DeletePhases : /\ At(a, p) \in AssetRequest /\ At(a, p).at = p
                              /\ At(a, p).preview = areq[a].preview
  BY <1>1, <1>3, RequestFacts DEF At
<1>7. CASE areq[a].at = "delete_raw"
  <2>1. PICK p \in {"delete_preview", "mark"} : Goes(a, At(a, p)) /\ (areq[a].preview => p = "delete_preview")
    BY <1>7 DEF DeleteStep
  <2>2. objects' = objects \ {Raw(a)} /\ UNCHANGED <<assets, retention>>
    BY <1>7 DEF DeleteStep, delete, Raw
  <2>3. PICK q \in AssetRequest : q.at = p /\ q.preview = areq[a].preview /\ areq' = [areq EXCEPT ![a] = q]
    BY <1>6, <2>1 DEF Goes, DeletePhases
  <2>4. areq'[a] = q /\ assets' = [assets EXCEPT ![a] = assets[a]] /\ SweepOK'
    BY <1>1, <1>4, <2>2, <2>3 DEF SweepOK
  <2>5. AssetOK(a)'
    BY <1>1, <1>2, <1>4, <1>7, <2>1, <2>2, <2>3, <2>4
       DEF AssetOK, RetentionOrder, RequestDone, ObjectsKnown, Offered, Raw, Preview
  <2> QED BY <1>1, <1>4, <2>2, <2>3, <2>4, <2>5, OneAssetStep
<1>8. CASE areq[a].at = "delete_preview"
  <2>1. objects' = objects \ {Preview(a)} /\ UNCHANGED <<assets, retention>> /\ Goes(a, At(a, "mark"))
    BY <1>8 DEF DeleteStep, delete, Preview
  <2>2. PICK q \in AssetRequest : q.at = "mark" /\ areq' = [areq EXCEPT ![a] = q]
    BY <1>6, <2>1 DEF Goes, DeletePhases
  <2>3. areq'[a] = q /\ assets' = [assets EXCEPT ![a] = assets[a]] /\ SweepOK'
    BY <1>1, <1>4, <2>1, <2>2 DEF SweepOK
  <2>4. AssetOK(a)'
    BY <1>1, <1>2, <1>4, <1>8, <2>1, <2>2, <2>3
       DEF AssetOK, RetentionOrder, RequestDone, ObjectsKnown, Offered, Raw, Preview
  <2> QED BY <1>1, <1>4, <2>1, <2>2, <2>3, <2>4, OneAssetStep
<1>9. CASE areq[a].at = "mark"
  <2>1. PICK keys \in SUBSET {Raw(a), Preview(a)} :
            mark_objects_deleted(keys) /\ Raw(a) \in keys /\ (Preview(a) \in keys <=> areq[a].preview)
    BY <1>2, <1>5, <1>9 DEF DeleteStep, Raw, Preview
  <2>2. UNCHANGED objects /\ Goes(a, At(a, "delete_record"))
    BY <1>9 DEF DeleteStep
  <2>3. PICK q \in AssetRequest : q.at = "delete_record" /\ areq' = [areq EXCEPT ![a] = q]
    BY <1>6, <2>2 DEF Goes, DeletePhases
  <2>4. PICK m \in MediaAsset \cup {NoAsset} :
            /\ assets' = [assets EXCEPT ![a] = m] /\ (m = NoAsset <=> assets[a] = NoAsset)
            /\ m # NoAsset => /\ m.original <=> assets[a].original /\ Raw(a) \notin Marked(keys)
                              /\ m.preview <=> assets[a].preview /\ Preview(a) \notin Marked(keys)
                              /\ m.deleted => \/ assets[a].deleted
                                              \/ /\ Preview(a) \in Marked(keys)
                                                 /\ Raw(a) \in Marked(keys) \/ ~ assets[a].original
    BY <1>1, <2>1, MarkedOne, AfterMarkIs
  <2>5. /\ retention' \in [AssetKeys -> ObjectRetentionRecord]
        /\ \A k \in AssetKeys :
               retention'[k] = IF k \in keys /\ retention[k] \in {"live", "expired"} THEN "deleted"
                               ELSE retention[k]
    BY <2>1, MarkedOne
  <2>6. areq'[a] = q /\ assets'[a] = m
    BY <1>1, <2>3, <2>4
  <2>7. SweepOK'
    BY <1>1, <1>4, <2>2, <2>5 DEF SweepOK, MediaInv, MediaTypes
  <2>8. retention[Raw(a)] \in ObjectRetentionRecord /\ retention[Preview(a)] \in ObjectRetentionRecord
    BY <1>1, <1>2
  <2>9. RetentionOrder(a)' /\ RequestDone(a)'
    BY <1>1, <1>2, <1>9, <2>1, <2>3, <2>5, <2>6, <2>8
       DEF AssetOK, RetentionOrder, RequestDone, Raw, Preview, ObjectRetentionRecord
  <2>10. ObjectsKnown(a)'
    BY <1>1, <1>2, <1>4, <1>9, <2>1, <2>2, <2>3, <2>5, <2>6
       DEF AssetOK, RequestDone, ObjectsKnown, Raw, Preview
  <2>11. Offered(a)'
    BY <1>1, <1>2, <2>1, <2>3, <2>4, <2>5, <2>6 DEF AssetOK, Offered, Marked, Raw, Preview
  <2>12. \A k \in AssetKeys : k \notin {Raw(a), Preview(a)} => retention'[k] = retention[k]
    BY <2>1, <2>5
  <2> QED BY <1>1, <1>4, <2>2, <2>3, <2>4, <2>5, <2>7, <2>9, <2>10, <2>11, <2>12, OneAssetStep DEF AssetOK
<1>10. CASE areq[a].at \in {"delete_record", "delete_index"}
  <2>1. PICK q \in AssetRequest :
            /\ areq' = [areq EXCEPT ![a] = q] /\ assets' = [assets EXCEPT ![a] = NoAsset]
            /\ q.at \in {"idle", "delete_index"}
    <3>1. Idle \in AssetRequest /\ Idle.at = "idle"
      BY DEF AssetRequest, Idle
    <3>2. CASE areq[a].at = "delete_record"
      <4>1. Goes(a, At(a, "delete_index")) /\ assets' = [assets EXCEPT ![a] = NoAsset]
        BY <3>2 DEF DeleteStep
      <4> QED BY <1>6, <4>1 DEF Goes, DeletePhases
    <3>3. CASE areq[a].at = "delete_index"
      <4>1. assets[a] = NoAsset /\ UNCHANGED assets /\ Goes(a, Idle)
        BY <1>1, <3>3 DEF DeleteStep, AssetOK, RequestDone
      <4> QED BY <1>1, <3>1, <4>1 DEF Goes
    <3> QED BY <1>10, <3>2, <3>3
  <2>2. UNCHANGED <<objects, retention>>
    BY <1>10 DEF DeleteStep
  <2>3. areq'[a] = q /\ assets'[a] = NoAsset /\ SweepOK'
    BY <1>1, <1>4, <2>1, <2>2 DEF SweepOK
  <2>4. AssetOK(a)'
    BY <1>1, <1>4, <1>10, <2>1, <2>2, <2>3
       DEF AssetOK, RetentionOrder, RequestDone, ObjectsKnown, Offered, Raw, Preview
  <2> QED BY <1>1, <1>4, <2>1, <2>2, <2>3, <2>4, OneAssetStep
<1> QED BY <1>3, <1>7, <1>8, <1>9, <1>10 DEF DeletePhases

\* Steps that leave the requests and the sources alone.
LEMMA SourcesKept ==
    ASSUME MediaInv, UNCHANGED <<sources, secrets, areq>>, torn \subseteq torn'
    PROVE  \A s \in Sources : SourceOK(s)'
BY DEF MediaInv, SourceOK

LEMMA ExpireInv ==
    ASSUME MediaInv, UNCHANGED lasting, NEW k \in DOMAIN retention, Expire(k)
    PROVE  MediaInv'
<1>1. /\ k \in AssetKeys /\ retention \in [AssetKeys -> ObjectRetentionRecord] /\ retention[k] = "live"
      /\ assets \in [Assets -> MediaAsset \cup {NoAsset}] /\ objects \subseteq AssetKeys
  BY DEF MediaInv, MediaTypes, Expire
<1> PICK a \in Assets : k = Raw(a) \/ k = Preview(a)
  BY <1>1, KeyFacts
<1>2. Raw(a) \in AssetKeys /\ Preview(a) \in AssetKeys /\ Raw(a) # Preview(a) /\ AssetOK(a) /\ SweepOK
  BY KeyFacts DEF MediaInv
<1>3. UNCHANGED <<assets, objects, areq, sources, secrets, sweep, torn>>
  BY DEF Expire
<1>4. /\ retention' \in [AssetKeys -> ObjectRetentionRecord] /\ retention'[k] = "expired"
      /\ \A j \in AssetKeys : j # k => retention'[j] = retention[j]
  BY <1>1 DEF Expire, ObjectRetentionRecord
<1>5. k = Preview(a) /\ a \notin lasting => retention[Raw(a)] # "live"
  BY DEF Expire, First, Raw, Preview
<1>6. retention[Raw(a)] \in ObjectRetentionRecord /\ retention[Preview(a)] \in ObjectRetentionRecord
  BY <1>1, <1>2
<1>7. RetentionOrder(a)'
  BY <1>1, <1>2, <1>3, <1>4, <1>5, <1>6 DEF AssetOK, RetentionOrder, Raw, Preview, ObjectRetentionRecord
<1>8. RequestDone(a)' /\ ObjectsKnown(a)' /\ Offered(a)'
  BY <1>1, <1>2, <1>3, <1>4 DEF AssetOK, RequestDone, ObjectsKnown, Offered, Raw, Preview
<1>9. SweepOK'
  BY <1>1, <1>2, <1>3, <1>4 DEF SweepOK, MediaInv, MediaTypes
<1>10. /\ assets' = [assets EXCEPT ![a] = assets[a]] /\ areq' = [areq EXCEPT ![a] = areq[a]]
       /\ assets[a] \in MediaAsset \cup {NoAsset} /\ areq[a] \in AssetRequest
  BY <1>1, <1>3 DEF MediaInv, MediaTypes
<1> QED BY <1>1, <1>3, <1>4, <1>7, <1>8, <1>9, <1>10, OneAssetStep DEF AssetOK

\* A sweep reads what is expired: the original with the preview.
LEMMA SweepStartInv == ASSUME MediaInv, UNCHANGED lasting, SweepStart PROVE MediaInv'
<1>1. /\ sweep' = [at |-> "delete", keys |-> expired_object_keys, deleted |-> {}] /\ sweep.deleted = {}
      /\ UNCHANGED <<assets, objects, retention, areq, sources, secrets, torn>>
  BY DEF SweepStart, Resting
<1>2. /\ sweep'.keys = expired_object_keys /\ sweep'.deleted = {}
      /\ expired_object_keys = {k \in AssetKeys : retention[k] = "expired"}
  BY <1>1 DEF expired_object_keys, MediaInv, MediaTypes
<1>3. MediaTypes'
  BY <1>1, <1>2 DEF MediaInv, MediaTypes, AssetKeys, Categories, MediaAsset, ObjectRetentionRecord
<1>4. SweepOK'
  BY <1>1, <1>2 DEF SweepOK
<1>5. ASSUME NEW a \in Assets PROVE AssetOK(a)'
  <2>1. AssetOK(a) /\ Raw(a) \in AssetKeys /\ Preview(a) \in AssetKeys
    BY KeyFacts DEF MediaInv
  <2>2. RetentionOrder(a)' /\ RequestDone(a)' /\ ObjectsKnown(a)'
    BY <1>1, <2>1 DEF AssetOK, RetentionOrder, RequestDone, ObjectsKnown, Raw, Preview
  <2>3. Offered(a)'
    BY <1>1, <1>2, <2>1 DEF AssetOK, RetentionOrder, Offered, Raw, Preview
  <2> QED BY <2>2, <2>3 DEF AssetOK
<1> QED BY <1>1, <1>3, <1>4, <1>5, SourcesKept DEF MediaInv

LEMMA SweepDeleteInv ==
    ASSUME MediaInv, UNCHANGED lasting, NEW k \in DOMAIN retention, SweepDelete(k)
    PROVE  MediaInv'
<1>0. k \in AssetKeys /\ k \in sweep.keys /\ sweep \in [at : {"idle", "delete"}, keys : SUBSET AssetKeys, deleted : SUBSET AssetKeys]
  BY DEF MediaInv, MediaTypes, SweepDelete
<1>1. /\ objects' = objects \ {k} /\ UNCHANGED <<assets, retention, areq, sources, secrets, torn>>
  BY DEF SweepDelete, delete
<1>2. /\ sweep'.keys = sweep.keys \ {k} /\ sweep'.deleted \subseteq sweep.deleted \cup {k}
      /\ sweep.deleted \subseteq sweep'.deleted /\ (k \in objects => k \in sweep'.deleted)
      /\ sweep' \in [at : {"idle", "delete"}, keys : SUBSET AssetKeys, deleted : SUBSET AssetKeys]
  BY <1>0 DEF SweepDelete, Removed
<1>3. MediaTypes'
  BY <1>1, <1>2 DEF MediaInv, MediaTypes, AssetKeys, Categories, MediaAsset, ObjectRetentionRecord
<1>4. SweepOK'
  BY <1>0, <1>1, <1>2 DEF SweepOK, MediaInv
<1>5. ASSUME NEW a \in Assets PROVE AssetOK(a)'
  <2>1. AssetOK(a) /\ Raw(a) \in AssetKeys /\ Preview(a) \in AssetKeys
    BY KeyFacts DEF MediaInv
  <2>2. retention[k] \in {"expired", "deleted"}
    BY <1>0 DEF MediaInv, SweepOK
  <2>3. RetentionOrder(a)' /\ RequestDone(a)'
    BY <1>1, <2>1, <2>2 DEF AssetOK, RetentionOrder, RequestDone, Raw, Preview
  <2>4. ObjectsKnown(a)'
    BY <1>1, <2>1 DEF AssetOK, ObjectsKnown, Raw, Preview
  <2>5. Offered(a)'
    BY <1>0, <1>1, <1>2, <2>1 DEF AssetOK, Offered, Raw, Preview
  <2> QED BY <2>3, <2>4, <2>5 DEF AssetOK
<1> QED BY <1>1, <1>3, <1>4, <1>5, SourcesKept DEF MediaInv

LEMMA SweepMarkInv == ASSUME MediaInv, UNCHANGED lasting, SweepMark PROVE MediaInv'
<1>1. /\ sweep' = Resting /\ sweep.keys = {} /\ UNCHANGED <<objects, areq, sources, secrets, torn>>
      /\ mark_objects_deleted(sweep.deleted)
  BY DEF SweepMark
<1>2. /\ assets \in [Assets -> MediaAsset \cup {NoAsset}] /\ retention \in [AssetKeys -> ObjectRetentionRecord]
      /\ sweep.deleted \subseteq AssetKeys /\ SweepOK
  BY DEF MediaInv, MediaTypes
<1>3. sweep'.keys = {} /\ sweep'.deleted = {}
      /\ sweep' \in [at : {"idle", "delete"}, keys : SUBSET AssetKeys, deleted : SUBSET AssetKeys]
  BY <1>1 DEF Resting
<1>4. /\ retention' \in [AssetKeys -> ObjectRetentionRecord]
      /\ \A k \in AssetKeys : retention'[k] = IF k \in sweep.deleted THEN "deleted" ELSE retention[k]
  <2>1. retention' = [k \in AssetKeys |-> IF k \in Marked(sweep.deleted) THEN "deleted" ELSE retention[k]]
    BY <1>1, <1>2 DEF mark_objects_deleted
  <2> QED BY <1>2, <2>1 DEF Marked, SweepOK, ObjectRetentionRecord
<1>5. /\ assets' \in [Assets -> MediaAsset \cup {NoAsset}]
      /\ \A a \in Assets : assets'[a] = AfterMark(a, sweep.deleted)
  <2>1. assets' = [a \in Assets |-> AfterMark(a, sweep.deleted)]
    BY <1>1 DEF mark_objects_deleted
  <2>2. \A a \in Assets : AfterMark(a, sweep.deleted) \in MediaAsset \cup {NoAsset}
    BY <1>2, AfterMarkIs
  <2> QED BY <2>1, <2>2
<1>6. MediaTypes'
  BY <1>1, <1>3, <1>4, <1>5 DEF MediaInv, MediaTypes, AssetKeys, Categories, MediaAsset, ObjectRetentionRecord
<1>7. SweepOK'
  BY <1>3 DEF SweepOK
<1>8. ASSUME NEW a \in Assets PROVE AssetOK(a)'
  <2>1. AssetOK(a) /\ Raw(a) \in AssetKeys /\ Preview(a) \in AssetKeys
    BY KeyFacts DEF MediaInv
  <2>2. PICK gone : gone = Marked(sweep.deleted)
    OBVIOUS
  <2>3. PICK m : m = assets'[a]
    OBVIOUS
  <2>4. /\ m = NoAsset <=> assets[a] = NoAsset
        /\ assets[a] # NoAsset =>
              /\ m.original <=> assets[a].original /\ Raw(a) \notin gone
              /\ m.preview <=> assets[a].preview /\ Preview(a) \notin gone
              /\ m.deleted <=> \/ assets[a].deleted
                               \/ /\ Preview(a) \in gone
                                  /\ Raw(a) \in gone \/ ~ assets[a].original
    BY <1>2, <1>5, <2>2, <2>3, AfterMarkIs
  <2>5. \A k \in AssetKeys : k \in gone <=> k \in sweep.deleted /\ retention[k] = "expired"
    BY <1>2, <2>2 DEF Marked, SweepOK
  <2>6. /\ Raw(a) \in sweep.deleted => Raw(a) \notin objects /\ retention[Raw(a)] \in {"expired", "deleted"}
        /\ Preview(a) \in sweep.deleted =>
               Preview(a) \notin objects /\ retention[Preview(a)] \in {"expired", "deleted"}
    BY <1>2 DEF SweepOK
  <2>7. RetentionOrder(a)' /\ RequestDone(a)'
    BY <1>1, <1>4, <2>1, <2>3, <2>4, <2>6 DEF AssetOK, RetentionOrder, RequestDone, Raw, Preview
  <2>8. ObjectsKnown(a)'
    BY <1>1, <1>4, <2>1, <2>6 DEF AssetOK, ObjectsKnown, Raw, Preview
  <2>9. Offered(a)'
    <3>1. assets[a] # NoAsset =>
              /\ assets[a].original /\ Raw(a) \in sweep.deleted => ~ m.original
              /\ assets[a].preview /\ Preview(a) \in sweep.deleted => ~ m.preview
      BY <2>1, <2>4, <2>5, <2>6 DEF AssetOK, Offered
    <3> QED BY <1>1, <1>3, <1>4, <2>1, <2>3, <2>4, <2>5, <2>6, <3>1 DEF AssetOK, Offered, Raw, Preview
  <2> QED BY <2>7, <2>8, <2>9 DEF AssetOK
<1> QED BY <1>1, <1>6, <1>7, <1>8, SourcesKept DEF MediaInv

LEMMA CrashSweepInv == ASSUME MediaInv, UNCHANGED lasting, CrashSweep PROVE MediaInv'
<1>1. /\ sweep' = Resting /\ UNCHANGED <<assets, objects, retention, areq, sources, secrets>>
      /\ torn' = torn \cup {k[1] : k \in sweep.deleted}
  BY DEF CrashSweep
<1>2. sweep'.keys = {} /\ sweep'.deleted = {}
      /\ sweep' \in [at : {"idle", "delete"}, keys : SUBSET AssetKeys, deleted : SUBSET AssetKeys]
  BY <1>1 DEF Resting
<1>3. MediaTypes'
  BY <1>1, <1>2 DEF MediaInv, MediaTypes, AssetKeys, Categories, MediaAsset, ObjectRetentionRecord
<1>4. ASSUME NEW a \in Assets PROVE AssetOK(a)'
  <2>1. AssetOK(a)
    BY DEF MediaInv
  <2>2. Raw(a) \in sweep.deleted \/ Preview(a) \in sweep.deleted => a \in torn'
    BY <1>1 DEF Raw, Preview
  <2>3. RetentionOrder(a)' /\ RequestDone(a)' /\ ObjectsKnown(a)'
    BY <1>1, <2>1 DEF AssetOK, RetentionOrder, RequestDone, ObjectsKnown, Raw, Preview
  <2>4. Offered(a)'
    BY <1>1, <1>2, <2>1, <2>2 DEF AssetOK, Offered, Raw, Preview
  <2> QED BY <2>3, <2>4 DEF AssetOK
<1>5. SweepOK'
  BY <1>2 DEF SweepOK
<1> QED BY <1>1, <1>3, <1>4, <1>5, SourcesKept DEF MediaInv

\* A step of the request at work on a source.
LEMMA SourceMoved ==
    ASSUME MediaInv, UNCHANGED lasting, NEW s \in Sources, NEW q \in SourceRequest, areq' = [areq EXCEPT ![s] = q],
           UNCHANGED <<assets, objects, retention, sweep>>, torn \subseteq torn',
           sources' \subseteq Sources, secrets' \subseteq Sources,
           \A x \in Sources : x # s => (x \in sources' <=> x \in sources) /\ (x \in secrets' <=> x \in secrets),
           SourceOK(s)'
    PROVE  MediaInv'
<1>1. ASSUME NEW x \in Sources, x # s PROVE SourceOK(x)'
  BY <1>1 DEF MediaInv, MediaTypes, SourceOK
<1>2. ASSUME NEW a \in Assets PROVE AssetOK(a)'
  <2>1. areq'[a] = areq[a] /\ AssetOK(a)
    BY AssetAssumption DEF MediaInv, MediaTypes
  <2> QED BY <2>1, AssetKept
<1>3. MediaTypes'
  BY AssetAssumption DEF MediaInv, MediaTypes, AssetKeys, Categories, MediaAsset, ObjectRetentionRecord
<1>4. SweepOK'
  BY DEF MediaInv, SweepOK
<1> QED BY <1>1, <1>2, <1>3, <1>4 DEF MediaInv

LEMMA SourceInv ==
    ASSUME MediaInv, UNCHANGED lasting, NEW s \in Sources,
           \/ create_source(s) \/ SourceStored(s) \/ SourceCreated(s) \/ SourceRaises(s)
           \/ delete_source(s) \/ SecretDeleted(s) \/ CrashRequest(s)
    PROVE  MediaInv'
<1>1. /\ s \in DOMAIN areq /\ SourceOK(s) /\ areq[s] \in SourceRequest
      /\ sources \subseteq Sources /\ secrets \subseteq Sources
  BY DEF MediaInv, MediaTypes
<1>2. /\ UNCHANGED <<assets, objects, retention, sweep>> /\ torn \subseteq torn'
      /\ sources' \subseteq Sources /\ secrets' \subseteq Sources
      /\ \A x \in Sources : x # s => (x \in sources' <=> x \in sources) /\ (x \in secrets' <=> x \in secrets)
  BY <1>1 DEF create_source, SourceStored, SourceCreated, SourceRaises, delete_source, SecretDeleted,
              CrashRequest
<1>3. \A p \in {"record", "audit", "secret"} : [at |-> p] \in SourceRequest /\ [at |-> p].at = p
  BY DEF SourceRequest
<1>4. Idle \in SourceRequest /\ Idle.at = "idle"
  BY DEF SourceRequest, Idle
<1>5. PICK q \in SourceRequest :
          /\ areq' = [areq EXCEPT ![s] = q]
          /\ \/ q.at = "record" /\ s \in secrets'
             \/ q.at = "audit" /\ s \in sources' /\ s \in secrets'
             \/ q.at = "secret" /\ s \notin sources'
             \/ q.at = "idle" /\ (s \in torn' \/ (s \in sources' <=> s \in secrets'))
  <2>1. CASE create_source(s)
    BY <1>3, <2>1 DEF create_source, Goes
  <2>2. CASE SourceStored(s)
    BY <1>1, <1>3, <2>2 DEF SourceStored, SourceOK, Goes
  <2>3. CASE SourceCreated(s)
    BY <1>1, <1>4, <2>3 DEF SourceCreated, SourceOK, Goes
  <2>4. CASE SourceRaises(s)
    BY <1>4, <2>4 DEF SourceRaises, Goes
  <2>5. CASE delete_source(s)
    BY <1>3, <2>5 DEF delete_source, Goes
  <2>6. CASE SecretDeleted(s)
    BY <1>1, <1>4, <2>6 DEF SecretDeleted, SourceOK, Goes
  <2>7. CASE CrashRequest(s)
    BY <1>4, <2>7 DEF CrashRequest, Goes
  <2> QED BY <2>1, <2>2, <2>3, <2>4, <2>5, <2>6, <2>7
<1>6. SourceOK(s)'
  BY <1>1, <1>5 DEF SourceOK
<1> QED BY <1>2, <1>5, <1>6, SourceMoved

LEMMA MediaInitOK == AssetInit => MediaInv
<1> SUFFICES ASSUME AssetInit PROVE MediaInv
  OBVIOUS
<1>1. Idle \in AssetRequest \cap SourceRequest /\ Idle.at = "idle"
  BY DEF Idle, AssetRequest, SourceRequest
<1>2. retention = [k \in AssetKeys |-> "none"] /\ sweep.keys = {} /\ sweep.deleted = {}
      /\ sweep \in [at : {"idle", "delete"}, keys : SUBSET AssetKeys, deleted : SUBSET AssetKeys]
  BY KeyFacts DEF AssetInit, Resting
<1>3. MediaTypes
  BY <1>1, <1>2 DEF AssetInit, MediaTypes, ObjectRetentionRecord
<1>4. SweepOK /\ \A s \in Sources : SourceOK(s)
  BY <1>1, <1>2 DEF AssetInit, SweepOK, SourceOK
<1>5. ASSUME NEW a \in Assets PROVE AssetOK(a)
  <2>1. /\ retention[Raw(a)] = "none" /\ retention[Preview(a)] = "none" /\ assets[a] = NoAsset
        /\ areq[a].at = "idle" /\ objects = {}
    BY <1>1, <1>2, KeyFacts DEF AssetInit
  <2> QED BY <2>1 DEF AssetOK, RetentionOrder, RequestDone, ObjectsKnown, Offered
<1> QED BY <1>3, <1>4, <1>5 DEF MediaInv

\* Runs and what is indexed are not part of the invariant.
LEMMA MediaUntouched ==
    ASSUME MediaInv, UNCHANGED lasting, UNCHANGED <<assets, objects, retention, areq, sources, secrets, sweep, torn>>
    PROVE  MediaInv'
<1>1. ASSUME NEW a \in Assets PROVE AssetOK(a)'
  BY AssetKept DEF MediaInv
<1>2. MediaTypes' /\ SweepOK'
  BY DEF MediaInv, MediaTypes, SweepOK, AssetKeys, Categories, MediaAsset, ObjectRetentionRecord
<1> QED BY <1>1, <1>2, SourcesKept DEF MediaInv

LEMMA MediaStep == MediaInv /\ [AssetNext]_assetVars => MediaInv'
<1> SUFFICES ASSUME MediaInv, [AssetNext]_assetVars PROVE MediaInv'
  OBVIOUS
<1>0. UNCHANGED lasting
  BY DEF assetVars, AssetNext
<1>1. CASE UNCHANGED assetVars
  BY <1>0, <1>1, MediaUntouched DEF assetVars
<1>2. ASSUME NEW a \in Assets,
             \/ \E kind \in {"bytes", "path"} : Upload(a, kind)
             \/ UploadStep(a) \/ Uploaded(a) \/ UploadRaises(a) \/ Undo(a) \/ UndoFails(a)
             \/ delete_asset(a) \/ DeleteStep(a) \/ CrashRequest(a)
      PROVE  MediaInv'
  BY <1>0, <1>2, UploadInv, UploadStepInv, UploadEndInv, UndoInv, DeleteAssetInv, DeleteStepInv, CrashInv
<1>3. ASSUME NEW a \in Assets, create_run(a) \/ EndRun(a) PROVE MediaInv'
  BY <1>0, <1>3, MediaUntouched DEF create_run, EndRun
<1>4. ASSUME NEW k \in DOMAIN retention, Expire(k) \/ SweepDelete(k) PROVE MediaInv'
  BY <1>0, <1>4, ExpireInv, SweepDeleteInv
<1>5. CASE SweepStart \/ SweepMark \/ CrashSweep
  BY <1>0, <1>5, SweepStartInv, SweepMarkInv, CrashSweepInv
<1>6. ASSUME NEW s \in Sources,
             \/ create_source(s) \/ SourceStored(s) \/ SourceCreated(s) \/ SourceRaises(s)
             \/ delete_source(s) \/ SecretDeleted(s) \/ CrashRequest(s)
      PROVE  MediaInv'
  BY <1>0, <1>6, SourceInv
<1> QED BY <1>1, <1>2, <1>3, <1>4, <1>5, <1>6 DEF AssetNext

\* However uploads, deletions and sweeps of any number of assets and sources
\* overlap, raise and crash, in either order of the two expiries: an object is
\* known to the sweep, an asset offers only what is stored, a deleted one lost both
\* objects, one that lost both is deleted unless its original outlasts its preview,
\* and a source has its secret, but for what a crash or a failed compensation left.
THEOREM MediaIsAccounted == AssetSpec => []MediaAccounted
<1>1. MediaInv => MediaAccounted
  <2> SUFFICES ASSUME MediaInv PROVE MediaAccounted
    OBVIOUS
  <2>1. AssetTypeOK
    BY DEF MediaInv, MediaTypes, AssetTypeOK
  <2>2. \A k \in objects : areq[k[1]] = Idle /\ k[1] \notin torn => retention[k] \in {"live", "expired"}
    <3> SUFFICES ASSUME NEW k \in objects, areq[k[1]] = Idle, k[1] \notin torn
                 PROVE  retention[k] \in {"live", "expired"}
      OBVIOUS
    <3>1. k \in AssetKeys /\ Idle.at = "idle"
      BY DEF MediaInv, MediaTypes, Idle
    <3>2. PICK a \in Assets : a = k[1] /\ (k = Raw(a) \/ k = Preview(a))
      BY <3>1, KeyFacts
    <3> QED BY <3>1, <3>2 DEF MediaInv, AssetOK, ObjectsKnown
  <2>3. ASSUME NEW a \in Assets, assets[a] # NoAsset, areq[a] = Idle, a \notin torn
        PROVE  /\ assets[a].original => <<a, "raw">> \in objects \cup sweep.deleted
               /\ get_asset_preview(a) => <<a, "preview">> \in objects \cup sweep.deleted
               /\ assets[a].deleted => ~ assets[a].original /\ ~ assets[a].preview
               /\ ~ assets[a].original /\ ~ assets[a].preview /\ a \notin lasting => assets[a].deleted
    <3>1. areq[a].at = "idle" /\ AssetOK(a)
      BY <2>3 DEF MediaInv, Idle
    <3> QED BY <2>3, <3>1 DEF AssetOK, Offered, Raw, Preview, get_asset_preview
  <2>4. \A s \in Sources : areq[s] = Idle /\ s \notin torn => (probe_source(s) <=> s \in secrets)
    BY DEF MediaInv, SourceOK, probe_source, Idle
  <2> QED BY <2>1, <2>2, <2>3, <2>4 DEF MediaAccounted
<1> QED BY MediaInitOK, MediaStep, <1>1, PTL DEF AssetSpec

------------------------------------------------------------------------------
(* Finite sets of records.                                                   *)

LEMMA LeastNatural ==
    ASSUME NEW T, T \subseteq Nat, T # {}
    PROVE  \E m \in T : \A n \in T : m <= n
<1>1. PICK R : R = OpToRel(<, Nat)
  OBVIOUS
<1>2. IsWellFoundedOn(R, Nat)
  BY <1>1, NatLessThanWellFounded
<1>3. PICK m \in T : \A n \in T : <<n, m>> \notin R
  BY <1>2, WFMin
<1>4. \A n \in T : ~(n < m)
  BY <1>1, <1>3 DEF OpToRel
<1>. QED BY <1>3, <1>4

LEMMA SmallerSet ==
    ASSUME NEW S, IsFiniteSet(S), NEW T, T \subseteq S
    PROVE  /\ IsFiniteSet(T) /\ Cardinality(T) \in Nat /\ Cardinality(S) \in Nat
           /\ Cardinality(T) <= Cardinality(S) /\ (T # S => Cardinality(T) < Cardinality(S))
<1>1. IsFiniteSet(T) /\ Cardinality(T) <= Cardinality(S) /\ (Cardinality(S) = Cardinality(T) => S = T)
  BY FS_Subset
<1>2. Cardinality(T) \in Nat /\ Cardinality(S) \in Nat
  BY <1>1, FS_CardinalityType
<1>. QED BY <1>1, <1>2

-----------------------------------------------------------------------------
(* What LIMIT and OFFSET yield.                                              *)

Ordered ==
    \A r, s, t \in Ready :
        /\ ~Newer(r, r)
        /\ Newer(r, s) /\ Newer(s, t) => Newer(r, t)
        /\ r # s => Newer(r, s) \/ Newer(s, r)

StampsOK == Ready \subseteq RecordIds /\ created \in [Ready -> Int]

LEMMA NewerIsOrder == StampsOK => Ordered
<1>. SUFFICES ASSUME StampsOK PROVE Ordered
  OBVIOUS
<1>1. \A r \in Ready : created[r] \in Int /\ Records[r].place \in Int
  BY IndexAssumption DEF StampsOK
<1>2. \A r, s \in Ready : Records[r].place = Records[s].place => r = s
  BY IndexAssumption DEF StampsOK
<1>3. ASSUME NEW r \in Ready, NEW s \in Ready, NEW t \in Ready
      PROVE  /\ ~Newer(r, r)
             /\ Newer(r, s) /\ Newer(s, t) => Newer(r, t)
             /\ r # s => Newer(r, s) \/ Newer(s, r)
  <2>1. PICK a \in Int, b \in Int, c \in Int : a = created[r] /\ b = created[s] /\ c = created[t]
    BY <1>1
  <2>2. PICK i \in Int, j \in Int, k \in Int : i = Records[r].place /\ j = Records[s].place /\ k = Records[t].place
    BY <1>1
  <2>3. r # s => i # j
    BY <1>2, <2>2
  <2>4. /\ Newer(r, r) <=> (a > a \/ (a = a /\ i > i))
        /\ Newer(r, s) <=> (a > b \/ (a = b /\ i > j))
        /\ Newer(s, r) <=> (b > a \/ (b = a /\ j > i))
        /\ Newer(s, t) <=> (b > c \/ (b = c /\ j > k))
        /\ Newer(r, t) <=> (a > c \/ (a = c /\ i > k))
    BY <2>1, <2>2 DEF Newer
  <2>. QED BY <2>3, <2>4
<1>. QED BY <1>3 DEF Ordered

Before(i, r) == {s \in OfIndex(i) : Newer(s, r)}

LEMMA RankFacts ==
    ASSUME StampsOK, NEW i, NEW r \in OfIndex(i)
    PROVE  /\ IsFiniteSet(OfIndex(i)) /\ Rank(i, r) \in Nat /\ Rank(i, r) < Cardinality(OfIndex(i))
           /\ \A s \in OfIndex(i) : Newer(s, r) => Rank(i, s) < Rank(i, r)
<1>1. OfIndex(i) \subseteq Ready /\ OfIndex(i) \subseteq RecordIds /\ Ordered
  BY NewerIsOrder DEF OfIndex, StampsOK
<1>2. IsFiniteSet(OfIndex(i))
  BY <1>1, IndexAssumption, SmallerSet
<1>3. Before(i, r) \subseteq OfIndex(i) /\ r \notin Before(i, r)
  BY <1>1 DEF Before, Ordered
<1>4. Cardinality(Before(i, r)) \in Nat /\ Cardinality(Before(i, r)) < Cardinality(OfIndex(i)) /\ IsFiniteSet(Before(i, r))
  BY <1>2, <1>3, SmallerSet
<1>5. ASSUME NEW s \in OfIndex(i), Newer(s, r) PROVE Cardinality(Before(i, s)) < Cardinality(Before(i, r))
  <2>1. Before(i, s) \subseteq Before(i, r) /\ s \in Before(i, r) /\ s \notin Before(i, s)
    BY <1>1, <1>5 DEF Before, Ordered
  <2>. QED BY <1>4, <2>1, SmallerSet
<1>6. \A s : Rank(i, s) = Cardinality(Before(i, s))
  BY DEF Rank, Before
<1>. QED BY <1>2, <1>4, <1>5, <1>6

LEMMA RanksDiffer ==
    ASSUME StampsOK, NEW i, NEW s \in OfIndex(i), NEW t \in OfIndex(i), Rank(i, s) = Rank(i, t)
    PROVE  s = t
<1>1. SUFFICES ASSUME s # t PROVE FALSE
  OBVIOUS
<1>2. Newer(s, t) \/ Newer(t, s)
  BY <1>1, NewerIsOrder DEF Ordered, OfIndex
<1>3. Rank(i, s) \in Nat /\ Rank(i, t) \in Nat
  BY RankFacts
<1>. QED BY <1>2, <1>3, RankFacts

\* Every position up to that of a record is taken.
LEMMA RanksAreDense ==
    ASSUME StampsOK, NEW i, NEW r \in OfIndex(i), NEW k \in Nat, k < Rank(i, r)
    PROVE  \E s \in OfIndex(i) : Rank(i, s) = k
<1>1. SUFFICES ASSUME \A s \in OfIndex(i) : Rank(i, s) # k PROVE FALSE
  OBVIOUS
<1>2. \A s \in OfIndex(i) : Rank(i, s) \in Nat
  BY RankFacts
<1>3. PICK T : T = {Rank(i, s) : s \in {u \in OfIndex(i) : Rank(i, u) > k}}
  OBVIOUS
<1>4. T \subseteq Nat /\ T # {}
  BY <1>2, <1>3
<1>5. PICK m \in T : \A n \in T : m <= n
  BY <1>4, LeastNatural
<1>6. PICK x \in OfIndex(i) : Rank(i, x) = m /\ Rank(i, x) > k
  BY <1>3, <1>5
<1>7. ASSUME NEW s \in Before(i, x) PROVE s \in OfIndex(i) /\ Rank(i, s) \in 0..(k - 1)
  <2>1. s \in OfIndex(i) /\ Newer(s, x)
    BY <1>7 DEF Before
  <2>2. Rank(i, s) < m /\ Rank(i, s) \in Nat /\ m \in Nat
    BY <1>2, <1>6, <2>1, RankFacts
  <2>3. ~(Rank(i, s) > k)
    <3>1. SUFFICES ASSUME Rank(i, s) > k PROVE FALSE
      OBVIOUS
    <3>2. Rank(i, s) \in T
      BY <1>3, <2>1, <3>1
    <3>. QED BY <1>5, <2>2, <3>2
  <2>4. Rank(i, s) # k
    BY <1>1, <2>1
  <2>. QED BY <2>1, <2>2, <2>3, <2>4
<1>8. IsFiniteSet(Before(i, x)) /\ Cardinality(Before(i, x)) = Rank(i, x)
  <2>1. Before(i, x) \subseteq OfIndex(i) /\ IsFiniteSet(OfIndex(i))
    BY <1>6, RankFacts DEF Before
  <2>. QED BY <2>1, SmallerSet DEF Rank, Before
<1>9. IsFiniteSet(0..(k - 1)) /\ Cardinality(0..(k - 1)) = k
  <2>1. IsFiniteSet(0..(k - 1)) /\ Cardinality(0..(k - 1)) = IF 0 > k - 1 THEN 0 ELSE (k - 1) - 0 + 1
    BY FS_Interval
  <2>. QED BY <2>1
<1>10. PICK f : f = [s \in Before(i, x) |-> Rank(i, s)]
  OBVIOUS
<1>11. f \in [Before(i, x) -> 0..(k - 1)]
  BY <1>7, <1>10
<1>12. Cardinality(0..(k - 1)) < Cardinality(Before(i, x))
  BY <1>6, <1>8, <1>9
<1>13. PICK s, t \in Before(i, x) : s # t /\ f[s] = f[t]
  BY <1>8, <1>9, <1>11, <1>12, FS_PigeonHole
<1>14. Rank(i, s) = Rank(i, t) /\ s \in OfIndex(i) /\ t \in OfIndex(i) /\ s # t
  BY <1>7, <1>10, <1>13
<1>. QED BY <1>14, RanksDiffer

\* A page holds at most PageSize records, and a short one is the last.
LEMMA PageFacts ==
    ASSUME StampsOK, NEW i, NEW offset \in Nat, NEW page, page = list_records(i, offset)
    PROVE  /\ page \subseteq OfIndex(i) /\ Cardinality(page) \in Nat /\ Cardinality(page) <= PageSize
           /\ Cardinality(page) < PageSize => \A r \in OfIndex(i) : Rank(i, r) < offset + PageSize
<1>1. page \subseteq OfIndex(i) /\ PageSize \in Nat \ {0}
  BY IndexAssumption DEF list_records
<1>2. PICK span : span = offset..(offset + PageSize - 1)
  OBVIOUS
<1>3. IsFiniteSet(span) /\ Cardinality(span) = PageSize
  <2>1. PICK b \in Int : b = offset + PageSize - 1
    BY <1>1
  <2>2. IsFiniteSet(offset..b) /\ Cardinality(offset..b) = IF offset > b THEN 0 ELSE b - offset + 1
    BY FS_Interval
  <2>. QED BY <1>1, <1>2, <2>1, <2>2
<1>4. IsFiniteSet(page) /\ Cardinality(page) \in Nat
  <2>1. OfIndex(i) \subseteq RecordIds
    BY DEF OfIndex, StampsOK
  <2>. QED BY <1>1, <2>1, IndexAssumption, SmallerSet
<1>5. \A s \in OfIndex(i) : Rank(i, s) \in Nat
  BY RankFacts
<1>6. \A s \in OfIndex(i) : s \in page <=> Rank(i, s) \in span
  BY <1>1, <1>2, <1>5 DEF list_records
<1>7. Cardinality(page) <= PageSize
  <2>1. SUFFICES ASSUME Cardinality(span) < Cardinality(page) PROVE FALSE
    BY <1>1, <1>3, <1>4
  <2>2. PICK f : f = [s \in page |-> Rank(i, s)]
    OBVIOUS
  <2>3. f \in [page -> span]
    BY <1>1, <1>6, <2>2
  <2>4. PICK s, t \in page : s # t /\ f[s] = f[t]
    BY <1>3, <1>4, <2>1, <2>3, FS_PigeonHole
  <2>. QED BY <1>1, <2>2, <2>4, RanksDiffer
<1>8. ASSUME Cardinality(page) < PageSize, NEW r \in OfIndex(i) PROVE Rank(i, r) < offset + PageSize
  <2>1. SUFFICES ASSUME Rank(i, r) >= offset + PageSize PROVE FALSE
    BY <1>1, <1>5
  <2>2. ASSUME NEW k \in span PROVE \E s \in OfIndex(i) : Rank(i, s) = k
    <3>1. k \in Nat /\ k < Rank(i, r)
      BY <1>1, <1>2, <1>5, <2>1
    <3>. QED BY <3>1, RanksAreDense
  <2>3. PICK f : f = [k \in span |-> CHOOSE s \in OfIndex(i) : Rank(i, s) = k]
    OBVIOUS
  <2>4. \A k \in span : f[k] \in OfIndex(i) /\ Rank(i, f[k]) = k
    BY <2>2, <2>3
  <2>5. f \in [span -> page]
    BY <1>6, <2>3, <2>4
  <2>6. PICK j, k \in span : j # k /\ f[j] = f[k]
    BY <1>3, <1>4, <1>8, <2>5, FS_PigeonHole
  <2>. QED BY <2>4, <2>6
<1>. QED BY <1>1, <1>4, <1>7, <1>8

\* Hits are ranked by score and then by id: an order of the records.
LEMMA AheadIsOrder ==
    ASSUME NEW r \in RecordIds, NEW s \in RecordIds, NEW u \in RecordIds
    PROVE  ~Ahead(r, r) /\ (Ahead(r, s) /\ Ahead(s, u) => Ahead(r, u))
<1>1. PICK a \in Int, b \in Int, c \in Int : a = Records[r].score /\ b = Records[s].score /\ c = Records[u].score
  BY IndexAssumption
<1>2. PICK i \in Int, j \in Int, k \in Int : i = Records[r].place /\ j = Records[s].place /\ k = Records[u].place
  BY IndexAssumption
<1>3. /\ Ahead(r, r) <=> (a > a \/ (a = a /\ i < i))
      /\ Ahead(r, s) <=> (a > b \/ (a = b /\ i < j))
      /\ Ahead(s, u) <=> (b > c \/ (b = c /\ j < k))
      /\ Ahead(r, u) <=> (a > c \/ (a = c /\ i < k))
  BY <1>1, <1>2 DEF Ahead
<1>. QED BY <1>3

\* Of the records ahead of r, if there are n of them, n are among the best n.
Better(ids, r) == {x \in ids : Ahead(x, r)}

LEMMA BestFacts ==
    ASSUME NEW ids, ids \subseteq RecordIds, NEW r \in RecordIds, NEW n \in Nat,
           Cardinality(Better(ids, r)) >= n
    PROVE  Cardinality(Better(Best(ids, n), r)) >= n
<1>1. IsFiniteSet(ids)
  BY IndexAssumption, SmallerSet
<1>2. \A x : Better(ids, x) \subseteq ids
  BY DEF Better
<1>3. \A x : IsFiniteSet(Better(ids, x)) /\ Cardinality(Better(ids, x)) \in Nat
  BY <1>1, <1>2, SmallerSet
<1>4. \A x \in ids : x \in Best(ids, n) <=> Cardinality(Better(ids, x)) < n
  BY DEF Best, Better
<1>5. PICK X : X = {x \in ids : x \notin Best(ids, n) /\ Ahead(x, r)}
  OBVIOUS
<1>6. IsFiniteSet(Better(Best(ids, n), r)) /\ Cardinality(Better(Best(ids, n), r)) \in Nat
  <2>1. Better(Best(ids, n), r) \subseteq ids
    BY DEF Better, Best
  <2>. QED BY <1>1, <2>1, SmallerSet
<1>7. CASE X = {}
  <2>1. Better(ids, r) \subseteq Better(Best(ids, n), r)
    BY <1>5, <1>7 DEF Better
  <2>2. Cardinality(Better(ids, r)) <= Cardinality(Better(Best(ids, n), r))
    BY <1>6, <2>1, SmallerSet
  <2>. QED BY <1>3, <1>6, <2>2
<1>8. CASE X # {}
  <2>1. PICK T : T = {Cardinality(Better(ids, x)) : x \in X}
    OBVIOUS
  <2>2. T \subseteq Nat /\ T # {}
    BY <1>3, <1>8, <2>1
  <2>3. PICK m \in T : \A k \in T : m <= k
    BY <2>2, LeastNatural
  <2>4. PICK x \in X : m = Cardinality(Better(ids, x))
    BY <2>1, <2>3
  <2>5. x \in ids /\ x \in RecordIds /\ Ahead(x, r) /\ m \in Nat /\ m >= n
    BY <1>3, <1>4, <1>5, <2>4
  <2>6. ASSUME NEW y \in Better(ids, x) PROVE y \in Better(Best(ids, n), r)
    <3>1. y \in ids /\ y \in RecordIds /\ Ahead(y, x)
      BY <2>6 DEF Better
    <3>2. Ahead(y, r)
      BY <2>5, <3>1, AheadIsOrder
    <3>3. Better(ids, y) \subseteq Better(ids, x) /\ y \notin Better(ids, y)
      BY <2>5, <3>1, AheadIsOrder DEF Better
    <3>4. Cardinality(Better(ids, y)) < m /\ Cardinality(Better(ids, y)) \in Nat
      BY <1>3, <2>4, <2>6, <3>3, SmallerSet
    <3>5. Cardinality(Better(ids, y)) \notin T
      BY <2>3, <2>5, <3>4
    <3>6. y \notin X
      BY <2>1, <3>5
    <3>. QED BY <1>5, <3>1, <3>2, <3>6 DEF Better
  <2>7. Better(ids, x) \subseteq Better(Best(ids, n), r)
    BY <2>6
  <2>8. m <= Cardinality(Better(Best(ids, n), r))
    BY <1>6, <2>4, <2>7, SmallerSet
  <2>. QED BY <1>6, <2>5, <2>8
<1>. QED BY <1>7, <1>8

-----------------------------------------------------------------------------
(* The inductive invariant of the index.  While one attempt indexes a Run    *)
(* the index holds what it has written; a search that nothing shifted has    *)
(* read every steady record or will meet it at its offset or later.          *)

IndexSteps == {"idle", "define", "write", "define_vectors", "write_vectors", "done"}
QueryRecord ==
    [at : {"idle", "pages", "enrich", "answered"}, index : IndexIds \cup {"none"}, media : {"any", "video"},
     rows : SUBSET RecordIds, offset : Nat, steady : SUBSET RecordIds, shifted : BOOLEAN, hits : SUBSET RecordIds]

IndexTypes ==
    /\ StampsOK
    /\ indexing \in [DOMAIN Attempts -> IndexSteps]
    /\ indexedAssets \in [IndexedAssets -> {"kept", "deleting", "deleted"}]
    /\ query \in QueryRecord
    /\ indexTime \in Nat

Written(a) ==
    {r \in ResultRecords(a) : indexing[a] \in {"define_vectors", "write_vectors"} /\ ~Records[r].vector}

AssetOf(r) == indexedAssets[Records[r].asset]
OfThisRun(run) == {a \in DOMAIN Attempts : Attempts[a].run = run}

\* The index holds the result of attempt a, less what expired or went with its asset.
HoldsResult(a, run) ==
    /\ Ready \cap OfRun(run) \subseteq ResultRecords(a)
    /\ \A r \in ResultRecords(a) : r \in Ready \/ Stale(r) \/ AssetOf(r) = "deleted"

\* The index holds what attempt a has written so far.
HoldsWritten(a, run) ==
    /\ \A r \in ResultRecords(a) : AssetOf(r) = "kept"
    /\ Ready \cap OfRun(run) \subseteq Written(a)
    /\ \A r \in Written(a) : r \in Ready \/ Stale(r)

RunSound(run) ==
    run \notin mixed =>
        /\ \A a, b \in OfThisRun(run) : Indexer(a) /\ Indexer(b) => a = b
        /\ \A a \in OfThisRun(run) : Indexer(a) => HoldsWritten(a, run)
        /\ \A a \in OfThisRun(run) :
              indexing[a] = "done" /\ (\A b \in OfThisRun(run) : ~Indexer(b)) =>
                 \E b \in OfThisRun(run) : indexing[b] = "done" /\ HoldsResult(b, run)

\* The reasons why a search that nothing shifted leaves out a record it should find.
Missed(q, r) ==
    \/ Cardinality(Better(q.hits, r)) >= HitLimit
    \/ q.media # "any" /\ Cardinality(Better({x \in q.rows : Matches(x)}, r)) >= FetchLimit

QueryOK(q) ==
    ~q.shifted =>
        /\ q.at = "pages" => /\ q.steady \subseteq OfIndex(q.index)
                             /\ \A r \in q.steady : r \in q.rows \/ Rank(q.index, r) >= q.offset
        /\ q.at = "enrich" => q.steady \subseteq q.rows
        /\ q.at = "answered" =>
              \A r \in q.steady : Matches(r) /\ Wanted(r, q.media) /\ r \notin q.hits => Missed(q, r)

IndexInv == IndexTypes /\ (\A a \in DOMAIN Attempts : RunSound(Attempts[a].run)) /\ QueryOK(query)

-----------------------------------------------------------------------------
\* A step that does not touch the result of the run but for what expired or went
\* with an asset none of its attempts is using.
RunQuiet(run) ==
    /\ run \notin mixed' => run \notin mixed
    /\ \A a \in OfThisRun(run) :
          /\ Indexer(a)' <=> Indexer(a)
          /\ Written(a)' = Written(a)
          /\ indexing'[a] = "done" <=> indexing[a] = "done"
    /\ \A r \in OfRun(run) :
          /\ r \in Ready' => r \in Ready
          /\ r \in Ready => r \in Ready' \/ Stale(r)' \/ (AssetOf(r) # "kept" /\ AssetOf(r)' = "deleted")
          /\ Stale(r) => Stale(r)'
          /\ AssetOf(r) = "deleted" => AssetOf(r)' = "deleted"
    /\ run \notin mixed' =>
          \A a \in OfThisRun(run) : Indexer(a) =>
              \A r \in ResultRecords(a) : AssetOf(r) = "kept" => AssetOf(r)' = "kept"

LEMMA ResultsOfRun ==
    ASSUME NEW run, NEW a \in OfThisRun(run) PROVE ResultRecords(a) \subseteq OfRun(run) /\ OfRun(run) \subseteq RecordIds
BY IndexAssumption DEF OfThisRun, OfRun

LEMMA QuietRun ==
    ASSUME NEW run, RunSound(run), RunQuiet(run) PROVE RunSound(run)'
<1>1. SUFFICES ASSUME run \notin mixed'
               PROVE /\ \A a, b \in OfThisRun(run) : Indexer(a)' /\ Indexer(b)' => a = b
                     /\ \A a \in OfThisRun(run) : Indexer(a)' => HoldsWritten(a, run)'
                     /\ \A a \in OfThisRun(run) :
                           indexing'[a] = "done" /\ (\A b \in OfThisRun(run) : ~Indexer(b)') =>
                              \E b \in OfThisRun(run) : indexing'[b] = "done" /\ HoldsResult(b, run)'
  BY DEF RunSound, OfThisRun
<1>2. run \notin mixed
  BY <1>1 DEF RunQuiet
<1>3. \A a, b \in OfThisRun(run) : Indexer(a)' /\ Indexer(b)' => a = b
  BY <1>2 DEF RunSound, RunQuiet
<1>4. ASSUME NEW a \in OfThisRun(run), Indexer(a)' PROVE HoldsWritten(a, run)'
  <2>1. Indexer(a) /\ HoldsWritten(a, run) /\ Written(a)' = Written(a)
    BY <1>2, <1>4 DEF RunSound, RunQuiet
  <2>2. ResultRecords(a) \subseteq OfRun(run) /\ Written(a) \subseteq ResultRecords(a)
    BY ResultsOfRun DEF Written
  <2>3. \A r \in ResultRecords(a) : AssetOf(r) = "kept" /\ AssetOf(r)' = "kept"
    BY <1>1, <2>1 DEF RunQuiet, HoldsWritten
  <2>4. Ready' \cap OfRun(run) \subseteq Written(a)
    BY <2>1 DEF RunQuiet, HoldsWritten
  <2>5. \A r \in Written(a) : r \in Ready' \/ Stale(r)'
    BY <2>1, <2>2, <2>3 DEF RunQuiet, HoldsWritten
  <2>. QED BY <2>1, <2>3, <2>4, <2>5 DEF HoldsWritten, OfRun, ResultRecords, RecordIds
<1>5. ASSUME NEW a \in OfThisRun(run), indexing'[a] = "done", \A b \in OfThisRun(run) : ~Indexer(b)'
      PROVE  \E b \in OfThisRun(run) : indexing'[b] = "done" /\ HoldsResult(b, run)'
  <2>1. PICK b \in OfThisRun(run) : indexing[b] = "done" /\ HoldsResult(b, run)
    BY <1>2, <1>5 DEF RunSound, RunQuiet
  <2>2. ResultRecords(b) \subseteq OfRun(run)
    BY ResultsOfRun
  <2>3. Ready' \cap OfRun(run) \subseteq ResultRecords(b)
    BY <2>1 DEF RunQuiet, HoldsResult
  <2>4. \A r \in ResultRecords(b) : r \in Ready' \/ Stale(r)' \/ AssetOf(r)' = "deleted"
    BY <2>1, <2>2 DEF RunQuiet, HoldsResult
  <2>5. HoldsResult(b, run)'
    BY <2>3, <2>4 DEF HoldsResult, OfRun, ResultRecords, RecordIds
  <2>. QED BY <2>1, <2>5 DEF RunQuiet
<1>. QED BY <1>3, <1>4, <1>5

LEMMA QueryQuiet ==
    ASSUME created' = created, NEW q, QueryOK(q)
    PROVE  QueryOK(q)'
<1>1. Ready' = Ready
  BY DEF Ready
<1>2. \A i : OfIndex(i)' = OfIndex(i)
  BY <1>1 DEF OfIndex
<1>3. \A r, t : Newer(r, t)' <=> Newer(r, t)
  BY DEF Newer
<1>4. \A i, r : Rank(i, r)' = Rank(i, r)
  BY <1>2, <1>3 DEF Rank
<1>. QED BY <1>2, <1>4 DEF QueryOK, Better, Matches

\* Deleting shifts a search under way, unless it deletes nothing.
LEMMA RemovalFacts ==
    ASSUME IndexInv, NEW gone, Removing(gone)
    PROVE  StampsOK' /\ Ready' = Ready \ gone /\ query' \in QueryRecord /\ QueryOK(query)'
<1>1. created \in [Ready -> Int] /\ Ready \subseteq RecordIds /\ query \in QueryRecord /\ QueryOK(query)
  BY DEF IndexInv, IndexTypes, StampsOK
<1>2. created' = [r \in Ready \ gone |-> created[r]]
  BY DEF Removing
<1>3. Ready' = Ready \ gone
  BY <1>2 DEF Ready
<1>4. StampsOK'
  BY <1>1, <1>2, <1>3 DEF StampsOK, RecordIds
<1>5. PICK q, p : q = query /\ p = query'
  OBVIOUS
<1>6. CASE q.at = "idle" \/ gone \cap Ready = {}
  <2>1. p = q
    BY <1>5, <1>6 DEF Removing
  <2>2. QueryOK(p)'
    <3>1. CASE q.at = "idle"
      BY <2>1, <3>1 DEF QueryOK
    <3>2. CASE gone \cap Ready = {}
      <4>1. created' = created
        BY <1>1, <1>2, <3>2
      <4>. QED BY <1>1, <1>5, <2>1, <4>1, QueryQuiet
    <3>. QED BY <1>6, <3>1, <3>2
  <2>. QED BY <1>1, <1>3, <1>4, <1>5, <2>1, <2>2 DEF QueryOK
<1>7. CASE ~(q.at = "idle" \/ gone \cap Ready = {})
  <2>1. p = [q EXCEPT !.steady = q.steady \ gone, !.shifted = TRUE]
    BY <1>5, <1>7 DEF Removing
  <2>2. p \in QueryRecord /\ p.shifted
    BY ZenonT(60), <1>1, <1>5, <2>1 DEF QueryRecord
  <2>. QED BY <1>3, <1>4, <1>5, <2>2 DEF QueryOK
<1>. QED BY <1>6, <1>7

LEMMA IndexStaysWith ==
    ASSUME IndexInv, IndexTypes', QueryOK(query)', \A run : RunSound(run) => RunSound(run)'
    PROVE  IndexInv'
BY DEF IndexInv

LEMMA OtherAttempts ==
    ASSUME IndexInv, NEW a \in DOMAIN Attempts, NEW st, indexing' = [indexing EXCEPT ![a] = st]
    PROVE  /\ indexing'[a] = st
           /\ \A b \in DOMAIN Attempts :
                 b # a => (Indexer(b)' <=> Indexer(b)) /\ Written(b)' = Written(b) /\ indexing'[b] = indexing[b]
<1>1. \A b \in DOMAIN Attempts : indexing'[b] = IF b = a THEN st ELSE indexing[b]
  BY DEF IndexInv, IndexTypes
<1>. QED BY <1>1 DEF Indexer, Written, ResultRecords

LEMMA SameAttempts ==
    ASSUME indexing' = indexing
    PROVE  \A b : (Indexer(b)' <=> Indexer(b)) /\ Written(b)' = Written(b)
BY DEF Indexer, Written, ResultRecords

LEMMA StaleStays ==
    ASSUME indexTime \in Nat, indexTime' \in Nat, indexTime <= indexTime', NEW r \in RecordIds, Stale(r)
    PROVE  Stale(r)'
<1>1. Records[r].expires_at \in Nat
  BY IndexAssumption
<1>. QED BY <1>1 DEF Stale

LEMMA ReindexingStarts ==
    ASSUME IndexInv, NEW a \in DOMAIN Attempts, delete_source_run(a)
    PROVE  IndexInv'
<1>1. PICK R : R = Attempts[a].run
  OBVIOUS
<1>2. PICK cond \in BOOLEAN : cond <=> \/ \E b \in DOMAIN Attempts \ {a} : Attempts[b].run = R /\ Indexer(b)
                                       \/ \E r \in ResultRecords(a) : AssetOf(r) # "kept"
  OBVIOUS
<1>3. /\ indexing[a] = "idle" /\ Removing(OfRun(R)) /\ indexing' = [indexing EXCEPT ![a] = "define"]
      /\ mixed' = IF cond THEN mixed \cup {R} ELSE mixed
      /\ UNCHANGED <<indexedAssets, indexTime>>
  BY <1>1, <1>2 DEF delete_source_run, AssetOf
<1>4. StampsOK' /\ Ready' = Ready \ OfRun(R) /\ query' \in QueryRecord /\ QueryOK(query)'
  BY <1>3, RemovalFacts
<1>5. IndexTypes'
  BY <1>3, <1>4 DEF IndexInv, IndexTypes, IndexSteps
<1>6. /\ indexing'[a] = "define"
      /\ \A b \in DOMAIN Attempts :
            b # a => (Indexer(b)' <=> Indexer(b)) /\ Written(b)' = Written(b) /\ indexing'[b] = indexing[b]
  BY <1>3, OtherAttempts
<1>7. \A r : (Stale(r)' <=> Stale(r)) /\ AssetOf(r)' = AssetOf(r)
  BY <1>3 DEF Stale, AssetOf
<1>8. ASSUME NEW run, run # R, RunSound(run) PROVE RunSound(run)'
  <2>1. \A b \in OfThisRun(run) : b \in DOMAIN Attempts /\ b # a
    BY <1>1, <1>8 DEF OfThisRun
  <2>2. \A r \in OfRun(run) : r \notin OfRun(R)
    BY <1>8 DEF OfRun
  <2>3. RunQuiet(run)
    BY <1>3, <1>4, <1>6, <1>7, <1>8, <2>1, <2>2 DEF RunQuiet
  <2>. QED BY <1>8, <2>3, QuietRun
<1>9. RunSound(R)'
  <2>1. SUFFICES ASSUME R \notin mixed' PROVE RunSound(R)'
    BY DEF RunSound
  <2>2. ~cond
    BY <1>3, <2>1
  <2>3. \A b \in OfThisRun(R) : b \in DOMAIN Attempts /\ (b # a => ~Indexer(b)')
    BY <1>2, <1>6, <2>2 DEF OfThisRun
  <2>4. Indexer(a)' /\ a \in OfThisRun(R) /\ Written(a)' = {}
    BY <1>1, <1>6 DEF Indexer, OfThisRun, Written
  <2>5. \A r \in ResultRecords(a) : AssetOf(r)' = "kept"
    BY <1>2, <1>7, <2>2
  <2>6. HoldsWritten(a, R)'
    BY <1>4, <2>4, <2>5 DEF HoldsWritten, OfRun, RecordIds, ResultRecords
  <2>. QED BY <2>3, <2>4, <2>6 DEF RunSound, OfThisRun
<1>10. \A run : RunSound(run) => RunSound(run)'
  BY <1>8, <1>9
<1>. QED BY <1>4, <1>5, <1>10, IndexStaysWith

LEMMA IndexDefined ==
    ASSUME IndexInv, NEW a \in DOMAIN Attempts, create_result_index(a)
    PROVE  IndexInv'
<1>1. PICK st \in {"write", "write_vectors"} : st = IF indexing[a] = "define" THEN "write" ELSE "write_vectors"
  OBVIOUS
<1>2. /\ indexing[a] \in {"define", "define_vectors"} /\ indexing' = [indexing EXCEPT ![a] = st]
      /\ UNCHANGED <<created, indexedAssets, query, indexTime, mixed>>
  BY <1>1 DEF create_result_index
<1>3. StampsOK' /\ Ready' = Ready
  BY <1>2 DEF IndexInv, IndexTypes, StampsOK, Ready, RecordIds
<1>4. IndexTypes'
  BY <1>2, <1>3 DEF IndexInv, IndexTypes, IndexSteps
<1>5. PICK q : q = query
  OBVIOUS
<1>6. QueryOK(q)'
  BY <1>2, <1>5, QueryQuiet DEF IndexInv
<1>7. QueryOK(query)'
  BY <1>2, <1>5, <1>6 DEF QueryOK
<1>8. /\ indexing'[a] = st
      /\ \A b \in DOMAIN Attempts :
            b # a => (Indexer(b)' <=> Indexer(b)) /\ Written(b)' = Written(b) /\ indexing'[b] = indexing[b]
  BY <1>2, OtherAttempts
<1>9. Indexer(a) /\ Indexer(a)' /\ Written(a)' = Written(a) /\ indexing'[a] # "done" /\ indexing[a] # "done"
  BY <1>1, <1>2, <1>8 DEF Indexer, Written, ResultRecords
<1>10. \A r : (Stale(r)' <=> Stale(r)) /\ AssetOf(r)' = AssetOf(r)
  BY <1>2 DEF Stale, AssetOf
<1>11. ASSUME NEW run, RunSound(run) PROVE RunSound(run)'
  <2>1. \A b \in OfThisRun(run) : b \in DOMAIN Attempts
    BY DEF OfThisRun
  <2>2. RunQuiet(run)
    BY <1>2, <1>3, <1>8, <1>9, <1>10, <2>1 DEF RunQuiet
  <2>. QED BY <1>11, <2>2, QuietRun
<1>. QED BY <1>4, <1>7, <1>11, IndexStaysWith

LEMMA AttemptStops ==
    ASSUME IndexInv, NEW a \in DOMAIN Attempts, IndexingStops(a)
    PROVE  IndexInv'
<1>1. PICK R : R = Attempts[a].run
  OBVIOUS
<1>2. /\ indexing' = [indexing EXCEPT ![a] = "done"] /\ mixed' = mixed \cup {R}
      /\ UNCHANGED <<created, indexedAssets, query, indexTime>>
  BY <1>1 DEF IndexingStops
<1>3. StampsOK' /\ Ready' = Ready
  BY <1>2 DEF IndexInv, IndexTypes, StampsOK, Ready, RecordIds
<1>4. IndexTypes'
  BY <1>2, <1>3 DEF IndexInv, IndexTypes, IndexSteps
<1>5. PICK q : q = query
  OBVIOUS
<1>6. QueryOK(q)'
  BY <1>2, <1>5, QueryQuiet DEF IndexInv
<1>7. QueryOK(query)'
  BY <1>2, <1>5, <1>6 DEF QueryOK
<1>8. \A b \in DOMAIN Attempts :
            b # a => (Indexer(b)' <=> Indexer(b)) /\ Written(b)' = Written(b) /\ indexing'[b] = indexing[b]
  BY <1>2, OtherAttempts
<1>9. \A r : (Stale(r)' <=> Stale(r)) /\ AssetOf(r)' = AssetOf(r)
  BY <1>2 DEF Stale, AssetOf
<1>10. ASSUME NEW run, RunSound(run) PROVE RunSound(run)'
  <2>1. CASE run = R
    BY <1>2, <2>1 DEF RunSound
  <2>2. CASE run # R
    <3>1. \A b \in OfThisRun(run) : b \in DOMAIN Attempts /\ b # a
      BY <1>1, <2>2 DEF OfThisRun
    <3>2. RunQuiet(run)
      BY <1>2, <1>3, <1>8, <1>9, <3>1 DEF RunQuiet
    <3>. QED BY <1>10, <3>2, QuietRun
  <2>. QED BY <2>1, <2>2
<1>. QED BY <1>4, <1>7, <1>10, IndexStaysWith

LEMMA AssetGoes ==
    ASSUME IndexInv, NEW x \in IndexedAssets, StateDeletesAsset(x)
    PROVE  IndexInv'
<1>1. PICK U : U = {Attempts[a].run : a \in {b \in DOMAIN Attempts : Indexer(b) /\ Uses(b, x)}}
  OBVIOUS
<1>2. /\ indexedAssets[x] = "kept" /\ indexedAssets' = [indexedAssets EXCEPT ![x] = "deleting"] /\ mixed' = mixed \cup U
      /\ UNCHANGED <<created, indexing, query, indexTime>>
  BY <1>1 DEF StateDeletesAsset
<1>3. StampsOK' /\ Ready' = Ready
  BY <1>2 DEF IndexInv, IndexTypes, StampsOK, Ready, RecordIds
<1>4. IndexTypes'
  BY <1>2, <1>3 DEF IndexInv, IndexTypes
<1>5. PICK q : q = query
  OBVIOUS
<1>6. QueryOK(q)'
  BY <1>2, <1>5, QueryQuiet DEF IndexInv
<1>7. QueryOK(query)'
  BY <1>2, <1>5, <1>6 DEF QueryOK
<1>8. \A b : (Indexer(b)' <=> Indexer(b)) /\ Written(b)' = Written(b)
  BY <1>2, SameAttempts
<1>9. \A r \in RecordIds : /\ Stale(r)' <=> Stale(r)
                           /\ Records[r].asset # x => AssetOf(r)' = AssetOf(r)
                           /\ Records[r].asset = x => AssetOf(r) = "kept"
  BY <1>2 DEF Stale, AssetOf, IndexInv, IndexTypes, IndexedAssets
<1>10. ASSUME NEW run, RunSound(run) PROVE RunSound(run)'
  <2>1. OfRun(run) \subseteq RecordIds
    BY DEF OfRun
  <2>2. ASSUME run \notin mixed', NEW a \in OfThisRun(run), Indexer(a), NEW r \in ResultRecords(a) PROVE AssetOf(r)' = AssetOf(r)
    <3>1. a \in DOMAIN Attempts /\ Attempts[a].run = run /\ r \in RecordIds
      BY <2>1, ResultsOfRun DEF OfThisRun
    <3>2. ~Uses(a, x)
      BY <1>1, <1>2, <2>2, <3>1
    <3>. QED BY <1>9, <2>2, <3>1, <3>2 DEF Uses
  <2>3. \A r \in OfRun(run) : AssetOf(r) = "deleted" => AssetOf(r)' = "deleted"
    BY <1>9, <2>1
  <2>4. RunQuiet(run)
    BY <1>2, <1>3, <1>8, <1>9, <2>1, <2>2, <2>3 DEF RunQuiet
  <2>. QED BY <1>10, <2>4, QuietRun
<1>. QED BY <1>4, <1>7, <1>10, IndexStaysWith

LEMMA AssetRecordsGo ==
    ASSUME IndexInv, NEW x \in IndexedAssets, delete_asset_records(x)
    PROVE  IndexInv'
<1>1. PICK gone : gone = {r \in RecordIds : Records[r].asset = x}
  OBVIOUS
<1>2. /\ indexedAssets[x] = "deleting" /\ indexedAssets' = [indexedAssets EXCEPT ![x] = "deleted"] /\ Removing(gone)
      /\ UNCHANGED <<indexing, indexTime, mixed>>
  BY <1>1 DEF delete_asset_records
<1>3. StampsOK' /\ Ready' = Ready \ gone /\ query' \in QueryRecord /\ QueryOK(query)'
  BY <1>2, RemovalFacts
<1>4. IndexTypes'
  BY <1>2, <1>3 DEF IndexInv, IndexTypes
<1>5. \A b : (Indexer(b)' <=> Indexer(b)) /\ Written(b)' = Written(b)
  BY <1>2, SameAttempts
<1>6. \A r \in RecordIds : /\ Stale(r)' <=> Stale(r)
                           /\ r \notin gone => AssetOf(r)' = AssetOf(r)
                           /\ r \in gone => AssetOf(r) = "deleting" /\ AssetOf(r)' = "deleted"
  BY <1>1, <1>2 DEF Stale, AssetOf, IndexInv, IndexTypes, IndexedAssets
<1>7. ASSUME NEW run, RunSound(run) PROVE RunSound(run)'
  <2>1. OfRun(run) \subseteq RecordIds
    BY DEF OfRun
  <2>2. \A a \in OfThisRun(run) : ResultRecords(a) \subseteq RecordIds
    BY <2>1, ResultsOfRun
  <2>3. \A r \in RecordIds : AssetOf(r) = "kept" => AssetOf(r)' = "kept"
    BY <1>6
  <2>4. \A r \in OfRun(run) : /\ r \in Ready' => r \in Ready
                              /\ r \in Ready => r \in Ready' \/ (AssetOf(r) # "kept" /\ AssetOf(r)' = "deleted")
                              /\ Stale(r) => Stale(r)'
                              /\ AssetOf(r) = "deleted" => AssetOf(r)' = "deleted"
    BY <1>3, <1>6, <2>1
  <2>5. RunQuiet(run)
    BY <1>2, <1>5, <2>2, <2>3, <2>4 DEF RunQuiet
  <2>. QED BY <1>7, <2>5, QuietRun
<1>. QED BY <1>3, <1>4, <1>7, IndexStaysWith

LEMMA ExpiredGo ==
    ASSUME IndexInv, delete_expired_records
    PROVE  IndexInv'
<1>1. PICK gone : gone = {r \in RecordIds : Stale(r)}
  OBVIOUS
<1>2. Removing(gone) /\ UNCHANGED <<indexing, indexedAssets, indexTime, mixed>>
  BY <1>1 DEF delete_expired_records
<1>3. StampsOK' /\ Ready' = Ready \ gone /\ query' \in QueryRecord /\ QueryOK(query)'
  BY <1>2, RemovalFacts
<1>4. IndexTypes'
  BY <1>2, <1>3 DEF IndexInv, IndexTypes
<1>5. \A b : (Indexer(b)' <=> Indexer(b)) /\ Written(b)' = Written(b)
  BY <1>2, SameAttempts
<1>6. \A r : (Stale(r)' <=> Stale(r)) /\ AssetOf(r)' = AssetOf(r)
  BY <1>2 DEF Stale, AssetOf
<1>7. ASSUME NEW run, RunSound(run) PROVE RunSound(run)'
  <2>1. \A r \in OfRun(run) : r \in Ready => r \in Ready' \/ Stale(r)'
    BY <1>1, <1>3, <1>6 DEF OfRun
  <2>2. RunQuiet(run)
    BY <1>2, <1>3, <1>5, <1>6, <2>1 DEF RunQuiet
  <2>. QED BY <1>7, <2>2, QuietRun
<1>. QED BY <1>3, <1>4, <1>7, IndexStaysWith

\* Steps of the clock and of a search leave the Runs alone.
LEMMA RunsUntouched ==
    ASSUME IndexInv, UNCHANGED <<created, indexing, indexedAssets, mixed>>,
           indexTime' \in Nat, indexTime <= indexTime', query' \in QueryRecord, QueryOK(query)'
    PROVE  IndexInv'
<1>1. StampsOK' /\ Ready' = Ready /\ indexTime \in Nat
  BY DEF IndexInv, IndexTypes, StampsOK, Ready, RecordIds
<1>2. IndexTypes'
  BY <1>1 DEF IndexInv, IndexTypes
<1>3. \A b : (Indexer(b)' <=> Indexer(b)) /\ Written(b)' = Written(b)
  BY SameAttempts
<1>4. \A r : AssetOf(r)' = AssetOf(r)
  BY DEF AssetOf
<1>5. ASSUME NEW run, RunSound(run) PROVE RunSound(run)'
  <2>1. \A r \in OfRun(run) : Stale(r) => Stale(r)'
    BY <1>1, StaleStays DEF OfRun
  <2>2. RunQuiet(run)
    BY <1>1, <1>3, <1>4, <2>1 DEF RunQuiet
  <2>. QED BY <1>5, <2>2, QuietRun
<1>. QED BY <1>2, <1>5, IndexStaysWith

LEMMA PartFacts ==
    ASSUME NEW a \in DOMAIN Attempts, NEW r \in ResultRecords(a)
    PROVE  /\ indexing[a] = "write" => (r \in Part(a) <=> ~Records[r].vector)
           /\ indexing[a] = "write_vectors" => (r \in Part(a) <=> Records[r].vector)
<1>1. r \in RecordIds
  BY IndexAssumption DEF OfRun
<1>2. PICK v \in BOOLEAN : v = Records[r].vector
  BY <1>1, IndexAssumption
<1>3. r \in Part(a) <=> v = (indexing[a] \in {"define_vectors", "write_vectors"})
  BY <1>2 DEF Part
<1>4. indexing[a] = "write" => (r \in Part(a) <=> ~v)
  BY <1>3
<1>5. indexing[a] = "write_vectors" => (r \in Part(a) <=> v)
  BY <1>3
<1>. QED BY <1>2, <1>4, <1>5

\* Writing adds records above or below a steady one and moves none from above it
\* to below, unless one is moved back.
LEMMA WritingKeepsRanks ==
    ASSUME StampsOK, StampsOK', NEW P, NEW at, \A r \in P : at[r] \in Int,
           created' = [r \in Ready \cup P |-> IF r \in P THEN at[r] ELSE created[r]],
           \A r \in P \cap Ready : ~(at[r] < created[r]),
           NEW i, NEW r \in OfIndex(i), r \notin P
    PROVE  r \in OfIndex(i)' /\ Rank(i, r)' >= Rank(i, r)
<1>1. Ready' = Ready \cup P
  BY DEF Ready
<1>2. r \in Ready /\ r \in OfIndex(i)' /\ created'[r] = created[r]
  BY <1>1 DEF OfIndex
<1>3. ASSUME NEW s \in Before(i, r) PROVE s \in Before(i, r)'
  <2>1. s \in OfIndex(i) /\ s \in Ready /\ Newer(s, r) /\ s \in RecordIds /\ r \in RecordIds
    BY <1>2, <1>3 DEF Before, OfIndex, StampsOK
  <2>2. s \in OfIndex(i)'
    BY <1>1, <2>1 DEF OfIndex
  <2>3. PICK x \in Int, y \in Int, z \in Int, j \in Int, k \in Int :
           x = created[s] /\ y = created'[s] /\ z = created[r] /\ j = Records[s].place /\ k = Records[r].place
    BY <1>1, <1>2, <2>1, IndexAssumption DEF StampsOK
  <2>4. y >= x
    <3>1. CASE s \in P
      <4>1. y = at[s] /\ ~(at[s] < x)
        BY <2>1, <2>3, <3>1
      <4>. QED BY <4>1
    <3>2. CASE s \notin P
      <4>1. y = x
        BY <2>1, <2>3, <3>2
      <4>. QED BY <4>1
    <3>. QED BY <3>1, <3>2
  <2>5. x > z \/ (x = z /\ j > k)
    BY <2>1, <2>3 DEF Newer
  <2>6. y > z \/ (y = z /\ j > k)
    BY <2>4, <2>5
  <2>7. Newer(s, r)'
    BY <1>2, <2>3, <2>6 DEF Newer
  <2>. QED BY <2>2, <2>7 DEF Before
<1>4. Before(i, r)' \subseteq RecordIds
  BY DEF Before, OfIndex, StampsOK, RecordIds
<1>5. IsFiniteSet(Before(i, r)')
  BY <1>4, IndexAssumption, SmallerSet
<1>6. Before(i, r) \subseteq Before(i, r)'
  BY <1>3
<1>7. Cardinality(Before(i, r)) <= Cardinality(Before(i, r)') /\ Cardinality(Before(i, r)) \in Nat /\ Cardinality(Before(i, r)') \in Nat
  BY <1>5, <1>6, SmallerSet
<1>8. Rank(i, r) = Cardinality(Before(i, r)) /\ Rank(i, r)' = Cardinality(Before(i, r)')
  BY DEF Rank, Before
<1>. QED BY <1>2, <1>7, <1>8

LEMMA ResultWritten ==
    ASSUME IndexInv, NEW a \in DOMAIN Attempts, NEW at \in [Part(a) -> CreatedAt], _index_result(a, at)
    PROVE  IndexInv'
<1>1. PICK P, R : P = Part(a) /\ R = Attempts[a].run
  OBVIOUS
<1>2. PICK st \in {"define_vectors", "done"} : st = IF indexing[a] = "write" THEN "define_vectors" ELSE "done"
  OBVIOUS
<1>3. PICK q, p : q = query /\ p = query'
  OBVIOUS
<1>4. PICK back \in BOOLEAN : back = (q.shifted \/ (q.at # "idle" /\ \E r \in P \cap Ready : at[r] < created[r]))
  OBVIOUS
<1>5. /\ indexing[a] \in {"write", "write_vectors"} /\ indexing' = [indexing EXCEPT ![a] = st]
      /\ created' = [r \in Ready \cup P |-> IF r \in P THEN at[r] ELSE created[r]]
      /\ UNCHANGED <<indexedAssets, indexTime, mixed>>
  BY <1>1, <1>2 DEF _index_result, upsert_many
<1>6. p = [q EXCEPT !.steady = q.steady \ P, !.shifted = back]
  BY <1>1, <1>3, <1>4 DEF _index_result
<1>7. q \in QueryRecord /\ QueryOK(q) /\ StampsOK
  BY <1>3 DEF IndexInv, IndexTypes
<1>8. /\ p \in QueryRecord /\ p.steady = q.steady \ P /\ p.shifted = back /\ p.at = q.at /\ p.index = q.index
      /\ p.media = q.media /\ p.rows = q.rows /\ p.offset = q.offset /\ p.hits = q.hits
  BY <1>6, <1>7 DEF QueryRecord
<1>9. P \subseteq ResultRecords(a) /\ ResultRecords(a) \subseteq OfRun(R) /\ OfRun(R) \subseteq RecordIds /\ a \in OfThisRun(R)
  BY <1>1, ResultsOfRun DEF Part, OfThisRun
<1>10. \A r \in P : at[r] \in Int
  BY <1>1, IndexAssumption
<1>11. Ready' = Ready \cup P
  BY <1>5 DEF Ready
<1>12. StampsOK'
  <2>1. created' \in [Ready \cup P -> Int]
    BY <1>5, <1>7, <1>10 DEF StampsOK
  <2>. QED BY <1>7, <1>9, <1>11, <2>1 DEF StampsOK, RecordIds
<1>13. IndexTypes'
  BY <1>3, <1>5, <1>8, <1>12 DEF IndexInv, IndexTypes, IndexSteps
<1>14. QueryOK(p)'
  <2>1. SUFFICES ASSUME ~p.shifted
                 PROVE /\ p.at = "pages" => /\ p.steady \subseteq OfIndex(p.index)'
                                            /\ \A r \in p.steady : r \in p.rows \/ Rank(p.index, r)' >= p.offset
                       /\ p.at = "enrich" => p.steady \subseteq p.rows
                       /\ p.at = "answered" =>
                             \A r \in p.steady : Matches(r) /\ Wanted(r, p.media) /\ r \notin p.hits => Missed(p, r)
    BY DEF QueryOK, Matches, Better, Ahead, Wanted, Missed
  <2>2. ~q.shifted /\ ~(q.at # "idle" /\ \E r \in P \cap Ready : at[r] < created[r])
    BY <1>4, <1>8, <2>1
  <2>3. ASSUME p.at = "pages", NEW r \in p.steady
        PROVE  r \in OfIndex(p.index)' /\ (r \in p.rows \/ Rank(p.index, r)' >= p.offset)
    <3>1. r \in OfIndex(q.index) /\ r \notin P /\ (r \in q.rows \/ Rank(q.index, r) >= q.offset)
      BY <1>7, <1>8, <2>2, <2>3 DEF QueryOK
    <3>2. \A u \in P \cap Ready : ~(at[u] < created[u])
      BY <1>8, <2>2, <2>3
    <3>3. r \in OfIndex(q.index)' /\ Rank(q.index, r)' >= Rank(q.index, r)
      BY <1>5, <1>7, <1>10, <1>12, <3>1, <3>2, WritingKeepsRanks
    <3>4. Rank(q.index, r) \in Nat /\ Rank(q.index, r)' \in Nat /\ q.offset \in Nat
      <4>1. Rank(q.index, r) \in Nat
        BY <1>7, <3>1, RankFacts
      <4>2. Rank(q.index, r)' \in Nat
        <5>1. Before(q.index, r)' \subseteq RecordIds
          BY <1>12 DEF Before, OfIndex, StampsOK, RecordIds
        <5>2. Cardinality(Before(q.index, r)') \in Nat
          BY <5>1, IndexAssumption, SmallerSet
        <5>. QED BY <5>2 DEF Rank, Before
      <4>. QED BY <1>7, <4>1, <4>2 DEF QueryRecord
    <3>5. r \in q.rows \/ Rank(q.index, r)' >= q.offset
      BY <3>1, <3>3, <3>4
    <3>. QED BY <1>8, <3>3, <3>5
  <2>4. p.at = "enrich" => p.steady \subseteq p.rows
    BY <1>7, <1>8, <2>2 DEF QueryOK
  <2>5. p.at = "answered" =>
           \A r \in p.steady : Matches(r) /\ Wanted(r, p.media) /\ r \notin p.hits => Missed(p, r)
    BY <1>7, <1>8, <2>2 DEF QueryOK, Missed
  <2>. QED BY <2>3, <2>4, <2>5
<1>15. QueryOK(query)'
  BY <1>3, <1>14 DEF QueryOK
<1>16. /\ indexing'[a] = st
       /\ \A b \in DOMAIN Attempts :
             b # a => (Indexer(b)' <=> Indexer(b)) /\ Written(b)' = Written(b) /\ indexing'[b] = indexing[b]
  BY <1>5, OtherAttempts
<1>17. \A r : (Stale(r)' <=> Stale(r)) /\ AssetOf(r)' = AssetOf(r)
  BY <1>5 DEF Stale, AssetOf
<1>18. ASSUME NEW run, run # R, RunSound(run) PROVE RunSound(run)'
  <2>1. \A b \in OfThisRun(run) : b \in DOMAIN Attempts /\ b # a
    BY <1>1, <1>18 DEF OfThisRun
  <2>2. \A r \in OfRun(run) : r \notin P
    BY <1>9, <1>18 DEF OfRun
  <2>3. RunQuiet(run)
    BY <1>5, <1>11, <1>16, <1>17, <2>1, <2>2 DEF RunQuiet
  <2>. QED BY <1>18, <2>3, QuietRun
<1>19. ASSUME RunSound(R), R \notin mixed PROVE RunSound(R)'
  <2>1. Indexer(a)
    BY <1>5 DEF Indexer
  <2>2. \A b \in OfThisRun(R) : b \in DOMAIN Attempts /\ (b # a => ~Indexer(b)')
    <3>1. \A b \in OfThisRun(R) : b \in DOMAIN Attempts /\ (b # a => ~Indexer(b))
      BY <1>9, <1>19, <2>1 DEF RunSound, OfThisRun
    <3>. QED BY <1>16, <3>1
  <2>3. HoldsWritten(a, R)
    BY <1>9, <1>19, <2>1 DEF RunSound
  <2>4. CASE indexing[a] = "write"
    <3>1. st = "define_vectors" /\ Indexer(a)' /\ Written(a) = {}
      BY <1>2, <1>16, <2>4 DEF Indexer, Written
    <3>2. Written(a)' = P
      <4>1. \A r \in ResultRecords(a) : r \in P <=> ~Records[r].vector
        BY <1>1, <2>4, PartFacts
      <4>2. Written(a)' = {r \in ResultRecords(a) : ~Records[r].vector}
        BY <1>16, <3>1 DEF Written, ResultRecords
      <4>. QED BY <1>9, <4>1, <4>2
    <3>3. \A r \in ResultRecords(a) : AssetOf(r)' = "kept"
      BY <1>17, <2>3 DEF HoldsWritten
    <3>4. Ready' \cap OfRun(R) \subseteq P
      BY <1>11, <2>3, <3>1 DEF HoldsWritten
    <3>5. HoldsWritten(a, R)'
      BY <1>11, <3>2, <3>3, <3>4 DEF HoldsWritten, OfRun, RecordIds, ResultRecords
    <3>. QED BY <1>9, <2>2, <3>1, <3>5 DEF RunSound, OfThisRun
  <2>5. CASE indexing[a] = "write_vectors"
    <3>1. st = "done" /\ ~Indexer(a)' /\ indexing'[a] = "done"
      BY <1>2, <1>16, <2>5 DEF Indexer
    <3>2. Ready' \cap OfRun(R) \subseteq ResultRecords(a)
      BY <1>9, <1>11, <2>3 DEF HoldsWritten, Written
    <3>3. ASSUME NEW r \in ResultRecords(a) PROVE r \in Ready' \/ Stale(r)'
      <4>1. CASE Records[r].vector
        BY <1>1, <1>11, <2>5, <3>3, <4>1, PartFacts
      <4>2. CASE ~Records[r].vector
        <5>1. r \in Written(a)
          BY <2>5, <4>2 DEF Written
        <5>. QED BY <1>11, <1>17, <2>3, <5>1 DEF HoldsWritten
      <4>. QED BY <4>1, <4>2
    <3>4. HoldsResult(a, R)'
      BY <3>2, <3>3 DEF HoldsResult, OfRun, RecordIds, ResultRecords
    <3>5. \A b \in OfThisRun(R) : ~Indexer(b)'
      BY <2>2, <3>1
    <3>. QED BY <1>9, <3>1, <3>4, <3>5 DEF RunSound, OfThisRun
  <2>. QED BY <1>5, <2>4, <2>5
<1>20. \A run : RunSound(run) => RunSound(run)'
  <2>1. R \in mixed => RunSound(R)'
    BY <1>5 DEF RunSound
  <2>. QED BY <1>18, <1>19, <2>1
<1>. QED BY <1>13, <1>15, <1>20, IndexStaysWith

-----------------------------------------------------------------------------
LEMMA SearchStarts ==
    ASSUME IndexInv, NEW i \in IndexIds, NEW m \in {"any", "video"}, StartSearch(i, m)
    PROVE  IndexInv'
<1>1. PICK S : S = OfIndex(i)
  OBVIOUS
<1>2. PICK p : p = [NoQuery EXCEPT !.at = "pages", !.index = i, !.media = m, !.steady = S]
  OBVIOUS
<1>3. query' = p /\ UNCHANGED <<created, indexing, indexedAssets, indexTime, mixed>>
  BY <1>1, <1>2 DEF StartSearch
<1>4. S \subseteq RecordIds /\ StampsOK /\ indexTime \in Nat
  BY <1>1 DEF IndexInv, IndexTypes, StampsOK, OfIndex
<1>5. p = [at |-> "pages", index |-> i, media |-> m, rows |-> {}, offset |-> 0,
           steady |-> S, shifted |-> FALSE, hits |-> {}]
  BY <1>2 DEF NoQuery
<1>6. p \in QueryRecord /\ p.at = "pages" /\ p.steady = S /\ p.index = i /\ p.offset = 0
  BY <1>4, <1>5 DEF QueryRecord
<1>7. \A r \in S : Rank(i, r) >= 0
  <2>1. \A r \in S : Rank(i, r) \in Nat
    BY <1>1, <1>4, RankFacts
  <2>. QED BY <2>1
<1>8. QueryOK(p)
  BY <1>1, <1>6, <1>7 DEF QueryOK
<1>9. QueryOK(p)'
  BY <1>3, <1>8, QueryQuiet
<1>10. QueryOK(query)'
  BY <1>3, <1>9 DEF QueryOK
<1>. QED BY <1>3, <1>4, <1>6, <1>10, RunsUntouched

LEMMA PageRead ==
    ASSUME IndexInv, query_pages
    PROVE  IndexInv'
<1>1. PICK q, p : q = query /\ p = query'
  OBVIOUS
<1>2. PICK i, k : i = q.index /\ k = q.offset
  OBVIOUS
<1>3. PICK page : page = list_records(i, k)
  OBVIOUS
<1>4. q \in QueryRecord /\ QueryOK(q) /\ StampsOK /\ indexTime \in Nat
  BY <1>1 DEF IndexInv, IndexTypes
<1>5. q.at = "pages" /\ UNCHANGED <<created, indexing, indexedAssets, indexTime, mixed>>
  BY <1>1 DEF query_pages
<1>6. k \in Nat /\ PageSize \in Nat
  BY <1>2, <1>4, IndexAssumption DEF QueryRecord
<1>7. /\ page \subseteq OfIndex(i) /\ Cardinality(page) \in Nat /\ Cardinality(page) <= PageSize
      /\ Cardinality(page) < PageSize => \A r \in OfIndex(i) : Rank(i, r) < k + PageSize
  BY <1>3, <1>4, <1>6, PageFacts
<1>8. OfIndex(i) \subseteq RecordIds /\ \A r \in OfIndex(i) : Rank(i, r) \in Nat
  <2>1. OfIndex(i) \subseteq RecordIds
    BY <1>4 DEF OfIndex, StampsOK
  <2>. QED BY <1>4, <2>1, RankFacts
<1>9. PICK rows : rows = q.rows \cup page
  OBVIOUS
<1>10. rows \subseteq RecordIds
  BY <1>4, <1>7, <1>8, <1>9 DEF QueryRecord
<1>11. \A r \in OfIndex(i) : k <= Rank(i, r) /\ Rank(i, r) < k + PageSize => r \in page
  BY <1>3 DEF list_records
<1>12. ~q.shifted => q.steady \subseteq OfIndex(i) /\ \A r \in q.steady : r \in q.rows \/ Rank(i, r) >= k
  BY <1>2, <1>4, <1>5 DEF QueryOK
<1>13. \/ p = [q EXCEPT !.at = "enrich", !.rows = OfIndex(i)]
       \/ Cardinality(page) < PageSize /\ p = [q EXCEPT !.at = "enrich", !.rows = rows]
       \/ p = [q EXCEPT !.rows = rows, !.offset = k + Cardinality(page)]
  BY <1>1, <1>2, <1>3, <1>9 DEF query_pages
<1>14. p \in QueryRecord /\ QueryOK(p)
  <2>1. CASE p = [q EXCEPT !.at = "enrich", !.rows = OfIndex(i)]
    <3>1. p \in QueryRecord /\ p.at = "enrich" /\ p.rows = OfIndex(i) /\ p.steady = q.steady /\ p.shifted = q.shifted
      BY <1>4, <1>8, <2>1 DEF QueryRecord
    <3>. QED BY <1>12, <3>1 DEF QueryOK
  <2>2. CASE Cardinality(page) < PageSize /\ p = [q EXCEPT !.at = "enrich", !.rows = rows]
    <3>1. p \in QueryRecord /\ p.at = "enrich" /\ p.rows = rows /\ p.steady = q.steady /\ p.shifted = q.shifted
      BY <1>4, <1>10, <2>2 DEF QueryRecord
    <3>2. ASSUME ~q.shifted, NEW r \in q.steady PROVE r \in rows
      <4>1. r \in OfIndex(i) /\ (r \in q.rows \/ Rank(i, r) >= k) /\ Rank(i, r) < k + PageSize
        BY <1>7, <1>12, <2>2, <3>2
      <4>2. Rank(i, r) >= k => k <= Rank(i, r)
        BY <1>6, <1>8, <4>1
      <4>. QED BY <1>9, <1>11, <4>1, <4>2
    <3>. QED BY <3>1, <3>2 DEF QueryOK
  <2>3. CASE p = [q EXCEPT !.rows = rows, !.offset = k + Cardinality(page)]
    <3>1. PICK n \in Nat : n = k + Cardinality(page)
      BY <1>6, <1>7
    <3>2. /\ p \in QueryRecord /\ p.at = "pages" /\ p.rows = rows /\ p.offset = n /\ p.index = i
          /\ p.steady = q.steady /\ p.shifted = q.shifted
      BY <1>2, <1>4, <1>5, <1>10, <2>3, <3>1 DEF QueryRecord
    <3>3. ASSUME ~q.shifted, NEW r \in q.steady PROVE r \in OfIndex(i) /\ (r \in rows \/ Rank(i, r) >= n)
      <4>1. r \in OfIndex(i) /\ (r \in q.rows \/ Rank(i, r) >= k) /\ Rank(i, r) \in Nat
        BY <1>8, <1>12, <3>3
      <4>2. CASE r \in rows
        BY <4>1, <4>2
      <4>3. CASE r \notin rows
        <5>1. r \notin q.rows /\ r \notin page
          BY <1>9, <4>3
        <5>2. ~(Rank(i, r) < k + PageSize)
          BY <1>6, <1>11, <4>1, <5>1
        <5>3. Rank(i, r) >= n
          BY <1>6, <1>7, <3>1, <4>1, <5>2
        <5>. QED BY <4>1, <5>3
      <4>. QED BY <4>2, <4>3
    <3>. QED BY <3>2, <3>3 DEF QueryOK
  <2>. QED BY <1>13, <2>1, <2>2, <2>3
<1>15. QueryOK(p)'
  BY <1>5, <1>14, QueryQuiet
<1>16. QueryOK(query)'
  BY <1>1, <1>15 DEF QueryOK
<1>. QED BY <1>1, <1>4, <1>5, <1>14, <1>16, RunsUntouched

LEMMA SearchAnswered ==
    ASSUME IndexInv, AnswerSearch
    PROVE  IndexInv'
<1>1. PICK q, p : q = query /\ p = query'
  OBVIOUS
<1>2. PICK found, first, ids :
         /\ found = {x \in q.rows : Matches(x)} /\ first = Best(found, FetchLimit)
         /\ ids = {r \in first : q.media \in {"any", _enrich(r)}}
  OBVIOUS
<1>3. PICK hits : hits = Best(ids, HitLimit)
  OBVIOUS
<1>4. q \in QueryRecord /\ QueryOK(q) /\ indexTime \in Nat
  BY <1>1 DEF IndexInv, IndexTypes
<1>5. /\ q.at = "enrich" /\ p = [q EXCEPT !.at = "answered", !.hits = hits]
      /\ UNCHANGED <<created, indexing, indexedAssets, indexTime, mixed>>
  BY <1>1, <1>2, <1>3 DEF AnswerSearch
<1>6. /\ found \subseteq RecordIds /\ first \subseteq RecordIds
      /\ ids \subseteq RecordIds /\ hits \subseteq RecordIds
  BY <1>2, <1>3, <1>4 DEF QueryRecord, Best
<1>7. /\ p \in QueryRecord /\ p.at = "answered" /\ p.hits = hits /\ p.steady = q.steady
      /\ p.shifted = q.shifted /\ p.media = q.media /\ p.rows = q.rows
  BY <1>4, <1>5, <1>6 DEF QueryRecord
<1>8. ASSUME ~q.shifted, NEW r \in q.steady, Matches(r), Wanted(r, q.media), r \notin hits
      PROVE  Missed(p, r)
  <2>0. HitLimit \in Nat /\ FetchLimit \in Nat /\ HitLimit <= FetchLimit
    BY IndexAssumption
  <2>1. r \in found /\ r \in RecordIds
    BY <1>2, <1>4, <1>5, <1>6, <1>8 DEF QueryOK
  <2>2. \A S : S \subseteq RecordIds => Cardinality(Better(S, r)) \in Nat
    <3>1. ASSUME NEW S, S \subseteq RecordIds PROVE Cardinality(Better(S, r)) \in Nat
      <4>1. Better(S, r) \subseteq RecordIds
        BY <3>1 DEF Better
      <4>. QED BY <4>1, IndexAssumption, SmallerSet
    <3>. QED BY <3>1
  <2>3. CASE r \in first
    <3>1. r \in ids
      BY <1>2, <1>8, <2>3 DEF Wanted, _enrich
    <3>2. ~(Cardinality(Better(ids, r)) < HitLimit)
      BY <1>3, <1>8, <3>1 DEF Best, Better
    <3>3. Cardinality(Better(ids, r)) >= HitLimit
      BY <1>6, <2>0, <2>2, <3>2
    <3>4. Cardinality(Better(hits, r)) >= HitLimit
      BY <1>3, <1>6, <2>0, <2>1, <3>3, BestFacts
    <3>. QED BY <1>7, <3>4 DEF Missed
  <2>4. CASE r \notin first
    <3>1. ~(Cardinality(Better(found, r)) < FetchLimit)
      BY <1>2, <2>1, <2>4 DEF Best, Better
    <3>2. Cardinality(Better(found, r)) >= FetchLimit
      BY <1>6, <2>0, <2>2, <3>1
    <3>3. CASE q.media # "any"
      BY <1>2, <1>7, <3>2, <3>3 DEF Missed
    <3>4. CASE q.media = "any"
      <4>1. ids = first
        BY <1>2, <3>4
      <4>2. Cardinality(Better(first, r)) >= FetchLimit
        BY <1>2, <1>6, <2>0, <2>1, <3>2, BestFacts
      <4>3. Cardinality(Better(ids, r)) >= HitLimit
        BY <1>6, <2>0, <2>2, <4>1, <4>2
      <4>4. Cardinality(Better(hits, r)) >= HitLimit
        BY <1>3, <1>6, <2>0, <2>1, <4>3, BestFacts
      <4>. QED BY <1>7, <4>4 DEF Missed
    <3>. QED BY <3>3, <3>4
  <2>. QED BY <2>3, <2>4
<1>9. QueryOK(p)
  BY <1>7, <1>8 DEF QueryOK
<1>10. QueryOK(p)'
  BY <1>5, <1>9, QueryQuiet
<1>11. QueryOK(query)'
  BY <1>1, <1>10 DEF QueryOK
<1>. QED BY <1>1, <1>4, <1>5, <1>7, <1>11, RunsUntouched

-----------------------------------------------------------------------------
LEMMA IndexInitially == IndexInit => IndexInv
<1>. SUFFICES ASSUME IndexInit PROVE IndexInv
  OBVIOUS
<1>1. Ready = {} /\ StampsOK
  BY DEF IndexInit, Ready, StampsOK
<1>2. query = NoQuery /\ NoQuery \in QueryRecord /\ NoQuery.at = "idle"
  BY DEF IndexInit, NoQuery, QueryRecord
<1>3. IndexTypes
  BY <1>1, <1>2 DEF IndexInit, IndexTypes, IndexSteps
<1>4. QueryOK(query)
  BY <1>2 DEF QueryOK
<1>5. \A a \in DOMAIN Attempts : ~Indexer(a) /\ indexing[a] # "done"
  BY DEF IndexInit, Indexer
<1>6. \A run : RunSound(run)
  BY <1>5 DEF RunSound, OfThisRun
<1>. QED BY <1>3, <1>4, <1>6 DEF IndexInv

LEMMA IndexStep == IndexInv /\ [IndexNext]_indexVars => IndexInv'
<1>. SUFFICES ASSUME IndexInv, [IndexNext]_indexVars PROVE IndexInv'
  OBVIOUS
<1>1. ASSUME NEW a \in DOMAIN Attempts, delete_source_run(a) PROVE IndexInv'
  BY <1>1, ReindexingStarts
<1>2. ASSUME NEW a \in DOMAIN Attempts, create_result_index(a) PROVE IndexInv'
  BY <1>2, IndexDefined
<1>3. ASSUME NEW a \in DOMAIN Attempts, IndexingStops(a) PROVE IndexInv'
  BY <1>3, AttemptStops
<1>4. ASSUME NEW a \in DOMAIN Attempts, NEW at \in [Part(a) -> CreatedAt], _index_result(a, at) PROVE IndexInv'
  BY <1>4, ResultWritten
<1>5. ASSUME NEW x \in IndexedAssets, StateDeletesAsset(x) PROVE IndexInv'
  BY <1>5, AssetGoes
<1>6. ASSUME NEW x \in IndexedAssets, delete_asset_records(x) PROVE IndexInv'
  BY <1>6, AssetRecordsGo
<1>7. CASE delete_expired_records
  BY <1>7, ExpiredGo
<1>8. CASE IndexTick \/ UNCHANGED indexVars
  <2>1. /\ UNCHANGED <<created, indexing, indexedAssets, query, mixed>>
        /\ indexTime' = indexTime + 1 \/ indexTime' = indexTime
    BY <1>8 DEF IndexTick, indexVars
  <2>2. indexTime \in Nat /\ query \in QueryRecord
    BY DEF IndexInv, IndexTypes
  <2>3. indexTime' \in Nat /\ indexTime <= indexTime'
    BY <2>1, <2>2
  <2>4. PICK q : q = query
    OBVIOUS
  <2>5. QueryOK(q)'
    BY <2>1, <2>4, QueryQuiet DEF IndexInv
  <2>6. QueryOK(query)'
    BY <2>1, <2>4, <2>5 DEF QueryOK
  <2>. QED BY <2>1, <2>2, <2>3, <2>6, RunsUntouched
<1>9. ASSUME NEW i \in IndexIds, NEW m \in {"any", "video"}, StartSearch(i, m) PROVE IndexInv'
  BY <1>9, SearchStarts
<1>10. CASE query_pages
  BY <1>10, PageRead
<1>11. CASE AnswerSearch
  BY <1>11, SearchAnswered
<1>. QED BY <1>1, <1>2, <1>3, <1>4, <1>5, <1>6, <1>7, <1>8, <1>9, <1>10, <1>11 DEF IndexNext

LEMMA InvariantIsExact == IndexInv => IndexExact
<1>. SUFFICES ASSUME IndexInv PROVE IndexExact
  OBVIOUS
<1>1. ASSUME NEW a \in DOMAIN Attempts, NEW run, run = Attempts[a].run, indexing[a] = "done", run \notin mixed,
             {b \in DOMAIN Attempts : Attempts[b].run = run /\ Indexer(b)} = {}
      PROVE  \E b \in LastDone(run) :
                /\ Ready \cap OfRun(run) \subseteq ResultRecords(b)
                /\ \A r \in ResultRecords(b) : r \in Ready \/ Stale(r) \/ indexedAssets[Records[r].asset] = "deleted"
  <2>1. RunSound(run) /\ a \in OfThisRun(run) /\ \A b \in OfThisRun(run) : ~Indexer(b)
    BY <1>1 DEF IndexInv, OfThisRun
  <2>2. PICK b \in OfThisRun(run) : indexing[b] = "done" /\ HoldsResult(b, run)
    BY <1>1, <2>1 DEF RunSound
  <2>3. b \in LastDone(run)
    BY <2>2 DEF LastDone, OfThisRun
  <2>. QED BY <2>2, <2>3 DEF HoldsResult, AssetOf
<1>2. ASSUME query.at = "answered", ~query.shifted, NEW r \in query.steady, Matches(r),
             Wanted(r, query.media), r \notin query.hits
      PROVE  \/ Cardinality({x \in query.hits : Ahead(x, r)}) >= HitLimit
             \/ /\ query.media # "any"
                /\ Cardinality({x \in query.rows : Matches(x) /\ Ahead(x, r)}) >= FetchLimit
  <2>1. Missed(query, r)
    BY <1>2 DEF IndexInv, QueryOK
  <2>2. Better({x \in query.rows : Matches(x)}, r) = {x \in query.rows : Matches(x) /\ Ahead(x, r)}
    BY DEF Better
  <2>. QED BY <2>1, <2>2 DEF Missed, Better
<1>. QED BY <1>1, <1>2 DEF IndexExact

\* Every behaviour of indexing, deletion and search keeps the index exact.
THEOREM IndexIsExact == IndexSpec => []IndexExact
<1>1. IndexSpec => []IndexInv
  BY IndexInitially, IndexStep, PTL DEF IndexSpec
<1>. QED BY <1>1, InvariantIsExact, PTL

-----------------------------------------------------------------------------
(* Trajectories.  The summaries of identities are computed from numbers of *)
(* segments: what a greatest, a least and a count of them is.              *)

\* A finite set of integers has a greatest and a least one.
LEMMA MaxIs ==
    ASSUME NEW V \in SUBSET Int, IsFiniteSet(V), V # {}
    PROVE  Max(V) \in V /\ \A x \in V : x <= Max(V)
<1>0. PICK n \in Nat : ExistsSurjection(1..n, V)
  BY FS_NatSurjection
<1>1. PICK f \in [1..n -> V] : \A v \in V : \E k \in 1..n : f[k] = v
  BY <1>0 DEF ExistsSurjection, Surjection
<1>. DEFINE Greatest(m) == \E k \in 1..m : \A l \in 1..m : f[l] <= f[k]
<1>2. PICK T : T = {m \in 1..n : ~ Greatest(m)}
  OBVIOUS
<1>3. T = {}
  <2>1. SUFFICES ASSUME T # {} PROVE FALSE
    OBVIOUS
  <2>2. T \subseteq Nat
    BY <1>2
  <2>3. PICK m \in T : \A k \in T : m <= k
    BY <2>1, <2>2, LeastNatural
  <2>4. m \in 1..n /\ \A k \in 1..m : f[k] \in Int
    <3>1. m \in 1..n
      BY <1>2, <2>3
    <3>2. \A k \in 1..n : f[k] \in V
      OBVIOUS
    <3>3. \A k \in 1..m : k \in 1..n
      BY <3>1
    <3>. QED BY <3>1, <3>2, <3>3
  <2>5. CASE m = 1
    <3>1. \A l \in 1..1 : f[l] <= f[1]
      BY <2>4, <2>5
    <3>. QED BY <1>2, <2>3, <2>5, <3>1
  <2>6. CASE m # 1
    <3>1. m - 1 \in 1..n /\ ~(m <= m - 1) /\ 1..m = 1..(m - 1) \cup {m}
      BY <2>4, <2>6
    <3>2. Greatest(m - 1)
      BY <1>2, <2>3, <3>1
    <3>3. PICK k \in 1..(m - 1) : \A l \in 1..(m - 1) : f[l] <= f[k]
      BY <3>2
    <3>4. CASE f[m] <= f[k]
      BY <1>2, <2>3, <2>4, <3>1, <3>3, <3>4
    <3>5. CASE ~(f[m] <= f[k])
      <4>1. \A l \in 1..m : f[l] <= f[m]
        BY <2>4, <3>1, <3>3, <3>5
      <4>2. m \in 1..m
        BY <2>4
      <4>. QED BY <1>2, <2>3, <4>1, <4>2
    <3>. QED BY <3>4, <3>5
  <2>. QED BY <2>5, <2>6
<1>4. n \in 1..n
  <2>1. PICK v \in V : TRUE
    OBVIOUS
  <2>2. PICK k \in 1..n : f[k] = v
    BY <1>1
  <2>. QED BY <2>2
<1>5. PICK k \in 1..n : \A l \in 1..n : f[l] <= f[k]
  BY <1>2, <1>3, <1>4
<1>6. f[k] \in V /\ \A x \in V : x <= f[k]
  BY <1>1, <1>5
<1>7. \E x \in V : \A y \in V : x >= y
  BY <1>6
<1>8. Max(V) \in V /\ \A y \in V : Max(V) >= y
  BY <1>7 DEF Max
<1>. QED BY <1>8

LEMMA MinIs ==
    ASSUME NEW V \in SUBSET Int, IsFiniteSet(V), V # {}
    PROVE  Min(V) \in V /\ \A x \in V : Min(V) <= x
<1>. DEFINE N == {0 - x : x \in V}
<1>1. N \in SUBSET Int /\ N # {}
  <2>1. \A x \in V : 0 - x \in Int
    OBVIOUS
  <2>2. PICK v \in V : TRUE
    OBVIOUS
  <2>3. 0 - v \in N
    BY <2>2
  <2>. QED BY <2>1, <2>3
<1>2. IsFiniteSet(N)
  <2>1. [x \in V |-> 0 - x] \in Surjection(V, N)
    BY DEF Surjection
  <2>. QED BY <2>1, FS_Surjection
<1>3. Max(N) \in N /\ \A x \in N : x <= Max(N)
  <2>. HIDE DEF N
  <2>. QED BY <1>1, <1>2, MaxIs
<1>4. PICK m \in V : Max(N) = 0 - m
  BY <1>3
<1>5. \A x \in V : 0 - x <= 0 - m
  BY <1>3, <1>4
<1>6. \A x \in V : m <= x
  BY <1>5
<1>7. Min(V) \in V /\ \A y \in V : Min(V) =< y
  BY <1>6 DEF Min
<1>. QED BY <1>7

LEMMA GreatestIsMax ==
    ASSUME NEW V \in SUBSET Int, NEW m \in V, \A x \in V : x <= m
    PROVE  Max(V) = m
<1>1. \A x \in V : m >= x
  OBVIOUS
<1>2. Max(V) \in V /\ \A y \in V : Max(V) >= y
  BY <1>1 DEF Max
<1>3. PICK a \in Int : a = Max(V)
  BY <1>2
<1>4. a >= m /\ a <= m /\ m \in Int
  BY <1>2, <1>3
<1>. QED BY <1>3, <1>4

LEMMA LeastIsMin ==
    ASSUME NEW V \in SUBSET Int, NEW m \in V, \A x \in V : m <= x
    PROVE  Min(V) = m
<1>1. Min(V) \in V /\ \A y \in V : Min(V) =< y
  BY DEF Min
<1>2. PICK a \in Int : a = Min(V)
  BY <1>1
<1>3. a <= m /\ m <= a /\ m \in Int
  BY <1>1, <1>2
<1>. QED BY <1>2, <1>3

-----------------------------------------------------------------------------
(* What is between two writes of an ingest or an operator.  Everything has a *)
(* number that was drawn; what an ingest matched to an identity it has     *)
(* claimed; and as long as no request overlapped another, one worker or one *)
(* operator is at work, and its step says which records may disagree.      *)

Windows == Int \X Int
Todo == Seq(DOMAIN Tracklets)
Claims == [IdentityIds -> SUBSET Windows]
TrackStep == [at : {"track"}, todo : Todo, claimed : Claims]
ChooseStep ==
    [at : {"choose"}, todo : Todo \ {<<>>}, claimed : Claims, ranked : Seq(IdentityIds), window : Windows]
LoadStep ==
    [at : {"load"}, todo : Todo \ {<<>>}, claimed : Claims, window : Windows, chosen : IdentityIds \cup {0}]
WriteStep ==
    [at : {"template", "segment", "identity", "prune"}, todo : Todo \ {<<>>}, claimed : Claims, window : Windows,
     method : {"new_identity", "reid"}, id : IdentityIds, segment : SegmentIds, doc : LongTermIdentity]
IngestStep == {Waiting, Done} \cup TrackStep \cup ChooseStep \cup LoadStep \cup WriteStep

Listing == {L \in SUBSET (SegmentIds \X TrajectorySegment) : \A m, n \in L : m[1] = n[1] => m = n}
SourceStep == [at : {"source", "recount"}, target : IdentityIds, sources : Seq(IdentityIds), doc : LongTermIdentity]
MergeStep ==
    [at : {"move"}, kind : {"merge"}, target : IdentityIds, sources : Seq(IdentityIds) \ {<<>>},
     doc : LongTermIdentity, from : IdentityIds, moving : Listing]
SplitStep ==
    [at : {"move"}, kind : {"split"}, target : IdentityIds, from : IdentityIds, moving : Listing,
     wanted : Listing, left : Listing, doc : LongTermIdentity]
SaveStep == [at : {"save"}, kind : {"merge", "split", "update"}, id : IdentityIds, doc : LongTermIdentity]
ErasureStep == [at : {"delete_segments", "delete_identity"}, id : IdentityIds]
AnalystStep == {Unoccupied} \cup SourceStep \cup MergeStep \cup SplitStep \cup SaveStep \cup ErasureStep

TrajectoryTypes ==
    /\ identities \in [IdentityIds -> LongTermIdentity \cup {NoIdentity}]
    /\ trackSegments \in [SegmentIds -> TrajectorySegment \cup {NoSegment}]
    /\ templates \subseteq SegmentIds \X IdentityIds
    /\ cameraRecords \in [Cameras -> CameraRecord]
    /\ transitions \subseteq CameraTransition
    /\ ingest \in [Executions -> IngestStep] /\ analyst \in [Analysts -> AnalystStep]
    /\ nextIdentity \in 1..(MaxIdentities + 1) /\ nextSegment \in 1..(MaxSegments + 1)
    /\ overlapped \in BOOLEAN /\ cut \subseteq IdentityIds

\* What is written has a number that was drawn, and no summary counts more segments than were.
Numbered(g) == g.identity < nextIdentity /\ g.feature = g.identity
RunDrawn(j) ==
    /\ j.at \in {"track", "choose", "load", "template", "segment", "identity", "prune"} =>
          \A i \in IdentityIds : i >= nextIdentity => j.claimed[i] = {}
    /\ j.at \in {"template", "segment", "identity", "prune"} =>
          j.id < nextIdentity /\ j.segment < nextSegment /\ j.doc.count + 1 < nextSegment
AnalystDrawn(q) ==
    /\ q.at \in {"source", "recount", "move"} => q.target < nextIdentity
    /\ q.at \in {"source", "recount", "move", "save"} => q.doc.count < nextSegment
    /\ q.at = "move" => /\ q.from < nextIdentity
                        /\ \A m \in q.moving : m[1] < nextSegment /\ Numbered(m[2])
    /\ q.at = "move" /\ q.kind = "split" => \A m \in q.wanted \cup q.left : m[1] < nextSegment
    /\ q.at \in {"save", "delete_segments", "delete_identity"} => q.id < nextIdentity
    /\ q.at \in {"source", "recount"} \/ (q.at = "move" /\ q.kind = "merge") =>
          \A n \in DOMAIN q.sources : q.sources[n] # q.target
Drawn ==
    /\ \A i \in IdentityIds : identities[i] # NoIdentity => i < nextIdentity /\ identities[i].count < nextSegment
    /\ \A s \in SegmentIds : trackSegments[s] # NoSegment => s < nextSegment /\ Numbered(trackSegments[s])
    /\ \A r \in Executions : RunDrawn(ingest[r])
    /\ \A o \in Analysts : AnalystDrawn(analyst[o])

\* What an ingest has matched it has claimed, or is about to.
Matched(s) == trackSegments[s] # NoSegment /\ trackSegments[s].method # "manual"
Holds(j, s) ==
    \/ Window(s) \in j.claimed[trackSegments[s].identity]
    \/ j.at \in {"identity", "prune"} /\ Window(s) = j.window /\ trackSegments[s].identity = j.id
Unclaimed(j) ==
    /\ j.at = "load" => j.chosen = 0 \/ ~ Claimed(j, j.chosen)
    /\ j.at \in {"template", "segment"} => ~ Claimed(j, j.id)
Apart ==
    /\ \A r \in Executions : Unclaimed(ingest[r])
    /\ \A s \in SegmentIds : Matched(s) =>
          LET j == ingest[trackSegments[s].execution] IN j # Waiting /\ (j # Done => Holds(j, s))
    /\ \A s, t \in SegmentIds :
          /\ s # t /\ Matched(s) /\ Matched(t)
          /\ trackSegments[s].execution = trackSegments[t].execution /\ trackSegments[s].identity = trackSegments[t].identity
          => ~ _windows_overlap(Window(s), Window(t))

\* A summary of some segments.
ExactOf(doc, S) ==
    /\ S # {} /\ doc.count = Cardinality(S)
    /\ doc.cameras = {trackSegments[s].camera : s \in S} \ {""}
    /\ doc.first = Min({trackSegments[s].first : s \in S})
    /\ doc.last = Max({trackSegments[s].last : s \in S})
    /\ \E s \in S : trackSegments[s].last = doc.last /\ trackSegments[s].camera = doc.last_camera

\* The records agree, but for some summaries, segments of some identities and some templates;
\* nothing is said of the summary and the segments of an identity a listing cut.
ConsistentBut(X, Y, Z) ==
    /\ \A i \in IdentityIds \ (X \cup cut) : identities[i] # NoIdentity => ExactOf(identities[i], SegmentsOf(i))
    /\ \A s \in SegmentIds : trackSegments[s] # NoSegment /\ trackSegments[s].identity \notin Y \cup cut =>
          identities[trackSegments[s].identity] # NoIdentity
    /\ \A t \in templates \ Z : trackSegments[t[1]].identity = t[2]
Consistent == ConsistentBut({}, {}, {})

\* How the records agree while the one ingest, the one operator at work is between two writes.
Unwritten(r, j) ==
    /\ trackSegments[j.segment] = NoSegment
    /\ IF j.method = "new_identity"
       THEN identities[j.id] = NoIdentity /\ j.doc = NewIdentity(j.window, Recording(r).camera)
       ELSE identities[j.id] = j.doc
Uncounted(r, j) ==
    /\ trackSegments[j.segment] = TrackSegment(r)
    /\ \/ SegmentsOf(j.id) = {j.segment} /\ j.doc = NewIdentity(j.window, Recording(r).camera)
       \/ j.id \notin cut => ExactOf(j.doc, SegmentsOf(j.id) \ {j.segment})
RunAgrees(r, j) ==
    /\ j.at \in {"track", "choose", "load", "prune"} => Consistent
    /\ j.at = "template" => Consistent /\ Unwritten(r, j)
    /\ j.at = "segment" => ConsistentBut({}, {}, {<<j.segment, j.id>>}) /\ Unwritten(r, j)
    /\ j.at = "identity" => ConsistentBut({j.id}, {j.id}, {}) /\ Uncounted(r, j)

Names(listed) == {m[1] : m \in listed}
Stands(m) ==
    LET g == trackSegments[m[1]] IN
    g # NoSegment /\ g.camera = m[2].camera /\ g.first = m[2].first /\ g.last = m[2].last
Merging(q) == identities[q.target] # NoIdentity /\ (q.target \notin cut => SegmentsOf(q.target) # {})
AnalystAgrees(q) ==
    /\ q.at \in {"source", "recount"} => ConsistentBut({q.target}, {}, {}) /\ Merging(q)
    /\ q.at = "move" /\ q.kind = "merge" =>
          /\ ConsistentBut({q.target, q.from}, {}, {}) /\ Merging(q) /\ q.from # q.target
          /\ identities[q.from] # NoIdentity /\ q.moving \subseteq Listed(SegmentsOf(q.from))
          /\ q.from \notin cut => q.moving = Listed(SegmentsOf(q.from))
    /\ q.at = "move" /\ q.kind = "split" =>
          /\ ConsistentBut({q.from}, {q.target}, {})
          /\ identities[q.from] # NoIdentity /\ identities[q.target] = NoIdentity
          /\ q.wanted # {} /\ q.left # {} /\ Names(q.left) \subseteq SegmentsOf(q.from)
          /\ \A m \in q.wanted \cup q.left : Stands(m)
          /\ SegmentsOf(q.target) \cup Names(q.moving) = Names(q.wanted)
          /\ q.moving \subseteq Listed(SegmentsOf(q.from) \ Names(q.left))
          /\ q.from \notin cut => q.moving = Listed(SegmentsOf(q.from) \ Names(q.left))
    /\ q.at = "save" =>
          /\ ConsistentBut({q.id}, {}, {}) /\ identities[q.id] # NoIdentity
          /\ q.id \notin cut => ExactOf(q.doc, SegmentsOf(q.id))
    /\ q.at = "delete_segments" => Consistent /\ identities[q.id] # NoIdentity /\ Templates(q.id) = {}
    /\ q.at = "delete_identity" =>
          ConsistentBut({q.id}, {}, {}) /\ identities[q.id] # NoIdentity /\ SegmentsOf(q.id) = {}

Busy(o) == analyst[o] # Unoccupied
Alone ==
    /\ \A p, r \in Executions : Working(p) /\ Working(r) => p = r
    /\ \A o, p \in Analysts : Busy(o) /\ Busy(p) => o = p
    /\ \A r \in Executions, o \in Analysts : ~(Working(r) /\ Busy(o))
Orderly ==
    /\ Alone
    /\ \A r \in Executions : RunAgrees(r, ingest[r])
    /\ \A o \in Analysts : AnalystAgrees(analyst[o])
    /\ AtRestNow => Consistent

TrajectoryInv == TrajectoryTypes /\ Drawn /\ Apart /\ (~ overlapped => Orderly)

LEMMA Sizes ==
    MaxIdentities \in Nat /\ MaxSegments \in Nat
BY TrajectoryAssumption

LEMMA ExecutionIs ==
    ASSUME NEW r \in Executions
    PROVE  /\ Recording(r).tracks \in Seq(DOMAIN Tracklets) /\ Recording(r).camera \in Cameras \cup {""}
           /\ Recording(r).base[r[2]] \in Int
           /\ \A t \in DOMAIN Tracklets :
                 Tracklets[t].first \in Int /\ Tracklets[t].last \in Int /\ Tracklets[t].quality \in Nat
<1>0. PICK m \in DOMAIN TrackRuns : r \in {m} \X DOMAIN TrackRuns[m].base
  BY DEF Executions
<1>1. PICK n \in DOMAIN TrackRuns[m].base : r = <<m, n>>
  BY <1>0
<1>2. /\ TrackRuns[m].camera \in Cameras \cup {""} /\ TrackRuns[m].base \in Seq(Int)
      /\ TrackRuns[m].tracks \in Seq(DOMAIN Tracklets)
  BY <1>1, TrajectoryAssumption
<1>3. TrackRuns[m].base[n] \in Int
  <2>1. PICK w \in Seq(Int) : w = TrackRuns[m].base
    BY <1>2
  <2>2. n \in DOMAIN w
    BY <2>1
  <2>3. w[n] \in Int
    BY <2>2
  <2>. QED BY <2>1, <2>3
<1>4. Recording(r) = TrackRuns[m] /\ r[2] = n
  BY <1>1 DEF Recording
<1>. QED BY <1>2, <1>3, <1>4, TrajectoryAssumption

LEMMA Kinds ==
    /\ NoSegment \notin TrajectorySegment /\ NoIdentity \notin LongTermIdentity /\ 0 \notin IdentityIds
    /\ NoSegment.identity = 0 /\ NoIdentity.status = "none"
    /\ \A s \in SegmentIds : s \in Nat
    /\ \A i \in IdentityIds : i \in Nat
<1>1. MaxIdentities \in Nat /\ MaxSegments \in Nat
  BY Sizes
<1>2. 0 \notin IdentityIds
  BY <1>1 DEF IdentityIds
<1>3. NoSegment \notin TrajectorySegment
  <2>1. \A g \in TrajectorySegment : g.identity # 0
    BY <1>2 DEF TrajectorySegment
  <2>. QED BY <2>1 DEF NoSegment
<1>4. NoIdentity \notin LongTermIdentity
  <2>1. \A d \in LongTermIdentity : d.status # "none"
    BY DEF LongTermIdentity
  <2>. QED BY <2>1 DEF NoIdentity
<1>. QED BY <1>1, <1>2, <1>3, <1>4 DEF NoSegment, NoIdentity, SegmentIds, IdentityIds

LEMMA SegmentsAre ==
    ASSUME TrajectoryTypes
    PROVE  /\ \A s \in SegmentIds : trackSegments[s] # NoSegment => trackSegments[s] \in TrajectorySegment
           /\ \A i \in IdentityIds : identities[i] # NoIdentity => identities[i] \in LongTermIdentity
           /\ \A i \in IdentityIds : \A s \in SegmentIds :
                 s \in SegmentsOf(i) <=> trackSegments[s] # NoSegment /\ trackSegments[s].identity = i
           /\ \A i : SegmentsOf(i) \subseteq SegmentIds
BY Kinds DEF TrajectoryTypes, SegmentsOf

LEMMA SmallSets ==
    ASSUME NEW S \in SUBSET SegmentIds, NEW n \in 1..(MaxSegments + 1), \A s \in S : s < n
    PROVE  IsFiniteSet(S) /\ Cardinality(S) \in Nat /\ Cardinality(S) < n
<1>1. n - 1 \in Nat /\ S \subseteq 1..(n - 1)
  <2>1. PICK M \in Nat : M = MaxSegments
    BY Sizes
  <2>2. n \in Nat /\ n >= 1
    BY <2>1
  <2>3. \A s \in S : s \in Nat /\ s >= 1 /\ s < n
    BY <2>1 DEF SegmentIds
  <2>. QED BY <2>2, <2>3
<1>2. IsFiniteSet(1..(n - 1)) /\ Cardinality(1..(n - 1)) = n - 1
  <2>1. PICK k \in Nat : k = n - 1
    BY <1>1
  <2>2. IsFiniteSet(1..k) /\ Cardinality(1..k) = IF 1 > k THEN 0 ELSE k - 1 + 1
    BY FS_Interval
  <2>3. (IF 1 > k THEN 0 ELSE k - 1 + 1) = k
    OBVIOUS
  <2>. QED BY <2>1, <2>2, <2>3
<1>3. IsFiniteSet(S) /\ Cardinality(S) <= n - 1 /\ Cardinality(S) \in Nat
  BY <1>1, <1>2, SmallerSet
<1>4. n \in Nat
  <2>1. PICK M \in Nat : M = MaxSegments
    BY Sizes
  <2>. QED BY <2>1
<1>5. PICK c \in Nat : c = Cardinality(S)
  BY <1>3
<1>6. c < n
  BY <1>3, <1>4, <1>5
<1>. QED BY <1>3, <1>5, <1>6

LEMMA ListingIs ==
    ASSUME NEW L \in Listing, NEW n \in 1..(MaxSegments + 1), \A m \in L : m[1] < n
    PROVE  /\ IsFiniteSet(L) /\ Cardinality(L) \in Nat /\ Cardinality(L) < n
           /\ Cardinality(L) = Cardinality(Names(L)) /\ Names(L) \in SUBSET SegmentIds
           /\ \A m \in L : m[1] \in SegmentIds /\ m[2] \in TrajectorySegment
<1>1. /\ \A m \in L : m[1] \in SegmentIds /\ m[2] \in TrajectorySegment
      /\ \A m, k \in L : m[1] = k[1] => m = k
  BY DEF Listing
<1>2. Names(L) \in SUBSET SegmentIds /\ \A s \in Names(L) : s < n
  BY <1>1 DEF Names
<1>3. IsFiniteSet(Names(L)) /\ Cardinality(Names(L)) \in Nat /\ Cardinality(Names(L)) < n
  BY <1>2, SmallSets
<1>. DEFINE f == [s \in Names(L) |-> CHOOSE m \in L : m[1] = s]
<1>4. \A s \in Names(L) : f[s] \in L /\ f[s][1] = s
  BY DEF Names
<1>5. f \in Bijection(Names(L), L)
  <2>1. f \in [Names(L) -> L]
    BY <1>4
  <2>2. \A m \in L : m[1] \in Names(L) /\ f[m[1]] = m
    <3>1. \A m \in L : m[1] \in Names(L)
      BY DEF Names
    <3>. HIDE DEF f
    <3>. QED BY <1>1, <1>4, <3>1
  <2>. HIDE DEF f
  <2>. QED BY <1>4, <2>1, <2>2 DEF Bijection, Injection, IsInjective, Surjection
<1>6. IsFiniteSet(L) /\ Cardinality(L) = Cardinality(Names(L))
  <2>1. PICK h : h \in Bijection(Names(L), L)
    BY <1>5
  <2>2. ExistsBijection(Names(L), L)
    BY <2>1 DEF ExistsBijection
  <2>. QED BY <1>3, <2>2, FS_Bijection
<1>. QED BY <1>1, <1>2, <1>3, <1>6

\* A summary of the segments in a list.
SummaryOf(doc, L) ==
    /\ doc.count = Cardinality(L) /\ doc.cameras = {m[2].camera : m \in L} \ {""}
    /\ doc.first = Min({m[2].first : m \in L}) /\ doc.last = Max({m[2].last : m \in L})
    /\ \E m \in L : m[2].last = doc.last /\ m[2].camera = doc.last_camera

LEMMA RecomputeIs ==
    ASSUME NEW doc \in LongTermIdentity, NEW L \in Listing, NEW n \in 1..(MaxSegments + 1), \A m \in L : m[1] < n
    PROVE  /\ _recompute(doc, L) \in LongTermIdentity /\ _recompute(doc, L).count < n
           /\ L # {} => SummaryOf(_recompute(doc, L), L)
<1>1. /\ IsFiniteSet(L) /\ Cardinality(L) \in Nat /\ Cardinality(L) < n
      /\ \A m \in L : m[1] \in SegmentIds /\ m[2] \in TrajectorySegment
  BY ListingIs
<1>2. n \in Nat /\ n >= 1 /\ n <= MaxSegments + 1 /\ MaxSegments \in Nat
  <2>1. PICK M \in Nat : M = MaxSegments
    BY Sizes
  <2>. QED BY <2>1
<1>3. CASE L = {}
  <2>1. _recompute(doc, L) = [doc EXCEPT !.count = 0, !.cameras = {}]
    BY <1>3 DEF _recompute
  <2>2. 0 \in 0..(MaxSegments + 1) /\ {} \in SUBSET Cameras
    BY <1>2
  <2>3. _recompute(doc, L) \in LongTermIdentity /\ _recompute(doc, L).count = 0
    BY <2>1, <2>2 DEF LongTermIdentity
  <2>. QED BY <1>2, <1>3, <2>3
<1>4. CASE L # {}
  <2>. DEFINE newest == {m \in L : \A k \in L : k[2].last <= m[2].last}
              s == CHOOSE m \in newest : \A k \in newest : k[2].first <= m[2].first
              Ends == {m[2].last : m \in L}
              Starts == {m[2].first : m \in L}
              Late == {m[2].first : m \in newest}
  <2>1. \A m \in L : m[2].first \in Int /\ m[2].last \in Int /\ m[2].camera \in Cameras \cup {""}
    BY <1>1 DEF TrajectorySegment
  <2>2. Ends \in SUBSET Int /\ Ends # {} /\ Starts \in SUBSET Int /\ Starts # {}
    BY <1>4, <2>1
  <2>3. IsFiniteSet(Ends) /\ IsFiniteSet(Starts)
    <3>1. [m \in L |-> m[2].last] \in Surjection(L, Ends)
      BY DEF Surjection
    <3>2. [m \in L |-> m[2].first] \in Surjection(L, Starts)
      BY DEF Surjection
    <3>. QED BY <1>1, <3>1, <3>2, FS_Surjection
  <2>4. Max(Ends) \in Ends /\ \A x \in Ends : x <= Max(Ends)
    <3>. HIDE DEF Ends
    <3>. QED BY <2>2, <2>3, MaxIs
  <2>5. newest # {} /\ newest \subseteq L
    <3>1. PICK m \in L : m[2].last = Max(Ends)
      BY <2>4
    <3>2. \A k \in L : k[2].last <= m[2].last
      BY <2>4, <3>1
    <3>. QED BY <3>1, <3>2
  <2>6. Late \in SUBSET Int /\ Late # {} /\ IsFiniteSet(Late)
    <3>1. Late \subseteq Starts
      BY <2>5
    <3>2. Late # {}
      BY <2>5
    <3>. HIDE DEF Late, Starts
    <3>. QED BY <2>2, <2>3, <3>1, <3>2, FS_Subset
  <2>7. PICK m \in newest : m[2].first = Max(Late) /\ \A k \in newest : k[2].first <= m[2].first
    <3>1. Max(Late) \in Late /\ \A x \in Late : x <= Max(Late)
      <4>. HIDE DEF Late
      <4>. QED BY <2>6, MaxIs
    <3>. QED BY <3>1
  <2>8. s \in newest
    BY <2>7
  <2>9. s \in L /\ s[2].last = Max(Ends)
    <3>1. s \in L /\ \A k \in L : k[2].last <= s[2].last
      <4>. HIDE DEF s
      <4>. QED BY <2>8
    <3>. HIDE DEF s
    <3>2. s[2].last \in Ends /\ \A x \in Ends : x <= s[2].last
      BY <3>1
    <3>. HIDE DEF Ends
    <3>. QED BY <2>2, <3>1, <3>2, GreatestIsMax
  <2>10. Min(Starts) \in Int
    <3>1. Min(Starts) \in Starts
      <4>. HIDE DEF Starts
      <4>. QED BY <2>2, <2>3, MinIs
    <3>. QED BY <2>2, <3>1
  <2>11. _recompute(doc, L) = [status |-> doc.status, count |-> Cardinality(L),
                               cameras |-> {k[2].camera : k \in L} \ {""}, first |-> Min(Starts),
                               last |-> s[2].last, last_camera |-> s[2].camera]
    BY <1>4 DEF _recompute
  <2>12. {k[2].camera : k \in L} \ {""} \in SUBSET Cameras
    BY <2>1
  <2>13. Cardinality(L) \in 0..(MaxSegments + 1)
    BY <1>1, <1>2
  <2>14. doc.status \in {"auto", "confirmed", "rejected"}
    BY DEF LongTermIdentity
  <2>15. s[2].last \in Int /\ s[2].camera \in Cameras \cup {""}
    <3>. HIDE DEF s
    <3>. QED BY <2>1, <2>9
  <2>16. PICK d : d = _recompute(doc, L)
    OBVIOUS
  <2>17. PICK st, ct, cs, f, la, lc : /\ st = doc.status /\ ct = Cardinality(L) /\ cs = {k[2].camera : k \in L} \ {""}
                                      /\ f = Min(Starts) /\ la = s[2].last /\ lc = s[2].camera
    OBVIOUS
  <2>18. d = [status |-> st, count |-> ct, cameras |-> cs, first |-> f, last |-> la, last_camera |-> lc]
    BY <2>11, <2>16, <2>17
  <2>19. d \in LongTermIdentity
    <3>1. /\ st \in {"auto", "confirmed", "rejected"} /\ ct \in 0..(MaxSegments + 1) /\ cs \in SUBSET Cameras
          /\ f \in Int /\ la \in Int /\ lc \in Cameras \cup {""}
      BY <2>10, <2>12, <2>13, <2>14, <2>15, <2>17
    <3>. QED BY <2>18, <3>1 DEF LongTermIdentity
  <2>20. d.count < n
    BY <1>1, <2>17, <2>18
  <2>21. /\ d.count = Cardinality(L) /\ d.cameras = {k[2].camera : k \in L} \ {""}
         /\ d.first = Min(Starts) /\ d.last = Max(Ends)
    <3>. HIDE DEF s
    <3>. QED BY <2>9, <2>17, <2>18
  <2>22. \E k \in L : k[2].last = d.last /\ k[2].camera = d.last_camera
    <3>. HIDE DEF s
    <3>. QED BY <2>9, <2>17, <2>18
  <2>23. SummaryOf(d, L)
    BY <2>21, <2>22 DEF SummaryOf
  <2>. QED BY <2>16, <2>19, <2>20, <2>23
<1>. QED BY <1>3, <1>4

\* The segments listed are the segments stored.
LEMMA ListedExact ==
    ASSUME NEW doc, NEW L \in Listing, L # {}, SummaryOf(doc, L), \A m \in L : Stands(m)
    PROVE  ExactOf(doc, Names(L))
<1>1. MaxSegments + 1 \in 1..(MaxSegments + 1) /\ \A m \in L : m[1] < MaxSegments + 1
  <2>1. PICK M \in Nat : M = MaxSegments
    BY Sizes
  <2>2. \A m \in L : m[1] \in 1..M
    BY <2>1 DEF Listing, SegmentIds
  <2>3. \A k \in 1..M : k < M + 1
    OBVIOUS
  <2>. QED BY <2>1, <2>2, <2>3
<1>2. Cardinality(L) = Cardinality(Names(L))
  BY <1>1, ListingIs
<1>3. \A m \in L : /\ trackSegments[m[1]].camera = m[2].camera /\ trackSegments[m[1]].first = m[2].first
                   /\ trackSegments[m[1]].last = m[2].last
  BY DEF Stands
<1>4. /\ {trackSegments[s].camera : s \in Names(L)} = {m[2].camera : m \in L}
      /\ {trackSegments[s].first : s \in Names(L)} = {m[2].first : m \in L}
      /\ {trackSegments[s].last : s \in Names(L)} = {m[2].last : m \in L}
  BY <1>3 DEF Names
<1>5. PICK m \in L : m[2].last = doc.last /\ m[2].camera = doc.last_camera
  BY DEF SummaryOf
<1>6. m[1] \in Names(L) /\ trackSegments[m[1]].last = doc.last /\ trackSegments[m[1]].camera = doc.last_camera
  BY <1>3, <1>5 DEF Names
<1>. QED BY <1>2, <1>4, <1>6 DEF SummaryOf, ExactOf

-----------------------------------------------------------------------------
(* What a step does to what the records say.                               *)

LEMMA IngestKinds ==
    ASSUME NEW j \in IngestStep
    PROVE  /\ j.at \in {"waiting", "done", "track", "choose", "load", "template", "segment", "identity", "prune"}
           /\ j.at = "waiting" <=> j = Waiting
           /\ j.at = "done" <=> j = Done
           /\ j.at = "track" => j \in TrackStep
           /\ j.at = "choose" => j \in ChooseStep
           /\ j.at = "load" => j \in LoadStep
           /\ j.at \in {"template", "segment", "identity", "prune"} => j \in WriteStep
<1>1. CASE j \in {Waiting, Done}
  BY <1>1 DEF Waiting, Done
<1>2. CASE j \in TrackStep
  BY <1>2 DEF TrackStep, Waiting, Done
<1>3. CASE j \in ChooseStep
  BY <1>3 DEF ChooseStep, Waiting, Done
<1>4. CASE j \in LoadStep
  BY <1>4 DEF LoadStep, Waiting, Done
<1>5. CASE j \in WriteStep
  BY <1>5 DEF WriteStep, Waiting, Done
<1>. QED BY <1>1, <1>2, <1>3, <1>4, <1>5 DEF IngestStep

LEMMA AnalystKinds ==
    ASSUME NEW q \in AnalystStep
    PROVE  /\ q.at \in {"free", "source", "recount", "move", "save", "delete_segments", "delete_identity"}
           /\ q.at = "free" <=> q = Unoccupied
           /\ q.at \in {"source", "recount"} => q \in SourceStep
           /\ q.at = "move" => q.kind \in {"merge", "split"}
           /\ q.at = "move" /\ q.kind = "merge" => q \in MergeStep
           /\ q.at = "move" /\ q.kind = "split" => q \in SplitStep
           /\ q.at = "save" => q \in SaveStep
           /\ q.at \in {"delete_segments", "delete_identity"} => q \in ErasureStep
<1>1. CASE q = Unoccupied
  BY <1>1 DEF Unoccupied
<1>2. CASE q \in SourceStep
  BY <1>2 DEF SourceStep, Unoccupied
<1>3. CASE q \in MergeStep
  BY <1>3 DEF MergeStep, Unoccupied
<1>4. CASE q \in SplitStep
  BY <1>4 DEF SplitStep, Unoccupied
<1>5. CASE q \in SaveStep
  BY <1>5 DEF SaveStep, Unoccupied
<1>6. CASE q \in ErasureStep
  BY <1>6 DEF ErasureStep, Unoccupied
<1>. QED BY <1>1, <1>2, <1>3, <1>4, <1>5, <1>6 DEF AnalystStep

LEMMA Wholes ==
    /\ 0 \in 0..(MaxSegments + 1)
    /\ \A doc \in LongTermIdentity : doc.count \in Int /\ doc.first \in Int /\ doc.last \in Int
    /\ \A g \in TrajectorySegment :
          g.identity \in Int /\ g.identity \in IdentityIds /\ g.first \in Int /\ g.last \in Int
<1>1. PICK M \in Nat : M = MaxSegments
  BY Sizes
<1>2. \A k \in 0..(M + 1) : k \in Int
  OBVIOUS
<1>3. \A doc \in LongTermIdentity : doc.count \in 0..(M + 1) /\ doc.first \in Int /\ doc.last \in Int
  BY <1>1 DEF LongTermIdentity
<1>4. \A g \in TrajectorySegment : g.identity \in IdentityIds /\ g.first \in Int /\ g.last \in Int
  BY DEF TrajectorySegment
<1>5. 0 \in 0..(M + 1)
  OBVIOUS
<1>. QED BY <1>1, <1>2, <1>3, <1>4, <1>5, Kinds

LEMMA StillExact ==
    ASSUME NEW doc, NEW S \in SUBSET SegmentIds,
           \A s \in S : /\ trackSegments'[s].camera = trackSegments[s].camera
                        /\ trackSegments'[s].first = trackSegments[s].first
                        /\ trackSegments'[s].last = trackSegments[s].last,
           ExactOf(doc, S)
    PROVE  ExactOf(doc, S)'
<1>1. /\ {trackSegments'[s].camera : s \in S} = {trackSegments[s].camera : s \in S}
      /\ {trackSegments'[s].first : s \in S} = {trackSegments[s].first : s \in S}
      /\ {trackSegments'[s].last : s \in S} = {trackSegments[s].last : s \in S}
  OBVIOUS
<1>2. \E s \in S : trackSegments'[s].last = doc.last /\ trackSegments'[s].camera = doc.last_camera
  BY DEF ExactOf
<1>. QED BY <1>1, <1>2 DEF ExactOf

\* Only what is named changed.
LEMMA StillConsistent ==
    ASSUME NEW X, NEW Y, NEW Z, ConsistentBut(X, Y, Z), cut \subseteq cut',
           \A i \in IdentityIds : identities'[i] = identities[i],
           \A s \in SegmentIds : trackSegments'[s] = trackSegments[s],
           templates' \subseteq templates, templates \subseteq SegmentIds \X IdentityIds,
           \A s \in SegmentIds : trackSegments[s] # NoSegment => trackSegments[s].identity \in IdentityIds
    PROVE  ConsistentBut(X, Y, Z)' /\ \A i : SegmentsOf(i)' = SegmentsOf(i)
<1>1. \A i : SegmentsOf(i)' = SegmentsOf(i)
  BY DEF SegmentsOf
<1>2. ASSUME NEW i \in IdentityIds \ (X \cup cut'), identities'[i] # NoIdentity
      PROVE  ExactOf(identities[i], SegmentsOf(i))'
  <2>0. SegmentsOf(i) \in SUBSET SegmentIds
    BY DEF SegmentsOf
  <2>1. PICK S, doc : S = SegmentsOf(i) /\ doc = identities[i] /\ S \in SUBSET SegmentIds
    BY <2>0
  <2>2. ExactOf(doc, S)
    BY <1>2, <2>1 DEF ConsistentBut
  <2>3. ExactOf(doc, S)'
    BY <2>1, <2>2, StillExact
  <2>. QED BY <1>1, <2>1, <2>3
<1>3. \A s \in SegmentIds : trackSegments'[s] # NoSegment /\ trackSegments'[s].identity \notin Y \cup cut' =>
          identities'[trackSegments'[s].identity] # NoIdentity
  BY DEF ConsistentBut
<1>4. \A t \in templates' \ Z : trackSegments'[t[1]].identity = t[2]
  BY DEF ConsistentBut
<1>. QED BY <1>1, <1>2, <1>3, <1>4 DEF ConsistentBut

-----------------------------------------------------------------------------
(* What each part of the invariant asks of a step.                         *)

LEMMA DrawnStep ==
    ASSUME TrajectoryTypes, TrajectoryTypes', Drawn,
           nextIdentity' >= nextIdentity, nextSegment' >= nextSegment,
           \A i \in IdentityIds : \/ identities'[i] \in {identities[i], NoIdentity}
                                  \/ i < nextIdentity' /\ identities'[i].count < nextSegment',
           \A s \in SegmentIds : \/ trackSegments'[s] \in {trackSegments[s], NoSegment}
                                 \/ s < nextSegment' /\ Numbered(trackSegments[s])',
           \A r \in Executions : ingest'[r] = ingest[r] \/ RunDrawn(ingest[r])',
           \A o \in Analysts : analyst'[o] = analyst[o] \/ AnalystDrawn(analyst[o])'
    PROVE  Drawn'
<1>0. /\ nextIdentity \in Int /\ nextIdentity' \in Int /\ nextSegment \in Int /\ nextSegment' \in Int
      /\ \A i \in IdentityIds : i \in Int
      /\ \A s \in SegmentIds : s \in Int
  BY Kinds DEF TrajectoryTypes
<1>1. ASSUME NEW i \in IdentityIds, identities'[i] # NoIdentity
      PROVE  i < nextIdentity' /\ identities'[i].count < nextSegment'
  <2>1. CASE identities'[i] = identities[i]
    <3>1. i < nextIdentity /\ identities[i].count < nextSegment
      BY <1>1, <2>1 DEF Drawn
    <3>2. identities[i].count \in Int
      BY <1>1, <2>1, SegmentsAre, Wholes
    <3>. QED BY <1>0, <2>1, <3>1, <3>2
  <2>. QED BY <1>1, <2>1
<1>2. ASSUME NEW s \in SegmentIds, trackSegments'[s] # NoSegment
      PROVE  s < nextSegment' /\ Numbered(trackSegments[s])'
  <2>1. CASE trackSegments'[s] = trackSegments[s]
    <3>1. s < nextSegment /\ Numbered(trackSegments[s])
      BY <1>2, <2>1 DEF Drawn
    <3>2. trackSegments[s].identity \in Int
      BY <1>2, <2>1, SegmentsAre, Wholes
    <3>. QED BY <1>0, <2>1, <3>1, <3>2 DEF Numbered
  <2>. QED BY <1>2, <2>1
<1>3. ASSUME NEW r \in Executions
      PROVE  RunDrawn(ingest[r])'
  <2>1. CASE ingest'[r] = ingest[r]
    <3>1. PICK j \in IngestStep : j = ingest[r]
      BY DEF TrajectoryTypes
    <3>2. RunDrawn(j)
      BY <3>1 DEF Drawn
    <3>3. \A i \in IdentityIds : i >= nextIdentity' => i >= nextIdentity
      BY <1>0
    <3>4. CASE j.at \in {"template", "segment", "identity", "prune"}
      <4>1. j.id \in Int /\ j.segment \in Int /\ j.doc.count \in Int
        <5>1. j.id \in IdentityIds /\ j.segment \in SegmentIds /\ j.doc \in LongTermIdentity
          BY <3>4, IngestKinds DEF WriteStep
        <5>. QED BY <1>0, <5>1, Wholes
      <4>2. j.id < nextIdentity' /\ j.segment < nextSegment' /\ j.doc.count + 1 < nextSegment'
        BY <1>0, <3>2, <3>4, <4>1 DEF RunDrawn
      <4>3. RunDrawn(j)'
        BY <3>2, <3>3, <3>4, <4>2 DEF RunDrawn
      <4>. QED BY <2>1, <3>1, <4>3
    <3>5. CASE j.at \notin {"template", "segment", "identity", "prune"}
      <4>1. RunDrawn(j)'
        BY <3>2, <3>3, <3>5 DEF RunDrawn
      <4>. QED BY <2>1, <3>1, <4>1
    <3>. QED BY <3>4, <3>5
  <2>. QED BY <2>1
<1>4. ASSUME NEW o \in Analysts
      PROVE  AnalystDrawn(analyst[o])'
  <2>1. CASE analyst'[o] = analyst[o]
    <3>1. PICK q \in AnalystStep : q = analyst[o]
      BY DEF TrajectoryTypes
    <3>2. AnalystDrawn(q)
      BY <3>1 DEF Drawn
    <3>3. AnalystDrawn(q)'
      <4>1. q.at \in {"source", "recount", "move"} => q.target \in Int /\ q.doc.count \in Int
        <5>1. q.at \in {"source", "recount", "move"} => q.target \in IdentityIds /\ q.doc \in LongTermIdentity
          BY AnalystKinds DEF SourceStep, MergeStep, SplitStep
        <5>. QED BY <1>0, <5>1, Wholes
      <4>2. q.at = "save" => q.doc.count \in Int
        <5>1. q.at = "save" => q.doc \in LongTermIdentity
          BY AnalystKinds DEF SaveStep
        <5>. QED BY <5>1, Wholes
      <4>3. q.at \in {"save", "delete_segments", "delete_identity"} => q.id \in Int
        BY <1>0, AnalystKinds DEF SaveStep, ErasureStep
      <4>4. q.at = "move" => q.from \in Int /\ q.moving \in Listing
        BY <1>0, AnalystKinds DEF MergeStep, SplitStep
      <4>5. \A L \in Listing : \A m \in L : m[1] \in Int /\ m[2].identity \in Int
        BY <1>0 DEF Listing, TrajectorySegment
      <4>6. q.at = "move" /\ q.kind = "split" => q.wanted \in Listing /\ q.left \in Listing
        BY AnalystKinds DEF SplitStep
      <4>7. q.at \in {"source", "recount", "move"} => q.target < nextIdentity'
        BY <1>0, <3>2, <4>1 DEF AnalystDrawn
      <4>8. q.at \in {"source", "recount", "move", "save"} => q.doc.count < nextSegment'
        BY <1>0, <3>2, <4>1, <4>2 DEF AnalystDrawn
      <4>9. q.at = "move" => /\ q.from < nextIdentity'
                             /\ \A m \in q.moving : m[1] < nextSegment' /\ Numbered(m[2])'
        BY <1>0, <3>2, <4>4, <4>5 DEF AnalystDrawn, Numbered
      <4>10. q.at = "move" /\ q.kind = "split" => \A m \in q.wanted \cup q.left : m[1] < nextSegment'
        BY <1>0, <3>2, <4>5, <4>6 DEF AnalystDrawn
      <4>11. q.at \in {"save", "delete_segments", "delete_identity"} => q.id < nextIdentity'
        BY <1>0, <3>2, <4>3 DEF AnalystDrawn
      <4>. QED BY <3>2, <4>7, <4>8, <4>9, <4>10, <4>11 DEF AnalystDrawn
    <3>. QED BY <2>1, <3>1, <3>3
  <2>. QED BY <2>1
<1>. QED BY <1>1, <1>2, <1>3, <1>4 DEF Drawn

\* Nothing the ingest wrote changes, and the ingest of one Run at most takes a step.
LEMMA ApartStep ==
    ASSUME TrajectoryTypes, Apart,
           \A s \in SegmentIds : Matched(s)' => trackSegments'[s] = trackSegments[s],
           \A r \in Executions : \/ ingest'[r] = ingest[r]
                           \/ /\ Unclaimed(ingest[r])' /\ ingest'[r] # Waiting /\ ingest[r] # Done
                              /\ ingest[r] # Waiting /\ ingest'[r] # Done =>
                                    \A s \in SegmentIds :
                                       Matched(s) /\ trackSegments'[s] = trackSegments[s] /\ Holds(ingest[r], s)
                                       => Holds(ingest[r], s)'
    PROVE  Apart'
<1>1. ASSUME NEW s \in SegmentIds, Matched(s)'
      PROVE  Matched(s) /\ trackSegments'[s] = trackSegments[s] /\ trackSegments[s] \in TrajectorySegment
  BY <1>1, SegmentsAre DEF Matched
<1>2. ASSUME NEW r \in Executions
      PROVE  Unclaimed(ingest[r])'
  <2>1. Unclaimed(ingest[r])
    BY DEF Apart
  <2>2. CASE ingest'[r] = ingest[r]
    BY <2>1, <2>2 DEF Unclaimed, Claimed
  <2>. QED BY <2>2
<1>3. ASSUME NEW s \in SegmentIds, Matched(s)'
      PROVE  LET j == ingest'[trackSegments'[s].execution] IN
             j # Waiting /\ (j # Done => Holds(ingest[trackSegments[s].execution], s)')
  <2>1. Matched(s) /\ trackSegments'[s] = trackSegments[s] /\ trackSegments[s].execution \in Executions
    BY <1>1, <1>3 DEF TrajectorySegment
  <2>2. PICK r \in Executions : r = trackSegments[s].execution
    BY <2>1
  <2>3. ingest[r] # Waiting /\ (ingest[r] # Done => Holds(ingest[r], s))
    BY <2>1, <2>2 DEF Apart
  <2>4. CASE ingest'[r] = ingest[r]
    <3>1. Holds(ingest[r], s) => Holds(ingest[r], s)'
      BY <2>1, <2>4 DEF Holds, Window
    <3>. QED BY <2>1, <2>2, <2>3, <2>4, <3>1
  <2>5. CASE ingest'[r] # ingest[r]
    <3>1. ingest'[r] # Waiting /\ ingest[r] # Done
      BY <2>5
    <3>2. ingest'[r] # Done => Holds(ingest[r], s)'
      BY <2>1, <2>3, <2>5, <3>1
    <3>. QED BY <2>1, <2>2, <3>1, <3>2
  <2>. QED BY <2>4, <2>5
<1>4. ASSUME NEW s \in SegmentIds, NEW t \in SegmentIds, s # t, Matched(s)', Matched(t)',
             trackSegments'[s].execution = trackSegments'[t].execution, trackSegments'[s].identity = trackSegments'[t].identity
      PROVE  ~ _windows_overlap(Window(s)', Window(t)')
  <2>1. Matched(s) /\ trackSegments'[s] = trackSegments[s] /\ Matched(t) /\ trackSegments'[t] = trackSegments[t]
    BY <1>1, <1>4
  <2>2. ~ _windows_overlap(Window(s), Window(t))
    BY <1>4, <2>1 DEF Apart
  <2>. QED BY <2>1, <2>2 DEF Window
<1>. QED BY <1>2, <1>3, <1>4 DEF Apart

\* No ingest takes a step.
LEMMA ApartAnalyst ==
    ASSUME TrajectoryTypes, Apart, ingest' = ingest,
           \A s \in SegmentIds : Matched(s)' => trackSegments'[s] = trackSegments[s]
    PROVE  Apart'
BY ApartStep

LEMMA OrderlyRun ==
    ASSUME TrajectoryTypes, Orderly, NEW r \in Executions, NEW k,
           Working(r) \/ AtRestNow, ingest' = [ingest EXCEPT ![r] = k], analyst' = analyst,
           RunAgrees(r, k)', k \in {Waiting, Done} => Consistent'
    PROVE  Orderly'
<1>1. /\ \A p \in Executions \ {r} : ~ Working(p)
      /\ \A o \in Analysts : ~ Busy(o)
  BY DEF Orderly, Alone, AtRestNow, Busy
<1>2. ingest'[r] = k /\ \A p \in Executions \ {r} : ingest'[p] = ingest[p]
  BY DEF TrajectoryTypes
<1>3. Alone'
  BY <1>1, <1>2 DEF Alone, Working, Busy
<1>4. ASSUME NEW p \in Executions
      PROVE  RunAgrees(p, ingest[p])'
  <2>1. CASE p = r
    BY <1>2, <2>1
  <2>2. CASE p # r
    <3>1. ingest'[p] \in {Waiting, Done}
      BY <1>1, <1>2, <2>2 DEF Working
    <3>2. ingest'[p].at \in {"waiting", "done"}
      BY <3>1 DEF Waiting, Done
    <3>. QED BY <3>2 DEF RunAgrees
  <2>. QED BY <2>1, <2>2
<1>5. ASSUME NEW o \in Analysts
      PROVE  AnalystAgrees(analyst[o])'
  <2>1. analyst'[o].at = "free"
    BY <1>1 DEF Busy, Unoccupied
  <2>. QED BY <2>1 DEF AnalystAgrees
<1>6. AtRestNow' => Consistent'
  BY <1>2 DEF AtRestNow, Working
<1>. QED BY <1>3, <1>4, <1>5, <1>6 DEF Orderly

LEMMA OrderlyAnalyst ==
    ASSUME TrajectoryTypes, Orderly, NEW o \in Analysts, NEW k,
           Busy(o) \/ AtRestNow, analyst' = [analyst EXCEPT ![o] = k], ingest' = ingest,
           AnalystAgrees(k)', k = Unoccupied => Consistent'
    PROVE  Orderly'
<1>1. /\ \A p \in Analysts \ {o} : ~ Busy(p)
      /\ \A r \in Executions : ~ Working(r)
  BY DEF Orderly, Alone, AtRestNow, Busy
<1>2. analyst'[o] = k /\ \A p \in Analysts \ {o} : analyst'[p] = analyst[p]
  BY DEF TrajectoryTypes
<1>3. Alone'
  BY <1>1, <1>2 DEF Alone, Working, Busy
<1>4. ASSUME NEW p \in Executions
      PROVE  RunAgrees(p, ingest[p])'
  <2>1. ingest'[p] \in {Waiting, Done}
    BY <1>1 DEF Working
  <2>2. ingest'[p].at \in {"waiting", "done"}
    BY <2>1 DEF Waiting, Done
  <2>. QED BY <2>2 DEF RunAgrees
<1>5. ASSUME NEW p \in Analysts
      PROVE  AnalystAgrees(analyst[p])'
  <2>1. CASE p = o
    BY <1>2, <2>1
  <2>2. CASE p # o
    <3>1. analyst'[p].at = "free"
      BY <1>1, <1>2, <2>2 DEF Busy, Unoccupied
    <3>. QED BY <3>1 DEF AnalystAgrees
  <2>. QED BY <2>1, <2>2
<1>6. AtRestNow' => Consistent'
  BY <1>2 DEF AtRestNow
<1>. QED BY <1>3, <1>4, <1>5, <1>6 DEF Orderly

LEMMA IngestSteps ==
    ASSUME TrajectoryInv, NEW r \in Executions, NEW k \in IngestStep,
           ingest' = [ingest EXCEPT ![r] = k], analyst' = analyst, transitions' = transitions,
           cameraRecords' \in [Cameras -> CameraRecord], templates' \subseteq SegmentIds \X IdentityIds,
           identities' \in [IdentityIds -> LongTermIdentity \cup {NoIdentity}],
           trackSegments' \in [SegmentIds -> TrajectorySegment \cup {NoSegment}],
           nextIdentity' \in 1..(MaxIdentities + 1), nextIdentity' >= nextIdentity,
           nextSegment' \in 1..(MaxSegments + 1), nextSegment' >= nextSegment,
           overlapped' \in BOOLEAN, cut' = cut,
           \A i \in IdentityIds : \/ identities'[i] \in {identities[i], NoIdentity}
                                  \/ i < nextIdentity' /\ identities'[i].count < nextSegment',
           \A s \in SegmentIds : \/ trackSegments'[s] \in {trackSegments[s], NoSegment}
                                 \/ s < nextSegment' /\ Numbered(trackSegments[s])',
           RunDrawn(k)', Apart',
           ~ overlapped' => ~ overlapped /\ (Working(r) \/ AtRestNow),
           ~ overlapped' => RunAgrees(r, k)',
           ~ overlapped' /\ k \in {Waiting, Done} => Consistent'
    PROVE  TrajectoryInv'
<1>1. TrajectoryTypes /\ Drawn /\ (~ overlapped => Orderly)
  BY DEF TrajectoryInv
<1>2. TrajectoryTypes'
  <2>1. ingest' \in [Executions -> IngestStep]
    BY <1>1 DEF TrajectoryTypes
  <2>. QED BY <1>1, <2>1 DEF TrajectoryTypes
<1>3. ingest'[r] = k /\ \A p \in Executions : p # r => ingest'[p] = ingest[p]
  BY <1>1 DEF TrajectoryTypes
<1>4. \A p \in Executions : ingest'[p] = ingest[p] \/ RunDrawn(ingest[p])'
  BY <1>3
<1>5. Drawn'
  BY <1>1, <1>2, <1>4, DrawnStep
<1>6. ~ overlapped' => Orderly'
  <2>1. SUFFICES ASSUME ~ overlapped' PROVE Orderly'
    OBVIOUS
  <2>. QED BY <1>1, <2>1, OrderlyRun
<1>. QED BY <1>2, <1>5, <1>6 DEF TrajectoryInv

LEMMA AnalystSteps ==
    ASSUME TrajectoryInv, NEW o \in Analysts, NEW k \in AnalystStep,
           analyst' = [analyst EXCEPT ![o] = k], ingest' = ingest, transitions' = transitions,
           cameraRecords' = cameraRecords, templates' \subseteq SegmentIds \X IdentityIds,
           identities' \in [IdentityIds -> LongTermIdentity \cup {NoIdentity}],
           trackSegments' \in [SegmentIds -> TrajectorySegment \cup {NoSegment}],
           nextIdentity' \in 1..(MaxIdentities + 1), nextIdentity' >= nextIdentity,
           nextSegment' = nextSegment, overlapped' \in BOOLEAN,
           cut' = cut \/ (cut \subseteq cut' /\ cut' \subseteq IdentityIds),
           \A i \in IdentityIds : \/ identities'[i] \in {identities[i], NoIdentity}
                                  \/ i < nextIdentity' /\ identities'[i].count < nextSegment',
           \A s \in SegmentIds : \/ trackSegments'[s] \in {trackSegments[s], NoSegment}
                                 \/ /\ s < nextSegment' /\ Numbered(trackSegments[s])'
                                    /\ trackSegments'[s].method = "manual",
           AnalystDrawn(k)',
           ~ overlapped' => ~ overlapped /\ (Busy(o) \/ AtRestNow),
           ~ overlapped' => AnalystAgrees(k)',
           ~ overlapped' /\ k = Unoccupied => Consistent'
    PROVE  TrajectoryInv'
<1>1. TrajectoryTypes /\ Drawn /\ Apart /\ (~ overlapped => Orderly)
  BY DEF TrajectoryInv
<1>8. cut \subseteq cut' /\ cut' \subseteq IdentityIds
  BY <1>1 DEF TrajectoryTypes
<1>2. TrajectoryTypes'
  <2>1. analyst' \in [Analysts -> AnalystStep]
    BY <1>1 DEF TrajectoryTypes
  <2>. QED BY <1>1, <1>8, <2>1 DEF TrajectoryTypes
<1>3. analyst'[o] = k /\ \A p \in Analysts : p # o => analyst'[p] = analyst[p]
  BY <1>1 DEF TrajectoryTypes
<1>4. \A p \in Analysts : analyst'[p] = analyst[p] \/ AnalystDrawn(analyst[p])'
  BY <1>3
<1>5. Drawn'
  <2>1. nextSegment' >= nextSegment
    BY <1>1 DEF TrajectoryTypes
  <2>. QED BY <1>1, <1>2, <1>4, <2>1, DrawnStep
<1>6. Apart'
  <2>1. ASSUME NEW s \in SegmentIds, Matched(s)'
        PROVE  trackSegments'[s] = trackSegments[s]
    BY <2>1 DEF Matched
  <2>. QED BY <1>1, <2>1, ApartAnalyst
<1>7. ~ overlapped' => Orderly'
  <2>1. SUFFICES ASSUME ~ overlapped' PROVE Orderly'
    OBVIOUS
  <2>. QED BY <1>1, <1>8, <2>1, OrderlyAnalyst
<1>. QED BY <1>2, <1>5, <1>6, <1>7 DEF TrajectoryInv

\* A camera is no part of what the records say.
LEMMA CameraSteps ==
    ASSUME TrajectoryInv, cameraRecords' \in [Cameras -> CameraRecord], transitions' \subseteq CameraTransition,
           UNCHANGED <<identities, trackSegments, templates, ingest, analyst, nextIdentity, nextSegment,
                       overlapped, cut>>
    PROVE  TrajectoryInv'
<1>1. TrajectoryTypes /\ Drawn /\ Apart /\ (~ overlapped => Orderly)
  BY DEF TrajectoryInv
<1>2. TrajectoryTypes'
  BY <1>1 DEF TrajectoryTypes
<1>3. Drawn'
  <2>1. nextIdentity' >= nextIdentity /\ nextSegment' >= nextSegment
    BY <1>1 DEF TrajectoryTypes
  <2>. QED BY <1>1, <1>2, <2>1, DrawnStep
<1>4. Apart'
  BY <1>1, ApartAnalyst
<1>5. Orderly => Orderly'
  <2>1. /\ \A X, Y, Z : ConsistentBut(X, Y, Z) => ConsistentBut(X, Y, Z)'
        /\ \A i : SegmentsOf(i)' = SegmentsOf(i)
        /\ \A doc, S : ExactOf(doc, S) => ExactOf(doc, S)'
        /\ \A S : Listed(S)' = Listed(S)
    <3>1. \A i : SegmentsOf(i)' = SegmentsOf(i)
      BY DEF SegmentsOf
    <3>2. ASSUME NEW doc, NEW S, ExactOf(doc, S)
          PROVE  ExactOf(doc, S)'
      BY <3>2 DEF ExactOf
    <3>3. ASSUME NEW S
          PROVE  Listed(S)' = Listed(S)
      BY DEF Listed
    <3>4. ASSUME NEW X, NEW Y, NEW Z, ConsistentBut(X, Y, Z)
          PROVE  ConsistentBut(X, Y, Z)'
      <4>1. \A i \in IdentityIds \ (X \cup cut) : identities[i] # NoIdentity => ExactOf(identities[i], SegmentsOf(i))'
        <5>1. ASSUME NEW i \in IdentityIds \ (X \cup cut), identities[i] # NoIdentity
              PROVE  ExactOf(identities[i], SegmentsOf(i))'
          <6>1. PICK doc, S : doc = identities[i] /\ S = SegmentsOf(i)
            OBVIOUS
          <6>2. ExactOf(doc, S)
            BY <3>4, <5>1, <6>1 DEF ConsistentBut
          <6>3. ExactOf(doc, S)'
            BY <3>2, <6>2
          <6>. QED BY <3>1, <6>1, <6>3
        <5>. QED BY <5>1
      <4>. QED BY <3>4, <4>1 DEF ConsistentBut
    <3>. QED BY <3>1, <3>2, <3>3, <3>4
  <2>2. ASSUME NEW r \in Executions, RunAgrees(r, ingest[r])
        PROVE  RunAgrees(r, ingest[r])'
    <3>1. PICK j : j = ingest[r]
      OBVIOUS
    <3>2. Unwritten(r, j) => Unwritten(r, j)'
      BY DEF Unwritten
    <3>3. TrackSegment(r)' = TrackSegment(r)
      BY DEF TrackSegment
    <3>4. Uncounted(r, j) => Uncounted(r, j)'
      BY <2>1, <3>3 DEF Uncounted
    <3>5. RunAgrees(r, j)'
      BY <2>1, <2>2, <3>1, <3>2, <3>4 DEF RunAgrees, Consistent
    <3>. QED BY <3>1, <3>5
  <2>3. ASSUME NEW o \in Analysts, AnalystAgrees(analyst[o])
        PROVE  AnalystAgrees(analyst[o])'
    <3>1. PICK q : q = analyst[o]
      OBVIOUS
    <3>2. \A m : Stands(m) => Stands(m)'
      BY DEF Stands
    <3>3. Merging(q) => Merging(q)'
      BY <2>1 DEF Merging
    <3>4. AnalystAgrees(q)
      BY <2>3, <3>1
    <3>5. q.at = "move" => AnalystAgrees(q)'
      BY <2>1, <3>2, <3>3, <3>4 DEF AnalystAgrees
    <3>6. q.at # "move" => AnalystAgrees(q)'
      BY <2>1, <3>3, <3>4 DEF AnalystAgrees, Consistent, Templates
    <3>. QED BY <3>1, <3>5, <3>6
  <2>4. Alone => Alone'
    BY DEF Alone, Working, Busy
  <2>5. (AtRestNow => Consistent) => (AtRestNow => Consistent)'
    BY <2>1 DEF AtRestNow, Working, Consistent
  <2>. QED BY <2>2, <2>3, <2>4, <2>5 DEF Orderly
<1>. QED BY <1>1, <1>2, <1>3, <1>4, <1>5 DEF TrajectoryInv

-----------------------------------------------------------------------------
(* Cameras.                                                                *)

LEMMA CamerasChange ==
    ASSUME TrajectoryInv, NEW c \in Cameras,
           \/ register_camera(c) \/ delete_camera(c)
           \/ \E new \in TransitionSets : set_camera_transitions(c, new)
    PROVE  TrajectoryInv'
<1>1. cameraRecords \in [Cameras -> CameraRecord] /\ transitions \subseteq CameraTransition
  BY DEF TrajectoryInv, TrajectoryTypes
<1>2. CASE register_camera(c)
  <2>1. cameraRecords' \in [Cameras -> CameraRecord] /\ transitions' \subseteq CameraTransition
    BY <1>1, <1>2 DEF register_camera, CameraRecord
  <2>. QED BY <1>2, <2>1, CameraSteps DEF register_camera
<1>3. CASE delete_camera(c)
  <2>1. cameraRecords' \in [Cameras -> CameraRecord] /\ transitions' \subseteq CameraTransition
    BY <1>1, <1>3 DEF delete_camera, CameraRecord
  <2>. QED BY <1>3, <2>1, CameraSteps DEF delete_camera
<1>4. ASSUME NEW new \in TransitionSets, set_camera_transitions(c, new)
      PROVE  TrajectoryInv'
  <2>1. \A k \in Cameras : ensure_camera(k)[k] \in CameraRecord
    BY <1>1 DEF ensure_camera, CameraRecord
  <2>2. cameraRecords' \in [Cameras -> CameraRecord]
    BY <1>1, <1>4, <2>1 DEF set_camera_transitions
  <2>3. new \subseteq CameraTransition
    BY TrajectoryAssumption DEF CameraTransition
  <2>4. transitions' \subseteq CameraTransition
    BY <1>1, <1>4, <2>3 DEF set_camera_transitions
  <2>. QED BY <1>4, <2>2, <2>4, CameraSteps DEF set_camera_transitions
<1>. QED BY <1>2, <1>3, <1>4

-----------------------------------------------------------------------------
(* The ingest of a Run.                                                    *)

\* A step that writes no record.
LEMMA ReadingStep ==
    ASSUME TrajectoryInv, NEW r \in Executions, NEW k \in IngestStep, ingest' = [ingest EXCEPT ![r] = k],
           UNCHANGED <<identities, trackSegments, templates, transitions, analyst, nextIdentity, nextSegment, cut>>,
           cameraRecords' \in [Cameras -> CameraRecord], overlapped' \in BOOLEAN,
           ingest[r].at \in {"waiting", "track", "choose", "load"}, k.at \in {"track", "choose", "load", "done"},
           RunDrawn(k), Unclaimed(k), ingest[r].at # "waiting" /\ k.at # "done" => k.claimed = ingest[r].claimed,
           ~ overlapped' => ~ overlapped /\ (ingest[r].at = "waiting" => AtRestNow)
    PROVE  TrajectoryInv'
<1>1. TrajectoryTypes /\ Drawn /\ Apart /\ (~ overlapped => Orderly)
  BY DEF TrajectoryInv
<1>2. PICK j \in IngestStep : j = ingest[r]
  BY <1>1 DEF TrajectoryTypes
<1>3. /\ ingest'[r] = k /\ \A p \in Executions : p # r => ingest'[p] = ingest[p]
      /\ j # Done /\ k # Waiting /\ (j = Waiting <=> j.at = "waiting") /\ (k = Done <=> k.at = "done")
  BY <1>1, <1>2, IngestKinds DEF TrajectoryTypes
<1>4. RunDrawn(k)' /\ Unclaimed(k)'
  BY DEF RunDrawn, Unclaimed, Claimed
<1>5. Apart'
  <2>1. ASSUME NEW s \in SegmentIds, Matched(s)'
        PROVE  trackSegments'[s] = trackSegments[s]
    OBVIOUS
  <2>2. ASSUME NEW s \in SegmentIds, j # Waiting, k # Done, Holds(j, s)
        PROVE  Holds(k, s)'
    BY <1>2, <1>3, <2>2 DEF Holds, Window
  <2>3. ASSUME NEW p \in Executions, p # r
        PROVE  ingest'[p] = ingest[p]
    BY <1>3, <2>3
  <2>4. Unclaimed(ingest[r])' /\ ingest'[r] # Waiting /\ ingest[r] # Done
    BY <1>2, <1>3, <1>4
  <2>5. ASSUME ingest[r] # Waiting, ingest'[r] # Done, NEW s \in SegmentIds, Holds(ingest[r], s)
        PROVE  Holds(ingest[r], s)'
    BY <1>2, <1>3, <2>2, <2>5
  <2>. QED BY <1>1, <2>1, <2>3, <2>4, <2>5, ApartStep
<1>6. ~ overlapped' => ~ overlapped /\ (Working(r) \/ AtRestNow)
  BY <1>2, <1>3 DEF Working
<1>7. ASSUME ~ overlapped'
      PROVE  RunAgrees(r, k)' /\ Consistent'
  <2>1. Orderly
    BY <1>1, <1>7
  <2>2. Consistent
    <3>1. RunAgrees(r, j)
      BY <1>2, <2>1 DEF Orderly
    <3>2. CASE j.at = "waiting"
      BY <1>2, <1>7, <2>1, <3>2 DEF Orderly
    <3>3. CASE j.at # "waiting"
      BY <1>2, <3>1, <3>3 DEF RunAgrees
    <3>. QED BY <3>2, <3>3
  <2>3. templates \subseteq SegmentIds \X IdentityIds
    BY <1>1 DEF TrajectoryTypes
  <2>4. \A s \in SegmentIds : trackSegments[s] # NoSegment => trackSegments[s].identity \in IdentityIds
    BY <1>1, SegmentsAre, Wholes
  <2>5. ConsistentBut({}, {}, {})'
    BY <2>2, <2>3, <2>4, StillConsistent DEF Consistent
  <2>. QED BY <2>5 DEF Consistent, RunAgrees
<1>8. /\ identities' \in [IdentityIds -> LongTermIdentity \cup {NoIdentity}]
      /\ trackSegments' \in [SegmentIds -> TrajectorySegment \cup {NoSegment}]
      /\ templates' \subseteq SegmentIds \X IdentityIds
      /\ nextIdentity' \in 1..(MaxIdentities + 1) /\ nextIdentity' >= nextIdentity
      /\ nextSegment' \in 1..(MaxSegments + 1) /\ nextSegment' >= nextSegment
  BY <1>1 DEF TrajectoryTypes
<1>. QED BY <1>4, <1>5, <1>6, <1>7, <1>8, IngestSteps

-----------------------------------------------------------------------------
(* The ingest of a Run, up to the identity it chooses.                     *)

LEMMA IngestBegins ==
    ASSUME TrajectoryInv, NEW r \in Executions, ingest_run_tracks(r)
    PROVE  TrajectoryInv'
<1>1. PICK k : k = [at |-> "track", todo |-> Recording(r).tracks, claimed |-> [i \in IdentityIds |-> {}]]
  OBVIOUS
<1>2. k \in IngestStep /\ k.at = "track" /\ \A i \in IdentityIds : k.claimed[i] = {}
  <2>1. Recording(r).tracks \in Todo
    BY ExecutionIs DEF Todo
  <2>2. [i \in IdentityIds |-> {}] \in Claims
    BY DEF Claims
  <2>. QED BY <1>1, <2>1, <2>2 DEF IngestStep, TrackStep
<1>3. RunDrawn(k) /\ Unclaimed(k)
  BY <1>2 DEF RunDrawn, Unclaimed
<1>4. cameraRecords' \in [Cameras -> CameraRecord] /\ overlapped' \in BOOLEAN
  <2>1. cameraRecords \in [Cameras -> CameraRecord] /\ overlapped \in BOOLEAN
    BY DEF TrajectoryInv, TrajectoryTypes
  <2>2. cameraRecords' \in [Cameras -> CameraRecord]
    BY <2>1 DEF ingest_run_tracks, ensure_camera, CameraRecord
  <2>3. overlapped' \in BOOLEAN
    BY <2>1 DEF ingest_run_tracks, Began
  <2>. QED BY <2>2, <2>3
<1>5. ingest[r].at = "waiting"
  <2>1. ingest[r] = Waiting
    BY DEF ingest_run_tracks
  <2>. QED BY <2>1 DEF Waiting
<1>6. ~ overlapped' => ~ overlapped /\ AtRestNow
  BY DEF ingest_run_tracks, Began
<1>7. /\ ingest' = [ingest EXCEPT ![r] = k]
      /\ UNCHANGED <<identities, trackSegments, templates, transitions, analyst, nextIdentity, nextSegment, cut>>
  BY <1>1 DEF ingest_run_tracks, Works
<1>. QED BY <1>2, <1>3, <1>4, <1>5, <1>6, <1>7, ReadingStep

LEMMA RunStands ==
    ASSUME TrajectoryInv, NEW r \in Executions
    PROVE  /\ ingest[r] \in IngestStep /\ RunDrawn(ingest[r]) /\ Unclaimed(ingest[r])
           /\ cameraRecords \in [Cameras -> CameraRecord] /\ overlapped \in BOOLEAN
           /\ ~ overlapped => RunAgrees(r, ingest[r])
BY DEF TrajectoryInv, TrajectoryTypes, Drawn, Apart, Orderly

LEMMA SearchAnswers ==
    ASSUME TrajectoryInv, NEW r \in Executions, _candidates(r)
    PROVE  TrajectoryInv'
<1>1. PICK j \in IngestStep : j = ingest[r] /\ RunDrawn(j)
  BY RunStands
<1>2. PICK t : t = Head(j.todo)
  OBVIOUS
<1>3. j.at = "track" /\ j.todo # <<>> /\ j \in TrackStep
  BY <1>1, IngestKinds DEF _candidates
<1>4. j.todo \in Todo /\ j.claimed \in Claims /\ t \in DOMAIN Tracklets /\ Tail(j.todo) \in Todo
  BY <1>2, <1>3 DEF TrackStep, Todo
<1>5. \A i \in IdentityIds : i >= nextIdentity => j.claimed[i] = {}
  BY <1>1, <1>3 DEF RunDrawn
<1>6. \E k \in IngestStep : /\ ingest' = [ingest EXCEPT ![r] = k]
                            /\ k.at \in {"track", "choose"} /\ k.claimed = j.claimed
  <2>1. CASE ~ _quality_gate(t) \/ ~ Tracklets[t].embedded
    <3>1. PICK k : k = [j EXCEPT !.todo = Tail(@)]
      OBVIOUS
    <3>2. k = [at |-> "track", todo |-> Tail(j.todo), claimed |-> j.claimed]
      BY <1>3, <3>1 DEF TrackStep
    <3>3. k \in IngestStep
      BY <1>4, <3>2 DEF IngestStep, TrackStep
    <3>4. ingest' = [ingest EXCEPT ![r] = k]
      BY <1>1, <1>2, <2>1, <3>1 DEF _candidates, Works
    <3>. QED BY <3>2, <3>3, <3>4
  <2>2. CASE ~(~ _quality_gate(t) \/ ~ Tracklets[t].embedded)
    <3>1. PICK matches \in SUBSET Subjects : \E ranked \in SetToSeqs(matches) :
             Works(r, [at |-> "choose", todo |-> j.todo, claimed |-> j.claimed, ranked |-> ranked,
                       window |-> _observation_window(t, Recording(r).base[r[2]])])
      BY <1>1, <1>2, <2>2 DEF _candidates
    <3>2. PICK ranked \in SetToSeqs(matches) :
             Works(r, [at |-> "choose", todo |-> j.todo, claimed |-> j.claimed, ranked |-> ranked,
                       window |-> _observation_window(t, Recording(r).base[r[2]])])
      BY <3>1
    <3>3. PICK w, k : /\ w = _observation_window(t, Recording(r).base[r[2]])
                      /\ k = [at |-> "choose", todo |-> j.todo, claimed |-> j.claimed, ranked |-> ranked, window |-> w]
      OBVIOUS
    <3>4. w \in Windows
      <4>1. PICK a \in Int, b \in Int, c \in Int :
               a = Tracklets[t].first /\ b = Tracklets[t].last /\ c = Recording(r).base[r[2]]
        BY <1>4, ExecutionIs
      <4>2. w = <<c + a, c + b>> \/ w = <<c + b, c + a>>
        BY <3>3, <4>1 DEF _observation_window
      <4>. QED BY <4>2 DEF Windows
    <3>5. ranked \in Seq(IdentityIds)
      <4>1. matches \subseteq IdentityIds
        BY DEF Subjects, TrajectoryInv, TrajectoryTypes
      <4>2. PICK M \in Nat : M = MaxIdentities
        BY Sizes
      <4>3. IsFiniteSet(IdentityIds)
        BY <4>2, FS_Interval DEF IdentityIds
      <4>4. IsFiniteSet(matches)
        BY <4>1, <4>3, FS_Subset
      <4>5. PICK n \in Nat : n = Cardinality(matches)
        BY <4>4, FS_CardinalityType
      <4>6. ranked \in [1..n -> matches]
        BY <4>5 DEF SetToSeqs
      <4>7. ranked \in [1..n -> IdentityIds]
        BY <4>1, <4>6
      <4>. QED BY <4>7
    <3>6. k \in IngestStep /\ k.at = "choose" /\ k.claimed = j.claimed
      <4>1. j.todo \in Todo \ {<<>>}
        BY <1>3, <1>4
      <4>2. k \in ChooseStep
        BY <1>4, <3>3, <3>4, <3>5, <4>1 DEF ChooseStep
      <4>. QED BY <3>3, <4>2 DEF IngestStep
    <3>7. ingest' = [ingest EXCEPT ![r] = k]
      BY <3>2, <3>3 DEF Works
    <3>. QED BY <3>6, <3>7
  <2>. QED BY <2>1, <2>2
<1>7. PICK k \in IngestStep : /\ ingest' = [ingest EXCEPT ![r] = k]
                              /\ k.at \in {"track", "choose"} /\ k.claimed = j.claimed
  BY <1>6
<1>8. RunDrawn(k) /\ Unclaimed(k)
  BY <1>5, <1>7 DEF RunDrawn, Unclaimed
<1>9. /\ UNCHANGED <<identities, trackSegments, templates, transitions, analyst, nextIdentity, nextSegment, cut>>
      /\ cameraRecords' = cameraRecords /\ overlapped' = overlapped
  BY DEF _candidates
<1>. QED BY <1>1, <1>3, <1>7, <1>8, <1>9, RunStands, ReadingStep

LEMMA CandidateChosen ==
    ASSUME TrajectoryInv, NEW r \in Executions, Choose(r)
    PROVE  TrajectoryInv'
<1>1. PICK j \in IngestStep : j = ingest[r] /\ RunDrawn(j)
  BY RunStands
<1>2. j.at = "choose" /\ j \in ChooseStep
  BY <1>1, IngestKinds DEF Choose
<1>3. /\ j.todo \in Todo \ {<<>>} /\ j.claimed \in Claims /\ j.ranked \in Seq(IdentityIds) /\ j.window \in Windows
      /\ j = [at |-> "choose", todo |-> j.todo, claimed |-> j.claimed, ranked |-> j.ranked, window |-> j.window]
  BY <1>2 DEF ChooseStep
<1>4. \A i \in IdentityIds : i >= nextIdentity => j.claimed[i] = {}
  BY <1>1, <1>2 DEF RunDrawn
<1>5. \E k \in IngestStep : /\ ingest' = [ingest EXCEPT ![r] = k] /\ k.at \in {"choose", "load"}
                            /\ k.claimed = j.claimed /\ Unclaimed(k)
  <2>1. CASE j.ranked = <<>>
    <3>1. PICK k : k = [at |-> "load", todo |-> j.todo, claimed |-> j.claimed, window |-> j.window, chosen |-> 0]
      OBVIOUS
    <3>2. ingest' = [ingest EXCEPT ![r] = k]
      BY <1>1, <2>1, <3>1 DEF Choose, Works
    <3>3. k \in LoadStep
      BY <1>3, <3>1 DEF LoadStep
    <3>4. k \in IngestStep /\ k.at = "load" /\ k.claimed = j.claimed /\ k.chosen = 0
      BY <3>1, <3>3 DEF IngestStep
    <3>5. Unclaimed(k)
      BY <3>4 DEF Unclaimed
    <3>. QED BY <3>2, <3>4, <3>5
  <2>2. CASE j.ranked # <<>> /\ Eligible(r, Head(j.ranked))
    <3>1. PICK i \in IdentityIds : i = Head(j.ranked)
      BY <1>3, <2>2
    <3>2. PICK k : k = [at |-> "load", todo |-> j.todo, claimed |-> j.claimed, window |-> j.window, chosen |-> i]
      OBVIOUS
    <3>3. ingest' = [ingest EXCEPT ![r] = k]
      BY <1>1, <2>2, <3>1, <3>2 DEF Choose, Works
    <3>4. k \in LoadStep
      BY <1>3, <3>2 DEF LoadStep
    <3>5. ~ Claimed(j, i)
      BY <1>1, <2>2, <3>1 DEF Eligible
    <3>6. ~ Claimed(k, i)
      BY <3>2, <3>5 DEF Claimed
    <3>7. k \in IngestStep /\ k.at = "load" /\ k.claimed = j.claimed /\ k.chosen = i
      BY <3>2, <3>4 DEF IngestStep
    <3>8. Unclaimed(k)
      BY <3>6, <3>7 DEF Unclaimed
    <3>. QED BY <3>3, <3>7, <3>8
  <2>3. CASE j.ranked # <<>> /\ ~ Eligible(r, Head(j.ranked))
    <3>1. PICK k : k = [j EXCEPT !.ranked = Tail(@)]
      OBVIOUS
    <3>2. k = [at |-> "choose", todo |-> j.todo, claimed |-> j.claimed, ranked |-> Tail(j.ranked), window |-> j.window]
      BY <1>2, <3>1 DEF ChooseStep
    <3>3. ingest' = [ingest EXCEPT ![r] = k]
      BY <1>1, <2>3, <3>1 DEF Choose, Works
    <3>4. Tail(j.ranked) \in Seq(IdentityIds)
      BY <1>3, <2>3
    <3>5. k \in ChooseStep
      BY <1>3, <3>2, <3>4 DEF ChooseStep
    <3>6. k \in IngestStep /\ k.at = "choose" /\ k.claimed = j.claimed
      BY <3>2, <3>5 DEF IngestStep
    <3>7. Unclaimed(k)
      BY <3>6 DEF Unclaimed
    <3>. QED BY <3>3, <3>6, <3>7
  <2>. QED BY <2>1, <2>2, <2>3
<1>6. PICK k \in IngestStep : /\ ingest' = [ingest EXCEPT ![r] = k] /\ k.at \in {"choose", "load"}
                              /\ k.claimed = j.claimed /\ Unclaimed(k)
  BY <1>5
<1>7. RunDrawn(k)
  BY <1>4, <1>6 DEF RunDrawn
<1>8. /\ UNCHANGED <<identities, trackSegments, templates, transitions, analyst, nextIdentity, nextSegment, cut>>
      /\ cameraRecords' = cameraRecords /\ overlapped' = overlapped
  BY DEF Choose
<1>. QED BY <1>1, <1>2, <1>6, <1>7, <1>8, RunStands, ReadingStep

LEMMA IngestEnds ==
    ASSUME TrajectoryInv, NEW r \in Executions, Ingested(r)
    PROVE  TrajectoryInv'
<1>1. Done \in IngestStep /\ Done.at = "done" /\ RunDrawn(Done) /\ Unclaimed(Done)
  BY DEF IngestStep, Done, RunDrawn, Unclaimed
<1>2. ingest[r].at = "track" /\ ingest' = [ingest EXCEPT ![r] = Done]
  BY DEF Ingested, Works
<1>3. /\ UNCHANGED <<identities, trackSegments, templates, transitions, analyst, nextIdentity, nextSegment, cut>>
      /\ cameraRecords' = cameraRecords /\ overlapped' = overlapped
  BY DEF Ingested
<1>. QED BY <1>1, <1>2, <1>3, RunStands, ReadingStep

LEMMA IngestStops ==
    ASSUME TrajectoryInv, NEW r \in Executions, Stop(r)
    PROVE  TrajectoryInv'
<1>1. Done \in IngestStep /\ RunDrawn(Done)' /\ Unclaimed(Done)' /\ Done # Waiting
  BY DEF IngestStep, Done, Waiting, RunDrawn, Unclaimed
<1>2. /\ ingest' = [ingest EXCEPT ![r] = Done] /\ Working(r) /\ overlapped' = TRUE
      /\ UNCHANGED <<identities, trackSegments, templates, cameraRecords, transitions, analyst, nextIdentity,
                     nextSegment, cut>>
  BY DEF Stop, Works
<1>3. TrajectoryTypes /\ Apart
  BY DEF TrajectoryInv
<1>4. ingest'[r] = Done /\ ingest[r] # Done /\ \A p \in Executions : p # r => ingest'[p] = ingest[p]
  BY <1>2, <1>3 DEF TrajectoryTypes, Working
<1>5. Apart'
  BY <1>1, <1>2, <1>3, <1>4, ApartStep
<1>6. /\ identities' \in [IdentityIds -> LongTermIdentity \cup {NoIdentity}]
      /\ trackSegments' \in [SegmentIds -> TrajectorySegment \cup {NoSegment}]
      /\ templates' \subseteq SegmentIds \X IdentityIds /\ cameraRecords' \in [Cameras -> CameraRecord]
      /\ nextIdentity' \in 1..(MaxIdentities + 1) /\ nextIdentity' >= nextIdentity
      /\ nextSegment' \in 1..(MaxSegments + 1) /\ nextSegment' >= nextSegment
  BY <1>2, <1>3 DEF TrajectoryTypes
<1>. QED BY <1>1, <1>2, <1>5, <1>6, IngestSteps

-----------------------------------------------------------------------------
(* What it writes for a tracklet: templates, the segment, the summary.     *)

LEMMA Onward ==
    ASSUME NEW j \in WriteStep, NEW a \in {"template", "segment", "identity", "prune"}, NEW k,
           k = [j EXCEPT !.at = a]
    PROVE  /\ k \in WriteStep /\ k.at = a /\ k.todo = j.todo /\ k.claimed = j.claimed /\ k.window = j.window
           /\ k.method = j.method /\ k.id = j.id /\ k.segment = j.segment /\ k.doc = j.doc
<1>1. k = [at |-> a, todo |-> j.todo, claimed |-> j.claimed, window |-> j.window, method |-> j.method, id |-> j.id,
           segment |-> j.segment, doc |-> j.doc]
  BY DEF WriteStep
<1>2. /\ j.todo \in Todo \ {<<>>} /\ j.claimed \in Claims /\ j.window \in Windows
      /\ j.method \in {"new_identity", "reid"} /\ j.id \in IdentityIds /\ j.segment \in SegmentIds
      /\ j.doc \in LongTermIdentity
  BY DEF WriteStep
<1>. QED BY <1>1, <1>2 DEF WriteStep

LEMMA WriterStands ==
    ASSUME TrajectoryInv, NEW r \in Executions, NEW j, j = ingest[r], j.at \in {"template", "segment", "identity",
           "prune"}
    PROVE  /\ j \in WriteStep /\ j \in IngestStep
           /\ j.todo \in Todo \ {<<>>} /\ j.claimed \in Claims /\ j.window \in Windows
           /\ j.method \in {"new_identity", "reid"} /\ j.id \in IdentityIds /\ j.segment \in SegmentIds
           /\ j.doc \in LongTermIdentity
           /\ RunDrawn(j) /\ j.id < nextIdentity /\ j.segment < nextSegment /\ j.doc.count + 1 < nextSegment
           /\ Unclaimed(j) /\ (~ overlapped => RunAgrees(r, j))
<1>1. j \in IngestStep /\ j \in WriteStep /\ RunDrawn(j)
  BY RunStands, IngestKinds
<1>2. j.id < nextIdentity /\ j.segment < nextSegment /\ j.doc.count + 1 < nextSegment
  BY <1>1 DEF RunDrawn
<1>3. /\ j.todo \in Todo \ {<<>>} /\ j.claimed \in Claims /\ j.window \in Windows
      /\ j.method \in {"new_identity", "reid"} /\ j.id \in IdentityIds /\ j.segment \in SegmentIds
      /\ j.doc \in LongTermIdentity
  BY <1>1 DEF WriteStep
<1>. QED BY <1>1, <1>2, <1>3, RunStands

LEMMA TrackSegmentIs ==
    ASSUME TrajectoryInv, NEW r \in Executions, NEW j, j = ingest[r], j.at \in {"template", "segment", "identity",
           "prune"}
    PROVE  /\ TrackSegment(r) \in TrajectorySegment
           /\ TrackSegment(r).identity = j.id /\ TrackSegment(r).feature = j.id /\ TrackSegment(r).execution = r
           /\ TrackSegment(r).camera = Recording(r).camera /\ TrackSegment(r).method = j.method
           /\ TrackSegment(r).first = j.window[1] /\ TrackSegment(r).last = j.window[2]
<1>1. TrackSegment(r) =
          [identity |-> j.id, execution |-> r, camera |-> Recording(r).camera, first |-> j.window[1],
           last |-> j.window[2], quality |-> Tracklets[Head(j.todo)].quality, method |-> j.method, feature |-> j.id]
  BY DEF TrackSegment
<1>2. /\ j.todo \in Todo \ {<<>>} /\ j.window \in Windows /\ j.method \in {"new_identity", "reid"} /\ j.id \in IdentityIds
  BY WriterStands
<1>3. Head(j.todo) \in DOMAIN Tracklets
  BY <1>2 DEF Todo
<1>4. Tracklets[Head(j.todo)].quality \in Nat /\ Recording(r).camera \in Cameras \cup {""}
  BY <1>3, ExecutionIs
<1>5. j.window[1] \in Int /\ j.window[2] \in Int
  BY <1>2 DEF Windows
<1>6. PICK i \in IdentityIds, m \in {"new_identity", "reid"}, c \in Cameras \cup {""}, q \in Nat, a \in Int, b \in Int :
          /\ i = j.id /\ m = j.method
          /\ c = Recording(r).camera /\ q = Tracklets[Head(j.todo)].quality /\ a = j.window[1] /\ b = j.window[2]
  BY <1>2, <1>4, <1>5
<1>7. PICK g : g = TrackSegment(r)
  OBVIOUS
<1>8. g = [identity |-> i, execution |-> r, camera |-> c, first |-> a, last |-> b, quality |-> q, method |-> m, feature |-> i]
  BY <1>1, <1>6, <1>7
<1>9. g \in TrajectorySegment
  BY <1>8 DEF TrajectorySegment
<1>10. g.identity = i /\ g.feature = i /\ g.execution = r /\ g.camera = c /\ g.method = m /\ g.first = a /\ g.last = b
  BY <1>8
<1>. QED BY <1>6, <1>7, <1>9, <1>10

\* A step from one write of an ingest to the next.
LEMMA WritingStep ==
    ASSUME TrajectoryInv, NEW r \in Executions, NEW j, j = ingest[r], j.at \in {"template", "segment", "identity"},
           NEW a \in {"segment", "identity", "prune"}, NEW k, k = [j EXCEPT !.at = a],
           ingest' = [ingest EXCEPT ![r] = k],
           UNCHANGED <<cameraRecords, transitions, analyst, nextIdentity, nextSegment, overlapped, cut>>,
           templates' \subseteq SegmentIds \X IdentityIds,
           identities' \in [IdentityIds -> LongTermIdentity \cup {NoIdentity}],
           trackSegments' \in [SegmentIds -> TrajectorySegment \cup {NoSegment}],
           \A i \in IdentityIds : \/ identities'[i] \in {identities[i], NoIdentity}
                                  \/ i < nextIdentity' /\ identities'[i].count < nextSegment',
           \A s \in SegmentIds : \/ trackSegments'[s] \in {trackSegments[s], NoSegment}
                                 \/ s < nextSegment' /\ Numbered(trackSegments[s])',
           Apart',
           ~ overlapped => RunAgrees(r, k)'
    PROVE  TrajectoryInv'
<1>1. j \in WriteStep /\ j \in IngestStep /\ RunDrawn(j)
  BY WriterStands
<1>2. k \in IngestStep /\ k.at = a /\ k.claimed = j.claimed /\ k.id = j.id /\ k.segment = j.segment /\ k.doc = j.doc
  BY <1>1, Onward DEF IngestStep
<1>3. RunDrawn(k)'
  BY <1>1, <1>2 DEF RunDrawn
<1>4. k \notin {Waiting, Done} /\ Working(r)
  BY <1>2 DEF Waiting, Done, Working
<1>5. /\ cameraRecords' \in [Cameras -> CameraRecord] /\ overlapped' \in BOOLEAN
      /\ nextIdentity' \in 1..(MaxIdentities + 1) /\ nextIdentity' >= nextIdentity
      /\ nextSegment' \in 1..(MaxSegments + 1) /\ nextSegment' >= nextSegment
  BY DEF TrajectoryInv, TrajectoryTypes
<1>6. /\ ~ overlapped' => ~ overlapped /\ (Working(r) \/ AtRestNow)
      /\ ~ overlapped' => RunAgrees(r, k)'
      /\ ~ overlapped' /\ k \in {Waiting, Done} => Consistent'
  BY <1>4
<1>. QED BY <1>2, <1>3, <1>5, <1>6, IngestSteps

LEMMA ConsistentStands ==
    ASSUME TrajectoryInv
    PROVE  /\ templates \subseteq SegmentIds \X IdentityIds
           /\ \A s \in SegmentIds : trackSegments[s] # NoSegment => trackSegments[s].identity \in IdentityIds
           /\ \A s \in SegmentIds : s >= nextSegment => trackSegments[s] = NoSegment
           /\ \A i \in IdentityIds : i >= nextIdentity => identities[i] = NoIdentity
           /\ nextIdentity \in Nat /\ nextSegment \in Nat /\ nextIdentity >= 1 /\ nextSegment >= 1
<1>1. TrajectoryTypes /\ Drawn
  BY DEF TrajectoryInv
<1>2. /\ \A s \in SegmentIds : trackSegments[s] # NoSegment => s < nextSegment
      /\ \A i \in IdentityIds : identities[i] # NoIdentity => i < nextIdentity
  BY <1>1 DEF Drawn
<1>3. /\ nextIdentity \in Nat /\ nextSegment \in Nat /\ nextIdentity >= 1 /\ nextSegment >= 1
      /\ templates \subseteq SegmentIds \X IdentityIds
  BY <1>1 DEF TrajectoryTypes
<1>4. \A s \in SegmentIds : s >= nextSegment => trackSegments[s] = NoSegment
  BY <1>2, <1>3, Kinds
<1>5. \A i \in IdentityIds : i >= nextIdentity => identities[i] = NoIdentity
  BY <1>2, <1>3, Kinds
<1>. QED BY <1>1, <1>3, <1>4, <1>5, SegmentsAre, Wholes

LEMMA NothingLoaded ==
    ASSUME TrajectoryInv, NEW r \in Executions, Load(r), ingest' = [ingest EXCEPT ![r] = Done],
           UNCHANGED <<nextIdentity, nextSegment>>
    PROVE  TrajectoryInv'
<1>1. Done \in IngestStep /\ Done.at = "done" /\ RunDrawn(Done) /\ Unclaimed(Done)
  BY DEF IngestStep, Done, RunDrawn, Unclaimed
<1>2. ingest[r].at = "load"
  BY DEF Load
<1>3. /\ UNCHANGED <<identities, trackSegments, templates, transitions, analyst, cut>>
      /\ cameraRecords' = cameraRecords /\ overlapped' = overlapped
  BY DEF Load
<1>. QED BY <1>1, <1>2, <1>3, RunStands, ReadingStep

LEMMA IdentityLoaded ==
    ASSUME TrajectoryInv, NEW r \in Executions, NEW j, j = ingest[r], j.at = "load",
           NEW i \in IdentityIds, NEW method \in {"new_identity", "reid"}, NEW doc \in LongTermIdentity,
           \/ /\ method = "new_identity" /\ i = nextIdentity /\ nextIdentity' = nextIdentity + 1
              /\ doc = NewIdentity(j.window, Recording(r).camera)
           \/ /\ method = "reid" /\ j.chosen = i /\ nextIdentity' = nextIdentity
              /\ identities[i] = doc,
           nextSegment \in SegmentIds, nextSegment' = nextSegment + 1, nextIdentity' <= MaxIdentities + 1,
           NEW k, k = [at |-> "template", todo |-> j.todo, claimed |-> j.claimed, window |-> j.window,
                       method |-> method, id |-> i, segment |-> nextSegment, doc |-> doc],
           ingest' = [ingest EXCEPT ![r] = k],
           UNCHANGED <<identities, trackSegments, templates, cameraRecords, transitions, analyst, overlapped, cut>>
    PROVE  TrajectoryInv'
<1>1. TrajectoryTypes /\ Drawn /\ Apart /\ (~ overlapped => Orderly)
  BY DEF TrajectoryInv
<1>2. /\ j \in IngestStep /\ j \in LoadStep /\ RunDrawn(j) /\ Unclaimed(j)
      /\ (~ overlapped => RunAgrees(r, j))
  BY RunStands, IngestKinds
<1>3. /\ j.todo \in Todo \ {<<>>} /\ j.claimed \in Claims /\ j.window \in Windows /\ j # Waiting /\ j # Done
      /\ j.chosen \in IdentityIds \cup {0}
  BY <1>2 DEF LoadStep, Waiting, Done
<1>4. k \in IngestStep /\ k.at = "template" /\ k \notin {Waiting, Done}
  BY <1>3 DEF IngestStep, WriteStep, Waiting, Done
<1>5. /\ nextIdentity \in Nat /\ nextIdentity >= 1 /\ nextSegment \in Nat /\ nextSegment >= 1 /\ i \in Nat
      /\ nextIdentity' \in 1..(MaxIdentities + 1) /\ nextIdentity' >= nextIdentity
      /\ nextSegment' \in 1..(MaxSegments + 1) /\ nextSegment' >= nextSegment /\ nextSegment < nextSegment'
  <2>1. PICK M \in Nat, N \in Nat : M = MaxIdentities /\ N = MaxSegments
    BY Sizes
  <2>2. nextIdentity \in 1..(M + 1) /\ nextSegment \in 1..N /\ nextIdentity' <= M + 1
    BY <1>1, <2>1 DEF TrajectoryTypes, SegmentIds
  <2>3. i \in Nat
    BY Kinds
  <2>4. nextIdentity' = nextIdentity \/ nextIdentity' = nextIdentity + 1
    OBVIOUS
  <2>. QED BY <2>1, <2>2, <2>3, <2>4
<1>6. ~ Claimed(k, i)
  <2>1. CASE method = "new_identity"
    <3>1. j.claimed[i] = {}
      BY <1>2, <1>5, <2>1 DEF RunDrawn
    <3>. QED BY <3>1 DEF Claimed
  <2>2. CASE method = "reid"
    <3>1. i # 0
      BY Kinds
    <3>2. ~ Claimed(j, i)
      BY <1>2, <2>2, <3>1 DEF Unclaimed
    <3>. QED BY <3>2 DEF Claimed
  <2>. QED BY <2>1, <2>2
<1>7. RunDrawn(k)'
  <2>1. i < nextIdentity' /\ doc.count + 1 < nextSegment'
    <3>1. CASE method = "new_identity"
      <4>1. doc.count = 0
        <5>1. doc = NewIdentity(j.window, Recording(r).camera)
          BY <3>1
        <5>. QED BY <5>1 DEF NewIdentity
      <4>2. i < nextIdentity'
        BY <1>5, <3>1
      <4>. QED BY <1>5, <4>1, <4>2
    <3>2. CASE method = "reid"
      <4>1. identities[i] # NoIdentity
        BY <3>2, Kinds
      <4>2. i < nextIdentity /\ doc.count < nextSegment
        BY <1>1, <3>2, <4>1 DEF Drawn
      <4>3. PICK c \in Int : c = doc.count
        BY Wholes
      <4>4. c + 1 < nextSegment'
        BY <1>5, <4>2, <4>3
      <4>5. i < nextIdentity'
        BY <1>5, <4>2
      <4>. QED BY <4>3, <4>4, <4>5
    <3>. QED BY <3>1, <3>2
  <2>2. \A n \in IdentityIds : n >= nextIdentity' => n >= nextIdentity
    BY <1>5, Kinds
  <2>3. \A n \in IdentityIds : n >= nextIdentity' => j.claimed[n] = {}
    BY <1>2, <2>2 DEF RunDrawn
  <2>. QED BY <1>5, <2>1, <2>3 DEF RunDrawn
<1>8. ingest'[r] = k /\ \A p \in Executions : p # r => ingest'[p] = ingest[p]
  BY <1>1 DEF TrajectoryTypes
<1>9. Apart'
  <2>1. Unclaimed(k)'
    BY <1>6 DEF Unclaimed, Claimed
  <2>2. ASSUME NEW s \in SegmentIds, Holds(j, s)
        PROVE  Holds(k, s)'
    <3>1. Window(s) \in j.claimed[trackSegments[s].identity]
      BY <2>2 DEF Holds
    <3>2. k.claimed = j.claimed
      OBVIOUS
    <3>. QED BY <3>1, <3>2 DEF Holds, Window
  <2>3. Unclaimed(ingest[r])' /\ ingest'[r] # Waiting /\ ingest[r] # Done
    BY <1>3, <1>4, <1>8, <2>1
  <2>4. ASSUME NEW s \in SegmentIds, Holds(ingest[r], s)
        PROVE  Holds(ingest[r], s)'
    BY <1>8, <2>2, <2>4
  <2>. QED BY <1>1, <1>8, <2>3, <2>4, ApartStep
<1>10. ~ overlapped' => RunAgrees(r, k)'
  <2>1. SUFFICES ASSUME ~ overlapped PROVE RunAgrees(r, k)'
    OBVIOUS
  <2>2. Consistent
    BY <1>2, <2>1 DEF RunAgrees
  <2>3. ConsistentBut({}, {}, {})'
    BY <2>2, ConsistentStands, StillConsistent DEF Consistent
  <2>4. trackSegments[nextSegment] = NoSegment
    BY <1>5, ConsistentStands
  <2>5. method = "new_identity" => identities[i] = NoIdentity
    BY <1>5, ConsistentStands
  <2>6. /\ k.segment = nextSegment /\ k.method = method /\ k.id = i /\ k.doc = doc /\ k.window = j.window
    OBVIOUS
  <2>7. Unwritten(r, k)'
    BY <2>4, <2>5, <2>6 DEF Unwritten, NewIdentity
  <2>. QED BY <1>4, <2>3, <2>7 DEF RunAgrees, Consistent
<1>11. Working(r)
  BY <1>3 DEF Working
<1>12. /\ identities' \in [IdentityIds -> LongTermIdentity \cup {NoIdentity}]
       /\ trackSegments' \in [SegmentIds -> TrajectorySegment \cup {NoSegment}]
       /\ templates' \subseteq SegmentIds \X IdentityIds /\ cameraRecords' \in [Cameras -> CameraRecord]
       /\ overlapped' \in BOOLEAN
  BY <1>1 DEF TrajectoryTypes
<1>. QED BY <1>4, <1>5, <1>7, <1>9, <1>10, <1>11, <1>12, IngestSteps

LEMMA CandidateLoaded ==
    ASSUME TrajectoryInv, NEW r \in Executions, Load(r)
    PROVE  TrajectoryInv'
<1>1. PICK j \in IngestStep : j = ingest[r]
  BY RunStands
<1>2. j.at = "load" /\ j \in LoadStep
  BY <1>1, IngestKinds DEF Load
<1>3. j.chosen \in IdentityIds \cup {0} /\ j.window \in Windows
  BY <1>2 DEF LoadStep
<1>4. CASE j.chosen # 0 /\ identities[j.chosen] = NoIdentity
  <2>1. ingest' = [ingest EXCEPT ![r] = Done] /\ UNCHANGED <<nextIdentity, nextSegment>>
    BY <1>1, <1>4 DEF Load, Works
  <2>. QED BY <2>1, NothingLoaded
<1>5. CASE ~(j.chosen # 0 /\ identities[j.chosen] = NoIdentity)
  <2>1. PICK i, method, doc :
           /\ method = (IF j.chosen = 0 THEN "new_identity" ELSE "reid")
           /\ i = (IF j.chosen = 0 THEN nextIdentity ELSE j.chosen)
           /\ doc = (IF j.chosen = 0 THEN NewIdentity(j.window, Recording(r).camera) ELSE identities[j.chosen])
    OBVIOUS
  <2>2. PICK k : k = [at |-> "template", todo |-> j.todo, claimed |-> j.claimed, window |-> j.window,
                      method |-> method, id |-> i, segment |-> nextSegment, doc |-> doc]
    OBVIOUS
  <2>3. /\ nextIdentity' = IF j.chosen = 0 THEN nextIdentity + 1 ELSE nextIdentity
        /\ nextSegment' = nextSegment + 1 /\ nextIdentity' <= MaxIdentities + 1 /\ nextSegment <= MaxSegments
        /\ UNCHANGED <<identities, trackSegments, templates, cameraRecords, transitions, analyst, overlapped, cut>>
    BY <1>1, <1>5 DEF Load
  <2>4. ingest' = [ingest EXCEPT ![r] = k]
    BY <1>1, <1>5, <2>1, <2>2 DEF Load, Works
  <2>5. nextSegment \in SegmentIds
    <3>1. PICK N \in Nat : N = MaxSegments
      BY Sizes
    <3>. QED BY <2>3, <3>1, ConsistentStands DEF SegmentIds
  <2>6. CASE j.chosen = 0
    <3>1. i \in IdentityIds
      <4>1. PICK M \in Nat : M = MaxIdentities
        BY Sizes
      <4>. QED BY <2>1, <2>3, <2>6, <4>1, ConsistentStands DEF IdentityIds
    <3>2. doc \in LongTermIdentity
      <4>1. PICK c \in Cameras \cup {""} : c = Recording(r).camera
        BY ExecutionIs
      <4>2. PICK a \in Int, b \in Int : a = j.window[1] /\ b = j.window[2]
        BY <1>3 DEF Windows
      <4>3. doc = [status |-> "auto", count |-> 0, cameras |-> {c} \ {""}, first |-> a, last |-> b, last_camera |-> c]
        BY <2>1, <2>6, <4>1, <4>2 DEF NewIdentity
      <4>4. 0 \in 0..(MaxSegments + 1)
        BY Wholes
      <4>5. {c} \ {""} \in SUBSET Cameras
        OBVIOUS
      <4>. QED BY <4>3, <4>4, <4>5 DEF LongTermIdentity
    <3>. QED BY <1>1, <1>2, <2>1, <2>2, <2>3, <2>4, <2>5, <2>6, <3>1, <3>2, IdentityLoaded
  <2>7. CASE j.chosen # 0
    <3>1. i \in IdentityIds /\ doc = identities[i] /\ doc # NoIdentity /\ method = "reid" /\ j.chosen = i
      BY <1>3, <1>5, <2>1, <2>7
    <3>2. doc \in LongTermIdentity
      BY <3>1 DEF TrajectoryInv, TrajectoryTypes
    <3>. QED BY <1>1, <1>2, <2>2, <2>3, <2>4, <2>5, <2>7, <3>1, <3>2, IdentityLoaded
  <2>. QED BY <2>6, <2>7
<1>. QED BY <1>4, <1>5

LEMMA TemplatesStored ==
    ASSUME TrajectoryInv, NEW r \in Executions, _store_templates(r)
    PROVE  TrajectoryInv'
<1>1. PICK j : j = ingest[r]
  OBVIOUS
<1>2. j.at = "template"
  BY <1>1 DEF _store_templates
<1>3. /\ j \in WriteStep /\ j \in IngestStep /\ j.id \in IdentityIds /\ j.segment \in SegmentIds
      /\ Unclaimed(j) /\ (~ overlapped => RunAgrees(r, j)) /\ j.method \in {"new_identity", "reid"}
  BY <1>1, <1>2, WriterStands
<1>4. PICK k : k = [j EXCEPT !.at = "segment"]
  OBVIOUS
<1>5. /\ ingest' = [ingest EXCEPT ![r] = k] /\ templates' = templates \cup {<<j.segment, j.id>>}
      /\ UNCHANGED <<identities, trackSegments, cameraRecords, transitions, analyst, nextIdentity, nextSegment,
                     overlapped, cut>>
  BY <1>1, <1>4 DEF _store_templates, Works
<1>6. /\ k.at = "segment" /\ k.claimed = j.claimed /\ k.window = j.window /\ k.method = j.method
      /\ k.id = j.id /\ k.segment = j.segment /\ k.doc = j.doc
  BY <1>3, <1>4, Onward
<1>7. TrajectoryTypes /\ Apart
  BY DEF TrajectoryInv
<1>8. ingest'[r] = k /\ \A p \in Executions : p # r => ingest'[p] = ingest[p]
  BY <1>5, <1>7 DEF TrajectoryTypes
<1>9. j # Waiting /\ j # Done /\ k # Waiting
  BY <1>2, <1>6 DEF Waiting, Done
<1>10. Apart'
  <2>1. Unclaimed(k)'
    BY <1>2, <1>3, <1>6 DEF Unclaimed, Claimed
  <2>2. ASSUME NEW s \in SegmentIds, Holds(j, s)
        PROVE  Holds(k, s)'
    <3>1. Window(s) \in j.claimed[trackSegments[s].identity]
      BY <1>2, <2>2 DEF Holds
    <3>. QED BY <1>5, <1>6, <3>1 DEF Holds, Window
  <2>3. Unclaimed(ingest[r])' /\ ingest'[r] # Waiting /\ ingest[r] # Done
    BY <1>1, <1>8, <1>9, <2>1
  <2>4. ASSUME NEW s \in SegmentIds, Holds(ingest[r], s)
        PROVE  Holds(ingest[r], s)'
    BY <1>1, <1>8, <2>2, <2>4
  <2>5. \A s \in SegmentIds : trackSegments'[s] = trackSegments[s]
    BY <1>5
  <2>. QED BY <1>7, <1>8, <2>3, <2>4, <2>5, ApartStep
<1>11. ASSUME ~ overlapped
       PROVE  RunAgrees(r, k)'
  <2>1. ConsistentBut({}, {}, {}) /\ Unwritten(r, j)
    BY <1>2, <1>3, <1>11 DEF RunAgrees, Consistent
  <2>2. ConsistentBut({}, {}, {<<j.segment, j.id>>})'
    <3>1. \A i : SegmentsOf(i)' = SegmentsOf(i)
      BY <1>5 DEF SegmentsOf
    <3>2. ASSUME NEW i \in IdentityIds \ cut, identities'[i] # NoIdentity
          PROVE  ExactOf(identities[i], SegmentsOf(i))'
      <4>0. SegmentsOf(i) \in SUBSET SegmentIds
        BY DEF SegmentsOf
      <4>1. PICK doc, S : doc = identities[i] /\ S = SegmentsOf(i) /\ S \in SUBSET SegmentIds
        BY <4>0
      <4>2. ExactOf(doc, S)
        BY <1>5, <2>1, <3>2, <4>1 DEF ConsistentBut
      <4>3. ExactOf(doc, S)'
        BY <1>5, <4>1, <4>2, StillExact
      <4>. QED BY <1>5, <3>1, <4>1, <4>3
    <3>3. \A s \in SegmentIds : trackSegments'[s] # NoSegment /\ trackSegments'[s].identity \notin cut =>
              identities'[trackSegments'[s].identity] # NoIdentity
      BY <1>5, <2>1 DEF ConsistentBut
    <3>4. \A t \in templates' \ {<<j.segment, j.id>>} : trackSegments'[t[1]].identity = t[2]
      BY <1>5, <2>1 DEF ConsistentBut
    <3>. QED BY <1>5, <3>2, <3>3, <3>4 DEF ConsistentBut
  <2>3. Unwritten(r, k)'
    BY <1>5, <1>6, <2>1 DEF Unwritten, NewIdentity
  <2>. QED BY <1>6, <2>2, <2>3 DEF RunAgrees
<1>12. /\ identities' \in [IdentityIds -> LongTermIdentity \cup {NoIdentity}]
       /\ trackSegments' \in [SegmentIds -> TrajectorySegment \cup {NoSegment}]
       /\ templates' \subseteq SegmentIds \X IdentityIds
  BY <1>3, <1>5, <1>7 DEF TrajectoryTypes
<1>. QED BY <1>1, <1>2, <1>4, <1>5, <1>10, <1>11, <1>12, WritingStep

LEMMA SegmentApart ==
    ASSUME TrajectoryInv, NEW r \in Executions, put_segment(r)
    PROVE  Apart'
<1>1. PICK j : j = ingest[r]
  OBVIOUS
<1>2. j.at = "segment"
  BY <1>1 DEF put_segment
<1>3. /\ j \in WriteStep /\ j.id \in IdentityIds /\ j.segment \in SegmentIds /\ Unclaimed(j)
      /\ j.window \in Windows /\ j.method \in {"new_identity", "reid"}
  BY <1>1, <1>2, WriterStands
<1>4. PICK k : k = [j EXCEPT !.at = "identity"]
  OBVIOUS
<1>5. PICK g : g = TrackSegment(r)
  OBVIOUS
<1>6. /\ g.identity = j.id /\ g.execution = r /\ <<g.first, g.last>> = j.window /\ g.method # "manual" /\ g # NoSegment
  <2>1. /\ g \in TrajectorySegment /\ g.identity = j.id /\ g.execution = r /\ g.first = j.window[1]
        /\ g.last = j.window[2] /\ g.method = j.method
    BY <1>1, <1>2, <1>5, TrackSegmentIs
  <2>2. j.window = <<j.window[1], j.window[2]>>
    BY <1>3 DEF Windows
  <2>. QED BY <1>3, <2>1, <2>2, Kinds
<1>7. /\ k.at = "identity" /\ k.claimed = j.claimed /\ k.window = j.window /\ k.id = j.id
  BY <1>3, <1>4, Onward
<1>8. TrajectoryTypes /\ Apart
  BY DEF TrajectoryInv
<1>9. /\ ingest'[r] = k /\ \A p \in Executions : p # r => ingest'[p] = ingest[p]
      /\ trackSegments'[j.segment] = g
      /\ \A s \in SegmentIds : s # j.segment => trackSegments'[s] = trackSegments[s]
  BY <1>1, <1>3, <1>4, <1>5, <1>8 DEF put_segment, Works, TrajectoryTypes
<1>10. j # Waiting /\ j # Done /\ k # Waiting /\ k # Done
  BY <1>2, <1>7 DEF Waiting, Done
<1>11. ASSUME NEW p \in Executions
       PROVE  Unclaimed(ingest[p])'
  <2>1. Unclaimed(ingest[p])
    BY <1>8 DEF Apart
  <2>2. CASE p = r
    BY <1>7, <1>9, <2>2 DEF Unclaimed
  <2>3. CASE p # r
    BY <1>9, <2>1, <2>3 DEF Unclaimed, Claimed
  <2>. QED BY <2>2, <2>3
<1>12. ASSUME NEW s \in SegmentIds, s # j.segment, Matched(s)'
       PROVE  /\ Matched(s) /\ trackSegments'[s] = trackSegments[s] /\ trackSegments[s].execution \in Executions
              /\ trackSegments[s].identity \in IdentityIds
              /\ ingest[trackSegments[s].execution] # Waiting
              /\ ingest[trackSegments[s].execution] # Done => Holds(ingest[trackSegments[s].execution], s)
  <2>1. Matched(s) /\ trackSegments'[s] = trackSegments[s]
    BY <1>9, <1>12 DEF Matched
  <2>2. trackSegments[s].execution \in Executions /\ trackSegments[s].identity \in IdentityIds
    BY <1>8, <2>1, SegmentsAre DEF Matched, TrajectorySegment
  <2>. QED BY <1>8, <2>1, <2>2 DEF Apart
<1>13. ASSUME NEW s \in SegmentIds, s # j.segment, Matched(s)', trackSegments[s].execution = r
       PROVE  Window(s) \in j.claimed[trackSegments[s].identity]
  <2>1. Holds(j, s)
    BY <1>1, <1>10, <1>12, <1>13
  <2>. QED BY <1>2, <2>1 DEF Holds
<1>14. ASSUME NEW s \in SegmentIds, Matched(s)'
       PROVE  (LET p == trackSegments[s].execution IN ingest[p] # Waiting /\ (ingest[p] # Done => Holds(ingest[p], s)))'
  <2>1. CASE s = j.segment
    <3>1. trackSegments'[s].execution = r
      BY <1>6, <1>9, <2>1
    <3>2. Holds(k, s)'
      BY <1>6, <1>7, <1>9, <2>1 DEF Holds, Window
    <3>. QED BY <1>9, <1>10, <3>1, <3>2
  <2>2. CASE s # j.segment
    <3>1. PICK p \in Executions : p = trackSegments[s].execution
      BY <1>12, <1>14, <2>2
    <3>2. trackSegments'[s] = trackSegments[s] /\ ingest[p] # Waiting /\ (ingest[p] # Done => Holds(ingest[p], s))
      BY <1>12, <1>14, <2>2, <3>1
    <3>3. CASE p = r
      <4>1. Window(s) \in j.claimed[trackSegments[s].identity]
        BY <1>13, <1>14, <2>2, <3>1, <3>3
      <4>2. Holds(k, s)'
        BY <1>7, <3>2, <4>1 DEF Holds, Window
      <4>. QED BY <1>9, <1>10, <3>1, <3>2, <3>3, <4>2
    <3>4. CASE p # r
      <4>1. ingest'[p] = ingest[p]
        BY <1>9, <3>4
      <4>2. Holds(ingest[p], s) => Holds(ingest[p], s)'
        BY <3>2, <4>1 DEF Holds, Window
      <4>. QED BY <3>1, <3>2, <4>1, <4>2
    <3>. QED BY <3>3, <3>4
  <2>. QED BY <2>1, <2>2
<1>15. ASSUME NEW t \in SegmentIds, t # j.segment, Matched(t)', trackSegments'[t].execution = r,
              trackSegments'[t].identity = j.id
       PROVE  /\ ~ _windows_overlap(Window(j.segment)', Window(t)')
              /\ ~ _windows_overlap(Window(t)', Window(j.segment)')
  <2>1. trackSegments'[t] = trackSegments[t]
    BY <1>12, <1>15
  <2>2. Window(t) \in j.claimed[j.id]
    BY <1>13, <1>15, <2>1
  <2>3. ~ _windows_overlap(j.window, Window(t))
    BY <1>2, <1>3, <2>2 DEF Unclaimed, Claimed
  <2>4. Window(t)' = Window(t) /\ Window(j.segment)' = j.window
    BY <1>6, <1>9, <2>1 DEF Window
  <2>5. ~ _windows_overlap(Window(t), j.window)
    BY <2>3 DEF _windows_overlap
  <2>. QED BY <2>3, <2>4, <2>5
<1>16. ASSUME NEW s \in SegmentIds, NEW t \in SegmentIds, s # t, Matched(s)', Matched(t)',
              trackSegments'[s].execution = trackSegments'[t].execution, trackSegments'[s].identity = trackSegments'[t].identity
       PROVE  ~ _windows_overlap(Window(s)', Window(t)')
  <2>1. CASE s = j.segment
    BY <1>6, <1>9, <1>15, <1>16, <2>1
  <2>2. CASE t = j.segment
    BY <1>6, <1>9, <1>15, <1>16, <2>2
  <2>3. CASE s # j.segment /\ t # j.segment
    <3>1. /\ Matched(s) /\ trackSegments'[s] = trackSegments[s]
          /\ Matched(t) /\ trackSegments'[t] = trackSegments[t]
      BY <1>12, <1>16, <2>3
    <3>2. ~ _windows_overlap(Window(s), Window(t))
      BY <1>8, <1>16, <3>1 DEF Apart
    <3>. QED BY <3>1, <3>2 DEF Window
  <2>. QED BY <2>1, <2>2, <2>3
<1>. QED BY <1>11, <1>14, <1>16 DEF Apart

LEMMA SegmentStored ==
    ASSUME TrajectoryInv, NEW r \in Executions, put_segment(r)
    PROVE  TrajectoryInv'
<1>1. PICK j : j = ingest[r]
  OBVIOUS
<1>2. j.at = "segment"
  BY <1>1 DEF put_segment
<1>3. /\ j \in WriteStep /\ j.id \in IdentityIds /\ j.segment \in SegmentIds /\ j.doc \in LongTermIdentity
      /\ j.window \in Windows /\ j.method \in {"new_identity", "reid"}
      /\ j.id < nextIdentity /\ j.segment < nextSegment /\ (~ overlapped => RunAgrees(r, j))
  BY <1>1, <1>2, WriterStands
<1>4. PICK k : k = [j EXCEPT !.at = "identity"]
  OBVIOUS
<1>5. PICK g : g = TrackSegment(r)
  OBVIOUS
<1>6. g \in TrajectorySegment /\ g.identity = j.id /\ g.feature = j.id /\ g # NoSegment
  BY <1>1, <1>2, <1>5, TrackSegmentIs, Kinds
<1>7. /\ k.at = "identity" /\ k.todo = j.todo /\ k.window = j.window /\ k.method = j.method /\ k.id = j.id
      /\ k.segment = j.segment /\ k.doc = j.doc
  BY <1>3, <1>4, Onward
<1>8. TrajectoryTypes
  BY DEF TrajectoryInv
<1>9. /\ ingest' = [ingest EXCEPT ![r] = k] /\ trackSegments' = [trackSegments EXCEPT ![j.segment] = g]
      /\ UNCHANGED <<identities, templates, cameraRecords, transitions, analyst, nextIdentity, nextSegment,
                     overlapped, cut>>
  BY <1>1, <1>4, <1>5 DEF put_segment, Works
<1>10. /\ trackSegments'[j.segment] = g /\ ingest'[r] = k
       /\ \A s \in SegmentIds : s # j.segment => trackSegments'[s] = trackSegments[s]
  BY <1>3, <1>8, <1>9 DEF TrajectoryTypes
<1>11. Apart'
  BY SegmentApart
<1>12. ASSUME ~ overlapped
       PROVE  RunAgrees(r, k)'
  <2>1. ConsistentBut({}, {}, {<<j.segment, j.id>>}) /\ Unwritten(r, j)
    BY <1>2, <1>3, <1>12 DEF RunAgrees
  <2>2. trackSegments[j.segment] = NoSegment
    BY <2>1 DEF Unwritten
  <2>3. /\ \A i \in IdentityIds : i # j.id => SegmentsOf(i)' = SegmentsOf(i)
        /\ SegmentsOf(j.id)' = SegmentsOf(j.id) \cup {j.segment}
        /\ \A i \in IdentityIds : j.segment \notin SegmentsOf(i) /\ SegmentsOf(i) \in SUBSET SegmentIds
    BY <1>3, <1>6, <1>10, <2>2, Kinds DEF SegmentsOf
  <2>4. ASSUME NEW doc, NEW S \in SUBSET SegmentIds, j.segment \notin S, ExactOf(doc, S)
        PROVE  ExactOf(doc, S)'
    <3>1. \A s \in S : trackSegments'[s] = trackSegments[s]
      BY <1>10, <2>4
    <3>. QED BY <2>4, <3>1, StillExact
  <2>5. ConsistentBut({j.id}, {j.id}, {})'
    <3>1. ASSUME NEW i \in IdentityIds \ ({j.id} \cup cut), identities'[i] # NoIdentity
          PROVE  ExactOf(identities[i], SegmentsOf(i))'
      <4>1. PICK doc, S : doc = identities[i] /\ S = SegmentsOf(i)
        OBVIOUS
      <4>2. ExactOf(doc, S)
        BY <1>9, <2>1, <3>1, <4>1 DEF ConsistentBut
      <4>3. S \in SUBSET SegmentIds /\ j.segment \notin S
        BY <2>3, <4>1
      <4>4. ExactOf(doc, S)'
        BY <2>4, <4>2, <4>3
      <4>5. doc = identities'[i] /\ S = SegmentsOf(i)'
        BY <1>9, <2>3, <4>1
      <4>. QED BY <4>4, <4>5
    <3>2. \A s \in SegmentIds : trackSegments'[s] # NoSegment /\ trackSegments'[s].identity \notin {j.id} \cup cut =>
              identities'[trackSegments'[s].identity] # NoIdentity
      <4>1. ASSUME NEW s \in SegmentIds, trackSegments'[s] # NoSegment,
                   trackSegments'[s].identity \notin {j.id} \cup cut
            PROVE  identities'[trackSegments'[s].identity] # NoIdentity
        <5>1. s # j.segment
          BY <1>6, <1>10, <4>1
        <5>2. trackSegments'[s] = trackSegments[s]
          BY <1>10, <5>1
        <5>. QED BY <1>9, <2>1, <4>1, <5>2 DEF ConsistentBut
      <4>. QED BY <4>1
    <3>3. \A t \in templates' : trackSegments'[t[1]].identity = t[2]
      <4>1. ASSUME NEW t \in templates'
            PROVE  trackSegments'[t[1]].identity = t[2]
        <5>1. t \in templates /\ t[1] \in SegmentIds /\ t[2] \in IdentityIds /\ t = <<t[1], t[2]>>
          BY <1>8, <1>9 DEF TrajectoryTypes
        <5>2. CASE t = <<j.segment, j.id>>
          <6>1. t[1] = j.segment /\ t[2] = j.id
            BY <5>2
          <6>. QED BY <1>6, <1>10, <6>1
        <5>3. CASE t # <<j.segment, j.id>>
          <6>1. trackSegments[t[1]].identity = t[2]
            BY <2>1, <5>1, <5>3 DEF ConsistentBut
          <6>2. t[1] # j.segment
            BY <2>2, <5>1, <6>1, Kinds
          <6>. QED BY <1>10, <5>1, <6>1, <6>2
        <5>. QED BY <5>2, <5>3
      <4>. QED BY <4>1
    <3>. QED BY <1>9, <3>1, <3>2, <3>3 DEF ConsistentBut
  <2>6. TrackSegment(r)' = g
    <3>1. ingest[r] = j /\ ingest'[r] = k
      BY <1>1, <1>10
    <3>. QED BY <1>5, <1>7, <3>1 DEF TrackSegment
  <2>7. \/ SegmentsOf(j.id)' = {j.segment} /\ j.doc = NewIdentity(j.window, Recording(r).camera)
        \/ j.id \notin cut => ExactOf(j.doc, SegmentsOf(j.id) \ {j.segment})'
    <3>0. SUFFICES ASSUME j.id \notin cut
                   PROVE  \/ SegmentsOf(j.id)' = {j.segment} /\ j.doc = NewIdentity(j.window, Recording(r).camera)
                          \/ ExactOf(j.doc, SegmentsOf(j.id) \ {j.segment})'
      OBVIOUS
    <3>1. CASE j.method = "new_identity"
      <4>1. identities[j.id] = NoIdentity /\ j.doc = NewIdentity(j.window, Recording(r).camera)
        BY <2>1, <3>1 DEF Unwritten
      <4>2. SegmentsOf(j.id) = {}
        <5>1. ASSUME NEW s \in SegmentsOf(j.id)
              PROVE  FALSE
          <6>1. s \in SegmentIds /\ trackSegments[s] # NoSegment /\ trackSegments[s].identity = j.id
            BY <1>3, <1>8, SegmentsAre
          <6>. QED BY <2>1, <3>0, <4>1, <6>1 DEF ConsistentBut
        <5>. QED BY <5>1
      <4>. QED BY <2>3, <4>1, <4>2
    <3>2. CASE j.method = "reid"
      <4>1. identities[j.id] = j.doc /\ j.doc # NoIdentity
        BY <1>3, <2>1, <3>2, Kinds DEF Unwritten
      <4>2. PICK S : S = SegmentsOf(j.id)
        OBVIOUS
      <4>3. S \in SUBSET SegmentIds /\ j.segment \notin S /\ SegmentsOf(j.id)' \ {j.segment} = S
        BY <1>3, <2>3, <4>2
      <4>4. ExactOf(j.doc, S)
        BY <1>3, <2>1, <3>0, <4>1, <4>2 DEF ConsistentBut
      <4>5. ExactOf(j.doc, S)'
        BY <2>4, <4>3, <4>4
      <4>. QED BY <4>3, <4>5
    <3>. QED BY <1>3, <3>1, <3>2
  <2>8. Uncounted(r, k)'
    BY <1>7, <1>9, <1>10, <2>6, <2>7 DEF Uncounted, NewIdentity
  <2>. QED BY <1>7, <2>5, <2>8 DEF RunAgrees
<1>13. /\ trackSegments' \in [SegmentIds -> TrajectorySegment \cup {NoSegment}]
       /\ identities' \in [IdentityIds -> LongTermIdentity \cup {NoIdentity}]
       /\ templates' \subseteq SegmentIds \X IdentityIds
  BY <1>6, <1>8, <1>9 DEF TrajectoryTypes
<1>14. \A s \in SegmentIds : \/ trackSegments'[s] \in {trackSegments[s], NoSegment}
                             \/ s < nextSegment' /\ Numbered(trackSegments[s])'
  <2>1. Numbered(trackSegments[j.segment])'
    BY <1>3, <1>6, <1>9, <1>10 DEF Numbered
  <2>. QED BY <1>3, <1>9, <1>10, <2>1
<1>. QED BY <1>1, <1>2, <1>4, <1>9, <1>11, <1>12, <1>13, <1>14, WritingStep

LEMMA OfTwo ==
    ASSUME NEW a \in Int, NEW b \in Int
    PROVE  /\ Max({a, b}) \in {a, b} /\ a <= Max({a, b}) /\ b <= Max({a, b})
           /\ Min({a, b}) \in {a, b} /\ Min({a, b}) <= a /\ Min({a, b}) <= b
<1>1. IsFiniteSet({a, b})
  <2>1. IsFiniteSet({a} \cup {b})
    BY FS_Singleton, FS_Union
  <2>2. {a} \cup {b} = {a, b}
    OBVIOUS
  <2>. QED BY <2>1, <2>2
<1>2. PICK V \in SUBSET Int : V = {a, b}
  OBVIOUS
<1>3. IsFiniteSet(V) /\ V # {} /\ a \in V /\ b \in V
  BY <1>1, <1>2
<1>4. Max(V) \in V /\ \A x \in V : x <= Max(V)
  BY <1>3, MaxIs
<1>5. Min(V) \in V /\ \A x \in V : Min(V) <= x
  BY <1>3, MinIs
<1>. QED BY <1>2, <1>3, <1>4, <1>5

LEMMA ApplyIs ==
    ASSUME NEW doc \in LongTermIdentity, NEW g \in TrajectorySegment, NEW n \in 1..(MaxSegments + 1),
           doc.count + 1 < n
    PROVE  /\ _apply_segment(doc, g) \in LongTermIdentity /\ _apply_segment(doc, g).count = doc.count + 1
           /\ _apply_segment(doc, g).cameras = doc.cameras \cup ({g.camera} \ {""})
           /\ _apply_segment(doc, g).first = Min({doc.first, g.first})
           /\ _apply_segment(doc, g).last = Max({doc.last, g.last})
           /\ _apply_segment(doc, g).last_camera =
                 IF Max({doc.last, g.last}) = g.last THEN g.camera ELSE doc.last_camera
<1>1. PICK a \in Int, b \in Int, c \in Int, d \in Int : a = doc.first /\ b = g.first /\ c = doc.last /\ d = g.last
  BY Wholes
<1>2. PICK f \in Int, l \in Int : f = Min({a, b}) /\ l = Max({c, d})
  BY OfTwo
<1>3. PICK st, cs, ca, lc, count :
         /\ st = doc.status /\ cs = doc.cameras \cup ({g.camera} \ {""}) /\ count = doc.count + 1
         /\ lc = (IF l = d THEN g.camera ELSE doc.last_camera)
  OBVIOUS
<1>4. PICK x : x = _apply_segment(doc, g)
  OBVIOUS
<1>5. x = [status |-> st, count |-> count, cameras |-> cs, first |-> f, last |-> l, last_camera |-> lc]
  BY <1>1, <1>2, <1>3, <1>4 DEF _apply_segment
<1>6. st \in {"auto", "confirmed", "rejected"} /\ cs \in SUBSET Cameras /\ lc \in Cameras \cup {""}
  BY <1>3 DEF LongTermIdentity, TrajectorySegment
<1>7. count \in 0..(MaxSegments + 1)
  <2>1. PICK M \in Nat : M = MaxSegments
    BY Sizes
  <2>2. PICK k \in 0..(M + 1) : k = doc.count
    BY <2>1 DEF LongTermIdentity
  <2>3. n \in 1..(M + 1) /\ k + 1 < n
    BY <2>1, <2>2
  <2>4. k + 1 \in 0..(M + 1)
    BY <2>3
  <2>. QED BY <1>3, <2>1, <2>2, <2>4
<1>8. x \in LongTermIdentity
  BY <1>5, <1>6, <1>7 DEF LongTermIdentity
<1>9. /\ x.count = count /\ x.cameras = cs /\ x.first = f /\ x.last = l /\ x.last_camera = lc
  BY <1>5
<1>. QED BY <1>1, <1>2, <1>3, <1>4, <1>8, <1>9

\* One more segment counted.
LEMMA ApplyExact ==
    ASSUME NEW doc \in LongTermIdentity, NEW S \in SUBSET SegmentIds, IsFiniteSet(S), NEW s \in S,
           \A t \in S : trackSegments[t] \in TrajectorySegment,
           NEW g, g = trackSegments[s], NEW n \in 1..(MaxSegments + 1), doc.count + 1 < n,
           \/ S = {s} /\ doc = NewIdentity(<<g.first, g.last>>, g.camera)
           \/ ExactOf(doc, S \ {s})
    PROVE  ExactOf(_apply_segment(doc, g), S)
<1>0. g \in TrajectorySegment
  OBVIOUS
<1>1. PICK x : x = _apply_segment(doc, g)
  OBVIOUS
<1>2. PICK a \in Int, b \in Int, c \in Int, d \in Int : a = doc.first /\ b = g.first /\ c = doc.last /\ d = g.last
  BY <1>0, Wholes
<1>3. /\ x.count = doc.count + 1 /\ x.cameras = doc.cameras \cup ({g.camera} \ {""})
      /\ x.first = Min({a, b}) /\ x.last = Max({c, d})
      /\ x.last_camera = IF x.last = d THEN g.camera ELSE doc.last_camera
  <2>1. /\ x.count = doc.count + 1 /\ x.cameras = doc.cameras \cup ({g.camera} \ {""})
        /\ x.first = Min({doc.first, g.first}) /\ x.last = Max({doc.last, g.last})
        /\ x.last_camera = IF Max({doc.last, g.last}) = g.last THEN g.camera ELSE doc.last_camera
    BY <1>0, <1>1, ApplyIs
  <2>. QED BY <1>2, <2>1
<1>4. PICK V, W : V = {trackSegments[t].first : t \in S} /\ W = {trackSegments[t].last : t \in S}
  OBVIOUS
<1>5. V \in SUBSET Int /\ W \in SUBSET Int /\ b \in V /\ d \in W
  BY <1>2, <1>4, Wholes
<1>6. /\ x.first \in {a, b} /\ x.first <= a /\ x.first <= b /\ x.first \in Int
      /\ x.last \in {c, d} /\ c <= x.last /\ d <= x.last /\ x.last \in Int
  <2>1. PICK f, l : f = Min({a, b}) /\ l = Max({c, d})
    OBVIOUS
  <2>2. /\ f \in {a, b} /\ f <= a /\ f <= b
        /\ l \in {c, d} /\ c <= l /\ d <= l
    BY <2>1, OfTwo
  <2>3. x.first = f /\ x.last = l
    BY <1>3, <2>1
  <2>. QED BY <2>2, <2>3
<1>7. CASE S = {s} /\ doc = NewIdentity(<<g.first, g.last>>, g.camera)
  <2>1. doc.count = 0 /\ doc.cameras = {g.camera} \ {""} /\ a = b /\ c = d
    BY <1>2, <1>7 DEF NewIdentity
  <2>2. Cardinality(S) = 1
    BY <1>7, FS_Singleton
  <2>3. x.count = Cardinality(S) /\ x.cameras = {trackSegments[t].camera : t \in S} \ {""}
    <3>1. x.count = 0 + 1
      BY <1>3, <2>1
    <3>2. x.cameras = {g.camera} \ {""}
      BY <1>3, <2>1
    <3>3. {trackSegments[t].camera : t \in S} = {g.camera}
      BY <1>7
    <3>4. x.count = 1
      BY <3>1
    <3>5. x.count = Cardinality(S)
      BY <2>2, <3>4
    <3>. QED BY <3>2, <3>3, <3>5
  <2>4. V = {b} /\ W = {d} /\ x.first = b /\ x.last = d
    <3>1. V = {b}
      BY <1>2, <1>4, <1>7
    <3>2. W = {d}
      BY <1>2, <1>4, <1>7
    <3>3. x.first = b /\ x.last = d
      BY <1>6, <2>1
    <3>. QED BY <3>1, <3>2, <3>3
  <2>5. Min(V) = x.first /\ Max(W) = x.last
    BY <1>3, <2>1, <2>4
  <2>6. trackSegments[s].last = x.last /\ trackSegments[s].camera = x.last_camera
    BY <1>2, <1>3, <2>4
  <2>. QED BY <1>1, <1>4, <2>3, <2>5, <2>6 DEF ExactOf
<1>8. CASE ExactOf(doc, S \ {s})
  <2>1. PICK R : R = S \ {s}
    OBVIOUS
  <2>2. /\ R # {} /\ doc.count = Cardinality(R) /\ doc.cameras = {trackSegments[t].camera : t \in R} \ {""}
        /\ a = Min({trackSegments[t].first : t \in R}) /\ c = Max({trackSegments[t].last : t \in R})
        /\ \E t \in R : trackSegments[t].last = c /\ trackSegments[t].camera = doc.last_camera
    BY <1>2, <1>8, <2>1 DEF ExactOf
  <2>3. x.count = Cardinality(S)
    <3>1. IsFiniteSet(R) /\ Cardinality(R) = Cardinality(S) - 1
      BY <2>1, FS_RemoveElement
    <3>2. PICK m \in Nat : m = Cardinality(S)
      BY FS_CardinalityType
    <3>3. doc.count = m - 1
      BY <2>2, <3>1, <3>2
    <3>4. x.count = m - 1 + 1
      BY <1>3, <3>3
    <3>5. m - 1 + 1 = m
      OBVIOUS
    <3>. QED BY <3>2, <3>4, <3>5
  <2>4. x.cameras = {trackSegments[t].camera : t \in S} \ {""}
    BY <1>3, <2>1, <2>2
  <2>5. PICK P, Q : P = {trackSegments[t].first : t \in R} /\ Q = {trackSegments[t].last : t \in R}
    OBVIOUS
  <2>6. /\ P \in SUBSET Int /\ Q \in SUBSET Int /\ P # {} /\ Q # {}
        /\ V = P \cup {b} /\ W = Q \cup {d}
    <3>1. V = P \cup {b} /\ W = Q \cup {d}
      BY <1>2, <1>4, <2>1, <2>5
    <3>2. P # {} /\ Q # {}
      <4>1. PICK t \in R : TRUE
        BY <2>2
      <4>2. trackSegments[t].first \in P /\ trackSegments[t].last \in Q
        BY <2>5, <4>1
      <4>. QED BY <4>2
    <3>. QED BY <1>5, <3>1, <3>2
  <2>7. IsFiniteSet(P) /\ IsFiniteSet(Q)
    <3>1. IsFiniteSet(R)
      BY <2>1, FS_Subset
    <3>2. [t \in R |-> trackSegments[t].first] \in Surjection(R, P)
      BY <2>5 DEF Surjection
    <3>3. [t \in R |-> trackSegments[t].last] \in Surjection(R, Q)
      BY <2>5 DEF Surjection
    <3>. QED BY <3>1, <3>2, <3>3, FS_Surjection
  <2>8. a \in P /\ \A y \in P : a <= y
    BY <2>2, <2>5, <2>6, <2>7, MinIs
  <2>9. c \in Q /\ \A y \in Q : y <= c
    BY <2>2, <2>5, <2>6, <2>7, MaxIs
  <2>10. x.first \in V /\ \A y \in V : x.first <= y
    <3>1. \A y \in P : x.first <= y
      BY <1>6, <2>6, <2>8
    <3>. QED BY <1>6, <2>6, <2>8, <3>1
  <2>11. x.last \in W /\ \A y \in W : y <= x.last
    <3>1. \A y \in Q : y <= x.last
      BY <1>6, <2>6, <2>9
    <3>. QED BY <1>6, <2>6, <2>9, <3>1
  <2>12. Min(V) = x.first /\ Max(W) = x.last
    BY <1>5, <2>10, <2>11, LeastIsMin, GreatestIsMax
  <2>13. \E t \in S : trackSegments[t].last = x.last /\ trackSegments[t].camera = x.last_camera
    <3>1. CASE x.last = d
      <4>1. trackSegments[s].last = x.last /\ trackSegments[s].camera = x.last_camera
        BY <1>2, <1>3, <3>1
      <4>. QED BY <4>1
    <3>2. CASE x.last # d
      <4>1. x.last = c /\ x.last_camera = doc.last_camera
        BY <1>3, <1>6, <3>2
      <4>. QED BY <2>1, <2>2, <4>1
    <3>. QED BY <3>1, <3>2
  <2>. QED BY <1>1, <1>4, <2>3, <2>4, <2>12, <2>13 DEF ExactOf
<1>. QED BY <1>7, <1>8

LEMMA IdentityStored ==
    ASSUME TrajectoryInv, NEW r \in Executions, put_identity(r)
    PROVE  TrajectoryInv'
<1>1. PICK j : j = ingest[r]
  OBVIOUS
<1>2. j.at = "identity"
  BY <1>1 DEF put_identity
<1>3. /\ j \in WriteStep /\ j \in IngestStep /\ j.id \in IdentityIds /\ j.segment \in SegmentIds
      /\ j.doc \in LongTermIdentity /\ j.window \in Windows
      /\ j.id < nextIdentity /\ j.doc.count + 1 < nextSegment /\ (~ overlapped => RunAgrees(r, j))
  BY <1>1, <1>2, WriterStands
<1>4. PICK k : k = [j EXCEPT !.at = "prune"]
  OBVIOUS
<1>5. PICK g : g = TrackSegment(r)
  OBVIOUS
<1>6. PICK doc : doc = _apply_segment(j.doc, g)
  OBVIOUS
<1>7. /\ g \in TrajectorySegment /\ g.first = j.window[1] /\ g.last = j.window[2] /\ g.camera = Recording(r).camera
  BY <1>1, <1>2, <1>5, TrackSegmentIs
<1>8. TrajectoryTypes /\ Apart
  BY DEF TrajectoryInv
<1>9. doc \in LongTermIdentity /\ doc.count = j.doc.count + 1 /\ doc # NoIdentity
  <2>1. nextSegment \in 1..(MaxSegments + 1)
    BY <1>8 DEF TrajectoryTypes
  <2>2. doc \in LongTermIdentity /\ doc.count = j.doc.count + 1
    BY <1>3, <1>6, <1>7, <2>1, ApplyIs
  <2>. QED BY <2>2, Kinds
<1>10. /\ k.at = "prune" /\ k.claimed = j.claimed /\ k.window = j.window /\ k.id = j.id
  BY <1>3, <1>4, Onward
<1>11. /\ ingest' = [ingest EXCEPT ![r] = k] /\ identities' = [identities EXCEPT ![j.id] = doc]
       /\ UNCHANGED <<trackSegments, templates, cameraRecords, transitions, analyst, nextIdentity, nextSegment,
                      overlapped, cut>>
  BY <1>1, <1>4, <1>5, <1>6 DEF put_identity, Works
<1>12. /\ ingest'[r] = k /\ \A p \in Executions : p # r => ingest'[p] = ingest[p]
       /\ identities'[j.id] = doc /\ \A i \in IdentityIds : i # j.id => identities'[i] = identities[i]
  BY <1>3, <1>8, <1>11 DEF TrajectoryTypes
<1>13. j # Waiting /\ j # Done /\ k # Waiting
  BY <1>2, <1>10 DEF Waiting, Done
<1>14. Apart'
  <2>1. Unclaimed(k)'
    BY <1>10 DEF Unclaimed
  <2>2. ASSUME NEW s \in SegmentIds, Holds(j, s)
        PROVE  Holds(k, s)'
    <3>1. Window(s)' = Window(s) /\ trackSegments'[s] = trackSegments[s]
      BY <1>11 DEF Window
    <3>. QED BY <1>10, <2>2, <3>1 DEF Holds
  <2>3. Unclaimed(ingest[r])' /\ ingest'[r] # Waiting /\ ingest[r] # Done
    BY <1>1, <1>12, <1>13, <2>1
  <2>4. ASSUME NEW s \in SegmentIds, Holds(ingest[r], s)
        PROVE  Holds(ingest[r], s)'
    BY <1>1, <1>12, <2>2, <2>4
  <2>5. \A s \in SegmentIds : trackSegments'[s] = trackSegments[s]
    BY <1>11
  <2>. QED BY <1>8, <1>12, <2>3, <2>4, <2>5, ApartStep
<1>15. ASSUME ~ overlapped
       PROVE  RunAgrees(r, k)'
  <2>1. ConsistentBut({j.id}, {j.id}, {}) /\ Uncounted(r, j)
    BY <1>2, <1>3, <1>15 DEF RunAgrees
  <2>2. PICK S : S = SegmentsOf(j.id)
    OBVIOUS
  <2>3. /\ trackSegments[j.segment] = g
        /\ \/ S = {j.segment} /\ j.doc = NewIdentity(j.window, Recording(r).camera)
           \/ j.id \notin cut => ExactOf(j.doc, S \ {j.segment})
    BY <1>5, <2>1, <2>2 DEF Uncounted
  <2>4. S \in SUBSET SegmentIds /\ IsFiniteSet(S) /\ \A t \in S : trackSegments[t] \in TrajectorySegment
    <3>1. S \in SUBSET SegmentIds
      BY <2>2 DEF SegmentsOf
    <3>2. PICK M \in Nat : M = MaxSegments
      BY Sizes
    <3>3. IsFiniteSet(SegmentIds)
      BY <3>2, FS_Interval DEF SegmentIds
    <3>4. \A t \in S : trackSegments[t] # NoSegment
      BY <1>3, <1>8, <2>2, <3>1, SegmentsAre
    <3>. QED BY <1>8, <3>1, <3>3, <3>4, SegmentsAre, FS_Subset
  <2>5. j.segment \in S
    BY <1>1, <1>2, <1>3, <1>5, <2>2, <2>3, TrackSegmentIs DEF SegmentsOf
  <2>6. <<g.first, g.last>> = j.window
    BY <1>3, <1>7 DEF Windows
  <2>7. ASSUME j.id \notin cut
        PROVE  ExactOf(doc, S)
    <3>1. nextSegment \in 1..(MaxSegments + 1)
      BY <1>8 DEF TrajectoryTypes
    <3>2. \/ S = {j.segment} /\ j.doc = NewIdentity(<<g.first, g.last>>, g.camera)
          \/ ExactOf(j.doc, S \ {j.segment})
      BY <1>7, <2>3, <2>6, <2>7
    <3>. QED BY <1>3, <1>6, <2>3, <2>4, <2>5, <3>1, <3>2, ApplyExact
  <2>8. \A i : SegmentsOf(i)' = SegmentsOf(i) /\ SegmentsOf(i) \in SUBSET SegmentIds
    BY <1>11 DEF SegmentsOf
  <2>9. ASSUME NEW i \in IdentityIds \ cut, identities'[i] # NoIdentity
        PROVE  ExactOf(identities[i], SegmentsOf(i))'
    <3>1. PICK d, P : d = identities'[i] /\ P = SegmentsOf(i)
      OBVIOUS
    <3>2. ExactOf(d, P)
      <4>1. CASE i = j.id
        BY <1>12, <2>2, <2>7, <2>9, <3>1, <4>1
      <4>2. CASE i # j.id
        <5>1. d = identities[i] /\ i \in IdentityIds \ {j.id}
          BY <1>12, <3>1, <4>2
        <5>. QED BY <2>1, <2>9, <3>1, <5>1 DEF ConsistentBut
      <4>. QED BY <4>1, <4>2
    <3>3. ExactOf(d, P)'
      BY <1>11, <2>8, <3>1, <3>2, StillExact
    <3>. QED BY <2>8, <3>1, <3>3
  <2>10. \A s \in SegmentIds : trackSegments'[s] # NoSegment /\ trackSegments'[s].identity \notin cut =>
             identities'[trackSegments'[s].identity] # NoIdentity
    <3>1. ASSUME NEW s \in SegmentIds, trackSegments[s] # NoSegment, trackSegments[s].identity \notin cut
          PROVE  identities'[trackSegments[s].identity] # NoIdentity
      <4>1. trackSegments[s].identity \in IdentityIds
        BY <3>1, ConsistentStands
      <4>2. CASE trackSegments[s].identity = j.id
        BY <1>9, <1>12, <4>2
      <4>3. CASE trackSegments[s].identity # j.id
        BY <1>12, <2>1, <3>1, <4>1, <4>3 DEF ConsistentBut
      <4>. QED BY <4>2, <4>3
    <3>. QED BY <1>11, <3>1
  <2>11. \A t \in templates' : trackSegments'[t[1]].identity = t[2]
    BY <1>11, <2>1 DEF ConsistentBut
  <2>12. ConsistentBut({}, {}, {})'
    BY <1>11, <2>9, <2>10, <2>11 DEF ConsistentBut
  <2>. QED BY <1>10, <2>12 DEF RunAgrees, Consistent
<1>16. /\ identities' \in [IdentityIds -> LongTermIdentity \cup {NoIdentity}]
       /\ trackSegments' \in [SegmentIds -> TrajectorySegment \cup {NoSegment}]
       /\ templates' \subseteq SegmentIds \X IdentityIds
  BY <1>8, <1>9, <1>11 DEF TrajectoryTypes
<1>17. \A i \in IdentityIds : \/ identities'[i] \in {identities[i], NoIdentity}
                              \/ i < nextIdentity' /\ identities'[i].count < nextSegment'
  <2>1. j.id < nextIdentity' /\ doc.count < nextSegment'
    BY <1>3, <1>9, <1>11
  <2>. QED BY <1>12, <2>1
<1>. QED BY <1>1, <1>2, <1>4, <1>11, <1>14, <1>15, <1>16, <1>17, WritingStep

LEMMA TemplatesPruned ==
    ASSUME TrajectoryInv, NEW r \in Executions, _prune_templates(r)
    PROVE  TrajectoryInv'
<1>1. PICK j : j = ingest[r]
  OBVIOUS
<1>2. j.at = "prune"
  BY <1>1 DEF _prune_templates
<1>3. /\ j \in WriteStep /\ j \in IngestStep /\ RunDrawn(j) /\ j.todo \in Todo \ {<<>>} /\ j.claimed \in Claims
      /\ j.window \in Windows /\ j.id \in IdentityIds /\ j.id < nextIdentity /\ (~ overlapped => RunAgrees(r, j))
  BY <1>1, <1>2, WriterStands
<1>4. PICK c : c = [j.claimed EXCEPT ![j.id] = @ \cup {j.window}]
  OBVIOUS
<1>5. PICK k : k = [at |-> "track", todo |-> Tail(j.todo), claimed |-> c]
  OBVIOUS
<1>6. /\ ingest' = [ingest EXCEPT ![r] = k] /\ templates' \subseteq templates
      /\ UNCHANGED <<identities, trackSegments, cameraRecords, transitions, analyst, nextIdentity, nextSegment,
                     overlapped, cut>>
  BY <1>1, <1>4, <1>5 DEF _prune_templates, Works
<1>7. /\ c \in Claims /\ c[j.id] = j.claimed[j.id] \cup {j.window}
      /\ \A i \in IdentityIds : i # j.id => c[i] = j.claimed[i]
  BY <1>3, <1>4 DEF Claims
<1>8. TrajectoryTypes /\ Apart
  BY DEF TrajectoryInv
<1>9. k \in IngestStep /\ k.at = "track" /\ k.claimed = c /\ k \notin {Waiting, Done}
  <2>1. Tail(j.todo) \in Todo
    <3>1. PICK t : t = j.todo
      OBVIOUS
    <3>2. t \in Seq(DOMAIN Tracklets) /\ t # <<>>
      BY <1>3, <3>1 DEF Todo
    <3>3. Tail(t) \in Seq(DOMAIN Tracklets)
      BY <3>2
    <3>. QED BY <3>1, <3>3 DEF Todo
  <2>. QED BY <1>5, <1>7, <2>1 DEF IngestStep, TrackStep, Waiting, Done
<1>10. RunDrawn(k)'
  <2>1. \A i \in IdentityIds : i >= nextIdentity => i # j.id
    BY <1>3, <1>8, Kinds DEF TrajectoryTypes
  <2>2. \A i \in IdentityIds : i >= nextIdentity => c[i] = {}
    BY <1>2, <1>3, <1>7, <2>1 DEF RunDrawn
  <2>. QED BY <1>6, <1>9, <2>2 DEF RunDrawn
<1>11. ingest'[r] = k /\ \A p \in Executions : p # r => ingest'[p] = ingest[p]
  BY <1>6, <1>8 DEF TrajectoryTypes
<1>12. j # Waiting /\ j # Done /\ Working(r)
  BY <1>1, <1>2 DEF Waiting, Done, Working
<1>13. Apart'
  <2>1. Unclaimed(k)'
    BY <1>9 DEF Unclaimed
  <2>2. ASSUME NEW s \in SegmentIds, Matched(s), Holds(j, s)
        PROVE  Holds(k, s)'
    <3>1. Window(s)' = Window(s) /\ trackSegments'[s] = trackSegments[s]
      BY <1>6 DEF Window
    <3>2. trackSegments[s].identity \in IdentityIds
      BY <1>8, <2>2, SegmentsAre, Wholes DEF Matched
    <3>3. Window(s) \in c[trackSegments[s].identity]
      BY <1>7, <2>2, <3>2 DEF Holds
    <3>. QED BY <1>9, <3>1, <3>3 DEF Holds
  <2>3. Unclaimed(ingest[r])' /\ ingest'[r] # Waiting /\ ingest[r] # Done
    BY <1>1, <1>9, <1>11, <1>12, <2>1
  <2>4. ASSUME NEW s \in SegmentIds, Matched(s), Holds(ingest[r], s)
        PROVE  Holds(ingest[r], s)'
    BY <1>1, <1>11, <2>2, <2>4
  <2>5. \A s \in SegmentIds : trackSegments'[s] = trackSegments[s]
    BY <1>6
  <2>. QED BY <1>8, <1>11, <2>3, <2>4, <2>5, ApartStep
<1>14. ~ overlapped' => RunAgrees(r, k)'
  <2>1. SUFFICES ASSUME ~ overlapped PROVE RunAgrees(r, k)'
    BY <1>6
  <2>2. ConsistentBut({}, {}, {})
    BY <1>2, <1>3, <2>1 DEF RunAgrees, Consistent
  <2>3. ConsistentBut({}, {}, {})'
    BY <1>6, <2>2, ConsistentStands, StillConsistent
  <2>. QED BY <1>9, <2>3 DEF RunAgrees, Consistent
<1>15. /\ identities' \in [IdentityIds -> LongTermIdentity \cup {NoIdentity}]
       /\ trackSegments' \in [SegmentIds -> TrajectorySegment \cup {NoSegment}]
       /\ templates' \subseteq SegmentIds \X IdentityIds /\ cameraRecords' \in [Cameras -> CameraRecord]
       /\ nextIdentity' \in 1..(MaxIdentities + 1) /\ nextIdentity' >= nextIdentity
       /\ nextSegment' \in 1..(MaxSegments + 1) /\ nextSegment' >= nextSegment /\ overlapped' \in BOOLEAN
  BY <1>6, <1>8 DEF TrajectoryTypes
<1>. QED BY <1>6, <1>9, <1>10, <1>12, <1>13, <1>14, <1>15, IngestSteps

-----------------------------------------------------------------------------
(* Operators.                                                              *)

LEMMA AnalystStands ==
    ASSUME TrajectoryInv, NEW o \in Analysts
    PROVE  /\ analyst[o] \in AnalystStep /\ AnalystDrawn(analyst[o])
           /\ ~ overlapped => AnalystAgrees(analyst[o]) /\ (AtRestNow => Consistent)
           /\ identities \in [IdentityIds -> LongTermIdentity \cup {NoIdentity}]
           /\ trackSegments \in [SegmentIds -> TrajectorySegment \cup {NoSegment}]
           /\ templates \subseteq SegmentIds \X IdentityIds /\ overlapped \in BOOLEAN /\ cut \subseteq IdentityIds
           /\ nextIdentity \in 1..(MaxIdentities + 1) /\ nextSegment \in 1..(MaxSegments + 1)
           /\ \A i \in IdentityIds : identities[i] # NoIdentity => i < nextIdentity /\ identities[i].count < nextSegment
           /\ \A s \in SegmentIds : trackSegments[s] # NoSegment => s < nextSegment /\ Numbered(trackSegments[s])
BY DEF TrajectoryInv, TrajectoryTypes, Drawn, Orderly

\* A step that writes nothing, or takes templates away.
LEMMA PlanningStep ==
    ASSUME TrajectoryInv, NEW o \in Analysts, NEW k \in AnalystStep, analyst' = [analyst EXCEPT ![o] = k],
           UNCHANGED <<identities, trackSegments, cameraRecords, transitions, ingest, nextIdentity, nextSegment>>,
           cut' = cut \/ (cut \subseteq cut' /\ cut' \subseteq IdentityIds),
           templates' \subseteq templates, overlapped' \in BOOLEAN, AnalystDrawn(k),
           ~ overlapped' => ~ overlapped /\ (Busy(o) \/ AtRestNow),
           ~ overlapped' => AnalystAgrees(k)',
           ~ overlapped' => k # Unoccupied
    PROVE  TrajectoryInv'
<1>1. /\ templates' \subseteq SegmentIds \X IdentityIds
      /\ identities' \in [IdentityIds -> LongTermIdentity \cup {NoIdentity}]
      /\ trackSegments' \in [SegmentIds -> TrajectorySegment \cup {NoSegment}]
      /\ nextIdentity' \in 1..(MaxIdentities + 1) /\ nextIdentity' >= nextIdentity
      /\ cut \subseteq cut' /\ cut' \subseteq IdentityIds
  BY AnalystStands
<1>2. AnalystDrawn(k)'
  BY DEF AnalystDrawn, Numbered
<1>. QED BY <1>1, <1>2, AnalystSteps

LEMMA ListedIs ==
    ASSUME TrajectoryInv, NEW S \in SUBSET SegmentIds, \A s \in S : trackSegments[s] # NoSegment
    PROVE  /\ Listed(S) \in Listing /\ Names(Listed(S)) = S /\ (Listed(S) = {} <=> S = {})
           /\ \A m \in Listed(S) : /\ m[1] \in S /\ m[2] = trackSegments[m[1]] /\ m = <<m[1], m[2]>>
                                   /\ m[1] < nextSegment /\ Numbered(m[2]) /\ Stands(m)
<1>1. \A s \in S : /\ trackSegments[s] \in TrajectorySegment /\ s < nextSegment /\ Numbered(trackSegments[s])
  BY SegmentsAre DEF TrajectoryInv, Drawn
<1>2. \A m \in Listed(S) : m[1] \in S /\ m[2] = trackSegments[m[1]] /\ m = <<m[1], m[2]>>
  BY DEF Listed
<1>3. Listed(S) \in Listing
  <2>1. Listed(S) \subseteq SegmentIds \X TrajectorySegment
    BY <1>1 DEF Listed
  <2>. QED BY <1>2, <2>1 DEF Listing
<1>4. Names(Listed(S)) = S
  <2>1. PICK L : L = Listed(S)
    OBVIOUS
  <2>2. \A m \in L : m[1] \in S
    BY <1>2, <2>1
  <2>3. ASSUME NEW s \in S
        PROVE  \E m \in L : m[1] = s
    <3>1. <<s, trackSegments[s]>> \in L
      BY <2>1 DEF Listed
    <3>. QED BY <3>1
  <2>4. Names(L) = S
    BY <2>2, <2>3 DEF Names
  <2>. QED BY <2>1, <2>4
<1>5. Listed(S) = {} <=> S = {}
  BY DEF Listed
<1>6. \A m \in Listed(S) : Stands(m)
  BY <1>1, <1>2 DEF Stands
<1>. QED BY <1>1, <1>2, <1>3, <1>4, <1>5, <1>6

LEMMA ListedOf ==
    ASSUME TrajectoryInv, NEW i \in IdentityIds
    PROVE  /\ SegmentsOf(i) \in SUBSET SegmentIds
           /\ \A s \in SegmentsOf(i) : trackSegments[s] # NoSegment /\ trackSegments[s].identity = i
<1>1. TrajectoryTypes
  BY DEF TrajectoryInv
<1>. QED BY <1>1, SegmentsAre

\* An answer to a request for the segments of an identity.
LEMMA AnswerIs ==
    ASSUME TrajectoryInv, NEW i \in IdentityIds, NEW S \in Listings(i), MarkCut(i)
    PROVE  /\ S \in SUBSET SegmentsOf(i) /\ S \in SUBSET SegmentIds /\ \A s \in S : trackSegments[s] # NoSegment
           /\ cut \subseteq cut' /\ cut' \subseteq IdentityIds
           /\ i \notin cut' => S = SegmentsOf(i) /\ i \notin cut
<1>1. cut \subseteq IdentityIds
  BY DEF TrajectoryInv, TrajectoryTypes
<1>2. S \in SUBSET SegmentsOf(i) /\ (~ Exceeds(i) => S = SegmentsOf(i))
  BY DEF Listings
<1>3. cut' = (IF Exceeds(i) THEN cut \cup {i} ELSE cut)
  BY DEF MarkCut
<1>. QED BY <1>1, <1>2, <1>3, ListedOf

\* Fewer demands.
LEMMA ConsistentLess ==
    ASSUME NEW X, NEW Y, NEW Z, ConsistentBut({}, {}, {})
    PROVE  ConsistentBut(X, Y, Z)
BY DEF ConsistentBut

LEMMA StillWithout ==
    ASSUME TrajectoryInv, NEW X, NEW Y, NEW Z, ConsistentBut(X, Y, Z),
           UNCHANGED <<identities, trackSegments>>, cut \subseteq cut', templates' \subseteq templates
    PROVE  ConsistentBut(X, Y, Z)' /\ \A i : SegmentsOf(i)' = SegmentsOf(i)
BY ConsistentStands, StillConsistent

LEMMA MergeBegins ==
    ASSUME TrajectoryInv, NEW o \in Analysts, NEW i \in IdentityIds, NEW q \in SourceOrders[i],
           merge_identities(o, i, q)
    PROVE  TrajectoryInv'
<1>1. PICK doc, k : /\ doc = identities[i]
                    /\ k = [at |-> "source", target |-> i, sources |-> q, doc |-> doc]
  OBVIOUS
<1>2. /\ analyst' = [analyst EXCEPT ![o] = k] /\ doc # NoIdentity /\ Began
      /\ UNCHANGED <<identities, trackSegments, templates, cameraRecords, transitions, ingest,
                     nextIdentity, nextSegment, cut>>
  BY <1>1 DEF merge_identities, Turns
<1>3. q \in Seq(IdentityIds) /\ \A n \in DOMAIN q : q[n] # i
  <2>1. PICK S \in SUBSET (IdentityIds \ {i}) : q \in SetToSeqs(S)
    BY DEF SourceOrders
  <2>2. IsFiniteSet(S)
    <3>1. PICK M \in Nat : M = MaxIdentities
      BY Sizes
    <3>2. IsFiniteSet(IdentityIds)
      BY <3>1, FS_Interval DEF IdentityIds
    <3>. QED BY <3>2, FS_Subset
  <2>3. PICK n \in Nat : n = Cardinality(S)
    BY <2>2, FS_CardinalityType
  <2>4. q \in [1..n -> S]
    BY <2>1, <2>3 DEF SetToSeqs
  <2>5. q \in [1..n -> IdentityIds] /\ \A m \in 1..n : q[m] # i
    BY <2>1, <2>4
  <2>. QED BY <2>4, <2>5
<1>4. doc \in LongTermIdentity /\ i < nextIdentity /\ doc.count < nextSegment
  BY <1>1, <1>2, AnalystStands
<1>5. k \in AnalystStep /\ k.at = "source" /\ k.target = i /\ k.sources = q /\ k.doc = doc /\ k # Unoccupied
  <2>1. k \in SourceStep
    BY <1>1, <1>3, <1>4 DEF SourceStep
  <2>. QED BY <1>1, <2>1 DEF AnalystStep, Unoccupied
<1>6. AnalystDrawn(k)
  BY <1>3, <1>4, <1>5 DEF AnalystDrawn
<1>7. ~ overlapped' => ~ overlapped /\ AtRestNow
  BY <1>2 DEF Began
<1>8. ~ overlapped' => AnalystAgrees(k)'
  <2>1. SUFFICES ASSUME ~ overlapped' PROVE AnalystAgrees(k)'
    OBVIOUS
  <2>2. ConsistentBut({}, {}, {})
    BY <1>7, <2>1, AnalystStands DEF Consistent
  <2>3. ConsistentBut({i}, {}, {})'
    BY <1>2, <2>2, ConsistentLess, StillWithout
  <2>4. (i \notin cut' => SegmentsOf(i)' # {}) /\ identities'[i] # NoIdentity
    <3>1. i \notin cut => ExactOf(identities[i], SegmentsOf(i))
      BY <1>1, <1>2, <2>2 DEF ConsistentBut
    <3>2. i \notin cut => SegmentsOf(i) # {}
      BY <3>1 DEF ExactOf
    <3>. QED BY <1>1, <1>2, <2>2, <3>2, StillWithout
  <2>. QED BY <1>5, <2>3, <2>4 DEF AnalystAgrees, Merging
<1>9. overlapped' \in BOOLEAN
  BY <1>2, AnalystStands DEF Began
<1>. QED BY <1>2, <1>5, <1>6, <1>7, <1>8, <1>9, PlanningStep

LEMMA SourceStands ==
    ASSUME TrajectoryInv, NEW o \in Analysts, NEW q, q = analyst[o], q.at \in {"source", "recount"}
    PROVE  /\ q \in SourceStep /\ q \in AnalystStep /\ q.target \in IdentityIds /\ q.sources \in Seq(IdentityIds)
           /\ q.doc \in LongTermIdentity /\ q.target < nextIdentity /\ q.doc.count < nextSegment
           /\ \A n \in DOMAIN q.sources : q.sources[n] # q.target
           /\ q # Unoccupied /\ Busy(o)
           /\ ~ overlapped => ConsistentBut({q.target}, {}, {}) /\ Merging(q)
<1>1. q \in AnalystStep /\ q \in SourceStep /\ AnalystDrawn(q) /\ (~ overlapped => AnalystAgrees(q)) /\ q # Unoccupied
  BY AnalystStands, AnalystKinds
<1>2. q.target \in IdentityIds /\ q.sources \in Seq(IdentityIds) /\ q.doc \in LongTermIdentity
  BY <1>1 DEF SourceStep
<1>3. /\ q.target < nextIdentity /\ q.doc.count < nextSegment
      /\ \A n \in DOMAIN q.sources : q.sources[n] # q.target
  BY <1>1 DEF AnalystDrawn
<1>4. ~ overlapped => ConsistentBut({q.target}, {}, {}) /\ Merging(q)
  BY <1>1 DEF AnalystAgrees
<1>. QED BY <1>1, <1>2, <1>3, <1>4 DEF Busy

LEMMA SourceTaken ==
    ASSUME TrajectoryInv, NEW o \in Analysts, NextSource(o)
    PROVE  TrajectoryInv'
<1>1. PICK q : q = analyst[o]
  OBVIOUS
<1>2. q.at = "source"
  BY <1>1 DEF NextSource
<1>3. /\ q \in SourceStep /\ q \in AnalystStep /\ q.target \in IdentityIds /\ q.sources \in Seq(IdentityIds)
      /\ q.doc \in LongTermIdentity /\ q.target < nextIdentity /\ q.doc.count < nextSegment
      /\ \A n \in DOMAIN q.sources : q.sources[n] # q.target
      /\ Busy(o) /\ (~ overlapped => ConsistentBut({q.target}, {}, {}) /\ Merging(q))
  BY <1>1, <1>2, SourceStands
<1>4. UNCHANGED <<identities, trackSegments, templates, cameraRecords, transitions, ingest, nextIdentity, nextSegment>>
  BY DEF NextSource
<1>5. CASE q.sources = <<>>
  <2>1. PICK k : k = [q EXCEPT !.at = "recount"]
    OBVIOUS
  <2>2. k = [at |-> "recount", target |-> q.target, sources |-> q.sources, doc |-> q.doc]
    BY <1>3, <2>1 DEF SourceStep
  <2>3. k \in AnalystStep /\ k # Unoccupied /\ k.at = "recount" /\ k.target = q.target
    BY <1>3, <2>2 DEF AnalystStep, SourceStep, Unoccupied
  <2>4. AnalystDrawn(k)
    BY <1>3, <2>2 DEF AnalystDrawn
  <2>5. analyst' = [analyst EXCEPT ![o] = k] /\ overlapped' = overlapped /\ cut' = cut
    BY <1>1, <1>5, <2>1, AnalystStands DEF NextSource, Turns
  <2>6. ~ overlapped => AnalystAgrees(k)'
    <3>1. ~ overlapped => ConsistentBut({q.target}, {}, {})' /\ \A i : SegmentsOf(i)' = SegmentsOf(i)
      BY <1>3, <1>4, <2>5, StillWithout
    <3>2. ~ overlapped => Merging(k)'
      BY <1>3, <1>4, <2>3, <2>5, <3>1 DEF Merging
    <3>. QED BY <2>3, <3>1, <3>2 DEF AnalystAgrees
  <2>. QED BY <1>3, <1>4, <2>3, <2>4, <2>5, <2>6, AnalystStands, PlanningStep
<1>6. CASE q.sources # <<>>
  <2>1. PICK i \in IdentityIds : i = Head(q.sources) /\ i # q.target
    <3>1. PICK w : w = q.sources
      OBVIOUS
    <3>2. w \in Seq(IdentityIds) /\ w # <<>> /\ \A n \in DOMAIN w : w[n] # q.target
      BY <1>3, <1>6, <3>1
    <3>3. 1 \in DOMAIN w /\ Head(w) = w[1] /\ w[1] \in IdentityIds
      BY <3>2
    <3>. QED BY <3>1, <3>2, <3>3
  <2>0. MarkCut(i)
    BY <1>1, <1>6, <2>1 DEF NextSource
  <2>2. CASE identities[i] = NoIdentity
    <3>1. analyst' = [analyst EXCEPT ![o] = Unoccupied] /\ overlapped' = TRUE
      BY <1>1, <1>6, <2>1, <2>2 DEF NextSource, Turns
    <3>2. Unoccupied \in AnalystStep /\ AnalystDrawn(Unoccupied)
      BY DEF AnalystStep, Unoccupied, AnalystDrawn
    <3>3. cut \subseteq cut' /\ cut' \subseteq IdentityIds
      BY <2>0, AnalystStands DEF MarkCut
    <3>. QED BY <1>4, <3>1, <3>2, <3>3, PlanningStep
  <2>3. CASE identities[i] # NoIdentity
    <3>0. PICK S \in Listings(i) :
             Turns(o, [at |-> "move", kind |-> "merge", target |-> q.target, sources |-> q.sources, doc |-> q.doc,
                       from |-> i, moving |-> Listed(S)])
      BY <1>1, <1>6, <2>1, <2>3 DEF NextSource
    <3>1. PICK L : L = Listed(S)
      OBVIOUS
    <3>9. /\ S \in SUBSET SegmentsOf(i) /\ S \in SUBSET SegmentIds /\ (\A s \in S : trackSegments[s] # NoSegment)
          /\ cut \subseteq cut' /\ cut' \subseteq IdentityIds
          /\ i \notin cut' => S = SegmentsOf(i)
      BY <2>0, AnswerIs
    <3>2. /\ L \in Listing /\ \A m \in L : m[1] < nextSegment /\ Numbered(m[2])
      BY <3>1, <3>9, ListedIs
    <3>3. PICK k : k = [at |-> "move", kind |-> "merge", target |-> q.target, sources |-> q.sources, doc |-> q.doc,
                        from |-> i, moving |-> L]
      OBVIOUS
    <3>4. analyst' = [analyst EXCEPT ![o] = k] /\ overlapped' = overlapped
      BY <1>1, <1>6, <2>1, <2>3, <3>0, <3>1, <3>3, AnalystStands DEF NextSource, Turns
    <3>5. k \in AnalystStep /\ k # Unoccupied
      <4>1. k \in MergeStep
        BY <1>3, <1>6, <3>2, <3>3 DEF MergeStep
      <4>. QED BY <3>3, <4>1 DEF AnalystStep, Unoccupied
    <3>6. /\ k.at = "move" /\ k.kind = "merge" /\ k.target = q.target /\ k.sources = q.sources /\ k.doc = q.doc
          /\ k.from = i /\ k.moving = L
      BY <3>3
    <3>7. AnalystDrawn(k)
      <4>1. i < nextIdentity
        BY <2>3, AnalystStands
      <4>. QED BY <1>3, <3>2, <3>6, <4>1 DEF AnalystDrawn
    <3>8. ~ overlapped => AnalystAgrees(k)'
      <4>1. SUFFICES ASSUME ~ overlapped PROVE AnalystAgrees(k)'
        OBVIOUS
      <4>2. ConsistentBut({q.target}, {}, {}) /\ Merging(q)
        BY <1>3, <4>1
      <4>3. ConsistentBut({q.target, i}, {}, {})
        BY <4>2 DEF ConsistentBut
      <4>4. ConsistentBut({q.target, i}, {}, {})' /\ \A n : SegmentsOf(n)' = SegmentsOf(n)
        BY <1>4, <3>9, <4>3, StillWithout
      <4>5. Merging(k)'
        BY <1>4, <3>6, <3>9, <4>2, <4>4 DEF Merging
      <4>6. L \subseteq Listed(SegmentsOf(i))' /\ (i \notin cut' => L = Listed(SegmentsOf(i))')
        BY <1>4, <3>1, <3>9, <4>4 DEF Listed
      <4>. QED BY <1>4, <2>1, <2>3, <3>6, <4>4, <4>5, <4>6 DEF AnalystAgrees
    <3>. QED BY <1>3, <1>4, <3>4, <3>5, <3>7, <3>8, <3>9, AnalystStands, PlanningStep
  <2>. QED BY <2>2, <2>3
<1>. QED BY <1>5, <1>6

LEMMA RequestStops ==
    ASSUME TrajectoryInv, NEW o \in Analysts, StopAnalyst(o)
    PROVE  TrajectoryInv'
<1>1. /\ analyst' = [analyst EXCEPT ![o] = Unoccupied] /\ overlapped' = TRUE
      /\ UNCHANGED <<identities, trackSegments, templates, cameraRecords, transitions, ingest,
                     nextIdentity, nextSegment, cut>>
  BY DEF StopAnalyst, Turns
<1>2. Unoccupied \in AnalystStep /\ AnalystDrawn(Unoccupied)
  BY DEF AnalystStep, Unoccupied, AnalystDrawn
<1>. QED BY <1>1, <1>2, PlanningStep

LEMMA Recounting ==
    ASSUME TrajectoryInv, NEW o \in Analysts, Recount(o)
    PROVE  TrajectoryInv'
<1>1. PICK q : q = analyst[o]
  OBVIOUS
<1>2. q.at = "recount"
  BY <1>1 DEF Recount
<1>3. /\ q.target \in IdentityIds /\ q.doc \in LongTermIdentity /\ q.target < nextIdentity
      /\ Busy(o) /\ (~ overlapped => ConsistentBut({q.target}, {}, {}) /\ Merging(q))
  BY <1>1, <1>2, SourceStands
<1>0. MarkCut(q.target)
  BY <1>1 DEF Recount
<1>12. PICK S \in Listings(q.target) :
          Turns(o, [at |-> "save", kind |-> "merge", id |-> q.target, doc |-> _recompute(q.doc, Listed(S))])
  BY <1>1 DEF Recount
<1>4. PICK L : L = Listed(S)
  OBVIOUS
<1>13. /\ S \in SUBSET SegmentIds /\ (\A s \in S : trackSegments[s] # NoSegment)
       /\ cut \subseteq cut' /\ cut' \subseteq IdentityIds
       /\ q.target \notin cut' => S = SegmentsOf(q.target) /\ q.target \notin cut
  BY <1>0, <1>3, AnswerIs
<1>5. /\ L \in Listing /\ Names(L) = S /\ (L = {} <=> S = {})
      /\ \A m \in L : m[1] < nextSegment /\ Stands(m)
  BY <1>4, <1>13, ListedIs
<1>6. PICK doc, k : doc = _recompute(q.doc, L) /\ k = [at |-> "save", kind |-> "merge", id |-> q.target, doc |-> doc]
  OBVIOUS
<1>7. /\ doc \in LongTermIdentity /\ doc.count < nextSegment /\ (L # {} => SummaryOf(doc, L))
  BY <1>3, <1>5, <1>6, AnalystStands, RecomputeIs
<1>8. /\ analyst' = [analyst EXCEPT ![o] = k] /\ overlapped' = overlapped
      /\ UNCHANGED <<identities, trackSegments, templates, cameraRecords, transitions, ingest,
                     nextIdentity, nextSegment>>
  BY <1>1, <1>4, <1>6, <1>12 DEF Recount, Turns
<1>9. k \in AnalystStep /\ k # Unoccupied /\ k.at = "save" /\ k.id = q.target /\ k.doc = doc
  <2>1. k \in SaveStep
    BY <1>3, <1>6, <1>7 DEF SaveStep
  <2>. QED BY <1>6, <2>1 DEF AnalystStep, Unoccupied
<1>10. AnalystDrawn(k)
  BY <1>3, <1>7, <1>9 DEF AnalystDrawn
<1>11. ~ overlapped => AnalystAgrees(k)'
  <2>1. SUFFICES ASSUME ~ overlapped PROVE AnalystAgrees(k)'
    OBVIOUS
  <2>2. /\ ConsistentBut({q.target}, {}, {}) /\ identities[q.target] # NoIdentity
        /\ q.target \notin cut' => S # {}
    BY <1>3, <1>13, <2>1 DEF Merging
  <2>3. q.target \notin cut' => ExactOf(doc, S)
    BY <1>5, <1>7, <2>2, ListedExact
  <2>4. ConsistentBut({q.target}, {}, {})' /\ \A n : SegmentsOf(n)' = SegmentsOf(n)
    BY <1>8, <1>13, <2>2, StillWithout
  <2>5. q.target \notin cut' => ExactOf(doc, S)'
    BY <1>8, <1>13, <2>3, StillExact
  <2>6. q.target \notin cut' => S = SegmentsOf(q.target)'
    BY <1>13, <2>4
  <2>7. k.id \notin cut' => ExactOf(k.doc, SegmentsOf(k.id))'
    BY <1>9, <2>5, <2>6
  <2>. QED BY <1>8, <1>9, <2>2, <2>4, <2>7 DEF AnalystAgrees
<1>. QED BY <1>3, <1>8, <1>9, <1>10, <1>11, <1>13, AnalystStands, PlanningStep

\* After requests that did not overlap.
LEMMA RestStands ==
    ASSUME TrajectoryInv, NEW o \in Analysts, NEW i \in IdentityIds, identities[i] # NoIdentity, ~ overlapped,
           AtRestNow
    PROVE  /\ ConsistentBut({}, {}, {}) /\ (i \notin cut => ExactOf(identities[i], SegmentsOf(i)))
           /\ identities[i] \in LongTermIdentity /\ i < nextIdentity /\ identities[i].count < nextSegment
<1>1. ConsistentBut({}, {}, {})
  BY AnalystStands DEF Consistent
<1>. QED BY <1>1, AnalystStands DEF ConsistentBut

LEMMA UpdateBegins ==
    ASSUME TrajectoryInv, NEW o \in Analysts, NEW i \in IdentityIds, NEW status \in {"confirmed", "rejected"},
           update_identity(o, i, status)
    PROVE  TrajectoryInv'
<1>1. PICK old, doc, k : /\ old = identities[i] /\ doc = [old EXCEPT !.status = status]
                         /\ k = [at |-> "save", kind |-> "update", id |-> i, doc |-> doc]
  OBVIOUS
<1>2. /\ analyst' = [analyst EXCEPT ![o] = k] /\ old # NoIdentity /\ Began
      /\ UNCHANGED <<identities, trackSegments, templates, cameraRecords, transitions, ingest,
                     nextIdentity, nextSegment, cut>>
  BY <1>1 DEF update_identity, Turns
<1>3. old \in LongTermIdentity /\ i < nextIdentity /\ old.count < nextSegment
  BY <1>1, <1>2, AnalystStands
<1>4. /\ doc \in LongTermIdentity /\ doc.count = old.count /\ doc.cameras = old.cameras /\ doc.first = old.first
      /\ doc.last = old.last /\ doc.last_camera = old.last_camera
  BY <1>1, <1>3 DEF LongTermIdentity
<1>5. k \in AnalystStep /\ k.at = "save" /\ k.id = i /\ k.doc = doc /\ k # Unoccupied
  <2>1. k \in SaveStep
    BY <1>1, <1>4 DEF SaveStep
  <2>. QED BY <1>1, <2>1 DEF AnalystStep, Unoccupied
<1>6. AnalystDrawn(k)
  BY <1>3, <1>4, <1>5 DEF AnalystDrawn
<1>7. ~ overlapped' => ~ overlapped /\ AtRestNow
  BY <1>2 DEF Began
<1>8. ~ overlapped' => AnalystAgrees(k)'
  <2>1. SUFFICES ASSUME ~ overlapped' PROVE AnalystAgrees(k)'
    OBVIOUS
  <2>2. ConsistentBut({}, {}, {}) /\ (i \notin cut => ExactOf(old, SegmentsOf(i)))
    BY <1>1, <1>2, <1>7, <2>1, RestStands
  <2>3. ConsistentBut({i}, {}, {})' /\ SegmentsOf(i)' = SegmentsOf(i)
    BY <1>2, <2>2, ConsistentLess, StillWithout
  <2>4. PICK S : S = SegmentsOf(i) /\ S \in SUBSET SegmentIds
    BY ListedOf
  <2>5. i \notin cut => ExactOf(doc, S)
    BY <1>4, <2>2, <2>4 DEF ExactOf
  <2>6. i \notin cut => ExactOf(doc, S)'
    BY <1>2, <2>4, <2>5, StillExact
  <2>7. k.id \notin cut' => ExactOf(k.doc, SegmentsOf(k.id))'
    BY <1>2, <1>5, <2>3, <2>4, <2>6
  <2>. QED BY <1>1, <1>2, <1>5, <2>3, <2>7 DEF AnalystAgrees
<1>9. overlapped' \in BOOLEAN
  BY <1>2, AnalystStands DEF Began
<1>. QED BY <1>2, <1>5, <1>6, <1>7, <1>8, <1>9, PlanningStep

LEMMA DeleteBegins ==
    ASSUME TrajectoryInv, NEW o \in Analysts, NEW i \in IdentityIds, delete_identity(o, i)
    PROVE  TrajectoryInv'
<1>1. PICK k : k = [at |-> "delete_segments", id |-> i]
  OBVIOUS
<1>2. /\ analyst' = [analyst EXCEPT ![o] = k] /\ identities[i] # NoIdentity /\ Began
      /\ templates' = templates \ Templates(i)
      /\ UNCHANGED <<identities, trackSegments, cameraRecords, transitions, ingest, nextIdentity, nextSegment, cut>>
  BY <1>1 DEF delete_identity, Turns
<1>3. i < nextIdentity
  BY <1>2, AnalystStands
<1>4. k \in AnalystStep /\ k.at = "delete_segments" /\ k.id = i /\ k # Unoccupied
  <2>1. k \in ErasureStep
    BY <1>1 DEF ErasureStep
  <2>. QED BY <1>1, <2>1 DEF AnalystStep, Unoccupied
<1>5. AnalystDrawn(k)
  BY <1>3, <1>4 DEF AnalystDrawn
<1>6. ~ overlapped' => ~ overlapped /\ AtRestNow
  BY <1>2 DEF Began
<1>7. ~ overlapped' => AnalystAgrees(k)'
  <2>1. SUFFICES ASSUME ~ overlapped' PROVE AnalystAgrees(k)'
    OBVIOUS
  <2>2. ConsistentBut({}, {}, {})
    BY <1>2, <1>6, <2>1, RestStands
  <2>3. ConsistentBut({}, {}, {})'
    BY <1>2, <2>2, StillWithout
  <2>4. Templates(i)' = {}
    BY <1>2 DEF Templates
  <2>. QED BY <1>2, <1>4, <2>3, <2>4 DEF AnalystAgrees, Consistent
<1>8. overlapped' \in BOOLEAN
  BY <1>2, AnalystStands DEF Began
<1>. QED BY <1>2, <1>4, <1>5, <1>6, <1>7, <1>8, PlanningStep

LEMMA SplitBegins ==
    ASSUME TrajectoryInv, NEW o \in Analysts, NEW i \in IdentityIds, NEW W \in SUBSET SegmentIds,
           split_identity(o, i, W)
    PROVE  TrajectoryInv'
<1>0. PICK T \in Listings(i) :
         /\ W \subseteq T /\ W # {} /\ W # T
         /\ Turns(o, [at |-> "move", kind |-> "split", target |-> nextIdentity, from |-> i, moving |-> Listed(W),
                      wanted |-> Listed(W), left |-> Listed(T \ W), doc |-> identities[i]])
  BY DEF split_identity
<1>1. PICK n, doc : n = nextIdentity /\ doc = identities[i]
  OBVIOUS
<1>2. PICK L, K : L = Listed(W) /\ K = Listed(T \ W)
  OBVIOUS
<1>3. PICK k : k = [at |-> "move", kind |-> "split", target |-> n, from |-> i, moving |-> L,
                    wanted |-> L, left |-> K, doc |-> doc]
  OBVIOUS
<1>4. /\ analyst' = [analyst EXCEPT ![o] = k] /\ doc # NoIdentity /\ Began /\ nextIdentity' = n + 1
      /\ W \subseteq T /\ W # {} /\ W # T /\ n <= MaxIdentities
      /\ UNCHANGED <<identities, trackSegments, templates, cameraRecords, transitions, ingest, nextSegment>>
  BY <1>0, <1>1, <1>2, <1>3 DEF split_identity, Turns
<1>5. n \in IdentityIds /\ n \in Nat /\ nextIdentity' \in 1..(MaxIdentities + 1) /\ nextIdentity' >= nextIdentity
  <2>1. PICK M \in Nat : M = MaxIdentities
    BY Sizes
  <2>2. n \in 1..(M + 1) /\ n <= M
    BY <1>1, <1>4, <2>1, AnalystStands
  <2>. QED BY <1>1, <1>4, <2>1, <2>2 DEF IdentityIds
<1>6. doc \in LongTermIdentity /\ i < n /\ doc.count < nextSegment
  BY <1>1, <1>4, AnalystStands
<1>7. /\ T \in SUBSET SegmentsOf(i) /\ T \in SUBSET SegmentIds /\ (\A s \in T : trackSegments[s] # NoSegment)
      /\ cut \subseteq cut' /\ cut' \subseteq IdentityIds
      /\ i \notin cut' => T = SegmentsOf(i) /\ i \notin cut
  <2>1. MarkCut(i)
    BY DEF split_identity
  <2>. QED BY <2>1, AnswerIs
<1>8. /\ L \in Listing /\ Names(L) = W /\ L # {}
      /\ \A m \in L : m[1] < nextSegment /\ Numbered(m[2]) /\ Stands(m)
  BY <1>2, <1>4, <1>7, ListedIs
<1>9. /\ K \in Listing /\ Names(K) = T \ W /\ K # {}
      /\ \A m \in K : m[1] < nextSegment /\ Stands(m)
  <2>1. T \ W \in SUBSET SegmentIds /\ T \ W # {}
    BY <1>4, <1>7
  <2>. QED BY <1>2, <1>7, <2>1, ListedIs
<1>10. /\ k.at = "move" /\ k.kind = "split" /\ k.target = n /\ k.from = i /\ k.moving = L /\ k.wanted = L
       /\ k.left = K /\ k.doc = doc
  BY <1>3
<1>11. k \in AnalystStep /\ k # Unoccupied
  <2>1. k \in SplitStep
    BY <1>3, <1>5, <1>6, <1>8, <1>9 DEF SplitStep
  <2>. QED BY <1>10, <2>1 DEF AnalystStep, Unoccupied
<1>12. AnalystDrawn(k)'
  <2>1. n < nextIdentity' /\ i < nextIdentity'
    BY <1>4, <1>5, <1>6, Kinds
  <2>2. \A m \in L : m[1] < nextSegment' /\ Numbered(m[2])'
    <3>1. ASSUME NEW m \in L
          PROVE  Numbered(m[2])'
      <4>1. Numbered(m[2]) /\ m[2].identity \in Nat
        BY <1>8, Wholes, Kinds DEF Listing
      <4>2. m[2].identity < nextIdentity'
        BY <1>1, <1>4, <1>5, <4>1 DEF Numbered
      <4>. QED BY <4>1, <4>2 DEF Numbered
    <3>. QED BY <1>4, <1>8, <3>1
  <2>3. \A m \in L \cup K : m[1] < nextSegment'
    BY <1>4, <1>8, <1>9
  <2>. QED BY <1>4, <1>6, <1>10, <2>1, <2>2, <2>3 DEF AnalystDrawn
<1>13. ~ overlapped' => ~ overlapped /\ AtRestNow
  BY <1>4 DEF Began
<1>14. ~ overlapped' => AnalystAgrees(k)'
  <2>1. SUFFICES ASSUME ~ overlapped' PROVE AnalystAgrees(k)'
    OBVIOUS
  <2>2. ConsistentBut({}, {}, {})
    BY <1>1, <1>4, <1>13, <2>1, RestStands
  <2>3. ConsistentBut({i}, {n}, {})' /\ \A p : SegmentsOf(p)' = SegmentsOf(p)
    BY <1>4, <1>7, <2>2, ConsistentLess, StillWithout
  <2>4. identities'[n] = NoIdentity
    BY <1>1, <1>4, <1>5, ConsistentStands
  <2>5. SegmentsOf(n)' = {}
    <3>1. ASSUME NEW s \in SegmentsOf(n)
          PROVE  FALSE
      <4>1. s \in SegmentIds /\ trackSegments[s] # NoSegment /\ trackSegments[s].identity = n
        BY <1>5, ListedOf
      <4>2. trackSegments[s].identity < n
        BY <1>1, <4>1, AnalystStands DEF Numbered
      <4>. QED BY <1>5, <4>1, <4>2
    <3>. QED BY <2>3, <3>1
  <2>6. T \subseteq SegmentsOf(i)' /\ (i \notin cut' => SegmentsOf(i)' = T)
    BY <1>7, <2>3
  <2>7. \A m \in L \cup K : Stands(m)'
    BY <1>4, <1>8, <1>9 DEF Stands
  <2>8. PICK R : R = (SegmentsOf(i) \ Names(K))' /\ W \subseteq R /\ (i \notin cut' => R = W)
    <3>1. (SegmentsOf(i) \ Names(K))' = SegmentsOf(i)' \ (T \ W)
      BY <1>9 DEF Names
    <3>2. T \ (T \ W) = W
      BY <1>4
    <3>. QED BY <1>4, <2>6, <3>1, <3>2
  <2>9. /\ L \subseteq Listed(SegmentsOf(i) \ Names(K))'
        /\ i \notin cut' => L = Listed(SegmentsOf(i) \ Names(K))'
    BY <1>2, <1>4, <2>8 DEF Listed
  <2>10. SegmentsOf(n)' \cup Names(L) = Names(L) /\ Names(K) \subseteq SegmentsOf(i)'
    BY <1>8, <1>9, <2>5, <2>6
  <2>11. identities'[i] # NoIdentity
    BY <1>1, <1>4
  <2>12. /\ ConsistentBut({k.from}, {k.target}, {})'
         /\ identities'[k.from] # NoIdentity /\ identities'[k.target] = NoIdentity
         /\ k.wanted # {} /\ k.left # {} /\ Names(k.left) \subseteq SegmentsOf(k.from)'
         /\ \A m \in k.wanted \cup k.left : Stands(m)'
         /\ SegmentsOf(k.target)' \cup Names(k.moving) = Names(k.wanted)
         /\ k.moving \subseteq Listed(SegmentsOf(k.from) \ Names(k.left))'
         /\ k.from \notin cut' => k.moving = Listed(SegmentsOf(k.from) \ Names(k.left))'
    BY <1>8, <1>9, <1>10, <2>3, <2>4, <2>7, <2>9, <2>10, <2>11
  <2>. QED BY <1>10, <2>12 DEF AnalystAgrees, Names
<1>15. /\ overlapped' \in BOOLEAN /\ templates' \subseteq SegmentIds \X IdentityIds
       /\ identities' \in [IdentityIds -> LongTermIdentity \cup {NoIdentity}]
       /\ trackSegments' \in [SegmentIds -> TrajectorySegment \cup {NoSegment}]
  BY <1>4, AnalystStands DEF Began
<1>. QED BY <1>4, <1>5, <1>7, <1>11, <1>12, <1>13, <1>14, <1>15, AnalystSteps

-----------------------------------------------------------------------------
(* Segments that change hands, one write each.                             *)

\* One segment changes hands: i loses it to n.
Passes(s, g, h, i, n) ==
    /\ i \in IdentityIds /\ n \in IdentityIds /\ i # n
    /\ s \in SegmentsOf(i) /\ g = trackSegments[s] /\ g \in TrajectorySegment /\ h \in TrajectorySegment
    /\ h.identity = n /\ h.camera = g.camera /\ h.first = g.first /\ h.last = g.last
    /\ trackSegments' = [trackSegments EXCEPT ![s] = h] /\ identities' = identities
    /\ templates' = _move_features(s, g, n) /\ cut' = cut
Room(i, n, X, Y) ==
    /\ ConsistentBut(X, Y, {}) /\ i \in X
    /\ n \in X \/ identities[n] = NoIdentity
    /\ n \in Y \/ identities[n] # NoIdentity
Passed(s, i, n) ==
    /\ SegmentsOf(i)' = SegmentsOf(i) \ {s} /\ SegmentsOf(n)' = SegmentsOf(n) \cup {s}
    /\ \A S \in SUBSET (SegmentIds \ {s}) : Listed(S)' = Listed(S)
    /\ \A t \in SegmentIds : /\ trackSegments'[t].camera = trackSegments[t].camera
                             /\ trackSegments'[t].first = trackSegments[t].first
                             /\ trackSegments'[t].last = trackSegments[t].last
                             /\ trackSegments'[t] = NoSegment <=> trackSegments[t] = NoSegment

LEMMA SegmentMoves ==
    ASSUME TrajectoryInv, NEW s, NEW g, NEW h, NEW i, NEW n, NEW X, NEW Y, NEW o \in Analysts,
           Passes(s, g, h, i, n), Room(i, n, X, Y)
    PROVE  ConsistentBut(X, Y, {})' /\ Passed(s, i, n)
<1>0. /\ i \in IdentityIds /\ n \in IdentityIds /\ i # n
      /\ s \in SegmentsOf(i) /\ g = trackSegments[s] /\ g \in TrajectorySegment /\ h \in TrajectorySegment
      /\ h.identity = n /\ h.camera = g.camera /\ h.first = g.first /\ h.last = g.last
      /\ trackSegments' = [trackSegments EXCEPT ![s] = h] /\ identities' = identities
      /\ templates' = _move_features(s, g, n) /\ cut' = cut
      /\ ConsistentBut(X, Y, {}) /\ i \in X
      /\ n \in X \/ identities[n] = NoIdentity
      /\ n \in Y \/ identities[n] # NoIdentity
  BY DEF Passes, Room
<1>. USE <1>0
<1>1. /\ s \in SegmentIds /\ trackSegments[s].identity = i /\ g # NoSegment /\ h # NoSegment /\ g.feature = i
      /\ trackSegments \in [SegmentIds -> TrajectorySegment \cup {NoSegment}]
      /\ templates \subseteq SegmentIds \X IdentityIds
  BY ListedOf, AnalystStands, Kinds DEF Numbered
<1>2. trackSegments'[s] = h /\ \A t \in SegmentIds : t # s => trackSegments'[t] = trackSegments[t]
  BY <1>1
<1>3. /\ SegmentsOf(i)' = SegmentsOf(i) \ {s} /\ SegmentsOf(n)' = SegmentsOf(n) \cup {s}
      /\ \A p : p # i /\ p # n => SegmentsOf(p)' = SegmentsOf(p)
  BY <1>1, <1>2 DEF SegmentsOf
<1>4. \A t \in SegmentIds : /\ trackSegments'[t].camera = trackSegments[t].camera
                            /\ trackSegments'[t].first = trackSegments[t].first
                            /\ trackSegments'[t].last = trackSegments[t].last
                            /\ trackSegments'[t] = NoSegment <=> trackSegments[t] = NoSegment
  BY <1>1, <1>2
<1>5. \A S \in SUBSET (SegmentIds \ {s}) : Listed(S)' = Listed(S)
  <2>1. ASSUME NEW S \in SUBSET (SegmentIds \ {s})
        PROVE  {<<t, trackSegments'[t]>> : t \in S} = {<<t, trackSegments[t]>> : t \in S}
    BY <1>2
  <2>. QED BY <2>1 DEF Listed
<1>6. ASSUME NEW p \in IdentityIds \ (X \cup cut), identities'[p] # NoIdentity
      PROVE  ExactOf(identities[p], SegmentsOf(p))'
  <2>1. PICK doc, S : doc = identities[p] /\ S = SegmentsOf(p)
    OBVIOUS
  <2>2. p # i /\ p # n
    BY <1>6
  <2>3. ExactOf(doc, S)
    BY <1>6, <2>1 DEF ConsistentBut
  <2>4. S \in SUBSET SegmentIds
    BY <1>6, <2>1, ListedOf
  <2>5. ExactOf(doc, S)'
    BY <1>4, <2>3, <2>4, StillExact
  <2>6. doc = identities'[p] /\ S = SegmentsOf(p)'
    BY <1>3, <2>1, <2>2
  <2>. QED BY <2>5, <2>6
<1>7. ASSUME NEW t \in SegmentIds, trackSegments'[t] # NoSegment, trackSegments'[t].identity \notin Y \cup cut
      PROVE  identities'[trackSegments'[t].identity] # NoIdentity
  <2>1. CASE t = s
    BY <1>2, <1>7, <2>1
  <2>2. CASE t # s
    BY <1>2, <1>7, <2>2 DEF ConsistentBut
  <2>. QED BY <2>1, <2>2
<1>8. ASSUME NEW t \in templates'
      PROVE  trackSegments'[t[1]].identity = t[2]
  <2>1. CASE t = <<s, n>>
    <3>1. t[1] = s /\ t[2] = n
      BY <2>1
    <3>. QED BY <1>2, <3>1
  <2>2. CASE t # <<s, n>>
    <3>1. t \in templates /\ t # <<s, i>>
      BY <1>1, <1>8, <2>2 DEF _move_features
    <3>2. t[1] \in SegmentIds /\ t = <<t[1], t[2]>> /\ trackSegments[t[1]].identity = t[2]
      BY <1>1, <3>1 DEF ConsistentBut
    <3>3. t[1] # s
      BY <1>1, <3>1, <3>2
    <3>. QED BY <1>2, <3>2, <3>3
  <2>. QED BY <2>1, <2>2
<1>9. ConsistentBut(X, Y, {})'
  BY <1>6, <1>7, <1>8 DEF ConsistentBut
<1>. QED BY <1>3, <1>4, <1>5, <1>9 DEF Passed

LEMMA MoveStands ==
    ASSUME TrajectoryInv, NEW o \in Analysts, NEW q, q = analyst[o], q.at = "move"
    PROVE  /\ q \in AnalystStep /\ q.kind \in {"merge", "split"} /\ q.target \in IdentityIds /\ q.from \in IdentityIds
           /\ q.doc \in LongTermIdentity /\ q.moving \in Listing
           /\ q.target < nextIdentity /\ q.from < nextIdentity /\ q.doc.count < nextSegment
           /\ \A m \in q.moving : m[1] < nextSegment /\ Numbered(m[2])
           /\ q.kind = "merge" => /\ q \in MergeStep /\ q.sources \in Seq(IdentityIds) \ {<<>>}
                                  /\ \A n \in DOMAIN q.sources : q.sources[n] # q.target
           /\ q.kind = "split" => /\ q \in SplitStep /\ q.wanted \in Listing /\ q.left \in Listing
                                  /\ \A m \in q.wanted \cup q.left : m[1] < nextSegment
           /\ AnalystDrawn(q) /\ Busy(o) /\ (~ overlapped => AnalystAgrees(q))
<1>1. q \in AnalystStep /\ AnalystDrawn(q) /\ (~ overlapped => AnalystAgrees(q))
  BY AnalystStands
<1>2. q.kind \in {"merge", "split"} /\ q # Unoccupied
  BY <1>1, AnalystKinds
<1>3. /\ q.target < nextIdentity /\ q.from < nextIdentity /\ q.doc.count < nextSegment
      /\ \A m \in q.moving : m[1] < nextSegment /\ Numbered(m[2])
      /\ q.kind = "merge" => \A n \in DOMAIN q.sources : q.sources[n] # q.target
      /\ q.kind = "split" => \A m \in q.wanted \cup q.left : m[1] < nextSegment
  BY <1>1 DEF AnalystDrawn
<1>4. q.kind = "merge" => q \in MergeStep
  BY <1>1, AnalystKinds
<1>5. q.kind = "split" => q \in SplitStep
  BY <1>1, AnalystKinds
<1>6. CASE q.kind = "merge"
  <2>1. /\ q.target \in IdentityIds /\ q.from \in IdentityIds /\ q.doc \in LongTermIdentity /\ q.moving \in Listing
        /\ q.sources \in Seq(IdentityIds) \ {<<>>}
    BY <1>4, <1>6 DEF MergeStep
  <2>. QED BY <1>1, <1>2, <1>3, <1>4, <1>6, <2>1 DEF Busy
<1>7. CASE q.kind = "split"
  <2>1. /\ q.target \in IdentityIds /\ q.from \in IdentityIds /\ q.doc \in LongTermIdentity /\ q.moving \in Listing
        /\ q.wanted \in Listing /\ q.left \in Listing
    BY <1>5, <1>7 DEF SplitStep
  <2>. QED BY <1>1, <1>2, <1>3, <1>5, <1>7, <2>1 DEF Busy
<1>. QED BY <1>2, <1>6, <1>7

\* The part of the listing that is still to move.
LEMMA ListedLess ==
    ASSUME TrajectoryInv, NEW S \in SUBSET SegmentIds, \A t \in S : trackSegments[t] # NoSegment,
           NEW m \in Listed(S)
    PROVE  Listed(S) \ {m} = Listed(S \ {m[1]}) /\ m[1] \in S /\ m[2] = trackSegments[m[1]]
<1>1. m[1] \in S /\ m[2] = trackSegments[m[1]] /\ m = <<m[1], trackSegments[m[1]]>>
  BY ListedIs
<1>2. ASSUME NEW x
      PROVE  x \in Listed(S) \ {m} <=> x \in Listed(S \ {m[1]})
  <2>1. x \in Listed(S) <=> \E t \in S : x = <<t, trackSegments[t]>>
    BY DEF Listed
  <2>2. x \in Listed(S \ {m[1]}) <=> \E t \in S \ {m[1]} : x = <<t, trackSegments[t]>>
    BY DEF Listed
  <2>. QED BY <1>1, <2>1, <2>2
<1>. QED BY <1>1, <1>2

LEMMA MovedAgrees ==
    ASSUME TrajectoryInv, NEW o \in Analysts, NEW q, q = analyst[o], q.at = "move", NEW m \in q.moving,
           ~ overlapped,
           NEW h \in TrajectorySegment, h.identity = q.target, h.camera = m[2].camera, h.first = m[2].first,
           h.last = m[2].last, trackSegments' = [trackSegments EXCEPT ![m[1]] = h], identities' = identities,
           templates' = _move_features(m[1], m[2], q.target), cut' = cut,
           NEW k, k = [q EXCEPT !.moving = @ \ {m}]
    PROVE  AnalystAgrees(k)'
<1>1. /\ q.kind \in {"merge", "split"} /\ q.target \in IdentityIds /\ q.from \in IdentityIds /\ AnalystAgrees(q)
      /\ q.moving \in Listing
  BY MoveStands
<1>2. PICK F, T, i, n : i = q.from /\ n = q.target /\ F = SegmentsOf(i) /\ T = SegmentsOf(n)
  OBVIOUS
<1>3. F \in SUBSET SegmentIds /\ \A s \in F : trackSegments[s] # NoSegment /\ trackSegments[s].identity = i
  BY <1>1, <1>2, ListedOf
<1>4. CASE q.kind = "merge"
  <2>1. /\ ConsistentBut({n, i}, {}, {}) /\ identities[n] # NoIdentity /\ i # n
        /\ identities[i] # NoIdentity /\ q.moving \subseteq Listed(F) /\ (i \notin cut => q.moving = Listed(F))
    BY <1>1, <1>2, <1>4 DEF AnalystAgrees, Merging
  <2>2. PICK s, g : s = m[1] /\ g = m[2] /\ s \in F /\ g = trackSegments[s] /\ Listed(F) \ {m} = Listed(F \ {s})
    <3>1. m \in Listed(F) /\ F \in SUBSET SegmentIds /\ \A t \in F : trackSegments[t] # NoSegment
      BY <1>3, <2>1
    <3>2. Listed(F) \ {m} = Listed(F \ {m[1]}) /\ m[1] \in F /\ m[2] = trackSegments[m[1]]
      BY <3>1, ListedLess
    <3>. QED BY <3>2
  <2>3. g \in TrajectorySegment
    BY <1>3, <2>2, AnalystStands
  <2>4. /\ ConsistentBut({n, i}, {}, {})'
        /\ SegmentsOf(i)' = F \ {s} /\ SegmentsOf(n)' = T \cup {s}
        /\ \A S \in SUBSET (SegmentIds \ {s}) : Listed(S)' = Listed(S)
    <3>1. PICK X, Y : X = {n, i} /\ Y = {}
      OBVIOUS
    <3>2. Passes(s, g, h, i, n)
      BY <1>1, <1>2, <2>1, <2>2, <2>3 DEF Passes
    <3>3. Room(i, n, X, Y)
      BY <2>1, <3>1 DEF Room
    <3>4. ConsistentBut(X, Y, {})' /\ Passed(s, i, n)
      BY <3>2, <3>3, SegmentMoves
    <3>5. /\ ConsistentBut(X, Y, {})'
          /\ SegmentsOf(i)' = SegmentsOf(i) \ {s} /\ SegmentsOf(n)' = SegmentsOf(n) \cup {s}
          /\ \A S \in SUBSET (SegmentIds \ {s}) : Listed(S)' = Listed(S)
      BY <3>4 DEF Passed
    <3>. QED BY <1>2, <3>1, <3>5
  <2>5. Listed(SegmentsOf(i))' = Listed(F \ {s})
    <3>1. PICK S : S = F \ {s} /\ S \in SUBSET (SegmentIds \ {s})
      BY <1>3
    <3>2. Listed(S)' = Listed(S)
      BY <2>4, <3>1
    <3>. QED BY <2>4, <3>1, <3>2
  <2>6. /\ k.at = "move" /\ k.kind = "merge" /\ k.target = n /\ k.from = i /\ k.moving = q.moving \ {m}
    <3>1. q \in MergeStep
      BY <1>4, MoveStands
    <3>. QED BY <1>2, <3>1 DEF MergeStep
  <2>7. /\ k.moving \subseteq Listed(SegmentsOf(k.from))'
        /\ k.from \notin cut => k.moving = Listed(SegmentsOf(k.from))'
    BY <2>1, <2>2, <2>5, <2>6
  <2>8. Merging(k)'
    BY <2>1, <2>4, <2>6 DEF Merging
  <2>. QED BY <2>1, <2>4, <2>6, <2>7, <2>8 DEF AnalystAgrees
<1>5. CASE q.kind = "split"
  <2>1. PICK W, L : W = q.wanted /\ L = q.left
    OBVIOUS
  <2>2. PICK R : R = F \ Names(L)
    OBVIOUS
  <2>3. /\ ConsistentBut({i}, {n}, {}) /\ identities[i] # NoIdentity /\ identities[n] = NoIdentity /\ i # n
        /\ W # {} /\ L # {} /\ Names(L) \subseteq F /\ (\A x \in W \cup L : Stands(x))
        /\ T \cup Names(q.moving) = Names(W) /\ q.moving \subseteq Listed(R)
        /\ i \notin cut => q.moving = Listed(R)
    BY <1>1, <1>2, <1>5, <2>1, <2>2 DEF AnalystAgrees
  <2>4. PICK s, g : s = m[1] /\ g = m[2] /\ s \in R /\ g = trackSegments[s] /\ Listed(R) \ {m} = Listed(R \ {s})
    <3>1. m \in Listed(R) /\ R \in SUBSET SegmentIds /\ \A t \in R : trackSegments[t] # NoSegment
      BY <1>3, <2>2, <2>3
    <3>2. Listed(R) \ {m} = Listed(R \ {m[1]}) /\ m[1] \in R /\ m[2] = trackSegments[m[1]]
      BY <3>1, ListedLess
    <3>. QED BY <3>2
  <2>5. g \in TrajectorySegment /\ s \in F
    BY <1>3, <2>2, <2>4, AnalystStands
  <2>6. /\ ConsistentBut({i}, {n}, {})'
        /\ SegmentsOf(i)' = F \ {s} /\ SegmentsOf(n)' = T \cup {s}
        /\ \A S \in SUBSET (SegmentIds \ {s}) : Listed(S)' = Listed(S)
        /\ \A t \in SegmentIds : /\ trackSegments'[t].camera = trackSegments[t].camera
                                 /\ trackSegments'[t].first = trackSegments[t].first
                                 /\ trackSegments'[t].last = trackSegments[t].last
                                 /\ trackSegments'[t] = NoSegment <=> trackSegments[t] = NoSegment
    <3>1. PICK X, Y : X = {i} /\ Y = {n}
      OBVIOUS
    <3>2. Passes(s, g, h, i, n)
      BY <1>1, <1>2, <2>3, <2>4, <2>5 DEF Passes
    <3>3. Room(i, n, X, Y)
      BY <2>3, <3>1 DEF Room
    <3>4. ConsistentBut(X, Y, {})' /\ Passed(s, i, n)
      BY <3>2, <3>3, SegmentMoves
    <3>5. /\ ConsistentBut(X, Y, {})'
          /\ SegmentsOf(i)' = SegmentsOf(i) \ {s} /\ SegmentsOf(n)' = SegmentsOf(n) \cup {s}
          /\ \A S \in SUBSET (SegmentIds \ {s}) : Listed(S)' = Listed(S)
          /\ \A t \in SegmentIds : /\ trackSegments'[t].camera = trackSegments[t].camera
                                   /\ trackSegments'[t].first = trackSegments[t].first
                                   /\ trackSegments'[t].last = trackSegments[t].last
                                   /\ trackSegments'[t] = NoSegment <=> trackSegments[t] = NoSegment
      BY <3>4 DEF Passed
    <3>. QED BY <1>2, <3>1, <3>5
  <2>7. /\ k.at = "move" /\ k.kind = "split" /\ k.target = n /\ k.from = i /\ k.moving = q.moving \ {m}
        /\ k.wanted = W /\ k.left = L
    <3>1. q \in SplitStep
      BY <1>5, MoveStands
    <3>. QED BY <1>2, <2>1, <3>1 DEF SplitStep
  <2>8. ASSUME NEW x \in W \cup L
        PROVE  Stands(x)'
    <3>1. x[1] \in SegmentIds
      BY <1>5, <2>1, MoveStands DEF Listing
    <3>. QED BY <2>3, <2>6, <3>1 DEF Stands
  <2>9. /\ k.moving \subseteq Listed(SegmentsOf(k.from) \ Names(k.left))'
        /\ k.from \notin cut => k.moving = Listed(SegmentsOf(k.from) \ Names(k.left))'
    <3>1. PICK S : S = R \ {s} /\ S \in SUBSET (SegmentIds \ {s})
      BY <1>3, <2>2
    <3>2. Listed(S)' = Listed(S)
      BY <2>6, <3>1
    <3>3. (SegmentsOf(k.from) \ Names(k.left))' = S
      BY <2>2, <2>6, <2>7, <3>1 DEF Names
    <3>4. Listed(SegmentsOf(k.from) \ Names(k.left))' = Listed(R) \ {m}
      BY <2>4, <3>1, <3>2, <3>3
    <3>. QED BY <2>3, <2>7, <3>4
  <2>12. Names(k.moving) = Names(q.moving) \ {s} /\ s \in Names(q.moving)
    <3>1. \A x \in q.moving : x[1] = s => x = m
      BY <1>1, <2>4 DEF Listing
    <3>. QED BY <2>4, <2>7, <3>1 DEF Names
  <2>10. Names(L) \subseteq SegmentsOf(i)' /\ SegmentsOf(n)' \cup Names(k.moving) = Names(W)
    <3>1. PICK M : M = Names(q.moving)
      OBVIOUS
    <3>2. T \cup {s} \cup (M \ {s}) = T \cup M
      BY <2>12, <3>1
    <3>3. SegmentsOf(n)' \cup Names(k.moving) = T \cup M
      BY <2>6, <2>12, <3>1, <3>2
    <3>4. Names(L) \subseteq SegmentsOf(i)'
      BY <2>2, <2>3, <2>4, <2>6
    <3>. QED BY <2>3, <3>1, <3>3, <3>4
  <2>11. /\ ConsistentBut({k.from}, {k.target}, {})'
         /\ identities'[k.from] # NoIdentity /\ identities'[k.target] = NoIdentity
         /\ k.wanted # {} /\ k.left # {} /\ Names(k.left) \subseteq SegmentsOf(k.from)'
         /\ \A x \in k.wanted \cup k.left : Stands(x)'
         /\ SegmentsOf(k.target)' \cup Names(k.moving) = Names(k.wanted)
    BY <2>3, <2>6, <2>7, <2>8, <2>10
  <2>. QED BY <2>7, <2>9, <2>11 DEF AnalystAgrees, Names
<1>. QED BY <1>1, <1>4, <1>5

LEMMA SegmentMoved ==
    ASSUME TrajectoryInv, NEW o \in Analysts, Move(o)
    PROVE  TrajectoryInv'
<1>1. PICK q : q = analyst[o]
  OBVIOUS
<1>2. q.at = "move"
  BY <1>1 DEF Move
<1>3. PICK m \in q.moving :
         /\ templates' = _move_features(m[1], m[2], q.target)
         /\ trackSegments' = [trackSegments EXCEPT ![m[1]] =
                [m[2] EXCEPT !.identity = q.target, !.method = "manual", !.feature = q.target]]
         /\ Turns(o, [q EXCEPT !.moving = @ \ {m}])
  BY <1>1 DEF Move
<1>4. PICK h, k : /\ h = [m[2] EXCEPT !.identity = q.target, !.method = "manual", !.feature = q.target]
                  /\ k = [q EXCEPT !.moving = @ \ {m}]
  OBVIOUS
<1>5. /\ q.kind \in {"merge", "split"} /\ q.target \in IdentityIds /\ q.target < nextIdentity /\ AnalystDrawn(q) /\ Busy(o)
      /\ q.moving \in Listing
  BY <1>1, <1>2, MoveStands
<1>6. m[1] \in SegmentIds /\ m[2] \in TrajectorySegment /\ m[1] < nextSegment
  BY <1>1, <1>2, <1>5, MoveStands DEF Listing
<1>7. /\ h \in TrajectorySegment /\ h.identity = q.target /\ h.feature = q.target /\ h.method = "manual"
      /\ h.camera = m[2].camera /\ h.first = m[2].first /\ h.last = m[2].last
  BY <1>4, <1>5, <1>6 DEF TrajectorySegment
<1>8. q.moving \ {m} \in Listing
  BY <1>5 DEF Listing
<1>9. k \in AnalystStep /\ k # Unoccupied /\ AnalystDrawn(k)
  <2>1. CASE q.kind = "merge"
    <3>1. q \in MergeStep
      BY <1>1, <1>2, <2>1, MoveStands
    <3>2. /\ k \in MergeStep /\ k.at = "move" /\ k.kind = "merge" /\ k.target = q.target /\ k.from = q.from
          /\ k.doc = q.doc /\ k.sources = q.sources /\ k.moving = q.moving \ {m}
      BY <1>4, <1>8, <3>1 DEF MergeStep
    <3>3. AnalystDrawn(k)
      BY <1>2, <1>5, <2>1, <3>2 DEF AnalystDrawn
    <3>. QED BY <3>2, <3>3 DEF AnalystStep, Unoccupied
  <2>2. CASE q.kind = "split"
    <3>1. q \in SplitStep
      BY <1>1, <1>2, <2>2, MoveStands
    <3>2. /\ k \in SplitStep /\ k.at = "move" /\ k.kind = "split" /\ k.target = q.target /\ k.from = q.from
          /\ k.doc = q.doc /\ k.moving = q.moving \ {m} /\ k.wanted = q.wanted /\ k.left = q.left
      BY <1>4, <1>8, <3>1 DEF SplitStep
    <3>3. AnalystDrawn(k)
      BY <1>2, <1>5, <2>2, <3>2 DEF AnalystDrawn
    <3>. QED BY <3>2, <3>3 DEF AnalystStep, Unoccupied
  <2>. QED BY <1>5, <2>1, <2>2
<1>10. /\ analyst' = [analyst EXCEPT ![o] = k] /\ trackSegments' = [trackSegments EXCEPT ![m[1]] = h]
       /\ UNCHANGED <<identities, cameraRecords, transitions, ingest, nextIdentity, nextSegment, overlapped, cut>>
  BY <1>3, <1>4 DEF Move, Turns
<1>11. trackSegments'[m[1]] = h /\ \A s \in SegmentIds : s # m[1] => trackSegments'[s] = trackSegments[s]
  BY <1>6, <1>10, AnalystStands
<1>12. \A s \in SegmentIds : \/ trackSegments'[s] \in {trackSegments[s], NoSegment}
                             \/ /\ s < nextSegment' /\ Numbered(trackSegments[s])'
                                /\ trackSegments'[s].method = "manual"
  <2>1. Numbered(trackSegments[m[1]])' /\ trackSegments'[m[1]].method = "manual" /\ m[1] < nextSegment'
    BY <1>5, <1>6, <1>7, <1>10, <1>11 DEF Numbered
  <2>. QED BY <1>11, <2>1
<1>13. AnalystDrawn(k)'
  BY <1>9, <1>10 DEF AnalystDrawn, Numbered
<1>14. ~ overlapped => AnalystAgrees(k)'
  <2>1. /\ q = analyst[o] /\ q.at = "move" /\ m \in q.moving /\ h \in TrajectorySegment /\ h.identity = q.target
        /\ h.camera = m[2].camera /\ h.first = m[2].first /\ h.last = m[2].last
        /\ trackSegments' = [trackSegments EXCEPT ![m[1]] = h] /\ identities' = identities
        /\ templates' = _move_features(m[1], m[2], q.target) /\ cut' = cut /\ k = [q EXCEPT !.moving = @ \ {m}]
    BY <1>1, <1>2, <1>3, <1>4, <1>7, <1>10
  <2>. QED BY <2>1, MovedAgrees
<1>15. /\ templates' \subseteq SegmentIds \X IdentityIds
       /\ identities' \in [IdentityIds -> LongTermIdentity \cup {NoIdentity}]
       /\ trackSegments' \in [SegmentIds -> TrajectorySegment \cup {NoSegment}]
       /\ nextIdentity' \in 1..(MaxIdentities + 1) /\ nextIdentity' >= nextIdentity
       /\ overlapped' \in BOOLEAN
  BY <1>3, <1>5, <1>6, <1>7, <1>10, AnalystStands DEF _move_features
<1>. QED BY <1>5, <1>9, <1>10, <1>12, <1>13, <1>14, <1>15, AnalystSteps

-----------------------------------------------------------------------------
(* The last writes of a request.                                           *)

\* An identity goes that has no segments, unless a listing cut them.
LEMMA IdentityGone ==
    ASSUME TrajectoryInv, NEW o \in Analysts, NEW i \in IdentityIds, NEW X, NEW V, V \subseteq X \cup {i},
           ConsistentBut(V, {}, {}), i \in cut \/ SegmentsOf(i) = {}, cut' = cut,
           identities' = [identities EXCEPT ![i] = NoIdentity],
           trackSegments' = trackSegments, templates' \subseteq templates
    PROVE  ConsistentBut(X, {}, {})' /\ \A p : SegmentsOf(p)' = SegmentsOf(p)
<1>1. identities'[i] = NoIdentity /\ \A p \in IdentityIds : p # i => identities'[p] = identities[p]
  BY AnalystStands
<1>2. \A p : SegmentsOf(p)' = SegmentsOf(p)
  BY DEF SegmentsOf
<1>3. ASSUME NEW p \in IdentityIds \ (X \cup cut), identities'[p] # NoIdentity
      PROVE  ExactOf(identities[p], SegmentsOf(p))'
  <2>1. PICK doc, S : doc = identities[p] /\ S = SegmentsOf(p)
    OBVIOUS
  <2>2. p \notin V \cup cut /\ doc = identities'[p] /\ S = SegmentsOf(p)'
    BY <1>1, <1>2, <1>3, <2>1
  <2>3. ExactOf(doc, S)
    BY <1>3, <2>1, <2>2 DEF ConsistentBut
  <2>4. ExactOf(doc, S)'
    BY <1>3, <2>1, <2>3, ListedOf, StillExact
  <2>. QED BY <2>2, <2>4
<1>4. ASSUME NEW t \in SegmentIds, trackSegments'[t] # NoSegment, trackSegments'[t].identity \notin cut
      PROVE  identities'[trackSegments'[t].identity] # NoIdentity
  <2>1. trackSegments[t].identity # i
    BY <1>4 DEF SegmentsOf
  <2>2. trackSegments[t].identity \in IdentityIds
    BY <1>4, ConsistentStands
  <2>. QED BY <1>1, <1>4, <2>1, <2>2 DEF ConsistentBut
<1>5. ASSUME NEW t \in templates'
      PROVE  trackSegments'[t[1]].identity = t[2]
  BY <1>5 DEF ConsistentBut
<1>. QED BY <1>2, <1>3, <1>4, <1>5 DEF ConsistentBut

\* A summary of its segments is saved.
LEMMA IdentitySaved ==
    ASSUME TrajectoryInv, NEW o \in Analysts, NEW i \in IdentityIds, NEW X, NEW Y, NEW V, NEW W,
           V \subseteq X \cup {i}, W \subseteq Y \cup {i}, ConsistentBut(V, W, {}),
           NEW doc \in LongTermIdentity, i \notin cut => ExactOf(doc, SegmentsOf(i)), cut' = cut,
           identities' = [identities EXCEPT ![i] = doc], UNCHANGED <<trackSegments, templates>>
    PROVE  /\ ConsistentBut(X, Y, {})' /\ \A p : SegmentsOf(p)' = SegmentsOf(p)
<1>1. identities'[i] = doc /\ doc # NoIdentity /\ \A p \in IdentityIds : p # i => identities'[p] = identities[p]
  BY AnalystStands, Kinds
<1>2. \A p : SegmentsOf(p)' = SegmentsOf(p)
  BY DEF SegmentsOf
<1>3. ASSUME NEW p \in IdentityIds, NEW d, ExactOf(d, SegmentsOf(p))
      PROVE  ExactOf(d, SegmentsOf(p))'
  <2>1. PICK S : S = SegmentsOf(p)
    OBVIOUS
  <2>2. S \in SUBSET SegmentIds /\ ExactOf(d, S)
    BY <1>3, <2>1, ListedOf
  <2>3. ExactOf(d, S)'
    BY <2>2, StillExact
  <2>4. S = SegmentsOf(p)'
    BY <1>2, <2>1
  <2>. QED BY <2>3, <2>4
<1>4. ASSUME NEW p \in IdentityIds \ (X \cup cut), identities'[p] # NoIdentity
      PROVE  ExactOf(identities[p], SegmentsOf(p))'
  <2>1. PICK d : d = identities'[p]
    OBVIOUS
  <2>2. ExactOf(d, SegmentsOf(p))
    BY <1>1, <1>4, <2>1 DEF ConsistentBut
  <2>3. ExactOf(d, SegmentsOf(p))'
    BY <1>3, <1>4, <2>2
  <2>. QED BY <2>1, <2>3
<1>5. ASSUME NEW t \in SegmentIds, trackSegments'[t] # NoSegment, trackSegments'[t].identity \notin Y \cup cut
      PROVE  identities'[trackSegments'[t].identity] # NoIdentity
  <2>1. trackSegments[t].identity \in IdentityIds
    BY <1>5, ConsistentStands
  <2>. QED BY <1>1, <1>5, <2>1 DEF ConsistentBut
<1>6. ASSUME NEW t \in templates'
      PROVE  trackSegments'[t[1]].identity = t[2]
  BY <1>6 DEF ConsistentBut
<1>7. ConsistentBut(X, Y, {})'
  BY <1>4, <1>5, <1>6 DEF ConsistentBut
<1>. QED BY <1>2, <1>3, <1>7

LEMMA SourceMerged ==
    ASSUME TrajectoryInv, NEW o \in Analysts, Moved(o)
    PROVE  TrajectoryInv'
<1>1. PICK q, k : /\ q = analyst[o]
                  /\ k = [at |-> "source", target |-> q.target, sources |-> Tail(q.sources), doc |-> q.doc]
  OBVIOUS
<1>2. /\ q.at = "move" /\ q.moving = {} /\ q.kind = "merge"
      /\ templates' = templates \ Templates(q.from)
      /\ identities' = [identities EXCEPT ![q.from] = NoIdentity]
      /\ analyst' = [analyst EXCEPT ![o] = k]
      /\ UNCHANGED <<trackSegments, cameraRecords, transitions, ingest, nextIdentity, nextSegment, overlapped, cut>>
  BY <1>1 DEF Moved, Turns
<1>3. /\ q.target \in IdentityIds /\ q.from \in IdentityIds /\ q.doc \in LongTermIdentity
      /\ q.target < nextIdentity /\ q.doc.count < nextSegment
      /\ q.sources \in Seq(IdentityIds) \ {<<>>} /\ \A n \in DOMAIN q.sources : q.sources[n] # q.target
      /\ Busy(o) /\ (~ overlapped => AnalystAgrees(q))
  BY <1>1, <1>2, MoveStands
<1>4. Tail(q.sources) \in Seq(IdentityIds) /\ \A n \in DOMAIN Tail(q.sources) : Tail(q.sources)[n] # q.target
  <2>1. PICK w : w = q.sources
    OBVIOUS
  <2>2. w \in Seq(IdentityIds) /\ w # <<>> /\ \A n \in DOMAIN w : w[n] # q.target
    BY <1>3, <2>1
  <2>3. Tail(w) \in Seq(IdentityIds) /\ \A n \in DOMAIN Tail(w) : n + 1 \in DOMAIN w /\ Tail(w)[n] = w[n + 1]
    BY <2>2
  <2>. QED BY <2>1, <2>2, <2>3
<1>5. /\ k \in AnalystStep /\ k # Unoccupied /\ k.at = "source" /\ k.target = q.target /\ k.doc = q.doc
      /\ k.sources = Tail(q.sources)
  <2>1. k \in SourceStep
    BY <1>1, <1>3, <1>4 DEF SourceStep
  <2>. QED BY <1>1, <2>1 DEF AnalystStep, Unoccupied
<1>6. AnalystDrawn(k)'
  BY <1>2, <1>3, <1>4, <1>5 DEF AnalystDrawn
<1>7. ~ overlapped => AnalystAgrees(k)'
  <2>1. SUFFICES ASSUME ~ overlapped PROVE AnalystAgrees(k)'
    OBVIOUS
  <2>2. PICK n, i : n = q.target /\ i = q.from
    OBVIOUS
  <2>3. /\ ConsistentBut({n, i}, {}, {}) /\ i # n /\ identities[n] # NoIdentity
        /\ (n \notin cut => SegmentsOf(n) # {}) /\ (i \notin cut => Listed(SegmentsOf(i)) = {})
    BY <1>2, <1>3, <2>1, <2>2 DEF AnalystAgrees, Merging
  <2>4. i \in cut \/ SegmentsOf(i) = {}
    BY <1>3, <2>2, <2>3, ListedOf, ListedIs
  <2>5. /\ i \in IdentityIds /\ identities' = [identities EXCEPT ![i] = NoIdentity] /\ trackSegments' = trackSegments
        /\ templates' \subseteq templates /\ cut' = cut /\ {n, i} \subseteq {n} \cup {i}
    BY <1>2, <1>3, <2>2
  <2>6. ConsistentBut({n}, {}, {})' /\ \A p : SegmentsOf(p)' = SegmentsOf(p)
    BY <2>3, <2>4, <2>5, IdentityGone
  <2>7. identities'[n] = identities[n]
    BY <1>3, <2>2, <2>3, <2>5, AnalystStands
  <2>8. Merging(k)'
    BY <1>5, <2>2, <2>3, <2>5, <2>6, <2>7 DEF Merging
  <2>. QED BY <1>5, <2>2, <2>6, <2>8 DEF AnalystAgrees
<1>8. /\ identities' \in [IdentityIds -> LongTermIdentity \cup {NoIdentity}]
      /\ \A i \in IdentityIds : identities'[i] \in {identities[i], NoIdentity}
  BY <1>2, AnalystStands
<1>9. /\ templates' \subseteq SegmentIds \X IdentityIds /\ overlapped' \in BOOLEAN
      /\ trackSegments' \in [SegmentIds -> TrajectorySegment \cup {NoSegment}]
      /\ nextIdentity' \in 1..(MaxIdentities + 1) /\ nextIdentity' >= nextIdentity
      /\ \A s \in SegmentIds : trackSegments'[s] \in {trackSegments[s], NoSegment}
  BY <1>2, AnalystStands
<1>. QED BY <1>2, <1>3, <1>5, <1>6, <1>7, <1>8, <1>9, AnalystSteps

LEMMA IdentitySplit ==
    ASSUME TrajectoryInv, NEW o \in Analysts, SplitCreated(o)
    PROVE  TrajectoryInv'
<1>1. PICK q : q = analyst[o]
  OBVIOUS
<1>2. PICK n, i, W, L : n = q.target /\ i = q.from /\ W = q.wanted /\ L = q.left
  OBVIOUS
<1>3. PICK confirmed, doc, old, k : /\ confirmed = [q.doc EXCEPT !.status = "confirmed"]
                                    /\ doc = _recompute(confirmed, W) /\ old = _recompute(q.doc, L)
                                    /\ k = [at |-> "save", kind |-> "split", id |-> i, doc |-> old]
  OBVIOUS
<1>4. /\ q.at = "move" /\ q.moving = {} /\ q.kind = "split"
      /\ identities' = [identities EXCEPT ![n] = doc] /\ analyst' = [analyst EXCEPT ![o] = k]
      /\ UNCHANGED <<trackSegments, templates, cameraRecords, transitions, ingest, nextIdentity,
                     nextSegment, overlapped, cut>>
  BY <1>1, <1>2, <1>3 DEF SplitCreated, Turns
<1>5. /\ n \in IdentityIds /\ i \in IdentityIds /\ q.doc \in LongTermIdentity /\ n < nextIdentity /\ i < nextIdentity
      /\ W \in Listing /\ L \in Listing /\ (\A m \in W \cup L : m[1] < nextSegment)
      /\ Busy(o) /\ (~ overlapped => AnalystAgrees(q))
  BY <1>1, <1>2, <1>4, MoveStands
<1>6. confirmed \in LongTermIdentity
  BY <1>3, <1>5 DEF LongTermIdentity
<1>7. nextSegment \in 1..(MaxSegments + 1)
  BY AnalystStands
<1>8. doc \in LongTermIdentity /\ doc.count < nextSegment /\ (W # {} => SummaryOf(doc, W))
  <2>1. \A m \in W : m[1] < nextSegment
    BY <1>5
  <2>. QED BY <1>3, <1>5, <1>6, <1>7, <2>1, RecomputeIs
<1>9. old \in LongTermIdentity /\ old.count < nextSegment /\ (L # {} => SummaryOf(old, L))
  <2>1. \A m \in L : m[1] < nextSegment
    BY <1>5
  <2>. QED BY <1>3, <1>5, <1>7, <2>1, RecomputeIs
<1>10. k \in AnalystStep /\ k # Unoccupied /\ k.at = "save" /\ k.id = i /\ k.doc = old
  <2>1. k \in SaveStep
    BY <1>3, <1>5, <1>9 DEF SaveStep
  <2>. QED BY <1>3, <2>1 DEF AnalystStep, Unoccupied
<1>11. AnalystDrawn(k)'
  BY <1>4, <1>5, <1>9, <1>10 DEF AnalystDrawn
<1>12. ~ overlapped => AnalystAgrees(k)'
  <2>1. SUFFICES ASSUME ~ overlapped PROVE AnalystAgrees(k)'
    OBVIOUS
  <2>2. /\ ConsistentBut({i}, {n}, {}) /\ identities[i] # NoIdentity /\ identities[n] = NoIdentity
        /\ W # {} /\ L # {} /\ Names(L) \subseteq SegmentsOf(i) /\ (\A m \in W \cup L : Stands(m))
        /\ SegmentsOf(n) \cup Names({}) = Names(W)
        /\ i \notin cut => Listed(SegmentsOf(i) \ Names(L)) = {}
    BY <1>2, <1>4, <1>5, <2>1 DEF AnalystAgrees
  <2>3. i \notin cut => SegmentsOf(i) \ Names(L) = {}
    <3>1. PICK R : R = SegmentsOf(i) \ Names(L)
      OBVIOUS
    <3>2. R \in SUBSET SegmentIds /\ \A s \in R : trackSegments[s] # NoSegment
      BY <1>5, <3>1, ListedOf
    <3>. QED BY <2>2, <3>1, <3>2, ListedIs
  <2>4. (i \notin cut => SegmentsOf(i) = Names(L)) /\ SegmentsOf(n) = Names(W)
    <3>1. Names({}) = {}
      BY DEF Names
    <3>. QED BY <2>2, <2>3, <3>1
  <2>5. ExactOf(doc, SegmentsOf(n))
    <3>1. \A m \in W : Stands(m)
      BY <2>2
    <3>2. ExactOf(doc, Names(W))
      BY <1>5, <1>8, <2>2, <3>1, ListedExact
    <3>. QED BY <2>4, <3>2
  <2>6. i \notin cut => ExactOf(old, SegmentsOf(i))
    <3>1. \A m \in L : Stands(m)
      BY <2>2
    <3>2. ExactOf(old, Names(L))
      BY <1>5, <1>9, <2>2, <3>1, ListedExact
    <3>. QED BY <2>4, <3>2
  <2>7. PICK X, Y, V, U : X = {i} /\ Y = {} /\ V = {i} /\ U = {n}
    OBVIOUS
  <2>8. /\ V \subseteq X \cup {n} /\ U \subseteq Y \cup {n} /\ ConsistentBut(V, U, {})
        /\ UNCHANGED <<trackSegments, templates>> /\ cut' = cut
    BY <1>4, <2>2, <2>7
  <2>9. ConsistentBut(X, Y, {})' /\ \A p : SegmentsOf(p)' = SegmentsOf(p)
    BY <1>4, <1>5, <1>8, <2>5, <2>8, IdentitySaved
  <2>10. i \notin cut' => ExactOf(old, SegmentsOf(i))'
    <3>0. SUFFICES ASSUME i \notin cut PROVE ExactOf(old, SegmentsOf(i))'
      BY <2>8
    <3>1. PICK S : S = SegmentsOf(i) /\ S \in SUBSET SegmentIds /\ ExactOf(old, S)
      BY <3>0, <1>5, <2>6, ListedOf
    <3>2. ExactOf(old, S)'
      BY <1>4, <3>1, StillExact
    <3>3. S = SegmentsOf(i)'
      BY <2>9, <3>1
    <3>. QED BY <3>2, <3>3
  <2>11. identities'[i] # NoIdentity
    BY <1>4, <1>5, <2>2, AnalystStands
  <2>. QED BY <1>10, <2>7, <2>9, <2>10, <2>11 DEF AnalystAgrees
<1>13. /\ identities' \in [IdentityIds -> LongTermIdentity \cup {NoIdentity}]
       /\ \A p \in IdentityIds : \/ identities'[p] \in {identities[p], NoIdentity}
                                 \/ p < nextIdentity' /\ identities'[p].count < nextSegment'
  BY <1>4, <1>5, <1>8, AnalystStands
<1>14. /\ templates' \subseteq SegmentIds \X IdentityIds /\ overlapped' \in BOOLEAN
       /\ trackSegments' \in [SegmentIds -> TrajectorySegment \cup {NoSegment}]
       /\ nextIdentity' \in 1..(MaxIdentities + 1) /\ nextIdentity' >= nextIdentity
       /\ \A s \in SegmentIds : trackSegments'[s] \in {trackSegments[s], NoSegment}
  BY <1>4, AnalystStands
<1>. QED BY <1>4, <1>5, <1>10, <1>11, <1>12, <1>13, <1>14, AnalystSteps

LEMMA RecordSaved ==
    ASSUME TrajectoryInv, NEW o \in Analysts, Save(o)
    PROVE  TrajectoryInv'
<1>1. PICK q, i, doc : q = analyst[o] /\ i = q.id /\ doc = q.doc
  OBVIOUS
<1>2. /\ q.at = "save" /\ identities' = [identities EXCEPT ![i] = doc]
      /\ analyst' = [analyst EXCEPT ![o] = Unoccupied]
      /\ UNCHANGED <<trackSegments, templates, cameraRecords, transitions, ingest, nextIdentity,
                     nextSegment, overlapped, cut>>
  BY <1>1 DEF Save, Turns
<1>3. q \in SaveStep /\ AnalystDrawn(q) /\ Busy(o) /\ (~ overlapped => AnalystAgrees(q))
  BY <1>1, <1>2, AnalystStands, AnalystKinds DEF Busy
<1>4. i \in IdentityIds /\ doc \in LongTermIdentity /\ i < nextIdentity /\ doc.count < nextSegment
  BY <1>1, <1>2, <1>3 DEF SaveStep, AnalystDrawn
<1>5. Unoccupied \in AnalystStep /\ AnalystDrawn(Unoccupied)' /\ AnalystAgrees(Unoccupied)'
  BY DEF AnalystStep, Unoccupied, AnalystDrawn, AnalystAgrees
<1>6. ~ overlapped => Consistent'
  <2>1. SUFFICES ASSUME ~ overlapped PROVE ConsistentBut({}, {}, {})'
    BY DEF Consistent
  <2>2. ConsistentBut({i}, {}, {}) /\ (i \notin cut => ExactOf(doc, SegmentsOf(i)))
    BY <1>1, <1>2, <1>3, <2>1 DEF AnalystAgrees
  <2>3. PICK X, Y, V : X = {} /\ Y = {} /\ V = {i}
    OBVIOUS
  <2>4. /\ V \subseteq X \cup {i} /\ Y \subseteq Y \cup {i} /\ ConsistentBut(V, Y, {})
        /\ UNCHANGED <<trackSegments, templates>> /\ cut' = cut
    BY <1>2, <2>2, <2>3
  <2>5. ConsistentBut(X, Y, {})'
    BY <1>2, <1>4, <2>2, <2>4, IdentitySaved
  <2>. QED BY <2>3, <2>5
<1>7. /\ identities' \in [IdentityIds -> LongTermIdentity \cup {NoIdentity}]
      /\ \A p \in IdentityIds : \/ identities'[p] \in {identities[p], NoIdentity}
                                \/ p < nextIdentity' /\ identities'[p].count < nextSegment'
  BY <1>2, <1>4, AnalystStands
<1>8. /\ templates' \subseteq SegmentIds \X IdentityIds /\ overlapped' \in BOOLEAN
      /\ trackSegments' \in [SegmentIds -> TrajectorySegment \cup {NoSegment}]
      /\ nextIdentity' \in 1..(MaxIdentities + 1) /\ nextIdentity' >= nextIdentity
      /\ \A s \in SegmentIds : trackSegments'[s] \in {trackSegments[s], NoSegment}
  BY <1>2, AnalystStands
<1>. QED BY <1>2, <1>3, <1>5, <1>6, <1>7, <1>8, AnalystSteps

LEMMA SegmentsDeleted ==
    ASSUME TrajectoryInv, NEW o \in Analysts, delete_segments_for_identity(o)
    PROVE  TrajectoryInv'
<1>1. PICK q, i, k : q = analyst[o] /\ i = q.id /\ k = [q EXCEPT !.at = "delete_identity"]
  OBVIOUS
<1>2. /\ q.at = "delete_segments" /\ analyst' = [analyst EXCEPT ![o] = k]
      /\ trackSegments' = [s \in SegmentIds |-> IF s \in SegmentsOf(i) THEN NoSegment ELSE trackSegments[s]]
      /\ UNCHANGED <<identities, templates, cameraRecords, transitions, ingest, nextIdentity, nextSegment,
                     overlapped, cut>>
  BY <1>1 DEF delete_segments_for_identity, Turns
<1>3. q \in ErasureStep /\ AnalystDrawn(q) /\ Busy(o) /\ (~ overlapped => AnalystAgrees(q))
  BY <1>1, <1>2, AnalystStands, AnalystKinds DEF Busy
<1>4. i \in IdentityIds /\ i < nextIdentity
  BY <1>1, <1>2, <1>3 DEF ErasureStep, AnalystDrawn
<1>5. k \in AnalystStep /\ k # Unoccupied /\ k.at = "delete_identity" /\ k.id = i
  <2>1. k = [at |-> "delete_identity", id |-> i]
    BY <1>1, <1>3 DEF ErasureStep
  <2>2. k \in ErasureStep
    BY <1>4, <2>1 DEF ErasureStep
  <2>. QED BY <2>1, <2>2 DEF AnalystStep, Unoccupied
<1>6. AnalystDrawn(k)'
  BY <1>2, <1>4, <1>5 DEF AnalystDrawn
<1>7. /\ trackSegments' \in [SegmentIds -> TrajectorySegment \cup {NoSegment}]
      /\ \A s \in SegmentIds : IF trackSegments[s].identity = i THEN trackSegments'[s] = NoSegment
                               ELSE trackSegments'[s] = trackSegments[s]
  BY <1>2, AnalystStands DEF SegmentsOf
<1>8. ~ overlapped => AnalystAgrees(k)'
  <2>1. SUFFICES ASSUME ~ overlapped PROVE AnalystAgrees(k)'
    OBVIOUS
  <2>2. ConsistentBut({}, {}, {}) /\ identities[i] # NoIdentity /\ Templates(i) = {}
    BY <1>1, <1>2, <1>3, <2>1 DEF AnalystAgrees, Consistent
  <2>3. SegmentsOf(i)' = {} /\ \A p \in IdentityIds : p # i => SegmentsOf(p)' = SegmentsOf(p)
    BY <1>4, <1>7, Kinds DEF SegmentsOf
  <2>4. ASSUME NEW p \in IdentityIds \ ({i} \cup cut), identities'[p] # NoIdentity
        PROVE  ExactOf(identities[p], SegmentsOf(p))'
    <3>1. PICK doc, S : doc = identities[p] /\ S = SegmentsOf(p)
      OBVIOUS
    <3>2. ExactOf(doc, S) /\ S \in SUBSET SegmentIds /\ \A s \in S : trackSegments[s].identity = p
      BY <1>2, <2>2, <2>4, <3>1, ListedOf DEF ConsistentBut
    <3>3. \A s \in S : trackSegments'[s] = trackSegments[s]
      BY <1>7, <2>4, <3>2
    <3>4. ExactOf(doc, S)'
      BY <3>2, <3>3, StillExact
    <3>5. doc = identities'[p] /\ S = SegmentsOf(p)'
      BY <1>2, <2>3, <2>4, <3>1
    <3>. QED BY <3>4, <3>5
  <2>5. ASSUME NEW s \in SegmentIds, trackSegments'[s] # NoSegment, trackSegments'[s].identity \notin cut
        PROVE  identities'[trackSegments'[s].identity] # NoIdentity
    BY <1>2, <1>7, <2>2, <2>5 DEF ConsistentBut
  <2>6. ASSUME NEW t \in templates'
        PROVE  trackSegments'[t[1]].identity = t[2]
    <3>1. t \in templates /\ t[2] # i
      BY <1>2, <2>2, <2>6 DEF Templates
    <3>2. t[1] \in SegmentIds /\ trackSegments[t[1]].identity = t[2]
      BY <2>2, <3>1, ConsistentStands DEF ConsistentBut
    <3>. QED BY <1>7, <3>1, <3>2
  <2>7. ConsistentBut({i}, {}, {})'
    BY <1>2, <2>4, <2>5, <2>6 DEF ConsistentBut
  <2>. QED BY <1>2, <1>5, <2>2, <2>3, <2>7 DEF AnalystAgrees
<1>9. /\ templates' \subseteq SegmentIds \X IdentityIds /\ overlapped' \in BOOLEAN
      /\ identities' \in [IdentityIds -> LongTermIdentity \cup {NoIdentity}]
      /\ nextIdentity' \in 1..(MaxIdentities + 1) /\ nextIdentity' >= nextIdentity
      /\ \A s \in SegmentIds : trackSegments'[s] \in {trackSegments[s], NoSegment}
      /\ \A p \in IdentityIds : identities'[p] \in {identities[p], NoIdentity}
  BY <1>2, <1>7, AnalystStands
<1>. QED BY <1>2, <1>3, <1>5, <1>6, <1>7, <1>8, <1>9, AnalystSteps

LEMMA RecordDeleted ==
    ASSUME TrajectoryInv, NEW o \in Analysts, DeleteIdentityRecord(o)
    PROVE  TrajectoryInv'
<1>1. PICK q, i : q = analyst[o] /\ i = q.id
  OBVIOUS
<1>2. /\ q.at = "delete_identity" /\ identities' = [identities EXCEPT ![i] = NoIdentity]
      /\ analyst' = [analyst EXCEPT ![o] = Unoccupied]
      /\ UNCHANGED <<trackSegments, templates, cameraRecords, transitions, ingest, nextIdentity,
                     nextSegment, overlapped, cut>>
  BY <1>1 DEF DeleteIdentityRecord, Turns
<1>3. q \in ErasureStep /\ AnalystDrawn(q) /\ Busy(o) /\ (~ overlapped => AnalystAgrees(q))
  BY <1>1, <1>2, AnalystStands, AnalystKinds DEF Busy
<1>4. i \in IdentityIds
  BY <1>1, <1>3 DEF ErasureStep
<1>5. Unoccupied \in AnalystStep /\ AnalystDrawn(Unoccupied)' /\ AnalystAgrees(Unoccupied)'
  BY DEF AnalystStep, Unoccupied, AnalystDrawn, AnalystAgrees
<1>6. ~ overlapped => Consistent'
  <2>1. SUFFICES ASSUME ~ overlapped PROVE ConsistentBut({}, {}, {})'
    BY DEF Consistent
  <2>2. ConsistentBut({i}, {}, {}) /\ SegmentsOf(i) = {}
    BY <1>1, <1>2, <1>3, <2>1 DEF AnalystAgrees
  <2>3. PICK X, V : X = {} /\ V = {i}
    OBVIOUS
  <2>4. /\ V \subseteq X \cup {i} /\ ConsistentBut(V, {}, {}) /\ trackSegments' = trackSegments /\ cut' = cut
        /\ templates' \subseteq templates
    BY <1>2, <2>2, <2>3
  <2>5. ConsistentBut(X, {}, {})'
    BY <1>2, <1>4, <2>2, <2>4, IdentityGone
  <2>. QED BY <2>3, <2>5
<1>7. /\ identities' \in [IdentityIds -> LongTermIdentity \cup {NoIdentity}]
      /\ \A p \in IdentityIds : identities'[p] \in {identities[p], NoIdentity}
  BY <1>2, AnalystStands
<1>8. /\ templates' \subseteq SegmentIds \X IdentityIds /\ overlapped' \in BOOLEAN
      /\ trackSegments' \in [SegmentIds -> TrajectorySegment \cup {NoSegment}]
      /\ nextIdentity' \in 1..(MaxIdentities + 1) /\ nextIdentity' >= nextIdentity
      /\ \A s \in SegmentIds : trackSegments'[s] \in {trackSegments[s], NoSegment}
  BY <1>2, AnalystStands
<1>. QED BY <1>2, <1>3, <1>5, <1>6, <1>7, <1>8, AnalystSteps

------------------------------------------------------------------------------

LEMMA TrajectoryStarts ==
    ASSUME TrajectoryInit
    PROVE  TrajectoryInv
<1>1. /\ \A i \in IdentityIds : identities[i] = NoIdentity
      /\ \A s \in SegmentIds : trackSegments[s] = NoSegment
      /\ \A r \in Executions : ingest[r] = Waiting
      /\ \A o \in Analysts : analyst[o] = Unoccupied
      /\ templates = {} /\ transitions = {} /\ overlapped = FALSE /\ cut = {}
  BY DEF TrajectoryInit
<1>2. TrajectoryTypes
  <2>1. nextIdentity \in 1..(MaxIdentities + 1) /\ nextSegment \in 1..(MaxSegments + 1)
    BY Sizes DEF TrajectoryInit
  <2>2. Waiting \in IngestStep /\ Unoccupied \in AnalystStep /\ "none" \in CameraRecord
    BY DEF IngestStep, AnalystStep, CameraRecord
  <2>. QED BY <2>1, <2>2 DEF TrajectoryInit, TrajectoryTypes
<1>3. Drawn
  <2>1. RunDrawn(Waiting) /\ AnalystDrawn(Unoccupied)
    BY DEF RunDrawn, AnalystDrawn, Waiting, Unoccupied
  <2>. QED BY <1>1, <2>1 DEF Drawn
<1>4. Apart
  <2>1. Unclaimed(Waiting) /\ \A s \in SegmentIds : ~ Matched(s)
    BY <1>1 DEF Unclaimed, Waiting, Matched
  <2>. QED BY <1>1, <2>1 DEF Apart
<1>5. Orderly
  <2>1. \A r \in Executions : RunAgrees(r, Waiting)
    BY DEF RunAgrees, Waiting
  <2>2. AnalystAgrees(Unoccupied)
    BY DEF AnalystAgrees, Unoccupied
  <2>3. Consistent
    BY <1>1 DEF Consistent, ConsistentBut
  <2>4. Alone
    BY <1>1 DEF Alone, Working, Busy
  <2>. QED BY <1>1, <2>1, <2>2, <2>3, <2>4 DEF Orderly
<1>. QED BY <1>2, <1>3, <1>4, <1>5 DEF TrajectoryInv

LEMMA TrajectoryContinues ==
    ASSUME TrajectoryInv, [TrajectoryNext]_trajectoryVars
    PROVE  TrajectoryInv'
<1>1. CASE UNCHANGED trajectoryVars
  <2>1. UNCHANGED <<identities, trackSegments, templates, cameraRecords, transitions, ingest, analyst,
                    nextIdentity, nextSegment, overlapped, cut>>
    BY <1>1 DEF trajectoryVars
  <2>2. cameraRecords' \in [Cameras -> CameraRecord] /\ transitions' \subseteq CameraTransition
    BY <2>1 DEF TrajectoryInv, TrajectoryTypes
  <2>. QED BY <2>1, <2>2, CameraSteps
<1>2. ASSUME NEW c \in Cameras,
             \/ register_camera(c) \/ delete_camera(c)
             \/ \E new \in TransitionSets : set_camera_transitions(c, new)
      PROVE  TrajectoryInv'
  BY <1>2, CamerasChange
<1>3. ASSUME NEW r \in Executions,
             \/ ingest_run_tracks(r) \/ _candidates(r) \/ Choose(r) \/ Load(r) \/ _store_templates(r)
             \/ put_segment(r) \/ put_identity(r) \/ _prune_templates(r) \/ Ingested(r) \/ Stop(r)
      PROVE  TrajectoryInv'
  BY <1>3, IngestBegins, SearchAnswers, CandidateChosen, CandidateLoaded, TemplatesStored, SegmentStored,
     IdentityStored, TemplatesPruned, IngestEnds, IngestStops
<1>4. ASSUME NEW o \in Analysts,
             \/ \E i \in IdentityIds : \E q \in SourceOrders[i] : merge_identities(o, i, q)
             \/ \E i \in IdentityIds, S \in SUBSET SegmentIds : split_identity(o, i, S)
             \/ \E i \in IdentityIds, status \in {"confirmed", "rejected"} : update_identity(o, i, status)
             \/ \E i \in IdentityIds : delete_identity(o, i)
      PROVE  TrajectoryInv'
  BY <1>4, MergeBegins, SplitBegins, UpdateBegins, DeleteBegins
<1>5. ASSUME NEW o \in Analysts,
             \/ NextSource(o) \/ Move(o) \/ Moved(o) \/ Recount(o) \/ SplitCreated(o) \/ Save(o)
             \/ delete_segments_for_identity(o) \/ DeleteIdentityRecord(o) \/ StopAnalyst(o)
      PROVE  TrajectoryInv'
  BY <1>5, SourceTaken, SegmentMoved, SourceMerged, Recounting, IdentitySplit, RecordSaved, SegmentsDeleted,
     RecordDeleted, RequestStops
<1>. QED BY <1>1, <1>2, <1>3, <1>4, <1>5 DEF TrajectoryNext

LEMMA TrajectoryHolds ==
    ASSUME TrajectoryInv
    PROVE  TrajectorySound
<1>1. TrajectoryTypeOK
  BY DEF TrajectoryInv, TrajectoryTypes, TrajectoryTypeOK
<1>2. ASSUME NEW s \in SegmentIds, NEW t \in SegmentIds, s # t, NoSegment \notin {trackSegments[s], trackSegments[t]},
             trackSegments[s].method # "manual", trackSegments[t].method # "manual",
             trackSegments[s].execution = trackSegments[t].execution, trackSegments[s].identity = trackSegments[t].identity
      PROVE  ~ _windows_overlap(Window(s), Window(t))
  BY <1>2 DEF TrajectoryInv, Apart, Matched
<1>3. ASSUME ~ overlapped, AtRestNow
      PROVE  /\ \A i \in IdentityIds \ cut : identities[i] # NoIdentity => Exact(i)
             /\ \A s \in SegmentIds : trackSegments[s] # NoSegment /\ trackSegments[s].identity \notin cut =>
                   identities[trackSegments[s].identity] # NoIdentity
             /\ \A t \in templates : trackSegments[t[1]].identity = t[2] /\ trackSegments[t[1]].feature = t[2]
  <2>1. ConsistentBut({}, {}, {})
    BY <1>3 DEF TrajectoryInv, Orderly, Consistent
  <2>2. \A i \in IdentityIds \ cut : identities[i] # NoIdentity => Exact(i)
    BY <2>1 DEF ConsistentBut, ExactOf, Exact
  <2>3. ASSUME NEW t \in templates
        PROVE  trackSegments[t[1]].identity = t[2] /\ trackSegments[t[1]].feature = t[2]
    <3>1. t[1] \in SegmentIds /\ t[2] \in IdentityIds /\ trackSegments[t[1]].identity = t[2]
      BY <2>1, <2>3, ConsistentStands DEF ConsistentBut
    <3>2. trackSegments[t[1]] # NoSegment
      BY <3>1, Kinds
    <3>. QED BY <3>1, <3>2 DEF TrajectoryInv, Drawn, Numbered
  <2>. QED BY <2>1, <2>2, <2>3 DEF ConsistentBut
<1>. QED BY <1>1, <1>2, <1>3 DEF TrajectorySound

\* Whatever operators merge, split, rename or delete meanwhile, wherever a worker or an
\* operator stops and however often a Run is delivered, one execution of a Run never
\* matches two tracklets that overlap in time to one identity; and once requests and
\* redeliveries that did not overlap have ended, every template belongs to the identity
\* of its segment, and, but for identities with more segments than a request for them
\* was answered, every segment belongs to an identity that exists and every identity's
\* summary says of its segments what they say.
THEOREM TrajectoryIsSound == TrajectorySpec => []TrajectorySound
<1>1. TrajectoryInit => TrajectoryInv
  BY TrajectoryStarts
<1>2. TrajectoryInv /\ [TrajectoryNext]_trajectoryVars => TrajectoryInv'
  BY TrajectoryContinues
<1>3. TrajectoryInv => TrajectorySound
  BY TrajectoryHolds
<1>. QED BY <1>1, <1>2, <1>3, PTL DEF TrajectorySpec
=============================================================================
