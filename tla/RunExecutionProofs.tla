------------------------- MODULE RunExecutionProofs -------------------------
(***************************************************************************)
(* Machine-checked proofs about RunExecution, for every set of runs,       *)
(* entries, workers and clients and every bound.                           *)
(***************************************************************************)
EXTENDS RunExecution, TLAPS

USE ConstantsAssumption DEF S!Terminal, S!Active, S!RunStatus, S!Unstored, Terminal, RunStatus

-----------------------------------------------------------------------------
(* Type correctness. *)

\* The type of a copy of a record, and the effect of save_run on the types.
LEMMA CopyType ==
  ASSUME TypeOK, NEW r \in Runs
  PROVE  Copy(r) \in Copies /\ NoCopy \in Copies /\ Created \in Copies
BY ConstantsAssumption DEF TypeOK, Copy, Copies, NoCopy, Created

LEMMA SaveType ==
  ASSUME TypeOK, NEW r \in Runs, NEW s \in RunStatus, NEW p \in 0..MaxProgress, Save(r, s, p)
  PROVE  /\ status' \in [Runs -> RunStatus \cup S!Unstored]
         /\ rev' \in [Runs -> Nat]
         /\ progress' \in [Runs -> 0..MaxProgress]
BY DEF TypeOK, Save

LEMMA SetStatusType ==
  ASSUME TypeOK, NEW r \in Runs, NEW s \in RunStatus, NEW copy \in Copies, SetStatus(r, s, copy)
  PROVE  /\ status' \in [Runs -> RunStatus \cup S!Unstored]
         /\ rev' \in [Runs -> Nat]
         /\ progress' \in [Runs -> 0..MaxProgress]
         /\ started' \in [Runs -> BOOLEAN]
<1>1. copy.prog \in 0..MaxProgress
  BY DEF Copies
<1>. QED BY <1>1, SaveType DEF SetStatus, TypeOK

LEMMA ReleaseType ==
  ASSUME TypeOK, NEW w \in Workers, Release(w)
  PROVE  /\ pc' \in [Workers -> WorkerPCs]
         /\ job' \in [Workers -> Runs \cup {NoRun}]
         /\ got' \in [Workers -> Entries \cup {NoEntry}]
         /\ seen' \in [Workers -> Copies]
         /\ tries' \in [Workers -> 0..MaxTries]
         /\ lease' \in [Workers -> BOOLEAN]
         /\ op' \in [Workers -> {"none", "run", "save"}]
         /\ opSeen' \in [Workers -> Copies]
BY ConstantsAssumption DEF TypeOK, Release, Goto, WorkerPCs, Copies, NoCopy

LEMMA ApiType ==
  ASSUME TypeOK, NEW r \in Runs, Api(r) \/ ApiCrash(r)
  PROVE  TypeOK'
<1>1. CASE CreateRun(r)
  BY <1>1 DEF CreateRun, TypeOK, queue, worker, optask, client, bounds
<1>2. CASE Consume(r)
  BY <1>2 DEF Consume, TypeOK, record, queue, worker, optask, client, bounds
<1>3. CASE ConsumeFails(r)
  BY <1>3 DEF ConsumeFails, TypeOK, queue, worker, optask, client, bounds
<1>4. CASE Enqueue(r)
  BY <1>4 DEF Enqueue, AddEntry, TypeOK, record, worker, optask, client, bounds
<1>5. CASE EnqueueRaises(r)
  <2>1. CASE \E e \in Entries : AddEntry(e, r)
    BY <1>5, <2>1 DEF EnqueueRaises, AddEntry, TypeOK, record, worker, optask, client, bounds
  <2>2. CASE UNCHANGED <<entry, entryRun>>
    BY <1>5, <2>2 DEF EnqueueRaises, TypeOK, record, worker, optask, client, bounds
  <2>. QED BY <1>5, <2>1, <2>2 DEF EnqueueRaises
<1>6. CASE QueueUnavailable(r)
  <2>1. CASE Fresh(r, Created)
    <3>1. SetStatus(r, "failed", Created) /\ Created \in Copies
      BY <1>6, <2>1, CopyType DEF QueueUnavailable
    <3>. QED BY <1>6, <3>1, SetStatusType DEF QueueUnavailable, TypeOK, queue, worker, optask, client, bounds
  <2>2. CASE ~Fresh(r, Created)
    BY <1>6, <2>2 DEF QueueUnavailable, TypeOK, record, queue, worker, optask, client, bounds
  <2>. QED BY <2>1, <2>2
<1>7. CASE ApiCrash(r)
  BY <1>7 DEF ApiCrash, TypeOK, record, queue, worker, optask, client
<1>. QED BY <1>1, <1>2, <1>3, <1>4, <1>5, <1>6, <1>7 DEF Api

LEMMA EndRequestType ==
  ASSUME TypeOK, NEW c \in Clients, EndRequest(c)
  PROVE  /\ cpc' \in [Clients -> {"idle", "read", "save"}]
         /\ req' \in [Clients -> [run : Runs \cup {NoRun}, act : {"none", "pause", "resume", "cancel"}]]
         /\ cseen' \in [Clients -> Copies]
         /\ ctries' \in [Clients -> 0..MaxTries]
BY ConstantsAssumption DEF TypeOK, EndRequest, Copies, NoCopy

LEMMA DeliverType ==
  ASSUME TypeOK, NEW w \in Workers, NEW e \in Entries, Deliver(w, e)
  PROVE  /\ entry' \in [Entries -> {"free", "new", "pending", "acked", "lost"}]
         /\ stale' \in [Entries -> BOOLEAN]
         /\ pc' \in [Workers -> WorkerPCs]
         /\ job' \in [Workers -> Runs \cup {NoRun}]
         /\ got' \in [Workers -> Entries \cup {NoEntry}]
         /\ UNCHANGED <<entryRun, seen, tries, lease>>
BY DEF TypeOK, Deliver, Goto, WorkerPCs

LEMMA ClientType ==
  ASSUME TypeOK, NEW c \in Clients, \A d \in Clients : ClientInv(d),
         \/ Client(c)
         \/ \E r \in Runs, act \in {"pause", "resume", "cancel"} : Request(c, r, act)
  PROVE  TypeOK'
<1>. NoCopy \in Copies
  BY ConstantsAssumption DEF NoCopy, Copies
<1>1. CASE \E r \in Runs, act \in {"pause", "resume", "cancel"} : Request(c, r, act)
  BY <1>1 DEF Request, TypeOK, record, queue, worker, optask
<1>2. CASE TransitionRead(c)
  <2>1. CASE Allowed(req[c].run, req[c].act, status[req[c].run])
    <3>1. Copy(req[c].run) \in Copies
      BY <1>2, CopyType DEF ClientInv, TransitionRead, TypeOK
    <3>2. /\ cpc' = [cpc EXCEPT ![c] = "save"]
          /\ cseen' = [cseen EXCEPT ![c] = Copy(req[c].run)]
          /\ UNCHANGED <<req, ctries>>
      BY <1>2, <2>1 DEF TransitionRead
    <3>3. cseen' \in [Clients -> Copies]
      BY <3>1, <3>2 DEF TypeOK
    <3>. QED BY <1>2, <3>2, <3>3 DEF TransitionRead, TypeOK, record, queue, worker, optask, bounds
  <2>2. CASE ~Allowed(req[c].run, req[c].act, status[req[c].run])
    <3>1. EndRequest(c)
      BY <1>2, <2>2 DEF TransitionRead
    <3>. QED BY <1>2, <3>1, EndRequestType DEF TransitionRead, TypeOK, record, queue, worker, optask, bounds
  <2>. QED BY <2>1, <2>2
<1>3. CASE TransitionSave(c)
  <2>. DEFINE r == req[c].run
  <2>0. r \in Runs
    BY <1>3 DEF ClientInv, TransitionSave
  <2>1. CASE Fresh(r, cseen[c])
    <3>1. Target(req[c].act, cseen[c].st) \in RunStatus
      BY DEF Target
    <3>2. SetStatus(r, Target(req[c].act, cseen[c].st), cseen[c]) /\ EndRequest(c) /\ cseen[c] \in Copies
      BY <1>3, <2>1 DEF TransitionSave, TypeOK
    <3>. HIDE DEF r
    <3>. QED BY <1>3, <2>0, <3>1, <3>2, SetStatusType, EndRequestType
         DEF TransitionSave, TypeOK, queue, worker, optask, bounds
  <2>2. CASE ~Fresh(r, cseen[c])
    <3>1. CASE ctries[c] + 1 < MaxTries
      <4>1. /\ cpc' = [cpc EXCEPT ![c] = "read"]
            /\ ctries' = [ctries EXCEPT ![c] = @ + 1]
            /\ cseen' = [cseen EXCEPT ![c] = NoCopy]
            /\ UNCHANGED <<record, req>>
        BY <1>3, <2>2, <3>1 DEF TransitionSave, Again
      <4>. QED BY <1>3, <3>1, <4>1 DEF TransitionSave, TypeOK, record, queue, worker, optask, bounds
    <3>2. CASE ~(ctries[c] + 1 < MaxTries)
      <4>1. EndRequest(c)
        BY <1>3, <2>2, <3>2 DEF TransitionSave, Again
      <4>. QED BY <1>3, <2>2, <4>1, EndRequestType DEF TransitionSave, TypeOK, record, queue, worker, optask, bounds
    <3>. QED BY <3>1, <3>2
  <2>. QED BY <2>1, <2>2
<1>. QED BY <1>1, <1>2, <1>3 DEF Client

\* The consumer loop, the leases and crashes.
LEMMA LoopType ==
  ASSUME TypeOK, NEW w \in Workers, WorkerInv(w),
         Autoclaim(w) \/ ReadGroup(w) \/ Ack(w) \/ Lapse(w) \/ LeaseLost(w) \/ Crash(w)
  PROVE  TypeOK'
<1>1. CASE Autoclaim(w)
  <2>1. CASE \E e \in Claimable : Deliver(w, e)
    <3>1. PICK e \in Entries : Deliver(w, e)
      BY <2>1 DEF Claimable
    <3>. QED BY <1>1, <3>1, DeliverType DEF Autoclaim, TypeOK, record, optask, client, bounds
  <2>2. CASE Goto(w, "read") /\ UNCHANGED <<queue, job, got, seen, tries, lease>>
    BY <1>1, <2>2 DEF Autoclaim, Goto, WorkerPCs, TypeOK, record, queue, optask, client, bounds
  <2>. QED BY <1>1, <2>1, <2>2 DEF Autoclaim
<1>2. CASE ReadGroup(w)
  <2>1. CASE \E e \in Entries : entry[e] = "new" /\ Deliver(w, e)
    <3>1. PICK e \in Entries : Deliver(w, e)
      BY <2>1
    <3>. QED BY <1>2, <3>1, DeliverType DEF ReadGroup, TypeOK, record, optask, client, bounds
  <2>2. CASE Goto(w, "claim") /\ UNCHANGED <<queue, job, got, seen, tries, lease>>
    BY <1>2, <2>2 DEF ReadGroup, Goto, WorkerPCs, TypeOK, record, queue, optask, client, bounds
  <2>. QED BY <1>2, <2>1, <2>2 DEF ReadGroup
<1>3. CASE Ack(w)
  BY <1>3, ReleaseType DEF Ack, TypeOK, record, client, bounds
<1>4. CASE Lapse(w)
  <2>1. got[w] \in Entries /\ lease' \in [Workers -> BOOLEAN]
    BY <1>4 DEF Lapse, WorkerInv, TypeOK
  <2>. QED BY <1>4, <2>1 DEF Lapse, TypeOK, record, optask, client
<1>5. CASE LeaseLost(w)
  BY <1>5 DEF LeaseLost, TypeOK, record, queue, optask, client, bounds
<1>6. CASE Crash(w)
  BY <1>6, ReleaseType DEF Crash, Exit, TypeOK, record, queue, client
<1>. QED BY <1>1, <1>2, <1>3, <1>4, <1>5, <1>6

LEMMA EntryType ==
  ASSUME TypeOK, (\E e \in Entries : Expire(e)) \/ RedisLoss \/ RecoverRead \/ RecoverRebuild
  PROVE  TypeOK'
<1>1. CASE \E e \in Entries : Expire(e)
  BY <1>1 DEF Expire, TypeOK, record, worker, optask, client, bounds
<1>2. CASE RedisLoss
  BY <1>2 DEF RedisLoss, TypeOK, record, worker, optask, client
<1>3. CASE RecoverRead
  BY <1>3 DEF RecoverRead, Stored, TypeOK, record, queue, worker, optask, client, bounds
<1>4. CASE RecoverRebuild
  <2>1. entry' \in [Entries -> {"free", "new", "pending", "acked", "lost"}]
    BY <1>4 DEF RecoverRebuild, TypeOK
  <2>2. entryRun' \in [Entries -> Runs \cup {NoRun}]
    <3>1. CASE UNCHANGED <<entry, entryRun>>
      BY <3>1 DEF TypeOK
    <3>2. CASE \E f \in [recovering -> {e \in Entries : entry[e] = "free"}] :
                 entryRun' = [e \in Entries |->
                            IF \E r \in recovering : f[r] = e
                            THEN CHOOSE r \in recovering : f[r] = e ELSE entryRun[e]]
      <4>1. recovering \subseteq Runs
        BY <1>4 DEF RecoverRebuild, TypeOK
      <4>2. PICK f \in [recovering -> {e \in Entries : entry[e] = "free"}] :
                 entryRun' = [e \in Entries |->
                            IF \E r \in recovering : f[r] = e
                            THEN CHOOSE r \in recovering : f[r] = e ELSE entryRun[e]]
        BY <3>2
      <4>3. ASSUME NEW e \in Entries, \E r \in recovering : f[r] = e
            PROVE  (CHOOSE r \in recovering : f[r] = e) \in Runs
        BY <4>1, <4>3
      <4>. QED BY <4>2, <4>3 DEF TypeOK
    <3>. QED BY <1>4, <3>1, <3>2 DEF RecoverRebuild
  <2>. QED BY <1>4, <2>1, <2>2 DEF RecoverRebuild, TypeOK, record, worker, optask, client, bounds
<1>. QED BY <1>1, <1>2, <1>3, <1>4

\* The variables a step of execute_run may change, by their types.
StepTypes ==
  /\ status' \in [Runs -> RunStatus \cup S!Unstored]
  /\ rev' \in [Runs -> Nat]
  /\ progress' \in [Runs -> 0..MaxProgress]
  /\ started' \in [Runs -> BOOLEAN]
  /\ pc' \in [Workers -> WorkerPCs]
  /\ seen' \in [Workers -> Copies]
  /\ tries' \in [Workers -> 0..MaxTries]
  /\ op' \in [Workers -> {"none", "run", "save"}]
  /\ opSeen' \in [Workers -> Copies]

LEMMA StepType ==
  ASSUME TypeOK, NEW w \in Workers, StepFrame(w), StepTypes
  PROVE  TypeOK'
BY DEF StepTypes, StepFrame, TypeOK, queue, client, bounds

LEMMA MoveType ==
  ASSUME TypeOK, NEW w \in Workers, NEW p \in WorkerPCs,
         Went(w, p) \/ (Took(w, p) /\ job[w] \in Runs)
  PROVE  pc' \in [Workers -> WorkerPCs] /\ seen' \in [Workers -> Copies]
<1>1. CASE Went(w, p)
  BY <1>1, ConstantsAssumption DEF Went, Goto, TypeOK, Copies, NoCopy
<1>2. CASE Took(w, p) /\ job[w] \in Runs
  <2>1. Copy(job[w]) \in Copies
    BY <1>2, CopyType
  <2>. QED BY <1>2, <2>1 DEF Took, Goto, TypeOK
<1>. QED BY <1>1, <1>2

LEMMA RecordSame ==
  ASSUME TypeOK, UNCHANGED record
  PROVE  /\ status' \in [Runs -> RunStatus \cup S!Unstored]
         /\ rev' \in [Runs -> Nat]
         /\ progress' \in [Runs -> 0..MaxProgress]
         /\ started' \in [Runs -> BOOLEAN]
BY DEF TypeOK, record

LEMMA OpType ==
  ASSUME TypeOK, NEW w \in Workers, EndOperator(w) \/ UNCHANGED optask
  PROVE  op' \in [Workers -> {"none", "run", "save"}] /\ opSeen' \in [Workers -> Copies]
<1>1. CASE EndOperator(w)
  BY <1>1, ConstantsAssumption DEF TypeOK, EndOperator, Copies, NoCopy
<1>2. CASE UNCHANGED optask
  BY <1>2 DEF TypeOK, optask
<1>. QED BY <1>1, <1>2

LEMMA TrySetType ==
  ASSUME TypeOK, NEW w \in Workers, job[w] \in Runs, NEW s \in RunStatus,
         NEW p \in WorkerPCs, NEW q \in WorkerPCs, TrySet(w, s, p, q)
  PROVE  /\ status' \in [Runs -> RunStatus \cup S!Unstored]
         /\ rev' \in [Runs -> Nat]
         /\ progress' \in [Runs -> 0..MaxProgress]
         /\ started' \in [Runs -> BOOLEAN]
         /\ pc' \in [Workers -> WorkerPCs] /\ seen' \in [Workers -> Copies]
<1>1. CASE SetStatus(job[w], s, seen[w]) /\ Went(w, p)
  <2>1. seen[w] \in Copies
    BY DEF TypeOK
  <2>. QED BY <1>1, <2>1, SetStatusType, MoveType
<1>2. CASE UNCHANGED record /\ Went(w, q)
  BY <1>2, RecordSame, MoveType
<1>. QED BY <1>1, <1>2 DEF TrySet

\* An exception that leaves the handler.
LEMMA ExitType ==
  ASSUME TypeOK, NEW w \in Workers, Exit(w), UNCHANGED <<creating, queue, client, recovering, bounds>>
  PROVE  TypeOK'
BY ReleaseType DEF Exit, TypeOK, record, queue, client, bounds

LEMMA BeginType ==
  ASSUME TypeOK, NEW w \in Workers, WorkerInv(w), BeginExecution(w)
  PROVE  TypeOK'
<1>. DEFINE r == job[w]
<1>. {"ack", "load", "failed", "begin"} \subseteq WorkerPCs
  BY DEF WorkerPCs
<1>0. r \in Runs /\ UNCHANGED optask /\ StepFrame(w)
  BY DEF BeginExecution, WorkerInv, Busy
<1>1. CASE (Went(w, "ack") \/ Went(w, "load")) /\ UNCHANGED <<record, tries>>
  <2>1. StepTypes
    BY <1>0, <1>1, MoveType, RecordSame, OpType DEF StepTypes, TypeOK
  <2>. QED BY <1>0, <2>1, StepType
<1>2. CASE TrySet(w, "cancelled", "ack", "failed") /\ UNCHANGED tries
  <2>1. StepTypes
    BY <1>0, <1>2, TrySetType, OpType DEF StepTypes, TypeOK
  <2>. QED BY <1>0, <2>1, StepType
<1>3. CASE /\ Save(r, "running", seen[w].prog)
           /\ started' = [started EXCEPT ![r] = TRUE]
           /\ Went(w, "load") /\ UNCHANGED tries
  <2>1. seen[w].prog \in 0..MaxProgress
    BY DEF TypeOK, Copies
  <2>2. /\ status' \in [Runs -> RunStatus \cup S!Unstored]
        /\ rev' \in [Runs -> Nat]
        /\ progress' \in [Runs -> 0..MaxProgress]
    BY <1>0, <1>3, <2>1, SaveType
  <2>3. StepTypes
    BY <1>0, <1>3, <2>2, MoveType, OpType DEF StepTypes, TypeOK
  <2>. QED BY <1>0, <2>3, StepType
<1>4. CASE /\ UNCHANGED record
           /\ \/ Took(w, "begin") /\ tries' = [tries EXCEPT ![w] = @ + 1] /\ tries[w] + 1 < MaxTries
              \/ Went(w, "failed") /\ UNCHANGED tries
  <2>1. tries' \in [Workers -> 0..MaxTries]
    BY <1>4 DEF TypeOK
  <2>2. StepTypes
    BY <1>0, <1>4, <2>1, MoveType, RecordSame, OpType DEF StepTypes
  <2>. QED BY <1>0, <2>2, StepType
<1>. QED BY <1>1, <1>2, <1>3, <1>4 DEF BeginExecution, BeginConflict

LEMMA CheckpointType ==
  ASSUME TypeOK, NEW w \in Workers, WorkerInv(w), CheckpointRead(w) \/ CheckpointAct(w)
  PROVE  TypeOK'
<1>. {"act", "ckpt", "work", "stopped", "failed"} \subseteq WorkerPCs
  BY DEF WorkerPCs
<1>0. job[w] \in Runs /\ StepFrame(w) /\ UNCHANGED tries
  BY DEF CheckpointRead, CheckpointAct, WorkerInv, Busy
<1>1. CASE CheckpointRead(w)
  <2>1. UNCHANGED record /\ (UNCHANGED optask \/ EndOperator(w))
    BY <1>1 DEF CheckpointRead
  <2>2. Took(w, "act") \/ Went(w, "stopped")
    BY <1>1 DEF CheckpointRead
  <2>3. StepTypes
    BY <1>0, <2>1, <2>2, MoveType, RecordSame, OpType DEF StepTypes, TypeOK
  <2>. QED BY <1>0, <2>3, StepType
<1>2. CASE CheckpointAct(w)
  <2>1. CASE /\ TrySet(w, "cancelled", "stopped", "failed") \/ TrySet(w, "paused", "ckpt", "failed")
             /\ EndOperator(w) \/ UNCHANGED optask
    <3>1. StepTypes
      BY <1>0, <2>1, TrySetType, OpType DEF StepTypes, TypeOK
    <3>. QED BY <1>0, <3>1, StepType
  <2>2. CASE Went(w, "ckpt") /\ UNCHANGED <<record, optask>>
    <3>1. StepTypes
      BY <1>0, <2>2, MoveType, RecordSame, OpType DEF StepTypes, TypeOK
    <3>. QED BY <1>0, <3>1, StepType
  <2>3. CASE /\ Went(w, "work")
             /\ op' = [op EXCEPT ![w] = IF @ = "none" THEN "run" ELSE @]
             /\ UNCHANGED <<record, opSeen>>
    <3>1. op' \in [Workers -> {"none", "run", "save"}] /\ opSeen' \in [Workers -> Copies]
      BY <2>3 DEF TypeOK
    <3>2. StepTypes
      BY <1>0, <2>3, <3>1, MoveType, RecordSame DEF StepTypes, TypeOK
    <3>. QED BY <1>0, <3>2, StepType
  <2>. QED BY <1>2, <2>1, <2>2, <2>3 DEF CheckpointAct
<1>. QED BY <1>1, <1>2

LEMMA ReportType ==
  ASSUME TypeOK, NEW w \in Workers, WorkerInv(w), Report(w)
  PROVE  TypeOK'
<1>0. job[w] \in Runs /\ StepFrame(w) /\ UNCHANGED <<pc, seen, tries>>
  BY DEF Report, ReportRead, ReportSave, WorkerInv, Busy
<1>1. CASE ReportRead(w)
  <2>1. UNCHANGED record /\ Copy(job[w]) \in Copies
    BY <1>0, <1>1, CopyType DEF ReportRead
  <2>2. op' \in [Workers -> {"none", "run", "save"}] /\ opSeen' \in [Workers -> Copies]
    BY <1>1, <2>1 DEF ReportRead, TypeOK
  <2>3. StepTypes
    BY <1>0, <2>1, <2>2, RecordSame DEF StepTypes, TypeOK
  <2>. QED BY <1>0, <2>3, StepType
<1>2. CASE ReportSave(w)
  <2>1. op' \in [Workers -> {"none", "run", "save"}] /\ opSeen' \in [Workers -> Copies]
    BY <1>2, ConstantsAssumption DEF ReportSave, TypeOK, Copies, NoCopy
  <2>2. CASE UNCHANGED record
    <3>1. StepTypes
      BY <1>0, <2>1, <2>2, RecordSame DEF StepTypes, TypeOK
    <3>. QED BY <1>0, <3>1, StepType
  <2>3. CASE \E p \in Reports(opSeen[w]) :
               Save(job[w], opSeen[w].st, p) /\ UNCHANGED started
    <3>1. PICK p \in Reports(opSeen[w]) :
               Save(job[w], opSeen[w].st, p) /\ UNCHANGED started
      BY <2>3
    <3>2. p \in 0..MaxProgress
      <4>1. opSeen[w].prog \in 0..MaxProgress
        BY DEF TypeOK, Copies
      <4>. QED BY <4>1, ConstantsAssumption DEF Reports
    <3>3. opSeen[w].st \in RunStatus
      BY <1>2 DEF ReportSave, WorkerInv, CopyInv, CopyOK
    <3>4. /\ status' \in [Runs -> RunStatus \cup S!Unstored]
          /\ rev' \in [Runs -> Nat]
          /\ progress' \in [Runs -> 0..MaxProgress]
      BY <1>0, <3>1, <3>2, <3>3, SaveType
    <3>5. StepTypes
      BY <1>0, <2>1, <3>1, <3>4 DEF StepTypes, TypeOK
    <3>. QED BY <1>0, <3>5, StepType
  <2>. QED BY <1>2, <2>2, <2>3 DEF ReportSave
<1>. QED BY <1>1, <1>2 DEF Report

LEMMA ExecuteType ==
  ASSUME TypeOK, NEW w \in Workers, WorkerInv(w),
         \/ GetRun(w) \/ LoadMedia(w) \/ Poll(w) \/ OperatorsDone(w) \/ Fault(w) \/ ReadLatest(w)
         \/ Complete(w) \/ StoppedRead(w) \/ FailedRead(w) \/ SaveOutcome(w)
  PROVE  TypeOK'
<1>. WorkerPCs = {"claim", "read", "get", "begin", "load", "ckpt", "act", "work", "store",
              "complete", "stopped", "stopsave", "failed", "failsave", "ack"}
  BY DEF WorkerPCs
<1>0. job[w] \in Runs
  BY DEF GetRun, LoadMedia, Poll, OperatorsDone, Fault, ReadLatest, Complete, StoppedRead,
         FailedRead, SaveOutcome, WorkerInv, Busy
<1>1. CASE Exit(w) /\ UNCHANGED <<creating, queue, client, recovering, bounds>>
  BY <1>1, ExitType
<1>2. CASE /\ \E p \in WorkerPCs : Went(w, p) \/ Took(w, p)
           /\ UNCHANGED <<record, tries>>
           /\ EndOperator(w) \/ UNCHANGED optask
           /\ StepFrame(w)
  <2>1. StepTypes
    BY <1>0, <1>2, MoveType, RecordSame, OpType DEF StepTypes, TypeOK
  <2>. QED BY <1>2, <2>1, StepType
<1>3. CASE /\ Save(job[w], "completed", MaxProgress) /\ UNCHANGED started /\ Went(w, "ack")
           /\ UNCHANGED <<tries, optask>> /\ StepFrame(w)
  <2>1. MaxProgress \in 0..MaxProgress
    OBVIOUS
  <2>2. StepTypes
    BY <1>0, <1>3, <2>1, SaveType, MoveType, OpType DEF StepTypes, TypeOK
  <2>. QED BY <1>3, <2>2, StepType
<1>4. CASE /\ \E s \in {"cancelled", "failed"} : SetStatus(job[w], s, seen[w])
           /\ Went(w, "ack") /\ UNCHANGED <<tries, optask>> /\ StepFrame(w)
  <2>0. seen[w] \in Copies
    BY DEF TypeOK
  <2>1. StepTypes
    BY <1>0, <1>4, <2>0, SetStatusType, MoveType, OpType DEF StepTypes, TypeOK
  <2>. QED BY <1>4, <2>1, StepType
<1>5. CASE GetRun(w)
  BY <1>1, <1>2, <1>5 DEF GetRun
<1>6. CASE LoadMedia(w) \/ Poll(w) \/ OperatorsDone(w) \/ Fault(w)
  BY <1>2, <1>6 DEF LoadMedia, Poll, OperatorsDone, Fault
<1>7. CASE ReadLatest(w) \/ StoppedRead(w) \/ FailedRead(w)
  BY <1>2, <1>7 DEF ReadLatest, StoppedRead, FailedRead
<1>8. CASE Complete(w)
  BY <1>2, <1>3, <1>8 DEF Complete
<1>9. CASE SaveOutcome(w)
  BY <1>1, <1>4, <1>9 DEF SaveOutcome
<1>. QED BY <1>5, <1>6, <1>7, <1>8, <1>9

\* One step keeps the types, given what each process knows of itself.
LEMMA TypeStep ==
  ASSUME IInv, [Next]_vars
  PROVE  TypeOK'
<1>1. CASE UNCHANGED vars
  BY <1>1 DEF IInv, TypeOK, vars, record, queue, worker, optask, client, bounds
<1>2. CASE \E r \in Runs : Api(r) \/ ApiCrash(r)
  BY <1>2, ApiType DEF IInv
<1>3. CASE \E c \in Clients : \/ Client(c)
                              \/ \E r \in Runs, act \in {"pause", "resume", "cancel"} : Request(c, r, act)
  BY <1>3, ClientType DEF IInv
<1>4. CASE \E w \in Workers : Work(w) \/ Report(w) \/ Fault(w)
  BY <1>4, LoopType, BeginType, CheckpointType, ReportType, ExecuteType DEF IInv, Work
<1>5. CASE \E w \in Workers : Lapse(w) \/ LeaseLost(w) \/ Crash(w)
  BY <1>5, LoopType DEF IInv
<1>6. CASE (\E e \in Entries : Expire(e)) \/ RedisLoss \/ RecoverRead \/ RecoverRebuild
  BY <1>6, EntryType DEF IInv
<1>. QED BY <1>1, <1>2, <1>3, <1>4, <1>5, <1>6 DEF Next

-----------------------------------------------------------------------------
(* How one step changes one record. *)

\* A record with status st, revision rv and start mark sd may become one with
\* st2, rv2 and sd2.
Evolves(st, rv, sd, st2, rv2, sd2) ==
  \/ st2 = st /\ rv2 = rv /\ sd2 = sd
  \/ st = "none" /\ st2 = "queued" /\ rv2 = 1 /\ sd2 = sd
  \/ st \in RunStatus /\ st2 = "deleted" /\ rv2 = rv /\ sd2 = sd
  \/ /\ st \in RunStatus /\ st2 \in RunStatus \ {"queued"} /\ rv2 = rv + 1
     /\ <<st, st2>> \in S!Edges \/ st2 = st
     /\ sd => sd2
     /\ st2 \in S!Active => sd2
     /\ (st = "completed" /\ st2 = "cancelled") => sd

\* ... and only create_run deletes one.
RecordStep(r) ==
  /\ Evolves(status[r], rev[r], started[r], status'[r], rev'[r], started'[r])
  /\ (status'[r] = "deleted" /\ status[r] # "deleted") => creating'[r] = "done"

\* The moves RunStatusSpec lists, written out once.
LEMMA EdgeFacts ==
  /\ \A s \in RunStatus : <<s, "deleted">> \in S!Edges
  /\ <<"none", "queued">> \in S!Edges
  /\ \A s \in S!Active : <<s, "completed">> \in S!Edges /\ <<s, "failed">> \in S!Edges
  /\ <<"queued", "running">> \in S!Edges /\ <<"queued", "cancelled">> \in S!Edges
  /\ <<"queued", "failed">> \in S!Edges
  /\ <<"running", "pausing">> \in S!Edges /\ <<"pausing", "paused">> \in S!Edges
  /\ <<"paused", "running">> \in S!Edges
  /\ <<"running", "cancelling">> \in S!Edges /\ <<"pausing", "cancelling">> \in S!Edges
  /\ <<"paused", "cancelled">> \in S!Edges /\ <<"cancelling", "cancelled">> \in S!Edges
  /\ <<"cancelled", "completed">> \in S!Edges /\ <<"failed", "completed">> \in S!Edges
  /\ <<"completed", "cancelled">> \in S!Edges
BY DEF S!Edges, S!CreateEdges, S!DeleteEdges, S!StartEdges, S!PauseEdges, S!CancelEdges,
       S!FinishEdges, S!LateEdges

\* An edge never leads out of a terminal status except into one, and never back
\* to the queue.
LEMMA EdgeTargets ==
  ASSUME NEW s, NEW t, <<s, t>> \in S!Edges, s \in RunStatus, t \in RunStatus
  PROVE  /\ t # "queued"
         /\ s \in Terminal => t \in Terminal
         /\ s = "cancelled" => t = "completed"
         /\ s = "completed" => t = "cancelled"
         /\ s = "failed" => t = "completed"
BY DEF S!Edges, S!CreateEdges, S!DeleteEdges, S!StartEdges, S!PauseEdges, S!CancelEdges,
       S!FinishEdges, S!LateEdges

LEMMA SameRecords ==
  ASSUME UNCHANGED record
  PROVE  \A r \in Runs : RecordStep(r)
BY DEF record, RecordStep, Evolves

\* save_run of one record leaves the others alone.
LEMMA SaveStep ==
  ASSUME TypeOK, NEW r \in Runs, NEW s \in RunStatus \ {"queued"}, NEW p, Save(r, s, p),
         started' \in {started, [started EXCEPT ![r] = TRUE]},
         status[r] \in RunStatus,
         <<status[r], s>> \in S!Edges \/ s = status[r],
         s \in S!Active => started'[r],
         (status[r] = "completed" /\ s = "cancelled") => started[r]
  PROVE  \A q \in Runs : RecordStep(q)
<1>. TAKE q \in Runs
<1>1. CASE q = r
  BY <1>1 DEF TypeOK, Save, RecordStep, Evolves
<1>2. CASE q # r
  BY <1>2 DEF TypeOK, Save, RecordStep, Evolves
<1>. QED BY <1>1, <1>2

LEMMA ApiStep ==
  ASSUME IInv, NEW r \in Runs, Api(r) \/ ApiCrash(r)
  PROVE  \A q \in Runs : RecordStep(q)
<1>1. CASE CreateRun(r)
  BY <1>1 DEF CreateRun, IInv, TypeOK, RecordStep, Evolves
<1>2. CASE Consume(r) \/ Enqueue(r) \/ EnqueueRaises(r) \/ ApiCrash(r)
  BY <1>2, SameRecords DEF Consume, Enqueue, EnqueueRaises, ApiCrash
<1>3. CASE ConsumeFails(r)
  BY <1>3 DEF ConsumeFails, IInv, RecordInv, TypeOK, RecordStep, Evolves
<1>4. CASE QueueUnavailable(r)
  <2>1. CASE Fresh(r, Created)
    <3>1. status[r] = "queued"
      BY <2>1 DEF Fresh, IInv, RecordInv, Created
    <3>2. Save(r, "failed", Created.prog) /\ UNCHANGED started
      BY <1>4, <2>1 DEF QueueUnavailable, SetStatus
    <3>. QED BY <3>1, <3>2, SaveStep, EdgeFacts DEF IInv
  <2>2. CASE ~Fresh(r, Created)
    BY <1>4, <2>2, SameRecords DEF QueueUnavailable
  <2>. QED BY <2>1, <2>2
<1>. QED BY <1>1, <1>2, <1>3, <1>4 DEF Api

LEMMA ClientStep ==
  ASSUME IInv, NEW c \in Clients,
         \/ Client(c)
         \/ \E r \in Runs, act \in {"pause", "resume", "cancel"} : Request(c, r, act)
  PROVE  \A q \in Runs : RecordStep(q)
<1>1. CASE \/ TransitionRead(c)
           \/ \E r \in Runs, act \in {"pause", "resume", "cancel"} : Request(c, r, act)
  BY <1>1, SameRecords DEF TransitionRead, Request
<1>2. CASE TransitionSave(c)
  <2>. DEFINE r == req[c].run
  <2>0. r \in Runs /\ CopyInv(r, cseen[c]) /\ Allowed(r, req[c].act, cseen[c].st)
    BY <1>2 DEF IInv, ClientInv, TransitionSave
  <2>1. CASE Fresh(r, cseen[c])
    <3>1. cseen[c].st = status[r] /\ status[r] \in RunStatus
      BY <2>0, <2>1 DEF CopyInv, CopyOK, Fresh
    <3>. DEFINE t == Target(req[c].act, cseen[c].st)
    <3>2. Save(r, t, cseen[c].prog) /\ UNCHANGED started
      BY <1>2, <2>1 DEF TransitionSave, SetStatus
    <3>3. /\ t \in RunStatus \ {"queued"}
          /\ <<status[r], t>> \in S!Edges
          /\ status[r] \notin Terminal
          /\ t \in S!Active => status[r] \in S!Active
      BY <2>0, <3>1, EdgeFacts DEF Allowed, Target
    <3>4. status[r] \in S!Active => started[r]
      BY <2>0 DEF IInv, RecordInv
    <3>. HIDE DEF t, r
    <3>. QED BY <2>0, <3>1, <3>2, <3>3, <3>4, SaveStep DEF IInv
  <2>2. CASE ~Fresh(r, cseen[c])
    BY <1>2, <2>2, SameRecords DEF TransitionSave
  <2>. QED BY <2>1, <2>2
<1>. QED BY <1>1, <1>2 DEF Client

\* A worker's copy that is still fresh is the record.
LEMMA FreshCopy ==
  ASSUME IInv, NEW w \in Workers, Fresh(job[w], seen[w]),
         pc[w] \in {"begin", "act", "complete", "stopsave", "failsave"}
  PROVE  job[w] \in Runs /\ seen[w].st = status[job[w]] /\ status[job[w]] \in RunStatus
BY DEF IInv, WorkerInv, Busy, CopyInv, CopyOK, Fresh

LEMMA TrySetStep ==
  ASSUME IInv, NEW w \in Workers, NEW s \in {"cancelled", "paused"}, NEW ok, NEW conflict,
         TrySet(w, s, ok, conflict), pc[w] \in {"begin", "act"},
         <<seen[w].st, s>> \in {<<"cancelling", "cancelled">>, <<"pausing", "paused">>}
  PROVE  \A q \in Runs : RecordStep(q)
<1>1. CASE Fresh(job[w], seen[w])
  <2>1. job[w] \in Runs /\ seen[w].st = status[job[w]] /\ status[job[w]] \in S!Active
    BY <1>1, FreshCopy
  <2>2. Save(job[w], s, seen[w].prog) /\ UNCHANGED started
    BY <1>1 DEF TrySet, SetStatus
  <2>3. started[job[w]]
    BY <2>1 DEF IInv, RecordInv
  <2>4. <<status[job[w]], s>> \in S!Edges
    BY <2>1, EdgeFacts
  <2>. QED BY <2>1, <2>2, <2>3, <2>4, SaveStep DEF IInv
<1>2. CASE ~Fresh(job[w], seen[w])
  BY <1>2, SameRecords DEF TrySet
<1>. QED BY <1>1, <1>2

LEMMA WorkStep ==
  ASSUME IInv, NEW w \in Workers, Work(w) \/ Report(w) \/ Fault(w) \/ Lapse(w) \/ LeaseLost(w) \/ Crash(w)
  PROVE  \A q \in Runs : RecordStep(q)
<1>1. CASE \/ Autoclaim(w) \/ ReadGroup(w) \/ GetRun(w) \/ LoadMedia(w) \/ CheckpointRead(w)
           \/ Poll(w) \/ OperatorsDone(w) \/ ReadLatest(w) \/ StoppedRead(w) \/ FailedRead(w)
           \/ Ack(w) \/ ReportRead(w) \/ Fault(w) \/ Lapse(w) \/ LeaseLost(w) \/ Crash(w)
  <2>1. UNCHANGED record
    BY <1>1 DEF Autoclaim, ReadGroup, GetRun, LoadMedia, CheckpointRead, Poll, OperatorsDone,
         ReadLatest, StoppedRead, FailedRead, Ack, ReportRead, Fault, Lapse, LeaseLost, Crash, Exit
  <2>. QED BY <2>1, SameRecords
<1>2. CASE BeginExecution(w)
  <2>1. CASE UNCHANGED record
    BY <2>1, SameRecords
  <2>2. CASE seen[w].st = "cancelling" /\ TrySet(w, "cancelled", "ack", "failed")
    BY <1>2, <2>2, TrySetStep DEF BeginExecution
  <2>3. CASE /\ seen[w].st = "queued" /\ Fresh(job[w], seen[w])
             /\ Save(job[w], "running", seen[w].prog)
             /\ started' = [started EXCEPT ![job[w]] = TRUE]
    <3>1. job[w] \in Runs /\ status[job[w]] = "queued"
      BY <1>2, <2>3, FreshCopy DEF BeginExecution
    <3>2. started'[job[w]]
      BY <2>3, <3>1 DEF IInv, TypeOK
    <3>3. <<status[job[w]], "running">> \in S!Edges
      BY <3>1, EdgeFacts
    <3>. QED BY <2>3, <3>1, <3>2, <3>3, SaveStep DEF IInv
  <2>. QED BY <1>2, <2>1, <2>2, <2>3 DEF BeginExecution
<1>3. CASE CheckpointAct(w)
  <2>1. CASE UNCHANGED record
    BY <2>1, SameRecords
  <2>2. CASE seen[w].st = "cancelling" /\ TrySet(w, "cancelled", "stopped", "failed")
    BY <1>3, <2>2, TrySetStep DEF CheckpointAct
  <2>3. CASE seen[w].st = "pausing" /\ TrySet(w, "paused", "ckpt", "failed")
    BY <1>3, <2>3, TrySetStep DEF CheckpointAct
  <2>. QED BY <1>3, <2>1, <2>2, <2>3 DEF CheckpointAct
<1>4. CASE Complete(w)
  <2>1. CASE Fresh(job[w], seen[w])
    <3>1. job[w] \in Runs /\ status[job[w]] \in RunStatus
      BY <1>4, <2>1, FreshCopy DEF Complete
    <3>2. status[job[w]] # "queued"
      BY <1>4 DEF Complete, IInv, WorkerInv, Executing, Left
    <3>3. Save(job[w], "completed", MaxProgress) /\ UNCHANGED started
      BY <1>4, <2>1 DEF Complete
    <3>4. <<status[job[w]], "completed">> \in S!Edges \/ "completed" = status[job[w]]
      BY <3>1, <3>2, EdgeFacts
    <3>. QED BY <3>1, <3>3, <3>4, SaveStep DEF IInv
  <2>2. CASE ~Fresh(job[w], seen[w])
    BY <1>4, <2>2, SameRecords DEF Complete
  <2>. QED BY <2>1, <2>2
<1>5. CASE SaveOutcome(w)
  <2>1. CASE Fresh(job[w], seen[w]) /\ pc[w] = "stopsave"
    <3>1. /\ job[w] \in Runs /\ status[job[w]] \in RunStatus
          /\ status[job[w]] = "completed" /\ started[job[w]]
      BY <2>1, FreshCopy DEF IInv, WorkerInv
    <3>2. Save(job[w], "cancelled", seen[w].prog) /\ UNCHANGED started
      BY <1>5, <2>1 DEF SaveOutcome, SetStatus
    <3>. QED BY <3>1, <3>2, SaveStep, EdgeFacts DEF IInv
  <2>2. CASE Fresh(job[w], seen[w]) /\ pc[w] = "failsave"
    <3>1. job[w] \in Runs /\ status[job[w]] \in RunStatus \ Terminal
      BY <2>2, FreshCopy DEF IInv, WorkerInv
    <3>2. Save(job[w], "failed", seen[w].prog) /\ UNCHANGED started
      BY <1>5, <2>2 DEF SaveOutcome, SetStatus
    <3>3. <<status[job[w]], "failed">> \in S!Edges
      BY <3>1, EdgeFacts
    <3>. QED BY <3>1, <3>2, <3>3, SaveStep DEF IInv
  <2>3. CASE ~Fresh(job[w], seen[w])
    BY <1>5, <2>3, SameRecords DEF SaveOutcome, Exit
  <2>. QED BY <1>5, <2>1, <2>2, <2>3 DEF SaveOutcome
<1>6. CASE ReportSave(w)
  <2>. DEFINE r == job[w]
  <2>1. CASE Fresh(r, opSeen[w])
    <3>1. /\ r \in Runs /\ opSeen[w].st = status[r] /\ status[r] \in RunStatus \ {"queued"}
          /\ status[r] \in S!Active => started[r]
      BY <1>6, <2>1 DEF ReportSave, IInv, WorkerInv, Busy, CopyInv, CopyOK, Fresh, Executing, Left, RecordInv
    <3>2. PICK p : Save(r, status[r], p) /\ UNCHANGED started
      BY <1>6, <2>1, <3>1 DEF ReportSave
    <3>. HIDE DEF r
    <3>. QED BY <3>1, <3>2, SaveStep DEF IInv
  <2>2. CASE ~Fresh(r, opSeen[w])
    BY <1>6, <2>2, SameRecords DEF ReportSave
  <2>. QED BY <2>1, <2>2
<1>. QED BY <1>1, <1>2, <1>3, <1>4, <1>5, <1>6 DEF Work, Report

\* Whatever the step, every record evolves the way Evolves says.
LEMMA RecordSteps ==
  ASSUME IInv, [Next]_vars
  PROVE  \A r \in Runs : RecordStep(r)
<1>1. CASE UNCHANGED vars \/ (\E e \in Entries : Expire(e)) \/ RedisLoss \/ RecoverRead \/ RecoverRebuild
  BY <1>1, SameRecords DEF vars, Expire, RedisLoss, RecoverRead, RecoverRebuild
<1>2. CASE \E r \in Runs : Api(r) \/ ApiCrash(r)
  BY <1>2, ApiStep
<1>3. CASE \E c \in Clients : \/ Client(c)
                              \/ \E r \in Runs, act \in {"pause", "resume", "cancel"} : Request(c, r, act)
  BY <1>3, ClientStep
<1>4. CASE \E w \in Workers : Work(w) \/ Report(w) \/ Fault(w) \/ Lapse(w) \/ LeaseLost(w) \/ Crash(w)
  BY <1>4, WorkStep
<1>. QED BY <1>1, <1>2, <1>3, <1>4 DEF Next

-----------------------------------------------------------------------------
(* What survives any step. *)

\* An old copy stays as truthful as it was.
LEMMA CopyStable ==
  ASSUME NEW st \in RunStatus \cup S!Unstored, NEW rv \in Nat, NEW sd \in BOOLEAN,
         NEW st2, NEW rv2 \in Nat, NEW sd2 \in BOOLEAN, NEW copy \in Copies,
         Evolves(st, rv, sd, st2, rv2, sd2), CopyOK(st, rv, sd, copy)
  PROVE  CopyOK(st2, rv2, sd2, copy)
<1>1. CASE st2 = st /\ rv2 = rv /\ sd2 = sd
  BY <1>1
<1>2. CASE st \in RunStatus /\ st2 = "deleted" /\ rv2 = rv /\ sd2 = sd
  BY <1>2 DEF CopyOK, Copies
<1>3. CASE /\ st \in RunStatus /\ st2 \in RunStatus \ {"queued"} /\ rv2 = rv + 1
           /\ <<st, st2>> \in S!Edges \/ st2 = st
           /\ sd => sd2
           /\ (st = "completed" /\ st2 = "cancelled") => sd
  <2>1. /\ copy.st \in RunStatus /\ copy.rev >= 1 /\ copy.rev <= rv2 /\ st2 # "none"
        /\ rv2 # copy.rev
        /\ copy.st = "queued" => copy.rev = 1
        /\ st2 # "queued"
    BY <1>3 DEF CopyOK, Copies
  <2>2. ASSUME copy.st \notin {"queued", "cancelled"}
        PROVE  sd2 \/ st2 \in {"failed", "completed", "deleted"}
    BY <1>3, <2>2, EdgeTargets DEF CopyOK
  <2>3. copy.st \in Terminal => st2 \in Terminal
    BY <1>3, EdgeTargets DEF CopyOK
  <2>. QED BY <2>1, <2>2, <2>3 DEF CopyOK
<1>. QED BY <1>1, <1>2, <1>3 DEF Evolves, CopyOK

\* The facts about one record that only ever become true.
LEMMA RecordStable ==
  ASSUME TypeOK, NEW r \in Runs, RecordStep(r), RecordInv(r)
  PROVE  /\ status[r] # "none" => status'[r] # "none"
         /\ Settled(r) => Settled(r)'
         /\ Left(r) => Left(r)'
         /\ (Left(r) /\ Ran(r)) => Ran(r)'
         /\ started[r] => started'[r]
         /\ status[r] = "deleted" => status'[r] = "deleted"
         /\ status[r] \in {"cancelled", "completed", "deleted"}
              => status'[r] \in {"cancelled", "completed", "deleted"}
<1>1. CASE UNCHANGED <<status[r], rev[r], started[r]>>
  BY <1>1 DEF Settled, Left, Ran
<1>2. CASE \/ status[r] = "none" /\ status'[r] = "queued"
           \/ status[r] \in RunStatus /\ status'[r] = "deleted" /\ started'[r] = started[r]
  BY <1>2 DEF Settled, Left, Ran, RecordStep, Evolves
<1>3. CASE /\ status[r] \in RunStatus /\ status'[r] \in RunStatus \ {"queued"}
           /\ <<status[r], status'[r]>> \in S!Edges \/ status'[r] = status[r]
           /\ started[r] => started'[r]
           /\ (status[r] = "completed" /\ status'[r] = "cancelled") => started[r]
  BY <1>3, EdgeTargets DEF Settled, Left, Ran
<1>. QED BY <1>1, <1>2, <1>3 DEF RecordStep, Evolves

LEMMA RecordKept ==
  ASSUME IInv, TypeOK', NEW r \in Runs, RecordStep(r),
         \/ creating'[r] = creating[r]
         \/ creating'[r] \notin {"no", "consume"} /\ status[r] # "none"
         \/ status'[r] = "queued"
  PROVE  RecordInv(r)'
<1>0. RecordInv(r) /\ TypeOK
  BY DEF IInv
<1>1. CASE UNCHANGED <<status[r], rev[r], started[r]>>
  BY <1>0, <1>1 DEF RecordInv
<1>2. CASE status[r] = "none" /\ status'[r] = "queued" /\ rev'[r] = 1 /\ started'[r] = started[r]
  BY <1>0, <1>2 DEF RecordInv
<1>3. CASE status[r] \in RunStatus /\ status'[r] = "deleted" /\ rev'[r] = rev[r] /\ started'[r] = started[r]
  BY <1>0, <1>3 DEF RecordInv, RecordStep
<1>4. CASE /\ status[r] \in RunStatus /\ status'[r] \in RunStatus \ {"queued"} /\ rev'[r] = rev[r] + 1
           /\ status'[r] \in S!Active => started'[r]
  BY <1>0, <1>4 DEF RecordInv, TypeOK
<1>. QED BY <1>0, <1>1, <1>2, <1>3, <1>4 DEF RecordStep, Evolves

LEMMA ClientKept ==
  ASSUME IInv, TypeOK', \A r \in Runs : RecordStep(r), NEW c \in Clients,
         cpc'[c] = cpc[c], req'[c] = req[c], cseen'[c] = cseen[c]
  PROVE  ClientInv(c)'
<1>. DEFINE r == req[c].run
<1>0. ClientInv(c) /\ TypeOK
  BY DEF IInv
<1>1. CASE cpc[c] = "idle"
  BY <1>1 DEF ClientInv
<1>2. CASE cpc[c] # "idle"
  <2>1. r \in Runs /\ RecordStep(r) /\ RecordInv(r) /\ cseen[c] \in Copies
    BY <1>0, <1>2 DEF ClientInv, IInv, TypeOK
  <2>2. /\ status[r] \in RunStatus \cup S!Unstored /\ rev[r] \in Nat /\ started[r] \in BOOLEAN
        /\ rev'[r] \in Nat /\ started'[r] \in BOOLEAN
    BY <1>0, <2>1 DEF TypeOK
  <2>3. CopyInv(r, cseen[c]) => CopyOK(status'[r], rev'[r], started'[r], cseen[c])
    BY <2>1, <2>2, CopyStable DEF CopyInv, RecordStep
  <2>4. status[r] # "none" => status'[r] # "none"
    BY <1>0, <2>1, RecordStable
  <2>. QED BY <1>0, <2>1, <2>3, <2>4 DEF ClientInv, CopyInv, Allowed
<1>. QED BY <1>1, <1>2

LEMMA EntryKept ==
  ASSUME IInv, \A r \in Runs : RecordStep(r), NEW e \in Entries,
         entry'[e] \in {"acked", "lost", "pending", entry[e]}, entry[e] # "free" \/ entry'[e] = "free",
         entryRun'[e] = entryRun[e],
         (entry'[e] = "acked" /\ entry[e] # "acked") => Settled(entryRun[e])
  PROVE  EntryInv(e)'
<1>0. EntryInv(e) /\ TypeOK
  BY DEF IInv
<1>1. CASE entry[e] # "free"
  <2>1. entryRun[e] \in Runs /\ RecordStep(entryRun[e]) /\ RecordInv(entryRun[e])
    BY <1>0, <1>1 DEF IInv, EntryInv
  <2>2. /\ status[entryRun[e]] # "none" => status'[entryRun[e]] # "none"
        /\ Settled(entryRun[e]) => status'[entryRun[e]] \in Terminal \cup {"deleted"}
    BY <1>0, <2>1, RecordStable DEF Settled
  <2>. QED BY <1>0, <1>1, <2>1, <2>2 DEF EntryInv, Settled
<1>2. CASE entry[e] = "free"
  BY <1>2 DEF EntryInv
<1>. QED BY <1>1, <1>2

-----------------------------------------------------------------------------
(* Preservation of the invariant, process by process. *)

LEMMA RecordsKept ==
  ASSUME IInv, [Next]_vars, TypeOK', \A r \in Runs : RecordStep(r)
  PROVE  \A r \in Runs : RecordInv(r)'
<1>. TAKE r \in Runs
<1>1. CASE UNCHANGED creating
  BY <1>1, RecordKept
<1>2. CASE \E q \in Runs : Api(q) \/ ApiCrash(q)
  <2>1. PICK q \in Runs : Api(q) \/ ApiCrash(q)
    BY <1>2
  <2>2. CASE r # q
    <3>1. creating'[r] = creating[r]
      BY <2>1, <2>2 DEF Api, CreateRun, Consume, ConsumeFails, Enqueue, EnqueueRaises,
           QueueUnavailable, ApiCrash, IInv, TypeOK
    <3>. QED BY <3>1, RecordKept
  <2>3. CASE r = q
    <3>1. CASE CreateRun(q)
      <4>1. status'[r] = "queued"
        BY <2>3, <3>1 DEF CreateRun, IInv, TypeOK
      <4>. QED BY <4>1, RecordKept
    <3>2. CASE \/ Consume(q) \/ ConsumeFails(q) \/ Enqueue(q) \/ EnqueueRaises(q)
               \/ QueueUnavailable(q) \/ ApiCrash(q)
      <4>1. creating'[r] \notin {"no", "consume"} /\ creating[r] # "no"
        BY <2>3, <3>2 DEF Consume, ConsumeFails, Enqueue, EnqueueRaises, QueueUnavailable,
             ApiCrash, IInv, TypeOK
      <4>2. status[r] # "none"
        BY <4>1 DEF IInv, RecordInv
      <4>. QED BY <4>1, <4>2, RecordKept
    <3>. QED BY <2>1, <3>1, <3>2 DEF Api
  <2>. QED BY <2>2, <2>3
<1>. QED
  BY <1>1, <1>2 DEF Next, vars, Client, TransitionRead, TransitionSave, Request,
     Work, Autoclaim, ReadGroup, GetRun, BeginExecution, LoadMedia, CheckpointRead, CheckpointAct,
     Poll, OperatorsDone, ReadLatest, Complete, StoppedRead, FailedRead, SaveOutcome, Ack,
     Report, ReportRead, ReportSave, Fault, Lapse, LeaseLost, Crash, Expire, RedisLoss,
     RecoverRead, RecoverRebuild, StepFrame

LEMMA ClientsKept ==
  ASSUME IInv, [Next]_vars, TypeOK', \A r \in Runs : RecordStep(r)
  PROVE  \A c \in Clients : ClientInv(c)'
<1>. TAKE c \in Clients
<1>0. TypeOK
  BY DEF IInv
<1>1. CASE UNCHANGED client
  BY <1>1, ClientKept DEF client
<1>2. CASE \E d \in Clients : Client(d) \/ \E r \in Runs, act \in {"pause", "resume", "cancel"} : Request(d, r, act)
  <2>1. PICK d \in Clients : Client(d) \/ \E r \in Runs, act \in {"pause", "resume", "cancel"} : Request(d, r, act)
    BY <1>2
  <2>2. CASE c # d
    BY <1>0, <2>1, <2>2, ClientKept
       DEF Client, TransitionRead, TransitionSave, Request, EndRequest, TypeOK
  <2>3. CASE c = d
    <3>1. CASE cpc'[c] = "idle"
      BY <3>1 DEF ClientInv
    <3>2. CASE \E r \in Runs, act \in {"pause", "resume", "cancel"} : Request(c, r, act)
      BY <1>0, <3>2 DEF ClientInv, Request, Stored, TypeOK, record
    <3>3. CASE TransitionRead(c) /\ cpc'[c] # "idle"
      <4>. DEFINE r == req[c].run
      <4>1. /\ r \in Runs /\ RecordInv(r) /\ UNCHANGED record
            /\ Allowed(r, req[c].act, status[r]) /\ UNCHANGED req
            /\ cpc'[c] = "save" /\ cseen'[c] = Copy(r)
        BY <1>0, <3>3 DEF TransitionRead, EndRequest, IInv, ClientInv, TypeOK
      <4>2. status[r] \in RunStatus
        BY <1>0, <4>1 DEF Allowed
      <4>3. CopyOK(status[r], rev[r], started[r], Copy(r))
        BY <1>0, <4>1, <4>2 DEF CopyOK, Copy, RecordInv, TypeOK
      <4>. HIDE DEF r
      <4>4. req'[c].run = r /\ req'[c].act = req[c].act
        BY <4>1 DEF r
      <4>5. Copy(r).st = status[r]
        BY DEF Copy
      <4>. QED BY <4>1, <4>2, <4>3, <4>4, <4>5 DEF ClientInv, CopyInv, Allowed, record
    <3>4. CASE TransitionSave(c) /\ cpc'[c] # "idle"
      <4>1. cpc'[c] = "read" /\ UNCHANGED <<record, req>> /\ cpc[c] = "save"
        BY <1>0, <3>4 DEF TransitionSave, EndRequest, TypeOK
      <4>. QED BY <4>1 DEF ClientInv, IInv, record
    <3>. QED BY <2>1, <2>3, <3>1, <3>2, <3>3, <3>4 DEF Client
  <2>. QED BY <2>2, <2>3
<1>. QED
  BY <1>1, <1>2 DEF Next, vars, Api, CreateRun, Consume, ConsumeFails, Enqueue, EnqueueRaises,
     QueueUnavailable, ApiCrash,
     Work, Autoclaim, ReadGroup, GetRun, BeginExecution, LoadMedia, CheckpointRead, CheckpointAct,
     Poll, OperatorsDone, ReadLatest, Complete, StoppedRead, FailedRead, SaveOutcome, Ack,
     Report, ReportRead, ReportSave, Fault, Lapse, LeaseLost, Crash, Expire, RedisLoss,
     RecoverRead, RecoverRebuild, StepFrame

\* A new entry is for a run that exists, and is only ever acknowledged settled.
LEMMA EntriesKept ==
  ASSUME IInv, [Next]_vars, TypeOK', \A r \in Runs : RecordStep(r)
  PROVE  \A e \in Entries : EntryInv(e)'
<1>. TAKE e \in Entries
<1>0. TypeOK /\ EntryInv(e)
  BY DEF IInv
<1>1. CASE UNCHANGED <<entry, entryRun>>
  BY <1>1, EntryKept
<1>2. ASSUME NEW r \in Runs, NEW f \in Entries, AddEntry(f, r), status[r] # "none"
      PROVE  EntryInv(e)'
  <2>1. CASE e = f
    <3>1. entry'[e] = "new" /\ entryRun'[e] = r
      BY <1>0, <1>2, <2>1 DEF AddEntry, TypeOK
    <3>2. status'[r] # "none"
      BY <1>0, <1>2, RecordStable DEF IInv
    <3>. QED BY <3>1, <3>2 DEF EntryInv
  <2>2. CASE e # f
    BY <1>0, <1>2, <2>2, EntryKept DEF AddEntry, TypeOK
  <2>. QED BY <2>1, <2>2
<1>3. CASE \E r \in Runs : Enqueue(r) \/ EnqueueRaises(r)
  <2>1. PICK r \in Runs : Enqueue(r) \/ EnqueueRaises(r)
    BY <1>3
  <2>2. status[r] # "none"
    BY <2>1 DEF Enqueue, EnqueueRaises, IInv, RecordInv
  <2>. QED BY <1>1, <1>2, <2>1, <2>2 DEF Enqueue, EnqueueRaises
<1>4. CASE \E w \in Workers : Autoclaim(w) \/ ReadGroup(w)
  <2>1. CASE \E w \in Workers, f \in Entries : entry[f] \in {"pending", "new"} /\ Deliver(w, f)
    <3>1. PICK w \in Workers, f \in Entries : entry[f] \in {"pending", "new"} /\ Deliver(w, f)
      BY <2>1
    <3>2. /\ entryRun'[e] = entryRun[e]
          /\ entry'[e] = entry[e] \/ (entry'[e] = "pending" /\ entry[e] # "free")
      BY <1>0, <3>1 DEF Deliver, TypeOK
    <3>. QED BY <3>2, EntryKept
  <2>. QED BY <1>1, <1>4, <2>1 DEF Autoclaim, ReadGroup, Claimable, queue
<1>5. CASE \E w \in Workers : Ack(w)
  <2>1. PICK w \in Workers : Ack(w)
    BY <1>5
  <2>2. /\ got[w] \in Entries /\ Settled(job[w]) /\ entryRun[got[w]] = job[w]
        /\ entry[got[w]] # "free"
    BY <2>1 DEF Ack, IInv, WorkerInv, Busy
  <2>3. /\ entryRun'[e] = entryRun[e]
        /\ entry'[e] = entry[e] \/ (entry'[e] = "acked" /\ e = got[w])
    BY <1>0, <2>1, <2>2 DEF Ack, TypeOK
  <2>. QED BY <2>2, <2>3, EntryKept
<1>6. CASE RedisLoss
  <2>1. /\ entryRun'[e] = entryRun[e]
        /\ entry'[e] \in {"lost", entry[e]} /\ (entry[e] # "free" \/ entry'[e] = "free")
    BY <1>6 DEF RedisLoss
  <2>. QED BY <2>1, EntryKept
<1>7. CASE RecoverRebuild
  <2>1. CASE UNCHANGED <<entry, entryRun>>
    BY <2>1, <1>1
  <2>2. CASE \E f \in [recovering -> {g \in Entries : entry[g] = "free"}] :
             /\ entry' = [g \in Entries |->
                            IF \E r \in recovering : f[r] = g THEN "new" ELSE entry[g]]
             /\ entryRun' = [g \in Entries |->
                            IF \E r \in recovering : f[r] = g
                            THEN CHOOSE r \in recovering : f[r] = g ELSE entryRun[g]]
    <3>1. PICK f \in [recovering -> {g \in Entries : entry[g] = "free"}] :
             /\ entry' = [g \in Entries |->
                            IF \E r \in recovering : f[r] = g THEN "new" ELSE entry[g]]
             /\ entryRun' = [g \in Entries |->
                            IF \E r \in recovering : f[r] = g
                            THEN CHOOSE r \in recovering : f[r] = g ELSE entryRun[g]]
      BY <2>2
    <3>2. CASE \E r \in recovering : f[r] = e
      <4>1. entryRun'[e] \in recovering /\ entry'[e] = "new"
        BY <3>1, <3>2
      <4>2. entryRun'[e] \in Runs /\ status[entryRun'[e]] # "none"
        BY <1>0, <1>7, <4>1 DEF RecoverRebuild, IInv, TypeOK
      <4>3. status' = status
        BY <1>7 DEF RecoverRebuild, record
      <4>. QED BY <4>1, <4>2, <4>3 DEF EntryInv
    <3>3. CASE ~\E r \in recovering : f[r] = e
      BY <3>1, <3>3, EntryKept
    <3>. QED BY <3>2, <3>3
  <2>. QED BY <1>7, <2>1, <2>2 DEF RecoverRebuild
<1>. QED
  BY <1>1, <1>3, <1>4, <1>5, <1>6, <1>7 DEF Next, vars, queue, Api, CreateRun, Consume, ConsumeFails,
     QueueUnavailable, ApiCrash, Client, TransitionRead, TransitionSave, Request,
     Work, GetRun, BeginExecution, LoadMedia, CheckpointRead, CheckpointAct,
     Poll, OperatorsDone, ReadLatest, Complete, StoppedRead, FailedRead, SaveOutcome,
     Report, ReportRead, ReportSave, Fault, Lapse, LeaseLost, Crash, Expire, RecoverRead, StepFrame

\* Entries never become free again, and keep their run.
LEMMA EntriesStable ==
  ASSUME IInv, [Next]_vars, NEW e \in Entries, entry[e] # "free"
  PROVE  entry'[e] # "free" /\ entryRun'[e] = entryRun[e]
<1>0. TypeOK
  BY DEF IInv
<1>1. CASE \E r \in Runs : Enqueue(r) \/ EnqueueRaises(r)
  BY <1>0, <1>1 DEF Enqueue, EnqueueRaises, AddEntry, TypeOK
<1>2. CASE \E w \in Workers : Autoclaim(w) \/ ReadGroup(w)
  BY <1>0, <1>2 DEF Autoclaim, ReadGroup, Deliver, Claimable, queue, TypeOK
<1>3. CASE (\E w \in Workers : Ack(w)) \/ RedisLoss
  BY <1>0, <1>3 DEF Ack, RedisLoss, TypeOK
<1>4. CASE RecoverRebuild
  BY <1>0, <1>4 DEF RecoverRebuild
<1>5. CASE UNCHANGED <<entry, entryRun>>
  BY <1>5
<1>. QED
  BY <1>1, <1>2, <1>3, <1>4, <1>5 DEF Next, vars, queue, Api, CreateRun, Consume, ConsumeFails,
     QueueUnavailable, ApiCrash, Client, TransitionRead, TransitionSave, Request,
     Work, GetRun, BeginExecution, LoadMedia, CheckpointRead, CheckpointAct,
     Poll, OperatorsDone, ReadLatest, Complete, StoppedRead, FailedRead, SaveOutcome,
     Report, ReportRead, ReportSave, Fault, Lapse, LeaseLost, Crash, Expire, RecoverRead, StepFrame

\* What stays true of the run a worker holds, and of the worker's copies.
LEMMA JobStable ==
  ASSUME IInv, [Next]_vars, TypeOK', \A r \in Runs : RecordStep(r), NEW w \in Workers, Busy(w),
         NEW r \in Runs, r = job[w]
  PROVE  /\ got[w] \in Entries /\ entry'[got[w]] # "free" /\ entryRun'[got[w]] = r
         /\ status'[r] # "none"
         /\ CopyInv(r, seen[w]) => CopyOK(status'[r], rev'[r], started'[r], seen[w])
         /\ CopyInv(r, opSeen[w]) => CopyOK(status'[r], rev'[r], started'[r], opSeen[w])
         /\ Settled(r) => status'[r] \in Terminal \cup {"deleted"}
         /\ Left(r) => status'[r] \notin {"none", "queued"}
         /\ (Left(r) /\ Ran(r)) => (started'[r] \/ status'[r] \in {"failed", "completed", "deleted"})
         /\ started[r] => started'[r]
         /\ status[r] = "deleted" => status'[r] = "deleted"
         /\ status[r] \in {"cancelled", "completed", "deleted"}
              => status'[r] \in {"cancelled", "completed", "deleted"}
<1>1. /\ TypeOK /\ WorkerInv(w) /\ RecordStep(r) /\ RecordInv(r)
  BY DEF IInv
<1>2. /\ seen[w] \in Copies /\ opSeen[w] \in Copies
      /\ got[w] \in Entries /\ entry[got[w]] # "free" /\ entryRun[got[w]] = r /\ status[r] # "none"
  BY <1>1 DEF TypeOK, WorkerInv
<1>3. /\ status[r] \in RunStatus \cup S!Unstored /\ rev[r] \in Nat /\ started[r] \in BOOLEAN
      /\ rev'[r] \in Nat /\ started'[r] \in BOOLEAN
  BY <1>1 DEF TypeOK
<1>4. entry'[got[w]] # "free" /\ entryRun'[got[w]] = r
  BY <1>2, EntriesStable
<1>5. /\ CopyInv(r, seen[w]) => CopyOK(status'[r], rev'[r], started'[r], seen[w])
      /\ CopyInv(r, opSeen[w]) => CopyOK(status'[r], rev'[r], started'[r], opSeen[w])
  BY <1>1, <1>2, <1>3, CopyStable DEF CopyInv, RecordStep
<1>. QED BY <1>1, <1>2, <1>4, <1>5, RecordStable DEF Settled, Left, Ran

\* A copy taken now is good.
LEMMA CopyNow ==
  ASSUME IInv, NEW r \in Runs, status[r] \in RunStatus
  PROVE  CopyOK(status[r], rev[r], started[r], Copy(r)) /\ Copy(r).st = status[r] /\ Copy(r).rev = rev[r]
BY DEF IInv, TypeOK, RecordInv, CopyOK, Copy

LEMMA Moved ==
  ASSUME TypeOK, NEW w \in Workers, NEW p
  PROVE  /\ Went(w, p) => pc'[w] = p /\ seen'[w] = NoCopy
         /\ Took(w, p) => pc'[w] = p /\ seen'[w] = Copy(job[w])
         /\ EndOperator(w) => op'[w] = "none"
         /\ StepFrame(w) => job'[w] = job[w] /\ got'[w] = got[w]
BY DEF TypeOK, Went, Took, Goto, EndOperator, StepFrame

\* Another worker's step does not touch this one.
LEMMA OthersKept ==
  ASSUME IInv, [Next]_vars, TypeOK', \A r \in Runs : RecordStep(r), NEW w \in Workers,
         pc'[w] = pc[w], job'[w] = job[w], got'[w] = got[w], seen'[w] = seen[w],
         tries'[w] = tries[w], op'[w] = op[w], opSeen'[w] = opSeen[w]
  PROVE  WorkerInv(w)'
<1>0. WorkerInv(w) /\ TypeOK
  BY DEF IInv
<1>1. CASE ~Busy(w)
  BY <1>0, <1>1 DEF WorkerInv, Busy, Executing
<1>2. CASE Busy(w)
  <2>1. PICK r \in Runs : r = job[w]
    BY <1>0, <1>2 DEF WorkerInv
  <2>. QED BY <1>0, <1>2, <2>1, JobStable DEF WorkerInv, Busy, Executing, Settled, Left, Ran, CopyInv
<1>. QED BY <1>1, <1>2

LEMMA ReleaseKept ==
  ASSUME TypeOK, NEW w \in Workers, Release(w)
  PROVE  WorkerInv(w)'
BY DEF TypeOK, Release, Goto, WorkerInv, Busy, Executing

LEMMA DeliverKept ==
  ASSUME IInv, NEW w \in Workers, NEW e \in Entries, Deliver(w, e), entry[e] # "free",
         pc[w] \in {"claim", "read"}, UNCHANGED <<record, optask>>
  PROVE  WorkerInv(w)'
<1>1. /\ pc'[w] = "get" /\ job'[w] = entryRun[e] /\ got'[w] = e /\ entry'[e] = "pending"
      /\ tries'[w] = tries[w] /\ op'[w] = op[w] /\ entryRun' = entryRun /\ status' = status
  BY DEF IInv, TypeOK, Deliver, Goto, record, optask
<1>2. tries[w] = 0 /\ op[w] = "none"
  BY DEF IInv, WorkerInv
<1>3. entryRun[e] \in Runs /\ status[entryRun[e]] # "none"
  BY DEF IInv, EntryInv
<1>. QED BY <1>1, <1>2, <1>3 DEF WorkerInv, Busy, Executing

\* The worker's own steps: the Run it holds is called r.  Each step is stated as
\* the case it amounts to: where the worker goes and what it then knows.
LEMMA SelfKept ==
  ASSUME IInv, [Next]_vars, TypeOK', \A q \in Runs : RecordStep(q), NEW w \in Workers,
         Busy(w), NEW r \in Runs, r = job[w], job'[w] = r, got'[w] = got[w],
         pc'[w] \in WorkerPCs \ {"claim", "read", "get"},
         pc'[w] \in {"begin", "act", "complete", "stopsave", "failsave"} =>
           CopyOK(status'[r], rev'[r], started'[r], seen'[w]),
         tries'[w] <= 1,
         pc'[w] = "begin" /\ tries'[w] > 0 => seen'[w].st # "queued",
         pc'[w] = "ack" => status'[r] \in Terminal \cup {"deleted"},
         pc'[w] \in {"stopped", "stopsave"} =>
           /\ status'[r] \in {"cancelled", "completed", "deleted"}
           /\ status'[r] = "deleted" \/ started'[r],
         pc'[w] = "stopsave" => seen'[w].st # "cancelled",
         pc'[w] = "failsave" => seen'[w].st \notin Terminal,
         pc'[w] \in {"load", "ckpt", "act", "work", "store", "complete"} =>
           /\ status'[r] \notin {"none", "queued"}
           /\ started'[r] \/ status'[r] \in {"failed", "completed", "deleted"},
         op'[w] # "none" => pc'[w] \in {"ckpt", "act", "work"},
         op'[w] = "save" => CopyOK(status'[r], rev'[r], started'[r], opSeen'[w])
  PROVE  WorkerInv(w)'
<1>1. /\ got[w] \in Entries /\ entry'[got[w]] # "free" /\ entryRun'[got[w]] = r
      /\ status'[r] # "none"
  BY JobStable
<1>. QED BY <1>1 DEF WorkerInv, Busy, Executing, CopyInv, Settled, Left, Ran

LEMMA BeginKept ==
  ASSUME IInv, [Next]_vars, TypeOK', \A q \in Runs : RecordStep(q), NEW w \in Workers,
         BeginExecution(w)
  PROVE  WorkerInv(w)'
<1>. DEFINE r == job[w]
           s == seen[w].st
<1>a. pc[w] = "begin" /\ TypeOK /\ WorkerInv(w) /\ tries[w] \in Nat
  BY DEF BeginExecution, IInv, TypeOK
<1>b. r \in Runs /\ Busy(w)
  BY <1>a DEF WorkerInv, Busy
<1>0. /\ TypeOK /\ Busy(w) /\ r \in Runs /\ pc[w] = "begin" /\ RecordInv(r)
      /\ CopyOK(status[r], rev[r], started[r], seen[w])
      /\ op[w] = "none" /\ tries[w] <= 1 /\ tries[w] \in Nat /\ (tries[w] > 0 => s # "queued")
  BY <1>a, <1>b DEF IInv, WorkerInv, CopyInv
<1>1. job'[w] = r /\ got'[w] = got[w] /\ op'[w] = "none"
  BY <1>0, Moved DEF BeginExecution, optask
<1>2. CASE s = "cancelled"
  <2>1. pc'[w] = "ack" /\ UNCHANGED <<record, tries>>
    BY <1>0, <1>2, Moved DEF BeginExecution
  <2>2. status'[r] \in Terminal \cup {"deleted"}
    BY <1>0, <1>2, <2>1 DEF CopyOK, record
  <2>. HIDE DEF r, s
  <2>. QED BY <1>0, <1>1, <2>1, <2>2, SelfKept DEF r, WorkerPCs
<1>3. CASE s \in {"completed", "failed", "running", "pausing", "paused"}
  <2>1. pc'[w] = "load" /\ UNCHANGED <<record, tries>>
    BY <1>0, <1>3, Moved DEF BeginExecution
  <2>2. /\ status'[r] \notin {"none", "queued"}
        /\ started'[r] \/ status'[r] \in {"failed", "completed", "deleted"}
    BY <1>0, <1>3, <2>1 DEF CopyOK, record
  <2>. HIDE DEF r, s
  <2>. QED BY <1>0, <1>1, <2>1, <2>2, SelfKept DEF r, WorkerPCs
<1>4. CASE s = "cancelling"
  <2>1. TrySet(w, "cancelled", "ack", "failed") /\ UNCHANGED tries
    BY <1>0, <1>4 DEF BeginExecution
  <2>2. CASE Fresh(r, seen[w])
    <3>1. pc'[w] = "ack" /\ status'[r] = "cancelled"
      BY <1>0, <2>1, <2>2, Moved DEF TrySet, SetStatus, Save, TypeOK
    <3>. HIDE DEF r, s
    <3>. QED BY <1>0, <1>1, <2>1, <3>1, SelfKept DEF r, WorkerPCs
  <2>3. CASE ~Fresh(r, seen[w])
    <3>1. pc'[w] = "failed"
      BY <1>0, <2>1, <2>3, Moved DEF TrySet
    <3>. HIDE DEF r, s
    <3>. QED BY <1>0, <1>1, <2>1, <3>1, SelfKept DEF r, WorkerPCs
  <2>. QED BY <2>2, <2>3
<1>5. CASE s = "queued" /\ Fresh(r, seen[w])
  <2>1. pc'[w] = "load" /\ status'[r] = "running" /\ started'[r] /\ UNCHANGED tries
    BY <1>0, <1>5, Moved DEF BeginExecution, Save, TypeOK
  <2>. HIDE DEF r, s
  <2>. QED BY <1>0, <1>1, <2>1, SelfKept DEF r, WorkerPCs
<1>6. CASE s = "queued" /\ ~Fresh(r, seen[w])
  <2>0. UNCHANGED record /\ tries[w] = 0
    BY <1>0, <1>6 DEF BeginExecution
  <2>1. CASE r \in Stored /\ tries[w] + 1 < MaxTries
    <3>1. pc'[w] = "begin" /\ seen'[w] = Copy(r) /\ tries'[w] = 1
      BY <1>0, <1>6, <2>0, <2>1, Moved DEF BeginExecution, BeginConflict, TypeOK
    <3>2. status[r] \in RunStatus /\ status[r] # "queued"
      BY <1>0, <1>6, <2>1 DEF Stored, Fresh, CopyOK, RecordInv
    <3>. HIDE DEF r, s
    <3>3. /\ CopyOK(status'[r], rev'[r], started'[r], seen'[w])
          /\ seen'[w].st # "queued"
      BY <1>0, <2>0, <3>1, <3>2, CopyNow DEF record
    <3>. QED BY <1>0, <1>1, <3>1, <3>3, SelfKept DEF r, WorkerPCs
  <2>2. CASE ~(r \in Stored /\ tries[w] + 1 < MaxTries)
    <3>1. pc'[w] = "failed" /\ UNCHANGED tries
      BY <1>0, <1>6, <2>2, Moved DEF BeginExecution, BeginConflict
    <3>. HIDE DEF r, s
    <3>. QED BY <1>0, <1>1, <3>1, SelfKept DEF r, WorkerPCs
  <2>. QED BY <2>1, <2>2
<1>. QED BY <1>0, <1>2, <1>3, <1>4, <1>5, <1>6 DEF CopyOK

LEMMA CheckpointKept ==
  ASSUME IInv, [Next]_vars, TypeOK', \A q \in Runs : RecordStep(q), NEW w \in Workers,
         CheckpointRead(w) \/ CheckpointAct(w)
  PROVE  WorkerInv(w)'
<1>. DEFINE r == job[w]
<1>0. /\ TypeOK /\ Busy(w) /\ r \in Runs /\ RecordInv(r) /\ status[r] # "none"
      /\ Left(r) /\ Ran(r)
      /\ op[w] = "save" => CopyInv(r, opSeen[w])
      /\ pc[w] = "act" => CopyOK(status[r], rev[r], started[r], seen[w])
      /\ tries'[w] <= 1
      /\ op[w] \in {"none", "run", "save"} /\ status[r] \in RunStatus \cup S!Unstored
  BY DEF IInv, TypeOK, CheckpointRead, CheckpointAct, WorkerInv, Busy, Executing, CopyInv
<1>1. job'[w] = r /\ got'[w] = got[w]
  BY <1>0, Moved DEF CheckpointRead, CheckpointAct
<1>2. /\ CopyInv(r, opSeen[w]) => CopyOK(status'[r], rev'[r], started'[r], opSeen[w])
      /\ status'[r] \notin {"none", "queued"}
      /\ started'[r] \/ status'[r] \in {"failed", "completed", "deleted"}
  BY <1>0, JobStable
<1>3. CASE CheckpointRead(w)
  <2>1. CASE r \in Stored
    <3>1. pc'[w] = "act" /\ seen'[w] = Copy(r) /\ UNCHANGED <<record, optask>>
      BY <1>0, <1>3, <2>1, Moved DEF CheckpointRead
    <3>. HIDE DEF r
    <3>2. CopyOK(status'[r], rev'[r], started'[r], seen'[w])
      BY <1>0, <2>1, <3>1, CopyNow DEF Stored, record
    <3>. QED BY <1>0, <1>1, <1>2, <3>1, <3>2, SelfKept DEF r, optask, WorkerPCs
  <2>2. CASE r \notin Stored
    <3>1. pc'[w] = "stopped" /\ op'[w] = "none" /\ UNCHANGED record
      BY <1>0, <1>3, <2>2, Moved DEF CheckpointRead
    <3>2. status'[r] = "deleted"
      BY <1>0, <2>2, <3>1 DEF Stored, record
    <3>. HIDE DEF r
    <3>. QED BY <1>0, <1>1, <3>1, <3>2, SelfKept DEF r, WorkerPCs
  <2>. QED BY <2>1, <2>2
<1>4. CASE CheckpointAct(w)
  <2>0. pc[w] = "act"
    BY <1>4 DEF CheckpointAct
  <2>1. CASE seen[w].st \in {"cancelling", "pausing"} /\ ~Fresh(r, seen[w])
    <3>1. pc'[w] = "failed" /\ op'[w] = "none"
      BY <1>0, <1>4, <2>1, Moved DEF CheckpointAct, TrySet
    <3>. HIDE DEF r
    <3>. QED BY <1>0, <1>1, <3>1, SelfKept DEF r, WorkerPCs
  <2>2. CASE seen[w].st = "cancelling" /\ Fresh(r, seen[w])
    <3>1. /\ pc'[w] = "stopped" /\ op'[w] = "none" /\ status'[r] = "cancelled"
          /\ started'[r] = started[r]
      BY <1>0, <1>4, <2>2, Moved DEF CheckpointAct, TrySet, SetStatus, Save, TypeOK
    <3>2. started[r]
      BY <1>0, <2>0, <2>2 DEF CopyOK, Fresh, RecordInv
    <3>. HIDE DEF r
    <3>. QED BY <1>0, <1>1, <3>1, <3>2, SelfKept DEF r, WorkerPCs
  <2>3. CASE seen[w].st = "pausing" /\ Fresh(r, seen[w])
    <3>1. pc'[w] = "ckpt" /\ op'[w] = op[w] /\ opSeen'[w] = opSeen[w]
      BY <1>0, <1>4, <2>3, Moved DEF CheckpointAct, TrySet, optask
    <3>. HIDE DEF r
    <3>. QED BY <1>0, <1>1, <1>2, <3>1, SelfKept DEF r, WorkerPCs
  <2>4. CASE seen[w].st = "paused"
    <3>1. pc'[w] = "ckpt" /\ op'[w] = op[w] /\ opSeen'[w] = opSeen[w]
      BY <1>0, <1>4, <2>4, Moved DEF CheckpointAct, optask
    <3>. HIDE DEF r
    <3>. QED BY <1>0, <1>1, <1>2, <3>1, SelfKept DEF r, WorkerPCs
  <2>5. CASE seen[w].st \notin {"cancelling", "pausing", "paused"}
    <3>1. /\ pc'[w] = "work" /\ opSeen'[w] = opSeen[w]
          /\ op'[w] = "save" => op[w] = "save"
      BY <1>0, <1>4, <2>5, Moved DEF CheckpointAct, TypeOK
    <3>. HIDE DEF r
    <3>. QED BY <1>0, <1>1, <1>2, <3>1, SelfKept DEF r, WorkerPCs
  <2>. QED BY <2>1, <2>2, <2>3, <2>4, <2>5
<1>. QED BY <1>3, <1>4

LEMMA ExecuteKept ==
  ASSUME IInv, [Next]_vars, TypeOK', \A q \in Runs : RecordStep(q), NEW w \in Workers,
         \/ GetRun(w) \/ LoadMedia(w) \/ Poll(w) \/ OperatorsDone(w) \/ Fault(w) \/ ReadLatest(w)
         \/ Complete(w) \/ StoppedRead(w) \/ FailedRead(w) \/ SaveOutcome(w)
  PROVE  WorkerInv(w)'
<1>. DEFINE r == job[w]
<1>a. /\ TypeOK /\ WorkerInv(w)
      /\ pc[w] \in WorkerPCs \ {"claim", "read", "ack"}
  BY DEF WorkerPCs, IInv, GetRun, LoadMedia, Poll, OperatorsDone, Fault, ReadLatest, Complete, StoppedRead,
         FailedRead, SaveOutcome
<1>b. r \in Runs /\ Busy(w) /\ status[r] # "none" /\ tries[w] <= 1
  BY <1>a DEF WorkerInv, Busy, WorkerPCs
<1>c. RecordInv(r) /\ status[r] \in RunStatus \cup S!Unstored
  BY <1>a, <1>b DEF IInv, TypeOK
<1>d. /\ Left(r) => status'[r] \notin {"none", "queued"}
      /\ (Left(r) /\ Ran(r)) => (started'[r] \/ status'[r] \in {"failed", "completed", "deleted"})
      /\ CopyInv(r, opSeen[w]) => CopyOK(status'[r], rev'[r], started'[r], opSeen[w])
  BY <1>b, JobStable
<1>1. CASE GetRun(w)
  <2>1. CASE r \notin Stored
    BY <1>a, <1>1, <2>1, ReleaseKept DEF GetRun, Exit
  <2>2. CASE r \in Stored
    <3>1. /\ job'[w] = r /\ got'[w] = got[w] /\ UNCHANGED <<record, tries, optask>>
          /\ op[w] = "none" /\ tries[w] = 0
      BY <1>a, <1>1, <2>2, Moved DEF GetRun, WorkerInv
    <3>2. CASE status[r] \in Terminal
      <4>1. pc'[w] = "ack"
        BY <1>a, <1>1, <2>2, <3>2, Moved DEF GetRun, Skips
      <4>. HIDE DEF r
      <4>. QED BY <1>b, <3>1, <3>2, <4>1, SelfKept DEF r, optask, record, WorkerPCs
    <3>3. CASE status[r] \notin Terminal
      <4>1. pc'[w] = "begin" /\ seen'[w] = Copy(r)
        BY <1>a, <1>1, <2>2, <3>3, Moved DEF GetRun, Skips
      <4>. HIDE DEF r
      <4>2. CopyOK(status'[r], rev'[r], started'[r], seen'[w])
        BY <1>b, <2>2, <3>1, <4>1, CopyNow DEF Stored, record
      <4>. QED BY <1>b, <3>1, <4>1, <4>2, SelfKept DEF r, optask, WorkerPCs
    <3>. QED BY <3>2, <3>3
  <2>. QED BY <2>1, <2>2
<1>2. CASE SaveOutcome(w)
  <2>1. CASE Fresh(r, seen[w])
    <3>1. /\ pc'[w] = "ack" /\ status'[r] \in Terminal
          /\ job'[w] = r /\ got'[w] = got[w] /\ UNCHANGED <<tries, optask>> /\ op[w] = "none"
      BY <1>a, <1>b, <1>2, <2>1, Moved DEF SaveOutcome, SetStatus, Save, TypeOK, WorkerInv
    <3>. HIDE DEF r
    <3>. QED BY <1>b, <3>1, SelfKept DEF r, optask, WorkerPCs
  <2>2. CASE ~Fresh(r, seen[w])
    BY <1>a, <1>2, <2>2, ReleaseKept DEF SaveOutcome, Exit
  <2>. QED BY <2>1, <2>2
<1>3. CASE LoadMedia(w) \/ Poll(w) \/ OperatorsDone(w)
  <2>1. /\ job'[w] = r /\ got'[w] = got[w] /\ UNCHANGED tries /\ Left(r) /\ Ran(r)
        /\ pc'[w] \in {"ckpt", "store"}
        /\ op'[w] = "none" \/ (pc'[w] = "ckpt" /\ op'[w] = op[w] /\ opSeen'[w] = opSeen[w])
        /\ op[w] = "save" => CopyInv(r, opSeen[w])
    BY <1>a, <1>3, Moved DEF LoadMedia, Poll, OperatorsDone, WorkerInv, Executing, optask
  <2>. HIDE DEF r
  <2>. QED BY <1>b, <1>d, <2>1, SelfKept DEF r, WorkerPCs
<1>4. CASE ReadLatest(w)
  <2>1. /\ job'[w] = r /\ got'[w] = got[w] /\ UNCHANGED <<record, tries, optask>> /\ Left(r) /\ Ran(r)
        /\ op[w] = "none"
        /\ pc'[w] = "failed" \/ (pc'[w] = "complete" /\ seen'[w] = Copy(r) /\ r \in Stored)
    BY <1>a, <1>4, Moved DEF ReadLatest, WorkerInv, Executing
  <2>. HIDE DEF r
  <2>2. pc'[w] = "complete" => CopyOK(status'[r], rev'[r], started'[r], seen'[w])
    BY <1>b, <2>1, CopyNow DEF Stored, record
  <2>. QED BY <1>b, <1>d, <2>1, <2>2, SelfKept DEF r, optask, WorkerPCs
<1>5. CASE Complete(w)
  <2>1. /\ job'[w] = r /\ got'[w] = got[w] /\ UNCHANGED <<tries, optask>> /\ op[w] = "none"
        /\ pc'[w] = "failed" \/ (pc'[w] = "ack" /\ status'[r] = "completed")
    BY <1>a, <1>b, <1>5, Moved DEF Complete, WorkerInv, Save, TypeOK
  <2>. HIDE DEF r
  <2>. QED BY <1>b, <2>1, SelfKept DEF r, optask, WorkerPCs
<1>6. CASE StoppedRead(w)
  <2>1. /\ job'[w] = r /\ got'[w] = got[w] /\ UNCHANGED <<record, tries, optask>> /\ op[w] = "none"
        /\ status[r] \in {"cancelled", "completed", "deleted"}
        /\ status[r] = "deleted" \/ started[r]
    BY <1>a, <1>6, Moved DEF StoppedRead, WorkerInv
  <2>2. CASE r \in Stored /\ status[r] # "cancelled"
    <3>1. pc'[w] = "stopsave" /\ seen'[w] = Copy(r)
      BY <1>a, <1>6, <2>2, Moved DEF StoppedRead
    <3>. HIDE DEF r
    <3>2. CopyOK(status'[r], rev'[r], started'[r], seen'[w]) /\ seen'[w].st # "cancelled"
      BY <1>b, <2>1, <2>2, <3>1, CopyNow DEF Stored, record
    <3>. QED BY <1>b, <2>1, <3>1, <3>2, SelfKept DEF r, optask, record, WorkerPCs
  <2>3. CASE ~(r \in Stored /\ status[r] # "cancelled")
    <3>1. pc'[w] = "ack" /\ status[r] \in {"cancelled", "deleted"}
      BY <1>a, <1>b, <1>c, <1>6, <2>3, Moved DEF StoppedRead, Stored
    <3>. HIDE DEF r
    <3>. QED BY <1>b, <2>1, <3>1, SelfKept DEF r, optask, record, WorkerPCs
  <2>. QED BY <2>2, <2>3
<1>7. CASE FailedRead(w)
  <2>1. job'[w] = r /\ got'[w] = got[w] /\ UNCHANGED <<record, tries, optask>> /\ op[w] = "none"
    BY <1>a, <1>7, Moved DEF FailedRead, WorkerInv
  <2>2. CASE r \in Stored /\ status[r] \notin Terminal
    <3>1. pc'[w] = "failsave" /\ seen'[w] = Copy(r)
      BY <1>a, <1>7, <2>2, Moved DEF FailedRead
    <3>. HIDE DEF r
    <3>2. CopyOK(status'[r], rev'[r], started'[r], seen'[w]) /\ seen'[w].st \notin Terminal
      BY <1>b, <2>1, <2>2, <3>1, CopyNow DEF Stored, record
    <3>. QED BY <1>b, <2>1, <3>1, <3>2, SelfKept DEF r, optask, WorkerPCs
  <2>3. CASE ~(r \in Stored /\ status[r] \notin Terminal)
    <3>1. pc'[w] = "ack" /\ status[r] \in Terminal \cup {"deleted"}
      BY <1>a, <1>b, <1>c, <1>7, <2>3, Moved DEF FailedRead, Stored
    <3>. HIDE DEF r
    <3>. QED BY <1>b, <2>1, <3>1, SelfKept DEF r, optask, record, WorkerPCs
  <2>. QED BY <2>2, <2>3
<1>8. CASE Fault(w)
  <2>1. /\ job'[w] = r /\ got'[w] = got[w] /\ UNCHANGED tries /\ pc'[w] = "failed" /\ op'[w] = "none"
    BY <1>a, <1>8, Moved DEF Fault
  <2>. HIDE DEF r
  <2>. QED BY <1>b, <2>1, SelfKept DEF r, WorkerPCs
<1>. QED BY <1>1, <1>2, <1>3, <1>4, <1>5, <1>6, <1>7, <1>8

LEMMA ReportKept ==
  ASSUME IInv, [Next]_vars, TypeOK', \A q \in Runs : RecordStep(q), NEW w \in Workers, Report(w)
  PROVE  WorkerInv(w)'
<1>. DEFINE r == job[w]
<1>a. /\ TypeOK /\ WorkerInv(w) /\ pc[w] \in {"ckpt", "act", "work"}
  BY DEF IInv, Report, ReportRead, ReportSave, WorkerInv
<1>b. /\ r \in Runs /\ Busy(w) /\ tries[w] <= 1 /\ Left(r) /\ Ran(r)
      /\ pc[w] = "act" => CopyInv(r, seen[w])
  BY <1>a DEF WorkerInv, Busy, Executing
<1>c. /\ job'[w] = r /\ got'[w] = got[w] /\ UNCHANGED <<pc, seen, tries>>
  BY <1>a, Moved DEF Report, ReportRead, ReportSave
<1>d. /\ status'[r] \notin {"none", "queued"}
      /\ started'[r] \/ status'[r] \in {"failed", "completed", "deleted"}
      /\ CopyInv(r, seen[w]) => CopyOK(status'[r], rev'[r], started'[r], seen[w])
  BY <1>b, JobStable
<1>1. CASE ReportRead(w)
  <2>1. op'[w] = "save" /\ opSeen'[w] = Copy(r) /\ UNCHANGED record /\ r \in Stored
    BY <1>a, <1>1 DEF ReportRead, TypeOK
  <2>. HIDE DEF r
  <2>2. CopyOK(status'[r], rev'[r], started'[r], opSeen'[w])
    BY <1>b, <2>1, CopyNow DEF Stored, record
  <2>. QED BY <1>a, <1>b, <1>c, <1>d, <2>1, <2>2, SelfKept DEF r, WorkerPCs
<1>2. CASE ReportSave(w)
  <2>1. op'[w] = "run"
    BY <1>a, <1>2 DEF ReportSave, TypeOK
  <2>. HIDE DEF r
  <2>. QED BY <1>a, <1>b, <1>c, <1>d, <2>1, SelfKept DEF r, WorkerPCs
<1>. QED BY <1>1, <1>2 DEF Report

\* A step of the queue, of the API process or of a request leaves every worker.
LEMMA NoWorker ==
  ASSUME IInv, [Next]_vars, TypeOK', \A r \in Runs : RecordStep(r), UNCHANGED <<worker, optask>>
  PROVE  \A w \in Workers : WorkerInv(w)'
BY OthersKept DEF worker, optask

\* A worker's own step leaves the other workers' variables alone.
LEMMA OtherWorkers ==
  ASSUME TypeOK, NEW u \in Workers, NEW w \in Workers, w # u,
         Work(u) \/ Report(u) \/ Fault(u) \/ Lapse(u) \/ LeaseLost(u) \/ Crash(u)
  PROVE  /\ pc'[w] = pc[w] /\ job'[w] = job[w] /\ got'[w] = got[w] /\ seen'[w] = seen[w]
         /\ tries'[w] = tries[w] /\ op'[w] = op[w] /\ opSeen'[w] = opSeen[w]
<1>1. CASE Autoclaim(u) \/ ReadGroup(u)
  BY <1>1 DEF Autoclaim, ReadGroup, Deliver, Goto, optask, TypeOK
<1>2. CASE Ack(u) \/ Crash(u) \/ Lapse(u) \/ LeaseLost(u)
  BY <1>2 DEF Ack, Crash, Exit, Release, Lapse, LeaseLost, Goto, optask, TypeOK
<1>3. CASE GetRun(u) \/ LoadMedia(u) \/ StoppedRead(u) \/ FailedRead(u) \/ ReadLatest(u) \/ Complete(u)
  BY <1>3 DEF GetRun, LoadMedia, StoppedRead, FailedRead, ReadLatest, Complete, StepFrame, Exit, Release,
         Went, Took, Goto, optask, TypeOK
<1>4. CASE BeginExecution(u) \/ SaveOutcome(u)
  BY <1>4 DEF BeginExecution, BeginConflict, SaveOutcome, TrySet, StepFrame, Exit, Release, Went, Took, Goto, optask, TypeOK
<1>5. CASE CheckpointRead(u) \/ CheckpointAct(u)
  BY <1>5 DEF CheckpointRead, CheckpointAct, TrySet, EndOperator, StepFrame, Went, Took, Goto, optask, TypeOK
<1>6. CASE Poll(u) \/ OperatorsDone(u) \/ Fault(u) \/ Report(u)
  BY <1>6 DEF Poll, OperatorsDone, Fault, Report, ReportRead, ReportSave, EndOperator, StepFrame,
         Went, Goto, optask, TypeOK
<1>. QED BY <1>1, <1>2, <1>3, <1>4, <1>5, <1>6 DEF Work

\* The poll of the consumer loop: an entry is delivered, or nothing is.
LEMMA PollKept ==
  ASSUME IInv, [Next]_vars, TypeOK', \A r \in Runs : RecordStep(r), NEW w \in Workers,
         Autoclaim(w) \/ ReadGroup(w)
  PROVE  WorkerInv(w)'
<1>0. TypeOK /\ WorkerInv(w) /\ pc[w] \in {"claim", "read"} /\ UNCHANGED <<record, optask>>
  BY DEF IInv, Autoclaim, ReadGroup
<1>1. CASE \E e \in Entries : entry[e] \in {"new", "pending"} /\ Deliver(w, e)
  BY <1>0, <1>1, DeliverKept
<1>2. CASE ~\E e \in Entries : entry[e] \in {"new", "pending"} /\ Deliver(w, e)
  <2>1. /\ pc'[w] \in {"claim", "read"} /\ tries'[w] = tries[w] /\ op'[w] = op[w]
    BY <1>0, <1>2 DEF Autoclaim, ReadGroup, Claimable, Goto, optask, TypeOK
  <2>2. tries[w] = 0 /\ op[w] = "none"
    BY <1>0 DEF WorkerInv
  <2>. QED BY <2>1, <2>2 DEF WorkerInv, Busy, Executing
<1>. QED BY <1>1, <1>2

LEMMA WorkersKept ==
  ASSUME IInv, [Next]_vars, TypeOK', \A r \in Runs : RecordStep(r)
  PROVE  \A w \in Workers : WorkerInv(w)'
<1>0. TypeOK
  BY DEF IInv
<1>1. CASE \E u \in Workers : Work(u) \/ Report(u) \/ Fault(u) \/ Lapse(u) \/ LeaseLost(u) \/ Crash(u)
  <2>1. PICK u \in Workers : Work(u) \/ Report(u) \/ Fault(u) \/ Lapse(u) \/ LeaseLost(u) \/ Crash(u)
    BY <1>1
  <2>. TAKE w \in Workers
  <2>2. CASE w # u
    BY <1>0, <2>1, <2>2, OtherWorkers, OthersKept
  <2>3. CASE w = u
    <3>1. CASE Ack(u) \/ Crash(u)
      BY <1>0, <2>3, <3>1, ReleaseKept DEF Ack, Crash, Exit
    <3>2. CASE Lapse(u) \/ LeaseLost(u)
      BY <2>3, <3>2, OthersKept DEF Lapse, LeaseLost, optask
    <3>3. CASE Work(u) /\ ~Ack(u)
      BY <2>3, <3>3, PollKept, BeginKept, CheckpointKept, ExecuteKept DEF Work
    <3>4. CASE Report(u) \/ Fault(u)
      BY <2>3, <3>4, ReportKept, ExecuteKept
    <3>. QED BY <2>1, <3>1, <3>2, <3>3, <3>4
  <2>. QED BY <2>2, <2>3
<1>2. CASE UNCHANGED <<worker, optask>>
  BY <1>2, NoWorker
<1>. QED
  BY <1>1, <1>2 DEF Next, vars, Api, CreateRun, Consume, ConsumeFails, Enqueue, EnqueueRaises,
     QueueUnavailable, ApiCrash, Client, TransitionRead, TransitionSave, Request, Expire, RedisLoss,
     RecoverRead, RecoverRebuild

\* What the recovery has read exists, and stays.
LEMMA RecoveringKept ==
  ASSUME IInv, [Next]_vars, \A r \in Runs : RecordStep(r)
  PROVE  recovering' # {NoRun} => \A r \in recovering' : status'[r] # "none"
<1>0. TypeOK /\ \A r \in Runs : status[r] # "none" => status'[r] # "none"
  BY RecordStable DEF IInv
<1>1. CASE RecoverRead
  BY <1>1 DEF RecoverRead, Stored, record
<1>2. CASE RecoverRebuild
  BY <1>2 DEF RecoverRebuild
<1>3. CASE UNCHANGED recovering
  BY <1>0, <1>3 DEF IInv, TypeOK
<1>4. CASE \E r \in Runs : Api(r) \/ ApiCrash(r)
  BY <1>3, <1>4 DEF Api, CreateRun, Consume, ConsumeFails, Enqueue, EnqueueRaises, QueueUnavailable, ApiCrash
<1>5. CASE \/ \E c \in Clients : Client(c)
           \/ \E c \in Clients, r \in Runs, act \in {"pause", "resume", "cancel"} : Request(c, r, act)
  BY <1>3, <1>5 DEF Client, TransitionRead, TransitionSave, Request
<1>6. CASE \E w \in Workers : Work(w)
  BY <1>3, <1>6 DEF Work, Autoclaim, ReadGroup, GetRun, BeginExecution, LoadMedia, CheckpointRead,
     CheckpointAct, Poll, OperatorsDone, ReadLatest, Complete, StoppedRead, FailedRead, SaveOutcome, Ack,
     StepFrame
<1>7. CASE \/ \E w \in Workers : Report(w) \/ Fault(w) \/ Lapse(w) \/ LeaseLost(w) \/ Crash(w)
           \/ \E e \in Entries : Expire(e)
           \/ RedisLoss \/ UNCHANGED vars
  BY <1>3, <1>7 DEF Report, ReportRead, ReportSave, Fault, Lapse, LeaseLost, Crash, Expire, RedisLoss,
     StepFrame, vars
<1>. QED BY <1>1, <1>2, <1>4, <1>5, <1>6, <1>7 DEF Next

-----------------------------------------------------------------------------
(* Progress: every save writes back what its copy says of it. *)

\* A step leaves a record's revision and progress, creates the record, or
\* raises the revision by one without lowering the progress.
Advances(r) ==
  \/ rev'[r] = rev[r] /\ progress'[r] = progress[r]
  \/ rev[r] = 0 /\ rev'[r] = 1 /\ progress'[r] = progress[r]
  \/ rev[r] >= 1 /\ rev'[r] = rev[r] + 1 /\ progress'[r] >= progress[r]

LEMMA SaveAdvances ==
  ASSUME TypeOK, NEW q \in Runs, NEW s, NEW p \in 0..MaxProgress, Save(q, s, p),
         rev[q] >= 1, p >= progress[q]
  PROVE  \A r \in Runs : Advances(r)
<1>. TAKE r \in Runs
<1>1. CASE r = q
  BY <1>1 DEF TypeOK, Save, Advances
<1>2. CASE r # q
  BY <1>2 DEF TypeOK, Save, Advances
<1>. QED BY <1>1, <1>2

\* A save of a copy that is still fresh, with the copy's own progress.
LEMMA CopyAdvances ==
  ASSUME IInv, NEW q \in Runs, NEW s, NEW copy \in Copies, Fresh(q, copy), Current(q, copy),
         Save(q, s, copy.prog)
  PROVE  \A r \in Runs : Advances(r)
<1>1. rev[q] >= 1
  BY DEF Fresh, IInv, RecordInv
<1>2. copy.prog \in 0..MaxProgress /\ copy.prog = progress[q]
  BY DEF Fresh, Current, Copies
<1>3. copy.prog >= progress[q]
  BY <1>2, ConstantsAssumption
<1>. QED BY <1>1, <1>2, <1>3, SaveAdvances DEF IInv

LEMMA SameAdvances ==
  ASSUME TypeOK, UNCHANGED record
  PROVE  \A r \in Runs : Advances(r)
BY DEF record, Advances

\* What a worker, its operator and a request hold for their next save.
LEMMA HeldCopies ==
  ASSUME IInv
  PROVE  /\ Created \in Copies /\ \A r \in Runs : Current(r, Created)
         /\ \A w \in Workers : /\ seen[w] \in Copies /\ opSeen[w] \in Copies
                               /\ pc[w] \in {"begin", "act", "complete", "stopsave", "failsave"}
                                    => job[w] \in Runs /\ Current(job[w], seen[w])
                               /\ op[w] = "save" => job[w] \in Runs /\ Current(job[w], opSeen[w])
         /\ \A c \in Clients : /\ cseen[c] \in Copies
                               /\ cpc[c] = "save" => req[c].run \in Runs /\ Current(req[c].run, cseen[c])
<1>1. Created \in Copies /\ \A r \in Runs : Current(r, Created)
  <2>1. Created \in Copies
    BY ConstantsAssumption DEF Created, Copies
  <2>2. \A r \in Runs : Current(r, Created)
    BY DEF IInv, TypeOK, ProgressInv, Current, Created
  <2>. QED BY <2>1, <2>2
<1>2. \A w \in Workers : /\ seen[w] \in Copies /\ opSeen[w] \in Copies
                         /\ pc[w] \in {"begin", "act", "complete", "stopsave", "failsave"}
                              => job[w] \in Runs /\ Current(job[w], seen[w])
                         /\ op[w] = "save" => job[w] \in Runs /\ Current(job[w], opSeen[w])
  BY DEF IInv, TypeOK, ProgressInv, WorkerInv, Busy
<1>3. \A c \in Clients : /\ cseen[c] \in Copies
                         /\ cpc[c] = "save" => req[c].run \in Runs /\ Current(req[c].run, cseen[c])
  BY DEF IInv, TypeOK, ProgressInv, ClientInv
<1>. QED BY <1>1, <1>2, <1>3

LEMMA ApiAdvances ==
  ASSUME IInv, NEW q \in Runs, Api(q) \/ ApiCrash(q)
  PROVE  \A r \in Runs : Advances(r)
<1>1. CASE CreateRun(q)
  BY <1>1 DEF CreateRun, IInv, TypeOK, RecordInv, Advances
<1>2. CASE Consume(q) \/ Enqueue(q) \/ EnqueueRaises(q) \/ ApiCrash(q)
  BY <1>2, SameAdvances DEF Consume, Enqueue, EnqueueRaises, ApiCrash, IInv
<1>3. CASE ConsumeFails(q)
  BY <1>3 DEF ConsumeFails, Advances
<1>4. CASE QueueUnavailable(q)
  <2>1. CASE UNCHANGED record
    BY <2>1, SameAdvances DEF IInv
  <2>2. CASE Fresh(q, Created) /\ SetStatus(q, "failed", Created)
    BY <2>2, HeldCopies, CopyAdvances DEF SetStatus
  <2>. QED BY <1>4, <2>1, <2>2 DEF QueueUnavailable
<1>. QED BY <1>1, <1>2, <1>3, <1>4 DEF Api

LEMMA WorkAdvances ==
  ASSUME IInv, NEW w \in Workers, Work(w) \/ Report(w)
  PROVE  \A r \in Runs : Advances(r)
<1>1. CASE UNCHANGED record
  BY <1>1, SameAdvances DEF IInv
<1>2. CASE /\ pc[w] \in {"begin", "act", "complete", "stopsave", "failsave"} /\ Fresh(job[w], seen[w])
           /\ \E s : Save(job[w], s, seen[w].prog)
  BY <1>2, HeldCopies, CopyAdvances
<1>3. CASE Complete(w) /\ Fresh(job[w], seen[w])
  <2>1. job[w] \in Runs /\ rev[job[w]] >= 1 /\ Save(job[w], "completed", MaxProgress)
    BY <1>3, HeldCopies DEF Complete, Fresh, IInv, RecordInv
  <2>2. MaxProgress \in 0..MaxProgress /\ MaxProgress >= progress[job[w]]
    BY <2>1, ConstantsAssumption DEF IInv, TypeOK
  <2>. QED BY <2>1, <2>2, SaveAdvances DEF IInv
<1>4. CASE ReportSave(w) /\ Fresh(job[w], opSeen[w])
  <2>1. /\ job[w] \in Runs /\ opSeen[w] \in Copies /\ Current(job[w], opSeen[w])
    BY <1>4, HeldCopies DEF ReportSave
  <2>2. PICK p \in Reports(opSeen[w]) : Save(job[w], opSeen[w].st, p)
    BY <1>4 DEF ReportSave
  <2>3. opSeen[w].prog = progress[job[w]] /\ opSeen[w].prog \in 0..MaxProgress /\ rev[job[w]] >= 1
    BY <1>4, <2>1 DEF Fresh, Current, Copies, IInv, RecordInv
  <2>4. p \in 0..MaxProgress /\ p >= progress[job[w]]
    BY <2>2, <2>3, ConstantsAssumption DEF Reports
  <2>. QED BY <2>1, <2>2, <2>3, <2>4, SaveAdvances DEF IInv
<1>5. CASE BeginExecution(w)
  BY <1>1, <1>2, <1>5 DEF BeginExecution, TrySet, SetStatus
<1>6. CASE CheckpointAct(w)
  BY <1>1, <1>2, <1>6 DEF CheckpointAct, TrySet, SetStatus
<1>7. CASE SaveOutcome(w)
  BY <1>1, <1>2, <1>7 DEF SaveOutcome, SetStatus, Exit
<1>8. CASE Complete(w)
  BY <1>1, <1>3, <1>8 DEF Complete
<1>9. CASE ReportSave(w)
  BY <1>1, <1>4, <1>9 DEF ReportSave
<1>. QED
  BY <1>1, <1>5, <1>6, <1>7, <1>8, <1>9 DEF Work, Autoclaim, ReadGroup, GetRun, LoadMedia,
     CheckpointRead, Poll, OperatorsDone, ReadLatest, StoppedRead, FailedRead, Ack, Exit,
     Report, ReportRead

LEMMA AdvanceSteps ==
  ASSUME IInv, [Next]_vars
  PROVE  \A r \in Runs : Advances(r)
<1>1. CASE UNCHANGED record
  BY <1>1, SameAdvances DEF IInv
<1>2. CASE \E r \in Runs : Api(r) \/ ApiCrash(r)
  BY <1>2, ApiAdvances
<1>3. CASE \E w \in Workers : Work(w) \/ Report(w)
  BY <1>3, WorkAdvances
<1>4. CASE \E c \in Clients : TransitionSave(c)
  <2>1. PICK c \in Clients : TransitionSave(c)
    BY <1>4
  <2>2. UNCHANGED record \/ (Fresh(req[c].run, cseen[c]) /\ \E s : Save(req[c].run, s, cseen[c].prog))
    BY <2>1 DEF TransitionSave, SetStatus
  <2>3. cpc[c] = "save"
    BY <2>1 DEF TransitionSave
  <2>. QED BY <1>1, <2>2, <2>3, HeldCopies, CopyAdvances
<1>. QED
  BY <1>1, <1>2, <1>3, <1>4 DEF Next, vars, record, Client, TransitionRead, Request,
     Fault, Lapse, LeaseLost, Crash, Exit, Expire, RedisLoss, RecoverRead, RecoverRebuild

\* An older copy of a record that advanced is no longer fresh.
LEMMA CurrentStable ==
  ASSUME IInv, NEW r \in Runs, Advances(r), NEW copy \in Copies, CopyInv(r, copy), Current(r, copy),
         rev'[r] \in Nat
  PROVE  rev'[r] = copy.rev => copy.prog = progress'[r]
<1>1. rev[r] \in Nat /\ copy.rev \in Nat /\ copy.rev >= 1 /\ copy.rev <= rev[r]
  BY DEF IInv, TypeOK, Copies, CopyInv, CopyOK
<1>. QED BY <1>1 DEF Advances, Current

\* Where the copy a worker holds after a step comes from.
LEMMA SeenFrom ==
  ASSUME IInv, [Next]_vars, NEW w \in Workers,
         pc'[w] \in {"begin", "act", "complete", "stopsave", "failsave"}
  PROVE  \/ /\ pc[w] \in {"begin", "act", "complete", "stopsave", "failsave"}
            /\ seen'[w] = seen[w] /\ job'[w] = job[w]
         \/ UNCHANGED record /\ seen'[w] = Copy(job[w]) /\ job'[w] = job[w]
<1>1. TypeOK
  BY DEF IInv
<1>2. CASE UNCHANGED <<pc, seen, job>>
  BY <1>2
<1>3. CASE \E v \in Workers : v # w /\ (Work(v) \/ Fault(v) \/ Crash(v))
  BY <1>1, <1>3, OtherWorkers
<1>4. CASE Work(w)
  <2>1. CASE GetRun(w) \/ CheckpointRead(w) \/ ReadLatest(w) \/ StoppedRead(w) \/ FailedRead(w)
    BY <1>1, <2>1 DEF GetRun, CheckpointRead, ReadLatest, StoppedRead, FailedRead, Took, Went, Goto,
       StepFrame, Exit, Release, TypeOK
  <2>2. CASE BeginExecution(w)
    <3>1. job' = job /\ \E p \in {"ack", "load", "failed"} : Went(w, p) \/ (Took(w, "begin") /\ UNCHANGED record)
      BY <2>2 DEF BeginExecution, BeginConflict, TrySet, StepFrame
    <3>. QED BY <1>1, <3>1 DEF Took, Went, Goto, TypeOK
  <2>3. CASE CheckpointAct(w)
    <3>1. job' = job /\ \E p \in {"stopped", "failed", "ckpt", "work"} : Went(w, p)
      BY <2>3 DEF CheckpointAct, TrySet, StepFrame
    <3>. QED BY <1>1, <3>1 DEF Went, Goto, TypeOK
  <2>4. CASE Autoclaim(w) \/ ReadGroup(w)
    BY <1>1, <2>4 DEF Autoclaim, ReadGroup, Deliver, Goto, TypeOK
  <2>5. CASE LoadMedia(w) \/ Poll(w) \/ OperatorsDone(w)
    BY <1>1, <2>5 DEF LoadMedia, Poll, OperatorsDone, Went, Goto, TypeOK
  <2>6. CASE Complete(w) \/ SaveOutcome(w) \/ Ack(w)
    BY <1>1, <2>6 DEF Complete, SaveOutcome, Ack, Went, Goto, Exit, Release, TypeOK
  <2>. QED BY <1>4, <2>1, <2>2, <2>3, <2>4, <2>5, <2>6 DEF Work
<1>5. CASE Fault(w) \/ Crash(w)
  BY <1>1, <1>5 DEF Fault, Crash, Went, Goto, Exit, Release, TypeOK
<1>. QED
  BY <1>2, <1>3, <1>4, <1>5 DEF Next, vars, worker, Api, CreateRun, Consume, ConsumeFails, Enqueue,
     EnqueueRaises, QueueUnavailable, ApiCrash, Client, TransitionRead, TransitionSave, Request,
     Report, ReportRead, ReportSave, StepFrame, Lapse, LeaseLost, Expire, RedisLoss, RecoverRead,
     RecoverRebuild

\* Where the copy of a worker's operator comes from.
LEMMA OpSeenFrom ==
  ASSUME IInv, [Next]_vars, NEW w \in Workers, op'[w] = "save"
  PROVE  \/ op[w] = "save" /\ opSeen'[w] = opSeen[w] /\ job'[w] = job[w]
         \/ UNCHANGED record /\ opSeen'[w] = Copy(job[w]) /\ job'[w] = job[w]
<1>1. TypeOK
  BY DEF IInv
<1>2. CASE UNCHANGED <<optask, job>>
  BY <1>2 DEF optask
<1>3. CASE \E v \in Workers : v # w /\ (Work(v) \/ Report(v) \/ Fault(v) \/ Crash(v))
  BY <1>1, <1>3, OtherWorkers
<1>4. CASE Report(w)
  BY <1>1, <1>4 DEF Report, ReportRead, ReportSave, StepFrame, TypeOK
<1>5. CASE CheckpointRead(w) \/ CheckpointAct(w)
  BY <1>1, <1>5 DEF CheckpointRead, CheckpointAct, EndOperator, StepFrame, optask, TypeOK
<1>6. CASE GetRun(w) \/ SaveOutcome(w) \/ Ack(w) \/ Crash(w)
  BY <1>1, <1>6 DEF GetRun, SaveOutcome, Ack, Crash, StepFrame, Exit, Release, optask, TypeOK
<1>7. CASE Poll(w) \/ OperatorsDone(w) \/ Fault(w)
  BY <1>1, <1>7 DEF Poll, OperatorsDone, Fault, EndOperator, StepFrame, optask, TypeOK
<1>8. CASE Autoclaim(w) \/ ReadGroup(w)
  <2>1. ~Busy(w) /\ op[w] = "none"
    BY <1>8 DEF Autoclaim, ReadGroup, Busy, IInv, WorkerInv
  <2>. QED BY <1>8, <2>1 DEF Autoclaim, ReadGroup, optask
<1>9. CASE BeginExecution(w) \/ LoadMedia(w) \/ ReadLatest(w) \/ Complete(w) \/ StoppedRead(w) \/ FailedRead(w)
  BY <1>2, <1>9 DEF BeginExecution, LoadMedia, ReadLatest, Complete, StoppedRead, FailedRead, StepFrame
<1>10. CASE Work(w)
  BY <1>5, <1>6, <1>7, <1>8, <1>9, <1>10 DEF Work
<1>. QED
  BY <1>2, <1>3, <1>4, <1>6, <1>7, <1>10 DEF Next, vars, worker, Api, CreateRun, Consume, ConsumeFails,
     Enqueue, EnqueueRaises, QueueUnavailable, ApiCrash, Client, TransitionRead, TransitionSave, Request,
     Lapse, LeaseLost, Expire, RedisLoss, RecoverRead, RecoverRebuild

\* Where the copy of a request comes from.
LEMMA RequestSeenFrom ==
  ASSUME IInv, [Next]_vars, NEW c \in Clients, cpc'[c] = "save"
  PROVE  \/ cpc[c] = "save" /\ cseen'[c] = cseen[c] /\ req'[c] = req[c]
         \/ UNCHANGED record /\ cseen'[c] = Copy(req[c].run) /\ req'[c] = req[c]
<1>1. TypeOK
  BY DEF IInv
<1>2. CASE UNCHANGED client
  BY <1>2 DEF client
<1>3. CASE \E d \in Clients : TransitionRead(d)
  BY <1>1, <1>3 DEF TransitionRead, EndRequest, TypeOK
<1>4. CASE \E d \in Clients : TransitionSave(d)
  BY <1>1, <1>4 DEF TransitionSave, EndRequest, TypeOK
<1>5. CASE \E d \in Clients, r \in Runs, act \in {"pause", "resume", "cancel"} : Request(d, r, act)
  BY <1>1, <1>5 DEF Request, TypeOK
<1>6. CASE \E w \in Workers : Work(w) \/ Report(w) \/ Fault(w) \/ Lapse(w) \/ LeaseLost(w) \/ Crash(w)
  BY <1>2, <1>6 DEF Work, Autoclaim, ReadGroup, GetRun, BeginExecution, LoadMedia, CheckpointRead,
     CheckpointAct, Poll, OperatorsDone, ReadLatest, Complete, StoppedRead, FailedRead, SaveOutcome, Ack,
     StepFrame, Report, ReportRead, ReportSave, Fault, Lapse, LeaseLost, Crash
<1>. QED
  BY <1>2, <1>3, <1>4, <1>5, <1>6 DEF Next, vars, Api, CreateRun, Consume, ConsumeFails,
     Enqueue, EnqueueRaises, QueueUnavailable, ApiCrash, Client, Expire, RedisLoss, RecoverRead,
     RecoverRebuild

\* Every copy that could still be saved holds the record's progress.
LEMMA ProgressKept ==
  ASSUME IInv, [Next]_vars, TypeOK'
  PROVE  ProgressInv'
<1>0. TypeOK /\ \A r \in Runs : Advances(r) /\ rev'[r] \in Nat
  BY AdvanceSteps DEF IInv, TypeOK
<1>1. \A r \in Runs : rev'[r] <= 1 => progress'[r] = 0
  <2>. SUFFICES ASSUME NEW r \in Runs, rev'[r] <= 1 PROVE progress'[r] = 0
    OBVIOUS
  <2>1. rev[r] \in Nat /\ (rev[r] <= 1 => progress[r] = 0)
    BY <1>0 DEF IInv, ProgressInv, TypeOK
  <2>2. Advances(r)
    BY <1>0
  <2>. QED BY <2>1, <2>2 DEF Advances
<1>2. ASSUME NEW w \in Workers, pc'[w] \in {"begin", "act", "complete", "stopsave", "failsave"}
      PROVE  Current(job[w], seen[w])'
  <2>1. CASE UNCHANGED record /\ seen'[w] = Copy(job[w]) /\ job'[w] = job[w]
    BY <2>1 DEF record, Copy, Current
  <2>2. CASE /\ pc[w] \in {"begin", "act", "complete", "stopsave", "failsave"}
             /\ seen'[w] = seen[w] /\ job'[w] = job[w]
    <3>1. job[w] \in Runs /\ seen[w] \in Copies /\ Current(job[w], seen[w])
      BY <2>2, HeldCopies
    <3>2. CopyInv(job[w], seen[w])
      BY <2>2 DEF IInv, WorkerInv
    <3>3. rev'[job[w]] = seen[w].rev => seen[w].prog = progress'[job[w]]
      BY <1>0, <3>1, <3>2, CurrentStable
    <3>. QED BY <2>2, <3>3 DEF Current
  <2>. QED BY <1>2, <2>1, <2>2, SeenFrom
<1>3. ASSUME NEW w \in Workers, op'[w] = "save"
      PROVE  Current(job[w], opSeen[w])'
  <2>1. CASE UNCHANGED record /\ opSeen'[w] = Copy(job[w]) /\ job'[w] = job[w]
    BY <2>1 DEF record, Copy, Current
  <2>2. CASE op[w] = "save" /\ opSeen'[w] = opSeen[w] /\ job'[w] = job[w]
    <3>1. job[w] \in Runs /\ opSeen[w] \in Copies /\ Current(job[w], opSeen[w])
      BY <2>2, HeldCopies
    <3>2. CopyInv(job[w], opSeen[w])
      BY <2>2 DEF IInv, WorkerInv
    <3>3. rev'[job[w]] = opSeen[w].rev => opSeen[w].prog = progress'[job[w]]
      BY <1>0, <3>1, <3>2, CurrentStable
    <3>. QED BY <2>2, <3>3 DEF Current
  <2>. QED BY <1>3, <2>1, <2>2, OpSeenFrom
<1>4. ASSUME NEW c \in Clients, cpc'[c] = "save"
      PROVE  Current(req[c].run, cseen[c])'
  <2>1. CASE UNCHANGED record /\ cseen'[c] = Copy(req[c].run) /\ req'[c] = req[c]
    BY <2>1 DEF record, Copy, Current
  <2>2. CASE cpc[c] = "save" /\ cseen'[c] = cseen[c] /\ req'[c] = req[c]
    <3>1. req[c].run \in Runs /\ cseen[c] \in Copies /\ Current(req[c].run, cseen[c])
      BY <2>2, HeldCopies
    <3>2. CopyInv(req[c].run, cseen[c])
      BY <2>2 DEF IInv, ClientInv
    <3>3. rev'[req[c].run] = cseen[c].rev => cseen[c].prog = progress'[req[c].run]
      BY <1>0, <3>1, <3>2, CurrentStable
    <3>. QED BY <2>2, <3>3 DEF Current
  <2>. QED BY <1>4, <2>1, <2>2, RequestSeenFrom
<1>. QED BY <1>1, <1>2, <1>3, <1>4 DEF ProgressInv

-----------------------------------------------------------------------------
(* The theorems. *)

LEMMA InitInv == Init => IInv
<1>. SUFFICES ASSUME Init PROVE IInv
  OBVIOUS
<1>1. TypeOK
  BY ConstantsAssumption DEF Init, TypeOK, Copies, NoCopy, WorkerPCs
<1>2. /\ \A r \in Runs : RecordInv(r)
      /\ \A c \in Clients : ClientInv(c)
      /\ \A e \in Entries : EntryInv(e)
  BY DEF Init, RecordInv, ClientInv, EntryInv
<1>3. \A w \in Workers : WorkerInv(w)
  BY DEF Init, WorkerInv, Busy, Executing
<1>4. ProgressInv
  BY DEF Init, ProgressInv
<1>. QED BY <1>1, <1>2, <1>3, <1>4 DEF IInv, Init

LEMMA StepInv == IInv /\ [Next]_vars => IInv'
<1>. SUFFICES ASSUME IInv, [Next]_vars PROVE IInv'
  OBVIOUS
<1>1. TypeOK' /\ \A r \in Runs : RecordStep(r)
  BY TypeStep, RecordSteps
<1>2. /\ \A r \in Runs : RecordInv(r)'
      /\ \A w \in Workers : WorkerInv(w)'
      /\ \A c \in Clients : ClientInv(c)'
      /\ \A e \in Entries : EntryInv(e)'
      /\ recovering' # {NoRun} => \A r \in recovering' : status'[r] # "none"
  BY <1>1, RecordsKept, WorkersKept, ClientsKept, EntriesKept, RecoveringKept
<1>3. ProgressInv'
  BY <1>1, ProgressKept
<1>. QED BY <1>1, <1>2, <1>3 DEF IInv

\* The records, the copies every process holds of them and the stream entries
\* agree in every reachable state, however many workers, clients and runs there
\* are: the invariant the other theorems follow from.
THEOREM Invariant == SafeSpec => []IInv
BY InitInv, StepInv, PTL DEF SafeSpec

\* Every variable keeps its type.
THEOREM TypeCorrect == SafeSpec => []TypeOK
<1>1. IInv => TypeOK
  BY DEF IInv
<1>. QED BY <1>1, Invariant, PTL

\* Optimistic locking is sound: no save_run with a current revision overwrites a
\* status or a progress its writer has not seen.
THEOREM LockingSound == SafeSpec => []CopiesCurrent
<1>1. ASSUME NEW r \in Runs, NEW copy \in Copies, CopyInv(r, copy), Current(r, copy), Fresh(r, copy)
      PROVE  copy = Copy(r)
  BY <1>1 DEF CopyInv, CopyOK, Current, Fresh, Copy, Copies
<1>2. IInv => CopiesCurrent
  <2>. SUFFICES ASSUME IInv PROVE CopiesCurrent
    OBVIOUS
  <2>1. \A w \in Workers :
          /\ pc[w] \in {"begin", "act", "complete", "stopsave", "failsave"} => CopyInv(job[w], seen[w])
          /\ op[w] = "save" => CopyInv(job[w], opSeen[w])
    BY DEF IInv, WorkerInv
  <2>2. \A c \in Clients : cpc[c] = "save" => CopyInv(req[c].run, cseen[c])
    BY DEF IInv, ClientInv
  <2>. QED BY <1>1, <2>1, <2>2, HeldCopies DEF CopiesCurrent
<1>. QED BY <1>2, Invariant, PTL

\* An acknowledged entry's Run has an outcome: no Run is lost by the queue.
THEOREM NoRunLost == SafeSpec => []AckedRunsSettled
<1>1. IInv => AckedRunsSettled
  BY DEF IInv, AckedRunsSettled, EntryInv, Settled
<1>. QED BY <1>1, Invariant, PTL

\* A Run cancelled while it waited in the queue is never executed.
THEOREM QueuedCancelEffective == SafeSpec => []QueuedCancelSticks
<1>1. IInv => QueuedCancelSticks
  BY DEF IInv, QueuedCancelSticks, WorkerInv, Ran
<1>. QED BY <1>1, Invariant, PTL

\* _begin_execution re-reads the record at most once.
THEOREM BeginBounded == SafeSpec => []BeginRetriesOnce
<1>1. IInv => BeginRetriesOnce
  BY DEF IInv, BeginRetriesOnce, WorkerInv
<1>. QED BY <1>1, Invariant, PTL

\* A step writes the status of at most one Run.
LEMMA OneRecord ==
  ASSUME IInv, [Next]_vars
  PROVE  \/ status' = status
         \/ \E r \in Runs : \E s : status' = [status EXCEPT ![r] = s]
<1>1. CASE \E r \in Runs : Api(r) \/ ApiCrash(r)
  BY <1>1 DEF Api, CreateRun, Consume, ConsumeFails, Enqueue, EnqueueRaises, QueueUnavailable, ApiCrash,
         SetStatus, Save, record
<1>2. CASE \E c \in Clients : \/ Client(c)
                              \/ \E r \in Runs, act \in {"pause", "resume", "cancel"} : Request(c, r, act)
  BY <1>2 DEF Client, TransitionRead, TransitionSave, Request, SetStatus, Save, record, IInv, ClientInv
<1>3. CASE \E w \in Workers : BeginExecution(w) \/ CheckpointAct(w)
  BY <1>3 DEF BeginExecution, CheckpointAct, TrySet, SetStatus, Save, record, IInv, WorkerInv, Busy
<1>4. CASE \E w \in Workers : Complete(w) \/ SaveOutcome(w) \/ ReportSave(w)
  <2>1. PICK w \in Workers : Complete(w) \/ SaveOutcome(w) \/ ReportSave(w)
    BY <1>4
  <2>2. job[w] \in Runs
    BY <2>1 DEF Complete, SaveOutcome, ReportSave, IInv, WorkerInv, Busy
  <2>3. CASE Complete(w) \/ SaveOutcome(w)
    BY <2>2, <2>3 DEF Complete, SaveOutcome, Exit, SetStatus, Save, record
  <2>4. CASE ReportSave(w)
    BY <2>2, <2>4 DEF ReportSave, Save, record
  <2>. QED BY <2>1, <2>3, <2>4
<1>5. CASE UNCHANGED record
  BY <1>5 DEF record
<1>. QED
  BY <1>1, <1>2, <1>3, <1>4, <1>5 DEF Next, vars, Work, Autoclaim, ReadGroup, GetRun, LoadMedia,
     CheckpointRead, Poll, OperatorsDone, ReadLatest, StoppedRead, FailedRead, Ack, Exit,
     Report, ReportRead, Fault, Lapse, LeaseLost, Crash, Expire, RedisLoss, RecoverRead, RecoverRebuild

LEMMA ContractStep == IInv /\ [Next]_vars => [S!Next]_status
<1>. SUFFICES ASSUME IInv, [Next]_vars, status' # status PROVE S!Next
  OBVIOUS
<1>1. PICK r \in Runs : \E s : status' = [status EXCEPT ![r] = s]
  BY OneRecord
<1>. DEFINE s == status'[r]
<1>2. RecordStep(r) /\ TypeOK /\ TypeOK'
  BY RecordSteps, TypeStep DEF IInv
<1>3. status' = [status EXCEPT ![r] = s] /\ s # status[r] /\ s \in RunStatus \cup S!Unstored
  BY <1>1, <1>2 DEF TypeOK
<1>4. <<status[r], s>> \in S!Edges
  BY <1>2, <1>3, EdgeFacts DEF RecordStep, Evolves
<1>. QED BY <1>3, <1>4 DEF S!Next, S!Move

\* The execution protocol implements the contract of the status field: every
\* step of every process is an allowed move of one Run, or leaves all of them.
THEOREM ImplementsContract == SafeSpec => StatusContract
<1>1. Init => S!Init
  BY DEF Init, S!Init
<1>. QED BY <1>1, ContractStep, Invariant, PTL DEF SafeSpec, StatusContract, S!Spec

-----------------------------------------------------------------------------
\* Progress never goes back: every writer saves the progress of its copy, or one
\* computed from it, and only while the copy is the record.
THEOREM ProgressNeverFalls == SafeSpec => ProgressMonotonic
<1>1. IInv /\ [Next]_vars => \A r \in Runs : progress'[r] >= progress[r]
  <2>. SUFFICES ASSUME IInv, [Next]_vars, NEW r \in Runs PROVE progress'[r] >= progress[r]
    OBVIOUS
  <2>1. progress[r] \in 0..MaxProgress
    BY DEF IInv, TypeOK
  <2>2. progress[r] >= progress[r]
    BY <2>1, ConstantsAssumption
  <2>. QED BY <2>2, AdvanceSteps DEF Advances
<1>2. IInv /\ [Next]_vars => [\A r \in Runs : progress'[r] >= progress[r]]_vars
  BY <1>1
<1>. QED BY <1>2, Invariant, PTL DEF SafeSpec, ProgressMonotonic
=============================================================================
