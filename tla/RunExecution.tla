---------------------------- MODULE RunExecution ----------------------------
(***************************************************************************)
(* The life of a Run: the API process creates its record and puts one      *)
(* entry on a Redis stream; workers lease entries, execute the Run and     *)
(* acknowledge; clients pause, resume and cancel it meanwhile.             *)
(*                                                                         *)
(* The record is shared by all of them and is protected by nothing but an  *)
(* optimistic revision: every writer reads the record (get_run), decides,  *)
(* and saves it with the revision it read (save_run).  Each await of the   *)
(* code that reads or writes the record or the queue is an action here, so *)
(* that any other process may run in between.                              *)
(*                                                                         *)
(* Left out: what the operators compute, the result objects, the Run's     *)
(* events, the audit records.  One lane is modelled: the batch and the     *)
(* stream lane share no entry, no group and no worker.  The Runs are those *)
(* of the batch lane, which no stream segment follows.                     *)
(***************************************************************************)
EXTENDS Naturals, FiniteSets

CONSTANTS
  Runs,          \* run ids
  Pausable,      \* the runs whose pipeline is pausable
  Entries,       \* ids of stream entries; a bound on how many are ever added
  Workers,       \* worker processes of the lane
  Clients,       \* concurrent lifecycle requests
  NoRun, NoEntry,
  MaxTries,      \* rounds of transition() and of _begin_execution (4 in the code)
  MaxProgress,   \* progress 1.0, in units of a report; reports stay below it
  MaxRequests,   \* bound: lifecycle requests ever made
  MaxCrashes,    \* bound: process crashes
  MaxLapses,     \* bound: leases that lapse although the worker lives
  MaxLosses      \* bound: losses of the Redis data set

ASSUME ConstantsAssumption ==
  /\ Pausable \subseteq Runs
  /\ NoRun \notin Runs
  /\ NoEntry \notin Entries
  /\ MaxTries \in Nat \ {0}
  /\ MaxProgress \in Nat \ {0}
  /\ MaxRequests \in Nat /\ MaxCrashes \in Nat /\ MaxLapses \in Nat /\ MaxLosses \in Nat

VARIABLES
  status, rev, progress, started,      \* the Run records in PostgreSQL
  creating,                            \* create_run: where the API process is
  entryRun, entry, stale,              \* the Redis stream and its pending list
  pc, job, got, seen, tries, lease,    \* the workers
  op, opSeen,                          \* the operator task inside each worker
  cpc, req, cseen, ctries,             \* lifecycle requests in flight
  recovering,                          \* rebuild_redis_run_queue: runs it has read
  requests, crashes, lapses, losses    \* bounds

record  == <<status, rev, progress, started>>
queue   == <<entryRun, entry, stale>>
worker  == <<pc, job, got, seen, tries, lease>>
optask  == <<op, opSeen>>
client  == <<cpc, req, cseen, ctries>>
bounds  == <<requests, crashes, lapses, losses>>
vars == <<record, creating, queue, worker, optask, client, recovering, bounds>>

S == INSTANCE RunStatusSpec

Terminal == S!Terminal
RunStatus == S!RunStatus
Stored == {r \in Runs : status[r] \in RunStatus}

\* A copy of a record as get_run returns it, and the one create_run inserts.
Copies == [st : RunStatus \cup S!Unstored, rev : Nat, prog : 0..MaxProgress]
NoCopy == [st |-> "none", rev |-> 0, prog |-> 0]
Copy(r) == [st |-> status[r], rev |-> rev[r], prog |-> progress[r]]
Created == [st |-> "queued", rev |-> 1, prog |-> 0]

WorkerPCs == {"claim", "read", "get", "begin", "load", "ckpt", "act", "work", "store",
              "complete", "stopped", "stopsave", "failed", "failsave", "ack"}

\* Every variable has its type: the records, the stream entries, the workers
\* with their copies, and the requests in flight.
TypeOK ==
  /\ status \in [Runs -> RunStatus \cup S!Unstored]
  /\ rev \in [Runs -> Nat]
  /\ progress \in [Runs -> 0..MaxProgress]
  /\ started \in [Runs -> BOOLEAN]
  /\ creating \in [Runs -> {"no", "consume", "enqueue", "raised", "done"}]
  /\ entryRun \in [Entries -> Runs \cup {NoRun}]
  /\ entry \in [Entries -> {"free", "new", "pending", "acked", "lost"}]
  /\ stale \in [Entries -> BOOLEAN]
  /\ pc \in [Workers -> WorkerPCs]
  /\ job \in [Workers -> Runs \cup {NoRun}]
  /\ got \in [Workers -> Entries \cup {NoEntry}]
  /\ seen \in [Workers -> Copies]
  /\ tries \in [Workers -> 0..MaxTries]
  /\ lease \in [Workers -> BOOLEAN]
  /\ op \in [Workers -> {"none", "run", "save"}]
  /\ opSeen \in [Workers -> Copies]
  /\ cpc \in [Clients -> {"idle", "read", "save"}]
  /\ req \in [Clients -> [run : Runs \cup {NoRun}, act : {"none", "pause", "resume", "cancel"}]]
  /\ cseen \in [Clients -> Copies]
  /\ ctries \in [Clients -> 0..MaxTries]
  /\ recovering \in (SUBSET Runs) \cup {{NoRun}}
  /\ requests \in 0..MaxRequests /\ crashes \in 0..MaxCrashes
  /\ lapses \in 0..MaxLapses /\ losses \in 0..MaxLosses

Init ==
  /\ status = [r \in Runs |-> "none"]
  /\ rev = [r \in Runs |-> 0]
  /\ progress = [r \in Runs |-> 0]
  /\ started = [r \in Runs |-> FALSE]
  /\ creating = [r \in Runs |-> "no"]
  /\ entryRun = [e \in Entries |-> NoRun]
  /\ entry = [e \in Entries |-> "free"]
  /\ stale = [e \in Entries |-> FALSE]
  /\ pc = [w \in Workers |-> "claim"]
  /\ job = [w \in Workers |-> NoRun]
  /\ got = [w \in Workers |-> NoEntry]
  /\ seen = [w \in Workers |-> NoCopy]
  /\ tries = [w \in Workers |-> 0]
  /\ lease = [w \in Workers |-> TRUE]
  /\ op = [w \in Workers |-> "none"]
  /\ opSeen = [w \in Workers |-> NoCopy]
  /\ cpc = [c \in Clients |-> "idle"]
  /\ req = [c \in Clients |-> [run |-> NoRun, act |-> "none"]]
  /\ cseen = [c \in Clients |-> NoCopy]
  /\ ctries = [c \in Clients |-> 0]
  /\ recovering = {NoRun}
  /\ requests = 0 /\ crashes = 0 /\ lapses = 0 /\ losses = 0

-----------------------------------------------------------------------------
(* PostgreSQL: save_run is a compare-and-set on the revision. *)

\* MUTANT of Fresh: the update does not compare the revision.
FreshUnchecked(r, copy) == status[r] \in RunStatus

Fresh(r, copy) == status[r] \in RunStatus /\ rev[r] = copy.rev

\* MUTANT of Save: the update leaves the revision alone.
SaveInPlace(r, s, p) ==
  /\ status' = [status EXCEPT ![r] = s]
  /\ progress' = [progress EXCEPT ![r] = p]
  /\ UNCHANGED rev

Save(r, s, p) ==
  /\ status' = [status EXCEPT ![r] = s]
  /\ rev' = [rev EXCEPT ![r] = @ + 1]
  /\ progress' = [progress EXCEPT ![r] = p]

\* _set_status writes the whole copy back, its progress included.
SetStatus(r, s, copy) == Save(r, s, copy.prog) /\ UNCHANGED started

-----------------------------------------------------------------------------
(* The API process: create_run. *)

\* create_run_idempotent inserts the record.  A retry with the same key finds
\* it, returns it and does nothing more, so it is not an action.
CreateRun(r) ==
  /\ status[r] = "none"
  /\ status' = [status EXCEPT ![r] = "queued"]
  /\ rev' = [rev EXCEPT ![r] = 1]
  /\ creating' = [creating EXCEPT ![r] = "consume"]
  /\ UNCHANGED <<progress, started, queue, worker, optask, client, recovering, bounds>>

\* policy.consume and the audit record succeed; "run.queued" is published.
Consume(r) ==
  /\ creating[r] = "consume"
  /\ creating' = [creating EXCEPT ![r] = "enqueue"]
  /\ UNCHANGED <<record, queue, worker, optask, client, recovering, bounds>>

\* One of them raises: the record is deleted again, or stays behind when the
\* delete fails too (its error is suppressed).
ConsumeFails(r) ==
  /\ creating[r] = "consume"
  /\ creating' = [creating EXCEPT ![r] = "done"]
  /\ \/ status' = [status EXCEPT ![r] = "deleted"]
     \/ UNCHANGED status
  /\ UNCHANGED <<rev, progress, started, queue, worker, optask, client, recovering, bounds>>

AddEntry(e, r) ==
  /\ entry[e] = "free"
  /\ entry' = [entry EXCEPT ![e] = "new"]
  /\ entryRun' = [entryRun EXCEPT ![e] = r]

Enqueue(r) ==
  /\ creating[r] = "enqueue"
  /\ \E e \in Entries : AddEntry(e, r)
  /\ creating' = [creating EXCEPT ![r] = "done"]
  /\ UNCHANGED <<record, stale, worker, optask, client, recovering, bounds>>

\* xadd raises; the entry may have been added although its answer was lost.
EnqueueRaises(r) ==
  /\ creating[r] = "enqueue"
  /\ \/ \E e \in Entries : AddEntry(e, r)
     \/ UNCHANGED <<entry, entryRun>>
  /\ creating' = [creating EXCEPT ![r] = "raised"]
  /\ UNCHANGED <<record, stale, worker, optask, client, recovering, bounds>>

\* The creator marks the Run failed with the revision it stored; a conflict
\* is raised to the caller.
QueueUnavailable(r) ==
  /\ creating[r] = "raised"
  /\ creating' = [creating EXCEPT ![r] = "done"]
  /\ IF Fresh(r, Created) THEN SetStatus(r, "failed", Created) ELSE UNCHANGED record
  /\ UNCHANGED <<queue, worker, optask, client, recovering, bounds>>

ApiCrash(r) ==
  /\ creating[r] \in {"consume", "enqueue", "raised"}
  /\ crashes < MaxCrashes
  /\ crashes' = crashes + 1
  /\ creating' = [creating EXCEPT ![r] = "done"]
  /\ UNCHANGED <<record, queue, worker, optask, client, recovering, requests, lapses, losses>>

Api(r) == \/ CreateRun(r) \/ Consume(r) \/ ConsumeFails(r) \/ Enqueue(r)
          \/ EnqueueRaises(r) \/ QueueUnavailable(r)

-----------------------------------------------------------------------------
(* Clients: pause, resume and cancel (RunService.transition). *)

Allowed(r, act, s) ==
  \/ act = "pause"  /\ r \in Pausable /\ s = "running"
  \/ act = "resume" /\ s = "paused"
  \/ act = "cancel" /\ s \in RunStatus \ Terminal

\* MUTANT of Target: cancelling a queued Run waits for a worker.
TargetWaits(act, s) ==
  CASE act = "pause"  -> "pausing"
    [] act = "resume" -> "running"
    [] OTHER -> IF s \in {"paused", "cancelling"} THEN "cancelled" ELSE "cancelling"

Target(act, s) ==
  CASE act = "pause"  -> "pausing"
    [] act = "resume" -> "running"
    [] OTHER -> IF s \in {"queued", "paused", "cancelling"} THEN "cancelled" ELSE "cancelling"

EndRequest(c) ==
  /\ cpc' = [cpc EXCEPT ![c] = "idle"]
  /\ req' = [req EXCEPT ![c] = [run |-> NoRun, act |-> "none"]]
  /\ cseen' = [cseen EXCEPT ![c] = NoCopy]
  /\ ctries' = [ctries EXCEPT ![c] = 0]

Request(c, r, act) ==
  /\ cpc[c] = "idle"
  /\ r \in Stored
  /\ requests < MaxRequests
  /\ requests' = requests + 1
  /\ cpc' = [cpc EXCEPT ![c] = "read"]
  /\ req' = [req EXCEPT ![c] = [run |-> r, act |-> act]]
  /\ UNCHANGED <<record, creating, queue, worker, optask, cseen, ctries, recovering,
                 crashes, lapses, losses>>

\* Read the record; refuse (ResourceNotFound, InvalidTransition) or go on.
TransitionRead(c) ==
  /\ cpc[c] = "read"
  /\ IF Allowed(req[c].run, req[c].act, status[req[c].run])
     THEN /\ cpc' = [cpc EXCEPT ![c] = "save"]
          /\ cseen' = [cseen EXCEPT ![c] = Copy(req[c].run)]
          /\ UNCHANGED <<req, ctries>>
     ELSE EndRequest(c)
  /\ UNCHANGED <<record, creating, queue, worker, optask, recovering, bounds>>

\* MUTANT of Again: the retry loop has no bound.
AgainForever(c) == ctries[c] <= MaxTries

Again(c) == ctries[c] + 1 < MaxTries

\* Save the target status; on a conflict read again, MaxTries times in all.
TransitionSave(c) ==
  LET r == req[c].run IN
  /\ cpc[c] = "save"
  /\ IF Fresh(r, cseen[c])
     THEN SetStatus(r, Target(req[c].act, cseen[c].st), cseen[c]) /\ EndRequest(c)
     ELSE /\ UNCHANGED record
          /\ IF Again(c)
             THEN /\ cpc' = [cpc EXCEPT ![c] = "read"]
                  /\ ctries' = [ctries EXCEPT ![c] = @ + 1]
                  /\ cseen' = [cseen EXCEPT ![c] = NoCopy]
                  /\ UNCHANGED req
             ELSE EndRequest(c)
  /\ UNCHANGED <<creating, queue, worker, optask, recovering, bounds>>

Client(c) == TransitionRead(c) \/ TransitionSave(c)

-----------------------------------------------------------------------------
(* Workers: the Redis consumer loop. *)

Goto(w, p) == pc' = [pc EXCEPT ![w] = p]

\* The handler is left: the worker polls again, or its process is restarted.
Release(w) ==
  /\ Goto(w, "claim")
  /\ job' = [job EXCEPT ![w] = NoRun]
  /\ got' = [got EXCEPT ![w] = NoEntry]
  /\ seen' = [seen EXCEPT ![w] = NoCopy]
  /\ tries' = [tries EXCEPT ![w] = 0]
  /\ lease' = [lease EXCEPT ![w] = TRUE]
  /\ op' = [op EXCEPT ![w] = "none"]
  /\ opSeen' = [opSeen EXCEPT ![w] = NoCopy]

\* An exception leaves consume_forever: the process ends unacknowledged.
Exit(w) == Release(w) /\ UNCHANGED record

Deliver(w, e) ==
  /\ entry' = [entry EXCEPT ![e] = "pending"]
  /\ stale' = [stale EXCEPT ![e] = FALSE]
  /\ Goto(w, "get")
  /\ job' = [job EXCEPT ![w] = entryRun[e]]
  /\ got' = [got EXCEPT ![w] = e]
  /\ UNCHANGED <<entryRun, seen, tries, lease>>

\* MUTANT of Claimable: idle entries of other consumers are never claimed.
ClaimableNever == {}

\* What xautoclaim finds: pending entries idle for the visibility timeout.
Claimable == {e \in Entries : entry[e] = "pending" /\ stale[e]}

Autoclaim(w) ==
  /\ pc[w] = "claim"
  /\ \/ \E e \in Claimable : Deliver(w, e)
     \/ /\ Claimable = {}
        /\ Goto(w, "read")
        /\ UNCHANGED <<queue, job, got, seen, tries, lease>>
  /\ UNCHANGED <<record, creating, optask, client, recovering, bounds>>

\* xreadgroup returns a new entry, or times out and the loop goes round.
ReadGroup(w) ==
  /\ pc[w] = "read"
  /\ \/ \E e \in Entries : entry[e] = "new" /\ Deliver(w, e)
     \/ /\ \A e \in Entries : entry[e] # "new"
        /\ Goto(w, "claim")
        /\ UNCHANGED <<queue, job, got, seen, tries, lease>>
  /\ UNCHANGED <<record, creating, optask, client, recovering, bounds>>

\* The handler returned: acknowledge, unless the renewal task has failed.
Ack(w) ==
  /\ pc[w] = "ack"
  /\ entry' = IF lease[w] /\ entry[got[w]] = "pending"
              THEN [entry EXCEPT ![got[w]] = "acked"] ELSE entry
  /\ Release(w)
  /\ UNCHANGED <<record, creating, entryRun, stale, client, recovering, bounds>>

Busy(w) == pc[w] \notin {"claim", "read"}

Renewed(e) == \E w \in Workers : Busy(w) /\ got[w] = e /\ lease[w]

\* Nobody renews the lease: the entry becomes idle for the visibility timeout.
Expire(e) ==
  /\ entry[e] = "pending" /\ ~stale[e]
  /\ ~Renewed(e)
  /\ stale' = [stale EXCEPT ![e] = TRUE]
  /\ UNCHANGED <<record, creating, entryRun, entry, worker, optask, client, recovering, bounds>>

\* A live worker renews too late (its event loop is blocked), or its xclaim
\* raises: the entry is claimable while its handler still runs.
Lapse(w) ==
  /\ Busy(w) /\ lease[w] /\ entry[got[w]] = "pending"
  /\ lapses < MaxLapses
  /\ lapses' = lapses + 1
  /\ stale' = [stale EXCEPT ![got[w]] = TRUE]
  /\ lease' \in {lease, [lease EXCEPT ![w] = FALSE]}
  /\ UNCHANGED <<record, creating, entryRun, entry, pc, job, got, seen, tries, optask, client,
                 recovering, requests, crashes, losses>>

\* xclaim no longer finds the entry (acknowledged by another worker, or lost).
LeaseLost(w) ==
  /\ Busy(w) /\ lease[w] /\ entry[got[w]] # "pending"
  /\ lease' = [lease EXCEPT ![w] = FALSE]
  /\ UNCHANGED <<record, creating, queue, pc, job, got, seen, tries, optask, client,
                 recovering, bounds>>

Crash(w) ==
  /\ Busy(w)
  /\ crashes < MaxCrashes
  /\ crashes' = crashes + 1
  /\ Exit(w)
  /\ UNCHANGED <<creating, queue, client, recovering, requests, lapses, losses>>

-----------------------------------------------------------------------------
(* Workers: execute_run. *)

Took(w, p) == Goto(w, p) /\ seen' = [seen EXCEPT ![w] = Copy(job[w])]
Went(w, p) == Goto(w, p) /\ seen' = [seen EXCEPT ![w] = NoCopy]

\* Save a status with the revision of the copy, or raise StateConflict.
TrySet(w, s, ok, conflict) ==
  IF Fresh(job[w], seen[w])
  THEN SetStatus(job[w], s, seen[w]) /\ Went(w, ok)
  ELSE UNCHANGED record /\ Went(w, conflict)

StepFrame(w) == UNCHANGED <<creating, queue, job, got, lease, client, recovering, bounds>>

\* MUTANT of Skips: a Run that was started already is taken for done.
SkipsStarted(r) == status[r] # "queued"

\* A redelivered entry whose Run has an outcome is acknowledged unexecuted.
Skips(r) == status[r] \in Terminal

\* get_run; a missing record raises out of the handler, a terminal one returns.
GetRun(w) ==
  /\ pc[w] = "get"
  /\ \/ /\ job[w] \notin Stored
        /\ Exit(w)
        /\ UNCHANGED <<creating, queue, client, recovering, bounds>>
     \/ /\ job[w] \in Stored
        /\ IF Skips(job[w]) THEN Went(w, "ack") ELSE Took(w, "begin")
        /\ UNCHANGED <<record, tries, optask>> /\ StepFrame(w)

\* MUTANT of BeginConflict: the round is repeated with the copy it has.
BeginConflictStale(w) ==
  IF tries[w] + 1 < MaxTries
  THEN Goto(w, "begin") /\ UNCHANGED seen /\ tries' = [tries EXCEPT ![w] = @ + 1]
  ELSE Went(w, "failed") /\ UNCHANGED tries

\* MUTANT of BeginConflict: someone else started it, so carry on.
BeginConflictCarriesOn(w) == Went(w, "load") /\ UNCHANGED tries

\* StateConflict in _begin_execution: read the record again for another round.
BeginConflict(w) ==
  IF job[w] \in Stored /\ tries[w] + 1 < MaxTries
  THEN Took(w, "begin") /\ tries' = [tries EXCEPT ![w] = @ + 1]
  ELSE Went(w, "failed") /\ UNCHANGED tries

\* One round of _begin_execution on the copy.  A terminal copy can only come
\* from the re-read; of those only a cancelled one ends the execution.
BeginExecution(w) ==
  LET r == job[w]  s == seen[w].st IN
  /\ pc[w] = "begin"
  /\ \/ /\ s = "cancelled"
        /\ Went(w, "ack") /\ UNCHANGED <<record, tries>>
     \/ /\ s \in {"completed", "failed", "running", "pausing", "paused"}
        /\ Went(w, "load") /\ UNCHANGED <<record, tries>>
     \/ /\ s = "cancelling"
        /\ TrySet(w, "cancelled", "ack", "failed") /\ UNCHANGED tries
     \/ /\ s = "queued" /\ Fresh(r, seen[w])
        /\ Save(r, "running", seen[w].prog)
        /\ started' = [started EXCEPT ![r] = TRUE]
        /\ Went(w, "load") /\ UNCHANGED tries
     \/ /\ s = "queued" /\ ~Fresh(r, seen[w])
        /\ BeginConflict(w) /\ UNCHANGED record
  /\ UNCHANGED optask /\ StepFrame(w)

\* The media is loaded and the pipeline starts with its first checkpoint.
LoadMedia(w) ==
  /\ pc[w] = "load"
  /\ Went(w, "ckpt")
  /\ UNCHANGED <<record, tries, optask>> /\ StepFrame(w)

\* stop_operator, or the operator's task returned.
EndOperator(w) ==
  /\ op' = [op EXCEPT ![w] = "none"]
  /\ opSeen' = [opSeen EXCEPT ![w] = NoCopy]

\* _checkpoint reads the record; a missing one stops the execution.
CheckpointRead(w) ==
  /\ pc[w] = "ckpt"
  /\ IF job[w] \in Stored THEN Took(w, "act") /\ UNCHANGED optask
     ELSE Went(w, "stopped") /\ EndOperator(w)
  /\ UNCHANGED <<record, tries>> /\ StepFrame(w)

\* ... and acts on what it read.  Any status but the three it knows lets the
\* operators run on.
CheckpointAct(w) ==
  LET r == job[w]  s == seen[w].st IN
  /\ pc[w] = "act"
  /\ \/ s = "cancelling" /\ TrySet(w, "cancelled", "stopped", "failed") /\ EndOperator(w)
     \/ /\ s = "pausing"
        /\ TrySet(w, "paused", "ckpt", "failed")
        /\ IF Fresh(r, seen[w]) THEN UNCHANGED optask ELSE EndOperator(w)
     \/ s = "paused" /\ Went(w, "ckpt") /\ UNCHANGED <<record, optask>>
     \/ /\ s \notin {"cancelling", "pausing", "paused"}
        /\ Went(w, "work")
        /\ op' = [op EXCEPT ![w] = IF @ = "none" THEN "run" ELSE @]
        /\ UNCHANGED <<record, opSeen>>
  /\ UNCHANGED tries /\ StepFrame(w)

\* The 0.1 s poll while an operator runs, or the checkpoint before the next node.
Poll(w) ==
  /\ pc[w] = "work"
  /\ Went(w, "ckpt")
  /\ \/ UNCHANGED optask
     \/ op[w] = "run" /\ EndOperator(w)
  /\ UNCHANGED <<record, tries>> /\ StepFrame(w)

\* The last operator returned; registrars, _store_result and evaluators follow.
OperatorsDone(w) ==
  /\ pc[w] = "work" /\ op[w] = "run"
  /\ Went(w, "store") /\ EndOperator(w)
  /\ UNCHANGED <<record, tries>> /\ StepFrame(w)

\* Something awaited in the try block raises: the database, the object store,
\* an operator, an event or the audit.
Fault(w) ==
  /\ pc[w] \in {"begin", "load", "ckpt", "act", "work", "store", "complete"}
  /\ Went(w, "failed") /\ EndOperator(w)
  /\ UNCHANGED <<record, tries>> /\ StepFrame(w)

\* The progress values worth saving: above the one of the copy, short of done.
Reports(copy) == (copy.prog + 1)..(MaxProgress - 1)

\* The operator's task reports progress, beside the checkpoints of its worker:
\* the new value is computed from the copy read, and saved with its revision.
\* A conflict is retried; giving up is a Fault.
ReportRead(w) ==
  LET r == job[w] IN
  /\ pc[w] \in {"work", "ckpt", "act"} /\ op[w] = "run"
  /\ r \in Stored /\ status[r] \notin Terminal
  /\ Reports(Copy(r)) # {}
  /\ op' = [op EXCEPT ![w] = "save"]
  /\ opSeen' = [opSeen EXCEPT ![w] = Copy(r)]
  /\ UNCHANGED <<record, pc, seen, tries>> /\ StepFrame(w)

ReportSave(w) ==
  LET r == job[w] IN
  /\ op[w] = "save"
  /\ IF Fresh(r, opSeen[w])
     THEN \E p \in Reports(opSeen[w]) :
            Save(r, opSeen[w].st, p) /\ UNCHANGED started
     ELSE UNCHANGED record
  /\ op' = [op EXCEPT ![w] = "run"]
  /\ opSeen' = [opSeen EXCEPT ![w] = NoCopy]
  /\ UNCHANGED <<pc, seen, tries>> /\ StepFrame(w)

\* The result is stored; read the record once more before completing it.
ReadLatest(w) ==
  /\ pc[w] = "store"
  /\ IF job[w] \in Stored THEN Took(w, "complete") ELSE Went(w, "failed")
  /\ UNCHANGED <<record, tries, optask>> /\ StepFrame(w)

\* The record read is completed whatever its status was.
Complete(w) ==
  LET r == job[w] IN
  /\ pc[w] = "complete"
  /\ IF Fresh(r, seen[w])
     THEN Save(r, "completed", MaxProgress) /\ UNCHANGED started /\ Went(w, "ack")
     ELSE UNCHANGED record /\ Went(w, "failed")
  /\ UNCHANGED <<tries, optask>> /\ StepFrame(w)

\* except ExecutionStopped: cancel the Run unless it is cancelled already.
StoppedRead(w) ==
  /\ pc[w] = "stopped"
  /\ IF job[w] \in Stored /\ status[job[w]] # "cancelled"
     THEN Took(w, "stopsave") ELSE Went(w, "ack")
  /\ UNCHANGED <<record, tries, optask>> /\ StepFrame(w)

\* except Exception: fail the Run unless it is terminal already.
FailedRead(w) ==
  /\ pc[w] = "failed"
  /\ IF job[w] \in Stored /\ status[job[w]] \notin Terminal
     THEN Took(w, "failsave") ELSE Went(w, "ack")
  /\ UNCHANGED <<record, tries, optask>> /\ StepFrame(w)

\* A conflict in either except clause leaves the handler and the process.
SaveOutcome(w) ==
  /\ pc[w] \in {"stopsave", "failsave"}
  /\ \/ /\ Fresh(job[w], seen[w])
        /\ SetStatus(job[w], IF pc[w] = "stopsave" THEN "cancelled" ELSE "failed", seen[w])
        /\ Went(w, "ack")
        /\ UNCHANGED <<tries, optask>> /\ StepFrame(w)
     \/ /\ ~Fresh(job[w], seen[w])
        /\ Exit(w)
        /\ UNCHANGED <<creating, queue, client, recovering, bounds>>

Work(w) == \/ Autoclaim(w) \/ ReadGroup(w) \/ GetRun(w) \/ BeginExecution(w) \/ LoadMedia(w)
           \/ CheckpointRead(w) \/ CheckpointAct(w) \/ Poll(w) \/ OperatorsDone(w)
           \/ ReadLatest(w) \/ Complete(w) \/ StoppedRead(w) \/ FailedRead(w)
           \/ SaveOutcome(w) \/ Ack(w)

Report(w) == ReportRead(w) \/ ReportSave(w)

-----------------------------------------------------------------------------
(* Loss of the Redis data set, and rebuild_redis_run_queue. *)

RedisLoss ==
  /\ losses < MaxLosses
  /\ losses' = losses + 1
  /\ entry' = [e \in Entries |-> IF entry[e] = "free" THEN "free" ELSE "lost"]
  /\ stale' = [e \in Entries |-> FALSE]
  /\ UNCHANGED <<record, creating, entryRun, worker, optask, client, recovering,
                 requests, crashes, lapses>>

\* state.recoverable_runs: every Run that is not terminal.
RecoverRead ==
  /\ losses > 0
  /\ recovering = {NoRun}
  /\ recovering' = {r \in Stored : status[r] \notin Terminal}
  /\ UNCHANGED <<record, creating, queue, worker, optask, client, bounds>>

\* queue.rebuild_empty: refused unless the stream is empty, atomic otherwise.
\* Acknowledged entries stay on a stream, so an empty one has lost its data.
RecoverRebuild ==
  /\ recovering # {NoRun}
  /\ recovering' = {NoRun}
  /\ \/ /\ \E e \in Entries : entry[e] \in {"new", "pending", "acked"}
        /\ UNCHANGED <<entry, entryRun>>
     \/ /\ \A e \in Entries : entry[e] \in {"free", "lost"}
        /\ \E f \in [recovering -> {e \in Entries : entry[e] = "free"}] :
             /\ \A r1, r2 \in recovering : f[r1] = f[r2] => r1 = r2
             /\ entry' = [e \in Entries |->
                            IF \E r \in recovering : f[r] = e THEN "new" ELSE entry[e]]
             /\ entryRun' = [e \in Entries |->
                            IF \E r \in recovering : f[r] = e
                            THEN CHOOSE r \in recovering : f[r] = e ELSE entryRun[e]]
  /\ UNCHANGED <<record, creating, stale, worker, optask, client, bounds>>

-----------------------------------------------------------------------------
Next ==
  \/ \E r \in Runs : Api(r) \/ ApiCrash(r)
  \/ \E c \in Clients : Client(c)
  \/ \E c \in Clients, r \in Runs, act \in {"pause", "resume", "cancel"} : Request(c, r, act)
  \/ \E w \in Workers : Work(w) \/ Report(w) \/ Fault(w)
  \/ \E w \in Workers : Lapse(w) \/ LeaseLost(w) \/ Crash(w)
  \/ \E e \in Entries : Expire(e)
  \/ RedisLoss \/ RecoverRead \/ RecoverRebuild

\* Workers and requests keep running (a worker that exits is restarted by its
\* supervisor), idle entries do expire, and the operator timeouts end every
\* execution that is not held in a pause.
Fairness ==
  /\ \A r \in Runs : WF_vars(Api(r) /\ creating[r] # "no")
  /\ \A c \in Clients : WF_vars(Client(c))
  /\ \A w \in Workers : /\ WF_vars(Work(w))
                        /\ WF_vars(ReportSave(w))
                        /\ SF_vars(pc[w] = "work" /\ (OperatorsDone(w) \/ Fault(w)))
  /\ \A e \in Entries : WF_vars(Expire(e))

SafeSpec == Init /\ [][Next]_vars

Spec == SafeSpec /\ Fairness

-----------------------------------------------------------------------------
(* Properties. *)

Executing(w) == pc[w] \in {"load", "ckpt", "act", "work", "store", "complete"}

\* Optimistic locking is sound: whoever holds a copy with the revision the
\* record still has (a worker in _begin_execution, _checkpoint or an except
\* clause, its operator's progress report, a request in transition) holds the
\* record's true status and progress, so no save_run ever overwrites what its
\* writer has not seen.
CopiesCurrent ==
  /\ \A w \in Workers :
       (pc[w] \in {"begin", "act", "complete", "stopsave", "failsave"} /\ Fresh(job[w], seen[w]))
          => seen[w] = Copy(job[w])
  /\ \A w \in Workers : (op[w] = "save" /\ Fresh(job[w], opSeen[w])) => opSeen[w] = Copy(job[w])
  /\ \A c \in Clients : (cpc[c] = "save" /\ Fresh(req[c].run, cseen[c])) => cseen[c] = Copy(req[c].run)

\* At-least-once delivery loses no Run: an entry is acknowledged only once its
\* Run has a final outcome (or was deleted), however executions of it overlap,
\* crash, conflict or lose their lease.
AckedRunsSettled ==
  \A e \in Entries : entry[e] = "acked" => status[entryRun[e]] \in Terminal \cup {"deleted"}

\* Cancelling a Run that waits in the queue is effective: no worker executes
\* it, although one may have read it as queued before the cancel was saved.
QueuedCancelSticks ==
  \A r \in Runs : (status[r] = "cancelled" /\ ~started[r]) =>
    \A w \in Workers : job[w] = r => ~Executing(w)

\* _begin_execution needs at most one re-read: a conflict means the Run left
\* the queue, so its four rounds are never used up.
BeginRetriesOnce == \A w \in Workers : tries[w] <= 1

\* The status field keeps its contract (RunStatusSpec): no Run returns to the
\* queue or to work after an outcome, and only the listed moves happen.
StatusContract == S!Spec

\* Progress never goes back, although every writer (two overlapping executions,
\* their progress reports, a request) writes back a progress that it read or
\* computed earlier, when another may have been further on since.
ProgressMonotonic == [][\A r \in Runs : progress'[r] >= progress[r]]_vars

\* Every queued entry gets its Run an outcome, unless a client keeps the Run
\* paused or Redis loses the entry.
EntriesServed ==
  \A e \in Entries : (entry[e] \in {"new", "pending"}) ~>
     \/ entry[e] = "lost"
     \/ \E r \in Runs : entryRun[e] = r /\ status[r] \in Terminal \cup {"deleted", "paused"}

\* A cancel request that was accepted ends the Run, unless Redis loses its entry.
CancellingEnds ==
  \A r \in Runs : (status[r] = "cancelling") ~> (status[r] \in Terminal \cup {"deleted"} \/ losses > 0)

\* Product standard: following stops at a terminal status, so a Run that was
\* reported cancelled stays cancelled.
CancelledIsFinal == [][\A r \in Runs : status[r] = "cancelled" => status'[r] \in {"cancelled", "deleted"}]_vars

-----------------------------------------------------------------------------
(* The inductive invariant behind the safety properties. *)

Settled(r) == status[r] \in Terminal \cup {"deleted"}

\* r has left the queue, and was started or has an outcome other than cancelled.
Left(r) == status[r] \notin {"none", "queued"}
Ran(r) == started[r] \/ status[r] \in {"failed", "completed", "deleted"}

RecordInv(r) ==
  /\ status[r] = "none" => rev[r] = 0
  /\ status[r] \in RunStatus => rev[r] >= 1 /\ (status[r] = "queued" <=> rev[r] = 1)
  /\ status[r] \in S!Active => started[r]
  /\ creating[r] # "no" => status[r] # "none"
  /\ creating[r] = "consume" => status[r] \in RunStatus

\* What a copy still says about a record with status st, revision rv and start
\* mark sd, however old the copy is.
CopyOK(st, rv, sd, copy) ==
  /\ copy.st \in RunStatus /\ copy.rev >= 1 /\ copy.rev <= rv
  /\ st # "none"
  /\ (st \in RunStatus /\ rv = copy.rev) => copy.st = st
  /\ copy.st = "queued" => copy.rev = 1
  /\ copy.st # "queued" => st # "queued"
  /\ copy.st \in Terminal => st \in Terminal \cup {"deleted"}
  /\ copy.st \notin {"queued", "cancelled"} => (sd \/ st \in {"failed", "completed", "deleted"})

CopyInv(r, copy) == CopyOK(status[r], rev[r], started[r], copy)

WorkerInv(w) ==
  /\ Busy(w) => /\ got[w] \in Entries /\ job[w] \in Runs
                /\ entry[got[w]] # "free" /\ entryRun[got[w]] = job[w]
                /\ status[job[w]] # "none"
  /\ pc[w] \in {"begin", "act", "complete", "stopsave", "failsave"} => CopyInv(job[w], seen[w])
  /\ pc[w] = "begin" /\ tries[w] > 0 => seen[w].st # "queued"
  /\ tries[w] <= 1 /\ (pc[w] \in {"claim", "read", "get"} => tries[w] = 0)
  /\ pc[w] = "ack" => Settled(job[w])
  /\ pc[w] \in {"stopped", "stopsave"} =>
       /\ status[job[w]] \in {"cancelled", "completed", "deleted"}
       /\ status[job[w]] = "deleted" \/ started[job[w]]
  /\ pc[w] = "stopsave" => seen[w].st # "cancelled"
  /\ pc[w] = "failsave" => seen[w].st \notin Terminal
  /\ Executing(w) => Left(job[w]) /\ Ran(job[w])
  /\ op[w] # "none" => pc[w] \in {"ckpt", "act", "work"}
  /\ op[w] = "save" => CopyInv(job[w], opSeen[w])

ClientInv(c) ==
  /\ cpc[c] # "idle" => req[c].run \in Runs /\ status[req[c].run] # "none"
  /\ cpc[c] = "save" => /\ CopyInv(req[c].run, cseen[c])
                        /\ Allowed(req[c].run, req[c].act, cseen[c].st)

EntryInv(e) ==
  /\ entry[e] # "free" => entryRun[e] \in Runs /\ status[entryRun[e]] # "none"
  /\ entry[e] = "acked" => Settled(entryRun[e])

\* A copy that could still be saved holds the record's progress, and a record
\* nobody has saved since its creation has none.
Current(r, copy) == rev[r] = copy.rev => copy.prog = progress[r]

ProgressInv ==
  /\ \A r \in Runs : rev[r] <= 1 => progress[r] = 0
  /\ \A w \in Workers : pc[w] \in {"begin", "act", "complete", "stopsave", "failsave"}
                          => Current(job[w], seen[w])
  /\ \A w \in Workers : op[w] = "save" => Current(job[w], opSeen[w])
  /\ \A c \in Clients : cpc[c] = "save" => Current(req[c].run, cseen[c])

\* Every process's copies and position agree with the records: the invariant
\* that a step of any process preserves and that implies the ones above.
IInv ==
  /\ TypeOK
  /\ \A r \in Runs : RecordInv(r)
  /\ \A w \in Workers : WorkerInv(w)
  /\ \A c \in Clients : ClientInv(c)
  /\ \A e \in Entries : EntryInv(e)
  /\ ProgressInv
  /\ recovering # {NoRun} => \A r \in recovering : status[r] # "none"
=============================================================================
