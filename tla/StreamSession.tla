--------------------------- MODULE StreamSession ---------------------------
(***************************************************************************)
(* A stream session: a chain of bounded Runs over one live source.  The    *)
(* worker that completes a segment because its time window is over creates *)
(* the next one itself, after the COMPLETED save and before it             *)
(* acknowledges its queue entry.  Clients pause and resume the segment     *)
(* they see and cancel the session, which is: find the newest segment and  *)
(* cancel that.                                                            *)
(*                                                                         *)
(* A worker's reads and saves of its own segment are one step here; a      *)
(* conflict between them is a Fault (RunExecution has them apart).  What   *)
(* is kept apart are the steps of the rollover and of the session cancel,  *)
(* each of which involves two segments.                                    *)
(***************************************************************************)
EXTENDS Naturals

CONSTANTS
  Workers, Clients, NoSegment,
  MaxSegment,     \* bound: the index of the last segment
  MaxRequests,    \* bound: pause, resume and cancel requests
  MaxCrashes,     \* bound: worker crashes
  MaxLapses,      \* bound: leases that lapse although the worker lives
  MaxErrors       \* bound: errors of create_run while rolling over

ASSUME SessionAssumption ==
  /\ {MaxSegment, MaxRequests, MaxCrashes, MaxLapses, MaxErrors} \subseteq Nat
  /\ NoSegment \notin Nat

Segments == 0..MaxSegment

VARIABLES
  status,        \* of each segment's Run; "none" when there is no record
  windowed,      \* completed because the time window was over
  next,          \* next_run_id is set
  entry,         \* the queue entry of each segment
  at, seg,       \* the workers
  cat, cseg,     \* cancel_stream_session: where it is, the segment it found
  asked,         \* segments of which a session cancel was accepted
  requests, crashes, lapses, errors

run == <<status, windowed, next>>
worker == <<at, seg>>
client == <<cat, cseg, asked>>
bounds == <<requests, crashes, lapses, errors>>
vars == <<run, entry, worker, client, bounds>>

S == INSTANCE RunStatusSpec WITH Runs <- Segments
Terminal == S!Terminal
Live == S!RunStatus \ Terminal

\* Every variable has its type.
TypeOK ==
  /\ status \in [Segments -> S!RunStatus \cup {"none"}]
  /\ windowed \in [Segments -> BOOLEAN]
  /\ next \in [Segments -> BOOLEAN]
  /\ entry \in [Segments -> {"none", "new", "held", "stale", "acked"}]
  /\ at \in [Workers -> {"idle", "run", "wait", "stop", "store", "roll", "consume", "enqueue", "link"}]
  /\ seg \in [Workers -> Segments \cup {NoSegment}]
  /\ cat \in [Clients -> {"idle", "found"}]
  /\ cseg \in [Clients -> Segments \cup {NoSegment}]
  /\ asked \subseteq Segments
  /\ requests \in 0..MaxRequests /\ crashes \in 0..MaxCrashes
  /\ lapses \in 0..MaxLapses /\ errors \in 0..MaxErrors

\* The client has opened the session: its first segment is created and queued.
Init ==
  /\ status = [i \in Segments |-> IF i = 0 THEN "queued" ELSE "none"]
  /\ windowed = [i \in Segments |-> FALSE]
  /\ next = [i \in Segments |-> FALSE]
  /\ entry = [i \in Segments |-> IF i = 0 THEN "new" ELSE "none"]
  /\ at = [w \in Workers |-> "idle"]
  /\ seg = [w \in Workers |-> NoSegment]
  /\ cat = [c \in Clients |-> "idle"]
  /\ cseg = [c \in Clients |-> NoSegment]
  /\ asked = {}
  /\ requests = 0 /\ crashes = 0 /\ lapses = 0 /\ errors = 0

Set(i, s) == status' = [status EXCEPT ![i] = s]
Goto(w, p) == at' = [at EXCEPT ![w] = p]

-----------------------------------------------------------------------------
(* Clients. *)

Pause(i) ==
  /\ requests < MaxRequests /\ requests' = requests + 1
  /\ status[i] = "running" /\ Set(i, "pausing")
  /\ UNCHANGED <<windowed, next, entry, worker, client, crashes, lapses, errors>>

Resume(i) ==
  /\ requests < MaxRequests /\ requests' = requests + 1
  /\ status[i] = "paused" /\ Set(i, "running")
  /\ UNCHANGED <<windowed, next, entry, worker, client, crashes, lapses, errors>>

IsCurrent(i) == status[i] # "none" /\ \A j \in Segments : j > i => status[j] = "none"

\* stream_session: the newest segment is the current one.
FindCurrent(c) ==
  /\ cat[c] = "idle"
  /\ requests < MaxRequests /\ requests' = requests + 1
  /\ cat' = [cat EXCEPT ![c] = "found"]
  /\ \E i \in Segments : IsCurrent(i) /\ cseg' = [cseg EXCEPT ![c] = i]
  /\ UNCHANGED <<run, entry, worker, asked, crashes, lapses, errors>>

Target(s) == IF s \in {"queued", "paused", "cancelling"} THEN "cancelled" ELSE "cancelling"

\* The segment found is cancelled, unless it has ended (or gone) meanwhile:
\* then the request changes nothing.
CancelCurrent(c) ==
  LET i == cseg[c] IN
  /\ cat[c] = "found"
  /\ IF status[i] \in Live
     THEN Set(i, Target(status[i])) /\ asked' = asked \cup {i}
     ELSE UNCHANGED <<status, asked>>
  /\ cat' = [cat EXCEPT ![c] = "idle"]
  /\ cseg' = [cseg EXCEPT ![c] = NoSegment]
  /\ UNCHANGED <<windowed, next, entry, worker, bounds>>

-----------------------------------------------------------------------------
(* Workers: one execution of a segment. *)

\* The handler returns and the entry is acknowledged.
Return(w) ==
  /\ Goto(w, "idle")
  /\ seg' = [seg EXCEPT ![w] = NoSegment]
  /\ entry' = [entry EXCEPT ![seg[w]] = "acked"]

\* A delivered entry: an ended segment is acknowledged unexecuted, a cancelling
\* one is cancelled, a queued one started and a started one taken up again.
Take(w, i) ==
  /\ at[w] = "idle" /\ entry[i] \in {"new", "stale"}
  /\ \/ /\ status[i] \in Terminal \cup {"cancelling"}
        /\ IF status[i] = "cancelling" THEN Set(i, "cancelled") ELSE UNCHANGED status
        /\ entry' = [entry EXCEPT ![i] = "acked"]
        /\ UNCHANGED worker
     \/ /\ status[i] \in {"queued", "running", "pausing", "paused"}
        /\ IF status[i] = "queued" THEN Set(i, "running") ELSE UNCHANGED status
        /\ entry' = [entry EXCEPT ![i] = "held"]
        /\ Goto(w, "run") /\ seg' = [seg EXCEPT ![w] = i]
  /\ UNCHANGED <<windowed, next, client, bounds>>

\* The poll between units: stop, pause, or go on whatever else the status is.
Checkpoint(w) ==
  LET s == status[seg[w]] IN
  /\ at[w] \in {"run", "wait"}
  /\ \/ s = "cancelling" /\ Set(seg[w], "cancelled") /\ Goto(w, "stop")
     \/ s = "pausing" /\ Set(seg[w], "paused") /\ Goto(w, "wait")
     \/ s = "paused" /\ at[w] = "run" /\ Goto(w, "wait") /\ UNCHANGED status
     \/ s \notin {"cancelling", "pausing", "paused"} /\ at[w] = "wait" /\ Goto(w, "run") /\ UNCHANGED status
  /\ UNCHANGED <<windowed, next, entry, seg, client, bounds>>

\* MUTANT of Stopped: the rollover follows every end of a segment.
StoppedRolls(w) ==
  /\ at[w] = "stop"
  /\ Set(seg[w], "cancelled")
  /\ IF seg[w] < MaxSegment THEN Goto(w, "roll") /\ UNCHANGED <<seg, entry>> ELSE Return(w)
  /\ UNCHANGED <<windowed, next, client, bounds>>

\* except ExecutionStopped.
Stopped(w) ==
  /\ at[w] = "stop"
  /\ Set(seg[w], "cancelled")
  /\ Return(w)
  /\ UNCHANGED <<windowed, next, client, bounds>>

\* except Exception: a segment that has not ended fails.
Fault(w) ==
  /\ at[w] \in {"run", "wait", "store"}
  /\ IF status[seg[w]] \in Live THEN Set(seg[w], "failed") ELSE UNCHANGED status
  /\ Return(w)
  /\ UNCHANGED <<windowed, next, client, bounds>>

\* The media source has no more units for this segment.
MediaDone(w) ==
  /\ at[w] = "run"
  /\ Goto(w, "store")
  /\ UNCHANGED <<run, entry, seg, client, bounds>>

\* MUTANT of Complete: the next segment is created before this one is completed.
CompleteEarly(w) ==
  LET i == seg[w] IN
  /\ at[w] = "store"
  /\ \/ /\ i < MaxSegment
        /\ windowed' = [windowed EXCEPT ![i] = TRUE]
        /\ Goto(w, "roll") /\ UNCHANGED <<status, seg, entry>>
     \/ Set(i, "completed") /\ Return(w) /\ UNCHANGED windowed
  /\ UNCHANGED <<next, client, bounds>>

\* The result is stored and the segment completed, whatever its status; only a
\* segment whose time window was over is rolled over.
Complete(w) ==
  LET i == seg[w] IN
  /\ at[w] = "store"
  /\ Set(i, "completed")
  /\ \/ /\ i < MaxSegment
        /\ windowed' = [windowed EXCEPT ![i] = TRUE]
        /\ Goto(w, "roll") /\ UNCHANGED <<seg, entry>>
     \/ Return(w) /\ UNCHANGED windowed
  /\ UNCHANGED <<next, client, bounds>>

-----------------------------------------------------------------------------
(* Workers: _rollover_stream_segment. *)

\* create_run is keyed by the session and the index: the record is inserted,
\* or the one that is there is returned and linked.
RollCreate(w) ==
  LET j == seg[w] + 1 IN
  /\ at[w] = "roll"
  /\ IF status[j] = "none" THEN Set(j, "queued") /\ Goto(w, "consume")
     ELSE Goto(w, "link") /\ UNCHANGED status
  /\ UNCHANGED <<windowed, next, entry, seg, client, bounds>>

RollConsume(w) ==
  /\ at[w] = "consume"
  /\ Goto(w, "enqueue")
  /\ UNCHANGED <<run, entry, seg, client, bounds>>

\* MUTANT of RollEnqueue: the new segment is not offered to the workers.
RollEnqueueNot(w) ==
  /\ at[w] = "enqueue"
  /\ Goto(w, "link")
  /\ UNCHANGED <<run, entry, seg, client, bounds>>

\* The entry is added; if that raises, the new segment is failed, unless it was
\* cancelled in between: that conflict ends the rollover.
RollEnqueue(w) ==
  LET j == seg[w] + 1 IN
  /\ at[w] = "enqueue"
  /\ \/ /\ entry' = [entry EXCEPT ![j] = "new"]
        /\ Goto(w, "link") /\ UNCHANGED <<status, seg, errors>>
     \/ /\ errors < MaxErrors /\ errors' = errors + 1
        /\ \/ status[j] = "queued" /\ Set(j, "failed") /\ Goto(w, "link") /\ UNCHANGED <<entry, seg>>
           \/ status[j] # "queued" /\ Return(w) /\ UNCHANGED status
  /\ UNCHANGED <<windowed, next, client, requests, crashes, lapses>>

\* create_run raises: before the insert (the source is gone, the pipeline
\* deprecated, the policy refuses; or result.available was not published); when the usage is consumed, and then deletes
\* the record, or leaves it when the delete fails too; or when "run.queued" is
\* published, and leaves it.  The session gets an error event.
RollError(w) ==
  /\ at[w] \in {"roll", "consume", "enqueue"}
  /\ errors < MaxErrors /\ errors' = errors + 1
  /\ \/ at[w] = "consume" /\ Set(seg[w] + 1, "none")
     \/ UNCHANGED status
  /\ Return(w)
  /\ UNCHANGED <<windowed, next, client, requests, crashes, lapses>>

\* next_run_id is saved, or its conflict ignored.
RollLink(w) ==
  /\ at[w] = "link"
  /\ next' \in {next, [next EXCEPT ![seg[w]] = TRUE]}
  /\ Return(w)
  /\ UNCHANGED <<status, windowed, client, bounds>>

-----------------------------------------------------------------------------
(* Failures. *)

\* The entry is redelivered, unless another execution of the segment renews or
\* has acknowledged it.
Crash(w) ==
  LET shared == \E u \in Workers \ {w} : seg[u] = seg[w] IN
  /\ at[w] # "idle"
  /\ crashes < MaxCrashes /\ crashes' = crashes + 1
  /\ entry' = [entry EXCEPT ![seg[w]] = IF shared \/ @ = "acked" THEN @ ELSE "stale"]
  /\ Goto(w, "idle") /\ seg' = [seg EXCEPT ![w] = NoSegment]
  /\ UNCHANGED <<run, client, requests, lapses, errors>>

\* The lease runs out although the worker lives.
Lapse(w) ==
  /\ at[w] # "idle" /\ entry[seg[w]] = "held"
  /\ lapses < MaxLapses /\ lapses' = lapses + 1
  /\ entry' = [entry EXCEPT ![seg[w]] = "stale"]
  /\ UNCHANGED <<run, worker, client, requests, crashes, errors>>

-----------------------------------------------------------------------------
Execute(w) == \/ \E i \in Segments : Take(w, i)
              \/ Checkpoint(w) \/ Stopped(w) \/ MediaDone(w) \/ Complete(w)
              \/ RollCreate(w) \/ RollConsume(w) \/ RollEnqueue(w) \/ RollLink(w)

Next ==
  \/ \E i \in Segments : Pause(i) \/ Resume(i)
  \/ \E c \in Clients : FindCurrent(c) \/ CancelCurrent(c)
  \/ \E w \in Workers : Execute(w) \/ Fault(w) \/ RollError(w) \/ Crash(w) \/ Lapse(w)

\* Workers run and are restarted; errors and requests need not happen.
Fairness == \A w \in Workers : WF_vars(Execute(w))

SafeSpec == Init /\ [][Next]_vars

Spec == SafeSpec /\ Fairness

-----------------------------------------------------------------------------
(* Properties. *)

\* One segment of a session is live at a time, however rollovers, retries and
\* overlapping executions interleave.
OneLiveSegment == \A i, j \in Segments : status[i] \in Live /\ status[j] \in Live => i = j

\* As long as no lease lapses, a failed or cancelled segment is the last one,
\* whatever crashes, retries and requests do (two executions of one segment may
\* complete and fail it in turn), and next_run_id names a Run that exists, also
\* when create_run deletes the record again.
ChainSound ==
  lapses = 0 =>
    /\ \A i \in Segments : i < MaxSegment /\ status[i] \in {"failed", "cancelled"} => status[i + 1] = "none"
    /\ \A i \in Segments : next[i] => status[i + 1] # "none"

Continued(i) == entry[i + 1] # "none" \/ status[i + 1] \in Terminal

\* A segment whose time window is over is followed by the next one, ready for
\* a worker, unless a worker crashes or create_run raises.
Continues == \A i \in 0..(MaxSegment - 1) : windowed[i] ~> (Continued(i) \/ crashes + errors > 0)

-----------------------------------------------------------------------------
(* The inductive invariant behind OneLiveSegment. *)

\* A segment that was continued has ended, every entry has its segment, and
\* every segment continues all those before it.
ChainInv ==
  /\ \A i \in Segments : windowed[i] => status[i] \in Terminal /\ entry[i] # "none"
  /\ \A i \in Segments : entry[i] # "none" => status[i] # "none"
  /\ \A i, j \in Segments : i < j /\ status[j] # "none" => windowed[i]

Rolling == {"roll", "consume", "enqueue", "link"}
Inserting == {"consume", "enqueue"}

\* A worker that has inserted the next segment is alone with it: no entry
\* offers it to another worker yet.
WorkerInv(w) ==
  /\ at[w] # "idle" => seg[w] \in Segments /\ entry[seg[w]] # "none"
  /\ at[w] \in Rolling => windowed[seg[w]] /\ seg[w] < MaxSegment
  /\ at[w] \in Inserting =>
       /\ status[seg[w] + 1] \in {"queued", "cancelled"} /\ entry[seg[w] + 1] = "none"
       /\ \A u \in Workers \ {w} : at[u] \in Inserting => seg[u] # seg[w]

\* The chain, every worker's place in it and every request's segment agree.
IInv ==
  /\ TypeOK
  /\ ChainInv
  /\ \A w \in Workers : WorkerInv(w)
  /\ \A c \in Clients : cat[c] = "found" => cseg[c] \in Segments
=============================================================================
