---------------------------- MODULE ResultStore ----------------------------
(***************************************************************************)
(* The stored result of one Run.  An execution publishes partial results   *)
(* while its operators work and the final one when they are done.  Each is *)
(* shards and an index document in the object store, a retention record    *)
(* for every object, and last the Run's one result reference; the objects  *)
(* of the reference it replaces are then deleted.                          *)
(*                                                                         *)
(* Objects are immutable: a put onto a key that holds other bytes raises.  *)
(* A retention record is never written twice, not even after its object    *)
(* was deleted.  The reference has no revision: the last save wins.        *)
(*                                                                         *)
(* An execution may crash between any two steps and the Run is then        *)
(* executed again; a lapsed lease does that while the first one lives.     *)
(* Left out: artifacts and previews, the ageing of results, pauses, and a  *)
(* commit whose acknowledgement is lost.                                   *)
(***************************************************************************)
EXTENDS Integers, Sequences, Functions

CONSTANTS
  Workers,
  MaxUnits,          \* bound: units of the media
  ShardUnits,        \* units of a shard (result_shard_units)
  MaxPublishes,      \* bound: partial results
  MaxCrashes,        \* bound: worker crashes
  MaxLapses,         \* bound: leases that lapse although the worker lives
  MaxFaults,         \* bound: errors of the pipeline, the object store, the database
  MaxIndexFailures,  \* bound: errors of the search index
  NoDoc, NoRef

ASSUME ResultAssumption ==
  /\ MaxUnits \in Nat \ {0} /\ ShardUnits \in Nat \ {0}
  /\ {MaxPublishes, MaxCrashes, MaxLapses, MaxFaults, MaxIndexFailures} \subseteq Nat

VARIABLES
  status,        \* of the Run
  objs,          \* the object store: the document under each key
  kept,          \* the retention record of each key
  ref,           \* the result reference
  at, job,       \* the workers: where they are, the result they are storing
  stopping,      \* workers whose checkpoint has cancelled the Run
  faulted,       \* some error was not of the store's own making
  halfFailed,    \* a worker crashed while it was failing the Run
  execs, publishes, crashes, lapses, faults, indexFailures

store == <<objs, kept>>
worker == <<at, job, stopping>>
bounds == <<execs, publishes, crashes, lapses, faults, indexFailures>>
history == <<faulted, halfFailed>>
vars == <<status, store, ref, worker, history, bounds>>

Executions == 0..(MaxCrashes + MaxLapses + 1)

\* The final index and shards, the partial shards, and the partial indexes,
\* which are named by a fresh uuid each.
FinalKey == <<"result", 0>>
Keys == {FinalKey} \cup ({"final", "partial"} \X (0..MaxUnits)) \cup ({"index"} \X (1..MaxPublishes))

\* A document is known by the units in it and by the execution that first wrote
\* these bytes.
Docs == [by : Executions, from : 0..MaxUnits, to : 0..MaxUnits]
Objects == [key : Keys, doc : Docs]
Refs == [key : Keys, doc : Docs, shards : Seq(Objects), count : 0..MaxUnits, index : {"ready", "partial"}]

ASSUME AbsenceAssumption == NoDoc \notin Docs /\ NoRef \notin Refs

\* What a worker stores: its execution and the one whose bytes its shards have,
\* the reference it read, the one it will save, objects
\* still to put, keys written, keys still to track, keys to delete and to mark,
\* and where it goes afterwards.
Jobs == [by : Executions, bytes : Executions, prev : Refs \cup {NoRef}, new : Refs \cup {NoRef}, todo : Seq(Objects),
         written : Seq(Keys), untracked : Seq(Keys), drop : SUBSET Keys, marks : SUBSET Keys,
         then : {"work", "stored", "discard", "fail"}]
Idle == [by |-> 0, bytes |-> 0, prev |-> NoRef, new |-> NoRef, todo |-> <<>>, written |-> <<>>, untracked |-> <<>>,
         drop |-> {}, marks |-> {}, then |-> "work"]

\* Every variable has its type; in particular no document, shard or reference
\* counts units the media does not have.
TypeOK ==
  /\ status \in {"running", "cancelling", "cancelled", "completed", "failed"}
  /\ objs \in [Keys -> Docs \cup {NoDoc}]
  /\ kept \in [Keys -> {"none", "live", "deleted"}]
  /\ ref \in Refs \cup {NoRef}
  /\ at \in [Workers -> {"idle", "work", "put", "track", "save", "drop", "mark", "stored", "discard", "fail"}]
  /\ job \in [Workers -> Jobs]
  /\ stopping \subseteq Workers
  /\ faulted \in BOOLEAN /\ halfFailed \in BOOLEAN
  /\ execs \in Executions /\ publishes \in 0..MaxPublishes
  /\ crashes \in 0..MaxCrashes /\ lapses \in 0..MaxLapses
  /\ faults \in 0..MaxFaults /\ indexFailures \in 0..MaxIndexFailures

Init ==
  /\ status = "running"
  /\ objs = [k \in Keys |-> NoDoc]
  /\ kept = [k \in Keys |-> "none"]
  /\ ref = NoRef
  /\ at = [w \in Workers |-> "idle"]
  /\ job = [w \in Workers |-> Idle]
  /\ stopping = {}
  /\ faulted = FALSE /\ halfFailed = FALSE
  /\ execs = 0 /\ publishes = 0 /\ crashes = 0 /\ lapses = 0 /\ faults = 0 /\ indexFailures = 0

Goto(w, p) == at' = [at EXCEPT ![w] = p]
Leave(w) ==
  /\ Goto(w, "idle")
  /\ job' = [job EXCEPT ![w] = Idle]
  /\ stopping' = stopping \ {w}

-----------------------------------------------------------------------------
(* Executions and the client's cancel. *)

\* A worker takes the Run: nobody executes it, or the lease has lapsed.  Its
\* shards have bytes of their own or those of an earlier execution.
Start(w) ==
  /\ at[w] = "idle" /\ status \in {"running", "cancelling"}
  /\ IF \A u \in Workers : at[u] = "idle" THEN UNCHANGED lapses
     ELSE lapses < MaxLapses /\ lapses' = lapses + 1
  /\ \/ /\ status = "running"
        /\ execs' = execs + 1
        /\ Goto(w, "work")
        /\ \E b \in 1..execs' : job' = [job EXCEPT ![w].by = execs', ![w].bytes = b]
        /\ UNCHANGED status
     \/ /\ status = "cancelling"
        /\ status' = "cancelled"
        /\ UNCHANGED <<at, job, execs>>
  /\ UNCHANGED <<store, ref, stopping, history, publishes, crashes, faults, indexFailures>>

\* A second cancel does not wait for the worker.
Cancel ==
  /\ \/ status = "running" /\ status' = "cancelling"
     \/ status = "cancelling" /\ status' = "cancelled"
  /\ UNCHANGED <<store, ref, worker, history, bounds>>

\* The operators run while a partial result is published.
InOperator(w) ==
  at[w] = "work" \/ (at[w] \in {"put", "track", "save", "drop", "mark"} /\ job[w].then = "work")

Checkpoint(w) ==
  /\ InOperator(w) /\ status = "cancelling"
  /\ status' = "cancelled"
  /\ stopping' = stopping \cup {w}
  /\ UNCHANGED <<store, ref, at, job, history, bounds>>

\* stop_operator and except ExecutionStopped: the operator's task ends where it
\* is, or is cancelled there; nothing is undone and a partial result is kept.
Stop(w) ==
  /\ w \in stopping /\ InOperator(w)
  /\ status' = "cancelled"
  /\ Leave(w)
  /\ UNCHANGED <<store, ref, history, bounds>>

-----------------------------------------------------------------------------
(* _store_result *)

\* MUTANT of Chunks: the last shard is taken to be full.
\* The units from..to in shards of ShardUnits.
Chunks(from, to) ==
  [i \in 1..((to - from + ShardUnits - 1) \div ShardUnits) |->
     [from |-> from + (i - 1) * ShardUnits,
      to |-> IF from + i * ShardUnits < to THEN from + i * ShardUnits ELSE to]]

\* The shards of the units from..to under keys numbered from first.
NewShards(kind, first, by, from, to) ==
  [i \in DOMAIN Chunks(from, to) |->
     [key |-> <<kind, first + i - 1>>,
      doc |-> [by |-> by, from |-> Chunks(from, to)[i].from, to |-> Chunks(from, to)[i].to]]]

\* The index document, with its time of creation and so many of the units.
IndexDoc(by, units) == [by |-> by, from |-> 0, to |-> units]

Extends(r) == r # NoRef /\ r.index = "partial"

\* MUTANT of Reused: the shards are written anew.
ReusedNone(r) == <<>>

\* A partial result continues the one before it.
Reused(r) == IF Extends(r) THEN r.shards ELSE <<>>

\* MUTANT of Published: every shard of the partial result before is full.
PublishedFull(r) == IF Extends(r) THEN
                      IF ShardUnits * Len(r.shards) < MaxUnits THEN ShardUnits * Len(r.shards) ELSE MaxUnits
                    ELSE 0

Published(r) == IF Extends(r) THEN r.count ELSE 0

Begin(w, new, fresh, then) ==
  /\ Goto(w, "put")
  /\ job' = [job EXCEPT ![w] = [Idle EXCEPT !.by = job[w].by, !.bytes = job[w].bytes, !.prev = ref, !.new = new, !.then = then,
                                            !.todo = Append(fresh, [key |-> new.key, doc |-> new.doc])]]

\* publish_partial_result: the first u units are there.  Fewer than were
\* published before raises, and is dropped.
Publish(w, u) ==
  LET old == Reused(ref)
      fresh == NewShards("partial", Len(old), job[w].bytes, Published(ref), u) IN
  /\ at[w] = "work"
  /\ publishes < MaxPublishes /\ publishes' = publishes + 1
  /\ u >= Published(ref)
  /\ Begin(w, [key |-> <<"index", publishes'>>, doc |-> IndexDoc(job[w].by, 0),
               shards |-> old \o fresh, count |-> u, index |-> "partial"], fresh, "work")
  /\ UNCHANGED <<status, store, ref, stopping, history, execs, crashes, lapses, faults, indexFailures>>

\* The operators are done: a result that fits one shard is in its index.
Finish(w, u) ==
  LET fresh == IF u > ShardUnits THEN NewShards("final", 0, job[w].bytes, 0, u) ELSE <<>> IN
  /\ at[w] = "work" /\ w \notin stopping
  /\ Begin(w, [key |-> FinalKey, doc |-> IndexDoc(job[w].by, IF u > ShardUnits THEN 0 ELSE u),
               shards |-> fresh, count |-> u, index |-> "ready"], fresh, "stored")
  /\ UNCHANGED <<status, store, ref, stopping, history, bounds>>

\* except Exception: what was written is deleted.  A partial result is given up,
\* a final one fails the Run.
Raise(w) ==
  /\ Goto(w, "drop")
  /\ job' = [job EXCEPT ![w].drop = Range(job[w].written), ![w].marks = Range(job[w].written),
                        ![w].then = IF job[w].then = "work" THEN "work" ELSE "discard"]

\* MUTANT of Taken: a key that is taken counts as written.
TakenNever(o) == FALSE

\* The object store's condition on a put.
Taken(o) == objs[o.key] \notin {NoDoc, o.doc}

\* An object that the reference read already names is not tracked again.
Put(w) ==
  LET o == Head(job[w].todo)
      known == job[w].prev # NoRef /\ job[w].prev.key = o.key
      written == IF known THEN job[w].written ELSE Append(job[w].written, o.key) IN
  /\ at[w] = "put"
  /\ \/ Taken(o) /\ Raise(w) /\ UNCHANGED objs
     \/ /\ ~Taken(o)
        /\ objs' = [objs EXCEPT ![o.key] = IF @ = NoDoc THEN o.doc ELSE @]
        /\ job' = [job EXCEPT ![w].todo = Tail(@), ![w].written = written, ![w].untracked = written]
        /\ Goto(w, IF Len(job[w].todo) = 1 THEN "track" ELSE "put")
  /\ UNCHANGED <<status, kept, ref, stopping, history, bounds>>

\* track_object: a record that is there, even of a deleted object, raises.
Track(w) ==
  LET left == job[w].untracked IN
  /\ at[w] = "track"
  /\ \/ left = <<>> /\ Goto(w, "save") /\ UNCHANGED <<kept, job>>
     \/ left # <<>> /\ kept[Head(left)] # "none" /\ Raise(w) /\ UNCHANGED kept
     \/ /\ left # <<>> /\ kept[Head(left)] = "none"
        /\ kept' = [kept EXCEPT ![Head(left)] = "live"]
        /\ job' = [job EXCEPT ![w].untracked = Tail(@)]
        /\ UNCHANGED at
  /\ UNCHANGED <<status, objs, ref, stopping, history, bounds>>

RefKeys(r) == {r.key} \cup {r.shards[i].key : i \in DOMAIN r.shards}

\* MUTANT of Obsolete: the shards the new reference takes over are among them.
ObsoleteAll(prev, new) == IF prev = NoRef \/ prev.key = new.key THEN {} ELSE RefKeys(prev)

\* The objects of the reference that is replaced, without the shards still used.
Obsolete(prev, new) ==
  IF prev = NoRef \/ prev.key = new.key THEN {}
  ELSE {prev.key} \cup (RefKeys(prev) \ {new.shards[i].key : i \in DOMAIN new.shards})

\* The final result is indexed for search first; when that fails the reference
\* says so, in the field that tells partial results.
Save(w) ==
  LET j == job[w] IN
  /\ at[w] = "save"
  /\ \/ ref' = j.new /\ UNCHANGED indexFailures
     \/ /\ j.then = "stored" /\ indexFailures < MaxIndexFailures
        /\ indexFailures' = indexFailures + 1
        /\ ref' = [j.new EXCEPT !.index = "partial"]
  /\ job' = [job EXCEPT ![w].drop = Obsolete(j.prev, j.new), ![w].marks = Obsolete(j.prev, j.new)]
  /\ Goto(w, "drop")
  /\ UNCHANGED <<status, store, stopping, history, execs, publishes, crashes, lapses, faults>>

\* One object is deleted, or the error suppressed.
Drop(w) ==
  /\ at[w] = "drop"
  /\ \/ job[w].drop = {} /\ Goto(w, "mark") /\ UNCHANGED <<objs, job, faults>>
     \/ \E k \in job[w].drop :
          /\ job' = [job EXCEPT ![w].drop = @ \ {k}]
          /\ \/ objs' = [objs EXCEPT ![k] = NoDoc] /\ UNCHANGED faults
             \/ faults < MaxFaults /\ faults' = faults + 1 /\ UNCHANGED objs
          /\ UNCHANGED at
  /\ UNCHANGED <<status, kept, ref, stopping, history, execs, publishes, crashes, lapses, indexFailures>>

\* mark_objects_deleted, or its error suppressed.  A Run whose last live record
\* it marks loses its reference.
Mark(w) ==
  LET live == {k \in job[w].marks : kept[k] = "live"} IN
  /\ at[w] = "mark"
  /\ \/ /\ kept' = [k \in Keys |-> IF k \in live THEN "deleted" ELSE kept[k]]
        /\ ref' = IF live # {} /\ \A k \in Keys : kept'[k] # "live" THEN NoRef ELSE ref
        /\ UNCHANGED faults
     \/ faults < MaxFaults /\ faults' = faults + 1 /\ UNCHANGED <<kept, ref>>
  /\ Goto(w, job[w].then)
  /\ job' = [job EXCEPT ![w] = [Idle EXCEPT !.by = job[w].by, !.bytes = job[w].bytes]]
  /\ UNCHANGED <<status, objs, stopping, history, execs, publishes, crashes, lapses, indexFailures>>

-----------------------------------------------------------------------------
(* The end of an execution. *)

Complete(w) ==
  /\ at[w] = "stored"
  /\ status' = "completed"
  /\ Leave(w)
  /\ UNCHANGED <<store, ref, history, bounds>>

\* _discard_partial_result: of the reference it reads, if that is a partial one.
Discard(w) ==
  LET partial == ref # NoRef /\ ref.key[1] = "index" IN
  /\ at[w] = "discard"
  /\ IF partial
     THEN Goto(w, "drop") /\ job' = [job EXCEPT ![w].drop = RefKeys(ref), ![w].marks = RefKeys(ref), ![w].then = "fail"]
     ELSE Goto(w, "fail") /\ UNCHANGED job
  /\ UNCHANGED <<status, store, ref, stopping, history, bounds>>

Fail(w) ==
  /\ at[w] = "fail"
  /\ status' = IF status \in {"running", "cancelling"} THEN "failed" ELSE status
  /\ Leave(w)
  /\ UNCHANGED <<store, ref, history, bounds>>

\* An operator, the object store or the database raises.
Fault(w) ==
  /\ faults < MaxFaults /\ faults' = faults + 1
  /\ faulted' = TRUE /\ UNCHANGED halfFailed
  /\ \/ at[w] \in {"work", "stored"} /\ w \notin stopping /\ Goto(w, "discard") /\ UNCHANGED job
     \/ at[w] \in {"put", "track", "save"} /\ Raise(w)
  /\ UNCHANGED <<status, store, ref, stopping, execs, publishes, crashes, lapses, indexFailures>>

Crash(w) ==
  /\ at[w] # "idle"
  /\ crashes < MaxCrashes /\ crashes' = crashes + 1
  /\ halfFailed' = (halfFailed \/ at[w] \in {"discard", "fail"} \/ job[w].then \in {"discard", "fail"})
  /\ Leave(w)
  /\ UNCHANGED <<status, store, ref, faulted, execs, publishes, lapses, faults, indexFailures>>

-----------------------------------------------------------------------------
Next ==
  \/ Cancel
  \/ \E w \in Workers :
       \/ Start(w) \/ Checkpoint(w) \/ Stop(w)
       \/ \E u \in 1..MaxUnits : Publish(w, u) \/ Finish(w, u)
       \/ Put(w) \/ Track(w) \/ Save(w) \/ Drop(w) \/ Mark(w)
       \/ Complete(w) \/ Discard(w) \/ Fail(w) \/ Fault(w) \/ Crash(w)

Spec == Init /\ [][Next]_vars

-----------------------------------------------------------------------------
(* Properties. *)

\* A reader finds every object the reference names, with its checksum.
Readable(r) ==
  /\ objs[r.key] = r.doc
  /\ \A i \in DOMAIN r.shards : objs[r.shards[i].key] = r.shards[i].doc

\* A completed Run has its final result, and it can be read, however often the
\* Run was executed before.  True while one worker at a time executes it.
CompletedReadable == status = "completed" => ref # NoRef /\ ref.key = FinalKey /\ Readable(ref)

\* Unless indexing failed (the reference of a final result then looks like a
\* partial one), the shards of a reference hold its units, each once and in order.
ShardsExact ==
  /\ TypeOK
  /\ indexFailures = 0 /\ ref # NoRef =>
    LET n == Len(ref.shards) IN
    IF n = 0 THEN ref.doc.to = ref.count
    ELSE /\ ref.shards[1].doc.from = 0 /\ ref.shards[n].doc.to = ref.count
         /\ \A i \in 1..(n - 1) : ref.shards[i].doc.to = ref.shards[i + 1].doc.from

Backed == ref # NoRef => Readable(ref)

\* A reference is committed only while its objects are there (ADR 0002), also
\* when it takes shards over from the one before.  Unless a worker has crashed
\* while it was failing the Run: it may have deleted shards of a reference that
\* the next execution continues.
CommitBacked == [][ref' # ref /\ ~halfFailed => Backed']_vars
=============================================================================
