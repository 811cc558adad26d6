-------------------------- MODULE SurveillanceTasks --------------------------
(***************************************************************************)
(* Watchlists and one surveillance task with its bindings to stream        *)
(* sessions: SurveillanceService over its PostgreSQL store.                *)
(* Records are saved by compare-and-set on their revision.  A request      *)
(* reads the task, saves it, then starts or cancels stream sessions one    *)
(* binding at a time, while other requests and the scheduler's reconcile   *)
(* do the same.                                                            *)
(***************************************************************************)
EXTENDS Integers, Sequences, FiniteSets

CONSTANTS
    Supervisors,     \* requests and reconcile passes that may overlap
    Watchlists, Bindings,
    MaxRevision,     \* bound on the revisions of the task
    MaxListRevision, \* bound on the revisions of a watchlist
    MaxCrashes       \* bound on the requests that die half-way

VARIABLES
    watchlists,      \* watchlist -> NoRecord or [status, revision]
    task,            \* NoRecord or [status, lists, names, revision]
    open,            \* whether the schedule of the task is active now
    streams,         \* stream sessions: [binding, rev, st]
    sreq,            \* requests in flight
    crashes,         \* requests that died
    unstopped,       \* history: sessions whose cancel failed or was never reached
    overtaken,       \* history: sessions a cancel reached too late to end them
    unnamed          \* history: sessions whose name was dropped or never saved

ASSUME TaskAssumption == MaxRevision \in Nat \ {0} /\ MaxListRevision \in Nat \ {0}

cancelVars == <<unstopped, overtaken>>
historyVars == <<cancelVars, unnamed>>
taskVars == <<watchlists, task, open, streams, sreq, crashes, historyVars>>

NoRecord == [none |-> TRUE]
NoCall == [at |-> "idle"]
NoName == 0
Step(c, r) == sreq' = [sreq EXCEPT ![c] = r]
Return(c) == Step(c, NoCall)
Saved(row, status) == [row EXCEPT !.status = status, !.revision = @ + 1]
------------------------------------------------------------------------------
(* Watchlists.  The caller names the revision it has seen: a write
   that meets another one raises SurveillanceConflict and changes nothing. *)

create_watchlist(w) ==
    /\ watchlists[w] = NoRecord
    /\ watchlists' = [watchlists EXCEPT ![w] = [status |-> "active", revision |-> 1]]
    /\ UNCHANGED <<task, open, streams, sreq, crashes, historyVars>>

update_watchlist(w, seen, status) ==
    /\ watchlists[w] # NoRecord /\ watchlists[w].revision = seen
    /\ seen < MaxListRevision
    /\ watchlists' = [watchlists EXCEPT ![w] = Saved(@, status)]
    /\ UNCHANGED <<task, open, streams, sreq, crashes, historyVars>>

\* The transaction refuses a watchlist a task names.
delete_watchlist(w) ==
    /\ watchlists[w] # NoRecord
    /\ w \notin (IF task = NoRecord THEN {} ELSE task.lists)
    /\ watchlists' = [watchlists EXCEPT ![w] = NoRecord]
    /\ UNCHANGED <<task, open, streams, sreq, crashes, historyVars>>
------------------------------------------------------------------------------
(* The task: validate the references, then write *)

Available(w) == watchlists[w] # NoRecord /\ watchlists[w].status # "archived"

ValidReferences(lists) == \A w \in lists : Available(w)

create_task(c, lists) ==
    /\ sreq[c] = NoCall /\ task = NoRecord
    /\ ValidReferences(lists)
    /\ Step(c, [at |-> "insert", lists |-> lists])
    /\ UNCHANGED <<watchlists, task, open, streams, crashes, historyVars>>

InsertTask(c) ==
    /\ sreq[c].at = "insert"
    /\ task = NoRecord         \* one task is followed
    /\ task' = [status |-> "draft", lists |-> sreq[c].lists,
                names |-> [b \in Bindings |-> NoName], revision |-> 1]
    /\ Return(c)
    /\ UNCHANGED <<watchlists, open, streams, crashes, historyVars>>

\* UPDATE ... WHERE revision = expected_revision.
Current(read) == task.revision = read.revision

SaveTask(read, next) ==
    /\ task.revision < MaxRevision
    /\ IF Current(read) THEN task' = [next EXCEPT !.revision = read.revision + 1]
       ELSE UNCHANGED task

\* Bindings of the request replace the stored ones: the sessions they named,
\* unless the caller copied the ids, are no longer named.
update_task(c, lists) ==
    /\ sreq[c] = NoCall /\ task # NoRecord
    /\ ValidReferences(lists)
    /\ Step(c, [at |-> "update", read |-> task, lists |-> lists])
    /\ UNCHANGED <<watchlists, task, open, streams, crashes, historyVars>>

Named(names) == {names[b] : b \in Bindings} \ {NoName}

SaveUpdate(c, keep) ==
    LET r == sreq[c] IN
    /\ r.at = "update"
    /\ SaveTask(r.read, [r.read EXCEPT !.lists = r.lists,
                             !.names = IF keep THEN @ ELSE [b \in Bindings |-> NoName]])
    /\ unnamed' = IF Current(r.read) /\ ~ keep THEN unnamed \cup Named(task.names) ELSE unnamed
    /\ Return(c)
    /\ UNCHANGED <<watchlists, open, streams, crashes, cancelVars>>

\* resume_task is start_task.
start_task(c) ==
    /\ sreq[c] = NoCall /\ task # NoRecord
    /\ task.status \notin {"active", "expired"}
    /\ ValidReferences(task.lists)
    /\ Step(c, [at |-> "start", read |-> task])
    /\ UNCHANGED <<watchlists, task, open, streams, crashes, historyVars>>

SaveStart(c) ==
    LET r == sreq[c]
        next == [r.read EXCEPT !.status = "active", !.revision = @ + 1] IN
    /\ r.at = "start"
    /\ SaveTask(r.read, next)
    /\ IF Current(r.read) THEN Step(c, [at |-> "reconcile", read |-> next]) ELSE Return(c)
    /\ UNCHANGED <<watchlists, open, streams, crashes, historyVars>>

\* The task is saved before its sessions are cancelled; a pause of a task that
\* is paused returns at once.
pause_task(c) ==
    /\ sreq[c] = NoCall /\ task # NoRecord
    /\ task.status # "paused"
    /\ Step(c, [at |-> "pause", read |-> task])
    /\ UNCHANGED <<watchlists, task, open, streams, crashes, historyVars>>

StopList(read) == {b \in Bindings : read.names[b] # NoName}

SavePause(c) ==
    LET r == sreq[c]
        next == [r.read EXCEPT !.status = "paused", !.revision = @ + 1] IN
    /\ r.at = "pause"
    /\ SaveTask(r.read, next)
    /\ IF Current(r.read)
       THEN Step(c, [at |-> "stop", read |-> next, left |-> StopList(next)])
       ELSE Return(c)
    /\ UNCHANGED <<watchlists, open, streams, crashes, historyVars>>

\* The newest segment of a session: one that is over, also one whose successor is
\* still to be created, is not cancelled; a queued one ends at once and a running one
\* is asked to.
cancel_stream_session(s, queued) ==
    LET st == streams[s].st IN
    /\ unstopped' = unstopped \ {s}
    /\ overtaken' = IF st = "between" THEN overtaken \cup {s} ELSE overtaken \ {s}
    /\ streams' = IF st = "running"
                  THEN [streams EXCEPT ![s].st = IF queued THEN "over" ELSE "cancelling"]
                  ELSE streams

\* One turn of the loop of _stop_bindings: a cancel that fails is logged.
StopBinding(c, ok, queued) ==
    LET r == sreq[c]
        b == CHOOSE b \in r.left : TRUE
        s == r.read.names[b] IN
    /\ r.at = "stop" /\ r.left # {}
    /\ IF ok THEN cancel_stream_session(s, queued)
       ELSE unstopped' = unstopped \cup {s} /\ UNCHANGED <<streams, overtaken>>
    /\ Step(c, [r EXCEPT !.left = @ \ {b}])
    /\ UNCHANGED <<watchlists, task, open, crashes, unnamed>>

StopDone(c) ==
    /\ sreq[c].at = "stop" /\ sreq[c].left = {}
    /\ Return(c)
    /\ UNCHANGED <<watchlists, task, open, streams, crashes, historyVars>>
------------------------------------------------------------------------------
(* Reconciliation *)

\* The scheduler lists the active tasks and reconciles what it read.
reconcile(c) ==
    /\ sreq[c] = NoCall /\ task # NoRecord /\ task.status = "active"
    /\ Step(c, [at |-> "reconcile", read |-> task])
    /\ UNCHANGED <<watchlists, task, open, streams, crashes, historyVars>>

\* _reconcile_task up to its loop: outside the schedule the sessions are
\* cancelled; inside it a binding that names a session is left alone.
ReconcileBegins(c) ==
    LET r == sreq[c]
        left == {b \in Bindings : r.read.names[b] = NoName} IN
    /\ r.at = "reconcile"
    /\ IF ~ open THEN Step(c, [at |-> "stop", read |-> r.read, left |-> StopList(r.read)])
       ELSE IF left = {} THEN Return(c)
       ELSE Step(c, [at |-> "bind", read |-> r.read, left |-> left, names |-> r.read.names])
    /\ UNCHANGED <<watchlists, task, open, streams, crashes, historyVars>>

\* Mutant.
SessionOfKey_None(b, rev) == {}

\* create_run returns the Run of an idempotency key that was used before.
SessionOfKey(b, rev) == {s \in DOMAIN streams : streams[s].binding = b /\ streams[s].rev = rev}

StartBinding(c) ==
    LET r == sreq[c]
        b == CHOOSE b \in r.left : TRUE
        known == SessionOfKey(b, r.read.revision) IN
    /\ r.at = "bind" /\ r.left # {}
    /\ streams' = IF known # {} THEN streams
                  ELSE Append(streams, [binding |-> b, rev |-> r.read.revision, st |-> "running"])
    /\ Step(c, [r EXCEPT !.left = @ \ {b},
                         !.names[b] = IF known # {} THEN CHOOSE s \in known : TRUE
                                      ELSE Len(streams) + 1])
    /\ UNCHANGED <<watchlists, task, open, crashes, historyVars>>

\* create_run raises: the binding keeps its empty name and records last_error.
StartBindingFails(c) ==
    LET r == sreq[c] IN
    /\ r.at = "bind" /\ r.left # {}
    /\ Step(c, [r EXCEPT !.left = @ \ {CHOOSE b \in r.left : TRUE}])
    /\ UNCHANGED <<watchlists, task, open, streams, crashes, historyVars>>

SaveNames(c) ==
    LET r == sreq[c] IN
    /\ r.at = "bind" /\ r.left = {}
    /\ SaveTask(r.read, [r.read EXCEPT !.names = r.names])
    /\ unnamed' = IF Current(r.read) THEN unnamed
                  ELSE unnamed \cup (Named(r.names) \ Named(task.names))
    /\ Return(c)
    /\ UNCHANGED <<watchlists, open, streams, crashes, cancelVars>>
------------------------------------------------------------------------------
(* The sessions.  What a worker does with a segment, as StreamSession has it in
   detail: an accepted cancel is a wish, a segment may complete all the same and
   be followed by the next one. *)

SegmentCompletes(s) ==
    /\ streams[s].st \in {"running", "cancelling"}
    /\ streams' = [streams EXCEPT ![s].st = "between"]
    /\ overtaken' = IF streams[s].st = "cancelling" THEN overtaken \cup {s} ELSE overtaken
    /\ UNCHANGED <<watchlists, task, open, sreq, crashes, unstopped, unnamed>>

SegmentRollsOver(s) ==
    /\ streams[s].st = "between"
    /\ streams' = [streams EXCEPT ![s].st = "running"]
    /\ UNCHANGED <<watchlists, task, open, sreq, crashes, historyVars>>

\* The last segment is cancelled or fails, its media ends, or the rollover is lost.
SessionEnds(s) ==
    /\ streams[s].st # "over"
    /\ streams' = [streams EXCEPT ![s].st = "over"]
    /\ UNCHANGED <<watchlists, task, open, sreq, crashes, historyVars>>
------------------------------------------------------------------------------
\* The process of a request dies; the sessions it was to stop keep running.
RequestDies(c) ==
    LET r == sreq[c] IN
    /\ r # NoCall /\ crashes < MaxCrashes
    /\ crashes' = crashes + 1
    /\ unstopped' = IF r.at = "stop" THEN unstopped \cup {r.read.names[b] : b \in r.left}
                    ELSE unstopped
    /\ unnamed' = IF r.at = "bind" THEN unnamed \cup (Named(r.names) \ Named(task.names))
                  ELSE unnamed
    /\ Return(c)
    /\ UNCHANGED <<watchlists, task, open, streams, overtaken>>

\* The schedule's window opens or closes.
is_active ==
    /\ open' = ~ open
    /\ UNCHANGED <<watchlists, task, streams, sreq, crashes, historyVars>>

TaskInit ==
    /\ watchlists = [w \in Watchlists |-> NoRecord]
    /\ task = NoRecord /\ open = TRUE /\ streams = << >>
    /\ sreq = [c \in Supervisors |-> NoCall]
    /\ crashes = 0 /\ unstopped = {} /\ overtaken = {} /\ unnamed = {}

TaskNext ==
    \/ \E w \in Watchlists :
        \/ create_watchlist(w)
        \/ \E r \in 1 .. MaxListRevision, s \in {"active", "archived"} : update_watchlist(w, r, s)
        \/ delete_watchlist(w)
    \/ \E c \in Supervisors :
        \/ \E l \in (SUBSET Watchlists) \ {{}} : create_task(c, l)
        \/ InsertTask(c)
        \/ \E l \in (SUBSET Watchlists) \ {{}} : update_task(c, l)
        \/ \E keep \in BOOLEAN : SaveUpdate(c, keep)
        \/ start_task(c)
        \/ SaveStart(c)
        \/ pause_task(c)
        \/ SavePause(c)
        \/ \E ok, queued \in BOOLEAN : StopBinding(c, ok, queued)
        \/ StopDone(c)
        \/ reconcile(c)
        \/ ReconcileBegins(c)
        \/ StartBinding(c)
        \/ StartBindingFails(c)
        \/ SaveNames(c)
        \/ RequestDies(c)
    \/ \E s \in DOMAIN streams : SegmentCompletes(s) \/ SegmentRollsOver(s) \/ SessionEnds(s)
    \/ is_active

TaskSpec == TaskInit /\ [][TaskNext]_taskVars
------------------------------------------------------------------------------
(* Types *)

Watchlist == [status : {"active", "archived"}, revision : 1..MaxListRevision]
SurveillanceTask ==
    [status : {"draft", "active", "paused", "completed"}, lists : SUBSET Watchlists,
     names : [Bindings -> 0..Len(streams)], revision : 1..MaxRevision]
StreamSessionOfTask ==
    [binding : Bindings, rev : 1..MaxRevision, st : {"running", "cancelling", "between", "over"}]

\* Every record keeps its type.
TaskTypeOK ==
    /\ watchlists \in [Watchlists -> Watchlist \cup {NoRecord}]
    /\ task = NoRecord \/ task \in SurveillanceTask
    /\ streams \in Seq(StreamSessionOfTask)
    /\ unstopped \cup overtaken \cup unnamed \subseteq DOMAIN streams
------------------------------------------------------------------------------
(* Properties *)

Quiet == \A c \in Supervisors : sreq[c] = NoCall

\* "Keeping the revision in the idempotency key makes repeated reconciliation
\* safe": passes that overlap, or that repeat one which died before its save,
\* start one session for a binding and a revision.  Every session a paused task
\* names has been asked to end, is over, or is one whose cancel failed, was lost
\* with its process or came when its segment was completing: no reconcile that read
\* the task before the pause names a session afterwards.  And a session that is not
\* over is named by the task, unless its pass lost the race to save the name, died
\* before, or an update replaced the bindings.
TaskSessionsSound ==
    /\ TaskTypeOK
    /\ \A i, j \in DOMAIN streams :
          i # j /\ streams[i].binding = streams[j].binding => streams[i].rev # streams[j].rev
    /\ Quiet /\ task # NoRecord /\ task.status = "paused" =>
          \A s \in Named(task.names) :
              streams[s].st \in {"cancelling", "over"} \/ s \in unstopped \cup overtaken
    /\ Quiet => \A s \in DOMAIN streams :
          streams[s].st = "over" \/ s \in Named(task.names) \cup unnamed
==============================================================================
