------------------------------ MODULE Trajectory ------------------------------
(***************************************************************************)
(* Long-term identities across cameras.  A worker ingests the tracklets of *)
(* a Run into identities while an operator merges, splits, renames or      *)
(* deletes them.  Identities, segments and templates live in different     *)
(* tables and a vector store: each write is a step, and a worker or an     *)
(* operator may stop between two of them.                                  *)
(***************************************************************************)
EXTENDS Integers, Sequences, FiniteSets, SequencesExt, FiniteSetsExt

CONSTANTS
    Tracklets,       \* name -> [first, last, quality, frames, embedded]
    TrackRuns,       \* name -> [camera, absolute, base, tracks]
    Cameras,         \* camera ids
    TransitionSets,  \* sets of [from, to, min, max] an operator may configure
    Analysts,        \* operators
    MinQuality, MinFrames, MaxTemplates, DefaultGap,
    ListLimit,       \* segments one listing answers at most
    MaxIdentities, MaxSegments,
    MaxEvents        \* bound on requests, stops and redeliveries together

\* A record without a usable name of its camera has the camera "".  A Run without
\* recording_started_at takes the present as its base, another one each time; the
\* number of bases bounds the deliveries of the Run that reach the ingest.
ASSUME TrajectoryAssumption ==
    /\ \A t \in DOMAIN Tracklets :
          Tracklets[t].first \in Int /\ Tracklets[t].last \in Int /\ Tracklets[t].quality \in Nat
    /\ \A r \in DOMAIN TrackRuns :
          /\ TrackRuns[r].camera \in Cameras \cup {""} /\ TrackRuns[r].base \in Seq(Int)
          /\ TrackRuns[r].absolute => Cardinality(Range(TrackRuns[r].base)) <= 1
          /\ TrackRuns[r].tracks \in Seq(DOMAIN Tracklets)
    /\ \A new \in TransitionSets : new \subseteq [from : Cameras, to : Cameras, min : Nat, max : Nat]
    /\ MaxIdentities \in Nat /\ MaxSegments \in Nat /\ ListLimit \in Nat \ {0}

VARIABLES
    identities,      \* identity -> NoIdentity or LongTermIdentity
    trackSegments,   \* segment -> NoSegment or TrajectorySegment
    templates,       \* features stored: <<segment, subject>>
    cameraRecords,   \* camera -> "none", "auto" or "registered"
    transitions,     \* the configured CameraTransitions
    ingest,          \* <<run, execution>> -> the ingest of its tracklets
    analyst,         \* operator -> the request it works on
    nextIdentity, nextSegment,
    overlapped,      \* requests overlapped, or one stopped half way
    cut,             \* identities of which a request was not answered every segment
    events

trajectoryVars == <<identities, trackSegments, templates, cameraRecords, transitions, ingest, analyst,
                    nextIdentity, nextSegment, overlapped, cut, events>>

IdentityIds == 1 .. MaxIdentities
SegmentIds == 1 .. MaxSegments
NoIdentity == [status |-> "none"]
NoSegment == [identity |-> 0]
Executions == UNION {{r} \X DOMAIN TrackRuns[r].base : r \in DOMAIN TrackRuns}
Recording(x) == TrackRuns[x[1]]
Waiting == [at |-> "waiting"]
Done == [at |-> "done"]
Unoccupied == [at |-> "free"]
SegmentsOf(i) == {s \in SegmentIds : trackSegments[s].identity = i}

\* What list_segments may answer: the earliest, when there are more than its limit.
Exceeds(i) == Cardinality(SegmentsOf(i)) > ListLimit
Listings(i) ==
    IF ~ Exceeds(i) THEN {SegmentsOf(i)}
    ELSE {S \in SUBSET SegmentsOf(i) :
            /\ Cardinality(S) = ListLimit
            /\ \A s \in S, t \in SegmentsOf(i) \ S : trackSegments[s].first <= trackSegments[t].first}
MarkCut(i) == cut' = IF Exceeds(i) THEN cut \cup {i} ELSE cut

Subjects == {t[2] : t \in templates}
Working(x) == ingest[x] \notin {Waiting, Done}
AtRestNow == (\A x \in Executions : ~ Working(x)) /\ (\A o \in Analysts : analyst[o] = Unoccupied)
Began == overlapped' = (overlapped \/ ~ AtRestNow)
Event == events < MaxEvents /\ events' = events + 1
------------------------------------------------------------------------------
(* Cameras *)

\* ensure_camera has read that there is none.
ensure_camera(c) == [cameraRecords EXCEPT ![c] = IF @ = "none" THEN "auto" ELSE @]

register_camera(c) ==
    /\ Event
    /\ cameraRecords[c] # "registered"
    /\ cameraRecords' = [cameraRecords EXCEPT ![c] = "registered"]
    /\ UNCHANGED <<identities, trackSegments, templates, transitions, ingest, analyst, nextIdentity,
                   nextSegment, overlapped, cut>>

delete_camera(c) ==
    /\ Event
    /\ cameraRecords[c] # "none"
    /\ cameraRecords' = [cameraRecords EXCEPT ![c] = "none"]
    /\ transitions' = {t \in transitions : c \notin {t.from, t.to}}
    /\ UNCHANGED <<identities, trackSegments, templates, ingest, analyst, nextIdentity, nextSegment,
                   overlapped, cut>>

\* Every camera the new transitions lead to is registered before they replace
\* the ones that leave c.
set_camera_transitions(c, new) ==
    /\ Event
    /\ \A t \in new : t.from = c
    /\ cameraRecords' = [k \in Cameras |->
           IF k = c \/ \E t \in new : t.to = k THEN ensure_camera(k)[k] ELSE cameraRecords[k]]
    /\ transitions' = {t \in transitions : t.from # c} \cup new
    /\ UNCHANGED <<identities, trackSegments, templates, ingest, analyst, nextIdentity, nextSegment,
                   overlapped, cut>>
------------------------------------------------------------------------------
(* Reachability *)

_windows_overlap(a, b) == a[1] <= b[2] /\ b[1] <= a[2]
Window(s) == <<trackSegments[s].first, trackSegments[s].last>>

\* probe_reachability: the neighbours in time, whatever their camera; the
\* database may answer any of two that tie.
Overlapping(i, camera, window) ==
    \E s \in SegmentsOf(i) : trackSegments[s].camera \notin {"", camera} /\ _windows_overlap(Window(s), window)

Previous(i, window) ==
    LET before == {s \in SegmentsOf(i) : trackSegments[s].camera # "" /\ trackSegments[s].last < window[1]} IN
    {s \in before : \A t \in before : trackSegments[t].last <= trackSegments[s].last}

Following(i, window) ==
    LET after == {s \in SegmentsOf(i) : trackSegments[s].camera # "" /\ trackSegments[s].first > window[2]} IN
    {s \in after : \A t \in after : trackSegments[t].first >= trackSegments[s].first}

\* A pair of cameras without a transition has the default minimum and no maximum.
_gap_allows(from, to, gap) ==
    LET known == {t \in transitions : t.from = from /\ t.to = to} IN
    IF known = {} THEN gap >= DefaultGap
    ELSE \A t \in known : gap >= t.min /\ gap <= t.max

\* p and f are the neighbours the probe answered, or 0.
_transition_allows(camera, window, p, f) ==
    /\ p # 0 => \/ trackSegments[p].camera = camera
                \/ _gap_allows(trackSegments[p].camera, camera, window[1] - trackSegments[p].last)
    /\ f # 0 => \/ trackSegments[f].camera = camera
                \/ _gap_allows(camera, trackSegments[f].camera, trackSegments[f].first - window[2])
------------------------------------------------------------------------------
(* ingest_run_tracks *)

_quality_gate(t) == Tracklets[t].quality >= MinQuality /\ Tracklets[t].frames >= MinFrames

_observation_window(t, base) ==
    LET first == base + Tracklets[t].first
        last == base + Tracklets[t].last IN
    IF first <= last THEN <<first, last>> ELSE <<last, first>>

Works(x, step) == ingest' = [ingest EXCEPT ![x] = step]

\* Registrars run before a Run is COMPLETED: a redelivery after a crash or a lapsed
\* lease ingests the whole Run again, with nothing claimed, even beside the first.
ingest_run_tracks(x) ==
    /\ ingest[x] = Waiting
    /\ IF x[2] = 1 THEN UNCHANGED events ELSE Event /\ ingest[<<x[1], x[2] - 1>>] # Waiting
    /\ Began
    /\ cameraRecords' = IF Recording(x).camera = "" THEN cameraRecords ELSE ensure_camera(Recording(x).camera)
    /\ Works(x, [at |-> "track", todo |-> Recording(x).tracks, claimed |-> [i \in IdentityIds |-> {}]])
    /\ UNCHANGED <<identities, trackSegments, templates, transitions, analyst, nextIdentity, nextSegment, cut>>

\* The search answers any of the subjects with a template, best first.
_candidates(x) ==
    LET j == ingest[x]
        t == Head(j.todo) IN
    /\ j.at = "track" /\ j.todo # <<>>
    /\ IF ~ _quality_gate(t) \/ ~ Tracklets[t].embedded
       THEN Works(x, [j EXCEPT !.todo = Tail(@)])
       ELSE /\ nextSegment <= MaxSegments /\ nextIdentity <= MaxIdentities
            /\ \E matches \in SUBSET Subjects : \E ranked \in SetToSeqs(matches) :
                   Works(x, [at |-> "choose", todo |-> j.todo, claimed |-> j.claimed, ranked |-> ranked,
                             window |-> _observation_window(t, Recording(x).base[x[2]])])
    /\ UNCHANGED <<identities, trackSegments, templates, cameraRecords, transitions, analyst, nextIdentity,
                   nextSegment, overlapped, events, cut>>

\* Mutant.
Claimed_Never(j, i) == FALSE

\* Tracklets of one Run that overlap in time are different people.
Claimed(j, i) == \E taken \in j.claimed[i] : _windows_overlap(j.window, taken)

\* Only an authoritative start time is compared with other Runs.
Eligible(x, i) ==
    LET j == ingest[x]
        camera == Recording(x).camera
        OrNone(S) == IF S = {} THEN {0} ELSE S IN
    /\ identities[i] # NoIdentity /\ identities[i].status # "rejected"
    /\ ~ Claimed(j, i)
    /\ camera = "" \/ ~ Recording(x).absolute
       \/ /\ ~ Overlapping(i, camera, j.window)
          /\ \E p \in OrNone(Previous(i, j.window)), f \in OrNone(Following(i, j.window)) :
                 _transition_allows(camera, j.window, p, f)

\* The first eligible candidate, or a new identity.
Choose(x) ==
    LET j == ingest[x] IN
    /\ j.at = "choose"
    /\ IF j.ranked = <<>> THEN Works(x, [at |-> "load", todo |-> j.todo, claimed |-> j.claimed,
                                         window |-> j.window, chosen |-> 0])
       ELSE IF Eligible(x, Head(j.ranked))
       THEN Works(x, [at |-> "load", todo |-> j.todo, claimed |-> j.claimed,
                      window |-> j.window, chosen |-> Head(j.ranked)])
       ELSE Works(x, [j EXCEPT !.ranked = Tail(@)])
    /\ UNCHANGED <<identities, trackSegments, templates, cameraRecords, transitions, analyst, nextIdentity,
                   nextSegment, overlapped, events, cut>>

NewIdentity(window, camera) ==
    [status |-> "auto", count |-> 0, cameras |-> {camera} \ {""}, first |-> window[1], last |-> window[2],
     last_camera |-> camera]

\* The identity is read again; a concurrent deletion ends the ingest.
Load(x) ==
    LET j == ingest[x] IN
    /\ j.at = "load"
    /\ IF j.chosen # 0 /\ identities[j.chosen] = NoIdentity
       THEN Works(x, Done) /\ UNCHANGED <<nextIdentity, nextSegment>>
       ELSE /\ nextIdentity' = IF j.chosen = 0 THEN nextIdentity + 1 ELSE nextIdentity
            /\ nextSegment' = nextSegment + 1
            /\ nextIdentity' <= MaxIdentities + 1 /\ nextSegment <= MaxSegments
            /\ Works(x, [at |-> "template", todo |-> j.todo, claimed |-> j.claimed, window |-> j.window,
                         method |-> IF j.chosen = 0 THEN "new_identity" ELSE "reid",
                         id |-> IF j.chosen = 0 THEN nextIdentity ELSE j.chosen, segment |-> nextSegment,
                         doc |-> IF j.chosen = 0 THEN NewIdentity(j.window, Recording(x).camera)
                                 ELSE identities[j.chosen]])
    /\ UNCHANGED <<identities, trackSegments, templates, cameraRecords, transitions, analyst, overlapped, events,
                   cut>>

_store_templates(x) ==
    LET j == ingest[x] IN
    /\ j.at = "template"
    /\ templates' = templates \cup {<<j.segment, j.id>>}
    /\ Works(x, [j EXCEPT !.at = "segment"])
    /\ UNCHANGED <<identities, trackSegments, cameraRecords, transitions, analyst, nextIdentity, nextSegment,
                   overlapped, events, cut>>

TrackSegment(x) ==
    LET j == ingest[x] IN
    [identity |-> j.id, execution |-> x, camera |-> Recording(x).camera, first |-> j.window[1], last |-> j.window[2],
     quality |-> Tracklets[Head(j.todo)].quality, method |-> j.method, feature |-> j.id]

put_segment(x) ==
    LET j == ingest[x] IN
    /\ j.at = "segment"
    /\ trackSegments' = [trackSegments EXCEPT ![j.segment] = TrackSegment(x)]
    /\ Works(x, [j EXCEPT !.at = "identity"])
    /\ UNCHANGED <<identities, templates, cameraRecords, transitions, analyst, nextIdentity, nextSegment,
                   overlapped, events, cut>>

_apply_segment(doc, g) ==
    LET last == Max({doc.last, g.last}) IN
    [status |-> doc.status, count |-> doc.count + 1, cameras |-> doc.cameras \cup ({g.camera} \ {""}),
     first |-> Min({doc.first, g.first}), last |-> last,
     last_camera |-> IF last = g.last THEN g.camera ELSE doc.last_camera]

\* put_identity inserts or replaces, whatever happened since the identity was read.
put_identity(x) ==
    LET j == ingest[x] IN
    /\ j.at = "identity"
    /\ identities' = [identities EXCEPT ![j.id] = _apply_segment(j.doc, TrackSegment(x))]
    /\ Works(x, [j EXCEPT !.at = "prune"])
    /\ UNCHANGED <<trackSegments, templates, cameraRecords, transitions, analyst, nextIdentity, nextSegment,
                   overlapped, events, cut>>

Templates(i) == {t \in templates : t[2] = i}

\* The templates beyond the limit, worst first; one no segment listed names has quality 0.
Quality(t, S) == IF t[1] \in S THEN trackSegments[t[1]].quality ELSE 0

_prune_templates(x) ==
    LET j == ingest[x]
        mine == Templates(j.id)
        excess == Cardinality(mine) - MaxTemplates IN
    /\ j.at = "prune"
    /\ \E worst \in SUBSET mine, S \in Listings(j.id) :
        /\ Cardinality(worst) = Max({excess, 0})
        /\ \A t \in worst, u \in mine \ worst : Quality(t, S) <= Quality(u, S)
        /\ templates' = templates \ worst
    /\ Works(x, [at |-> "track", todo |-> Tail(j.todo),
                 claimed |-> [j.claimed EXCEPT ![j.id] = @ \cup {j.window}]])
    /\ UNCHANGED <<identities, trackSegments, cameraRecords, transitions, analyst, nextIdentity, nextSegment,
                   overlapped, events, cut>>

Ingested(x) ==
    /\ ingest[x].at = "track" /\ ingest[x].todo = <<>>
    /\ Works(x, Done)
    /\ UNCHANGED <<identities, trackSegments, templates, cameraRecords, transitions, analyst, nextIdentity,
                   nextSegment, overlapped, events, cut>>

\* A process crashes, or a store raises and the Run goes on: nothing this ingest
\* wrote is undone.
Stop(x) ==
    /\ Working(x)
    /\ Event /\ overlapped' = TRUE
    /\ Works(x, Done)
    /\ UNCHANGED <<identities, trackSegments, templates, cameraRecords, transitions, analyst, nextIdentity,
                   nextSegment, cut>>
------------------------------------------------------------------------------
(* Operators *)

Listed(S) == {<<s, trackSegments[s]>> : s \in S}
Turns(o, step) == analyst' = [analyst EXCEPT ![o] = step]

\* _recompute of the segments listed.  Nothing but the count and the cameras is reset
\* without segments.
_recompute(doc, listed) ==
    IF listed = {} THEN [doc EXCEPT !.count = 0, !.cameras = {}]
    ELSE LET newest == {m \in listed : \A n \in listed : n[2].last <= m[2].last}
             s == CHOOSE m \in newest : \A n \in newest : n[2].first <= m[2].first IN
         [status |-> doc.status, count |-> Cardinality(listed),
          cameras |-> {m[2].camera : m \in listed} \ {""},
          first |-> Min({m[2].first : m \in listed}), last |-> s[2].last,
          last_camera |-> s[2].camera]

\* The sources of a request: each once, without the target, at least one.
SourceOrders ==
    [i \in IdentityIds |-> UNION {SetToSeqs(S) : S \in (SUBSET (IdentityIds \ {i})) \ {{}}}]

merge_identities(o, target, sources) ==
    /\ Event
    /\ analyst[o] = Unoccupied
    /\ identities[target] # NoIdentity /\ sources # <<>>
    /\ Began
    /\ Turns(o, [at |-> "source", target |-> target, sources |-> sources, doc |-> identities[target]])
    /\ UNCHANGED <<identities, trackSegments, templates, cameraRecords, transitions, ingest, nextIdentity,
                   nextSegment, cut>>

\* A source that is gone ends the request, the sources before it merged.  Segments
\* beyond the limit of the listing do not move.
NextSource(o) ==
    LET q == analyst[o] IN
    /\ q.at = "source"
    /\ IF q.sources = <<>> THEN Turns(o, [q EXCEPT !.at = "recount"])
       ELSE IF identities[Head(q.sources)] = NoIdentity THEN Turns(o, Unoccupied)
       ELSE \E S \in Listings(Head(q.sources)) :
              Turns(o, [at |-> "move", kind |-> "merge", target |-> q.target, sources |-> q.sources, doc |-> q.doc,
                        from |-> Head(q.sources), moving |-> Listed(S)])
    /\ IF q.sources = <<>> THEN UNCHANGED cut ELSE MarkCut(Head(q.sources))
    /\ overlapped' = (overlapped \/ (q.sources # <<>> /\ identities[Head(q.sources)] = NoIdentity))
    /\ UNCHANGED <<identities, trackSegments, templates, cameraRecords, transitions, ingest, nextIdentity,
                   nextSegment, events>>

\* A template that was pruned has nothing to move.
_move_features(s, g, i) ==
    LET old == <<s, g.feature>> IN
    IF old \in templates THEN (templates \ {old}) \cup {<<s, i>>} ELSE templates

\* The segment is written as it was listed, with its new identity.
Move(o) ==
    LET q == analyst[o] IN
    /\ q.at = "move"
    /\ \E m \in q.moving :
        /\ templates' = _move_features(m[1], m[2], q.target)
        /\ trackSegments' = [trackSegments EXCEPT ![m[1]] =
               [m[2] EXCEPT !.identity = q.target, !.method = "manual", !.feature = q.target]]
        /\ Turns(o, [q EXCEPT !.moving = @ \ {m}])
    /\ UNCHANGED <<identities, cameraRecords, transitions, ingest, nextIdentity, nextSegment, overlapped, events,
                   cut>>

\* delete_subject and delete_identity of a merged source.
Moved(o) ==
    LET q == analyst[o] IN
    /\ q.at = "move" /\ q.moving = {} /\ q.kind = "merge"
    /\ templates' = templates \ Templates(q.from)
    /\ identities' = [identities EXCEPT ![q.from] = NoIdentity]
    /\ Turns(o, [at |-> "source", target |-> q.target, sources |-> Tail(q.sources), doc |-> q.doc])
    /\ UNCHANGED <<trackSegments, cameraRecords, transitions, ingest, nextIdentity, nextSegment, overlapped, events,
                   cut>>

Recount(o) ==
    LET q == analyst[o] IN
    /\ q.at = "recount"
    /\ \E S \in Listings(q.target) :
          Turns(o, [at |-> "save", kind |-> "merge", id |-> q.target, doc |-> _recompute(q.doc, Listed(S))])
    /\ MarkCut(q.target)
    /\ UNCHANGED <<identities, trackSegments, templates, cameraRecords, transitions, ingest, nextIdentity,
                   nextSegment, overlapped, events>>

split_identity(o, i, wanted) ==
    /\ Event
    /\ analyst[o] = Unoccupied /\ nextIdentity <= MaxIdentities
    /\ identities[i] # NoIdentity
    /\ Began
    /\ nextIdentity' = nextIdentity + 1
    /\ \E S \in Listings(i) :
        /\ wanted \subseteq S /\ wanted # {} /\ wanted # S
        /\ Turns(o, [at |-> "move", kind |-> "split", target |-> nextIdentity, from |-> i, moving |-> Listed(wanted),
                     wanted |-> Listed(wanted), left |-> Listed(S \ wanted), doc |-> identities[i]])
    /\ MarkCut(i)
    /\ UNCHANGED <<identities, trackSegments, templates, cameraRecords, transitions, ingest, nextSegment>>

\* The new identity is saved, then the old one, both with the segments listed before.
SplitCreated(o) ==
    LET q == analyst[o] IN
    /\ q.at = "move" /\ q.moving = {} /\ q.kind = "split"
    /\ identities' = [identities EXCEPT ![q.target] = _recompute([q.doc EXCEPT !.status = "confirmed"], q.wanted)]
    /\ Turns(o, [at |-> "save", kind |-> "split", id |-> q.from, doc |-> _recompute(q.doc, q.left)])
    /\ UNCHANGED <<trackSegments, templates, cameraRecords, transitions, ingest, nextIdentity, nextSegment,
                   overlapped, events, cut>>

update_identity(o, i, status) ==
    /\ Event
    /\ analyst[o] = Unoccupied
    /\ identities[i] # NoIdentity
    /\ Began
    /\ Turns(o, [at |-> "save", kind |-> "update", id |-> i, doc |-> [identities[i] EXCEPT !.status = status]])
    /\ UNCHANGED <<identities, trackSegments, templates, cameraRecords, transitions, ingest, nextIdentity,
                   nextSegment, cut>>

Save(o) ==
    LET q == analyst[o] IN
    /\ q.at = "save"
    /\ identities' = [identities EXCEPT ![q.id] = q.doc]
    /\ Turns(o, Unoccupied)
    /\ UNCHANGED <<trackSegments, templates, cameraRecords, transitions, ingest, nextIdentity, nextSegment,
                   overlapped, events, cut>>

delete_identity(o, i) ==
    /\ Event
    /\ analyst[o] = Unoccupied
    /\ identities[i] # NoIdentity
    /\ Began
    /\ templates' = templates \ Templates(i)
    /\ Turns(o, [at |-> "delete_segments", id |-> i])
    /\ UNCHANGED <<identities, trackSegments, cameraRecords, transitions, ingest, nextIdentity, nextSegment, cut>>

delete_segments_for_identity(o) ==
    LET q == analyst[o] IN
    /\ q.at = "delete_segments"
    /\ trackSegments' = [s \in SegmentIds |-> IF s \in SegmentsOf(q.id) THEN NoSegment ELSE trackSegments[s]]
    /\ Turns(o, [q EXCEPT !.at = "delete_identity"])
    /\ UNCHANGED <<identities, templates, cameraRecords, transitions, ingest, nextIdentity, nextSegment,
                   overlapped, events, cut>>

DeleteIdentityRecord(o) ==
    LET q == analyst[o] IN
    /\ q.at = "delete_identity"
    /\ identities' = [identities EXCEPT ![q.id] = NoIdentity]
    /\ Turns(o, Unoccupied)
    /\ UNCHANGED <<trackSegments, templates, cameraRecords, transitions, ingest, nextIdentity, nextSegment,
                   overlapped, events, cut>>

StopAnalyst(o) ==
    /\ analyst[o] # Unoccupied
    /\ Event /\ overlapped' = TRUE
    /\ Turns(o, Unoccupied)
    /\ UNCHANGED <<identities, trackSegments, templates, cameraRecords, transitions, ingest, nextIdentity,
                   nextSegment, cut>>
------------------------------------------------------------------------------
TrajectoryInit ==
    /\ identities = [i \in IdentityIds |-> NoIdentity]
    /\ trackSegments = [s \in SegmentIds |-> NoSegment]
    /\ templates = {} /\ transitions = {}
    /\ cameraRecords = [c \in Cameras |-> "none"]
    /\ ingest = [x \in Executions |-> Waiting]
    /\ analyst = [o \in Analysts |-> Unoccupied]
    /\ nextIdentity = 1 /\ nextSegment = 1
    /\ overlapped = FALSE /\ cut = {} /\ events = 0

TrajectoryNext ==
    \/ \E c \in Cameras : register_camera(c) \/ delete_camera(c)
    \/ \E c \in Cameras, new \in TransitionSets : set_camera_transitions(c, new)
    \/ \E x \in Executions :
        \/ ingest_run_tracks(x) \/ _candidates(x) \/ Choose(x) \/ Load(x) \/ _store_templates(x)
        \/ put_segment(x) \/ put_identity(x) \/ _prune_templates(x) \/ Ingested(x) \/ Stop(x)
    \/ \E o \in Analysts :
        \/ \E i \in IdentityIds : \E q \in SourceOrders[i] : merge_identities(o, i, q)
        \/ \E i \in IdentityIds, S \in SUBSET SegmentIds : split_identity(o, i, S)
        \/ \E i \in IdentityIds, status \in {"confirmed", "rejected"} : update_identity(o, i, status)
        \/ \E i \in IdentityIds : delete_identity(o, i)
        \/ NextSource(o) \/ Move(o) \/ Moved(o) \/ Recount(o) \/ SplitCreated(o) \/ Save(o)
        \/ delete_segments_for_identity(o) \/ DeleteIdentityRecord(o) \/ StopAnalyst(o)

TrajectorySpec == TrajectoryInit /\ [][TrajectoryNext]_trajectoryVars
------------------------------------------------------------------------------
(* Types *)

LongTermIdentity ==
    [status : {"auto", "confirmed", "rejected"}, count : 0 .. MaxSegments + 1, cameras : SUBSET Cameras,
     first : Int, last : Int, last_camera : Cameras \cup {""}]
TrajectorySegment ==
    [identity : IdentityIds, execution : Executions, camera : Cameras \cup {""}, first : Int, last : Int,
     quality : Nat, method : {"new_identity", "reid", "manual"}, feature : IdentityIds]
CameraRecord == {"none", "auto", "registered"}
CameraTransition == [from : Cameras, to : Cameras, min : Nat, max : Nat]

\* Every record keeps its type.
TrajectoryTypeOK ==
    /\ \A i \in IdentityIds : identities[i] \in LongTermIdentity \cup {NoIdentity}
    /\ \A s \in SegmentIds : trackSegments[s] \in TrajectorySegment \cup {NoSegment}
    /\ templates \subseteq SegmentIds \X IdentityIds
    /\ cameraRecords \in [Cameras -> CameraRecord]
    /\ transitions \subseteq CameraTransition
------------------------------------------------------------------------------
(* Properties *)

\* What a summary says of the segments it counts.
Exact(i) ==
    LET S == SegmentsOf(i) IN
    /\ S # {} /\ identities[i].count = Cardinality(S)
    /\ identities[i].cameras = {trackSegments[s].camera : s \in S} \ {""}
    /\ identities[i].first = Min({trackSegments[s].first : s \in S})
    /\ identities[i].last = Max({trackSegments[s].last : s \in S})
    /\ \E s \in S : trackSegments[s].last = identities[i].last /\ trackSegments[s].camera = identities[i].last_camera

\* Whatever operators and redeliveries do meanwhile, one execution of a Run never
\* matches tracklets that overlap in time to one identity; and after requests and
\* redeliveries that did not overlap, whichever they were, every template belongs to
\* the identity of its segment and, but for the identities with more segments than a
\* merge or split of them was answered, every segment belongs to an identity that
\* exists and every identity's summary is exact.
TrajectorySound ==
    /\ TrajectoryTypeOK
    /\ \A s, t \in SegmentIds :
        /\ s # t /\ NoSegment \notin {trackSegments[s], trackSegments[t]}
        /\ trackSegments[s].method # "manual" /\ trackSegments[t].method # "manual"
        /\ trackSegments[s].execution = trackSegments[t].execution
        /\ trackSegments[s].identity = trackSegments[t].identity
        => ~ _windows_overlap(Window(s), Window(t))
    /\ ~ overlapped /\ AtRestNow =>
        /\ \A i \in IdentityIds \ cut : identities[i] # NoIdentity => Exact(i)
        /\ \A s \in SegmentIds : trackSegments[s] # NoSegment /\ trackSegments[s].identity \notin cut =>
              identities[trackSegments[s].identity] # NoIdentity
        /\ \A t \in templates : trackSegments[t[1]].identity = t[2] /\ trackSegments[t[1]].feature = t[2]
===============================================================================
