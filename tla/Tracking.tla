------------------------------ MODULE Tracking ------------------------------
(***************************************************************************)
(* Portrait analysis of a video: the operator takes the decoded units in   *)
(* batches, the tracker gives the persons of a batch their track_id, and   *)
(* the result collects persons and tracks over the batches.  A frame is    *)
(* the sequence of its detections; an association score is any of Scores   *)
(* (in hundredths), which stands for boxes, motion and embeddings.         *)
(* tracker numbers the tracks of one batch from 1; id 0 is no track.       *)
(***************************************************************************)
EXTENDS Integers, Sequences, FiniteSets, SequencesExt, FiniteSetsExt

CONSTANTS Videos,         \* what to analyse: with a region of interest or not, the units in each
                          \* batch of iter_batches, max_global_association_size, and as a
                          \* bound the persons in a frame
          Scores,         \* the scores a pair can have
          MinMatchScore, MaxAge, MaxFragmentGap,
          MaxTracks       \* bound: tracks of a batch

VARIABLES video, trackStage, frames, tracker, solved, envelope
trackingVars == <<video, trackStage, frames, tracker, solved, envelope>>

LowMatchScore == Max({18, MinMatchScore - 8})
NoProblem == [pairs |-> <<>>, score |-> <<>>, exact |-> TRUE]
NewTracker == [active |-> <<>>, finished |-> <<>>, next |-> 1]
Batch == envelope.batches + 1
FrameIndex == Len(frames)
------------------------------------------------------------------------------
\* make_observation and the first state of a track.
TrackState(id, index) == [id |-> id, seen |-> <<index>>, hits |-> 1, last |-> index, filled |-> {}]

update(t, index) ==
    [t EXCEPT !.seen = Append(@, index), !.hits = @ + 1, !.last = index]

first_frame_index(t) == Min(Range(t.seen))
last_frame_index(t) == Max(Range(t.seen))
------------------------------------------------------------------------------
\* The candidate is better: a higher total, more pairs, or the earlier pairs.
PairBefore(p, q) == p[1] < q[1] \/ (p[1] = q[1] /\ p[2] < q[2])

PairsBefore(ps, qs) ==
    \E i \in DOMAIN ps : PairBefore(ps[i], qs[i]) /\ \A j \in 1..(i - 1) : ps[j] = qs[j]

better(c, b) ==
    \/ c.total > b.total
    \/ c.total = b.total /\ Len(c.pairs) > Len(b.pairs)
    \/ c.total = b.total /\ Len(c.pairs) = Len(b.pairs) /\ PairsBefore(c.pairs, b.pairs)

\* Exact dynamic programming over the tracks and the detections used so far.
ExactPairs(score, allowed, tracks, detections) ==
    LET solve[t \in 1..(tracks + 1), used \in SUBSET (1..detections)] ==
            IF t > tracks THEN [total |-> 0, pairs |-> <<>>]
            ELSE FoldLeft(LAMBDA best, d :
                            IF d \in used \/ <<t, d>> \notin allowed THEN best
                            ELSE LET rest == solve[t + 1, used \union {d}]
                                     candidate == [total |-> score[t, d] + rest.total,
                                                   pairs |-> <<<<t, d>>>> \o rest.pairs]
                                 IN IF better(candidate, best) THEN candidate ELSE best,
                          solve[t + 1, used], [d \in 1..detections |-> d])
    IN solve[1, {}].pairs
------------------------------------------------------------------------------
\* The Hungarian method for larger batches: one row after another is assigned along a
\* cheapest augmenting path, with the potentials u and v.
Infinity == 100000

RECURSIVE Augmented(_, _, _)
Augmented(cost, n, h) ==
    LET row == h.match[h.column]
        used == h.used \union {h.column}
        free == (1..n) \ used
        reduced(c) == cost[row, c] - h.u[row] - h.v[c]
        shorter == {c \in free : reduced(c) < h.least[c]}
        least == [c \in 0..n |-> IF c \in shorter THEN reduced(c) ELSE h.least[c]]
        delta == Min({least[c] : c \in free})
        after == [h EXCEPT !.used = used,
                           !.before = [c \in 0..n |-> IF c \in shorter THEN h.column ELSE @[c]],
                           !.least = [c \in 0..n |-> least[c] - (IF c \in used THEN 0 ELSE delta)],
                           !.u = [r \in 0..n |-> IF \E c \in used : h.match[c] = r
                                                 THEN @[r] + delta ELSE @[r]],
                           !.v = [c \in 0..n |-> IF c \in used THEN @[c] - delta ELSE @[c]],
                           !.column = Min({c \in free : least[c] = delta})]
    IN IF after.match[after.column] = 0 THEN after ELSE Augmented(cost, n, after)

RECURSIVE Shifted(_, _, _)
Shifted(match, before, column) ==
    IF column = 0 THEN match
    ELSE Shifted([match EXCEPT ![column] = match[before[column]]], before, before[column])

AssignRow(cost, n, h, row) ==
    LET path == Augmented(cost, n, [h EXCEPT !.match[0] = row, !.column = 0, !.used = {},
                                             !.least = [c \in 0..n |-> Infinity]])
    IN [path EXCEPT !.match = Shifted(@, path.before, path.column)]

hungarian_assignment_pairs(score, allowed, tracks, detections) ==
    LET n == Max({tracks, detections})
        best == Max({score[p] : p \in allowed})
        cost == [p \in (1..n) \X (1..n) |-> IF p \in allowed THEN best - score[p] ELSE best + 100]
        zero == [c \in 0..n |-> 0]
        h == FoldLeft(LAMBDA g, row : AssignRow(cost, n, g, row),
                      [u |-> zero, v |-> zero, match |-> zero, before |-> zero,
                       least |-> zero, used |-> {}, column |-> 0],
                      [row \in 1..n |-> row])
    IN SetToSortSeq({p \in allowed : h.match[p[2]] = p[1]}, PairBefore)

ExactSize(tracks, detections) == tracks <= video.exact /\ detections <= video.exact

global_match(score, min, tracks, detections) ==
    LET allowed == {p \in DOMAIN score : score[p] >= min}
    IN IF allowed = {} THEN <<>>
       ELSE IF ExactSize(tracks, detections) THEN ExactPairs(score, allowed, tracks, detections)
       ELSE hungarian_assignment_pairs(score, allowed, tracks, detections)
------------------------------------------------------------------------------
\* The persons a request detects in a unit.
Confidences == {"high", "low", "weak"}
Persons == [conf : Confidences, inside : IF video.roi THEN BOOLEAN ELSE {TRUE}, id : {0}]
Detections == UNION {[1..n -> Persons] : n \in 0..video.persons}
WithConf(frame, conf) == SelectSeq([i \in DOMAIN frame |-> i], LAMBDA i : frame[i].conf = conf)

\* Tracks that can still be continued in this frame.
Continuable(index) == SelectSeq(tracker.active, LAMBDA t : index - t.last <= MaxAge)

\* assignment_matches and the loops that apply them: the detections matched with a track.
Matched(tracks, detections, pairs) ==
    {<<tracks[pairs[i][1]].id, detections[pairs[i][2]]>> : i \in DOMAIN pairs}

UpdatedTracks(tracks, matches, index) ==
    [i \in DOMAIN tracks |->
        IF \E m \in matches : m[1] = tracks[i].id THEN update(tracks[i], index) ELSE tracks[i]]

WithIds(frame, matches) ==
    [i \in DOMAIN frame |->
        IF \E m \in matches : m[2] = i
        THEN [frame[i] EXCEPT !.id = (CHOOSE m \in matches : m[2] = i)[1]] ELSE frame[i]]

\* First pass over a frame: the confident detections.
MatchHigh ==
    /\ trackStage = "high" /\ video.lengths[Batch] > 1
    /\ \E frame \in Detections :
          LET tracks == Continuable(FrameIndex)
              high == WithConf(frame, "high")
          IN \E score \in [(1..Len(tracks)) \X (1..Len(high)) -> Scores] :
                LET pairs == global_match(score, MinMatchScore, Len(tracks), Len(high))
                    matches == Matched(tracks, high, pairs)
                IN /\ tracker.next + Len(high) - Len(pairs) <= MaxTracks + 1
                   /\ frames' = Append(frames, WithIds(frame, matches))
                   /\ tracker' = [tracker EXCEPT !.active = UpdatedTracks(@, matches, FrameIndex)]
                   /\ solved' = [pairs |-> pairs, score |-> score, exact |-> ExactSize(Len(tracks), Len(high))]
    /\ trackStage' = "low"
    /\ UNCHANGED <<video, envelope>>

\* New tracks for the confident detections that are left, numbered in their order.
Started(tr, frame, index) ==
    LET new == SelectSeq(WithConf(frame, "high"), LAMBDA i : frame[i].id = 0)
    IN [tracker |-> [tr EXCEPT !.active = @ \o [k \in DOMAIN new |-> TrackState(tr.next + k - 1, index)],
                               !.next = @ + Len(new)],
        frame |-> WithIds(frame, {<<tr.next + k - 1, new[k]>> : k \in DOMAIN new})]

\* Tracks not seen for more than max_age frames are finished.
Retired(tr, index) ==
    [tr EXCEPT !.finished = @ \o SelectSeq(tr.active, LAMBDA t : index - t.last > MaxAge),
               !.active = SelectSeq(@, LAMBDA t : index - t.last <= MaxAge)]

\* Second pass: the tracks left over take low-confidence detections; then new tracks start and
\* old ones are finished.
MatchLow ==
    /\ trackStage = "low"
    /\ LET index == FrameIndex - 1
           frame == Last(frames)
           taken == {frame[i].id : i \in DOMAIN frame}
           tracks == SelectSeq(Continuable(index), LAMBDA t : t.id \notin taken)
           low == WithConf(frame, "low")
       IN \E score \in [(1..Len(tracks)) \X (1..Len(low)) -> Scores] :
             LET pairs == global_match(score, LowMatchScore, Len(tracks), Len(low))
                 matches == Matched(tracks, low, pairs)
                 started == Started([tracker EXCEPT !.active = UpdatedTracks(@, matches, index)],
                                    WithIds(frame, matches), index)
             IN /\ tracker' = Retired(started.tracker, index)
                /\ frames' = Append(Front(frames), started.frame)
    /\ trackStage' = IF FrameIndex = video.lengths[Batch] THEN "merge" ELSE "high"
    /\ solved' = NoProblem
    /\ UNCHANGED <<video, envelope>>

\* A batch of one unit is analysed without tracking.
Untracked ==
    /\ trackStage = "high" /\ video.lengths[Batch] = 1
    /\ \E frame \in Detections : frames' = <<frame>>
    /\ trackStage' = "convert"
    /\ UNCHANGED <<video, tracker, solved, envelope>>
------------------------------------------------------------------------------
\* Fragments that follow each other closely enough to be compared.
AllTracks(tr) == SetToSortSeq(Range(tr.finished \o tr.active), LAMBDA s, t : s.id < t.id)
Gap(left, right) == first_frame_index(right) - last_frame_index(left) - 1
Close(left, right) == last_frame_index(left) < first_frame_index(right) /\ Gap(left, right) <= MaxFragmentGap

\* Candidates by gap, then by similarity, then by their ids.
CandidateBefore(a, b) ==
    \/ a.gap < b.gap
    \/ a.gap = b.gap /\ a.quality > b.quality
    \/ a.gap = b.gap /\ a.quality = b.quality /\ PairBefore(a.ids, b.ids)

\* Mutant.
track_groups_are_temporally_compatible_Always(left, right) == TRUE

track_groups_are_temporally_compatible(left, right) ==
    LET start(g) == Min({first_frame_index(t) : t \in g})
        end(g) == Max({last_frame_index(t) : t \in g})
    IN end(left) < start(right) \/ end(right) < start(left)

\* TrackUnionFind as the partition it stands for.
Joined(groups, candidate) ==
    LET group(id) == CHOOSE g \in groups : \E t \in g : t.id = id
        left == group(candidate.ids[1])
        right == group(candidate.ids[2])
    IN IF left = right \/ ~track_groups_are_temporally_compatible(left, right) THEN groups
       ELSE (groups \ {left, right}) \union {left \union right}

\* merge_track_state of the members of a group into the earliest one.
Before(s, t) == PairBefore(<<first_frame_index(s), s.id>>, <<first_frame_index(t), t.id>>)
Primary(group) == CHOOSE t \in group : \A s \in group : s = t \/ Before(t, s)

merge_track_state(group) ==
    LET members == SetToSortSeq(group, Before)
    IN FoldLeft(LAMBDA p, s : [p EXCEPT !.hits = @ + s.hits, !.seen = @ \o s.seen,
                                        !.last = Max({@, last_frame_index(s)})],
                Head(members), Tail(members))

rewrite_merged_track_ids(frame, groups) ==
    [i \in DOMAIN frame |->
        IF frame[i].id = 0 THEN frame[i]
        ELSE [frame[i] EXCEPT !.id = Primary(CHOOSE g \in groups : \E t \in g : t.id = frame[i].id).id]]

\* postprocess_tracklets: the frames of a short gap are interpolated.
postprocess_tracklets(t) ==
    LET seen == SortSeq(t.seen, <)
        short == {i \in 1..(Len(seen) - 1) : seen[i + 1] - seen[i] - 1 <= MaxAge}
    IN [t EXCEPT !.filled = UNION {(seen[i] + 1)..(seen[i + 1] - 1) : i \in short}]

\* The similarity of a pair of fragments: 0 when appearance and motion refuse it.
merge_track_fragments ==
    /\ trackStage = "merge"
    /\ LET tracks == Range(AllTracks(tracker))
           close == {p \in tracks \X tracks : Close(p[1], p[2])}
       IN \E quality \in [close -> 0..2] :
             LET candidates == {[gap |-> Gap(p[1], p[2]), quality |-> quality[p],
                                 ids |-> <<p[1].id, p[2].id>>] : p \in {q \in close : quality[q] > 0}}
                 groups == FoldLeft(Joined, {{t} : t \in tracks}, SetToSortSeq(candidates, CandidateBefore))
                 merged == {postprocess_tracklets(merge_track_state(g)) : g \in groups}
             IN /\ frames' = [i \in DOMAIN frames |-> rewrite_merged_track_ids(frames[i], groups)]
                /\ tracker' = [tracker EXCEPT !.finished = SetToSortSeq(merged, LAMBDA s, t : s.id < t.id),
                                              !.active = <<>>]
    /\ trackStage' = "convert"
    /\ UNCHANGED <<video, solved, envelope>>
------------------------------------------------------------------------------
\* _convert_analysis_chunk keeps the persons inside the region.
_convert_analysis_chunk(frame) == SelectSeq(frame, LAMBDA p : p.inside)

\* public_dict and _with_presentation_times.
PublicTrack(t, base) ==
    [id |-> t.id, frames |-> t.hits, first |-> base + first_frame_index(t), last |-> base + t.last]

merge_track(target, incoming) ==
    [target EXCEPT !.frames = @ + incoming.frames, !.first = Min({@, incoming.first}),
                   !.last = Max({@, incoming.last})]

\* A track of a batch is new to the result, or merged into the one with its id.
Collected(list, incoming) ==
    IF \E i \in DOMAIN list : list[i].id = incoming.id
    THEN [i \in DOMAIN list |-> IF list[i].id = incoming.id THEN merge_track(list[i], incoming) ELSE list[i]]
    ELSE Append(list, incoming)

\* With a region of interest, tracks none of whose persons is inside it are left out.
KeptTracks(units) ==
    LET valid == UNION {{units[i][k].id : k \in DOMAIN units[i]} : i \in DOMAIN units}
    IN SelectSeq(tracker.finished, LAMBDA t : video.roi => t.id \in valid)

\* A batch is added to the result, which is published as a partial one.
CollectBatch ==
    /\ trackStage = "convert"
    /\ LET units == [i \in DOMAIN frames |-> _convert_analysis_chunk(frames[i])]
           base == Len(envelope.units)
           kept == KeptTracks(units)
       IN envelope' = [envelope EXCEPT
                         !.units = @ \o [i \in DOMAIN units |-> [k \in DOMAIN units[i] |-> units[i][k].id]],
                         !.tracks = FoldLeft(Collected, @, [i \in DOMAIN kept |-> PublicTrack(kept[i], base)]),
                         !.batches = @ + 1]
    /\ frames' = <<>>
    /\ tracker' = NewTracker
    /\ trackStage' = IF Batch = Len(video.lengths) THEN "done" ELSE "high"
    /\ UNCHANGED <<video, solved>>
------------------------------------------------------------------------------
TrackingInit ==
    /\ trackStage = "high" /\ video \in Videos /\ frames = <<>> /\ tracker = NewTracker
    /\ solved = NoProblem
    /\ envelope = [units |-> <<>>, tracks |-> <<>>, batches |-> 0]

TrackingNext == MatchHigh \/ MatchLow \/ Untracked \/ merge_track_fragments \/ CollectBatch
------------------------------------------------------------------------------
TrackingTypeOK ==
    /\ trackStage \in {"high", "low", "merge", "convert", "done"}
    /\ \A i \in DOMAIN frames : \A k \in DOMAIN frames[i] : frames[i][k].id \in 0..MaxTracks
    /\ \A t \in Range(tracker.active \o tracker.finished) : t.id \in 1..(tracker.next - 1)

\* The pairs found are as good as any: those of the dynamic programme have the largest total
\* score, those of the Hungarian method the largest total when every pair counts one more.
Matchings(allowed) ==
    {m \in SUBSET allowed : \A p, q \in m : p # q => p[1] # q[1] /\ p[2] # q[2]}

Weight(m) == FoldSet(LAMBDA p, sum : sum + solved.score[p] + (IF solved.exact THEN 0 ELSE 100), 0, m)

BestAssignment ==
    LET allowed == {p \in DOMAIN solved.score : solved.score[p] >= MinMatchScore}
    IN /\ Range(solved.pairs) \in Matchings(allowed)
       /\ \A m \in Matchings(allowed) : Weight(m) <= Weight(Range(solved.pairs))

\* A track was seen exactly in the frames where a person carries its id, once in each, and was
\* never out of sight for longer than the tracker or the merging of fragments bridges.
TrackFramesExact(t) ==
    LET seen == SortSeq(t.seen, <)
    IN /\ \A i \in 1..(Len(seen) - 1) : seen[i + 1] - seen[i] \in 1..Max({MaxAge, MaxFragmentGap + 1})
       /\ t.hits = Len(seen) /\ t.last = Last(seen)
       /\ Range(seen) = {i - 1 : i \in {j \in DOMAIN frames : \E k \in DOMAIN frames[j] : frames[j][k].id = t.id}}
       /\ t.filled \intersect Range(seen) = {}

OnePersonPerFrame(frame) ==
    \A i, k \in DOMAIN frame : i # k /\ frame[i].id = frame[k].id => frame[i].id = 0

\* The result's tracks describe the persons of the result.
EnvelopeExact ==
    /\ \A u \in DOMAIN envelope.units : \A k \in DOMAIN envelope.units[u] :
          envelope.units[u][k] # 0 => \E i \in DOMAIN envelope.tracks : envelope.tracks[i].id = envelope.units[u][k]
    /\ \A i \in DOMAIN envelope.tracks :
          LET t == envelope.tracks[i]
              places == {u \in DOMAIN envelope.units : t.id \in Range(envelope.units[u])}
          IN /\ places # {} /\ t.frames >= Cardinality(places)
             /\ t.first + 1 <= Min(places) /\ Max(places) <= t.last + 1
             /\ ~video.roi => /\ t.frames = Cardinality(places)
                        /\ t.first + 1 = Min(places) /\ t.last + 1 = Max(places)

\* Tracking keeps persons apart and its books straight: no two persons of a frame share a track,
\* a track's frames, hits and gaps are those of the persons that carry its id, whatever fragments
\* were merged, the assignments are optimal, and frame counts and times of the result's tracks agree
\* with the persons it lists over all batches.
TracksExact ==
    /\ TrackingTypeOK
    /\ \A i \in DOMAIN frames : OnePersonPerFrame(frames[i])
    /\ \A t \in Range(tracker.active \o tracker.finished) : TrackFramesExact(t)
    /\ BestAssignment
    /\ EnvelopeExact
==============================================================================
