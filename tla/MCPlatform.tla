----------------------------- MODULE MCPlatform -----------------------------
(***************************************************************************)
(* The platform around a Run for TLC.  The parts share no record, so a     *)
(* behaviour exercises one of them, chosen by focus, instead of their      *)
(* product.                                                                *)
(***************************************************************************)
EXTENDS MediaAssets, Catalogue, Trajectory, Tracking

CONSTANT Focuses     \* the parts a run looks at
VARIABLE focus

Definition(digest, status) == [digest |-> digest, status |-> status]
MCInstalled == [h1 |-> [v1 |-> Definition("d1", "active"), v2 |-> Definition("d2", "draft")],
                h2 |-> [v1 |-> Definition("d1b", "draft"), v2 |-> Definition("d2b", "active")]]
MCDatasetItems == [d1 |-> [assets |-> 1, quality |-> TRUE], d2 |-> [assets |-> 1, quality |-> FALSE]]

Tracklet(first, last, quality) ==
    [first |-> first, last |-> last, quality |-> quality, frames |-> 2, embedded |-> TRUE]
MCTracklets == [t1 |-> Tracklet(0, 2, 2), t2 |-> Tracklet(1, 3, 1), t3 |-> Tracklet(2, 2, 2),
                t4 |-> [Tracklet(0, 1, 0) EXCEPT !.frames = 1]]
MCTrackRuns == [r1 |-> [camera |-> "c1", absolute |-> TRUE, base |-> <<0>>, tracks |-> <<"t4", "t1", "t2">>],
                r2 |-> [camera |-> "c2", absolute |-> TRUE, base |-> <<2, 2>>, tracks |-> <<"t3">>]]
MCTransitionSets == {{[from |-> "c1", to |-> "c2", min |-> 2, max |-> 9]}}

Video(region, lengths, persons, exact) ==
    [roi |-> region, lengths |-> lengths, persons |-> persons, exact |-> exact]
AnyVideo == Video(FALSE, <<1, 2>>, 2, 1)
MCVideos == {AnyVideo, Video(FALSE, <<3>>, 2, 1), Video(FALSE, <<2, 1>>, 2, 10),
             Video(TRUE, <<2>>, 2, 10), Video(FALSE, <<5>>, 1, 1)}
------------------------------------------------------------------------------
vars == <<focus, assetVars, catalogueVars, trajectoryVars, trackingVars>>

Init ==
    /\ focus \in Focuses
    /\ AssetInit /\ CatalogueInit /\ TrajectoryInit /\ TrackingInit
    /\ focus # "assets" => objectStore = "local" /\ lasting = {}
    /\ focus # "tracks" => video = AnyVideo

\* Two Runs at once and one request beside them, or two requests beside Runs of which
\* the second starts after the first and is delivered again.
OneDelivery == ingest'[<<"r2", 2>>] = Waiting
InTurn == ingest[<<"r1", 1>>] # Done => ingest'[<<"r2", 1>>] = Waiting

Next ==
    /\ UNCHANGED focus
    /\ \/ /\ focus = "assets" /\ AssetNext
          /\ UNCHANGED <<catalogueVars, trajectoryVars, trackingVars>>
       \/ /\ focus = "pipelines" /\ PipelineNext
          /\ UNCHANGED <<assetVars, trajectoryVars, trackingVars>>
       \/ /\ focus = "records" /\ RecordsNext
          /\ UNCHANGED <<assetVars, trajectoryVars, trackingVars>>
       \/ /\ TrajectoryNext
          /\ \/ focus = "trajectory" /\ OneDelivery /\ events' <= 1
             \/ focus = "redelivery" /\ InTurn
          /\ UNCHANGED <<assetVars, catalogueVars, trackingVars>>
       \/ /\ focus = "tracks" /\ TrackingNext
          /\ UNCHANGED <<assetVars, catalogueVars, trajectoryVars>>

Spec == Init /\ [][Next]_vars
==============================================================================
