----------------------------- MODULE MCServices -----------------------------
(***************************************************************************)
(* The domain services for TLC.  They share no record, so a behaviour      *)
(* exercises one of them, chosen by focus, instead of their product.       *)
(***************************************************************************)
EXTENDS SurveillanceTasks, SurveillanceAlerts, ModelGovernance, DataPlatform,
        PortraitGallery, SearchIndex, TLC

CONSTANT Focuses     \* the services a run looks at
VARIABLE focus

\* Requests of one kind are alike.
MCSymmetry == Permutations(Supervisors) \cup Permutations(Curators)

MCSightings == {[first |-> 0, last |-> 0], [first |-> 1, last |-> 2], [first |-> 1, last |-> 4]}

Feedback(authorized, sensitive, domain) ==
    [authorized |-> authorized, deidentified |-> TRUE, sensitive |-> sensitive,
     domain |-> domain, kind_domains |-> {"ocr", "fashion"}]
MCFeedbacks == [f1 |-> Feedback(TRUE, FALSE, "ocr"), f2 |-> Feedback(TRUE, FALSE, "fashion"),
                f3 |-> Feedback(FALSE, TRUE, "ocr")]

Package(model, version, ready) ==
    [model |-> model, version |-> version, capability |-> "det", legacy |-> FALSE,
     ready |-> ready, evidence |-> IF ready THEN {"rights", "eval"} ELSE {"rights"}]
MCPackages == [p1 |-> Package("m1", 1, TRUE), p2 |-> Package("m1", 2, TRUE),
               p3 |-> Package("m2", 1, TRUE), p4 |-> Package("m2", 2, FALSE)]
MCReleaseStarts ==
    {[p1 |-> "retired", p2 |-> "active", p3 |-> "approved", p4 |-> "none"]}

MCAssetsOf == [q1 |-> {"a1", "a2"}, q2 |-> {"a1", "a3"}]
HardSample(id, media) == [feedback |-> id, media |-> media]
MCManifests ==
    [m1 |-> [items |-> <<HardSample("f1", "a2")>>, authorized |-> TRUE],
     m2 |-> [items |-> <<HardSample("f3", "a1")>>, authorized |-> FALSE],
     m3 |-> [items |-> <<HardSample("f2", "a1"), HardSample("f3", "a4")>>, authorized |-> TRUE]]

FaceContract(model, threshold) == [dimension |-> 2, model |-> model, threshold |-> threshold]
Face(contract, image, expires_at) ==
    [identity |-> "i1", space |-> "s1", contract |-> contract, image |-> image,
     named |-> FALSE, expires_at |-> expires_at]
MCFaces == [e1 |-> Face(FaceContract("m1", "0.8"), TRUE, 0), e2 |-> Face(FaceContract("m2", "none"), FALSE, 1)]

IndexRecord(place, index, score, expires_at, media) ==
    [run |-> "r1", asset |-> "a1", index |-> index, score |-> score, expires_at |-> expires_at,
     vector |-> index = "face", media |-> media, position |-> "video", place |-> place]
MCRecords == [x1 |-> IndexRecord(2, "ocr", 2, 0, "video"), x2 |-> IndexRecord(1, "ocr", 2, 1, "image"),
              x3 |-> IndexRecord(3, "face", 0, 0, "image")]
MCAttempts == [t1 |-> [run |-> "r1", records |-> {"x1", "x2"}],
               t2 |-> [run |-> "r1", records |-> {"x1", "x3"}]]
------------------------------------------------------------------------------
vars == <<focus, taskVars, alertVars, governanceVars, dataVars, galleryVars, indexVars>>

Init ==
    /\ focus \in Focuses
    /\ TaskInit /\ AlertInit /\ GovernanceInit /\ DataInit /\ GalleryInit /\ IndexInit
    /\ focus # "releases" => feedbackStore = "memory"
    /\ focus # "gallery" => featureStore = "memory"
    /\ focus # "index" => indexStore = "memory"

\* The watchlists change before there are sessions.  Requests die beside a schedule
\* that is open, or bindings are replaced and the schedule closes beside ones that do not.
Dying == open' /\ \A c \in Supervisors : sreq'[c].at # "update"
Replacing == UNCHANGED crashes

Next ==
    /\ UNCHANGED focus
    /\ \/ /\ TaskNext
          /\ \/ focus = "watchlists" /\ streams' = << >>
             \/ /\ task = NoRecord \/ UNCHANGED watchlists
                /\ \/ focus = "tasks" /\ Dying
                   \/ focus = "bindings" /\ Replacing
          /\ UNCHANGED <<alertVars, governanceVars, dataVars, galleryVars, indexVars>>
       \/ /\ focus = "alerts" /\ AlertNext
          /\ UNCHANGED <<taskVars, governanceVars, dataVars, galleryVars, indexVars>>
       \/ /\ focus = "feedback" /\ FeedbackNext
          /\ UNCHANGED <<taskVars, alertVars, dataVars, galleryVars, indexVars>>
       \/ /\ focus = "releases" /\ ReleaseNext
          /\ UNCHANGED <<taskVars, alertVars, dataVars, galleryVars, indexVars>>
       \/ /\ DataNext
          /\ \/ focus = "annotation" /\ UNCHANGED <<versions, intakes>>
             \/ focus = "datasets" /\ UNCHANGED dtasks
          /\ UNCHANGED <<taskVars, alertVars, governanceVars, galleryVars, indexVars>>
       \/ /\ focus = "gallery" /\ GalleryNext
          /\ UNCHANGED <<taskVars, alertVars, governanceVars, dataVars, indexVars>>
       \/ /\ focus = "index" /\ IndexNext
          /\ UNCHANGED <<taskVars, alertVars, governanceVars, dataVars, galleryVars>>

Spec == Init /\ [][Next]_vars
==============================================================================
