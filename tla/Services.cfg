SPECIFICATION Spec
CONSTANTS
    Focuses = {"tasks", "bindings", "watchlists", "alerts", "feedback", "releases", "annotation", "datasets", "gallery", "index"}
    Supervisors = {s1, s2}
    Watchlists = {"w"}
    Bindings = {"b1"}
    MaxRevision = 4
    MaxListRevision = 2
    MaxCrashes = 1
    Evaluators = {"e1", "e2"}
    Triagers = {"t1"}
    Persons = {"p1"}
    Sightings <- MCSightings
    Cooldown = 2
    MaxAlerts = 2
    MaxCount = 2
    Curators = {g1, g2}
    Feedbacks <- MCFeedbacks
    DatasetVersions = {1, 2}
    Packages <- MCPackages
    RequiredEvidence = {"rights", "eval"}
    ReleaseStarts <- MCReleaseStarts
    FeedbackStores = {"memory", "postgres"}
    DataRequests = {"q1", "q2"}
    AssetsOf <- MCAssetsOf
    CoreAssets = {"a1", "a2", "a4"}
    RefusedRefs = {"a4"}
    MaxRetries = 1
    MaxFaults = 2
    MaxRepeats = 1
    VersionNames = {"1.0.0"}
    Manifests <- MCManifests
    Subjects = {"i1"}
    Faces <- MCFaces
    FeatureStores = {"memory", "postgres", "qdrant"}
    GalleryClock = 1
    MaxRestarts = 1
    Records <- MCRecords
    Attempts <- MCAttempts
    IndexStores = {"memory", "postgres"}
    CreatedAt = {1, 2}
    PageSize = 1
    HitLimit = 1
    FetchLimit = 1
    Cutoff = 1
    MaxSearches = 1
    IndexClock = 1
SYMMETRY MCSymmetry
CHECK_DEADLOCK FALSE
INVARIANTS
    TaskSessionsSound AlertsExact
    ManifestItemsApproved SubmittedComplete
    GallerySound IndexExact
PROPERTY
    ReleaseLifecycle
