SPECIFICATION Spec
CONSTANTS
    Focuses = {"assets", "pipelines", "records", "trajectory", "redelivery", "tracks"}
    Assets = {"a1"}
    Sources = {"s1"}
    ObjectStores = {"local", "s3"}
    MaxAssetFaults = 2
    Hosts = {"h1", "h2"}
    Installed <- MCInstalled
    DatasetItems <- MCDatasetItems
    Searches = {"s1", "s2"}
    SearchNames = {"n1", "n2"}
    Editors = {"e1", "e2"}
    Tracklets <- MCTracklets
    TrackRuns <- MCTrackRuns
    TransitionSets <- MCTransitionSets
    Cameras = {"c1", "c2"}
    Analysts = {"o1"}
    MinQuality = 1
    MinFrames = 2
    MaxTemplates = 1
    DefaultGap = 0
    MaxIdentities = 3
    MaxSegments = 4
    ListLimit = 2
    MaxEvents = 2
    Videos <- MCVideos
    Scores = {10, 25, 30, 90}
    MinMatchScore = 28
    MaxAge = 1
    MaxFragmentGap = 2
    MaxTracks = 3
CHECK_DEADLOCK FALSE
INVARIANTS
    MediaAccounted TrajectorySound TracksExact
PROPERTY
    CatalogueLifecycle
