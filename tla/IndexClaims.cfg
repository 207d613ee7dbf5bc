\* The bound on items makes the model stop.
CHECK_DEADLOCK FALSE
SPECIFICATION FairSpec
CONSTANTS
    MaxItems = 3
    MaxRoots = 1
    JobCap = 1
    QueueCap = 1
    PendCap = 1
    SampleKinds = {"clean", "empty"}
    RootsMayMix = TRUE
INVARIANTS
    NothingDroppedQuietly
PROPERTIES
    EveryObservationSettles
