\* The bound on items makes the model stop.
CHECK_DEADLOCK FALSE
SPECIFICATION Spec
CONSTANTS
    MaxItems = 2
    MaxRoots = 2
    JobCap = 1
    QueueCap = 1
    PendCap = 1
    SampleKinds = {"clean", "partial", "denied", "rootless"}
    RootsMayMix = FALSE
INVARIANTS
    AnswersAreTheirOwn
    SamplesMatchIndexRoot
    LookupsMeetTheirEpoch
