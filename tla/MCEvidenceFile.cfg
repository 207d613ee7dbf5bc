\* The bounds on writes and time make the model stop.
CHECK_DEADLOCK FALSE
SPECIFICATION Spec
CONSTANTS
    MaxWrites = 3
    BodyLens = {1, 2}
    MaxTime = 2
    StalenessThreshold = 1
    WritesMayFail = TRUE
INVARIANTS ReadsWholeSnapshot QuietReadSucceeds
PROPERTIES LoadsMoveForward
