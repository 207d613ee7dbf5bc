SPECIFICATION LiveSpec
CONSTANTS
    Containers = {"a"}
    NsPerTick = 2
    MaxNs = 4
    MaxInstances = 2
    MaxEvents = 1
    MaxPendingRouteEvents = 1
    MaxPendingLossDeltas = 1
    MaxConcurrentGenConfirms = 1
    MaxQueuedGenConfirms = 1
    MaxGenConfirmWaiters = 1
    MaxConcurrentPathResolves = 1
    MaxQueuedPathResolves = 1
    MaxPendingMountViewEvents = 1
INVARIANT UsedByItsOwner
PROPERTY EverySettles
CHECK_DEADLOCK FALSE
