SPECIFICATION Spec
CONSTANTS
    Containers = {"a"}
    NsPerTick = 1
    MaxNs = 3
    MaxInstances = 2
    MaxEvents = 2
    MaxPendingRouteEvents = 1
    MaxPendingLossDeltas = 1
    MaxConcurrentGenConfirms = 1
    MaxQueuedGenConfirms = 1
    MaxGenConfirmWaiters = 1
    MaxConcurrentPathResolves = 1
    MaxQueuedPathResolves = 1
    MaxPendingMountViewEvents = 1
INVARIANT KeptOnce
INVARIANT LossWithdrawsClaim
INVARIANT PendingWithdrawsClaim
CHECK_DEADLOCK FALSE
