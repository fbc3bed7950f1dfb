SPECIFICATION Spec
CONSTANTS
    Ids = {1, 2, 3}
    Threads = {t1}
    None = None
    Ops = {"write", "delete"}
    MaxLevel = 2
    MaxUsage = 2
    Trigger = 2
    Embeds = {TRUE}
    MaxBatch = 2
    MaxCalls = 4
    MaxAfterFault = 4
    MaxFaults = 0
INVARIANT NoEdgeToDeleted
CHECK_DEADLOCK FALSE
