SPECIFICATION Spec
CONSTANTS
    Ids = {1, 2, 3}
    Threads = {t1}
    None = None
    Ops = {"write", "consolidate"}
    MaxLevel = 2
    MaxUsage = 2
    Trigger = 2
    Embeds = {TRUE}
    MaxBatch = 1
    MaxCalls = 3
    MaxAfterFault = 3
    MaxFaults = 1
INVARIANT SummaryExists
CHECK_DEADLOCK FALSE
