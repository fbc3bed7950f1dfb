SPECIFICATION FairSpec
CONSTANTS
    Ids = {1, 2}
    Threads = {t1, t2}
    None = None
    Ops = {"write", "delete", "feedback", "retrieve", "consolidate", "reindex"}
    MaxLevel = 2
    MaxUsage = 2
    Trigger = 2
    Embeds = {TRUE}
    MaxBatch = 2
    MaxCalls = 3
    MaxAfterFault = 3
    MaxFaults = 0
PROPERTY CallsReturn
CHECK_DEADLOCK FALSE
