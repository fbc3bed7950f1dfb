SPECIFICATION Spec
CONSTANTS
    Ids = {1, 2, 3}
    Threads = {t1}
    None = None
    Ops = {"write", "delete", "feedback", "retrieve", "consolidate", "reindex"}
    MaxLevel = 2
    MaxUsage = 1
    Trigger = 2
    Embeds = {TRUE, FALSE}
    MaxBatch = 1
    MaxCalls = 4
    MaxAfterFault = 4
    MaxFaults = 1
INVARIANTS VisibleIsIndexed ReindexReplays
CHECK_DEADLOCK FALSE
