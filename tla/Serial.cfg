SPECIFICATION Spec
CONSTANTS
    Ids = {1, 2, 3}
    Threads = {t1}
    None = None
    Ops = {"write", "delete", "feedback", "retrieve", "consolidate"}
    MaxLevel = 2
    MaxUsage = 0
    Trigger = 2
    Embeds = {TRUE}
    MaxBatch = 1
    MaxCalls = 6
    MaxAfterFault = 6
    MaxFaults = 0
INVARIANTS OverlayAgrees DeletedIsGone SummaryExists FulltextComplete CascadeCuts
CHECK_DEADLOCK FALSE
