SPECIFICATION Spec
CONSTANTS
    Ids = {1, 2}
    Threads = {t1, t2}
    None = None
    Ops = {"write", "delete", "consolidate"}
    MaxLevel = 2
    MaxUsage = 2
    Trigger = 2
    Embeds = {TRUE}
    MaxBatch = 1
    MaxCalls = 4
    MaxAfterFault = 4
    MaxFaults = 0
SYMMETRY ThreadSymmetry
INVARIANT DeletedIsGone
CHECK_DEADLOCK FALSE
