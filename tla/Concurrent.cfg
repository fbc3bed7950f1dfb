SPECIFICATION Spec
CONSTANTS
    Ids = {1, 2}
    Threads = {t1, t2}
    None = None
    Ops = {"write", "delete", "feedback", "retrieve", "consolidate", "reindex"}
    MaxLevel = 2
    MaxUsage = 1
    Trigger = 1
    Embeds = {TRUE}
    MaxBatch = 1
    MaxCalls = 4
    MaxAfterFault = 3
    MaxFaults = 1
SYMMETRY ThreadSymmetry
INVARIANTS TypeOK ThreadsCarryLogged DerivedFromLog AckedDurable
PROPERTY ImplementsDurableMemory
CHECK_DEADLOCK FALSE
