SPECIFICATION Spec
CONSTANTS
    Ids = {1, 2, 3}
    None = None
    MaxLevel = 3
    ObsLevel = 2
    Threshold = 1
    MaxCandidates = 2
    DegreeLimit = 2
    Trigger = 2
    MaxDoublings = 1
    MaxUsed = 3
    MaxRejected = 1
    MaxCount = 2
    MaxDay = 1
    MaxCalls = 5
INVARIANT NoSelfLoop
CHECK_DEADLOCK FALSE
