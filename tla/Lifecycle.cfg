CONSTANTS
    Handles = {h1, h2, h3}
    Docs = {d1, d2}
    MaxSteps = 2
    NoHandle = NoHandle
SPECIFICATION FairSpec
INVARIANTS
    TypeOK
    ClosedQuiesces
    ClosedIsComplete
    LockReleased
PROPERTIES
    CloseReturns
    ConsolidationRecurs
