CONSTANTS
    Ids = {1, 2, 3, 4, 5}
    Content <- MCContent
    Rows <- MCEdges
    MaxChanges <- MCMaxChanges
    SeedPerChannel = 3
    FanOut = 2
    TopK = 2
    FallbackLimit = 2
    Importance <- MCImportance
    ContextLinks <- MCContextLinks
    Queries <- MCQueries
    ListCalls <- MCListCalls
    TraverseCalls <- MCTraverseCalls
    Windows <- MCWindows
    WindowDays = 80
    Texts <- MCTexts
    Fresh <- MCFresh
    Contexts <- MCContexts
    MaxCandidates = 2
    ColdStartCount = 2
    Stores <- MCStores
SPECIFICATION Spec
INVARIANTS
    TypeOK
    TracesArePaths
    NoEnergyThroughExcluded
    SpreadClosed
    MergedWithinBounds
    ResultsRanked
    StaleOnlyByRace
    PathsAreTraversed
    PagesAreExact
    TraverseExact
    CalendarAgrees
    TermsTile
    YearlessIsRecent
    RangesCapped
    LocalDayCovered
    EdgesCorroborated
CHECK_DEADLOCK FALSE
