CONSTANTS
    Callers <- MCCallers
    Limit = 2
    Window = 3
    MaxClock = 6
    Harvesters <- MCHarvesters
    Fetchers <- MCFetchers
    MonthlyLimit <- MCMonthlyLimit
    Queries = 2
    MaxMonth = 1
    Places = 2
    Calls <- MCCalls
    Harvests <- MCHarvesters
    MaxHarvests = 3
    Sources <- MCSources
    Urls = {"u", "v"}
    Contents <- MCContents
    Importers <- MCImporters
    File <- MCFile
    Harvested <- MCHarvested
    MaxRuns = 3
    MaxSplits = 1
    Found = {1, 2, 3}
    Versions = {"v1"}
    Claims = {"claim"}
    Outcomes = {"done"}
    Walkers <- MCWalkers
    PageSizes = {1, 2}
    Facts = {"f1", "f2", "f3"}
    Profiles = {"pA"}
    MatchingFacts <- MCMatchingFacts
    Requests <- MCRequests
    Countries <- MCCountries
    Covered <- MCCovered
    DegreeCode <- MCDegreeCode
    FieldCode <- MCFieldCode
    Deadlines = {"june"}
    SearchProfiles <- MCSearchProfiles
    CycleInputs <- MCCycleInputs
    Edits <- MCEdits
    StoredByHand <- MCStoredByHand
    Cases <- MCCases
    Feeds <- MCFeeds
    Supported <- MCSupported
    MinSources = 2
    PageMustAgree = TRUE
    Today = 1
    Searches <- OneSearch
    Cycles <- MCCycles
    Visitors <- MCVisitors
    Filters <- MCFilters
    Limits <- MCLimits
    Keys <- MCKeys
    Catalogue <- MCCatalogue
    Corrections <- MCCorrections
    ScanLimit = 3
    SoonWindow = 1
    MonthLength = 2
    SessionTTL = 1
    SearchRetention = 1
    MaxSessions = 2
    MaxTime = 1
    v1 = v1  v2 = v2  anyFilter = anyFilter  aKey = aKey
    sA = sA  c1 = c1  c2 = c2  i1 = i1  i2 = i2  h1 = h1  h2 = h2
    f1 = f1  k1 = k1  k2 = k2  w1 = w1  r1 = r1  r2 = r2
SPECIFICATION ServicesSpec
SYMMETRY VisitorSymmetry
CHECK_DEADLOCK FALSE
INVARIANTS
    AllTypesOK
    NoWindowExceeded
    CountsTheWindow
    BudgetHolds
    SpendFollowsGrant
    CounterIsStreak
    OneDiscoveryPerContent
    EveryRecordAccounted
    EveryRowArrives
    LineageIsTree
    WalkMissesNothing
    ExplanationFits
    FitIsHonest
    SearchAgreesWithDetail
    PublishedFactsAreStable
    ApprovalIsEvidenced
    ReplayTellsWhatWasSent
    PagesJoinUp
    EventIffRecorded
    HandoversAreBacked
PROPERTIES
    ImplementsHistory
