CONSTANTS
    Urls <- OneUrl
    Contents <- TwoContents
    Runs <- OneRun
    Instants <- NoInstants
    MaxTime = 2
    Correctable <- StatusOnly
    NearWindow = 1
    FetchEvery <- MCFetchEvery
    MaxAge <- MCMaxAge
    ReopenBucket = "upcoming_far"
    RefreshLimit = 500
    Older = 499
    Events = {1, 2, 3}
    Dispatchers <- MCDispatchers
    DispatchLimit = 2
    MaxDispatchAttempts = 2
    MaxDeaths = 2
    u1 = u1
    u2 = u2
    c1 = c1
    c2 = c2
    r1 = r1
    r2 = r2
    s1 = s1
    d1 = d1
    d2 = d2
SPECIFICATION StoresSpec
SYMMETRY ContentSymmetry
INVARIANTS
    TypeOK
    OpenOnlyIfVouched
PROPERTIES
    WithdrawalIsFinal
    ImplementsLifecycle
    ImplementsDelivery
CHECK_DEADLOCK FALSE
