CONSTANTS
    Urls <- OneUrl
    Contents <- OneContent
    Runs <- OneRun
    Instants <- NoInstants
    MaxTime = 4
    Correctable <- Nothing
    NearWindow = 1
    FetchEvery <- MCFetchEvery
    MaxAge <- MCMaxAge
    ReopenBucket = "upcoming_far"
    RefreshLimit = 500
    Older = 499
    u1 = u1
    u2 = u2
    c1 = c1
    c2 = c2
    r1 = r1
    r2 = r2
SPECIFICATION Spec
PROPERTIES
    StaleDowngradeIsMarked
CHECK_DEADLOCK FALSE
