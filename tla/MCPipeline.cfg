CONSTANTS
    Discoveries <- MCDiscoveries
    Page <- SplitPage
    Source <- MCSource
    Title <- SplitTitle
    Titles <- SplitTitles
    SplitChildren <- SplitChild
    DraftRejects <- ListRejected
    ScholarshipIds <- OneScholarship
    Linkers <- TwoLinkers
    Sweepers <- OneSweeper
    MinSources = 2
    MaxRuns <- TwiceForFirst
    MaxTasks <- TwiceForFirst
    MaxCrashes = 1
    award = award
    list = list
    pageA = pageA
    pageB = pageB
    pageC = pageC
    feedA = feedA
    feedB = feedB
    l1 = l1
    l2 = l2
    w1 = w1
SPECIFICATION Spec
SYMMETRY LinkerSymmetry
CHECK_DEADLOCK FALSE
INVARIANTS
    TypeOK
    StateIsBacked
    NoReportIsLost
    AutoApprovedIsCorroborated
PROPERTIES
    LinkRunIsExclusive
