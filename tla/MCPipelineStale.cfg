CONSTANTS
    Discoveries <- MCDiscoveries
    Page <- SplitPage
    Source <- MCSource
    Title <- SplitTitle
    Titles <- SplitTitles
    SplitChildren <- SplitChild
    DraftRejects <- ListRejected
    ScholarshipIds <- TwoScholarships
    Linkers <- OneLinker
    Sweepers <- OneSweeper
    MinSources = 2
    MaxRuns <- Once
    MaxTasks <- TwiceForFirst
    MaxCrashes = 0
    award = award
    list = list
    pageA = pageA
    pageB = pageB
    pageC = pageC
    feedA = feedA
    feedB = feedB
    l1 = l1
    l2 = l2
    w1 = w1
SPECIFICATION Spec
CHECK_DEADLOCK FALSE
PROPERTIES
    OnlyOpenTasksMakeScholarships
