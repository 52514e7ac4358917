CONSTANTS
    Discoveries <- MCDiscoveries
    Page <- RevisionPage
    Source <- RevisionSource
    Title <- RevisionTitle
    Titles <- OneTitle
    SplitChildren <- Nobody
    DraftRejects <- Nobody
    ScholarshipIds <- OneScholarship
    Linkers <- OneLinker
    Sweepers <- Nobody
    MinSources = 2
    MaxRuns <- Once
    MaxTasks <- Once
    MaxCrashes = 0
    award = award
    list = list
    pageA = pageA
    pageB = pageB
    pageC = pageC
    feedA = feedA
    feedB = feedB
    l1 = l1
    l2 = l2
    w1 = w1
SPECIFICATION Spec
CHECK_DEADLOCK FALSE
INVARIANTS
    DuplicatesPointAtOriginals
