CONSTANTS
    Jobs <- MCJobs
    Retryable <- MCRetryable
    Sessions <- MCSessions
    MaxAttempts = 3
    Lease = 3
    BackoffCap = 2
    BatchLimit = 2
    SweepLimit = 1
    SlowHandlers = TRUE
    s1 = s1
    s2 = s2
SPECIFICATION FairSpec
INVARIANTS
    TypeOK
    Recoverable
    NoRetryUnlessListed
PROPERTIES
    OnlyOldCopiesBreakTheRules
    EverySettles
