CONSTANTS
    Jobs <- MCJobs
    Retryable <- MCRetryable
    Sessions <- OneSession
    MaxAttempts = 2
    Lease = 2
    BackoffCap = 2
    BatchLimit = 2
    SweepLimit = 1
    SlowHandlers = FALSE
    s1 = s1
    s2 = s2
SPECIFICATION Spec
INVARIANTS
    BatchSurvivesFailure
