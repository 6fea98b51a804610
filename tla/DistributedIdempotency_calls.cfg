\* Production, owners that finish within PROCESSING_TTL, results that expire.
CONSTANTS
    r1 = r1
    r2 = r2
    r3 = r3
    Requests <- ThreeRequests
    NoRequest = NoRequest
    MaxAttempts = 2
    Production = TRUE
    PromptOwners = TRUE
    ResultsLast = FALSE
SPECIFICATION FairSpec
INVARIANTS SingleExecutor ExecutorHoldsLock
PROPERTIES RecordIsTold ImplementsAtMostOneOutcome EveryCallEnds LockIsFreed
CHECK_DEADLOCK FALSE
