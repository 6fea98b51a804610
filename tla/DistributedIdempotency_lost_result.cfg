\* Production, prompt owners, retries within RESULT_TTL: every help the layer can get.
CONSTANTS
    r1 = r1
    r2 = r2
    r3 = r3
    Requests <- ThreeRequests
    NoRequest = NoRequest
    MaxAttempts = 2
    Production = TRUE
    PromptOwners = TRUE
    ResultsLast = TRUE
SPECIFICATION Spec
INVARIANT AnswersAgree
CHECK_DEADLOCK FALSE
