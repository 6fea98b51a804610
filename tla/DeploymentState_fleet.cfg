\* One deployment: which of the two pods it is made on is a matter of names.
SPECIFICATION FairSpec
CONSTANTS
    Processes = {p1, p2}
    Runners = {r1, r2}
    Requests = {q1}
    Deployers = {p1}
    Deployments = {d1}
    None = None
    Stale = 2
    Prompt = TRUE
    MaxFaults = 3
INVARIANTS OwnerUnlessCutOff RecordedBots WatchedBots
CHECK_DEADLOCK FALSE
PROPERTIES NoStrandedClaim StopIsHonoured ImplementsBotLease
