SPECIFICATION Spec
CONSTANTS
    Processes = {p1}
    Runners = {r1, r2, r3}
    Requests = {q1}
    Deployers = {p1}
    Deployments = {d1, d2, d3}
    None = None
    Stale = 3
    Prompt = FALSE
    MaxFaults = 0
INVARIANTS AtMostOneOwner
CHECK_DEADLOCK FALSE
