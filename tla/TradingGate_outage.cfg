\* Two processes, an order and a halt being set and cleared; two failed calls or
\* crashes. No symmetry: a liveness property is checked.
CONSTANTS
    p1 = p1
    p2 = p2
    a1 = a1
    a2 = a2
    z1 = z1
    o1 = o1
    o2 = o2
    u1 = u1
    Processes = {p1, p2}
    Orders = {o1}
    Activations = {}
    Resets = {}
    Triggers = {t1}
    Toggles = {u1}
    None = None
    MaxFaults = 2
    Punctual = TRUE
    LockAnswers = TRUE
SPECIFICATION FairSpec
INVARIANTS PassedWhileAllowed
PROPERTIES LatchIsLifted
CHECK_DEADLOCK FALSE
