\* One process, two orders, two activations and a reset, each used again and
\* again; one failed call or crash. t1, the one trigger, is a model value.
CONSTANTS
    p1 = p1
    p2 = p2
    a1 = a1
    a2 = a2
    z1 = z1
    o1 = o1
    o2 = o2
    u1 = u1
    Processes = {p1}
    Orders = {o1, o2}
    Activations = {a1, a2}
    Resets = {z1}
    Triggers = {t1}
    Toggles = {}
    None = None
    MaxFaults = 1
    Punctual = TRUE
    LockAnswers = TRUE
SPECIFICATION Spec
INVARIANTS PassedWhileAllowed UnreviewedHaltStands
SYMMETRY Symmetry
CHECK_DEADLOCK FALSE
