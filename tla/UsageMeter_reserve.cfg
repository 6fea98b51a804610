\* Three requests against an allowance of two; rows up to two beyond the limit, so
\* that what happens beyond it is reached; two faults, any number of flushes.
CONSTANTS
    c1 = c1
    c2 = c2
    c3 = c3
    Calls = {c1, c2, c3}
    Limit = 2
    MaxRows = 4
    MaxFaults = 2
SPECIFICATION Spec
INVARIANTS AdmittedWithinLimit RefusedWhenFull
SYMMETRY Symmetry
CHECK_DEADLOCK FALSE
