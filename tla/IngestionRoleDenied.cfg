SPECIFICATION Spec

CONSTANTS
    Runs = {r1}
    NTypes = 3
    c1 = c1
    c2 = c2
    s1 = s1
    Items = {c1, c2, s1}
    Covered <- MCCovered
    NoFile = NoFile
    CanDelete = FALSE
    Faults = {"put"}

SYMMETRY RunSymmetry

INVARIANTS
    FailedRunLeavesNothing

\* every invocation may have ended
CHECK_DEADLOCK FALSE
