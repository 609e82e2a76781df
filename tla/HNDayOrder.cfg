SPECIFICATION Spec

CONSTANTS
    Runs = {r1}
    Norms = {n1, n2}
    NTypes = 2
    c1 = c1
    s1 = s1
    Items = {c1, s1}
    Covered <- MCCovered
    Tables <- MCTables
    Yields <- MCYields
    NoFile = NoFile
    CanDelete = FALSE
    Faults = {}
    NFaults = {}

PROPERTIES
    RerunOverwritesTheSame

\* every invocation may have ended
CHECK_DEADLOCK FALSE
