SPECIFICATION FairSpec

CONSTANTS
    Runs = {r1, r2}
    NTypes = 3
    c1 = c1
    c2 = c2
    s1 = s1
    Items = {c1, c2, s1}
    Covered <- MCCovered
    NoFile = NoFile
    CanDelete = TRUE
    Faults = {"fetch", "raise", "put", "put_unacked", "kill"}

INVARIANTS
    TypeOK
    OnlyRollbackUnpublishes
    OnlyUnackedPutSurvives
PROPERTIES
    MarkerComesLast
    RunsEnd

\* every invocation may have ended
CHECK_DEADLOCK FALSE
