SPECIFICATION Spec

CONSTANTS
    Runs = {r1}
    NTypes = 2
    Items = {1, 2, 3, 4, 5}
    Listed <- MCListed
    At <- MCAt
    DayLength = 8
    Width <- MCWidth
    PageSize = 10
    Served = 10
    MaxWaits = 1
    NoFile = NoFile
    CanDelete = FALSE
    Faults = {}

INVARIANTS
    CollectsTheDay

\* every invocation may have ended
CHECK_DEADLOCK FALSE
