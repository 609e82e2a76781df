SPECIFICATION FairSpec

CONSTANTS
    Runs = {r1, r2}
    NTypes = 2
    Items = {1, 2, 3, 4, 5}
    Listed <- MCListed
    At <- MCAt
    DayLength = 8
    Width <- MCWidth
    PageSize = 1
    Served = 2
    MaxWaits = 1
    NoFile = NoFile
    CanDelete = FALSE
    Faults = {"fetch", "raise", "put", "busy"}

INVARIANTS
    TypeOK
    NothingTwice
    LossIsLogged
    PublishedFilesPresent
PROPERTIES
    ImplementsIngestion
    RunsEnd

\* every invocation may have ended
CHECK_DEADLOCK FALSE
