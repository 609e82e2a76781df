SPECIFICATION FairSpec

CONSTANTS
    ExecTimeout = 1800
    TaskTimeout = 360
    NotifyTimeout = 60
    LambdaTimeout = 300
    NotifierTimeout = 30
    TaskRetries = 3
    NotifyRetries = 2
    Waits <- MCWaits
    Durations = {300, 400}
    NotifierDurations = {5, 30, 90}
    Days <- MCDays
    NoDate = NoDate
    Input = NoDate

INVARIANTS
    TypeOK
    OneDay
    OnlyACancelledBranchRunsOn
    OnlyRetriesCutOff
PROPERTIES
    FailureEnds

\* an execution ends
CHECK_DEADLOCK FALSE
