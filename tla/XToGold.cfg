SPECIFICATION MCSpec

CONSTANTS
    Days <- MCDays
    XNorms = {x1, x2}
    Csv <- MCCsv
    NoName = NoName
    UserId <- MCUserId
    WriteOrder <- MCWriteOrder
    XFaults = {"head", "list", "get", "put", "put_unacked", "kill"}
    GRuns = {g1, g2}
    Earlier = Earlier
    Steps <- MCSteps
    QTables <- MCQTables
    TopN = 2
    GFaults = {"read", "compute", "write", "kill"}
    HNFiles <- MCHNFiles
    MaxFaults = 1

SYMMETRY FlowSymmetry

INVARIANTS
    TypeOK
    NothingClobbered
    ProcessedDayIsWhole
    NothingVanishes
    RerunReplaces
    SummaryIsTrue
    GoldIsTrue

\* every invocation may have ended
CHECK_DEADLOCK FALSE
