SPECIFICATION MCSpec

CONSTANTS
    Loads = {l1, l2}
    Order <- MCOrder
    DateScoped <- MCDateScoped
    Days = {1, 2}
    Asked = {1}
    Versions = {1, 2}
    Ranks <- MCRanks
    NoVersion = NoVersion
    Mixed = Mixed
    Earlier = Earlier
    FullRefresh = FullRefresh
    Rewritten <- MCRewritten
    Faults = {"read", "statement", "net"}

INVARIANTS
    TypeOK
    OneVersionShown
    ReportIsTrue
    NoDeadlock
PROPERTIES
    LoadedAsReported

\* every delivery may have ended
CHECK_DEADLOCK FALSE
