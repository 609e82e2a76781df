SPECIFICATION MCSpec

CONSTANTS
    Loads = {l1, l2}
    Order <- MCOneTable
    DateScoped <- MCDateScoped
    Days = {1, 2}
    Asked = {1, 2}
    Versions = {1, 2}
    Ranks <- MCRanks
    NoVersion = NoVersion
    Mixed = Mixed
    Earlier = Earlier
    FullRefresh = FullRefresh
    Rewritten <- MCRewritten
    Faults = {"read", "statement", "net", "kill"}

PROPERTIES
    ReloadsAtomically
    DeliveriesEnd

\* every delivery may have ended
CHECK_DEADLOCK FALSE
