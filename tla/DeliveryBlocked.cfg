SPECIFICATION MCSpec

CONSTANTS
    Loads = {l1, l2}
    Order <- MCOrder
    DateScoped <- MCDateScoped
    Days = {1, 2}
    Asked = {1}
    Versions = {1, 2}
    Ranks <- MCRanks
    NoVersion = NoVersion
    Mixed = Mixed
    Earlier = Earlier
    FullRefresh = FullRefresh
    Rewritten = {}
    Faults = {}

INVARIANTS
    RemainingTablesTried

\* every delivery may have ended
CHECK_DEADLOCK FALSE
