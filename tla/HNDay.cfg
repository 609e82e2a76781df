SPECIFICATION Spec

CONSTANTS
    Runs = {r1, r2}
    Norms = {n1, n2}
    NTypes = 2
    c1 = c1
    s1 = s1
    Items = {c1, s1}
    Covered <- MCCovered
    Tables <- MCTables
    Yields <- MCYields
    NoFile = NoFile
    CanDelete = FALSE
    Faults = {"fetch"}
    NFaults = {"body", "put", "put_unacked", "kill"}

SYMMETRY FlowSymmetry

INVARIANTS
    TypeOK
    NoPartialSilver
    ReadsWhatWasPromised
    TablesAgree

\* every invocation may have ended
CHECK_DEADLOCK FALSE
