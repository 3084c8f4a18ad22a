CONSTANTS
    p1 = p1
    p2 = p2
    p3 = p3
    Processes = {p1, p2, p3}
    Versions = 3
SPECIFICATION Spec
INVARIANTS
    LedgerTellsTheSchema
    FinishedMeansMigrated
