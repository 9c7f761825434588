SPECIFICATION FairSpec
CONSTANTS
    Procs = {p1, p2, p3}
    NoProc = NoProc
    Tasks = {t1, t2}
    MaxRetries = 1
    RestartEnabled = TRUE
    Threshold = 2
    MaxAsks = 1
    Worlds <- MCWorlds
    p1 = p1
    p2 = p2
    p3 = p3
    t1 = t1
    t2 = t2
INVARIANTS
    BudgetBoundsRestarts
PROPERTIES
    ForcedOncePerProcess
    SickEntryStops
