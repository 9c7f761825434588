SPECIFICATION Spec
CONSTANTS
    Pids = {p1, p2}
    NoPid = NoPid
    Tasks = {t1, t2}
    MaxRetries = 1
    RestartEnabled = TRUE
    Autostart = TRUE
    HasPort = TRUE
    MarkerReadable = TRUE
    Compose = TRUE
    SweepHolders = TRUE
    SurvivesKill = TRUE
    StopsOverlap = TRUE
    p1 = p1
    p2 = p2
    t1 = t1
    t2 = t2
INVARIANTS
    TypeOK
    AtMostOneLive
    NoStrangerSupervised
PROPERTIES
    HandleSpec
