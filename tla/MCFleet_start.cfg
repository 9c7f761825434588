SPECIFICATION FairSpec
CONSTANTS
    Entries = {web, api, db}
    Procs = {p1, p2, p3}
    NoProc = NoProc
    Docker = Docker
    Hidden = Hidden
    MaxCalls = 2
    Worlds <- MCWorlds
    web = web
    api = api
    db = db
    p1 = p1
    p2 = p2
    p3 = p3
INVARIANTS
    OrderRespected
    OneSupervisor
PROPERTIES
    DependencyFirst
    QuickSparesOurs
    EverythingEnds
CHECK_DEADLOCK FALSE
