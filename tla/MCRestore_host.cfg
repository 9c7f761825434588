SPECIFICATION Spec
CONSTANTS
    Jobs = {j1, j2}
    NoJob = none
    MaxCalls = 3
    Worlds <- MCWorlds
INVARIANTS
    OneRestore
    LockIsAccounted
    StagedIsKept
    LoadedOnce
PROPERTIES
    LoadRuns
CHECK_DEADLOCK FALSE
