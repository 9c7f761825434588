SPECIFICATION Spec
CONSTANTS
    Tables = {good, bad}
    Refuses = {bad}
    Unset = unset
    Staged = staged
    MaxNannies = 2
    MaxCalls = 2
    MaxFailures = 2
    Ticks = {tick, next}
    Worlds <- MCWorlds
INVARIANTS
    FilesFollowEngine
    EngineIsRecorded
    OneEngine
    OffIsOff
PROPERTIES
    CertificateServed
    CallsEnd
CHECK_DEADLOCK FALSE
