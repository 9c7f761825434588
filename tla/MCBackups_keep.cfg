SPECIFICATION BackupFairSpec
CONSTANTS
    a1 = a1
    a2 = a2
    a3 = a3
    b1 = b1
    b2 = b2
    Scheduled = {a1, a2, a3}
    Manual = {b1, b2}
    Keep <- KeepOne
    Interval = 1
    MaxDeaths = 1
    MaxAtOnce = 1
    Settings <- WorldsTried
INVARIANTS
    LiveTreeSpared
PROPERTIES
    BackupStays
    ScheduleComes
CHECK_DEADLOCK FALSE
