SPECIFICATION Spec
CONSTANTS
    Panels = {p1, p2}
    Cmds = {c1, c2}
    NoPanel = nopanel
INVARIANTS
    UpIsRecorded
    StrangersSpared
PROPERTIES
    WaitedOnEnds
    IsALock
CHECK_DEADLOCK FALSE
