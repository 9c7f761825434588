SPECIFICATION FairSpec
CONSTANTS
    Nannies = {n1, n2}
    NoNanny = NoNanny
    MaxBoots = 2
    Worlds <- MCWorlds
INVARIANTS
    OneServer
    NoStranger
    EndIsRecorded
PROPERTIES
    StopIsReal
    StopsEnd
CHECK_DEADLOCK FALSE
