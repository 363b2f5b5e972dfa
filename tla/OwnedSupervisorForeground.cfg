SPECIFICATION FairSpec
CONSTANTS
    None = None
    s1 = s1
    s2 = s2
    Supervisor = {s1, s2}
    Commands <- OnlyLaunch
    MaxRevision = 1
    MaxTries = 3
CHECK_DEADLOCK FALSE
PROPERTY ForegroundEnds
