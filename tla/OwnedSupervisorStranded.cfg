SPECIFICATION Spec
CONSTANTS
    None = None
    s1 = s1
    s2 = s2
    Supervisor = {s1, s2}
    Commands <- LaunchAndReconcile
    MaxRevision = 1
    MaxTries = 2
CHECK_DEADLOCK FALSE
INVARIANT
    RecoveryKeepsWatch
