SPECIFICATION Spec
CONSTANTS
    None = None
    s1 = s1
    s2 = s2
    Supervisor = {s1, s2}
    Commands <- AnyCommand
    MaxRevision = 2
    MaxTries = 2
SYMMETRY Symmetry
CHECK_DEADLOCK FALSE
INVARIANTS
    ProofBeforeExec
    RunningIsRecorded
    HonestVerdict
    IntentBeforeSignal
    MetadataFollows
PROPERTIES
    HoldStopsLaunch
    VerdictIsKept
    ImplementsLifecycle
