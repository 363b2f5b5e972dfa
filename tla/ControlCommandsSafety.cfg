SPECIFICATION Spec
CONSTANTS
    None = None
    a1 = a1
    a2 = a2
    Client = {c1, c2}
    Attempt = {a1}
    Approval = {p1, p2}
    Command <- OneAttempt
    MaxRequest = 3
    MaxLaunch = 5
CHECK_DEADLOCK FALSE
SYMMETRY Symmetry
INVARIANTS
    ApprovedBeforeLaunch
    RejectedNeverLaunches
PROPERTY ImplementsGate
