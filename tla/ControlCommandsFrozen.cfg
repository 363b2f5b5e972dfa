SPECIFICATION Spec
CONSTANTS
    None = None
    a1 = a1
    a2 = a2
    Client = {c1, c2}
    Attempt = {a1, a2}
    Approval = {p1}
    Command <- WithRetry
    MaxRequest = 2
    MaxLaunch = 5
CHECK_DEADLOCK FALSE
SYMMETRY Symmetry
PROPERTY FrozenAgent
