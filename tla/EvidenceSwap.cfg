SPECIFICATION StoresSpec
CONSTANTS
    None = None
    e1 = e1
    e3 = e3
    c1 = c1
    c2 = c2
    Evidence = {e1, e3}
    Shadow = {e1}
    Honest = {}
    KeyOf <- Keys
    Width <- Widths
    Digit = 4
    Compactor = {c1}
    MaxReceipt = 3
    MaxRefused = 1
    a = a
    b = b
    u1 = u1
    u2 = u2
    Slot = {u1, u2}
    Content = {a, b}
    Material <- Materials
    Reading <- Readings
    MaxEvents = 2
    MaxBatch = 3
    p1 = p1
    p2 = p2
    f = f
    Item = {p1, p2}
    Fact <- FactOf
    MaxRows = 1
    MaxChange = 2
    d1 = d1
    d2 = d2
    w1 = w1
    w2 = w2
    Daemon = {d1, d2}
    Worker = {w1, w2}
    MaxInput = 2
    MaxTrouble = 1
    k1 = k1
    k2 = k2
    k3 = k3
    k4 = k4
    t1 = t1
    t2 = t2
    Operation <- Operations
    MaxLines = 5
    s1 = s1
    s2 = s2
    s3 = s3
    s4 = s4
    Session = {s1, s2, s3, s4}
    Task = {1, 2, 3}
    MaxTogether = 2
    Token = {1, 2, 3, 4, 5, 6}
    Settle = 1
    MaxWait = 2
    Window = 2
    RestFactor = 2
    MaxBuild = 1
    x1 = x1
    y1 = y1
    y2 = y2
    Process = {y1, y2}
    Source = {x1}
    Selection = {{x1}}
    BuildOf <- Versions2
    StaleAfter = 0
    MaxSkips = 1
    MaxTime = 1
    MaxScan = 2
    Parts = {"spool"}
CHECK_DEADLOCK FALSE
INVARIANT
    DurableIsVisible
