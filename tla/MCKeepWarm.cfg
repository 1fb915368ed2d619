SPECIFICATION Spec
CONSTANTS
    g1 = g1
    g2 = g2
    t1 = t1
    t2 = t2
    None = None
    Sessions = {g1, g2}
    Gpu = {g1, g2}
    Posters = {t1, t2}
    Quantum = 2
    Idle = 4
    InfCap = 1
    kWindow = 2
    MaxRun = 4
    MaxBatches = 3
    MaxFaults = 1
SYMMETRY Symmetry
INVARIANTS StaysWarm WindowIsLatest SummariesOnce
PROPERTY NeverTooSoon
