SPECIFICATION SafeSpec
CONSTANTS
    p1 = p1
    i1 = i1
    i2 = i2
    o1 = o1
    b1 = b1
    b2 = b2
    v1 = v1
    None = None
    PrepWorkers = {p1}
    InfWorkers = {i1, i2}
    PostWorkers = {o1}
    GpuSessions = {i1}
    Buffers = {b1, b2}
    Overlays = {v1}
    RawCap = 1
    PrepCap = 1
    InfCap = 1
    MaxSeq = 3
    MaxFaults = 2
SYMMETRY Symmetry
INVARIANTS BuffersAccounted NoReuseUnderDMA LossesCounted
