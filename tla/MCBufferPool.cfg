SPECIFICATION Spec
CONSTANTS
    t1 = t1
    t2 = t2
    t3 = t3
    b1 = b1
    b2 = b2
    Threads = {t1, t2, t3}
    Buffers = {b1, b2}
    MaxFaults = 2
INVARIANTS OneOwner NoLostWakeup NoReuseUnderCopy
PROPERTIES BuffersComeBack ImplementsAtomicPool
