SPECIFICATION Spec
CONSTANTS
    p1 = p1
    p2 = p2
    c1 = c1
    c2 = c2
    t1 = t1
    a = a
    b = b
    Pushers = {p1, p2}
    Poppers = {c1, c2}
    TimedPoppers = {t1}
    Items = {a, b}
    Max = 2
INVARIANT Inv
PROPERTIES ImplementsAtomicQueue
