SPECIFICATION Spec
CONSTANTS
    t1 = t1
    t2 = t2
    Producers = {t1, t2}
    None = None
    kQueueCapacity = 3
    kNotifyThreshold = 2
    MaxMessages = 6
CHECK_DEADLOCK FALSE
INVARIANTS InOrder DropsReported FlushedAtShutdown
PROPERTY ShutdownReturns
