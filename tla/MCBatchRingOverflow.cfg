SPECIFICATION Spec
CONSTANTS
    None = None
    RingSlots = 2
    RawCap = 1
    Capacity = 6
    Posters = 2
    Backpressure = TRUE
    ReaderClears = TRUE
    MaxSeq = 3
    MaxLoss = 0
CHECK_DEADLOCK FALSE
PROPERTY EveryBatchAnswered
