SPECIFICATION Spec
CONSTANTS
    None = None
    RingSlots = 3
    RawCap = 3
    Capacity = 6
    Posters = 2
    Backpressure = TRUE
    ReaderClears = TRUE
    MaxSeq = 4
    MaxLoss = 1
CHECK_DEADLOCK FALSE
INVARIANTS ZeroCopySafe DistinctSlots AnswersTrusted NoLap NeverRefused
PROPERTY EveryBatchAnswered
