SPECIFICATION SafeSpec
CONSTANTS
    None = None
    RingSlots = 2
    RawCap = 3
    Capacity = 6
    Posters = 1
    Backpressure = TRUE
    ReaderClears = FALSE
    MaxSeq = 3
    MaxLoss = 0
CHECK_DEADLOCK FALSE
INVARIANT AnswersWhole
