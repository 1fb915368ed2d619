SPECIFICATION Spec
CONSTANTS
    NumPoints = 2
    RingSlots = 2
    Posters = 2
    Width = 4
    Fed = {1}
    Seen = {0, 6}
    MaxRequests = 3
    MaxBatches = 2
    MaxFaults = 1
CHECK_DEADLOCK FALSE
INVARIANTS NoUseAfterFree AcknowledgedState NothingPassedOver StaleOnlyAnswered
PROPERTY RequestsAnswered
