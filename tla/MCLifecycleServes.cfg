SPECIFICATION Spec
CONSTANTS
    NumPoints = 1
    RingSlots = 1
    Posters = 1
    Width = 4
    Fed = {1}
    Seen = {0}
    MaxRequests = 2
    MaxBatches = 1
    MaxFaults = 0
CHECK_DEADLOCK FALSE
INVARIANT ConfiguredServes
