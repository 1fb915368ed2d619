SPECIFICATION Spec
CONSTANTS
  Configs <- MCConfigs
  RingDepths = {0, 5}
  MaxRounds = 2
  MaxFaults = 1
  kMaxRingSlots = 4
  HeaderBytes = 8
  BlockBytes = 5
  DwordValues = 16
  NaN = NaN
INVARIANTS NothingPulledAway LeftoversExplained NothingTooEarly SlicesExclusive PoolFitsSlice RowIsTheFilter SlotsInsideMapping
CHECK_DEADLOCK FALSE
