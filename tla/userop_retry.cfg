SPECIFICATION TrackingSpec
CONSTANTS
  MaxLaunches = 2
  MaxTroubles = 1
INVARIANT SuccessIsReal
CHECK_DEADLOCK FALSE
