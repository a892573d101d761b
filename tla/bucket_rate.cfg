SPECIFICATION BucketSpec
CONSTANTS
  Unit = 3
  Settings <- MCSettings
  MaxTime = 7
INVARIANTS RateBound WaitingPays
