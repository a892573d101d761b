SPECIFICATION Spec
CONSTANTS
  Producers = {p1, p2}
  Waiting = {p1}
  MaxSeq = 3
  MaxWire = 2
  Threads = 3
  MaxBatch = 2
  Unit = 2
  ConnRate = 1
  GlobalRate = 2
  Burst = 3
  MaxTime = 1
INVARIANTS StoredAtMostOnce ConfirmedIsStored WindowTracksStore RatesBounded
CHECK_DEADLOCK FALSE
