SPECIFICATION Spec
CONSTANTS
  Producers = {p1}
  Waiting = {}
  MaxSeq = 2
  MaxWire = 2
  Threads = 2
  MaxBatch = 1
  Unit = 2
  ConnRate = 1
  GlobalRate = 2
  Burst = 2
  MaxTime = 2
INVARIANT DuplicateWasStored
CHECK_DEADLOCK FALSE
