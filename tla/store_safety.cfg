CONSTANTS
  Consumers = {c1, c2}
  MaxRetry = 1
  RingCapacity = 1
  RingTakesHuge = TRUE
  MaxPull = 1
  MaxId = 2
SPECIFICATION Spec
SYMMETRY Symmetry
INVARIANTS TypeOK LogOrdered Provenance Retained OffsetCovers NoMessageLost IInv
PROPERTY OffsetMonotone
