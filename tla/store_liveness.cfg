CONSTANTS
  Consumers = {c1}
  MaxRetry = 2
  RingCapacity = 2
  RingTakesHuge = TRUE
  MaxPull = 2
  MaxId = 2
SPECIFICATION PollingSpec
INVARIANT OnePlace
PROPERTIES DeliveryTimesOut EveryMessageFinishes
