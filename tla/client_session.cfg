SPECIFICATION FairClientSpec
CONSTANTS
  ClientHeartbeat = TRUE
  Interval = 2
  Timeout = 6
  Slack = 1
  Delay = 3
  MaxSessions = 2
INVARIANT LiveIsKept
PROPERTIES LossIsNoticed DisconnectReturns
CHECK_DEADLOCK FALSE
