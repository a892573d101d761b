SPECIFICATION FairSpec
CONSTANTS
  Conns = {1, 2}
  ListenFd = 2
  HeartbeatEnabled = TRUE
INVARIANT DestroyedIsQuiet
PROPERTIES ShutdownEnds SilentIsDropped DisconnectIsDropped
CHECK_DEADLOCK FALSE
