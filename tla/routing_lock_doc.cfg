SPECIFICATION Spec
CONSTANTS
  Subscribers = {s1}
  Groups = {g1}
  Conns = {1, 2}
  SendFails = TRUE
INVARIANT CloseOutsideLock
CHECK_DEADLOCK FALSE
