SPECIFICATION Spec
CONSTANTS
  Subscribers = {s1, s2}
  Groups = {g1}
  Conns = {1, 2}
  SendFails = TRUE
SYMMETRY Symmetry
CHECK_DEADLOCK FALSE
INVARIANTS ConnectionsSound SelectedIsRoutable BroadcastReaches
