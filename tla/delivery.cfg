SPECIFICATION Spec
CONSTANTS
  Subscribers = {s1, s2}
  Groups = {g1}
  Conns = {k1, k2}
  BatchPush = TRUE
  Capacity = 2
  MaxId = 3
  MaxBatch = 2
  MaxLost = 3
SYMMETRY Symmetry
INVARIANTS TableSound RoundRobinFair Delivered RegisteredIsStored
