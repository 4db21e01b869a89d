CONSTANTS
  Node = {n0, n1, n2}
  Leader = n0
  NodeZero = n0
  Thread = {t1, t2}
  Data = {d1, d2}
  NoRecord = NoRecord
  Torn = Torn
  MaxReq = 2
  MayDisconnect = TRUE
  LeaderStoreFails = TRUE
  ReplicaStoreFails = TRUE
SPECIFICATION Spec
SYMMETRY Symmetry
CHECK_DEADLOCK FALSE
PROPERTY ImplementsRSM
