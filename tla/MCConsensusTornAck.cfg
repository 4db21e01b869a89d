CONSTANTS
  Node = {n0, n1, n2, n3}
  Leader = n1
  NodeZero = n0
  Thread = {t1}
  Data = {d1}
  NoRecord = NoRecord
  Torn = Torn
  MaxReq = 1
  MayDisconnect = FALSE
  LeaderStoreFails = FALSE
  ReplicaStoreFails = FALSE
SPECIFICATION Spec
SYMMETRY Symmetry
CHECK_DEADLOCK FALSE
INVARIANT QuorumStored
