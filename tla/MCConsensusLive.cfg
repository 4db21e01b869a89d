CONSTANTS
  Node = {n0, n1, n2}
  Leader = n0
  NodeZero = n0
  Thread = {t1, t2}
  Data = {d1}
  NoRecord = NoRecord
  Torn = Torn
  MaxReq = 2
  MayDisconnect = FALSE
  LeaderStoreFails = FALSE
  ReplicaStoreFails = FALSE
SPECIFICATION LiveSpec
PROPERTIES EverySubmitReturns NextRequestDelivers
CHECK_DEADLOCK FALSE
