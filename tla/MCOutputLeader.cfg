SPECIFICATION ApplicationSpec
CHECK_DEADLOCK FALSE
CONSTANTS
  Parts = {"output"}
  TcpConn = {t1, t2}
  UdpPeer = {u1, u2}
  Fd = {1, 2}
  MaxRead = 2
  MaxCheck = 1
  MaxRequest = 5
  rsm = 1
  MaxInside = 2
  Key = {1, 2, 3, 4, 5}
  HASH_INITIAL_NUM_BUCKETS = 2
  HASH_BKT_CAPACITY_THRESH = 1
  HashFcns <- MCHashFcns
  MaxBuckets = 16
  GroupSize = 3
  LeaderId = 1
  HASH_BUFFER_SIZE = 2
  CHECK_PERIOD = 2
  CHECK_GOBACK = 2
  Streams <- MCStreams
  WriteSizes = {3, 4}
  PoolSize = 4
  Value = {1, 2}
  node_id = 1
  GroupSizes = {1, 2}
  MaxFork = 1
INVARIANT OnlyDivergedRestored
