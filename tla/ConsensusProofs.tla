-------------------------- MODULE ConsensusProofs --------------------------
(***************************************************************************)
(* Proofs about Consensus, for any group, any number of threads and any    *)
(* bound on the requests: its invariant; what the group guarantees to the  *)
(* applications, a committed request being in the databases of a majority, *)
(* if store_record does not fail on replicas and the leader is node 0; and *)
(* that Consensus implements RSM, all nodes executing one order of         *)
(* requests.                                                               *)
(***************************************************************************)
EXTENDS Consensus, FiniteSetTheorems, TLAPS

\* A leaf is for Zenon unless it names another prover.
USE Zenon

\* The invariant holds before the first request.
LEMMA InitIInv == Init => IInv
  <1> SUFFICES ASSUME Init PROVE IInv
    OBVIOUS
  <1> USE NodeAssumption, BoundAssumption, DataAssumption DEF Init, Replica, Slot
  <1>1. TypeOK
    BY SMTT(30) DEF TypeOK, NoEntry
  <1>2. NumbersInv
    BY SMTT(30) DEF NumbersInv, IncrementNotLost
  <1>3. EntryInv
    BY SMTT(30) DEF EntryInv, Settled, NoEntry
  <1>4. PostedOnceInv
    BY DEF PostedOnceInv
  <1>5. ExecInv
    BY SMTT(30) DEF ExecInv, ExecutedOf
  <1> QED
    BY <1>1, <1>2, <1>3, <1>4, <1>5 DEF IInv

\* One step of any thread, replica or RDMA write keeps the types.
LEMMA TypeStep == IInv /\ [Next]_vars => TypeOK'
  <1> SUFFICES ASSUME IInv, [Next]_vars PROVE TypeOK'
    OBVIOUS
  <1> USE NodeAssumption, BoundAssumption, DataAssumption DEF Replica, Slot
  <1>0. TypeOK /\ NumbersInv /\ EntryInv /\ ExecInv
    BY DEF IInv
  <1>req. \A t \in Thread : pc[t] # "idle" => req[t] \in Slot
    <2>1. /\ req \in [Thread -> 0..MaxReq]
          /\ committed[Leader] \in 0..MaxReq
      BY <1>0 DEF TypeOK
    <2> QED
      BY <1>0, <2>1, SMTT(30) DEF NumbersInv
  <1>entry. entry \in [Slot -> [data : Data \cup {NoRecord}, canbe : 0..MaxReq]]
    BY <1>0 DEF TypeOK
  <1>db. db \in [Node -> [Slot -> Data \cup {NoRecord, Torn}]]
    BY <1>0 DEF TypeOK
  <1>commit. committed \in [Node -> 0..MaxReq]
    BY <1>0 DEF TypeOK
  <1>seen. seen \in [Node -> 0..MaxReq]
    BY <1>0 DEF TypeOK
  <1>ack. ack \in [Replica -> [Slot -> {"none", "posted", "stamp", "full"}]]
    BY <1>0 DEF TypeOK
  <1>rep. /\ rpc \in [Replica -> {"scan", "exec", "crashed"}]
          /\ end \in [Replica -> 1..MaxReq + 1]
          /\ index \in [Replica -> 0..MaxReq]
    BY <1>0 DEF TypeOK
  <1>1. ASSUME NEW t \in Thread, Submit(t) PROVE TypeOK'
    <2>1. seen[Leader] + 1 \in 0..MaxReq
      BY <1>0, <1>1, SMTT(30) DEF TypeOK, Submit
    <2>2. seen' \in [Node -> 0..MaxReq] /\ req' \in [Thread -> 0..MaxReq]
      BY <1>0, <1>1, <2>1 DEF TypeOK, Submit
    <2>3. pc' \in [Thread -> {"idle", "fill", "post", "poll", "turn", "incr"}]
      BY <1>0, <1>1 DEF TypeOK, Submit
    <2> QED
      BY <1>0, <1>1, <2>2, <2>3 DEF TypeOK, Submit, replicaVars
  <1>2. ASSUME NEW t \in Thread, NEW d \in Data, Store(t, d) PROVE TypeOK'
    BY <1>0, <1>2 DEF TypeOK, Store, Fill, replicaVars, NumbersInv
  <1>3. ASSUME NEW t \in Thread, NEW d \in Data, StoreFailure(t, d) PROVE TypeOK'
    <2>1. pc[t] = "fill"
      BY <1>3 DEF StoreFailure
    <2>5. req[t] \in Slot
      BY <1>req, <2>1
    <2>2. entry' = [entry EXCEPT ![req[t]] = [data |-> d, canbe |-> committed[Leader]]]
      BY <1>3 DEF StoreFailure, Fill
    <2>4. entry' \in [Slot -> [data : Data \cup {NoRecord}, canbe : 0..MaxReq]]
      BY <1>entry, <1>commit, <2>5, <2>2
    <2>3. /\ req' \in [Thread -> 0..MaxReq]
          /\ pc' \in [Thread -> {"idle", "fill", "post", "poll", "turn", "incr"}]
      BY <1>0, <1>3 DEF TypeOK, StoreFailure
    <2> QED
      BY <1>0, <1>3, <2>4, <2>3 DEF TypeOK, StoreFailure, replicaVars
  <1>4. ASSUME NEW t \in Thread, NEW n \in Replica, Post(t, n) PROVE TypeOK'
    BY <1>0, <1>4 DEF TypeOK, Post, replicaVars, NumbersInv
  <1>5. ASSUME NEW t \in Thread, Recheck(t) PROVE TypeOK'
    BY <1>0, <1>5 DEF TypeOK, Recheck, Counted, replicaVars
  <1>6. ASSUME NEW t \in Thread, ReadCommitted(t) PROVE TypeOK'
    BY <1>0, <1>6 DEF TypeOK, ReadCommitted, replicaVars
  <1>7. ASSUME NEW t \in Thread, WriteCommitted(t) PROVE TypeOK'
    <2>1. tmp[t] + 1 \in 0..MaxReq
      BY <1>0, <1>7, SMTT(30) DEF TypeOK, WriteCommitted, NumbersInv, IncrementNotLost
    <2>2. committed' \in [Node -> 0..MaxReq]
      BY <1>0, <1>7, <2>1 DEF TypeOK, WriteCommitted
    <2> QED
      BY <1>0, <1>7, <2>2 DEF TypeOK, WriteCommitted, replicaVars
  <1>8. ASSUME NEW n \in Replica, NEW r \in Slot, DeliverWrite(n, r) PROVE TypeOK'
    BY <1>0, <1>8 DEF TypeOK, DeliverWrite, replicaVars, threadVars
  <1>9. ASSUME NEW n \in Replica, NEW r \in Slot, DeliverAck(n, r) PROVE TypeOK'
    BY <1>0, <1>9 DEF TypeOK, DeliverAck, replicaVars, threadVars
  <1>10. ASSUME NEW n \in Replica, Accept(n) PROVE TypeOK'
    <2>1. /\ end[n] \in Slot
          /\ seen' = seen \/ seen' = [seen EXCEPT ![n] = end[n]]
          /\ end' = [end EXCEPT ![n] = end[n] + 1]
          /\ ack' = [ack EXCEPT ![n][end[n]] = "posted"]
          /\ \/ index' = index
             \/ entry[end[n]].canbe > committed[n] /\ index' = [index EXCEPT ![n] = committed[n] + 1]
          /\ rpc' = rpc \/ rpc' = [rpc EXCEPT ![n] = "exec"]
          /\ db' = db \/ db' = [db EXCEPT ![n][end[n]] = Content(n, end[n])]
      <3>1. seen' = seen \/ seen' = [seen EXCEPT ![n] = end[n]]
        BY <1>0, <1>10 DEF Accept, TypeOK
      <3> QED
        BY <1>10, <3>1 DEF Accept, Stored
    <2>2. Content(n, end[n]) \in Data \cup {NoRecord, Torn}
      BY <1>entry, <2>1 DEF Content
    <2>3. db' \in [Node -> [Slot -> Data \cup {NoRecord, Torn}]]
      <3>1. CASE db' = db
        BY <1>db, <3>1
      <3>2. CASE db' = [db EXCEPT ![n][end[n]] = Content(n, end[n])]
        BY <1>db, <2>1, <2>2, <3>2
      <3> QED
        BY <2>1, <3>1, <3>2
    <2>4. seen' \in [Node -> 0..MaxReq]
      BY <1>seen, <2>1, SMTT(30)
    <2>5. /\ ack' \in [Replica -> [Slot -> {"none", "posted", "stamp", "full"}]]
          /\ end' \in [Replica -> 1..MaxReq + 1]
      BY <1>ack, <1>rep, <2>1, SMTT(30)
    <2>6. entry[end[n]].canbe > committed[n] => committed[n] + 1 \in 0..MaxReq
      BY <1>commit, <1>entry, <2>1, SMTT(30)
    <2>7. /\ index' \in [Replica -> 0..MaxReq]
          /\ rpc' \in [Replica -> {"scan", "exec", "crashed"}]
      BY <1>rep, <2>1, <2>6, SMTT(30)
    <2>8. UNCHANGED <<threadVars, committed, entry, write, connected, executed>>
      BY <1>10 DEF Accept
    <2> QED
      BY <1>0, <2>3, <2>4, <2>5, <2>7, <2>8 DEF TypeOK, threadVars
  <1>11. ASSUME NEW n \in Replica, UpdateState(n) PROVE TypeOK'
    <2>1. /\ db[n][index[n]] # NoRecord
          /\ rpc[n] = "exec"
          /\ executed' = [executed EXCEPT ![n] = Append(executed[n], db[n][index[n]])]
          /\ index' = [index EXCEPT ![n] = index[n] + 1]
          /\ rpc' = rpc \/ rpc' = [rpc EXCEPT ![n] = "scan"]
          /\ \/ committed' = committed
             \/ committed' = [committed EXCEPT ![n] = entry[end[n] - 1].canbe]
          /\ UNCHANGED <<threadVars, seen, entry, write, ack, connected, db, end>>
      BY <1>11 DEF UpdateState
    <2>2. end[n] - 1 \in Slot
      BY <1>0, <1>rep, <2>1, SMTT(30) DEF ExecInv, ExecutedOf
    <2>3. entry[end[n] - 1].canbe \in 0..MaxReq
      BY <1>entry, <2>2
    <2>4. index[n] \in Slot
      BY <1>0, <1>rep, <1>commit, <2>1, <2>3, SMTT(30) DEF ExecInv, ExecutedOf
    <2>5. Append(executed[n], db[n][index[n]]) \in Seq(Data \cup {Torn})
      <3>1. db[n][index[n]] \in Data \cup {Torn}
        BY <1>db, <2>1, <2>4, SMTT(30)
      <3>2. executed[n] \in Seq(Data \cup {Torn})
        BY <1>0 DEF TypeOK
      <3> QED
        BY <3>1, <3>2, SMTT(30)
    <2>6. executed' \in [Replica -> Seq(Data \cup {Torn})]
      BY <1>0, <2>1, <2>5 DEF TypeOK
    <2>7. /\ index' \in [Replica -> 0..MaxReq]
          /\ rpc' \in [Replica -> {"scan", "exec", "crashed"}]
      <3>1. index[n] + 1 \in 0..MaxReq
        <4>1. entry[end[n] - 1].canbe < end[n] - 1
          BY <1>0, <2>2 DEF EntryInv
        <4>2. index[n] <= entry[end[n] - 1].canbe
          BY <1>0, <2>1 DEF ExecInv, ExecutedOf
        <4> QED
          BY <2>2, <2>3, <2>4, <4>1, <4>2, SMTT(30)
      <3>2. index' \in [Replica -> 0..MaxReq]
        BY <1>rep, <2>1, <3>1
      <3>3. rpc' \in [Replica -> {"scan", "exec", "crashed"}]
        BY <1>rep, <2>1
      <3> QED
        BY <3>2, <3>3
    <2>8. committed' \in [Node -> 0..MaxReq]
      BY <1>commit, <2>1, <2>3
    <2> QED
      BY <1>0, <2>1, <2>6, <2>7, <2>8 DEF TypeOK, threadVars
  <1>12. ASSUME NEW n \in Replica, UpdateStateCrash(n) PROVE TypeOK'
    BY <1>0, <1>12 DEF TypeOK, UpdateStateCrash, threadVars
  <1>13. ASSUME NEW n \in Replica, Connect(n) PROVE TypeOK'
    BY <1>0, <1>13 DEF TypeOK, Connect, threadVars, replicaVars
  <1>14. ASSUME NEW n \in Replica, Disconnect(n) PROVE TypeOK'
    <2>1. write' \in [Replica -> [Slot -> {"none", "posted", "head", "full"}]]
      BY <1>0, <1>14 DEF TypeOK, Disconnect
    <2>2. ack' \in [Replica -> [Slot -> {"none", "posted", "stamp", "full"}]]
      <3>1. [r \in Slot |-> IF ack[n][r] = "posted" THEN "none" ELSE ack[n][r]]
              \in [Slot -> {"none", "posted", "stamp", "full"}]
        BY <1>0, SMTT(30) DEF TypeOK
      <3> QED
        BY <1>0, <1>14, <3>1 DEF TypeOK, Disconnect
    <2>3. end' \in [Replica -> 1..MaxReq + 1] /\ connected' \subseteq Replica
      BY <1>0, <1>14, SMTT(30) DEF TypeOK, Disconnect
    <2> QED
      BY <1>0, <1>14, <2>1, <2>2, <2>3 DEF TypeOK, Disconnect, threadVars
  <1>15. CASE UNCHANGED vars
    BY <1>0, <1>15 DEF TypeOK, vars, threadVars, replicaVars
  <1> QED
    BY <1>1, <1>2, <1>3, <1>4, <1>5, <1>6, <1>7, <1>8, <1>9, <1>10, <1>11, <1>12, <1>13, <1>14, <1>15
       DEF Next, LeaderNext, ReplicaNext, Deliver

\* The types of the variables that number requests, for the arithmetic below.
LEMMA NumbersType ==
  ASSUME IInv
  PROVE  /\ \A n \in Node : committed[n] \in Nat /\ seen[n] \in Nat
         /\ \A t \in Thread : req[t] \in Nat /\ tmp[t] \in Nat
         /\ DOMAIN pc = Thread /\ DOMAIN req = Thread /\ DOMAIN tmp = Thread
         /\ DOMAIN committed = Node /\ DOMAIN seen = Node
         /\ Leader \in Node
  BY NodeAssumption, BoundAssumption, SMTT(30) DEF IInv, TypeOK

\* update_state leaves the leader's commit point alone.
LEMMA ReplicaKeepsCommit ==
  ASSUME IInv, NEW n \in Replica, UpdateState(n)
  PROVE  committed'[Leader] = committed[Leader]
  BY NumbersType DEF UpdateState, Replica

\* A step that moves a thread between two places inside leader_handle_submit_req.
LEMMA NumbersMove ==
  ASSUME IInv, NEW t \in Thread, NEW place,
         pc[t] \notin {"idle"}, place \notin {"idle", "incr"},
         pc' = pc \/ pc' = [pc EXCEPT ![t] = place],
         UNCHANGED <<req, tmp, seen, committed>>
  PROVE  NumbersInv'
  BY NumbersType, SMTT(30) DEF IInv, NumbersInv, IncrementNotLost

\* A step outside leader_handle_submit_req keeps the request numbers.
LEMMA NumbersFrame ==
  ASSUME IInv, UNCHANGED <<pc, req, tmp>>,
         seen'[Leader] = seen[Leader], committed'[Leader] = committed[Leader]
  PROVE  NumbersInv'
  BY DEF IInv, NumbersInv, IncrementNotLost

\* Request numbers stay distinct and past the commit point.
LEMMA NumbersStep == IInv /\ [Next]_vars => NumbersInv'
  <1> SUFFICES ASSUME IInv, [Next]_vars PROVE NumbersInv'
    OBVIOUS
  <1>0. NumbersInv
    BY DEF IInv
  <1>1. ASSUME NEW t \in Thread, Submit(t) PROVE NumbersInv'
    <2>1. /\ pc[t] = "idle"
          /\ req' = [req EXCEPT ![t] = seen[Leader] + 1]
          /\ seen' = [seen EXCEPT ![Leader] = seen[Leader] + 1]
          /\ pc' = [pc EXCEPT ![t] = "fill"]
          /\ tmp' = tmp /\ committed' = committed
      BY <1>1 DEF Submit
    <2> QED
      BY <1>0, <2>1, NumbersType, SMTT(30) DEF NumbersInv, IncrementNotLost
  <1>2. ASSUME NEW t \in Thread, NEW d \in Data, Store(t, d) PROVE NumbersInv'
    <2>1. pc[t] = "fill" /\ pc' = [pc EXCEPT ![t] = "post"] /\ UNCHANGED <<req, tmp, seen, committed>>
      BY <1>2 DEF Store
    <2> QED
      BY <1>0, <2>1, NumbersType DEF NumbersInv, IncrementNotLost
  <1>3. ASSUME NEW t \in Thread, NEW d \in Data, StoreFailure(t, d) PROVE NumbersInv'
    <2>1. /\ pc[t] = "fill"
          /\ LeaderStoreFails
          /\ pc' = [pc EXCEPT ![t] = "idle"]
          /\ UNCHANGED <<req, tmp, seen, committed>>
      BY <1>3 DEF StoreFailure
    <2> QED
      BY <1>0, <2>1, NumbersType DEF NumbersInv, IncrementNotLost
  <1>4. ASSUME NEW t \in Thread, NEW n \in Replica, Post(t, n) PROVE NumbersInv'
    BY <1>4, NumbersMove, SMTT(30) DEF Post
  <1>5. ASSUME NEW t \in Thread, Recheck(t) PROVE NumbersInv'
    BY <1>5, NumbersMove, SMTT(30) DEF Recheck
  <1>6. ASSUME NEW t \in Thread, ReadCommitted(t) PROVE NumbersInv'
    <2>1. /\ pc[t] = "turn"
          /\ ~(req[t] > committed[Leader] + 1)
          /\ tmp' = [tmp EXCEPT ![t] = committed[Leader]]
          /\ pc' = [pc EXCEPT ![t] = "incr"]
          /\ UNCHANGED <<req, seen, committed>>
      BY <1>6 DEF ReadCommitted
    <2> QED
      BY <1>0, <2>1, NumbersType, SMTT(30) DEF NumbersInv, IncrementNotLost
  <1>7. ASSUME NEW t \in Thread, WriteCommitted(t) PROVE NumbersInv'
    <2>1. /\ pc[t] = "incr"
          /\ committed' = [committed EXCEPT ![Leader] = tmp[t] + 1]
          /\ pc' = [pc EXCEPT ![t] = "idle"]
          /\ UNCHANGED <<req, tmp, seen>>
      BY <1>7 DEF WriteCommitted
    <2>2. committed'[Leader] = committed[Leader] + 1 /\ req[t] = committed[Leader] + 1
      BY <1>0, <2>1, NumbersType DEF NumbersInv, IncrementNotLost
    <2>3. \A u \in Thread : u # t /\ pc[u] # "idle" => committed[Leader] + 1 < req[u]
      BY <1>0, <2>1, <2>2, NumbersType, SMTT(30) DEF NumbersInv
    <2> QED
      BY <1>0, <2>1, <2>2, <2>3, NumbersType, SMTT(30) DEF NumbersInv, IncrementNotLost
  <1>8. ASSUME NEW n \in Replica, NEW r \in Slot, Deliver(n, r) PROVE NumbersInv'
    BY <1>8, NumbersFrame DEF Deliver, DeliverWrite, DeliverAck, threadVars
  <1>9. ASSUME NEW n \in Replica, Accept(n) PROVE NumbersInv'
    <2>1. UNCHANGED <<pc, req, tmp, committed>> /\ seen'[Leader] = seen[Leader]
      BY <1>9, NumbersType DEF Accept, threadVars, Replica
    <2> QED
      BY <2>1, NumbersFrame
  <1>10. ASSUME NEW n \in Replica, UpdateState(n) PROVE NumbersInv'
    <2>1. UNCHANGED <<pc, req, tmp, seen>> /\ committed'[Leader] = committed[Leader]
      BY <1>10, NumbersType DEF UpdateState, threadVars, Replica
    <2> QED
      BY <2>1, NumbersFrame
  <1>11. ASSUME NEW n \in Replica, UpdateStateCrash(n) \/ Connect(n) \/ Disconnect(n)
         PROVE  NumbersInv'
    BY <1>11, NumbersFrame DEF UpdateStateCrash, Connect, Disconnect, threadVars
  <1>12. CASE UNCHANGED vars
    BY <1>12, NumbersFrame DEF vars, threadVars
  <1> QED
    BY <1>1, <1>2, <1>3, <1>4, <1>5, <1>6, <1>7, <1>8, <1>9, <1>10, <1>11, <1>12
    DEF Next, LeaderNext, ReplicaNext

\* The types of the log, the database and the RDMA writes.
LEMMA MemoryType ==
  ASSUME IInv
  PROVE  /\ DOMAIN entry = Slot /\ DOMAIN db = Node
         /\ DOMAIN write = Replica /\ DOMAIN ack = Replica /\ DOMAIN end = Replica
         /\ \A r \in Slot : entry[r].canbe \in Nat
         /\ \A n \in Node : DOMAIN db[n] = Slot
         /\ \A n \in Replica : DOMAIN write[n] = Slot /\ DOMAIN ack[n] = Slot /\ end[n] \in Nat
         /\ Leader \in Node /\ Leader \notin Replica /\ Replica \subseteq Node
         /\ Slot \subseteq Nat /\ \A r \in Slot : r > 0
  BY NodeAssumption, BoundAssumption, SMTT(30) DEF IInv, TypeOK, Replica, Slot

\* A running request has a position in the log.
LEMMA RunningInSlot ==
  ASSUME IInv, NEW t \in Thread, pc[t] # "idle"
  PROVE  req[t] \in Slot
  <1>1. /\ req[t] \in 0..MaxReq
        /\ committed[Leader] \in 0..MaxReq
    BY NodeAssumption DEF IInv, TypeOK
  <1> QED
    BY <1>1, BoundAssumption, SMTT(30) DEF IInv, NumbersInv, Slot

\* The leader's commit point never moves back.
LEMMA CommitGrows ==
  ASSUME IInv, Next PROVE committed[Leader] <= committed'[Leader]
  <1>1. ASSUME NEW t \in Thread, WriteCommitted(t) PROVE committed'[Leader] = committed[Leader] + 1
    BY <1>1, NumbersType DEF WriteCommitted, IInv, NumbersInv, IncrementNotLost
  <1>2. ASSUME NEW n \in Replica, UpdateState(n) PROVE committed'[Leader] = committed[Leader]
    BY <1>2, ReplicaKeepsCommit
  <1>3. ASSUME NEW t \in Thread, NEW d \in Data, Store(t, d) \/ StoreFailure(t, d) PROVE committed' = committed
    BY <1>3 DEF Store, StoreFailure
  <1>4. ASSUME NEW t \in Thread, Submit(t) \/ Recheck(t) \/ ReadCommitted(t) PROVE committed' = committed
    BY <1>4 DEF Submit, Recheck, ReadCommitted
  <1>5. ASSUME NEW t \in Thread, NEW n \in Replica, Post(t, n) PROVE committed' = committed
    BY <1>5 DEF Post
  <1>6. ASSUME NEW n \in Replica, NEW r \in Slot, Deliver(n, r) PROVE committed' = committed
    BY <1>6 DEF Deliver, DeliverWrite, DeliverAck
  <1>7. ASSUME NEW n \in Replica, Accept(n) \/ UpdateStateCrash(n) \/ Connect(n) \/ Disconnect(n)
        PROVE  committed' = committed
    BY <1>7 DEF Accept, UpdateStateCrash, Connect, Disconnect
  <1> QED
    BY <1>1, <1>2, <1>3, <1>4, <1>5, <1>6, <1>7, NumbersType, SMTT(30) DEF Next, LeaderNext, ReplicaNext

\* A settled entry never changes again.
LEMMA SettledStays ==
  ASSUME IInv, Next, NEW r \in Slot, Settled(r)
  PROVE  Settled(r)' /\ entry'[r] = entry[r]
  <1>1. ASSUME NEW t \in Thread, Submit(t) PROVE Settled(r)' /\ entry'[r] = entry[r]
    <2>1. /\ req' = [req EXCEPT ![t] = seen[Leader] + 1]
          /\ seen' = [seen EXCEPT ![Leader] = seen[Leader] + 1]
          /\ pc' = [pc EXCEPT ![t] = "fill"]
          /\ entry' = entry
      BY <1>1 DEF Submit
    <2> QED
      BY <2>1, NumbersType, MemoryType, SMTT(30) DEF Settled
  <1>2. ASSUME NEW t \in Thread, NEW d \in Data, Store(t, d) \/ StoreFailure(t, d)
        PROVE  Settled(r)' /\ entry'[r] = entry[r]
    <2>1. /\ pc[t] = "fill" /\ seen' = seen
          /\ entry' = [entry EXCEPT ![req[t]] = [data |-> d, canbe |-> committed[Leader]]]
          /\ \E place \in {"post", "idle"} : pc' = [pc EXCEPT ![t] = place]
          /\ req' = req
      BY <1>2 DEF Store, StoreFailure, Fill
    <2>2. req[t] # r
      BY <2>1 DEF Settled
    <2>3. entry'[r] = entry[r]
      BY <2>1, <2>2, MemoryType
    <2> QED
      BY <2>1, <2>2, <2>3, NumbersType, MemoryType DEF Settled
  <1>3. ASSUME NEW t \in Thread, Recheck(t) \/ ReadCommitted(t) \/ WriteCommitted(t)
        PROVE  Settled(r)' /\ entry'[r] = entry[r]
    <2>1. /\ \E place \in {"turn", "incr", "idle"} : pc' = pc \/ pc' = [pc EXCEPT ![t] = place]
          /\ UNCHANGED <<req, seen, entry>>
      BY <1>3 DEF Recheck, ReadCommitted, WriteCommitted
    <2> QED
      BY <2>1, NumbersType DEF Settled
  <1>4. ASSUME NEW t \in Thread, NEW n \in Replica, Post(t, n) PROVE Settled(r)' /\ entry'[r] = entry[r]
    <2>1. pc' = pc \/ pc' = [pc EXCEPT ![t] = "poll"]
      BY <1>4 DEF Post
    <2>2. UNCHANGED <<req, seen, entry>>
      BY <1>4 DEF Post
    <2> QED
      BY <2>1, <2>2, NumbersType DEF Settled
  <1>5. ASSUME UNCHANGED <<pc, req, entry>>, seen'[Leader] = seen[Leader]
        PROVE  Settled(r)' /\ entry'[r] = entry[r]
    BY <1>5 DEF Settled
  <1>6. ASSUME NEW n \in Replica, NEW s \in Slot, Deliver(n, s) PROVE Settled(r)' /\ entry'[r] = entry[r]
    BY <1>5, <1>6 DEF Deliver, DeliverWrite, DeliverAck, threadVars
  <1>7. ASSUME NEW n \in Replica, Accept(n) PROVE Settled(r)' /\ entry'[r] = entry[r]
    BY <1>5, <1>7, NumbersType DEF Accept, threadVars, Replica
  <1>8. ASSUME NEW n \in Replica, UpdateState(n) \/ UpdateStateCrash(n) \/ Connect(n) \/ Disconnect(n)
        PROVE  Settled(r)' /\ entry'[r] = entry[r]
    BY <1>5, <1>8 DEF UpdateState, UpdateStateCrash, Connect, Disconnect, threadVars
  <1> QED
    BY <1>1, <1>2, <1>3, <1>4, <1>6, <1>7, <1>8 DEF Next, LeaderNext, ReplicaNext

\* Posted, recorded and committed entries stay settled.  Given SettledStays, an
\* action has to be examined only for what it adds: to the log, to the commit
\* point, to the threads past "fill", to the RDMA writes and to the databases.
LEMMA EntryStep == IInv /\ Next => EntryInv'
  <1> SUFFICES ASSUME IInv, Next PROVE EntryInv'
    OBVIOUS
  <1>0. EntryInv /\ NumbersInv
    BY DEF IInv
  <1>1. \A r \in Slot : Settled(r) => Settled(r)' /\ entry'[r] = entry[r]
    BY SettledStays
  <1>2. /\ committed[Leader] <= committed'[Leader]
        /\ committed[Leader] \in Nat /\ committed'[Leader] \in Nat
    <2>1. committed[Leader] \in 0..MaxReq
      BY NodeAssumption DEF IInv, TypeOK
    <2>2. committed'[Leader] \in 0..MaxReq
      BY TypeStep, NodeAssumption DEF TypeOK
    <2> QED
      BY <2>1, <2>2, CommitGrows, BoundAssumption, SMTT(30)
  <1> DEFINE Log ==
        \A r \in Slot : entry'[r] # entry[r] => entry'[r].canbe < r /\ entry'[r].canbe <= committed'[Leader]
      Commit ==
        \/ committed'[Leader] = committed[Leader]
        \/ \E r \in Slot :
             r = committed[Leader] + 1 /\ committed'[Leader] = r /\ Settled(r)'
      Threads ==
        \A u \in Thread :
          pc'[u] \notin {"idle", "fill"} =>
            \E r \in Slot : r = req'[u] /\ Settled(r)' /\ db'[Leader][r] # NoRecord
      Writes ==
        \A m \in Replica, r \in Slot :
          write'[m][r] # "none" \/ ack'[m][r] # "none" =>
            write[m][r] # "none" \/ ack[m][r] # "none" \/ Settled(r)'
      Records ==
        \A m \in Node, r \in Slot :
          db'[m][r] # NoRecord =>
            db'[m][r] = db[m][r] \/ (Settled(r)' /\ db'[m][r] = entry'[r].data)
  <1>3. SUFFICES Log /\ Commit /\ Threads /\ Writes /\ Records
    <2>1. \A r \in Slot : (entry[r].canbe < r /\ entry[r].canbe <= committed[Leader])
      BY <1>0 DEF EntryInv
    <2>2. ASSUME NEW r \in Slot
          PROVE  entry'[r].canbe < r /\ entry'[r].canbe <= committed'[Leader]
      <3>1. CASE entry'[r] # entry[r]
        BY <1>3, <3>1
      <3>2. CASE entry'[r] = entry[r]
        <4>1. entry[r].canbe < r /\ entry[r].canbe <= committed[Leader]
          BY <2>1
        <4>2. entry[r].canbe \in Nat
          BY MemoryType
        <4>3. entry[r].canbe <= committed'[Leader]
          BY <1>2, <4>1, <4>2, SMTT(30)
        <4> QED
          BY <3>2, <4>1, <4>3
      <3> QED
        BY <3>1, <3>2
    <2>3. \A r \in 1..committed'[Leader] : Settled(r)'
      <3>0. committed[Leader] \in 0..MaxReq
        BY NodeAssumption DEF IInv, TypeOK
      <3>1. \A r \in 1..committed[Leader] : r \in Slot /\ Settled(r)
        <4>1. 1..committed[Leader] \subseteq Slot
          BY <3>0, BoundAssumption, SMTT(30) DEF Slot
        <4> QED
          BY <1>0, <4>1 DEF EntryInv
      <3>2. \A r \in 1..committed[Leader] : Settled(r)'
        BY <1>1, <3>1
      <3>3. CASE committed'[Leader] = committed[Leader]
        BY <3>2, <3>3
      <3>4. ASSUME NEW q \in Slot, q = committed[Leader] + 1, committed'[Leader] = q, Settled(q)',
                   NEW r \in 1..committed'[Leader]
            PROVE  Settled(r)'
        <4>1. r = q \/ r \in 1..committed[Leader]
          BY <1>2, <3>4, SMTT(30)
        <4>2. CASE r = q
          BY <3>4, <4>2
        <4>3. CASE r \in 1..committed[Leader]
          BY <3>2, <4>3
        <4> QED
          BY <4>1, <4>2, <4>3
      <3> QED
        BY <1>3, <3>3, <3>4
    <2>6. (\A u \in Thread :
             pc[u] \notin {"idle", "fill"} => Settled(req[u]) /\ db[Leader][req[u]] # NoRecord)'
      BY <1>3 DEF Settled
    <2>4. \A n \in Replica, r \in Slot : write'[n][r] # "none" \/ ack'[n][r] # "none" => Settled(r)'
      BY <1>0, <1>1, <1>3 DEF EntryInv
    <2>5. ASSUME NEW n \in Node, NEW r \in Slot, db'[n][r] # NoRecord
          PROVE  Settled(r)' /\ db'[n][r] = entry'[r].data
      <3>1. CASE db'[n][r] = db[n][r]
        <4>1. Settled(r) /\ db[n][r] = entry[r].data
          BY <1>0, <2>5, <3>1 DEF EntryInv
        <4> QED
          BY <1>1, <3>1, <4>1
      <3> QED
        BY <1>3, <2>5, <3>1
    <2> QED
      BY <2>2, <2>3, <2>4, <2>5, <2>6 DEF EntryInv
  \* A thread that was past "fill" keeps a settled entry and its own record.
  <1>4. \A u \in Thread :
          pc[u] \notin {"idle", "fill"} =>
            \E r \in Slot : r = req[u] /\ Settled(r)' /\ db[Leader][r] # NoRecord
    BY <1>0, <1>1, RunningInSlot DEF EntryInv
  <1>5. ASSUME NEW t \in Thread, Submit(t) PROVE Log /\ Commit /\ Threads /\ Writes /\ Records
    <2>1. /\ req' = [req EXCEPT ![t] = seen[Leader] + 1]
          /\ pc' = [pc EXCEPT ![t] = "fill"]
          /\ UNCHANGED <<committed, entry, write, ack, db>>
      BY <1>5 DEF Submit
    <2> QED
      BY <1>4, <2>1, NumbersType
  <1>6. ASSUME NEW t \in Thread, NEW d \in Data, Store(t, d)
        PROVE  Log /\ Commit /\ Threads /\ Writes /\ Records
    <2>1. /\ pc[t] = "fill"
          /\ entry' = [entry EXCEPT ![req[t]] = [data |-> d, canbe |-> committed[Leader]]]
          /\ db' = [db EXCEPT ![Leader][req[t]] = d]
          /\ pc' = [pc EXCEPT ![t] = "post"]
          /\ UNCHANGED <<req, seen, committed, write, ack>>
      BY <1>6 DEF Store, Fill
    <2>2. req[t] \in Slot /\ committed[Leader] < req[t] /\ req[t] <= seen[Leader]
      BY <1>0, <2>1, RunningInSlot DEF NumbersInv
    <2>3. /\ entry'[req[t]] = [data |-> d, canbe |-> committed[Leader]]
          /\ \A r \in Slot : r # req[t] => entry'[r] = entry[r]
      BY <2>1, <2>2, MemoryType
    <2>4. /\ db'[Leader][req[t]] = d
          /\ \A m \in Node, r \in Slot : m # Leader \/ r # req[t] => db'[m][r] = db[m][r]
      BY <2>1, <2>2, MemoryType
    <2>5. \A r \in Slot : r = req[t] => Settled(r)'
      BY <1>0, <2>1, <2>2, <2>3, NumbersType, SMTT(30) DEF Settled, NumbersInv
    <2>6. Log
      BY <2>1, <2>2, <2>3, <1>2, SMTT(30)
    <2>7. Threads
      BY <1>4, <2>1, <2>2, <2>4, <2>5, NumbersType, MemoryType, DataAssumption, SMTT(30)
    <2>8. Records
      BY <2>3, <2>4, <2>5, SMTT(30)
    <2> QED
      BY <2>1, <2>6, <2>7, <2>8
  <1>7. ASSUME NEW t \in Thread, NEW d \in Data, StoreFailure(t, d)
        PROVE  Log /\ Commit /\ Threads /\ Writes /\ Records
    <2>1. /\ pc[t] = "fill"
          /\ entry' = [entry EXCEPT ![req[t]] = [data |-> d, canbe |-> committed[Leader]]]
          /\ pc' = [pc EXCEPT ![t] = "idle"]
          /\ UNCHANGED <<req, committed, write, ack, db>>
      BY <1>7 DEF StoreFailure, Fill
    <2>2. req[t] \in Slot /\ committed[Leader] < req[t]
      BY <1>0, <2>1, RunningInSlot DEF NumbersInv
    <2>3. /\ entry'[req[t]] = [data |-> d, canbe |-> committed[Leader]]
          /\ \A r \in Slot : r # req[t] => entry'[r] = entry[r]
      BY <2>1, <2>2, MemoryType
    <2>4. Log
      BY <2>1, <2>2, <2>3, <1>2, SMTT(30)
    <2>5. Threads
      BY <1>4, <2>1, NumbersType
    <2> QED
      BY <2>1, <2>4, <2>5
  <1>8. ASSUME NEW t \in Thread, NEW n \in Replica, Post(t, n)
        PROVE  Log /\ Commit /\ Threads /\ Writes /\ Records
    <2>1. /\ pc[t] = "post"
          /\ write' = write \/ write' = [write EXCEPT ![n][req[t]] = "posted"]
          /\ pc' = pc \/ pc' = [pc EXCEPT ![t] = "poll"]
          /\ UNCHANGED <<req, committed, entry, ack, db>>
      BY <1>8 DEF Post
    <2>2. Threads
      BY <1>4, <2>1, NumbersType
    <2>3. Writes
      BY <1>4, <2>1, MemoryType, SMTT(30)
    <2> QED
      BY <2>1, <2>2, <2>3
  <1>9. ASSUME NEW t \in Thread, Recheck(t) \/ ReadCommitted(t)
        PROVE  Log /\ Commit /\ Threads /\ Writes /\ Records
    <2>1. /\ pc[t] \notin {"idle", "fill"}
          /\ pc' = pc \/ pc' = [pc EXCEPT ![t] = "turn"] \/ pc' = [pc EXCEPT ![t] = "incr"]
          /\ UNCHANGED <<req, committed, entry, write, ack, db>>
      BY <1>9 DEF Recheck, ReadCommitted
    <2> QED
      BY <1>4, <2>1, NumbersType
  <1>10. ASSUME NEW t \in Thread, WriteCommitted(t)
         PROVE  Log /\ Commit /\ Threads /\ Writes /\ Records
    <2>1. /\ pc[t] = "incr"
          /\ committed' = [committed EXCEPT ![Leader] = tmp[t] + 1]
          /\ pc' = [pc EXCEPT ![t] = "idle"]
          /\ UNCHANGED <<req, entry, write, ack, db>>
      BY <1>10 DEF WriteCommitted
    <2>2. tmp[t] = committed[Leader] /\ req[t] = committed[Leader] + 1
      BY <1>0, <2>1 DEF NumbersInv, IncrementNotLost
    <2>3. Commit
      BY <1>4, <2>1, <2>2, NumbersType
    <2>4. Threads
      BY <1>4, <2>1, NumbersType
    <2> QED
      BY <2>1, <2>3, <2>4
  <1>11. ASSUME NEW n \in Replica, NEW s \in Slot, Deliver(n, s)
         PROVE  Log /\ Commit /\ Threads /\ Writes /\ Records
    <2>1. /\ UNCHANGED <<pc, req, committed, entry, db>>
          /\ \/ /\ write[n][s] # "none" /\ ack' = ack
                /\ \E x : write' = [write EXCEPT ![n][s] = x]
             \/ /\ ack[n][s] # "none" /\ write' = write
                /\ \E x : ack' = [ack EXCEPT ![n][s] = x]
      BY <1>11 DEF Deliver, DeliverWrite, DeliverAck, threadVars
    <2>2. Writes
      BY <2>1, MemoryType, SMTT(30)
    <2> QED
      BY <1>4, <2>1, <2>2
  <1>12. ASSUME NEW n \in Replica, Accept(n)
         PROVE  Log /\ Commit /\ Threads /\ Writes /\ Records
    <2>1. /\ end[n] \in Slot /\ write[n][end[n]] = "full"
          /\ UNCHANGED <<pc, req, committed, entry, write>>
          /\ db' = db \/ db' = [db EXCEPT ![n][end[n]] = entry[end[n]].data]
          /\ ack' = [ack EXCEPT ![n][end[n]] = "posted"]
      BY <1>12 DEF Accept, Complete, Stored, Content, threadVars
    <2>2. \A r \in Slot : r = end[n] => Settled(r)'
      BY <1>0, <1>1, <2>1 DEF EntryInv
    <2>3. Threads
      BY <1>4, <2>1, MemoryType
    <2>4. Writes
      BY <2>1, MemoryType
    <2>5. Records
      BY <2>1, <2>2, MemoryType, SMTT(30)
    <2> QED
      BY <2>1, <2>3, <2>4, <2>5
  <1>13. ASSUME NEW n \in Replica, UpdateState(n) \/ UpdateStateCrash(n) \/ Connect(n)
         PROVE  Log /\ Commit /\ Threads /\ Writes /\ Records
    <2>1. UNCHANGED <<pc, req, entry, write, ack, db>>
      BY <1>13 DEF UpdateState, UpdateStateCrash, Connect, threadVars
    <2>2. committed'[Leader] = committed[Leader]
      BY <1>13, NumbersType DEF UpdateState, UpdateStateCrash, Connect, Replica
    <2> QED
      BY <1>4, <2>1, <2>2
  <1>14. ASSUME NEW n \in Replica, Disconnect(n)
         PROVE  Log /\ Commit /\ Threads /\ Writes /\ Records
    <2>1. UNCHANGED <<pc, req, committed, entry, db>>
      BY <1>14 DEF Disconnect, threadVars
    <2>2. /\ write' = [write EXCEPT ![n] = [r \in Slot |-> "none"]]
          /\ \/ ack' = ack
             \/ ack' = [ack EXCEPT ![n] = [r \in Slot |-> IF ack[n][r] = "posted" THEN "none" ELSE ack[n][r]]]
      BY <1>14 DEF Disconnect
    <2>3. Writes
      BY <2>2, MemoryType, SMTT(30)
    <2> QED
      BY <1>4, <2>1, <2>3
  <1> QED
    BY <1>5, <1>6, <1>7, <1>8, <1>9, <1>10, <1>11, <1>12, <1>13, <1>14
    DEF Next, LeaderNext, ReplicaNext

\* An entry is posted to a peer, and acked by it, at most once.
LEMMA PostedOnceStep == IInv /\ Next => PostedOnceInv'
  <1> SUFFICES ASSUME IInv, Next PROVE PostedOnceInv'
    OBVIOUS
  <1>0. PostedOnceInv /\ EntryInv /\ NumbersInv
    BY DEF IInv
  <1> DEFINE Unposted ==
        \A u \in Thread, m \in Replica :
          pc'[u] = "post" /\ m \in todo'[u] => write'[m][req'[u]] = "none" /\ ack'[m][req'[u]] = "none"
      Unacked ==
        \A m \in Replica, r \in Slot :
          write'[m][r] # "none" /\ end'[m] <= r => ack'[m][r] = "none"
  <1>1. SUFFICES Unposted /\ Unacked
    BY <1>1 DEF PostedOnceInv
  <1>2. \A u \in Thread, m \in Replica :
          pc[u] = "post" /\ m \in todo[u] => write[m][req[u]] = "none" /\ ack[m][req[u]] = "none"
    BY <1>0 DEF PostedOnceInv
  <1>3. \A m \in Replica, r \in Slot :
          write[m][r] # "none" /\ end[m] <= r => ack[m][r] = "none"
    BY <1>0 DEF PostedOnceInv
  <1>4. \A u \in Thread : pc[u] # "idle" => req[u] \in Slot
    BY RunningInSlot
  <1>todo. DOMAIN todo = Thread
    BY DEF IInv, TypeOK
  <1>5. ASSUME NEW t \in Thread, Submit(t) PROVE Unposted /\ Unacked
    <2>1. /\ pc' = [pc EXCEPT ![t] = "fill"]
          /\ req' = [req EXCEPT ![t] = seen[Leader] + 1]
          /\ UNCHANGED <<todo, write, ack, end>>
      BY <1>5 DEF Submit, replicaVars
    <2> QED
      BY <1>2, <1>3, <2>1, NumbersType
  <1>6. ASSUME NEW t \in Thread, NEW d \in Data, Store(t, d) PROVE Unposted /\ Unacked
    <2>1. /\ pc[t] = "fill"
          /\ pc' = [pc EXCEPT ![t] = "post"]
          /\ todo' = [todo EXCEPT ![t] = Replica]
          /\ UNCHANGED <<req, write, ack, end>>
      BY <1>6 DEF Store, replicaVars
    <2>2. ~Settled(req[t])
      BY <2>1 DEF Settled
    <2>3. \A m \in Replica : write[m][req[t]] = "none" /\ ack[m][req[t]] = "none"
      BY <1>0, <1>4, <2>1, <2>2 DEF EntryInv
    <2> QED
      BY <1>2, <1>3, <1>todo, <2>1, <2>3, NumbersType, SMTT(30)
  <1>7. ASSUME NEW t \in Thread, NEW d \in Data, StoreFailure(t, d) PROVE Unposted /\ Unacked
    <2>1. /\ pc' = [pc EXCEPT ![t] = "idle"]
          /\ UNCHANGED <<req, todo, write, ack, end>>
      BY <1>7 DEF StoreFailure, replicaVars
    <2> QED
      BY <1>2, <1>3, <2>1, NumbersType
  <1>8. ASSUME NEW t \in Thread, NEW n \in Replica, Post(t, n) PROVE Unposted /\ Unacked
    <2>1. /\ pc[t] = "post" /\ n \in todo[t]
          /\ todo' = [todo EXCEPT ![t] = todo[t] \ {n}]
          /\ write' = write \/ write' = [write EXCEPT ![n][req[t]] = "posted"]
          /\ pc' = pc \/ pc' = [pc EXCEPT ![t] = "poll"]
          /\ UNCHANGED <<req, ack, end>>
      BY <1>8 DEF Post, replicaVars
    <2>2. \A u \in Thread : u # t /\ pc[u] # "idle" => req[u] # req[t]
      BY <1>0, <2>1 DEF NumbersInv
    <2>3. \A m \in Replica, r \in Slot : m # n \/ r # req[t] => write'[m][r] = write[m][r]
      BY <1>4, <2>1, MemoryType, SMTT(30)
    <2>4. Unposted
      <3> SUFFICES ASSUME NEW u \in Thread, NEW m \in Replica, pc'[u] = "post", m \in todo'[u]
                   PROVE  write'[m][req[u]] = "none" /\ ack[m][req[u]] = "none"
        BY <2>1
      <3>1. pc[u] = "post" /\ m \in todo[u]
        BY <1>todo, <2>1, NumbersType
      <3>2. u = t => m # n
        BY <1>todo, <2>1
      <3> QED
        BY <1>2, <1>4, <2>2, <2>3, <3>1, <3>2, SMTT(30)
    <2>5. Unacked
      BY <1>2, <1>3, <2>1, <2>3, SMTT(30)
    <2> QED
      BY <2>4, <2>5
  <1>9. ASSUME NEW t \in Thread, Recheck(t) \/ ReadCommitted(t) \/ WriteCommitted(t)
        PROVE  Unposted /\ Unacked
    <2>1. /\ \/ pc' = pc \/ pc' = [pc EXCEPT ![t] = "turn"]
             \/ pc' = [pc EXCEPT ![t] = "incr"] \/ pc' = [pc EXCEPT ![t] = "idle"]
          /\ UNCHANGED <<req, todo, write, ack, end>>
      BY <1>9 DEF Recheck, ReadCommitted, WriteCommitted, replicaVars
    <2> QED
      BY <1>2, <1>3, <2>1, NumbersType, SMTT(30)
  <1>10. ASSUME NEW n \in Replica, NEW s \in Slot, DeliverWrite(n, s) PROVE Unposted /\ Unacked
    <2>1. /\ write[n][s] # "none"
          /\ \E x : write' = [write EXCEPT ![n][s] = x]
          /\ UNCHANGED <<pc, req, todo, ack, end>>
      BY <1>10 DEF DeliverWrite, threadVars, replicaVars
    <2>2. \A m \in Replica, r \in Slot : m # n \/ r # s => write'[m][r] = write[m][r]
      BY <2>1, MemoryType, SMTT(30)
    <2> QED
      BY <1>2, <1>3, <1>4, <2>1, <2>2, SMTT(30)
  <1>11. ASSUME NEW n \in Replica, NEW s \in Slot, DeliverAck(n, s) PROVE Unposted /\ Unacked
    <2>1. /\ ack[n][s] # "none"
          /\ \E x : ack' = [ack EXCEPT ![n][s] = x]
          /\ UNCHANGED <<pc, req, todo, write, end>>
      BY <1>11 DEF DeliverAck, threadVars, replicaVars
    <2>2. \A m \in Replica, r \in Slot : m # n \/ r # s => ack'[m][r] = ack[m][r]
      BY <2>1, MemoryType, SMTT(30)
    <2> QED
      BY <1>2, <1>3, <1>4, <2>1, <2>2, SMTT(30)
  <1>12. ASSUME NEW n \in Replica, Accept(n) PROVE Unposted /\ Unacked
    <2>1. /\ end[n] \in Slot /\ write[n][end[n]] = "full"
          /\ ack' = [ack EXCEPT ![n][end[n]] = "posted"]
          /\ end' = [end EXCEPT ![n] = end[n] + 1]
          /\ UNCHANGED <<pc, req, todo, write>>
      BY <1>12 DEF Accept, Complete, threadVars
    <2>2. \A m \in Replica, r \in Slot : m # n \/ r # end[n] => ack'[m][r] = ack[m][r]
      BY <2>1, MemoryType
    <2>3. end'[n] = end[n] + 1 /\ \A m \in Replica : m # n => end'[m] = end[m]
      BY <2>1, MemoryType
    <2>4. Unposted
      BY <1>2, <1>4, <2>1, <2>2, SMTT(30)
    <2>5. Unacked
      BY <1>3, <2>1, <2>2, <2>3, MemoryType, SMTT(30)
    <2> QED
      BY <2>4, <2>5
  <1>13. ASSUME NEW n \in Replica, UpdateState(n) \/ UpdateStateCrash(n) \/ Connect(n)
         PROVE  Unposted /\ Unacked
    <2>1. UNCHANGED <<pc, req, todo, write, ack, end>>
      BY <1>13 DEF UpdateState, UpdateStateCrash, Connect, threadVars, replicaVars
    <2> QED
      BY <1>2, <1>3, <2>1
  <1>14. ASSUME NEW n \in Replica, Disconnect(n) PROVE Unposted /\ Unacked
    <2>1. /\ write' = [write EXCEPT ![n] = [r \in Slot |-> "none"]]
          /\ \/ ack' = ack
             \/ ack' = [ack EXCEPT ![n] = [r \in Slot |-> IF ack[n][r] = "posted" THEN "none" ELSE ack[n][r]]]
          /\ end' = [end EXCEPT ![n] = 1]
          /\ UNCHANGED <<pc, req, todo>>
      BY <1>14 DEF Disconnect, threadVars
    <2>2. \A r \in Slot : write'[n][r] = "none"
      BY <2>1, MemoryType
    <2>3. \A m \in Replica : m # n => write'[m] = write[m] /\ ack'[m] = ack[m] /\ end'[m] = end[m]
      BY <2>1, MemoryType
    <2>4. \A m \in Replica, r \in Slot : ack[m][r] = "none" => ack'[m][r] = "none"
      BY <2>1, MemoryType, SMTT(30)
    <2> QED
      BY <1>2, <1>3, <1>4, <2>1, <2>2, <2>3, <2>4, SMTT(30)
  <1> QED
    BY <1>5, <1>6, <1>7, <1>8, <1>9, <1>10, <1>11, <1>12, <1>13, <1>14
    DEF Next, LeaderNext, ReplicaNext, Deliver

\* The types of the replica threads' variables.
LEMMA ReplicaType ==
  ASSUME IInv, NEW n \in Replica
  PROVE  /\ end[n] \in Nat /\ index[n] \in Nat /\ committed[n] \in Nat /\ committed[Leader] \in Nat
         /\ end[n] >= 1 /\ end[n] <= MaxReq + 1
         /\ committed[Leader] <= MaxReq
         /\ Len(executed[n]) \in Nat
         /\ DOMAIN rpc = Replica /\ DOMAIN end = Replica /\ DOMAIN index = Replica
         /\ DOMAIN executed = Replica /\ DOMAIN committed = Node /\ n \in Node /\ n # Leader
         /\ MaxReq \in Nat /\ Slot = 1..MaxReq
         /\ \A r \in Slot : entry[r].canbe \in Nat
  BY NodeAssumption, BoundAssumption, SMTT(30) DEF IInv, TypeOK, Replica, Slot

\* What a replica has executed is committed and settled, and so is the entry
\* that told it to.
LEMMA ExecutedSettled ==
  ASSUME IInv, NEW n \in Replica
  PROVE  /\ Len(executed[n]) <= committed[Leader]
         /\ \A i \in 1..Len(executed[n]) : i \in Slot /\ Settled(i)
         /\ \A r \in 1..end[n] - 1 : r \in Slot /\ Settled(r)
  <1>0. ExecutedOf(n) /\ EntryInv
    BY DEF IInv, ExecInv
  <1>1. \A r \in 1..end[n] - 1 : r \in Slot /\ Settled(r)
    BY <1>0, ReplicaType, SMTT(30) DEF ExecutedOf, EntryInv
  <1>2. Len(executed[n]) <= committed[Leader]
    <2>1. CASE rpc[n] = "scan"
      BY <1>0, <2>1, ReplicaType DEF ExecutedOf
    <2>2. CASE rpc[n] # "scan"
      <3>1. end[n] - 1 \in Slot
        BY <1>0, <2>2, ReplicaType, SMTT(30) DEF ExecutedOf
      <3>2. entry[end[n] - 1].canbe <= committed[Leader]
        BY <1>0, <3>1 DEF EntryInv
      <3> QED
        BY <1>0, <2>2, <3>1, <3>2, ReplicaType, SMTT(30) DEF ExecutedOf
    <2> QED
      BY <2>1, <2>2
  <1>3. \A i \in 1..Len(executed[n]) : i \in Slot /\ Settled(i)
    BY <1>0, <1>2, ReplicaType, SMTT(30) DEF EntryInv
  <1> QED
    BY <1>1, <1>2, <1>3

\* A step that leaves the replica thread of n alone.
LEMMA ExecutedFrame ==
  ASSUME IInv, Next, NEW n \in Replica,
         rpc'[n] = rpc[n], end'[n] = end[n], index'[n] = index[n],
         executed'[n] = executed[n], committed'[n] = committed[n],
         \A r \in 1..end[n] - 1 : write'[n][r] = "full"
  PROVE  ExecutedOf(n)'
  <1>0. ExecutedOf(n)
    BY DEF IInv, ExecInv
  <1>1. committed'[n] <= committed'[Leader]
    <2>1. committed'[Leader] \in Nat
      BY TypeStep, NodeAssumption, BoundAssumption, SMTT(30) DEF TypeOK
    <2> QED
      BY <1>0, <2>1, CommitGrows, ReplicaType, SMTT(30) DEF ExecutedOf
  <1>2. \A i \in 1..Len(executed[n]) : entry'[i] = entry[i]
    BY ExecutedSettled, SettledStays
  <1>3. end[n] > 1 => entry'[end[n] - 1] = entry[end[n] - 1]
    BY ExecutedSettled, SettledStays, ReplicaType, SMTT(30)
  <1> QED
    BY <1>0, <1>1, <1>2, <1>3 DEF ExecutedOf

\* Replicas execute the leader's order.
LEMMA ExecStep == IInv /\ Next => ExecInv'
  <1> SUFFICES ASSUME IInv, Next, NEW n \in Replica PROVE ExecutedOf(n)'
    BY DEF ExecInv
  <1>0. ExecutedOf(n) /\ EntryInv /\ PostedOnceInv
    BY DEF IInv, ExecInv
  <1>1. \A r \in 1..end[n] - 1 : r \in Slot /\ write[n][r] = "full"
    BY <1>0, ExecutedSettled DEF ExecutedOf
  <1>2. ASSUME NEW t \in Thread,
               Submit(t) \/ (\E d \in Data : Store(t, d) \/ StoreFailure(t, d)) \/ Recheck(t) \/ ReadCommitted(t)
        PROVE  ExecutedOf(n)'
    <2>1. UNCHANGED <<write, committed, replicaVars>>
      BY <1>2 DEF Submit, Store, StoreFailure, Recheck, ReadCommitted
    <2> QED
      BY <1>1, <2>1, ExecutedFrame DEF replicaVars
  <1>3. ASSUME NEW t \in Thread, WriteCommitted(t) PROVE ExecutedOf(n)'
    <2>1. committed' = [committed EXCEPT ![Leader] = tmp[t] + 1] /\ UNCHANGED <<write, replicaVars>>
      BY <1>3 DEF WriteCommitted
    <2>2. committed'[n] = committed[n]
      BY <2>1, ReplicaType
    <2> QED
      BY <1>1, <2>1, <2>2, ExecutedFrame DEF replicaVars
  <1>4. ASSUME NEW t \in Thread, NEW m \in Replica, Post(t, m) PROVE ExecutedOf(n)'
    <2>1. /\ pc[t] = "post" /\ m \in todo[t]
          /\ write' = write \/ write' = [write EXCEPT ![m][req[t]] = "posted"]
          /\ UNCHANGED <<committed, replicaVars>>
      BY <1>4 DEF Post
    <2>2. write[m][req[t]] = "none" /\ req[t] \in Slot
      BY <1>0, <2>1, RunningInSlot DEF PostedOnceInv
    <2>3. \A r \in 1..end[n] - 1 : write'[n][r] = "full"
      BY <1>1, <2>1, <2>2, MemoryType, SMTT(30)
    <2> QED
      BY <2>1, <2>3, ExecutedFrame DEF replicaVars
  <1>5. ASSUME NEW m \in Replica, NEW s \in Slot, Deliver(m, s) PROVE ExecutedOf(n)'
    <2>1. /\ write' = write \/ (write[m][s] # "full" /\ \E x : write' = [write EXCEPT ![m][s] = x])
          /\ UNCHANGED <<committed, replicaVars>>
      BY <1>5 DEF Deliver, DeliverWrite, DeliverAck
    <2>2. \A r \in 1..end[n] - 1 : write'[n][r] = "full"
      BY <1>1, <2>1, MemoryType, SMTT(30)
    <2> QED
      BY <2>1, <2>2, ExecutedFrame DEF replicaVars
  <1>6. ASSUME NEW m \in Replica, m # n,
               Accept(m) \/ UpdateState(m) \/ UpdateStateCrash(m) \/ Disconnect(m)
        PROVE  ExecutedOf(n)'
    <2>1. /\ \/ rpc' = rpc \/ \E x : rpc' = [rpc EXCEPT ![m] = x]
          /\ \/ end' = end \/ \E x : end' = [end EXCEPT ![m] = x]
          /\ \/ index' = index \/ \E x : index' = [index EXCEPT ![m] = x]
          /\ \/ executed' = executed \/ \E x : executed' = [executed EXCEPT ![m] = x]
          /\ \/ committed' = committed \/ \E x : committed' = [committed EXCEPT ![m] = x]
          /\ \/ write' = write \/ \E x : write' = [write EXCEPT ![m] = x]
      <3>1. CASE Accept(m)
        BY <3>1 DEF Accept
      <3>2. CASE UpdateState(m)
        BY <3>2 DEF UpdateState
      <3>3. CASE UpdateStateCrash(m)
        BY <3>3 DEF UpdateStateCrash
      <3>4. CASE Disconnect(m)
        BY <3>4 DEF Disconnect
      <3> QED
        BY <1>6, <3>1, <3>2, <3>3, <3>4
    <2>2. /\ rpc'[n] = rpc[n] /\ end'[n] = end[n] /\ index'[n] = index[n]
          /\ executed'[n] = executed[n] /\ committed'[n] = committed[n] /\ write'[n] = write[n]
      BY <1>6, <2>1, ReplicaType, MemoryType
    <2> QED
      BY <1>1, <2>2, ExecutedFrame
  <1>7. CASE Accept(n)
    <2>1. /\ rpc[n] = "scan" /\ end[n] \in Slot /\ write[n][end[n]] = "full"
          /\ end' = [end EXCEPT ![n] = end[n] + 1]
          /\ \/ /\ entry[end[n]].canbe > committed[n]
                /\ index' = [index EXCEPT ![n] = committed[n] + 1]
                /\ rpc' = [rpc EXCEPT ![n] = "exec"]
             \/ UNCHANGED <<index, rpc>>
          /\ UNCHANGED <<committed, entry, write, executed>>
      BY <1>7 DEF Accept, Complete
    <2>2. end'[n] = end[n] + 1
      BY <2>1, ReplicaType
    <2>3. \A r \in 1..end'[n] - 1 : write'[n][r] = "full"
      BY <1>1, <2>1, <2>2, ReplicaType, SMTT(30)
    <2>4. CASE UNCHANGED <<index, rpc>>
      BY <1>0, <2>1, <2>3, <2>4 DEF ExecutedOf
    <2>5. CASE /\ entry[end[n]].canbe > committed[n]
               /\ index' = [index EXCEPT ![n] = committed[n] + 1]
               /\ rpc' = [rpc EXCEPT ![n] = "exec"]
      <3>1. index'[n] = committed[n] + 1 /\ rpc'[n] = "exec"
        BY <2>5, ReplicaType
      <3>2. Len(executed[n]) = committed[n]
        BY <1>0, <2>1 DEF ExecutedOf
      <3>3. entry[end'[n] - 1].canbe \in Nat /\ end'[n] - 1 = end[n] /\ end'[n] > 1
        BY <2>1, <2>2, ReplicaType, SMTT(30)
      <3> QED
        <4> DEFINE canbe == entry[end[n]].canbe
        <4>1. /\ committed'[n] = committed[n] /\ committed'[Leader] = committed[Leader]
              /\ executed' = executed /\ entry' = entry
          BY <2>1
        <4>2. entry'[end'[n] - 1].canbe = canbe /\ canbe \in Nat /\ canbe > committed[n]
          BY <2>5, <3>3, <4>1
        <4>3. committed[n] \in Nat /\ committed[n] <= committed[Leader]
          BY <1>0, ReplicaType DEF ExecutedOf
        <4> HIDE DEF canbe
        <4>4. /\ committed'[n] < index'[n] /\ index'[n] <= entry'[end'[n] - 1].canbe
              /\ Len(executed'[n]) = index'[n] - 1
          BY <3>1, <3>2, <4>1, <4>2, <4>3, SMTT(30)
        <4>5. \A i \in 1..Len(executed'[n]) : executed'[n][i] = entry'[i].data
          BY <1>0, <4>1 DEF ExecutedOf
        <4> QED
          BY <2>3, <3>1, <3>3, <4>1, <4>3, <4>4, <4>5 DEF ExecutedOf
    <2> QED
      BY <2>1, <2>4, <2>5
  <1>8. CASE UpdateState(n)
    <2> DEFINE last == entry[end[n] - 1].canbe
    <2>1. /\ rpc[n] = "exec" /\ db[n][index[n]] # NoRecord
          /\ executed' = [executed EXCEPT ![n] = Append(executed[n], db[n][index[n]])]
          /\ index' = [index EXCEPT ![n] = index[n] + 1]
          /\ \/ index[n] < last /\ UNCHANGED <<rpc, committed>>
             \/ /\ ~(index[n] < last)
                /\ rpc' = [rpc EXCEPT ![n] = "scan"]
                /\ committed' = [committed EXCEPT ![n] = last]
          /\ UNCHANGED <<entry, write, end>>
      BY <1>8 DEF UpdateState
    <2>2. /\ end[n] > 1 /\ committed[n] < index[n] /\ index[n] <= last
          /\ Len(executed[n]) = index[n] - 1 /\ committed[n] <= committed[Leader]
      BY <1>0, <2>1 DEF ExecutedOf
    <2>t. /\ end[n] \in Nat /\ index[n] \in Nat /\ committed[n] \in Nat /\ committed[Leader] \in Nat
          /\ end[n] <= MaxReq + 1 /\ committed[Leader] <= MaxReq /\ MaxReq \in Nat /\ Slot = 1..MaxReq
      BY ReplicaType
    <2>3. end[n] - 1 \in Slot /\ last \in Nat /\ last <= committed[Leader] /\ index[n] \in Slot
      <3>1. end[n] - 1 \in Slot
        BY <2>2, <2>t, SMTT(30)
      <3>2. last \in Nat /\ last <= committed[Leader]
        BY <1>0, <3>1, ReplicaType DEF EntryInv
      <3> QED
        BY <2>2, <2>t, <3>1, <3>2, SMTT(30)
    <2>4. db[n][index[n]] = entry[index[n]].data
      BY <1>0, <2>1, <2>3, ReplicaType DEF EntryInv
    <2>5. executed[n] \in Seq(Data \cup {Torn})
      BY DEF IInv, TypeOK
    <2>6. /\ Len(executed'[n]) = index[n]
          /\ \A i \in 1..Len(executed'[n]) : executed'[n][i] = entry[i].data
      <3>1. executed'[n] = Append(executed[n], db[n][index[n]])
        BY <2>1, ReplicaType
      <3>2. Len(executed'[n]) = index[n]
        BY <2>2, <2>3, <2>5, <3>1, ReplicaType, SMTT(30)
      <3>3. /\ \A i \in 1..Len(executed[n]) : executed'[n][i] = executed[n][i]
            /\ executed'[n][Len(executed[n]) + 1] = db[n][index[n]]
        BY <2>5, <3>1, SMTT(30)
      <3>4. \A i \in 1..Len(executed[n]) : executed[n][i] = entry[i].data
        BY <1>0 DEF ExecutedOf
      <3>5. index[n] = Len(executed[n]) + 1 /\ index[n] \in Nat
        BY <2>2, ReplicaType, SMTT(30)
      <3> QED
        BY <2>4, <3>2, <3>3, <3>4, <3>5, ReplicaType, SMTT(30)
    <2>7. index'[n] = index[n] + 1
      BY <2>1, ReplicaType
    <2>8. \A r \in 1..end'[n] - 1 : write'[n][r] = "full"
      BY <1>1, <2>1
    <2>9. CASE index[n] < last /\ UNCHANGED <<rpc, committed>>
      <3>1. rpc'[n] = "exec" /\ committed'[n] = committed[n] /\ committed'[Leader] = committed[Leader]
        BY <2>1, <2>9
      <3>2. committed'[n] < index'[n] /\ index'[n] <= last /\ Len(executed'[n]) = index'[n] - 1
        <4> HIDE DEF last
        <4>1. Len(executed'[n]) = index[n] /\ last \in Nat
          BY <2>3, <2>6
        <4>2. committed[n] < index[n] /\ index[n] < last
          BY <2>2, <2>9
        <4> QED
          BY <2>7, <2>t, <3>1, <4>1, <4>2, SMTT(30)
      <3>3. end'[n] = end[n] /\ entry' = entry
        BY <2>1
      <3> QED
        BY <2>2, <2>3, <2>6, <2>8, <3>1, <3>2, <3>3 DEF ExecutedOf
    <2>10. CASE /\ ~(index[n] < last)
                /\ rpc' = [rpc EXCEPT ![n] = "scan"]
                /\ committed' = [committed EXCEPT ![n] = last]
      <3>1. rpc'[n] = "scan" /\ committed'[n] = last /\ committed'[Leader] = committed[Leader] /\ last = index[n]
        <4> HIDE DEF last
        <4>1. last \in Nat /\ index[n] <= last /\ ~(index[n] < last)
          BY <2>2, <2>3, <2>10
        <4>2. last = index[n]
          BY <2>t, <4>1, SMTT(30)
        <4>3. DOMAIN rpc = Replica /\ DOMAIN committed = Node /\ n \in Node /\ n # Leader
          BY ReplicaType
        <4>4. rpc'[n] = "scan" /\ committed'[n] = last /\ committed'[Leader] = committed[Leader]
          BY <2>10, <4>3, SMTT(30)
        <4> QED
          BY <4>2, <4>4
      <3> QED
        BY <2>1, <2>3, <2>6, <2>8, <3>1 DEF ExecutedOf
    <2> QED
      BY <2>1, <2>9, <2>10
  <1>9. CASE UpdateStateCrash(n)
    <2>1. rpc[n] = "exec" /\ rpc' = [rpc EXCEPT ![n] = "crashed"]
          /\ UNCHANGED <<committed, entry, write, end, index, executed>>
      BY <1>9 DEF UpdateStateCrash
    <2>2. rpc'[n] = "crashed"
      BY <2>1, ReplicaType
    <2> QED
      BY <1>0, <2>1, <2>2 DEF ExecutedOf
  <1>10. CASE Disconnect(n)
    <2>1. rpc[n] = "scan" /\ end' = [end EXCEPT ![n] = 1]
          /\ UNCHANGED <<committed, entry, rpc, index, executed>>
      BY <1>10 DEF Disconnect
    <2>2. end'[n] = 1
      BY <2>1, ReplicaType
    <2> QED
      BY <1>0, <2>1, <2>2, SMTT(30) DEF ExecutedOf
  <1>11. ASSUME NEW m \in Replica, Connect(m) PROVE ExecutedOf(n)'
    BY <1>1, <1>11, ExecutedFrame DEF Connect, replicaVars
  <1> QED
    BY <1>2, <1>3, <1>4, <1>5, <1>6, <1>7, <1>8, <1>9, <1>10, <1>11
    DEF Next, LeaderNext, ReplicaNext

\* The invariant is inductive.
LEMMA IInvStep == IInv /\ [Next]_vars => IInv'
  <1>1. CASE Next
    BY <1>1, TypeStep, NumbersStep, EntryStep, PostedOnceStep, ExecStep DEF IInv
  <1>2. CASE UNCHANGED vars
    <2> USE <1>2 DEF vars, threadVars, replicaVars
    <2>1. TypeOK => TypeOK'
      BY DEF TypeOK
    <2>2. NumbersInv => NumbersInv'
      BY DEF NumbersInv, IncrementNotLost
    <2>3. EntryInv => EntryInv'
      BY DEF EntryInv, Settled
    <2>4. PostedOnceInv => PostedOnceInv'
      BY DEF PostedOnceInv
    <2>5. ExecInv => ExecInv'
      BY DEF ExecInv, ExecutedOf
    <2> QED
      BY <2>1, <2>2, <2>3, <2>4, <2>5 DEF IInv
  <1> QED
    BY <1>1, <1>2

\* Request numbers, entries, postings and executions stay consistent with one
\* another in every behaviour of the leader's threads and the replicas.
THEOREM Invariant == Spec => []IInv
  BY InitIInv, IInvStep, PTL DEF Spec

\* Every variable keeps its type: in particular no commit point, log position
\* or execution index leaves its range.
THEOREM TypeCorrect == Spec => []TypeOK
  <1>1. IInv => TypeOK
    BY DEF IInv
  <1> QED
    BY <1>1, Invariant, PTL

\* The unlocked increment of the leader's commit point loses no update, however
\* many threads submit: the wait for the requests before it serialises them.
THEOREM NoLostIncrement == Spec => []IncrementNotLost
  <1>1. IInv => IncrementNotLost
    BY DEF IInv, NumbersInv
  <1> QED
    BY <1>1, Invariant, PTL

\* Unless store_record fails on the leader, rsm_op returns only once its request
\* and all the earlier ones are committed.
THEOREM ReturnsCommitted ==
  ASSUME ~LeaderStoreFails PROVE Spec => []ReturnedIsCommitted
  <1>1. IInv => ReturnedIsCommitted
    BY DEF IInv, NumbersInv, ReturnedIsCommitted
  <1> QED
    BY <1>1, Invariant, PTL

-----------------------------------------------------------------------------
(* What replicas have recorded, when store_record does not fail on them. *)

\* Nothing is acked before the first request.
LEMMA RecordedInit == Init => RecordedInv
  BY NodeAssumption, BoundAssumption, SMTT(30) DEF Init, RecordedInv, ExecutesOnlyStored, Replica, Slot

\* No record is ever removed.
LEMMA RecordsStay ==
  ASSUME IInv, Next, NEW n \in Node, NEW r \in Slot, db[n][r] # NoRecord
  PROVE  db'[n][r] # NoRecord
  <1>1. ASSUME NEW t \in Thread, NEW d \in Data, Store(t, d) PROVE db'[n][r] # NoRecord
    <2>1. db' = [db EXCEPT ![Leader][req[t]] = d]
      BY <1>1 DEF Store
    <2> QED
      BY <2>1, MemoryType, DataAssumption
  <1>2. ASSUME NEW m \in Replica, Accept(m) PROVE db'[n][r] # NoRecord
    <2>1. /\ end[m] \in Slot /\ write[m][end[m]] = "full"
          /\ db' = db \/ db' = [db EXCEPT ![m][end[m]] = entry[end[m]].data]
      BY <1>2 DEF Accept, Complete, Stored, Content
    <2>2. entry[end[m]].data \in Data
      BY <2>1 DEF IInv, EntryInv, Settled
    <2> QED
      BY <2>1, <2>2, MemoryType, DataAssumption, SMTT(30)
  <1>3. ASSUME NEW t \in Thread, Submit(t) \/ Recheck(t) \/ ReadCommitted(t) \/ WriteCommitted(t) PROVE db' = db
    BY <1>3 DEF Submit, Recheck, ReadCommitted, WriteCommitted
  <1>4. ASSUME NEW t \in Thread, NEW d \in Data, StoreFailure(t, d) PROVE db' = db
    BY <1>4 DEF StoreFailure
  <1>5. ASSUME NEW t \in Thread, NEW m \in Replica, Post(t, m) PROVE db' = db
    BY <1>5 DEF Post
  <1>6. ASSUME NEW m \in Replica, NEW s \in Slot, Deliver(m, s) PROVE db' = db
    BY <1>6 DEF Deliver, DeliverWrite, DeliverAck
  <1>7. ASSUME NEW m \in Replica, UpdateState(m) \/ UpdateStateCrash(m) \/ Connect(m) \/ Disconnect(m)
        PROVE  db' = db
    BY <1>7 DEF UpdateState, UpdateStateCrash, Connect, Disconnect
  <1> QED
    BY <1>1, <1>2, <1>3, <1>4, <1>5, <1>6, <1>7 DEF Next, LeaderNext, ReplicaNext

\* A replica stores an entry before it acks it or moves past it.
LEMMA RecordedStep ==
  ASSUME ~ReplicaStoreFails
  PROVE  IInv /\ RecordedInv /\ [Next]_vars => RecordedInv'
  <1> SUFFICES ASSUME IInv, RecordedInv, Next PROVE RecordedInv'
    <2>1. RecordedInv /\ UNCHANGED vars => RecordedInv'
      BY DEF RecordedInv, ExecutesOnlyStored, vars, replicaVars
    <2> QED
      BY <2>1
  <1>0. ExecInv /\ EntryInv
    BY DEF IInv
  <1>1. \A n \in Node, r \in Slot : db[n][r] # NoRecord => db'[n][r] # NoRecord
    BY RecordsStay
  \* An action has to be examined for the acks it posts, the entries it moves
  \* past, and a crash.
  <1> DEFINE Same(n) ==
        /\ \A r \in Slot : ack'[n][r] # "none" => ack[n][r] # "none"
        /\ end'[n] = end[n] \/ end'[n] = 1
        /\ rpc'[n] # "crashed"
  <1>2. ASSUME NEW n \in Replica, Same(n)
        PROVE  /\ \A r \in Slot : ack'[n][r] # "none" => db'[n][r] # NoRecord
               /\ \A r \in 1..end'[n] - 1 : db'[n][r] # NoRecord
               /\ rpc'[n] # "crashed"
    <2>1. \A r \in 1..end[n] - 1 : r \in Slot /\ db[n][r] # NoRecord
      BY ExecutedSettled DEF RecordedInv
    <2> QED
      BY <1>1, <1>2, <2>1, MemoryType, SMTT(30) DEF RecordedInv
  <1>3. ASSUME \A n \in Replica : Same(n) PROVE RecordedInv'
    BY <1>2, <1>3 DEF RecordedInv, ExecutesOnlyStored
  <1>4. \A n \in Replica : rpc[n] # "crashed"
    BY DEF RecordedInv, ExecutesOnlyStored
  <1>5. ASSUME UNCHANGED <<ack, replicaVars>> PROVE RecordedInv'
    BY <1>3, <1>4, <1>5 DEF replicaVars
  <1>6. ASSUME NEW t \in Thread, LeaderNext(t) PROVE RecordedInv'
    BY <1>5, <1>6 DEF LeaderNext, Submit, Store, StoreFailure, Post, Recheck, ReadCommitted, WriteCommitted
  <1>7. ASSUME NEW n \in Replica, NEW s \in Slot, Deliver(n, s) PROVE RecordedInv'
    <2>1. /\ ack' = ack \/ (ack[n][s] # "none" /\ \E x : ack' = [ack EXCEPT ![n][s] = x])
          /\ UNCHANGED replicaVars
      BY <1>7 DEF Deliver, DeliverWrite, DeliverAck
    <2> QED
      BY <1>3, <1>4, <2>1, MemoryType, SMTT(30) DEF replicaVars
  <1>8. ASSUME NEW n \in Replica, Accept(n) PROVE RecordedInv'
    <2>1. /\ end[n] \in Slot /\ write[n][end[n]] = "full"
          /\ db' = [db EXCEPT ![n][end[n]] = entry[end[n]].data]
          /\ end' = [end EXCEPT ![n] = end[n] + 1]
          /\ ack' = [ack EXCEPT ![n][end[n]] = "posted"]
          /\ rpc' = rpc \/ rpc' = [rpc EXCEPT ![n] = "exec"]
      BY <1>8 DEF Accept, Complete, Stored, Content
    <2>2. db'[n][end[n]] # NoRecord
      <3>1. entry[end[n]].data \in Data
        BY <1>0, <2>1 DEF EntryInv, Settled
      <3> QED
        BY <2>1, <3>1, MemoryType, DataAssumption
    <2>3. \A m \in Replica : m # n => Same(m)
      BY <1>4, <2>1, MemoryType, ReplicaType
    <2>4. \A r \in 1..end[n] - 1 : r \in Slot /\ db'[n][r] # NoRecord
      BY <1>1, ExecutedSettled, MemoryType DEF RecordedInv
    <2>5. end'[n] = end[n] + 1
      BY <2>1, MemoryType
    <2>6. \A r \in 1..end'[n] - 1 : db'[n][r] # NoRecord
      BY <2>2, <2>4, <2>5, ReplicaType, SMTT(30)
    <2>7. \A r \in Slot : ack'[n][r] # "none" => db'[n][r] # NoRecord
      BY <1>1, <2>1, <2>2, MemoryType DEF RecordedInv
    <2>8. rpc'[n] # "crashed"
      BY <1>4, <2>1, ReplicaType
    <2> QED
      BY <1>2, <2>3, <2>6, <2>7, <2>8 DEF RecordedInv, ExecutesOnlyStored
  <1>9. ASSUME NEW n \in Replica, UpdateState(n) PROVE RecordedInv'
    <2>1. /\ rpc' = rpc \/ rpc' = [rpc EXCEPT ![n] = "scan"]
          /\ UNCHANGED <<ack, end>>
      BY <1>9 DEF UpdateState
    <2> QED
      BY <1>3, <1>4, <2>1, ReplicaType
  <1>10. ASSUME NEW n \in Replica PROVE ~UpdateStateCrash(n)
    <2> SUFFICES ASSUME rpc[n] = "exec", db[n][index[n]] = NoRecord PROVE FALSE
      BY DEF UpdateStateCrash
    <2>1. end[n] > 1 /\ committed[n] < index[n] /\ index[n] <= entry[end[n] - 1].canbe
      BY <1>0 DEF ExecInv, ExecutedOf
    <2>t. /\ end[n] \in Nat /\ index[n] \in Nat /\ committed[n] \in Nat /\ committed[Leader] \in Nat
          /\ end[n] <= MaxReq + 1 /\ committed[Leader] <= MaxReq /\ MaxReq \in Nat /\ Slot = 1..MaxReq
      BY ReplicaType
    <2>2. end[n] - 1 \in Slot
      BY <2>1, <2>t, SMTT(30)
    <2>3. entry[end[n] - 1].canbe < end[n] - 1 /\ entry[end[n] - 1].canbe \in Nat
      BY <1>0, <2>2, ReplicaType DEF EntryInv
    <2>4. index[n] \in 1..end[n] - 1
      BY <2>1, <2>3, <2>t, SMTT(30)
    <2> QED
      BY <2>4 DEF RecordedInv
  <1>11. ASSUME NEW n \in Replica, Connect(n) PROVE RecordedInv'
    BY <1>5, <1>11 DEF Connect
  <1>12. ASSUME NEW n \in Replica, Disconnect(n) PROVE RecordedInv'
    <2>1. /\ \/ ack' = ack
             \/ ack' = [ack EXCEPT ![n] = [r \in Slot |-> IF ack[n][r] = "posted" THEN "none" ELSE ack[n][r]]]
          /\ end' = [end EXCEPT ![n] = 1]
          /\ rpc' = rpc
      BY <1>12 DEF Disconnect
    <2> QED
      BY <1>3, <1>4, <2>1, MemoryType, SMTT(30)
  <1> QED
    BY <1>6, <1>7, <1>8, <1>9, <1>10, <1>11, <1>12 DEF Next, ReplicaNext

\* Without failures of store_record a replica never runs into a missing record:
\* the commit point an entry carries never lies past what the replica stored.
THEOREM NeverMissing ==
  ASSUME ~ReplicaStoreFails PROVE Spec => []ExecutesOnlyStored
  <1>1. IInv /\ RecordedInv /\ [Next]_vars => RecordedInv'
    BY RecordedStep
  <1>2. RecordedInv => ExecutesOnlyStored
    BY DEF RecordedInv
  <1> QED
    BY <1>1, <1>2, RecordedInit, Invariant, PTL DEF Spec

\* Without failures of store_record an ack stands for a recorded request.
THEOREM AckIsRecord ==
  ASSUME ~ReplicaStoreFails PROVE Spec => []AckedIsRecorded
  <1>1. IInv /\ RecordedInv /\ [Next]_vars => RecordedInv'
    BY RecordedStep
  <1>2. IInv /\ RecordedInv => AckedIsRecorded
    BY NodeAssumption DEF RecordedInv, IInv, EntryInv, AckedIsRecorded, Replica
  <1> QED
    BY <1>1, <1>2, RecordedInit, Invariant, PTL DEF Spec

-----------------------------------------------------------------------------
(* A commit is a Choose, ucb(index) an Execute, and every other step leaves *)
(* the order and the executions alone.                                      *)

\* Append adds one element.
LEMMA Appended ==
  ASSUME NEW S, NEW s \in Seq(S), NEW x \in S
  PROVE  /\ Append(s, x) \in Seq(S) /\ Len(Append(s, x)) = Len(s) + 1
         /\ Append(s, x)[Len(s) + 1] = x
         /\ \A i \in 1 .. Len(s) : Append(s, x)[i] = s[i]
  BY SMTT(30)

\* Sequences are equal when their elements are.
LEMMA SameSeq ==
  ASSUME NEW S, NEW s \in Seq(S), NEW t \in Seq(S), Len(s) = Len(t), \A i \in 1 .. Len(s) : s[i] = t[i]
  PROVE  s = t
  BY SMTT(30)

\* Only the empty sequence has no element.
LEMMA NoElements ==
  ASSUME NEW S, NEW s \in Seq(S), Len(s) = 0
  PROVE  s = <<>>
  BY SMTT(30)

\* The committed requests form a sequence of data.
LEMMA ChosenSeq ==
  ASSUME IInv PROVE Chosen \in Seq(Data) /\ Len(Chosen) = committed[Leader]
  <1>1. committed[Leader] \in Nat /\ 1..committed[Leader] \subseteq Slot
    BY NodeAssumption, BoundAssumption, SMTT(30) DEF IInv, TypeOK, Slot
  <1>2. \A r \in 1..committed[Leader] : entry[r].data \in Data
    BY <1>1 DEF IInv, EntryInv, Settled
  <1> QED
    BY <1>1, <1>2, SMTT(30) DEF Chosen

\* The order keeps what it has: it stays as it is until the next commit.
LEMMA ChosenStays ==
  ASSUME IInv, Next, committed'[Leader] = committed[Leader]
  PROVE  Chosen' = Chosen
  <1>1. 1..committed[Leader] \subseteq Slot
    BY NodeAssumption, BoundAssumption, SMTT(30) DEF IInv, TypeOK, Slot
  <1>2. \A r \in 1..committed[Leader] : entry'[r] = entry[r]
    BY <1>1, SettledStays DEF IInv, EntryInv
  <1> QED
    BY <1>2 DEF Chosen

\* A write of the commit counter chooses, a turn of the execution loop executes,
\* and every other step stutters.
LEMMA RefinesStep == IInv /\ IInv' /\ [Next]_vars => [Abstract!Next]_<<Chosen, executed>>
  <1> SUFFICES ASSUME IInv, IInv', [Next]_vars
               PROVE  Abstract!Next \/ UNCHANGED <<Chosen, executed>>
    OBVIOUS
  <1>1. ASSUME Next, committed'[Leader] = committed[Leader], executed' = executed
        PROVE  UNCHANGED <<Chosen, executed>>
    BY <1>1, ChosenStays
  <1>2. ASSUME Next, NEW t \in Thread, WriteCommitted(t) PROVE Abstract!Choose
    <2>1. /\ pc[t] = "incr"
          /\ committed' = [committed EXCEPT ![Leader] = tmp[t] + 1]
          /\ entry' = entry /\ executed' = executed
      BY <1>2 DEF WriteCommitted, replicaVars
    <2>2. committed'[Leader] = committed[Leader] + 1
      BY <2>1, NumbersType DEF IInv, NumbersInv, IncrementNotLost
    <2>3. Chosen \in Seq(Data) /\ Len(Chosen) = committed[Leader] /\ committed[Leader] \in Nat
      BY ChosenSeq, NumbersType
    <2>4. Chosen' \in Seq(Data) /\ Len(Chosen') = committed'[Leader]
      <3>1. committed'[Leader] \in Nat /\ 1..committed'[Leader] \subseteq Slot
        BY NodeAssumption, BoundAssumption, SMTT(30) DEF IInv, TypeOK, Slot
      <3>2. \A r \in 1..committed'[Leader] : entry'[r].data \in Data
        BY <3>1 DEF IInv, EntryInv, Settled
      <3> QED
        BY <3>1, <3>2, SMTT(30) DEF Chosen
    <2> DEFINE d == entry[committed[Leader] + 1].data
    <2>5. d \in Data
      <3>1. committed[Leader] + 1 \in 1..committed'[Leader]
        BY <2>2, <2>3, SMTT(30)
      <3>2. Chosen'[committed[Leader] + 1] = d
        BY <2>1, <3>1 DEF Chosen
      <3> QED
        BY <2>3, <2>4, <3>1, <3>2, SMTT(30)
    <2>6. Chosen' = Append(Chosen, d)
      <3> HIDE DEF d
      <3>1. /\ Append(Chosen, d) \in Seq(Data) /\ Len(Append(Chosen, d)) = committed[Leader] + 1
            /\ \A i \in 1..committed[Leader] : Append(Chosen, d)[i] = Chosen[i]
            /\ Append(Chosen, d)[committed[Leader] + 1] = d
        BY <2>3, <2>5, Appended, SMTT(30)
      <3>2. \A i \in 1..committed[Leader] : Chosen'[i] = Chosen[i]
        BY <2>1, <2>2, <2>3, SMTT(30) DEF Chosen
      <3>3. Chosen'[committed[Leader] + 1] = d
        BY <2>1, <2>2, <2>3, SMTT(30) DEF Chosen, d
      <3>4. \A i \in 1..Len(Chosen') : Chosen'[i] = Append(Chosen, d)[i]
        BY <2>2, <2>3, <2>4, <3>1, <3>2, <3>3, SMTT(30)
      <3>5. Len(Chosen') = Len(Append(Chosen, d))
        BY <2>2, <2>4, <3>1
      <3> QED
        BY <2>4, <3>1, <3>4, <3>5, SameSeq
    <2> QED
      BY <2>1, <2>5, <2>6 DEF Abstract!Choose
  <1>3. ASSUME Next, NEW n \in Replica, UpdateState(n) PROVE Abstract!Execute(n)
    <2>1. /\ rpc[n] = "exec" /\ db[n][index[n]] # NoRecord
          /\ executed' = [executed EXCEPT ![n] = Append(executed[n], db[n][index[n]])]
      BY <1>3 DEF UpdateState
    <2>2. committed'[Leader] = committed[Leader]
      BY <1>3, ReplicaKeepsCommit
    <2>3. /\ end[n] > 1 /\ committed[n] < index[n] /\ index[n] <= entry[end[n] - 1].canbe
          /\ Len(executed[n]) = index[n] - 1
      BY <2>1 DEF IInv, ExecInv, ExecutedOf
    <2>t. /\ end[n] \in Nat /\ index[n] \in Nat /\ committed[n] \in Nat /\ committed[Leader] \in Nat
          /\ end[n] <= MaxReq + 1 /\ committed[Leader] <= MaxReq /\ MaxReq \in Nat /\ Slot = 1..MaxReq
      BY ReplicaType
    <2>4. end[n] - 1 \in Slot
      BY <2>3, <2>t, SMTT(30)
    <2>5. entry[end[n] - 1].canbe <= committed[Leader] /\ entry[end[n] - 1].canbe \in Nat
      BY <2>4, ReplicaType DEF IInv, EntryInv
    <2>6. index[n] \in 1..committed[Leader] /\ index[n] \in Slot /\ Len(executed[n]) + 1 = index[n]
      <3> DEFINE last == entry[end[n] - 1].canbe
      <3>1. /\ committed[n] < index[n] /\ index[n] <= last /\ last <= committed[Leader] /\ last \in Nat
            /\ Len(executed[n]) = index[n] - 1
        BY <2>3, <2>5
      <3> HIDE DEF last
      <3>2. index[n] >= 1 /\ index[n] <= committed[Leader] /\ index[n] <= MaxReq
        BY <2>t, <3>1, SMTT(30)
      <3>3. Len(executed[n]) + 1 = index[n]
        BY <2>t, <3>1, SMTT(30)
      <3> QED
        BY <2>t, <3>2, <3>3, SMTT(30)
    <2>7. db[n][index[n]] = Chosen[Len(executed[n]) + 1]
      BY <2>1, <2>6, ReplicaType, SMTT(30) DEF IInv, EntryInv, Chosen
    <2>8. Len(executed[n]) < Len(Chosen)
      BY <2>6, ChosenSeq, ReplicaType, SMTT(30)
    <2>9. Chosen' = Chosen
      BY <1>3, <2>2, ChosenStays
    <2> QED
      BY <2>1, <2>7, <2>8, <2>9 DEF Abstract!Execute
  <1>4. ASSUME NEW t \in Thread, LeaderNext(t), ~WriteCommitted(t)
        PROVE  UNCHANGED <<committed, executed>>
    BY <1>4 DEF LeaderNext, Submit, Store, StoreFailure, Post, Recheck, ReadCommitted, replicaVars
  <1>5. ASSUME NEW n \in Replica, Accept(n) \/ UpdateStateCrash(n) \/ Connect(n) \/ Disconnect(n)
        PROVE  UNCHANGED <<committed, executed>>
    BY <1>5 DEF Accept, UpdateStateCrash, Connect, Disconnect, replicaVars
  <1>6. ASSUME NEW n \in Replica, NEW r \in Slot, Deliver(n, r) PROVE UNCHANGED <<committed, executed>>
    BY <1>6 DEF Deliver, DeliverWrite, DeliverAck, replicaVars
  <1>7. CASE Next
    BY <1>1, <1>2, <1>3, <1>4, <1>5, <1>6, <1>7 DEF Next, ReplicaNext, Abstract!Next
  <1>8. CASE UNCHANGED vars
    BY <1>8 DEF vars, replicaVars, Chosen
  <1> QED
    BY <1>7, <1>8

\* Nothing is chosen and nothing executed at the start.
LEMMA RefinesInit == Init => Abstract!Init
  <1> SUFFICES ASSUME Init PROVE Chosen = <<>> /\ executed = [n \in Replica |-> <<>>]
    BY DEF Abstract!Init
  <1>1. committed[Leader] = 0
    BY NodeAssumption DEF Init
  <1>2. Chosen \in Seq(Data) /\ Len(Chosen) = 0
    BY <1>1, InitIInv, ChosenSeq
  <1> QED
    BY <1>2, NoElements DEF Init

\* The leader's threads, the replicas and the RDMA writes between them implement
\* the replicated state machine: whatever is disconnected, torn or fails, the
\* commits extend one order and each replica executes a prefix of it.
THEOREM Refinement == Spec => ImplementsRSM
  BY Invariant, RefinesInit, RefinesStep, PTL DEF Spec, ImplementsRSM, Abstract!Spec

-----------------------------------------------------------------------------
(* Quorums, when the leader is node 0. *)

\* Nothing is committed before the first request.
LEMMA QuorumInit == Init => QuorumInv
  BY NodeAssumption, BoundAssumption, SMTT(30) DEF Init, QuorumInv

\* A superset of a quorum within the group is a quorum.
LEMMA QuorumGrows ==
  ASSUME NEW S, NEW T, S \subseteq T, T \subseteq Node, reached_quorum(S)
  PROVE  reached_quorum(T)
  <1>1. IsFiniteSet(T) /\ IsFiniteSet(S)
    BY FS_Subset, NodeAssumption
  <1>2. Cardinality(S) <= Cardinality(T)
    BY <1>1, FS_Subset
  <1>3. Cardinality(S) \in Nat /\ Cardinality(T) \in Nat /\ Cardinality(Node) \in Nat
    BY <1>1, NodeAssumption, FS_CardinalityType
  <1> QED
    BY <1>2, <1>3, SMTT(30) DEF reached_quorum

\* An ack that has arrived stays, so the set of acking nodes only grows.
LEMMA AckedGrows ==
  ASSUME IInv, Next, NEW r \in Slot
  PROVE  Acked(r) \subseteq Acked(r)'
  <1> SUFFICES ASSUME NEW n \in Replica, ack[n][r] = "full" PROVE ack'[n][r] = "full"
    BY DEF Acked
  <1>1. ASSUME NEW t \in Thread, LeaderNext(t) PROVE ack' = ack
    BY <1>1 DEF LeaderNext, Submit, Store, StoreFailure, Post, Recheck, ReadCommitted, WriteCommitted
  <1>2. ASSUME NEW m \in Replica, NEW s \in Slot, Deliver(m, s) PROVE ack'[n][r] = "full"
    <2>1. ack' = ack \/ (ack[m][s] # "full" /\ \E x : ack' = [ack EXCEPT ![m][s] = x])
      BY <1>2 DEF Deliver, DeliverWrite, DeliverAck
    <2> QED
      BY <2>1, MemoryType, SMTT(30)
  <1>3. ASSUME NEW m \in Replica, Accept(m) PROVE ack'[n][r] = "full"
    <2>1. /\ end[m] \in Slot /\ write[m][end[m]] = "full"
          /\ ack' = [ack EXCEPT ![m][end[m]] = "posted"]
      BY <1>3 DEF Accept, Complete
    <2>2. ack[m][end[m]] = "none"
      BY <2>1, MemoryType, SMTT(30) DEF IInv, PostedOnceInv
    <2> QED
      BY <2>1, <2>2, MemoryType
  <1>4. ASSUME NEW m \in Replica, UpdateState(m) \/ UpdateStateCrash(m) \/ Connect(m) PROVE ack' = ack
    BY <1>4 DEF UpdateState, UpdateStateCrash, Connect
  <1>5. ASSUME NEW m \in Replica, Disconnect(m) PROVE ack'[n][r] = "full"
    <2>1. \/ ack' = ack
          \/ ack' = [ack EXCEPT ![m] = [s \in Slot |-> IF ack[m][s] = "posted" THEN "none" ELSE ack[m][s]]]
      BY <1>5 DEF Disconnect
    <2> QED
      BY <2>1, MemoryType, SMTT(30)
  <1> QED
    BY <1>1, <1>2, <1>3, <1>4, <1>5 DEF Next, ReplicaNext

\* A thread counts only nodes whose ack has arrived, and commits on a quorum.
LEMMA QuorumStep ==
  ASSUME NodeZero = Leader
  PROVE  IInv /\ QuorumInv /\ [Next]_vars => QuorumInv'
  <1> SUFFICES ASSUME IInv, QuorumInv, Next PROVE QuorumInv'
    <2>1. QuorumInv /\ UNCHANGED vars => QuorumInv'
      BY DEF QuorumInv, Acked, reached_quorum, vars, threadVars
    <2> QED
      BY <2>1
  <1> DEFINE Full(r) == {n \in Replica : ack'[n][r] = "full"}
      AckedNow(r) == {Leader} \cup Full(r)
  <1>1. \A r \in Slot : Acked(r) \subseteq AckedNow(r) /\ AckedNow(r) \subseteq Node
    BY AckedGrows, MemoryType DEF Acked
  <1>2. \A r \in Slot : reached_quorum(Acked(r)) => reached_quorum(AckedNow(r))
    <2> SUFFICES ASSUME NEW r \in Slot, reached_quorum(Acked(r)) PROVE reached_quorum(AckedNow(r))
      OBVIOUS
    <2> HIDE DEF AckedNow
    <2> QED
      BY <1>1, QuorumGrows
  <1>3. \A t \in Thread : pc[t] # "idle" => req[t] \in Slot
    BY RunningInSlot
  <1>4. \A t \in Thread :
          /\ pc[t] \notin {"idle", "fill"} => bitMap[t] \subseteq AckedNow(req[t])
          /\ pc[t] \in {"turn", "incr"} => reached_quorum(AckedNow(req[t]))
    <2> HIDE DEF AckedNow
    <2> QED
      BY <1>1, <1>2, <1>3 DEF QuorumInv
  <1>5. 1..committed[Leader] \subseteq Slot
    BY NodeAssumption, BoundAssumption, SMTT(30) DEF IInv, TypeOK, Slot
  <1>6. \A r \in 1..committed[Leader] : db'[Leader][r] # NoRecord /\ reached_quorum(AckedNow(r))
    <2> HIDE DEF AckedNow
    <2> QED
      BY <1>2, <1>5, RecordsStay, NodeAssumption DEF QuorumInv
  <1> DEFINE Threads ==
        \A u \in Thread :
          /\ pc'[u] \notin {"idle", "fill"} => bitMap'[u] \subseteq AckedNow(req'[u])
          /\ pc'[u] \in {"turn", "incr"} => reached_quorum(AckedNow(req'[u]))
      Commit ==
        \/ committed'[Leader] = committed[Leader]
        \/ \E r \in Slot :
             /\ r = committed[Leader] + 1 /\ committed'[Leader] = r
             /\ db'[Leader][r] # NoRecord /\ reached_quorum(AckedNow(r))
  <1>7. SUFFICES Threads /\ Commit
    <2>1. \A r \in 1..committed'[Leader] : db'[Leader][r] # NoRecord /\ reached_quorum(AckedNow(r))
      <3> HIDE DEF AckedNow
      <3>1. committed[Leader] \in Nat
        BY NumbersType
      <3>2. CASE committed'[Leader] = committed[Leader]
        BY <1>6, <3>2
      <3>3. ASSUME NEW q \in Slot, q = committed[Leader] + 1, committed'[Leader] = q,
                   db'[Leader][q] # NoRecord, reached_quorum(AckedNow(q)),
                   NEW r \in 1..committed'[Leader]
            PROVE  db'[Leader][r] # NoRecord /\ reached_quorum(AckedNow(r))
        <4>1. r = q \/ r \in 1..committed[Leader]
          BY <3>1, <3>3, SMTT(30)
        <4> QED
          BY <1>6, <3>3, <4>1
      <3> QED
        BY <1>7, <3>2, <3>3
    <2> QED
      BY <1>7, <2>1 DEF QuorumInv, Acked, reached_quorum
  <1> HIDE DEF AckedNow
  <1>bm. DOMAIN bitMap = Thread
    BY DEF IInv, TypeOK
  <1>8. ASSUME UNCHANGED <<pc, req, bitMap>>, committed'[Leader] = committed[Leader] PROVE Threads /\ Commit
    BY <1>4, <1>8
  <1>9. ASSUME NEW t \in Thread, Submit(t) PROVE Threads /\ Commit
    <2>1. /\ pc' = [pc EXCEPT ![t] = "fill"]
          /\ req' = [req EXCEPT ![t] = seen[Leader] + 1]
          /\ UNCHANGED <<bitMap, committed>>
      BY <1>9 DEF Submit
    <2> QED
      BY <1>4, <2>1, NumbersType
  <1>10. ASSUME NEW t \in Thread, NEW d \in Data, Store(t, d) PROVE Threads /\ Commit
    <2>1. /\ pc' = [pc EXCEPT ![t] = "post"]
          /\ bitMap' = [bitMap EXCEPT ![t] = {Leader}]
          /\ UNCHANGED <<req, committed>>
      BY <1>10 DEF Store
    <2>2. Leader \in AckedNow(req[t])
      BY DEF AckedNow
    <2> QED
      BY <1>4, <1>bm, <2>1, <2>2, NumbersType
  <1>11. ASSUME NEW t \in Thread, NEW d \in Data, StoreFailure(t, d) PROVE Threads /\ Commit
    <2>1. /\ pc' = [pc EXCEPT ![t] = "idle"]
          /\ UNCHANGED <<req, bitMap, committed>>
      BY <1>11 DEF StoreFailure
    <2> QED
      BY <1>4, <2>1, NumbersType
  <1>12. ASSUME NEW t \in Thread, NEW n \in Replica, Post(t, n) PROVE Threads /\ Commit
    <2>1. /\ pc[t] = "post" /\ (pc' = pc \/ pc' = [pc EXCEPT ![t] = "poll"])
          /\ UNCHANGED <<req, bitMap, committed>>
      BY <1>12 DEF Post
    <2> QED
      BY <1>4, <2>1, NumbersType
  <1>13. ASSUME NEW t \in Thread, Recheck(t) PROVE Threads /\ Commit
    <2>1. /\ pc[t] = "poll"
          /\ bitMap' = [bitMap EXCEPT ![t] = bitMap[t] \cup Counted(req[t])]
          /\ \/ pc' = pc
             \/ reached_quorum(bitMap'[t]) /\ pc' = [pc EXCEPT ![t] = "turn"]
          /\ UNCHANGED <<req, committed, ack>>
      BY <1>13 DEF Recheck
    <2>2. Counted(req[t]) \subseteq AckedNow(req[t])
      BY <2>1 DEF Counted, AckedNow
    <2>3. bitMap'[t] \subseteq AckedNow(req[t]) /\ \A u \in Thread : u # t => bitMap'[u] = bitMap[u]
      BY <1>4, <1>bm, <2>1, <2>2
    <2>4. reached_quorum(bitMap'[t]) => reached_quorum(AckedNow(req[t]))
      BY <1>1, <1>3, <2>1, <2>3, QuorumGrows
    <2> QED
      BY <1>4, <2>1, <2>3, <2>4, NumbersType
  <1>14. ASSUME NEW t \in Thread, ReadCommitted(t) PROVE Threads /\ Commit
    <2>1. /\ pc[t] = "turn" /\ pc' = [pc EXCEPT ![t] = "incr"]
          /\ UNCHANGED <<req, bitMap, committed>>
      BY <1>14 DEF ReadCommitted
    <2> QED
      BY <1>4, <2>1, NumbersType
  <1>15. ASSUME NEW t \in Thread, WriteCommitted(t) PROVE Threads /\ Commit
    <2>1. /\ pc[t] = "incr"
          /\ committed' = [committed EXCEPT ![Leader] = tmp[t] + 1]
          /\ pc' = [pc EXCEPT ![t] = "idle"]
          /\ UNCHANGED <<req, bitMap, db>>
      BY <1>15 DEF WriteCommitted
    <2>2. tmp[t] = committed[Leader] /\ req[t] = committed[Leader] + 1
      BY <2>1 DEF IInv, NumbersInv, IncrementNotLost
    <2>3. db'[Leader][req[t]] # NoRecord
      BY <2>1 DEF IInv, EntryInv
    <2>4. Commit
      BY <1>3, <1>4, <2>1, <2>2, <2>3, NumbersType
    <2>5. Threads
      BY <1>4, <2>1, NumbersType
    <2> QED
      BY <2>4, <2>5
  <1>16. ASSUME NEW n \in Replica, NEW s \in Slot, Deliver(n, s) PROVE Threads /\ Commit
    BY <1>8, <1>16 DEF Deliver, DeliverWrite, DeliverAck, threadVars
  <1>17. ASSUME NEW n \in Replica, UpdateState(n) PROVE Threads /\ Commit
    <2>1. UNCHANGED <<pc, req, bitMap>>
      BY <1>17 DEF UpdateState, threadVars
    <2> QED
      BY <1>8, <1>17, <2>1, ReplicaKeepsCommit
  <1>18. ASSUME NEW n \in Replica, Accept(n) \/ UpdateStateCrash(n) \/ Connect(n) \/ Disconnect(n)
         PROVE  Threads /\ Commit
    <2>1. UNCHANGED <<pc, req, bitMap, committed>>
      BY <1>18 DEF Accept, UpdateStateCrash, Connect, Disconnect, threadVars
    <2> QED
      BY <1>8, <2>1
  <1> QED
    BY <1>9, <1>10, <1>11, <1>12, <1>13, <1>14, <1>15, <1>16, <1>17, <1>18
    DEF Next, LeaderNext, ReplicaNext

\* With the leader at node 0 and no failures of store_record on the replicas,
\* every committed request is recorded, unchanged, by a majority of the group:
\* also across disconnections and failures of the leader's own store_record.
THEOREM CommitIsQuorum ==
  ASSUME NodeZero = Leader, ~ReplicaStoreFails PROVE Spec => []QuorumStored
  <1>1. IInv /\ RecordedInv /\ [Next]_vars => RecordedInv'
    BY RecordedStep
  <1>2. IInv /\ QuorumInv /\ [Next]_vars => QuorumInv'
    BY QuorumStep
  <1>3. ASSUME IInv, RecordedInv, QuorumInv PROVE QuorumStored
    <2> SUFFICES ASSUME NEW r \in 1..committed[Leader]
                 PROVE  entry[r].data \in Data /\ reached_quorum(Holders(r))
      BY DEF QuorumStored
    <2>1. r \in Slot
      BY <1>3, NodeAssumption, BoundAssumption, SMTT(30) DEF IInv, TypeOK, Slot
    <2>2. entry[r].data \in Data
      BY <1>3, <2>1 DEF IInv, EntryInv, Settled
    <2>3. \A n \in Node : db[n][r] # NoRecord => n \in Holders(r)
      BY <1>3, <2>1 DEF IInv, EntryInv, Holders
    <2>4. Acked(r) \subseteq Holders(r) /\ Holders(r) \subseteq Node
      BY <1>3, <2>1, <2>3, NodeAssumption DEF Acked, Holders, RecordedInv, QuorumInv, Replica
    <2>5. reached_quorum(Acked(r))
      BY <1>3 DEF QuorumInv
    <2> QED
      BY <2>2, <2>4, <2>5, QuorumGrows
  <1> QED
    BY <1>1, <1>2, <1>3, RecordedInit, QuorumInit, Invariant, PTL DEF Spec
=============================================================================
