----------------------------- MODULE Consensus -----------------------------
(***************************************************************************)
(* The replication core of RDMA/src/consensus/consensus.c.                 *)
(*                                                                         *)
(* Application threads of the leader call leader_handle_submit_req; every  *)
(* other node runs one handle_accept_req thread.  They share no messages:  *)
(* the leader writes a log entry into a replica's memory with an RDMA      *)
(* write, the replica finds it by looking at that memory, and answers with *)
(* an RDMA write into the entry's ack array in the leader's memory.        *)
(*                                                                         *)
(* A log position stands for the byte offset of an entry: within one lap   *)
(* of the ring, request r is entry r of the log on every node.  The view   *)
(* is 1 throughout, as in the code, so a view stamp is its req_id.         *)
(***************************************************************************)
EXTENDS Naturals, Sequences, FiniteSets

CONSTANTS
  Node,               \* the group; group_size is its cardinality
  Leader,             \* cur_view.leader_id
  NodeZero,           \* the node whose node_id is 0
  Thread,             \* application threads of the leader
  Data,               \* contents of requests
  NoRecord,           \* no entry, or no record in the database
  Torn,               \* contents of an entry whose RDMA write is incomplete
  MaxReq,             \* bound: requests submitted
  MayDisconnect,      \* whether replicas leave for a checkpoint
  LeaderStoreFails,   \* whether store_record can fail on the leader
  ReplicaStoreFails   \* whether store_record can fail on a replica

Replica == Node \ {Leader}
Slot == 1..MaxReq

ASSUME NodeAssumption ==
  IsFiniteSet(Node) /\ Leader \in Node /\ NodeZero \in Node
ASSUME DataAssumption ==
  NoRecord \notin Data /\ Torn \notin Data /\ NoRecord # Torn
ASSUME BoundAssumption == MaxReq \in Nat
ASSUME SwitchAssumption ==
  {MayDisconnect, LeaderStoreFails, ReplicaStoreFails} \subseteq BOOLEAN

VARIABLES
  \* the leader's threads
  pc,          \* where each thread is in leader_handle_submit_req
  req,         \* next.req_id
  todo,        \* peers the posting loop has still to visit
  bitMap,      \* bit_map: the nodes counted so far
  tmp,         \* highest_committed_vs->req_id as read by the increment
  \* memory
  seen,        \* highest_seen_vs->req_id of each node
  committed,   \* highest_committed_vs->req_id of each node
  entry,       \* the entries of the leader's log
  write,       \* write[n][r]: the RDMA write of entry r into n's log
  ack,         \* ack[n][r]: the RDMA write of n's accept_ack for r
  connected,   \* peers with rc_connected set on the leader
  db,          \* the records of each node's database
  \* the replica threads
  rpc,         \* where each replica is in handle_accept_req
  end,         \* log->end: the position the replica looks at
  index,       \* the loop variable of the execution loop
  executed     \* history: the records given to update_state

threadVars == <<pc, req, todo, bitMap, tmp>>
replicaVars == <<rpc, end, index, executed>>
vars == <<threadVars, seen, committed, entry, write, ack, connected, db, replicaVars>>

NoEntry == [data |-> NoRecord, canbe |-> 0]

\* reached_quorum: popcount(bit_map) >= group_size/2 + 1.
reached_quorum(S) == Cardinality(S) >= (Cardinality(Node) \div 2) + 1

Init ==
  /\ pc = [t \in Thread |-> "idle"]
  /\ req = [t \in Thread |-> 0]
  /\ todo = [t \in Thread |-> {}]
  /\ bitMap = [t \in Thread |-> {}]
  /\ tmp = [t \in Thread |-> 0]
  /\ seen = [n \in Node |-> 0]
  /\ committed = [n \in Node |-> 0]
  /\ entry = [r \in Slot |-> NoEntry]
  /\ write = [n \in Replica |-> [r \in Slot |-> "none"]]
  /\ ack = [n \in Replica |-> [r \in Slot |-> "none"]]
  /\ connected \in SUBSET Replica
  /\ db = [n \in Node |-> [r \in Slot |-> NoRecord]]
  /\ rpc = [n \in Replica |-> "scan"]
  /\ end = [n \in Replica |-> 1]
  /\ index = [n \in Replica |-> 0]
  /\ executed = [n \in Replica |-> <<>>]

-----------------------------------------------------------------------------
(* leader_handle_submit_req *)

\* Under the spin lock: take the next view stamp and a place in the log.
Submit(t) ==
  /\ pc[t] = "idle"
  /\ seen[Leader] < MaxReq
  /\ req' = [req EXCEPT ![t] = seen[Leader] + 1]
  /\ seen' = [seen EXCEPT ![Leader] = @ + 1]
  /\ pc' = [pc EXCEPT ![t] = "fill"]
  /\ UNCHANGED <<todo, bitMap, tmp, committed, entry, write, ack, connected, db, replicaVars>>

\* Mutants of Fill: highest_seen_vs for highest_committed_vs; one commit behind.
FillSeen(t, d) == [entry EXCEPT ![req[t]] = [data |-> d, canbe |-> seen[Leader]]]
FillBehind(t, d) ==
  [entry EXCEPT ![req[t]] =
     [data |-> d, canbe |-> IF committed[Leader] = 0 THEN 0 ELSE committed[Leader] - 1]]

\* After the unlock: highest_committed_vs is read without the lock.
Fill(t, d) == [entry EXCEPT ![req[t]] = [data |-> d, canbe |-> committed[Leader]]]

\* Fill the entry and store the record.
Store(t, d) ==
  /\ pc[t] = "fill"
  /\ entry' = Fill(t, d)
  /\ db' = [db EXCEPT ![Leader][req[t]] = d]
  /\ bitMap' = [bitMap EXCEPT ![t] = {Leader}]
  /\ todo' = [todo EXCEPT ![t] = Replica]
  /\ pc' = [pc EXCEPT ![t] = "post"]
  /\ UNCHANGED <<req, tmp, seen, committed, write, ack, connected, replicaVars>>

\* store_record fails: nothing is posted, the request number stays taken, and
\* the caller gets the entry back as if it were committed.
StoreFailure(t, d) ==
  /\ LeaderStoreFails
  /\ pc[t] = "fill"
  /\ entry' = Fill(t, d)
  /\ pc' = [pc EXCEPT ![t] = "idle"]
  /\ UNCHANGED <<req, todo, bitMap, tmp, seen, committed, write, ack, connected, db, replicaVars>>

\* One turn of the posting loop, which skips a peer that is not connected.
Post(t, n) ==
  /\ pc[t] = "post"
  /\ n \in todo[t]
  /\ todo' = [todo EXCEPT ![t] = @ \ {n}]
  /\ write' = IF n \in connected
                THEN [write EXCEPT ![n][req[t]] = "posted"] ELSE write
  /\ pc' = IF todo[t] = {n} THEN [pc EXCEPT ![t] = "poll"] ELSE pc
  /\ UNCHANGED <<req, bitMap, tmp, seen, committed, entry, ack, connected, db, replicaVars>>

\* The node_ids in the acks of entry r that carry r's view stamp.  The write of
\* an accept_ack fills msg_vs first; node_id still reads 0 until it lands.
Counted(r) ==
  {n \in Replica : ack[n][r] = "full"}
    \cup (IF \E n \in Replica : ack[n][r] = "stamp" THEN {NodeZero} ELSE {})

\* The recheck loop.
Recheck(t) ==
  /\ pc[t] = "poll"
  /\ bitMap' = [bitMap EXCEPT ![t] = @ \cup Counted(req[t])]
  /\ pc' = IF reached_quorum(bitMap'[t]) THEN [pc EXCEPT ![t] = "turn"] ELSE pc
  /\ UNCHANGED <<req, todo, tmp, seen, committed, entry, write, ack, connected, db, replicaVars>>

\* Mutants of ReadCommitted: no wait, a wait one request short, and one too long.
ReadCommittedWaiting(t, ready) ==
  /\ pc[t] = "turn"
  /\ ready
  /\ tmp' = [tmp EXCEPT ![t] = committed[Leader]]
  /\ pc' = [pc EXCEPT ![t] = "incr"]
  /\ UNCHANGED <<req, todo, bitMap, seen, committed, entry, write, ack, connected, db, replicaVars>>
ReadCommittedNoWait(t) == ReadCommittedWaiting(t, TRUE)
ReadCommittedEarly(t) == ReadCommittedWaiting(t, ~(req[t] > committed[Leader] + 2))
ReadCommittedLate(t) == ReadCommittedWaiting(t, ~(req[t] >= committed[Leader] + 1))

\* The wait for the requests before this one, and the read of the increment.
ReadCommitted(t) ==
  /\ pc[t] = "turn"
  /\ ~(req[t] > committed[Leader] + 1)
  /\ tmp' = [tmp EXCEPT ![t] = committed[Leader]]
  /\ pc' = [pc EXCEPT ![t] = "incr"]
  /\ UNCHANGED <<req, todo, bitMap, seen, committed, entry, write, ack, connected, db, replicaVars>>

\* The write of the increment, made without the lock, and the return.
WriteCommitted(t) ==
  /\ pc[t] = "incr"
  /\ committed' = [committed EXCEPT ![Leader] = tmp[t] + 1]
  /\ pc' = [pc EXCEPT ![t] = "idle"]
  /\ UNCHANGED <<req, todo, bitMap, tmp, seen, entry, write, ack, connected, db, replicaVars>>

-----------------------------------------------------------------------------
(* RDMA: a posted write lands in two parts, the bytes up to the field that   *)
(* the reader tests first and then the rest.                                 *)

DeliverWrite(n, r) ==
  /\ write[n][r] \in {"posted", "head"}
  /\ write' = [write EXCEPT ![n][r] = IF @ = "posted" THEN "head" ELSE "full"]
  /\ UNCHANGED <<threadVars, seen, committed, entry, ack, connected, db, replicaVars>>

DeliverAck(n, r) ==
  /\ ack[n][r] \in {"posted", "stamp"}
  /\ ack' = [ack EXCEPT ![n][r] = IF @ = "posted" THEN "stamp" ELSE "full"]
  /\ UNCHANGED <<threadVars, seen, committed, entry, write, connected, db, replicaVars>>

-----------------------------------------------------------------------------
(* handle_accept_req *)

\* The contents of entry r as n's memory shows them.
Content(n, r) == IF write[n][r] = "full" THEN entry[r].data ELSE Torn

\* Mutant of Complete: only data_size is looked at.
CompleteHead(n, r) == write[n][r] \in {"head", "full"}

\* data_size is in place and the last byte of the entry is DUMMY_END.
Complete(n, r) == write[n][r] = "full"

\* The database of n after store_record, whose result is not looked at.
Stored(n, r) ==
  {[db EXCEPT ![n][r] = Content(n, r)]} \cup (IF ReplicaStoreFails THEN {db} ELSE {})

\* One entry: record it, move past it, post the ack, and enter the execution
\* loop when the entry carries a newer commit point.
Accept(n) ==
  LET r == end[n] IN
  /\ rpc[n] = "scan"
  /\ r \in Slot
  /\ Complete(n, r)
  /\ seen' = [seen EXCEPT ![n] = IF r > @ THEN r ELSE @]
  /\ db' \in Stored(n, r)
  /\ end' = [end EXCEPT ![n] = @ + 1]
  /\ ack' = [ack EXCEPT ![n][r] = "posted"]
  /\ IF entry[r].canbe > committed[n]
       THEN /\ index' = [index EXCEPT ![n] = committed[n] + 1]
            /\ rpc' = [rpc EXCEPT ![n] = "exec"]
       ELSE UNCHANGED <<index, rpc>>
  /\ UNCHANGED <<threadVars, committed, entry, write, connected, executed>>

\* Mutant of UpdateState: the loop runs one record too far.
UpdateStatePast(n) ==
  LET last == entry[end[n] - 1].canbe IN
  /\ rpc[n] = "exec"
  /\ db[n][index[n]] # NoRecord
  /\ executed' = [executed EXCEPT ![n] = Append(@, db[n][index[n]])]
  /\ index' = [index EXCEPT ![n] = @ + 1]
  /\ IF index[n] <= last
       THEN UNCHANGED <<rpc, committed>>
       ELSE /\ rpc' = [rpc EXCEPT ![n] = "scan"]
            /\ committed' = [committed EXCEPT ![n] = last]
  /\ UNCHANGED <<threadVars, seen, entry, write, ack, connected, db, end>>

\* ucb(index): update_state retrieves the record and acts on it; the last turn
\* of the loop is followed by the update of highest_committed_vs.
UpdateState(n) ==
  LET last == entry[end[n] - 1].canbe IN
  /\ rpc[n] = "exec"
  /\ db[n][index[n]] # NoRecord
  /\ executed' = [executed EXCEPT ![n] = Append(@, db[n][index[n]])]
  /\ index' = [index EXCEPT ![n] = @ + 1]
  /\ IF index[n] < last
       THEN UNCHANGED <<rpc, committed>>
       ELSE /\ rpc' = [rpc EXCEPT ![n] = "scan"]
            /\ committed' = [committed EXCEPT ![n] = last]
  /\ UNCHANGED <<threadVars, seen, entry, write, ack, connected, db, end>>

\* retrieve_record finds nothing and update_state dereferences the null pointer.
UpdateStateCrash(n) ==
  /\ rpc[n] = "exec"
  /\ db[n][index[n]] = NoRecord
  /\ rpc' = [rpc EXCEPT ![n] = "crashed"]
  /\ UNCHANGED <<threadVars, seen, committed, entry, write, ack, connected, db, end, index, executed>>

-----------------------------------------------------------------------------
(* Connections, as the leader sees them. *)

Connect(n) ==
  /\ n \notin connected
  /\ rpc[n] # "crashed"
  /\ connected' = connected \cup {n}
  /\ UNCHANGED <<threadVars, seen, committed, entry, write, ack, db, replicaVars>>

\* The replica thread approves a disconnect between two entries, the RDMA
\* resources go away, and launch_rdma later gives it a zeroed log.  Writes under
\* way to it are lost; acks under way from it may be.
Disconnect(n) ==
  /\ MayDisconnect
  /\ n \in connected
  /\ rpc[n] = "scan"
  /\ connected' = connected \ {n}
  /\ write' = [write EXCEPT ![n] = [r \in Slot |-> "none"]]
  /\ ack' \in {ack, [ack EXCEPT ![n] = [r \in Slot |-> IF @[r] = "posted" THEN "none" ELSE @[r]]]}
  /\ end' = [end EXCEPT ![n] = 1]
  /\ UNCHANGED <<threadVars, seen, committed, entry, db, rpc, index, executed>>

-----------------------------------------------------------------------------
LeaderNext(t) ==
  \/ Submit(t)
  \/ \E d \in Data : Store(t, d) \/ StoreFailure(t, d)
  \/ \E n \in Replica : Post(t, n)
  \/ Recheck(t)
  \/ ReadCommitted(t)
  \/ WriteCommitted(t)

ReplicaNext(n) == Accept(n) \/ UpdateState(n) \/ UpdateStateCrash(n)

Deliver(n, r) == DeliverWrite(n, r) \/ DeliverAck(n, r)

Next ==
  \/ \E t \in Thread : LeaderNext(t)
  \/ \E n \in Replica : ReplicaNext(n) \/ Connect(n) \/ Disconnect(n)
  \/ \E n \in Replica, r \in Slot : Deliver(n, r)

Spec == Init /\ [][Next]_vars

-----------------------------------------------------------------------------
(* Properties *)

TypeOK ==
  /\ pc \in [Thread -> {"idle", "fill", "post", "poll", "turn", "incr"}]
  /\ req \in [Thread -> 0..MaxReq]
  /\ todo \in [Thread -> SUBSET Replica]
  /\ bitMap \in [Thread -> SUBSET Node]
  /\ tmp \in [Thread -> 0..MaxReq]
  /\ seen \in [Node -> 0..MaxReq]
  /\ committed \in [Node -> 0..MaxReq]
  /\ entry \in [Slot -> [data : Data \cup {NoRecord}, canbe : 0..MaxReq]]
  /\ write \in [Replica -> [Slot -> {"none", "posted", "head", "full"}]]
  /\ ack \in [Replica -> [Slot -> {"none", "posted", "stamp", "full"}]]
  /\ connected \subseteq Replica
  /\ db \in [Node -> [Slot -> Data \cup {NoRecord, Torn}]]
  /\ rpc \in [Replica -> {"scan", "exec", "crashed"}]
  /\ end \in [Replica -> 1..MaxReq + 1]
  /\ index \in [Replica -> 0..MaxReq]
  /\ executed \in [Replica -> Seq(Data \cup {Torn})]

\* The commit counter of the leader is incremented without the lock ("TODO: do
\* we need the lock here?"): between the read and the write of an increment no
\* other thread moves the counter, and it counts exactly this thread's request.
IncrementNotLost ==
  \A t \in Thread :
    pc[t] = "incr" => tmp[t] = committed[Leader] /\ req[t] = committed[Leader] + 1

\* "rsm_op() returns when it reaches quorum": it returns to the application only
\* when its request, and every request numbered before it, is committed.
ReturnedIsCommitted ==
  \A t \in Thread : pc[t] = "idle" => req[t] <= committed[Leader]

Holders(r) == {n \in Node : db[n][r] = entry[r].data}

\* What a quorum is for: every committed request is in the databases of a
\* majority of the group, with the contents the leader gave it.
QuorumStored ==
  \A r \in 1..committed[Leader] :
    entry[r].data \in Data /\ reached_quorum(Holders(r))

\* A replica never reaches the null record of update_state: what an entry tells
\* it to execute it has stored before.
ExecutesOnlyStored == \A n \in Replica : rpc[n] # "crashed"

\* The order of the committed requests, and what the replicas make of it.
Chosen == [r \in 1..committed[Leader] |-> entry[r].data]
Abstract == INSTANCE RSM WITH chosen <- Chosen

\* The leader's threads and the replicas together implement the replicated
\* state machine: commits extend one order, and each replica executes a prefix
\* of it, each request once.
ImplementsRSM == Abstract!Spec

\* An accept_ack reaches the leader only for a request its sender has recorded
\* ("record the data persistently").
AckedIsRecorded ==
  \A n \in Replica, r \in Slot : ack[n][r] # "none" => db[n][r] = entry[r].data
-----------------------------------------------------------------------------
(* Liveness *)

\* Threads inside leader_handle_submit_req and replica threads spin or run until
\* they are done, and the RDMA device completes posted writes.  Submitting is up
\* to the application; connecting is up to the replicas.
Fairness ==
  /\ \A t \in Thread : WF_vars(LeaderNext(t) /\ pc[t] # "idle")
  /\ \A n \in Replica : WF_vars(ReplicaNext(n))
  /\ \A n \in Replica, r \in Slot : WF_vars(Deliver(n, r))

\* A majority is connected before the first request.
LiveInit == Init /\ reached_quorum({Leader} \cup connected)
LiveSpec == LiveInit /\ [][Next]_vars /\ Fairness

\* Every rsm_op returns: no thread spins for ever in recheck or behind another
\* thread's commit.
EverySubmitReturns == \A t \in Thread : pc[t] = "fill" ~> pc[t] = "idle"

\* No entry has been skipped for n by the posting loop.
Synced(n) ==
  \A r \in 1..seen[Leader] :
    write[n][r] = "none" =>
      \E t \in Thread : req[t] = r /\ (pc[t] = "fill" \/ n \in todo[t])

\* "nop is only for sending the close() consensus result to the replicas": a
\* request submitted after request k was committed makes every replica that has
\* missed nothing execute k.
NextRequestDelivers ==
  \A t \in Thread, n \in Replica, k \in Slot :
    (pc[t] = "fill" /\ committed[Leader] >= k /\ n \in connected /\ Synced(n))
      ~> Len(executed[n]) >= k
-----------------------------------------------------------------------------
(* The inductive invariant behind the safety properties. *)

\* Request numbers: a running request is the only one with its number, and it
\* is numbered past everything committed.
NumbersInv ==
  /\ committed[Leader] <= seen[Leader]
  /\ \A t \in Thread :
       IF pc[t] = "idle"
         THEN LeaderStoreFails \/ req[t] <= committed[Leader]
         ELSE committed[Leader] < req[t] /\ req[t] <= seen[Leader]
  /\ \A t, u \in Thread :
       t # u /\ pc[t] # "idle" /\ pc[u] # "idle" => req[t] # req[u]
  /\ IncrementNotLost

\* Entry r is written once and for all.
Settled(r) ==
  /\ r <= seen[Leader]
  /\ entry[r].data \in Data
  /\ \A t \in Thread : pc[t] = "fill" => req[t] # r

\* The commit point an entry carries lies before the entry; posted, recorded and
\* committed entries are settled, and a record is a copy of its entry.
EntryInv ==
  /\ \A r \in Slot : entry[r].canbe < r /\ entry[r].canbe <= committed[Leader]
  /\ \A r \in 1..committed[Leader] : Settled(r)
  /\ \A t \in Thread :
       pc[t] \notin {"idle", "fill"} =>
         Settled(req[t]) /\ db[Leader][req[t]] # NoRecord
  /\ \A n \in Replica, r \in Slot :
       write[n][r] # "none" \/ ack[n][r] # "none" => Settled(r)
  /\ \A n \in Node, r \in Slot :
       db[n][r] # NoRecord => Settled(r) /\ db[n][r] = entry[r].data

\* An entry is posted to a peer at most once, so it is acked at most once.
PostedOnceInv ==
  /\ \A t \in Thread, n \in Replica :
       pc[t] = "post" /\ n \in todo[t] =>
         write[n][req[t]] = "none" /\ ack[n][req[t]] = "none"
  /\ \A n \in Replica, r \in Slot :
       write[n][r] # "none" /\ end[n] <= r => ack[n][r] = "none"

\* A replica has executed what it has committed, and in the execution loop the
\* part of it up to index; all of it lies before the leader's commit point.
ExecutedOf(n) ==
  /\ committed[n] <= committed[Leader]
  /\ \A r \in 1..end[n] - 1 : write[n][r] = "full"
  /\ IF rpc[n] = "scan"
       THEN Len(executed[n]) = committed[n]
       ELSE /\ end[n] > 1
            /\ committed[n] < index[n]
            /\ index[n] <= entry[end[n] - 1].canbe
            /\ Len(executed[n]) = index[n] - 1
  /\ \A i \in 1..Len(executed[n]) : executed[n][i] = entry[i].data

ExecInv == \A n \in Replica : ExecutedOf(n)

IInv == TypeOK /\ NumbersInv /\ EntryInv /\ PostedOnceInv /\ ExecInv

\* Under ~ReplicaStoreFails: what is acked, or lies before end, is recorded.
RecordedInv ==
  /\ \A n \in Replica, r \in Slot : ack[n][r] # "none" => db[n][r] # NoRecord
  /\ \A n \in Replica : \A r \in 1..end[n] - 1 : db[n][r] # NoRecord
  /\ ExecutesOnlyStored

\* Under NodeZero = Leader: the leader and the replicas whose ack of r is there.
Acked(r) == {Leader} \cup {n \in Replica : ack[n][r] = "full"}
QuorumInv ==
  /\ \A t \in Thread :
       /\ pc[t] \notin {"idle", "fill"} => bitMap[t] \subseteq Acked(req[t])
       /\ pc[t] \in {"turn", "incr"} => reached_quorum(Acked(req[t]))
  /\ \A r \in 1..committed[Leader] :
       db[Leader][r] # NoRecord /\ reached_quorum(Acked(r))
=============================================================================
