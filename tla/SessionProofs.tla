---------------------------- MODULE SessionProofs ---------------------------
(***************************************************************************)
(* Proof that a replica replays the sessions of the leader's clients: the  *)
(* reads of a client are numbered, in the log and among the calls of write *)
(* to the replica's application.                                           *)
(***************************************************************************)
EXTENDS EventMgrProofs, FiniteSetTheorems, TLAPS

\* A leaf is for Zenon unless it names another prover.
USE Zenon

\* The reads of client c among the first n requests.
Sends(c, n) == {m \in 1 .. n : Of(m) = c /\ Kind(m) = "P_SEND"}
ReadsInv ==
    /\ \A n \in Stamps : Kind(n) = "P_SEND" => log[n].data[2] = Cardinality(Sends(Of(n), n))
    /\ \A c \in Client :
          conn[c].reads = Cardinality(Sends(c, Len(log))) + (IF conn[c].pc = "P_UDP_CONNECT" THEN 1 ELSE 0)

SentInv == \A c \in Client : Cardinality(Sent(c)) = Cardinality(Sends(c, core.done))

\* The socket of a TCP connection is the one that its connect opened.
SocketInv == \A v \in DOMAIN replica_tcp_map : v # 0 => replica_tcp_map[v].p_s = v

SessionInv == ReadsInv /\ SentInv /\ SameSession

\* What a client sent and what was written for it are finite.
LEMMA Sets ==
  ASSUME EventType, NEW c \in Client
  PROVE  /\ Len(writes) \in Nat /\ IsFiniteSet(Sent(c)) /\ Cardinality(Sent(c)) \in Nat
         /\ \A n \in Nat : IsFiniteSet(Sends(c, n)) /\ Cardinality(Sends(c, n)) \in Nat
                          /\ (Cardinality(Sends(c, n)) = 0 => Sends(c, n) = {})
<1>1. Len(writes) \in Nat
  BY SMTT(30) DEF EventType
<1>2. \A n \in Nat : IsFiniteSet(1 .. n)
  <2>. TAKE n \in Nat
  <2>1. 1 \in Int /\ n \in Int
    BY SMTT(30)
  <2>. QED  BY <2>1, FS_Interval
<1>3. IsFiniteSet(Sent(c)) /\ \A n \in Nat : IsFiniteSet(Sends(c, n))
  BY <1>1, <1>2, FS_Subset DEF Sent, Sends
<1>. QED  BY <1>1, <1>3, FS_CardinalityType, FS_EmptySet

\* The initial states satisfy SessionInv.
LEMMA InitSession ==
  ASSUME EventInit
  PROVE  SessionInv
<1>1. /\ log = <<>> /\ writes = <<>> /\ core.done = 0 /\ Stamps = {}
      /\ \A c \in Client : conn[c].reads = 0 /\ conn[c].pc = "new"
  BY SMTT(30) DEF EventInit, Stamps
<1>2. \A c : Sends(c, 0) = {} /\ Sent(c) = {}
  BY <1>1, SMTT(30) DEF Sends, Sent
<1>3. Cardinality({}) = 0
  BY FS_EmptySet
<1>4. ReadsInv
  <2>1. \A c : Cardinality(Sends(c, Len(log))) = 0
    BY <1>1, <1>2, <1>3
  <2>. QED  BY <1>1, <2>1, SMTT(30) DEF ReadsInv
<1>5. SentInv /\ SameSession
  BY <1>1, <1>2 DEF SentInv, SameSession
<1>. QED  BY <1>4, <1>5 DEF SessionInv

\* The reads of a longer log.
LEMMA SendsGrow ==
  ASSUME EventType, NEW c \in Client, NEW e \in Request, Asks(c, e), NEW N \in Nat, N = Len(log)
  PROVE  \A d \in Client :
            /\ \A n \in 0 .. N : Sends(d, n)' = Sends(d, n)
            /\ Cardinality(Sends(d, N + 1)') =
                  Cardinality(Sends(d, N)) + (IF d = c /\ e.type = "P_SEND" THEN 1 ELSE 0)
<1>. SUFFICES ASSUME NEW d \in Client
     PROVE  /\ \A n \in 0 .. N : Sends(d, n)' = Sends(d, n)
            /\ Cardinality(Sends(d, N + 1)') =
                  Cardinality(Sends(d, N)) + (IF d = c /\ e.type = "P_SEND" THEN 1 ELSE 0)
  OBVIOUS
<1>1. /\ \A n \in 1 .. N : Of(n)' = Of(n) /\ Kind(n)' = Kind(n)
      /\ Of(N + 1)' = c /\ Kind(N + 1)' = e.type
  BY LogGrows DEF Of, Kind
<1>2. \A n \in 0 .. N : Sends(d, n)' = Sends(d, n)
  BY <1>1, SMTT(30) DEF Sends
<1>3. Sends(d, N + 1)' = IF d = c /\ e.type = "P_SEND" THEN Sends(d, N) \cup {N + 1} ELSE Sends(d, N)
  BY <1>1, SMTT(30) DEF Sends
<1>4. N + 1 \notin Sends(d, N)
  BY SMTT(30) DEF Sends
<1>5. IsFiniteSet(Sends(d, N)) /\ Cardinality(Sends(d, N)) \in Nat
  BY Sets
<1>6. Cardinality(Sends(d, N) \cup {N + 1}) = Cardinality(Sends(d, N)) + 1
  BY <1>4, <1>5, FS_AddElement
<1>7. Cardinality(Sends(d, N + 1)') =
                  Cardinality(Sends(d, N)) + (IF d = c /\ e.type = "P_SEND" THEN 1 ELSE 0)
  BY <1>3, <1>5, <1>6, SMTT(30)
<1>. QED  BY <1>2, <1>7, SMTT(30)

\* The numbers of the reads, given how many the thread has counted.
LEMMA AsksReads ==
  ASSUME EventType, ReadsInv, NEW c \in Client, NEW e \in Request, Asks(c, e),
         conn'[c].reads + (IF conn[c].pc = "P_UDP_CONNECT" THEN 1 ELSE 0) =
            conn[c].reads + (IF e.type \in {"P_SEND", "P_UDP_CONNECT"} THEN 1 ELSE 0)
  PROVE  ReadsInv'
<1>. DEFINE N == Len(log)
            S(d) == Cardinality(Sends(d, N))
<1>0. /\ N \in Nat /\ Len(log') = N + 1 /\ Stamps = 1 .. N /\ Stamps' = 1 .. N + 1
      /\ \A n \in Stamps : log'[n] = log[n] /\ Of(n)' = Of(n) /\ Kind(n)' = Kind(n) /\ Of(n) \in Client
      /\ log'[N + 1] = e /\ log'[N + 1].data[1] = c /\ log'[N + 1].type = e.type
  BY LogGrows, SMTT(30)
<1>1. /\ e.data = <<c, conn'[c].reads>> /\ conn'[c].pc = e.type
      /\ \A d \in Client \ {c} : conn'[d] = conn[d]
  BY SMTT(30) DEF Asks
<1>2. \A d \in Client :
            /\ \A n \in 0 .. N : Sends(d, n)' = Sends(d, n)
            /\ Cardinality(Sends(d, Len(log))') = S(d) + (IF d = c /\ e.type = "P_SEND" THEN 1 ELSE 0)
  <2>1. \A M \in Nat : M = N => \A d \in Client :
            /\ \A n \in 0 .. M : Sends(d, n)' = Sends(d, n)
            /\ Cardinality(Sends(d, M + 1)') =
                  Cardinality(Sends(d, M)) + (IF d = c /\ e.type = "P_SEND" THEN 1 ELSE 0)
    BY SendsGrow, SMTT(30)
  <2>2. \A d \in Client, M \in Nat : M = N => Sends(d, Len(log))' = Sends(d, M + 1)'
    BY <1>0, SMTT(30) DEF Sends
  <2>. QED  BY <1>0, <2>1, <2>2
<1>3. \A d \in Client : S(d) \in Nat
  BY <1>0, Sets
<1>4. \A d \in Client : conn[d].reads = S(d) + (IF conn[d].pc = "P_UDP_CONNECT" THEN 1 ELSE 0)
  BY SMTT(30) DEF ReadsInv
<1>. HIDE DEF S
<1>5. conn'[c].reads = S(c) + (IF e.type \in {"P_SEND", "P_UDP_CONNECT"} THEN 1 ELSE 0)
  <2>1. conn'[c].reads \in Nat
    <3>1. conn'[c] \in Thread
      BY DEF Asks
    <3>. QED  BY <3>1 DEF Thread
  <2>. QED  BY <1>3, <1>4, <2>1, SMTT(30)
<1>6. \A d \in Client : conn'[d].reads =
            Cardinality(Sends(d, Len(log))') + (IF conn'[d].pc = "P_UDP_CONNECT" THEN 1 ELSE 0)
  <2>. TAKE d \in Client
  <2>1. CASE d = c
    BY <1>1, <1>2, <1>3, <1>5, <2>1, SMTT(30)
  <2>2. CASE d # c
    BY <1>1, <1>2, <1>3, <1>4, <2>2, SMTT(30)
  <2>. QED  BY <2>1, <2>2
<1>7. \A n \in Stamps' : Kind(n)' = "P_SEND" => log'[n].data[2] = Cardinality(Sends(Of(n), n)')
  <2>. SUFFICES ASSUME NEW n \in Stamps', Kind(n)' = "P_SEND"
       PROVE  log'[n].data[2] = Cardinality(Sends(Of(n), n)')
    OBVIOUS
  <2>1. CASE n \in Stamps
    <3>1. log[n].data[2] = Cardinality(Sends(Of(n), n)) /\ Of(n) \in Client /\ n \in 0 .. N
      BY <1>0, <2>1, SMTT(30) DEF ReadsInv
    <3>2. \A d \in Client : Sends(d, n)' = Sends(d, n)
      BY <1>2, <3>1, SMTT(30)
    <3>3. PICK d \in Client : d = Of(n)
      BY <3>1
    <3>4. Sends(Of(n), n)' = Sends(d, n)'
      BY <1>0, <2>1, <3>3, SMTT(30) DEF Sends
    <3>. QED  BY <1>0, <2>1, <3>1, <3>2, <3>3, <3>4
  <2>2. CASE n = N + 1
    <3>1. e.type = "P_SEND"
      BY <1>0, <2>2, SMTT(30) DEF Kind
    <3>2. log'[n].data[2] = S(c) + 1
      BY <1>0, <1>1, <1>5, <2>2, <3>1, SMTT(30)
    <3>3. Sends(Of(n), n)' = Sends(c, Len(log))'
      BY <1>0, <2>2 DEF Sends, Of
    <3>4. Cardinality(Sends(c, Len(log))') = S(c) + 1
      BY <1>2, <1>3, <3>1, SMTT(30)
    <3>. QED  BY <3>2, <3>3, <3>4
  <2>. QED  BY <1>0, <2>1, <2>2, SMTT(30)
<1>. QED  BY <1>6, <1>7 DEF ReadsInv

\* A new request changes neither the prefix the replica has executed nor the
\* stamp of a connection that has one.
LEMMA SessionUnread ==
  ASSUME EventInv, SessionInv, UNCHANGED replicaVars, Len(log') >= Len(log), Len(log') \in Nat,
         \A n \in Stamps : Of(n)' = Of(n) /\ Kind(n)' = Kind(n),
         \A c \in TcpConn : conn[c].pc # "new" => conn'[c].vs = conn[c].vs
  PROVE  SentInv' /\ SameSession'
<1>0. core' = core /\ writes' = writes
  BY SMTT(30) DEF replicaVars
<1>1. EventType /\ ThreadInv /\ CoreInv
  BY DEF EventInv, LeaderInv, ReplicaInv
<1>2. core.done \in Nat /\ core.done <= Len(log) /\ Len(log) \in Nat /\ Stamps = 1 .. Len(log)
  <2>1. core.next \in Nat /\ core.done \in Nat /\ core.end \in Nat /\ Len(log) \in Nat
    BY <1>1, SMTT(30) DEF EventType
  <2>. QED  BY <1>1, <2>1, SMTT(30) DEF CoreInv, Stamps
<1>3. \A n \in 1 .. core.done : n \in Stamps
  BY <1>2, SMTT(30)
<1>4. SentInv'
  <2>1. \A c \in Client : Sends(c, core.done)' = Sends(c, core.done) /\ Sent(c)' = Sent(c)
    BY <1>0, <1>3 DEF Sends, Sent
  <2>. QED  BY <2>1 DEF SessionInv, SentInv
<1>5. SameSession'
  <2>. SUFFICES ASSUME NEW c \in Client, NEW i \in Sent(c)
       PROVE  /\ writes[i][2][2] = Cardinality({j \in Sent(c) : j <= i})
              /\ c \in TcpConn => writes[i][1] = conn'[c].vs
    <3>1. \A d : Sent(d)' = Sent(d)
      BY <1>0, SMTT(30) DEF Sent
    <3>. QED  BY <1>0, <3>1 DEF SameSession
  <2>1. /\ writes[i][2][2] = Cardinality({j \in Sent(c) : j <= i})
        /\ c \in TcpConn => writes[i][1] = conn[c].vs
    BY DEF SessionInv, SameSession
  <2>2. ASSUME c \in TcpConn PROVE conn[c].pc # "new"
    <3>1. IsFiniteSet(Sent(c)) /\ IsFiniteSet(Sends(c, core.done))
      BY <1>1, <1>2, Sets
    <3>2. Cardinality(Sent(c)) # 0
      BY <3>1, FS_EmptySet
    <3>3. Cardinality(Sends(c, core.done)) # 0
      BY <3>2 DEF SessionInv, SentInv
    <3>4. Sends(c, core.done) # {}
      BY <3>1, <3>3, FS_EmptySet, SMTT(30)
    <3>5. PICK n \in Stamps : Of(n) = c
      BY <1>3, <3>4 DEF Sends
    <3>. QED  BY <1>1, <3>5 DEF ThreadInv
  <2>. QED  BY <2>1, <2>2
<1>. QED  BY <1>4, <1>5

\* Submitting a request keeps SessionInv.
LEMMA AsksSession ==
  ASSUME EventInv, SessionInv, NEW c \in Client, NEW e \in Request,
         (c \in TcpConn /\ TcpAsks(c, e)) \/ (c \in UdpPeer /\ UdpAsks(c, e))
  PROVE  SessionInv'
<1>0. Asks(c, e) /\ EventType /\ ReadsInv
  BY SMTT(30) DEF TcpAsks, UdpAsks, EventInv, SessionInv
<1>1. ReadsInv'
  <2>1. conn[c].reads \in Nat
    <3>1. conn[c] \in Thread
      BY <1>0, SMTT(30) DEF EventType
    <3>. QED  BY <3>1 DEF Thread
  <2>2. conn'[c].reads + (IF conn[c].pc = "P_UDP_CONNECT" THEN 1 ELSE 0) =
            conn[c].reads + (IF e.type \in {"P_SEND", "P_UDP_CONNECT"} THEN 1 ELSE 0)
    <3>1. CASE c \in TcpConn /\ TcpAsks(c, e)
      BY <2>1, <3>1, SMTT(30) DEF TcpAsks
    <3>2. CASE c \in UdpPeer /\ UdpAsks(c, e)
      BY <2>1, <3>2, SMTT(30) DEF UdpAsks
    <3>. QED  BY <3>1, <3>2, SMTT(30)
  <2>. QED  BY <1>0, <2>2, AsksReads, SMTT(30)
<1>2. SentInv' /\ SameSession'
  <2>1. \A d \in TcpConn : conn[d].pc # "new" => conn'[d].vs = conn[d].vs
    <3>. TAKE d \in TcpConn
    <3>1. CASE d = c
      <4>1. TcpAsks(c, e)
        BY <3>1, Constants
      <4>. QED  BY <3>1, <4>1, SMTT(30) DEF TcpAsks
    <3>2. CASE d # c
      BY <1>0, <3>2, Constants, SMTT(30) DEF Asks
    <3>. QED  BY <3>1, <3>2
  <2>2. UNCHANGED replicaVars
    BY <1>0 DEF Asks
  <2>3. /\ Len(log) \in Nat /\ Len(log') = Len(log) + 1
        /\ \A n \in Stamps : Of(n)' = Of(n) /\ Kind(n)' = Kind(n)
    BY <1>0, LogGrows
  <2>4. Len(log') >= Len(log) /\ Len(log') \in Nat
    BY <2>3, SMTT(30)
  <2>. QED  BY <2>1, <2>2, <2>3, <2>4, SessionUnread
<1>. QED  BY <1>1, <1>2 DEF SessionInv

\* A step of rsm_op that appends nothing keeps SessionInv.
LEMMA GoesSession ==
  ASSUME EventInv, SessionInv, GoesOn
  PROVE  SessionInv'
<1>0. EventType /\ ReadsInv
  BY DEF EventInv, SessionInv
<1>1. /\ Len(log') = Len(log) /\ Len(log) \in Nat /\ Stamps = 1 .. Len(log) /\ Stamps' = Stamps
      /\ \A n \in Stamps : Of(n)' = Of(n) /\ Kind(n)' = Kind(n) /\ log'[n].data = log[n].data
  BY <1>0, SMTT(30) DEF GoesOn, EventType, Stamps, Of, Kind
<1>2. \A d \in Client : conn'[d].vs = conn[d].vs /\ conn'[d].reads = conn[d].reads
                        /\ (conn'[d].pc = "P_UDP_CONNECT" <=> conn[d].pc = "P_UDP_CONNECT")
  BY SMTT(30) DEF GoesOn, Goes
<1>3. ReadsInv'
  <2>1. \A d \in Client, n \in 0 .. Len(log) : Sends(d, n)' = Sends(d, n)
    BY <1>1, SMTT(30) DEF Sends
  <2>2. \A d \in Client : Sends(d, Len(log))' = Sends(d, Len(log))
    BY <1>1 DEF Sends
  <2>3. \A n \in Stamps : Sends(Of(n), n)' = Sends(Of(n), n)
    BY <1>1, SMTT(30) DEF Sends
  <2>4. \A n \in Stamps : Kind(n) = "P_SEND" => log'[n].data[2] = Cardinality(Sends(Of(n), n)')
    BY <1>0, <1>1, <2>3 DEF ReadsInv
  <2>5. \A d \in Client : conn'[d].reads =
            Cardinality(Sends(d, Len(log))') + (IF conn'[d].pc = "P_UDP_CONNECT" THEN 1 ELSE 0)
    BY <1>0, <1>2, <2>2 DEF ReadsInv
  <2>. QED  BY <1>1, <2>4, <2>5 DEF ReadsInv
<1>4. SentInv' /\ SameSession'
  <2>1. \A d \in TcpConn : conn[d].pc # "new" => conn'[d].vs = conn[d].vs
    BY <1>2, SMTT(30) DEF Client
  <2>2. Len(log') >= Len(log) /\ Len(log') \in Nat /\ UNCHANGED replicaVars
    BY <1>1, SMTT(30) DEF GoesOn
  <2>. QED  BY <1>1, <2>1, <2>2, SessionUnread
<1>. QED  BY <1>3, <1>4 DEF SessionInv

\* update_state keeps SocketInv.
LEMMA UpdateSocket ==
  ASSUME EventInv, SocketInv, update_state
  PROVE  SocketInv'
<1>0. EventType /\ LeaderInv /\ Executes
  BY DEF EventInv, update_state, Executes
<1>1. core.done + 1 \in Stamps
  BY <1>0, NextRequest
<1>2. PICK n \in Stamps : n = core.done + 1
  BY <1>1
<1>3. CASE Kind(n) = "P_TCP_CONNECT"
  <2>1. log[n].clt_id = n
    BY <1>0, <1>3, TcpKinds, ConnectionOf
  <2>2. replica_tcp_map' = Connected(n)
    BY <1>2, <1>3, <2>1 DEF update_state, do_action_tcp_connect, Kind
  <2>3. PICK pair \in Pair : pair.p_s = core.done + 1 /\ Connected(n) = Paired(n, pair)
    BY <1>0, NewSocket
  <2>. QED  BY <1>2, <2>2, <2>3 DEF SocketInv, Paired
<1>4. CASE Kind(n) = "P_UDP_CONNECT"
  <2>1. Of(n) \in UdpPeer
    BY <1>0, <1>4, RequestAt DEF LeaderInv, TcpRequests, Client
  <2>2. log[n].clt_id = 0
    BY <1>0, <2>1 DEF LeaderInv, UdpRequests
  <2>3. replica_tcp_map' = Connected(0)
    BY <1>2, <1>4, <2>2 DEF update_state, do_action_udp_connect, Kind
  <2>4. PICK pair \in Pair : Connected(0) = Paired(0, pair)
    BY <1>0, NewSocket
  <2>. QED  BY <2>3, <2>4 DEF SocketInv, Paired
<1>5. CASE Kind(n) = "P_CLOSE"
  <2>1. replica_tcp_map' = [v \in DOMAIN replica_tcp_map \ {log[n].clt_id} |-> replica_tcp_map[v]]
    BY <1>2, <1>5 DEF update_state, do_action_close, Kind
  <2>. QED  BY <2>1 DEF SocketInv
<1>6. CASE Kind(n) \notin {"P_TCP_CONNECT", "P_UDP_CONNECT", "P_CLOSE"}
  <2>1. replica_tcp_map' = replica_tcp_map
    BY <1>2, <1>6 DEF update_state, do_action_send, Kind
  <2>. QED  BY <2>1 DEF SocketInv
<1>. QED  BY <1>3, <1>4, <1>5, <1>6

\* Every step keeps SocketInv: accept_inner puts the application's descriptor into
\* the pair and leaves the socket.
LEMMA SocketStep ==
  ASSUME EventInv, SocketInv, [EventNext]_eventVars
  PROVE  SocketInv'
<1>1. CASE update_state
  BY <1>1, UpdateSocket
<1>2. CASE AcceptInner
  <2>. DEFINE vs == log[core.cur_rec].clt_id
  <2>1. PICK f \in Fd : replica_tcp_map' =
              Paired(vs, [replica_tcp_map[vs] EXCEPT !.s_p = f, !.accepted = TRUE])
    BY <1>2 DEF AcceptInner, Lowest
  <2>2. core.waits
    BY <1>2 DEF AcceptInner, EventInv, ReplicaInv, AcceptInv
  <2>3. vs \in DOMAIN replica_tcp_map
    BY <2>2, Waiting
  <2>. HIDE DEF vs
  <2>4. replica_tcp_map[vs] \in Pair
    BY <2>3 DEF EventInv, EventType
  <2>5. [replica_tcp_map[vs] EXCEPT !.s_p = f, !.accepted = TRUE].p_s = replica_tcp_map[vs].p_s
    BY <2>4 DEF Pair
  <2>. QED  BY <2>1, <2>3, <2>5 DEF SocketInv, Paired
<1>3. ASSUME UNCHANGED replica_tcp_map PROVE SocketInv'
  BY <1>3 DEF SocketInv
<1>4. CASE TakeRequest \/ ConnectReturns \/ (\E f \in Fd : ServerClose(f)) \/ UNCHANGED eventVars
  BY <1>3, <1>4 DEF TakeRequest, ConnectReturns, ServerClose, eventVars
<1>5. ASSUME NEW c \in TcpConn, accept(c) \/ read(c) \/ write(c) \/ close(c) \/ UnpairedCall(c)
      PROVE  SocketInv'
  BY <1>3, <1>5 DEF accept, mgr_on_accept, read, server_side_on_read, write, ProposeOutput, close,
                    mgr_on_close, UnpairedCall, replicaVars
<1>6. ASSUME NEW c \in UdpPeer, recvfrom(c) PROVE SocketInv'
  BY <1>3, <1>6 DEF recvfrom, mgr_on_recvfrom, replicaVars
<1>7. ASSUME NEW c \in Client, SecondRequest(c) \/ PostEntry(c) \/ CommitEntry(c) PROVE SocketInv'
  BY <1>3, <1>7 DEF SecondRequest, PostEntry, CommitEntry, replicaVars
<1>. QED  BY <1>1, <1>2, <1>4, <1>5, <1>6, <1>7 DEF EventNext

\* What the replica executes is not a read.
Quiet ==
    /\ UNCHANGED <<log, conn, writes>>
    /\ \/ core'.done = core.done
       \/ core'.done = core.done + 1 /\ Kind(core.done + 1) # "P_SEND"

\* A step of the replica that passes on no data keeps SessionInv.
LEMMA QuietSession ==
  ASSUME EventInv, SessionInv, Quiet
  PROVE  SessionInv'
<1>0. core.done \in Nat
  BY DEF EventInv, EventType
<1>1. log' = log /\ conn' = conn /\ writes' = writes
  BY DEF Quiet
<1>2. Stamps' = Stamps /\ (\A n : Of(n)' = Of(n) /\ Kind(n)' = Kind(n)) /\ \A c : Sent(c)' = Sent(c)
  BY <1>1, SMTT(30) DEF Stamps, Of, Kind, Sent
<1>3. (\A n : Sends(Of(n), n)' = Sends(Of(n), n)) /\ \A c : Sends(c, Len(log))' = Sends(c, Len(log))
  BY <1>1, <1>2, SMTT(30) DEF Sends
<1>4. \A c : Sends(c, core.done)' = Sends(c, core.done)
  <2>1. CASE core'.done = core.done
    BY <1>2, <2>1, SMTT(30) DEF Sends
  <2>2. CASE core'.done = core.done + 1 /\ Kind(core.done + 1) # "P_SEND"
    <3>1. 1 .. core.done + 1 = (1 .. core.done) \cup {core.done + 1}
      BY <1>0, SMTT(30)
    <3>2. \A c : {m \in 1 .. core.done + 1 : Of(m) = c /\ Kind(m) = "P_SEND"} = Sends(c, core.done)
      BY <2>2, <3>1, SMTT(30) DEF Sends
    <3>. QED  BY <1>2, <2>2, <3>2, SMTT(30) DEF Sends
  <2>. QED  BY <2>1, <2>2 DEF Quiet
<1>5. ReadsInv'
  BY <1>1, <1>2, <1>3 DEF SessionInv, ReadsInv
<1>6. SentInv' /\ SameSession'
  BY <1>1, <1>2, <1>4, SMTT(30) DEF SessionInv, SentInv, SameSession
<1>. QED  BY <1>5, <1>6 DEF SessionInv

\* do_action_send keeps SessionInv.
LEMMA SendSession ==
  ASSUME EventInv, SocketInv, SessionInv, Executes, Kind(core.done + 1) = "P_SEND", do_action_send(log[core.done + 1])
  PROVE  SessionInv'
<1>0. EventType /\ LeaderInv /\ ReadsInv /\ SentInv /\ SameSession
  BY DEF EventInv, SessionInv
<1>1. core.done \in Nat /\ core.done + 1 \in Stamps /\ Len(writes) \in Nat
  BY <1>0, NextRequest, SMTT(30) DEF EventType
<1>2. PICK n \in Nat : n = core.done + 1
  BY <1>1, SMTT(30)
<1>3. n \in Stamps /\ Kind(n) = "P_SEND" /\ core.done < n
  BY <1>1, <1>2, SMTT(30)
<1>4. PICK c \in Client : c = Of(n)
  BY <1>0, <1>3, RequestAt
<1>5. Executed
  BY DEF do_action_send
<1>6. PICK k \in Nat : k = Len(writes)
  BY <1>1, SMTT(30)
<1>7. /\ log[n].clt_id = (IF c \in UdpPeer THEN 0 ELSE conn[c].vs) /\ log[n].data[1] = c
      /\ Known(log[n].clt_id)
      /\ Len(writes') = k + 1 /\ writes'[k + 1] = <<replica_tcp_map[log[n].clt_id].p_s, log[n].data>>
      /\ \A i \in 1 .. k : writes'[i] = writes[i]
  BY <1>2, <1>4, <1>6, SendKnown, ZenonT(30)
<1>8. core'.done = n /\ log' = log /\ conn' = conn
  BY <1>2, <1>5, ExecutedCore DEF Executes, leaderVars
<1>9. 1 .. n = (1 .. core.done) \cup {n} /\ n \notin 1 .. core.done
  BY <1>1, <1>2, SMTT(30)
<1>10. 1 .. k + 1 = (1 .. k) \cup {k + 1} /\ k + 1 \notin 1 .. k /\ \A i \in 1 .. k : i <= k + 1 /\ i \in Nat
  BY SMTT(30)
<1>11. /\ Sent(c)' = Sent(c) \cup {k + 1} /\ k + 1 \notin Sent(c)
       /\ \A d : d # c => Sent(d)' = Sent(d)
       /\ \A d : Sent(d) \subseteq 1 .. k
  <2>1. \A d : Sent(d)' = {i \in 1 .. k + 1 : writes'[i][2][1] = d}
    BY <1>7 DEF Sent
  <2>2. writes'[k + 1][2][1] = c
    BY <1>7, SMTT(30)
  <2>3. \A d : Sent(d) = {i \in 1 .. k : writes'[i][2][1] = d}
    BY <1>6, <1>7, SMTT(30) DEF Sent
  <2>4. \A d : Sent(d) \subseteq 1 .. k
    BY <2>3
  <2>5. k + 1 \notin Sent(c)
    BY <1>10, <2>4
  <2>6. Sent(c)' = Sent(c) \cup {k + 1}
    BY <1>10, <2>1, <2>2, <2>3
  <2>7. \A d : d # c => Sent(d)' = Sent(d)
    BY <1>10, <2>1, <2>2, <2>3
  <2>. QED  BY <2>4, <2>5, <2>6, <2>7
<1>12. \A d \in Client : IsFiniteSet(Sent(d)) /\ IsFiniteSet(Sends(d, core.done))
                         /\ Cardinality(Sent(d)) \in Nat /\ Cardinality(Sends(d, core.done)) \in Nat
  BY <1>0, <1>1, Sets
<1>13. /\ Sends(c, core.done)' = Sends(c, core.done) \cup {n} /\ n \notin Sends(c, core.done)
       /\ \A d \in Client : d # c => Sends(d, core.done)' = Sends(d, core.done)
  <2>1. \A d : Sends(d, core.done)' = {m \in 1 .. n : Of(m) = d /\ Kind(m) = "P_SEND"}
    BY <1>8 DEF Sends, Of, Kind
  <2>2. \A d : Sends(d, core.done) = {m \in 1 .. core.done : Of(m) = d /\ Kind(m) = "P_SEND"}
    BY DEF Sends
  <2>3. n \notin Sends(c, core.done)
    BY <1>9, <2>2
  <2>4. Sends(c, core.done)' = Sends(c, core.done) \cup {n}
    BY <1>3, <1>4, <1>9, <2>1, <2>2
  <2>5. \A d \in Client : d # c => Sends(d, core.done)' = Sends(d, core.done)
    BY <1>4, <1>9, <2>1, <2>2
  <2>. QED  BY <2>3, <2>4, <2>5
<1>14. /\ Cardinality(Sent(c)') = Cardinality(Sent(c)) + 1
       /\ Cardinality(Sends(c, core.done)') = Cardinality(Sends(c, core.done)) + 1
  <2>1. /\ Cardinality(Sent(c) \cup {k + 1}) = Cardinality(Sent(c)) + 1
        /\ Cardinality(Sends(c, core.done) \cup {n}) = Cardinality(Sends(c, core.done)) + 1
    BY <1>11, <1>12, <1>13, FS_AddElement
  <2>. QED  BY <1>11, <1>13, <2>1
<1>15. SentInv'
  <2>. SUFFICES ASSUME NEW d \in Client PROVE Cardinality(Sent(d)') = Cardinality(Sends(d, core.done)')
    BY DEF SentInv
  <2>1. Cardinality(Sent(d)) = Cardinality(Sends(d, core.done)) /\ Cardinality(Sent(c)) = Cardinality(Sends(c, core.done))
    BY <1>0 DEF SentInv
  <2>2. CASE d = c
    BY <1>14, <2>1, <2>2, SMTT(30)
  <2>3. CASE d # c
    BY <1>11, <1>13, <2>1, <2>3
  <2>. QED  BY <2>2, <2>3, SMTT(30)
<1>16. log[n].data[2] = Cardinality(Sent(c)')
  <2>1. log[n].data[2] = Cardinality(Sends(c, n))
    BY <1>0, <1>3, <1>4 DEF ReadsInv
  <2>2. Sends(c, core.done)' = Sends(c, n)
    BY <1>8, SMTT(30) DEF Sends, Of, Kind
  <2>. QED  BY <1>15, <2>1, <2>2, SMTT(30) DEF SentInv
<1>17. SameSession'
  <2>. SUFFICES ASSUME NEW d \in Client, NEW i \in Sent(d)'
                PROVE  /\ writes'[i][2][2] = Cardinality({j \in Sent(d)' : j <= i})
                       /\ d \in TcpConn => writes'[i][1] = conn'[d].vs
    BY DEF SameSession
  <2>1. CASE i \in Sent(d)
    <3>1. i \in 1 .. k /\ writes'[i] = writes[i]
      BY <1>7, <1>11, <2>1
    <3>2. ~(k + 1 <= i)
      BY <3>1, SMTT(30)
    <3>3. {j \in Sent(d)' : j <= i} = {j \in Sent(d) : j <= i}
      BY <1>11, <3>2, SMTT(30)
    <3>4. writes[i][2][2] = Cardinality({j \in Sent(d) : j <= i})
          /\ (d \in TcpConn => writes[i][1] = conn[d].vs)
      BY <1>0, <2>1 DEF SameSession
    <3>. QED  BY <1>8, <3>1, <3>3, <3>4, SMTT(30)
  <2>2. CASE i \notin Sent(d)
    <3>1. d = c /\ i = k + 1
      BY <1>11, <2>2, SMTT(30)
    <3>2. {j \in Sent(c)' : j <= k + 1} = Sent(c)'
      BY <1>10, <1>11, SMTT(30)
    <3>3. writes'[i][2][2] = log[n].data[2] /\ writes'[i][1] = replica_tcp_map[log[n].clt_id].p_s
      BY <1>7, <3>1, SMTT(30)
    <3>4. ASSUME c \in TcpConn PROVE replica_tcp_map[log[n].clt_id].p_s = conn[c].vs
      <4>1. log[n].clt_id = conn[c].vs /\ log[n].clt_id \in Stamps
        BY <1>0, <1>3, <1>4, <3>4, ConnectionOf
      <4>2. log[n].clt_id # 0
        BY <4>1, SMTT(30) DEF Stamps
      <4>. QED  BY <1>7, <4>1, <4>2 DEF SocketInv, Known
    <3>. QED  BY <1>8, <1>16, <3>1, <3>2, <3>3, <3>4
  <2>. QED  BY <2>1, <2>2, SMTT(30)
<1>18. ReadsInv'
  <2>1. Stamps' = Stamps /\ \A m : Of(m)' = Of(m) /\ Kind(m)' = Kind(m)
    BY <1>8 DEF Stamps, Of, Kind
  <2>2. (\A m : Sends(Of(m), m)' = Sends(Of(m), m)) /\ \A d : Sends(d, Len(log))' = Sends(d, Len(log))
    BY <1>8, <2>1 DEF Sends
  <2>. QED  BY <1>0, <1>8, <2>1, <2>2 DEF ReadsInv
<1>. QED  BY <1>15, <1>17, <1>18 DEF SessionInv

\* update_state keeps SessionInv.
LEMMA UpdateSession ==
  ASSUME EventInv, SocketInv, SessionInv, update_state
  PROVE  SessionInv'
<1>1. Executes /\ log' = log /\ conn' = conn
  BY SMTT(30) DEF update_state, Executes, leaderVars
<1>2. core \in [next : Nat, done : Nat, end : Nat, cur_rec : Nat, waits : BOOLEAN, crashed : BOOLEAN]
  BY DEF EventInv, EventType
<1>3. CASE Kind(core.done + 1) = "P_SEND"
  <2>1. do_action_send(log[core.done + 1])
    BY <1>3 DEF update_state, Kind
  <2>. QED  BY <1>1, <1>3, <2>1, SendSession, SMTT(30)
<1>4. CASE Kind(core.done + 1) = "P_TCP_CONNECT"
  <2>1. do_action_tcp_connect(log[core.done + 1].clt_id)
    BY <1>4 DEF update_state, Kind
  <2>2. core'.done = core.done /\ writes' = writes
    BY <1>2, <2>1 DEF do_action_tcp_connect
  <2>3. Quiet
    BY <1>1, <2>2, SMTT(30) DEF Quiet
  <2>. QED  BY <2>3, QuietSession, SMTT(30)
<1>5. CASE Kind(core.done + 1) \notin {"P_SEND", "P_TCP_CONNECT"}
  <2>1. Executed /\ writes' = writes
    BY <1>5 DEF update_state, Kind, do_action_udp_connect, do_action_close
  <2>2. core'.done = core.done + 1
    BY <1>1, <2>1, ExecutedCore
  <2>3. Quiet
    BY <1>1, <1>5, <2>1, <2>2, SMTT(30) DEF Quiet
  <2>. QED  BY <2>3, QuietSession
<1>. QED  BY <1>3, <1>4, <1>5

\* Every step keeps SessionInv.
LEMMA SessionStep ==
  ASSUME EventInv, SocketInv, SessionInv, [EventNext]_eventVars
  PROVE  SessionInv'
<1>0. EventType /\ ThreadInv /\ TcpInv /\ UdpInv
  BY SMTT(30) DEF EventInv, LeaderInv
<1>1. ASSUME NEW c \in TcpConn, accept(c) \/ read(c) \/ write(c) \/ close(c) PROVE SessionInv'
  <2>1. \E e \in Request : TcpAsks(c, e)
    BY <1>0, <1>1, AcceptAsks, OpenAsks
  <2>. QED  BY <2>1, AsksSession, SMTT(30) DEF Client
<1>2. ASSUME NEW c \in UdpPeer, recvfrom(c) PROVE SessionInv'
  <2>1. \E e \in Request : UdpAsks(c, e)
    BY <1>0, <1>2, RecvAsks, SMTT(30)
  <2>. QED  BY <2>1, AsksSession, SMTT(30) DEF Client
<1>3. ASSUME NEW c \in Client, SecondRequest(c) \/ PostEntry(c) \/ CommitEntry(c) PROVE SessionInv'
  <2>1. CASE SecondRequest(c)
    <3>1. \E e \in Request : (c \in TcpConn /\ TcpAsks(c, e)) \/ (c \in UdpPeer /\ UdpAsks(c, e))
      BY <1>0, <2>1, SecondAsks, SMTT(30)
    <3>. QED  BY <3>1, AsksSession, SMTT(30)
  <2>2. CASE PostEntry(c) \/ CommitEntry(c)
    BY <2>2, PostStep, CommitStep, GoesSession
  <2>. QED  BY <1>3, <2>1, <2>2
<1>4. CASE update_state
  BY <1>4, UpdateSession, SMTT(30)
<1>5. core \in [next : Nat, done : Nat, end : Nat, cur_rec : Nat, waits : BOOLEAN, crashed : BOOLEAN]
  BY <1>0, SMTT(30) DEF EventType
<1>6. CASE TakeRequest
  <2>1. core'.done = core.done
    BY <1>5, <1>6, SMTT(30) DEF TakeRequest
  <2>2. Quiet
    BY <1>6, <2>1 DEF TakeRequest, Quiet, leaderVars
  <2>. QED  BY <2>2, QuietSession
<1>7. CASE ConnectReturns
  <2>1. core'.done = core.done + 1 /\ core.waits
    BY <1>5, <1>7, SMTT(30) DEF ConnectReturns
  <2>2. Kind(core.done + 1) # "P_SEND"
    BY <2>1, Waiting, SMTT(30)
  <2>3. Quiet
    BY <1>7, <2>1, <2>2 DEF ConnectReturns, Quiet, leaderVars
  <2>. QED  BY <2>3, QuietSession
<1>8. CASE \/ AcceptInner \/ (\E f \in Fd : ServerClose(f)) \/ UNCHANGED eventVars
           \/ \E c \in TcpConn : UnpairedCall(c)
  <2>1. log' = log /\ conn' = conn /\ writes' = writes /\ core' = core
    BY <1>8 DEF AcceptInner, ServerClose, UnpairedCall, eventVars, leaderVars, replicaVars
  <2>2. Quiet
    BY <2>1 DEF Quiet
  <2>. QED  BY <2>2, QuietSession
<1>. QED  BY <1>1, <1>2, <1>3, <1>4, <1>6, <1>7, <1>8 DEF EventNext

\* Whatever the threads of the leader's connections and of the replica do in
\* between, the replica replays the session of each client: do_action_send writes
\* its reads in the order in which server_side_on_read or mgr_on_recvfrom saw them,
\* none left out, none twice, and those of a TCP client to the one socket that
\* do_action_tcp_connect opened for its connection.
THEOREM SessionsAreSame == EventSpec => []SameSession
<1>1. EventInit => SocketInv /\ SessionInv
  <2>. SUFFICES ASSUME EventInit PROVE SocketInv /\ SessionInv
    OBVIOUS
  <2>1. DOMAIN replica_tcp_map = {}
    BY SMTT(30) DEF EventInit
  <2>. QED  BY <2>1, InitSession DEF SocketInv
<1>2. EventInv /\ SocketInv /\ SessionInv /\ [EventNext]_eventVars => SocketInv' /\ SessionInv'
  BY SocketStep, SessionStep
<1>3. SessionInv => SameSession
  BY DEF SessionInv
<1>. QED  BY EventInvariant, <1>1, <1>2, <1>3, PTL DEF EventSpec
=============================================================================
