--------------------------- MODULE EventMgrProofs ---------------------------
(***************************************************************************)
(* Proofs about EventMgr, for any number of clients, descriptors and       *)
(* requests.                                                               *)
(***************************************************************************)
EXTENDS EventMgr, TLAPS

\* A leaf is for Zenon unless it names another prover.
USE Zenon

Kinds == {"P_TCP_CONNECT", "P_UDP_CONNECT", "P_SEND", "P_OUTPUT", "P_CLOSE", "P_NOP"}
Request == [type : Kinds, clt_id : Nat, data : Client \X Nat, posted : BOOLEAN, canbe_exed : Nat]
Thread == [pc : Kinds \cup {"new", "open", "closed"}, stage : {"out", "post", "commit", "again"},
           idx : Nat, fd : Fd \cup {NoFd}, vs : Nat, reads : Nat, checks : Nat]
Pair == [p_s : Nat, s_p : Fd \cup {NoFd}, accepted : BOOLEAN]

EventType ==
    /\ log \in Seq(Request) /\ committed \in Nat /\ conn \in [Client -> Thread]
    /\ leader_tcp_map \in [Fd -> Nat \cup {NoPair}] /\ leader_udp_map \subseteq UdpPeer
    /\ core \in [next : Nat, done : Nat, end : Nat, cur_rec : Nat, waits : BOOLEAN, crashed : BOOLEAN]
    /\ DOMAIN replica_tcp_map \subseteq Nat
    /\ replica_tcp_map \in [DOMAIN replica_tcp_map -> Pair]
    /\ server \in [Fd -> Nat \cup {Unused}] /\ writes \in Seq(Nat \X (Client \X Nat))

\* The client and the kind of the n-th request.
Of(n) == log[n].data[1]
Kind(n) == log[n].type
Stamps == 1 .. Len(log)

\* A request is in the hands of one thread until it is committed.
ThreadInv ==
    \A c \in Client :
        LET t == conn[c]
        IN  /\ t.stage = "out" <=> t.pc \in {"new", "open", "closed"}
            /\ t.stage = "again" => t.pc \in {"P_UDP_CONNECT", "P_CLOSE"}
            /\ t.stage # "out" => t.idx \in Stamps /\ Kind(t.idx) = t.pc /\ Of(t.idx) = c
            /\ t.stage \in {"post", "commit"} =>
                  t.idx > committed /\ (log[t.idx].posted <=> t.stage = "commit")
            /\ t.stage = "again" => t.idx <= committed
            /\ t.pc = "new" => \A n \in Stamps : Of(n) # c

\* A thread has one request under way.
OrderInv ==
    /\ committed <= Len(log)
    /\ \A n \in Stamps :
          /\ n <= committed => log[n].posted
          /\ n > committed => conn[Of(n)].stage \in {"post", "commit"} /\ conn[Of(n)].idx = n
          /\ log[n].canbe_exed < n
          /\ log[n].posted => \A m \in 1 .. n - 1 : Of(m) = Of(n) => m <= log[n].canbe_exed

\* A TCP connection, from its accept to its close.
TcpInv ==
    \A c \in TcpConn :
        LET t == conn[c]
        IN  /\ t.pc # "P_UDP_CONNECT"
            /\ t.pc # "new" => t.vs \in Stamps /\ Kind(t.vs) = "P_TCP_CONNECT" /\ Of(t.vs) = c
            /\ t.fd = NoFd <=> t.pc \in {"new", "closed"}
            /\ t.pc \in {"open", "P_TCP_CONNECT", "P_SEND", "P_OUTPUT"} => leader_tcp_map[t.fd] = t.vs
            /\ \A d \in TcpConn : d # c /\ conn[d].fd = t.fd => t.fd = NoFd
            /\ t.pc \in {"P_NOP", "closed"} =>
                  \E n \in Stamps, m \in Stamps : n < m /\ Of(n) = c /\ Of(m) = c /\ Kind(n) = "P_CLOSE"

\* The requests of a TCP connection: connect, reads and outputs, close, P_NOP.  An
\* output that follows a read follows its P_SEND.
TcpRequests ==
    \A n \in Stamps : Of(n) \in TcpConn =>
        LET t == conn[Of(n)]
        IN  /\ Kind(n) # "P_UDP_CONNECT"
            /\ n >= t.vs /\ (n = t.vs <=> Kind(n) = "P_TCP_CONNECT")
            /\ Kind(n) # "P_NOP" => log[n].clt_id = t.vs
            /\ Kind(n) = "P_CLOSE" =>
                  /\ t.pc \in {"P_CLOSE", "P_NOP", "closed"}
                  /\ \A m \in Stamps : m > n /\ Of(m) = Of(n) => Kind(m) = "P_NOP"
            /\ Kind(n) = "P_OUTPUT" /\ log[n].data[2] > 0 =>
                  \E m \in 1 .. n - 1 : Of(m) = Of(n) /\ Kind(m) = "P_SEND"

UdpInv ==
    \A c \in UdpPeer :
        /\ conn[c].pc \in {"new", "open", "P_UDP_CONNECT", "P_SEND"} /\ conn[c].vs = 0
        /\ c \in leader_udp_map => \E n \in Stamps : Of(n) = c /\ Kind(n) = "P_UDP_CONNECT"
UdpRequests ==
    \A n \in Stamps : Of(n) \in UdpPeer =>
        /\ Kind(n) \in {"P_UDP_CONNECT", "P_SEND"} /\ log[n].clt_id = 0
        /\ Kind(n) = "P_SEND" => \E m \in 1 .. n - 1 : Of(m) = Of(n) /\ Kind(m) = "P_UDP_CONNECT"

\* A connection that has read has a P_SEND in the log.
ReadFirst ==
    \A c \in TcpConn : conn[c].reads > 0 => \E n \in Stamps : Of(n) = c /\ Kind(n) = "P_SEND"

\* The replica executes a prefix of what it has taken.
CoreInv ==
    /\ core.next <= Len(log) + 1 /\ core.end < core.next /\ core.done <= core.end
    /\ \A m \in 1 .. core.next - 1 : log[m].posted /\ log[m].canbe_exed <= core.end
    /\ core.waits => core.done < core.end /\ core.cur_rec = core.done + 1
                     /\ Kind(core.cur_rec) = "P_TCP_CONNECT"

\* The pairs are those of the connections that are open after this prefix.
Begun == IF core.waits THEN core.done + 1 ELSE core.done
Opened(v) == v \in 1 .. Begun /\ Kind(v) = "P_TCP_CONNECT"
Closed(v) == \E n \in 1 .. core.done : Kind(n) = "P_CLOSE" /\ log[n].clt_id = v
PairsInv ==
    /\ \A v \in Nat \ {0} : v \in DOMAIN replica_tcp_map <=> Opened(v) /\ ~Closed(v)
    /\ (\E n \in 1 .. core.done : Kind(n) = "P_UDP_CONNECT") => 0 \in DOMAIN replica_tcp_map

\* A pair is accepted when its connect has returned; its descriptor is the
\* application's end, unless the application has closed it.
Joined(v) == replica_tcp_map[v].accepted /\ replica_tcp_map[v].s_p \in Fd
             /\ (server[replica_tcp_map[v].s_p] = v \/ \A f \in Fd : server[f] # v)
AcceptInv ==
    /\ ~core.waits => backlog = <<>>
    /\ core.waits => \/ backlog = <<core.done + 1>> /\ ~replica_tcp_map[core.done + 1].accepted
                     \/ backlog = <<>> /\ Joined(core.done + 1)
    /\ \A v \in DOMAIN replica_tcp_map : v \in 1 .. core.done => Joined(v)

\* The application has at most one descriptor for a connection, and none for one
\* whose connect has not begun or is still in the backlog.
ServerInv ==
    \A f \in Fd : server[f] # Unused =>
        /\ server[f] \in 1 .. Begun /\ (server[f] = core.done + 1 => backlog = <<>>)
        /\ \A g \in Fd : server[g] = server[f] => g = f

\* The two parts of ReadsItsOutput; the first with the request that stopped the replica.
AnswersInv ==
    /\ core.crashed => core.next - 1 \in Stamps /\ log[core.next - 1].data[2] = 0
    /\ \A a \in answers : a.open => a.read = a.asked

LeaderInv == ThreadInv /\ OrderInv /\ TcpInv /\ TcpRequests /\ UdpInv /\ UdpRequests /\ ReadFirst
ReplicaInv == CoreInv /\ PairsInv /\ AcceptInv /\ ServerInv /\ AnswersInv
EventInv == EventType /\ LeaderInv /\ ReplicaInv

-----------------------------------------------------------------------------
(* What a thread of the leader does when it submits a request. *)

\* Thread c appends e to the log and is in rsm_op.
Asks(c, e) ==
    /\ conn[c].stage \in {"out", "again"}
    /\ e \in Request /\ log' = Append(log, e)
    /\ e.data = <<c, conn'[c].reads>> /\ ~e.posted /\ e.canbe_exed = 0
    /\ conn' \in [Client -> Thread] /\ \A d \in Client \ {c} : conn'[d] = conn[d]
    /\ conn'[c].pc = e.type /\ conn'[c].stage = "post" /\ conn'[c].idx = Len(log) + 1
    /\ UNCHANGED <<committed, replicaVars>>

TcpAsks(c, e) ==
    /\ Asks(c, e) /\ UNCHANGED leader_udp_map
    /\ \/ /\ e.type = "P_TCP_CONNECT" /\ conn[c].pc = "new"
          /\ conn'[c].vs = Len(log) + 1 /\ e.clt_id = Len(log) + 1 /\ conn'[c].reads = conn[c].reads
          /\ conn'[c].fd \in Fd /\ \A d \in TcpConn : conn[d].fd # conn'[c].fd
          /\ leader_tcp_map' = [leader_tcp_map EXCEPT ![conn'[c].fd] = Len(log) + 1]
       \/ /\ e.type \in {"P_SEND", "P_OUTPUT"} /\ conn[c].pc = "open"
          /\ conn'[c].vs = conn[c].vs /\ e.clt_id = conn[c].vs /\ conn'[c].fd = conn[c].fd
          /\ conn'[c].reads = IF e.type = "P_SEND" THEN conn[c].reads + 1 ELSE conn[c].reads
          /\ UNCHANGED leader_tcp_map
       \/ /\ e.type = "P_CLOSE" /\ conn[c].pc = "open"
          /\ conn'[c].vs = conn[c].vs /\ e.clt_id = conn[c].vs /\ conn'[c].fd = conn[c].fd
          /\ conn'[c].reads = conn[c].reads
          /\ leader_tcp_map' = [leader_tcp_map EXCEPT ![conn[c].fd] = NoPair]
       \/ /\ e.type = "P_NOP" /\ conn[c].pc = "P_CLOSE"
          /\ conn'[c].vs = conn[c].vs /\ conn'[c].fd = conn[c].fd /\ conn'[c].reads = conn[c].reads
          /\ UNCHANGED leader_tcp_map

UdpAsks(c, e) ==
    /\ Asks(c, e) /\ UNCHANGED leader_tcp_map
    /\ conn'[c].vs = 0 /\ e.clt_id = 0 /\ leader_udp_map' \subseteq leader_udp_map \cup {c}
    /\ \/ /\ e.type = "P_UDP_CONNECT" /\ conn[c].pc \in {"new", "open"}
          /\ conn'[c].reads = conn[c].reads + 1
       \/ /\ e.type = "P_SEND" /\ conn[c].pc \in {"new", "open"} /\ c \in leader_udp_map
          /\ conn'[c].reads = conn[c].reads + 1
       \/ /\ e.type = "P_SEND" /\ conn[c].pc = "P_UDP_CONNECT" /\ UNCHANGED leader_udp_map
          /\ conn'[c].reads = conn[c].reads



-----------------------------------------------------------------------------
(* Facts and initial states. *)

\* Sequences.
LEMMA Element ==
  ASSUME NEW S, NEW s \in Seq(S), NEW n \in 1 .. Len(s)
  PROVE  s[n] \in S
  BY SMTT(30)

\* What Append does.
LEMMA Appended ==
  ASSUME NEW S, NEW s \in Seq(S), NEW x \in S
  PROVE  /\ Append(s, x) \in Seq(S) /\ Len(Append(s, x)) = Len(s) + 1
         /\ Append(s, x)[Len(s) + 1] = x
         /\ \A i \in 1 .. Len(s) : Append(s, x)[i] = s[i]
  BY SMTT(30)

\* What the assumptions say of the constants.
LEMMA Constants ==
  /\ TcpConn \cap UdpPeer = {} /\ TcpConn \subseteq Client /\ UdpPeer \subseteq Client
  /\ Fd \subseteq Nat \ {0} /\ NoFd = 0 /\ NoPair = -1 /\ Unused = -1
  BY EventMgrAssumption DEF Client, NoFd, NoPair, Unused

\* The initial states satisfy the invariant.
LEMMA InitEventInv == EventInit => EventInv
<1>. SUFFICES ASSUME EventInit PROVE EventInv
  OBVIOUS
<1>1. log = <<>> /\ Len(log) = 0 /\ committed = 0 /\ writes = <<>> /\ Len(writes) = 0
      /\ backlog = <<>> /\ answers = {} /\ Stamps = {} /\ DOMAIN replica_tcp_map = {}
  BY SMTT(30) DEF EventInit, Stamps
<1>2. conn \in [Client -> Thread]
      /\ \A c \in Client : conn[c].pc = "new" /\ conn[c].stage = "out" /\ conn[c].fd = NoFd
                           /\ conn[c].vs = 0 /\ conn[c].reads = 0
  BY DEF EventInit, Thread
<1>3. core.next = 1 /\ core.done = 0 /\ core.end = 0 /\ ~core.waits /\ ~core.crashed
      /\ core \in [next : Nat, done : Nat, end : Nat, cur_rec : Nat, waits : BOOLEAN, crashed : BOOLEAN]
  BY DEF EventInit
<1>4. EventType
  <2>1. replica_tcp_map \in [DOMAIN replica_tcp_map -> Pair] /\ leader_udp_map = {}
    BY <1>1, SMTT(30) DEF EventInit
  <2>2. leader_tcp_map \in [Fd -> Nat \cup {NoPair}] /\ server \in [Fd -> Nat \cup {Unused}]
    BY DEF EventInit
  <2>. QED  BY <1>1, <1>2, <1>3, <2>1, <2>2, SMTT(30) DEF EventType
<1>7. ThreadInv /\ OrderInv /\ TcpRequests /\ UdpRequests
  BY <1>1, <1>2, SMTT(30) DEF ThreadInv, OrderInv, TcpRequests, UdpRequests
<1>8. TcpInv /\ UdpInv
  BY <1>1, <1>2, Constants DEF TcpInv, UdpInv, EventInit
<1>9. ReadFirst
  BY <1>2, Constants, SMTT(30) DEF ReadFirst
<1>10. CoreInv /\ PairsInv
  BY <1>1, <1>3, SMTT(30) DEF CoreInv, PairsInv, Begun, Opened
<1>11. AcceptInv /\ AnswersInv
  BY <1>1, <1>3 DEF AcceptInv, AnswersInv
<1>12. ServerInv
  BY DEF ServerInv, EventInit
<1>. QED
  BY <1>4, <1>7, <1>8, <1>9, <1>10, <1>11, <1>12 DEF EventInv, LeaderInv, ReplicaInv

-----------------------------------------------------------------------------
\* The thread of c enters rsm_op.
Enters(c, type, vs) ==
    /\ conn[c].stage \in {"out", "again"}
    /\ conn' \in [Client -> Thread] /\ \A d \in Client \ {c} : conn'[d] = conn[d]
    /\ conn'[c].pc = type /\ conn'[c].stage = "post" /\ conn'[c].idx = Len(log) + 1
    /\ Submit(c, type, vs) /\ UNCHANGED replicaVars

AsksFor(c, type, vs, e) == Asks(c, e) /\ e.type = type /\ (type # "P_NOP" => e.clt_id = vs)

\* A thread that enters rsm_op has appended a request.
LEMMA SubmitAsks ==
  ASSUME EventType, NEW c \in Client, NEW type \in Kinds, NEW vs \in Nat, Enters(c, type, vs)
  PROVE  \E e \in Request : AsksFor(c, type, vs, e)
<1>. DEFINE e == [type |-> type, clt_id |-> IF type = "P_NOP" THEN 0 ELSE vs,
                  data |-> <<c, conn'[c].reads>>, posted |-> FALSE, canbe_exed |-> 0]
<1>1. conn' \in [Client -> Thread] /\ conn'[c] \in Thread
  BY DEF Enters
<1>2. conn'[c].reads \in Nat
  BY <1>1 DEF Thread
<1>3. <<c, conn'[c].reads>> \in Client \X Nat
  BY <1>2
<1>4. e \in Request
  BY <1>3 DEF Request
<1>5. log' = Append(log, e) /\ UNCHANGED committed
  BY DEF Enters, Submit
<1>6. e.data = <<c, conn'[c].reads>> /\ ~e.posted /\ e.canbe_exed = 0 /\ e.type = type
      /\ (type # "P_NOP" => e.clt_id = vs)
  OBVIOUS
<1>. HIDE DEF e
<1>. QED  BY <1>1, <1>4, <1>5, <1>6 DEF Asks, AsksFor, Enters

InRsmAs(c, type, vs, u) ==
    /\ InRsm(c, type, vs) = [conn EXCEPT ![c] = u]
    /\ u.pc = type /\ u.stage = "post" /\ u.idx = Len(log) + 1 /\ u.vs = vs
    /\ u.fd = conn[c].fd /\ u.reads = conn[c].reads /\ u.checks = conn[c].checks

\* The thread that enters rsm_op, as a record.
LEMMA Entering ==
  ASSUME EventType, NEW c \in Client, NEW type \in Kinds, NEW vs \in Nat
  PROVE  \E u \in Thread : InRsmAs(c, type, vs, u)
<1>. DEFINE u == [conn[c] EXCEPT !.pc = type, !.stage = "post", !.idx = Len(log) + 1, !.vs = vs]
<1>1. conn \in [Client -> Thread] /\ conn[c] \in Thread /\ Len(log) + 1 \in Nat
  BY SMTT(30) DEF EventType
<1>2. InRsm(c, type, vs) = [conn EXCEPT ![c] = u]
  BY <1>1 DEF InRsm, NextStamp
<1>3. u \in Thread
  BY <1>1 DEF Thread
<1>4. /\ u.pc = type /\ u.stage = "post" /\ u.idx = Len(log) + 1 /\ u.vs = vs
      /\ u.fd = conn[c].fd /\ u.reads = conn[c].reads /\ u.checks = conn[c].checks
  BY <1>1 DEF Thread
<1>. HIDE DEF u
<1>. QED  BY <1>2, <1>3, <1>4 DEF InRsmAs

\* mgr_on_accept submits a P_TCP_CONNECT.
LEMMA AcceptAsks ==
  ASSUME EventType, ThreadInv, NEW c \in TcpConn, accept(c)
  PROVE  \E e \in Request : TcpAsks(c, e)
<1>1. PICK f \in Lowest({e \in Fd : \A d \in TcpConn : conn[d].fd # e}) : mgr_on_accept(c, f)
  BY DEF accept
<1>2. f \in Fd /\ (\A d \in TcpConn : conn[d].fd # f) /\ c \in Client /\ conn[c].pc = "new"
  BY Constants DEF Lowest, accept
<1>3. conn \in [Client -> Thread] /\ Len(log) + 1 \in Nat /\ conn[c].stage = "out"
  BY <1>2, SMTT(30) DEF EventType, ThreadInv
<1>4. "P_TCP_CONNECT" \in Kinds /\ "P_TCP_CONNECT" # "P_NOP"
  BY DEF Kinds
<1>5. PICK u \in Thread : InRsmAs(c, "P_TCP_CONNECT", Len(log) + 1, u)
  BY <1>2, <1>3, <1>4, Entering
<1>. DEFINE t == [u EXCEPT !.fd = f]
<1>6. t \in Thread /\ t.pc = "P_TCP_CONNECT" /\ t.stage = "post" /\ t.idx = Len(log) + 1
      /\ t.vs = Len(log) + 1 /\ t.fd = f /\ t.reads = conn[c].reads
  BY <1>2, <1>5 DEF Thread, InRsmAs
<1>7. conn' = [conn EXCEPT ![c] = t]
  BY <1>1, <1>2, <1>3, <1>5 DEF mgr_on_accept, NextStamp, InRsmAs
<1>. HIDE DEF t
<1>8. Submit(c, "P_TCP_CONNECT", Len(log) + 1) /\ UNCHANGED replicaVars
      /\ leader_tcp_map' = [leader_tcp_map EXCEPT ![f] = Len(log) + 1] /\ UNCHANGED leader_udp_map
  BY <1>1 DEF mgr_on_accept, NextStamp
<1>9. Enters(c, "P_TCP_CONNECT", Len(log) + 1) /\ conn'[c] = t
  BY <1>2, <1>3, <1>6, <1>7, <1>8 DEF Enters
<1>10. \E e \in Request : AsksFor(c, "P_TCP_CONNECT", Len(log) + 1, e)
  BY <1>2, <1>3, <1>4, <1>9, SubmitAsks
<1>. QED  BY <1>2, <1>6, <1>8, <1>9, <1>10 DEF TcpAsks, AsksFor, InRsmAs

\* The hooks of an open connection submit its requests.
LEMMA OpenAsks ==
  ASSUME EventType, ThreadInv, TcpInv, NEW c \in TcpConn, read(c) \/ write(c) \/ close(c)
  PROVE  \E e \in Request : TcpAsks(c, e)
<1>0. c \in Client /\ conn[c].pc = "open"
  BY Constants DEF read, write, close
<1>1. conn \in [Client -> Thread] /\ conn[c] \in Thread /\ conn[c].stage = "out"
      /\ leader_tcp_map[conn[c].fd] = conn[c].vs
  BY <1>0 DEF EventType, ThreadInv, TcpInv
<1>2. conn[c].reads \in Nat /\ conn[c].checks \in Nat /\ conn[c].vs \in Nat
  BY <1>1 DEF Thread
<1>3. ASSUME NEW kind \in Kinds
      PROVE  \E u \in Thread : InRsmAs(c, kind, conn[c].vs, u)
  BY <1>0, <1>2, Entering
<1>4. ASSUME NEW kind \in Kinds, Enters(c, kind, conn[c].vs)
      PROVE  \E e \in Request : AsksFor(c, kind, conn[c].vs, e)
  BY <1>0, <1>2, <1>4, SubmitAsks
<1>5. ASSUME read(c) PROVE \E e \in Request : TcpAsks(c, e)
  <2>1. "P_SEND" \in Kinds
    BY DEF Kinds
  <2>2. PICK u \in Thread : InRsmAs(c, "P_SEND", conn[c].vs, u)
    BY <1>3, <2>1
  <2>. DEFINE t == [u EXCEPT !.reads = u.reads + 1]
  <2>3. t \in Thread /\ t.pc = "P_SEND" /\ t.stage = "post" /\ t.idx = Len(log) + 1
        /\ t.vs = conn[c].vs /\ t.fd = conn[c].fd /\ t.reads = conn[c].reads + 1
    <3>1. u.reads + 1 \in Nat
      BY <1>2, <2>2, SMTT(30) DEF InRsmAs
    <3>. QED  BY <2>2, <3>1 DEF Thread, InRsmAs
  <2>4. conn' = [conn EXCEPT ![c] = t]
    BY <1>0, <1>1, <1>5, <2>2 DEF read, server_side_on_read, InRsmAs
  <2>. HIDE DEF t
  <2>5. Submit(c, "P_SEND", conn[c].vs) /\ UNCHANGED <<leader_tcp_map, leader_udp_map, replicaVars>>
    BY <1>1, <1>5 DEF read, server_side_on_read
  <2>6. Enters(c, "P_SEND", conn[c].vs) /\ conn'[c] = t
    BY <1>0, <1>1, <2>3, <2>4, <2>5 DEF Enters
  <2>7. \E e \in Request : AsksFor(c, "P_SEND", conn[c].vs, e)
    BY <1>4, <2>1, <2>6
  <2>. QED  BY <1>0, <2>3, <2>5, <2>6, <2>7 DEF TcpAsks, AsksFor, InRsmAs
<1>6. ASSUME write(c) PROVE \E e \in Request : TcpAsks(c, e)
  <2>1. "P_OUTPUT" \in Kinds
    BY DEF Kinds
  <2>2. PICK u \in Thread : InRsmAs(c, "P_OUTPUT", conn[c].vs, u)
    BY <1>3, <2>1
  <2>. DEFINE t == [u EXCEPT !.checks = u.checks + 1]
  <2>3. t \in Thread /\ t.pc = "P_OUTPUT" /\ t.stage = "post" /\ t.idx = Len(log) + 1
        /\ t.vs = conn[c].vs /\ t.fd = conn[c].fd /\ t.reads = conn[c].reads
    <3>1. u.checks + 1 \in Nat
      BY <1>2, <2>2, SMTT(30) DEF InRsmAs
    <3>. QED  BY <2>2, <3>1 DEF Thread, InRsmAs
  <2>4. conn' = [conn EXCEPT ![c] = t]
    BY <1>0, <1>1, <1>6, <2>2 DEF write, ProposeOutput, InRsmAs
  <2>. HIDE DEF t
  <2>5. Submit(c, "P_OUTPUT", conn[c].vs) /\ UNCHANGED <<leader_tcp_map, leader_udp_map, replicaVars>>
    BY <1>1, <1>6 DEF write, ProposeOutput
  <2>6. Enters(c, "P_OUTPUT", conn[c].vs) /\ conn'[c] = t
    BY <1>0, <1>1, <2>3, <2>4, <2>5 DEF Enters
  <2>7. \E e \in Request : AsksFor(c, "P_OUTPUT", conn[c].vs, e)
    BY <1>4, <2>1, <2>6
  <2>. QED  BY <1>0, <2>3, <2>5, <2>6, <2>7 DEF TcpAsks, AsksFor, InRsmAs
<1>7. ASSUME close(c) PROVE \E e \in Request : TcpAsks(c, e)
  <2>1. "P_CLOSE" \in Kinds
    BY DEF Kinds
  <2>2. PICK u \in Thread : InRsmAs(c, "P_CLOSE", conn[c].vs, u)
    BY <1>3, <2>1
  <2>3. conn' = [conn EXCEPT ![c] = u]
    BY <1>0, <1>1, <1>7, <2>2 DEF close, mgr_on_close, InRsmAs
  <2>4. Submit(c, "P_CLOSE", conn[c].vs) /\ UNCHANGED <<leader_udp_map, replicaVars>>
        /\ leader_tcp_map' = [leader_tcp_map EXCEPT ![conn[c].fd] = NoPair]
    BY <1>1, <1>7 DEF close, mgr_on_close
  <2>5. Enters(c, "P_CLOSE", conn[c].vs) /\ conn'[c] = u
    BY <1>0, <1>1, <2>2, <2>3, <2>4 DEF Enters, InRsmAs
  <2>6. \E e \in Request : AsksFor(c, "P_CLOSE", conn[c].vs, e)
    BY <1>4, <2>1, <2>5
  <2>. QED  BY <1>0, <2>2, <2>4, <2>5, <2>6 DEF TcpAsks, AsksFor, InRsmAs
<1>. QED  BY <1>5, <1>6, <1>7

\* The hook of recvfrom submits P_UDP_CONNECT or P_SEND.
LEMMA RecvAsks ==
  ASSUME EventType, ThreadInv, NEW c \in UdpPeer, recvfrom(c)
  PROVE  \E e \in Request : UdpAsks(c, e)
<1>. DEFINE type == IF c \in leader_udp_map THEN "P_SEND" ELSE "P_UDP_CONNECT"
<1>0. c \in Client /\ conn[c].pc \in {"new", "open"}
  BY Constants DEF recvfrom
<1>1. conn \in [Client -> Thread] /\ conn[c] \in Thread /\ conn[c].stage = "out"
  BY <1>0 DEF EventType, ThreadInv
<1>2. type \in Kinds /\ (type = "P_SEND" <=> c \in leader_udp_map) /\ type \in {"P_SEND", "P_UDP_CONNECT"}
      /\ type # "P_NOP" /\ 0 \in Nat
  BY DEF Kinds
<1>3. /\ conn' = [InRsm(c, type, 0) EXCEPT ![c].reads = @ + 1] /\ Submit(c, type, 0)
      /\ leader_udp_map' = leader_udp_map \cup {c} /\ UNCHANGED <<leader_tcp_map, replicaVars>>
  BY DEF recvfrom, mgr_on_recvfrom
<1>. HIDE DEF type
<1>4. PICK u \in Thread : InRsmAs(c, type, 0, u)
  BY <1>0, <1>2, Entering
<1>. DEFINE t == [u EXCEPT !.reads = u.reads + 1]
<1>5. t \in Thread /\ t.pc = type /\ t.stage = "post" /\ t.idx = Len(log) + 1 /\ t.vs = 0
      /\ t.reads = conn[c].reads + 1
  <2>1. u.reads + 1 \in Nat
    BY SMTT(30) DEF Thread
  <2>. QED  BY <1>4, <2>1 DEF Thread, InRsmAs
<1>6. conn' = [conn EXCEPT ![c] = t]
  BY <1>0, <1>1, <1>3, <1>4 DEF InRsmAs
<1>. HIDE DEF t
<1>7. Enters(c, type, 0) /\ conn'[c] = t
  <2>1. conn' \in [Client -> Thread] /\ conn'[c] = t /\ \A d \in Client \ {c} : conn'[d] = conn[d]
    BY <1>0, <1>1, <1>5, <1>6
  <2>2. Submit(c, type, 0) /\ UNCHANGED replicaVars
    BY <1>3
  <2>. QED  BY <1>1, <1>5, <2>1, <2>2 DEF Enters
<1>8. \E e \in Request : AsksFor(c, type, 0, e)
  BY <1>0, <1>2, <1>7, SubmitAsks
<1>. QED  BY <1>0, <1>2, <1>3, <1>5, <1>7, <1>8 DEF UdpAsks, AsksFor, InRsmAs

\* The second request of a hook: P_SEND after P_UDP_CONNECT, P_NOP after P_CLOSE.
LEMMA SecondAsks ==
  ASSUME EventType, ThreadInv, TcpInv, UdpInv, NEW c \in Client, SecondRequest(c)
  PROVE  \E e \in Request : (c \in TcpConn /\ TcpAsks(c, e)) \/ (c \in UdpPeer /\ UdpAsks(c, e))
<1>. DEFINE type == IF c \in UdpPeer THEN "P_SEND" ELSE "P_NOP"
<1>1. conn \in [Client -> Thread] /\ conn[c] \in Thread /\ conn[c].stage = "again"
  BY DEF EventType, SecondRequest
<1>2. type \in Kinds /\ (c \in UdpPeer => type = "P_SEND") /\ (c \in TcpConn => type = "P_NOP")
      /\ conn[c].vs \in Nat
  BY <1>1, Constants DEF Kinds, Thread
<1>3. /\ conn' = InRsm(c, type, conn[c].vs) /\ Submit(c, type, conn[c].vs)
      /\ UNCHANGED <<leader_tcp_map, leader_udp_map, replicaVars>>
  BY DEF SecondRequest
<1>. HIDE DEF type
<1>4. PICK u \in Thread : InRsmAs(c, type, conn[c].vs, u)
  BY <1>2, Entering
<1>5. Enters(c, type, conn[c].vs) /\ conn'[c] = u
  BY <1>1, <1>3, <1>4 DEF Enters, InRsmAs
<1>6. PICK e \in Request : AsksFor(c, type, conn[c].vs, e)
  BY <1>2, <1>5, SubmitAsks
<1>7. conn[c].pc \in {"P_UDP_CONNECT", "P_CLOSE"}
  BY <1>1 DEF ThreadInv
<1>8. CASE c \in TcpConn
  <2>1. conn[c].pc = "P_CLOSE"
    BY <1>7, <1>8 DEF TcpInv
  <2>. QED  BY <1>2, <1>3, <1>4, <1>5, <1>6, <1>8, <2>1 DEF TcpAsks, AsksFor, InRsmAs
<1>9. CASE c \in UdpPeer
  <2>1. conn[c].pc = "P_UDP_CONNECT" /\ conn[c].vs = 0
    BY <1>7, <1>9 DEF UdpInv
  <2>. QED  BY <1>2, <1>3, <1>4, <1>5, <1>6, <1>9, <2>1 DEF UdpAsks, AsksFor, InRsmAs
<1>. QED  BY <1>8, <1>9 DEF Client

-----------------------------------------------------------------------------
(* A submitted request. *)

\* The log grows by one request and keeps the others.
LEMMA LogGrows ==
  ASSUME EventType, NEW c \in Client, NEW e \in Request, Asks(c, e)
  PROVE  /\ Len(log) \in Nat /\ Len(log') = Len(log) + 1 /\ log' \in Seq(Request)
         /\ Stamps = 1 .. Len(log) /\ Stamps' = 1 .. Len(log) + 1
         /\ \A n \in Stamps : log'[n] = log[n] /\ Of(n)' = Of(n) /\ Kind(n)' = Kind(n) /\ Of(n) \in Client
         /\ log'[Len(log) + 1] = e /\ log'[Len(log) + 1].data[1] = c /\ log'[Len(log) + 1].type = e.type
<1>1. log \in Seq(Request) /\ log' = Append(log, e) /\ Len(log) \in Nat
  BY SMTT(30) DEF EventType, Asks
<1>2. Len(log') = Len(log) + 1 /\ log' \in Seq(Request) /\ log'[Len(log) + 1] = e
      /\ \A n \in 1 .. Len(log) : log'[n] = log[n]
  BY <1>1, SMTT(30)
<1>3. e.data[1] = c
  BY SMTT(30) DEF Asks
<1>4. \A n \in 1 .. Len(log) : Of(n) \in Client
  <2>. TAKE n \in 1 .. Len(log)
  <2>1. log[n] \in Request
    BY <1>1, Element
  <2>2. log[n].data \in Client \X Nat
    BY <2>1 DEF Request
  <2>. QED  BY <2>2 DEF Of
<1>. QED  BY <1>1, <1>2, <1>3, <1>4 DEF Stamps, Of, Kind

\* Submitting a request keeps ThreadInv and OrderInv.
LEMMA AsksThreads ==
  ASSUME EventType, ThreadInv, OrderInv, NEW c \in Client, NEW e \in Request, Asks(c, e), conn'[c].pc # "new"
  PROVE  ThreadInv' /\ OrderInv'
<1>0. /\ conn[c].stage \in {"out", "again"} /\ conn'[c].stage = "post" /\ conn'[c].idx = Len(log) + 1
      /\ conn'[c].pc = e.type /\ \A d \in Client \ {c} : conn'[d] = conn[d]
      /\ committed' = committed /\ committed \in Nat /\ ~e.posted /\ e.canbe_exed = 0
  BY DEF Asks, EventType
<1>1. /\ Len(log) \in Nat /\ Len(log') = Len(log) + 1
      /\ Stamps = 1 .. Len(log) /\ Stamps' = 1 .. Len(log) + 1
      /\ \A n \in Stamps : log'[n] = log[n] /\ Of(n)' = Of(n) /\ Kind(n)' = Kind(n) /\ Of(n) \in Client
      /\ log'[Len(log) + 1] = e /\ log'[Len(log) + 1].data[1] = c /\ log'[Len(log) + 1].type = e.type
  BY LogGrows
<1>2. committed <= Len(log) /\ \A n \in Stamps : n > committed => Of(n) # c
  BY <1>0 DEF OrderInv
<1>3. ThreadInv'
  <2>. SUFFICES ASSUME NEW d \in Client
       PROVE  LET t == conn'[d]
              IN  /\ t.stage = "out" <=> t.pc \in {"new", "open", "closed"}
                  /\ t.stage = "again" => t.pc \in {"P_UDP_CONNECT", "P_CLOSE"}
                  /\ t.stage # "out" => t.idx \in Stamps' /\ log'[t.idx].type = t.pc /\ log'[t.idx].data[1] = d
                  /\ t.stage \in {"post", "commit"} =>
                        t.idx > committed' /\ (log'[t.idx].posted <=> t.stage = "commit")
                  /\ t.stage = "again" => t.idx <= committed'
                  /\ t.pc = "new" => \A n \in Stamps' : log'[n].data[1] # d
    BY DEF ThreadInv, Of, Kind
  <2>1. CASE d = c
    <3>1. e.type \notin {"new", "open", "closed"}
      BY DEF Request, Kinds
    <3>2. /\ conn'[d].stage = "post" /\ conn'[d].pc = e.type /\ conn'[d].idx \in Stamps'
          /\ conn'[d].idx > committed' /\ ~log'[conn'[d].idx].posted
          /\ log'[conn'[d].idx].type = e.type /\ log'[conn'[d].idx].data[1] = d
      BY <1>0, <1>1, <1>2, <2>1, SMTT(30)
    <3>3. conn'[d].stage \notin {"out", "again", "commit"} /\ conn'[d].pc \notin {"new", "open", "closed"}
      BY <3>1, <3>2
    <3>. QED  BY <3>2, <3>3
  <2>2. CASE d # c
    <3>1. conn'[d] = conn[d]
      BY <1>0, <2>2
    <3>2. LET t == conn[d]
          IN  /\ t.stage = "out" <=> t.pc \in {"new", "open", "closed"}
              /\ t.stage = "again" => t.pc \in {"P_UDP_CONNECT", "P_CLOSE"}
              /\ t.stage # "out" => t.idx \in Stamps /\ log[t.idx].type = t.pc /\ log[t.idx].data[1] = d
              /\ t.stage \in {"post", "commit"} =>
                    t.idx > committed /\ (log[t.idx].posted <=> t.stage = "commit")
              /\ t.stage = "again" => t.idx <= committed
              /\ t.pc = "new" => \A n \in Stamps : log[n].data[1] # d
      BY DEF ThreadInv, Of, Kind
    <3>3. \A n \in Stamps : n \in Stamps' /\ log'[n] = log[n]
      BY <1>1, SMTT(30)
    <3>4. \A n \in Stamps' : n \in Stamps \/ log'[n].data[1] = c
      BY <1>1, SMTT(30)
    <3>. QED  BY <1>0, <2>2, <3>1, <3>2, <3>3, <3>4, SMTT(30)
  <2>. QED  BY <2>1, <2>2
<1>4. OrderInv'
  <2>. SUFFICES ASSUME NEW n \in Stamps'
       PROVE  /\ n <= committed => log'[n].posted
              /\ n > committed => conn'[Of(n)'].stage \in {"post", "commit"} /\ conn'[Of(n)'].idx = n
              /\ log'[n].canbe_exed < n
              /\ log'[n].posted => \A m \in 1 .. n - 1 : Of(m)' = Of(n)' => m <= log'[n].canbe_exed
    BY <1>0, <1>1, <1>2, SMTT(30) DEF OrderInv
  <2>1. CASE n = Len(log) + 1
    BY <1>0, <1>1, <1>2, <2>1, SMTT(30) DEF Of
  <2>2. CASE n \in Stamps
    <3>1. /\ n <= committed => log[n].posted
          /\ n > committed => conn[Of(n)].stage \in {"post", "commit"} /\ conn[Of(n)].idx = n
          /\ log[n].canbe_exed < n
          /\ log[n].posted => \A m \in 1 .. n - 1 : Of(m) = Of(n) => m <= log[n].canbe_exed
      BY <2>2 DEF OrderInv
    <3>2. log'[n] = log[n] /\ Of(n)' = Of(n) /\ Of(n) \in Client /\ \A m \in 1 .. n - 1 : Of(m)' = Of(m)
      BY <1>1, <2>2, SMTT(30)
    <3>3. n > committed => conn'[Of(n)] = conn[Of(n)]
      BY <1>0, <1>2, <2>2, <3>2
    <3>. QED  BY <3>1, <3>2, <3>3
  <2>. QED  BY <1>1, <2>1, <2>2, SMTT(30)
<1>. QED  BY <1>3, <1>4

\* What the replica has seen of the log is not touched when the log grows or a
\* request is posted.
LEMMA ReplicaKept ==
  ASSUME EventType, ReplicaInv, UNCHANGED replicaVars,
         Len(log) \in Nat, Len(log') \in Nat, Len(log) <= Len(log'),
         \A n \in Stamps : Of(n)' = Of(n) /\ Kind(n)' = Kind(n) /\ log'[n].clt_id = log[n].clt_id
                           /\ log'[n].data = log[n].data,
         \A n \in Stamps : log[n].posted => log'[n].posted /\ log'[n].canbe_exed = log[n].canbe_exed
  PROVE  ReplicaInv'
<1>0. Stamps = 1 .. Len(log) /\ Stamps' = 1 .. Len(log') /\ core' = core /\ replica_tcp_map' = replica_tcp_map
      /\ backlog' = backlog /\ server' = server /\ writes' = writes /\ answers' = answers
  BY DEF Stamps, replicaVars
<1>1. core.next \in Nat /\ core.done \in Nat /\ core.end \in Nat /\ core.cur_rec \in Nat
  BY DEF EventType
<1>2. CoreInv
  BY DEF ReplicaInv
<1>3. core.next - 1 <= Len(log) /\ core.done <= Len(log) /\ Begun <= Len(log) /\ Begun \in Nat
      /\ Begun' = Begun /\ (core.waits => core.cur_rec \in Stamps)
  BY <1>0, <1>1, <1>2, SMTT(30) DEF CoreInv, Begun
<1>4. CoreInv'
  <2>1. core.waits => Kind(core.cur_rec)' = Kind(core.cur_rec)
    BY <1>0, <1>3 DEF Kind
  <2>2. \A m \in 1 .. core.next - 1 : log'[m].posted /\ log'[m].canbe_exed <= core.end
    BY <1>0, <1>1, <1>2, <1>3, SMTT(30) DEF CoreInv
  <2>. QED  BY <1>0, <1>1, <1>2, <1>3, <2>1, <2>2, SMTT(30) DEF CoreInv
<1>5. PairsInv'
  <2>1. \A v \in Nat \ {0} : (Opened(v)' <=> Opened(v)) /\ (Closed(v)' <=> Closed(v))
    <3>1. \A n \in 1 .. core.done : n \in Stamps
      BY <1>0, <1>1, <1>3, SMTT(30)
    <3>2. \A v \in 1 .. Begun : v \in Stamps
      BY <1>0, <1>3, SMTT(30)
    <3>. QED  BY <1>0, <1>3, <3>1, <3>2 DEF Opened, Closed
  <2>2. PairsInv
    BY DEF ReplicaInv
  <2>. QED  BY <1>0, <1>1, <1>3, <2>1, <2>2, SMTT(30) DEF PairsInv
<1>6. AcceptInv'
  BY <1>0 DEF ReplicaInv, AcceptInv, Joined
<1>7. ServerInv'
  BY <1>0, <1>3 DEF ReplicaInv, ServerInv
<1>8. AnswersInv'
  <2>1. core.crashed => core.next - 1 \in Stamps' /\ log'[core.next - 1].data[2] = 0
    BY <1>0, SMTT(30) DEF ReplicaInv, AnswersInv
  <2>. QED  BY <1>0, <2>1 DEF ReplicaInv, AnswersInv
<1>. QED  BY <1>4, <1>5, <1>6, <1>7, <1>8 DEF ReplicaInv

\* A request of a TCP connection keeps what is known of TCP connections.
LEMMA TcpAsksTcp ==
  ASSUME EventType, LeaderInv, NEW c \in TcpConn, NEW e \in Request, TcpAsks(c, e)
  PROVE  TcpInv' /\ TcpRequests'
<1>0. c \in Client /\ Asks(c, e) /\ ThreadInv /\ TcpInv /\ TcpRequests /\ ReadFirst
  BY Constants DEF TcpAsks, LeaderInv
<1>1. PICK N \in Nat : N = Len(log)
  BY <1>0, LogGrows
<1>2. /\ Stamps = 1 .. N /\ Stamps' = 1 .. N + 1
      /\ \A n \in Stamps : log'[n] = log[n] /\ Of(n)' = Of(n) /\ Kind(n)' = Kind(n) /\ Of(n) \in Client
      /\ log'[N + 1] = e /\ Of(N + 1)' = c /\ Kind(N + 1)' = e.type
  <2>1. Of(N + 1)' = log'[N + 1].data[1] /\ Kind(N + 1)' = log'[N + 1].type
    BY DEF Of, Kind
  <2>. QED  BY <1>0, <1>1, <2>1, LogGrows
<1>3. conn'[c].pc = e.type /\ \A d \in TcpConn \ {c} : conn'[d] = conn[d]
  BY <1>0, Constants DEF Asks
<1>4. \/ /\ conn[c].pc = "new" /\ e.type = "P_TCP_CONNECT" /\ conn'[c].vs = N + 1 /\ e.clt_id = N + 1
         /\ \A n \in Stamps : Of(n) # c
      \/ /\ conn[c].pc = "open" /\ e.type \in {"P_SEND", "P_OUTPUT", "P_CLOSE"} /\ conn'[c].vs = conn[c].vs
         /\ e.clt_id = conn[c].vs /\ conn'[c].fd = conn[c].fd
      \/ /\ conn[c].pc = "P_CLOSE" /\ e.type = "P_NOP" /\ conn'[c].vs = conn[c].vs
         /\ conn'[c].fd = conn[c].fd
  BY <1>0, <1>1 DEF TcpAsks, ThreadInv
<1>5. conn[c].pc # "new" =>
         conn[c].vs \in Stamps /\ Kind(conn[c].vs) = "P_TCP_CONNECT" /\ Of(conn[c].vs) = c
  BY <1>0 DEF TcpInv
<1>6. TcpRequests'
  <2>. SUFFICES ASSUME NEW n \in Stamps', Of(n)' \in TcpConn
       PROVE  /\ Kind(n)' # "P_UDP_CONNECT"
              /\ n >= conn'[Of(n)'].vs /\ (n = conn'[Of(n)'].vs <=> Kind(n)' = "P_TCP_CONNECT")
              /\ Kind(n)' # "P_NOP" => log'[n].clt_id = conn'[Of(n)'].vs
              /\ Kind(n)' = "P_CLOSE" =>
                    /\ conn'[Of(n)'].pc \in {"P_CLOSE", "P_NOP", "closed"}
                    /\ \A m \in Stamps' : m > n /\ Of(m)' = Of(n)' => Kind(m)' = "P_NOP"
              /\ Kind(n)' = "P_OUTPUT" /\ log'[n].data[2] > 0 =>
                    \E m \in 1 .. n - 1 : Of(m)' = Of(n)' /\ Kind(m)' = "P_SEND"
    BY DEF TcpRequests
  <2>1. CASE n = N + 1
    <3>1. Of(n)' = c /\ Kind(n)' = e.type /\ log'[n] = e /\ \A m \in Stamps' : ~(m > n)
      BY <1>2, <2>1, SMTT(30)
    <3>2. ASSUME e.type = "P_OUTPUT", e.data[2] > 0
          PROVE  \E m \in 1 .. n - 1 : Of(m)' = Of(n)' /\ Kind(m)' = "P_SEND"
      <4>1. conn[c].reads > 0
        <5>1. e.data[2] = conn'[c].reads
          BY <1>0, SMTT(30) DEF Asks
        <5>2. conn'[c].reads = conn[c].reads
          BY <3>2 DEF TcpAsks
        <5>. QED  BY <3>2, <5>1, <5>2
      <4>2. PICK m \in Stamps : Of(m) = c /\ Kind(m) = "P_SEND"
        BY <1>0, <4>1 DEF ReadFirst
      <4>3. m \in 1 .. n - 1 /\ Of(m)' = c /\ Kind(m)' = "P_SEND"
        BY <1>2, <2>1, <4>2, SMTT(30)
      <4>. QED  BY <3>1, <4>3
    <3>3. n >= conn'[c].vs /\ (n = conn'[c].vs <=> e.type = "P_TCP_CONNECT")
      BY <1>2, <1>4, <1>5, <2>1, SMTT(30)
    <3>. QED  BY <1>3, <1>4, <3>1, <3>2, <3>3
  <2>2. CASE n \in Stamps
    <3>1. Of(n)' = Of(n) /\ Kind(n)' = Kind(n) /\ log'[n] = log[n]
      BY <1>2, <2>2
    <3>2. /\ Kind(n) # "P_UDP_CONNECT"
          /\ n >= conn[Of(n)].vs /\ (n = conn[Of(n)].vs <=> Kind(n) = "P_TCP_CONNECT")
          /\ Kind(n) # "P_NOP" => log[n].clt_id = conn[Of(n)].vs
          /\ Kind(n) = "P_CLOSE" =>
                /\ conn[Of(n)].pc \in {"P_CLOSE", "P_NOP", "closed"}
                /\ \A m \in Stamps : m > n /\ Of(m) = Of(n) => Kind(m) = "P_NOP"
          /\ Kind(n) = "P_OUTPUT" /\ log[n].data[2] > 0 =>
                \E m \in 1 .. n - 1 : Of(m) = Of(n) /\ Kind(m) = "P_SEND"
      BY <1>0, <2>2, <3>1 DEF TcpRequests
    <3>3. conn'[Of(n)].vs = conn[Of(n)].vs
      BY <1>3, <1>4, <2>2, <3>1
    <3>4. Kind(n) = "P_OUTPUT" /\ log[n].data[2] > 0 =>
             \E m \in 1 .. n - 1 : Of(m)' = Of(n)' /\ Kind(m)' = "P_SEND"
      <4>1. \A m \in 1 .. n - 1 : m \in Stamps
        BY <1>2, <2>2, SMTT(30)
      <4>. QED  BY <1>2, <3>1, <3>2, <4>1
    <3>5. ASSUME Kind(n) = "P_CLOSE"
          PROVE  /\ conn'[Of(n)].pc \in {"P_CLOSE", "P_NOP", "closed"}
                 /\ \A m \in Stamps' : m > n /\ Of(m)' = Of(n)' => Kind(m)' = "P_NOP"
      <4>1. Of(n) = c => e.type = "P_NOP"
        BY <1>4, <2>2, <3>2, <3>5
      <4>2. conn'[Of(n)].pc \in {"P_CLOSE", "P_NOP", "closed"}
        BY <1>3, <3>1, <3>2, <3>5, <4>1
      <4>3. ASSUME NEW m \in Stamps', m > n, Of(m)' = Of(n)' PROVE Kind(m)' = "P_NOP"
        <5>1. CASE m = N + 1
          BY <1>2, <3>1, <4>1, <4>3, <5>1
        <5>2. CASE m \in Stamps
          BY <1>2, <3>1, <3>2, <3>5, <4>3, <5>2
        <5>. QED  BY <1>2, <5>1, <5>2, SMTT(30)
      <4>. QED  BY <4>2, <4>3
    <3>. QED  BY <3>1, <3>2, <3>3, <3>4, <3>5
  <2>. QED  BY <1>2, <2>1, <2>2, SMTT(30)
<1>7. TcpInv'
  <2>. SUFFICES ASSUME NEW d \in TcpConn
       PROVE  /\ conn'[d].pc # "P_UDP_CONNECT"
              /\ conn'[d].pc # "new" => conn'[d].vs \in Stamps' /\ log'[conn'[d].vs].type = "P_TCP_CONNECT"
                                        /\ log'[conn'[d].vs].data[1] = d
              /\ conn'[d].fd = NoFd <=> conn'[d].pc \in {"new", "closed"}
              /\ conn'[d].pc \in {"open", "P_TCP_CONNECT", "P_SEND", "P_OUTPUT"} =>
                    leader_tcp_map'[conn'[d].fd] = conn'[d].vs
              /\ \A b \in TcpConn : b # d /\ conn'[b].fd = conn'[d].fd => conn'[d].fd = NoFd
              /\ conn'[d].pc \in {"P_NOP", "closed"} =>
                  \E n \in Stamps', m \in Stamps' : n < m /\ Of(n)' = d /\ Of(m)' = d /\ Kind(n)' = "P_CLOSE"
    BY DEF TcpInv, Of, Kind
  <2>1. \A b \in TcpConn :
              /\ conn[b].pc # "P_UDP_CONNECT"
              /\ conn[b].pc # "new" => conn[b].vs \in Stamps /\ log[conn[b].vs].type = "P_TCP_CONNECT"
                                        /\ log[conn[b].vs].data[1] = b
              /\ conn[b].fd = NoFd <=> conn[b].pc \in {"new", "closed"}
              /\ conn[b].pc \in {"open", "P_TCP_CONNECT", "P_SEND", "P_OUTPUT"} =>
                    leader_tcp_map[conn[b].fd] = conn[b].vs
              /\ \A a \in TcpConn : a # b /\ conn[a].fd = conn[b].fd => conn[b].fd = NoFd
              /\ conn[b].pc \in {"P_NOP", "closed"} =>
                  \E n \in Stamps, m \in Stamps : n < m /\ Of(n) = b /\ Of(m) = b /\ Kind(n) = "P_CLOSE"
    BY <1>0 DEF TcpInv, Of, Kind
  <2>2. \A b \in TcpConn : conn[b].fd \in Fd \cup {NoFd}
    <3>. TAKE b \in TcpConn
    <3>1. conn[b] \in Thread
      BY Constants DEF EventType
    <3>. QED  BY <3>1 DEF Thread
  <2>3. \A n \in Stamps : n \in Stamps' /\ log'[n] = log[n] /\ Of(n)' = Of(n) /\ Kind(n)' = Kind(n)
    BY <1>2, SMTT(30)
  <2>4. \A b \in TcpConn : conn'[b].fd = NoFd <=> conn'[b].pc \in {"new", "closed"}
    <3>. TAKE b \in TcpConn
    <3>1. CASE b = c
      BY <1>3, <1>4, <2>1, <3>1, Constants, SMTT(30) DEF TcpAsks
    <3>2. CASE b # c
      BY <1>3, <2>1, <3>2, SMTT(30)
    <3>. QED  BY <3>1, <3>2
  <2>5. \A b \in TcpConn : b # d /\ conn'[b].fd = conn'[d].fd => conn'[d].fd = NoFd
    <3>1. CASE e.type = "P_TCP_CONNECT"
      <4>1. \A b \in TcpConn : conn[b].fd # conn'[c].fd
        BY <3>1 DEF TcpAsks
      <4>. QED  BY <1>3, <2>1, <4>1, SMTT(30)
    <3>2. CASE e.type # "P_TCP_CONNECT"
      <4>1. \A b \in TcpConn : conn'[b].fd = conn[b].fd
        BY <1>3, <1>4, <3>2
      <4>. QED  BY <2>1, <4>1, SMTT(30)
    <3>. QED  BY <3>1, <3>2
  <2>6. leader_tcp_map \in [Fd -> Nat \cup {NoPair}]
    BY DEF EventType
  <2>7. CASE d = c
    <3>1. conn'[d].pc # "P_UDP_CONNECT" /\ conn'[d].pc # "closed"
      BY <1>3, <1>4, <2>7
    <3>2. conn'[d].vs \in Stamps' /\ log'[conn'[d].vs].type = "P_TCP_CONNECT" /\ log'[conn'[d].vs].data[1] = d
      <4>1. CASE conn[c].pc = "new"
        BY <1>2, <1>4, <2>7, <4>1, SMTT(30) DEF Of, Kind
      <4>2. CASE conn[c].pc # "new"
        BY <1>2, <1>4, <1>5, <2>7, <4>2, SMTT(30) DEF Of, Kind
      <4>. QED  BY <4>1, <4>2
    <3>3. conn'[d].pc \in {"open", "P_TCP_CONNECT", "P_SEND", "P_OUTPUT"} =>
                    leader_tcp_map'[conn'[d].fd] = conn'[d].vs
      <4>1. CASE e.type = "P_TCP_CONNECT"
        BY <1>1, <2>6, <2>7, <4>1 DEF TcpAsks
      <4>2. CASE e.type \in {"P_SEND", "P_OUTPUT"}
        BY <1>4, <2>1, <2>7, <4>2, SMTT(30) DEF TcpAsks
      <4>. QED  BY <1>3, <1>4, <2>7, <4>1, <4>2
    <3>4. ASSUME conn'[d].pc = "P_NOP"
          PROVE  \E n \in Stamps', m \in Stamps' : n < m /\ Of(n)' = d /\ Of(m)' = d /\ Kind(n)' = "P_CLOSE"
      <4>1. conn[c].pc = "P_CLOSE"
        BY <1>3, <1>4, <2>7, <3>4
      <4>2. conn[c].stage # "out"
        BY <1>0, <4>1 DEF ThreadInv
      <4>3. conn[c].idx \in Stamps /\ Kind(conn[c].idx) = "P_CLOSE" /\ Of(conn[c].idx) = c
        BY <1>0, <4>1, <4>2 DEF ThreadInv
      <4>4. PICK n \in Stamps : Kind(n) = "P_CLOSE" /\ Of(n) = c
        BY <4>3
      <4>5. n \in Stamps' /\ N + 1 \in Stamps' /\ n < N + 1 /\ Of(n)' = d /\ Of(N + 1)' = d /\ Kind(n)' = "P_CLOSE"
        BY <1>2, <2>7, <4>4, SMTT(30)
      <4>. QED  BY <4>5
    <3>. QED  BY <2>4, <2>5, <3>1, <3>2, <3>3, <3>4
  <2>8. CASE d # c
    <3>1. conn'[d] = conn[d]
      BY <1>3, <2>8
    <3>2. conn[d].pc \in {"open", "P_TCP_CONNECT", "P_SEND", "P_OUTPUT"} =>
                    leader_tcp_map'[conn[d].fd] = leader_tcp_map[conn[d].fd]
      <4>1. conn[d].pc \in {"open", "P_TCP_CONNECT", "P_SEND", "P_OUTPUT"} => conn[d].fd # NoFd /\ conn[d].fd \in Fd
        BY <2>1, <2>2
      <4>2. CASE e.type = "P_TCP_CONNECT"
        BY <2>6, <4>1, <4>2 DEF TcpAsks
      <4>3. CASE e.type = "P_CLOSE"
        <5>1. leader_tcp_map' = [leader_tcp_map EXCEPT ![conn[c].fd] = NoPair]
          BY <4>3 DEF TcpAsks
        <5>. QED  BY <2>1, <2>6, <2>8, <4>1, <5>1, SMTT(30)
      <4>4. CASE e.type \in {"P_SEND", "P_OUTPUT", "P_NOP"}
        BY <4>4 DEF TcpAsks
      <4>. QED  BY <1>4, <4>2, <4>3, <4>4
    <3>3. conn[d].pc \in {"P_NOP", "closed"} =>
             \E n \in Stamps', m \in Stamps' : n < m /\ Of(n)' = d /\ Of(m)' = d /\ Kind(n)' = "P_CLOSE"
      BY <2>1, <2>3, SMTT(30)
    <3>. QED  BY <2>1, <2>3, <2>4, <2>5, <3>1, <3>2, <3>3, SMTT(30)
  <2>. QED  BY <2>7, <2>8
<1>. QED  BY <1>6, <1>7

\* A request of a UDP peer leaves what holds of the TCP connections, and one of a
\* TCP connection what holds of the UDP peers.
LEMMA UdpKeepsTcp ==
  ASSUME EventType, LeaderInv, NEW c \in UdpPeer, NEW e \in Request, UdpAsks(c, e)
  PROVE  TcpInv' /\ TcpRequests'
<1>0. c \in Client /\ Asks(c, e) /\ TcpInv /\ TcpRequests /\ leader_tcp_map' = leader_tcp_map
  BY Constants DEF UdpAsks, LeaderInv
<1>1. PICK N \in Nat : N = Len(log)
  BY <1>0, LogGrows
<1>2. /\ Stamps = 1 .. N /\ Stamps' = 1 .. N + 1
      /\ \A n \in Stamps : log'[n] = log[n] /\ Of(n)' = Of(n) /\ Kind(n)' = Kind(n) /\ Of(n) \in Client
      /\ Of(N + 1)' = c
  <2>1. Of(N + 1)' = log'[N + 1].data[1]
    BY DEF Of
  <2>. QED  BY <1>0, <1>1, <2>1, LogGrows
<1>3. \A d \in TcpConn : conn'[d] = conn[d] /\ d # c
  BY <1>0, Constants DEF Asks
<1>4. \A n \in Stamps' : Of(n)' \in TcpConn => n \in Stamps
  BY <1>2, <1>3, SMTT(30)
<1>5. \A n \in Stamps : n \in Stamps' /\ \A m \in 1 .. n - 1 : m \in Stamps
  BY <1>2, SMTT(30)
<1>6. TcpRequests'
  <2>. SUFFICES ASSUME NEW n \in Stamps', Of(n)' \in TcpConn
       PROVE  /\ Kind(n)' # "P_UDP_CONNECT"
              /\ n >= conn'[Of(n)'].vs /\ (n = conn'[Of(n)'].vs <=> Kind(n)' = "P_TCP_CONNECT")
              /\ Kind(n)' # "P_NOP" => log'[n].clt_id = conn'[Of(n)'].vs
              /\ Kind(n)' = "P_CLOSE" =>
                    /\ conn'[Of(n)'].pc \in {"P_CLOSE", "P_NOP", "closed"}
                    /\ \A m \in Stamps' : m > n /\ Of(m)' = Of(n)' => Kind(m)' = "P_NOP"
              /\ Kind(n)' = "P_OUTPUT" /\ log'[n].data[2] > 0 =>
                    \E m \in 1 .. n - 1 : Of(m)' = Of(n)' /\ Kind(m)' = "P_SEND"
    BY DEF TcpRequests
  <2>1. n \in Stamps /\ Of(n)' = Of(n) /\ Kind(n)' = Kind(n) /\ log'[n] = log[n] /\ conn'[Of(n)] = conn[Of(n)]
    BY <1>2, <1>3, <1>4
  <2>2. /\ Kind(n) # "P_UDP_CONNECT"
        /\ n >= conn[Of(n)].vs /\ (n = conn[Of(n)].vs <=> Kind(n) = "P_TCP_CONNECT")
        /\ Kind(n) # "P_NOP" => log[n].clt_id = conn[Of(n)].vs
        /\ Kind(n) = "P_CLOSE" =>
              /\ conn[Of(n)].pc \in {"P_CLOSE", "P_NOP", "closed"}
              /\ \A m \in Stamps : m > n /\ Of(m) = Of(n) => Kind(m) = "P_NOP"
        /\ Kind(n) = "P_OUTPUT" /\ log[n].data[2] > 0 =>
              \E m \in 1 .. n - 1 : Of(m) = Of(n) /\ Kind(m) = "P_SEND"
    BY <1>0, <2>1 DEF TcpRequests
  <2>3. Kind(n) = "P_CLOSE" => \A m \in Stamps' : m > n /\ Of(m)' = Of(n)' => Kind(m)' = "P_NOP"
    BY <1>2, <1>4, <2>1, <2>2, SMTT(30)
  <2>4. Kind(n) = "P_OUTPUT" /\ log[n].data[2] > 0 =>
           \E m \in 1 .. n - 1 : Of(m)' = Of(n)' /\ Kind(m)' = "P_SEND"
    BY <1>2, <1>5, <2>1, <2>2
  <2>. QED  BY <2>1, <2>2, <2>3, <2>4
<1>7. TcpInv'
  <2>. SUFFICES ASSUME NEW d \in TcpConn
       PROVE  /\ conn'[d].pc # "P_UDP_CONNECT"
              /\ conn'[d].pc # "new" => conn'[d].vs \in Stamps' /\ log'[conn'[d].vs].type = "P_TCP_CONNECT"
                                        /\ log'[conn'[d].vs].data[1] = d
              /\ conn'[d].fd = NoFd <=> conn'[d].pc \in {"new", "closed"}
              /\ conn'[d].pc \in {"open", "P_TCP_CONNECT", "P_SEND", "P_OUTPUT"} =>
                    leader_tcp_map'[conn'[d].fd] = conn'[d].vs
              /\ \A b \in TcpConn : b # d /\ conn'[b].fd = conn'[d].fd => conn'[d].fd = NoFd
              /\ conn'[d].pc \in {"P_NOP", "closed"} =>
                  \E n \in Stamps', m \in Stamps' : n < m /\ Of(n)' = d /\ Of(m)' = d /\ Kind(n)' = "P_CLOSE"
    BY DEF TcpInv, Of, Kind
  <2>1. /\ conn[d].pc # "P_UDP_CONNECT"
        /\ conn[d].pc # "new" => conn[d].vs \in Stamps /\ log[conn[d].vs].type = "P_TCP_CONNECT"
                                  /\ log[conn[d].vs].data[1] = d
        /\ conn[d].fd = NoFd <=> conn[d].pc \in {"new", "closed"}
        /\ conn[d].pc \in {"open", "P_TCP_CONNECT", "P_SEND", "P_OUTPUT"} =>
              leader_tcp_map[conn[d].fd] = conn[d].vs
        /\ \A b \in TcpConn : b # d /\ conn[b].fd = conn[d].fd => conn[d].fd = NoFd
        /\ conn[d].pc \in {"P_NOP", "closed"} =>
            \E n \in Stamps, m \in Stamps : n < m /\ Of(n) = d /\ Of(m) = d /\ Kind(n) = "P_CLOSE"
    BY <1>0 DEF TcpInv, Of, Kind
  <2>. QED  BY <1>0, <1>2, <1>3, <1>5, <2>1, SMTT(30)
<1>. QED  BY <1>6, <1>7

\* A request of any client keeps what is known of UDP peers.
LEMMA AsksUdp ==
  ASSUME EventType, LeaderInv, NEW c \in Client, NEW e \in Request,
         (c \in TcpConn /\ TcpAsks(c, e)) \/ (c \in UdpPeer /\ UdpAsks(c, e))
  PROVE  UdpInv' /\ UdpRequests'
<1>0. Asks(c, e) /\ ThreadInv /\ UdpInv /\ UdpRequests
  BY DEF TcpAsks, UdpAsks, LeaderInv
<1>1. PICK N \in Nat : N = Len(log)
  BY <1>0, LogGrows
<1>2. /\ Stamps = 1 .. N /\ Stamps' = 1 .. N + 1
      /\ \A n \in Stamps : log'[n] = log[n] /\ Of(n)' = Of(n) /\ Kind(n)' = Kind(n) /\ Of(n) \in Client
      /\ log'[N + 1] = e /\ Of(N + 1)' = c /\ Kind(N + 1)' = e.type
  <2>1. Of(N + 1)' = log'[N + 1].data[1] /\ Kind(N + 1)' = log'[N + 1].type
    BY DEF Of, Kind
  <2>. QED  BY <1>0, <1>1, <2>1, LogGrows
<1>3. conn'[c].pc = e.type /\ \A d \in UdpPeer \ {c} : conn'[d] = conn[d]
  BY <1>0, Constants DEF Asks
<1>4. leader_udp_map' \subseteq leader_udp_map \cup {c} /\ (c \in TcpConn => leader_udp_map' = leader_udp_map)
  BY Constants DEF TcpAsks, UdpAsks
<1>5. c \in UdpPeer => e.type \in {"P_UDP_CONNECT", "P_SEND"} /\ e.clt_id = 0 /\ conn'[c].vs = 0
  BY Constants DEF TcpAsks, UdpAsks
<1>6. c \in UdpPeer /\ e.type = "P_SEND" => \E n \in Stamps : Of(n) = c /\ Kind(n) = "P_UDP_CONNECT"
  <2>1. CASE c \in leader_udp_map
    BY <1>0, <2>1 DEF UdpInv
  <2>2. CASE conn[c].pc = "P_UDP_CONNECT"
    <3>1. conn[c].stage # "out"
      BY <1>0, <2>2 DEF ThreadInv
    <3>. QED  BY <1>0, <2>2, <3>1 DEF ThreadInv
  <2>. QED  BY <2>1, <2>2, Constants DEF UdpAsks
<1>7. UdpRequests'
  <2>. SUFFICES ASSUME NEW n \in Stamps', Of(n)' \in UdpPeer
       PROVE  /\ Kind(n)' \in {"P_UDP_CONNECT", "P_SEND"} /\ log'[n].clt_id = 0
              /\ Kind(n)' = "P_SEND" => \E m \in 1 .. n - 1 : Of(m)' = Of(n)' /\ Kind(m)' = "P_UDP_CONNECT"
    BY DEF UdpRequests
  <2>1. CASE n = N + 1
    BY <1>2, <1>5, <1>6, <2>1, SMTT(30)
  <2>2. CASE n \in Stamps
    <3>1. /\ Kind(n) \in {"P_UDP_CONNECT", "P_SEND"} /\ log[n].clt_id = 0
          /\ Kind(n) = "P_SEND" => \E m \in 1 .. n - 1 : Of(m) = Of(n) /\ Kind(m) = "P_UDP_CONNECT"
      BY <1>0, <1>2, <2>2 DEF UdpRequests
    <3>2. \A m \in 1 .. n - 1 : m \in Stamps
      BY <1>2, <2>2, SMTT(30)
    <3>. QED  BY <1>2, <2>2, <3>1, <3>2
  <2>. QED  BY <1>2, <2>1, <2>2, SMTT(30)
<1>8. UdpInv'
  <2>. SUFFICES ASSUME NEW d \in UdpPeer
       PROVE  /\ conn'[d].pc \in {"new", "open", "P_UDP_CONNECT", "P_SEND"} /\ conn'[d].vs = 0
              /\ d \in leader_udp_map' => \E n \in Stamps' : Of(n)' = d /\ Kind(n)' = "P_UDP_CONNECT"
    BY DEF UdpInv
  <2>1. conn'[d].pc \in {"new", "open", "P_UDP_CONNECT", "P_SEND"} /\ conn'[d].vs = 0
    <3>1. CASE d = c
      BY <1>3, <1>5, <3>1
    <3>2. CASE d # c
      BY <1>0, <1>3, <3>2 DEF UdpInv
    <3>. QED  BY <3>1, <3>2
  <2>2. ASSUME d \in leader_udp_map' PROVE \E n \in Stamps' : Of(n)' = d /\ Kind(n)' = "P_UDP_CONNECT"
    <3>1. CASE d \in leader_udp_map
      <4>1. PICK n \in Stamps : Of(n) = d /\ Kind(n) = "P_UDP_CONNECT"
        BY <1>0, <3>1 DEF UdpInv
      <4>. QED  BY <1>2, <4>1, SMTT(30)
    <3>2. CASE d \notin leader_udp_map
      <4>1. d = c
        BY <1>4, <2>2, <3>2
      <4>2. CASE e.type = "P_UDP_CONNECT"
        BY <1>2, <4>1, <4>2, SMTT(30)
      <4>3. CASE e.type = "P_SEND"
        <5>1. PICK n \in Stamps : Of(n) = c /\ Kind(n) = "P_UDP_CONNECT"
          BY <1>6, <4>1, <4>3
        <5>. QED  BY <1>2, <4>1, <5>1, SMTT(30)
      <4>. QED  BY <1>5, <4>1, <4>2, <4>3
    <3>. QED  BY <3>1, <3>2
  <2>. QED  BY <2>1, <2>2
<1>. QED  BY <1>7, <1>8

\* Submitting a request keeps ReadFirst.
LEMMA AsksReadFirst ==
  ASSUME EventType, LeaderInv, NEW c \in Client, NEW e \in Request,
         (c \in TcpConn /\ TcpAsks(c, e)) \/ (c \in UdpPeer /\ UdpAsks(c, e))
  PROVE  ReadFirst'
<1>0. Asks(c, e) /\ ReadFirst
  BY DEF TcpAsks, UdpAsks, LeaderInv
<1>1. PICK N \in Nat : N = Len(log)
  BY <1>0, LogGrows
<1>2. /\ Stamps = 1 .. N /\ Stamps' = 1 .. N + 1
      /\ \A n \in Stamps : Of(n)' = Of(n) /\ Kind(n)' = Kind(n) /\ n \in Stamps'
      /\ Of(N + 1)' = c /\ Kind(N + 1)' = e.type
  <2>1. Of(N + 1)' = log'[N + 1].data[1] /\ Kind(N + 1)' = log'[N + 1].type
    BY DEF Of, Kind
  <2>. QED  BY <1>0, <1>1, <2>1, LogGrows, SMTT(30)
<1>. SUFFICES ASSUME NEW d \in TcpConn, conn'[d].reads > 0
     PROVE  \E n \in Stamps' : Of(n)' = d /\ Kind(n)' = "P_SEND"
  BY DEF ReadFirst
<1>3. CASE d = c /\ e.type = "P_SEND"
  <2>1. N + 1 \in Stamps' /\ Of(N + 1)' = d /\ Kind(N + 1)' = "P_SEND"
    BY <1>2, <1>3, SMTT(30)
  <2>. QED  BY <2>1
<1>4. CASE ~(d = c /\ e.type = "P_SEND")
  <2>1. conn'[d].reads = conn[d].reads
    <3>1. CASE d = c
      <4>1. TcpAsks(c, e)
        BY <3>1, Constants
      <4>. QED  BY <1>4, <3>1, <4>1 DEF TcpAsks
    <3>2. CASE d # c
      BY <1>0, <3>2, Constants DEF Asks
    <3>. QED  BY <3>1, <3>2
  <2>2. PICK n \in Stamps : Of(n) = d /\ Kind(n) = "P_SEND"
    BY <1>0, <2>1 DEF ReadFirst
  <2>. QED  BY <1>2, <2>2
<1>. QED  BY <1>3, <1>4

\* Submitting a request keeps the invariant.
LEMMA AsksStep ==
  ASSUME EventInv, NEW c \in Client, NEW e \in Request,
         (c \in TcpConn /\ TcpAsks(c, e)) \/ (c \in UdpPeer /\ UdpAsks(c, e))
  PROVE  EventInv'
<1>0. EventType /\ LeaderInv /\ ReplicaInv /\ Asks(c, e)
  BY DEF EventInv, TcpAsks, UdpAsks
<1>1. ThreadInv /\ OrderInv /\ TcpInv /\ TcpRequests /\ UdpInv /\ UdpRequests /\ ReadFirst
  BY <1>0 DEF LeaderInv
<1>2. e.type \in Kinds /\ conn'[c].pc = e.type /\ conn'[c].pc # "new"
  BY <1>0 DEF Asks, Request, Kinds
<1>3. ThreadInv' /\ OrderInv'
  BY <1>0, <1>1, <1>2, AsksThreads
<1>4. TcpInv' /\ TcpRequests'
  BY <1>0, TcpAsksTcp, UdpKeepsTcp
<1>5. UdpInv' /\ UdpRequests'
  BY <1>0, AsksUdp
<1>6. ReadFirst'
  BY <1>0, AsksReadFirst
<1>7. /\ Len(log) \in Nat /\ Len(log') = Len(log) + 1 /\ log' \in Seq(Request)
      /\ \A n \in Stamps : log'[n] = log[n] /\ Of(n)' = Of(n) /\ Kind(n)' = Kind(n)
  BY <1>0, LogGrows
<1>8. ReplicaInv'
  <2>2. UNCHANGED replicaVars
    BY <1>0 DEF Asks
  <2>. QED  BY <1>0, <1>7, <2>2, ReplicaKept, SMTT(30)
<1>9. EventType'
  <2>1. committed' = committed /\ conn' \in [Client -> Thread] /\ UNCHANGED replicaVars
    BY <1>0 DEF Asks
  <2>2. leader_udp_map' \subseteq UdpPeer
    BY <1>0, Constants DEF TcpAsks, UdpAsks, EventType
  <2>3. leader_tcp_map' \in [Fd -> Nat \cup {NoPair}]
    <3>1. CASE c \in TcpConn /\ TcpAsks(c, e)
      <4>1. leader_tcp_map \in [Fd -> Nat \cup {NoPair}] /\ Len(log) + 1 \in Nat
        BY <1>0, <1>7, SMTT(30) DEF EventType
      <4>2. \/ leader_tcp_map' = [leader_tcp_map EXCEPT ![conn'[c].fd] = Len(log) + 1]
            \/ leader_tcp_map' = [leader_tcp_map EXCEPT ![conn[c].fd] = NoPair]
            \/ leader_tcp_map' = leader_tcp_map
        BY <3>1 DEF TcpAsks
      <4>. QED  BY <4>1, <4>2
    <3>2. CASE c \in UdpPeer /\ UdpAsks(c, e)
      BY <1>0, <3>2 DEF UdpAsks, EventType
    <3>. QED  BY <3>1, <3>2
  <2>4. /\ core' = core /\ replica_tcp_map' = replica_tcp_map /\ server' = server /\ writes' = writes
    BY <2>1 DEF replicaVars
  <2>. QED  BY <1>0, <1>7, <2>1, <2>2, <2>3, <2>4 DEF EventType
<1>. QED  BY <1>3, <1>4, <1>5, <1>6, <1>8, <1>9 DEF EventInv, LeaderInv

-----------------------------------------------------------------------------
(* The rest of rsm_op. *)

\* How the thread of a client goes on when the log keeps its requests.
Goes(d) ==
    /\ conn'[d].vs = conn[d].vs /\ conn'[d].reads = conn[d].reads
    /\ \/ conn'[d].pc = conn[d].pc /\ conn'[d].fd = conn[d].fd
       \/ /\ conn[d].pc \in {"P_TCP_CONNECT", "P_SEND", "P_OUTPUT"} /\ conn'[d].pc = "open"
          /\ conn'[d].fd = conn[d].fd
       \/ conn[d].pc = "P_NOP" /\ conn'[d].pc = "closed" /\ conn'[d].fd = NoFd

GoesOn ==
    /\ UNCHANGED replicaVars /\ Len(log') = Len(log)
    /\ \A n \in Stamps : log'[n].type = log[n].type /\ log'[n].data = log[n].data
    /\ \A d \in Client : Goes(d)

\* A step of rsm_op that appends nothing keeps what is known of the requests.
LEMMA RequestsKept ==
  ASSUME EventType, LeaderInv, UNCHANGED <<leader_tcp_map, leader_udp_map>>, Len(log') = Len(log),
         \A n \in Stamps : log'[n].type = log[n].type /\ log'[n].data = log[n].data
                           /\ log'[n].clt_id = log[n].clt_id,
         \A d \in Client : Goes(d)
  PROVE  TcpInv' /\ TcpRequests' /\ UdpInv' /\ UdpRequests' /\ ReadFirst'
<1>0. TcpInv /\ TcpRequests /\ UdpInv /\ UdpRequests /\ ReadFirst
  BY DEF LeaderInv
<1>1. /\ Stamps' = Stamps /\ Stamps = 1 .. Len(log) /\ Len(log) \in Nat
      /\ \A n \in Stamps : Of(n)' = Of(n) /\ Kind(n)' = Kind(n) /\ Of(n) \in Client
  <2>1. \A n \in Stamps : Of(n) \in Client
    <3>. TAKE n \in Stamps
    <3>1. log[n] \in Request
      BY Element DEF EventType, Stamps
    <3>2. log[n].data \in Client \X Nat
      BY <3>1 DEF Request
    <3>. QED  BY <3>2 DEF Of
  <2>. QED  BY <2>1, SMTT(30) DEF Stamps, Of, Kind, EventType
<1>2. \A n \in Stamps : \A m \in 1 .. n - 1 : m \in Stamps
  BY <1>1, SMTT(30)
<1>3. \A d \in Client : conn'[d].vs = conn[d].vs /\ conn'[d].reads = conn[d].reads
  BY DEF Goes
<1>4. TcpRequests'
  <2>. SUFFICES ASSUME NEW n \in Stamps, Of(n) \in TcpConn
       PROVE  /\ Kind(n) # "P_UDP_CONNECT"
              /\ n >= conn[Of(n)].vs /\ (n = conn[Of(n)].vs <=> Kind(n) = "P_TCP_CONNECT")
              /\ Kind(n) # "P_NOP" => log[n].clt_id = conn[Of(n)].vs
              /\ Kind(n) = "P_CLOSE" =>
                    /\ conn'[Of(n)].pc \in {"P_CLOSE", "P_NOP", "closed"}
                    /\ \A m \in Stamps : m > n /\ Of(m) = Of(n) => Kind(m) = "P_NOP"
              /\ Kind(n) = "P_OUTPUT" /\ log[n].data[2] > 0 =>
                    \E m \in 1 .. n - 1 : Of(m) = Of(n) /\ Kind(m) = "P_SEND"
    BY <1>1, <1>2, <1>3, SMTT(30) DEF TcpRequests
  <2>1. Kind(n) = "P_CLOSE" => conn[Of(n)].pc \in {"P_CLOSE", "P_NOP", "closed"}
    BY <1>0 DEF TcpRequests
  <2>2. Goes(Of(n))
    BY <1>1
  <2>3. Kind(n) = "P_CLOSE" => conn'[Of(n)].pc \in {"P_CLOSE", "P_NOP", "closed"}
    BY <2>1, <2>2 DEF Goes
  <2>. QED  BY <1>0, <2>3 DEF TcpRequests
<1>5. UdpRequests'
  BY <1>0, <1>1, <1>2, SMTT(30) DEF UdpRequests
<1>6. UdpInv'
  <2>. SUFFICES ASSUME NEW d \in UdpPeer
       PROVE  /\ conn'[d].pc \in {"new", "open", "P_UDP_CONNECT", "P_SEND"} /\ conn'[d].vs = 0
              /\ d \in leader_udp_map => \E n \in Stamps : Of(n) = d /\ Kind(n) = "P_UDP_CONNECT"
    BY <1>1 DEF UdpInv
  <2>1. Goes(d) /\ conn[d].pc \in {"new", "open", "P_UDP_CONNECT", "P_SEND"} /\ conn[d].vs = 0
    BY <1>0, Constants DEF UdpInv
  <2>2. conn'[d].pc \in {"new", "open", "P_UDP_CONNECT", "P_SEND"} /\ conn'[d].vs = 0
    BY <2>1 DEF Goes
  <2>. QED  BY <1>0, <2>2 DEF UdpInv
<1>7. TcpInv'
  <2>. SUFFICES ASSUME NEW d \in TcpConn
       PROVE  /\ conn'[d].pc # "P_UDP_CONNECT"
              /\ conn'[d].pc # "new" => conn'[d].vs \in Stamps /\ log'[conn'[d].vs].type = "P_TCP_CONNECT"
                                        /\ log'[conn'[d].vs].data[1] = d
              /\ conn'[d].fd = NoFd <=> conn'[d].pc \in {"new", "closed"}
              /\ conn'[d].pc \in {"open", "P_TCP_CONNECT", "P_SEND", "P_OUTPUT"} =>
                    leader_tcp_map[conn'[d].fd] = conn'[d].vs
              /\ \A b \in TcpConn : b # d /\ conn'[b].fd = conn'[d].fd => conn'[d].fd = NoFd
              /\ conn'[d].pc \in {"P_NOP", "closed"} =>
                  \E n \in Stamps, m \in Stamps : n < m /\ Of(n) = d /\ Of(m) = d /\ Kind(n) = "P_CLOSE"
    BY <1>1, SMTT(30) DEF TcpInv, Of, Kind
  <2>1. /\ conn[d].pc # "P_UDP_CONNECT"
        /\ conn[d].pc # "new" => conn[d].vs \in Stamps /\ log[conn[d].vs].type = "P_TCP_CONNECT"
                                  /\ log[conn[d].vs].data[1] = d
        /\ conn[d].fd = NoFd <=> conn[d].pc \in {"new", "closed"}
        /\ conn[d].pc \in {"open", "P_TCP_CONNECT", "P_SEND", "P_OUTPUT"} =>
              leader_tcp_map[conn[d].fd] = conn[d].vs
        /\ \A b \in TcpConn : b # d /\ conn[b].fd = conn[d].fd => conn[d].fd = NoFd
        /\ conn[d].pc \in {"P_NOP", "closed"} =>
            \E n \in Stamps, m \in Stamps : n < m /\ Of(n) = d /\ Of(m) = d /\ Kind(n) = "P_CLOSE"
    BY <1>0 DEF TcpInv, Of, Kind
  <2>2. \A b \in TcpConn : Goes(b) /\ (conn'[b].fd = conn[b].fd \/ conn'[b].fd = NoFd)
    BY Constants DEF Goes
  <2>3. Goes(d)
    BY <2>2
  <2>4. \A b \in TcpConn : b # d /\ conn'[b].fd = conn'[d].fd => conn'[d].fd = NoFd
    BY <2>1, <2>2
  <2>5. \A n \in Stamps : log'[n].type = log[n].type /\ log'[n].data[1] = log[n].data[1]
    OBVIOUS
  <2>. QED  BY <2>1, <2>3, <2>4, <2>5, SMTT(30) DEF Goes
<1>8. ReadFirst'
  BY <1>0, <1>1, <1>3, Constants DEF ReadFirst
<1>. QED  BY <1>4, <1>5, <1>6, <1>7, <1>8

\* Posting an entry keeps the invariant.
LEMMA PostStep ==
  ASSUME EventInv, NEW c \in Client, PostEntry(c)
  PROVE  EventInv' /\ GoesOn
<1>0. EventType /\ LeaderInv /\ ReplicaInv /\ ThreadInv /\ OrderInv /\ TcpRequests
  BY DEF EventInv, LeaderInv
<1>1. PICK i \in Stamps : i = conn[c].idx /\ Kind(i) = conn[c].pc /\ Of(i) = c /\ i > committed /\ ~log[i].posted
  BY <1>0 DEF ThreadInv, PostEntry
<1>2. log \in Seq(Request) /\ Len(log) \in Nat /\ Stamps = 1 .. Len(log) /\ committed \in Nat
      /\ conn \in [Client -> Thread] /\ conn[c] \in Thread
  BY <1>0, SMTT(30) DEF EventType, Stamps
<1>3. log[i] \in Request
  BY <1>1, <1>2, Element
<1>. DEFINE e == [log[i] EXCEPT !.posted = TRUE, !.canbe_exed = committed]
            t == [conn[c] EXCEPT !.stage = "commit"]
<1>4. e \in Request /\ e.type = log[i].type /\ e.data = log[i].data /\ e.clt_id = log[i].clt_id
      /\ e.posted /\ e.canbe_exed = committed
  BY <1>2, <1>3 DEF Request
<1>5. log' = [log EXCEPT ![i] = e]
  BY <1>1, <1>2, <1>3 DEF PostEntry, Request
<1>6. t \in Thread /\ t.pc = conn[c].pc /\ t.idx = conn[c].idx /\ t.fd = conn[c].fd /\ t.vs = conn[c].vs
      /\ t.reads = conn[c].reads /\ t.stage = "commit"
  BY <1>2 DEF Thread
<1>7. conn' = [conn EXCEPT ![c] = t] /\ conn[c].stage = "post"
      /\ UNCHANGED <<committed, leader_tcp_map, leader_udp_map, replicaVars>>
  BY <1>2 DEF PostEntry
<1>. HIDE DEF e, t
<1>8. log' \in Seq(Request) /\ Len(log') = Len(log) /\ log'[i] = e /\ Stamps' = Stamps
      /\ \A n \in Stamps \ {i} : log'[n] = log[n]
  BY <1>1, <1>2, <1>4, <1>5, SMTT(30) DEF Stamps
<1>9. \A n \in Stamps : log'[n].type = log[n].type /\ log'[n].data = log[n].data
                           /\ log'[n].clt_id = log[n].clt_id
  BY <1>4, <1>8
<1>10. conn' \in [Client -> Thread] /\ conn'[c] = t /\ \A d \in Client \ {c} : conn'[d] = conn[d]
  BY <1>2, <1>6, <1>7
<1>11. \A d \in Client : Goes(d)
  BY <1>6, <1>10 DEF Goes
<1>12. TcpInv' /\ TcpRequests' /\ UdpInv' /\ UdpRequests' /\ ReadFirst'
  BY <1>0, <1>7, <1>8, <1>9, <1>11, RequestsKept
<1>13. \A n \in Stamps : Of(n)' = Of(n) /\ Kind(n)' = Kind(n)
  BY <1>9 DEF Of, Kind
<1>14. ReplicaInv'
  <2>1. \A n \in Stamps : log[n].posted => log'[n].posted /\ log'[n].canbe_exed = log[n].canbe_exed
    BY <1>1, <1>8
  <2>. QED  BY <1>0, <1>2, <1>7, <1>8, <1>9, <1>13, <2>1, ReplicaKept, SMTT(30)
<1>15. ThreadInv'
  <2>. SUFFICES ASSUME NEW d \in Client
       PROVE  /\ conn'[d].stage = "out" <=> conn'[d].pc \in {"new", "open", "closed"}
              /\ conn'[d].stage = "again" => conn'[d].pc \in {"P_UDP_CONNECT", "P_CLOSE"}
              /\ conn'[d].stage # "out" => conn'[d].idx \in Stamps /\ log'[conn'[d].idx].type = conn'[d].pc
                                           /\ log'[conn'[d].idx].data[1] = d
              /\ conn'[d].stage \in {"post", "commit"} =>
                    conn'[d].idx > committed /\ (log'[conn'[d].idx].posted <=> conn'[d].stage = "commit")
              /\ conn'[d].stage = "again" => conn'[d].idx <= committed
              /\ conn'[d].pc = "new" => \A n \in Stamps : log[n].data[1] # d
    BY <1>7, <1>8, <1>9, SMTT(30) DEF ThreadInv, Of, Kind
  <2>1. /\ conn[d].stage = "out" <=> conn[d].pc \in {"new", "open", "closed"}
        /\ conn[d].stage = "again" => conn[d].pc \in {"P_UDP_CONNECT", "P_CLOSE"}
        /\ conn[d].stage # "out" => conn[d].idx \in Stamps /\ log[conn[d].idx].type = conn[d].pc
                                    /\ log[conn[d].idx].data[1] = d
        /\ conn[d].stage \in {"post", "commit"} =>
              conn[d].idx > committed /\ (log[conn[d].idx].posted <=> conn[d].stage = "commit")
        /\ conn[d].stage = "again" => conn[d].idx <= committed
        /\ conn[d].pc = "new" => \A n \in Stamps : log[n].data[1] # d
    BY <1>0 DEF ThreadInv, Of, Kind
  <2>2. CASE d = c
    <3>1. conn'[d].stage = "commit" /\ conn'[d].pc = conn[d].pc /\ conn'[d].idx = i /\ conn[d].idx = i
      BY <1>1, <1>6, <1>10, <2>2
    <3>. QED  BY <1>1, <1>4, <1>7, <1>8, <2>1, <2>2, <3>1, SMTT(30)
  <2>3. CASE d # c
    <3>1. conn'[d] = conn[d]
      BY <1>10, <2>3
    <3>2. conn[d].stage # "out" => conn[d].idx # i
      BY <1>1, <2>1, <2>3 DEF Of
    <3>. QED  BY <1>8, <2>1, <3>1, <3>2, SMTT(30)
  <2>. QED  BY <2>2, <2>3
<1>16. OrderInv'
  <2>. SUFFICES ASSUME NEW n \in Stamps
       PROVE  /\ n <= committed => log'[n].posted
              /\ n > committed => conn'[Of(n)].stage \in {"post", "commit"} /\ conn'[Of(n)].idx = n
              /\ log'[n].canbe_exed < n
              /\ log'[n].posted => \A m \in 1 .. n - 1 : Of(m) = Of(n) => m <= log'[n].canbe_exed
    <3>1. committed' = committed /\ committed' <= Len(log')
      BY <1>0, <1>7, <1>8 DEF OrderInv
    <3>2. \A m \in Stamps : \A k \in 1 .. m - 1 : k \in Stamps
      BY <1>2, SMTT(30)
    <3>. QED  BY <1>8, <1>13, <3>1, <3>2, SMTT(30) DEF OrderInv
  <2>1. /\ n <= committed => log[n].posted
        /\ n > committed => conn[Of(n)].stage \in {"post", "commit"} /\ conn[Of(n)].idx = n
        /\ log[n].canbe_exed < n
        /\ log[n].posted => \A m \in 1 .. n - 1 : Of(m) = Of(n) => m <= log[n].canbe_exed
    BY <1>0 DEF OrderInv
  <2>2. CASE n = i
    <3>1. \A m \in Stamps : m > committed /\ Of(m) = c => m = i
      BY <1>0, <1>1 DEF OrderInv
    <3>2. \A m \in 1 .. n - 1 : Of(m) = c => m <= committed
      BY <1>2, <2>2, <3>1, SMTT(30)
    <3>. QED  BY <1>1, <1>4, <1>6, <1>8, <1>10, <2>2, <3>2
  <2>3. CASE n # i
    <3>1. log'[n] = log[n]
      BY <1>8, <2>3
    <3>2. n > committed => Of(n) # c
      BY <1>1, <2>1, <2>3
    <3>3. Of(n) \in Client
      <4>1. log[n] \in Request
        BY <1>2, Element
      <4>2. log[n].data \in Client \X Nat
        BY <4>1 DEF Request
      <4>. QED  BY <4>2 DEF Of
    <3>. QED  BY <1>10, <2>1, <3>1, <3>2, <3>3
  <2>. QED  BY <2>2, <2>3
<1>17. EventType'
  <2>1. /\ core' = core /\ replica_tcp_map' = replica_tcp_map /\ server' = server /\ writes' = writes
    BY <1>7 DEF replicaVars
  <2>. QED  BY <1>0, <1>7, <1>8, <1>10, <2>1 DEF EventType
<1>18. GoesOn
  BY <1>7, <1>8, <1>9, <1>11 DEF GoesOn
<1>. QED  BY <1>12, <1>14, <1>15, <1>16, <1>17, <1>18 DEF EventInv, LeaderInv

\* Committing an entry keeps the invariant.
LEMMA CommitStep ==
  ASSUME EventInv, NEW c \in Client, CommitEntry(c)
  PROVE  EventInv' /\ GoesOn
<1>0. EventType /\ LeaderInv /\ ReplicaInv /\ ThreadInv /\ OrderInv /\ TcpRequests /\ TcpInv /\ UdpInv
  BY DEF EventInv, LeaderInv
<1>1. /\ conn[c].stage = "commit" /\ conn[c].idx = committed + 1 /\ committed' = committed + 1
      /\ log' = log /\ UNCHANGED <<leader_tcp_map, leader_udp_map, replicaVars>>
  BY DEF CommitEntry
<1>2. conn \in [Client -> Thread] /\ conn[c] \in Thread /\ committed \in Nat /\ Len(log) \in Nat
      /\ Stamps = 1 .. Len(log) /\ Stamps' = Stamps
  BY <1>0, <1>1, SMTT(30) DEF EventType, Stamps
<1>3. /\ conn[c].idx \in Stamps /\ Kind(conn[c].idx) = conn[c].pc /\ Of(conn[c].idx) = c
      /\ log[conn[c].idx].posted /\ conn[c].pc \notin {"new", "open", "closed"}
  BY <1>0, <1>1 DEF ThreadInv
<1>4. conn[c].pc \in Kinds
  BY <1>2, <1>3 DEF Thread
\* What the thread does next.
<1>5. \E t \in Thread :
         /\ conn' = [conn EXCEPT ![c] = t] /\ t.idx = conn[c].idx /\ t.vs = conn[c].vs /\ t.reads = conn[c].reads
         /\ \/ /\ conn[c].pc \in {"P_UDP_CONNECT", "P_CLOSE"} /\ t.pc = conn[c].pc
               /\ t.stage = "again" /\ t.fd = conn[c].fd
            \/ conn[c].pc = "P_NOP" /\ t.pc = "closed" /\ t.stage = "out" /\ t.fd = NoFd
            \/ /\ conn[c].pc \in {"P_TCP_CONNECT", "P_SEND", "P_OUTPUT"} /\ t.pc = "open"
               /\ t.stage = "out" /\ t.fd = conn[c].fd
  <2>1. CASE conn[c].pc \in {"P_UDP_CONNECT", "P_CLOSE"}
    <3>. DEFINE t == [conn[c] EXCEPT !.stage = "again"]
    <3>1. conn' = [conn EXCEPT ![c] = t]
      BY <1>2, <2>1 DEF CommitEntry
    <3>2. t \in Thread /\ t.idx = conn[c].idx /\ t.vs = conn[c].vs /\ t.reads = conn[c].reads
          /\ t.pc = conn[c].pc /\ t.stage = "again" /\ t.fd = conn[c].fd
      BY <1>2 DEF Thread
    <3>. HIDE DEF t
    <3>. QED  BY <2>1, <3>1, <3>2
  <2>2. CASE conn[c].pc = "P_NOP"
    <3>. DEFINE t == [conn[c] EXCEPT !.pc = "closed", !.stage = "out", !.fd = NoFd]
    <3>1. conn' = [conn EXCEPT ![c] = t]
      BY <1>2, <2>2 DEF CommitEntry
    <3>2. t \in Thread /\ t.idx = conn[c].idx /\ t.vs = conn[c].vs /\ t.reads = conn[c].reads
          /\ t.pc = "closed" /\ t.stage = "out" /\ t.fd = NoFd
      BY <1>2 DEF Thread
    <3>. HIDE DEF t
    <3>. QED  BY <2>2, <3>1, <3>2
  <2>3. CASE conn[c].pc \in {"P_TCP_CONNECT", "P_SEND", "P_OUTPUT"}
    <3>. DEFINE t == [conn[c] EXCEPT !.pc = "open", !.stage = "out"]
    <3>1. conn' = [conn EXCEPT ![c] = t]
      BY <1>2, <2>3 DEF CommitEntry
    <3>2. t \in Thread /\ t.idx = conn[c].idx /\ t.vs = conn[c].vs /\ t.reads = conn[c].reads
          /\ t.pc = "open" /\ t.stage = "out" /\ t.fd = conn[c].fd
      BY <1>2 DEF Thread
    <3>. HIDE DEF t
    <3>. QED  BY <2>3, <3>1, <3>2
  <2>. QED  BY <1>4, <2>1, <2>2, <2>3 DEF Kinds
<1>6. PICK t \in Thread :
         /\ conn' = [conn EXCEPT ![c] = t] /\ t.idx = conn[c].idx /\ t.vs = conn[c].vs /\ t.reads = conn[c].reads
         /\ \/ /\ conn[c].pc \in {"P_UDP_CONNECT", "P_CLOSE"} /\ t.pc = conn[c].pc
               /\ t.stage = "again" /\ t.fd = conn[c].fd
            \/ conn[c].pc = "P_NOP" /\ t.pc = "closed" /\ t.stage = "out" /\ t.fd = NoFd
            \/ /\ conn[c].pc \in {"P_TCP_CONNECT", "P_SEND", "P_OUTPUT"} /\ t.pc = "open"
               /\ t.stage = "out" /\ t.fd = conn[c].fd
  BY <1>5
<1>7. conn' \in [Client -> Thread] /\ conn'[c] = t /\ \A d \in Client \ {c} : conn'[d] = conn[d]
  BY <1>2, <1>6
<1>8. \A d \in Client : Goes(d)
  BY <1>6, <1>7 DEF Goes
<1>9. TcpInv' /\ TcpRequests' /\ UdpInv' /\ UdpRequests' /\ ReadFirst'
  BY <1>0, <1>1, <1>8, RequestsKept
<1>10. \A n \in Stamps : Of(n)' = Of(n) /\ Kind(n)' = Kind(n)
  BY <1>1 DEF Of, Kind
<1>11. ReplicaInv'
  BY <1>0, <1>1, <1>2, <1>10, ReplicaKept, SMTT(30)
<1>12. ThreadInv'
  <2>. SUFFICES ASSUME NEW d \in Client
       PROVE  /\ conn'[d].stage = "out" <=> conn'[d].pc \in {"new", "open", "closed"}
              /\ conn'[d].stage = "again" => conn'[d].pc \in {"P_UDP_CONNECT", "P_CLOSE"}
              /\ conn'[d].stage # "out" => conn'[d].idx \in Stamps /\ log[conn'[d].idx].type = conn'[d].pc
                                           /\ log[conn'[d].idx].data[1] = d
              /\ conn'[d].stage \in {"post", "commit"} =>
                    conn'[d].idx > committed + 1 /\ (log[conn'[d].idx].posted <=> conn'[d].stage = "commit")
              /\ conn'[d].stage = "again" => conn'[d].idx <= committed + 1
              /\ conn'[d].pc = "new" => \A n \in Stamps : log[n].data[1] # d
    BY <1>1, <1>2, SMTT(30) DEF ThreadInv, Of, Kind
  <2>1. /\ conn[d].stage = "out" <=> conn[d].pc \in {"new", "open", "closed"}
        /\ conn[d].stage = "again" => conn[d].pc \in {"P_UDP_CONNECT", "P_CLOSE"}
        /\ conn[d].stage # "out" => conn[d].idx \in Stamps /\ log[conn[d].idx].type = conn[d].pc
                                    /\ log[conn[d].idx].data[1] = d
        /\ conn[d].stage \in {"post", "commit"} =>
              conn[d].idx > committed /\ (log[conn[d].idx].posted <=> conn[d].stage = "commit")
        /\ conn[d].stage = "again" => conn[d].idx <= committed
        /\ conn[d].pc = "new" => \A n \in Stamps : log[n].data[1] # d
    BY <1>0 DEF ThreadInv, Of, Kind
  <2>2. CASE d = c
    <3>1. conn'[d] = t /\ conn[d].pc \notin {"new", "open", "closed"} /\ conn[d].stage = "commit"
      BY <1>1, <1>3, <1>7, <2>2
    <3>2. t.idx = committed + 1 /\ conn[d].idx = t.idx /\ conn[d].idx \in Stamps
      BY <1>1, <1>3, <1>6, <2>2
    <3>3. (t.stage = "again" /\ t.pc \in {"P_UDP_CONNECT", "P_CLOSE"} /\ t.pc = conn[d].pc)
          \/ (t.stage = "out" /\ t.pc \in {"open", "closed"})
      BY <1>6, <2>2
    <3>. QED  BY <1>2, <2>1, <3>1, <3>2, <3>3, SMTT(30)
  <2>3. CASE d # c
    <3>1. conn'[d] = conn[d]
      BY <1>7, <2>3
    <3>2. conn[d].stage # "out" => conn[d].idx # committed + 1 /\ conn[d].idx \in Nat
      BY <1>1, <1>2, <1>3, <2>1, <2>3, SMTT(30) DEF Of
    <3>. QED  BY <1>2, <2>1, <3>1, <3>2, SMTT(30)
  <2>. QED  BY <2>2, <2>3
<1>13. OrderInv'
  <2>. SUFFICES ASSUME NEW n \in Stamps
       PROVE  /\ n <= committed + 1 => log[n].posted
              /\ n > committed + 1 => conn'[Of(n)].stage \in {"post", "commit"} /\ conn'[Of(n)].idx = n
              /\ log[n].canbe_exed < n
              /\ log[n].posted => \A m \in 1 .. n - 1 : Of(m) = Of(n) => m <= log[n].canbe_exed
    <3>1. committed' = committed + 1 /\ committed' <= Len(log')
      BY <1>1, <1>2, <1>3, SMTT(30)
    <3>2. \A m \in Stamps : \A k \in 1 .. m - 1 : k \in Stamps
      BY <1>2, SMTT(30)
    <3>. QED  BY <1>1, <1>2, <1>10, <3>1, <3>2, SMTT(30) DEF OrderInv
  <2>1. /\ n <= committed => log[n].posted
        /\ n > committed => conn[Of(n)].stage \in {"post", "commit"} /\ conn[Of(n)].idx = n
        /\ log[n].canbe_exed < n
        /\ log[n].posted => \A m \in 1 .. n - 1 : Of(m) = Of(n) => m <= log[n].canbe_exed
    BY <1>0 DEF OrderInv
  <2>2. n = committed + 1 => log[n].posted
    BY <1>1, <1>3
  <2>3. n > committed + 1 => Of(n) # c
    BY <1>1, <1>2, <2>1, SMTT(30)
  <2>4. Of(n) \in Client
    <3>1. log[n] \in Request
      BY <1>0, Element DEF EventType, Stamps
    <3>2. log[n].data \in Client \X Nat
      BY <3>1 DEF Request
    <3>. QED  BY <3>2 DEF Of
  <2>. QED  BY <1>2, <1>7, <2>1, <2>2, <2>3, <2>4, SMTT(30)
<1>14. EventType'
  <2>1. /\ core' = core /\ replica_tcp_map' = replica_tcp_map /\ server' = server /\ writes' = writes
    BY <1>1 DEF replicaVars
  <2>2. committed' \in Nat
    BY <1>1, <1>2, SMTT(30)
  <2>. QED  BY <1>0, <1>1, <1>7, <2>1, <2>2 DEF EventType
<1>15. GoesOn
  BY <1>1, <1>8 DEF GoesOn
<1>. QED  BY <1>9, <1>11, <1>12, <1>13, <1>14, <1>15 DEF EventInv, LeaderInv

-----------------------------------------------------------------------------
(* The replica. *)

\* A step of the replica keeps what is known of the leader.
LEMMA LeaderKept ==
  ASSUME LeaderInv, UNCHANGED <<log, committed, conn, leader_tcp_map, leader_udp_map>>
  PROVE  LeaderInv'
<1>1. /\ log' = log /\ committed' = committed /\ conn' = conn
      /\ leader_tcp_map' = leader_tcp_map /\ leader_udp_map' = leader_udp_map
  OBVIOUS
<1>2. Stamps' = Stamps /\ \A n : Of(n)' = Of(n) /\ Kind(n)' = Kind(n)
  BY <1>1 DEF Stamps, Of, Kind
<1>4. ThreadInv' /\ OrderInv'
  BY <1>1, SMTT(30) DEF LeaderInv, ThreadInv, OrderInv, Stamps, Of, Kind
<1>5. TcpInv' /\ UdpInv'
  BY <1>1, SMTT(30) DEF LeaderInv, TcpInv, UdpInv, Stamps, Of, Kind
<1>6. TcpRequests' /\ UdpRequests'
  BY <1>1, SMTT(30) DEF LeaderInv, TcpRequests, UdpRequests, Stamps, Of, Kind
<1>7. ReadFirst'
  BY <1>1, <1>2 DEF LeaderInv, ReadFirst
<1>. QED  BY <1>4, <1>5, <1>6, <1>7 DEF LeaderInv

\* The types of a request of the log.
LEMMA RequestAt ==
  ASSUME EventType, NEW n \in Stamps
  PROVE  /\ Len(log) \in Nat /\ Stamps = 1 .. Len(log) /\ n \in Nat \ {0}
         /\ log[n] \in Request /\ Of(n) \in Client /\ Kind(n) \in Kinds /\ log[n].clt_id \in Nat
         /\ log[n].data = <<Of(n), log[n].data[2]>> /\ log[n].data[2] \in Nat /\ log[n].canbe_exed \in Nat
<1>1. log \in Seq(Request) /\ Len(log) \in Nat /\ Stamps = 1 .. Len(log) /\ n \in Nat \ {0}
  BY SMTT(30) DEF EventType, Stamps
<1>2. log[n] \in Request
  BY <1>1, Element
<1>3. log[n].data \in Client \X Nat /\ log[n].type \in Kinds /\ log[n].clt_id \in Nat /\ log[n].canbe_exed \in Nat
  BY <1>2 DEF Request
<1>. QED  BY <1>1, <1>2, <1>3, SMTT(30) DEF Of, Kind

\* The connection a request of a TCP client belongs to.
LEMMA ConnectionOf ==
  ASSUME EventType, LeaderInv, NEW n \in Stamps, Of(n) \in TcpConn, Kind(n) # "P_NOP"
  PROVE  /\ log[n].clt_id \in Stamps /\ Kind(log[n].clt_id) = "P_TCP_CONNECT" /\ Of(log[n].clt_id) = Of(n)
         /\ log[n].clt_id = conn[Of(n)].vs /\ log[n].clt_id <= n
         /\ Kind(n) # "P_TCP_CONNECT" => log[n].clt_id < n
         /\ Kind(n) = "P_TCP_CONNECT" => log[n].clt_id = n
<1>1. conn[Of(n)].pc # "new"
  BY Constants DEF LeaderInv, ThreadInv
<1>2. conn[Of(n)].vs \in Stamps /\ Kind(conn[Of(n)].vs) = "P_TCP_CONNECT" /\ Of(conn[Of(n)].vs) = Of(n)
  BY <1>1 DEF LeaderInv, TcpInv
<1>3. log[n].clt_id = conn[Of(n)].vs /\ n >= conn[Of(n)].vs
      /\ (n = conn[Of(n)].vs <=> Kind(n) = "P_TCP_CONNECT")
  BY DEF LeaderInv, TcpRequests
<1>. QED  BY <1>2, <1>3, RequestAt, SMTT(30)

\* The kinds of requests that only TCP clients have.
LEMMA TcpKinds ==
  ASSUME EventType, LeaderInv, NEW n \in Stamps, Kind(n) \notin {"P_UDP_CONNECT", "P_SEND"}
  PROVE  Of(n) \in TcpConn
<1>1. Of(n) \in Client
  BY RequestAt
<1>2. Of(n) \notin UdpPeer
  BY DEF LeaderInv, UdpRequests
<1>. QED  BY <1>1, <1>2 DEF Client

\* A connection that is closed in the log was opened before.
LEMMA CloseOf ==
  ASSUME EventType, LeaderInv, NEW k \in Stamps, Kind(k) = "P_CLOSE"
  PROVE  /\ Of(k) \in TcpConn /\ log[k].clt_id \in Stamps /\ log[k].clt_id < k
         /\ Of(log[k].clt_id) = Of(k)
         /\ \A n \in Stamps : n > k /\ Of(n) = Of(k) => Kind(n) = "P_NOP"
<1>1. Of(k) \in TcpConn
  BY TcpKinds
<1>2. log[k].clt_id \in Stamps /\ log[k].clt_id < k /\ Of(log[k].clt_id) = Of(k)
  BY <1>1, ConnectionOf
<1>. QED  BY <1>1, <1>2 DEF LeaderInv, TcpRequests

\* While requests of a connection remain to be executed its pair is there.
LEMMA Alive ==
  ASSUME EventType, LeaderInv, CoreInv, PairsInv, NEW n \in Stamps, Of(n) \in TcpConn, Kind(n) # "P_NOP",
         core.done < n, log[n].clt_id <= core.done
  PROVE  log[n].clt_id \in DOMAIN replica_tcp_map
<1>. DEFINE v == log[n].clt_id
<1>1. v \in Stamps /\ Kind(v) = "P_TCP_CONNECT" /\ Of(v) = Of(n)
  BY ConnectionOf
<1>2. core.done \in Nat /\ core.end \in Nat /\ core.next \in Nat /\ core.done <= Len(log) /\ Len(log) \in Nat
      /\ Stamps = 1 .. Len(log)
  BY RequestAt, SMTT(30) DEF EventType, CoreInv
<1>3. Opened(v) /\ v \in Nat \ {0}
  BY <1>1, <1>2, SMTT(30) DEF Opened, Begun
<1>4. ~Closed(v)
  <2>. SUFFICES ASSUME NEW k \in 1 .. core.done, Kind(k) = "P_CLOSE", log[k].clt_id = v PROVE FALSE
    BY DEF Closed
  <2>1. k \in Stamps /\ n > k
    BY <1>2, RequestAt, SMTT(30)
  <2>2. Of(v) = Of(k) /\ \A m \in Stamps : m > k /\ Of(m) = Of(k) => Kind(m) = "P_NOP"
    BY <2>1, CloseOf
  <2>. QED  BY <1>1, <2>1, <2>2
<1>. QED  BY <1>3, <1>4 DEF PairsInv

\* The replica that takes a request keeps the invariant.
LEMMA TakeStep ==
  ASSUME EventInv, TakeRequest
  PROVE  EventInv'
<1>0. EventType /\ LeaderInv /\ CoreInv /\ PairsInv /\ AcceptInv /\ ServerInv /\ AnswersInv
  BY DEF EventInv, ReplicaInv
<1>1. PICK n \in Nat : n = core.next
  BY <1>0 DEF EventType
<1>2. core \in [next : Nat, done : Nat, end : Nat, cur_rec : Nat, waits : BOOLEAN, crashed : BOOLEAN]
  BY <1>0 DEF EventType
<1>3. core.next \in Nat /\ core.done \in Nat /\ core.end \in Nat /\ core.end < core.next
  BY <1>0, <1>2 DEF CoreInv
<1>4. /\ ~core.waits /\ ~core.crashed /\ core.done = core.end /\ n <= Len(log) /\ log[n].posted
      /\ UNCHANGED <<replica_tcp_map, backlog, server, writes, leaderVars>>
  BY <1>1 DEF TakeRequest
<1>5. n \in Stamps
  BY <1>0, <1>1, <1>3, <1>4, SMTT(30) DEF Stamps, EventType
<1>6. log[n].canbe_exed \in Nat /\ log[n].canbe_exed < n /\ Len(log) \in Nat /\ Stamps = 1 .. Len(log)
  BY <1>0, <1>5, RequestAt DEF LeaderInv, OrderInv
\* The connection whose output is asked for is known, if the leader had read from it.
<1>7. ASSUME Kind(n) = "P_OUTPUT", log[n].data[2] > 0
      PROVE  Known(log[n].clt_id)
  <2>1. Of(n) \in TcpConn
    BY <1>0, <1>5, <1>7, TcpKinds
  <2>2. PICK m \in 1 .. n - 1 : Of(m) = Of(n) /\ Kind(m) = "P_SEND"
    BY <1>0, <1>5, <1>7, <2>1 DEF LeaderInv, TcpRequests
  <2>3. m \in Stamps /\ m \in 1 .. core.next - 1
    BY <1>1, <1>5, <1>6, SMTT(30)
  <2>4. log[m].posted /\ log[m].canbe_exed <= core.end
    BY <1>0, <2>3, SMTT(30) DEF CoreInv
  <2>5. log[n].clt_id = conn[Of(n)].vs /\ log[m].clt_id = conn[Of(m)].vs
    BY <1>0, <1>5, <1>7, <2>1, <2>2, <2>3, ConnectionOf
  <2>6. log[m].clt_id \in Stamps /\ log[m].clt_id < m /\ Of(log[m].clt_id) = Of(m)
    BY <1>0, <2>1, <2>2, <2>3, ConnectionOf, SMTT(30)
  <2>7. log[n].clt_id \in Stamps /\ log[n].clt_id \in 1 .. m - 1 /\ Of(log[n].clt_id) = Of(m)
    <3>1. log[n].clt_id = log[m].clt_id
      BY <2>2, <2>5
    <3>. QED  BY <1>6, <2>3, <2>6, <3>1, SMTT(30)
  <2>8. log[n].clt_id <= log[m].canbe_exed
    BY <1>0, <2>3, <2>4, <2>7 DEF LeaderInv, OrderInv
  <2>9. log[n].clt_id <= core.done /\ log[n].clt_id \in 1 .. core.done
    <3>1. log[m].canbe_exed \in Nat
      BY <1>0, <2>3, RequestAt
    <3>. QED  BY <1>3, <1>4, <1>6, <2>4, <2>7, <2>8, <3>1, SMTT(30)
  <2>10. core.done < n
    BY <1>1, <1>3, <1>4
  <2>11. log[n].clt_id \in DOMAIN replica_tcp_map
    BY <1>0, <1>5, <1>7, <2>1, <2>9, <2>10, Alive, SMTT(30)
  <2>. QED  BY <2>11 DEF Known
\* The descriptor of a connection that is known is the application's.
<1>16. ASSUME Kind(n) = "P_OUTPUT", Known(log[n].clt_id), \E f \in Fd : server[f] = log[n].clt_id
       PROVE  server[get_mapping_fd(log[n].clt_id)] = log[n].clt_id
  <2>1. Of(n) \in TcpConn
    BY <1>0, <1>5, <1>16, TcpKinds
  <2>2. log[n].clt_id \in Stamps
    BY <1>0, <1>5, <1>16, <2>1, ConnectionOf
  <2>3. log[n].clt_id \in Nat \ {0}
    BY <1>6, <2>2, SMTT(30)
  <2>4. log[n].clt_id \in 1 .. core.done
    BY <1>0, <1>4, <1>16, <2>3 DEF PairsInv, Opened, Begun, Known
  <2>5. Joined(log[n].clt_id)
    BY <1>0, <1>16, <2>4 DEF AcceptInv, Known
  <2>. QED  BY <1>16, <2>5 DEF Joined, get_mapping_fd
<1>. DEFINE k == IF log[n].canbe_exed > core.end THEN log[n].canbe_exed ELSE core.end
<1>. DEFINE x == log[n].type = "P_OUTPUT" /\ ~Known(log[n].clt_id)
<1>8. core' = [core EXCEPT !.next = n + 1, !.crashed = x, !.end = k]
  BY <1>1, <1>2 DEF TakeRequest
<1>19. x \in BOOLEAN /\ (x => log[n].data[2] = 0)
  <2>1. x \in BOOLEAN
    OBVIOUS
  <2>2. log[n].data[2] \in Nat
    BY <1>0, <1>5, RequestAt
  <2>3. x => ~(log[n].data[2] > 0)
    BY <1>7 DEF Kind
  <2>. QED  BY <2>1, <2>2, <2>3, SMTT(30)
<1>. HIDE DEF x
<1>9. /\ k \in Nat /\ k >= core.end /\ k >= log[n].canbe_exed /\ k < n + 1
  BY <1>1, <1>3, <1>6, SMTT(30)
<1>. HIDE DEF k
<1>10. /\ core' \in [next : Nat, done : Nat, end : Nat, cur_rec : Nat, waits : BOOLEAN, crashed : BOOLEAN]
       /\ core'.next = n + 1 /\ core'.done = core.done /\ core'.end = k /\ core'.cur_rec = core.cur_rec
       /\ core'.waits = core.waits /\ core'.crashed = x
  <2>1. core' \in [next : Nat, done : Nat, end : Nat, cur_rec : Nat, waits : BOOLEAN, crashed : BOOLEAN]
    <3>1. n + 1 \in Nat /\ k \in Nat
      BY <1>9, SMTT(30)
    <3>2. core.done \in Nat /\ core.cur_rec \in Nat /\ core.waits \in BOOLEAN
      BY <1>2
    <3>3. core' = [next |-> n + 1, done |-> core.done, end |-> k, cur_rec |-> core.cur_rec,
                   waits |-> core.waits, crashed |-> x]
      BY <1>2, <1>8
    <3>. QED  BY <1>19, <3>1, <3>2, <3>3
  <2>2. /\ core'.next = n + 1 /\ core'.done = core.done /\ core'.end = k /\ core'.cur_rec = core.cur_rec
        /\ core'.waits = core.waits /\ core'.crashed = x
    BY <1>2, <1>8
  <2>. QED  BY <2>1, <2>2
<1>11. /\ replica_tcp_map' = replica_tcp_map /\ backlog' = backlog /\ server' = server /\ writes' = writes
       /\ log' = log /\ conn' = conn /\ committed' = committed
       /\ leader_tcp_map' = leader_tcp_map /\ leader_udp_map' = leader_udp_map
  BY <1>4 DEF leaderVars
<1>12. EventType'
  BY <1>0, <1>10, <1>11, SMTT(30) DEF EventType
<1>13. CoreInv'
  <2>1. n + 1 <= Len(log) + 1 /\ core.done <= k
    BY <1>3, <1>4, <1>6, <1>9, SMTT(30)
  <2>2. \A m \in 1 .. n : log[m].posted /\ log[m].canbe_exed <= k
    <3>. TAKE m \in 1 .. n
    <3>1. CASE m = n
      BY <1>4, <1>9, <3>1
    <3>2. CASE m \in 1 .. core.next - 1
      <4>1. log[m].posted /\ log[m].canbe_exed <= core.end
        BY <1>0, <3>2 DEF CoreInv
      <4>2. log[m].canbe_exed \in Nat
        <5>1. m \in Stamps
          BY <1>4, <1>6, SMTT(30)
        <5>. QED  BY <1>0, <5>1, RequestAt
      <4>. QED  BY <1>3, <1>9, <4>1, <4>2, SMTT(30)
    <3>. QED  BY <1>1, <3>1, <3>2, SMTT(30)
  <2>3. (n + 1) - 1 = n
    BY SMTT(30)
  <2>. QED  BY <1>4, <1>9, <1>10, <1>11, <2>1, <2>2, <2>3, SMTT(30) DEF CoreInv
<1>14. PairsInv'
  BY <1>0, <1>4, <1>10, <1>11, SMTT(30) DEF PairsInv, Opened, Closed, Begun, Kind
<1>15. AcceptInv'
  <2>1. \A v : Joined(v)' <=> Joined(v)
    BY <1>11 DEF Joined
  <2>. QED  BY <1>0, <1>4, <1>10, <1>11, <2>1 DEF AcceptInv
<1>17. AnswersInv'
  <2>. DEFINE a == [asked |-> log[n].clt_id, read |-> server[get_mapping_fd(log[n].clt_id)],
                    open |-> \E f \in Fd : server[f] = log[n].clt_id]
  <2>1. answers' = IF log[n].type = "P_OUTPUT" /\ Known(log[n].clt_id) THEN answers \cup {a} ELSE answers
    BY <1>1 DEF TakeRequest
  <2>2. /\ a.asked = log[n].clt_id /\ a.read = server[get_mapping_fd(log[n].clt_id)]
        /\ a.open => \E f \in Fd : server[f] = log[n].clt_id
    OBVIOUS
  <2>. HIDE DEF a
  <2>3. ASSUME NEW b \in answers', b.open PROVE b.read = b.asked
    <3>1. CASE b \in answers
      BY <1>0, <2>3, <3>1 DEF AnswersInv
    <3>2. CASE b \notin answers
      <4>1. Kind(n) = "P_OUTPUT" /\ Known(log[n].clt_id) /\ b = a
        BY <2>1, <2>3, <3>2 DEF Kind
      <4>2. server[get_mapping_fd(log[n].clt_id)] = log[n].clt_id
        BY <1>16, <2>2, <2>3, <4>1
      <4>. QED  BY <2>2, <4>1, <4>2
    <3>. QED  BY <3>1, <3>2
  <2>4. core'.crashed => core'.next - 1 \in Stamps' /\ log'[core'.next - 1].data[2] = 0
    <3>1. (n + 1) - 1 = n /\ Stamps' = Stamps
      BY <1>11, SMTT(30) DEF Stamps
    <3>. QED  BY <1>5, <1>10, <1>11, <1>19, <3>1
  <2>. QED  BY <2>3, <2>4 DEF AnswersInv
<1>20. ServerInv'
  BY <1>0, <1>10, <1>11 DEF ServerInv, Begun
<1>18. LeaderInv'
  BY <1>0, <1>11, LeaderKept
<1>. QED  BY <1>12, <1>13, <1>14, <1>15, <1>17, <1>18, <1>20 DEF EventInv, ReplicaInv


\* The replica executes the request after core.done.
Executes ==
    /\ ~core.waits /\ ~core.crashed /\ core.done < core.end
    /\ UNCHANGED <<server, answers, leaderVars>>

\* The request that update_state executes is in the log.
LEMMA NextRequest ==
  ASSUME EventInv, Executes
  PROVE  /\ core.done \in Nat /\ core.end \in Nat /\ core.done + 1 \in Stamps /\ Begun = core.done
         /\ Len(log) \in Nat /\ Stamps = 1 .. Len(log) /\ core.done < Len(log) /\ core.next \in Nat
<1>1. core.next \in Nat /\ core.done \in Nat /\ core.end \in Nat
  BY DEF EventInv, EventType
<1>2. core.end < core.next /\ core.next <= Len(log) + 1 /\ core.done < core.end /\ ~core.waits
  BY DEF EventInv, ReplicaInv, CoreInv, Executes
<1>3. Len(log) \in Nat
  BY SMTT(30) DEF EventInv, EventType
<1>. QED  BY <1>1, <1>2, <1>3, SMTT(30) DEF Stamps, Begun

\* What executing a request does to the replica's counters.
LEMMA ExecutedCore ==
  ASSUME EventInv, Executes, Executed
  PROVE  /\ core' \in [next : Nat, done : Nat, end : Nat, cur_rec : Nat, waits : BOOLEAN, crashed : BOOLEAN]
         /\ core'.next = core.next /\ core'.end = core.end /\ core'.done = core.done + 1
         /\ ~core'.waits /\ ~core'.crashed
         /\ CoreInv'
<1>1. core \in [next : Nat, done : Nat, end : Nat, cur_rec : Nat, waits : BOOLEAN, crashed : BOOLEAN]
  BY DEF EventInv, EventType
<1>2. core.done \in Nat /\ core.done + 1 \in Nat
  BY NextRequest, SMTT(30)
<1>3. core' = [next |-> core.next, done |-> core.done + 1, end |-> core.end, cur_rec |-> core.done + 1,
               waits |-> core.waits, crashed |-> core.crashed]
  BY <1>1 DEF Executed
<1>4. core.next \in Nat /\ core.end \in Nat /\ core.waits = FALSE /\ core.crashed = FALSE
  BY <1>1 DEF Executes
<1>5. core' \in [next : Nat, done : Nat, end : Nat, cur_rec : Nat, waits : BOOLEAN, crashed : BOOLEAN]
  BY <1>2, <1>3, <1>4
<1>6. /\ core'.next = core.next /\ core'.end = core.end /\ core'.done = core.done + 1
      /\ core'.waits = FALSE /\ core'.crashed = FALSE
  BY <1>3, <1>4
<1>7. log' = log
  BY DEF Executes, leaderVars
<1>8. CoreInv'
  <2>1. core.done + 1 <= core.end
    BY <1>2, <1>4, SMTT(30) DEF Executes
  <2>. QED  BY <1>6, <1>7, <2>1 DEF EventInv, ReplicaInv, CoreInv
<1>. QED  BY <1>5, <1>6, <1>8

\* What the longer prefix has more.
LEMMA PrefixGrows ==
  ASSUME EventInv, Executes, Executed
  PROVE  LET n == core.done + 1
         IN  /\ \A v \in Nat \ {0} : Opened(v)' <=> Opened(v) \/ (v = n /\ Kind(n) = "P_TCP_CONNECT")
             /\ \A v \in Nat : Closed(v)' <=> Closed(v) \/ (Kind(n) = "P_CLOSE" /\ log[n].clt_id = v)
             /\ (\E m \in 1 .. core.done : Kind(m) = "P_UDP_CONNECT")' =>
                   Kind(n) = "P_UDP_CONNECT" \/ \E m \in 1 .. core.done : Kind(m) = "P_UDP_CONNECT"
<1>. DEFINE n == core.done + 1
<1>1. core.done \in Nat /\ Begun = core.done
  BY NextRequest
<1>2. core'.done = n /\ ~core'.waits
  BY ExecutedCore
<1>3. log' = log
  BY DEF Executes, leaderVars
<1>4. 1 .. n = (1 .. core.done) \cup {n} /\ n \in Nat
  BY <1>1, SMTT(30)
<1>. HIDE DEF n
<1>5. Begun' = n /\ \A m : Kind(m)' = Kind(m) /\ Of(m)' = Of(m)
  BY <1>2, <1>3 DEF Begun, Kind, Of
<1>6. \A v \in Nat \ {0} : Opened(v)' <=> Opened(v) \/ (v = n /\ Kind(n) = "P_TCP_CONNECT")
  BY <1>1, <1>4, <1>5 DEF Opened
<1>7. \A v \in Nat : Closed(v)' <=> Closed(v) \/ (Kind(n) = "P_CLOSE" /\ log[n].clt_id = v)
  BY <1>2, <1>3, <1>4, <1>5, SMTT(30) DEF Closed
<1>8. (\E m \in 1 .. core.done : Kind(m) = "P_UDP_CONNECT")' =>
         Kind(n) = "P_UDP_CONNECT" \/ \E m \in 1 .. core.done : Kind(m) = "P_UDP_CONNECT"
  BY <1>2, <1>4, <1>5, SMTT(30)
<1>. QED  BY <1>6, <1>7, <1>8 DEF n

\* Executing a request that opens no TCP connection keeps the invariant when the pairs change as it says.
LEMMA ExecutedStep ==
  ASSUME EventInv, Executes, Executed, UNCHANGED backlog,
         Kind(core.done + 1) # "P_TCP_CONNECT",
         DOMAIN replica_tcp_map' \subseteq Nat,
         replica_tcp_map' \in [DOMAIN replica_tcp_map' -> Pair],
         \A v \in Nat \ {0} : v \in DOMAIN replica_tcp_map' <=>
            v \in DOMAIN replica_tcp_map /\ ~(Kind(core.done + 1) = "P_CLOSE" /\ log[core.done + 1].clt_id = v),
         0 \in DOMAIN replica_tcp_map \/ Kind(core.done + 1) = "P_UDP_CONNECT" => 0 \in DOMAIN replica_tcp_map',
         \A v \in DOMAIN replica_tcp_map' \ {0} :
            v \in DOMAIN replica_tcp_map => replica_tcp_map'[v] = replica_tcp_map[v],
         writes' \in Seq(Nat \X (Client \X Nat))
  PROVE  EventInv'
<1>. DEFINE n == core.done + 1
<1>0. EventType /\ LeaderInv /\ CoreInv /\ PairsInv /\ AcceptInv /\ ServerInv /\ AnswersInv
  BY DEF EventInv, ReplicaInv
<1>1. core.done \in Nat /\ n \in Stamps /\ Begun = core.done
  BY NextRequest
<1>2. /\ core' \in [next : Nat, done : Nat, end : Nat, cur_rec : Nat, waits : BOOLEAN, crashed : BOOLEAN]
      /\ core'.done = n /\ ~core'.waits /\ ~core'.crashed /\ CoreInv'
  BY ExecutedCore
<1>3. /\ ~core.waits /\ server' = server /\ answers' = answers /\ log' = log /\ conn' = conn /\ committed' = committed
      /\ leader_tcp_map' = leader_tcp_map /\ leader_udp_map' = leader_udp_map /\ UNCHANGED leaderVars
  BY SMTT(30) DEF Executes, leaderVars
<1>4. EventType'
  BY <1>0, <1>2, <1>3, SMTT(30) DEF EventType
<1>5. LeaderInv'
  BY <1>0, <1>3, LeaderKept
<1>6. AnswersInv'
  BY <1>0, <1>2, <1>3, SMTT(30) DEF AnswersInv
<1>7. PairsInv'
  <2>1. \A v \in Nat \ {0} : Opened(v)' <=> Opened(v)
    BY PrefixGrows
  <2>2. \A v \in Nat : Closed(v)' <=> Closed(v) \/ (Kind(n) = "P_CLOSE" /\ log[n].clt_id = v)
    BY PrefixGrows, SMTT(30)
  <2>3. (\E m \in 1 .. core.done : Kind(m) = "P_UDP_CONNECT")' =>
           Kind(n) = "P_UDP_CONNECT" \/ \E m \in 1 .. core.done : Kind(m) = "P_UDP_CONNECT"
    BY PrefixGrows, SMTT(30)
  <2>4. \A v \in Nat \ {0} : v \in DOMAIN replica_tcp_map' <=> Opened(v)' /\ ~Closed(v)'
    BY <1>0, <2>1, <2>2 DEF PairsInv
  <2>5. (\E m \in 1 .. core.done : Kind(m) = "P_UDP_CONNECT")' => 0 \in DOMAIN replica_tcp_map'
    BY <1>0, <2>3, SMTT(30) DEF PairsInv
  <2>. QED  BY <2>4, <2>5 DEF PairsInv
<1>8. AcceptInv'
  <2>1. backlog' = <<>>
    BY <1>0, <1>3 DEF AcceptInv
  <2>2. ASSUME NEW v \in DOMAIN replica_tcp_map', v \in 1 .. core'.done PROVE Joined(v)'
    <3>1. v \in Nat \ {0} /\ v \in DOMAIN replica_tcp_map
      BY <1>1, <1>2, <2>2, SMTT(30)
    <3>2. v # n
      <4>1. Opened(v)
        BY <1>0, <3>1 DEF PairsInv
      <4>. QED  BY <4>1 DEF Opened
    <3>3. v \in 1 .. core.done
      BY <1>1, <1>2, <2>2, <3>2, SMTT(30)
    <3>4. Joined(v)
      BY <1>0, <3>1, <3>3 DEF AcceptInv
    <3>. QED  BY <1>3, <2>2, <3>1, <3>4, SMTT(30) DEF Joined
  <2>. QED  BY <1>2, <2>1, <2>2, SMTT(30) DEF AcceptInv
<1>9. ServerInv'
  <2>1. backlog' = <<>> /\ Begun' = n
    BY <1>0, <1>2, <1>3 DEF AcceptInv, Begun
  <2>2. \A v \in 1 .. Begun : v \in 1 .. n
    BY <1>1, SMTT(30)
  <2>. QED  BY <1>0, <1>3, <2>1, <2>2 DEF ServerInv
<1>. QED  BY <1>2, <1>4, <1>5, <1>6, <1>7, <1>8, <1>9 DEF EventInv, ReplicaInv

\* The pair of a connect has the new socket; what else was in it stays.
LEMMA NewSocket ==
  ASSUME EventType, NEW v
  PROVE  \E pair \in Pair : /\ pair.p_s = core.done + 1 /\ Connected(v) = Paired(v, pair)
                            /\ ~Known(v) => ~pair.accepted
<1>. DEFINE old == IF Known(v) THEN replica_tcp_map[v] ELSE [p_s |-> NoFd, s_p |-> NoFd, accepted |-> FALSE]
            pair == [old EXCEPT !.p_s = core.done + 1]
<1>1. core.done + 1 \in Nat
  BY SMTT(30) DEF EventType
<1>2. old \in Pair /\ (~Known(v) => ~old.accepted)
  <2>1. CASE Known(v)
    BY <2>1 DEF EventType, Known
  <2>2. CASE ~Known(v)
    <3>1. NoFd \in Nat
      BY DEF NoFd
    <3>. QED  BY <2>2, <3>1 DEF Pair
  <2>. QED  BY <2>1, <2>2
<1>3. Connected(v) = Paired(v, pair)
  BY DEF Connected
<1>. HIDE DEF old
<1>4. pair \in Pair /\ pair.p_s = core.done + 1 /\ pair.accepted = old.accepted
  BY <1>1, <1>2 DEF Pair
<1>. QED  BY <1>2, <1>3, <1>4

\* do_action_udp_connect keeps the invariant.
LEMMA UdpConnectStep ==
  ASSUME EventInv, Executes, Kind(core.done + 1) = "P_UDP_CONNECT",
         do_action_udp_connect(log[core.done + 1].clt_id)
  PROVE  EventInv'
<1>. DEFINE n == core.done + 1
<1>0. EventType /\ LeaderInv
  BY DEF EventInv
<1>1. n \in Stamps
  BY NextRequest
<1>2. log[n].clt_id = 0
  <2>1. Of(n) \in Client /\ Of(n) \notin TcpConn
    BY <1>0, <1>1, RequestAt, SMTT(30) DEF LeaderInv, TcpRequests
  <2>. QED  BY <1>0, <1>1, <2>1 DEF LeaderInv, UdpRequests, Client
<1>3. Executed /\ replica_tcp_map' = Connected(0) /\ UNCHANGED <<backlog, writes>>
  BY <1>2 DEF do_action_udp_connect
<1>4. DOMAIN replica_tcp_map \subseteq Nat /\ replica_tcp_map \in [DOMAIN replica_tcp_map -> Pair]
  BY <1>0 DEF EventType
<1>5. PICK pair \in Pair : pair.p_s = n /\ replica_tcp_map' = Paired(0, pair)
  BY <1>0, <1>3, NewSocket
<1>6. /\ DOMAIN replica_tcp_map' = DOMAIN replica_tcp_map \cup {0}
      /\ replica_tcp_map' \in [DOMAIN replica_tcp_map' -> Pair]
      /\ \A v \in DOMAIN replica_tcp_map \ {0} : replica_tcp_map'[v] = replica_tcp_map[v]
  BY <1>4, <1>5 DEF Paired
<1>7. writes' \in Seq(Nat \X (Client \X Nat))
  BY <1>0, <1>3 DEF EventType
<1>. QED  BY <1>3, <1>4, <1>6, <1>7, ExecutedStep, SMTT(30)

\* A request that the replica skips keeps the invariant.
LEMMA NopStep ==
  ASSUME EventInv, Executes, Executed, Kind(core.done + 1) \in {"P_NOP", "P_OUTPUT"},
         UNCHANGED <<replica_tcp_map, backlog, writes>>
  PROVE  EventInv'
<1>1. DOMAIN replica_tcp_map \subseteq Nat /\ replica_tcp_map \in [DOMAIN replica_tcp_map -> Pair]
  BY DEF EventInv, EventType
<1>2. writes' \in Seq(Nat \X (Client \X Nat))
  BY DEF EventInv, EventType
<1>3. Kind(core.done + 1) \notin {"P_TCP_CONNECT", "P_UDP_CONNECT", "P_CLOSE"}
  BY SMTT(30)
<1>. QED  BY <1>1, <1>2, <1>3, ExecutedStep, SMTT(30)

\* do_action_close keeps the invariant.
LEMMA CloseStep ==
  ASSUME EventInv, Executes, Kind(core.done + 1) = "P_CLOSE",
         do_action_close(log[core.done + 1].clt_id)
  PROVE  EventInv'
<1>. DEFINE n == core.done + 1
<1>0. EventType /\ LeaderInv
  BY DEF EventInv
<1>1. n \in Stamps
  BY NextRequest
<1>2. log[n].clt_id \in Nat \ {0}
  BY <1>0, <1>1, CloseOf, RequestAt
<1>3. /\ Executed /\ UNCHANGED <<backlog, writes>>
      /\ replica_tcp_map' = [v \in DOMAIN replica_tcp_map \ {log[n].clt_id} |-> replica_tcp_map[v]]
  BY DEF do_action_close
<1>4. DOMAIN replica_tcp_map \subseteq Nat /\ replica_tcp_map \in [DOMAIN replica_tcp_map -> Pair]
  BY <1>0 DEF EventType
<1>5. /\ DOMAIN replica_tcp_map' = DOMAIN replica_tcp_map \ {log[n].clt_id}
      /\ replica_tcp_map' \in [DOMAIN replica_tcp_map' -> Pair]
      /\ \A v \in DOMAIN replica_tcp_map' : replica_tcp_map'[v] = replica_tcp_map[v]
  BY <1>3, <1>4
<1>6. writes' \in Seq(Nat \X (Client \X Nat))
  BY <1>0, <1>3, SMTT(30) DEF EventType
<1>7. DOMAIN replica_tcp_map' \subseteq Nat
  BY <1>4, <1>5
<1>8. \A v \in Nat \ {0} : v \in DOMAIN replica_tcp_map' <=>
            v \in DOMAIN replica_tcp_map /\ ~(Kind(n) = "P_CLOSE" /\ log[n].clt_id = v)
  BY <1>5
<1>9. 0 \in DOMAIN replica_tcp_map \/ Kind(n) = "P_UDP_CONNECT" => 0 \in DOMAIN replica_tcp_map'
  BY <1>2, <1>5, SMTT(30)
<1>. QED  BY <1>3, <1>5, <1>6, <1>7, <1>8, <1>9, ExecutedStep, SMTT(30)

\* do_action_send finds the pair of its client.
LEMMA SendKnown ==
  ASSUME EventInv, Executes, Kind(core.done + 1) = "P_SEND", do_action_send(log[core.done + 1]),
         NEW n \in Nat, n = core.done + 1, NEW k \in Nat, k = Len(writes), NEW c \in Client, c = Of(n)
  PROVE  /\ log[n].clt_id = (IF c \in UdpPeer THEN 0 ELSE conn[c].vs) /\ log[n].data[1] = c
         /\ writes \in Seq(Nat \X (Client \X Nat)) /\ writes' \in Seq(Nat \X (Client \X Nat))
         /\ Known(log[n].clt_id)
         /\ Len(writes') = k + 1 /\ writes'[k + 1] = <<replica_tcp_map[log[n].clt_id].p_s, log[n].data>>
         /\ \A i \in 1 .. k : writes'[i] = writes[i]
<1>0. EventType /\ LeaderInv /\ CoreInv /\ PairsInv /\ AcceptInv /\ ServerInv /\ AnswersInv
  BY DEF EventInv, ReplicaInv
<1>2. core.done \in Nat /\ n \in Stamps /\ Kind(n) = "P_SEND" /\ core.done < n
  BY NextRequest, SMTT(30)
\* The pair of the connection is there.
<1>5. Known(log[n].clt_id) /\ log[n].clt_id = IF c \in UdpPeer THEN 0 ELSE conn[c].vs
  <2>1. CASE c \in UdpPeer
    <3>1. log[n].clt_id = 0 /\ \E m \in 1 .. n - 1 : Kind(m) = "P_UDP_CONNECT"
      BY <1>0, <1>2, <2>1 DEF LeaderInv, UdpRequests
    <3>2. n - 1 = core.done
      BY <1>2, SMTT(30)
    <3>3. 0 \in DOMAIN replica_tcp_map
      BY <1>0, <3>1, <3>2, SMTT(30) DEF PairsInv
    <3>. QED  BY <2>1, <3>1, <3>3 DEF Known
  <2>2. CASE c \notin UdpPeer
    <3>1. Of(n) \in TcpConn
      BY <2>2 DEF Client
    <3>2. log[n].clt_id = conn[c].vs /\ log[n].clt_id < n /\ log[n].clt_id \in Nat
      BY <1>0, <1>2, <3>1, ConnectionOf, RequestAt, SMTT(30)
    <3>3. log[n].clt_id <= core.done
      BY <1>2, <3>2, SMTT(30)
    <3>4. log[n].clt_id \in DOMAIN replica_tcp_map
      BY <1>0, <1>2, <3>1, <3>3, Alive
    <3>. QED  BY <2>2, <3>2, <3>4 DEF Known
  <2>. QED  BY <2>1, <2>2
<1>6. writes' = Append(writes, <<replica_tcp_map[log[n].clt_id].p_s, log[n].data>>)
  BY <1>5 DEF do_action_send
<1>7. replica_tcp_map[log[n].clt_id].p_s \in Nat
  <2>1. replica_tcp_map[log[n].clt_id] \in Pair
    BY <1>0, <1>5 DEF EventType, Known
  <2>. QED  BY <2>1 DEF Pair
<1>8. log[n].data \in Client \X Nat /\ log[n].clt_id \in Nat /\ log[n].data[1] = c
  BY <1>0, <1>2, RequestAt, SMTT(30) DEF Request, Of
<1>9. /\ writes \in Seq(Nat \X (Client \X Nat)) /\ writes' \in Seq(Nat \X (Client \X Nat))
      /\ Len(writes') = k + 1 /\ writes'[k + 1] = <<replica_tcp_map[log[n].clt_id].p_s, log[n].data>>
      /\ \A i \in 1 .. k : writes'[i] = writes[i]
  <2>1. writes \in Seq(Nat \X (Client \X Nat))
    BY <1>0 DEF EventType
  <2>2. <<replica_tcp_map[log[n].clt_id].p_s, log[n].data>> \in Nat \X (Client \X Nat)
    BY <1>7, <1>8
  <2>. QED  BY <1>6, <2>1, <2>2, Appended, SMTT(30)
<1>. QED  BY <1>5, <1>8, <1>9

\* do_action_send keeps the invariant.
LEMMA SendStep ==
  ASSUME EventInv, Executes, Kind(core.done + 1) = "P_SEND", do_action_send(log[core.done + 1])
  PROVE  EventInv'
<1>0. EventType
  BY DEF EventInv
<1>1. core.done + 1 \in Nat /\ core.done + 1 \in Stamps /\ Of(core.done + 1) \in Client /\ Len(writes) \in Nat
  BY <1>0, NextRequest, RequestAt, SMTT(30) DEF EventType
<1>2. writes' \in Seq(Nat \X (Client \X Nat))
  BY <1>1, SendKnown
<1>3. Executed /\ UNCHANGED <<replica_tcp_map, backlog>>
  BY DEF do_action_send
<1>4. DOMAIN replica_tcp_map \subseteq Nat /\ replica_tcp_map \in [DOMAIN replica_tcp_map -> Pair]
  BY <1>0 DEF EventType
<1>5. Kind(core.done + 1) \notin {"P_TCP_CONNECT", "P_UDP_CONNECT", "P_CLOSE"}
  OBVIOUS
<1>. QED  BY <1>2, <1>3, <1>4, <1>5, ExecutedStep

\* do_action_tcp_connect keeps the invariant.
LEMMA TcpConnectStep ==
  ASSUME EventInv, Executes, Kind(core.done + 1) = "P_TCP_CONNECT",
         do_action_tcp_connect(log[core.done + 1].clt_id)
  PROVE  EventInv'
<1>0. EventType /\ LeaderInv /\ CoreInv /\ PairsInv /\ AcceptInv /\ ServerInv /\ AnswersInv
  BY DEF EventInv, ReplicaInv
<1>1. PICK n \in Nat : n = core.done + 1
  BY NextRequest, SMTT(30)
<1>2. core.done \in Nat /\ core.end \in Nat /\ core.next \in Nat /\ n \in Stamps /\ Kind(n) = "P_TCP_CONNECT"
      /\ Begun = core.done /\ core.done < n /\ n \in Nat \ {0}
  BY <1>1, NextRequest, SMTT(30)
<1>3. log[n].clt_id = n
  BY <1>0, <1>2, TcpKinds, ConnectionOf
<1>4. ~Known(n)
  BY <1>0, <1>2, SMTT(30) DEF PairsInv, Opened, Known
<1>5. DOMAIN replica_tcp_map \subseteq Nat /\ replica_tcp_map \in [DOMAIN replica_tcp_map -> Pair]
  BY <1>0 DEF EventType
<1>6. /\ DOMAIN replica_tcp_map' = DOMAIN replica_tcp_map \cup {n}
      /\ replica_tcp_map' \in [DOMAIN replica_tcp_map' -> Pair]
      /\ ~replica_tcp_map'[n].accepted
      /\ \A v \in DOMAIN replica_tcp_map : replica_tcp_map'[v] = replica_tcp_map[v]
  <2>1. replica_tcp_map' = Connected(n)
    BY <1>1, <1>3 DEF do_action_tcp_connect
  <2>2. PICK pair \in Pair : replica_tcp_map' = Paired(n, pair) /\ ~pair.accepted
    BY <1>0, <1>4, <2>1, NewSocket
  <2>. QED  BY <1>4, <1>5, <2>2 DEF Paired, Known
<1>7. backlog' = <<n>>
  <2>1. backlog = <<>>
    BY <1>0 DEF AcceptInv, Executes
  <2>. QED  BY <1>1, <1>3, <2>1, SMTT(30) DEF do_action_tcp_connect
<1>8. core \in [next : Nat, done : Nat, end : Nat, cur_rec : Nat, waits : BOOLEAN, crashed : BOOLEAN]
  BY <1>0 DEF EventType
<1>9. core' = [next |-> core.next, done |-> core.done, end |-> core.end, cur_rec |-> n,
               waits |-> TRUE, crashed |-> FALSE]
  <2>1. core.crashed = FALSE
    BY <1>8 DEF Executes
  <2>. QED  BY <1>1, <1>8, <2>1, ZenonT(30) DEF do_action_tcp_connect
<1>10. core' \in [next : Nat, done : Nat, end : Nat, cur_rec : Nat, waits : BOOLEAN, crashed : BOOLEAN]
  BY <1>2, <1>9
<1>11. /\ core'.next = core.next /\ core'.done = core.done /\ core'.end = core.end /\ core'.cur_rec = n
       /\ core'.waits = TRUE /\ core'.crashed = FALSE
  BY <1>9, SMTT(30)
<1>12. /\ server' = server /\ answers' = answers /\ log' = log /\ conn' = conn /\ committed' = committed
       /\ leader_tcp_map' = leader_tcp_map /\ leader_udp_map' = leader_udp_map /\ UNCHANGED leaderVars
       /\ writes' = writes
  BY SMTT(30) DEF Executes, leaderVars, do_action_tcp_connect
<1>13. EventType'
  BY <1>0, <1>2, <1>5, <1>6, <1>10, <1>12 DEF EventType
<1>14. LeaderInv'
  BY <1>0, <1>12, LeaderKept, SMTT(30)
<1>15. AnswersInv'
  BY <1>0, <1>11, <1>12, SMTT(30) DEF AnswersInv
<1>16. CoreInv'
  <2>1. core.done < core.end
    BY SMTT(30) DEF Executes
  <2>2. Kind(n)' = Kind(n)
    BY <1>12 DEF Kind
  <2>3. Kind(core.cur_rec)' = "P_TCP_CONNECT"
    BY <1>2, <1>11, <1>12 DEF Kind
  <2>. QED  BY <1>0, <1>1, <1>11, <1>12, <2>1, <2>3 DEF CoreInv
<1>17. PairsInv'
  <2>1. Begun' = n
    BY <1>1, <1>11, SMTT(30) DEF Begun
  <2>2. 1 .. n = (1 .. core.done) \cup {n}
    BY <1>1, <1>2, SMTT(30)
  <2>3. \A v \in Nat \ {0} : Opened(v)' <=> Opened(v) \/ v = n
    BY <1>2, <1>12, <2>1, <2>2, SMTT(30) DEF Opened, Kind
  <2>4. \A v : Closed(v)' <=> Closed(v)
    BY <1>11, <1>12 DEF Closed, Kind
  <2>5. ~Closed(n)
    <3>. SUFFICES ASSUME NEW k \in 1 .. core.done, Kind(k) = "P_CLOSE", log[k].clt_id = n PROVE FALSE
      BY DEF Closed
    <3>1. k \in Stamps /\ k < n /\ k \in Nat
      BY <1>1, <1>2, NextRequest, SMTT(30)
    <3>2. n < k
      BY <1>0, <3>1, CloseOf
    <3>. QED  BY <3>1, <3>2, SMTT(30)
  <2>6. \A v \in Nat \ {0} : v \in DOMAIN replica_tcp_map' <=> Opened(v)' /\ ~Closed(v)'
    <3>1. \A v \in Nat \ {0} : v \in DOMAIN replica_tcp_map <=> Opened(v) /\ ~Closed(v)
      BY <1>0 DEF PairsInv
    <3>. QED  BY <1>6, <2>3, <2>4, <2>5, <3>1, SMTT(30)
  <2>7. (\E m \in 1 .. core.done : Kind(m) = "P_UDP_CONNECT")' => 0 \in DOMAIN replica_tcp_map'
    BY <1>0, <1>6, <1>11, <1>12 DEF PairsInv, Kind
  <2>. QED  BY <2>6, <2>7, SMTT(30) DEF PairsInv
<1>18. AcceptInv'
  <2>1. ASSUME NEW v \in DOMAIN replica_tcp_map', v \in 1 .. core'.done PROVE Joined(v)'
    <3>1. v \in DOMAIN replica_tcp_map /\ v \in 1 .. core.done
      BY <1>1, <1>2, <1>6, <1>11, <2>1, SMTT(30)
    <3>2. Joined(v)
      BY <1>0, <3>1 DEF AcceptInv
    <3>. QED  BY <1>6, <1>12, <3>1, <3>2 DEF Joined
  <2>2. core'.done + 1 = n
    BY <1>1, <1>11
  <2>. QED  BY <1>6, <1>7, <1>11, <2>1, <2>2, SMTT(30) DEF AcceptInv
<1>19. ServerInv'
  <2>1. Begun' = n /\ core'.done + 1 = n
    BY <1>1, <1>11 DEF Begun
  <2>2. \A v \in 1 .. Begun : v \in 1 .. n /\ v # n
    BY <1>1, <1>2, SMTT(30)
  <2>. QED  BY <1>0, <1>12, <2>1, <2>2 DEF ServerInv
<1>. QED  BY <1>13, <1>14, <1>15, <1>16, <1>17, <1>18, <1>19 DEF EventInv, ReplicaInv

\* update_state keeps the invariant.
LEMMA UpdateStep ==
  ASSUME EventInv, update_state
  PROVE  EventInv'
<1>1. Executes
  BY DEF update_state, Executes
<1>2. \/ Kind(core.done + 1) = "P_TCP_CONNECT" /\ do_action_tcp_connect(log[core.done + 1].clt_id)
      \/ Kind(core.done + 1) = "P_UDP_CONNECT" /\ do_action_udp_connect(log[core.done + 1].clt_id)
      \/ Kind(core.done + 1) = "P_SEND" /\ do_action_send(log[core.done + 1])
      \/ Kind(core.done + 1) = "P_CLOSE" /\ do_action_close(log[core.done + 1].clt_id)
      \/ Kind(core.done + 1) \in {"P_NOP", "P_OUTPUT"} /\ Executed
         /\ UNCHANGED <<replica_tcp_map, backlog, writes>>
  BY SMTT(30) DEF update_state, Kind
<1>. QED  BY <1>1, <1>2, TcpConnectStep, UdpConnectStep, SendStep, CloseStep, NopStep

\* The connection that the replica's thread waits for.
LEMMA Waiting ==
  ASSUME EventInv, core.waits
  PROVE  /\ core.done \in Nat /\ core.cur_rec = core.done + 1 /\ core.done + 1 \in Stamps
         /\ Kind(core.done + 1) = "P_TCP_CONNECT" /\ log[core.done + 1].clt_id = core.done + 1
         /\ core.done + 1 \in DOMAIN replica_tcp_map /\ core.done + 1 \in Nat \ {0} /\ Begun = core.done + 1
         /\ core.done + 1 <= core.end /\ core.done # core.done + 1
         /\ ~(core.done + 1 \in 1 .. core.done)
         /\ 1 .. core.done + 1 = (1 .. core.done) \cup {core.done + 1}
<1>0. EventType /\ LeaderInv /\ CoreInv /\ PairsInv
  BY DEF EventInv, ReplicaInv
<1>1. core.next \in Nat /\ core.done \in Nat /\ core.end \in Nat /\ Len(log) \in Nat
  BY <1>0, SMTT(30) DEF EventType
<1>2. core.done < core.end /\ core.end < core.next /\ core.next <= Len(log) + 1
      /\ core.cur_rec = core.done + 1 /\ Kind(core.done + 1) = "P_TCP_CONNECT"
  BY <1>0 DEF CoreInv
<1>3. core.done + 1 \in Stamps /\ Begun = core.done + 1
  BY <1>1, <1>2, SMTT(30) DEF Stamps, Begun
<1>4. log[core.done + 1].clt_id = core.done + 1
  BY <1>0, <1>2, <1>3, TcpKinds, ConnectionOf
<1>5. ~Closed(core.done + 1)
  <2>. SUFFICES ASSUME NEW k \in 1 .. core.done, Kind(k) = "P_CLOSE", log[k].clt_id = core.done + 1 PROVE FALSE
    BY DEF Closed
  <2>1. k \in Stamps /\ k < core.done + 1 /\ k \in Nat
    BY <1>1, <1>2, SMTT(30) DEF Stamps
  <2>2. core.done + 1 < k
    BY <1>0, <2>1, CloseOf, SMTT(30)
  <2>. QED  BY <1>1, <2>1, <2>2, SMTT(30)
<1>6. Opened(core.done + 1) /\ core.done + 1 \in Nat \ {0}
  BY <1>1, <1>2, <1>3, SMTT(30) DEF Opened
<1>7. core.done + 1 \in DOMAIN replica_tcp_map
  BY <1>0, <1>5, <1>6 DEF PairsInv
<1>. QED  BY <1>1, <1>2, <1>3, <1>4, <1>6, <1>7, SMTT(30)


\* The accept of the replayed connection keeps the invariant.
LEMMA AcceptStep ==
  ASSUME EventInv, AcceptInner
  PROVE  EventInv'
<1>0. EventType /\ LeaderInv /\ CoreInv /\ PairsInv /\ AcceptInv /\ ServerInv /\ AnswersInv
  BY DEF EventInv, ReplicaInv
<1>1. core.waits /\ backlog = <<core.done + 1>>
  BY <1>0, SMTT(30) DEF AcceptInv, AcceptInner
<1>2. PICK n \in Nat : n = core.done + 1
  BY <1>1, Waiting
<1>3. /\ log[core.cur_rec].clt_id = n /\ n \in DOMAIN replica_tcp_map /\ ~(n \in 1 .. core.done)
      /\ core.done \in Nat
  BY <1>1, <1>2, Waiting
<1>4. PICK f \in Lowest({e \in Fd : server[e] = Unused}) :
          /\ server' = [server EXCEPT ![f] = Head(backlog)]
          /\ replica_tcp_map' =
                Paired(log[core.cur_rec].clt_id,
                       [replica_tcp_map[log[core.cur_rec].clt_id] EXCEPT !.s_p = f, !.accepted = TRUE])
  BY ZenonT(30) DEF AcceptInner
<1>5. f \in Fd /\ server[f] = Unused
  BY DEF Lowest
<1>6. server' = [server EXCEPT ![f] = n] /\ backlog' = <<>>
  <2>1. backlog = <<n>>
    BY <1>1, <1>2, SMTT(30)
  <2>2. Head(backlog) = n /\ Tail(backlog) = <<>>
    BY <2>1, SMTT(30)
  <2>. QED  BY <1>4, <2>2 DEF AcceptInner
<1>7. DOMAIN replica_tcp_map \subseteq Nat /\ replica_tcp_map \in [DOMAIN replica_tcp_map -> Pair]
      /\ server \in [Fd -> Nat \cup {Unused}]
  BY <1>0 DEF EventType
<1>. DEFINE pair == [replica_tcp_map[n] EXCEPT !.s_p = f, !.accepted = TRUE]
<1>8. pair \in Pair /\ pair.s_p = f /\ pair.accepted = TRUE /\ replica_tcp_map' = Paired(n, pair)
  <2>1. replica_tcp_map[n] \in Pair
    BY <1>3, <1>7
  <2>. QED  BY <1>3, <1>4, <1>5, <2>1 DEF Pair
<1>. HIDE DEF pair
<1>9. /\ DOMAIN replica_tcp_map' = DOMAIN replica_tcp_map
      /\ replica_tcp_map' \in [DOMAIN replica_tcp_map -> Pair]
      /\ replica_tcp_map'[n].s_p = f /\ replica_tcp_map'[n].accepted
      /\ \A v \in DOMAIN replica_tcp_map : v # n => replica_tcp_map'[v] = replica_tcp_map[v]
  BY <1>3, <1>7, <1>8 DEF Paired
<1>10. /\ core' = core /\ answers' = answers /\ log' = log /\ conn' = conn /\ committed' = committed
       /\ leader_tcp_map' = leader_tcp_map /\ leader_udp_map' = leader_udp_map /\ UNCHANGED leaderVars
       /\ writes' = writes
  BY SMTT(30) DEF AcceptInner, leaderVars
<1>11. EventType'
  <2>1. server' \in [Fd -> Nat \cup {Unused}]
    BY <1>6, <1>7
  <2>. QED  BY <1>0, <1>7, <1>9, <1>10, <2>1, SMTT(30) DEF EventType
<1>12. LeaderInv'
  BY <1>0, <1>10, LeaderKept, SMTT(30)
<1>13. CoreInv' /\ AnswersInv'
  BY <1>0, <1>10 DEF CoreInv, AnswersInv, Kind, Stamps
<1>14. PairsInv'
  BY <1>0, <1>9, <1>10, SMTT(30) DEF PairsInv, Opened, Closed, Begun, Kind
<1>16. AcceptInv'
  <2>1. Joined(n)'
    BY <1>5, <1>6, <1>7, <1>9, SMTT(30) DEF Joined
  <2>2. ASSUME NEW v \in DOMAIN replica_tcp_map, v \in 1 .. core.done PROVE Joined(v)'
    <3>1. Joined(v) /\ v # n /\ v \in Nat
      BY <1>0, <1>3, <1>7, <2>2 DEF AcceptInv
    <3>2. v # Unused
      BY <3>1, SMTT(30) DEF Unused
    <3>3. CASE server[replica_tcp_map[v].s_p] = v
      BY <1>5, <1>6, <1>7, <1>9, <2>2, <3>1, <3>2, <3>3 DEF Joined
    <3>4. CASE \A g \in Fd : server[g] # v
      <4>1. \A g \in Fd : server'[g] # v
        BY <1>6, <1>7, <3>1, <3>4
      <4>. QED  BY <1>9, <2>2, <3>1, <4>1 DEF Joined
    <3>. QED  BY <3>1, <3>3, <3>4 DEF Joined
  <2>3. Joined(core.done + 1)'
    BY <1>2, <1>10, <2>1, SMTT(30) DEF Joined
  <2>. QED  BY <1>1, <1>6, <1>9, <1>10, <2>2, <2>3 DEF AcceptInv
<1>17. ServerInv'
  <2>1. Begun' = Begun /\ n \in 1 .. Begun /\ n # Unused
    BY <1>1, <1>2, <1>3, <1>10, SMTT(30) DEF Begun, Unused
  <2>2. backlog # <<>>
    BY DEF AcceptInner
  <2>3. \A g \in Fd : server[g] # n
    BY <1>0, <1>2, <2>1, <2>2 DEF ServerInv
  <2>4. \A g \in Fd : server'[g] = IF g = f THEN n ELSE server[g]
    BY <1>6, <1>7
  <2>5. \A g \in Fd : server[g] # Unused => server'[g] = server[g]
    BY <1>5, <2>4
  <2>6. SUFFICES ASSUME NEW g \in Fd, server'[g] # Unused
                 PROVE  server'[g] \in 1 .. Begun /\ \A h \in Fd : server'[h] = server'[g] => h = g
    BY <1>6, <2>1 DEF ServerInv
  <2>7. CASE g = f
    BY <2>1, <2>3, <2>4, <2>7
  <2>8. CASE g # f
    <3>1. server'[g] = server[g] /\ server[g] # Unused
      BY <2>4, <2>6, <2>8
    <3>2. server[g] \in 1 .. Begun /\ \A h \in Fd : server[h] = server[g] => h = g
      BY <1>0, <3>1 DEF ServerInv
    <3>. QED  BY <2>3, <2>4, <3>1, <3>2
  <2>. QED  BY <2>7, <2>8
<1>. QED  BY <1>11, <1>12, <1>13, <1>14, <1>16, <1>17 DEF EventInv, ReplicaInv

\* The return of the replayed connect keeps the invariant.
LEMMA ReturnStep ==
  ASSUME EventInv, ConnectReturns
  PROVE  EventInv'
<1>0. EventType /\ LeaderInv /\ CoreInv /\ PairsInv /\ AcceptInv /\ ServerInv /\ AnswersInv
  BY DEF EventInv, ReplicaInv
<1>1. core.waits
  BY SMTT(30) DEF ConnectReturns
<1>2. PICK n \in Nat : n = core.done + 1
  BY <1>1, Waiting
<1>3. /\ log[core.cur_rec].clt_id = n /\ n \in DOMAIN replica_tcp_map /\ Kind(n) = "P_TCP_CONNECT" /\ Begun = n
      /\ core.done \in Nat /\ n <= core.end /\ 1 .. n = (1 .. core.done) \cup {n}
  BY <1>1, <1>2, Waiting
<1>4. backlog = <<>> /\ Joined(n)
  <2>1. replica_tcp_map[n].accepted
    BY <1>3 DEF ConnectReturns
  <2>. QED  BY <1>0, <1>1, <1>2, <2>1, SMTT(30) DEF AcceptInv
<1>5. core \in [next : Nat, done : Nat, end : Nat, cur_rec : Nat, waits : BOOLEAN, crashed : BOOLEAN]
  BY <1>0 DEF EventType
<1>6. core' = [next |-> core.next, done |-> n, end |-> core.end, cur_rec |-> core.cur_rec,
               waits |-> FALSE, crashed |-> core.crashed]
  BY <1>2, <1>5 DEF ConnectReturns
<1>7. core' \in [next : Nat, done : Nat, end : Nat, cur_rec : Nat, waits : BOOLEAN, crashed : BOOLEAN]
  BY <1>5, <1>6, SMTT(30)
<1>8. /\ core'.next = core.next /\ core'.done = n /\ core'.end = core.end
      /\ core'.waits = FALSE /\ core'.crashed = core.crashed
  BY <1>6
<1>9. /\ replica_tcp_map' = replica_tcp_map /\ backlog' = backlog /\ server' = server
      /\ answers' = answers /\ log' = log /\ conn' = conn /\ committed' = committed
      /\ leader_tcp_map' = leader_tcp_map /\ leader_udp_map' = leader_udp_map /\ UNCHANGED leaderVars
      /\ writes' = writes
  BY DEF ConnectReturns, leaderVars
<1>10. EventType'
  BY <1>0, <1>7, <1>9, SMTT(30) DEF EventType
<1>11. LeaderInv'
  BY <1>0, <1>9, LeaderKept
<1>12. CoreInv' /\ AnswersInv'
  BY <1>0, <1>3, <1>8, <1>9 DEF CoreInv, AnswersInv, Stamps
<1>13. PairsInv'
  <2>1. Begun' = Begun
    BY <1>3, <1>8 DEF Begun
  <2>2. \A v : Opened(v)' <=> Opened(v)
    BY <1>9, <2>1 DEF Opened, Kind
  <2>3. \A v : Closed(v)' <=> Closed(v)
    BY <1>3, <1>8, <1>9, SMTT(30) DEF Closed, Kind
  <2>4. (\E m \in 1 .. core.done : Kind(m) = "P_UDP_CONNECT")' =>
           \E m \in 1 .. core.done : Kind(m) = "P_UDP_CONNECT"
    BY <1>3, <1>8, <1>9 DEF Kind
  <2>. QED  BY <1>0, <1>9, <2>2, <2>3, <2>4, SMTT(30) DEF PairsInv
<1>14. AcceptInv'
  <2>1. ASSUME NEW v \in DOMAIN replica_tcp_map, v \in 1 .. n PROVE Joined(v)
    BY <1>0, <1>3, <1>4, <2>1, SMTT(30) DEF AcceptInv
  <2>2. \A v : Joined(v)' <=> Joined(v)
    BY <1>9 DEF Joined
  <2>. QED  BY <1>4, <1>8, <1>9, <2>1, <2>2 DEF AcceptInv
<1>15. ServerInv'
  <2>1. Begun' = Begun
    BY <1>3, <1>8 DEF Begun
  <2>. QED  BY <1>0, <1>4, <1>9, <2>1 DEF ServerInv
<1>. QED  BY <1>10, <1>11, <1>12, <1>13, <1>14, <1>15 DEF EventInv, ReplicaInv

\* The application that closes a descriptor keeps the invariant.
LEMMA ServerCloseStep ==
  ASSUME EventInv, NEW f \in Fd, ServerClose(f)
  PROVE  EventInv'
<1>0. EventType /\ LeaderInv /\ CoreInv /\ PairsInv /\ AcceptInv /\ ServerInv /\ AnswersInv
  BY DEF EventInv, ReplicaInv
<1>1. /\ core' = core /\ replica_tcp_map' = replica_tcp_map /\ backlog' = backlog
      /\ answers' = answers /\ log' = log /\ conn' = conn /\ committed' = committed
      /\ leader_tcp_map' = leader_tcp_map /\ leader_udp_map' = leader_udp_map /\ UNCHANGED leaderVars
      /\ writes' = writes
  BY DEF ServerClose, leaderVars
<1>2. server' = [server EXCEPT ![f] = Unused] /\ server \in [Fd -> Nat \cup {Unused}]
      /\ server[f] # Unused
  BY <1>0 DEF ServerClose, EventType
<1>3. EventType'
  <2>1. server' \in [Fd -> Nat \cup {Unused}]
    BY <1>2
  <2>. QED  BY <1>0, <1>1, <2>1, SMTT(30) DEF EventType
<1>4. LeaderInv'
  BY <1>0, <1>1, LeaderKept
<1>5. CoreInv' /\ AnswersInv'
  BY <1>0, <1>1 DEF CoreInv, AnswersInv, Kind, Stamps
<1>6. PairsInv'
  BY <1>0, <1>1, SMTT(30) DEF PairsInv, Opened, Closed, Begun, Kind
<1>8. AcceptInv'
  <2>1. ASSUME NEW v \in Nat, Joined(v) PROVE Joined(v)'
    <3>1. v # Unused
      BY SMTT(30) DEF Unused
    <3>2. \A g \in Fd : server'[g] = IF g = f THEN Unused ELSE server[g]
      BY <1>2
    <3>3. CASE server[replica_tcp_map[v].s_p] = v /\ replica_tcp_map[v].s_p # f
      BY <1>1, <2>1, <3>2, <3>3 DEF Joined
    <3>4. CASE server[replica_tcp_map[v].s_p] = v /\ replica_tcp_map[v].s_p = f
      <4>1. \A g \in Fd : server[g] = v => g = f
        BY <1>0, <3>1, <3>4 DEF ServerInv
      <4>2. \A g \in Fd : server'[g] # v
        BY <3>1, <3>2, <4>1
      <4>. QED  BY <1>1, <2>1, <4>2 DEF Joined
    <3>5. CASE \A g \in Fd : server[g] # v
      <4>1. \A g \in Fd : server'[g] # v
        BY <3>1, <3>2, <3>5
      <4>. QED  BY <1>1, <2>1, <4>1 DEF Joined
    <3>. QED  BY <2>1, <3>3, <3>4, <3>5 DEF Joined
  <2>2. core.done + 1 \in Nat /\ DOMAIN replica_tcp_map \subseteq Nat
    BY <1>0, SMTT(30) DEF EventType
  <2>3. Joined(core.done + 1) => Joined(core.done + 1)'
    BY <1>1, <2>1, <2>2
  <2>. QED  BY <1>0, <1>1, <2>1, <2>2, <2>3 DEF AcceptInv
<1>9. ServerInv'
  <2>1. \A g \in Fd : server'[g] = IF g = f THEN Unused ELSE server[g]
    BY <1>2
  <2>2. Begun' = Begun
    BY <1>1 DEF Begun
  <2>. QED  BY <1>0, <1>1, <2>1, <2>2 DEF ServerInv
<1>. QED  BY <1>3, <1>4, <1>5, <1>6, <1>8, <1>9 DEF EventInv, ReplicaInv

\* A step that changes nothing but leader_up keeps the invariant.
LEMMA StutterStep ==
  ASSUME EventInv, UNCHANGED <<log, committed, conn, leader_tcp_map, leader_udp_map, replicaVars>>
  PROVE  EventInv'
<1>0. EventType /\ LeaderInv /\ CoreInv /\ PairsInv /\ AcceptInv /\ ServerInv /\ AnswersInv
  BY DEF EventInv, ReplicaInv
<1>1. /\ core' = core /\ replica_tcp_map' = replica_tcp_map /\ backlog' = backlog /\ server' = server
      /\ answers' = answers /\ log' = log /\ conn' = conn /\ committed' = committed
      /\ leader_tcp_map' = leader_tcp_map /\ leader_udp_map' = leader_udp_map
      /\ writes' = writes
  BY DEF replicaVars
<1>2. EventType'
  BY <1>0, <1>1 DEF EventType
<1>3. LeaderInv'
  BY <1>0, <1>1, LeaderKept, SMTT(30)
<1>4. CoreInv' /\ AnswersInv'
  BY <1>0, <1>1 DEF CoreInv, AnswersInv, Kind, Stamps
<1>5. PairsInv'
  BY <1>0, <1>1, SMTT(30) DEF PairsInv, Opened, Closed, Begun, Kind
<1>7. AcceptInv'
  BY <1>0, <1>1, SMTT(30) DEF AcceptInv, Joined
<1>8. ServerInv'
  BY <1>0, <1>1 DEF ServerInv, Begun
<1>. QED  BY <1>2, <1>3, <1>4, <1>5, <1>7, <1>8 DEF EventInv, ReplicaInv

\* Every step keeps the invariant.
LEMMA EventInvStep ==
  ASSUME EventInv, [EventNext]_eventVars
  PROVE  EventInv'
<1>0. EventType /\ ThreadInv /\ TcpInv /\ UdpInv
  BY DEF EventInv, LeaderInv
<1>1. ASSUME NEW c \in TcpConn, accept(c) \/ read(c) \/ write(c) \/ close(c) PROVE EventInv'
  <2>1. \E e \in Request : TcpAsks(c, e)
    BY <1>0, <1>1, AcceptAsks, OpenAsks, SMTT(30)
  <2>. QED  BY <2>1, AsksStep DEF Client
<1>2. ASSUME NEW c \in UdpPeer, recvfrom(c) PROVE EventInv'
  <2>1. \E e \in Request : UdpAsks(c, e)
    BY <1>0, <1>2, RecvAsks
  <2>. QED  BY <2>1, AsksStep DEF Client
<1>3. ASSUME NEW c \in Client, SecondRequest(c) \/ PostEntry(c) \/ CommitEntry(c) PROVE EventInv'
  <2>1. CASE SecondRequest(c)
    <3>1. \E e \in Request : (c \in TcpConn /\ TcpAsks(c, e)) \/ (c \in UdpPeer /\ UdpAsks(c, e))
      BY <1>0, <2>1, SecondAsks
    <3>. QED  BY <3>1, AsksStep
  <2>. QED  BY <1>3, <2>1, PostStep, CommitStep, SMTT(30)
<1>4. CASE TakeRequest \/ update_state
  BY <1>4, TakeStep, UpdateStep, SMTT(30)
<1>5. CASE AcceptInner \/ ConnectReturns \/ \E f \in Fd : ServerClose(f)
  BY <1>5, AcceptStep, ReturnStep, ServerCloseStep, SMTT(30)
<1>6. CASE UNCHANGED eventVars \/ \E c \in TcpConn : UnpairedCall(c)
  <2>1. UNCHANGED <<log, committed, conn, leader_tcp_map, leader_udp_map, replicaVars>>
    BY <1>6 DEF UnpairedCall, eventVars, replicaVars
  <2>. QED  BY <2>1, StutterStep
<1>. QED  BY <1>1, <1>2, <1>3, <1>4, <1>5, <1>6 DEF EventNext

\* The invariant holds in every state.
THEOREM EventInvariant == EventSpec => []EventInv
<1>1. EventInv /\ [EventNext]_eventVars => EventInv'
  BY EventInvStep
<1>. QED  BY InitEventInv, <1>1, PTL DEF EventSpec

\* get_mapping_fd dereferences a missing pair only for a P_OUTPUT that the leader
\* submitted before it had read from the connection; and while the replica's
\* application keeps the connection open, the descriptor in the pair is its own.
THEOREM OutputsAreFound == EventSpec => []ReadsItsOutput
<1>1. EventInv => ReadsItsOutput
  BY DEF EventInv, ReplicaInv, AnswersInv, ReadsItsOutput
<1>. QED  BY EventInvariant, <1>1, PTL

\* The P_NOP that mgr_on_close submits after its P_CLOSE suffices: when the leader's
\* threads are out of rsm_op and the replica has executed what it may, the pair of
\* every connection the leader has closed is gone.
THEOREM ClosesAreReplayed == EventSpec => []CloseIsReplayed
<1>1. ASSUME EventInv PROVE CloseIsReplayed
  <2>0. EventType /\ LeaderInv /\ CoreInv /\ PairsInv
    BY <1>1 DEF EventInv, ReplicaInv
  <2>. SUFFICES ASSUME core.next > Len(log), core.done = core.end, NEW c \in TcpConn, conn[c].pc = "closed"
                PROVE  conn[c].vs \notin DOMAIN replica_tcp_map
    BY SMTT(30) DEF CloseIsReplayed
  <2>1. PICK n \in Stamps, m \in Stamps : n < m /\ Of(n) = c /\ Of(m) = c /\ Kind(n) = "P_CLOSE"
    BY <2>0 DEF LeaderInv, TcpInv
  <2>2. core.next \in Nat /\ core.done \in Nat /\ core.end \in Nat /\ Len(log) \in Nat /\ Stamps = 1 .. Len(log)
    BY <2>0, SMTT(30) DEF EventType, Stamps
  <2>3. m \in 1 .. core.next - 1 /\ n \in 1 .. m - 1
    BY <2>1, <2>2, SMTT(30)
  <2>4. log[m].posted /\ log[m].canbe_exed <= core.end
    BY <2>0, <2>3 DEF CoreInv
  <2>5. n <= log[m].canbe_exed /\ log[m].canbe_exed \in Nat
    BY <2>0, <2>1, <2>3, <2>4, RequestAt, SMTT(30) DEF LeaderInv, OrderInv
  <2>6. n \in 1 .. core.done
    BY <2>2, <2>3, <2>4, <2>5, SMTT(30)
  <2>7. log[n].clt_id = conn[c].vs /\ conn[c].vs \in Nat \ {0}
    BY <2>0, <2>1, <2>2, ConnectionOf, SMTT(30)
  <2>8. Closed(conn[c].vs)
    BY <2>1, <2>6, <2>7 DEF Closed
  <2>. QED  BY <2>0, <2>7, <2>8 DEF PairsInv
<1>. QED  BY EventInvariant, <1>1, PTL
=============================================================================
