------------------------------ MODULE EventMgr ------------------------------
(***************************************************************************)
(* The event manager (ev_mgr/ev_mgr.c) under the interposed socket calls   *)
(* of spec_hooks.cpp: how the calls of the leader's application become     *)
(* requests, and how a replica replays them on sockets to its own copy of  *)
(* the application.  Each connection of the leader has a thread; the       *)
(* replica has the thread of handle_accept_req and the application's.      *)
(* rsm_op is taken in the steps other threads can see between: the stamp   *)
(* under the lock, the entry written, the commit in stamp order.  A stamp  *)
(* is the request's index; requests reach the replica unharmed.  The       *)
(* leader's threads share leader_tcp_map and leader_udp_map without a      *)
(* lock: an operation on a map is one step here, as if two never met.      *)
(***************************************************************************)
EXTENDS Integers, Sequences, FiniteSets

CONSTANTS
    TcpConn, UdpPeer,   \* clients of the leader
    Fd,                 \* descriptors, on the leader and on the replica
    MaxRead,            \* bound: reads of one client's requests
    MaxCheck,           \* bound: P_OUTPUT requests of one connection
    MaxRequest,         \* bound: requests in all
    rsm                 \* of the configuration: whether reads are replicated

ASSUME EventMgrAssumption ==
    /\ {MaxRead, MaxCheck, MaxRequest} \subseteq Nat /\ rsm \in Int
    /\ TcpConn \cap UdpPeer = {} /\ Fd \subseteq Nat \ {0}

Client == TcpConn \cup UdpPeer

VARIABLES
    log,        \* requests in stamp order: [type, clt_id, data, posted, canbe_exed]
    committed,  \* highest_committed_vs of the leader
    conn,       \* the leader's thread of a client: [pc, stage, idx, fd, vs, reads, checks]
    leader_tcp_map,     \* fd -> stamp of the connection, or NoPair
    leader_udp_map,     \* the UDP peers with a pair
    leader_up,  \* the leader's process has not read through NULL
    core,       \* the replica's thread: [next, done, end, cur_rec, waits, crashed]
    replica_tcp_map,    \* stamp -> [p_s, s_p, accepted]; a socket p_s is named after
                        \* the index of the request that opened it
    backlog,    \* stamps of connections the replica has opened, not yet accepted
    server,     \* descriptor of the replica's application -> stamp, or Unused
    writes,     \* the calls of write to the application: <<p_s, data>>, in order
    answers     \* history: connections asked for an output hash: [asked, read, open]

eventVars == <<log, committed, conn, leader_tcp_map, leader_udp_map, leader_up, core,
               replica_tcp_map, backlog, server, writes, answers>>
leaderVars == <<log, committed, conn, leader_tcp_map, leader_udp_map, leader_up>>
replicaVars == <<core, replica_tcp_map, backlog, server, writes, answers>>

NoPair == -1
Unused == -1
NoFd == 0

\* A new descriptor is the lowest one not in use.
Lowest(fds) == {f \in fds : \A e \in fds : f <= e}

EventInit ==
    /\ log = <<>> /\ committed = 0
    /\ conn = [c \in Client |-> [pc |-> "new", stage |-> "out", idx |-> 0, fd |-> NoFd,
                                 vs |-> 0, reads |-> 0, checks |-> 0]]
    /\ leader_tcp_map = [f \in Fd |-> NoPair] /\ leader_udp_map = {}
    /\ leader_up = TRUE
    /\ core = [next |-> 1, done |-> 0, end |-> 0, cur_rec |-> 0,
               waits |-> FALSE, crashed |-> FALSE]
    /\ replica_tcp_map = <<>>
    /\ backlog = <<>>
    /\ server = [f \in Fd |-> Unused]
    /\ writes = <<>> /\ answers = {}

-----------------------------------------------------------------------------
(* The hooks on the leader look the connection up and call rsm_op, which   *)
(* stamps the request.  A thread only looks up pairs of its own client, so *)
(* that the lookup and the stamp are one step.                             *)

NextStamp == Len(log) + 1

\* The request of client c with stamp vs of its connection enters the log.
Submit(c, type, vs) ==
    /\ NextStamp <= MaxRequest
    /\ log' = Append(log, [type |-> type, clt_id |-> IF type = "P_NOP" THEN 0 ELSE vs,
                           data |-> <<c, conn'[c].reads>>, posted |-> FALSE, canbe_exed |-> 0])
    /\ UNCHANGED <<committed, leader_up>>

\* Where the thread of c is then.
InRsm(c, type, vs) ==
    [conn EXCEPT ![c].pc = type, ![c].stage = "post", ![c].idx = NextStamp, ![c].vs = vs]

\* The hooked calls of the application.  The hook of accept acts on the descriptor
\* the call returns, that of close before the descriptor is given back.
mgr_on_accept(c, f) ==
    /\ leader_tcp_map' = [leader_tcp_map EXCEPT ![f] = NextStamp]
    /\ conn' = [InRsm(c, "P_TCP_CONNECT", NextStamp) EXCEPT ![c].fd = f]
    /\ Submit(c, "P_TCP_CONNECT", NextStamp)
    /\ UNCHANGED <<leader_udp_map, replicaVars>>

accept(c) ==
    /\ conn[c].pc = "new"
    /\ \E f \in Lowest({e \in Fd : \A d \in TcpConn : conn[d].fd # e}) : mgr_on_accept(c, f)

server_side_on_read(c) ==
    LET vs == leader_tcp_map[conn[c].fd] IN
    /\ rsm # 0
    /\ conn' = [InRsm(c, "P_SEND", vs) EXCEPT ![c].reads = @ + 1]
    /\ Submit(c, "P_SEND", vs)
    /\ UNCHANGED <<leader_tcp_map, leader_udp_map, replicaVars>>

read(c) == conn[c].pc = "open" /\ conn[c].reads < MaxRead /\ server_side_on_read(c)

\* The part of mgr_on_check that proposes an output; Output has all of it.
ProposeOutput(c) ==
    LET vs == leader_tcp_map[conn[c].fd] IN
    /\ conn' = [InRsm(c, "P_OUTPUT", vs) EXCEPT ![c].checks = @ + 1]
    /\ Submit(c, "P_OUTPUT", vs)
    /\ UNCHANGED <<leader_tcp_map, leader_udp_map, replicaVars>>

\* A server may write first, as one that greets its clients does.
write(c) == conn[c].pc = "open" /\ conn[c].checks < MaxCheck /\ ProposeOutput(c)

\* The thread that serves c reads from, or writes checked output to, a socket accept
\* did not return, such as one the application connected: HASH_FIND_INT finds no
\* pair, and rsm_op reads the stamp through NULL.
UnpairedCall(c) ==
    /\ conn[c].pc = "open" /\ (rsm # 0 \/ MaxCheck > 0)
    /\ leader_up' = FALSE
    /\ UNCHANGED <<log, committed, conn, leader_tcp_map, leader_udp_map, replicaVars>>

mgr_on_close(c) ==
    LET vs == leader_tcp_map[conn[c].fd] IN
    /\ leader_tcp_map' = [leader_tcp_map EXCEPT ![conn[c].fd] = NoPair]
    /\ conn' = InRsm(c, "P_CLOSE", vs)
    /\ Submit(c, "P_CLOSE", vs)
    /\ UNCHANGED <<leader_udp_map, replicaVars>>

close(c) == conn[c].pc = "open" /\ mgr_on_close(c)

\* Only P_TCP_CONNECT stamps the pair: the stamp of a UDP pair stays 0.
mgr_on_recvfrom(c) ==
    LET type == IF c \in leader_udp_map THEN "P_SEND" ELSE "P_UDP_CONNECT" IN
    /\ leader_udp_map' = leader_udp_map \cup {c}
    /\ conn' = [InRsm(c, type, 0) EXCEPT ![c].reads = @ + 1]
    /\ Submit(c, type, 0)
    /\ UNCHANGED <<leader_tcp_map, replicaVars>>

recvfrom(c) ==
    conn[c].pc \in {"new", "open"} /\ conn[c].reads < MaxRead /\ mgr_on_recvfrom(c)

\* The second rsm_op of a hook: the data after a UDP connect, the P_NOP after a
\* close, which tells the replicas that the close is committed.
SecondRequest(c) ==
    LET type == IF c \in UdpPeer THEN "P_SEND" ELSE "P_NOP" IN
    /\ conn[c].stage = "again"
    /\ conn' = InRsm(c, type, conn[c].vs)
    /\ Submit(c, type, conn[c].vs)
    /\ UNCHANGED <<leader_tcp_map, leader_udp_map, replicaVars>>

-----------------------------------------------------------------------------
(* The rest of rsm_op *)

\* Mutant: the commit point is announced one request late.
PostEntryLate(c) ==
    /\ conn[c].stage = "post"
    /\ log' = [log EXCEPT ![conn[c].idx].posted = TRUE, ![conn[c].idx].canbe_exed = committed - 1]
    /\ conn' = [conn EXCEPT ![c].stage = "commit"]
    /\ UNCHANGED <<committed, leader_tcp_map, leader_udp_map, leader_up, replicaVars>>

PostEntry(c) ==
    /\ conn[c].stage = "post"
    /\ log' = [log EXCEPT ![conn[c].idx].posted = TRUE, ![conn[c].idx].canbe_exed = committed]
    /\ conn' = [conn EXCEPT ![c].stage = "commit"]
    /\ UNCHANGED <<committed, leader_tcp_map, leader_udp_map, leader_up, replicaVars>>

\* Mutant of CommitEntry: no P_NOP after a P_CLOSE.
CommitNoNop(c) ==
    LET t == conn[c] IN
    /\ t.stage = "commit" /\ t.idx = committed + 1
    /\ committed' = t.idx
    /\ conn' = CASE t.pc = "P_UDP_CONNECT" -> [conn EXCEPT ![c].stage = "again"]
                 [] t.pc = "P_CLOSE" -> [conn EXCEPT ![c].pc = "closed", ![c].stage = "out",
                                                   ![c].fd = NoFd]
                 [] OTHER -> [conn EXCEPT ![c].pc = "open", ![c].stage = "out"]
    /\ UNCHANGED <<log, leader_tcp_map, leader_udp_map, leader_up, replicaVars>>

\* The hook goes on to its second request, or returns; close() then closes.
CommitEntry(c) ==
    LET t == conn[c] IN
    /\ t.stage = "commit" /\ t.idx = committed + 1
    /\ committed' = t.idx
    /\ conn' = CASE t.pc \in {"P_UDP_CONNECT", "P_CLOSE"} -> [conn EXCEPT ![c].stage = "again"]
                 [] t.pc = "P_NOP" -> [conn EXCEPT ![c].pc = "closed", ![c].stage = "out",
                                                   ![c].fd = NoFd]
                 [] OTHER -> [conn EXCEPT ![c].pc = "open", ![c].stage = "out"]
    /\ UNCHANGED <<log, leader_tcp_map, leader_udp_map, leader_up, replicaVars>>

-----------------------------------------------------------------------------
(* The replica *)

Known(vs) == vs \in DOMAIN replica_tcp_map

\* Add or overwrite the pair of a stamp.
Paired(vs, pair) ==
    [v \in DOMAIN replica_tcp_map \cup {vs} |-> IF v = vs THEN pair ELSE replica_tcp_map[v]]

\* The descriptor of the application's end of the connection.
get_mapping_fd(vs) == replica_tcp_map[vs].s_p

\* handle_accept_req takes the next entry.  For a P_OUTPUT, get_mapping_fd finds
\* the descriptor whose output is read, and dereferences a missing pair.
TakeRequest ==
    LET e == log[core.next]
    IN  /\ ~core.waits /\ ~core.crashed /\ core.done = core.end
        /\ core.next <= Len(log) /\ e.posted
        /\ core' = [core EXCEPT !.next = @ + 1, !.crashed = e.type = "P_OUTPUT" /\ ~Known(e.clt_id),
                                !.end = IF e.canbe_exed > @ THEN e.canbe_exed ELSE @]
        /\ answers' = IF e.type = "P_OUTPUT" /\ Known(e.clt_id)
                      THEN answers \cup {[asked |-> e.clt_id, read |-> server[get_mapping_fd(e.clt_id)],
                                             open |-> \E f \in Fd : server[f] = e.clt_id]}
                      ELSE answers
        /\ UNCHANGED <<replica_tcp_map, backlog, server, writes, leaderVars>>

\* A connect makes a pair unless there is one, and connects a socket that becomes the
\* pair's p_s, whatever it was: over TCP the connection waits in the application's
\* backlog, and the thread for its accept.
Connected(vs) ==
    LET pair == IF Known(vs) THEN replica_tcp_map[vs]
                ELSE [p_s |-> NoFd, s_p |-> NoFd, accepted |-> FALSE]
    IN  Paired(vs, [pair EXCEPT !.p_s = core.done + 1])
do_action_tcp_connect(vs) ==
    /\ replica_tcp_map' = Connected(vs) /\ backlog' = Append(backlog, vs)
    /\ core' = [core EXCEPT !.cur_rec = core.done + 1, !.waits = TRUE]
    /\ UNCHANGED writes

\* The other requests are executed at once.
Executed == core' = [core EXCEPT !.cur_rec = core.done + 1, !.done = @ + 1]
do_action_udp_connect(vs) ==
    Executed /\ replica_tcp_map' = Connected(vs) /\ UNCHANGED <<backlog, writes>>
do_action_send(e) ==
    /\ Executed
    /\ writes' = IF Known(e.clt_id)
                 THEN Append(writes, <<replica_tcp_map[e.clt_id].p_s, e.data>>) ELSE writes
    /\ UNCHANGED <<replica_tcp_map, backlog>>
do_action_close(vs) ==
    /\ Executed
    /\ replica_tcp_map' = [v \in DOMAIN replica_tcp_map \ {vs} |-> replica_tcp_map[v]]
    /\ UNCHANGED <<backlog, writes>>

\* Mutant of update_state: a P_SEND is executed once more.
update_state_Again ==
    LET e == log[core.done + 1]
    IN  /\ ~core.waits /\ ~core.crashed /\ core.done < core.end
        /\ \/ e.type = "P_TCP_CONNECT" /\ do_action_tcp_connect(e.clt_id)
           \/ e.type = "P_UDP_CONNECT" /\ do_action_udp_connect(e.clt_id)
           \/ e.type = "P_SEND" /\ do_action_send(e)
           \/ /\ e.type = "P_SEND"
              /\ writes' = Append(writes, <<replica_tcp_map[e.clt_id].p_s, e.data>>)
              /\ UNCHANGED <<core, replica_tcp_map, backlog>>
           \/ e.type = "P_CLOSE" /\ do_action_close(e.clt_id)
           \/ /\ e.type \in {"P_NOP", "P_OUTPUT"} /\ Executed
              /\ UNCHANGED <<replica_tcp_map, backlog, writes>>
        /\ UNCHANGED <<server, answers, leaderVars>>

\* Execute the next committed request.
update_state ==
    LET e == log[core.done + 1]
    IN  /\ ~core.waits /\ ~core.crashed /\ core.done < core.end
        /\ \/ e.type = "P_TCP_CONNECT" /\ do_action_tcp_connect(e.clt_id)
           \/ e.type = "P_UDP_CONNECT" /\ do_action_udp_connect(e.clt_id)
           \/ e.type = "P_SEND" /\ do_action_send(e)
           \/ e.type = "P_CLOSE" /\ do_action_close(e.clt_id)
           \/ /\ e.type \in {"P_NOP", "P_OUTPUT"} /\ Executed
              /\ UNCHANGED <<replica_tcp_map, backlog, writes>>
        /\ UNCHANGED <<server, answers, leaderVars>>

\* The application accepts; the hook finds the pair through cur_rec.
AcceptInner ==
    /\ backlog # <<>>
    /\ LET vs == log[core.cur_rec].clt_id
       IN  \E f \in Lowest({e \in Fd : server[e] = Unused}) :
              /\ server' = [server EXCEPT ![f] = Head(backlog)]
              /\ replica_tcp_map' =
                    Paired(vs, [replica_tcp_map[vs] EXCEPT !.s_p = f, !.accepted = TRUE])
    /\ backlog' = Tail(backlog)
    /\ UNCHANGED <<core, writes, answers, leaderVars>>

ConnectReturns ==
    /\ core.waits /\ replica_tcp_map[log[core.cur_rec].clt_id].accepted
    /\ core' = [core EXCEPT !.waits = FALSE, !.done = @ + 1]
    /\ UNCHANGED <<replica_tcp_map, backlog, server, writes, answers, leaderVars>>

\* The application closes its end, after the replica's thread or before: the hook
\* leaves the pair, and with it the descriptor's number, in replica_tcp_map.
ServerClose(f) ==
    /\ server[f] # Unused
    /\ server' = [server EXCEPT ![f] = Unused]
    /\ UNCHANGED <<core, replica_tcp_map, backlog, writes, answers, leaderVars>>

EventNext ==
    \/ /\ leader_up
       /\ \/ \E c \in TcpConn : accept(c) \/ read(c) \/ write(c) \/ close(c) \/ UnpairedCall(c)
          \/ \E c \in UdpPeer : recvfrom(c)
          \/ \E c \in Client : SecondRequest(c) \/ PostEntry(c) \/ CommitEntry(c)
    \/ TakeRequest \/ update_state \/ AcceptInner \/ ConnectReturns
    \/ \E f \in Fd : ServerClose(f)

EventSpec == EventInit /\ [][EventNext]_eventVars

-----------------------------------------------------------------------------

\* Where the requests of client c are among the calls of write.
Sent(c) == {i \in 1..Len(writes) : writes[i][2][1] = c}

\* A replica replays the session of each client of the leader: do_action_send writes
\* what the leader's application read from a client, in the order it was read, each
\* read once and none left out, and a TCP client's all to the socket that
\* do_action_tcp_connect opened for its connection.  (All UDP peers share the
\* pair of stamp 0, whose socket each do_action_udp_connect replaces.)
SameSession ==
    \A c \in Client : \A i \in Sent(c) :
        /\ writes[i][2][2] = Cardinality({j \in Sent(c) : j <= i})
        /\ c \in TcpConn => writes[i][1] = conn[c].vs

\* A replica that is asked for an output hash (get_mapping_fd) knows the connection
\* and reads the output of the descriptor its application uses for it, although
\* it executes a request only when a later one tells it of the commit.  Two cases
\* are left out: the pair may be missing, and the replica crash, when the leader's
\* application wrote before it had read anything; and the descriptor may belong to
\* another connection when the replica's application has closed the one asked for.
ReadsItsOutput ==
    /\ core.crashed => log[core.next - 1].data[2] = 0
    /\ \A a \in answers : a.open => a.read = a.asked

\* The P_NOP after a P_CLOSE: once the leader's threads are out of rsm_op and
\* the replica has taken every entry, no connection that the leader has closed
\* is still open on the replica, where it would refuse every checkpoint.
CloseIsReplayed ==
    ( /\ \A c \in Client : conn[c].stage = "out"
      /\ core.next > Len(log) /\ core.done = core.end /\ ~core.waits )
        => \A c \in TcpConn : conn[c].pc = "closed" => conn[c].vs \notin DOMAIN replica_tcp_map
=============================================================================
