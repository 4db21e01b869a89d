----------------------------- MODULE SendQueue -----------------------------
(***************************************************************************)
(* The send queue to one peer, shared by the threads of the leader that are *)
(* in leader_handle_submit_req (consensus.c 153-171 and 209-218, post_send  *)
(* and poll_cq in rdma/dare_ibv_rc.c).  Only one send in S_DEPTH asks for a *)
(* completion, and a thread that is S_DEPTH - 1 sends later waits for it.   *)
(***************************************************************************)
EXTENDS Naturals, Sequences, FiniteSets

CONSTANTS Sender,       \* threads in leader_handle_submit_req
          S_DEPTH,
          MaxSend       \* bound: requests

ASSUME SendQueueAssumption ==
    /\ IsFiniteSet(Sender) /\ Sender # {}
    /\ S_DEPTH \in Nat \ {0, 1} /\ MaxSend \in Nat

VARIABLES link,         \* how far handle_rc_syn and rc_connect_server are
          late,         \* the peer connects while requests are under way
          send_count,
          sender,       \* what each thread does: its request and its flags
          requests,     \* requests begun
          committed,    \* highest_committed_vs.req_id
          sq,           \* sends posted and not completed: whether they are signalled
          cq,           \* completions in the completion queue
          unreclaimed,  \* posted sends up to the last completion taken are reclaimed
          lost          \* history: the first request whose store_record failed, and how
                        \* many signalled sends were counted and never reached the queue

queueVars == <<link, late, send_count, sender, requests, committed, sq, cq, unreclaimed, lost>>

IdleSender == [at |-> "idle", number |-> 0, flags |-> "plain", poll |-> FALSE]
rc_connected == link # "none"

SendQueueInit ==
    /\ late \in BOOLEAN /\ link = IF late THEN "none" ELSE "ready"
    /\ send_count = 0 /\ requests = 0 /\ committed = 0
    /\ sender = [t \in Sender |-> IdleSender]
    /\ sq = <<>> /\ cq = 0 /\ unreclaimed = <<>>
    /\ lost = [first |-> 0, signals |-> 0]

\* The locked part with a rule for the sends that poll.  Without a connection
\* send_flags[i] stays uninitialised, and poll_completion[i] 0.
ReserveWith(t, polls) ==
    /\ sender[t].at = "idle" /\ requests < MaxSend
    /\ requests' = requests + 1
    /\ sender' = [sender EXCEPT ![t] =
         [at |-> "post", number |-> requests + 1,
          flags |-> IF ~rc_connected THEN "unset"
                    ELSE IF send_count % S_DEPTH = 0 THEN "signalled" ELSE "plain",
          poll |-> rc_connected /\ polls]]
    /\ send_count' = IF rc_connected THEN send_count + 1 ELSE send_count
    /\ UNCHANGED <<link, late, committed, sq, cq, unreclaimed, lost>>

\* Mutant of Reserve: every send but the signalled one polls.
ReservePolls(t) == ReserveWith(t, send_count % S_DEPTH # 0)

\* Mutant of Reserve: no send polls.
ReserveNoPoll(t) == ReserveWith(t, FALSE)

Reserve(t) == ReserveWith(t, send_count % S_DEPTH = S_DEPTH - 1)

\* store_record fails: the request is left with its number and its send counted.
StoreFails(t) ==
    /\ sender[t].at = "post"
    /\ sender' = [sender EXCEPT ![t] = IdleSender]
    /\ lost' = [first |-> IF lost.first = 0 THEN sender[t].number ELSE lost.first,
                signals |-> lost.signals + (IF sender[t].flags = "signalled" THEN 1 ELSE 0)]
    /\ UNCHANGED <<link, late, send_count, requests, committed, sq, cq, unreclaimed>>

\* The turn of the posting loop for this peer, which reads rc_connected again.
SkipPeer(t) ==
    /\ sender[t].at = "post" /\ ~rc_connected
    /\ sender' = [sender EXCEPT ![t].at = "wait"]
    /\ UNCHANGED <<link, late, send_count, requests, committed, sq, cq, unreclaimed, lost>>

\* The signalled send whose completion is taken, and all before it, are reclaimed.
FirstSignalled == CHOOSE n \in 1 .. Len(unreclaimed) :
    unreclaimed[n] /\ \A m \in 1 .. n - 1 : ~unreclaimed[m]
Reclaimed(polled) ==
    IF polled THEN SubSeq(unreclaimed, FirstSignalled + 1, Len(unreclaimed)) ELSE unreclaimed

\* What IBV_SEND_SIGNALED may be in send_flags[i].
Signalled(flags) == IF flags = "unset" THEN BOOLEAN ELSE {flags = "signalled"}

\* post_send: poll_cq first if asked for.  ibv_post_send fails on a queue pair
\* that is not ready, and the result is not looked at.
post_send(t) ==
    LET me == sender[t]
    IN  /\ me.at = "post" /\ rc_connected
        /\ me.poll => cq > 0
        /\ cq' = IF me.poll THEN cq - 1 ELSE cq
        /\ IF link = "ready"
           THEN \E signalled \in Signalled(me.flags) :
                  /\ sq' = Append(sq, signalled)
                  /\ unreclaimed' = Append(Reclaimed(me.poll), signalled)
                  /\ UNCHANGED lost
           ELSE /\ unreclaimed' = Reclaimed(me.poll) /\ UNCHANGED sq
                /\ lost' = [lost EXCEPT !.signals = @ + IF me.flags = "signalled" THEN 1 ELSE 0]
        /\ sender' = [sender EXCEPT ![t].at = "wait"]
        /\ UNCHANGED <<link, late, send_count, requests, committed>>

\* The device completes the sends in order.
CompleteSend ==
    /\ sq # <<>>
    /\ sq' = Tail(sq) /\ cq' = IF Head(sq) THEN cq + 1 ELSE cq
    /\ UNCHANGED <<link, late, send_count, sender, requests, committed, unreclaimed, lost>>

\* A request returns when the others have made a quorum and all earlier requests
\* have committed, which those do not for which store_record failed.
RequestReturns(t) ==
    /\ sender[t].at = "wait" /\ sender[t].number = committed + 1
    /\ committed' = committed + 1
    /\ sender' = [sender EXCEPT ![t] = IdleSender]
    /\ UNCHANGED <<link, late, send_count, requests, sq, cq, unreclaimed, lost>>

\* handle_rc_syn sets rc_connected before rc_connect_server zeroes send_count and
\* moves the queue pair through INIT and RTR to RTS; ibv_post_send fails until then,
\* so that the transitions are one step.  When one fails the link stays where it is.
ConnectStep ==
    /\ \/ link = "none" /\ link' = "marked" /\ UNCHANGED send_count
       \/ link = "marked" /\ link' = "counted" /\ send_count' = 0
       \/ link = "counted" /\ link' = "ready" /\ UNCHANGED send_count
    /\ UNCHANGED <<late, sender, requests, committed, sq, cq, unreclaimed, lost>>

SendQueueNext ==
    \/ \E t \in Sender :
          Reserve(t) \/ StoreFails(t) \/ SkipPeer(t) \/ post_send(t) \/ RequestReturns(t)
    \/ CompleteSend
    \/ ConnectStep

SendQueueSpec == SendQueueInit /\ [][SendQueueNext]_queueVars

-----------------------------------------------------------------------------
(* Properties *)

Pending(flag(_)) == Cardinality({t \in Sender : sender[t].at = "post" /\ flag(sender[t])})
Signals(s) == Cardinality({n \in 1 .. Len(s) : s[n]})
IsPoll(r) == r.poll
IsSignalled(r) == r.flags = "signalled"

\* A thread spins in poll_cq for ever only for a signalled send that was counted and
\* never reached the queue, because its store_record failed or the queue pair was not
\* ready: otherwise there are as many signalled sends under way, or about to be posted,
\* as threads that still have to take a completion, although the threads post in
\* another order than they reserved, the peer may connect late and send_count restarts.
PollIsCovered ==
    Pending(IsPoll) <= cq + Signals(sq) + Pending(IsSignalled) + lost.signals

\* With the queue pair ready before the first request, the send queue, which has
\* max_qp_wr places, holds at most two rounds of S_DEPTH sends, and what the other
\* threads have posted ahead of the one that still has to poll, and had posted ahead of
\* the signalled send it polls for.  After a failing store_record, when the later
\* requests never return, it is one send more for every thread.
QueueBounded ==
    ~late => Len(unreclaimed) <=
        2 * S_DEPTH - 4 + (IF lost.first = 0 THEN 2 ELSE 3) * Cardinality(Sender)
=============================================================================
