------------------------------ MODULE Election ------------------------------
(***************************************************************************)
(* Heartbeats and leader election: rdma/dare_server.c 150-499 and the       *)
(* rc_send_ functions of rdma/dare_ibv_rc.c.  Every server has one event    *)
(* loop thread.  Its callbacks read the control data in its own log memory  *)
(* (sid, hb, vote_req, vote_ack) and write into that of the others with     *)
(* one-sided RDMA writes, which land while the other thread runs.           *)
(***************************************************************************)
EXTENDS Naturals, Sequences, FiniteSets

CONSTANTS Size,          \* cid.size, the size of the group
          MaxTerm,       \* bound: no election is started in a later term
          MaxInFlight,   \* bound: writes under way on one queue pair
          MaxBeat,       \* bound: rounds of heartbeats a server sends
          EmptyLog       \* servers whose log has no entry at the start

ASSUME ElectionAssumption ==
    /\ Size \in Nat \ {0, 1}
    /\ {MaxTerm, MaxInFlight, MaxBeat} \subseteq Nat
    /\ EmptyLog \subseteq 0 .. Size - 1

VARIABLES ctrl,     \* ctrl[s]: the ctrl_data of server s
          loop,     \* loop[s]: where the event loop thread of s is
          wire,     \* wire[s][d]: RDMA writes posted by s to d, in order
          empty,    \* servers whose log has no entry yet: end == len
          votes     \* history: who supported whom in which term

electionVars == <<ctrl, loop, wire, empty, votes>>

Server == 0 .. Size - 1
INIT_LEADER == 0
FIXED_LEADER == 1

\* The 64-bit SID [TERM|L|IDX], compared as a number; 0 is "no request".
Sid == [term : Nat, l : {0, 1}, idx : Server]
NoSid == [term |-> 0, l |-> 0, idx |-> 0]

Below(a, b) ==
    \/ a.term < b.term
    \/ a.term = b.term /\ a.l < b.l
    \/ a.term = b.term /\ a.l = b.l /\ a.idx < b.idx

SID_SET_L(sid) == [sid EXCEPT !.l = 1]

IS_CANDIDATE(s) == ctrl[s].sid.idx = s /\ ctrl[s].sid.l = 0

\* A slot of vote_req: "full" once term = 1 and index have landed in it; they
\* never change afterwards.
Slot == [sid : Sid, full : BOOLEAN]
NoRequest == [sid |-> NoSid, full |-> FALSE]

\* How a voter ranks a candidate: by <<term, index>> of the request, which are
\* <<0, 0>> in a slot that is not full, <<1, 1>> for FIXED_LEADER, else <<1, 0>>.
\* Mutant: FIXED_LEADER has no better log.
LogRankSame(i) == 1

LogRank(i) == IF i = FIXED_LEADER THEN 2 ELSE 1
Rank(i, slot) == IF slot.full THEN LogRank(i) ELSE 0

\* The thread of a server.  "wait": the event loop; "check": between reading and
\* clearing the heartbeats; "choose": in the second loop of poll_vote_requests,
\* at slot "at"; "send": in an rc_send function with "to" still to be written to;
\* "poll": in the poll_cq after one write.
Thread ==
    [pc : {"wait", "check", "choose", "send", "poll"},
     cb : {"hb_send_cb", "hb_receive_cb"},
     polling : BOOLEAN,
     seen : SUBSET Server,
     at : 0 .. Size, best : Sid, rank : 0 .. 2, high : Nat,
     task : {"hb", "vote_request", "vote_ack"}, beats : Nat,
     to : SUBSET Server]

\* hb_begin, on memory that log_new has zeroed: a vote_ack of 0 is not len.
ElectionInit ==
    /\ ctrl = [s \in Server |->
                 [sid |-> [term |-> 1, l |-> 1, idx |-> INIT_LEADER],
                  hb |-> {},
                  vote_req |-> [i \in Server |-> NoRequest],
                  vote_ack |-> Server]]
    /\ loop = [s \in Server |->
                 [pc |-> "wait",
                  cb |-> IF s = INIT_LEADER THEN "hb_send_cb" ELSE "hb_receive_cb",
                  polling |-> FALSE, seen |-> {},
                  at |-> 0, best |-> NoSid, rank |-> 0, high |-> 0,
                  task |-> "hb", beats |-> 0, to |-> {}]]
    /\ wire = [s \in Server |-> [d \in Server |-> <<>>]]
    /\ empty = EmptyLog
    /\ votes = {}

At(s, where) == loop[s].pc = where

-----------------------------------------------------------------------------
(* Heartbeats *)

\* Mutant: the loop over the group runs one too far.
hb_send_cb_PastEnd(s) ==
    /\ At(s, "wait") /\ loop[s].cb = "hb_send_cb"
    /\ loop[s].beats < MaxBeat
    /\ loop' = [loop EXCEPT ![s].pc = "send", ![s].task = "hb", ![s].to = (0 .. Size) \ {s},
                            ![s].beats = @ + 1]
    /\ UNCHANGED <<ctrl, wire, empty, votes>>

hb_send_cb(s) ==
    /\ At(s, "wait") /\ loop[s].cb = "hb_send_cb"
    /\ loop[s].beats < MaxBeat
    /\ loop' = [loop EXCEPT ![s].pc = "send", ![s].task = "hb", ![s].to = Server \ {s},
                            ![s].beats = @ + 1]
    /\ UNCHANGED <<ctrl, wire, empty, votes>>

\* hb_receive_cb reads a slot and then clears it: two steps, taken for all slots
\* together.
ReadHeartbeats(s) ==
    /\ At(s, "wait") /\ loop[s].cb = "hb_receive_cb"
    /\ loop' = [loop EXCEPT ![s].pc = "check", ![s].seen = ctrl[s].hb \ {s}]
    /\ UNCHANGED <<ctrl, wire, empty, votes>>

\* The rest of hb_receive_cb after a heartbeat: rearm the timer.
HeartbeatSeen(s) ==
    /\ At(s, "check") /\ loop[s].seen # {}
    /\ ctrl' = [ctrl EXCEPT ![s].hb = {}]
    /\ loop' = [loop EXCEPT ![s].pc = "wait", ![s].seen = {}]
    /\ UNCHANGED <<wire, empty, votes>>

\* Mutant: a server that has voted stays in the term of its vote.
VotersTerm(s) == ctrl[s].sid.term + (IF ctrl[s].sid.idx = s \/ ctrl[s].sid.l = 1 THEN 1 ELSE 0)

NextTerm(s) == ctrl[s].sid.term + 1

\* Mutant of the next one: the votes of the previous election are not cleared.
start_election_KeepVotes(s) ==
    LET new_sid == [term |-> NextTerm(s), l |-> 0, idx |-> s]
    IN  /\ At(s, "check") /\ loop[s].seen = {}
        /\ NextTerm(s) <= MaxTerm
        /\ ctrl' = [ctrl EXCEPT ![s].hb = {}, ![s].sid = new_sid,
                                ![s].vote_req[s] = [sid |-> new_sid, full |-> TRUE]]
        /\ loop' = [loop EXCEPT ![s].pc = "send", ![s].task = "vote_request",
                                ![s].to = Server \ {s, INIT_LEADER}]
        /\ votes' = votes \cup {[voter |-> s, term |-> new_sid.term, cand |-> s]}
        /\ UNCHANGED <<wire, empty>>

\* The rest of hb_receive_cb without one: start_election.  The vote request is
\* put in the own slot and sent to all but INIT_LEADER.
start_election(s) ==
    LET new_sid == [term |-> NextTerm(s), l |-> 0, idx |-> s]
    IN  /\ At(s, "check") /\ loop[s].seen = {}
        /\ NextTerm(s) <= MaxTerm
        /\ ctrl' = [ctrl EXCEPT ![s].hb = {}, ![s].sid = new_sid, ![s].vote_ack = {},
                                ![s].vote_req[s] = [sid |-> new_sid, full |-> TRUE]]
        /\ loop' = [loop EXCEPT ![s].pc = "send", ![s].task = "vote_request",
                                ![s].to = Server \ {s, INIT_LEADER}]
        /\ votes' = votes \cup {[voter |-> s, term |-> new_sid.term, cand |-> s]}
        /\ UNCHANGED <<wire, empty>>

-----------------------------------------------------------------------------
(* polling(): poll_vote_count for a candidate, then poll_vote_requests *)

Majority(n) == n >= Size \div 2 + 1
VoteCount(s) == 1 + Cardinality(ctrl[s].vote_ack \ {s})
Wins(s) == IS_CANDIDATE(s) /\ Majority(VoteCount(s))

\* Won: become leader.  poll_vote_requests then returns, because L is set.
poll_vote_count(s) ==
    /\ At(s, "wait") /\ loop[s].polling
    /\ Wins(s)
    /\ ctrl' = [ctrl EXCEPT ![s].sid = SID_SET_L(@)]
    /\ loop' = [loop EXCEPT ![s].cb = "hb_send_cb"]
    /\ UNCHANGED <<wire, empty, votes>>

\* The first loop of poll_vote_requests keeps a request only if it is above
\* old_sid and above all the requests in lower slots.
Kept(s) ==
    {i \in Server \ {s} :
        /\ Below(SID_SET_L(ctrl[s].sid), ctrl[s].vote_req[i].sid)
        /\ \A j \in 0 .. i - 1 : j # s =>
               Below(ctrl[s].vote_req[j].sid, ctrl[s].vote_req[i].sid)}

poll_vote_requests(s) ==
    /\ At(s, "wait") /\ loop[s].polling
    /\ ~Wins(s)
    /\ ctrl[s].sid.l = 0
    /\ ctrl' = [ctrl EXCEPT ![s].vote_req =
                   [i \in Server |-> IF i = s \/ i \in Kept(s)
                                     THEN @[i] ELSE [@[i] EXCEPT !.sid = NoSid]]]
    /\ \/ Kept(s) = {} /\ UNCHANGED loop
       \/ \E i \in Kept(s) :
            /\ \A j \in Kept(s) : j <= i         \* best_sid
            /\ loop' = [loop EXCEPT ![s].pc = "choose", ![s].at = 0,
                                    ![s].best = SID_SET_L(ctrl[s].sid),
                                    ![s].rank = LogRank(s),
                                    ![s].high = ctrl[s].vote_req[i].sid.term]
    /\ UNCHANGED <<wire, empty, votes>>

\* Mutant of the next one: old requests are not dropped.
ConsiderOld(s) ==
    LET i == loop[s].at
        request == ctrl[s].vote_req[i]
        drop == FALSE
        like == ~drop /\ loop[s].rank <= Rank(i, request)
        higher == ~drop /\ loop[s].high < request.sid.term
    IN  /\ At(s, "choose") /\ i < Size
        /\ ctrl' = [ctrl EXCEPT ![s].vote_req[i].sid = IF drop \/ like THEN NoSid ELSE @]
        /\ loop' = [loop EXCEPT ![s].at = i + 1,
                                ![s].best = IF like THEN request.sid ELSE @,
                                ![s].rank = IF like THEN Rank(i, request) ELSE @,
                                ![s].high = IF higher THEN request.sid.term ELSE @]
        /\ UNCHANGED <<wire, empty, votes>>

\* One turn of the second loop, which looks at the slots again, the own one too.
Consider(s) ==
    LET i == loop[s].at
        request == ctrl[s].vote_req[i]
        drop == Below(request.sid, loop[s].best)
        like == ~drop /\ loop[s].rank <= Rank(i, request)
        higher == ~drop /\ loop[s].high < request.sid.term
    IN  /\ At(s, "choose") /\ i < Size
        /\ ctrl' = [ctrl EXCEPT ![s].vote_req[i].sid = IF drop \/ like THEN NoSid ELSE @]
        /\ loop' = [loop EXCEPT ![s].at = i + 1,
                                ![s].best = IF like THEN request.sid ELSE @,
                                ![s].rank = IF like THEN Rank(i, request) ELSE @,
                                ![s].high = IF higher THEN request.sid.term ELSE @]
        /\ UNCHANGED <<wire, empty, votes>>

Chosen(s) == At(s, "choose") /\ loop[s].at = Size
Idle(t) == [t EXCEPT !.pc = "wait", !.at = 0, !.best = NoSid, !.rank = 0, !.high = 0]

\* The local log is better: only the term is raised; nobody is voted for.
RaiseTerm(s) ==
    /\ Chosen(s) /\ loop[s].best = SID_SET_L(ctrl[s].sid)
    /\ ctrl' = [ctrl EXCEPT ![s].sid.term = loop[s].high, ![s].sid.idx = s]
    /\ loop' = [loop EXCEPT ![s] = Idle(@)]
    /\ UNCHANGED <<wire, empty, votes>>

\* Adopt the SID of the best request and acknowledge it.
Vote(s) ==
    /\ Chosen(s) /\ loop[s].best # SID_SET_L(ctrl[s].sid)
    /\ ctrl' = [ctrl EXCEPT ![s].sid = loop[s].best]
    /\ loop' = [loop EXCEPT ![s] = [Idle(@) EXCEPT !.pc = "send", !.task = "vote_ack",
                                                   !.to = {loop[s].best.idx}]]
    /\ votes' = votes \cup {[voter |-> s, term |-> loop[s].best.term,
                             cand |-> loop[s].best.idx]}
    /\ UNCHANGED <<wire, empty>>

-----------------------------------------------------------------------------
(* rc_send_hb, rc_send_vote_request, rc_send_vote_ack *)

\* What is written.  A vote_ack is log->end, which is len while the log is empty.
Write(s) ==
    CASE loop[s].task = "hb" -> [kind |-> "hb"]
      [] loop[s].task = "vote_request" -> [kind |-> "vote_request", sid |-> ctrl[s].vote_req[s].sid]
      [] loop[s].task = "vote_ack" -> [kind |-> "vote_ack", len |-> s \in empty]

Post(s) ==
    \E d \in loop[s].to :
        /\ At(s, "send") /\ \A e \in loop[s].to : d <= e
        /\ Len(wire[s][d]) < MaxInFlight
        /\ wire' = [wire EXCEPT ![s][d] = Append(@, Write(s))]
        /\ loop' = [loop EXCEPT ![s].pc = "poll", ![s].to = @ \ {d}]
        /\ UNCHANGED <<ctrl, empty, votes>>

\* post_send fails: the rc_send function returns at once.
PostFails(s) ==
    /\ At(s, "send") /\ loop[s].to # {}
    /\ loop' = [loop EXCEPT ![s].to = {}]
    /\ UNCHANGED <<ctrl, wire, empty, votes>>

\* poll_cq finds a completion.  The flag 1 passed to post_send is not
\* IBV_SEND_SIGNALED, so it is one of the replication core, which uses the same
\* queue pair, or an error: it can come at any time or never.
Polled(s) ==
    /\ At(s, "poll")
    /\ loop' = [loop EXCEPT ![s].pc = "send"]
    /\ UNCHANGED <<ctrl, wire, empty, votes>>

\* Back to the event loop; after start_election hb_receive_cb starts the polling.
Return(s) ==
    /\ At(s, "send") /\ loop[s].to = {}
    /\ loop' = [loop EXCEPT ![s].pc = "wait", ![s].task = "hb",
                            ![s].polling = @ \/ loop[s].task = "vote_request"]
    /\ UNCHANGED <<ctrl, wire, empty, votes>>

-----------------------------------------------------------------------------
(* The device and the replication core.  A server that has stopped is one that     *)
(* takes no more steps; what lands in its memory is not read.                     *)

\* The oldest write of s to d lands.  The first time, term and index of a
\* vote_req land after its sid.
Land(s, d) ==
    LET m == Head(wire[s][d])
        torn == m.kind = "vote_request" /\ ~ctrl[d].vote_req[s].full
    IN  /\ wire[s][d] # <<>>
        /\ wire' = [wire EXCEPT ![s][d] =
                      IF torn THEN <<[kind |-> "rest"]>> \o Tail(@) ELSE Tail(@)]
        /\ ctrl' = 
             CASE m.kind = "hb" -> [ctrl EXCEPT ![d].hb = @ \cup {s}]
               [] m.kind = "vote_request" -> [ctrl EXCEPT ![d].vote_req[s].sid = m.sid]
               [] m.kind = "rest" -> [ctrl EXCEPT ![d].vote_req[s].full = TRUE]
               [] m.kind = "vote_ack" ->
                    [ctrl EXCEPT ![d].vote_ack = IF m.len THEN @ \ {s} ELSE @ \cup {s}]
        /\ UNCHANGED <<loop, empty, votes>>

\* The replication core puts its first entry into the log of s.
FirstEntry(s) ==
    /\ s \in empty
    /\ empty' = empty \ {s}
    /\ UNCHANGED <<ctrl, loop, wire, votes>>

ServerNext(s) ==
    \/ hb_send_cb(s) \/ ReadHeartbeats(s) \/ HeartbeatSeen(s) \/ start_election(s)
    \/ poll_vote_count(s) \/ poll_vote_requests(s) \/ Consider(s)
    \/ RaiseTerm(s) \/ Vote(s)
    \/ Post(s) \/ PostFails(s) \/ Polled(s) \/ Return(s)

ElectionNext ==
    \E s \in Server :
        \/ ServerNext(s)
        \/ FirstEntry(s)
        \/ \E d \in Server : Land(s, d)

ElectionSpec == ElectionInit /\ [][ElectionNext]_electionVars

-----------------------------------------------------------------------------
(* Properties *)

WriteType ==
    [kind : {"hb", "rest"}] \cup [kind : {"vote_request"}, sid : Sid]
    \cup [kind : {"vote_ack"}, len : BOOLEAN]

ElectionTypeOK ==
    /\ ctrl \in [Server -> [sid : Sid, hb : SUBSET Server,
                            vote_req : [Server -> Slot], vote_ack : SUBSET Server]]
    /\ loop \in [Server -> Thread]
    /\ wire \in [Server -> [Server -> Seq(WriteType)]]
    /\ empty \subseteq Server
    /\ votes \subseteq [voter : Server, term : Nat, cand : Server]

\* No server supports two candidates in one term, itself included, however
\* the requests land while it scans them: "set the L flag to avoid voting twice
\* in the same term" (dare_server.c:369).
OneVotePerTerm ==
    \A v, w \in votes : v.voter = w.voter /\ v.term = w.term => v.cand = w.cand

\* The SID of a server only grows: neither a vote nor a raised term takes back a
\* later term or a leader flag.
SidGrows == [][\A s \in Server : ~Below(ctrl'[s].sid, ctrl[s].sid)]_electionVars

\* An elected leader has at some time been supported by a majority: every vote_ack
\* poll_vote_count counts was sent to this candidate, in this term or an earlier one.
Supporters(s) == {i \in Server : \E v \in votes : v.voter = i /\ v.cand = s}
Elected(s) == ctrl[s].sid.l = 1 /\ ctrl[s].sid.idx = s /\ s # INIT_LEADER
LeaderWasSupported == \A s \in Server : Elected(s) => Majority(Cardinality(Supporters(s)))

\* FIXED_LEADER never supports another candidate, which its log index 1 is for.
FixedLeaderStands ==
    \A v \in votes : v.voter = FIXED_LEADER => v.cand = FIXED_LEADER
=============================================================================
