--------------------------- MODULE ElectionProofs ---------------------------
(***************************************************************************)
(* Proofs about Election, for any size of the group, any number of terms,  *)
(* and any writes under way.                                               *)
(***************************************************************************)
EXTENDS Election, FiniteSetTheorems, TLAPS

\* A leaf is for Zenon unless it names another prover.
USE Zenon

Plain == {x \in Sid : x.l = 0}

\* What can be under way from s to d: nobody sends itself a request, and a vote_ack
\* goes to a candidate that was voted for.
Writes(s, d) ==
    [kind : {"hb"}]
    \cup (IF s = d THEN {} ELSE [kind : {"rest"}] \cup [kind : {"vote_request"}, sid : Plain])
    \cup (IF s \in Supporters(d) THEN [kind : {"vote_ack"}, len : BOOLEAN] ELSE {})

\* Requests never carry the leader flag, and the own one is never newer than the SID.
Requests ==
    \A s \in Server :
        /\ \A i \in Server : ctrl[s].vote_req[i].sid \in Plain
        /\ ctrl[s].vote_req[s].sid.term <= ctrl[s].sid.term

\* In the second loop of poll_vote_requests: the term can only be raised, and what
\* is voted for is of a later term.  FIXED_LEADER likes nobody better than itself.
Scan ==
    \A s \in Server : At(s, "choose") =>
        /\ ctrl[s].sid.l = 0
        /\ loop[s].high > ctrl[s].sid.term
        /\ \/ loop[s].best = SID_SET_L(ctrl[s].sid)
           \/ s # FIXED_LEADER /\ loop[s].best \in Plain /\ loop[s].best.term > ctrl[s].sid.term
        /\ s = FIXED_LEADER => loop[s].rank = 2

\* The SID of a server is the last vote it has given.
LastVote ==
    \A v \in votes :
        /\ v.term <= ctrl[v.voter].sid.term
        /\ v.term = ctrl[v.voter].sid.term => v.cand = ctrl[v.voter].sid.idx

Sending ==
    \A s \in Server :
        /\ loop[s].task = "vote_request" => s \notin loop[s].to
        /\ loop[s].task = "vote_ack" => \A d \in loop[s].to : s \in Supporters(d)
        /\ \A d \in Server : wire[s][d] \in Seq(Writes(s, d))

\* Who can be a candidate has started an election, which cleared its vote_ack.
Started ==
    \A s \in Server :
        loop[s].polling \/ loop[s].task = "vote_request" \/ ctrl[s].sid.l = 0 =>
            s \in Supporters(s) /\ ctrl[s].vote_ack \ {s} \subseteq Supporters(s)

IInv ==
    /\ ElectionTypeOK
    /\ Requests /\ Scan /\ LastVote /\ Sending /\ Started
    /\ OneVotePerTerm /\ FixedLeaderStands /\ LeaderWasSupported

-----------------------------------------------------------------------------
(* Types *)

Control ==
    [sid : Sid, hb : SUBSET Server, vote_req : [Server -> Slot], vote_ack : SUBSET Server]

\* The servers are finitely many numbers; both initial leaders are among them.
LEMMA ServerFacts ==
  /\ Server \subseteq Nat /\ FIXED_LEADER \in Server /\ INIT_LEADER \in Server
  /\ IsFiniteSet(Server) /\ Size \in Nat
<1>1. Size \in Nat \ {0, 1}
  BY ElectionAssumption
<1>2. IsFiniteSet(0 .. Size - 1)
  BY <1>1, FS_Interval, SMTT(30)
<1>. QED
  BY <1>1, <1>2, SMTT(30) DEF Server, FIXED_LEADER, INIT_LEADER

\* Setting the leader bit of a SID leaves its term and index alone.
LEMMA SidFacts ==
  /\ NoSid \in Plain
  /\ \A x \in Sid : /\ SID_SET_L(x) \in Sid /\ SID_SET_L(x).l = 1
                    /\ SID_SET_L(x).term = x.term /\ SID_SET_L(x).idx = x.idx
  /\ Plain \subseteq Sid
<1>1. 0 \in Server
  BY ServerFacts DEF INIT_LEADER
<1>. QED
  BY <1>1 DEF Plain, Sid, NoSid, SID_SET_L

\* The initial states have their types.
LEMMA TypeInit == ElectionInit => ElectionTypeOK
<1>. SUFFICES ASSUME ElectionInit PROVE ElectionTypeOK
  OBVIOUS
<1>0. 0 \in Server /\ Size \in Nat /\ EmptyLog \subseteq Server
  BY ServerFacts, ElectionAssumption DEF INIT_LEADER, Server
<1>1. ctrl \in [Server -> Control]
  BY <1>0 DEF ElectionInit, Control, Sid, Slot, NoRequest, NoSid, INIT_LEADER
<1>2. loop \in [Server -> Thread]
  BY <1>0, SMTT(30) DEF ElectionInit, Thread, Sid, NoSid
<1>3. wire \in [Server -> [Server -> Seq(WriteType)]]
  BY SMTT(30) DEF ElectionInit
<1>. QED
  BY <1>0, <1>1, <1>2, <1>3 DEF ElectionInit, ElectionTypeOK, Control

\* A step of server s that replaces its control data and its thread.
LEMMA TypeUpdate ==
  ASSUME ElectionTypeOK, NEW s \in Server, NEW c \in Control, NEW t \in Thread,
         ctrl' = [ctrl EXCEPT ![s] = c], loop' = [loop EXCEPT ![s] = t],
         wire' \in [Server -> [Server -> Seq(WriteType)]], empty' \subseteq Server,
         votes' \subseteq [voter : Server, term : Nat, cand : Server]
  PROVE  ElectionTypeOK'
<1>1. ctrl' \in [Server -> Control]
  BY DEF ElectionTypeOK, Control
<1>2. loop' \in [Server -> Thread]
  BY DEF ElectionTypeOK
<1>. QED
  BY <1>1, <1>2 DEF ElectionTypeOK, Control

\* What the type invariant says of one server.
LEMMA Typed ==
  ASSUME ElectionTypeOK, NEW s \in Server
  PROVE  /\ ctrl \in [Server -> Control] /\ ctrl[s] \in Control
         /\ loop \in [Server -> Thread] /\ loop[s] \in Thread
         /\ ctrl[s].sid \in Sid /\ ctrl[s].hb \subseteq Server /\ ctrl[s].vote_ack \subseteq Server
         /\ ctrl[s].vote_req \in [Server -> Slot]
         /\ ctrl[s].sid.term \in Nat
         /\ wire \in [Server -> [Server -> Seq(WriteType)]] /\ empty \subseteq Server
         /\ votes \subseteq [voter : Server, term : Nat, cand : Server]
  BY DEF ElectionTypeOK, Control, Sid

\* A thread whose fields are assigned one after the other remains one.
LEMMA ThreadFields ==
  ASSUME NEW t \in Thread
  PROVE  /\ \A x \in {"wait", "check", "choose", "send", "poll"} : [t EXCEPT !.pc = x] \in Thread
         /\ \A x \in {"hb_send_cb", "hb_receive_cb"} : [t EXCEPT !.cb = x] \in Thread
         /\ \A x \in BOOLEAN : [t EXCEPT !.polling = x] \in Thread
         /\ \A x \in SUBSET Server : [t EXCEPT !.seen = x] \in Thread
         /\ \A x \in 0 .. Size : [t EXCEPT !.at = x] \in Thread
         /\ \A x \in Sid : [t EXCEPT !.best = x] \in Thread
         /\ \A x \in 0 .. 2 : [t EXCEPT !.rank = x] \in Thread
         /\ \A x \in Nat : [t EXCEPT !.high = x] \in Thread
         /\ \A x \in {"hb", "vote_request", "vote_ack"} : [t EXCEPT !.task = x] \in Thread
         /\ \A x \in Nat : [t EXCEPT !.beats = x] \in Thread
         /\ \A x \in SUBSET Server : [t EXCEPT !.to = x] \in Thread
<1>1. \A x \in {"wait", "check", "choose", "send", "poll"} : [t EXCEPT !.pc = x] \in Thread  BY DEF Thread
<1>2. \A x \in {"hb_send_cb", "hb_receive_cb"} : [t EXCEPT !.cb = x] \in Thread  BY DEF Thread
<1>3. \A x \in BOOLEAN : [t EXCEPT !.polling = x] \in Thread  BY DEF Thread
<1>4. \A x \in SUBSET Server : [t EXCEPT !.seen = x] \in Thread  BY DEF Thread
<1>5. \A x \in 0 .. Size : [t EXCEPT !.at = x] \in Thread  BY DEF Thread
<1>6. \A x \in Sid : [t EXCEPT !.best = x] \in Thread  BY DEF Thread
<1>7. \A x \in 0 .. 2 : [t EXCEPT !.rank = x] \in Thread  BY DEF Thread
<1>8. \A x \in Nat : [t EXCEPT !.high = x] \in Thread  BY DEF Thread
<1>9. \A x \in {"hb", "vote_request", "vote_ack"} : [t EXCEPT !.task = x] \in Thread  BY DEF Thread
<1>10. \A x \in Nat : [t EXCEPT !.beats = x] \in Thread  BY DEF Thread
<1>11. \A x \in SUBSET Server : [t EXCEPT !.to = x] \in Thread  BY DEF Thread
<1>. QED  BY <1>1, <1>2, <1>3, <1>4, <1>5, <1>6, <1>7, <1>8, <1>9, <1>10, <1>11

\* The heartbeat callbacks keep the types.
LEMMA HeartbeatType ==
  ASSUME ElectionTypeOK, NEW s \in Server,
         hb_send_cb(s) \/ ReadHeartbeats(s) \/ HeartbeatSeen(s)
  PROVE  ElectionTypeOK'
<1>0. /\ loop[s] \in Thread /\ ctrl[s] \in Control /\ ctrl[s].hb \subseteq Server
      /\ loop \in [Server -> Thread] /\ ctrl \in [Server -> Control]
      /\ wire \in [Server -> [Server -> Seq(WriteType)]] /\ empty \subseteq Server
      /\ votes \subseteq [voter : Server, term : Nat, cand : Server]
  BY Typed
<1>1. CASE hb_send_cb(s)
  <2>. DEFINE t1 == [loop[s] EXCEPT !.pc = "send"]
              t2 == [t1 EXCEPT !.task = "hb"]
              t3 == [t2 EXCEPT !.to = Server \ {s}]
              t  == [t3 EXCEPT !.beats = loop[s].beats + 1]
  <2>1. loop' = [loop EXCEPT ![s] = t] /\ ctrl' = [ctrl EXCEPT ![s] = ctrl[s]]
    BY <1>0, <1>1 DEF hb_send_cb
  <2>2. loop[s].beats + 1 \in Nat
    BY <1>0, SMTT(30) DEF Thread
  <2>. HIDE DEF t1, t2, t3, t
  <2>3. t1 \in Thread  BY <1>0, ThreadFields DEF t1
  <2>4. t2 \in Thread  BY <2>3, ThreadFields DEF t2
  <2>5. t3 \in Thread  BY <2>4, ThreadFields DEF t3
  <2>6. t \in Thread   BY <2>2, <2>5, ThreadFields DEF t
  <2>. QED  BY <1>0, <1>1, <2>1, <2>6, TypeUpdate DEF hb_send_cb
<1>2. CASE ReadHeartbeats(s)
  <2>. DEFINE t == [loop[s] EXCEPT !.pc = "check", !.seen = ctrl[s].hb \ {s}]
  <2>1. t \in Thread  BY <1>0, <1>0 DEF Thread
  <2>2. loop' = [loop EXCEPT ![s] = t] /\ ctrl' = [ctrl EXCEPT ![s] = ctrl[s]]
    BY <1>0, <1>2 DEF ReadHeartbeats
  <2>. HIDE DEF t
  <2>. QED  BY <1>0, <1>2, <2>1, <2>2, TypeUpdate DEF ReadHeartbeats
<1>3. CASE HeartbeatSeen(s)
  <2>. DEFINE t == [loop[s] EXCEPT !.pc = "wait", !.seen = {}]
  <2>. DEFINE c == [ctrl[s] EXCEPT !.hb = {}]
  <2>1. t \in Thread /\ c \in Control  BY <1>0, <1>0 DEF Thread, Control
  <2>2. loop' = [loop EXCEPT ![s] = t] /\ ctrl' = [ctrl EXCEPT ![s] = c]
    BY <1>0, <1>3 DEF HeartbeatSeen
  <2>. HIDE DEF t, c
  <2>3. /\ wire' \in [Server -> [Server -> Seq(WriteType)]] /\ empty' \subseteq Server
        /\ votes' \subseteq [voter : Server, term : Nat, cand : Server]
    BY <1>3 DEF HeartbeatSeen, ElectionTypeOK
  <2>. QED  BY <2>1, <2>2, <2>3, TypeUpdate
<1>. QED  BY <1>1, <1>2, <1>3

\* Control data whose fields are assigned remain control data.
LEMMA ControlFields ==
  ASSUME NEW c \in Control
  PROVE  /\ \A x \in Sid : [c EXCEPT !.sid = x] \in Control
         /\ \A x \in SUBSET Server : [c EXCEPT !.hb = x] \in Control
         /\ \A x \in [Server -> Slot] : [c EXCEPT !.vote_req = x] \in Control
         /\ \A x \in SUBSET Server : [c EXCEPT !.vote_ack = x] \in Control
<1>1. \A x \in Sid : [c EXCEPT !.sid = x] \in Control  BY DEF Control
<1>2. \A x \in SUBSET Server : [c EXCEPT !.hb = x] \in Control  BY DEF Control
<1>3. \A x \in [Server -> Slot] : [c EXCEPT !.vote_req = x] \in Control  BY DEF Control
<1>4. \A x \in SUBSET Server : [c EXCEPT !.vote_ack = x] \in Control  BY DEF Control
<1>. QED  BY <1>1, <1>2, <1>3, <1>4

\* Standing for election keeps the types.
LEMMA StartType ==
  ASSUME ElectionTypeOK, NEW s \in Server, start_election(s)
  PROVE  ElectionTypeOK'
<1>0. /\ loop[s] \in Thread /\ ctrl[s] \in Control /\ ctrl[s].sid \in Sid /\ ctrl[s].sid.term \in Nat
      /\ ctrl[s].vote_req \in [Server -> Slot]
      /\ loop \in [Server -> Thread] /\ ctrl \in [Server -> Control]
      /\ wire \in [Server -> [Server -> Seq(WriteType)]] /\ empty \subseteq Server
      /\ votes \subseteq [voter : Server, term : Nat, cand : Server]
  BY Typed
<1>. DEFINE new_sid == [term |-> NextTerm(s), l |-> 0, idx |-> s]
            req == [ctrl[s].vote_req EXCEPT ![s] = [sid |-> new_sid, full |-> TRUE]]
            c1 == [ctrl[s] EXCEPT !.hb = {}]
            c2 == [c1 EXCEPT !.sid = new_sid]
            c3 == [c2 EXCEPT !.vote_ack = {}]
            c  == [c3 EXCEPT !.vote_req = req]
            t1 == [loop[s] EXCEPT !.pc = "send"]
            t2 == [t1 EXCEPT !.task = "vote_request"]
            t  == [t2 EXCEPT !.to = Server \ {s, INIT_LEADER}]
<1>1. new_sid \in Sid
  BY <1>0, SMTT(30) DEF NextTerm, Sid
<1>2. votes' \subseteq [voter : Server, term : Nat, cand : Server]
  BY <1>0, <1>1, SMTT(30) DEF start_election, Sid
<1>. HIDE DEF new_sid
<1>3. req \in [Server -> Slot]
  BY <1>0, <1>1 DEF Slot
<1>4. ctrl' = [ctrl EXCEPT ![s] = c]
  BY <1>0 DEF start_election, Control, new_sid
<1>5. loop' = [loop EXCEPT ![s] = t]
  BY <1>0 DEF start_election
<1>. HIDE DEF req, c1, c2, c3, c, t1, t2, t
<1>6. c \in Control
  <2>1. c1 \in Control  BY <1>0, ControlFields DEF c1
  <2>2. c2 \in Control  BY <2>1, <1>1, ControlFields DEF c2
  <2>3. c3 \in Control  BY <2>2, ControlFields DEF c3
  <2>. QED  BY <2>3, <1>3, ControlFields DEF c
<1>7. t \in Thread
  <2>1. t1 \in Thread  BY <1>0, ThreadFields DEF t1
  <2>2. t2 \in Thread  BY <2>1, ThreadFields DEF t2
  <2>. QED  BY <2>2, ThreadFields DEF t
<1>8. UNCHANGED <<wire, empty>>
  BY DEF start_election
<1>. QED
  BY <1>0, <1>2, <1>4, <1>5, <1>6, <1>7, <1>8, TypeUpdate

\* Counting the votes keeps the types.
LEMMA CountType ==
  ASSUME ElectionTypeOK, NEW s \in Server, poll_vote_count(s)
  PROVE  ElectionTypeOK'
<1>0. /\ loop[s] \in Thread /\ ctrl[s] \in Control /\ ctrl[s].sid \in Sid /\ ctrl[s].sid.term \in Nat
      /\ ctrl[s].vote_req \in [Server -> Slot]
      /\ loop \in [Server -> Thread] /\ ctrl \in [Server -> Control]
      /\ wire \in [Server -> [Server -> Seq(WriteType)]] /\ empty \subseteq Server
      /\ votes \subseteq [voter : Server, term : Nat, cand : Server]
  BY Typed
<1>. DEFINE c == [ctrl[s] EXCEPT !.sid = SID_SET_L(ctrl[s].sid)]
            t == [loop[s] EXCEPT !.cb = "hb_send_cb"]
<1>1. ctrl' = [ctrl EXCEPT ![s] = c] /\ loop' = [loop EXCEPT ![s] = t]
  BY <1>0 DEF poll_vote_count, Control
<1>2. c \in Control /\ t \in Thread
  BY <1>0, SidFacts, ControlFields, ThreadFields
<1>. HIDE DEF c, t
<1>. QED
  BY <1>0, <1>1, <1>2, TypeUpdate DEF poll_vote_count

\* Starting to read the vote requests keeps the types.
LEMMA RequestsType ==
  ASSUME ElectionTypeOK, NEW s \in Server, poll_vote_requests(s)
  PROVE  ElectionTypeOK'
<1>0. /\ loop[s] \in Thread /\ ctrl[s] \in Control /\ ctrl[s].sid \in Sid /\ ctrl[s].sid.term \in Nat
      /\ ctrl[s].vote_req \in [Server -> Slot]
      /\ loop \in [Server -> Thread] /\ ctrl \in [Server -> Control]
      /\ wire \in [Server -> [Server -> Seq(WriteType)]] /\ empty \subseteq Server
      /\ votes \subseteq [voter : Server, term : Nat, cand : Server]
  BY Typed
<1>. DEFINE req == [i \in Server |-> IF i = s \/ i \in Kept(s)
                                     THEN ctrl[s].vote_req[i]
                                     ELSE [ctrl[s].vote_req[i] EXCEPT !.sid = NoSid]]
            c == [ctrl[s] EXCEPT !.vote_req = req]
<1>1. req \in [Server -> Slot]
  BY <1>0, SidFacts DEF Slot
<1>2. ctrl' = [ctrl EXCEPT ![s] = c]
  BY <1>0 DEF poll_vote_requests, Control
<1>. HIDE DEF req
<1>3. c \in Control
  BY <1>0, <1>1, ControlFields
<1>. HIDE DEF c
<1>4. CASE UNCHANGED loop
  <2>1. loop' = [loop EXCEPT ![s] = loop[s]]
    BY <1>0, <1>4
  <2>. QED
    BY <1>0, <1>2, <1>3, <2>1, TypeUpdate DEF poll_vote_requests
<1>5. CASE ~UNCHANGED loop
  <2>1. PICK i \in Kept(s) :
          loop' = [loop EXCEPT ![s].pc = "choose", ![s].at = 0,
                               ![s].best = SID_SET_L(ctrl[s].sid),
                               ![s].rank = LogRank(s),
                               ![s].high = ctrl[s].vote_req[i].sid.term]
    BY <1>5 DEF poll_vote_requests
  <2>. DEFINE t1 == [loop[s] EXCEPT !.pc = "choose"]
              t2 == [t1 EXCEPT !.at = 0]
              t3 == [t2 EXCEPT !.best = SID_SET_L(ctrl[s].sid)]
              t4 == [t3 EXCEPT !.rank = LogRank(s)]
              t  == [t4 EXCEPT !.high = ctrl[s].vote_req[i].sid.term]
  <2>2. loop' = [loop EXCEPT ![s] = t]
    BY <1>0, <2>1
  <2>. HIDE DEF t1, t2, t3, t4, t
  <2>3. i \in Server
    BY <2>1 DEF Kept
  <2>4. /\ 0 \in 0 .. Size /\ LogRank(s) \in 0 .. 2 /\ SID_SET_L(ctrl[s].sid) \in Sid
        /\ ctrl[s].vote_req[i].sid.term \in Nat
    <3>1. 0 \in 0 .. Size /\ LogRank(s) \in 0 .. 2
      BY ServerFacts, SMTT(30) DEF LogRank
    <3>2. ctrl[s].vote_req[i] \in Slot
      BY <1>0, <2>3
    <3>. QED
      BY <1>0, <3>1, <3>2, SidFacts DEF Slot, Sid
  <2>5. t1 \in Thread  BY <1>0, ThreadFields DEF t1
  <2>6. t2 \in Thread  BY <2>4, <2>5, ThreadFields DEF t2
  <2>7. t3 \in Thread  BY <2>4, <2>6, ThreadFields DEF t3
  <2>8. t4 \in Thread  BY <2>4, <2>7, ThreadFields DEF t4
  <2>9. t \in Thread   BY <2>4, <2>8, ThreadFields DEF t
  <2>. QED
    BY <1>0, <1>2, <1>3, <2>2, <2>9, TypeUpdate DEF poll_vote_requests
<1>. QED  BY <1>4, <1>5

\* Looking at one vote request keeps the types.
LEMMA ConsiderType ==
  ASSUME ElectionTypeOK, NEW s \in Server, Consider(s)
  PROVE  ElectionTypeOK'
<1>0. /\ loop[s] \in Thread /\ ctrl[s] \in Control /\ ctrl[s].sid \in Sid /\ ctrl[s].sid.term \in Nat
      /\ ctrl[s].vote_req \in [Server -> Slot]
      /\ loop \in [Server -> Thread] /\ ctrl \in [Server -> Control]
      /\ wire \in [Server -> [Server -> Seq(WriteType)]] /\ empty \subseteq Server
      /\ votes \subseteq [voter : Server, term : Nat, cand : Server]
  BY Typed
<1>. DEFINE i == loop[s].at
            request == ctrl[s].vote_req[i]
            drop == Below(request.sid, loop[s].best)
            like == ~drop /\ loop[s].rank <= Rank(i, request)
            higher == ~drop /\ loop[s].high < request.sid.term
            sid == IF drop \/ like THEN NoSid ELSE request.sid
            req == [ctrl[s].vote_req EXCEPT ![i] = [request EXCEPT !.sid = sid]]
            c  == [ctrl[s] EXCEPT !.vote_req = req]
            best == IF like THEN request.sid ELSE loop[s].best
            rank == IF like THEN Rank(i, request) ELSE loop[s].rank
            high == IF higher THEN request.sid.term ELSE loop[s].high
            t1 == [loop[s] EXCEPT !.at = i + 1]
            t2 == [t1 EXCEPT !.best = best]
            t3 == [t2 EXCEPT !.rank = rank]
            t  == [t3 EXCEPT !.high = high]
<1>1. i \in Server /\ i + 1 \in 0 .. Size
  <2>1. loop[s].at \in 0 .. Size
    BY <1>0 DEF Thread
  <2>2. loop[s].at < Size
    BY DEF Consider
  <2>. QED
    BY <2>1, <2>2, ServerFacts, SMTT(30) DEF Server
<1>2. request \in Slot /\ request.sid \in Sid /\ request.sid.term \in Nat
  BY <1>0, <1>1 DEF Slot, Sid
<1>3. loop[s].best \in Sid /\ loop[s].rank \in 0 .. 2 /\ loop[s].high \in Nat
  BY <1>0 DEF Thread
<1>4. best \in Sid /\ rank \in 0 .. 2 /\ high \in Nat /\ sid \in Sid
  <2>1. Rank(i, request) \in 0 .. 2
    BY SMTT(30) DEF Rank, LogRank
  <2>. QED
    BY <1>2, <1>3, <2>1, SidFacts
<1>5. /\ ctrl' = [ctrl EXCEPT ![s].vote_req[i].sid = sid]
      /\ loop' = [loop EXCEPT ![s].at = i + 1, ![s].best = best, ![s].rank = rank, ![s].high = high]
  BY <1>0 DEF Consider
<1>. HIDE DEF best, rank, high, sid, drop, like, higher
<1>6. loop' = [loop EXCEPT ![s] = t]
  BY <1>0, <1>5
<1>7. ctrl' = [ctrl EXCEPT ![s] = c]
  BY <1>0, <1>1, <1>5 DEF Control, Slot
<1>8. req \in [Server -> Slot]
  BY <1>0, <1>1, <1>2, <1>4 DEF Slot
<1>. HIDE DEF i, request, req, c, t1, t2, t3, t
<1>9. c \in Control
  BY <1>0, <1>8, ControlFields DEF c
<1>10. t \in Thread
  <2>1. t1 \in Thread  BY <1>0, <1>1, ThreadFields DEF t1
  <2>2. t2 \in Thread  BY <1>4, <2>1, ThreadFields DEF t2
  <2>3. t3 \in Thread  BY <1>4, <2>2, ThreadFields DEF t3
  <2>. QED  BY <1>4, <2>3, ThreadFields DEF t
<1>11. UNCHANGED <<wire, empty, votes>>
  BY DEF Consider
<1>. QED
  BY <1>0, <1>6, <1>7, <1>9, <1>10, <1>11, TypeUpdate

\* A thread that is done polling is a thread.
LEMMA IdleType == ASSUME NEW t \in Thread PROVE Idle(t) \in Thread
<1>. DEFINE t1 == [t EXCEPT !.pc = "wait"]
            t2 == [t1 EXCEPT !.at = 0]
            t3 == [t2 EXCEPT !.best = NoSid]
            t4 == [t3 EXCEPT !.rank = 0]
            t5 == [t4 EXCEPT !.high = 0]
<1>1. Idle(t) = t5
  BY DEF Idle
<1>. HIDE DEF t1, t2, t3, t4, t5
<1>2. 0 \in 0 .. Size /\ NoSid \in Sid /\ 0 \in 0 .. 2 /\ 0 \in Nat
  BY ServerFacts, SidFacts, SMTT(30)
<1>3. t1 \in Thread  BY ThreadFields DEF t1
<1>4. t2 \in Thread  BY <1>2, <1>3, ThreadFields DEF t2
<1>5. t3 \in Thread  BY <1>2, <1>4, ThreadFields DEF t3
<1>6. t4 \in Thread  BY <1>2, <1>5, ThreadFields DEF t4
<1>7. t5 \in Thread  BY <1>2, <1>6, ThreadFields DEF t5
<1>. QED  BY <1>1, <1>7

\* Raising the term and voting keep the types.
LEMMA DecideType ==
  ASSUME ElectionTypeOK, NEW s \in Server, RaiseTerm(s) \/ Vote(s)
  PROVE  ElectionTypeOK'
<1>0. /\ loop[s] \in Thread /\ ctrl[s] \in Control /\ ctrl[s].sid \in Sid /\ ctrl[s].sid.term \in Nat
      /\ ctrl[s].vote_req \in [Server -> Slot]
      /\ loop \in [Server -> Thread] /\ ctrl \in [Server -> Control]
      /\ wire \in [Server -> [Server -> Seq(WriteType)]] /\ empty \subseteq Server
      /\ votes \subseteq [voter : Server, term : Nat, cand : Server]
  BY Typed
<1>1. loop[s].best \in Sid /\ loop[s].best.term \in Nat /\ loop[s].best.idx \in Server /\ loop[s].high \in Nat
  BY <1>0 DEF Thread, Sid
<1>2. Idle(loop[s]) \in Thread
  BY <1>0, IdleType
<1>3. CASE RaiseTerm(s)
  <2>. DEFINE c == [ctrl[s] EXCEPT !.sid = [ctrl[s].sid EXCEPT !.term = loop[s].high, !.idx = s]]
  <2>1. ctrl' = [ctrl EXCEPT ![s] = c] /\ loop' = [loop EXCEPT ![s] = Idle(loop[s])]
    BY <1>0, <1>3, ZenonT(30) DEF RaiseTerm, Control, Sid
  <2>2. [ctrl[s].sid EXCEPT !.term = loop[s].high, !.idx = s] \in Sid
    BY <1>0, <1>1 DEF Sid
  <2>3. c \in Control
    BY <1>0, <2>2, ControlFields
  <2>. HIDE DEF c
  <2>. QED
    BY <1>0, <1>2, <1>3, <2>1, <2>3, TypeUpdate DEF RaiseTerm
<1>4. CASE Vote(s)
  <2>. DEFINE c == [ctrl[s] EXCEPT !.sid = loop[s].best]
              t0 == Idle(loop[s])
              t1 == [t0 EXCEPT !.pc = "send"]
              t2 == [t1 EXCEPT !.task = "vote_ack"]
              t  == [t2 EXCEPT !.to = {loop[s].best.idx}]
  <2>1. ctrl' = [ctrl EXCEPT ![s] = c] /\ loop' = [loop EXCEPT ![s] = t]
    BY <1>0, <1>4 DEF Vote, Control
  <2>2. votes' \subseteq [voter : Server, term : Nat, cand : Server]
    BY <1>0, <1>1, <1>4, SMTT(30) DEF Vote
  <2>3. c \in Control
    BY <1>0, <1>1, ControlFields
  <2>. HIDE DEF c, t0, t1, t2, t
  <2>4. t0 \in Thread  BY <1>2 DEF t0
  <2>5. t1 \in Thread  BY <2>4, ThreadFields DEF t1
  <2>6. t2 \in Thread  BY <2>5, ThreadFields DEF t2
  <2>7. t \in Thread   BY <1>1, <2>6, ThreadFields DEF t
  <2>8. UNCHANGED <<wire, empty>>
    BY <1>4 DEF Vote
  <2>. QED
    BY <1>0, <2>1, <2>2, <2>3, <2>7, <2>8, TypeUpdate
<1>. QED  BY <1>3, <1>4

\* Posting writes keeps the types.
LEMMA SendType ==
  ASSUME ElectionTypeOK, NEW s \in Server, Post(s) \/ PostFails(s) \/ Polled(s) \/ Return(s)
  PROVE  ElectionTypeOK'
<1>0. /\ loop[s] \in Thread /\ ctrl[s] \in Control /\ ctrl[s].sid \in Sid /\ ctrl[s].sid.term \in Nat
      /\ ctrl[s].vote_req \in [Server -> Slot]
      /\ loop \in [Server -> Thread] /\ ctrl \in [Server -> Control]
      /\ wire \in [Server -> [Server -> Seq(WriteType)]] /\ empty \subseteq Server
      /\ votes \subseteq [voter : Server, term : Nat, cand : Server]
  BY Typed
<1>00. loop[s].to \subseteq Server /\ ctrl' = [ctrl EXCEPT ![s] = ctrl[s]] /\ UNCHANGED <<empty, votes>>
  BY <1>0, SMTT(30) DEF Thread, Post, PostFails, Polled, Return
<1>1. CASE Post(s)
  <2>1. PICK d \in loop[s].to :
          /\ wire' = [wire EXCEPT ![s][d] = Append(@, Write(s))]
          /\ loop' = [loop EXCEPT ![s].pc = "poll", ![s].to = @ \ {d}]
    BY <1>1 DEF Post
  <2>. DEFINE t1 == [loop[s] EXCEPT !.pc = "poll"]
              t  == [t1 EXCEPT !.to = loop[s].to \ {d}]
  <2>2. loop' = [loop EXCEPT ![s] = t]
    BY <1>0, <2>1
  <2>. HIDE DEF t1, t
  <2>3. t1 \in Thread  BY <1>0, ThreadFields DEF t1
  <2>4. t \in Thread   BY <1>00, <2>3, ThreadFields DEF t
  <2>5. Write(s) \in WriteType
    <3>1. ctrl[s].vote_req[s] \in Slot
      BY <1>0
    <3>2. ctrl[s].vote_req[s].sid \in Sid /\ loop[s].task \in {"hb", "vote_request", "vote_ack"}
      BY <1>0, <3>1 DEF Slot, Thread
    <3>. QED
      BY <3>2, SMTT(30) DEF Write, WriteType
  <2>. HIDE DEF Write
  <2>6. wire' \in [Server -> [Server -> Seq(WriteType)]]
    BY <1>0, <1>00, <2>1, <2>5, SMTT(30)
  <2>. QED
    BY <1>0, <1>00, <2>2, <2>4, <2>6, TypeUpdate
<1>2. CASE PostFails(s)
  <2>. DEFINE t == [loop[s] EXCEPT !.to = {}]
  <2>1. loop' = [loop EXCEPT ![s] = t] /\ UNCHANGED wire
    BY <1>0, <1>2 DEF PostFails
  <2>2. t \in Thread  BY <1>0, ThreadFields
  <2>. HIDE DEF t
  <2>. QED
    BY <1>0, <1>00, <2>1, <2>2, TypeUpdate
<1>3. CASE Polled(s)
  <2>. DEFINE t == [loop[s] EXCEPT !.pc = "send"]
  <2>1. loop' = [loop EXCEPT ![s] = t] /\ UNCHANGED wire
    BY <1>0, <1>3 DEF Polled
  <2>2. t \in Thread  BY <1>0, ThreadFields
  <2>. HIDE DEF t
  <2>. QED
    BY <1>0, <1>00, <2>1, <2>2, TypeUpdate
<1>4. CASE Return(s)
  <2>. DEFINE polling == loop[s].polling \/ loop[s].task = "vote_request"
              t1 == [loop[s] EXCEPT !.pc = "wait"]
              t2 == [t1 EXCEPT !.task = "hb"]
              t  == [t2 EXCEPT !.polling = polling]
  <2>1. loop' = [loop EXCEPT ![s] = t] /\ UNCHANGED wire
    BY <1>0, <1>4 DEF Return
  <2>2. polling \in BOOLEAN
    OBVIOUS
  <2>. HIDE DEF polling, t1, t2, t
  <2>3. t1 \in Thread  BY <1>0, ThreadFields DEF t1
  <2>4. t2 \in Thread  BY <2>3, ThreadFields DEF t2
  <2>5. t \in Thread   BY <2>2, <2>4, ThreadFields DEF t
  <2>. QED
    BY <1>0, <1>00, <2>1, <2>5, TypeUpdate
<1>. QED  BY <1>1, <1>2, <1>3, <1>4

\* A write that lands keeps the types.
LEMMA LandType ==
  ASSUME ElectionTypeOK, NEW s \in Server, NEW d \in Server, Land(s, d)
  PROVE  ElectionTypeOK'
<1>0. /\ loop[d] \in Thread /\ ctrl[d] \in Control /\ ctrl[d].hb \subseteq Server /\ ctrl[d].vote_ack \subseteq Server
      /\ ctrl[d].vote_req \in [Server -> Slot] /\ ctrl[d].vote_req[s] \in Slot
      /\ loop \in [Server -> Thread] /\ ctrl \in [Server -> Control]
      /\ wire \in [Server -> [Server -> Seq(WriteType)]] /\ wire[s][d] \in Seq(WriteType)
      /\ empty \subseteq Server /\ votes \subseteq [voter : Server, term : Nat, cand : Server]
  BY Typed
<1>. DEFINE m == Head(wire[s][d])
            torn == m.kind = "vote_request" /\ ~ctrl[d].vote_req[s].full
            slot == ctrl[d].vote_req[s]
            rest == IF torn THEN <<[kind |-> "rest"]>> \o Tail(wire[s][d]) ELSE Tail(wire[s][d])
<1>1. m \in WriteType /\ Tail(wire[s][d]) \in Seq(WriteType)
  BY <1>0, SMTT(30) DEF Land
<1>2. [kind |-> "rest"] \in WriteType
  BY DEF WriteType
<1>3. rest \in Seq(WriteType)
  BY <1>1, <1>2, SMTT(30)
<1>4. wire' = [wire EXCEPT ![s][d] = rest] /\ UNCHANGED <<loop, empty, votes>>
  BY DEF Land
<1>. HIDE DEF rest
<1>5. wire' \in [Server -> [Server -> Seq(WriteType)]]
  BY <1>0, <1>3, <1>4
<1>6. m.kind \in {"hb", "rest", "vote_request", "vote_ack"}
  BY <1>1 DEF WriteType
<1>7. loop' = [loop EXCEPT ![d] = loop[d]]
  BY <1>0, <1>4
<1>8. CASE m.kind = "hb"
  <2>. DEFINE c == [ctrl[d] EXCEPT !.hb = ctrl[d].hb \cup {s}]
  <2>1. ctrl' = [ctrl EXCEPT ![d] = c]
    BY <1>0, <1>8 DEF Land
  <2>2. c \in Control
    BY <1>0, ControlFields
  <2>. HIDE DEF c
  <2>. QED  BY <1>0, <1>4, <1>5, <1>7, <2>1, <2>2, TypeUpdate
<1>9. CASE m.kind = "vote_request"
  <2>. DEFINE req == [ctrl[d].vote_req EXCEPT ![s] = [slot EXCEPT !.sid = m.sid]]
              c == [ctrl[d] EXCEPT !.vote_req = req]
  <2>1. m.sid \in Sid
    BY <1>1, <1>9 DEF WriteType
  <2>2. ctrl' = [ctrl EXCEPT ![d].vote_req[s].sid = m.sid]
    BY <1>9 DEF Land
  <2>3. ctrl' = [ctrl EXCEPT ![d] = c]
    BY <1>0, <2>2 DEF Control, Slot
  <2>4. req \in [Server -> Slot]
    BY <1>0, <2>1 DEF Slot
  <2>. HIDE DEF req
  <2>5. c \in Control
    BY <1>0, <2>4, ControlFields
  <2>. HIDE DEF c
  <2>. QED  BY <1>0, <1>4, <1>5, <1>7, <2>3, <2>5, TypeUpdate
<1>10. CASE m.kind = "rest"
  <2>. DEFINE req == [ctrl[d].vote_req EXCEPT ![s] = [slot EXCEPT !.full = TRUE]]
              c == [ctrl[d] EXCEPT !.vote_req = req]
  <2>2. ctrl' = [ctrl EXCEPT ![d].vote_req[s].full = TRUE]
    BY <1>10 DEF Land
  <2>3. ctrl' = [ctrl EXCEPT ![d] = c]
    BY <1>0, <2>2 DEF Control, Slot
  <2>4. req \in [Server -> Slot]
    BY <1>0 DEF Slot
  <2>. HIDE DEF req
  <2>5. c \in Control
    BY <1>0, <2>4, ControlFields
  <2>. HIDE DEF c
  <2>. QED  BY <1>0, <1>4, <1>5, <1>7, <2>3, <2>5, TypeUpdate
<1>11. CASE m.kind = "vote_ack"
  <2>. DEFINE ack == IF m.len THEN ctrl[d].vote_ack \ {s} ELSE ctrl[d].vote_ack \cup {s}
              c == [ctrl[d] EXCEPT !.vote_ack = ack]
  <2>1. ack \in SUBSET Server
    BY <1>0
  <2>2. ctrl' = [ctrl EXCEPT ![d] = c]
    BY <1>0, <1>11 DEF Land
  <2>. HIDE DEF ack
  <2>3. c \in Control
    BY <1>0, <2>1, ControlFields
  <2>. HIDE DEF c
  <2>. QED  BY <1>0, <1>4, <1>5, <1>7, <2>2, <2>3, TypeUpdate
<1>. QED  BY <1>6, <1>8, <1>9, <1>10, <1>11

\* Every step keeps the types.
LEMMA TypeStep == ElectionTypeOK /\ [ElectionNext]_electionVars => ElectionTypeOK'
<1>. SUFFICES ASSUME ElectionTypeOK, [ElectionNext]_electionVars PROVE ElectionTypeOK'
  OBVIOUS
<1>1. ASSUME NEW s \in Server, ServerNext(s) PROVE ElectionTypeOK'
  BY <1>1, HeartbeatType, StartType, CountType, RequestsType, ConsiderType, DecideType, SendType
    DEF ServerNext
<1>2. ASSUME NEW s \in Server, FirstEntry(s) PROVE ElectionTypeOK'
  BY <1>2 DEF FirstEntry, ElectionTypeOK
<1>3. ASSUME NEW s \in Server, NEW d \in Server, Land(s, d) PROVE ElectionTypeOK'
  BY <1>3, LandType
<1>4. CASE UNCHANGED electionVars
  BY <1>4 DEF electionVars, ElectionTypeOK
<1>. QED
  BY <1>1, <1>2, <1>3, <1>4 DEF ElectionNext

\* Every field of the control data and of the threads keeps its type, and what
\* lands in a slot of vote_req is always a SID: the callbacks of dare_server.c and
\* the rc_send functions never address a server outside of the group.
THEOREM ElectionTypes == ElectionSpec => []ElectionTypeOK
  BY TypeInit, TypeStep, PTL DEF ElectionSpec

-----------------------------------------------------------------------------
(* The inductive invariant *)

\* The initial states satisfy the invariant.
LEMMA InitIInv == ElectionInit => IInv
<1>. SUFFICES ASSUME ElectionInit PROVE IInv
  OBVIOUS
<1>0. ElectionTypeOK
  BY TypeInit
<1>1. Requests
  BY SidFacts, SMTT(30) DEF ElectionInit, Requests, NoRequest, NoSid
<1>2. Scan /\ LastVote /\ OneVotePerTerm /\ FixedLeaderStands
  BY DEF ElectionInit, Scan, At, LastVote, OneVotePerTerm, FixedLeaderStands
<1>3. Sending
  BY SMTT(30) DEF ElectionInit, Sending
<1>4. Started /\ LeaderWasSupported
  BY SMTT(30) DEF ElectionInit, Started, LeaderWasSupported, Elected
<1>. QED
  BY <1>0, <1>1, <1>2, <1>3, <1>4 DEF IInv

\* What depends on the SIDs and the votes only.
LEMMA VotesFrame ==
  ASSUME IInv, \A r \in Server : ctrl'[r].sid = ctrl[r].sid, votes' = votes
  PROVE  /\ LastVote' /\ OneVotePerTerm' /\ FixedLeaderStands' /\ LeaderWasSupported'
         /\ \A r \in Server : Supporters(r)' = Supporters(r)
         /\ \A r, d \in Server : Writes(r, d)' = Writes(r, d)
<1>1. \A r \in Server : Supporters(r)' = Supporters(r)
  BY DEF Supporters
<1>2. \A r, d \in Server : Writes(r, d)' = Writes(r, d)
  BY <1>1 DEF Writes
<1>3. \A v \in votes : v.voter \in Server
  BY DEF IInv, ElectionTypeOK
<1>4. LastVote'
  BY <1>3 DEF IInv, LastVote
<1>5. OneVotePerTerm' /\ FixedLeaderStands'
  BY DEF IInv, OneVotePerTerm, FixedLeaderStands
<1>6. \A r \in Server : Elected(r)' => Elected(r)
  BY DEF Elected
<1>7. LeaderWasSupported'
  BY <1>1, <1>6 DEF IInv, LeaderWasSupported
<1>. QED
  BY <1>1, <1>2, <1>4, <1>5, <1>7

\* A step that leaves the control data alone but for hb, and the thread of s
\* outside of the second loop.
LEMMA QuietStep ==
  ASSUME IInv, ElectionTypeOK', NEW s \in Server, votes' = votes,
         \A r \in Server : /\ ctrl'[r].sid = ctrl[r].sid /\ ctrl'[r].vote_req = ctrl[r].vote_req
                           /\ ctrl'[r].vote_ack = ctrl[r].vote_ack,
         \A r \in Server \ {s} : loop'[r] = loop[r],
         loop'[s].pc # "choose",
         loop'[s].task = "hb" \/ (loop'[s].task = loop[s].task /\ loop'[s].to \subseteq loop[s].to),
         loop'[s].polling => loop[s].polling \/ loop[s].task = "vote_request",
         \A r, d \in Server : wire'[r][d] \in Seq(Writes(r, d))
  PROVE  IInv'
<1>1. /\ LastVote' /\ OneVotePerTerm' /\ FixedLeaderStands' /\ LeaderWasSupported'
      /\ \A r \in Server : Supporters(r)' = Supporters(r)
      /\ \A r, d \in Server : Writes(r, d)' = Writes(r, d)
  BY VotesFrame
<1>2. Requests'
  BY DEF IInv, Requests
<1>3. Scan'
  BY SMTT(30) DEF IInv, Scan, At
<1>4. Sending'
  <2>1. \A r \in Server : loop'[r].to \subseteq Server
    BY DEF ElectionTypeOK, Thread
  <2>2. ASSUME NEW r \in Server PROVE loop'[r].task = "vote_request" => r \notin loop'[r].to
    BY <2>2, SMTT(30) DEF IInv, Sending
  <2>3. ASSUME NEW r \in Server, loop'[r].task = "vote_ack", NEW d \in loop'[r].to
        PROVE  r \in Supporters(d)'
    BY <1>1, <2>1, <2>3, SMTT(30) DEF IInv, Sending
  <2>4. \A r, d \in Server : wire'[r][d] \in Seq(Writes(r, d)')
    BY <1>1
  <2>. QED
    BY <2>2, <2>3, <2>4 DEF Sending
<1>5. Started'
  BY <1>1, SMTT(30) DEF IInv, Started
<1>. QED
  BY <1>1, <1>2, <1>3, <1>4, <1>5 DEF IInv

\* The heartbeat callbacks and the ends of a round of writes keep the invariant.
LEMMA HeartbeatStep ==
  ASSUME IInv, ElectionTypeOK', NEW s \in Server,
         \/ hb_send_cb(s) \/ ReadHeartbeats(s) \/ HeartbeatSeen(s)
         \/ PostFails(s) \/ Polled(s) \/ Return(s)
  PROVE  IInv'
<1>0. loop \in [Server -> Thread] /\ ctrl \in [Server -> Control] /\ loop[s] \in Thread
  BY Typed DEF IInv
<1>1. UNCHANGED <<wire, votes>> /\ \A r, d \in Server : wire'[r][d] \in Seq(Writes(r, d))
  BY DEF IInv, Sending, hb_send_cb, ReadHeartbeats, HeartbeatSeen, PostFails, Polled, Return
<1>2. \A r \in Server : /\ ctrl'[r].sid = ctrl[r].sid /\ ctrl'[r].vote_req = ctrl[r].vote_req
                        /\ ctrl'[r].vote_ack = ctrl[r].vote_ack
  <2>1. CASE HeartbeatSeen(s)
    BY <1>0, <2>1, SMTT(30) DEF Control, HeartbeatSeen
  <2>2. CASE ~HeartbeatSeen(s)
    <3>1. UNCHANGED ctrl
      BY <2>2 DEF hb_send_cb, ReadHeartbeats, PostFails, Polled, Return
    <3>. QED  BY <3>1
  <2>. QED  BY <2>1, <2>2
<1>3. CASE hb_send_cb(s)
  <2>1. (\A r \in Server \ {s} : loop'[r] = loop[r]) /\ loop'[s].pc # "choose" /\ loop'[s].task = "hb"
        /\ loop'[s].polling = loop[s].polling
    BY <1>0, <1>3 DEF hb_send_cb, Thread
  <2>. QED  BY <1>1, <1>2, <2>1, QuietStep
<1>4. CASE ReadHeartbeats(s) \/ HeartbeatSeen(s)
  <2>1. (\A r \in Server \ {s} : loop'[r] = loop[r]) /\ loop'[s].pc # "choose" /\ loop'[s].task = loop[s].task
        /\ loop'[s].polling = loop[s].polling /\ loop'[s].to = loop[s].to
    BY <1>0, <1>4, SMTT(30) DEF ReadHeartbeats, HeartbeatSeen, Thread
  <2>. QED  BY <1>1, <1>2, <2>1, QuietStep
<1>5. CASE PostFails(s) \/ Polled(s)
  <2>1. (\A r \in Server \ {s} : loop'[r] = loop[r]) /\ loop'[s].pc # "choose" /\ loop'[s].task = loop[s].task
        /\ loop'[s].polling = loop[s].polling /\ loop'[s].to \subseteq loop[s].to
    BY <1>0, <1>5, SMTT(30) DEF PostFails, Polled, At, Thread
  <2>. QED  BY <1>1, <1>2, <2>1, QuietStep
<1>6. CASE Return(s)
  <2>1. (\A r \in Server \ {s} : loop'[r] = loop[r]) /\ loop'[s].pc # "choose" /\ loop'[s].task = "hb"
        /\ (loop'[s].polling => loop[s].polling \/ loop[s].task = "vote_request")
    BY <1>0, <1>6 DEF Return, Thread
  <2>. QED  BY <1>1, <1>2, <2>1, QuietStep
<1>. QED  BY <1>3, <1>4, <1>5, <1>6

\* Posting a write keeps the invariant.
LEMMA PostStep ==
  ASSUME IInv, ElectionTypeOK', NEW s \in Server, Post(s)
  PROVE  IInv'
<1>0. /\ loop \in [Server -> Thread] /\ loop[s] \in Thread
      /\ wire \in [Server -> [Server -> Seq(WriteType)]]
  BY Typed DEF IInv
<1>1. PICK d \in loop[s].to :
        /\ wire' = [wire EXCEPT ![s][d] = Append(@, Write(s))]
        /\ loop' = [loop EXCEPT ![s].pc = "poll", ![s].to = @ \ {d}]
        /\ UNCHANGED <<ctrl, empty, votes>>
  BY DEF Post
<1>2. d \in Server
  BY <1>0 DEF Thread
<1>3. Write(s) \in Writes(s, d)
  <2>1. ctrl[s].vote_req[s].sid \in Plain
    BY DEF IInv, Requests
  <2>2. loop[s].task \in {"hb", "vote_request", "vote_ack"}
    BY <1>0 DEF Thread
  <2>3. CASE loop[s].task = "hb"
    BY <2>3 DEF Write, Writes
  <2>4. CASE loop[s].task = "vote_request"
    <3>1. s # d
      BY <1>1, <2>4 DEF IInv, Sending
    <3>. QED  BY <2>1, <2>4, <3>1 DEF Write, Writes
  <2>5. CASE loop[s].task = "vote_ack"
    <3>1. s \in Supporters(d)
      BY <1>1, <2>5 DEF IInv, Sending
    <3>. QED  BY <2>5, <3>1, SMTT(30) DEF Write, Writes
  <2>. QED  BY <2>2, <2>3, <2>4, <2>5
<1>4. \A r, e \in Server : wire'[r][e] \in Seq(Writes(r, e))
  <2>1. wire[s][d] \in Seq(Writes(s, d))
    BY <1>2 DEF IInv, Sending
  <2>2. wire'[s][d] = Append(wire[s][d], Write(s))
    BY <1>0, <1>1, <1>2
  <2>3. wire'[s][d] \in Seq(Writes(s, d))
    BY <1>3, <2>1, <2>2, SMTT(30)
  <2>4. \A r, e \in Server : <<r, e>> # <<s, d>> => wire'[r][e] = wire[r][e]
    BY <1>0, <1>1, <1>2
  <2>. QED
    BY <2>3, <2>4 DEF IInv, Sending
<1>5. /\ \A r \in Server \ {s} : loop'[r] = loop[r]
      /\ loop'[s].pc # "choose" /\ loop'[s].task = loop[s].task
      /\ loop'[s].polling = loop[s].polling /\ loop'[s].to \subseteq loop[s].to
  BY <1>0, <1>1 DEF Thread
<1>. QED
  BY <1>1, <1>4, <1>5, QuietStep

\* Every vote given makes its candidate's supporters more.
LEMMA MoreVotes ==
  ASSUME ElectionTypeOK, votes \subseteq votes'
  PROVE  /\ \A r : Supporters(r) \subseteq Supporters(r)'
         /\ \A r, d \in Server : \A w \in Seq(Writes(r, d)) : w \in Seq(Writes(r, d)')
         /\ \A r \in Server : Majority(Cardinality(Supporters(r))) => Majority(Cardinality(Supporters(r)'))
<1>1. \A r : Supporters(r) \subseteq Supporters(r)'
  BY DEF Supporters
<1>2. \A r, d \in Server : Writes(r, d) \subseteq Writes(r, d)'
  BY <1>1 DEF Writes
<1>3. \A r, d \in Server : \A w \in Seq(Writes(r, d)) : w \in Seq(Writes(r, d)')
  <2>1. \A S, T : S \subseteq T => \A w \in Seq(S) : w \in Seq(T)
    BY SMTT(30)
  <2>. QED
    BY <1>2, <2>1
<1>4. ASSUME NEW r \in Server, Majority(Cardinality(Supporters(r)))
      PROVE  Majority(Cardinality(Supporters(r)'))
  <2>1. IsFiniteSet(Supporters(r)')
    BY ServerFacts, FS_Subset DEF Supporters
  <2>2. Cardinality(Supporters(r)) <= Cardinality(Supporters(r)')
    BY <1>1, <2>1, FS_Subset
  <2>3. Cardinality(Supporters(r)) \in Nat /\ Cardinality(Supporters(r)') \in Nat
    BY <1>1, <2>1, FS_Subset, FS_CardinalityType
  <2>. QED
    BY <1>4, <2>2, <2>3, ServerFacts, SMTT(30) DEF Majority
<1>. QED
  BY <1>1, <1>3, <1>4

\* A vote of s in a later term than its SID, which becomes that of the vote.
LEMMA NewVote ==
  ASSUME IInv, ElectionTypeOK', NEW s \in Server, NEW sid \in Plain, sid.term > ctrl[s].sid.term,
         votes' = votes \cup {[voter |-> s, term |-> sid.term, cand |-> sid.idx]},
         ctrl'[s].sid = sid, \A r \in Server \ {s} : ctrl'[r] = ctrl[r],
         s = FIXED_LEADER => sid.idx = s
  PROVE  LastVote' /\ OneVotePerTerm' /\ FixedLeaderStands' /\ LeaderWasSupported'
<1>. DEFINE new == [voter |-> s, term |-> sid.term, cand |-> sid.idx]
<1>0. /\ \A v \in votes : v.voter \in Server /\ v.term \in Nat
      /\ \A r \in Server : ctrl[r].sid.term \in Nat
      /\ sid.term \in Nat /\ sid.l = 0 /\ new.voter = s /\ new.term = sid.term /\ new.cand = sid.idx
  <2>1. \A r \in Server : ctrl[r].sid.term \in Nat
    BY Typed DEF IInv
  <2>. QED
    BY <2>1 DEF IInv, ElectionTypeOK, Plain, Sid
<1>1. \A v \in votes : v.voter = s => v.term < sid.term
  BY <1>0, SMTT(30) DEF IInv, LastVote
<1>. HIDE DEF new
<1>2. votes' = votes \cup {new}
  BY DEF new
<1>3. LastVote'
  <2>1. ASSUME NEW v \in votes
        PROVE  /\ v.term <= ctrl'[v.voter].sid.term
               /\ v.term = ctrl'[v.voter].sid.term => v.cand = ctrl'[v.voter].sid.idx
    BY <1>0, <1>1, <2>1, SMTT(30) DEF IInv, LastVote
  <2>2. /\ new.term <= ctrl'[new.voter].sid.term
        /\ new.term = ctrl'[new.voter].sid.term => new.cand = ctrl'[new.voter].sid.idx
    BY <1>0, SMTT(30)
  <2>. QED
    BY <1>2, <2>1, <2>2 DEF LastVote
<1>4. OneVotePerTerm'
  BY <1>0, <1>1, <1>2, SMTT(30) DEF IInv, OneVotePerTerm
<1>5. FixedLeaderStands'
  BY <1>0, <1>2 DEF IInv, FixedLeaderStands
<1>6. LeaderWasSupported'
  <2>1. \A r \in Server : Elected(r)' => Elected(r)
    BY <1>0, SMTT(30) DEF Elected
  <2>2. \A r \in Server : Majority(Cardinality(Supporters(r))) => Majority(Cardinality(Supporters(r)'))
    BY <1>2, MoreVotes DEF IInv
  <2>. QED
    BY <2>1, <2>2 DEF IInv, LeaderWasSupported
<1>. QED
  BY <1>3, <1>4, <1>5, <1>6

\* Standing for election keeps the invariant.
LEMMA StartStep ==
  ASSUME IInv, ElectionTypeOK', NEW s \in Server, start_election(s)
  PROVE  IInv'
<1>0. /\ loop[s] \in Thread /\ ctrl[s] \in Control /\ ctrl[s].sid \in Sid /\ ctrl[s].sid.term \in Nat
      /\ ctrl[s].vote_req \in [Server -> Slot]
      /\ loop \in [Server -> Thread] /\ ctrl \in [Server -> Control]
  BY Typed DEF IInv
<1>. DEFINE new_sid == [term |-> NextTerm(s), l |-> 0, idx |-> s]
<1>1. new_sid \in Plain /\ new_sid.term > ctrl[s].sid.term /\ new_sid.idx = s
  BY <1>0, SMTT(30) DEF NextTerm, Plain, Sid
<1>2. /\ ctrl' = [ctrl EXCEPT ![s].hb = {}, ![s].sid = new_sid, ![s].vote_ack = {},
                              ![s].vote_req[s] = [sid |-> new_sid, full |-> TRUE]]
      /\ loop' = [loop EXCEPT ![s].pc = "send", ![s].task = "vote_request",
                              ![s].to = Server \ {s, INIT_LEADER}]
      /\ votes' = votes \cup {[voter |-> s, term |-> new_sid.term, cand |-> new_sid.idx]}
      /\ UNCHANGED wire
  BY DEF start_election
<1>. HIDE DEF new_sid
<1>3. /\ \A r \in Server \ {s} : ctrl'[r] = ctrl[r]
      /\ ctrl'[s].sid = new_sid /\ ctrl'[s].vote_ack = {}
  BY <1>0, <1>2 DEF Control
<1>4. /\ ctrl'[s].vote_req[s].sid = new_sid
      /\ \A i \in Server \ {s} : ctrl'[s].vote_req[i] = ctrl[s].vote_req[i]
  BY <1>0, <1>2 DEF Control
<1>5. /\ \A r \in Server \ {s} : loop'[r] = loop[r]
      /\ loop'[s].pc = "send" /\ loop'[s].task = "vote_request" /\ s \notin loop'[s].to
  BY <1>0, <1>2 DEF Thread
<1>6. LastVote' /\ OneVotePerTerm' /\ FixedLeaderStands' /\ LeaderWasSupported'
  BY <1>1, <1>2, <1>3, NewVote
<1>7. /\ \A r : Supporters(r) \subseteq Supporters(r)'
      /\ \A r, d \in Server : \A w \in Seq(Writes(r, d)) : w \in Seq(Writes(r, d)')
  BY <1>2, MoreVotes DEF IInv
<1>8. Requests'
  <2>1. new_sid.term \in Nat
    BY <1>1 DEF Plain, Sid
  <2>. QED
    BY <1>1, <1>3, <1>4, <2>1, SMTT(30) DEF IInv, Requests
<1>9. Scan'
  BY <1>3, <1>5, SMTT(30) DEF IInv, Scan, At
<1>10. Sending'
  BY <1>2, <1>5, <1>7 DEF IInv, Sending
<1>11. Started'
  <2>. DEFINE v == [voter |-> s, term |-> new_sid.term, cand |-> new_sid.idx]
  <2>0. v \in votes' /\ v.voter = s /\ v.cand = s
    BY <1>1, <1>2
  <2>. HIDE DEF v
  <2>1. s \in Supporters(s)'
    BY <2>0 DEF Supporters
  <2>. QED
    BY <1>3, <1>5, <1>7, <2>1 DEF IInv, Started
<1>. QED
  BY <1>6, <1>8, <1>9, <1>10, <1>11 DEF IInv

\* Counting the votes keeps the invariant.
LEMMA CountStep ==
  ASSUME IInv, ElectionTypeOK', NEW s \in Server, poll_vote_count(s)
  PROVE  IInv'
<1>0. /\ loop[s] \in Thread /\ ctrl[s] \in Control /\ ctrl[s].sid \in Sid /\ ctrl[s].sid.term \in Nat
      /\ ctrl[s].vote_req \in [Server -> Slot]
      /\ loop \in [Server -> Thread] /\ ctrl \in [Server -> Control]
  BY Typed DEF IInv
<1>1. /\ \A r \in Server \ {s} : ctrl'[r] = ctrl[r]
      /\ ctrl'[s].sid = SID_SET_L(ctrl[s].sid)
      /\ ctrl'[s].vote_req = ctrl[s].vote_req /\ ctrl'[s].vote_ack = ctrl[s].vote_ack
  BY <1>0 DEF poll_vote_count, Control
<1>2. /\ \A r \in Server \ {s} : loop'[r] = loop[r]
      /\ loop'[s].pc = "wait" /\ loop'[s].task = loop[s].task /\ loop'[s].to = loop[s].to
      /\ loop'[s].polling = loop[s].polling
  BY <1>0 DEF poll_vote_count, At, Thread
<1>3. UNCHANGED <<wire, votes>>
  BY DEF poll_vote_count
<1>4. \A r : Supporters(r)' = Supporters(r)
  BY <1>3 DEF Supporters
<1>5. \A r, d \in Server : Writes(r, d)' = Writes(r, d)
  BY <1>4 DEF Writes
<1>6. /\ ctrl'[s].sid.l = 1 /\ ctrl'[s].sid.term = ctrl[s].sid.term /\ ctrl'[s].sid.idx = ctrl[s].sid.idx
      /\ ctrl[s].sid.l = 0 /\ ctrl[s].sid.idx = s
  BY <1>0, <1>1, SidFacts, SMTT(30) DEF poll_vote_count, Wins, IS_CANDIDATE
<1>7. Requests'
  BY <1>1, <1>6 DEF IInv, Requests
<1>8. Scan'
  BY <1>1, <1>2, SMTT(30) DEF IInv, Scan, At
<1>9. LastVote' /\ OneVotePerTerm' /\ FixedLeaderStands'
  <2>1. \A v \in votes : v.voter \in Server
    BY DEF IInv, ElectionTypeOK
  <2>. QED
    BY <1>1, <1>3, <1>6, <2>1, SMTT(30) DEF IInv, LastVote, OneVotePerTerm, FixedLeaderStands
<1>10. Sending'
  BY <1>2, <1>3, <1>4, <1>5 DEF IInv, Sending
<1>11. Started'
  BY <1>1, <1>2, <1>4, <1>6 DEF IInv, Started
<1>12. LeaderWasSupported'
  <2>1. s \in Supporters(s) /\ ctrl[s].vote_ack \ {s} \subseteq Supporters(s)
    BY <1>6 DEF IInv, Started
  <2>2. IsFiniteSet(Supporters(s))
    BY ServerFacts, FS_Subset DEF Supporters
  <2>. DEFINE acks == ctrl[s].vote_ack \ {s}
  <2>3. IsFiniteSet(acks)
    BY <2>1, <2>2, FS_Subset
  <2>4. Cardinality(acks \cup {s}) = Cardinality(acks) + 1
    BY <2>3, FS_AddElement
  <2>5. Cardinality(acks \cup {s}) <= Cardinality(Supporters(s))
    BY <2>1, <2>2, FS_Subset
  <2>6. Majority(1 + Cardinality(acks))
    BY DEF poll_vote_count, Wins, VoteCount
  <2>7. Cardinality(acks) \in Nat /\ Cardinality(Supporters(s)) \in Nat
    BY <2>2, <2>3, FS_CardinalityType
  <2>. HIDE DEF acks
  <2>8. Majority(Cardinality(Supporters(s)))
    BY <2>4, <2>5, <2>6, <2>7, ServerFacts, SMTT(30) DEF Majority
  <2>9. \A r \in Server \ {s} : Elected(r)' => Elected(r)
    BY <1>1 DEF Elected
  <2>. QED
    BY <1>4, <2>8, <2>9 DEF IInv, LeaderWasSupported
<1>. QED
  BY <1>7, <1>8, <1>9, <1>10, <1>11, <1>12 DEF IInv

\* A step that leaves the SIDs, the votes and what the threads send alone.
LEMMA CalmStep ==
  ASSUME IInv, ElectionTypeOK', votes' = votes, Requests', Scan',
         \A r \in Server : /\ ctrl'[r].sid = ctrl[r].sid
                           /\ ctrl'[r].vote_ack \subseteq ctrl[r].vote_ack \cup Supporters(r),
         \A r \in Server : /\ loop'[r].task = loop[r].task /\ loop'[r].to = loop[r].to
                           /\ loop'[r].polling = loop[r].polling,
         \A r, d \in Server : wire'[r][d] \in Seq(Writes(r, d))
  PROVE  IInv'
<1>1. /\ LastVote' /\ OneVotePerTerm' /\ FixedLeaderStands' /\ LeaderWasSupported'
      /\ \A r \in Server : Supporters(r)' = Supporters(r)
      /\ \A r, d \in Server : Writes(r, d)' = Writes(r, d)
  BY VotesFrame
<1>2. Sending'
  <2>1. \A r \in Server : loop[r].to \subseteq Server
    BY DEF IInv, ElectionTypeOK, Thread
  <2>. QED
    BY <1>1, <2>1, SMTT(30) DEF IInv, Sending
<1>3. Started'
  BY <1>1 DEF IInv, Started
<1>. QED
  BY <1>1, <1>2, <1>3 DEF IInv

\* Requests carry no leader flag: one that is not below an SID with it is of a later term.
LEMMA BelowFacts ==
  ASSUME NEW x \in Sid, NEW y \in Plain
  PROVE  /\ y.term \in Nat /\ x.term \in Nat
         /\ ~Below(y, SID_SET_L(x)) => y.term > x.term
         /\ Below(SID_SET_L(x), y) => y.term > x.term
         /\ ~Below(y, x) => y.term >= x.term
<1>1. x.term \in Nat /\ y.term \in Nat /\ y.l = 0 /\ x.idx \in Nat /\ y.idx \in Nat /\ x.l \in {0, 1}
  BY ServerFacts DEF Plain, Sid
<1>2. SID_SET_L(x).l = 1 /\ SID_SET_L(x).term = x.term
  BY SidFacts
<1>. QED
  BY <1>1, <1>2, SMTT(30) DEF Below

\* Starting to read the vote requests keeps the invariant.
LEMMA RequestsStep ==
  ASSUME IInv, ElectionTypeOK', NEW s \in Server, poll_vote_requests(s)
  PROVE  IInv'
<1>0. /\ loop[s] \in Thread /\ ctrl[s] \in Control /\ ctrl[s].sid \in Sid /\ ctrl[s].sid.term \in Nat
      /\ ctrl[s].vote_req \in [Server -> Slot]
      /\ loop \in [Server -> Thread] /\ ctrl \in [Server -> Control]
  BY Typed DEF IInv
<1>1. /\ \A r \in Server \ {s} : ctrl'[r] = ctrl[r]
      /\ ctrl'[s].sid = ctrl[s].sid /\ ctrl'[s].vote_ack = ctrl[s].vote_ack
      /\ ctrl'[s].vote_req = [i \in Server |-> IF i = s \/ i \in Kept(s)
                                THEN ctrl[s].vote_req[i] ELSE [ctrl[s].vote_req[i] EXCEPT !.sid = NoSid]]
  BY <1>0 DEF poll_vote_requests, Control
<1>2. \A i \in Server : ctrl'[s].vote_req[i].sid \in {ctrl[s].vote_req[i].sid, NoSid}
  BY <1>0, <1>1 DEF Slot
<1>3. Requests'
  <2>1. ctrl'[s].vote_req[s].sid = ctrl[s].vote_req[s].sid
    BY <1>1
  <2>2. (\A r \in Server \ {s} : ctrl'[r] = ctrl[r]) /\ ctrl'[s].sid = ctrl[s].sid
    BY <1>1
  <2>3. NoSid \in Plain
    BY SidFacts
  <2>. QED
    BY <1>2, <2>1, <2>2, <2>3, SMTT(30) DEF IInv, Requests
<1>4. UNCHANGED <<wire, votes>> /\ \A r, d \in Server : wire'[r][d] \in Seq(Writes(r, d))
  BY DEF poll_vote_requests, IInv, Sending
<1>5. CASE UNCHANGED loop
  <2>1. Scan'
    BY <1>1, <1>5, SMTT(30) DEF IInv, Scan, At
  <2>. QED
    BY <1>1, <1>3, <1>4, <1>5, <2>1, CalmStep
<1>6. CASE ~UNCHANGED loop
  <2>1. PICK i \in Kept(s) :
          loop' = [loop EXCEPT ![s].pc = "choose", ![s].at = 0,
                               ![s].best = SID_SET_L(ctrl[s].sid),
                               ![s].rank = LogRank(s),
                               ![s].high = ctrl[s].vote_req[i].sid.term]
    BY <1>6 DEF poll_vote_requests
  <2>2. /\ loop'[s].best = SID_SET_L(ctrl[s].sid) /\ loop'[s].rank = LogRank(s)
        /\ loop'[s].high = ctrl[s].vote_req[i].sid.term
        /\ \A r \in Server \ {s} : loop'[r] = loop[r]
    BY <1>0, <2>1 DEF Thread
  <2>3. loop'[s].task = loop[s].task /\ loop'[s].to = loop[s].to /\ loop'[s].polling = loop[s].polling
    BY <1>0, <2>1 DEF Thread
  <2>4. ctrl[s].vote_req[i].sid.term > ctrl[s].sid.term
    <3>1. Below(SID_SET_L(ctrl[s].sid), ctrl[s].vote_req[i].sid) /\ i \in Server
      BY <2>1 DEF Kept
    <3>2. ctrl[s].vote_req[i].sid \in Plain
      BY <3>1 DEF IInv, Requests
    <3>. QED
      BY <1>0, <3>1, <3>2, BelowFacts
  <2>5. ctrl[s].sid.l = 0 /\ (s = FIXED_LEADER => LogRank(s) = 2)
    BY DEF poll_vote_requests, LogRank
  <2>6. Scan'
    BY <1>1, <2>2, <2>4, <2>5, SMTT(30) DEF IInv, Scan, At
  <2>. QED
    BY <1>1, <1>3, <1>4, <2>2, <2>3, <2>6, CalmStep
<1>. QED  BY <1>5, <1>6

\* Looking at one vote request keeps the invariant.
LEMMA ConsiderStep ==
  ASSUME IInv, ElectionTypeOK', NEW s \in Server, Consider(s)
  PROVE  IInv'
<1>0. /\ loop[s] \in Thread /\ ctrl[s] \in Control /\ ctrl[s].sid \in Sid /\ ctrl[s].sid.term \in Nat
      /\ ctrl[s].vote_req \in [Server -> Slot]
      /\ loop \in [Server -> Thread] /\ ctrl \in [Server -> Control]
  BY Typed DEF IInv
<1>. DEFINE i == loop[s].at
            request == ctrl[s].vote_req[i]
            drop == Below(request.sid, loop[s].best)
            like == ~drop /\ loop[s].rank <= Rank(i, request)
            higher == ~drop /\ loop[s].high < request.sid.term
            sid == IF drop \/ like THEN NoSid ELSE request.sid
            best == IF like THEN request.sid ELSE loop[s].best
            rank == IF like THEN Rank(i, request) ELSE loop[s].rank
            high == IF higher THEN request.sid.term ELSE loop[s].high
<1>1. i \in Server
  <2>1. loop[s].at \in 0 .. Size
    BY <1>0 DEF Thread
  <2>2. loop[s].at < Size
    BY DEF Consider
  <2>. QED
    BY <2>1, <2>2, ServerFacts, SMTT(30) DEF Server
<1>2. request.sid \in Plain /\ request.sid.term \in Nat /\ loop[s].high \in Nat /\ loop[s].best \in Sid
  <2>1. request.sid \in Plain
    BY <1>1 DEF IInv, Requests
  <2>. QED
    BY <1>0, <2>1 DEF Plain, Sid, Thread
<1>3. /\ ctrl' = [ctrl EXCEPT ![s].vote_req[i].sid = sid]
      /\ loop' = [loop EXCEPT ![s].at = i + 1, ![s].best = best, ![s].rank = rank, ![s].high = high]
      /\ UNCHANGED <<wire, votes>>
  BY DEF Consider
<1>4. /\ ctrl[s].sid.l = 0
      /\ loop[s].high > ctrl[s].sid.term
      /\ \/ loop[s].best = SID_SET_L(ctrl[s].sid)
         \/ s # FIXED_LEADER /\ loop[s].best \in Plain /\ loop[s].best.term > ctrl[s].sid.term
      /\ s = FIXED_LEADER => loop[s].rank = 2
  BY DEF IInv, Scan, Consider
<1>5. ~drop => request.sid.term > ctrl[s].sid.term
  <2>1. CASE loop[s].best = SID_SET_L(ctrl[s].sid)
    BY <1>0, <1>2, <2>1, BelowFacts
  <2>2. CASE loop[s].best.term > ctrl[s].sid.term
    <3>1. ~drop => request.sid.term >= loop[s].best.term
      BY <1>2, BelowFacts
    <3>2. loop[s].best.term \in Nat
      BY <1>2 DEF Sid
    <3>. QED
      BY <1>0, <1>2, <2>2, <3>1, <3>2, SMTT(30)
  <2>. QED
    BY <1>4, <2>1, <2>2
<1>6. s = FIXED_LEADER => ~like
  <2>. SUFFICES ASSUME s = FIXED_LEADER, like PROVE FALSE
    OBVIOUS
  <2>1. i = s
    BY <1>4, SMTT(30) DEF Rank, LogRank
  <2>2. request.sid.term <= ctrl[s].sid.term
    BY <2>1 DEF IInv, Requests
  <2>. QED
    BY <1>0, <1>2, <1>5, <2>2, SMTT(30)
<1>7. /\ high > ctrl[s].sid.term /\ sid \in {NoSid, request.sid}
      /\ \/ best = SID_SET_L(ctrl[s].sid)
         \/ s # FIXED_LEADER /\ best \in Plain /\ best.term > ctrl[s].sid.term
      /\ s = FIXED_LEADER => rank = 2
  <2>1. high > ctrl[s].sid.term
    BY <1>0, <1>2, <1>4, SMTT(30)
  <2>. HIDE DEF drop, i, request
  <2>. QED
    BY <1>2, <1>4, <1>5, <1>6, <2>1
<1>. HIDE DEF best, rank, high, sid, drop, like, higher
<1>8. /\ \A r \in Server \ {s} : ctrl'[r] = ctrl[r]
      /\ ctrl'[s].sid = ctrl[s].sid /\ ctrl'[s].vote_ack = ctrl[s].vote_ack
  BY <1>0, <1>3 DEF Control
<1>9. \A j \in Server : ctrl'[s].vote_req[j].sid = (IF j = i THEN sid ELSE ctrl[s].vote_req[j].sid)
  BY <1>0, <1>1, <1>3, SMTT(30) DEF Control, Slot
<1>10. /\ \A r \in Server \ {s} : loop'[r] = loop[r]
       /\ loop'[s].best = best /\ loop'[s].rank = rank /\ loop'[s].high = high
  BY <1>0, <1>3 DEF Thread
<1>11. loop'[s].task = loop[s].task /\ loop'[s].to = loop[s].to /\ loop'[s].polling = loop[s].polling
  BY <1>0, <1>3 DEF Thread
<1>12. Requests'
  <2>. HIDE DEF i, request
  <2>1. \A j \in Server : ctrl'[s].vote_req[j].sid \in {NoSid, ctrl[s].vote_req[j].sid}
    BY <1>7, <1>9 DEF request
  <2>2. NoSid.term = 0 /\ NoSid \in Plain
    BY SidFacts DEF NoSid
  <2>. QED
    BY <1>0, <1>8, <2>1, <2>2, SMTT(30) DEF IInv, Requests
<1>13. Scan'
  BY <1>4, <1>7, <1>8, <1>10, SMTT(30) DEF IInv, Scan, At
<1>14. \A r, d \in Server : wire'[r][d] \in Seq(Writes(r, d))
  BY <1>3 DEF IInv, Sending
<1>. QED
  BY <1>3, <1>8, <1>10, <1>11, <1>12, <1>13, <1>14, CalmStep

\* What Idle leaves alone.
LEMMA IdleFacts ==
  ASSUME NEW t \in Thread
  PROVE  /\ Idle(t).pc = "wait" /\ Idle(t).task = t.task /\ Idle(t).to = t.to
         /\ Idle(t).polling = t.polling
  BY DEF Idle, Thread

\* Raising the term keeps the invariant.
LEMMA RaiseStep ==
  ASSUME IInv, ElectionTypeOK', NEW s \in Server, RaiseTerm(s)
  PROVE  IInv'
<1>0. /\ loop[s] \in Thread /\ ctrl[s] \in Control /\ ctrl[s].sid \in Sid /\ ctrl[s].sid.term \in Nat
      /\ ctrl[s].vote_req \in [Server -> Slot]
      /\ loop \in [Server -> Thread] /\ ctrl \in [Server -> Control]
  BY Typed DEF IInv
<1>1. loop[s].high > ctrl[s].sid.term /\ ctrl[s].sid.l = 0 /\ loop[s].high \in Nat
  BY <1>0 DEF IInv, Scan, RaiseTerm, Chosen, Thread
<1>2. /\ \A r \in Server \ {s} : ctrl'[r] = ctrl[r]
      /\ ctrl'[s].sid.term = loop[s].high /\ ctrl'[s].sid.l = 0
      /\ ctrl'[s].vote_req = ctrl[s].vote_req /\ ctrl'[s].vote_ack = ctrl[s].vote_ack
  BY <1>0, <1>1 DEF RaiseTerm, Control, Sid
<1>3. loop' = [loop EXCEPT ![s] = Idle(loop[s])] /\ UNCHANGED <<wire, votes>>
  BY DEF RaiseTerm
<1>4. /\ \A r \in Server \ {s} : loop'[r] = loop[r]
      /\ loop'[s].pc = "wait" /\ loop'[s].task = loop[s].task /\ loop'[s].to = loop[s].to
      /\ loop'[s].polling = loop[s].polling
  BY <1>0, <1>3, IdleFacts
<1>5. \A r : Supporters(r)' = Supporters(r)
  BY <1>3 DEF Supporters
<1>6. \A r, d \in Server : Writes(r, d)' = Writes(r, d)
  BY <1>5 DEF Writes
<1>7. Requests'
  <2>1. ctrl[s].vote_req[s].sid.term \in Nat
    BY DEF IInv, Requests, Plain, Sid
  <2>. QED
    BY <1>0, <1>1, <1>2, <2>1, SMTT(30) DEF IInv, Requests
<1>8. Scan'
  BY <1>2, <1>4, SMTT(30) DEF IInv, Scan, At
<1>9. LastVote' /\ OneVotePerTerm' /\ FixedLeaderStands'
  <2>1. \A v \in votes : v.voter \in Server /\ v.term \in Nat
    BY DEF IInv, ElectionTypeOK
  <2>2. LastVote'
    BY <1>0, <1>1, <1>2, <1>3, <2>1, SMTT(30) DEF IInv, LastVote
  <2>. QED
    BY <1>3, <2>2 DEF IInv, OneVotePerTerm, FixedLeaderStands
<1>10. Sending'
  BY <1>3, <1>4, <1>5, <1>6, SMTT(30) DEF IInv, Sending
<1>11. Started'
  BY <1>1, <1>2, <1>4, <1>5, SMTT(30) DEF IInv, Started
<1>12. LeaderWasSupported'
  <2>1. \A r \in Server : Elected(r)' => Elected(r)
    BY <1>2, SMTT(30) DEF Elected
  <2>. QED
    BY <1>5, <2>1 DEF IInv, LeaderWasSupported
<1>. QED
  BY <1>7, <1>8, <1>9, <1>10, <1>11, <1>12 DEF IInv

\* Voting keeps the invariant.
LEMMA VoteStep ==
  ASSUME IInv, ElectionTypeOK', NEW s \in Server, Vote(s)
  PROVE  IInv'
<1>0. /\ loop[s] \in Thread /\ ctrl[s] \in Control /\ ctrl[s].sid \in Sid /\ ctrl[s].sid.term \in Nat
      /\ ctrl[s].vote_req \in [Server -> Slot]
      /\ loop \in [Server -> Thread] /\ ctrl \in [Server -> Control]
  BY Typed DEF IInv
<1>. DEFINE best == loop[s].best
            v == [voter |-> s, term |-> best.term, cand |-> best.idx]
<1>1. /\ ctrl[s].sid.l = 0 /\ s # FIXED_LEADER
      /\ best \in Plain /\ best.term > ctrl[s].sid.term
  BY DEF IInv, Scan, Vote, Chosen
<1>2. best.term \in Nat
  BY <1>1 DEF Plain, Sid
<1>3. /\ ctrl' = [ctrl EXCEPT ![s].sid = best]
      /\ loop' = [loop EXCEPT ![s] = [Idle(@) EXCEPT !.pc = "send", !.task = "vote_ack", !.to = {best.idx}]]
      /\ votes' = votes \cup {v} /\ UNCHANGED wire
  BY DEF Vote
<1>4. /\ \A r \in Server \ {s} : ctrl'[r] = ctrl[r]
      /\ ctrl'[s].sid = best /\ ctrl'[s].vote_req = ctrl[s].vote_req /\ ctrl'[s].vote_ack = ctrl[s].vote_ack
  BY <1>0, <1>3 DEF Control
<1>5. /\ \A r \in Server \ {s} : loop'[r] = loop[r]
      /\ loop'[s].pc = "send" /\ loop'[s].task = "vote_ack" /\ loop'[s].to = {best.idx}
      /\ loop'[s].polling = loop[s].polling
  <2>1. Idle(loop[s]) \in Thread /\ Idle(loop[s]).polling = loop[s].polling
    BY <1>0, IdleType, IdleFacts
  <2>. QED
    BY <1>0, <1>3, <2>1 DEF Thread
<1>6. v \in votes' /\ v.voter = s /\ v.cand = best.idx
  BY <1>3
<1>7. LastVote' /\ OneVotePerTerm' /\ FixedLeaderStands' /\ LeaderWasSupported'
  <2>. HIDE DEF best
  <2>. QED
    BY <1>1, <1>3, <1>4, NewVote
<1>. HIDE DEF best, v
<1>8. /\ \A r : Supporters(r) \subseteq Supporters(r)'
      /\ \A r, d \in Server : \A w \in Seq(Writes(r, d)) : w \in Seq(Writes(r, d)')
  BY <1>3, MoreVotes DEF IInv
<1>9. \A d \in loop'[s].to : s \in Supporters(d)'
  <2>1. ASSUME NEW d, d = best.idx PROVE s \in Supporters(d)'
    BY <1>6, <2>1 DEF Supporters
  <2>. QED
    BY <1>5, <2>1
<1>10. Requests'
  <2>1. ctrl[s].vote_req[s].sid.term \in Nat
    BY DEF IInv, Requests, Plain, Sid
  <2>. QED
    BY <1>0, <1>1, <1>2, <1>4, <2>1, SMTT(30) DEF IInv, Requests
<1>11. Scan'
  BY <1>4, <1>5, SMTT(30) DEF IInv, Scan, At
<1>12. Sending'
  BY <1>3, <1>5, <1>8, <1>9, SMTT(30) DEF IInv, Sending
<1>13. Started'
  BY <1>1, <1>4, <1>5, <1>8, SMTT(30) DEF IInv, Started
<1>. QED
  BY <1>7, <1>10, <1>11, <1>12, <1>13 DEF IInv

\* A write that lands keeps the invariant.
LEMMA LandStep ==
  ASSUME IInv, ElectionTypeOK', NEW s \in Server, NEW d \in Server, Land(s, d)
  PROVE  IInv'
<1>0. /\ ctrl \in [Server -> Control] /\ ctrl[d] \in Control /\ ctrl[d].vote_req \in [Server -> Slot]
      /\ wire \in [Server -> [Server -> Seq(WriteType)]]
  BY Typed DEF IInv
<1>. DEFINE W == wire[s][d]
            m == Head(W)
            torn == m.kind = "vote_request" /\ ~ctrl[d].vote_req[s].full
            rest == IF torn THEN <<[kind |-> "rest"]>> \o Tail(W) ELSE Tail(W)
<1>1. W \in Seq(Writes(s, d)) /\ W # <<>>
  BY DEF IInv, Sending, Land
<1>2. m \in Writes(s, d) /\ Tail(W) \in Seq(Writes(s, d))
  BY <1>1, SMTT(30)
<1>3. wire' = [wire EXCEPT ![s][d] = rest] /\ UNCHANGED <<loop, votes>>
  BY DEF Land
<1>4. m.kind \in {"hb", "rest", "vote_request", "vote_ack"}
  BY <1>2 DEF Writes
<1>5. m.kind = "vote_request" => s # d /\ m.sid \in Plain
  BY <1>2 DEF Writes
<1>6. m.kind = "vote_ack" => s \in Supporters(d)
  BY <1>2 DEF Writes
<1>7. rest \in Seq(Writes(s, d))
  <2>1. CASE torn
    <3>1. [kind |-> "rest"] \in Writes(s, d)
      BY <1>5, <2>1 DEF Writes
    <3>. HIDE DEF W
    <3>. QED  BY <1>2, <2>1, <3>1, SMTT(30)
  <2>2. CASE ~torn
    BY <1>2, <2>2
  <2>. QED  BY <2>1, <2>2
<1>. HIDE DEF rest
<1>8. \A r, e \in Server : wire'[r][e] \in Seq(Writes(r, e))
  <2>1. wire'[s][d] = rest /\ \A r, e \in Server : <<r, e>> # <<s, d>> => wire'[r][e] = wire[r][e]
    BY <1>0, <1>3
  <2>. QED
    BY <1>7, <2>1 DEF IInv, Sending
<1>9. /\ \A r \in Server \ {d} : ctrl'[r] = ctrl[r]
      /\ ctrl'[d].sid = ctrl[d].sid
      /\ ctrl'[d].vote_ack \subseteq ctrl[d].vote_ack \cup Supporters(d)
      /\ \A i \in Server : ctrl'[d].vote_req[i].sid = ctrl[d].vote_req[i].sid
                           \/ (i # d /\ ctrl'[d].vote_req[i].sid \in Plain)
  <2>1. CASE m.kind = "hb"
    <3>1. ctrl' = [ctrl EXCEPT ![d].hb = @ \cup {s}]
      BY <2>1 DEF Land
    <3>2. \A r \in Server \ {d} : ctrl'[r] = ctrl[r]
      BY <1>0, <3>1
    <3>3. /\ ctrl'[d].sid = ctrl[d].sid /\ ctrl'[d].vote_ack = ctrl[d].vote_ack
          /\ ctrl'[d].vote_req = ctrl[d].vote_req
      BY <1>0, <3>1 DEF Control
    <3>. QED  BY <3>2, <3>3
  <2>2. CASE m.kind = "vote_request"
    <3>1. ctrl' = [ctrl EXCEPT ![d].vote_req[s].sid = m.sid]
      BY <2>2 DEF Land
    <3>. HIDE DEF m
    <3>2. \A i \in Server : ctrl'[d].vote_req[i].sid = IF i = s THEN m.sid ELSE ctrl[d].vote_req[i].sid
      BY <1>0, <3>1, SMTT(30) DEF Control, Slot
    <3>3. (\A r \in Server \ {d} : ctrl'[r] = ctrl[r]) /\ ctrl'[d].sid = ctrl[d].sid /\ ctrl'[d].vote_ack = ctrl[d].vote_ack
      BY <1>0, <3>1 DEF Control
    <3>. QED  BY <1>5, <2>2, <3>2, <3>3
  <2>3. CASE m.kind = "rest"
    <3>1. ctrl' = [ctrl EXCEPT ![d].vote_req[s].full = TRUE]
      BY <2>3 DEF Land
    <3>2. \A i \in Server : ctrl'[d].vote_req[i].sid = ctrl[d].vote_req[i].sid
      BY <1>0, <3>1, SMTT(30) DEF Control, Slot
    <3>3. (\A r \in Server \ {d} : ctrl'[r] = ctrl[r]) /\ ctrl'[d].sid = ctrl[d].sid /\ ctrl'[d].vote_ack = ctrl[d].vote_ack
      BY <1>0, <3>1 DEF Control
    <3>. QED  BY <3>2, <3>3
  <2>4. CASE m.kind = "vote_ack"
    <3>1. ctrl' = [ctrl EXCEPT ![d].vote_ack = IF m.len THEN @ \ {s} ELSE @ \cup {s}]
      BY <2>4 DEF Land
    <3>. QED  BY <1>0, <1>6, <2>4, <3>1 DEF Control
  <2>. QED  BY <1>4, <2>1, <2>2, <2>3, <2>4
<1>10. Requests'
  BY <1>9 DEF IInv, Requests
<1>11. Scan'
  BY <1>3, <1>9 DEF IInv, Scan, At
<1>. QED
  BY <1>3, <1>8, <1>9, <1>10, <1>11, CalmStep

\* Every step keeps the invariant.
LEMMA IInvStep == IInv /\ [ElectionNext]_electionVars => IInv'
<1>. SUFFICES ASSUME IInv, [ElectionNext]_electionVars PROVE IInv'
  OBVIOUS
<1>0. ElectionTypeOK'
  BY TypeStep DEF IInv
<1>1. ASSUME NEW s \in Server, ServerNext(s) PROVE IInv'
  BY <1>0, <1>1, HeartbeatStep, StartStep, CountStep, RequestsStep, ConsiderStep, RaiseStep, VoteStep, PostStep
    DEF ServerNext
<1>2. ASSUME NEW s \in Server, FirstEntry(s) PROVE IInv'
  <2>1. UNCHANGED <<ctrl, loop, wire, votes>>
    BY <1>2 DEF FirstEntry
  <2>2. Requests' /\ Scan' /\ \A r, d \in Server : wire'[r][d] \in Seq(Writes(r, d))
    BY <2>1 DEF IInv, Requests, Scan, At, Sending
  <2>. QED
    BY <1>0, <2>1, <2>2, CalmStep
<1>3. ASSUME NEW s \in Server, NEW d \in Server, Land(s, d) PROVE IInv'
  BY <1>0, <1>3, LandStep
<1>4. CASE UNCHANGED electionVars
  <2>1. UNCHANGED <<ctrl, loop, wire, votes>>
    BY <1>4 DEF electionVars
  <2>2. Requests' /\ Scan' /\ \A r, d \in Server : wire'[r][d] \in Seq(Writes(r, d))
    BY <2>1 DEF IInv, Requests, Scan, At, Sending
  <2>. QED
    BY <1>0, <2>1, <2>2, CalmStep
<1>. QED
  BY <1>1, <1>2, <1>3, <1>4 DEF ElectionNext

\* The callbacks of dare_server.c keep the invariant, in any order and with any
\* writes landing in between.
THEOREM ElectionInvariant == ElectionSpec => []IInv
  BY InitIInv, IInvStep, PTL DEF ElectionSpec

-----------------------------------------------------------------------------
\* However requests land while poll_vote_requests scans them, and whatever is lost,
\* late or torn, no server of a group of any size supports two candidates in one
\* term: a vote is always for a later term than any vote before it.
THEOREM NoDoubleVote == ElectionSpec => []OneVotePerTerm
<1>1. IInv => OneVotePerTerm
  BY DEF IInv
<1>. QED
  BY <1>1, ElectionInvariant, PTL

\* start_election, poll_vote_count, and both ends of poll_vote_requests only move
\* the SID of a server up.
THEOREM SidsGrow == ElectionSpec => SidGrows
<1>1. IInv /\ IInv' /\ [ElectionNext]_electionVars =>
        [\A s \in Server : ~Below(ctrl'[s].sid, ctrl[s].sid)]_electionVars
  <2>. SUFFICES ASSUME IInv, IInv', ElectionNext, NEW s \in Server
                PROVE  ~Below(ctrl'[s].sid, ctrl[s].sid)
    OBVIOUS
  <2>0. ctrl[s].sid \in Sid /\ ctrl'[s].sid \in Sid
    BY DEF IInv, ElectionTypeOK
  <2>1. /\ ctrl[s].sid.term \in Nat /\ ctrl[s].sid.l \in {0, 1} /\ ctrl[s].sid.idx \in Nat
        /\ ctrl'[s].sid.term \in Nat /\ ctrl'[s].sid.l \in {0, 1} /\ ctrl'[s].sid.idx \in Nat
    BY <2>0, ServerFacts DEF Sid
  <2>2. SUFFICES \/ ctrl'[s].sid = ctrl[s].sid
                 \/ ctrl'[s].sid = SID_SET_L(ctrl[s].sid)
                 \/ ctrl'[s].sid.term > ctrl[s].sid.term
    <3>1. SID_SET_L(ctrl[s].sid).l = 1 /\ SID_SET_L(ctrl[s].sid).term = ctrl[s].sid.term
          /\ SID_SET_L(ctrl[s].sid).idx = ctrl[s].sid.idx
      BY <2>0, SidFacts
    <3>. QED
      BY <2>1, <2>2, <3>1, SMTT(30) DEF Below
  <2>3. ctrl \in [Server -> Control]
    BY Typed DEF IInv
  <2>4. PICK r \in Server : ServerNext(r) \/ FirstEntry(r) \/ \E d \in Server : Land(r, d)
    BY DEF ElectionNext
  <2>5. CASE start_election(r)
    <3>1. r = s => ctrl'[s].sid = [term |-> NextTerm(s), l |-> 0, idx |-> s]
      BY <2>3, <2>5, SMTT(30) DEF start_election, Control
    <3>2. r # s => ctrl'[s] = ctrl[s]
      BY <2>3, <2>5 DEF start_election, Control
    <3>. QED
      BY <2>1, <3>1, <3>2, SMTT(30) DEF NextTerm
  <2>6. CASE poll_vote_count(r)
    BY <2>3, <2>6, SMTT(30) DEF poll_vote_count, Control
  <2>7. CASE RaiseTerm(r)
    <3>1. loop[r].high > ctrl[r].sid.term
      BY <2>7 DEF IInv, Scan, RaiseTerm, Chosen
    <3>2. ctrl[r].sid \in Sid
      BY DEF IInv, ElectionTypeOK
    <3>. QED
      BY <2>3, <2>7, <3>1, <3>2, SMTT(30) DEF RaiseTerm, Control, Sid
  <2>8. CASE Vote(r)
    <3>1. loop[r].best.term > ctrl[r].sid.term
      BY <2>8 DEF IInv, Scan, Vote, Chosen
    <3>. QED
      BY <2>3, <2>8, <3>1, SMTT(30) DEF Vote, Control
  <2>9. CASE poll_vote_requests(r)
    BY <2>3, <2>9, SMTT(30) DEF poll_vote_requests, Control
  <2>10. CASE Consider(r)
    <3>1. PICK i, x : ctrl' = [ctrl EXCEPT ![r].vote_req[i].sid = x]
      BY <2>10 DEF Consider
    <3>. QED
      BY <2>3, <3>1, SMTT(30) DEF Control
  <2>11. CASE HeartbeatSeen(r)
    BY <2>3, <2>11, SMTT(30) DEF HeartbeatSeen, Control
  <2>12. CASE \/ hb_send_cb(r) \/ ReadHeartbeats(r) \/ Post(r) \/ PostFails(r) \/ Polled(r) \/ Return(r)
              \/ FirstEntry(r)
    BY <2>12 DEF hb_send_cb, ReadHeartbeats, Post, PostFails, Polled, Return, FirstEntry
  <2>13. ASSUME NEW d \in Server, Land(r, d) PROVE ctrl'[s].sid = ctrl[s].sid
    <3>. DEFINE m == Head(wire[r][d])
    <3>1. wire[r][d] \in Seq(Writes(r, d)) /\ wire[r][d] # <<>>
      BY <2>13 DEF IInv, Sending, Land
    <3>2. m \in Writes(r, d)
      BY <3>1, SMTT(30)
    <3>3. m.kind \in {"hb", "rest", "vote_request", "vote_ack"}
      BY <3>2 DEF Writes
    <3>4. CASE m.kind = "hb"
      BY <2>3, <2>13, <3>4, SMTT(30) DEF Land, Control
    <3>5. CASE m.kind = "rest"
      BY <2>3, <2>13, <3>5, SMTT(30) DEF Land, Control
    <3>6. CASE m.kind = "vote_request"
      BY <2>3, <2>13, <3>6, SMTT(30) DEF Land, Control
    <3>7. CASE m.kind = "vote_ack"
      BY <2>3, <2>13, <3>7, SMTT(30) DEF Land, Control
    <3>. QED
      BY <3>3, <3>4, <3>5, <3>6, <3>7
  <2>. QED
    BY <2>4, <2>5, <2>6, <2>7, <2>8, <2>9, <2>10, <2>11, <2>12, <2>13, SMTT(30) DEF ServerNext
<1>. QED
  BY <1>1, ElectionInvariant, PTL DEF ElectionSpec, SidGrows

\* Who poll_vote_count makes leader has had the support of a majority of the group:
\* the vote_ack it counts were all sent to it, after start_election cleared those
\* that log_new left.
THEOREM LeadersWereSupported == ElectionSpec => []LeaderWasSupported
<1>1. IInv => LeaderWasSupported
  BY DEF IInv
<1>. QED
  BY <1>1, ElectionInvariant, PTL

\* FIXED_LEADER, whose requests claim the better log, supports nobody else: the
\* second loop of poll_vote_requests never finds a request it likes better.
THEOREM FixedLeaderNeverYields == ElectionSpec => []FixedLeaderStands
<1>1. IInv => FixedLeaderStands
  BY DEF IInv
<1>. QED
  BY <1>1, ElectionInvariant, PTL
=============================================================================
