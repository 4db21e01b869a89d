------------------------------- MODULE Output -------------------------------
(***************************************************************************)
(* Output checking (output/output.c, output/decision.c and mgr_on_check of *)
(* ev_mgr/ev_mgr.c) for one connection of a group: every node hashes what  *)
(* its application writes, block by block; every CHECK_PERIOD-th write of  *)
(* the leader that completes a block proposes a P_OUTPUT with the index of *)
(* an older hash, the replicas put their hash into their ack, and the      *)
(* leader compares what has landed and sends restore commands to guard.py. *)
(* crc64 is taken as collision free: the hash is what was hashed.          *)
(* A node's output is an element of Streams: it is the application that    *)
(* may diverge.  How a node groups its output into writes is its own.      *)
(* The ack slots of a P_OUTPUT hold no hash when it is proposed, which is  *)
(* so in the first lap of the log: the leader never clears them, and later *)
(* prepare_peer_array may find the hashes of an entry it has overwritten.  *)
(***************************************************************************)
EXTENDS Decision, Sequences

CONSTANTS
    GroupSize, LeaderId,
    HASH_BUFFER_SIZE, CHECK_PERIOD, CHECK_GOBACK,
    Streams,    \* the outputs an application may produce
    WriteSizes  \* how many bytes one write may have

ASSUME OutputAssumption ==
    /\ GroupSize \in Nat \ {0} /\ LeaderId \in 0..(GroupSize - 1)
    /\ HASH_BUFFER_SIZE \in Nat \ {0} /\ CHECK_PERIOD \in Nat \ {0}
    /\ CHECK_GOBACK \in Nat \ {0} /\ WriteSizes \subseteq Nat \ {0}
    /\ Streams \subseteq Seq(0..255)

Peer == 0..(GroupSize - 1)

VARIABLES
    stream,     \* what each node's application outputs, in the end
    written,    \* how many bytes of it have been written
    handler,    \* the output_handler_t of the connection, or NoHandler
    asked,      \* the P_OUTPUT under way: [index, answered,
                \* sent, landed], or NoCheck
    pending,    \* threads in call_send_restore_cmd_start: [node, index]
    guard,      \* the restore commands guard.py has received
    decided     \* history: the last decision [hash, nodes]

outputVars == <<stream, written, handler, asked, pending, guard, decided>>

NoHandler == [none |-> TRUE]
NoCheck == [none |-> TRUE]

new_output_handler ==
    [output_list |-> <<>>, hash |-> NoHash, hash_buffer |-> <<>>, called_cnt |-> 0]

OutputInit ==
    /\ stream \in [Peer -> Streams]
    /\ written = [n \in Peer |-> 0]
    /\ handler = [n \in Peer |-> NoHandler]
    /\ asked = NoCheck
    /\ pending = {} /\ guard = {}
    /\ decided = [hash |-> [n \in Peer |-> NoHash], nodes |-> {}]

-----------------------------------------------------------------------------

\* The first access to the fd allocates its handler.
get_output_handler_by_fd(n) ==
    IF handler[n] = NoHandler THEN new_output_handler ELSE handler[n]

crc64(hash, block) == hash \o block

\* Mutant of store_output: what does not fill a block is forgotten.
store_output_Drop(h, buff) ==
    LET all == h.hash_buffer \o buff
        retval == Len(all) \div HASH_BUFFER_SIZE
        upto(k) == crc64(h.hash, SubSeq(all, 1, k * HASH_BUFFER_SIZE))
    IN  [h EXCEPT !.output_list = @ \o [k \in 1..retval |-> upto(k)],
                  !.hash = upto(retval), !.hash_buffer = <<>>]

\* Fill the buffer; whenever it is full, chain its hash to the list.  crc64 that
\* starts from the hash of the blocks before is the crc64 of all of them.
store_output(h, buff) ==
    LET all == h.hash_buffer \o buff
        retval == Len(all) \div HASH_BUFFER_SIZE
        upto(k) == crc64(h.hash, SubSeq(all, 1, k * HASH_BUFFER_SIZE))
    IN  [h EXCEPT !.output_list = @ \o [k \in 1..retval |-> upto(k)],
                  !.hash = upto(retval),
                  !.hash_buffer = SubSeq(all, retval * HASH_BUFFER_SIZE + 1, Len(all))]

\* The index to propose, or -1; count is the length of the list.
determine_output(h) ==
    LET round_goback == Len(h.output_list) - CHECK_GOBACK
    IN  IF h.called_cnt % CHECK_PERIOD = 0 /\ round_goback >= 0 THEN round_goback ELSE -1

\* Mutant of get_output_hash: the last hash when the index is not there yet.
HashOrLast(h, hash_index) ==
    IF hash_index < Len(h.output_list) THEN h.output_list[hash_index + 1]
    ELSE IF h.output_list = <<>> THEN NoHash ELSE h.output_list[Len(h.output_list)]

\* get_val_by_index of the list, 0 when the index is not there yet.
get_output_hash(h, hash_index) ==
    IF hash_index < Len(h.output_list) THEN h.output_list[hash_index + 1] ELSE NoHash

\* The write hook of node n: size more bytes have been written.  The leader's
\* thread stays in rsm_op while its P_OUTPUT is under way.
mgr_on_check(n, size) ==
    LET h == get_output_handler_by_fd(n)
        stored == store_output(h, SubSeq(stream[n], written[n] + 1, written[n] + size))
        called == [stored EXCEPT !.called_cnt = @ + 1]
        generated == Len(stored.output_list) > Len(h.output_list)
    IN  /\ written[n] + size <= Len(stream[n])
        /\ written' = [written EXCEPT ![n] = @ + size]
        /\ IF n = LeaderId /\ generated
           THEN /\ asked = NoCheck
                /\ handler' = [handler EXCEPT ![n] = called]
                /\ asked' = IF determine_output(called) = -1 THEN NoCheck
                            ELSE [index |-> determine_output(called),
                                  sent |-> [p \in Peer |-> NoHash],
                                  landed |-> [p \in Peer |-> 0],
                                  answered |-> {}]
           ELSE /\ n = LeaderId => asked = NoCheck
                /\ handler' = [handler EXCEPT ![n] = stored]
                /\ UNCHANGED asked
        /\ UNCHANGED <<stream, pending, guard, decided>>

\* The close hook of node n: del_output, and nothing more is written.
CloseOutput(n) ==
    /\ n = LeaderId => asked = NoCheck
    /\ handler[n] # NoHandler \/ written[n] < Len(stream[n])
    /\ handler' = [handler EXCEPT ![n] = NoHandler]
    /\ written' = [written EXCEPT ![n] = Len(stream[n])]
    /\ UNCHANGED <<stream, asked, pending, guard, decided>>

\* A replica accepts the P_OUTPUT and posts its ack with the hash it has now.
AnswerOutput(n) ==
    /\ asked # NoCheck /\ n # LeaderId /\ n \notin asked.answered
    /\ LET h == get_output_handler_by_fd(n)
       IN  /\ handler' = [handler EXCEPT ![n] = h]
           /\ asked' = [asked EXCEPT !.answered = @ \cup {n},
                                     !.sent[n] = get_output_hash(h, asked.index)]
    /\ UNCHANGED <<stream, written, pending, guard, decided>>

\* The ack reaches the leader's slot field by field: msg_vs, node_id, hash.
AckLands(n) ==
    /\ asked # NoCheck /\ n \in asked.answered /\ asked.landed[n] < 3
    /\ asked' = [asked EXCEPT !.landed[n] = @ + 1]
    /\ UNCHANGED <<stream, written, handler, pending, guard, decided>>

\* What the slots hold; the leader fills in its own hash, never its node_id.
prepare_peer_array ==
    [i \in Peer |-> [leader_id |-> LeaderId,
                     node_id |-> IF asked.landed[i] >= 2 THEN i ELSE 0,
                     hash |-> IF i = LeaderId
                              THEN get_output_hash(handler[i], asked.index)
                              ELSE IF asked.landed[i] = 3 THEN asked.sent[i] ELSE NoHash]]

\* rsm_op has returned, at least with a quorum; late acks may be missing.
DecideOutput ==
    /\ asked # NoCheck
    /\ LET voters == {LeaderId} \cup {prepare_peer_array[i].node_id :
                                        i \in {j \in Peer : asked.landed[j] >= 1}}
           peers == prepare_peer_array
           nodes == do_decision(peers)
       IN  /\ Cardinality(voters) >= (GroupSize \div 2) + 1
           /\ pending' = pending \cup {[node |-> n, index |-> asked.index] : n \in nodes}
           /\ decided' = [hash |-> [i \in Peer |-> peers[i].hash], nodes |-> nodes]
    /\ asked' = NoCheck
    /\ UNCHANGED <<stream, written, handler, guard>>

\* A command thread reaches guard.py, or finds no socket and gives up.
call_send_restore_cmd_start(cmd, reached) ==
    /\ pending' = pending \ {cmd}
    /\ guard' = IF reached THEN guard \cup {cmd} ELSE guard
    /\ UNCHANGED <<stream, written, handler, asked, decided>>

OutputNext ==
    \/ \E n \in Peer, size \in WriteSizes : mgr_on_check(n, size)
    \/ \E n \in Peer : CloseOutput(n) \/ AnswerOutput(n) \/ AckLands(n)
    \/ DecideOutput
    \/ \E cmd \in pending, reached \in BOOLEAN : call_send_restore_cmd_start(cmd, reached)

OutputSpec == OutputInit /\ [][OutputNext]_outputVars

-----------------------------------------------------------------------------

\* The first index+1 blocks of node n's output.
Blocks(n, index) == SubSeq(stream[n], 1, (index + 1) * HASH_BUFFER_SIZE)

\* However a node's writes cut its output into pieces, its k-th hash is that of
\* the first k full blocks, and no full block is left without a hash until the
\* connection is closed: hashes of equal index are comparable across nodes.
HashesFollowOutput ==
    \A n \in Peer : handler[n] # NoHandler =>
        LET h == handler[n]
        IN  /\ \A k \in 1..Len(h.output_list) : h.output_list[k] = Blocks(n, k - 1)
            /\ h.output_list # <<>> =>
                  Len(h.output_list) = written[n] \div HASH_BUFFER_SIZE

\* A decision restores exactly the nodes that differ from the value most nodes
\* agree on, every node when no value has a majority, and nobody while a hash
\* is missing.
RestoresTheMinority ==
    LET h == decided.hash
        agree(v) == {n \in Peer : h[n] = v}
        majority == {v \in {h[n] : n \in Peer} : 2 * Cardinality(agree(v)) > GroupSize}
    IN  decided.nodes = IF NoHash \in {h[n] : n \in Peer} THEN {}
                        ELSE {n \in Peer : h[n] \notin majority}

\* guard.py is never told to restore a node whose output, up to the compared
\* block, is that of a majority of the group, whatever the timing of writes,
\* closes and acks was, in the first lap of the log.
OnlyDivergedRestored ==
    \A cmd \in pending \cup guard :
        2 * Cardinality({n \in Peer : Blocks(n, cmd.index) = Blocks(cmd.node, cmd.index)})
            <= GroupSize
=============================================================================
