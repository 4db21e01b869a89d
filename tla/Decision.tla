------------------------------ MODULE Decision ------------------------------
(***************************************************************************)
(* output/decision.c: what the leader does with the output hashes of the   *)
(* group.  A peer array maps the slots 0..group_size-1 to records with a   *)
(* node_id, a leader_id and a hash; NoHash is the hash 0 of a slot with no *)
(* answer.                                                                 *)
(***************************************************************************)
EXTENDS Integers, FiniteSets

NoHash == <<>>

\* Mutant: the aim itself is counted once more.
count_hash_From1(peers, aim) == 1 + Cardinality({i \in DOMAIN peers : peers[i].hash = aim})

count_hash(peers, aim) == Cardinality({i \in DOMAIN peers : peers[i].hash = aim})

\* The first slot whose hash occurs most often.
major_count_hash(peers) ==
    LET cnt(i) == count_hash(peers, peers[i].hash)
        first == CHOOSE i \in DOMAIN peers : \A j \in DOMAIN peers :
                    cnt(j) < cnt(i) \/ (cnt(j) = cnt(i) /\ i <= j)
    IN  [cnt |-> cnt(first), hash |-> peers[first].hash]

\* The hash of the first slot that names the leader.
get_master_hash(peers) ==
    LET named == {i \in DOMAIN peers : peers[i].leader_id = peers[i].node_id}
    IN  IF named = {} THEN NoHash
        ELSE peers[CHOOSE i \in named : \A j \in named : i <= j].hash

\* The node ids send_restore_cmd is called with.
do_restore(peers, aim) ==
    {peers[i].node_id : i \in {j \in DOMAIN peers : aim = NoHash \/ peers[j].hash # aim}}

\* The restore commands of a decision; the cases are D.0 to D.3 of the code.
do_decision(peers) ==
    LET group_size == Cardinality(DOMAIN peers)
        threshold == (group_size \div 2) + 1
        master_hash == get_master_hash(peers)
        con_num == count_hash(peers, master_hash)
        major == major_count_hash(peers)
    IN  IF \E i \in DOMAIN peers : peers[i].hash = NoHash THEN {}
        ELSE IF con_num = group_size THEN {}
        ELSE IF con_num >= threshold THEN do_restore(peers, master_hash)
        ELSE IF major.cnt >= threshold THEN do_restore(peers, major.hash)
        ELSE do_restore(peers, NoHash)
=============================================================================
