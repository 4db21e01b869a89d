--------------------------- MODULE MCApplication ---------------------------
(* Small instances of the modules of the application side for TLC.  The    *)
(* modules share no state: a behaviour is one of one of those in Parts.    *)
EXTENDS EventMgr, UtHash, Output, AdList, Startup, TLC

CONSTANTS Parts,
          MaxInside     \* bound: threads of the leader in rsm_op at once

VARIABLE part

ClientSymmetry ==
    {t @@ u : t \in Permutations(TcpConn), u \in Permutations(UdpPeer)}

\* The same output, and outputs that leave it after one and after two bytes.
MCStreams == {<<1, 1, 1, 1, 1, 1, 1>>, <<1, 1, 2, 2, 2, 2, 2>>, <<1, 3, 3, 3, 3, 3, 3>>}

\* All keys in one chain, in chains of their own, in two, split by doubling.
MCHashFcns ==
    {[k \in Key |-> 0], [k \in Key |-> k], [k \in Key |-> 4 * (k % 2)], [k \in Key |-> 2 * k]}

ApplicationInit ==
    /\ part \in Parts
    /\ EventInit /\ UtHashInit /\ OutputInit /\ AdListInit /\ StartupInit
    /\ part # "hash" => hashv = CHOOSE f \in HashFcns : TRUE
    /\ part # "output" => stream = CHOOSE f \in [Peer -> Streams] : TRUE
    /\ part # "startup" => inputVars = <<FALSE, CHOOSE f \in ConfigFile : TRUE, "s">>

ApplicationNext ==
    /\ UNCHANGED part
    /\ \/ /\ part = "events" /\ EventNext
          /\ Cardinality({c \in Client : conn'[c].stage # "out"}) <= MaxInside
          /\ UNCHANGED <<utHashVars, outputVars, adListVars, startupVars>>
       \/ /\ part = "hash" /\ UtHashNext
          /\ UNCHANGED <<eventVars, outputVars, adListVars, startupVars>>
       \/ /\ part = "output" /\ OutputNext
          /\ UNCHANGED <<eventVars, utHashVars, adListVars, startupVars>>
       \/ /\ part = "list" /\ AdListNext
          /\ UNCHANGED <<eventVars, utHashVars, outputVars, startupVars>>
       \/ /\ part = "startup" /\ StartupNext
          /\ UNCHANGED <<eventVars, utHashVars, outputVars, adListVars>>

ApplicationSpec ==
    ApplicationInit /\ [][ApplicationNext]_<<part, eventVars, utHashVars, outputVars, adListVars, startupVars>>
=============================================================================
