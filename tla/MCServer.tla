------------------------------ MODULE MCServer ------------------------------
(* Small instances of the modules of the RDMA layer for TLC.  The modules  *)
(* share no state: a behaviour is one of one of the modules in Parts.      *)
EXTENDS Election, Device, DareLog, SendQueue, TLC

CONSTANT Parts

VARIABLE part

SenderSymmetry == Permutations(Sender)

MCServerInit ==
    /\ part \in Parts
    /\ ElectionInit /\ DeviceInit /\ DareLogInit /\ SendQueueInit
    /\ part # "device" => accepts = {}
    /\ part # "queue" => ~late

MCServerNext ==
    /\ UNCHANGED part
    /\ \/ /\ part = "election" /\ ElectionNext
          /\ UNCHANGED <<deviceVars, logVars, queueVars>>
       \/ /\ part = "device" /\ DeviceNext
          /\ UNCHANGED <<electionVars, logVars, queueVars>>
       \/ /\ part = "log" /\ DareLogNext
          /\ UNCHANGED <<electionVars, deviceVars, queueVars>>
       \/ /\ part = "queue" /\ SendQueueNext
          /\ UNCHANGED <<electionVars, deviceVars, logVars>>

MCServerSpec == MCServerInit /\ [][MCServerNext]_<<part, electionVars, deviceVars, logVars, queueVars>>
=============================================================================
