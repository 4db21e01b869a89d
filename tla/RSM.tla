-------------------------------- MODULE RSM --------------------------------
(***************************************************************************)
(* What replication promises to the applications: requests are put into    *)
(* one order, a request once put there stays there, and every replica      *)
(* executes that order from its start, one request at a time, without      *)
(* gaps or repetitions.                                                    *)
(***************************************************************************)
EXTENDS Naturals, Sequences

CONSTANTS Replica, Data

VARIABLES
  chosen,     \* the committed requests, in order
  executed    \* what each replica has executed

Init == chosen = <<>> /\ executed = [n \in Replica |-> <<>>]

Choose ==
  /\ \E d \in Data : chosen' = Append(chosen, d)
  /\ UNCHANGED executed

Execute(n) ==
  /\ Len(executed[n]) < Len(chosen)
  /\ executed' = [executed EXCEPT ![n] = Append(@, chosen[Len(@) + 1])]
  /\ UNCHANGED chosen

Next == Choose \/ \E n \in Replica : Execute(n)

Spec == Init /\ [][Next]_<<chosen, executed>>
=============================================================================
