---------------------------- MODULE MCConsensus ----------------------------
(* Small instances of Consensus for TLC. *)
EXTENDS Consensus, TLC

Symmetry == Permutations(Thread) \cup Permutations(Data) \cup Permutations(Node \ {Leader, NodeZero})
=============================================================================
