-------------------------------- MODULE MCRaft -------------------------------
(* Raft on small clusters. *)
EXTENDS Raft, TLC

Nodes == Permutations(Node)

=============================================================================
