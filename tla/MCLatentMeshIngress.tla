------------------------- MODULE MCLatentMeshIngress -------------------------
(* LatentMeshIngress on a small instance. *)
EXTENDS LatentMeshIngress, TLC

\* The slot compares contexts, contents and parts for equality only.
Alike == Permutations(Context) \cup Permutations(Content) \cup Permutations(Part)

=============================================================================
