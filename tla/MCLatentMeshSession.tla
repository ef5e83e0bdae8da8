------------------------ MODULE MCLatentMeshSession --------------------------
(* LatentMeshSession on small instances. *)
EXTENDS LatentMeshSession, TLC

ClockExact == {0}
OneEpoch == {0}
TwoEpochs == 0 .. 1

\* The code never orders or names poses.
Poses == Permutations(Pose)

=============================================================================
