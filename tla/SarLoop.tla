-------------------------------- MODULE SarLoop --------------------------------
(***************************************************************************)
(* The loop of run_sar_simulation (src/src/integration/swarm_sim.rs): all  *)
(* drones step, drone 1 is handed what the others hold as detections, as   *)
(* the cluster head, and fuses them.  A step begins with the detections of *)
(* the last one cleared, and scans (src/src/orchestrator/mod.rs).          *)
(***************************************************************************)
EXTENDS Sensing

CONSTANT MinGap            \* places closer than 1.5 m

VARIABLES place,             \* where each drone is
          peerStates,        \* by drone: where it has its peers
          peerDetections,    \* by drone: the detections it was sent
          victimsDetected, collisionEvents,
          produced,          \* history: the detections of this step's scans
          ended

sarVars == <<place, peerStates, peerDetections, victimsDetected, collisionEvents, produced,
             ended>>

ClusterHead == 1

SarInit ==
  /\ place = [d \in Drone |-> ((d - 1) * CorridorEnd) \div DroneCount]
  /\ peerStates = [d \in Drone |-> <<>>]
  /\ peerDetections = [d \in Drone |-> <<>>]
  /\ victimsDetected = 0 /\ collisionEvents = 0
  /\ produced = <<>> /\ ended = FALSE

\* SwarmOrchestrator::step of a drone that flies: what its scan finds goes to its
\* grid, and to nobody.
DetectionsAfterStep == [d \in Drone |-> <<>>]

\* Everybody hears where everybody else is.
Broadcast(places) == [d \in Drone |-> [p \in Drone \ {d} |-> places[p]]]

\* The first detection each drone holds, for the head.
LocalDetections(detections) ==
  FlattenSeq([d \in Drone |-> SubSeq(detections[d], 1, Smaller(1, Len(detections[d])))])

HeardByHead(detections) ==
  detections[ClusterHead] \o SelectSeq(LocalDetections(detections), LAMBDA c : c.drone # ClusterHead)

Found(heard) == /\ Cardinality(Usable(heard)) >= 2
                /\ Fused(heard).confidence > ConfirmAbove

Collisions(places) ==
  Cardinality({<<i, j>> \in Drone \X Drone : i < j /\ Apart(places[i], places[j]) < MinGap})

\* The fail-safe may keep a drone from its mission: then it neither scans nor moves.
SarStep ==
  /\ ~ended
  /\ \E hop \in [Drone -> -MaxSpeed .. MaxSpeed], noise \in Noise, flying \in SUBSET Drone :
       LET moved == Flown(place, [d \in Drone |-> IF d \in flying THEN hop[d] ELSE 0])
           heard == HeardByHead(DetectionsAfterStep)
       IN  /\ produced' = SelectSeq(Scans(place, noise), LAMBDA c : c.drone \in flying)
           /\ place' = moved
           /\ peerStates' = Broadcast(moved)
           /\ peerDetections' = [DetectionsAfterStep EXCEPT ![ClusterHead] = heard]
           /\ victimsDetected' = IF Found(heard) THEN victimsDetected + 1 ELSE victimsDetected
           /\ collisionEvents' = collisionEvents + Collisions(moved)
  /\ ended' \in BOOLEAN

SarSpec == SarInit /\ [][SarStep]_sarVars

-----------------------------------------------------------------------------

\* The loop's own description, step 3: "Detections produced this step are
\* collected and fused by the cluster head (drone 0)", a victim being found when
\* two drones' detections are sure enough together.
HeadFusesDetections ==
  [][Found(produced') => victimsDetected' = victimsDetected + 1]_sarVars
=============================================================================
