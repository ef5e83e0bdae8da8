-------------------------------- MODULE Mission --------------------------------
(***************************************************************************)
(* The loop of run_mission_with_report                                     *)
(* (src/src/integration/swarm_sim.rs): all drones step, scan where they    *)
(* are, a peer is vectored to a lonely contact, detections are fused and   *)
(* drones that are too close are nudged apart.  Where a drone flies in its *)
(* step is any hop here, as Vehicle is about that.                         *)
(***************************************************************************)
EXTENDS Sensing

CONSTANTS SamePlace,         \* two reports this close are one
          MinSeparation

ASSUME MissionAssumption == /\ SamePlace \in Nat
                            /\ MinSeparation \in {2 * k : k \in 1 .. CorridorEnd}

VARIABLES at,                \* where each drone is
          confirmed,         \* the victim reports: where, and how many drones contributed
          over               \* the loop has ended

missionVars == <<at, confirmed, over>>

MissionInit == /\ at = [d \in Drone |-> ((d - 1) * CorridorEnd) \div DroneCount]
               /\ confirmed = {}
               /\ over = FALSE

-----------------------------------------------------------------------------
\* A step of at most the maximum speed, and of one place at least.
Vectored(place, anchor) ==
  LET speed == IF MaxSpeed < 1 THEN 1 ELSE MaxSpeed
      step  == Smaller(speed, Apart(place, anchor))
  IN  IF place < anchor THEN place + step ELSE place - step

\* Mutant: the drone that has the contact is its own nearest peer.
AnyDrone(detector) == Drone

PeersOf(detector) == Drone \ {detector}

\* The first of the nearest.
NearestTo(anchor, candidates, places) ==
  CHOOSE d \in candidates :
    \A e \in candidates : \/ Apart(places[d], anchor) < Apart(places[e], anchor)
                          \/ Apart(places[d], anchor) = Apart(places[e], anchor) /\ d <= e

\* Where drones are and what is heard once the assist is over.
Assisted(places, noise) ==
  LET heard == Scans(places, noise)
  IN  IF Len(heard) # 1 \/ PeersOf(heard[1].drone) = {}
      THEN [at |-> places, heard |-> heard]
      ELSE LET peer  == NearestTo(heard[1].victim, PeersOf(heard[1].drone), places)
               moved == [places EXCEPT ![peer] = Vectored(@, heard[1].victim)]
           IN  [at |-> moved, heard |-> heard \o Scan(peer, moved[peer], noise)]

-----------------------------------------------------------------------------
\* What is heard at least twice, sure enough, and of no victim that is known.
NewContact(heard) ==
  IF Cardinality(Usable(heard)) < 2 THEN {}
  ELSE {c \in {Fused(heard)} : /\ c.confidence > ConfirmAbove
                              /\ \A r \in confirmed : Apart(r.at, c.at) > SamePlace}

-----------------------------------------------------------------------------
(* Separation: everybody is pushed by half of each overlap, as of before. *)

HalfUp(n) == (n + 1) \div 2

\* Mutant: two drones in one place have no direction to be pushed in.
PushWithoutSplit(i, j, places) ==
  LET gap == Apart(places[i], places[j])
  IN  IF gap >= MinSeparation \/ gap = 0 THEN 0
      ELSE IF places[i] > places[j] THEN HalfUp(MinSeparation - gap)
           ELSE -HalfUp(MinSeparation - gap)

\* The push of j on i; in one place they are split by their index.
Push(i, j, places) ==
  LET gap == Apart(places[i], places[j])
  IN  IF gap >= MinSeparation THEN 0
      ELSE IF gap = 0 THEN (i - j) * (MinSeparation \div 2)
      ELSE IF places[i] > places[j] THEN HalfUp(MinSeparation - gap)
           ELSE -HalfUp(MinSeparation - gap)

Separated(places) ==
  [i \in Drone |-> places[i] + SumFunction([j \in Drone |-> IF j = i THEN 0 ELSE Push(i, j, places)])]

-----------------------------------------------------------------------------

\* The loop ends once all victims are found and enough is covered.
MissionTick ==
  /\ ~over
  /\ \E hop \in [Drone -> -MaxSpeed .. MaxSpeed], noise \in Noise :
       LET after == Assisted(Flown(at, hop), noise)
       IN  /\ at' = Separated(after.at)
           /\ confirmed' = confirmed \cup {[at |-> c.at, viewpoints |-> Cardinality(c.by)] :
                                             c \in NewContact(after.heard)}
           /\ over' \in {FALSE, Cardinality(confirmed') >= Len(VictimAt)}

-----------------------------------------------------------------------------

\* No victim is confirmed on the word of one drone, however it came to be heard
\* twice in a step.
TwoViewpoints == \A r \in confirmed : r.viewpoints >= 2

\* Separation keeps its word for every pair that no third drone crowds, from
\* wherever the assist and the step before have left them, one place included.
PairsEndApart ==
  LET ends == Separated(at)
  IN  \A i, j \in Drone :
        (i # j /\ \A k \in Drone \ {i, j} : /\ Apart(at[k], at[i]) >= MinSeparation
                                            /\ Apart(at[k], at[j]) >= MinSeparation)
        => Apart(ends[i], ends[j]) >= MinSeparation
=============================================================================
