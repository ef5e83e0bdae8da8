--------------------------------- MODULE Bloom ---------------------------------
(***************************************************************************)
(* The bloom rule of src/crates/ruv-jellyfish (bloom.rs): every drone      *)
(* steers by the value field, its neighbours and the flow, all from what   *)
(* they were when the tick began.  Drones are on a line through the only   *)
(* peak the field may have, at 0; places are in hundredths of a metre and  *)
(* speeds in hundredths of a metre per tick.                               *)
(***************************************************************************)
EXTENDS Integers, Sequences, Functions

CONSTANTS BloomSize,         \* drones
          BloomStarts,       \* where drones may start, in metres
          GradGain, SeparationGain, CohesionGain, DispersionGain,   \* percent
          MinSpacing, NeighbourRadius,                              \* metres
          FlatGradient,      \* the gradient that counts as half aggregating
          Steepness,         \* of the peak, by distance from it in metres
          MaxGroundSpeed, MaxAirspeed,
          Flows,             \* uniform flows
          SettleTicks,       \* in which a fleet has gathered or spread
          GatheredWithin     \* metres of a peak

ASSUME BloomAssumption ==
  /\ {BloomSize, MinSpacing, NeighbourRadius, FlatGradient} \subseteq Nat \ {0}
  /\ {GradGain, SeparationGain, CohesionGain, DispersionGain, MaxGroundSpeed, MaxAirspeed,
      SettleTicks, GatheredWithin} \subseteq Nat
  /\ BloomStarts \subseteq Int /\ Flows \subseteq Int
  /\ Steepness \in Seq(Nat)

VARIABLES hotspot,           \* the value field has a peak
          flow,
          fleet,             \* where the drones are
          ticks,             \* counted up to SettleTicks
          launched,           \* history: where they were at first
          calm               \* history: where they would be in still air

bloomVars == <<hotspot, flow, fleet, ticks, launched, calm>>

BloomDrone == 1 .. BloomSize

\* A vector normalized, on a line.
Towards(v) == IF v > 0 THEN 1 ELSE IF v < 0 THEN -1 ELSE 0

Size(v) == v * Towards(v)

ClampedTo(v, max) == IF v > max THEN max ELSE IF v < -max THEN -max ELSE v

-----------------------------------------------------------------------------
(* BloomController::command for drone i of a fleet in given places. *)

GradientNorm(p) ==
  LET far == Size(p) \div 100
  IN  IF hotspot /\ far < Len(Steepness) THEN Steepness[far + 1] ELSE 0

\* In percent: nothing where the field is flat, nearly all where it is steep.
Aggregation(p) == (100 * GradientNorm(p)) \div (GradientNorm(p) + FlatGradient)

Climb(p) == Towards(-p) * ((GradGain * Aggregation(p)) \div 100)

\* A neighbour in the very same place gives no direction to leave it.
Separation(places, i) ==
  LET push(n) == LET d == Size(places[i] - places[n])
                 IN  IF d > 0 /\ d < 100 * MinSpacing
                     THEN Towards(places[i] - places[n])
                            * (((100 * MinSpacing - d) * SeparationGain) \div (100 * MinSpacing))
                     ELSE 0
  IN  SumFunction([n \in BloomDrone |-> push(n)])

\* Sum of the ways to the neighbours: on the side of their centroid.
ToCentroid(places, i) ==
  LET way(n) == LET v == places[n] - places[i]
                IN  IF Size(v) < 100 * NeighbourRadius THEN v ELSE 0
  IN  Towards(SumFunction([n \in BloomDrone |-> way(n)]))

\* Together where it is steep, apart where it is flat.
CohesionOrDispersion(places, i) ==
  LET a == Aggregation(places[i])
  IN  ToCentroid(places, i) * ((CohesionGain * a - DispersionGain * (100 - a)) \div 100)

DesiredGroundVelocity(places, i) ==
  ClampedTo(Climb(places[i]) + Separation(places, i) + CohesionOrDispersion(places, i),
            MaxGroundSpeed)

\* Mutant: no wind compensation.
AirspeedAsIfCalm(desired, f) == ClampedTo(desired, MaxAirspeed)

\* What the airframe cannot counter carries the drone.
CommandedAirspeed(desired, f) == ClampedTo(desired - f, MaxAirspeed)

ExpectedGroundVelocity(places, i, f) ==
  CommandedAirspeed(DesiredGroundVelocity(places, i), f) + f

StepFleet(places, f) ==
  [i \in BloomDrone |-> places[i] + ExpectedGroundVelocity(places, i, f)]

-----------------------------------------------------------------------------

\* Drones are numbered along the line.
BloomInit ==
  /\ hotspot \in BOOLEAN /\ flow \in Flows
  /\ fleet \in [BloomDrone -> {100 * p : p \in BloomStarts}]
  /\ \A i \in 2 .. BloomSize : fleet[i - 1] <= fleet[i]
  /\ ticks = 0 /\ launched = fleet /\ calm = fleet

BloomTick ==
  /\ ticks < SettleTicks
  /\ fleet' = StepFleet(fleet, flow)
  /\ calm' = StepFleet(calm, 0)
  /\ ticks' = ticks + 1
  /\ UNCHANGED <<hotspot, flow, launched>>

-----------------------------------------------------------------------------

\* Separation never lets drones that started apart meet; and drones that are in
\* one place stay in one, as nothing tells them in which direction to part.
NeverCollapses ==
  \A i, j \in BloomDrone : fleet[i] = fleet[j] <=> launched[i] = launched[j]

\* A flow the airframe can counter makes no difference to where drones go, only
\* to what it costs.
Countered == Size(flow) + MaxGroundSpeed <= MaxAirspeed

FlowIsCompensated == Countered => fleet = calm

\* In the end the fleet is around the peak; and where there is none no drone is
\* in another's neighbourhood, but the one in the same place.
SettlesWhereItShould ==
  (Countered /\ ticks = SettleTicks) =>
    IF hotspot THEN \A i \in BloomDrone : Size(fleet[i]) <= 100 * GatheredWithin
    ELSE \A i, j \in BloomDrone :
           fleet[i] = fleet[j] \/ Size(fleet[i] - fleet[j]) >= 100 * NeighbourRadius

\* What the bloom rule is for: fleets that neither collapse, drift off nor oscillate.
BloomSettles == NeverCollapses /\ FlowIsCompensated /\ SettlesWhereItShould
=============================================================================
