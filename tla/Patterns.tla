-------------------------------- MODULE Patterns -------------------------------
(***************************************************************************)
(* FlightPattern::next_target (src/src/planning/patterns.rs): the waypoint *)
(* of a drone at a step of its pattern.  The two lawnmowers are exact, on  *)
(* lengths that are integers; the other patterns are floating point, and   *)
(* for them only the clamping to the area is kept.                         *)
(***************************************************************************)
EXTENDS Integers

CONSTANTS Contexts           \* [swarm, width, height, scan]: swarm size and lengths

ASSUME PatternsAssumption ==
  Contexts \subseteq [swarm : Nat \ {0}, width : Nat \ {0}, height : Nat \ {0},
                      scan : Nat \ {0}]

FlightPattern == {"Boustrophedon", "PartitionedLawnmower", "Spiral", "Pheromone",
                  "PotentialField", "LevyFlight"}

Lawnmower == {"Boustrophedon", "PartitionedLawnmower"}

VARIABLES pattern, context, drone, patternStep, waypoint

patternVars == <<pattern, context, drone, patternStep, waypoint>>

Lesser(a, b) == IF a < b THEN a ELSE b
Greater(a, b) == IF a > b THEN a ELSE b
Ceil(a, b) == (a + b - 1) \div b

\* Twice the given length: the centre of a cell is half a scan width off its edge.
Twice(x) == 2 * x

-----------------------------------------------------------------------------

\* Mutant: what is left over at the end of a row or of the area is not swept.
WholeCells(length, scan) == Greater(Greater(length, scan) \div scan, 1)

CellsAlong(length, scan) == Greater(Ceil(Greater(length, scan), scan), 1)

\* The waypoint in the region, in half units: to and fro, row by row.
Serpentine(x0, x1, y0, y1, scan, step) ==
  LET cols  == CellsAlong(x1 - x0, scan)
      rows  == CellsAlong(y1 - y0, scan)
      s     == step % (cols * rows)
      row   == s \div cols
      col   == s % cols
      along == IF row % 2 = 0 THEN col ELSE cols - 1 - col
  IN  [x |-> Lesser(Twice(x0) + (2 * along + 1) * scan, Twice(x1)),
       y |-> Lesser(Twice(y0) + (2 * row + 1) * scan, Twice(y1))]

Clamped(v, limit) == IF v < 0 THEN 0 ELSE IF v > limit THEN limit ELSE v

ClampToArea(p, c) == [x |-> Clamped(p.x, Twice(c.width)), y |-> Clamped(p.y, Twice(c.height))]

\* The strip of a drone; widths are multiples of the swarm size.
StripOf(d, c) ==
  LET w == c.width \div c.swarm
      i == d % c.swarm
  IN  [from |-> i * w, to |-> (i + 1) * w]

LawnmowerTarget(p, c, d, step) ==
  ClampToArea(IF p = "Boustrophedon"
              THEN Serpentine(0, c.width, 0, c.height, c.scan, step)
              ELSE Serpentine(StripOf(d, c).from, StripOf(d, c).to, 0, c.height, c.scan, step),
              c)

\* Spiral, pheromone, potential field and Levy flight: some place in the area.
HeuristicTargets(c) == {ClampToArea([x |-> x, y |-> y], c) :
                          x \in {-1, c.width, Twice(c.width) + 1},
                          y \in {-1, c.height, Twice(c.height) + 1}}

NextTargets(p, c, d, step) ==
  IF p \in Lawnmower THEN {LawnmowerTarget(p, c, d, step)} ELSE HeuristicTargets(c)

\* Steps until a pattern starts over.
Sweep(p, c) == CellsAlong(IF p = "Boustrophedon" THEN c.width ELSE c.width \div c.swarm, c.scan)
                 * CellsAlong(c.height, c.scan)

PatternsInit == /\ pattern \in FlightPattern
                /\ context \in Contexts
                /\ drone \in 0 .. context.swarm - 1
                /\ patternStep = 0
                /\ waypoint \in NextTargets(pattern, context, drone, 0)

PatternsNext == /\ patternStep' = (patternStep + 1) % Sweep(pattern, context)
                /\ waypoint' \in NextTargets(pattern, context, drone, patternStep')
                /\ UNCHANGED <<pattern, context, drone>>

-----------------------------------------------------------------------------

Near(a, b, reach) == a - b <= reach /\ b - a <= reach

\* A partition leaves nothing out and nobody strays: the sweep of a drone passes
\* every place of its strip within half a scan width, without leaving it, and
\* from one step to the next moves one scan width at most, along one axis.
SweepsOwnStrip ==
  pattern = "PartitionedLawnmower" =>
    LET strip == StripOf(drone, context)
        At(step) == LawnmowerTarget(pattern, context, drone, step)
        steps == 0 .. Sweep(pattern, context) - 1
    IN  /\ \A x \in Twice(strip.from) .. Twice(strip.to), y \in 0 .. Twice(context.height) :
             \E k \in steps : Near(At(k).x, x, context.scan) /\ Near(At(k).y, y, context.scan)
        /\ waypoint.x \in Twice(strip.from) .. Twice(strip.to)
        /\ patternStep > 0 =>
             LET last == At(patternStep - 1)
             IN  \/ last.x = waypoint.x /\ Near(last.y, waypoint.y, Twice(context.scan))
                 \/ last.y = waypoint.y /\ Near(last.x, waypoint.x, Twice(context.scan))
=============================================================================
