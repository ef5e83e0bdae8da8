------------------------------- MODULE Coverage ------------------------------
(***************************************************************************)
(* What a mission step of SwarmOrchestrator does to the search: the scan,  *)
(* ProbabilityGrid, CoverageStrategy and the motion towards the next       *)
(* target (src/src/orchestrator/mod.rs, src/src/planning, src/src/sensing).*)
(* Positions are cells; probabilities are percentages, pheromone tenths.   *)
(***************************************************************************)
EXTENDS Integers, FiniteSets

CONSTANTS Width, Height,          \* of the grid: area / resolution, rounded up
          ReachWidth, ReachHeight,\* the same rounded down, as pos_to_cell has it
          Start,                  \* where the drone begins
          Victim,                 \* cells victims are in
          ScanRange,              \* detection_range_m in cells
          Confidence,             \* confidences a detection may have
          Threshold,              \* convergence_threshold
          NoTarget

Cell == (0 .. Width - 1) \X (0 .. Height - 1)

ASSUME CoverageAssumption ==
  /\ Width \in Nat \ {0} /\ ReachWidth \in {Width - 1, Width} \ {0}
  /\ Height \in Nat \ {0} /\ ReachHeight \in {Height - 1, Height} \ {0}
  /\ Start \in Cell /\ Victim \subseteq Cell
  /\ ScanRange \in Nat
  /\ Confidence \subseteq 50 .. 100
  /\ Threshold \in 0 .. 100
  /\ NoTarget \notin Cell

Prior == 50
ConvergenceAt == 90
Saturated == 10

VARIABLES prob,        \* victim_probability of each cell
          pheromone,   \* of each cell
          scanned,     \* cells whose last_scanned_ms is not zero
          phase,
          pos,         \* the cell the drone is over
          covered      \* stats.cells_covered

coverageVars == <<prob, pheromone, scanned, phase, pos, covered>>

Phase == {"Systematic", "ProbabilisticPursuit", "Convergence"}

CoverageTypeOK == /\ prob \in [Cell -> 0 .. 100]
                  /\ pheromone \in [Cell -> 0 .. Saturated]
                  /\ scanned \subseteq Cell
                  /\ phase \in Phase
                  /\ pos \in Cell
                  /\ covered \in 0 .. Width * Height

CoverageInit == /\ prob = [c \in Cell |-> Prior]
                /\ pheromone = [c \in Cell |-> 0]
                /\ scanned = {}
                /\ phase = "Systematic"
                /\ pos = Start
                /\ covered = 0

-----------------------------------------------------------------------------

Lesser(a, b) == IF a < b THEN a ELSE b
Apart(a, b) == IF a < b THEN b - a ELSE a - b
Within(x, a, b) == (a <= x /\ x <= b) \/ (b <= x /\ x <= a)

\* Mutant: the clamp is one cell short.
PosToCellShort(p) == <<Lesser(p[1], Lesser(ReachWidth, Width - 1) - 1), Lesser(p[2], ReachHeight - 1)>>

\* Clamped to the grid, by a size that is rounded down.
PosToCell(p) == <<Lesser(p[1], ReachWidth - 1), Lesser(p[2], ReachHeight - 1)>>

InRange(p) == {v \in Victim : /\ Apart(p[1], v[1]) <= ScanRange
                              /\ Apart(p[2], v[2]) <= ScanRange}

\* Mutant: a report counts against the cell it is about.
PosteriorOfMiss(prior, conf) ==
  LET miss == (100 - conf) * prior IN (100 * miss) \div (miss + conf * (100 - prior))

\* The posterior of a positive report; a vanishing denominator leaves the prior.
Posterior(prior, conf) ==
  LET hit   == conf * prior
      denom == hit + (100 - conf) * (100 - prior)
  IN  IF denom = 0 THEN prior ELSE (100 * hit) \div denom

UpdateBayesian(c, conf) ==
  /\ prob' = [prob EXCEPT ![c] = Posterior(@, conf)]
  /\ pheromone' = [pheromone EXCEPT ![c] = Lesser(@ + 1, Saturated)]

\* A scan reports one victim in range with some confidence, or nothing.
Detect(conf) == \E v \in InRange(pos) : UpdateBayesian(PosToCell(v), conf)

Miss == UNCHANGED <<prob, pheromone>>

MarkScanned(c) == /\ scanned' = scanned \cup {c}
                  /\ covered' = IF c \in scanned THEN covered ELSE covered + 1

-----------------------------------------------------------------------------

\* Position in the sweep: row by row, every other row backwards.
SweepRank(c) == c[2] * Width + (IF c[2] % 2 = 0 THEN c[1] ELSE Width - 1 - c[1])

First(S, Rank(_)) == CHOOSE c \in S : \A d \in S : Rank(c) <= Rank(d)

NextSystematicCell(done) ==
  IF Cell \subseteq done THEN NoTarget ELSE First(Cell \ done, SweepRank)

\* What a cell is worth; being scanned discounts it by its pheromone only.
Score(c, p, ph, done) == p[c] * (Saturated - (IF c \in done THEN ph[c] ELSE 0))

RowRank(c) == c[2] * Width + c[1]

\* The best cell, the first of equals; scanned cells are candidates too.
HighestPriorityUnscanned(p, ph, done) ==
  First({c \in Cell : \A d \in Cell : Score(c, p, ph, done) >= Score(d, p, ph, done)},
        RowRank)

NextTarget(ph, p, pher, done) ==
  IF ph = "Systematic" THEN NextSystematicCell(done)
                       ELSE HighestPriorityUnscanned(p, pher, done)

\* One phase per step, never back.
PhaseAfter(p) ==
  CASE phase = "Systematic" /\ (\E c \in Cell : p[c] >= Threshold) -> "ProbabilisticPursuit"
    [] phase = "ProbabilisticPursuit" /\ (\E c \in Cell : p[c] >= ConvergenceAt) -> "Convergence"
    [] OTHER -> phase

\* Somewhere on the way, the cell itself included: a step is as long as dt is.
Toward(p, t) == {c \in Cell : Within(c[1], p[1], t[1]) /\ Within(c[2], p[2], t[2])}

Move == LET target == NextTarget(phase', prob', pheromone', scanned')
        IN  IF target = NoTarget THEN UNCHANGED pos ELSE pos' \in Toward(pos, target)

\* The mission half of a step, in the order of the code.
MissionStep == /\ Miss \/ \E conf \in Confidence : Detect(conf)
               /\ MarkScanned(PosToCell(pos))
               /\ phase' = PhaseAfter(prob')
               /\ Move

MissionComplete == 100 * Cardinality(scanned) > 95 * Width * Height

=============================================================================
