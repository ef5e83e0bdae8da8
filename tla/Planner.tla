-------------------------------- MODULE Planner --------------------------------
(***************************************************************************)
(* RrtApfPlanner::plan (src/src/planning/rrt_apf.rs): a tree grown from    *)
(* the start towards sampled places, every node pushed off the obstacles,  *)
(* until one is near the goal.  Start, goal, samples and obstacles are on  *)
(* a line, in tenths of a metre, and a push is rounded to them.  Speeds    *)
(* are left out.                                                           *)
(***************************************************************************)
EXTENDS Integers, Sequences, FiniteSets, Functions

CONSTANTS Start, Goal,
          Samples,             \* where the generator may draw; the goal is drawn besides
          ObstaclePlaces,
          StepSize,            \* step_size_m
          RepulsionDistance,   \* apf_repulsion_dist
          Clearance,           \* how near one obstacle lets a node come: as near as
                               \* the least that a push leaves
          MaxIterations        \* max_iter

ASSUME PlannerAssumption ==
  /\ {Start, Goal} \cup Samples \cup ObstaclePlaces \subseteq Int
  /\ {StepSize, RepulsionDistance} \subseteq Nat \ {0}
  /\ {Clearance, MaxIterations} \subseteq Nat
  /\ IsFiniteSet(ObstaclePlaces)

VARIABLES obstacles,           \* obstacle_cells
          tree,                \* nodes [at, parent, landed]; landed: where its step
                               \* ended before the push (history)
          tries,               \* iterations taken
          path

plannerVars == <<obstacles, tree, tries, path>>

Gap(a, b) == IF a < b THEN b - a ELSE a - b
SideOf(x) == IF x > 0 THEN 1 ELSE IF x < 0 THEN -1 ELSE 0

\* Within one and a half steps.
NearGoal(at) == 2 * Gap(at, Goal) <= 3 * StepSize

PlannerInit == /\ obstacles \in SUBSET ObstaclePlaces
               /\ tree = <<[at |-> Start, parent |-> 1, landed |-> Start]>>
               /\ tries = 0
               /\ path = <<>>

-----------------------------------------------------------------------------

InReach(at) == {o \in obstacles : Gap(at, o) \in 1 .. RepulsionDistance - 1}

\* apf_force times apf_scale: 0.3 * (reach - dist) / dist metres off an obstacle.
Repulsion(dist) == (3 * (RepulsionDistance - dist)) \div dist

\* The clearance that is promised is one that every push leaves.
ASSUME ClearanceAssumption ==
  /\ Clearance <= RepulsionDistance
  /\ \A dist \in 1 .. RepulsionDistance - 1 : Clearance <= dist + Repulsion(dist)

\* Off each obstacle in reach; one exactly underneath does not push.
ApfForce(at) ==
  SumFunctionOnSet([o \in obstacles |-> SideOf(at - o) * Repulsion(Gap(at, o))], InReach(at))

\* The first of the nodes nearest to the sample.
NearestNode(sample) ==
  LET Far(n) == Gap(tree[n].at, sample)
  IN  CHOOSE n \in DOMAIN tree : /\ \A m \in DOMAIN tree : Far(n) <= Far(m)
                                 /\ \A m \in 1 .. n - 1 : Far(n) < Far(m)

\* A whole step from a node towards the sample, also if that is past it.
Landing(n, sample) == tree[n].at + StepSize * SideOf(sample - tree[n].at)

\* Mutant: the nodes in the order they were grown in, whichever they grew from.
InOrder(all, n) == [k \in 1 .. n |-> all[k].at]

\* The nodes from one back to the root, and what lies between start and goal.
Trace(all, n) ==
  LET back[k \in 1 .. Len(all)] ==
        IF k = 1 THEN <<all[1].at>> ELSE Append(back[all[k].parent], all[k].at)
  IN  back[n]

Planning == path = <<>>

Grow(sample) ==
  LET from == NearestNode(sample)
      landing == Landing(from, sample)
      node == [at |-> landing + ApfForce(landing), parent |-> from, landed |-> landing]
      grown == Append(tree, node)
  IN  /\ Planning /\ tries < MaxIterations
      /\ tries' = tries + 1
      /\ IF landing = tree[from].at
         THEN UNCHANGED <<tree, path>>
         ELSE /\ tree' = grown
              /\ path' = IF NearGoal(node.at)
                         THEN Append(Trace(grown, Len(grown)), Goal) ELSE <<>>
      /\ UNCHANGED obstacles

\* Out of iterations: straight on.
DirectLine == /\ Planning /\ tries = MaxIterations
              /\ path' = <<Start, Goal>>
              /\ UNCHANGED <<obstacles, tree, tries>>

PlannerNext == (\E sample \in Samples \cup {Goal} : Grow(sample)) \/ DirectLine

-----------------------------------------------------------------------------

PathFound == Len(tree) > 1 /\ path # <<>> /\ NearGoal(tree[Len(tree)].at)

\* A plan that was found goes from start to goal over nodes of the tree, one step
\* and one push at a time, the way it was grown, and ends within reach of the goal.
LegsWereGrown ==
  PathFound =>
    /\ path[1] = Start /\ path[Len(path)] = Goal
    /\ NearGoal(path[Len(path) - 1])
    /\ \A k \in 1 .. Len(path) - 2 :
         \E n \in DOMAIN tree :
           /\ tree[n].at = path[k + 1]
           /\ Gap(path[k], tree[n].landed) = StepSize

\* What the repulsion is for: of a single obstacle every node but the start keeps
\* its distance, unless its step ended on the very spot.  With more of them one
\* may push a node onto the other, and the direct line looks at none.
KeepsClear ==
  Cardinality(obstacles) = 1 =>
    \A n \in 2 .. Len(tree), o \in obstacles :
      tree[n].landed = o \/ Gap(tree[n].at, o) >= Clearance

\* A plan can be flown: its legs hang together, and it keeps off an obstacle.
PlanHangsTogether == LegsWereGrown /\ KeepsClear
=============================================================================
