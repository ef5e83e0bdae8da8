-------------------------------- MODULE Training --------------------------------
(***************************************************************************)
(* The rollouts the fleet learns from (src/src/bin/train_marl.rs), with    *)
(* the curiosity of learning.rs, the rewards of reward.rs and the returns  *)
(* of candle_ppo.rs, on a corridor.  Where a flight pattern sends a drone  *)
(* is left open, and so is what the network learns: actions do not depend  *)
(* on it.                                                                  *)
(***************************************************************************)
EXTENDS Sensing

CONSTANTS Episodes, StepsPerEpisode, CheckpointEvery,
          FootprintWidth,    \* csi_scan_width_m, in places
          CuriousCells, CuriousWidth,
          Novelty,           \* beta / sqrt(count), by count; it falls
          CollisionGap,      \* min_separation_m of the rewards
          Gamma, Lambda

ASSUME TrainingAssumption ==
  /\ {Episodes, StepsPerEpisode, CuriousCells, CuriousWidth, Gamma, Lambda} \subseteq Nat \ {0}
  /\ {CheckpointEvery, FootprintWidth, CollisionGap} \subseteq Nat
  /\ Novelty \in Seq(Nat) /\ Novelty # <<>>

LearningPattern == {"Mappo", "Ippo", "MappoCuriosity", "MetaRl"}

VARIABLES learning,     \* the pattern of this training
          episode, step,
          turn,         \* the drone whose turn it is
          spot,         \* where the drones are
          seenAt,       \* where they were when the step began: what they see of each other
          scanned,      \* places in anybody's footprint, this episode
          visits,       \* of the curiosity grid
          buffer,       \* reward_buf and done_buf: every drone's transitions, in turn
          returns,      \* of the buffer, once it is over
          saved,        \* the newest checkpoint
          paid          \* history: the new places rewards were paid for

trainingVars == <<learning, episode, step, turn, spot, seenAt, scanned, visits, buffer,
                  returns, saved, paid>>

-----------------------------------------------------------------------------
(* Rewards *)

UsesCuriosity(pattern) == pattern = "MappoCuriosity"

CuriousCell(p) == Smaller(p \div CuriousWidth, CuriousCells - 1) + 1

\* The bonus of a visit goes by the visits before it.
VisitBonus(p) == LET prior == visits[CuriousCell(p)] + 1
                 IN  Novelty[Smaller(prior, Len(Novelty))]

ShapedReward(pattern, base, bonus) == IF UsesCuriosity(pattern) THEN base + bonus ELSE base

\* The places in reach of p: FootprintWidth is a diameter.
Footprint(p) == {c \in 0 .. CorridorEnd : 2 * Apart(c, p) <= FootprintWidth}

\* Mutant: every drone counts what it sees, whoever saw it before.
NewToTheDrone(p) == Footprint(p)

NewCells(p) == Footprint(p) \ scanned

\* A contact is closer than the whole width.
Detected(p) == \E v \in DOMAIN VictimAt : Apart(p, VictimAt[v]) < FootprintWidth

\* As the others were when the step began.
Collides(d, p) == \E other \in Drone \ {d} : Apart(p, seenAt[other]) < CollisionGap

\* RewardCalculator::compute, of what the training passes to it: nothing is ever
\* triangulated, out of the fence or out of battery.
ComputeReward(newCells, detected, collides) ==
  10 * newCells
  + (IF detected THEN 50 ELSE 0)
  + (IF newCells = 0 /\ ~detected THEN -2 ELSE 0)
  + (IF collides THEN -100 ELSE 0)

-----------------------------------------------------------------------------
(* Returns, over transitions [reward, done] in the order they were taken.    *)

\* CandleTrainer::compute_gae with an estimated value of each transition.
ComputeGae(transitions, values) ==
  LET n == Len(transitions)
      gae[t \in 1 .. n + 1] ==
        IF t = n + 1 THEN 0
        ELSE LET goesOn == IF transitions[t].done THEN 0 ELSE 1
                 next == IF t < n THEN values[t + 1] ELSE 0
             IN  transitions[t].reward + Gamma * next * goesOn - values[t]
                 + Gamma * Lambda * goesOn * gae[t + 1]
  IN  [t \in 1 .. n |-> gae[t] + values[t]]

\* ReplayBuffer::compute_returns, what the update without a network learns from.
ComputeReturns(transitions, gamma) ==
  LET n == Len(transitions)
      running[i \in 1 .. n + 1] ==
        IF i = n + 1 THEN 0
        ELSE transitions[i].reward
             + gamma * running[i + 1] * (IF transitions[i].done THEN 0 ELSE 1)
  IN  [i \in 1 .. n |-> running[i]]

-----------------------------------------------------------------------------

Formation == [d \in Drone |-> ((d - 1) * CorridorEnd) \div DroneCount]

NoVisits == [c \in 1 .. CuriousCells |-> 0]

TrainingInit ==
  /\ learning \in LearningPattern
  /\ episode = 1 /\ step = 1 /\ turn = 1
  /\ spot = Formation /\ seenAt = Formation
  /\ scanned = {} /\ visits = NoVisits
  /\ buffer = <<>> /\ returns = <<>>
  /\ saved = 0 /\ paid = 0

InEpisode == returns = <<>>
StepOver == turn > DroneCount
EpisodeOver == step > StepsPerEpisode

\* A drone flies towards its target, scans and is rewarded.
TakeTurn ==
  /\ InEpisode /\ ~EpisodeOver /\ ~StepOver
  /\ \E p \in 0 .. CorridorEnd :
       LET new == NewCells(p)
           base == ComputeReward(Cardinality(new), Detected(p), Collides(turn, p))
       IN  /\ Apart(p, spot[turn]) <= MaxSpeed
           /\ spot' = [spot EXCEPT ![turn] = p]
           /\ scanned' = scanned \cup new
           /\ paid' = paid + Cardinality(new)
           /\ visits' = IF UsesCuriosity(learning)
                        THEN [visits EXCEPT ![CuriousCell(p)] = @ + 1] ELSE visits
           /\ buffer' = Append(buffer,
                           [reward |-> ShapedReward(learning, base, VisitBonus(p)),
                            done   |-> step = StepsPerEpisode])
  /\ turn' = turn + 1
  /\ UNCHANGED <<learning, episode, step, seenAt, returns, saved>>

EndStep == /\ InEpisode /\ ~EpisodeOver /\ StepOver
           /\ step' = step + 1 /\ turn' = 1
           /\ seenAt' = spot
           /\ UNCHANGED <<learning, episode, spot, scanned, visits, buffer, returns, saved, paid>>

ChecksIn == \/ CheckpointEvery > 0 /\ episode % CheckpointEvery = 0
            \/ episode = Episodes

\* The update; a checkpoint that cannot be saved is reported and passed over.
EndEpisode ==
  /\ InEpisode /\ EpisodeOver
  /\ returns' = ComputeGae(buffer, [t \in DOMAIN buffer |-> 0])
  /\ \/ ChecksIn /\ saved' = episode
     \/ UNCHANGED saved
  /\ UNCHANGED <<learning, episode, step, turn, spot, seenAt, scanned, visits, buffer, paid>>

NextEpisode ==
  /\ ~InEpisode /\ episode < Episodes
  /\ episode' = episode + 1 /\ step' = 1 /\ turn' = 1
  /\ spot' = Formation /\ seenAt' = Formation
  /\ scanned' = {} /\ visits' = NoVisits
  /\ buffer' = <<>> /\ returns' = <<>> /\ paid' = 0
  /\ UNCHANGED <<learning, saved>>

TrainingNext == TakeTurn \/ EndStep \/ EndEpisode \/ NextEpisode

-----------------------------------------------------------------------------

\* Footprints overlap and drones come back, yet an episode pays for each place of
\* the area once, whichever drone it is, and novelty is drawn for every turn.
PaidOnce == /\ paid = Cardinality(scanned)
            /\ SumFunction(visits) = IF UsesCuriosity(learning) THEN Len(buffer) ELSE 0

\* The powers of Gamma * Lambda, up to the n-th.
Discounts(n) ==
  LET power[k \in 0 .. n] == IF k = 0 THEN 1 ELSE Gamma * Lambda * power[k - 1]
  IN  power

FirstDone(t) == CHOOSE k \in t .. Len(buffer) :
                  /\ buffer[k].done
                  /\ \A j \in t .. k - 1 : ~buffer[j].done

\* The fleet's transitions are one line: a return adds up the rewards of all
\* drones after it, and ends with the first turn of the last step.  No reward of
\* the later drones in that step is in any return but its own, and both ways to
\* compute returns agree on it.
ReturnsEndWithFirstDone ==
  returns # <<>> =>
    /\ \A t \in DOMAIN buffer :
         returns[t] = SumFunction([i \in 1 .. FirstDone(t) - t + 1 |->
                                    Discounts(Len(buffer))[i - 1] * buffer[t + i - 1].reward])
    /\ returns = ComputeReturns(buffer, Gamma * Lambda)

\* What the fleet is rewarded for happened, once, and ends up in the right returns.
RolloutAccounted == PaidOnce /\ ReturnsEndWithFirstDone
=============================================================================
