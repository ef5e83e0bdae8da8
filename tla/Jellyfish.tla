-------------------------------- MODULE Jellyfish ------------------------------
(***************************************************************************)
(* JellyfishController (src/crates/ruv-jellyfish): a drone that either     *)
(* cruises with the pulse-and-drift gait or loiters, out of one budget of  *)
(* energy.  Speeds and energies are integers and quotients are rounded up: *)
(* like the real ones they then never come down to 0, and a coast loses no *)
(* more speed than the drag on its way takes.                              *)
(***************************************************************************)
EXTENDS Integers

CONSTANTS PeakSpeed, PulseAccel, \* GaitParams
          DriftFloors,           \* the drift_floor a gait may be given, 0 among them
          DragPercent,           \* drag_k per unit of time
          RecapturePercent,
          EPerDv, IdlePower,     \* EnergyModel
          StepTimes,             \* the lengths of a step, 0 for what is not positive
          RelFlow,               \* relative flow speeds a bloom command leaves
          Budget

ASSUME JellyfishAssumption ==
  /\ {PeakSpeed, PulseAccel, DragPercent} \subseteq Nat \ {0}
  /\ {EPerDv, IdlePower, Budget} \subseteq Nat
  /\ RecapturePercent \in 0 .. 99
  /\ DriftFloors \cup StepTimes \cup RelFlow \subseteq Nat

VARIABLES floor,             \* the drift floor, sanitized
          phase, speed,
          paidDv,            \* pulse_paid_dv
          actuation, idle,   \* the gait's telemetry
          mark,              \* gait_energy_mark
          spent,             \* what the controller has debited
          coasted,           \* history: how much of the gait's distance was coasted
          loitered,          \* history: what holding station has cost
          odd                \* history: an odd number of steps was cruised

gaitVars == <<floor, phase, speed, paidDv>>
countVars == <<actuation, idle, mark, coasted>>
jellyfishVars == <<gaitVars, countVars, spent, loitered, odd>>

\* The drift floor lies below the peak, and may be 0 (GaitParams::sanitized).
Sanitized(driftFloor) == IF driftFloor < PeakSpeed THEN driftFloor ELSE PeakSpeed - 1

JellyfishInit == /\ floor \in {Sanitized(f) : f \in DriftFloors}
                 /\ phase = "Pulse" /\ speed = floor
                 /\ paidDv = 0
                 /\ actuation = 0 /\ idle = 0 /\ mark = 0
                 /\ spent = 0 /\ coasted = 0 /\ loitered = 0
                 /\ odd = FALSE

UpToBudget(joules) == IF joules > Budget THEN Budget ELSE joules

RoundedUp(a, b) == (a + b - 1) \div b

-----------------------------------------------------------------------------
(* PulseDriftGait *)

\* What the stopping vortex of a pulse gives back.
Recaptured(dv) == RoundedUp(RecapturePercent * dv, 100)

\* Mutant: the coast decays toward the floor, as the comment on Drift has it,
\* and does not reach it.
CoastedToFloor(v, dt) == floor + RoundedUp(100 * (v - floor), 100 + DragPercent * dt)

\* The speed after coasting.
Coasted(v, dt) == RoundedUp(100 * v, 100 + DragPercent * dt)

\* Mutant: only the step that ends a pulse counts for its recapture.
LastPaid(dv) == dv

\* What a pulse has paid, with a step's part.
PulsePaid(dv) == paidDv + dv

PulseStep(dt) ==
  LET dv == PulseAccel * dt
      faster == speed + dv
  IN  IF faster >= PeakSpeed
      THEN /\ speed' = faster + Recaptured(PulsePaid(dv))
           /\ paidDv' = 0
           /\ phase' = "Drift"
      ELSE /\ speed' = faster
           /\ paidDv' = PulsePaid(dv)
           /\ phase' = phase

DriftStep(dt) == /\ speed' = Coasted(speed, dt)
                 /\ phase' = IF speed' <= floor THEN "Pulse" ELSE phase
                 /\ paidDv' = paidDv

ActuationEnergy(dt) == IF phase = "Pulse" THEN EPerDv * (PulseAccel * dt) ELSE 0

GaitStep(dt) == /\ UNCHANGED floor
                /\ \/ phase = "Pulse" /\ PulseStep(dt)
                   \/ phase = "Drift" /\ DriftStep(dt)

-----------------------------------------------------------------------------
(* JellyfishController *)

\* What a step debits: what the gait's total has grown by since the mark.
Grown(total) == IF total > mark THEN total - mark ELSE 0

\* Bound: once nothing is left, nothing depends on the telemetry, and it stops.
Cruise(dt) ==
  /\ GaitStep(dt)
  /\ odd' = (odd # (dt > 0))
  /\ \/ /\ spent = Budget
        /\ UNCHANGED <<countVars, spent, loitered>>
     \/ /\ spent < Budget
        /\ coasted' = coasted + (IF phase = "Drift" THEN speed' * dt ELSE 0)
        /\ actuation' = actuation + ActuationEnergy(dt)
        /\ idle' = idle + IdlePower * dt
        /\ spent' = UpToBudget(spent + Grown(actuation' + idle'))
        /\ mark' = actuation' + idle'
        /\ UNCHANGED loitered

\* station_keeping_power of the gait against a flow.
StationKeepingPower(rel) ==
  (EPerDv * DragPercent * rel) \div (100 + RecapturePercent) + IdlePower

Loiter(rel, dt) == /\ spent < Budget
                   /\ spent' = UpToBudget(spent + StationKeepingPower(rel) * dt)
                   /\ loitered' = loitered + StationKeepingPower(rel) * dt
                   /\ UNCHANGED <<gaitVars, countVars, odd>>

JellyfishNext == \E dt \in StepTimes : \/ Cruise(dt)
                                       \/ \E rel \in RelFlow : Loiter(rel, dt)

-----------------------------------------------------------------------------

\* The books: what the two ways of flying have used, in any order of theirs, is
\* debited once, up to the budget.
DebitedOnce == spent = UpToBudget(actuation + idle + loitered)

\* What pulsing has cost is at most e_per_dv * drag_k / (1 + recapture) for each
\* unit of the way that was coasted, beside what is still in the speed or not yet
\* recaptured; the way under power, where the gait has no drag, costs no more.
PulsesWithinBound ==
  (100 + RecapturePercent) * actuation
    <= EPerDv * (DragPercent * coasted + 100 * (speed - floor) + RecapturePercent * paidDv)

\* One budget for cruising and loitering, and the price of the way that a range is
\* estimated from is never exceeded: the recapture of a pulse, the drag of the
\* coast and what each step is charged fit together over any lengths of steps.
BudgetAccounts == DebitedOnce /\ (spent < Budget => PulsesWithinBound)

\* A drone that goes on cruising, with whatever loitering and steps of no length
\* in between, pulses and coasts again and again; but with a drift floor of 0,
\* which a gait may be given, it ends up coasting for good.
GaitCycles ==
  []<>(<<\E dt \in StepTimes \ {0} : Cruise(dt)>>_jellyfishVars) =>
    \/ floor > 0 /\ []<>(phase = "Pulse") /\ []<>(phase = "Drift")
    \/ floor = 0 /\ <>[](phase = "Drift")
=============================================================================
