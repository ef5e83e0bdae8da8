-------------------------------- MODULE Forecast -------------------------------
(***************************************************************************)
(* ForecastEngine (src/src/forecast/mod.rs) as the control step feeds it:  *)
(* a bounded history of telemetry, an advisory refreshed from it now and   *)
(* then, and the answer whether a drone may take on new work.  The         *)
(* forecaster itself is an external crate.                                 *)
(***************************************************************************)
EXTENDS Integers, Sequences, FiniteSets

CONSTANTS HistoryCapacity, MinimumHistory, StepMs, AdvisoryTtlMs, MaxForecastClock

ASSUME ForecastAssumption ==
  /\ {HistoryCapacity, MinimumHistory, StepMs, AdvisoryTtlMs, MaxForecastClock}
       \subseteq Nat \ {0}
  /\ MinimumHistory <= HistoryCapacity

ForecastRolloutMode == {"Disabled", "Shadow", "CanaryReduceOnly"}

VARIABLES rollout,         \* of the policy
          history,         \* of observations: when, and whether something is low
          lastAdvisory,
          lastForecastAt,
          droneTime,       \* the stamp of the drone's own state
          wallTime,        \* the clock of whoever asks for eligibility
          observed         \* history variable: every stamp ever admitted

forecastVars ==
  <<rollout, history, lastAdvisory, lastForecastAt, droneTime, wallTime, observed>>

NoTime == -1
Observation == [at : Nat, low : BOOLEAN]
ForecastAdvisory == [origin : Nat, expires : Nat, low : BOOLEAN]
NoForecast == [origin |-> NoTime, expires |-> NoTime, low |-> FALSE]

\* ForecastEngine::new disables the rollout of a policy that is out of bounds.
ForecastInit == /\ rollout \in ForecastRolloutMode
                /\ history = <<>>
                /\ lastAdvisory = NoForecast
                /\ lastForecastAt = NoTime
                /\ droneTime = 0 /\ wallTime = 0
                /\ observed = {}

-----------------------------------------------------------------------------

\* What the forecaster makes of a history whose last sample is as given: it
\* abstains, fails, or its low quantile lies no higher than that sample.
Outcome(last) == {"Abstained", "Invalid", "Low"} \cup (IF last.low THEN {} ELSE {"Fine"})

LongEnough(samples) == Len(samples) >= MinimumHistory

Refresh(samples, now) ==
  \/ /\ rollout = "Disabled" \/ ~LongEnough(samples)
     /\ UNCHANGED <<lastAdvisory, lastForecastAt>>
  \/ /\ rollout # "Disabled" /\ LongEnough(samples)
     /\ \E outcome \in Outcome(samples[Len(samples)]) :
          IF outcome \in {"Low", "Fine"}
          THEN /\ lastAdvisory' = [origin |-> now, expires |-> now + AdvisoryTtlMs,
                                   low |-> outcome = "Low"]
               /\ lastForecastAt' = now
          ELSE UNCHANGED <<lastAdvisory, lastForecastAt>>

Appended(o) == LET kept == IF Len(history) = HistoryCapacity THEN Tail(history) ELSE history
               IN  Append(kept, o)

NonMonotonic(o) == history # <<>> /\ o.at <= history[Len(history)].at

\* A sample that is out of range, or not after the last one, changes nothing.
ObserveAndForecast(o, valid) ==
  IF ~valid \/ NonMonotonic(o)
  THEN UNCHANGED <<history, lastAdvisory, lastForecastAt, observed>>
  ELSE /\ history' = Appended(o)
       /\ observed' = observed \cup {o.at}
       /\ IF lastForecastAt = NoTime \/ o.at - lastForecastAt >= StepMs
          THEN Refresh(history', o.at)
          ELSE UNCHANGED <<lastAdvisory, lastForecastAt>>

\* A control step that flies stamps the state and observes it; dt may be too
\* short for the stamp to move.
FlyingStep == /\ wallTime < MaxForecastClock
              /\ wallTime' = wallTime + 1
              /\ droneTime' \in {droneTime, droneTime + 1}
              /\ \E low, valid \in BOOLEAN :
                   ObserveAndForecast([at |-> droneTime', low |-> low], valid)
              /\ UNCHANGED rollout

\* One that the fail-safe ends early leaves stamp and engine alone.
GroundedStep == /\ wallTime < MaxForecastClock
                /\ wallTime' = wallTime + 1
                /\ UNCHANGED <<rollout, history, lastAdvisory, lastForecastAt, droneTime,
                               observed>>

ForecastNext == FlyingStep \/ GroundedStep

\* Mutant: an advisory counts for as long as there is no newer one.
EligibleForGood(now) == rollout = "CanaryReduceOnly" => ~lastAdvisory.low

IsEligibleForNewWork(now) ==
  rollout = "CanaryReduceOnly" => (now > lastAdvisory.expires \/ ~lastAdvisory.low)

-----------------------------------------------------------------------------

\* Forecasts only ever reduce, and only for as long as they are backed: who is
\* refused new work is in a canary rollout, and was seen within the lifetime
\* of an advisory, at least MinimumHistory times until then.
ReductionIsBacked ==
  ~IsEligibleForNewWork(wallTime) =>
    /\ rollout = "CanaryReduceOnly"
    /\ lastAdvisory.origin \in observed
    /\ wallTime - lastAdvisory.origin <= AdvisoryTtlMs
    /\ Cardinality({t \in observed : t <= lastAdvisory.origin}) >= MinimumHistory
    /\ lastAdvisory.origin <= droneTime
=============================================================================
