------------------------------ MODULE FailSafe -------------------------------
(***************************************************************************)
(* FailSafeMachine (src/src/failsafe/mod.rs): one drone's fail-safe state, *)
(* driven by a tick with a battery reading, the link and the distance to   *)
(* the nearest peer.  Readings are classes: what the comparisons of tick   *)
(* tell apart.                                                             *)
(***************************************************************************)
EXTENDS Integers

CONSTANTS HoldSecs,   \* link_loss_hold_secs
          RthSecs     \* link_loss_rth_secs

ASSUME FailSafeAssumption == /\ HoldSecs \in Nat
                             /\ RthSecs \in Nat
                             /\ HoldSecs < RthSecs

\* above warn; above rth; at or below rth; not finite
Battery == {"good", "warn", "critical", "nan"}
Distance == {"clear", "near", "nan"}

\* ControlledDescent is declared and never entered.
FailSafeState == {"Nominal", "AutonomousHold", "LowBatteryWarn", "ReturnToHome",
                  "EmergencyLand", "EmergencyDiverge", "ControlledDescent"}

NoLoss == -1

VARIABLES fs,      \* state
          loss     \* seconds since link_loss_start, NoLoss when that is None

failSafeVars == <<fs, loss>>

FailSafeTypeOK == /\ fs \in FailSafeState
                  /\ loss \in NoLoss .. RthSecs + 1

FailSafeInit == /\ fs = "Nominal"
                /\ loss = NoLoss

-----------------------------------------------------------------------------

\* Highest priority: too close, or no idea how close.  The link is not looked at.
Diverge(distance) == /\ distance # "clear"
                     /\ fs' = "EmergencyDiverge"
                     /\ UNCHANGED loss

\* Mutant: every tick without link restarts the measurement.
LinkLostRestarts(distance, link) ==
  /\ distance = "clear" /\ ~link
  /\ loss' = 0
  /\ fs' = IF loss > RthSecs THEN "ReturnToHome"
           ELSE IF loss > HoldSecs THEN "AutonomousHold" ELSE fs

\* Without link, how long for decides; the battery is not looked at.
LinkLost(distance, link) ==
  LET since == IF loss = NoLoss THEN 0 ELSE loss
  IN  /\ distance = "clear" /\ ~link
      /\ loss' = since
      /\ fs' = IF since > RthSecs THEN "ReturnToHome"
               ELSE IF since > HoldSecs THEN "AutonomousHold" ELSE fs

\* The state once the link is known to be there.
Relinked == IF fs = "AutonomousHold" THEN "Nominal" ELSE fs

\* Mutant: a good battery always ends what was going on.
BatteryStateResets(battery) ==
  CASE battery \in {"nan", "critical"} -> "ReturnToHome"
    [] battery = "warn" -> "LowBatteryWarn"
    [] battery = "good" -> "Nominal"

BatteryState(battery) ==
  CASE battery \in {"nan", "critical"} -> "ReturnToHome"
    [] battery = "warn" -> "LowBatteryWarn"
    [] battery = "good" -> IF Relinked = "LowBatteryWarn" THEN "Nominal" ELSE Relinked

LinkAlive(battery, distance, link) ==
  /\ distance = "clear" /\ link
  /\ loss' = NoLoss
  /\ fs' = BatteryState(battery)

Tick(battery, distance, link) == \/ Diverge(distance)
                                 \/ LinkLost(distance, link)
                                 \/ LinkAlive(battery, distance, link)

ForceLand == /\ fs' = "EmergencyLand"
             /\ UNCHANGED loss

\* A second passes; more than RthSecs is as good as longer.
Elapse == /\ loss \in 0 .. RthSecs
          /\ loss' = loss + 1
          /\ UNCHANGED fs

=============================================================================
