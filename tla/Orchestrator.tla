----------------------------- MODULE Orchestrator ----------------------------
(***************************************************************************)
(* SwarmOrchestrator (src/src/orchestrator/mod.rs): the control step of    *)
(* one drone, between which peer states and peer detections come in.       *)
(* Scan, grid, coverage and motion of a mission step are one fact here:    *)
(* that the step flew.                                                     *)
(***************************************************************************)
EXTENDS FailSafe, FiniteSets

CONSTANTS Peer, Detection, NoStep

VARIABLES battery,          \* state.battery_pct
          link,             \* the link_alive argument of step
          peerStates,       \* distance each known peer is at: Peer -> Distance
          peerDetections,   \* peer_detections
          lastStep          \* history: what the last step saw, if it flew the mission

orchVars == <<battery, link, peerStates, peerDetections, lastStep>>
vars == <<failSafeVars, orchVars>>

Unknown == "unknown"

StepRecord == [battery : Battery, peers : [Peer -> Distance \cup {Unknown}]]

ASSUME OrchestratorAssumption == NoStep \notin StepRecord

TypeOK == /\ FailSafeTypeOK
          /\ battery \in Battery
          /\ link \in BOOLEAN
          /\ peerStates \in [Peer -> Distance \cup {Unknown}]
          /\ peerDetections \subseteq Detection
          /\ lastStep \in StepRecord \cup {NoStep}

Init == /\ FailSafeInit
        /\ battery = "good"
        /\ link = TRUE
        /\ peerStates = [p \in Peer |-> Unknown]
        /\ peerDetections = {}
        /\ lastStep = NoStep

-----------------------------------------------------------------------------

Seen(d) == \E p \in Peer : peerStates[p] = d

\* Mutant: a peer at an unknown place is left out of the minimum.
NearestIgnoringUnknown == IF Seen("near") THEN "near" ELSE "clear"

\* One poisoned peer makes the distance unknown; no peers make it large.
NearestPeerDistance == IF Seen("nan") THEN "nan"
                       ELSE IF Seen("near") THEN "near" ELSE "clear"

Flies(state) == state \in {"Nominal", "LowBatteryWarn"}

\* The drain of a mission step; max(0.0) turns a NaN into an empty battery.
Drained(b) == CASE b = "good" -> {"good", "warn", "critical"}
                [] b = "warn" -> {"warn", "critical"}
                [] OTHER      -> {"critical"}

Step ==
  /\ Tick(battery, NearestPeerDistance, link)
  /\ peerDetections' = {}
  /\ IF Flies(fs')
     THEN /\ battery' \in Drained(battery)
          /\ lastStep' = [battery |-> battery, peers |-> peerStates]
     ELSE UNCHANGED battery /\ lastStep' = NoStep
  /\ UNCHANGED <<link, peerStates>>

ReceivePeerState(p, d) ==
  /\ peerStates' = [peerStates EXCEPT ![p] = d]
  /\ UNCHANGED <<failSafeVars, battery, link, peerDetections, lastStep>>

ReceivePeerDetection(d) ==
  /\ peerDetections' = peerDetections \cup {d}
  /\ UNCHANGED <<failSafeVars, battery, link, peerStates, lastStep>>

Land == ForceLand /\ UNCHANGED orchVars

Second == Elapse /\ UNCHANGED orchVars

\* The flight controller sets state and the link comes and goes.
Sense(b) == /\ battery' = b
            /\ UNCHANGED <<failSafeVars, link, peerStates, peerDetections, lastStep>>

LinkChange == /\ link' = ~link
              /\ UNCHANGED <<failSafeVars, battery, peerStates, peerDetections, lastStep>>

\* Everything that happens to a drone between two steps.
Between == \/ \E p \in Peer, d \in Distance : ReceivePeerState(p, d)
           \/ \E d \in Detection : ReceivePeerDetection(d)
           \/ Land
           \/ Second
           \/ \E b \in Battery : Sense(b)
           \/ LinkChange

Next == Step \/ Between

\* The control loop keeps stepping and time keeps passing.
Spec == Init /\ [][Next]_vars /\ WF_vars(Step) /\ WF_vars(Second)

-----------------------------------------------------------------------------

\* However peers, link and battery came together: no step flew the mission with a
\* peer near, or with a peer it was told of at no place at all.
FlightIsSeparated ==
  lastStep # NoStep =>
    \A p \in Peer : lastStep.peers[p] \in {"clear", Unknown}

\* Once the link is gone for good and the drone keeps clear of its peers, it
\* returns home, whatever the battery reads and whatever state it was in, a
\* forced landing included.
LinkLossReturnsHome ==
  <>[](~link /\ NearestPeerDistance = "clear") => []<>(fs = "ReturnToHome")

Emergency == {"ReturnToHome", "EmergencyDiverge", "EmergencyLand"}

\* How an emergency ends: clear of its peers, by a battery reading that is low
\* but not critical, or by a link that has been gone for longer than the hold.
\* A restored link does not end one, nor a good battery, nor a peer that leaves,
\* and none of them leads from one straight to Nominal.
EmergencyEndings ==
  [][(fs \in Emergency /\ fs' \notin Emergency) =>
       /\ NearestPeerDistance = "clear"
       /\ \/ fs' = "LowBatteryWarn" /\ link /\ battery = "warn"
          \/ fs' = "AutonomousHold" /\ ~link /\ loss > HoldSecs]_vars

\* What the machine says of itself: a battery that is critical or does not read
\* must not let the drone keep flying nominally.
BatteryFailsClosed ==
  lastStep # NoStep => lastStep.battery \in {"good", "warn"}

=============================================================================
