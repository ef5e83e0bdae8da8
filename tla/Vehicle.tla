------------------------------- MODULE Vehicle -------------------------------
(***************************************************************************)
(* One drone in whole: the control step with its fail-safe half            *)
(* (Orchestrator) and its mission half (Coverage).  A step that the        *)
(* fail-safe machine takes over returns before the mission half.           *)
(***************************************************************************)
EXTENDS Orchestrator, Coverage

vehicleVars == <<vars, coverageVars>>

VehicleTypeOK == TypeOK /\ CoverageTypeOK

VehicleInit == Init /\ CoverageInit

VehicleStep == /\ Step
               /\ IF Flies(fs') THEN MissionStep ELSE UNCHANGED coverageVars

VehicleNext == VehicleStep \/ (Between /\ UNCHANGED coverageVars)

\* The control loop keeps stepping and time keeps passing.
VehicleSpec == /\ VehicleInit /\ [][VehicleNext]_vehicleVars
               /\ WF_vehicleVars(VehicleStep)
               /\ WF_vehicleVars(Second /\ UNCHANGED coverageVars)

-----------------------------------------------------------------------------

Swept == Cell \subseteq scanned

\* A mission step that gets somewhere, or has nowhere to go.
Advance == VehicleStep /\ Flies(fs') /\ (pos' # pos \/ NextSystematicCell(scanned') \in {pos, NoTarget})

\* However often holds, emergencies and scans come in between: a drone that
\* time and again gets to fly on sweeps every cell, unless the search leaves
\* the sweep for a contact.
SweepCompletes == []<><<Advance>>_vehicleVars => <>(Swept \/ phase # "Systematic")

\* A mission step whose scan reported a victim.
Contact == VehicleStep /\ \E conf \in Confidence : Detect(conf)

\* Contacts alone carry the search on: a victim that is reported time and again
\* ends up above both thresholds and the drone converges.
ContactsConverge == []<><<Contact>>_vehicleVars => <>(phase = "Convergence")

=============================================================================
