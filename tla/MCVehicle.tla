------------------------------ MODULE MCVehicle ------------------------------
(* Vehicle in two halves, so that their states add up: the control step of *)
(* a drone among peers, and the whole of one that hears of none on a grid  *)
(* of two by two cells.                                                    *)
EXTENDS Vehicle

VARIABLE half

MCStart == <<1, 0>>
MCVictim == {<<1, 1>>}

halfVars == <<vehicleVars, half>>

HalfInit == VehicleInit /\ half \in {"control", "mission"}

InControl == half = "control" /\ UNCHANGED <<coverageVars, half>>
\* It hears of no peers and of no detections.
InMission == /\ half = "mission" /\ UNCHANGED half
             /\ peerStates' = peerStates /\ peerDetections' = {}

HalfNext == \/ InControl /\ Next
            \/ InMission /\ VehicleNext

\* The fairness of Spec and of VehicleSpec, for the half it is about.
HalfSpec == /\ HalfInit /\ [][HalfNext]_halfVars
            /\ WF_halfVars(InControl /\ Step) /\ WF_halfVars(InMission /\ VehicleStep)
            /\ WF_halfVars(Second /\ UNCHANGED <<coverageVars, half>>)
=============================================================================
