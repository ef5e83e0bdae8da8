------------------------------- MODULE MCSarLoop -------------------------------
(* Three drones over two victims; a scan is made where a step begins. *)
EXTENDS SarLoop

MCVictims == <<1, 5>>
MCConfidence == <<90, 80>>
=============================================================================
