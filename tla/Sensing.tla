-------------------------------- MODULE Sensing --------------------------------
(***************************************************************************)
(* What drones on a corridor sense of victims: a scan of one of them       *)
(* (src/src/sensing/payload.rs), and what several scans are together       *)
(* (src/src/sensing/multiview.rs).                                         *)
(***************************************************************************)
EXTENDS Integers, Sequences, SequencesExt, FiniteSets

CONSTANTS DroneCount,
          CorridorEnd,       \* places are 0 .. CorridorEnd
          VictimAt,          \* where the victims are, in the order scans look
          MaxSpeed,          \* places a step flies
          Confidence,        \* in percent, by distance; past its end there is no contact
          Noise,             \* what confidence may lose to noise
          ReportFrom,        \* confidence a scan reports
          FuseFrom,          \* confidence a detection is fused at
          ConfirmAbove       \* fused confidence that confirms

ASSUME SensingAssumption ==
  /\ {DroneCount, CorridorEnd, MaxSpeed, ReportFrom, FuseFrom, ConfirmAbove} \subseteq Nat
  /\ Noise \subseteq Nat
  /\ VictimAt \in Seq(Int) /\ Confidence \in Seq(Nat)

Drone == 1 .. DroneCount
Apart(a, b) == IF a < b THEN b - a ELSE a - b
Smaller(a, b) == IF a < b THEN a ELSE b

\* Every drone flies towards somewhere in the corridor, or holds.
Flown(places, hop) ==
  [d \in Drone |->
     LET room == IF hop[d] >= 0 THEN CorridorEnd - places[d] ELSE places[d]
         step == Smaller(IF hop[d] >= 0 THEN hop[d] ELSE -hop[d], IF room > 0 THEN room ELSE 0)
     IN  IF hop[d] >= 0 THEN places[d] + step ELSE places[d] - step]

-----------------------------------------------------------------------------
(* A scan reports the first victim in reach it is sure enough of. *)

ConfidenceAt(place, v, noise) ==
  LET far == Apart(place, VictimAt[v])
  IN  IF far < Len(Confidence) THEN Confidence[far + 1] - noise ELSE -1

\* Nothing, or one detection, as a sequence.
Scan(d, place, noise) ==
  LET seen == {v \in DOMAIN VictimAt : ConfidenceAt(place, v, noise) >= ReportFrom}
  IN  IF seen = {} THEN <<>>
      ELSE <<[drone |-> d, confidence |-> ConfidenceAt(place, Min(seen), noise),
              victim |-> VictimAt[Min(seen)]]>>

Scans(places, noise) ==
  FlattenSeq([d \in Drone |-> Scan(d, places[d], noise)])

-----------------------------------------------------------------------------
(* MultiViewFusion::fuse; that it takes two viewpoints is up to its callers here. *)

\* The detections that are sure enough, by their place in what is heard.
Usable(heard) == {k \in DOMAIN heard : heard[k].confidence >= FuseFrom}

Mean(weights, values, used) ==
  SumFunctionOnSet([k \in used |-> weights[k] * values[k]], used)
    \div SumFunctionOnSet(weights, used)

Fused(heard) ==
  LET used    == Usable(heard)
      weights == [k \in used |-> heard[k].confidence]
  IN  [at         |-> Mean(weights, [k \in used |-> heard[k].victim], used),
       confidence |-> Mean(weights, weights, used),
       by         |-> {heard[k].drone : k \in used}]
=============================================================================
