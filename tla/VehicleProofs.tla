---------------------------- MODULE VehicleProofs ----------------------------
(***************************************************************************)
(* Theorems about one drone: the control step among its peers              *)
(* (Orchestrator), for every set of peers and every pair of link-loss      *)
(* times, and the whole drone (Vehicle), for every grid, every placing of  *)
(* victims and every threshold besides.                                    *)
(***************************************************************************)
EXTENDS Vehicle, FiniteSetTheorems, TLAPS

-----------------------------------------------------------------------------
(* The control step *)

IInv == TypeOK /\ FlightIsSeparated

LEMMA InitIInv == Init => IInv
<1> SUFFICES ASSUME Init PROVE IInv
  OBVIOUS
<1>1. TypeOK
  BY FailSafeAssumption
     DEF Init, FailSafeInit, TypeOK, FailSafeTypeOK, FailSafeState, NoLoss, Battery
<1>2. FlightIsSeparated
  BY DEF Init, FlightIsSeparated
<1> QED
  BY <1>1, <1>2 DEF IInv

\* A fail-safe tick that lets the drone fly saw every peer clear of it, or at
\* a place it was not told: a distance that is not a number diverts it.
LEMMA FliesOnlyClear ==
  ASSUME TypeOK, Tick(battery, NearestPeerDistance, link), Flies(fs')
  PROVE  \A p \in Peer : peerStates[p] \in {"clear", Unknown}
<1>1. NearestPeerDistance = "clear"
  BY DEF Tick, Diverge, LinkLost, LinkAlive, Flies
<1>2. ~Seen("nan") /\ ~Seen("near")
  BY <1>1 DEF NearestPeerDistance
<1> QED
  BY <1>2 DEF Seen, TypeOK, Distance

LEMMA TickType ==
  ASSUME TypeOK, Tick(battery, NearestPeerDistance, link)
  PROVE  FailSafeTypeOK'
<1>1. fs \in FailSafeState /\ loss \in Int /\ NoLoss <= loss /\ loss <= RthSecs + 1
  BY FailSafeAssumption DEF TypeOK, FailSafeTypeOK, NoLoss
<1>2. CASE Diverge(NearestPeerDistance)
  BY <1>1, <1>2 DEF Diverge, FailSafeTypeOK, FailSafeState
<1>3. CASE LinkLost(NearestPeerDistance, link)
  BY <1>1, <1>3, FailSafeAssumption DEF LinkLost, FailSafeTypeOK, FailSafeState, NoLoss
<1>4. CASE LinkAlive(battery, NearestPeerDistance, link)
  <2>1. BatteryState(battery) \in FailSafeState
    BY <1>1 DEF TypeOK, Battery, BatteryState, Relinked, FailSafeState
  <2> QED
    BY <1>4, <2>1, FailSafeAssumption DEF LinkAlive, FailSafeTypeOK, NoLoss
<1> QED
  BY <1>2, <1>3, <1>4 DEF Tick

LEMMA StepIInv == IInv /\ Step => IInv'
<1> SUFFICES ASSUME IInv, Step PROVE IInv'
  OBVIOUS
<1>1. FailSafeTypeOK'
  BY TickType DEF IInv, Step
<1>2. CASE Flies(fs')
  <2>1. /\ battery' \in Drained(battery)
        /\ lastStep' = [battery |-> battery, peers |-> peerStates]
    BY <1>2 DEF Step
  <2>2. battery' \in Battery
    BY <2>1 DEF Drained, Battery
  <2>3. lastStep' \in StepRecord
    BY <2>1 DEF IInv, TypeOK, StepRecord
  <2>4. \A p \in Peer : lastStep'.peers[p] \in {"clear", Unknown}
    BY <1>2, <2>1, FliesOnlyClear DEF IInv, Step
  <2> QED
    BY <1>1, <2>2, <2>3, <2>4 DEF IInv, Step, TypeOK, FlightIsSeparated
<1>3. CASE ~Flies(fs')
  BY <1>1, <1>3 DEF IInv, Step, TypeOK, FlightIsSeparated
<1> QED
  BY <1>2, <1>3

LEMMA BetweenIInv == IInv /\ Between => IInv'
<1> SUFFICES ASSUME IInv, Between PROVE IInv'
  OBVIOUS
<1> USE DEF IInv, TypeOK, FlightIsSeparated
<1>1. ASSUME NEW p \in Peer, NEW d \in Distance, ReceivePeerState(p, d) PROVE IInv'
  BY <1>1 DEF ReceivePeerState, failSafeVars, FailSafeTypeOK
<1>2. ASSUME NEW d \in Detection, ReceivePeerDetection(d) PROVE IInv'
  BY <1>2 DEF ReceivePeerDetection, failSafeVars, FailSafeTypeOK
<1>3. CASE Land
  BY <1>3 DEF Land, ForceLand, orchVars, FailSafeTypeOK, FailSafeState
<1>4. CASE Second
  BY <1>4, FailSafeAssumption DEF Second, Elapse, orchVars, FailSafeTypeOK, NoLoss
<1>5. ASSUME NEW b \in Battery, Sense(b) PROVE IInv'
  BY <1>5 DEF Sense, failSafeVars, FailSafeTypeOK
<1>6. CASE LinkChange
  BY <1>6 DEF LinkChange, failSafeVars, FailSafeTypeOK
<1> QED
  BY <1>1, <1>2, <1>3, <1>4, <1>5, <1>6 DEF Between

LEMMA NextIInv == IInv /\ [Next]_vars => IInv'
<1>1. IInv /\ UNCHANGED vars => IInv'
  BY DEF vars, failSafeVars, orchVars, IInv, TypeOK, FailSafeTypeOK, FlightIsSeparated
<1> QED
  BY <1>1, StepIInv, BetweenIInv DEF Next

LEMMA SpecIInv == Spec => []IInv
  BY InitIInv, NextIInv, PTL DEF Spec

\* Every variable of the orchestrator keeps its type: the time without link stays
\* within what the fail-safe machine tells apart.
THEOREM OrchestratorTypes == Spec => []TypeOK
<1>1. IInv => TypeOK
  BY DEF IInv
<1> QED
  BY <1>1, SpecIInv, PTL

\* However peer states, link and battery readings and forced landings come in
\* between: SwarmOrchestrator::step flies the mission on no step that sees a
\* peer near or at no place at all, for any number of peers.
THEOREM FlightKeepsApart == Spec => []FlightIsSeparated
<1>1. IInv => FlightIsSeparated
  BY DEF IInv
<1> QED
  BY <1>1, SpecIInv, PTL

EndsOnlySo ==
  (fs \in Emergency /\ fs' \notin Emergency) =>
    /\ NearestPeerDistance = "clear"
    /\ \/ fs' = "LowBatteryWarn" /\ link /\ battery = "warn"
       \/ fs' = "AutonomousHold" /\ ~link /\ loss > HoldSecs

\* Only a step reads peers, link and battery, and only two of its branches lead
\* out of an emergency: a warning, and a link lost for longer than the hold.
LEMMA NextEndsOnlySo == IInv /\ [Next]_vars => EndsOnlySo
<1> SUFFICES ASSUME IInv, [Next]_vars, fs \in Emergency, fs' \notin Emergency
             PROVE  /\ NearestPeerDistance = "clear"
                    /\ \/ fs' = "LowBatteryWarn" /\ link /\ battery = "warn"
                       \/ fs' = "AutonomousHold" /\ ~link /\ loss > HoldSecs
  BY DEF EndsOnlySo
<1> USE DEF Emergency
<1>1. CASE Step
  <2>1. CASE Diverge(NearestPeerDistance)
    BY <2>1 DEF Diverge
  <2>2. CASE LinkLost(NearestPeerDistance, link)
    <3>1. ~(0 > HoldSecs)
      BY FailSafeAssumption
    <3>2. NearestPeerDistance = "clear" /\ ~link
      BY <2>2 DEF LinkLost
    <3>3. fs' = "AutonomousHold" /\ loss > HoldSecs
      BY <2>2, <3>1 DEF LinkLost
    <3> QED
      BY <3>2, <3>3
  <2>3. CASE LinkAlive(battery, NearestPeerDistance, link)
    <3>1. NearestPeerDistance = "clear" /\ link /\ fs' = BatteryState(battery)
      BY <2>3 DEF LinkAlive
    <3>2. battery # "good"
      BY <3>1 DEF BatteryState, Relinked
    <3>3. battery = "warn" /\ fs' = "LowBatteryWarn"
      BY <3>1, <3>2 DEF BatteryState, IInv, TypeOK, Battery
    <3> QED
      BY <3>1, <3>3
  <2> QED
    BY <1>1, <2>1, <2>2, <2>3 DEF Step, Tick
<1>2. CASE Between
  BY <1>2 DEF Between, ReceivePeerState, ReceivePeerDetection, Land, ForceLand, Second, Elapse,
              Sense, LinkChange, failSafeVars
<1>3. CASE UNCHANGED vars
  BY <1>3 DEF vars, failSafeVars
<1> QED
  BY <1>1, <1>2, <1>3 DEF Next

\* FailSafeMachine leaves an emergency in two ways only, both clear of all peers:
\* to LowBatteryWarn by a battery reading that is low and not critical, and to
\* AutonomousHold by a link that is gone for longer than the hold.
THEOREM EmergencyEndsOnlySo == Spec => EmergencyEndings
<1>1. IInv /\ [Next]_vars => [EndsOnlySo]_vars
  BY NextEndsOnlySo
<1> QED
  BY <1>1, SpecIInv, PTL DEF Spec, EmergencyEndings, EndsOnlySo

-----------------------------------------------------------------------------
(* The whole drone *)

\* The mission half takes nothing away from the control step: whatever Spec's
\* steps keep, VehicleSpec's keep.
LEMMA VehicleSteps == VehicleInit /\ [][VehicleNext]_vehicleVars => Init /\ [][Next]_vars
<1>1. VehicleInit => Init
  BY DEF VehicleInit
<1>2. [VehicleNext]_vehicleVars => [Next]_vars
  BY DEF VehicleNext, VehicleStep, Next, vehicleVars
<1> QED
  BY <1>1, <1>2, PTL

\* Neither flying apart from its peers nor the two ways out of an emergency are
\* lost with the mission half of SwarmOrchestrator::step in place.
THEOREM VehicleKeepsApart == VehicleSpec => []FlightIsSeparated /\ EmergencyEndings
<1>1. Init /\ [][Next]_vars => []IInv
  BY InitIInv, NextIInv, PTL
<1>2. IInv => FlightIsSeparated
  BY DEF IInv
<1>3. IInv /\ [Next]_vars => [EndsOnlySo]_vars
  BY NextEndsOnlySo
<1> QED
  BY <1>1, <1>2, <1>3, VehicleSteps, PTL DEF VehicleSpec, EmergencyEndings, EndsOnlySo

-----------------------------------------------------------------------------
(* The mission half *)

LEMMA CellsAreFinite == IsFiniteSet(Cell) /\ Cardinality(Cell) = Width * Height
<1> DEFINE X == 0 .. Width - 1
           Y == 0 .. Height - 1
<1>1. IsFiniteSet(X) /\ Cardinality(X) = Width
  BY FS_Interval, CoverageAssumption
<1>2. IsFiniteSet(Y) /\ Cardinality(Y) = Height
  BY FS_Interval, CoverageAssumption
<1> HIDE DEF X, Y
<1>3. IsFiniteSet(X \X Y) /\ Cardinality(X \X Y) = Width * Height
  BY <1>1, <1>2, FS_Product
<1> QED
  BY <1>3 DEF Cell, X, Y

\* A report or a scan from any cell lands on a cell of the grid, whether the
\* clamp is the grid's own size or the one rounded down.
LEMMA PosToCellType == ASSUME NEW c \in Cell PROVE PosToCell(c) \in Cell
<1>1. /\ Width \in Nat /\ ReachWidth \in 1 .. Width
      /\ Height \in Nat /\ ReachHeight \in 1 .. Height
  BY CoverageAssumption
<1>2. c[1] \in 0 .. Width - 1 /\ c[2] \in 0 .. Height - 1
  BY DEF Cell
<1>3. Lesser(c[1], ReachWidth - 1) \in 0 .. Width - 1
  BY <1>1, <1>2 DEF Lesser
<1>4. Lesser(c[2], ReachHeight - 1) \in 0 .. Height - 1
  BY <1>1, <1>2 DEF Lesser
<1> QED
  BY <1>3, <1>4 DEF PosToCell, Cell

LEMMA Percentage ==
  ASSUME NEW a \in Nat, NEW b \in Nat, a + b # 0
  PROVE  (100 * a) \div (a + b) \in 0 .. 100
<1> DEFINE d == a + b
           q == (100 * a) \div d
           r == (100 * a) % d
<1>1. d \in Nat \ {0} /\ a <= d
  OBVIOUS
<1> HIDE DEF d
<1>2. q \in Int /\ r \in 0 .. d - 1 /\ 100 * a = d * q + r
  BY <1>1
<1> HIDE DEF q, r
<1>3. q >= 0
  <2> SUFFICES ASSUME q <= -1 PROVE FALSE
    BY <1>2
  <2>1. d * q <= d * (-1)
    BY <1>1, <1>2
  <2> QED
    BY <1>1, <1>2, <2>1
<1>4. q <= 100
  <2> SUFFICES ASSUME q >= 101 PROVE FALSE
    BY <1>2
  <2>1. d * q >= d * 101
    BY <1>1, <1>2
  <2> QED
    BY <1>1, <1>2, <2>1
<1> QED
  BY <1>2, <1>3, <1>4 DEF q, d

LEMMA PosteriorType ==
  ASSUME NEW prior \in 0 .. 100, NEW conf \in 0 .. 100
  PROVE  Posterior(prior, conf) \in 0 .. 100
<1> DEFINE hit == conf * prior
           miss == (100 - conf) * (100 - prior)
<1>1. hit \in Nat /\ miss \in Nat
  OBVIOUS
<1> HIDE DEF hit, miss
<1>2. hit + miss # 0 => (100 * hit) \div (hit + miss) \in 0 .. 100
  BY <1>1, Percentage
<1> QED
  BY <1>1, <1>2 DEF Posterior, hit, miss

\* The count reported in MissionStats is that of the cells marked as scanned,
\* which is what keeps it within the size of the grid.
CountsScanned == covered = Cardinality(scanned)

MissionIInv == CoverageTypeOK /\ CountsScanned

LEMMA CoverageInitIInv == CoverageInit => MissionIInv
<1> SUFFICES ASSUME CoverageInit PROVE MissionIInv
  OBVIOUS
<1>1. Width * Height \in Nat
  BY CoverageAssumption
<1>2. CoverageTypeOK
  BY <1>1, CoverageAssumption DEF CoverageInit, CoverageTypeOK, Prior, Saturated, Phase
<1>3. CountsScanned
  BY FS_EmptySet DEF CoverageInit, CountsScanned
<1> QED
  BY <1>2, <1>3 DEF MissionIInv

LEMMA MissionStepIInv == MissionIInv /\ MissionStep => MissionIInv'
<1> SUFFICES ASSUME MissionIInv, MissionStep PROVE MissionIInv'
  OBVIOUS
<1> DEFINE here == PosToCell(pos)
<1>1. here \in Cell
  BY PosToCellType DEF MissionIInv, CoverageTypeOK
<1>2. prob' \in [Cell -> 0 .. 100] /\ pheromone' \in [Cell -> 0 .. Saturated]
  <2>1. CASE Miss
    BY <2>1 DEF Miss, MissionIInv, CoverageTypeOK
  <2>2. ASSUME NEW conf \in Confidence, NEW v \in InRange(pos), UpdateBayesian(PosToCell(v), conf)
        PROVE  prob' \in [Cell -> 0 .. 100] /\ pheromone' \in [Cell -> 0 .. Saturated]
    <3> DEFINE c == PosToCell(v)
    <3>1. v \in Cell /\ conf \in 0 .. 100
      BY CoverageAssumption DEF InRange
    <3>2. c \in Cell
      BY <3>1, PosToCellType
    <3> HIDE DEF c
    <3>3. prob[c] \in 0 .. 100 /\ pheromone[c] \in 0 .. Saturated
      BY <3>2 DEF MissionIInv, CoverageTypeOK
    <3>4. Posterior(prob[c], conf) \in 0 .. 100
      BY <3>1, <3>3, PosteriorType
    <3>5. Lesser(pheromone[c] + 1, Saturated) \in 0 .. Saturated
      BY <3>3 DEF Lesser, Saturated
    <3>6. /\ prob' = [prob EXCEPT ![c] = Posterior(prob[c], conf)]
          /\ pheromone' = [pheromone EXCEPT ![c] = Lesser(pheromone[c] + 1, Saturated)]
      BY <2>2 DEF UpdateBayesian, c
    <3> QED
      BY <3>2, <3>4, <3>5, <3>6 DEF MissionIInv, CoverageTypeOK
  <2> QED
    BY <2>1, <2>2 DEF MissionStep, Detect
<1>3. scanned' = scanned \cup {here} /\ scanned' \subseteq Cell
  BY <1>1 DEF MissionStep, MarkScanned, MissionIInv, CoverageTypeOK
<1>4. CountsScanned'
  <2>1. IsFiniteSet(scanned)
    BY CellsAreFinite, FS_Subset DEF MissionIInv, CoverageTypeOK
  <2>2. Cardinality(scanned') = IF here \in scanned THEN covered ELSE covered + 1
    BY <1>3, <2>1, FS_AddElement DEF MissionIInv, CountsScanned
  <2> QED
    BY <2>2 DEF MissionStep, MarkScanned, CountsScanned
<1>5. covered' \in 0 .. Width * Height
  <2>1. IsFiniteSet(scanned') /\ Cardinality(scanned') <= Width * Height
    BY <1>3, CellsAreFinite, FS_Subset
  <2>2. Cardinality(scanned') \in Nat /\ Width * Height \in Nat
    BY <2>1, FS_CardinalityType, CoverageAssumption
  <2> QED
    BY <1>4, <2>1, <2>2 DEF CountsScanned
<1>6. phase' \in Phase
  BY DEF MissionStep, PhaseAfter, MissionIInv, CoverageTypeOK, Phase
<1>7. pos' \in Cell
  BY DEF MissionStep, Move, Toward, MissionIInv, CoverageTypeOK
<1> QED
  BY <1>2, <1>3, <1>4, <1>5, <1>6, <1>7 DEF MissionIInv, CoverageTypeOK

\* The grid's probabilities stay percentages through every Bayesian update, every
\* scan, report and move stays on the grid although pos_to_cell clamps by a size
\* rounded down, and cells_covered is the number of cells marked as scanned, for
\* every size of the grid.
THEOREM MissionStaysOnGrid == VehicleSpec => [](CoverageTypeOK /\ CountsScanned)
<1>1. VehicleInit => MissionIInv
  BY CoverageInitIInv DEF VehicleInit
<1>2. MissionIInv /\ UNCHANGED coverageVars => MissionIInv'
  BY DEF MissionIInv, CoverageTypeOK, CountsScanned, coverageVars
<1>3. MissionIInv /\ [VehicleNext]_vehicleVars => MissionIInv'
  BY <1>2, MissionStepIInv DEF VehicleNext, VehicleStep, vehicleVars
<1> QED
  BY <1>1, <1>3, PTL DEF VehicleSpec, MissionIInv

=============================================================================
