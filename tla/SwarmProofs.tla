------------------------------ MODULE SwarmProofs -----------------------------
(***************************************************************************)
(* Theorems about the services of a swarm, each by itself: RuFlo           *)
(* trajectories, forecasts, gossip, the budget of a jellyfish, the bloom   *)
(* of a fleet, the auction and the rollouts of a training, for every size  *)
(* and every bound.                                                        *)
(***************************************************************************)
EXTENDS Ruflo, Forecast, Gossip, Jellyfish, Bloom, Auction, Training, FoldLemmas,
        FunctionTheorems, SequenceTheorems

RufloSpec == RufloInit /\ [][RufloNext]_rufloVars
ForecastSpec == ForecastInit /\ [][ForecastNext]_forecastVars
GossipSpec == GossipInit /\ [][GossipNext]_gossipVars
JellyfishSpec == JellyfishInit /\ [][JellyfishNext]_jellyfishVars
BloomSpec == BloomInit /\ [][BloomTick]_bloomVars
AuctionSpec == AuctionInit /\ [][AuctionNext]_auctionVars
TrainingSpec == TrainingInit /\ [][TrainingNext]_trainingVars

-----------------------------------------------------------------------------
(* Ruflo: the orchestrator knows no trajectory that was not begun, which is *)
(* why one that begins has never been ended.                                *)

RufloTypes == /\ started \in 0 .. MaxTrajectories
              /\ trajectoryId \in {UnknownTrajectory, NoTrajectory} \cup 1 .. started
              /\ ended \in [Trajectory -> Nat]

RufloIInv == RufloTypes /\ EndedOnce

LEMMA RufloInitIInv == RufloInit => RufloIInv
  BY RufloAssumption
     DEF RufloInit, RufloIInv, RufloTypes, EndedOnce, Trajectory, NoTrajectory, UnknownTrajectory

LEMMA StartIInv == ASSUME RufloIInv, StartTrajectory PROVE RufloIInv'
<1>1. PICK call \in CallTool : \E answer \in StartAnswers(call) :
        /\ started' = IF call.done THEN started + 1 ELSE started
        /\ trajectoryId' = IF answer = RufloError THEN trajectoryId ELSE answer
  BY DEF StartTrajectory
<1>2. started < MaxTrajectories /\ ended' = ended /\ started \in Nat
  BY RufloAssumption DEF StartTrajectory, RufloIInv, RufloTypes
<1>3. CASE ~call.done
  <2>1. started' = started /\ trajectoryId' = trajectoryId
    BY <1>1, <1>3 DEF StartAnswers, Succeeds
  <2> QED
    BY <1>2, <2>1 DEF RufloIInv, RufloTypes, EndedOnce
<1>4. CASE call.done
  <2>1. /\ started' = started + 1
        /\ trajectoryId' \in {trajectoryId, started + 1, UnknownTrajectory}
    BY <1>1, <1>4 DEF StartAnswers
  <2>2. RufloTypes'
    BY <1>2, <2>1, RufloAssumption
       DEF RufloIInv, RufloTypes, Trajectory, NoTrajectory, UnknownTrajectory
  <2>3. EndedOnce'
    BY <1>2, <2>1, RufloAssumption
       DEF RufloIInv, RufloTypes, EndedOnce, Trajectory, NoTrajectory, UnknownTrajectory
  <2> QED
    BY <2>2, <2>3 DEF RufloIInv
<1> QED
  BY <1>3, <1>4 DEF CallTool

LEMMA FinishIInv ==
  ASSUME RufloIInv, NEW outcome \in Outcomes, FinishTrajectory(outcome)
  PROVE  RufloIInv'
<1>1. PICK end \in CallTool : /\ trajectoryId' = NoTrajectory
                              /\ ended' = TrajectoryEnd(trajectoryId, end)
                              /\ started' = started
  BY DEF FinishTrajectory, Taken
<1>2. CASE ended' = ended
  BY <1>1, <1>2 DEF RufloIInv, RufloTypes, EndedOnce, Trajectory, NoTrajectory
<1>3. CASE trajectoryId \in Trajectory /\ ended' = [ended EXCEPT ![trajectoryId] = @ + 1]
  BY <1>1, <1>3, RufloAssumption
     DEF RufloIInv, RufloTypes, EndedOnce, Trajectory, NoTrajectory, UnknownTrajectory
<1> QED
  BY <1>1, <1>2, <1>3 DEF TrajectoryEnd

\* However calls of the daemon fail, no trajectory is ended twice or while it is
\* the orchestrator's (start_trajectory, finish_trajectory).
THEOREM TrajectoriesEndOnce == RufloSpec => []EndedOnce
<1>1. RufloIInv /\ [RufloNext]_rufloVars => RufloIInv'
  <2> SUFFICES ASSUME RufloIInv, [RufloNext]_rufloVars PROVE RufloIInv'
    OBVIOUS
  <2>1. CASE UNCHANGED <<trajectoryId, started, ended>>
    BY <2>1 DEF RufloIInv, RufloTypes, EndedOnce
  <2>2. CASE UNCHANGED rufloVars
    BY <2>1, <2>2 DEF rufloVars
  <2>3. ASSUME NEW safe \in BOOLEAN, ReceivePeerDetectionChecked(safe) PROVE RufloIInv'
    BY <2>1, <2>3 DEF ReceivePeerDetectionChecked
  <2>4. CASE ClearDetections
    BY <2>1, <2>4 DEF ClearDetections
  <2> QED
    BY <2>2, <2>3, <2>4, StartIInv, FinishIInv DEF RufloNext
<1>2. RufloIInv => EndedOnce
  BY DEF RufloIInv
<1> QED
  BY RufloInitIInv, <1>1, <1>2, PTL DEF RufloSpec

-----------------------------------------------------------------------------
(* Forecast: the samples of a history are as many instants, each of them    *)
(* observed, so an advisory made of enough of them is backed by as many.    *)

HistoryKept == /\ history \in Seq(Observation)
               /\ \A i, j \in DOMAIN history : i < j => history[i].at < history[j].at
               /\ \A i \in DOMAIN history : /\ history[i].at \in observed
                                            /\ history[i].at <= droneTime

ObservedUntil(instant) == {t \in observed : t <= instant}

AdvisoryBacked ==
  \/ lastAdvisory = NoForecast
  \/ /\ lastAdvisory \in ForecastAdvisory
     /\ lastAdvisory.expires = lastAdvisory.origin + AdvisoryTtlMs
     /\ lastAdvisory.origin \in observed
     /\ lastAdvisory.origin <= droneTime
     /\ Cardinality(ObservedUntil(lastAdvisory.origin)) >= MinimumHistory

ForecastTypes == /\ droneTime \in Nat /\ wallTime \in Nat
                 /\ observed \in SUBSET Nat /\ IsFiniteSet(observed)

ForecastIInv == ForecastTypes /\ HistoryKept /\ AdvisoryBacked

LEMMA ForecastInitIInv == ForecastInit => ForecastIInv
<1> SUFFICES ASSUME ForecastInit PROVE ForecastIInv
  OBVIOUS
<1>1. ForecastTypes /\ AdvisoryBacked
  BY FS_EmptySet DEF ForecastInit, ForecastTypes, AdvisoryBacked
<1>2. HistoryKept
  BY DEF ForecastInit, HistoryKept
<1> QED
  BY <1>1, <1>2 DEF ForecastIInv

LEMMA SampleType ==
  ASSUME NEW h \in Seq(Observation), NEW i \in DOMAIN h
  PROVE  h[i] \in Observation /\ h[i].at \in Nat
<1>1. h[i] \in Observation
  OBVIOUS
<1> QED
  BY <1>1 DEF Observation

\* A sequence of increasing instants within a finite set of instants counts them.
LEMMA IncreasingCounts ==
  ASSUME NEW S, IsFiniteSet(S), NEW h \in Seq(Observation),
         \A i, j \in DOMAIN h : i < j => h[i].at < h[j].at,
         \A i \in DOMAIN h : h[i].at \in S
  PROVE  Cardinality(S) >= Len(h)
<1> DEFINE f == [i \in 1 .. Len(h) |-> h[i].at]
<1>1. \A i \in 1 .. Len(h) : h[i].at \in Nat
  BY SampleType
<1>2. f \in [1 .. Len(h) -> S]
  OBVIOUS
<1>3. \A i, j \in 1 .. Len(h) : f[i] = f[j] => i = j
  <2> SUFFICES ASSUME NEW i \in 1 .. Len(h), NEW j \in 1 .. Len(h), i < j
               PROVE  f[i] # f[j]
    OBVIOUS
  <2> QED
    BY <1>1
<1>4. f \in Injection(1 .. Len(h), S)
  BY <1>2, <1>3, Fun_IsInj
<1>5. Cardinality(1 .. Len(h)) <= Cardinality(S)
  BY <1>4, FS_Injection
<1>6. Cardinality(1 .. Len(h)) = Len(h)
  <2> DEFINE n == Len(h)
  <2>1. n \in Nat
    OBVIOUS
  <2> HIDE DEF n, f
  <2>2. 1 \in Int /\ n \in Int
    BY <2>1
  <2>3. Cardinality(1 .. n) = IF 1 > n THEN 0 ELSE n - 1 + 1
    BY ONLY <2>2, FS_Interval
  <2>4. Cardinality(1 .. n) = n
    BY <2>1, <2>3
  <2> QED
    BY <2>4 DEF n
<1> QED
  BY <1>5, <1>6, FS_CardinalityType

LEMMA AppendedKept ==
  ASSUME ForecastTypes, HistoryKept, NEW o \in Observation, ~NonMonotonic(o)
  PROVE  /\ Appended(o) \in Seq(Observation)
         /\ \A i, j \in DOMAIN Appended(o) : i < j => Appended(o)[i].at < Appended(o)[j].at
         /\ \A i \in DOMAIN Appended(o) : /\ Appended(o)[i].at \in observed \cup {o.at}
                                          /\ Appended(o)[i].at <= o.at
         /\ Appended(o) # <<>> /\ Appended(o)[Len(Appended(o))] = o
<1> DEFINE kept == IF Len(history) = HistoryCapacity THEN Tail(history) ELSE history
<1>1. history \in Seq(Observation) /\ o.at \in Nat
  BY DEF HistoryKept, Observation
<1>2. \A i \in DOMAIN history : history[i].at \in Nat /\ history[i].at < o.at
  <2> SUFFICES ASSUME NEW i \in DOMAIN history
               PROVE  history[i].at \in Nat /\ history[i].at < o.at
    OBVIOUS
  <2>1. /\ history # <<>> /\ Len(history) \in DOMAIN history
        /\ i = Len(history) \/ i < Len(history)
    BY <1>1
  <2>2. history[i].at \in Nat /\ history[Len(history)].at \in Nat
    BY <1>1, <2>1, SampleType
  <2>3. history[Len(history)].at < o.at
    BY <1>1, <2>1, <2>2 DEF NonMonotonic
  <2>4. history[i].at <= history[Len(history)].at
    BY <2>1, <2>2 DEF HistoryKept
  <2> QED
    BY <1>1, <2>2, <2>3, <2>4
<1>3. /\ kept \in Seq(Observation)
      /\ \A i, j \in DOMAIN kept : i < j => kept[i].at < kept[j].at
      /\ \A i \in DOMAIN kept : kept[i].at \in observed /\ kept[i].at < o.at
  <2>1. CASE Len(history) = HistoryCapacity
    <3>1. history # <<>>
      BY <1>1, <2>1, ForecastAssumption
    <3>2. /\ kept \in Seq(Observation) /\ Len(kept) = Len(history) - 1
          /\ \A i \in DOMAIN kept : i + 1 \in DOMAIN history /\ kept[i] = history[i + 1]
      BY <1>1, <2>1, <3>1
    <3>3. \A i \in DOMAIN kept : i \in Nat
      BY <1>1, <3>2
    <3> HIDE DEF kept
    <3> QED
      BY <1>2, <3>2, <3>3 DEF HistoryKept
  <2>2. CASE Len(history) # HistoryCapacity
    BY <1>1, <1>2, <2>2 DEF HistoryKept
  <2> QED
    BY <2>1, <2>2
<1>4. Appended(o) = Append(kept, o)
  BY DEF Appended
<1> HIDE DEF kept
<1> DEFINE h == Append(kept, o)
<1>5. /\ h \in Seq(Observation) /\ Len(h) = Len(kept) + 1
      /\ h[Len(h)] = o
      /\ \A i \in DOMAIN h : i # Len(h) => i \in DOMAIN kept /\ h[i] = kept[i]
  BY <1>3
<1>6. h # <<>> /\ DOMAIN h = 1 .. Len(h) /\ Len(h) \in Nat
  BY <1>3
<1> HIDE DEF h
<1>7. \A i, j \in DOMAIN h : i < j => h[i].at < h[j].at
  BY <1>3, <1>5, <1>6
<1>8. \A i \in DOMAIN h : h[i].at \in observed \cup {o.at} /\ h[i].at <= o.at
  <2> SUFFICES ASSUME NEW i \in DOMAIN h
               PROVE  h[i].at \in observed \cup {o.at} /\ h[i].at <= o.at
    OBVIOUS
  <2>1. h[i].at \in Nat
    BY <1>5, SampleType
  <2> QED
    BY <1>1, <1>3, <1>5, <2>1
<1> QED
  BY <1>4, <1>5, <1>6, <1>7, <1>8 DEF h

LEMMA FlyingIInv == ASSUME ForecastIInv, FlyingStep PROVE ForecastIInv'
<1>1. /\ droneTime \in Nat /\ droneTime' \in Nat /\ droneTime <= droneTime'
      /\ wallTime' \in Nat
  BY DEF ForecastIInv, ForecastTypes, FlyingStep
<1>2. PICK low, valid \in BOOLEAN :
        ObserveAndForecast([at |-> droneTime', low |-> low], valid)
  BY DEF FlyingStep
<1> DEFINE o == [at |-> droneTime', low |-> low]
<1>3. o \in Observation /\ o.at = droneTime'
  BY <1>1 DEF Observation
<1>4. ObserveAndForecast(o, valid)
  BY <1>2
<1> HIDE DEF o
<1>5. /\ \A i \in DOMAIN history : history[i].at \in Nat
      /\ \A i \in DOMAIN history : history[i].at <= droneTime'
  <2>1. \A i \in DOMAIN history : history[i].at \in Nat /\ history[i].at <= droneTime
    BY SampleType DEF ForecastIInv, HistoryKept
  <2> QED
    BY <1>1, <2>1
<1>6. lastAdvisory # NoForecast =>
        lastAdvisory.origin \in Nat /\ lastAdvisory.origin <= droneTime'
  BY <1>1 DEF ForecastIInv, AdvisoryBacked, ForecastAdvisory
<1>7. CASE UNCHANGED <<history, lastAdvisory, lastForecastAt, observed>>
  BY <1>1, <1>5, <1>6, <1>7
     DEF ForecastIInv, ForecastTypes, HistoryKept, AdvisoryBacked, ObservedUntil
<1>8. CASE /\ ~NonMonotonic(o)
           /\ history' = Appended(o)
           /\ observed' = observed \cup {o.at}
           /\ \/ UNCHANGED lastAdvisory
              \/ /\ LongEnough(history')
                 /\ \E outcome \in {"Low", "Fine"} :
                      lastAdvisory' = [origin |-> o.at, expires |-> o.at + AdvisoryTtlMs,
                                       low |-> outcome = "Low"]
  <2>1. ForecastTypes'
    <3>1. IsFiniteSet(observed')
      BY <1>8, FS_AddElement DEF ForecastIInv, ForecastTypes
    <3> QED
      BY <1>1, <1>3, <1>8, <3>1 DEF ForecastIInv, ForecastTypes
  <2>2. HistoryKept'
    BY <1>3, <1>8, AppendedKept DEF ForecastIInv, HistoryKept
  <2>3. AdvisoryBacked'
    <3>1. ASSUME NEW t \in Nat
          PROVE  /\ IsFiniteSet(ObservedUntil(t)')
                 /\ Cardinality(ObservedUntil(t)') \in Nat
                 /\ Cardinality(ObservedUntil(t)) \in Nat
                 /\ Cardinality(ObservedUntil(t)) <= Cardinality(ObservedUntil(t)')
      <4>1. ObservedUntil(t)' \in SUBSET observed'
        BY DEF ObservedUntil
      <4>2. ObservedUntil(t) \in SUBSET (ObservedUntil(t)')
        BY <1>8 DEF ObservedUntil
      <4>3. IsFiniteSet(ObservedUntil(t)')
        BY <2>1, <4>1, FS_Subset DEF ForecastTypes
      <4>4. IsFiniteSet(ObservedUntil(t))
        BY <4>2, <4>3, FS_Subset
      <4> QED
        BY <4>2, <4>3, <4>4, FS_Subset, FS_CardinalityType
    <3>2. CASE UNCHANGED lastAdvisory
      <4>1. CASE lastAdvisory = NoForecast
        BY <3>2, <4>1 DEF AdvisoryBacked
      <4>2. CASE lastAdvisory # NoForecast
        <5>1. Cardinality(ObservedUntil(lastAdvisory.origin)) >= MinimumHistory
          BY <4>2 DEF ForecastIInv, AdvisoryBacked
        <5>2. Cardinality(ObservedUntil(lastAdvisory.origin)') >= MinimumHistory
          BY <1>6, <3>1, <3>2, <4>2, <5>1, ForecastAssumption DEF ObservedUntil
        <5>3. lastAdvisory.origin \in observed'
          BY <1>8, <4>2 DEF ForecastIInv, AdvisoryBacked
        <5> QED
          BY <1>6, <3>2, <4>2, <5>2, <5>3
             DEF ForecastIInv, AdvisoryBacked, ForecastAdvisory
      <4> QED
        BY <4>1, <4>2
    <3>3. CASE ~UNCHANGED lastAdvisory
      <4> DEFINE seen == {t \in observed' : t <= droneTime'}
      <4>1. LongEnough(history')
        BY <1>8, <3>3
      <4>2. PICK outcome \in {"Low", "Fine"} :
              lastAdvisory' = [origin |-> droneTime', expires |-> droneTime' + AdvisoryTtlMs,
                               low |-> outcome = "Low"]
        BY <1>3, <1>8, <3>3
      <4>3. droneTime' + AdvisoryTtlMs \in Nat
        BY <1>1, ForecastAssumption
      <4>4. /\ lastAdvisory' \in ForecastAdvisory
            /\ lastAdvisory'.origin = droneTime'
            /\ lastAdvisory'.expires = lastAdvisory'.origin + AdvisoryTtlMs
        BY <1>1, <4>2, <4>3 DEF ForecastAdvisory
      <4>5. /\ \A i \in DOMAIN history' : history'[i].at \in seen
            /\ \A i, j \in DOMAIN history' : i < j => history'[i].at < history'[j].at
            /\ history' \in Seq(Observation)
        BY <1>3, <1>8, AppendedKept DEF ForecastIInv
      <4>6. IsFiniteSet(seen) /\ Cardinality(seen) \in Nat
        BY <1>1, <3>1 DEF ObservedUntil
      <4> HIDE DEF seen
      <4>7. Cardinality(seen) >= Len(history')
        BY <4>5, <4>6, IncreasingCounts
      <4>8. Len(history') \in Nat /\ Len(history') >= MinimumHistory
        BY <4>1, <4>5 DEF LongEnough
      <4>9. Cardinality(seen) >= MinimumHistory
        BY <4>6, <4>7, <4>8, ForecastAssumption
      <4>10. ObservedUntil(lastAdvisory.origin)' = seen
        BY <4>4 DEF ObservedUntil, seen
      <4> QED
        BY <1>1, <1>3, <1>8, <4>4, <4>9, <4>10 DEF AdvisoryBacked
    <3> QED
      BY <3>2, <3>3
  <2> QED
    BY <2>1, <2>2, <2>3 DEF ForecastIInv
<1> QED
  BY <1>4, <1>7, <1>8 DEF ObserveAndForecast, Refresh, Outcome

\* Whoever is refused new work was seen low, recently and often enough: a
\* forecast neither outlives its lifetime nor rests on fewer observations than
\* the policy asks for (observe_and_forecast, is_eligible_for_new_work).
THEOREM ReductionsAreBacked == ForecastSpec => []ReductionIsBacked
<1>1. ForecastIInv /\ [ForecastNext]_forecastVars => ForecastIInv'
  <2> SUFFICES ASSUME ForecastIInv, [ForecastNext]_forecastVars PROVE ForecastIInv'
    OBVIOUS
  <2>1. CASE /\ UNCHANGED <<history, lastAdvisory, droneTime, observed>>
             /\ wallTime' \in {wallTime, wallTime + 1}
    BY <2>1 DEF ForecastIInv, ForecastTypes, HistoryKept, AdvisoryBacked, ObservedUntil
  <2> QED
    BY <2>1, FlyingIInv DEF ForecastNext, GroundedStep, forecastVars
<1>2. ForecastIInv => ReductionIsBacked
  <2> SUFFICES ASSUME ForecastIInv, ~IsEligibleForNewWork(wallTime)
               PROVE  /\ rollout = "CanaryReduceOnly"
                      /\ lastAdvisory.origin \in observed
                      /\ wallTime - lastAdvisory.origin <= AdvisoryTtlMs
                      /\ Cardinality(ObservedUntil(lastAdvisory.origin)) >= MinimumHistory
                      /\ lastAdvisory.origin <= droneTime
    BY DEF ReductionIsBacked, ObservedUntil
  <2>1. rollout = "CanaryReduceOnly" /\ lastAdvisory.low
        /\ ~(wallTime > lastAdvisory.expires)
    BY DEF IsEligibleForNewWork
  <2>2. lastAdvisory # NoForecast
    BY <2>1 DEF NoForecast
  <2>3. wallTime - lastAdvisory.origin <= AdvisoryTtlMs
    BY <2>1, <2>2, ForecastAssumption
       DEF ForecastIInv, ForecastTypes, AdvisoryBacked, ForecastAdvisory
  <2> QED
    BY <2>1, <2>2, <2>3 DEF ForecastIInv, AdvisoryBacked
<1> QED
  BY ForecastInitIInv, <1>1, <1>2, PTL DEF ForecastSpec

-----------------------------------------------------------------------------
(* Gossip: nobody holds a newer state of a writer than the writer itself,   *)
(* which is why a spread that leaves out the origin of what it spreads may  *)
(* come to rest, as far as the origin has written it.                       *)

ReplicaTypes == replica \in [GossipNode -> GossipState]

WriterIsNewest == \A n \in GossipNode : Behind(replica[n], replica[replica[n].value])

GossipIInv == ReplicaTypes /\ WriterIsNewest

Stamped(a) == a.version \in Nat /\ a.origin \in Nat

LEMMA BehindTransitive ==
  ASSUME NEW a, NEW b, NEW c, Stamped(a), Stamped(b), Stamped(c), Behind(a, b), Behind(b, c)
  PROVE  Behind(a, c)
  BY DEF Stamped, Behind

LEMMA BehindBoth ==
  ASSUME NEW a, NEW b, Stamped(a), Stamped(b), Behind(a, b), Behind(b, a)
  PROVE  a.version = b.version /\ a.origin = b.origin
  BY DEF Stamped, Behind

\* merge keeps the newer of the two, and the own state only if it is the newer.
LEMMA MergeAdvances ==
  ASSUME NEW a, NEW b, Stamped(a), Stamped(b)
  PROVE  /\ Merge(a, b) \in {a, b}
         /\ Behind(a, Merge(a, b))
         /\ Merge(a, b) = a => Behind(b, a)
  BY DEF Stamped, Behind, Merge

LEMMA GossipStateFields ==
  ASSUME NEW a \in GossipState
  PROVE  /\ Stamped(a) /\ a.version \in 1 .. MaxVersion
         /\ a.value \in GossipNode /\ a.origin \in GossipNode
<1>1. MaxVersion \in Nat /\ GossipNode \subseteq Nat
  BY GossipAssumption
<1>2. /\ a.version \in 1 .. MaxVersion
      /\ a.value \in GossipNode /\ a.origin \in GossipNode
  BY DEF GossipState
<1>3. ASSUME NEW v \in 1 .. MaxVersion PROVE v \in Nat
  BY <1>1
<1>4. a.version \in Nat /\ a.origin \in Nat
  BY <1>1, <1>2, <1>3, Zenon
<1> QED
  BY <1>2, <1>4 DEF Stamped

LEMMA ReplicasStamped ==
  ASSUME ReplicaTypes, NEW n \in GossipNode
  PROVE  Stamped(replica[n]) /\ replica[n].value \in GossipNode
  BY GossipStateFields DEF ReplicaTypes

LEMMA GossipInitIInv == GossipInit => GossipIInv
  BY GossipAssumption
     DEF GossipInit, New, GossipIInv, ReplicaTypes, GossipState, WriterIsNewest, Behind

Advances(n) == Behind(replica[n], replica'[n])

\* Replicas that only advance, each to a state that somebody held or to one of
\* its own writing, leave every writer the newest.
LEMMA AdvancingKeepsWriters ==
  ASSUME GossipIInv, ReplicaTypes', \A k \in GossipNode : Advances(k),
         \A k \in GossipNode : \/ replica'[k].value = k
                                \/ \E j \in GossipNode : replica'[k] = replica[j]
  PROVE  WriterIsNewest'
<1> SUFFICES ASSUME NEW k \in GossipNode
             PROVE  Behind(replica'[k], replica'[replica'[k].value])
  BY DEF WriterIsNewest, Behind
<1>1. \A n \in GossipNode : /\ Stamped(replica[n]) /\ replica[n].value \in GossipNode
                             /\ Stamped(replica'[n]) /\ replica'[n].value \in GossipNode
  BY GossipStateFields DEF GossipIInv, ReplicaTypes
<1>2. CASE replica'[k].value = k
  BY <1>1, <1>2 DEF Behind, Stamped
<1>3. CASE \E j \in GossipNode : replica'[k] = replica[j]
  <2>1. PICK j \in GossipNode : replica'[k] = replica[j]
    BY <1>3
  <2> DEFINE w == replica[j].value
  <2>2. w \in GossipNode /\ Behind(replica[j], replica[w]) /\ Behind(replica[w], replica'[w])
    BY <1>1 DEF GossipIInv, WriterIsNewest, Advances
  <2>3. Stamped(replica[j]) /\ Stamped(replica[w]) /\ Stamped(replica'[w])
    BY <1>1, <2>2
  <2> QED
    BY <2>1, <2>2, <2>3, BehindTransitive
<1> QED
  BY <1>2, <1>3

LEMMA BumpIInv ==
  ASSUME GossipIInv, NEW n \in GossipNode, Bump(n)
  PROVE  GossipIInv' /\ \A k \in GossipNode : Advances(k)
<1>1. replica \in [GossipNode -> GossipState] /\ replica[n].version < MaxVersion
  BY DEF Bump, GossipIInv, ReplicaTypes
<1> DEFINE new == [replica[n] EXCEPT !.version = @ + 1, !.value = n]
<1>2. replica' = [replica EXCEPT ![n] = new]
  BY <1>1 DEF Bump, GossipState
<1>3. new \in GossipState /\ new.version = replica[n].version + 1 /\ new.value = n
      /\ new.origin = replica[n].origin
  <2>1. /\ replica[n].version \in 1 .. MaxVersion /\ MaxVersion \in Nat
        /\ replica[n] \in GossipState
    BY <1>1, GossipStateFields, GossipAssumption
  <2>2. replica[n].version + 1 \in 1 .. MaxVersion
    BY <1>1, <2>1
  <2> QED
    BY <2>1, <2>2 DEF GossipState
<1> HIDE DEF new
<1>4. ReplicaTypes'
  BY <1>1, <1>2, <1>3 DEF ReplicaTypes
<1>5. ASSUME NEW k \in GossipNode PROVE Advances(k)
  BY <1>1, <1>2, <1>3, ReplicasStamped DEF GossipIInv, Advances, Behind, Stamped
<1>6. ASSUME NEW k \in GossipNode
      PROVE  replica'[k].value = k \/ \E j \in GossipNode : replica'[k] = replica[j]
  BY <1>1, <1>2, <1>3
<1> QED
  BY <1>4, <1>5, <1>6, AdvancingKeepsWriters DEF GossipIInv

LEMMA GossipToIInv ==
  ASSUME GossipIInv, NEW n \in GossipNode, NEW chosen, GossipTo(n, chosen)
  PROVE  GossipIInv' /\ \A k \in GossipNode : Advances(k)
<1>1. /\ replica' = [k \in GossipNode |-> replica'[k]]
      /\ \A k \in GossipNode : replica'[k] \in {replica[k], Merge(replica[k], replica[n])}
  BY DEF GossipTo
<1>2. ASSUME NEW k \in GossipNode
      PROVE  replica'[k] \in {replica[k], replica[n]} /\ Advances(k)
  <2>1. Stamped(replica[k]) /\ Stamped(replica[n])
    BY ReplicasStamped DEF GossipIInv
  <2>2. Behind(replica[k], replica[k])
    BY <2>1 DEF Behind, Stamped
  <2> QED
    BY <1>1, <2>1, <2>2, MergeAdvances DEF Advances
<1>3. ReplicaTypes'
  BY <1>1, <1>2 DEF GossipIInv, ReplicaTypes
<1> QED
  BY <1>2, <1>3, AdvancingKeepsWriters DEF GossipIInv

LEMMA GossipNextIInv ==
  ASSUME GossipIInv, [GossipNext]_gossipVars
  PROVE  GossipIInv' /\ [\A n \in GossipNode : Advances(n)]_gossipVars
<1>1. CASE UNCHANGED gossipVars
  BY <1>1 DEF gossipVars, GossipIInv, ReplicaTypes, WriterIsNewest, Behind
<1> QED
  BY <1>1, BumpIInv, GossipToIInv DEF GossipNext

-----------------------------------------------------------------------------

\* Of a finite set there are subsets of every size with a given member.
LEMMA SubsetWith ==
  ASSUME NEW S, IsFiniteSet(S), NEW m \in S, NEW k \in 1 .. Cardinality(S)
  PROVE  \E T \in SUBSET S : m \in T /\ Cardinality(T) = k
<1>1. Cardinality(S) \in Nat
  BY FS_CardinalityType
<1>2. PICK f : f \in Bijection(1 .. Cardinality(S), S)
  BY FS_CardinalityType, Fun_ExistsBij
<1>3. /\ f \in [1 .. Cardinality(S) -> S]
      /\ \A i, j \in 1 .. Cardinality(S) : f[i] = f[j] => i = j
      /\ \E p \in 1 .. Cardinality(S) : f[p] = m
  BY <1>2 DEF Bijection, Injection, Surjection, IsInjective
<1>4. PICK p \in 1 .. Cardinality(S) : f[p] = m
  BY <1>3
<1> DEFINE First(j) == {f[i] : i \in 1 .. j}
<1>5. ASSUME NEW j \in 0 .. Cardinality(S)
      PROVE  First(j) \in SUBSET S /\ IsFiniteSet(First(j)) /\ Cardinality(First(j)) = j
  <2> DEFINE g == [i \in 1 .. j |-> f[i]]
  <2>1. \A i \in 1 .. j : i \in 1 .. Cardinality(S)
    BY <1>1
  <2>2. First(j) \in SUBSET S
    BY <1>3, <2>1
  <2>3. /\ g \in [1 .. j -> First(j)]
        /\ \A a, b \in 1 .. j : g[a] = g[b] => a = b
        /\ \A t \in First(j) : \E a \in 1 .. j : g[a] = t
    BY <1>3, <2>1
  <2>4. g \in Bijection(1 .. j, First(j))
    BY <2>3, Fun_IsBij
  <2>5. ExistsBijection(1 .. j, First(j))
    BY <2>4, Fun_ExistsBij
  <2>6. j \in Nat
    BY <1>1
  <2> QED
    BY <2>2, <2>5, <2>6, FS_CountingElements, FS_Subset
<1>6. k \in Nat /\ k - 1 \in 0 .. Cardinality(S) /\ k \in 0 .. Cardinality(S)
  BY <1>1
<1>7. CASE p <= k
  <2>1. m \in First(k)
    BY <1>1, <1>4, <1>7
  <2> QED
    BY <1>5, <1>6, <2>1
<1>8. CASE p > k
  <2> DEFINE T == First(k - 1) \cup {m}
  <2>1. m \notin First(k - 1)
    BY <1>1, <1>3, <1>4, <1>8
  <2>2. /\ First(k - 1) \in SUBSET S /\ IsFiniteSet(First(k - 1))
        /\ Cardinality(First(k - 1)) = k - 1
    BY <1>5, <1>6
  <2> HIDE DEF First
  <2>3. Cardinality(T) = (k - 1) + 1
    BY <2>1, <2>2, FS_AddElement
  <2> QED
    BY <1>6, <2>2, <2>3
<1> QED
  BY <1>1, <1>6, <1>7, <1>8

\* Each candidate may be among those that are told.
LEMMA SpreadReaches ==
  ASSUME NEW n \in GossipNode, NEW m \in SpreadCandidates(n)
  PROVE  \E chosen \in Spread(n) : m \in chosen
<1> DEFINE S == SpreadCandidates(n)
           size == IF Cardinality(S) < Fanout THEN Cardinality(S) ELSE Fanout
<1>1. IsFiniteSet(S)
  BY GossipAssumption, FS_Subset DEF SpreadCandidates
<1>2. Cardinality(S) \in Nat
  BY <1>1, FS_CardinalityType
<1>3. Cardinality(S) # 0
  BY <1>1, FS_EmptySet
<1>4. size \in 1 .. Cardinality(S)
  BY <1>2, <1>3, GossipAssumption
<1>5. Spread(n) = {chosen \in SUBSET S : Cardinality(chosen) = size}
  BY DEF Spread
<1> HIDE DEF S, size
<1>6. m \in S
  BY DEF S
<1> QED
  BY <1>1, <1>4, <1>5, <1>6, SubsetWith

LEMMA SettledBehind ==
  ASSUME GossipIInv, Settled, NEW a \in GossipNode, NEW b \in GossipNode
  PROVE  Behind(replica[a], replica[b]) \/ (b = replica[a].origin /\ ForeignWrite(replica[a]))
<1>1. Stamped(replica[a]) /\ Stamped(replica[b])
  BY ReplicasStamped DEF GossipIInv
<1>2. CASE b = a
  BY <1>1, <1>2 DEF Behind, Stamped
<1>3. CASE b = replica[a].origin
  BY <1>3 DEF GossipIInv, WriterIsNewest, ForeignWrite
<1>4. CASE b \in SpreadCandidates(a)
  <2>1. Merge(replica[b], replica[a]) = replica[b]
    BY <1>4, SpreadReaches DEF Settled
  <2> QED
    BY <1>1, <2>1, MergeAdvances
<1> QED
  BY <1>2, <1>3, <1>4 DEF SpreadCandidates

Alike(m, n) == \/ replica[m] = replica[n]
               \/ /\ SameStamp(replica[m], replica[n])
                  /\ ForeignWrite(replica[m]) \/ ForeignWrite(replica[n])
               \/ Untold(m, replica[n]) \/ Untold(n, replica[m])

LEMMA SettledAlike ==
  ASSUME GossipIInv, Settled, NEW m \in GossipNode, NEW n \in GossipNode
  PROVE  Alike(m, n)
<1>1. Stamped(replica[m]) /\ Stamped(replica[n])
  BY ReplicasStamped DEF GossipIInv
<1>2. Behind(replica[m], replica[n]) \/ Behind(replica[n], replica[m])
  BY <1>1 DEF Behind, Stamped
<1>3. CASE ~Behind(replica[m], replica[n])
  <2>1. n = replica[m].origin /\ ForeignWrite(replica[m])
    BY <1>3, SettledBehind
  <2> QED
    BY <1>2, <1>3, <2>1 DEF Alike, Untold
<1>4. CASE ~Behind(replica[n], replica[m])
  <2>1. m = replica[n].origin /\ ForeignWrite(replica[n])
    BY <1>4, SettledBehind
  <2> QED
    BY <1>2, <1>4, <2>1 DEF Alike, Untold
<1>5. CASE Behind(replica[m], replica[n]) /\ Behind(replica[n], replica[m])
  <2>1. SameStamp(replica[m], replica[n])
    BY <1>1, <1>5, BehindBoth DEF SameStamp
  <2>2. replica[m] \in GossipState /\ replica[n] \in GossipState
    BY DEF GossipIInv, ReplicaTypes
  <2>3. CASE replica[m].value = replica[n].value
    BY <2>1, <2>2, <2>3 DEF Alike, SameStamp, GossipState
  <2>4. CASE replica[m].value # replica[n].value
    BY <2>1, <2>4 DEF Alike, SameStamp, ForeignWrite
  <2> QED
    BY <2>3, <2>4
<1> QED
  BY <1>3, <1>4, <1>5

\* Merging never takes a replica back, and once no spread that may still happen
\* changes anything all replicas are one, although a spread reaches only some
\* nodes and never the origin of what it spreads; what keeps two apart is a state
\* that another than its origin wrote (GossipState).
THEOREM GossipConverges == GossipSpec => ReplicasConverge
<1>1. GossipIInv /\ [GossipNext]_gossipVars => GossipIInv'
  BY GossipNextIInv
<1>2. GossipSpec => []GossipIInv
  BY GossipInitIInv, <1>1, PTL DEF GossipSpec
<1>3. GossipIInv /\ [GossipNext]_gossipVars => [\A n \in GossipNode : Advances(n)]_gossipVars
  BY GossipNextIInv
<1>4. GossipSpec => [][\A n \in GossipNode : Advances(n)]_gossipVars
  BY <1>2, <1>3, PTL DEF GossipSpec
<1>5. GossipIInv => (Settled => \A m, n \in GossipNode : Alike(m, n))
  BY SettledAlike
<1>6. GossipSpec => [](Settled => \A m, n \in GossipNode : Alike(m, n))
  BY <1>2, <1>5, PTL
<1> QED
  BY <1>4, <1>6 DEF ReplicasConverge, Advances, Alike

-----------------------------------------------------------------------------
(* Jellyfish: the books agree because the mark is always the gait's total;  *)
(* the price of the way holds because a pulse gives the speed what it pays  *)
(* and its recapture, and a coast loses at most the drag on its way.        *)

JellyfishTypes ==
  /\ {floor, speed, paidDv, actuation, idle, spent, coasted, loitered} \subseteq Nat
  /\ phase \in {"Pulse", "Drift"}

JellyfishIInv == JellyfishTypes /\ mark = actuation + idle /\ BudgetAccounts

LEMMA RoundedUpCovers ==
  ASSUME NEW a \in Nat, NEW b \in Nat \ {0}
  PROVE  RoundedUp(a, b) \in Nat /\ b * RoundedUp(a, b) >= a
<1>1. \A c \in Nat : /\ c \div b \in Int /\ c % b \in 0 .. b - 1
                     /\ c = b * (c \div b) + (c % b)
  OBVIOUS
<1> DEFINE q == (a + b - 1) \div b
<1>2. /\ q \in Int /\ (a + b - 1) % b \in 0 .. b - 1
      /\ a + b - 1 = b * q + ((a + b - 1) % b)
  BY <1>1
<1> HIDE DEF q
<1>3. b * q >= a
  BY <1>2
<1>4. q >= 0
  <2> SUFFICES ASSUME q <= -1 PROVE FALSE
    BY <1>2
  <2>1. b * (q + 1) <= 0 /\ b * (q + 1) = b * q + b
    BY <1>2
  <2> QED
    BY <1>2, <1>3, <2>1
<1> QED
  BY <1>2, <1>3, <1>4 DEF q, RoundedUp

LEMMA ProductsTyped ==
  ASSUME NEW dt \in StepTimes
  PROVE  /\ PulseAccel * dt \in Nat /\ DragPercent * dt \in Nat /\ IdlePower * dt \in Nat
         /\ EPerDv * (PulseAccel * dt) \in Nat /\ dt \in Nat
<1>1. /\ dt \in Nat
      /\ PulseAccel \in Nat /\ DragPercent \in Nat /\ IdlePower \in Nat /\ EPerDv \in Nat
  BY JellyfishAssumption
<1> QED
  BY <1>1

LEMMA DragOfTheWay ==
  ASSUME NEW d \in Nat, NEW t \in Nat, NEW v \in Nat
  PROVE  (100 + d * t) * v = 100 * v + d * (v * t) /\ d * (v * t) \in Nat
  OBVIOUS

\* What is still in the speed or not yet recaptured.
Reserve == 100 * (speed - floor) + RecapturePercent * paidDv

LEMMA GaitStepBalance ==
  ASSUME JellyfishTypes, NEW dt \in StepTimes, GaitStep(dt)
  PROVE  /\ floor' = floor /\ speed' \in Nat /\ paidDv' \in Nat /\ phase' \in {"Pulse", "Drift"}
         /\ phase = "Pulse" =>
              100 * (speed' - floor) + RecapturePercent * paidDv'
                >= Reserve + (100 + RecapturePercent) * (PulseAccel * dt)
         /\ phase = "Drift" =>
              DragPercent * (speed' * dt) + 100 * (speed' - floor) + RecapturePercent * paidDv'
                >= Reserve
<1> DEFINE dv == PulseAccel * dt
           R == RecapturePercent
<1>1. /\ dv \in Nat /\ R \in Nat /\ dt \in Nat /\ DragPercent * dt \in Nat
      /\ floor \in Nat /\ speed \in Nat /\ paidDv \in Nat /\ floor' = floor
  BY ProductsTyped, JellyfishAssumption DEF JellyfishTypes, GaitStep
<1>2. CASE phase = "Pulse"
  <2>1. PulseStep(dt)
    BY <1>2 DEF GaitStep
  <2>2. CASE speed + dv >= PeakSpeed
    <3>1. /\ speed' = speed + dv + Recaptured(paidDv + dv)
          /\ paidDv' = 0 /\ phase' = "Drift"
      BY <2>1, <2>2 DEF PulseStep, PulsePaid
    <3>2. R * (paidDv + dv) \in Nat /\ R * (paidDv + dv) = R * paidDv + R * dv
      BY <1>1
    <3>3. Recaptured(paidDv + dv) \in Nat /\ 100 * Recaptured(paidDv + dv) >= R * (paidDv + dv)
      BY <3>2, RoundedUpCovers DEF Recaptured
    <3>4. R * dv \in Nat /\ R * paidDv \in Nat /\ (100 + R) * dv = 100 * dv + R * dv
          /\ R * 0 = 0
      BY <1>1
    <3> HIDE DEF R, dv
    <3>5. 100 * (speed' - floor) + R * paidDv' >= 100 * (speed - floor) + R * paidDv + (100 + R) * dv
      BY <1>1, <3>1, <3>2, <3>3, <3>4
    <3> QED
      BY <1>1, <1>2, <3>1, <3>3, <3>5 DEF Reserve, R, dv
  <2>3. CASE ~(speed + dv >= PeakSpeed)
    <3>1. speed' = speed + dv /\ paidDv' = paidDv + dv /\ phase' = phase
      BY <2>1, <2>3 DEF PulseStep, PulsePaid
    <3>2. /\ R * (paidDv + dv) = R * paidDv + R * dv
          /\ R * dv \in Nat /\ R * paidDv \in Nat /\ (100 + R) * dv = 100 * dv + R * dv
      BY <1>1
    <3> HIDE DEF R, dv
    <3>3. 100 * (speed' - floor) + R * paidDv' >= 100 * (speed - floor) + R * paidDv + (100 + R) * dv
      BY <1>1, <3>1, <3>2
    <3> QED
      BY <1>1, <1>2, <3>1, <3>3 DEF Reserve, R, dv
  <2> QED
    BY <2>2, <2>3
<1>3. CASE phase = "Drift"
  <2>1. /\ speed' = Coasted(speed, dt) /\ paidDv' = paidDv
        /\ phase' \in {"Pulse", "Drift"}
    BY <1>3 DEF GaitStep, DriftStep
  <2>2. /\ 100 * speed \in Nat /\ 100 + DragPercent * dt \in Nat \ {0}
    BY <1>1
  <2>3. speed' \in Nat /\ (100 + DragPercent * dt) * speed' >= 100 * speed
    BY <2>1, <2>2, RoundedUpCovers DEF Coasted
  <2>4. /\ (100 + DragPercent * dt) * speed' = 100 * speed' + DragPercent * (speed' * dt)
        /\ DragPercent * (speed' * dt) \in Nat /\ R * paidDv \in Nat
    <3>1. DragPercent \in Nat
      BY JellyfishAssumption
    <3>2. R * paidDv \in Nat
      BY <1>1
    <3>3. ASSUME NEW v \in Nat
          PROVE  /\ (100 + DragPercent * dt) * v = 100 * v + DragPercent * (v * dt)
                 /\ DragPercent * (v * dt) \in Nat
      BY <1>1, <3>1, DragOfTheWay
    <3> QED
      BY <2>3, <3>2, <3>3
  <2>5. DragPercent * (speed' * dt) + 100 * (speed' - floor) + R * paidDv
          >= 100 * (speed - floor) + R * paidDv
    <3> HIDE DEF R
    <3> QED
      BY <1>1, <2>3, <2>4
  <2> QED
    BY <1>1, <1>3, <2>1, <2>3, <2>5 DEF Reserve
<1> QED
  BY <1>2, <1>3 DEF JellyfishTypes

\* A pulse's price, added to what was within the bound before.
LEMMA PriceAdds ==
  ASSUME NEW c \in Nat, NEW e \in Nat, NEW cost \in Nat, NEW covered \in Int,
         NEW dv \in Nat, NEW more \in Int,
         c * cost <= e * covered, more >= covered + c * dv
  PROVE  c * (cost + e * dv) <= e * more
<1>1. /\ e * (more - (covered + c * dv)) >= 0
      /\ e * (more - (covered + c * dv)) = e * more - e * covered - e * (c * dv)
      /\ c * (cost + e * dv) = c * cost + e * (c * dv)
      /\ c * cost \in Int /\ e * covered \in Int /\ e * more \in Int /\ e * (c * dv) \in Int
  OBVIOUS
<1> QED
  BY <1>1

LEMMA JellyfishInitIInv == JellyfishInit => JellyfishIInv
<1> SUFFICES ASSUME JellyfishInit PROVE JellyfishIInv
  OBVIOUS
<1>1. JellyfishTypes
  BY JellyfishAssumption DEF JellyfishInit, Sanitized, JellyfishTypes
<1>2. PulsesWithinBound
  <2>1. /\ RecapturePercent \in Nat /\ DragPercent \in Nat /\ EPerDv \in Nat
    BY JellyfishAssumption
  <2> QED
    BY <1>1, <2>1 DEF JellyfishInit, PulsesWithinBound, JellyfishTypes
<1>3. DebitedOnce
  BY JellyfishAssumption DEF JellyfishInit, DebitedOnce, UpToBudget
<1> QED
  BY <1>1, <1>2, <1>3 DEF JellyfishIInv, BudgetAccounts, JellyfishInit

\* What is drawn on top of a debit is debited on top of it.
LEMMA DebitsAdd ==
  ASSUME NEW used \in Nat, NEW more \in Nat
  PROVE  UpToBudget(UpToBudget(used) + more) = UpToBudget(used + more)
         /\ UpToBudget(used + more) \in Nat
  BY JellyfishAssumption DEF UpToBudget

LEMMA CruiseIInv ==
  ASSUME JellyfishIInv, NEW dt \in StepTimes, Cruise(dt)
  PROVE  JellyfishIInv'
<1>1. /\ floor' = floor /\ speed' \in Nat /\ paidDv' \in Nat /\ phase' \in {"Pulse", "Drift"}
      /\ GaitStep(dt)
  BY GaitStepBalance DEF Cruise, JellyfishIInv
<1>2. CASE spent = Budget /\ UNCHANGED <<countVars, spent, loitered>>
  <2>1. ~(spent' < Budget)
    BY <1>2, JellyfishAssumption
  <2> QED
    BY <1>1, <1>2, <2>1
       DEF JellyfishIInv, JellyfishTypes, BudgetAccounts, DebitedOnce, countVars
<1>3. CASE spent < Budget /\ spent # Budget
  <2> DEFINE cost == ActuationEnergy(dt)
             way == IF phase = "Drift" THEN speed' * dt ELSE 0
             used == actuation + idle + loitered
  <2>1. /\ actuation' = actuation + cost /\ idle' = idle + IdlePower * dt
        /\ coasted' = coasted + way
        /\ spent' = UpToBudget(spent + Grown(actuation' + idle'))
        /\ mark' = actuation' + idle' /\ loitered' = loitered
    BY <1>3 DEF Cruise
  <2>2. /\ cost \in Nat /\ IdlePower * dt \in Nat /\ way \in Nat
    BY <1>1, ProductsTyped DEF ActuationEnergy
  <2>3. /\ actuation \in Nat /\ idle \in Nat /\ loitered \in Nat /\ coasted \in Nat
        /\ spent \in Nat /\ mark = actuation + idle /\ spent = UpToBudget(used)
        /\ PulsesWithinBound /\ JellyfishTypes
    BY <1>3 DEF JellyfishIInv, JellyfishTypes, BudgetAccounts, DebitedOnce
  <2>4. Grown(actuation' + idle') = cost + IdlePower * dt
    BY <2>1, <2>2, <2>3 DEF Grown
  <2>5. spent' = UpToBudget(used + (cost + IdlePower * dt)) /\ spent' \in Nat
    <3>1. used \in Nat /\ cost + IdlePower * dt \in Nat
      BY <2>2, <2>3
    <3> HIDE DEF used, cost
    <3> QED
      BY <2>1, <2>3, <2>4, <3>1, DebitsAdd
  <2>6. used + (cost + IdlePower * dt) = actuation' + idle' + loitered'
    BY <2>1, <2>2, <2>3
  <2>7. JellyfishTypes'
    BY <1>1, <2>1, <2>2, <2>3, <2>5 DEF JellyfishTypes
  <2>8. PulsesWithinBound'
    <3> DEFINE covered == DragPercent * coasted + Reserve
               more == DragPercent * coasted' + 100 * (speed' - floor) + RecapturePercent * paidDv'
               dv == IF phase = "Pulse" THEN PulseAccel * dt ELSE 0
               c == 100 + RecapturePercent
    <3>1. /\ c \in Nat /\ EPerDv \in Nat /\ DragPercent \in Nat /\ RecapturePercent \in Nat
          /\ dv \in Nat /\ Reserve \in Int /\ covered \in Int
          /\ RecapturePercent * paidDv' \in Int
      BY <1>1, <2>3, ProductsTyped, JellyfishAssumption DEF Reserve, JellyfishTypes
    <3>2. c * actuation <= EPerDv * covered
      BY <2>3, <3>1 DEF PulsesWithinBound, Reserve, JellyfishTypes
    <3>3. /\ DragPercent * coasted' = DragPercent * coasted + DragPercent * way
          /\ DragPercent * coasted \in Int /\ DragPercent * way \in Int /\ more \in Int
      BY <1>1, <2>1, <2>2, <2>3, <3>1 DEF JellyfishTypes
    <3>4. more >= covered + c * dv
      <4>1. CASE phase = "Pulse"
        <5>1. 100 * (speed' - floor) + RecapturePercent * paidDv' >= Reserve + c * dv
          BY <1>1, <2>3, <4>1, GaitStepBalance
        <5>2. DragPercent * way = 0
          BY <3>1, <4>1
        <5>3. c * dv \in Int /\ 100 * (speed' - floor) \in Int
          BY <1>1, <2>3, <3>1 DEF JellyfishTypes
        <5> HIDE DEF c, dv, way
        <5> QED
          BY <3>1, <3>3, <5>1, <5>2, <5>3
      <4>2. CASE phase = "Drift"
        <5>1. DragPercent * way + 100 * (speed' - floor) + RecapturePercent * paidDv' >= Reserve
          BY <1>1, <2>3, <4>2, GaitStepBalance
        <5>2. c * dv = 0
          BY <3>1, <4>2
        <5>3. 100 * (speed' - floor) \in Int
          BY <1>1, <2>3 DEF JellyfishTypes
        <5> HIDE DEF c, dv, way
        <5> QED
          BY <3>1, <3>3, <5>1, <5>2, <5>3
      <4> QED
        BY <2>3, <4>1, <4>2 DEF JellyfishTypes
    <3>5. actuation' = actuation + EPerDv * dv
      BY <2>1, <3>1 DEF ActuationEnergy
    <3> HIDE DEF c, dv, covered, more
    <3>6. c * (actuation + EPerDv * dv) <= EPerDv * more
      BY <2>3, <3>1, <3>2, <3>3, <3>4, PriceAdds
    <3> QED
      BY <1>1, <3>5, <3>6 DEF PulsesWithinBound, c, more
  <2> HIDE DEF cost, way, used
  <2> QED
    BY <2>1, <2>5, <2>6, <2>7, <2>8 DEF JellyfishIInv, BudgetAccounts, DebitedOnce
<1>4. spent < Budget => spent # Budget
  BY JellyfishAssumption DEF JellyfishIInv, JellyfishTypes
<1> QED
  BY <1>2, <1>3, <1>4 DEF Cruise

LEMMA LoiterIInv ==
  ASSUME JellyfishIInv, NEW dt \in StepTimes, NEW rel \in RelFlow, Loiter(rel, dt)
  PROVE  JellyfishIInv'
<1> DEFINE drawn == StationKeepingPower(rel) * dt
           used == actuation + idle + loitered
<1>1. drawn \in Nat
  <2>1. /\ EPerDv * DragPercent * rel \in Nat /\ 100 + RecapturePercent \in Nat \ {0}
        /\ IdlePower \in Nat /\ dt \in Nat
    BY JellyfishAssumption
  <2>2. ASSUME NEW a \in Nat, NEW b \in Nat \ {0} PROVE a \div b \in Nat
    BY <2>2
  <2>3. StationKeepingPower(rel) \in Nat
    BY <2>1, <2>2 DEF StationKeepingPower
  <2> QED
    BY <2>1, <2>3
<1>2. /\ spent' = UpToBudget(spent + drawn) /\ loitered' = loitered + drawn
      /\ UNCHANGED <<floor, phase, speed, paidDv, actuation, idle, mark, coasted>>
      /\ spent < Budget
  BY DEF Loiter, gaitVars, countVars
<1>3. /\ actuation \in Nat /\ idle \in Nat /\ loitered \in Nat /\ JellyfishTypes
      /\ spent = UpToBudget(used) /\ PulsesWithinBound /\ mark = actuation + idle
  BY <1>2 DEF JellyfishIInv, JellyfishTypes, BudgetAccounts, DebitedOnce
<1> HIDE DEF drawn
<1>4. spent' = UpToBudget(used + drawn) /\ spent' \in Nat
  <2>1. used \in Nat
    BY <1>3
  <2> HIDE DEF used
  <2> QED
    BY <1>1, <1>2, <1>3, <2>1, DebitsAdd
<1>5. used + drawn = actuation' + idle' + loitered'
  BY <1>1, <1>2, <1>3
<1>6. JellyfishTypes' /\ PulsesWithinBound'
  BY <1>1, <1>2, <1>3, <1>4 DEF JellyfishTypes, PulsesWithinBound
<1> HIDE DEF used
<1> QED
  BY <1>2, <1>3, <1>4, <1>5, <1>6 DEF JellyfishIInv, BudgetAccounts, DebitedOnce

\* In whatever order and with whatever steps the drone cruises and loiters, what
\* its one budget was debited is what it used, and what its pulses used stays
\* within the price per way its range is estimated from (JellyfishController).
THEOREM OneBudget == JellyfishSpec => []BudgetAccounts
<1>1. JellyfishIInv /\ [JellyfishNext]_jellyfishVars => JellyfishIInv'
  <2> SUFFICES ASSUME JellyfishIInv, [JellyfishNext]_jellyfishVars PROVE JellyfishIInv'
    OBVIOUS
  <2>1. CASE UNCHANGED jellyfishVars
    BY <2>1 DEF jellyfishVars, gaitVars, countVars, JellyfishIInv, JellyfishTypes,
                BudgetAccounts, DebitedOnce, PulsesWithinBound
  <2> QED
    BY <2>1, CruiseIInv, LoiterIInv DEF JellyfishNext
<1>2. JellyfishIInv => BudgetAccounts
  BY DEF JellyfishIInv
<1> QED
  BY JellyfishInitIInv, <1>1, <1>2, PTL DEF JellyfishSpec

-----------------------------------------------------------------------------
(* Bloom: a drone that can counter the flow flies over the ground as if     *)
(* there were none, and what two drones in one place do is the same.        *)

LEMMA BloomConstants ==
  /\ BloomSize \in Nat \ {0} /\ MinSpacing \in Nat \ {0} /\ NeighbourRadius \in Nat \ {0}
  /\ FlatGradient \in Nat \ {0} /\ GradGain \in Nat /\ SeparationGain \in Nat
  /\ CohesionGain \in Nat /\ DispersionGain \in Nat /\ MaxGroundSpeed \in Nat
  /\ MaxAirspeed \in Nat /\ SettleTicks \in Nat
  /\ BloomStarts \subseteq Int /\ Flows \subseteq Int /\ Steepness \in Seq(Nat)
  BY BloomAssumption

LEMMA SizeType == ASSUME NEW v \in Int PROVE Size(v) \in Nat /\ Towards(v) \in {-1, 0, 1}
  BY DEF Size, Towards

LEMMA AggregationType ==
  ASSUME NEW p \in Int
  PROVE  Aggregation(p) \in Int
<1> DEFINE far == Size(p) \div 100
<1>1. far \in Nat
  BY SizeType
<1>2. GradientNorm(p) \in Nat
  <2>1. CASE hotspot /\ far < Len(Steepness)
    <3>1. far + 1 \in 1 .. Len(Steepness)
      BY <1>1, <2>1, BloomConstants
    <3>2. Steepness[far + 1] \in Nat
      BY <3>1, BloomConstants, ElementOfSeq
    <3> QED
      BY <2>1, <3>2 DEF GradientNorm
  <2>2. CASE ~(hotspot /\ far < Len(Steepness))
    BY <2>2 DEF GradientNorm
  <2> QED
    BY <2>1, <2>2
<1> DEFINE g == GradientNorm(p)
           d == g + FlatGradient
<1>3. g \in Nat /\ d \in Nat /\ d > 0 /\ 100 * g \in Int
  BY <1>2, BloomConstants
<1>4. Aggregation(p) = (100 * g) \div d
  BY DEF Aggregation
<1> QED
  <2> HIDE DEF g, d
  <2> QED
    BY <1>3, <1>4

LEMMA ForceTypes ==
  ASSUME NEW places \in [BloomDrone -> Int], NEW i \in BloomDrone
  PROVE  /\ Climb(places[i]) \in Int /\ Separation(places, i) \in Int
         /\ CohesionOrDispersion(places, i) \in Int
<1> DEFINE p == places[i]
           a == Aggregation(p)
<1>1. p \in Int /\ a \in Int
  BY AggregationType
<1>2. IsFiniteSet(BloomDrone)
  BY BloomConstants, FS_Interval DEF BloomDrone
<1>3. Climb(p) \in Int
  <2> HIDE DEF a, p
  <2>1. Towards(-p) \in Int /\ GradGain * a \in Int
    <3>1. -p \in Int
      BY <1>1
    <3>2. Towards(-p) \in Int
      BY <3>1, SizeType
    <3>3. GradGain \in Int
      BY BloomConstants
    <3> QED
      BY <1>1, <3>2, <3>3
  <2>2. (GradGain * a) \div 100 \in Int
    BY <2>1
  <2>3. Climb(p) = Towards(-p) * ((GradGain * a) \div 100)
    BY DEF Climb, a, p
  <2> QED
    BY <2>1, <2>2, <2>3
<1>4. Separation(places, i) \in Int
  <2> DEFINE push(n) == LET d == Size(places[i] - places[n])
                        IN  IF d > 0 /\ d < 100 * MinSpacing
                            THEN Towards(places[i] - places[n])
                                   * (((100 * MinSpacing - d) * SeparationGain) \div (100 * MinSpacing))
                            ELSE 0
             f == [n \in BloomDrone |-> push(n)]
  <2>1. ASSUME NEW n \in BloomDrone PROVE push(n) \in Int
    <3> DEFINE v == places[i] - places[n]
               d == Size(v)
               reach == 100 * MinSpacing
               q == ((reach - d) * SeparationGain) \div reach
    <3>1. v \in Int
      OBVIOUS
    <3>2. d \in Int /\ Towards(v) \in Int /\ reach \in Nat /\ reach > 0
      BY <3>1, SizeType, BloomConstants
    <3>3. (reach - d) * SeparationGain \in Int
      BY <3>2, BloomConstants
    <3>4. q \in Int
      <4> HIDE DEF reach, d
      <4> QED
        BY <3>2, <3>3
    <3>5. push(n) = IF d > 0 /\ d < reach THEN Towards(v) * q ELSE 0
      OBVIOUS
    <3> HIDE DEF q, v, d, reach, push
    <3> QED
      BY <3>2, <3>4, <3>5
  <2>2. \A n \in BloomDrone : f[n] \in Int
    BY <2>1
  <2>3. Separation(places, i) = SumFunctionOnSet(f, BloomDrone)
    BY DEF Separation, SumFunction
  <2> HIDE DEF f
  <2> QED
    BY <1>2, <2>2, <2>3, SumType
<1>5. CohesionOrDispersion(places, i) \in Int
  <2> DEFINE way(n) == LET v == places[n] - places[i]
                       IN  IF Size(v) < 100 * NeighbourRadius THEN v ELSE 0
             f == [n \in BloomDrone |-> way(n)]
             c == CohesionGain * a - DispersionGain * (100 - a)
  <2>1. \A n \in BloomDrone : f[n] \in Int
    OBVIOUS
  <2>2. ToCentroid(places, i) = Towards(SumFunctionOnSet(f, BloomDrone))
    BY DEF ToCentroid, SumFunction
  <2>3. SumFunctionOnSet(f, BloomDrone) \in Int
    <3> HIDE DEF f
    <3> QED
      BY <1>2, <2>1, SumType
  <2>4. ToCentroid(places, i) \in Int
    BY <2>2, <2>3, SizeType
  <2>5. c \in Int
    BY <1>1, BloomConstants
  <2>6. c \div 100 \in Int
    BY <2>5
  <2>7. CohesionOrDispersion(places, i) = ToCentroid(places, i) * (c \div 100)
    BY DEF CohesionOrDispersion
  <2> HIDE DEF c
  <2> QED
    BY <2>4, <2>6, <2>7
<1> QED
  BY <1>3, <1>4, <1>5

LEMMA DesiredBounded ==
  ASSUME NEW places \in [BloomDrone -> Int], NEW i \in BloomDrone
  PROVE  DesiredGroundVelocity(places, i) \in -MaxGroundSpeed .. MaxGroundSpeed
<1> DEFINE v == Climb(places[i]) + Separation(places, i) + CohesionOrDispersion(places, i)
<1>1. v \in Int
  BY ForceTypes
<1>2. DesiredGroundVelocity(places, i) = ClampedTo(v, MaxGroundSpeed)
  BY DEF DesiredGroundVelocity
<1> HIDE DEF v
<1> QED
  BY <1>1, <1>2, BloomConstants DEF ClampedTo

\* What is left of a velocity and a flow after the airframe did what it can.
LEMMA GroundVelocity ==
  ASSUME NEW places \in [BloomDrone -> Int], NEW i \in BloomDrone, NEW f \in Int
  PROVE  /\ ExpectedGroundVelocity(places, i, f) \in Int
         /\ Size(f) + MaxGroundSpeed <= MaxAirspeed =>
              ExpectedGroundVelocity(places, i, f) = DesiredGroundVelocity(places, i)
<1> DEFINE v == DesiredGroundVelocity(places, i)
<1>1. v \in -MaxGroundSpeed .. MaxGroundSpeed
  BY DesiredBounded
<1>2. ExpectedGroundVelocity(places, i, f) = ClampedTo(v - f, MaxAirspeed) + f
  BY DEF ExpectedGroundVelocity, CommandedAirspeed
<1> HIDE DEF v
<1>3. ClampedTo(v - f, MaxAirspeed) \in Int
  BY <1>1, BloomConstants DEF ClampedTo
<1>4. ASSUME Size(f) + MaxGroundSpeed <= MaxAirspeed PROVE ClampedTo(v - f, MaxAirspeed) = v - f
  <2>1. f <= Size(f) /\ -f <= Size(f) /\ Size(f) \in Int
    BY DEF Size, Towards
  <2>2. v - f <= MaxAirspeed /\ v - f >= -MaxAirspeed
    BY <1>1, <1>4, <2>1, BloomConstants
  <2> QED
    BY <1>1, <2>2, BloomConstants DEF ClampedTo
<1>5. Size(f) + MaxGroundSpeed <= MaxAirspeed =>
        ExpectedGroundVelocity(places, i, f) = DesiredGroundVelocity(places, i)
  BY <1>1, <1>2, <1>4 DEF v
<1> QED
  BY <1>2, <1>3, <1>5

\* Every drone applies one rule: what it sees depends on where it is only.
LEMMA OnePlaceOneVelocity ==
  ASSUME NEW places \in [BloomDrone -> Int], NEW i \in BloomDrone, NEW j \in BloomDrone,
         places[i] = places[j], NEW f
  PROVE  ExpectedGroundVelocity(places, i, f) = ExpectedGroundVelocity(places, j, f)
<1>1. Separation(places, i) = Separation(places, j)
  BY DEF Separation
<1>2. CohesionOrDispersion(places, i) = CohesionOrDispersion(places, j)
  BY DEF CohesionOrDispersion, ToCentroid
<1> QED
  BY <1>1, <1>2 DEF ExpectedGroundVelocity, CommandedAirspeed, DesiredGroundVelocity

\* Nothing in the rule tells drones in one place apart.
NobodyParts ==
  \A i, j \in BloomDrone : launched[i] = launched[j] => fleet[i] = fleet[j]

BloomIInv == /\ flow \in Int
             /\ fleet \in [BloomDrone -> Int] /\ calm \in [BloomDrone -> Int]
             /\ FlowIsCompensated /\ NobodyParts

LEMMA BloomInitIInv == BloomInit => BloomIInv
<1> SUFFICES ASSUME BloomInit PROVE BloomIInv
  OBVIOUS
<1>1. {100 * p : p \in BloomStarts} \subseteq Int /\ flow \in Int
  BY BloomConstants DEF BloomInit
<1> QED
  BY <1>1 DEF BloomInit, BloomIInv, FlowIsCompensated, NobodyParts

LEMMA BloomTickIInv == ASSUME BloomIInv, BloomTick PROVE BloomIInv'
<1>1. /\ flow \in Int /\ fleet \in [BloomDrone -> Int] /\ calm \in [BloomDrone -> Int]
      /\ FlowIsCompensated /\ NobodyParts
  BY DEF BloomIInv
<1>2. /\ fleet' = [i \in BloomDrone |-> fleet[i] + ExpectedGroundVelocity(fleet, i, flow)]
      /\ calm' = [i \in BloomDrone |-> calm[i] + ExpectedGroundVelocity(calm, i, 0)]
      /\ flow' = flow /\ launched' = launched
  BY DEF BloomTick, StepFleet
<1>3. /\ fleet' \in [BloomDrone -> Int] /\ calm' \in [BloomDrone -> Int]
  <2>1. \A i \in BloomDrone : /\ ExpectedGroundVelocity(fleet, i, flow) \in Int
                              /\ ExpectedGroundVelocity(calm, i, 0) \in Int
    BY <1>1, GroundVelocity
  <2> QED
    BY <1>1, <1>2, <2>1
<1>4. FlowIsCompensated'
  <2>1. SUFFICES ASSUME Size(flow) + MaxGroundSpeed <= MaxAirspeed PROVE fleet' = calm'
    BY <1>2 DEF FlowIsCompensated, Countered
  <2>2. fleet = calm
    BY <1>1, <2>1 DEF FlowIsCompensated, Countered
  <2>3. Size(0) + MaxGroundSpeed <= MaxAirspeed
    BY <1>1, <2>1, BloomConstants DEF Size, Towards
  <2>4. \A i \in BloomDrone : /\ ExpectedGroundVelocity(fleet, i, flow) = DesiredGroundVelocity(fleet, i)
                              /\ ExpectedGroundVelocity(fleet, i, 0) = DesiredGroundVelocity(fleet, i)
    BY <1>1, <2>1, <2>3, GroundVelocity
  <2> QED
    BY <1>2, <2>2, <2>4
<1>5. NobodyParts'
  <2>1. SUFFICES ASSUME NEW i \in BloomDrone, NEW j \in BloomDrone, launched[i] = launched[j]
                 PROVE  fleet'[i] = fleet'[j]
    BY <1>2 DEF NobodyParts
  <2>2. fleet[i] = fleet[j]
    BY <1>1, <2>1 DEF NobodyParts
  <2>3. ExpectedGroundVelocity(fleet, i, flow) = ExpectedGroundVelocity(fleet, j, flow)
    BY <1>1, <2>2, OnePlaceOneVelocity
  <2> QED
    BY <1>2, <2>2, <2>3
<1> QED
  BY <1>1, <1>2, <1>3, <1>4, <1>5 DEF BloomIInv

\* Of BloomSettles, what holds for all gains: a flow within the airframe's reach never
\* makes a difference to where a fleet is, however it is drawn and pushed, and drones
\* that start in one place never part (BloomController::command, step_fleet).
THEOREM FlowMakesNoDifference == BloomSpec => [](FlowIsCompensated /\ NobodyParts)
<1>1. BloomIInv /\ [BloomTick]_bloomVars => BloomIInv'
  <2>1. ASSUME BloomIInv, UNCHANGED bloomVars PROVE BloomIInv'
    BY <2>1 DEF BloomIInv, bloomVars, FlowIsCompensated, Countered, NobodyParts
  <2> QED
    BY <2>1, BloomTickIInv
<1>2. BloomIInv => FlowIsCompensated /\ NobodyParts
  BY DEF BloomIInv
<1> QED
  BY BloomInitIInv, <1>1, <1>2, PTL DEF BloomSpec

-----------------------------------------------------------------------------
(* The auction: who is awarded a task has bid for it.                       *)

\* min_by answers one of the offers, whatever the scores.
LEMMA BestIsAnOffer ==
  ASSUME NEW V, NEW offers \in Seq(V), offers # <<>>
  PROVE  \E k \in 1 .. Len(offers) : Best(offers) = offers[k]
<1> DEFINE s == Tail(offers)
           S == DOMAIN s
           ch == [T \in SUBSET S |-> CHOOSE x \in T : \A y \in T : x >= y]
           Offers == {offers[k] : k \in 1 .. Len(offers)}
           F == [x \in S |-> [b \in Offers |-> IF Beats(s[x], b) THEN s[x] ELSE b]]
           Def(g) == [T \in SUBSET S |-> IF T = {} THEN Head(offers)
                         ELSE LET x == CHOOSE x \in T : \A y \in T : x >= y
                              IN  IF Beats(s[x], g[T \ {x}]) THEN s[x] ELSE g[T \ {x}]]
           best == CHOOSE g : g = Def(g)
<1>1. Best(offers) = best[S]
  BY DEF Best, FoldLeft, MapThenFoldSet, Max
<1>2. /\ Len(offers) \in Nat /\ Head(offers) = offers[1] /\ 1 \in 1 .. Len(offers)
      /\ S = 1 .. Len(offers) - 1
      /\ \A x \in S : s[x] = offers[x + 1] /\ x + 1 \in 1 .. Len(offers)
  BY LenProperties, EmptySeq
<1>3. Head(offers) \in Offers /\ \A x \in S : s[x] \in Offers
  BY <1>2
<1> HIDE DEF Offers
<1>4. IsFiniteSet(S) /\ S \in SUBSET Int
  BY <1>2, FS_Interval
<1>5. IsChoice(ch, S)
  <2>1. ASSUME NEW T \in SUBSET S, T # {} PROVE ch[T] \in T
    <3>1. \E x \in T : \A y \in T : x >= y
      BY <1>4, <2>1, FS_Subset, HasMaximum
    <3> QED
      BY <3>1
  <2> QED
    BY <2>1 DEF IsChoice
<1>6. F \in [S -> [Offers -> Offers]]
  BY <1>3
<1> HIDE DEF s, S
<1>7. PICK g \in [SUBSET S -> Offers] : Follows(g, F, Head(offers), ch, S)
  <2> HIDE DEF ch, F
  <2> QED
    BY <1>3, <1>4, <1>5, <1>6, FoldExists
<1>8. g = Def(g)
  <2>1. ASSUME NEW T \in SUBSET S, T # {} PROVE g[T] = Def(g)[T]
    <3> DEFINE x == CHOOSE x \in T : \A y \in T : x >= y
    <3>1. ch[T] = x
      OBVIOUS
    <3>2. x \in T /\ x \in S /\ T \ {x} \in SUBSET S
      BY <1>5, <2>1, <3>1 DEF IsChoice
    <3>3. Def(g)[T] = IF Beats(s[x], g[T \ {x}]) THEN s[x] ELSE g[T \ {x}]
      BY <2>1
    <3>4. g[T] = F[x][g[T \ {x}]]
      BY <1>7, <2>1, <3>1 DEF Follows
    <3> HIDE DEF x, Def
    <3>5. g[T \ {x}] \in Offers
      BY <1>7, <3>2
    <3> QED
      BY <3>2, <3>3, <3>4, <3>5
  <2>2. g[{}] = Def(g)[{}]
    BY <1>7 DEF Follows
  <2>3. Def(g) = [T \in SUBSET S |-> Def(g)[T]] /\ g = [T \in SUBSET S |-> g[T]]
    BY <1>7
  <2> HIDE DEF Def
  <2> QED
    BY <2>1, <2>2, <2>3
<1>9. best = Def(best)
  <2> HIDE DEF Def
  <2> QED
    BY <1>8
<1>10. best[S] = g[S]
  <2> HIDE DEF best
  <2>1. best[{}] = g[{}]
    BY <1>7, <1>9 DEF Follows
  <2>2. ASSUME NEW T \in SUBSET S, T # {}, best[T \ {ch[T]}] = g[T \ {ch[T]}]
        PROVE  best[T] = g[T]
    <3> DEFINE x == CHOOSE x \in T : \A y \in T : x >= y
    <3>1. ch[T] = x
      OBVIOUS
    <3>2. best[T] = IF Beats(s[x], best[T \ {x}]) THEN s[x] ELSE best[T \ {x}]
      BY <1>9, <2>2
    <3>3. g[T] = IF Beats(s[x], g[T \ {x}]) THEN s[x] ELSE g[T \ {x}]
      BY <1>8, <2>2
    <3> HIDE DEF x, ch
    <3> QED
      BY <2>2, <3>1, <3>2, <3>3
  <2> HIDE DEF ch
  <2>3. \A T \in SUBSET S : T # {} /\ best[T \ {ch[T]}] = g[T \ {ch[T]}] => best[T] = g[T]
    BY <2>2
  <2> QED
    BY <1>4, <1>5, <2>1, <2>3, FoldsAgree
<1>11. g[S] \in Offers
  BY <1>7
<1> QED
  BY <1>1, <1>10, <1>11 DEF Offers

Award == [task : Task, winner : Bidder, open : SUBSET Bidder]

AuctionTypes == /\ IsFiniteSet(pendingTasks) /\ pendingTasks \in SUBSET Task
                /\ bids \in [Task -> Seq(Bid)]
                /\ bidders \in [Task -> SUBSET Bidder]
                /\ awards \in Seq(Award)

\* What is on file for a task was bid while it was open.
BidsAreOpen == \A t \in Task : \A k \in 1 .. Len(bids[t]) : bids[t][k].node \in bidders[t]

AuctionIInv == AuctionTypes /\ BidsAreOpen /\ AwardedToBidder

LEMMA AuctionInitIInv == AuctionInit => AuctionIInv
<1> SUFFICES ASSUME AuctionInit PROVE AuctionIInv
  OBVIOUS
<1>1. AuctionTypes
  BY FS_EmptySet DEF AuctionInit, AuctionTypes
<1>2. BidsAreOpen /\ AwardedToBidder
  BY DEF AuctionInit, BidsAreOpen, AwardedToBidder
<1> QED
  BY <1>1, <1>2 DEF AuctionIInv

LEMMA SubmitBidIInv ==
  ASSUME AuctionIInv, NEW t \in Task, NEW b \in Bid, SubmitBid(t, b)
  PROVE  AuctionIInv'
<1>1. pendingTasks' = pendingTasks /\ awards' = awards
  BY DEF SubmitBid
<1>2. AwardedToBidder'
  BY <1>1 DEF AuctionIInv, AwardedToBidder
<1>3. CASE t \notin pendingTasks
  <2>1. bids' = bids /\ bidders' = bidders
    BY <1>3 DEF SubmitBid, Accepts
  <2> QED
    BY <1>1, <1>2, <2>1 DEF AuctionIInv, AuctionTypes, BidsAreOpen
<1>4. CASE t \in pendingTasks
  <2>1. /\ bids' = [bids EXCEPT ![t] = Append(@, b)]
        /\ bidders' = [bidders EXCEPT ![t] = @ \cup {b.node}]
    BY <1>4 DEF SubmitBid, Accepts
  <2>2. bids[t] \in Seq(Bid) /\ b.node \in Bidder
    BY DEF AuctionIInv, AuctionTypes, Bid
  <2>3. /\ Append(bids[t], b) \in Seq(Bid)
        /\ Len(Append(bids[t], b)) = Len(bids[t]) + 1
        /\ \A k \in 1 .. Len(bids[t]) : Append(bids[t], b)[k] = bids[t][k]
        /\ Append(bids[t], b)[Len(bids[t]) + 1] = b
        /\ Len(bids[t]) \in Nat
    BY <2>2, AppendProperties, LenProperties
  <2>4. AuctionTypes'
    BY <1>1, <2>1, <2>2, <2>3 DEF AuctionIInv, AuctionTypes
  <2>5. ASSUME NEW u \in Task, NEW k \in 1 .. Len(bids'[u])
        PROVE  bids'[u][k].node \in bidders'[u]
    <3>1. CASE u # t
      BY <2>1, <3>1 DEF AuctionIInv, AuctionTypes, BidsAreOpen
    <3>2. CASE u = t
      <4>1. bids'[u] = Append(bids[t], b) /\ bidders'[u] = bidders[t] \cup {b.node}
        BY <2>1, <3>2 DEF AuctionIInv, AuctionTypes
      <4>2. k \in 1 .. Len(bids[t]) \/ k = Len(bids[t]) + 1
        BY <2>3, <2>5, <4>1
      <4>3. \A j \in 1 .. Len(bids[t]) : bids[t][j].node \in bidders[t]
        BY DEF AuctionIInv, BidsAreOpen
      <4> QED
        BY <2>3, <4>1, <4>2, <4>3
    <3> QED
      BY <3>1, <3>2
  <2> QED
    BY <1>2, <2>4, <2>5 DEF AuctionIInv, BidsAreOpen
<1> QED
  BY <1>3, <1>4

LEMMA ResolveIInv == ASSUME AuctionIInv, Resolve PROVE AuctionIInv'
<1> DEFINE won == {t \in pendingTasks : bids[t] # <<>>}
<1>1. PICK order \in SetToSeqs(won) :
        awards' = awards \o [k \in 1 .. Len(order) |->
                               [task |-> order[k], winner |-> Best(bids[order[k]]).node,
                                open |-> bidders[order[k]]]]
  BY DEF Resolve
<1>2. /\ bids' = [t \in Task |-> IF t \in won THEN <<>> ELSE bids[t]]
      /\ pendingTasks' = pendingTasks \ won
      /\ bidders' = [t \in Task |-> IF t \in won THEN {} ELSE bidders[t]]
  BY DEF Resolve
<1>3. IsFiniteSet(won) /\ won \in SUBSET Task
  BY FS_Subset DEF AuctionIInv, AuctionTypes
<1>4. Cardinality(won) \in Nat
  BY <1>3, FS_CardinalityType
<1>5. order \in [1 .. Cardinality(won) -> won]
  BY DEF SetToSeqs
<1> DEFINE n == Len(order)
           new == [k \in 1 .. n |->
                     [task |-> order[k], winner |-> Best(bids[order[k]]).node,
                      open |-> bidders[order[k]]]]
<1>6. n \in Nat /\ \A k \in 1 .. n : order[k] \in won
  <2> DEFINE c == Cardinality(won)
  <2>1. c \in Nat /\ order \in [1 .. c -> won]
    BY <1>4, <1>5
  <2> HIDE DEF c, won
  <2>2. order \in Seq(won)
    BY <2>1
  <2> QED
    BY <2>2, LenProperties
<1>7. ASSUME NEW k \in 1 .. n
      PROVE  new[k] \in Award /\ new[k].winner \in new[k].open
  <2> DEFINE t == order[k]
  <2>1. t \in Task /\ bids[t] # <<>>
    BY <1>3, <1>6
  <2>2. bids[t] \in Seq(Bid) /\ bidders[t] \in SUBSET Bidder
    BY <2>1 DEF AuctionIInv, AuctionTypes
  <2>3. PICK j \in 1 .. Len(bids[t]) : Best(bids[t]) = bids[t][j]
    BY <2>1, <2>2, BestIsAnOffer
  <2>4. Best(bids[t]).node \in bidders[t]
    BY <2>1, <2>3 DEF AuctionIInv, BidsAreOpen
  <2>5. new[k] = [task |-> t, winner |-> Best(bids[t]).node, open |-> bidders[t]]
    OBVIOUS
  <2> HIDE DEF t, new
  <2> QED
    BY <2>1, <2>2, <2>4, <2>5 DEF Award
<1>8. new \in Seq(Award) /\ Len(new) = n
  <2>1. new \in [1 .. n -> Award]
    <3>1. new = [k \in 1 .. n |-> new[k]]
      OBVIOUS
    <3> HIDE DEF new
    <3> QED
      BY <1>7, <3>1
  <2> HIDE DEF new, n
  <2> QED
    BY <1>6, <2>1
<1>9. awards' = awards \o new
  BY <1>1
<1> HIDE DEF new, n
<1>10. awards \in Seq(Award) /\ Len(awards) \in Nat
  BY LenProperties DEF AuctionIInv, AuctionTypes
<1>11. /\ awards' \in Seq(Award)
       /\ Len(awards') = Len(awards) + n
       /\ \A k \in 1 .. Len(awards) + n :
            awards'[k] = IF k <= Len(awards) THEN awards[k] ELSE new[k - Len(awards)]
  BY <1>8, <1>9, <1>10, ConcatProperties
<1>12. AwardedToBidder'
  <2>1. DOMAIN awards' = 1 .. Len(awards) + n /\ DOMAIN awards = 1 .. Len(awards)
    BY <1>10, <1>11, LenProperties
  <2>2. ASSUME NEW k \in 1 .. Len(awards) + n PROVE awards'[k].winner \in awards'[k].open
    <3>1. CASE k <= Len(awards)
      BY <1>10, <1>11, <2>1, <3>1 DEF AuctionIInv, AwardedToBidder
    <3>2. CASE ~(k <= Len(awards))
      <4>1. k - Len(awards) \in 1 .. n
        BY <1>6, <1>10, <3>2
      <4> QED
        BY <1>7, <1>11, <3>2, <4>1
    <3> QED
      BY <3>1, <3>2
  <2> QED
    BY <2>1, <2>2 DEF AwardedToBidder
<1>13. AuctionTypes'
  <2>1. IsFiniteSet(pendingTasks') /\ pendingTasks' \in SUBSET Task
    BY <1>2, FS_Subset DEF AuctionIInv, AuctionTypes
  <2>2. bids' \in [Task -> Seq(Bid)] /\ bidders' \in [Task -> SUBSET Bidder]
    BY <1>2 DEF AuctionIInv, AuctionTypes
  <2> QED
    BY <1>11, <2>1, <2>2 DEF AuctionTypes
<1>14. BidsAreOpen'
  <2> HIDE DEF won
  <2> QED
    BY <1>2 DEF AuctionIInv, AuctionTypes, BidsAreOpen
<1> QED
  BY <1>12, <1>13, <1>14 DEF AuctionIInv

LEMMA AuctionNextIInv == AuctionIInv /\ [AuctionNext]_auctionVars => AuctionIInv'
<1> SUFFICES ASSUME AuctionIInv, [AuctionNext]_auctionVars PROVE AuctionIInv'
  OBVIOUS
<1>1. ASSUME NEW n \in Bidder, UpdateNode(n) \/ RemoveNode(n) PROVE AuctionIInv'
  BY <1>1 DEF UpdateNode, RemoveNode, AuctionIInv, AuctionTypes, BidsAreOpen, AwardedToBidder
<1>2. ASSUME NEW t \in Task, AnnounceTask(t) PROVE AuctionIInv'
  <2>1. IsFiniteSet(pendingTasks') /\ pendingTasks' \in SUBSET Task
    BY <1>2, FS_AddElement DEF AnnounceTask, AuctionIInv, AuctionTypes
  <2>2. UNCHANGED <<bids, awards, bidders>>
    BY <1>2 DEF AnnounceTask
  <2> QED
    BY <2>1, <2>2 DEF AuctionIInv, AuctionTypes, BidsAreOpen, AwardedToBidder
<1>3. CASE UNCHANGED auctionVars
  BY <1>3 DEF auctionVars, AuctionIInv, AuctionTypes, BidsAreOpen, AwardedToBidder
<1> QED
  BY <1>1, <1>2, <1>3, SubmitBidIInv, ResolveIInv DEF AuctionNext

\* Whoever drops out of the mesh, bids late or bids without a readable score:
\* what resolve awards goes to a node that bid while the task was open.
THEOREM AwardsGoToBidders == AuctionSpec => []AwardedToBidder
<1>1. AuctionIInv => AwardedToBidder
  BY DEF AuctionIInv
<1> QED
  BY <1>1, AuctionInitIInv, AuctionNextIInv, PTL DEF AuctionSpec

-----------------------------------------------------------------------------
(* The returns of a rollout: both ways to compute them go backwards through *)
(* the transitions, and add up what is earned until the first that is done. *)

Transition == [reward : Int, done : BOOLEAN]
Discount == Gamma * Lambda

\* What a transition adds to the return after it.
Adds(b) == [t \in 1 .. Len(b) |->
              [v \in Int |-> IF b[t].done THEN b[t].reward ELSE b[t].reward + Discount * v]]

LEMMA TransitionType ==
  ASSUME NEW b \in Seq(Transition)
  PROVE  /\ Len(b) \in Nat /\ DOMAIN b = 1 .. Len(b)
         /\ Discount \in Int /\ Gamma \in Int /\ Lambda \in Int
         /\ \A t \in 1 .. Len(b) : b[t].reward \in Int /\ b[t].done \in BOOLEAN
<1>1. Len(b) \in Nat /\ DOMAIN b = 1 .. Len(b) /\ \A t \in 1 .. Len(b) : b[t] \in Transition
  BY LenProperties
<1>2. Gamma \in Int /\ Lambda \in Int
  BY TrainingAssumption
<1>3. Discount \in Int
  BY <1>2 DEF Discount
<1> QED
  BY <1>1, <1>2, <1>3 DEF Transition

LEMMA ReturnsExist ==
  ASSUME NEW b \in Seq(Transition)
  PROVE  \E g \in [1 .. Len(b) + 1 -> Int] : Descends(g, Adds(b), 0, Len(b))
<1>1. Adds(b) \in [1 .. Len(b) -> [Int -> Int]]
  BY TransitionType DEF Adds
<1> DEFINE V == Int
<1>2. 0 \in V /\ Adds(b) \in [1 .. Len(b) -> [V -> V]] /\ Len(b) \in Nat
  BY <1>1, TransitionType
<1> HIDE DEF V
<1>3. \E g \in [1 .. Len(b) + 1 -> V] : Descends(g, Adds(b), 0, Len(b))
  BY <1>2, DownwardExists
<1> QED
  BY <1>3 DEF V

\* One step of such a function.
LEMMA ReturnStep ==
  ASSUME NEW b \in Seq(Transition), NEW g \in [1 .. Len(b) + 1 -> Int],
         Descends(g, Adds(b), 0, Len(b))
  PROVE  /\ g[Len(b) + 1] = 0
         /\ \A t \in 1 .. Len(b) :
              /\ g[t] \in Int /\ g[t + 1] \in Int
              /\ g[t] = IF b[t].done THEN b[t].reward ELSE b[t].reward + Discount * g[t + 1]
<1>1. g[Len(b) + 1] = 0 /\ \A t \in 1 .. Len(b) : g[t] = Adds(b)[t][g[t + 1]]
  BY DEF Descends
<1>2. ASSUME NEW t \in 1 .. Len(b)
      PROVE  /\ g[t] \in Int /\ g[t + 1] \in Int
             /\ g[t] = IF b[t].done THEN b[t].reward ELSE b[t].reward + Discount * g[t + 1]
  <2>1. t \in 1 .. Len(b) + 1 /\ t + 1 \in 1 .. Len(b) + 1
    <3>1. Len(b) \in Nat
      BY TransitionType
    <3> QED
      BY <3>1
  <2>2. g[t] \in Int /\ g[t + 1] \in Int
    BY <2>1
  <2> QED
    BY <1>1, <2>2 DEF Adds
<1> QED
  BY <1>1, <1>2

LEMMA GaeIsTheReturn ==
  ASSUME NEW b \in Seq(Transition), NEW g \in [1 .. Len(b) + 1 -> Int],
         Descends(g, Adds(b), 0, Len(b))
  PROVE  ComputeGae(b, [t \in DOMAIN b |-> 0]) = [t \in 1 .. Len(b) |-> g[t]]
<1> DEFINE n == Len(b)
           values == [t \in DOMAIN b |-> 0]
           Def(h) == [t \in 1 .. n + 1 |->
                        IF t = n + 1 THEN 0
                        ELSE LET goesOn == IF b[t].done THEN 0 ELSE 1
                                 next == IF t < n THEN values[t + 1] ELSE 0
                             IN  b[t].reward + Gamma * next * goesOn - values[t]
                                 + Gamma * Lambda * goesOn * h[t + 1]]
           gae == CHOOSE h : h = Def(h)
<1>1. ComputeGae(b, values) = [t \in 1 .. n |-> gae[t] + values[t]]
  BY DEF ComputeGae
<1>2. n \in Nat /\ \A t \in 1 .. n : values[t] = 0
  BY TransitionType
<1> HIDE DEF values
<1>3. ASSUME NEW h, NEW t \in 1 .. n, h[t + 1] = g[t + 1]
      PROVE  Def(h)[t] = g[t]
  <2> DEFINE r == b[t].reward
             v == g[t + 1]
  <2>1. r \in Int /\ b[t].done \in BOOLEAN /\ v \in Int /\ Gamma \in Int /\ Lambda \in Int
    BY <1>2, TransitionType, ReturnStep
  <2>2. (IF t < n THEN values[t + 1] ELSE 0) = 0
    BY <1>2
  <2>3. Def(h)[t] = r + Gamma * 0 * (IF b[t].done THEN 0 ELSE 1) - 0
                    + Gamma * Lambda * (IF b[t].done THEN 0 ELSE 1) * v
    <3>1. t # n + 1 /\ t \in 1 .. n + 1
      BY <1>2
    <3> QED
      BY <1>2, <1>3, <2>2, <3>1
  <2>4. g[t] = IF b[t].done THEN r ELSE r + Discount * v
    BY ReturnStep
  <2> HIDE DEF r, v, Def
  <2>5. CASE b[t].done
    <3>1. Gamma * Lambda * 0 * v = 0 /\ Gamma * 0 * 0 = 0
      BY <2>1
    <3> QED
      BY <2>1, <2>3, <2>4, <2>5, <3>1
  <2>6. CASE ~b[t].done
    <3>1. Gamma * Lambda * 1 * v = Discount * v /\ Gamma * 0 * 1 = 0 /\ Discount * v \in Int
      BY <2>1 DEF Discount
    <3> QED
      BY <2>1, <2>3, <2>4, <2>6, <3>1
  <2> QED
    BY <2>1, <2>5, <2>6
<1>4. \A h : Def(h)[n + 1] = 0
  BY <1>2
<1>5. g = Def(g)
  <2>1. \A t \in 1 .. n : Def(g)[t] = g[t]
    BY <1>3
  <2>2. g[n + 1] = 0
    BY ReturnStep
  <2>3. Def(g) = [t \in 1 .. n + 1 |-> Def(g)[t]] /\ g = [t \in 1 .. n + 1 |-> g[t]]
    OBVIOUS
  <2>4. Def(g)[n + 1] = g[n + 1]
    BY <1>4, <2>2
  <2>5. \A t \in 1 .. n + 1 : t \in 1 .. n \/ t = n + 1
    BY <1>2
  <2> HIDE DEF Def
  <2>6. \A t \in 1 .. n + 1 : Def(g)[t] = g[t]
    BY <2>1, <2>4, <2>5
  <2> QED
    BY <2>3, <2>6
<1> HIDE DEF Def
<1>6. gae = Def(gae)
  BY <1>5
<1> HIDE DEF gae
<1> DEFINE P == {t \in 1 .. n + 1 : gae[t] = g[t]}
<1>7. n + 1 \in P
  BY <1>2, <1>4, <1>6, ReturnStep
<1>8. ASSUME NEW t \in 1 + 1 .. n + 1, t \in P PROVE t - 1 \in P
  <2>1. t - 1 \in 1 .. n /\ (t - 1) + 1 = t
    BY <1>2
  <2>2. Def(gae)[t - 1] = g[t - 1]
    BY <1>3, <1>8, <2>1
  <2> QED
    BY <1>6, <2>1, <2>2
<1> HIDE DEF P
<1>9. \A t \in 1 .. n + 1 : t \in P
  <2> DEFINE hi == n + 1
  <2>1. 1 \in Int /\ hi \in Int /\ hi \in P /\ \A t \in 1 + 1 .. hi : t \in P => t - 1 \in P
    BY <1>2, <1>7, <1>8
  <2> HIDE DEF hi
  <2>2. \A t \in 1 .. hi : t \in P
    BY ONLY <2>1, DescendingReaches
  <2> QED
    BY <2>2 DEF hi
<1>10. \A t \in 1 .. n : gae[t] = g[t] /\ g[t] \in Int
  BY <1>2, <1>9 DEF P
<1>11. \A t \in 1 .. n : gae[t] + values[t] = g[t]
  BY <1>2, <1>10
<1> QED
  BY <1>1, <1>11 DEF values

LEMMA RunningIsTheReturn ==
  ASSUME NEW b \in Seq(Transition), NEW g \in [1 .. Len(b) + 1 -> Int],
         Descends(g, Adds(b), 0, Len(b))
  PROVE  ComputeReturns(b, Discount) = [t \in 1 .. Len(b) |-> g[t]]
<1> DEFINE n == Len(b)
           Def(h) == [t \in 1 .. n + 1 |->
                        IF t = n + 1 THEN 0
                        ELSE b[t].reward
                             + Discount * h[t + 1] * (IF b[t].done THEN 0 ELSE 1)]
           running == CHOOSE h : h = Def(h)
<1>1. ComputeReturns(b, Discount) = [t \in 1 .. n |-> running[t]]
  BY DEF ComputeReturns
<1>2. n \in Nat
  BY TransitionType
<1>3. ASSUME NEW h, NEW t \in 1 .. n, h[t + 1] = g[t + 1]
      PROVE  Def(h)[t] = g[t]
  <2> DEFINE r == b[t].reward
             v == g[t + 1]
  <2>1. r \in Int /\ b[t].done \in BOOLEAN /\ v \in Int /\ Discount \in Int
    BY <1>2, TransitionType, ReturnStep
  <2>2. Def(h)[t] = r + Discount * v * (IF b[t].done THEN 0 ELSE 1)
    <3>1. t # n + 1 /\ t \in 1 .. n + 1
      BY <1>2
    <3> QED
      BY <1>3, <3>1
  <2>3. g[t] = IF b[t].done THEN r ELSE r + Discount * v
    BY ReturnStep
  <2> HIDE DEF r, v, Def
  <2>4. Discount * v * 0 = 0 /\ Discount * v * 1 = Discount * v /\ Discount * v \in Int
    BY <2>1
  <2> QED
    BY <2>1, <2>2, <2>3, <2>4
<1>4. \A h : Def(h)[n + 1] = 0
  BY <1>2
<1>5. g = Def(g)
  <2>1. \A t \in 1 .. n : Def(g)[t] = g[t]
    BY <1>3
  <2>2. g[n + 1] = 0
    BY ReturnStep
  <2>3. Def(g) = [t \in 1 .. n + 1 |-> Def(g)[t]] /\ g = [t \in 1 .. n + 1 |-> g[t]]
    OBVIOUS
  <2>4. Def(g)[n + 1] = g[n + 1]
    BY <1>4, <2>2
  <2>5. \A t \in 1 .. n + 1 : t \in 1 .. n \/ t = n + 1
    BY <1>2
  <2> HIDE DEF Def
  <2>6. \A t \in 1 .. n + 1 : Def(g)[t] = g[t]
    BY <2>1, <2>4, <2>5
  <2> QED
    BY <2>3, <2>6
<1> HIDE DEF Def
<1>6. running = Def(running)
  BY <1>5
<1> HIDE DEF running
<1> DEFINE P == {t \in 1 .. n + 1 : running[t] = g[t]}
<1>7. n + 1 \in P
  BY <1>2, <1>4, <1>6, ReturnStep
<1>8. ASSUME NEW t \in 1 + 1 .. n + 1, t \in P PROVE t - 1 \in P
  <2>1. t - 1 \in 1 .. n /\ (t - 1) + 1 = t
    BY <1>2
  <2>2. Def(running)[t - 1] = g[t - 1]
    BY <1>3, <1>8, <2>1
  <2> QED
    BY <1>6, <2>1, <2>2
<1> HIDE DEF P
<1>9. \A t \in 1 .. n + 1 : t \in P
  <2> DEFINE hi == n + 1
  <2>1. 1 \in Int /\ hi \in Int /\ hi \in P /\ \A t \in 1 + 1 .. hi : t \in P => t - 1 \in P
    BY <1>2, <1>7, <1>8
  <2> HIDE DEF hi
  <2>2. \A t \in 1 .. hi : t \in P
    BY ONLY <2>1, DescendingReaches
  <2> QED
    BY <2>2 DEF hi
<1>10. \A t \in 1 .. n : running[t] = g[t]
  BY <1>2, <1>9 DEF P
<1> QED
  BY <1>1, <1>10

\* The discounts are powers.
LEMMA DiscountsStep ==
  ASSUME NEW n \in Nat
  PROVE  /\ Discounts(n) \in [0 .. n -> Int]
         /\ Discounts(n)[0] = 1
         /\ \A k \in 1 .. n : Discounts(n)[k] = Discount * Discounts(n)[k - 1]
<1> DEFINE F == [k \in 1 .. n |-> [v \in Int |-> Discount * v]]
           Def(h) == [k \in 0 .. n |-> IF k = 0 THEN 1 ELSE Gamma * Lambda * h[k - 1]]
           power == CHOOSE h : h = Def(h)
<1>1. Discounts(n) = power
  BY DEF Discounts
<1>2. Discount \in Int /\ Gamma \in Int /\ Lambda \in Int /\ Discount = Gamma * Lambda
  BY TrainingAssumption DEF Discount
<1>3. F \in [1 .. n -> [Int -> Int]]
  BY <1>2
<1>4. PICK g \in [0 .. n -> Int] : Ascends(g, F, 1, n)
  <2> DEFINE V == Int
  <2>1. 1 \in V /\ F \in [1 .. n -> [V -> V]]
    BY <1>3
  <2> HIDE DEF V, F
  <2>2. \E g \in [0 .. n -> V] : Ascends(g, F, 1, n)
    BY <2>1, UpwardExists
  <2> QED
    BY <2>2 DEF V
<1>5. g[0] = 1 /\ \A k \in 1 .. n : g[k] = Discount * g[k - 1]
  <2>1. ASSUME NEW k \in 1 .. n PROVE g[k] = Discount * g[k - 1]
    <3>1. g[k - 1] \in Int /\ g[k] = F[k][g[k - 1]]
      BY <1>4 DEF Ascends
    <3> QED
      BY <3>1
  <2> QED
    BY <1>4, <2>1 DEF Ascends
<1>6. g = Def(g)
  <2>1. ASSUME NEW k \in 0 .. n PROVE Def(g)[k] = g[k]
    <3>1. CASE k = 0
      BY <1>5, <3>1
    <3>2. CASE k # 0
      <4>1. k \in 1 .. n
        BY <3>2
      <4> QED
        BY <1>2, <1>5, <3>2, <4>1
    <3> QED
      BY <3>1, <3>2
  <2>2. Def(g) = [k \in 0 .. n |-> Def(g)[k]] /\ g = [k \in 0 .. n |-> g[k]]
    OBVIOUS
  <2> HIDE DEF Def
  <2> QED
    BY <2>1, <2>2
<1>7. power = Def(power)
  <2> HIDE DEF Def
  <2> QED
    BY <1>6
<1> HIDE DEF power
<1> DEFINE P == {k \in 0 .. n : power[k] = g[k]}
<1>8. 0 \in P
  BY <1>5, <1>7
<1>9. ASSUME NEW k \in 0 .. n - 1, k \in P PROVE k + 1 \in P
  <2>1. k + 1 \in 1 .. n /\ k + 1 \in 0 .. n /\ k + 1 # 0 /\ (k + 1) - 1 = k
    OBVIOUS
  <2>2. power[k + 1] = Gamma * Lambda * power[k]
    BY <1>7, <2>1
  <2>3. g[k + 1] = Discount * g[k]
    BY <1>5, <2>1
  <2> QED
    BY <1>2, <1>9, <2>1, <2>2, <2>3
<1> HIDE DEF P
<1>10. \A k \in 0 .. n : k \in P
  <2>1. 0 \in Int /\ n \in Int
    OBVIOUS
  <2> QED
    BY ONLY <1>8, <1>9, <2>1, ClimbingReaches
<1>11. \A k \in 0 .. n : power[k] = g[k]
  BY <1>10 DEF P
<1>12. power = g
  <2>1. power = [k \in 0 .. n |-> power[k]] /\ g = [k \in 0 .. n |-> g[k]]
    BY <1>7
  <2> QED
    BY <1>11, <2>1
<1> QED
  BY <1>1, <1>4, <1>5, <1>12

IsFirstDone(t, k) == /\ k \in t .. Len(buffer) /\ buffer[k].done
                     /\ \A j \in t .. k - 1 : ~buffer[j].done

LEMMA FirstDoneIs ==
  ASSUME buffer \in Seq(Transition), NEW t \in 1 .. Len(buffer), NEW k, IsFirstDone(t, k)
  PROVE  FirstDone(t) = k
<1>1. Len(buffer) \in Nat
  BY TransitionType
<1>2. \A i, j \in t .. Len(buffer) : IsFirstDone(t, i) /\ IsFirstDone(t, j) => i = j
  BY <1>1 DEF IsFirstDone
<1>3. FirstDone(t) = CHOOSE i \in t .. Len(buffer) : IsFirstDone(t, i)
  BY DEF FirstDone, IsFirstDone
<1>4. k \in t .. Len(buffer)
  BY DEF IsFirstDone
<1> HIDE DEF IsFirstDone
<1>5. LET c == CHOOSE i \in t .. Len(buffer) : IsFirstDone(t, i)
      IN  c \in t .. Len(buffer) /\ IsFirstDone(t, c)
  BY <1>4
<1> QED
  BY <1>2, <1>3, <1>4, <1>5

\* The discounted rewards from t to k, as terms of a sum.
Terms(t, k) == [i \in 1 .. k - t + 1 |->
                  Discounts(Len(buffer))[i - 1] * buffer[t + i - 1].reward]

\* A transition adds its reward to the terms after it.
LEMMA TermsShift ==
  ASSUME buffer \in Seq(Transition), NEW t \in 1 .. Len(buffer), NEW k \in t + 1 .. Len(buffer)
  PROVE  SumFunction(Terms(t, k)) = buffer[t].reward + Discount * SumFunction(Terms(t + 1, k))
<1> DEFINE n == k - t
           f == Terms(t, k)
           h == Terms(t + 1, k)
           d == Discounts(Len(buffer))
<1>1. /\ Len(buffer) \in Nat /\ Discount \in Int
      /\ \A j \in 1 .. Len(buffer) : buffer[j].reward \in Int
  BY TransitionType
<1>2. /\ \A j \in 0 .. Len(buffer) : d[j] \in Int
      /\ d[0] = 1
      /\ \A j \in 1 .. Len(buffer) : d[j] = Discount * d[j - 1]
  BY <1>1, DiscountsStep
<1>3. n \in Nat /\ n + 1 = k - t + 1 /\ n = k - (t + 1) + 1 /\ n <= Len(buffer) - t
  BY <1>1
<1>4. /\ f = [i \in 1 .. n + 1 |-> d[i - 1] * buffer[t + i - 1].reward]
      /\ h = [i \in 1 .. n |-> d[i - 1] * buffer[(t + 1) + i - 1].reward]
  BY <1>3 DEF Terms
<1> HIDE DEF f, h, d
<1>5. ASSUME NEW i \in 1 .. n + 1 PROVE f[i] \in Int
  <2>1. i - 1 \in 0 .. Len(buffer) /\ t + i - 1 \in 1 .. Len(buffer)
    BY <1>1, <1>3
  <2>2. d[i - 1] \in Int /\ buffer[t + i - 1].reward \in Int
    BY <1>1, <1>2, <2>1
  <2>3. \A x, y \in Int : x * y \in Int
    OBVIOUS
  <2>4. f[i] = d[i - 1] * buffer[t + i - 1].reward
    BY <1>4
  <2> QED
    BY ONLY <2>2, <2>3, <2>4
<1>6. ASSUME NEW i \in 1 .. n PROVE h[i] \in Int /\ f[i + 1] = Discount * h[i]
  <2> DEFINE r == buffer[t + i].reward
  <2>1. /\ i \in 1 .. Len(buffer) /\ i - 1 \in 0 .. Len(buffer) /\ t + i \in 1 .. Len(buffer)
        /\ i + 1 \in 1 .. n + 1 /\ (i + 1) - 1 = i
        /\ t + (i + 1) - 1 = t + i /\ (t + 1) + i - 1 = t + i
    BY <1>1, <1>3
  <2>2. d[i] = Discount * d[i - 1] /\ d[i - 1] \in Int /\ r \in Int
    BY <1>1, <1>2, <2>1
  <2>3. f[i + 1] = d[i] * r /\ h[i] = d[i - 1] * r
    BY <1>4, <2>1
  <2> HIDE DEF r
  <2>4. (Discount * d[i - 1]) * r = Discount * (d[i - 1] * r) /\ d[i - 1] * r \in Int
    BY <1>1, <2>2
  <2> QED
    BY <2>2, <2>3, <2>4
<1>7. f[1] = buffer[t].reward
  <2>1. 1 \in 1 .. n + 1 /\ 1 - 1 = 0 /\ t + 1 - 1 = t
    BY <1>3
  <2>2. f[1] = d[0] * buffer[t].reward
    BY <1>4, <2>1
  <2> QED
    BY <1>1, <1>2, <2>2
<1>8. SumFunctionOnSet(f, 1 .. n + 1) = f[1] + Discount * SumFunctionOnSet(h, 1 .. n)
  <2> DEFINE c == Discount
  <2> HIDE DEF n, c
  <2>1. /\ n \in Nat /\ c \in Int
        /\ \A i \in 1 .. n + 1 : f[i] \in Int
        /\ \A i \in 1 .. n : h[i] \in Int
        /\ \A i \in 1 .. n : f[i + 1] = c * h[i]
    BY <1>1, <1>3, <1>5, <1>6 DEF c
  <2>2. SumFunctionOnSet(f, 1 .. n + 1) = f[1] + c * SumFunctionOnSet(h, 1 .. n)
    BY ONLY <2>1, SumShifted
  <2> QED
    BY <2>2 DEF c
<1>9. DOMAIN f = 1 .. n + 1 /\ DOMAIN h = 1 .. n
  BY <1>4
<1>10. SumFunction(f) = buffer[t].reward + Discount * SumFunction(h)
  <2> HIDE DEF n
  <2> QED
    BY <1>7, <1>8, <1>9 DEF SumFunction
<1> QED
  BY <1>10 DEF f, h

LEMMA ReturnsAddUp ==
  ASSUME buffer \in Seq(Transition), buffer # <<>> => buffer[Len(buffer)].done,
         NEW g \in [1 .. Len(buffer) + 1 -> Int],
         Descends(g, Adds(buffer), 0, Len(buffer))
  PROVE  \A t \in 1 .. Len(buffer) : g[t] = SumFunction(Terms(t, FirstDone(t)))
<1> DEFINE n == Len(buffer)
           P == {t \in 1 .. n : \E k : IsFirstDone(t, k) /\ g[t] = SumFunction(Terms(t, k))}
<1>1. n \in Nat /\ \A t \in 1 .. n : buffer[t].reward \in Int
  BY TransitionType
<1>2. ASSUME NEW t \in 1 .. n, buffer[t].done PROVE t \in P
  <2>1. IsFirstDone(t, t)
    BY <1>1, <1>2 DEF IsFirstDone
  <2> DEFINE f == Terms(t, t)
  <2>2. f = [i \in {1} |-> buffer[t].reward]
    <3>1. 1 .. t - t + 1 = {1}
      BY <1>1
    <3>2. Discounts(n)[0] = 1
      BY <1>1, DiscountsStep
    <3>3. \A i \in {1} : Discounts(n)[i - 1] * buffer[t + i - 1].reward = buffer[t].reward
      <4>1. 1 - 1 = 0 /\ t + 1 - 1 = t /\ buffer[t].reward \in Int
        BY <1>1
      <4> QED
        BY <3>2, <4>1
    <3> QED
      BY <3>1, <3>3 DEF Terms
  <2> HIDE DEF f
  <2>3. DOMAIN f = {1} /\ f[1] = buffer[t].reward /\ f[1] \in Int
    BY <1>1, <2>2
  <2>4. SumFunction(f) = buffer[t].reward
    BY <2>3, SumSingle DEF SumFunction
  <2>5. g[t] = buffer[t].reward
    BY <1>2, ReturnStep
  <2> QED
    BY <2>1, <2>4, <2>5 DEF f
<1>3. SUFFICES ASSUME n # 0 PROVE \A t \in 1 .. n : g[t] = SumFunction(Terms(t, FirstDone(t)))
  BY <1>1
<1>4. n \in P
  <2>1. n \in 1 .. n /\ buffer # <<>>
    BY <1>1, <1>3
  <2> QED
    BY <1>2, <2>1
<1>5. \A t \in 1 .. n :
        g[t] = IF buffer[t].done THEN buffer[t].reward ELSE buffer[t].reward + Discount * g[t + 1]
  BY ReturnStep
<1>6. ASSUME NEW t \in 1 + 1 .. n, t \in P PROVE t - 1 \in P
  <2> DEFINE s == t - 1
  <2>1. s \in 1 .. n /\ s + 1 = t
    BY <1>1
  <2>2. CASE buffer[s].done
    BY <1>2, <2>1, <2>2
  <2>3. CASE ~buffer[s].done
    <3>1. PICK k : IsFirstDone(t, k) /\ g[t] = SumFunction(Terms(t, k))
      BY <1>6
    <3>2. k \in s + 1 .. n
      BY <2>1, <3>1 DEF IsFirstDone
    <3>3. IsFirstDone(s, k)
      <4>1. k \in s .. n
        BY <2>1, <3>2
      <4>2. \A j \in s .. k - 1 : j = s \/ j \in t .. k - 1
        BY <2>1, <3>2
      <4> QED
        BY <2>3, <3>1, <4>1, <4>2 DEF IsFirstDone
    <3>4. SumFunction(Terms(s, k)) = buffer[s].reward + Discount * SumFunction(Terms(s + 1, k))
      BY <2>1, <3>2, TermsShift
    <3> HIDE DEF s
    <3>5. g[s] = buffer[s].reward + Discount * g[s + 1]
      BY <2>1, <2>3, <1>5
    <3>6. g[s] = SumFunction(Terms(s, k))
      BY <2>1, <3>1, <3>4, <3>5
    <3>7. s \in P
      BY <2>1, <3>3, <3>6
    <3> QED
      BY <3>7 DEF s
  <2> QED
    BY <2>2, <2>3
<1>7. \A t \in 1 .. n : t \in P
  <2> HIDE DEF P, n
  <2>1. 1 \in Int /\ n \in Int
    BY <1>1
  <2> QED
    BY ONLY <1>4, <1>6, <2>1, DescendingReaches
<1>8. ASSUME NEW t \in 1 .. n PROVE g[t] = SumFunction(Terms(t, FirstDone(t)))
  <2>1. PICK k : IsFirstDone(t, k) /\ g[t] = SumFunction(Terms(t, k))
    BY <1>7
  <2>2. FirstDone(t) = k
    BY <2>1, FirstDoneIs
  <2> QED
    BY <2>1, <2>2
<1> QED
  BY <1>8

-----------------------------------------------------------------------------
(* What an episode pays for *)

TrainingTypes == /\ step \in 1 .. StepsPerEpisode + 1
                 /\ turn \in 1 .. DroneCount + 1
                 /\ scanned \in SUBSET (0 .. CorridorEnd)
                 /\ visits \in [1 .. CuriousCells -> Nat]
                 /\ buffer \in Seq(Transition)

\* The transitions of the last step are the ones that are done.
EpisodeEndsDone ==
  /\ DroneCount = 0 => buffer = <<>>
  /\ (step = StepsPerEpisode + 1 \/ (step = StepsPerEpisode /\ turn > 1)) =>
       (buffer # <<>> => buffer[Len(buffer)].done)

TrainingIInv == TrainingTypes /\ EpisodeEndsDone /\ PaidOnce /\ ReturnsEndWithFirstDone

LEMMA TrainingConstants ==
  /\ {DroneCount, CorridorEnd, StepsPerEpisode, CuriousCells, CuriousWidth} \subseteq Nat
  /\ StepsPerEpisode > 0 /\ CuriousCells > 0 /\ CuriousWidth > 0
  /\ Novelty \in Seq(Nat) /\ Len(Novelty) \in Nat \ {0}
  /\ \A k \in 1 .. Len(Novelty) : Novelty[k] \in Nat
<1>1. Novelty \in Seq(Nat) /\ Novelty # <<>>
  BY TrainingAssumption
<1>2. Len(Novelty) \in Nat \ {0} /\ \A k \in 1 .. Len(Novelty) : Novelty[k] \in Nat
  BY <1>1, EmptySeq, ElementOfSeq
<1>3. {StepsPerEpisode, CuriousCells, CuriousWidth} \subseteq Nat \ {0}
  BY TrainingAssumption
<1>4. {DroneCount, CorridorEnd} \subseteq Nat
  BY SensingAssumption
<1>5. /\ {DroneCount, CorridorEnd, StepsPerEpisode, CuriousCells, CuriousWidth} \subseteq Nat
      /\ StepsPerEpisode > 0 /\ CuriousCells > 0 /\ CuriousWidth > 0
  BY ONLY <1>3, <1>4
<1> QED
  BY ONLY <1>1, <1>2, <1>5

LEMMA NoVisitsSumToNothing ==
  NoVisits \in [1 .. CuriousCells -> Nat] /\ SumFunction(NoVisits) = 0
<1>1. IsFiniteSet(1 .. CuriousCells) /\ DOMAIN NoVisits = 1 .. CuriousCells
  BY TrainingConstants, FS_Interval DEF NoVisits
<1>2. \A c \in 1 .. CuriousCells : NoVisits[c] = 0
  BY DEF NoVisits
<1>3. SumFunctionOnSet(NoVisits, 1 .. CuriousCells) = 0
  BY <1>1, <1>2, SumZero
<1> QED
  BY <1>1, <1>3 DEF SumFunction, NoVisits

LEMMA TrainingStarts ==
  ASSUME step' = 1, turn' = 1, scanned' = {}, visits' = NoVisits, buffer' = <<>>,
         returns' = <<>>, paid' = 0
  PROVE  TrainingIInv'
<1>1. TrainingTypes'
  BY TrainingConstants, NoVisitsSumToNothing DEF TrainingTypes
<1>2. EpisodeEndsDone'
  BY DEF EpisodeEndsDone
<1>3. PaidOnce'
  <2>1. Len(<<>>) = 0
    OBVIOUS
  <2>2. Cardinality({}) = 0
    BY FS_EmptySet
  <2>3. SumFunction(visits') = 0
    BY NoVisitsSumToNothing
  <2> QED
    BY <2>1, <2>2, <2>3 DEF PaidOnce
<1>4. ReturnsEndWithFirstDone'
  BY DEF ReturnsEndWithFirstDone
<1> QED
  BY <1>1, <1>2, <1>3, <1>4 DEF TrainingIInv

LEMMA TrainingInitIInv == TrainingInit => TrainingIInv
<1> SUFFICES ASSUME TrainingInit PROVE TrainingIInv
  OBVIOUS
<1>1. TrainingTypes
  BY TrainingConstants, NoVisitsSumToNothing DEF TrainingInit, TrainingTypes
<1>2. EpisodeEndsDone /\ ReturnsEndWithFirstDone
  BY TrainingConstants DEF TrainingInit, EpisodeEndsDone, ReturnsEndWithFirstDone
<1>3. Len(<<>>) = 0
  OBVIOUS
<1>4. Cardinality({}) = 0
  BY FS_EmptySet
<1>5. PaidOnce
  BY <1>3, <1>4, NoVisitsSumToNothing DEF TrainingInit, PaidOnce
<1> QED
  BY ONLY <1>1, <1>2, <1>5 DEF TrainingIInv

LEMMA CuriousCellType ==
  ASSUME NEW p \in 0 .. CorridorEnd
  PROVE  CuriousCell(p) \in 1 .. CuriousCells
<1>1. p \div CuriousWidth \in Nat
  <2>1. CuriousWidth \in Nat /\ CuriousWidth > 0 /\ p \in Nat
    BY TrainingConstants
  <2> QED
    BY ONLY <2>1
<1> QED
  BY <1>1, TrainingConstants DEF CuriousCell, Smaller

\* What a turn is rewarded is a number, whatever is seen.
LEMMA RewardType ==
  ASSUME TrainingTypes, NEW p \in 0 .. CorridorEnd, NEW newCells \in Nat,
         NEW detected \in BOOLEAN, NEW collides \in BOOLEAN
  PROVE  ShapedReward(learning, ComputeReward(newCells, detected, collides), VisitBonus(p)) \in Int
<1>1. ComputeReward(newCells, detected, collides) \in Int
  BY DEF ComputeReward
<1>2. VisitBonus(p) \in Int
  <2> DEFINE prior == visits[CuriousCell(p)] + 1
             k == Smaller(prior, Len(Novelty))
  <2>1. prior \in Nat /\ prior > 0
    BY CuriousCellType DEF TrainingTypes
  <2>2. k \in 1 .. Len(Novelty)
    BY <2>1, TrainingConstants DEF Smaller
  <2>3. VisitBonus(p) = Novelty[k]
    BY DEF VisitBonus
  <2> HIDE DEF k
  <2> QED
    BY <2>2, <2>3, TrainingConstants
<1> QED
  BY <1>1, <1>2 DEF ShapedReward

LEMMA TakeTurnIInv == ASSUME TrainingIInv, TakeTurn PROVE TrainingIInv'
<1>1. PICK p \in 0 .. CorridorEnd :
        LET new == NewCells(p)
            base == ComputeReward(Cardinality(new), Detected(p), Collides(turn, p))
        IN  /\ scanned' = scanned \cup new
            /\ paid' = paid + Cardinality(new)
            /\ visits' = IF UsesCuriosity(learning)
                         THEN [visits EXCEPT ![CuriousCell(p)] = @ + 1] ELSE visits
            /\ buffer' = Append(buffer,
                            [reward |-> ShapedReward(learning, base, VisitBonus(p)),
                             done   |-> step = StepsPerEpisode])
  BY DEF TakeTurn
<1> DEFINE new == NewCells(p)
           base == ComputeReward(Cardinality(new), Detected(p), Collides(turn, p))
           transition == [reward |-> ShapedReward(learning, base, VisitBonus(p)),
                          done   |-> step = StepsPerEpisode]
<1>2. /\ returns = <<>> /\ returns' = returns /\ learning' = learning
      /\ step' = step /\ turn' = turn + 1
      /\ ~(step > StepsPerEpisode) /\ ~(turn > DroneCount)
  BY DEF TakeTurn, InEpisode, EpisodeOver, StepOver
<1>3. TrainingTypes /\ PaidOnce /\ EpisodeEndsDone
  BY DEF TrainingIInv
<1>4. /\ IsFiniteSet(new) /\ IsFiniteSet(scanned) /\ Cardinality(new) \in Nat
      /\ Cardinality(scanned) \in Nat
      /\ new \in SUBSET (0 .. CorridorEnd) /\ new \cap scanned = {}
  <2>1. IsFiniteSet(0 .. CorridorEnd)
    BY TrainingConstants, FS_Interval
  <2>2. new \in SUBSET (0 .. CorridorEnd) /\ new \cap scanned = {}
    BY DEF NewCells, Footprint
  <2>3. IsFiniteSet(new) /\ IsFiniteSet(scanned)
    BY <1>3, <2>1, <2>2, FS_Subset DEF TrainingTypes
  <2> QED
    BY <2>2, <2>3, FS_CardinalityType
<1>5. transition \in Transition
  <2>1. Detected(p) \in BOOLEAN /\ Collides(turn, p) \in BOOLEAN
    BY DEF Detected, Collides
  <2> HIDE DEF new
  <2>2. transition.reward \in Int
    BY <1>3, <1>4, <2>1, RewardType
  <2> QED
    BY <2>2 DEF Transition
<1> HIDE DEF new, transition
<1>6. /\ scanned' = scanned \cup new /\ paid' = paid + Cardinality(new)
      /\ buffer' = Append(buffer, transition)
      /\ visits' = IF UsesCuriosity(learning)
                   THEN [visits EXCEPT ![CuriousCell(p)] = @ + 1] ELSE visits
  BY <1>1 DEF new, transition
<1>7. /\ buffer' \in Seq(Transition) /\ Len(buffer') = Len(buffer) + 1
      /\ buffer'[Len(buffer')] = transition /\ buffer' # <<>>
      /\ Len(buffer) \in Nat
  BY <1>3, <1>5, <1>6, AppendProperties, LenProperties DEF TrainingTypes
<1>8. CuriousCell(p) \in 1 .. CuriousCells
  BY CuriousCellType
<1>9. TrainingTypes'
  <2>1. visits' \in [1 .. CuriousCells -> Nat]
    <3>1. visits \in [1 .. CuriousCells -> Nat]
      BY <1>3 DEF TrainingTypes
    <3>2. visits[CuriousCell(p)] + 1 \in Nat
      BY <1>8, <3>1
    <3> QED
      BY <1>6, <1>8, <3>1, <3>2
  <2>2. turn' \in 1 .. DroneCount + 1 /\ step' \in 1 .. StepsPerEpisode + 1
    BY <1>2, <1>3, TrainingConstants DEF TrainingTypes
  <2>3. scanned' \in SUBSET (0 .. CorridorEnd)
    BY <1>3, <1>4, <1>6 DEF TrainingTypes
  <2> QED
    BY <1>7, <2>1, <2>2, <2>3 DEF TrainingTypes
<1>10. EpisodeEndsDone'
  <2>1. DroneCount # 0
    BY <1>2, <1>3, TrainingConstants DEF TrainingTypes
  <2>2. step' = StepsPerEpisode => transition.done
    BY <1>2 DEF transition
  <2>3. step' # StepsPerEpisode + 1
    BY <1>2, <1>3, TrainingConstants DEF TrainingTypes
  <2> QED
    BY <1>7, <2>1, <2>2, <2>3 DEF EpisodeEndsDone
<1>11. PaidOnce'
  <2>1. paid' = Cardinality(scanned')
    <3>1. Cardinality(scanned \cup new) = Cardinality(scanned) + Cardinality(new)
      <4>1. Cardinality(scanned \cap new) = 0
        BY <1>4, FS_EmptySet
      <4>2. Cardinality(scanned \cup new) =
              Cardinality(scanned) + Cardinality(new) - Cardinality(scanned \cap new)
        BY <1>4, FS_Union
      <4> QED
        BY <1>4, <4>1, <4>2
    <3> QED
      BY <1>3, <1>6, <3>1 DEF PaidOnce
  <2>2. SumFunction(visits') = IF UsesCuriosity(learning') THEN Len(buffer') ELSE 0
    <3>1. CASE ~UsesCuriosity(learning)
      BY <1>2, <1>3, <1>6, <3>1 DEF PaidOnce
    <3>2. CASE UsesCuriosity(learning)
      <4> DEFINE S == 1 .. CuriousCells
                 more == [visits EXCEPT ![CuriousCell(p)] = @ + 1]
      <4>1. IsFiniteSet(S) /\ 1 \in Int
        BY TrainingConstants, FS_Interval
      <4>2. /\ visits \in [S -> Nat]
            /\ \A c \in S : visits[c] \in Int
            /\ DOMAIN visits = S /\ DOMAIN more = S
        BY <1>3 DEF TrainingTypes
      <4>3. \A c \in S : more[c] = IF c = CuriousCell(p) THEN visits[c] + 1 ELSE visits[c]
        BY <4>2
      <4> DEFINE cell == CuriousCell(p)
                 was == visits
      <4> HIDE DEF S, more, cell, was
      <4>4. SumFunctionOnSet(more, S) =
              SumFunctionOnSet(visits, S) + (IF CuriousCell(p) \in S THEN 1 ELSE 0)
        <5>1. /\ \A c \in S : was[c] \in Int
              /\ \A c \in S : more[c] = IF c = cell THEN was[c] + 1 ELSE was[c]
          BY <4>2, <4>3 DEF cell, was
        <5>2. SumFunctionOnSet(more, S) =
                SumFunctionOnSet(was, S) + (IF cell \in S THEN 1 ELSE 0)
          BY ONLY <4>1, <5>1, SumBumped
        <5> QED
          BY <5>2 DEF cell, was
      <4>5. SumFunction(more) = SumFunction(visits) + 1
        BY <1>8, <4>2, <4>4 DEF SumFunction, S
      <4>6. visits' = more
        BY <1>6, <3>2 DEF more
      <4> QED
        BY <1>2, <1>3, <1>7, <3>2, <4>5, <4>6 DEF PaidOnce
    <3> QED
      BY <3>1, <3>2
  <2> QED
    BY <2>1, <2>2 DEF PaidOnce
<1>12. ReturnsEndWithFirstDone'
  BY <1>2 DEF ReturnsEndWithFirstDone
<1> QED
  BY <1>9, <1>10, <1>11, <1>12 DEF TrainingIInv

LEMMA EndEpisodeIInv == ASSUME TrainingIInv, EndEpisode PROVE TrainingIInv'
<1>1. /\ returns' = ComputeGae(buffer, [t \in DOMAIN buffer |-> 0])
      /\ UNCHANGED <<learning, step, turn, scanned, visits, buffer, paid>>
      /\ step > StepsPerEpisode
  BY DEF EndEpisode, EpisodeOver
<1>2. TrainingTypes /\ EpisodeEndsDone /\ PaidOnce
  BY DEF TrainingIInv
<1>3. TrainingTypes' /\ EpisodeEndsDone' /\ PaidOnce'
  BY <1>1, <1>2 DEF TrainingTypes, EpisodeEndsDone, PaidOnce
<1>4. buffer \in Seq(Transition) /\ Len(buffer) \in Nat /\ DOMAIN buffer = 1 .. Len(buffer)
  BY <1>2, LenProperties DEF TrainingTypes
<1>5. buffer # <<>> => buffer[Len(buffer)].done
  <2>1. step = StepsPerEpisode + 1
    BY <1>1, <1>2, TrainingConstants DEF TrainingTypes
  <2> QED
    BY <1>2, <2>1 DEF EpisodeEndsDone
<1>6. PICK g \in [1 .. Len(buffer) + 1 -> Int] : Descends(g, Adds(buffer), 0, Len(buffer))
  BY <1>4, ReturnsExist
<1>7. returns' = [t \in 1 .. Len(buffer) |-> g[t]]
  BY <1>1, <1>4, <1>6, GaeIsTheReturn
<1>8. ComputeReturns(buffer, Gamma * Lambda) = [t \in 1 .. Len(buffer) |-> g[t]]
  BY <1>4, <1>6, RunningIsTheReturn DEF Discount
<1>9. \A t \in DOMAIN buffer : returns'[t] = SumFunction(Terms(t, FirstDone(t)))
  BY <1>4, <1>5, <1>6, <1>7, ReturnsAddUp
<1>10. ReturnsEndWithFirstDone'
  <2>1. /\ \A t \in DOMAIN buffer : returns'[t] = SumFunction(Terms(t, FirstDone(t)))
        /\ returns' = ComputeReturns(buffer, Gamma * Lambda)
    BY <1>7, <1>8, <1>9
  <2> QED
    BY <1>1, <2>1 DEF ReturnsEndWithFirstDone, Terms, FirstDone
<1> QED
  BY <1>3, <1>10 DEF TrainingIInv

LEMMA TrainingNextIInv == TrainingIInv /\ [TrainingNext]_trainingVars => TrainingIInv'
<1> SUFFICES ASSUME TrainingIInv, [TrainingNext]_trainingVars PROVE TrainingIInv'
  OBVIOUS
<1>1. CASE EndStep
  <2>1. /\ returns = <<>> /\ returns' = <<>> /\ step <= StepsPerEpisode /\ turn > DroneCount
        /\ step' = step + 1 /\ turn' = 1
        /\ UNCHANGED <<learning, scanned, visits, buffer, paid>>
    BY <1>1, TrainingConstants
       DEF EndStep, InEpisode, EpisodeOver, StepOver, TrainingIInv, TrainingTypes
  <2>2. TrainingTypes'
    BY <2>1, TrainingConstants DEF TrainingIInv, TrainingTypes
  <2>3. EpisodeEndsDone'
    <3>1. CASE DroneCount = 0
      BY <2>1, <3>1 DEF TrainingIInv, EpisodeEndsDone
    <3>2. CASE DroneCount # 0
      <4>1. turn > 1
        BY <2>1, <3>2, TrainingConstants DEF TrainingIInv, TrainingTypes
      <4>2. step' = StepsPerEpisode + 1 => step = StepsPerEpisode
        BY <2>1, TrainingConstants DEF TrainingIInv, TrainingTypes
      <4> QED
        BY <2>1, <3>2, <4>1, <4>2 DEF TrainingIInv, EpisodeEndsDone
    <3> QED
      BY <3>1, <3>2
  <2>4. PaidOnce' /\ ReturnsEndWithFirstDone'
    BY <2>1 DEF TrainingIInv, PaidOnce, ReturnsEndWithFirstDone
  <2> QED
    BY <2>2, <2>3, <2>4 DEF TrainingIInv
<1>2. CASE NextEpisode
  BY <1>2, TrainingStarts DEF NextEpisode
<1>3. CASE UNCHANGED trainingVars
  <2>1. /\ step' = step /\ turn' = turn /\ scanned' = scanned /\ visits' = visits /\ buffer' = buffer
        /\ returns' = returns /\ learning' = learning /\ paid' = paid
    BY <1>3 DEF trainingVars
  <2>2. TrainingTypes' /\ EpisodeEndsDone'
    BY <2>1 DEF TrainingIInv, TrainingTypes, EpisodeEndsDone
  <2>3. PaidOnce'
    BY <2>1 DEF TrainingIInv, PaidOnce
  <2>4. ReturnsEndWithFirstDone'
    BY <2>1 DEF TrainingIInv, ReturnsEndWithFirstDone, FirstDone
  <2> QED
    BY <2>2, <2>3, <2>4 DEF TrainingIInv
<1> QED
  BY <1>1, <1>2, <1>3, TakeTurnIInv, EndEpisodeIInv DEF TrainingNext

\* In train_marl an episode pays every place of the area once, whichever drones
\* come by how often, and draws novelty for every turn; each transition's return
\* adds up the discounted rewards until the first that is done, and compute_gae
\* without estimates agrees with compute_returns.
THEOREM RolloutsAreAccounted == TrainingSpec => []RolloutAccounted
<1>1. TrainingIInv => RolloutAccounted
  BY DEF TrainingIInv, RolloutAccounted
<1> QED
  BY <1>1, TrainingInitIInv, TrainingNextIInv, PTL DEF TrainingSpec
=============================================================================
