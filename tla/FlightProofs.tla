----------------------------- MODULE FlightProofs -----------------------------
(***************************************************************************)
(* Theorems about where drones fly and what comes of it, for areas, swarms *)
(* and bounds of any size: the loop of a mission, the paths it plans, the  *)
(* patterns its drones sweep and the episodes that compare those.          *)
(***************************************************************************)
EXTENDS Mission, Planner, EvalEpisode, FoldLemmas, FunctionTheorems, SequenceTheorems

MissionSpec == MissionInit /\ [][MissionTick]_missionVars
PlannerSpec == PlannerInit /\ [][PlannerNext]_plannerVars
PatternsSpec == PatternsInit /\ [][PatternsNext]_patternVars
EpisodeSpec == EpisodeInit /\ [][EpisodeStep]_episodeVars

-----------------------------------------------------------------------------
(* The mission: every drone is heard once in a step, and what is heard is   *)
(* put together in the order of the drones.                                 *)

\* The recursion by which sequences are put together.
LEMMA FlattenAscends ==
  ASSUME NEW V, NEW seqs \in Seq(Seq(V)), Len(seqs) # 0
  PROVE  \E g \in [0 .. Len(seqs) -> Seq(V)] :
           /\ g[0] = <<>>
           /\ \A k \in 1 .. Len(seqs) : g[k] = g[k - 1] \o seqs[k]
           /\ FlattenSeq(seqs) = g[Len(seqs)]
<1> DEFINE n == Len(seqs)
           W == Seq(V)
           F == [k \in 1 .. n |-> [s \in W |-> s \o seqs[k]]]
           Def(h) == [i \in 1 .. n |-> IF i = 1 THEN seqs[i] ELSE h[i - 1] \o seqs[i]]
           flatten == CHOOSE h : h = Def(h)
<1>1. FlattenSeq(seqs) = flatten[n]
  BY DEF FlattenSeq
<1>2. n \in Nat /\ n >= 1 /\ \A k \in 1 .. n : seqs[k] \in Seq(V)
  BY LenProperties
<1> HIDE DEF n
<1>3. F \in [1 .. n -> [W -> W]] /\ <<>> \in W
  <2>1. \A k \in 1 .. n : \A s \in W : s \o seqs[k] \in W
    BY <1>2, ConcatProperties
  <2> QED
    BY <2>1
<1>4. PICK g \in [0 .. n -> W] : Ascends(g, F, <<>>, n)
  <2> HIDE DEF F, W
  <2> QED
    BY <1>2, <1>3, UpwardExists
<1>5. g[0] = <<>> /\ \A k \in 1 .. n : g[k] = g[k - 1] \o seqs[k]
  <2>1. ASSUME NEW k \in 1 .. n PROVE g[k] = g[k - 1] \o seqs[k]
    <3>1. g[k] = F[k][g[k - 1]] /\ g[k - 1] \in W
      <4>1. k - 1 \in 0 .. n
        BY <1>2
      <4> HIDE DEF F, W
      <4> QED
        BY <1>4, <4>1 DEF Ascends
    <3> QED
      BY <3>1
  <2>2. g[0] = <<>>
    BY <1>4 DEF Ascends
  <2> QED
    BY <2>1, <2>2
<1>. HIDE DEF W
<1>a. g[1] = seqs[1]
  <2>1. 1 \in 1 .. n /\ 1 - 1 = 0
    BY <1>2
  <2>2. g[1] = <<>> \o seqs[1]
    BY <1>5, <2>1
  <2> QED
    BY <1>2, <2>1, <2>2, ConcatEmptySeq
<1> DEFINE r == [i \in 1 .. n |-> g[i]]
<1>6. r = Def(r)
  <2>1. ASSUME NEW i \in 1 .. n PROVE Def(r)[i] = g[i]
    <3>1. CASE i = 1
      BY <1>a, <3>1
    <3>2. CASE i # 1
      <4>1. i - 1 \in 1 .. n
        BY <1>2, <3>2
      <4> QED
        BY <1>5, <3>2, <4>1
    <3> QED
      BY <3>1, <3>2
  <2>2. Def(r) = [i \in 1 .. n |-> Def(r)[i]]
    OBVIOUS
  <2> HIDE DEF Def
  <2> QED
    BY <2>1, <2>2
<1>7. flatten = Def(flatten)
  <2> HIDE DEF Def
  <2> QED
    BY <1>6
<1> HIDE DEF flatten
<1>8. flatten[1] = seqs[1] /\ \A i \in 2 .. n : flatten[i] = flatten[i - 1] \o seqs[i]
  <2>1. \A i \in 1 .. n : flatten[i] = IF i = 1 THEN seqs[i] ELSE flatten[i - 1] \o seqs[i]
    BY <1>7
  <2>2. 1 \in 1 .. n /\ \A i \in 2 .. n : i \in 1 .. n /\ i # 1
    BY <1>2
  <2> QED
    BY <2>1, <2>2
<1> DEFINE P == {i \in 1 .. n : flatten[i] = g[i]}
<1>9. 1 \in P
  BY <1>2, <1>a, <1>8
<1>10. \A i \in 1 .. n - 1 : i \in P => i + 1 \in P
  <2>1. ASSUME NEW i \in 1 .. n - 1, i \in P PROVE i + 1 \in P
    <3>1. i + 1 \in 2 .. n /\ i + 1 \in 1 .. n /\ (i + 1) - 1 = i
      BY <1>2
    <3>2. flatten[i + 1] = flatten[i] \o seqs[i + 1] /\ g[i + 1] = g[i] \o seqs[i + 1]
      BY <1>5, <1>8, <3>1
    <3> QED
      BY <2>1, <3>1, <3>2
  <2> QED
    BY <2>1
<1>11. n \in P
  <2>1. 1 \in Int /\ n \in Int /\ n \in 1 .. n
    BY <1>2
  <2> HIDE DEF P
  <2>2. \A i \in 1 .. n : i \in P
    BY ONLY <1>9, <1>10, <2>1, ClimbingReaches
  <2> QED
    BY <2>1, <2>2
<1> HIDE DEF Def, F
<1> QED
  <2>1. FlattenSeq(seqs) = g[n]
    BY <1>1, <1>11
  <2>2. g \in [0 .. n -> W]
    BY <1>4
  <2> HIDE DEF P
  <2> QED
    BY <1>5, <2>1, <2>2 DEF n, W

-----------------------------------------------------------------------------

Detection == [drone : Drone, confidence : Int, victim : Int]

LEMMA MissionConstants ==
  /\ DroneCount \in Nat /\ CorridorEnd \in Nat /\ MaxSpeed \in Nat /\ ReportFrom \in Nat
  /\ Noise \subseteq Nat /\ IsFiniteSet(Drone) /\ Drone = 1 .. DroneCount
  /\ Len(VictimAt) \in Nat /\ DOMAIN VictimAt = 1 .. Len(VictimAt)
  /\ \A v \in 1 .. Len(VictimAt) : VictimAt[v] \in Int
  /\ Len(Confidence) \in Nat /\ \A k \in 1 .. Len(Confidence) : Confidence[k] \in Nat
  /\ \E h \in Nat : h > 0 /\ MinSeparation = 2 * h
<1>1. /\ DroneCount \in Nat /\ CorridorEnd \in Nat /\ MaxSpeed \in Nat /\ ReportFrom \in Nat
      /\ Noise \subseteq Nat /\ VictimAt \in Seq(Int) /\ Confidence \in Seq(Nat)
  BY SensingAssumption
<1>2. /\ Len(VictimAt) \in Nat /\ DOMAIN VictimAt = 1 .. Len(VictimAt)
      /\ \A v \in 1 .. Len(VictimAt) : VictimAt[v] \in Int
  BY <1>1, LenProperties
<1>3. Len(Confidence) \in Nat /\ \A k \in 1 .. Len(Confidence) : Confidence[k] \in Nat
  BY <1>1, LenProperties
<1>4. IsFiniteSet(Drone) /\ Drone = 1 .. DroneCount
  BY <1>1, FS_Interval DEF Drone
<1>5. \E h \in Nat : h > 0 /\ MinSeparation = 2 * h
  BY <1>1, MissionAssumption
<1> QED
  BY <1>1, <1>2, <1>3, <1>4, <1>5

LEMMA ScanType ==
  ASSUME NEW d \in Drone, NEW place \in Int, NEW noise \in Noise
  PROVE  /\ Scan(d, place, noise) \in Seq(Detection)
         /\ Len(Scan(d, place, noise)) \in {0, 1}
         /\ \A k \in 1 .. Len(Scan(d, place, noise)) : Scan(d, place, noise)[k].drone = d
<1> DEFINE seen == {v \in DOMAIN VictimAt : ConfidenceAt(place, v, noise) >= ReportFrom}
<1>1. CASE seen = {}
  <2>1. Scan(d, place, noise) = <<>>
    BY <1>1 DEF Scan
  <2> QED
    BY <2>1
<1>2. CASE seen # {}
  <2> DEFINE m == Min(seen)
             found == [drone |-> d, confidence |-> ConfidenceAt(place, m, noise),
                       victim |-> VictimAt[m]]
  <2>1. Scan(d, place, noise) = <<found>>
    BY <1>2 DEF Scan
  <2>2. m \in seen
    <3>1. IsFiniteSet(seen) /\ seen \in SUBSET Int
      <4>1. IsFiniteSet(1 .. Len(VictimAt)) /\ seen \in SUBSET (1 .. Len(VictimAt))
        BY MissionConstants, FS_Interval
      <4> HIDE DEF seen
      <4>2. IsFiniteSet(seen)
        BY <4>1, FS_Subset
      <4> QED
        BY <4>1, <4>2
    <3> DEFINE f == [y \in seen |-> y]
    <3>2. \A y \in seen : f[y] \in Int /\ f[y] = y
      BY <3>1
    <3> HIDE DEF f
    <3>3. \E x \in seen : \A y \in seen : f[x] <= f[y]
      BY <1>2, <3>1, <3>2, HasLeast
    <3>4. \E x \in seen : \A y \in seen : x <= y
      BY <3>2, <3>3
    <3> QED
      BY <3>4 DEF Min
  <2>3. m \in 1 .. Len(VictimAt) /\ VictimAt[m] \in Int
    BY <2>2, MissionConstants
  <2> HIDE DEF m
  <2>4. ConfidenceAt(place, m, noise) \in Int
    <3>1. Apart(place, VictimAt[m]) \in Nat
      BY <2>3 DEF Apart
    <3>2. CASE Apart(place, VictimAt[m]) < Len(Confidence)
      <4>1. Confidence[Apart(place, VictimAt[m]) + 1] \in Nat
        BY <3>1, <3>2, MissionConstants
      <4>2. noise \in Nat
        BY MissionConstants
      <4> QED
        BY <3>2, <4>1, <4>2 DEF ConfidenceAt
    <3>3. CASE ~(Apart(place, VictimAt[m]) < Len(Confidence))
      BY <3>3 DEF ConfidenceAt
    <3> QED
      BY <3>2, <3>3
  <2>5. found \in Detection /\ found.drone = d
    BY <2>3, <2>4 DEF Detection
  <2> HIDE DEF found
  <2>6. <<found>> \in Seq(Detection) /\ Len(<<found>>) = 1 /\ <<found>>[1] = found
    BY <2>5
  <2> QED
    BY <2>1, <2>5, <2>6
<1> QED
  BY <1>1, <1>2

\* Detections of different drones.
Distinct(heard) == \A k, l \in 1 .. Len(heard) : heard[k].drone = heard[l].drone => k = l

LEMMA ScansType ==
  ASSUME NEW places \in [Drone -> Int], NEW noise \in Noise
  PROVE  Scans(places, noise) \in Seq(Detection) /\ Distinct(Scans(places, noise))
<1> DEFINE seqs == [d \in Drone |-> Scan(d, places[d], noise)]
           n == DroneCount
<1>1. /\ Scans(places, noise) = FlattenSeq(seqs)
      /\ n \in Nat /\ Drone = 1 .. n
  BY MissionConstants DEF Scans
<1>2. \A d \in 1 .. n : /\ seqs[d] \in Seq(Detection) /\ Len(seqs[d]) \in {0, 1}
                        /\ \A k \in 1 .. Len(seqs[d]) : seqs[d][k].drone = d
  BY <1>1, ScanType
<1>3. seqs \in [1 .. n -> Seq(Detection)]
  BY <1>1, <1>2
<1> HIDE DEF seqs, n
<1>4. seqs \in Seq(Seq(Detection)) /\ Len(seqs) = n
  BY <1>1, <1>3
<1>5. CASE n = 0
  <2>1. FlattenSeq(seqs) = seqs /\ Len(seqs) = 0
    BY <1>4, <1>5 DEF FlattenSeq
  <2>2. seqs = <<>>
    BY <1>4, <2>1, EmptySeq
  <2> QED
    BY <1>1, <2>1, <2>2 DEF Distinct
<1>6. CASE n # 0
  <2> DEFINE W == Seq(Detection)
  <2>1. PICK g \in [0 .. n -> W] :
           /\ g[0] = <<>>
           /\ \A k \in 1 .. n : g[k] = g[k - 1] \o seqs[k]
           /\ FlattenSeq(seqs) = g[n]
    <3> DEFINE V == Detection
    <3>1. seqs \in Seq(Seq(V)) /\ Len(seqs) # 0
      BY <1>4, <1>6
    <3> HIDE DEF V, W
    <3>2. \E g \in [0 .. Len(seqs) -> Seq(V)] :
           /\ g[0] = <<>>
           /\ \A k \in 1 .. Len(seqs) : g[k] = g[k - 1] \o seqs[k]
           /\ FlattenSeq(seqs) = g[Len(seqs)]
      BY ONLY <3>1, FlattenAscends
    <3> QED
      BY <1>4, <3>2 DEF V, W
  <2> DEFINE P == {k \in 0 .. n : /\ g[k] \in Seq(Detection) /\ Distinct(g[k])
                                  /\ \A l \in 1 .. Len(g[k]) : g[k][l].drone \in 1 .. k}
  <2>2. 0 \in P
    BY <1>1, <2>1 DEF Distinct
  <2>3. \A k \in 0 .. n - 1 : k \in P => k + 1 \in P
    <3>1. SUFFICES ASSUME NEW k \in 0 .. n - 1, k \in P PROVE k + 1 \in P
      OBVIOUS
    <3> DEFINE s == g[k]
               t == seqs[k + 1]
               a == Len(s)
               b == Len(t)
    <3>2. k + 1 \in 1 .. n /\ (k + 1) - 1 = k /\ k \in Nat
      BY <1>1
    <3>3. g[k + 1] = s \o t
      BY <2>1, <3>2
    <3>4. /\ s \in Seq(Detection) /\ Distinct(s) /\ \A l \in 1 .. a : s[l].drone \in 1 .. k
          /\ t \in Seq(Detection) /\ b \in {0, 1} /\ \A l \in 1 .. b : t[l].drone = k + 1
      BY <1>2, <3>1, <3>2
    <3> HIDE DEF s, t
    <3>5. a \in Nat /\ b \in Nat
      BY <3>4, LenProperties
    <3>6. /\ s \o t \in Seq(Detection) /\ Len(s \o t) = a + b
          /\ \A l \in 1 .. a + b : (s \o t)[l] = IF l <= a THEN s[l] ELSE t[l - a]
      BY <3>4, ConcatProperties
    <3> DEFINE u == s \o t
    <3> HIDE DEF a, b, u
    <3>7. ASSUME NEW l \in 1 .. a + b
          PROVE  IF l <= a THEN u[l] = s[l] /\ l \in 1 .. a /\ u[l].drone \in 1 .. k
                 ELSE l = a + 1 /\ u[l].drone = k + 1
      <4>1. CASE l <= a
        <5>1. l \in 1 .. a /\ u[l] = s[l]
          BY <3>5, <3>6, <4>1 DEF u
        <5> QED
          BY <3>4, <4>1, <5>1 DEF a
      <4>2. CASE ~(l <= a)
        <5>1. b = 1 /\ l = a + 1 /\ l - a = 1 /\ u[l] = t[l - a]
          BY <3>4, <3>5, <3>6, <4>2 DEF u, b
        <5> QED
          BY <3>4, <4>2, <5>1 DEF b
      <4> QED
        BY <4>1, <4>2
    <3>8. \A l \in 1 .. a + b : u[l].drone \in 1 .. k + 1
      <4>1. ASSUME NEW l \in 1 .. a + b PROVE u[l].drone \in 1 .. k + 1
        BY <3>2, <3>7
      <4> QED
        BY <4>1
    <3>9. ASSUME NEW l \in 1 .. a + b, NEW m \in 1 .. a + b, u[l].drone = u[m].drone
          PROVE  l = m
      <4>1. CASE l <= a /\ m <= a
        <5>1. /\ u[l] = s[l] /\ l \in 1 .. a
              /\ u[m] = s[m] /\ m \in 1 .. a
          BY <3>7, <4>1
        <5> QED
          BY <3>4, <3>9, <5>1 DEF Distinct, a
      <4>2. CASE l <= a /\ ~(m <= a)
        <5>1. u[l].drone \in 1 .. k /\ u[m].drone = k + 1
          BY <3>7, <4>2
        <5> QED
          BY <3>2, <3>9, <5>1
      <4>3. CASE ~(l <= a) /\ m <= a
        <5>1. u[m].drone \in 1 .. k /\ u[l].drone = k + 1
          BY <3>7, <4>3
        <5> QED
          BY <3>2, <3>9, <5>1
      <4>4. CASE ~(l <= a) /\ ~(m <= a)
        BY <3>7, <4>4
      <4> QED
        BY <4>1, <4>2, <4>3, <4>4
    <3>10. Len(u) = a + b /\ u \in Seq(Detection) /\ g[k + 1] = u
      BY <3>3, <3>6 DEF u
    <3>11. Distinct(u)
      BY <3>9, <3>10 DEF Distinct
    <3> QED
      BY <3>2, <3>8, <3>10, <3>11
  <2>4. n \in P
    <3>1. 0 \in Int /\ n \in Int /\ n \in 0 .. n
      BY <1>1
    <3> HIDE DEF P
    <3>2. \A k \in 0 .. n : k \in P
      BY ONLY <2>2, <2>3, <3>1, ClimbingReaches
    <3> QED
      BY <3>1, <3>2
  <2> QED
    BY <1>1, <2>1, <2>4
<1> QED
  BY <1>5, <1>6

\* The nearest peer is a peer.
LEMMA NearestIsOne ==
  ASSUME NEW places \in [Drone -> Int], NEW anchor \in Int,
         NEW candidates \in SUBSET Drone, candidates # {}
  PROVE  NearestTo(anchor, candidates, places) \in candidates
<1> DEFINE f == [d \in candidates |-> Apart(places[d], anchor)]
<1>1. IsFiniteSet(candidates)
  BY MissionConstants, FS_Subset
<1>2. \A d \in candidates : f[d] = Apart(places[d], anchor) /\ f[d] \in Int
  BY DEF Apart
<1> HIDE DEF f
<1>3. PICK m \in candidates : \A e \in candidates : f[m] <= f[e]
  BY <1>1, <1>2, HasLeast
<1> DEFINE near == {d \in candidates : f[d] = f[m]}
           id == [d \in near |-> d]
<1>4. near # {} /\ IsFiniteSet(near) /\ \A d \in near : id[d] = d /\ id[d] \in Int
  BY <1>1, FS_Subset, MissionConstants
<1> HIDE DEF id, near
<1>5. PICK d \in near : \A e \in near : id[d] <= id[e]
  BY <1>4, HasLeast
<1>6. d \in candidates /\ f[d] = f[m]
  BY DEF near
<1>7. ASSUME NEW e \in candidates PROVE f[d] < f[e] \/ (f[d] = f[e] /\ d <= e)
  <2>1. CASE f[e] = f[m]
    BY <1>4, <1>5, <1>6, <2>1 DEF near
  <2>2. CASE f[e] # f[m]
    BY <1>2, <1>3, <1>6, <2>2
  <2> QED
    BY <2>1, <2>2
<1>8. \E x \in candidates : \A e \in candidates :
        \/ Apart(places[x], anchor) < Apart(places[e], anchor)
        \/ Apart(places[x], anchor) = Apart(places[e], anchor) /\ x <= e
  BY <1>2, <1>6, <1>7
<1> QED
  BY <1>8 DEF NearestTo

LEMMA FlownType ==
  ASSUME NEW places \in [Drone -> Int], NEW hop \in [Drone -> -MaxSpeed .. MaxSpeed]
  PROVE  Flown(places, hop) \in [Drone -> Int]
<1>1. ASSUME NEW d \in Drone PROVE Flown(places, hop)[d] \in Int
  <2>1. places[d] \in Int /\ hop[d] \in Int /\ CorridorEnd \in Int
    BY MissionConstants
  <2> QED
    BY <2>1 DEF Flown, Smaller
<1> QED
  BY <1>1 DEF Flown

\* With the assist, too, a drone is heard once: who comes to help is not the
\* one that was heard.
LEMMA AssistedType ==
  ASSUME NEW places \in [Drone -> Int], NEW noise \in Noise
  PROVE  /\ Assisted(places, noise).at \in [Drone -> Int]
         /\ Assisted(places, noise).heard \in Seq(Detection)
         /\ Distinct(Assisted(places, noise).heard)
<1> DEFINE heard == Scans(places, noise)
<1>1. heard \in Seq(Detection) /\ Distinct(heard)
  BY ScansType
<1>2. CASE Len(heard) # 1 \/ PeersOf(heard[1].drone) = {}
  <2>1. Assisted(places, noise) = [at |-> places, heard |-> heard]
    BY <1>2 DEF Assisted
  <2> QED
    BY <1>1, <2>1
<1>3. CASE Len(heard) = 1 /\ PeersOf(heard[1].drone) # {}
  <2> DEFINE c     == heard[1]
             peer  == NearestTo(c.victim, PeersOf(c.drone), places)
             moved == [places EXCEPT ![peer] = Vectored(@, c.victim)]
             more  == Scan(peer, moved[peer], noise)
  <2>1. Assisted(places, noise) = [at |-> moved, heard |-> heard \o more]
    BY <1>3 DEF Assisted
  <2> HIDE DEF heard
  <2>2. c \in Detection /\ c.victim \in Int /\ c.drone \in Drone
    <3>1. c \in Detection
      <4>1. Len(heard) = 1
        BY <1>3
      <4>2. heard \in [1 .. Len(heard) -> Detection]
        BY <1>1, LenProperties
      <4> QED
        BY <4>1, <4>2 DEF c
    <3> QED
      BY <3>1 DEF Detection
  <2> HIDE DEF c
  <2>3. peer \in Drone /\ peer # c.drone
    <3>1. PeersOf(c.drone) \in SUBSET Drone /\ PeersOf(c.drone) # {}
      BY <1>3 DEF PeersOf, c
    <3>2. peer \in PeersOf(c.drone)
      BY <2>2, <3>1, NearestIsOne
    <3> QED
      BY <3>2 DEF PeersOf
  <2> HIDE DEF peer
  <2>4. moved \in [Drone -> Int]
    <3>1. places[peer] \in Int /\ MaxSpeed \in Int
      BY <2>3, MissionConstants
    <3>2. Vectored(places[peer], c.victim) \in Int
      BY <2>2, <3>1 DEF Vectored, Smaller, Apart
    <3> QED
      BY <3>2
  <2>5. /\ more \in Seq(Detection) /\ Len(more) \in {0, 1}
        /\ \A k \in 1 .. Len(more) : more[k].drone = peer
    <3>1. moved[peer] \in Int
      BY <2>3, <2>4
    <3> HIDE DEF moved
    <3> QED
      BY <2>3, <3>1, ScanType
  <2> HIDE DEF more, moved
  <2>6. /\ heard \o more \in Seq(Detection) /\ Len(heard \o more) = 1 + Len(more)
        /\ \A l \in 1 .. 1 + Len(more) :
             (heard \o more)[l] = IF l <= 1 THEN heard[l] ELSE more[l - 1]
    <3>1. heard \in Seq(Detection) /\ more \in Seq(Detection) /\ Len(heard) = 1
      BY <1>1, <1>3, <2>5
    <3>2. /\ heard \o more \in Seq(Detection) /\ Len(heard \o more) = Len(heard) + Len(more)
          /\ \A l \in 1 .. Len(heard) + Len(more) :
               (heard \o more)[l] = IF l <= Len(heard) THEN heard[l] ELSE more[l - Len(heard)]
      BY <3>1, ConcatProperties
    <3> QED
      BY <3>1, <3>2
  <2>7. ASSUME NEW k \in 1 .. 1 + Len(more)
        PROVE  \/ k = 1 /\ (heard \o more)[k].drone = c.drone
               \/ k = 2 /\ (heard \o more)[k].drone = peer
    <3>1. CASE k = 1
      BY <2>6, <3>1 DEF c
    <3>2. CASE k # 1
      <4>1. k = 2 /\ k - 1 = 1 /\ Len(more) = 1
        BY <2>5, <3>2
      <4>2. (heard \o more)[k] = more[1] /\ more[1].drone = peer
        BY <2>5, <2>6, <4>1
      <4> QED
        BY <4>1, <4>2
    <3> QED
      BY <3>1, <3>2
  <2>8. Distinct(heard \o more)
    BY <2>3, <2>6, <2>7 DEF Distinct
  <2> QED
    BY <2>1, <2>4, <2>6, <2>8
<1> QED
  BY <1>2, <1>3

-----------------------------------------------------------------------------

LEMMA PushType ==
  ASSUME NEW places \in [Drone -> Int], NEW i \in Drone, NEW j \in Drone
  PROVE  Push(i, j, places) \in Int
<1>1. PICK h \in Nat : MinSeparation = 2 * h
  BY MissionConstants
<1>2. /\ places[i] \in Int /\ places[j] \in Int /\ i \in Int /\ j \in Int
      /\ MinSeparation \div 2 = h /\ MinSeparation \in Int
  BY <1>1, MissionConstants
<1>3. Apart(places[i], places[j]) \in Int
  BY <1>2 DEF Apart
<1>4. HalfUp(MinSeparation - Apart(places[i], places[j])) \in Int
  BY <1>2, <1>3 DEF HalfUp
<1>5. (i - j) * (MinSeparation \div 2) \in Int
  BY <1>2
<1> QED
  BY <1>4, <1>5 DEF Push

LEMMA SeparatedType ==
  ASSUME NEW places \in [Drone -> Int]
  PROVE  Separated(places) \in [Drone -> Int]
<1>1. ASSUME NEW i \in Drone PROVE Separated(places)[i] \in Int
  <2> DEFINE f == [j \in Drone |-> IF j = i THEN 0 ELSE Push(i, j, places)]
  <2>1. \A j \in Drone : f[j] \in Int
    BY PushType
  <2>2. DOMAIN f = Drone /\ SumFunction(f) = SumFunctionOnSet(f, Drone)
    BY DEF SumFunction
  <2>3. Separated(places)[i] = places[i] + SumFunction(f)
    BY DEF Separated
  <2> HIDE DEF f
  <2>4. SumFunctionOnSet(f, Drone) \in Int
    BY <2>1, MissionConstants, SumType
  <2> QED
    BY <2>2, <2>3, <2>4
<1> QED
  BY <1>1 DEF Separated

\* Who is near one other drone only is pushed by that one only.
LEMMA PushedByOne ==
  ASSUME NEW places \in [Drone -> Int], NEW i \in Drone, NEW j \in Drone \ {i},
         \A k \in Drone \ {i, j} : Apart(places[k], places[i]) >= MinSeparation
  PROVE  Separated(places)[i] = places[i] + Push(i, j, places)
<1> DEFINE f == [k \in Drone |-> IF k = i THEN 0 ELSE Push(i, k, places)]
<1>1. Separated(places)[i] = places[i] + SumFunctionOnSet(f, Drone)
  BY DEF Separated, SumFunction
<1>2. f[j] = Push(i, j, places) /\ f[j] \in Int
  BY PushType
<1>3. ASSUME NEW k \in Drone \ {j} PROVE f[k] = 0
  <2>1. CASE k = i
    BY <2>1
  <2>2. CASE k # i
    <3>1. Apart(places[k], places[i]) >= MinSeparation
      BY <2>2
    <3>2. Apart(places[k], places[i]) = Apart(places[i], places[k])
      BY DEF Apart
    <3> QED
      BY <2>2, <3>1, <3>2 DEF Push
  <2> QED
    BY <2>1, <2>2
<1> HIDE DEF f
<1>4. SumFunctionOnSet(f, Drone) = f[j]
  <2>1. IsFiniteSet(Drone) /\ j \in Drone /\ f[j] \in Int /\ \A k \in Drone \ {j} : f[k] = 0
    BY <1>2, <1>3, MissionConstants
  <2> QED
    BY ONLY <2>1, SumOneNonzero
<1> QED
  BY <1>1, <1>2, <1>4

\* A place for each drone is all the separation asks for.
LEMMA SeparationSuffices == ASSUME at \in [Drone -> Int] PROVE PairsEndApart
<1> DEFINE ends == Separated(at)
<1>1. ASSUME NEW i \in Drone, NEW j \in Drone, i # j,
             \A k \in Drone \ {i, j} : /\ Apart(at[k], at[i]) >= MinSeparation
                                       /\ Apart(at[k], at[j]) >= MinSeparation
      PROVE  Apart(ends[i], ends[j]) >= MinSeparation
  <2> DEFINE gap == Apart(at[i], at[j])
             p   == Push(i, j, at)
             q   == Push(j, i, at)
  <2>1. ends[i] = at[i] + p /\ ends[j] = at[j] + q
    <3>1. i \in Drone \ {j} /\ j \in Drone \ {i} /\ Drone \ {i, j} = Drone \ {j, i}
      BY <1>1
    <3> QED
      BY <1>1, <3>1, PushedByOne
  <2>2. /\ at[i] \in Int /\ at[j] \in Int /\ gap \in Nat /\ gap = Apart(at[j], at[i])
        /\ p \in Int /\ q \in Int /\ i \in Int /\ j \in Int
    BY PushType, MissionConstants DEF Apart
  <2>3. PICK h \in Nat : h > 0 /\ MinSeparation = 2 * h
    BY MissionConstants
  <2>4. CASE gap >= MinSeparation
    <3>1. p = 0 /\ q = 0
      BY <2>2, <2>4 DEF Push
    <3> QED
      BY <2>1, <2>2, <2>4, <3>1
  <2>5. CASE gap = 0
    <3>1. at[i] = at[j]
      BY <2>2, <2>5 DEF Apart
    <3>2. MinSeparation \div 2 = h /\ ~(gap >= MinSeparation)
      BY <2>3, <2>5
    <3>3. p = (i - j) * h /\ q = (j - i) * h
      BY <2>2, <2>5, <3>2 DEF Push
    <3>4. CASE i < j
      <4>1. PICK n \in Nat : j = i + n + 1
        <5>1. j - i - 1 \in Nat /\ j = i + (j - i - 1) + 1
          BY <2>2, <3>4
        <5> QED
          BY <5>1
      <4>2. p = -(n * h) - h /\ q = n * h + h /\ n * h \in Nat
        BY <2>2, <3>3, <4>1
      <4> QED
        BY <2>1, <2>2, <2>3, <3>1, <4>2 DEF Apart
    <3>5. CASE j < i
      <4>1. PICK n \in Nat : i = j + n + 1
        <5>1. i - j - 1 \in Nat /\ i = j + (i - j - 1) + 1
          BY <2>2, <3>5
        <5> QED
          BY <5>1
      <4>2. q = -(n * h) - h /\ p = n * h + h /\ n * h \in Nat
        BY <2>2, <3>3, <4>1
      <4> QED
        BY <2>1, <2>2, <2>3, <3>1, <4>2 DEF Apart
    <3> QED
      BY <1>1, <2>2, <3>4, <3>5
  <2>6. CASE gap # 0 /\ ~(gap >= MinSeparation)
    <3> DEFINE half == HalfUp(MinSeparation - gap)
    <3>1. half \in Int /\ 2 * half >= MinSeparation - gap /\ MinSeparation \in Int
      BY <2>2, <2>3 DEF HalfUp
    <3>2. half >= 0
      BY <2>2, <2>6, <3>1
    <3>3. /\ at[i] > at[j] => p = half /\ q = -half /\ at[i] = at[j] + gap
          /\ ~(at[i] > at[j]) => p = -half /\ q = half /\ at[j] = at[i] + gap
      BY <2>2, <2>6 DEF Push, Apart
    <3> HIDE DEF half, gap, p, q
    <3> QED
      BY <2>1, <2>2, <3>1, <3>2, <3>3 DEF Apart
  <2> QED
    BY <2>2, <2>4, <2>5, <2>6
<1> QED
  BY <1>1 DEF PairsEndApart

-----------------------------------------------------------------------------

MissionIInv == at \in [Drone -> Int] /\ TwoViewpoints

LEMMA MissionInitIInv == MissionInit => MissionIInv
<1>1. ASSUME MissionInit PROVE at \in [Drone -> Int]
  <2>1. ASSUME NEW d \in Drone PROVE ((d - 1) * CorridorEnd) \div DroneCount \in Int
    <3>1. d \in Nat /\ DroneCount \in Nat /\ DroneCount > 0 /\ (d - 1) * CorridorEnd \in Int
      BY MissionConstants
    <3> QED
      BY <3>1
  <2> QED
    BY <1>1, <2>1 DEF MissionInit
<1> QED
  BY <1>1 DEF MissionInit, MissionIInv, TwoViewpoints

\* Two detections of different drones have two drones behind them.
LEMMA TwoAreHeard ==
  ASSUME NEW heard \in Seq(Detection), Distinct(heard), NEW c \in NewContact(heard)
  PROVE  Cardinality(c.by) >= 2
<1> DEFINE used == Usable(heard)
           by   == {heard[k].drone : k \in used}
<1>1. Len(heard) \in Nat /\ DOMAIN heard = 1 .. Len(heard) /\ heard \in [1 .. Len(heard) -> Detection]
  BY LenProperties
<1>2. used \in SUBSET (1 .. Len(heard))
  BY <1>1 DEF Usable
<1>3. IsFiniteSet(used) /\ Cardinality(used) \in Nat
  <2>1. IsFiniteSet(1 .. Len(heard))
    BY <1>1, FS_Interval
  <2> HIDE DEF used
  <2> QED
    BY <1>2, <2>1, FS_Subset, FS_CardinalityType
<1>4. Cardinality(used) >= 2 /\ c.by = by
  <2>1. ~(Cardinality(used) < 2) /\ c = Fused(heard)
    BY DEF NewContact
  <2> QED
    BY <1>3, <2>1 DEF Fused
<1>5. PICK k \in used, l \in used : k # l
  <2> HIDE DEF used
  <2>1. used # {} /\ \A k : used # {k}
    <3>1. Cardinality({}) = 0 /\ \A k : Cardinality({k}) = 1
      BY FS_EmptySet, FS_Singleton
    <3>2. Cardinality(used) # 0 /\ Cardinality(used) # 1
      BY <1>3, <1>4
    <3> QED
      BY <3>1, <3>2
  <2>2. PICK k \in used : TRUE
    BY <2>1
  <2>3. used # {k}
    BY <2>1
  <2> QED
    BY <2>2, <2>3
<1>6. heard[k].drone # heard[l].drone
  BY <1>2, <1>5 DEF Distinct
<1>7. IsFiniteSet(by)
  <2>1. \A m \in used : heard[m].drone \in Drone
    BY <1>1, <1>2 DEF Detection
  <2>2. by \in SUBSET Drone
    BY <2>1
  <2> HIDE DEF by
  <2> QED
    BY <2>2, MissionConstants, FS_Subset
<1>8. Cardinality({heard[k].drone, heard[l].drone}) = 2
  <2> DEFINE x == heard[k].drone
             y == heard[l].drone
  <2>1. x # y
    BY <1>6
  <2> HIDE DEF x, y
  <2>2. IsFiniteSet({x}) /\ Cardinality({x}) = 1 /\ {x, y} = {x} \cup {y} /\ y \notin {x}
    BY <2>1, FS_Singleton
  <2>3. Cardinality({x} \cup {y}) = Cardinality({x}) + 1
    BY <2>2, FS_AddElement
  <2>4. Cardinality({x, y}) = 1 + 1
    <3>1. Cardinality({x}) = 1 /\ {x, y} = {x} \cup {y}
      BY <2>2
    <3> QED
      BY ONLY <2>3, <3>1
  <2> QED
    BY <2>4 DEF x, y
<1>9. {heard[k].drone, heard[l].drone} \in SUBSET by
  BY <1>5
<1> HIDE DEF by
<1>10. Cardinality({heard[k].drone, heard[l].drone}) <= Cardinality(by) /\ Cardinality(by) \in Nat
  BY <1>7, <1>9, FS_Subset, FS_CardinalityType
<1> QED
  BY <1>4, <1>8, <1>10

LEMMA MissionNextIInv == MissionIInv /\ [MissionTick]_missionVars => MissionIInv'
<1>1. ASSUME MissionIInv, MissionTick PROVE MissionIInv'
  <2>1. PICK hop \in [Drone -> -MaxSpeed .. MaxSpeed], noise \in Noise :
          LET after == Assisted(Flown(at, hop), noise)
          IN  /\ at' = Separated(after.at)
              /\ confirmed' = confirmed \cup {[at |-> c.at, viewpoints |-> Cardinality(c.by)] :
                                                c \in NewContact(after.heard)}
    BY <1>1 DEF MissionTick
  <2> DEFINE places == Flown(at, hop)
             after  == Assisted(places, noise)
             heard  == after.heard
  <2>2. places \in [Drone -> Int]
    BY <1>1, FlownType DEF MissionIInv
  <2> HIDE DEF places
  <2>3. after.at \in [Drone -> Int] /\ heard \in Seq(Detection) /\ Distinct(heard)
    BY <2>2, AssistedType
  <2>4. /\ at' = Separated(after.at)
        /\ confirmed' = confirmed \cup {[at |-> c.at, viewpoints |-> Cardinality(c.by)] :
                                          c \in NewContact(heard)}
    BY <2>1 DEF places
  <2> HIDE DEF after
  <2>5. at' \in [Drone -> Int]
    BY <2>3, <2>4, SeparatedType
  <2>6. ASSUME NEW r \in confirmed' PROVE r.viewpoints >= 2
    <3>1. CASE r \in confirmed
      BY <1>1, <3>1 DEF MissionIInv, TwoViewpoints
    <3>2. CASE r \notin confirmed
      <4>1. PICK c \in NewContact(heard) : r = [at |-> c.at, viewpoints |-> Cardinality(c.by)]
        BY <2>4, <3>2
      <4>2. Cardinality(c.by) >= 2
        BY <2>3, TwoAreHeard
      <4> QED
        BY <4>1, <4>2
    <3> QED
      BY <3>1, <3>2
  <2> QED
    BY <2>5, <2>6 DEF MissionIInv, TwoViewpoints
<1>2. CASE UNCHANGED missionVars
  BY <1>2 DEF missionVars, MissionIInv, TwoViewpoints
<1> QED
  BY <1>1, <1>2

\* In run_mission_with_report a victim is confirmed on the word of two drones:
\* who is vectored to a contact is never who has it, so no drone is heard twice.
THEOREM TwoDronesConfirm == MissionSpec => []TwoViewpoints
<1>1. MissionIInv => TwoViewpoints
  BY DEF MissionIInv
<1> QED
  BY <1>1, MissionInitIInv, MissionNextIInv, PTL DEF MissionSpec

\* The separation of run_mission_with_report takes a pair that no third drone
\* crowds to its minimum distance, from wherever the two have come to be.
THEOREM SeparationSeparates == MissionSpec => []PairsEndApart
<1>1. MissionIInv => PairsEndApart
  BY SeparationSuffices DEF MissionIInv
<1> QED
  BY <1>1, MissionInitIInv, MissionNextIInv, PTL DEF MissionSpec

-----------------------------------------------------------------------------
(* Planning: a tree whose nodes are a step and a push from their parents,   *)
(* and what is traced back through it                                       *)

PlanNode == [at : Int, parent : Nat, landed : Int]

\* Parents come before their children.
IsTree(all) == /\ all \in Seq(PlanNode) /\ Len(all) >= 1
               /\ \A n \in 2 .. Len(all) : all[n].parent \in 1 .. n - 1

\* A node's step was a whole one from its parent, and its push followed.
StepsWhole(all) ==
  \A n \in 2 .. Len(all) :
    /\ Gap(all[all[n].parent].at, all[n].landed) = StepSize
    /\ all[n].at = all[n].landed + ApfForce(all[n].landed)

PlannerIInv ==
  /\ obstacles \in SUBSET ObstaclePlaces
  /\ IsTree(tree) /\ StepsWhole(tree)
  /\ tree[1].at = Start
  /\ path = <<>> => Len(tree) = 1 \/ ~NearGoal(tree[Len(tree)].at)
  /\ LegsWereGrown

LEMMA PlannerConstants ==
  /\ Start \in Int /\ Goal \in Int /\ Samples \subseteq Int /\ ObstaclePlaces \subseteq Int
  /\ IsFiniteSet(ObstaclePlaces) /\ StepSize \in Nat /\ StepSize > 0
  /\ RepulsionDistance \in Nat /\ RepulsionDistance > 0 /\ Clearance \in Nat
  BY PlannerAssumption

LEMMA PlanNodesAre ==
  ASSUME NEW all, IsTree(all), NEW n \in 1 .. Len(all)
  PROVE  all[n].at \in Int /\ all[n].landed \in Int /\ all[n].parent \in Nat
<1>1. all \in Seq(PlanNode)
  BY DEF IsTree
<1>2. all[n] \in PlanNode
  BY <1>1
<1> QED
  BY <1>2 DEF PlanNode

\* What goes back from a node, by the nodes before it.
Backwards(back, all, n) ==
  \A k \in 1 .. n : back[k] = IF k = 1 THEN <<all[1].at>> ELSE Append(back[all[k].parent], all[k].at)

LEMMA TraceExists ==
  ASSUME NEW all, IsTree(all)
  PROVE  \E back : /\ Backwards(back, all, Len(all))
                   /\ \A n \in 1 .. Len(all) : Trace(all, n) = back[n]
<1> DEFINE N == Len(all)
           Q == {n \in Nat : n <= N => \E back : Backwards(back, all, n)}
           Def(back) == [k \in 1 .. N |->
                           IF k = 1 THEN <<all[1].at>> ELSE Append(back[all[k].parent], all[k].at)]
<1>1. N \in Nat /\ N >= 1 /\ \A n \in 2 .. N : all[n].parent \in 1 .. n - 1
  BY DEF IsTree
<1> HIDE DEF N
<1>2. 0 \in Q
  BY DEF Backwards
<1>3. ASSUME NEW n \in Nat, n \in Q PROVE n + 1 \in Q
  <2>1. SUFFICES ASSUME n + 1 <= N PROVE \E back : Backwards(back, all, n + 1)
    OBVIOUS
  <2>2. PICK b : Backwards(b, all, n)
    BY <1>1, <1>3, <2>1
  <2> DEFINE c == [k \in 1 .. n + 1 |-> IF k <= n THEN b[k] ELSE
                     IF k = 1 THEN <<all[1].at>> ELSE Append(b[all[k].parent], all[k].at)]
  <2>3. ASSUME NEW k \in 1 .. n + 1
        PROVE  c[k] = IF k = 1 THEN <<all[1].at>> ELSE Append(c[all[k].parent], all[k].at)
    <3>1. CASE k = 1
      BY <2>2, <3>1 DEF Backwards
    <3>2. CASE k # 1
      <4>1. all[k].parent \in 1 .. n /\ c[all[k].parent] = b[all[k].parent]
        BY <1>1, <2>1, <3>2
      <4>2. c[k] = Append(b[all[k].parent], all[k].at)
        <5>1. CASE k <= n
          <6>1. b[k] = Append(b[all[k].parent], all[k].at)
            <7>1. k \in 1 .. n
              BY <5>1
            <7> QED
              BY <2>2, <3>2, <7>1 DEF Backwards
          <6>2. c[k] = b[k]
            BY <5>1
          <6> QED
            BY <6>1, <6>2
        <5>2. CASE k = n + 1
          BY <3>2, <5>2
        <5> QED
          BY <5>1, <5>2
      <4> QED
        BY <3>2, <4>1, <4>2
    <3> QED
      BY <3>1, <3>2
  <2> QED
    BY <2>3 DEF Backwards
<1>4. N \in Q
  <2> HIDE DEF Q
  <2> QED
    BY <1>1, <1>2, <1>3, SuccessorsReachAll
<1>5. PICK b : Backwards(b, all, N)
  BY <1>1, <1>4
<1> DEFINE d == [k \in 1 .. N |-> b[k]]
<1>6. d = Def(d)
  <2>1. ASSUME NEW k \in 1 .. N
        PROVE  d[k] = IF k = 1 THEN <<all[1].at>> ELSE Append(d[all[k].parent], all[k].at)
    <3>1. b[k] = IF k = 1 THEN <<all[1].at>> ELSE Append(b[all[k].parent], all[k].at)
      BY <1>5 DEF Backwards
    <3>2. k # 1 => all[k].parent \in 1 .. N
      BY <1>1
    <3> QED
      BY <3>1, <3>2
  <2> QED
    BY <2>1
<1> DEFINE e == CHOOSE back : back = Def(back)
<1>7. e = Def(e)
  <2> HIDE DEF d, Def
  <2> QED
    BY <1>6
<1>8. \A n \in 1 .. N : Trace(all, n) = e[n]
  BY DEF Trace, N
<1>9. Backwards(e, all, N)
  <2> HIDE DEF e
  <2> QED
    BY <1>7 DEF Backwards
<1> QED
  BY <1>8, <1>9 DEF N

\* A way back goes from the root to the node, each place on it a node's whose
\* parent's is the one before.
IsWay(way, all, n) ==
  /\ way \in Seq(Int) /\ Len(way) >= 1
  /\ way[1] = all[1].at /\ way[Len(way)] = all[n].at
  /\ \A k \in 1 .. Len(way) - 1 :
       \E m \in 2 .. Len(all) : all[m].at = way[k + 1] /\ all[all[m].parent].at = way[k]

LEMMA TraceIsWay ==
  ASSUME NEW all, IsTree(all)
  PROVE  \A n \in 1 .. Len(all) : IsWay(Trace(all, n), all, n)
<1> DEFINE N == Len(all)
<1>1. N \in Nat /\ N >= 1 /\ \A n \in 2 .. N : all[n].parent \in 1 .. n - 1
  BY DEF IsTree
<1>2. \A n \in 1 .. N : all[n].at \in Int
  BY PlanNodesAre
<1>3. PICK back : /\ Backwards(back, all, N)
                  /\ \A n \in 1 .. N : Trace(all, n) = back[n]
  BY TraceExists
<1> HIDE DEF N
<1> DEFINE Q == {n \in Nat : \A k \in 1 .. n : k <= N => IsWay(back[k], all, k)}
<1>4. 0 \in Q
  OBVIOUS
<1>5. ASSUME NEW n \in Nat, n \in Q PROVE n + 1 \in Q
  <2>1. SUFFICES ASSUME n + 1 <= N PROVE IsWay(back[n + 1], all, n + 1)
    BY <1>5
  <2>2. CASE n = 0
    <3>1. back[1] = <<all[1].at>>
      BY <1>1, <1>3 DEF Backwards
    <3> DEFINE x == all[1].at
               way == <<x>>
    <3>2. x \in Int
      BY <1>1, <1>2
    <3> HIDE DEF x
    <3>3. way \in Seq(Int) /\ Len(way) = 1 /\ way[1] = x
      BY <3>2
    <3>4. IsWay(way, all, 1)
      <4> HIDE DEF way
      <4> QED
        BY <3>3 DEF IsWay, x
    <3>5. back[n + 1] = way
      BY <2>2, <3>1 DEF x
    <3> QED
      BY <2>2, <3>4, <3>5
  <2>3. CASE n # 0
    <3> DEFINE p == all[n + 1].parent
               way == back[p]
               x == all[n + 1].at
    <3>1. p \in 1 .. n /\ n + 1 \in 1 .. N /\ n + 1 # 1 /\ n + 1 \in 2 .. N
      BY <1>1, <2>1, <2>3
    <3>2. back[n + 1] = Append(way, x)
      BY <1>3, <3>1 DEF Backwards
    <3>3. IsWay(way, all, p)
      BY <1>1, <1>5, <2>1, <3>1
    <3>4. x \in Int
      BY <1>2, <3>1
    <3>5. way \in Seq(Int) /\ Len(way) \in Nat /\ Len(way) >= 1 /\ way[1] = all[1].at
          /\ way[Len(way)] = all[p].at
      BY <3>3 DEF IsWay
    <3>6. \A k \in 1 .. Len(way) - 1 :
            \E m \in 2 .. N : all[m].at = way[k + 1] /\ all[all[m].parent].at = way[k]
      BY <3>3 DEF IsWay, N
    <3>7. all[n + 1].at = x /\ all[all[n + 1].parent].at = way[Len(way)]
      BY <3>5
    <3> HIDE DEF x, way
    <3> DEFINE longer == Append(way, x)
    <3>8. /\ longer \in Seq(Int) /\ Len(longer) = Len(way) + 1
          /\ \A k \in 1 .. Len(way) : longer[k] = way[k]
          /\ longer[Len(way) + 1] = x
      BY <3>4, <3>5, AppendProperties
    <3> HIDE DEF longer
    <3>9. ASSUME NEW k \in 1 .. Len(longer) - 1
          PROVE  \E m \in 2 .. N : all[m].at = longer[k + 1] /\ all[all[m].parent].at = longer[k]
      <4>1. CASE k < Len(way)
        <5>1. k \in 1 .. Len(way) - 1 /\ longer[k + 1] = way[k + 1] /\ longer[k] = way[k]
          <6>1. Len(way) \in Nat
            BY <3>5
          <6>2. k \in 1 .. Len(way) - 1 /\ k \in 1 .. Len(way) /\ k + 1 \in 1 .. Len(way)
            BY ONLY <3>8, <4>1, <6>1
          <6> QED
            BY ONLY <3>8, <6>2
        <5> QED
          BY <3>6, <5>1
      <4>2. CASE k = Len(way)
        <5>1. longer[k + 1] = x /\ longer[k] = way[Len(way)]
          BY <3>5, <3>8, <4>2
        <5> QED
          BY <3>1, <3>7, <5>1
      <4> QED
        BY <3>5, <3>8, <4>1, <4>2
    <3>10. longer[1] = all[1].at /\ longer[Len(longer)] = all[n + 1].at
      BY <3>5, <3>7, <3>8
    <3>11. \A k \in 1 .. Len(longer) - 1 :
             \E m \in 2 .. Len(all) : all[m].at = longer[k + 1] /\ all[all[m].parent].at = longer[k]
      BY <3>9 DEF N
    <3>12. Len(longer) >= 1
      BY <3>5, <3>8
    <3>13. IsWay(longer, all, n + 1)
      BY <3>8, <3>10, <3>11, <3>12 DEF IsWay
    <3> QED
      BY <3>2, <3>13 DEF longer
  <2> QED
    BY <2>2, <2>3
<1>6. N \in Q
  <2> HIDE DEF Q
  <2> QED
    BY <1>1, <1>4, <1>5, SuccessorsReachAll
<1> QED
  BY <1>1, <1>3, <1>6 DEF N

\* How far the obstacles push, which is a whole number of places.
LEMMA ForceType ==
  ASSUME NEW stand \in Int, obstacles \in SUBSET ObstaclePlaces
  PROVE  ApfForce(stand) \in Int
<1> DEFINE f == [o \in obstacles |-> SideOf(stand - o) * Repulsion(Gap(stand, o))]
<1>1. IsFiniteSet(InReach(stand)) /\ InReach(stand) \subseteq obstacles
  BY PlannerConstants, FS_Subset DEF InReach
<1>2. ASSUME NEW o \in InReach(stand) PROVE f[o] \in Int
  <2>1. Gap(stand, o) \in Nat /\ Gap(stand, o) > 0 /\ o \in obstacles
    BY PlannerConstants DEF InReach
  <2>2. SideOf(stand - o) \in {-1, 0, 1}
    BY DEF SideOf
  <2>3. Repulsion(Gap(stand, o)) \in Int
    BY <2>1, PlannerConstants DEF Repulsion
  <2>4. SideOf(stand - o) * Repulsion(Gap(stand, o)) \in Int
    BY <2>2, <2>3
  <2> QED
    BY <2>1, <2>4
<1>3. ApfForce(stand) = SumFunctionOnSet(f, InReach(stand))
  BY DEF ApfForce
<1> HIDE DEF f
<1> QED
  BY <1>1, <1>2, <1>3, SumType

\* Pushed by a single obstacle, a node is not too near.
LEMMA OnePushes ==
  ASSUME NEW o \in ObstaclePlaces, obstacles = {o}, NEW stand \in Int, stand # o
  PROVE  Gap(stand + ApfForce(stand), o) >= Clearance
<1> DEFINE g == Gap(stand, o)
           f == [q \in obstacles |-> SideOf(stand - q) * Repulsion(Gap(stand, q))]
<1>1. o \in Int /\ RepulsionDistance \in Nat /\ Clearance \in Nat
  BY PlannerConstants
<1>2. g \in Nat /\ g >= 1
  BY <1>1 DEF Gap
<1>3. ApfForce(stand) = SumFunctionOnSet(f, InReach(stand))
  BY DEF ApfForce
<1>4. CASE g >= RepulsionDistance
  <2>1. InReach(stand) = {}
    BY <1>1, <1>2, <1>4 DEF InReach
  <2>2. ApfForce(stand) = 0
    BY <1>3, <2>1, SumEmpty
  <2>3. stand + ApfForce(stand) = stand
    BY <2>2
  <2> QED
    BY <1>1, <1>2, <1>4, <2>3, ClearanceAssumption
<1>5. CASE g < RepulsionDistance
  <2> DEFINE r == Repulsion(g)
  <2>1. InReach(stand) = {o} /\ g \in 1 .. RepulsionDistance - 1
    BY <1>1, <1>2, <1>5 DEF InReach
  <2>2. f[o] = SideOf(stand - o) * r
    OBVIOUS
  <2>3. r \in Int /\ g + r >= Clearance
    BY <1>1, <1>2, <2>1, ClearanceAssumption DEF Repulsion
  <2>4. r >= 0
    <3> DEFINE a == 3 * (RepulsionDistance - g)
    <3>1. a \in Int /\ a >= 0 /\ r = a \div g
      BY <1>1, <1>2, <1>5 DEF Repulsion
    <3> HIDE DEF a, r, g
    <3> QED
      BY <1>2, <3>1
  <2>5. SideOf(stand - o) * r = IF stand > o THEN r ELSE -r
    <3> HIDE DEF r
    <3> QED
      BY <1>1, <2>3 DEF SideOf
  <2>6. ApfForce(stand) = IF stand > o THEN r ELSE -r
    <3>1. f[o] \in Int
      BY <2>2, <2>3, <2>5
    <3> HIDE DEF f, r
    <3> QED
      BY <1>3, <2>1, <2>2, <2>5, <3>1, SumSingle
  <2> HIDE DEF r
  <2>8. CASE stand > o
    <3>1. Gap(stand + r, o) = g + r
      BY <1>1, <2>3, <2>4, <2>8 DEF Gap
    <3> QED
      BY <2>3, <2>6, <2>8, <3>1
  <2>9. CASE stand < o
    <3>1. Gap(stand + (-r), o) = g + r
      BY <1>1, <2>3, <2>4, <2>9 DEF Gap
    <3> QED
      BY <1>1, <2>3, <2>6, <2>9, <3>1
  <2> QED
    BY <1>1, <2>8, <2>9
<1> QED
  BY <1>1, <1>2, <1>4, <1>5

LEMMA NearestIsNode ==
  ASSUME NEW sample \in Int, IsTree(tree)
  PROVE  NearestNode(sample) \in DOMAIN tree
<1> DEFINE D == DOMAIN tree
           f == [n \in D |-> Gap(tree[n].at, sample)]
<1>1. D = 1 .. Len(tree) /\ Len(tree) \in Nat /\ Len(tree) >= 1 /\ IsFiniteSet(D) /\ D # {}
  BY FS_Interval DEF IsTree
<1>2. \A n \in D : f[n] \in Int
  <2>1. \A n \in D : tree[n].at \in Int
    BY <1>1, PlanNodesAre
  <2> QED
    BY <2>1 DEF Gap
<1>3. PICK m \in D : \A y \in D : f[m] <= f[y]
  <2> HIDE DEF f
  <2> QED
    BY <1>1, <1>2, HasLeast
<1> DEFINE L == {n \in D : f[n] = f[m]}
           h == [n \in L |-> n]
<1>4. IsFiniteSet(L) /\ L # {} /\ \A n \in L : h[n] \in Int
  <2>1. L \subseteq D /\ m \in L
    OBVIOUS
  <2>2. \A n \in D : n \in Int
    BY <1>1
  <2> HIDE DEF f, D, L
  <2>3. IsFiniteSet(L) /\ L # {}
    BY <1>1, <2>1, FS_Subset
  <2>4. \A n \in L : h[n] = n
    OBVIOUS
  <2> QED
    BY <2>1, <2>2, <2>3, <2>4
<1>5. PICK n \in L : \A y \in L : h[n] <= h[y]
  <2> HIDE DEF h, L
  <2> QED
    BY <1>4, HasLeast
<1>6. n \in D /\ f[n] = f[m] /\ \A y \in L : n <= y
  BY <1>5
<1>7. \A y \in D : Gap(tree[n].at, sample) <= Gap(tree[y].at, sample)
  BY <1>3, <1>6
<1>8. ASSUME NEW y \in 1 .. n - 1 PROVE Gap(tree[n].at, sample) < Gap(tree[y].at, sample)
  <2>1. y \in D /\ y < n
    BY <1>1, <1>6
  <2>2. y \notin L
    BY <1>1, <1>6, <2>1
  <2>3. f[n] # f[y] /\ f[n] <= f[y]
    BY <1>3, <1>6, <2>1, <2>2
  <2>4. f[n] < f[y]
    BY <1>2, <1>6, <2>1, <2>3
  <2> QED
    BY <1>6, <2>1, <2>4
<1>9. \E x \in DOMAIN tree : /\ \A y \in DOMAIN tree : Gap(tree[x].at, sample) <= Gap(tree[y].at, sample)
                             /\ \A y \in 1 .. x - 1 : Gap(tree[x].at, sample) < Gap(tree[y].at, sample)
  BY <1>6, <1>7, <1>8
<1> QED
  BY <1>9 DEF NearestNode

LEMMA PlannerInitIInv == PlannerInit => PlannerIInv
<1> SUFFICES ASSUME PlannerInit PROVE PlannerIInv
  OBVIOUS
<1>1. [at |-> Start, parent |-> 1, landed |-> Start] \in PlanNode
  BY PlannerConstants DEF PlanNode
<1>2. IsTree(tree) /\ Len(tree) = 1 /\ tree[1].at = Start
  BY <1>1 DEF PlannerInit, IsTree
<1>3. StepsWhole(tree)
  BY <1>2 DEF StepsWhole
<1>4. LegsWereGrown
  BY <1>2 DEF LegsWereGrown, PathFound
<1> QED
  BY <1>2, <1>3, <1>4 DEF PlannerInit, PlannerIInv

LEMMA GrowIInv ==
  ASSUME PlannerIInv, NEW sample \in Samples \cup {Goal}, Grow(sample)
  PROVE  PlannerIInv'
<1> DEFINE from == NearestNode(sample)
           landing == Landing(from, sample)
           node == [at |-> landing + ApfForce(landing), parent |-> from, landed |-> landing]
           grown == Append(tree, node)
<1>1. /\ path = <<>> /\ obstacles' = obstacles
      /\ IF landing = tree[from].at
         THEN UNCHANGED <<tree, path>>
         ELSE /\ tree' = grown
              /\ path' = IF NearGoal(node.at)
                         THEN Append(Trace(grown, Len(grown)), Goal) ELSE <<>>
  BY DEF Grow, Planning
<1>2. /\ obstacles \in SUBSET ObstaclePlaces /\ IsTree(tree) /\ StepsWhole(tree)
      /\ tree[1].at = Start /\ (path = <<>> => Len(tree) = 1 \/ ~NearGoal(tree[Len(tree)].at))
      /\ LegsWereGrown
  BY DEF PlannerIInv
<1>3. ASSUME UNCHANGED <<obstacles, tree, path>> PROVE PlannerIInv'
  <2>1. \A x : ApfForce(x)' = ApfForce(x)
    BY <1>3 DEF ApfForce, InReach
  <2> QED
    BY <1>2, <1>3, <2>1 DEF PlannerIInv, IsTree, StepsWhole, LegsWereGrown, PathFound
<1>4. CASE landing = tree[from].at
  BY <1>1, <1>3, <1>4
<1>5. CASE landing # tree[from].at
  <2>1. from \in 1 .. Len(tree) /\ Len(tree) \in Nat /\ Len(tree) >= 1 /\ tree \in Seq(PlanNode)
    <3>1. sample \in Int /\ IsTree(tree)
      BY <1>2, PlannerConstants
    <3>2. NearestNode(sample) \in DOMAIN tree
      BY <3>1, NearestIsNode
    <3>3. tree \in Seq(PlanNode) /\ Len(tree) >= 1
      BY <3>1 DEF IsTree
    <3> HIDE DEF landing, node, grown
    <3> QED
      BY <3>2, <3>3
  <2>2. tree[from].at \in Int /\ sample \in Int
    BY <1>2, <2>1, PlannerConstants, PlanNodesAre
  <2>3. landing \in Int /\ Gap(tree[from].at, landing) = StepSize
    <3> DEFINE a == tree[from].at
               side == SideOf(sample - a)
    <3>1. side \in {-1, 0, 1} /\ landing = a + StepSize * side
      BY DEF SideOf, Landing
    <3>2. StepSize \in Nat /\ StepSize > 0 /\ a \in Int
      BY <2>2, PlannerConstants
    <3>3. a # landing
      BY <1>5
    <3> HIDE DEF a, side, landing
    <3>4. side # 0
      BY <3>1, <3>2, <3>3
    <3>5. landing = a + StepSize \/ landing = a - StepSize
      BY <3>1, <3>2, <3>4
    <3>6. landing \in Int /\ Gap(a, landing) = StepSize
      BY <3>2, <3>5 DEF Gap
    <3> QED
      BY <3>6 DEF a
  <2> HIDE DEF landing, from
  <2>4. node \in PlanNode /\ node.at = landing + ApfForce(landing) /\ node.parent = from /\ node.landed = landing
    <3>1. landing + ApfForce(landing) \in Int
      BY <1>2, <2>3, ForceType
    <3> QED
      BY <2>1, <2>3, <3>1 DEF PlanNode
  <2> HIDE DEF node
  <2>5. /\ grown \in Seq(PlanNode) /\ Len(grown) = Len(tree) + 1
        /\ \A n \in 1 .. Len(tree) : grown[n] = tree[n]
        /\ grown[Len(tree) + 1] = node
    BY <2>1, <2>4
  <2> HIDE DEF grown
  <2>6. IsTree(grown)
    <3>1. ASSUME NEW n \in 2 .. Len(grown) PROVE grown[n].parent \in 1 .. n - 1
      <4>1. CASE n <= Len(tree)
        BY <1>2, <2>1, <2>5, <4>1 DEF IsTree
      <4>2. CASE n = Len(tree) + 1
        BY <2>1, <2>4, <2>5, <4>2
      <4> QED
        BY <2>1, <2>5, <4>1, <4>2
    <3> QED
      BY <2>1, <2>5, <3>1 DEF IsTree
  <2>7. StepsWhole(grown)
    <3>1. ASSUME NEW n \in 2 .. Len(grown)
          PROVE  /\ Gap(grown[grown[n].parent].at, grown[n].landed) = StepSize
                 /\ grown[n].at = grown[n].landed + ApfForce(grown[n].landed)
      <4>1. CASE n <= Len(tree)
        <5>1. n \in 2 .. Len(tree) /\ grown[n] = tree[n]
          BY <2>1, <2>5, <4>1
        <5>2. tree[n].parent \in 1 .. n - 1
          BY <1>2, <5>1 DEF IsTree
        <5>3. grown[tree[n].parent] = tree[tree[n].parent]
          BY <2>1, <2>5, <5>1, <5>2
        <5> QED
          BY <1>2, <5>1, <5>3 DEF StepsWhole
      <4>2. CASE n = Len(tree) + 1
        <5>1. grown[n] = node /\ grown[from] = tree[from]
          BY <2>1, <2>5, <4>2
        <5> QED
          BY <2>3, <2>4, <5>1
      <4> QED
        BY <2>1, <2>5, <4>1, <4>2
    <3> QED
      BY <3>1 DEF StepsWhole
  <2>8. tree' = grown /\ path' = IF NearGoal(node.at) THEN Append(Trace(grown, Len(grown)), Goal) ELSE <<>>
    BY <1>1, <1>5
  <2>9. \A x : ApfForce(x)' = ApfForce(x)
    BY <1>1 DEF ApfForce, InReach
  <2>10. StepsWhole(tree)'
    BY <2>7, <2>8, <2>9 DEF StepsWhole
  <2>11. grown[1].at = Start /\ grown[Len(grown)].at = node.at
    BY <1>2, <2>1, <2>5
  <2>12. CASE ~NearGoal(node.at)
    <3>1. path' = <<>>
      BY <2>8, <2>12
    <3>2. LegsWereGrown'
      BY <3>1 DEF LegsWereGrown, PathFound
    <3> QED
      BY <1>1, <1>2, <2>6, <2>8, <2>10, <2>11, <2>12, <3>2 DEF PlannerIInv
  <2>13. CASE NearGoal(node.at)
    <3> DEFINE way == Trace(grown, Len(grown))
               plan == Append(way, Goal)
    <3>1. IsWay(way, grown, Len(grown))
      <4>1. Len(grown) \in 1 .. Len(grown)
        BY <2>1, <2>5
      <4> QED
        BY <2>6, <4>1, TraceIsWay
    <3>2. /\ way \in Seq(Int) /\ Len(way) \in Nat /\ Len(way) >= 1
          /\ way[1] = Start /\ way[Len(way)] = node.at
      BY <2>11, <3>1 DEF IsWay
    <3>3. \A k \in 1 .. Len(way) - 1 :
            \E m \in 2 .. Len(grown) : grown[m].at = way[k + 1] /\ grown[grown[m].parent].at = way[k]
      BY <3>1 DEF IsWay
    <3> HIDE DEF way
    <3>4. /\ Len(plan) = Len(way) + 1 /\ plan[Len(way) + 1] = Goal
          /\ \A k \in 1 .. Len(way) : plan[k] = way[k]
      BY <3>2, PlannerConstants, AppendProperties
    <3>5. path' = plan
      BY <2>8, <2>13 DEF way
    <3> HIDE DEF plan
    <3>6. /\ plan[1] = Start /\ plan[Len(plan)] = Goal /\ NearGoal(plan[Len(plan) - 1])
      BY <2>13, <3>2, <3>4
    <3>7. ASSUME NEW k \in 1 .. Len(plan) - 2
          PROVE  \E n \in DOMAIN grown : grown[n].at = plan[k + 1] /\ Gap(plan[k], grown[n].landed) = StepSize
      <4>1. k \in 1 .. Len(way) - 1 /\ plan[k] = way[k] /\ plan[k + 1] = way[k + 1]
        <5>1. k \in 1 .. Len(way) - 1 /\ k \in 1 .. Len(way) /\ k + 1 \in 1 .. Len(way)
          BY ONLY <3>2, <3>4
        <5> QED
          BY ONLY <3>4, <5>1
      <4>2. PICK m \in 2 .. Len(grown) : grown[m].at = way[k + 1] /\ grown[grown[m].parent].at = way[k]
        BY <3>3, <4>1
      <4>3. Gap(way[k], grown[m].landed) = StepSize
        BY <2>7, <4>2 DEF StepsWhole
      <4>4. m \in DOMAIN grown
        BY <2>5
      <4> QED
        BY <4>1, <4>2, <4>3, <4>4
    <3>8. LegsWereGrown'
      BY <2>8, <3>5, <3>6, <3>7 DEF LegsWereGrown, PathFound, NearGoal
    <3>9. path' # <<>>
      BY <3>2, <3>4, <3>5
    <3> QED
      BY <1>1, <1>2, <2>6, <2>8, <2>10, <2>11, <3>8, <3>9 DEF PlannerIInv
  <2> QED
    BY <2>12, <2>13
<1> QED
  BY <1>4, <1>5

LEMMA PlannerNextIInv == PlannerIInv /\ [PlannerNext]_plannerVars => PlannerIInv'
<1> SUFFICES ASSUME PlannerIInv, [PlannerNext]_plannerVars PROVE PlannerIInv'
  OBVIOUS
<1>1. ASSUME UNCHANGED <<obstacles, tree>> PROVE (StepsWhole(tree) => StepsWhole(tree)')
  <2>1. \A x : ApfForce(x)' = ApfForce(x)
    BY <1>1 DEF ApfForce, InReach
  <2> QED
    BY <1>1, <2>1 DEF StepsWhole
<1>2. CASE DirectLine
  <2>1. path = <<>> /\ path' # <<>> /\ UNCHANGED <<obstacles, tree>>
    BY <1>2 DEF DirectLine, Planning
  <2>2. LegsWereGrown'
    BY <2>1 DEF LegsWereGrown, PathFound, PlannerIInv, NearGoal, IsTree
  <2> QED
    BY <1>1, <2>1, <2>2 DEF PlannerIInv, IsTree
<1>3. CASE UNCHANGED plannerVars
  <2>1. UNCHANGED <<obstacles, tree, path>>
    BY <1>3 DEF plannerVars
  <2> QED
    BY <1>1, <2>1 DEF PlannerIInv, IsTree, LegsWereGrown, PathFound, NearGoal
<1> QED
  BY <1>2, <1>3, GrowIInv DEF PlannerNext

LEMMA PlanKeepsClear == PlannerIInv => KeepsClear
<1> SUFFICES ASSUME PlannerIInv, Cardinality(obstacles) = 1, NEW n \in 2 .. Len(tree),
                    NEW o \in obstacles, tree[n].landed # o
             PROVE  Gap(tree[n].at, o) >= Clearance
  BY DEF KeepsClear
<1>1. obstacles = {o} /\ o \in ObstaclePlaces
  <2>1. IsFiniteSet(obstacles)
    BY PlannerConstants, FS_Subset DEF PlannerIInv
  <2>2. \E x : obstacles = {x}
    BY <2>1, FS_Singleton
  <2> QED
    BY <2>2 DEF PlannerIInv
<1>2. IsTree(tree) /\ tree[n].at = tree[n].landed + ApfForce(tree[n].landed)
  BY DEF PlannerIInv, StepsWhole
<1>3. tree[n].landed \in Int
  <2>1. n \in 1 .. Len(tree)
    BY <1>2 DEF IsTree
  <2> QED
    BY <1>2, <2>1, PlanNodesAre
<1> QED
  BY <1>1, <1>2, <1>3, OnePushes

\* A plan that was found goes from start to goal one step and one push at a time,
\* the way its tree was grown, and keeps off a single obstacle, for every place,
\* every step and every order of samples (RrtApfPlanner::plan).
THEOREM PlansHangTogether == PlannerSpec => []PlanHangsTogether
<1>1. PlannerIInv => PlanHangsTogether
  BY PlanKeepsClear DEF PlannerIInv, PlanHangsTogether
<1> QED
  BY <1>1, PlannerInitIInv, PlannerNextIInv, PTL DEF PlannerSpec

-----------------------------------------------------------------------------
(* Patterns: which cells a sweep passes, and in which order                 *)

LEMMA Divided ==
  ASSUME NEW a \in Int, NEW b \in Int, b > 0
  PROVE  /\ a \div b \in Int
         /\ a % b \in 0 .. b - 1
         /\ b * (a \div b) \in Int
         /\ a = b * (a \div b) + (a % b)
  OBVIOUS

\* A quotient and a remainder are the only ones.
LEMMA DividedOnce ==
  ASSUME NEW b \in Int, b > 0, NEW q \in Int, NEW r \in 0 .. b - 1
  PROVE  (b * q + r) \div b = q /\ (b * q + r) % b = r
<1> DEFINE a == b * q + r
           p == a \div b
           s == a % b
<1>1. a \in Int /\ b * q \in Int
  OBVIOUS
<1>2. p \in Int /\ s \in 0 .. b - 1 /\ a = b * p + s /\ b * p \in Int
  <2> HIDE DEF a
  <2> QED
    BY <1>1, Divided
<1>3. b * (q - p) = s - r
  <2>1. b * q + r = b * p + s
    BY <1>2
  <2> HIDE DEF p, s
  <2>2. b * (q - p) = b * q - b * p
    BY <1>2
  <2> QED
    BY <1>1, <1>2, <2>1, <2>2
<1> HIDE DEF p, s
<1>4. ASSUME NEW m \in Int, b * m < b, b * m > -b PROVE m = 0
  <2>1. CASE m >= 1
    <3>1. m - 1 \in Nat /\ b * m = b + b * (m - 1)
      BY <2>1
    <3>2. b * (m - 1) >= 0
      <4> DEFINE j == m - 1
      <4> HIDE DEF j
      <4>1. j \in Nat => b * j >= 0
        OBVIOUS
      <4> QED
        BY <3>1, <4>1 DEF j
    <3> QED
      BY <1>4, <3>1, <3>2
  <2>2. CASE m <= -1
    <3>1. -1 - m \in Nat /\ b * m = -b - b * (-1 - m)
      BY <2>2
    <3>2. b * (-1 - m) >= 0
      <4> DEFINE j == -1 - m
      <4> HIDE DEF j
      <4>1. j \in Nat => b * j >= 0
        OBVIOUS
      <4> QED
        BY <3>1, <4>1 DEF j
    <3>3. b * m \in Int /\ b * (-1 - m) \in Int
      OBVIOUS
    <3> QED
      BY <1>4, <3>1, <3>2, <3>3
  <2> QED
    BY <2>1, <2>2
<1>5. q - p = 0
  <2>1. q - p \in Int /\ b * (q - p) < b /\ b * (q - p) > -b
    BY <1>2, <1>3
  <2> QED
    BY <1>4, <2>1
<1>6. p = q /\ s = r
  <2>1. b * (q - p) = 0
    BY <1>5
  <2> QED
    BY <1>2, <1>3, <1>5, <2>1
<1> QED
  BY <1>6 DEF p, s

\* Cells of the scan width cover a length.
LEMMA CellsCover ==
  ASSUME NEW length \in Nat, NEW scan \in Nat \ {0}
  PROVE  /\ CellsAlong(length, scan) \in Nat \ {0}
         /\ length <= CellsAlong(length, scan) * scan
<1> DEFINE m == Greater(length, scan)
           a == m + scan - 1
           n == a \div scan
<1>1. m \in Nat /\ m >= scan /\ m >= length /\ a \in Int
  BY DEF Greater
<1>2. n \in Int /\ scan * n \in Int /\ scan * n >= m
  <2>1. n \in Int /\ a % scan \in 0 .. scan - 1 /\ scan * n \in Int /\ a = scan * n + (a % scan)
    <3> HIDE DEF a
    <3> QED
      BY <1>1, Divided
  <2> HIDE DEF n, m
  <2> QED
    BY <1>1, <2>1
<1>3. CellsAlong(length, scan) = Greater(n, 1)
  BY DEF CellsAlong, Ceil
<1> HIDE DEF n, m
<1>4. n >= 1
  <2>1. ASSUME n <= 0 PROVE FALSE
    <3>1. -n \in Nat /\ scan * (-n) >= 0
      <4>1. -n \in Nat
        BY <1>2, <2>1
      <4> DEFINE j == -n
      <4> HIDE DEF j
      <4>2. j \in Nat => scan * j >= 0
        OBVIOUS
      <4> QED
        BY <4>1, <4>2 DEF j
    <3>2. scan * (-n) = -(scan * n)
      BY <1>2
    <3> QED
      BY <1>1, <1>2, <3>1, <3>2
  <2> QED
    BY <1>2, <2>1
<1>5. CellsAlong(length, scan) = n
  BY <1>2, <1>3, <1>4 DEF Greater
<1>6. n * scan = scan * n
  BY <1>2
<1> QED
  BY <1>1, <1>2, <1>4, <1>5, <1>6

\* The centre of the cell, or the end of the length if that is nearer.
Centre(from, to, scan, cell) == Lesser(Twice(from) + (2 * cell + 1) * scan, Twice(to))

\* Every place is within half a scan width of the centre of some cell.
LEMMA CentresCover ==
  ASSUME NEW from \in Nat, NEW to \in Nat, from <= to, NEW scan \in Nat \ {0},
         NEW n \in Nat \ {0}, to - from <= n * scan, NEW x \in Twice(from) .. Twice(to)
  PROVE  \E cell \in 0 .. n - 1 : Near(Centre(from, to, scan, cell), x, scan)
<1> DEFINE u == x - 2 * from
           b == 2 * scan
           q == u \div b
           r == u % b
<1>1. u \in Nat /\ u <= 2 * to - 2 * from /\ b \in Int /\ b > 0
  BY DEF Twice
<1>2. q \in Int /\ r \in 0 .. b - 1 /\ b * q \in Int /\ u = b * q + r
  <2> HIDE DEF u, b
  <2> QED
    BY <1>1, Divided
<1> HIDE DEF u, q, r
<1>3. q >= 0
  <2>1. ASSUME q <= -1 PROVE FALSE
    <3>1. -1 - q \in Nat /\ b * q = -b - b * (-1 - q)
      BY <1>1, <1>2, <2>1
    <3>2. b * (-1 - q) >= 0
      <4> DEFINE j == -1 - q
      <4> HIDE DEF j, b
      <4>1. j \in Nat => b * j >= 0
        BY <1>1
      <4> QED
        BY <3>1, <4>1 DEF j
    <3> HIDE DEF b
    <3>3. b * (-1 - q) \in Int
      BY <1>1, <1>2
    <3> QED
      BY <1>1, <1>2, <3>1, <3>2, <3>3
  <2> QED
    BY <1>2, <2>1
<1>4. CASE q <= n - 1
  <2>1. (2 * q + 1) * scan = b * q + scan
    BY <1>2
  <2> DEFINE w == b * q
  <2> HIDE DEF w, b
  <2>2. Centre(from, to, scan, q) = Lesser(2 * from + (w + scan), 2 * to)
    BY <2>1 DEF Centre, Twice, w
  <2>3. x = 2 * from + w + r /\ w \in Int /\ r \in 0 .. 2 * scan - 1 /\ x <= 2 * to /\ x \in Int
    BY <1>2 DEF u, w, b, Twice
  <2>4. Near(Lesser(2 * from + (w + scan), 2 * to), x, scan)
    BY <2>3 DEF Near, Lesser
  <2> QED
    BY <1>2, <1>3, <1>4, <2>2, <2>4
<1>5. CASE q >= n
  <2>1. b * q >= b * n /\ b * n \in Int
    <3>1. q - n \in Nat /\ b * (q - n) = b * q - b * n
      BY <1>1, <1>2, <1>5
    <3> DEFINE j == q - n
    <3> HIDE DEF j, b
    <3>2. j \in Nat => b * j >= 0
      BY <1>1
    <3>3. b * n \in Int
      BY <1>1
    <3>4. b * j >= 0 /\ b * j = b * q - b * n
      BY <3>1, <3>2 DEF j
    <3> QED
      BY <1>2, <3>3, <3>4
  <2>2. b * n = 2 * (n * scan) /\ n * scan \in Nat
    OBVIOUS
  <2>3. (2 * (n - 1) + 1) * scan = b * n - scan
    OBVIOUS
  <2> DEFINE w == n * scan
             z == b * q
             y == b * n
             v == (2 * (n - 1) + 1) * scan
  <2> HIDE DEF w, z, y, v, b
  <2>4. z >= y /\ y = 2 * w /\ v = y - scan /\ w \in Nat /\ z \in Int /\ to - from <= w
    BY <1>2, <2>1, <2>2, <2>3 DEF w, z, y, v
  <2>5. x = 2 * from + z + r /\ r >= 0 /\ r \in Int /\ x <= 2 * to /\ x \in Int
    BY <1>2 DEF u, z, Twice
  <2>6. Centre(from, to, scan, n - 1) = Lesser(2 * from + v, 2 * to)
    BY DEF Centre, Twice, v
  <2>7. Near(Lesser(2 * from + v, 2 * to), x, scan)
    BY <2>4, <2>5 DEF Near, Lesser
  <2>8. n - 1 \in 0 .. n - 1
    OBVIOUS
  <2> QED
    BY <2>6, <2>7, <2>8
<1> QED
  BY <1>2, <1>4, <1>5

\* A step of a sweep is a row and a place in it, to and fro.
Along(cols, s) == IF ((s \div cols) % 2) = 0 THEN s % cols ELSE cols - 1 - (s % cols)

LEMMA StepsAre ==
  ASSUME NEW cols \in Nat \ {0}, NEW rows \in Nat \ {0}, NEW s \in 0 .. cols * rows - 1
  PROVE  /\ s \div cols \in 0 .. rows - 1 /\ s % cols \in 0 .. cols - 1
         /\ s = cols * (s \div cols) + (s % cols)
         /\ Along(cols, s) \in 0 .. cols - 1
<1> DEFINE q == s \div cols
           r == s % cols
<1>1. s \in Int /\ cols * rows \in Int /\ cols \in Int /\ cols > 0
  OBVIOUS
<1>2. q \in Int /\ r \in 0 .. cols - 1 /\ cols * q \in Int /\ s = cols * q + r
  BY <1>1, Divided
<1>3. Along(cols, s) \in 0 .. cols - 1
  <2>1. Along(cols, s) = IF q % 2 = 0 THEN r ELSE cols - 1 - r
    BY DEF Along
  <2> HIDE DEF q, r
  <2> QED
    BY <1>1, <1>2, <2>1
<1> HIDE DEF q, r
<1>4. q >= 0
  <2>1. ASSUME q <= -1 PROVE FALSE
    <3>1. -1 - q \in Nat /\ cols * q = -cols - cols * (-1 - q)
      BY <1>1, <1>2, <2>1
    <3> DEFINE j == -1 - q
    <3>2. j \in Nat
      BY <3>1
    <3> HIDE DEF j
    <3>3. cols * j >= 0 /\ cols * j \in Int
      BY <1>1, <3>2
    <3>4. cols * q = -cols - cols * j
      BY <3>1 DEF j
    <3> QED
      BY <1>1, <1>2, <3>3, <3>4
  <2> QED
    BY <1>2, <2>1
<1>5. q <= rows - 1
  <2>1. ASSUME q >= rows PROVE FALSE
    <3>1. q - rows \in Nat /\ cols * q = cols * rows + cols * (q - rows)
      BY <1>1, <1>2, <2>1
    <3> DEFINE j == q - rows
    <3>2. j \in Nat
      BY <3>1
    <3> HIDE DEF j
    <3>3. cols * j >= 0 /\ cols * j \in Int
      BY <1>1, <3>2
    <3>4. cols * q = cols * rows + cols * j
      BY <3>1 DEF j
    <3> DEFINE z == cols * rows
    <3>5. s < z /\ z \in Int
      BY <1>1
    <3> HIDE DEF z
    <3>6. cols * q = z + cols * j
      BY <3>4 DEF z
    <3> QED
      BY <1>1, <1>2, <3>3, <3>5, <3>6
  <2> QED
    BY <1>2, <2>1
<1> QED
  BY <1>2, <1>3, <1>4, <1>5 DEF q, r

\* Every cell has its step.
LEMMA StepOf ==
  ASSUME NEW cols \in Nat \ {0}, NEW rows \in Nat \ {0},
         NEW col \in 0 .. cols - 1, NEW row \in 0 .. rows - 1
  PROVE  \E s \in 0 .. cols * rows - 1 : Along(cols, s) = col /\ s \div cols = row
<1> DEFINE r == IF row % 2 = 0 THEN col ELSE cols - 1 - col
           s == cols * row + r
<1>1. r \in 0 .. cols - 1 /\ row \in Int
  <2>1. row % 2 \in Int
    OBVIOUS
  <2> QED
    OBVIOUS
<1>2. s \div cols = row /\ s % cols = r
  <2> HIDE DEF r
  <2> QED
    BY <1>1, DividedOnce
<1>3. s \in 0 .. cols * rows - 1
  <2>1. cols * row \in Nat
    OBVIOUS
  <2>2. rows - 1 - row \in Nat /\ cols * rows = cols * row + cols + cols * (rows - 1 - row)
    OBVIOUS
  <2> DEFINE j == rows - 1 - row
  <2>3. j \in Nat /\ cols * rows = cols * row + cols + cols * j
    BY <2>2
  <2> HIDE DEF j
  <2>4. cols * j \in Nat
    BY <2>3
  <2> DEFINE a == cols * row
             z == cols * rows
  <2> HIDE DEF a, z
  <2>5. a \in Nat /\ z = a + cols + cols * j
    BY <2>1, <2>3 DEF a, z
  <2> HIDE DEF r
  <2>6. a + r \in 0 .. z - 1
    BY <1>1, <2>4, <2>5
  <2> QED
    BY <2>6 DEF a, z
<1> HIDE DEF s
<1>4. Along(cols, s) = col
  <2>1. Along(cols, s) = IF row % 2 = 0 THEN r ELSE cols - 1 - r
    BY <1>2 DEF Along
  <2> QED
    BY <2>1
<1> QED
  BY <1>2, <1>3, <1>4

\* The area of a context, as the lawnmowers divide it.
Whole(c) == /\ c.swarm \in Nat \ {0} /\ c.width \in Nat \ {0}
            /\ c.height \in Nat \ {0} /\ c.scan \in Nat \ {0}

\* What a lawnmower sweeps: the area, or the strip of the drone.
RegionOf(p, c, d) == IF p = "Boustrophedon" THEN [from |-> 0, to |-> c.width] ELSE StripOf(d, c)

LEMMA RegionIs ==
  ASSUME NEW c, Whole(c), NEW p, NEW d \in 0 .. c.swarm - 1
  PROVE  /\ RegionOf(p, c, d).from \in Nat /\ RegionOf(p, c, d).to \in Nat
         /\ RegionOf(p, c, d).from <= RegionOf(p, c, d).to /\ RegionOf(p, c, d).to <= c.width
         /\ RegionOf(p, c, d).to - RegionOf(p, c, d).from =
              IF p = "Boustrophedon" THEN c.width ELSE c.width \div c.swarm
         /\ p # "Boustrophedon" => /\ RegionOf(p, c, d).from = d * (c.width \div c.swarm)
                                   /\ c.width \div c.swarm \in Nat
<1> DEFINE w == c.width \div c.swarm
           n == c.swarm
<1>1. n \in Nat \ {0} /\ c.width \in Nat
  BY DEF Whole
<1>2. w \in Nat /\ n * w <= c.width
  <2>1. w \in Int /\ c.width % n \in 0 .. n - 1 /\ n * w \in Int /\ c.width = n * w + (c.width % n)
    <3> DEFINE m == c.width
    <3>1. m \in Int /\ n \in Int /\ n > 0
      BY <1>1
    <3> HIDE DEF m, n
    <3>2. m \div n \in Int /\ m % n \in 0 .. n - 1 /\ n * (m \div n) \in Int /\ m = n * (m \div n) + (m % n)
      BY <3>1, Divided
    <3> QED
      BY <3>2 DEF m, n
  <2>2. w >= 0
    BY <1>1
  <2> HIDE DEF w
  <2> QED
    BY <1>1, <2>1, <2>2
<1>3. d % n = d
  BY <1>1
<1>4. StripOf(d, c) = [from |-> d * w, to |-> (d + 1) * w]
  BY <1>3 DEF StripOf
<1> HIDE DEF w, n
<1>5. /\ d * w \in Nat /\ (d + 1) * w \in Nat /\ (d + 1) * w - d * w = w
      /\ d * w <= (d + 1) * w /\ (d + 1) * w <= n * w
  <2>1. d \in Nat /\ d + 1 \in Nat /\ d + 1 <= n /\ d \in 0 .. n - 1
    BY <1>1 DEF n
  <2>2. (d + 1) * w = d * w + w /\ d * w \in Nat
    BY <1>2, <2>1
  <2>3. PICK j \in Nat : n = (d + 1) + j
    <3>1. n - (d + 1) \in Nat /\ n = (d + 1) + (n - (d + 1))
      BY <1>1, <2>1
    <3> QED
      BY <3>1
  <2>4. n * w = (d + 1) * w + j * w /\ j * w \in Nat
    BY <1>2, <2>1, <2>3
  <2> QED
    BY <1>2, <2>2, <2>4
<1>6. CASE p = "Boustrophedon"
  BY <1>1, <1>6 DEF RegionOf
<1>7. CASE p # "Boustrophedon"
  <2>1. RegionOf(p, c, d) = [from |-> d * w, to |-> (d + 1) * w]
    BY <1>4, <1>7 DEF RegionOf
  <2> DEFINE a == d * w
             b == (d + 1) * w
             m == n * w
  <2> HIDE DEF a, b, m
  <2>2. /\ a \in Nat /\ b \in Nat /\ b - a = w /\ a <= b /\ b <= m /\ m <= c.width /\ m \in Nat
    <3>1. n * w \in Nat
      BY <1>1, <1>2
    <3> QED
      BY <1>2, <1>5, <3>1 DEF a, b, m
  <2>3. RegionOf(p, c, d).from = a /\ RegionOf(p, c, d).to = b
    BY <2>1 DEF a, b
  <2> HIDE DEF w
  <2>4. b <= c.width
    BY <1>1, <2>2
  <2> QED
    BY <1>2, <1>7, <2>2, <2>3, <2>4 DEF a, w, n
<1> QED
  BY <1>6, <1>7

\* Where a lawnmower is at a step, which is in its region.
LEMMA TargetIs ==
  ASSUME NEW c, Whole(c), NEW p \in Lawnmower, NEW d \in 0 .. c.swarm - 1, NEW k \in Nat
  PROVE  LET region == RegionOf(p, c, d)
             cols == CellsAlong(region.to - region.from, c.scan)
             rows == CellsAlong(c.height, c.scan)
             s == k % (cols * rows)
         IN  /\ cols \in Nat \ {0} /\ rows \in Nat \ {0} /\ cols * rows = Sweep(p, c)
             /\ s \in 0 .. cols * rows - 1
             /\ LawnmowerTarget(p, c, d, k) =
                  [x |-> Centre(region.from, region.to, c.scan, Along(cols, s)),
                   y |-> Centre(0, c.height, c.scan, s \div cols)]
             /\ LawnmowerTarget(p, c, d, k).x \in Twice(region.from) .. Twice(region.to)
             /\ LawnmowerTarget(p, c, d, k).y \in 0 .. Twice(c.height)
<1> DEFINE region == RegionOf(p, c, d)
           x0 == region.from
           x1 == region.to
           cols == CellsAlong(x1 - x0, c.scan)
           rows == CellsAlong(c.height, c.scan)
           s == k % (cols * rows)
           a == Along(cols, s)
           r == s \div cols
           h == c.height
           scan == c.scan
<1>1. /\ x0 \in Nat /\ x1 \in Nat /\ x0 <= x1 /\ x1 <= c.width /\ x1 - x0 \in Nat
      /\ h \in Nat /\ scan \in Nat \ {0} /\ c.width \in Nat
  <2>1. x0 \in Nat /\ x1 \in Nat /\ x0 <= x1 /\ x1 <= c.width
    BY RegionIs
  <2> HIDE DEF x0, x1
  <2> QED
    BY <2>1 DEF Whole
<1>2. cols \in Nat \ {0} /\ rows \in Nat \ {0}
  <2> HIDE DEF x0, x1
  <2> QED
    BY <1>1, CellsCover
<1>3. cols * rows = Sweep(p, c)
  <2>1. x1 - x0 = IF p = "Boustrophedon" THEN c.width ELSE c.width \div c.swarm
    BY RegionIs
  <2> HIDE DEF x0, x1
  <2> QED
    BY <2>1 DEF Sweep
<1>4. s \in 0 .. cols * rows - 1
  <2> HIDE DEF cols, rows
  <2>1. cols * rows \in Int /\ cols * rows > 0
    <3>1. PICK i \in Nat : cols = 1 + i
      <4>1. cols - 1 \in Nat /\ cols = 1 + (cols - 1)
        BY <1>2
      <4> QED
        BY <4>1
    <3>2. cols * rows = rows + i * rows /\ i * rows \in Nat
      BY <1>2, <3>1
    <3> QED
      BY <1>2, <3>2
  <2> DEFINE n == cols * rows
  <2> HIDE DEF n
  <2>2. n \in Int /\ n > 0 => k % n \in 0 .. n - 1
    OBVIOUS
  <2> QED
    BY <2>1, <2>2 DEF n
<1>5. a \in 0 .. cols - 1 /\ r \in 0 .. rows - 1
  <2> HIDE DEF cols, rows, s
  <2> QED
    BY <1>2, <1>4, StepsAre
<1>6. Serpentine(x0, x1, 0, h, scan, k) =
        [x |-> Lesser(Twice(x0) + (2 * a + 1) * scan, Twice(x1)),
         y |-> Lesser(Twice(0) + (2 * r + 1) * scan, Twice(h))]
  <2>1. CellsAlong(h - 0, scan) = rows
    <3>1. h - 0 = h
      BY <1>1
    <3> QED
      BY <3>1
  <2>2. Serpentine(x0, x1, 0, h, scan, k) =
          LET rows2 == CellsAlong(h - 0, scan)
              s2    == k % (cols * rows2)
              row   == s2 \div cols
              col   == s2 % cols
              along == IF (row % 2) = 0 THEN col ELSE cols - 1 - col
          IN  [x |-> Lesser(Twice(x0) + (2 * along + 1) * scan, Twice(x1)),
               y |-> Lesser(Twice(0) + (2 * row + 1) * scan, Twice(h))]
    BY DEF Serpentine
  <2> HIDE DEF x0, x1, rows, cols, h, scan
  <2> QED
    BY <2>1, <2>2 DEF Along
<1>7. LawnmowerTarget(p, c, d, k) = ClampToArea(Serpentine(x0, x1, 0, h, scan, k), c)
  <2>1. CASE p = "Boustrophedon"
    BY <2>1 DEF LawnmowerTarget, RegionOf
  <2>2. CASE p # "Boustrophedon"
    BY <2>2 DEF LawnmowerTarget, RegionOf
  <2> QED
    BY <2>1, <2>2
<1> DEFINE u == Lesser(Twice(x0) + (2 * a + 1) * scan, Twice(x1))
           v == Lesser(Twice(0) + (2 * r + 1) * scan, Twice(h))
<1>8. u \in Twice(x0) .. Twice(x1) /\ v \in 0 .. Twice(h)
  <2>1. \A n \in Nat : (2 * n + 1) * scan \in Nat
    BY <1>1
  <2>2. (2 * a + 1) * scan \in Nat /\ (2 * r + 1) * scan \in Nat
    BY <1>5, <2>1
  <2> DEFINE e == (2 * a + 1) * scan
             f == (2 * r + 1) * scan
  <2> HIDE DEF e, f, x0, x1, h
  <2>3. /\ Lesser(Twice(x0) + e, Twice(x1)) \in Twice(x0) .. Twice(x1)
        /\ Lesser(Twice(0) + f, Twice(h)) \in 0 .. Twice(h)
    BY <1>1, <2>2 DEF Lesser, Twice, e, f
  <2> QED
    BY <2>3 DEF e, f
<1>9. ClampToArea([x |-> u, y |-> v], c) = [x |-> u, y |-> v]
  <2>1. u \in 0 .. Twice(c.width) /\ v \in 0 .. Twice(c.height) /\ u \in Int /\ v \in Int
    <3> HIDE DEF u, v, x0, x1
    <3>1. Twice(x0) \in Nat /\ Twice(x1) <= Twice(c.width) /\ Twice(x1) \in Nat /\ Twice(c.width) \in Nat
      BY <1>1 DEF Twice
    <3> QED
      BY <1>1, <1>8, <3>1 DEF Twice
  <2> HIDE DEF u, v
  <2>2. Twice(c.width) \in Int /\ Twice(c.height) \in Int
    BY <1>1 DEF Twice
  <2>3. Clamped(u, Twice(c.width)) = u /\ Clamped(v, Twice(c.height)) = v
    BY <2>1, <2>2 DEF Clamped
  <2> QED
    BY <2>3 DEF ClampToArea
<1>10. LawnmowerTarget(p, c, d, k) = [x |-> u, y |-> v]
  <2> HIDE DEF x0, x1, h, scan, a, r
  <2> QED
    BY <1>6, <1>7, <1>9
<1>11. u = Centre(x0, x1, scan, a) /\ v = Centre(0, h, scan, r)
  BY DEF Centre
<1> HIDE DEF u, v, a, r, s, cols, rows
<1> QED
  BY <1>2, <1>3, <1>4, <1>8, <1>10, <1>11 DEF a, r, s, cols, rows

PatternsIInv ==
  /\ pattern \in FlightPattern /\ context \in Contexts
  /\ drone \in 0 .. context.swarm - 1
  /\ patternStep \in 0 .. Sweep(pattern, context) - 1
  /\ waypoint \in NextTargets(pattern, context, drone, patternStep)

LEMMA ContextsAreWhole == \A c \in Contexts : Whole(c)
  BY PatternsAssumption DEF Whole

LEMMA SweepType ==
  ASSUME NEW c, Whole(c), NEW p
  PROVE  Sweep(p, c) \in Nat \ {0}
<1> DEFINE l == IF p = "Boustrophedon" THEN c.width ELSE c.width \div c.swarm
           a == CellsAlong(l, c.scan)
           b == CellsAlong(c.height, c.scan)
<1>1. l \in Nat
  <2>1. c.width \in Nat /\ c.swarm \in Nat \ {0}
    BY DEF Whole
  <2> DEFINE m == c.width
             n == c.swarm
  <2> HIDE DEF m, n
  <2>2. m \in Nat /\ n \in Nat \ {0} => m \div n \in Nat
    OBVIOUS
  <2> QED
    BY <2>1, <2>2 DEF m, n
<1> HIDE DEF l
<1>2. a \in Nat \ {0} /\ b \in Nat \ {0}
  BY <1>1, CellsCover DEF Whole
<1>3. Sweep(p, c) = a * b
  BY DEF Sweep, l
<1> HIDE DEF a, b
<1>4. a * b \in Nat /\ a * b # 0
  BY <1>2
<1> QED
  BY <1>3, <1>4

LEMMA PatternsInitIInv == PatternsInit => PatternsIInv
  BY ContextsAreWhole, SweepType DEF PatternsInit, PatternsIInv

LEMMA PatternsNextIInv == PatternsIInv /\ [PatternsNext]_patternVars => PatternsIInv'
<1> SUFFICES ASSUME PatternsIInv, [PatternsNext]_patternVars PROVE PatternsIInv'
  OBVIOUS
<1>1. CASE PatternsNext
  <2> DEFINE n == Sweep(pattern, context)
  <2>1. n \in Nat \ {0}
    BY ContextsAreWhole, SweepType DEF PatternsIInv
  <2>2. patternStep' = (patternStep + 1) % n /\ patternStep \in 0 .. n - 1
        /\ UNCHANGED <<pattern, context, drone>>
    BY <1>1 DEF PatternsNext, PatternsIInv
  <2>3. Sweep(pattern, context)' = n
    BY <2>2 DEF Sweep, CellsAlong, Ceil, Greater
  <2>4. patternStep' \in 0 .. n - 1
    <3> HIDE DEF n
    <3> QED
      BY <2>1, <2>2
  <2> HIDE DEF n
  <2>5. waypoint' \in NextTargets(pattern', context', drone', patternStep')
    BY <1>1, <2>2 DEF PatternsNext
  <2> QED
    BY <2>2, <2>3, <2>4, <2>5 DEF PatternsIInv
<1>2. CASE UNCHANGED patternVars
  BY <1>2 DEF patternVars, PatternsIInv
<1> QED
  BY <1>1, <1>2

\* The next centre is a scan width away at most.
LEMMA CentresAreNear ==
  ASSUME NEW from \in Nat, NEW to \in Nat, NEW scan \in Nat \ {0}, NEW a \in Nat
  PROVE  /\ Near(Centre(from, to, scan, a), Centre(from, to, scan, a + 1), Twice(scan))
         /\ Near(Centre(from, to, scan, a + 1), Centre(from, to, scan, a), Twice(scan))
<1>1. (2 * (a + 1) + 1) * scan = (2 * a + 1) * scan + 2 * scan /\ (2 * a + 1) * scan \in Nat
  OBVIOUS
<1> DEFINE u == (2 * a + 1) * scan
           v == (2 * (a + 1) + 1) * scan
<1>2. v = u + 2 * scan /\ u \in Nat
  BY <1>1
<1>3. /\ Centre(from, to, scan, a) = Lesser(Twice(from) + u, Twice(to))
      /\ Centre(from, to, scan, a + 1) = Lesser(Twice(from) + v, Twice(to))
  BY DEF Centre
<1> HIDE DEF u, v
<1>4. /\ Near(Lesser(Twice(from) + u, Twice(to)), Lesser(Twice(from) + v, Twice(to)), Twice(scan))
      /\ Near(Lesser(Twice(from) + v, Twice(to)), Lesser(Twice(from) + u, Twice(to)), Twice(scan))
  BY <1>2 DEF Near, Lesser, Twice
<1> QED
  BY <1>3, <1>4

\* One step on: the next cell of the row, or the same of the next row.
LEMMA StepsFollow ==
  ASSUME NEW cols \in Nat \ {0}, NEW rows \in Nat \ {0},
         NEW s \in 0 .. cols * rows - 1, NEW t \in 0 .. cols * rows - 1, t = s + 1
  PROVE  \/ /\ t \div cols = s \div cols
            /\ \/ Along(cols, t) = Along(cols, s) + 1
               \/ Along(cols, s) = Along(cols, t) + 1
         \/ t \div cols = (s \div cols) + 1 /\ Along(cols, t) = Along(cols, s)
<1> DEFINE q == s \div cols
           r == s % cols
<1>1. q \in Nat /\ r \in 0 .. cols - 1 /\ s = cols * q + r
  <2>1. q \in 0 .. rows - 1 /\ r \in 0 .. cols - 1 /\ s = cols * q + r
    BY StepsAre, Zenon
  <2> HIDE DEF q, r
  <2> QED
    BY <2>1
<1>2. CASE r < cols - 1
  <2>1. t = cols * q + (r + 1)
    BY <1>1
  <2>2. t \div cols = q /\ t % cols = r + 1
    <3> HIDE DEF q, r
    <3> QED
      BY <1>1, <1>2, <2>1, DividedOnce
  <2>3. /\ Along(cols, t) = IF (q % 2) = 0 THEN r + 1 ELSE cols - 1 - (r + 1)
        /\ Along(cols, s) = IF (q % 2) = 0 THEN r ELSE cols - 1 - r
    BY <2>2 DEF Along
  <2> HIDE DEF q, r
  <2>4. Along(cols, t) = Along(cols, s) + 1 \/ Along(cols, s) = Along(cols, t) + 1
    BY <1>1, <2>3
  <2> QED
    BY <2>2, <2>4 DEF q
<1>3. CASE r = cols - 1
  <2>1. t = cols * (q + 1) + 0
    <3> HIDE DEF q, r
    <3>1. cols * (q + 1) = cols * q + cols /\ cols * q \in Int
      BY <1>1
    <3> QED
      BY <1>1, <1>3, <3>1
  <2>2. t \div cols = q + 1 /\ t % cols = 0
    <3> HIDE DEF q, r
    <3> QED
      BY <1>1, <1>3, <2>1, DividedOnce
  <2>3. /\ Along(cols, t) = IF ((q + 1) % 2) = 0 THEN 0 ELSE cols - 1 - 0
        /\ Along(cols, s) = IF (q % 2) = 0 THEN r ELSE cols - 1 - r
    BY <2>2 DEF Along
  <2> HIDE DEF q, r
  <2>4. ((q + 1) % 2) = 0 <=> ~((q % 2) = 0)
    BY <1>1
  <2>5. Along(cols, t) = Along(cols, s)
    BY <1>1, <1>3, <2>3, <2>4
  <2> QED
    BY <2>2, <2>5 DEF q
<1> QED
  BY <1>1, <1>2, <1>3

LEMMA SweepIsWhole == ASSUME PatternsIInv PROVE SweepsOwnStrip
<1> SUFFICES ASSUME pattern = "PartitionedLawnmower" PROVE SweepsOwnStrip
  BY DEF SweepsOwnStrip
<1> DEFINE strip == StripOf(drone, context)
           At(step) == LawnmowerTarget(pattern, context, drone, step)
           n == Sweep(pattern, context)
           x0 == strip.from
           x1 == strip.to
           scan == context.scan
           h == context.height
           cols == CellsAlong(x1 - x0, scan)
           rows == CellsAlong(h, scan)
<1>1. /\ Whole(context) /\ pattern \in Lawnmower /\ drone \in 0 .. context.swarm - 1
      /\ patternStep \in 0 .. n - 1 /\ waypoint = At(patternStep)
      /\ RegionOf(pattern, context, drone) = strip
  BY ContextsAreWhole DEF PatternsIInv, Lawnmower, NextTargets, RegionOf
<1>2. /\ x0 \in Nat /\ x1 \in Nat /\ x0 <= x1 /\ x1 - x0 \in Nat
      /\ scan \in Nat \ {0} /\ h \in Nat
  <2>1. x0 \in Nat /\ x1 \in Nat /\ x0 <= x1
    BY <1>1, RegionIs
  <2> HIDE DEF x0, x1
  <2> QED
    BY <1>1, <2>1 DEF Whole
<1>3. cols \in Nat \ {0} /\ rows \in Nat \ {0} /\ x1 - x0 <= cols * scan /\ h <= rows * scan
  <2> HIDE DEF x0, x1, scan, h
  <2> QED
    BY <1>2, CellsCover
<1>4. ASSUME NEW k \in 0 .. n - 1
      PROVE  /\ n = cols * rows /\ k \in 0 .. cols * rows - 1
             /\ At(k) = [x |-> Centre(x0, x1, scan, Along(cols, k)), y |-> Centre(0, h, scan, k \div cols)]
             /\ At(k).x \in Twice(x0) .. Twice(x1)
  <2>1. k \in Nat /\ n \in Nat \ {0}
    BY <1>1, SweepType
  <2>2. LET s == k % (cols * rows)
        IN  /\ cols * rows = n
            /\ At(k) = [x |-> Centre(x0, x1, scan, Along(cols, s)), y |-> Centre(0, h, scan, s \div cols)]
            /\ At(k).x \in Twice(x0) .. Twice(x1)
    BY <1>1, <2>1, TargetIs
  <2> HIDE DEF cols, rows, n, At
  <2>3. k % n = k
    BY <2>1
  <2> QED
    BY <2>2, <2>3
<1> HIDE DEF strip, At, n, x0, x1, scan, h, cols, rows
<1>5. ASSUME NEW x \in Twice(x0) .. Twice(x1), NEW y \in 0 .. Twice(h)
      PROVE  \E k \in 0 .. n - 1 : Near(At(k).x, x, scan) /\ Near(At(k).y, y, scan)
  <2>1. PICK col \in 0 .. cols - 1 : Near(Centre(x0, x1, scan, col), x, scan)
    BY <1>2, <1>3, CentresCover
  <2>2. PICK row \in 0 .. rows - 1 : Near(Centre(0, h, scan, row), y, scan)
    <3>1. Twice(0) = 0 /\ 0 \in Nat /\ 0 <= h /\ h - 0 <= rows * scan
      BY <1>2, <1>3 DEF Twice
    <3>2. y \in Twice(0) .. Twice(h)
      BY <3>1
    <3> QED
      BY <1>2, <1>3, <3>1, <3>2, CentresCover
  <2>3. PICK k \in 0 .. cols * rows - 1 : Along(cols, k) = col /\ k \div cols = row
    <3>1. cols \in Nat \ {0} /\ rows \in Nat \ {0} /\ col \in 0 .. cols - 1 /\ row \in 0 .. rows - 1
      BY <1>3
    <3>2. \A a, b \in Nat \ {0} : \A i \in 0 .. a - 1, j \in 0 .. b - 1 :
            \E k \in 0 .. a * b - 1 : Along(a, k) = i /\ k \div a = j
      BY ONLY StepOf
    <3>3. \A i \in 0 .. cols - 1, j \in 0 .. rows - 1 :
            \E k \in 0 .. cols * rows - 1 : Along(cols, k) = i /\ k \div cols = j
      <4>1. cols \in Nat \ {0} /\ rows \in Nat \ {0}
        BY <3>1
      <4> QED
        BY ONLY <3>2, <4>1
    <3> QED
      BY ONLY <3>1, <3>3
  <2>4. n = cols * rows
    BY <1>1, <1>4
  <2>5. k \in 0 .. n - 1
    BY <2>4
  <2>6. At(k).x = Centre(x0, x1, scan, col) /\ At(k).y = Centre(0, h, scan, row)
    BY <1>4, <2>3, <2>5
  <2> QED
    BY <2>1, <2>2, <2>5, <2>6
<1>6. waypoint.x \in Twice(x0) .. Twice(x1)
  BY <1>1, <1>4
<1>7. ASSUME patternStep > 0
      PROVE  LET last == At(patternStep - 1)
             IN  \/ last.x = waypoint.x /\ Near(last.y, waypoint.y, Twice(scan))
                 \/ last.y = waypoint.y /\ Near(last.x, waypoint.x, Twice(scan))
  <2> DEFINE t == patternStep
             s == patternStep - 1
             a == Along(cols, s)
             b == Along(cols, t)
             q == s \div cols
             r == t \div cols
  <2>1. s \in 0 .. n - 1 /\ t \in 0 .. n - 1 /\ t = s + 1
    <3>1. n \in Nat
      BY <1>1, SweepType DEF n
    <3> QED
      BY <1>1, <1>7, <3>1
  <2> HIDE DEF s, t
  <2>2. s \in 0 .. cols * rows - 1 /\ t \in 0 .. cols * rows - 1
    BY <1>4, <2>1
  <2>3. a \in Nat /\ b \in Nat /\ q \in Nat /\ r \in Nat
    <3>1. a \in 0 .. cols - 1 /\ b \in 0 .. cols - 1 /\ q \in 0 .. rows - 1 /\ r \in 0 .. rows - 1
      BY <1>3, <2>2, StepsAre
    <3> QED
      BY <3>1
  <2>4. \/ r = q /\ (b = a + 1 \/ a = b + 1)
        \/ r = q + 1 /\ b = a
    BY <1>3, <2>1, <2>2, StepsFollow
  <2>5. /\ At(s).x = Centre(x0, x1, scan, a) /\ At(s).y = Centre(0, h, scan, q)
        /\ waypoint.x = Centre(x0, x1, scan, b) /\ waypoint.y = Centre(0, h, scan, r)
    <3>1. waypoint = At(t)
      BY <1>1 DEF t
    <3> QED
      BY <1>4, <2>1, <3>1
  <2> HIDE DEF a, b, q, r
  <2>6. \/ At(s).x = waypoint.x /\ Near(At(s).y, waypoint.y, Twice(scan))
        \/ At(s).y = waypoint.y /\ Near(At(s).x, waypoint.x, Twice(scan))
    <3>1. CASE r = q /\ b = a + 1
      BY <1>2, <2>3, <2>5, <3>1, CentresAreNear
    <3>2. CASE r = q /\ a = b + 1
      BY <1>2, <2>3, <2>5, <3>2, CentresAreNear
    <3>3. CASE r = q + 1 /\ b = a
      BY <1>2, <2>3, <2>5, <3>3, CentresAreNear
    <3> QED
      BY <2>4, <3>1, <3>2, <3>3
  <2> QED
    BY <2>6 DEF s
<1> QED
  BY <1>5, <1>6, <1>7 DEF SweepsOwnStrip, strip, At, n, x0, x1, scan, h

LEMMA PatternsKeepIInv == PatternsSpec => []PatternsIInv
  BY PatternsInitIInv, PatternsNextIInv, PTL DEF PatternsSpec

-----------------------------------------------------------------------------
(* An episode: what is counted of the places everybody was at               *)

EvalPlace == [x : Int, y : Int]

Flights == /\ flight \in DOMAIN EvalSteps /\ area \in EvalContexts
           /\ flown \in Seq([Flyer -> EvalPlace])
           /\ \A k \in DOMAIN flown, d \in Flyer :
                flown[k][d] \in NextTargets(flight, area, d, k - 1)

\* The ring is no longer than what was flown.
RingFits == visited \in Seq(EvalPlace) /\ Len(visited) <= Len(flown) * area.swarm

\* Who marked a cell, and when.
Marks(c, k, d) == k \in DOMAIN flown /\ d \in Flyer /\ CellOf(flown[k][d], area) = c

CountsAreMarks ==
  /\ coverCount \in [Cells(area) -> Nat]
  /\ \A c \in Cells(area) :
       /\ coverCount[c] = 0 <=> \A k, d : ~ Marks(c, k, d)
       /\ coverCount[c] > 1 => \E k, l, d, e : Marks(c, k, d) /\ Marks(c, l, e) /\ (k # l \/ d # e)

ApartOrTogether ==
  /\ collisions \in Nat
  /\ flight = "PartitionedLawnmower" /\ area.width \div area.swarm >= MinEvalSeparation
     => collisions = 0
  /\ flight = "Boustrophedon" =>
       /\ 2 * collisions = Len(flown) * (area.swarm * (area.swarm - 1))
       /\ ~sighting.gdop

EpisodeIInv == /\ Flights /\ FirstSightCounts /\ RingFits /\ RingIsNewest
               /\ CountsAreMarks /\ ApartOrTogether

LEMMA AreasAreWhole ==
  ASSUME NEW a \in EvalContexts
  PROVE  /\ Whole(a) /\ a.swarm \in Nat \ {0} /\ a.width \in Nat \ {0}
         /\ a.height \in Nat \ {0} /\ a.scan \in Nat \ {0} /\ a.width % a.swarm = 0
<1>1. a \in [swarm : Nat \ {0}, width : Nat \ {0}, height : Nat \ {0}, scan : Nat \ {0}]
  BY EvalAssumption
<1> QED
  BY <1>1, EvalAssumption DEF Whole

LEMMA TargetsAre ==
  ASSUME NEW p \in FlightPattern, NEW c, Whole(c), NEW d \in 0 .. c.swarm - 1, NEW k \in Nat,
         NEW t \in NextTargets(p, c, d, k)
  PROVE  /\ t \in EvalPlace
         /\ p \in Lawnmower => t = LawnmowerTarget(p, c, d, k)
<1>1. \A i, l \in Int : Clamped(i, l) \in Int
  BY DEF Clamped
<1>2. Twice(c.width) \in Int /\ Twice(c.height) \in Int /\ c.width \in Int /\ c.height \in Int
  BY DEF Twice, Whole
<1>3. CASE p \in Lawnmower
  <2> DEFINE region == RegionOf(p, c, d)
             u == LawnmowerTarget(p, c, d, k)
  <2>1. t = u
    BY <1>3 DEF NextTargets
  <2>2. \E i, j : /\ u = [x |-> i, y |-> j]
                  /\ u.x \in Twice(region.from) .. Twice(region.to) /\ u.y \in 0 .. Twice(c.height)
    BY <1>3, TargetIs
  <2>3. u.x \in Int /\ u.y \in Int
    <3>1. region.from \in Nat /\ region.to \in Nat
      BY RegionIs
    <3> HIDE DEF u, region
    <3> QED
      BY <1>2, <2>2, <3>1 DEF Twice
  <2> HIDE DEF u
  <2>4. u \in EvalPlace
    BY <2>2, <2>3 DEF EvalPlace
  <2> QED
    BY <2>1, <2>4 DEF u
<1>4. CASE p \notin Lawnmower
  <2>1. t \in HeuristicTargets(c)
    BY <1>4 DEF NextTargets
  <2>2. PICK i \in {-1, c.width, Twice(c.width) + 1}, j \in {-1, c.height, Twice(c.height) + 1} :
          t = ClampToArea([x |-> i, y |-> j], c)
    BY <2>1 DEF HeuristicTargets
  <2>3. i \in Int /\ j \in Int
    BY <1>2
  <2>4. t = [x |-> Clamped(i, Twice(c.width)), y |-> Clamped(j, Twice(c.height))]
    BY <2>2 DEF ClampToArea
  <2> QED
    BY <1>1, <1>2, <1>4, <2>3, <2>4 DEF EvalPlace
<1> QED
  BY <1>3, <1>4

\* A step: everybody is somewhere.
Stepped(there) ==
  /\ there \in [Flyer -> EvalPlace]
  /\ \A d \in Flyer : there[d] \in NextTargets(flight, area, d, Len(flown))
  /\ coverCount' = CoverAfter(there)
  /\ visited' = Newest(visited \o InTurn(there))
  /\ collisions' = collisions + Cardinality(TooClose(there))
  /\ sighting' = Detect(there, Len(flown) + 1)
  /\ flown' = Append(flown, there)
  /\ UNCHANGED <<flight, area>>

LEMMA FlightsAre ==
  ASSUME Flights
  PROVE  /\ Len(flown) \in Nat /\ DOMAIN flown = 1 .. Len(flown)
         /\ Whole(area) /\ flight \in FlightPattern /\ Flyer = 0 .. area.swarm - 1
         /\ area.swarm \in Nat \ {0} /\ IsFiniteSet(Flyer) /\ 0 \in Flyer
<1>1. area \in EvalContexts /\ flown \in Seq([Flyer -> EvalPlace])
  BY DEF Flights
<1>2. area.swarm \in Nat \ {0} /\ Whole(area)
  BY <1>1, AreasAreWhole
<1>3. IsFiniteSet(Flyer) /\ 0 \in Flyer
  <2>1. area.swarm - 1 \in Int /\ 0 \in Int /\ Flyer = 0 .. area.swarm - 1 /\ area.swarm - 1 >= 0
    BY <1>2 DEF Flyer
  <2>2. IsFiniteSet(0 .. area.swarm - 1)
    BY <2>1, FS_Interval
  <2> QED
    BY <2>1, <2>2
<1> QED
  BY <1>1, <1>2, <1>3, EvalAssumption DEF Flights, Flyer

LEMMA StepIs == ASSUME Flights, EpisodeStep PROVE \E there : Stepped(there)
<1> DEFINE step == Len(flown) + 1
<1>1. PICK there \in [Flyer -> UNION {NextTargets(flight, area, d, step - 1) : d \in Flyer}] :
        /\ \A d \in Flyer : there[d] \in NextTargets(flight, area, d, step - 1)
        /\ coverCount' = CoverAfter(there)
        /\ visited' = Newest(visited \o InTurn(there))
        /\ collisions' = collisions + Cardinality(TooClose(there))
        /\ sighting' = Detect(there, step)
        /\ flown' = Append(flown, there)
  BY DEF EpisodeStep
<1>2. step - 1 = Len(flown) /\ Len(flown) \in Nat
  BY FlightsAre
<1>3. \A d \in Flyer : there[d] \in EvalPlace
  <2> SUFFICES ASSUME NEW d \in Flyer PROVE there[d] \in EvalPlace
    OBVIOUS
  <2>1. there[d] \in NextTargets(flight, area, d, Len(flown)) /\ d \in 0 .. area.swarm - 1
    BY <1>1, <1>2, FlightsAre
  <2> QED
    BY <1>2, <2>1, FlightsAre, TargetsAre
<1>4. there \in [Flyer -> EvalPlace]
  BY <1>1, <1>3
<1>5. UNCHANGED <<flight, area>>
  BY DEF EpisodeStep
<1> QED
  BY <1>1, <1>2, <1>4, <1>5 DEF Stepped

LEMMA FlownAppends ==
  ASSUME Flights, NEW there, Stepped(there)
  PROVE  /\ Len(flown') = Len(flown) + 1 /\ DOMAIN flown' = DOMAIN flown \cup {Len(flown) + 1}
         /\ Len(flown) + 1 \notin DOMAIN flown
         /\ flown'[Len(flown) + 1] = there
         /\ \A k \in DOMAIN flown : flown'[k] = flown[k]
         /\ flown' \in Seq([Flyer -> EvalPlace]) /\ Flyer' = Flyer
         /\ DOMAIN flown = 1 .. Len(flown) /\ DOMAIN flown' = 1 .. Len(flown) + 1
         /\ Len(flown) \in Nat
<1>1. flown \in Seq([Flyer -> EvalPlace]) /\ there \in [Flyer -> EvalPlace]
      /\ flown' = Append(flown, there) /\ area' = area
  BY DEF Flights, Stepped
<1>2. Flyer' = Flyer
  BY <1>1 DEF Flyer
<1> HIDE DEF Flyer
<1> QED
  BY <1>1, <1>2

LEMMA FlightsIInv == ASSUME Flights, NEW there, Stepped(there) PROVE Flights'
<1>1. /\ flown' \in Seq([Flyer' -> EvalPlace])
      /\ flight' = flight /\ area' = area /\ Flyer' = Flyer
  BY FlownAppends DEF Stepped
<1>2. ASSUME NEW k \in DOMAIN flown', NEW d \in Flyer
      PROVE  flown'[k][d] \in NextTargets(flight, area, d, k - 1)
  <2>1. CASE k \in DOMAIN flown
    BY <2>1, FlownAppends DEF Flights
  <2>2. CASE k = Len(flown) + 1
    <3>1. k - 1 = Len(flown)
      BY <2>2, FlownAppends
    <3> QED
      BY <2>2, <3>1, FlownAppends DEF Stepped
  <2> QED
    BY <2>1, <2>2, FlownAppends
<1> QED
  BY <1>1, <1>2 DEF Flights

-----------------------------------------------------------------------------
(* The first sight *)

LEMMA LeastIs ==
  ASSUME NEW S \in SUBSET Nat, S # {}
  PROVE  /\ Min(S) \in S /\ \A k \in S : Min(S) <= k
         /\ \A m \in S : (\A k \in S : m <= k) => Min(S) = m
<1>1. PICK m \in S : \A k \in S : ~ (<<k, m>> \in OpToRel(<, Nat))
  <2>1. S \subseteq Nat
    OBVIOUS
  <2> QED
    BY <2>1, NatLessThanWellFounded, WFMin
<1>2. \A k \in S : m <= k
  <2> SUFFICES ASSUME NEW k \in S, k < m PROVE FALSE
    OBVIOUS
  <2>1. k \in Nat /\ m \in Nat
    OBVIOUS
  <2>2. <<k, m>> \in OpToRel(<, Nat)
    BY <2>1 DEF OpToRel
  <2>3. ~ (<<k, m>> \in OpToRel(<, Nat))
    BY <1>1
  <2> QED
    BY <2>2, <2>3
<1>3. Min(S) \in S /\ \A k \in S : Min(S) <= k
  BY <1>2 DEF Min
<1>4. ASSUME NEW l \in S, \A k \in S : l <= k PROVE Min(S) = l
  <2>1. Min(S) <= l /\ l <= Min(S) /\ l \in Nat /\ Min(S) \in Nat
    BY <1>3, <1>4
  <2> QED
    BY <2>1
<1> QED
  BY <1>3, <1>4

\* The first sight, of the area and of where everybody was.
Seers(a, v, places) == {d \in 0 .. a.swarm - 1 : Distance2(places[d], v) <= Square2(Twice(a.scan))}
SeenFrom(a, places) == {k \in DOMAIN EvalVictim : Seers(a, EvalVictim[k], places) # {}}
SightFrom(a, places, step) ==
  IF SeenFrom(a, places) = {} THEN NotSeen
  ELSE LET v == EvalVictim[Min(SeenFrom(a, places))]
           seers == Seers(a, v, places)
       IN  [step |-> step, views |-> Cardinality(seers), gdop |-> GdopDefined(seers, v, places)]
Sights(f, a) == {k \in DOMAIN f : SeenFrom(a, f[k]) # {}}
FirstSight(f, a) == IF Sights(f, a) = {} THEN NotSeen
                    ELSE SightFrom(a, f[Min(Sights(f, a))], Min(Sights(f, a)))

LEMMA SightsAre ==
  /\ FirstSightCounts <=> sighting = FirstSight(flown, area)
  /\ FirstSightCounts' <=> sighting' = FirstSight(flown', area')
  /\ \A places, k : Detect(places, k) = IF sighting = NotSeen THEN SightFrom(area, places, k) ELSE sighting
<1>1. FirstSightCounts <=> sighting = FirstSight(flown, area)
  BY Zenon DEF FirstSightCounts, FirstSight, Sights, SeenFrom, Seers, SightFrom, Sighted, Seen,
               Contributors, Flyer
<1>2. FirstSightCounts' <=> sighting' = FirstSight(flown', area')
  BY Zenon DEF FirstSightCounts, FirstSight, Sights, SeenFrom, Seers, SightFrom, Sighted, Seen,
               Contributors, Flyer
<1>3. ASSUME NEW places, NEW k
      PROVE  Detect(places, k) = IF sighting = NotSeen THEN SightFrom(area, places, k) ELSE sighting
  BY Zenon DEF Detect, SeenFrom, Seers, SightFrom, Sighted, Seen, Contributors, Flyer
<1> QED
  BY <1>1, <1>2, <1>3

LEMMA SightIInv ==
  ASSUME Flights, FirstSightCounts, NEW there, Stepped(there)
  PROVE  FirstSightCounts'
<1> DEFINE n == Len(flown) + 1
           was == Sights(flown, area)
           is == Sights(flown', area)
<1>1. sighting' = IF sighting = NotSeen THEN SightFrom(area, there, n) ELSE sighting
  BY SightsAre DEF Stepped
<1>2. area' = area
  BY DEF Stepped
<1>3. sighting = IF was = {} THEN NotSeen ELSE SightFrom(area, flown[Min(was)], Min(was))
  BY SightsAre DEF FirstSight
<1>4. is = was \cup (IF SeenFrom(area, there) = {} THEN {} ELSE {n})
  BY FlownAppends DEF Sights
<1>5. was \in SUBSET (1 .. n - 1) /\ n \in Nat /\ n >= 1 /\ n \notin DOMAIN flown
  BY FlownAppends DEF Sights
<1>6. \A k \in was : SeenFrom(area, flown[k]) # {} /\ flown'[k] = flown[k]
  BY FlownAppends DEF Sights
<1>7. flown'[n] = there
  BY FlownAppends
<1> HIDE DEF was, is
<1>8. SUFFICES sighting' = IF is = {} THEN NotSeen ELSE SightFrom(area, flown'[Min(is)], Min(is))
  BY <1>2, SightsAre DEF FirstSight, is
<1>9. CASE was = {}
  <2>1. sighting' = SightFrom(area, there, n)
    BY <1>1, <1>3, <1>9
  <2>2. CASE SeenFrom(area, there) = {}
    BY <1>4, <1>9, <2>1, <2>2 DEF SightFrom
  <2>3. CASE SeenFrom(area, there) # {}
    <3>1. {n} \in SUBSET Nat /\ {n} # {} /\ n \in {n}
      BY <1>5
    <3>2. Min({n}) \in {n}
      BY <3>1, LeastIs
    <3>3. is = {n} /\ Min(is) = n
      BY <1>4, <1>9, <2>3, <3>2
    <3> QED
      BY <1>7, <2>1, <3>3
  <2> QED
    BY <2>2, <2>3
<1>10. CASE was # {}
  <2> DEFINE m == Min(was)
  <2>1. was \in SUBSET Nat
    BY <1>5
  <2>2. m \in was /\ \A k \in was : m <= k
    BY <1>10, <2>1, LeastIs
  <2> HIDE DEF m
  <2>3. m \in 1 .. n - 1 /\ SeenFrom(area, flown[m]) # {} /\ flown'[m] = flown[m]
    BY <1>5, <1>6, <2>2
  <2>4. SightFrom(area, flown[m], m) # NotSeen
    <3>1. SightFrom(area, flown[m], m).step = m
      BY <2>3 DEF SightFrom
    <3>2. NotSeen.step = 0
      BY DEF NotSeen
    <3>3. m # 0
      BY <1>5, <2>3
    <3> QED
      BY <3>1, <3>2, <3>3
  <2>5. sighting' = SightFrom(area, flown[m], m)
    BY <1>1, <1>3, <1>10, <2>4 DEF m
  <2>6. Min(is) = m
    <3>1. ASSUME NEW k \in is PROVE m <= k /\ k \in Nat
      <4>1. CASE k \in was
        BY <1>5, <2>2, <4>1
      <4>2. CASE k = n
        <5> HIDE DEF n
        <5> QED
          BY <1>5, <2>3, <4>2
      <4> QED
        BY <1>4, <4>1, <4>2
    <3>2. is \in SUBSET Nat /\ m \in is /\ is # {}
      BY <1>4, <2>2, <3>1
    <3> QED
      BY <3>1, <3>2, LeastIs
  <2>7. is # {}
    BY <1>4, <1>10
  <2> QED
    BY <2>3, <2>5, <2>6, <2>7
<1> QED
  BY <1>9, <1>10

-----------------------------------------------------------------------------
(* The ring of places *)

LEMMA RingIInv ==
  ASSUME Flights, RingFits, RingIsNewest, NEW there, Stepped(there)
  PROVE  RingFits' /\ RingIsNewest'
<1> DEFINE n == area.swarm
           s == visited \o InTurn(there)
           lv == Len(visited)
           lf == Len(flown)
           l == lv + n
           off == Greater(l - MaxVisited, 0)
<1>1. /\ n \in Nat \ {0} /\ lf \in Nat /\ area' = area /\ visited' = Newest(s)
      /\ there \in [Flyer -> EvalPlace] /\ Flyer = 0 .. n - 1
      /\ Len(flown') = lf + 1
  BY FlightsAre, FlownAppends DEF Stepped
<1>2. visited \in Seq(EvalPlace) /\ lv \in Nat /\ lv <= lf * n /\ lf * n \in Nat
  BY <1>1 DEF RingFits
<1>3. /\ InTurn(there) \in Seq(EvalPlace) /\ Len(InTurn(there)) = n
      /\ \A i \in 1 .. n : InTurn(there)[i] = there[i - 1]
  <2> DEFINE turn == [k \in 1 .. n |-> there[k - 1]]
  <2>1. \A i \in 1 .. n : there[i - 1] \in EvalPlace
    BY <1>1
  <2>2. turn \in Seq(EvalPlace) /\ Len(turn) = n
    <3>1. n \in Nat
      BY <1>1
    <3> QED
      BY ONLY <2>1, <3>1
  <2>3. InTurn(there) = turn
    BY DEF InTurn
  <2> QED
    BY <2>2, <2>3
<1> HIDE DEF n, lv, lf
<1>4. /\ s \in Seq(EvalPlace) /\ Len(s) = l
      /\ \A j \in 1 .. lv : s[j] = visited[j]
      /\ \A j \in lv + 1 .. l : s[j] = there[j - lv - 1]
  <2>1. s \in Seq(EvalPlace) /\ Len(s) = l
    BY <1>2, <1>3, ConcatProperties DEF lv
  <2>2. \A j \in 1 .. lv : s[j] = visited[j]
    BY <1>1, <1>2, <1>3 DEF lv
  <2>3. ASSUME NEW j \in lv + 1 .. l PROVE s[j] = there[j - lv - 1]
    <3>1. j - lv \in 1 .. n /\ j \in 1 .. l
      BY <1>1, <1>2
    <3>2. s[j] = InTurn(there)[j - lv]
      BY <1>1, <1>2, <1>3, <3>1 DEF lv
    <3> QED
      BY <1>3, <3>1, <3>2
  <2> QED
    BY <2>1, <2>2, <2>3
<1>5. off \in 0 .. l
  BY <1>1, <1>2, EvalAssumption DEF Greater
<1> HIDE DEF s, l, off
<1>6. /\ visited' \in Seq(EvalPlace) /\ Len(visited') = l - off
      /\ \A k \in 1 .. l - off : visited'[k] = s[k + off]
  <2>1. visited' = SubSeq(s, off + 1, l)
    BY <1>1, <1>4 DEF Newest, off
  <2>2. l \in Nat /\ off + 1 \in 1 .. l + 1
    BY <1>1, <1>2, <1>5 DEF l
  <2> QED
    BY <1>4, <1>5, <2>1, <2>2, SubSeqProperties
<1>7. RingFits'
  <2>1. (lf + 1) * n = lf * n + n
    BY <1>1
  <2> DEFINE z == lf * n
  <2> HIDE DEF z
  <2>2. l - off <= (lf + 1) * n
    BY <1>1, <1>2, <1>5, <2>1 DEF z, l
  <2> QED
    BY <1>1, <1>6, <2>2 DEF RingFits, n
<1>8. ASSUME NEW j \in 1 .. l
      PROVE  s[j] = flown'[lf + 1 - ((l - j) \div n)][n - 1 - ((l - j) % n)]
  <2>1. CASE j > lv
    <3> DEFINE r == l - j
    <3>1. r \in 0 .. n - 1 /\ j \in lv + 1 .. l /\ n - 1 - r = j - lv - 1
      BY <1>1, <1>2, <2>1 DEF l
    <3>2. (n * 0 + r) \div n = 0 /\ (n * 0 + r) % n = r
      <4> HIDE DEF r
      <4> QED
        BY <1>1, <3>1, DividedOnce
    <3>3. n * 0 + r = r
      BY <1>1, <3>1
    <3> HIDE DEF r
    <3>4. s[j] = there[n - 1 - r] /\ r \div n = 0 /\ r % n = r
      BY <1>4, <3>1, <3>2, <3>3
    <3>5. flown'[lf + 1] = there
      BY FlownAppends DEF lf
    <3>6. lf + 1 - 0 = lf + 1
      BY <1>1
    <3> QED
      BY <3>4, <3>5, <3>6 DEF r
  <2>2. CASE j <= lv
    <3> DEFINE b == lv - j
               q == b \div n
               r == b % n
    <3>1. b \in Nat /\ b < lv /\ j \in 1 .. lv
      BY <1>1, <1>2, <2>2 DEF l
    <3>2. q \in Int /\ r \in 0 .. n - 1 /\ n * q \in Int /\ b = n * q + r
      <4> HIDE DEF b
      <4> QED
        BY <1>1, <3>1, Divided
    <3>3. s[j] = flown[lf - q][n - 1 - r]
      <4>1. s[j] = visited[j] /\ j \in DOMAIN visited
        BY <1>2, <1>4, <3>1 DEF lv
      <4> QED
        BY <4>1 DEF RingIsNewest, lv, lf, n
    <3> HIDE DEF b, q, r
    <3>4. n * (q + 1) + r = l - j /\ q + 1 \in Int
      <4>1. n * (q + 1) = n * q + n
        BY <1>1, <3>2
      <4> QED
        BY <1>1, <1>2, <3>1, <3>2, <4>1 DEF l, b
    <3>5. (l - j) \div n = q + 1 /\ (l - j) % n = r
      <4>1. n \in Int /\ n > 0
        BY <1>1
      <4>2. (n * (q + 1) + r) \div n = q + 1 /\ (n * (q + 1) + r) % n = r
        BY <3>2, <3>4, <4>1, DividedOnce
      <4> QED
        BY <3>4, <4>2
    <3>6. q >= 0
      <4>1. ASSUME q <= -1 PROVE FALSE
        <5>1. -1 - q \in Nat /\ n * q = -n - n * (-1 - q)
          BY <1>1, <3>2, <4>1
        <5> DEFINE i == -1 - q
        <5>2. i \in Nat
          BY <5>1
        <5> HIDE DEF i
        <5>3. n * i \in Nat
          BY <1>1, <5>2
        <5>4. n * q = -n - n * i
          BY <5>1 DEF i
        <5> QED
          BY <1>1, <3>1, <3>2, <5>3, <5>4
      <4> QED
        BY <3>2, <4>1
    <3>7. q <= lf - 1
      <4>1. ASSUME q >= lf PROVE FALSE
        <5> DEFINE i == q - lf
        <5>1. i \in Nat
          BY <1>1, <3>2, <4>1
        <5>2. n * q = lf * n + n * i
          BY <1>1, <3>2
        <5> HIDE DEF i
        <5>3. n * i \in Nat
          BY <1>1, <5>1
        <5> QED
          BY <1>1, <1>2, <3>1, <3>2, <5>2, <5>3
      <4> QED
        BY <1>1, <3>2, <4>1
    <3>8. lf - q \in 1 .. lf /\ lf + 1 - (q + 1) = lf - q
      BY <1>1, <3>2, <3>6, <3>7
    <3>9. flown'[lf - q] = flown[lf - q]
      BY <3>8, FlownAppends DEF lf
    <3> QED
      BY <3>3, <3>5, <3>8, <3>9
  <2> QED
    BY <1>1, <1>2, <2>1, <2>2 DEF l
<1>9. ASSUME NEW k \in DOMAIN visited'
      PROVE  LET back == Len(visited') - k
                 step == Len(flown') - (back \div area'.swarm)
             IN  visited'[k] = flown'[step][area'.swarm - 1 - (back % area'.swarm)]
  <2>1. k \in 1 .. l - off /\ l \in Int /\ off \in Int
    BY <1>1, <1>2, <1>5, <1>6 DEF l
  <2>2. k + off \in 1 .. l /\ l - (k + off) = (l - off) - k
    BY <1>5, <2>1
  <2>3. visited'[k] = flown'[lf + 1 - (((l - off) - k) \div n)][n - 1 - (((l - off) - k) % n)]
    BY <1>6, <1>8, <2>1, <2>2
  <2> DEFINE b == (l - off) - k
             q == b \div n
             r == b % n
  <2>4. visited'[k] = flown'[lf + 1 - q][n - 1 - r]
    BY <2>3
  <2>5. Len(visited') - k = b /\ area'.swarm = n /\ Len(flown') = lf + 1
    BY <1>1, <1>6 DEF n
  <2>6. ASSUME NEW u, NEW v, NEW w, u = lf + 1, v = n, w = b
        PROVE  visited'[k] = flown'[u - (w \div v)][v - 1 - (w % v)]
    <3>1. b \in Int /\ n \in Int /\ n > 0 /\ lf \in Int
      BY <1>1, <2>1
    <3> HIDE DEF b
    <3> QED
      BY <2>4, <2>6, <3>1
  <2> HIDE DEF b, q, r
  <2> QED
    BY <2>5, <2>6, Zenon
<1> QED
  BY <1>7, <1>9 DEF RingIsNewest

-----------------------------------------------------------------------------
(* The counts of the cells *)

\* One at least, and two where more than one are counted.
LEMMA HowMany ==
  ASSUME NEW S, IsFiniteSet(S)
  PROVE  /\ Cardinality(S) \in Nat
         /\ Cardinality(S) = 0 <=> S = {}
         /\ Cardinality(S) > 1 => \E x, y \in S : x # y
<1>1. Cardinality(S) \in Nat
  BY FS_CardinalityType
<1>2. Cardinality(S) = 0 <=> S = {}
  BY FS_EmptySet
<1>3. ASSUME Cardinality(S) > 1 PROVE \E x, y \in S : x # y
  <2>1. S # {}
    BY <1>1, <1>2, <1>3
  <2>2. PICK x \in S : TRUE
    BY <2>1
  <2>3. S # {x}
    <3>1. Cardinality({x}) = 1
      BY FS_Singleton
    <3> QED
      BY <1>3, <3>1
  <2> QED
    BY <2>2, <2>3
<1> QED
  BY <1>1, <1>2, <1>3

LEMMA MarksIInv ==
  ASSUME Flights, CountsAreMarks, NEW there, Stepped(there)
  PROVE  CountsAreMarks'
<1> DEFINE n == Len(flown) + 1
           new(c) == {d \in Flyer : CellOf(there[d], area) = c}
           is(c, k, d) == k \in DOMAIN flown' /\ d \in Flyer /\ CellOf(flown'[k][d], area) = c
<1>1. area' = area /\ Flyer' = Flyer /\ coverCount' = CoverAfter(there)
  BY FlownAppends DEF Stepped
<1>2. coverCount \in [Cells(area) -> Nat]
  BY DEF CountsAreMarks
<1>3. /\ DOMAIN flown' = DOMAIN flown \cup {n} /\ n \notin DOMAIN flown
      /\ flown'[n] = there /\ \A k \in DOMAIN flown : flown'[k] = flown[k]
  BY FlownAppends
<1> HIDE DEF n
<1>4. ASSUME NEW c \in Cells(area)
      PROVE  /\ coverCount'[c] \in Nat
             /\ coverCount'[c] = 0 <=> \A k, d : ~ is(c, k, d)
             /\ coverCount'[c] > 1 => \E k, l, d, e : is(c, k, d) /\ is(c, l, e) /\ (k # l \/ d # e)
  <2> DEFINE N == new(c)
             p == Cardinality(N)
             v == coverCount[c]
  <2>1. N \in SUBSET Flyer /\ IsFiniteSet(N)
    <3>1. N \in SUBSET Flyer
      OBVIOUS
    <3> HIDE DEF N
    <3> QED
      BY <3>1, FlightsAre, FS_Subset
  <2>2. p \in Nat /\ (p = 0 <=> N = {}) /\ (p > 1 => \E x, y \in N : x # y)
    <3> HIDE DEF N
    <3> QED
      BY <2>1, HowMany
  <2>3. /\ v \in Nat /\ (v = 0 <=> \A k, d : ~ Marks(c, k, d))
        /\ v > 1 => \E k, l, d, e : Marks(c, k, d) /\ Marks(c, l, e) /\ (k # l \/ d # e)
    BY <1>2 DEF CountsAreMarks
  <2>4. coverCount'[c] = v + p
    BY <1>1 DEF CoverAfter
  <2>5. \A k, d : Marks(c, k, d) => is(c, k, d) /\ k # n
    BY <1>3 DEF Marks
  <2>6. \A d \in N : is(c, n, d)
    BY <1>3
  <2>7. \A k, d : is(c, k, d) => Marks(c, k, d) \/ d \in N
    BY <1>3 DEF Marks
  <2> HIDE DEF N, p, v, is
  <2>8. coverCount'[c] = 0 <=> \A k, d : ~ is(c, k, d)
    <3>1. v + p = 0 <=> v = 0 /\ p = 0
      BY <2>2, <2>3
    <3>2. (\A k, d : ~ is(c, k, d)) <=> (\A k, d : ~ Marks(c, k, d)) /\ N = {}
      BY <2>5, <2>6, <2>7
    <3> QED
      BY <2>2, <2>3, <2>4, <3>1, <3>2
  <2>9. ASSUME v + p > 1
        PROVE  \E k, l, d, e : is(c, k, d) /\ is(c, l, e) /\ (k # l \/ d # e)
    <3>1. CASE v > 1
      BY <2>3, <2>5, <3>1
    <3>2. CASE p > 1
      BY <2>2, <2>6, <3>2
    <3>3. CASE v = 1 /\ p = 1
      <4>1. PICK k, d : Marks(c, k, d)
        BY <2>3, <3>3
      <4>2. PICK e \in N : TRUE
        BY <2>2, <3>3
      <4> QED
        BY <2>5, <2>6, <4>1, <4>2
    <3> QED
      BY <2>2, <2>3, <2>9, <3>1, <3>2, <3>3
  <2> QED
    BY <2>2, <2>3, <2>4, <2>8, <2>9
<1>5. coverCount' \in [Cells(area) -> Nat]
  BY <1>1, <1>4 DEF CoverAfter
<1>6. CountsAreMarks' <=>
        /\ coverCount' \in [Cells(area) -> Nat]
        /\ \A c \in Cells(area) :
             /\ coverCount'[c] = 0 <=> \A k, d : ~ is(c, k, d)
             /\ coverCount'[c] > 1 => \E k, l, d, e : is(c, k, d) /\ is(c, l, e) /\ (k # l \/ d # e)
  BY <1>1 DEF CountsAreMarks, Marks
<1> HIDE DEF is
<1> QED
  BY <1>4, <1>5, <1>6

-----------------------------------------------------------------------------
(* Who is too close to whom *)

PairsBelow(n) == {pair \in (0 .. n - 1) \X (0 .. n - 1) : pair[1] < pair[2]}

LEMMA PairsAre ==
  ASSUME NEW n \in Nat
  PROVE  IsFiniteSet(PairsBelow(n)) /\ 2 * Cardinality(PairsBelow(n)) = n * (n - 1)
<1> DEFINE P == {k \in Nat : /\ IsFiniteSet(PairsBelow(k))
                             /\ 2 * Cardinality(PairsBelow(k)) = k * (k - 1)}
<1>1. 0 \in P
  <2>1. PairsBelow(0) = {}
    BY DEF PairsBelow
  <2> QED
    BY <2>1, FS_EmptySet
<1>2. ASSUME NEW k \in Nat, k \in P PROVE k + 1 \in P
  <2> DEFINE A == PairsBelow(k)
             B == (0 .. k - 1) \X {k}
             a == Cardinality(A)
  <2>1. PairsBelow(k + 1) = A \cup B
    <3>1. ASSUME NEW pair \in PairsBelow(k + 1) PROVE pair \in A \cup B
      <4>1. PICK i \in 0 .. k, j \in 0 .. k : pair = <<i, j>> /\ i < j
        BY <3>1 DEF PairsBelow
      <4>2. i \in 0 .. k - 1 /\ (j = k \/ j \in 0 .. k - 1)
        BY <4>1
      <4> QED
        BY <4>1, <4>2 DEF PairsBelow
    <3>2. ASSUME NEW pair \in A \cup B PROVE pair \in PairsBelow(k + 1)
      <4>1. PICK i \in 0 .. k, j \in 0 .. k : pair = <<i, j>> /\ i < j
        BY <3>2 DEF PairsBelow
      <4>2. (k + 1) - 1 = k
        OBVIOUS
      <4> QED
        BY <4>1, <4>2 DEF PairsBelow
    <3> QED
      BY <3>1, <3>2
  <2>2. A \cap B = {}
    BY DEF PairsBelow
  <2>3. IsFiniteSet(A) /\ 2 * a = k * (k - 1)
    BY <1>2
  <2>4. IsFiniteSet(B) /\ Cardinality(B) = k
    <3>1. IsFiniteSet(0 .. k - 1) /\ Cardinality(0 .. k - 1) = k
      <4>1. 0 \in Int /\ k - 1 \in Int
        OBVIOUS
      <4>2. /\ IsFiniteSet(0 .. k - 1)
            /\ Cardinality(0 .. k - 1) = IF 0 > k - 1 THEN 0 ELSE k - 1 - 0 + 1
        BY <4>1, FS_Interval
      <4> QED
        BY <4>2
    <3>2. IsFiniteSet({k}) /\ Cardinality({k}) = 1
      BY FS_Singleton
    <3>3. IsFiniteSet(B) /\ Cardinality(B) = Cardinality(0 .. k - 1) * Cardinality({k})
      BY <3>1, <3>2, FS_Product
    <3> QED
      BY <3>1, <3>2, <3>3
  <2>5. a \in Nat
    BY <2>3, FS_CardinalityType
  <2> HIDE DEF A, B
  <2>6. /\ IsFiniteSet(A \cup B)
        /\ Cardinality(A \cup B) = a + k
    <3>1. Cardinality(A \cup B) = Cardinality(A) + Cardinality(B) - Cardinality(A \cap B)
      BY <2>3, <2>4, FS_Union
    <3>2. Cardinality(A \cap B) = 0
      BY <2>2, FS_EmptySet
    <3>3. IsFiniteSet(A \cup B)
      BY <2>3, <2>4, FS_Union
    <3> QED
      BY <2>4, <2>5, <3>1, <3>2, <3>3
  <2> HIDE DEF a
  <2>7. 2 * (a + k) = (k + 1) * ((k + 1) - 1)
    <3>1. (k + 1) * ((k + 1) - 1) = k * (k - 1) + 2 * k
      OBVIOUS
    <3> DEFINE z == k * (k - 1)
    <3>2. z \in Int
      OBVIOUS
    <3> HIDE DEF z
    <3> QED
      BY <2>3, <2>5, <3>1, <3>2 DEF z
  <2> QED
    BY <2>1, <2>6, <2>7
<1> HIDE DEF P
<1>4. \A k \in Nat : k \in P
  BY <1>1, <1>2, SuccessorsReachAll
<1> QED
  BY <1>4 DEF P

LEMMA SquaresGrow ==
  /\ \A a \in Int : Square2(a) \in Nat /\ Square2(a) = Square2(-a)
  /\ \A a, b \in Nat : b <= a => Square2(b) <= Square2(a)
<1>1. ASSUME NEW a \in Int PROVE Square2(a) \in Nat /\ Square2(a) = Square2(-a)
  <2>1. CASE a >= 0
    BY <2>1 DEF Square2
  <2>2. CASE a < 0
    <3>1. -a \in Nat /\ a * a = (-a) * (-a)
      BY <2>2
    <3>2. \A b \in Nat : b * b \in Nat
      OBVIOUS
    <3> QED
      BY <3>1, <3>2 DEF Square2
  <2> QED
    BY <2>1, <2>2
<1>2. ASSUME NEW a \in Nat, NEW b \in Nat, b <= a PROVE Square2(b) <= Square2(a)
  <2>1. PICK j \in Nat : a = b + j
    <3>1. a - b \in Nat /\ a = b + (a - b)
      BY <1>2
    <3> QED
      BY <3>1
  <2>2. a * a = b * b + 2 * (b * j) + j * j /\ b * j \in Nat /\ j * j \in Nat /\ b * b \in Nat
    BY <2>1
  <2> QED
    BY <2>2 DEF Square2
<1> QED
  BY <1>1, <1>2

\* Where everybody on a lawnmower is.
LEMMA EverybodyIs ==
  ASSUME Flights, NEW there, Stepped(there), flight \in Lawnmower, NEW d \in Flyer
  PROVE  /\ there[d] = LawnmowerTarget(flight, area, d, Len(flown))
         /\ there[d] \in EvalPlace
<1>1. /\ there[d] \in NextTargets(flight, area, d, Len(flown)) /\ there[d] \in EvalPlace
  BY DEF Stepped
<1> QED
  BY <1>1 DEF NextTargets

LEMMA AllTogether ==
  ASSUME Flights, NEW there, Stepped(there), flight = "Boustrophedon",
         NEW d \in Flyer, NEW e \in Flyer
  PROVE  there[d] = there[e]
<1>1. flight \in Lawnmower
  BY DEF Lawnmower
<1>2. RegionOf(flight, area, d) = RegionOf(flight, area, e)
  BY DEF RegionOf
<1>3. ASSUME NEW i \in Flyer
      PROVE  LET region == RegionOf(flight, area, i)
                 cols == CellsAlong(region.to - region.from, area.scan)
                 rows == CellsAlong(area.height, area.scan)
                 s == Len(flown) % (cols * rows)
             IN  there[i] = [x |-> Centre(region.from, region.to, area.scan, Along(cols, s)),
                             y |-> Centre(0, area.height, area.scan, s \div cols)]
  <2>1. i \in 0 .. area.swarm - 1 /\ Whole(area) /\ Len(flown) \in Nat
    BY FlightsAre
  <2>2. there[i] = LawnmowerTarget(flight, area, i, Len(flown))
    BY <1>1, EverybodyIs
  <2> QED
    BY <1>1, <2>1, <2>2, TargetIs
<1> QED
  BY <1>2, <1>3

LEMMA AllApart ==
  ASSUME Flights, NEW there, Stepped(there), flight = "PartitionedLawnmower",
         area.width \div area.swarm >= MinEvalSeparation
  PROVE  TooClose(there) = {}
<1> DEFINE w == area.width \div area.swarm
           h == area.height
           scan == area.scan
           cols == CellsAlong(w, scan)
           s == Len(flown) % (cols * CellsAlong(h, scan))
           a == Along(cols, s)
           y == Centre(0, h, scan, s \div cols)
           off == Lesser((2 * a + 1) * scan, 2 * w)
<1>1. flight \in Lawnmower /\ flight # "Boustrophedon" /\ Whole(area) /\ Len(flown) \in Nat
      /\ MinEvalSeparation \in Nat \ {0} /\ Flyer = 0 .. area.swarm - 1
  BY FlightsAre, EvalAssumption DEF Lawnmower
<1>2. 0 \in Flyer
  BY FlightsAre
<1>3. w \in Nat /\ scan \in Nat \ {0} /\ h \in Nat
  BY <1>1, <1>2, RegionIs DEF Whole
<1>4. ASSUME NEW d \in Flyer
      PROVE  /\ there[d] = [x |-> Centre(d * w, d * w + w, scan, a), y |-> y]
             /\ there[d] \in EvalPlace /\ d * w \in Nat
  <2> DEFINE x0 == RegionOf(flight, area, d).from
             x1 == RegionOf(flight, area, d).to
  <2>1. /\ x0 = d * w /\ x1 - x0 = w /\ x0 \in Nat /\ x1 \in Nat
    BY <1>1, RegionIs
  <2>2. there[d] = LawnmowerTarget(flight, area, d, Len(flown)) /\ there[d] \in EvalPlace
    BY <1>1, EverybodyIs
  <2>3. LET c == CellsAlong(x1 - x0, scan)
            i == Len(flown) % (c * CellsAlong(h, scan))
        IN  LawnmowerTarget(flight, area, d, Len(flown)) =
              [x |-> Centre(x0, x1, scan, Along(c, i)), y |-> Centre(0, h, scan, i \div c)]
    BY <1>1, TargetIs
  <2> HIDE DEF x0, x1
  <2>4. x1 = x0 + w
    BY <1>3, <2>1
  <2> QED
    BY <2>1, <2>2, <2>3, <2>4
<1>5. a \in Int
  <2>1. 0 \in 0 .. area.swarm - 1
    BY <1>1, <1>2
  <2>2. RegionOf(flight, area, 0).to - RegionOf(flight, area, 0).from = w
    BY <1>1, <2>1, RegionIs
  <2>3. cols \in Nat \ {0} /\ CellsAlong(h, scan) \in Nat \ {0}
        /\ s \in 0 .. cols * CellsAlong(h, scan) - 1
    BY <1>1, <2>1, <2>2, TargetIs
  <2>4. a \in 0 .. cols - 1
    <3> HIDE DEF cols, s, h, scan
    <3> QED
      BY <2>3, StepsAre
  <2> HIDE DEF a, cols
  <2> QED
    BY <2>3, <2>4
<1> HIDE DEF a, y, cols, s, h
<1>6. off \in Int
  BY <1>3, <1>5 DEF Lesser
<1>7. ASSUME NEW d \in Flyer PROVE there[d].x = 2 * (d * w) + off /\ there[d].x \in Int /\ there[d].y = y /\ y \in Int
  <2> DEFINE z == d * w
             b == (2 * a + 1) * scan
  <2>1. there[d].x = Centre(z, z + w, scan, a) /\ there[d].y = y /\ z \in Nat
        /\ there[d].x \in Int /\ there[d].y \in Int
    <3>1. there[d] = [x |-> Centre(z, z + w, scan, a), y |-> y] /\ there[d] \in EvalPlace /\ z \in Nat
      BY <1>4
    <3>2. \A t \in EvalPlace : t.x \in Int /\ t.y \in Int
      BY DEF EvalPlace
    <3> HIDE DEF z
    <3> QED
      BY <3>1, <3>2
  <2>2. b \in Int
    BY <1>3, <1>5
  <2> HIDE DEF z, b, w, scan
  <2>3. Lesser(2 * z + b, 2 * (z + w)) = 2 * z + Lesser(b, 2 * w)
    BY <1>3, <2>1, <2>2 DEF Lesser
  <2>4. Centre(z, z + w, scan, a) = Lesser(2 * z + b, 2 * (z + w))
    BY DEF Centre, Twice, b
  <2> QED
    BY <2>1, <2>3, <2>4 DEF z, b
<1> HIDE DEF off, w
<1>8. ASSUME NEW d \in Flyer, NEW e \in Flyer, d < e
      PROVE  Distance2(there[d], there[e]) >= Square2(Twice(MinEvalSeparation))
  <2> DEFINE u == there[e].x - there[d].x
             m == Twice(MinEvalSeparation)
  <2>1. u = 2 * ((e - d) * w)
    <3>1. d \in Int /\ e \in Int
      BY <1>1
    <3>2. e * w - d * w = (e - d) * w /\ e * w \in Int /\ d * w \in Int
      BY <1>3, <3>1
    <3> DEFINE i == e * w
               j == d * w
    <3> HIDE DEF i, j
    <3>3. there[e].x = 2 * i + off /\ there[d].x = 2 * j + off /\ i \in Int /\ j \in Int
      BY <1>7, <3>2 DEF i, j
    <3>4. u = 2 * (i - j)
      BY <1>6, <3>3
    <3> QED
      BY <3>2, <3>4 DEF i, j
  <2>2. (e - d) * w >= w /\ (e - d) * w \in Int
    <3>1. PICK j \in Nat : e - d = 1 + j
      <4>1. e - d - 1 \in Nat /\ e - d = 1 + (e - d - 1)
        BY <1>1, <1>8
      <4> QED
        BY <4>1
    <3>2. (1 + j) * w = w + j * w /\ j * w \in Nat
      BY <1>3
    <3> QED
      BY <1>3, <3>1, <3>2
  <2>3. u \in Nat /\ m \in Nat /\ m <= u
    <3> DEFINE z == (e - d) * w
    <3> HIDE DEF z
    <3>1. z >= w /\ z \in Int /\ u = 2 * z
      BY <2>1, <2>2 DEF z
    <3>2. w >= MinEvalSeparation
      BY DEF w
    <3> HIDE DEF u
    <3> QED
      BY <1>1, <1>3, <3>1, <3>2 DEF Twice
  <2>4. Distance2(there[d], there[e]) = Square2(u)
    <3>1. there[d].x - there[e].x = -u /\ u \in Int
      BY <1>7
    <3>2. there[d].y - there[e].y = 0
      BY <1>7
    <3>3. Square2(-u) = Square2(u) /\ Square2(u) \in Nat
      <4> HIDE DEF u
      <4> QED
        BY <3>1, SquaresGrow
    <3>4. Square2(0) = 0
      BY DEF Square2
    <3>5. Distance2(there[d], there[e]) = Square2(-u) + 0
      BY <3>1, <3>2, <3>4 DEF Distance2
    <3> HIDE DEF u
    <3> QED
      BY <3>3, <3>5
  <2> HIDE DEF u, m
  <2>5. Square2(m) <= Square2(u) /\ Square2(u) \in Nat /\ Square2(m) \in Nat
    BY <2>3, SquaresGrow
  <2> QED
    BY <2>4, <2>5 DEF m
<1>9. ASSUME NEW pair \in TooClose(there) PROVE FALSE
  <2>1. /\ pair[1] \in Flyer /\ pair[2] \in Flyer /\ pair[1] < pair[2]
        /\ Distance2(there[pair[1]], there[pair[2]]) < Square2(Twice(MinEvalSeparation))
    BY DEF TooClose
  <2>2. ASSUME NEW i \in Flyer, NEW j \in Flyer
        PROVE  Distance2(there[i], there[j]) \in Int /\ Square2(Twice(MinEvalSeparation)) \in Int
    <3>1. /\ there[i].x - there[j].x \in Int /\ there[i].y - there[j].y \in Int
          /\ Twice(MinEvalSeparation) \in Int
      BY <1>1, <1>7 DEF Twice
    <3> QED
      BY <3>1, SquaresGrow DEF Distance2
  <2> QED
    BY <1>8, <2>1, <2>2
<1> QED
  BY <1>9

LEMMA ApartIInv ==
  ASSUME Flights, ApartOrTogether, NEW there, Stepped(there)
  PROVE  ApartOrTogether'
<1> DEFINE n == area.swarm
           k == Cardinality(TooClose(there))
<1>1. /\ flight' = flight /\ area' = area /\ collisions' = collisions + k
      /\ sighting' = Detect(there, Len(flown) + 1) /\ Len(flown') = Len(flown) + 1
      /\ Len(flown) \in Nat /\ n \in Nat \ {0} /\ Flyer = 0 .. n - 1 /\ collisions \in Nat
  BY FlightsAre, FlownAppends DEF Stepped, ApartOrTogether
<1>2. k \in Nat
  <2>1. IsFiniteSet(Flyer)
    BY FlightsAre
  <2>2. IsFiniteSet(Flyer \X Flyer)
    BY <2>1, FS_Product
  <2>3. TooClose(there) \in SUBSET (Flyer \X Flyer)
    BY DEF TooClose
  <2>4. IsFiniteSet(TooClose(there))
    BY <2>2, <2>3, FS_Subset
  <2> QED
    BY <2>4, FS_CardinalityType
<1>3. ASSUME flight = "PartitionedLawnmower", area.width \div area.swarm >= MinEvalSeparation
      PROVE  collisions' = 0
  <2>1. TooClose(there) = {}
    BY <1>3, AllApart
  <2>2. k = 0
    BY <2>1, FS_EmptySet
  <2>3. collisions = 0
    BY <1>3 DEF ApartOrTogether
  <2> QED
    BY <1>1, <2>2, <2>3
<1>4. ASSUME flight = "Boustrophedon"
      PROVE  2 * collisions' = Len(flown') * (n * (n - 1)) /\ ~sighting'.gdop
  <2>1. \A d, e \in Flyer : there[d] = there[e]
    BY <1>4, AllTogether
  <2>2. flight \in Lawnmower
    BY <1>4 DEF Lawnmower
  <2>3. \A d \in Flyer : there[d].x \in Int /\ there[d].y \in Int
    BY <2>2, EverybodyIs DEF EvalPlace
  <2>4. TooClose(there) = PairsBelow(n)
    <3>1. ASSUME NEW d \in Flyer, NEW e \in Flyer
          PROVE  Distance2(there[d], there[e]) < Square2(Twice(MinEvalSeparation))
      <4>1. there[d].x - there[e].x = 0 /\ there[d].y - there[e].y = 0
        BY <2>1, <2>3
      <4>2. Distance2(there[d], there[e]) = 0
        BY <4>1 DEF Distance2, Square2
      <4>3. Square2(Twice(MinEvalSeparation)) > 0
        <5>1. PICK i \in Nat : MinEvalSeparation = 1 + i
          <6>1. MinEvalSeparation - 1 \in Nat /\ MinEvalSeparation = 1 + (MinEvalSeparation - 1)
            BY EvalAssumption
          <6> QED
            BY <6>1
        <5>2. Twice(MinEvalSeparation) \in Nat /\ 1 <= Twice(MinEvalSeparation)
          BY <5>1 DEF Twice
        <5>3. Square2(1) = 1
          BY DEF Square2
        <5>4. Square2(1) <= Square2(Twice(MinEvalSeparation))
              /\ Square2(Twice(MinEvalSeparation)) \in Nat
          BY <5>2, SquaresGrow
        <5> QED
          BY <5>3, <5>4
      <4> QED
        BY <4>2, <4>3
    <3> QED
      BY <1>1, <3>1 DEF TooClose, PairsBelow
  <2>5. 2 * k = n * (n - 1)
    BY <1>1, <2>4, PairsAre
  <2>6. 2 * collisions = Len(flown) * (n * (n - 1)) /\ ~sighting.gdop
    BY <1>4 DEF ApartOrTogether
  <2>7. 2 * collisions' = Len(flown') * (n * (n - 1))
    <3> DEFINE z == n * (n - 1)
               l == Len(flown)
    <3>1. z \in Int /\ l \in Nat
      BY <1>1
    <3>2. 2 * k = z /\ 2 * collisions = l * z /\ Len(flown') = l + 1
      BY <1>1, <2>5, <2>6
    <3> HIDE DEF z, l, k
    <3>3. (l + 1) * z = l * z + z /\ l * z \in Int
      BY <3>1
    <3>4. 2 * collisions' = 2 * collisions + 2 * k
      BY <1>1, <1>2
    <3>5. 2 * collisions' = (l + 1) * z
      BY <3>2, <3>3, <3>4
    <3> QED
      BY <3>2, <3>5 DEF z
  <2>8. ~sighting'.gdop
    <3>1. ASSUME NEW v \in EvalPlace, NEW seers \in SUBSET Flyer
          PROVE  ~ GdopDefined(seers, v, there)
      <4>1. ASSUME NEW d \in seers, NEW e \in seers
            PROVE  (there[d].x - v.x) * (there[e].y - v.y) = (there[d].y - v.y) * (there[e].x - v.x)
        <5> DEFINE i == there[d].x - v.x
                   j == there[d].y - v.y
        <5>1. i \in Int /\ j \in Int
          BY <2>3 DEF EvalPlace
        <5>2. there[d] = there[e]
          BY <2>1
        <5> HIDE DEF i, j
        <5>3. i * j = j * i
          BY <5>1
        <5> QED
          BY <5>2, <5>3 DEF i, j
      <4> QED
        BY <4>1 DEF GdopDefined
    <3>2. ~ NotSeen.gdop
      BY DEF NotSeen
    <3>3. ASSUME Seen(there) # {} PROVE ~ Sighted(there, Len(flown) + 1).gdop
      <4> DEFINE v == EvalVictim[Min(Seen(there))]
                 seers == Contributors(v, there)
      <4>1. Min(Seen(there)) \in DOMAIN EvalVictim
        <5>1. DOMAIN EvalVictim \in SUBSET Nat
          BY EvalAssumption
        <5>2. Seen(there) \in SUBSET Nat
          BY <5>1 DEF Seen
        <5>3. Min(Seen(there)) \in Seen(there)
          BY <3>3, <5>2, LeastIs
        <5> QED
          BY <5>3 DEF Seen
      <4>2. v \in EvalPlace
        <5> DEFINE i == Min(Seen(there))
        <5>1. i \in DOMAIN EvalVictim /\ EvalVictim \in Seq(EvalPlace)
          BY <4>1, EvalAssumption DEF EvalPlace
        <5> HIDE DEF i
        <5>2. EvalVictim[i] \in EvalPlace
          BY <5>1
        <5> QED
          BY <5>2 DEF i
      <4>3. seers \in SUBSET Flyer
        BY DEF Contributors
      <4>4. Sighted(there, Len(flown) + 1).gdop = GdopDefined(seers, v, there)
        BY <3>3 DEF Sighted
      <4> QED
        BY <3>1, <4>2, <4>3, <4>4
    <3>4. CASE Seen(there) = {}
      BY <1>1, <2>6, <3>2, <3>4 DEF Detect, Sighted
    <3>5. CASE Seen(there) # {}
      BY <1>1, <2>6, <3>3, <3>5 DEF Detect
    <3> QED
      BY <3>4, <3>5
  <2> QED
    BY <2>7, <2>8
<1> QED
  BY <1>1, <1>2, <1>3, <1>4 DEF ApartOrTogether

-----------------------------------------------------------------------------
(* Where the scan width divides the strips, their sweeps tile the area *)

LEMMA DividedEvenly ==
  ASSUME NEW a \in Nat \ {0}, NEW b \in Nat \ {0}, a % b = 0
  PROVE  a \div b \in Nat \ {0} /\ a = (a \div b) * b
<1> DEFINE q == a \div b
<1>1. a \in Int /\ b \in Int /\ b > 0
  OBVIOUS
<1>2. q \in Int /\ a = b * q + (a % b)
  BY <1>1, Divided
<1>3. q >= 0
  BY <1>1
<1> HIDE DEF q
<1>4. a = b * q /\ b * q = q * b
  BY <1>2
<1>5. q # 0
  <2>1. q = 0 => b * q = 0
    OBVIOUS
  <2> QED
    BY <1>4, <2>1
<1> QED
  BY <1>2, <1>3, <1>4, <1>5 DEF q

LEMMA MultipleCells ==
  ASSUME NEW scan \in Nat \ {0}, NEW j \in Nat \ {0}
  PROVE  CellsAlong(j * scan, scan) = j /\ Greater(Ceil(j * scan, scan), 1) = j
<1> DEFINE b == j * scan
<1>1. b \in Nat /\ b >= scan /\ b = scan * j /\ scan * j \in Int
  <2>1. PICK i \in Nat : j = 1 + i
    <3>1. j - 1 \in Nat /\ j = 1 + (j - 1)
      OBVIOUS
    <3> QED
      BY <3>1
  <2>2. (1 + i) * scan = scan + i * scan /\ i * scan \in Nat
    BY <2>1
  <2>3. j * scan = scan * j
    OBVIOUS
  <2> QED
    BY <2>1, <2>2, <2>3
<1> HIDE DEF b
<1>2. Ceil(b, scan) = j
  <2>1. (scan * j + (scan - 1)) \div scan = j
    <3>1. scan - 1 \in 0 .. scan - 1 /\ scan \in Int /\ scan > 0 /\ j \in Int
      OBVIOUS
    <3> QED
      BY <3>1, DividedOnce
  <2>2. b + scan - 1 = scan * j + (scan - 1)
    BY <1>1
  <2> QED
    BY <2>1, <2>2 DEF Ceil
<1>3. Greater(b, scan) = b
  BY <1>1 DEF Greater
<1>4. Greater(j, 1) = j
  BY DEF Greater
<1> QED
  BY <1>2, <1>3, <1>4 DEF CellsAlong, b

\* A centre of a cell lies in it.
LEMMA CentreInCell ==
  ASSUME NEW scan \in Nat \ {0}, NEW n \in Nat \ {0}, NEW j \in 0 .. n - 1
  PROVE  Lesser((((2 * j + 1) * scan) * n) \div Twice(n * scan), n - 1) = j
<1> DEFINE z == n * scan
           b == 2 * z
<1>1. z \in Nat /\ z > 0
  <2>1. PICK i \in Nat : n = 1 + i
    <3>1. n - 1 \in Nat /\ n = 1 + (n - 1)
      OBVIOUS
    <3> QED
      BY <3>1
  <2>2. (1 + i) * scan = scan + i * scan /\ i * scan \in Nat
    BY <2>1
  <2> QED
    BY <2>1, <2>2
<1>2. ((2 * j + 1) * scan) * n = b * j + z
  OBVIOUS
<1> HIDE DEF z
<1>3. b \in Int /\ b > 0 /\ z \in 0 .. b - 1 /\ j \in Int
  BY <1>1
<1> HIDE DEF b
<1>4. (b * j + z) \div b = j
  BY <1>3, DividedOnce
<1>5. Lesser(j, n - 1) = j
  BY DEF Lesser
<1>6. Twice(n * scan) = b
  BY DEF Twice, b, z
<1> QED
  BY <1>2, <1>4, <1>5, <1>6

\* The area of a context, where everything divides evenly.
Even(c) == /\ Whole(c) /\ c.width % c.swarm = 0
           /\ (c.width \div c.swarm) % c.scan = 0 /\ c.height % c.scan = 0

Across(c) == (c.width \div c.swarm) \div c.scan
Down(c) == c.height \div c.scan

LEMMA EvenCells ==
  ASSUME NEW c, Even(c)
  PROVE  /\ Across(c) \in Nat \ {0} /\ Down(c) \in Nat \ {0}
         /\ c.width \div c.swarm = Across(c) * c.scan /\ c.height = Down(c) * c.scan
         /\ c.width = (c.swarm * Across(c)) * c.scan /\ c.swarm * Across(c) \in Nat \ {0}
         /\ CellsAlong(c.width \div c.swarm, c.scan) = Across(c)
         /\ CellsAlong(c.height, c.scan) = Down(c)
         /\ Columns(c) = c.swarm * Across(c) /\ Rows(c) = Down(c)
<1> DEFINE w == c.width \div c.swarm
           m == Across(c)
           n == c.swarm
           scan == c.scan
<1>1. /\ n \in Nat \ {0} /\ c.width \in Nat \ {0} /\ scan \in Nat \ {0}
      /\ c.height \in Nat \ {0}
  BY DEF Even, Whole
<1>2. w \in Nat \ {0} /\ c.width = w * n
  BY <1>1, DividedEvenly DEF Even
<1>3. m \in Nat \ {0} /\ w = m * scan
  <2>1. w % scan = 0 /\ m = w \div scan
    BY DEF Even, Across
  <2> HIDE DEF w, m
  <2> QED
    BY <1>1, <1>2, <2>1, DividedEvenly
<1>4. Down(c) \in Nat \ {0} /\ c.height = Down(c) * scan
  BY <1>1, DividedEvenly DEF Even, Down
<1> HIDE DEF w, m
<1>5. c.width = (n * m) * scan /\ n * m \in Nat \ {0}
  <2>1. (m * scan) * n = (n * m) * scan
    BY <1>1, <1>3
  <2>2. PICK i \in Nat : n = 1 + i
    <3>1. n - 1 \in Nat /\ n = 1 + (n - 1)
      BY <1>1
    <3> QED
      BY <3>1
  <2>3. (1 + i) * m = m + i * m /\ i * m \in Nat
    BY <1>3, <2>2
  <2>4. n * m \in Nat \ {0}
    BY <1>3, <2>2, <2>3
  <2> QED
    BY <1>2, <1>3, <2>1, <2>4
<1>6. CellsAlong(w, scan) = m /\ CellsAlong(c.height, scan) = Down(c)
  BY <1>1, <1>3, <1>4, MultipleCells
<1>7. Columns(c) = n * m
  <2> DEFINE z == n * m
  <2>1. z \in Nat \ {0} /\ c.width = z * scan
    BY <1>5
  <2> HIDE DEF z
  <2>2. Greater(Ceil(z * scan, scan), 1) = z
    BY <1>1, <2>1, MultipleCells
  <2> QED
    BY <2>1, <2>2 DEF Columns, z
<1>8. Rows(c) = Down(c)
  <2> DEFINE z == Down(c)
  <2>1. z \in Nat \ {0} /\ c.height = z * scan
    BY <1>4
  <2> HIDE DEF z
  <2>2. Greater(Ceil(z * scan, scan), 1) = z
    BY <1>1, <2>1, MultipleCells
  <2> QED
    BY <2>1, <2>2 DEF Rows, z
<1> QED
  BY <1>3, <1>4, <1>5, <1>6, <1>7, <1>8 DEF w, m

\* The cell a drone marks at a step of its sweep.
LEMMA MarkedIs ==
  ASSUME NEW c, Even(c), NEW d \in 0 .. c.swarm - 1,
         NEW k \in 0 .. Sweep("PartitionedLawnmower", c) - 1
  PROVE  /\ Sweep("PartitionedLawnmower", c) = Across(c) * Down(c)
         /\ CellOf(LawnmowerTarget("PartitionedLawnmower", c, d, k), c) =
              <<d * Across(c) + Along(Across(c), k) + 1, (k \div Across(c)) + 1>>
<1> DEFINE p == "PartitionedLawnmower"
           m == Across(c)
           r == Down(c)
           n == c.swarm
           scan == c.scan
           w == c.width \div n
           h == c.height
           x0 == RegionOf(p, c, d).from
           x1 == RegionOf(p, c, d).to
           a == Along(m, k)
           q == k \div m
           j == d * m + a
           t == LawnmowerTarget(p, c, d, k)
<1>1. Whole(c) /\ p \in Lawnmower /\ p # "Boustrophedon" /\ n \in Nat \ {0} /\ scan \in Nat \ {0}
  BY DEF Even, Whole, Lawnmower
<1>2. /\ m \in Nat \ {0} /\ r \in Nat \ {0} /\ w = m * scan /\ h = r * scan
      /\ c.width = (n * m) * scan /\ n * m \in Nat \ {0} /\ Columns(c) = n * m /\ Rows(c) = r
      /\ CellsAlong(w, scan) = m /\ CellsAlong(h, scan) = r
  BY EvenCells
<1>3. x0 = d * w /\ x1 - x0 = w /\ x0 \in Nat /\ x1 \in Nat
  BY <1>1, RegionIs
<1>4. Sweep(p, c) = m * r
  BY <1>1, <1>2 DEF Sweep
<1>5. k \in 0 .. m * r - 1 /\ k \in Nat
  BY <1>4
<1>6. t = [x |-> Centre(x0, x1, scan, a), y |-> Centre(0, h, scan, q)]
  <2>1. LET cols == CellsAlong(x1 - x0, scan)
            rows == CellsAlong(h, scan)
            s == k % (cols * rows)
        IN  t = [x |-> Centre(x0, x1, scan, Along(cols, s)), y |-> Centre(0, h, scan, s \div cols)]
    BY <1>1, <1>5, TargetIs
  <2>2. k % (m * r) = k
    <3> DEFINE z == m * r
    <3>1. k \in 0 .. z - 1 /\ z \in Int
      BY <1>2, <1>5
    <3> HIDE DEF z
    <3>2. k % z = k
      BY <3>1
    <3> QED
      BY <3>2 DEF z
  <2> HIDE DEF t, x0, x1, m, r, scan, h, w
  <2> QED
    BY <1>2, <1>3, <2>1, <2>2
<1> HIDE DEF m, r, w, h, t, x0, x1
<1>7. a \in 0 .. m - 1 /\ q \in 0 .. r - 1
  BY <1>2, <1>5, StepsAre
<1> HIDE DEF a, q
<1>8. Centre(x0, x1, scan, a) = (2 * j + 1) * scan
  <2> DEFINE u == 2 * x0
             v == (2 * a + 1) * scan
  <2>1. v <= 2 * w /\ v \in Int
    <3>1. PICK i \in Nat : m = (a + 1) + i
      <4>1. m - (a + 1) \in Nat /\ m = (a + 1) + (m - (a + 1))
        BY <1>2, <1>7
      <4> QED
        BY <4>1
    <3>2. 2 * (((a + 1) + i) * scan) = v + scan + 2 * (i * scan) /\ i * scan \in Nat /\ v \in Int
      BY <1>1, <1>7, <3>1
    <3> HIDE DEF v
    <3>3. 2 * w = v + scan + 2 * (i * scan)
      BY <1>2, <3>1, <3>2
    <3> QED
      BY <1>1, <3>2, <3>3
  <2>2. u + v = (2 * j + 1) * scan
    <3>1. x0 = d * (m * scan)
      BY <1>2, <1>3
    <3> QED
      BY <1>1, <1>2, <1>7, <3>1
  <2> HIDE DEF v, j
  <2>3. Lesser(2 * x0 + v, 2 * x1) = u + v
    <3>1. w \in Int
      BY <1>1, <1>2
    <3> QED
      BY <1>3, <2>1, <3>1 DEF Lesser
  <2> QED
    BY <2>2, <2>3 DEF Centre, Twice, v
<1>9. Centre(0, h, scan, q) = (2 * q + 1) * scan
  <2> DEFINE v == (2 * q + 1) * scan
  <2>1. v <= 2 * h /\ v \in Int
    <3>1. PICK i \in Nat : r = (q + 1) + i
      <4>1. r - (q + 1) \in Nat /\ r = (q + 1) + (r - (q + 1))
        BY <1>2, <1>7
      <4> QED
        BY <4>1
    <3>2. 2 * (((q + 1) + i) * scan) = v + scan + 2 * (i * scan) /\ i * scan \in Nat /\ v \in Int
      BY <1>1, <1>7, <3>1
    <3> HIDE DEF v
    <3>3. 2 * h = v + scan + 2 * (i * scan)
      BY <1>2, <3>1, <3>2
    <3> QED
      BY <1>1, <3>2, <3>3
  <2> HIDE DEF v
  <2>2. h \in Int
    BY <1>1, <1>2
  <2>3. Lesser(2 * 0 + v, 2 * h) = v
    BY <2>1, <2>2 DEF Lesser
  <2> QED
    BY <2>3 DEF Centre, Twice, v
<1>10. j \in 0 .. (n * m) - 1
  <2>1. PICK i \in Nat : n = (d + 1) + i
    <3>1. n - (d + 1) \in Nat /\ n = (d + 1) + (n - (d + 1))
      BY <1>1
    <3> QED
      BY <3>1
  <2>2. ((d + 1) + i) * m = d * m + m + i * m /\ i * m \in Nat /\ d * m \in Nat
    BY <1>2, <2>1
  <2> DEFINE y == d * m
             z == n * m
  <2>3. z = y + m + i * m
    BY <2>1, <2>2
  <2>4. y \in Nat /\ i * m \in Nat
    BY <2>2
  <2> HIDE DEF y, z
  <2>5. y + a \in 0 .. z - 1
    BY <1>2, <1>7, <2>3, <2>4
  <2> QED
    BY <2>5 DEF y, z
<1> HIDE DEF j
<1>11. Lesser((t.x * Columns(c)) \div Twice(c.width), Columns(c) - 1) = j
  <2> DEFINE z == n * m
  <2>1. z \in Nat \ {0} /\ j \in 0 .. z - 1 /\ Columns(c) = z /\ c.width = z * scan
    BY <1>2, <1>10
  <2>2. t.x = (2 * j + 1) * scan
    BY <1>6, <1>8
  <2> HIDE DEF z
  <2>3. Lesser((((2 * j + 1) * scan) * z) \div Twice(z * scan), z - 1) = j
    BY <1>1, <2>1, CentreInCell
  <2> QED
    BY <2>1, <2>2, <2>3
<1>12. Lesser((t.y * Rows(c)) \div Twice(c.height), Rows(c) - 1) = q
  <2>1. t.y = (2 * q + 1) * scan
    BY <1>6, <1>9
  <2>2. Lesser((((2 * q + 1) * scan) * r) \div Twice(r * scan), r - 1) = q
    BY <1>1, <1>2, <1>7, CentreInCell
  <2>3. c.height = r * scan
    BY <1>2 DEF h
  <2> QED
    BY <1>2, <2>1, <2>2, <2>3
<1>13. CellOf(t, c) = <<j + 1, q + 1>>
  BY <1>11, <1>12 DEF CellOf
<1> QED
  BY <1>4, <1>13 DEF m, r, a, q, j, t

\* Every cell is one drone's, at one step of its sweep.
LEMMA CellIsMarkedOnce ==
  ASSUME NEW c, Even(c), NEW cell \in Cells(c)
  PROVE  LET steps == 0 .. Sweep("PartitionedLawnmower", c) - 1
             drones == 0 .. c.swarm - 1
             Marked(k, d) == CellOf(LawnmowerTarget("PartitionedLawnmower", c, d, k), c) = cell
         IN  /\ \E k \in steps, d \in drones : Marked(k, d)
             /\ \A k, l \in steps, d, e \in drones : Marked(k, d) /\ Marked(l, e) => k = l /\ d = e
<1> DEFINE m == Across(c)
           r == Down(c)
           n == c.swarm
           steps == 0 .. m * r - 1
           drones == 0 .. n - 1
           Marked(k, d) == CellOf(LawnmowerTarget("PartitionedLawnmower", c, d, k), c) = cell
<1>1. /\ n \in Nat \ {0} /\ m \in Nat \ {0} /\ r \in Nat \ {0}
      /\ Cells(c) = (1 .. n * m) \X (1 .. r)
  BY EvenCells DEF Even, Whole, Cells
<1>2. Sweep("PartitionedLawnmower", c) = m * r
  <2>1. CellsAlong(c.width \div c.swarm, c.scan) = m /\ CellsAlong(c.height, c.scan) = r
    BY EvenCells
  <2> QED
    BY <2>1 DEF Sweep
<1>3. PICK col \in 1 .. n * m, row \in 1 .. r : cell = <<col, row>>
  BY <1>1
<1>4. ASSUME NEW k \in steps, NEW d \in drones
      PROVE  /\ Along(m, k) \in 0 .. m - 1 /\ k \div m \in 0 .. r - 1
             /\ Marked(k, d) <=> d * m + Along(m, k) + 1 = col /\ (k \div m) + 1 = row
  <2>1. CellOf(LawnmowerTarget("PartitionedLawnmower", c, d, k), c) =
          <<d * m + Along(m, k) + 1, (k \div m) + 1>>
    BY <1>2, MarkedIs
  <2>2. Along(m, k) \in 0 .. m - 1 /\ k \div m \in 0 .. r - 1
    <3> HIDE DEF m, r
    <3> QED
      BY <1>1, StepsAre
  <2> QED
    BY <1>3, <2>1, <2>2
<1> HIDE DEF m, r, n, Marked
<1>5. \E k \in steps, d \in drones : Marked(k, d)
  <2> DEFINE b == col - 1
             d == b \div m
             a == b % m
  <2>1. b \in Int /\ m \in Int /\ m > 0
    BY <1>1
  <2>2. d \in Int /\ a \in 0 .. m - 1 /\ m * d \in Int /\ b = m * d + a
    <3> HIDE DEF b
    <3> QED
      BY <2>1, Divided
  <2>3. b >= 0 /\ b < n * m /\ n * m \in Int
    BY <1>1
  <2> HIDE DEF a, b, d
  <2>4. d >= 0
    <3>1. ASSUME d <= -1 PROVE FALSE
      <4>1. -1 - d \in Nat /\ m * d = -m - m * (-1 - d)
        BY <1>1, <2>2, <3>1
      <4> DEFINE j == -1 - d
      <4>2. j \in Nat
        BY <4>1
      <4> HIDE DEF j
      <4>3. m * j \in Nat
        BY <1>1, <4>2
      <4>4. m * d = -m - m * j
        BY <4>1 DEF j
      <4> QED
        BY <1>1, <2>1, <2>2, <2>3, <4>3, <4>4
    <3> QED
      BY <2>2, <3>1
  <2>5. d <= n - 1
    <3>1. ASSUME d >= n PROVE FALSE
      <4> DEFINE j == d - n
      <4>1. j \in Nat /\ m * d = n * m + m * j
        BY <1>1, <2>2, <3>1
      <4> HIDE DEF j
      <4>2. m * j \in Nat
        BY <1>1, <4>1
      <4> QED
        BY <1>1, <2>1, <2>2, <2>3, <4>1, <4>2
    <3> QED
      BY <1>1, <2>2, <3>1
  <2>6. d \in drones /\ row - 1 \in 0 .. r - 1
    BY <1>1, <2>2, <2>4, <2>5
  <2>7. PICK k \in steps : Along(m, k) = a /\ k \div m = row - 1
    <3>1. \A i, l \in Nat \ {0} : \A x \in 0 .. i - 1, y \in 0 .. l - 1 :
            \E s \in 0 .. i * l - 1 : Along(i, s) = x /\ s \div i = y
      BY ONLY StepOf
    <3> DEFINE y == row - 1
    <3>2. m \in Nat \ {0} /\ r \in Nat \ {0} /\ a \in 0 .. m - 1 /\ y \in 0 .. r - 1
      BY <1>1, <2>2, <2>6
    <3> HIDE DEF y
    <3>3. \A x \in 0 .. m - 1, z \in 0 .. r - 1 :
            \E s \in 0 .. m * r - 1 : Along(m, s) = x /\ s \div m = z
      <4>1. m \in Nat \ {0} /\ r \in Nat \ {0}
        BY <3>2
      <4> QED
        BY ONLY <3>1, <4>1
    <3>4. \E s \in 0 .. m * r - 1 : Along(m, s) = a /\ s \div m = y
      BY ONLY <3>2, <3>3
    <3> QED
      BY <3>4 DEF y
  <2>8. d * m + a + 1 = col
    <3>1. d * m = m * d
      BY <1>1, <2>2
    <3> QED
      BY <2>2, <3>1 DEF b
  <2>9. (row - 1) + 1 = row
    OBVIOUS
  <2> QED
    BY <1>4, <2>6, <2>7, <2>8, <2>9
<1>6. ASSUME NEW k \in steps, NEW l \in steps, NEW d \in drones, NEW e \in drones,
             Marked(k, d), Marked(l, e)
      PROVE  k = l /\ d = e
  <2> DEFINE a == Along(m, k)
             b == Along(m, l)
             q == k \div m
             p == l \div m
  <2>1. /\ a \in 0 .. m - 1 /\ q \in 0 .. r - 1 /\ d * m + a + 1 = col /\ q + 1 = row
        /\ b \in 0 .. m - 1 /\ p \in 0 .. r - 1 /\ e * m + b + 1 = col /\ p + 1 = row
    BY <1>4, <1>6
  <2>2. k = m * q + (k % m) /\ l = m * p + (l % m) /\ k % m \in 0 .. m - 1 /\ l % m \in 0 .. m - 1
    <3>1. \A i, j \in Nat \ {0} : \A s \in 0 .. i * j - 1 :
            s = i * (s \div i) + (s % i) /\ s % i \in 0 .. i - 1
      BY ONLY StepsAre
    <3> QED
      BY <1>1, <3>1
  <2>3. a = (IF q % 2 = 0 THEN k % m ELSE m - 1 - (k % m))
        /\ b = (IF p % 2 = 0 THEN l % m ELSE m - 1 - (l % m))
    BY DEF Along
  <2> HIDE DEF a, b, q, p
  <2>4. p = q
    BY <2>1
  <2>5. m * d + a = m * e + b
    <3>1. d * m = m * d /\ e * m = m * e /\ m * d \in Int /\ m * e \in Int
      BY <1>1
    <3> QED
      BY <1>1, <2>1, <3>1
  <2>6. a = b /\ d = e
    <3>1. m \in Int /\ m > 0 /\ d \in Int /\ e \in Int
      BY <1>1
    <3>2. (m * d + a) \div m = d /\ (m * d + a) % m = a
      BY <2>1, <3>1, DividedOnce
    <3>3. (m * e + b) \div m = e /\ (m * e + b) % m = b
      BY <2>1, <3>1, DividedOnce
    <3> QED
      BY <2>5, <3>2, <3>3
  <2>7. k % m = l % m
    <3> DEFINE x == k % m
               y == l % m
    <3>1. x \in 0 .. m - 1 /\ y \in 0 .. m - 1 /\ a = (IF q % 2 = 0 THEN x ELSE m - 1 - x)
          /\ a = (IF q % 2 = 0 THEN y ELSE m - 1 - y)
      BY <2>2, <2>3, <2>4, <2>6
    <3> HIDE DEF x, y
    <3>2. x = y
      BY <1>1, <3>1
    <3> QED
      BY <3>2 DEF x, y
  <2> QED
    BY <2>2, <2>4, <2>6, <2>7
<1> QED
  BY <1>2, <1>5, <1>6 DEF n, Marked

LEMMA SweepTiles ==
  ASSUME Flights, CountsAreMarks, flight = "PartitionedLawnmower",
         Len(flown) = Sweep(flight, area),
         ScanDivides(area.width \div area.swarm), ScanDivides(area.height)
  PROVE  Scanned = Cells(area) /\ Overlapped = {}
<1> DEFINE n == Len(flown)
<1>1. /\ Even(area) /\ flight \in Lawnmower /\ n \in Nat /\ DOMAIN flown = 1 .. n
      /\ Flyer = 0 .. area.swarm - 1
  BY FlightsAre, AreasAreWhole DEF Flights, Even, ScanDivides, Lawnmower
<1>2. ASSUME NEW k \in 1 .. n, NEW d \in Flyer
      PROVE  k - 1 \in 0 .. n - 1 /\ flown[k][d] = LawnmowerTarget(flight, area, d, k - 1)
  <2>1. flown[k][d] \in NextTargets(flight, area, d, k - 1)
    BY <1>1, <1>2 DEF Flights
  <2> QED
    BY <1>1, <1>2, <2>1 DEF NextTargets
<1>3. ASSUME NEW c \in Cells(area) PROVE coverCount[c] \in Nat /\ coverCount[c] = 1
  <2> DEFINE Marked(k, d) == CellOf(LawnmowerTarget(flight, area, d, k), area) = c
  <2>1. /\ \E k \in 0 .. n - 1, d \in Flyer : Marked(k, d)
        /\ \A k, l \in 0 .. n - 1, d, e \in Flyer : Marked(k, d) /\ Marked(l, e) => k = l /\ d = e
    BY <1>1, CellIsMarkedOnce
  <2>2. \A k, d : Marks(c, k, d) <=> k \in 1 .. n /\ d \in Flyer /\ Marked(k - 1, d)
    BY <1>1, <1>2 DEF Marks
  <2> HIDE DEF Marked
  <2>3. \E k, d : Marks(c, k, d)
    <3>1. PICK k \in 0 .. n - 1, d \in Flyer : Marked(k, d)
      BY <2>1
    <3>2. k + 1 \in 1 .. n /\ (k + 1) - 1 = k
      BY <1>1
    <3> QED
      BY <2>2, <3>1, <3>2
  <2>4. \A k, l, d, e : Marks(c, k, d) /\ Marks(c, l, e) => k = l /\ d = e
    <3> SUFFICES ASSUME NEW k, NEW l, NEW d, NEW e, Marks(c, k, d), Marks(c, l, e)
                 PROVE  k = l /\ d = e
      OBVIOUS
    <3>1. /\ k \in 1 .. n /\ l \in 1 .. n /\ d \in Flyer /\ e \in Flyer
          /\ Marked(k - 1, d) /\ Marked(l - 1, e)
      BY <2>2
    <3>2. k - 1 \in 0 .. n - 1 /\ l - 1 \in 0 .. n - 1
      BY <1>1, <3>1
    <3>3. k - 1 = l - 1 /\ d = e
      BY <2>1, <3>1, <3>2
    <3> QED
      BY <1>1, <3>1, <3>3
  <2>5. /\ coverCount[c] \in Nat /\ (coverCount[c] = 0 <=> \A k, d : ~ Marks(c, k, d))
        /\ coverCount[c] > 1 => \E k, l, d, e : Marks(c, k, d) /\ Marks(c, l, e) /\ (k # l \/ d # e)
    BY DEF CountsAreMarks
  <2>6. coverCount[c] # 0 /\ ~ (coverCount[c] > 1)
    BY <2>3, <2>4, <2>5
  <2> QED
    BY <2>5, <2>6
<1> QED
  BY <1>3 DEF Scanned, Overlapped

-----------------------------------------------------------------------------
(* The episode as a whole *)

LEMMA EpisodeInitIInv == ASSUME EpisodeInit PROVE EpisodeIInv
<1>1. /\ flight \in DOMAIN EvalSteps /\ area \in EvalContexts /\ visited = <<>>
      /\ coverCount = [c \in Cells(area) |-> 0] /\ collisions = 0 /\ sighting = NotSeen
      /\ flown = <<>>
  BY DEF EpisodeInit
<1>2. /\ flown \in Seq([Flyer -> EvalPlace]) /\ DOMAIN flown = {} /\ Len(flown) = 0
      /\ visited \in Seq(EvalPlace) /\ DOMAIN visited = {} /\ Len(visited) = 0
  BY <1>1
<1>3. area.swarm \in Nat \ {0}
  BY <1>1, AreasAreWhole
<1>4. Flights
  BY <1>1, <1>2 DEF Flights
<1>5. FirstSightCounts
  <2>1. Sights(flown, area) = {}
    BY <1>2 DEF Sights
  <2> QED
    BY <1>1, <2>1, SightsAre DEF FirstSight
<1>6. RingFits /\ RingIsNewest
  BY <1>2, <1>3 DEF RingFits, RingIsNewest
<1>7. CountsAreMarks
  BY <1>1, <1>2 DEF CountsAreMarks, Marks
<1>8. ApartOrTogether
  <2>1. ~ NotSeen.gdop
    BY DEF NotSeen
  <2>2. 0 * (area.swarm * (area.swarm - 1)) = 0
    <3>1. area.swarm * (area.swarm - 1) \in Int
      BY <1>3
    <3> QED
      BY <3>1
  <2> QED
    BY <1>1, <1>2, <2>1, <2>2 DEF ApartOrTogether
<1> QED
  BY <1>4, <1>5, <1>6, <1>7, <1>8 DEF EpisodeIInv

LEMMA EpisodeNextIInv == ASSUME EpisodeIInv, [EpisodeStep]_episodeVars PROVE EpisodeIInv'
<1>1. CASE EpisodeStep
  <2>1. PICK there : Stepped(there)
    BY <1>1, StepIs DEF EpisodeIInv
  <2> QED
    BY <2>1, FlightsIInv, SightIInv, RingIInv, MarksIInv, ApartIInv DEF EpisodeIInv
<1>2. CASE UNCHANGED episodeVars
  <2> USE <1>2 DEF episodeVars
  <2>1. Flights'
    BY DEF EpisodeIInv, Flights, Flyer
  <2>2. FirstSightCounts'
    BY SightsAre DEF EpisodeIInv
  <2>3. RingFits' /\ RingIsNewest'
    BY DEF EpisodeIInv, RingFits, RingIsNewest
  <2>4. CountsAreMarks'
    BY DEF EpisodeIInv, CountsAreMarks, Marks, Flyer
  <2>5. ApartOrTogether'
    BY DEF EpisodeIInv, ApartOrTogether
  <2> QED
    BY <2>1, <2>2, <2>3, <2>4, <2>5 DEF EpisodeIInv
<1> QED
  BY <1>1, <1>2

LEMMA EpisodeIsAccounted == ASSUME EpisodeIInv PROVE EpisodeAccounted
<1>1. FirstSightCounts /\ RingIsNewest
  BY DEF EpisodeIInv
<1>2. ASSUME flight = "PartitionedLawnmower", Len(flown) = Sweep(flight, area),
             ScanDivides(area.width \div area.swarm), ScanDivides(area.height)
      PROVE  Scanned = Cells(area) /\ Overlapped = {}
  BY <1>2, SweepTiles DEF EpisodeIInv
<1>3. ASSUME flight = "PartitionedLawnmower", area.width \div area.swarm >= MinEvalSeparation
      PROVE  collisions = 0
  BY <1>3 DEF EpisodeIInv, ApartOrTogether
<1>4. ASSUME flight = "Boustrophedon"
      PROVE  2 * collisions = Len(flown) * area.swarm * (area.swarm - 1) /\ ~sighting.gdop
  <2>1. 2 * collisions = Len(flown) * (area.swarm * (area.swarm - 1)) /\ ~sighting.gdop
    BY <1>4 DEF EpisodeIInv, ApartOrTogether
  <2>2. Len(flown) \in Nat /\ area.swarm \in Nat
    BY FlightsAre DEF EpisodeIInv
  <2>3. \A i, j \in Int : i * (j * (j - 1)) = i * j * (j - 1)
    OBVIOUS
  <2> QED
    BY <2>1, <2>2, <2>3
<1>5. PatternsCompare
  BY <1>2, <1>3, <1>4 DEF PatternsCompare
<1> QED
  BY <1>1, <1>5 DEF EpisodeAccounted

\* The sweep of a drone leaves no place of its strip out, and an episode's numbers are
\* those of the flights: every cell once where the scan width divides the strips, no
\* collision between wide strips, nothing but collisions without a partition, the first
\* sight, the newest places (patterns.rs, evals/runner.rs, run_episode).
THEOREM PatternsAreCompared == PatternsSpec /\ EpisodeSpec => []PatternsCover
<1>1. EpisodeSpec => []EpisodeIInv
  BY EpisodeInitIInv, EpisodeNextIInv, PTL DEF EpisodeSpec
<1>2. PatternsIInv /\ EpisodeIInv => PatternsCover
  BY SweepIsWhole, EpisodeIsAccounted DEF PatternsCover
<1> QED
  BY <1>1, <1>2, PatternsKeepIInv, PTL
===============================================================================
