---------------------- MODULE LatentMeshSessionProofs ------------------------
(***************************************************************************)
(* Theorems about LatentMeshSession, for every set of sources, poses,      *)
(* epochs and clock errors and every value of the bounds.                  *)
(***************************************************************************)
EXTENDS LatentMeshSession, FiniteSetTheorems, TLAPS

-----------------------------------------------------------------------------
(* Deltas *)

\* A delta says no more than its base and its result do.
WellFormed(delta) == delta = Between(delta.base, delta.result)

\* What encoding and applying have to do with each other: a delta that was
\* made by between() yields its result on the base it names.
LEMMA ApplyBetween ==
  ASSUME NEW delta \in Delta, WellFormed(delta)
  PROVE  Apply(delta, delta.base) = delta.result
<1>1. delta.result = [stamp |-> delta.result.stamp, pose |-> delta.result.pose,
                      status |-> delta.result.status]
  BY DEF Delta, CriticalState
<1>2. ASSUME NEW f \in {"stamp", "pose", "status"}
      PROVE  f \in delta.changed \/ delta.base[f] = delta.result[f]
  BY DEF WellFormed, Between
<1> QED
  BY <1>1, <1>2 DEF Apply

LEMMA BetweenType ==
  ASSUME NEW base \in CriticalState \cup {NoState}, NEW target \in CriticalState
  PROVE  /\ Between(base, target) \in Delta
         /\ WellFormed(Between(base, target))
         /\ Between(base, target).base = base
         /\ Between(base, target).result = target
  BY DEF Between, Delta, WellFormed

-----------------------------------------------------------------------------
(* The inductive invariant *)

SentWellFormed == \A m \in sent : WellFormed(m.delta)

\* Still to be restored are the sources that have a durable checkpoint and no
\* runtime: a runtime goes only with a restart, and comes back only after the
\* checkpoint has been restored.
PendingIsUnrestored ==
  \A s \in Source : s \in pending <=> (peers[s] = NoPeer /\ store[s] # NoCheckpoint)

IInv == TypeOK /\ SentWellFormed /\ PendingIsUnrestored /\ SnapshotIsSent /\ CapacityBounded

\* A step on one source keeps the bound: it had its slot already, or the set of
\* tracked sources was not full.
LEMMA OneMoreSource ==
  ASSUME IInv, NEW s \in Source, HasSlot(s), ActiveSources' \subseteq ActiveSources \cup {s}
  PROVE  CapacityBounded'
<1>1. ActiveSources \subseteq Source
  BY DEF IInv, TypeOK, RxTypeOK, ActiveSources
<1>2. IsFiniteSet(ActiveSources) /\ Cardinality(ActiveSources) \in Nat
  BY <1>1, RxAssumption, FS_Subset, FS_CardinalityType
<1> DEFINE more == ActiveSources \cup {s}
<1>3. IsFiniteSet(more) /\ Cardinality(more) \in Nat /\ Cardinality(more) <= MaxPeers
  <2>1. CASE s \in ActiveSources
    <3>1. more = ActiveSources
      BY <2>1
    <3> QED
      BY <1>2, <3>1 DEF IInv, CapacityBounded
  <2>2. CASE s \notin ActiveSources
    <3>1. Cardinality(ActiveSources) < MaxPeers
      BY <1>2, <2>2, RxAssumption DEF IInv, CapacityBounded, HasSlot
    <3>2. IsFiniteSet(more) /\ Cardinality(more) = Cardinality(ActiveSources) + 1
      BY <1>2, <2>2, FS_AddElement
    <3> QED
      BY <1>2, <3>1, <3>2, RxAssumption
  <2> QED
    BY <2>1, <2>2
<1>4. IsFiniteSet(ActiveSources') /\ Cardinality(ActiveSources') <= Cardinality(more)
  BY <1>3, FS_Subset
<1>5. Cardinality(ActiveSources') \in Nat
  BY <1>4, FS_CardinalityType
<1> QED
  BY <1>3, <1>4, <1>5, RxAssumption DEF CapacityBounded

LEMMA InitIInv == Init => IInv
<1> SUFFICES ASSUME Init PROVE IInv
  OBVIOUS
<1>1. NewSession(0) \in TxSession
  BY TxAssumption DEF NewSession, TxSession
<1>2. TypeOK
  BY <1>1, TxAssumption DEF Init, TypeOK, TxTypeOK, RxTypeOK, TxInit, RxInit
<1>3. SentWellFormed /\ PendingIsUnrestored
  BY DEF Init, TxInit, SentWellFormed, PendingIsUnrestored
<1>4. SnapshotIsSent
  BY DEF Init, RxInit, SnapshotIsSent
<1>5. CapacityBounded
  <2>1. ActiveSources = {}
    BY DEF Init, RxInit, ActiveSources
  <2> QED
    BY <2>1, FS_EmptySet, RxAssumption DEF CapacityBounded
<1> QED
  BY <1>2, <1>3, <1>4, <1>5 DEF IInv

-----------------------------------------------------------------------------
(* Steps of the senders *)

\* A sender's step changes nothing the receiver holds, and SnapshotIsSent only
\* asks for messages that were sent: it is enough that none is taken back.
LEMMA MoreSentKeepsSnapshots ==
  ASSUME SnapshotIsSent, UNCHANGED peers, sent \subseteq sent'
  PROVE  SnapshotIsSent'
  BY DEF SnapshotIsSent, MarkOf

LEMMA SendIInv ==
  ASSUME IInv, NEW s \in Source, Send(s)
  PROVE  IInv'
<1>1. PICK d \in ClockError, pose \in Pose, status \in Status :
        /\ now + d >= 0
        /\ EncodeAdvisoryState(s, [stamp |-> now + d, pose |-> pose, status |-> status])
  BY DEF Send
<1> DEFINE target == [stamp |-> now + d, pose |-> pose, status |-> status]
           m == [src |-> s, epoch |-> tx[s].epoch, seq |-> tx[s].next,
                 delta |-> NextDelta(s, target)]
<1>2. target \in CriticalState
  BY <1>1, SessionAssumption DEF IInv, TypeOK, CriticalState
<1>3. tx[s] \in TxSession /\ tx[s].next \in 0 .. MaxSeq
  BY <1>1, TxAssumption DEF IInv, TypeOK, TxTypeOK, TxSession, EncodeAdvisoryState
<1> HIDE DEF target
<1>4. m.delta \in Delta /\ WellFormed(m.delta)
  BY <1>2, <1>3, BetweenType DEF NextDelta, TxSession
<1>5. m \in Message
  BY <1>3, <1>4 DEF Message, TxSession
<1>6. sent' = sent \cup {m}
  BY <1>1 DEF EncodeAdvisoryState, target
<1>7. tx' = [tx EXCEPT ![s] = [epoch |-> tx[s].epoch, next |-> tx[s].next + 1,
                               last |-> target]]
  BY <1>1 DEF EncodeAdvisoryState, target
<1>8. TxTypeOK'
  <2>1. tx[s].next + 1 \in 0 .. MaxSeq + 1
    BY <1>3, TxAssumption
  <2>2. [epoch |-> tx[s].epoch, next |-> tx[s].next + 1, last |-> target] \in TxSession
    BY <1>2, <1>3, <2>1 DEF TxSession
  <2> QED
    BY <1>5, <1>6, <1>7, <2>2 DEF IInv, TypeOK, TxTypeOK
<1>9. TypeOK'
  BY <1>8 DEF Send, IInv, TypeOK, RxTypeOK, rxVars
<1>10. SentWellFormed' /\ PendingIsUnrestored' /\ CapacityBounded'
  BY <1>4, <1>6
     DEF Send, IInv, SentWellFormed, PendingIsUnrestored, CapacityBounded, ActiveSources, rxVars
<1>11. SnapshotIsSent'
  BY <1>6, MoreSentKeepsSnapshots DEF Send, IInv, rxVars
<1> QED
  BY <1>9, <1>10, <1>11 DEF IInv

LEMMA NewSessionIInv ==
  ASSUME IInv, NEW s \in Source, NEW e \in Epoch,
         tx' = [tx EXCEPT ![s] = NewSession(e)],
         UNCHANGED <<sent, rxVars, now, store, pending>>
  PROVE  IInv'
<1>1. NewSession(e) \in TxSession
  BY TxAssumption DEF NewSession, TxSession
<1>2. TypeOK'
  BY <1>1 DEF IInv, TypeOK, TxTypeOK, RxTypeOK, rxVars
<1>3. SentWellFormed' /\ PendingIsUnrestored' /\ SnapshotIsSent' /\ CapacityBounded'
  BY MoreSentKeepsSnapshots
     DEF IInv, SentWellFormed, PendingIsUnrestored, CapacityBounded, ActiveSources, rxVars
<1> QED
  BY <1>2, <1>3 DEF IInv

-----------------------------------------------------------------------------
(* Steps of the receiver *)

LEMMA WireType == \A m \in Message : Wire(m) \in Wires
<1> SUFFICES ASSUME NEW m \in Message PROVE m.seq % WireMod \in Wires
  BY DEF Wire
<1>1. m.seq \in Nat
  BY TxAssumption DEF Message
<1> QED
  BY <1>1, AirAssumption DEF Wires

LEMMA CommitType ==
  ASSUME NEW window \in ReplayWindow, NEW n \in Wires
  PROVE  Commit(window, n) \in ReplayWindow
  BY DEF Commit, ReplayWindow

LEMMA EmptyWindowType == EmptyWindow \in ReplayWindow
  BY DEF EmptyWindow, ReplayWindow

\* The hash check is what makes the result of an admitted delta the state its
\* sender encoded: the base applied to is then the base it was made from.
LEMMA ResultIsSent ==
  ASSUME NEW p, NEW m \in Message, WellFormed(m.delta), AppliesTo(m.delta, Base(p, m))
  PROVE  Result(p, m) = m.delta.result
<1>1. Base(p, m) = m.delta.base
  BY DEF AppliesTo
<1> QED
  BY <1>1, ApplyBetween DEF Result, Message

LEMMA MessageParts ==
  ASSUME NEW m \in Message
  PROVE  m.src \in Source /\ m.epoch \in Nat /\ m.seq \in Nat /\ m.delta.result \in CriticalState
<1>1. m.src \in Source /\ m.epoch \in Epoch /\ m.seq \in 0 .. MaxSeq /\ m.delta \in Delta
  BY DEF Message
<1>2. m.epoch \in Nat
  BY <1>1, TxAssumption
<1>3. m.seq \in Nat
  BY <1>1, TxAssumption
<1>4. m.delta.result \in CriticalState
  BY <1>1 DEF Delta
<1> QED
  BY <1>1, <1>2, <1>3, <1>4

LEMMA AdmittedPeerType ==
  ASSUME NEW p \in PeerRuntime \cup {NoPeer}, NEW m \in Message, NEW t \in Nat,
         WellFormed(m.delta), AppliesTo(m.delta, Base(p, m))
  PROVE  AdmittedPeer(p, m, t) \in PeerRuntime
<1>1. m.epoch \in Nat /\ m.seq \in Nat /\ m.delta.result \in CriticalState
  BY MessageParts
<1>2. Window(p, m) \in ReplayWindow
  BY EmptyWindowType DEF Window, SameEpoch, PeerRuntime
<1>3. Commit(Window(p, m), Wire(m)) \in ReplayWindow
  BY <1>2, WireType, CommitType
<1>4. Result(p, m) = m.delta.result
  BY ResultIsSent
<1> HIDE DEF Message
<1>5. m.delta.result.stamp \in Nat
  BY <1>1 DEF CriticalState
<1> QED
  BY <1>1, <1>3, <1>4, <1>5 DEF AdmittedPeer, PeerRuntime

LEMMA AdmitIInv ==
  ASSUME IInv, NEW m \in sent, Admit(m)
  PROVE  IInv'
<1> DEFINE s == m.src
           p == AdmittedPeer(peers[s], m, now)
<1>1. /\ m \in Message /\ s \in Source /\ WellFormed(m.delta)
      /\ peers[s] \in PeerRuntime \cup {NoPeer}
      /\ now \in Nat
  BY DEF IInv, TypeOK, TxTypeOK, RxTypeOK, SentWellFormed, Message
<1>2. AppliesTo(m.delta, Base(peers[s], m))
  BY DEF Admit, AdmitComplete, Admits
<1>3. peers' = [peers EXCEPT ![s] = p]
  BY DEF Admit, AdmitComplete
<1>4. p \in PeerRuntime
  BY <1>1, <1>2, AdmittedPeerType
<1>5. TypeOK'
  BY <1>1, <1>3, <1>4
     DEF Admit, AdmitComplete, TakeSlot, IInv, TypeOK, TxTypeOK, RxTypeOK, txVars
<1>6. SentWellFormed' /\ PendingIsUnrestored' /\ CapacityBounded'
  <2>1. SentWellFormed'
    BY DEF Admit, IInv, SentWellFormed, txVars
  <2>2. s \notin pending /\ UNCHANGED <<pending, store>> /\ HasSlot(s)
    BY DEF Admit, AdmitComplete, TakeSlot
  <2> HIDE DEF p
  <2>3. p # NoPeer
    BY <1>4, RxAssumption
  <2>4. PendingIsUnrestored'
    BY <1>1, <1>3, <2>2, <2>3 DEF IInv, TypeOK, RxTypeOK, PendingIsUnrestored
  <2>5. ActiveSources' \subseteq ActiveSources \cup {s}
    BY <1>1, <1>3 DEF Admit, AdmitComplete, TakeSlot, ActiveSources, IInv, TypeOK, RxTypeOK
  <2> QED
    BY <1>1, <2>1, <2>2, <2>4, <2>5, OneMoreSource
<1>7. SnapshotIsSent'
  <2>1. /\ p.epoch = m.epoch /\ p.seq = m.seq
        /\ p.critical = m.delta.result
    BY <1>1, <1>2, ResultIsSent DEF AdmittedPeer
  <2> SUFFICES ASSUME NEW q \in Source, peers'[q] # NoPeer,
                      peers'[q].critical # NoState
               PROVE  \E k \in sent : /\ k.src = q
                                      /\ MarkOf(k) = MarkOf(peers'[q])
                                      /\ k.delta.result = peers'[q].critical
    BY DEF SnapshotIsSent, Admit, txVars, MarkOf
  <2>2. CASE q = s
    <3>1. peers'[q] = p
      BY <1>1, <1>3, <2>2 DEF IInv, TypeOK, RxTypeOK
    <3> HIDE DEF p
    <3> QED
      BY <2>1, <2>2, <3>1 DEF MarkOf
  <2>3. CASE q # s
    <3>1. peers'[q] = peers[q]
      BY <1>3, <2>3 DEF IInv, TypeOK, RxTypeOK
    <3> QED
      BY <3>1 DEF IInv, SnapshotIsSent, MarkOf
  <2> QED
    BY <2>2, <2>3
<1> QED
  BY <1>5, <1>6, <1>7 DEF IInv

LEMMA RejectIInv ==
  ASSUME IInv, NEW m \in sent, Reject(m)
  PROVE  IInv'
<1>1. m.src \in Source
  BY DEF IInv, TypeOK, TxTypeOK, Message
<1>2. TypeOK'
  BY <1>1 DEF Reject, RejectComplete, TakeSlot, IInv, TypeOK, TxTypeOK, RxTypeOK, txVars
<1>3. SentWellFormed' /\ PendingIsUnrestored' /\ SnapshotIsSent'
  BY DEF Reject, RejectComplete, IInv, SentWellFormed, PendingIsUnrestored, SnapshotIsSent,
         MarkOf, txVars
<1>4. ActiveSources' \subseteq ActiveSources \cup {m.src}
  BY DEF Reject, RejectComplete, TakeSlot, ActiveSources
<1>5. CapacityBounded'
  BY <1>1, <1>4, OneMoreSource DEF Reject, RejectComplete, TakeSlot
<1> QED
  BY <1>2, <1>3, <1>5 DEF IInv

LEMMA ExpireIInv == ASSUME IInv, Expire PROVE IInv'
<1> DEFINE stale(s) == [peers[s] EXCEPT !.critical = NoState, !.needKeyframe = TRUE]
<1>1. peers' = [s \in Source |-> IF Expired(peers[s], now) THEN stale(s) ELSE peers[s]]
  BY DEF Expire, ExpireStale
<1>2. ASSUME NEW s \in Source, Expired(peers[s], now)
      PROVE  stale(s) \in PeerRuntime /\ stale(s).critical = NoState
  <2>1. peers[s] \in PeerRuntime
    BY <1>2 DEF IInv, TypeOK, RxTypeOK, Expired
  <2> QED
    BY <2>1 DEF PeerRuntime
<1> HIDE DEF stale
<1>3. TypeOK'
  <2>1. \A s \in Source : peers'[s] \in PeerRuntime \cup {NoPeer}
    BY <1>1, <1>2 DEF IInv, TypeOK, RxTypeOK
  <2>2. peers' \in [Source -> PeerRuntime \cup {NoPeer}]
    BY <1>1, <2>1
  <2> QED
    BY <2>2 DEF Expire, ExpireStale, IInv, TypeOK, TxTypeOK, RxTypeOK, txVars
<1>4. ASSUME NEW s \in Source PROVE peers'[s] = NoPeer <=> peers[s] = NoPeer
  BY <1>1, <1>2, RxAssumption DEF Expired
<1>5. SentWellFormed' /\ PendingIsUnrestored' /\ CapacityBounded'
  <2>1. SentWellFormed' /\ UNCHANGED <<pending, store, ingress>>
    BY DEF Expire, ExpireStale, IInv, SentWellFormed, txVars
  <2>2. PendingIsUnrestored'
    BY <1>4, <2>1 DEF IInv, PendingIsUnrestored
  <2>3. ActiveSources' = ActiveSources
    BY <1>4, <2>1 DEF ActiveSources
  <2> QED
    BY <2>1, <2>2, <2>3 DEF IInv, CapacityBounded
<1>6. SnapshotIsSent'
  BY <1>1, <1>2 DEF Expire, IInv, SnapshotIsSent, MarkOf, txVars
<1> QED
  BY <1>3, <1>5, <1>6 DEF IInv

LEMMA PersistIInv == ASSUME IInv, Persist PROVE IInv'
<1>1. ASSUME NEW s \in Source, peers[s] # NoPeer
      PROVE  CheckpointOf(peers[s]) \in Checkpoint
  BY <1>1 DEF IInv, TypeOK, RxTypeOK, PeerRuntime, CheckpointOf, Checkpoint
<1>2. TypeOK'
  BY <1>1 DEF Persist, IInv, TypeOK, TxTypeOK, RxTypeOK, txVars, rxVars
<1>3. SentWellFormed' /\ SnapshotIsSent'
  BY DEF Persist, IInv, SentWellFormed, SnapshotIsSent, MarkOf, txVars, rxVars
<1>4. PendingIsUnrestored'
  BY <1>1, SessionAssumption DEF Persist, IInv, PendingIsUnrestored, rxVars
<1>5. CapacityBounded'
  BY DEF Persist, IInv, CapacityBounded, ActiveSources, rxVars
<1> QED
  BY <1>2, <1>3, <1>4, <1>5 DEF IInv

LEMMA RestartIInv == ASSUME IInv, Restart PROVE IInv'
<1>1. TypeOK'
  BY DEF Restart, IInv, TypeOK, TxTypeOK, RxTypeOK, txVars
<1>2. SentWellFormed' /\ PendingIsUnrestored' /\ SnapshotIsSent'
  BY DEF Restart, IInv, SentWellFormed, PendingIsUnrestored, SnapshotIsSent, txVars
<1>3. CapacityBounded'
  <2>1. ActiveSources' = {}
    BY DEF Restart, ActiveSources
  <2> QED
    BY <2>1, FS_EmptySet, RxAssumption DEF CapacityBounded
<1> QED
  BY <1>1, <1>2, <1>3 DEF IInv

LEMMA RestoreIInv ==
  ASSUME IInv, NEW s \in Source, Restore(s)
  PROVE  IInv'
<1>1. store[s] \in Checkpoint
  BY DEF Restore, IInv, TypeOK, PendingIsUnrestored
<1>2. RestoredPeer(store[s]) \in PeerRuntime /\ RestoredPeer(store[s]).critical = NoState
  BY <1>1, EmptyWindowType DEF RestoredPeer, Checkpoint, PeerRuntime
<1>3. peers' = [peers EXCEPT ![s] = RestoredPeer(store[s])]
  BY DEF Restore, RestoreReplayCheckpoint
<1>4. TypeOK'
  BY <1>2, <1>3
     DEF Restore, RestoreReplayCheckpoint, IInv, TypeOK, TxTypeOK, RxTypeOK, txVars
<1>5. SentWellFormed' /\ PendingIsUnrestored'
  BY <1>2, <1>3, RxAssumption
     DEF Restore, IInv, TypeOK, RxTypeOK, SentWellFormed, PendingIsUnrestored, txVars
<1>6. SnapshotIsSent'
  BY <1>2, <1>3 DEF Restore, IInv, TypeOK, RxTypeOK, SnapshotIsSent, MarkOf, txVars
<1>7. CapacityBounded'
  <2>1. HasSlot(s)
    BY DEF Restore, RestoreReplayCheckpoint, HasSlot, ActiveSources
  <2>2. ActiveSources' \subseteq ActiveSources \cup {s}
    BY <1>3 DEF Restore, RestoreReplayCheckpoint, ActiveSources, IInv, TypeOK, RxTypeOK
  <2> QED
    BY <2>1, <2>2, OneMoreSource
<1> QED
  BY <1>4, <1>5, <1>6, <1>7 DEF IInv

-----------------------------------------------------------------------------
(* The theorems *)

LEMMA NextIInv == IInv /\ [Next]_vars => IInv'
<1> SUFFICES ASSUME IInv, [Next]_vars PROVE IInv'
  OBVIOUS
<1>1. ASSUME NEW s \in Source, Send(s) PROVE IInv'
  BY <1>1, SendIInv
<1>2. ASSUME NEW s \in Source, Rotate(s) PROVE IInv'
  BY <1>2, NewSessionIInv DEF Rotate, RotateEpoch
<1>3. ASSUME NEW s \in Source, SenderRestart(s) PROVE IInv'
  BY <1>3, NewSessionIInv DEF SenderRestart, RestartSender
<1>4. ASSUME NEW m \in sent, Admit(m) PROVE IInv'
  BY <1>4, AdmitIInv
<1>5. ASSUME NEW m \in sent, Reject(m) PROVE IInv'
  BY <1>5, RejectIInv
<1>6. CASE Expire
  BY <1>6, ExpireIInv
<1>7. CASE Persist
  BY <1>7, PersistIInv
<1>8. CASE Restart
  BY <1>8, RestartIInv
<1>9. ASSUME NEW s \in Source, Restore(s) PROVE IInv'
  BY <1>9, RestoreIInv
<1>10. CASE Tick
  BY <1>10 DEF Tick, IInv, TypeOK, TxTypeOK, RxTypeOK, SentWellFormed,
               PendingIsUnrestored, SnapshotIsSent, CapacityBounded, ActiveSources,
               MarkOf, txVars, rxVars
<1>11. CASE UNCHANGED vars
  BY <1>11 DEF vars, IInv, TypeOK, TxTypeOK, RxTypeOK, SentWellFormed,
               PendingIsUnrestored, SnapshotIsSent, CapacityBounded, ActiveSources,
               MarkOf, rxVars, txVars
<1> QED
  BY <1>1, <1>2, <1>3, <1>4, <1>5, <1>6, <1>7, <1>8, <1>9, <1>10, <1>11
     DEF Next, SenderNext, ReceiverNext

LEMMA SpecIInv == Spec => []IInv
  BY InitIInv, NextIInv, PTL DEF Spec

\* Every variable of the session layer keeps its type: in particular what a
\* receiver stores on admitting a delta is a complete state, never the result of
\* overwriting some fields of no state at all (LatentMeshRxSession::admit_complete).
THEOREM TypeCorrect == Spec => []TypeOK
<1>1. IInv => TypeOK
  BY DEF IInv
<1> QED
  BY <1>1, SpecIInv, PTL

\* The state a receiver holds for a source is the state that source encoded
\* under the held epoch and sequence (admit_complete, expire_stale and
\* restore_replay_checkpoint), for any loss, duplication and reordering, any
\* restarts of either side and any number of sources.
THEOREM HeldStateWasSent == Spec => []SnapshotIsSent
<1>1. IInv => SnapshotIsSent
  BY DEF IInv
<1> QED
  BY <1>1, SpecIInv, PTL

\* However sources, ingress slots and restored checkpoints come and go, no more
\* than max_peers sources are tracked (ingest_frame and
\* restore_replay_checkpoint), for any number of sources.
THEOREM CapacityKept == Spec => []CapacityBounded
<1>1. IInv => CapacityBounded
  BY DEF IInv
<1> QED
  BY <1>1, SpecIInv, PTL

-----------------------------------------------------------------------------
(* The replay window and the chain *)

LEMMA ModSum ==
  ASSUME NEW w \in Nat \ {0}, NEW k \in Int, NEW r \in 0 .. w - 1
  PROVE  (w * k + r) % w = r
  OBVIOUS

\* Sequence numbers less than the wire space apart are as far apart on the wire.
LEMMA WireDistance ==
  ASSUME NEW w \in Nat \ {0}, NEW a \in Nat, NEW b \in Nat, a - b \in 0 .. w - 1
  PROVE  ((a % w) - (b % w)) % w = a - b
<1> DEFINE qa == a \div w
           qb == b \div w
           ra == a % w
           rb == b % w
           k  == qb - qa
           d  == a - b
<1>1. /\ a = w * qa + ra /\ ra \in 0 .. w - 1 /\ qa \in Int
      /\ b = w * qb + rb /\ rb \in 0 .. w - 1 /\ qb \in Int
  OBVIOUS
<1> HIDE DEF qa, qb, ra, rb
<1>2. ra - rb = w * k + d /\ k \in Int /\ d \in 0 .. w - 1
  BY <1>1
<1> HIDE DEF k, d
<1>3. (w * k + d) % w = d
  BY <1>2, ModSum
<1> QED
  BY <1>2, <1>3 DEF ra, rb, d

\* A message ahead of the mark by less than half the wire space is one the
\* replay window accepts.
LEMMA AheadIsUnreplayed ==
  ASSUME NEW p \in PeerRuntime, NEW m \in Message, InStep(p),
         m.seq - p.seq \in 1 .. (WireMod - 1) \div 2
  PROVE  Unreplayed(p.window, Wire(m))
<1>1. m.seq \in Nat /\ p.seq \in Nat
  BY TxAssumption DEF Message, PeerRuntime
<1>2. m.seq - p.seq \in 0 .. WireMod - 1
  BY <1>1, AirAssumption
<1>3. ((m.seq % WireMod) - (p.seq % WireMod)) % WireMod = m.seq - p.seq
  BY <1>1, <1>2, WireDistance, AirAssumption
<1>4. AheadOf(p.window, Wire(m))
  BY <1>3 DEF AheadOf, Wire, InStep
<1> QED
  BY <1>4 DEF Unreplayed

\* Within an epoch the receiver knows, admit_complete refuses no timely keyframe
\* that is newer than the mark by less than half the wire space, whatever was
\* lost, expired or restored before, for every size of the wire space.
THEOREM KeyframeAlwaysRepairs == Spec => []KeyframeRepairs
<1>1. ASSUME IInv PROVE KeyframeRepairs
  <2> SUFFICES ASSUME NEW m \in sent,
                      peers[m.src] # NoPeer,
                      InStep(peers[m.src]),
                      Keyframe(m), m.epoch = peers[m.src].epoch,
                      m.seq - peers[m.src].seq \in 1 .. (WireMod - 1) \div 2,
                      m.delta.result.stamp >= peers[m.src].stamp,
                      Timely(m)
               PROVE  Admits(peers[m.src], m, now)
    BY DEF KeyframeRepairs
  <2> DEFINE p == peers[m.src]
  <2>1. m \in Message /\ p \in PeerRuntime /\ WellFormed(m.delta)
    BY <1>1 DEF IInv, TypeOK, TxTypeOK, RxTypeOK, SentWellFormed, Message
  <2>2. SameEpoch(p, m)
    BY DEF SameEpoch
  <2>3. ChainAccepts(p, m)
    BY <2>2 DEF ChainAccepts
  <2>4. NotReplayed(p, m)
    <3>1. Unreplayed(p.window, Wire(m))
      BY <2>1, AheadIsUnreplayed
    <3>2. m.seq \in Nat /\ p.seq \in Nat
      BY <2>1, TxAssumption DEF Message, PeerRuntime
    <3> QED
      BY <2>2, <3>1, <3>2, AirAssumption DEF NotReplayed, Window
  <2>5. AppliesTo(m.delta, Base(p, m))
    BY DEF AppliesTo, Base, Keyframe
  <2>6. Result(p, m) = m.delta.result
    BY <2>1, <2>5, ResultIsSent
  <2>7. StampAccepts(p, m, now)
    BY <2>6 DEF StampAccepts, Timely
  <2> QED
    BY <2>3, <2>4, <2>5, <2>7 DEF Admits
<1>2. IInv => KeyframeRepairs
  BY <1>1
<1> QED
  BY <1>2, SpecIInv, PTL

-----------------------------------------------------------------------------
(* What each step does to the marks, the views and the durable marks that   *)
(* the refinement mapping shows.                                            *)

LEMMA StillBars ==
  ASSUME UNCHANGED <<peers, store, pending>>
  PROVE  UNCHANGED <<MarkBar, ViewBar, SavedBar>> /\ \A s \in Source : UNCHANGED StampOf(s)
<1>1. UNCHANGED MarkBar
  BY DEF MarkBar
<1>2. UNCHANGED ViewBar /\ UNCHANGED SavedBar
  BY DEF ViewBar, SavedBar
<1> QED
  BY <1>1, <1>2 DEF StampOf

LEMMA AdmitBars ==
  ASSUME IInv, NEW m \in sent, Admit(m)
  PROVE  /\ m.src \in Source
         /\ MarkBar' = [MarkBar EXCEPT ![m.src] = MarkOf(m)]
         /\ ViewBar' = [ViewBar EXCEPT ![m.src] = m.delta.result]
         /\ SavedBar' = SavedBar
         /\ Ledger!Newer(MarkOf(m), MarkBar[m.src])
         /\ ViewBar[m.src] = NoState => Keyframe(m)
         /\ (MarkBar[m.src] # <<-1, -1>> /\ m.epoch = MarkBar[m.src][1]) =>
              StampOf(m.src)' >= StampOf(m.src)
         /\ m.epoch \in Nat /\ StampOf(m.src)' \in Nat
         /\ \A s \in Source \ {m.src} : UNCHANGED StampOf(s)
<1> DEFINE s == m.src
           old == peers[s]
           p == AdmittedPeer(old, m, now)
<1>1. /\ m \in Message /\ s \in Source /\ WellFormed(m.delta)
      /\ old \in PeerRuntime \cup {NoPeer} /\ now \in Nat
      /\ m.epoch \in Nat /\ m.seq \in Nat
  <2>1. /\ m \in Message /\ s \in Source /\ WellFormed(m.delta)
        /\ old \in PeerRuntime \cup {NoPeer} /\ now \in Nat
    BY DEF IInv, TypeOK, TxTypeOK, RxTypeOK, SentWellFormed, Message
  <2> QED
    BY <2>1, MessageParts
<1>2. Admits(old, m, now) /\ AppliesTo(m.delta, Base(old, m))
  BY DEF Admit, AdmitComplete, Admits
<1>3. peers' = [peers EXCEPT ![s] = p] /\ UNCHANGED <<store, pending>> /\ s \notin pending
  BY DEF Admit, AdmitComplete
<1>4. p \in PeerRuntime /\ p # NoPeer
  BY <1>1, <1>2, AdmittedPeerType, RxAssumption
<1>5. Result(old, m) = m.delta.result
  BY <1>1, <1>2, ResultIsSent
<1>6. /\ p.epoch = m.epoch /\ p.seq = m.seq
      /\ p.critical = m.delta.result /\ p.stamp = m.delta.result.stamp
  BY <1>5 DEF AdmittedPeer
<1> HIDE DEF p
<1>7. peers'[s] = p /\ \A q \in Source \ {s} : peers'[q] = peers[q]
  BY <1>1, <1>3 DEF IInv, TypeOK, RxTypeOK
<1>8. MarkBar' = [MarkBar EXCEPT ![s] = MarkOf(m)]
  <2>1. MarkBar'[s] = MarkOf(m)
    BY <1>1, <1>4, <1>6, <1>7 DEF MarkBar, MarkOf
  <2>2. ASSUME NEW q \in Source, q # s PROVE MarkBar'[q] = MarkBar[q]
    BY <1>3, <1>7, <2>2 DEF MarkBar, MarkOf
  <2> QED
    BY <1>1, <2>1, <2>2 DEF MarkBar
<1>9. ViewBar' = [ViewBar EXCEPT ![s] = m.delta.result]
  BY <1>1, <1>4, <1>6, <1>7 DEF ViewBar
<1>10. SavedBar' = SavedBar
  BY <1>3 DEF SavedBar
<1>11. MarkBar[s] = IF old # NoPeer THEN <<old.epoch, old.seq>> ELSE <<-1, -1>>
  BY <1>1, <1>3 DEF MarkBar, MarkOf
<1>12. old # NoPeer => old.epoch \in Nat /\ old.seq \in Nat /\ old.stamp \in Nat
  BY <1>1 DEF PeerRuntime
<1>13. Ledger!Newer(MarkOf(m), MarkBar[s])
  <2>1. MarkOf(m) = <<m.epoch, m.seq>>
    BY DEF MarkOf
  <2>2. CASE old = NoPeer
    BY <1>1, <1>11, <2>1, <2>2 DEF Ledger!Newer
  <2>3. CASE old # NoPeer
    <3>1. m.epoch > old.epoch \/ (m.epoch = old.epoch /\ m.seq > old.seq)
      BY <1>2, <2>3 DEF Admits, ChainAccepts, NotReplayed, SameEpoch
    <3> QED
      BY <1>11, <1>12, <2>1, <2>3, <3>1 DEF Ledger!Newer
  <2> QED
    BY <2>2, <2>3
<1>14. ViewBar[s] = NoState => Keyframe(m)
  BY <1>1, <1>2 DEF ViewBar, Admits, ChainAccepts, SameEpoch
<1>15. (MarkBar[s] # <<-1, -1>> /\ m.epoch = MarkBar[s][1]) =>
         StampOf(s)' >= StampOf(s)
  <2> SUFFICES ASSUME old # NoPeer, m.epoch = old.epoch
               PROVE  StampOf(s)' >= StampOf(s)
    BY <1>11
  <2>1. m.delta.result.stamp >= old.stamp
    BY <1>2, <1>5 DEF Admits, StampAccepts, SameEpoch
  <2>2. StampOf(s)' = m.delta.result.stamp
    BY <1>4, <1>6, <1>7 DEF StampOf
  <2> QED
    BY <2>1, <2>2 DEF StampOf
<1>16. \A q \in Source \ {s} : UNCHANGED StampOf(q)
  BY <1>3, <1>7 DEF StampOf
<1>17. StampOf(s)' \in Nat
  BY <1>4, <1>7 DEF StampOf, PeerRuntime
<1> QED
  BY <1>1, <1>8, <1>9, <1>10, <1>13, <1>14, <1>15, <1>16, <1>17

LEMMA ExpireBars ==
  ASSUME IInv, Expire
  PROVE  /\ UNCHANGED <<MarkBar, SavedBar>>
         /\ \A s \in Source : UNCHANGED StampOf(s)
         /\ \E S \in SUBSET Source :
              ViewBar' = [s \in Source |-> IF s \in S THEN NoState ELSE ViewBar[s]]
<1>1. peers' = [s \in Source |->
                  IF Expired(peers[s], now)
                  THEN [peers[s] EXCEPT !.critical = NoState, !.needKeyframe = TRUE]
                  ELSE peers[s]]
      /\ UNCHANGED <<store, pending>>
  BY DEF Expire, ExpireStale
<1>2. ASSUME NEW s \in Source, Expired(peers[s], now)
      PROVE  /\ peers[s] # NoPeer /\ peers'[s] # NoPeer
             /\ peers'[s].epoch = peers[s].epoch /\ peers'[s].seq = peers[s].seq
             /\ peers'[s].stamp = peers[s].stamp
             /\ peers'[s].critical = NoState
  <2>1. peers[s] \in PeerRuntime /\ peers[s] # NoPeer
    BY <1>2 DEF IInv, TypeOK, RxTypeOK, Expired
  <2>2. peers'[s] = [peers[s] EXCEPT !.critical = NoState, !.needKeyframe = TRUE]
    BY <1>1, <1>2
  <2>3. peers'[s] \in PeerRuntime
    BY <2>1, <2>2 DEF PeerRuntime
  <2> QED
    BY <2>1, <2>2, <2>3, RxAssumption DEF PeerRuntime
<1>3. ASSUME NEW s \in Source, ~Expired(peers[s], now) PROVE peers'[s] = peers[s]
  BY <1>1, <1>3
<1>4. UNCHANGED MarkBar
  <2>1. ASSUME NEW s \in Source PROVE MarkBar'[s] = MarkBar[s]
    <3>1. CASE Expired(peers[s], now)
      BY <1>2, <3>1 DEF MarkBar, MarkOf
    <3>2. CASE ~Expired(peers[s], now)
      BY <1>1, <1>3, <3>2 DEF MarkBar, MarkOf
    <3> QED
      BY <3>1, <3>2
  <2> QED
    BY <2>1 DEF MarkBar
<1>5. UNCHANGED SavedBar
  BY <1>1 DEF SavedBar
<1>6. \A s \in Source : UNCHANGED StampOf(s)
  BY <1>1, <1>2, <1>3 DEF StampOf
<1>7. ViewBar' = [s \in Source |-> IF s \in {q \in Source : Expired(peers[q], now)}
                                   THEN NoState ELSE ViewBar[s]]
  BY <1>2, <1>3 DEF ViewBar
<1> QED
  BY <1>4, <1>5, <1>6, <1>7

LEMMA PersistBars ==
  ASSUME IInv, Persist
  PROVE  /\ UNCHANGED <<MarkBar, ViewBar>>
         /\ SavedBar' = MarkBar
         /\ \A s \in Source : MarkBar[s] # <<-1, -1>> => UNCHANGED StampOf(s)
<1>1. /\ UNCHANGED <<peers, pending>>
      /\ \A s \in Source : store'[s] = IF peers[s] = NoPeer THEN store[s]
                                        ELSE CheckpointOf(peers[s])
  BY DEF Persist, rxVars
<1>2. ASSUME NEW s \in Source, peers[s] # NoPeer PROVE CheckpointOf(peers[s]) \in Checkpoint
  BY <1>2 DEF IInv, TypeOK, RxTypeOK, PeerRuntime, CheckpointOf, Checkpoint
<1>3. ASSUME NEW s \in Source, peers[s] = NoPeer
      PROVE  s \in pending <=> store[s] # NoCheckpoint
  BY <1>3 DEF IInv, PendingIsUnrestored
<1>4. UNCHANGED MarkBar
  BY <1>1, <1>3 DEF MarkBar
<1>5. UNCHANGED ViewBar
  BY <1>1 DEF ViewBar
<1>6. ASSUME NEW s \in Source PROVE SavedBar'[s] = MarkBar[s]
  <2>1. CASE peers[s] = NoPeer
    BY <1>1, <1>3, <2>1 DEF SavedBar, MarkBar
  <2>2. CASE peers[s] # NoPeer
    <3>1. store'[s] = CheckpointOf(peers[s]) /\ store'[s] # NoCheckpoint
      BY <1>1, <1>2, <2>2, SessionAssumption
    <3> QED
      BY <2>2, <3>1 DEF SavedBar, MarkBar, MarkOf, CheckpointOf
  <2> QED
    BY <2>1, <2>2
<1>7. SavedBar' = MarkBar
  BY <1>6 DEF SavedBar, MarkBar
<1>8. \A s \in Source : MarkBar[s] # <<-1, -1>> => UNCHANGED StampOf(s)
  BY <1>1 DEF StampOf
<1> QED
  BY <1>4, <1>5, <1>7, <1>8

LEMMA RestartBars ==
  ASSUME IInv, Restart
  PROVE  /\ MarkBar' = SavedBar
         /\ ViewBar' = [s \in Source |-> NoState]
         /\ SavedBar' = SavedBar
  BY DEF Restart, MarkBar, ViewBar, SavedBar

LEMMA RestoreBars ==
  ASSUME IInv, NEW s \in Source, Restore(s)
  PROVE  /\ UNCHANGED <<MarkBar, ViewBar, SavedBar>>
         /\ \A q \in Source : UNCHANGED StampOf(q)
<1>1. /\ s \in pending /\ peers[s] = NoPeer /\ store[s] \in Checkpoint
      /\ peers' = [peers EXCEPT ![s] = RestoredPeer(store[s])]
      /\ pending' = pending \ {s} /\ UNCHANGED store
  BY DEF Restore, RestoreReplayCheckpoint, IInv, TypeOK, PendingIsUnrestored
<1>2. RestoredPeer(store[s]) \in PeerRuntime
  BY <1>1, EmptyWindowType DEF RestoredPeer, Checkpoint, PeerRuntime
<1>3. peers'[s] = RestoredPeer(store[s]) /\ \A q \in Source \ {s} : peers'[q] = peers[q]
  BY <1>1 DEF IInv, TypeOK, RxTypeOK
<1>4. RestoredPeer(store[s]) # NoPeer
  BY <1>2, RxAssumption
<1>5. ASSUME NEW q \in Source
      PROVE  MarkBar'[q] = MarkBar[q] /\ ViewBar'[q] = ViewBar[q] /\ UNCHANGED StampOf(q)
  <2>1. CASE q = s
    BY <1>1, <1>3, <1>4, <2>1 DEF MarkBar, MarkOf, ViewBar, StampOf, RestoredPeer
  <2>2. CASE q # s
    BY <1>1, <1>3, <2>2 DEF MarkBar, MarkOf, ViewBar, StampOf
  <2> QED
    BY <2>1, <2>2
<1>6. UNCHANGED MarkBar /\ UNCHANGED ViewBar
  BY <1>5 DEF MarkBar, ViewBar
<1>7. UNCHANGED SavedBar
  BY <1>1 DEF SavedBar
<1> QED
  BY <1>5, <1>6, <1>7

-----------------------------------------------------------------------------
(* The promise *)

LEMMA PublishedType == IInv => PublishedBar \subseteq Ledger!Publication
<1> SUFFICES ASSUME IInv, NEW m \in sent
             PROVE  [src |-> m.src, mark |-> MarkOf(m), state |-> m.delta.result]
                      \in Ledger!Publication
  BY DEF PublishedBar
<1>1. m \in Message
  BY DEF IInv, TypeOK, TxTypeOK
<1> QED
  BY <1>1, MessageParts DEF MarkOf, Ledger!Publication

\* What is published grows with what is sent, and with nothing else.
LEMMA PublishedGrows ==
  /\ sent \subseteq sent' => PublishedBar \subseteq PublishedBar'
  /\ UNCHANGED sent => UNCHANGED PublishedBar
  BY DEF PublishedBar, MarkOf

LEMMA PublishedTypeNext == IInv' => (PublishedBar \subseteq Ledger!Publication)'
  BY PublishedType, PTL

LEMMA SendersPublish ==
  ASSUME IInv, IInv', sent \subseteq sent', UNCHANGED <<peers, store, pending>>
  PROVE  Ledger!Publish
<1>1. PublishedBar' \subseteq Ledger!Publication
  BY PublishedTypeNext DEF Ledger!Publication
<1> QED
  BY <1>1, PublishedGrows, StillBars DEF Ledger!Publish

\* Every step of the session layer is a step of the ledger or changes nothing
\* the ledger shows.
LEMMA NextIsLedger == IInv /\ IInv' /\ [Next]_vars => [Ledger!Next]_(Ledger!vars)
<1> SUFFICES ASSUME IInv, IInv', [Next]_vars PROVE [Ledger!Next]_(Ledger!vars)
  OBVIOUS
<1>1. ASSUME NEW s \in Source, Send(s) \/ Rotate(s) \/ SenderRestart(s)
      PROVE  Ledger!Next
  <2>1. sent \subseteq sent' /\ UNCHANGED <<peers, store, pending>>
    BY <1>1 DEF Send, EncodeAdvisoryState, Rotate, RotateEpoch, SenderRestart, RestartSender,
                rxVars
  <2> QED
    BY <2>1, SendersPublish DEF Ledger!Next
<1>2. ASSUME NEW m \in sent, Admit(m) PROVE Ledger!Next
  <2> DEFINE p == [src |-> m.src, mark |-> MarkOf(m), state |-> m.delta.result]
  <2>1. p \in PublishedBar /\ UNCHANGED PublishedBar
    BY <1>2, PublishedGrows DEF PublishedBar, Admit, txVars
  <2>2. Ledger!Admit
    BY <1>2, <2>1, AdmitBars DEF Ledger!Admit
  <2> QED
    BY <2>2 DEF Ledger!Next
<1>3. CASE Expire
  <2>1. UNCHANGED PublishedBar
    BY <1>3, PublishedGrows DEF Expire, txVars
  <2>2. Ledger!Withdraw
    BY <1>3, <2>1, ExpireBars DEF Ledger!Withdraw
  <2> QED
    BY <2>2 DEF Ledger!Next
<1>4. CASE Persist
  <2>1. UNCHANGED PublishedBar
    BY <1>4, PublishedGrows DEF Persist, txVars
  <2>2. Ledger!Save
    BY <1>4, <2>1, PersistBars DEF Ledger!Save
  <2> QED
    BY <2>2 DEF Ledger!Next
<1>5. CASE Restart
  <2>1. UNCHANGED PublishedBar
    BY <1>5, PublishedGrows DEF Restart, txVars
  <2>2. Ledger!Recover
    BY <1>5, <2>1, RestartBars DEF Ledger!Recover
  <2> QED
    BY <2>2 DEF Ledger!Next
<1>6. ASSUME NEW s \in Source, Restore(s) PROVE UNCHANGED Ledger!vars
  <2>1. UNCHANGED PublishedBar
    BY <1>6, PublishedGrows DEF Restore, txVars
  <2> QED
    BY <1>6, <2>1, RestoreBars DEF Ledger!vars
<1>7. ASSUME UNCHANGED <<sent, peers, store, pending>> PROVE UNCHANGED Ledger!vars
  BY <1>7, PublishedGrows, StillBars DEF Ledger!vars
<1>8. ASSUME NEW m \in sent, Reject(m) PROVE UNCHANGED <<sent, peers, store, pending>>
  BY <1>8 DEF Reject, RejectComplete, txVars
<1>9. CASE Tick
  BY <1>7, <1>9 DEF Tick, txVars, rxVars
<1>10. CASE UNCHANGED vars
  BY <1>7, <1>10 DEF vars
<1> QED
  BY <1>1, <1>2, <1>3, <1>4, <1>5, <1>6, <1>7, <1>8, <1>9, <1>10
     DEF Next, SenderNext, ReceiverNext

\* The session layer implements AdvisoryLedger: over every loss, duplicate and
\* reordering and every restart of either side, a mark moves back only in a
\* restart and then to what replay_checkpoints() last made durable, and what is
\* shown of a source is withheld or what it published under its mark.
THEOREM SessionImplementsLedger == Spec => LedgerSpec
<1>1. Init => Ledger!Init
  BY DEF Init, TxInit, RxInit, Ledger!Init, Ledger!NoMark, PublishedBar, MarkBar, ViewBar,
         SavedBar
<1> QED
  BY <1>1, NextIsLedger, SpecIInv, PTL DEF Spec, LedgerSpec, Ledger!Spec

-----------------------------------------------------------------------------
(* Action properties *)

StampsDoNotGoBack(s) ==
  (MarkBar[s] # <<-1, -1>> /\ MarkBar'[s][1] = MarkBar[s][1]) =>
     \/ StampOf(s)' >= StampOf(s)
     \/ Restart /\ StampOf(s)' = store[s].stamp

\* Whatever has a mark has a stamp, held or durable.
LEMMA MarkedHasStamp ==
  ASSUME IInv, NEW s \in Source, MarkBar[s] # <<-1, -1>>
  PROVE  StampOf(s) \in Nat
<1>1. CASE peers[s] # NoPeer
  BY <1>1 DEF IInv, TypeOK, RxTypeOK, PeerRuntime, StampOf
<1>2. CASE peers[s] = NoPeer
  <2>1. s \in pending
    BY <1>2 DEF MarkBar
  <2>2. store[s] \in Checkpoint
    BY <2>1 DEF IInv, TypeOK, PendingIsUnrestored
  <2> QED
    BY <1>2, <2>2 DEF StampOf, Checkpoint
<1> QED
  BY <1>1, <1>2

LEMMA NextKeepsStamps ==
  ASSUME IInv, [Next]_vars, NEW s \in Source
  PROVE  StampsDoNotGoBack(s)
<1>1. ASSUME MarkBar[s] # <<-1, -1>> => UNCHANGED StampOf(s) PROVE StampsDoNotGoBack(s)
  BY <1>1, MarkedHasStamp DEF StampsDoNotGoBack
<1>2. ASSUME UNCHANGED <<peers, store, pending>> PROVE StampsDoNotGoBack(s)
  BY <1>1, <1>2, StillBars
<1>3. ASSUME NEW q \in Source, Send(q) \/ Rotate(q) \/ SenderRestart(q)
      PROVE  UNCHANGED <<peers, store, pending>>
  BY <1>3 DEF Send, Rotate, RotateEpoch, SenderRestart, RestartSender, rxVars
<1>4. ASSUME NEW m \in sent, Admit(m) PROVE StampsDoNotGoBack(s)
  <2>1. CASE m.src = s
    <3>1. MarkBar'[s] = MarkOf(m)
      BY <1>4, <2>1, AdmitBars DEF MarkBar
    <3> QED
      BY <1>4, <2>1, <3>1, AdmitBars DEF StampsDoNotGoBack, MarkOf
  <2>2. CASE m.src # s
    BY <1>1, <1>4, <2>2, AdmitBars
  <2> QED
    BY <2>1, <2>2
<1>5. ASSUME NEW m \in sent, Reject(m) PROVE UNCHANGED <<peers, store, pending>>
  BY <1>5 DEF Reject, RejectComplete
<1>6. CASE Expire
  BY <1>1, <1>6, ExpireBars
<1>7. CASE Persist
  BY <1>1, <1>7, PersistBars
<1>8. CASE Restart
  BY <1>8 DEF StampsDoNotGoBack, Restart, StampOf
<1>9. ASSUME NEW q \in Source, Restore(q) PROVE StampsDoNotGoBack(s)
  BY <1>1, <1>9, RestoreBars
<1>10. CASE Tick
  BY <1>2, <1>10 DEF Tick, rxVars
<1>11. CASE UNCHANGED vars
  BY <1>2, <1>11 DEF vars
<1> QED
  BY <1>2, <1>3, <1>4, <1>5, <1>6, <1>7, <1>8, <1>9, <1>10, <1>11
     DEF Next, SenderNext, ReceiverNext

\* What is durable of a source is of an epoch it has left, or its stamp is not
\* ahead of the one held.
DurableBehind ==
  \A s \in Source : store[s] # NoCheckpoint =>
    \/ MarkBar[s][1] > store[s].epoch
    \/ MarkBar[s][1] = store[s].epoch /\ StampOf(s) >= store[s].stamp

\* A source with something durable has a mark.
LEMMA DurableIsMarked ==
  ASSUME IInv, NEW s \in Source, store[s] # NoCheckpoint
  PROVE  /\ MarkBar[s] # <<-1, -1>> /\ MarkBar[s][1] \in Nat /\ StampOf(s) \in Nat
         /\ store[s].epoch \in Nat /\ store[s].stamp \in Nat
<1>1. store[s] \in Checkpoint
  BY DEF IInv, TypeOK
<1>2. store[s].epoch \in Nat /\ store[s].stamp \in Nat
  BY <1>1 DEF Checkpoint
<1>3. MarkBar[s] # <<-1, -1>> /\ MarkBar[s][1] \in Nat
  <2>1. CASE peers[s] # NoPeer
    <3>1. peers[s].epoch \in Nat
      BY <2>1 DEF IInv, TypeOK, RxTypeOK, PeerRuntime
    <3> QED
      BY <2>1, <3>1 DEF MarkBar, MarkOf
  <2>2. CASE peers[s] = NoPeer
    <3>1. s \in pending
      BY <2>2 DEF IInv, PendingIsUnrestored
    <3> QED
      BY <1>2, <2>2, <3>1 DEF MarkBar, MarkOf
  <2> QED
    BY <2>1, <2>2
<1> QED
  BY <1>2, <1>3, MarkedHasStamp

LEMMA NextKeepsDurable ==
  ASSUME IInv, DurableBehind, [Next]_vars
  PROVE  DurableBehind'
<1>1. ASSUME UNCHANGED <<store, MarkBar>>, \A s \in Source : UNCHANGED StampOf(s)
      PROVE  DurableBehind'
  BY <1>1 DEF DurableBehind
<1>2. ASSUME UNCHANGED <<peers, store, pending>> PROVE DurableBehind'
  BY <1>1, <1>2, StillBars
<1>3. ASSUME NEW q \in Source, Send(q) \/ Rotate(q) \/ SenderRestart(q)
      PROVE  UNCHANGED <<peers, store, pending>>
  BY <1>3 DEF Send, Rotate, RotateEpoch, SenderRestart, RestartSender, rxVars
<1>4. ASSUME NEW m \in sent, Admit(m) PROVE DurableBehind'
  <2> SUFFICES ASSUME NEW s \in Source, store[s] # NoCheckpoint
               PROVE  \/ MarkBar'[s][1] > store[s].epoch
                      \/ MarkBar'[s][1] = store[s].epoch /\ StampOf(s)' >= store[s].stamp
    BY <1>4 DEF DurableBehind, Admit
  <2>1. /\ MarkBar[s] # <<-1, -1>> /\ MarkBar[s][1] \in Nat /\ StampOf(s) \in Nat
        /\ store[s].epoch \in Nat /\ store[s].stamp \in Nat
    BY DurableIsMarked
  <2>2. \/ MarkBar[s][1] > store[s].epoch
        \/ MarkBar[s][1] = store[s].epoch /\ StampOf(s) >= store[s].stamp
    BY DEF DurableBehind
  <2>3. CASE m.src # s
    <3>1. MarkBar'[s] = MarkBar[s] /\ UNCHANGED StampOf(s)
      BY <1>4, <2>3, AdmitBars DEF MarkBar
    <3> QED
      BY <2>2, <3>1
  <2>4. CASE m.src = s
    <3>1. MarkBar'[s] = MarkOf(m)
      BY <1>4, <2>4, AdmitBars DEF MarkBar
    <3>2. /\ Ledger!Newer(MarkOf(m), MarkBar[s])
          /\ m.epoch = MarkBar[s][1] => StampOf(s)' >= StampOf(s)
      BY <1>4, <2>1, <2>4, AdmitBars
    <3>3. StampOf(s)' \in Nat /\ MarkBar'[s][1] = m.epoch /\ m.epoch \in Nat
      BY <1>4, <2>4, <3>1, AdmitBars DEF MarkOf
    <3>4. m.epoch >= MarkBar[s][1]
      BY <2>1, <3>2, <3>3 DEF Ledger!Newer, MarkOf
    <3> QED
      BY <2>1, <2>2, <3>2, <3>3, <3>4
  <2> QED
    BY <2>3, <2>4
<1>5. ASSUME NEW m \in sent, Reject(m) PROVE UNCHANGED <<peers, store, pending>>
  BY <1>5 DEF Reject, RejectComplete
<1>6. CASE Expire
  BY <1>1, <1>6, ExpireBars DEF Expire
<1>7. CASE Persist
  <2> SUFFICES ASSUME NEW s \in Source, store'[s] # NoCheckpoint
               PROVE  \/ MarkBar'[s][1] > store'[s].epoch
                      \/ MarkBar'[s][1] = store'[s].epoch /\ StampOf(s)' >= store'[s].stamp
    BY DEF DurableBehind
  <2>1. UNCHANGED MarkBar /\ UNCHANGED peers
    BY <1>7, PersistBars DEF Persist, rxVars
  <2>2. CASE peers[s] = NoPeer
    <3>1. store'[s] = store[s]
      BY <1>7, <2>2 DEF Persist
    <3>2. MarkBar[s] # <<-1, -1>>
      BY <3>1, DurableIsMarked
    <3>3. UNCHANGED StampOf(s)
      BY <1>7, <3>2, PersistBars
    <3> QED
      BY <2>1, <3>1, <3>3 DEF DurableBehind
  <2>3. CASE peers[s] # NoPeer
    <3>1. store'[s] = CheckpointOf(peers[s])
      BY <1>7, <2>3 DEF Persist
    <3>2. peers[s].stamp \in Nat
      BY <2>3 DEF IInv, TypeOK, RxTypeOK, PeerRuntime
    <3>3. MarkBar'[s][1] = store'[s].epoch /\ StampOf(s)' = store'[s].stamp
      BY <2>1, <2>3, <3>1 DEF MarkBar, MarkOf, StampOf, CheckpointOf
    <3>4. store'[s].stamp = peers[s].stamp
      BY <3>1 DEF CheckpointOf
    <3> QED
      BY <3>2, <3>3, <3>4
  <2> QED
    BY <2>2, <2>3
<1>8. CASE Restart
  <2> SUFFICES ASSUME NEW s \in Source, store[s] # NoCheckpoint
               PROVE  MarkBar'[s][1] = store[s].epoch /\ StampOf(s)' >= store[s].stamp
    BY <1>8 DEF DurableBehind, Restart
  <2>1. MarkBar'[s] = MarkOf(store[s])
    BY <1>8, RestartBars DEF SavedBar
  <2>2. StampOf(s)' = store[s].stamp /\ store[s].stamp \in Nat
    BY <1>8, DurableIsMarked DEF Restart, StampOf
  <2> QED
    BY <2>1, <2>2 DEF MarkOf
<1>9. ASSUME NEW q \in Source, Restore(q) PROVE DurableBehind'
  BY <1>1, <1>9, RestoreBars DEF Restore
<1>10. CASE Tick
  BY <1>2, <1>10 DEF Tick, rxVars
<1>11. CASE UNCHANGED vars
  BY <1>2, <1>11 DEF vars
<1> QED
  BY <1>2, <1>3, <1>4, <1>5, <1>6, <1>7, <1>8, <1>9, <1>10, <1>11
     DEF Next, SenderNext, ReceiverNext

\* Within an epoch the timestamp held for a source goes back only to the durable
\* one, by a restart, and is never behind it, whatever admit_complete takes after
\* the checkpoint is restored and for any skew between the clocks.
THEOREM StampsGoBackToDurable == Spec => StampsAdvanceInEpoch
<1>1. IInv /\ [Next]_vars => [\A s \in Source : StampsDoNotGoBack(s)]_vars
  BY NextKeepsStamps
<1>2. Spec => [][\A s \in Source : StampsDoNotGoBack(s)]_vars
  BY <1>1, SpecIInv, PTL DEF Spec
<1>3. Init => DurableBehind
  BY SessionAssumption DEF Init, DurableBehind
<1>4. IInv /\ DurableBehind /\ [Next]_vars => DurableBehind'
  BY NextKeepsDurable
<1>5. Spec => []DurableBehind
  BY <1>3, <1>4, SpecIInv, PTL DEF Spec
<1>6. IInv /\ DurableBehind => \A s \in Source : DurableStampKept(s)
  BY DurableIsMarked DEF DurableBehind, DurableStampKept
<1>7. Spec => [](\A s \in Source : DurableStampKept(s))
  BY <1>5, <1>6, SpecIInv, PTL
<1> QED
  BY <1>2, <1>7 DEF StampsAdvanceInEpoch, StampsDoNotGoBack

ReturnsByKeyframe(s) ==
  (ViewBar[s] = NoState /\ ViewBar'[s] # NoState) =>
     \E m \in sent : /\ m.src = s
                     /\ Keyframe(m)
                     /\ MarkBar'[s] = MarkOf(m)
                     /\ Ledger!Newer(MarkOf(m), MarkBar[s])

LEMMA NextReturnsByKeyframe ==
  ASSUME IInv, [Next]_vars, NEW s \in Source
  PROVE  ReturnsByKeyframe(s)
<1>1. ASSUME ViewBar'[s] \in {ViewBar[s], NoState} PROVE ReturnsByKeyframe(s)
  BY <1>1 DEF ReturnsByKeyframe
<1>2. ASSUME UNCHANGED <<peers, store, pending>> PROVE ReturnsByKeyframe(s)
  BY <1>1, <1>2, StillBars
<1>3. ASSUME NEW q \in Source, Send(q) \/ Rotate(q) \/ SenderRestart(q)
      PROVE  UNCHANGED <<peers, store, pending>>
  BY <1>3 DEF Send, Rotate, RotateEpoch, SenderRestart, RestartSender, rxVars
<1>4. ASSUME NEW m \in sent, Admit(m) PROVE ReturnsByKeyframe(s)
  <2>1. CASE m.src = s
    <3>1. MarkBar'[s] = MarkOf(m)
      BY <1>4, <2>1, AdmitBars DEF MarkBar
    <3> QED
      BY <1>4, <2>1, <3>1, AdmitBars DEF ReturnsByKeyframe
  <2>2. CASE m.src # s
    BY <1>1, <1>4, <2>2, AdmitBars DEF ViewBar
  <2> QED
    BY <2>1, <2>2
<1>5. ASSUME NEW m \in sent, Reject(m) PROVE UNCHANGED <<peers, store, pending>>
  BY <1>5 DEF Reject, RejectComplete
<1>6. CASE Expire
  BY <1>1, <1>6, ExpireBars
<1>7. CASE Persist
  BY <1>1, <1>7, PersistBars
<1>8. CASE Restart
  BY <1>1, <1>8, RestartBars
<1>9. ASSUME NEW q \in Source, Restore(q) PROVE ReturnsByKeyframe(s)
  BY <1>1, <1>9, RestoreBars
<1>10. CASE Tick
  BY <1>2, <1>10 DEF Tick, rxVars
<1>11. CASE UNCHANGED vars
  BY <1>2, <1>11 DEF vars
<1> QED
  BY <1>2, <1>3, <1>4, <1>5, <1>6, <1>7, <1>8, <1>9, <1>10, <1>11
     DEF Next, SenderNext, ReceiverNext

\* A receiver that holds nothing for a source (never known, expired, restarted
\* or restored) shows state again only from a keyframe newer than every mark it
\* remembers (admit_complete's need_keyframe and new-epoch rules).
THEOREM ReturnsByKeyframeOnly == Spec => StateReturnsByKeyframe
<1>1. IInv /\ [Next]_vars => [\A s \in Source : ReturnsByKeyframe(s)]_vars
  BY NextReturnsByKeyframe
<1> QED
  BY <1>1, SpecIInv, PTL DEF Spec, StateReturnsByKeyframe, ReturnsByKeyframe

=============================================================================
