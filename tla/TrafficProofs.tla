----------------------------- MODULE TrafficProofs ----------------------------
(***************************************************************************)
(* Theorems about what carries frames, what counts them and what decides   *)
(* which are worth sending, for any number of threads, frames, drops and   *)
(* messages, counters of any width and links and budgets of any size;      *)
(* about the codecs that make frames and messages and read them; and about *)
(* the orchestrator's store of the advisories that came in frames, for     *)
(* every set of sources and any lifetimes.                                 *)
(***************************************************************************)
EXTENDS NodeMetrics, FrameTransport, DeliveryPolicy, MavlinkCodec, AdvisoryStore,
        FoldLemmas, SequenceTheorems

MetricsSpec == MetricsInit /\ [][MetricsNext]_metricsVars
TransportSpec == TransportInit /\ [][TransportNext]_transportVars

-----------------------------------------------------------------------------
(* Counters: what is counted stays within its width and never goes down     *)

Count == 0 .. MaxCount

CounterTypes == /\ protocol \in [ProtocolMetrics -> Count]
                /\ counter \in [LatentMeshMetrics -> Count]
                /\ frames \in Nat /\ denied \in Nat

\* A thread between its two counts has counted its drop already.
SuppressionsFollow ==
  /\ IsFiniteSet(suppressing)
  /\ counter["residual_suppressions"] + Cardinality(suppressing) <= counter["policy_drops"]
       \/ counter["policy_drops"] = MaxCount

\* What a snapshot has loaded lies between the last snapshot and the counters.
LoadsBetween ==
  /\ shown \in [DOMAIN Loads -> Count]
  /\ view \in Seq(Count) /\ Len(view) < Len(Loads)
  /\ \A i \in DOMAIN Loads : shown[i] <= counter[Loads[i]]
  /\ \A i \in DOMAIN view : shown[i] <= view[i] /\ view[i] <= counter[Loads[i]]

MetricsIInv == CounterTypes /\ FramesAccounted /\ SuppressionsFollow /\ LoadsBetween

LEMMA LoadsAre ==
  /\ Len(Loads) = 8 /\ DOMAIN Loads = 1 .. 8
  /\ LatentMeshMetrics = {"received_messages", "authentication_drops", "replay_drops",
                          "stale_drops", "policy_drops", "reassemblies_completed",
                          "reassembly_failures", "residual_suppressions"}
  /\ \A i \in 1 .. 8 : Loads[i] \in LatentMeshMetrics
<1>1. Len(Loads) = 8 /\ DOMAIN Loads = 1 .. 8
  BY DEF Loads
<1>2. \A i \in 1 .. 8 : Loads[i] \in LatentMeshMetrics
  BY <1>1 DEF LatentMeshMetrics
<1>3. LatentMeshMetrics = {Loads[1], Loads[2], Loads[3], Loads[4], Loads[5], Loads[6],
                           Loads[7], Loads[8]}
  <2>1. \A i \in 1 .. 8 : i \in {1, 2, 3, 4, 5, 6, 7, 8}
    OBVIOUS
  <2> QED
    BY <1>1, <2>1 DEF LatentMeshMetrics
<1>4. /\ Loads[1] = "received_messages" /\ Loads[2] = "authentication_drops"
      /\ Loads[3] = "replay_drops" /\ Loads[4] = "stale_drops"
      /\ Loads[5] = "policy_drops" /\ Loads[6] = "reassemblies_completed"
      /\ Loads[7] = "reassembly_failures" /\ Loads[8] = "residual_suppressions"
  BY DEF Loads
<1> QED
  BY <1>1, <1>2, <1>3, <1>4

LEMMA Saturates ==
  ASSUME NEW n \in Count
  PROVE  /\ SaturatingAdd(n) \in Count
         /\ SaturatingAdd(n) >= n
         /\ n = MaxCount => SaturatingAdd(n) = MaxCount
         /\ SaturatingAdd(n) # MaxCount => SaturatingAdd(n) = n + 1
         /\ SaturatingAdd(n) = n + 1 \/ SaturatingAdd(n) = MaxCount
  BY MetricsAssumption DEF Count, SaturatingAdd

LEMMA CountedType ==
  ASSUME NEW S, NEW counters \in [S -> Count], NEW columns
  PROVE  /\ Counted(counters, columns) \in [S -> Count]
         /\ \A c \in S : /\ Counted(counters, columns)[c] >= counters[c]
                         /\ counters[c] = MaxCount => Counted(counters, columns)[c] = MaxCount
                         /\ Counted(counters, columns)[c] # MaxCount =>
                              Counted(counters, columns)[c]
                                = counters[c] + (IF c \in columns THEN 1 ELSE 0)
<1>1. \A c \in S : Counted(counters, columns)[c] = IF c \in columns
                                                   THEN SaturatingAdd(counters[c])
                                                   ELSE counters[c]
  BY DEF Counted
<1>2. Counted(counters, columns) = [c \in S |-> Counted(counters, columns)[c]]
  BY DEF Counted
<1>3. \A c \in S : counters[c] \in Count /\ counters[c] \in Nat
  BY MetricsAssumption DEF Count
<1> QED
  BY <1>1, <1>2, <1>3, Saturates

LEMMA MetricsInitIInv == MetricsInit => MetricsIInv
<1> SUFFICES ASSUME MetricsInit PROVE MetricsIInv
  OBVIOUS
<1>1. 0 \in Count
  BY MetricsAssumption DEF Count
<1>2. CounterTypes
  BY <1>1 DEF MetricsInit, CounterTypes
<1>3. /\ \A c \in LatentMeshMetrics : counter[c] = 0
      /\ \A c \in ProtocolMetrics : protocol[c] = 0
  BY DEF MetricsInit
<1>4. FramesAccounted
  BY <1>3, LoadsAre DEF MetricsInit, FramesAccounted, Dropped, Rejected, ProtocolMetrics
<1>5. SuppressionsFollow
  BY <1>3, LoadsAre, FS_EmptySet DEF MetricsInit, SuppressionsFollow
<1>6. LoadsBetween
  BY <1>1, <1>3, LoadsAre DEF MetricsInit, LoadsBetween
<1> QED
  BY <1>2, <1>4, <1>5, <1>6 DEF MetricsIInv

\* Counting goes up only: it leaves what a snapshot has loaded in place.
LEMMA CountingKeepsLoads ==
  ASSUME MetricsIInv, NEW columns, counter' = Counted(counter, columns), UNCHANGED <<view, shown>>
  PROVE  LoadsBetween'
<1>1. \A c \in LatentMeshMetrics : /\ counter[c] \in Nat /\ counter'[c] \in Nat
                                   /\ counter[c] <= counter'[c]
  BY CountedType, MetricsAssumption DEF MetricsIInv, CounterTypes, Count
<1>2. \A i \in DOMAIN Loads : counter[Loads[i]] \in Nat /\ counter'[Loads[i]] \in Nat
                              /\ counter[Loads[i]] <= counter'[Loads[i]]
  BY <1>1, LoadsAre
<1>3. \A i \in DOMAIN Loads : shown[i] \in Nat
  BY MetricsAssumption DEF MetricsIInv, LoadsBetween, Count
<1>4. \A i \in DOMAIN view : i \in DOMAIN Loads /\ view[i] \in Nat
  <2>1. view \in Seq(Count) /\ Len(view) < 8
    BY LoadsAre DEF MetricsIInv, LoadsBetween
  <2>2. \A i \in DOMAIN view : i \in 1 .. 8 /\ view[i] \in Count
    BY <2>1
  <2> QED
    BY <2>2, LoadsAre, MetricsAssumption DEF Count
<1>5. \A i \in DOMAIN Loads : shown[i] <= counter[Loads[i]] /\ counter[Loads[i]] <= counter'[Loads[i]]
  BY <1>2 DEF MetricsIInv, LoadsBetween
<1>6. \A i \in DOMAIN Loads : shown[i] <= counter'[Loads[i]]
  BY <1>2, <1>3, <1>5
<1>7. \A i \in DOMAIN view : shown[i] <= view[i] /\ view[i] <= counter[Loads[i]]
  BY DEF MetricsIInv, LoadsBetween
<1>8. \A i \in DOMAIN view : shown[i] <= view[i] /\ view[i] <= counter'[Loads[i]]
  BY <1>2, <1>4, <1>7
<1>9. /\ shown \in [DOMAIN Loads -> Count] /\ view \in Seq(Count) /\ Len(view) < Len(Loads)
      /\ Loads' = Loads
  BY DEF MetricsIInv, LoadsBetween, Loads
<1> QED
  BY <1>6, <1>8, <1>9 DEF LoadsBetween

One(c, columns) == IF c \in columns THEN 1 ELSE 0

DropsIn(columns) == One("authentication_drops", columns) + One("replay_drops", columns)
                    + One("stale_drops", columns) + One("policy_drops", columns)

RejectionsIn(columns) ==
  One("crc_rejections", columns) + One("authentication_rejections", columns)
  + One("replay_rejections", columns) + One("semantic_rejections", columns)

\* As long as nothing is full, a frame and a drop count for one.
LEMMA ExactCounts ==
  ASSUME MetricsIInv, NEW ofProtocol, NEW ofNode, ~Saturated',
         protocol' = Counted(protocol, ofProtocol), counter' = Counted(counter, ofNode)
  PROVE  /\ ~Saturated
         /\ \A c \in ProtocolMetrics : protocol[c] \in Nat
                                       /\ protocol'[c] = protocol[c] + One(c, ofProtocol)
         /\ \A c \in LatentMeshMetrics : counter[c] \in Nat
                                         /\ counter'[c] = counter[c] + One(c, ofNode)
         /\ Dropped' = Dropped + DropsIn(ofNode)
         /\ Rejected' = Rejected + RejectionsIn(ofProtocol)
         /\ Dropped \in Nat /\ Rejected \in Nat
<1>1. \A c \in ProtocolMetrics : /\ protocol[c] \in Nat
                                 /\ protocol'[c] = protocol[c] + One(c, ofProtocol)
                                 /\ protocol[c] # MaxCount
  BY CountedType, MetricsAssumption DEF MetricsIInv, CounterTypes, Count, Saturated, One
<1>2. \A c \in LatentMeshMetrics : /\ counter[c] \in Nat
                                   /\ counter'[c] = counter[c] + One(c, ofNode)
                                   /\ counter[c] # MaxCount
  BY CountedType, MetricsAssumption DEF MetricsIInv, CounterTypes, Count, Saturated, One
<1>3. /\ \A c \in ProtocolMetrics : One(c, ofProtocol) \in Nat
      /\ \A c \in LatentMeshMetrics : One(c, ofNode) \in Nat
  BY DEF One
<1>4. Dropped' = Dropped + DropsIn(ofNode) /\ Dropped \in Nat
  <2>1. {"authentication_drops", "replay_drops", "stale_drops", "policy_drops"}
          \subseteq LatentMeshMetrics
    BY LoadsAre
  <2> QED
    BY <1>2, <1>3, <2>1 DEF Dropped, DropsIn
<1>5. Rejected' = Rejected + RejectionsIn(ofProtocol) /\ Rejected \in Nat
  <2>1. {"crc_rejections", "authentication_rejections", "replay_rejections",
         "semantic_rejections"} \subseteq ProtocolMetrics
    BY DEF ProtocolMetrics
  <2> QED
    BY <1>1, <1>3, <2>1 DEF Rejected, RejectionsIn
<1> QED
  BY <1>1, <1>2, <1>4, <1>5 DEF Saturated

\* The policy's drops keep ahead of what was suppressed.
LEMMA PolicyKeepsAhead ==
  ASSUME MetricsIInv, NEW columns, counter' = Counted(counter, columns)
  PROVE  /\ counter["residual_suppressions"] \in Nat /\ counter["policy_drops"] \in Nat
         /\ counter'["residual_suppressions"] \in Nat /\ counter'["policy_drops"] \in Nat
         /\ counter'["residual_suppressions"]
              <= counter["residual_suppressions"] + One("residual_suppressions", columns)
         /\ \/ counter'["policy_drops"] = MaxCount
            \/ /\ counter["policy_drops"] # MaxCount
               /\ counter'["policy_drops"] = counter["policy_drops"] + One("policy_drops", columns)
<1>1. /\ "residual_suppressions" \in LatentMeshMetrics /\ "policy_drops" \in LatentMeshMetrics
      /\ counter \in [LatentMeshMetrics -> Count]
  BY LoadsAre DEF MetricsIInv, CounterTypes
<1>2. /\ counter["residual_suppressions"] \in Count /\ counter["policy_drops"] \in Count
      /\ counter'["residual_suppressions"] \in Count /\ counter'["policy_drops"] \in Count
  BY <1>1, CountedType
<1>3. /\ counter["policy_drops"] = MaxCount => counter'["policy_drops"] = MaxCount
      /\ counter'["policy_drops"] # MaxCount =>
           counter'["policy_drops"] = counter["policy_drops"] + One("policy_drops", columns)
  BY <1>1, CountedType DEF One
<1>4. counter'["residual_suppressions"] = IF "residual_suppressions" \in columns
                                          THEN SaturatingAdd(counter["residual_suppressions"])
                                          ELSE counter["residual_suppressions"]
  BY <1>1 DEF Counted
<1> QED
  BY <1>2, <1>3, <1>4, MetricsAssumption DEF Count, SaturatingAdd, One

LEMMA IngestIInv ==
  ASSUME MetricsIInv, NEW ofProtocol, NEW ofNode, IngestFrame(ofProtocol, ofNode),
         "received_messages" \in ofNode <=> "accepted_snapshots" \in ofProtocol,
         "replay_drops" \in ofNode <=> "replay_rejections" \in ofProtocol,
         DropsIn(ofNode) = RejectionsIn(ofProtocol),
         One("accepted_snapshots", ofProtocol) + RejectionsIn(ofProtocol) <= 1,
         "residual_suppressions" \in ofNode => "policy_drops" \in ofNode
  PROVE  MetricsIInv'
<1> DEFINE columns == ofProtocol \cup {"frames_seen"}
<1>1. /\ protocol' = Counted(protocol, columns) /\ counter' = Counted(counter, ofNode)
      /\ frames' = frames + 1
      /\ UNCHANGED <<suppressing, view, shown, denied>>
  BY DEF IngestFrame
<1>2. CounterTypes'
  BY <1>1, CountedType DEF MetricsIInv, CounterTypes
<1>3. LoadsBetween'
  BY <1>1, CountingKeepsLoads
<1>4. FramesAccounted'
  <2> SUFFICES ASSUME ~Saturated' PROVE FramesAccounted'
    BY DEF FramesAccounted
  <2>1. /\ counter["received_messages"] = protocol["accepted_snapshots"]
        /\ counter["replay_drops"] = protocol["replay_rejections"]
        /\ Dropped = Rejected + denied
        /\ protocol["accepted_snapshots"] + Rejected <= protocol["frames_seen"]
    BY <1>1, ExactCounts DEF MetricsIInv, FramesAccounted
  <2>2. /\ RejectionsIn(columns) = RejectionsIn(ofProtocol)
        /\ One("accepted_snapshots", columns) = One("accepted_snapshots", ofProtocol)
        /\ One("replay_rejections", columns) = One("replay_rejections", ofProtocol)
        /\ One("frames_seen", columns) = 1
        /\ RejectionsIn(ofProtocol) \in Nat /\ One("accepted_snapshots", ofProtocol) \in Nat
    BY DEF RejectionsIn, One
  <2>3. /\ protocol["frames_seen"] \in Nat /\ protocol["accepted_snapshots"] \in Nat
        /\ protocol'["frames_seen"] = protocol["frames_seen"] + One("frames_seen", columns)
        /\ protocol'["accepted_snapshots"]
             = protocol["accepted_snapshots"] + One("accepted_snapshots", columns)
        /\ protocol'["replay_rejections"]
             = protocol["replay_rejections"] + One("replay_rejections", columns)
    BY <1>1, ExactCounts DEF ProtocolMetrics
  <2>4. /\ counter'["received_messages"]
             = counter["received_messages"] + One("received_messages", ofNode)
        /\ counter'["replay_drops"] = counter["replay_drops"] + One("replay_drops", ofNode)
    BY <1>1, LoadsAre, ExactCounts
  <2>5. /\ One("received_messages", ofNode) = One("accepted_snapshots", ofProtocol)
        /\ One("replay_drops", ofNode) = One("replay_rejections", ofProtocol)
    BY DEF One
  <2>6. /\ Dropped' = Dropped + DropsIn(ofNode) /\ Rejected' = Rejected + RejectionsIn(columns)
        /\ Rejected \in Nat
    BY <1>1, ExactCounts
  <2>7. denied \in Nat /\ denied' = denied
    BY <1>1 DEF MetricsIInv, CounterTypes
  <2> HIDE DEF columns
  <2>8. Dropped' = Rejected' + denied'
    BY <2>1, <2>2, <2>6, <2>7
  <2>9. protocol'["accepted_snapshots"] + Rejected' <= protocol'["frames_seen"]
    BY <2>1, <2>2, <2>3, <2>6
  <2> QED
    BY <2>1, <2>2, <2>3, <2>4, <2>5, <2>8, <2>9 DEF FramesAccounted
<1>5. SuppressionsFollow'
  <2>1. Cardinality(suppressing) \in Nat
    BY FS_CardinalityType DEF MetricsIInv, SuppressionsFollow
  <2>2. One("residual_suppressions", ofNode) <= One("policy_drops", ofNode)
        /\ One("residual_suppressions", ofNode) \in Nat /\ One("policy_drops", ofNode) \in Nat
    BY DEF One
  <2> QED
    BY <1>1, <2>1, <2>2, PolicyKeepsAhead DEF MetricsIInv, SuppressionsFollow
<1> QED
  BY <1>2, <1>3, <1>4, <1>5 DEF MetricsIInv

\* Every refusal is a rejection of the session and a drop of the node, and a
\* replay for both or for neither.
LEMMA RefusedIInv == ASSUME MetricsIInv, Refused PROVE MetricsIInv'
<1>1. PICK error \in ProtocolError, whole \in {{}, {"completed_envelopes"}} :
        IngestFrame(RecordResult(error) \cup whole, RecordProtocolDrop(error))
  BY DEF Refused
<1> DEFINE ofProtocol == RecordResult(error) \cup whole
           ofNode == RecordProtocolDrop(error)
<1>2. \/ error \in Unauthenticated
      \/ error \in Replayed /\ error \notin Unauthenticated \cup {"SourceHintMismatch"}
      \/ error \notin Unauthenticated \cup Replayed
  BY DEF Unauthenticated, Replayed
<1>3. /\ "replay_rejections" \in ofProtocol <=> error \in Replayed
      /\ "accepted_snapshots" \notin ofProtocol
      /\ RejectionsIn(ofProtocol) = 1
  BY <1>2 DEF RecordResult, RejectionsIn, One, Unauthenticated, Replayed
<1>4. /\ "replay_drops" \in ofNode <=> error \in Replayed
      /\ "received_messages" \notin ofNode
      /\ DropsIn(ofNode) = 1
  BY <1>2 DEF RecordProtocolDrop, DropCounter, DropsIn, One, Unauthenticated, Replayed
<1>5. "residual_suppressions" \in ofNode => "policy_drops" \in ofNode
  BY DEF RecordProtocolDrop, DropCounter, Unauthenticated, Replayed
<1>6. One("accepted_snapshots", ofProtocol) + RejectionsIn(ofProtocol) <= 1
  BY <1>3 DEF One
<1> HIDE DEF ofProtocol, ofNode
<1> QED
  BY <1>1, <1>3, <1>4, <1>5, <1>6, IngestIInv DEF ofProtocol, ofNode

LEMMA AdmittedIInv == ASSUME MetricsIInv, Admitted PROVE MetricsIInv'
<1> DEFINE ofProtocol == {"completed_envelopes", "accepted_snapshots"}
           ofNode == {"received_messages", "reassemblies_completed"}
<1>1. /\ DropsIn(ofNode) = 0 /\ RejectionsIn(ofProtocol) = 0
      /\ One("accepted_snapshots", ofProtocol) = 1
      /\ "replay_drops" \notin ofNode /\ "replay_rejections" \notin ofProtocol
      /\ "received_messages" \in ofNode /\ "accepted_snapshots" \in ofProtocol
      /\ "residual_suppressions" \notin ofNode
  BY DEF DropsIn, RejectionsIn, One
<1>2. IngestFrame(ofProtocol, ofNode)
  BY DEF Admitted
<1> HIDE DEF ofProtocol, ofNode
<1> QED
  BY <1>1, <1>2, IngestIInv

LEMMA IncompleteIInv == ASSUME MetricsIInv, Incomplete PROVE MetricsIInv'
<1>1. DropsIn({}) = 0 /\ RejectionsIn({}) = 0 /\ One("accepted_snapshots", {}) = 0
  BY DEF DropsIn, RejectionsIn, One
<1> QED
  BY <1>1, IngestIInv DEF Incomplete

LEMMA CountedNone ==
  ASSUME NEW S, NEW counters \in [S -> Count]
  PROVE  Counted(counters, {}) = counters
  BY DEF Counted

\* What the node alone counts, apart from its frames.
LEMMA NodeCountsFrames ==
  ASSUME MetricsIInv, NEW columns, counter' = Counted(counter, columns),
         UNCHANGED <<protocol, frames>>, denied' = denied + DropsIn(columns), denied' \in Nat,
         "received_messages" \notin columns, "replay_drops" \notin columns
  PROVE  CounterTypes' /\ FramesAccounted'
<1>1. CounterTypes'
  BY CountedType DEF MetricsIInv, CounterTypes
<1>2. protocol' = Counted(protocol, {})
  BY CountedNone DEF MetricsIInv, CounterTypes
<1>3. RejectionsIn({}) = 0 /\ DropsIn(columns) \in Nat
  BY DEF RejectionsIn, DropsIn, One
<1>4. FramesAccounted'
  <2> SUFFICES ASSUME ~Saturated' PROVE FramesAccounted'
    BY DEF FramesAccounted
  <2>1. /\ counter["received_messages"] = protocol["accepted_snapshots"]
        /\ counter["replay_drops"] = protocol["replay_rejections"]
        /\ Dropped = Rejected + denied
        /\ protocol["accepted_snapshots"] + Rejected <= protocol["frames_seen"]
    BY <1>2, ExactCounts DEF MetricsIInv, FramesAccounted
  <2>2. /\ Dropped' = Dropped + DropsIn(columns) /\ Rejected' = Rejected
        /\ Rejected \in Nat /\ Dropped \in Nat
    BY <1>2, <1>3, ExactCounts
  <2>3. /\ counter'["received_messages"] = counter["received_messages"]
        /\ counter'["replay_drops"] = counter["replay_drops"]
    BY LoadsAre DEF Counted, MetricsIInv, CounterTypes
  <2>4. denied \in Nat
    BY DEF MetricsIInv, CounterTypes
  <2>5. Dropped' = Rejected' + denied'
    BY <1>3, <2>1, <2>2, <2>4
  <2> QED
    BY <2>1, <2>2, <2>3, <2>5 DEF FramesAccounted
<1> QED
  BY <1>1, <1>4

LEMMA EvaluateIInv ==
  ASSUME MetricsIInv, NEW thread \in Evaluator, EvaluateDelivery(thread)
  PROVE  MetricsIInv'
<1>1. PICK reason \in PolicyDropReason :
        /\ counter' = Counted(counter, {RecordPolicyDrop(reason)})
        /\ suppressing' = suppressing \cup {t \in {thread} : reason = "ResidualNotValidated"}
  BY DEF EvaluateDelivery
<1> DEFINE columns == {RecordPolicyDrop(reason)}
<1>2. /\ thread \notin suppressing /\ denied' = denied + 1
      /\ UNCHANGED <<protocol, view, shown, frames>>
  BY DEF EvaluateDelivery
<1>3. /\ DropsIn(columns) = 1
      /\ "received_messages" \notin columns /\ "replay_drops" \notin columns
      /\ "residual_suppressions" \notin columns
      /\ reason = "ResidualNotValidated" => "policy_drops" \in columns
  BY DEF RecordPolicyDrop, DropsIn, One
<1>4. denied' \in Nat
  BY <1>2 DEF MetricsIInv, CounterTypes
<1> HIDE DEF columns
<1>5. counter' = Counted(counter, columns)
  BY <1>1 DEF columns
<1>6. CounterTypes' /\ FramesAccounted'
  BY <1>2, <1>3, <1>4, <1>5, NodeCountsFrames
<1>7. LoadsBetween'
  BY <1>2, <1>5, CountingKeepsLoads
<1>8. SuppressionsFollow'
  <2>1. /\ IsFiniteSet(suppressing) /\ Cardinality(suppressing) \in Nat
        /\ IsFiniteSet(suppressing \cup {thread})
        /\ Cardinality(suppressing \cup {thread}) = Cardinality(suppressing) + 1
    BY <1>2, FS_AddElement, FS_CardinalityType DEF MetricsIInv, SuppressionsFollow
  <2>2. /\ One("residual_suppressions", columns) = 0
        /\ One("policy_drops", columns) \in Nat
    BY <1>3 DEF One
  <2>3. CASE reason = "ResidualNotValidated"
    <3>1. suppressing' = suppressing \cup {thread} /\ One("policy_drops", columns) = 1
      BY <1>1, <1>3, <2>3 DEF One
    <3> QED
      BY <1>5, <2>1, <2>2, <3>1, PolicyKeepsAhead DEF MetricsIInv, SuppressionsFollow
  <2>4. CASE reason # "ResidualNotValidated"
    <3>1. suppressing' = suppressing
      BY <1>1, <2>4
    <3> QED
      BY <1>5, <2>1, <2>2, <3>1, PolicyKeepsAhead DEF MetricsIInv, SuppressionsFollow
  <2> QED
    BY <2>3, <2>4
<1> QED
  BY <1>6, <1>7, <1>8 DEF MetricsIInv

LEMMA SuppressedIInv ==
  ASSUME MetricsIInv, NEW thread \in Evaluator, RecordResidualSuppressed(thread)
  PROVE  MetricsIInv'
<1> DEFINE columns == {"residual_suppressions"}
<1>1. /\ thread \in suppressing /\ suppressing' = suppressing \ {thread}
      /\ counter' = Counted(counter, columns)
      /\ UNCHANGED <<protocol, view, shown, frames, denied>>
  BY DEF RecordResidualSuppressed
<1>2. /\ DropsIn(columns) = 0
      /\ "received_messages" \notin columns /\ "replay_drops" \notin columns
      /\ One("residual_suppressions", columns) = 1 /\ One("policy_drops", columns) = 0
  BY DEF DropsIn, One
<1>3. denied' = denied + 0 /\ denied' \in Nat
  BY <1>1 DEF MetricsIInv, CounterTypes
<1> HIDE DEF columns
<1>4. CounterTypes' /\ FramesAccounted'
  BY <1>1, <1>2, <1>3, NodeCountsFrames
<1>5. LoadsBetween'
  BY <1>1, CountingKeepsLoads
<1>6. SuppressionsFollow'
  <2>1. /\ IsFiniteSet(suppressing') /\ Cardinality(suppressing) \in Nat
        /\ Cardinality(suppressing') = Cardinality(suppressing) - 1
    BY <1>1, FS_RemoveElement, FS_CardinalityType DEF MetricsIInv, SuppressionsFollow
  <2> QED
    BY <1>1, <1>2, <2>1, PolicyKeepsAhead DEF MetricsIInv, SuppressionsFollow
<1> QED
  BY <1>4, <1>5, <1>6 DEF MetricsIInv

\* A snapshot is whole with its eighth load.
Grows == \A i \in DOMAIN Loads : shown'[i] >= shown[i]

LEMMA LoadIInv == ASSUME MetricsIInv, Load PROVE MetricsIInv' /\ Grows
<1> DEFINE next == Len(view) + 1
           loaded == Append(view, counter[Loads[next]])
<1>1. UNCHANGED <<protocol, counter, suppressing, frames, denied>>
  BY DEF Load
<1>2. /\ view \in Seq(Count) /\ Len(view) \in Nat /\ Len(view) < 8 /\ next \in 1 .. 8
      /\ \A i \in DOMAIN view : i \in 1 .. 8
  BY LoadsAre DEF MetricsIInv, LoadsBetween
<1>3. counter[Loads[next]] \in Count
  BY <1>2, LoadsAre DEF MetricsIInv, CounterTypes
<1>4. /\ \A i \in 1 .. 8 : shown[i] \in Count /\ shown[i] <= counter[Loads[i]]
      /\ \A i \in DOMAIN view : shown[i] <= view[i] /\ view[i] <= counter[Loads[i]]
      /\ shown \in [1 .. 8 -> Count]
  BY LoadsAre DEF MetricsIInv, LoadsBetween
<1>5. /\ loaded \in Seq(Count) /\ Len(loaded) = next
      /\ \A i \in DOMAIN loaded : /\ i \in 1 .. 8
                                  /\ shown[i] <= loaded[i] /\ loaded[i] <= counter[Loads[i]]
  <2>1. /\ loaded \in Seq(Count) /\ Len(loaded) = next /\ DOMAIN loaded = 1 .. next
        /\ loaded[next] = counter[Loads[next]]
        /\ \A i \in 1 .. next : i # next => i \in DOMAIN view /\ loaded[i] = view[i]
    BY <1>2, <1>3
  <2>2. counter[Loads[next]] <= counter[Loads[next]]
    BY <1>3, MetricsAssumption DEF Count
  <2> HIDE DEF loaded
  <2>3. \A i \in 1 .. next : i \in 1 .. 8
    BY <1>2
  <2> HIDE DEF next
  <2> QED
    BY <1>2, <1>4, <2>1, <2>2, <2>3
<1>6. IF next = 8 THEN view' = <<>> /\ shown' = loaded ELSE view' = loaded /\ UNCHANGED shown
  BY <1>5, LoadsAre DEF Load
<1> HIDE DEF next, loaded
<1>7. \A i \in 1 .. 8 : shown[i] \in Nat
  BY <1>4, MetricsAssumption DEF Count
<1>8. CASE next = 8
  <2>1. view' = <<>> /\ shown' = loaded /\ loaded \in [1 .. 8 -> Count]
    <3>1. loaded \in Seq(Count) /\ Len(loaded) = 8
      BY <1>5, <1>8
    <3>2. loaded \in [1 .. Len(loaded) -> Count]
      BY <3>1, LenProperties
    <3> QED
      BY <1>6, <1>8, <3>1, <3>2
  <2>2. \A i \in 1 .. 8 : shown[i] <= shown'[i] /\ shown'[i] <= counter[Loads[i]]
    BY <1>5, <2>1
  <2>3. LoadsBetween' /\ Grows
    <3>1. shown' \in [1 .. 8 -> Count] /\ Count \subseteq Nat
      BY <2>1, MetricsAssumption DEF Count
    <3>2. \A i \in 1 .. 8 : shown'[i] \in Nat
      BY <3>1
    <3> QED
      BY <1>1, <1>7, <2>1, <2>2, <3>2, LoadsAre DEF LoadsBetween, Grows
  <2> QED
    BY <1>1, <2>3 DEF MetricsIInv, CounterTypes, FramesAccounted, SuppressionsFollow,
                      Saturated, Dropped, Rejected
<1>9. CASE next # 8
  <2>1. view' = loaded /\ shown' = shown /\ Len(loaded) < 8
    BY <1>2, <1>5, <1>6, <1>9
  <2>2. LoadsBetween' /\ Grows
    BY <1>1, <1>4, <1>5, <1>7, <2>1, LoadsAre DEF LoadsBetween, Grows
  <2> QED
    BY <1>1, <2>2 DEF MetricsIInv, CounterTypes, FramesAccounted, SuppressionsFollow,
                      Saturated, Dropped, Rejected
<1> QED
  BY <1>8, <1>9

LEMMA MetricsNextIInv ==
  ASSUME MetricsIInv, [MetricsNext]_metricsVars
  PROVE  MetricsIInv' /\ [Grows]_metricsVars
<1>1. CASE UNCHANGED metricsVars
  BY <1>1 DEF metricsVars, MetricsIInv, CounterTypes, FramesAccounted, SuppressionsFollow,
              LoadsBetween, Saturated, Dropped, Rejected
<1>2. CASE MetricsNext /\ ~Load
  <2>1. shown' = shown
    BY <1>2 DEF MetricsNext, Admitted, Incomplete, Refused, IngestFrame, EvaluateDelivery,
                RecordResidualSuppressed
  <2>2. \A i \in DOMAIN Loads : shown[i] \in Nat
    BY MetricsAssumption DEF MetricsIInv, LoadsBetween, Count
  <2>3. Grows
    BY <2>1, <2>2 DEF Grows
  <2> QED
    BY <1>2, <2>3, AdmittedIInv, IncompleteIInv, RefusedIInv, EvaluateIInv, SuppressedIInv
       DEF MetricsNext
<1> QED
  BY <1>1, <1>2, LoadIInv

LEMMA MetricsSpecIInv == MetricsSpec => []MetricsIInv
<1>1. MetricsIInv /\ [MetricsNext]_metricsVars => MetricsIInv'
  BY MetricsNextIInv
<1> QED
  BY MetricsInitIInv, <1>1, PTL DEF MetricsSpec

\* The session's rejections and the node's drops classify frames by tables of
\* their own and agree on every kind, until a counter is full; and suppressed
\* residuals are among the drops at any moment, with any number of threads
\* between the two counts (protocol.rs, node.rs, metrics.rs).
THEOREM CountersTellOneStory == MetricsSpec => []CountersAgree
<1>1. MetricsIInv => CountersAgree
  <2> SUFFICES ASSUME MetricsIInv PROVE SuppressionsAreDrops
    BY DEF MetricsIInv, CountersAgree
  <2>1. Cardinality(suppressing) \in Nat
    BY FS_CardinalityType DEF MetricsIInv, SuppressionsFollow
  <2>2. /\ counter["residual_suppressions"] \in Nat /\ counter["policy_drops"] \in Nat
        /\ counter["residual_suppressions"] <= MaxCount
    BY LoadsAre, MetricsAssumption DEF MetricsIInv, CounterTypes, Count
  <2> QED
    BY <2>1, <2>2 DEF MetricsIInv, SuppressionsFollow, SuppressionsAreDrops
<1> QED
  BY <1>1, MetricsSpecIInv, PTL

\* A snapshot loads one counter at a time while others count: none of what it
\* shows is less than what the snapshot before showed (LatentMeshMetrics::snapshot).
THEOREM SnapshotsAdvance == MetricsSpec => SnapshotsNeverGoBack
<1>1. MetricsIInv /\ [MetricsNext]_metricsVars => [Grows]_metricsVars
  BY MetricsNextIInv
<1> QED
  BY <1>1, MetricsSpecIInv, PTL DEF MetricsSpec, SnapshotsNeverGoBack, Grows

-----------------------------------------------------------------------------
(* Transport: a frame keeps the number it was taken under, and a channel's  *)
(* frames are either received or under way.                                 *)

Frame == [number : Nat, length : Lengths]

\* Each frame is one that was accepted, as it was.
AsAccepted(sequence) ==
  \A i \in DOMAIN sequence : /\ sequence[i].number \in DOMAIN accepted
                             /\ sequence[i] = accepted[sequence[i].number]

TransportTypes == /\ kind = "channel" => capacity \in 1 .. MaxCapacity
                  /\ {transit, accepted, taken} \subseteq Seq(Frame)

ChannelInOrder ==
  kind = "channel" => /\ "receiver" \in open => taken \o transit = accepted
                      /\ Len(transit) <= capacity
                      /\ \A i \in DOMAIN transit : transit[i].length <= FrameMaxBytes

ToldIsDrained == told => /\ kind = "channel" /\ "sender" \notin open
                         /\ transit = <<>> /\ taken = accepted

TransportIInv == /\ TransportTypes
                 /\ AsAccepted(transit) /\ AsAccepted(taken)
                 /\ ChannelInOrder /\ ToldIsDrained

LEMMA TransportInitIInv == TransportInit => TransportIInv
<1> SUFFICES ASSUME TransportInit PROVE TransportIInv
  OBVIOUS
<1>1. transit = <<>> /\ accepted = <<>> /\ taken = <<>> /\ told = FALSE
  BY DEF TransportInit
<1>2. kind = "channel" => capacity \in 1 .. MaxCapacity
  BY DEF TransportInit, BindUdp, BoundedChannelLoopback
<1>3. kind = "channel" => Len(transit) <= capacity
  BY <1>1, <1>2
<1> QED
  BY <1>1, <1>2, <1>3 DEF TransportIInv, TransportTypes, AsAccepted, ChannelInOrder, ToldIsDrained

LEMMA RemoveAtKeeps ==
  ASSUME NEW S, NEW s \in Seq(S), NEW i \in DOMAIN s
  PROVE  /\ RemoveAt(s, i) \in Seq(S)
         /\ Len(RemoveAt(s, i)) <= Len(s)
         /\ \A k \in DOMAIN RemoveAt(s, i) : \E j \in DOMAIN s : RemoveAt(s, i)[k] = s[j]
         /\ i = 1 => RemoveAt(s, i) = Tail(s)
<1> DEFINE front == SubSeq(s, 1, i - 1)
           back == SubSeq(s, i + 1, Len(s))
<1>1. i \in 1 .. Len(s) /\ Len(s) \in Nat
  OBVIOUS
<1>2. /\ front \in Seq(S) /\ Len(front) = i - 1
      /\ \A k \in DOMAIN front : k \in DOMAIN s /\ front[k] = s[k]
  BY <1>1
<1>3. /\ back \in Seq(S) /\ Len(back) = Len(s) - i
      /\ \A k \in DOMAIN back : i + k \in DOMAIN s /\ back[k] = s[i + k]
  BY <1>1
<1>4. RemoveAt(s, i) = front \o back
  BY DEF RemoveAt
<1>5. i = 1 => front \o back = Tail(s)
  <2> SUFFICES ASSUME i = 1 PROVE front \o back = Tail(s)
    OBVIOUS
  <2>1. front = <<>> /\ back = Tail(s)
    BY <1>1
  <2> QED
    BY <1>3, <2>1
<1> HIDE DEF front, back
<1>6. /\ front \o back \in Seq(S) /\ Len(front \o back) = Len(front) + Len(back)
      /\ \A k \in 1 .. Len(front) + Len(back) :
           (front \o back)[k] = IF k <= Len(front) THEN front[k] ELSE back[k - Len(front)]
  BY <1>2, <1>3, ConcatProperties
<1>7. ASSUME NEW k \in 1 .. Len(front) + Len(back)
      PROVE  \E j \in DOMAIN s : (front \o back)[k] = s[j]
  <2>1. Len(front) \in Nat /\ Len(back) \in Nat /\ k \in Nat
    BY <1>1, <1>2, <1>3
  <2>2. CASE k <= Len(front)
    <3>1. k \in DOMAIN front
      BY <1>2, <2>1, <2>2
    <3> QED
      BY <1>2, <1>6, <2>2, <3>1
  <2>3. CASE ~(k <= Len(front))
    <3>1. k - Len(front) \in DOMAIN back
      BY <1>3, <2>1, <2>3
    <3> QED
      BY <1>3, <1>6, <2>3, <3>1
  <2> QED
    BY <2>2, <2>3
<1>8. DOMAIN (front \o back) = 1 .. Len(front) + Len(back)
  BY <1>6
<1>9. Len(front \o back) = Len(s) - 1
  BY <1>1, <1>2, <1>3, <1>6
<1>10. Len(front \o back) <= Len(s)
  BY <1>1, <1>9
<1>11. \A k \in DOMAIN (front \o back) : \E j \in DOMAIN s : (front \o back)[k] = s[j]
  BY <1>7, <1>8
<1> QED
  BY <1>4, <1>5, <1>6, <1>10, <1>11

\* A send takes the next number.
LEMMA EnqueuedIInv ==
  ASSUME TransportIInv, NEW length \in Lengths, Enqueued(length),
         kind = "channel" => /\ "sender" \in open /\ "receiver" \in open
                             /\ Len(transit) < capacity /\ ValidateFrameBound(length),
         told => "sender" \in open
  PROVE  TransportIInv'
<1> DEFINE datagram == [number |-> Len(accepted) + 1, length |-> length]
<1>1. /\ transit' = Append(transit, datagram) /\ accepted' = Append(accepted, datagram)
      /\ UNCHANGED <<kind, capacity, open, told, taken>>
  BY DEF Enqueued
<1>2. transit \in Seq(Frame) /\ accepted \in Seq(Frame) /\ taken \in Seq(Frame)
  BY DEF TransportIInv, TransportTypes
<1>3. datagram \in Frame /\ datagram.number = Len(accepted) + 1 /\ datagram.length = length
  BY <1>2 DEF Frame
<1> HIDE DEF datagram
<1>4. TransportTypes'
  BY <1>1, <1>2, <1>3 DEF TransportIInv, TransportTypes
<1>5. /\ \A i \in DOMAIN accepted : i \in DOMAIN accepted' /\ accepted'[i] = accepted[i]
      /\ Len(accepted) + 1 \in DOMAIN accepted' /\ accepted'[Len(accepted) + 1] = datagram
  BY <1>1, <1>2, <1>3
<1>6. \A i \in DOMAIN transit' : \/ transit'[i] = datagram
                                 \/ i \in DOMAIN transit /\ transit'[i] = transit[i]
  BY <1>1, <1>2, <1>3
<1>7. AsAccepted(taken)'
  BY <1>1, <1>5 DEF TransportIInv, AsAccepted
<1>8. AsAccepted(transit)'
  BY <1>3, <1>5, <1>6 DEF TransportIInv, AsAccepted
<1>9. ChannelInOrder'
  <2> SUFFICES ASSUME kind = "channel"
               PROVE  /\ taken \o transit' = accepted'
                      /\ Len(transit') <= capacity
                      /\ \A i \in DOMAIN transit' : transit'[i].length <= FrameMaxBytes
    BY <1>1 DEF ChannelInOrder
  <2>1. taken \o transit = accepted
    BY DEF TransportIInv, ChannelInOrder
  <2>2. taken \o Append(transit, datagram) = Append(taken \o transit, datagram)
    BY <1>2, <1>3
  <2>3. Len(transit') = Len(transit) + 1 /\ Len(transit) \in Nat /\ capacity \in Nat
    BY <1>1, <1>2, <1>3, TransportAssumption DEF TransportIInv, TransportTypes
  <2>4. datagram.length <= FrameMaxBytes
    BY <1>3 DEF ValidateFrameBound
  <2>5. \A i \in DOMAIN transit : transit[i].length <= FrameMaxBytes
    BY DEF TransportIInv, ChannelInOrder
  <2> QED
    BY <1>1, <1>6, <2>1, <2>2, <2>3, <2>4, <2>5
<1>10. ToldIsDrained'
  BY <1>1 DEF TransportIInv, ToldIsDrained
<1> QED
  BY <1>4, <1>7, <1>8, <1>9, <1>10 DEF TransportIInv

LEMMA LoseIInv == ASSUME TransportIInv, Lose PROVE TransportIInv'
<1>1. PICK i \in DOMAIN transit : transit' = RemoveAt(transit, i)
  BY DEF Lose
<1>2. /\ kind = "udp" /\ UNCHANGED <<kind, capacity, open, told, accepted, taken>>
  BY DEF Lose
<1>3. transit \in Seq(Frame)
  BY DEF TransportIInv, TransportTypes
<1>4. /\ transit' \in Seq(Frame)
      /\ \A k \in DOMAIN transit' : \E j \in DOMAIN transit : transit'[k] = transit[j]
  BY <1>1, <1>3, RemoveAtKeeps
<1>5. TransportTypes' /\ AsAccepted(transit)' /\ AsAccepted(taken)'
  BY <1>2, <1>4 DEF TransportIInv, TransportTypes, AsAccepted
<1> QED
  BY <1>2, <1>5 DEF TransportIInv, ChannelInOrder, ToldIsDrained

\* A frame that passes the bound once it is buffered was no longer before.
LEMMA BufferedWhole ==
  ASSUME NEW datagram \in Frame, ValidateFrameBound(Buffered(datagram.length))
  PROVE  [datagram EXCEPT !.length = Buffered(@)] = datagram
<1>1. datagram.length \in Nat
  BY TransportAssumption DEF Frame, Lengths
<1>2. Buffered(datagram.length) = datagram.length
  BY <1>1, TransportAssumption DEF ValidateFrameBound, Buffered
<1> QED
  BY <1>2 DEF Frame

LEMMA ReceiveIInv == ASSUME TransportIInv, ReceiveFrame PROVE TransportIInv'
<1>1. PICK i \in DOMAIN transit :
        /\ kind = "channel" => i = 1
        /\ transit' = RemoveAt(transit, i)
        /\ taken' = IF ValidateFrameBound([transit[i] EXCEPT !.length = Buffered(@)].length)
                    THEN Append(taken, [transit[i] EXCEPT !.length = Buffered(@)]) ELSE taken
  BY DEF ReceiveFrame
<1>2. "receiver" \in open /\ UNCHANGED <<kind, capacity, open, told, accepted>>
  BY DEF ReceiveFrame
<1>3. transit \in Seq(Frame) /\ taken \in Seq(Frame) /\ transit[i] \in Frame
      /\ accepted \in Seq(Frame)
  BY DEF TransportIInv, TransportTypes
<1>4. /\ transit' \in Seq(Frame) /\ Len(transit') <= Len(transit)
      /\ \A k \in DOMAIN transit' : \E j \in DOMAIN transit : transit'[k] = transit[j]
      /\ i = 1 => transit' = Tail(transit)
  BY <1>1, <1>3, RemoveAtKeeps
<1>5. [transit[i] EXCEPT !.length = Buffered(@)].length = Buffered(transit[i].length)
  BY <1>3 DEF Frame
<1>6. taken' = IF ValidateFrameBound(Buffered(transit[i].length))
               THEN Append(taken, transit[i]) ELSE taken
  BY <1>1, <1>3, <1>5, BufferedWhole
<1>7. taken' \in Seq(Frame)
  BY <1>3, <1>6
<1>8. TransportTypes' /\ AsAccepted(transit)'
  BY <1>2, <1>3, <1>4, <1>7 DEF TransportIInv, TransportTypes, AsAccepted
<1>9. AsAccepted(taken)'
  <2>1. \A k \in DOMAIN taken' : \/ taken'[k] = transit[i]
                                 \/ k \in DOMAIN taken /\ taken'[k] = taken[k]
    BY <1>3, <1>6
  <2> QED
    BY <1>2, <2>1 DEF TransportIInv, AsAccepted
<1>10. ~told
  BY DEF TransportIInv, ToldIsDrained
<1>11. ChannelInOrder'
  <2> SUFFICES ASSUME kind = "channel"
               PROVE  /\ taken' \o transit' = accepted
                      /\ Len(transit') <= capacity
                      /\ \A k \in DOMAIN transit' : transit'[k].length <= FrameMaxBytes
    BY <1>2 DEF ChannelInOrder
  <2>1. /\ taken \o transit = accepted /\ Len(transit) <= capacity
        /\ \A k \in DOMAIN transit : transit[k].length <= FrameMaxBytes
    BY <1>2 DEF TransportIInv, ChannelInOrder
  <2>2. transit[i].length \in Nat
    BY <1>3, TransportAssumption DEF Frame, Lengths
  <2>3. ValidateFrameBound(Buffered(transit[i].length))
    BY <2>1, <2>2, TransportAssumption DEF ValidateFrameBound, Buffered
  <2>4. taken' = Append(taken, transit[1]) /\ transit' = Tail(transit) /\ transit # <<>>
    BY <1>1, <1>3, <1>4, <1>6, <2>3
  <2>5. Append(taken, transit[1]) \o Tail(transit) = taken \o transit
    BY <1>3, <2>4
  <2>6. Len(transit') \in Nat /\ Len(transit) \in Nat /\ capacity \in Nat
    BY <1>3, <1>4, TransportAssumption DEF TransportIInv, TransportTypes
  <2> QED
    BY <1>4, <2>1, <2>4, <2>5, <2>6
<1>12. ToldIsDrained'
  BY <1>2, <1>10 DEF ToldIsDrained
<1> QED
  BY <1>8, <1>9, <1>11, <1>12 DEF TransportIInv

LEMMA TransportNextIInv == TransportIInv /\ [TransportNext]_transportVars => TransportIInv'
<1> SUFFICES ASSUME TransportIInv, [TransportNext]_transportVars PROVE TransportIInv'
  OBVIOUS
<1>1. CASE UNCHANGED transportVars
  BY <1>1 DEF transportVars, TransportIInv, TransportTypes, AsAccepted, ChannelInOrder,
              ToldIsDrained
<1>2. CASE SendFrame
  BY <1>2, EnqueuedIInv DEF SendFrame
<1>3. CASE Datagram
  <2>1. ~told /\ kind # "channel"
    BY <1>3 DEF Datagram, TransportIInv, ToldIsDrained
  <2> QED
    BY <1>3, <2>1, EnqueuedIInv DEF Datagram
<1>4. CASE ReceiveClosed
  <2>1. /\ kind = "channel" /\ "sender" \notin open /\ "receiver" \in open /\ transit = <<>>
        /\ UNCHANGED <<kind, capacity, transit, open, accepted, taken>>
    BY <1>4 DEF ReceiveClosed, Gone
  <2>2. taken = accepted
    <3>1. taken \o transit = accepted /\ taken \in Seq(Frame)
      BY <2>1 DEF TransportIInv, ChannelInOrder, TransportTypes
    <3> QED
      BY <2>1, <3>1
  <2> QED
    BY <2>1, <2>2 DEF TransportIInv, TransportTypes, AsAccepted, ChannelInOrder, ToldIsDrained
<1>5. ASSUME NEW e \in open, Drop(e) PROVE TransportIInv'
  <2>1. /\ open' = open \ {e} /\ transit' = IF e = "receiver" THEN <<>> ELSE transit
        /\ UNCHANGED <<kind, capacity, told, accepted, taken>>
    BY <1>5 DEF Drop
  <2>2. CASE e # "receiver"
    BY <2>1, <2>2 DEF TransportIInv, TransportTypes, AsAccepted, ChannelInOrder, ToldIsDrained
  <2>3. CASE e = "receiver"
    <3>1. kind = "channel" => Len(transit') <= capacity
      BY <2>1, <2>3, TransportAssumption DEF TransportIInv, TransportTypes
    <3>2. TransportTypes' /\ AsAccepted(transit)' /\ AsAccepted(taken)'
      BY <2>1, <2>3 DEF TransportIInv, TransportTypes, AsAccepted
    <3>3. ChannelInOrder' /\ ToldIsDrained'
      BY <2>1, <2>3, <3>1 DEF TransportIInv, ChannelInOrder, ToldIsDrained
    <3> QED
      BY <3>2, <3>3 DEF TransportIInv
  <2> QED
    BY <2>2, <2>3
<1> QED
  BY <1>1, <1>2, <1>3, <1>4, <1>5, LoseIInv, ReceiveIInv DEF TransportNext

\* Whatever is lost, overtaken or cut off by the operating system, frames are
\* received as they were sent; and a channel says it is closed only when every
\* frame of its other end was received (LoopbackTransport, UdpTransport).
THEOREM FramesArriveWhole == TransportSpec => []ReceivedAsSent
<1>1. TransportSpec => []TransportIInv
  BY TransportInitIInv, TransportNextIInv, PTL DEF TransportSpec
<1>2. TransportIInv => ReceivedAsSent
  <2> SUFFICES ASSUME TransportIInv PROVE ReceivedAsSent
    OBVIOUS
  <2>1. TakenWhole
    BY DEF TransportIInv, AsAccepted, TakenWhole
  <2>2. told => IsPrefix(accepted, taken)
    <3>1. accepted \in Seq(Frame)
      BY DEF TransportIInv, TransportTypes
    <3> QED
      BY <3>1 DEF TransportIInv, ToldIsDrained, IsPrefix
  <2>3. kind = "channel" => Len(transit) <= MaxCapacity
    <3>1. transit \in Seq(Frame)
      BY DEF TransportIInv, TransportTypes
    <3> QED
      BY <3>1, TransportAssumption DEF TransportIInv, TransportTypes, ChannelInOrder
  <2>4. kind = "channel" => ("receiver" \in open => taken \o transit = accepted)
    BY DEF TransportIInv, ChannelInOrder
  <2> QED
    BY <2>1, <2>2, <2>3, <2>4 DEF ReceivedAsSent, DrainedBeforeClosed
<1> QED
  BY <1>1, <1>2, PTL

-----------------------------------------------------------------------------
(* Decisions: a message is sent just when no check stops it.                *)

Reason == {"Unauthenticated", "UntrustedSource", "ExcessiveAuthority", "StaleInput",
           "ManifestNotApproved", "ProposalOutOfBounds", "UnknownAction", "ForbiddenAction",
           "InvalidMetric", "DeadlineExpired", "TrafficClassMismatch", "ResidualNotValidated",
           "LinkTooDegraded", "DeadlineUnreachable", "EnergyBudgetExceeded",
           "InsufficientUtility"}

Check == BOOLEAN \X Reason

AllPass(checks) == \A k \in 1 .. Len(checks) : checks[k][1] = FALSE

\* The check that is found first is one that fails, if any does.
LEMMA FirstIsOne ==
  ASSUME NEW checks \in Seq(Check)
  PROVE  LET m == SelectInSeq(checks, LAMBDA c : c[1])
         IN  \/ m = 0 /\ AllPass(checks)
             \/ m \in 1 .. Len(checks) /\ checks[m][1] /\ ~AllPass(checks)
<1> DEFINE I == {k \in 1 .. Len(checks) : checks[k][1]}
<1>1. Len(checks) \in Nat /\ \A k \in 1 .. Len(checks) : checks[k] \in Check
  BY LenProperties
<1>2. \A k \in 1 .. Len(checks) : checks[k][1] \in BOOLEAN
  BY <1>1 DEF Check
<1>3. CASE I = {}
  <2>1. SelectInSeq(checks, LAMBDA c : c[1]) = 0
    BY <1>3 DEF SelectInSeq
  <2>2. AllPass(checks)
    BY <1>2, <1>3 DEF AllPass
  <2> QED
    BY <2>1, <2>2
<1>4. CASE I # {}
  <2> DEFINE m == Min(I)
  <2>1. SelectInSeq(checks, LAMBDA c : c[1]) = m
    BY <1>4 DEF SelectInSeq
  <2>2. m \in I
    <3>1. IsFiniteSet(1 .. Len(checks)) /\ I \in SUBSET (1 .. Len(checks))
      BY <1>1, FS_Interval
    <3> DEFINE f == [y \in I |-> y]
    <3>2. \A y \in I : f[y] = y /\ f[y] \in Int
      BY <3>1
    <3> HIDE DEF I, f
    <3>3. IsFiniteSet(I)
      BY <3>1, FS_Subset
    <3>4. \E x \in I : \A y \in I : f[x] <= f[y]
      BY <1>4, <3>2, <3>3, HasLeast
    <3>5. \E x \in I : \A y \in I : x <= y
      BY <3>2, <3>4
    <3> QED
      BY <3>5 DEF Min
  <2>3. m \in 1 .. Len(checks) /\ checks[m][1]
    BY <2>2
  <2> HIDE DEF m
  <2>4. ~AllPass(checks)
    BY <2>3 DEF AllPass
  <2> QED
    BY <2>1, <2>3, <2>4
<1> QED
  BY <1>3, <1>4

LEMMA SendsIfAllPass ==
  ASSUME NEW checks \in Seq(Check), NEW action \in RequestedAction
  PROVE  IsSend(FirstFailure(checks, action)) <=> AllPass(checks) /\ IsSend(action)
<1> DEFINE m == SelectInSeq(checks, LAMBDA c : c[1])
<1>1. \/ m = 0 /\ AllPass(checks)
      \/ m \in 1 .. Len(checks) /\ checks[m][1] /\ ~AllPass(checks)
  BY FirstIsOne
<1>2. FirstFailure(checks, action) = IF m = 0 THEN action ELSE checks[m][2]
  BY DEF FirstFailure
<1> HIDE DEF m
<1>3. CASE m = 0 /\ AllPass(checks)
  BY <1>2, <1>3
<1>4. CASE m \in 1 .. Len(checks) /\ ~AllPass(checks)
  <2>1. Len(checks) \in Nat /\ checks[m] \in Check
    BY <1>4, LenProperties
  <2>2. m # 0 /\ checks[m][2] \in Reason
    BY <1>4, <2>1 DEF Check
  <2>3. ~IsSend(checks[m][2])
    BY <2>2 DEF IsSend, AuthorizedCapability, RequestedAction, Reason
  <2> QED
    BY <1>2, <1>4, <2>2, <2>3
<1> QED
  BY <1>1, <1>3, <1>4

LEMMA FailureIsKnown ==
  ASSUME NEW checks \in Seq(Check), NEW action \in RequestedAction
  PROVE  FirstFailure(checks, action) \in RequestedAction \cup Reason
<1> DEFINE m == SelectInSeq(checks, LAMBDA c : c[1])
<1>1. Len(checks) \in Nat /\ \A k \in 1 .. Len(checks) : checks[k] \in Check
  BY LenProperties
<1>2. CASE m = 0
  BY <1>2 DEF FirstFailure
<1>3. CASE m # 0
  <2>1. m \in 1 .. Len(checks)
    BY <1>1, <1>3, FirstIsOne
  <2>2. FirstFailure(checks, action) = checks[m][2]
    BY <1>3 DEF FirstFailure
  <2> QED
    BY <1>1, <2>1, <2>2 DEF Check
<1> QED
  BY <1>2, <1>3

LEMMA PassBoth ==
  ASSUME NEW s \in Seq(Check), NEW t \in Seq(Check)
  PROVE  /\ s \o t \in Seq(Check)
         /\ AllPass(s \o t) <=> AllPass(s) /\ AllPass(t)
<1> DEFINE u == s \o t
<1>1. Len(s) \in Nat /\ Len(t) \in Nat
  BY LenProperties
<1>2. /\ u \in Seq(Check) /\ Len(u) = Len(s) + Len(t)
      /\ \A k \in 1 .. Len(s) + Len(t) : u[k] = IF k <= Len(s) THEN s[k] ELSE t[k - Len(s)]
  BY ConcatProperties
<1> HIDE DEF u
<1>3. ASSUME AllPass(u) PROVE AllPass(s)
  <2>1. ASSUME NEW k \in 1 .. Len(s) PROVE s[k][1] = FALSE
    <3>1. k \in 1 .. Len(u) /\ u[k] = s[k]
      BY <1>1, <1>2
    <3> QED
      BY <1>3, <3>1 DEF AllPass
  <2> QED
    BY <2>1 DEF AllPass
<1>4. ASSUME AllPass(u) PROVE AllPass(t)
  <2>1. ASSUME NEW k \in 1 .. Len(t) PROVE t[k][1] = FALSE
    <3>1. k + Len(s) \in 1 .. Len(u) /\ ~(k + Len(s) <= Len(s)) /\ (k + Len(s)) - Len(s) = k
      BY <1>1, <1>2
    <3>2. u[k + Len(s)] = t[k]
      BY <1>2, <3>1
    <3> QED
      BY <1>4, <3>1, <3>2 DEF AllPass
  <2> QED
    BY <2>1 DEF AllPass
<1>5. ASSUME AllPass(s), AllPass(t) PROVE AllPass(u)
  <2>1. ASSUME NEW k \in 1 .. Len(u) PROVE u[k][1] = FALSE
    <3>1. CASE k <= Len(s)
      <4>1. k \in 1 .. Len(s) /\ u[k] = s[k]
        BY <1>1, <1>2, <3>1
      <4> QED
        BY <1>5, <4>1 DEF AllPass
    <3>2. CASE ~(k <= Len(s))
      <4>1. k - Len(s) \in 1 .. Len(t) /\ u[k] = t[k - Len(s)]
        BY <1>1, <1>2, <3>2
      <4> QED
        BY <1>5, <4>1 DEF AllPass
    <3> QED
      BY <3>1, <3>2
  <2> QED
    BY <2>1 DEF AllPass
<1> QED
  BY <1>2, <1>3, <1>4, <1>5 DEF u

\* Four checks pass when each does.
LEMMA FourChecks ==
  ASSUME NEW a \in Check, NEW b \in Check, NEW c \in Check, NEW d \in Check
  PROVE  /\ <<a, b, c, d>> \in Seq(Check)
         /\ AllPass(<<a, b, c, d>>) <=>
              a[1] = FALSE /\ b[1] = FALSE /\ c[1] = FALSE /\ d[1] = FALSE
<1> DEFINE s == <<a, b, c, d>>
<1>1. Len(s) = 4 /\ s[1] = a /\ s[2] = b /\ s[3] = c /\ s[4] = d
  OBVIOUS
<1>2. s \in Seq(Check)
  OBVIOUS
<1> HIDE DEF s
<1>3. \A k \in 1 .. 4 : k = 1 \/ k = 2 \/ k = 3 \/ k = 4
  OBVIOUS
<1>4. AllPass(s) <=> a[1] = FALSE /\ b[1] = FALSE /\ c[1] = FALSE /\ d[1] = FALSE
  BY <1>1, <1>3 DEF AllPass
<1> QED
  BY <1>2, <1>4 DEF s

-----------------------------------------------------------------------------

LEMMA LinkPasses ==
  ASSUME NEW moment, NEW l, NEW i
  PROVE  /\ LinkChecks(moment, l, i) \in Seq(Check)
         /\ AllPass(LinkChecks(moment, l, i)) <=>
              /\ l.valid /\ i.valid
              /\ Fresh(moment, l.observed, MaxLinkAge)
              /\ ~(i.deadline < i.created \/ ~Fresh(moment, i.created, MaxAge[i.class]))
              /\ ~(moment > i.deadline)
<1> DEFINE a == ~l.valid \/ ~i.valid
           b == ~Fresh(moment, l.observed, MaxLinkAge)
           c == i.deadline < i.created \/ ~Fresh(moment, i.created, MaxAge[i.class])
           d == moment > i.deadline
           s == << <<a, "InvalidMetric">>, <<b, "StaleInput">>, <<c, "StaleInput">>,
                   <<d, "DeadlineExpired">> >>
<1>1. LinkChecks(moment, l, i) = s
  BY Zenon DEF LinkChecks
<1>2. a \in BOOLEAN /\ b \in BOOLEAN /\ c \in BOOLEAN /\ d \in BOOLEAN
  OBVIOUS
<1>3. {"InvalidMetric", "StaleInput", "DeadlineExpired"} \subseteq Reason
  BY DEF Reason
<1>4. s \in Seq(Check) /\ (AllPass(s) <=> ~a /\ ~b /\ ~c /\ ~d)
  <2> DEFINE w == <<a, "InvalidMetric">>
             x == <<b, "StaleInput">>
             y == <<c, "StaleInput">>
             z == <<d, "DeadlineExpired">>
  <2>1. s = <<w, x, y, z>>
    BY Zenon
  <2> HIDE DEF a, b, c, d, s
  <2>2. /\ w \in Check /\ x \in Check /\ y \in Check /\ z \in Check
        /\ (w[1] = FALSE <=> ~a) /\ (x[1] = FALSE <=> ~b)
        /\ (y[1] = FALSE <=> ~c) /\ (z[1] = FALSE <=> ~d)
    BY <1>2, <1>3 DEF Check
  <2> HIDE DEF w, x, y, z
  <2>3. /\ <<w, x, y, z>> \in Seq(Check)
        /\ AllPass(<<w, x, y, z>>) <=>
             w[1] = FALSE /\ x[1] = FALSE /\ y[1] = FALSE /\ z[1] = FALSE
    BY <2>2, FourChecks
  <2> QED
    BY <2>1, <2>2, <2>3, Zenon
<1> QED
  BY <1>1, <1>4, Zenon

LEMMA BudgetPasses ==
  ASSUME NEW moment, NEW l, NEW i
  PROVE  /\ BudgetChecks(moment, l, i) \in Seq(Check)
         /\ AllPass(BudgetChecks(moment, l, i)) <=>
              /\ ~LinkTooDegraded(l.loss, i.class)
              /\ ~(moment + Latency(i, l) > i.deadline)
              /\ ~(\/ EstimatedEnergy(i, l) > Available(l)
                   \/ EstimatedEnergy(i, l) * MessageShare > l.remaining)
              /\ ~(UtilityPerByte(i, l, moment) < MinDensity)
<1> DEFINE a == LinkTooDegraded(l.loss, i.class)
           b == moment + Latency(i, l) > i.deadline
           c == \/ EstimatedEnergy(i, l) > Available(l)
                \/ EstimatedEnergy(i, l) * MessageShare > l.remaining
           d == UtilityPerByte(i, l, moment) < MinDensity
           s == << <<a, "LinkTooDegraded">>, <<b, "DeadlineUnreachable">>,
                   <<c, "EnergyBudgetExceeded">>, <<d, "InsufficientUtility">> >>
<1>1. BudgetChecks(moment, l, i) = s
  BY Zenon DEF BudgetChecks
<1>2. a \in BOOLEAN /\ b \in BOOLEAN /\ c \in BOOLEAN /\ d \in BOOLEAN
  BY DEF LinkTooDegraded
<1>3. {"LinkTooDegraded", "DeadlineUnreachable", "EnergyBudgetExceeded", "InsufficientUtility"}
        \subseteq Reason
  BY DEF Reason
<1>4. s \in Seq(Check) /\ (AllPass(s) <=> ~a /\ ~b /\ ~c /\ ~d)
  <2> DEFINE w == <<a, "LinkTooDegraded">>
             x == <<b, "DeadlineUnreachable">>
             y == <<c, "EnergyBudgetExceeded">>
             z == <<d, "InsufficientUtility">>
  <2>1. s = <<w, x, y, z>>
    BY Zenon
  <2> HIDE DEF a, b, c, d, s
  <2>2. /\ w \in Check /\ x \in Check /\ y \in Check /\ z \in Check
        /\ (w[1] = FALSE <=> ~a) /\ (x[1] = FALSE <=> ~b)
        /\ (y[1] = FALSE <=> ~c) /\ (z[1] = FALSE <=> ~d)
    BY <1>2, <1>3 DEF Check
  <2> HIDE DEF w, x, y, z
  <2>3. /\ <<w, x, y, z>> \in Seq(Check)
        /\ AllPass(<<w, x, y, z>>) <=>
             w[1] = FALSE /\ x[1] = FALSE /\ y[1] = FALSE /\ z[1] = FALSE
    BY <2>2, FourChecks
  <2> QED
    BY <2>1, <2>2, <2>3, Zenon
<1> QED
  BY <1>1, <1>4, Zenon

\* What stops a message whatever the link.
LEMMA OtherChecksType ==
  ASSUME NEW moment, NEW i \in MessageIntent
  PROVE  /\ GateChecks(moment, i) \in Seq(Check)
         /\ << <<~Permits(i.class, i.action), "TrafficClassMismatch">> >> \in Seq(Check)
         /\ ResidualChecks(moment, i) \in Seq(Check)
<1>1. \A b \in BOOLEAN, r \in Reason : <<b, r>> \in Check
  BY DEF Check
<1>2. GateChecks(moment, i) \in Seq(Check)
  <2>1. {"Unauthenticated", "UntrustedSource", "ExcessiveAuthority", "StaleInput",
         "ManifestNotApproved", "ProposalOutOfBounds", "UnknownAction", "ForbiddenAction"}
          \subseteq Reason
    BY DEF Reason
  <2> DEFINE b1 == ~i.security.authenticated
             b2 == ~i.security.trusted
             b3 == i.security.authority > MaxAuthority
             b4 == ~ContextFresh(moment, i.security)
             b5 == IsProposal(i) /\ i.manifest \notin approved
             b6 == IsProposal(i) /\ ~i.bounded
             b7 == i.action = "Unknown"
             b8 == i.action = "ActuatorCommand"
             b9 == i.security.authority > Ceiling(i.action)
  <2>2. /\ b1 \in BOOLEAN /\ b2 \in BOOLEAN /\ b3 \in BOOLEAN
        /\ b4 \in BOOLEAN /\ b5 \in BOOLEAN /\ b6 \in BOOLEAN
        /\ b7 \in BOOLEAN /\ b8 \in BOOLEAN /\ b9 \in BOOLEAN
    OBVIOUS
  <2>3. GateChecks(moment, i) =
            << <<b1, "Unauthenticated">>, <<b2, "UntrustedSource">>,
            <<b3, "ExcessiveAuthority">>, <<b4, "StaleInput">>,
            <<b5, "ManifestNotApproved">>, <<b6, "ProposalOutOfBounds">>,
            <<b7, "UnknownAction">>, <<b8, "ForbiddenAction">>,
            <<b9, "ExcessiveAuthority">> >>
    BY Zenon DEF GateChecks
  <2> HIDE DEF b1, b2, b3, b4, b5, b6, b7, b8, b9
  <2>4. /\ <<b1, "Unauthenticated">> \in Check /\ <<b2, "UntrustedSource">> \in Check
        /\ <<b3, "ExcessiveAuthority">> \in Check /\ <<b4, "StaleInput">> \in Check
        /\ <<b5, "ManifestNotApproved">> \in Check /\ <<b6, "ProposalOutOfBounds">> \in Check
        /\ <<b7, "UnknownAction">> \in Check /\ <<b8, "ForbiddenAction">> \in Check
        /\ <<b9, "ExcessiveAuthority">> \in Check
    BY <1>1, <2>1, <2>2
  <2> QED
    BY <2>3, <2>4
<1>3. << <<~Permits(i.class, i.action), "TrafficClassMismatch">> >> \in Seq(Check)
  <2> DEFINE b == ~Permits(i.class, i.action)
  <2>1. b \in BOOLEAN /\ "TrafficClassMismatch" \in Reason
    BY DEF Reason
  <2> HIDE DEF b
  <2>2. << <<b, "TrafficClassMismatch">> >> \in Seq(Check)
    BY <1>1, <2>1
  <2> QED
    BY <2>2, Zenon DEF b
<1>4. ResidualChecks(moment, i) \in Seq(Check)
  <2>1. {"TrafficClassMismatch", "ResidualNotValidated", "InvalidMetric"} \subseteq Reason
    BY DEF Reason
  <2> DEFINE b0 == i.residual.given
             b1 == ~i.residual.given
             b2 == ~i.residual.valid
             b3 == ~Fresh(moment, i.residual.evaluated, MaxEvidenceAge) \/ ~i.residual.passed
  <2>2. b0 \in BOOLEAN /\ b1 \in BOOLEAN /\ b2 \in BOOLEAN /\ b3 \in BOOLEAN
    BY DEF MessageIntent, Evidence
  <2>3. ResidualChecks(moment, i) =
          IF i.class # "LearnedResidual" THEN << <<b0, "TrafficClassMismatch">> >>
          ELSE << <<b1, "ResidualNotValidated">>, <<b2, "InvalidMetric">>,
                  <<b3, "ResidualNotValidated">> >>
    BY Zenon DEF ResidualChecks
  <2> HIDE DEF b0, b1, b2, b3
  <2>4. /\ <<b0, "TrafficClassMismatch">> \in Check /\ <<b1, "ResidualNotValidated">> \in Check
        /\ <<b2, "InvalidMetric">> \in Check /\ <<b3, "ResidualNotValidated">> \in Check
    BY <1>1, <2>1, <2>2
  <2> QED
    BY <2>3, <2>4
<1> QED
  BY <1>2, <1>3, <1>4

\* A message is sent just when link, gate, class, evidence and budgets let it.
LEMMA SendsWhen ==
  ASSUME NEW moment, NEW l, NEW i \in MessageIntent
  PROVE  IsSend(Evaluate(moment, l, i)) <=>
           /\ AllPass(LinkChecks(moment, l, i)) /\ AllPass(GateChecks(moment, i))
           /\ AllPass(<< <<~Permits(i.class, i.action), "TrafficClassMismatch">> >>)
           /\ AllPass(ResidualChecks(moment, i)) /\ AllPass(BudgetChecks(moment, l, i))
           /\ IsSend(i.action)
<1> DEFINE a == LinkChecks(moment, l, i)
           b == GateChecks(moment, i)
           c == << <<~Permits(i.class, i.action), "TrafficClassMismatch">> >>
           d == ResidualChecks(moment, i)
           e == BudgetChecks(moment, l, i)
<1>1. /\ a \in Seq(Check) /\ b \in Seq(Check) /\ c \in Seq(Check) /\ d \in Seq(Check)
      /\ e \in Seq(Check)
  BY LinkPasses, OtherChecksType, BudgetPasses
<1>2. Evaluate(moment, l, i) = FirstFailure(a \o b \o c \o d \o e, i.action)
  BY DEF Evaluate
<1>3. i.action \in RequestedAction
  BY DEF MessageIntent
<1> HIDE DEF a, b, c, d, e
<1>4. a \o b \in Seq(Check) /\ (AllPass(a \o b) <=> AllPass(a) /\ AllPass(b))
  BY <1>1, PassBoth
<1>5. /\ (a \o b) \o c \in Seq(Check)
      /\ AllPass((a \o b) \o c) <=> AllPass(a \o b) /\ AllPass(c)
  BY <1>1, <1>4, PassBoth
<1>6. /\ ((a \o b) \o c) \o d \in Seq(Check)
      /\ AllPass(((a \o b) \o c) \o d) <=> AllPass((a \o b) \o c) /\ AllPass(d)
  BY <1>1, <1>5, PassBoth
<1>7. /\ (((a \o b) \o c) \o d) \o e \in Seq(Check)
      /\ AllPass((((a \o b) \o c) \o d) \o e) <=> AllPass(((a \o b) \o c) \o d) /\ AllPass(e)
  BY <1>1, <1>6, PassBoth
<1> DEFINE all == a \o b \o c \o d \o e
<1>8. all \in Seq(Check) /\ (AllPass(all) <=> AllPass(a) /\ AllPass(b) /\ AllPass(c)
                                               /\ AllPass(d) /\ AllPass(e))
  BY <1>4, <1>5, <1>6, <1>7
<1> HIDE DEF all
<1>9. IsSend(FirstFailure(all, i.action)) <=> AllPass(all) /\ IsSend(i.action)
  BY <1>3, <1>8, SendsIfAllPass
<1>10. Evaluate(moment, l, i) = FirstFailure(all, i.action)
  BY <1>2 DEF all
<1> QED
  BY <1>8, <1>9, <1>10, Zenon DEF a, b, c, d, e

-----------------------------------------------------------------------------
(* Division, and what it makes of more *)

LEMMA DivisionOf ==
  ASSUME NEW a \in Int, NEW b \in Int, b > 0
  PROVE  /\ a \div b \in Int
         /\ b * (a \div b) <= a
         /\ a < b * (a \div b) + b
  OBVIOUS

LEMMA DivGrows ==
  ASSUME NEW a \in Int, NEW c \in Int, a <= c, NEW b \in Int, b > 0
  PROVE  a \div b <= c \div b
<1> DEFINE p == a \div b
           q == c \div b
<1>1. p \in Int /\ q \in Int /\ b * p <= a /\ c < b * q + b
  BY DivisionOf
<1> HIDE DEF p, q
<1>2. b * p < b * (q + 1)
  BY <1>1
<1>3. p < q + 1
  <2>1. ASSUME p >= q + 1 PROVE FALSE
    <3>1. PICK k \in Nat : p = (q + 1) + k
      BY <1>1, <2>1
    <3>2. b * p = b * (q + 1) + b * k /\ b * k \in Nat /\ b * (q + 1) \in Int
      BY <1>1, <3>1
    <3> QED
      BY <1>2, <3>2
  <2> QED
    BY <1>1, <2>1
<1>4. p <= q
  BY <1>1, <1>3
<1> QED
  BY <1>4 DEF p, q

LEMMA DivShrinks ==
  ASSUME NEW n \in Nat, NEW b \in Int, NEW c \in Int, 0 < b, b <= c
  PROVE  n \div c <= n \div b
<1> DEFINE p == n \div c
           q == n \div b
<1>1. p \in Int /\ q \in Int /\ c * p <= n /\ n < b * q + b /\ b * q <= n /\ n < c * p + c
  BY DivisionOf
<1> HIDE DEF p, q
<1>2. p >= 0
  <2>1. ASSUME p < 0 PROVE FALSE
    <3>1. PICK k \in Nat : p = -1 - k
      <4>1. -1 - p \in Nat /\ p = -1 - (-1 - p)
        BY <1>1, <2>1
      <4> QED
        BY <4>1
    <3>2. c * p = -c - c * k /\ c * k \in Nat
      BY <3>1
    <3> QED
      BY <1>1, <3>2
  <2> QED
    BY <1>1, <2>1
<1>3. b * p <= c * p
  <2>1. PICK k \in Nat : c = b + k
    OBVIOUS
  <2>2. c * p = b * p + k * p /\ k * p \in Nat /\ b * p \in Int
    BY <1>1, <1>2, <2>1
  <2> QED
    BY <2>2
<1>4. b * p < b * (q + 1)
  BY <1>1, <1>3
<1>5. p < q + 1
  <2>1. ASSUME p >= q + 1 PROVE FALSE
    <3>1. PICK k \in Nat : p = (q + 1) + k
      BY <1>1, <2>1
    <3>2. b * p = b * (q + 1) + b * k /\ b * k \in Nat /\ b * (q + 1) \in Int
      BY <1>1, <3>1
    <3> QED
      BY <1>4, <3>2
  <2> QED
    BY <1>1, <2>1
<1>6. p <= q
  BY <1>1, <1>5
<1> QED
  BY <1>6 DEF p, q

-----------------------------------------------------------------------------
(* A worse link: more is sent, later, and for more energy *)

LEMMA DeliveryConstants ==
  /\ {MaxClockSkew, MaxLinkAge, Reserve, EnergyPerByte, MinDensity, Rtt, FullEnergy, MaxClock}
       \subseteq Nat
  /\ MessageShare \in Nat /\ MessageShare > 0 /\ BytesPerTick \in Nat /\ BytesPerTick > 0
  /\ LossLevel \subseteq 0 .. 100 /\ Intent \subseteq MessageIntent
  /\ MaxAge \in [TrafficClass -> Nat \ {0}]
  BY DeliveryAssumption

LEMMA RedundancyIs ==
  ASSUME NEW loss \in 0 .. 100
  PROVE  /\ loss >= 50 => Redundancy(loss).copies = 3 /\ Redundancy(loss).parity = 50
         /\ loss \in 25 .. 49 => Redundancy(loss).copies = 2 /\ Redundancy(loss).parity = 35
         /\ loss \in 10 .. 24 => Redundancy(loss).copies = 1 /\ Redundancy(loss).parity = 20
         /\ loss < 10 => Redundancy(loss).copies = 1 /\ Redundancy(loss).parity = 0
<1>1. CASE loss >= 50
  <2>1. Redundancy(loss) = [copies |-> 3, parity |-> 50]
    BY <1>1 DEF Redundancy
  <2> QED
    BY <1>1, <2>1
<1>2. CASE loss \in 25 .. 49
  <2>1. Redundancy(loss) = [copies |-> 2, parity |-> 35]
    BY <1>2 DEF Redundancy
  <2> QED
    BY <1>2, <2>1
<1>3. CASE loss \in 10 .. 24
  <2>1. Redundancy(loss) = [copies |-> 1, parity |-> 20]
    BY <1>3 DEF Redundancy
  <2> QED
    BY <1>3, <2>1
<1>4. CASE loss < 10
  <2>1. Redundancy(loss) = [copies |-> 1, parity |-> 0]
    BY <1>4 DEF Redundancy
  <2> QED
    BY <1>4, <2>1
<1> QED
  BY <1>1, <1>2, <1>3, <1>4

LEMMA WireGrows ==
  ASSUME NEW bytes \in Nat \ {0}, NEW x \in 0 .. 100, NEW y \in 0 .. 100, x <= y
  PROVE  /\ ExpandedWireBytes(bytes, Redundancy(x)) \in Nat \ {0}
         /\ ExpandedWireBytes(bytes, Redundancy(y)) \in Nat \ {0}
         /\ ExpandedWireBytes(bytes, Redundancy(x)) <= ExpandedWireBytes(bytes, Redundancy(y))
<1> DEFINE share(loss) == IF loss >= 50 THEN 450 ELSE IF loss >= 25 THEN 270
                          ELSE IF loss >= 10 THEN 120 ELSE 100
           wire(loss)  == (bytes * share(loss) + 99) \div 100
<1>1. ASSUME NEW loss \in 0 .. 100
      PROVE  ExpandedWireBytes(bytes, Redundancy(loss)) = wire(loss)
  <2> DEFINE c == Redundancy(loss).copies
             p == Redundancy(loss).parity
  <2>1. bytes * c * (100 + p) = bytes * share(loss)
    <3>1. CASE loss >= 50
      <4>1. c = 3 /\ p = 50
        BY <3>1, RedundancyIs
      <4> QED
        BY <3>1, <4>1
    <3>2. CASE loss \in 25 .. 49
      <4>1. c = 2 /\ p = 35
        BY <3>2, RedundancyIs
      <4> QED
        BY <3>2, <4>1
    <3>3. CASE loss \in 10 .. 24
      <4>1. c = 1 /\ p = 20
        BY <3>3, RedundancyIs
      <4> QED
        BY <3>3, <4>1
    <3>4. CASE loss < 10
      <4>1. c = 1 /\ p = 0
        BY <3>4, RedundancyIs
      <4> QED
        BY <3>4, <4>1
    <3> QED
      BY <3>1, <3>2, <3>3, <3>4
  <2>2. ExpandedWireBytes(bytes, Redundancy(loss)) = (bytes * c * (100 + p) + 100 - 1) \div 100
    BY DEF ExpandedWireBytes, CeilDiv
  <2>3. bytes * share(loss) \in Nat
    BY DEF share
  <2> HIDE DEF c, p, share
  <2> QED
    BY <2>1, <2>2, <2>3
<1>2. ASSUME NEW loss \in 0 .. 100 PROVE bytes * share(loss) + 99 \in Int /\ wire(loss) >= 1
  BY DEF share, wire
<1>3. bytes * share(x) + 99 <= bytes * share(y) + 99
  BY DEF share
<1>4. wire(x) <= wire(y)
  <2> DEFINE a == bytes * share(x) + 99
             b == bytes * share(y) + 99
  <2>1. a \in Int /\ b \in Int /\ a <= b
    BY <1>2, <1>3
  <2> HIDE DEF a, b
  <2>2. a \div 100 <= b \div 100
    BY <2>1, DivGrows
  <2> QED
    BY <2>2 DEF a, b
<1>5. wire(x) \in Int /\ wire(y) \in Int
  <2>1. \A a \in Int : a \div 100 \in Int
    OBVIOUS
  <2> QED
    BY <1>2, <2>1
<1> HIDE DEF wire
<1> QED
  BY <1>1, <1>2, <1>4, <1>5

LEMMA WireType ==
  ASSUME NEW bytes \in Nat \ {0}, NEW loss \in 0 .. 100
  PROVE  ExpandedWireBytes(bytes, Redundancy(loss)) \in Nat \ {0}
<1>1. loss <= loss
  OBVIOUS
<1> QED
  BY <1>1, WireGrows

LEMMA TimesGrows ==
  ASSUME NEW a \in Nat, NEW b \in Nat, a <= b, NEW c \in Nat
  PROVE  a * c <= b * c /\ a * c \in Nat /\ b * c \in Nat
<1>1. PICK k \in Nat : b = a + k
  <2>1. b - a \in Nat /\ b = a + (b - a)
    OBVIOUS
  <2> QED
    BY <2>1
<1>2. b * c = a * c + k * c /\ k * c \in Nat /\ a * c \in Nat
  BY <1>1
<1> QED
  BY <1>2

\* What budgets let through on the worse link they let through on the better.
LEMMA BudgetsFollowTheLink ==
  ASSUME NEW i \in MessageIntent, NEW moment \in Nat, NEW l, NEW m,
         l.loss \in 0 .. 100, m.loss \in 0 .. 100, m.loss <= l.loss,
         l.remaining \in Nat, m.remaining = l.remaining,
         AllPass(BudgetChecks(moment, l, i))
  PROVE  AllPass(BudgetChecks(moment, m, i))
<1> DEFINE big   == WireBytes(i, l)
           small == WireBytes(i, m)
<1>1. /\ i.bytes \in Nat \ {0} /\ i.utility \in Nat /\ i.created \in Nat /\ i.deadline \in Nat
      /\ i.class \in TrafficClass
  BY DEF MessageIntent
<1>2. big \in Nat \ {0} /\ small \in Nat \ {0} /\ small <= big
  BY <1>1, WireGrows DEF WireBytes
<1>3. /\ ~LinkTooDegraded(l.loss, i.class)
      /\ ~(moment + Latency(i, l) > i.deadline)
      /\ ~(EstimatedEnergy(i, l) > Available(l))
      /\ ~(EstimatedEnergy(i, l) * MessageShare > l.remaining)
      /\ ~(UtilityPerByte(i, l, moment) < MinDensity)
  BY BudgetPasses
<1>4. ~LinkTooDegraded(m.loss, i.class)
  BY <1>3 DEF LinkTooDegraded
<1>5. ~(moment + Latency(i, m) > i.deadline)
  <2> DEFINE lo   == CeilDiv(small, BytesPerTick)
             hi   == CeilDiv(big, BytesPerTick)
             wait == CeilDiv(Rtt, 2)
  <2>1. lo <= hi /\ lo \in Int /\ hi \in Int
    <3> HIDE DEF small, big
    <3> DEFINE x == small + BytesPerTick - 1
               y == big + BytesPerTick - 1
    <3>1. x \in Int /\ y \in Int /\ x <= y /\ BytesPerTick \in Int /\ BytesPerTick > 0
      BY <1>2, DeliveryConstants
    <3>2. lo = x \div BytesPerTick /\ hi = y \div BytesPerTick
      BY DEF CeilDiv
    <3> HIDE DEF x, y, lo, hi
    <3>3. x \div BytesPerTick <= y \div BytesPerTick
      BY <3>1, DivGrows
    <3>4. x \div BytesPerTick \in Int /\ y \div BytesPerTick \in Int
      BY <3>1, DivisionOf
    <3> QED
      BY <3>2, <3>3, <3>4
  <2>2. wait \in Int /\ Rtt \in Nat
    BY DeliveryConstants DEF CeilDiv
  <2> DEFINE ackLo == IF AckMode(m.loss, i.class) = "Required" THEN Rtt ELSE 0
             ackHi == IF AckMode(l.loss, i.class) = "Required" THEN Rtt ELSE 0
  <2>3. Latency(i, l) = wait + hi + ackHi /\ Latency(i, m) = wait + lo + ackLo
    BY Zenon DEF Latency
  <2>4. ackLo <= ackHi /\ ackLo \in Int /\ ackHi \in Int
    BY <2>2 DEF AckMode
  <2> HIDE DEF lo, hi, wait, ackLo, ackHi
  <2> QED
    BY <1>1, <1>3, <2>1, <2>2, <2>3, <2>4
<1>6. EstimatedEnergy(i, m) <= EstimatedEnergy(i, l)
      /\ EstimatedEnergy(i, m) \in Nat /\ EstimatedEnergy(i, l) \in Nat
  <2>1. EnergyPerByte \in Nat
    BY DeliveryConstants
  <2> HIDE DEF small, big
  <2>2. small * EnergyPerByte <= big * EnergyPerByte
        /\ small * EnergyPerByte \in Nat /\ big * EnergyPerByte \in Nat
    BY <1>2, <2>1, TimesGrows
  <2> DEFINE x == small * EnergyPerByte
             y == big * EnergyPerByte
  <2>3. EstimatedEnergy(i, m) = i.encode + x /\ EstimatedEnergy(i, l) = i.encode + y
    BY DEF EstimatedEnergy, small, big
  <2>4. i.encode \in Nat
    BY DEF MessageIntent
  <2>5. x <= y /\ x \in Nat /\ y \in Nat
    BY <2>2
  <2> HIDE DEF x, y
  <2> QED
    BY <2>3, <2>4, <2>5
<1>7. ~(\/ EstimatedEnergy(i, m) > Available(m)
        \/ EstimatedEnergy(i, m) * MessageShare > m.remaining)
  <2> DEFINE e == EstimatedEnergy(i, m)
             f == EstimatedEnergy(i, l)
  <2>1. Available(m) = Available(l) /\ Available(l) \in Nat
    BY DeliveryConstants DEF Available
  <2>2. e \in Nat /\ f \in Nat /\ e <= f /\ ~(f > Available(l)) /\ ~(f * MessageShare > l.remaining)
    BY <1>3, <1>6
  <2> HIDE DEF e, f
  <2>3. e * MessageShare <= f * MessageShare /\ e * MessageShare \in Nat /\ f * MessageShare \in Nat
    BY <2>2, DeliveryConstants, TimesGrows
  <2>4. ~(e > Available(m)) /\ ~(e * MessageShare > m.remaining)
    BY <2>1, <2>2, <2>3
  <2> QED
    BY <2>4 DEF e
<1>8. ~(UtilityPerByte(i, m, moment) < MinDensity)
  <2> DEFINE age   == IF moment > i.created THEN moment - i.created ELSE 0
             left  == IF age > MaxAge[i.class] THEN 0 ELSE MaxAge[i.class] - age
             worth == i.utility * PriorityWeight[i.class] * left * DensityUnit
             most  == MaxAge[i.class]
  <2>1. most \in Nat \ {0}
    BY <1>1, DeliveryConstants
  <2>2. PriorityWeight[i.class] \in Nat
    BY <1>1 DEF PriorityWeight, TrafficClass
  <2>3. left \in Nat
    BY <1>1, <2>1
  <2>4. worth \in Nat
    <3> HIDE DEF left
    <3>1. i.utility * PriorityWeight[i.class] \in Nat
      BY <1>1, <2>2
    <3>2. (i.utility * PriorityWeight[i.class]) * left \in Nat
      BY <2>3, <3>1
    <3> QED
      BY <3>2 DEF DensityUnit
  <2>5. /\ UtilityPerByte(i, l, moment) = worth \div (big * most)
        /\ UtilityPerByte(i, m, moment) = worth \div (small * most)
    BY DEF UtilityPerByte
  <2> HIDE DEF worth, most, big, small
  <2> DEFINE b == small * most
             c == big * most
  <2>6. b \in Int /\ c \in Int /\ b <= c /\ 0 < b
    <3>1. b <= c /\ b \in Nat /\ c \in Nat
      BY <1>2, <2>1, TimesGrows
    <3>2. 1 * most <= small * most
      BY <1>2, <2>1, TimesGrows
    <3> QED
      BY <2>1, <3>1, <3>2
  <2> HIDE DEF b, c
  <2>7. worth \div c <= worth \div b
    BY <2>4, <2>6, DivShrinks
  <2>8. worth \div c \in Int /\ worth \div b \in Int
    BY <2>4, <2>6, DivisionOf
  <2>9. MinDensity \in Int
    BY DeliveryConstants
  <2> QED
    BY <1>3, <2>5, <2>7, <2>8, <2>9 DEF b, c
<1> QED
  BY <1>4, <1>5, <1>7, <1>8, BudgetPasses

-----------------------------------------------------------------------------

DeliveryTypes == link \in LinkSnapshot /\ energy \in 0 .. FullEnergy /\ clock \in 0 .. MaxClock

\* A link in a state has a loss in percent.
LEMMA LinkTypes ==
  ASSUME DeliveryTypes
  PROVE  /\ link.loss \in LossLevel /\ link.loss \in 0 .. 100 /\ link.valid \in BOOLEAN
         /\ link.observed \in Nat /\ link.remaining \in Nat /\ clock \in Nat /\ energy \in Nat
         /\ DOMAIN link = {"observed", "loss", "valid", "remaining"}
<1>1. link \in LinkSnapshot /\ energy \in Nat /\ clock \in Nat
  BY DeliveryConstants DEF DeliveryTypes
<1>2. /\ link.observed \in 0 .. MaxClock /\ link.loss \in LossLevel /\ link.valid \in BOOLEAN
      /\ link.remaining \in 0 .. FullEnergy
  BY <1>1 DEF LinkSnapshot
<1>3. DOMAIN link = {"observed", "loss", "valid", "remaining"}
  BY <1>1 DEF LinkSnapshot
<1>4. link.loss \in 0 .. 100
  BY <1>2, DeliveryConstants
<1>5. link.observed \in Nat /\ link.remaining \in Nat
  BY <1>2
<1> QED
  BY <1>1, <1>2, <1>3, <1>4, <1>5

LEMMA WorseNeverHelps == ASSUME DeliveryTypes PROVE WorseLinkNeverHelps
<1>1. SUFFICES ASSUME NEW worse \in LossLevel, link.valid, worse > link.loss, NEW i \in Intent,
                      IsSend(Evaluate(clock, [link EXCEPT !.loss = worse], i))
               PROVE  IsSend(Evaluate(clock, link, i))
  BY DEF WorseLinkNeverHelps
<1> DEFINE l == [link EXCEPT !.loss = worse]
<1>2. i \in MessageIntent /\ worse \in 0 .. 100
  BY DeliveryConstants
<1>3. /\ l.loss = worse /\ l.valid = link.valid /\ l.observed = link.observed
      /\ l.remaining = link.remaining
  BY LinkTypes
<1>4. IsSend(Evaluate(clock, l, i))
  BY <1>1
<1> HIDE DEF l
<1>5. LinkChecks(clock, l, i) = LinkChecks(clock, link, i)
  BY <1>3, Zenon DEF LinkChecks
<1>6. AllPass(BudgetChecks(clock, l, i))
  BY <1>2, <1>4, SendsWhen
<1>7. AllPass(BudgetChecks(clock, link, i))
  <2>1. /\ clock \in Nat /\ link.loss \in 0 .. 100 /\ l.loss \in 0 .. 100 /\ link.loss <= l.loss
        /\ l.remaining \in Nat
    BY <1>1, <1>2, <1>3, LinkTypes
  <2> QED
    BY <1>2, <1>3, <1>6, <2>1, BudgetsFollowTheLink
<1>8. /\ AllPass(LinkChecks(clock, l, i)) /\ AllPass(GateChecks(clock, i))
      /\ AllPass(<< <<~Permits(i.class, i.action), "TrafficClassMismatch">> >>)
      /\ AllPass(ResidualChecks(clock, i)) /\ IsSend(i.action)
  BY <1>2, <1>4, SendsWhen, Zenon
<1> QED
  BY <1>2, <1>5, <1>7, <1>8, SendsWhen, Zenon

-----------------------------------------------------------------------------
(* Schedules: of two decisions on different intents one ranks first *)

ScheduledDecision == [index : Int, decision : RequestedAction \cup Reason, density : Int]

LEMMA RanksOrder ==
  ASSUME NEW a \in ScheduledDecision, NEW b \in ScheduledDecision, NEW c \in ScheduledDecision
  PROVE  /\ ~Ranks(a, a)
         /\ a.index # b.index => Ranks(a, b) \/ Ranks(b, a)
         /\ Ranks(a, b) /\ Ranks(b, c) => Ranks(a, c)
<1>1. /\ a.index \in Int /\ b.index \in Int /\ c.index \in Int
      /\ a.density \in Int /\ b.density \in Int /\ c.density \in Int
  BY DEF ScheduledDecision
<1> DEFINE p == IsSend(a.decision)
           q == IsSend(b.decision)
           r == IsSend(c.decision)
<1>2. p \in BOOLEAN /\ q \in BOOLEAN /\ r \in BOOLEAN
  BY DEF IsSend
<1>3. Ranks(a, a) <=> \/ p /\ ~p
                      \/ p /\ p /\ a.density > a.density
                      \/ (p <=> p) /\ (~p \/ a.density = a.density) /\ a.index < a.index
  BY DEF Ranks
<1>4. Ranks(a, b) <=> \/ p /\ ~q
                      \/ p /\ q /\ a.density > b.density
                      \/ (p <=> q) /\ (~p \/ a.density = b.density) /\ a.index < b.index
  BY <1>2 DEF Ranks
<1>5. Ranks(b, a) <=> \/ q /\ ~p
                      \/ q /\ p /\ b.density > a.density
                      \/ (q <=> p) /\ (~q \/ b.density = a.density) /\ b.index < a.index
  BY <1>2 DEF Ranks
<1>6. Ranks(b, c) <=> \/ q /\ ~r
                      \/ q /\ r /\ b.density > c.density
                      \/ (q <=> r) /\ (~q \/ b.density = c.density) /\ b.index < c.index
  BY <1>2 DEF Ranks
<1>7. Ranks(a, c) <=> \/ p /\ ~r
                      \/ p /\ r /\ a.density > c.density
                      \/ (p <=> r) /\ (~p \/ a.density = c.density) /\ a.index < c.index
  BY <1>2 DEF Ranks
<1> HIDE DEF p, q, r
<1>8. ~Ranks(a, a)
  BY <1>1, <1>3
<1>9. a.index # b.index => Ranks(a, b) \/ Ranks(b, a)
  BY <1>1, <1>4, <1>5
<1>10. Ranks(a, b) /\ Ranks(b, c) => Ranks(a, c)
  BY <1>1, <1>4, <1>6, <1>7
<1> QED
  BY <1>8, <1>9, <1>10

LEMMA DecisionIsKnown ==
  ASSUME NEW moment, NEW l, NEW i \in MessageIntent
  PROVE  Evaluate(moment, l, i) \in RequestedAction \cup Reason
<1> DEFINE a == LinkChecks(moment, l, i)
           b == GateChecks(moment, i)
           c == << <<~Permits(i.class, i.action), "TrafficClassMismatch">> >>
           d == ResidualChecks(moment, i)
           e == BudgetChecks(moment, l, i)
           all == a \o b \o c \o d \o e
<1>1. /\ a \in Seq(Check) /\ b \in Seq(Check) /\ c \in Seq(Check) /\ d \in Seq(Check)
      /\ e \in Seq(Check)
  BY LinkPasses, OtherChecksType, BudgetPasses
<1>2. Evaluate(moment, l, i) = FirstFailure(all, i.action)
  BY DEF Evaluate
<1> HIDE DEF a, b, c, d, e
<1>3. all \in Seq(Check)
  <2>1. a \o b \in Seq(Check)
    BY <1>1, ConcatProperties
  <2>2. (a \o b) \o c \in Seq(Check)
    BY <1>1, <2>1, ConcatProperties
  <2>3. ((a \o b) \o c) \o d \in Seq(Check)
    BY <1>1, <2>2, ConcatProperties
  <2> QED
    BY <1>1, <2>3, ConcatProperties
<1>4. i.action \in RequestedAction
  BY DEF MessageIntent
<1> HIDE DEF all
<1> QED
  BY <1>2, <1>3, <1>4, FailureIsKnown

LEMMA DensityType ==
  ASSUME NEW i \in MessageIntent, NEW l, l.loss \in 0 .. 100, NEW moment \in Nat
  PROVE  UtilityPerByte(i, l, moment) \in Int
<1> DEFINE age   == IF moment > i.created THEN moment - i.created ELSE 0
           left  == IF age > MaxAge[i.class] THEN 0 ELSE MaxAge[i.class] - age
           worth == i.utility * PriorityWeight[i.class] * left * DensityUnit
           most  == MaxAge[i.class]
           wire  == WireBytes(i, l)
<1>1. i.bytes \in Nat \ {0} /\ i.utility \in Nat /\ i.created \in Nat /\ i.class \in TrafficClass
  BY DEF MessageIntent
<1>2. most \in Nat \ {0} /\ PriorityWeight[i.class] \in Nat
  BY <1>1, DeliveryConstants DEF PriorityWeight, TrafficClass
<1>3. left \in Nat
  BY <1>1, <1>2
<1>4. worth \in Int
  <2> HIDE DEF left
  <2>1. i.utility * PriorityWeight[i.class] \in Nat
    BY <1>1, <1>2
  <2>2. (i.utility * PriorityWeight[i.class]) * left \in Nat
    BY <1>3, <2>1
  <2> QED
    BY <2>2 DEF DensityUnit
<1>5. wire \in Nat \ {0}
  BY <1>1, WireType DEF WireBytes
<1>6. UtilityPerByte(i, l, moment) = worth \div (wire * most)
  BY DEF UtilityPerByte
<1> HIDE DEF worth, most, wire
<1>7. wire * most \in Int /\ wire * most > 0
  <2>1. 1 * most <= wire * most /\ wire * most \in Nat
    BY <1>2, <1>5, TimesGrows
  <2> QED
    BY <1>2, <2>1
<1> QED
  BY <1>4, <1>6, <1>7, DivisionOf

LEMMA DecisionType ==
  ASSUME DeliveryTypes, NEW i \in Intent, NEW k \in Int
  PROVE  [index |-> k, decision |-> Evaluate(clock, link, i),
          density |-> UtilityPerByte(i, link, clock)] \in ScheduledDecision
<1>1. Evaluate(clock, link, i) \in RequestedAction \cup Reason
  BY DecisionIsKnown, DeliveryConstants
<1>2. UtilityPerByte(i, link, clock) \in Int
  BY DensityType, DeliveryConstants, LinkTypes
<1> QED
  BY <1>1, <1>2 DEF ScheduledDecision

\* Three decisions on different intents can be put in their order.
LEMMA ThreeSort ==
  ASSUME NEW D \in SUBSET ScheduledDecision, NEW a \in D, NEW b \in D, NEW c \in D,
         a.index # b.index, b.index # c.index, a.index # c.index
  PROVE  \E s \in [1 .. 3 -> D] : \A j, k \in 1 .. 3 : j < k => Ranks(s[j], s[k])
<1>1. \E x, y, z \in D : Ranks(x, y) /\ Ranks(y, z) /\ Ranks(x, z)
  <2>1. /\ Ranks(a, b) \/ Ranks(b, a)
        /\ Ranks(b, c) \/ Ranks(c, b)
        /\ Ranks(a, c) \/ Ranks(c, a)
    BY RanksOrder
  <2>2. \A x, y, z \in D : Ranks(x, y) /\ Ranks(y, z) => Ranks(x, z)
    BY RanksOrder
  <2> QED
    BY <2>1, <2>2
<1>2. PICK x \in D, y \in D, z \in D : Ranks(x, y) /\ Ranks(y, z) /\ Ranks(x, z)
  BY <1>1
<1> DEFINE s == [k \in 1 .. 3 |-> IF k = 1 THEN x ELSE IF k = 2 THEN y ELSE z]
<1>3. s \in [1 .. 3 -> D] /\ s[1] = x /\ s[2] = y /\ s[3] = z
  OBVIOUS
<1> HIDE DEF s
<1>4. ASSUME NEW j \in 1 .. 3, NEW k \in 1 .. 3, j < k PROVE Ranks(s[j], s[k])
  <2>1. (j = 1 /\ k = 2) \/ (j = 1 /\ k = 3) \/ (j = 2 /\ k = 3)
    BY <1>4
  <2> QED
    BY <1>2, <1>3, <2>1
<1> QED
  BY <1>3, <1>4

LEMMA SchedulesRank == ASSUME DeliveryTypes PROVE ScheduleRanks
<1>1. SUFFICES ASSUME NEW a \in Intent, NEW b \in Intent
      PROVE LET s == Schedule(clock, link, <<a, b, a>>)
            IN  /\ {s[k].index : k \in 1 .. 3} = 1 .. 3
                /\ \A j, k \in 1 .. 3 :
                     j < k => /\ IsSend(s[k].decision) => /\ IsSend(s[j].decision)
                                                          /\ s[j].density >= s[k].density
                              /\ ( \/ ~IsSend(s[j].decision)
                                   \/ IsSend(s[k].decision) /\ s[j].density = s[k].density)
                                 => s[j].index < s[k].index
  BY DEF ScheduleRanks
<1> DEFINE intents == <<a, b, a>>
           d == [k \in 1 .. 3 |-> [index    |-> k,
                                   decision |-> Evaluate(clock, link, intents[k]),
                                   density  |-> UtilityPerByte(intents[k], link, clock)]]
           D == {d[k] : k \in 1 .. 3}
           s == CHOOSE s \in [1 .. 3 -> D] : \A j, k \in 1 .. 3 : j < k => Ranks(s[j], s[k])
<1>2. Schedule(clock, link, <<a, b, a>>) = s
  <2>1. Len(intents) = 3
    OBVIOUS
  <2>2. { [index    |-> k,
           decision |-> Evaluate(clock, link, intents[k]),
           density  |-> UtilityPerByte(intents[k], link, clock)] : k \in 1 .. 3 } = D
    BY Zenon
  <2> QED
    BY <2>1, <2>2, Zenon DEF Schedule
<1>3. \A k \in 1 .. 3 : d[k] \in ScheduledDecision /\ d[k].index = k
  <2>1. ASSUME NEW k \in 1 .. 3 PROVE d[k] \in ScheduledDecision /\ d[k].index = k
    <3>1. intents[k] \in Intent /\ k \in Int
      OBVIOUS
    <3> HIDE DEF intents
    <3> QED
      BY <3>1, DecisionType
  <2> QED
    BY <2>1
<1> HIDE DEF d
<1>4. /\ D \in SUBSET ScheduledDecision
      /\ d[1] \in D /\ d[2] \in D /\ d[3] \in D
      /\ d[1].index = 1 /\ d[2].index = 2 /\ d[3].index = 3
      /\ \A x \in D : x = d[1] \/ x = d[2] \/ x = d[3]
  BY <1>3
<1> HIDE DEF D
<1>5. \E t \in [1 .. 3 -> D] : \A j, k \in 1 .. 3 : j < k => Ranks(t[j], t[k])
  BY <1>4, ThreeSort
<1>6. s \in [1 .. 3 -> D] /\ \A j, k \in 1 .. 3 : j < k => Ranks(s[j], s[k])
  BY <1>5
<1> HIDE DEF s
<1>7. \A k \in 1 .. 3 : s[k] \in ScheduledDecision /\ s[k].index \in 1 .. 3
  BY <1>4, <1>6
<1>8. {s[k].index : k \in 1 .. 3} = 1 .. 3
  <2>1. \A x \in D, y \in D : x.index = y.index => x = y
    BY <1>4
  <2>2. /\ Ranks(s[1], s[2]) /\ Ranks(s[1], s[3]) /\ Ranks(s[2], s[3])
        /\ s[1] \in D /\ s[2] \in D /\ s[3] \in D
    BY <1>6
  <2>3. s[1] # s[2] /\ s[1] # s[3] /\ s[2] # s[3]
    BY <1>7, <2>2, RanksOrder
  <2>4. s[1].index # s[2].index /\ s[1].index # s[3].index /\ s[2].index # s[3].index
    BY <2>1, <2>2, <2>3
  <2> QED
    BY <1>7, <2>4
<1>9. ASSUME NEW j \in 1 .. 3, NEW k \in 1 .. 3, j < k
      PROVE  /\ IsSend(s[k].decision) => IsSend(s[j].decision) /\ s[j].density >= s[k].density
             /\ (~IsSend(s[j].decision) \/ (IsSend(s[k].decision) /\ s[j].density = s[k].density))
                   => s[j].index < s[k].index
  <2>1. Ranks(s[j], s[k]) /\ s[j].density \in Int /\ s[k].density \in Int
    BY <1>6, <1>7, <1>9 DEF ScheduledDecision
  <2> DEFINE p == IsSend(s[j].decision)
             q == IsSend(s[k].decision)
  <2>2. p \in BOOLEAN /\ q \in BOOLEAN
    BY DEF IsSend
  <2>3. \/ p /\ ~q
        \/ p /\ q /\ s[j].density > s[k].density
        \/ (p <=> q) /\ (~p \/ s[j].density = s[k].density) /\ s[j].index < s[k].index
    BY <2>1, <2>2 DEF Ranks
  <2> HIDE DEF p, q
  <2>4. /\ q => p /\ s[j].density >= s[k].density
        /\ (~p \/ (q /\ s[j].density = s[k].density)) => s[j].index < s[k].index
    BY <2>1, <2>3
  <2> QED
    BY <2>4, Zenon DEF p, q
<1> QED
  BY <1>2, <1>8, <1>9, Zenon

-----------------------------------------------------------------------------

\* What a message is estimated to draw is what it draws.
LEMMA CostType ==
  ASSUME DeliveryTypes, NEW i \in Intent
  PROVE  EstimatedEnergy(i, link) \in Nat /\ Cost(i, link) = EstimatedEnergy(i, link)
<1>1. i.bytes \in Nat \ {0} /\ link.loss \in 0 .. 100 /\ EnergyPerByte \in Nat
  BY DeliveryConstants, LinkTypes DEF MessageIntent
<1>2. WireBytes(i, link) \in Nat \ {0}
  BY <1>1, WireType DEF WireBytes
<1>3. Cost(i, link) = i.encode + WireBytes(i, link) * EnergyPerByte
  BY Zenon DEF Cost, WireBytes, ExpandedWireBytes
<1>4. WireBytes(i, link) * EnergyPerByte \in Nat /\ i.encode \in Nat
  <2>1. i.encode \in Nat
    BY DeliveryConstants DEF MessageIntent
  <2> QED
    BY <1>1, <1>2, <2>1, TimesGrows
<1>5. i.encode + WireBytes(i, link) * EnergyPerByte \in Nat
  <2> DEFINE x == WireBytes(i, link) * EnergyPerByte
  <2>1. x \in Nat
    BY <1>4
  <2> HIDE DEF x
  <2>2. i.encode + x \in Nat
    BY <1>4, <2>1
  <2> QED
    BY <2>2 DEF x
<1> QED
  BY <1>3, <1>5 DEF EstimatedEnergy

LEMMA DrawnType ==
  ASSUME DeliveryTypes, NEW S \in SUBSET Intent, IsFiniteSet(S)
  PROVE  Drawn(S) \in 0 .. energy
<1> DEFINE f == [i \in S |-> Cost(i, link)]
           total == SumFunctionOnSet(f, S)
<1>1. \A i \in S : f[i] \in Nat
  BY CostType
<1> HIDE DEF f
<1>2. total \in Nat
  BY <1>1, SumNat
<1>3. Drawn(S) = IF total > energy THEN energy ELSE total
  BY DEF Drawn, f
<1> HIDE DEF total
<1> QED
  BY <1>2, <1>3, LinkTypes

LEMMA DeliveryInitTypes == DeliveryInit => DeliveryTypes
  BY DeliveryConstants DEF DeliveryInit, DeliveryTypes, LinkSnapshot

LEMMA DeliveryNextTypes == DeliveryTypes /\ [DeliveryNext]_deliveryVars => DeliveryTypes'
<1>1. ASSUME DeliveryTypes, NEW S \in SUBSET Intent, IsFiniteSet(S),
             energy' = energy - Drawn(S), link' = link, clock' = clock
      PROVE  DeliveryTypes'
  <2>1. Drawn(S) \in 0 .. energy /\ energy \in 0 .. FullEnergy /\ FullEnergy \in Nat
    BY <1>1, DrawnType, DeliveryConstants DEF DeliveryTypes
  <2>2. energy' \in 0 .. FullEnergy
    BY <1>1, <2>1
  <2> QED
    BY <1>1, <2>2 DEF DeliveryTypes, LinkSnapshot
<1>2. ASSUME DeliveryTypes, Measure PROVE DeliveryTypes'
  BY <1>2 DEF Measure, DeliveryTypes, LinkSnapshot
<1>3. ASSUME DeliveryTypes, ClockTick PROVE DeliveryTypes'
  BY <1>3, DeliveryConstants DEF ClockTick, DeliveryTypes, LinkSnapshot
<1>4. ASSUME DeliveryTypes, NEW i \in Intent, Deliver(i) PROVE DeliveryTypes'
  <2>1. {i} \in SUBSET Intent /\ IsFiniteSet({i})
    BY FS_Singleton
  <2> QED
    BY <1>1, <1>4, <2>1 DEF Deliver
<1>5. ASSUME DeliveryTypes, NEW i \in Intent, NEW j \in Intent, DeliverBatch({i, j})
      PROVE  DeliveryTypes'
  <2>1. {i, j} \in SUBSET Intent /\ IsFiniteSet({i, j})
    <3>1. {i, j} = {i} \cup {j} /\ IsFiniteSet({i})
      BY FS_Singleton
    <3> QED
      BY <3>1, FS_AddElement
  <2> QED
    BY <1>1, <1>5, <2>1 DEF DeliverBatch
<1>6. ASSUME DeliveryTypes, UNCHANGED <<link, energy, clock>> PROVE DeliveryTypes'
  BY <1>6 DEF DeliveryTypes, LinkSnapshot
<1> QED
  BY <1>2, <1>3, <1>4, <1>5, <1>6
     DEF DeliveryNext, ApproveManifest, RevokeManifest, deliveryVars

\* AdaptivePolicy decides on loss, redundancy, deadline, energy and value at
\* once: what it sends over a link it would send over a better one, and the
\* schedule of a list ranks every intent, sends first and by value.
THEOREM DecisionsAreReasoned == DeliverySpec => []DeliveryIsReasoned
<1>1. DeliveryTypes => DeliveryIsReasoned
  BY WorseNeverHelps, SchedulesRank DEF DeliveryIsReasoned
<1> QED
  BY <1>1, DeliveryInitTypes, DeliveryNextTypes, PTL DEF DeliverySpec

\* One message that AdaptivePolicy sends on a true measurement, with all its
\* copies, leaves the reserve and takes no more than its share of the rest.
THEOREM ReserveIsKept == DeliverySpec => SingleSendKeepsReserve
<1>1. ASSUME DeliveryTypes, [DeliveryNext]_deliveryVars
      PROVE  [\A i \in Intent :
                (energy' < energy /\ link.remaining = energy /\ Deliver(i)) =>
                  /\ energy' >= Reserve
                  /\ (energy - energy') * MessageShare <= energy]_deliveryVars
  <2>1. SUFFICES ASSUME NEW i \in Intent, energy' < energy, link.remaining = energy, Deliver(i)
                 PROVE  energy' >= Reserve /\ (energy - energy') * MessageShare <= energy
    OBVIOUS
  <2> DEFINE e == EstimatedEnergy(i, link)
             share == MessageShare
  <2>2. IsSend(Evaluate(clock, link, i)) /\ energy' = energy - Drawn({i})
    BY <2>1 DEF Deliver
  <2>3. ~(e > Available(link)) /\ ~(e * share > link.remaining)
    BY <2>2, SendsWhen, BudgetPasses, DeliveryConstants
  <2>4. e \in Nat /\ Cost(i, link) = e
    BY <1>1, CostType
  <2>5. Drawn({i}) = IF e > energy THEN energy ELSE e
    <3> DEFINE f == [j \in {i} |-> Cost(j, link)]
    <3>1. f[i] = e
      BY <2>4
    <3> HIDE DEF f, e
    <3>2. SumFunctionOnSet(f, {i}) = e
      BY <2>4, <3>1, SumSingle
    <3> QED
      BY <3>2 DEF Drawn, f
  <2>6. energy \in Nat /\ Reserve \in Nat /\ share \in Nat /\ link.remaining \in Nat
    BY <1>1, LinkTypes, DeliveryConstants
  <2> HIDE DEF e, share
  <2>7. Available(link) = IF energy > Reserve THEN energy - Reserve ELSE 0
    BY <2>1, <2>6 DEF Available
  <2>8. energy' = energy - e /\ e > 0
    <3>1. ~(e > energy)
      BY <2>3, <2>4, <2>6, <2>7
    <3>2. energy' = energy - e
      BY <2>2, <2>5, <3>1
    <3> QED
      BY <2>1, <2>4, <2>6, <3>2
  <2>9. energy' >= Reserve
    BY <2>3, <2>4, <2>6, <2>7, <2>8
  <2>10. energy - energy' = e
    BY <2>4, <2>6, <2>8
  <2>11. e * share \in Nat
    BY <2>4, <2>6, TimesGrows
  <2>12. e * share <= energy
    BY <2>1, <2>3, <2>6, <2>11
  <2> QED
    BY <2>9, <2>10, <2>12 DEF share
<1> QED
  BY <1>1, DeliveryInitTypes, DeliveryNextTypes, PTL DEF DeliverySpec, SingleSendKeepsReserve

-----------------------------------------------------------------------------
(* Codecs: what is rounded is near, and what is whole stays what it is      *)

CodecSpec == CodecInit /\ [][CodecNext]_codecVars
MavlinkSpec == MavlinkInit /\ [][MavlinkNext]_mavlinkVars

LEMMA CodecConstants ==
  /\ Part \in Nat /\ Part > 0 /\ QMax \in Nat /\ QMax > 0 /\ HeadingLimit \in Nat
  /\ BatteryLimit \in Nat /\ BatteryLimit < QMax /\ MaxNodeId \in Nat /\ MaxNodeId > 0
  /\ HeadingLimit < QMax * Part
  BY CodecAssumption

\* The steps n that are nearest to a reading that is not negative.
LEMMA NearestStep ==
  ASSUME NEW v \in Nat
  PROVE  /\ Rounded(v) \in Nat
         /\ 2 * (Rounded(v) * Part) <= 2 * v + Part
         /\ 2 * v < 2 * (Rounded(v) * Part) + Part
<1> DEFINE n == (2 * v + Part) \div (2 * Part)
<1>1. Part \in Nat /\ Part > 0
  BY CodecConstants
<1>2. Rounded(v) = n
  BY DEF Rounded
<1>3. /\ n \in Int
      /\ (2 * Part) * n <= 2 * v + Part
      /\ 2 * v + Part < (2 * Part) * n + 2 * Part
  <2> DEFINE a == 2 * v + Part
             b == 2 * Part
  <2>1. a \in Int /\ b \in Int /\ b > 0
    BY <1>1
  <2> HIDE DEF a, b
  <2>2. a \div b \in Int /\ b * (a \div b) <= a /\ a < b * (a \div b) + b
    BY <2>1, DivisionOf
  <2> QED
    BY <2>2 DEF a, b
<1> HIDE DEF n
<1>4. (2 * Part) * n = 2 * (n * Part)
  BY <1>1, <1>3
<1>5. n >= 0
  <2>1. ASSUME n < 0 PROVE FALSE
    <3>1. PICK k \in Nat : n = -1 - k
      <4>1. -1 - n \in Nat /\ n = -1 - (-1 - n)
        BY <1>3, <2>1
      <4> QED
        BY <4>1
    <3>2. n * Part = -Part - k * Part /\ k * Part \in Nat
      BY <1>1, <3>1
    <3> QED
      BY <1>1, <1>3, <1>4, <3>2
  <2> QED
    BY <1>3, <2>1
<1>6. n * Part \in Int
  BY <1>1, <1>3
<1> QED
  BY <1>1, <1>2, <1>3, <1>4, <1>5, <1>6

\* Rounding is the same on both sides of zero.
LEMMA RoundedNegates ==
  ASSUME NEW v \in Nat
  PROVE  Rounded(-v) = -Rounded(v)
<1>1. Part \in Nat /\ Part > 0
  BY CodecConstants
<1>2. CASE v = 0
  <2>1. Rounded(0) = 0
    <3>1. Rounded(0) \in Nat /\ 2 * (Rounded(0) * Part) <= 2 * 0 + Part
      BY NearestStep
    <3> DEFINE n == Rounded(0)
    <3> HIDE DEF n
    <3>2. ASSUME NEW m \in Nat, 2 * (m * Part) <= Part PROVE m = 0
      <4>1. CASE m > 0
        <5>1. 1 * Part <= m * Part
          BY <1>1, <4>1, TimesGrows
        <5> QED
          BY <1>1, <3>2, <5>1
      <4> QED
        BY <4>1
    <3> QED
      BY <1>1, <3>1, <3>2
  <2> QED
    BY <1>2, <2>1
<1>3. CASE v # 0
  <2>1. ~(-v >= 0) /\ Part - 2 * (-v) = 2 * v + Part
    BY <1>1, <1>3
  <2> QED
    BY <2>1 DEF Rounded
<1> QED
  BY <1>2, <1>3

\* Rounding goes to half a step, and not past whole steps.
LEMMA RoundedIsNear ==
  ASSUME NEW v \in Int
  PROVE  /\ Rounded(v) \in Int
         /\ HalfStepApart(Rounded(v) * Part, v)
<1>1. Part \in Nat /\ Part > 0
  BY CodecConstants
<1>2. CASE v >= 0
  <2> DEFINE n == Rounded(v)
  <2>1. /\ n \in Nat /\ 2 * (n * Part) <= 2 * v + Part /\ 2 * v < 2 * (n * Part) + Part
    BY <1>2, NearestStep
  <2> HIDE DEF n
  <2>2. n * Part \in Int
    BY <1>1, <2>1
  <2> DEFINE w == n * Part
  <2> HIDE DEF w
  <2>3. HalfStepApart(w, v)
    BY <1>1, <1>2, <2>1, <2>2 DEF HalfStepApart, w
  <2> QED
    BY <2>1, <2>3 DEF n, w
<1>3. CASE v < 0
  <2> DEFINE u == -v
             n == Rounded(u)
  <2>1. u \in Nat /\ v = -u
    BY <1>3
  <2> HIDE DEF u
  <2>2. /\ n \in Nat /\ 2 * (n * Part) <= 2 * u + Part /\ 2 * u < 2 * (n * Part) + Part
        /\ Rounded(v) = -n
    BY <2>1, NearestStep, RoundedNegates
  <2> HIDE DEF n
  <2>3. (-n) * Part = -(n * Part) /\ n * Part \in Int
    BY <1>1, <2>2
  <2> DEFINE w == n * Part
  <2> HIDE DEF w
  <2>4. HalfStepApart(-w, v)
    BY <1>1, <2>1, <2>2, <2>3 DEF HalfStepApart, w
  <2> QED
    BY <2>2, <2>3, <2>4 DEF w
<1> QED
  BY <1>2, <1>3

\* What is not past a whole step does not round past it.
LEMMA RoundedBelow ==
  ASSUME NEW v \in Nat, NEW k \in Nat, v <= k * Part
  PROVE  Rounded(v) \in 0 .. k /\ Rounded(v) * Part \in 0 .. k * Part
<1> DEFINE n == Rounded(v)
<1>1. Part \in Nat /\ Part > 0
  BY CodecConstants
<1>2. n \in Nat /\ 2 * (n * Part) <= 2 * v + Part
  BY NearestStep
<1> HIDE DEF n
<1>3. n <= k
  <2>1. ASSUME n >= k + 1 PROVE FALSE
    <3>1. (k + 1) * Part <= n * Part /\ n * Part \in Nat
      BY <1>1, <1>2, <2>1, TimesGrows
    <3>2. (k + 1) * Part = k * Part + Part /\ k * Part \in Nat
      BY <1>1
    <3> QED
      BY <1>1, <1>2, <3>1, <3>2
  <2> QED
    BY <1>2, <2>1
<1>4. n * Part <= k * Part /\ n * Part \in Nat /\ k * Part \in Nat
  BY <1>1, <1>2, <1>3, TimesGrows
<1> QED
  BY <1>2, <1>3, <1>4 DEF n

\* Whole steps are not rounded.
LEMMA WholeStepsStay ==
  ASSUME NEW n \in Int
  PROVE  Rounded(n * Part) = n
<1>1. Part \in Nat /\ Part > 0
  BY CodecConstants
<1>2. ASSUME NEW m \in Nat PROVE Rounded(m * Part) = m
  <2>1. m * Part \in Nat /\ m * Part <= m * Part
    BY <1>1
  <2> DEFINE r == Rounded(m * Part)
  <2>2. r \in Nat /\ r <= m /\ 2 * (m * Part) < 2 * (r * Part) + Part
    BY <2>1, RoundedBelow, NearestStep
  <2> HIDE DEF r
  <2>3. ASSUME r < m PROVE FALSE
    <3>1. (r + 1) * Part <= m * Part
      BY <1>1, <2>2, <2>3, TimesGrows
    <3>2. (r + 1) * Part = r * Part + Part /\ r * Part \in Nat
      BY <1>1, <2>2
    <3> QED
      BY <1>1, <2>1, <2>2, <3>1, <3>2
  <2>4. r = m
    BY <2>2, <2>3
  <2> QED
    BY <2>4 DEF r
<1>3. CASE n >= 0
  BY <1>2, <1>3
<1>4. CASE n < 0
  <2>1. PICK m \in Nat : n = -m
    <3>1. -n \in Nat /\ n = -(-n)
      BY <1>4
    <3> QED
      BY <3>1
  <2>2. n * Part = -(m * Part) /\ m * Part \in Nat
    BY <1>1, <2>1
  <2>3. Rounded(-(m * Part)) = -Rounded(m * Part)
    BY <2>2, RoundedNegates
  <2> QED
    BY <1>2, <2>1, <2>2, <2>3
<1> QED
  BY <1>3, <1>4

-----------------------------------------------------------------------------
(* The state codec *)

Field == REQUIRED_FIELDS \ {"schema_version"}
Symbol == [kind : {"U64", "Q16_16"}, value : Int]

\* Telemetry that a drone can have.
Telemetry == {d \in [Field -> Int] : d["node_id"] = 0 /\ d["failsafe_state"] \in FailSafeCode}

CodecIInv ==
  /\ frame # None => frame \in [DOMAIN frame -> Symbol]
  /\ (frame # None /\ sent # None) =>
       sent \in Telemetry /\ ValidateDomainRanges(sent) /\ frame = ToCriticalState(sent)

LEMMA FieldsAre ==
  /\ Quantity \subseteq Field /\ Quantity \subseteq REQUIRED_FIELDS /\ Field \subseteq REQUIRED_FIELDS
  /\ Field = Quantity \cup {"node_id", "failsafe_state"}
  /\ "schema_version" \notin Quantity /\ "node_id" \notin Quantity /\ "failsafe_state" \notin Quantity
  /\ REQUIRED_FIELDS = Quantity \cup {"schema_version", "node_id", "failsafe_state"}
  BY DEF Field, REQUIRED_FIELDS, Quantity

\* A state is encoded field by field.
LEMMA ToCriticalStateIs ==
  ASSUME NEW d, ValidateDomainRanges(d)
  PROVE  /\ ToCriticalState(d) # None
         /\ DOMAIN ToCriticalState(d) = REQUIRED_FIELDS
         /\ \A q \in Quantity : ToCriticalState(d)[q] = [kind |-> "Q16_16", value |-> Rounded(d[q])]
         /\ ToCriticalState(d)["schema_version"] = [kind |-> "U64", value |-> 1]
         /\ ToCriticalState(d)["node_id"] = [kind |-> "U64", value |-> d["node_id"]]
         /\ ToCriticalState(d)["failsafe_state"] = [kind |-> "U64", value |-> d["failsafe_state"]]
         /\ ToCriticalState(d) = [f \in REQUIRED_FIELDS |-> ToCriticalState(d)[f]]
<1> DEFINE e(f) == CASE f \in Quantity         -> Q16(Rounded(d[f]))
                     [] f = "schema_version"   -> U64(1)
                     [] f = "node_id"          -> U64(d.node_id)
                     [] f = "failsafe_state"   -> U64(d.failsafe_state)
           s == [f \in REQUIRED_FIELDS |-> e(f)]
<1>1. ToCriticalState(d) = s
  BY DEF ToCriticalState
<1>2. \A q \in Quantity : e(q) = Q16(Rounded(d[q]))
  BY FieldsAre
<1>3. /\ e("schema_version") = U64(1)
      /\ e("node_id") = U64(d.node_id)
      /\ e("failsafe_state") = U64(d.failsafe_state)
  BY FieldsAre
<1> HIDE DEF e
<1>4. DOMAIN s = REQUIRED_FIELDS /\ s = [f \in REQUIRED_FIELDS |-> s[f]]
  OBVIOUS
<1>5. \A q \in Quantity : s[q] = Q16(Rounded(d[q]))
  BY <1>2, FieldsAre
<1>6. /\ s["schema_version"] = U64(1)
      /\ s["node_id"] = U64(d.node_id)
      /\ s["failsafe_state"] = U64(d.failsafe_state)
  BY <1>3, FieldsAre
<1>7. DOMAIN None = {"refused"} /\ "refused" \notin REQUIRED_FIELDS /\ "node_id" \in REQUIRED_FIELDS
  BY DEF None, REQUIRED_FIELDS, Quantity
<1> HIDE DEF s
<1>8. s # None
  BY <1>4, <1>7
<1> QED
  BY <1>1, <1>4, <1>5, <1>6, <1>8 DEF Q16, U64

LEMMA ToCriticalStateType ==
  ASSUME NEW d \in Telemetry, ValidateDomainRanges(d)
  PROVE  ToCriticalState(d) \in [REQUIRED_FIELDS -> Symbol]
<1> DEFINE s == ToCriticalState(d)
<1>1. ASSUME NEW f \in REQUIRED_FIELDS PROVE s[f] \in Symbol
  <2>1. CASE f \in Quantity
    <3>1. Rounded(d[f]) \in Int
      BY <2>1, FieldsAre, RoundedIsNear DEF Telemetry
    <3>2. s[f] = [kind |-> "Q16_16", value |-> Rounded(d[f])]
      BY <2>1, ToCriticalStateIs
    <3> DEFINE n == Rounded(d[f])
    <3> HIDE DEF n, s
    <3>3. n \in Int /\ s[f] = [kind |-> "Q16_16", value |-> n]
      BY <3>1, <3>2 DEF n
    <3> QED
      BY <3>3 DEF Symbol
  <2>2. CASE f \notin Quantity
    <3>1. d["node_id"] \in Int /\ d["failsafe_state"] \in Int
      BY FieldsAre DEF Telemetry
    <3>2. f = "schema_version" \/ f = "node_id" \/ f = "failsafe_state"
      BY <2>2, FieldsAre
    <3>3. /\ s["schema_version"] = [kind |-> "U64", value |-> 1]
          /\ s["node_id"] = [kind |-> "U64", value |-> d["node_id"]]
          /\ s["failsafe_state"] = [kind |-> "U64", value |-> d["failsafe_state"]]
      BY ToCriticalStateIs
    <3> HIDE DEF s
    <3> QED
      BY <3>1, <3>2, <3>3 DEF Symbol
  <2> QED
    BY <2>1, <2>2
<1>2. s = [f \in REQUIRED_FIELDS |-> s[f]]
  BY ToCriticalStateIs
<1> HIDE DEF s
<1>3. s \in [REQUIRED_FIELDS -> Symbol]
  BY <1>1, <1>2
<1> QED
  BY <1>3 DEF s

LEMMA AtRestIsFine == AtRest \in Telemetry /\ ValidateDomainRanges(AtRest)
<1>1. AtRest \in Telemetry
  BY FieldsAre DEF AtRest, Telemetry, Field, FailSafeCode
<1>2. ASSUME NEW q \in Quantity PROVE InRange(q, AtRest[q])
  <2>1. AtRest[q] = 0
    BY FieldsAre DEF AtRest, Field
  <2>2. QMax * Part \in Nat /\ -(QMax + 1) * Part \in Int /\ -(QMax + 1) * Part <= 0
        /\ BatteryLimit * Part \in Nat /\ HeadingLimit \in Nat
    <3>1. (QMax + 1) * Part \in Nat /\ QMax * Part \in Nat /\ BatteryLimit * Part \in Nat
      BY CodecConstants
    <3>2. -(QMax + 1) * Part = -((QMax + 1) * Part)
      BY CodecConstants
    <3> QED
      BY <3>1, <3>2, CodecConstants
  <2>3. Lowest[q] <= 0 /\ Highest[q] >= 0
    <3>1. q = "position.x" \/ q = "heading_rad" \/ q = "altitude_agl_m" \/ q = "battery_pct"
      BY DEF Quantity
    <3> QED
      BY <2>2, <3>1 DEF Lowest, Highest, Quantity
  <2> QED
    BY <2>1, <2>3 DEF InRange
<1> QED
  BY <1>1, <1>2 DEF ValidateDomainRanges

LEMMA CodecInitIInv == CodecInit => CodecIInv
  BY DEF CodecInit, CodecIInv

LEMMA RangeEnds ==
  ASSUME NEW q \in Quantity
  PROVE  Lowest[q] \in Int /\ Highest[q] \in Int
<1>1. QMax * Part \in Int /\ -(QMax + 1) * Part \in Int /\ BatteryLimit * Part \in Int
      /\ HeadingLimit \in Int /\ -HeadingLimit \in Int
  BY CodecConstants
<1>2. q = "position.x" \/ q = "heading_rad" \/ q = "altitude_agl_m" \/ q = "battery_pct"
  BY DEF Quantity
<1> QED
  BY <1>1, <1>2 DEF Lowest, Highest, Quantity

LEMMA EncodeIInv ==
  ASSUME NEW d \in Telemetry, Encode(d)
  PROVE  CodecIInv'
<1>1. ValidateDomainRanges(d) /\ frame' = ToCriticalState(d) /\ sent' = d
  BY DEF Encode, ToCriticalState
<1>2. ToCriticalState(d) \in [REQUIRED_FIELDS -> Symbol]
      /\ DOMAIN ToCriticalState(d) = REQUIRED_FIELDS
  BY <1>1, ToCriticalStateType, ToCriticalStateIs
<1>3. frame' # None' => frame' \in [DOMAIN frame' -> Symbol]
  BY <1>1, <1>2
<1>4. sent' \in Telemetry /\ ValidateDomainRanges(sent') /\ frame' = ToCriticalState(sent')
  BY <1>1
<1> QED
  BY <1>3, <1>4 DEF CodecIInv

LEMMA EncodeTelemetryIInv == ASSUME EncodeTelemetry PROVE CodecIInv'
<1>1. ASSUME NEW q \in Quantity, NEW v \in Readings(q), Encode([AtRest EXCEPT ![q] = v])
      PROVE  CodecIInv'
  <2>1. v \in Int
    <3>1. Part \in Int /\ Lowest[q] \in Int /\ Highest[q] \in Int
      BY RangeEnds, CodecConstants
    <3> QED
      BY <3>1 DEF Readings
  <2>2. [AtRest EXCEPT ![q] = v] \in Telemetry
    BY <2>1, AtRestIsFine, FieldsAre DEF Telemetry
  <2> QED
    BY <1>1, <2>2, EncodeIInv
<1>2. ASSUME NEW c \in FailSafeCode, Encode([AtRest EXCEPT !["failsafe_state"] = c])
      PROVE  CodecIInv'
  <2>1. [AtRest EXCEPT !["failsafe_state"] = c] \in Telemetry
    BY AtRestIsFine, FieldsAre DEF Telemetry, FailSafeCode
  <2> QED
    BY <1>2, <2>1, EncodeIInv
<1> QED
  BY <1>1, <1>2 DEF EncodeTelemetry

\* Whatever a foreign frame has for a field is a symbol still.
LEMMA ForeignIInv == ASSUME ForeignFrame PROVE CodecIInv'
<1> DEFINE s == ToCriticalState(AtRest)
<1>1. /\ s \in [REQUIRED_FIELDS -> Symbol] /\ DOMAIN s = REQUIRED_FIELDS
      /\ sent' = None /\ Foreign(s)
  BY AtRestIsFine, ToCriticalStateType, ToCriticalStateIs DEF ForeignFrame
<1> HIDE DEF s
<1>2. \A f \in REQUIRED_FIELDS : s[f] \in Symbol
  BY <1>1
<1>3. \A n \in Int : U64(n) \in Symbol /\ Q16(n) \in Symbol
  BY DEF U64, Q16, Symbol
<1>4. frame' \in [DOMAIN frame' -> Symbol]
  <2>1. ASSUME NEW f \in DOMAIN s, frame' = [g \in DOMAIN s \ {f} |-> s[g]]
        PROVE  frame' \in [DOMAIN frame' -> Symbol]
    BY <1>1, <1>2, <2>1
  <2>2. ASSUME frame' = [g \in DOMAIN s \cup {"residual"} |-> IF g = "residual" THEN U64(0) ELSE s[g]]
        PROVE  frame' \in [DOMAIN frame' -> Symbol]
    BY <1>1, <1>2, <1>3, <2>2
  <2>3. ASSUME NEW f \in DOMAIN s, NEW v \in {-1, 2, 7, MaxNodeId + 1, QMax},
               frame' = [s EXCEPT ![f] = [@ EXCEPT !.value = v]]
        PROVE  frame' \in [DOMAIN frame' -> Symbol]
    <3>1. v \in Int
      BY CodecConstants
    <3>2. [s[f] EXCEPT !.value = v] \in Symbol
      BY <1>1, <1>2, <3>1 DEF Symbol
    <3> QED
      BY <1>1, <2>3, <3>2
  <2>4. ASSUME NEW f \in DOMAIN s,
               frame' = [s EXCEPT ![f] = IF @.kind = "U64" THEN Q16(@.value) ELSE U64(@.value)]
        PROVE  frame' \in [DOMAIN frame' -> Symbol]
    <3>1. s[f].value \in Int
      BY <1>1, <1>2 DEF Symbol
    <3>2. (IF s[f].kind = "U64" THEN Q16(s[f].value) ELSE U64(s[f].value)) \in Symbol
      BY <1>3, <3>1
    <3> QED
      BY <1>1, <2>4, <3>2
  <2> QED
    BY <1>1, <2>1, <2>2, <2>3, <2>4 DEF Foreign
<1> QED
  BY <1>1, <1>4 DEF CodecIInv

LEMMA CodecNextIInv == CodecIInv /\ [CodecNext]_codecVars => CodecIInv'
<1>1. ASSUME CodecIInv, UNCHANGED <<frame, sent>> PROVE CodecIInv'
  BY <1>1 DEF CodecIInv
<1> QED
  BY <1>1, EncodeTelemetryIInv, ForeignIInv DEF CodecNext, Decode, codecVars

\* A snapshot is read field by field.
LEMMA FromCriticalStateIs ==
  ASSUME NEW s
  PROVE  /\ Snapshot(s) # None
         /\ FromCriticalState(s) # None <=> WellFormed(s) /\ ValidateDomainRanges(Snapshot(s))
         /\ FromCriticalState(s) # None => FromCriticalState(s) = Snapshot(s)
         /\ DOMAIN Snapshot(s) = Field
         /\ \A q \in Quantity : Snapshot(s)[q] = s[q].value * Part
         /\ \A f \in Field \ Quantity : Snapshot(s)[f] = s[f].value
<1>1. /\ DOMAIN Snapshot(s) = Field
      /\ \A q \in Quantity : Snapshot(s)[q] = s[q].value * Part
      /\ \A f \in Field \ Quantity : Snapshot(s)[f] = s[f].value
  BY FieldsAre DEF Snapshot, Field
<1>2. DOMAIN None = {"refused"} /\ "refused" \notin Field
  BY FieldsAre DEF None, Quantity
<1>3. Snapshot(s) # None
  BY <1>1, <1>2
<1> QED
  BY <1>1, <1>3 DEF FromCriticalState

\* A frame a receiver accepts is the one its snapshot makes.
LEMMA Canonical == ASSUME CodecIInv PROVE AcceptedIsCanonical
<1>1. SUFFICES ASSUME frame # None, FromCriticalState(frame) # None
               PROVE  ToCriticalState(FromCriticalState(frame)) = frame
  BY DEF AcceptedIsCanonical
<1> DEFINE d == Snapshot(frame)
           s == ToCriticalState(d)
<1>2. WellFormed(frame) /\ ValidateDomainRanges(d) /\ FromCriticalState(frame) = d
  BY <1>1, FromCriticalStateIs
<1>3. frame \in [REQUIRED_FIELDS -> Symbol]
  BY <1>1, <1>2 DEF CodecIInv, WellFormed, ValidateFieldSet
<1>4. /\ \A q \in Quantity : d[q] = frame[q].value * Part
      /\ d["node_id"] = frame["node_id"].value
      /\ d["failsafe_state"] = frame["failsafe_state"].value
  BY FromCriticalStateIs, FieldsAre
<1> HIDE DEF d
<1>5. /\ s = [f \in REQUIRED_FIELDS |-> s[f]]
      /\ \A q \in Quantity : s[q] = [kind |-> "Q16_16", value |-> Rounded(d[q])]
      /\ s["schema_version"] = [kind |-> "U64", value |-> 1]
      /\ s["node_id"] = [kind |-> "U64", value |-> d["node_id"]]
      /\ s["failsafe_state"] = [kind |-> "U64", value |-> d["failsafe_state"]]
  BY <1>2, ToCriticalStateIs
<1> HIDE DEF s
<1>6. ASSUME NEW f \in REQUIRED_FIELDS PROVE s[f] = frame[f]
  <2>1. frame[f] \in Symbol /\ frame[f] = [kind |-> frame[f].kind, value |-> frame[f].value]
    BY <1>3 DEF Symbol
  <2>2. CASE f \in Quantity
    <3>1. Rounded(frame[f].value * Part) = frame[f].value
      BY <2>1, WholeStepsStay DEF Symbol
    <3>2. frame[f].kind = "Q16_16"
      BY <1>2, <2>2 DEF WellFormed
    <3> QED
      BY <1>4, <1>5, <2>1, <2>2, <3>1, <3>2
  <2>3. CASE f \notin Quantity
    <3>1. frame[f].kind = "U64" /\ frame["schema_version"].value = 1
      BY <1>2, <2>3 DEF WellFormed
    <3>2. f = "schema_version" \/ f = "node_id" \/ f = "failsafe_state"
      BY <2>3, FieldsAre
    <3> QED
      BY <1>4, <1>5, <2>1, <3>1, <3>2
  <2> QED
    BY <2>2, <2>3
<1>7. frame = [f \in REQUIRED_FIELDS |-> frame[f]]
  BY <1>3
<1>8. s = frame
  BY <1>5, <1>6, <1>7
<1> QED
  BY <1>2, <1>8 DEF s

LEMMA EndsAre ==
  /\ Lowest["position.x"] = -((QMax + 1) * Part) /\ Highest["position.x"] = QMax * Part
  /\ Lowest["heading_rad"] = -HeadingLimit /\ Highest["heading_rad"] = HeadingLimit
  /\ Lowest["altitude_agl_m"] = 0 /\ Highest["altitude_agl_m"] = QMax * Part
  /\ Lowest["battery_pct"] = 0 /\ Highest["battery_pct"] = BatteryLimit * Part
<1>1. -(QMax + 1) * Part = -((QMax + 1) * Part)
  BY CodecConstants
<1> DEFINE a == (QMax + 1) * Part
           b == QMax * Part
           c == BatteryLimit * Part
           m == -(QMax + 1) * Part
<1>2. Lowest = [q \in Quantity |-> CASE q = "position.x"  -> m
                                     [] q = "heading_rad" -> -HeadingLimit
                                     [] OTHER             -> 0]
  BY DEF Lowest
<1>3. Highest = [q \in Quantity |-> CASE q = "heading_rad" -> HeadingLimit
                                      [] q = "battery_pct" -> c
                                      [] OTHER             -> b]
  BY DEF Highest
<1>4. m = -a
  BY <1>1
<1> HIDE DEF a, b, c, m
<1>5. /\ Lowest["position.x"] = m /\ Highest["position.x"] = b
      /\ Lowest["heading_rad"] = -HeadingLimit /\ Highest["heading_rad"] = HeadingLimit
      /\ Lowest["altitude_agl_m"] = 0 /\ Highest["altitude_agl_m"] = b
      /\ Lowest["battery_pct"] = 0 /\ Highest["battery_pct"] = c
  BY <1>2, <1>3 DEF Quantity
<1> QED
  BY <1>4, <1>5 DEF a, b, c

\* What rounding makes of a reading in its range is in it, but for a heading.
LEMMA RoundedInRange ==
  ASSUME NEW q \in Quantity, NEW v \in Int, InRange(q, v),
         q = "heading_rad" => ~RoundsPastFullTurn(v)
  PROVE  InRange(q, Rounded(v) * Part)
<1> DEFINE w == Rounded(v) * Part
<1> SUFFICES InRange(q, w)
  OBVIOUS
<1>1. Part \in Nat /\ Part > 0 /\ QMax \in Nat /\ BatteryLimit \in Nat /\ HeadingLimit \in Nat
  BY CodecConstants
<1>2. QMax * Part \in Nat /\ (QMax + 1) * Part \in Nat /\ BatteryLimit * Part \in Nat
      /\ -(QMax + 1) * Part = -((QMax + 1) * Part)
  BY <1>1
<1>3. Rounded(v) \in Int /\ w \in Int
  <2>1. Rounded(v) \in Int
    BY RoundedIsNear
  <2> DEFINE n == Rounded(v)
  <2> HIDE DEF n
  <2>2. n \in Int => n * Part \in Int
    BY <1>1
  <2> QED
    BY <2>1, <2>2 DEF n
<1>4. ASSUME v < 0 PROVE -v \in Nat /\ Rounded(v) = -Rounded(-v) /\ w = -(Rounded(-v) * Part)
                         /\ Rounded(-v) \in Nat
  <2>1. -v \in Nat /\ -(-v) = v
    BY <1>4
  <2>2. Rounded(-(-v)) = -Rounded(-v) /\ Rounded(-v) \in Nat
    BY <2>1, RoundedNegates, NearestStep
  <2> DEFINE n == Rounded(-v)
  <2>3. w = (-n) * Part
    BY <2>1, <2>2
  <2>4. n \in Nat
    BY <2>2
  <2> HIDE DEF n
  <2>5. (-n) * Part = -(n * Part)
    BY <1>1, <2>4
  <2> QED
    BY <2>1, <2>2, <2>3, <2>5 DEF n
<1> DEFINE b == QMax * Part
           c == BatteryLimit * Part
           a == (QMax + 1) * Part
<1>5. InRange(q, w) <=> w >= Lowest[q] /\ w <= Highest[q]
  BY DEF InRange
<1>6. v >= Lowest[q] /\ v <= Highest[q]
  BY DEF InRange
<1>7. CASE q = "position.x"
  <2>1. Lowest[q] = -a /\ Highest[q] = b
    BY <1>7, EndsAre
  <2>2. CASE v >= 0
    <3>1. v \in Nat /\ v <= b
      BY <1>6, <2>1, <2>2
    <3>2. w \in 0 .. b
      BY <1>1, <3>1, RoundedBelow
    <3>3. a \in Nat /\ b \in Nat
      BY <1>2
    <3> HIDE DEF w, a, b
    <3> QED
      BY <1>5, <2>1, <3>2, <3>3
  <2>3. CASE v < 0
    <3> DEFINE u == Rounded(-v) * Part
    <3>1. -v \in Nat /\ w = -u
      BY <1>4, <2>3
    <3>2. -v <= a /\ QMax + 1 \in Nat
      BY <1>1, <1>2, <1>6, <2>1
    <3>3. u \in 0 .. a
      BY <3>1, <3>2, RoundedBelow
    <3>4. a \in Nat /\ b \in Nat
      BY <1>2
    <3> HIDE DEF w, a, b, u
    <3> QED
      BY <1>5, <2>1, <3>1, <3>3, <3>4
  <2> QED
    BY <2>2, <2>3
<1>8. CASE q = "heading_rad"
  <2>1. ~RoundsPastFullTurn(v) /\ Lowest[q] = -HeadingLimit /\ Highest[q] = HeadingLimit
    BY <1>8, EndsAre
  <2>2. \A n \in Nat : n * Part \in Nat
    BY <1>1
  <2>3. CASE v >= 0
    <3>1. ~(w > HeadingLimit) /\ Rounded(v) \in Nat
      BY <2>1, <2>3, NearestStep DEF RoundsPastFullTurn
    <3>2. w \in Nat
      BY <2>2, <3>1
    <3> HIDE DEF w
    <3> QED
      BY <1>1, <1>5, <2>1, <3>1, <3>2
  <2>4. CASE v < 0
    <3> DEFINE u == Rounded(-v) * Part
    <3>1. ~(u > HeadingLimit) /\ w = -u
      BY <1>4, <2>1, <2>4 DEF RoundsPastFullTurn
    <3>2. u \in Nat
      BY <1>4, <2>2, <2>4
    <3> HIDE DEF w, u
    <3> QED
      BY <1>1, <1>5, <2>1, <3>1, <3>2
  <2> QED
    BY <2>3, <2>4
<1>9. CASE q = "altitude_agl_m"
  <2>1. Lowest[q] = 0 /\ Highest[q] = b
    BY <1>9, EndsAre
  <2>2. v \in Nat /\ v <= b
    BY <1>6, <2>1
  <2>3. w \in 0 .. b
    BY <1>1, <2>2, RoundedBelow
  <2>4. b \in Nat
    BY <1>2
  <2> HIDE DEF w, b
  <2> QED
    BY <1>5, <2>1, <2>3, <2>4
<1>10. CASE q = "battery_pct"
  <2>1. Lowest[q] = 0 /\ Highest[q] = c
    BY <1>10, EndsAre
  <2>2. v \in Nat /\ v <= c
    BY <1>6, <2>1
  <2>3. w \in 0 .. c
    BY <1>1, <2>2, RoundedBelow
  <2>4. c \in Nat
    BY <1>2
  <2> HIDE DEF w, c
  <2> QED
    BY <1>5, <2>1, <2>3, <2>4
<1> QED
  BY <1>7, <1>8, <1>9, <1>10 DEF Quantity

\* A frame that was sent is well formed and reads to half a step.
LEMMA ReadClose == ASSUME CodecIInv PROVE SentIsReadClosely
<1>1. SUFFICES ASSUME frame # None, sent # None, ~RoundsPastFullTurn(sent["heading_rad"])
               PROVE  LET seen == FromCriticalState(frame)
                      IN  /\ seen # None
                          /\ \A q \in Quantity : HalfStepApart(seen[q], sent[q])
                          /\ seen["failsafe_state"] = sent["failsafe_state"]
  BY DEF SentIsReadClosely
<1>2. sent \in Telemetry /\ ValidateDomainRanges(sent) /\ frame = ToCriticalState(sent)
  BY <1>1 DEF CodecIInv
<1>3. /\ DOMAIN frame = REQUIRED_FIELDS
      /\ \A q \in Quantity : frame[q] = [kind |-> "Q16_16", value |-> Rounded(sent[q])]
      /\ frame["schema_version"] = [kind |-> "U64", value |-> 1]
      /\ frame["node_id"] = [kind |-> "U64", value |-> sent["node_id"]]
      /\ frame["failsafe_state"] = [kind |-> "U64", value |-> sent["failsafe_state"]]
  BY <1>2, ToCriticalStateIs
<1>4. /\ \A q \in Quantity : sent[q] \in Int /\ InRange(q, sent[q])
      /\ sent["node_id"] = 0 /\ sent["failsafe_state"] \in FailSafeCode
  BY <1>2, FieldsAre DEF Telemetry, ValidateDomainRanges
<1>5. WellFormed(frame)
  <2>1. ASSUME NEW q \in Quantity PROVE frame[q].kind = "Q16_16"
    <3>1. frame[q] = [kind |-> "Q16_16", value |-> Rounded(sent[q])]
      BY <1>3
    <3> QED
      BY <3>1
  <2>2. \A f \in REQUIRED_FIELDS \ Quantity : frame[f].kind = "U64"
    BY <1>3, FieldsAre
  <2>3. /\ frame["schema_version"].value = 1 /\ frame["node_id"].value <= MaxNodeId
        /\ frame["failsafe_state"].value \in FailSafeCode
    BY <1>3, <1>4, CodecConstants
  <2> QED
    BY <1>3, <2>1, <2>2, <2>3 DEF WellFormed, ValidateFieldSet
<1> DEFINE d == Snapshot(frame)
<1>6. /\ \A q \in Quantity : d[q] = Rounded(sent[q]) * Part
      /\ d["failsafe_state"] = sent["failsafe_state"]
  BY <1>3, FromCriticalStateIs, FieldsAre
<1>7. ASSUME NEW q \in Quantity
      PROVE  InRange(q, d[q]) /\ HalfStepApart(d[q], sent[q])
  <2>1. q = "heading_rad" => ~RoundsPastFullTurn(sent[q])
    BY <1>1
  <2>2. InRange(q, Rounded(sent[q]) * Part)
    BY <1>4, <2>1, RoundedInRange
  <2>3. HalfStepApart(Rounded(sent[q]) * Part, sent[q])
    BY <1>4, RoundedIsNear
  <2> QED
    BY <1>6, <2>2, <2>3
<1>8. FromCriticalState(frame) = d /\ d # None
  BY <1>5, <1>7, FromCriticalStateIs DEF ValidateDomainRanges
<1> QED
  BY <1>6, <1>7, <1>8

LEMMA CodecKeepsIInv == CodecSpec => []CodecIInv
  BY CodecInitIInv, CodecNextIInv, PTL DEF CodecSpec

-----------------------------------------------------------------------------
(* The MAVLink messages *)

LEMMA MavlinkConstants ==
  /\ Grain \in Nat /\ Grain > 0 /\ CoordinateMax \in Nat /\ CoordinateMax > 0
  /\ ByteMax \in Nat /\ ByteMax > 0
  /\ WordMax \in Nat /\ WordMax > 0 /\ TimeModulus \in Nat /\ TimeModulus > 0
  BY MavlinkAssumption

IsReading(r) == r \in [number : BOOLEAN, value : Int]

\* What a reading is cut to is within a unit of it, towards zero.
LEMMA CutIsNear ==
  ASSUME NEW v \in Int
  PROVE  /\ Cut(v) \in Int /\ Cut(v) * Grain \in Int
         /\ v >= 0 => Cut(v) >= 0 /\ v - Cut(v) * Grain \in 0 .. Grain - 1
         /\ v < 0 => Cut(v) <= 0 /\ Cut(v) * Grain - v \in 0 .. Grain - 1
<1>1. Grain \in Nat /\ Grain > 0
  BY MavlinkConstants
<1>2. ASSUME NEW u \in Nat
      PROVE  /\ u \div Grain \in Nat /\ (u \div Grain) * Grain \in Int
             /\ u - (u \div Grain) * Grain \in 0 .. Grain - 1
  <2> DEFINE n == u \div Grain
  <2>1. n \in Int /\ Grain * n <= u /\ u < Grain * n + Grain
    BY <1>1, DivisionOf
  <2> HIDE DEF n
  <2>2. Grain * n = n * Grain /\ n * Grain \in Int
    BY <1>1, <2>1
  <2>3. n >= 0
    <3> SUFFICES ASSUME n <= -1 PROVE FALSE
      BY <2>1
    <3>1. PICK j \in Nat : n = -1 - j
      <4>1. -1 - n \in Nat /\ n = -1 - (-1 - n)
        BY <2>1
      <4> QED
        BY <4>1
    <3>2. Grain * n = -Grain - Grain * j /\ Grain * j \in Nat
      BY <1>1, <3>1
    <3> QED
      BY <1>1, <2>1, <3>2
  <2> DEFINE w == n * Grain
  <2> HIDE DEF w
  <2>4. w \in Int /\ w <= u /\ u < w + Grain
    BY <2>1, <2>2 DEF w
  <2>5. u - w \in 0 .. Grain - 1
    BY <1>1, <2>4
  <2> QED
    BY <2>1, <2>2, <2>3, <2>5 DEF n, w
<1>3. CASE v >= 0
  <2>1. Cut(v) = v \div Grain
    BY <1>3 DEF Cut
  <2>2. v \in Nat /\ ~(v < 0)
    BY <1>3
  <2> QED
    BY <1>2, <2>1, <2>2
<1>4. CASE v < 0
  <2> DEFINE u == -v
             n == u \div Grain
  <2>1. u \in Nat /\ v = -u /\ ~(v >= 0)
    BY <1>4
  <2>2. Cut(v) = -n
    BY <1>4 DEF Cut
  <2> HIDE DEF u
  <2>3. n \in Nat /\ n * Grain \in Int /\ u - n * Grain \in 0 .. Grain - 1
    BY <1>2, <2>1
  <2> HIDE DEF n
  <2>4. (-n) * Grain = -(n * Grain)
    BY <1>1, <2>3
  <2> DEFINE w == n * Grain
  <2> HIDE DEF w
  <2>5. -w - v \in 0 .. Grain - 1 /\ -w \in Int
    BY <1>1, <2>1, <2>3 DEF w
  <2>6. -n \in Int /\ -n <= 0
    BY <2>3
  <2> QED
    BY <2>1, <2>2, <2>4, <2>5, <2>6 DEF w
<1> QED
  BY <1>3, <1>4

\* Of two numbers the lesser makes the lesser number of parts, by a whole unit.
LEMMA UnitsApart ==
  ASSUME NEW a \in Int, NEW b \in Int
  PROVE  /\ a * Grain \in Int /\ b * Grain \in Int
         /\ a < b => a * Grain + Grain <= b * Grain
         /\ a <= b => a * Grain <= b * Grain
<1>1. Grain \in Nat /\ Grain > 0
  BY MavlinkConstants
<1>2. a * Grain \in Int /\ b * Grain \in Int
  BY <1>1
<1>3. ASSUME a < b PROVE a * Grain + Grain <= b * Grain
  <2> DEFINE k == b - a - 1
  <2>1. k \in Nat
    BY <1>3
  <2>2. k * Grain = b * Grain - a * Grain - Grain
    BY <1>1
  <2> HIDE DEF k
  <2>3. k * Grain \in Nat
    BY <1>1, <2>1
  <2> DEFINE x == a * Grain
             y == b * Grain
  <2> HIDE DEF x, y
  <2>4. y - x - Grain \in Nat /\ x \in Int /\ y \in Int
    BY <1>2, <2>2, <2>3 DEF x, y
  <2>5. x + Grain <= y
    BY <1>1, <2>4
  <2> QED
    BY <2>5 DEF x, y
<1>4. ASSUME a <= b PROVE a * Grain <= b * Grain
  <2>1. CASE a = b
    BY <1>2, <2>1
  <2>2. CASE a < b
    <3> DEFINE x == a * Grain
               y == b * Grain
    <3>1. x \in Int /\ y \in Int /\ x + Grain <= y
      BY <1>2, <1>3, <2>2
    <3> HIDE DEF x, y
    <3>2. x <= y
      BY <1>1, <3>1
    <3> QED
      BY <3>2 DEF x, y
  <2> QED
    BY <1>4, <2>1, <2>2
<1> QED
  BY <1>2, <1>3, <1>4

\* Within the ends a reading comes back cut, past them held, and a reading that
\* cuts to an end is held there as well.
LEMMA CastReadsAs ==
  ASSUME NEW r, IsReading(r), NEW low \in Int, NEW high \in Int, low <= 0, high >= 0
  PROVE  Cast(r, low, high) \in Int /\ ReadsAs(Cast(r, low, high), r, low, high)
<1> DEFINE v == r.value
           n == Cut(v)
           w == n * Grain
           bottom == low * Grain
           top == high * Grain
           c == Cast(r, low, high)
<1>1. Grain \in Nat /\ Grain > 0
  BY MavlinkConstants
<1>2. v \in Int
  BY DEF IsReading
<1>3. /\ n \in Int /\ w \in Int
      /\ v >= 0 => n >= 0 /\ v - w \in 0 .. Grain - 1
      /\ v < 0 => n <= 0 /\ w - v \in 0 .. Grain - 1
  BY <1>2, CutIsNear
<1>4. /\ bottom \in Int /\ top \in Int
      /\ n < low => w + Grain <= bottom
      /\ low <= n => bottom <= w
      /\ n > high => top + Grain <= w
      /\ n <= high => w <= top
      /\ n < high => w + Grain <= top
      /\ low < n => bottom + Grain <= w
  <2> HIDE DEF n
  <2> QED
    BY <1>3, UnitsApart
<1>5. bottom <= 0 /\ top >= 0
  <2>1. 0 * Grain = 0
    BY <1>1
  <2> QED
    BY <2>1, UnitsApart
<1>6. c = IF ~r.number THEN 0 ELSE IF n < low THEN low ELSE IF n > high THEN high ELSE n
  BY DEF Cast
<1>7. ReadsAs(c, r, low, high) <=>
        /\ ~r.number => c = 0
        /\ r.number /\ v > top => c = high
        /\ r.number /\ v < bottom => c = low
        /\ r.number /\ v \in bottom .. top =>
             IF v >= 0 THEN v - c * Grain \in 0 .. Grain - 1
                       ELSE c * Grain - v \in 0 .. Grain - 1
  BY DEF ReadsAs
<1> HIDE DEF v, n, w, bottom, top, c
<1>8. c \in Int
  BY <1>3, <1>6
<1>9. ASSUME r.number, v > top PROVE c = high
  <2>1. v >= 0 /\ ~(v < 0) /\ v < w + Grain /\ n >= 0
    BY <1>1, <1>2, <1>3, <1>4, <1>5, <1>9
  <2>2. ~(n < high)
    BY <1>1, <1>2, <1>3, <1>4, <1>9, <2>1
  <2> QED
    BY <1>3, <1>6, <1>9, <2>1, <2>2
<1>10. ASSUME r.number, v < bottom PROVE c = low
  <2>1. v < 0 /\ w < v + Grain /\ n <= 0
    BY <1>1, <1>2, <1>3, <1>4, <1>5, <1>10
  <2>2. ~(low < n)
    BY <1>1, <1>2, <1>3, <1>4, <1>10, <2>1
  <2>3. ~(n > high)
    BY <1>3, <2>1
  <2> QED
    BY <1>3, <1>6, <1>10, <2>2, <2>3
<1>11. ASSUME r.number, v \in bottom .. top
       PROVE  IF v >= 0 THEN v - c * Grain \in 0 .. Grain - 1
                        ELSE c * Grain - v \in 0 .. Grain - 1
  <2>1. bottom <= v /\ v <= top
    BY <1>2, <1>4, <1>11
  <2>2. ~(n < low)
    BY <1>1, <1>2, <1>3, <1>4, <2>1
  <2>3. ~(n > high)
    BY <1>1, <1>2, <1>3, <1>4, <2>1
  <2>4. c = n
    BY <1>6, <1>11, <2>2, <2>3
  <2>5. c * Grain = w
    BY <2>4 DEF w
  <2> QED
    BY <1>2, <1>3, <2>5
<1>12. ~r.number => c = 0
  BY <1>6
<1> QED
  BY <1>7, <1>8, <1>9, <1>10, <1>11, <1>12 DEF c

\* Whole units are read as they are.
LEMMA UnitsReadBack ==
  ASSUME NEW n \in Int
  PROVE  n * Grain \in Int /\ (n * Grain) \div Grain = n
<1>1. Grain \in Int /\ Grain > 0
  BY MavlinkConstants
<1> DEFINE w == n * Grain
           k == w \div Grain
<1>2. w \in Int /\ w = Grain * n
  BY <1>1
<1>3. k \in Int /\ Grain * k <= w /\ w < Grain * k + Grain
  <2> HIDE DEF w
  <2> QED
    BY <1>1, <1>2, DivisionOf
<1> HIDE DEF k
<1>4. Grain * (n - k) = w - Grain * k
  BY <1>1, <1>2, <1>3
<1>5. n - k \in Int /\ Grain * (n - k) >= 0 /\ Grain * (n - k) < Grain
  <2> DEFINE a == Grain * k
  <2>1. a \in Int
    BY <1>1, <1>3
  <2> HIDE DEF a, w
  <2>2. w - a >= 0 /\ w - a < Grain
    BY <1>1, <1>2, <1>3, <2>1 DEF a
  <2> QED
    BY <1>3, <1>4, <2>2 DEF a
<1>6. ASSUME NEW m \in Int, Grain * m >= 0, Grain * m < Grain PROVE m = 0
  <2>1. CASE m >= 1
    <3>1. PICK j \in Nat : m = 1 + j
      <4>1. m - 1 \in Nat /\ m = 1 + (m - 1)
        BY <2>1
      <4> QED
        BY <4>1
    <3>2. Grain * m = Grain + Grain * j /\ Grain * j \in Nat
      BY <1>1, <3>1
    <3> QED
      BY <1>1, <1>6, <3>2
  <2>2. CASE m <= -1
    <3>1. PICK j \in Nat : m = -1 - j
      <4>1. -1 - m \in Nat /\ m = -1 - (-1 - m)
        BY <2>2
      <4> QED
        BY <4>1
    <3>2. Grain * m = -Grain - Grain * j /\ Grain * j \in Nat
      BY <1>1, <3>1
    <3> QED
      BY <1>1, <1>6, <3>2
  <2> QED
    BY <2>1, <2>2
<1>7. n - k = 0
  BY <1>5, <1>6
<1>8. n = k
  BY <1>3, <1>7
<1> QED
  BY <1>2, <1>8 DEF k

LEMMA ReadingsAre ==
  ASSUME NEW r, r \in Coordinates \/ r \in Bytes \/ r \in Words
  PROVE  IsReading(r)
<1>1. ASSUME NEW ends \in SUBSET Int, r \in Around(ends) PROVE IsReading(r)
  <2>1. Grain \in Int
    BY MavlinkConstants
  <2>2. CASE r = NaN
    BY <2>2 DEF NaN, IsReading
  <2>3. CASE r # NaN
    <3>1. PICK e \in ends : \E v \in (e * Grain - Grain) .. (e * Grain + Grain) : r = Reading(v)
      BY <1>1, <2>3 DEF Around
    <3>2. PICK v \in (e * Grain - Grain) .. (e * Grain + Grain) : r = Reading(v)
      BY <3>1
    <3>3. v \in Int
      OBVIOUS
    <3> QED
      BY <3>2, <3>3 DEF Reading, IsReading
  <2> QED
    BY <2>2, <2>3
<1>2. {-CoordinateMax - 1, 0, CoordinateMax} \in SUBSET Int /\ {0, ByteMax} \in SUBSET Int
      /\ {0, WordMax} \in SUBSET Int
  BY MavlinkConstants
<1> QED
  BY <1>1, <1>2 DEF Coordinates, Bytes, Words

\* A drone's state, and a detection, that are sent.
DroneState == [id : {1}, position : Coordinates, link : Bytes, battery : Words,
               speed : {Reading(Grain)}, time : Times]
Sighting == [id : {1}, confidence : Bytes, located : BOOLEAN, victim : Coordinates, time : Times]

\* The message is that of what was sent, and what was read is read of it.
MavlinkIInv ==
  /\ message.kind = "state" =>
       /\ subject \in DroneState
       /\ message.body = EncodeNodeState(FromDroneState(subject, 4))
       /\ read # Unread => read = DecodeNodeState(message.body)
  /\ message.kind = "report" =>
       /\ subject \in Sighting
       /\ message.body = FromDetection(subject)
       /\ read # Unread => read = ToDetection(message.body)
  /\ Nothing => read = Unread

LEMMA MavlinkInitIInv == MavlinkInit => MavlinkIInv
  BY DEF MavlinkInit, MavlinkIInv, Nothing

LEMMA MavlinkNextIInv == MavlinkIInv /\ [MavlinkNext]_mavlinkVars => MavlinkIInv'
<1> SUFFICES ASSUME MavlinkIInv, [MavlinkNext]_mavlinkVars PROVE MavlinkIInv'
  OBVIOUS
<1>1. CASE BroadcastNodeState
  <2>1. PICK p \in Coordinates, l \in Bytes, b \in Words, t \in Times :
          LET d == [id |-> 1, position |-> p, link |-> l, battery |-> b,
                    speed |-> Reading(Grain), time |-> t]
          IN  /\ subject' = d
              /\ message' = [kind |-> "state", body |-> EncodeNodeState(FromDroneState(d, 4))]
    BY <1>1 DEF BroadcastNodeState
  <2>2. subject' \in DroneState
    BY <2>1 DEF DroneState
  <2>3. message' = [kind |-> "state", body |-> EncodeNodeState(FromDroneState(subject', 4))]
    BY <2>1
  <2>4. read' = Unread
    BY <1>1 DEF BroadcastNodeState, MavlinkIInv
  <2>5. message'.kind = "state" /\ message'.body = EncodeNodeState(FromDroneState(subject', 4))
    BY <2>3
  <2> QED
    BY <2>2, <2>4, <2>5 DEF MavlinkIInv, Nothing
<1>2. CASE ReadNodeState
  BY <1>2 DEF ReadNodeState, MavlinkIInv, Nothing
<1>3. CASE ReportDetection
  <2>1. PICK c \in Bytes, v \in Coordinates, located \in BOOLEAN, t \in Times :
          LET d == [id |-> 1, confidence |-> c, located |-> located, victim |-> v, time |-> t]
          IN  /\ subject' = d
              /\ message' = [kind |-> "report", body |-> FromDetection(d)]
    BY <1>3 DEF ReportDetection
  <2>2. subject' \in Sighting
    BY <2>1 DEF Sighting
  <2>3. message' = [kind |-> "report", body |-> FromDetection(subject')]
    BY <2>1
  <2>4. read' = Unread
    BY <1>3 DEF ReportDetection, MavlinkIInv
  <2>5. message'.kind = "report" /\ message'.body = FromDetection(subject')
    BY <2>3
  <2> QED
    BY <2>2, <2>4, <2>5 DEF MavlinkIInv, Nothing
<1>4. CASE ReadReport
  BY <1>4 DEF ReadReport, MavlinkIInv, Nothing
<1>5. CASE UNCHANGED mavlinkVars
  BY <1>5 DEF mavlinkVars, MavlinkIInv, Nothing
<1> QED
  BY <1>1, <1>2, <1>3, <1>4, <1>5 DEF MavlinkNext

LEMMA StateIsRead == ASSUME MavlinkIInv PROVE NodeStateReadsBack
<1>1. SUFFICES ASSUME message.kind = "state", read # Unread
               PROVE  /\ read.node_id = subject.id
                      /\ ReadsAs(read.pos, subject.position, -CoordinateMax - 1, CoordinateMax)
                      /\ ReadsAs(read.link_quality, subject.link, 0, ByteMax)
                      /\ ReadsAs(read.battery_10th_pct, subject.battery, 0, WordMax)
                      /\ read.timestamp_ms = 0 /\ read.speed = 0
  BY DEF NodeStateReadsBack
<1> DEFINE m == FromDroneState(subject, 4)
           b == EncodeNodeState(m)
<1>2. subject \in DroneState /\ read = DecodeNodeState(b)
  BY <1>1 DEF MavlinkIInv
<1>3. /\ m.node_id = subject.id
      /\ m.pos = Coordinate(subject.position) /\ m.link_quality = Byte(subject.link)
      /\ m.battery_10th_pct = Word(subject.battery)
  BY DEF FromDroneState
<1> HIDE DEF m
<1>4. /\ b["node_id"] = m.node_id /\ b["pos"] = m.pos
      /\ b["link_quality"] = m.link_quality /\ b["battery_10th_pct"] = m.battery_10th_pct
  BY DEF EncodeNodeState, Payload
<1> HIDE DEF b
<1>5. /\ read["node_id"] = b["node_id"] /\ read["pos"] = b["pos"]
      /\ read["link_quality"] = b["link_quality"]
      /\ read["battery_10th_pct"] = b["battery_10th_pct"]
      /\ read["timestamp_ms"] = 0 /\ read["speed"] = 0
  BY <1>2 DEF DecodeNodeState, Payload
<1>6. IsReading(subject.position) /\ IsReading(subject.link) /\ IsReading(subject.battery)
  BY <1>2, ReadingsAre DEF DroneState
<1>7. /\ -CoordinateMax - 1 \in Int /\ CoordinateMax \in Int /\ ByteMax \in Int /\ 0 \in Int
      /\ WordMax \in Int
      /\ -CoordinateMax - 1 <= 0 /\ CoordinateMax >= 0 /\ ByteMax >= 0 /\ WordMax >= 0 /\ 0 <= 0
  BY MavlinkConstants
<1>8. /\ ReadsAs(Coordinate(subject.position), subject.position, -CoordinateMax - 1, CoordinateMax)
      /\ ReadsAs(Byte(subject.link), subject.link, 0, ByteMax)
      /\ ReadsAs(Word(subject.battery), subject.battery, 0, WordMax)
  BY <1>6, <1>7, CastReadsAs DEF Coordinate, Byte, Word
<1> QED
  BY <1>3, <1>4, <1>5, <1>8

LEMMA ReportIsRead == ASSUME MavlinkIInv PROVE ReportReadsBack
<1>1. SUFFICES ASSUME message.kind = "report", read # Unread
               PROVE  /\ read.located = subject.located
                      /\ read.located => ReadsAs(read.victim.value \div Grain, subject.victim,
                                                     -CoordinateMax - 1, CoordinateMax)
                      /\ ReadsAs(read.confidence.value \div Grain, subject.confidence, 0, ByteMax)
                      /\ read.time = subject.time <=> subject.time < TimeModulus
  BY DEF ReportReadsBack
<1> DEFINE m == FromDetection(subject)
<1>2. subject \in Sighting /\ read = ToDetection(m)
  BY <1>1 DEF MavlinkIInv
<1>3. /\ m.confidence = Byte(subject.confidence) /\ m.has_position = subject.located
      /\ m.victim = IF subject.located THEN Coordinate(subject.victim) ELSE 0
      /\ m.timestamp_ms = Time32(subject.time)
  BY DEF FromDetection
<1> HIDE DEF m
<1>4. /\ read.located = m.has_position /\ read.time = m.timestamp_ms
      /\ read.victim = Reading(IF m.has_position THEN m.victim * Grain ELSE 0)
      /\ read.confidence = Reading(m.confidence * Grain)
  BY <1>2 DEF ToDetection
<1>5. IsReading(subject.confidence) /\ IsReading(subject.victim)
  BY <1>2, ReadingsAre DEF Sighting
<1>6. -CoordinateMax - 1 \in Int /\ CoordinateMax \in Int /\ ByteMax \in Int /\ 0 \in Int
      /\ -CoordinateMax - 1 <= 0 /\ CoordinateMax >= 0 /\ ByteMax >= 0 /\ 0 <= 0
  BY MavlinkConstants
<1>7. /\ Coordinate(subject.victim) \in Int /\ Byte(subject.confidence) \in Int
      /\ ReadsAs(Coordinate(subject.victim), subject.victim, -CoordinateMax - 1, CoordinateMax)
      /\ ReadsAs(Byte(subject.confidence), subject.confidence, 0, ByteMax)
  BY <1>5, <1>6, CastReadsAs DEF Coordinate, Byte
<1>8. \A n : Reading(n).value = n
  BY DEF Reading
<1>9. read.confidence.value \div Grain = Byte(subject.confidence)
  <2>1. (Byte(subject.confidence) * Grain) \div Grain = Byte(subject.confidence)
    BY <1>7, UnitsReadBack
  <2> QED
    BY <1>3, <1>4, <1>8, <2>1
<1>10. read.located => read.victim.value \div Grain = Coordinate(subject.victim)
  <2>1. (Coordinate(subject.victim) * Grain) \div Grain = Coordinate(subject.victim)
    BY <1>7, UnitsReadBack
  <2> QED
    BY <1>3, <1>4, <1>8, <2>1
<1>11. read.time = subject.time <=> subject.time < TimeModulus
  <2>1. subject.time \in Nat
    <3>1. Times \subseteq Nat
      BY MavlinkConstants DEF Times
    <3> QED
      BY <1>2, <3>1 DEF Sighting
  <2>2. read.time = subject.time % TimeModulus
    BY <1>3, <1>4 DEF Time32
  <2> DEFINE t == subject.time
  <2>3. TimeModulus \in Nat /\ TimeModulus > 0
    BY MavlinkConstants
  <2> HIDE DEF t
  <2>4. t \in Nat => (t % TimeModulus = t <=> t < TimeModulus)
    BY <2>3
  <2> QED
    BY <2>1, <2>2, <2>4 DEF t
<1> QED
  BY <1>3, <1>4, <1>7, <1>9, <1>10, <1>11

LEMMA MavlinkKeepsIInv == MavlinkSpec => []MavlinkIInv
  BY MavlinkInitIInv, MavlinkNextIInv, PTL DEF MavlinkSpec

\* What peers read of what a drone sends, for every width of the fields and every
\* fineness of the readings.  A LatentMesh state is read to half a step, but for a
\* heading that rounds past a full turn, and a state a receiver accepts is one it
\* could have sent.  A MAVLink message is read to less than a unit, nearer zero,
\* held at the ends of the type, and zero for a reading that is no number.  The
\* rounding and the casts of to_critical_state, from_critical_state and the
\* MAVLink messages.
THEOREM CodecsReadBack == CodecSpec /\ MavlinkSpec => []CodecsAgree
<1>1. CodecIInv => CodecAgrees
  BY Canonical, ReadClose DEF CodecAgrees
<1>2. MavlinkIInv => MavlinkReadsBack
  BY StateIsRead, ReportIsRead DEF MavlinkReadsBack
<1> QED
  BY <1>1, <1>2, CodecKeepsIInv, MavlinkKeepsIInv, PTL DEF CodecsAgree

-----------------------------------------------------------------------------
(* The store of advisories (AdvisoryStore, whose specification is Spec):    *)
(* what makes a source of them eligible, and what brings it back            *)

Lifetime == Min2(AdvisoryTtl, MaxContextAge)

LEMMA LifetimeType == Lifetime \in Nat
  BY StoreAssumption DEF Lifetime, Min2


\* a may still be, or already is, what the store holds for its source.
Live(a) == a \in handed \/ (advisories[a.source] = a /\ a \in Advisory)

\* The node numbers the advisories of a source and gives them expiries that
\* grow with the numbers.
InAdmissionOrder ==
  \A a, b \in Advisory :
    (Live(a) /\ Live(b) /\ a.source = b.source /\ a.mark < b.mark) =>
      a.expires <= b.expires

FromTheNode ==
  \A a \in Advisory : Live(a) => /\ a.mark <= admitted[a.source]
                                 /\ a.expires <= now + Lifetime

StoredIsReceived ==
  \A s \in Source : advisories[s] # NoAdvisory =>
    /\ advisories[s].source = s
    /\ advisories[s].mark <= received[s]

ReceivedWasAdmitted == \A s \in Source : received[s] <= admitted[s]

\* Why forgetting the newest report of a source is harmless: whatever older
\* report of it is still about has expired with it.
ForgottenIsExpired ==
  \A s \in Source :
    \/ advisories[s] # NoAdvisory /\ advisories[s].mark = received[s]
    \/ \A a \in Advisory :
         (Live(a) /\ a.source = s /\ a.mark < received[s]) => a.expires < now

IInv == /\ TypeOK
        /\ InAdmissionOrder
        /\ FromTheNode
        /\ StoredIsReceived
        /\ ReceivedWasAdmitted
        /\ ForgottenIsExpired

LEMMA InitIInv == Init => IInv
<1> SUFFICES ASSUME Init PROVE IInv
  OBVIOUS
<1>1. TypeOK
  BY StoreAssumption DEF Init, TypeOK
<1>2. \A a \in Advisory : ~Live(a)
  BY StoreAssumption DEF Init, Live, Advisory
<1>3. InAdmissionOrder /\ FromTheNode /\ ForgottenIsExpired
  BY <1>2 DEF InAdmissionOrder, FromTheNode, ForgottenIsExpired
<1>4. StoredIsReceived /\ ReceivedWasAdmitted
  BY DEF Init, StoredIsReceived, ReceivedWasAdmitted
<1> QED
  BY <1>1, <1>3, <1>4 DEF IInv


LEMMA AdmitAdvisoryIInv ==
  ASSUME IInv, NEW s \in Source, Ingest(s)
  PROVE  IInv'
<1>1. PICK mark \in admitted[s] + 1 .. MaxMark, fit \in BOOLEAN :
        /\ admitted' = [admitted EXCEPT ![s] = mark]
        /\ handed' = handed \cup {[source |-> s, mark |-> mark, fit |-> fit,
                                   expires |-> now + Lifetime]}
        /\ UNCHANGED <<advisories, received, now>>
  BY DEF Ingest, Lifetime
<1> DEFINE new == [source |-> s, mark |-> mark, fit |-> fit, expires |-> now + Lifetime]
<1>2. /\ admitted[s] \in Nat /\ now \in Nat /\ mark \in 1 .. MaxMark
      /\ mark > admitted[s]
  BY <1>1, StoreAssumption DEF IInv, TypeOK
<1>3. new \in Advisory
  BY <1>2, LifetimeType DEF Advisory
<1>4. TypeOK'
  BY <1>1, <1>2, <1>3, StoreAssumption DEF IInv, TypeOK
<1>5. ASSUME NEW a \in Advisory, Live(a)', a # new
      PROVE  Live(a)
  BY <1>1, <1>5 DEF Live
<1>6. ASSUME NEW a \in Advisory
      PROVE  a.mark \in Nat /\ a.expires \in Nat /\ a.source \in Source
  BY <1>6, StoreAssumption DEF Advisory
<1>7. /\ new.source = s /\ new.mark = mark /\ new.expires = now + Lifetime
      /\ \A q \in Source : admitted'[q] = IF q = s THEN mark ELSE admitted[q]
      /\ \A q \in Source : admitted[q] \in Nat
  BY <1>1, StoreAssumption DEF IInv, TypeOK
<1> HIDE DEF new
<1>8. FromTheNode'
  <2> SUFFICES ASSUME NEW a \in Advisory, Live(a)'
               PROVE  a.mark <= admitted'[a.source] /\ a.expires <= now + Lifetime
    BY <1>1 DEF FromTheNode
  <2>1. CASE a = new
    BY <1>2, <1>7, <2>1, LifetimeType, StoreAssumption
  <2>2. CASE a # new
    <3>1. a.mark <= admitted[a.source] /\ a.expires <= now + Lifetime
      BY <1>5, <2>2 DEF IInv, FromTheNode
    <3> QED
      BY <1>2, <1>6, <1>7, <3>1
  <2> QED
    BY <2>1, <2>2
<1>9. InAdmissionOrder'
  <2> SUFFICES ASSUME NEW a \in Advisory, NEW b \in Advisory, Live(a)', Live(b)',
                      a.source = b.source, a.mark < b.mark
               PROVE  a.expires <= b.expires
    BY DEF InAdmissionOrder
  <2>1. CASE a # new /\ b # new
    BY <1>5, <2>1 DEF IInv, InAdmissionOrder
  <2>2. CASE a = new /\ b = new
    BY <1>2, <1>7, <2>2
  <2>3. CASE a = new /\ b # new
    <3>1. b.mark <= admitted[s]
      BY <1>5, <1>7, <2>3 DEF IInv, FromTheNode
    <3> QED
      BY <1>2, <1>6, <1>7, <2>3, <3>1
  <2>4. CASE a # new /\ b = new
    <3>1. a.expires <= now + Lifetime
      BY <1>5, <2>4 DEF IInv, FromTheNode
    <3> QED
      BY <1>7, <2>4, <3>1
  <2> QED
    BY <2>1, <2>2, <2>3, <2>4
<1>10. StoredIsReceived'
  BY <1>1 DEF IInv, StoredIsReceived
<1>11. ForgottenIsExpired'
  <2> SUFFICES ASSUME NEW q \in Source,
                      ~(advisories[q] # NoAdvisory /\ advisories[q].mark = received[q]),
                      NEW a \in Advisory, Live(a)', a.source = q, a.mark < received[q]
               PROVE  a.expires < now
    BY <1>1 DEF ForgottenIsExpired
  <2>1. a # new
    <3>1. received[s] <= admitted[s] /\ received[s] \in Nat
      BY StoreAssumption DEF IInv, TypeOK, ReceivedWasAdmitted
    <3> QED
      BY <1>2, <1>7, <3>1
  <2> QED
    BY <1>5, <2>1 DEF IInv, ForgottenIsExpired
<1>12. ReceivedWasAdmitted'
  <2> SUFFICES ASSUME NEW q \in Source PROVE received[q] <= admitted'[q]
    BY <1>1 DEF ReceivedWasAdmitted
  <2>1. received[q] <= admitted[q] /\ received[q] \in Nat
    BY StoreAssumption DEF IInv, TypeOK, ReceivedWasAdmitted
  <2> QED
    BY <1>2, <1>7, <2>1
<1> QED
  BY <1>4, <1>8, <1>9, <1>10, <1>11, <1>12 DEF IInv

\* Nothing becomes live but what the node admits: it is enough to look at marks.
LEMMA ReceiveAdvisoryIInv ==
  ASSUME IInv, NEW a \in handed, ReceiveLatentmeshAdvisory(a)
  PROVE  IInv'
<1> DEFINE s == a.source
<1>1. /\ a \in Advisory /\ s \in Source /\ Live(a)
      /\ a.mark \in 1 .. MaxMark /\ a.expires \in Nat
      /\ \A b \in Advisory : b.mark \in Nat /\ b.expires \in Nat /\ b.source \in Source
      /\ \A q \in Source : received[q] \in Nat
      /\ now \in Nat
  BY StoreAssumption DEF IInv, TypeOK, Advisory, Live
<1>2. UNCHANGED <<admitted, now>> /\ handed' = handed \ {a}
  BY DEF ReceiveLatentmeshAdvisory
<1>3. \/ /\ Supersedes(a)
         /\ advisories' = [advisories EXCEPT ![s] = a]
         /\ received' = [received EXCEPT ![s] = IF a.mark > received[s] THEN a.mark
                                                 ELSE received[s]]
      \/ ~Supersedes(a) /\ UNCHANGED <<advisories, received>>
  BY DEF ReceiveLatentmeshAdvisory
<1>4. TypeOK'
  BY <1>1, <1>2, <1>3 DEF IInv, TypeOK
<1>5. ASSUME NEW b \in Advisory, Live(b)'
      PROVE  Live(b)
  BY <1>1, <1>2, <1>3, <1>5 DEF IInv, TypeOK, Live
<1>6. InAdmissionOrder' /\ FromTheNode'
  BY <1>2, <1>5 DEF IInv, InAdmissionOrder, FromTheNode
<1>7. ASSUME NEW q \in Source, q # s
      PROVE  advisories'[q] = advisories[q] /\ received'[q] = received[q]
  BY <1>3, <1>7 DEF IInv, TypeOK
<1>8. CASE ~Supersedes(a) /\ UNCHANGED <<advisories, received>>
  <2>1. StoredIsReceived' /\ ReceivedWasAdmitted'
    BY <1>2, <1>8 DEF IInv, StoredIsReceived, ReceivedWasAdmitted
  <2>2. ForgottenIsExpired'
    BY <1>2, <1>5, <1>8 DEF IInv, ForgottenIsExpired
  <2> QED
    BY <1>4, <1>6, <2>1, <2>2 DEF IInv
<1>9. CASE /\ Supersedes(a)
           /\ advisories' = [advisories EXCEPT ![s] = a]
           /\ received' = [received EXCEPT ![s] = IF a.mark > received[s] THEN a.mark
                                                   ELSE received[s]]
  <2>1. /\ advisories'[s] = a
        /\ received'[s] = IF a.mark > received[s] THEN a.mark ELSE received[s]
        /\ a # NoAdvisory
    BY <1>1, <1>9, StoreAssumption DEF IInv, TypeOK
  <2>2. StoredIsReceived'
    <3> SUFFICES ASSUME NEW q \in Source, advisories'[q] # NoAdvisory
                 PROVE  advisories'[q].source = q /\ advisories'[q].mark <= received'[q]
      BY DEF StoredIsReceived
    <3>1. CASE q = s
      BY <1>1, <2>1, <3>1
    <3>2. CASE q # s
      BY <1>7, <3>2 DEF IInv, StoredIsReceived
    <3> QED
      BY <3>1, <3>2
  <2>3. ReceivedWasAdmitted'
    <3>1. a.mark <= admitted[s]
      BY <1>1 DEF IInv, FromTheNode
    <3> SUFFICES ASSUME NEW q \in Source PROVE received'[q] <= admitted[q]
      BY <1>2 DEF ReceivedWasAdmitted
    <3>2. CASE q = s
      BY <2>1, <3>1, <3>2 DEF IInv, ReceivedWasAdmitted
    <3>3. CASE q # s
      BY <1>7, <3>3 DEF IInv, ReceivedWasAdmitted
    <3> QED
      BY <3>2, <3>3
  <2>4. ForgottenIsExpired'
    <3> SUFFICES ASSUME NEW q \in Source,
                        ~(advisories'[q] # NoAdvisory /\ advisories'[q].mark = received'[q]),
                        NEW b \in Advisory, Live(b)', b.source = q, b.mark < received'[q]
                 PROVE  b.expires < now
      BY <1>2 DEF ForgottenIsExpired
    <3>1. CASE q = s
      \* a is not the newest received, so the newest had been forgotten before.
      <4>1. a.mark < received[s] /\ received'[s] = received[s]
        BY <1>1, <2>1, <3>1
      <4>2. ~(advisories[s] # NoAdvisory /\ advisories[s].mark = received[s])
        BY <1>1, <1>9, <4>1 DEF Supersedes
      <4> QED
        BY <1>5, <3>1, <4>1, <4>2 DEF IInv, ForgottenIsExpired
    <3>2. CASE q # s
      BY <1>5, <1>7, <3>2 DEF IInv, ForgottenIsExpired
    <3> QED
      BY <3>1, <3>2
  <2> QED
    BY <1>4, <1>6, <2>2, <2>3, <2>4 DEF IInv
<1> QED
  BY <1>3, <1>8, <1>9

LEMMA ExpireIInv == ASSUME IInv, ExpireLatentmeshAdvisories PROVE IInv'
<1>1. /\ advisories' = [s \in Source |->
                          IF advisories[s] # NoAdvisory /\ ~Current(advisories[s])
                          THEN NoAdvisory ELSE advisories[s]]
      /\ UNCHANGED <<admitted, handed, received, now>>
  BY DEF ExpireLatentmeshAdvisories
<1>2. TypeOK'
  BY <1>1 DEF IInv, TypeOK
<1>3. ASSUME NEW b \in Advisory, Live(b)' PROVE Live(b)
  BY <1>1, <1>3, StoreAssumption DEF Live, Advisory
<1>4. InAdmissionOrder' /\ FromTheNode'
  BY <1>1, <1>3 DEF IInv, InAdmissionOrder, FromTheNode
<1>5. StoredIsReceived' /\ ReceivedWasAdmitted'
  BY <1>1 DEF IInv, StoredIsReceived, ReceivedWasAdmitted
<1>6. ForgottenIsExpired'
  <2> SUFFICES ASSUME NEW q \in Source,
                      ~(advisories'[q] # NoAdvisory /\ advisories'[q].mark = received[q]),
                      NEW b \in Advisory, Live(b)', b.source = q, b.mark < received[q]
               PROVE  b.expires < now
    BY <1>1 DEF ForgottenIsExpired
  <2>1. CASE ~(advisories[q] # NoAdvisory /\ advisories[q].mark = received[q])
    BY <1>3, <2>1 DEF IInv, ForgottenIsExpired
  <2>2. CASE advisories[q] # NoAdvisory /\ advisories[q].mark = received[q]
    \* The newest is forgotten now: it has expired, and b not after it.
    <3>1. ~Current(advisories[q])
      BY <1>1, <2>2
    <3>2. /\ advisories[q] \in Advisory /\ advisories[q].source = q
          /\ Live(advisories[q])
      BY <2>2 DEF IInv, TypeOK, StoredIsReceived, Live
    <3>3. b.expires <= advisories[q].expires
      BY <1>3, <2>2, <3>2 DEF IInv, InAdmissionOrder
    <3>4. b.expires \in Nat /\ advisories[q].expires \in Nat /\ now \in Nat
      BY <3>2, StoreAssumption DEF IInv, TypeOK, Advisory
    <3> QED
      BY <3>1, <3>3, <3>4 DEF Current
  <2> QED
    BY <2>1, <2>2
<1> QED
  BY <1>2, <1>4, <1>5, <1>6 DEF IInv

LEMMA TickIInv == ASSUME IInv, Tick PROVE IInv'
<1>1. /\ now \in Nat /\ now' = now + 1 /\ now < MaxNow
      /\ UNCHANGED <<admitted, handed, advisories, received>>
  BY StoreAssumption DEF Tick, IInv, TypeOK
<1>2. TypeOK'
  BY <1>1, StoreAssumption DEF IInv, TypeOK
<1>3. \A a \in Advisory : Live(a)' <=> Live(a)
  BY <1>1 DEF Live
<1>4. \A a \in Advisory : a.expires \in Nat
  BY DEF Advisory
<1>5. FromTheNode'
  BY <1>1, <1>3, <1>4, LifetimeType DEF IInv, FromTheNode
<1>6. ForgottenIsExpired'
  BY <1>1, <1>3, <1>4 DEF IInv, ForgottenIsExpired
<1>7. InAdmissionOrder' /\ StoredIsReceived' /\ ReceivedWasAdmitted'
  BY <1>1, <1>3 DEF IInv, InAdmissionOrder, StoredIsReceived, ReceivedWasAdmitted
<1> QED
  BY <1>2, <1>5, <1>6, <1>7 DEF IInv

LEMMA NextIInv == IInv /\ [Next]_vars => IInv'
<1> SUFFICES ASSUME IInv, [Next]_vars PROVE IInv'
  OBVIOUS
<1>1. CASE UNCHANGED vars
  BY <1>1 DEF vars, IInv, TypeOK, InAdmissionOrder, FromTheNode, StoredIsReceived,
              ReceivedWasAdmitted, ForgottenIsExpired, Live
<1>2. ASSUME NEW s \in Source, Ingest(s) PROVE IInv'
  BY <1>2, AdmitAdvisoryIInv
<1>3. ASSUME NEW a \in handed, ReceiveLatentmeshAdvisory(a) PROVE IInv'
  BY <1>3, ReceiveAdvisoryIInv
<1> QED
  BY <1>1, <1>2, <1>3, ExpireIInv, TickIInv DEF Next

LEMMA SpecIInv == Spec => []IInv
  BY InitIInv, NextIInv, PTL DEF Spec


\* The store and the hand-over keep their types (LatentMeshNode,
\* SwarmOrchestrator::receive_latentmesh_advisory).
THEOREM StoreTypeCorrect == Spec => []TypeOK
<1>1. IInv => TypeOK
  BY DEF IInv
<1> QED
  BY <1>1, SpecIInv, PTL

\* latentmesh_peer_is_eligible never answers from a report older than one the
\* store has had, although expire_latentmesh_advisories forgets marks and
\* advisories reach the store late and out of order.
THEOREM EligibilityFollowsNewest == Spec => []EligibleByNewest
<1>1. IInv => EligibleByNewest
  <2> SUFFICES ASSUME IInv, NEW s \in Source, LatentmeshPeerIsEligible(s)
               PROVE  advisories[s].mark = received[s]
    BY DEF EligibleByNewest
  <2>1. /\ advisories[s] # NoAdvisory /\ Current(advisories[s])
        /\ advisories[s] \in Advisory /\ advisories[s].source = s
        /\ advisories[s].mark <= received[s]
        /\ Live(advisories[s])
    BY DEF LatentmeshPeerIsEligible, IInv, TypeOK, StoredIsReceived, Live
  <2>2. /\ advisories[s].mark \in Nat /\ advisories[s].expires \in Nat
        /\ received[s] \in Nat /\ now \in Nat
    BY <2>1, StoreAssumption DEF IInv, TypeOK, Advisory
  <2> QED
    BY <2>1, <2>2 DEF IInv, ForgottenIsExpired, Current
<1> QED
  BY <1>1, SpecIInv, PTL

BroughtBack(s) ==
  (/\ advisories[s] # NoAdvisory /\ Current(advisories[s])
   /\ ~advisories[s].fit
   /\ LatentmeshPeerIsEligible(s)')
  => advisories'[s].mark > advisories[s].mark

\* A report that rules a peer out stands until a newer one is stored: neither the
\* advisories of other peers, nor late ones of its own, nor expiry bring it back.
THEOREM OnlyNewerBringsBack == Spec => UnfitUntilNewer
<1>1. IInv /\ [Next]_vars => [\A s \in Source : BroughtBack(s)]_vars
  <2> SUFFICES ASSUME IInv, Next, NEW s \in Source PROVE BroughtBack(s)
    OBVIOUS
  <2>1. CASE advisories'[s] = advisories[s]
    BY <2>1 DEF BroughtBack, LatentmeshPeerIsEligible
  <2>2. ASSUME NEW q \in Source, Ingest(q) PROVE BroughtBack(s)
    BY <2>1, <2>2 DEF Ingest
  <2>3. ASSUME NEW a \in handed, ReceiveLatentmeshAdvisory(a) PROVE BroughtBack(s)
    <3>1. CASE a.source = s /\ Supersedes(a)
      BY <2>3, <3>1 DEF ReceiveLatentmeshAdvisory, Supersedes, BroughtBack, IInv, TypeOK
    <3>2. CASE ~(a.source = s /\ Supersedes(a))
      BY <2>1, <2>3, <3>2 DEF ReceiveLatentmeshAdvisory, IInv, TypeOK
    <3> QED
      BY <3>1, <3>2
  <2>4. CASE ExpireLatentmeshAdvisories
    <3>1. advisories'[s] \in {advisories[s], NoAdvisory}
      BY <2>4 DEF ExpireLatentmeshAdvisories
    <3> QED
      BY <2>1, <3>1 DEF BroughtBack, LatentmeshPeerIsEligible
  <2>5. CASE Tick
    BY <2>1, <2>5 DEF Tick
  <2> QED
    BY <2>2, <2>3, <2>4, <2>5 DEF Next
<1> QED
  BY <1>1, SpecIInv, PTL DEF Spec, UnfitUntilNewer, BroughtBack
=============================================================================
