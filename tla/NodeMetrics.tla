------------------------------ MODULE NodeMetrics ------------------------------
(***************************************************************************)
(* What a node counts (src/src/latentmesh/metrics.rs, the counters of      *)
(* protocol.rs and record_protocol_drop of node.rs).  A frame is ingested  *)
(* through an exclusive reference, so nothing runs beside it; deliveries   *)
(* are evaluated and snapshots taken through shared ones, by any number of *)
(* threads, one atomic counter at a time.  Sizes and sends are left out.   *)
(***************************************************************************)
EXTENDS Naturals, Sequences, FiniteSets

CONSTANTS Evaluator,       \* threads that evaluate deliveries
          MaxCount,        \* u64::MAX, scaled down
          MaxFrames, MaxDenied

ASSUME MetricsAssumption == {MaxCount, MaxFrames, MaxDenied} \subseteq Nat \ {0}

VARIABLES protocol,        \* ProtocolMetrics of the receive session
          counter,         \* LatentMeshMetrics of the node
          suppressing,     \* threads between the two counts of a residual's drop
          view,            \* the counters a snapshot under way has loaded
          shown,           \* the last snapshot
          frames, denied   \* history: frames ingested, drops of deliveries counted

metricsVars == <<protocol, counter, suppressing, view, shown, frames, denied>>

ProtocolMetrics == {"frames_seen", "completed_envelopes", "accepted_snapshots",
                    "crc_rejections", "authentication_rejections", "replay_rejections",
                    "semantic_rejections"}

\* The counters of a node in the order a snapshot loads them.
Loads == <<"received_messages", "authentication_drops", "replay_drops", "stale_drops",
           "policy_drops", "reassemblies_completed", "reassembly_failures",
           "residual_suppressions">>

LatentMeshMetrics == {Loads[i] : i \in DOMAIN Loads}

\* Mutant: a counter that wraps.
WrappingAdd(n) == (n + 1) % (MaxCount + 1)

SaturatingAdd(n) == IF n < MaxCount THEN n + 1 ELSE n

\* The counters with one more in each of the columns.
Counted(counters, columns) ==
  [c \in DOMAIN counters |->
     IF c \in columns THEN SaturatingAdd(counters[c]) ELSE counters[c]]

-----------------------------------------------------------------------------
(* A frame: its result, and what the receive session and the node count.   *)

\* "Crc" is Air(CrcMismatch); the codes of a sender or of a restart are left out.
ProtocolError ==
  {"Air", "Crc", "State", "UntrustedPeer", "AuthenticationFailed", "SignatureRequired",
   "MetadataMismatch", "SourceMismatch", "Replay", "TooOld", "StaleEpoch", "StaleLogical",
   "InvalidEpochStart", "StaleTimestamp", "LearnedResidualForbidden", "PeerCapacity",
   "SequenceExhausted", "SourceHintMismatch", "RateLimited", "ReceiveClockRegression",
   "SnapshotTooOld", "SnapshotFromFuture", "KeyframeRequired", "IngressUnavailable"}

Replayed == {"Replay", "TooOld", "StaleEpoch", "StaleLogical"}
Unauthenticated == {"AuthenticationFailed", "SignatureRequired", "UntrustedPeer"}

\* Errors of the outer frame, before a message can be whole.
BeforeCompletion == {"Crc", "RateLimited", "ReceiveClockRegression", "IngressUnavailable"}

\* Mutant: frames that fail their checksum are not worth a count.
ResultUnlessCrc(error) ==
  CASE error \in Unauthenticated -> {"authentication_rejections"}
    [] error \in Replayed        -> {"replay_rejections"}
    [] error = "Crc"             -> {}
    [] OTHER                     -> {"semantic_rejections"}

RecordResult(error) ==
  CASE error = "Crc"             -> {"crc_rejections"}
    [] error \in Unauthenticated -> {"authentication_rejections"}
    [] error \in Replayed        -> {"replay_rejections"}
    [] OTHER                     -> {"semantic_rejections"}

DropCounter(error) ==
  CASE error \in Unauthenticated \cup {"SourceHintMismatch"} -> "authentication_drops"
    [] error \in Replayed                                    -> "replay_drops"
    [] error \in {"StaleTimestamp", "SnapshotTooOld", "SnapshotFromFuture",
                  "ReceiveClockRegression", "KeyframeRequired"} -> "stale_drops"
    [] OTHER                                                 -> "policy_drops"

RecordProtocolDrop(error) ==
  {DropCounter(error)}
    \cup {c \in {"residual_suppressions"} : error = "LearnedResidualForbidden"}
    \cup {c \in {"reassembly_failures"} : error \in {"Air", "Crc"}}

\* Nothing else holds the node.
Exclusive == suppressing = {} /\ view = <<>>

IngestFrame(ofProtocol, ofNode) ==
  /\ Exclusive /\ frames < MaxFrames
  /\ protocol' = Counted(protocol, ofProtocol \cup {"frames_seen"})
  /\ counter' = Counted(counter, ofNode)
  /\ frames' = frames + 1
  /\ UNCHANGED <<suppressing, view, shown, denied>>

Admitted == IngestFrame({"completed_envelopes", "accepted_snapshots"},
                        {"received_messages", "reassemblies_completed"})

Incomplete == IngestFrame({}, {})

Refused ==
  \E error \in ProtocolError :
    \E whole \in IF error \in BeforeCompletion THEN {{}} ELSE {{}, {"completed_envelopes"}} :
      IngestFrame(RecordResult(error) \cup whole, RecordProtocolDrop(error))

-----------------------------------------------------------------------------
(* A delivery is evaluated, and a drop is counted. *)

\* One reason for each way to be counted.
PolicyDropReason == {"Unauthenticated", "DeadlineExpired", "ResidualNotValidated", "UnknownAction"}

RecordPolicyDrop(reason) == CASE reason = "Unauthenticated" -> "authentication_drops"
                              [] reason = "DeadlineExpired" -> "stale_drops"
                              [] OTHER                      -> "policy_drops"

EvaluateDelivery(thread) ==
  /\ thread \notin suppressing /\ denied < MaxDenied
  /\ \E reason \in PolicyDropReason :
       /\ counter' = Counted(counter, {RecordPolicyDrop(reason)})
       /\ suppressing' = suppressing \cup {t \in {thread} : reason = "ResidualNotValidated"}
  /\ denied' = denied + 1
  /\ UNCHANGED <<protocol, view, shown, frames>>

RecordResidualSuppressed(thread) ==
  /\ thread \in suppressing
  /\ counter' = Counted(counter, {"residual_suppressions"})
  /\ suppressing' = suppressing \ {thread}
  /\ UNCHANGED <<protocol, view, shown, frames, denied>>

\* A snapshot loads the next counter, and is a snapshot once it has the last.
Load ==
  /\ LET loaded == Append(view, counter[Loads[Len(view) + 1]])
     IN  IF Len(loaded) = Len(Loads) THEN view' = <<>> /\ shown' = loaded
                                     ELSE view' = loaded /\ UNCHANGED shown
  /\ UNCHANGED <<protocol, counter, suppressing, frames, denied>>

-----------------------------------------------------------------------------

MetricsInit ==
  /\ protocol = [c \in ProtocolMetrics |-> 0]
  /\ counter = [c \in LatentMeshMetrics |-> 0]
  /\ suppressing = {} /\ view = <<>> /\ shown = [i \in DOMAIN Loads |-> 0]
  /\ frames = 0 /\ denied = 0

MetricsNext == \/ Admitted \/ Incomplete \/ Refused
               \/ \E thread \in Evaluator : EvaluateDelivery(thread)
                                            \/ RecordResidualSuppressed(thread)
               \/ Load

-----------------------------------------------------------------------------

Saturated == \/ \E c \in ProtocolMetrics : protocol[c] = MaxCount
             \/ \E c \in LatentMeshMetrics : counter[c] = MaxCount

Dropped == counter["authentication_drops"] + counter["replay_drops"]
           + counter["stale_drops"] + counter["policy_drops"]

Rejected == protocol["crc_rejections"] + protocol["authentication_rejections"]
            + protocol["replay_rejections"] + protocol["semantic_rejections"]

\* The session and the node classify a frame by tables of their own: as long as
\* no counter is full, they agree on how many were taken, replayed and refused,
\* with the drops of deliveries beside them.
FramesAccounted ==
  Saturated \/ /\ counter["received_messages"] = protocol["accepted_snapshots"]
               /\ counter["replay_drops"] = protocol["replay_rejections"]
               /\ Dropped = Rejected + denied
               /\ protocol["accepted_snapshots"] + Rejected <= protocol["frames_seen"]

\* A suppressed residual shows as a drop too, at any moment and with any counter
\* full: it is counted as one first.
SuppressionsAreDrops == counter["residual_suppressions"] <= counter["policy_drops"]

\* The tables that count frames and deliveries tell one story.
CountersAgree == FramesAccounted /\ SuppressionsAreDrops

\* However threads interleave and counters fill up, what a snapshot shows is
\* never less than what the one before it showed.
SnapshotsNeverGoBack == [][\A i \in DOMAIN Loads : shown'[i] >= shown[i]]_metricsVars
=============================================================================
