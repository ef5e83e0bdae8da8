---------------------------- MODULE LatentMeshTx -----------------------------
(***************************************************************************)
(* LatentMeshTxSession (src/src/latentmesh/protocol.rs): one transmit      *)
(* session per source, which numbers its messages within an epoch, sends a *)
(* complete keyframe at a fixed interval and deltas in between.            *)
(*                                                                         *)
(* sent is everything ever handed to the transport.  Nothing is removed    *)
(* from it: a receiver may see a message never, once, several times and in *)
(* any order.                                                              *)
(***************************************************************************)
EXTENDS LatentMeshAir

CONSTANTS Epoch,             \* sender epochs, u32 in the code
          MaxSeq,            \* largest message id, u32::MAX in the code
          KeyframeInterval   \* TxConfig::keyframe_interval, 16 by default

ASSUME TxAssumption == /\ Epoch \subseteq Nat
                       /\ 0 \in Epoch
                       /\ MaxSeq \in Nat
                       /\ KeyframeInterval \in Nat \ {0}

VARIABLES tx, sent

txVars == <<tx, sent>>

TxSession == [epoch : Epoch, next : 0 .. MaxSeq + 1,
              last : CriticalState \cup {NoState}]

Message == [src : Source, epoch : Epoch, seq : 0 .. MaxSeq, delta : Delta]

TxTypeOK == /\ tx \in [Source -> TxSession]
            /\ sent \subseteq Message

NewSession(e) == [epoch |-> e, next |-> 0, last |-> NoState]

TxInit == /\ tx = [s \in Source |-> NewSession(0)]
          /\ sent = {}

-----------------------------------------------------------------------------

\* The delta of the next message: against nothing at the keyframe interval,
\* against the last state sent otherwise.
NextDelta(s, target) ==
  Between(IF tx[s].next % KeyframeInterval = 0 THEN NoState ELSE tx[s].last,
          target)

\* A target that does not validate or an exhausted sequence is an error that
\* leaves the session as it was.
EncodeAdvisoryState(s, target) ==
  /\ tx[s].next <= MaxSeq
  /\ sent' = sent \cup {[src |-> s, epoch |-> tx[s].epoch, seq |-> tx[s].next,
                         delta |-> NextDelta(s, target)]}
  /\ tx' = [tx EXCEPT ![s] = [epoch |-> @.epoch, next |-> @.next + 1,
                                last |-> target]]

RotateEpoch(s, e) ==
  /\ e > tx[s].epoch
  /\ tx' = [tx EXCEPT ![s] = NewSession(e)]
  /\ UNCHANGED sent

\* The sender restarts: nothing of its session is persisted, and the epoch it
\* is created with is whatever its deployment configures, the old one included.
RestartSender(s, e) ==
  /\ tx' = [tx EXCEPT ![s] = NewSession(e)]
  /\ UNCHANGED sent

=============================================================================
