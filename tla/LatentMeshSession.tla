------------------------- MODULE LatentMeshSession ---------------------------
(***************************************************************************)
(* LatentMesh end to end: the transmit sessions of a set of sources, the   *)
(* datagram network between, one receive session, the clock it reads and   *)
(* the durable store its deployment keeps replay checkpoints in.           *)
(*                                                                         *)
(* A message fits one frame here, so a frame that arrives is a complete    *)
(* message.  What ingestion may refuse besides (rate, contexts, a          *)
(* regressing clock; see LatentMeshIngress) is a message lost.             *)
(***************************************************************************)
EXTENDS LatentMeshTx, LatentMeshRx

CONSTANTS ClockError,     \* offsets of a sender's clock from the receiver's
          MaxNow,         \* bound on the clock
          MaxSent,        \* bound on the messages sent
          NoCheckpoint

ASSUME SessionAssumption == /\ ClockError \subseteq Int
                            /\ MaxNow \in Nat /\ MaxSent \in Nat
                            /\ NoCheckpoint \notin Checkpoint

VARIABLES now,       \* receipt clock, ms since an origin
          store,     \* durable checkpoint of each source
          pending    \* sources not yet restored after a restart

vars == <<tx, sent, peers, ingress, now, store, pending>>

TypeOK == /\ TxTypeOK
          /\ RxTypeOK
          /\ now \in Nat
          /\ store \in [Source -> Checkpoint \cup {NoCheckpoint}]
          /\ pending \subseteq Source

Init == /\ TxInit
        /\ RxInit
        /\ now = 0
        /\ store = [s \in Source |-> NoCheckpoint]
        /\ pending = {}

-----------------------------------------------------------------------------
(* Senders *)

Send(s) ==
  /\ Cardinality(sent) < MaxSent
  /\ \E d \in ClockError, pose \in Pose, status \in Status :
       /\ now + d >= 0
       /\ EncodeAdvisoryState(s, [stamp |-> now + d, pose |-> pose, status |-> status])
  /\ UNCHANGED <<rxVars, now, store, pending>>

Rotate(s) ==
  /\ \E e \in Epoch : RotateEpoch(s, e)
  /\ UNCHANGED <<rxVars, now, store, pending>>

SenderRestart(s) ==
  /\ \E e \in Epoch : RestartSender(s, e)
  /\ UNCHANGED <<rxVars, now, store, pending>>

-----------------------------------------------------------------------------
(* Receiver.  A deployment admits nothing of a source whose checkpoint is   *)
(* still to be restored.                                                    *)

Admit(m) == /\ m.src \notin pending
            /\ AdmitComplete(m, now)
            /\ UNCHANGED <<txVars, now, store, pending>>

Reject(m) == /\ m.src \notin pending
             /\ RejectComplete(m, now)
             /\ UNCHANGED <<txVars, now, store, pending>>

Expire == /\ ExpireStale(now)
          /\ UNCHANGED <<txVars, now, store, pending>>

\* The deployment writes what replay_checkpoints() exports.
Persist ==
  /\ store' = [s \in Source |-> IF peers[s] = NoPeer THEN store[s]
                                ELSE CheckpointOf(peers[s])]
  /\ UNCHANGED <<txVars, rxVars, now, pending>>

Restart == /\ peers' = [s \in Source |-> NoPeer]
           /\ ingress' = {}
           /\ pending' = {s \in Source : store[s] # NoCheckpoint}
           /\ UNCHANGED <<txVars, now, store>>

Restore(s) == /\ s \in pending
              /\ RestoreReplayCheckpoint(s, store[s])
              /\ pending' = pending \ {s}
              /\ UNCHANGED <<txVars, now, store>>

Tick == /\ now < MaxNow
        /\ now' = now + 1
        /\ UNCHANGED <<txVars, rxVars, store, pending>>

-----------------------------------------------------------------------------

SenderNext == \E s \in Source : Send(s) \/ Rotate(s) \/ SenderRestart(s)

ReceiverNext == \/ \E m \in sent : Admit(m) \/ Reject(m)
                \/ Expire
                \/ Persist
                \/ Restart
                \/ \E s \in Source : Restore(s)

Next == SenderNext \/ ReceiverNext \/ Tick

Spec == Init /\ [][Next]_vars

-----------------------------------------------------------------------------
(* Refinement mapping *)

MarkOf(c) == <<c.epoch, c.seq>>

MarkBar ==
  [s \in Source |-> IF peers[s] # NoPeer THEN MarkOf(peers[s])
                    ELSE IF s \in pending THEN MarkOf(store[s])
                    ELSE <<-1, -1>>]

ViewBar == [s \in Source |-> IF peers[s] = NoPeer THEN NoState
                             ELSE peers[s].critical]

SavedBar == [s \in Source |-> IF store[s] = NoCheckpoint THEN <<-1, -1>>
                              ELSE MarkOf(store[s])]

PublishedBar == {[src |-> m.src, mark |-> MarkOf(m), state |-> m.delta.result] :
                    m \in sent}

Ledger == INSTANCE AdvisoryLedger
            WITH State <- CriticalState, published <- PublishedBar,
                 mark <- MarkBar, view <- ViewBar, saved <- SavedBar

\* Over every restart, loss, duplicate and reordering, the session layer keeps
\* the promise of AdvisoryLedger: marks fall only to durable ones, and a view is
\* what its source published under the current mark.
LedgerSpec == Ledger!Spec

-----------------------------------------------------------------------------
(* Properties *)

\* The state held for a peer is, field for field, the one its source encoded
\* under the held (epoch, sequence): deltas are never merged onto a base other
\* than the one they were taken from, whatever was lost, reordered, expired or
\* re-sent by a restarted sender before.
SnapshotIsSent ==
  \A s \in Source :
    (peers[s] # NoPeer /\ peers[s].critical # NoState) =>
      \E m \in sent : /\ m.src = s
                      /\ MarkOf(m) = MarkOf(peers[s])
                      /\ m.delta.result = peers[s].critical

\* Once a receiver holds nothing for a source (never known, expired, restarted
\* or restored), state comes back only through a complete keyframe newer than
\* every mark it still remembers.
StateReturnsByKeyframe ==
  [][\A s \in Source :
       (ViewBar[s] = NoState /\ ViewBar'[s] # NoState) =>
         \E m \in sent : /\ m.src = s
                         /\ Keyframe(m)
                         /\ MarkBar'[s] = MarkOf(m)
                         /\ Ledger!Newer(MarkOf(m), MarkBar[s])]_vars

\* However sources, ingress slots and restored checkpoints come and go, the
\* bound on tracked sources holds.
CapacityBounded == Cardinality(ActiveSources) <= MaxPeers

\* The stamp held for a source, or else the one it is restored with.
StampOf(s) == IF peers[s] # NoPeer THEN peers[s].stamp ELSE store[s].stamp

\* The stamp held for a source is not behind the one made durable in its epoch.
DurableStampKept(s) ==
  (store[s] # NoCheckpoint /\ MarkBar[s][1] = store[s].epoch)
    => StampOf(s) >= store[s].stamp

\* Within an epoch the signed timestamp held for a source goes back only where
\* the receiver restarts, and then to the one last made durable; below that one
\* it never is, whatever was sent before and is admitted after the restore.
StampsAdvanceInEpoch ==
  /\ [][\A s \in Source :
          (MarkBar[s] # <<-1, -1>> /\ MarkBar'[s][1] = MarkBar[s][1]) =>
            \/ StampOf(s)' >= StampOf(s)
            \/ Restart /\ StampOf(s)' = store[s].stamp]_vars
  /\ [](\A s \in Source : DurableStampKept(s))

Timely(m) == /\ m.delta.result.stamp <= now + MaxSkew
             /\ now - m.delta.result.stamp <= MaxAge

\* The window's head is the last sequence admitted, if it has one.  It is not
\* after a gap of almost the whole wire space, which lands behind the head.
InStep(p) == p.window.head \in {NoHead, p.seq % WireMod}

\* Within an epoch the receiver knows, a timely keyframe newer than the mark
\* always repairs the chain: nothing held, expired, lost, wrapped or restored
\* makes the receiver refuse it, up to a gap of half the wire space.
KeyframeRepairs ==
  \A m \in sent :
    LET p == peers[m.src]
    IN  (/\ p # NoPeer
         /\ InStep(p)
         /\ Keyframe(m) /\ m.epoch = p.epoch
         /\ m.seq - p.seq \in 1 .. (WireMod - 1) \div 2
         /\ m.delta.result.stamp >= p.stamp
         /\ Timely(m))
        => Admits(p, m, now)

\* TxConfig says the keyframe interval bounds recovery after the loss of a
\* datagram.  Let the message that opened an epoch be lost, or too old by now:
\* a later keyframe of that epoch, timely and newer than the mark, is admitted.
KeyframeBoundsRecovery ==
  \A m \in sent :
    (/\ Keyframe(m)
     /\ Timely(m)
     /\ m.src \notin pending
     /\ HasSlot(m.src)
     /\ \A k \in sent : k.src = m.src => k.epoch <= m.epoch
     /\ \A k \in sent : (k.src = m.src /\ k.epoch = m.epoch /\ k.seq = 0) => ~Timely(k)
     /\ Ledger!Newer(MarkOf(m), MarkBar[m.src]))
    => Admits(peers[m.src], m, now)

=============================================================================
