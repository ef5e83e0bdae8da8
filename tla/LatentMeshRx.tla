---------------------------- MODULE LatentMeshRx -----------------------------
(***************************************************************************)
(* LatentMeshRxSession (src/src/latentmesh/protocol.rs) from the moment a  *)
(* message is reassembled: its admission against the runtime kept for the  *)
(* peer, the expiry of advisory state and the restoration of replay        *)
(* checkpoints.  Actions take the caller's received_at_ms / now_ms as t.   *)
(*                                                                         *)
(* critical stands for the pair critical/snapshot of PeerRuntime, which    *)
(* are set and cleared together (snapshot is critical, decoded).           *)
(***************************************************************************)
EXTENDS LatentMeshAir, FiniteSets

CONSTANTS MaxPeers,      \* RxConfig::max_peers
          MaxAge,        \* RxConfig::max_snapshot_age_ms
          MaxSkew,       \* RxConfig::max_future_skew_ms
          Ttl,           \* RxConfig::advisory_ttl_ms
          NoPeer

VARIABLES peers,     \* PeerRuntime of each source, or NoPeer
          ingress    \* the sources that own an ingress slot

rxVars == <<peers, ingress>>

PeerRuntime == [epoch : Nat, seq : Nat, stamp : Nat, acceptedAt : Nat,
                window : ReplayWindow,
                critical : CriticalState \cup {NoState},
                needKeyframe : BOOLEAN]

ASSUME RxAssumption == /\ NoPeer \notin PeerRuntime
                       /\ IsFiniteSet(Source)
                       /\ MaxPeers \in Nat \ {0}
                       /\ MaxAge \in Nat /\ MaxSkew \in Nat /\ Ttl \in Nat

RxTypeOK == /\ peers \in [Source -> PeerRuntime \cup {NoPeer}]
            /\ ingress \subseteq Source

RxInit == /\ peers = [s \in Source |-> NoPeer]
          /\ ingress = {}

-----------------------------------------------------------------------------
(* Capacity *)

ActiveSources == {s \in Source : peers[s] # NoPeer} \cup ingress

\* Mutant: sources that only own an ingress slot are not counted.
HasPeerSlot(s) ==
  s \in ActiveSources \/ Cardinality({q \in Source : peers[q] # NoPeer}) # MaxPeers

HasSlot(s) == s \in ActiveSources \/ Cardinality(ActiveSources) # MaxPeers

-----------------------------------------------------------------------------
(* admit_complete.  p is the runtime of m's source before the message. *)

Wire(m) == m.seq % WireMod
SameEpoch(p, m) == p # NoPeer /\ m.epoch = p.epoch

\* Within the epoch a delta needs the state it builds on; a new epoch (or an
\* unknown source) starts at sequence zero with a keyframe; an older epoch is
\* stale.
ChainAccepts(p, m) ==
  \/ /\ SameEpoch(p, m)
     /\ Keyframe(m) \/ (~p.needKeyframe /\ p.critical # NoState)
  \/ /\ p # NoPeer => m.epoch > p.epoch
     /\ m.seq = 0
     /\ Keyframe(m)

\* Mutant: a keyframe of the current epoch is applied to the held state too.
HeldBase(p, m) == IF SameEpoch(p, m) THEN p.critical ELSE NoState

Base(p, m) == IF SameEpoch(p, m) /\ ~Keyframe(m) THEN p.critical ELSE NoState
Window(p, m) == IF SameEpoch(p, m) THEN p.window ELSE EmptyWindow
Result(p, m) == Apply(m.delta, Base(p, m))

\* Mutant: the replay window alone decides, without the logical sequence.
NotInWindow(p, m) == Unreplayed(Window(p, m), Wire(m))

NotReplayed(p, m) == /\ Unreplayed(Window(p, m), Wire(m))
                     /\ SameEpoch(p, m) => m.seq > p.seq

\* Mutant: age and skew are checked, the stamp last held is not.
FreshStamp(p, m, t) ==
  LET stamp == Result(p, m).stamp
  IN  stamp <= t + MaxSkew /\ t - stamp <= MaxAge

StampAccepts(p, m, t) ==
  LET stamp == Result(p, m).stamp
  IN  /\ stamp <= t + MaxSkew
      /\ t - stamp <= MaxAge
      /\ SameEpoch(p, m) => stamp >= p.stamp

Admits(p, m, t) == /\ ChainAccepts(p, m)
                   /\ NotReplayed(p, m)
                   /\ AppliesTo(m.delta, Base(p, m))
                   /\ StampAccepts(p, m, t)

AdmittedPeer(p, m, t) ==
  [epoch |-> m.epoch, seq |-> m.seq, stamp |-> Result(p, m).stamp,
   acceptedAt |-> t,
   window |-> Commit(Window(p, m), Wire(m)),
   critical |-> Result(p, m),
   needKeyframe |-> FALSE]

\* A frame takes an ingress slot for its source before anything of it is
\* believed, and keeps it whatever becomes of the message.
TakeSlot(s) == /\ HasSlot(s)
               /\ ingress' = ingress \cup {s}

AdmitComplete(m, t) ==
  /\ TakeSlot(m.src)
  /\ Admits(peers[m.src], m, t)
  /\ peers' = [peers EXCEPT ![m.src] = AdmittedPeer(@, m, t)]

RejectComplete(m, t) ==
  /\ TakeSlot(m.src)
  /\ ~Admits(peers[m.src], m, t)
  /\ UNCHANGED peers

-----------------------------------------------------------------------------

Expired(p, t) == /\ p # NoPeer
                 /\ p.critical # NoState
                 /\ t - p.acceptedAt > Ttl

\* Mutant: an expired peer is forgotten, high-water mark and all.
ForgetStale(t) ==
  /\ \E s \in Source : Expired(peers[s], t)
  /\ peers' = [s \in Source |-> IF Expired(peers[s], t) THEN NoPeer ELSE peers[s]]
  /\ UNCHANGED ingress

\* Drops advisory state, keeps the replay high-water mark.
ExpireStale(t) ==
  /\ \E s \in Source : Expired(peers[s], t)
  /\ peers' = [s \in Source |->
                 IF Expired(peers[s], t)
                 THEN [peers[s] EXCEPT !.critical = NoState, !.needKeyframe = TRUE]
                 ELSE peers[s]]
  /\ UNCHANGED ingress

-----------------------------------------------------------------------------
(* Replay checkpoints *)

Checkpoint == [epoch : Nat, seq : Nat, stamp : Nat]

CheckpointOf(p) == [epoch |-> p.epoch, seq |-> p.seq, stamp |-> p.stamp]

\* A checkpoint at or behind the runtime's own mark.
RollsBack(p, c) == \/ c.epoch < p.epoch
                   \/ (c.epoch = p.epoch /\ c.seq <= p.seq)

RestoredPeer(c) ==
  [epoch |-> c.epoch, seq |-> c.seq, stamp |-> c.stamp, acceptedAt |-> 0,
   window |-> EmptyWindow, critical |-> NoState, needKeyframe |-> TRUE]

RestoreReplayCheckpoint(s, c) ==
  /\ IF peers[s] # NoPeer THEN ~RollsBack(peers[s], c)
                          ELSE Cardinality(ActiveSources) # MaxPeers
  /\ peers' = [peers EXCEPT ![s] = RestoredPeer(c)]
  /\ UNCHANGED ingress

=============================================================================
