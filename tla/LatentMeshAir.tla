---------------------------- MODULE LatentMeshAir ----------------------------
(***************************************************************************)
(* The external crate latentmesh_air_core, as src/src/latentmesh uses it:  *)
(* canonical critical states, semantic deltas that name their base and     *)
(* result by hash, and the 16-bit serial replay window.                    *)
(*                                                                         *)
(* A hash stands for the content it is taken of, so a delta carries its    *)
(* base and its result themselves.  Signatures, framing and encoding have  *)
(* no state: a message in the network is one that verifies.                *)
(***************************************************************************)
EXTENDS Integers

CONSTANTS Source,       \* source_id values, u32 in the code
          Pose,         \* kinematic content of an advisory state
          Status,       \* battery, link and fail-safe content
          NoState,      \* the empty CriticalState; also "no snapshot"
          WireMod,      \* modulus of the wire sequence, 2^16 in the code
          ReplayDepth   \* how far behind its head the window remembers

CriticalState == [stamp : Nat, pose : Pose, status : Status]

ASSUME AirAssumption == /\ NoState \notin CriticalState
                        /\ WireMod \in Nat \ {0}
                        /\ ReplayDepth \in Nat

-----------------------------------------------------------------------------
(* SemanticDelta *)

Delta == [base    : CriticalState \cup {NoState},
          result  : CriticalState,
          changed : SUBSET {"stamp", "pose", "status"}]

\* SemanticDelta::between: the fields of target that differ from base.
Between(base, target) ==
  [base |-> base, result |-> target,
   changed |-> {f \in {"stamp", "pose", "status"} :
                   base = NoState \/ base[f] # target[f]}]

\* Mutant: the base hash is not checked.
AppliesToAnyBase(delta, base) == TRUE

\* SemanticDelta::apply checks the hash of the base it is given ...
AppliesTo(delta, base) == delta.base = base

\* ... and then overwrites the changed fields.
Apply(delta, base) ==
  LET pick(f) == IF f \in delta.changed THEN delta.result[f] ELSE base[f]
  IN  [stamp |-> pick("stamp"), pose |-> pick("pose"), status |-> pick("status")]

\* A message whose delta is independent of prior receiver state.
Keyframe(m) == m.delta.base = NoState

-----------------------------------------------------------------------------
(* ReplayWindow: a head in serial arithmetic and the sequences remembered   *)
(* behind it.                                                               *)

NoHead == -1
Wires == 0 .. WireMod - 1
ReplayWindow == [head : Wires \cup {NoHead}, seen : SUBSET Wires]

EmptyWindow == [head |-> NoHead, seen |-> {}]

\* n lies in the half space ahead of the head.
AheadOf(window, n) ==
  \/ window.head = NoHead
  \/ (n - window.head) % WireMod \in 1 .. (WireMod - 1) \div 2

\* classify(n) = Accept; Duplicate and TooOld are both refusals.
Unreplayed(window, n) ==
  \/ AheadOf(window, n)
  \/ /\ (window.head - n) % WireMod < ReplayDepth
     /\ n \notin window.seen

\* commit(n)
Commit(window, n) ==
  LET head == IF AheadOf(window, n) THEN n ELSE window.head
  IN  [head |-> head,
       seen |-> {k \in window.seen \cup {n} : (head - k) % WireMod < ReplayDepth}]

=============================================================================
