------------------------------ MODULE LinkSecurity -----------------------------
(***************************************************************************)
(* The radio of a node: FhssRadio (src/src/security/antijamming.rs), which *)
(* hops through its channels and jumps when it takes them for jammed, and  *)
(* the MavlinkSigner (src/src/security/mavlink_signing.rs) of two ends of  *)
(* a link.                                                                 *)
(***************************************************************************)
EXTENDS Integers, Sequences, Bitwise

CONSTANTS ChannelCounts,     \* lengths of channels_mhz
          NodeSeed,
          HopInterval,       \* 1000 / hop_rate_hz
          TickLengths,       \* the dt a tick may be given
          JammingDetectWindow,
          SignWindow,        \* how far back verify looks
          MaxEvasions, MaxSignatures

ASSUME LinkSecurityAssumption ==
  /\ ChannelCounts \subseteq Nat
  /\ {HopInterval, JammingDetectWindow} \subseteq Nat \ {0}
  /\ {NodeSeed, SignWindow, MaxEvasions, MaxSignatures} \subseteq Nat
  /\ TickLengths \subseteq Nat

VARIABLES channels,          \* how many there are
          hopIndex,
          rssiHistory,       \* TRUE for a sample below the threshold
          elapsed,           \* since the last hop
          evasions,          \* evasion_count
          samples,           \* history: samples since the last evasion, up to the window
          stamp,             \* counter of the signer at either end
          onAir              \* stamps one end signed with and the other may check

radioVars == <<channels, hopIndex, rssiHistory, elapsed, evasions, samples>>
signerVars == <<stamp, onAir>>
linkVars == <<radioVars, signerVars>>

End == {"ground", "drone"}

LinkInit == /\ channels \in ChannelCounts
            /\ hopIndex = 0 /\ elapsed = 0 /\ evasions = 0
            /\ rssiHistory = <<>> /\ samples = 0
            /\ stamp = [e \in End |-> 1]
            /\ onAir = {}

-----------------------------------------------------------------------------
(* FhssRadio *)

NoChannel == -1

\* The channel at a position of the hop sequence.
ChannelAt(index) == IF channels = 0 THEN NoChannel ELSE (index ^^ NodeSeed) % channels

HopsOn(index, hops) == IF channels = 0 THEN index ELSE (index + hops) % channels

NextHop == /\ hopIndex' = HopsOn(hopIndex, 1)
           /\ UNCHANGED <<channels, rssiHistory, elapsed, evasions, samples, signerVars>>

ObserveRssi(poor) ==
  LET longer == Append(rssiHistory, poor)
  IN  /\ rssiHistory' = IF Len(longer) > JammingDetectWindow THEN Tail(longer) ELSE longer
      /\ samples' = IF samples < JammingDetectWindow THEN samples + 1 ELSE samples
      /\ UNCHANGED <<channels, hopIndex, elapsed, evasions, signerVars>>

JammingDetected == /\ Len(rssiHistory) >= JammingDetectWindow
                   /\ \A k \in DOMAIN rssiHistory : rssiHistory[k]

\* Mutant: the operators bind the other way.
QuarterOnly(r) == (r % channels) \div 4

\* The generator's draw, whichever it is, becomes a jump.
Offset(r) == r \div 4 + 3

Forgotten == <<>>

EvadeFrom(index) ==
  IF channels = 0
  THEN UNCHANGED <<hopIndex, evasions, rssiHistory, samples>>
  ELSE /\ evasions < MaxEvasions
       /\ \E r \in 0 .. channels - 1 : hopIndex' = (index + Offset(r)) % channels
       /\ evasions' = evasions + 1
       /\ rssiHistory' = Forgotten
       /\ samples' = 0

EvasiveHop == EvadeFrom(hopIndex) /\ UNCHANGED <<channels, elapsed, signerVars>>

\* All the hops that are due, and then, if the channel looks jammed, a jump.
RadioTick(dt) ==
  LET due == (elapsed + dt) \div HopInterval
  IN  /\ elapsed' = (elapsed + dt) % HopInterval
      /\ IF JammingDetected
         THEN EvadeFrom(HopsOn(hopIndex, due))
         ELSE /\ hopIndex' = HopsOn(hopIndex, due)
              /\ UNCHANGED <<evasions, rssiHistory, samples>>
      /\ UNCHANGED <<channels, signerVars>>

-----------------------------------------------------------------------------
(* MavlinkSigner *)

Other(e) == CHOOSE o \in End : o # e

Sign(e) == /\ stamp[e] <= MaxSignatures
           /\ onAir' = onAir \cup {[to |-> Other(e), at |-> stamp[e]]}
           /\ stamp' = [stamp EXCEPT ![e] = @ + 1]
           /\ UNCHANGED radioVars

\* verify tries the stamps around its own counter, which only signing moves.
Verifies(m) == /\ m.at >= stamp[m.to] - SignWindow
               /\ m.at <= stamp[m.to] + 1

Verify(m) == /\ Verifies(m)
             /\ onAir' = onAir \ {m}
             /\ UNCHANGED <<radioVars, stamp>>

LinkNext == \/ NextHop \/ EvasiveHop
            \/ \E poor \in BOOLEAN : ObserveRssi(poor)
            \/ \E dt \in TickLengths : RadioTick(dt)
            \/ \E e \in End : Sign(e)
            \/ \E m \in onAir : Verify(m)

-----------------------------------------------------------------------------

PowerOfTwo(n) == n \in {4, 8, 16, 32, 64}

\* A tick jumps only after a whole window of samples, all of them taken since
\* the jump before, and a jump leaves the channel. That the channel changes
\* rests on the number of channels: any other than a power of two maps several
\* positions to one channel, and three make every jump a full circle.
EvasionEscapes ==
  [][evasions' > evasions =>
       /\ EvasiveHop \/ samples = JammingDetectWindow
       /\ EvasiveHop /\ PowerOfTwo(channels) => ChannelAt(hopIndex') # ChannelAt(hopIndex)]_linkVars
=============================================================================
