------------------------------- MODULE StateCodec ------------------------------
(***************************************************************************)
(* to_critical_state and from_critical_state (src/src/latentmesh/state.rs):*)
(* telemetry becomes a set of numbered fixed-point symbols and comes back. *)
(* One quantity stands for those that are treated alike: position.x for    *)
(* positions and velocities, battery_pct for link_quality.                 *)
(***************************************************************************)
EXTENDS Integers

CONSTANTS Part,            \* readings are in this part of a Q16.16 step
          QMax,            \* i32::MAX, scaled down
          HeadingLimit,    \* two pi, in readings: no whole number of steps
          BatteryLimit,    \* a hundred percent, in steps
          MaxNodeId        \* u32::MAX, scaled down

ASSUME CodecAssumption ==
  /\ {Part, QMax, HeadingLimit, BatteryLimit, MaxNodeId} \subseteq Nat \ {0}
  /\ HeadingLimit < QMax * Part /\ BatteryLimit < QMax

VARIABLES frame,           \* the critical state on the air
          sent,            \* history: the telemetry frame was made of
          peer             \* what the receiver makes of it

codecVars == <<frame, sent, peer>>

Quantity == {"position.x", "heading_rad", "altitude_agl_m", "battery_pct"}
REQUIRED_FIELDS == Quantity \cup {"schema_version", "node_id", "failsafe_state"}

FailSafeCode == 0 .. 6

Lowest == [q \in Quantity |-> CASE q = "position.x"  -> -(QMax + 1) * Part
                                [] q = "heading_rad" -> -HeadingLimit
                                [] OTHER             -> 0]
Highest == [q \in Quantity |-> CASE q = "heading_rad" -> HeadingLimit
                                 [] q = "battery_pct" -> BatteryLimit * Part
                                 [] OTHER             -> QMax * Part]

\* A reading that is not finite is in no range.
InRange(q, v) == v >= Lowest[q] /\ v <= Highest[q]

ValidateDomainRanges(d) == \A q \in Quantity : InRange(q, d[q])

\* f64::round: half a step goes away from zero.
Rounded(v) == IF v >= 0 THEN (2 * v + Part) \div (2 * Part)
                        ELSE -((Part - 2 * v) \div (2 * Part))

U64(n) == [kind |-> "U64", value |-> n]
Q16(n) == [kind |-> "Q16_16", value |-> n]

None == [refused |-> TRUE]

ToCriticalState(d) ==
  IF ~ValidateDomainRanges(d) THEN None
  ELSE [f \in REQUIRED_FIELDS |->
          CASE f \in Quantity         -> Q16(Rounded(d[f]))
            [] f = "schema_version"   -> U64(1)
            [] f = "node_id"          -> U64(d.node_id)
            [] f = "failsafe_state"   -> U64(d.failsafe_state)]

ValidateFieldSet(s) == DOMAIN s = REQUIRED_FIELDS

WellFormed(s) ==
  /\ ValidateFieldSet(s)
  /\ \A q \in Quantity : s[q].kind = "Q16_16"
  /\ \A f \in REQUIRED_FIELDS \ Quantity : s[f].kind = "U64"
  /\ s["schema_version"].value = 1
  /\ s["node_id"].value <= MaxNodeId
  /\ s["failsafe_state"].value \in FailSafeCode

Snapshot(s) == [f \in REQUIRED_FIELDS \ {"schema_version"} |->
                  IF f \in Quantity THEN s[f].value * Part ELSE s[f].value]

FromCriticalState(s) ==
  IF WellFormed(s) /\ ValidateDomainRanges(Snapshot(s)) THEN Snapshot(s) ELSE None

-----------------------------------------------------------------------------

AtRest == [f \in REQUIRED_FIELDS \ {"schema_version"} |-> 0]

CodecInit == frame = None /\ sent = None /\ peer = None

\* Every reading around the ends of its range and around zero.
Readings(q) == UNION {(end - Part) .. (end + Part) : end \in {Lowest[q], 0, Highest[q]}}

Encode(d) == /\ ToCriticalState(d) # None
             /\ frame' = ToCriticalState(d)
             /\ sent' = d
             /\ peer' = None

EncodeTelemetry == \/ \E q \in Quantity : \E v \in Readings(q) : Encode([AtRest EXCEPT ![q] = v])
                   \/ \E c \in FailSafeCode : Encode([AtRest EXCEPT !["failsafe_state"] = c])

\* A peer of another version, or one that is not this program, signs as well.
Foreign(s) ==
  \/ \E f \in DOMAIN s : frame' = [g \in DOMAIN s \ {f} |-> s[g]]
  \/ frame' = [g \in DOMAIN s \cup {"residual"} |-> IF g = "residual" THEN U64(0) ELSE s[g]]
  \/ \E f \in DOMAIN s, v \in {-1, 2, 7, MaxNodeId + 1, QMax} :
       frame' = [s EXCEPT ![f] = [@ EXCEPT !.value = v]]
  \/ \E f \in DOMAIN s : frame' = [s EXCEPT ![f] = IF @.kind = "U64" THEN Q16(@.value)
                                                                   ELSE U64(@.value)]

ForeignFrame == /\ Foreign(ToCriticalState(AtRest))
                /\ sent' = None
                /\ peer' = None

Decode == /\ frame # None
          /\ peer' = FromCriticalState(frame)
          /\ UNCHANGED <<frame, sent>>

CodecNext == EncodeTelemetry \/ ForeignFrame \/ Decode

-----------------------------------------------------------------------------

\* A heading this close to a full turn rounds to more than one.
RoundsPastFullTurn(v) == LET a == IF v < 0 THEN -v ELSE v
                         IN  Rounded(a) * Part > HeadingLimit

HalfStepApart(a, b) == 2 * (a - b) <= Part /\ 2 * (b - a) <= Part

\* What a drone can send its peers can read, every quantity to half a step and
\* the fail-safe state exactly.  The one exception is a heading that rounds past
\* a full turn, which the sender signs and every receiver refuses.
SentIsReadClosely ==
  (frame # None /\ sent # None) =>
    LET seen == FromCriticalState(frame)
    IN  \/ RoundsPastFullTurn(sent["heading_rad"])
        \/ /\ seen # None
           /\ \A q \in Quantity : HalfStepApart(seen[q], sent[q])
           /\ seen["failsafe_state"] = sent["failsafe_state"]

\* Whoever sent it: what a receiver accepts it could have sent itself, as it is.
AcceptedIsCanonical ==
  (frame # None /\ FromCriticalState(frame) # None) =>
    ToCriticalState(FromCriticalState(frame)) = frame

\* Both ways: sender and receiver have one notion of a well-formed state.
CodecAgrees == SentIsReadClosely /\ AcceptedIsCanonical
=============================================================================
