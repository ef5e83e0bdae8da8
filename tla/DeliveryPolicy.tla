---------------------------- MODULE DeliveryPolicy ---------------------------
(***************************************************************************)
(* CapabilityGate and AdaptivePolicy (src/src/latentmesh/policy.rs): what  *)
(* may be sent, in which way and in which order, over a link that is       *)
(* measured now and then and a store of energy that sending draws on.      *)
(* Ratios are integers: loss in percent, weights doubled.                  *)
(***************************************************************************)
EXTENDS Integers, Sequences, SequencesExt

CONSTANTS Manifest,          \* nonzero manifest ids
          Intent,            \* message intents that get evaluated
          MaxAge,            \* TrafficClass::max_age_ms, by class
          ContextAgeLimit, MaxClockSkew, MaxLinkAge, MaxEvidenceAge,
          Reserve,           \* minimum_energy_reserve_mj
          MessageShare,      \* 1 / max_message_energy_fraction
          MinDensity,        \* minimum_utility_per_byte, in DensityUnit
          EnergyPerByte, BytesPerTick, Rtt,
          LossLevel,         \* packet losses a measurement finds
          FullEnergy, MaxClock

Authority == [ObserveOnly |-> 0, MissionCoordination |-> 1, FlightAuthority |-> 2]
MaxAuthority == Authority.MissionCoordination

\* All actuator commands are one: the gate treats them alike.
RequestedAction == {"Observe", "StateSync", "SnapshotRequest", "NonbindingAdvisory",
                    "CooperativeTaskProposal", "ActuatorCommand", "Unknown"}

AuthorizedCapability == RequestedAction \ {"ActuatorCommand", "Unknown"}

TrafficClass == {"CriticalCoordination", "CooperativeTask", "StateSync",
                 "SnapshotRequest", "Observation", "LearnedResidual", "BulkSnapshot"}

PriorityWeight == [CriticalCoordination |-> 16, CooperativeTask |-> 12, StateSync |-> 8,
                   SnapshotRequest |-> 6, Observation |-> 4, LearnedResidual |-> 3,
                   BulkSnapshot |-> 2]

SecurityContext == [authenticated : BOOLEAN, trusted : BOOLEAN, issued : Nat,
                    expires : Nat, authority : 0 .. 2]

\* Evidence of the offline harness for a learned residual, where there is any.
Evidence == [given : BOOLEAN, valid : BOOLEAN, evaluated : Nat, passed : BOOLEAN]

NoEvidence == [given |-> FALSE, valid |-> FALSE, evaluated |-> 0, passed |-> FALSE]

MessageIntent == [class : TrafficClass, action : RequestedAction, manifest : Manifest \cup {0},
                  bounded : BOOLEAN,       \* the proposal is within the gate's limits
                  valid : BOOLEAN,         \* every number of it is finite and in range
                  bytes : Nat \ {0}, utility : Nat,
                  encode : Nat,            \* encode_energy_mj
                  created : Nat, deadline : Nat,
                  security : SecurityContext,
                  residual : Evidence]

ASSUME DeliveryAssumption ==
  /\ 0 \notin Manifest
  /\ Intent \subseteq MessageIntent
  /\ MaxAge \in [TrafficClass -> Nat \ {0}]
  /\ {ContextAgeLimit, MaxClockSkew, MaxLinkAge, MaxEvidenceAge, Reserve, EnergyPerByte,
      MinDensity, Rtt, FullEnergy, MaxClock} \subseteq Nat
  /\ {MessageShare, BytesPerTick} \subseteq Nat \ {0}
  /\ LossLevel \subseteq 0 .. 100

VARIABLES approved,   \* approved_manifest_ids
          link,       \* the latest LinkSnapshot
          energy,     \* what is really left
          clock

deliveryVars == <<approved, link, energy, clock>>

LinkSnapshot == [observed : 0 .. MaxClock, loss : LossLevel, valid : BOOLEAN,
                 remaining : 0 .. FullEnergy]

DeliveryInit == /\ approved = {}
                /\ link \in [observed : {0}, loss : LossLevel, valid : BOOLEAN,
                             remaining : {FullEnergy}]
                /\ energy = FullEnergy
                /\ clock = 0

-----------------------------------------------------------------------------
(* CapabilityGate *)

Over(t, limit) == t - limit > 0

\* Neither from a future beyond the skew nor older than the limit.
Fresh(now, at, limit) == /\ at <= now + MaxClockSkew
                         /\ ~Over(now - at, limit)

ContextFresh(now, ctx) == /\ Fresh(now, ctx.issued, ContextAgeLimit)
                          /\ ctx.issued <= ctx.expires
                          /\ now <= ctx.expires

Ceiling(action) == IF action \in {"NonbindingAdvisory", "CooperativeTaskProposal"}
                   THEN Authority.MissionCoordination ELSE Authority.ObserveOnly

\* The reason of the first check that fails, or what all of them lead to.
FirstFailure(checks, otherwise) ==
  LET k == SelectInSeq(checks, LAMBDA c : c[1])
  IN  IF k = 0 THEN otherwise ELSE checks[k][2]

IsProposal(i) == i.action = "CooperativeTaskProposal"

GateChecks(now, i) ==
  << <<~i.security.authenticated, "Unauthenticated">>,
     <<~i.security.trusted, "UntrustedSource">>,
     <<i.security.authority > MaxAuthority, "ExcessiveAuthority">>,
     <<~ContextFresh(now, i.security), "StaleInput">>,
     <<IsProposal(i) /\ i.manifest \notin approved, "ManifestNotApproved">>,
     <<IsProposal(i) /\ ~i.bounded, "ProposalOutOfBounds">>,
     <<i.action = "Unknown", "UnknownAction">>,
     <<i.action = "ActuatorCommand", "ForbiddenAction">>,
     <<i.security.authority > Ceiling(i.action), "ExcessiveAuthority">> >>

Authorize(now, i) == FirstFailure(GateChecks(now, i), i.action)

-----------------------------------------------------------------------------
(* AdaptivePolicy *)

Permits(class, action) ==
  <<class, action>> \in
    {<<"CriticalCoordination", "NonbindingAdvisory">>,
     <<"CooperativeTask", "CooperativeTaskProposal">>, <<"StateSync", "StateSync">>,
     <<"SnapshotRequest", "SnapshotRequest">>, <<"Observation", "Observe">>,
     <<"LearnedResidual", "Observe">>, <<"BulkSnapshot", "Observe">>}

\* Learned residuals need evidence, and nothing else may carry any.
ResidualChecks(now, i) ==
  IF i.class # "LearnedResidual"
  THEN << <<i.residual.given, "TrafficClassMismatch">> >>
  ELSE << <<~i.residual.given, "ResidualNotValidated">>,
          <<~i.residual.valid, "InvalidMetric">>,
          <<~Fresh(now, i.residual.evaluated, MaxEvidenceAge) \/ ~i.residual.passed,
            "ResidualNotValidated">> >>

Consequential == {"CriticalCoordination", "CooperativeTask"}

LinkTooDegraded(loss, class) == loss >= 80 \/ (loss >= 65 /\ class \notin Consequential)

\* Mutant: a very bad link is no longer worth redundancy.
RedundancyGivesUp(loss) ==
  CASE loss >= 50              -> [copies |-> 1, parity |-> 0]
    [] loss \in 25 .. 49       -> [copies |-> 2, parity |-> 35]
    [] loss \in 10 .. 24       -> [copies |-> 1, parity |-> 20]
    [] OTHER                   -> [copies |-> 1, parity |-> 0]

Redundancy(loss) ==
  CASE loss >= 50              -> [copies |-> 3, parity |-> 50]
    [] loss \in 25 .. 49       -> [copies |-> 2, parity |-> 35]
    [] loss \in 10 .. 24       -> [copies |-> 1, parity |-> 20]
    [] OTHER                   -> [copies |-> 1, parity |-> 0]

AckMode(loss, class) ==
  IF class \in Consequential \/ loss >= 25 THEN "Required"
  ELSE IF class \in {"StateSync", "SnapshotRequest"} \/ loss >= 10 THEN "Opportunistic"
  ELSE "None"

CeilDiv(a, b) == (a + b - 1) \div b

\* Mutant: redundancy is not paid for.
BaseWireBytes(base, r) == base

ExpandedWireBytes(base, r) == CeilDiv(base * r.copies * (100 + r.parity), 100)

WireBytes(i, l) == ExpandedWireBytes(i.bytes, Redundancy(l.loss))

Latency(i, l) == CeilDiv(Rtt, 2) + CeilDiv(WireBytes(i, l), BytesPerTick)
                 + (IF AckMode(l.loss, i.class) = "Required" THEN Rtt ELSE 0)

\* What is drawn once the message is encoded and its copies are on the air.
Cost(i, l) == i.encode + CeilDiv(i.bytes * Redundancy(l.loss).copies
                        * (100 + Redundancy(l.loss).parity), 100) * EnergyPerByte

EstimatedEnergy(i, l) == i.encode + WireBytes(i, l) * EnergyPerByte

Available(l) == IF l.remaining > Reserve THEN l.remaining - Reserve ELSE 0

DensityUnit == 1000

\* Utility by priority and remaining freshness, for a byte on the air.
UtilityPerByte(i, l, now) ==
  LET age == IF now > i.created THEN now - i.created ELSE 0
      left == IF age > MaxAge[i.class] THEN 0 ELSE MaxAge[i.class] - age
  IN  (i.utility * PriorityWeight[i.class] * left * DensityUnit)
        \div (WireBytes(i, l) * MaxAge[i.class])

LinkChecks(now, l, i) ==
  << <<~l.valid \/ ~i.valid, "InvalidMetric">>,
     <<~Fresh(now, l.observed, MaxLinkAge), "StaleInput">>,
     <<i.deadline < i.created \/ ~Fresh(now, i.created, MaxAge[i.class]), "StaleInput">>,
     <<now > i.deadline, "DeadlineExpired">> >>

BudgetChecks(now, l, i) ==
  << <<LinkTooDegraded(l.loss, i.class), "LinkTooDegraded">>,
     <<now + Latency(i, l) > i.deadline, "DeadlineUnreachable">>,
     <<\/ EstimatedEnergy(i, l) > Available(l)
       \/ EstimatedEnergy(i, l) * MessageShare > l.remaining, "EnergyBudgetExceeded">>,
     <<UtilityPerByte(i, l, now) < MinDensity, "InsufficientUtility">> >>

\* A capability is a plan to send, everything else the reason of a drop.
Evaluate(now, l, i) ==
  FirstFailure(LinkChecks(now, l, i) \o GateChecks(now, i)
                 \o << <<~Permits(i.class, i.action), "TrafficClassMismatch">> >>
                 \o ResidualChecks(now, i) \o BudgetChecks(now, l, i),
               i.action)

IsSend(decision) == decision \in AuthorizedCapability

\* Sends before drops, by value, equals in the order they came.
Ranks(a, b) ==
  \/ IsSend(a.decision) /\ ~IsSend(b.decision)
  \/ IsSend(a.decision) /\ IsSend(b.decision) /\ a.density > b.density
  \/ /\ IsSend(a.decision) = IsSend(b.decision)
     /\ ~IsSend(a.decision) \/ a.density = b.density
     /\ a.index < b.index

\* The stable sort of the decisions on a list of intents.
Schedule(now, l, intents) ==
  LET places    == 1 .. Len(intents)
      decisions == { [index    |-> k,
                      decision |-> Evaluate(now, l, intents[k]),
                      density  |-> UtilityPerByte(intents[k], l, now)] : k \in places }
  IN  CHOOSE s \in [places -> decisions] : \A j, k \in places : j < k => Ranks(s[j], s[k])

-----------------------------------------------------------------------------

ApproveManifest(m) == /\ approved' = approved \cup {m}
                      /\ UNCHANGED <<link, energy, clock>>

RevokeManifest(m) == /\ approved' = approved \ {m}
                     /\ UNCHANGED <<link, energy, clock>>

\* The radio measures the link and what is left of the battery.
Measure == /\ \E loss \in LossLevel, valid \in BOOLEAN :
                link' = [observed |-> clock, loss |-> loss, valid |-> valid,
                         remaining |-> energy]
           /\ UNCHANGED <<approved, energy, clock>>

Drawn(S) == LET total == SumFunctionOnSet([i \in S |-> Cost(i, link)], S)
            IN  IF total > energy THEN energy ELSE total

\* evaluate_delivery for one message, which goes out if it may.
Deliver(i) == /\ IsSend(Evaluate(clock, link, i))
              /\ energy' = energy - Drawn({i})
              /\ UNCHANGED <<approved, link, clock>>

\* The same for the sends of one schedule.
DeliverBatch(S) == /\ \A i \in S : IsSend(Evaluate(clock, link, i))
                   /\ energy' = energy - Drawn(S)
                   /\ UNCHANGED <<approved, link, clock>>

ClockTick == /\ clock < MaxClock
             /\ clock' = clock + 1
             /\ UNCHANGED <<approved, link, energy>>

DeliveryNext == \/ \E m \in Manifest : ApproveManifest(m) \/ RevokeManifest(m)
                \/ Measure
                \/ \E i \in Intent : Deliver(i)
                \/ \E i, j \in Intent : i # j /\ DeliverBatch({i, j})
                \/ ClockTick

DeliverySpec == DeliveryInit /\ [][DeliveryNext]_deliveryVars

-----------------------------------------------------------------------------

\* A link that only loses more never lets a message through that the better
\* one stopped: what redundancy costs is always counted.
WorseLinkNeverHelps ==
  \A worse \in LossLevel :
    (link.valid /\ worse > link.loss) =>
      \A i \in Intent : IsSend(Evaluate(clock, [link EXCEPT !.loss = worse], i))
                          => IsSend(Evaluate(clock, link, i))

\* A schedule is its intents, each once, and whatever comes before something
\* else has a reason to.
ScheduleRanks ==
  link.valid => \A a, b \in Intent :
    LET s == Schedule(clock, link, <<a, b, a>>)
    IN  /\ {s[k].index : k \in 1 .. 3} = 1 .. 3
        /\ \A j, k \in 1 .. 3 :
             j < k => /\ IsSend(s[k].decision) => /\ IsSend(s[j].decision)
                                                  /\ s[j].density >= s[k].density
                      /\ ( \/ ~IsSend(s[j].decision)
                           \/ IsSend(s[k].decision) /\ s[j].density = s[k].density)
                         => s[j].index < s[k].index

\* Losses, copies, reserves, evidence and time are all in one decision: it gets
\* no better with the link getting worse, and a list of them is in its order.
DeliveryIsReasoned == WorseLinkNeverHelps /\ ScheduleRanks

\* One message sent on a measurement of what there is never touches the reserve
\* nor takes more than its share, with all its copies on the air.
SingleSendKeepsReserve ==
  [][\A i \in Intent :
       (energy' < energy /\ link.remaining = energy /\ Deliver(i)) =>
         /\ energy' >= Reserve
         /\ (energy - energy') * MessageShare <= energy]_deliveryVars

=============================================================================
