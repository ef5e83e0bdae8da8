------------------------------ MODULE MavlinkCodec -----------------------------
(***************************************************************************)
(* The MAVLink messages of a drone's state and of a detection              *)
(* (src/src/integration/mavlink_messages.rs).  Readings become integers by *)
(* Rust's `as`: cut towards zero, held at the ends of the type, and zero   *)
(* if not a number; a wider integer loses its high bits.  A message's one  *)
(* coordinate stands for three, and speed for speed and heading.  It comes *)
(* with the state codec, to say of both what a peer reads of what it is    *)
(* sent.                                                                   *)
(***************************************************************************)
EXTENDS StateCodec

CONSTANTS Grain,           \* readings are in this part of a message's unit
          CoordinateMax,   \* i32::MAX, scaled down
          ByteMax,         \* u8::MAX, scaled down: what a full confidence is
          WordMax,         \* u16::MAX, scaled down
          TimeModulus      \* 2^32, scaled down

ASSUME MavlinkAssumption == {Grain, CoordinateMax, ByteMax, WordMax, TimeModulus}
                                \subseteq Nat \ {0}

VARIABLES subject,    \* the drone's state or the detection that was last sent
          message,    \* the message of it, and which one that is
          read        \* what was read of the message

mavlinkVars == <<subject, message, read>>

Unread == [read |-> FALSE]

\* A reading, or one that is not a number.
Reading(v) == [number |-> TRUE, value |-> v]
NaN == [number |-> FALSE, value |-> 0]

Cut(v) == IF v >= 0 THEN v \div Grain ELSE -((-v) \div Grain)

\* Mutant: what does not fit comes round.
WrappingCast(r, low, high) ==
  IF ~r.number THEN 0 ELSE low + ((Cut(r.value) - low) % (high - low + 1))

Cast(r, low, high) ==
  LET n == Cut(r.value)
  IN  IF ~r.number THEN 0 ELSE IF n < low THEN low ELSE IF n > high THEN high ELSE n

Coordinate(r) == Cast(r, -CoordinateMax - 1, CoordinateMax)
Byte(r) == Cast(r, 0, ByteMax)
Word(r) == Cast(r, 0, WordMax)
Time32(ms) == ms % TimeModulus

-----------------------------------------------------------------------------
(* SwarmNodeState: the payload has no room for speed, heading and time.    *)

FromDroneState(d, failsafe) ==
  [node_id |-> d.id, pos |-> Coordinate(d.position), link_quality |-> Byte(d.link),
   battery_10th_pct |-> Word(d.battery), speed |-> Word(d.speed), failsafe_state |-> failsafe, timestamp_ms |-> Time32(d.time)]

Payload == {"node_id", "pos", "link_quality", "battery_10th_pct", "failsafe_state"}

EncodeNodeState(m) == [f \in Payload |-> m[f]]

DecodeNodeState(payload) ==
  [f \in Payload \cup {"speed", "timestamp_ms"} |-> IF f \in Payload THEN payload[f] ELSE 0]

-----------------------------------------------------------------------------
(* SwarmCsiReport. *)

FromDetection(d) ==
  [node_id |-> d.id, confidence |-> Byte(d.confidence), has_position |-> d.located,
   victim |-> IF d.located THEN Coordinate(d.victim) ELSE 0, timestamp_ms |-> Time32(d.time)]

ToDetection(m) ==
  [id |-> m.node_id, confidence |-> Reading(m.confidence * Grain), located |-> m.has_position,
   victim |-> Reading(IF m.has_position THEN m.victim * Grain ELSE 0), time |-> m.timestamp_ms]

-----------------------------------------------------------------------------

Around(ends) == {Reading(v) : v \in UNION {(e * Grain - Grain) .. (e * Grain + Grain) : e \in ends}}
                  \cup {NaN}

Coordinates == Around({-CoordinateMax - 1, 0, CoordinateMax})
Bytes == Around({0, ByteMax})
Words == Around({0, WordMax})
Times == {0, TimeModulus - 1, TimeModulus, TimeModulus + 1}

MavlinkInit == /\ subject = Unread /\ read = Unread
               /\ message = [kind |-> "none"]

\* Nothing is kept from one message to the next: a behaviour has one.
Nothing == message.kind = "none"

BroadcastNodeState ==
  /\ Nothing
  /\ \E p \in Coordinates, l \in Bytes, b \in Words, t \in Times :
       LET d == [id |-> 1, position |-> p, link |-> l, battery |-> b,
                 speed |-> Reading(Grain), time |-> t]
       IN  /\ subject' = d
           /\ message' = [kind |-> "state", body |-> EncodeNodeState(FromDroneState(d, 4))]
  /\ UNCHANGED read

ReadNodeState == /\ message.kind = "state" /\ read = Unread
                 /\ read' = DecodeNodeState(message.body)
                 /\ UNCHANGED <<subject, message>>

ReportDetection ==
  /\ Nothing
  /\ \E c \in Bytes, v \in Coordinates, located \in BOOLEAN, t \in Times :
       LET d == [id |-> 1, confidence |-> c, located |-> located, victim |-> v, time |-> t]
       IN  /\ subject' = d
           /\ message' = [kind |-> "report", body |-> FromDetection(d)]
  /\ UNCHANGED read

ReadReport == /\ message.kind = "report" /\ read = Unread
              /\ read' = ToDetection(message.body)
              /\ UNCHANGED <<subject, message>>

MavlinkNext == BroadcastNodeState \/ ReadNodeState \/ ReportDetection \/ ReadReport

-----------------------------------------------------------------------------

\* All a reading can come back as.  One that is no number is zero.  One past an
\* end of the type is that end.  Any other is within a unit, and never farther
\* from zero than it was.
ReadsAs(unit, r, low, high) ==
  /\ ~r.number => unit = 0
  /\ r.number /\ r.value > high * Grain => unit = high
  /\ r.number /\ r.value < low * Grain => unit = low
  /\ r.number /\ r.value \in low * Grain .. high * Grain =>
       IF r.value >= 0 THEN r.value - unit * Grain \in 0 .. Grain - 1
                       ELSE unit * Grain - r.value \in 0 .. Grain - 1

\* Of a drone's state a peer reads who it is, where it is, how good its link and
\* how full its battery, to that measure: a position that is no number is the
\* origin, a battery that is none is empty, and none of them comes out on the
\* other side of zero.  Of its speed and of the time it reads nothing.
NodeStateReadsBack ==
  (message.kind = "state" /\ read # Unread) =>
    /\ read.node_id = subject.id
    /\ ReadsAs(read.pos, subject.position, -CoordinateMax - 1, CoordinateMax)
    /\ ReadsAs(read.link_quality, subject.link, 0, ByteMax)
    /\ ReadsAs(read.battery_10th_pct, subject.battery, 0, WordMax)
    /\ read.timestamp_ms = 0 /\ read.speed = 0

\* A detection is read where it was made, if it was made anywhere, to that
\* measure, and its confidence is: at most as sure as it was if that was from
\* none to full, and not sure at all if it was negative or no number.  Its time
\* is right in the first round of the clock and in no later one.
ReportReadsBack ==
  (message.kind = "report" /\ read # Unread) =>
    /\ read.located = subject.located
    /\ read.located => ReadsAs(read.victim.value \div Grain, subject.victim,
                               -CoordinateMax - 1, CoordinateMax)
    /\ ReadsAs(read.confidence.value \div Grain, subject.confidence, 0, ByteMax)
    /\ read.time = subject.time <=> subject.time < TimeModulus

MavlinkReadsBack == NodeStateReadsBack /\ ReportReadsBack

\* What a peer reads of what it is sent.  A LatentMesh state out of range is not
\* sent; one that is sent is read to half a step, or refused for the one heading
\* that rounds past a full turn.  A MAVLink message is always sent and always
\* read: what is out of range comes as the end of it, what is no number as zero.
CodecsAgree == CodecAgrees /\ MavlinkReadsBack
=============================================================================
