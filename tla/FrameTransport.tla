---------------------------- MODULE FrameTransport ----------------------------
(***************************************************************************)
(* What carries frames from one node to another                            *)
(* (src/src/latentmesh/transport.rs): a bounded channel within a process,  *)
(* or connected UDP sockets.  The way back is the same again.  A frame is  *)
(* its number and its length; a send on a full channel waits, which is a   *)
(* send that is not enabled.                                               *)
(***************************************************************************)
EXTENDS Integers, Sequences, SequencesExt, FiniteSets

CONSTANTS Capacities,      \* that bounded_channel_loopback is asked for
          MaxCapacity,     \* 4096, scaled down
          FrameMaxBytes,   \* FRAME_MAX_BYTES, scaled down
          MaxTransportSends

ASSUME TransportAssumption ==
  /\ Capacities \subseteq Nat
  /\ {MaxCapacity, FrameMaxBytes, MaxTransportSends} \subseteq Nat \ {0}

VARIABLES kind,            \* of transport; "none" if there is none to be had
          capacity,
          transit,         \* the frames under way
          open,            \* endpoints that were not dropped
          told,            \* a receive has failed as closed
          accepted,        \* history: the frames a send took
          taken            \* history: the frames receives returned, as they were buffered

transportVars == <<kind, capacity, transit, open, told, accepted, taken>>

Lengths == 1 .. FrameMaxBytes + 2

BoundedChannelLoopback(c) ==
  /\ capacity = c
  /\ kind = IF c \in 1 .. MaxCapacity THEN "channel" ELSE "none"

BindUdp == kind = "udp" /\ capacity = 0

TransportInit ==
  /\ BindUdp \/ \E c \in Capacities : BoundedChannelLoopback(c)
  /\ transit = <<>> /\ open = {"sender", "receiver"} /\ told = FALSE
  /\ accepted = <<>> /\ taken = <<>>

-----------------------------------------------------------------------------

ValidateFrameBound(length) == length <= FrameMaxBytes

Enqueued(length) ==
  LET frame == [number |-> Len(accepted) + 1, length |-> length]
  IN  /\ Len(accepted) < MaxTransportSends
      /\ transit' = Append(transit, frame) /\ accepted' = Append(accepted, frame)
      /\ UNCHANGED <<kind, capacity, open, told, taken>>

\* A frame that is too large, or a channel whose other end is gone, is an error
\* that changes nothing.
SendFrame ==
  /\ "sender" \in open /\ kind # "none"
  /\ kind = "channel" => "receiver" \in open /\ Len(transit) < capacity
  /\ \E length \in Lengths : ValidateFrameBound(length) /\ Enqueued(length)

\* What a peer that runs something else sends.
Datagram == kind = "udp" /\ \E length \in Lengths : Enqueued(length)

Lose ==
  /\ kind = "udp"
  /\ \E i \in DOMAIN transit : transit' = RemoveAt(transit, i)
  /\ UNCHANGED <<kind, capacity, open, told, accepted, taken>>

\* What is left of a datagram in the buffer it is received into.
Buffered(length) == IF length <= FrameMaxBytes + 1 THEN length ELSE FrameMaxBytes + 1

\* Datagrams overtake each other, a channel is in order.
ReceiveFrame ==
  /\ "receiver" \in open
  /\ \E i \in DOMAIN transit :
       /\ kind = "channel" => i = 1
       /\ transit' = RemoveAt(transit, i)
       /\ LET received == [transit[i] EXCEPT !.length = Buffered(@)]
          IN  taken' = IF ValidateFrameBound(received.length) THEN Append(taken, received)
                                                              ELSE taken
  /\ UNCHANGED <<kind, capacity, open, told, accepted>>

\* Mutant: a receive that looks at the other end before its queue.
GoneAtOnce == kind = "channel" /\ "sender" \notin open

Gone == kind = "channel" /\ "sender" \notin open /\ transit = <<>>

ReceiveClosed ==
  /\ "receiver" \in open /\ Gone
  /\ told' = TRUE
  /\ UNCHANGED <<kind, capacity, transit, open, accepted, taken>>

\* What was under way to an endpoint goes with it.
Drop(e) ==
  /\ e \in open /\ kind # "none"
  /\ open' = open \ {e}
  /\ transit' = IF e = "receiver" THEN <<>> ELSE transit
  /\ UNCHANGED <<kind, capacity, told, accepted, taken>>

TransportNext == \/ SendFrame \/ Datagram \/ Lose \/ ReceiveFrame \/ ReceiveClosed
                 \/ \E e \in open : Drop(e)

-----------------------------------------------------------------------------

\* A channel is told closed only to an end that has every frame the other was
\* told had gone, in the order they went, each within what the channel holds.
DrainedBeforeClosed ==
  kind = "channel" => /\ "receiver" \in open => taken \o transit = accepted
                      /\ Len(transit) <= MaxCapacity
                      /\ told => IsPrefix(accepted, taken)

\* Every frame that is taken is whole: none is what the operating system left of
\* a longer datagram.
TakenWhole == \A i \in DOMAIN taken : taken[i] = accepted[taken[i].number]

\* Over either transport, what is received is what was sent.
ReceivedAsSent == DrainedBeforeClosed /\ TakenWhole
=============================================================================
