-------------------------- MODULE LatentMeshIngress --------------------------
(***************************************************************************)
(* LatentMeshRxSession::ingest_decoded_frame up to reassembly: the ingress *)
(* slot of one source, which bounds the frames it accepts per window and   *)
(* the messages it reassembles at once.                                    *)
(*                                                                         *)
(* The reassembler is latentmesh_air_core's: known here is that it holds a *)
(* partial message per context, completes it with the last part, and fails *)
(* on a frame of another message or one beyond its limits; whether such a  *)
(* failure also drops what it held is left open.                           *)
(***************************************************************************)
EXTENDS Integers, FiniteSets, Functions

CONSTANTS Context,        \* (stream_id, wire sequence) of a message
          Content,        \* what tells messages of equal sequence apart
          Part,           \* fragments of a message
          NoPartial, NoTime,
          MaxContexts,    \* ReassemblerConfig::max_contexts
          Timeout,        \* RxConfig::reassembly_timeout_ms
          Window,         \* RxConfig::frame_window_ms
          MaxFrames,      \* RxConfig::max_frames_per_window
          MaxNow          \* bound on the clock

Partial == [content : Content, parts : SUBSET Part]

ASSUME IngressAssumption ==
  /\ IsFiniteSet(Context) /\ IsFiniteSet(Part)
  /\ NoPartial \notin Partial
  /\ NoTime \notin Nat
  /\ MaxContexts \in Nat \ {0} /\ MaxFrames \in Nat \ {0}
  /\ Timeout \in Nat \ {0} /\ Window \in Nat \ {0}
  /\ MaxNow \in Nat

VARIABLES inflight,      \* what the reassembler holds, by context
          started,       \* context_started_ms
          last,          \* last_received_ms
          windowStart,   \* window_started_ms
          frames,        \* frames_in_window
          now,           \* the clock frames are received at
          swept,         \* the last time expire_stale was called
          counted        \* history: frames counted at each time

slotVars == <<inflight, started, last, windowStart, frames>>
vars == <<slotVars, now, swept, counted>>

Frame == [context : Context, content : Content, part : Part]

TypeOK == /\ inflight \in [Context -> Partial \cup {NoPartial}]
          /\ \E C \in SUBSET Context : started \in [C -> Nat]
          /\ last \in Nat \cup {NoTime}
          /\ windowStart \in Nat
          /\ frames \in 0 .. MaxFrames
          /\ now \in Nat
          /\ swept \in Nat \cup {NoTime}
          /\ counted \in [0 .. MaxNow -> Nat]

\* The slot is made for the first frame of its source.
Init == /\ inflight = [c \in Context |-> NoPartial]
        /\ started = [c \in {} |-> 0]
        /\ last = NoTime
        /\ windowStart = 0
        /\ frames = 0
        /\ now = 0
        /\ swept = NoTime
        /\ counted = [t \in 0 .. MaxNow |-> 0]

-----------------------------------------------------------------------------

\* Mutant: a context lives one tick longer.
FreshForLonger(t) == {c \in DOMAIN started : t - started[c] <= Timeout + 1}

\* Contexts that are not past the reassembly timeout at t.
Fresh(t) == {c \in DOMAIN started : t - started[c] <= Timeout}

\* What the reassembler holds once the others are cleared.
Held(t) == [c \in Context |-> IF c \in DOMAIN started \ Fresh(t) THEN NoPartial
                              ELSE inflight[c]]

InOrder(t) == last # NoTime => t >= last

\* Mutant: every later frame opens a window.
WindowAlwaysOver(t) == last = NoTime \/ t > windowStart

\* PeerIngress::new opens the first window at the first frame.
WindowOver(t) == last = NoTime \/ t - windowStart >= Window
FramesBefore(t) == IF WindowOver(t) THEN 0 ELSE frames

\* A frame within the rate is counted whatever becomes of it.
CountFrame(t) ==
  /\ FramesBefore(t) < MaxFrames
  /\ frames' = FramesBefore(t) + 1
  /\ windowStart' = IF WindowOver(t) THEN t ELSE windowStart
  /\ last' = t
  /\ counted' = [counted EXCEPT ![t] = @ + 1]

\* Over the rate: contexts have been expired, the frame is not looked at.
RateLimited(t) ==
  /\ InOrder(t)
  /\ FramesBefore(t) >= MaxFrames
  /\ started' = Restrict(started, Fresh(t))
  /\ inflight' = Held(t)
  /\ UNCHANGED <<last, windowStart, frames, now, swept, counted>>

\* Mutant: a full reassembler makes room for the new message.
EvictForNew(f, t) ==
  /\ InOrder(t) /\ CountFrame(t)
  /\ Held(t)[f.context] = NoPartial
  /\ Cardinality(Fresh(t)) = MaxContexts
  /\ \E c \in Fresh(t) \ {f.context} :
       /\ inflight' = [Held(t) EXCEPT ![c] = NoPartial,
                         ![f.context] = [content |-> f.content, parts |-> {f.part}]]
       /\ started' = [k \in (Fresh(t) \ {c}) \cup {f.context} |->
                        IF k = f.context THEN t ELSE started[k]]
  /\ UNCHANGED <<now, swept>>

\* ReassemblyFull: no context is free for a new message.
ContextsFull(f, t) ==
  /\ InOrder(t) /\ CountFrame(t)
  /\ Held(t)[f.context] = NoPartial
  /\ Cardinality(Fresh(t)) = MaxContexts
  /\ started' = Restrict(started, Fresh(t))
  /\ inflight' = Held(t)
  /\ UNCHANGED <<now, swept>>

\* The first frame of a message: kept, unless it is all of it or the
\* reassembler refuses it.
StartMessage(f, t) ==
  /\ InOrder(t) /\ CountFrame(t)
  /\ Held(t)[f.context] = NoPartial
  /\ Cardinality(Fresh(t)) # MaxContexts
  /\ \/ /\ Part # {f.part}
        /\ inflight' = [Held(t) EXCEPT ![f.context] =
                          [content |-> f.content, parts |-> {f.part}]]
        /\ started' = [c \in Fresh(t) \cup {f.context} |->
                         IF c = f.context THEN t ELSE started[c]]
     \/ /\ inflight' = Held(t)
        /\ started' = Restrict(started, Fresh(t) \ {f.context})
  /\ UNCHANGED <<now, swept>>

\* Another frame of a message held in part; the last one completes it.
ContinueMessage(f, t) ==
  LET held == Held(t)[f.context]
      parts == held.parts \cup {f.part}
  IN  /\ InOrder(t) /\ CountFrame(t)
      /\ held # NoPartial
      /\ held.content = f.content
      /\ inflight' = [Held(t) EXCEPT ![f.context] =
                        IF parts = Part THEN NoPartial ELSE [held EXCEPT !.parts = parts]]
      /\ started' = Restrict(started, IF parts = Part THEN Fresh(t) \ {f.context}
                                      ELSE Fresh(t))
      /\ UNCHANGED <<now, swept>>

\* Mutant: a failed push always gives the context up.
ConflictUntracks(f, t) ==
  /\ InOrder(t) /\ CountFrame(t)
  /\ Held(t)[f.context] # NoPartial
  /\ \/ inflight' = Held(t)
     \/ inflight' = [Held(t) EXCEPT ![f.context] = NoPartial]
  /\ started' = Restrict(started, Fresh(t) \ {f.context})
  /\ UNCHANGED <<now, swept>>

\* A push that fails on a message held in part leaves its start time.
Conflict(f, t) ==
  /\ InOrder(t) /\ CountFrame(t)
  /\ Held(t)[f.context] # NoPartial
  /\ \/ inflight' = Held(t)
     \/ inflight' = [Held(t) EXCEPT ![f.context] = NoPartial]
  /\ started' = Restrict(started, Fresh(t))
  /\ UNCHANGED <<now, swept>>

\* expire_stale looks at peers only; swept is history.
ExpireStale == /\ swept' = now
               /\ UNCHANGED <<slotVars, now, counted>>

Tick == /\ now < MaxNow
        /\ now' = now + 1
        /\ UNCHANGED <<slotVars, swept, counted>>

\* Frames may be stamped a tick early: their clock may go back.
ReceiptTimes == {now, now - 1} \cap Nat

Receive(f, t) == \/ RateLimited(t)
                 \/ ContextsFull(f, t)
                 \/ StartMessage(f, t)
                 \/ ContinueMessage(f, t)
                 \/ Conflict(f, t)

Next == \/ \E f \in Frame, t \in ReceiptTimes : Receive(f, t)
        \/ ExpireStale
        \/ Tick

Spec == Init /\ [][Next]_vars

-----------------------------------------------------------------------------

InFlight == {c \in Context : inflight[c] # NoPartial}

\* Whatever fails, completes or times out, in which order: a message held in
\* part is one the timeout will find, and at most max_contexts are held.
InFlightBounded == /\ InFlight \subseteq DOMAIN started
                   /\ Cardinality(DOMAIN started) <= MaxContexts

\* Once a frame has been counted, nothing is held that was past its timeout.
NothingStaleAfterFrame ==
  last # NoTime => \A c \in InFlight : last - started[c] <= Timeout

\* Contexts are never evicted to make room: a step that gives up a message held
\* in part before its timeout gains nothing in any other context.
NoSilentEviction ==
  [][\A c \in InFlight :
       (inflight'[c] = NoPartial /\ now - started[c] <= Timeout) =>
         \A d \in Context \ {c} : inflight'[d] \in {inflight[d], NoPartial}]_vars

\* The window is a fixed one, so the frames of any span of its length are those
\* of at most two windows.
BurstBounded ==
  \A a \in 0 .. MaxNow :
    LET span == {t \in a .. MaxNow : t < a + Window}
    IN  SumFunctionOnSet(counted, span) <= 2 * MaxFrames

\* What the user guide says of expire_stale: it removes reassembly contexts.
ExpiryRemovesContexts ==
  swept # NoTime => \A c \in InFlight : swept - started[c] <= Timeout

=============================================================================
