------------------------ MODULE LatentMeshIngressProofs ----------------------
(***************************************************************************)
(* Theorems about LatentMeshIngress, for every set of contexts, contents   *)
(* and parts and every limit and timeout.                                  *)
(***************************************************************************)
EXTENDS LatentMeshIngress, FoldLemmas

IInv == TypeOK /\ InFlightBounded /\ NothingStaleAfterFrame

LEMMA InitIInv == Init => IInv
<1> SUFFICES ASSUME Init PROVE IInv
  OBVIOUS
<1>1. DOMAIN started = {} /\ started \in [{} -> Nat]
  BY DEF Init
<1>2. TypeOK
  BY <1>1, IngressAssumption DEF Init, TypeOK
<1>3. InFlightBounded
  BY <1>1, FS_EmptySet, IngressAssumption DEF Init, InFlightBounded, InFlight
<1>4. NothingStaleAfterFrame
  BY DEF Init, NothingStaleAfterFrame
<1> QED
  BY <1>2, <1>3, <1>4 DEF IInv

-----------------------------------------------------------------------------
(* What a frame finds in the slot *)

\* The message a context holds in part is either the one it held before, still
\* within its timeout, or none.
LEMMA HeldIsFresh ==
  ASSUME IInv, NEW t \in Nat, NEW c \in Context
  PROVE  /\ Held(t)[c] \in {inflight[c], NoPartial}
         /\ Held(t)[c] \in Partial \cup {NoPartial}
         /\ Held(t)[c] # NoPartial => c \in Fresh(t)
         /\ (inflight[c] # NoPartial /\ c \in Fresh(t)) => Held(t)[c] = inflight[c]
  BY DEF IInv, TypeOK, InFlightBounded, InFlight, Held, Fresh

LEMMA StartedType ==
  ASSUME IInv
  PROVE  /\ DOMAIN started \in SUBSET Context
         /\ started \in [DOMAIN started -> Nat]
  BY DEF IInv, TypeOK

LEMMA FreshBounded ==
  ASSUME IInv, NEW t \in Nat
  PROVE  /\ Fresh(t) \in SUBSET DOMAIN started
         /\ \A C \in SUBSET Fresh(t) : /\ C \in SUBSET Context
                                       /\ IsFiniteSet(C)
                                       /\ Cardinality(C) \in Nat
                                       /\ Cardinality(C) <= MaxContexts
<1>1. DOMAIN started \in SUBSET Context
  BY StartedType
<1>2. IsFiniteSet(DOMAIN started) /\ Cardinality(DOMAIN started) <= MaxContexts
  BY <1>1, FS_Subset, IngressAssumption DEF IInv, InFlightBounded
<1>3. Cardinality(DOMAIN started) \in Nat
  BY <1>2, FS_CardinalityType
<1>4. Fresh(t) \in SUBSET DOMAIN started
  BY DEF Fresh
<1>5. ASSUME NEW C \in SUBSET Fresh(t)
      PROVE  /\ C \in SUBSET Context /\ IsFiniteSet(C)
             /\ Cardinality(C) \in Nat /\ Cardinality(C) <= MaxContexts
  <2>1. C \in SUBSET DOMAIN started /\ C \in SUBSET Context
    BY <1>1, <1>4
  <2>2. IsFiniteSet(C) /\ Cardinality(C) <= Cardinality(DOMAIN started)
    BY <1>2, <2>1, FS_Subset
  <2>3. Cardinality(C) \in Nat
    BY <2>2, FS_CardinalityType
  <2> QED
    BY <1>2, <1>3, <2>1, <2>2, <2>3, IngressAssumption
<1> QED
  BY <1>4, <1>5

-----------------------------------------------------------------------------
(* What a frame leaves in the slot *)

LEMMA CountType ==
  ASSUME NEW D, NEW count \in [D -> Nat], NEW t
  PROVE  [count EXCEPT ![t] = @ + 1] \in [D -> Nat]
<1> DEFINE more == [count EXCEPT ![t] = @ + 1]
<1>1. ASSUME NEW k \in D PROVE more[k] \in Nat
  <2>1. CASE k = t
    BY <1>1, <2>1
  <2>2. CASE k # t
    BY <1>1, <2>2
  <2> QED
    BY <2>1, <2>2
<1>2. more = [k \in D |-> more[k]]
  OBVIOUS
<1> HIDE DEF more
<1>3. more \in [D -> Nat]
  BY <1>1, <1>2
<1> QED
  BY <1>3 DEF more

\* The frame is counted, or over the rate: either way the contexts have been
\* expired at t, which is not before the last frame.
LEMMA FrameType ==
  ASSUME IInv, NEW t \in ReceiptTimes, InOrder(t),
         \/ CountFrame(t)
         \/ UNCHANGED <<last, windowStart, frames, counted>>,
         UNCHANGED <<now, swept>>
  PROVE  /\ last' \in Nat \cup {NoTime} /\ windowStart' \in Nat /\ frames' \in 0 .. MaxFrames
         /\ now' \in Nat /\ swept' \in Nat \cup {NoTime}
         /\ counted' \in [0 .. MaxNow -> Nat]
         /\ t \in Nat
         /\ last' # NoTime => last' <= t
<1>1. t \in Nat
  BY DEF ReceiptTimes
<1>2. CASE CountFrame(t)
  <2>1. FramesBefore(t) \in Nat /\ FramesBefore(t) < MaxFrames
    BY <1>2, IngressAssumption DEF CountFrame, FramesBefore, IInv, TypeOK
  <2>2. frames' \in 0 .. MaxFrames
    BY <1>2, <2>1, IngressAssumption DEF CountFrame
  <2>3. counted' \in [0 .. MaxNow -> Nat]
    BY <1>2, CountType DEF CountFrame, IInv, TypeOK
  <2> QED
    BY <1>1, <1>2, <2>2, <2>3 DEF CountFrame, IInv, TypeOK
<1>3. CASE UNCHANGED <<last, windowStart, frames, counted>>
  BY <1>1, <1>3 DEF InOrder, IInv, TypeOK
<1> QED
  BY <1>2, <1>3

LEMMA FrameIInv ==
  ASSUME IInv, NEW t \in ReceiptTimes, InOrder(t),
         \/ CountFrame(t)
         \/ UNCHANGED <<last, windowStart, frames, counted>>,
         UNCHANGED <<now, swept>>,
         inflight' \in [Context -> Partial \cup {NoPartial}],
         NEW C \in SUBSET Context, started' \in [C -> Nat],
         Cardinality(C) <= MaxContexts,
         \A c \in Context : inflight'[c] # NoPartial => c \in C /\ t - started'[c] <= Timeout
  PROVE  IInv'
<1>1. TypeOK'
  BY FrameType DEF TypeOK
<1>2. DOMAIN started' = C
  OBVIOUS
<1>3. InFlightBounded'
  BY <1>2 DEF InFlightBounded, InFlight
<1>4. ASSUME NEW c \in Context, inflight'[c] # NoPartial, last' # NoTime
      PROVE  last' - started'[c] <= Timeout
  <2>1. c \in C /\ t - started'[c] <= Timeout /\ started'[c] \in Nat
    BY <1>4
  <2>2. t \in Nat /\ last' \in Nat /\ last' <= t
    BY <1>4, FrameType
  <2> QED
    BY <2>1, <2>2, IngressAssumption
<1>5. NothingStaleAfterFrame'
  BY <1>4 DEF NothingStaleAfterFrame, InFlight
<1> QED
  BY <1>1, <1>3, <1>5 DEF IInv

\* A step that tracks no new context: some of the fresh ones stay, with at most
\* what they held.
LEMMA NoNewContextIInv ==
  ASSUME IInv, NEW t \in ReceiptTimes, InOrder(t),
         \/ CountFrame(t)
         \/ UNCHANGED <<last, windowStart, frames, counted>>,
         UNCHANGED <<now, swept>>,
         inflight' \in [Context -> Partial \cup {NoPartial}],
         NEW C \in SUBSET Fresh(t), started' = Restrict(started, C),
         \A c \in Context : inflight'[c] # NoPartial => c \in C
  PROVE  IInv'
<1>1. t \in Nat
  BY DEF ReceiptTimes
<1>2. C \in SUBSET Context /\ Cardinality(C) <= MaxContexts
  BY <1>1, FreshBounded
<1>3. started' = [c \in C |-> started[c]]
  BY DEF Restrict
<1>4. \A c \in C : started[c] \in Nat /\ t - started[c] <= Timeout
  BY StartedType DEF Fresh
<1>5. started' \in [C -> Nat]
  BY <1>3, <1>4
<1>6. \A c \in Context : inflight'[c] # NoPartial => c \in C /\ t - started'[c] <= Timeout
  BY <1>3, <1>4
<1> QED
  BY <1>2, <1>5, <1>6, FrameIInv

LEMMA ReceiveIInv ==
  ASSUME IInv, NEW f \in Frame, NEW t \in ReceiptTimes, Receive(f, t)
  PROVE  IInv'
<1>1. t \in Nat /\ f.context \in Context /\ f.content \in Content /\ f.part \in Part
  BY DEF ReceiptTimes, Frame
<1>2. [content |-> f.content, parts |-> {f.part}] \in Partial
  BY <1>1 DEF Partial
<1>3. Held(t) \in [Context -> Partial \cup {NoPartial}]
  BY <1>1, HeldIsFresh DEF Held
<1>4. \A c \in Context : Held(t)[c] # NoPartial => c \in Fresh(t)
  BY <1>1, HeldIsFresh
<1>5. CASE RateLimited(t)
  BY <1>3, <1>4, <1>5, NoNewContextIInv DEF RateLimited
<1>6. CASE ContextsFull(f, t)
  BY <1>3, <1>4, <1>6, NoNewContextIInv DEF ContextsFull
<1>7. CASE StartMessage(f, t)
  <2>1. CASE /\ inflight' = Held(t)
             /\ started' = Restrict(started, Fresh(t) \ {f.context})
    BY <1>1, <1>3, <1>4, <1>7, <2>1, NoNewContextIInv DEF StartMessage
  <2>2. CASE /\ inflight' = [Held(t) EXCEPT ![f.context] =
                               [content |-> f.content, parts |-> {f.part}]]
             /\ started' = [c \in Fresh(t) \cup {f.context} |->
                              IF c = f.context THEN t ELSE started[c]]
    <3> DEFINE C == Fresh(t) \cup {f.context}
    <3>1. /\ Fresh(t) \in SUBSET Context /\ IsFiniteSet(Fresh(t))
          /\ Cardinality(Fresh(t)) \in Nat /\ Cardinality(Fresh(t)) <= MaxContexts
      BY <1>1, FreshBounded
    <3>2. C \in SUBSET Context /\ Cardinality(C) <= MaxContexts
      <4>1. Cardinality(Fresh(t)) # MaxContexts
        BY <1>7 DEF StartMessage
      <4>2. Cardinality(C) \in {Cardinality(Fresh(t)), Cardinality(Fresh(t)) + 1}
        BY <3>1, FS_AddElement
      <4> QED
        BY <1>1, <3>1, <4>1, <4>2, IngressAssumption
    <3>3. \A c \in Fresh(t) : started[c] \in Nat /\ t - started[c] <= Timeout
      BY StartedType DEF Fresh
    <3>4. inflight' \in [Context -> Partial \cup {NoPartial}]
      BY <1>2, <1>3, <2>2
    <3>5. started' \in [C -> Nat]
      BY <1>1, <2>2, <3>3
    <3>6. \A c \in Context : inflight'[c] # NoPartial => c \in C /\ t - started'[c] <= Timeout
      BY <1>1, <1>3, <1>4, <2>2, <3>3, IngressAssumption
    <3> QED
      BY <1>7, <3>2, <3>4, <3>5, <3>6, FrameIInv DEF StartMessage
  <2> QED
    BY <1>7, <2>1, <2>2 DEF StartMessage
<1>8. CASE ContinueMessage(f, t)
  <2> DEFINE held == Held(t)[f.context]
             parts == held.parts \cup {f.part}
             kept == IF parts = Part THEN NoPartial ELSE [held EXCEPT !.parts = parts]
             C == IF parts = Part THEN Fresh(t) \ {f.context} ELSE Fresh(t)
  <2>1. held \in Partial
    BY <1>1, <1>3, <1>8 DEF ContinueMessage
  <2>2. [held EXCEPT !.parts = parts] \in Partial
    BY <1>1, <2>1 DEF Partial
  <2>3. /\ inflight' = [Held(t) EXCEPT ![f.context] = kept]
        /\ started' = Restrict(started, C)
        /\ held # NoPartial
    BY <1>8 DEF ContinueMessage
  <2>4. kept \in Partial \cup {NoPartial} /\ (kept = NoPartial <=> parts = Part)
    BY <2>2, IngressAssumption
  <2>5. f.context \in Fresh(t)
    BY <1>1, <1>4, <2>3
  <2> HIDE DEF kept, held, parts
  <2>6. inflight' \in [Context -> Partial \cup {NoPartial}]
    BY <1>3, <2>3, <2>4
  <2>7. \A c \in Context : inflight'[c] # NoPartial => c \in C
    BY <1>1, <1>3, <1>4, <2>3, <2>4, <2>5
  <2>8. C \in SUBSET Fresh(t)
    OBVIOUS
  <2> HIDE DEF C
  <2> QED
    BY <1>8, <2>3, <2>6, <2>7, <2>8, NoNewContextIInv DEF ContinueMessage
<1>9. CASE Conflict(f, t)
  <2>1. inflight' \in [Context -> Partial \cup {NoPartial}]
    BY <1>3, <1>9 DEF Conflict
  <2>2. \A c \in Context : inflight'[c] # NoPartial => c \in Fresh(t)
    BY <1>1, <1>3, <1>4, <1>9 DEF Conflict
  <2> QED
    BY <1>9, <2>1, <2>2, NoNewContextIInv DEF Conflict
<1> QED
  BY <1>5, <1>6, <1>7, <1>8, <1>9 DEF Receive

LEMMA NextIInv == IInv /\ [Next]_vars => IInv'
<1> SUFFICES ASSUME IInv, [Next]_vars PROVE IInv'
  OBVIOUS
<1> USE DEF IInv, TypeOK, InFlightBounded, InFlight, NothingStaleAfterFrame, slotVars
<1>1. ASSUME NEW f \in Frame, NEW t \in ReceiptTimes, Receive(f, t) PROVE IInv'
  BY <1>1, ReceiveIInv
<1>2. CASE ExpireStale
  BY <1>2 DEF ExpireStale
<1>3. CASE Tick
  BY <1>3 DEF Tick
<1>4. CASE UNCHANGED vars
  BY <1>4 DEF vars
<1> QED
  BY <1>1, <1>2, <1>3, <1>4 DEF Next

LEMMA SpecIInv == Spec => []IInv
  BY InitIInv, NextIInv, PTL DEF Spec

\* Every variable of the ingress slot keeps its type: a window counts at most
\* max_frames_per_window frames.
THEOREM IngressTypes == Spec => []TypeOK
<1>1. IInv => TypeOK
  BY DEF IInv
<1> QED
  BY <1>1, SpecIInv, PTL

\* Whatever completes, fails, conflicts or times out in ingest_decoded_frame, in
\* which order: what the reassembler holds has a start time that the timeout
\* will find, and at most max_contexts are tracked.
THEOREM ReassemblyBounded == Spec => []InFlightBounded
<1>1. IInv => InFlightBounded
  BY DEF IInv
<1> QED
  BY <1>1, SpecIInv, PTL

\* Once a frame has been counted, no message held in part is older than the
\* reassembly timeout was at that frame.
THEOREM StaleContextsGo == Spec => []NothingStaleAfterFrame
<1>1. IInv => NothingStaleAfterFrame
  BY DEF IInv
<1> QED
  BY <1>1, SpecIInv, PTL

-----------------------------------------------------------------------------
(* Eviction *)

KeepsItsTimeout(c) ==
  (inflight'[c] = NoPartial /\ now - started[c] <= Timeout) =>
     \A d \in Context \ {c} : inflight'[d] \in {inflight[d], NoPartial}

LEMMA NextEvictsNone ==
  ASSUME IInv, [Next]_vars, NEW c \in InFlight
  PROVE  KeepsItsTimeout(c)
<1> SUFFICES ASSUME inflight'[c] = NoPartial, now - started[c] <= Timeout,
                    NEW d \in Context, d # c
             PROVE  inflight'[d] \in {inflight[d], NoPartial}
  BY DEF KeepsItsTimeout
<1>1. c \in Context /\ inflight[c] # NoPartial /\ c \in DOMAIN started /\ started[c] \in Nat
  BY StartedType DEF InFlight, IInv, InFlightBounded
<1>2. ASSUME NEW f \in Frame, NEW t \in ReceiptTimes, Receive(f, t)
      PROVE  inflight'[d] \in {inflight[d], NoPartial}
  <2>1. t \in Nat /\ t <= now /\ now \in Nat
    BY DEF ReceiptTimes, IInv, TypeOK
  <2>2. c \in Fresh(t)
    BY <1>1, <2>1, IngressAssumption DEF Fresh
  <2>3. Held(t)[c] = inflight[c] /\ Held(t)[d] \in {inflight[d], NoPartial}
    BY <1>1, <2>1, <2>2, HeldIsFresh
  <2>4. Held(t)[c] # NoPartial /\ inflight'[c] # Held(t)[c]
    BY <1>1, <2>3
  <2>5. CASE inflight' = Held(t)
    BY <2>4, <2>5
  <2>6. ASSUME NEW x, inflight' = [Held(t) EXCEPT ![f.context] = x]
        PROVE  inflight'[d] \in {inflight[d], NoPartial}
    <3>1. f.context = c
      BY <1>1, <2>4, <2>6 DEF Held
    <3> QED
      BY <2>3, <2>6, <3>1 DEF Held
  <2> QED
    BY <1>2, <2>5, <2>6
       DEF Receive, RateLimited, ContextsFull, StartMessage, ContinueMessage, Conflict
<1>3. CASE ExpireStale \/ Tick \/ UNCHANGED vars
  BY <1>3 DEF ExpireStale, Tick, vars, slotVars
<1> QED
  BY <1>2, <1>3 DEF Next

\* No message held in part is given up before its timeout to make room for
\* another: ReassemblyFull refuses the newcomer instead.
THEOREM NothingIsEvicted == Spec => NoSilentEviction
<1>1. IInv /\ [Next]_vars => [\A c \in InFlight : KeepsItsTimeout(c)]_vars
  BY NextEvictsNone
<1> QED
  BY <1>1, SpecIInv, PTL DEF Spec, NoSilentEviction, KeepsItsTimeout
-----------------------------------------------------------------------------
(* Bursts: what is counted from a time on, and before another *)

Between(a, b) == {t \in 0 .. MaxNow : a <= t /\ t < b}
From(a) == {t \in 0 .. MaxNow : a <= t}
CountedIn(count, span) == SumFunctionOnSet(count, span)

\* The frames of the open window are those counted since it opened; of the ones
\* before, no window's length that reaches into it saw more than max_frames.
WindowsCount ==
  /\ now <= MaxNow
  /\ last = NoTime => windowStart = 0 /\ frames = 0
  /\ last # NoTime => last <= now /\ windowStart <= last /\ last - windowStart < Window
  /\ \A t \in 0 .. MaxNow : (last = NoTime \/ t > last) => counted[t] = 0
  /\ CountedIn(counted, From(windowStart)) = frames
  /\ \A a \in 0 .. MaxNow : (a < windowStart /\ windowStart < a + Window) =>
                               CountedIn(counted, Between(a, windowStart)) <= MaxFrames
  /\ \A a \in 0 .. MaxNow : a + Window <= windowStart =>
                               CountedIn(counted, Between(a, a + Window)) <= 2 * MaxFrames

BurstInv == TypeOK /\ WindowsCount

LEMMA Spans ==
  ASSUME NEW S \in SUBSET (0 .. MaxNow)
  PROVE  IsFiniteSet(S)
<1>1. IsFiniteSet(0 .. MaxNow)
  BY IngressAssumption, FS_Interval
<1> QED
  BY <1>1, FS_Subset

LEMMA Counts ==
  ASSUME counted \in [0 .. MaxNow -> Nat], NEW S \in SUBSET (0 .. MaxNow)
  PROVE  CountedIn(counted, S) \in Nat /\ \A R \in SUBSET S : CountedIn(counted, R) <= CountedIn(counted, S)
<1>1. IsFiniteSet(S) /\ \A t \in S : counted[t] \in Nat
  BY Spans
<1> QED
  BY <1>1, SumNat, SumMonotone DEF CountedIn

\* WindowsCount bounds every window's length.
LEMMA BurstFollows ==
  ASSUME TypeOK, WindowsCount
  PROVE  BurstBounded
<1>1. SUFFICES \A a \in 0 .. MaxNow :
                 CountedIn(counted, Between(a, a + Window)) <= 2 * MaxFrames
  <2>1. \A a \in 0 .. MaxNow : {t \in a .. MaxNow : t < a + Window} = Between(a, a + Window)
    BY IngressAssumption DEF Between
  <2> QED
    BY <2>1 DEF BurstBounded, CountedIn
<1> SUFFICES ASSUME NEW a \in 0 .. MaxNow
             PROVE  CountedIn(counted, Between(a, a + Window)) <= 2 * MaxFrames
  OBVIOUS
<1> DEFINE b == a + Window
           S == Between(a, b)
<1>2. counted \in [0 .. MaxNow -> Nat] /\ windowStart \in Nat /\ frames \in Nat /\ frames <= MaxFrames
      /\ MaxFrames \in Nat /\ Window \in Nat
  BY IngressAssumption DEF TypeOK
<1>3. S \in SUBSET (0 .. MaxNow) /\ From(windowStart) \in SUBSET (0 .. MaxNow)
  BY DEF Between, From
<1>4. CountedIn(counted, From(windowStart)) = frames /\ CountedIn(counted, S) \in Nat
  BY <1>2, <1>3, Counts DEF WindowsCount
<1>5. CASE b <= windowStart
  BY <1>5 DEF WindowsCount
<1>6. CASE windowStart <= a
  <2>1. S \in SUBSET From(windowStart)
    BY <1>2, <1>6 DEF Between, From
  <2>2. CountedIn(counted, S) <= frames
    BY <1>2, <1>3, <1>4, <2>1, Counts
  <2> QED
    BY <1>2, <1>4, <2>2
<1>7. CASE a < windowStart /\ windowStart < b
  <2> DEFINE A == Between(a, windowStart)
             B == Between(windowStart, b)
  <2>1. S = A \cup B /\ A \cap B = {} /\ B \in SUBSET From(windowStart)
        /\ A \in SUBSET (0 .. MaxNow) /\ B \in SUBSET (0 .. MaxNow)
    BY <1>2, <1>7 DEF Between, From
  <2>2. CountedIn(counted, A) <= MaxFrames
    BY <1>7 DEF WindowsCount
  <2>3. CountedIn(counted, B) <= frames
    BY <1>2, <1>3, <1>4, <2>1, Counts
  <2>4. CountedIn(counted, S) = CountedIn(counted, A) + CountedIn(counted, B)
    <3>1. IsFiniteSet(A) /\ IsFiniteSet(B) /\ \A t \in A \cup B : counted[t] \in Int
      BY <1>2, <2>1, Spans
    <3> HIDE DEF A, B, S
    <3> QED
      BY <2>1, <3>1, SumDisjoint DEF CountedIn
  <2>5. CountedIn(counted, A) \in Nat /\ CountedIn(counted, B) \in Nat
    BY <1>2, <2>1, Counts
  <2> HIDE DEF A, B, S
  <2>6. CountedIn(counted, S) <= 2 * MaxFrames
    BY <1>2, <2>2, <2>3, <2>4, <2>5
  <2> QED
    BY <2>6 DEF S
<1> QED
  BY <1>2, <1>5, <1>6, <1>7

LEMMA InitBursts == Init => BurstInv
<1> SUFFICES ASSUME Init PROVE BurstInv
  OBVIOUS
<1>1. TypeOK
  BY InitIInv DEF IInv
<1>2. From(0) \in SUBSET (0 .. MaxNow) /\ \A t \in 0 .. MaxNow : counted[t] = 0
  BY DEF Init, From
<1>3. CountedIn(counted, From(0)) = 0
  BY <1>2, Spans, SumZero DEF CountedIn
<1>4. WindowsCount
  BY <1>2, <1>3, IngressAssumption DEF WindowsCount, Init
<1> QED
  BY <1>1, <1>4 DEF BurstInv

\* What a frame counted at t adds to.
LEMMA CountedThen ==
  ASSUME counted \in [0 .. MaxNow -> Nat], NEW t, CountFrame(t),
         NEW S \in SUBSET (0 .. MaxNow)
  PROVE  CountedIn(counted', S) = CountedIn(counted, S) + (IF t \in S THEN 1 ELSE 0)
<1>1. IsFiniteSet(S) /\ \A k \in S : counted[k] \in Int
  BY Spans
<1>2. \A k \in S : counted'[k] = IF k = t THEN counted[k] + 1 ELSE counted[k]
  BY DEF CountFrame
<1>3. SumFunctionOnSet(counted', S) =
        SumFunctionOnSet(counted, S) + (IF t \in S THEN 1 ELSE 0)
  <2> DEFINE more == counted'
  <2>1. \A k \in S : more[k] = IF k = t THEN counted[k] + 1 ELSE counted[k]
    BY <1>2
  <2> HIDE DEF more
  <2>2. 1 \in Int
    OBVIOUS
  <2>3. SumFunctionOnSet(more, S) =
          SumFunctionOnSet(counted, S) + (IF t \in S THEN 1 ELSE 0)
    BY <1>1, <2>1, <2>2, SumBumped
  <2> QED
    BY <2>3 DEF more
<1> QED
  BY <1>3 DEF CountedIn

LEMMA CountKeepsWindows ==
  ASSUME BurstInv, NEW t \in ReceiptTimes, InOrder(t), CountFrame(t), now' = now
  PROVE  WindowsCount'
<1>1. /\ t \in Nat /\ t <= now /\ now \in Nat /\ now <= MaxNow /\ t \in 0 .. MaxNow
      /\ counted \in [0 .. MaxNow -> Nat] /\ windowStart \in Nat /\ frames \in Nat
      /\ frames <= MaxFrames /\ MaxFrames \in Nat /\ Window \in Nat \ {0} /\ MaxNow \in Nat
      /\ last # NoTime => last \in Nat /\ last <= t
      /\ last' = t /\ t # NoTime
  BY IngressAssumption DEF ReceiptTimes, BurstInv, TypeOK, WindowsCount, InOrder, CountFrame
<1>2. \A k \in 0 .. MaxNow : k > t => counted[k] = 0 /\ counted'[k] = 0
  BY <1>1 DEF BurstInv, WindowsCount, CountFrame
<1>3. \A a, b : /\ Between(a, b) \in SUBSET (0 .. MaxNow)
                /\ From(a) \in SUBSET (0 .. MaxNow)
  BY DEF Between, From
<1>4. ASSUME NEW a \in Nat, NEW b \in Nat, b <= t
      PROVE  CountedIn(counted', Between(a, b)) = CountedIn(counted, Between(a, b))
  <2>1. t \notin Between(a, b)
    BY <1>1, <1>4 DEF Between
  <2>2. CountedIn(counted, Between(a, b)) \in Nat
    BY <1>1, <1>3, Counts
  <2>3. CountedIn(counted', Between(a, b)) = CountedIn(counted, Between(a, b)) + 0
    BY <1>1, <1>3, <2>1, CountedThen
  <2> QED
    BY <2>2, <2>3
<1>5. CASE ~WindowOver(t)
  <2>1. /\ windowStart' = windowStart /\ frames' = frames + 1 /\ last # NoTime
        /\ t - windowStart < Window /\ windowStart <= t
    BY <1>1, <1>5 DEF CountFrame, WindowOver, FramesBefore, BurstInv, WindowsCount
  <2>2. t \in From(windowStart)
    BY <1>1, <2>1 DEF From
  <2>3. CountedIn(counted', From(windowStart)) = frames + 1
    BY <1>1, <1>3, <2>2, CountedThen DEF BurstInv, WindowsCount
  <2>4. \A a \in 0 .. MaxNow : (a < windowStart /\ windowStart < a + Window) =>
                                CountedIn(counted', Between(a, windowStart)) <= MaxFrames
    BY <1>1, <1>4, <2>1 DEF BurstInv, WindowsCount
  <2>5. \A a \in 0 .. MaxNow : a + Window <= windowStart =>
                                CountedIn(counted', Between(a, a + Window)) <= 2 * MaxFrames
    <3>1. \A a \in 0 .. MaxNow : a + Window <= windowStart =>
                                  a \in Nat /\ a + Window \in Nat /\ a + Window <= t
      BY <1>1, <2>1
    <3> QED
      BY <1>4, <3>1 DEF BurstInv, WindowsCount
  <2> QED
    BY <1>1, <1>2, <2>1, <2>3, <2>4, <2>5 DEF WindowsCount
<1>6. CASE WindowOver(t)
  <2>1. windowStart' = t /\ frames' = 1
    BY <1>6 DEF CountFrame, FramesBefore
  <2>2. last = NoTime \/ last < t
    BY <1>1, <1>6 DEF WindowOver, BurstInv, WindowsCount
  <2>3. \A k \in From(t) : counted[k] = 0
    BY <1>1, <2>2 DEF From, BurstInv, WindowsCount
  <2>4. CountedIn(counted, From(t)) = 0
    BY <1>3, <2>3, Spans, SumZero DEF CountedIn
  <2>5. CountedIn(counted', From(t)) = 1
    <3>1. t \in From(t)
      BY <1>1 DEF From
    <3>2. CountedIn(counted', From(t)) = CountedIn(counted, From(t)) + 1
      BY <1>1, <1>3, <3>1, CountedThen
    <3> QED
      BY <2>4, <3>2
  <2>6. ASSUME NEW a \in 0 .. MaxNow, a < t, t < a + Window
        PROVE  CountedIn(counted', Between(a, t)) <= MaxFrames
    <3>1. CountedIn(counted', Between(a, t)) = CountedIn(counted, Between(a, t))
      BY <1>1, <1>4
    <3>2. CASE last = NoTime
      <4>1. \A k \in Between(a, t) : counted[k] = 0
        BY <3>2 DEF Between, BurstInv, WindowsCount
      <4>2. CountedIn(counted, Between(a, t)) = 0
        BY <1>3, <4>1, Spans, SumZero DEF CountedIn
      <4> QED
        BY <1>1, <3>1, <4>2
    <3>3. CASE last # NoTime
      <4>1. windowStart <= a
        BY <1>1, <1>6, <2>6, <3>3 DEF WindowOver
      <4>2. Between(a, t) \in SUBSET From(windowStart)
        BY <1>1, <4>1 DEF Between, From
      <4>3. CountedIn(counted, Between(a, t)) <= CountedIn(counted, From(windowStart))
        BY <1>1, <1>3, <4>2, Counts
      <4>4. CountedIn(counted, Between(a, t)) \in Nat
        BY <1>1, <1>3, Counts
      <4> QED
        BY <1>1, <3>1, <4>3, <4>4 DEF BurstInv, WindowsCount
    <3> QED
      BY <3>2, <3>3
  <2>7. ASSUME NEW a \in 0 .. MaxNow, a + Window <= t
        PROVE  CountedIn(counted', Between(a, a + Window)) <= 2 * MaxFrames
    <3>1. CountedIn(counted', Between(a, a + Window)) = CountedIn(counted, Between(a, a + Window))
      BY <1>1, <1>4, <2>7
    <3>2. {k \in a .. MaxNow : k < a + Window} = Between(a, a + Window)
      BY <1>1 DEF Between
    <3>3. BurstBounded
      BY BurstFollows DEF BurstInv
    <3> QED
      BY <3>1, <3>2, <3>3 DEF BurstBounded, CountedIn
  <2>8. last' # NoTime /\ last' <= now' /\ windowStart' <= last' /\ last' - windowStart' < Window
    BY <1>1, <2>1
  <2> QED
    BY <1>1, <1>2, <2>1, <2>5, <2>6, <2>7, <2>8 DEF WindowsCount
<1> QED
  BY <1>5, <1>6

LEMMA NextBursts == IInv /\ BurstInv /\ [Next]_vars => BurstInv'
<1> SUFFICES ASSUME IInv, BurstInv, [Next]_vars PROVE BurstInv'
  OBVIOUS
<1>1. TypeOK'
  BY NextIInv DEF IInv
<1>2. ASSUME NEW f \in Frame, NEW t \in ReceiptTimes, Receive(f, t) PROVE WindowsCount'
  <2>1. CASE RateLimited(t)
    BY <2>1 DEF RateLimited, BurstInv, WindowsCount
  <2>2. CASE InOrder(t) /\ CountFrame(t) /\ now' = now
    BY <2>2, CountKeepsWindows
  <2> QED
    BY <1>2, <2>1, <2>2 DEF Receive, ContextsFull, StartMessage, ContinueMessage, Conflict
<1>3. CASE ExpireStale
  BY <1>1, <1>3 DEF ExpireStale, slotVars, BurstInv, WindowsCount
<1>4. CASE Tick
  BY <1>4, IngressAssumption DEF Tick, slotVars, BurstInv, TypeOK, WindowsCount
<1>5. CASE UNCHANGED vars
  BY <1>1, <1>5 DEF vars, slotVars, BurstInv, WindowsCount
<1> QED
  BY <1>1, <1>2, <1>3, <1>4, <1>5 DEF Next, BurstInv

\* The window of PeerIngress is fixed, not sliding, and receipt clocks stand
\* still or go back: in no span of frame_window_ms are more than twice
\* max_frames_per_window frames of one source looked at.
THEOREM BurstsAreBounded == Spec => []BurstBounded
<1>1. IInv /\ BurstInv => BurstBounded
  BY BurstFollows DEF BurstInv
<1> QED
  BY <1>1, InitBursts, NextBursts, SpecIInv, PTL DEF Spec

=============================================================================
