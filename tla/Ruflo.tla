--------------------------------- MODULE Ruflo ---------------------------------
(***************************************************************************)
(* The RuFlo hooks of one orchestrator (src/src/orchestrator/mod.rs) over  *)
(* a RufloBackend (src/src/ruflo/): trajectories, mission memory, learned  *)
(* patterns and the safety check of peer detections.  The daemon behind    *)
(* the HTTP backend is external: a call may fail before or after it took   *)
(* effect, as its answer may come late or not be understood.               *)
(***************************************************************************)
EXTENDS Integers, FiniteSets

CONSTANTS MaxTrajectories,   \* bound on what the daemon starts
          MaxMissions,       \* bound on missions finished
          Outcomes           \* of missions: [coverage, collisions]

ASSUME RufloAssumption ==
  /\ {MaxTrajectories, MaxMissions} \subseteq Nat
  /\ Outcomes \subseteq [coverage : 0 .. 100, collisions : Nat]

VARIABLES trajectoryId,      \* of the orchestrator
          started,           \* how many trajectories the daemon has begun
          ended,             \* how often it was told to end each
          patterns,          \* confidences the daemon learned
          finished,          \* history: outcomes finish_trajectory was called for
          unsafeQueued       \* an unsafe detection waits for the next step

rufloVars == <<trajectoryId, started, ended, patterns, finished, unsafeQueued>>

NoTrajectory == 0
UnknownTrajectory == -1     \* the answer names none
RufloError == -2
Trajectory == 1 .. MaxTrajectories

RufloInit == /\ trajectoryId = NoTrajectory
             /\ started = 0
             /\ ended = [t \in Trajectory |-> 0]
             /\ patterns = {} /\ finished = {}
             /\ unsafeQueued = FALSE

-----------------------------------------------------------------------------
(* RufloBackend *)

\* A call takes effect or not, and is answered or not; nobody asks again.
CallTool == [done : BOOLEAN, answered : BOOLEAN]
Succeeds(call) == call.done /\ call.answered

StartAnswers(call) == IF Succeeds(call) THEN {started + 1, UnknownTrajectory}
                      ELSE {RufloError}

TrajectoryEnd(t, call) ==
  IF call.done /\ t \in Trajectory THEN [ended EXCEPT ![t] = @ + 1] ELSE ended

StorePattern(confidence, call) ==
  IF call.done THEN patterns \cup {confidence} ELSE patterns

\* An answer that does not tell counts as safe.
SafeAnswers(safe, call) ==
  IF Succeeds(call) THEN {IF safe THEN "safe" ELSE "unsafe", "safe"} ELSE {"error"}

\* MissionSummary::pattern_confidence in percent; the orchestrator gives no
\* total of victims, which counts as half of them found.
PatternConfidence(outcome) ==
  LET penalty == IF outcome.collisions > 5 THEN 50 ELSE 10 * outcome.collisions
      score   == (50 + outcome.coverage) \div 2 - penalty
  IN  IF score < 0 THEN 0 ELSE score

-----------------------------------------------------------------------------
(* SwarmOrchestrator *)

\* A start that fails leaves the id of the one before.
StartTrajectory ==
  /\ started < MaxTrajectories
  /\ \E call \in CallTool : \E answer \in StartAnswers(call) :
       /\ started' = IF call.done THEN started + 1 ELSE started
       /\ trajectoryId' = IF answer = RufloError THEN trajectoryId ELSE answer
  /\ UNCHANGED <<ended, patterns, finished, unsafeQueued>>

\* Mutant: the id is only given up once the daemon has confirmed the end.
KeptUntilAnswered(call) == IF Succeeds(call) THEN NoTrajectory ELSE trajectoryId

Taken(call) == NoTrajectory

\* Ends the trajectory if there is one, and stores what was learned in any case:
\* each call's failure is ignored.
FinishTrajectory(outcome) ==
  /\ Cardinality(finished) < MaxMissions
  /\ \E end, store \in CallTool :
       /\ trajectoryId' = Taken(end)
       /\ ended' = TrajectoryEnd(trajectoryId, end)
       /\ patterns' = StorePattern(PatternConfidence(outcome), store)
  /\ finished' = finished \cup {outcome}
  /\ UNCHANGED <<started, unsafeQueued>>

\* receive_peer_detection_checked lets a detection through unless told not to.
ReceivePeerDetectionChecked(safe) ==
  /\ \E call \in CallTool : \E answer \in SafeAnswers(safe, call) :
       unsafeQueued' = (unsafeQueued \/ (~safe /\ answer # "unsafe"))
  /\ UNCHANGED <<trajectoryId, started, ended, patterns, finished>>

\* The control step clears what was queued.
ClearDetections == /\ unsafeQueued
                   /\ unsafeQueued' = FALSE
                   /\ UNCHANGED <<trajectoryId, started, ended, patterns, finished>>

RufloNext == \/ StartTrajectory
             \/ \E outcome \in Outcomes : FinishTrajectory(outcome)
             \/ \E safe \in BOOLEAN : ReceivePeerDetectionChecked(safe)
             \/ ClearDetections

-----------------------------------------------------------------------------

\* However calls fail, the daemon is told to end a trajectory at most once, and
\* never one that the orchestrator still runs.
EndedOnce == /\ \A t \in Trajectory : ended[t] <= IF t <= started THEN 1 ELSE 0
             /\ trajectoryId \in Trajectory => ended[trajectoryId] = 0
=============================================================================
