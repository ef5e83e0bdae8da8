# A TLA+ model of ruv-drone

ruv-drone is a Rust library for coordinating a fleet of drones. Each vehicle
runs an orchestrator: a periodic control step with a fail-safe machine, a search
mission and advisory inputs. Around it are the LatentMesh sessions that carry
state between vehicles, services such as gossip, auction and forecasts, and the
loops that simulate, train and evaluate fleets. The modules here model the parts
that decide something over time, check them with TLC on small instances and
prove, with the TLA+ proof system, what matters most for every instance. Paths
below are relative to the repository root (`src/` inside it is the crate).

## 1. The system

| Part | State | Operations | Hard behaviour |
|---|---|---|---|
| LatentMesh transmit session, `latentmesh/protocol.rs` | epoch, next sequence, last state sent | encode, rotate epoch | sequences run out; a restarted sender re-uses them |
| LatentMesh receive session, same file | per source: epoch, replay window, last sequence and stamp, state held, "needs a keyframe"; an ingress slot with partial messages, a rate window and the last receipt time | ingest a frame, expire, export and restore checkpoints | loss, duplication, reordering, restarts onto old checkpoints, clocks, limits |
| State schema, `latentmesh/state.rs` | - | to and from fixed point | rounding at the ends of a range |
| Node and metrics, `latentmesh/node.rs`, `metrics.rs` | sessions, policy, counters | the sessions' operations, counting, snapshots | threads count while a snapshot reads; two tables classify one outcome |
| Policy, `latentmesh/policy.rs` | manifests, the last link measurement | authorize, evaluate, schedule | costs multiply after a message was sized; measurements age |
| Transports, `latentmesh/transport.rs` | a bounded queue or a socket | send, receive, drop | a full or closed queue, cut datagrams |
| Orchestrator, `orchestrator/mod.rs` | drone state, peer states, peer detections, advisory store, grid, coverage, trajectory id | `step`; receive peer state, detection, advisory; eligibility; expiry | inputs arrive between steps; the fail-safe returns early |
| Fail-safe machine, `failsafe/mod.rs` | state, start of the link outage | `tick`, `force_land` | priority of collision, link and battery; what ends an emergency |
| Grid and coverage, `planning/` | probabilities, pheromone, scanned cells, phase | update, mark, next target | grid and clamp disagree; a phase that never goes back |
| Patterns and planner, `planning/patterns.rs`, `rrt_apf.rs` | step; a tree of nodes | next target; plan | areas that do not divide; pushes off obstacles |
| Sensing, `sensing/` | - | scan, fuse | one drone heard twice |
| Raft, `topology/raft.rs` | role, term, vote, votes counted, log | `tick`, `handle_message`, `try_promote` | late, lost and concurrent messages |
| Gossip and mesh, `topology/gossip.rs`, `mesh.rs` | versioned value; node map and head | merge, bump, spread; add, remove | writers at the same version, late bids of members that left |
| RuForecast, `forecast/mod.rs` | bounded history, last forecast | observe, eligibility | staleness, abstention |
| Auction, `allocation/auction.rs` | pending tasks, bids | announce, bid, resolve | late bids, tasks without bids, NaN scores |
| Link security, `security/` | hop index, history of samples; signature counter; boundary | hop, observe, sign, verify, check | several positions are one channel; vertices level with a point |
| RuFlo hooks, `orchestrator/mod.rs`, `ruflo/` | active trajectory | start, finish, store, query | each call may fail before or after it took effect |
| Missions, `integration/swarm_sim.rs` | places, reports | the two loops | who hears of what, and when |
| MAVLink messages, `integration/mavlink_messages.rs` | - | encode, decode | casts |
| Learning, `bin/train_marl.rs`, `marl/` | rollout buffer, visits, checkpoint | step, returns, save | whose reward enters whose return |
| Evaluation, `evals/` | ring of places, coverage, first sight | `run_episode` | what is counted as seen |
| Jellyfish, `crates/ruv-jellyfish` | phase, speed, energy debited; a fleet | gait, loiter, bloom | one budget for two kinds of use; attraction against separation |
| Formation, configuration, demos, viewers, harness | - | - | no decisions over time |

They interact as follows. A drone's orchestrator state is what its LatentMesh
node encodes. Frames cross an unreliable datagram network. The receiving node
turns each admitted message into a verified advisory with an expiry; the
deployment hands it to that vehicle's orchestrator, which only uses it to answer
whether a peer is eligible for new work. Peer states and detections come in
through another channel and feed the fail-safe machine (distance to the nearest
peer) and fusion. Within a vehicle operations are method calls on `&mut self`,
so an operation is atomic and concurrency lies in the order of calls and
messages; only the node's counters are shared by threads. The code persists
nothing but the trainer's checkpoints: a deployment is asked (user guide) to store what
`replay_checkpoints()` exports and to restore it after a restart.

What makes each part correct:

- sessions: state held for a peer is a state it sent, under the mark held for it;
  marks and stamps only move back by restarting, and only to stored ones; state
  that was given up returns by a keyframe; a keyframe repairs the chain;
- ingress: bounds on contexts, age and rate hold whatever fails;
- store: eligibility follows the newest report, and an unfit peer stays unfit
  until a newer report;
- control step: no flight close to a peer or to one at an unknown place, a lost
  link ends in a return home, an emergency ends only by a low reading or a long
  outage, a sweep ends, contacts are pursued;
- Raft: a leader has a majority, one leader per term, terms advance;
- services: replicas agree at rest but for foreign writes, awards go to bidders, forecasts only reduce,
  reserves are kept, what is sent is read closely or as its range ends, energy is
  accounted once and at no more than its price, patterns cover, paths can be flown, what is counted happened.

## 2. Modules

| Module | Models | Uses |
|---|---|---|
| `LatentMeshAir` | the external crate `latentmesh_air_core` as used: deltas, hashes, replay window | |
| `LatentMeshTx` | `LatentMeshTxSession` for every source | `LatentMeshAir` |
| `LatentMeshRx` | `LatentMeshRxSession` from a reassembled message on | `LatentMeshAir` |
| `LatentMeshSession` | both, the network, clock, checkpoint store, restarts; the refinement | `LatentMeshTx`, `LatentMeshRx`, `AdvisoryLedger` |
| `AdvisoryLedger` | what the session layer promises (abstract) | |
| `LatentMeshIngress` | one ingress slot: rate, contexts, timeouts, reassembly | |
| `AdvisoryStore` | node, hand-over and orchestrator store | |
| `DeliveryPolicy` | `CapabilityGate` and `AdaptivePolicy` over a measured link and a store of energy | |
| `NodeMetrics` | counters of session and node, snapshots beside counting threads | |
| `FrameTransport` | the bounded loopback and connected UDP sockets | |
| `StateCodec`, `MavlinkCodec` | the two encodings of a drone's state, and of a detection | |
| `FailSafe` | `FailSafeMachine` | |
| `Orchestrator` | the fail-safe half of `SwarmOrchestrator::step` and its inputs | `FailSafe` |
| `Coverage` | the mission half: scan, grid, phases, choice of a cell, motion | |
| `Vehicle` | the whole of `step` | `Orchestrator`, `Coverage` |
| `Forecast` | `ForecastEngine` as the control step feeds it | |
| `Ruflo` | trajectories, mission memory and safety check against a backend that fails | |
| `Sensing` | a scan and multi-view fusion on a corridor | |
| `Mission` | `run_mission_with_report`: assist, fusion, confirmation, separation | `Sensing` |
| `SarLoop` | `run_sar_simulation` | `Sensing` |
| `Training` | rollouts, rewards, curiosity, returns, checkpoints | `Sensing` |
| `Patterns` | `FlightPattern::next_target` | |
| `EvalEpisode` | `run_episode` and when a GDOP exists | `Patterns` |
| `Planner` | `RrtApfPlanner::plan` on a line | |
| `Raft` | `RaftNode` in a cluster with a network | |
| `Gossip` | `GossipState` and its spreading | |
| `Auction` | `AuctionAllocator` over the members of a `MeshTopology` | |
| `LinkSecurity` | `FhssRadio` and `MavlinkSigner` | |
| `Geofence` | `Geofence::check` | |
| `Jellyfish`, `Bloom` | one drone's gait and budget; a fleet under the bloom rule | |
| `LatentMeshSessionProofs`, `LatentMeshIngressProofs`, `RaftProofs` | theorems | the modules they name |
| `VehicleProofs` | theorems on the control step and the whole of `step` | `Vehicle` |
| `SwarmProofs` | theorems on services of the fleet and its learning | `Ruflo`, `Forecast`, `Gossip`, `Jellyfish`, `Bloom`, `Auction`, `Training` |
| `FlightProofs` | theorems on where drones fly | `Mission`, `Planner`, `Patterns`, `EvalEpisode` |
| `TrafficProofs` | theorems on what nodes send, count, carry, read and store | `NodeMetrics`, `FrameTransport`, `DeliveryPolicy`, `StateCodec`, `MavlinkCodec`, `AdvisoryStore` |
| `FoldLemmas` | induction, folds and sums, for the proofs | |
| `MC...` | instances for TLC | the modules they check |

A definition marked "Mutant" in a module is the code with a plausible slip, kept
to show that a property notices it; no specification uses it.

How state and actions correspond:

- **Sessions.** `tx[s]` is the session of source `s`; `sent` is every message
  ever handed to a transport. Nothing leaves `sent`, so a message may arrive never, once,
  often and in any order. `peers[s]` is `PeerRuntime`, with
  `critical` standing for `critical` and `snapshot`, which the code sets and
  clears together. `ingress` is the set of sources owning a slot. `Admit` and
  `Reject` are the two outcomes of `admit_complete`, `Expire` is `expire_stale`,
  `Persist`/`Restore` are `replay_checkpoints`/`restore_replay_checkpoint`,
  `Restart` builds a new receive session. A hash in a delta stands for the
  content it is taken of, and a message in the network is one that verifies:
  forging a signature or colliding a hash is not modelled. A state is a stamp, a
  pose and a status, which is enough for a delta to carry some fields and not
  others. The wire sequence is the logical one modulo `WireMod`; the replay
  window is `latentmesh_air_core`'s, assumed to be serial arithmetic with a
  bounded memory behind the head.
- **Deployment.** After a restart a source with a stored checkpoint is `pending`
  until it is restored, and nothing of it is admitted meanwhile: this is what
  the user guide asks for, and it is an assumption of the model. A deployment
  that never restores is one that stores nothing.
- **Ingress.** `LatentMeshIngress` is one source's `PeerIngress`. `started` is
  `context_started_ms`, `inflight` what the reassembler holds. What the
  reassembler does with a partial message when a push fails is not known from
  this repository, so both outcomes are allowed. `counted` and `swept` are
  history. A receipt time may be one tick behind the clock, which reaches the
  regression check.
- **Store.** `admitted` is the newest mark the node let through, `handed` what
  the deployment still has in its hands, `advisories` the store. `received` is
  history. A mark stands for the pair (epoch, sequence), which the store compares
  as one. `fit` is the conjunction of battery, link and fail-safe tests.
- **Delivery.** `Evaluate` is `evaluate` with its order of refusals; `link` is
  the last `LinkMetrics`, which ages, and `energy` what the drone has by then.
  `Schedule` is the sort by density, stable, with refused intents last.
  Ratios are in percent. `Deliver` sends what was let through, which draws what
  encoding and all copies of it cost.
- **Counters and transports.** A counter saturates at `MaxCount`. Frames are
  ingested through an exclusive reference and so atomically; `view` is a snapshot
  under way, which loads one counter at a time while evaluators count, a residual's drop
  in two loads. A full channel makes the sender wait, which is an action that is
  not enabled. A UDP datagram may be lost, repeated or overtaken, and one
  longer than the buffer is cut by the operating system.
- **Codecs.** A reading is an integer of parts of a step, so that rounding and
  cutting show; one quantity stands for those treated alike. Casts are Rust's
  `as`: towards zero, saturating, NaN to zero, integers modulo their width. Speed
  stands for speed and heading, neither of which is in the payload.
- **Control step.** A reading is a class: what the comparisons of `tick` tell
  apart, NaN included. `loss` counts seconds since `link_loss_start` up to one
  past `RthSecs`. `Step` is the decision half of `step`: clearing of detections,
  distance, fail-safe tick. `lastStep` is history: the battery and the peers a
  step saw, if it flew the mission. `MissionStep` is the mission half, in the code's
  order, with probabilities in percent and the pheromone in tenths. `VehicleStep`
  is both. `Sense` and `LinkChange` are the environment. The grid has
  `Width` columns (the area over the resolution, rounded up) of which
  `pos_to_cell` reaches `ReachWidth` (rounded down).
- **Forecast.** `FlyingStep` stamps and observes, `GroundedStep` does neither.
  What the forecaster answers is any of abstention, error and a quantile above
  or below the threshold.
- **RuFlo.** A call to the daemon takes effect or not and is answered or not,
  independently. `ended` counts what the daemon was told.
- **Raft.** `network` holds messages on their way; delivering one removes it, a
  message that stays there for ever is lost. `granted` is history. The log is
  empty at all times, since no code appends to it, so `AppendEntries` is a
  heartbeat and the restrictions on logs that Raft has (and this code has not)
  do not arise.
- **Gossip, auction.** `Spread` gives the value to any `Fanout` of the
  candidates; any node may bump the copy it holds, which keeps its origin, and a
  value is named by the node that wrote it. Bids keep their order;
  `bidders` is history. `resolve` walks a hash map, hence any order of tasks.
- **Radio and signing.** Channel selection is the code's exclusive or and
  remainder. An evasive jump needs a full window of poor samples. The signer is
  modelled by its counter and window; a signature stands for what it is over.
- **Geofence.** Ray casting and distances in exact integer arithmetic on a lattice.
- **Missions.** Places on a corridor, confidence a function of distance, in the
  code's order of assistance, fusion, confirmation and separation. A report keeps
  its place and the number of viewpoints it was fused from. Where a drone
  flies in its step is any hop, as that is what `Vehicle` is about.
- **Training and evaluation.** The buffer is the one line of transitions of all
  drones that the trainer keeps. An episode follows `Patterns` on its area.
- **Patterns.** The two lawnmowers are exact; of the others only that they are
  clamped to the area is kept. **Planner.** Samples, obstacles and the start lie
  on a line, so that a step and a push are additions; the push off an obstacle is
  the code's quotient, rounded to tenths of a metre.
- **Jellyfish.** Speeds and energies are integers. The quotients of the gait are
  rounded up, so that like the code's they never come down to 0. A step may be of
  no length, and the drift floor may be 0. `coasted`, `loitered` and `odd` are
  history: the way coasted, what station keeping has used, and whether the number
  of steps cruised is odd, which makes cruising a change of state also where
  nothing else changes. Once the budget is spent the counters stop (a bound). A fleet is on a line through the peak of the field.

## 3. Runs

| Run | Module, bounds | Shows |
|---|---|---|
| `session_chain` | 1 source, 2 poses, 2 epochs, sequences 0-4, keyframe every 2, 4 messages, clock 0-2, lifetime 1 | `SnapshotIsSent`, `LedgerSpec`, `StateReturnsByKeyframe`, `StampsAdvanceInEpoch` |
| `session_sources` | 2 sources, 1 slot, 1 epoch, 6 messages in a wire space of 5, keyframe every 5, clock 0-1, lifetime 0 | `CapacityBounded`, `KeyframeRepairs` |
| `session_epoch_start` | 1 source, 1 pose, 2 epochs | `KeyframeBoundsRecovery` is violated |
| `ingress_slot` | 3 contexts for 2 places, 2 contents, 2 parts, clock 0-4, window 3 | `InFlightBounded`, `NothingStaleAfterFrame`, `BurstBounded`, `NoSilentEviction` |
| `ingress_expiry` | the same | `ExpiryRemovesContexts` is violated |
| `orchestrator_step` | `MCVehicle`: 2 peers, 1 detection, hold 1, return 2; a grid of 2 x 2 with a victim | `FlightIsSeparated`, `LinkLossReturnsHome`, `EmergencyEndings`, `SweepCompletes`, `ContactsConverge` |
| `orchestrator_battery` | 2 peers, 1 detection | `BatteryFailsClosed` is violated |
| `raft_election` | 3 nodes, 2 terms | `LeaderHasMajority`, `VoteKeptUntilLeader`, `TermsAdvance` |
| `raft_safety` | the same | `OneLeaderPerTerm` is violated |
| `raft_pair` | 2 nodes, 1 term | `LeaderHasMajority` is violated |
| `mission_fusion` | 3 drones, places 0-5, 2 victims | `HeadFusesDetections` is violated |
| `services` | the parts below | the properties below |

`services` checks the components that stand alone. They share no state, so
`MCServices` lets a behaviour be about one of them (`part`) and keeps the others
at one initial state: their states add up instead of multiplying, and no
interleaving that could matter is lost. `MCVehicle` does the same with the two
halves of a vehicle: one half flies among peers with the fail-safe machine in
every state, the other runs the whole of `VehicleStep` on the grid, alone in the
air, so that the peers do not multiply the states of the search.

| Part | Bounds | Property |
|---|---|---|
| advisories | 2 sources, 2 marks, clock 0-3, lifetime 1, context age 2 | `EligibleByNewest`; `UnfitUntilNewer` |
| delivery | 7 intents over all classes, 6 loss levels, energy 20, clock 0-3 | `SingleSendKeepsReserve`; `DeliveryIsReasoned`: a worse link never lets more through, and a schedule of three intents, one of them twice, is in its order |
| metrics | 2 evaluators, counters to 2, 1 frame, 2 drops | `CountersAgree`, `SnapshotsNeverGoBack` |
| transport | capacities 0-3 of at most 2, frames up to 1 over the limit, 3 sends | `ReceivedAsSent` |
| codec, mavlink | readings in quarters of a step to 20 steps; in halves of a unit to 3 or 4, and NaN | `CodecsAgree` |
| forecast | history of 3, at least 2, step 2, lifetime 2, clock 0-6, all rollouts | `ReductionIsBacked` |
| ruflo | 2 trajectories, 2 missions, good and bad outcomes | `EndedOnce` |
| gossip | 3 nodes, fan-out 1, versions to 3, every node bumping whatever copy it has | `ReplicasConverge` |
| auction | 1 task, 2 bidders, scores 1, 2 and NaN, 2 bids, 2 awards | `AwardedToBidder` |
| radio, signer | 0, 3, 4 and 5 channels, window of 2 samples, 2 jumps, 3 signatures | `EvasionEscapes` |
| geofence | a square, a pentagon, a degenerate line; every point of 9 x 9, reached from a neighbouring one at any of three altitude classes, NaN | `OnlyInsidePasses` |
| jellyfish, bloom | peak speed 12, drift floors 0, 4 and 20 (clamped), steps of 0-2, budget 40; 3 drones from 5 starts, 3 flows, 30 ticks | `BudgetAccounts`, `GaitCycles`; `BloomSettles` |
| patterns, episode | swarms of 1-3, areas 6-12 by 3-7, scan 2 and 5; 13 steps, a ring of 5 | `PatternsCover` |
| planner | 5 iterations, 5 samples, obstacles at any of 3 places | `PlanHangsTogether` |
| mission | 3 drones, 2 victims, places 0-4 | `TwoViewpoints`, `PairsEndApart` |
| training | 3 drones, places 0-4, 2 episodes of 2 steps, 4 learning patterns | `RolloutAccounted` |

Why the bounds are enough. Four messages with a keyframe interval of two hold a
keyframe, a delta, a second keyframe and a delta on it, or an epoch and the start
of the next, or a restarted sender's second numbering of the first two: every
case `admit_complete` distinguishes. Two poses are the least with which a
merge on a wrong base shows. In `session_sources` the
sixth message has the wire sequence of the first, and half of a wire space of five
is a gap of two: a keyframe is admitted after a lost message, across the wrap,
after an expiry, and after a restart onto a restored checkpoint. In `session_chain`
messages are admitted after a restart onto an older checkpoint, so that a stamp
that goes back is seen to go no further. In both runs the clocks of senders are
exact; skew is covered by the theorems only. With three contexts for two places the reassembler is full
and refuses; five clock values span a whole rate window and the start of the
next. A grid of two by two has a row that is swept backwards and a cell that is
not next to the first. Three nodes are the least with a majority smaller than the
whole, two terms the least with a vote arriving late. Three gossiping nodes with a
fan-out of one are the least in which two writers' values meet at a third in either
order, and with three versions a foreign write, its bump and a rival of both meet. Three drones are the least in which a pair is crowded by another.
A forecast history of three drops its oldest sample while one more than it needs
is there.
Channel counts are one power of two, one that makes a jump a full circle and one
that does neither.

Deadlock is checked except in the Raft runs (only `MaxTerm` ends elections), in
`mission_fusion` (the loop ends) and in `services` (parts end: a plan is made, an
episode is over, a budget of sends is used up).

Symmetry: poses, contexts, contents, parts and Raft nodes are compared for
equality only. It is used in no run with a liveness property, nor for sources.
Type invariants are stated as `TypeOK` (or `...TypeOK`) in their modules. Those of
the sessions, the ingress slot, the store, the control step, the grid and Raft
are proved as they stand, those of the services proved about are part of their
inductive invariants (section 5).

Fairness. `LinkLossReturnsHome`, `SweepCompletes` and `ContactsConverge` are
liveness properties of `orchestrator_step`. It assumes that the control loop keeps
calling `step` (`WF` of `Step` and `VehicleStep`) and that time passes
(`WF(Second)`), which is what a flying vehicle does. No fairness is assumed of
the link, peers, sensors or of which cell between here and the target a step
reaches; `SweepCompletes` and `ContactsConverge` therefore name what must happen
time and again for them to hold (a step that gets somewhere; a reported contact), and
`GaitCycles`, which assumes no fairness at all, names the cruising it is about:
by steps that have a length, time and again.
`ReplicasConverge` says of convergence what holds without fairness: nothing goes back,
and where nothing is left to tell all agree, up to the foreign writes it names.

## 4. Where code and statements differ

1. **A lost epoch opener** (`session_epoch_start`). `TxConfig` says a periodic
   keyframe bounds recovery from a loss. A receiver only enters an epoch at
   sequence zero, so if that message is lost, later keyframes are refused.
2. **Expiry leaves partial messages** (`ingress_expiry`). The user guide says
   `expire_stale` removes reassembly contexts; it does not.
3. **Battery under link loss** (`orchestrator_battery`). The comment at the
   battery check demands failing closed; without link the check is not reached.
4. **Two leaders in a term** (`raft_safety`). A heartbeat clears the vote of the
   current term, so the voter may give it again.
5. **A leader without a majority of two** (`raft_pair`). `tick` takes the other
   nodes for the cluster, and with one of them its quorum is one.
6. **The head fuses nothing** (`mission_fusion`). The simulation loop says that
   the cluster head fuses the detections of a step. A step clears the list the
   loop reads, and its own scan goes to the grid only, so that list is always empty.

`VoteKeptUntilLeader` states what of the vote's stability does hold: only a
heartbeat of the term takes a vote back. `LeaderHasMajority` holds in every
cluster but that of two even so (`LeadersAreElected`), as the second leader has a
majority too; and `RivalsShareVoter` shows that this is the only way to two
leaders: some node voted for both.

What else the properties had to leave out, since the code does not promise it:

- **Coverage.** `SweepCompletes` needs an area that is a multiple of the
  resolution. Otherwise the last row or column of the grid is out of
  `pos_to_cell`'s reach, is never marked, and the sweep does not end.
- **Emergencies.** A reading that is low and not critical turns any emergency into
  `LowBatteryWarn`, which flies the mission, in one tick, a forced landing
  included (`failsafe/mod.rs:90`), and a good reading then makes that `Nominal`
  (`:92`). A link lost for longer than the hold turns any emergency into
  `AutonomousHold` until it is lost for longer than the return time, and its return
  makes that `Nominal` (`:72-80`). `EmergencyEndings` says that these are the only ways.
- **Gossip.** `bump` leaves the origin (`gossip.rs:35`), so two nodes that bump
  copies of one origin, which the comment above it invites them to, give the
  version and origin they share to two values, and `merge` keeps both. And
  `spread` never tells an origin what others wrote in its name (`:39-51`).
  `ReplicasConverge` names both.
- **Gait.** `sanitized` lets the drift floor be 0 (`pulse.rs:66`). The coast, which
  divides (`:179`), then never comes down to it: the drone ends up coasting for good.
  With a floor above 0 it cycles, as long as the numbers are fine enough for a
  quotient to get there; the run's are. The comment on `Phase::Drift` says toward the floor
  (`:29`), the code decays toward 0. The drag of a pulse is not charged, and its
  price bounds what pulsing costs for the way that is coasted.
- **Codecs.** A heading close to a full turn rounds past it, is signed, and
  refused by every receiver. MAVLink states carry no speed, heading or time, and
  a detection's time only modulo 2^32. A position that is NaN is sent and read as the
  origin, a NaN battery as empty, a negative or NaN confidence as 0, and what is out
  of the range of its field as the end of it. (A LatentMesh state like that is
  not sent.)
- **Radio.** A jump is counted in positions. With a number of channels that is
  no power of two it may land on the channel it leaves; with three it always does.
- **Bloom.** Two drones in one spot get no direction to part and stay there.
- **Planner.** A node on the very spot of an obstacle is not pushed, several
  obstacles may push a node onto one another, and the direct line taken when
  no path is found ignores obstacles.
- **Training.** The buffer is one line for all drones, also where
  `marl/learning.rs:21` says each agent learns alone: a return adds up the
  rewards of whoever comes after it, and ends at the first turn of the
  last step (`train_marl.rs:424`). The collision penalty looks at where drones
  were when the step began (`train_marl.rs:284`).
- **Evaluation.** Cells are narrower than a scan width where that does not
  divide the strips, and a sweep may then leave some out (`runner.rs:103`).
  Drones that fly the unpartitioned lawnmower are all in one place: they
  collide at every step, and never get a GDOP.

## 5. Proofs

Every theorem holds for all values of the constants that satisfy the named
`ASSUME` of the modules it extends (each a bound that is a natural number, a finite
set, a percentage or a value outside a set; nothing about how large, with two
exceptions named below). One theorem and its corollary have a hypothesis of their own, named where they are stated.
All theorems follow one scheme: an invariant `IInv` that `Init` establishes and
every action preserves (one lemma per action), and the property from it. Where
the property is not inductive, what had to be added says why the code works:

| Theorem | States | What the invariant adds |
|---|---|---|
| **`LatentMeshSessionProofs`** `TypeCorrect`, `HeldStateWasSent`, `CapacityKept` | `[]TypeOK`, `[]SnapshotIsSent`, `[]CapacityBounded` | every delta ever sent was made by `Between` of its own base and result (`SentWellFormed`), so that whatever passes the hash check applies to what it was made for (`ApplyBetween`); a source is pending exactly when it has a checkpoint and no runtime (`PendingIsUnrestored`), on which a restore rests |
| `SessionImplementsLedger` | `Spec => LedgerSpec` | the same invariant; every action is a step of `AdvisoryLedger` or a stutter |
| `KeyframeAlwaysRepairs` | `[]KeyframeRepairs` | sequences less than half the wire space ahead are as far ahead on the wire (`WireDistance`, `AheadIsUnreplayed`), for every size of it |
| `StampsGoBackToDurable` | `StampsAdvanceInEpoch` | a checkpoint is never ahead of the source's mark, and in its epoch never of the stamp held (`DurableBehind`), so a restart goes back to the stored stamp and what is admitted then is not behind it |
| `ReturnsByKeyframeOnly` | `StateReturnsByKeyframe` | the same invariant, action by action |
| **`LatentMeshIngressProofs`** `IngressTypes`, `ReassemblyBounded`, `StaleContextsGo`, `NothingIsEvicted` | `[]TypeOK`, `[]InFlightBounded`, `[]NothingStaleAfterFrame`, `NoSilentEviction` | the three together: a partial message has a start time no older than the timeout at the last counted frame, and there are no more than places |
| `BurstsAreBounded` | `[]BurstBounded` | what is counted since the open window began is its count, and what a span that reaches into it has before it is at most one window's (`WindowsCount`); both bounds become the one for spans that end before, when a new window opens |
| **`VehicleProofs`** `OrchestratorTypes`, `FlightKeepsApart`, `EmergencyEndsOnlySo` | `[]TypeOK`, `[]FlightIsSeparated`, `EmergencyEndings` | a tick that lets the drone fly found the nearest distance clear, and one poisoned peer poisons that distance (`FliesOnlyClear`); of the branches of a tick two lead out of an emergency (`NextEndsOnlySo`) |
| `VehicleKeepsApart` | both, of `VehicleSpec` | a vehicle's step is a step of the control step (`VehicleSteps`) |
| `MissionStaysOnGrid` | `[](CoverageTypeOK /\ CountsScanned)` | `pos_to_cell` lands on the grid whichever way the area is rounded, and Bayes' rule in whole percent stays between 0 and 100 (`PosteriorType`) |
| **`RaftProofs`** `RaftTypes` | `[]TypeOK` | see the next row |
| `LeadersAreElected`, `RivalsShareVoter` | in any cluster but that of two: `[]LeaderHasMajority`, and two leaders of a term have a voter in common | a candidate's count is a bare number. It counts voters because a reply is sent once per vote (`RepliesAreGranted`, `RequestsAreNew`) and what is still on its way is not counted (`VotesAreCounted`) |
| `VotesAreKept`, `TermsNeverGoBack` | `VoteKeptUntilLeader`, `TermsAdvance` | the same invariant |
| **`SwarmProofs`** `TrajectoriesEndOnce` | `[]EndedOnce` | the orchestrator knows no trajectory that was not begun, so one that begins has never been ended |
| `ReductionsAreBacked` | `[]ReductionIsBacked` | samples are at strictly increasing instants, each of them observed (`HistoryKept`), so that a history of a given length is as many observations (`IncreasingCounts`) |
| `GossipConverges` | `ReplicasConverge` | whoever wrote the state a node holds is itself not behind it (`WriterIsNewest`). At rest a node is behind every other, but for the origin of a foreign write it holds, which it never tells (`SettledBehind`, `SettledAlike`) |
| `OneBudget` | `[]BudgetAccounts` | the mark is what both counters add up to (`JellyfishIInv`), so what a step debits is what it has added. Every step keeps the balance between what pulses were charged, what is in the speed and what the coast has lost (`GaitStepBalance`), as rounding up loses no more than the drag on the way takes (`DragOfTheWay`) |
| `FlowMakesNoDifference` | `[](FlowIsCompensated /\ NobodyParts)`: the parts of `BloomSettles` that need no gains: with a flow it can counter a fleet is where it would be in still air, and drones in one spot stay in one | a desired velocity is clamped to the ground speed whatever the sums of forces are (`DesiredBounded`), so the airframe has room for the flow; a velocity depends on where a drone is, not on which it is (`OnePlaceOneVelocity`) |
| `AwardsGoToBidders` | `[]AwardedToBidder` | a bid that is held was made since the task was last open (`BidsAreOpen`), and the fold that compares bids returns one of them whatever is not comparable (`BestIsAnOffer`) |
| `RolloutsAreAccounted` | `[]RolloutAccounted` | an episode's last transition is done (`EpisodeEndsDone`), so no return reaches past it. The running sum taken from behind is the sum of the discounted rewards (`ReturnsAddUp`), by induction from the end of the buffer; `compute_gae` without estimates satisfies the equation of `compute_returns`, which has one solution (`GaeIsTheReturn`) |
| **`FlightProofs`** `TwoDronesConfirm` | `[]TwoViewpoints` | every drone is in the list of reports once (`Distinct`): a scan reports once, and who is vectored to a contact is not the one who has it (`NearestIsOne`, `TwoAreHeard`) |
| `SeparationSeparates` | `[]PairsEndApart` | the push is a sum over all drones, of which only one term is not zero for a pair nobody crowds (`PushedByOne`); drones in one place are parted by their numbers |
| `PlansHangTogether` | `[]PlanHangsTogether` | a parent stands before its child in the tree, so the way back ends (`TraceExists`) and is a chain (`TraceIsWay`); every node is one whole step and one push off its parent (`StepsWhole`) |
| `PatternsAreCompared` | `[]PatternsCover` | what was flown are the targets of the pattern (`Flights`), the ring is no longer than that (`RingFits`), a cell's count is zero, one or more as nobody, somebody or two marked it (`CountsAreMarks`), and collisions grow by all pairs or none (`ApartOrTogether`). Columns and rows of a sweep are a division with remainder, of which there is one (`DividedOnce`), so that every cell of a strip is met and none twice (`SweepTiles`) |
| **`TrafficProofs`** `CountersTellOneStory` | `[]CountersAgree` | a thread between its two counts has counted the drop already (`SuppressionsFollow`), however many threads there are |
| `SnapshotsAdvance` | `SnapshotsNeverGoBack` | what a snapshot under way has loaded lies between the last snapshot and the counters (`LoadsBetween`) |
| `FramesArriveWhole` | `[]ReceivedAsSent` | a frame keeps what it was accepted as (`AsAccepted`), a channel is what was received followed by what is under way (`ChannelInOrder`), and its end is told only once it is empty (`ToldIsDrained`) |
| `DecisionsAreReasoned` | `[]DeliveryIsReasoned` | a message is sent exactly if it passes every check (`SendsWhen`), whatever their order; with more loss each check is as hard or harder, as redundancy only grows (`WireGrows`, `BudgetsFollowTheLink`). Sorting three decisions by a strict order is done once (`ThreeSort`) |
| `ReserveIsKept` | `SingleSendKeepsReserve` | what was let through has passed the check against reserve and share, and what it draws is what was checked |
| `CodecsReadBack` | `[]CodecsAgree` | what is on the air is a rounding of a reading in range (`CodecIInv`). Rounding half away from zero is odd, moves by half a step at most and keeps whole steps (`RoundedIsNear`, `WholeStepsStay`). Cutting moves by less than a unit toward zero, and what is past an end of the type is cut to that end or past it (`CutIsNear`, `UnitsApart`, `CastReadsAs`) |
| `StoreTypeCorrect`, `EligibilityFollowsNewest`, `OnlyNewerBringsBack` | `[]TypeOK`, `[]EligibleByNewest`, `UnfitUntilNewer` | the store forgets its mark when an advisory expires and may then take an older one. Lifetimes are equal and marks admitted in order, so what has the smaller mark expires no later (`InAdmissionOrder`), and when a newer mark has been forgotten everything older is past its expiry too (`ForgottenIsExpired`) |

`LeadersAreElected` assumes `NotAPair`, that the cluster does not have exactly two
nodes: `raft_pair` shows that the theorem is false for two. The bounds on clocks,
terms, versions, sends and the like are constants too, so the theorems hold for
any of them; they are guards of the model, not of the code. The specifications
that `SwarmProofs`, `FlightProofs` and `TrafficProofs` are about have the same `Init`
and next-state relation as the parts of `services` do, without the other parts beside
them, and no fairness, which safety does not need. `PatternsAreCompared` and
`CodecsReadBack` are about two such parts, which share no variable.

Two assumptions on constants are more than a type:

- `EvalAssumption` has the strips of a swarm be of whole width (`width % swarm =
  0`). The code divides reals; in a unit of length that is fine enough every
  area is like that. Nothing is assumed of the scan width.
- `ClearanceAssumption` says which clearance can be promised: one that a push off
  a distance within reach always leaves. It is a fact about the code's
  quotient `0.3 * (reach - distance) / distance` in the model's units, checked by TLC
  for the instance, and other clearances are no promise of the code.

**Induction.** What a fold, a sum or a recursive function computes for every
length needs induction, and the library's induction theorems take an operator.
`FoldLemmas` states it in first-order terms: a predicate is the set of the numbers (or
finite sets) that satisfy it, an operator to fold with is a function, and the step
from all smaller cases is the minimal counterexample of `WellFoundedInduction`.
From it come the defining equation of `FoldFunctionOnSet` (`FoldExists`, `FoldsAgree`),
and what sums do: one element taken out (`SumElement`), disjoint unions
(`SumDisjoint`), one term changed (`SumBumped`), a range shifted (`SumShifted`),
monotonicity (`SumMonotone`). The proofs about reassembly windows, separation, bloom, planner,
rollouts and episodes rest on them. What else the proofs take from the library are
its theorems on cardinalities, functions and sequences.

What stays with TLC, and why:

- **Liveness** (`LinkLossReturnsHome`, `SweepCompletes`, `ContactsConverge`) and
  `GaitCycles`, which names what happens time and again, are beyond the proof
  system.
- **`LinkSecurity`** (`EvasionEscapes`) uses `Bitwise`, whose operators are recursive.
- **The rest of `BloomSettles`**: that drones apart never meet, and where a fleet has
  come to after a number of ticks. Both depend on the gains, and with others than those
  given may be false (section 4).
- **`OnlyInsidePasses`** compares ray casting with membership of the polygon given;
  for polygons of any shape that is the Jordan curve theorem.
- **What is refuted**: the statements of the six runs that find a violation.

## 6. Not modelled, and plan

- **Numeric code.** Formation control, the bid scorer, the learner's
  networks and updates, the geometric bias of fusion, the spiral, pheromone,
  potential field and Levy patterns beyond their clamping, and the statistics of
  the evaluations are floating-point functions of their inputs.
- **No decisions over time.** Configuration and types, flight-controller traits
  and mocks, telemetry files, remote id, demos, benchmarks, the harness, the viewers; the
  pheromone field's two clamped assignments; the occupancy bridge, which returns
  a synthetic room; `ReplayBuffer`, which the trainer does not use.
- **UWB anti-spoofing** is one stateless count of distances. (It accepts when
  half of the anchors agree, where its comment asks for a majority,
  `uwb_antispoofing.rs:45`.)
- **Signatures, framing, CRC, encryption** belong to external crates.

Hazards without a property: a node rebuilt from an old checkpoint while its
orchestrator lives on (`orchestrator/mod.rs:244`; a mark no longer tells one
advisory from another then, on which `AdvisoryStore` rests). Known, and
without a property because the code promises nothing there: a wire gap of more
than half the space (`KeyframeRepairs` ends there), a partial message of an old
epoch holding the sequence the next epoch's opener needs, the stamp of a drone
that stands still in an emergency, and a vote counted twice when it is delivered
twice (`raft.rs:181`; the model's network delivers a message once).

What is left:

1. of `OnlyInsidePasses`, the convex polygons, where ray casting can be reasoned about
   edge by edge;
2. of `BloomSettles`, for which gains separation outweighs what draws drones together,
   so that they never meet;
3. the stamp a restored node gives an advisory (the hazard above), once the code says
   what a deployment must keep.
