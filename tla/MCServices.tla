------------------------------- MODULE MCServices ------------------------------
(* What a swarm does beside flying and its LatentMesh sessions.  These      *)
(* parts share no state, and a behaviour is about one of them: their states *)
(* add up.  Parts a behaviour is not about stay at one initial state.       *)
EXTENDS AdvisoryStore, DeliveryPolicy, NodeMetrics, FrameTransport, Forecast, Ruflo, Gossip,
        Auction, LinkSecurity, Geofence, Jellyfish, Bloom, EvalEpisode, Planner, Mission,
        Training, MavlinkCodec

VARIABLE part

Parts == {"advisories", "delivery", "metrics", "transport", "mavlink", "forecast", "ruflo",
          "gossip", "auction", "radio", "signer", "geofence", "jellyfish",
          "bloom", "patterns", "episode", "planner", "mission", "training", "codec"}

servicesVars == <<vars, deliveryVars, metricsVars, transportVars, mavlinkVars, forecastVars,
                  rufloVars, gossipVars, auctionVars, linkVars, fenceVars, jellyfishVars,
                  bloomVars, patternVars, episodeVars, plannerVars,
                  missionVars, trainingVars, codecVars, part>>

MCMaxAge == [c \in TrafficClass |->
               IF c \in {"CriticalCoordination", "CooperativeTask", "LearnedResidual"}
               THEN 2 ELSE IF c = "StateSync" THEN 3 ELSE 4]

Verified == [authenticated |-> TRUE, trusted |-> TRUE, issued |-> 0, expires |-> 2,
             authority |-> 0]

Advice == [class |-> "CriticalCoordination", action |-> "NonbindingAdvisory",
           manifest |-> 0, bounded |-> TRUE, valid |-> TRUE, bytes |-> 2, utility |-> 1, encode |-> 0,
           created |-> 0, deadline |-> 4, security |-> Verified, residual |-> NoEvidence]

Passed == [given |-> TRUE, valid |-> TRUE, evaluated |-> 0, passed |-> TRUE]

MCIntent ==
  {Advice,
   [Advice EXCEPT !.class = "CooperativeTask", !.action = "CooperativeTaskProposal",
                  !.manifest = 7],
   [Advice EXCEPT !.class = "StateSync", !.action = "StateSync", !.created = 1,
                  !.encode = 1],
   [Advice EXCEPT !.class = "Observation", !.action = "Observe", !.deadline = 2],
   [Advice EXCEPT !.class = "LearnedResidual", !.action = "Observe", !.residual = Passed],
   [Advice EXCEPT !.class = "BulkSnapshot", !.action = "Observe", !.bytes = 6],
   [Advice EXCEPT !.action = "ActuatorCommand"]}

MCOutcomes == [coverage : {0, 100}, collisions : {0, 6}]

Square == <<<<1, 1>>, <<7, 1>>, <<7, 7>>, <<1, 7>>>>
Pentagon == <<<<0, 2>>, <<4, 0>>, <<8, 3>>, <<5, 8>>, <<1, 6>>>>
MCBoundaries == {Square, Pentagon, <<<<1, 1>>, <<7, 7>>>>}

MCContexts == [swarm : {1, 2, 3}, width : {6, 12}, height : {3, 7}, scan : {2, 5}]

MCEvalContexts == [swarm : {1, 2}, width : {4, 12}, height : {4}, scan : {2, 3}]
                    \cup {[swarm |-> 3, width |-> 6, height |-> 2, scan |-> 2]}
MCEvalSteps == [p \in {"Boustrophedon", "PartitionedLawnmower", "LevyFlight"} |->
                  IF p = "LevyFlight" THEN 1 ELSE 13]
MCEvalVictim == <<[x |-> 5, y |-> 3], [x |-> 18, y |-> 8]>>

MCSamples == {-100, 10, 35, 55, 1000}

MCVictims == <<0, 4>>
MCConfidence == <<80, 65>>
MCNovelty == <<3, 2, 1>>

MCStarts == {-20, -7, 0, 3, 10}
MCFlows == {0, -400, 1200}
MCSteepness == [d \in 1 .. 100 |-> IF d <= 41 THEN 6 * (d - 1) ELSE 240 - 4 * (d - 41)]

-----------------------------------------------------------------------------

\* A part a behaviour is not about begins in one state, named before its Init.
Pinned(p) == part # p

ServicesInit ==
  /\ part \in Parts
  /\ IF Pinned("delivery")
     THEN link = [observed |-> 0, loss |-> 0, valid |-> FALSE, remaining |-> FullEnergy]
     ELSE TRUE
  /\ IF Pinned("transport") THEN kind = "udp" ELSE TRUE
  /\ IF Pinned("forecast") THEN rollout = "Disabled" ELSE TRUE
  /\ IF Pinned("gossip") THEN replica = [n \in GossipNode |-> New(n)] ELSE TRUE
  /\ IF Pinned("radio") THEN channels = 4 ELSE TRUE
  /\ IF Pinned("geofence")
     THEN fence = Square /\ place = [x |-> 4, y |-> 4, altitude |-> MinAltitude, finite |-> TRUE]
     ELSE TRUE
  /\ IF Pinned("jellyfish") THEN floor = 0 ELSE TRUE
  /\ IF Pinned("bloom")
     THEN hotspot = FALSE /\ flow = 0 /\ fleet = [i \in BloomDrone |-> 0]
     ELSE TRUE
  /\ IF Pinned("patterns")
     THEN /\ pattern = "Boustrophedon" /\ drone = 0
          /\ context = [swarm |-> 1, width |-> 6, height |-> 3, scan |-> 5]
     ELSE TRUE
  /\ IF Pinned("episode")
     THEN /\ flight = "Boustrophedon"
          /\ area = [swarm |-> 1, width |-> 4, height |-> 4, scan |-> 2]
     ELSE TRUE
  /\ IF Pinned("planner") THEN obstacles = {} ELSE TRUE
  /\ IF Pinned("training") THEN learning = "Ippo" ELSE TRUE
  /\ Init /\ DeliveryInit /\ MetricsInit /\ TransportInit /\ MavlinkInit
  /\ ForecastInit /\ RufloInit /\ GossipInit /\ AuctionInit /\ LinkInit
  /\ FenceInit /\ JellyfishInit /\ BloomInit /\ PatternsInit /\ EpisodeInit
  /\ PlannerInit /\ MissionInit /\ TrainingInit /\ CodecInit

\* Everything but one part's variables.
Only(p) ==
  /\ part = p /\ UNCHANGED part
  /\ p # "advisories" => UNCHANGED vars
  /\ p # "delivery"  => UNCHANGED deliveryVars
  /\ p # "metrics"   => UNCHANGED metricsVars
  /\ p # "transport" => UNCHANGED transportVars
  /\ p # "mavlink"   => UNCHANGED mavlinkVars
  /\ p # "forecast"  => UNCHANGED forecastVars
  /\ p # "ruflo"     => UNCHANGED rufloVars
  /\ p # "gossip"    => UNCHANGED gossipVars
  /\ p # "auction"   => UNCHANGED auctionVars
  /\ p # "radio"     => UNCHANGED radioVars
  /\ p # "signer"    => UNCHANGED signerVars
  /\ p # "geofence"  => UNCHANGED fenceVars
  /\ p # "jellyfish" => UNCHANGED jellyfishVars
  /\ p # "bloom"     => UNCHANGED bloomVars
  /\ p # "patterns"  => UNCHANGED patternVars
  /\ p # "episode"   => UNCHANGED episodeVars
  /\ p # "planner"   => UNCHANGED plannerVars
  /\ p # "mission"   => UNCHANGED missionVars
  /\ p # "training"  => UNCHANGED trainingVars
  /\ p # "codec"     => UNCHANGED codecVars

ServicesNext == \/ Only("advisories") /\ Next
                \/ Only("delivery") /\ DeliveryNext
                \/ Only("metrics") /\ MetricsNext
                \/ Only("transport") /\ TransportNext
                \/ Only("mavlink") /\ MavlinkNext
                \/ Only("forecast") /\ ForecastNext
                \/ Only("ruflo") /\ RufloNext
                \/ Only("gossip") /\ GossipNext
                \/ Only("auction") /\ AuctionNext
                \/ Only("radio") /\ LinkNext
                \/ Only("signer") /\ LinkNext
                \/ Only("geofence") /\ FenceNext
                \/ Only("jellyfish") /\ JellyfishNext
                \/ Only("bloom") /\ BloomTick
                \/ Only("patterns") /\ PatternsNext
                \/ Only("episode") /\ EpisodeStep
                \/ Only("planner") /\ PlannerNext
                \/ Only("mission") /\ MissionTick
                \/ Only("training") /\ TrainingNext
                \/ Only("codec") /\ CodecNext

ServicesSpec == ServicesInit /\ [][ServicesNext]_servicesVars
=============================================================================
