CONSTANTS
  Source = {s1, s2}
  NoAdvisory = NoAdvisory
  AdvisoryTtl = 1
  MaxContextAge = 2
  MaxMark = 2
  MaxNow = 3
  Manifest = {7}
  Intent <- MCIntent
  MaxAge <- MCMaxAge
  ContextAgeLimit = 2
  MaxClockSkew = 1
  MaxLinkAge = 1
  MaxEvidenceAge = 3
  Reserve = 10
  MessageShare = 2
  MinDensity = 100
  EnergyPerByte = 1
  BytesPerTick = 4
  Rtt = 1
  LossLevel = {0, 10, 25, 50, 65, 80}
  FullEnergy = 20
  MaxClock = 3
  Evaluator = {1, 2}
  MaxCount = 2
  MaxFrames = 1
  MaxDenied = 2
  Capacities = {0, 1, 2, 3}
  MaxCapacity = 2
  FrameMaxBytes = 1
  MaxTransportSends = 3
  Grain = 2
  CoordinateMax = 3
  ByteMax = 3
  WordMax = 4
  TimeModulus = 4
  HistoryCapacity = 3
  MinimumHistory = 2
  StepMs = 2
  AdvisoryTtlMs = 2
  MaxForecastClock = 6
  MaxTrajectories = 2
  MaxMissions = 2
  Outcomes <- MCOutcomes
  GossipNode = {1, 2, 3}
  Fanout = 1
  MaxVersion = 3
  Task = {t1}
  Bidder = {b1, b2}
  Score = {1, 2}
  MaxBids = 2
  MaxAwards = 2
  ChannelCounts = {0, 3, 4, 5}
  NodeSeed = 6
  HopInterval = 2
  TickLengths = {1, 5}
  JammingDetectWindow = 2
  SignWindow = 1
  MaxEvasions = 2
  MaxSignatures = 3
  Boundaries <- MCBoundaries
  FenceSide = 8
  HardMargin = 1
  SoftMargin = 2
  MinAltitude = 0
  MaxAltitude = 2
  PeakSpeed = 12
  DriftFloors = {0, 4, 20}
  PulseAccel = 4
  DragPercent = 40
  RecapturePercent = 35
  StepTimes = {0, 1, 2}
  EPerDv = 1
  IdlePower = 2
  RelFlow = {20}
  Budget = 40
  BloomSize = 3
  BloomStarts <- MCStarts
  GradGain = 200
  SeparationGain = 300
  CohesionGain = 100
  DispersionGain = 150
  MinSpacing = 8
  NeighbourRadius = 40
  FlatGradient = 10
  Steepness <- MCSteepness
  MaxGroundSpeed = 500
  MaxAirspeed = 1000
  Flows <- MCFlows
  SettleTicks = 30
  GatheredWithin = 8
  Contexts <- MCContexts
  EvalContexts <- MCEvalContexts
  EvalSteps <- MCEvalSteps
  EvalVictim <- MCEvalVictim
  MaxVisited = 5
  MinEvalSeparation = 1
  Start = 0
  Goal = 80
  Samples <- MCSamples
  ObstaclePlaces = {40, 49, 60}
  StepSize = 20
  RepulsionDistance = 30
  Clearance = 15
  MaxIterations = 5
  DroneCount = 3
  CorridorEnd = 4
  VictimAt <- MCVictims
  MaxSpeed = 1
  Confidence <- MCConfidence
  Noise = {0}
  ReportFrom = 60
  FuseFrom = 50
  ConfirmAbove = 70
  SamePlace = 3
  MinSeparation = 2
  Part = 4
  QMax = 20
  HeadingLimit = 35
  BatteryLimit = 10
  MaxNodeId = 3
  Episodes = 2
  StepsPerEpisode = 2
  CheckpointEvery = 2
  FootprintWidth = 2
  CuriousCells = 2
  CuriousWidth = 2
  Novelty <- MCNovelty
  CollisionGap = 1
  Gamma = 2
  Lambda = 2
SPECIFICATION ServicesSpec
INVARIANTS EligibleByNewest DeliveryIsReasoned CountersAgree ReceivedAsSent ReductionIsBacked EndedOnce AwardedToBidder OnlyInsidePasses BudgetAccounts BloomSettles PatternsCover PlanHangsTogether TwoViewpoints PairsEndApart RolloutAccounted CodecsAgree
PROPERTIES UnfitUntilNewer SingleSendKeepsReserve SnapshotsNeverGoBack ReplicasConverge EvasionEscapes GaitCycles
CHECK_DEADLOCK FALSE
