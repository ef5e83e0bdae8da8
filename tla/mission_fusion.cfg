CONSTANTS
  DroneCount = 3
  CorridorEnd = 5
  VictimAt <- MCVictims
  MaxSpeed = 1
  Confidence <- MCConfidence
  Noise = {0}
  ReportFrom = 60
  FuseFrom = 50
  ConfirmAbove = 70
  MinGap = 1
SPECIFICATION SarSpec
PROPERTIES HeadFusesDetections
CHECK_DEADLOCK FALSE
