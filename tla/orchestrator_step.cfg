CONSTANTS
  HoldSecs = 1
  RthSecs = 2
  Peer = {q1, q2}
  Detection = {v1}
  NoStep = NoStep
  Width = 2
  Height = 2
  ReachWidth = 2
  ReachHeight = 2
  Start <- MCStart
  Victim <- MCVictim
  ScanRange = 0
  Confidence = {70}
  Threshold = 75
  NoTarget = NoTarget
SPECIFICATION HalfSpec
INVARIANTS FlightIsSeparated
PROPERTIES LinkLossReturnsHome EmergencyEndings SweepCompletes ContactsConverge
