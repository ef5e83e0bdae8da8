CONSTANTS
  HoldSecs = 1
  RthSecs = 2
  Peer = {q1, q2}
  Detection = {v1}
  NoStep = NoStep
SPECIFICATION Spec
INVARIANTS BatteryFailsClosed
