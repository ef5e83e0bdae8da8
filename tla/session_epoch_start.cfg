CONSTANTS
  Source = {d1}
  Pose = {p1}
  Status = {ok}
  NoState = NoState
  NoPeer = NoPeer
  NoCheckpoint = NoCheckpoint
  WireMod = 16
  ReplayDepth = 4
  Epoch <- TwoEpochs
  MaxSeq = 4
  KeyframeInterval = 2
  MaxPeers = 1
  MaxAge = 1
  MaxSkew = 0
  Ttl = 1
  ClockError <- ClockExact
  MaxNow = 2
  MaxSent = 4
SPECIFICATION Spec
INVARIANTS KeyframeBoundsRecovery
