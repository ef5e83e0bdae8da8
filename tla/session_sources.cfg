CONSTANTS
  Source = {d1, d2}
  Pose = {p1}
  Status = {ok}
  NoState = NoState
  NoPeer = NoPeer
  NoCheckpoint = NoCheckpoint
  WireMod = 5
  ReplayDepth = 2
  Epoch <- OneEpoch
  MaxSeq = 5
  KeyframeInterval = 5
  MaxPeers = 1
  MaxAge = 1
  MaxSkew = 0
  Ttl = 0
  ClockError <- ClockExact
  MaxNow = 1
  MaxSent = 6
SPECIFICATION Spec
INVARIANTS CapacityBounded KeyframeRepairs
